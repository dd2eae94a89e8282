----------------------- MODULE UsageAuthorizerProofs -----------------------
(***************************************************************************)
(* Proofs about UsageAuthorizer, for any number of codes, keys, sessions   *)
(* and ticks.                                                              *)
(***************************************************************************)
EXTENDS UsageAuthorizer, FiniteSetTheorems, TLAPS

USE DEF tables

(* A session only ever holds rows that exist. *)
RowsExist ==
  \A s \in Sessions : \A k \in Keys :
    call[s].step \in {"commit", "release"} /\ k \in call[s].rows
    => res[k] \in ReservationRow

TypeInv == TypeOK /\ RowsExist

LEMMA ConstantTypes ==
  /\ NoCode \notin Codes
  /\ \A r \in Requests : r.key \in Keys /\ r.code \in Codes \cup {NoCode}
  /\ \A p \in Policies : p \in PolicyType
  /\ TTL \in Nat /\ MaxTime \in Nat
BY RequestsAssumption, SentinelAssumption, PolicyAssumption, TimeAssumption

(* What a session that is at a given step holds. *)
LEMMA CallShapes ==
  ASSUME TypeInv, NEW s \in Sessions
  PROVE  /\ call[s].step \in {"lookup", "insert"} => call[s] \in Claiming
         /\ call[s].step \in {"commit", "release"} => call[s] \in Settling
BY DEF TypeInv, TypeOK, Claiming, Settling, Idle

LEMMA DraftShapes ==
  ASSUME TypeInv, NEW a \in Admins
  PROVE  draft[a].step \in {"grant", "revoke"} => draft[a] \in Editing
BY DEF TypeInv, TypeOK, Editing, Idle

(* The row operations keep a row a row. *)
LEMMA RowOperations ==
  ASSUME NEW row \in CodeRow
  PROVE  /\ Hold(row) \in CodeRow
         /\ row.reserved >= 1 => Spend(row) \in CodeRow /\ GiveBack(row) \in CodeRow
<1>1. ASSUME NEW r \in CodeRow
      PROVE  MarkExhausted(r) \in CodeRow /\ Reactivate(r) \in CodeRow
  <2>1. [r EXCEPT !.status = "exhausted"] \in CodeRow /\ [r EXCEPT !.status = "active"] \in CodeRow
    BY DEF CodeRow, CodeStatus
  <2>2. QED
    BY <2>1 DEF MarkExhausted, Reactivate
<1>2. [row EXCEPT !.reserved = @ + 1] \in CodeRow
  BY DEF CodeRow
<1>3. ASSUME row.reserved >= 1
      PROVE  /\ [row EXCEPT !.reserved = @ - 1] \in CodeRow
             /\ [row EXCEPT !.reserved = @ - 1, !.consumed = @ + 1] \in CodeRow
  <2>1. row.reserved - 1 \in Nat /\ row.consumed + 1 \in Nat
    BY <1>3 DEF CodeRow
  <2>2. QED
    BY <2>1 DEF CodeRow
<1>4. QED
  BY <1>1, <1>2, <1>3 DEF Hold, Spend, GiveBack

(* A settlement touches an existing row whose code, if any, holds a use. *)
LEMMA SettledRow ==
  ASSUME TypeInv, NEW s \in Sessions, NEW k \in Keys,
         CommitRow(s, k) \/ ReleaseRow(s, k)
  PROVE  /\ call[s] \in Settling /\ k \in call[s].rows
         /\ res[k] \in ReservationRow
         /\ res[k].code # NoCode =>
              /\ res[k].code \in Codes
              /\ codes[res[k].code] \in CodeRow
              /\ codes[res[k].code].reserved >= 1
<1>1. call[s].step \in {"commit", "release"} /\ k \in call[s].rows /\ BalanceAllows(res[k].code)
  BY DEF CommitRow, ReleaseRow, SettleRow
<1>2. res[k] \in ReservationRow
  BY <1>1 DEF TypeInv, RowsExist
<1>3. QED
  BY <1>1, <1>2, CallShapes DEF BalanceAllows, ReservationRow, TypeInv, TypeOK

(* After RowDone the session holds fewer rows, or none. *)
LEMMA RowDoneType ==
  ASSUME TypeInv, NEW s \in Sessions, NEW k \in Keys, call[s] \in Settling, RowDone(s, k)
  PROVE  /\ call' \in [Sessions -> Claiming \cup Settling \cup {Idle}]
         /\ \A t \in Sessions : call'[t] = call[t] \/ call'[t] = Idle \/
              (t = s /\ call'[t] = [call[t] EXCEPT !.rows = call[t].rows \ {k}])
<1> DEFINE fewer == [call[s] EXCEPT !.rows = call[s].rows \ {k}]
<1>1. fewer \in Settling
  BY DEF Settling
<1>2. call' = [call EXCEPT ![s] = IF call[s].rows \ {k} = {} THEN Idle ELSE fewer]
  BY DEF RowDone
<1>3. QED
  BY <1>1, <1>2 DEF TypeInv, TypeOK

LEMMA ReserveCheckType ==
  ASSUME TypeInv, NEW s \in Sessions, NEW r \in Requests, ReserveCheck(s, r)
  PROVE  TypeInv'
<1>1. call'[s] \in Claiming /\ call'[s].step = "lookup"
  BY DEF ReserveCheck, Claiming, TypeInv, TypeOK
<1>2. TypeOK'
  BY <1>1 DEF ReserveCheck, TypeInv, TypeOK
<1>3. RowsExist'
  BY <1>1 DEF ReserveCheck, TypeInv, RowsExist, TypeOK
<1>4. QED
  BY <1>2, <1>3 DEF TypeInv

LEMMA ReserveLookupType ==
  ASSUME TypeInv, NEW s \in Sessions, ReserveLookup(s)
  PROVE  TypeInv'
<1>1. call[s] \in Claiming
  BY CallShapes DEF ReserveLookup
<1>2. call'[s] \in Claiming /\ call'[s].step = "insert"
  BY <1>1 DEF ReserveLookup, Claiming, TypeInv, TypeOK
<1>3. TypeOK'
  BY <1>2 DEF ReserveLookup, TypeInv, TypeOK
<1>4. RowsExist'
  BY <1>2 DEF ReserveLookup, TypeInv, RowsExist, TypeOK
<1>5. QED
  BY <1>3, <1>4 DEF TypeInv

(* A call that ends without touching the tables. *)
LEMMA CallEndsType ==
  ASSUME TypeInv, NEW s \in Sessions, call' = [call EXCEPT ![s] = Idle],
         UNCHANGED <<tables, clock, draft>>
  PROVE  TypeInv'
BY DEF TypeInv, TypeOK, RowsExist, Idle

LEMMA ReserveInsertType ==
  ASSUME TypeInv, NEW s \in Sessions, ReserveInsert(s)
  PROVE  TypeInv'
<1> DEFINE claim == call[s]
           k == claim.request.key
           c == ChargedCode(claim)
<1>1. claim \in Claiming
  BY CallShapes DEF ReserveInsert
<1>2. k \in Keys /\ c \in Codes \cup {NoCode} /\ claim.now + TTL \in Nat
  BY <1>1, ConstantTypes DEF Claiming, ChargedCode
<1>3. clock \in Nat
  BY TimeAssumption DEF TypeInv, TypeOK
<1>4. codes' \in [Codes -> CodeRow]
  BY <1>2, RowOperations DEF ReserveInsert, TypeInv, TypeOK
<1>5. res' = [res EXCEPT ![k] = res'[k]] /\ res'[k] \in ReservationRow
  BY <1>1, <1>2, <1>3 DEF ReserveInsert, ReservationRow, TypeInv, TypeOK, Claiming
<1>6. res' \in [Keys -> ReservationRow \cup {NoReservation}]
  BY <1>2, <1>5 DEF TypeInv, TypeOK
<1>7. ledger' \in [Codes -> Totals]
  BY <1>2 DEF ReserveInsert, Record, TypeInv, TypeOK, Totals
<1>8. TypeOK'
  BY <1>4, <1>6, <1>7 DEF ReserveInsert, TypeInv, TypeOK
<1>9. RowsExist'
  BY <1>2, <1>5 DEF ReserveInsert, TypeInv, RowsExist, TypeOK, Idle
<1>10. QED
  BY <1>8, <1>9 DEF TypeInv

LEMMA SettleReadType ==
  ASSUME TypeInv, NEW s \in Sessions, NEW op \in {"commit", "release"},
         NEW rows \in SUBSET Keys, SettleRead(s, op, rows)
  PROVE  TypeInv'
<1>1. \A k \in rows : res[k] \in ReservationRow
  BY DEF SettleRead, TypeInv, TypeOK, NoReservation
<1>2. call'[s] = [step |-> op, rows |-> rows] /\ call'[s] \in Settling
  BY DEF SettleRead, Settling, TypeInv, TypeOK
<1>3. TypeOK'
  BY <1>2 DEF SettleRead, TypeInv, TypeOK
<1>4. RowsExist'
  BY <1>1, <1>2 DEF SettleRead, TypeInv, RowsExist, TypeOK
<1>5. QED
  BY <1>3, <1>4 DEF TypeInv

(* One more event of some type, for a code or for none. *)
LEMMA RecordType ==
  ASSUME TypeInv, NEW c,
         Record(c, "reserved") \/ Record(c, "consumed") \/ Record(c, "released")
  PROVE  ledger' \in [Codes -> Totals]
<1>1. CASE c \in Codes
  <2>1. ledger[c] \in Totals
    BY <1>1 DEF TypeInv, TypeOK
  <2>2. /\ [ledger[c] EXCEPT !.reserved = @ + 1] \in Totals
        /\ [ledger[c] EXCEPT !.consumed = @ + 1] \in Totals
        /\ [ledger[c] EXCEPT !.released = @ + 1] \in Totals
    BY <2>1 DEF Totals
  <2>3. \/ ledger' = ledger
        \/ ledger' = [ledger EXCEPT ![c] = [ledger[c] EXCEPT !.reserved = @ + 1]]
        \/ ledger' = [ledger EXCEPT ![c] = [ledger[c] EXCEPT !.consumed = @ + 1]]
        \/ ledger' = [ledger EXCEPT ![c] = [ledger[c] EXCEPT !.released = @ + 1]]
    BY DEF Record
  <2>4. QED
    BY <2>2, <2>3 DEF TypeInv, TypeOK
<1>2. CASE c \notin Codes
  BY <1>2 DEF Record, TypeInv, TypeOK
<1>3. QED
  BY <1>1, <1>2

(* Both settlements write the row of k and the row of its code. *)
LEMMA SettleType ==
  ASSUME TypeInv, NEW s \in Sessions, NEW k \in Keys,
         CommitRow(s, k) \/ ReleaseRow(s, k)
  PROVE  TypeInv'
<1> DEFINE c == res[k].code
<1>1. /\ \E status \in {"consumed", "released"} :
            res' = [res EXCEPT ![k] = [@ EXCEPT !.status = status, !.updated = clock]]
      /\ Record(c, "consumed") \/ Record(c, "released")
  BY DEF CommitRow, ReleaseRow, SettleRow
<1>2. /\ settled' \in [Keys -> Nat]
      /\ RowDone(s, k) /\ UNCHANGED <<policy, clock, draft>>
  BY DEF CommitRow, ReleaseRow, SettleRow, TypeInv, TypeOK
<1>3. codes' \in [Codes -> CodeRow]
  <2>1. \/ codes' = codes
        \/ c # NoCode /\ codes' = [codes EXCEPT ![c] = Spend(codes[c])]
        \/ c # NoCode /\ codes' = [codes EXCEPT ![c] = GiveBack(codes[c])]
    BY DEF CommitRow, ReleaseRow, SettleRow
  <2>2. c # NoCode => Spend(codes[c]) \in CodeRow /\ GiveBack(codes[c]) \in CodeRow
    BY SettledRow, RowOperations
  <2>3. QED
    BY <2>1, <2>2 DEF TypeInv, TypeOK
<1>4. clock \in Nat
  BY TimeAssumption DEF TypeInv, TypeOK
<1>5. res'[k] \in ReservationRow /\ res' = [res EXCEPT ![k] = res'[k]]
  <2>1. PICK status \in {"consumed", "released"} :
          res' = [res EXCEPT ![k] = [@ EXCEPT !.status = status, !.updated = clock]]
    BY <1>1
  <2>2. [res[k] EXCEPT !.status = status, !.updated = clock] \in ReservationRow
    BY <1>4, SettledRow DEF ReservationRow
  <2>3. QED
    BY <2>1, <2>2 DEF TypeInv, TypeOK
<1>6. res' \in [Keys -> ReservationRow \cup {NoReservation}]
  BY <1>5 DEF TypeInv, TypeOK
<1>7. ledger' \in [Codes -> Totals]
  BY <1>1, RecordType
<1>8. /\ call[s] \in Settling
      /\ call' \in [Sessions -> Claiming \cup Settling \cup {Idle}]
      /\ \A t \in Sessions : call'[t] = call[t] \/ call'[t] = Idle \/
           (t = s /\ call'[t] = [call[t] EXCEPT !.rows = call[t].rows \ {k}])
  BY <1>2, SettledRow, RowDoneType
<1>9. TypeOK'
  BY <1>2, <1>3, <1>6, <1>7, <1>8 DEF TypeInv, TypeOK
<1>10. ASSUME NEW t \in Sessions, NEW j \in Keys,
             call'[t].step \in {"commit", "release"}, j \in call'[t].rows
      PROVE  res'[j] \in ReservationRow
  <2>1. call[t].step \in {"commit", "release"} /\ j \in call[t].rows
    BY <1>8, <1>10 DEF Idle, Settling
  <2>2. res[j] \in ReservationRow
    BY <2>1 DEF TypeInv, RowsExist
  <2>3. QED
    BY <1>5, <2>2 DEF TypeInv, TypeOK
<1>11. QED
  BY <1>9, <1>10 DEF TypeInv, RowsExist

LEMMA SessionType ==
  ASSUME TypeInv, NEW s \in Sessions, SessionStep(s)
  PROVE  TypeInv'
<1>1. CASE \E r \in Requests : ReserveCheck(s, r)
  BY <1>1, ReserveCheckType
<1>2. CASE ReserveLookup(s)
  BY <1>2, ReserveLookupType
<1>3. CASE ReserveExisting(s) \/ ReserveReject(s) \/ SettleFail(s) \/ Abandon(s)
  BY <1>3, CallEndsType DEF ReserveExisting, ReserveReject, SettleFail, Abandon
<1>4. CASE ReserveInsert(s)
  BY <1>4, ReserveInsertType
<1>5. CASE \E op \in {"commit", "release"}, rows \in SUBSET Keys : SettleRead(s, op, rows)
  BY <1>5, SettleReadType
<1>6. CASE \E k \in Keys : CommitRow(s, k) \/ ReleaseRow(s, k)
  BY <1>6, SettleType
<1>7. QED
  BY <1>1, <1>2, <1>3, <1>4, <1>5, <1>6 DEF SessionStep

(* Administrator steps leave sessions and reservations alone. *)
LEMMA AdminType ==
  ASSUME TypeInv, NEW a \in Admins, AdminStep(a)
  PROVE  TypeInv'
<1> DEFINE Ok == /\ codes' \in [Codes -> CodeRow]
                 /\ ledger' \in [Codes -> Totals]
                 /\ policy' \in Policies
                 /\ draft' \in [Admins -> Editing \cup {Idle}]
<1>1. UNCHANGED <<res, settled, clock, call>>
  BY DEF AdminStep, EditRead, GrantWrite, RevokeWrite, AbandonEdit
<1>2. SUFFICES Ok
  BY <1>1 DEF TypeInv, TypeOK, RowsExist
<1>3. CASE \E c \in Codes, op \in {"grant", "revoke"} : EditRead(a, c, op)
  BY <1>3 DEF EditRead, Editing, TypeInv, TypeOK
<1>4. CASE \E n \in GrantUses : GrantWrite(a, n)
  <2>1. PICK n \in GrantUses : GrantWrite(a, n)
    BY <1>4
  <2>2. draft[a] \in Editing
    BY <2>1, DraftShapes DEF GrantWrite
  <2>3. n \in Nat /\ draft[a].code \in Codes /\ draft[a].row.total + n \in Nat
    BY <2>2, UsesAssumption DEF Editing, CodeRow
  <2> DEFINE c == draft[a].code
             held == [draft[a].row EXCEPT !.total = @ + n]
  <2>4. held.total \in Nat /\ codes[c] \in CodeRow
    BY <2>2, <2>3 DEF Editing, CodeRow, TypeInv, TypeOK
  <2>5. FlushGrant(codes[c], held) \in CodeRow
    BY <2>4 DEF FlushGrant, CodeRow, CodeStatus
  <2>6. codes' \in [Codes -> CodeRow]
    BY <2>1, <2>3, <2>5 DEF GrantWrite, TypeInv, TypeOK
  <2>7. ledger' \in [Codes -> Totals]
    BY <2>1, <2>3 DEF GrantWrite, Totals, TypeInv, TypeOK
  <2>8. QED
    BY <2>1, <2>6, <2>7 DEF GrantWrite, TypeInv, TypeOK
<1>5. CASE RevokeWrite(a)
  <2>1. draft[a] \in Editing
    BY <1>5, DraftShapes DEF RevokeWrite
  <2>2. QED
    BY <1>5, <2>1 DEF RevokeWrite, CodeRow, CodeStatus, Editing, TypeInv, TypeOK
<1>6. CASE AbandonEdit(a)
  BY <1>6 DEF AbandonEdit, TypeInv, TypeOK
<1>7. QED
  BY <1>3, <1>4, <1>5, <1>6 DEF AdminStep

LEMMA AdminWriteType ==
  ASSUME TypeInv, AdminWrite
  PROVE  TypeInv'
<1>1. UNCHANGED <<res, settled, clock, call, draft>>
  BY DEF AdminWrite, CreateBatch, UpdateExpiry, UpdatePolicy
<1>2. SUFFICES /\ codes' \in [Codes -> CodeRow]
               /\ ledger' \in [Codes -> Totals]
               /\ policy' \in Policies
  BY <1>1 DEF TypeInv, TypeOK, RowsExist
<1>3. CASE \E c \in Codes, n \in BatchUses, e \in Dates : CreateBatch(c, n, e)
  <2>1. PICK c \in Codes, n \in BatchUses, e \in Expiries : CreateBatch(c, n, e)
    BY <1>3, DatesAssumption
  <2>2. n \in Nat
    BY UsesAssumption
  <2>3. [AbsentCode EXCEPT !.status = "active", !.total = n, !.expires = e] \in CodeRow
    BY <2>2 DEF AbsentCode, CodeRow, CodeStatus
  <2>4. QED
    BY <2>1, <2>2, <2>3 DEF CreateBatch, Totals, TypeInv, TypeOK
<1>4. CASE \E c \in Codes, e \in Dates : UpdateExpiry(c, e)
  BY <1>4, DatesAssumption DEF UpdateExpiry, CodeRow, TypeInv, TypeOK
<1>5. CASE \E p \in Policies : UpdatePolicy(p)
  BY <1>5 DEF UpdatePolicy, TypeInv, TypeOK
<1>6. QED
  BY <1>3, <1>4, <1>5 DEF AdminWrite

LEMMA TypeInvInit == Init => TypeInv
<1>1. AbsentCode \in CodeRow /\ NoEvents \in Totals
  BY DEF AbsentCode, CodeRow, CodeStatus, NoEvents, Totals, Expiries
<1>2. QED
  BY <1>1, PolicyAssumption, TimeAssumption
  DEF Init, TypeInv, TypeOK, RowsExist, Idle

LEMMA TypeInvStep == TypeInv /\ [Next]_vars => TypeInv'
<1> SUFFICES ASSUME TypeInv, [Next]_vars PROVE TypeInv'
  OBVIOUS
<1>1. CASE \E s \in Sessions : SessionStep(s)
  BY <1>1, SessionType
<1>2. CASE \E a \in Admins : AdminStep(a)
  BY <1>2, AdminType
<1>3. CASE Tick
  BY <1>3, TimeAssumption DEF Tick, TypeInv, TypeOK, RowsExist
<1>4. CASE AdminWrite
  BY <1>4, AdminWriteType
<1>5. CASE Crash
  BY <1>5 DEF Crash, TypeInv, TypeOK, RowsExist, Idle
<1>6. CASE UNCHANGED vars
  BY <1>6 DEF vars, TypeInv, TypeOK, RowsExist
<1>7. QED
  BY <1>1, <1>2, <1>3, <1>4, <1>5, <1>6 DEF Next

(* Every row, call and draft keeps its shape: a balance never becomes      *)
(* negative and a session never settles a row that does not exist.         *)
THEOREM TypeCorrect == Spec => []TypeOK
<1>1. Spec => []TypeInv
  BY TypeInvInit, TypeInvStep, PTL DEF Spec
<1>2. TypeInv => TypeOK
  BY DEF TypeInv
<1>3. QED
  BY <1>1, <1>2, PTL
-----------------------------------------------------------------------------
(* What a step can do to the codes and their ledger.                       *)

Claims(c) ==
  /\ codes[c].status = "active"
  /\ codes[c].consumed + codes[c].reserved + 1 <= codes[c].total
  /\ codes' = [codes EXCEPT ![c] = Hold(codes[c])]
  /\ ledger' = [ledger EXCEPT ![c] = [ledger[c] EXCEPT !.reserved = ledger[c].reserved + 1]]
Spends(c) ==
  /\ codes[c].reserved >= 1
  /\ codes' = [codes EXCEPT ![c] = Spend(codes[c])]
  /\ ledger' = [ledger EXCEPT ![c] = [ledger[c] EXCEPT !.consumed = ledger[c].consumed + 1]]
GivesBack(c) ==
  /\ codes[c].reserved >= 1
  /\ codes' = [codes EXCEPT ![c] = GiveBack(codes[c])]
  /\ ledger' = [ledger EXCEPT ![c] = [ledger[c] EXCEPT !.released = ledger[c].released + 1]]
Creates(c, n) ==
  /\ codes[c].status = "absent"
  /\ \E e \in Expiries :
       codes' = [codes EXCEPT ![c] = [AbsentCode EXCEPT !.status = "active", !.total = n,
                                                        !.expires = e]]
  /\ ledger' = [ledger EXCEPT ![c] = [ledger[c] EXCEPT !.granted = n]]
Relabels(c) ==
  /\ \/ codes' = [codes EXCEPT ![c] = [codes[c] EXCEPT !.status = "revoked", !.revoked = TRUE]]
     \/ \E e \in Expiries : codes' = [codes EXCEPT ![c] = [codes[c] EXCEPT !.expires = e]]
  /\ ledger' = ledger

LEMMA CodeSteps ==
  ASSUME TypeInv, [Next]_vars
  PROVE  \/ UNCHANGED <<codes, ledger>>
         \/ \E c \in Codes : Claims(c) \/ Spends(c) \/ GivesBack(c) \/ Relabels(c)
         \/ \E c \in Codes, n \in BatchUses : Creates(c, n)
         \/ \E a \in Admins, n \in GrantUses : GrantWrite(a, n)
<1>1. CASE \E s \in Sessions : SessionStep(s)
  <2>1. PICK s \in Sessions : SessionStep(s)
    BY <1>1
  <2>2. CASE ReserveInsert(s)
    <3> DEFINE c == ChargedCode(call[s])
    <3>1. c \in Codes \cup {NoCode}
      BY <2>2, CallShapes, ConstantTypes DEF ReserveInsert, ChargedCode, Claiming
    <3>2. CASE c = NoCode
      BY <2>2, <3>2 DEF ReserveInsert, Record
    <3>3. CASE c # NoCode
      <4>1. Claimable(codes[c], call[s].now)
        BY <2>2, <3>3 DEF ReserveInsert, ClaimAllowed
      <4>2. Claims(c)
        BY <2>2, <3>3, <4>1 DEF ReserveInsert, Record, Claims, Claimable
      <4>3. QED
        BY <3>1, <3>3, <4>2
    <3>4. QED
      BY <3>2, <3>3
  <2>3. CASE \E k \in Keys : CommitRow(s, k)
    <3>1. PICK k \in Keys : CommitRow(s, k)
      BY <2>3
    <3>2. CASE res[k].code = NoCode
      BY <3>1, <3>2 DEF CommitRow, SettleRow, Record
    <3>3. CASE res[k].code # NoCode
      <4>1. res[k].code \in Codes /\ codes[res[k].code].reserved >= 1
        BY <3>1, <3>3, SettledRow
      <4>2. Spends(res[k].code)
        BY <3>1, <3>3, <4>1 DEF CommitRow, SettleRow, Record, Spends
      <4>3. QED
        BY <4>1, <4>2
    <3>4. QED
      BY <3>2, <3>3
  <2>4. CASE \E k \in Keys : ReleaseRow(s, k)
    <3>1. PICK k \in Keys : ReleaseRow(s, k)
      BY <2>4
    <3>2. CASE res[k].code = NoCode
      BY <3>1, <3>2 DEF ReleaseRow, SettleRow, Record
    <3>3. CASE res[k].code # NoCode
      <4>1. res[k].code \in Codes /\ codes[res[k].code].reserved >= 1
        BY <3>1, <3>3, SettledRow
      <4>2. GivesBack(res[k].code)
        BY <3>1, <3>3, <4>1 DEF ReleaseRow, SettleRow, Record, GivesBack
      <4>3. QED
        BY <4>1, <4>2
    <3>4. QED
      BY <3>2, <3>3
  <2>5. QED
    BY <2>1, <2>2, <2>3, <2>4
    DEF SessionStep, ReserveCheck, ReserveLookup, ReserveExisting, ReserveReject,
        SettleRead, SettleFail, Abandon
<1>2. CASE \E a \in Admins : AdminStep(a)
  <2>1. PICK a \in Admins : AdminStep(a)
    BY <1>2
  <2>2. CASE RevokeWrite(a)
    <3>1. draft[a].code \in Codes
      BY <2>2, DraftShapes DEF RevokeWrite, Editing
    <3>2. Relabels(draft[a].code)
      BY <2>2, <3>1 DEF RevokeWrite, Relabels
    <3>3. QED
      BY <3>1, <3>2
  <2>3. QED
    BY <2>1, <2>2 DEF AdminStep, EditRead, AbandonEdit
<1>3. CASE AdminWrite
  <2>1. CASE \E c \in Codes, n \in BatchUses, e \in Dates : CreateBatch(c, n, e)
    BY <2>1, DatesAssumption DEF CreateBatch, Creates
  <2>2. CASE \E c \in Codes, e \in Dates : UpdateExpiry(c, e)
    BY <2>2, DatesAssumption DEF UpdateExpiry, Relabels
  <2>3. QED
    BY <1>3, <2>1, <2>2 DEF AdminWrite, UpdatePolicy
<1>4. CASE Crash \/ Tick
  BY <1>4 DEF Crash, Tick
<1>5. CASE UNCHANGED vars
  BY <1>5 DEF vars
<1>6. QED
  BY <1>1, <1>2, <1>3, <1>4, <1>5 DEF Next

(* What the row operations do to the balance and to the status.            *)
LEMMA BalanceMoves ==
  ASSUME NEW row \in CodeRow
  PROVE  /\ Hold(row).total = row.total
         /\ Hold(row).consumed = row.consumed
         /\ Hold(row).reserved = row.reserved + 1
         /\ Spend(row).total = row.total
         /\ Spend(row).consumed = row.consumed + 1
         /\ Spend(row).reserved = row.reserved - 1
         /\ GiveBack(row).total = row.total
         /\ GiveBack(row).consumed = row.consumed
         /\ GiveBack(row).reserved = row.reserved - 1
<1>1. ASSUME NEW r \in CodeRow
      PROVE  /\ MarkExhausted(r).total = r.total
             /\ MarkExhausted(r).consumed = r.consumed
             /\ MarkExhausted(r).reserved = r.reserved
  BY DEF MarkExhausted, CodeRow
<1>2. [row EXCEPT !.reserved = row.reserved + 1] \in CodeRow
  BY DEF CodeRow
<1>3. /\ Hold(row).total = row.total
      /\ Hold(row).consumed = row.consumed
      /\ Hold(row).reserved = row.reserved + 1
  BY <1>1, <1>2 DEF Hold, CodeRow
<1>4. /\ Spend(row).total = row.total
      /\ Spend(row).consumed = row.consumed + 1
      /\ Spend(row).reserved = row.reserved - 1
  BY DEF Spend, MarkExhausted, CodeRow
<1>5. /\ GiveBack(row).total = row.total
      /\ GiveBack(row).consumed = row.consumed
      /\ GiveBack(row).reserved = row.reserved - 1
  BY DEF GiveBack, Reactivate, CodeRow
<1>6. QED
  BY <1>3, <1>4, <1>5

ActiveRow(row) == row.status = "active" => ~Exhausted(row)

LEMMA StatusMoves ==
  ASSUME NEW row \in CodeRow
  PROVE  /\ ActiveRow(Hold(row))
         /\ ActiveRow(Spend(row))
         /\ ActiveRow(row) => ActiveRow(GiveBack(row))
         /\ row.status # "absent" => /\ Hold(row).status # "absent"
                                     /\ Spend(row).status # "absent"
                                     /\ GiveBack(row).status # "absent"
<1>1. ActiveRow(Hold(row))
  BY DEF ActiveRow, Hold, MarkExhausted, Exhausted, CodeRow
<1>2. ActiveRow(Spend(row))
  BY DEF ActiveRow, Spend, MarkExhausted, Exhausted, CodeRow
<1>3. ActiveRow(row) => ActiveRow(GiveBack(row))
  BY DEF ActiveRow, GiveBack, Reactivate, Exhausted, CodeRow
<1>4. row.status # "absent" => /\ Hold(row).status # "absent"
                              /\ Spend(row).status # "absent"
                              /\ GiveBack(row).status # "absent"
  BY DEF Hold, Spend, GiveBack, MarkExhausted, Reactivate, CodeRow
<1>5. QED
  BY <1>1, <1>2, <1>3, <1>4
-----------------------------------------------------------------------------
(* The ledger.                                                             *)

LedgerInv ==
  /\ TypeInv
  /\ LedgerRebuildsBalances
  /\ \A c \in Codes :
       codes[c].status = "absent" => codes[c].consumed = 0 /\ codes[c].reserved = 0

LEMMA LedgerInvStep == LedgerInv /\ [Next]_vars => LedgerInv'
<1> SUFFICES ASSUME LedgerInv, [Next]_vars PROVE LedgerInv'
  OBVIOUS
<1> DEFINE Rebuilt(row, events) ==
             /\ row.reserved = events.reserved - events.consumed - events.released
             /\ row.consumed = events.consumed
           Untouched(row) == row.status = "absent" => row.consumed = 0 /\ row.reserved = 0
<1>1. TypeInv /\ TypeInv'
  BY TypeInvStep DEF LedgerInv
<1>2. \A c \in Codes : /\ codes[c] \in CodeRow /\ ledger[c] \in Totals
                       /\ Rebuilt(codes[c], ledger[c]) /\ Untouched(codes[c])
  BY <1>1 DEF LedgerInv, LedgerRebuildsBalances, TypeInv, TypeOK
<1>3. codes \in [Codes -> CodeRow] /\ ledger \in [Codes -> Totals]
  BY <1>1 DEF TypeInv, TypeOK
<1>4. SUFFICES ASSUME NEW d \in Codes
               PROVE  Rebuilt(codes'[d], ledger'[d]) /\ Untouched(codes'[d])
  BY <1>1 DEF LedgerInv, LedgerRebuildsBalances
<1>5. CASE codes'[d] = codes[d] /\ ledger'[d] = ledger[d]
  BY <1>2, <1>5
<1>6. CASE Claims(d)
  <2>1. codes'[d] = Hold(codes[d])
        /\ ledger'[d] = [ledger[d] EXCEPT !.reserved = ledger[d].reserved + 1]
    BY <1>3, <1>6 DEF Claims
  <2>2. codes'[d].status # "absent"
    BY <1>2, <1>6, <2>1, StatusMoves DEF Claims
  <2>3. Rebuilt(codes'[d], ledger'[d])
    BY <1>2, <2>1, BalanceMoves DEF CodeRow, Totals
  <2>4. QED
    BY <2>2, <2>3
<1>7. CASE Spends(d)
  <2>1. codes'[d] = Spend(codes[d])
        /\ ledger'[d] = [ledger[d] EXCEPT !.consumed = ledger[d].consumed + 1]
    BY <1>3, <1>7 DEF Spends
  <2>2. codes[d].status # "absent"
    BY <1>2, <1>7 DEF Spends
  <2>3. codes'[d].status # "absent"
    BY <1>2, <2>1, <2>2, StatusMoves
  <2>4. Rebuilt(codes'[d], ledger'[d])
    BY <1>2, <2>1, BalanceMoves DEF CodeRow, Totals
  <2>5. QED
    BY <2>3, <2>4
<1>8. CASE GivesBack(d)
  <2>1. codes'[d] = GiveBack(codes[d])
        /\ ledger'[d] = [ledger[d] EXCEPT !.released = ledger[d].released + 1]
    BY <1>3, <1>8 DEF GivesBack
  <2>2. codes[d].status # "absent"
    BY <1>2, <1>8 DEF GivesBack
  <2>3. codes'[d].status # "absent"
    BY <1>2, <2>1, <2>2, StatusMoves
  <2>4. Rebuilt(codes'[d], ledger'[d])
    BY <1>2, <2>1, BalanceMoves DEF CodeRow, Totals
  <2>5. QED
    BY <2>3, <2>4
<1>9. CASE Relabels(d)
  <2>1. ledger'[d] = ledger[d] /\ codes'[d].reserved = codes[d].reserved
        /\ codes'[d].consumed = codes[d].consumed
    BY <1>3, <1>9 DEF Relabels, CodeRow
  <2>2. codes'[d].status = codes[d].status \/ codes'[d].status = "revoked"
    BY <1>3, <1>9 DEF Relabels, CodeRow
  <2>3. QED
    BY <1>2, <2>1, <2>2
<1>10. CASE \E n \in BatchUses : Creates(d, n)
  <2>1. PICK n \in BatchUses : Creates(d, n)
    BY <1>10
  <2>2. codes'[d].status = "active" /\ codes'[d].reserved = 0 /\ codes'[d].consumed = 0
    BY <1>3, <2>1 DEF Creates, AbsentCode
  <2>3. ledger'[d] = [ledger[d] EXCEPT !.granted = n]
    BY <1>3, <2>1 DEF Creates
  <2>4. Rebuilt(codes'[d], ledger'[d])
    BY <1>2, <2>1, <2>2, <2>3 DEF Creates, Totals
  <2>5. QED
    BY <2>2, <2>4
<1>11. CASE \E a \in Admins, n \in GrantUses : GrantWrite(a, n) /\ draft[a].code = d
  <2>1. PICK a \in Admins, n \in GrantUses : GrantWrite(a, n) /\ draft[a].code = d
    BY <1>11
  <2>2. /\ codes'[d].reserved = codes[d].reserved
        /\ codes'[d].consumed = codes[d].consumed
        /\ codes'[d].status \in {codes[d].status, "active"}
    BY <1>3, <2>1 DEF GrantWrite, FlushGrant, CodeRow
  <2>3. ledger'[d] = [ledger[d] EXCEPT !.granted = ledger[d].granted + n]
    BY <1>3, <2>1 DEF GrantWrite
  <2>4. Rebuilt(codes'[d], ledger'[d])
    BY <1>2, <2>2, <2>3 DEF Totals
  <2>5. QED
    BY <1>2, <2>2, <2>4
<1>12. QED
  <2>1. CASE \E c \in Codes : Claims(c) \/ Spends(c) \/ GivesBack(c) \/ Relabels(c)
    BY <1>3, <1>5, <1>6, <1>7, <1>8, <1>9, <2>1 DEF Claims, Spends, GivesBack, Relabels
  <2>2. CASE \E c \in Codes, n \in BatchUses : Creates(c, n)
    BY <1>3, <1>5, <1>10, <2>2 DEF Creates
  <2>3. CASE \E a \in Admins, n \in GrantUses : GrantWrite(a, n)
    BY <1>3, <1>5, <1>11, <2>3 DEF GrantWrite
  <2>4. QED
    BY <1>1, <1>5, <2>1, <2>2, <2>3, CodeSteps

(* Every balance is rebuilt by its ledger, whatever the sessions and the   *)
(* administrators held when they wrote.                                    *)
THEOREM LedgerCorrect == Spec => []LedgerRebuildsBalances
<1>1. Init => LedgerInv
  BY TypeInvInit DEF Init, LedgerInv, LedgerRebuildsBalances, AbsentCode, NoEvents
<1>2. LedgerInv /\ [Next]_vars => LedgerInv'
  BY LedgerInvStep
<1>3. LedgerInv => LedgerRebuildsBalances
  BY DEF LedgerInv
<1>4. QED
  BY <1>1, <1>2, <1>3, PTL DEF Spec
-----------------------------------------------------------------------------
(* One administrator: no grant is computed from a total that another grant *)
(* has changed, so the balances obey the account of CodeBalance.           *)

SingleAdmin == \A a, b \in Admins : a = b

DraftFresh(d) ==
  d.step \in {"grant", "revoke"} =>
    codes[d.code].status # "absent" /\ d.row.total = codes[d.code].total

AbsentIsEmpty == \A c \in Codes : codes[c].status = "absent" => codes[c].total = 0

AccountInv ==
  /\ LedgerInv
  /\ NoOverspend
  /\ GrantsAddUp
  /\ ActiveHasUsesLeft
  /\ AbsentIsEmpty
  /\ \A a \in Admins : DraftFresh(draft[a])

(* A draft is kept, dropped, or read from the row as it stands.            *)
LEMMA DraftSteps ==
  ASSUME TypeInv, [Next]_vars, NEW a \in Admins
  PROVE  \/ draft'[a] = draft[a]
         \/ draft'[a] = Idle
         \/ /\ codes' = codes
            /\ \E c \in Codes, op \in {"grant", "revoke"} :
                 /\ codes[c].status # "absent"
                 /\ draft'[a] = [step |-> op, code |-> c, row |-> codes[c]]
<1>1. draft \in [Admins -> Editing \cup {Idle}]
  BY DEF TypeInv, TypeOK
<1>2. CASE \E s \in Sessions : SessionStep(s)
  BY <1>2 DEF SessionStep, ReserveCheck, ReserveLookup, ReserveExisting, ReserveInsert,
              ReserveReject, SettleRead, CommitRow, ReleaseRow, SettleRow, SettleFail, Abandon
<1>3. ASSUME NEW b \in Admins, AdminStep(b)
      PROVE  \/ draft'[a] = draft[a]
             \/ draft'[a] = Idle
             \/ /\ codes' = codes
                /\ \E c \in Codes, op \in {"grant", "revoke"} :
                     /\ codes[c].status # "absent"
                     /\ draft'[a] = [step |-> op, code |-> c, row |-> codes[c]]
  <2>1. CASE \E c \in Codes, op \in {"grant", "revoke"} : EditRead(b, c, op)
    BY <1>1, <2>1 DEF EditRead
  <2>2. CASE ~ \E c \in Codes, op \in {"grant", "revoke"} : EditRead(b, c, op)
    BY <1>1, <1>3, <2>2 DEF AdminStep, GrantWrite, RevokeWrite, AbandonEdit
  <2>3. QED
    BY <2>1, <2>2
<1>4. CASE AdminWrite \/ Crash \/ Tick \/ UNCHANGED vars
  BY <1>4 DEF AdminWrite, CreateBatch, UpdateExpiry, UpdatePolicy, Crash, Tick, vars
<1>5. QED
  BY <1>2, <1>3, <1>4 DEF Next

(* A code never becomes absent again, and its total moves only when it is  *)
(* created or granted uses.                                                *)
LEMMA TotalSteps ==
  ASSUME LedgerInv, [Next]_vars, NEW c \in Codes, codes[c].status # "absent"
  PROVE  /\ codes'[c].status # "absent"
         /\ \/ codes'[c].total = codes[c].total
            \/ \E a \in Admins, n \in GrantUses : GrantWrite(a, n)
<1>1. TypeInv
  BY DEF LedgerInv
<1>2. codes \in [Codes -> CodeRow] /\ codes[c] \in CodeRow
  BY <1>1 DEF TypeInv, TypeOK
<1>3. ASSUME NEW d \in Codes, Claims(d) \/ Spends(d) \/ GivesBack(d)
      PROVE  codes'[c].status # "absent" /\ codes'[c].total = codes[c].total
  <2>1. codes'[c] \in {codes[c], Hold(codes[c]), Spend(codes[c]), GiveBack(codes[c])}
    BY <1>2, <1>3 DEF Claims, Spends, GivesBack
  <2>2. QED
    BY <1>2, <2>1, StatusMoves, BalanceMoves
<1>4. ASSUME NEW d \in Codes, Relabels(d)
      PROVE  codes'[c].status # "absent" /\ codes'[c].total = codes[c].total
  <2>1. \A e \in Expiries : /\ [codes[c] EXCEPT !.expires = e].total = codes[c].total
                             /\ [codes[c] EXCEPT !.expires = e].status = codes[c].status
    BY <1>2 DEF CodeRow
  <2>2. [codes[c] EXCEPT !.status = "revoked", !.revoked = TRUE].total = codes[c].total
        /\ [codes[c] EXCEPT !.status = "revoked", !.revoked = TRUE].status = "revoked"
    BY <1>2 DEF CodeRow
  <2>3. CASE c = d
    BY <1>2, <1>4, <2>1, <2>2, <2>3 DEF Relabels
  <2>4. CASE c # d
    BY <1>2, <1>4, <2>4 DEF Relabels
  <2>5. QED
    BY <2>3, <2>4
<1>5. ASSUME NEW d \in Codes, NEW n \in BatchUses, Creates(d, n)
      PROVE  codes'[c].status # "absent" /\ codes'[c].total = codes[c].total
  BY <1>2, <1>5 DEF Creates
<1>6. ASSUME NEW a \in Admins, NEW n \in GrantUses, GrantWrite(a, n)
      PROVE  codes'[c].status # "absent"
  BY <1>2, <1>6 DEF GrantWrite, FlushGrant, CodeRow
<1>7. QED
  BY <1>1, <1>3, <1>4, <1>5, <1>6, CodeSteps

LEMMA DraftsStayFresh ==
  ASSUME SingleAdmin, AccountInv, [Next]_vars
  PROVE  \A a \in Admins : DraftFresh(draft[a])'
<1> SUFFICES ASSUME NEW a \in Admins, draft'[a].step \in {"grant", "revoke"}
             PROVE  /\ codes'[draft'[a].code].status # "absent"
                    /\ draft'[a].row.total = codes'[draft'[a].code].total
  BY DEF DraftFresh
<1>1. LedgerInv /\ TypeInv
  BY DEF AccountInv, LedgerInv
<1>2. CASE draft'[a] = draft[a]
  <2>1. /\ draft[a].code \in Codes
        /\ codes[draft[a].code].status # "absent"
        /\ draft[a].row.total = codes[draft[a].code].total
    BY <1>1, <1>2, DraftShapes DEF AccountInv, DraftFresh, Editing
  <2>2. ~ \E b \in Admins, n \in GrantUses : GrantWrite(b, n)
    <3>1. SUFFICES ASSUME NEW b \in Admins, NEW n \in GrantUses, GrantWrite(b, n)
                   PROVE  FALSE
      OBVIOUS
    <3>2. b = a
      BY DEF SingleAdmin
    <3>3. draft'[a] = Idle
      BY <1>1, <3>1, <3>2 DEF GrantWrite, TypeInv, TypeOK
    <3>4. QED
      BY <3>3 DEF Idle
  <2>3. QED
    BY <1>1, <1>2, <2>1, <2>2, TotalSteps
<1>3. CASE draft'[a] = Idle
  BY <1>3 DEF Idle
<1>4. CASE /\ codes' = codes
           /\ \E c \in Codes, op \in {"grant", "revoke"} :
                /\ codes[c].status # "absent"
                /\ draft'[a] = [step |-> op, code |-> c, row |-> codes[c]]
  BY <1>4
<1>5. QED
  BY <1>1, <1>2, <1>3, <1>4, DraftSteps

(* What one row and its ledger owe each other.                             *)
RowSound(row, events) ==
  /\ row.consumed + row.reserved <= row.total
  /\ row.total = events.granted
  /\ ActiveRow(row)
  /\ row.status = "absent" => row.total = 0

(* The grant of the only administrator adds to the total as it stands.     *)
LEMMA GrantSound ==
  ASSUME AccountInv, NEW a \in Admins, NEW n \in GrantUses, GrantWrite(a, n),
         NEW c \in Codes, c = draft[a].code
  PROVE  /\ RowSound(codes'[c], ledger'[c])
         /\ codes'[c].total = codes[c].total + n
         /\ codes'[c].consumed = codes[c].consumed
         /\ codes'[c].reserved = codes[c].reserved
<1> DEFINE row == codes[c]
           held == [draft[a].row EXCEPT !.total = draft[a].row.total + n]
<1>1. TypeInv /\ draft[a].step = "grant" /\ n \in Nat \ {0}
  BY UsesAssumption DEF AccountInv, LedgerInv, GrantWrite
<1>2. codes \in [Codes -> CodeRow] /\ row \in CodeRow /\ ledger \in [Codes -> Totals]
  BY <1>1 DEF TypeInv, TypeOK
<1>3. draft[a].row \in CodeRow /\ draft[a].row.total = row.total
  BY <1>1, DraftShapes DEF AccountInv, DraftFresh, Editing
<1>4. codes' = [codes EXCEPT ![c] = FlushGrant(row, held)]
      /\ ledger' = [ledger EXCEPT ![c] = [ledger[c] EXCEPT !.granted = ledger[c].granted + n]]
  BY DEF GrantWrite
<1>5. held.total = row.total + n
  BY <1>3 DEF CodeRow
<1>6. /\ codes'[c].total = row.total + n
      /\ codes'[c].consumed = row.consumed
      /\ codes'[c].reserved = row.reserved
  BY <1>2, <1>4, <1>5 DEF FlushGrant, CodeRow
<1>7. row.consumed + row.reserved <= row.total /\ row.total = ledger[c].granted
  BY DEF AccountInv, NoOverspend, GrantsAddUp
<1>8. ledger'[c].granted = ledger[c].granted + n
  BY <1>2, <1>4 DEF Totals
<1>9. /\ codes'[c].total \in Nat /\ codes'[c].consumed \in Nat /\ codes'[c].reserved \in Nat
      /\ codes'[c].consumed + codes'[c].reserved < codes'[c].total
  BY <1>1, <1>2, <1>6, <1>7 DEF CodeRow
<1>10. ActiveRow(codes'[c])
  BY <1>9 DEF ActiveRow, Exhausted
<1>11. codes'[c].consumed + codes'[c].reserved <= codes'[c].total
  BY <1>9
<1>12. row.status # "absent"
  BY <1>1 DEF AccountInv, DraftFresh
<1>13. codes'[c].status # "absent"
  BY <1>2, <1>4, <1>12 DEF FlushGrant, CodeRow
<1>14. QED
  BY <1>6, <1>7, <1>8, <1>10, <1>11, <1>13 DEF RowSound

LEMMA RowsStaySound ==
  ASSUME SingleAdmin, AccountInv, [Next]_vars, NEW d \in Codes
  PROVE  RowSound(codes'[d], ledger'[d])
<1>1. TypeInv
  BY DEF AccountInv, LedgerInv
<1>2. codes \in [Codes -> CodeRow] /\ ledger \in [Codes -> Totals]
      /\ codes[d] \in CodeRow /\ ledger[d] \in Totals
  BY <1>1 DEF TypeInv, TypeOK
<1>3. RowSound(codes[d], ledger[d])
  BY DEF AccountInv, RowSound, NoOverspend, GrantsAddUp, ActiveHasUsesLeft, ActiveRow,
         AbsentIsEmpty
<1>4. CASE codes'[d] = codes[d] /\ ledger'[d] = ledger[d]
  BY <1>3, <1>4
<1>5. CASE Claims(d)
  <2>1. codes'[d] = Hold(codes[d]) /\ ledger'[d].granted = ledger[d].granted
    BY <1>2, <1>5 DEF Claims, Totals
  <2>2. codes'[d].consumed + codes'[d].reserved <= codes'[d].total
    BY <1>2, <1>5, <2>1, BalanceMoves DEF Claims, CodeRow
  <2>3. QED
    BY <1>2, <1>3, <1>5, <2>1, <2>2, BalanceMoves, StatusMoves DEF RowSound, Claims
<1>6. CASE Spends(d)
  <2>1. codes'[d] = Spend(codes[d]) /\ ledger'[d].granted = ledger[d].granted
    BY <1>2, <1>6 DEF Spends, Totals
  <2>2. codes'[d].consumed + codes'[d].reserved <= codes'[d].total
    BY <1>2, <1>3, <2>1, BalanceMoves DEF CodeRow, RowSound
  <2>3. codes[d].status # "absent"
    BY <1>2, <1>3, <1>6 DEF Spends, CodeRow, RowSound
  <2>4. QED
    BY <1>2, <1>3, <2>1, <2>2, <2>3, BalanceMoves, StatusMoves DEF RowSound
<1>7. CASE GivesBack(d)
  <2>1. codes'[d] = GiveBack(codes[d]) /\ ledger'[d].granted = ledger[d].granted
    BY <1>2, <1>7 DEF GivesBack, Totals
  <2>2. codes'[d].consumed + codes'[d].reserved <= codes'[d].total
    BY <1>2, <1>3, <2>1, BalanceMoves DEF CodeRow, RowSound
  <2>3. codes[d].status # "absent"
    BY <1>2, <1>3, <1>7 DEF GivesBack, CodeRow, RowSound
  <2>4. QED
    BY <1>2, <1>3, <2>1, <2>2, <2>3, BalanceMoves, StatusMoves DEF RowSound
<1>8. CASE Relabels(d)
  <2>1. /\ codes'[d].total = codes[d].total /\ codes'[d].reserved = codes[d].reserved
        /\ codes'[d].consumed = codes[d].consumed
        /\ codes'[d].status \in {codes[d].status, "revoked"}
        /\ ledger'[d] = ledger[d]
    BY <1>2, <1>8 DEF Relabels, CodeRow
  <2>2. QED
    BY <1>3, <2>1 DEF RowSound, ActiveRow, Exhausted
<1>9. CASE \E n \in BatchUses : Creates(d, n)
  <2>1. PICK n \in BatchUses : Creates(d, n)
    BY <1>9
  <2>2. /\ codes'[d].total = n /\ codes'[d].reserved = 0 /\ codes'[d].consumed = 0
        /\ codes'[d].status = "active"
        /\ ledger'[d].granted = n /\ n \in Nat \ {0}
    BY <1>2, <2>1, UsesAssumption DEF Creates, AbsentCode, Totals
  <2>3. QED
    BY <2>2 DEF RowSound, ActiveRow, Exhausted
<1>10. CASE \E a \in Admins, n \in GrantUses : GrantWrite(a, n)
  <2>1. PICK a \in Admins, n \in GrantUses : GrantWrite(a, n)
    BY <1>10
  <2>2. CASE d = draft[a].code
    BY <2>1, <2>2, GrantSound
  <2>3. CASE d # draft[a].code
    BY <1>2, <1>3, <2>1, <2>3 DEF GrantWrite
  <2>4. QED
    BY <2>2, <2>3
<1>11. QED
  <2>1. CASE \E c \in Codes : Claims(c) \/ Spends(c) \/ GivesBack(c) \/ Relabels(c)
    BY <1>2, <1>4, <1>5, <1>6, <1>7, <1>8, <2>1 DEF Claims, Spends, GivesBack, Relabels
  <2>2. CASE \E c \in Codes, n \in BatchUses : Creates(c, n)
    BY <1>2, <1>4, <1>9, <2>2 DEF Creates
  <2>3. QED
    BY <1>1, <1>4, <1>10, <2>1, <2>2, CodeSteps

LEMMA AccountInvInit == Init => AccountInv
<1> SUFFICES ASSUME Init PROVE AccountInv
  OBVIOUS
<1>1. LedgerInv
  BY TypeInvInit DEF Init, LedgerInv, LedgerRebuildsBalances, AbsentCode, NoEvents
<1>2. NoOverspend /\ GrantsAddUp /\ ActiveHasUsesLeft /\ AbsentIsEmpty
  BY DEF Init, NoOverspend, GrantsAddUp, ActiveHasUsesLeft, AbsentIsEmpty, AbsentCode, NoEvents
<1>3. \A a \in Admins : DraftFresh(draft[a])
  BY DEF Init, DraftFresh, Idle
<1>4. QED
  BY <1>1, <1>2, <1>3 DEF AccountInv

LEMMA AccountInvStep ==
  ASSUME SingleAdmin, AccountInv, [Next]_vars
  PROVE  AccountInv'
<1>1. LedgerInv'
  BY LedgerInvStep DEF AccountInv
<1>2. NoOverspend' /\ GrantsAddUp' /\ ActiveHasUsesLeft' /\ AbsentIsEmpty'
  BY RowsStaySound DEF RowSound, ActiveRow, NoOverspend, GrantsAddUp, ActiveHasUsesLeft,
                       AbsentIsEmpty
<1>3. (\A a \in Admins : DraftFresh(draft[a]))'
  BY DraftsStayFresh
<1>4. QED
  BY <1>1, <1>2, <1>3 DEF AccountInv

LEMMA AccountCorrect == ASSUME SingleAdmin PROVE Spec => []AccountInv
BY AccountInvInit, AccountInvStep, PTL DEF Spec

(* With one administrator at a time, no code ever promises a use it lacks, *)
(* whatever the sessions claim and settle meanwhile.                       *)
THEOREM NeverOverspent == ASSUME SingleAdmin PROVE Spec => []NoOverspend
<1>1. AccountInv => NoOverspend
  BY DEF AccountInv
<1>2. QED
  BY <1>1, AccountCorrect, PTL

(* With one administrator at a time, a code listed as active has a use to  *)
(* give, although grants set the status from a stale row.                  *)
THEOREM ActiveIsUsable == ASSUME SingleAdmin PROVE Spec => []ActiveHasUsesLeft
<1>1. AccountInv => ActiveHasUsesLeft
  BY DEF AccountInv
<1>2. QED
  BY <1>1, AccountCorrect, PTL
-----------------------------------------------------------------------------
(* Any number of administrators.  Grants that overlap write totals they    *)
(* computed from what they read; what they read was granted.               *)

DraftBacked(d) ==
  d.step \in {"grant", "revoke"} =>
    codes[d.code].status # "absent" /\ d.row.total <= ledger[d.code].granted

GrantedInv ==
  /\ LedgerInv
  /\ TotalsWithinGrants
  /\ \A a \in Admins : DraftBacked(draft[a])

(* A grant is in the ledger for good. *)
LEMMA GrantsOnlyGrow ==
  ASSUME LedgerInv, [Next]_vars, NEW c \in Codes, codes[c].status # "absent"
  PROVE  ledger[c].granted <= ledger'[c].granted
<1>1. TypeInv
  BY DEF LedgerInv
<1>2. /\ codes \in [Codes -> CodeRow] /\ ledger \in [Codes -> Totals]
      /\ ledger[c].granted \in Nat /\ ledger[c].granted <= ledger[c].granted
  BY <1>1 DEF TypeInv, TypeOK, Totals
<1>3. CASE \E d \in Codes : Claims(d) \/ Spends(d) \/ GivesBack(d) \/ Relabels(d)
  <2>1. ledger'[c].granted = ledger[c].granted
    BY <1>2, <1>3 DEF Claims, Spends, GivesBack, Relabels, Totals
  <2>2. QED
    BY <1>2, <2>1
<1>4. CASE \E d \in Codes, n \in BatchUses : Creates(d, n)
  BY <1>2, <1>4 DEF Creates
<1>5. CASE \E a \in Admins, n \in GrantUses : GrantWrite(a, n)
  <2>1. PICK a \in Admins, n \in GrantUses : GrantWrite(a, n)
    BY <1>5
  <2>2. n \in Nat
    BY UsesAssumption
  <2>3. ledger'[c].granted \in {ledger[c].granted, ledger[c].granted + n}
    BY <1>2, <2>1 DEF GrantWrite, Totals
  <2>4. QED
    BY <1>2, <2>2, <2>3
<1>6. QED
  BY <1>1, <1>2, <1>3, <1>4, <1>5, CodeSteps

(* A grant writes at most what its ledger then says was granted. *)
LEMMA GrantBacked ==
  ASSUME GrantedInv, NEW a \in Admins, NEW n \in GrantUses, GrantWrite(a, n), NEW c \in Codes
  PROVE  codes'[c].total <= ledger'[c].granted
<1>1. TypeInv
  BY DEF GrantedInv, LedgerInv
<1>2. /\ codes \in [Codes -> CodeRow] /\ ledger \in [Codes -> Totals] /\ n \in Nat
      /\ draft[a].step = "grant" /\ draft[a] \in Editing
  BY <1>1, UsesAssumption, DraftShapes DEF TypeInv, TypeOK, GrantWrite
<1>3. codes[c].total <= ledger[c].granted
  BY DEF GrantedInv, TotalsWithinGrants
<1>4. CASE c # draft[a].code
  BY <1>2, <1>3, <1>4 DEF GrantWrite
<1>5. CASE c = draft[a].code
  <2> DEFINE held == [draft[a].row EXCEPT !.total = draft[a].row.total + n]
  <2>1. draft[a].row.total \in Nat /\ draft[a].row.total <= ledger[c].granted
    BY <1>2, <1>5 DEF GrantedInv, DraftBacked, Editing, CodeRow
  <2>2. held.total = draft[a].row.total + n
    BY <1>2 DEF Editing, CodeRow
  <2>3. codes' = [codes EXCEPT ![c] = FlushGrant(codes[c], held)]
        /\ ledger' = [ledger EXCEPT ![c] = [ledger[c] EXCEPT !.granted = ledger[c].granted + n]]
    BY <1>5 DEF GrantWrite
  <2> HIDE DEF held
  <2>4. codes'[c].total = held.total /\ ledger'[c].granted = ledger[c].granted + n
    BY <1>2, <2>3 DEF FlushGrant, CodeRow, Totals
  <2>5. ledger[c].granted \in Nat
    BY <1>2 DEF Totals
  <2>6. QED
    BY <1>2, <2>1, <2>2, <2>4, <2>5
<1>6. QED
  BY <1>4, <1>5

LEMMA GrantedInvStep == GrantedInv /\ [Next]_vars => GrantedInv'
<1> SUFFICES ASSUME GrantedInv, [Next]_vars PROVE GrantedInv'
  OBVIOUS
<1>1. LedgerInv /\ LedgerInv' /\ TypeInv
  BY LedgerInvStep DEF GrantedInv, LedgerInv
<1>2. /\ codes \in [Codes -> CodeRow] /\ ledger \in [Codes -> Totals]
      /\ \A c \in Codes : codes[c].total \in Nat /\ ledger[c].granted \in Nat
  BY <1>1 DEF TypeInv, TypeOK, CodeRow, Totals
<1>3. ASSUME NEW c \in Codes PROVE codes'[c].total <= ledger'[c].granted
  <2>1. codes[c].total <= ledger[c].granted
    BY DEF GrantedInv, TotalsWithinGrants
  <2>2. CASE \E a \in Admins, n \in GrantUses : GrantWrite(a, n)
    BY <2>2, GrantBacked
  <2>3. CASE \E n \in BatchUses : Creates(c, n)
    <3>1. PICK n \in BatchUses : Creates(c, n)
      BY <2>3
    <3>2. codes'[c].total = n /\ ledger'[c].granted = n /\ n \in Nat
      BY <1>2, <3>1, UsesAssumption DEF Creates, AbsentCode, Totals
    <3>3. QED
      BY <3>2
  <2>4. CASE \E d \in Codes, n \in BatchUses : Creates(d, n) /\ c # d
    BY <1>2, <2>1, <2>4 DEF Creates
  <2>5. CASE UNCHANGED <<codes, ledger>>
    BY <2>1, <2>5
  <2>6. CASE \E d \in Codes : Claims(d) \/ Spends(d) \/ GivesBack(d) \/ Relabels(d)
    <3>1. ledger'[c].granted = ledger[c].granted
      BY <1>2, <2>6 DEF Claims, Spends, GivesBack, Relabels, Totals
    <3>2. codes'[c].total = codes[c].total
      <4>1. ASSUME NEW d \in Codes, Claims(d) \/ Spends(d) \/ GivesBack(d)
            PROVE  codes'[c].total = codes[c].total
        <5>1. codes'[c] \in {codes[c], Hold(codes[c]), Spend(codes[c]), GiveBack(codes[c])}
          BY <1>2, <4>1 DEF Claims, Spends, GivesBack
        <5>2. QED
          BY <1>2, <5>1, BalanceMoves
      <4>2. ASSUME NEW d \in Codes, Relabels(d) PROVE codes'[c].total = codes[c].total
        <5>1. \A e \in Expiries : [codes[c] EXCEPT !.expires = e].total = codes[c].total
          BY <1>2 DEF CodeRow
        <5>2. [codes[c] EXCEPT !.status = "revoked", !.revoked = TRUE].total = codes[c].total
          BY <1>2 DEF CodeRow
        <5>3. CASE c = d
          BY <1>2, <4>2, <5>1, <5>2, <5>3 DEF Relabels
        <5>4. CASE c # d
          BY <1>2, <4>2, <5>4 DEF Relabels
        <5>5. QED
          BY <5>3, <5>4
      <4>3. QED
        BY <2>6, <4>1, <4>2
    <3>3. QED
      BY <2>1, <3>1, <3>2
  <2>7. QED
    BY <1>1, <2>2, <2>3, <2>4, <2>5, <2>6, CodeSteps
<1>4. ASSUME NEW a \in Admins PROVE DraftBacked(draft[a])'
  <2> SUFFICES ASSUME draft'[a].step \in {"grant", "revoke"}
               PROVE  /\ codes'[draft'[a].code].status # "absent"
                      /\ draft'[a].row.total <= ledger'[draft'[a].code].granted
    BY DEF DraftBacked
  <2>1. ledger' \in [Codes -> Totals]
    BY <1>1 DEF LedgerInv, TypeInv, TypeOK
  <2>2. CASE draft'[a] = draft[a]
    <3> DEFINE c == draft[a].code
               t == draft[a].row.total
    <3>1. c \in Codes /\ t \in Nat /\ codes[c].status # "absent" /\ t <= ledger[c].granted
      BY <1>1, <2>2, DraftShapes DEF GrantedInv, DraftBacked, Editing, CodeRow
    <3>2. codes'[c].status # "absent" /\ ledger[c].granted <= ledger'[c].granted
      BY <1>1, <3>1, TotalSteps, GrantsOnlyGrow
    <3>3. ledger[c].granted \in Nat /\ ledger'[c].granted \in Nat
      BY <1>2, <2>1, <3>1 DEF Totals
    <3> HIDE DEF c, t
    <3>4. t <= ledger'[c].granted
      BY <3>1, <3>2, <3>3
    <3>5. QED
      BY <2>2, <3>2, <3>4 DEF c, t
  <2>3. CASE draft'[a] = Idle
    BY <2>3 DEF Idle
  <2>4. CASE /\ codes' = codes
             /\ \E c \in Codes, op \in {"grant", "revoke"} :
                  /\ codes[c].status # "absent"
                  /\ draft'[a] = [step |-> op, code |-> c, row |-> codes[c]]
    BY <1>3, <2>4
  <2>5. QED
    BY <1>1, <2>2, <2>3, <2>4, DraftSteps
<1>5. QED
  BY <1>1, <1>3, <1>4 DEF GrantedInv, TotalsWithinGrants

(* However many grants overlap and whatever they overwrite, no code has a  *)
(* use that its ledger does not say was granted.                           *)
THEOREM NoUseFromNowhere == Spec => []TotalsWithinGrants
<1>1. Init => GrantedInv
  BY TypeInvInit DEF Init, GrantedInv, LedgerInv, LedgerRebuildsBalances, TotalsWithinGrants,
     DraftBacked, AbsentCode, NoEvents, Idle
<1>2. GrantedInv => TotalsWithinGrants
  BY DEF GrantedInv
<1>3. QED
  BY <1>1, <1>2, GrantedInvStep, PTL DEF Spec
-----------------------------------------------------------------------------
(* Refinement.                                                             *)

LEMMA BalanceInit == Init => Balance!Init
BY DEF Init, Balance!Init, AbsentCode

(* Each step is one move of the account, or none.                          *)
LEMMA BalanceStep ==
  ASSUME SingleAdmin, AccountInv, [Next]_vars
  PROVE  [Balance!Next]_(Balance!account)
<1>1. TypeInv
  BY DEF AccountInv, LedgerInv
<1>2. codes \in [Codes -> CodeRow]
  BY <1>1 DEF TypeInv, TypeOK
<1>3. CASE UNCHANGED <<codes, ledger>>
  BY <1>3 DEF Balance!account
<1>4. ASSUME NEW c \in Codes, Claims(c)
      PROVE  Balance!Hold(c)
  <2>1. codes[c] \in CodeRow /\ codes' = [codes EXCEPT ![c] = Hold(codes[c])]
    BY <1>2, <1>4 DEF Claims
  <2>2. codes[c].reserved + codes[c].consumed < codes[c].total
    BY <1>4, <2>1 DEF Claims, CodeRow
  <2>3. /\ [d \in Codes |-> codes'[d].reserved]
             = [[d \in Codes |-> codes[d].reserved] EXCEPT ![c] = @ + 1]
        /\ [d \in Codes |-> codes'[d].total] = [d \in Codes |-> codes[d].total]
        /\ [d \in Codes |-> codes'[d].consumed] = [d \in Codes |-> codes[d].consumed]
    BY <1>2, <2>1, BalanceMoves
  <2>4. QED
    BY <2>2, <2>3 DEF Balance!Hold
<1>5. ASSUME NEW c \in Codes, Spends(c)
      PROVE  Balance!Spend(c)
  <2>1. codes[c] \in CodeRow /\ codes' = [codes EXCEPT ![c] = Spend(codes[c])]
    BY <1>2, <1>5 DEF Spends
  <2>2. codes[c].reserved > 0
    BY <1>5, <2>1 DEF Spends, CodeRow
  <2>3. /\ [d \in Codes |-> codes'[d].reserved]
             = [[d \in Codes |-> codes[d].reserved] EXCEPT ![c] = @ - 1]
        /\ [d \in Codes |-> codes'[d].consumed]
             = [[d \in Codes |-> codes[d].consumed] EXCEPT ![c] = @ + 1]
        /\ [d \in Codes |-> codes'[d].total] = [d \in Codes |-> codes[d].total]
    BY <1>2, <2>1, BalanceMoves
  <2>4. QED
    BY <2>2, <2>3 DEF Balance!Spend
<1>6. ASSUME NEW c \in Codes, GivesBack(c)
      PROVE  Balance!GiveBack(c)
  <2>1. codes[c] \in CodeRow /\ codes' = [codes EXCEPT ![c] = GiveBack(codes[c])]
    BY <1>2, <1>6 DEF GivesBack
  <2>2. codes[c].reserved > 0
    BY <1>6, <2>1 DEF GivesBack, CodeRow
  <2>3. /\ [d \in Codes |-> codes'[d].reserved]
             = [[d \in Codes |-> codes[d].reserved] EXCEPT ![c] = @ - 1]
        /\ [d \in Codes |-> codes'[d].total] = [d \in Codes |-> codes[d].total]
        /\ [d \in Codes |-> codes'[d].consumed] = [d \in Codes |-> codes[d].consumed]
    BY <1>2, <2>1, BalanceMoves
  <2>4. QED
    BY <2>2, <2>3 DEF Balance!GiveBack
<1>7. ASSUME NEW c \in Codes, Relabels(c)
      PROVE  UNCHANGED Balance!account
  <2>1. \A d \in Codes : /\ codes'[d].total = codes[d].total
                         /\ codes'[d].reserved = codes[d].reserved
                         /\ codes'[d].consumed = codes[d].consumed
    <3>1. CASE codes' = [codes EXCEPT ![c] = [codes[c] EXCEPT !.status = "revoked",
                                                              !.revoked = TRUE]]
      BY <1>2, <3>1 DEF CodeRow
    <3>2. ASSUME NEW e \in Expiries, codes' = [codes EXCEPT ![c] = [codes[c] EXCEPT !.expires = e]]
          PROVE  \A d \in Codes : /\ codes'[d].total = codes[d].total
                                  /\ codes'[d].reserved = codes[d].reserved
                                  /\ codes'[d].consumed = codes[d].consumed
      BY <1>2, <3>2 DEF CodeRow
    <3>3. QED
      BY <1>7, <3>1, <3>2 DEF Relabels
  <2>2. QED
    BY <2>1 DEF Balance!account
<1>8. ASSUME NEW c \in Codes, NEW n \in Nat \ {0}, codes'[c].total = codes[c].total + n,
             \A d \in Codes \ {c} : codes'[d] = codes[d],
             codes'[c].reserved = codes[c].reserved, codes'[c].consumed = codes[c].consumed
      PROVE  Balance!Grant(c)
  <2>1. codes'[c].total > codes[c].total
    BY <1>2, <1>8 DEF CodeRow
  <2>2. /\ [d \in Codes |-> codes'[d].total]
             = [[d \in Codes |-> codes[d].total] EXCEPT ![c] = codes'[c].total]
        /\ [d \in Codes |-> codes'[d].reserved] = [d \in Codes |-> codes[d].reserved]
        /\ [d \in Codes |-> codes'[d].consumed] = [d \in Codes |-> codes[d].consumed]
    BY <1>8
  <2>3. QED
    BY <2>1, <2>2 DEF Balance!Grant
<1>9. ASSUME NEW c \in Codes, NEW n \in BatchUses, Creates(c, n)
      PROVE  Balance!Grant(c)
  <2>1. codes[c].total = 0 /\ codes[c].reserved = 0 /\ codes[c].consumed = 0
    BY <1>9 DEF Creates, AccountInv, AbsentIsEmpty, LedgerInv
  <2>2. /\ codes'[c].total = n /\ codes'[c].reserved = 0 /\ codes'[c].consumed = 0
        /\ \A d \in Codes \ {c} : codes'[d] = codes[d]
    BY <1>2, <1>9 DEF Creates, AbsentCode
  <2>3. n \in Nat \ {0} /\ codes'[c].total = codes[c].total + n
    BY <2>1, <2>2, UsesAssumption
  <2>4. QED
    BY <1>8, <2>1, <2>2, <2>3
<1>10. ASSUME NEW a \in Admins, NEW n \in GrantUses, GrantWrite(a, n)
       PROVE  \E c \in Codes : Balance!Grant(c)
  <2>1. draft[a].code \in Codes
    BY <1>1, <1>10, DraftShapes DEF GrantWrite, Editing
  <2>2. \A d \in Codes \ {draft[a].code} : codes'[d] = codes[d]
    BY <1>2, <1>10, <2>1 DEF GrantWrite
  <2>3. n \in Nat \ {0}
    BY UsesAssumption
  <2>4. PICK c \in Codes : c = draft[a].code
    BY <2>1
  <2>5. /\ codes'[c].total = codes[c].total + n
        /\ codes'[c].reserved = codes[c].reserved /\ codes'[c].consumed = codes[c].consumed
    BY <1>10, <2>4, GrantSound
  <2>6. Balance!Grant(c)
    BY <1>8, <2>2, <2>3, <2>4, <2>5
  <2>7. QED
    BY <2>6
<1>11. QED
  <2>1. CASE \E c \in Codes : Claims(c) \/ Spends(c) \/ GivesBack(c) \/ Relabels(c)
    BY <1>4, <1>5, <1>6, <1>7, <2>1 DEF Balance!Next
  <2>2. CASE \E c \in Codes, n \in BatchUses : Creates(c, n)
    BY <1>9, <2>2 DEF Balance!Next
  <2>3. CASE \E a \in Admins, n \in GrantUses : GrantWrite(a, n)
    BY <1>10, <2>3 DEF Balance!Next
  <2>4. QED
    BY <1>1, <1>3, <2>1, <2>2, <2>3, CodeSteps

(* With one administrator at a time the balance columns implement the      *)
(* abstract account: each statement on them is one atomic move of it.      *)
THEOREM ImplementsBalance == ASSUME SingleAdmin PROVE Spec => BalanceSpec
<1>1. AccountInv /\ [Next]_vars => [Balance!Next]_(Balance!account)
  BY BalanceStep
<1>2. QED
  BY <1>1, BalanceInit, AccountCorrect, PTL DEF Spec, BalanceSpec, Balance!Spec
=============================================================================
