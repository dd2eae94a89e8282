------------------------ MODULE UsageLimitsProofs ------------------------
(***************************************************************************)
(* More proofs about UsageAuthorizer: revocation, the concurrent limit and *)
(* the holds of a code.  Unlike the account of UsageAuthorizerProofs, none *)
(* of them restricts the number of administrators.                         *)
(***************************************************************************)
EXTENDS UsageAuthorizerProofs

USE DEF tables

-----------------------------------------------------------------------------
(* Revocation.  The status may be overwritten, revoked_at is not.           *)

Marked(row) == row.status = "revoked" => row.revoked
Revoked(row) == row.status # "absent" /\ row.revoked
RevocationInv == TypeInv /\ \A c \in Codes : Marked(codes[c])

CodeFields == [status : CodeStatus, revoked : BOOLEAN, total : Nat,
               consumed : Nat, reserved : Int, expires : Expiries]

LEMMA RowsKeepTheMark ==
  ASSUME NEW row \in CodeRow
  PROVE  /\ Hold(row).revoked = row.revoked /\ Hold(row).status \in {row.status, "exhausted"}
         /\ Spend(row).revoked = row.revoked /\ Spend(row).status \in {row.status, "exhausted"}
         /\ GiveBack(row).revoked = row.revoked
         /\ GiveBack(row).status # row.status =>
              row.status = "exhausted" /\ GiveBack(row).status = "active"
<1>1. ASSUME NEW r \in CodeFields
      PROVE  /\ MarkExhausted(r).revoked = r.revoked /\ MarkExhausted(r).status \in {r.status, "exhausted"}
             /\ Reactivate(r).revoked = r.revoked
             /\ Reactivate(r).status # r.status =>
                  r.status = "exhausted" /\ Reactivate(r).status = "active"
  <2>1. \A st : /\ [r EXCEPT !.status = st].revoked = r.revoked
                /\ [r EXCEPT !.status = st].status = st
    BY DEF CodeFields
  <2>2. MarkExhausted(r) \in {r, [r EXCEPT !.status = "exhausted"]}
    BY DEF MarkExhausted
  <2>3. \/ Reactivate(r) = r
        \/ r.status = "exhausted" /\ Reactivate(r) = [r EXCEPT !.status = "active"]
    BY DEF Reactivate
  <2>4. QED
    BY <2>1, <2>2, <2>3
<1>2. /\ [row EXCEPT !.reserved = @ + 1] \in CodeFields
      /\ [row EXCEPT !.reserved = @ - 1] \in CodeFields
      /\ [row EXCEPT !.reserved = @ - 1, !.consumed = @ + 1] \in CodeFields
  <2>1. row.reserved + 1 \in Int /\ row.reserved - 1 \in Int /\ row.consumed + 1 \in Nat
    BY DEF CodeRow
  <2>2. [row EXCEPT !.reserved = row.reserved + 1] \in CodeFields
    BY <2>1 DEF CodeRow, CodeFields
  <2>3. [row EXCEPT !.reserved = row.reserved - 1] \in CodeFields
    BY <2>1 DEF CodeRow, CodeFields
  <2>4. [row EXCEPT !.reserved = row.reserved - 1, !.consumed = row.consumed + 1] \in CodeFields
    BY <2>1 DEF CodeRow, CodeFields
  <2>5. QED
    BY <2>2, <2>3, <2>4, Zenon
<1>3. /\ [row EXCEPT !.reserved = @ + 1].revoked = row.revoked
      /\ [row EXCEPT !.reserved = @ + 1].status = row.status
      /\ [row EXCEPT !.reserved = @ - 1].revoked = row.revoked
      /\ [row EXCEPT !.reserved = @ - 1].status = row.status
      /\ [row EXCEPT !.reserved = @ - 1, !.consumed = @ + 1].revoked = row.revoked
      /\ [row EXCEPT !.reserved = @ - 1, !.consumed = @ + 1].status = row.status
  BY DEF CodeRow
<1>4. QED
  <2>1. /\ \E r \in CodeFields : r.revoked = row.revoked /\ r.status = row.status
                                  /\ Hold(row) = MarkExhausted(r)
        /\ \E r \in CodeFields : r.revoked = row.revoked /\ r.status = row.status
                                  /\ Spend(row) = MarkExhausted(r)
        /\ \E r \in CodeFields : r.revoked = row.revoked /\ r.status = row.status
                                  /\ GiveBack(row) = Reactivate(r)
    BY <1>2, <1>3, Zenon DEF Hold, Spend, GiveBack
  <2>2. QED
    BY <1>1, <2>1

(* No step takes the mark away, and a step that writes revoked sets it.     *)
LEMMA MarksStay ==
  ASSUME RevocationInv, [Next]_vars, NEW c \in Codes
  PROVE  /\ Marked(codes'[c])
         /\ Revoked(codes[c]) => Revoked(codes'[c])
<1>1. TypeInv /\ codes[c] \in CodeRow /\ codes \in [Codes -> CodeRow] /\ Marked(codes[c])
  BY DEF RevocationInv, TypeInv, TypeOK
<1>2. CASE UNCHANGED <<codes, ledger>>
  BY <1>1, <1>2
<1>3. ASSUME NEW d \in Codes, Claims(d) \/ Spends(d) \/ GivesBack(d)
      PROVE  Marked(codes'[c]) /\ (Revoked(codes[c]) => Revoked(codes'[c]))
  <2>1. codes'[c] \in {codes[c], Hold(codes[c]), Spend(codes[c]), GiveBack(codes[c])}
    BY <1>1, <1>3 DEF Claims, Spends, GivesBack
  <2>2. /\ codes'[c].revoked = codes[c].revoked
        /\ codes'[c].status \in {codes[c].status, "exhausted", "active"}
        /\ codes[c].status # "absent" => codes'[c].status # "absent"
    BY <1>1, <2>1, RowsKeepTheMark
  <2>3. QED
    BY <1>1, <2>2 DEF Marked, Revoked
<1>4. ASSUME NEW d \in Codes, Relabels(d)
      PROVE  Marked(codes'[c]) /\ (Revoked(codes[c]) => Revoked(codes'[c]))
  <2>1. CASE d # c
    <3>1. codes'[c] = codes[c]
      BY <1>1, <1>4, <2>1 DEF Relabels
    <3>2. QED
      BY <1>1, <3>1
  <2>2. CASE d = c
    <3>1. \/ codes'[c] = [codes[c] EXCEPT !.status = "revoked", !.revoked = TRUE]
          \/ \E e \in Expiries : codes'[c] = [codes[c] EXCEPT !.expires = e]
      BY <1>1, <1>4, <2>2 DEF Relabels
    <3>2. QED
      BY <1>1, <3>1 DEF Marked, Revoked, CodeRow
  <2>3. QED
    BY <2>1, <2>2
<1>5. ASSUME NEW d \in Codes, NEW n \in BatchUses, Creates(d, n)
      PROVE  Marked(codes'[c]) /\ (Revoked(codes[c]) => Revoked(codes'[c]))
  BY <1>1, <1>5 DEF Creates, Marked, Revoked, CodeRow, AbsentCode
<1>6. ASSUME NEW a \in Admins, NEW n \in GrantUses, GrantWrite(a, n)
      PROVE  Marked(codes'[c]) /\ (Revoked(codes[c]) => Revoked(codes'[c]))
  BY <1>1, <1>6 DEF GrantWrite, FlushGrant, Marked, Revoked, CodeRow
<1>7. QED
  BY <1>1, <1>2, <1>3, <1>4, <1>5, <1>6, CodeSteps

(* A revocation is final, for any number of administrators: a grant that   *)
(* was computed before it may write active, but neither unset revoked_at   *)
(* nor make the code usable (admin_service.py:339-344).                    *)
THEOREM RevocationFinal == Spec => RevocationIsFinal
<1>1. Init => RevocationInv
  BY TypeInvInit DEF Init, RevocationInv, Marked, AbsentCode
<1>2. RevocationInv /\ [Next]_vars => RevocationInv'
  BY TypeInvStep, MarksStay DEF RevocationInv
<1>3. ASSUME RevocationInv, [Next]_vars
      PROVE  [\A c \in Codes :
                EffectiveStatus(codes[c], clock) = "revoked" =>
                  EffectiveStatus(codes[c], clock)' = "revoked" /\ ~Usable(codes[c], clock)']_vars
  <2>1. SUFFICES ASSUME NEW c \in Codes, EffectiveStatus(codes[c], clock) = "revoked"
                 PROVE  EffectiveStatus(codes[c], clock)' = "revoked" /\ ~Usable(codes[c], clock)'
    OBVIOUS
  <2>2. Revoked(codes[c])
    BY <1>3, <2>1 DEF EffectiveStatus, Revoked, RevocationInv, Marked
  <2>3. Revoked(codes'[c])
    BY <1>3, <2>2, MarksStay
  <2>4. QED
    BY <2>3 DEF EffectiveStatus, Usable, Revoked
<1>4. QED
  BY <1>1, <1>2, <1>3, PTL DEF Spec, RevocationIsFinal

-----------------------------------------------------------------------------
(* Reservations.  A step that writes them is a claim or a settlement.       *)

(* What a code holds back stays, or its batch has just created it.          *)
SameHolds(c) ==
  \/ codes'[c].reserved = codes[c].reserved
  \/ codes[c].status = "absent" /\ codes'[c].reserved = 0
USE DEF SameHolds

LEMMA ReservationSteps ==
  ASSUME TypeInv, [Next]_vars
  PROVE  \/ /\ res' = res
            /\ clock' >= clock
            /\ \A c \in Codes : SameHolds(c)
         \/ \E s \in Sessions : ReserveInsert(s)
         \/ \E s \in Sessions, k \in Keys : CommitRow(s, k) \/ ReleaseRow(s, k)
<1>1. codes \in [Codes -> CodeRow] /\ clock \in Int
  BY TimeAssumption DEF TypeInv, TypeOK
<1>2. CASE \E s \in Sessions : SessionStep(s)
  BY <1>1, <1>2
  DEF SessionStep, ReserveCheck, ReserveLookup, ReserveExisting, ReserveReject,
      SettleRead, SettleFail, Abandon
<1>3. CASE \E a \in Admins : AdminStep(a)
  <2>1. PICK a \in Admins : AdminStep(a)
    BY <1>3
  <2>2. CASE \E n \in GrantUses : GrantWrite(a, n)
    <3>1. res' = res /\ clock' = clock
      BY <2>2 DEF GrantWrite
    <3>2. \E held : codes' = [codes EXCEPT ![draft[a].code] = FlushGrant(codes[draft[a].code], held)]
      BY <2>2 DEF GrantWrite
    <3>3. ASSUME NEW c \in Codes, NEW held PROVE FlushGrant(codes[c], held).reserved = codes[c].reserved
      BY <1>1 DEF FlushGrant, CodeRow
    <3>4. ASSUME NEW c \in Codes PROVE codes'[c].reserved = codes[c].reserved
      BY <1>1, <3>2, <3>3
    <3>5. QED
      BY <1>1, <3>1, <3>4
  <2>3. CASE RevokeWrite(a)
    <3>1. ASSUME NEW c \in Codes PROVE codes'[c].reserved = codes[c].reserved
      BY <1>1, <2>3 DEF RevokeWrite, CodeRow
    <3>2. QED
      BY <1>1, <2>3, <3>1 DEF RevokeWrite
  <2>4. QED
    BY <1>1, <2>1, <2>2, <2>3 DEF AdminStep, EditRead, AbandonEdit
<1>4. CASE AdminWrite
  <2>1. ASSUME NEW d \in Codes, NEW n \in BatchUses, NEW e \in Dates, CreateBatch(d, n, e)
        PROVE  res' = res /\ clock' = clock /\ \A c \in Codes : SameHolds(c)
    BY <1>1, <2>1 DEF CreateBatch, AbsentCode, SameHolds
  <2>2. ASSUME NEW d \in Codes, NEW e \in Dates, UpdateExpiry(d, e)
        PROVE  res' = res /\ clock' = clock /\ \A c \in Codes : codes'[c].reserved = codes[c].reserved
    BY <1>1, <2>2 DEF UpdateExpiry, CodeRow
  <2>3. QED
    BY <1>1, <1>4, <2>1, <2>2 DEF AdminWrite, UpdatePolicy
<1>5. CASE Crash \/ Tick
  BY <1>1, <1>5 DEF Crash, Tick
<1>6. CASE UNCHANGED vars
  BY <1>1, <1>6 DEF vars
<1>7. QED
  BY <1>2, <1>3, <1>4, <1>5, <1>6 DEF Next

(* The instant of a claim is never ahead of the clock.                      *)
ClaimsPast ==
  \A s \in Sessions : call[s].step \in {"lookup", "insert"} => call[s].now <= clock

LiveInv == TypeInv /\ ClaimsPast /\ LiveWithinLimit

LEMMA ClaimsStayPast == TypeInv /\ ClaimsPast /\ [Next]_vars => ClaimsPast'
<1> SUFFICES ASSUME TypeInv, ClaimsPast, [Next]_vars PROVE ClaimsPast'
  OBVIOUS
<1>1. /\ call \in [Sessions -> Claiming \cup Settling \cup {Idle}]
      /\ clock \in Nat
      /\ \A c \in Claiming : c.now \in Nat
  BY TimeAssumption DEF TypeInv, TypeOK, Claiming
<1>2. ASSUME NEW s \in Sessions, SessionStep(s) PROVE ClaimsPast'
  <2>1. clock' = clock
    BY <1>2
    DEF SessionStep, ReserveCheck, ReserveLookup, ReserveExisting, ReserveInsert, ReserveReject,
        SettleRead, CommitRow, ReleaseRow, SettleRow, SettleFail, Abandon
  <2>2. CASE \E r \in Requests : ReserveCheck(s, r)
    BY <1>1, <2>1, <2>2 DEF ReserveCheck, ClaimsPast
  <2>3. CASE ReserveLookup(s)
    <3>1. call[s] \in Claiming
      BY <2>3, CallShapes DEF ReserveLookup
    <3>2. call'[s].now = call[s].now
      BY <1>1, <2>3, <3>1 DEF ReserveLookup, Claiming
    <3>3. \A t \in Sessions : t # s => call'[t] = call[t]
      BY <1>1, <2>3 DEF ReserveLookup
    <3>4. call[s].now <= clock
      BY <2>3 DEF ReserveLookup, ClaimsPast
    <3>5. QED
      BY <2>1, <3>2, <3>3, <3>4 DEF ClaimsPast
  <2>4. CASE call' = [call EXCEPT ![s] = Idle]
    BY <1>1, <2>1, <2>4 DEF ClaimsPast, Idle
  <2>5. CASE \E op \in {"commit", "release"}, rows \in SUBSET Keys : SettleRead(s, op, rows)
    BY <1>1, <2>1, <2>5 DEF SettleRead, ClaimsPast
  <2>6. CASE \E k \in Keys : CommitRow(s, k) \/ ReleaseRow(s, k)
    <3>1. PICK k \in Keys : CommitRow(s, k) \/ ReleaseRow(s, k)
      BY <2>6
    <3>2. RowDone(s, k) /\ call[s] \in Settling
      BY <3>1, SettledRow DEF CommitRow, ReleaseRow, SettleRow
    <3>3. \A t \in Sessions : call'[t] = call[t] \/ call'[t] = Idle \/
            (t = s /\ call'[t] = [call[t] EXCEPT !.rows = call[t].rows \ {k}])
      BY <3>2, RowDoneType
    <3>4. [call[s] EXCEPT !.rows = call[s].rows \ {k}].step = call[s].step
      BY <3>2 DEF Settling
    <3>5. call[s].step \in {"commit", "release"} /\ Idle.step = "idle"
      BY <3>2 DEF Settling, Idle
    <3>6. \A t \in Sessions : call'[t] = call[t] \/ call'[t].step \in {"idle", "commit", "release"}
      BY <3>3, <3>4, <3>5, Zenon
    <3>7. QED
      BY <2>1, <3>6 DEF ClaimsPast
  <2>7. QED
    BY <1>2, <2>2, <2>3, <2>4, <2>5, <2>6
    DEF SessionStep, ReserveExisting, ReserveInsert, ReserveReject, SettleFail, Abandon
<1>3. CASE \E a \in Admins : AdminStep(a)
  BY <1>3 DEF AdminStep, EditRead, GrantWrite, RevokeWrite, AbandonEdit, ClaimsPast
<1>4. CASE AdminWrite
  BY <1>4 DEF AdminWrite, CreateBatch, UpdateExpiry, UpdatePolicy, ClaimsPast
<1>5. CASE Crash
  BY <1>1, <1>5 DEF Crash, ClaimsPast, Idle
<1>6. CASE Tick
  <2>1. call' = call /\ clock' = clock + 1
    BY <1>6 DEF Tick
  <2>2. ASSUME NEW s \in Sessions, call[s].step \in {"lookup", "insert"}
        PROVE  call[s].now <= clock + 1
    BY <1>1, <2>2, CallShapes DEF ClaimsPast
  <2>3. QED
    BY <2>1, <2>2 DEF ClaimsPast
<1>7. CASE UNCHANGED vars
  BY <1>7 DEF vars, ClaimsPast
<1>8. QED
  BY <1>2, <1>3, <1>4, <1>5, <1>6, <1>7 DEF Next

(* The analyses in flight stay within the largest concurrent limit, however *)
(* many sessions claim at once (usage.py:441-450).  A claim counts the rows *)
(* that were live when it read the clock; fewer of them are live now.       *)
THEOREM InFlightWithinLimit == Spec => []LiveWithinLimit
<1>1. Init => LiveInv
  <2> SUFFICES ASSUME Init PROVE LiveInv
    OBVIOUS
  <2>1. ClaimsPast
    BY DEF Init, ClaimsPast, Idle
  <2>2. Live(clock) = {}
    BY DEF Init, Live, NoReservation
  <2>3. Cardinality(Live(clock)) <= DefaultPolicy.concurrent
    BY <2>2, FS_EmptySet, PolicyAssumption DEF PolicyType
  <2>4. QED
    BY <2>1, <2>3, TypeInvInit, PolicyAssumption DEF LiveInv, LiveWithinLimit
<1>2. ASSUME LiveInv, [Next]_vars PROVE LiveWithinLimit'
  <2>1. /\ TypeInv /\ res \in [Keys -> ReservationRow \cup {NoReservation}]
        /\ clock \in Nat
        /\ \A row \in ReservationRow : row.expires \in Nat
    BY <1>2, TimeAssumption DEF LiveInv, TypeInv, TypeOK, ReservationRow
  <2>2. \A now : IsFiniteSet(Live(now)) /\ Cardinality(Live(now)) \in Nat
    <3>1. \A now : Live(now) \in SUBSET Keys
      BY DEF Live
    <3>2. QED
      BY <3>1, KeysAssumption, FS_Subset, FS_CardinalityType
  <2>3. \A p \in Policies : p.concurrent \in Nat
    BY PolicyAssumption DEF PolicyType
  <2>4. CASE Live(clock)' \subseteq Live(clock)
    <3>1. Cardinality(Live(clock)') <= Cardinality(Live(clock)) /\ Cardinality(Live(clock)') \in Nat
      BY <2>2, <2>4, FS_Subset, FS_CardinalityType
    <3>2. QED
      BY <1>2, <2>2, <2>3, <3>1 DEF LiveInv, LiveWithinLimit
  <2>5. CASE res' = res /\ clock' >= clock
    <3>1. clock' \in Nat
      BY <1>2, TypeInvStep, TimeAssumption DEF LiveInv, TypeInv, TypeOK
    <3>2. Live(clock)' \subseteq Live(clock)
      BY <2>1, <2>5, <3>1 DEF Live, NoReservation
    <3>3. QED
      BY <2>4, <3>2
  <2>6. CASE \E s \in Sessions, k \in Keys : CommitRow(s, k) \/ ReleaseRow(s, k)
    <3>1. PICK s \in Sessions, k \in Keys : CommitRow(s, k) \/ ReleaseRow(s, k)
      BY <2>6
    <3>2. /\ clock' = clock
          /\ \E status \in {"consumed", "released"} :
               res' = [res EXCEPT ![k] = [res[k] EXCEPT !.status = status, !.updated = clock]]
          /\ res[k] \in ReservationRow
      BY <2>1, <3>1, SettledRow DEF CommitRow, ReleaseRow, SettleRow
    <3>3. /\ \A j \in Keys : j # k => res'[j] = res[j]
          /\ res'[k].status # "reserved"
      BY <2>1, <3>2 DEF ReservationRow
    <3>4. Live(clock)' \subseteq Live(clock)
      BY <3>2, <3>3 DEF Live
    <3>5. QED
      BY <2>4, <3>4
  <2>7. CASE \E s \in Sessions : ReserveInsert(s)
    <3>1. PICK s \in Sessions : ReserveInsert(s)
      BY <2>7
    <3> DEFINE claim == call[s]
               k == claim.request.key
    <3>2. claim \in Claiming /\ claim.policy \in Policies /\ claim.now \in Nat /\ k \in Keys
      BY <2>1, <3>1, CallShapes, ConstantTypes DEF ReserveInsert, Claiming
    <3>3. claim.now <= clock
      BY <1>2, <3>1 DEF LiveInv, ClaimsPast, ReserveInsert
    <3>4. Cardinality(Live(claim.now) \cup {k}) <= claim.policy.concurrent
      BY <3>1 DEF ReserveInsert, ClaimAllowed, WithinLimits
    <3>5. clock' = clock /\ \A j \in Keys : j # k => res'[j] = res[j]
      BY <2>1, <3>1 DEF ReserveInsert
    <3>6. Live(clock)' \subseteq Live(claim.now) \cup {k}
      BY <2>1, <3>2, <3>3, <3>5 DEF Live, NoReservation
    <3>7. IsFiniteSet(Live(claim.now) \cup {k})
      BY <2>2, FS_AddElement
    <3>8. /\ Cardinality(Live(clock)') <= Cardinality(Live(claim.now) \cup {k})
          /\ Cardinality(Live(clock)') \in Nat /\ Cardinality(Live(claim.now) \cup {k}) \in Nat
      BY <3>6, <3>7, FS_Subset, FS_CardinalityType
    <3>9. QED
      BY <2>3, <3>2, <3>4, <3>8 DEF LiveWithinLimit
  <2>8. QED
    BY <2>1, <2>5, <2>6, <2>7, <1>2, ReservationSteps
<1>3. LiveInv /\ [Next]_vars => LiveInv'
  BY <1>2, TypeInvStep, ClaimsStayPast DEF LiveInv
<1>4. LiveInv => LiveWithinLimit
  BY DEF LiveInv
<1>5. QED
  BY <1>1, <1>3, <1>4, PTL DEF Spec

-----------------------------------------------------------------------------
(* Holds.  Each hold of a code is one of its reserved reservations.         *)

HoldInv == TypeInv /\ NoStrandedUses

LEMMA ReservationsFinite ==
  ASSUME NEW c
  PROVE  IsFiniteSet(ReservationsOf(c)) /\ Cardinality(ReservationsOf(c)) \in Nat
<1>1. ReservationsOf(c) \in SUBSET Keys
  BY DEF ReservationsOf
<1>2. QED
  BY <1>1, KeysAssumption, FS_Subset, FS_CardinalityType

LEMMA ClaimAddsAReservation ==
  ASSUME HoldInv, NEW s \in Sessions, ReserveInsert(s), NEW c \in Codes
  PROVE  codes'[c].reserved <= Cardinality(ReservationsOf(c)')
<1> DEFINE k == call[s].request.key
           charged == ChargedCode(call[s])
<1>1. k \in Keys /\ charged \in Codes \cup {NoCode}
  BY CallShapes, ConstantTypes DEF HoldInv, ReserveInsert, ChargedCode, Claiming
<1>2. codes[c] \in CodeRow /\ codes[c].reserved \in Nat /\ codes \in [Codes -> CodeRow]
  BY DEF HoldInv, TypeInv, TypeOK, CodeRow
<1>3. /\ k \notin ReservationsOf(c)
      /\ res'[k].status = "reserved" /\ res'[k].code = charged
      /\ \A j \in Keys : j # k => res'[j] = res[j]
  BY <1>1 DEF HoldInv, TypeInv, TypeOK, ReserveInsert, ReservationsOf, NoReservation
<1>4. codes[c].reserved <= Cardinality(ReservationsOf(c))
  BY DEF HoldInv, NoStrandedUses
<1>5. CASE charged = c
  <2>1. codes'[c].reserved = codes[c].reserved + 1
    BY <1>1, <1>2, <1>5, BalanceMoves, ConstantTypes DEF ReserveInsert
  <2>2. ReservationsOf(c)' = ReservationsOf(c) \cup {k}
    BY <1>1, <1>3, <1>5 DEF ReservationsOf
  <2>3. Cardinality(ReservationsOf(c)') = Cardinality(ReservationsOf(c)) + 1
    BY <1>3, <2>2, ReservationsFinite, FS_AddElement
  <2>4. QED
    BY <1>2, <1>4, <2>1, <2>3, ReservationsFinite
<1>6. CASE charged # c
  <2>1. codes'[c] = codes[c]
    BY <1>1, <1>2, <1>6 DEF ReserveInsert
  <2>2. ReservationsOf(c)' = ReservationsOf(c)
    BY <1>1, <1>3, <1>6 DEF ReservationsOf
  <2>3. QED
    BY <1>4, <2>1, <2>2
<1>7. QED
  BY <1>5, <1>6

\* A settlement frees one hold and ends at most one reservation: the row may
\* have been settled before.
LEMMA SettlementEndsAtMostOne ==
  ASSUME HoldInv, NEW s \in Sessions, NEW k \in Keys,
         CommitRow(s, k) \/ ReleaseRow(s, k), NEW c \in Codes
  PROVE  codes'[c].reserved <= Cardinality(ReservationsOf(c)')
<1> DEFINE charged == res[k].code
<1>1. /\ res[k] \in ReservationRow
      /\ charged # NoCode => charged \in Codes /\ codes[charged].reserved >= 1
  BY SettledRow DEF HoldInv
<1>2. codes[c] \in CodeRow /\ codes[c].reserved \in Nat /\ codes \in [Codes -> CodeRow]
  BY DEF HoldInv, TypeInv, TypeOK, CodeRow
<1>3. /\ \E status \in {"consumed", "released"} :
           res' = [res EXCEPT ![k] = [res[k] EXCEPT !.status = status, !.updated = clock]]
      /\ res \in [Keys -> ReservationRow \cup {NoReservation}]
  BY DEF CommitRow, ReleaseRow, SettleRow, HoldInv, TypeInv, TypeOK
<1>4. /\ res'[k].status # "reserved"
      /\ \A j \in Keys : j # k => res'[j] = res[j]
  BY <1>1, <1>3 DEF ReservationRow
<1>5. ReservationsOf(c)' = ReservationsOf(c) \ {k}
  BY <1>4 DEF ReservationsOf
<1>6. /\ codes[c].reserved <= Cardinality(ReservationsOf(c))
      /\ Cardinality(ReservationsOf(c)') =
           IF k \in ReservationsOf(c) THEN Cardinality(ReservationsOf(c)) - 1
           ELSE Cardinality(ReservationsOf(c))
  BY <1>5, ReservationsFinite, FS_RemoveElement DEF HoldInv, NoStrandedUses
<1>7. CASE charged = c
  <2>1. codes'[c].reserved = codes[c].reserved - 1
    BY <1>1, <1>2, <1>7, BalanceMoves, ConstantTypes DEF CommitRow, ReleaseRow, SettleRow
  <2>2. QED
    BY <1>2, <1>6, <2>1, ReservationsFinite
<1>8. CASE charged # c
  <2>1. codes'[c] = codes[c]
    BY <1>1, <1>2, <1>8 DEF CommitRow, ReleaseRow, SettleRow
  <2>2. k \notin ReservationsOf(c)
    BY <1>8 DEF ReservationsOf
  <2>3. QED
    BY <1>6, <2>1, <2>2
<1>9. QED
  BY <1>7, <1>8

LEMMA HoldStays == HoldInv /\ [Next]_vars => HoldInv'
<1>1. ASSUME HoldInv, [Next]_vars, NEW c \in Codes
      PROVE  codes'[c].reserved <= Cardinality(ReservationsOf(c)')
  <2>1. CASE \E s \in Sessions : ReserveInsert(s)
    BY <1>1, <2>1, ClaimAddsAReservation
  <2>2. CASE \E s \in Sessions, k \in Keys : CommitRow(s, k) \/ ReleaseRow(s, k)
    BY <1>1, <2>2, SettlementEndsAtMostOne
  <2>3. CASE res' = res /\ codes'[c].reserved \in {0, codes[c].reserved}
    <3>1. ReservationsOf(c)' = ReservationsOf(c)
      BY <2>3 DEF ReservationsOf
    <3>2. codes[c].reserved <= Cardinality(ReservationsOf(c)) /\ codes[c].reserved \in Nat
      BY <1>1 DEF HoldInv, NoStrandedUses, TypeInv, TypeOK, CodeRow
    <3>3. QED
      BY <2>3, <3>1, <3>2, ReservationsFinite
  <2>4. QED
    BY <1>1, <2>1, <2>2, <2>3, ReservationSteps DEF HoldInv
<1>2. QED
  BY <1>1, TypeInvStep DEF HoldInv, NoStrandedUses

(* No use is stranded, however settlements of one reservation overlap: a   *)
(* code holds back at most one use for each reservation still reserved, so *)
(* when all are settled all its uses are free or spent (usage.py:238-266,  *)
(* 316-345).                                                               *)
THEOREM NothingStranded == Spec => []NoStrandedUses
<1>1. Init => HoldInv
  BY TypeInvInit, ReservationsFinite DEF Init, HoldInv, NoStrandedUses, AbsentCode
<1>2. HoldInv => NoStrandedUses
  BY DEF HoldInv
<1>3. QED
  BY <1>1, <1>2, HoldStays, PTL DEF Spec

-----------------------------------------------------------------------------
(* The budget of a day.  A report that is confirmed in time was live before, *)
(* so confirmed reports and live analyses together only grow with a claim,   *)
(* and a claim has counted both.                                            *)

Counted == PaidInTime \cup Live(clock)
CountsSettlements ==
  \A k \in Keys : res[k].status \in {"consumed", "released"} => settled[k] # 0

DailyInv == TypeInv /\ ClaimsPast /\ CountsSettlements /\ DailyBudgetHeld

LEMMA Multiples ==
  ASSUME NEW n \in Nat \ {0}, NEW p \in Int, NEW q \in Int, NEW x \in 0 .. n - 1, NEW y \in 0 .. n - 1,
         n * p + x <= n * q + y
  PROVE  n * p <= n * q
<1>1. p <= q
  <2>1. SUFFICES ASSUME p >= q + 1 PROVE FALSE
    OBVIOUS
  <2>2. n * p >= n * (q + 1)
    BY <2>1
  <2>3. QED
    BY <2>2
<1>2. QED
  BY <1>1

(* Days begin one after the other.                                          *)
LEMMA DaysGoOn ==
  ASSUME NEW a \in Nat, NEW b \in Nat, a <= b
  PROVE  DayStart(a) \in Int /\ DayStart(a) <= DayStart(b)
<1> DEFINE n == DayLength
<1>1. n \in Nat \ {0}
  BY TimeAssumption
<1>2. /\ a = n * (a \div n) + (a % n) /\ a % n \in 0 .. n - 1 /\ a \div n \in Int
      /\ b = n * (b \div n) + (b % n) /\ b % n \in 0 .. n - 1 /\ b \div n \in Int
  BY <1>1
<1> HIDE DEF n
<1>3. n * (a \div n) <= n * (b \div n)
  BY <1>1, <1>2, Multiples
<1>4. a - (a % n) = n * (a \div n) /\ b - (b % n) = n * (b \div n) /\ a - (a % n) \in Int
  BY <1>1, <1>2
<1>5. QED
  BY <1>3, <1>4 DEF DayStart, n

LEMMA CountedFinite ==
  /\ \A now : /\ IsFiniteSet(ConsumedToday(now)) /\ Cardinality(ConsumedToday(now)) \in Nat
              /\ IsFiniteSet(Live(now)) /\ Cardinality(Live(now)) \in Nat
  /\ IsFiniteSet(PaidInTime) /\ Cardinality(PaidInTime) \in Nat
  /\ Cardinality(Counted) = Cardinality(PaidInTime) + Cardinality(Live(clock))
<1>1. /\ PaidInTime \in SUBSET Keys
      /\ \A now : Live(now) \in SUBSET Keys /\ ConsumedToday(now) \in SUBSET Keys
  BY DEF PaidInTime, Live, ConsumedToday
<1>2. /\ IsFiniteSet(PaidInTime) /\ Cardinality(PaidInTime) \in Nat
      /\ \A now : /\ IsFiniteSet(ConsumedToday(now)) /\ Cardinality(ConsumedToday(now)) \in Nat
                  /\ IsFiniteSet(Live(now)) /\ Cardinality(Live(now)) \in Nat
  BY <1>1, KeysAssumption, FS_Subset, FS_CardinalityType
<1>3. PaidInTime \cap Live(clock) = {}
  BY DEF PaidInTime, ConsumedToday, Live
<1>4. Cardinality(Counted) = Cardinality(PaidInTime) + Cardinality(Live(clock))
  <2>1. Cardinality(Counted) =
          Cardinality(PaidInTime) + Cardinality(Live(clock)) - Cardinality(PaidInTime \cap Live(clock))
    BY <1>2, FS_Union DEF Counted
  <2>2. Cardinality(PaidInTime \cap Live(clock)) = 0
    BY <1>3, FS_EmptySet
  <2>3. QED
    BY <1>2, <2>1, <2>2
<1>5. QED
  BY <1>2, <1>4

CountsAdd ==
  /\ Cardinality(Counted) = Cardinality(PaidInTime) + Cardinality(Live(clock))
  /\ Cardinality(PaidInTime) \in Nat /\ Cardinality(Live(clock)) \in Nat

LEMMA CountsAlwaysAdd == CountsAdd
BY CountedFinite DEF CountsAdd

LEMMA SettlementsStayCounted ==
  TypeInv /\ CountsSettlements /\ [Next]_vars => CountsSettlements'
<1> SUFFICES ASSUME TypeInv, CountsSettlements, [Next]_vars PROVE CountsSettlements'
  OBVIOUS
<1>1. /\ settled \in [Keys -> Nat] /\ res \in [Keys -> ReservationRow \cup {NoReservation}]
  BY DEF TypeInv, TypeOK
<1>2. CASE \E s \in Sessions : ReserveInsert(s)
  <2>1. PICK s \in Sessions : ReserveInsert(s)
    BY <1>2
  <2>2. \A k \in Keys : res'[k] = res[k] \/ res'[k].status = "reserved"
    BY <1>1, <2>1 DEF ReserveInsert
  <2>3. settled' = settled
    BY <2>1 DEF ReserveInsert
  <2>4. QED
    BY <2>2, <2>3 DEF CountsSettlements
<1>3. CASE \E s \in Sessions, k \in Keys : CommitRow(s, k) \/ ReleaseRow(s, k)
  <2>1. PICK s \in Sessions, k \in Keys : CommitRow(s, k) \/ ReleaseRow(s, k)
    BY <1>3
  <2>2. settled' = [settled EXCEPT ![k] = settled[k] + 1] /\ \E row : res' = [res EXCEPT ![k] = row]
    BY <2>1 DEF CommitRow, ReleaseRow, SettleRow
  <2>3. settled'[k] # 0 /\ \A j \in Keys : j # k => res'[j] = res[j] /\ settled'[j] = settled[j]
    BY <1>1, <2>2
  <2>4. QED
    BY <2>3 DEF CountsSettlements
<1>4. CASE res' = res /\ settled' = settled
  BY <1>4 DEF CountsSettlements
<1>5. QED
  BY <1>2, <1>3, <1>4
  DEF Next, SessionStep, ReserveCheck, ReserveLookup, ReserveExisting, ReserveReject, SettleRead,
      SettleFail, Abandon, AdminStep, EditRead, GrantWrite, RevokeWrite, AbandonEdit, AdminWrite,
      CreateBatch, UpdateExpiry, UpdatePolicy, Crash, Tick, vars

(* Only a claim adds to what is counted.                                    *)
LEMMA CountedShrinks ==
  ASSUME DailyInv, [Next]_vars, ~\E s \in Sessions : ReserveInsert(s)
  PROVE  Counted' \subseteq Counted
<1>1. /\ TypeInv /\ TypeInv' /\ settled \in [Keys -> Nat]
      /\ res \in [Keys -> ReservationRow \cup {NoReservation}]
      /\ clock \in Nat /\ clock' \in Nat
  BY TypeInvStep, TimeAssumption DEF DailyInv, TypeInv, TypeOK
<1>2. CASE res' = res /\ settled' = settled /\ clock' >= clock
  <2>1. DayStart(clock) <= DayStart(clock)' /\ DayStart(clock) \in Int /\ DayStart(clock)' \in Int
    BY <1>1, <1>2, DaysGoOn
  <2>2. ASSUME NEW k \in Keys, res[k] # NoReservation
        PROVE  res[k].updated \in Nat /\ res[k].expires \in Nat
    BY <1>1, <2>2 DEF ReservationRow
  <2>3. Live(clock)' \subseteq Live(clock)
    BY <1>1, <1>2, <2>2 DEF Live, NoReservation
  <2>4. ConsumedToday(clock)' \subseteq ConsumedToday(clock)
    BY <1>1, <1>2, <2>1, <2>2 DEF ConsumedToday, NoReservation
  <2>5. QED
    BY <1>2, <2>3, <2>4 DEF Counted, PaidInTime
<1>3. CASE \E s \in Sessions, k \in Keys : CommitRow(s, k) \/ ReleaseRow(s, k)
  <2>1. PICK s \in Sessions, k \in Keys : CommitRow(s, k) \/ ReleaseRow(s, k)
    BY <1>3
  <2>2. PICK status \in {"consumed", "released"} :
          res' = [res EXCEPT ![k] = [res[k] EXCEPT !.status = status, !.updated = clock]]
    BY <2>1 DEF CommitRow, ReleaseRow, SettleRow
  <2>3. /\ res[k] \in ReservationRow /\ clock' = clock
        /\ settled' = [settled EXCEPT ![k] = settled[k] + 1]
    BY <1>1, <2>1, SettledRow DEF CommitRow, ReleaseRow, SettleRow
  <2>4. /\ \A j \in Keys : j # k => res'[j] = res[j] /\ settled'[j] = settled[j]
        /\ settled'[k] = settled[k] + 1
        /\ res'[k].status = status /\ res'[k].updated = clock /\ res'[k].expires = res[k].expires
    BY <1>1, <2>2, <2>3 DEF ReservationRow
  <2>5. ASSUME k \in Counted' PROVE k \in Live(clock)
    <3>1. /\ res[k].expires > clock /\ settled[k] + 1 = 1
      BY <1>1, <2>3, <2>4, <2>5 DEF Counted, PaidInTime, ConsumedToday, Live, ReservationRow
    <3>2. res[k].status = "reserved"
      BY <1>1, <2>3, <3>1 DEF DailyInv, CountsSettlements, ReservationRow
    <3>3. QED
      BY <3>1, <3>2 DEF Live
  <2>6. ASSUME NEW j \in Keys, j # k, j \in Counted' PROVE j \in Counted
    BY <2>3, <2>4, <2>6 DEF Counted, PaidInTime, ConsumedToday, Live
  <2>7. Counted' \subseteq Keys
    BY DEF Counted, PaidInTime, ConsumedToday, Live
  <2>8. QED
    BY <2>5, <2>6, <2>7 DEF Counted
<1>4. settled' = settled \/ \E s \in Sessions, k \in Keys : CommitRow(s, k) \/ ReleaseRow(s, k)
  BY DEF Next, SessionStep, ReserveCheck, ReserveLookup, ReserveExisting, ReserveInsert, ReserveReject,
         SettleRead, SettleFail, Abandon, AdminStep, EditRead, GrantWrite, RevokeWrite, AbandonEdit,
         AdminWrite, CreateBatch, UpdateExpiry, UpdatePolicy, Crash, Tick, vars
<1>5. QED
  BY <1>1, <1>2, <1>3, <1>4, ReservationSteps

LEMMA ClaimsKeepTheBudget ==
  ASSUME DailyInv, NEW s \in Sessions, ReserveInsert(s), TypeInv'
  PROVE  DailyBudgetHeld'
<1> DEFINE claim == call[s]
           k == claim.request.key
<1>1. /\ TypeInv /\ clock \in Nat /\ clock' = clock /\ settled' = settled
      /\ res \in [Keys -> ReservationRow \cup {NoReservation}]
  BY TimeAssumption DEF DailyInv, TypeInv, TypeOK, ReserveInsert
<1>2. claim \in Claiming /\ claim.policy \in Policies /\ claim.now \in Nat /\ k \in Keys
  BY <1>1, CallShapes, ConstantTypes DEF ReserveInsert, Claiming
<1>3. claim.now <= clock
  BY DEF DailyInv, ClaimsPast, ReserveInsert
<1>4. claim.policy.daily # Unlimited =>
        Cardinality(ConsumedToday(claim.now)) + Cardinality(Live(claim.now) \cup {k})
          <= claim.policy.daily
  BY DEF ReserveInsert, ClaimAllowed, WithinLimits
<1>5. (\A j \in Keys : j # k => res'[j] = res[j]) /\ res'[k].status = "reserved"
  BY <1>1, <1>2 DEF ReserveInsert
<1>6. ASSUME NEW j \in Keys, res[j] # NoReservation
      PROVE  res[j].updated \in Nat /\ res[j].expires \in Nat
  BY <1>1, <1>6 DEF ReservationRow
<1>7. DayStart(claim.now) \in Int /\ DayStart(clock) \in Int /\ DayStart(claim.now) <= DayStart(clock)
  BY <1>1, <1>2, <1>3, DaysGoOn
<1>8. PaidInTime' \subseteq ConsumedToday(claim.now)
  <2>1. SUFFICES ASSUME NEW j \in Keys, res'[j].status = "consumed", res'[j].updated >= DayStart(clock)
                 PROVE  j \in ConsumedToday(claim.now)
    BY <1>1 DEF PaidInTime, ConsumedToday
  <2>2. j # k /\ res'[j] = res[j] /\ res[j] # NoReservation
    BY <1>5, <2>1 DEF NoReservation
  <2>3. res[j].updated >= DayStart(claim.now)
    BY <1>6, <1>7, <2>1, <2>2
  <2>4. QED
    BY <2>1, <2>2, <2>3 DEF ConsumedToday
<1>9. Live(clock)' \subseteq Live(claim.now) \cup {k}
  BY <1>1, <1>2, <1>3, <1>5, <1>6 DEF Live, NoReservation
<1>10. /\ Cardinality(PaidInTime') <= Cardinality(ConsumedToday(claim.now))
       /\ Cardinality(PaidInTime') \in Nat /\ Cardinality(ConsumedToday(claim.now)) \in Nat
  BY <1>8, CountedFinite, FS_Subset, FS_CardinalityType
<1>11. /\ Cardinality(Live(clock)') <= Cardinality(Live(claim.now) \cup {k})
       /\ Cardinality(Live(clock)') \in Nat /\ Cardinality(Live(claim.now) \cup {k}) \in Nat
  <2>1. IsFiniteSet(Live(claim.now) \cup {k})
    BY CountedFinite, FS_AddElement
  <2>2. QED
    BY <1>9, <2>1, FS_Subset, FS_CardinalityType
<1>12. claim.policy.daily # Unlimited => claim.policy.daily \in Nat
  BY <1>2, PolicyAssumption DEF PolicyType, DailyLimits
<1> HIDE DEF claim, k
<1>13. claim.policy.daily # Unlimited =>
         Cardinality(PaidInTime') + Cardinality(Live(clock)') <= claim.policy.daily
  BY <1>4, <1>10, <1>11, <1>12
<1>14. QED
  BY <1>2, <1>13 DEF DailyBudgetHeld

(* The reports of a day and the analyses in flight stay within the largest   *)
(* daily limit, across midnight, policy changes and late or repeated         *)
(* settlements, for any number of sessions (usage.py:452-466).              *)
THEOREM BudgetHeld == Spec => []DailyBudgetHeld
<1>1. Init => DailyInv
  <2> SUFFICES ASSUME Init PROVE DailyInv
    OBVIOUS
  <2>1. PaidInTime = {} /\ Live(clock) = {}
    BY DEF Init, PaidInTime, ConsumedToday, Live, NoReservation
  <2>2. Cardinality(PaidInTime) + Cardinality(Live(clock)) = 0
    BY <2>1, FS_EmptySet
  <2>3. DefaultPolicy.daily # Unlimited => DefaultPolicy.daily \in Nat
    BY PolicyAssumption DEF PolicyType, DailyLimits
  <2>4. DailyBudgetHeld
    BY <2>2, <2>3, PolicyAssumption DEF DailyBudgetHeld
  <2>5. QED
    BY <2>4, TypeInvInit DEF Init, DailyInv, ClaimsPast, CountsSettlements, Idle, NoReservation
<1>2. DailyInv /\ [Next]_vars => DailyInv'
  <2> SUFFICES ASSUME DailyInv, [Next]_vars PROVE DailyInv'
    OBVIOUS
  <2>1. TypeInv' /\ ClaimsPast' /\ CountsSettlements'
    BY TypeInvStep, ClaimsStayPast, SettlementsStayCounted DEF DailyInv
  <2>2. CASE \E s \in Sessions : ReserveInsert(s)
    BY <2>1, <2>2, ClaimsKeepTheBudget DEF DailyInv
  <2>3. CASE ~\E s \in Sessions : ReserveInsert(s)
    <3>1. Counted' \subseteq Counted
      BY <2>3, CountedShrinks
    <3>2. IsFiniteSet(Counted) /\ Cardinality(Counted) \in Nat
      BY CountedFinite, FS_Union, FS_CardinalityType DEF Counted
    <3>3. Cardinality(Counted') <= Cardinality(Counted) /\ Cardinality(Counted') \in Nat
      BY <3>1, <3>2, FS_Subset, FS_CardinalityType
    <3>4. CountsAdd /\ CountsAdd'
      BY CountsAlwaysAdd, PTL
    <3>5. PICK p \in Policies :
            p.daily # Unlimited => Cardinality(PaidInTime) + Cardinality(Live(clock)) <= p.daily
      BY DEF DailyInv, DailyBudgetHeld
    <3>6. p.daily # Unlimited => p.daily \in Nat
      BY PolicyAssumption DEF PolicyType, DailyLimits
    <3>7. p.daily # Unlimited =>
            Cardinality(PaidInTime') + Cardinality(Live(clock)') <= p.daily
      BY <3>2, <3>3, <3>4, <3>5, <3>6 DEF CountsAdd
    <3>8. DailyBudgetHeld'
      BY <3>7 DEF DailyBudgetHeld
    <3>9. QED
      BY <2>1, <3>8 DEF DailyInv
  <2>4. QED
    BY <2>1, <2>2, <2>3 DEF DailyInv
<1>3. DailyInv => DailyBudgetHeld
  BY DEF DailyInv
<1>4. QED
  BY <1>1, <1>2, <1>3, PTL DEF Spec
=============================================================================
