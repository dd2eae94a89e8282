--------------------------- MODULE UsageAuthorizer ---------------------------
(***************************************************************************)
(* The SQL usage authorizer (persistence/usage.py) and the administrator   *)
(* operations that write the same rows (persistence/admin_service.py).     *)
(*                                                                         *)
(* The grain of atomicity is the database's, not the method's.  SQLite     *)
(* under pysqlite takes no lock for a SELECT and opens the transaction at  *)
(* the first INSERT or UPDATE; from there to COMMIT nothing else writes.   *)
(* So every SELECT that a later statement relies on is a step of its own,  *)
(* and the statements from the first write to COMMIT are one step.  The    *)
(* session factory sets expire_on_commit=False, so an ORM row that a       *)
(* caller still holds keeps the values of the SELECT that loaded it: those *)
(* values are part of the state of the call (`call`, `draft`).             *)
(*                                                                         *)
(* Who calls: request sessions and the retention session, any number of    *)
(* them at once, in any order, each free to disappear between two steps    *)
(* (crash, cancellation, lock timeout).                                    *)
(***************************************************************************)
EXTENDS Integers, FiniteSets

CONSTANTS
  Codes,          \* access codes that a batch may create
  Keys,           \* idempotency keys
  Requests,       \* what clients send: [key, code, body]; the request itself
                  \* stands for its fingerprint
  Sessions,       \* database sessions of requests and of the retention loop
  Admins,         \* database sessions of administrator requests
  NoCode,         \* a request without X-Access-Code; an open-mode reservation
  Never,          \* expires_at IS NULL
  Unlimited,      \* global_daily_limit IS NULL
  Policies,       \* access policies an administrator may choose
  DefaultPolicy,  \* the policy row seeded from the settings
  BatchUses,      \* uses_per_code of a batch
  GrantUses,      \* additional_uses of a grant
  Dates,          \* expires_at an administrator may choose
  MaxGranted,     \* bound: uses ever granted to one code
  TTL,            \* reservation_ttl_minutes, in ticks
  DayLength,      \* ticks per UTC day
  MaxTime         \* bound: the last tick of the clock

Modes == {"open", "code_required", "closed"}
DailyLimits == (Nat \ {0}) \cup {Unlimited}
PolicyType == [mode : Modes, concurrent : Nat \ {0}, daily : DailyLimits]
Expiries == (0 .. MaxTime) \cup {Never}

ASSUME KeysAssumption == IsFiniteSet(Keys)
ASSUME RequestsAssumption ==
  \A r \in Requests : r.key \in Keys /\ r.code \in Codes \cup {NoCode}
ASSUME SentinelAssumption ==
  NoCode \notin Codes /\ Never \notin Int /\ Unlimited \notin Int
ASSUME PolicyAssumption == DefaultPolicy \in Policies /\ Policies \subseteq PolicyType
ASSUME UsesAssumption ==
  BatchUses \subseteq Nat \ {0} /\ GrantUses \subseteq Nat \ {0} /\ MaxGranted \in Nat
ASSUME DatesAssumption == Dates \subseteq Expiries
ASSUME TimeAssumption == TTL \in Nat \ {0} /\ DayLength \in Nat \ {0} /\ MaxTime \in Nat

VARIABLES
  codes,     \* access_codes, one row per code ("absent" before its batch)
  res,       \* usage_reservations, by idempotency key (unique constraint)
  ledger,    \* access_code_usage_events, summed by code and event type
  settled,   \* how often each reservation was settled
  policy,    \* the access_policy row
  clock,     \* utc_now()
  call,      \* what each session has read and where it stands
  draft      \* the code row each administrator request holds

tables == <<codes, res, ledger, settled, policy>>
vars == <<tables, clock, call, draft>>
-----------------------------------------------------------------------------
(* Rows, calls and their empty values. *)

CodeStatus == {"absent", "active", "exhausted", "revoked"}
CodeRow == [status : CodeStatus, revoked : BOOLEAN, total : Nat,
            consumed : Nat, reserved : Nat, expires : Expiries]
AbsentCode == [status |-> "absent", revoked |-> FALSE, total |-> 0,
               consumed |-> 0, reserved |-> 0, expires |-> Never]

ReservationRow == [status : {"reserved", "consumed", "released"},
                   code : Codes \cup {NoCode}, request : Requests,
                   expires : Nat, updated : Nat]
NoReservation == [status |-> "none"]

Totals == [granted : Nat, reserved : Nat, consumed : Nat, released : Nat]
NoEvents == [granted |-> 0, reserved |-> 0, consumed |-> 0, released |-> 0]

Idle == [step |-> "idle"]
Claiming == [step : {"lookup", "insert"}, request : Requests, now : Nat,
             policy : Policies]
Settling == [step : {"commit", "release"}, rows : SUBSET Keys]
Editing == [step : {"grant", "revoke"}, code : Codes, row : CodeRow]

TypeOK ==
  /\ codes \in [Codes -> CodeRow]
  /\ res \in [Keys -> ReservationRow \cup {NoReservation}]
  /\ ledger \in [Codes -> Totals]
  /\ settled \in [Keys -> Nat]
  /\ policy \in Policies
  /\ clock \in 0 .. MaxTime
  /\ call \in [Sessions -> Claiming \cup Settling \cup {Idle}]
  /\ draft \in [Admins -> Editing \cup {Idle}]

Init ==
  /\ codes = [c \in Codes |-> AbsentCode]
  /\ res = [k \in Keys |-> NoReservation]
  /\ ledger = [c \in Codes |-> NoEvents]
  /\ settled = [k \in Keys |-> 0]
  /\ policy = DefaultPolicy
  /\ clock = 0
  /\ call = [s \in Sessions |-> Idle]
  /\ draft = [a \in Admins |-> Idle]
-----------------------------------------------------------------------------
(* What the SQL conditions and the small helpers say of a row. *)

Exhausted(row) == row.consumed + row.reserved >= row.total
Unexpired(row, now) == row.expires # Never => row.expires > now

\* Mutant: the status alone tells that a code is revoked.
UsableByStatus(row, now) ==
  row.status = "active" /\ Unexpired(row, now) /\ ~Exhausted(row)

\* _require_code: the row passes every check of the read.
Usable(row, now) ==
  /\ row.status = "active"
  /\ ~row.revoked
  /\ Unexpired(row, now)
  /\ ~Exhausted(row)

\* _effective_code_status: what the administrator's list shows of a row.
EffectiveStatus(row, now) ==
  IF row.status = "absent" THEN "absent"
  ELSE IF row.revoked \/ row.status = "revoked" THEN "revoked"
  ELSE IF ~Unexpired(row, now) THEN "expired"
  ELSE IF Exhausted(row) THEN "exhausted" ELSE "active"

\* The mode and the code let the request in (closed mode never does).
Admits(p, r, now) ==
  \/ p.mode = "open"
  \/ p.mode = "code_required" /\ r.code # NoCode /\ Usable(codes[r.code], now)

\* The WHERE clause of the conditional UPDATE: no look at revoked_at.
Claimable(row, now) ==
  /\ row.status = "active"
  /\ Unexpired(row, now)
  /\ row.consumed + row.reserved + 1 <= row.total

\* Mutant: the status is never set.
NeverExhausted(row) == row

MarkExhausted(row) == IF Exhausted(row) THEN [row EXCEPT !.status = "exhausted"] ELSE row
Reactivate(row) ==
  IF row.status = "exhausted" /\ ~Exhausted(row)
  THEN [row EXCEPT !.status = "active"] ELSE row

\* What a claim, a confirmation and a release do to the code row.
Hold(row) == MarkExhausted([row EXCEPT !.reserved = @ + 1])
\* Mutants: a confirmation or a release that keeps its hold.
SpendKeepsHold(row) == MarkExhausted([row EXCEPT !.consumed = @ + 1])
GiveBackKeepsHold(row) == Reactivate(row)

Spend(row) == MarkExhausted([row EXCEPT !.reserved = @ - 1, !.consumed = @ + 1])
GiveBack(row) == Reactivate([row EXCEPT !.reserved = @ - 1])

Live(now) == {k \in Keys : res[k].status = "reserved" /\ res[k].expires > now}
DayStart(now) == now - (now % DayLength)
ConsumedToday(now) ==
  {k \in Keys : res[k].status = "consumed" /\ res[k].updated >= DayStart(now)}

\* Mutants: the daily test forgets what is in flight, or the limit is tested
\* on the rows before the claim.
DailyWithoutLive(p, k, now) ==
  /\ Cardinality(Live(now) \cup {k}) <= p.concurrent
  /\ p.daily # Unlimited => Cardinality(ConsumedToday(now)) <= p.daily
LimitsBeforeClaim(p, k, now) == Cardinality(Live(now)) <= p.concurrent /\ k \in Keys

\* _enforce_global_limits for a claim on key k: its own row is already
\* flushed, so the claim counts itself.
WithinLimits(p, k, now) ==
  LET live == Cardinality(Live(now) \cup {k})
  IN  /\ live <= p.concurrent
      /\ p.daily # Unlimited => Cardinality(ConsumedToday(now)) + live <= p.daily

\* Mutant: releases write no event.
RecordNoRelease(c, type) ==
  ledger' = IF c = NoCode \/ type = "released" THEN ledger
            ELSE [ledger EXCEPT ![c][type] = @ + 1]

\* An event row is only written for a reservation that has a code.
Record(c, type) ==
  ledger' = IF c = NoCode THEN ledger ELSE [ledger EXCEPT ![c][type] = @ + 1]
-----------------------------------------------------------------------------
(* reserve() *)

\* `now`, the policy row and the code row are read.  A request that is not
\* admitted raises here and leaves nothing behind.
ReserveCheck(s, r) ==
  /\ call[s] = Idle
  /\ Admits(policy, r, clock)
  /\ call' = [call EXCEPT ![s] = [step |-> "lookup", request |-> r,
                                  now |-> clock, policy |-> policy]]
  /\ UNCHANGED <<tables, clock, draft>>

\* The advisory replay check finds no row for the key.
ReserveLookup(s) ==
  /\ call[s].step = "lookup"
  /\ res[call[s].request.key] = NoReservation
  /\ call' = [call EXCEPT ![s].step = "insert"]
  /\ UNCHANGED <<tables, clock, draft>>

\* The key is taken: a replay of the reservation if the fingerprints agree,
\* idempotency_conflict if not.  The same after an IntegrityError.
ReserveExisting(s) ==
  /\ call[s].step \in {"lookup", "insert"}
  /\ res[call[s].request.key] # NoReservation
  /\ call' = [call EXCEPT ![s] = Idle]
  /\ UNCHANGED <<tables, clock, draft>>

\* The code that a claim charges: none in open mode, whatever was sent.
ChargedCode(claim) == IF claim.policy.mode = "open" THEN NoCode ELSE claim.request.code
ClaimAllowed(claim) ==
  /\ ChargedCode(claim) # NoCode => Claimable(codes[ChargedCode(claim)], claim.now)
  /\ WithinLimits(claim.policy, claim.request.key, claim.now)

\* One transaction: conditional UPDATE, exhausted mark, INSERT, limits, event.
ReserveInsert(s) ==
  LET claim == call[s]
      k == claim.request.key
      c == ChargedCode(claim)
  IN  /\ claim.step = "insert"
      /\ res[k] = NoReservation
      /\ ClaimAllowed(claim)
      /\ codes' = IF c = NoCode THEN codes
                  ELSE [codes EXCEPT ![c] = Hold(@)]
      /\ res' = [res EXCEPT ![k] = [status |-> "reserved", code |-> c,
                                    request |-> claim.request,
                                    expires |-> claim.now + TTL, updated |-> clock]]
      /\ Record(c, "reserved")
      /\ call' = [call EXCEPT ![s] = Idle]
      /\ UNCHANGED <<settled, policy, clock, draft>>

\* The UPDATE matched no row or a limit is exceeded: everything rolls back.
ReserveReject(s) ==
  /\ call[s].step = "insert"
  /\ res[call[s].request.key] = NoReservation
  /\ ~ClaimAllowed(call[s])
  /\ call' = [call EXCEPT ![s] = Idle]
  /\ UNCHANGED <<tables, clock, draft>>
-----------------------------------------------------------------------------
(* commit() and release() *)

\* The rows are loaded and found reserved: one row by a request, a list of
\* rows by the retention loop, whose later SELECTs return the same objects.
\* A row found in another status is a no-op or an error and needs no step.
SettleRead(s, op, rows) ==
  /\ call[s] = Idle
  /\ rows # {} /\ \A k \in rows : res[k].status = "reserved"
  /\ call' = [call EXCEPT ![s] = [step |-> op, rows |-> rows]]
  /\ UNCHANGED <<tables, clock, draft>>

\* Mutant: the UPDATE of a settlement is not guarded.
AlwaysAllows(c) == c \in Codes \cup {NoCode}
BalanceAllows(c) == c # NoCode => codes[c].reserved >= 1

\* The session is done with row k, and idle after the last one.
RowDone(s, k) ==
  LET left == call[s].rows \ {k}
  IN  call' = [call EXCEPT ![s] = IF left = {} THEN Idle ELSE [@ EXCEPT !.rows = left]]

\* The write of a settlement: the row status goes out unconditionally.
SettleRow(s, k, op, status, newCode(_)) ==
  LET c == res[k].code
  IN  /\ call[s].step = op
      /\ k \in call[s].rows
      /\ BalanceAllows(c)
      /\ codes' = IF c = NoCode THEN codes ELSE [codes EXCEPT ![c] = newCode(@)]
      /\ Record(c, status)
      /\ settled' = [settled EXCEPT ![k] = @ + 1]
      /\ res' = [res EXCEPT ![k] = [@ EXCEPT !.status = status, !.updated = clock]]
      /\ RowDone(s, k)
      /\ UNCHANGED <<policy, clock, draft>>

CommitRow(s, k) == SettleRow(s, k, "commit", "consumed", Spend)
ReleaseRow(s, k) == SettleRow(s, k, "release", "released", GiveBack)

\* The guarded UPDATE matched no row: the error ends the call, and in the
\* retention loop the rollback expires the other rows and ends the pass.
SettleFail(s) ==
  /\ call[s].step \in {"commit", "release"}
  /\ \E k \in call[s].rows : ~BalanceAllows(res[k].code)
  /\ call' = [call EXCEPT ![s] = Idle]
  /\ UNCHANGED <<tables, clock, draft>>
-----------------------------------------------------------------------------
(* Administrator operations. *)

CreateBatch(c, n, expires) ==
  /\ codes[c].status = "absent"
  /\ n <= MaxGranted
  /\ expires # Never => expires > clock
  /\ codes' = [codes EXCEPT ![c] = [AbsentCode EXCEPT !.status = "active",
                                                      !.total = n, !.expires = expires]]
  /\ ledger' = [ledger EXCEPT ![c].granted = n]
  /\ UNCHANGED <<res, settled, policy, clock, call, draft>>

\* grant_uses and revoke_code load the row and return early if it is revoked.
EditRead(a, c, op) ==
  /\ draft[a] = Idle
  /\ codes[c].status # "absent" /\ ~codes[c].revoked
  /\ draft' = [draft EXCEPT ![a] = [step |-> op, code |-> c, row |-> codes[c]]]
  /\ UNCHANGED <<tables, clock, call>>

\* `uses_total += n` and the reactivation test both work on the held row; the
\* flush writes the absolute values of the columns it changed, no others.
FlushGrant(row, held) ==
  [row EXCEPT !.total = held.total,
              !.status = IF Reactivate(held) = held THEN @ ELSE "active"]

GrantWrite(a, n) ==
  LET c == draft[a].code
      held == [draft[a].row EXCEPT !.total = @ + n]
  IN  /\ draft[a].step = "grant"
      /\ ledger[c].granted + n <= MaxGranted
      /\ codes' = [codes EXCEPT ![c] = FlushGrant(@, held)]
      /\ ledger' = [ledger EXCEPT ![c].granted = @ + n]
      /\ draft' = [draft EXCEPT ![a] = Idle]
      /\ UNCHANGED <<res, settled, policy, clock, call>>

RevokeWrite(a) ==
  LET c == draft[a].code
  IN  /\ draft[a].step = "revoke"
      /\ codes' = [codes EXCEPT ![c] = [@ EXCEPT !.status = "revoked", !.revoked = TRUE]]
      /\ draft' = [draft EXCEPT ![a] = Idle]
      /\ UNCHANGED <<res, ledger, settled, policy, clock, call>>

\* update_code writes expires_at alone; nothing it writes depends on its read.
UpdateExpiry(c, expires) ==
  /\ codes[c].status # "absent"
  /\ expires # Never => expires > clock
  /\ codes' = [codes EXCEPT ![c].expires = expires]
  /\ UNCHANGED <<res, ledger, settled, policy, clock, call, draft>>

UpdatePolicy(p) ==
  /\ policy' = p
  /\ UNCHANGED <<codes, res, ledger, settled, clock, call, draft>>
-----------------------------------------------------------------------------
(* The environment: a call that dies between two steps, and time. *)

Abandon(s) ==
  /\ call[s] # Idle
  /\ call' = [call EXCEPT ![s] = Idle]
  /\ UNCHANGED <<tables, clock, draft>>

AbandonEdit(a) ==
  /\ draft[a] # Idle
  /\ draft' = [draft EXCEPT ![a] = Idle]
  /\ UNCHANGED <<tables, clock, call>>

\* The process dies: every session goes, the tables stay.
Crash ==
  /\ call' = [s \in Sessions |-> Idle]
  /\ draft' = [a \in Admins |-> Idle]
  /\ UNCHANGED <<tables, clock>>

Tick ==
  /\ clock < MaxTime
  /\ clock' = clock + 1
  /\ UNCHANGED <<tables, call, draft>>

SessionStep(s) ==
  \/ \E r \in Requests : ReserveCheck(s, r)
  \/ ReserveLookup(s)
  \/ ReserveExisting(s)
  \/ ReserveInsert(s)
  \/ ReserveReject(s)
  \/ \E op \in {"commit", "release"}, rows \in SUBSET Keys : SettleRead(s, op, rows)
  \/ \E k \in Keys : CommitRow(s, k) \/ ReleaseRow(s, k)
  \/ SettleFail(s)
  \/ Abandon(s)

AdminStep(a) ==
  \/ \E c \in Codes, op \in {"grant", "revoke"} : EditRead(a, c, op)
  \/ \E n \in GrantUses : GrantWrite(a, n)
  \/ RevokeWrite(a)
  \/ AbandonEdit(a)

\* Operations of one transaction, whoever calls them.
AdminWrite ==
  \/ \E c \in Codes, n \in BatchUses, e \in Dates : CreateBatch(c, n, e)
  \/ \E c \in Codes, e \in Dates : UpdateExpiry(c, e)
  \/ \E p \in Policies : UpdatePolicy(p)

Next ==
  \/ \E s \in Sessions : SessionStep(s)
  \/ \E a \in Admins : AdminStep(a)
  \/ AdminWrite
  \/ Crash
  \/ Tick

Spec == Init /\ [][Next]_vars
-----------------------------------------------------------------------------
(* What the authorizer promises. *)

\* The ledger rebuilds the balance columns: every path that moves a use
\* writes its event in the same transaction, whatever the sessions read
\* beforehand (usage.py:163-172, 238-266, 316-345).
LedgerRebuildsBalances ==
  \A c \in Codes :
    /\ codes[c].reserved =
         ledger[c].reserved - ledger[c].consumed - ledger[c].released
    /\ codes[c].consumed = ledger[c].consumed

\* A code never promises more uses than it has, even when claims,
\* settlements decided on a stale row and grants computed on a stale row
\* overlap (usage.py:111-130, admin_service.py:339).
NoOverspend ==
  \A c \in Codes : codes[c].consumed + codes[c].reserved <= codes[c].total

\* The ledger rebuilds the total of a code: no grant overwrites another.  Two
\* administrators break it (admin_service.py:339).
GrantsAddUp == \A c \in Codes : codes[c].total = ledger[c].granted

\* Grants that overlap lose uses, they never make any: a code has at most the
\* uses its ledger says were granted (admin_service.py:330-353).
TotalsWithinGrants == \A c \in Codes : codes[c].total <= ledger[c].granted

\* Every use a code holds back belongs to a reservation that is still
\* reserved, so settling every reservation frees every held use; two
\* settlements of one reservation cannot leak a hold (usage.py:238-266,
\* 316-345).
ReservationsOf(c) == {k \in Keys : res[k].status = "reserved" /\ res[k].code = c}
NoStrandedUses ==
  \A c \in Codes : codes[c].reserved <= Cardinality(ReservationsOf(c))

\* A code is listed as active only while it has a use to give, although the
\* status is written from refreshed rows by sessions and from held rows by
\* administrators (usage.py:141-142, 255-256, 332-333, admin_service.py:340-344).
ActiveHasUsesLeft ==
  \A c \in Codes : codes[c].status = "active" => ~Exhausted(codes[c])

\* Whatever the policy was when each claim read it, the analyses in flight
\* never exceed the largest concurrent limit an administrator may set
\* (usage.py:441-450).
LiveWithinLimit == \E p \in Policies : Cardinality(Live(clock)) <= p.concurrent

\* The reports of a day that were confirmed in time and the analyses in flight
\* stay within the largest daily limit an administrator may set, across
\* midnight and policy changes.  Left out are reservations confirmed after they
\* expired or were released: they are not live when others are admitted
\* (usage.py:452-466).
PaidInTime ==
  {k \in ConsumedToday(clock) : res[k].updated < res[k].expires /\ settled[k] = 1}
DailyBudgetHeld ==
  \E p \in Policies :
    p.daily # Unlimited =>
      Cardinality(PaidInTime) + Cardinality(Live(clock)) <= p.daily

\* A revocation is final: no grant computed on a row from before it, and no
\* settlement that writes exhausted or active over its status, makes the code
\* usable or lets the administrator see it as anything but revoked
\* (usage.py:141-142, admin_service.py:339-344).
RevocationIsFinal ==
  [][\A c \in Codes :
       EffectiveStatus(codes[c], clock) = "revoked" =>
         EffectiveStatus(codes[c], clock)' = "revoked" /\ ~Usable(codes[c], clock)']_vars

\* The balance columns behave as the abstract account of CodeBalance, one
\* atomic move at a time, as long as grants do not overwrite each other.
Balance == INSTANCE CodeBalance WITH
  total <- [c \in Codes |-> codes[c].total],
  held  <- [c \in Codes |-> codes[c].reserved],
  spent <- [c \in Codes |-> codes[c].consumed]
BalanceSpec == Balance!Spec

\* A repeated request whose reservation exists is let through to the replay
\* while its code is neither revoked nor expired (usage.py:91-103).
RetryReachesReplay ==
  \A r \in Requests :
    /\ res[r.key] # NoReservation /\ res[r.key].request = r
    /\ policy.mode = "code_required" /\ r.code # NoCode
    /\ ~codes[r.code].revoked /\ Unexpired(codes[r.code], clock)
    => Admits(policy, r, clock)
=============================================================================
