-------------------------- MODULE AnalysisLifecycle --------------------------
(***************************************************************************)
(* One quota-protected analysis from request to answer                     *)
(* (services/control_plane.py), the run record it keeps                    *)
(* (persistence/recording.py), and the retention pass that recovers what   *)
(* requests left behind (services/retention.py), over the reservations     *)
(* and balances of UsageAuthorizer.                                        *)
(*                                                                         *)
(* A run has the analysis_id that its reservation was created with, so     *)
(* runs are indexed by idempotency key.  One process serves: the registry  *)
(* of in-flight analyses is the set of attempts, and dies with it.  Its    *)
(* cache of answered requests only keeps attempts from starting and may    *)
(* have dropped any entry, so it restricts nothing here.                   *)
(***************************************************************************)
EXTENDS UsageAuthorizer

CONSTANTS
  Workers,     \* database sessions of analysis requests
  Janitor,     \* the database session of the retention pass
  StuckAge,    \* STUCK_RUN_HOURS, in ticks
  ReportAge,   \* REPORT_RETENTION_DAYS, in ticks
  MetricsAge,  \* METRICS_RETENTION_DAYS, in ticks
  MaxFaults    \* bound: crashes and retention passes that break off

ASSUME SessionsAssumption == Sessions = Workers \cup {Janitor} /\ Janitor \notin Workers
ASSUME AgesAssumption == {StuckAge, ReportAge, MetricsAge, MaxFaults} \subseteq Nat

VARIABLES
  runs,      \* analysis_runs, by the key of their reservation
  attempt,   \* analyze() of each worker
  pass,      \* run_cleanup() of the retention loop
  produced,  \* keys the model has produced a report for
  answered,  \* keys whose report has been sent to a client
  faults     \* crashes and broken passes so far

record == <<runs, produced, answered, faults>>
analysisVars == <<vars, record, attempt, pass>>

NoRun == [status |-> "none"]
Run == [status : {"running", "succeeded", "failed"}, started : Nat, report : BOOLEAN]
AttemptSteps == {"reserve", "check", "start", "model", "succeed", "succeed_write", "confirm",
                 "replay", "commit", "answer", "fail", "fail_write", "release", "releasing"}
Attempt == [step : AttemptSteps, request : Requests, owner : BOOLEAN, started : Nat]
PassSteps == {"clear", "delete", "close", "release", "releasing", "reconcile", "reconciling"}
Pass == [step : PassSteps, now : Nat]

AnalysisTypeOK ==
  /\ runs \in [Keys -> Run \cup {NoRun}]
  /\ attempt \in [Workers -> Attempt \cup {Idle}]
  /\ pass \in Pass \cup {Idle}
  /\ produced \subseteq Keys /\ answered \subseteq Keys
  /\ faults \in 0 .. MaxFaults

AnalysisInit ==
  /\ Init
  /\ runs = [k \in Keys |-> NoRun]
  /\ attempt = [w \in Workers |-> Idle]
  /\ pass = Idle
  /\ produced = {} /\ answered = {}
  /\ faults = 0

Key(w) == attempt[w].request.key
At(w, step) == attempt[w].step = step
Goto(w, step) == attempt' = [attempt EXCEPT ![w].step = step]
End(w) == attempt' = [attempt EXCEPT ![w] = Idle]
-----------------------------------------------------------------------------
(* analyze(): the registry knows neither an answer nor an attempt.         *)

\* Mutant: the registry is not asked for an attempt in flight.
BeginUnregistered(w, r) ==
  /\ attempt[w] = Idle
  /\ attempt' = [attempt EXCEPT ![w] = [step |-> "reserve", request |-> r,
                                        owner |-> FALSE, started |-> clock]]
  /\ UNCHANGED <<vars, record, pass>>

Begin(w, r) ==
  /\ attempt[w] = Idle
  /\ \A v \in Workers : attempt[v] # Idle => attempt[v].request # r
  /\ attempt' = [attempt EXCEPT ![w] = [step |-> "reserve", request |-> r,
                                        owner |-> FALSE, started |-> clock]]
  /\ UNCHANGED <<vars, record, pass>>

\* reserve(): whoever inserts the row owns it; a retry joins it.
Reserve(w) ==
  /\ At(w, "reserve")
  /\ \/ (ReserveCheck(w, attempt[w].request) \/ ReserveLookup(w)) /\ UNCHANGED attempt
     \/ /\ ReserveInsert(w)
        /\ attempt' = [attempt EXCEPT ![w].step = "check", ![w].owner = TRUE]
     \/ /\ ReserveExisting(w)
        /\ res[Key(w)].request = attempt[w].request
        /\ Goto(w, "check")
     \/ /\ ReserveExisting(w)
        /\ res[Key(w)].request # attempt[w].request
        /\ End(w)
     \/ ReserveReject(w) /\ End(w)
     \/ /\ call[w] = Idle /\ ~Admits(policy, attempt[w].request, clock)
        /\ End(w) /\ UNCHANGED vars
  /\ UNCHANGED <<record, pass>>

\* _replay_terminal_run, the run: a stored report is replayed, a failure or
\* a cleared report is an error, a running or missing run is executed.
CheckRun(w) ==
  LET run == runs[Key(w)]
  IN  /\ At(w, "check")
      /\ \/ run.status \in {"none", "running"} /\ Goto(w, "start")
         \/ run.status = "succeeded" /\ run.report /\ Goto(w, "replay")
         \/ run.status = "failed" /\ End(w)
         \/ run.status = "succeeded" /\ ~run.report /\ End(w)
      /\ UNCHANGED <<vars, record, pass>>

\* A run that exists, or whose insert is raced, is joined.
Start(w) ==
  /\ At(w, "start")
  /\ runs' = IF runs[Key(w)] # NoRun THEN runs
             ELSE [runs EXCEPT ![Key(w)] = [status |-> "running", report |-> FALSE,
                                            started |-> attempt[w].started]]
  /\ Goto(w, "model")
  /\ UNCHANGED <<vars, produced, answered, faults, pass>>

\* An error of start() or of the model: only the owner cleans up.
ModelFails(w) ==
  /\ At(w, "start") \/ At(w, "model")
  /\ IF attempt[w].owner THEN Goto(w, "fail") ELSE End(w)
  /\ UNCHANGED <<vars, record, pass>>

ModelReports(w) ==
  /\ At(w, "model")
  /\ produced' = produced \cup {Key(w)}
  /\ Goto(w, "succeed")
  /\ UNCHANGED <<vars, runs, answered, faults, pass>>
-----------------------------------------------------------------------------
(* recorder.succeed() and fail(): _require_running reads the row, the       *)
(* UPDATE that follows does not test the status again.  A terminal row is   *)
(* left alone; a missing one is an error.                                   *)

RequireRunning(w, step, write, next) ==
  LET run == runs[Key(w)]
  IN  /\ At(w, step)
      /\ \/ run.status = "running" /\ Goto(w, write)
         \/ run.status \in {"succeeded", "failed"} /\ Goto(w, next)
         \/ run = NoRun /\ End(w)
      /\ UNCHANGED <<vars, record, pass>>

SucceedRead(w) == RequireRunning(w, "succeed", "succeed_write", "confirm")
FailRead(w) == RequireRunning(w, "fail", "fail_write", "release")

Finish(w, step, status, report, next) ==
  /\ At(w, step)
  /\ runs[Key(w)] # NoRun
  /\ runs' = [runs EXCEPT ![Key(w)] = [@ EXCEPT !.status = status, !.report = report]]
  /\ Goto(w, next)
  /\ UNCHANGED <<vars, produced, answered, faults, pass>>

SucceedWrite(w) == Finish(w, "succeed_write", "succeeded", TRUE, "confirm")
FailWrite(w) == Finish(w, "fail_write", "failed", runs[Key(w)].report, "release")
-----------------------------------------------------------------------------
(* commit() after a success or a replay, release() after a failure.        *)

\* Mutant: a replay answers without confirming the quota.
ConfirmFreshOnly(w) ==
  /\ At(w, "confirm") \/ At(w, "replay")
  /\ \/ At(w, "confirm") /\ SettleRead(w, "commit", {Key(w)}) /\ Goto(w, "commit")
     \/ At(w, "replay") /\ Goto(w, "answer") /\ UNCHANGED vars
  /\ UNCHANGED <<record, pass>>

\* The reservation row is read.  A replay whose reservation was released
\* answers without charging; a fresh report whose reservation was is refused.
Confirm(w) ==
  LET k == Key(w)
  IN  /\ At(w, "confirm") \/ At(w, "replay")
      /\ \/ SettleRead(w, "commit", {k}) /\ Goto(w, "commit")
         \/ res[k].status = "consumed" /\ Goto(w, "answer") /\ UNCHANGED vars
         \/ res[k].status = "released" /\ At(w, "replay") /\ Goto(w, "answer") /\ UNCHANGED vars
         \/ res[k].status = "released" /\ At(w, "confirm") /\ End(w) /\ UNCHANGED vars
      /\ UNCHANGED <<record, pass>>

Commit(w) ==
  /\ At(w, "commit")
  /\ \/ CommitRow(w, Key(w)) /\ Goto(w, "answer")
     \/ SettleFail(w) /\ End(w)
  /\ UNCHANGED <<record, pass>>

Release(w) ==
  /\ At(w, "release")
  /\ \/ SettleRead(w, "release", {Key(w)}) /\ Goto(w, "releasing")
     \/ res[Key(w)].status # "reserved" /\ End(w) /\ UNCHANGED vars
  /\ UNCHANGED <<record, pass>>

\* Mutant: the reservation is released, its code is not credited.
ReleaseUncredited(w) ==
  /\ At(w, "releasing")
  /\ res' = [res EXCEPT ![Key(w)] = [@ EXCEPT !.status = "released"]]
  /\ call' = [call EXCEPT ![w] = Idle]
  /\ End(w)
  /\ UNCHANGED <<codes, ledger, settled, policy, clock, draft, record, pass>>

ReleaseWrite(w) ==
  /\ At(w, "releasing")
  /\ ReleaseRow(w, Key(w)) \/ SettleFail(w)
  /\ End(w)
  /\ UNCHANGED <<record, pass>>

\* register_feedback_token and the response.
Answer(w) ==
  /\ At(w, "answer")
  /\ runs[Key(w)] # NoRun
  /\ answered' = answered \cup {Key(w)}
  /\ End(w)
  /\ UNCHANGED <<vars, runs, produced, faults, pass>>

\* A statement outside the guarded steps fails: the transaction rolls back
\* and the request ends with an error.
Interrupt(w) ==
  /\ attempt[w] # Idle /\ ~At(w, "start") /\ ~At(w, "model")
  /\ Abandon(w) \/ (call[w] = Idle /\ UNCHANGED vars)
  /\ End(w)
  /\ UNCHANGED <<record, pass>>

WorkerStep(w) ==
  \/ \E r \in Requests : Begin(w, r)
  \/ Reserve(w) \/ CheckRun(w) \/ Start(w) \/ ModelFails(w) \/ ModelReports(w)
  \/ SucceedRead(w) \/ SucceedWrite(w) \/ FailRead(w) \/ FailWrite(w)
  \/ Confirm(w) \/ Commit(w) \/ Release(w) \/ ReleaseWrite(w) \/ Answer(w)
  \/ Interrupt(w)
-----------------------------------------------------------------------------
(* run_cleanup(): one transaction after another, all with the same `now`.  *)

PassAt(step) == pass.step = step
PassTo(step) == pass' = [pass EXCEPT !.step = step]

PassBegin ==
  /\ pass = Idle
  /\ pass' = [step |-> "clear", now |-> clock]
  /\ UNCHANGED <<vars, record, attempt>>

Aged(run, age) == run # NoRun /\ run.started < pass.now - age

SweepRuns(step, next, swept(_)) ==
  /\ PassAt(step) /\ PassTo(next)
  /\ runs' = [k \in Keys |-> swept(runs[k])]
  /\ UNCHANGED <<vars, produced, answered, faults, attempt>>

Cleared(run) == IF Aged(run, ReportAge) THEN [run EXCEPT !.report = FALSE] ELSE run
Deleted(run) == IF Aged(run, MetricsAge) THEN NoRun ELSE run
Closed(run) == IF Aged(run, StuckAge) /\ run.status = "running"
               THEN [run EXCEPT !.status = "failed"] ELSE run

ClearReports == SweepRuns("clear", "delete", Cleared)
DeleteMetrics == SweepRuns("delete", "close", Deleted)
CloseStuckRuns == SweepRuns("close", "release", Closed)

\* Mutants: every open reservation is listed, or only those with a run.
AnyReserved(k) == res[k].status = "reserved"
ExpiredWithRun(k) ==
  res[k].status = "reserved" /\ res[k].expires <= pass.now /\ runs[k] # NoRun

\* A list of reservations is read, and settled row by row.
Expired(k) == res[k].status = "reserved" /\ res[k].expires <= pass.now
Unconfirmed(k) == res[k].status = "reserved" /\ runs[k].status = "succeeded"

ListRows(step, op, settling, next, listed(_)) ==
  LET rows == {k \in Keys : listed(k)}
  IN  /\ PassAt(step)
      /\ \/ SettleRead(Janitor, op, rows) /\ PassTo(settling)
         \/ rows = {} /\ pass' = next /\ UNCHANGED vars
      /\ UNCHANGED <<record, attempt>>

ToReconcile == [pass EXCEPT !.step = "reconcile"]
ListExpired == ListRows("release", "release", "releasing", ToReconcile, Expired)
ListUnconfirmed == ListRows("reconcile", "commit", "reconciling", Idle, Unconfirmed)

SettleListed(step, next, settle) ==
  /\ PassAt(step)
  /\ \/ settle /\ pass' = IF call'[Janitor] = Idle THEN next ELSE pass
     \/ SettleFail(Janitor) /\ pass' = Idle
  /\ UNCHANGED <<record, attempt>>

ReleaseExpired ==
  SettleListed("releasing", ToReconcile, \E k \in Keys : ReleaseRow(Janitor, k))
Reconcile ==
  SettleListed("reconciling", Idle, \E k \in Keys : CommitRow(Janitor, k))

PassStep ==
  \/ PassBegin \/ ClearReports \/ DeleteMetrics \/ CloseStuckRuns
  \/ ListExpired \/ ReleaseExpired \/ ListUnconfirmed \/ Reconcile
-----------------------------------------------------------------------------
(* Faults, and everything else that happens meanwhile.                     *)

Fault == faults < MaxFaults /\ faults' = faults + 1

\* A statement of the pass fails: the loop logs it and waits for the next pass.
PassBreaks ==
  /\ Fault
  /\ pass # Idle /\ pass' = Idle
  /\ Abandon(Janitor) \/ (call[Janitor] = Idle /\ UNCHANGED vars)
  /\ UNCHANGED <<runs, produced, answered, attempt>>

ProcessCrash ==
  /\ Fault /\ Crash
  /\ attempt' = [w \in Workers |-> Idle] /\ pass' = Idle
  /\ UNCHANGED <<runs, produced, answered>>

Meanwhile ==
  /\ Tick \/ AdminWrite \/ \E a \in Admins : AdminStep(a)
  /\ UNCHANGED <<record, attempt, pass>>

AnalysisNext ==
  \/ \E w \in Workers : WorkerStep(w)
  \/ PassStep
  \/ PassBreaks
  \/ ProcessCrash
  \/ Meanwhile

AnalysisSpec == AnalysisInit /\ [][AnalysisNext]_analysisVars

\* The retention loop is a task of its own that swallows every error and
\* starts the next pass (main.py:109-132); time passes.  Nothing is assumed
\* of the requests.
FairAnalysisSpec ==
  AnalysisSpec /\ WF_analysisVars(PassStep)
               /\ WF_analysisVars(Tick /\ UNCHANGED <<record, attempt, pass>>)
-----------------------------------------------------------------------------
(* What an analysis promises.                                              *)

\* A use is only consumed after the model produced a report for its key,
\* however attempts, retries, crashes and retention passes interleave
\* (control_plane.py:206-216, retention.py:262-276).
ChargedForReport == \A k \in Keys : res[k].status = "consumed" => k \in produced

\* Within its time to live a reservation is only returned when its run has
\* failed: no retry, conflict or crash gives it away
\* (control_plane.py:193-204, 317-335).
EarlyReturnMeansFailure ==
  \A k \in Keys : res[k].status = "released" /\ res[k].expires > clock
                  => runs[k].status = "failed"

\* No client gets a report while its reservation is still open: a request whose
\* confirmation failed, or that replays a report nobody has confirmed, settles
\* first or ends with an error (control_plane.py:213-235, 276-292).
AnswersAreSettled ==
  \A k \in answered : res[k].status \in {"consumed", "released"}

\* The registry and the fingerprint check together keep two executions of one
\* key apart, although the registry lets different requests with the same key
\* in (control_plane.py:91-118, usage.py:417-418).
OneExecutionPerKey ==
  \A v, w \in Workers :
    v # w /\ attempt[v] # Idle /\ attempt[w] # Idle
    /\ ~At(v, "reserve") /\ ~At(w, "reserve") => Key(v) # Key(w)

\* Whatever an analysis does to the tables, it does through the authorizer.
AuthorizerSpec == Spec

\* Each key is a purchase (see Purchase), whichever keys share a code and
\* however requests, retries, passes and crashes interleave
\* (control_plane.py:146-247, retention.py:185-292, usage.py:238-266, 316-345).
Bought == INSTANCE Purchase WITH
  use <- [k \in Keys |-> res[k].status],
  code <- [k \in Keys |-> IF res[k] = NoReservation THEN NoCode ELSE res[k].code],
  held <- [c \in Codes |-> codes[c].reserved],
  reported <- produced
PurchaseSpec == Bought!Spec

\* A reservation that was settled twice took the hold of another one on its
\* code, or had no code: a key alone on its code moves the balance once,
\* although requests and the pass decide on a row they read before
\* (usage.py:233, 311).
Shared(k) ==
  \/ res[k].code = NoCode
  \/ \E j \in Keys \ {k} : res[j] # NoReservation /\ res[j].code = res[k].code
SettledTwiceIsShared == \A k \in Keys : settled[k] > 1 => Shared(k)

\* Every reservation that expires is settled in the end, those of requests that
\* died included, also when several keys share a code and a row that another
\* session has settled ends a pass.  The exception is a code of which one
\* reservation was settled twice: its balance is one short, and the row that is
\* left ends every pass from then on (retention.py:185-224, usage.py:238).
EventuallySettled ==
  \A k \in Keys :
    (res[k].status = "reserved" /\ res[k].expires <= MaxTime)
      ~> (res[k].status # "reserved" \/ \E j \in Keys : settled[j] > 1)

\* One reservation moves the balance once.
SettledOnce == \A k \in Keys : settled[k] <= 1
=============================================================================
