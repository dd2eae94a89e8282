---------------------- MODULE AnalysisLifecycleProofs ----------------------
(***************************************************************************)
(* Proofs about AnalysisLifecycle, for any number of workers, requests,    *)
(* codes and administrators, and for any retention ages.                   *)
(***************************************************************************)
EXTENDS AnalysisLifecycle, UsageLimitsProofs

USE DEF tables

-----------------------------------------------------------------------------
(* What a worker's attempt is, and that every step is the authorizer's.     *)

AttemptInv ==
  /\ attempt \in [Workers -> Attempt \cup {Idle}]
  /\ clock \in Nat

LEMMA WorkersAreSessions ==
  /\ Janitor \in Sessions
  /\ \A w \in Workers : w \in Sessions /\ w # Janitor
BY SessionsAssumption

LEMMA AttemptShape ==
  ASSUME AttemptInv, NEW w \in Workers, attempt[w] # Idle
  PROVE  attempt[w] \in Attempt /\ attempt[w].request \in Requests /\ Key(w) \in Keys
BY ConstantTypes DEF AttemptInv, Attempt, Key

(* An attempt that goes on or ends. *)
LEMMA AttemptMoves ==
  ASSUME AttemptInv, NEW w \in Workers, attempt[w] # Idle,
         \/ \E step \in AttemptSteps : Goto(w, step)
         \/ \E step \in AttemptSteps, own \in BOOLEAN :
              attempt' = [attempt EXCEPT ![w].step = step, ![w].owner = own]
         \/ End(w)
  PROVE  /\ attempt' \in [Workers -> Attempt \cup {Idle}]
         /\ \A v \in Workers : v # w => attempt'[v] = attempt[v]
         /\ attempt'[w] # Idle => attempt'[w].request = attempt[w].request
         /\ attempt'[w] # Idle => attempt'[w].started = attempt[w].started
<1>1. attempt[w] \in Attempt
  BY AttemptShape
<1>2. ASSUME NEW step \in AttemptSteps, NEW own \in BOOLEAN
      PROVE  /\ [attempt[w] EXCEPT !.step = step] \in Attempt
             /\ [attempt[w] EXCEPT !.step = step].request = attempt[w].request
             /\ [attempt[w] EXCEPT !.step = step, !.owner = own] \in Attempt
             /\ [attempt[w] EXCEPT !.step = step, !.owner = own].request = attempt[w].request
             /\ [attempt[w] EXCEPT !.step = step].started = attempt[w].started
             /\ [attempt[w] EXCEPT !.step = step, !.owner = own].started = attempt[w].started
  BY <1>1 DEF Attempt
<1>3. CASE \E step \in AttemptSteps : Goto(w, step)
  <2>1. PICK step \in AttemptSteps : attempt' = [attempt EXCEPT ![w] = [attempt[w] EXCEPT !.step = step]]
    BY <1>3 DEF Goto
  <2>2. QED
    BY <1>2, <2>1 DEF AttemptInv
<1>4. CASE \E step \in AttemptSteps, own \in BOOLEAN :
             attempt' = [attempt EXCEPT ![w].step = step, ![w].owner = own]
  <2>1. PICK step \in AttemptSteps, own \in BOOLEAN :
          attempt' = [attempt EXCEPT ![w] = [attempt[w] EXCEPT !.step = step, !.owner = own]]
    BY <1>4, <1>1 DEF AttemptInv, Attempt
  <2>2. QED
    BY <1>2, <2>1 DEF AttemptInv
<1>5. CASE End(w)
  BY <1>5 DEF End, AttemptInv
<1>6. QED
  BY <1>3, <1>4, <1>5

(* Each step of a worker but the first. *)
Works(w) ==
  \/ Reserve(w) \/ CheckRun(w) \/ Start(w) \/ ModelFails(w) \/ ModelReports(w)
  \/ SucceedRead(w) \/ SucceedWrite(w) \/ FailRead(w) \/ FailWrite(w)
  \/ Confirm(w) \/ Commit(w) \/ Release(w) \/ ReleaseWrite(w) \/ Answer(w)
  \/ Interrupt(w)

LEMMA WorkerMoves ==
  ASSUME AttemptInv, NEW w \in Workers, Works(w)
  PROVE  /\ attempt[w] # Idle
         /\ attempt' \in [Workers -> Attempt \cup {Idle}]
         /\ \A v \in Workers : v # w => attempt'[v] = attempt[v]
         /\ attempt'[w] # Idle => attempt'[w].request = attempt[w].request
         /\ attempt'[w] # Idle => attempt'[w].started = attempt[w].started
         /\ UNCHANGED pass
<1>1. attempt[w] # Idle
  BY DEF Works, At, Idle, Reserve, CheckRun, Start, ModelFails, ModelReports, SucceedRead,
         FailRead, RequireRunning, SucceedWrite, FailWrite, Finish, Confirm, Commit, Release,
         ReleaseWrite, Answer, Interrupt
<1>2. UNCHANGED pass
  BY DEF Works, Reserve, CheckRun, Start, ModelFails, ModelReports, SucceedRead,
         FailRead, RequireRunning, SucceedWrite, FailWrite, Finish, Confirm, Commit, Release,
         ReleaseWrite, Answer, Interrupt
<1>3. CASE attempt' = attempt
  BY <1>1, <1>2, <1>3 DEF AttemptInv
<1>4. CASE attempt' # attempt
  <2>1. \/ \E step \in AttemptSteps : Goto(w, step)
        \/ \E step \in AttemptSteps, own \in BOOLEAN :
             attempt' = [attempt EXCEPT ![w].step = step, ![w].owner = own]
        \/ End(w)
    <3>1. CASE Reserve(w)
      BY <3>1, <1>4 DEF Reserve, AttemptSteps
    <3>2. CASE CheckRun(w) \/ Start(w) \/ ModelFails(w) \/ ModelReports(w)
      BY <3>2 DEF CheckRun, Start, ModelFails, ModelReports, AttemptSteps
    <3>3. CASE SucceedRead(w) \/ FailRead(w) \/ SucceedWrite(w) \/ FailWrite(w)
      BY <3>3 DEF SucceedRead, FailRead, RequireRunning, SucceedWrite, FailWrite, Finish, AttemptSteps
    <3>4. CASE Confirm(w) \/ Commit(w) \/ Release(w) \/ ReleaseWrite(w) \/ Answer(w) \/ Interrupt(w)
      BY <3>4 DEF Confirm, Commit, Release, ReleaseWrite, Answer, Interrupt, AttemptSteps
    <3>5. QED
      BY <3>1, <3>2, <3>3, <3>4 DEF Works
  <2>2. QED
    BY <1>1, <1>2, <2>1, AttemptMoves
<1>5. QED
  BY <1>3, <1>4

LEMMA BeginMoves ==
  ASSUME AttemptInv, NEW w \in Workers, NEW r \in Requests, Begin(w, r)
  PROVE  /\ attempt' \in [Workers -> Attempt \cup {Idle}]
         /\ \A v \in Workers : v # w => attempt'[v] = attempt[v]
         /\ attempt[w] = Idle /\ At(w, "reserve")' /\ attempt'[w].request = r
         /\ attempt'[w].started = clock /\ ~attempt'[w].owner
         /\ UNCHANGED <<vars, record, pass>>
<1> DEFINE new == [step |-> "reserve", request |-> r, owner |-> FALSE, started |-> clock]
<1>1. new \in Attempt
  BY DEF AttemptInv, Attempt, AttemptSteps
<1>2. attempt' = [attempt EXCEPT ![w] = new]
  BY DEF Begin
<1>3. QED
  BY <1>1, <1>2 DEF Begin, AttemptInv, At

(* A worker changes the tables as a session of the authorizer.              *)
LEMMA WorkerIsSession ==
  ASSUME AttemptInv, NEW w \in Workers, Works(w)
  PROVE  UNCHANGED vars \/ SessionStep(w)
<1>1. attempt[w] \in Attempt /\ attempt[w].request \in Requests /\ Key(w) \in Keys
  BY WorkerMoves, AttemptShape
<1>2. CASE Reserve(w)
  BY <1>1, <1>2 DEF Reserve, SessionStep
<1>3. CASE CheckRun(w) \/ Start(w) \/ ModelFails(w) \/ ModelReports(w) \/ Answer(w)
  BY <1>3 DEF CheckRun, Start, ModelFails, ModelReports, Answer
<1>4. CASE SucceedRead(w) \/ FailRead(w) \/ SucceedWrite(w) \/ FailWrite(w)
  BY <1>4 DEF SucceedRead, FailRead, RequireRunning, SucceedWrite, FailWrite, Finish
<1>5. CASE Confirm(w)
  <2>1. UNCHANGED vars \/ SettleRead(w, "commit", {Key(w)})
    BY <1>5 DEF Confirm
  <2>2. QED
    BY <1>1, <2>1 DEF SessionStep
<1>6. CASE Release(w)
  <2>1. UNCHANGED vars \/ SettleRead(w, "release", {Key(w)})
    BY <1>6 DEF Release
  <2>2. QED
    BY <1>1, <2>1 DEF SessionStep
<1>7. CASE Commit(w) \/ ReleaseWrite(w) \/ Interrupt(w)
  BY <1>1, <1>7 DEF Commit, ReleaseWrite, Interrupt, SessionStep
<1>8. QED
  BY <1>2, <1>3, <1>4, <1>5, <1>6, <1>7 DEF Works

(* So does the retention pass.                                              *)
LEMMA PassIsSession ==
  ASSUME PassStep \/ PassBreaks
  PROVE  UNCHANGED attempt /\ (UNCHANGED vars \/ SessionStep(Janitor))
<1>1. CASE PassBegin \/ ClearReports \/ DeleteMetrics \/ CloseStuckRuns
  BY <1>1 DEF PassBegin, ClearReports, DeleteMetrics, CloseStuckRuns, SweepRuns
<1>2. CASE ListExpired
  <2>1. UNCHANGED attempt /\ (UNCHANGED vars \/ SettleRead(Janitor, "release", {k \in Keys : Expired(k)}))
    BY <1>2 DEF ListExpired, ListRows
  <2>2. {k \in Keys : Expired(k)} \in SUBSET Keys
    OBVIOUS
  <2>3. QED
    BY <2>1, <2>2 DEF SessionStep
<1>3. CASE ListUnconfirmed
  <2>1. UNCHANGED attempt /\ (UNCHANGED vars \/ SettleRead(Janitor, "commit", {k \in Keys : Unconfirmed(k)}))
    BY <1>3 DEF ListUnconfirmed, ListRows
  <2>2. {k \in Keys : Unconfirmed(k)} \in SUBSET Keys
    OBVIOUS
  <2>3. QED
    BY <2>1, <2>2 DEF SessionStep
<1>4. CASE ReleaseExpired \/ Reconcile
  BY <1>4 DEF ReleaseExpired, Reconcile, SettleListed, SessionStep
<1>5. CASE PassBreaks
  BY <1>5 DEF PassBreaks, SessionStep
<1>6. QED
  BY <1>1, <1>2, <1>3, <1>4, <1>5 DEF PassStep

LEMMA StepIsAuthorizers ==
  ASSUME AttemptInv, [AnalysisNext]_analysisVars
  PROVE  [Next]_vars
<1>1. CASE \E w \in Workers : WorkerStep(w)
  <2>1. PICK w \in Workers : Works(w) \/ \E r \in Requests : Begin(w, r)
    BY <1>1 DEF WorkerStep, Works
  <2>2. UNCHANGED vars \/ SessionStep(w)
    BY <2>1, WorkerIsSession DEF Begin
  <2>3. QED
    BY <2>2, WorkersAreSessions DEF Next
<1>2. CASE PassStep \/ PassBreaks
  BY <1>2, PassIsSession, WorkersAreSessions DEF Next
<1>3. CASE ProcessCrash
  BY <1>3 DEF ProcessCrash, Next
<1>4. CASE Meanwhile
  BY <1>4 DEF Meanwhile, Next
<1>5. CASE UNCHANGED analysisVars
  BY <1>5 DEF analysisVars
<1>6. QED
  BY <1>1, <1>2, <1>3, <1>4, <1>5 DEF AnalysisNext

LEMMA AttemptsStay == AttemptInv /\ [AnalysisNext]_analysisVars => AttemptInv'
<1> SUFFICES ASSUME AttemptInv, [AnalysisNext]_analysisVars PROVE AttemptInv'
  OBVIOUS
<1>1. clock' \in Nat
  <2>1. clock' = clock \/ clock' = clock + 1
    <3>1. ASSUME NEW s \in Sessions, SessionStep(s) PROVE clock' = clock
      BY <3>1 DEF SessionStep, ReserveCheck, ReserveLookup, ReserveExisting, ReserveInsert,
                  ReserveReject, SettleRead, CommitRow, ReleaseRow, SettleRow, SettleFail, Abandon
    <3>2. ASSUME NEW a \in Admins, AdminStep(a) PROVE clock' = clock
      BY <3>2 DEF AdminStep, EditRead, GrantWrite, RevokeWrite, AbandonEdit
    <3>3. CASE AdminWrite
      BY <3>3 DEF AdminWrite, CreateBatch, UpdateExpiry, UpdatePolicy
    <3>4. CASE Crash \/ Tick \/ UNCHANGED vars
      BY <3>4 DEF Crash, Tick, vars
    <3>5. QED
      BY <3>1, <3>2, <3>3, <3>4, StepIsAuthorizers DEF Next
  <2>2. QED
    BY <2>1 DEF AttemptInv
<1>2. attempt' \in [Workers -> Attempt \cup {Idle}]
  <2>1. CASE \E w \in Workers : WorkerStep(w)
    <3>1. PICK w \in Workers : Works(w) \/ \E r \in Requests : Begin(w, r)
      BY <2>1 DEF WorkerStep, Works
    <3>2. QED
      BY <3>1, WorkerMoves, BeginMoves
  <2>2. CASE PassStep \/ PassBreaks
    BY <2>2, PassIsSession DEF AttemptInv
  <2>3. CASE ProcessCrash \/ Meanwhile \/ UNCHANGED analysisVars
    BY <2>3 DEF ProcessCrash, Meanwhile, analysisVars, AttemptInv
  <2>4. QED
    BY <2>1, <2>2, <2>3 DEF AnalysisNext
<1>3. QED
  BY <1>1, <1>2 DEF AttemptInv

(* Whatever an analysis, a retention pass or a crash does to the tables, it  *)
(* does through the authorizer: what is proved of Spec holds here as well.   *)
THEOREM ImplementsAuthorizer == AnalysisSpec => AuthorizerSpec
<1>1. AnalysisInit => AttemptInv /\ Init
  BY DEF AnalysisInit, AttemptInv, Init
<1>2. QED
  BY <1>1, AttemptsStay, StepIsAuthorizers, PTL DEF AnalysisSpec, AuthorizerSpec, Spec

-----------------------------------------------------------------------------
(* Types.                                                                   *)

AnalysisInv == AttemptInv /\ TypeInv /\ AnalysisTypeOK

(* The kinds of step, for the proofs that follow.                           *)
LEMMA StepKinds ==
  ASSUME [AnalysisNext]_analysisVars
  PROVE  \/ \E w \in Workers : Works(w)
         \/ \E w \in Workers, r \in Requests : Begin(w, r)
         \/ PassStep \/ PassBreaks
         \/ ProcessCrash
         \/ Meanwhile
         \/ UNCHANGED analysisVars
BY DEF AnalysisNext, WorkerStep, Works

LEMMA FinishedRun ==
  ASSUME NEW run \in Run, NEW status \in {"succeeded", "failed"}, NEW report \in BOOLEAN
  PROVE  /\ [run EXCEPT !.status = status, !.report = report] \in Run
         /\ [run EXCEPT !.status = status, !.report = report].status = status
BY DEF Run

(* What a worker does to the runs.                                          *)
LEMMA WorkerRuns ==
  ASSUME AnalysisInv, NEW w \in Workers, Works(w)
  PROVE  \/ runs' = runs
         \/ /\ Start(w) /\ Key(w) \in Keys
            /\ \E run \in Run : run.status = "running" /\ runs' = [runs EXCEPT ![Key(w)] = run]
         \/ /\ SucceedWrite(w) \/ FailWrite(w)
            /\ Key(w) \in Keys
            /\ \E run \in Run : /\ run.status = IF SucceedWrite(w) THEN "succeeded" ELSE "failed"
                              /\ runs' = [runs EXCEPT ![Key(w)] = run]
<1>1. /\ attempt[w] \in Attempt /\ Key(w) \in Keys /\ attempt[w].started \in Nat
      /\ runs \in [Keys -> Run \cup {NoRun}]
  BY WorkerMoves, AttemptShape DEF AnalysisInv, AnalysisTypeOK, Attempt
<1>2. CASE Start(w)
  <2> DEFINE run == [status |-> "running", report |-> FALSE, started |-> attempt[w].started]
  <2>1. run \in Run
    BY <1>1 DEF Run
  <2>2. runs' = runs \/ runs' = [runs EXCEPT ![Key(w)] = run]
    BY <1>2 DEF Start
  <2>3. QED
    BY <1>1, <1>2, <2>1, <2>2
<1>3. ASSUME NEW step, NEW status \in {"succeeded", "failed"}, NEW report \in BOOLEAN, NEW next,
             Finish(w, step, status, report, next)
      PROVE  \E run \in Run : run.status = status /\ runs' = [runs EXCEPT ![Key(w)] = run]
  <2>1. runs[Key(w)] \in Run
    BY <1>1, <1>3 DEF Finish
  <2>2. runs' = [runs EXCEPT ![Key(w)] = [runs[Key(w)] EXCEPT !.status = status, !.report = report]]
    BY <1>3 DEF Finish
  <2>3. QED
    BY <2>1, <2>2, FinishedRun
<1>4. CASE SucceedWrite(w)
  BY <1>1, <1>3, <1>4 DEF SucceedWrite
<1>5. CASE FailWrite(w)
  <2>1. runs[Key(w)] \in Run
    BY <1>1, <1>5 DEF FailWrite, Finish
  <2>2. runs[Key(w)].report \in BOOLEAN
    BY <2>1 DEF Run
  <2>3. At(w, "fail_write") /\ ~SucceedWrite(w)
    BY <1>5 DEF FailWrite, SucceedWrite, Finish, At
  <2>4. QED
    BY <1>1, <1>3, <1>5, <2>2, <2>3 DEF FailWrite
<1>6. CASE ~Start(w) /\ ~SucceedWrite(w) /\ ~FailWrite(w)
  BY <1>6 DEF Works, record, Reserve, CheckRun, ModelFails, ModelReports, SucceedRead, FailRead,
              RequireRunning, Confirm, Commit, Release, ReleaseWrite, Answer, Interrupt
<1>7. QED
  BY <1>2, <1>4, <1>5, <1>6

(* What the retention pass does to one run.                                 *)
LEMMA SweptRun ==
  ASSUME NEW run \in Run \cup {NoRun}
  PROVE  /\ {Cleared(run), Deleted(run), Closed(run)} \subseteq Run \cup {NoRun}
         /\ \A swept \in {Cleared(run), Deleted(run), Closed(run)} :
              swept.status \in {run.status, "failed", "none"}
<1>1. CASE run = NoRun
  BY <1>1 DEF Cleared, Deleted, Closed, Aged
<1>2. CASE run \in Run
  <2>1. /\ [run EXCEPT !.report = FALSE] \in Run /\ [run EXCEPT !.status = "failed"] \in Run
        /\ [run EXCEPT !.report = FALSE].status = run.status
        /\ [run EXCEPT !.status = "failed"].status = "failed"
        /\ NoRun.status = "none"
    BY <1>2 DEF Run, NoRun
  <2>2. /\ Cleared(run) \in {run, [run EXCEPT !.report = FALSE]}
        /\ Deleted(run) \in {run, NoRun}
        /\ Closed(run) \in {run, [run EXCEPT !.status = "failed"]}
    BY DEF Cleared, Deleted, Closed
  <2>3. QED
    BY <1>2, <2>1, <2>2
<1>3. QED
  BY <1>1, <1>2

LEMMA PassRuns ==
  ASSUME AnalysisInv, PassStep \/ PassBreaks
  PROVE  /\ runs' \in [Keys -> Run \cup {NoRun}]
         /\ \A k \in Keys : runs'[k].status \in {runs[k].status, "failed", "none"}
         /\ UNCHANGED <<produced, answered>>
<1>1. runs \in [Keys -> Run \cup {NoRun}]
  BY DEF AnalysisInv, AnalysisTypeOK
<1>2. CASE ClearReports
  <2>1. runs' = [k \in Keys |-> Cleared(runs[k])] /\ UNCHANGED <<produced, answered>>
    BY <1>2 DEF ClearReports, SweepRuns
  <2>2. QED
    BY <1>1, <2>1, SweptRun
<1>3. CASE DeleteMetrics
  <2>1. runs' = [k \in Keys |-> Deleted(runs[k])] /\ UNCHANGED <<produced, answered>>
    BY <1>3 DEF DeleteMetrics, SweepRuns
  <2>2. QED
    BY <1>1, <2>1, SweptRun
<1>4. CASE CloseStuckRuns
  <2>1. runs' = [k \in Keys |-> Closed(runs[k])] /\ UNCHANGED <<produced, answered>>
    BY <1>4 DEF CloseStuckRuns, SweepRuns
  <2>2. QED
    BY <1>1, <2>1, SweptRun
<1>5. CASE ~ClearReports /\ ~DeleteMetrics /\ ~CloseStuckRuns
  BY <1>1, <1>5 DEF PassStep, PassBreaks, PassBegin, record, ListExpired, ListUnconfirmed, ListRows,
                    ReleaseExpired, Reconcile, SettleListed
<1>6. QED
  BY <1>2, <1>3, <1>4, <1>5

LEMMA PassMoves ==
  ASSUME AnalysisInv, PassStep
  PROVE  pass' \in Pass \cup {Idle} /\ UNCHANGED faults
<1>1. UNCHANGED faults
  BY DEF PassStep, PassBegin, ClearReports, DeleteMetrics, CloseStuckRuns, SweepRuns, ListExpired,
         ListUnconfirmed, ListRows, ReleaseExpired, Reconcile, SettleListed, record
<1>2. \A step \in PassSteps : pass \in Pass => [pass EXCEPT !.step = step] \in Pass
  BY DEF Pass
<1>3. CASE PassBegin
  BY <1>1, <1>3 DEF PassBegin, Pass, PassSteps, AnalysisInv, AttemptInv
<1>4. CASE PassStep /\ ~PassBegin
  <2>1. pass # Idle
    BY <1>4 DEF PassStep, ClearReports, DeleteMetrics, CloseStuckRuns, SweepRuns, ListExpired,
                ListUnconfirmed, ListRows, ReleaseExpired, Reconcile, SettleListed, PassAt, Idle
  <2>2. pass \in Pass
    BY <2>1 DEF AnalysisInv, AnalysisTypeOK
  <2>3. \/ pass' = pass \/ pass' = Idle
        \/ \E step \in PassSteps : pass' = [pass EXCEPT !.step = step]
    BY <1>4 DEF PassStep, ClearReports, DeleteMetrics, CloseStuckRuns, SweepRuns, ListExpired,
                ListUnconfirmed, ListRows, ReleaseExpired, Reconcile, SettleListed, PassTo,
                ToReconcile, PassSteps
  <2>4. QED
    BY <1>1, <1>2, <2>2, <2>3
<1>5. QED
  BY <1>3, <1>4

LEMMA WorkerHistory ==
  ASSUME AnalysisInv, NEW w \in Workers, Works(w)
  PROVE  /\ UNCHANGED faults
         /\ produced' = produced \/ (ModelReports(w) /\ produced' = produced \cup {Key(w)})
         /\ answered' = answered \/ (Answer(w) /\ answered' = answered \cup {Key(w)})
BY DEF Works, record, Reserve, CheckRun, Start, ModelFails, ModelReports, SucceedRead, FailRead,
       RequireRunning, SucceedWrite, FailWrite, Finish, Confirm, Commit, Release, ReleaseWrite,
       Answer, Interrupt

LEMMA AnalysisStays == AnalysisInv /\ [AnalysisNext]_analysisVars => AnalysisInv'
<1> SUFFICES ASSUME AnalysisInv, [AnalysisNext]_analysisVars PROVE AnalysisInv'
  OBVIOUS
<1>1. AttemptInv' /\ TypeInv'
  BY AttemptsStay, StepIsAuthorizers, TypeInvStep DEF AnalysisInv
<1>2. AnalysisTypeOK'
  <2> USE DEF AnalysisTypeOK
  <2>1. attempt' \in [Workers -> Attempt \cup {Idle}] /\ AnalysisTypeOK
    BY <1>1 DEF AnalysisInv, AttemptInv
  <2>2. ASSUME NEW w \in Workers, Works(w) PROVE AnalysisTypeOK'
    <3>1. pass' = pass /\ Key(w) \in Keys
      BY <2>2, WorkerMoves, AttemptShape DEF AnalysisInv
    <3>2. runs' \in [Keys -> Run \cup {NoRun}]
      BY <2>1, <2>2, WorkerRuns
    <3>3. QED
      BY <2>1, <2>2, <3>1, <3>2, WorkerHistory
  <2>3. ASSUME NEW w \in Workers, NEW r \in Requests, Begin(w, r) PROVE AnalysisTypeOK'
    BY <2>1, <2>3 DEF Begin, record
  <2>4. CASE PassStep
    BY <2>1, <2>4, PassMoves, PassRuns
  <2>5. CASE PassBreaks \/ ProcessCrash
    <3>1. faults' \in 0 .. MaxFaults /\ pass' = Idle
      BY <2>1, <2>5, AgesAssumption DEF PassBreaks, ProcessCrash, Fault
    <3>2. UNCHANGED <<runs, produced, answered>>
      BY <2>5 DEF PassBreaks, ProcessCrash
    <3>3. QED
      BY <2>1, <3>1, <3>2
  <2>6. CASE Meanwhile \/ UNCHANGED analysisVars
    BY <2>1, <2>6 DEF Meanwhile, analysisVars, record
  <2>7. QED
    BY <2>2, <2>3, <2>4, <2>5, <2>6, StepKinds
<1>3. QED
  BY <1>1, <1>2 DEF AnalysisInv

LEMMA AnalysisStarts == AnalysisInit => AnalysisInv
<1>1. AnalysisInit => TypeInv
  BY TypeInvInit DEF AnalysisInit
<1>2. QED
  BY <1>1, AgesAssumption DEF AnalysisInit, AnalysisInv, AttemptInv, AnalysisTypeOK, Init

(* Every reachable state of an analysis, its runs and the retention pass is  *)
(* well typed.                                                              *)
THEOREM AnalysisTypeCorrect == AnalysisSpec => []AnalysisTypeOK
<1>1. AnalysisInv => AnalysisTypeOK
  BY DEF AnalysisInv
<1>2. QED
  BY <1>1, AnalysisStarts, AnalysisStays, PTL DEF AnalysisSpec

-----------------------------------------------------------------------------
(* What the authorizer's steps do to other sessions and to reservations.    *)

LEMMA OneSessionMoves ==
  ASSUME TypeInv, NEW s \in Sessions, UNCHANGED vars \/ SessionStep(s)
  PROVE  \A t \in Sessions : t # s => call'[t] = call[t]
<1>1. \A other : \A t \in Sessions : t # s => [call EXCEPT ![s] = other][t] = call[t]
  BY DEF TypeInv, TypeOK
<1>2. CASE UNCHANGED vars
  BY <1>2 DEF vars
<1>3. CASE SessionStep(s)
  <2>1. \E new : call' = [call EXCEPT ![s] = new]
    BY <1>3 DEF SessionStep, ReserveCheck, ReserveLookup, ReserveExisting, ReserveInsert, ReserveReject,
                SettleRead, CommitRow, ReleaseRow, SettleRow, RowDone, SettleFail, Abandon
  <2>2. QED
    BY <1>1, <2>1
<1>4. QED
  BY <1>2, <1>3

(* A reservation is never deleted, its request, code and expiry never change; *)
(* it is consumed by a session that has read it as one to confirm.                *)
LEMMA ReservationsStay ==
  ASSUME TypeInv, [Next]_vars, NEW k \in Keys
  PROVE  /\ res[k] # NoReservation =>
              /\ res'[k] # NoReservation
              /\ res'[k].request = res[k].request /\ res'[k].code = res[k].code
              /\ res'[k].expires = res[k].expires
         /\ res'[k].status = "consumed" =>
              \/ res[k].status = "consumed"
              \/ \E s \in Sessions : call[s].step = "commit" /\ k \in call[s].rows
<1>1. res \in [Keys -> ReservationRow \cup {NoReservation}] /\ NoReservation \notin ReservationRow
  BY DEF TypeInv, TypeOK, ReservationRow, NoReservation
<1>2. ASSUME NEW s \in Sessions, ReserveInsert(s)
      PROVE  /\ res[k] # NoReservation => res'[k] = res[k]
             /\ res'[k].status = "consumed" => res[k].status = "consumed"
  <2> DEFINE row == [status |-> "reserved", code |-> ChargedCode(call[s]), request |-> call[s].request,
                     expires |-> call[s].now + TTL, updated |-> clock]
  <2>1. /\ res[call[s].request.key] = NoReservation
        /\ res' = [res EXCEPT ![call[s].request.key] = row] /\ row.status = "reserved"
    BY <1>2 DEF ReserveInsert
  <2> HIDE DEF row
  <2>2. QED
    BY <1>1, <2>1
<1>3. ASSUME NEW s \in Sessions, NEW j \in Keys, NEW op \in {"commit", "release"},
             NEW status \in {"consumed", "released"}, NEW newCode(_),
             status = "consumed" => op = "commit", SettleRow(s, j, op, status, newCode)
      PROVE  /\ res[k] # NoReservation =>
                  /\ res'[k] # NoReservation
                  /\ res'[k].request = res[k].request /\ res'[k].code = res[k].code
                  /\ res'[k].expires = res[k].expires
             /\ res'[k].status = "consumed" =>
                  \/ res[k].status = "consumed"
                  \/ call[s].step = "commit" /\ k \in call[s].rows
  <2>1. res[j] \in ReservationRow /\ call[s].step = op /\ j \in call[s].rows
    BY <1>3 DEF SettleRow, TypeInv, RowsExist
  <2>2. res' = [res EXCEPT ![j] = [res[j] EXCEPT !.status = status, !.updated = clock]]
    BY <1>3 DEF SettleRow
  <2>3. /\ [res[j] EXCEPT !.status = status, !.updated = clock].request = res[j].request
        /\ [res[j] EXCEPT !.status = status, !.updated = clock].code = res[j].code
        /\ [res[j] EXCEPT !.status = status, !.updated = clock].expires = res[j].expires
        /\ [res[j] EXCEPT !.status = status, !.updated = clock].status = status
        /\ NoReservation.status = "none"
    BY <2>1 DEF ReservationRow, NoReservation
  <2>4. QED
    BY <1>1, <1>3, <2>1, <2>2, <2>3
<1>4. ASSUME NEW s \in Sessions, NEW j \in Keys, CommitRow(s, j) \/ ReleaseRow(s, j)
      PROVE  /\ res[k] # NoReservation =>
                  /\ res'[k] # NoReservation
                  /\ res'[k].request = res[k].request /\ res'[k].code = res[k].code
                  /\ res'[k].expires = res[k].expires
             /\ res'[k].status = "consumed" =>
                  \/ res[k].status = "consumed"
                  \/ call[s].step = "commit" /\ k \in call[s].rows
  <2>1. CASE CommitRow(s, j)
    BY <2>1, <1>3 DEF CommitRow
  <2>2. CASE ReleaseRow(s, j)
    BY <2>2, <1>3 DEF ReleaseRow
  <2>3. QED
    BY <1>4, <2>1, <2>2
<1>5. QED
  BY <1>2, <1>4, ReservationSteps

-----------------------------------------------------------------------------
(* One execution of a key at a time.  The registry keeps requests apart, the *)
(* reservation keeps the request of whoever inserted it, and both together   *)
(* keep keys apart.                                                         *)

ClaimsOwnRequest ==
  \A w \in Workers :
    call[w].step \in {"lookup", "insert"} =>
      At(w, "reserve") /\ call[w].request = attempt[w].request

RequestsApart ==
  \A v, w \in Workers :
    v # w /\ attempt[v] # Idle /\ attempt[w] # Idle => attempt[v].request # attempt[w].request

HoldsReservation(w) ==
  attempt[w] # Idle /\ ~At(w, "reserve") =>
    res[Key(w)] # NoReservation /\ res[Key(w)].request = attempt[w].request

ExecutionInv ==
  AnalysisInv /\ ClaimsOwnRequest /\ RequestsApart /\ \A w \in Workers : HoldsReservation(w)

LEMMA CallValue ==
  ASSUME TypeInv, NEW s \in Sessions, NEW new
  PROVE  /\ [call EXCEPT ![s] = new][s] = new
         /\ call[s] \in Claiming =>
              [call EXCEPT ![s].step = "insert"][s] = [call[s] EXCEPT !.step = "insert"]
BY DEF TypeInv, TypeOK

(* The calls that settle after a step: those that did, and new ones.        *)
LEMMA SettlingCalls ==
  ASSUME TypeInv, NEW s \in Sessions, UNCHANGED vars \/ SessionStep(s),
         NEW op \in {"commit", "release"}, call'[s].step = op
  PROVE  \/ call[s].step = op /\ call'[s].rows \subseteq call[s].rows
         \/ SettleRead(s, op, call'[s].rows)
<1>1. CASE UNCHANGED vars
  BY <1>1 DEF vars
<1>2. CASE \E r \in Requests : ReserveCheck(s, r)
  <2>1. PICK r \in Requests : ReserveCheck(s, r)
    BY <1>2
  <2> DEFINE new == [step |-> "lookup", request |-> r, now |-> clock, policy |-> policy]
  <2>2. call' = [call EXCEPT ![s] = new] /\ new.step = "lookup"
    BY <2>1 DEF ReserveCheck
  <2> HIDE DEF new
  <2>3. QED
    BY <2>2, CallValue
<1>3. CASE ReserveLookup(s)
  <2>1. call[s] \in Claiming /\ call' = [call EXCEPT ![s].step = "insert"]
    BY <1>3, CallShapes DEF ReserveLookup
  <2>2. [call[s] EXCEPT !.step = "insert"].step = "insert"
    BY <2>1 DEF Claiming
  <2>3. QED
    BY <2>1, <2>2, CallValue
<1>4. CASE ReserveExisting(s) \/ ReserveInsert(s) \/ ReserveReject(s) \/ SettleFail(s) \/ Abandon(s)
  <2>1. call' = [call EXCEPT ![s] = Idle]
    BY <1>4 DEF ReserveExisting, ReserveInsert, ReserveReject, SettleFail, Abandon
  <2>2. QED
    BY <2>1, CallValue DEF Idle
<1>5. ASSUME NEW other \in {"commit", "release"}, NEW rows \in SUBSET Keys, SettleRead(s, other, rows)
      PROVE  SettleRead(s, op, call'[s].rows)
  <2> DEFINE new == [step |-> other, rows |-> rows]
  <2>1. call' = [call EXCEPT ![s] = new] /\ new.step = other /\ new.rows = rows
    BY <1>5 DEF SettleRead
  <2> HIDE DEF new
  <2>2. call'[s] = new
    BY <2>1, CallValue
  <2>3. QED
    BY <1>5, <2>1, <2>2
<1>6. CASE \E k \in Keys : CommitRow(s, k) \/ ReleaseRow(s, k)
  <2>1. PICK k \in Keys : CommitRow(s, k) \/ ReleaseRow(s, k)
    BY <1>6
  <2>2. call[s] \in Settling /\ RowDone(s, k)
    BY <2>1, SettledRow DEF CommitRow, ReleaseRow, SettleRow
  <2>3. \/ call'[s] \in {Idle, call[s]}
        \/ call'[s] = [call[s] EXCEPT !.rows = call[s].rows \ {k}]
    BY <2>2, RowDoneType
  <2>4. QED
    BY <2>2, <2>3 DEF Settling, Idle
<1>7. QED
  BY <1>1, <1>2, <1>3, <1>4, <1>5, <1>6 DEF SessionStep

(* A settling session claims nothing.                                       *)
LEMMA SettlingClaimsNothing ==
  ASSUME TypeInv, NEW s \in Sessions, NEW k \in Keys,
         \/ \E rows : SettleRead(s, "commit", rows) \/ SettleRead(s, "release", rows)
         \/ CommitRow(s, k) \/ ReleaseRow(s, k) \/ SettleFail(s)
  PROVE  call'[s].step \notin {"lookup", "insert"}
<1>1. CASE \E rows : SettleRead(s, "commit", rows) \/ SettleRead(s, "release", rows)
  <2>1. ASSUME NEW op \in {"commit", "release"}, NEW rows, SettleRead(s, op, rows)
        PROVE  call'[s].step = op
    <3> DEFINE new == [step |-> op, rows |-> rows]
    <3>1. call' = [call EXCEPT ![s] = new] /\ new.step = op
      BY <2>1 DEF SettleRead
    <3> HIDE DEF new
    <3>2. QED
      BY <3>1, CallValue
  <2>2. QED
    BY <1>1, <2>1
<1>2. CASE CommitRow(s, k) \/ ReleaseRow(s, k)
  <2>1. call[s] \in Settling /\ RowDone(s, k)
    BY <1>2, SettledRow DEF CommitRow, ReleaseRow, SettleRow
  <2>2. call'[s] \in Settling \cup {Idle}
    <3>1. call'[s] = Idle \/ call'[s] = [call[s] EXCEPT !.rows = call[s].rows \ {k}] \/ call'[s] = call[s]
      BY <2>1, RowDoneType
    <3>2. [call[s] EXCEPT !.rows = call[s].rows \ {k}] \in Settling
      BY <2>1 DEF Settling
    <3>3. QED
      BY <2>1, <3>1, <3>2
  <2>3. QED
    BY <2>2 DEF Settling, Idle
<1>3. CASE SettleFail(s)
  BY <1>3, CallValue DEF SettleFail, Idle
<1>4. QED
  BY <1>1, <1>2, <1>3

LEMMA WorkerClaims ==
  ASSUME ExecutionInv, NEW w \in Workers, Works(w),
         call'[w].step \in {"lookup", "insert"}
  PROVE  At(w, "reserve")' /\ call'[w].request = attempt'[w].request
<1>1. /\ TypeInv /\ w \in Sessions /\ Key(w) \in Keys
      /\ call[w].step \in {"lookup", "insert"} =>
           At(w, "reserve") /\ call[w].request = attempt[w].request
  BY WorkersAreSessions, WorkerMoves, AttemptShape DEF ExecutionInv, AnalysisInv, ClaimsOwnRequest
<1>2. CASE Reserve(w)
  <2>1. CASE ReserveCheck(w, attempt[w].request) /\ UNCHANGED attempt
    <3>1. call'[w].request = attempt[w].request
      BY <1>1, <2>1, CallValue DEF ReserveCheck
    <3>2. QED
      BY <1>2, <2>1, <3>1 DEF Reserve, At
  <2>2. CASE ReserveLookup(w) /\ UNCHANGED attempt
    <3>1. call[w] \in Claiming /\ call' = [call EXCEPT ![w].step = "insert"]
      BY <1>1, <2>2, CallShapes DEF ReserveLookup
    <3>2. call'[w].request = call[w].request
      BY <1>1, <3>1, CallValue DEF Claiming
    <3>3. QED
      BY <1>1, <1>2, <2>2, <3>2 DEF Reserve, At, ReserveLookup
  <2>3. CASE ReserveInsert(w) \/ ReserveExisting(w) \/ ReserveReject(w)
    <3>1. call'[w] = Idle
      BY <1>1, <2>3, CallValue DEF ReserveInsert, ReserveExisting, ReserveReject
    <3>2. QED
      BY <3>1 DEF Idle
  <2>4. CASE call[w] = Idle /\ UNCHANGED vars
    BY <2>4 DEF vars, Idle
  <2>5. QED
    BY <1>2, <2>1, <2>2, <2>3, <2>4 DEF Reserve
<1>3. CASE Interrupt(w)
  <2>1. call' = [call EXCEPT ![w] = Idle] \/ (call' = call /\ call[w] = Idle)
    BY <1>3 DEF Interrupt, Abandon, vars
  <2>2. call'[w] = Idle
    BY <1>1, <2>1, CallValue
  <2>3. QED
    BY <2>2 DEF Idle
<1>4. CASE ~Reserve(w) /\ ~Interrupt(w)
  <2>1. ~At(w, "reserve")
    BY <1>4 DEF Works, At, CheckRun, Start, ModelFails, ModelReports, SucceedRead, FailRead,
                RequireRunning, SucceedWrite, FailWrite, Finish, Confirm, Commit, Release,
                ReleaseWrite, Answer
  <2>2. \/ UNCHANGED vars
        \/ \E rows : SettleRead(w, "commit", rows) \/ SettleRead(w, "release", rows)
        \/ CommitRow(w, Key(w)) \/ ReleaseRow(w, Key(w)) \/ SettleFail(w)
    BY <1>4 DEF Works, CheckRun, Start, ModelFails, ModelReports, SucceedRead, FailRead,
                RequireRunning, SucceedWrite, FailWrite, Finish, Confirm, Commit, Release,
                ReleaseWrite, Answer
  <2>3. CASE UNCHANGED vars
    BY <1>1, <2>1, <2>3 DEF vars
  <2>4. CASE ~UNCHANGED vars
    BY <1>1, <2>2, <2>4, SettlingClaimsNothing
  <2>5. QED
    BY <2>3, <2>4
<1>5. QED
  BY <1>2, <1>3, <1>4

(* Whoever is past reserve() has the row of its own request.                *)
LEMMA WorkerHolds ==
  ASSUME ExecutionInv, NEW w \in Workers, Works(w)
  PROVE  HoldsReservation(w)'
<1>1. /\ TypeInv /\ w \in Sessions /\ Key(w) \in Keys /\ HoldsReservation(w)
      /\ call[w].step \in {"lookup", "insert"} => call[w].request = attempt[w].request
  BY WorkersAreSessions, WorkerMoves, AttemptShape DEF ExecutionInv, AnalysisInv, ClaimsOwnRequest
<1>2. SUFFICES ASSUME attempt'[w] # Idle, ~At(w, "reserve")'
               PROVE  res'[Key(w)'] # NoReservation /\ res'[Key(w)'].request = attempt'[w].request
  BY DEF HoldsReservation
<1>3. attempt'[w].request = attempt[w].request /\ Key(w)' = Key(w)
  BY <1>2, WorkerMoves DEF ExecutionInv, AnalysisInv, Key
<1>4. [Next]_vars
  BY <1>1, WorkerIsSession DEF ExecutionInv, AnalysisInv, Next
<1>5. CASE res[Key(w)] # NoReservation /\ res[Key(w)].request = attempt[w].request
  BY <1>1, <1>3, <1>4, <1>5, ReservationsStay
<1>6. CASE ~(res[Key(w)] # NoReservation /\ res[Key(w)].request = attempt[w].request)
  <2>1. At(w, "reserve")
    BY <1>1, <1>6, WorkerMoves DEF HoldsReservation, ExecutionInv, AnalysisInv
  <2>2. Reserve(w)
    BY <1>2, <2>1 DEF Works, At, CheckRun, Start, ModelFails, ModelReports, SucceedRead, FailRead,
                RequireRunning, SucceedWrite, FailWrite, Finish, Confirm, Commit, Release,
                ReleaseWrite, Answer, Interrupt, End, ExecutionInv, AnalysisInv, AttemptInv
  <2>3. ReserveInsert(w)
    <3>1. ~End(w) /\ attempt' # attempt
      BY <1>2, <2>1 DEF End, At, ExecutionInv, AnalysisInv, AttemptInv
    <3>2. ~(ReserveExisting(w) /\ res[Key(w)].request = attempt[w].request)
      BY <1>1, <1>6 DEF ReserveExisting, Key
    <3>3. QED
      BY <2>2, <3>1, <3>2 DEF Reserve
  <2>4. call[w].request = attempt[w].request /\ call[w].request.key = Key(w)
    BY <1>1, <2>3 DEF ReserveInsert, Key
  <2>5. res'[Key(w)].request = call[w].request /\ res'[Key(w)].status = "reserved"
    BY <1>1, <2>3, <2>4 DEF ReserveInsert, TypeInv, TypeOK
  <2>6. QED
    BY <1>3, <2>4, <2>5 DEF NoReservation
<1>7. QED
  BY <1>5, <1>6

(* The other workers see none of it.                                        *)
LEMMA OthersKeepExecution ==
  ASSUME ExecutionInv, [AnalysisNext]_analysisVars, NEW v \in Workers,
         attempt'[v] = attempt[v], call'[v] = call[v]
  PROVE  /\ call'[v].step \in {"lookup", "insert"} =>
              At(v, "reserve")' /\ call'[v].request = attempt'[v].request
         /\ HoldsReservation(v)'
<1>1. [Next]_vars /\ TypeInv /\ HoldsReservation(v)
  BY StepIsAuthorizers DEF ExecutionInv, AnalysisInv
<1>2. Key(v)' = Key(v) /\ (At(v, "reserve")' <=> At(v, "reserve"))
  BY DEF Key, At
<1>3. attempt[v] # Idle => Key(v) \in Keys
  BY AttemptShape DEF ExecutionInv, AnalysisInv
<1>4. HoldsReservation(v)'
  BY <1>1, <1>2, <1>3, ReservationsStay DEF HoldsReservation
<1>5. QED
  BY <1>2, <1>4 DEF ExecutionInv, ClaimsOwnRequest

LEMMA ExecutionStays == ExecutionInv /\ [AnalysisNext]_analysisVars => ExecutionInv'
<1> SUFFICES ASSUME ExecutionInv, [AnalysisNext]_analysisVars PROVE ExecutionInv'
  OBVIOUS
<1>1. AnalysisInv /\ AnalysisInv' /\ AttemptInv /\ TypeInv
  BY AnalysisStays DEF ExecutionInv, AnalysisInv
<1> DEFINE Good(v) ==
      /\ call[v].step \in {"lookup", "insert"} =>
           At(v, "reserve") /\ call[v].request = attempt[v].request
      /\ HoldsReservation(v)
<1>2. SUFFICES RequestsApart' /\ \A v \in Workers : Good(v)'
  BY <1>1 DEF ExecutionInv, ClaimsOwnRequest
<1>3. ASSUME NEW w \in Workers, Works(w)
      PROVE  RequestsApart' /\ \A v \in Workers : Good(v)'
  <2>1. RequestsApart'
    BY <1>1, <1>3, WorkerMoves DEF RequestsApart, ExecutionInv
  <2>2. \A v \in Workers : v # w => attempt'[v] = attempt[v] /\ call'[v] = call[v]
    BY <1>1, <1>3, WorkerMoves, WorkerIsSession, OneSessionMoves, WorkersAreSessions
  <2>3. \A v \in Workers : v # w => Good(v)'
    BY <2>2, OthersKeepExecution
  <2>4. Good(w)'
    BY <1>3, WorkerClaims, WorkerHolds
  <2>5. QED
    BY <2>1, <2>3, <2>4
<1>4. ASSUME NEW w \in Workers, NEW r \in Requests, Begin(w, r)
      PROVE  RequestsApart' /\ \A v \in Workers : Good(v)'
  <2>1. /\ call' = call /\ attempt[w] = Idle /\ At(w, "reserve")' /\ attempt'[w].request = r
        /\ \A v \in Workers : v # w => attempt'[v] = attempt[v]
    BY <1>1, <1>4, BeginMoves DEF vars
  <2>2. \A v \in Workers : attempt[v] # Idle => attempt[v].request # r
    BY <1>4 DEF Begin
  <2>3. RequestsApart'
    BY <2>1, <2>2 DEF RequestsApart, ExecutionInv
  <2>4. \A v \in Workers : v # w => Good(v)'
    BY <2>1, OthersKeepExecution
  <2>5. ~At(w, "reserve")
    BY <2>1 DEF At, Idle
  <2>6. Good(w)'
    BY <2>1, <2>5 DEF HoldsReservation, ExecutionInv, ClaimsOwnRequest
  <2>7. QED
    BY <2>3, <2>4, <2>6
<1>5. CASE PassStep \/ PassBreaks
  <2>1. attempt' = attempt /\ \A v \in Workers : call'[v] = call[v]
    BY <1>1, <1>5, PassIsSession, OneSessionMoves, WorkersAreSessions
  <2>2. QED
    BY <2>1, OthersKeepExecution DEF RequestsApart, ExecutionInv
<1>6. CASE ProcessCrash
  <2>1. \A v \in Workers : attempt'[v] = Idle /\ call'[v] = Idle
    BY <1>6, WorkersAreSessions DEF ProcessCrash, Crash
  <2>2. QED
    BY <2>1 DEF RequestsApart, HoldsReservation, Idle
<1>7. CASE Meanwhile \/ UNCHANGED analysisVars
  <2>1. attempt' = attempt /\ call' = call
    BY <1>7 DEF Meanwhile, Tick, AdminWrite, CreateBatch, UpdateExpiry, UpdatePolicy, AdminStep,
                EditRead, GrantWrite, RevokeWrite, AbandonEdit, analysisVars, vars
  <2>2. QED
    BY <2>1, OthersKeepExecution DEF RequestsApart, ExecutionInv
<1>8. QED
  BY <1>3, <1>4, <1>5, <1>6, <1>7, StepKinds

(* However many requests carry a key, at most one of them is past reserve()  *)
(* at a time (control_plane.py:91-118, usage.py:417-418).                   *)
THEOREM OneExecutionForKey == AnalysisSpec => []OneExecutionPerKey
<1>1. AnalysisInit => ExecutionInv
  BY AnalysisStarts, WorkersAreSessions
  DEF AnalysisInit, Init, ExecutionInv, ClaimsOwnRequest, RequestsApart, HoldsReservation, Idle
<1>2. ExecutionInv => OneExecutionPerKey
  <2> SUFFICES ASSUME ExecutionInv, NEW v \in Workers, NEW w \in Workers,
                      v # w, attempt[v] # Idle, attempt[w] # Idle,
                      ~At(v, "reserve"), ~At(w, "reserve"), Key(v) = Key(w)
               PROVE  FALSE
    BY DEF OneExecutionPerKey
  <2>1. attempt[v].request = res[Key(v)].request /\ attempt[w].request = res[Key(w)].request
    BY DEF ExecutionInv, HoldsReservation
  <2>2. QED
    BY <2>1 DEF ExecutionInv, RequestsApart
<1>3. QED
  BY <1>1, <1>2, ExecutionStays, PTL DEF AnalysisSpec

-----------------------------------------------------------------------------
(* No charge without a report.  The report is what a worker that confirms    *)
(* has seen, what a succeeded run stands for, and so what every row that is  *)
(* read to be confirmed has.                                                *)

Reported(w) ==
  attempt[w].step \in {"succeed", "succeed_write", "confirm", "replay"} => Key(w) \in produced

ChargeInv ==
  /\ AnalysisInv
  /\ ChargedForReport
  /\ \A k \in Keys : runs[k].status = "succeeded" => k \in produced
  /\ \A s \in Sessions : call[s].step = "commit" => call[s].rows \subseteq produced
  /\ \A w \in Workers : Reported(w)

(* A worker that reads its row to confirm it has a report.                  *)
LEMMA WorkerConfirmsReports ==
  ASSUME ChargeInv, NEW w \in Workers, Works(w), NEW rows, SettleRead(w, "commit", rows)
  PROVE  rows \subseteq produced
<1>1. TypeInv /\ w \in Sessions /\ Reported(w)
  BY WorkersAreSessions DEF ChargeInv, AnalysisInv
<1>2. call[w] = Idle /\ rows # {}
  BY DEF SettleRead
<1> DEFINE new == [step |-> "commit", rows |-> rows]
<1>3. call'[w] = new /\ new.step = "commit" /\ new.rows = rows
  <2>1. call' = [call EXCEPT ![w] = new] /\ new.step = "commit" /\ new.rows = rows
    BY DEF SettleRead
  <2> HIDE DEF new
  <2>2. QED
    BY <1>1, <2>1, CallValue
<1> HIDE DEF new
<1>4. /\ call'[w] # call[w] /\ call'[w].step \notin {"lookup", "insert", "release", "idle"}
  BY <1>2, <1>3 DEF Idle
<1>5. ~UNCHANGED vars
  BY <1>4 DEF vars
<1>6. ~Reserve(w)
  <2>1. ASSUME Reserve(w) PROVE call'[w].step \in {"lookup", "insert", "idle"}
    <3>1. ~ReserveLookup(w) /\ ~ReserveExisting(w) /\ ~ReserveInsert(w) /\ ~ReserveReject(w)
      BY <1>2 DEF ReserveLookup, ReserveExisting, ReserveInsert, ReserveReject, Idle
    <3>2. ReserveCheck(w, attempt[w].request)
      BY <1>5, <2>1, <3>1 DEF Reserve
    <3> DEFINE other == [step |-> "lookup", request |-> attempt[w].request, now |-> clock, policy |-> policy]
    <3>3. call' = [call EXCEPT ![w] = other] /\ other.step = "lookup"
      BY <3>2 DEF ReserveCheck
    <3> HIDE DEF other
    <3>4. QED
      BY <1>1, <3>3, CallValue
  <2>2. QED
    BY <1>4, <2>1
<1>7. ~Interrupt(w) /\ ~Commit(w) /\ ~ReleaseWrite(w)
  BY <1>2, <1>5 DEF Interrupt, Abandon, Commit, ReleaseWrite, CommitRow, ReleaseRow, SettleRow,
                    SettleFail, Idle
<1>8. ~Release(w)
  <2>1. ASSUME Release(w) PROVE call'[w].step = "release"
    <3>1. SettleRead(w, "release", {Key(w)})
      BY <1>5, <2>1 DEF Release
    <3> DEFINE other == [step |-> "release", rows |-> {Key(w)}]
    <3>2. call' = [call EXCEPT ![w] = other] /\ other.step = "release"
      BY <3>1 DEF SettleRead
    <3> HIDE DEF other
    <3>3. QED
      BY <1>1, <3>2, CallValue
  <2>2. QED
    BY <1>4, <2>1
<1>9. Confirm(w)
  BY <1>5, <1>6, <1>7, <1>8 DEF Works, CheckRun, Start, ModelFails, ModelReports, SucceedRead,
     FailRead, RequireRunning, SucceedWrite, FailWrite, Finish, Answer
<1>10. Key(w) \in produced
  BY <1>1, <1>9 DEF Confirm, At, Reported
<1>11. SettleRead(w, "commit", {Key(w)})
  BY <1>5, <1>9 DEF Confirm
<1> DEFINE own == [step |-> "commit", rows |-> {Key(w)}]
<1>12. call' = [call EXCEPT ![w] = own] /\ own.rows = {Key(w)}
  BY <1>11 DEF SettleRead
<1> HIDE DEF own
<1>13. call'[w].rows = {Key(w)}
  BY <1>1, <1>12, CallValue
<1>14. QED
  BY <1>3, <1>10, <1>13

(* So has the retention pass: it lists the runs that succeeded.             *)
LEMMA PassConfirmsReports ==
  ASSUME ChargeInv, PassStep \/ PassBreaks, NEW rows, SettleRead(Janitor, "commit", rows)
  PROVE  rows \subseteq produced
<1>1. TypeInv /\ Janitor \in Sessions
  BY WorkersAreSessions DEF ChargeInv, AnalysisInv
<1>2. call[Janitor] = Idle
  BY DEF SettleRead
<1> DEFINE new == [step |-> "commit", rows |-> rows]
<1>3. call'[Janitor] = new /\ new.step = "commit" /\ new.rows = rows
  <2>1. call' = [call EXCEPT ![Janitor] = new] /\ new.step = "commit" /\ new.rows = rows
    BY DEF SettleRead
  <2> HIDE DEF new
  <2>2. QED
    BY <1>1, <2>1, CallValue
<1> HIDE DEF new
<1>4. ~UNCHANGED vars
  BY <1>2, <1>3 DEF vars, Idle
<1>5. ~ReleaseExpired /\ ~Reconcile /\ ~PassBreaks
  BY <1>2, <1>4 DEF ReleaseExpired, Reconcile, SettleListed, CommitRow, ReleaseRow, SettleRow,
                    SettleFail, PassBreaks, Abandon, Idle
<1>6. ~ListExpired
  <2>1. ASSUME ListExpired PROVE call'[Janitor].step = "release"
    <3>1. SettleRead(Janitor, "release", {k \in Keys : Expired(k)})
      BY <1>4, <2>1 DEF ListExpired, ListRows
    <3> DEFINE other == [step |-> "release", rows |-> {k \in Keys : Expired(k)}]
    <3>2. call' = [call EXCEPT ![Janitor] = other] /\ other.step = "release"
      BY <3>1 DEF SettleRead
    <3> HIDE DEF other
    <3>3. QED
      BY <1>1, <3>2, CallValue
  <2>2. QED
    BY <1>3, <2>1
<1>7. ListUnconfirmed
  BY <1>4, <1>5, <1>6 DEF PassStep, PassBegin, ClearReports, DeleteMetrics, CloseStuckRuns, SweepRuns
<1>8. SettleRead(Janitor, "commit", {k \in Keys : Unconfirmed(k)})
  BY <1>4, <1>7 DEF ListUnconfirmed, ListRows
<1> DEFINE own == [step |-> "commit", rows |-> {k \in Keys : Unconfirmed(k)}]
<1>9. call' = [call EXCEPT ![Janitor] = own] /\ own.rows = {k \in Keys : Unconfirmed(k)}
  BY <1>8 DEF SettleRead
<1> HIDE DEF own
<1>10. rows = {k \in Keys : Unconfirmed(k)}
  BY <1>1, <1>3, <1>9, CallValue
<1>11. QED
  BY <1>10 DEF ChargeInv, Unconfirmed

(* The attempt that is at a step from "succeed" to the confirmation.        *)
LEMMA WorkerReports ==
  ASSUME ChargeInv, NEW w \in Workers, Works(w)
  PROVE  /\ produced \subseteq produced'
         /\ Reported(w)'
         /\ \A k \in Keys : runs'[k].status = "succeeded" => k \in produced'
<1>1. /\ AnalysisInv /\ attempt[w] \in Attempt /\ Key(w) \in Keys /\ Reported(w)
      /\ runs \in [Keys -> Run \cup {NoRun}]
      /\ attempt' \in [Workers -> Attempt \cup {Idle}]
      /\ attempt'[w] # Idle => Key(w)' = Key(w)
  BY WorkerMoves, AttemptShape DEF ChargeInv, AnalysisInv, AnalysisTypeOK, Key
<1>2. produced \subseteq produced'
  BY <1>1, WorkerHistory
<1>3. ASSUME attempt'[w].step \in {"succeed", "succeed_write", "confirm", "replay"}
      PROVE  Key(w) \in produced'
  <2>1. CASE Reported(w) /\ attempt[w].step \in {"succeed", "succeed_write", "confirm", "replay"}
    BY <1>2, <2>1 DEF Reported
  <2>2. CASE ModelReports(w)
    BY <2>2 DEF ModelReports
  <2>3. CASE CheckRun(w)
    <3>1. runs[Key(w)].status = "succeeded"
      BY <1>1, <1>3, <2>3 DEF CheckRun, Goto, End, Idle, ChargeInv, AnalysisInv, AttemptInv, Attempt
    <3>2. QED
      BY <1>1, <1>2, <3>1 DEF ChargeInv
  <2>4. CASE /\ attempt[w].step \notin {"succeed", "succeed_write", "confirm", "replay"}
             /\ ~ModelReports(w) /\ ~CheckRun(w)
    <3>1. \/ attempt' = attempt \/ End(w)
          \/ \E step \in {"check", "model", "fail", "fail_write", "release", "releasing", "answer"} :
               \/ Goto(w, step)
               \/ attempt' = [attempt EXCEPT ![w].step = step, ![w].owner = TRUE]
      BY <2>4 DEF Works, At, Reserve, Start, ModelFails, SucceedRead, FailRead, RequireRunning,
                  SucceedWrite, FailWrite, Finish, Confirm, Commit, Release, ReleaseWrite, Answer,
                  Interrupt
    <3>3. attempt \in [Workers -> Attempt \cup {Idle}]
      BY <1>1 DEF AnalysisInv, AttemptInv
    <3>4. CASE End(w)
      BY <1>3, <3>3, <3>4 DEF End, Idle
    <3>5. ASSUME NEW step \in {"check", "model", "fail", "fail_write", "release", "releasing", "answer"},
                 \/ Goto(w, step)
                 \/ attempt' = [attempt EXCEPT ![w].step = step, ![w].owner = TRUE]
          PROVE  attempt'[w].step = step
      <4>1. \/ attempt' = [attempt EXCEPT ![w] = [attempt[w] EXCEPT !.step = step]]
            \/ attempt' = [attempt EXCEPT ![w] = [attempt[w] EXCEPT !.step = step, !.owner = TRUE]]
        BY <1>1, <3>3, <3>5 DEF Goto, Attempt
      <4>2. \/ attempt'[w] = [attempt[w] EXCEPT !.step = step]
            \/ attempt'[w] = [attempt[w] EXCEPT !.step = step, !.owner = TRUE]
        BY <3>3, <4>1
      <4>3. QED
        BY <1>1, <4>2 DEF Attempt
    <3>6. QED
      BY <1>3, <2>4, <3>1, <3>4, <3>5
  <2>5. QED
    BY <1>1, <2>1, <2>2, <2>3, <2>4
<1>4. Reported(w)'
  BY <1>1, <1>3 DEF Reported, Idle
<1>5. \A k \in Keys : runs'[k].status = "succeeded" => k \in produced'
  <2>1. SUFFICES ASSUME NEW k \in Keys, runs'[k].status = "succeeded" PROVE k \in produced
    BY <1>2
  <2>2. CASE runs'[k] = runs[k]
    BY <2>1, <2>2 DEF ChargeInv
  <2>3. CASE runs'[k] # runs[k]
    <3>1. SucceedWrite(w) /\ k = Key(w)
      BY <1>1, <2>1, <2>3, WorkerRuns
    <3>2. QED
      BY <1>1, <3>1 DEF SucceedWrite, Finish, At, Reported
  <2>4. QED
    BY <2>2, <2>3
<1>6. QED
  BY <1>2, <1>4, <1>5

LEMMA ChargeStays == ChargeInv /\ [AnalysisNext]_analysisVars => ChargeInv'
<1> SUFFICES ASSUME ChargeInv, [AnalysisNext]_analysisVars PROVE ChargeInv'
  OBVIOUS
<1>1. AnalysisInv /\ AnalysisInv' /\ AttemptInv /\ TypeInv /\ [Next]_vars
  BY AnalysisStays, StepIsAuthorizers DEF ChargeInv, AnalysisInv
<1> DEFINE Confirmed(s) == call[s].step = "commit" => call[s].rows \subseteq produced
           Succeeded == \A k \in Keys : runs[k].status = "succeeded" => k \in produced
<1>2. SUFFICES /\ produced \subseteq produced'
               /\ Succeeded' /\ (\A s \in Sessions : Confirmed(s)') /\ \A w \in Workers : Reported(w)'
  <2>1. ASSUME produced \subseteq produced' PROVE ChargedForReport'
    <3>1. SUFFICES ASSUME NEW k \in Keys, res'[k].status = "consumed" PROVE k \in produced
      BY <2>1 DEF ChargedForReport
    <3>2. \/ res[k].status = "consumed"
          \/ \E s \in Sessions : call[s].step = "commit" /\ k \in call[s].rows
      BY <1>1, <3>1, ReservationsStay
    <3>3. QED
      BY <3>2 DEF ChargeInv, ChargedForReport
  <2>2. QED
    BY <1>1, <1>2, <2>1 DEF ChargeInv
<1>3. ASSUME produced \subseteq produced', NEW t \in Sessions, call'[t] = call[t]
      PROVE  Confirmed(t)'
  BY <1>3 DEF ChargeInv
<1>4. ASSUME produced \subseteq produced', NEW v \in Workers, attempt'[v] = attempt[v]
      PROVE  Reported(v)'
  BY <1>4 DEF ChargeInv, Reported, Key
(* A session that did not settle anything new confirms what it did before.  *)
<1>5. ASSUME produced \subseteq produced', NEW s \in Sessions, UNCHANGED vars \/ SessionStep(s),
             \A rows : SettleRead(s, "commit", rows) => rows \subseteq produced
      PROVE  \A t \in Sessions : Confirmed(t)'
  <2>1. \A t \in Sessions : t # s => call'[t] = call[t]
    BY <1>1, <1>5, OneSessionMoves
  <2>2. Confirmed(s)'
    BY <1>1, <1>5, SettlingCalls DEF ChargeInv
  <2>3. QED
    BY <1>3, <1>5, <2>1, <2>2
<1>6. ASSUME NEW w \in Workers, Works(w)
      PROVE  /\ produced \subseteq produced'
             /\ Succeeded' /\ (\A s \in Sessions : Confirmed(s)') /\ \A v \in Workers : Reported(v)'
  <2>1. produced \subseteq produced' /\ Reported(w)' /\ Succeeded'
    BY <1>6, WorkerReports
  <2>2. \A v \in Workers : v # w => attempt'[v] = attempt[v]
    BY <1>1, <1>6, WorkerMoves
  <2>3. \A v \in Workers : Reported(v)'
    BY <1>4, <2>1, <2>2
  <2>4. \A s \in Sessions : Confirmed(s)'
    BY <1>1, <1>5, <1>6, <2>1, WorkersAreSessions, WorkerIsSession, WorkerConfirmsReports
  <2>5. QED
    BY <2>1, <2>3, <2>4
<1>7. ASSUME NEW w \in Workers, NEW r \in Requests, Begin(w, r)
      PROVE  /\ produced \subseteq produced'
             /\ Succeeded' /\ (\A s \in Sessions : Confirmed(s)') /\ \A v \in Workers : Reported(v)'
  <2>1. /\ UNCHANGED <<call, runs, produced>> /\ At(w, "reserve")'
        /\ \A v \in Workers : v # w => attempt'[v] = attempt[v]
    BY <1>1, <1>7, BeginMoves DEF vars, record
  <2>2. Reported(w)'
    BY <2>1 DEF Reported, At
  <2>3. QED
    BY <1>3, <1>4, <2>1, <2>2 DEF ChargeInv
<1>8. CASE PassStep \/ PassBreaks
  <2>1. /\ produced' = produced /\ attempt' = attempt /\ (UNCHANGED vars \/ SessionStep(Janitor))
        /\ \A k \in Keys : runs'[k].status \in {runs[k].status, "failed", "none"}
    BY <1>1, <1>8, PassRuns, PassIsSession
  <2>2. \A s \in Sessions : Confirmed(s)'
    BY <1>5, <1>8, <2>1, WorkersAreSessions, PassConfirmsReports
  <2>3. QED
    BY <1>4, <2>1, <2>2 DEF ChargeInv
<1>9. CASE ProcessCrash
  <2>1. /\ UNCHANGED <<runs, produced>> /\ \A w \in Workers : attempt'[w] = Idle
        /\ \A s \in Sessions : call'[s] = Idle
    BY <1>9 DEF ProcessCrash, Crash
  <2>2. QED
    BY <2>1 DEF ChargeInv, Reported, Idle
<1>10. CASE Meanwhile \/ UNCHANGED analysisVars
  <2>1. UNCHANGED <<attempt, call, runs, produced>>
    BY <1>10 DEF Meanwhile, Tick, AdminWrite, CreateBatch, UpdateExpiry, UpdatePolicy, AdminStep,
                EditRead, GrantWrite, RevokeWrite, AbandonEdit, analysisVars, vars, record
  <2>2. QED
    BY <1>3, <1>4, <2>1 DEF ChargeInv
<1>11. QED
  BY <1>6, <1>7, <1>8, <1>9, <1>10, StepKinds

(* A use is only ever charged for a report that the model produced, however  *)
(* requests, retries, crashes, retention passes and administrators           *)
(* interleave (control_plane.py:206-216, retention.py:262-276).             *)
THEOREM ChargesHaveReports == AnalysisSpec => []ChargedForReport
<1>1. AnalysisInit => ChargeInv
  BY AnalysisStarts
  DEF AnalysisInit, Init, ChargeInv, ChargedForReport, Reported, NoReservation, NoRun, Idle
<1>2. ChargeInv => ChargedForReport
  BY DEF ChargeInv
<1>3. QED
  BY <1>1, <1>2, ChargeStays, PTL DEF AnalysisSpec

-----------------------------------------------------------------------------
(* Ages.  A run is deleted by its age, a reservation is released by its own; *)
(* the run of a reservation that has not expired is not old enough, as long  *)
(* as no attempt stays open for the time that metrics are kept.  The         *)
(* timeouts of the model calls see to that: it is days against minutes       *)
(* (rag_context.py:76-81, rag_analysis.py:63-73).                           *)

PromptAttempts ==
  \A w \in Workers : attempt[w] # Idle => clock + TTL <= attempt[w].started + MetricsAge

Lapsed(k) == res[k].expires <= clock

KeyAges(k) ==
  /\ res[k] # NoReservation => res[k].expires <= clock + TTL
  /\ runs[k] # NoRun =>
       res[k] # NoReservation /\ res[k].expires <= runs[k].started + MetricsAge

PassAges ==
  /\ pass # Idle => pass.now <= clock
  /\ call[Janitor].step = "release" =>
       \A k \in call[Janitor].rows : res[k] # NoReservation /\ Lapsed(k)

AgesInv ==
  /\ ExecutionInv /\ ClaimsPast
  /\ \A k \in Keys : KeyAges(k)
  /\ PassAges

(* A row that appears is a claim, made no later than now.                   *)
LEMMA NewReservation ==
  ASSUME TypeInv, ClaimsPast, [Next]_vars, NEW k \in Keys,
         res[k] = NoReservation, res'[k] # NoReservation
  PROVE  /\ res'[k].status = "reserved" /\ res'[k].expires \in Nat
         /\ res'[k].expires <= clock + TTL
<1>1. res \in [Keys -> ReservationRow \cup {NoReservation}] /\ NoReservation \notin ReservationRow
      /\ clock \in Nat /\ TTL \in Nat
  BY TimeAssumption DEF TypeInv, TypeOK, ReservationRow, NoReservation
<1>2. ~\E s \in Sessions, j \in Keys : CommitRow(s, j) \/ ReleaseRow(s, j)
  <2> SUFFICES ASSUME NEW s \in Sessions, NEW j \in Keys, CommitRow(s, j) \/ ReleaseRow(s, j)
               PROVE  FALSE
    OBVIOUS
  <2>1. res[j] \in ReservationRow /\ \E row : res' = [res EXCEPT ![j] = row]
    BY SettledRow DEF CommitRow, ReleaseRow, SettleRow
  <2>2. QED
    BY <1>1, <2>1
<1>3. PICK s \in Sessions : ReserveInsert(s)
  BY <1>2, ReservationSteps
<1> DEFINE row == [status |-> "reserved", code |-> ChargedCode(call[s]), request |-> call[s].request,
                   expires |-> call[s].now + TTL, updated |-> clock]
<1>4. call[s] \in Claiming /\ call[s].now \in Nat /\ call[s].now <= clock
  BY <1>3, CallShapes DEF ReserveInsert, ClaimsPast, Claiming
<1>5. row.status = "reserved" /\ row.expires \in Nat /\ row.expires <= clock + TTL
  BY <1>1, <1>4
<1>6. res' = [res EXCEPT ![call[s].request.key] = row]
  BY <1>3 DEF ReserveInsert
<1> HIDE DEF row
<1>7. QED
  BY <1>1, <1>5, <1>6

LEMMA ClockGoesOn ==
  ASSUME TypeInv, [Next]_vars
  PROVE  clock \in Nat /\ clock' \in Nat /\ clock <= clock'
<1>1. clock \in Nat /\ clock' \in Nat
  BY TypeInvStep, TimeAssumption DEF TypeInv, TypeOK
<1>2. clock' = clock \/ clock' >= clock
  BY ReservationSteps DEF ReserveInsert, CommitRow, ReleaseRow, SettleRow
<1>3. QED
  BY <1>1, <1>2

(* What the retention pass does to the age of a run.                        *)
LEMMA SweptAges ==
  ASSUME AnalysisInv, PassStep \/ PassBreaks, NEW k \in Keys
  PROVE  /\ runs[k] = NoRun => runs'[k] = NoRun
         /\ runs'[k] # NoRun => runs'[k].started = runs[k].started
         /\ runs[k] # NoRun /\ runs'[k] = NoRun =>
              pass # Idle /\ runs[k].started < pass.now - MetricsAge
         /\ runs'[k] # NoRun => runs'[k].status \in {runs[k].status, "failed"}
<1>1. runs \in [Keys -> Run \cup {NoRun}] /\ NoRun \notin Run
  BY DEF AnalysisInv, AnalysisTypeOK, Run, NoRun
<1>2. ASSUME NEW run \in Run
      PROVE  /\ Cleared(run) \in Run /\ Cleared(run).started = run.started
             /\ Cleared(run).status = run.status
             /\ Closed(run) \in Run /\ Closed(run).started = run.started
             /\ Closed(run).status \in {run.status, "failed"}
  <2>1. /\ Cleared(run) \in {run, [run EXCEPT !.report = FALSE]}
        /\ Closed(run) \in {run, [run EXCEPT !.status = "failed"]}
    BY DEF Cleared, Closed
  <2>2. QED
    BY <2>1 DEF Run
<1>3. /\ Cleared(NoRun) = NoRun /\ Closed(NoRun) = NoRun /\ Deleted(NoRun) = NoRun
  BY DEF Cleared, Closed, Deleted, Aged
<1>4. CASE ClearReports
  <2>1. runs' = [j \in Keys |-> Cleared(runs[j])]
    BY <1>4 DEF ClearReports, SweepRuns
  <2>2. QED
    BY <1>1, <1>2, <1>3, <2>1
<1>5. CASE CloseStuckRuns
  <2>1. runs' = [j \in Keys |-> Closed(runs[j])]
    BY <1>5 DEF CloseStuckRuns, SweepRuns
  <2>2. QED
    BY <1>1, <1>2, <1>3, <2>1
<1>6. CASE DeleteMetrics
  <2>1. runs'[k] = Deleted(runs[k]) /\ pass # Idle
    BY <1>1, <1>6 DEF DeleteMetrics, SweepRuns, PassAt, Idle
  <2>2. QED
    BY <1>1, <2>1 DEF Deleted, Aged
<1>7. CASE runs' = runs
  BY <1>7
<1>8. QED
  BY <1>4, <1>5, <1>6, <1>7 DEF PassStep, PassBreaks, PassBegin, record, ListExpired,
     ListUnconfirmed, ListRows, ReleaseExpired, Reconcile, SettleListed

LEMMA RunStarts ==
  ASSUME AnalysisInv, [AnalysisNext]_analysisVars, NEW k \in Keys, runs'[k] # NoRun
  PROVE  \/ runs[k] # NoRun /\ runs'[k].started = runs[k].started
         \/ \E w \in Workers : /\ At(w, "start") /\ Key(w) = k
                              /\ runs'[k].started = attempt[w].started
<1>1. runs \in [Keys -> Run \cup {NoRun}] /\ AttemptInv
  BY DEF AnalysisInv, AnalysisTypeOK
<1>2. ASSUME NEW w \in Workers, Works(w)
      PROVE  \/ runs[k] # NoRun /\ runs'[k].started = runs[k].started
             \/ At(w, "start") /\ Key(w) = k /\ runs'[k].started = attempt[w].started
  <2>1. CASE runs'[k] = runs[k]
    BY <2>1
  <2>2. CASE Start(w) /\ runs'[k] # runs[k]
    <3> DEFINE run == [status |-> "running", report |-> FALSE, started |-> attempt[w].started]
    <3>1. runs' = [runs EXCEPT ![Key(w)] = run] /\ run.started = attempt[w].started /\ At(w, "start")
      BY <2>2 DEF Start
    <3> HIDE DEF run
    <3>2. QED
      BY <1>1, <2>2, <3>1
  <2>3. ASSUME NEW step, NEW status \in {"succeeded", "failed"}, NEW report, NEW next,
               Finish(w, step, status, report, next), runs'[k] # runs[k]
        PROVE  runs[k] # NoRun /\ runs'[k].started = runs[k].started
    <3>1. /\ runs[Key(w)] # NoRun
          /\ runs' = [runs EXCEPT ![Key(w)] = [runs[Key(w)] EXCEPT !.status = status, !.report = report]]
      BY <2>3 DEF Finish
    <3>2. k = Key(w) /\ runs[k] \in Run
      BY <1>1, <2>3, <3>1
    <3>3. runs'[k] = [runs[k] EXCEPT !.status = status, !.report = report]
      BY <1>1, <3>1, <3>2
    <3>4. QED
      BY <3>2, <3>3, <3>1 DEF Run
  <2>4. CASE SucceedWrite(w) \/ FailWrite(w)
    BY <2>1, <2>3, <2>4 DEF SucceedWrite, FailWrite
  <2>5. QED
    BY <1>2, <2>1, <2>2, <2>4, WorkerRuns
<1>3. CASE PassStep \/ PassBreaks
  BY <1>3, SweptAges
<1>4. CASE runs' = runs
  BY <1>4
<1>5. QED
  BY <1>2, <1>3, <1>4, StepKinds DEF Begin, ProcessCrash, Meanwhile, record, analysisVars

(* What the pass will release has expired.                                  *)
LEMMA PassReleasesLapsed ==
  ASSUME AgesInv, PassStep \/ PassBreaks, NEW rows, SettleRead(Janitor, "release", rows)
  PROVE  \A k \in rows : k \in Keys /\ res[k] # NoReservation /\ Lapsed(k)
<1>1. TypeInv /\ Janitor \in Sessions
  BY WorkersAreSessions DEF AgesInv, ExecutionInv, AnalysisInv
<1>2. call[Janitor] = Idle
  BY DEF SettleRead
<1> DEFINE new == [step |-> "release", rows |-> rows]
<1>3. call'[Janitor] = new /\ new.step = "release" /\ new.rows = rows
  <2>1. call' = [call EXCEPT ![Janitor] = new] /\ new.step = "release" /\ new.rows = rows
    BY DEF SettleRead
  <2> HIDE DEF new
  <2>2. QED
    BY <1>1, <2>1, CallValue
<1> HIDE DEF new
<1>4. ~UNCHANGED vars
  BY <1>2, <1>3 DEF vars, Idle
<1>5. ~ReleaseExpired /\ ~Reconcile /\ ~PassBreaks
  BY <1>2, <1>4 DEF ReleaseExpired, Reconcile, SettleListed, CommitRow, ReleaseRow, SettleRow,
                    SettleFail, PassBreaks, Abandon, Idle
<1>6. ~ListUnconfirmed
  <2>1. ASSUME ListUnconfirmed PROVE call'[Janitor].step = "commit"
    <3>1. SettleRead(Janitor, "commit", {k \in Keys : Unconfirmed(k)})
      BY <1>4, <2>1 DEF ListUnconfirmed, ListRows
    <3> DEFINE other == [step |-> "commit", rows |-> {k \in Keys : Unconfirmed(k)}]
    <3>2. call' = [call EXCEPT ![Janitor] = other] /\ other.step = "commit"
      BY <3>1 DEF SettleRead
    <3> HIDE DEF other
    <3>3. QED
      BY <1>1, <3>2, CallValue
  <2>2. QED
    BY <1>3, <2>1
<1>7. ListExpired
  BY <1>4, <1>5, <1>6 DEF PassStep, PassBegin, ClearReports, DeleteMetrics, CloseStuckRuns, SweepRuns
<1>8. SettleRead(Janitor, "release", {k \in Keys : Expired(k)}) /\ pass # Idle
  BY <1>4, <1>7 DEF ListExpired, ListRows, PassAt, Idle
<1> DEFINE own == [step |-> "release", rows |-> {k \in Keys : Expired(k)}]
<1>9. call' = [call EXCEPT ![Janitor] = own] /\ own.rows = {k \in Keys : Expired(k)}
  BY <1>8 DEF SettleRead
<1> HIDE DEF own
<1>10. rows = {k \in Keys : Expired(k)}
  BY <1>1, <1>3, <1>9, CallValue
<1>11. pass.now <= clock /\ pass.now \in Nat /\ clock \in Nat
  BY <1>8 DEF AgesInv, PassAges, ExecutionInv, AnalysisInv, AttemptInv, AnalysisTypeOK, Pass
<1>12. ASSUME NEW k \in Keys, Expired(k) PROVE res[k] # NoReservation /\ Lapsed(k)
  <2>1. res[k] # NoReservation
    BY <1>12 DEF Expired, NoReservation
  <2>2. res[k].expires \in Nat
    BY <1>1, <2>1 DEF TypeInv, TypeOK, ReservationRow
  <2>3. QED
    BY <1>11, <1>12, <2>1, <2>2 DEF Expired, Lapsed
<1>13. QED
  BY <1>10, <1>12

LEMMA PassAgesStay ==
  ASSUME AgesInv, [AnalysisNext]_analysisVars
  PROVE  PassAges'
<1>1. /\ AnalysisInv /\ TypeInv /\ AttemptInv /\ [Next]_vars /\ TypeInv'
      /\ clock \in Nat /\ clock' \in Nat /\ clock <= clock'
      /\ Janitor \in Sessions
  BY StepIsAuthorizers, TypeInvStep, ClockGoesOn, WorkersAreSessions
  DEF AgesInv, ExecutionInv, AnalysisInv
<1>2. pass' # Idle => pass'.now <= clock'
  <2>1. CASE pass' = pass
    BY <1>1, <2>1 DEF AgesInv, PassAges, AnalysisInv, AnalysisTypeOK, Pass
  <2>2. CASE PassBegin
    BY <1>1, <2>2 DEF PassBegin
  <2>3. CASE \E step \in PassSteps : pass' = [pass EXCEPT !.step = step] /\ pass # Idle
    <3>1. pass \in Pass
      BY <2>3 DEF AgesInv, ExecutionInv, AnalysisInv, AnalysisTypeOK
    <3>2. pass'.now = pass.now /\ pass.now \in Nat
      BY <2>3, <3>1 DEF Pass
    <3>3. QED
      BY <1>1, <2>3, <3>2 DEF AgesInv, PassAges
  <2>4. CASE pass' = Idle
    BY <2>4
  <2>5. CASE PassStep /\ ~PassBegin
    <3>1. pass # Idle
      BY <2>5 DEF PassStep, ClearReports, DeleteMetrics, CloseStuckRuns, SweepRuns, ListExpired,
                  ListUnconfirmed, ListRows, ReleaseExpired, Reconcile, SettleListed, PassAt, Idle
    <3>2. \/ pass' = pass \/ pass' = Idle
          \/ \E step \in PassSteps : pass' = [pass EXCEPT !.step = step]
      BY <2>5 DEF PassStep, ClearReports, DeleteMetrics, CloseStuckRuns, SweepRuns, ListExpired,
                  ListUnconfirmed, ListRows, ReleaseExpired, Reconcile, SettleListed, PassTo,
                  ToReconcile, PassSteps
    <3>3. QED
      BY <2>1, <2>3, <2>4, <3>1, <3>2
  <2>6. QED
    BY <1>1, <2>1, <2>2, <2>4, <2>5, StepKinds, WorkerMoves, BeginMoves
    DEF PassBreaks, ProcessCrash, Meanwhile, analysisVars
<1>3. ASSUME call'[Janitor].step = "release", NEW k \in call'[Janitor].rows
      PROVE  res'[k] # NoReservation /\ Lapsed(k)'
  <2>1. ASSUME k \in Keys, res[k] # NoReservation, Lapsed(k)
        PROVE  res'[k] # NoReservation /\ Lapsed(k)'
    <3>1. res'[k] # NoReservation /\ res'[k].expires = res[k].expires
      BY <1>1, <2>1, ReservationsStay
    <3>2. res[k].expires \in Nat
      BY <1>1, <2>1 DEF TypeInv, TypeOK, ReservationRow
    <3>3. QED
      BY <1>1, <2>1, <3>1, <3>2 DEF Lapsed
  <2>2. CASE call[Janitor].step = "release" /\ k \in call[Janitor].rows
    <3>1. call[Janitor] \in Settling
      BY <1>1, <2>2, CallShapes
    <3>2. k \in Keys
      BY <2>2, <3>1 DEF Settling
    <3>3. QED
      BY <2>1, <2>2, <3>2 DEF AgesInv, PassAges
  <2>3. CASE \E w \in Workers : Works(w)
    <3>1. call'[Janitor] = call[Janitor]
      BY <1>1, <2>3, WorkerIsSession, OneSessionMoves, WorkersAreSessions
    <3>2. QED
      BY <1>3, <2>2, <3>1
  <2>4. CASE PassStep \/ PassBreaks
    <3>1. UNCHANGED vars \/ SessionStep(Janitor)
      BY <1>1, <2>4, PassIsSession
    <3>2. \/ call[Janitor].step = "release" /\ call'[Janitor].rows \subseteq call[Janitor].rows
          \/ SettleRead(Janitor, "release", call'[Janitor].rows)
      BY <1>1, <1>3, <3>1, SettlingCalls
    <3>3. CASE SettleRead(Janitor, "release", call'[Janitor].rows)
      BY <1>3, <2>1, <2>4, <3>3, PassReleasesLapsed
    <3>4. QED
      BY <1>3, <2>2, <3>2, <3>3
  <2>5. CASE ProcessCrash
    BY <1>1, <1>3, <2>5 DEF ProcessCrash, Crash, Idle
  <2>6. CASE \/ \E w \in Workers, r \in Requests : Begin(w, r)
             \/ Meanwhile \/ UNCHANGED analysisVars
    <3>1. call' = call
      BY <2>6 DEF Begin, Meanwhile, Tick, AdminWrite, CreateBatch, UpdateExpiry, UpdatePolicy,
                  AdminStep, EditRead, GrantWrite, RevokeWrite, AbandonEdit, analysisVars, vars
    <3>2. QED
      BY <1>3, <2>2, <3>1
  <2>7. QED
    BY <2>3, <2>4, <2>5, <2>6, StepKinds
<1>4. QED
  BY <1>2, <1>3 DEF PassAges

LEMMA AgesStay ==
  ASSUME AgesInv, PromptAttempts, [AnalysisNext]_analysisVars
  PROVE  AgesInv'
<1>1. /\ AnalysisInv /\ TypeInv /\ AttemptInv /\ [Next]_vars /\ TypeInv' /\ AnalysisInv'
      /\ clock \in Nat /\ clock' \in Nat /\ clock <= clock'
      /\ TTL \in Nat /\ MetricsAge \in Nat
  BY StepIsAuthorizers, TypeInvStep, AnalysisStays, ClockGoesOn, TimeAssumption, AgesAssumption
  DEF AgesInv, ExecutionInv, AnalysisInv
<1>2. ExecutionInv' /\ ClaimsPast' /\ PassAges'
  BY <1>1, ExecutionStays, ClaimsStayPast, PassAgesStay DEF AgesInv
<1>3. ASSUME NEW k \in Keys PROVE KeyAges(k)'
  <2>1. res'[k] # NoReservation => res'[k].expires <= clock' + TTL
    <3>1. CASE res[k] # NoReservation
      <4>1. res'[k].expires = res[k].expires /\ res[k].expires <= clock + TTL
        BY <1>1, <3>1, ReservationsStay DEF AgesInv, KeyAges
      <4>2. res[k].expires \in Nat
        BY <1>1, <3>1 DEF TypeInv, TypeOK, ReservationRow
      <4>3. QED
        BY <1>1, <4>1, <4>2
    <3>2. CASE res[k] = NoReservation /\ res'[k] # NoReservation
      <4>1. res'[k].expires <= clock + TTL /\ res'[k].expires \in Nat
        BY <1>1, <3>2, NewReservation DEF AgesInv
      <4>2. QED
        BY <1>1, <4>1
    <3>3. QED
      BY <3>1, <3>2
  <2>2. ASSUME runs'[k] # NoRun
        PROVE  res'[k] # NoReservation /\ res'[k].expires <= runs'[k].started + MetricsAge
    <3>1. res[k] # NoReservation /\ res[k].expires <= runs'[k].started + MetricsAge
      <4>1. CASE runs[k] # NoRun /\ runs'[k].started = runs[k].started
        BY <4>1 DEF AgesInv, KeyAges
      <4>2. ASSUME NEW w \in Workers, At(w, "start"), Key(w) = k,
                   runs'[k].started = attempt[w].started
            PROVE  res[k] # NoReservation /\ res[k].expires <= runs'[k].started + MetricsAge
        <5>1. attempt[w] # Idle /\ ~At(w, "reserve")
          BY <4>2 DEF At, Idle
        <5>2. res[k] # NoReservation /\ res[k].expires <= clock + TTL
          BY <4>2, <5>1 DEF AgesInv, ExecutionInv, HoldsReservation, KeyAges
        <5>3. clock + TTL <= attempt[w].started + MetricsAge
          BY <5>1 DEF PromptAttempts
        <5>4. res[k].expires \in Nat /\ attempt[w].started \in Nat
          BY <1>1, <5>1, <5>2, AttemptShape DEF TypeInv, TypeOK, ReservationRow, Attempt
        <5>5. QED
          BY <1>1, <4>2, <5>2, <5>3, <5>4
      <4>3. QED
        BY <1>1, <2>2, <4>1, <4>2, RunStarts
    <3>2. QED
      BY <1>1, <3>1, ReservationsStay
  <2>3. QED
    BY <2>1, <2>2 DEF KeyAges
<1>4. QED
  BY <1>2, <1>3 DEF AgesInv

-----------------------------------------------------------------------------
(* Returns.  A use goes back early only when its run has failed, and whoever *)
(* holds a report has paid for it.                                          *)

ReturnedEarly(k) == res[k].status = "released" /\ ~Lapsed(k)
Paid(k) == res[k].status = "consumed" \/ Lapsed(k)

Cleaning == {"fail", "fail_write", "release", "releasing"}
Running == {"start", "model", "succeed", "succeed_write", "replay"}

(* What an attempt relies on at each step: only the owner cleans up, it does *)
(* so for a run that did not succeed and a report that nobody has, and no    *)
(* attempt runs on a use that was returned early.                           *)
Careful(w) ==
  /\ At(w, "reserve") => ~attempt[w].owner
  /\ attempt[w].step \in Cleaning => attempt[w].owner
  /\ attempt[w].step \in Running => ~ReturnedEarly(Key(w))
  /\ attempt[w].step \in {"check", "start", "model", "fail"} /\ attempt[w].owner =>
       runs[Key(w)].status # "succeeded"
  /\ attempt[w].step \in {"release", "releasing"} =>
       runs[Key(w)].status = "failed" \/ Lapsed(Key(w))
  /\ At(w, "answer") => Paid(Key(w))
  /\ attempt[w].step \in {"check", "start", "model"} \cup Cleaning /\ attempt[w].owner =>
       Key(w) \notin answered

Settled(k) ==
  /\ ReturnedEarly(k) => runs[k].status = "failed"
  /\ k \in answered => res[k] # NoReservation /\ Paid(k)

ReturnInv ==
  AgesInv /\ (\A w \in Workers : Careful(w)) /\ \A k \in Keys : Settled(k)

(* What others do to a key: its run may fail or its use be paid; all else    *)
(* waits until the reservation has expired.                                 *)
Calm(k) ==
  /\ k \in answered' => k \in answered
  /\ runs'[k].status = "succeeded" => runs[k].status = "succeeded"
  /\ res[k] # NoReservation /\ ~Lapsed(k) =>
       /\ res'[k].status \in {res[k].status, "consumed"}
       /\ runs'[k].status \in {runs[k].status, "failed"}

LEMMA LapsedStays ==
  ASSUME TypeInv, [Next]_vars, NEW k \in Keys, res[k] # NoReservation
  PROVE  res'[k] # NoReservation /\ (Lapsed(k) => Lapsed(k)')
<1>1. res'[k] # NoReservation /\ res'[k].expires = res[k].expires
  BY ReservationsStay
<1>2. res[k].expires \in Nat
  BY DEF TypeInv, TypeOK, ReservationRow
<1>3. QED
  BY <1>1, <1>2, ClockGoesOn DEF Lapsed

LEMMA CalmKeySettled ==
  ASSUME ReturnInv, [Next]_vars, NEW k \in Keys, Calm(k)
  PROVE  Settled(k)'
<1>1. TypeInv /\ ClaimsPast /\ Settled(k)
  BY DEF ReturnInv, AgesInv, ExecutionInv, AnalysisInv
<1>2. CASE res[k] = NoReservation
  <2>1. k \notin answered'
    BY <1>1, <1>2 DEF Settled, Calm
  <2>2. res'[k].status # "released"
    BY <1>1, <1>2, NewReservation DEF NoReservation
  <2>3. QED
    BY <2>1, <2>2 DEF Settled, ReturnedEarly
<1>3. CASE res[k] # NoReservation
  <2>1. res'[k] # NoReservation /\ (Lapsed(k) => Lapsed(k)')
    BY <1>1, <1>3, LapsedStays
  <2>2. CASE Lapsed(k)
    BY <2>1, <2>2 DEF Settled, ReturnedEarly, Paid
  <2>3. CASE ~Lapsed(k)
    BY <1>1, <1>3, <2>1, <2>3 DEF Settled, ReturnedEarly, Paid, Calm
  <2>4. QED
    BY <2>2, <2>3
<1>4. QED
  BY <1>2, <1>3

LEMMA CalmAttemptCareful ==
  ASSUME ReturnInv, [Next]_vars, NEW v \in Workers, attempt'[v] = attempt[v],
         attempt[v] # Idle /\ ~At(v, "reserve") => Calm(Key(v))
  PROVE  Careful(v)'
<1>1. TypeInv /\ AttemptInv /\ Careful(v) /\ Key(v)' = Key(v)
  BY DEF ReturnInv, AgesInv, ExecutionInv, AnalysisInv, Key
<1>2. CASE attempt[v] = Idle \/ At(v, "reserve")
  BY <1>1, <1>2 DEF Careful, At, Idle, Cleaning, Running
<1>3. CASE attempt[v] # Idle /\ ~At(v, "reserve")
  <2>1. PICK k \in Keys : k = Key(v)
    BY <1>1, <1>3, AttemptShape
  <2>2. res[k] # NoReservation /\ Calm(k)
    BY <1>3, <2>1 DEF ReturnInv, AgesInv, ExecutionInv, HoldsReservation
  <2>3. Lapsed(k) => Lapsed(k)'
    BY <1>1, <2>2, LapsedStays
  <2>4. /\ ~ReturnedEarly(k) => ~ReturnedEarly(k)'
        /\ Paid(k) => Paid(k)'
        /\ runs[k].status = "failed" \/ Lapsed(k) => runs'[k].status = "failed" \/ Lapsed(k)'
        /\ runs[k].status # "succeeded" => runs'[k].status # "succeeded"
        /\ k \notin answered => k \notin answered'
    BY <2>2, <2>3 DEF Calm, ReturnedEarly, Paid
  <2>5. Key(v)' = k
    BY <1>1, <2>1
  <2>6. QED
    BY <1>1, <2>1, <2>4, <2>5 DEF Careful, At
<1>4. QED
  BY <1>2, <1>3

(* Where an attempt goes.                                                   *)
LEMMA Gone ==
  ASSUME AttemptInv, NEW w \in Workers, attempt[w] # Idle
  PROVE  /\ \A step : Goto(w, step) =>
              /\ attempt'[w].step = step /\ attempt'[w].owner = attempt[w].owner
              /\ Key(w)' = Key(w)
         /\ attempt' = [attempt EXCEPT ![w].step = "check", ![w].owner = TRUE] =>
              At(w, "check")' /\ Key(w)' = Key(w)
         /\ End(w) => attempt'[w] = Idle
<1>1. attempt[w] \in Attempt /\ attempt \in [Workers -> Attempt \cup {Idle}]
  BY AttemptShape DEF AttemptInv
<1>2. ASSUME NEW step
      PROVE  /\ [attempt[w] EXCEPT !.step = step].step = step
             /\ [attempt[w] EXCEPT !.step = step].owner = attempt[w].owner
             /\ [attempt[w] EXCEPT !.step = step].request = attempt[w].request
             /\ [attempt[w] EXCEPT !.step = step, !.owner = TRUE].step = step
             /\ [attempt[w] EXCEPT !.step = step, !.owner = TRUE].request = attempt[w].request
  BY <1>1 DEF Attempt
<1>3. ASSUME NEW step, Goto(w, step)
      PROVE  /\ attempt'[w].step = step /\ attempt'[w].owner = attempt[w].owner
             /\ Key(w)' = Key(w)
  <2>1. attempt'[w] = [attempt[w] EXCEPT !.step = step]
    BY <1>1, <1>3 DEF Goto
  <2>2. QED
    BY <1>2, <2>1 DEF Key
<1>4. ASSUME attempt' = [attempt EXCEPT ![w].step = "check", ![w].owner = TRUE]
      PROVE  At(w, "check")' /\ Key(w)' = Key(w)
  <2>1. attempt'[w] = [attempt[w] EXCEPT !.step = "check", !.owner = TRUE]
    BY <1>1, <1>4
  <2>2. QED
    BY <1>2, <2>1 DEF Key, At
<1>5. End(w) => attempt'[w] = Idle
  BY <1>1 DEF End
<1>6. QED
  BY <1>3, <1>4, <1>5

LEMMA IdleIsCareful ==
  ASSUME NEW w \in Workers, attempt'[w] = Idle
  PROVE  Careful(w)'
BY DEF Careful, At, Idle, Cleaning, Running

(* A settlement as the reservation sees it.                                 *)
LEMMA SettledStatus ==
  ASSUME TypeInv, NEW s \in Sessions, NEW k \in Keys
  PROVE  /\ CommitRow(s, k) => res'[k].status = "consumed"
         /\ ReleaseRow(s, k) => res'[k].status = "released"
         /\ CommitRow(s, k) \/ ReleaseRow(s, k) =>
              /\ res[k] # NoReservation /\ clock' = clock
              /\ \A j \in Keys : j # k => res'[j] = res[j]
<1>1. ASSUME NEW op, NEW status, NEW newCode(_), SettleRow(s, k, op, status, newCode),
             res[k] \in ReservationRow
      PROVE  /\ res'[k].status = status /\ res[k] # NoReservation /\ clock' = clock
             /\ \A j \in Keys : j # k => res'[j] = res[j]
  <2>1. res' = [res EXCEPT ![k] = [res[k] EXCEPT !.status = status, !.updated = clock]]
    BY <1>1 DEF SettleRow
  <2>2. [res[k] EXCEPT !.status = status, !.updated = clock].status = status
    BY <1>1 DEF ReservationRow
  <2>3. QED
    BY <1>1, <2>1, <2>2 DEF TypeInv, TypeOK, SettleRow, ReservationRow, NoReservation
<1>2. CommitRow(s, k) \/ ReleaseRow(s, k) => res[k] \in ReservationRow
  BY SettledRow
<1>3. QED
  BY <1>1, <1>2 DEF CommitRow, ReleaseRow

(* What a worker's steps leave alone.                                       *)
LEMMA WorkerFrame ==
  ASSUME ReturnInv, NEW w \in Workers, Works(w)
  PROVE  /\ clock' = clock
         /\ \A k \in Keys : k # Key(w) => res'[k] = res[k] /\ runs'[k] = runs[k]
         /\ answered' \subseteq answered \cup {Key(w)}
         /\ At(w, "reserve") /\ res[Key(w)] # NoReservation =>
              UNCHANGED <<res, runs, answered>>
<1>1. /\ TypeInv /\ AttemptInv /\ AnalysisInv /\ w \in Sessions /\ Key(w) \in Keys
      /\ call[w].step \in {"lookup", "insert"} => call[w].request = attempt[w].request
      /\ runs \in [Keys -> Run \cup {NoRun}]
      /\ res \in [Keys -> ReservationRow \cup {NoReservation}]
  BY WorkersAreSessions, WorkerMoves, AttemptShape
  DEF ReturnInv, AgesInv, ExecutionInv, AnalysisInv, AnalysisTypeOK, ClaimsOwnRequest, TypeInv, TypeOK
<1>2. clock' = clock
  BY <1>1, WorkerIsSession
  DEF vars, SessionStep, ReserveCheck, ReserveLookup, ReserveExisting, ReserveInsert, ReserveReject,
      SettleRead, CommitRow, ReleaseRow, SettleRow, SettleFail, Abandon
<1>3. /\ \A k \in Keys : k # Key(w) => runs'[k] = runs[k]
      /\ answered' \subseteq answered \cup {Key(w)}
  BY <1>1, WorkerRuns, WorkerHistory
<1>4. CASE Reserve(w)
  <2>1. UNCHANGED <<runs, answered>>
    BY <1>4 DEF Reserve, record
  <2>2. CASE ReserveInsert(w)
    <3>1. call[w].request.key = Key(w)
      BY <1>1, <2>2 DEF ReserveInsert, Key
    <3>2. res[Key(w)] = NoReservation /\ \E row : res' = [res EXCEPT ![Key(w)] = row]
      BY <2>2, <3>1 DEF ReserveInsert
    <3>3. QED
      BY <1>1, <1>2, <1>3, <3>2
  <2>3. CASE ~ReserveInsert(w)
    <3>1. res' = res
      BY <1>4, <2>3 DEF Reserve, ReserveCheck, ReserveLookup, ReserveExisting, ReserveReject, vars
    <3>2. QED
      BY <1>2, <1>3, <2>1, <3>1
  <2>4. QED
    BY <2>2, <2>3
<1>5. CASE Interrupt(w)
  BY <1>2, <1>3, <1>5 DEF Interrupt, Abandon, record, vars
<1>6. CASE ~Reserve(w) /\ ~Interrupt(w)
  <2>1. ~At(w, "reserve")
    BY <1>6 DEF Works, At, CheckRun, Start, ModelFails, ModelReports, SucceedRead, FailRead,
                RequireRunning, SucceedWrite, FailWrite, Finish, Confirm, Commit, Release,
                ReleaseWrite, Answer
  <2>2. res' = res \/ CommitRow(w, Key(w)) \/ ReleaseRow(w, Key(w))
    BY <1>6 DEF Works, CheckRun, Start, ModelFails, ModelReports, SucceedRead, FailRead,
                RequireRunning, SucceedWrite, FailWrite, Finish, Confirm, Commit, Release,
                ReleaseWrite, Answer, vars, SettleRead, SettleFail
  <2>3. \A k \in Keys : k # Key(w) => res'[k] = res[k]
    BY <1>1, <2>2, SettledStatus
  <2>4. QED
    BY <1>2, <1>3, <2>1, <2>3
<1>7. QED
  BY <1>4, <1>5, <1>6

LEMMA OtherKeysCalm ==
  ASSUME ReturnInv, NEW w \in Workers, Works(w), NEW k \in Keys,
         k # Key(w) \/ (At(w, "reserve") /\ res[k] # NoReservation)
  PROVE  Calm(k)
BY WorkerFrame DEF Calm

(* A worker's own key and attempt, one group of steps at a time.            *)
LEMMA ReserveIsCareful ==
  ASSUME ReturnInv, [Next]_vars, NEW w \in Workers, Reserve(w),
         NEW k \in Keys, k = Key(w)
  PROVE  Careful(w)' /\ Settled(k)'
<1>1. /\ TypeInv /\ AttemptInv /\ w \in Sessions /\ Careful(w) /\ Settled(k) /\ KeyAges(k)
      /\ attempt[w] # Idle /\ At(w, "reserve") /\ Works(w)
      /\ UNCHANGED <<runs, answered>> /\ ClaimsPast
      /\ res \in [Keys -> ReservationRow \cup {NoReservation}]
  BY WorkersAreSessions
  DEF ReturnInv, AgesInv, ExecutionInv, AnalysisInv, Reserve, At, Idle, Works, record, TypeInv, TypeOK
<1>2. CASE ReserveInsert(w) /\ attempt' = [attempt EXCEPT ![w].step = "check", ![w].owner = TRUE]
  <2>1. At(w, "check")' /\ Key(w)' = k
    BY <1>1, <1>2, Gone
  <2>2. res[k] = NoReservation /\ res'[k] # NoReservation
    <3>1. call[w].request = attempt[w].request /\ call[w].request.key = k
      BY <1>1, <1>2 DEF ReturnInv, AgesInv, ExecutionInv, ClaimsOwnRequest, ReserveInsert, Key
    <3>2. res'[k].status = "reserved"
      BY <1>1, <1>2, <3>1 DEF ReserveInsert
    <3>3. QED
      BY <1>2, <3>1, <3>2 DEF ReserveInsert, NoReservation
  <2>3. res'[k].status = "reserved"
    BY <1>1, <2>2, NewReservation
  <2>4. k \notin answered' /\ runs'[k] = NoRun
    BY <1>1, <2>2 DEF Settled, KeyAges
  <2>5. QED
    BY <2>1, <2>3, <2>4 DEF Careful, Settled, ReturnedEarly, At, NoRun, Cleaning, Running
<1>3. CASE (ReserveCheck(w, attempt[w].request) \/ ReserveLookup(w)) /\ UNCHANGED attempt
  <2>1. Calm(k)
    BY <1>1, <1>3 DEF ReserveCheck, ReserveLookup, Calm
  <2>2. QED
    BY <1>1, <1>3, <2>1, CalmKeySettled, CalmAttemptCareful
<1>4. CASE res[k] # NoReservation
  <2>1. Settled(k)'
    BY <1>1, <1>4, OtherKeysCalm, CalmKeySettled
  <2>2. CASE End(w)
    BY <1>1, <2>1, <2>2, Gone, IdleIsCareful
  <2>3. CASE Goto(w, "check")
    <3>1. At(w, "check")' /\ attempt'[w].owner = attempt[w].owner
      BY <1>1, <2>3, Gone DEF At
    <3>2. ~attempt'[w].owner
      BY <1>1, <3>1 DEF Careful
    <3>3. QED
      BY <2>1, <3>1, <3>2 DEF Careful, At, Cleaning, Running
  <2>4. CASE ReserveInsert(w) /\ attempt' = [attempt EXCEPT ![w].step = "check", ![w].owner = TRUE]
    BY <1>2, <2>4
  <2>5. QED
    BY <1>3, <2>2, <2>3, <2>4 DEF Reserve
<1>5. CASE /\ res[k] = NoReservation
           /\ ~(ReserveInsert(w) /\ attempt' = [attempt EXCEPT ![w].step = "check", ![w].owner = TRUE])
           /\ ~((ReserveCheck(w, attempt[w].request) \/ ReserveLookup(w)) /\ UNCHANGED attempt)
  <2>1. ~ReserveExisting(w)
    BY <1>5, <1>1 DEF ReserveExisting, Key, ReturnInv, AgesInv, ExecutionInv, ClaimsOwnRequest
  <2>2. End(w) /\ res' = res
    BY <1>5, <2>1 DEF Reserve, ReserveReject, vars
  <2>3. Settled(k)'
    <3>1. Calm(k)
      BY <1>1, <1>5, <2>2 DEF Calm
    <3>2. QED
      BY <3>1, CalmKeySettled
  <2>4. QED
    BY <1>1, <2>2, <2>3, Gone, IdleIsCareful
<1>6. QED
  BY <1>2, <1>3, <1>4, <1>5

(* Steps that read, and leave the tables alone.                             *)
LEMMA ReadIsCareful ==
  ASSUME ReturnInv, [Next]_vars, NEW w \in Workers,
         \/ CheckRun(w) \/ ModelFails(w) \/ ModelReports(w) \/ SucceedRead(w) \/ FailRead(w)
         \/ Confirm(w) \/ Release(w) \/ Interrupt(w),
         NEW k \in Keys, k = Key(w)
  PROVE  Careful(w)' /\ Settled(k)'
<1>1. /\ TypeInv /\ AttemptInv /\ w \in Sessions /\ Careful(w) /\ Settled(k)
      /\ attempt[w] # Idle /\ attempt[w] \in Attempt
  <2>1. TypeInv /\ AttemptInv /\ Careful(w) /\ Settled(k)
    BY DEF ReturnInv, AgesInv, ExecutionInv, AnalysisInv
  <2>2. attempt[w] # Idle
    BY DEF CheckRun, ModelFails, ModelReports, SucceedRead, FailRead, RequireRunning, Confirm,
           Release, Interrupt, At, Idle
  <2>3. QED
    BY <2>1, <2>2, AttemptShape, WorkersAreSessions
<1>2. UNCHANGED <<res, runs, answered, clock>>
  BY DEF CheckRun, ModelFails, ModelReports, SucceedRead, FailRead, RequireRunning, Confirm,
         Release, Interrupt, Abandon, SettleRead, vars, record
<1>3. Settled(k)'
  BY <1>1, <1>2 DEF Settled, ReturnedEarly, Paid, Lapsed
<1>4. CASE End(w)
  BY <1>1, <1>3, <1>4, Gone, IdleIsCareful
<1>5. ASSUME NEW step, Goto(w, step),
             /\ step \notin {"reserve", "check"}
             /\ step \in Cleaning => attempt[w].owner
             /\ step \in Running => ~ReturnedEarly(k)
             /\ step \in {"start", "model", "fail"} /\ attempt[w].owner =>
                  runs[k].status # "succeeded"
             /\ step \in {"release", "releasing"} => runs[k].status = "failed" \/ Lapsed(k)
             /\ step = "answer" => Paid(k)
             /\ step \in {"start", "model"} \cup Cleaning /\ attempt[w].owner => k \notin answered
      PROVE  Careful(w)'
  <2>1. attempt'[w].step = step /\ attempt'[w].owner = attempt[w].owner /\ Key(w)' = k
    BY <1>1, <1>5, Gone
  <2>2. QED
    BY <1>2, <1>5, <2>1 DEF Careful, At, ReturnedEarly, Paid, Lapsed
<1>6. ASSUME ~End(w)
      PROVE  Careful(w)'
  <2> USE DEF Cleaning, Running
  <2>1. CASE CheckRun(w)
    <3>1. At(w, "check")
      BY <2>1 DEF CheckRun
    <3>2. CASE runs[k].status \in {"none", "running"} /\ Goto(w, "start")
      <4>1. ~ReturnedEarly(k)
        BY <1>1, <3>2 DEF Settled
      <4>2. attempt[w].owner => k \notin answered
        BY <1>1, <3>1 DEF Careful, At
      <4>3. QED
        BY <1>5, <3>2, <4>1, <4>2
    <3>3. CASE runs[k].status = "succeeded" /\ Goto(w, "replay")
      <4>1. ~ReturnedEarly(k)
        BY <1>1, <3>3 DEF Settled
      <4>2. QED
        BY <1>5, <3>3, <4>1
    <3>4. QED
      BY <1>6, <2>1, <3>2, <3>3 DEF CheckRun
  <2>2. CASE ModelFails(w)
    <3>1. attempt[w].owner /\ Goto(w, "fail")
      BY <1>6, <2>2 DEF ModelFails
    <3>2. runs[k].status # "succeeded" /\ k \notin answered
      BY <1>1, <2>2, <3>1 DEF ModelFails, Careful, At
    <3>3. QED
      BY <1>5, <3>1, <3>2
  <2>3. CASE ModelReports(w)
    <3>1. Goto(w, "succeed") /\ ~ReturnedEarly(k)
      BY <1>1, <2>3 DEF ModelReports, Careful, At
    <3>2. QED
      BY <1>5, <3>1
  <2>4. CASE SucceedRead(w)
    <3>1. (Goto(w, "succeed_write") \/ Goto(w, "confirm")) /\ ~ReturnedEarly(k)
      BY <1>1, <1>6, <2>4 DEF SucceedRead, RequireRunning, Careful, At
    <3>2. QED
      BY <1>5, <3>1
  <2>5. CASE FailRead(w)
    <3>1. attempt[w].owner /\ runs[k].status # "succeeded" /\ k \notin answered
      BY <1>1, <2>5 DEF FailRead, RequireRunning, Careful, At
    <3>2. \/ Goto(w, "fail_write")
          \/ runs[k].status = "failed" /\ Goto(w, "release")
      BY <1>6, <2>5, <3>1 DEF FailRead, RequireRunning
    <3>3. QED
      BY <1>5, <3>1, <3>2
  <2>6. CASE Confirm(w)
    <3>1. CASE Goto(w, "commit")
      BY <1>5, <3>1
    <3>2. CASE res[k].status = "consumed" /\ Goto(w, "answer")
      BY <1>5, <3>2 DEF Paid
    <3>3. CASE res[k].status = "released" /\ At(w, "replay") /\ Goto(w, "answer")
      <4>1. ~ReturnedEarly(k)
        BY <1>1, <3>3 DEF Careful, At
      <4>2. QED
        BY <1>5, <3>3, <4>1 DEF ReturnedEarly, Paid
    <3>4. QED
      BY <1>6, <2>6, <3>1, <3>2, <3>3 DEF Confirm
  <2>7. CASE Release(w)
    <3>1. /\ Goto(w, "releasing") /\ attempt[w].owner /\ k \notin answered
          /\ runs[k].status = "failed" \/ Lapsed(k)
      BY <1>1, <1>6, <2>7 DEF Release, Careful, At
    <3>2. QED
      BY <1>5, <3>1
  <2>8. QED
    BY <1>6, <2>1, <2>2, <2>3, <2>4, <2>5, <2>6, <2>7 DEF Interrupt
<1>7. QED
  BY <1>3, <1>4, <1>6

(* Steps that write the run, settle the reservation or answer.              *)
LEMMA WriteIsCareful ==
  ASSUME ReturnInv, [Next]_vars, NEW w \in Workers,
         \/ Start(w) \/ SucceedWrite(w) \/ FailWrite(w)
         \/ Commit(w) \/ ReleaseWrite(w) \/ Answer(w),
         NEW k \in Keys, k = Key(w)
  PROVE  Careful(w)' /\ Settled(k)'
<1>1. /\ AnalysisInv /\ TypeInv /\ AttemptInv /\ w \in Sessions /\ Careful(w) /\ Settled(k)
      /\ Works(w) /\ attempt[w] # Idle /\ attempt[w] \in Attempt
      /\ res[k] # NoReservation /\ ~At(w, "reserve")
  <2>1. AnalysisInv /\ TypeInv /\ AttemptInv /\ Careful(w) /\ Settled(k) /\ Works(w)
    BY DEF ReturnInv, AgesInv, ExecutionInv, AnalysisInv, Works
  <2>2. attempt[w] # Idle /\ ~At(w, "reserve")
    BY DEF Start, SucceedWrite, FailWrite, Finish, Commit, ReleaseWrite, Answer, At, Idle
  <2>3. res[k] # NoReservation
    BY <2>2 DEF ReturnInv, AgesInv, ExecutionInv, HoldsReservation
  <2>4. QED
    BY <2>1, <2>2, <2>3, AttemptShape, WorkersAreSessions
<1>2. clock' = clock
  BY <1>1, WorkerFrame
<1>3. \A step : Goto(w, step) =>
        attempt'[w].step = step /\ attempt'[w].owner = attempt[w].owner /\ Key(w)' = k
  BY <1>1, Gone
<1>4. CASE Start(w)
  <2>1. /\ UNCHANGED <<res, answered>> /\ ~ReturnedEarly(k) /\ At(w, "model")'
        /\ attempt'[w].owner = attempt[w].owner /\ Key(w)' = k
        /\ attempt[w].owner => runs[k].status # "succeeded" /\ k \notin answered
    BY <1>1, <1>3, <1>4 DEF Start, Careful, At, Running, vars
  <2>2. runs'[k].status \in {runs[k].status, "running"}
    BY <1>1, <1>4, WorkerRuns DEF AnalysisInv, AnalysisTypeOK, Start, SucceedWrite, FailWrite,
       Finish, At
  <2>3. QED
    BY <1>1, <1>2, <2>1, <2>2 DEF Careful, Settled, ReturnedEarly, Paid, Lapsed, At, Cleaning, Running
<1>5. CASE SucceedWrite(w)
  <2>1. /\ UNCHANGED <<res, answered>> /\ ~ReturnedEarly(k) /\ At(w, "confirm")'
    BY <1>1, <1>3, <1>5 DEF SucceedWrite, Finish, Careful, At, Running, vars
  <2>2. QED
    BY <1>1, <1>2, <2>1 DEF Careful, Settled, ReturnedEarly, Paid, Lapsed, At, Cleaning, Running
<1>6. CASE FailWrite(w)
  <2>1. /\ UNCHANGED <<res, answered>> /\ At(w, "release")' /\ Key(w)' = k
        /\ attempt'[w].owner /\ k \notin answered
    BY <1>1, <1>3, <1>6 DEF FailWrite, Finish, Careful, At, Cleaning, vars
  <2>2. runs'[k].status = "failed"
    <3>1. runs[k] # NoRun /\ runs \in [Keys -> Run \cup {NoRun}]
      BY <1>1, <1>6 DEF FailWrite, Finish, AnalysisInv, AnalysisTypeOK
    <3>2. runs' = [runs EXCEPT ![k] = [runs[k] EXCEPT !.status = "failed", !.report = runs[k].report]]
      BY <1>6 DEF FailWrite, Finish
    <3>3. [runs[k] EXCEPT !.status = "failed", !.report = runs[k].report].status = "failed"
      BY <3>1 DEF Run
    <3>4. QED
      BY <3>1, <3>2, <3>3
  <2>3. QED
    BY <1>1, <1>2, <2>1, <2>2 DEF Careful, Settled, ReturnedEarly, Paid, Lapsed, At, Cleaning, Running
<1>7. CASE Commit(w)
  <2>1. UNCHANGED <<runs, answered>>
    BY <1>7 DEF Commit, record
  <2>2. CASE CommitRow(w, k) /\ Goto(w, "answer")
    <3>1. res'[k].status = "consumed" /\ res'[k] # NoReservation
      BY <1>1, <2>2, SettledStatus DEF NoReservation
    <3>2. At(w, "answer")' /\ Key(w)' = k
      BY <1>3, <2>2 DEF At
    <3>3. QED
      BY <2>1, <3>1, <3>2 DEF Careful, Settled, ReturnedEarly, Paid, At, Cleaning, Running
  <2>3. CASE SettleFail(w) /\ End(w)
    <3>1. res' = res /\ attempt'[w] = Idle
      BY <1>1, <2>3, Gone DEF SettleFail
    <3>2. QED
      BY <1>1, <1>2, <2>1, <3>1, IdleIsCareful DEF Settled, ReturnedEarly, Paid, Lapsed
  <2>4. QED
    BY <1>7, <2>2, <2>3 DEF Commit
<1>8. CASE ReleaseWrite(w)
  <2>1. UNCHANGED <<runs, answered>> /\ attempt'[w] = Idle
    BY <1>1, <1>8, Gone DEF ReleaseWrite, record
  <2>2. /\ k \notin answered
        /\ runs[k].status = "failed" \/ Lapsed(k)
    BY <1>1, <1>8 DEF ReleaseWrite, Careful, At, Cleaning
  <2>3. Lapsed(k) => Lapsed(k)'
    BY <1>1, LapsedStays
  <2>4. QED
    BY <2>1, <2>2, <2>3, IdleIsCareful DEF Settled, ReturnedEarly
<1>9. CASE Answer(w)
  <2>1. UNCHANGED <<res, runs>> /\ attempt'[w] = Idle /\ Paid(k)
    BY <1>1, <1>9, Gone DEF Answer, vars, Careful, At
  <2>2. QED
    BY <1>1, <1>2, <2>1, IdleIsCareful DEF Settled, ReturnedEarly, Paid, Lapsed
<1>10. QED
  BY <1>4, <1>5, <1>6, <1>7, <1>8, <1>9

(* The retention pass releases what has lapsed, confirms the rest, and drops *)
(* runs of reservations that have lapsed.                                   *)
LEMMA PassIsCalm ==
  ASSUME ReturnInv, PassStep \/ PassBreaks, NEW k \in Keys
  PROVE  Calm(k)
<1>1. /\ AnalysisInv /\ TypeInv /\ Janitor \in Sessions /\ KeyAges(k) /\ PassAges
      /\ runs \in [Keys -> Run \cup {NoRun}]
  BY WorkersAreSessions
  DEF ReturnInv, AgesInv, ExecutionInv, AnalysisInv, AnalysisTypeOK
<1>2. answered' = answered /\ runs'[k].status \in {runs[k].status, "failed", "none"}
  BY <1>1, PassRuns
<1>3. ASSUME res[k] # NoReservation, ~Lapsed(k)
      PROVE  runs'[k].status \in {runs[k].status, "failed"}
  <2>1. CASE runs'[k] = NoRun /\ runs[k] # NoRun
    <3>1. pass # Idle /\ runs[k].started < pass.now - MetricsAge
      BY <1>1, <2>1, SweptAges
    <3>2. /\ runs[k].started \in Nat /\ pass.now \in Nat /\ MetricsAge \in Nat /\ clock \in Nat
          /\ res[k].expires \in Nat /\ pass.now <= clock
          /\ res[k].expires <= runs[k].started + MetricsAge
      <4>1. pass \in Pass /\ clock \in Nat /\ pass.now <= clock
        BY <1>1, <3>1 DEF AnalysisInv, AnalysisTypeOK, AttemptInv, PassAges
      <4>2. res[k] \in ReservationRow /\ runs[k] \in Run
        BY <1>1, <1>3, <2>1 DEF TypeInv, TypeOK
      <4>3. QED
        BY <1>1, <2>1, <4>1, <4>2, AgesAssumption DEF Pass, ReservationRow, Run, KeyAges
    <3>3. QED
      BY <1>3, <3>1, <3>2 DEF Lapsed
  <2>2. CASE runs'[k] # NoRun \/ runs[k] = NoRun
    BY <1>1, <2>2, SweptAges
  <2>3. QED
    BY <2>1, <2>2
<1>4. ASSUME res[k] # NoReservation, ~Lapsed(k)
      PROVE  res'[k].status \in {res[k].status, "consumed"}
  <2>1. CASE \E j \in Keys : ReleaseRow(Janitor, j)
    <3>1. PICK j \in Keys : ReleaseRow(Janitor, j)
      BY <2>1
    <3>2. Lapsed(j)
      BY <1>1, <3>1 DEF ReleaseRow, SettleRow, PassAges
    <3>3. QED
      BY <1>1, <1>4, <3>1, <3>2, SettledStatus
  <2>2. CASE \E j \in Keys : CommitRow(Janitor, j)
    BY <1>1, <2>2, SettledStatus
  <2>3. CASE res' = res
    BY <2>3
  <2>4. QED
    BY <2>1, <2>2, <2>3 DEF PassStep, PassBreaks, PassBegin, ClearReports, DeleteMetrics,
       CloseStuckRuns, SweepRuns, ListExpired, ListUnconfirmed, ListRows, ReleaseExpired, Reconcile,
       SettleListed, SettleRead, SettleFail, Abandon, vars
<1>5. QED
  BY <1>2, <1>3, <1>4 DEF Calm

LEMMA ReturnStays ==
  ASSUME ReturnInv, PromptAttempts, [AnalysisNext]_analysisVars
  PROVE  ReturnInv'
<1>1. /\ AnalysisInv /\ TypeInv /\ AttemptInv /\ [Next]_vars /\ AgesInv'
  BY AgesStay, StepIsAuthorizers DEF ReturnInv, AgesInv, ExecutionInv, AnalysisInv
<1>2. SUFFICES (\A v \in Workers : Careful(v)') /\ \A k \in Keys : Settled(k)'
  BY <1>1 DEF ReturnInv
<1>3. ASSUME NEW w \in Workers, Works(w)
      PROVE  (\A v \in Workers : Careful(v)') /\ \A k \in Keys : Settled(k)'
  <2>1. attempt[w] # Idle /\ \A v \in Workers : v # w => attempt'[v] = attempt[v]
    BY <1>1, <1>3, WorkerMoves
  <2>2. PICK own \in Keys : own = Key(w)
    BY <1>1, <2>1, AttemptShape
  <2>3. Careful(w)' /\ Settled(own)'
    BY <1>1, <1>3, <2>2, ReserveIsCareful, ReadIsCareful, WriteIsCareful DEF Works
  <2>4. ASSUME NEW v \in Workers, v # w PROVE Careful(v)'
    <3>1. ASSUME attempt[v] # Idle, ~At(v, "reserve") PROVE Calm(Key(v))
      <4>1. Key(v) \in Keys /\ res[Key(v)] # NoReservation /\ res[Key(v)].request = attempt[v].request
        BY <1>1, <3>1, AttemptShape DEF ReturnInv, AgesInv, ExecutionInv, HoldsReservation
      <4>2. Key(v) # Key(w) \/ At(w, "reserve")
        BY <2>1, <2>4, <3>1, <4>1
        DEF ReturnInv, AgesInv, ExecutionInv, HoldsReservation, RequestsApart
      <4>3. QED
        BY <1>3, <4>1, <4>2, OtherKeysCalm
    <3>2. QED
      BY <1>1, <2>1, <2>4, <3>1, CalmAttemptCareful
  <2>5. ASSUME NEW k \in Keys, k # own PROVE Settled(k)'
    BY <1>1, <1>3, <2>2, <2>5, OtherKeysCalm, CalmKeySettled
  <2>6. QED
    BY <2>3, <2>4, <2>5
(* Everything else leaves the attempts alone or ends them.                  *)
<1>4. ASSUME \A k \in Keys : Calm(k),
             \A v \in Workers : attempt'[v] = attempt[v] \/ attempt'[v] = Idle
                                  \/ (At(v, "reserve")' /\ ~attempt'[v].owner)
      PROVE  (\A v \in Workers : Careful(v)') /\ \A k \in Keys : Settled(k)'
  <2>1. ASSUME NEW v \in Workers PROVE Careful(v)'
    <3>1. CASE attempt'[v] = Idle
      BY <3>1, IdleIsCareful
    <3>2. CASE At(v, "reserve")' /\ ~attempt'[v].owner
      BY <3>2 DEF Careful, At, Cleaning, Running
    <3>3. CASE attempt'[v] = attempt[v]
      <4>1. attempt[v] # Idle => Key(v) \in Keys
        BY <1>1, AttemptShape
      <4>2. QED
        BY <1>1, <1>4, <3>3, <4>1, CalmAttemptCareful
    <3>4. QED
      BY <1>4, <3>1, <3>2, <3>3
  <2>2. QED
    BY <1>1, <1>4, <2>1, CalmKeySettled
<1>5. ASSUME NEW w \in Workers, NEW r \in Requests, Begin(w, r)
      PROVE  (\A v \in Workers : Careful(v)') /\ \A k \in Keys : Settled(k)'
  <2>1. /\ At(w, "reserve")' /\ ~attempt'[w].owner /\ UNCHANGED <<vars, record>>
        /\ \A v \in Workers : v # w => attempt'[v] = attempt[v]
    BY <1>1, <1>5, BeginMoves
  <2>2. \A k \in Keys : Calm(k)
    BY <2>1 DEF vars, record, Calm
  <2>3. QED
    BY <1>4, <2>1, <2>2
<1>6. CASE PassStep \/ PassBreaks
  BY <1>4, <1>6, PassIsCalm, PassIsSession
<1>7. CASE ProcessCrash \/ Meanwhile \/ UNCHANGED analysisVars
  <2>1. UNCHANGED <<res, runs, answered>>
    BY <1>7 DEF ProcessCrash, Crash, Meanwhile, Tick, AdminWrite, CreateBatch, UpdateExpiry,
                UpdatePolicy, AdminStep, EditRead, GrantWrite, RevokeWrite, AbandonEdit,
                analysisVars, vars, record
  <2>2. \A v \in Workers : attempt'[v] = attempt[v] \/ attempt'[v] = Idle
    BY <1>7 DEF ProcessCrash, Meanwhile, analysisVars
  <2>3. \A k \in Keys : Calm(k)
    BY <2>1 DEF Calm
  <2>4. QED
    BY <1>4, <2>2, <2>3
<1>8. QED
  BY <1>3, <1>5, <1>6, <1>7, StepKinds

LEMMA ReturnStarts == AnalysisInit => ReturnInv
<1> SUFFICES ASSUME AnalysisInit PROVE ReturnInv
  OBVIOUS
<1>1. ExecutionInv
  BY AnalysisStarts, WorkersAreSessions
  DEF AnalysisInit, Init, ExecutionInv, ClaimsOwnRequest, RequestsApart, HoldsReservation, Idle
<1>2. ClaimsPast /\ PassAges /\ \A k \in Keys : KeyAges(k)
  BY WorkersAreSessions DEF AnalysisInit, Init, ClaimsPast, PassAges, KeyAges, Idle
<1>3. (\A w \in Workers : Careful(w)) /\ \A k \in Keys : Settled(k)
  BY DEF AnalysisInit, Init, Careful, At, Idle, Cleaning, Running, Settled, ReturnedEarly, NoReservation
<1>4. QED
  BY <1>1, <1>2, <1>3 DEF ReturnInv, AgesInv

LEMMA ReturnCorrect == AnalysisSpec /\ []PromptAttempts => []ReturnInv
BY ReturnStarts, ReturnStays, PTL DEF AnalysisSpec

(* No retry, conflict, crash or retention pass gives a use away before its    *)
(* time: a reservation that is returned early has a run that failed, as long *)
(* as attempts end within the time that metrics are kept                    *)
(* (control_plane.py:193-204, 317-335).                                     *)
THEOREM ReturnsAreFailures == AnalysisSpec /\ []PromptAttempts => []EarlyReturnMeansFailure
<1>1. ReturnInv => EarlyReturnMeansFailure
  <2>1. SUFFICES ASSUME ReturnInv, NEW k \in Keys, res[k].status = "released", res[k].expires > clock
                 PROVE  runs[k].status = "failed"
    BY DEF EarlyReturnMeansFailure
  <2>2. res[k].expires \in Nat /\ clock \in Nat
    BY <2>1 DEF ReturnInv, AgesInv, ExecutionInv, AnalysisInv, AttemptInv, TypeInv, TypeOK,
                ReservationRow, NoReservation
  <2>3. QED
    BY <2>1, <2>2 DEF ReturnInv, Settled, ReturnedEarly, Lapsed
<1>2. QED
  BY <1>1, ReturnCorrect, PTL

(* Whoever got a report has paid for it, or nobody confirmed the use before  *)
(* it expired, under the same condition (control_plane.py:206-235, 276-292). *)
(* After that the pass gives the use of a stored report back, which the docs *)
(* do not expect (retention.py:87, CONTROL_PLANE_ACCEPTANCE.md:15-17).      *)
PaidUntilExpiry == \A k \in answered : res[k].status = "consumed" \/ res[k].expires <= clock

THEOREM AnswersArePaid == AnalysisSpec /\ []PromptAttempts => []PaidUntilExpiry
<1>1. ReturnInv => PaidUntilExpiry
  BY DEF ReturnInv, Settled, Paid, Lapsed, PaidUntilExpiry, AgesInv, ExecutionInv, AnalysisInv,
         AnalysisTypeOK
<1>2. QED
  BY <1>1, ReturnCorrect, PTL

(* The condition holds whenever metrics are kept for longer than the whole   *)
(* history that is looked at, as they are in the runs.                      *)
LEMMA PromptWithinRetention ==
  ASSUME MaxTime + TTL <= MetricsAge
  PROVE  AnalysisSpec => []PromptAttempts
<1>1. AnalysisInv => PromptAttempts
  <2>1. SUFFICES ASSUME AnalysisInv, NEW w \in Workers, attempt[w] # Idle
                 PROVE  clock + TTL <= attempt[w].started + MetricsAge
    BY DEF PromptAttempts
  <2>2. attempt[w].started \in Nat
    BY <2>1, AttemptShape DEF AnalysisInv, Attempt
  <2>3. clock \in Nat /\ clock <= MaxTime /\ TTL \in Nat /\ MaxTime \in Nat /\ MetricsAge \in Nat
    BY <2>1, TimeAssumption, AgesAssumption DEF AnalysisInv, TypeInv, TypeOK
  <2>4. QED
    BY <2>2, <2>3
<1>2. QED
  BY <1>1, AnalysisStarts, AnalysisStays, PTL DEF AnalysisSpec
-----------------------------------------------------------------------------
(* Answers.  A client gets its report after the reservation was settled.    *)

Final(k) == res[k].status \in {"consumed", "released"}

AnswerInv ==
  /\ ExecutionInv
  /\ \A w \in Workers : At(w, "answer") => Final(Key(w))
  /\ \A k \in answered : Final(k)

(* A reservation that is settled stays settled.                             *)
LEMMA FinalStays ==
  ASSUME TypeInv, [Next]_vars, NEW k \in Keys, Final(k)
  PROVE  Final(k)'
<1>1. res[k] # NoReservation /\ res \in [Keys -> ReservationRow \cup {NoReservation}]
  BY DEF Final, NoReservation, TypeInv, TypeOK
<1>2. ASSUME NEW s \in Sessions, ReserveInsert(s) PROVE res'[k] = res[k]
  BY <1>1, <1>2 DEF ReserveInsert
<1>3. ASSUME NEW s \in Sessions, NEW j \in Keys, CommitRow(s, j) \/ ReleaseRow(s, j)
      PROVE  Final(k)'
  <2>1. Final(j)' /\ \A i \in Keys : i # j => res'[i] = res[i]
    BY <1>3, SettledStatus DEF Final
  <2>2. QED
    BY <2>1 DEF Final
<1>4. QED
  BY <1>2, <1>3, ReservationSteps DEF Final

(* Whoever goes to answer has just settled its row or found it settled.     *)
LEMMA AnswerIsSettled ==
  ASSUME ExecutionInv, NEW w \in Workers, Works(w), At(w, "answer")'
  PROVE  Final(Key(w))' /\ Key(w) \in Keys
<1>1. /\ TypeInv /\ AttemptInv /\ attempt[w] # Idle /\ w \in Sessions /\ Key(w) \in Keys
      /\ attempt \in [Workers -> Attempt \cup {Idle}] /\ attempt[w] \in Attempt
  BY WorkerMoves, AttemptShape, WorkersAreSessions DEF ExecutionInv, AnalysisInv, AttemptInv
<1>2. attempt'[w] # Idle /\ attempt'[w].request = attempt[w].request
  BY <1>1, WorkerMoves DEF At, Idle
<1>3. Key(w)' = Key(w)
  BY <1>2 DEF Key
<1>4. CASE Commit(w)
  <2>1. ~End(w)
    BY <1>1, <1>2, Gone
  <2>2. CommitRow(w, Key(w))
    BY <1>4, <2>1 DEF Commit
  <2>3. res'[Key(w)].status = "consumed"
    BY <1>1, <2>2, SettledStatus
  <2>4. QED
    BY <1>1, <1>3, <2>3 DEF Final
<1>5. CASE Confirm(w)
  <2>1. ~Goto(w, "commit")
    <3>1. Goto(w, "commit") => attempt'[w].step = "commit"
      BY <1>1, Gone
    <3>2. QED
      BY <3>1 DEF At
  <2>2. ~End(w)
    BY <1>1, <1>2, Gone
  <2>3. res[Key(w)].status \in {"consumed", "released"} /\ res' = res
    BY <1>5, <2>1, <2>2 DEF Confirm, vars
  <2>4. QED
    BY <1>1, <1>3, <2>3 DEF Final
<1>6. CASE ~Commit(w) /\ ~Confirm(w)
  <2>1. \/ attempt' = attempt /\ At(w, "reserve")
        \/ End(w)
        \/ attempt' = [attempt EXCEPT ![w].step = "check", ![w].owner = TRUE]
        \/ \E step \in AttemptSteps \ {"answer"} : Goto(w, step)
    BY <1>6 DEF Works, Reserve, CheckRun, Start, ModelFails, ModelReports, SucceedRead, FailRead,
                RequireRunning, SucceedWrite, FailWrite, Finish, Release, ReleaseWrite, Answer,
                Interrupt, AttemptSteps
  <2>2. QED
    BY <1>1, <1>2, <2>1, Gone DEF At
<1>7. QED
  BY <1>4, <1>5, <1>6

LEMMA AnswersStay == AnswerInv /\ [AnalysisNext]_analysisVars => AnswerInv'
<1> SUFFICES ASSUME AnswerInv, [AnalysisNext]_analysisVars PROVE AnswerInv'
  OBVIOUS
<1>1. /\ ExecutionInv /\ ExecutionInv' /\ AnalysisInv /\ AttemptInv /\ TypeInv /\ [Next]_vars
      /\ answered \subseteq Keys
  BY ExecutionStays, StepIsAuthorizers DEF AnswerInv, ExecutionInv, AnalysisInv, AnalysisTypeOK
<1>2. SUFFICES /\ \A w \in Workers : At(w, "answer")' => Final(Key(w))'
               /\ \A k \in answered' : Final(k)'
  BY <1>1 DEF AnswerInv
<1>3. ASSUME NEW v \in Workers, attempt'[v] = attempt[v], At(v, "answer")'
      PROVE  Final(Key(v))'
  <2>1. At(v, "answer") /\ attempt[v] # Idle /\ Key(v)' = Key(v)
    BY <1>3 DEF At, Idle, Key
  <2>2. PICK k \in Keys : k = Key(v)
    BY <1>1, <2>1, AttemptShape
  <2>3. Final(k)'
    BY <1>1, <2>1, <2>2, FinalStays DEF AnswerInv
  <2>4. QED
    BY <2>1, <2>2, <2>3 DEF Final
<1>4. \A k \in answered : Final(k)'
  BY <1>1, FinalStays DEF AnswerInv
<1>5. ASSUME NEW w \in Workers, Works(w)
      PROVE  /\ \A v \in Workers : At(v, "answer")' => Final(Key(v))'
             /\ \A k \in answered' : Final(k)'
  <2>1. \A v \in Workers : v # w => attempt'[v] = attempt[v]
    BY <1>1, <1>5, WorkerMoves
  <2>2. At(w, "answer")' => Final(Key(w))'
    BY <1>1, <1>5, AnswerIsSettled
  <2>3. ASSUME Answer(w), answered' = answered \cup {Key(w)} PROVE \A k \in answered' : Final(k)'
    <3>1. At(w, "answer") /\ attempt[w] # Idle
      BY <2>3 DEF Answer, At, Idle
    <3>2. PICK own \in Keys : own = Key(w)
      BY <1>1, <3>1, AttemptShape
    <3>3. Final(own)'
      BY <1>1, <3>1, <3>2, FinalStays DEF AnswerInv
    <3>4. QED
      BY <1>4, <2>3, <3>2, <3>3
  <2>4. QED
    BY <1>1, <1>3, <1>4, <1>5, <2>1, <2>2, <2>3, WorkerHistory
<1>6. ASSUME NEW w \in Workers, NEW r \in Requests, Begin(w, r)
      PROVE  /\ \A v \in Workers : At(v, "answer")' => Final(Key(v))'
             /\ \A k \in answered' : Final(k)'
  <2>1. /\ At(w, "reserve")' /\ answered' = answered
        /\ \A v \in Workers : v # w => attempt'[v] = attempt[v]
    BY <1>1, <1>6, BeginMoves DEF record
  <2>2. QED
    BY <1>3, <1>4, <2>1 DEF At
<1>7. CASE PassStep \/ PassBreaks
  <2>1. attempt' = attempt /\ answered' = answered
    BY <1>1, <1>7, PassRuns, PassIsSession
  <2>2. QED
    BY <1>3, <1>4, <2>1
<1>8. CASE ProcessCrash \/ Meanwhile \/ UNCHANGED analysisVars
  <2>1. answered' = answered /\ \A w \in Workers : attempt'[w] \in {attempt[w], Idle}
    BY <1>8 DEF ProcessCrash, Meanwhile, analysisVars, record
  <2>2. \A w \in Workers : attempt'[w] = Idle => ~At(w, "answer")'
    BY DEF At, Idle
  <2>3. QED
    BY <1>3, <1>4, <2>1, <2>2
<1>9. QED
  BY <1>5, <1>6, <1>7, <1>8, StepKinds

(* No client gets a report on a reservation that is still open, whatever the *)
(* pass and other attempts do to it meanwhile (control_plane.py:213-235,    *)
(* 276-292).                                                                *)
THEOREM NoOpenAnswer == AnalysisSpec => []AnswersAreSettled
<1>1. AnalysisInit => AnswerInv
  BY AnalysisStarts, WorkersAreSessions
  DEF AnalysisInit, Init, AnswerInv, ExecutionInv, ClaimsOwnRequest, RequestsApart, HoldsReservation,
      At, Idle
<1>2. AnswerInv => AnswersAreSettled
  BY DEF AnswerInv, AnswersAreSettled, Final
<1>3. QED
  BY <1>1, <1>2, AnswersStay, PTL DEF AnalysisSpec
-----------------------------------------------------------------------------
(* The purchase of each key, whichever keys share a code.  A settlement      *)
(* decided on a stale row is refused by the balance of the code unless       *)
(* another reservation still waits on it.                                   *)

(* A settlement that goes through finds a reservation waiting on its code.  *)
LEMMA SettlesWaiting ==
  ASSUME HoldInv, NEW s \in Sessions, NEW k \in Keys, CommitRow(s, k) \/ ReleaseRow(s, k),
         res[k].code # NoCode
  PROVE  \E j \in Keys : res[j].status = "reserved" /\ res[j].code = res[k].code
<1> DEFINE c == res[k].code
<1>1. c \in Codes /\ codes[c] \in CodeRow /\ codes[c].reserved >= 1
  BY SettledRow DEF HoldInv
<1>2. codes[c].reserved <= Cardinality(ReservationsOf(c))
  BY <1>1 DEF HoldInv, NoStrandedUses
<1>3. ReservationsOf(c) # {}
  BY <1>1, <1>2, FS_EmptySet DEF CodeRow
<1>4. QED
  BY <1>3 DEF ReservationsOf

(* What a settlement writes to the reservation and to its code.             *)
LEMMA SettlementWrites ==
  ASSUME TypeInv, NEW s \in Sessions, NEW k \in Keys, CommitRow(s, k) \/ ReleaseRow(s, k)
  PROVE  /\ \E row \in ReservationRow :
              /\ row.status = IF CommitRow(s, k) THEN "consumed" ELSE "released"
              /\ row.code = res[k].code
              /\ res' = [res EXCEPT ![k] = row]
         /\ res[k].code = NoCode => codes' = codes
         /\ res[k].code # NoCode =>
              /\ res[k].code \in Codes /\ codes[res[k].code].reserved > 0
              /\ \E row : /\ codes' = [codes EXCEPT ![res[k].code] = row]
                          /\ row.reserved = codes[res[k].code].reserved - 1
<1>1. /\ res[k] \in ReservationRow /\ clock \in Nat
      /\ res[k].code # NoCode => /\ res[k].code \in Codes
                                 /\ codes[res[k].code] \in CodeRow
                                 /\ codes[res[k].code].reserved >= 1
  BY SettledRow, TimeAssumption DEF TypeInv, TypeOK
<1>2. ~(CommitRow(s, k) /\ ReleaseRow(s, k))
  BY DEF CommitRow, ReleaseRow, SettleRow
<1>3. ASSUME NEW status \in {"consumed", "released"}
      PROVE  /\ [res[k] EXCEPT !.status = status, !.updated = clock] \in ReservationRow
             /\ [res[k] EXCEPT !.status = status, !.updated = clock].status = status
             /\ [res[k] EXCEPT !.status = status, !.updated = clock].code = res[k].code
  BY <1>1 DEF ReservationRow
<1>4. CASE CommitRow(s, k)
  <2>1. /\ res' = [res EXCEPT ![k] = [res[k] EXCEPT !.status = "consumed", !.updated = clock]]
        /\ res[k].code = NoCode => codes' = codes
        /\ res[k].code # NoCode => codes' = [codes EXCEPT ![res[k].code] = Spend(codes[res[k].code])]
    BY <1>4 DEF CommitRow, SettleRow
  <2>2. res[k].code # NoCode =>
          Spend(codes[res[k].code]).reserved = codes[res[k].code].reserved - 1
    BY <1>1, BalanceMoves
  <2>3. res[k].code # NoCode => codes[res[k].code].reserved > 0
    BY <1>1 DEF CodeRow
  <2>4. QED
    BY <1>1, <1>3, <1>4, <2>1, <2>2, <2>3
<1>5. CASE ReleaseRow(s, k)
  <2>1. /\ res' = [res EXCEPT ![k] = [res[k] EXCEPT !.status = "released", !.updated = clock]]
        /\ res[k].code = NoCode => codes' = codes
        /\ res[k].code # NoCode => codes' = [codes EXCEPT ![res[k].code] = GiveBack(codes[res[k].code])]
    BY <1>5 DEF ReleaseRow, SettleRow
  <2>2. res[k].code # NoCode =>
          GiveBack(codes[res[k].code]).reserved = codes[res[k].code].reserved - 1
    BY <1>1, BalanceMoves
  <2>3. res[k].code # NoCode => codes[res[k].code].reserved > 0
    BY <1>1 DEF CodeRow
  <2>4. QED
    BY <1>1, <1>2, <1>3, <1>5, <2>1, <2>2, <2>3
<1>6. QED
  BY <1>4, <1>5

PurchaseInv == ExecutionInv /\ ChargeInv /\ HoldInv /\ LedgerInv

LEMMA PurchaseStarts == AnalysisInit => PurchaseInv /\ Bought!Init
<1> SUFFICES ASSUME AnalysisInit PROVE PurchaseInv /\ Bought!Init
  OBVIOUS
<1>1. ExecutionInv
  BY AnalysisStarts, WorkersAreSessions
  DEF AnalysisInit, Init, ExecutionInv, ClaimsOwnRequest, RequestsApart, HoldsReservation, Idle
<1>2. ChargeInv
  BY AnalysisStarts
  DEF AnalysisInit, Init, ChargeInv, ChargedForReport, Reported, NoReservation, NoRun, Idle
<1>3. HoldInv
  BY TypeInvInit, ReservationsFinite DEF AnalysisInit, Init, HoldInv, NoStrandedUses, AbsentCode
<1>4. LedgerInv
  BY TypeInvInit
  DEF AnalysisInit, Init, LedgerInv, LedgerRebuildsBalances, AbsentCode, NoEvents
<1>5. Bought!Init
  BY DEF AnalysisInit, Init, Bought!Init, NoReservation, AbsentCode
<1>6. QED
  BY <1>1, <1>2, <1>3, <1>4, <1>5 DEF PurchaseInv

LEMMA PurchaseStays == PurchaseInv /\ [AnalysisNext]_analysisVars => PurchaseInv'
<1>1. PurchaseInv /\ [AnalysisNext]_analysisVars => [Next]_vars
  BY StepIsAuthorizers DEF PurchaseInv, ExecutionInv, AnalysisInv
<1>2. QED
  BY <1>1, ExecutionStays, ChargeStays, HoldStays, LedgerInvStep DEF PurchaseInv

(* The uses, codes and holds of the purchases after a step that writes one  *)
(* reservation and at most its code.                                        *)
CodeOf(row) == IF row = NoReservation THEN NoCode ELSE row.code
LEMMA UseChanges ==
  ASSUME TypeInv, NEW k \in Keys, NEW row \in ReservationRow, res' = [res EXCEPT ![k] = row]
  PROVE  /\ [j \in Keys |-> res'[j].status] =
              [[j \in Keys |-> res[j].status] EXCEPT ![k] = row.status]
         /\ [j \in Keys |-> CodeOf(res'[j])] =
              [[j \in Keys |-> CodeOf(res[j])] EXCEPT ![k] = row.code]
<1>1. CodeOf(row) = row.code
  BY DEF CodeOf, NoReservation, ReservationRow
<1>2. [j \in Keys |-> res'[j].status] = [[j \in Keys |-> res[j].status] EXCEPT ![k] = row.status]
  BY DEF TypeInv, TypeOK
<1>3. [j \in Keys |-> CodeOf(res'[j])] = [[j \in Keys |-> CodeOf(res[j])] EXCEPT ![k] = row.code]
  BY <1>1 DEF TypeInv, TypeOK
<1>4. QED
  BY <1>2, <1>3

LEMMA HeldChanges ==
  ASSUME TypeInv, NEW c \in Codes, NEW row, codes' = [codes EXCEPT ![c] = row]
  PROVE  [d \in Codes |-> codes'[d].reserved] =
           [[d \in Codes |-> codes[d].reserved] EXCEPT ![c] = row.reserved]
BY DEF TypeInv, TypeOK

(* A claim is Reserve of the purchase.                                      *)
LEMMA ClaimIsPurchase ==
  ASSUME PurchaseInv, NEW s \in Sessions, ReserveInsert(s), UNCHANGED produced
  PROVE  \E k \in Keys, c \in Codes \cup {NoCode} : Bought!Reserve(k, c)
<1>1. TypeInv /\ clock \in Nat /\ call[s] \in Claiming
  BY CallShapes, TimeAssumption DEF PurchaseInv, HoldInv, TypeInv, TypeOK, ReserveInsert
<1>2. PICK k \in Keys, c \in Codes \cup {NoCode} : k = call[s].request.key /\ c = ChargedCode(call[s])
  BY <1>1, ConstantTypes DEF Claiming, ChargedCode
<1> DEFINE row == [status |-> "reserved", code |-> c, request |-> call[s].request,
                   expires |-> call[s].now + TTL, updated |-> clock]
<1>3. row \in ReservationRow /\ row.status = "reserved" /\ row.code = c
  BY <1>1, <1>2, TimeAssumption DEF ReservationRow, Claiming
<1>4. /\ res[k] = NoReservation /\ res' = [res EXCEPT ![k] = row]
      /\ codes' = IF c = NoCode THEN codes ELSE [codes EXCEPT ![c] = Hold(codes[c])]
  BY <1>2 DEF ReserveInsert
<1> HIDE DEF row
<1>5. /\ [j \in Keys |-> res'[j].status] = [[j \in Keys |-> res[j].status] EXCEPT ![k] = "reserved"]
      /\ [j \in Keys |-> CodeOf(res'[j])] = [[j \in Keys |-> CodeOf(res[j])] EXCEPT ![k] = c]
  BY <1>1, <1>3, <1>4, UseChanges
<1>6. [d \in Codes |-> codes'[d].reserved] =
        IF c = NoCode THEN [d \in Codes |-> codes[d].reserved]
        ELSE [[d \in Codes |-> codes[d].reserved] EXCEPT ![c] = @ + 1]
  <2>1. CASE c = NoCode
    BY <1>4, <2>1
  <2>2. CASE c # NoCode
    <3>1. c \in Codes /\ codes[c] \in CodeRow /\ codes' = [codes EXCEPT ![c] = Hold(codes[c])]
      BY <1>1, <1>4, <2>2 DEF TypeInv, TypeOK
    <3>2. Hold(codes[c]).reserved = codes[c].reserved + 1
      BY <3>1, BalanceMoves
    <3>3. QED
      BY <1>1, <2>2, <3>1, <3>2, HeldChanges
  <2>3. QED
    BY <2>1, <2>2
<1>7. res[k].status = "none"
  BY <1>4 DEF NoReservation
<1>8. Bought!Reserve(k, c)
  BY <1>5, <1>6, <1>7 DEF Bought!Reserve, CodeOf
<1>9. QED
  BY <1>8

(* A settlement is Settle of the purchase.                                  *)
LEMMA SettlementIsPurchase ==
  ASSUME PurchaseInv, NEW s \in Sessions, NEW k \in Keys, CommitRow(s, k) \/ ReleaseRow(s, k),
         UNCHANGED produced
  PROVE  \E outcome \in {"consumed", "released"} : Bought!Settle(k, outcome)
<1>1. TypeInv /\ HoldInv /\ res \in [Keys -> ReservationRow \cup {NoReservation}]
  BY DEF PurchaseInv, HoldInv, TypeInv, TypeOK
<1>2. PICK outcome \in {"consumed", "released"} :
        outcome = IF CommitRow(s, k) THEN "consumed" ELSE "released"
  OBVIOUS
<1>3. PICK c : c = res[k].code
  OBVIOUS
<1>4. PICK row \in ReservationRow :
        row.status = outcome /\ row.code = c /\ res' = [res EXCEPT ![k] = row]
  BY <1>2, <1>1, <1>3, SettlementWrites
<1>5. res[k] \in ReservationRow /\ res[k] # NoReservation /\ CodeOf(res[k]) = c
  BY <1>1, <1>3, SettledRow DEF ReservationRow, NoReservation, CodeOf
<1>6. outcome = "consumed" => k \in produced
  BY <1>2 DEF CommitRow, SettleRow, PurchaseInv, ChargeInv
<1>7. /\ [j \in Keys |-> res'[j].status] = [[j \in Keys |-> res[j].status] EXCEPT ![k] = outcome]
      /\ [j \in Keys |-> CodeOf(res'[j])] = [j \in Keys |-> CodeOf(res[j])]
  <2>1. /\ [j \in Keys |-> res'[j].status] = [[j \in Keys |-> res[j].status] EXCEPT ![k] = outcome]
        /\ [j \in Keys |-> CodeOf(res'[j])] = [[j \in Keys |-> CodeOf(res[j])] EXCEPT ![k] = c]
    BY <1>1, <1>4, UseChanges
  <2>2. QED
    BY <1>5, <2>1
<1>8. \/ c = NoCode /\ [d \in Codes |-> codes'[d].reserved] = [d \in Codes |-> codes[d].reserved]
      \/ /\ c # NoCode /\ c \in Codes /\ codes[c].reserved > 0
         /\ [d \in Codes |-> codes'[d].reserved] =
              [[d \in Codes |-> codes[d].reserved] EXCEPT ![c] = @ - 1]
  <2>1. CASE c = NoCode
    BY <1>1, <1>3, <2>1, SettlementWrites
  <2>2. CASE c # NoCode
    <3>1. c \in Codes /\ codes[c].reserved > 0
      BY <1>1, <1>3, <2>2, SettlementWrites
    <3>2. PICK new : codes' = [codes EXCEPT ![c] = new] /\ new.reserved = codes[c].reserved - 1
      BY <1>1, <1>3, <2>2, SettlementWrites
    <3>3. QED
      BY <1>1, <2>2, <3>1, <3>2, HeldChanges
  <2>3. QED
    BY <2>1, <2>2
<1>9. \/ res[k].status = "reserved"
      \/ /\ res[k].status \in {"consumed", "released"}
         /\ \/ c = NoCode
            \/ \E j \in Keys \ {k} : res[j].status = "reserved" /\ CodeOf(res[j]) = c
  <2>1. CASE res[k].status = "reserved" \/ c = NoCode
    BY <1>5, <1>3, <2>1 DEF ReservationRow
  <2>2. CASE res[k].status # "reserved" /\ c # NoCode
    <3>1. PICK j \in Keys : res[j].status = "reserved" /\ res[j].code = c
      BY <1>1, <1>3, <2>2, SettlesWaiting
    <3>2. j # k /\ CodeOf(res[j]) = c
      BY <2>2, <3>1 DEF CodeOf, NoReservation
    <3>3. QED
      BY <1>5, <2>2, <3>1, <3>2 DEF ReservationRow
  <2>3. QED
    BY <2>1, <2>2
<1>10. Bought!Settle(k, outcome)
  <2> DEFINE use == [j \in Keys |-> res[j].status]
             code == [j \in Keys |-> CodeOf(res[j])]
             held == [d \in Codes |-> codes[d].reserved]
  <2>1. use[k] = res[k].status /\ code[k] = c /\ (c # NoCode => held[c] = codes[c].reserved)
    BY <1>5, <1>8
  <2>2. \/ use[k] = "reserved"
        \/ /\ use[k] \in {"consumed", "released"}
           /\ code[k] = NoCode \/ \E j \in Keys \ {k} : use[j] = "reserved" /\ code[j] = code[k]
    BY <1>9, <2>1
  <2>3. \/ code[k] = NoCode /\ held' = held
        \/ /\ code[k] # NoCode /\ held[code[k]] > 0
           /\ held' = [held EXCEPT ![code[k]] = @ - 1]
    BY <1>8, <2>1
  <2>4. use' = [use EXCEPT ![k] = outcome] /\ code' = code
    BY <1>7
  <2>5. QED
    BY <1>6, <2>2, <2>3, <2>4 DEF Bought!Settle, Bought!Waits, CodeOf
<1>11. QED
  BY <1>10

(* A step of the authorizer is a step of the purchases, or none.            *)
LEMMA AuthorizerPurchases ==
  ASSUME PurchaseInv, [Next]_vars, UNCHANGED produced
  PROVE  [Bought!Next]_(Bought!purchases)
<1>1. TypeInv /\ codes \in [Codes -> CodeRow]
  BY DEF PurchaseInv, HoldInv, TypeInv, TypeOK
<1>2. CASE res' = res /\ \A c \in Codes : SameHolds(c)
  <2>1. \A c \in Codes : codes'[c].reserved = codes[c].reserved
    BY <1>2 DEF PurchaseInv, LedgerInv, SameHolds
  <2>2. QED
    BY <1>2, <2>1 DEF Bought!purchases
<1>3. ASSUME NEW s \in Sessions, ReserveInsert(s) PROVE Bought!Next
  BY <1>3, ClaimIsPurchase DEF Bought!Next
<1>4. ASSUME NEW s \in Sessions, NEW k \in Keys, CommitRow(s, k) \/ ReleaseRow(s, k)
      PROVE  Bought!Next
  BY <1>4, SettlementIsPurchase DEF Bought!Next
<1>5. QED
  BY <1>1, <1>2, <1>3, <1>4, ReservationSteps

LEMMA PurchaseStep ==
  ASSUME PurchaseInv, [AnalysisNext]_analysisVars
  PROVE  [Bought!Next]_(Bought!purchases)
<1>1. AnalysisInv /\ AttemptInv /\ [Next]_vars
  BY StepIsAuthorizers DEF PurchaseInv, ExecutionInv, AnalysisInv
<1>2. CASE produced' = produced
  BY <1>1, <1>2, AuthorizerPurchases
<1>3. ASSUME NEW w \in Workers, ModelReports(w)
      PROVE  \E k \in Keys : Bought!Report(k)
  <2>1. attempt[w] # Idle /\ ~At(w, "reserve")
    BY <1>3 DEF ModelReports, At, Idle
  <2>2. PICK k \in Keys : k = Key(w)
    BY <1>1, <2>1, AttemptShape
  <2>3. res[k] \in ReservationRow
    BY <1>1, <2>1, <2>2
    DEF PurchaseInv, ExecutionInv, HoldsReservation, AnalysisInv, TypeInv, TypeOK
  <2>4. res' = res /\ codes' = codes /\ produced' = produced \cup {k}
    BY <1>3, <2>2 DEF ModelReports, vars
  <2>5. Bought!Report(k)
    BY <2>3, <2>4 DEF Bought!Report, ReservationRow
  <2>6. QED
    BY <2>5
<1>4. ASSUME NEW w \in Workers, Works(w) PROVE produced' = produced \/ ModelReports(w)
  BY <1>1, <1>4, WorkerHistory
<1>5. CASE PassStep \/ PassBreaks
  BY <1>1, <1>2, <1>5, PassRuns
<1>6. CASE \E w \in Workers : ModelReports(w)
  BY <1>3, <1>6 DEF Bought!Next
<1>7. QED
  BY <1>2, <1>4, <1>5, <1>6, StepKinds
  DEF Begin, ProcessCrash, Meanwhile, analysisVars, record

(* Every key is a purchase, whichever keys share a code and whatever         *)
(* requests, retries, crashes, passes and administrators do: one use is held *)
(* for it and paid, for a report only, or returned, and a second settlement  *)
(* goes through only while another key waits on the same code                *)
(* (control_plane.py:146-247, usage.py:238-266, 316-345).                   *)
THEOREM ImplementsPurchase == AnalysisSpec => PurchaseSpec
<1>1. PurchaseInv /\ [AnalysisNext]_analysisVars => [Bought!Next]_(Bought!purchases)
  BY PurchaseStep
<1>2. QED
  BY <1>1, PurchaseStays, PurchaseStarts, PTL DEF AnalysisSpec, PurchaseSpec, Bought!Spec

-----------------------------------------------------------------------------
(* How often a reservation is settled.                                      *)

(* Two keys that share a code do so for good, and a code is never taken back.*)
LEMMA SharingStays ==
  ASSUME TypeInv, [Next]_vars, NEW k \in Keys, res[k] # NoReservation, Shared(k)
  PROVE  Shared(k)'
BY ReservationsStay DEF Shared

OnceInv ==
  /\ HoldInv
  /\ \A k \in Keys : res[k].status \in {"none", "reserved"} => settled[k] = 0
  /\ SettledTwiceIsShared

(* A settlement of a row that is settled already takes another's hold.      *)
LEMMA SecondIsShared ==
  ASSUME HoldInv, NEW s \in Sessions, NEW k \in Keys, CommitRow(s, k) \/ ReleaseRow(s, k),
         res[k].status # "reserved"
  PROVE  Shared(k)
<1>1. CASE res[k].code = NoCode
  BY <1>1 DEF Shared
<1>2. CASE res[k].code # NoCode
  <2>1. PICK j \in Keys : res[j].status = "reserved" /\ res[j].code = res[k].code
    BY <1>2, SettlesWaiting
  <2>2. j # k /\ res[j] # NoReservation
    BY <2>1 DEF NoReservation
  <2>3. QED
    BY <2>1, <2>2 DEF Shared
<1>3. QED
  BY <1>1, <1>2

LEMMA OnceStays == OnceInv /\ [Next]_vars => OnceInv'
<1> SUFFICES ASSUME OnceInv, [Next]_vars PROVE OnceInv'
  OBVIOUS
<1>1. /\ HoldInv /\ TypeInv /\ HoldInv'
      /\ settled \in [Keys -> Nat] /\ res \in [Keys -> ReservationRow \cup {NoReservation}]
  BY HoldStays DEF OnceInv, HoldInv, TypeInv, TypeOK
<1> DEFINE Good(k) == /\ res[k].status \in {"none", "reserved"} => settled[k] = 0
                      /\ settled[k] > 1 => Shared(k)
<1>2. ASSUME NEW k \in Keys PROVE Good(k)'
  <2>1. Good(k)
    BY DEF OnceInv, SettledTwiceIsShared
  <2>2. settled[k] > 1 => res[k] # NoReservation
    BY <2>1 DEF NoReservation
  <2>3. res[k] # NoReservation /\ Shared(k) => Shared(k)'
    BY <1>1, SharingStays
  <2>4. ASSUME NEW s \in Sessions, NEW j \in Keys, CommitRow(s, j) \/ ReleaseRow(s, j)
        PROVE  Good(k)'
    <3>1. res[j] # NoReservation
      BY <1>1, <2>4, SettledStatus
    <3>2. settled' = [settled EXCEPT ![j] = settled[j] + 1]
      BY <2>4 DEF CommitRow, ReleaseRow, SettleRow
    <3>3. res'[j].status \notin {"none", "reserved"} /\ \A i \in Keys : i # j => res'[i] = res[i]
      BY <1>1, <2>4, SettledStatus
    <3>4. CASE k # j
      <4>1. settled'[k] = settled[k] /\ res'[k] = res[k]
        BY <1>1, <3>2, <3>3, <3>4
      <4>2. QED
        BY <2>1, <2>2, <2>3, <4>1
    <3>5. CASE k = j
      <4>1. settled'[k] = settled[k] + 1 /\ settled[k] \in Nat
        BY <1>1, <3>2, <3>5
      <4>2. CASE res[k].status = "reserved"
        BY <2>1, <3>3, <3>5, <4>1, <4>2
      <4>3. CASE res[k].status # "reserved"
        <5>1. Shared(k)
          BY <1>1, <2>4, <3>5, <4>3, SecondIsShared
        <5>2. QED
          BY <2>3, <3>1, <3>3, <3>5, <5>1
      <4>4. QED
        BY <4>2, <4>3
    <3>6. QED
      BY <3>4, <3>5
  <2>5. ASSUME NEW s \in Sessions, ReserveInsert(s) PROVE Good(k)'
    <3>1. settled' = settled /\ (res'[k] # res[k] => res[k].status = "none")
      BY <1>1, <2>5 DEF ReserveInsert, NoReservation
    <3>2. QED
      BY <2>1, <2>2, <2>3, <3>1
  <2>6. CASE res' = res /\ settled' = settled
    BY <2>1, <2>2, <2>3, <2>6
  <2>7. \/ settled' = settled
        \/ \E s \in Sessions, j \in Keys : CommitRow(s, j) \/ ReleaseRow(s, j)
    BY DEF Next, SessionStep, ReserveCheck, ReserveLookup, ReserveExisting, ReserveInsert, ReserveReject,
           SettleRead, SettleFail, Abandon, AdminStep, EditRead, GrantWrite, RevokeWrite, AbandonEdit,
           AdminWrite, CreateBatch, UpdateExpiry, UpdatePolicy, Crash, Tick, vars
  <2>8. QED
    BY <1>1, <2>4, <2>5, <2>6, <2>7, ReservationSteps
<1>3. QED
  BY <1>1, <1>2 DEF OnceInv, SettledTwiceIsShared

(* Only a reservation that shares its code, or has none, can be settled more *)
(* than once, however many sessions decide on a row they read before         *)
(* (usage.py:233, 311); the run double_settle shows that it happens.        *)
THEOREM TwiceSettledIsShared == AnalysisSpec => []SettledTwiceIsShared
<1>1. Init => OnceInv
  BY TypeInvInit, ReservationsFinite
  DEF Init, OnceInv, HoldInv, NoStrandedUses, AbsentCode, SettledTwiceIsShared
<1>2. OnceInv => SettledTwiceIsShared
  BY DEF OnceInv
<1>3. Spec => []SettledTwiceIsShared
  BY <1>1, <1>2, OnceStays, PTL DEF Spec
<1>4. QED
  BY <1>3, ImplementsAuthorizer, PTL DEF AuthorizerSpec
=============================================================================
