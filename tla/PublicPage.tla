------------------------------ MODULE PublicPage ------------------------------
(***************************************************************************)
(* The public page (App.tsx, PhotoForm.tsx, api.ts) against the service it *)
(* talks to: which request carries which idempotency key, what a retry     *)
(* gets, and what the page shows.                                          *)
(*                                                                         *)
(* The server side is the promise of analyze() for one key, in steps the   *)
(* page can tell apart; AnalysisLifecycle and InFlightRegistry model it    *)
(* step by step.  text stands for the two fields intent and access code.   *)
(* Anything may go wrong any number of times: requests lost or served      *)
(* late, answers lost, processes that die, refusals of every kind.  Left   *)
(* out: retention, which a page would have to stay open for a month to     *)
(* meet.                                                                   *)
(***************************************************************************)
EXTENDS Integers, FiniteSets

CONSTANTS
  Photos,        \* files the page accepts (validateFile)
  Corrupt,       \* those of them the server does not accept (validate_image)
  Texts,         \* contents of the text fields
  Blank,         \* the fields of a new page
  None,          \* null
  Requests,      \* bound: requests open at a time
  MaxKeys,       \* bound: idempotency keys ever created
  MaxToken,      \* bound: feedback tokens registered for a key
  MaxOperations  \* bound: operations a visitor begins

ASSUME PhotosAssumption == Corrupt \subseteq Photos /\ Blank \in Texts
ASSUME NoneAssumption == None \notin Photos \cup Requests
ASSUME BoundsAssumption == MaxKeys \in Nat /\ MaxToken \in Nat \ {0} /\ MaxOperations \in Nat

VARIABLES
  page,       \* the state of App
  created,    \* keys created so far
  req,        \* requests, from fetch to answer
  run,        \* the analysis of a key
  token,      \* its feedback token, 0 if none
  cached,     \* keys whose answer this process has in its registry
  operation,  \* history: the operation the visitor is in
  used,       \* history: which operation sent which key
  lapses      \* history: [gaveUp, forgot], keys with a given up request and
              \* keys whose cached answer was lost

service == <<run, token, cached>>
history == <<operation, used, lapses>>
vars == <<page, created, req, service, history>>
-----------------------------------------------------------------------------
Keys == 1 .. MaxKeys
Bodies == [photo : Photos, text : Texts]
ReportOf == [body : Bodies, key : Keys, token : 1 .. MaxToken]
Page == [file : Photos \cup {None}, text : Texts, consent : BOOLEAN,
         status : {"idle", "selected", "loading", "success", "error"},
         key : Keys \cup {0}, report : ReportOf \cup {None},
         wait : Requests \cup {None}]
NewPage == [file |-> None, text |-> Blank, consent |-> FALSE, status |-> "idle",
            key |-> 0, report |-> None, wait |-> None]
Idle == [step |-> "idle"]
Request == [step : {"sent", "execute", "wait", "answered"}, key : Keys, body : Bodies,
            answer : {"open", "report", "refused", "conflict", "failure"},
            token : 0 .. MaxToken]
NoRun == [status |-> "none"]
Run == [status : {"running", "succeeded", "failed"}, body : Bodies]

TypeOK ==
  /\ page \in Page
  /\ page.status = "loading" <=> page.wait # None
  /\ page.wait # None => req[page.wait] # Idle
  /\ created \in 0 .. MaxKeys
  /\ req \in [Requests -> Request \cup {Idle}]
  /\ run \in [Keys -> Run \cup {NoRun}]
  /\ token \in [Keys -> 0 .. MaxToken]
  /\ cached \subseteq Keys
  /\ operation \in 0 .. MaxOperations
  /\ used \subseteq [operation : 0 .. MaxOperations, key : Keys]
  /\ lapses \in [gaveUp : SUBSET Keys, forgot : SUBSET Keys]

Init ==
  /\ page = NewPage
  /\ created = 0
  /\ req = [r \in Requests |-> Idle]
  /\ run = [k \in Keys |-> NoRun]
  /\ token = [k \in Keys |-> 0]
  /\ cached = {}
  /\ operation = 0
  /\ used = {}
  /\ lapses = [gaveUp |-> {}, forgot |-> {}]

Loading == page.status = "loading"
At(r, step) == req[r] # Idle /\ req[r].step = step
-----------------------------------------------------------------------------
(* The page.                                                               *)

\* The visitor changes the photo or the text, or begins again.
NewOperation ==
  /\ operation < MaxOperations
  /\ operation' = operation + 1
  /\ UNCHANGED <<created, req, service, used, lapses>>

\* Mutant: the report of the last photo stays.
ChooseFileOnly(f) ==
  /\ ~Loading
  /\ page' = [page EXCEPT !.file = f, !.consent = FALSE, !.key = 0,
                          !.status = IF f = None THEN "idle" ELSE "selected"]
  /\ NewOperation

\* handleFileChange; a file that validateFile refuses counts as no file.
ChooseFile(f) ==
  /\ ~Loading
  /\ page' = [page EXCEPT !.file = f, !.consent = FALSE, !.key = 0, !.report = None,
                          !.status = IF f = None THEN "idle" ELSE "selected"]
  /\ NewOperation

\* handleIntentChange and handleAccessCodeChange.  A report that is shown stays.
Type(t) ==
  /\ ~Loading /\ t # page.text
  /\ page' = [page EXCEPT !.text = t, !.key = 0]
  /\ NewOperation

Consent(b) ==
  /\ ~Loading /\ b # page.consent
  /\ page' = [page EXCEPT !.consent = b]
  /\ UNCHANGED <<created, req, service, history>>

Begin(r, k) ==
  /\ page.file # None /\ page.consent /\ ~Loading
  /\ req[r] = Idle
  /\ page' = [page EXCEPT !.status = "loading", !.report = None, !.key = k, !.wait = r]
  /\ req' = [req EXCEPT ![r] =
       [step |-> "sent", key |-> k, body |-> [photo |-> page.file, text |-> page.text],
        answer |-> "open", token |-> 0]]
  /\ used' = used \cup {[operation |-> operation, key |-> k]}
  /\ UNCHANGED <<service, operation, lapses>>

\* Mutant: every submit makes a key of its own.
SubmitAnew(r) ==
  /\ created < MaxKeys
  /\ created' = created + 1
  /\ Begin(r, created + 1)

\* handleSubmit: a key is created unless the operation has one.
Submit(r) ==
  IF page.key # 0
  THEN Begin(r, page.key) /\ UNCHANGED created
  ELSE /\ created < MaxKeys
       /\ created' = created + 1
       /\ Begin(r, created + 1)

\* Mutant: an error is shown but the page goes on loading.
ReceiveReport(r) ==
  /\ At(r, "answered") /\ page.wait = r
  /\ page' = IF req[r].answer = "report"
             THEN [page EXCEPT !.wait = None, !.status = "success",
                     !.report = [body |-> req[r].body, key |-> req[r].key, token |-> req[r].token]]
             ELSE [page EXCEPT !.wait = None]
  /\ req' = [req EXCEPT ![r] = Idle]
  /\ UNCHANGED <<created, service, history>>

Receive(r) ==
  /\ At(r, "answered") /\ page.wait = r
  /\ page' = IF req[r].answer = "report"
             THEN [page EXCEPT !.wait = None, !.status = "success",
                     !.report = [body |-> req[r].body, key |-> req[r].key, token |-> req[r].token]]
             ELSE [page EXCEPT !.wait = None, !.status = "error"]
  /\ req' = [req EXCEPT ![r] = Idle]
  /\ UNCHANGED <<created, service, history>>

GiveUp(r) ==
  lapses' = [lapses EXCEPT !.gaveUp = @ \cup {req[r].key}]

\* fetch() fails; the request may arrive all the same.
NetworkError(r) ==
  /\ page.wait = r
  /\ page' = [page EXCEPT !.wait = None, !.status = "error"]
  /\ GiveUp(r)
  /\ UNCHANGED <<created, req, service, operation, used>>

\* A request that nobody waits for is lost on its way or its answer is.
Vanish(r) ==
  /\ page.wait # r
  /\ At(r, "sent") \/ At(r, "answered")
  /\ req' = [req EXCEPT ![r] = Idle]
  /\ UNCHANGED <<page, created, service, history>>

\* reset(), offered with a report.
Reset ==
  /\ page.report # None
  /\ page' = NewPage
  /\ NewOperation

\* The visitor reloads the page, also while it loads.
Reload ==
  /\ page # NewPage
  /\ operation < MaxOperations
  /\ operation' = operation + 1
  /\ page' = NewPage
  /\ IF page.wait # None THEN GiveUp(page.wait) ELSE UNCHANGED lapses
  /\ UNCHANGED <<created, req, service, used>>
-----------------------------------------------------------------------------
(* The service.                                                            *)

Answer(r, answer, t) ==
  req' = [req EXCEPT ![r] = [@ EXCEPT !.step = "answered", !.answer = answer, !.token = t]]
Unasked == UNCHANGED <<page, created, history>>

Executing(k) == \E r \in Requests : At(r, "execute") /\ req[r].key = k
\* validate_image.
Accepted(body) == body.photo \notin Corrupt
Matches(r) == run[req[r].key] # NoRun /\ run[req[r].key].body = req[r].body

\* Before anything is reserved: validation, the source limit, the access policy
\* and the quota.  The limit is spent before the cached answer is looked up.
Refuse(r) ==
  /\ At(r, "sent")
  /\ Answer(r, "refused", 0)
  /\ UNCHANGED service /\ Unasked

\* Mutant: a cached answer is returned and a new token registered.
FromCacheAnew(r) ==
  LET k == req[r].key IN
  /\ At(r, "sent") /\ Matches(r) /\ k \in cached
  /\ token[k] < MaxToken
  /\ Answer(r, "report", token[k])
  /\ token' = [token EXCEPT ![k] = @ + 1]
  /\ UNCHANGED <<run, cached>> /\ Unasked

FromCache(r) ==
  /\ At(r, "sent") /\ Matches(r) /\ req[r].key \in cached
  /\ Answer(r, "report", token[req[r].key])
  /\ UNCHANGED service /\ Unasked

Join(r) ==
  /\ At(r, "sent") /\ Matches(r) /\ Executing(req[r].key)
  /\ req' = [req EXCEPT ![r].step = "wait"]
  /\ UNCHANGED service /\ Unasked

\* The first request of a key, or one that finds the run of a dead process.
Execute(r) ==
  LET k == req[r].key IN
  /\ At(r, "sent") /\ Accepted(req[r].body)
  /\ \/ run[k] = NoRun
     \/ Matches(r) /\ run[k].status = "running" /\ ~Executing(k)
  /\ run' = [run EXCEPT ![k] = [status |-> "running", body |-> req[r].body]]
  /\ req' = [req EXCEPT ![r].step = "execute"]
  /\ UNCHANGED <<token, cached>> /\ Unasked

\* The answer goes to the request that executed and to those that wait.
Resolve(k, answer, t) ==
  req' = [r \in Requests |->
    IF req[r] # Idle /\ req[r].key = k /\ req[r].step \in {"execute", "wait"}
    THEN [req[r] EXCEPT !.step = "answered", !.answer = answer, !.token = t]
    ELSE req[r]]

Report(k) ==
  /\ token[k] < MaxToken
  /\ token' = [token EXCEPT ![k] = @ + 1]
  /\ cached' = cached \cup {k}

Succeed(r) ==
  LET k == req[r].key IN
  /\ At(r, "execute")
  /\ run' = [run EXCEPT ![k].status = "succeeded"]
  /\ Report(k)
  /\ Resolve(k, "report", token[k] + 1)
  /\ Unasked

\* The quota could not be confirmed after the report was stored.
SucceedUnconfirmed(r) ==
  LET k == req[r].key IN
  /\ At(r, "execute")
  /\ run' = [run EXCEPT ![k].status = "succeeded"]
  /\ Resolve(k, "refused", 0)
  /\ UNCHANGED <<token, cached>> /\ Unasked

\* The failure is recorded, unless the request does not own the reservation or
\* recording fails.
Fail(r) ==
  LET k == req[r].key IN
  /\ At(r, "execute")
  /\ \/ run' = [run EXCEPT ![k].status = "failed"]
     \/ UNCHANGED run
  /\ Resolve(k, "failure", 0)
  /\ UNCHANGED <<token, cached>> /\ Unasked

\* in_flight_wait_seconds.
WaitTimeout(r) ==
  /\ At(r, "wait")
  /\ Answer(r, "refused", 0)
  /\ UNCHANGED service /\ Unasked

\* A stored report is answered with a new token.
Replay(r) ==
  LET k == req[r].key IN
  /\ At(r, "sent") /\ Matches(r) /\ run[k].status = "succeeded" /\ k \notin cached
  /\ Report(k)
  /\ Answer(r, "report", token[k] + 1)
  /\ UNCHANGED run /\ Unasked

\* Mutant: a retry of a failed analysis starts over.
StartOver(r) ==
  LET k == req[r].key IN
  /\ At(r, "sent") /\ Matches(r) /\ run[k].status = "failed"
  /\ run' = [run EXCEPT ![k].status = "running"]
  /\ req' = [req EXCEPT ![r].step = "execute"]
  /\ UNCHANGED <<token, cached>> /\ Unasked

\* A stored failure is answered again, and a key that comes with another body
\* is refused.
ReplayFailure(r) ==
  /\ At(r, "sent") /\ run[req[r].key] # NoRun
  /\ IF Matches(r)
     THEN run[req[r].key].status = "failed" /\ Answer(r, "failure", 0)
     ELSE Answer(r, "conflict", 0)
  /\ UNCHANGED service /\ Unasked

Serve(r) ==
  \/ Refuse(r) \/ FromCache(r) \/ Join(r) \/ Execute(r)
  \/ Succeed(r) \/ SucceedUnconfirmed(r) \/ Fail(r) \/ WaitTimeout(r) \/ Replay(r) \/ ReplayFailure(r)

\* An answer leaves the cache by age or by pruning.
Forget(k) ==
  /\ k \in cached
  /\ cached' = cached \ {k}
  /\ lapses' = [lapses EXCEPT !.forgot = @ \cup {k}]
  /\ UNCHANGED <<page, created, req, run, token, operation, used>>

\* The process dies and a new one takes over: no request is answered.
Restart ==
  /\ \E r \in Requests : At(r, "execute") \/ At(r, "wait")
  /\ req' = [r \in Requests |->
       IF At(r, "execute") \/ At(r, "wait")
       THEN [req[r] EXCEPT !.step = "answered", !.answer = "refused"] ELSE req[r]]
  /\ cached' = {}
  /\ lapses' = [lapses EXCEPT !.forgot = @ \cup cached]
  /\ UNCHANGED <<page, created, run, token, operation, used>>
-----------------------------------------------------------------------------
Next ==
  \/ \E f \in Photos \cup {None} : ChooseFile(f)
  \/ \E t \in Texts : Type(t)
  \/ \E b \in BOOLEAN : Consent(b)
  \/ \E r \in Requests : Submit(r) \/ Receive(r) \/ NetworkError(r) \/ Vanish(r) \/ Serve(r)
  \/ Reset \/ Reload
  \/ \E k \in Keys : Forget(k)
  \/ Restart

Spec == Init /\ [][Next]_vars

\* The event loop serves every request that arrived; fetch() returns or fails.
Fairness == \A r \in Requests : WF_vars(Serve(r)) /\ WF_vars(Receive(r))
FairSpec == Spec /\ Fairness
-----------------------------------------------------------------------------
\* "One idempotency key per user operation" (App.tsx:24-26): however often a
\* visitor retries, after errors and lost answers, an operation sends one key,
\* and no other operation sends it.
OneKeyPerOperation ==
  \A x, y \in used : x.operation = y.operation <=> x.key = y.key

\* The page never sends one key with two contents, so none of its requests, also
\* of those served late, is answered idempotency_conflict (App.tsx:53-70).
NeverConflicts ==
  \A r \in Requests : req[r] # Idle => req[r].answer # "conflict"

\* A report is shown next to the photo it was made from (App.tsx:142-150).
ReportIsOfThePhoto ==
  page.report # None => /\ page.status = "success"
                        /\ page.report.body.photo = page.file

\* The feedback token of the report that is shown is the one the server knows.
\* It takes a given up request that is served late and a cached answer that was
\* lost to rotate it behind the page (feedback.py:67).
ShownTokenWorks ==
  page.report # None =>
    LET k == page.report.key IN
    page.report.token # token[k] => k \in lapses.gaveUp \cap lapses.forgot

\* A failed analysis stays failed for its key: every retry of the operation gets
\* the stored failure and only a change of the input can succeed (App.tsx:77,
\* control_plane.py:266).
FailureIsFinal ==
  [][\A k \in Keys : run[k] # NoRun /\ run[k].status = "failed" => run'[k] = run[k]]_vars

\* The page does not load forever (App.tsx:79-86).
LoadingEnds == Loading ~> ~Loading
=============================================================================
