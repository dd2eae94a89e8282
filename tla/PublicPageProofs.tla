-------------------------- MODULE PublicPageProofs --------------------------
(***************************************************************************)
(* Proofs about PublicPage, for any number of photos, texts, requests,     *)
(* keys and operations.                                                    *)
(***************************************************************************)
EXTENDS PublicPage, TLAPS

USE DEF service, history

-----------------------------------------------------------------------------
(* Types.                                                                  *)

AnswerKinds == {"open", "report", "refused", "conflict", "failure"}

(* What a step of the service does to the requests. *)
LEMMA AnswerShape ==
  ASSUME TypeOK, NEW r \in Requests, NEW a \in AnswerKinds, NEW t \in 0 .. MaxToken,
         req[r] # Idle, Answer(r, a, t)
  PROVE  /\ req' \in [Requests -> Request \cup {Idle}]
         /\ req'[r] # Idle /\ req'[r].key = req[r].key /\ req'[r].body = req[r].body
         /\ req'[r].step = "answered" /\ req'[r].answer = a /\ req'[r].token = t
         /\ \A s \in Requests : s # r => req'[s] = req[s]
<1>1. req \in [Requests -> Request \cup {Idle}] /\ req[r] \in Request
  BY DEF TypeOK
<1> DEFINE new == [req[r] EXCEPT !.step = "answered", !.answer = a, !.token = t]
<1>2. /\ new \in Request /\ new.key = req[r].key /\ new.body = req[r].body
      /\ new.step = "answered" /\ new.answer = a /\ new.token = t
  BY <1>1 DEF Request, AnswerKinds
<1>3. req' = [req EXCEPT ![r] = new]
  BY DEF Answer
<1>4. new # Idle
  BY <1>2 DEF Idle
<1>5. QED
  BY <1>1, <1>2, <1>3, <1>4

LEMMA StepShape ==
  ASSUME TypeOK, NEW r \in Requests, NEW st \in {"execute", "wait"},
         req[r] # Idle, req' = [req EXCEPT ![r].step = st]
  PROVE  /\ req' \in [Requests -> Request \cup {Idle}]
         /\ req'[r] # Idle /\ req'[r].key = req[r].key /\ req'[r].body = req[r].body
         /\ req'[r].step = st /\ req'[r].answer = req[r].answer /\ req'[r].token = req[r].token
         /\ \A s \in Requests : s # r => req'[s] = req[s]
<1>1. req \in [Requests -> Request \cup {Idle}] /\ req[r] \in Request
  BY DEF TypeOK
<1> DEFINE new == [req[r] EXCEPT !.step = st]
<1>2. /\ new \in Request /\ new.key = req[r].key /\ new.body = req[r].body
      /\ new.step = st /\ new.answer = req[r].answer /\ new.token = req[r].token
  BY <1>1 DEF Request
<1>3. req' = [req EXCEPT ![r] = new]
  OBVIOUS
<1>4. new # Idle
  BY <1>2 DEF Idle
<1>5. QED
  BY <1>1, <1>2, <1>3, <1>4

LEMMA ResolveShape ==
  ASSUME TypeOK, NEW k \in Keys, NEW a \in AnswerKinds, NEW t \in 0 .. MaxToken,
         Resolve(k, a, t)
  PROVE  /\ req' \in [Requests -> Request \cup {Idle}]
         /\ \A s \in Requests :
              \/ /\ req'[s] = req[s]
                 /\ ~(req[s] # Idle /\ req[s].key = k /\ req[s].step \in {"execute", "wait"})
              \/ /\ req[s] # Idle /\ req[s].key = k /\ req'[s] # Idle
                 /\ req'[s].key = req[s].key /\ req'[s].body = req[s].body
                 /\ req'[s].step = "answered" /\ req'[s].answer = a /\ req'[s].token = t
<1>1. req \in [Requests -> Request \cup {Idle}]
  BY DEF TypeOK
<1>2. ASSUME NEW q \in Request
      PROVE  LET new == [q EXCEPT !.step = "answered", !.answer = a, !.token = t]
             IN  /\ new \in Request /\ new # Idle /\ new.key = q.key /\ new.body = q.body
                 /\ new.step = "answered" /\ new.answer = a /\ new.token = t
  BY DEF Request, AnswerKinds, Idle
<1>3. req' = [s \in Requests |->
        IF req[s] # Idle /\ req[s].key = k /\ req[s].step \in {"execute", "wait"}
        THEN [req[s] EXCEPT !.step = "answered", !.answer = a, !.token = t]
        ELSE req[s]]
  BY DEF Resolve
<1>4. ASSUME NEW s \in Requests
      PROVE  /\ req'[s] \in Request \cup {Idle}
             /\ \/ /\ req'[s] = req[s]
                   /\ ~(req[s] # Idle /\ req[s].key = k /\ req[s].step \in {"execute", "wait"})
                \/ /\ req[s] # Idle /\ req[s].key = k /\ req'[s] # Idle
                   /\ req'[s].key = req[s].key /\ req'[s].body = req[s].body
                   /\ req'[s].step = "answered" /\ req'[s].answer = a /\ req'[s].token = t
  <2>1. CASE req[s] # Idle /\ req[s].key = k /\ req[s].step \in {"execute", "wait"}
    <3>1. req[s] \in Request
      BY <1>1, <2>1
    <3>2. req'[s] = [req[s] EXCEPT !.step = "answered", !.answer = a, !.token = t]
      BY <1>3, <2>1
    <3>3. QED
      BY <1>2, <2>1, <3>1, <3>2
  <2>2. CASE ~(req[s] # Idle /\ req[s].key = k /\ req[s].step \in {"execute", "wait"})
    BY <1>1, <1>3, <2>2
  <2>3. QED
    BY <2>1, <2>2
<1>5. QED
  BY <1>3, <1>4

(* The request that executes is alone with its key, and its run is open. *)
ExecInv ==
  \A r \in Requests :
    At(r, "execute") =>
      /\ run[req[r].key] \in Run /\ run[req[r].key].status = "running"
      /\ \A s \in Requests : At(s, "execute") /\ req[s].key = req[r].key => s = r

(* A report goes out with a token. *)
HasToken(q) == q # Idle /\ q.answer = "report" => q.token >= 1
TokenInv ==
  /\ \A k \in cached : token[k] >= 1
  /\ \A r \in Requests : HasToken(req[r])

TypeInv == TypeOK /\ ExecInv /\ TokenInv

(* The service neither forgets a request nor changes what it asks. *)
LEMMA ServeShape ==
  ASSUME TypeInv, NEW r \in Requests, Serve(r)
  PROVE  /\ req' \in [Requests -> Request \cup {Idle}]
         /\ run' \in [Keys -> Run \cup {NoRun}]
         /\ token' \in [Keys -> 0 .. MaxToken]
         /\ cached' \subseteq Keys
         /\ \A s \in Requests :
              req[s] # Idle => req'[s] # Idle /\ req'[s].key = req[s].key /\ req'[s].body = req[s].body
         /\ \A s \in Requests : req[s] = Idle => req'[s] = Idle
         /\ UNCHANGED <<page, created, history>>
<1>1. /\ req \in [Requests -> Request \cup {Idle}]
      /\ run \in [Keys -> Run \cup {NoRun}]
      /\ token \in [Keys -> 0 .. MaxToken]
      /\ cached \subseteq Keys
      /\ MaxToken \in Nat
      /\ TypeOK
  BY BoundsAssumption DEF TypeInv, TypeOK
<1>2. req[r] # Idle /\ req[r] \in Request /\ req[r].key \in Keys /\ req[r].body \in Bodies
  BY <1>1 DEF Serve, Refuse, FromCache, Join, Execute, Succeed, SucceedUnconfirmed, Fail,
       WaitTimeout, Replay, ReplayFailure, At, Request
<1>3. token[req[r].key] \in 0 .. MaxToken /\ 0 \in 0 .. MaxToken
  BY <1>1, <1>2
<1>4. UNCHANGED <<page, created, history>>
  BY DEF Serve, Refuse, FromCache, Join, Execute, Succeed, SucceedUnconfirmed, Fail,
       WaitTimeout, Replay, ReplayFailure, Unasked
<1>5. CASE Refuse(r) \/ WaitTimeout(r) \/ FromCache(r) \/ ReplayFailure(r)
  <2>1. /\ UNCHANGED service
        /\ \E a \in AnswerKinds, t \in 0 .. MaxToken : Answer(r, a, t)
    BY <1>3, <1>5 DEF Refuse, WaitTimeout, FromCache, ReplayFailure, AnswerKinds
  <2>2. QED
    BY <1>1, <1>2, <1>4, <2>1, AnswerShape
<1>6. CASE Join(r)
  BY <1>1, <1>2, <1>4, <1>6, StepShape DEF Join
<1>7. CASE Execute(r)
  <2>1. [status |-> "running", body |-> req[r].body] \in Run
    BY <1>2 DEF Run
  <2>2. run' \in [Keys -> Run \cup {NoRun}]
    BY <1>1, <1>2, <1>7, <2>1 DEF Execute
  <2>3. QED
    BY <1>1, <1>2, <1>4, <1>7, <2>2, StepShape DEF Execute
<1>8. ASSUME NEW st \in {"succeeded", "failed"}, run' = [run EXCEPT ![req[r].key].status = st],
             run[req[r].key] \in Run
      PROVE  run' \in [Keys -> Run \cup {NoRun}]
  <2>1. [run[req[r].key] EXCEPT !.status = st] \in Run
    BY <1>8 DEF Run
  <2>2. QED
    BY <1>1, <1>2, <1>8, <2>1
<1>9. ASSUME NEW k \in Keys, Report(k)
      PROVE  token' \in [Keys -> 0 .. MaxToken] /\ cached' \subseteq Keys /\ token[k] + 1 \in 0 .. MaxToken
  BY <1>1, <1>9 DEF Report
<1>10. CASE Succeed(r)
  <2>1. run[req[r].key] \in Run
    BY <1>10 DEF Succeed, TypeInv, ExecInv
  <2>2. Report(req[r].key) /\ Resolve(req[r].key, "report", token[req[r].key] + 1)
    BY <1>10 DEF Succeed
  <2>3. run' \in [Keys -> Run \cup {NoRun}]
    BY <1>8, <1>10, <2>1 DEF Succeed
  <2>4. "report" \in AnswerKinds
    BY DEF AnswerKinds
  <2>5. QED
    BY <1>1, <1>2, <1>4, <1>9, <2>2, <2>3, <2>4, ResolveShape
<1>11. CASE SucceedUnconfirmed(r) \/ Fail(r)
  <2>1. run[req[r].key] \in Run
    BY <1>11 DEF SucceedUnconfirmed, Fail, TypeInv, ExecInv
  <2>2. run' \in [Keys -> Run \cup {NoRun}]
    BY <1>1, <1>8, <1>11, <2>1 DEF SucceedUnconfirmed, Fail
  <2>3. \E a \in AnswerKinds : Resolve(req[r].key, a, 0)
    BY <1>11 DEF SucceedUnconfirmed, Fail, AnswerKinds
  <2>4. UNCHANGED <<token, cached>>
    BY <1>11 DEF SucceedUnconfirmed, Fail
  <2>5. QED
    BY <1>1, <1>2, <1>3, <1>4, <2>2, <2>3, <2>4, ResolveShape
<1>12. CASE Replay(r)
  <2>1. Report(req[r].key) /\ Answer(r, "report", token[req[r].key] + 1) /\ UNCHANGED run
    BY <1>12 DEF Replay
  <2>2. "report" \in AnswerKinds
    BY DEF AnswerKinds
  <2>3. QED
    BY <1>1, <1>2, <1>4, <1>9, <2>1, <2>2, AnswerShape
<1>13. QED
  BY <1>5, <1>6, <1>7, <1>10, <1>11, <1>12 DEF Serve

LEMMA ServeType ==
  ASSUME TypeInv, NEW r \in Requests, Serve(r)
  PROVE  TypeOK'
<1>1. page.wait # None => page.wait \in Requests
  BY DEF TypeInv, TypeOK, Page
<1>2. /\ req' \in [Requests -> Request \cup {Idle}]
      /\ run' \in [Keys -> Run \cup {NoRun}]
      /\ token' \in [Keys -> 0 .. MaxToken]
      /\ cached' \subseteq Keys
      /\ \A s \in Requests : req[s] # Idle => req'[s] # Idle
      /\ UNCHANGED <<page, created, history>>
  BY ServeShape
<1>3. QED
  BY <1>1, <1>2 DEF TypeInv, TypeOK

LEMMA ServeTokens ==
  ASSUME TypeInv, NEW r \in Requests, Serve(r)
  PROVE  TokenInv'
<1>1. /\ TypeOK /\ TokenInv
      /\ req \in [Requests -> Request \cup {Idle}]
      /\ token \in [Keys -> 0 .. MaxToken]
      /\ cached \subseteq Keys
      /\ MaxToken \in Nat
  BY BoundsAssumption DEF TypeInv, TypeOK
<1>2. req[r] # Idle /\ req[r].key \in Keys
  BY <1>1 DEF Serve, Refuse, FromCache, Join, Execute, Succeed, SucceedUnconfirmed, Fail,
       WaitTimeout, Replay, ReplayFailure, At, Request
<1>3. ASSUME NEW a \in AnswerKinds, NEW t \in 0 .. MaxToken,
             Answer(r, a, t) \/ Resolve(req[r].key, a, t), a = "report" => t >= 1
      PROVE  \A s \in Requests : HasToken(req'[s])
  BY <1>1, <1>2, <1>3, AnswerShape, ResolveShape DEF TokenInv, HasToken
<1>4. CASE UNCHANGED <<token, cached>> /\ \E a \in AnswerKinds \ {"report"} :
             Answer(r, a, 0) \/ Resolve(req[r].key, a, 0)
  BY <1>1, <1>3, <1>4 DEF TokenInv
<1>5. CASE FromCache(r)
  <2>1. token[req[r].key] >= 1 /\ token[req[r].key] \in 0 .. MaxToken
    BY <1>1, <1>2, <1>5 DEF FromCache, TokenInv
  <2>2. UNCHANGED <<token, cached>> /\ Answer(r, "report", token[req[r].key]) /\ "report" \in AnswerKinds
    BY <1>5 DEF FromCache, AnswerKinds
  <2>3. QED
    BY <1>1, <1>3, <2>1, <2>2 DEF TokenInv
<1>6. CASE Join(r) \/ Execute(r)
  <2>1. UNCHANGED <<token, cached>>
    BY <1>6 DEF Join, Execute
  <2>2. \E st \in {"execute", "wait"} : req' = [req EXCEPT ![r].step = st]
    BY <1>6 DEF Join, Execute
  <2>3. \A s \in Requests : HasToken(req'[s])
    BY <1>1, <1>2, <2>2, StepShape DEF TokenInv, HasToken
  <2>4. QED
    BY <1>1, <2>1, <2>3 DEF TokenInv
<1>7. CASE Succeed(r) \/ Replay(r)
  <2> DEFINE k == req[r].key
  <2>1. Report(k) /\ (Answer(r, "report", token[k] + 1) \/ Resolve(k, "report", token[k] + 1))
    BY <1>7 DEF Succeed, Replay
  <2>2. /\ token[k] + 1 \in 0 .. MaxToken /\ token[k] + 1 >= 1
        /\ token' = [token EXCEPT ![k] = token[k] + 1] /\ cached' = cached \cup {k}
    BY <1>1, <1>2, <2>1 DEF Report
  <2>3. \A j \in cached' : token'[j] >= 1
    BY <1>1, <1>2, <2>2 DEF TokenInv
  <2>4. "report" \in AnswerKinds
    BY DEF AnswerKinds
  <2>5. \A s \in Requests : HasToken(req'[s])
    BY <1>3, <2>1, <2>2, <2>4
  <2>6. QED
    BY <2>3, <2>5 DEF TokenInv
<1>8. QED
  BY <1>4, <1>5, <1>6, <1>7
  DEF Serve, Refuse, SucceedUnconfirmed, Fail, WaitTimeout, ReplayFailure, AnswerKinds

(* The page: what it does leaves the service alone. *)
LEMMA PageType ==
  ASSUME TypeInv, [Next]_vars, ~\E r \in Requests : Serve(r)
  PROVE  TypeOK'
<1>1. /\ TypeOK /\ page \in Page /\ None \notin Photos \cup Requests /\ Blank \in Texts
      /\ page.wait # None => page.wait \in Requests
  BY PhotosAssumption, NoneAssumption DEF TypeInv, TypeOK, Page
<1>2. operation < MaxOperations => operation + 1 \in 0 .. MaxOperations
  BY BoundsAssumption DEF TypeInv, TypeOK
<1>3. CASE \E f \in Photos \cup {None} : ChooseFile(f)
  <2>1. PICK f \in Photos \cup {None} : ChooseFile(f)
    BY <1>3
  <2>2. page' \in Page /\ page'.wait = None /\ page'.status # "loading"
    BY <1>1, <2>1 DEF ChooseFile, Page, Loading, TypeOK
  <2>3. QED
    BY <1>1, <1>2, <2>1, <2>2 DEF ChooseFile, NewOperation, TypeOK
<1>4. CASE \E t \in Texts : Type(t)
  <2>1. PICK t \in Texts : Type(t)
    BY <1>4
  <2>2. page' \in Page /\ page'.wait = None /\ page'.status # "loading"
    BY <1>1, <2>1 DEF Type, Page, Loading, TypeOK
  <2>3. QED
    BY <1>1, <1>2, <2>1, <2>2 DEF Type, NewOperation, TypeOK
<1>5. CASE \E b \in BOOLEAN : Consent(b)
  <2>1. PICK b \in BOOLEAN : Consent(b)
    BY <1>5
  <2>2. page' \in Page /\ page'.wait = None /\ page'.status # "loading"
    BY <1>1, <2>1 DEF Consent, Page, Loading, TypeOK
  <2>3. QED
    BY <1>1, <2>1, <2>2 DEF Consent, TypeOK
<1>6. CASE Reset \/ Reload
  <2>1. NewPage \in Page /\ NewPage.wait = None /\ NewPage.status # "loading"
    BY <1>1 DEF NewPage, Page
  <2>2. /\ page' = NewPage /\ operation' = operation + 1 /\ operation < MaxOperations
        /\ UNCHANGED <<created, req, service, used>>
    BY <1>6 DEF Reset, Reload, NewOperation
  <2>3. lapses' \in [gaveUp : SUBSET Keys, forgot : SUBSET Keys]
    <3>1. CASE lapses' = lapses
      BY <1>1, <3>1 DEF TypeOK
    <3>2. CASE page.wait # None /\ GiveUp(page.wait)
      <4>1. page.wait \in Requests /\ req[page.wait].key \in Keys
        BY <1>1, <3>2 DEF TypeOK, Page, Request
      <4>2. QED
        BY <1>1, <3>2, <4>1 DEF GiveUp, TypeOK
    <3>3. QED
      BY <1>6, <3>1, <3>2 DEF Reset, Reload, NewOperation
  <2>4. QED
    BY <1>1, <1>2, <2>1, <2>2, <2>3 DEF TypeOK
<1>7. ASSUME NEW r \in Requests, Submit(r) PROVE TypeOK'
  <2>1. PICK k \in Keys : Begin(r, k) /\ created' \in 0 .. MaxKeys
    <3>1. CASE page.key # 0
      <4>1. page.key \in Keys /\ Begin(r, page.key) /\ created' = created
        BY <1>1, <1>7, <3>1 DEF Submit, Page
      <4>2. QED
        BY <1>1, <4>1 DEF TypeOK
    <3>2. CASE page.key = 0
      <4>1. created < MaxKeys /\ created' = created + 1 /\ Begin(r, created + 1)
        BY <1>7, <3>2 DEF Submit
      <4>2. created + 1 \in Keys /\ created + 1 \in 0 .. MaxKeys
        BY <1>1, <4>1, BoundsAssumption DEF Keys, TypeOK
      <4>3. QED
        BY <4>1, <4>2
    <3>3. QED
      BY <3>1, <3>2
  <2> DEFINE new == [step |-> "sent", key |-> k, body |-> [photo |-> page.file, text |-> page.text],
                     answer |-> "open", token |-> 0]
  <2>2. new \in Request /\ new # Idle
    BY <1>1, <2>1, BoundsAssumption DEF Begin, Request, Bodies, Page, Idle
  <2>3. /\ page' \in Page /\ page'.wait = r /\ page'.status = "loading"
        /\ req' = [req EXCEPT ![r] = new]
    BY <1>1, <2>1 DEF Begin, Page
  <2>4. used' \subseteq [operation : 0 .. MaxOperations, key : Keys]
    BY <1>1, <2>1 DEF Begin, TypeOK
  <2>5. r # None
    BY <1>1
  <2>6. QED
    BY <1>1, <2>1, <2>2, <2>3, <2>4, <2>5 DEF Begin, TypeOK
<1>8. ASSUME NEW r \in Requests, Receive(r) PROVE TypeOK'
  <2>1. req[r] \in Request /\ page.wait = r
    BY <1>1, <1>8 DEF Receive, At, TypeOK
  <2>2. page' \in Page /\ page'.wait = None /\ page'.status # "loading"
    <3>1. CASE req[r].answer = "report"
      <4>1. req[r].token \in 1 .. MaxToken
        BY <1>8, <2>1, <3>1, BoundsAssumption DEF Receive, At, TypeInv, TokenInv, HasToken, Request
      <4>2. [body |-> req[r].body, key |-> req[r].key, token |-> req[r].token] \in ReportOf
        BY <2>1, <4>1 DEF Request, ReportOf
      <4>3. QED
        BY <1>1, <1>8, <3>1, <4>2 DEF Receive, Page
    <3>2. CASE req[r].answer # "report"
      BY <1>1, <1>8, <3>2 DEF Receive, Page
    <3>3. QED
      BY <3>1, <3>2
  <2>3. QED
    BY <1>1, <1>8, <2>2 DEF Receive, TypeOK
<1>9. ASSUME NEW r \in Requests, NetworkError(r) PROVE TypeOK'
  <2>1. req[r] \in Request /\ req[r].key \in Keys
    BY <1>1, <1>9 DEF NetworkError, TypeOK, Request
  <2>2. page' \in Page /\ page'.wait = None /\ page'.status # "loading"
    BY <1>1, <1>9 DEF NetworkError, Page
  <2>3. lapses' \in [gaveUp : SUBSET Keys, forgot : SUBSET Keys]
    BY <1>1, <1>9, <2>1 DEF NetworkError, GiveUp, TypeOK
  <2>4. QED
    BY <1>1, <1>9, <2>2, <2>3 DEF NetworkError, TypeOK
<1>10. ASSUME NEW r \in Requests, Vanish(r) PROVE TypeOK'
  BY <1>1, <1>10 DEF Vanish, TypeOK
<1>11. ASSUME NEW k \in Keys, Forget(k) PROVE TypeOK'
  <2>1. cached' \subseteq Keys /\ lapses' \in [gaveUp : SUBSET Keys, forgot : SUBSET Keys]
    BY <1>1, <1>11 DEF Forget, TypeOK
  <2>2. QED
    BY <1>1, <1>11, <2>1 DEF Forget, TypeOK
<1>12. CASE Restart
  <2>1. req' \in [Requests -> Request \cup {Idle}] /\ \A r \in Requests : req[r] # Idle => req'[r] # Idle
    <3>1. ASSUME NEW r \in Requests, req[r] # Idle
          PROVE  LET new == [req[r] EXCEPT !.step = "answered", !.answer = "refused"]
                 IN  new \in Request /\ new # Idle
      BY <1>1, <3>1 DEF TypeOK, Request, Idle
    <3>2. QED
      BY <1>1, <1>12, <3>1 DEF Restart, At, TypeOK
  <2>2. lapses' \in [gaveUp : SUBSET Keys, forgot : SUBSET Keys] /\ cached' \subseteq Keys
    BY <1>1, <1>12 DEF Restart, TypeOK
  <2>3. QED
    BY <1>1, <1>12, <2>1, <2>2 DEF Restart, TypeOK
<1>13. CASE UNCHANGED vars
  BY <1>1, <1>13 DEF vars, TypeOK
<1>14. QED
  BY <1>3, <1>4, <1>5, <1>6, <1>7, <1>8, <1>9, <1>10, <1>11, <1>12, <1>13 DEF Next

(* What the page and the environment do to a request. *)
LEMMA PageShape ==
  ASSUME TypeInv, [Next]_vars, ~\E r \in Requests : Serve(r)
  PROVE  /\ UNCHANGED <<run, token>> /\ cached' \subseteq cached
         /\ \A s \in Requests :
              \/ req'[s] = req[s] \/ req'[s] = Idle
              \/ Submit(s) /\ req'[s].step = "sent" /\ req'[s].answer = "open"
              \/ /\ req[s] # Idle
                 /\ req'[s].key = req[s].key /\ req'[s].body = req[s].body
                 /\ req'[s].step = "answered" /\ req'[s].answer = "refused"
<1>1. req \in [Requests -> Request \cup {Idle}]
  BY DEF TypeInv, TypeOK
<1>2. ASSUME NEW r \in Requests, Submit(r)
      PROVE  /\ \A s \in Requests : s # r => req'[s] = req[s]
             /\ req'[r].step = "sent" /\ req'[r].answer = "open"
  BY <1>1, <1>2 DEF Submit, Begin
<1>3. ASSUME Restart, NEW s \in Requests
      PROVE  \/ req'[s] = req[s]
             \/ /\ req[s] # Idle
                /\ req'[s].key = req[s].key /\ req'[s].body = req[s].body
                /\ req'[s].step = "answered" /\ req'[s].answer = "refused"
  <2>1. CASE At(s, "execute") \/ At(s, "wait")
    <3>1. req[s] \in Request /\ req[s] # Idle
      BY <1>1, <2>1 DEF At
    <3>2. req'[s] = [req[s] EXCEPT !.step = "answered", !.answer = "refused"]
      BY <1>3, <2>1 DEF Restart
    <3>3. QED
      BY <3>1, <3>2 DEF Request
  <2>2. CASE ~(At(s, "execute") \/ At(s, "wait"))
    BY <1>3, <2>2 DEF Restart
  <2>3. QED
    BY <2>1, <2>2
<1>4. ASSUME NEW r \in Requests, Receive(r) \/ Vanish(r)
      PROVE  \A s \in Requests : req'[s] = req[s] \/ req'[s] = Idle
  BY <1>1, <1>4 DEF Receive, Vanish
<1>5. UNCHANGED <<run, token>> /\ cached' \subseteq cached
  BY DEF Next, ChooseFile, Type, Consent, NewOperation, Submit, Begin, Receive, NetworkError,
       Vanish, Reset, Reload, Forget, Restart, vars
<1>6. CASE UNCHANGED req
  BY <1>5, <1>6
<1>7. CASE \E r \in Requests : Submit(r)
  BY <1>2, <1>5, <1>7
<1>8. CASE Restart \/ \E r \in Requests : Receive(r) \/ Vanish(r)
  BY <1>3, <1>4, <1>5, <1>8
<1>9. QED
  BY <1>6, <1>7, <1>8
  DEF Next, ChooseFile, Type, Consent, NewOperation, NetworkError, Reset, Reload, Forget, vars

LEMMA PageKeepsInv ==
  ASSUME TypeInv, [Next]_vars, ~\E r \in Requests : Serve(r)
  PROVE  ExecInv' /\ TokenInv'
<1>1. /\ UNCHANGED <<run, token>> /\ cached' \subseteq cached
      /\ \A s \in Requests :
           \/ req'[s] = req[s] \/ req'[s] = Idle
           \/ req'[s].step = "sent" /\ req'[s].answer = "open"
           \/ req'[s].step = "answered" /\ req'[s].answer = "refused"
  BY PageShape
<1>2. \A s \in Requests : At(s, "execute")' => req'[s] = req[s] /\ At(s, "execute")
  BY <1>1 DEF At
<1>3. ExecInv'
  BY <1>1, <1>2 DEF TypeInv, ExecInv
<1>4. TokenInv'
  BY <1>1 DEF TypeInv, TokenInv, HasToken
<1>5. QED
  BY <1>3, <1>4

LEMMA ServeKeepsExec ==
  ASSUME TypeInv, NEW r \in Requests, Serve(r)
  PROVE  ExecInv'
<1>1. /\ TypeOK /\ ExecInv
      /\ req \in [Requests -> Request \cup {Idle}]
      /\ run \in [Keys -> Run \cup {NoRun}]
      /\ MaxToken \in Nat
  BY BoundsAssumption DEF TypeInv, TypeOK
<1>2. req[r] # Idle /\ req[r] \in Request /\ req[r].key \in Keys
  BY <1>1 DEF Serve, Refuse, FromCache, Join, Execute, Succeed, SucceedUnconfirmed, Fail,
       WaitTimeout, Replay, ReplayFailure, At, Request
<1> DEFINE k == req[r].key
<1>3. CASE /\ UNCHANGED run
           /\ \A s \in Requests : At(s, "execute")' => req'[s] = req[s] /\ At(s, "execute")
  BY <1>1, <1>3 DEF ExecInv
<1>4. ASSUME NEW a \in AnswerKinds, NEW t \in 0 .. MaxToken, Answer(r, a, t)
      PROVE  \A s \in Requests : At(s, "execute")' => req'[s] = req[s] /\ At(s, "execute")
  BY <1>1, <1>2, <1>4, AnswerShape DEF At
<1>5. CASE Refuse(r) \/ WaitTimeout(r) \/ FromCache(r) \/ ReplayFailure(r) \/ Replay(r)
  <2>1. UNCHANGED run /\ token[k] \in 0 .. MaxToken
    BY <1>1, <1>2, <1>5 DEF Refuse, WaitTimeout, FromCache, ReplayFailure, Replay, TypeOK
  <2>2. \E a \in AnswerKinds, t \in 0 .. MaxToken : Answer(r, a, t)
    BY <1>1, <1>5, <2>1 DEF Refuse, WaitTimeout, FromCache, ReplayFailure, Replay, Report, AnswerKinds
  <2>3. QED
    BY <1>3, <1>4, <2>1, <2>2
<1>6. CASE Join(r)
  BY <1>1, <1>2, <1>3, <1>6, StepShape DEF Join, At
<1>7. CASE Execute(r)
  <2>1. ~Executing(k)
    BY <1>1, <1>7 DEF Execute, Executing, ExecInv, Run, NoRun
  <2>2. /\ req'[r] # Idle /\ req'[r].key = k /\ req'[r].step = "execute"
        /\ \A s \in Requests : s # r => req'[s] = req[s]
    BY <1>1, <1>2, <1>7, StepShape DEF Execute
  <2>3. run'[k] = [status |-> "running", body |-> req[r].body] /\ req[r].body \in Bodies
    BY <1>1, <1>2, <1>7 DEF Execute, Request
  <2>4. \A j \in Keys : j # k => run'[j] = run[j]
    BY <1>1, <1>2, <1>7 DEF Execute
  <2>5. run'[k] \in Run /\ run'[k].status = "running"
    BY <2>3 DEF Run
  <2>6. \A s \in Requests : At(s, "execute") => req[s].key \in Keys /\ req[s].key # k
    BY <1>1, <2>1 DEF Executing, At, Request
  <2>7. \A s \in Requests : At(s, "execute")' => s = r \/ (At(s, "execute") /\ req'[s] = req[s])
    BY <2>2 DEF At
  <2>8. QED
    BY <1>1, <2>2, <2>4, <2>5, <2>6, <2>7 DEF ExecInv
<1>8. CASE Succeed(r) \/ SucceedUnconfirmed(r) \/ Fail(r)
  <2>1. \E a \in AnswerKinds, t \in 0 .. MaxToken : Resolve(k, a, t)
    BY <1>1, <1>2, <1>8 DEF Succeed, SucceedUnconfirmed, Fail, Report, AnswerKinds, TypeOK
  <2>2. \A s \in Requests : At(s, "execute")' =>
          req'[s] = req[s] /\ At(s, "execute") /\ req[s].key # k
    BY <1>1, <1>2, <2>1, ResolveShape DEF At
  <2>3. \A j \in Keys : j # k => run'[j] = run[j]
    BY <1>1, <1>2, <1>8 DEF Succeed, SucceedUnconfirmed, Fail
  <2>4. \A s \in Requests : At(s, "execute") => req[s].key \in Keys
    BY <1>1 DEF At, Request
  <2>5. QED
    BY <1>1, <2>2, <2>3, <2>4 DEF ExecInv
<1>9. QED
  BY <1>5, <1>6, <1>7, <1>8 DEF Serve

LEMMA TypeInvInit == Init => TypeInv
<1> SUFFICES ASSUME Init PROVE TypeInv
  OBVIOUS
<1>1. NewPage \in Page /\ NewPage.status # "loading" /\ NewPage.wait = None
  BY PhotosAssumption DEF NewPage, Page
<1>2. TypeOK
  BY <1>1, BoundsAssumption DEF Init, TypeOK
<1>3. ExecInv /\ TokenInv
  BY DEF Init, ExecInv, TokenInv, HasToken, At
<1>4. QED
  BY <1>2, <1>3 DEF TypeInv

LEMMA TypeInvStep == TypeInv /\ [Next]_vars => TypeInv'
<1> SUFFICES ASSUME TypeInv, [Next]_vars PROVE TypeInv'
  OBVIOUS
<1>1. CASE \E r \in Requests : Serve(r)
  BY <1>1, ServeType, ServeTokens, ServeKeepsExec DEF TypeInv
<1>2. CASE ~\E r \in Requests : Serve(r)
  BY <1>2, PageType, PageKeepsInv DEF TypeInv
<1>3. QED
  BY <1>1, <1>2

(* Type correctness; with it, that a report never goes out without a token *)
(* and that an executing request is alone with its key.                    *)
THEOREM PageTypeCorrect == Spec => []TypeOK
<1>1. TypeInv => TypeOK
  BY DEF TypeInv
<1>2. QED
  BY <1>1, TypeInvInit, TypeInvStep, PTL DEF Spec

-----------------------------------------------------------------------------
(* A failed analysis stays failed (App.tsx:77, control_plane.py:266): only *)
(* an executing request writes the run, and the run it executes is open.   *)
THEOREM FailedStaysFailed == Spec => FailureIsFinal
<1>1. ASSUME TypeInv, [Next]_vars
      PROVE  [\A k \in Keys : run[k] # NoRun /\ run[k].status = "failed" => run'[k] = run[k]]_vars
  <2>1. SUFFICES ASSUME NEW k \in Keys, run[k] # NoRun, run[k].status = "failed"
                 PROVE  run'[k] = run[k]
    OBVIOUS
  <2>2. run \in [Keys -> Run \cup {NoRun}]
    BY <1>1 DEF TypeInv, TypeOK
  <2>3. CASE ~\E r \in Requests : Serve(r)
    BY <1>1, <2>3, PageShape
  <2>4. ASSUME NEW r \in Requests, Serve(r) PROVE run'[k] = run[k]
    <3>1. CASE Execute(r)
      BY <2>1, <2>2, <3>1 DEF Execute
    <3>2. CASE Succeed(r) \/ SucceedUnconfirmed(r) \/ Fail(r)
      <4>1. run[req[r].key].status = "running"
        BY <1>1, <3>2 DEF Succeed, SucceedUnconfirmed, Fail, TypeInv, ExecInv
      <4>2. req[r].key # k
        BY <2>1, <4>1
      <4>3. QED
        BY <2>2, <3>2, <4>2 DEF Succeed, SucceedUnconfirmed, Fail
    <3>3. QED
      BY <2>4, <3>1, <3>2
      DEF Serve, Refuse, FromCache, Join, WaitTimeout, Replay, ReplayFailure
  <2>5. QED
    BY <2>3, <2>4
<1>2. QED
  BY <1>1, TypeInvInit, TypeInvStep, PTL DEF Spec, FailureIsFinal

-----------------------------------------------------------------------------
(* Keys and operations.                                                    *)

KeyInv ==
  /\ page.key <= created
  /\ \A x \in used : x.operation <= operation /\ x.key <= created
  /\ page.key # 0 => [operation |-> operation, key |-> page.key] \in used
  /\ page.key = 0 => \A x \in used : x.operation < operation
  /\ OneKeyPerOperation

(* Everything but Submit leaves the keys alone or begins an operation.      *)
LEMMA KeyMoves ==
  ASSUME TypeInv, [Next]_vars
  PROVE  \/ \E r \in Requests : Submit(r)
         \/ UNCHANGED <<created, used, operation>> /\ page'.key = page.key
         \/ UNCHANGED <<created, used>> /\ operation' = operation + 1 /\ page'.key = 0
<1>1. page \in Page
  BY DEF TypeInv, TypeOK
<1>2. CASE (\E f \in Photos \cup {None} : ChooseFile(f)) \/ (\E t \in Texts : Type(t))
  BY <1>1, <1>2 DEF ChooseFile, Type, NewOperation, Page
<1>3. CASE Reset \/ Reload
  BY <1>3 DEF Reset, Reload, NewOperation, NewPage
<1>4. CASE \E b \in BOOLEAN : Consent(b)
  BY <1>1, <1>4 DEF Consent, Page
<1>5. CASE \E r \in Requests : Receive(r) \/ NetworkError(r)
  BY <1>1, <1>5 DEF Receive, NetworkError, Page
<1>6. CASE \E r \in Requests : Serve(r)
  BY <1>6, ServeShape
<1>7. CASE (\E r \in Requests : Vanish(r)) \/ (\E k \in Keys : Forget(k)) \/ Restart \/ UNCHANGED vars
  BY <1>7 DEF Vanish, Forget, Restart, vars
<1>8. QED
  BY <1>2, <1>3, <1>4, <1>5, <1>6, <1>7 DEF Next

LEMMA KeyInvStep == TypeInv /\ KeyInv /\ [Next]_vars => KeyInv'
<1> SUFFICES ASSUME TypeInv, KeyInv, [Next]_vars PROVE KeyInv'
  OBVIOUS
<1>1. /\ page \in Page /\ page.key \in Nat /\ created \in Nat /\ operation \in Nat
      /\ \A x \in used : x.operation \in Nat /\ x.key \in Nat
  BY BoundsAssumption DEF TypeInv, TypeOK, Page, Keys
<1>2. CASE UNCHANGED <<created, used, operation>> /\ page'.key = page.key
  BY <1>2 DEF KeyInv, OneKeyPerOperation
<1>3. CASE UNCHANGED <<created, used>> /\ operation' = operation + 1 /\ page'.key = 0
  BY <1>1, <1>3 DEF KeyInv, OneKeyPerOperation
<1>4. ASSUME NEW r \in Requests, Submit(r) PROVE KeyInv'
  <2> DEFINE new(k) == [operation |-> operation, key |-> k]
  <2>1. CASE page.key # 0
    <3>1. /\ created' = created /\ operation' = operation
          /\ used' = used \cup {new(page.key)}
          /\ page'.key = page.key
      BY <1>1, <1>4, <2>1 DEF Submit, Begin, Page
    <3>2. used' = used
      BY <2>1, <3>1 DEF KeyInv
    <3>3. QED
      BY <3>1, <3>2 DEF KeyInv, OneKeyPerOperation
  <2>2. CASE page.key = 0
    <3>1. /\ created' = created + 1 /\ operation' = operation
          /\ used' = used \cup {new(created + 1)}
          /\ page'.key = created + 1
      BY <1>1, <1>4, <2>2 DEF Submit, Begin, Page
    <3>2. \A x \in used : x.operation < operation /\ x.key < created + 1
      BY <1>1, <2>2 DEF KeyInv
    <3>3. OneKeyPerOperation'
      BY <1>1, <3>1, <3>2 DEF KeyInv, OneKeyPerOperation
    <3>4. QED
      BY <1>1, <3>1, <3>2, <3>3 DEF KeyInv
  <2>3. QED
    BY <2>1, <2>2
<1>5. QED
  BY <1>2, <1>3, <1>4, KeyMoves

(* However often an operation is retried it sends one key, and no other    *)
(* operation sends it (App.tsx:24-26).                                     *)
THEOREM OneKey == Spec => []OneKeyPerOperation
<1>1. Init => KeyInv
  BY BoundsAssumption DEF Init, KeyInv, OneKeyPerOperation, NewPage
<1>2. KeyInv => OneKeyPerOperation
  BY DEF KeyInv
<1>3. QED
  BY <1>1, <1>2, KeyInvStep, TypeInvInit, TypeInvStep, PTL DEF Spec

-----------------------------------------------------------------------------
(* Contents.  Each key stands for one content, wherever it is found.       *)

Shown == [photo |-> page.file, text |-> page.text]
Carries(b) ==
  /\ \A r \in Requests : req[r] # Idle =>
       req[r].key <= created /\ req[r].body = b[req[r].key] /\ req[r].answer # "conflict"
  /\ \A k \in Keys : run[k] # NoRun => k <= created /\ run[k].body = b[k]
  /\ page.key # 0 => page.key <= created /\ b[page.key] = Shown

Contents == [Keys -> [photo : Photos \cup {None}, text : Texts]]
ContentInv ==
  /\ \E b \in Contents : Carries(b)
  /\ page.wait # None => req[page.wait].body = Shown
  /\ ReportIsOfThePhoto

(* Without Submit and Serve no request and no run gets another content.     *)
LEMMA EditContent ==
  ASSUME TypeInv, ContentInv, [Next]_vars, ~\E r \in Requests : Submit(r) \/ Serve(r)
  PROVE  ContentInv'
<1>1. PICK b \in Contents : Carries(b)
  BY DEF ContentInv
<1>2. page \in Page /\ (page.status = "loading" <=> page.wait # None)
  BY DEF TypeInv, TypeOK
<1>3. /\ created' = created
      /\ \/ page'.key = 0
         \/ page'.key = page.key /\ page'.file = page.file /\ page'.text = page.text
  <2>1. CASE (\E f \in Photos \cup {None} : ChooseFile(f)) \/ (\E t \in Texts : Type(t))
    BY <1>2, <2>1 DEF ChooseFile, Type, NewOperation, Page
  <2>2. CASE Reset \/ Reload
    BY <2>2 DEF Reset, Reload, NewOperation, NewPage
  <2>3. CASE \E c \in BOOLEAN : Consent(c)
    BY <1>2, <2>3 DEF Consent, Page
  <2>4. CASE \E r \in Requests : Receive(r) \/ NetworkError(r)
    BY <1>2, <2>4 DEF Receive, NetworkError, Page
  <2>5. CASE (\E r \in Requests : Vanish(r)) \/ (\E k \in Keys : Forget(k)) \/ Restart \/ UNCHANGED vars
    BY <2>5 DEF Vanish, Forget, Restart, vars
  <2>6. QED
    BY <2>1, <2>2, <2>3, <2>4, <2>5 DEF Next
<1>4. /\ UNCHANGED run
      /\ \A s \in Requests :
           \/ req'[s] = req[s] \/ req'[s] = Idle
           \/ /\ req[s] # Idle
              /\ req'[s].key = req[s].key /\ req'[s].body = req[s].body
              /\ req'[s].answer = "refused"
  BY PageShape
<1>5. Carries(b)'
  BY <1>1, <1>3, <1>4 DEF Carries, Shown
<1>6. /\ page'.wait # None => req'[page'.wait].body = [photo |-> page'.file, text |-> page'.text]
      /\ ReportIsOfThePhoto'
  <2>1. CASE UNCHANGED page
    <3>1. page.wait # None => page.wait \in Requests /\ req[page.wait] # Idle
      BY <1>2 DEF TypeInv, TypeOK, Page
    <3>2. page.wait # None => req'[page.wait] # Idle
      <4>1. TypeOK'
        BY TypeInvStep DEF TypeInv
      <4>2. QED
        BY <2>1, <4>1 DEF TypeOK
    <3>3. QED
      BY <1>4, <2>1, <3>1, <3>2 DEF ContentInv, ReportIsOfThePhoto, Shown
  <2>2. CASE (\E f \in Photos \cup {None} : ChooseFile(f)) \/ (\E t \in Texts : Type(t))
             \/ (\E c \in BOOLEAN : Consent(c))
    BY <1>2, <2>2 DEF ChooseFile, Type, Consent, Loading, Page, ContentInv, ReportIsOfThePhoto
  <2>3. CASE Reset \/ Reload
    BY <2>3 DEF Reset, Reload, NewPage, ReportIsOfThePhoto
  <2>4. ASSUME NEW r \in Requests, Receive(r) \/ NetworkError(r)
        PROVE  page'.wait = None /\ ReportIsOfThePhoto'
    <3>1. page.report = None /\ page.wait = r
      <4>1. page.wait = r /\ r # None
        BY <2>4, NoneAssumption DEF Receive, NetworkError
      <4>2. QED
        BY <1>2, <4>1 DEF ContentInv, ReportIsOfThePhoto
    <3>2. req[r].body = Shown
      BY <3>1, NoneAssumption DEF ContentInv
    <3>3. CASE NetworkError(r)
      BY <1>2, <3>1, <3>3 DEF NetworkError, Page, ReportIsOfThePhoto
    <3>4. CASE Receive(r) /\ req[r].answer # "report"
      BY <1>2, <3>1, <3>4 DEF Receive, Page, ReportIsOfThePhoto
    <3>5. CASE Receive(r) /\ req[r].answer = "report"
      BY <1>2, <3>2, <3>5 DEF Receive, Page, ReportIsOfThePhoto, Shown
    <3>6. QED
      BY <2>4, <3>3, <3>4, <3>5
  <2>5. QED
    BY <2>1, <2>2, <2>3, <2>4 DEF Next, Vanish, Forget, Restart, vars
<1>7. QED
  BY <1>1, <1>5, <1>6 DEF ContentInv, Shown

LEMMA SubmitContent ==
  ASSUME TypeInv, ContentInv, NEW r \in Requests, Submit(r)
  PROVE  ContentInv'
<1>1. PICK b \in Contents : Carries(b)
  BY DEF ContentInv
<1>2. /\ page \in Page /\ req \in [Requests -> Request \cup {Idle}] /\ created \in 0 .. MaxKeys
      /\ r # None /\ MaxKeys \in Nat /\ Shown \in [photo : Photos \cup {None}, text : Texts]
  BY NoneAssumption, BoundsAssumption DEF TypeInv, TypeOK, Page, Shown
<1>3. PICK k \in Keys, c \in Contents :
        /\ Begin(r, k) /\ k <= created' /\ created <= created'
        /\ Carries(c) /\ c[k] = Shown
  <2>1. CASE page.key # 0
    <3>1. page.key \in Keys /\ page.key <= created /\ b[page.key] = Shown
      BY <1>1, <1>2, <2>1 DEF Carries, Page
    <3>2. Begin(r, page.key) /\ created' = created
      BY <2>1 DEF Submit
    <3>3. QED
      BY <1>1, <1>2, <3>1, <3>2
  <2>2. CASE page.key = 0
    <3> DEFINE c == [b EXCEPT ![created + 1] = Shown]
    <3>1. created < MaxKeys /\ created' = created + 1 /\ Begin(r, created + 1)
      BY <2>2 DEF Submit
    <3>2. created + 1 \in Keys
      BY <1>2, <3>1 DEF Keys
    <3>3. c \in Contents /\ c[created + 1] = Shown /\ \A j \in Keys : j # created + 1 => c[j] = b[j]
      BY <1>2, <3>2 DEF Contents
    <3>4. \A j \in Keys : j <= created => c[j] = b[j]
      BY <1>2, <3>3 DEF Keys
    <3>5. \A s \in Requests : req[s] # Idle => req[s].key \in Keys
      BY <1>2 DEF Request
    <3>6. Carries(c)
      BY <1>1, <2>2, <3>4, <3>5 DEF Carries
    <3>7. created + 1 <= created' /\ created <= created'
      BY <1>2, <3>1
    <3>8. QED
      BY <3>1, <3>2, <3>3, <3>6, <3>7, Zenon
  <2>3. QED
    BY <2>1, <2>2
<1>4. /\ page'.wait = r /\ page'.key = k /\ page'.file = page.file /\ page'.text = page.text
      /\ page'.report = None
      /\ req'[r] = [step |-> "sent", key |-> k, body |-> Shown, answer |-> "open", token |-> 0]
      /\ \A s \in Requests : s # r => req'[s] = req[s]
      /\ UNCHANGED run
  BY <1>2, <1>3 DEF Begin, Page, Shown
<1>5. \A s \in Requests : req[s] # Idle => req[s].key \in Nat
  BY <1>2 DEF Request, Keys
<1>6. created' \in Nat /\ \A j \in Keys : j <= created => j <= created'
  <2>1. created' = created \/ created' = created + 1
    BY DEF Submit
  <2>2. QED
    BY <1>2, <2>1 DEF Keys
<1>7. Carries(c)'
  <2>1. ASSUME NEW s \in Requests, req'[s] # Idle
        PROVE  req'[s].key <= created' /\ req'[s].body = c[req'[s].key] /\ req'[s].answer # "conflict"
    <3>1. CASE s = r
      BY <1>3, <1>4, <3>1
    <3>2. CASE s # r
      <4>1. req'[s] = req[s] /\ req[s].key \in Keys
        BY <1>2, <1>4, <2>1, <3>2 DEF Request
      <4>2. QED
        BY <1>3, <1>6, <2>1, <4>1 DEF Carries
    <3>3. QED
      BY <3>1, <3>2
  <2>2. ASSUME NEW j \in Keys, run'[j] # NoRun PROVE j <= created' /\ run'[j].body = c[j]
    BY <1>3, <1>4, <1>6, <2>2 DEF Carries
  <2>3. page'.key <= created' /\ c[page'.key] = Shown'
    BY <1>3, <1>4 DEF Shown
  <2>4. QED
    BY <2>1, <2>2, <2>3 DEF Carries
<1>8. QED
  BY <1>3, <1>4, <1>7 DEF ContentInv, ReportIsOfThePhoto, Shown

LEMMA ServeContent ==
  ASSUME TypeInv, ContentInv, NEW r \in Requests, Serve(r)
  PROVE  ContentInv'
<1>1. PICK b \in Contents : Carries(b)
  BY DEF ContentInv
<1>2. /\ TypeOK /\ req \in [Requests -> Request \cup {Idle}]
      /\ run \in [Keys -> Run \cup {NoRun}] /\ MaxToken \in Nat
      /\ page.wait # None => page.wait \in Requests /\ req[page.wait] # Idle
  BY BoundsAssumption DEF TypeInv, TypeOK, Page
<1>3. req[r] # Idle /\ req[r] \in Request /\ req[r].key \in Keys
  BY <1>2 DEF Serve, Refuse, FromCache, Join, Execute, Succeed, SucceedUnconfirmed, Fail,
       WaitTimeout, Replay, ReplayFailure, At, Request
<1> DEFINE k == req[r].key
<1>4. /\ \A s \in Requests :
           req[s] # Idle => req'[s] # Idle /\ req'[s].key = req[s].key /\ req'[s].body = req[s].body
      /\ \A s \in Requests : req[s] = Idle => req'[s] = Idle
      /\ UNCHANGED <<page, created>>
  BY ServeShape
<1>5. run[k] # NoRun => Matches(r)
  BY <1>1, <1>3 DEF Carries, Matches
<1>6. \A s \in Requests : req'[s] # Idle => req'[s].answer # "conflict"
  <2>1. ASSUME NEW a \in AnswerKinds \ {"conflict"}, NEW t \in 0 .. MaxToken,
               Answer(r, a, t) \/ Resolve(k, a, t)
        PROVE  \A s \in Requests : req'[s] # Idle => req'[s].answer # "conflict"
    BY <1>1, <1>2, <1>3, <2>1, AnswerShape, ResolveShape DEF Carries
  <2>2. CASE Join(r) \/ Execute(r)
    <3>1. \E st \in {"execute", "wait"} : req' = [req EXCEPT ![r].step = st]
      BY <2>2 DEF Join, Execute
    <3>2. QED
      BY <1>1, <1>2, <1>3, <3>1, StepShape DEF Carries
  <2>3. CASE Refuse(r) \/ WaitTimeout(r) \/ SucceedUnconfirmed(r) \/ Fail(r) \/ ReplayFailure(r)
    <3>1. \E a \in {"refused", "failure"} : Answer(r, a, 0) \/ Resolve(k, a, 0)
      BY <1>5, <2>3 DEF Refuse, WaitTimeout, SucceedUnconfirmed, Fail, ReplayFailure
    <3>2. QED
      BY <1>2, <2>1, <3>1 DEF AnswerKinds
  <2>4. CASE FromCache(r) \/ Succeed(r) \/ Replay(r)
    <3>1. \E t \in 0 .. MaxToken : Answer(r, "report", t) \/ Resolve(k, "report", t)
      BY <1>2, <1>3, <2>4 DEF FromCache, Succeed, Replay, Report, TypeOK
    <3>2. QED
      BY <2>1, <3>1 DEF AnswerKinds
  <2>5. QED
    BY <2>2, <2>3, <2>4 DEF Serve
<1>7. \A j \in Keys : run'[j] # NoRun => j <= created /\ run'[j].body = b[j]
  <2>1. CASE UNCHANGED run
    BY <1>1, <2>1 DEF Carries
  <2>2. CASE Execute(r)
    BY <1>1, <1>2, <1>3, <2>2 DEF Execute, Carries
  <2>3. ASSUME NEW st \in {"succeeded", "failed"}, run' = [run EXCEPT ![k].status = st], run[k] \in Run
        PROVE  \A j \in Keys : run'[j] # NoRun => j <= created /\ run'[j].body = b[j]
    <3>1. run'[k].body = run[k].body /\ run[k] # NoRun
      BY <1>2, <1>3, <2>3 DEF Run, NoRun
    <3>2. \A j \in Keys : j # k => run'[j] = run[j]
      BY <1>2, <2>3
    <3>3. QED
      BY <1>1, <3>1, <3>2 DEF Carries
  <2>4. CASE Succeed(r) \/ SucceedUnconfirmed(r) \/ Fail(r)
    <3>1. run[k] \in Run
      BY <2>4 DEF Succeed, SucceedUnconfirmed, Fail, TypeInv, ExecInv
    <3>2. QED
      BY <2>1, <2>3, <2>4, <3>1 DEF Succeed, SucceedUnconfirmed, Fail
  <2>5. QED
    BY <2>1, <2>2, <2>4
    DEF Serve, Refuse, FromCache, Join, WaitTimeout, Replay, ReplayFailure
<1>8. Carries(b)'
  BY <1>1, <1>4, <1>6, <1>7 DEF Carries, Shown
<1>9. QED
  BY <1>1, <1>2, <1>4, <1>8 DEF ContentInv, ReportIsOfThePhoto, Shown

LEMMA ContentInvStep == TypeInv /\ ContentInv /\ [Next]_vars => ContentInv'
BY EditContent, SubmitContent, ServeContent

LEMMA ContentInvInit == Init => ContentInv
<1> SUFFICES ASSUME Init PROVE ContentInv
  OBVIOUS
<1> DEFINE b == [k \in Keys |-> [photo |-> None, text |-> Blank]]
<1>1. b \in Contents
  BY PhotosAssumption DEF Contents
<1>2. Carries(b)
  BY DEF Init, Carries, NewPage
<1>3. page.wait = None /\ page.report = None
  BY DEF Init, NewPage
<1>4. QED
  BY <1>1, <1>2, <1>3 DEF ContentInv, ReportIsOfThePhoto

(* No request of the page, also none that is served late, is answered      *)
(* idempotency_conflict (App.tsx:53-70).                                   *)
THEOREM NoConflict == Spec => []NeverConflicts
<1>1. ContentInv => NeverConflicts
  BY DEF ContentInv, Carries, NeverConflicts
<1>2. QED
  BY <1>1, ContentInvInit, ContentInvStep, TypeInvInit, TypeInvStep, PTL DEF Spec

(* A report is shown next to the photo it was made from (App.tsx:142-150). *)
THEOREM ReportShownWithPhoto == Spec => []ReportIsOfThePhoto
<1>1. ContentInv => ReportIsOfThePhoto
  BY DEF ContentInv
<1>2. QED
  BY <1>1, ContentInvInit, ContentInvStep, TypeInvInit, TypeInvStep, PTL DEF Spec

-----------------------------------------------------------------------------
(* The feedback token of the report that is shown.                         *)

(* A token that no longer works was replaced behind the page: a request of *)
(* its key was given up and its cached answer was lost.                    *)
Works(k, t) == t # token[k] => k \in lapses.gaveUp \cap lapses.forgot
IsReport(q) == q # Idle /\ q.answer = "report"

(* Only a stored report has a token, and it is cached unless it was lost.  *)
Registered ==
  \A k \in Keys : token[k] >= 1 =>
    run[k] # NoRun /\ run[k].status = "succeeded" /\ k \in cached \cup lapses.forgot
ReportsAreRegistered ==
  \A r \in Requests : IsReport(req[r]) => token[req[r].key] >= 1 /\ req[r].step = "answered"
(* Nobody waits for a request but the page that sent it last.              *)
OthersGivenUp ==
  \A r \in Requests : req[r] # Idle /\ r # page.wait => req[r].key \in lapses.gaveUp
AwaitedWorks ==
  page.wait # None /\ IsReport(req[page.wait]) => Works(req[page.wait].key, req[page.wait].token)
ShownWorks ==
  page.report # None => token[page.report.key] >= 1 /\ Works(page.report.key, page.report.token)
ShownInv == Registered /\ ReportsAreRegistered /\ OthersGivenUp /\ AwaitedWorks /\ ShownWorks

LEMMA ShownInvInit == Init => ShownInv
BY DEF Init, NewPage, ShownInv, Registered, ReportsAreRegistered, OthersGivenUp, AwaitedWorks,
     ShownWorks, IsReport

(* The page and the environment register nothing: lapses only grow, and    *)
(* what leaves the cache is in them.                                       *)
LEMMA LapsesGrow ==
  ASSUME TypeInv, [Next]_vars, ~\E r \in Requests : Serve(r)
  PROVE  /\ lapses.gaveUp \subseteq lapses'.gaveUp
         /\ cached \cup lapses.forgot \subseteq cached' \cup lapses'.forgot
         /\ lapses.forgot \subseteq lapses'.forgot
<1>1. lapses \in [gaveUp : SUBSET Keys, forgot : SUBSET Keys]
  BY DEF TypeInv, TypeOK
<1>2. ASSUME NEW r, GiveUp(r)
      PROVE  lapses.gaveUp \subseteq lapses'.gaveUp /\ lapses'.forgot = lapses.forgot
  BY <1>1, <1>2 DEF GiveUp
<1>3. CASE (\E r \in Requests : NetworkError(r)) \/ Reload
  BY <1>2, <1>3 DEF NetworkError, Reload
<1>4. CASE \E k \in Keys : Forget(k)
  BY <1>1, <1>4 DEF Forget
<1>5. CASE Restart
  BY <1>1, <1>5 DEF Restart
<1>6. QED
  BY <1>3, <1>4, <1>5
  DEF Next, ChooseFile, Type, Consent, NewOperation, Submit, Begin, Receive, Vanish, Reset, vars

(* What the page shows and waits for moves with Submit and Receive only.   *)
LEMMA PageShows ==
  ASSUME TypeInv, ContentInv, [Next]_vars, ~\E r \in Requests : Serve(r)
  PROVE  \/ /\ page'.report \in {page.report, None} /\ page'.wait = page.wait
            /\ \A s \in Requests : req[s] = Idle => req'[s] = Idle
         \/ \E r \in Requests : Submit(r) /\ page'.report = None /\ page'.wait = r /\ page.wait = None
         \/ \E r \in Requests :
              /\ NetworkError(r) \/ Reload
              /\ page'.report = None /\ page'.wait = None /\ page.wait = r
              /\ UNCHANGED req /\ req[r].key \in lapses'.gaveUp
         \/ \E r \in Requests : Receive(r) /\ page'.wait = None /\ page.wait = r
<1>1. /\ page \in Page /\ req \in [Requests -> Request \cup {Idle}]
      /\ page.status = "loading" <=> page.wait # None
      /\ lapses \in [gaveUp : SUBSET Keys, forgot : SUBSET Keys]
      /\ page.wait \in Requests \cup {None} /\ None \notin Requests
      /\ page.report # None => page.wait = None
  BY NoneAssumption DEF TypeInv, TypeOK, Page, ContentInv, ReportIsOfThePhoto
<1>2. ASSUME NEW r \in Requests, GiveUp(r) PROVE req[r].key \in lapses'.gaveUp
  BY <1>1, <1>2 DEF GiveUp
<1>3. CASE (\E f \in Photos \cup {None} : ChooseFile(f)) \/ (\E t \in Texts : Type(t))
             \/ (\E c \in BOOLEAN : Consent(c))
  BY <1>1, <1>3 DEF ChooseFile, Type, Consent, NewOperation, Page
<1>4. CASE Reset
  BY <1>1, <1>4 DEF Reset, NewPage, NewOperation
<1>5. CASE Reload
  <2>1. page' = NewPage /\ UNCHANGED req
    BY <1>5 DEF Reload
  <2>2. CASE page.wait = None
    BY <2>1, <2>2 DEF NewPage
  <2>3. CASE page.wait # None
    BY <1>1, <1>2, <1>5, <2>1, <2>3 DEF Reload, NewPage
  <2>4. QED
    BY <2>2, <2>3
<1>6. ASSUME NEW r \in Requests, Submit(r)
      PROVE  page'.report = None /\ page'.wait = r /\ page.wait = None
  BY <1>1, <1>6 DEF Submit, Begin, Loading, Page
<1>7. ASSUME NEW r \in Requests, NetworkError(r)
      PROVE  /\ page'.report = None /\ page'.wait = None /\ page.wait = r
             /\ UNCHANGED req /\ req[r].key \in lapses'.gaveUp
  BY <1>1, <1>2, <1>7 DEF NetworkError, Page
<1>8. ASSUME NEW r \in Requests, Receive(r) PROVE page'.wait = None /\ page.wait = r
  BY <1>1, <1>8 DEF Receive, Page
<1>9. CASE (\E r \in Requests : Vanish(r)) \/ (\E k \in Keys : Forget(k)) \/ UNCHANGED vars
  BY <1>1, <1>9 DEF Vanish, Forget, vars
<1>10. CASE Restart
  <2>1. \A s \in Requests : req[s] = Idle => req'[s] = Idle
    BY <1>1, <1>10 DEF Restart, At
  <2>2. QED
    BY <1>10, <2>1 DEF Restart
<1>11. QED
  BY <1>3, <1>4, <1>5, <1>6, <1>7, <1>8, <1>9, <1>10 DEF Next

LEMMA PageKeepsShown ==
  ASSUME TypeInv, ContentInv, ShownInv, [Next]_vars, ~\E r \in Requests : Serve(r)
  PROVE  ShownInv'
<1>1. /\ UNCHANGED <<run, token>> /\ cached' \subseteq cached
      /\ \A s \in Requests :
           \/ req'[s] = req[s] \/ req'[s] = Idle
           \/ Submit(s) /\ req'[s].step = "sent" /\ req'[s].answer = "open"
           \/ /\ req[s] # Idle
              /\ req'[s].key = req[s].key /\ req'[s].body = req[s].body
              /\ req'[s].step = "answered" /\ req'[s].answer = "refused"
  BY PageShape
<1>2. /\ lapses.gaveUp \subseteq lapses'.gaveUp
      /\ cached \cup lapses.forgot \subseteq cached' \cup lapses'.forgot
      /\ lapses.forgot \subseteq lapses'.forgot
  BY LapsesGrow
<1>3. /\ page \in Page /\ req \in [Requests -> Request \cup {Idle}]
      /\ page.wait \in Requests \cup {None} /\ None \notin Requests
      /\ page.wait # None => req[page.wait] # Idle
  BY NoneAssumption DEF TypeInv, TypeOK, Page
<1>4. Registered'
  BY <1>1, <1>2 DEF ShownInv, Registered
<1>5. ReportsAreRegistered'
  BY <1>1 DEF ShownInv, ReportsAreRegistered, IsReport
<1>6. ASSUME NEW k, NEW t, Works(k, t) PROVE Works(k, t)'
  BY <1>1, <1>2, <1>6 DEF Works
<1>7. CASE /\ page'.report \in {page.report, None} /\ page'.wait = page.wait
           /\ \A s \in Requests : req[s] = Idle => req'[s] = Idle
  <2>1. OthersGivenUp'
    <3>1. ASSUME NEW s \in Requests, Submit(s) PROVE req'[s].step # "sent"
      <4>1. req[s] = Idle
        BY <3>1 DEF Submit, Begin
      <4>2. req'[s] = Idle /\ Idle.step = "idle"
        BY <1>7, <4>1 DEF Idle
      <4>3. QED
        BY <4>2
    <3>2. \A s \in Requests : req'[s] # Idle => req[s] # Idle /\ req'[s].key = req[s].key
      BY <1>1, <1>7, <3>1
    <3>3. QED
      BY <1>2, <1>7, <3>2 DEF ShownInv, OthersGivenUp
  <2>2. AwaitedWorks'
    <3>1. CASE page.wait # None /\ IsReport(req'[page.wait])
      <4>1. req'[page.wait] = req[page.wait]
        BY <1>1, <1>3, <1>7, <3>1 DEF IsReport
      <4>2. Works(req[page.wait].key, req[page.wait].token)
        BY <3>1, <4>1 DEF ShownInv, AwaitedWorks
      <4>3. QED
        BY <1>6, <1>7, <4>1, <4>2 DEF AwaitedWorks, Works
    <3>2. QED
      BY <1>7, <3>1 DEF AwaitedWorks
  <2>3. ShownWorks'
    BY <1>1, <1>2, <1>7 DEF ShownInv, ShownWorks, Works
  <2>4. QED
    BY <1>4, <1>5, <2>1, <2>2, <2>3 DEF ShownInv
<1>8. ASSUME NEW r \in Requests, Submit(r), page'.report = None, page'.wait = r, page.wait = None
      PROVE  ShownInv'
  <2>1. /\ \A s \in Requests : s # r => req'[s] = req[s]
        /\ req'[r].answer = "open" /\ UNCHANGED lapses
    BY <1>3, <1>8 DEF Submit, Begin
  <2>2. OthersGivenUp'
    BY <1>3, <1>8, <2>1 DEF ShownInv, OthersGivenUp
  <2>3. AwaitedWorks' /\ ShownWorks'
    BY <1>8, <2>1 DEF AwaitedWorks, IsReport, ShownWorks
  <2>4. QED
    BY <1>4, <1>5, <2>2, <2>3 DEF ShownInv
<1>9. ASSUME NEW r \in Requests, page'.report = None, page'.wait = None, page.wait = r,
             UNCHANGED req, req[r].key \in lapses'.gaveUp
      PROVE  ShownInv'
  <2>1. OthersGivenUp'
    BY <1>2, <1>9 DEF ShownInv, OthersGivenUp
  <2>2. AwaitedWorks' /\ ShownWorks'
    BY <1>9 DEF AwaitedWorks, ShownWorks
  <2>3. QED
    BY <1>4, <1>5, <2>1, <2>2 DEF ShownInv
<1>10. ASSUME NEW r \in Requests, Receive(r), page'.wait = None, page.wait = r
       PROVE  ShownInv'
  <2>1. /\ req'[r] = Idle /\ UNCHANGED lapses /\ req[r] # Idle
        /\ \A s \in Requests : s # r => req'[s] = req[s]
    BY <1>3, <1>10 DEF Receive, At
  <2>2. OthersGivenUp'
    BY <1>10, <2>1 DEF ShownInv, OthersGivenUp
  <2>3. AwaitedWorks'
    BY <1>10 DEF AwaitedWorks
  <2>4. page.report = None
    BY <1>3, <1>10 DEF TypeInv, TypeOK, ContentInv, ReportIsOfThePhoto
  <2>5. ShownWorks'
    <3>1. CASE req[r].answer = "report"
      <4>1. page'.report = [body |-> req[r].body, key |-> req[r].key, token |-> req[r].token]
        BY <1>3, <1>10, <3>1 DEF Receive, Page
      <4>2. token[req[r].key] >= 1 /\ Works(req[r].key, req[r].token)
        BY <1>3, <1>10, <2>1, <3>1 DEF ShownInv, ReportsAreRegistered, AwaitedWorks, IsReport
      <4>3. QED
        BY <1>1, <2>1, <4>1, <4>2 DEF ShownWorks, Works
    <3>2. CASE req[r].answer # "report"
      BY <1>3, <1>10, <2>4, <3>2 DEF Receive, Page, ShownWorks
    <3>3. QED
      BY <3>1, <3>2
  <2>6. QED
    BY <1>4, <1>5, <2>2, <2>3, <2>5 DEF ShownInv
<1>11. QED
  BY <1>7, <1>8, <1>9, <1>10, PageShows

(* A step of the service replaces the token of a key that has one only in  *)
(* Replay, for a key whose cached answer was lost and a request that is    *)
(* still on its way.                                                       *)
LEMMA TokensStay ==
  ASSUME TypeInv, Registered, NEW r \in Requests, Serve(r)
  PROVE  /\ \A k \in Keys : token[k] >= 1 =>
              \/ token'[k] = token[k]
              \/ Replay(r) /\ req[r].key = k /\ k \in lapses.forgot
         /\ \A k \in Keys : token'[k] >= token[k]
         /\ cached \subseteq cached'
<1>1. /\ token \in [Keys -> 0 .. MaxToken] /\ req \in [Requests -> Request \cup {Idle}]
      /\ MaxToken \in Nat /\ \A k \in Keys : token[k] \in Nat
  BY BoundsAssumption DEF TypeInv, TypeOK
<1>2. req[r].key \in Keys
  BY <1>1 DEF Serve, Refuse, FromCache, Join, Execute, Succeed, SucceedUnconfirmed, Fail,
       WaitTimeout, Replay, ReplayFailure, At, Request
<1>3. CASE UNCHANGED <<token, cached>>
  BY <1>1, <1>3
<1>4. CASE Succeed(r)
  <2>1. ~(token[req[r].key] >= 1)
    BY <1>2, <1>4 DEF Succeed, TypeInv, ExecInv, Registered
  <2>2. QED
    BY <1>1, <1>2, <1>4, <2>1 DEF Succeed, Report
<1>5. CASE Replay(r)
  <2>1. token[req[r].key] >= 1 => req[r].key \in lapses.forgot
    BY <1>2, <1>5 DEF Replay, Registered
  <2>2. QED
    BY <1>1, <1>2, <1>5, <2>1 DEF Replay, Report
<1>6. QED
  BY <1>3, <1>4, <1>5
  DEF Serve, Refuse, FromCache, Join, Execute, SucceedUnconfirmed, Fail, WaitTimeout, ReplayFailure

(* An answered request stays as it is; a report goes out with the token    *)
(* that is registered from now on.                                         *)
LEMMA ReportsAreNew ==
  ASSUME TypeInv, NEW r \in Requests, Serve(r), NEW s \in Requests, IsReport(req'[s])
  PROVE  \/ req'[s] = req[s]
         \/ IsReport(req[s]) /\ req[s].step # "answered"
         \/ /\ req'[s].step = "answered" /\ req'[s].token = token'[req'[s].key]
            /\ token'[req'[s].key] >= 1
<1>1. /\ TypeOK /\ TokenInv /\ token \in [Keys -> 0 .. MaxToken]
      /\ req \in [Requests -> Request \cup {Idle}]
      /\ MaxToken \in Nat /\ \A k \in Keys : token[k] \in Nat
  BY BoundsAssumption DEF TypeInv, TypeOK
<1>2. req[r] # Idle /\ req[r].key \in Keys
  BY <1>1 DEF Serve, Refuse, FromCache, Join, Execute, Succeed, SucceedUnconfirmed, Fail,
       WaitTimeout, Replay, ReplayFailure, At, Request
<1> DEFINE k == req[r].key
<1>3. ASSUME NEW a \in AnswerKinds, NEW t \in 0 .. MaxToken, Answer(r, a, t) \/ Resolve(k, a, t)
      PROVE  \/ req'[s] = req[s]
             \/ req'[s].step = "answered" /\ req'[s].answer = a /\ req'[s].token = t /\ req'[s].key = k
  BY <1>1, <1>2, <1>3, AnswerShape, ResolveShape
<1>4. CASE Refuse(r) \/ WaitTimeout(r) \/ SucceedUnconfirmed(r) \/ Fail(r) \/ ReplayFailure(r)
  <2>1. \E a \in AnswerKinds \ {"report"} : Answer(r, a, 0) \/ Resolve(k, a, 0)
    BY <1>4 DEF Refuse, WaitTimeout, SucceedUnconfirmed, Fail, ReplayFailure, AnswerKinds
  <2>2. 0 \in 0 .. MaxToken
    BY <1>1
  <2>3. QED
    BY <1>3, <2>1, <2>2 DEF IsReport
<1>5. CASE Join(r) \/ Execute(r)
  <2>1. \E st \in {"execute", "wait"} : req' = [req EXCEPT ![r].step = st]
    BY <1>5 DEF Join, Execute
  <2>2. At(r, "sent")
    BY <1>5 DEF Join, Execute
  <2>3. QED
    BY <1>1, <1>2, <2>1, <2>2, StepShape DEF IsReport, At
<1>6. CASE FromCache(r)
  <2>1. /\ Answer(r, "report", token[k]) /\ "report" \in AnswerKinds /\ token' = token
        /\ token[k] >= 1 /\ token[k] \in 0 .. MaxToken
    BY <1>1, <1>2, <1>6 DEF FromCache, TokenInv, AnswerKinds
  <2>2. QED
    BY <1>3, <2>1
<1>7. CASE Succeed(r) \/ Replay(r)
  <2>1. /\ Answer(r, "report", token[k] + 1) \/ Resolve(k, "report", token[k] + 1)
        /\ "report" \in AnswerKinds
    BY <1>7 DEF Succeed, Replay, AnswerKinds
  <2>2. token'[k] = token[k] + 1 /\ token[k] + 1 \in 0 .. MaxToken /\ token[k] + 1 >= 1
    BY <1>1, <1>2, <1>7 DEF Succeed, Replay, Report
  <2>3. QED
    BY <1>3, <2>1, <2>2
<1>8. QED
  BY <1>4, <1>5, <1>6, <1>7 DEF Serve

LEMMA ServeKeepsShown ==
  ASSUME TypeInv, ContentInv, ShownInv, NEW r \in Requests, Serve(r)
  PROVE  ShownInv'
<1>1. /\ page \in Page /\ req \in [Requests -> Request \cup {Idle}]
      /\ page.status = "loading" <=> page.wait # None
      /\ page.wait \in Requests \cup {None} /\ None \notin Requests
      /\ \A s \in Requests : req[s] # Idle => req[s].key \in Keys
      /\ \A k \in Keys : token[k] \in Nat /\ token'[k] \in Nat
      /\ run \in [Keys -> Run \cup {NoRun}]
  <2>1. TypeOK /\ TypeOK'
    BY ServeType DEF TypeInv
  <2>2. QED
    BY <2>1, NoneAssumption, BoundsAssumption DEF TypeOK, Page, Request
<1>2. /\ \A s \in Requests : req[s] # Idle => req'[s] # Idle /\ req'[s].key = req[s].key
      /\ \A s \in Requests : req[s] = Idle => req'[s] = Idle
      /\ UNCHANGED <<page, lapses>>
  BY ServeShape
<1>3. /\ \A k \in Keys : token[k] >= 1 =>
           \/ token'[k] = token[k]
           \/ Replay(r) /\ req[r].key = k /\ k \in lapses.forgot
      /\ \A k \in Keys : token'[k] >= token[k]
      /\ cached \subseteq cached'
  BY TokensStay DEF ShownInv
<1>4. \A s \in Requests : IsReport(req'[s]) =>
        \/ req'[s] = req[s] /\ IsReport(req[s])
        \/ /\ req'[s].step = "answered" /\ req'[s].token = token'[req'[s].key]
           /\ token'[req'[s].key] >= 1
  BY ReportsAreNew DEF ShownInv, ReportsAreRegistered
<1>5. Registered'
  <2>1. SUFFICES ASSUME NEW k \in Keys, token'[k] >= 1
                 PROVE  run'[k] # NoRun /\ run'[k].status = "succeeded" /\ k \in cached' \cup lapses.forgot
    BY <1>2 DEF Registered
  <2>2. CASE (Succeed(r) \/ Replay(r)) /\ k = req[r].key
    <3>1. k \in cached'
      BY <2>2 DEF Succeed, Replay, Report
    <3>2. run'[k] # NoRun /\ run'[k].status = "succeeded"
      <4>1. CASE Replay(r)
        BY <2>2, <4>1 DEF Replay, Matches
      <4>2. CASE Succeed(r)
        <5>1. run[k] \in Run
          BY <2>2, <4>2 DEF Succeed, TypeInv, ExecInv
        <5>2. run'[k] = [run[k] EXCEPT !.status = "succeeded"]
          BY <1>1, <2>2, <4>2 DEF Succeed
        <5>3. QED
          BY <5>1, <5>2 DEF Run, NoRun
      <4>3. QED
        BY <2>2, <4>1, <4>2
    <3>3. QED
      BY <3>1, <3>2
  <2>3. CASE ~((Succeed(r) \/ Replay(r)) /\ k = req[r].key)
    <3>1. token'[k] = token[k]
      <4>1. CASE Succeed(r) \/ Replay(r)
        BY <1>1, <2>3, <4>1 DEF Succeed, Replay, Report, TypeInv, TypeOK
      <4>2. CASE ~(Succeed(r) \/ Replay(r))
        BY <4>2 DEF Serve, Refuse, FromCache, Join, Execute, SucceedUnconfirmed, Fail,
             WaitTimeout, ReplayFailure
      <4>3. QED
        BY <4>1, <4>2
    <3>2. run[k] # NoRun /\ run[k].status = "succeeded" /\ k \in cached \cup lapses.forgot
      BY <2>1, <3>1 DEF ShownInv, Registered
    <3>3. run'[k] = run[k]
      <4>1. CASE Execute(r)
        BY <1>1, <3>2, <4>1 DEF Execute
      <4>2. CASE Succeed(r) \/ SucceedUnconfirmed(r) \/ Fail(r)
        <5>1. run[req[r].key].status = "running"
          BY <4>2 DEF Succeed, SucceedUnconfirmed, Fail, TypeInv, ExecInv
        <5>2. QED
          BY <1>1, <3>2, <4>2, <5>1 DEF Succeed, SucceedUnconfirmed, Fail
      <4>3. QED
        BY <4>1, <4>2 DEF Serve, Refuse, FromCache, Join, WaitTimeout, Replay, ReplayFailure
    <3>4. QED
      BY <1>3, <3>2, <3>3
  <2>4. QED
    BY <2>2, <2>3
<1>6. ReportsAreRegistered'
  BY <1>1, <1>2, <1>3, <1>4 DEF ShownInv, ReportsAreRegistered, IsReport
<1>7. OthersGivenUp'
  BY <1>2 DEF ShownInv, OthersGivenUp
(* A token in the hands of the page: if Replay replaces it, the request is *)
(* not the one the page waits for, unless the page has no report yet.      *)
<1>8. ASSUME NEW k \in Keys, NEW t, Works(k, t), token[k] >= 1,
             Replay(r) /\ req[r].key = k => r # page.wait
      PROVE  Works(k, t)'
  <2>1. CASE token'[k] = token[k]
    BY <1>2, <1>8, <2>1 DEF Works
  <2>2. CASE Replay(r) /\ req[r].key = k /\ k \in lapses.forgot
    <3>1. req[r] # Idle /\ r # page.wait
      BY <1>8, <2>2 DEF Replay, At
    <3>2. k \in lapses.gaveUp
      BY <2>2, <3>1 DEF ShownInv, OthersGivenUp
    <3>3. QED
      BY <1>2, <2>2, <3>2 DEF Works
  <2>3. QED
    BY <1>3, <1>8, <2>1, <2>2
<1>9. AwaitedWorks'
  <2> DEFINE w == page.wait
  <2>1. SUFFICES ASSUME w # None, IsReport(req'[w]), req'[w].token # token'[req'[w].key]
                 PROVE  req'[w].key \in lapses.gaveUp \cap lapses.forgot
    BY <1>2 DEF AwaitedWorks, Works
  <2>2. w \in Requests
    BY <1>1, <2>1
  <2>3. req'[w] = req[w] /\ IsReport(req[w])
    BY <1>4, <2>1, <2>2
  <2>4. /\ token[req[w].key] >= 1 /\ req[w].step = "answered" /\ req[w].key \in Keys
        /\ Works(req[w].key, req[w].token)
    BY <1>1, <2>1, <2>2, <2>3 DEF ShownInv, ReportsAreRegistered, AwaitedWorks, IsReport
  <2>5. Replay(r) => r # w
    BY <2>4 DEF Replay, At
  <2>6. Works(req[w].key, req[w].token)'
    BY <1>8, <2>4, <2>5, <2>3, <1>2 DEF Works
  <2>7. QED
    BY <1>2, <2>1, <2>3, <2>6 DEF Works
<1>10. ShownWorks'
  <2>1. SUFFICES ASSUME page.report # None
                 PROVE  token'[page.report.key] >= 1 /\ Works(page.report.key, page.report.token)'
    BY <1>2 DEF ShownWorks, Works
  <2> DEFINE k == page.report.key
  <2>2. page.wait = None /\ k \in Keys /\ token[k] >= 1 /\ Works(k, page.report.token)
    BY <1>1, <2>1 DEF ContentInv, ReportIsOfThePhoto, ShownInv, ShownWorks, Page, ReportOf
  <2>3. token'[k] >= 1
    BY <1>1, <1>3, <2>2
  <2>4. Works(k, page.report.token)'
    BY <1>1, <1>2, <1>8, <2>2 DEF Works
  <2>5. QED
    BY <2>3, <2>4
<1>11. QED
  BY <1>5, <1>6, <1>7, <1>9, <1>10 DEF ShownInv

LEMMA ShownInvStep == TypeInv /\ ContentInv /\ ShownInv /\ [Next]_vars => ShownInv'
BY PageKeepsShown, ServeKeepsShown

(* The feedback token of the report that is shown is the one the server    *)
(* knows, unless a given up request was served late and a cached answer    *)
(* was lost (feedback.py:67).                                              *)
THEOREM TokenShownWorks == Spec => []ShownTokenWorks
<1>1. ShownInv => ShownTokenWorks
  BY DEF ShownInv, ShownWorks, Works, ShownTokenWorks
<1>2. QED
  BY <1>1, ShownInvInit, ShownInvStep, ContentInvInit, ContentInvStep, TypeInvInit, TypeInvStep,
     PTL DEF Spec
=============================================================================
