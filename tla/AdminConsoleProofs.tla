------------------------- MODULE AdminConsoleProofs -------------------------
(***************************************************************************)
(* Proofs about AdminConsole, for any number of requests, passwords,       *)
(* sessions and ticks.  The definition of Time is kept folded in every     *)
(* step that speaks of a sequence: the SMT encoding of Len takes the       *)
(* domain of each function in scope for 1 .. n.                            *)
(***************************************************************************)
EXTENDS AdminConsole, SequenceTheorems, WellFoundedInduction, TLAPS

USE DEF database, history

-----------------------------------------------------------------------------
(* Types, without the bucket of the login limiter.                         *)

(* A request that stands for a session names one that exists. *)
Carrier(q) == q # Idle /\ q.kind # "login" /\ (q.step # "answered" \/ q.kind = "logout")
Created(q) == q # Idle /\ q.kind = "login" /\
                (q.step = "audit" \/ (q.step = "answered" /\ q.status = 200))
ReqSound(q, n) ==
  /\ Carrier(q) \/ Created(q) => q.token \in 1 .. n
  /\ q # Idle /\ q.kind = "login" /\ q.step \in {"read", "write"} => q.guess \in 1 .. MaxPasswords

ConsoleInv ==
  /\ now \in Time /\ password \in 1 .. MaxPasswords
  /\ sessions \in Seq(Session) /\ Len(sessions) <= MaxSessions
  /\ report \in Row
  /\ stored \in 0 .. Len(sessions)
  /\ req \in [Requests -> {Idle} \cup Request \cup Answered]
  /\ replaced \in Time
  /\ \A r \in Requests : ReqSound(req[r], Len(sessions))

LEMMA Numbers ==
  /\ MaxTime \in Nat /\ MaxPasswords \in Nat \ {0} /\ MaxSessions \in Nat /\ TTL \in Nat
  /\ NewReport \in Row /\ \A form \in Forms : form \in Row
  /\ \A t \in Time : t \in Nat /\ t <= MaxTime
  /\ 0 \in Time /\ \A t \in Time : t < MaxTime => t + 1 \in Time
BY ReportAssumption, ConsoleAssumption, FormAssumption DEF NewReport, Row, Time

LEMMA OpenShape ==
  ASSUME ConsoleInv, NEW r \in Requests, req[r] # Idle, req[r].step # "answered"
  PROVE  req[r] \in Request
BY DEF ConsoleInv, Answered

(* An answer is a record of its own. *)
LEMMA AnswerShape ==
  ASSUME ConsoleInv, NEW r \in Requests, req[r] \in Request, NEW st \in {200, 401, 500},
         Answer(r, st)
  PROVE  /\ req' \in [Requests -> {Idle} \cup Request \cup Answered]
         /\ req'[r] \in Answered /\ req'[r] # Idle
         /\ req'[r].kind = req[r].kind /\ req'[r].step = "answered" /\ req'[r].status = st
         /\ req'[r].token = IF req[r].kind = "save" THEN 0 ELSE req[r].token
         /\ \A s \in Requests : s # r => req'[s] = req[s]
<1> DEFINE new == [kind |-> req[r].kind, step |-> "answered", status |-> st,
                   token |-> IF req[r].kind = "save" THEN 0 ELSE req[r].token]
<1>1. new \in Answered /\ new # Idle
  BY Numbers DEF Request, Answered, Idle
<1>2. req' = [req EXCEPT ![r] = new]
  BY DEF Answer
<1>3. QED
  BY <1>1, <1>2 DEF ConsoleInv

(* A step to another place of the same request. *)
LEMMA MoveShape ==
  ASSUME ConsoleInv, NEW r \in Requests, NEW new \in Request, req' = [req EXCEPT ![r] = new]
  PROVE  /\ req' \in [Requests -> {Idle} \cup Request \cup Answered]
         /\ req'[r] = new /\ new # Idle
         /\ \A s \in Requests : s # r => req'[s] = req[s]
<1>1. new # Idle
  BY DEF Request, Idle
<1>2. QED
  BY <1>1 DEF ConsoleInv

(* A request that moves on, or is answered, and nothing else. *)
LEMMA QuietStep ==
  ASSUME ConsoleInv, NEW r \in Requests, UNCHANGED <<now, password, report, replaced>>,
         sessions' \in Seq(Session), Len(sessions') \in Len(sessions) .. MaxSessions,
         stored' \in 0 .. Len(sessions'),
         req' \in [Requests -> {Idle} \cup Request \cup Answered],
         \A s \in Requests : s # r => req'[s] = req[s],
         ReqSound(req'[r], Len(sessions'))
  PROVE  ConsoleInv'
<1>1. Len(sessions) \in Nat /\ Len(sessions') \in Nat
  BY LenProperties DEF ConsoleInv
<1>2. \A s \in Requests : ReqSound(req'[s], Len(sessions'))
  BY <1>1 DEF ConsoleInv, ReqSound
<1>3. QED
  BY <1>1, <1>2, Numbers DEF ConsoleInv

LEMMA SessionsStay ==
  ASSUME ConsoleInv
  PROVE  /\ sessions \in Seq(Session) /\ Len(sessions) \in Nat
         /\ Len(sessions) \in Len(sessions) .. MaxSessions /\ stored \in 0 .. Len(sessions)
BY LenProperties, Numbers DEF ConsoleInv

LEMMA InitConsole == Init => ConsoleInv
<1> SUFFICES ASSUME Init PROVE ConsoleInv
  OBVIOUS
<1>1. sessions \in Seq(Session) /\ Len(sessions) = 0
  BY EmptySeq DEF Init
<1>2. now = 0 /\ replaced = 0 /\ report = NewReport /\ password = 1 /\ stored = 0
  BY DEF Init
<1>3. \A r \in Requests : req[r] = Idle
  BY DEF Init
<1>4. req \in [Requests -> {Idle} \cup Request \cup Answered]
  BY DEF Init
<1>5. QED
  BY <1>1, <1>2, <1>3, <1>4, Numbers DEF ConsoleInv, ReqSound, Carrier, Created

(* The tab. *)
LEMMA SendConsole ==
  ASSUME ConsoleInv, NEW r \in Requests, NEW kind \in {"login", "save", "logout"},
         NEW guess \in 0 .. MaxPasswords, NEW form \in Row,
         kind # "login" => stored # 0, Send(r, kind, guess, form)
  PROVE  ConsoleInv'
<1>1. stored \in 0 .. MaxSessions /\ stored \in Nat /\ 0 \in Time
  BY SessionsStay, Numbers DEF ConsoleInv
<1> DEFINE began == stored # 0 /\ Live(stored, now)
           new == [kind |-> kind, step |-> "sent", token |-> stored, guess |-> guess, at |-> 0,
                   began |-> began, late |-> FALSE, form |-> form, seen |-> form]
<1>2. began \in BOOLEAN
  BY Zenon
<1> HIDE DEF began
<1>3. new \in Request
  BY <1>1, <1>2 DEF Request
<1>4. req' = [req EXCEPT ![r] = new]
  BY DEF Send, began
<1>5. ReqSound(new, Len(sessions))
  BY <1>1, SessionsStay DEF ReqSound, Carrier, Created
<1>6. UNCHANGED <<now, password, report, replaced, sessions, stored>>
  BY DEF Send
<1>7. QED
  BY <1>3, <1>4, <1>5, <1>6, MoveShape, SessionsStay, QuietStep

LEMMA ReceiveConsole ==
  ASSUME ConsoleInv, NEW r \in Requests, Receive(r) \/ NetworkError(r)
  PROVE  ConsoleInv'
<1>1. /\ req' = [req EXCEPT ![r] = Idle]
      /\ UNCHANGED <<now, password, report, replaced, sessions>>
  BY DEF Receive, NetworkError
<1>2. \/ stored' = 0 \/ stored' = stored
      \/ Created(req[r]) /\ stored' = req[r].token
  <2>1. CASE NetworkError(r)
    BY <2>1 DEF NetworkError
  <2>2. CASE Receive(r)
    <3>1. req[r] # Idle /\ req[r].step = "answered"
      BY <2>2 DEF Receive
    <3>2. CASE req[r].kind = "login" /\ req[r].status = 200
      BY <2>2, <3>1, <3>2 DEF Receive, Created
    <3>3. CASE ~(req[r].kind = "login" /\ req[r].status = 200)
      BY <2>2, <3>3 DEF Receive
    <3>4. QED
      BY <3>2, <3>3
  <2>3. QED
    BY <2>1, <2>2
<1>3. stored' \in 0 .. Len(sessions)
  BY <1>2, SessionsStay DEF ConsoleInv, ReqSound
<1>4. /\ req' \in [Requests -> {Idle} \cup Request \cup Answered]
      /\ req'[r] = Idle /\ \A s \in Requests : s # r => req'[s] = req[s]
  BY <1>1 DEF ConsoleInv
<1>5. ReqSound(Idle, Len(sessions))
  BY DEF ReqSound, Carrier, Created
<1>6. QED
  BY <1>1, <1>3, <1>4, <1>5, SessionsStay, QuietStep

(* The server answers, and the sessions stay as many as they are. *)
LEMMA AnswerConsole ==
  ASSUME ConsoleInv, NEW r \in Requests, req[r] \in Request, NEW st \in {200, 401, 500},
         Answer(r, st), st = 200 => Created(req[r]) \/ req[r].kind # "login",
         UNCHANGED <<now, password, replaced, stored>>, report' \in Row,
         sessions' \in Seq(Session), Len(sessions') = Len(sessions)
  PROVE  ConsoleInv'
<1>1. ReqSound(req'[r], Len(sessions))
  <2>1. ReqSound(req[r], Len(sessions)) /\ req[r] # Idle
    BY DEF ConsoleInv, Request, Idle
  <2>2. /\ req'[r].kind = req[r].kind /\ req'[r].step = "answered" /\ req'[r].status = st
        /\ req[r].kind # "save" => req'[r].token = req[r].token
        /\ req[r].step # "answered"
    BY AnswerShape DEF Request
  <2>3. QED
    BY <2>1, <2>2 DEF ReqSound, Carrier, Created
<1>2. /\ req' \in [Requests -> {Idle} \cup Request \cup Answered]
      /\ \A s \in Requests : s # r => req'[s] = req[s]
  BY AnswerShape
<1>3. \A s \in Requests : ReqSound(req'[s], Len(sessions))
  BY <1>1, <1>2 DEF ConsoleInv
<1>4. QED
  BY <1>2, <1>3, SessionsStay, Numbers DEF ConsoleInv

(* A request moves to its next step. *)
LEMMA MoveConsole ==
  ASSUME ConsoleInv, NEW r \in Requests, NEW new \in Request, req' = [req EXCEPT ![r] = new],
         ReqSound(new, Len(sessions)),
         UNCHANGED <<now, password, replaced, stored, report, sessions>>
  PROVE  ConsoleInv'
BY MoveShape, SessionsStay, QuietStep

(* The server's steps, one by one. *)
LEMMA ServedShape ==
  ASSUME ConsoleInv, NEW r \in Requests, Serve(r)
  PROVE  req[r] \in Request /\ req[r] # Idle /\ req[r].step # "answered"
<1>1. req[r] # Idle /\ req[r].step # "answered"
  BY DEF Serve, Attempt, ReadUser, Verify, CreateSession, Insert, AuditLogin, AuditLogout, Audit,
       Begin, Authenticate, Revoke, ReadReport, WriteReport, Fail, At
<1>2. QED
  BY <1>1, OpenShape

LEMMA LoginConsole ==
  ASSUME ConsoleInv, NEW r \in Requests, Attempt(r) \/ ReadUser(r) \/ Verify(r)
  PROVE  ConsoleInv'
<1>1. req[r] \in Request /\ req[r] # Idle /\ req[r].kind = "login"
  BY ServedShape DEF Serve, Attempt, ReadUser, Verify, At
<1>2. UNCHANGED <<now, password, replaced, stored, report, sessions>>
  BY DEF Attempt, ReadUser, Verify
<1>3. CASE Answer(r, 401)
  BY <1>1, <1>2, <1>3, AnswerConsole, SessionsStay DEF ConsoleInv
<1>4. CASE req' = [req EXCEPT ![r].step = "timed"]
  <2>1. [req[r] EXCEPT !.step = "timed"] \in Request
    BY <1>1 DEF Request
  <2>2. ReqSound([req[r] EXCEPT !.step = "timed"], Len(sessions))
    BY <1>1 DEF ReqSound, Carrier, Created, Request
  <2>3. QED
    BY <1>2, <1>4, <2>1, <2>2, MoveConsole
<1>5. CASE req[r].guess = password /\ req' = [req EXCEPT ![r].step = "read"]
  <2> DEFINE new == [req[r] EXCEPT !.step = "read"]
  <2>1. new \in Request /\ new.kind = "login" /\ new.step = "read" /\ new.guess = password
    BY <1>1, <1>5 DEF Request
  <2>2. ReqSound(new, Len(sessions))
    BY <2>1 DEF ReqSound, Carrier, Created, ConsoleInv
  <2>3. QED
    BY <1>2, <1>5, <2>1, <2>2, MoveConsole
<1>6. CASE Verify(r)
  <2> DEFINE new == [req[r] EXCEPT !.step = "write", !.at = now,
                                   !.late = req[r].guess # password]
  <2>1. now \in Time /\ req[r].guess \in 1 .. MaxPasswords
    BY <1>6 DEF ConsoleInv, ReqSound, Verify, At
  <2>2. new \in Request /\ new.kind = "login" /\ new.step = "write" /\ new.guess = req[r].guess
    BY <1>1, <2>1 DEF Request
  <2>3. ReqSound(new, Len(sessions))
    BY <2>1, <2>2 DEF ReqSound, Carrier, Created
  <2>4. req' = [req EXCEPT ![r] = new]
    BY <1>6 DEF Verify, ConsoleInv
  <2>5. QED
    BY <1>2, <2>2, <2>3, <2>4, MoveConsole
<1>7. QED
  BY <1>3, <1>4, <1>5, <1>6 DEF Attempt, ReadUser, Step

LEMMA FailConsole ==
  ASSUME ConsoleInv, NEW r \in Requests, Fail(r)
  PROVE  ConsoleInv'
<1>1. req[r] \in Request
  BY ServedShape DEF Serve
<1>2. /\ UNCHANGED <<now, password, replaced, stored, report, sessions>> /\ Answer(r, 500)
  BY DEF Fail
<1>3. QED
  BY <1>1, <1>2, AnswerConsole, SessionsStay DEF ConsoleInv

LEMMA CreateConsole ==
  ASSUME ConsoleInv, NEW r \in Requests, CreateSession(r)
  PROVE  ConsoleInv'
<1>1. /\ req[r] \in Request /\ req[r] # Idle /\ req[r].kind = "login" /\ req[r].step = "write"
      /\ req[r].guess \in 1 .. MaxPasswords /\ req[r].at \in Time /\ req[r].late \in BOOLEAN
  BY ServedShape DEF Serve, CreateSession, Insert, At, ConsoleInv, ReqSound, Request
<1> DEFINE row == [password |-> req[r].guess, expires |-> req[r].at + TTL,
                   revoked |-> FALSE, late |-> req[r].late, owes |-> {"login"}]
           n == Len(sessions) + 1
           new == [req[r] EXCEPT !.step = "audit", !.at = 0, !.token = n]
<1>2. req[r].at + TTL \in 0 .. MaxTime + TTL
  BY <1>1, Numbers
<1>3. row \in Session
  BY <1>1, <1>2 DEF Session
<1>4. Len(sessions) < MaxSessions /\ sessions' = Append(sessions, row)
  BY DEF CreateSession, Insert
<1>5. sessions' \in Seq(Session) /\ Len(sessions') = n /\ n \in Nat
  BY <1>3, <1>4, SessionsStay, AppendProperties
<1>6. n \in 1 .. n /\ n \in 0 .. MaxSessions /\ n \in Len(sessions) .. MaxSessions
  BY <1>4, <1>5, SessionsStay, Numbers
<1>7. new \in Request /\ new.token = n /\ new.kind = "login" /\ new.step = "audit"
  BY <1>1, <1>6, Numbers DEF Request
<1>8. req' = [req EXCEPT ![r] = new] /\ UNCHANGED <<now, password, report, replaced, stored>>
  BY DEF CreateSession, Insert, ConsoleInv
<1>9. ReqSound(new, n)
  BY <1>6, <1>7 DEF ReqSound, Carrier, Created
<1>10. stored' \in 0 .. Len(sessions')
  BY <1>5, <1>8, SessionsStay
<1> HIDE DEF new, n
<1>11. QED
  BY <1>5, <1>6, <1>7, <1>8, <1>9, <1>10, MoveShape, QuietStep

(* A row of sessions changes and stays a row. *)
LEMMA SessionUpdate ==
  ASSUME ConsoleInv, NEW s \in 1 .. Len(sessions), NEW row \in Session,
         sessions' = [sessions EXCEPT ![s] = row]
  PROVE  sessions' \in Seq(Session) /\ Len(sessions') = Len(sessions)
BY ExceptSeq DEF ConsoleInv

LEMMA SessionRow ==
  ASSUME ConsoleInv, NEW s \in 1 .. Len(sessions)
  PROVE  sessions[s] \in Session
BY ElementOfSeq DEF ConsoleInv

(* Steps that touch no session row. *)
LEMMA RowlessConsole ==
  ASSUME ConsoleInv, NEW r \in Requests,
         Begin(r) \/ Authenticate(r) \/ ReadReport(r) \/ WriteReport(r)
  PROVE  ConsoleInv'
<1>1. /\ req[r] \in Request /\ req[r] # Idle /\ req[r].step # "answered" /\ req[r].kind # "login"
      /\ now \in Time /\ report \in Row /\ 0 \in Time
  BY ServedShape, Numbers DEF Serve, Begin, Authenticate, ReadReport, WriteReport, At, ConsoleInv
<1>2. UNCHANGED <<now, password, replaced, stored, sessions>>
  BY DEF Begin, Authenticate, ReadReport, WriteReport
<1>3. req[r].token \in 1 .. Len(sessions)
  BY <1>1 DEF ConsoleInv, ReqSound, Carrier
<1>4. ASSUME NEW new \in Request, req' = [req EXCEPT ![r] = new], UNCHANGED report,
             new.token = req[r].token, new.kind = req[r].kind
      PROVE  ConsoleInv'
  <2>1. ReqSound(new, Len(sessions))
    BY <1>1, <1>3, <1>4 DEF ReqSound, Carrier, Created
  <2>2. QED
    BY <1>2, <1>4, <2>1, MoveConsole
<1>5. ASSUME NEW st \in {200, 401}, Answer(r, st), report' \in Row PROVE ConsoleInv'
  BY <1>1, <1>2, <1>5, AnswerConsole, SessionsStay
<1>6. CASE Begin(r)
  <2> DEFINE new == [req[r] EXCEPT !.step = "timed", !.at = now]
  <2>1. new \in Request /\ new.token = req[r].token /\ new.kind = req[r].kind
    BY <1>1 DEF Request
  <2>2. req' = [req EXCEPT ![r] = new] /\ UNCHANGED report
    BY <1>6 DEF Begin, ConsoleInv
  <2>3. QED
    BY <1>4, <2>1, <2>2
<1>7. CASE Authenticate(r)
  <2> DEFINE new == [req[r] EXCEPT !.step = "accepted", !.at = 0]
  <2>1. new \in Request /\ new.token = req[r].token /\ new.kind = req[r].kind
    BY <1>1 DEF Request
  <2>2. (req' = [req EXCEPT ![r] = new] \/ Answer(r, 401)) /\ UNCHANGED report
    BY <1>7 DEF Authenticate, Accept, ConsoleInv
  <2>3. QED
    BY <1>1, <1>4, <1>5, <2>1, <2>2
<1>8. CASE ReadReport(r)
  <2> DEFINE new == [req[r] EXCEPT !.step = "write", !.seen = report]
  <2>1. new \in Request /\ new.token = req[r].token /\ new.kind = req[r].kind
    BY <1>1 DEF Request
  <2>2. req' = [req EXCEPT ![r] = new] /\ UNCHANGED report
    BY <1>8 DEF ReadReport, ConsoleInv
  <2>3. QED
    BY <1>4, <2>1, <2>2
<1>9. CASE WriteReport(r)
  <2>1. Changed(r) \in Row
    BY <1>1 DEF Changed, Row, Request
  <2>2. QED
    BY <1>5, <1>9, <2>1 DEF WriteReport
<1>10. QED
  BY <1>6, <1>7, <1>8, <1>9

(* What the three steps that write a row of sessions make of it. *)
LEMMA RowForms ==
  ASSUME NEW row \in Session
  PROVE  /\ \A kind : [row EXCEPT !.owes = @ \ {kind}] \in Session
         /\ [row EXCEPT !.revoked = TRUE, !.owes = @ \cup {"logout"}] \in Session
         /\ [row EXCEPT !.revoked = @ \/ row.expires <= now] \in Session
BY DEF Session

LEMMA AuditConsole ==
  ASSUME ConsoleInv, NEW r \in Requests, NEW kind \in {"login", "logout"}, Audit(r, kind)
  PROVE  /\ ConsoleInv' /\ Len(sessions') = Len(sessions)
         /\ req[r].token \in 1 .. Len(sessions)
         /\ \A s \in 1 .. Len(sessions) :
              sessions'[s] = IF s = req[r].token
                             THEN [sessions[s] EXCEPT !.owes = @ \ {kind}] ELSE sessions[s]
<1>1. req[r] \in Request /\ req[r] # Idle /\ (Carrier(req[r]) \/ Created(req[r]))
  <2>1. req[r] # Idle /\ req[r].kind = kind /\ req[r].step = "audit"
    BY DEF Audit, At
  <2>2. QED
    BY <2>1, OpenShape DEF Carrier, Created
<1> DEFINE s == req[r].token
           paid == [sessions[s] EXCEPT !.owes = @ \ {kind}]
<1>2. s \in 1 .. Len(sessions) /\ sessions[s] \in Session
  BY <1>1, SessionRow DEF ConsoleInv, ReqSound
<1>3. paid \in Session /\ sessions' = [sessions EXCEPT ![s] = paid]
  BY <1>2, RowForms DEF Audit
<1> HIDE DEF paid
<1>4. sessions' \in Seq(Session) /\ Len(sessions') = Len(sessions)
  BY <1>2, <1>3, SessionUpdate
<1>5. /\ UNCHANGED <<now, password, replaced, stored>> /\ report' \in Row /\ Answer(r, 200)
  BY DEF Audit, ConsoleInv
<1>6. ConsoleInv'
  BY <1>1, <1>4, <1>5, AnswerConsole DEF Carrier
<1>7. \A t \in 1 .. Len(sessions) : sessions'[t] = IF t = s THEN paid ELSE sessions[t]
  BY <1>2, <1>3, ExceptSeq DEF ConsoleInv
<1>8. QED
  BY <1>2, <1>4, <1>6, <1>7 DEF paid

LEMMA RevokeConsole ==
  ASSUME ConsoleInv, NEW r \in Requests, Revoke(r)
  PROVE  /\ ConsoleInv' /\ Len(sessions') = Len(sessions)
         /\ req[r].token \in 1 .. Len(sessions)
         /\ \/ UNCHANGED sessions /\ Answer(r, 500)
            \/ /\ ~sessions[req[r].token].revoked
               /\ req' = [req EXCEPT ![r] = [req[r] EXCEPT !.step = "audit"]]
               /\ \A s \in 1 .. Len(sessions) :
                    sessions'[s] =
                      IF s = req[r].token
                      THEN [sessions[s] EXCEPT !.revoked = TRUE, !.owes = @ \cup {"logout"}]
                      ELSE sessions[s]
<1>1. /\ req[r] \in Request /\ req[r] # Idle /\ req[r].kind = "logout" /\ Carrier(req[r])
  BY ServedShape DEF Serve, Revoke, At, Carrier
<1> DEFINE s == req[r].token
           gone == [sessions[s] EXCEPT !.revoked = TRUE, !.owes = @ \cup {"logout"}]
           new == [req[r] EXCEPT !.step = "audit"]
<1>2. s \in 1 .. Len(sessions) /\ sessions[s] \in Session
  BY <1>1, SessionRow DEF ConsoleInv, ReqSound
<1>3. UNCHANGED <<now, password, replaced, stored, report>>
  BY DEF Revoke
<1>4. CASE sessions[s].revoked
  <2>1. UNCHANGED sessions /\ Answer(r, 500)
    BY <1>4 DEF Revoke
  <2>2. ConsoleInv'
    BY <1>1, <1>3, <2>1, AnswerConsole, SessionsStay DEF ConsoleInv
  <2>3. QED
    BY <1>2, <2>1, <2>2
<1>5. CASE ~sessions[s].revoked
  <2>1. /\ sessions' = [sessions EXCEPT ![s] = gone] /\ req' = [req EXCEPT ![r] = new]
        /\ gone \in Session
    BY <1>2, <1>5, RowForms DEF Revoke, Step, ConsoleInv
  <2>2. new \in Request /\ new.kind = "logout" /\ new.token = s /\ new.step = "audit"
    BY <1>1 DEF Request
  <2> HIDE DEF gone
  <2>3. sessions' \in Seq(Session) /\ Len(sessions') = Len(sessions)
    BY <1>2, <2>1, SessionUpdate
  <2>4. ReqSound(new, Len(sessions))
    BY <1>2, <2>2 DEF ReqSound, Carrier, Created
  <2>5. ConsoleInv'
    <3>1. /\ req' \in [Requests -> {Idle} \cup Request \cup Answered] /\ req'[r] = new
          /\ \A t \in Requests : t # r => req'[t] = req[t]
      BY <2>1, <2>2, MoveShape
    <3>2. Len(sessions') \in Len(sessions) .. MaxSessions /\ stored' \in 0 .. Len(sessions')
      BY <1>3, <2>3, SessionsStay
    <3>3. QED
      BY <1>3, <2>3, <2>4, <3>1, <3>2, QuietStep
  <2>6. \A t \in 1 .. Len(sessions) : sessions'[t] = IF t = s THEN gone ELSE sessions[t]
    BY <1>2, <2>1, ExceptSeq DEF ConsoleInv
  <2>7. QED
    BY <1>2, <1>5, <2>1, <2>3, <2>5, <2>6 DEF gone
<1>6. QED
  BY <1>4, <1>5

(* All rows change alike. *)
LEMMA SweepRows ==
  ASSUME ConsoleInv, Sweep
  PROVE  /\ sessions' \in Seq(Session) /\ Len(sessions') = Len(sessions)
         /\ \A s \in 1 .. Len(sessions) :
              sessions'[s] = [sessions[s] EXCEPT !.revoked = @ \/ sessions[s].expires <= now]
<1>1. sessions \in Seq(Session) /\ Len(sessions) \in Nat /\ DOMAIN sessions = 1 .. Len(sessions)
  BY LenProperties DEF ConsoleInv
<1> DEFINE swept(s) == [sessions[s] EXCEPT !.revoked = @ \/ sessions[s].expires <= now]
<1>2. \A s \in 1 .. Len(sessions) : swept(s) \in Session
  BY SessionRow, RowForms
<1>3. sessions' = [s \in 1 .. Len(sessions) |-> swept(s)]
  BY <1>1 DEF Sweep
<1> HIDE DEF swept
<1>4. sessions' \in [1 .. Len(sessions) -> Session]
  BY <1>2, <1>3
<1>5. sessions' \in Seq(Session) /\ DOMAIN sessions' = 1 .. Len(sessions)
  BY <1>1, <1>4
<1>6. Len(sessions') = Len(sessions)
  BY <1>1, <1>5, LenProperties
<1>7. \A s \in 1 .. Len(sessions) : sessions'[s] = swept(s)
  BY <1>3
<1>8. QED
  BY <1>5, <1>6, <1>7 DEF swept

LEMMA ConsoleStep == ConsoleInv /\ [Next]_vars => ConsoleInv'
<1> SUFFICES ASSUME ConsoleInv, [Next]_vars PROVE ConsoleInv'
  OBVIOUS
<1>1. CASE \E r \in Requests, guess \in 1 .. MaxPasswords : Login(r, guess)
  BY <1>1, SendConsole, Numbers DEF Login
<1>2. CASE \E r \in Requests, form \in Forms : Save(r, form)
  BY <1>2, SendConsole, Numbers DEF Save
<1>3. CASE \E r \in Requests : Logout(r)
  BY <1>3, SendConsole, Numbers DEF Logout
<1>4. CASE \E r \in Requests : Receive(r) \/ NetworkError(r)
  BY <1>4, ReceiveConsole
<1>5. CASE \E r \in Requests : Serve(r)
  BY <1>5, LoginConsole, CreateConsole, RowlessConsole, AuditConsole, RevokeConsole, FailConsole
     DEF Serve, AuditLogin, AuditLogout
<1>6. CASE ReplacePassword
  <2>1. password' \in 1 .. MaxPasswords /\ replaced' \in Time
    BY <1>6, Numbers DEF ReplacePassword, ConsoleInv
  <2>2. QED
    BY <1>6, <2>1 DEF ReplacePassword, ConsoleInv
<1>7. CASE Sweep
  <2>1. sessions' \in Seq(Session) /\ Len(sessions') = Len(sessions)
    BY <1>7, SweepRows
  <2>2. QED
    BY <1>7, <2>1 DEF Sweep, ConsoleInv
<1>8. CASE Restart
  <2>2. /\ UNCHANGED <<now, password, report, replaced, sessions>> /\ stored' \in {0, stored}
        /\ req' = [r \in Requests |-> Idle]
    BY <1>8 DEF Restart
  <2>3. stored' \in 0 .. Len(sessions)
    BY <2>2, SessionsStay
  <2>4. \A r \in Requests : ReqSound(req'[r], Len(sessions))
    BY <2>2 DEF ReqSound, Carrier, Created
  <2>5. req' \in [Requests -> {Idle} \cup Request \cup Answered]
    BY <2>2
  <2>6. QED
    BY <2>2, <2>3, <2>4, <2>5 DEF ConsoleInv
<1>9. CASE Tick
  <2>1. now' \in Time
    BY <1>9, Numbers DEF Tick, ConsoleInv
  <2>2. QED
    BY <1>9, <2>1 DEF Tick, ConsoleInv
<1>10. CASE UNCHANGED vars
  BY <1>10 DEF vars, ConsoleInv
<1>11. QED
  BY <1>1, <1>2, <1>3, <1>4, <1>5, <1>6, <1>7, <1>8, <1>9, <1>10 DEF Next

-----------------------------------------------------------------------------
(* What a step may do to the sessions: a row keeps its expiry and its      *)
(* password, its revocation is final, and a new row is a verified login's. *)

EndedByLogout(s) == \E r \in Requests : At(r, "logout", "accepted") /\ req[r].token = s

RowKept(s) ==
  /\ sessions'[s].expires = sessions[s].expires
  /\ sessions'[s].password = sessions[s].password
  /\ sessions'[s].late = sessions[s].late
  /\ sessions[s].revoked => sessions'[s].revoked
  /\ sessions'[s].revoked => sessions[s].revoked \/ sessions[s].expires <= now \/ EndedByLogout(s)
  /\ "login" \in sessions'[s].owes => "login" \in sessions[s].owes
  /\ "logout" \in sessions'[s].owes => "logout" \in sessions[s].owes \/ ~sessions[s].revoked

RowCreated(s) ==
  \E r \in Requests :
    /\ At(r, "login", "write") /\ req[r] \in Request
    /\ sessions'[s].password = req[r].guess /\ sessions'[s].expires = req[r].at + TTL
    /\ sessions'[s].late = req[r].late
    /\ At(r, "login", "audit")' /\ req'[r].token = s

LEMMA OneRow ==
  ASSUME ConsoleInv, NEW s \in 1 .. Len(sessions),
         Sweep \/ \E r \in Requests : AuditLogin(r) \/ AuditLogout(r) \/ Revoke(r)
  PROVE  RowKept(s) /\ Len(sessions') = Len(sessions)
<1> DEFINE row == sessions[s]
           swept == [row EXCEPT !.revoked = @ \/ row.expires <= now]
           paid(kind) == [row EXCEPT !.owes = @ \ {kind}]
           gone == [row EXCEPT !.revoked = TRUE, !.owes = @ \cup {"logout"}]
<1>1. row \in Session
  BY SessionRow
<1>2. CASE Sweep
  <2>1. /\ swept.expires = row.expires /\ swept.password = row.password
        /\ swept.late = row.late /\ swept.owes = row.owes
        /\ swept.revoked = (row.revoked \/ row.expires <= now)
    BY <1>1 DEF Session
  <2>2. sessions'[s] = swept /\ Len(sessions') = Len(sessions)
    BY <1>2, SweepRows
  <2>3. QED
    BY <2>1, <2>2 DEF RowKept
<1>3. ASSUME NEW r \in Requests, NEW kind \in {"login", "logout"}, Audit(r, kind)
      PROVE  RowKept(s) /\ Len(sessions') = Len(sessions)
  <2>1. /\ paid(kind).expires = row.expires /\ paid(kind).password = row.password
        /\ paid(kind).late = row.late /\ paid(kind).revoked = row.revoked
        /\ paid(kind).owes = row.owes \ {kind}
    BY <1>1 DEF Session
  <2>2. (sessions'[s] = paid(kind) \/ sessions'[s] = row) /\ Len(sessions') = Len(sessions)
    BY <1>3, AuditConsole
  <2>3. CASE sessions'[s] = row
    BY <2>2, <2>3 DEF RowKept
  <2>4. CASE sessions'[s] = paid(kind)
    <3> HIDE DEF paid, row
    <3>1. RowKept(s)
      BY <2>1, <2>4 DEF RowKept, row
    <3>2. QED
      BY <2>2, <3>1
  <2>5. QED
    BY <2>2, <2>3, <2>4
<1>4. ASSUME NEW r \in Requests, Revoke(r) PROVE RowKept(s) /\ Len(sessions') = Len(sessions)
  <2>1. /\ gone.expires = row.expires /\ gone.password = row.password
        /\ gone.late = row.late /\ gone.revoked /\ gone.owes = row.owes \cup {"logout"}
    BY <1>1 DEF Session
  <2>2. EndedByLogout(req[r].token)
    BY <1>4 DEF Revoke, EndedByLogout
  <2>3. /\ Len(sessions') = Len(sessions)
        /\ \/ sessions'[s] = row
           \/ EndedByLogout(s) /\ ~row.revoked /\ sessions'[s] = gone
    BY <1>4, <2>2, RevokeConsole
  <2>4. CASE sessions'[s] = row
    BY <2>3, <2>4 DEF RowKept
  <2>5. CASE EndedByLogout(s) /\ ~row.revoked /\ sessions'[s] = gone
    <3> HIDE DEF gone, row
    <3>1. RowKept(s)
      BY <2>1, <2>5 DEF RowKept, row
    <3>2. QED
      BY <2>3, <3>1
  <2>6. QED
    BY <2>3, <2>4, <2>5
<1>5. QED
  BY <1>2, <1>3, <1>4 DEF AuditLogin, AuditLogout

LEMMA NewRow ==
  ASSUME ConsoleInv, NEW r \in Requests, CreateSession(r)
  PROVE  /\ Len(sessions') = Len(sessions) + 1
         /\ \A s \in 1 .. Len(sessions) : RowKept(s)
         /\ RowCreated(Len(sessions) + 1)
<1>1. /\ req[r] \in Request /\ At(r, "login", "write")
      /\ req[r].guess \in 1 .. MaxPasswords /\ req[r].at \in Time /\ req[r].late \in BOOLEAN
  BY ServedShape DEF Serve, CreateSession, Insert, At, ConsoleInv, ReqSound, Request
<1> DEFINE row == [password |-> req[r].guess, expires |-> req[r].at + TTL,
                   revoked |-> FALSE, late |-> req[r].late, owes |-> {"login"}]
           n == Len(sessions) + 1
<1>2. row \in Session
  BY <1>1, Numbers DEF Session
<1>3. sessions' = Append(sessions, row) /\ Len(sessions) < MaxSessions
  BY DEF CreateSession, Insert
<1>4. /\ Len(sessions') = n /\ sessions'[n] = row
      /\ \A s \in 1 .. Len(sessions) : sessions'[s] = sessions[s]
  BY <1>2, <1>3, AppendProperties DEF ConsoleInv
<1>5. At(r, "login", "audit")' /\ req'[r].token = n
  <2>1. req' = [req EXCEPT ![r] = [req[r] EXCEPT !.step = "audit", !.at = 0, !.token = n]]
    BY DEF CreateSession, Insert, ConsoleInv
  <2>2. [req[r] EXCEPT !.step = "audit", !.at = 0, !.token = n] \in Request
    <3>1. n \in 0 .. MaxSessions
      BY <1>3, SessionsStay, Numbers
    <3>2. QED
      BY <1>1, <3>1, Numbers DEF Request
  <2>3. /\ req'[r] = [req[r] EXCEPT !.step = "audit", !.at = 0, !.token = n]
        /\ req'[r] # Idle
    BY <2>1, <2>2, MoveShape
  <2>4. QED
    BY <1>1, <2>3 DEF At, Request
<1>6. RowCreated(n)
  BY <1>1, <1>4, <1>5 DEF RowCreated
<1>7. QED
  BY <1>4, <1>6 DEF RowKept

LEMMA SessionSteps ==
  ASSUME ConsoleInv, [Next]_vars
  PROVE  /\ Len(sessions') \in {Len(sessions), Len(sessions) + 1}
         /\ \A s \in 1 .. Len(sessions) : RowKept(s)
         /\ \A s \in 1 .. Len(sessions') : s \in 1 .. Len(sessions) \/ RowCreated(s)
<1>1. Len(sessions) \in Nat
  BY SessionsStay
<1>2. CASE UNCHANGED sessions
  BY <1>2 DEF RowKept
<1>3. CASE Sweep \/ \E r \in Requests : AuditLogin(r) \/ AuditLogout(r) \/ Revoke(r)
  <2>1. Len(sessions') = Len(sessions)
    BY <1>3, SweepRows, AuditConsole, RevokeConsole DEF AuditLogin, AuditLogout
  <2>2. QED
    BY <1>3, <2>1, OneRow
<1>4. CASE \E r \in Requests : CreateSession(r)
  <2>1. PICK r \in Requests : CreateSession(r)
    BY <1>4
  <2>2. \A s \in 1 .. Len(sessions) + 1 : s \in 1 .. Len(sessions) \/ s = Len(sessions) + 1
    BY <1>1
  <2>3. QED
    BY <2>1, <2>2, NewRow
<1>5. QED
  <2>1. CASE \E r \in Requests : Serve(r)
    BY <1>2, <1>3, <1>4, <2>1 DEF Serve, Attempt, ReadUser, Verify, Begin, Authenticate, ReadReport,
         WriteReport, Fail
  <2>2. CASE ~ \E r \in Requests : Serve(r)
    BY <1>2, <1>3, <2>2 DEF Next, vars, Login, Save, Logout, Send, Receive, NetworkError,
         ReplacePassword, Restart, Tick
  <2>3. QED
    BY <2>1, <2>2

-----------------------------------------------------------------------------
(* The types of the console and of the sessions that requests stand for    *)
(* hold in every reachable state.                                          *)
THEOREM ConsoleHolds == Spec => []ConsoleInv
<1>1. ConsoleInv /\ [Next]_vars => ConsoleInv'
  BY ConsoleStep
<1>2. QED
  BY InitConsole, <1>1, PTL DEF Spec

(* A session that has not expired is ended by its own logout only: no pass *)
(* of the retention, restart, new password or other request revokes it.    *)
THEOREM SessionsAreLeftAlone == Spec => LiveSessionsStay
<1> DEFINE Kept == \A s \in DOMAIN sessions :
                     (Live(s, now) /\ sessions'[s].revoked) => EndedByLogout(s)
<1>1. ASSUME ConsoleInv, [Next]_vars PROVE Kept
  <2>1. DOMAIN sessions = 1 .. Len(sessions)
    BY LenProperties DEF ConsoleInv
  <2>2. ASSUME NEW s \in 1 .. Len(sessions), Live(s, now), sessions'[s].revoked
        PROVE  EndedByLogout(s)
    <3>1. sessions[s].expires \in Nat /\ now \in Nat
      BY SessionRow, Numbers, <1>1 DEF Session, ConsoleInv
    <3>2. QED
      BY <1>1, <2>2, <3>1, SessionSteps DEF RowKept, Live
  <2>3. QED
    BY <2>1, <2>2
<1>2. ConsoleInv /\ [Next]_vars => [Kept]_vars
  BY <1>1
<1>3. [][Kept]_vars => LiveSessionsStay
  BY PTL DEF LiveSessionsStay, EndedByLogout
<1>4. QED
  BY ConsoleHolds, <1>2, <1>3, PTL DEF Spec

LEMMA WriteTypes ==
  ASSUME ConsoleInv, NEW r \in Requests, WriteReport(r), audit \subseteq Statuses \cup Priorities
  PROVE  audit' \subseteq Statuses \cup Priorities
<1>1. req[r] \in Request
  BY ServedShape DEF Serve
<1>2. req[r].form.status \in Statuses /\ req[r].form.priority \in Priorities
  BY <1>1 DEF Request, Row
<1>3. QED
  BY <1>2 DEF WriteReport

(* Every reachable state is well typed. *)
THEOREM ConsoleTypeCorrect == Spec => []TypeOK
<1> DEFINE HistoryInv == audit \subseteq Statuses \cup Priorities /\ admitted \in Seq(Time)
<1>1. Init => HistoryInv
  BY EmptySeq DEF Init
<1>2. ASSUME ConsoleInv, HistoryInv, [Next]_vars PROVE HistoryInv'
  <2>1. now \in Time
    BY <1>2 DEF ConsoleInv
  <2>2. \/ UNCHANGED admitted
        \/ admitted' = Append(admitted, now)
        \/ admitted' = <<>>
    BY <1>2 DEF Next, vars, Login, Save, Logout, Send, Receive, NetworkError, Serve, Attempt,
         ReadUser, Verify, CreateSession, Insert, AuditLogin,
         AuditLogout, Audit, Fail, Begin, Authenticate, Revoke, ReadReport,
         WriteReport, ReplacePassword, Sweep, Restart, Tick
  <2>3. UNCHANGED audit \/ \E r \in Requests : WriteReport(r)
    BY <1>2 DEF Next, vars, Login, Save, Logout, Send, Receive, NetworkError, Serve, Attempt,
         ReadUser, Verify, CreateSession, Insert, AuditLogin,
         AuditLogout, Audit, Fail, Begin, Authenticate, Revoke, ReadReport,
         ReplacePassword, Sweep, Restart, Tick
  <2>4. admitted' \in Seq(Time)
    <3>1. UNCHANGED admitted \/ admitted' = <<>> => admitted' \in Seq(Time)
      BY <1>2, EmptySeq
    <3>2. admitted' = Append(admitted, now) => admitted' \in Seq(Time)
      BY <1>2, <2>1, AppendProperties
    <3>3. QED
      BY <2>2, <3>1, <3>2
  <2>5. audit' \subseteq Statuses \cup Priorities
    BY <1>2, <2>3, WriteTypes
  <2>6. QED
    BY <2>4, <2>5
<1>3. ConsoleInv /\ HistoryInv => TypeOK
  BY DEF ConsoleInv, TypeOK
<1>4. QED
  BY <1>1, <1>2, <1>3, ConsoleHolds, PTL DEF Spec

(* Whatever saves of the problem report overlap, each value the report has *)
(* was set together with its audit row.                                    *)
LEMMA NoSilentChange == Spec => []ChangesAudited
<1>1. Init => ChangesAudited
  BY DEF Init, NewReport, ChangesAudited
<1>2. ASSUME ChangesAudited, [Next]_vars PROVE ChangesAudited'
  <2>1. CASE UNCHANGED <<report, audit>>
    BY <1>2, <2>1 DEF ChangesAudited
  <2>2. ASSUME NEW r \in Requests, WriteReport(r) PROVE ChangesAudited'
    <3>1. /\ report' = Changed(r)
          /\ audit' = audit \cup {req[r].form.status, req[r].form.priority}
      BY <2>2 DEF WriteReport
    <3>2. /\ Changed(r).status \in {req[r].form.status, report.status}
          /\ Changed(r).priority \in {req[r].form.priority, report.priority}
      BY DEF Changed
    <3>3. QED
      BY <1>2, <3>1, <3>2 DEF ChangesAudited
  <2>3. QED
    <3>1. CASE \E r \in Requests : Serve(r)
      BY <2>1, <2>2, <3>1 DEF Serve, Attempt, ReadUser, Verify, CreateSession, Insert, AuditLogin,
           AuditLogout, Audit, Fail, Begin,
           Authenticate, Revoke, ReadReport
    <3>2. CASE ~ \E r \in Requests : Serve(r)
      BY <1>2, <2>1, <3>2 DEF Next, vars, Login, Save, Logout, Send, Receive, NetworkError,
           ReplacePassword, Sweep, Restart, Tick
    <3>3. QED
      BY <3>1, <3>2
<1>3. QED
  BY <1>1, <1>2, PTL DEF Spec

-----------------------------------------------------------------------------
(* What a step may do to one request.                                      *)

Sent(r) ==
  \E kind \in {"login", "save", "logout"}, guess \in 0 .. MaxPasswords, form \in Row :
    (kind # "login" => stored # 0) /\ Send(r, kind, guess, form)

Gone(r) == req'[r] = Idle

LEMMA OthersStay ==
  ASSUME ConsoleInv, NEW r \in Requests, NEW s \in Requests, s # r,
         Sent(r) \/ Receive(r) \/ NetworkError(r) \/ Serve(r)
  PROVE  req'[s] = req[s]
BY DEF ConsoleInv, Sent, Send, Receive, NetworkError, Serve, Attempt, ReadUser, Verify, CreateSession, Insert,
     AuditLogin,
     AuditLogout, Audit, Fail, Begin, Authenticate, Accept, Revoke, ReadReport, WriteReport, Answer, Step

LEMMA RequestSteps ==
  ASSUME ConsoleInv, [Next]_vars, NEW r \in Requests
  PROVE  req'[r] = req[r] \/ Gone(r) \/ Sent(r) \/ Serve(r)
<1>1. ASSUME NEW s \in Requests, Sent(s) \/ Receive(s) \/ NetworkError(s) \/ Serve(s)
      PROVE  req'[r] = req[r] \/ Gone(r) \/ Sent(r) \/ Serve(r)
  <2>1. CASE s = r
    <3>1. Receive(r) \/ NetworkError(r) => Gone(r)
      BY DEF ConsoleInv, Receive, NetworkError, Gone
    <3>2. QED
      BY <1>1, <2>1, <3>1
  <2>2. CASE s # r
    BY <1>1, <2>2, OthersStay
  <2>3. QED
    BY <2>1, <2>2
<1>2. ASSUME NEW s \in Requests, NEW guess \in 1 .. MaxPasswords, Login(s, guess) PROVE Sent(s)
  <2>1. /\ Send(s, "login", guess, NewReport) /\ guess \in 0 .. MaxPasswords
        /\ NewReport \in Row
    BY <1>2, Numbers DEF Login
  <2>2. QED
    BY <2>1 DEF Sent
<1>3. ASSUME NEW s \in Requests, NEW form \in Forms, Save(s, form) PROVE Sent(s)
  <2>1. stored # 0 /\ Send(s, "save", 0, form) /\ 0 \in 0 .. MaxPasswords /\ form \in Row
    BY <1>3, Numbers DEF Save
  <2>2. QED
    BY <2>1 DEF Sent
<1>4. ASSUME NEW s \in Requests, Logout(s) PROVE Sent(s)
  <2>1. /\ stored # 0 /\ Send(s, "logout", 0, NewReport) /\ 0 \in 0 .. MaxPasswords
        /\ NewReport \in Row
    BY <1>4, Numbers DEF Logout
  <2>2. QED
    BY <2>1 DEF Sent
<1>5. ReplacePassword \/ Sweep \/ Tick \/ UNCHANGED vars => req'[r] = req[r]
  BY DEF ReplacePassword, Sweep, Tick, vars
<1>6. Restart => Gone(r)
  BY DEF Restart, Gone
<1>7. QED
  BY <1>1, <1>2, <1>3, <1>4, <1>5, <1>6 DEF Next

LEMMA SentShape ==
  ASSUME ConsoleInv, NEW r \in Requests, Sent(r)
  PROVE  /\ req'[r].step = "sent" /\ req'[r].token = stored
         /\ req'[r].kind = "login" \/ stored # 0
         /\ req'[r].kind # "login" => (Live(stored, now) => req'[r].began)
         /\ UNCHANGED <<now, password, sessions, replaced>>
<1>1. PICK kind \in {"login", "save", "logout"}, guess \in 0 .. MaxPasswords, form \in Row :
        (kind # "login" => stored # 0) /\ Send(r, kind, guess, form)
  BY DEF Sent
<1> DEFINE began == stored # 0 /\ Live(stored, now)
           new == [kind |-> kind, step |-> "sent", token |-> stored, guess |-> guess, at |-> 0,
                   began |-> began, late |-> FALSE, form |-> form, seen |-> form]
<1>2. kind # "login" => (Live(stored, now) => began)
  BY <1>1, Zenon
<1> HIDE DEF began
<1>3. req' = [req EXCEPT ![r] = new]
  BY <1>1 DEF Send, began
<1>4. req'[r] = new
  BY <1>3 DEF ConsoleInv
<1>5. UNCHANGED <<now, password, sessions, replaced>>
  BY <1>1 DEF Send
<1>6. QED
  BY <1>1, <1>2, <1>4, <1>5

(* The clock and the password.                                             *)
LEMMA ClockSteps ==
  ASSUME ConsoleInv, [Next]_vars
  PROVE  /\ now \in Nat /\ now' \in Nat /\ now <= now' /\ replaced \in Nat /\ replaced' \in Nat
         /\ \/ UNCHANGED <<password, replaced>>
            \/ ReplacePassword /\ password' = password + 1 /\ replaced' = now /\ now' = now
<1>1. now \in Nat /\ replaced \in Nat
  BY Numbers DEF ConsoleInv
<1>2. CASE UNCHANGED <<now, password, replaced>>
  BY <1>1, <1>2
<1>3. CASE ReplacePassword \/ Tick
  BY <1>1, <1>3 DEF ReplacePassword, Tick
<1>4. QED
  BY <1>2, <1>3 DEF Next, vars, Login, Save, Logout, Send, Receive, NetworkError, Serve, Attempt,
       ReadUser, Verify, CreateSession, Insert, AuditLogin,
       AuditLogout, Audit, Fail, Begin, Authenticate, Revoke, ReadReport,
       WriteReport, Sweep, Restart

-----------------------------------------------------------------------------
(* Replacing the password lets the sessions of the old one live for TTL at *)
(* most.  The part that is needed beyond the property itself: no session   *)
(* and no verified login is younger than the clock, and a login verified   *)
(* with another password was verified before the password was replaced, or *)
(* is late.                                                                *)

VerifiedSound(r) ==
  At(r, "login", "write") =>
    req[r].at <= now /\ (req[r].guess # password => req[r].at <= replaced \/ req[r].late)
RowSound(s) ==
  /\ sessions[s].expires <= now + TTL
  /\ sessions[s].password # password =>
       sessions[s].expires <= replaced + TTL \/ sessions[s].late
DyingInv ==
  /\ replaced <= now
  /\ \A r \in Requests : VerifiedSound(r)
  /\ \A s \in 1 .. Len(sessions) : RowSound(s)

(* Only a verification brings a login to the writing of its session. *)
LEMMA VerifySteps ==
  ASSUME ConsoleInv, [Next]_vars, NEW r \in Requests, At(r, "login", "write")'
  PROVE  \/ req'[r] = req[r]
         \/ /\ req'[r].at = now /\ req'[r].late = (req'[r].guess # password)
            /\ UNCHANGED <<now, password>>
<1>1. req'[r] # Idle /\ req'[r].step = "write" /\ req'[r].kind = "login"
  BY DEF At
<1>2. ~Sent(r)
  BY <1>1, SentShape
<1>3. CASE Serve(r)
  <2>1. req[r] \in Request /\ req[r] # Idle
    BY <1>3, ServedShape
  <2>2. ASSUME NEW st \in {200, 401, 500}, Answer(r, st) PROVE FALSE
    BY <1>1, <2>1, <2>2, AnswerShape
  <2>3. CASE req[r].kind # "login"
    <3>1. req'[r].kind = req[r].kind
      <4>1. ASSUME Begin(r) \/ Authenticate(r) \/ ReadReport(r) PROVE req'[r].kind = req[r].kind
        <5>1. CASE Answer(r, 401)
          BY <2>2, <5>1
        <5>2. CASE ~Answer(r, 401)
          BY <2>1, <4>1, <5>2 DEF ConsoleInv, Begin, Authenticate, ReadReport, Accept, Request
        <5>3. QED
          BY <5>1, <5>2
      <4>2. QED
        <5>1. CASE Revoke(r)
          <6>1. req' = [req EXCEPT ![r] = [req[r] EXCEPT !.step = "audit"]]
            BY <2>2, <5>1, RevokeConsole
          <6>2. req'[r] = [req[r] EXCEPT !.step = "audit"]
            BY <6>1 DEF ConsoleInv
          <6>3. QED
            BY <1>1, <2>1, <6>2 DEF Request
        <5>2. CASE ~Revoke(r)
          BY <1>3, <2>2, <2>3, <4>1, <5>2 DEF Serve, Attempt, ReadUser, Verify, CreateSession,
             Insert, AuditLogin, AuditLogout, Audit, Fail, WriteReport, At
        <5>3. QED
          BY <5>1, <5>2
    <3>2. QED
      BY <1>1, <2>3, <3>1
  <2>4. CASE Verify(r)
    <3> DEFINE new == [req[r] EXCEPT !.step = "write", !.at = now,
                                     !.late = req[r].guess # password]
    <3>1. req' = [req EXCEPT ![r] = new]
      BY <2>4 DEF Verify, ConsoleInv
    <3>2. req'[r] = new
      BY <3>1 DEF ConsoleInv
    <3>3. /\ req'[r].at = now /\ req'[r].guess = req[r].guess
          /\ req'[r].late = (req[r].guess # password)
      BY <2>1, <3>2 DEF Request
    <3>4. QED
      BY <2>4, <3>3 DEF Verify
  <2>5. CASE Attempt(r) \/ ReadUser(r) \/ CreateSession(r)
    <3>1. CASE Attempt(r) \/ ReadUser(r)
      <4>1. PICK step \in {"timed", "read"} : req' = [req EXCEPT ![r].step = step]
        BY <2>2, <3>1 DEF Attempt, ReadUser, Step
      <4>2. req'[r].step = step
        BY <2>1, <4>1 DEF ConsoleInv, Request
      <4>3. QED
        BY <1>1, <4>2
    <3>2. CASE CreateSession(r)
      <4>1. req' = [req EXCEPT ![r] = [req[r] EXCEPT !.step = "audit", !.at = 0,
                                                    !.token = Len(sessions) + 1]]
        BY <3>2 DEF CreateSession, Insert, ConsoleInv
      <4>2. req'[r].step = "audit"
        BY <2>1, <4>1 DEF ConsoleInv, Request
      <4>3. QED
        BY <1>1, <4>2
    <3>3. QED
      BY <2>5, <3>1, <3>2
  <2>6. QED
    BY <1>3, <2>2, <2>3, <2>4, <2>5 DEF Serve, AuditLogin, AuditLogout, Audit, Fail, Begin,
         Authenticate, Revoke, ReadReport, WriteReport, At
<1>4. QED
  BY <1>1, <1>2, <1>3, RequestSteps DEF Gone

LEMMA DyingStep == ConsoleInv /\ DyingInv /\ [Next]_vars => DyingInv'
<1> SUFFICES ASSUME ConsoleInv, DyingInv, [Next]_vars PROVE DyingInv'
  OBVIOUS
<1>1. replaced' <= now'
  BY ClockSteps DEF DyingInv
<1>2. ASSUME NEW r \in Requests, At(r, "login", "write"), req[r] \in Request
      PROVE  req[r].at \in Nat /\ req[r].at <= now
  BY <1>2, Numbers DEF DyingInv, VerifiedSound, Request
<1>3. ASSUME NEW r \in Requests, At(r, "login", "write")'
      PROVE  /\ req'[r].at <= now'
             /\ req'[r].guess # password' => req'[r].at <= replaced' \/ req'[r].late
  <2>1. CASE req'[r] = req[r]
    <3>1. At(r, "login", "write")
      BY <1>3, <2>1 DEF At
    <3>2. req[r] \in Request
      BY <3>1, OpenShape DEF At
    <3>3. /\ req[r].at \in Nat /\ req[r].at <= now
          /\ req[r].guess # password => req[r].at <= replaced \/ req[r].late
      BY <1>2, <3>1, <3>2 DEF DyingInv, VerifiedSound
    <3>4. QED
      BY <2>1, <3>3, ClockSteps
  <2>2. CASE /\ req'[r].at = now /\ req'[r].late = (req'[r].guess # password)
             /\ UNCHANGED <<now, password>>
    BY <2>2, ClockSteps
  <2>3. QED
    BY <1>3, <2>1, <2>2, VerifySteps
<1>4. ASSUME NEW s \in 1 .. Len(sessions')
      PROVE  /\ sessions'[s].expires <= now' + TTL
             /\ sessions'[s].password # password' =>
                  sessions'[s].expires <= replaced' + TTL \/ sessions'[s].late
  <2>1. CASE s \in 1 .. Len(sessions)
    <3>1. RowKept(s) /\ RowSound(s) /\ sessions[s].expires \in Nat
      <4>1. sessions[s].expires \in 0 .. MaxTime + TTL
        BY <2>1, SessionRow DEF Session
      <4>2. QED
        BY <2>1, <4>1, SessionSteps, Numbers DEF DyingInv
    <3>2. QED
      BY <3>1, ClockSteps, Numbers DEF RowKept, RowSound
  <2>2. CASE RowCreated(s)
    <3>1. PICK r \in Requests :
            /\ At(r, "login", "write") /\ req[r] \in Request
            /\ sessions'[s].password = req[r].guess /\ sessions'[s].expires = req[r].at + TTL
            /\ sessions'[s].late = req[r].late
            /\ At(r, "login", "audit")'
      BY <2>2 DEF RowCreated
    <3>2. /\ req[r].at \in Nat /\ req[r].at <= now
          /\ req[r].guess # password => req[r].at <= replaced \/ req[r].late
      BY <1>2, <3>1 DEF DyingInv, VerifiedSound
    <3>3. QED
      BY <3>1, <3>2, ClockSteps, Numbers
  <2>3. QED
    BY <1>4, <2>1, <2>2, SessionSteps
<1>5. QED
  BY <1>1, <1>3, <1>4 DEF DyingInv, VerifiedSound, RowSound

(* After the password is replaced the sessions opened with the old one     *)
(* expire TTL later at the latest, also one whose login was verified       *)
(* before the replacement and written after it.  Only a login that the     *)
(* replacement caught between the reading of the row and the verification  *)
(* may give a session that lives longer.                                   *)
THEOREM OldSessionsExpire == Spec => []OldPasswordDiesOut
<1>1. Init => DyingInv
  <2> SUFFICES ASSUME Init PROVE DyingInv
    OBVIOUS
  <2>1. Len(sessions) = 0 /\ replaced = 0 /\ now = 0 /\ \A r \in Requests : req[r] = Idle
    BY EmptySeq DEF Init
  <2>2. QED
    BY <2>1 DEF DyingInv, VerifiedSound, At
<1>2. ConsoleInv /\ DyingInv => OldPasswordDiesOut
  <2>1. ConsoleInv => DOMAIN sessions = 1 .. Len(sessions)
    BY LenProperties DEF ConsoleInv
  <2>2. QED
    BY <2>1 DEF DyingInv, RowSound, OldPasswordDiesOut
<1>3. QED
  BY <1>1, <1>2, ConsoleHolds, DyingStep, PTL DEF Spec

-----------------------------------------------------------------------------
(* A request that is let in had a live session when it was sent.  Between  *)
(* the two a session can only end, so a session found live by the server   *)
(* was live before; the time the server read is no later than the clock.   *)

CarrierSound(r) ==
  (req[r] # Idle /\ req[r].kind # "login") =>
    /\ req[r].step = "sent" /\ Live(req[r].token, now) => req[r].began
    /\ req[r].step = "timed" =>
         req[r].at <= now /\ (Live(req[r].token, req[r].at) => req[r].began)
    /\ req[r].step \in {"accepted", "write", "audit"} => req[r].began
LiveInv == \A r \in Requests : CarrierSound(r)

LEMMA OnceLive ==
  ASSUME ConsoleInv, [Next]_vars, NEW s \in 1 .. Len(sessions), NEW t \in Nat, NEW u \in Nat,
         t <= u, Live(s, u)'
  PROVE  Live(s, t)
<1>1. RowKept(s) /\ sessions[s].expires \in Nat
  <2>1. sessions[s].expires \in 0 .. MaxTime + TTL
    BY SessionRow DEF Session
  <2>2. QED
    BY <2>1, SessionSteps, Numbers
<1>2. QED
  BY <1>1 DEF RowKept, Live

LEMMA CarrierStays ==
  ASSUME ConsoleInv, [Next]_vars, NEW r \in Requests, CarrierSound(r), req'[r] = req[r]
  PROVE  CarrierSound(r)'
<1> SUFFICES ASSUME req[r] # Idle, req[r].kind # "login" PROVE CarrierSound(r)'
  BY DEF CarrierSound
<1>1. now \in Nat /\ now' \in Nat /\ now <= now'
  BY ClockSteps
<1>2. CASE req[r].step = "sent"
  <2>1. req[r].token \in 1 .. Len(sessions)
    BY <1>2 DEF ConsoleInv, ReqSound, Carrier
  <2>2. Live(req[r].token, now)' => Live(req[r].token, now)
    BY <1>1, <2>1, OnceLive DEF Live
  <2>3. QED
    BY <1>2, <2>2 DEF CarrierSound
<1>3. CASE req[r].step = "timed"
  <2>1. req[r].token \in 1 .. Len(sessions) /\ req[r].at \in Nat
    BY <1>3, OpenShape, Numbers DEF ConsoleInv, ReqSound, Carrier, Request
  <2>2. Live(req[r].token, req[r].at)' => Live(req[r].token, req[r].at)
    BY <2>1, OnceLive DEF Live
  <2>3. req[r].at <= now'
    BY <1>1, <1>3, <2>1 DEF CarrierSound
  <2>4. QED
    BY <1>3, <2>2, <2>3 DEF CarrierSound
<1>4. CASE req[r].step \notin {"sent", "timed"}
  BY <1>4 DEF CarrierSound
<1>5. QED
  BY <1>2, <1>3, <1>4

LEMMA CarrierServed ==
  ASSUME ConsoleInv, NEW r \in Requests, CarrierSound(r), Serve(r)
  PROVE  CarrierSound(r)'
<1>1. req[r] \in Request /\ req[r] # Idle /\ req[r].step # "answered"
  BY ServedShape
<1>2. now \in Nat /\ now <= now
  BY Numbers DEF ConsoleInv
<1>3. ASSUME NEW st \in {200, 401, 500}, Answer(r, st) PROVE CarrierSound(r)'
  <2>1. req'[r].step = "answered"
    BY <1>1, <1>3, AnswerShape
  <2>2. QED
    BY <2>1 DEF CarrierSound
<1>4. CASE Begin(r)
  <2> DEFINE new == [req[r] EXCEPT !.step = "timed", !.at = now]
  <2>1. req' = [req EXCEPT ![r] = new]
    BY <1>4 DEF Begin, ConsoleInv
  <2>2. req'[r] = new
    BY <2>1 DEF ConsoleInv
  <2>3. /\ req'[r].step = "timed" /\ req'[r].at = now /\ req'[r].token = req[r].token
        /\ req'[r].began = req[r].began
    BY <1>1, <2>2 DEF Request
  <2>4. /\ UNCHANGED <<now, sessions>> /\ req[r].step = "sent" /\ req[r].kind # "login"
    BY <1>4 DEF Begin, At
  <2>5. Live(req[r].token, now) => req[r].began
    BY <1>1, <2>4 DEF CarrierSound
  <2>6. Live(req[r].token, now)' <=> Live(req[r].token, now)
    BY <2>3, <2>4 DEF Live
  <2>7. QED
    BY <1>2, <2>3, <2>4, <2>5, <2>6 DEF CarrierSound, Live
<1>5. CASE Authenticate(r) \/ ReadReport(r)
  <2>1. CASE Answer(r, 401)
    BY <1>3, <2>1
  <2>2. CASE ~Answer(r, 401)
    <3> DEFINE let == [req[r] EXCEPT !.step = "accepted", !.at = 0]
               got == [req[r] EXCEPT !.step = "write", !.seen = report]
    <3>1. /\ req' = [req EXCEPT ![r] = let] \/ req' = [req EXCEPT ![r] = got]
          /\ req[r].kind # "login"
          /\ \/ req[r].step = "timed" /\ Live(req[r].token, req[r].at)
             \/ req[r].step = "accepted"
      BY <1>5, <2>2 DEF Authenticate, ReadReport, Accept, At, ConsoleInv
    <3>2. req'[r] = let \/ req'[r] = got
      BY <3>1 DEF ConsoleInv
    <3>3. req'[r].step \in {"accepted", "write"} /\ req'[r].began = req[r].began
      BY <1>1, <3>2 DEF Request
    <3>4. req[r].began
      BY <1>1, <3>1 DEF CarrierSound
    <3>5. QED
      BY <3>3, <3>4 DEF CarrierSound
  <2>3. QED
    BY <2>1, <2>2
<1>6. CASE Attempt(r) \/ ReadUser(r) \/ Verify(r) \/ CreateSession(r)
  <2>1. req[r].kind = "login"
    BY <1>6 DEF Attempt, ReadUser, Verify, CreateSession, Insert, At
  <2>2. CASE Answer(r, 401)
    BY <1>3, <2>2
  <2>3. CASE ~Answer(r, 401)
    <3> DEFINE n == Len(sessions) + 1
               timed == [req[r] EXCEPT !.step = "timed"]
               known == [req[r] EXCEPT !.step = "read"]
               ready == [req[r] EXCEPT !.step = "write", !.at = now,
                                       !.late = req[r].guess # password]
               done == [req[r] EXCEPT !.step = "audit", !.at = 0, !.token = n]
    <3>1. \/ req' = [req EXCEPT ![r] = timed] \/ req' = [req EXCEPT ![r] = known]
          \/ req' = [req EXCEPT ![r] = ready] \/ req' = [req EXCEPT ![r] = done]
      BY <1>6, <2>3 DEF Attempt, ReadUser, Verify, CreateSession, Insert, Step, ConsoleInv
    <3>2. timed.kind = "login" /\ known.kind = "login" /\ ready.kind = "login" /\ done.kind = "login"
      BY <1>1, <2>1 DEF Request
    <3> HIDE DEF timed, known, ready, done
    <3>3. req'[r] = timed \/ req'[r] = known \/ req'[r] = ready \/ req'[r] = done
      BY <3>1 DEF ConsoleInv
    <3>4. QED
      BY <3>2, <3>3 DEF CarrierSound
  <2>4. QED
    BY <2>2, <2>3
<1>7. CASE Revoke(r)
  <2>1. CASE req' = [req EXCEPT ![r] = [req[r] EXCEPT !.step = "audit"]]
    <3>1. req'[r] = [req[r] EXCEPT !.step = "audit"]
      BY <2>1 DEF ConsoleInv
    <3>2. req'[r].step = "audit" /\ req'[r].began = req[r].began /\ req[r].began
      BY <1>1, <1>7, <3>1 DEF Request, Revoke, At, CarrierSound
    <3>3. QED
      BY <3>2 DEF CarrierSound
  <2>2. QED
    BY <1>3, <1>7, <2>1, RevokeConsole
<1>8. QED
  BY <1>3, <1>4, <1>5, <1>6, <1>7 DEF Serve, AuditLogin, AuditLogout, Audit, Fail, WriteReport

(* Clock and row are read one after the other while sessions end, and      *)
(* still nothing is let in that had lost its session when it was sent.     *)
THEOREM AcceptedHadSession == Spec => []AcceptedWasLive
<1>1. Init => LiveInv
  BY DEF Init, LiveInv, CarrierSound
<1>2. ASSUME ConsoleInv, LiveInv, [Next]_vars PROVE LiveInv'
  <2>1. ASSUME NEW r \in Requests PROVE CarrierSound(r)'
    <3>1. CarrierSound(r)
      BY <1>2 DEF LiveInv
    <3>2. CASE req'[r] = Idle
      BY <3>2 DEF CarrierSound
    <3>3. CASE Sent(r)
      <4>1. /\ req'[r].step = "sent" /\ req'[r].token = stored
            /\ req'[r].kind # "login" => (Live(stored, now) => req'[r].began)
            /\ UNCHANGED <<now, sessions>>
        BY <1>2, <3>3, SentShape
      <4>2. Live(stored, now') <=> Live(req'[r].token, now')
        BY <4>1
      <4>3. QED
        BY <4>1, <4>2 DEF CarrierSound, Live
    <3>4. QED
      BY <1>2, <3>1, <3>2, <3>3, RequestSteps, CarrierStays, CarrierServed DEF Gone
  <2>2. QED
    BY <2>1 DEF LiveInv
<1>3. LiveInv => AcceptedWasLive
  BY DEF LiveInv, CarrierSound, AcceptedWasLive
<1>4. QED
  BY <1>1, <1>2, <1>3, ConsoleHolds, PTL DEF Spec

-----------------------------------------------------------------------------
(* What is acknowledged is audited.  What is needed beyond that: a session *)
(* that a logout has ended is revoked, so that no second logout of it owes *)
(* a row again.                                                            *)

HeldSound(q) ==
  /\ q # Idle /\ q.step # "answered" /\ q.kind # "login" => "login" \notin sessions[q.token].owes
  /\ q # Idle /\ q.step = "answered" /\ q.kind # "save" /\ q.status = 200 =>
       q.kind \notin sessions[q.token].owes
  /\ /\ q # Idle /\ q.kind = "logout"
     /\ q.step = "audit" \/ (q.step = "answered" /\ q.status = 200)
     => sessions[q.token].revoked
AuditInv ==
  /\ \A r \in Requests : HeldSound(req[r])
  /\ stored # 0 => "login" \notin sessions[stored].owes

(* A request that does not move keeps what it holds. *)
LEMMA HeldStays ==
  ASSUME ConsoleInv, [Next]_vars, NEW r \in Requests, HeldSound(req[r]), req'[r] = req[r]
  PROVE  HeldSound(req[r])'
<1>1. CASE Carrier(req[r]) \/ Created(req[r])
  <2>1. req[r].token \in 1 .. Len(sessions)
    BY <1>1 DEF ConsoleInv, ReqSound
  <2>2. RowKept(req[r].token)
    BY <2>1, SessionSteps
  <2>3. req[r] # Idle /\ req[r].kind \in {"login", "save", "logout"}
    BY <1>1 DEF ConsoleInv, Request, Answered, Carrier, Created
  <2>4. QED
    BY <2>2, <2>3 DEF HeldSound, RowKept
<1>2. CASE ~(Carrier(req[r]) \/ Created(req[r]))
  <2>1. req[r] # Idle => req[r].kind \in {"login", "save", "logout"}
    BY DEF ConsoleInv, Request, Answered
  <2>2. QED
    BY <1>2, <2>1 DEF HeldSound, Carrier, Created
<1>3. QED
  BY <1>1, <1>2

(* A request that moves on and stands for the same session. *)
LEMMA HeldMoves ==
  ASSUME ConsoleInv, [Next]_vars, NEW r \in Requests, HeldSound(req[r]),
         req[r] # Idle, req[r].step # "answered", req'[r] # Idle,
         req'[r].kind = req[r].kind, req'[r].kind = "login" => req'[r].step # "answered" \/ req'[r].status # 200,
         req'[r].kind # "login" => req'[r].step = "answered" \/ req'[r].token = req[r].token,
         req'[r].kind = "logout" =>
           req'[r].step # "audit" /\ (req'[r].step = "answered" => req'[r].status # 200)
  PROVE  HeldSound(req[r])'
<1>1. CASE req[r].kind = "login"
  BY <1>1 DEF HeldSound
<1>2. CASE req[r].kind # "login"
  <2>1. req[r].token \in 1 .. Len(sessions)
    BY <1>2 DEF ConsoleInv, ReqSound, Carrier
  <2>2. RowKept(req[r].token)
    BY <2>1, SessionSteps
  <2>3. req[r].kind \in {"save", "logout"}
    BY <1>2 DEF ConsoleInv, Request, Answered
  <2>4. QED
    BY <1>2, <2>2, <2>3 DEF HeldSound, RowKept
<1>3. QED
  BY <1>1, <1>2

LEMMA HeldServed ==
  ASSUME ConsoleInv, [Next]_vars, NEW r \in Requests, HeldSound(req[r]), Serve(r)
  PROVE  HeldSound(req[r])'
<1>1. req[r] \in Request /\ req[r] # Idle /\ req[r].step # "answered"
  BY ServedShape
<1>2. ASSUME NEW new \in Request, req' = [req EXCEPT ![r] = new], new.kind = req[r].kind,
             new.kind # "login" => new.token = req[r].token, new.kind = "logout" => new.step # "audit"
      PROVE  HeldSound(req[r])'
  <2>1. req'[r] = new /\ new # Idle /\ new.step # "answered"
    BY <1>2, MoveShape DEF Request
  <2>2. QED
    BY <1>1, <1>2, <2>1, HeldMoves
<1>3. ASSUME NEW st \in {401, 500}, Answer(r, st) PROVE HeldSound(req[r])'
  <2>1. /\ req'[r] # Idle /\ req'[r].kind = req[r].kind
        /\ req'[r].step = "answered" /\ req'[r].status = st
    BY <1>1, <1>3, AnswerShape
  <2>2. QED
    BY <1>1, <2>1, HeldMoves
<1>4. ASSUME NEW kind \in {"login", "logout"}, Audit(r, kind) PROVE HeldSound(req[r])'
  <2>1. /\ req'[r].kind = kind /\ req'[r].step = "answered" /\ req'[r].token = req[r].token
        /\ req[r].kind = kind /\ req[r].step = "audit"
    BY <1>1, <1>4, AnswerShape DEF Audit, At
  <2> DEFINE s == req[r].token
  <2>2. /\ s \in 1 .. Len(sessions) /\ sessions[s] \in Session
        /\ sessions'[s] = [sessions[s] EXCEPT !.owes = @ \ {kind}]
    BY <1>4, AuditConsole, SessionRow
  <2>3. kind \notin sessions'[s].owes /\ sessions'[s].revoked = sessions[s].revoked
    BY <2>2 DEF Session
  <2>4. kind = "logout" => sessions[s].revoked
    BY <1>1, <2>1 DEF HeldSound
  <2>5. QED
    BY <2>1, <2>3, <2>4 DEF HeldSound
<1>5. CASE Revoke(r)
  <2> DEFINE s == req[r].token
             new == [req[r] EXCEPT !.step = "audit"]
  <2>1. CASE Answer(r, 500)
    BY <1>3, <2>1
  <2>2. CASE /\ req' = [req EXCEPT ![r] = new]
             /\ sessions'[s] = [sessions[s] EXCEPT !.revoked = TRUE, !.owes = @ \cup {"logout"}]
    <3>1. req'[r] = new
      BY <2>2 DEF ConsoleInv
    <3>2. /\ req'[r].kind = "logout" /\ req'[r].step = "audit" /\ req'[r].token = s
          /\ req[r].kind = "logout"
      BY <1>1, <1>5, <3>1 DEF Request, Revoke, At
    <3>3. sessions[s] \in Session
      BY <1>5, RevokeConsole, SessionRow
    <3>4. sessions'[s].revoked /\ sessions'[s].owes = sessions[s].owes \cup {"logout"}
      BY <2>2, <3>3 DEF Session
    <3>5. "login" \notin sessions[s].owes
      BY <1>1, <3>2 DEF HeldSound
    <3>6. QED
      BY <3>2, <3>4, <3>5 DEF HeldSound
  <2>3. QED
    BY <1>5, <2>1, <2>2, RevokeConsole
<1>6. CASE Attempt(r) \/ ReadUser(r) \/ Verify(r) \/ CreateSession(r)
  <2>1. req[r].kind = "login"
    BY <1>6 DEF Attempt, ReadUser, Verify, CreateSession, Insert, At
  <2>2. CASE Answer(r, 401)
    BY <1>3, <2>2
  <2>3. CASE ~Answer(r, 401)
    <3> DEFINE n == Len(sessions) + 1
               timed == [req[r] EXCEPT !.step = "timed"]
               known == [req[r] EXCEPT !.step = "read"]
               ready == [req[r] EXCEPT !.step = "write", !.at = now,
                                       !.late = req[r].guess # password]
               done == [req[r] EXCEPT !.step = "audit", !.at = 0, !.token = n]
    <3>1. \/ req' = [req EXCEPT ![r] = timed] \/ req' = [req EXCEPT ![r] = known]
          \/ req' = [req EXCEPT ![r] = ready] \/ req' = [req EXCEPT ![r] = done]
      BY <1>6, <2>3 DEF Attempt, ReadUser, Verify, CreateSession, Insert, Step, ConsoleInv
    <3>2. /\ timed.kind = "login" /\ known.kind = "login" /\ ready.kind = "login"
          /\ done.kind = "login"
          /\ timed.step = "timed" /\ known.step = "read" /\ ready.step = "write"
          /\ done.step = "audit"
      BY <1>1, <2>1 DEF Request
    <3> HIDE DEF timed, known, ready, done
    <3>3. req'[r] = timed \/ req'[r] = known \/ req'[r] = ready \/ req'[r] = done
      BY <3>1 DEF ConsoleInv
    <3>4. QED
      BY <3>2, <3>3 DEF HeldSound
  <2>4. QED
    BY <2>2, <2>3
<1>7. CASE Begin(r) \/ Authenticate(r) \/ ReadReport(r)
  <2>1. CASE Answer(r, 401)
    BY <1>3, <2>1
  <2>2. CASE ~Answer(r, 401)
    <3> DEFINE timed == [req[r] EXCEPT !.step = "timed", !.at = now]
               let == [req[r] EXCEPT !.step = "accepted", !.at = 0]
               got == [req[r] EXCEPT !.step = "write", !.seen = report]
    <3>1. /\ now \in Time /\ 0 \in Time /\ report \in Row
      BY Numbers DEF ConsoleInv
    <3>2. /\ timed \in Request /\ timed.kind = req[r].kind /\ timed.token = req[r].token
          /\ timed.step = "timed"
          /\ let \in Request /\ let.kind = req[r].kind /\ let.token = req[r].token
          /\ let.step = "accepted"
          /\ got \in Request /\ got.kind = req[r].kind /\ got.token = req[r].token
          /\ got.step = "write"
      BY <1>1, <3>1 DEF Request
    <3>3. \/ req' = [req EXCEPT ![r] = timed] \/ req' = [req EXCEPT ![r] = let]
          \/ req' = [req EXCEPT ![r] = got]
      BY <1>7, <2>2 DEF Begin, Authenticate, Accept, ReadReport, ConsoleInv
    <3> HIDE DEF timed, let, got
    <3>4. QED
      BY <1>2, <3>2, <3>3
  <2>3. QED
    BY <2>1, <2>2
<1>8. CASE WriteReport(r)
  <2>1. /\ req'[r] # Idle /\ req'[r].kind = "save" /\ req'[r].step = "answered"
    BY <1>1, <1>8, AnswerShape DEF WriteReport, At
  <2>2. QED
    BY <2>1 DEF HeldSound
<1>9. CASE Fail(r)
  BY <1>3, <1>9 DEF Fail
<1>10. QED
  BY <1>4, <1>5, <1>6, <1>7, <1>8, <1>9 DEF Serve, AuditLogin, AuditLogout

(* The tab's token comes from an acknowledged login. *)
LEMMA StoredStays ==
  ASSUME ConsoleInv, AuditInv, [Next]_vars, stored' # 0
  PROVE  "login" \notin sessions'[stored'].owes
<1>1. CASE stored' = stored
  <2>1. stored \in 1 .. Len(sessions)
    BY <1>1, SessionsStay
  <2>2. RowKept(stored)
    BY <2>1, SessionSteps
  <2>3. QED
    BY <1>1, <2>2 DEF AuditInv, RowKept
<1>2. CASE \E r \in Requests : Receive(r) /\ stored' # stored
  <2>1. PICK r \in Requests : Receive(r) /\ stored' # stored
    BY <1>2
  <2>2. /\ req[r] # Idle /\ req[r].step = "answered" /\ req[r].kind = "login"
        /\ req[r].status = 200 /\ stored' = req[r].token /\ UNCHANGED sessions
    BY <2>1 DEF Receive
  <2>3. QED
    BY <2>2 DEF AuditInv, HeldSound
<1>3. QED
  <2>1. CASE \E r \in Requests : Serve(r)
    BY <1>1, <2>1 DEF Serve, Attempt, ReadUser, Verify, CreateSession, Insert, AuditLogin,
       AuditLogout, Audit, Fail, Begin, Authenticate, Revoke, ReadReport, WriteReport
  <2>2. CASE ~ \E r \in Requests : Serve(r)
    BY <1>1, <1>2, <2>2 DEF Next, vars, Login, Save, Logout, Send, Receive, NetworkError,
       ReplacePassword, Sweep, Restart, Tick
  <2>3. QED
    BY <2>1, <2>2

(* An acknowledged login or logout has its row, and the token of a session *)
(* whose login has none is nowhere, whichever transaction fails and        *)
(* whenever the process dies.                                              *)
LEMMA EveryLoginAudited == Spec => []SessionsAudited
<1>1. Init => AuditInv
  BY DEF Init, AuditInv, HeldSound
<1>2. ASSUME ConsoleInv, AuditInv, [Next]_vars PROVE AuditInv'
  <2>1. ASSUME NEW r \in Requests PROVE HeldSound(req[r])'
    <3>1. HeldSound(req[r])
      BY <1>2 DEF AuditInv
    <3>2. CASE Gone(r)
      BY <3>2 DEF Gone, HeldSound
    <3>3. CASE Sent(r)
      <4>1. /\ req'[r].step = "sent" /\ req'[r].token = stored /\ UNCHANGED sessions
            /\ req'[r].kind = "login" \/ stored # 0
        BY <1>2, <3>3, SentShape
      <4>2. QED
        BY <1>2, <4>1 DEF AuditInv, HeldSound
    <3>4. QED
      BY <1>2, <3>1, <3>2, <3>3, RequestSteps, HeldStays, HeldServed
  <2>2. QED
    BY <1>2, <2>1, StoredStays DEF AuditInv
<1>3. AuditInv => SessionsAudited
  BY DEF AuditInv, HeldSound, SessionsAudited
<1>4. QED
  BY <1>1, <1>2, <1>3, ConsoleHolds, PTL DEF Spec

(* The audit log has every change of a report, every login that gave a     *)
(* token away and every logout that was acknowledged.                      *)
THEOREM NothingUnaudited == Spec => []AuditComplete
BY NoSilentChange, EveryLoginAudited, PTL DEF AuditComplete
-----------------------------------------------------------------------------
(* The login limiter.                                                      *)

LEMMA LeastNatural ==
  ASSUME NEW T \in SUBSET Nat, T # {}
  PROVE  \E n \in T : \A m \in T : n <= m
<1> DEFINE R == OpToRel(<, Nat)
<1>1. IsWellFoundedOn(R, Nat)
  BY NatLessThanWellFounded
<1>2. \A m, n \in Nat : <<m, n>> \in R <=> m < n
  BY DEF OpToRel
<1> HIDE DEF R
<1>3. PICK n \in T : \A m \in T : ~(<<m, n>> \in R)
  BY <1>1, WFMin
<1>4. ASSUME NEW m \in T PROVE n <= m
  <2>1. m \in Nat /\ n \in Nat /\ ~(m < n)
    BY <1>2, <1>3, <1>4
  <2>2. QED
    BY <2>1
<1>5. QED
  BY <1>4

LEMMA MinIs ==
  ASSUME NEW T \in SUBSET Nat, T # {}
  PROVE  Min(T) \in T /\ \A m \in T : Min(T) <= m
<1>1. PICK n \in T : \A m \in T : n <= m
  BY LeastNatural
<1>2. \A x \in T : (\A y \in T : x <= y) <=> x = n
  BY <1>1
<1>3. Min(T) = n
  BY <1>2 DEF Min
<1>4. QED
  BY <1>1, <1>3

(* Days follow each other, and a window is not longer than one.            *)
LEMMA Days ==
  ASSUME NEW s \in Nat, NEW t \in Nat
  PROVE  /\ Day(t) \in Nat
         /\ s <= t => Day(s) <= Day(t)
         /\ t < s + Window => Day(t) <= Day(s) + 1
<1> DEFINE d == DayLength
<1>1. d \in Nat \ {0} /\ Window \in Nat /\ Window <= d
  BY DayAssumption, WindowAssumption
<1> DEFINE p == Day(s)
           q == Day(t)
<1>2. /\ p \in Nat /\ d * p <= s /\ s < d * (p + 1)
      /\ q \in Nat /\ d * q <= t /\ t < d * (q + 1)
  BY <1>1 DEF Day
<1> HIDE DEF p, q, d
<1>3. ASSUME s <= t PROVE p <= q
  <2>1. SUFFICES ASSUME q + 1 <= p PROVE FALSE
    BY <1>2
  <2>2. d * (q + 1) <= d * p
    BY <1>1, <1>2, <2>1
  <2>3. d * (q + 1) \in Nat /\ d * p \in Nat
    BY <1>1, <1>2
  <2>4. QED
    BY <1>2, <1>3, <2>2, <2>3
<1>4. ASSUME t < s + Window PROVE q <= p + 1
  <2>1. SUFFICES ASSUME (p + 1) + 1 <= q PROVE FALSE
    BY <1>2
  <2>2. d * ((p + 1) + 1) <= d * q
    BY <1>1, <1>2, <2>1
  <2>3. d * ((p + 1) + 1) = d * (p + 1) + d
    BY <1>1, <1>2
  <2>4. d * (p + 1) \in Nat /\ d * q \in Nat
    BY <1>1, <1>2
  <2>5. QED
    BY <1>1, <1>2, <1>4, <2>2, <2>3, <2>4
<1>5. QED
  BY <1>2, <1>3, <1>4 DEF p, q

Bucket == [day : Nat, calls : Seq(Nat)]

(* What counts is what is left when calls as old as the window are dropped *)
(* from the front.                                                         *)
LEMMA RecentIs ==
  ASSUME NEW b \in Bucket, NEW t \in Nat
  PROVE  /\ Recent(b, t) \in Seq(Nat) /\ Len(Recent(b, t)) \in Nat
         /\ b.day = Day(t) => \E c \in 0 .. Len(b.calls) :
              /\ Len(Recent(b, t)) = Len(b.calls) - c
              /\ \A i \in 1 .. (Len(b.calls) - c) : Recent(b, t)[i] = b.calls[c + i]
              /\ \A i \in 1 .. c : b.calls[i] + Window <= t
<1> DEFINE s == b.calls
           n == Len(s)
           young == {i \in 1 .. n : s[i] > t - Window} \cup {n + 1}
           R == Recent(b, t)
           c == Min(young) - 1
<1>1. s \in Seq(Nat) /\ n \in Nat /\ Window \in Nat
  BY LenProperties, WindowAssumption DEF Bucket
<1>2. \A i \in 1 .. n : s[i] \in Nat
  BY <1>1, ElementOfSeq
<1>3. R = IF b.day = Day(t) THEN SubSeq(s, Min(young), n) ELSE <<>>
  BY DEF Recent
<1> HIDE DEF R, s, n
<1>4. young \in SUBSET Nat /\ young # {}
  BY <1>1
<1>5. Min(young) \in young /\ \A i \in young : Min(young) <= i
  BY <1>4, MinIs
<1>6. Min(young) \in 1 .. (n + 1) /\ \A i \in 1 .. n : i < Min(young) => s[i] + Window <= t
  <2>1. Min(young) \in 1 .. (n + 1)
    BY <1>1, <1>5
  <2>2. ASSUME NEW i \in 1 .. n, i < Min(young) PROVE s[i] + Window <= t
    <3>1. i \notin young
      BY <1>4, <1>5, <2>1, <2>2
    <3>2. ~(s[i] > t - Window)
      BY <3>1
    <3>3. QED
      BY <1>1, <1>2, <3>2
  <2>3. QED
    BY <2>1, <2>2
<1> HIDE DEF young
<1>7. Min(young) = c + 1 /\ c \in 0 .. n
  BY <1>1, <1>6
<1> HIDE DEF c
<1>8. /\ SubSeq(s, c + 1, n) \in Seq(Nat) /\ Len(SubSeq(s, c + 1, n)) = n - c
      /\ \A i \in 1 .. (n - c) : SubSeq(s, c + 1, n)[i] = s[c + i]
  <2>1. c + 1 \in Int /\ n \in Int /\ \A i \in (c + 1) .. n : s[i] \in Nat
    BY <1>1, <1>2, <1>7
  <2>2. /\ SubSeq(s, c + 1, n) \in Seq(Nat)
        /\ Len(SubSeq(s, c + 1, n)) = IF c + 1 <= n THEN n - (c + 1) + 1 ELSE 0
        /\ \A i \in 1 .. (n - (c + 1) + 1) : SubSeq(s, c + 1, n)[i] = s[c + 1 + i - 1]
    BY <2>1, SubSeqProperties
  <2>3. n - (c + 1) + 1 = n - c /\ \A i \in 1 .. (n - c) : c + 1 + i - 1 = c + i
    BY <1>1, <1>7
  <2>4. Len(SubSeq(s, c + 1, n)) = n - c
    BY <1>1, <1>7, <2>2
  <2>5. QED
    BY <2>2, <2>3, <2>4
<1>9. CASE b.day = Day(t)
  <2>1. R \in Seq(Nat) /\ Len(R) = n - c /\ \A i \in 1 .. (n - c) : R[i] = s[c + i]
    BY <1>3, <1>7, <1>8, <1>9
  <2>2. \A i \in 1 .. c : s[i] + Window <= t
    BY <1>1, <1>6, <1>7
  <2>3. n - c \in Nat
    BY <1>1, <1>7
  <2>4. QED
    BY <1>7, <1>9, <2>1, <2>2, <2>3 DEF R, s, n
<1>10. CASE b.day # Day(t)
  BY <1>3, <1>10, EmptySeq DEF R
<1>11. QED
  BY <1>9, <1>10

(* The attempts let through, in the order they came, none later than now.  *)
Times(h, t) ==
  /\ h \in Seq(Nat)
  /\ \A i \in 1 .. Len(h) : h[i] <= t
  /\ \A i, j \in 1 .. Len(h) : i <= j => h[i] <= h[j]

(* The last calls of the bucket are those of this day that are younger     *)
(* than the window.                                                        *)
Remembers(b, h, t) ==
  \A i \in 1 .. Len(h) :
    Day(h[i]) = Day(t) /\ t < h[i] + Window =>
      /\ b.day = Day(t) /\ Len(h) - i < Len(b.calls)
      /\ b.calls[Len(b.calls) - (Len(h) - i)] = h[i]

(* Attempts of one day. *)
Spaced(h) ==
  \A i, j \in 1 .. Len(h) :
    h[j] < h[i] + Window /\ Day(h[i]) = Day(h[j]) => j - i < Limit

LimiterInv ==
  /\ bucket \in Bucket
  /\ Times(admitted, now) /\ Remembers(bucket, admitted, now) /\ Spaced(admitted)

(* What is let through is the last call of the bucket; what the bucket     *)
(* remembers and still counts is kept.                                     *)
LEMMA AttemptRemembered ==
  ASSUME NEW b \in Bucket, NEW t \in Nat, NEW h, Times(h, t), Remembers(b, h, t), Spaced(h),
         Allows(b, Limit, t)
  PROVE  /\ AfterCall(b, Limit, t) \in Bucket
         /\ Times(Append(h, t), t) /\ Spaced(Append(h, t))
         /\ Remembers(AfterCall(b, Limit, t), Append(h, t), t)
<1> DEFINE R == Recent(b, t)
           s == Append(R, t)
           n == Len(h)
           k == Append(h, t)
           a == AfterCall(b, Limit, t)
<1>1. Limit \in Nat \ {0} /\ Window \in Nat \ {0} /\ Len(R) < Limit /\ a = [day |-> Day(t), calls |-> s]
  BY ConsoleAssumption, WindowAssumption DEF Allows, AfterCall
<1>2. /\ R \in Seq(Nat) /\ Len(R) \in Nat
      /\ b.day = Day(t) => \E c \in 0 .. Len(b.calls) :
              /\ Len(R) = Len(b.calls) - c
              /\ \A i \in 1 .. (Len(b.calls) - c) : R[i] = b.calls[c + i]
              /\ \A i \in 1 .. c : b.calls[i] + Window <= t
  BY RecentIs
<1>3. n \in Nat /\ h \in Seq(Nat) /\ \A i \in 1 .. n : h[i] \in Nat
  BY LenProperties, ElementOfSeq DEF Times
<1> HIDE DEF R, a
<1>4. /\ s \in Seq(Nat) /\ Len(s) = Len(R) + 1 /\ s[Len(R) + 1] = t
      /\ \A i \in 1 .. Len(R) : s[i] = R[i]
  BY <1>2, AppendProperties
<1>5. /\ k \in Seq(Nat) /\ Len(k) = n + 1 /\ k[n + 1] = t
      /\ \A i \in 1 .. n : k[i] = h[i]
  BY <1>3, AppendProperties
<1> HIDE DEF s, k
<1>6. a \in Bucket
  BY <1>1, <1>4, Days DEF Bucket
<1>7. Times(k, t)
  <2>1. /\ \A i \in 1 .. n : h[i] <= t
        /\ \A i, j \in 1 .. n : i <= j => h[i] <= h[j]
    BY DEF Times
  <2>2. \A i \in 1 .. (n + 1) : i \in 1 .. n \/ i = n + 1
    BY <1>3
  <2>3. \A i \in 1 .. (n + 1) : k[i] <= t
    BY <1>5, <2>1, <2>2
  <2>4. ASSUME NEW i \in 1 .. (n + 1), NEW j \in 1 .. (n + 1), i <= j PROVE k[i] <= k[j]
    <3>1. CASE j = n + 1
      BY <1>5, <2>3, <3>1
    <3>2. CASE j # n + 1
      <4>1. i \in 1 .. n /\ j \in 1 .. n
        BY <1>3, <2>4, <3>2
      <4>2. QED
        BY <1>5, <2>1, <2>4, <4>1
    <3>3. QED
      BY <3>1, <3>2
  <2>5. QED
    BY <1>5, <2>3, <2>4 DEF Times
(* An attempt of the last window is still there. *)
<1>8. ASSUME NEW i \in 1 .. n, Day(h[i]) = Day(t), t < h[i] + Window
      PROVE  n - i < Len(R) /\ R[Len(R) - (n - i)] = h[i]
  <2> DEFINE m == Len(b.calls)
             p == m - (n - i)
  <2>1. b.day = Day(t) /\ n - i < m /\ b.calls[p] = h[i]
    BY <1>8 DEF Remembers
  <2>2. m \in Nat
    BY LenProperties DEF Bucket
  <2>3. PICK c \in 0 .. m : /\ Len(R) = m - c
                            /\ \A l \in 1 .. (m - c) : R[l] = b.calls[c + l]
                            /\ \A l \in 1 .. c : b.calls[l] + Window <= t
    BY <1>2, <2>1
  <2> HIDE DEF m
  <2>4. p \in 1 .. m
    BY <1>3, <2>1, <2>2
  <2>5. ~(b.calls[p] + Window <= t)
    BY <1>1, <1>3, <1>8, <2>1
  <2>6. p > c
    BY <2>2, <2>3, <2>4, <2>5
  <2>7. p - c \in 1 .. (m - c) /\ c + (p - c) = p /\ p - c = Len(R) - (n - i) /\ n - i < Len(R)
    BY <1>3, <2>2, <2>3, <2>4, <2>6
  <2>8. R[p - c] = b.calls[p]
    BY <2>3, <2>7
  <2>9. QED
    BY <2>1, <2>7, <2>8
<1>9. Remembers(a, k, t)
  <2>1. a.day = Day(t) /\ a.calls = s
    BY <1>1
  <2>2. ASSUME NEW i \in 1 .. (n + 1), Day(k[i]) = Day(t), t < k[i] + Window
        PROVE  (n + 1) - i < Len(s) /\ s[Len(s) - ((n + 1) - i)] = k[i]
    <3>1. CASE i = n + 1
      <4>1. (n + 1) - i = 0 /\ Len(s) - ((n + 1) - i) = Len(R) + 1
        BY <1>2, <1>3, <1>4, <3>1
      <4>2. QED
        BY <1>2, <1>4, <1>5, <3>1, <4>1
    <3>2. CASE i # n + 1
      <4>1. i \in 1 .. n /\ k[i] = h[i]
        BY <1>3, <1>5, <3>2
      <4>2. n - i < Len(R) /\ R[Len(R) - (n - i)] = h[i]
        BY <1>8, <2>2, <4>1
      <4>3. /\ (n + 1) - i < Len(s) /\ Len(s) - ((n + 1) - i) = Len(R) - (n - i)
            /\ Len(R) - (n - i) \in 1 .. Len(R)
        <5> DEFINE l == Len(R)
        <5>1. Len(s) = l + 1 /\ l \in Nat /\ n - i < l
          BY <1>2, <1>4, <4>2
        <5> HIDE DEF l, n
        <5>2. l - (n - i) \in 1 .. l
          BY <1>3, <4>1, <5>1
        <5>3. (n + 1) - i < l + 1 /\ (l + 1) - ((n + 1) - i) = l - (n - i)
          BY <1>3, <4>1, <5>1
        <5>4. QED
          BY <5>1, <5>2, <5>3 DEF l
      <4>4. QED
        BY <1>4, <4>1, <4>2, <4>3
    <3>3. QED
      BY <3>1, <3>2
  <2>3. QED
    BY <1>5, <2>1, <2>2 DEF Remembers
<1>10. Spaced(k)
  <2>1. ASSUME NEW i \in 1 .. (n + 1), NEW j \in 1 .. (n + 1),
               k[j] < k[i] + Window, Day(k[i]) = Day(k[j])
        PROVE  j - i < Limit
    <3>1. CASE j = n + 1 /\ i \in 1 .. n
      <4>1. k[j] = t /\ k[i] = h[i]
        BY <1>5, <3>1
      <4>2. n - i < Len(R)
        BY <1>8, <2>1, <3>1, <4>1
      <4>3. QED
        BY <1>1, <1>2, <1>3, <3>1, <4>2
    <3>2. CASE j \in 1 .. n /\ i \in 1 .. n
      BY <1>5, <2>1, <3>2 DEF Spaced
    <3>3. CASE i = n + 1
      BY <1>1, <1>3, <2>1, <3>3
    <3>4. QED
      BY <1>3, <3>1, <3>2, <3>3
  <2>2. QED
    BY <1>5, <2>1 DEF Spaced
<1>11. QED
  BY <1>6, <1>7, <1>9, <1>10 DEF a, k

(* An attempt over the limit drops old calls only. *)
LEMMA RefusalRemembered ==
  ASSUME NEW b \in Bucket, NEW t \in Nat, NEW h, Times(h, t), Remembers(b, h, t),
         ~Allows(b, Limit, t)
  PROVE  AfterCall(b, Limit, t) \in Bucket /\ Remembers(AfterCall(b, Limit, t), h, t)
<1> DEFINE R == Recent(b, t)
           n == Len(h)
           a == AfterCall(b, Limit, t)
<1>1. a = b \/ a = [day |-> Day(t), calls |-> R]
  BY DEF AfterCall
<1>2. /\ R \in Seq(Nat) /\ Len(R) \in Nat
      /\ b.day = Day(t) => \E c \in 0 .. Len(b.calls) :
              /\ Len(R) = Len(b.calls) - c
              /\ \A i \in 1 .. (Len(b.calls) - c) : R[i] = b.calls[c + i]
              /\ \A i \in 1 .. c : b.calls[i] + Window <= t
  BY RecentIs
<1>3. n \in Nat /\ Window \in Nat /\ \A i \in 1 .. n : h[i] \in Nat
  BY LenProperties, ElementOfSeq, WindowAssumption DEF Times
<1> HIDE DEF R, a
<1>4. a \in Bucket
  <2>1. [day |-> Day(t), calls |-> R] \in Bucket
    BY <1>2, Days DEF Bucket
  <2>2. QED
    BY <1>1, <2>1
<1>5. ASSUME NEW i \in 1 .. n, Day(h[i]) = Day(t), t < h[i] + Window
      PROVE  n - i < Len(R) /\ R[Len(R) - (n - i)] = h[i]
  <2> DEFINE m == Len(b.calls)
             p == m - (n - i)
  <2>1. b.day = Day(t) /\ n - i < m /\ b.calls[p] = h[i]
    BY <1>5 DEF Remembers
  <2>2. m \in Nat
    BY LenProperties DEF Bucket
  <2>3. PICK c \in 0 .. m : /\ Len(R) = m - c
                            /\ \A l \in 1 .. (m - c) : R[l] = b.calls[c + l]
                            /\ \A l \in 1 .. c : b.calls[l] + Window <= t
    BY <1>2, <2>1
  <2> HIDE DEF m
  <2>4. p \in 1 .. m
    BY <1>3, <2>1, <2>2
  <2>5. ~(b.calls[p] + Window <= t)
    BY <1>3, <1>5, <2>1
  <2>6. p > c
    BY <2>2, <2>3, <2>4, <2>5
  <2>7. p - c \in 1 .. (m - c) /\ c + (p - c) = p /\ p - c = Len(R) - (n - i) /\ n - i < Len(R)
    BY <1>3, <2>2, <2>3, <2>4, <2>6
  <2>8. R[p - c] = b.calls[p]
    BY <2>3, <2>7
  <2>9. QED
    BY <2>1, <2>7, <2>8
<1>6. Remembers(a, h, t)
  BY <1>1, <1>5 DEF Remembers
<1>7. QED
  BY <1>4, <1>6 DEF a

(* The clock goes on: what was of an earlier day or older than the window  *)
(* stays so.                                                               *)
LEMMA TickRemembered ==
  ASSUME NEW b \in Bucket, NEW t \in Nat, NEW h, Times(h, t), Remembers(b, h, t)
  PROVE  Times(h, t + 1) /\ Remembers(b, h, t + 1)
<1>1. Len(h) \in Nat /\ Window \in Nat /\ \A i \in 1 .. Len(h) : h[i] \in Nat /\ h[i] <= t
  BY LenProperties, ElementOfSeq, WindowAssumption DEF Times
<1>2. Times(h, t + 1)
  BY <1>1 DEF Times
<1>3. ASSUME NEW i \in 1 .. Len(h), Day(h[i]) = Day(t + 1), t + 1 < h[i] + Window
      PROVE  Day(t + 1) = Day(t) /\ t < h[i] + Window
  <2>1. t < h[i] + Window
    BY <1>1, <1>3
  <2>2. h[i] \in Nat /\ t + 1 \in Nat /\ h[i] <= t /\ t <= t + 1
    BY <1>1
  <2>3. Day(h[i]) <= Day(t) /\ Day(t) <= Day(t + 1) /\ Day(t) \in Nat /\ Day(t + 1) \in Nat
    BY <2>2, Days
  <2>4. QED
    BY <1>3, <2>1, <2>3
<1>4. Remembers(b, h, t + 1)
  BY <1>3 DEF Remembers
<1>5. QED
  BY <1>2, <1>4

LEMMA LimiterSteps ==
  ASSUME ConsoleInv, [Next]_vars
  PROVE  \/ UNCHANGED <<now, bucket, admitted>>
         \/ now' = now + 1 /\ UNCHANGED <<bucket, admitted>>
         \/ now' = now /\ bucket' = EmptyBucket /\ admitted' = <<>>
         \/ /\ now' = now /\ bucket' = AfterCall(bucket, Limit, now)
            /\ admitted' = IF Allows(bucket, Limit, now) THEN Append(admitted, now) ELSE admitted
<1>1. ASSUME NEW r \in Requests, Attempt(r)
      PROVE  /\ now' = now /\ bucket' = AfterCall(bucket, Limit, now)
             /\ admitted' = IF Allows(bucket, Limit, now) THEN Append(admitted, now) ELSE admitted
  BY <1>1 DEF Attempt
<1>2. ASSUME NEW r \in Requests, Serve(r), ~Attempt(r) PROVE UNCHANGED <<now, bucket, admitted>>
  BY <1>2 DEF Serve, ReadUser, Verify, CreateSession, Insert, AuditLogin,
       AuditLogout, Audit, Fail, Begin, Authenticate, Revoke,
       ReadReport, WriteReport
<1>3. ASSUME NEW r \in Requests, NEW guess, NEW form,
             Login(r, guess) \/ Save(r, form) \/ Logout(r) \/ Receive(r) \/ NetworkError(r)
      PROVE  UNCHANGED <<now, bucket, admitted>>
  BY <1>3 DEF Login, Save, Logout, Send, Receive, NetworkError
<1>4. CASE ReplacePassword \/ Sweep \/ UNCHANGED vars
  BY <1>4 DEF ReplacePassword, Sweep, vars
<1>5. CASE Restart
  BY <1>5 DEF Restart
<1>6. CASE Tick
  BY <1>6 DEF Tick
<1>7. QED
  BY <1>1, <1>2, <1>3, <1>4, <1>5, <1>6 DEF Next

LEMMA LimiterStep == ConsoleInv /\ LimiterInv /\ [Next]_vars => LimiterInv'
<1> SUFFICES ASSUME ConsoleInv, LimiterInv, [Next]_vars PROVE LimiterInv'
  OBVIOUS
<1>1. now \in Nat
  BY Numbers DEF ConsoleInv
<1>2. CASE UNCHANGED <<now, bucket, admitted>>
  BY <1>2 DEF LimiterInv
<1>3. CASE now' = now + 1 /\ UNCHANGED <<bucket, admitted>>
  BY <1>1, <1>3, TickRemembered DEF LimiterInv
<1>4. CASE bucket' = EmptyBucket /\ admitted' = <<>>
  <2>1. EmptyBucket \in Bucket /\ <<>> \in Seq(Nat) /\ Len(<<>>) = 0
    BY EmptySeq DEF EmptyBucket, Bucket
  <2>2. QED
    BY <1>4, <2>1 DEF LimiterInv, Times, Remembers, Spaced
<1>5. CASE /\ now' = now /\ bucket' = AfterCall(bucket, Limit, now)
           /\ admitted' = IF Allows(bucket, Limit, now) THEN Append(admitted, now) ELSE admitted
  <2>1. CASE Allows(bucket, Limit, now)
    BY <1>1, <1>5, <2>1, AttemptRemembered DEF LimiterInv
  <2>2. CASE ~Allows(bucket, Limit, now)
    BY <1>1, <1>5, <2>2, RefusalRemembered DEF LimiterInv
  <2>3. QED
    BY <2>1, <2>2
<1>6. QED
  BY <1>2, <1>3, <1>4, <1>5, LimiterSteps

(* Attempts of two days within a window: those of the first day and those  *)
(* of the second are spaced.                                               *)
LEMMA OverMidnight ==
  ASSUME LimiterInv, NEW i \in 1 .. Len(admitted), NEW j \in 1 .. Len(admitted),
         admitted[j] < admitted[i] + Window, Day(admitted[i]) # Day(admitted[j])
  PROVE  j - i < 2 * Limit
<1> DEFINE n == Len(admitted)
           late == {k \in 1 .. n : Day(admitted[k]) = Day(admitted[j])}
<1>1. /\ n \in Nat /\ Window \in Nat /\ Limit \in Nat /\ \A k \in 1 .. n : admitted[k] \in Nat
      /\ \A k, l \in 1 .. n : k <= l => admitted[k] <= admitted[l]
  BY LenProperties, ElementOfSeq, WindowAssumption, ConsoleAssumption DEF LimiterInv, Times
<1>2. \A k \in 1 .. n : Day(admitted[k]) \in Nat
  BY <1>1, Days
<1>3. PICK m \in late : \A k \in late : m <= k
  <2>1. late \in SUBSET Nat /\ j \in late
    BY <1>1
  <2>2. QED
    BY <2>1, LeastNatural
<1>4. CASE i < j
  <2>1. m \in 1 .. n /\ m <= j /\ Day(admitted[m]) = Day(admitted[j])
    BY <1>3
  <2>2. \A k, l \in 1 .. n : k <= l => Day(admitted[k]) <= Day(admitted[l])
    BY <1>1, Days
  <2>3. i < m
    <3>1. Day(admitted[i]) <= Day(admitted[j])
      BY <1>1, <1>4, <2>2
    <3>2. m <= i => Day(admitted[j]) <= Day(admitted[i])
      BY <2>1, <2>2
    <3>3. ~(m <= i)
      BY <1>2, <3>1, <3>2
    <3>4. QED
      BY <1>1, <2>1, <3>3
  <2>4. m - 1 \in 1 .. n /\ i <= m - 1 /\ m - 1 <= j /\ i <= m /\ ~(m <= m - 1)
    BY <1>1, <2>1, <2>3
  <2>5. Day(admitted[m - 1]) # Day(admitted[j])
    BY <1>3, <2>4
  <2>6. Day(admitted[m - 1]) = Day(admitted[i])
    <3>1. Day(admitted[j]) <= Day(admitted[i]) + 1
      BY <1>1, Days
    <3>2. Day(admitted[i]) <= Day(admitted[m - 1]) /\ Day(admitted[m - 1]) <= Day(admitted[j])
      BY <2>2, <2>4
    <3>3. QED
      BY <1>2, <2>4, <2>5, <3>1, <3>2
  <2>7. admitted[m - 1] < admitted[i] + Window
    <3>1. admitted[m - 1] <= admitted[j]
      BY <1>1, <2>4
    <3>2. QED
      BY <1>1, <2>4, <3>1
  <2>8. admitted[j] < admitted[m] + Window
    <3>1. admitted[i] <= admitted[m]
      BY <1>1, <2>1, <2>4
    <3>2. QED
      BY <1>1, <2>1, <3>1
  <2>9. (m - 1) - i < Limit /\ j - m < Limit
    BY <2>1, <2>4, <2>6, <2>7, <2>8 DEF LimiterInv, Spaced
  <2>10. QED
    BY <1>1, <2>1, <2>9
<1>5. CASE ~(i < j)
  <2>1. i # j
    OBVIOUS
  <2>2. QED
    BY <1>1, <1>5, <2>1
<1>6. QED
  BY <1>4, <1>5

(* In any window at most Limit attempts of one day are let through, and at *)
(* most twice as many when midnight is in it, however long the source goes *)
(* on and whenever the process restarts (rate_limiting.py:28-44).          *)
THEOREM LimiterIsKept == Spec => []LimiterHolds
<1>1. Init => LimiterInv
  <2>1. EmptyBucket \in Bucket /\ <<>> \in Seq(Nat) /\ Len(<<>>) = 0
    BY EmptySeq DEF EmptyBucket, Bucket
  <2>2. QED
    BY <2>1 DEF Init, LimiterInv, Times, Remembers, Spaced
<1>2. LimiterInv => LimiterHolds
  <2>1. LimiterInv => DOMAIN admitted = 1 .. Len(admitted)
    BY LenProperties DEF LimiterInv, Times
  <2>2. QED
    BY <2>1, OverMidnight DEF LimiterInv, Spaced, LimiterHolds
<1>3. QED
  BY <1>1, <1>2, ConsoleHolds, LimiterStep, PTL DEF Spec
=============================================================================
