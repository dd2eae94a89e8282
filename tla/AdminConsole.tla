----------------------------- MODULE AdminConsole -----------------------------
(***************************************************************************)
(* The management console: logins and sessions (persistence/admin_auth.py  *)
(* behind api/admin_routes.py, with the login limiter), the token a tab    *)
(* keeps (admin/api.ts, AdminApp.tsx, Layout.tsx), the triage of a problem *)
(* report (update_problem_report, ProblemReportsPage.tsx), the bootstrap   *)
(* script that replaces a password, the retention of sessions and the      *)
(* restart of the process.                                                 *)
(*                                                                         *)
(* One administrator, one tab, one source address.  Passwords are numbered *)
(* in the order they are set.                                              *)
(***************************************************************************)
EXTENDS RateLimiter

CONSTANTS
  Requests,      \* bound: requests of the tab open at a time
  Limit,         \* LOGIN_ATTEMPTS_PER_SOURCE_MINUTE
  TTL,           \* session_ttl_hours, in ticks
  Statuses,      \* of a problem report, "new" among them
  Priorities,    \* of a problem report, "normal" among them
  Forms,         \* bound: what the form of the report is submitted with
  MaxTime,       \* bound: the last tick of the clock
  MaxPasswords,  \* bound: passwords ever set
  MaxSessions    \* bound: sessions ever created

ASSUME ReportAssumption == "new" \in Statuses /\ "normal" \in Priorities
ASSUME ConsoleAssumption ==
  Limit \in Nat /\ TTL \in Nat /\ MaxTime \in Nat /\ MaxPasswords \in Nat \ {0} /\ MaxSessions \in Nat

VARIABLES
  now,       \* utc_now()
  password,  \* admin_users.password_hash
  sessions,  \* admin_sessions, in the order of creation
  bucket,    \* login_rate_limiter
  report,    \* the row of a problem report
  audit,     \* values that problem_reports.updated rows of admin_audit_events have
  stored,    \* the token in sessionStorage, 0 when the login page is shown
  req,       \* requests, from fetch to answer
  replaced,  \* history: when the password was replaced
  admitted   \* history: the times of the login attempts the process let through

database == <<password, sessions, report, audit>>
history == <<replaced, admitted>>
vars == <<now, database, bucket, stored, req, history>>
-----------------------------------------------------------------------------
Time == 0 .. MaxTime
Tokens == 1 .. MaxSessions
Row == [status : Statuses, priority : Priorities]
ASSUME FormAssumption == Forms \subseteq Row
NewReport == [status |-> "new", priority |-> "normal"]
\* late: the password was replaced while its login verified the old one.
\* owes: what the session did and has no row of admin_audit_events.
Session == [password : 1 .. MaxPasswords, expires : 0 .. MaxTime + TTL,
            revoked : BOOLEAN, late : BOOLEAN, owes : SUBSET {"login", "logout"}]
Idle == [step |-> "idle"]

\* began: was the session live when the request was sent?  token: also the
\* session a login has created.  at: the time the server read.  late: as in the
\* session.
Request ==
  [kind : {"login", "save", "logout"},
   step : {"sent", "timed", "read", "accepted", "write", "audit"},
   token : 0 .. MaxSessions, guess : 0 .. MaxPasswords, at : Time, began : BOOLEAN,
   late : BOOLEAN, form : Row, seen : Row]
Answered ==
  [kind : {"login", "save", "logout"}, step : {"answered"}, token : 0 .. MaxSessions,
   status : {200, 401, 500}]

TypeOK ==
  /\ now \in Time /\ password \in 1 .. MaxPasswords
  /\ sessions \in Seq(Session) /\ Len(sessions) <= MaxSessions
  /\ report \in Row /\ audit \subseteq Statuses \cup Priorities
  /\ stored \in 0 .. Len(sessions)
  /\ req \in [Requests -> {Idle} \cup Request \cup Answered]
  /\ replaced \in Time /\ admitted \in Seq(Time)

Init ==
  /\ now = 0 /\ password = 1
  /\ sessions = <<>> /\ bucket = EmptyBucket
  /\ report = NewReport /\ audit = {}
  /\ stored = 0
  /\ req = [r \in Requests |-> Idle]
  /\ replaced = 0 /\ admitted = <<>>

At(r, kind, step) == req[r] # Idle /\ req[r].kind = kind /\ req[r].step = step
Live(s, t) == ~sessions[s].revoked /\ sessions[s].expires > t
-----------------------------------------------------------------------------
(* The tab.                                                                *)

Send(r, kind, guess, form) ==
  /\ req[r] = Idle
  /\ req' = [req EXCEPT ![r] =
       [kind |-> kind, step |-> "sent", token |-> stored, guess |-> guess, at |-> 0,
        began |-> stored # 0 /\ Live(stored, now), late |-> FALSE,
        form |-> form, seen |-> form]]
  /\ UNCHANGED <<now, database, bucket, stored, history>>

\* The button is disabled while a login is open.
Login(r, guess) ==
  /\ stored = 0
  /\ \A other \in Requests : req[other] # Idle => req[other].kind # "login"
  /\ Send(r, "login", guess, NewReport)

\* The form sends status, priority and note together.
Save(r, form) == stored # 0 /\ Send(r, "save", 0, form)
Logout(r) == stored # 0 /\ Send(r, "logout", 0, NewReport)

\* adminRequest drops the token on every 401, whichever token was sent, and
\* handleLogout drops it whatever the answer is.
Receive(r) ==
  /\ req[r] # Idle /\ req[r].step = "answered"
  /\ stored' = IF req[r].kind = "login" /\ req[r].status = 200 THEN req[r].token
               ELSE IF req[r].kind = "logout" \/ req[r].status = 401 THEN 0 ELSE stored
  /\ req' = [req EXCEPT ![r] = Idle]
  /\ UNCHANGED <<now, database, bucket, history>>

\* The request is lost on its way or its answer is.
NetworkError(r) ==
  /\ req[r] # Idle /\ req[r].step \in {"sent", "answered"}
  /\ stored' = IF req[r].kind = "logout" THEN 0 ELSE stored
  /\ req' = [req EXCEPT ![r] = Idle]
  /\ UNCHANGED <<now, database, bucket, history>>
-----------------------------------------------------------------------------
(* The server.                                                             *)

Answer(r, status) ==
  req' = [req EXCEPT ![r] = [kind |-> @.kind, step |-> "answered", status |-> status,
                             token |-> IF @.kind = "save" THEN 0 ELSE @.token]]
Step(r, step) == req' = [req EXCEPT ![r].step = step]

\* Mutant: the attempt is admitted before the bucket is asked.
AttemptFreely(r) ==
  /\ At(r, "login", "sent")
  /\ bucket' = AfterCall(bucket, Limit, now)
  /\ Step(r, "timed")
  /\ admitted' = Append(admitted, now)
  /\ UNCHANGED <<now, database, stored, replaced>>

\* create_admin_session: an attempt over the limit gets the same 401.
Attempt(r) ==
  /\ At(r, "login", "sent")
  /\ bucket' = AfterCall(bucket, Limit, now)
  /\ IF Allows(bucket, Limit, now)
     THEN Step(r, "timed") /\ admitted' = Append(admitted, now)
     ELSE Answer(r, 401) /\ UNCHANGED admitted
  /\ UNCHANGED <<now, database, stored, replaced>>

\* create_session reads the row of the user, with the hash of the password ...
ReadUser(r) ==
  /\ At(r, "login", "timed")
  /\ IF req[r].guess = password THEN Step(r, "read") ELSE Answer(r, 401)
  /\ UNCHANGED <<now, database, bucket, stored, history>>

\* ... verifies it and fixes the expiry.  The script is another process: it may
\* have replaced the password in between.
Verify(r) ==
  /\ At(r, "login", "read")
  /\ req' = [req EXCEPT ![r].step = "write", ![r].at = now, ![r].late = req[r].guess # password]
  /\ UNCHANGED <<now, database, bucket, stored, history>>

Insert(r, expires) ==
  /\ At(r, "login", "write") /\ Len(sessions) < MaxSessions
  /\ sessions' = Append(sessions, [password |-> req[r].guess, expires |-> expires,
                                   revoked |-> FALSE, late |-> req[r].late, owes |-> {"login"}])
  /\ req' = [req EXCEPT ![r].step = "audit", ![r].at = 0, ![r].token = Len(sessions) + 1]
  /\ UNCHANGED <<now, password, report, audit, bucket, stored, history>>

\* Mutant: the expiry is computed when the session is written.
CreateSessionLate(r) == Insert(r, now + TTL)

CreateSession(r) == Insert(r, req[r].at + TTL)

\* Mutant: the answer is sent before the audit row is written.
AnswerLogin(r) ==
  /\ At(r, "login", "audit")
  /\ Answer(r, 200)
  /\ UNCHANGED <<now, database, bucket, stored, history>>

\* The audit row has a transaction of its own.
Audit(r, kind) ==
  /\ At(r, kind, "audit")
  /\ sessions' = [sessions EXCEPT ![req[r].token].owes = @ \ {kind}]
  /\ Answer(r, 200)
  /\ UNCHANGED <<now, password, report, audit, bucket, stored, history>>

AuditLogin(r) == Audit(r, "login")

\* authenticate: the time is read before the session is.
Begin(r) ==
  /\ At(r, "save", "sent") \/ At(r, "logout", "sent")
  /\ req' = [req EXCEPT ![r].step = "timed", ![r].at = now]
  /\ UNCHANGED <<now, database, bucket, stored, history>>

\* The time is not used again.
Accept(r) == req' = [req EXCEPT ![r].step = "accepted", ![r].at = 0]

\* Mutant: only the expiry of the session is looked at.
AuthenticateByExpiry(r) ==
  /\ At(r, "save", "timed") \/ At(r, "logout", "timed")
  /\ IF sessions[req[r].token].expires > req[r].at THEN Accept(r) ELSE Answer(r, 401)
  /\ UNCHANGED <<now, database, bucket, stored, history>>

Authenticate(r) ==
  /\ At(r, "save", "timed") \/ At(r, "logout", "timed")
  /\ IF Live(req[r].token, req[r].at) THEN Accept(r) ELSE Answer(r, 401)
  /\ UNCHANGED <<now, database, bucket, stored, history>>

\* revoke_session.  A session that was revoked meanwhile leaves the transaction
\* of the SELECT open, and begin() raises.
Revoke(r) ==
  /\ At(r, "logout", "accepted")
  /\ IF sessions[req[r].token].revoked
     THEN Answer(r, 500) /\ UNCHANGED sessions
     ELSE /\ Step(r, "audit")
          /\ sessions' = [sessions EXCEPT ![req[r].token].revoked = TRUE,
                                          ![req[r].token].owes = @ \cup {"logout"}]
  /\ UNCHANGED <<now, password, report, audit, bucket, stored, history>>

AuditLogout(r) == Audit(r, "logout")

\* update_problem_report reads the row, then writes the columns that differ from
\* what it read together with the audit row.
ReadReport(r) ==
  /\ At(r, "save", "accepted")
  /\ req' = [req EXCEPT ![r].step = "write", ![r].seen = report]
  /\ UNCHANGED <<now, database, bucket, stored, history>>

Changed(r) ==
  LET q == req[r] IN
  [status   |-> IF q.form.status # q.seen.status THEN q.form.status ELSE report.status,
   priority |-> IF q.form.priority # q.seen.priority THEN q.form.priority ELSE report.priority]

WriteReport(r) ==
  /\ At(r, "save", "write")
  /\ report' = Changed(r)
  /\ audit' = audit \cup {req[r].form.status, req[r].form.priority}
  /\ Answer(r, 200)
  /\ UNCHANGED <<now, password, sessions, bucket, stored, history>>

\* A statement or a commit raises, as on a lock timeout: its transaction is
\* rolled back, what was committed before stays, and the answer is 500.
Fail(r) ==
  /\ req[r] # Idle /\ req[r].step \in {"timed", "accepted", "write", "audit"}
  /\ Answer(r, 500)
  /\ UNCHANGED <<now, database, bucket, stored, history>>

Serve(r) ==
  \/ Attempt(r) \/ ReadUser(r) \/ Verify(r) \/ CreateSession(r) \/ AuditLogin(r)
  \/ Begin(r) \/ Authenticate(r) \/ Revoke(r) \/ AuditLogout(r)
  \/ ReadReport(r) \/ WriteReport(r) \/ Fail(r)

\* scripts/create_admin.py: a new password, and the sessions stay.
ReplacePassword ==
  /\ password < MaxPasswords
  /\ password' = password + 1
  /\ replaced' = now
  /\ UNCHANGED <<now, sessions, report, audit, bucket, stored, req, admitted>>

\* Mutant: the pass revokes the sessions that expire within the next tick.
SweepEarly ==
  /\ \E s \in DOMAIN sessions : ~sessions[s].revoked /\ sessions[s].expires <= now + 1
  /\ sessions' = [s \in DOMAIN sessions |->
       [sessions[s] EXCEPT !.revoked = @ \/ sessions[s].expires <= now + 1]]
  /\ UNCHANGED <<now, password, report, audit, bucket, stored, req, history>>

\* _revoke_expired_sessions.
Sweep ==
  /\ \E s \in DOMAIN sessions : ~sessions[s].revoked /\ sessions[s].expires <= now
  /\ sessions' = [s \in DOMAIN sessions |->
       [sessions[s] EXCEPT !.revoked = @ \/ sessions[s].expires <= now]]
  /\ UNCHANGED <<now, password, report, audit, bucket, stored, req, history>>

\* A new process: buckets and open requests are gone, and the audit row that was
\* not written yet never is.
Restart ==
  /\ bucket # EmptyBucket \/ \E r \in Requests : req[r] # Idle
  /\ bucket' = EmptyBucket
  /\ admitted' = <<>>
  /\ stored' = IF \E r \in Requests : req[r] # Idle /\ req[r].kind = "logout" THEN 0 ELSE stored
  /\ req' = [r \in Requests |-> Idle]
  /\ UNCHANGED <<now, database, replaced>>

Tick ==
  /\ now < MaxTime
  /\ now' = now + 1
  /\ UNCHANGED <<database, bucket, stored, req, history>>

Next ==
  \/ \E r \in Requests, guess \in 1 .. MaxPasswords : Login(r, guess)
  \/ \E r \in Requests, form \in Forms : Save(r, form)
  \/ \E r \in Requests : Logout(r) \/ Receive(r) \/ NetworkError(r) \/ Serve(r)
  \/ ReplacePassword \/ Sweep \/ Restart \/ Tick

Spec == Init /\ [][Next]_vars
-----------------------------------------------------------------------------
\* A request that was let in came with a session that was neither revoked nor
\* expired when the tab sent it, although clock and row are read one after the
\* other while sessions end (admin_auth.py:135-152).
AcceptedWasLive ==
  \A r \in Requests :
    (req[r] # Idle /\ req[r].kind # "login" /\ req[r].step \in {"accepted", "write", "audit"}) =>
      req[r].began

\* Replacing the password leaves the sessions of the old one, also those whose
\* login was verified before and is written after, for TTL at most, up to one
\* case: the login had read the row before and took its time after
\* (admin_auth.py:73, 87-101).
OldPasswordDiesOut ==
  \A s \in DOMAIN sessions :
    sessions[s].password # password =>
      sessions[s].expires <= replaced + TTL \/ sessions[s].late

\* In any window one process lets a source try at most Limit times within a day
\* and at most twice as often over midnight, when the bucket changes: attempts
\* Limit or, of two days, 2 * Limit apart have a window between them
\* (rate_limiting.py:34).
LimiterHolds ==
  \A i, j \in DOMAIN admitted :
    admitted[j] < admitted[i] + Window =>
      j - i < IF Day(admitted[i]) = Day(admitted[j]) THEN Limit ELSE 2 * Limit

\* A login or a logout that was acknowledged has its row, and a session whose
\* admin.login row is missing, since its transaction failed or the process died
\* between the two, is in nobody's hands: no tab and no request has its token
\* (admin_routes.py:111-120, 137-142).
SessionsAudited ==
  /\ \A r \in Requests :
       req[r] # Idle /\ req[r].step = "answered" /\ req[r].kind # "save" /\ req[r].status = 200 =>
         req[r].kind \notin sessions[req[r].token].owes
  /\ \A r \in Requests :
       req[r] # Idle /\ req[r].step # "answered" /\ req[r].kind # "login" =>
         "login" \notin sessions[req[r].token].owes
  /\ stored # 0 => "login" \notin sessions[stored].owes

\* Whatever saves overlap, no value of the report is there without an audit row
\* that has it: the two are written together (admin_service.py:678-699).
ChangesAudited ==
  {report.status, report.priority} \subseteq audit \cup {"new", "normal"}

\* The audit log has what was done: every change of a report, every login that
\* gave a token away and every logout that was acknowledged, however logins,
\* saves, logouts, failed transactions and restarts interleave.
AuditComplete == SessionsAudited /\ ChangesAudited

\* A session that has not expired is ended by its own logout only, not by the
\* retention pass (retention.py:231-238).
LiveSessionsStay ==
  [][\A s \in DOMAIN sessions :
       (Live(s, now) /\ sessions'[s].revoked) =>
         \E r \in Requests : At(r, "logout", "accepted") /\ req[r].token = s]_vars
=============================================================================
