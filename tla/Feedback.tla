------------------------------- MODULE Feedback -------------------------------
(***************************************************************************)
(* Anonymous feedback on one report: the rating widget of the page         *)
(* (RatingButtons.tsx), the requests it sends, the repository that serves  *)
(* them (persistence/feedback.py behind api/public_routes.py), and what a  *)
(* replay of the analysis and the retention pass do to token and ratings.  *)
(*                                                                         *)
(* The module follows one section of one report, since rows of different   *)
(* targets never meet.  Reason codes are a column that behaves as comment  *)
(* does and are left out.  Every SELECT is a step, and so is every flush   *)
(* with its COMMIT.  The limit of requests per hour is a free choice.      *)
(***************************************************************************)
EXTENDS Integers, FiniteSets

CONSTANTS
  Requests,   \* bound: requests of widgets that are open at a time
  Comments,   \* texts a visitor may type
  NoComment,  \* null
  None,       \* no vote, no row, no request
  MaxToken,   \* bound: feedback tokens ever registered
  RowIds      \* bound: primary keys of ratings

ASSUME CommentsAssumption == NoComment \in Comments
ASSUME NoneAssumption == None \notin Requests \cup {"up", "down"}
ASSUME TokensAssumption == MaxToken \in Nat \ {0}
\* There is a key for each INSERT whatever rows the open requests have read.
ASSUME RowIdsAssumption ==
  IsFiniteSet(Requests) /\ IsFiniteSet(RowIds) /\ Cardinality(Requests) < Cardinality(RowIds)

VARIABLES
  run,         \* is the analysis run stored?
  token,       \* its feedback_token_hash
  ratings,     \* dimension_ratings
  req,         \* requests for ratings, from fetch to answer
  widget,      \* RatingButtons
  overlapped   \* history: was a request sent while a given up one was open?

server == <<run, token, ratings>>
vars == <<server, req, widget, overlapped>>
-----------------------------------------------------------------------------
Votes == {"up", "down"}
Contents == [vote : Votes, comment : Comments]
Rows == [id : RowIds, content : Contents]
ASSUME RowsAssumption == None \notin Rows
Idle == [step |-> "idle"]
OpenRequest == [step : {"sent", "allowed", "read", "answered"},
                kind : {"put", "delete"}, token : 1 .. MaxToken,
                content : Contents \cup {None}, seen : Rows \cup {None},
                status : {"open", "ok", "refused", "failed"}]
Widget == [token : 1 .. MaxToken, shown : Votes \cup {None},
           wait : Requests \cup {None}, known : BOOLEAN]
Closed == None
Fresh(t) == [token |-> t, shown |-> None, wait |-> None, known |-> FALSE]

TypeOK ==
  /\ run \in BOOLEAN
  /\ token \in 1 .. MaxToken
  /\ ratings \subseteq Rows
  /\ req \in [Requests -> OpenRequest \cup {Idle}]
  /\ widget \in Widget \cup {Closed}
  /\ widget # Closed /\ widget.wait # None => req[widget.wait] # Idle
  /\ overlapped \in BOOLEAN

Init ==
  /\ run = TRUE
  /\ token = 1
  /\ ratings = {}
  /\ req = [r \in Requests |-> Idle]
  /\ widget = Fresh(1)
  /\ overlapped = FALSE

Mounted == widget # Closed
Waits(r) == Mounted /\ widget.wait = r
GivenUp == {r \in Requests : req[r] # Idle /\ ~Waits(r)}
-----------------------------------------------------------------------------
(* The widget.                                                             *)

\* Mutant: the buttons are not disabled while a request is open.
ReadyAlways == Mounted

Ready == Mounted /\ widget.wait = None

Send(r, kind, content) ==
  /\ req[r] = Idle
  /\ req' = [req EXCEPT ![r] =
       [step |-> "sent", kind |-> kind, token |-> widget.token,
        content |-> content, seen |-> None, status |-> "open"]]
  /\ widget' = [widget EXCEPT !.wait = r]
  /\ overlapped' = (overlapped \/ GivenUp # {})
  /\ UNCHANGED server

\* The form for a vote down, its text and its cancelling are the visitor's
\* input: any text may go with a vote, also text typed into a form that was
\* cancelled before a vote up.
Submit(r, v, c) ==
  /\ Ready /\ widget.shown # v
  /\ Send(r, "put", [vote |-> v, comment |-> c])

Remove(r) ==
  /\ Ready /\ widget.shown # None
  /\ Send(r, "delete", None)

AfterOk(q) ==
  [widget EXCEPT !.wait = None, !.known = TRUE,
                 !.shown = IF q.kind = "put" THEN q.content.vote ELSE None]

\* Mutant: the vote is shown as soon as the request ends, well or not.
ReceiveOptimistically(r) ==
  /\ req[r] # Idle /\ req[r].step = "answered"
  /\ Waits(r)
  /\ widget' = [AfterOk(req[r]) EXCEPT !.known = widget.known \/ req[r].status = "ok"]
  /\ req' = [req EXCEPT ![r] = Idle]
  /\ UNCHANGED <<server, overlapped>>

\* Mutant: an error leaves the widget busy.
ReceiveAndHang(r) ==
  /\ req[r] # Idle /\ req[r].step = "answered"
  /\ Waits(r)
  /\ widget' = IF req[r].status = "ok" THEN AfterOk(req[r]) ELSE widget
  /\ req' = [req EXCEPT ![r] = Idle]
  /\ UNCHANGED <<server, overlapped>>

Receive(r) ==
  /\ req[r] # Idle /\ req[r].step = "answered"
  /\ Waits(r)
  /\ widget' = IF req[r].status = "ok" THEN AfterOk(req[r])
               ELSE [widget EXCEPT !.wait = None]
  /\ req' = [req EXCEPT ![r] = Idle]
  /\ UNCHANGED <<server, overlapped>>

\* fetch() fails.  The request may still arrive and be served, to its end or
\* until the process dies.
NetworkError(r) ==
  /\ Waits(r)
  /\ widget' = [widget EXCEPT !.wait = None, !.known = FALSE]
  /\ UNCHANGED <<server, req, overlapped>>

Vanish(r) ==
  /\ r \in GivenUp
  /\ req' = [req EXCEPT ![r] = Idle]
  /\ UNCHANGED <<server, widget, overlapped>>
-----------------------------------------------------------------------------
(* The server.                                                             *)

At(r, step) == req[r] # Idle /\ req[r].step = step
\* Nobody receives the answer to a request that was given up.
Answer(r, status) ==
  req' = [req EXCEPT ![r] =
    IF Waits(r) THEN [@ EXCEPT !.step = "answered", !.status = status, !.seen = None]
    ELSE Idle]
Unserved == UNCHANGED <<widget, overlapped>>

\* The token is compared with the one registered last.
Authorize(r) ==
  /\ At(r, "sent")
  /\ \/ Answer(r, "refused")    \* feedback_rate_limited
     \/ IF run /\ req[r].token = token
        THEN req' = [req EXCEPT ![r].step = "allowed"]
        ELSE Answer(r, "refused")
  /\ UNCHANGED server /\ Unserved

Look(r) ==
  /\ At(r, "allowed")
  /\ IF ratings = {} /\ req[r].kind = "delete"
     THEN Answer(r, "ok")
     ELSE \E row \in IF ratings = {} THEN {None} ELSE ratings :
            req' = [req EXCEPT ![r].step = "read", ![r].seen = row]
  /\ UNCHANGED server /\ Unserved

Unused == RowIds \ ({row.id : row \in ratings} \cup
            {req[r].seen.id : r \in {s \in Requests : req[s] # Idle /\ req[s].seen # None}})

\* Mutant: the table has no unique key on (analysis_id, target).
InsertAlways(content) ==
  IF run THEN ratings' = ratings \cup {[id |-> CHOOSE i \in Unused : TRUE, content |-> content]}
  ELSE UNCHANGED ratings

\* Refused by the foreign key when the run is gone and by the unique key when
\* another request has inserted.
Insert(content) ==
  IF run /\ ratings = {}
  THEN ratings' = {[id |-> CHOOSE i \in Unused : TRUE, content |-> content]}
  ELSE UNCHANGED ratings

\* The UPDATE sets the columns that differ from the row that was read.
Merged(old, seen, new) ==
  [vote    |-> IF new.vote # seen.vote THEN new.vote ELSE old.vote,
   comment |-> IF new.comment # seen.comment THEN new.comment ELSE old.comment]

Update(seen, content) ==
  ratings' = {IF row.id = seen.id
              THEN [row EXCEPT !.content = Merged(row.content, seen.content, content)]
              ELSE row : row \in ratings}

\* An INSERT that collides and an UPDATE of a row that is gone are errors.
Put(r) ==
  LET q == req[r]
      stored == IF q.seen = None THEN run /\ ratings = {}
                ELSE \E row \in ratings : row.id = q.seen.id
  IN /\ At(r, "read") /\ q.kind = "put"
     /\ IF q.seen = None THEN Insert(q.content) ELSE Update(q.seen, q.content)
     /\ Answer(r, IF stored THEN "ok" ELSE "failed")
     /\ UNCHANGED <<run, token>> /\ Unserved

Delete(r) ==
  /\ At(r, "read") /\ req[r].kind = "delete"
  /\ ratings' = {row \in ratings : row.id # req[r].seen.id}
  /\ Answer(r, "ok")
  /\ UNCHANGED <<run, token>> /\ Unserved

Serve(r) == Authorize(r) \/ Look(r) \/ Put(r) \/ Delete(r)

\* An analysis that is answered again registers a new token, unless the answer
\* comes from the cache.  The page may have mounted a new widget with it, have
\* lost the answer, or belong to a request it gave up long ago.
Replay ==
  \E t \in {token, token + 1}, w \in {Fresh(token), Fresh(token + 1), Closed, widget} :
    /\ t <= MaxToken
    /\ t > token => run
    /\ w \in {Fresh(t), Closed, widget}
    /\ token' = t
    /\ widget' = w
    /\ UNCHANGED <<run, ratings, req, overlapped>>

\* _delete_old_metrics, with ON DELETE CASCADE.
DeleteRun ==
  /\ run
  /\ run' = FALSE
  /\ ratings' = {}
  /\ UNCHANGED <<token, req, widget, overlapped>>

\* rating_summary and _vote_counts.
VoteCount(v) == Cardinality({row \in ratings : row.content.vote = v})
-----------------------------------------------------------------------------
Next ==
  \/ \E r \in Requests, v \in Votes, c \in Comments : Submit(r, v, c)
  \/ \E r \in Requests : Remove(r)
  \/ \E r \in Requests : Serve(r) \/ Receive(r) \/ NetworkError(r) \/ Vanish(r)
  \/ Replay
  \/ DeleteRun

Spec == Init /\ [][Next]_vars

\* The event loop serves every request, and every answer arrives or fetch()
\* fails.
Fairness == \A r \in Requests : WF_vars(Serve(r)) /\ WF_vars(Receive(r))
FairSpec == Spec /\ Fairness
-----------------------------------------------------------------------------
\* A PUT that is acknowledged has replaced the rating as a whole.  An UPDATE
\* writes only columns (feedback.py:95-102), so this rests on the widget: only a
\* request it gave up can meet the next one in the database.
PutReplaces ==
  [][\A r \in Requests :
       (/\ At(r, "read") /\ req[r].kind = "put" /\ ~overlapped
        /\ req'[r] # Idle /\ req'[r].status = "ok") =>
         {row.content : row \in ratings'} = {req[r].content}]_vars

\* Once a change was acknowledged, the button that looks pressed is the vote
\* that is stored, whatever errors and replays follow, until a request is given
\* up (RatingButtons.tsx:42-85).
WidgetShowsRating ==
  (Mounted /\ widget.wait = None /\ widget.known /\ ~overlapped /\ run) =>
    {row.content.vote : row \in ratings} = {widget.shown} \ {None}

\* rating_summary counts the visitor of a stored run once, also when two PUTs
\* find no row and insert together, and that of a deleted run not at all, also
\* when a request that was authorized before writes after the deletion.
CountedOnce == VoteCount("up") + VoteCount("down") <= IF run THEN 1 ELSE 0

\* A DELETE that passed the token check is answered 204 whether the rating is
\* there, was never there or goes while the request is served
\* (public_routes.py:77).
DeleteNeverFails ==
  \A r \in Requests :
    req[r] # Idle /\ req[r].kind = "delete" => req[r].status # "failed"

\* The widget does not stay disabled (the finally blocks of submit and remove).
WidgetSettles == (Mounted /\ widget.wait # None) ~> (Mounted => widget.wait = None)
=============================================================================
