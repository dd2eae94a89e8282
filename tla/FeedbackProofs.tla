---------------------------- MODULE FeedbackProofs ----------------------------
(***************************************************************************)
(* Proofs about Feedback, for any number of requests, texts and tokens.    *)
(***************************************************************************)
EXTENDS Feedback, FiniteSetTheorems, TLAPS

USE DEF server

-----------------------------------------------------------------------------
(* Types.                                                                  *)

LEMMA Shapes ==
  /\ 1 \in 1 .. MaxToken
  /\ \A q \in OpenRequest : q # Idle
  /\ \A r \in Requests : r # None
  /\ "up" # None /\ "down" # None
BY NoneAssumption, TokensAssumption DEF OpenRequest, Idle

LEMMA OpenShape ==
  ASSUME TypeOK, NEW r \in Requests, req[r] # Idle
  PROVE  req[r] \in OpenRequest
BY DEF TypeOK

(* The open requests have read fewer keys than there are. *)
LEMMA KeyLeft ==
  ASSUME TypeOK, ratings = {}
  PROVE  Unused # {} /\ Unused \subseteq RowIds
<1>1. Unused \subseteq RowIds
  BY DEF Unused
<1>2. SUFFICES ASSUME Unused = {} PROVE FALSE
  BY <1>1
<1> DEFINE Saw(i, r) == req[r] # Idle /\ req[r].seen # None /\ req[r].seen.id = i
           f == [i \in RowIds |-> CHOOSE r \in Requests : Saw(i, r)]
<1>3. \A i \in RowIds : \E r \in Requests : Saw(i, r)
  BY <1>2 DEF Unused
<1>4. \A i \in RowIds : f[i] \in Requests /\ Saw(i, f[i])
  BY <1>3
<1>5. f \in [RowIds -> Requests]
  BY <1>4
<1>6. \E i, j \in RowIds : i # j /\ f[i] = f[j]
  <2> HIDE DEF f
  <2>1. QED
    BY <1>5, RowIdsAssumption, FS_PigeonHole
<1>7. QED
  BY <1>4, <1>6

(* An answer, and who gets it. *)
LEMMA AnswerShape ==
  ASSUME TypeOK, NEW r \in Requests, req[r] # Idle, NEW st \in {"ok", "refused", "failed"},
         Answer(r, st)
  PROVE  /\ req' \in [Requests -> OpenRequest \cup {Idle}]
         /\ \A s \in Requests : s # r => req'[s] = req[s]
         /\ ~Waits(r) => req'[r] = Idle
         /\ Waits(r) => /\ req'[r] # Idle /\ req'[r].step = "answered" /\ req'[r].status = st
                       /\ req'[r].kind = req[r].kind /\ req'[r].content = req[r].content
                       /\ req'[r].seen = None
<1> DEFINE new == [req[r] EXCEPT !.step = "answered", !.status = st, !.seen = None]
<1>1. req[r] \in OpenRequest /\ req \in [Requests -> OpenRequest \cup {Idle}]
  BY OpenShape DEF TypeOK
<1>2. /\ new \in OpenRequest /\ new.step = "answered" /\ new.status = st
      /\ new.kind = req[r].kind /\ new.content = req[r].content /\ new.seen = None
  BY <1>1 DEF OpenRequest
<1>3. req' = [req EXCEPT ![r] = IF Waits(r) THEN new ELSE Idle]
  BY DEF Answer
<1> HIDE DEF new
<1>4. req'[r] = (IF Waits(r) THEN new ELSE Idle) /\ new # Idle
  BY <1>1, <1>2, <1>3, Shapes
<1>5. QED
  BY <1>1, <1>2, <1>3, <1>4

(* A request that moves on and is still open. *)
LEMMA MoveShape ==
  ASSUME TypeOK, NEW r \in Requests, req[r] # Idle, NEW new \in OpenRequest,
         req' = [req EXCEPT ![r] = new]
  PROVE  /\ req' \in [Requests -> OpenRequest \cup {Idle}]
         /\ req'[r] = new /\ new # Idle
         /\ \A s \in Requests : s # r => req'[s] = req[s]
BY Shapes DEF TypeOK

LEMMA ServedShape ==
  ASSUME TypeOK, NEW r \in Requests, Serve(r)
  PROVE  req[r] # Idle /\ req[r] \in OpenRequest /\ req[r].step \in {"sent", "allowed", "read"}
<1>1. req[r] # Idle /\ req[r].step \in {"sent", "allowed", "read"}
  BY DEF Serve, Authorize, Look, Put, Delete, At
<1>2. QED
  BY <1>1, OpenShape

LEMMA ContentShape ==
  ASSUME TypeOK, NEW r \in Requests, req[r] # Idle
  PROVE  req[r].content \in Contents \cup {None} /\ req[r].seen \in Rows \cup {None}
BY OpenShape DEF OpenRequest

(* The content of a PUT is one of a rating.  Beside its type. *)
PutHasContent ==
  \A r \in Requests : req[r] # Idle /\ req[r].kind = "put" => req[r].content \in Contents
Types == TypeOK /\ PutHasContent

(* The steps of the server on a request: it moves on or is answered. *)
LEMMA ServedTypes ==
  ASSUME Types, NEW r \in Requests, Serve(r)
  PROVE  /\ req' \in [Requests -> OpenRequest \cup {Idle}]
         /\ \A s \in Requests : s # r => req'[s] = req[s]
         /\ Waits(r) => req'[r] # Idle
         /\ req'[r] # Idle => req'[r].kind = req[r].kind /\ req'[r].content = req[r].content
         /\ UNCHANGED <<run, token, widget, overlapped>>
<1> USE DEF Types
<1>1. req[r] # Idle /\ req[r] \in OpenRequest
  BY ServedShape
<1>2. UNCHANGED <<run, token, widget, overlapped>>
  BY DEF Serve, Authorize, Look, Put, Delete, Unserved
<1>3. ASSUME NEW st \in {"ok", "refused", "failed"}, Answer(r, st)
      PROVE  /\ req' \in [Requests -> OpenRequest \cup {Idle}]
             /\ \A s \in Requests : s # r => req'[s] = req[s]
             /\ Waits(r) => req'[r] # Idle
             /\ req'[r] # Idle => req'[r].kind = req[r].kind /\ req'[r].content = req[r].content
  BY <1>1, <1>3, AnswerShape
<1>4. CASE req' = [req EXCEPT ![r].step = "allowed"]
  <2> DEFINE new == [req[r] EXCEPT !.step = "allowed"]
  <2>1. new \in OpenRequest /\ new.kind = req[r].kind /\ new.content = req[r].content
    BY <1>1 DEF OpenRequest
  <2>2. req' = [req EXCEPT ![r] = new]
    BY <1>4
  <2>3. QED
    BY <1>1, <1>2, <2>1, <2>2, MoveShape
<1>5. ASSUME NEW row \in Rows \cup {None},
             req' = [req EXCEPT ![r].step = "read", ![r].seen = row]
      PROVE  /\ req' \in [Requests -> OpenRequest \cup {Idle}]
             /\ \A s \in Requests : s # r => req'[s] = req[s]
             /\ req'[r] # Idle
             /\ req'[r].kind = req[r].kind /\ req'[r].content = req[r].content
  <2> DEFINE new == [req[r] EXCEPT !.step = "read", !.seen = row]
  <2>1. new \in OpenRequest /\ new.kind = req[r].kind /\ new.content = req[r].content
    BY <1>1 DEF OpenRequest
  <2>2. req' = [req EXCEPT ![r] = new]
    BY <1>5 DEF TypeOK
  <2>3. QED
    BY <1>1, <2>1, <2>2, MoveShape
<1>6. CASE Authorize(r)
  BY <1>2, <1>3, <1>4, <1>6 DEF Authorize
<1>7. CASE Look(r)
  <2>1. \/ Answer(r, "ok")
        \/ \E row \in Rows \cup {None} : req' = [req EXCEPT ![r].step = "read", ![r].seen = row]
    BY <1>7 DEF Look, TypeOK
  <2>2. QED
    BY <1>2, <1>3, <1>5, <2>1
<1>8. CASE Put(r) \/ Delete(r)
  <2>1. \E st \in {"ok", "failed"} : Answer(r, st)
    BY <1>8 DEF Put, Delete
  <2>2. QED
    BY <1>2, <1>3, <2>1
<1>9. QED
  BY <1>6, <1>7, <1>8 DEF Serve

(* The row.  Alone it decides what is counted, and a deleted run has none. *)
OneRow == \A a, b \in ratings : a = b
NoneDeleted == ~run => ratings = {}
RatingInv == OneRow /\ NoneDeleted

LEMMA InsertShape ==
  ASSUME Types, RatingInv, NEW c \in Contents, Insert(c)
  PROVE  /\ ratings' \subseteq Rows /\ OneRow' /\ (~run => ratings' = {})
         /\ run /\ ratings = {} => {row.content : row \in ratings'} = {c}
         /\ ~(run /\ ratings = {}) => ratings' = ratings
<1>1. CASE run /\ ratings = {}
  <2> DEFINE key == CHOOSE i \in Unused : TRUE
             new == [id |-> key, content |-> c]
  <2>1. key \in RowIds
    BY <1>1, KeyLeft DEF Types
  <2>2. ratings' = {new}
    BY <1>1 DEF Insert
  <2>3. new \in Rows /\ new.content = c
    BY <2>1 DEF Rows
  <2> HIDE DEF new
  <2>4. QED
    BY <1>1, <2>2, <2>3 DEF OneRow
<1>2. CASE ~(run /\ ratings = {})
  BY <1>2 DEF Insert, RatingInv, OneRow, NoneDeleted, Types, TypeOK
<1>3. QED
  BY <1>1, <1>2

LEMMA MergedShape ==
  ASSUME NEW old \in Contents, NEW seen \in Contents, NEW new \in Contents
  PROVE  Merged(old, seen, new) \in Contents /\ Merged(seen, seen, new) = new
BY DEF Contents, Merged

LEMMA UpdateShape ==
  ASSUME Types, RatingInv, NEW seen \in Rows, NEW c \in Contents, Update(seen, c)
  PROVE  /\ ratings' \subseteq Rows /\ OneRow' /\ (ratings = {} => ratings' = {})
         /\ ratings = {seen} => {row.content : row \in ratings'} = {c}
         /\ (\A row \in ratings : row.id # seen.id) => ratings' = ratings
<1> DEFINE new(row) == [row EXCEPT !.content = Merged(row.content, seen.content, c)]
           mapped(row) == IF row.id = seen.id THEN new(row) ELSE row
<1>1. ratings' = {mapped(row) : row \in ratings}
  BY DEF Update
<1>2. ASSUME NEW row \in Rows
      PROVE  /\ new(row) \in Rows
             /\ new(row).content = Merged(row.content, seen.content, c)
  <2>1. row.content \in Contents /\ seen.content \in Contents
    BY DEF Rows
  <2>2. Merged(row.content, seen.content, c) \in Contents
    BY <2>1, MergedShape
  <2>3. QED
    BY <2>2 DEF Rows
<1>3. ratings \subseteq Rows
  BY DEF Types, TypeOK
<1>4. \A row \in ratings : mapped(row) \in Rows
  BY <1>2, <1>3
<1>5. ratings' \subseteq Rows
  BY <1>1, <1>4
<1> HIDE DEF new
<1>6. OneRow' /\ (ratings = {} => ratings' = {})
  BY <1>1 DEF RatingInv, OneRow
<1>7. (\A row \in ratings : row.id # seen.id) => ratings' = ratings
  BY <1>1
<1>8. ASSUME ratings = {seen} PROVE {row.content : row \in ratings'} = {c}
  <2>1. ratings' = {new(seen)}
    BY <1>1, <1>8
  <2>2. new(seen).content = c
    <3>1. seen.content \in Contents
      BY DEF Rows
    <3>2. QED
      BY <1>2, <3>1, MergedShape
  <2>3. QED
    BY <2>1, <2>2
<1>9. QED
  BY <1>5, <1>6, <1>7, <1>8

LEMMA PutShape ==
  ASSUME Types, RatingInv, NEW r \in Requests, Put(r)
  PROVE  /\ ratings' \subseteq Rows /\ OneRow' /\ (~run => ratings' = {})
         /\ Answer(r, "ok") \/ (Answer(r, "failed") /\ ratings' = ratings)
<1>1. /\ req[r] # Idle /\ req[r].content \in Contents /\ req[r].seen \in Rows \cup {None}
  BY ContentShape DEF Put, At, Types, PutHasContent
<1>2. CASE req[r].seen = None
  <2>1. Insert(req[r].content)
    BY <1>2 DEF Put
  <2>2. Answer(r, IF run /\ ratings = {} THEN "ok" ELSE "failed")
    BY <1>2 DEF Put
  <2>3. QED
    BY <1>1, <2>1, <2>2, InsertShape
<1>3. CASE req[r].seen # None
  <2>1. Update(req[r].seen, req[r].content)
    BY <1>3 DEF Put
  <2>2. Answer(r, IF \E row \in ratings : row.id = req[r].seen.id THEN "ok" ELSE "failed")
    BY <1>3 DEF Put
  <2>3. QED
    BY <1>1, <1>3, <2>1, <2>2, UpdateShape DEF RatingInv, NoneDeleted
<1>4. QED
  BY <1>2, <1>3

LEMMA ServedRatings ==
  ASSUME Types, RatingInv, NEW r \in Requests, Serve(r)
  PROVE  ratings' \subseteq Rows /\ RatingInv'
<1>1. UNCHANGED run
  BY ServedTypes
<1>2. CASE Authorize(r) \/ Look(r)
  BY <1>2 DEF Authorize, Look, Types, TypeOK, RatingInv, OneRow, NoneDeleted
<1>3. CASE Put(r)
  BY <1>1, <1>3, PutShape DEF RatingInv, NoneDeleted
<1>4. CASE Delete(r)
  <2>1. ratings' \subseteq ratings
    BY <1>4 DEF Delete
  <2>2. QED
    BY <1>1, <2>1 DEF RatingInv, OneRow, NoneDeleted, Types, TypeOK
<1>5. QED
  BY <1>2, <1>3, <1>4 DEF Serve

LEMMA ServedInv ==
  ASSUME Types, RatingInv, NEW r \in Requests, Serve(r)
  PROVE  Types' /\ RatingInv'
<1>1. UNCHANGED <<run, token, widget, overlapped>>
  BY ServedTypes
<1>2. TypeOK'
  <2>1. req' \in [Requests -> OpenRequest \cup {Idle}]
    BY ServedTypes
  <2>2. ratings' \subseteq Rows
    BY ServedRatings
  <2>3. ASSUME widget # Closed, widget.wait # None PROVE req'[widget.wait] # Idle
    <3>1. widget.wait \in Requests /\ req[widget.wait] # Idle
      BY <2>3 DEF Types, TypeOK, Widget
    <3>2. CASE widget.wait = r
      BY <2>3, <3>2, ServedTypes DEF Waits, Mounted
    <3>3. CASE widget.wait # r
      BY <3>1, <3>3, ServedTypes
    <3>4. QED
      BY <3>2, <3>3
  <2>4. QED
    BY <1>1, <2>1, <2>2, <2>3 DEF Types, TypeOK
<1>3. PutHasContent'
  <2>1. ASSUME NEW s \in Requests, req'[s] # Idle, req'[s].kind = "put"
        PROVE  req'[s].content \in Contents
    <3>1. CASE s = r
      BY <2>1, <3>1, ServedTypes, ServedShape DEF Types, PutHasContent
    <3>2. CASE s # r
      BY <2>1, <3>2, ServedTypes DEF Types, PutHasContent
    <3>3. QED
      BY <3>1, <3>2
  <2>2. QED
    BY <2>1 DEF PutHasContent
<1>4. QED
  BY <1>2, <1>3, ServedRatings DEF Types

(* The widget's steps, the replay and the retention pass. *)
LEMMA SendShape ==
  ASSUME Types, NEW r \in Requests, NEW kind \in {"put", "delete"},
         NEW content \in Contents \cup {None}, kind = "put" => content \in Contents,
         Mounted, Send(r, kind, content)
  PROVE  /\ req[r] = Idle /\ UNCHANGED <<run, token, ratings>>
         /\ req' \in [Requests -> OpenRequest \cup {Idle}]
         /\ \A s \in Requests : s # r => req'[s] = req[s]
         /\ req'[r] # Idle /\ req'[r].step = "sent" /\ req'[r].status = "open"
         /\ req'[r].kind = kind /\ req'[r].content = content
         /\ widget \in Widget /\ widget' = [widget EXCEPT !.wait = r]
         /\ widget' \in Widget /\ widget'.wait = r
         /\ widget'.known = widget.known /\ widget'.shown = widget.shown
         /\ overlapped' = (overlapped \/ GivenUp # {})
<1>1. widget \in Widget /\ widget.token \in 1 .. MaxToken
  BY DEF Types, TypeOK, Mounted, Widget
<1> DEFINE new == [step |-> "sent", kind |-> kind, token |-> widget.token,
                   content |-> content, seen |-> None, status |-> "open"]
<1>2. new \in OpenRequest
  BY <1>1 DEF OpenRequest
<1>3. /\ req[r] = Idle /\ req' = [req EXCEPT ![r] = new]
      /\ UNCHANGED <<run, token, ratings>>
      /\ widget' = [widget EXCEPT !.wait = r]
  BY DEF Send
<1>4. overlapped' = (overlapped \/ GivenUp # {})
  BY Zenon DEF Send
<1>5. /\ widget' \in Widget /\ widget'.wait = r
      /\ widget'.known = widget.known /\ widget'.shown = widget.shown
  BY <1>1, <1>3 DEF Widget
<1> HIDE DEF new
<1>6. req'[r] = new /\ new # Idle /\ \A s \in Requests : s # r => req'[s] = req[s]
  BY <1>2, <1>3, Shapes DEF Types, TypeOK
<1>7. req' \in [Requests -> OpenRequest \cup {Idle}]
  BY <1>2, <1>3 DEF Types, TypeOK
<1>8. QED
  BY <1>1, <1>3, <1>4, <1>5, <1>6, <1>7 DEF new

LEMMA SendInv ==
  ASSUME Types, NEW r \in Requests, NEW kind \in {"put", "delete"},
         NEW content \in Contents \cup {None}, kind = "put" => content \in Contents,
         Mounted, Send(r, kind, content)
  PROVE  Types'
<1>1. overlapped' \in BOOLEAN
  BY SendShape, Zenon
<1>2. TypeOK'
  BY <1>1, SendShape DEF Types, TypeOK
<1>3. PutHasContent'
  BY SendShape DEF Types, PutHasContent
<1>4. QED
  BY <1>2, <1>3 DEF Types

LEMMA ReceiveShape ==
  ASSUME Types, NEW r \in Requests, Receive(r)
  PROVE  /\ Mounted /\ widget.wait = r /\ req[r] \in OpenRequest /\ req[r].step = "answered"
         /\ widget \in Widget /\ widget' \in Widget /\ widget'.wait = None
         /\ req[r].status = "ok" =>
              widget'.known /\ widget'.shown = IF req[r].kind = "put" THEN req[r].content.vote ELSE None
         /\ req[r].status # "ok" => widget'.known = widget.known /\ widget'.shown = widget.shown
         /\ req' = [req EXCEPT ![r] = Idle] /\ UNCHANGED <<run, token, ratings, overlapped>>
<1>1. /\ req[r] # Idle /\ req[r].step = "answered" /\ Mounted /\ widget.wait = r
      /\ widget' = IF req[r].status = "ok" THEN AfterOk(req[r]) ELSE [widget EXCEPT !.wait = None]
      /\ req' = [req EXCEPT ![r] = Idle] /\ UNCHANGED <<run, token, ratings, overlapped>>
  BY DEF Receive, Waits
<1>2. widget \in Widget /\ req[r] \in OpenRequest
  BY <1>1, OpenShape DEF Types, TypeOK, Mounted
<1>3. req[r].kind = "put" => req[r].content.vote \in Votes
  BY <1>1 DEF Types, PutHasContent, Contents
<1> DEFINE pressed == IF req[r].kind = "put" THEN req[r].content.vote ELSE None
           good == [widget EXCEPT !.wait = None, !.known = TRUE, !.shown = pressed]
           bad == [widget EXCEPT !.wait = None]
<1>4. pressed \in Votes \cup {None}
  BY <1>3
<1>5. widget' = IF req[r].status = "ok" THEN good ELSE bad
  BY <1>1 DEF AfterOk
<1> HIDE DEF pressed
<1>6. good \in Widget /\ good.wait = None /\ good.known /\ good.shown = pressed
  BY <1>2, <1>4 DEF Widget
<1>7. bad \in Widget /\ bad.wait = None /\ bad.known = widget.known /\ bad.shown = widget.shown
  BY <1>2 DEF Widget
<1> HIDE DEF good, bad
<1>8. QED
  BY <1>1, <1>2, <1>5, <1>6, <1>7 DEF pressed

LEMMA LeaveInv ==
  ASSUME Types, NEW r \in Requests, Receive(r) \/ Vanish(r)
  PROVE  Types' /\ UNCHANGED <<run, token, ratings, overlapped>>
<1>1. req' = [req EXCEPT ![r] = Idle] /\ UNCHANGED <<run, token, ratings, overlapped>>
  BY DEF Receive, Vanish
<1>2. /\ req' \in [Requests -> OpenRequest \cup {Idle}] /\ req'[r] = Idle
      /\ \A s \in Requests : s # r => req'[s] = req[s]
  BY <1>1 DEF Types, TypeOK
<1>3. PutHasContent'
  BY <1>2 DEF Types, PutHasContent
<1>4. CASE Receive(r)
  BY <1>1, <1>2, <1>3, <1>4, ReceiveShape DEF Types, TypeOK
<1>5. CASE Vanish(r)
  <2>1. widget' = widget /\ ~Waits(r)
    BY <1>5 DEF Vanish, GivenUp
  <2>2. widget # Closed /\ widget.wait # None => req'[widget.wait] # Idle
    BY <1>2, <2>1 DEF Types, TypeOK, Widget, Waits, Mounted
  <2>3. QED
    BY <1>1, <1>2, <1>3, <2>1, <2>2 DEF Types, TypeOK
<1>6. QED
  BY <1>1, <1>4, <1>5

LEMMA GiveUpShape ==
  ASSUME Types, NEW r \in Requests, NetworkError(r)
  PROVE  /\ UNCHANGED <<run, token, ratings, req, overlapped>>
         /\ widget' \in Widget /\ widget'.wait = None /\ ~widget'.known
<1>1. widget \in Widget
  BY DEF NetworkError, Waits, Mounted, Types, TypeOK
<1>2. widget' = [widget EXCEPT !.wait = None, !.known = FALSE]
  BY DEF NetworkError
<1>3. widget' \in Widget /\ widget'.wait = None /\ ~widget'.known
  BY <1>1, <1>2 DEF Widget
<1>4. QED
  BY <1>3 DEF NetworkError

LEMMA ReplayShape ==
  ASSUME Types, Replay
  PROVE  /\ UNCHANGED <<run, ratings, req, overlapped>>
         /\ token' \in 1 .. MaxToken
         /\ \/ widget' = widget \/ widget' = Closed
            \/ widget' \in Widget /\ widget'.wait = None /\ ~widget'.known
<1>1. PICK t \in {token, token + 1} :
        t <= MaxToken /\ token' = t /\ widget' \in {Fresh(t), Closed, widget}
  BY DEF Replay
<1>2. t \in 1 .. MaxToken
  BY <1>1, TokensAssumption DEF Types, TypeOK
<1>3. Fresh(t) \in Widget /\ Fresh(t).wait = None /\ ~Fresh(t).known
  BY <1>2 DEF Fresh, Widget
<1>4. UNCHANGED <<run, ratings, req, overlapped>>
  BY DEF Replay
<1> HIDE DEF Fresh
<1>5. QED
  BY <1>1, <1>2, <1>3, <1>4

LEMMA InitInv == Init => Types /\ RatingInv
<1> SUFFICES ASSUME Init PROVE Types /\ RatingInv
  OBVIOUS
<1>1. Fresh(1) \in Widget /\ Fresh(1).wait = None
  BY Shapes DEF Fresh, Widget
<1>2. TypeOK
  BY <1>1, Shapes DEF Init, TypeOK
<1>3. QED
  BY <1>2 DEF Init, Types, PutHasContent, RatingInv, OneRow, NoneDeleted

LEMMA NextInv == Types /\ RatingInv /\ [Next]_vars => Types' /\ RatingInv'
<1> SUFFICES ASSUME Types, RatingInv, [Next]_vars PROVE Types' /\ RatingInv'
  OBVIOUS
<1>1. UNCHANGED <<run, ratings>> => RatingInv'
  BY DEF RatingInv, OneRow, NoneDeleted
<1>2. ASSUME NEW r \in Requests, NEW v \in Votes, NEW c \in Comments, Submit(r, v, c)
      PROVE  Types' /\ RatingInv'
  <2>1. [vote |-> v, comment |-> c] \in Contents
    BY DEF Contents
  <2>2. Mounted /\ Send(r, "put", [vote |-> v, comment |-> c])
    BY <1>2 DEF Submit, Ready
  <2>3. QED
    BY <1>1, <2>1, <2>2, SendInv, SendShape
<1>3. ASSUME NEW r \in Requests, Remove(r) PROVE Types' /\ RatingInv'
  <2>1. Mounted /\ Send(r, "delete", None)
    BY <1>3 DEF Remove, Ready
  <2>2. QED
    BY <1>1, <2>1, SendInv, SendShape
<1>4. ASSUME NEW r \in Requests, Receive(r) \/ Vanish(r) PROVE Types' /\ RatingInv'
  BY <1>1, <1>4, LeaveInv
<1>5. ASSUME NEW r \in Requests, NetworkError(r) PROVE Types' /\ RatingInv'
  <2>1. UNCHANGED <<run, ratings>> /\ TypeOK'
    BY <1>5, GiveUpShape DEF Types, TypeOK
  <2>2. PutHasContent'
    BY <1>5, GiveUpShape DEF Types, PutHasContent
  <2>3. QED
    BY <1>1, <2>1, <2>2 DEF Types
<1>6. CASE Replay
  <2>1. UNCHANGED <<run, ratings>> /\ TypeOK'
    BY <1>6, ReplayShape DEF Types, TypeOK, Closed
  <2>2. PutHasContent'
    BY <1>6, ReplayShape DEF Types, PutHasContent
  <2>3. QED
    BY <1>1, <2>1, <2>2 DEF Types
<1>7. CASE DeleteRun
  <2>1. ratings' = {} /\ run' = FALSE /\ UNCHANGED <<token, req, widget, overlapped>>
    BY <1>7 DEF DeleteRun
  <2>2. QED
    BY <2>1 DEF Types, TypeOK, PutHasContent, RatingInv, OneRow, NoneDeleted
<1>8. CASE UNCHANGED vars
  BY <1>8 DEF vars, Types, TypeOK, PutHasContent, RatingInv, OneRow, NoneDeleted
<1>9. QED
  BY <1>2, <1>3, <1>4, <1>5, <1>6, <1>7, <1>8, ServedInv DEF Next

LEMMA FeedbackInv == Spec => [](Types /\ RatingInv)
BY InitInv, NextInv, PTL DEF Spec

(* Every value has its type, and the keys of ratings do not run out. *)
THEOREM FeedbackTypeCorrect == Spec => []TypeOK
BY FeedbackInv, PTL DEF Types

(* Two PUTs that both find no row insert one, and its votes count once; no *)
(* request authorized before the run was deleted leaves a rating.          *)
THEOREM CountsOnce == Spec => []CountedOnce
<1>1. ASSUME RatingInv PROVE CountedOnce
  <2> DEFINE ups == {row \in ratings : row.content.vote = "up"}
             downs == {row \in ratings : row.content.vote = "down"}
  <2>1. /\ ups = {} \/ downs = {}
        /\ ups = {} \/ \E x : ups = {x}
        /\ downs = {} \/ \E x : downs = {x}
    <3>1. \A x, y \in ratings : x = y
      BY <1>1 DEF RatingInv, OneRow
    <3>2. ASSUME NEW x \in ups, NEW y \in downs PROVE FALSE
      BY <3>1, <3>2
    <3>3. ASSUME NEW S \in SUBSET ratings PROVE S = {} \/ \E x : S = {x}
      <4>1. CASE S # {}
        <5>1. PICK x \in S : TRUE
          BY <4>1
        <5>2. S = {x}
          BY <3>1, <5>1
        <5>3. QED
          BY <5>2
      <4>2. QED
        BY <4>1
    <3>4. ups \in SUBSET ratings /\ downs \in SUBSET ratings
      OBVIOUS
    <3> HIDE DEF ups, downs
    <3>5. QED
      BY <3>2, <3>3, <3>4
  <2> HIDE DEF ups, downs
  <2>2. /\ Cardinality(ups) \in {0, 1} /\ Cardinality(downs) \in {0, 1}
        /\ Cardinality(ups) = 0 \/ Cardinality(downs) = 0
    BY <2>1, FS_EmptySet, FS_Singleton
  <2>3. ~run => Cardinality(ups) = 0 /\ Cardinality(downs) = 0
    BY <1>1, FS_EmptySet DEF RatingInv, NoneDeleted, ups, downs
  <2>4. VoteCount("up") = Cardinality(ups) /\ VoteCount("down") = Cardinality(downs)
    BY DEF VoteCount, ups, downs
  <2>5. QED
    BY <2>2, <2>3, <2>4 DEF CountedOnce
<1>2. QED
  BY <1>1, FeedbackInv, PTL

-----------------------------------------------------------------------------
(* What the server does to a request and to the rating, outcome by outcome. *)

Moved(r) ==
  /\ req'[r] # Idle /\ req'[r].status = req[r].status /\ UNCHANGED ratings
  /\ \/ req'[r].step = "allowed"
     \/ /\ req'[r].step = "read"
        /\ \/ ratings = {} /\ req'[r].seen = None
           \/ req'[r].seen \in ratings /\ req'[r].seen # None
Refused(r) == Answer(r, "refused") /\ UNCHANGED ratings
Failed(r) == Answer(r, "failed") /\ req[r].kind = "put" /\ UNCHANGED ratings
Replaced(r) ==
  /\ Answer(r, "ok") /\ req[r].kind = "put" /\ At(r, "read") /\ run
  /\ ratings = {} \/ ratings = {req[r].seen} =>
       {row.content : row \in ratings'} = {req[r].content}
Removed(r) ==
  /\ Answer(r, "ok") /\ req[r].kind = "delete"
  /\ \/ ratings = {} /\ ratings' = {}
     \/ At(r, "read") /\ ratings' = {row \in ratings : row.id # req[r].seen.id}

LEMMA LookOutcome ==
  ASSUME Types, RatingInv, NEW r \in Requests, Look(r)
  PROVE  Moved(r) \/ Removed(r)
<1>1. req[r] \in OpenRequest /\ req[r] # Idle /\ ratings \subseteq Rows
  BY ServedShape DEF Serve, Types, TypeOK
<1>2. CASE ratings = {} /\ req[r].kind = "delete"
  BY <1>2 DEF Look, Removed
<1>3. CASE ~(ratings = {} /\ req[r].kind = "delete")
  <2>1. UNCHANGED ratings
    BY DEF Look
  <2>2. PICK row \in IF ratings = {} THEN {None} ELSE ratings :
          req' = [req EXCEPT ![r].step = "read", ![r].seen = row]
    BY <1>3 DEF Look
  <2> DEFINE new == [req[r] EXCEPT !.step = "read", !.seen = row]
  <2>3. row \in Rows \cup {None}
    BY <1>1
  <2>4. /\ new \in OpenRequest /\ new.step = "read" /\ new.seen = row
        /\ new.status = req[r].status
    BY <1>1, <2>3 DEF OpenRequest
  <2>5. req' = [req EXCEPT ![r] = new]
    BY <2>2 DEF Types, TypeOK
  <2> HIDE DEF new
  <2>6. req'[r] = new /\ new # Idle
    BY <1>1, <2>4, <2>5, MoveShape DEF Types
  <2>7. (ratings = {} /\ row = None) \/ (row \in ratings /\ row # None)
    BY <1>1, <2>2, RowsAssumption
  <2>8. QED
    BY <2>1, <2>4, <2>6, <2>7 DEF Moved
<1>4. QED
  BY <1>2, <1>3

LEMMA PutOutcome ==
  ASSUME Types, RatingInv, NEW r \in Requests, Put(r)
  PROVE  Failed(r) \/ Replaced(r)
<1>1. /\ req[r] # Idle /\ At(r, "read") /\ req[r].kind = "put"
      /\ req[r].content \in Contents /\ req[r].seen \in Rows \cup {None}
  BY ContentShape DEF Put, At, Types, PutHasContent
<1>2. CASE req[r].seen = None
  <2>1. Insert(req[r].content)
    BY <1>2 DEF Put
  <2>2. Answer(r, IF run /\ ratings = {} THEN "ok" ELSE "failed")
    BY <1>2 DEF Put
  <2>3. CASE run /\ ratings = {}
    BY <1>1, <2>1, <2>2, <2>3, InsertShape DEF Replaced
  <2>4. CASE ~(run /\ ratings = {})
    BY <1>1, <2>1, <2>2, <2>4, InsertShape DEF Failed
  <2>5. QED
    BY <2>3, <2>4
<1>3. CASE req[r].seen # None
  <2> DEFINE found == \E row \in ratings : row.id = req[r].seen.id
  <2>1. Update(req[r].seen, req[r].content)
    BY <1>3 DEF Put
  <2>2. Answer(r, IF found THEN "ok" ELSE "failed")
    BY <1>3 DEF Put
  <2>3. CASE found
    <3>1. run /\ ratings # {}
      BY <2>3 DEF RatingInv, NoneDeleted
    <3>2. ratings = {req[r].seen} => {row.content : row \in ratings'} = {req[r].content}
      BY <1>1, <1>3, <2>1, UpdateShape
    <3>3. QED
      BY <1>1, <2>2, <2>3, <3>1, <3>2 DEF Replaced
  <2>4. CASE ~found
    BY <1>1, <1>3, <2>1, <2>2, <2>4, UpdateShape DEF Failed
  <2>5. QED
    BY <2>3, <2>4
<1>4. QED
  BY <1>2, <1>3

LEMMA ServedOutcome ==
  ASSUME Types, RatingInv, NEW r \in Requests, Serve(r)
  PROVE  Moved(r) \/ Refused(r) \/ Failed(r) \/ Replaced(r) \/ Removed(r)
<1>1. CASE Authorize(r)
  <2>1. UNCHANGED ratings
    BY <1>1 DEF Authorize
  <2>2. CASE Answer(r, "refused")
    BY <2>1, <2>2 DEF Refused
  <2>3. CASE req' = [req EXCEPT ![r].step = "allowed"]
    <3> DEFINE new == [req[r] EXCEPT !.step = "allowed"]
    <3>1. req[r] \in OpenRequest /\ req[r] # Idle
      BY <1>1, ServedShape DEF Serve, Types
    <3>2. new \in OpenRequest /\ new.step = "allowed" /\ new.status = req[r].status
      BY <3>1 DEF OpenRequest
    <3>3. req' = [req EXCEPT ![r] = new]
      BY <2>3
    <3>4. req'[r] = new /\ new # Idle
      BY <3>1, <3>2, <3>3, MoveShape DEF Types
    <3>5. QED
      BY <2>1, <3>2, <3>4 DEF Moved
  <2>4. QED
    BY <1>1, <2>2, <2>3 DEF Authorize
<1>2. CASE Look(r)
  BY <1>2, LookOutcome
<1>3. CASE Put(r)
  BY <1>3, PutOutcome
<1>4. CASE Delete(r)
  BY <1>4 DEF Delete, Removed
<1>5. QED
  BY <1>1, <1>2, <1>3, <1>4 DEF Serve

(* A DELETE is never answered with an error: nothing it may find gone is. *)
THEOREM DeletesSucceed == Spec => []DeleteNeverFails
<1>1. Init => DeleteNeverFails
  BY DEF Init, DeleteNeverFails
<1>2. ASSUME Types, RatingInv, DeleteNeverFails, [Next]_vars PROVE DeleteNeverFails'
  <2>1. ASSUME NEW r \in Requests, \A s \in Requests : s # r => req'[s] = req[s],
               req'[r] = Idle \/ req'[r].kind # "delete" \/ req'[r].status # "failed"
        PROVE  DeleteNeverFails'
    BY <1>2, <2>1 DEF DeleteNeverFails
  <2>2. UNCHANGED req => DeleteNeverFails'
    BY <1>2 DEF DeleteNeverFails
  <2>3. ASSUME NEW r \in Requests, Serve(r) PROVE DeleteNeverFails'
    <3>1. /\ req[r] # Idle /\ \A s \in Requests : s # r => req'[s] = req[s]
          /\ req'[r] # Idle => req'[r].kind = req[r].kind
      BY <1>2, <2>3, ServedTypes, ServedShape DEF Types
    <3>2. CASE Moved(r)
      BY <1>2, <2>1, <3>1, <3>2 DEF Moved, DeleteNeverFails
    <3>3. CASE Failed(r)
      BY <2>1, <3>1, <3>3 DEF Failed
    <3>4. CASE \E st \in {"ok", "refused"} : Answer(r, st)
      <4>1. req'[r] = Idle \/ req'[r].status \in {"ok", "refused"}
        BY <1>2, <3>1, <3>4, AnswerShape DEF Types
      <4>2. QED
        BY <2>1, <3>1, <4>1
    <3>5. QED
      BY <1>2, <2>3, <3>2, <3>3, <3>4, ServedOutcome DEF Refused, Replaced, Removed
  <2>4. ASSUME NEW r \in Requests, Receive(r) \/ Vanish(r) PROVE DeleteNeverFails'
    <3>1. req'[r] = Idle /\ \A s \in Requests : s # r => req'[s] = req[s]
      BY <1>2, <2>4 DEF Receive, Vanish, Types, TypeOK
    <3>2. QED
      BY <2>1, <3>1
  <2>5. ASSUME NEW r \in Requests, NEW v \in Votes, NEW c \in Comments, Submit(r, v, c)
        PROVE  DeleteNeverFails'
    <3>1. [vote |-> v, comment |-> c] \in Contents
      BY DEF Contents
    <3>2. Mounted /\ Send(r, "put", [vote |-> v, comment |-> c])
      BY <2>5 DEF Submit, Ready
    <3>3. QED
      BY <1>2, <2>1, <3>1, <3>2, SendShape
  <2>6. ASSUME NEW r \in Requests, Remove(r) PROVE DeleteNeverFails'
    <3>1. Mounted /\ Send(r, "delete", None)
      BY <2>6 DEF Remove, Ready
    <3>2. QED
      BY <1>2, <2>1, <3>1, SendShape
  <2>7. QED
    BY <1>2, <2>2, <2>3, <2>4, <2>5, <2>6 DEF Next, NetworkError, Replay, DeleteRun, vars
<1>3. QED
  BY <1>1, <1>2, FeedbackInv, PTL DEF Spec

-----------------------------------------------------------------------------
(* As long as no request was sent while a given up one was open, the       *)
(* requests of the page do not meet: one is open at a time, and it finds   *)
(* the row as it has read it.                                              *)

OpenStatus == \A r \in Requests : req[r] # Idle /\ req[r].step # "answered" => req[r].status = "open"
Alone == ~overlapped => \A r, s \in Requests : req[r] # Idle /\ req[s] # Idle => r = s
SeenRow(r) ==
  At(r, "read") =>
    (req[r].seen = None /\ ratings = {}) \/ (req[r].seen # None /\ ratings = {req[r].seen})
SeenRows == ~overlapped /\ run => \A r \in Requests : SeenRow(r)
MeetInv == OpenStatus /\ Alone /\ SeenRows

LEMMA RemovedRow ==
  ASSUME NEW r \in Requests, SeenRow(r), Removed(r)
  PROVE  ratings' = {}
<1>1. CASE ratings = {} /\ ratings' = {}
  BY <1>1
<1>2. CASE At(r, "read") /\ ratings' = {row \in ratings : row.id # req[r].seen.id}
  <2>1. ratings = {} \/ ratings = {req[r].seen}
    BY <1>2 DEF SeenRow
  <2>2. QED
    BY <1>2, <2>1
<1>3. QED
  BY <1>1, <1>2 DEF Removed

LEMMA MeetSend ==
  ASSUME Types, MeetInv, NEW r \in Requests, NEW kind \in {"put", "delete"},
         NEW content \in Contents \cup {None}, kind = "put" => content \in Contents,
         Mounted, widget.wait = None, Send(r, kind, content)
  PROVE  MeetInv'
<1>1. /\ req[r] = Idle /\ UNCHANGED <<run, ratings>>
      /\ \A s \in Requests : s # r => req'[s] = req[s]
      /\ req'[r] # Idle /\ req'[r].step = "sent" /\ req'[r].status = "open"
      /\ overlapped' = (overlapped \/ GivenUp # {})
  BY SendShape
<1>2. OpenStatus'
  BY <1>1 DEF MeetInv, OpenStatus
<1>3. ~overlapped' => ~overlapped /\ \A s \in Requests : req[s] = Idle
  <2>1. \A s \in Requests : ~Waits(s)
    BY NoneAssumption DEF Waits
  <2>2. GivenUp = {} => \A s \in Requests : req[s] = Idle
    BY <2>1 DEF GivenUp
  <2>3. ~overlapped' => ~overlapped /\ GivenUp = {}
    BY <1>1, Zenon
  <2>4. QED
    BY <2>2, <2>3
<1>4. Alone' /\ SeenRows'
  BY <1>1, <1>3 DEF Alone, SeenRows, SeenRow, At
<1>5. QED
  BY <1>2, <1>4 DEF MeetInv

LEMMA MeetLeave ==
  ASSUME Types, MeetInv, NEW r \in Requests, req'[r] = Idle, UNCHANGED <<run, ratings, overlapped>>,
         \A s \in Requests : s # r => req'[s] = req[s]
  PROVE  MeetInv'
<1>1. \A s \in Requests : req'[s] = Idle \/ req'[s] = req[s]
  OBVIOUS
<1>2. OpenStatus'
  BY <1>1 DEF MeetInv, OpenStatus
<1>3. Alone'
  BY <1>1 DEF MeetInv, Alone
<1>4. SeenRows'
  BY <1>1 DEF MeetInv, SeenRows, SeenRow, At
<1>5. QED
  BY <1>2, <1>3, <1>4 DEF MeetInv

LEMMA MeetServe ==
  ASSUME Types, RatingInv, MeetInv, NEW r \in Requests, Serve(r)
  PROVE  MeetInv'
<1>1. /\ UNCHANGED <<run, overlapped>> /\ req[r] # Idle /\ req[r].step # "answered"
      /\ \A s \in Requests : s # r => req'[s] = req[s]
  BY ServedTypes, ServedShape DEF Types
<1>2. ASSUME NEW st \in {"ok", "refused", "failed"}, Answer(r, st)
      PROVE  req'[r] = Idle \/ (req'[r] # Idle /\ req'[r].step = "answered")
  BY <1>1, <1>2, AnswerShape DEF Types
<1>3. \/ req'[r] = Idle
      \/ req'[r] # Idle /\ req'[r].step = "answered"
      \/ Moved(r)
  BY <1>2, ServedOutcome DEF Refused, Failed, Replaced, Removed
<1>4. OpenStatus'
  <2>1. req'[r] # Idle /\ req'[r].step # "answered" => req'[r].status = "open"
    BY <1>1, <1>3 DEF MeetInv, OpenStatus, Moved
  <2>2. QED
    BY <1>1, <2>1 DEF MeetInv, OpenStatus
<1>5. Alone'
  BY <1>1 DEF MeetInv, Alone
<1>6. ASSUME ~overlapped, run PROVE \A s \in Requests : SeenRow(s)'
  <2>1. \A s \in Requests : s # r => req'[s] = Idle
    BY <1>1, <1>6 DEF MeetInv, Alone
  <2>2. SeenRow(r)'
    <3>1. CASE Moved(r)
      <4>1. \A a, b \in ratings : a = b
        BY DEF RatingInv, OneRow
      <4>2. CASE req'[r].step = "read" /\ ratings = {} /\ req'[r].seen = None
        BY <3>1, <4>2 DEF Moved, SeenRow
      <4>3. CASE req'[r].step = "read" /\ req'[r].seen \in ratings /\ req'[r].seen # None
        <5>1. ratings = {req'[r].seen}
          BY <4>1, <4>3
        <5>2. QED
          BY <3>1, <4>3, <5>1 DEF Moved, SeenRow
      <4>4. CASE req'[r].step = "allowed"
        BY <4>4 DEF SeenRow, At
      <4>5. QED
        BY <3>1, <4>2, <4>3, <4>4 DEF Moved
    <3>2. CASE ~Moved(r)
      BY <1>3, <3>2 DEF SeenRow, At
    <3>3. QED
      BY <3>1, <3>2
  <2>3. QED
    BY <2>1, <2>2 DEF SeenRow, At
<1>7. QED
  BY <1>1, <1>4, <1>5, <1>6 DEF MeetInv, SeenRows

LEMMA MeetStep == Types /\ RatingInv /\ MeetInv /\ [Next]_vars => MeetInv'
<1> SUFFICES ASSUME Types, RatingInv, MeetInv, [Next]_vars PROVE MeetInv'
  OBVIOUS
<1>1. ASSUME NEW r \in Requests, NEW v \in Votes, NEW c \in Comments, Submit(r, v, c)
      PROVE  MeetInv'
  <2>1. [vote |-> v, comment |-> c] \in Contents
    BY DEF Contents
  <2>2. Mounted /\ widget.wait = None /\ Send(r, "put", [vote |-> v, comment |-> c])
    BY <1>1 DEF Submit, Ready
  <2>3. QED
    BY <2>1, <2>2, MeetSend
<1>2. ASSUME NEW r \in Requests, Remove(r) PROVE MeetInv'
  <2>1. Mounted /\ widget.wait = None /\ Send(r, "delete", None)
    BY <1>2 DEF Remove, Ready
  <2>2. QED
    BY <2>1, MeetSend
<1>3. ASSUME NEW r \in Requests, Receive(r) \/ Vanish(r) PROVE MeetInv'
  <2>1. req'[r] = Idle /\ \A s \in Requests : s # r => req'[s] = req[s]
    BY <1>3 DEF Receive, Vanish, Types, TypeOK
  <2>2. QED
    BY <1>3, <2>1, LeaveInv, MeetLeave
<1>4. UNCHANGED <<run, ratings, req, overlapped>> => MeetInv'
  BY DEF MeetInv, OpenStatus, Alone, SeenRows, SeenRow, At
<1>5. CASE DeleteRun
  <2>1. run' = FALSE /\ UNCHANGED <<req, overlapped>>
    BY <1>5 DEF DeleteRun
  <2>2. QED
    BY <2>1 DEF MeetInv, OpenStatus, Alone, SeenRows
<1>6. QED
  BY <1>1, <1>2, <1>3, <1>4, <1>5, MeetServe DEF Next, NetworkError, Replay, vars

LEMMA MeetHolds == Spec => [](Types /\ RatingInv /\ MeetInv)
<1>1. Init => MeetInv
  BY DEF Init, MeetInv, OpenStatus, Alone, SeenRows, SeenRow, At
<1>2. QED
  BY <1>1, InitInv, NextInv, MeetStep, PTL DEF Spec

(* An acknowledged PUT leaves its own vote and comment together, although  *)
(* its UPDATE writes single columns.                                       *)
THEOREM PutsReplace == Spec => PutReplaces
<1> DEFINE Whole == \A r \in Requests :
              (/\ At(r, "read") /\ req[r].kind = "put" /\ ~overlapped
               /\ req'[r] # Idle /\ req'[r].status = "ok") =>
                {row.content : row \in ratings'} = {req[r].content}
<1>1. ASSUME Types, RatingInv, MeetInv, [Next]_vars PROVE Whole
  <2> SUFFICES ASSUME NEW r \in Requests, At(r, "read"), req[r].kind = "put", ~overlapped,
                      req'[r] # Idle, req'[r].status = "ok"
               PROVE  {row.content : row \in ratings'} = {req[r].content}
    OBVIOUS
  <2>1. req[r] # Idle /\ req[r].step = "read" /\ req[r].status = "open" /\ req'[r] # req[r]
    BY <1>1 DEF At, MeetInv, OpenStatus
  <2>2. Serve(r)
    <3>1. ASSUME NEW s \in Requests, Serve(s) PROVE s = r
      BY <1>1, <2>1, <3>1, ServedTypes
    <3>2. ASSUME NEW s \in Requests, Receive(s) \/ Vanish(s) PROVE FALSE
      BY <1>1, <2>1, <3>2 DEF Receive, Vanish, Types, TypeOK
    <3>3. ASSUME NEW s \in Requests, NEW kind, NEW content, Send(s, kind, content) PROVE FALSE
      BY <1>1, <2>1, <3>3 DEF Send, Types, TypeOK
    <3>4. QED
      BY <1>1, <2>1, <3>1, <3>2, <3>3 DEF Next, Submit, Remove, NetworkError, Replay, DeleteRun, vars
  <2>3. ASSUME NEW st \in {"refused", "failed"}, Answer(r, st) PROVE FALSE
    BY <1>1, <2>1, <2>3, AnswerShape DEF Types
  <2>4. Replaced(r)
    BY <1>1, <2>1, <2>2, <2>3, ServedOutcome DEF Moved, Refused, Failed, Removed
  <2>5. run /\ SeenRow(r)
    BY <1>1, <2>4 DEF Replaced, MeetInv, SeenRows
  <2>6. ratings = {} \/ ratings = {req[r].seen}
    BY <2>5 DEF SeenRow
  <2>7. QED
    BY <2>4, <2>6 DEF Replaced
<1>2. Types /\ RatingInv /\ MeetInv /\ [Next]_vars => [Whole]_vars
  BY <1>1
<1>3. [][Whole]_vars => PutReplaces
  BY PTL DEF PutReplaces
<1>4. QED
  BY MeetHolds, <1>2, <1>3, PTL DEF Spec

-----------------------------------------------------------------------------
(* What the widget shows.  Until its request is acknowledged the rating is *)
(* the one shown; an acknowledgement on its way already tells the rating,  *)
(* and nothing else is open when the widget is at rest.                    *)

StoredVotes == {row.content.vote : row \in ratings}
After(q) == IF q.kind = "put" THEN {q.content.vote} ELSE {}
Acknowledged ==
  Mounted /\ widget.wait # None /\ req[widget.wait].step = "answered" /\ req[widget.wait].status = "ok"
ShownInv ==
  (~overlapped /\ run /\ Mounted) =>
    /\ widget.wait = None /\ widget.known => \A r \in Requests : req[r] = Idle
    /\ Acknowledged => StoredVotes = After(req[widget.wait])
    /\ widget.known /\ ~Acknowledged => StoredVotes = {widget.shown} \ {None}

LEMMA ShownSend ==
  ASSUME Types, RatingInv, MeetInv, ShownInv, NEW r \in Requests, NEW kind \in {"put", "delete"},
         NEW content \in Contents \cup {None}, kind = "put" => content \in Contents,
         Mounted, widget.wait = None, Send(r, kind, content)
  PROVE  ShownInv'
<1>1. /\ UNCHANGED <<run, ratings>> /\ req'[r].step = "sent" /\ widget'.wait = r
      /\ widget'.known = widget.known /\ widget'.shown = widget.shown
      /\ overlapped' = (overlapped \/ GivenUp # {})
  BY SendShape
<1>2. ~overlapped' => ~overlapped
  BY <1>1, Zenon
<1>3. ~Acknowledged /\ ~Acknowledged'
  BY <1>1 DEF Acknowledged
<1>4. StoredVotes' = StoredVotes /\ widget'.wait # None
  BY <1>1, Shapes DEF StoredVotes
<1>5. QED
  BY <1>1, <1>2, <1>3, <1>4 DEF ShownInv

LEMMA ShownReceive ==
  ASSUME Types, RatingInv, MeetInv, ShownInv, NEW r \in Requests, Receive(r)
  PROVE  ShownInv'
<1> SUFFICES ASSUME ~overlapped, run PROVE ShownInv'
  BY ReceiveShape DEF ShownInv
<1>1. /\ Mounted /\ widget.wait = r /\ req[r] \in OpenRequest /\ req[r].step = "answered"
      /\ widget'.wait = None /\ r # None
      /\ req' = [req EXCEPT ![r] = Idle] /\ UNCHANGED <<run, ratings, overlapped>>
  BY ReceiveShape, Shapes
<1>2. \A s \in Requests : req'[s] = Idle
  <2>1. req[r] # Idle /\ \A s \in Requests : s # r => req[s] = Idle
    BY <1>1, Shapes DEF MeetInv, Alone
  <2>2. QED
    BY <1>1, <2>1 DEF Types, TypeOK
<1>3. ~Acknowledged' /\ StoredVotes' = StoredVotes
  BY <1>1 DEF Acknowledged, StoredVotes
<1>4. CASE req[r].status = "ok"
  <2>1. StoredVotes = After(req[r])
    BY <1>1, <1>4 DEF ShownInv, Acknowledged
  <2>2. widget'.shown = IF req[r].kind = "put" THEN req[r].content.vote ELSE None
    BY <1>4, ReceiveShape
  <2>3. req[r].kind = "put" => req[r].content.vote # None
    <3>1. req[r] # Idle
      BY <1>1, Shapes
    <3>2. req[r].kind = "put" => req[r].content \in Contents
      BY <3>1 DEF Types, PutHasContent
    <3>3. QED
      BY <3>2, Shapes DEF Contents, Votes
  <2>4. After(req[r]) = {widget'.shown} \ {None}
    BY <2>2, <2>3 DEF After
  <2>5. QED
    BY <1>2, <1>3, <2>1, <2>4 DEF ShownInv
<1>5. CASE req[r].status # "ok"
  <2>1. widget'.known = widget.known /\ widget'.shown = widget.shown /\ ~Acknowledged
    BY <1>1, <1>5, ReceiveShape DEF Acknowledged
  <2>2. QED
    BY <1>1, <1>2, <1>3, <2>1 DEF ShownInv
<1>6. QED
  BY <1>4, <1>5

LEMMA ShownServe ==
  ASSUME Types, RatingInv, MeetInv, ShownInv, NEW r \in Requests, Serve(r)
  PROVE  ShownInv'
<1>1. /\ UNCHANGED <<run, widget, overlapped>> /\ req[r] # Idle /\ req[r].step # "answered"
      /\ \A s \in Requests : s # r => req'[s] = req[s]
  BY ServedTypes, ServedShape DEF Types
<1> SUFFICES ASSUME ~overlapped, run, Mounted PROVE ShownInv'
  BY <1>1 DEF ShownInv, Mounted
<1>2. \A s \in Requests : s # r => req[s] = Idle
  BY <1>1 DEF MeetInv, Alone
<1>3. widget.wait = None \/ (widget.wait = r /\ r # None)
  BY <1>2, Shapes DEF Types, TypeOK, Mounted, Widget
<1>4. CASE widget.wait = None
  BY <1>1, <1>4 DEF ShownInv, Acknowledged, Mounted
<1>5. CASE widget.wait = r /\ r # None
  <2>1. Waits(r) /\ ~Acknowledged /\ SeenRow(r)
    BY <1>1, <1>5 DEF Waits, Acknowledged, MeetInv, SeenRows
  <2>2. ASSUME UNCHANGED ratings, ~Acknowledged' PROVE ShownInv'
    BY <1>1, <1>5, <2>1, <2>2 DEF ShownInv, Mounted, StoredVotes
  <2>3. ASSUME NEW st \in {"ok", "refused", "failed"}, Answer(r, st)
        PROVE  /\ req'[r].status = st /\ req'[r].step = "answered"
               /\ req'[r].kind = req[r].kind /\ req'[r].content = req[r].content
    BY <1>1, <2>1, <2>3, AnswerShape DEF Types
  <2>4. ASSUME Answer(r, "ok"), StoredVotes' = After(req[r]) PROVE ShownInv'
    <3>1. Acknowledged' /\ After(req'[r]) = After(req[r])
      BY <1>1, <1>5, <2>3, <2>4 DEF Acknowledged, Mounted, After
    <3>2. QED
      BY <1>1, <1>5, <2>4, <3>1 DEF ShownInv, Mounted
  <2>5. CASE Moved(r)
    <3>1. req'[r].step # "answered"
      BY <2>5 DEF Moved
    <3>2. QED
      BY <1>1, <1>5, <2>2, <2>5, <3>1 DEF Moved, Acknowledged
  <2>6. CASE Refused(r) \/ Failed(r)
    <3>1. req'[r].status # "ok"
      BY <2>3, <2>6 DEF Refused, Failed
    <3>2. QED
      BY <1>1, <1>5, <2>2, <2>6, <3>1 DEF Refused, Failed, Acknowledged
  <2>7. CASE Replaced(r)
    <3>1. {row.content : row \in ratings'} = {req[r].content}
      BY <2>1, <2>7 DEF Replaced, SeenRow
    <3>2. StoredVotes' = {req[r].content.vote}
      <4>1. StoredVotes' = {c.vote : c \in {row.content : row \in ratings'}}
        BY DEF StoredVotes
      <4>2. QED
        BY <3>1, <4>1
    <3>3. QED
      BY <2>4, <2>7, <3>2 DEF Replaced, After
  <2>8. CASE Removed(r)
    <3>1. ratings' = {}
      BY <2>1, <2>8, RemovedRow
    <3>2. QED
      BY <2>4, <2>8, <3>1 DEF Removed, After, StoredVotes
  <2>9. QED
    BY <2>5, <2>6, <2>7, <2>8, ServedOutcome
<1>6. QED
  BY <1>3, <1>4, <1>5

LEMMA ShownStep == Types /\ RatingInv /\ MeetInv /\ ShownInv /\ [Next]_vars => ShownInv'
<1> SUFFICES ASSUME Types, RatingInv, MeetInv, ShownInv, [Next]_vars PROVE ShownInv'
  OBVIOUS
<1>1. ASSUME NEW r \in Requests, NEW v \in Votes, NEW c \in Comments, Submit(r, v, c)
      PROVE  ShownInv'
  <2>1. [vote |-> v, comment |-> c] \in Contents
    BY DEF Contents
  <2>2. Mounted /\ widget.wait = None /\ Send(r, "put", [vote |-> v, comment |-> c])
    BY <1>1 DEF Submit, Ready
  <2>3. QED
    BY <2>1, <2>2, ShownSend
<1>2. ASSUME NEW r \in Requests, Remove(r) PROVE ShownInv'
  <2>1. Mounted /\ widget.wait = None /\ Send(r, "delete", None)
    BY <1>2 DEF Remove, Ready
  <2>2. QED
    BY <2>1, ShownSend
<1>3. ASSUME NEW r \in Requests, Vanish(r) PROVE ShownInv'
  <2>1. /\ UNCHANGED <<run, ratings, widget, overlapped>> /\ ~Waits(r)
        /\ req'[r] = Idle /\ \A s \in Requests : s # r => req'[s] = req[s]
    BY <1>3 DEF Vanish, GivenUp, Types, TypeOK
  <2>2. Mounted /\ widget.wait # None => req'[widget.wait] = req[widget.wait]
    BY <2>1 DEF Types, TypeOK, Widget, Waits, Mounted
  <2>3. Acknowledged' <=> Acknowledged
    BY <2>1, <2>2 DEF Acknowledged, Mounted
  <2>4. QED
    BY <2>1, <2>2, <2>3 DEF ShownInv, Mounted, StoredVotes, Acknowledged
<1>4. ASSUME NEW r \in Requests, NetworkError(r) PROVE ShownInv'
  BY <1>4, GiveUpShape DEF ShownInv, Acknowledged
<1>5. CASE Replay
  <2>1. UNCHANGED <<run, ratings, req, overlapped>>
    BY <1>5, ReplayShape
  <2>2. CASE widget' = widget
    BY <2>1, <2>2 DEF ShownInv, Acknowledged, Mounted, StoredVotes
  <2>3. CASE widget' = Closed
    BY <2>3 DEF ShownInv, Mounted
  <2>4. CASE widget'.wait = None /\ ~widget'.known
    BY <2>4 DEF ShownInv, Acknowledged
  <2>5. QED
    BY <1>5, <2>2, <2>3, <2>4, ReplayShape
<1>6. CASE DeleteRun
  BY <1>6 DEF DeleteRun, ShownInv
<1>7. CASE UNCHANGED vars
  BY <1>7 DEF vars, ShownInv, Acknowledged, Mounted, StoredVotes
<1>8. QED
  BY <1>1, <1>2, <1>3, <1>4, <1>5, <1>6, <1>7, ShownReceive, ShownServe DEF Next

(* A widget that knows the rating shows it, whatever is lost, refused,     *)
(* replayed or retried, unless a request met one it had given up.          *)
THEOREM WidgetIsRight == Spec => []WidgetShowsRating
<1>1. Init => ShownInv
  BY DEF Init, ShownInv, Fresh, Acknowledged
<1>2. Types /\ RatingInv /\ MeetInv /\ ShownInv => WidgetShowsRating
  BY DEF ShownInv, WidgetShowsRating, Acknowledged, StoredVotes
<1>3. QED
  BY <1>1, <1>2, InitInv, MeetHolds, ShownStep, PTL DEF Spec
=============================================================================
