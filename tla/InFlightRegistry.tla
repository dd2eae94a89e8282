--------------------------- MODULE InFlightRegistry ---------------------------
(***************************************************************************)
(* The registry of in-flight analyses and recent answers                   *)
(* (services/in_flight.py), the part of analyze() that uses it             *)
(* (services/control_plane.py:101-144) and the feedback token that every   *)
(* execution registers (persistence/feedback.py:51-68).                    *)
(*                                                                         *)
(* One event loop: what lies between two awaits is one step.  A future has *)
(* the number of the execution that created it, and so have the answer and *)
(* the token of that execution.  A waiter that its future has resolved     *)
(* goes on in a later step, and its timer may fire before it does.         *)
(***************************************************************************)
EXTENDS Integers, FiniteSets

CONSTANTS
  Clients,     \* requests that are being served
  Hashes,      \* in_flight_key: idempotency key and fingerprint
  Executions,  \* bound: executions ever started
  CacheTTL,    \* cache_ttl_seconds, in ticks
  MaxEntries,  \* MAX_CACHE_ENTRIES
  MaxTime      \* bound: the last tick of the clock

ASSUME HashesAssumption == IsFiniteSet(Hashes)
ASSUME BoundsAssumption ==
  /\ Executions \in Nat /\ CacheTTL \in Nat /\ MaxTime \in Nat
  /\ MaxEntries \in Nat /\ MaxEntries >= 2

VARIABLES
  futures,  \* _futures: the execution registered for a hash, 0 if none
  outcome,  \* of each execution: the state of its future
  cache,    \* _cache: [at, answer] of a hash
  token,    \* feedback_token_hash of the analysis of a hash, 0 if none
  client,   \* where each request stands in analyze()
  started,  \* executions started so far
  clock     \* monotonic()

registry == <<futures, outcome, cache>>
vars == <<registry, token, client, started, clock>>
-----------------------------------------------------------------------------
Ids == 1 .. Executions
NoEntry == [at |-> -1, answer |-> 0]
Entry == [at : 0 .. MaxTime, answer : Ids]
Idle == [step |-> "idle"]
Busy == [step : {"execute", "respond", "wait"}, hash : Hashes, id : Ids]

TypeOK ==
  /\ futures \in [Hashes -> Ids \cup {0}]
  /\ outcome \in [Ids -> {"none", "pending", "answer", "error"}]
  /\ cache \in [Hashes -> Entry \cup {NoEntry}]
  /\ token \in [Hashes -> Ids \cup {0}]
  /\ client \in [Clients -> Busy \cup {Idle}]
  /\ started \in 0 .. Executions
  /\ clock \in 0 .. MaxTime

Init ==
  /\ futures = [h \in Hashes |-> 0]
  /\ outcome = [e \in Ids |-> "none"]
  /\ cache = [h \in Hashes |-> NoEntry]
  /\ token = [h \in Hashes |-> 0]
  /\ client = [c \in Clients |-> Idle]
  /\ started = 0
  /\ clock = 0

Cached(h) == cache[h] # NoEntry
Stale(h) == clock - cache[h].at > CacheTTL
Enter(c, step, h, id) ==
  client' = [client EXCEPT ![c] = [step |-> step, hash |-> h, id |-> id]]
Leave(c) == client' = [client EXCEPT ![c] = Idle]
Owns(c) == client[c].step \in {"execute", "respond"}
-----------------------------------------------------------------------------
(* analyze(): from the cache lookup to the first await.                    *)

\* get_response returns an entry that is young enough, which ends the request
\* and changes nothing, and drops any other.
Miss(h) == Cached(h) => Stale(h)

\* Mutant: an entry that is too old is ignored, not dropped.
IgnoreEntry(h) == h \in Hashes /\ cache' = cache

Forget(h) == cache' = [cache EXCEPT ![h] = NoEntry]

Join(c, h) ==
  /\ client[c] = Idle /\ Miss(h)
  /\ futures[h] # 0
  /\ Forget(h)
  /\ Enter(c, "wait", h, futures[h])
  /\ UNCHANGED <<futures, outcome, token, started, clock>>

\* Mutant: the registered future is not looked at.
RegisterBlindly(c, h) ==
  /\ client[c] = Idle /\ Miss(h)
  /\ started < Executions
  /\ Forget(h)
  /\ started' = started + 1
  /\ futures' = [futures EXCEPT ![h] = started + 1]
  /\ outcome' = [outcome EXCEPT ![started + 1] = "pending"]
  /\ Enter(c, "execute", h, started + 1)
  /\ UNCHANGED <<token, clock>>

Register(c, h) ==
  /\ client[c] = Idle /\ Miss(h)
  /\ futures[h] = 0
  /\ started < Executions
  /\ Forget(h)
  /\ started' = started + 1
  /\ futures' = [futures EXCEPT ![h] = started + 1]
  /\ outcome' = [outcome EXCEPT ![started + 1] = "pending"]
  /\ Enter(c, "execute", h, started + 1)
  /\ UNCHANGED <<token, clock>>
-----------------------------------------------------------------------------
(* The owner: _execute(), then the answer or the error.                    *)

\* The last await of an execution or a replay that succeeds: the token of
\* its answer replaces any earlier one.
RegisterToken(c) ==
  /\ client[c].step = "execute"
  /\ token' = [token EXCEPT ![client[c].hash] = client[c].id]
  /\ client' = [client EXCEPT ![c].step = "respond"]
  /\ UNCHANGED <<registry, started, clock>>

\* _prune_cache: a full cache loses its older half.
Full == Cardinality({h \in Hashes : Cached(h)}) >= MaxEntries
Oldest(dropped) ==
  /\ Cardinality(dropped) = MaxEntries \div 2
  /\ \A h \in dropped : Cached(h)
  /\ \A h \in dropped, g \in Hashes \ dropped : Cached(g) => cache[h].at <= cache[g].at
Pruned(dropped) == IF Full THEN Oldest(dropped) ELSE dropped = {}

Resolve(id, result) == outcome' = [outcome EXCEPT ![id] = result]
Remove(h, id) == futures' = IF futures[h] = id THEN [futures EXCEPT ![h] = 0] ELSE futures

\* store_response and remove_future, with no await between them.
Respond(c, dropped) ==
  LET h == client[c].hash
      id == client[c].id
  IN  /\ client[c].step = "respond"
      /\ Pruned(dropped)
      /\ cache' = [g \in Hashes |-> IF g = h THEN [at |-> clock, answer |-> id]
                                    ELSE IF g \in dropped THEN NoEntry ELSE cache[g]]
      /\ Resolve(id, "answer")
      /\ Remove(h, id)
      /\ Leave(c)
      /\ UNCHANGED <<token, started, clock>>

\* Mutants: an error leaves the future registered, or does not resolve it.
FailRegistered(c) ==
  /\ Owns(c)
  /\ Leave(c)
  /\ UNCHANGED <<registry, token, started, clock>>
FailQuietly(c) ==
  /\ Owns(c)
  /\ Remove(client[c].hash, client[c].id)
  /\ Leave(c)
  /\ UNCHANGED <<outcome, cache, token, started, clock>>

\* The execution raises, or its request is cancelled: fail_future and
\* remove_future.  The token may already be registered.
Fail(c) ==
  /\ Owns(c)
  /\ Resolve(client[c].id, "error")
  /\ Remove(client[c].hash, client[c].id)
  /\ Leave(c)
  /\ UNCHANGED <<cache, token, started, clock>>
-----------------------------------------------------------------------------
(* A waiter: asyncio.wait_for over a shield.                               *)

Wake(c) ==
  /\ client[c].step = "wait"
  /\ outcome[client[c].id] \in {"answer", "error"}
  /\ Leave(c)
  /\ UNCHANGED <<registry, token, started, clock>>

\* The timer fires, or the client goes away: the future is not touched.
GiveUp(c) ==
  /\ client[c].step = "wait"
  /\ Leave(c)
  /\ UNCHANGED <<registry, token, started, clock>>

\* A new process has an empty registry and no requests.
Restart ==
  /\ futures' = [h \in Hashes |-> 0]
  /\ cache' = [h \in Hashes |-> NoEntry]
  /\ client' = [c \in Clients |-> Idle]
  /\ UNCHANGED <<outcome, token, started, clock>>

Tick ==
  /\ clock < MaxTime
  /\ clock' = clock + 1
  /\ UNCHANGED <<registry, token, client, started>>

OwnerStep(c) ==
  RegisterToken(c) \/ (\E dropped \in SUBSET Hashes : Respond(c, dropped)) \/ Fail(c)

Next ==
  \/ \E c \in Clients, h \in Hashes : Join(c, h) \/ Register(c, h)
  \/ \E c \in Clients : OwnerStep(c) \/ Wake(c) \/ GiveUp(c)
  \/ Restart
  \/ Tick

Spec == Init /\ [][Next]_vars

\* The provider calls of an execution have timeouts (services/rag_context.py:76-81,
\* services/rag_analysis.py:63-73), so owners end; the event loop runs what is
\* ready.  The timers of waiters are not needed.
FairSpec ==
  Spec /\ \A c \in Clients : WF_vars(OwnerStep(c)) /\ WF_vars(Wake(c))
-----------------------------------------------------------------------------
(* What the registry promises.                                             *)

\* No two requests execute the same analysis at once, however executions,
\* failures, expiry and pruning of answers interleave (in_flight.py:35-48,
\* control_plane.py:105-127).
OneExecutionPerHash ==
  \A c, d \in Clients :
    c # d /\ Owns(c) /\ Owns(d) => client[c].hash # client[d].hash

\* Nobody waits for an analysis that no request is running: a registered
\* future has its owner, and a waiter's future is registered or resolved
\* (in_flight.py:61-80, control_plane.py:127-144).
WaitsForSomeone ==
  \A c \in Clients :
    client[c].step = "wait" /\ outcome[client[c].id] = "pending" =>
      \E d \in Clients : Owns(d) /\ client[d].id = client[c].id

\* The answer a retry gets from the cache holds the feedback token that is
\* registered: no execution replaced the token while the answer was cached
\* (in_flight.py:6-8, feedback.py:62-68).
CachedTokenWorks == \A h \in Hashes : Cached(h) => token[h] = cache[h].answer

\* The cache stays within its bound (in_flight.py:82-87).
CacheBounded == Cardinality({h \in Hashes : Cached(h)}) <= MaxEntries

\* A request that waits is answered, even if nobody's timer fires and
\* whatever becomes of the owner (control_plane.py:128-144).
WaiterIsServed ==
  \A c \in Clients : client[c].step = "wait" ~> client[c].step # "wait"
=============================================================================
