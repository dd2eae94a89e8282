------------------------ MODULE InFlightRegistryProofs ------------------------
(***************************************************************************)
(* Proofs about InFlightRegistry: no analysis is executed twice at once,   *)
(* nobody waits for an analysis that no one runs, and a cached answer      *)
(* holds the registered feedback token.                                    *)
(***************************************************************************)
EXTENDS InFlightRegistry, FiniteSetTheorems, TLAPS

\* Executions are numbered in the order in which they started.
Numbered ==
  /\ \A e \in Ids : outcome[e] = "none" <=> e > started
  /\ \A c \in Clients : client[c] # Idle => client[c].id <= started
  /\ \A c, d \in Clients : c # d /\ Owns(c) /\ Owns(d) => client[c].id # client[d].id

\* The future of an owner is pending and registered, and no answer is cached.
OwnerRegistered ==
  \A c \in Clients : Owns(c) =>
    /\ futures[client[c].hash] = client[c].id
    /\ outcome[client[c].id] = "pending"
    /\ cache[client[c].hash] = NoEntry

\* What is registered belongs to an owner.
RegisteredIsOwned ==
  \A h \in Hashes : futures[h] # 0 =>
    \E c \in Clients : Owns(c) /\ client[c].hash = h /\ client[c].id = futures[h]

RegistryInv ==
  TypeOK /\ Numbered /\ OwnerRegistered /\ RegisteredIsOwned /\ WaitsForSomeone
-----------------------------------------------------------------------------
\* A hash that is being executed has one owner.
LEMMA OwnersApart ==
  ASSUME OwnerRegistered, Numbered, NEW c \in Clients, NEW d \in Clients,
         Owns(c), Owns(d), client[c].hash = client[d].hash
  PROVE  c = d
BY DEF OwnerRegistered, Numbered

\* The step of a client that is not idle.
LEMMA BusyShape ==
  ASSUME TypeOK, NEW c \in Clients, client[c] # Idle
  PROVE  client[c] \in Busy
BY DEF TypeOK

LEMMA InitRegistry == Init => RegistryInv
<1> SUFFICES ASSUME Init PROVE RegistryInv OBVIOUS
<1> USE BoundsAssumption
<1>1. TypeOK BY DEF Init, TypeOK, Ids
<1>2. \A c \in Clients : client[c] = Idle /\ ~Owns(c) BY DEF Init, Owns, Idle
<1>3. QED BY <1>1, <1>2 DEF Init, RegistryInv, Numbered, OwnerRegistered,
             RegisteredIsOwned, WaitsForSomeone, Ids, Idle

LEMMA JoinRegistry ==
  ASSUME RegistryInv, NEW c \in Clients, NEW h \in Hashes, Join(c, h)
  PROVE  RegistryInv'
<1> USE DEF RegistryInv
<1>1. client' = [client EXCEPT ![c] = [step |-> "wait", hash |-> h, id |-> futures[h]]]
  BY DEF Join, Enter
<1>2. cache' = [cache EXCEPT ![h] = NoEntry] BY DEF Join, Forget
<1>3. UNCHANGED <<futures, outcome, token, started, clock>> BY DEF Join
<1>4. client[c] = Idle /\ futures[h] \in Ids BY DEF Join, TypeOK
<1>5. TypeOK' BY <1>1, <1>2, <1>3, <1>4 DEF TypeOK, Busy
<1>6. \A d \in Clients : Owns(d)' <=> Owns(d)
  BY <1>1, <1>4 DEF Owns, Idle, TypeOK
<1>7. \A d \in Clients : Owns(d) => client'[d] = client[d]
  BY <1>1, <1>4 DEF Owns, Idle, TypeOK
<1>8. PICK o \in Clients : Owns(o) /\ client[o].hash = h /\ client[o].id = futures[h]
  BY <1>4 DEF Join, RegisteredIsOwned
<1>9. outcome[futures[h]] = "pending" BY <1>8 DEF OwnerRegistered
<1>10. Numbered'
  BY <1>1, <1>3, <1>4, <1>6, <1>7, <1>9, BoundsAssumption DEF Numbered, TypeOK, Ids
<1>11. OwnerRegistered'
  BY <1>2, <1>3, <1>6, <1>7, BusyShape DEF OwnerRegistered, TypeOK, Owns, Idle, Busy
<1>12. RegisteredIsOwned' BY <1>3, <1>6, <1>7 DEF RegisteredIsOwned
<1>13. WaitsForSomeone'
  BY <1>1, <1>3, <1>6, <1>7, <1>8 DEF WaitsForSomeone, TypeOK
<1>14. QED BY <1>5, <1>10, <1>11, <1>12, <1>13

LEMMA RegisterRegistry ==
  ASSUME RegistryInv, NEW c \in Clients, NEW h \in Hashes, Register(c, h)
  PROVE  RegistryInv'
<1> USE DEF RegistryInv
<1> DEFINE e == started + 1
<1>1. client' = [client EXCEPT ![c] = [step |-> "execute", hash |-> h, id |-> e]]
  BY DEF Register, Enter
<1>2. /\ cache' = [cache EXCEPT ![h] = NoEntry]
      /\ futures' = [futures EXCEPT ![h] = e]
      /\ outcome' = [outcome EXCEPT ![e] = "pending"]
      /\ started' = e
  BY DEF Register, Forget
<1>3. UNCHANGED <<token, clock>> BY DEF Register
<1>4. client[c] = Idle /\ futures[h] = 0 /\ started \in 0 .. Executions /\ e \in Ids /\ e > started
  BY BoundsAssumption DEF Register, TypeOK, Ids
<1>5. TypeOK'
  <2>1. client' \in [Clients -> Busy \cup {Idle}]
    <3>1. [step |-> "execute", hash |-> h, id |-> e] \in Busy BY <1>4 DEF Busy
    <3>2. QED BY <1>1, <3>1 DEF TypeOK
  <2>2. outcome' \in [Ids -> {"none", "pending", "answer", "error"}] BY <1>2 DEF TypeOK
  <2>3. started' \in 0 .. Executions BY <1>2, <1>4, BoundsAssumption DEF Ids
  <2>4. futures' \in [Hashes -> Ids \cup {0}] BY <1>2, <1>4 DEF TypeOK
  <2>5. cache' \in [Hashes -> Entry \cup {NoEntry}] BY <1>2 DEF TypeOK
  <2>6. QED BY <2>1, <2>2, <2>3, <2>4, <2>5, <1>3 DEF TypeOK
<1>6. \A d \in Clients : d # c => client'[d] = client[d] BY <1>1 DEF TypeOK
<1>7. client'[c] = [step |-> "execute", hash |-> h, id |-> e] BY <1>1 DEF TypeOK
<1>8. ~Owns(c) BY <1>4 DEF Owns, Idle
<1>9. \A d \in Clients : Owns(d) => client[d].hash # h
  <2> SUFFICES ASSUME NEW d \in Clients, Owns(d), client[d].hash = h PROVE FALSE OBVIOUS
  <2>1. futures[h] = client[d].id BY DEF OwnerRegistered
  <2>2. client[d] \in Busy BY BusyShape DEF Owns, Idle
  <2>3. client[d].id \in Ids BY <2>2 DEF Busy
  <2>4. QED BY <2>1, <2>3, <1>4, BoundsAssumption DEF Ids
<1>10. \A d \in Clients : client[d] # Idle => client[d].id # e
  BY <1>4 DEF Numbered
<1>11. \A d \in Clients : d # c => (Owns(d)' <=> Owns(d)) BY <1>6 DEF Owns
<1>12. Numbered'
  <2>1. (\A i \in Ids : outcome[i] = "none" <=> i > started)'
    BY <1>2, <1>4 DEF Numbered, TypeOK, Ids
  <2>2. (\A d \in Clients : client[d] # Idle => client[d].id <= started)'
    BY <1>2, <1>4, <1>6, <1>7, BusyShape DEF Numbered, Busy, Ids
  <2>3. (\A a, b \in Clients : a # b /\ Owns(a) /\ Owns(b) => client[a].id # client[b].id)'
    <3> SUFFICES ASSUME NEW a \in Clients, NEW b \in Clients, a # b, Owns(a)', Owns(b)'
                 PROVE  client'[a].id # client'[b].id
      OBVIOUS
    <3>1. CASE a = c BY <3>1, <1>6, <1>7, <1>10, <1>11 DEF Owns, Idle
    <3>2. CASE b = c BY <3>2, <1>6, <1>7, <1>10, <1>11 DEF Owns, Idle
    <3>3. CASE a # c /\ b # c BY <3>3, <1>6, <1>11 DEF Numbered
    <3>4. QED BY <3>1, <3>2, <3>3
  <2>4. QED BY <2>1, <2>2, <2>3 DEF Numbered
<1>13. OwnerRegistered'
  <2> SUFFICES ASSUME NEW d \in Clients, Owns(d)'
               PROVE  /\ futures'[client'[d].hash] = client'[d].id
                      /\ outcome'[client'[d].id] = "pending"
                      /\ cache'[client'[d].hash] = NoEntry
    BY DEF OwnerRegistered
  <2>1. CASE d = c BY <2>1, <1>2, <1>4, <1>7 DEF TypeOK
  <2>2. CASE d # c
    <3>1. Owns(d) /\ client'[d] = client[d] BY <2>2, <1>6, <1>11
    <3>2. client[d] \in Busy BY <3>1, BusyShape DEF Owns, Idle
    <3>3. client[d].hash # h /\ client[d].id # e BY <3>1, <1>9, <1>10 DEF Owns, Idle
    <3>4. QED BY <3>1, <3>2, <3>3, <1>2 DEF OwnerRegistered, TypeOK, Busy
  <2>3. QED BY <2>1, <2>2
<1>14. RegisteredIsOwned'
  <2> SUFFICES ASSUME NEW g \in Hashes, futures'[g] # 0
               PROVE  \E d \in Clients : Owns(d)' /\ client'[d].hash = g /\ client'[d].id = futures'[g]
    BY DEF RegisteredIsOwned
  <2>1. CASE g = h BY <2>1, <1>2, <1>7 DEF Owns, TypeOK
  <2>2. CASE g # h
    <3>1. futures'[g] = futures[g] BY <2>2, <1>2 DEF TypeOK
    <3>2. PICK d \in Clients : Owns(d) /\ client[d].hash = g /\ client[d].id = futures[g]
      BY <3>1 DEF RegisteredIsOwned
    <3>3. QED BY <3>1, <3>2, <1>6, <1>8, <1>11
  <2>3. QED BY <2>1, <2>2
<1>15. WaitsForSomeone'
  <2> SUFFICES ASSUME NEW d \in Clients, client'[d].step = "wait", outcome'[client'[d].id] = "pending"
               PROVE  \E o \in Clients : Owns(o)' /\ client'[o].id = client'[d].id
    BY DEF WaitsForSomeone
  <2>1. d # c /\ client'[d] = client[d] BY <1>6, <1>7
  <2>2. client[d] \in Busy /\ client[d].id # e
    BY <2>1, <1>10, BusyShape DEF Idle
  <2>3. outcome[client[d].id] = "pending" BY <2>1, <2>2, <1>2 DEF TypeOK, Busy
  <2>4. PICK o \in Clients : Owns(o) /\ client[o].id = client[d].id
    BY <2>1, <2>3 DEF WaitsForSomeone
  <2>5. QED BY <2>1, <2>4, <1>6, <1>8, <1>11
<1>16. QED BY <1>5, <1>12, <1>13, <1>14, <1>15

LEMMA TokenRegistry ==
  ASSUME RegistryInv, NEW c \in Clients, RegisterToken(c)
  PROVE  RegistryInv'
<1> USE DEF RegistryInv
<1>1. client[c].step = "execute" /\ client[c] \in Busy
  BY BusyShape DEF RegisterToken, Idle
<1>2. client' = [client EXCEPT ![c].step = "respond"] BY DEF RegisterToken
<1>3. client'[c] = [step |-> "respond", hash |-> client[c].hash, id |-> client[c].id]
  BY <1>1, <1>2 DEF TypeOK, Busy
<1>4. \A d \in Clients : d # c => client'[d] = client[d] BY <1>2 DEF TypeOK
<1>5. UNCHANGED <<futures, outcome, cache, started, clock>> BY DEF RegisterToken, registry
<1>6. \A d \in Clients : /\ Owns(d)' <=> Owns(d)
                         /\ Owns(d) => client'[d].hash = client[d].hash /\ client'[d].id = client[d].id
  BY <1>1, <1>3, <1>4 DEF Owns
<1>7. TypeOK'
  <2>1. client' \in [Clients -> Busy \cup {Idle}] BY <1>1, <1>2, <1>3, <1>4 DEF TypeOK, Busy
  <2>2. token' \in [Hashes -> Ids \cup {0}] BY <1>1 DEF RegisterToken, TypeOK, Busy
  <2>3. QED BY <2>1, <2>2, <1>5 DEF TypeOK
<1>8. Numbered' BY <1>1, <1>3, <1>4, <1>5, <1>6 DEF Numbered, Idle
<1>9. OwnerRegistered' BY <1>5, <1>6 DEF OwnerRegistered
<1>10. RegisteredIsOwned' BY <1>5, <1>6 DEF RegisteredIsOwned
<1>11. WaitsForSomeone' BY <1>3, <1>4, <1>5, <1>6 DEF WaitsForSomeone
<1>12. QED BY <1>7, <1>8, <1>9, <1>10, <1>11
\* An owner leaves: its future is resolved and no longer registered.
LEMMA OwnerLeaves ==
  ASSUME RegistryInv, NEW c \in Clients, Owns(c),
         NEW result \in {"answer", "error"}, Resolve(client[c].id, result),
         Remove(client[c].hash, client[c].id), Leave(c),
         UNCHANGED <<token, started, clock>>,
         cache' \in [Hashes -> Entry \cup {NoEntry}],
         \A g \in Hashes : g # client[c].hash => cache'[g] \in {cache[g], NoEntry}
  PROVE  RegistryInv'
<1> USE DEF RegistryInv
<1> DEFINE h == client[c].hash
           i == client[c].id
<1>1. client[c] \in Busy BY BusyShape DEF Owns, Idle
<1>2. h \in Hashes /\ i \in Ids BY <1>1 DEF Busy
<1>3. futures[h] = i /\ outcome[i] = "pending" BY DEF OwnerRegistered
<1>4. futures' = [futures EXCEPT ![h] = 0] BY <1>3 DEF Remove
<1>5. outcome' = [outcome EXCEPT ![i] = result] BY DEF Resolve
<1>6. client'[c] = Idle BY DEF Leave, TypeOK
<1>7. \A d \in Clients : d # c => client'[d] = client[d] BY DEF Leave, TypeOK
<1>8. ~Owns(c)' BY <1>6 DEF Owns, Idle
<1>9. \A d \in Clients : Owns(d)' <=> d # c /\ Owns(d) BY <1>7, <1>8 DEF Owns
<1>10. \A d \in Clients : d # c /\ Owns(d) => client[d].hash # h /\ client[d].id # i
  BY OwnersApart DEF Numbered
<1>11. TypeOK'
  <2>1. client' \in [Clients -> Busy \cup {Idle}] BY DEF Leave, TypeOK
  <2>2. outcome' \in [Ids -> {"none", "pending", "answer", "error"}] BY <1>5 DEF TypeOK
  <2>3. futures' \in [Hashes -> Ids \cup {0}] BY <1>4 DEF TypeOK
  <2>4. QED BY <2>1, <2>2, <2>3 DEF TypeOK
<1>12. Numbered'
  <2>1. (\A e \in Ids : outcome[e] = "none" <=> e > started)'
    BY <1>2, <1>3, <1>5 DEF Numbered, TypeOK
  <2>2. (\A d \in Clients : client[d] # Idle => client[d].id <= started)'
    BY <1>6, <1>7 DEF Numbered
  <2>3. (\A a, b \in Clients : a # b /\ Owns(a) /\ Owns(b) => client[a].id # client[b].id)'
    BY <1>7, <1>9 DEF Numbered
  <2>4. QED BY <2>1, <2>2, <2>3 DEF Numbered
<1>13. OwnerRegistered'
  <2> SUFFICES ASSUME NEW d \in Clients, d # c, Owns(d)
               PROVE  /\ futures'[client'[d].hash] = client'[d].id
                      /\ outcome'[client'[d].id] = "pending"
                      /\ cache'[client'[d].hash] = NoEntry
    BY <1>9 DEF OwnerRegistered
  <2>1. client'[d] = client[d] /\ client[d].hash # h /\ client[d].id # i BY <1>7, <1>10
  <2>2. client[d] \in Busy BY BusyShape DEF Owns, Idle
  <2>3. client[d].hash \in Hashes /\ client[d].id \in Ids BY <2>2 DEF Busy
  <2>4. futures[client[d].hash] = client[d].id /\ outcome[client[d].id] = "pending"
        /\ cache[client[d].hash] = NoEntry
    BY DEF OwnerRegistered
  <2>5. QED BY <2>1, <2>3, <2>4, <1>4, <1>5 DEF TypeOK
<1>14. RegisteredIsOwned'
  <2> SUFFICES ASSUME NEW g \in Hashes, futures'[g] # 0
               PROVE  \E d \in Clients : Owns(d)' /\ client'[d].hash = g /\ client'[d].id = futures'[g]
    BY DEF RegisteredIsOwned
  <2>1. g # h /\ futures'[g] = futures[g] BY <1>4 DEF TypeOK
  <2>2. PICK d \in Clients : Owns(d) /\ client[d].hash = g /\ client[d].id = futures[g]
    BY <2>1 DEF RegisteredIsOwned
  <2>3. d # c BY <2>1, <2>2
  <2>4. QED BY <2>1, <2>2, <2>3, <1>7, <1>9
<1>15. WaitsForSomeone'
  <2> SUFFICES ASSUME NEW d \in Clients, client'[d].step = "wait", outcome'[client'[d].id] = "pending"
               PROVE  \E o \in Clients : Owns(o)' /\ client'[o].id = client'[d].id
    BY DEF WaitsForSomeone
  <2>1. d # c /\ client'[d] = client[d] BY <1>6, <1>7 DEF Idle
  <2>2. client[d] \in Busy BY <2>1, BusyShape DEF Idle
  <2>3. client[d].id \in Ids BY <2>2 DEF Busy
  <2>4. client[d].id # i /\ outcome[client[d].id] = "pending"
    BY <2>1, <2>3, <1>2, <1>5 DEF TypeOK
  <2>5. PICK o \in Clients : Owns(o) /\ client[o].id = client[d].id
    BY <2>1, <2>4 DEF WaitsForSomeone
  <2>6. o # c BY <2>4, <2>5
  <2>7. QED BY <2>1, <2>5, <2>6, <1>7, <1>9
<1>16. QED BY <1>11, <1>12, <1>13, <1>14, <1>15

LEMMA RespondRegistry ==
  ASSUME RegistryInv, NEW c \in Clients, NEW dropped \in SUBSET Hashes, Respond(c, dropped)
  PROVE  RegistryInv'
<1> USE DEF RegistryInv
<1>1. Owns(c) BY DEF Respond, Owns
<1>2. client[c] \in Busy BY <1>1, BusyShape DEF Owns, Idle
<1>3. [at |-> clock, answer |-> client[c].id] \in Entry BY <1>2 DEF Entry, Busy, TypeOK
<1>4. cache' \in [Hashes -> Entry \cup {NoEntry}] BY <1>3 DEF Respond, TypeOK
<1>5. \A g \in Hashes : g # client[c].hash => cache'[g] \in {cache[g], NoEntry}
  BY DEF Respond
<1>6. QED BY <1>1, <1>4, <1>5, OwnerLeaves DEF Respond

LEMMA FailRegistry ==
  ASSUME RegistryInv, NEW c \in Clients, Fail(c)
  PROVE  RegistryInv'
<1>1. Owns(c) /\ cache' = cache BY DEF Fail
<1>2. cache' \in [Hashes -> Entry \cup {NoEntry}] BY <1>1 DEF RegistryInv, TypeOK
<1>3. QED BY <1>1, <1>2, OwnerLeaves DEF Fail

\* A waiter leaves.
LEMMA WaiterRegistry ==
  ASSUME RegistryInv, NEW c \in Clients, Wake(c) \/ GiveUp(c)
  PROVE  RegistryInv'
<1> USE DEF RegistryInv
<1>1. client[c].step = "wait" /\ Leave(c) /\ UNCHANGED <<registry, token, started, clock>>
  BY DEF Wake, GiveUp
<1>2. client'[c] = Idle BY <1>1 DEF Leave, TypeOK
<1>3. \A d \in Clients : d # c => client'[d] = client[d] BY <1>1 DEF Leave, TypeOK
<1>4. UNCHANGED <<futures, outcome, cache, started, clock, token>> BY <1>1 DEF registry
<1>5. \A d \in Clients : /\ Owns(d)' <=> Owns(d)
                         /\ Owns(d) => client'[d] = client[d]
  BY <1>1, <1>2, <1>3 DEF Owns, Idle
<1>6. TypeOK' BY <1>1, <1>4 DEF TypeOK, Leave
<1>7. Numbered' BY <1>2, <1>3, <1>4, <1>5 DEF Numbered
<1>8. OwnerRegistered' BY <1>4, <1>5 DEF OwnerRegistered
<1>9. RegisteredIsOwned' BY <1>4, <1>5 DEF RegisteredIsOwned
<1>10. WaitsForSomeone'
  <2> SUFFICES ASSUME NEW d \in Clients, client'[d].step = "wait", outcome'[client'[d].id] = "pending"
               PROVE  \E o \in Clients : Owns(o)' /\ client'[o].id = client'[d].id
    BY DEF WaitsForSomeone
  <2>1. client'[d] = client[d] BY <1>2, <1>3 DEF Idle
  <2>2. PICK o \in Clients : Owns(o) /\ client[o].id = client[d].id
    BY <2>1, <1>4 DEF WaitsForSomeone
  <2>3. QED BY <2>1, <2>2, <1>5
<1>11. QED BY <1>6, <1>7, <1>8, <1>9, <1>10

LEMMA RestartRegistry == RegistryInv /\ Restart => RegistryInv'
<1> SUFFICES ASSUME RegistryInv, Restart PROVE RegistryInv' OBVIOUS
<1> USE DEF RegistryInv
<1>1. \A c \in Clients : client'[c] = Idle /\ ~Owns(c)' BY DEF Restart, Owns, Idle
<1>2. TypeOK' BY DEF Restart, TypeOK
<1>3. Numbered' BY <1>1 DEF Numbered, Restart
<1>4. QED BY <1>1, <1>2, <1>3 DEF OwnerRegistered, RegisteredIsOwned, WaitsForSomeone, Restart, Idle

\* Time touches neither the registry nor the requests.
LEMMA TickRegistry == RegistryInv /\ (Tick \/ UNCHANGED vars) => RegistryInv'
<1> SUFFICES ASSUME RegistryInv, Tick \/ UNCHANGED vars PROVE RegistryInv' OBVIOUS
<1> USE DEF RegistryInv
<1>1. UNCHANGED <<futures, outcome, cache, token, client, started>> BY DEF Tick, vars, registry
<1>2. clock' \in 0 .. MaxTime BY BoundsAssumption DEF Tick, vars, TypeOK
<1>3. TypeOK' BY <1>1, <1>2 DEF TypeOK
<1>4. \A c \in Clients : Owns(c)' <=> Owns(c) BY <1>1 DEF Owns
<1>5. QED BY <1>1, <1>3, <1>4 DEF Numbered, OwnerRegistered, RegisteredIsOwned, WaitsForSomeone

\* The inductive invariant of the registry holds in every reachable state.
THEOREM RegistryInductive == Spec => []RegistryInv
<1>1. RegistryInv /\ [Next]_vars => RegistryInv'
  BY JoinRegistry, RegisterRegistry, TokenRegistry, RespondRegistry, FailRegistry,
     WaiterRegistry, RestartRegistry, TickRegistry DEF Next, OwnerStep
<1>2. QED BY InitRegistry, <1>1, PTL DEF Spec

\* Every value has its type: futures, answers, tokens and waiters name
\* executions (in_flight.py:26-33).
THEOREM RegistryTypeCorrect == Spec => []TypeOK
<1>1. RegistryInv => TypeOK BY DEF RegistryInv
<1>2. QED BY RegistryInductive, <1>1, PTL

\* No two requests execute the same analysis at once: an execution is
\* registered until its owner leaves, and a second request finds it
\* (in_flight.py:35-48, control_plane.py:109-127).
THEOREM OneExecution == Spec => []OneExecutionPerHash
<1>1. RegistryInv => OneExecutionPerHash
  BY OwnersApart DEF RegistryInv, OneExecutionPerHash
<1>2. QED BY RegistryInductive, <1>1, PTL

\* A request that waits for a pending future waits for one an owner will
\* resolve (control_plane.py:127-144).
THEOREM NobodyWaitsInVain == Spec => []WaitsForSomeone
<1>1. RegistryInv => WaitsForSomeone BY DEF RegistryInv
<1>2. QED BY RegistryInductive, <1>1, PTL
-----------------------------------------------------------------------------
\* The token of a hash changes only while it is executed, when no answer is
\* cached; the answer that is cached then is the one the token belongs to.
TokenInv ==
  /\ CachedTokenWorks
  /\ \A c \in Clients : client[c].step = "respond" => token[client[c].hash] = client[c].id

LEMMA InitToken == Init => TokenInv
BY DEF Init, TokenInv, CachedTokenWorks, Cached, Idle

\* A request that enters finds no answer that is young enough.
LEMMA EnterToken ==
  ASSUME RegistryInv, TokenInv, NEW c \in Clients, NEW h \in Hashes,
         Join(c, h) \/ Register(c, h)
  PROVE  TokenInv'
<1>1. token' = token /\ cache' = [cache EXCEPT ![h] = NoEntry]
  BY DEF Join, Register, Forget
<1>2. \A d \in Clients : client'[d].step = "respond" => client'[d] = client[d]
  BY DEF Join, Register, Enter, RegistryInv, TypeOK
<1>3. CachedTokenWorks' BY <1>1 DEF TokenInv, CachedTokenWorks, Cached, RegistryInv, TypeOK
<1>4. QED BY <1>1, <1>2, <1>3 DEF TokenInv

LEMMA RegisterTokenToken ==
  ASSUME RegistryInv, TokenInv, NEW c \in Clients, RegisterToken(c)
  PROVE  TokenInv'
<1> DEFINE h == client[c].hash
<1>1. Owns(c) /\ client[c] \in Busy
  BY BusyShape DEF RegisterToken, Owns, Idle, RegistryInv
<1>2. h \in Hashes BY <1>1 DEF Busy
<1>3. token' = [token EXCEPT ![h] = client[c].id] /\ cache' = cache
  BY DEF RegisterToken, registry
<1>4. cache[h] = NoEntry BY <1>1 DEF RegistryInv, OwnerRegistered
<1>5. CachedTokenWorks'
  BY <1>3, <1>4 DEF CachedTokenWorks, TokenInv, Cached, RegistryInv, TypeOK
<1>6. \A d \in Clients : client'[d].step = "respond" => token'[client'[d].hash] = client'[d].id
  <2> SUFFICES ASSUME NEW d \in Clients, client'[d].step = "respond"
               PROVE  token'[client'[d].hash] = client'[d].id
    OBVIOUS
  <2>1. CASE d = c
    <3>1. client' = [client EXCEPT ![c].step = "respond"] BY DEF RegisterToken
    <3>2. client'[c].hash = h /\ client'[c].id = client[c].id
      BY <3>1, <1>1 DEF RegistryInv, TypeOK, Busy
    <3>3. QED BY <2>1, <3>2, <1>2, <1>3 DEF RegistryInv, TypeOK
  <2>2. CASE d # c
    <3>1. client'[d] = client[d] BY <2>2 DEF RegisterToken, RegistryInv, TypeOK
    <3>2. Owns(d) /\ client[d] \in Busy
      BY <3>1, BusyShape DEF Owns, Idle, RegistryInv
    <3>3. client[d].hash # h BY <1>1, <2>2, <3>2, OwnersApart DEF RegistryInv
    <3>4. QED BY <3>1, <3>2, <3>3, <1>3 DEF TokenInv, RegistryInv, TypeOK, Busy
  <2>3. QED BY <2>1, <2>2
<1>7. QED BY <1>5, <1>6 DEF TokenInv

LEMMA RespondToken ==
  ASSUME RegistryInv, TokenInv, NEW c \in Clients, NEW dropped \in SUBSET Hashes,
         Respond(c, dropped)
  PROVE  TokenInv'
<1>1. token[client[c].hash] = client[c].id BY DEF Respond, TokenInv
<1>2. token' = token BY DEF Respond
<1>3. \A g \in Hashes : Cached(g)' =>
        IF g = client[c].hash THEN cache'[g].answer = client[c].id ELSE cache'[g] = cache[g]
  BY DEF Respond, Cached
<1>4. CachedTokenWorks' BY <1>1, <1>2, <1>3 DEF CachedTokenWorks, TokenInv, Cached
<1>5. \A d \in Clients : client'[d].step = "respond" => client'[d] = client[d]
  BY DEF Respond, Leave, Idle, RegistryInv, TypeOK
<1>6. QED BY <1>2, <1>4, <1>5 DEF TokenInv

\* The steps that neither register a token nor cache an answer.
LEMMA OtherToken ==
  ASSUME RegistryInv, TokenInv,
         \/ \E c \in Clients : Fail(c) \/ Wake(c) \/ GiveUp(c)
         \/ Restart \/ Tick \/ UNCHANGED vars
  PROVE  TokenInv'
<1>1. token' = token BY DEF Fail, Wake, GiveUp, Restart, Tick, vars
<1>2. cache' = cache \/ cache' = [h \in Hashes |-> NoEntry]
  BY DEF Fail, Wake, GiveUp, Restart, Tick, vars, registry
<1>3. \A d \in Clients : client'[d].step = "respond" => client'[d] = client[d]
  BY DEF Fail, Wake, GiveUp, Restart, Tick, vars, Leave, Idle, RegistryInv, TypeOK
<1>4. CachedTokenWorks' BY <1>1, <1>2 DEF CachedTokenWorks, TokenInv, Cached
<1>5. QED BY <1>1, <1>3, <1>4 DEF TokenInv

\* A retry answered from the cache gets the feedback token that is still
\* registered (in_flight.py:6-8, feedback.py:62-68).
THEOREM CachedTokenValid == Spec => []CachedTokenWorks
<1>1. RegistryInv /\ TokenInv /\ [Next]_vars => TokenInv'
  BY EnterToken, RegisterTokenToken, RespondToken, OtherToken DEF Next, OwnerStep
<1>2. TokenInv => CachedTokenWorks BY DEF TokenInv
<1>3. QED BY InitToken, RegistryInductive, <1>1, <1>2, PTL DEF Spec

-----------------------------------------------------------------------------
\* The hashes whose answer is kept.
Kept == {h \in Hashes : Cached(h)}

LEMMA KeptFinite == IsFiniteSet(Kept) /\ Cardinality(Kept) \in Nat
<1>1. Kept \in SUBSET Hashes BY DEF Kept
<1>2. QED BY <1>1, HashesAssumption, FS_Subset, FS_CardinalityType

\* A step that keeps no new answer stays within the bound.
LEMMA FewerKept ==
  ASSUME CacheBounded, Kept' \subseteq Kept
  PROVE  CacheBounded'
<1>1. Cardinality(Kept) <= MaxEntries BY DEF CacheBounded, Kept
<1>2. Cardinality(Kept') <= Cardinality(Kept) /\ Cardinality(Kept') \in Nat
  BY KeptFinite, FS_Subset, FS_CardinalityType
<1>3. Cardinality(Kept') <= MaxEntries BY <1>1, <1>2, KeptFinite, BoundsAssumption
<1>4. QED BY <1>3 DEF CacheBounded, Kept

\* An answer that is kept has room: a full cache loses at least one first.
LEMMA RespondBounded ==
  ASSUME RegistryInv, CacheBounded, NEW c \in Clients, NEW dropped \in SUBSET Hashes,
         Respond(c, dropped)
  PROVE  CacheBounded'
<1> DEFINE h == client[c].hash
           left == Kept \ dropped
<1>1. Kept' \subseteq left \cup {h} BY DEF Kept, Cached, Respond
<1>2. IsFiniteSet(left) /\ Cardinality(left) \in Nat
  BY KeptFinite, FS_Difference, FS_CardinalityType
<1>3. Cardinality(left) + 1 <= MaxEntries
  <2>1. CASE Full
    <3>1. Cardinality(dropped) = MaxEntries \div 2 /\ dropped \subseteq Kept
      BY <2>1 DEF Respond, Pruned, Oldest, Kept
    <3>2. Kept \cap dropped = dropped BY <3>1
    <3>3. Cardinality(left) = Cardinality(Kept) - Cardinality(dropped)
      BY <3>2, KeptFinite, FS_Difference
    <3>4. Cardinality(Kept) <= MaxEntries BY DEF CacheBounded, Kept
    <3>5. Cardinality(dropped) >= 1 /\ Cardinality(dropped) \in Nat BY <3>1, BoundsAssumption
    <3>6. QED BY <3>3, <3>4, <3>5, KeptFinite, BoundsAssumption
  <2>2. CASE ~Full
    <3>1. dropped = {} BY <2>2 DEF Respond, Pruned
    <3>2. left = Kept BY <3>1
    <3>3. ~(Cardinality(Kept) >= MaxEntries) BY <2>2 DEF Full, Kept
    <3>4. QED BY <3>2, <3>3, KeptFinite, BoundsAssumption
  <2>3. QED BY <2>1, <2>2
<1>4. IsFiniteSet(left \cup {h}) /\ Cardinality(left \cup {h}) <= Cardinality(left) + 1
  BY <1>2, FS_AddElement
<1>5. Cardinality(left \cup {h}) \in Nat BY <1>4, FS_CardinalityType
<1>6. Cardinality(Kept') <= Cardinality(left \cup {h}) /\ Cardinality(Kept') \in Nat
  BY <1>1, <1>4, FS_Subset, FS_CardinalityType
<1>7. Cardinality(Kept') <= MaxEntries BY <1>2, <1>3, <1>4, <1>5, <1>6, BoundsAssumption
<1>8. QED BY <1>7 DEF CacheBounded, Kept

\* No other step adds an answer.
LEMMA OtherBounded ==
  ASSUME RegistryInv, CacheBounded,
         \/ \E c \in Clients, h \in Hashes : Join(c, h) \/ Register(c, h)
         \/ \E c \in Clients : RegisterToken(c) \/ Fail(c) \/ Wake(c) \/ GiveUp(c)
         \/ Restart \/ Tick \/ UNCHANGED vars
  PROVE  CacheBounded'
<1>1. CASE \E c \in Clients, h \in Hashes : Join(c, h) \/ Register(c, h)
  <2>1. PICK h \in Hashes : cache' = [cache EXCEPT ![h] = NoEntry]
    BY <1>1 DEF Join, Register, Forget
  <2>2. Kept' \subseteq Kept BY <2>1 DEF Kept, Cached, RegistryInv, TypeOK
  <2>3. QED BY <2>2, FewerKept
<1>2. CASE \/ \E c \in Clients : RegisterToken(c) \/ Fail(c) \/ Wake(c) \/ GiveUp(c)
           \/ Restart \/ Tick \/ UNCHANGED vars
  <2>1. cache' = cache \/ cache' = [h \in Hashes |-> NoEntry]
    BY <1>2 DEF RegisterToken, Fail, Wake, GiveUp, Restart, Tick, vars, registry
  <2>2. Kept' \subseteq Kept BY <2>1 DEF Kept, Cached
  <2>3. QED BY <2>2, FewerKept
<1>3. QED BY <1>1, <1>2

\* The cache never holds more than MaxEntries answers, although it is pruned
\* only when it is written (in_flight.py:61-67, 82-87).
THEOREM CacheNeverOverflows == Spec => []CacheBounded
<1>1. Init => CacheBounded
  <2> SUFFICES ASSUME Init PROVE CacheBounded OBVIOUS
  <2>1. Kept = {} BY DEF Init, Kept, Cached
  <2>2. Cardinality(Kept) = 0 BY <2>1, FS_EmptySet
  <2>3. QED BY <2>2, BoundsAssumption DEF CacheBounded, Kept
<1>2. RegistryInv /\ CacheBounded /\ [Next]_vars => CacheBounded'
  BY RespondBounded, OtherBounded DEF Next, OwnerStep
<1>3. QED BY RegistryInductive, <1>1, <1>2, PTL DEF Spec
=============================================================================
