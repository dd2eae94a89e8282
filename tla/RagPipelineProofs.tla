------------------------- MODULE RagPipelineProofs -------------------------
(***************************************************************************)
(* Proofs about RagPipeline: a process that serves searches the whole      *)
(* corpus; the analysis is well typed and fails for its providers only;    *)
(* the merge is the fair one; every dimension of the plan reaches the      *)
(* report; no place of the report is wasted; usage adds up.                *)
(***************************************************************************)
EXTENDS RagPipeline, SequenceTheorems, FiniteSetTheorems, TLAPS

\* The collection holds what every build upserted so far.
IndexInv ==
  /\ store \subseteq Corpus
  /\ build \in [Processes -> [state : {"off", "building", "serving", "refused"}, next : Nat]]
  /\ \A p \in Processes, c \in Corpus :
       build[p].state = "building" /\ c < build[p].next => c \in store
  /\ ServesWholeCorpus

LEMMA CorpusIsNumbered == Len(ChunkDim) \in Nat /\ Corpus = 1 .. Len(ChunkDim)
BY CorpusAssumption DEF Corpus

LEMMA InitIndex == Init => IndexInv
BY CorpusIsNumbered DEF Init, IndexInv, ServesWholeCorpus, Serving

LEMMA StartBuildIndex ==
  ASSUME IndexInv, NEW p \in Processes, StartBuild(p)
  PROVE  IndexInv'
<1> USE DEF IndexInv
<1>1. store' = store BY DEF StartBuild
<1>2. \A o \in Processes : o # p => build'[o] = build[o] BY DEF StartBuild
<1>3. /\ build'[p].next = 1
      /\ build'[p].state \in {"building", "serving", "refused"}
      /\ build'[p].state = "serving" => store = Corpus
  BY DEF StartBuild, Complete
<1>4. build' \in [Processes -> [state : {"off", "building", "serving", "refused"}, next : Nat]]
  BY DEF StartBuild
<1>5. \A o \in Processes, c \in Corpus :
        build'[o].state = "building" /\ c < build'[o].next => c \in store'
  BY <1>1, <1>2, <1>3, CorpusIsNumbered
<1>6. ServesWholeCorpus' BY <1>1, <1>2, <1>3 DEF ServesWholeCorpus, Serving, Corpus
<1>7. QED BY <1>1, <1>4, <1>5, <1>6 DEF Corpus

\* The last batch of a build completes the collection; a batch of one build
\* takes nothing away from another.
LEMMA UpsertBatchIndex ==
  ASSUME IndexInv, NEW p \in Processes, UpsertBatch(p)
  PROVE  IndexInv'
<1> USE DEF IndexInv
<1> DEFINE start == build[p].next
           end == start + BatchSize
<1>1. start \in Nat /\ end \in Nat /\ BatchSize \in Nat /\ BatchSize > 0
  BY SizesAssumption
<1>2. store' = store \cup ((start .. (end - 1)) \cap Corpus) BY DEF UpsertBatch
<1>3. \A o \in Processes : o # p => build'[o] = build[o] BY DEF UpsertBatch
<1>4. /\ build'[p].next = end
      /\ build'[p].state \in {"building", "serving"}
      /\ build'[p].state = "serving" => end > Len(ChunkDim)
  BY DEF UpsertBatch
<1>5. build' \in [Processes -> [state : {"off", "building", "serving", "refused"}, next : Nat]]
  BY <1>1 DEF UpsertBatch
<1>6. \A c \in Corpus : c < end => c \in store'
  <2> SUFFICES ASSUME NEW c \in Corpus, c < end PROVE c \in store' OBVIOUS
  <2>1. c \in Nat BY CorpusIsNumbered
  <2>2. CASE c < start BY <2>2, <1>2 DEF UpsertBatch
  <2>3. CASE ~(c < start)
    <3>1. c \in start .. (end - 1) BY <2>1, <2>3, <1>1
    <3>2. QED BY <3>1, <1>2
  <2>4. QED BY <2>2, <2>3
<1>7. \A o \in Processes, c \in Corpus :
        build'[o].state = "building" /\ c < build'[o].next => c \in store'
  BY <1>2, <1>3, <1>4, <1>6
<1>8. store' \subseteq Corpus BY <1>2
<1>9. ServesWholeCorpus'
  <2> SUFFICES ASSUME NEW o \in Processes, build'[o].state = "serving"
               PROVE  store' = Corpus
    BY DEF ServesWholeCorpus, Serving, Corpus
  <2>1. CASE o = p
    <3>1. \A c \in Corpus : c < end BY <2>1, <1>1, <1>4, CorpusIsNumbered
    <3>2. QED BY <3>1, <1>6, <1>8
  <2>2. CASE o # p
    <3>1. store = Corpus BY <2>2, <1>3 DEF ServesWholeCorpus, Serving
    <3>2. QED BY <3>1, <1>2, <1>8
  <2>3. QED BY <2>1, <2>2
<1>10. QED BY <1>5, <1>7, <1>8, <1>9 DEF Corpus

\* A process that ends leaves the collection as it is.
LEMMA StopIndex ==
  ASSUME IndexInv, NEW p \in Processes, Stop(p)
  PROVE  IndexInv'
<1> USE DEF IndexInv
<1>1. store' = store BY DEF Stop
<1>2. build' = [build EXCEPT ![p] = [state |-> "off", next |-> 1]] BY DEF Stop
<1>3. \A o \in Processes : o # p => build'[o] = build[o] BY <1>2
<1>4. build'[p].state = "off" BY <1>2
<1>5. ServesWholeCorpus' BY <1>1, <1>3, <1>4 DEF ServesWholeCorpus, Serving, Corpus
<1>6. QED BY <1>1, <1>2, <1>3, <1>4, <1>5 DEF Corpus

\* An analysis only reads the collection.
LEMMA AnalysisKeepsIndex ==
  ASSUME [Next]_vars,
         \A p \in Processes : ~StartBuild(p) /\ ~UpsertBatch(p) /\ ~Stop(p)
  PROVE  UNCHANGED index
BY DEF Next, vars, Start, PlannerGivesUp, PlanReply, Search, FindMatches, FindLastMatches,
       RerankStep, RerankRetry, RerankFails, RerankReply, Report, CallFails, Timeout

LEMMA IndexHolds == Spec => []IndexInv
<1>1. IndexInv /\ [Next]_vars => IndexInv'
  <2> SUFFICES ASSUME IndexInv, [Next]_vars PROVE IndexInv' OBVIOUS
  <2>1. CASE \E p \in Processes : StartBuild(p) \/ UpsertBatch(p) \/ Stop(p)
    BY <2>1, StartBuildIndex, UpsertBatchIndex, StopIndex
  <2>2. CASE ~ \E p \in Processes : StartBuild(p) \/ UpsertBatch(p) \/ Stop(p)
    <3>1. UNCHANGED index BY <2>2, AnalysisKeepsIndex
    <3>2. QED BY <3>1 DEF index, IndexInv, ServesWholeCorpus, Serving, Corpus
  <2>3. QED BY <2>1, <2>2
<1>2. QED BY InitIndex, <1>1, PTL DEF Spec

\* A process that serves searches the whole corpus, however many builds ran
\* beside its own or died before it (chroma_store.py:71-101).
THEOREM WholeCorpusServed == Spec => []ServesWholeCorpus
<1>1. IndexInv => ServesWholeCorpus BY DEF IndexInv
<1>2. QED BY IndexHolds, <1>1, PTL

-----------------------------------------------------------------------------
(* Types.  What the last query and the report add up is a fold and is left *)
(* out: once the analysis is done its usage is that of billed.             *)

AnalysisInv ==
  /\ stage \in Stages
  /\ failure \in Failures
  /\ failure # "none" <=> stage = "failed"
  /\ attempts \in 0 .. MaxPlanAttempts
  /\ stage = "plan" => attempts < MaxPlanAttempts /\ matches = <<>>
  /\ queries \in Seq(Range(ChunkDim)) /\ matches \in Seq(Seq(Corpus))
  /\ Len(matches) <= Len(queries)
  /\ billed \in Nat \cup {None}
  /\ stage # "done" => usage \in Nat \cup {None}

LEMMA AddTokens ==
  ASSUME NEW a \in Nat \cup {None}, NEW b \in Nat \cup {None}
  PROVE  Add(a, b) \in Nat \cup {None}
BY DEF Add, None

LEMMA InitAnalysis == Init => AnalysisInv
<1> SUFFICES ASSUME Init PROVE AnalysisInv
  OBVIOUS
<1>1. queries \in Seq(Range(ChunkDim)) /\ matches \in Seq(Seq(Corpus))
  BY EmptySeq DEF Init
<1>2. Len(queries) = 0 /\ Len(matches) = 0
  BY EmptySeq DEF Init
<1>3. QED
  BY <1>1, <1>2, SizesAssumption DEF Init, AnalysisInv, Stages, Failures

LEMMA HeldAnalysis ==
  ASSUME NEW plan \in Seq(Range(ChunkDim)), NEW room, Holds(plan, room),
         stage' \in Stages, failure' \in Failures, failure' # "none" <=> stage' = "failed"
  PROVE  AnalysisInv'
<1>1. matches' = <<>> /\ matches' \in Seq(Seq(Corpus)') /\ Len(matches') = 0
  BY EmptySeq DEF Holds
<1>2. queries' \in Seq(Range(ChunkDim)) /\ Len(queries') \in Nat
  BY LenProperties DEF Holds
<1>3. attempts' = 0 /\ usage' = None /\ billed' = None
  BY DEF Holds
<1>4. QED
  BY <1>1, <1>2, <1>3, SizesAssumption DEF AnalysisInv, Corpus

LEMMA EndedAnalysis ==
  ASSUME NEW error \in Failures \ {"none"}, EndWith(error)
  PROVE  AnalysisInv'
<1>1. <<>> \in Seq(Range(ChunkDim))
  BY EmptySeq
<1>2. Holds(<<>>, 0) /\ stage' = "failed" /\ failure' = error
  BY DEF EndWith
<1>3. QED
  BY <1>1, <1>2, HeldAnalysis DEF Stages

(* A plan that is refused leaves the planner an attempt. *)
LEMMA PlanAnalysis ==
  ASSUME AnalysisInv, NEW plan \in Plans, NEW tokens \in Tokens, PlanReply(plan, tokens)
  PROVE  AnalysisInv'
<1>1. /\ stage = "plan" /\ failure = "none" /\ failure' = failure /\ matches' = <<>>
      /\ attempts \in Nat /\ attempts + 1 <= MaxPlanAttempts /\ attempts' = attempts + 1
  BY SizesAssumption DEF AnalysisInv, PlanReply, found
<1>2. /\ usage' \in Nat \cup {None} /\ billed' \in Nat \cup {None}
  BY <1>1, AddTokens, SizesAssumption DEF AnalysisInv, PlanReply, PlannerTokens
<1>3. \/ stage' = "retrieve" /\ queries' = plan
      \/ stage' = "plan" /\ queries' = queries /\ attempts' < MaxPlanAttempts
  BY <1>1, SizesAssumption DEF PlanReply, Retries
<1>4. plan \in Seq(Range(ChunkDim)) /\ Len(plan) \in Nat
  BY PlansAssumption, LenProperties
<1>5. queries' \in Seq(Range(ChunkDim)) /\ Len(queries') \in Nat
  BY <1>3, <1>4, LenProperties DEF AnalysisInv
<1>6. matches' \in Seq(Seq(Corpus)) /\ Len(matches') = 0
  BY <1>1, EmptySeq
<1>7. QED
  BY <1>1, <1>2, <1>3, <1>5, <1>6, SizesAssumption DEF AnalysisInv, Stages, Failures, Corpus

LEMMA FindAnalysis ==
  ASSUME AnalysisInv, NEW list \in Lists, FindMatches(list) \/ FindLastMatches(list)
  PROVE  AnalysisInv'
<1>1. list \in Seq(Corpus)
  BY DEF Lists, SeqOf
<1>2. /\ Append(matches, list) \in Seq(Seq(Corpus))
      /\ Len(Append(matches, list)) = Len(matches) + 1 /\ Len(matches) \in Nat
  BY <1>1, AppendProperties, LenProperties DEF AnalysisInv
<1>3. stage \in {"retrieve", "search"} /\ failure = "none"
  BY DEF FindMatches, FindLastMatches, AnalysisInv
<1>4. CASE EndWith("value")
  BY <1>4, EndedAnalysis DEF Failures
<1>5. CASE ~EndWith("value")
  <2>1. /\ matches' = Append(matches, list) /\ Len(matches') <= Len(queries)
        /\ UNCHANGED <<failure, attempts, queries, usage, billed>>
        /\ stage' \in {stage, "searched", "rerank"}
    BY <1>2, <1>5, LenProperties DEF FindMatches, FindLastMatches, AnalysisInv
  <2>2. QED
    BY <1>2, <1>3, <2>1 DEF AnalysisInv, Stages, Corpus
<1>6. QED
  BY <1>4, <1>5

LEMMA RerankAnalysis ==
  ASSUME AnalysisInv, RerankStep
  PROVE  AnalysisInv'
<1>1. PICK q \in DOMAIN queries :
        \/ RerankRetry(q)
        \/ RerankFails(q)
        \/ \E items \in SeqOf(1 .. CandidateK, FinalMax), t \in Tokens : RerankReply(q, items, t)
  BY DEF RerankStep
<1>2. CASE RerankFails(q)
  BY <1>2, EndedAnalysis DEF RerankFails, Failures
<1>3. CASE RerankRetry(q)
  BY <1>3 DEF RerankRetry, AnalysisInv, found, Corpus
<1>4. ASSUME NEW items, NEW t \in Tokens, RerankReply(q, items, t) PROVE AnalysisInv'
  <2>1. billed' \in Nat \cup {None}
    BY <1>4, AddTokens, SizesAssumption DEF RerankReply, AnalysisInv
  <2>2. /\ stage = "rerank" /\ stage' \in {"rerank", "report"}
        /\ UNCHANGED <<failure, attempts, queries, matches, usage>>
    BY <1>4 DEF RerankReply, found
  <2>3. QED
    BY <2>1, <2>2 DEF AnalysisInv, Stages, Corpus
<1>5. QED
  BY <1>1, <1>2, <1>3, <1>4

LEMMA ReportAnalysis ==
  ASSUME AnalysisInv, NEW t \in Tokens, Report(t)
  PROVE  AnalysisInv'
<1>1. billed' \in Nat \cup {None}
  BY AddTokens, SizesAssumption DEF Report, AnalysisInv
<1>2. /\ stage = "report" /\ stage' = "done"
      /\ UNCHANGED <<failure, attempts, queries, matches>>
  BY DEF Report, found
<1>3. QED
  BY <1>1, <1>2 DEF AnalysisInv, Stages, Corpus

LEMMA AnalysisStep == AnalysisInv /\ [Next]_vars => AnalysisInv'
<1> SUFFICES ASSUME AnalysisInv, [Next]_vars PROVE AnalysisInv'
  OBVIOUS
<1>1. ASSUME UNCHANGED <<stage, failure, attempts, found, usage, billed>> PROVE AnalysisInv'
  BY <1>1 DEF AnalysisInv, found, Corpus
<1>2. <<>> \in Seq(Range(ChunkDim))
  BY EmptySeq
<1>3. CASE \E p \in Processes : StartBuild(p) \/ UpsertBatch(p)
  BY <1>1, <1>3 DEF StartBuild, UpsertBatch
<1>4. ASSUME NEW p \in Processes, Stop(p) PROVE AnalysisInv'
  <2>1. CASE stage' = "idle" /\ failure' = "none" /\ Holds(<<>>, 0)
    BY <1>2, <2>1, HeldAnalysis DEF Stages, Failures
  <2>2. QED
    BY <1>1, <1>4, <2>1 DEF Stop
<1>5. CASE Start
  BY <1>2, <1>5, HeldAnalysis DEF Start, Stages, Failures
<1>6. ASSUME NEW plan \in Plans, PlannerGivesUp(plan) PROVE AnalysisInv'
  BY <1>6, EndedAnalysis DEF PlannerGivesUp, Failures
<1>7. ASSUME NEW plan \in Plans, NEW room, Search(plan, room) PROVE AnalysisInv'
  BY <1>7, PlansAssumption, HeldAnalysis DEF Search, Stages, Failures
<1>8. CASE CallFails \/ Timeout
  BY <1>8, EndedAnalysis DEF CallFails, Timeout, Failures
<1>9. CASE UNCHANGED vars
  BY <1>1, <1>9 DEF vars, found
<1>10. QED
  BY <1>3, <1>4, <1>5, <1>6, <1>7, <1>8, <1>9, PlanAnalysis, FindAnalysis, RerankAnalysis,
     ReportAnalysis DEF Next

(* Every reachable state is well typed: an analysis has failed exactly if  *)
(* it holds an error, the planner is not asked more often than it may be,  *)
(* and no more queries are searched than there are.                        *)
THEOREM PipelineTypeCorrect == Spec => []TypeOK
<1>1. Init => AnalysisInv
  BY InitAnalysis
<1>2. IndexInv /\ AnalysisInv => TypeOK
  BY DEF IndexInv, AnalysisInv, TypeOK
<1>3. QED
  BY <1>1, <1>2, IndexHolds, AnalysisStep, PTL DEF Spec

-----------------------------------------------------------------------------
(* Induction and folds.  The library's induction theorems take an operator *)
(* and cannot be applied; these take a set.                                *)

LEMMA LeastNatural ==
  ASSUME NEW T \in SUBSET Nat, T # {}
  PROVE  \E n \in T : \A m \in T : n <= m
<1> DEFINE R == OpToRel(<, Nat)
<1>1. IsWellFoundedOn(R, Nat)
  BY NatLessThanWellFounded
<1>2. \A m, n \in Nat : <<m, n>> \in R <=> m < n
  BY DEF OpToRel
<1> HIDE DEF R
<1>3. PICK n \in T : \A m \in T : ~(<<m, n>> \in R)
  BY <1>1, WFMin
<1>4. ASSUME NEW m \in T PROVE n <= m
  <2>1. m \in Nat /\ n \in Nat /\ ~(m < n)
    BY <1>2, <1>3, <1>4
  <2>2. QED
    BY <2>1
<1>5. QED
  BY <1>4

LEMMA AllNaturals ==
  ASSUME NEW S \in SUBSET Nat, 0 \in S, \A n \in S : n + 1 \in S
  PROVE  S = Nat
<1>1. SUFFICES ASSUME Nat \ S # {} PROVE FALSE
  OBVIOUS
<1>2. PICK n \in Nat \ S : \A m \in Nat \ S : n <= m
  BY <1>1, LeastNatural
<1>3. n # 0 /\ n - 1 \in Nat
  BY <1>2
<1>4. n - 1 \in S
  BY <1>2, <1>3
<1>5. QED
  BY <1>2, <1>3, <1>4

(* Induction up to a bound.                                                *)
LEMMA UpTo ==
  ASSUME NEW n \in Nat, NEW S, 0 \in S, \A m \in 1 .. n : m - 1 \in S => m \in S
  PROVE  0 .. n \subseteq S
<1> DEFINE T == {m \in Nat : m <= n => m \in S}
<1>1. \A m \in T : m + 1 \in T
  <2>1. SUFFICES ASSUME NEW m \in T, m + 1 <= n PROVE m + 1 \in S
    OBVIOUS
  <2>2. m + 1 \in 1 .. n /\ (m + 1) - 1 = m /\ m <= n
    BY <2>1
  <2>3. QED
    BY <2>2
<1>2. T = Nat
  <2>1. 0 \in T
    OBVIOUS
  <2> HIDE DEF T
  <2>2. T \subseteq Nat
    BY DEF T
  <2>3. QED
    BY <1>1, <2>1, <2>2, AllNaturals
<1>3. QED
  BY <1>2

LEMMA MaxIs ==
  ASSUME NEW S \in SUBSET Int, NEW n \in S, \A m \in S : m <= n
  PROVE  Max(S) = n
<1>1. \A x \in S : (\A y \in S : x >= y) <=> x = n
  OBVIOUS
<1>2. QED
  BY <1>1 DEF Max

LEMMA MaxExists ==
  ASSUME NEW n \in Nat, NEW S \in SUBSET (0 .. n), S # {}
  PROVE  Max(S) \in S /\ \A m \in S : m <= Max(S)
<1> DEFINE T == {n - m : m \in S}
<1>1. T \in SUBSET Nat /\ T # {}
  <2>1. \A m \in S : n - m \in Nat
    OBVIOUS
  <2>2. QED
    BY <2>1
<1>2. PICK k \in T : \A m \in T : k <= m
  BY <1>1, LeastNatural
<1>3. PICK x \in S : k = n - x
  OBVIOUS
<1>4. \A m \in S : m <= x
  BY <1>2, <1>3
<1>5. Max(S) = x
  BY <1>3, <1>4, MaxIs
<1>6. QED
  BY <1>4, <1>5

(* What FoldLeft over 1 .. n recurses over: the sets that are left of it.  *)
Folds(fold, base, n, step) ==
  \A s \in SUBSET (1 .. n) :
    fold[s] = IF s = {} THEN base ELSE step[Max(s)][fold[s \ {Max(s)}]]

LEMMA FoldExists ==
  ASSUME NEW X, NEW base \in X, NEW n \in Nat, NEW step \in [1 .. n -> [X -> X]]
  PROVE  \E fold \in [SUBSET (1 .. n) -> X] : Folds(fold, base, n, step)
<1> USE DEF Folds
<1> DEFINE
      Exists(m) == \E fold \in [SUBSET (1 .. m) -> X] : Folds(fold, base, m, step)
      S == {m \in Nat : m <= n => Exists(m)}
<1>1. 0 \in S
  <2>1. SUBSET (1 .. 0) = {{}}
    OBVIOUS
  <2>2. [s \in SUBSET (1 .. 0) |-> base] \in [SUBSET (1 .. 0) -> X]
    OBVIOUS
  <2>3. Folds([s \in SUBSET (1 .. 0) |-> base], base, 0, step)
    BY <2>1
  <2>4. QED
    BY <2>2, <2>3
<1>2. ASSUME NEW m \in S PROVE m + 1 \in S
  <2> HIDE DEF Exists
  <2>1. SUFFICES ASSUME m + 1 <= n PROVE Exists(m + 1)
    OBVIOUS
  <2>2. m \in Nat /\ m + 1 \in 1 .. n /\ m <= n
    BY <2>1
  <2>3. PICK f \in [SUBSET (1 .. m) -> X] : Folds(f, base, m, step)
    BY <2>2 DEF Exists
  <2> DEFINE g == [s \in SUBSET (1 .. (m + 1)) |->
                     IF m + 1 \in s THEN step[m + 1][f[s \ {m + 1}]] ELSE f[s]]
  <2>4. \A s \in SUBSET (1 .. (m + 1)) : s \ {m + 1} \in SUBSET (1 .. m)
    BY <2>2
  <2>5. \A s \in SUBSET (1 .. (m + 1)) : m + 1 \notin s => s \in SUBSET (1 .. m)
    BY <2>4
  <2>6. g \in [SUBSET (1 .. (m + 1)) -> X]
    <3>1. \A s \in SUBSET (1 .. (m + 1)) : m + 1 \in s => step[m + 1][f[s \ {m + 1}]] \in X
      BY <2>2, <2>4
    <3>2. \A s \in SUBSET (1 .. (m + 1)) : m + 1 \notin s => f[s] \in X
      BY <2>5
    <3>3. QED
      BY <3>1, <3>2
  <2>7. ASSUME NEW s \in SUBSET (1 .. (m + 1))
        PROVE  g[s] = IF s = {} THEN base ELSE step[Max(s)][g[s \ {Max(s)}]]
    <3>1. CASE m + 1 \in s
      <4>1. Max(s) = m + 1
        BY <2>2, <3>1, MaxIs
      <4>2. g[s \ {m + 1}] = f[s \ {m + 1}]
        BY <2>4
      <4>3. QED
        BY <3>1, <4>1, <4>2
    <3>2. CASE m + 1 \notin s
      <4>1. s \in SUBSET (1 .. m) /\ g[s] = f[s]
        BY <2>5, <3>2
      <4>2. s \ {Max(s)} \in SUBSET (1 .. (m + 1)) /\ m + 1 \notin s \ {Max(s)}
        BY <3>2
      <4>3. g[s \ {Max(s)}] = f[s \ {Max(s)}]
        BY <4>2
      <4>4. QED
        BY <2>3, <4>1, <4>3
    <3>3. QED
      BY <3>1, <3>2
  <2>8. QED
    BY <2>6, <2>7 DEF Exists
<1> HIDE DEF Exists
<1>3. n \in S
  BY <1>1, <1>2, AllNaturals
<1>4. Exists(n)
  BY <1>3
<1>5. QED
  BY <1>4 DEF Exists

LEMMA IntervalFacts ==
  ASSUME NEW n \in Nat
  PROVE  /\ 1 .. 0 = {}
         /\ \A m \in 1 .. n : /\ 1 .. m \in SUBSET (1 .. n) /\ 1 .. m # {}
                              /\ Max(1 .. m) = m /\ (1 .. m) \ {m} = 1 .. (m - 1)
         /\ \A s \in SUBSET (1 .. n) : s # {} => Max(s) \in 1 .. n
<1>1. ASSUME NEW m \in 1 .. n
      PROVE  /\ 1 .. m \in SUBSET (1 .. n) /\ 1 .. m # {}
             /\ Max(1 .. m) = m /\ (1 .. m) \ {m} = 1 .. (m - 1)
  <2>1. m \in 1 .. m /\ 1 .. m \in SUBSET Int /\ \A i \in 1 .. m : i <= m
    OBVIOUS
  <2>2. Max(1 .. m) = m
    BY <2>1, MaxIs
  <2>3. 1 .. m \in SUBSET (1 .. n) /\ (1 .. m) \ {m} = 1 .. (m - 1)
    OBVIOUS
  <2>4. QED
    BY <2>1, <2>2, <2>3
<1>2. ASSUME NEW s \in SUBSET (1 .. n), s # {} PROVE Max(s) \in 1 .. n
  <2>1. s \in SUBSET (0 .. n)
    OBVIOUS
  <2>2. QED
    BY <1>2, <2>1, MaxExists
<1>3. 1 .. 0 = {}
  OBVIOUS
<1>4. QED
  BY <1>1, <1>2, <1>3

-----------------------------------------------------------------------------
(* The chunks a query found.                                               *)

Match == [chunk : Corpus, ids : SUBSET Nat]
Distinct(kept) == \A i, j \in DOMAIN kept : kept[i].chunk = kept[j].chunk => i = j

(* Candidates, chunk by chunk.                                             *)
LEMMA CandidateFold ==
  ASSUME NEW kept \in Seq(Match), NEW q
  PROVE  \E g :
           /\ \A m \in 0 .. Len(kept) : g[m] \in Seq(Match)
           /\ g[0] = <<>>
           /\ \A m \in 1 .. Len(kept) :
                g[m] = IF q \in kept[m].ids THEN Append(g[m - 1], kept[m]) ELSE g[m - 1]
           /\ Candidates(kept, q) = g[Len(kept)]
<1> DEFINE n == Len(kept)
           X == Seq(Match)
           Op(x, i) == IF q \in kept[i].ids THEN Append(x, kept[i]) ELSE x
           step == [i \in 1 .. n |-> [x \in X |-> Op(x, i)]]
           Eq(iter) == iter = [s \in SUBSET (1 .. n) |->
                                 IF s = {} THEN <<>> ELSE Op(iter[s \ {Max(s)}], Max(s))]
           iter == CHOOSE iter : Eq(iter)
<1>1. n \in Nat /\ DOMAIN kept = 1 .. n /\ <<>> \in X
  BY EmptySeq, LenProperties
<1>2. step \in [1 .. n -> [X -> X]]
  <2>1. ASSUME NEW i \in 1 .. n, NEW x \in X PROVE Op(x, i) \in X
    BY <1>1, AppendProperties, ElementOfSeq
  <2>2. QED
    BY <2>1
<1>3. Candidates(kept, q) = iter[1 .. n]
  BY <1>1 DEF Candidates, FoldLeft, MapThenFoldSet
<1>4. Eq(iter)
  <2>1. PICK fold \in [SUBSET (1 .. n) -> X] : Folds(fold, <<>>, n, step)
    <3> HIDE DEF step, X, n
    <3>1. QED
      BY <1>1, <1>2, FoldExists
  <2>2. ASSUME NEW s \in SUBSET (1 .. n)
        PROVE  fold[s] = IF s = {} THEN <<>> ELSE Op(fold[s \ {Max(s)}], Max(s))
    <3>1. CASE s = {}
      BY <2>1, <3>1 DEF Folds
    <3>2. CASE s # {}
      <4>1. Max(s) \in 1 .. n
        BY <1>1, <3>2, IntervalFacts
      <4>2. fold[s \ {Max(s)}] \in X
        BY <2>1
      <4>3. QED
        BY <2>1, <3>2, <4>1, <4>2 DEF Folds
    <3>3. QED
      BY <3>1, <3>2
  <2>3. fold = [s \in SUBSET (1 .. n) |->
                IF s = {} THEN <<>> ELSE Op(fold[s \ {Max(s)}], Max(s))]
    BY <2>2
  <2>4. QED
    BY <2>3
<1> HIDE DEF iter
<1>5. \A s \in SUBSET (1 .. n) :
        iter[s] = IF s = {} THEN <<>> ELSE Op(iter[s \ {Max(s)}], Max(s))
  BY <1>4
<1>6. iter[{}] = <<>> /\ \A m \in 1 .. n : iter[1 .. m] = Op(iter[1 .. (m - 1)], m)
  <2> HIDE DEF Op
  <2>1. QED
    BY <1>1, <1>5, IntervalFacts
<1> DEFINE g == [m \in 0 .. n |-> iter[1 .. m]]
<1>7. g[0] = <<>> /\ \A m \in 1 .. n : g[m] = Op(g[m - 1], m)
  BY <1>1, <1>6
<1> HIDE DEF g
<1>8. \A m \in 0 .. n : g[m] \in X
  <2> DEFINE S == {m \in 0 .. n : g[m] \in X}
  <2>1. 0 \in S
    <3>1. g[0] \in X
      BY <1>1, <1>7
    <3> HIDE DEF X
    <3>2. QED
      BY <1>1, <3>1
  <2>2. ASSUME NEW m \in 1 .. n, m - 1 \in S PROVE m \in S
    <3>1. g[m - 1] \in X /\ m \in 0 .. n
      BY <2>2
    <3>2. Op(g[m - 1], m) \in X
      BY <1>1, <3>1, AppendProperties, ElementOfSeq
    <3>3. QED
      BY <1>7, <3>1, <3>2
  <2> HIDE DEF S
  <2>3. 0 .. n \subseteq S
    BY <1>1, <2>1, <2>2, UpTo
  <2>4. QED
    BY <2>3 DEF S
<1>9. Candidates(kept, q) = g[n]
  BY <1>1, <1>3 DEF g
<1>10. QED
  BY <1>7, <1>8, <1>9

(* They are the chunks that have the query, each of them once.             *)
LEMMA CandidatesAre ==
  ASSUME NEW kept \in Seq(Match), NEW q, NEW C, C = Candidates(kept, q)
  PROVE  /\ C \in Seq(Match)
         /\ \A i \in 1 .. Len(C) : \E j \in 1 .. Len(kept) : C[i] = kept[j] /\ q \in kept[j].ids
         /\ \A j \in 1 .. Len(kept) : q \in kept[j].ids => \E i \in 1 .. Len(C) : C[i] = kept[j]
         /\ Distinct(kept) => Distinct(C)
<1> DEFINE n == Len(kept)
<1>1. PICK g :
        /\ \A m \in 0 .. n : g[m] \in Seq(Match)
        /\ g[0] = <<>>
        /\ \A m \in 1 .. n : g[m] = IF q \in kept[m].ids THEN Append(g[m - 1], kept[m]) ELSE g[m - 1]
        /\ Candidates(kept, q) = g[n]
  BY CandidateFold
<1>2. n \in Nat /\ DOMAIN kept = 1 .. n /\ \A j \in 1 .. n : kept[j] \in Match
  BY LenProperties, ElementOfSeq
<1> DEFINE
      From(m) == \A i \in 1 .. Len(g[m]) : \E j \in 1 .. m : g[m][i] = kept[j] /\ q \in kept[j].ids
      All(m) == \A j \in 1 .. m : q \in kept[j].ids => \E i \in 1 .. Len(g[m]) : g[m][i] = kept[j]
      Once(m) == Distinct(kept) =>
        \A i, j \in 1 .. Len(g[m]) : g[m][i].chunk = g[m][j].chunk => i = j
      S == {m \in 0 .. n : From(m) /\ All(m) /\ Once(m)}
<1>3. 0 \in S
  <2>1. Len(g[0]) = 0
    BY <1>1
  <2>2. QED
    BY <1>2, <2>1
<1>4. ASSUME NEW m \in 1 .. n, m - 1 \in S PROVE m \in S
  <2>1. m \in 0 .. n /\ m - 1 \in 0 .. n /\ From(m - 1) /\ All(m - 1) /\ Once(m - 1)
    <3> HIDE DEF From, All, Once
    <3>1. QED
      BY <1>4
  <2> DEFINE old == g[m - 1]
             new == g[m]
  <2>2. old \in Seq(Match) /\ Len(old) \in Nat
    BY <1>1, <2>1, LenProperties
  <2>3. CASE q \notin kept[m].ids
    <3>1. new = old
      BY <1>1, <2>3
    <3>2. From(m) /\ Once(m)
      BY <2>1, <3>1
    <3>3. All(m)
      <4>1. \A j \in 1 .. m : q \in kept[j].ids => j \in 1 .. (m - 1)
        BY <2>3
      <4>2. QED
        BY <2>1, <3>1, <4>1
    <3>4. QED
      BY <2>1, <3>2, <3>3
  <2>4. CASE q \in kept[m].ids
    <3>1. new = Append(old, kept[m])
      BY <1>1, <2>4
    <3>2. /\ Len(new) = Len(old) + 1
          /\ \A i \in 1 .. Len(old) : new[i] = old[i]
          /\ new[Len(old) + 1] = kept[m]
      BY <1>2, <2>2, <3>1, AppendProperties
    <3> HIDE DEF old, new
    <3>3. \A i \in 1 .. Len(new) : i \in 1 .. Len(old) \/ i = Len(old) + 1
      BY <2>2, <3>2
    <3>4. From(m)
      <4>1. SUFFICES ASSUME NEW i \in 1 .. Len(new)
                     PROVE  \E j \in 1 .. m : new[i] = kept[j] /\ q \in kept[j].ids
        BY DEF new
      <4>2. CASE i \in 1 .. Len(old)
        <5>1. PICK j \in 1 .. (m - 1) : old[i] = kept[j] /\ q \in kept[j].ids
          BY <2>1, <4>2 DEF old
        <5>2. j \in 1 .. m
          OBVIOUS
        <5>3. QED
          BY <3>2, <4>2, <5>1, <5>2
      <4>3. CASE i = Len(old) + 1
        BY <2>4, <3>2, <4>3
      <4>4. QED
        BY <3>3, <4>2, <4>3
    <3>5. All(m)
      <4>1. SUFFICES ASSUME NEW j \in 1 .. m, q \in kept[j].ids
                     PROVE  \E i \in 1 .. Len(new) : new[i] = kept[j]
        BY DEF new
      <4>2. CASE j = m
        <5>1. Len(old) + 1 \in 1 .. Len(new)
          BY <2>2, <3>2
        <5>2. QED
          BY <3>2, <4>2, <5>1
      <4>3. CASE j # m
        <5>1. j \in 1 .. (m - 1)
          BY <4>3
        <5>2. PICK i \in 1 .. Len(old) : old[i] = kept[j]
          BY <2>1, <4>1, <5>1 DEF old
        <5>3. i \in 1 .. Len(new)
          BY <2>2, <3>2
        <5>4. QED
          BY <3>2, <5>2, <5>3
      <4>4. QED
        BY <4>2, <4>3
    <3>6. Once(m)
      <4>1. SUFFICES ASSUME Distinct(kept), NEW i \in 1 .. Len(new), NEW j \in 1 .. Len(new),
                            new[i].chunk = new[j].chunk
                     PROVE  i = j
        BY DEF new
      <4>2. ASSUME NEW k \in 1 .. Len(old), new[k].chunk = kept[m].chunk PROVE FALSE
        <5>1. PICK l \in 1 .. (m - 1) : old[k] = kept[l]
          BY <2>1 DEF old
        <5>2. l \in 1 .. n /\ m \in 1 .. n /\ l # m /\ kept[l].chunk = kept[m].chunk
          BY <3>2, <4>2, <5>1
        <5>3. QED
          BY <1>2, <4>1, <5>2 DEF Distinct
      <4>3. CASE i \in 1 .. Len(old) /\ j \in 1 .. Len(old)
        BY <2>1, <3>2, <4>1, <4>3 DEF old
      <4>4. QED
        BY <3>2, <3>3, <4>1, <4>2, <4>3
    <3>7. QED
      BY <2>1, <3>4, <3>5, <3>6
  <2>5. QED
    BY <2>3, <2>4
<1> HIDE DEF S
<1>5. 0 .. n \subseteq S
  BY <1>2, <1>3, <1>4, UpTo
<1>6. From(n) /\ All(n) /\ Once(n) /\ n \in 0 .. n
  <2> HIDE DEF From, All, Once
  <2>1. n \in 0 .. n
    BY <1>2
  <2>2. QED
    BY <1>5, <2>1 DEF S
<1>7. C = g[n] /\ C \in Seq(Match) /\ DOMAIN C = 1 .. Len(C)
  BY <1>1, <1>6, LenProperties
<1>8. \A i \in 1 .. Len(C) : \E j \in 1 .. Len(kept) : C[i] = kept[j] /\ q \in kept[j].ids
  BY <1>6, <1>7 DEF From
<1>9. \A j \in 1 .. Len(kept) : q \in kept[j].ids => \E i \in 1 .. Len(C) : C[i] = kept[j]
  BY <1>6, <1>7 DEF All
<1>10. Distinct(kept) => Distinct(C)
  BY <1>6, <1>7 DEF Once, Distinct
<1>11. QED
  BY <1>7, <1>8, <1>9, <1>10

-----------------------------------------------------------------------------
(* The merge.                                                              *)

Divides(m, of) ==
  /\ Turn(m, of) \in 1 .. of /\ Rank(m, of) \in Nat \ {0}
  /\ m = (Rank(m, of) - 1) * of + Turn(m, of)

LEMMA Rounds ==
  ASSUME NEW m \in Nat \ {0}, NEW of \in Nat \ {0}
  PROVE  Divides(m, of)
<1> DEFINE d == (m - 1) \div of
           r == (m - 1) % of
<1>1. d \in Nat /\ r \in 0 .. (of - 1) /\ m - 1 = (d * of) + r
  <2>1. m - 1 \in Nat
    OBVIOUS
  <2>2. QED
    BY <2>1
<1>2. Rank(m, of) = 1 + d /\ Turn(m, of) = 1 + r
  BY DEF Rank, Turn
<1> HIDE DEF d, r
<1>3. Turn(m, of) \in 1 .. of /\ Rank(m, of) \in Nat \ {0}
  BY <1>1, <1>2
<1>4. m = (d * of) + (1 + r)
  BY <1>1
<1>5. Rank(m, of) - 1 = d
  BY <1>1, <1>2
<1>6. QED
  BY <1>2, <1>3, <1>4, <1>5 DEF Divides

(* The list of lists is as long as its longest list.                       *)
LEMMA LongestIs ==
  ASSUME NEW ranked \in Seq(Seq(Corpus)), ranked # <<>>, NEW bound \in Nat,
         \A q \in DOMAIN ranked : Len(ranked[q]) <= bound
  PROVE  /\ Longest(ranked) \in 0 .. bound
         /\ \A q \in DOMAIN ranked : Len(ranked[q]) <= Longest(ranked)
         /\ \E q \in DOMAIN ranked : Longest(ranked) = Len(ranked[q])
<1> DEFINE lengths == {Len(ranked[q]) : q \in DOMAIN ranked}
<1>1. DOMAIN ranked # {} /\ \A q \in DOMAIN ranked : Len(ranked[q]) \in Nat
  BY LenProperties, ElementOfSeq, EmptySeq
<1>2. lengths \in SUBSET (0 .. bound) /\ lengths # {}
  <2>1. \A q \in DOMAIN ranked : Len(ranked[q]) \in 0 .. bound
    BY <1>1
  <2>2. QED
    BY <1>1, <2>1
<1>3. Max(lengths) \in lengths /\ \A m \in lengths : m <= Max(lengths)
  BY <1>2, MaxExists
<1>4. \E n \in lengths : \A q \in DOMAIN ranked : Len(ranked[q]) <= n
  BY <1>3
<1>5. Longest(ranked) \in lengths /\ \A q \in DOMAIN ranked : Len(ranked[q]) <= Longest(ranked)
  BY <1>4 DEF Longest
<1>6. QED
  BY <1>2, <1>5

(* What becomes of the chunks kept when a query finds one.                 *)
Kept(kept, new, q, c, room) ==
  \/ ~Knows(kept, c) /\ ~(Len(kept) < room) /\ new = kept
  \/ /\ ~Knows(kept, c) /\ Len(kept) < room
     /\ Len(new) = Len(kept) + 1
     /\ \A i \in 1 .. Len(kept) : new[i] = kept[i]
     /\ new[Len(kept) + 1].chunk = c /\ new[Len(kept) + 1].ids = {q}
  \/ /\ Knows(kept, c) /\ Len(new) = Len(kept)
     /\ \A i \in 1 .. Len(kept) :
          /\ new[i].chunk = kept[i].chunk
          /\ new[i].ids = IF kept[i].chunk = c THEN kept[i].ids \cup {q} ELSE kept[i].ids

LEMMA PlaceKeeps ==
  ASSUME NEW kept \in Seq(Match), NEW q \in Nat, NEW c \in Corpus, NEW room
  PROVE  Place(kept, q, c, room) \in Seq(Match) /\ Kept(kept, Place(kept, q, c, room), q, c, room)
<1>1. /\ DOMAIN kept = 1 .. Len(kept) /\ Len(kept) \in Nat
      /\ \A i \in 1 .. Len(kept) : kept[i] \in Match
  BY LenProperties, ElementOfSeq
<1>2. CASE Knows(kept, c)
  <2> DEFINE At(i) == IF kept[i].chunk = c THEN [kept[i] EXCEPT !.ids = @ \cup {q}] ELSE kept[i]
             new == [i \in 1 .. Len(kept) |-> At(i)]
  <2>1. Place(kept, q, c, room) = new
    BY <1>1, <1>2 DEF Place, Gain
  <2>2. ASSUME NEW i \in 1 .. Len(kept)
        PROVE  /\ At(i) \in Match /\ At(i).chunk = kept[i].chunk
               /\ At(i).ids = IF kept[i].chunk = c THEN kept[i].ids \cup {q} ELSE kept[i].ids
    BY <1>1 DEF Match
  <2> HIDE DEF At
  <2>3. new \in Seq(Match)
    <3>1. new \in [1 .. Len(kept) -> Match]
      BY <2>2
    <3> HIDE DEF new
    <3>2. QED
      BY <1>1, <3>1, SeqDef
  <2>4. Len(new) = Len(kept)
    BY <1>1, <2>3, LenProperties
  <2>5. Kept(kept, new, q, c, room)
    BY <1>2, <2>2, <2>4 DEF Kept
  <2>6. QED
    BY <2>1, <2>3, <2>5
<1>3. CASE ~Knows(kept, c) /\ Len(kept) < room
  <2> DEFINE m == [chunk |-> c, ids |-> {q}]
  <2>1. Place(kept, q, c, room) = Append(kept, m) /\ m \in Match /\ m.chunk = c /\ m.ids = {q}
    BY <1>3 DEF Place, Keep, Match
  <2> HIDE DEF m
  <2>2. /\ Append(kept, m) \in Seq(Match) /\ Len(Append(kept, m)) = Len(kept) + 1
        /\ \A i \in 1 .. Len(kept) : Append(kept, m)[i] = kept[i]
        /\ Append(kept, m)[Len(kept) + 1] = m
    BY <1>1, <2>1, AppendProperties
  <2>3. Kept(kept, Append(kept, m), q, c, room)
    BY <1>3, <2>1, <2>2 DEF Kept
  <2>4. QED
    BY <2>1, <2>2, <2>3
<1>4. CASE ~Knows(kept, c) /\ ~(Len(kept) < room)
  BY <1>4 DEF Place, Keep, Kept
<1>5. QED
  BY <1>2, <1>3, <1>4

(* A place of the round-robin names a chunk if its list is long enough.    *)
Named(ranked, m) ==
  Rank(m, Len(ranked)) <= Len(ranked[Turn(m, Len(ranked))])
ChunkAt(ranked, m) == ranked[Turn(m, Len(ranked))][Rank(m, Len(ranked))]

LEMMA PlacesNamed ==
  ASSUME NEW ranked \in Seq(Seq(Corpus)), ranked # <<>>, NEW m \in Nat \ {0}
  PROVE  /\ Len(ranked) \in Nat \ {0} /\ Turn(m, Len(ranked)) \in DOMAIN ranked
         /\ Turn(m, Len(ranked)) \in Nat
         /\ Named(ranked, m) => ChunkAt(ranked, m) \in Corpus
<1>1. Len(ranked) \in Nat \ {0} /\ DOMAIN ranked = 1 .. Len(ranked)
  BY LenProperties, EmptySeq
<1>2. Turn(m, Len(ranked)) \in 1 .. Len(ranked) /\ Rank(m, Len(ranked)) \in Nat \ {0}
  BY <1>1, Rounds DEF Divides
<1>3. ranked[Turn(m, Len(ranked))] \in Seq(Corpus)
  BY <1>1, <1>2, ElementOfSeq
<1>4. Named(ranked, m) => ChunkAt(ranked, m) \in Corpus
  BY <1>2, <1>3, ElementOfSeq, LenProperties DEF Named, ChunkAt
<1>5. QED
  BY <1>1, <1>2, <1>4

(* Merge, place by place.                                                  *)
Merges(g, ranked, room, places) ==
  /\ \A m \in 0 .. places : g[m] \in Seq(Match)
  /\ g[0] = <<>>
  /\ \A m \in 1 .. places :
       IF Named(ranked, m)
       THEN Kept(g[m - 1], g[m], Turn(m, Len(ranked)), ChunkAt(ranked, m), room)
       ELSE g[m] = g[m - 1]

LEMMA MergeFold ==
  ASSUME NEW ranked \in Seq(Seq(Corpus)), ranked # <<>>, NEW room, Longest(ranked) \in Nat
  PROVE  \E g : /\ Merges(g, ranked, room, Len(ranked) * Longest(ranked))
                /\ Merge(ranked, room) = g[Len(ranked) * Longest(ranked)]
<1> DEFINE of == Len(ranked)
           n == of * Longest(ranked)
           X == Seq(Match)
           Op(x, i) == IF Rank(i, of) > Len(ranked[Turn(i, of)]) THEN x
                       ELSE Place(x, Turn(i, of), ranked[Turn(i, of)][Rank(i, of)], room)
           seq == [i \in 1 .. n |-> i]
           step == [i \in 1 .. n |-> [x \in X |-> Op(x, i)]]
           Eq(iter) == iter = [s \in SUBSET (1 .. n) |->
                                 IF s = {} THEN <<>> ELSE Op(iter[s \ {Max(s)}], seq[Max(s)])]
           iter == CHOOSE iter : Eq(iter)
<1>1. of \in Nat /\ n \in Nat /\ <<>> \in X
  BY EmptySeq, LenProperties
<1>2. ASSUME NEW i \in 1 .. n, NEW x \in X
      PROVE  /\ Op(x, i) \in X
             /\ IF Named(ranked, i) THEN Kept(x, Op(x, i), Turn(i, of), ChunkAt(ranked, i), room)
                ELSE Op(x, i) = x
  <2>1. i \in Nat \ {0}
    BY <1>1
  <2>2. Turn(i, of) \in Nat /\ (Named(ranked, i) => ChunkAt(ranked, i) \in Corpus)
    BY <2>1, PlacesNamed
  <2>3. /\ Rank(i, of) \in Nat
        /\ Turn(i, of) \in DOMAIN ranked
    BY <2>1, PlacesNamed, Rounds DEF Divides
  <2>4. Len(ranked[Turn(i, of)]) \in Nat
    BY <2>3, ElementOfSeq, LenProperties
  <2>5. CASE Named(ranked, i)
    <3>1. Op(x, i) = Place(x, Turn(i, of), ChunkAt(ranked, i), room)
      BY <2>3, <2>4, <2>5 DEF Named, ChunkAt
    <3>2. QED
      BY <2>2, <2>5, <3>1, PlaceKeeps
  <2>6. CASE ~Named(ranked, i)
    BY <2>3, <2>4, <2>6 DEF Named
  <2>7. QED
    BY <2>5, <2>6
<1>3. Merge(ranked, room) = iter[1 .. n]
  BY <1>1 DEF Merge, FoldLeft, MapThenFoldSet
<1> HIDE DEF Op
<1>4. step \in [1 .. n -> [X -> X]]
  BY <1>2
<1>5. Eq(iter)
  <2>1. PICK fold \in [SUBSET (1 .. n) -> X] : Folds(fold, <<>>, n, step)
    <3> HIDE DEF step, X, n
    <3>1. QED
      BY <1>1, <1>4, FoldExists
  <2>2. ASSUME NEW s \in SUBSET (1 .. n)
        PROVE  fold[s] = IF s = {} THEN <<>> ELSE Op(fold[s \ {Max(s)}], seq[Max(s)])
    <3>1. CASE s = {}
      BY <2>1, <3>1 DEF Folds
    <3>2. CASE s # {}
      <4>1. Max(s) \in 1 .. n
        BY <1>1, <3>2, IntervalFacts
      <4>2. fold[s \ {Max(s)}] \in X
        BY <2>1
      <4>3. QED
        BY <2>1, <3>2, <4>1, <4>2 DEF Folds
    <3>3. QED
      BY <3>1, <3>2
  <2>3. fold = [s \in SUBSET (1 .. n) |->
                IF s = {} THEN <<>> ELSE Op(fold[s \ {Max(s)}], seq[Max(s)])]
    BY <2>2
  <2>4. QED
    BY <2>3
<1> HIDE DEF iter
<1>6. \A s \in SUBSET (1 .. n) :
        iter[s] = IF s = {} THEN <<>> ELSE Op(iter[s \ {Max(s)}], seq[Max(s)])
  BY <1>5
<1>7. iter[{}] = <<>> /\ \A m \in 1 .. n : iter[1 .. m] = Op(iter[1 .. (m - 1)], m)
  BY <1>1, <1>6, IntervalFacts
<1> DEFINE g == [m \in 0 .. n |-> iter[1 .. m]]
<1>8. g[0] = <<>> /\ \A m \in 1 .. n : g[m] = Op(g[m - 1], m)
  BY <1>1, <1>7
<1> HIDE DEF g
<1>9. \A m \in 0 .. n : g[m] \in X
  <2> DEFINE S == {m \in 0 .. n : g[m] \in X}
  <2> HIDE DEF X, n
  <2>1. 0 \in S
    BY <1>1, <1>8
  <2>2. ASSUME NEW m \in 1 .. n, m - 1 \in S PROVE m \in S
    BY <1>1, <1>2, <1>8, <2>2
  <2> HIDE DEF S
  <2>3. 0 .. n \subseteq S
    BY <1>1, <2>1, <2>2, UpTo
  <2>4. QED
    BY <2>3 DEF S
<1>10. Merges(g, ranked, room, n)
  <2>1. ASSUME NEW m \in 1 .. n
        PROVE  IF Named(ranked, m)
               THEN Kept(g[m - 1], g[m], Turn(m, of), ChunkAt(ranked, m), room)
               ELSE g[m] = g[m - 1]
    <3>1. g[m - 1] \in X
      BY <1>1, <1>9
    <3>2. QED
      BY <1>2, <1>8, <3>1
  <2>2. QED
    BY <1>8, <1>9, <2>1 DEF Merges
<1>11. Merge(ranked, room) = g[n]
  BY <1>1, <1>3 DEF g
<1>12. QED
  BY <1>10, <1>11

(* The places up to the m-th that name a chunk, and the queries that have  *)
(* found it there.                                                         *)
Mentions(ranked, m, c) == {j \in 1 .. m : Named(ranked, j) /\ ChunkAt(ranked, j) = c}
Finders(ranked, m, c) == {Turn(j, Len(ranked)) : j \in Mentions(ranked, m, c)}
Earlier(ranked, c, d) == \E m \in Nat : Mentions(ranked, m, c) # {} /\ Mentions(ranked, m, d) = {}

(* What the merge keeps after m places: no chunk twice, each with all who  *)
(* found it, in the order of their first mention, and, if there was no     *)
(* room, those mentioned first.                                            *)
FairUpTo(kept, ranked, room, m) ==
  /\ Distinct(kept)
  /\ \A i \in DOMAIN kept : /\ Mentions(ranked, m, kept[i].chunk) # {}
                            /\ kept[i].ids = Finders(ranked, m, kept[i].chunk)
  /\ \A i, j \in DOMAIN kept : i < j => Earlier(ranked, kept[i].chunk, kept[j].chunk)
  /\ \A c \in Corpus : Mentions(ranked, m, c) # {} /\ ~Knows(kept, c) =>
       /\ Len(kept) = room /\ room < m
       /\ \A i \in DOMAIN kept : Earlier(ranked, kept[i].chunk, c)
  /\ Len(kept) <= m /\ Len(kept) <= room

LEMMA MentionsGrow ==
  ASSUME NEW ranked, NEW m \in Nat, NEW c
  PROVE  IF Named(ranked, m + 1) /\ ChunkAt(ranked, m + 1) = c
         THEN /\ Mentions(ranked, m + 1, c) = Mentions(ranked, m, c) \cup {m + 1}
              /\ Finders(ranked, m + 1, c) = Finders(ranked, m, c) \cup {Turn(m + 1, Len(ranked))}
         ELSE /\ Mentions(ranked, m + 1, c) = Mentions(ranked, m, c)
              /\ Finders(ranked, m + 1, c) = Finders(ranked, m, c)
<1>1. 1 .. (m + 1) = (1 .. m) \cup {m + 1}
  OBVIOUS
<1>2. Mentions(ranked, m + 1, c) = Mentions(ranked, m, c) \cup
        {j \in {m + 1} : Named(ranked, j) /\ ChunkAt(ranked, j) = c}
  BY <1>1 DEF Mentions
<1>3. CASE Named(ranked, m + 1) /\ ChunkAt(ranked, m + 1) = c
  <2>1. Mentions(ranked, m + 1, c) = Mentions(ranked, m, c) \cup {m + 1}
    BY <1>2, <1>3
  <2>2. QED
    BY <1>3, <2>1 DEF Finders
<1>4. CASE ~(Named(ranked, m + 1) /\ ChunkAt(ranked, m + 1) = c)
  <2>1. Mentions(ranked, m + 1, c) = Mentions(ranked, m, c)
    BY <1>2, <1>4
  <2>2. QED
    BY <1>4, <2>1 DEF Finders
<1>5. QED
  BY <1>3, <1>4

LEMMA FairStep ==
  ASSUME NEW ranked, NEW room \in Nat, NEW m \in Nat,
         NEW kept \in Seq(Match), NEW new \in Seq(Match),
         Named(ranked, m + 1) => ChunkAt(ranked, m + 1) \in Corpus,
         IF Named(ranked, m + 1)
         THEN Kept(kept, new, Turn(m + 1, Len(ranked)), ChunkAt(ranked, m + 1), room)
         ELSE new = kept,
         FairUpTo(kept, ranked, room, m)
  PROVE  FairUpTo(new, ranked, room, m + 1)
<1> DEFINE d == ChunkAt(ranked, m + 1)
           q == Turn(m + 1, Len(ranked))
           Mn(c) == Mentions(ranked, m, c)
           Mn1(c) == Mentions(ranked, m + 1, c)
           Fn(c) == Finders(ranked, m, c)
           Fn1(c) == Finders(ranked, m + 1, c)
<1>1. /\ DOMAIN kept = 1 .. Len(kept) /\ Len(kept) \in Nat
      /\ DOMAIN new = 1 .. Len(new) /\ Len(new) \in Nat
      /\ \A i \in 1 .. Len(kept) : kept[i].chunk \in Corpus
      /\ \A i \in 1 .. Len(new) : new[i].chunk \in Corpus
  <2>1. /\ DOMAIN kept = 1 .. Len(kept) /\ Len(kept) \in Nat
        /\ DOMAIN new = 1 .. Len(new) /\ Len(new) \in Nat
    BY LenProperties
  <2>2. /\ \A i \in 1 .. Len(kept) : kept[i] \in Match
        /\ \A i \in 1 .. Len(new) : new[i] \in Match
    BY ElementOfSeq
  <2>3. \A x \in Match : x.chunk \in Corpus
    BY DEF Match
  <2>4. QED
    BY <2>1, <2>2, <2>3
<1>2. \A c : ~(Named(ranked, m + 1) /\ d = c) => Mn1(c) = Mn(c) /\ Fn1(c) = Fn(c)
  BY MentionsGrow
<1>3. Named(ranked, m + 1) => Mn1(d) = Mn(d) \cup {m + 1} /\ Fn1(d) = Fn(d) \cup {q}
  BY MentionsGrow
<1>4. \A c : Mn(c) # {} => Mn1(c) # {}
  BY <1>2, <1>3
<1>5. \A c : Mn(c) # {} /\ Mn(d) = {} => Earlier(ranked, c, d)
  BY DEF Earlier
<1> HIDE DEF Mn, Mn1, Fn, Fn1, d, q
<1>6. /\ Distinct(kept)
      /\ \A i \in 1 .. Len(kept) : Mn(kept[i].chunk) # {} /\ kept[i].ids = Fn(kept[i].chunk)
      /\ \A i, j \in 1 .. Len(kept) : i < j => Earlier(ranked, kept[i].chunk, kept[j].chunk)
      /\ \A c \in Corpus : Mn(c) # {} /\ ~Knows(kept, c) =>
           /\ Len(kept) = room /\ room < m
           /\ \A i \in 1 .. Len(kept) : Earlier(ranked, kept[i].chunk, c)
      /\ Len(kept) <= m /\ Len(kept) <= room
  BY <1>1 DEF FairUpTo, Mn, Fn
<1> DEFINE size == Len(kept)
<1> size \in Nat /\ size <= m /\ size <= room
  BY <1>1, <1>6
<1> HIDE DEF size
<1>7. SUFFICES /\ Distinct(new)
               /\ \A i \in 1 .. Len(new) : Mn1(new[i].chunk) # {} /\ new[i].ids = Fn1(new[i].chunk)
               /\ \A i, j \in 1 .. Len(new) : i < j => Earlier(ranked, new[i].chunk, new[j].chunk)
               /\ \A c \in Corpus : Mn1(c) # {} /\ ~Knows(new, c) =>
                    /\ Len(new) = room /\ room < m + 1
                    /\ \A i \in 1 .. Len(new) : Earlier(ranked, new[i].chunk, c)
               /\ Len(new) <= m + 1 /\ Len(new) <= room
  BY <1>1 DEF FairUpTo, Mn1, Fn1
<1>8. CASE ~Named(ranked, m + 1)
  <2>1. new = kept /\ \A c : Mn1(c) = Mn(c) /\ Fn1(c) = Fn(c)
    BY <1>2, <1>8
  <2>2. room < m => room < m + 1
    OBVIOUS
  <2>3. Len(kept) <= m => Len(kept) <= m + 1
    BY <1>1
  <2>4. QED
    BY <1>6, <2>1, <2>2, <2>3
<1>9. CASE Named(ranked, m + 1) /\ ~Knows(kept, d) /\ ~(Len(kept) < room) /\ new = kept
  <2>1. \A i \in 1 .. Len(kept) : kept[i].chunk # d
    BY <1>1, <1>9 DEF Knows
  <2>2. \A i \in 1 .. Len(new) : Mn1(new[i].chunk) # {} /\ new[i].ids = Fn1(new[i].chunk)
    BY <1>2, <1>6, <1>9, <2>1
  <2>3. Len(kept) = room /\ room < m + 1
    <3>1. ~(size < room)
      BY <1>9 DEF size
    <3>2. size = room /\ room < m + 1
      BY <3>1
    <3>3. QED
      BY <3>2 DEF size
  <2>4. ASSUME NEW c \in Corpus, Mn1(c) # {}, ~Knows(kept, c), NEW i \in 1 .. Len(kept)
        PROVE  Earlier(ranked, kept[i].chunk, c)
    <3>1. CASE Mn(c) # {}
      BY <1>6, <2>4, <3>1
    <3>2. CASE Mn(c) = {}
      <4>1. c = d
        BY <1>2, <2>4, <3>2
      <4>2. QED
        BY <1>5, <1>6, <3>2, <4>1
    <3>3. QED
      BY <3>1, <3>2
  <2>5. QED
    BY <1>1, <1>6, <1>9, <2>2, <2>3, <2>4
<1>10. CASE /\ Named(ranked, m + 1) /\ ~Knows(kept, d) /\ Len(kept) < room
            /\ Len(new) = Len(kept) + 1
            /\ \A i \in 1 .. Len(kept) : new[i] = kept[i]
            /\ new[Len(kept) + 1].chunk = d /\ new[Len(kept) + 1].ids = {q}
  <2>1. \A i \in 1 .. Len(kept) : kept[i].chunk # d
    BY <1>1, <1>10 DEF Knows
  <2>2. \A i \in 1 .. Len(new) : i \in 1 .. Len(kept) \/ i = Len(kept) + 1
    BY <1>1, <1>10
  <2>3. \A c \in Corpus : Mn(c) # {} => Knows(kept, c)
    <3>1. Len(kept) # room
      BY <1>10
    <3>2. QED
      BY <1>6, <3>1
  <2>4. Mn(d) = {} /\ Fn(d) = {}
    <3>1. d \in Corpus
      BY <1>10 DEF d
    <3>2. Mn(d) = {}
      BY <1>10, <2>3, <3>1
    <3>3. QED
      BY <3>2 DEF Mn, Fn, Finders
  <2>5. Distinct(new)
    BY <1>1, <1>6, <1>10, <2>1, <2>2 DEF Distinct
  <2>6. \A i \in 1 .. Len(new) : Mn1(new[i].chunk) # {} /\ new[i].ids = Fn1(new[i].chunk)
    <3>1. \A i \in 1 .. Len(kept) : Mn1(new[i].chunk) # {} /\ new[i].ids = Fn1(new[i].chunk)
      BY <1>2, <1>6, <1>10, <2>1
    <3>2. Mn1(d) # {} /\ Fn1(d) = {q}
      BY <1>3, <1>10, <2>4
    <3>3. QED
      BY <1>10, <2>2, <3>1, <3>2
  <2>7. ASSUME NEW i \in 1 .. Len(new), NEW j \in 1 .. Len(new), i < j
        PROVE  Earlier(ranked, new[i].chunk, new[j].chunk)
    <3>1. i \in 1 .. Len(kept) /\ new[i] = kept[i]
      BY <1>1, <1>10, <2>7
    <3>2. CASE j \in 1 .. Len(kept)
      BY <1>6, <1>10, <2>7, <3>1, <3>2
    <3>3. CASE j = Len(kept) + 1
      BY <1>5, <1>6, <1>10, <2>4, <3>1, <3>3
    <3>4. QED
      BY <2>2, <3>2, <3>3
  <2>8. ASSUME NEW c \in Corpus, Mn1(c) # {} PROVE Knows(new, c)
    <3>1. CASE c = d
      <4>1. Len(kept) + 1 \in 1 .. Len(new)
        BY <1>1, <1>10
      <4>2. QED
        BY <1>1, <1>10, <3>1, <4>1 DEF Knows
    <3>2. CASE c # d
      <4>1. Knows(kept, c)
        BY <1>2, <2>3, <2>8, <3>2
      <4>2. PICK i \in 1 .. Len(kept) : kept[i].chunk = c
        BY <1>1, <4>1 DEF Knows
      <4>3. i \in 1 .. Len(new) /\ new[i].chunk = c
        BY <1>1, <1>10, <4>2
      <4>4. QED
        BY <1>1, <4>3 DEF Knows
    <3>3. QED
      BY <3>1, <3>2
  <2>9. Len(new) <= m + 1 /\ Len(new) <= room
    <3>1. Len(new) = size + 1 /\ size < room
      BY <1>10 DEF size
    <3>2. QED
      BY <3>1
  <2>10. QED
    BY <2>5, <2>6, <2>7, <2>8, <2>9
<1>11. CASE /\ Named(ranked, m + 1) /\ Knows(kept, d) /\ Len(new) = Len(kept)
            /\ \A i \in 1 .. Len(kept) :
                 /\ new[i].chunk = kept[i].chunk
                 /\ new[i].ids = IF kept[i].chunk = d THEN kept[i].ids \cup {q} ELSE kept[i].ids
  <2>1. Distinct(new)
    BY <1>1, <1>6, <1>11 DEF Distinct
  <2>2. \A i \in 1 .. Len(new) : Mn1(new[i].chunk) # {} /\ new[i].ids = Fn1(new[i].chunk)
    BY <1>2, <1>3, <1>6, <1>11
  <2>3. \A c : Knows(new, c) <=> Knows(kept, c)
    BY <1>1, <1>11 DEF Knows
  <2>4. \A c \in Corpus : Mn1(c) # {} /\ ~Knows(new, c) => Mn(c) # {} /\ ~Knows(kept, c)
    BY <1>2, <1>11, <2>3
  <2>5. \A c \in Corpus : Mn1(c) # {} /\ ~Knows(new, c) =>
          /\ Len(new) = room /\ room < m + 1
          /\ \A i \in 1 .. Len(new) : Earlier(ranked, new[i].chunk, c)
    <3>1. \A c \in Corpus : Mn(c) # {} /\ ~Knows(kept, c) => Len(kept) = room /\ room < m + 1
      <4>1. room < m => room < m + 1
        OBVIOUS
      <4>2. QED
        BY <1>6, <4>1
    <3>2. \A c \in Corpus : Mn(c) # {} /\ ~Knows(kept, c) =>
            \A i \in 1 .. Len(kept) : Earlier(ranked, kept[i].chunk, c)
      BY <1>6
    <3>3. QED
      BY <1>11, <2>4, <3>1, <3>2
  <2>6. \A i, j \in 1 .. Len(new) : i < j => Earlier(ranked, new[i].chunk, new[j].chunk)
    BY <1>6, <1>11
  <2>7. Len(new) <= m + 1 /\ Len(new) <= room
    <3>1. Len(new) = size
      BY <1>11 DEF size
    <3>2. QED
      BY <3>1
  <2>8. QED
    BY <2>1, <2>2, <2>5, <2>6, <2>7
<1>12. QED
  BY <1>8, <1>9, <1>10, <1>11 DEF Kept, d, q

LEMMA MergeFair ==
  ASSUME NEW ranked \in Seq(Seq(Corpus)), ranked # <<>>, NEW room \in Nat, Longest(ranked) \in Nat
  PROVE  /\ Merge(ranked, room) \in Seq(Match)
         /\ FairUpTo(Merge(ranked, room), ranked, room, Len(ranked) * Longest(ranked))
<1> DEFINE n == Len(ranked) * Longest(ranked)
<1>1. n \in Nat
  BY LenProperties
<1>2. PICK g : Merges(g, ranked, room, n) /\ Merge(ranked, room) = g[n]
  BY MergeFold
<1> DEFINE S == {m \in 0 .. n : FairUpTo(g[m], ranked, room, m)}
<1> HIDE DEF n
<1>3. 0 \in S
  <2>1. g[0] = <<>> /\ Len(<<>>) = 0 /\ DOMAIN <<>> = {} /\ 0 \in 0 .. n
    BY <1>1, <1>2, EmptySeq DEF Merges
  <2>2. \A c : Mentions(ranked, 0, c) = {}
    BY DEF Mentions
  <2>3. FairUpTo(<<>>, ranked, room, 0)
    BY <2>1, <2>2 DEF FairUpTo, Distinct
  <2>4. QED
    BY <2>1, <2>3
<1>4. ASSUME NEW m \in 1 .. n, m - 1 \in S PROVE m \in S
  <2>1. m \in Nat \ {0} /\ m - 1 \in Nat /\ m \in 0 .. n /\ m - 1 \in 0 .. n /\ (m - 1) + 1 = m
    BY <1>1
  <2>2. /\ g[m - 1] \in Seq(Match) /\ g[m] \in Seq(Match)
        /\ IF Named(ranked, m) THEN Kept(g[m - 1], g[m], Turn(m, Len(ranked)), ChunkAt(ranked, m), room)
           ELSE g[m] = g[m - 1]
    BY <1>2, <2>1 DEF Merges
  <2>3. FairUpTo(g[m - 1], ranked, room, m - 1)
    BY <1>4
  <2>4. Named(ranked, m) => ChunkAt(ranked, m) \in Corpus
    BY <2>1, PlacesNamed
  <2>5. FairUpTo(g[m], ranked, room, (m - 1) + 1)
    BY <2>1, <2>2, <2>3, <2>4, FairStep
  <2>6. QED
    BY <2>1, <2>5
<1> HIDE DEF S
<1>5. 0 .. n \subseteq S
  BY <1>1, <1>3, <1>4, UpTo
<1>6. n \in S /\ n \in 0 .. n
  BY <1>1, <1>5
<1>7. FairUpTo(g[n], ranked, room, n) /\ g[n] \in Seq(Match)
  BY <1>2, <1>6 DEF S, Merges
<1>8. QED
  BY <1>2, <1>7 DEF n

(* The place at which a query's r-th chunk comes up.                       *)
LEMMA PlaceOf ==
  ASSUME NEW of \in Nat \ {0}, NEW r \in Nat \ {0}, NEW q \in 1 .. of
  PROVE  /\ (r - 1) * of + q \in Nat \ {0}
         /\ Rank((r - 1) * of + q, of) = r /\ Turn((r - 1) * of + q, of) = q
<1> DEFINE m == (r - 1) * of + q
           s == Rank(m, of)
           t == Turn(m, of)
<1>1. r - 1 \in Nat /\ (r - 1) * of \in Nat /\ q \in Nat \ {0} /\ q <= of
  <2>1. r - 1 \in Nat
    OBVIOUS
  <2>2. \A a, b \in Nat : a * b \in Nat
    OBVIOUS
  <2>3. QED
    BY <2>1, <2>2
<1>2. m \in Nat \ {0}
  BY <1>1
<1> HIDE DEF m
<1>3. t \in 1 .. of /\ s \in Nat \ {0} /\ m = (s - 1) * of + t
  BY <1>2, Rounds DEF Divides
<1> HIDE DEF s, t
<1>4. \A a, b \in Nat : a < b => (a + 1) * of <= b * of
  <2>1. ASSUME NEW a \in Nat, NEW b \in Nat, a < b PROVE (a + 1) * of <= b * of
    <3>1. PICK k \in Nat : b = (a + 1) + k
      <4>1. b - (a + 1) \in Nat /\ b = (a + 1) + (b - (a + 1))
        BY <2>1
      <4>2. QED
        BY <4>1
    <3>2. b * of = ((a + 1) * of) + (k * of) /\ k * of \in Nat /\ (a + 1) * of \in Nat
      BY <3>1
    <3>3. QED
      BY <3>2
  <2>2. QED
    BY <2>1
<1>5. \A a \in Nat : (a + 1) * of = (a * of) + of /\ a * of \in Nat
  OBVIOUS
<1>6. ((s - 1) * of) + t = ((r - 1) * of) + q
  BY <1>3 DEF m
<1>7. s = r
  <2>1. s - 1 \in Nat /\ r - 1 \in Nat
    BY <1>3
  <2>2. CASE s - 1 < r - 1
    <3>1. ((s - 1) * of) + of <= (r - 1) * of
      BY <1>4, <1>5, <2>1, <2>2
    <3>2. (s - 1) * of \in Nat /\ (r - 1) * of \in Nat
      BY <1>5, <2>1
    <3>3. QED
      BY <1>1, <1>3, <1>6, <3>1, <3>2
  <2>3. CASE r - 1 < s - 1
    <3>1. ((r - 1) * of) + of <= (s - 1) * of
      BY <1>4, <1>5, <2>1, <2>3
    <3>2. (s - 1) * of \in Nat /\ (r - 1) * of \in Nat
      BY <1>5, <2>1
    <3>3. QED
      BY <1>1, <1>3, <1>6, <3>1, <3>2
  <2>4. QED
    BY <1>3, <2>1, <2>2, <2>3
<1>8. t = q
  BY <1>1, <1>3, <1>6, <1>7
<1>9. QED
  BY <1>2, <1>7, <1>8 DEF m, s, t

(* A chunk comes up at some place of the round-robin exactly if a query    *)
(* found it.                                                               *)
LEMMA MentionedIsFound ==
  ASSUME NEW ranked \in Seq(Seq(Corpus)), ranked # <<>>, NEW bound \in Nat,
         \A q \in DOMAIN ranked : Len(ranked[q]) <= bound, NEW c
  PROVE  /\ Longest(ranked) \in 0 .. bound
         /\ Len(ranked) * Longest(ranked) \in Nat
         /\ Finders(ranked, Len(ranked) * Longest(ranked), c) =
              {q \in DOMAIN ranked : c \in Range(ranked[q])}
<1> DEFINE of == Len(ranked)
           n == of * Longest(ranked)
<1>1. /\ Longest(ranked) \in 0 .. bound
      /\ \A q \in DOMAIN ranked : Len(ranked[q]) <= Longest(ranked)
  BY LongestIs
<1>2. of \in Nat \ {0} /\ DOMAIN ranked = 1 .. of /\ n \in Nat
  BY <1>1, LenProperties, EmptySeq
<1>3. \A q \in 1 .. of : /\ Len(ranked[q]) \in Nat /\ DOMAIN ranked[q] = 1 .. Len(ranked[q])
  BY <1>2, ElementOfSeq, LenProperties
<1> HIDE DEF of, n
<1>4. ASSUME NEW q \in Finders(ranked, n, c)
      PROVE  q \in DOMAIN ranked /\ c \in Range(ranked[q])
  <2>1. PICK m \in 1 .. n : Named(ranked, m) /\ ChunkAt(ranked, m) = c /\ q = Turn(m, of)
    BY DEF Finders, Mentions, of
  <2>2. m \in Nat \ {0}
    BY <1>2
  <2>3. q \in 1 .. of /\ Rank(m, of) \in Nat \ {0}
    BY <1>2, <2>1, <2>2, Rounds DEF Divides
  <2>4. Rank(m, of) \in DOMAIN ranked[q] /\ ranked[q][Rank(m, of)] = c
    BY <1>3, <2>1, <2>3 DEF Named, ChunkAt, of
  <2>5. QED
    BY <1>2, <2>3, <2>4 DEF Range
<1>5. ASSUME NEW q \in DOMAIN ranked, c \in Range(ranked[q])
      PROVE  q \in Finders(ranked, n, c)
  <2>1. PICK r \in 1 .. Len(ranked[q]) : ranked[q][r] = c
    BY <1>2, <1>3, <1>5 DEF Range
  <2>2. q \in 1 .. of /\ r \in Nat \ {0} /\ r <= Longest(ranked)
    BY <1>1, <1>2, <1>3
  <2> DEFINE m == (r - 1) * of + q
  <2>3. m \in Nat \ {0} /\ Rank(m, of) = r /\ Turn(m, of) = q
    BY <1>2, <2>2, PlaceOf
  <2>4. m <= n
    <3>1. PICK k \in Nat : Longest(ranked) = r + k
      <4>1. Longest(ranked) - r \in Nat /\ Longest(ranked) = r + (Longest(ranked) - r)
        BY <1>1, <2>2
      <4>2. QED
        BY <4>1
    <3>2. of * (r + k) = (((r - 1) * of) + of) + (k * of)
      BY <1>2, <2>2
    <3>3. k * of \in Nat /\ (r - 1) * of \in Nat
      <4>1. r - 1 \in Nat
        BY <2>2
      <4>2. QED
        BY <1>2, <4>1
    <3>4. n = of * (r + k)
      BY <3>1 DEF n
    <3> DEFINE x == (r - 1) * of
               y == k * of
    <3>5. n = (x + of) + y /\ m = x + q /\ x \in Nat /\ y \in Nat
      BY <3>2, <3>3, <3>4
    <3> HIDE DEF x, y, m
    <3>6. QED
      BY <1>2, <2>2, <3>5
  <2> HIDE DEF m
  <2>5. m \in 1 .. n /\ Named(ranked, m) /\ ChunkAt(ranked, m) = c
    BY <1>2, <1>3, <2>1, <2>2, <2>3, <2>4 DEF Named, ChunkAt, of
  <2>6. QED
    BY <2>3, <2>5 DEF Finders, Mentions, of
<1>6. QED
  BY <1>1, <1>2, <1>4, <1>5 DEF n, of

-----------------------------------------------------------------------------
(* Retrieval: nothing that a query found is dropped, so every query has a  *)
(* candidate.                                                              *)

(* What a search for a dimension of the report returns.                    *)
Found(list, d) ==
  /\ list \in Seq(Corpus) /\ Len(list) <= CandidateK
  /\ \A i, j \in DOMAIN list : list[i] = list[j] => i = j
  /\ \A i \in DOMAIN list : ChunkDim[list[i]] = d
  /\ d \in Dimensions => list # <<>>

(* The whole corpus is searched; an analysis has room for every candidate; *)
(* the merge of the lists found is fair.                                   *)
RetrievalInv ==
  /\ stage \notin {"idle", "failed"} => store = Corpus
  /\ limit \in Nat
  /\ stage \in {"retrieve", "rerank", "report", "done"} => Covers(queries) /\ limit = Room(queries)
  /\ \A q \in DOMAIN matches : Found(matches[q], queries[q])
  /\ stage \in {"rerank", "report", "searched", "done"} =>
       /\ Len(matches) = Len(queries) /\ matches # <<>>
       /\ merged \in Seq(Match)
       /\ FairUpTo(merged, matches, limit, Len(matches) * Longest(matches))
  /\ failure # "value"

LEMMA RankingsAreFound ==
  ASSUME store = Corpus, NEW d, NEW list \in Rankings(d, CandidateK)
  PROVE  Found(list, d)
<1> DEFINE pool == {c \in store : ChunkDim[c] = d}
           size == Shortest(CandidateK, Cardinality(pool))
<1>1. IsFiniteSet(pool) /\ Cardinality(pool) \in Nat
  <2>1. IsFiniteSet(Corpus)
    BY CorpusIsNumbered, FS_Interval
  <2>2. pool \subseteq Corpus
    OBVIOUS
  <2>3. IsFiniteSet(pool)
    BY <2>1, <2>2, FS_Subset
  <2>4. QED
    BY <2>3, FS_CardinalityType
<1>2. /\ size \in Nat /\ size <= CandidateK
      /\ pool # {} => size # 0
  <2>1. pool # {} => Cardinality(pool) # 0
    BY <1>1, FS_EmptySet
  <2>2. QED
    BY <1>1, <2>1, SizesAssumption DEF Shortest
<1>3. list \in [1 .. size -> pool] /\ \A i, j \in DOMAIN list : list[i] = list[j] => i = j
  BY DEF Rankings
<1> HIDE DEF size
<1>4. list \in Seq(pool) /\ Len(list) = size
  BY <1>2, <1>3, SeqDef, LenProperties
<1>5. list \in Seq(Corpus)
  BY <1>2, <1>3, SeqDef
<1>6. \A i \in DOMAIN list : ChunkDim[list[i]] = d
  BY <1>3
<1>7. d \in Dimensions => list # <<>>
  <2>1. ASSUME d \in Dimensions PROVE pool # {}
    BY <2>1, CorpusAssumption DEF Corpus
  <2>2. QED
    BY <1>2, <1>4, <2>1, EmptySeq
<1>8. QED
  BY <1>2, <1>3, <1>4, <1>5, <1>6, <1>7 DEF Found

(* A merge with room for every chunk of every list leaves every query that *)
(* found something a candidate.                                            *)
LEMMA NothingIsDropped ==
  ASSUME NEW ranked \in Seq(Seq(Corpus)), ranked # <<>>,
         \A q \in DOMAIN ranked : Len(ranked[q]) <= CandidateK,
         NEW kept \in Seq(Match),
         FairUpTo(kept, ranked, CandidateK * Len(ranked), Len(ranked) * Longest(ranked)),
         NEW q \in DOMAIN ranked, ranked[q] # <<>>
  PROVE  Candidates(kept, q) # <<>>
<1> DEFINE of == Len(ranked)
           n == of * Longest(ranked)
           c == ranked[q][1]
<1>1. /\ CandidateK \in Nat /\ of \in Nat \ {0} /\ Len(kept) \in Nat
      /\ DOMAIN kept = 1 .. Len(kept)
  BY SizesAssumption, LenProperties, EmptySeq
<1>2. /\ Longest(ranked) \in 0 .. CandidateK
      /\ n \in Nat
      /\ Finders(ranked, n, c) = {p \in DOMAIN ranked : c \in Range(ranked[p])}
  BY <1>1, MentionedIsFound
<1>3. c \in Range(ranked[q]) /\ c \in Corpus
  <2>1. ranked[q] \in Seq(Corpus)
    BY ElementOfSeq, LenProperties
  <2>2. 1 \in DOMAIN ranked[q]
    BY <2>1, LenProperties, EmptySeq
  <2>3. QED
    BY <2>1, <2>2, ElementOfSeq, LenProperties DEF Range
<1>4. n <= CandidateK * of
  <2>1. PICK k \in Nat : CandidateK = Longest(ranked) + k
    <3>1. /\ CandidateK - Longest(ranked) \in Nat
          /\ CandidateK = Longest(ranked) + (CandidateK - Longest(ranked))
      BY <1>1, <1>2
    <3>2. QED
      BY <3>1
  <2>2. CandidateK * of = (of * Longest(ranked)) + (k * of) /\ k * of \in Nat
    BY <1>1, <1>2, <2>1
  <2>3. QED
    BY <1>2, <2>2
<1>5. q \in Finders(ranked, n, c) /\ Mentions(ranked, n, c) # {}
  BY <1>2, <1>3 DEF Finders
<1> HIDE DEF of, n, c
<1>6. Knows(kept, c)
  <2>1. SUFFICES ASSUME ~Knows(kept, c) PROVE FALSE
    OBVIOUS
  <2>2. CandidateK * of < n
    BY <1>3, <1>5, <2>1 DEF FairUpTo, of, n
  <2>3. CandidateK * of \in Nat
    BY <1>1
  <2>4. QED
    BY <1>2, <1>4, <2>2, <2>3
<1>7. PICK j \in 1 .. Len(kept) : kept[j].chunk = c
  BY <1>1, <1>6 DEF Knows
<1>8. q \in kept[j].ids
  BY <1>1, <1>5, <1>7 DEF FairUpTo, of, n
<1>9. PICK i \in 1 .. Len(Candidates(kept, q)) : TRUE
  BY <1>7, <1>8, CandidatesAre
<1>10. Len(Candidates(kept, q)) # 0
  OBVIOUS
<1>11. QED
  BY <1>10, EmptySeq
LEMMA RetrievalHeld ==
  ASSUME NEW plan, NEW room \in Nat, Holds(plan, room),
         stage' \in {"idle", "plan", "search", "failed"}, failure' # "value",
         stage' \notin {"idle", "failed"} => store' = Corpus
  PROVE  RetrievalInv'
<1>1. matches' = <<>> /\ limit' = room /\ DOMAIN matches' = {}
  BY EmptySeq DEF Holds
<1>2. QED
  BY <1>1 DEF RetrievalInv, Corpus

LEMMA RetrievalKept ==
  ASSUME RetrievalInv, UNCHANGED <<found, failure>>,
         stage \notin {"idle", "failed"} => store' = Corpus,
         \/ stage' = stage
         \/ stage = "rerank" /\ stage' = "report"
         \/ stage = "report" /\ stage' = "done"
  PROVE  RetrievalInv'
<1>1. /\ queries' = queries /\ matches' = matches /\ limit' = limit /\ merged' = merged
      /\ failure' = failure
  BY DEF found
<1>2. stage' \notin {"idle", "failed"} => store' = Corpus
  BY DEF RetrievalInv
<1>3. limit' \in Nat /\ failure' # "value"
  BY <1>1 DEF RetrievalInv
<1>4. stage' \in {"retrieve", "rerank", "report", "done"} =>
        Covers(queries') /\ limit' = Room(queries')
  BY <1>1 DEF RetrievalInv
<1>5. \A q \in DOMAIN matches' : Found(matches'[q], queries'[q])
  BY <1>1 DEF RetrievalInv
<1>6. stage' \in {"rerank", "report", "searched", "done"} =>
       /\ Len(matches') = Len(queries') /\ matches' # <<>>
       /\ merged' \in Seq(Match)
       /\ FairUpTo(merged', matches', limit', Len(matches') * Longest(matches'))
  BY <1>1 DEF RetrievalInv
<1>7. QED
  BY <1>2, <1>3, <1>4, <1>5, <1>6 DEF RetrievalInv, Corpus

(* One more query is searched. *)
LEMMA ListFound ==
  ASSUME AnalysisInv, RetrievalInv, stage \in {"retrieve", "search"},
         Len(matches) + 1 <= Len(queries),
         NEW list \in Rankings(queries[Len(matches) + 1], CandidateK),
         NEW ranked, ranked = Append(matches, list)
  PROVE  /\ ranked \in Seq(Seq(Corpus)) /\ ranked # <<>> /\ Len(ranked) = Len(matches) + 1
         /\ \A q \in DOMAIN ranked : Found(ranked[q], queries[q])
<1>1. Found(list, queries[Len(matches) + 1])
  BY RankingsAreFound DEF RetrievalInv
<1>2. matches \in Seq(Seq(Corpus)) /\ list \in Seq(Corpus)
  BY <1>1 DEF AnalysisInv, Found
<1>3. /\ ranked \in Seq(Seq(Corpus)) /\ Len(ranked) = Len(matches) + 1
      /\ \A i \in 1 .. Len(matches) : ranked[i] = matches[i]
      /\ ranked[Len(matches) + 1] = list
      /\ Len(matches) \in Nat /\ DOMAIN matches = 1 .. Len(matches)
  BY <1>2, AppendProperties, LenProperties
<1>4. DOMAIN ranked = 1 .. (Len(matches) + 1)
  BY <1>3, LenProperties
<1>5. \A q \in DOMAIN ranked : q \in 1 .. Len(matches) \/ q = Len(matches) + 1
  BY <1>3, <1>4
<1>6. \A q \in DOMAIN ranked : Found(ranked[q], queries[q])
  BY <1>1, <1>3, <1>5 DEF RetrievalInv
<1>7. ranked # <<>>
  BY <1>3, EmptySeq
<1>8. QED
  BY <1>3, <1>6, <1>7

LEMMA RetrievalFinds ==
  ASSUME AnalysisInv, RetrievalInv, NEW list \in Lists, FindMatches(list)
  PROVE  RetrievalInv'
<1> DEFINE ranked == Append(matches, list)
<1>1. /\ stage \in {"retrieve", "search"} /\ Len(matches) + 1 <= Len(queries)
      /\ list \in Rankings(queries[Len(matches) + 1], CandidateK)
      /\ matches' = ranked /\ store' = store /\ stage' = stage
      /\ UNCHANGED <<failure, queries, limit, merged>>
  <2>1. Len(matches) \in Nat /\ Len(queries) \in Nat
    BY LenProperties DEF AnalysisInv
  <2>2. QED
    BY <2>1 DEF FindMatches, index
<1>2. \A q \in DOMAIN ranked : Found(ranked[q], queries[q])
  BY <1>1, ListFound
<1> HIDE DEF ranked
<1>3. stage' \notin {"idle", "failed"} => store' = Corpus
  BY <1>1 DEF RetrievalInv
<1>4. limit' \in Nat /\ failure' # "value"
  BY <1>1 DEF RetrievalInv
<1>5. stage' \in {"retrieve", "rerank", "report", "done"} =>
        Covers(queries') /\ limit' = Room(queries')
  BY <1>1 DEF RetrievalInv
<1>6. \A q \in DOMAIN matches' : Found(matches'[q], queries'[q])
  BY <1>1, <1>2
<1>7. stage' \notin {"rerank", "report", "searched", "done"}
  BY <1>1
<1>8. QED
  BY <1>3, <1>4, <1>5, <1>6, <1>7 DEF RetrievalInv, Corpus

LEMMA RetrievalMerges ==
  ASSUME AnalysisInv, RetrievalInv, NEW list \in Lists, FindLastMatches(list)
  PROVE  RetrievalInv'
<1> DEFINE ranked == Append(matches, list)
           kept == Merge(ranked, limit)
<1>1. /\ stage \in {"retrieve", "search"} /\ Len(ranked) = Len(queries) /\ store' = store
      /\ list \in Rankings(queries[Len(ranked)], CandidateK)
  BY DEF FindLastMatches, index
<1>2. Len(ranked) = Len(matches) + 1 /\ Len(matches) + 1 <= Len(queries)
  <2>1. matches \in Seq(Seq(Corpus)) /\ list \in Seq(Corpus) /\ Len(queries) \in Nat
    <3>1. list \in Seq(Corpus)
      BY DEF Lists, SeqOf
    <3>2. matches \in Seq(Seq(Corpus)) /\ queries \in Seq(Range(ChunkDim))
      BY DEF AnalysisInv
    <3>3. QED
      BY <3>1, <3>2, LenProperties
  <2>2. Len(ranked) = Len(matches) + 1
    BY <2>1, AppendProperties
  <2>3. QED
    BY <1>1, <2>1, <2>2
<1>3. /\ ranked \in Seq(Seq(Corpus)) /\ ranked # <<>>
      /\ \A q \in DOMAIN ranked : Found(ranked[q], queries[q])
  BY <1>1, <1>2, ListFound
<1>4. limit \in Nat /\ store = Corpus /\ failure = "none"
  BY <1>1 DEF RetrievalInv, AnalysisInv
<1>5. \A q \in DOMAIN ranked : Len(ranked[q]) <= CandidateK
  BY <1>3 DEF Found
<1>6. Longest(ranked) \in Nat
  <2>1. CandidateK \in Nat
    BY SizesAssumption
  <2> HIDE DEF ranked
  <2>2. Longest(ranked) \in 0 .. CandidateK
    BY <1>3, <1>5, <2>1, MentionedIsFound
  <2>3. QED
    BY <2>1, <2>2
<1>7. kept \in Seq(Match) /\ FairUpTo(kept, ranked, limit, Len(ranked) * Longest(ranked))
  BY <1>3, <1>4, <1>6, MergeFair
<1>8. /\ matches' = ranked /\ merged' = kept
      /\ stage' = IF stage = "search" THEN "searched" ELSE "rerank"
      /\ UNCHANGED <<failure, queries, limit>>
  <2>1. CASE stage = "search"
    BY <1>1, <2>1 DEF FindLastMatches
  <2>2. CASE stage = "retrieve"
    <3>1. Covers(queries) /\ limit = CandidateK * Len(ranked)
      BY <1>1, <2>2 DEF RetrievalInv, Room
    <3>2. DOMAIN queries = DOMAIN ranked
      BY <1>1, <1>3, LenProperties DEF AnalysisInv
    <3>3. ASSUME NEW q \in DOMAIN queries PROVE Candidates(kept, q) # <<>>
      <4>1. queries[q] \in Dimensions
        BY <3>1 DEF Covers, Range
      <4>2. ranked[q] # <<>>
        BY <1>3, <3>2, <4>1 DEF Found
      <4> HIDE DEF ranked, kept
      <4>3. QED
        BY <1>3, <1>5, <1>7, <3>1, <3>2, <4>2, NothingIsDropped
    <3>4. QED
      BY <2>2, <3>3 DEF FindLastMatches
  <2>3. QED
    BY <1>1, <2>1, <2>2
<1> HIDE DEF ranked, kept
<1>9. stage' \notin {"idle", "failed"} => store' = Corpus
  BY <1>1, <1>4
<1>10. limit' \in Nat /\ failure' # "value"
  BY <1>4, <1>8
<1>11. stage' \in {"retrieve", "rerank", "report", "done"} =>
         Covers(queries') /\ limit' = Room(queries')
  BY <1>1, <1>8 DEF RetrievalInv
<1>12. \A q \in DOMAIN matches' : Found(matches'[q], queries'[q])
  BY <1>3, <1>8
<1>13. /\ Len(matches') = Len(queries') /\ matches' # <<>> /\ merged' \in Seq(Match)
       /\ FairUpTo(merged', matches', limit', Len(matches') * Longest(matches'))
  BY <1>1, <1>3, <1>7, <1>8
<1>14. QED
  BY <1>9, <1>10, <1>11, <1>12, <1>13 DEF RetrievalInv, Corpus
LEMMA RetrievalStep ==
  IndexInv /\ IndexInv' /\ AnalysisInv /\ RetrievalInv /\ [Next]_vars => RetrievalInv'
<1> SUFFICES ASSUME IndexInv, IndexInv', AnalysisInv, RetrievalInv, [Next]_vars
             PROVE  RetrievalInv'
  OBVIOUS
<1>1. ASSUME UNCHANGED <<stage, failure, found>>, store \subseteq store' PROVE RetrievalInv'
  <2>1. store' \subseteq Corpus
    BY DEF IndexInv, Corpus
  <2>2. stage \notin {"idle", "failed"} => store' = Corpus
    BY <1>1, <2>1 DEF RetrievalInv
  <2>3. QED
    BY <1>1, <2>2, RetrievalKept
<1>2. ASSUME NEW error \in Failures \ {"value"}, EndWith(error) PROVE RetrievalInv'
  BY <1>2, RetrievalHeld DEF EndWith
<1>3. (\E p \in Processes : Serving(p)) => store = Corpus
  BY DEF IndexInv, ServesWholeCorpus
<1>4. CASE \E p \in Processes : StartBuild(p) \/ UpsertBatch(p)
  BY <1>1, <1>4 DEF StartBuild, UpsertBatch
<1>5. ASSUME NEW p \in Processes, Stop(p) PROVE RetrievalInv'
  <2>1. CASE stage' = "idle" /\ failure' = "none" /\ Holds(<<>>, 0)
    BY <2>1, RetrievalHeld
  <2>2. CASE UNCHANGED <<stage, failure, attempts, found, reranked, chosen, usage, billed>>
    BY <1>1, <1>5, <2>2 DEF Stop
  <2>3. QED
    BY <1>5, <2>1, <2>2 DEF Stop
<1>6. CASE Start
  BY <1>3, <1>6, RetrievalHeld DEF Start, index
<1>7. ASSUME NEW plan \in Plans, NEW room \in Limits, Search(plan, room) PROVE RetrievalInv'
  <2>1. room \in Nat
    BY SizesAssumption
  <2>2. QED
    BY <1>3, <1>7, <2>1, RetrievalHeld DEF Search, index
<1>8. ASSUME NEW plan \in Plans, NEW t \in Tokens, PlanReply(plan, t) PROVE RetrievalInv'
  <2>1. /\ stage = "plan" /\ store' = store /\ failure' = failure /\ matches' = matches
        /\ store = Corpus /\ matches = <<>>
    BY <1>8 DEF PlanReply, index, RetrievalInv, AnalysisInv
  <2>2. \/ stage' = "retrieve" /\ Covers(plan) /\ queries' = plan /\ limit' = Room(plan)
        \/ stage' = "plan" /\ limit' = limit
    BY <1>8, <2>1 DEF PlanReply
  <2>3. limit' \in Nat
    <3>1. Len(plan) \in Nat
      BY PlansAssumption, LenProperties
    <3>2. Room(plan) \in Nat
      BY <3>1, SizesAssumption DEF Room
    <3>3. QED
      BY <2>2, <3>2 DEF RetrievalInv
  <2>4. DOMAIN matches' = {}
    BY <2>1, EmptySeq
  <2>5. stage' \in {"retrieve", "rerank", "report", "done"} =>
          Covers(queries') /\ limit' = Room(queries')
    BY <2>2
  <2>6. stage' \notin {"rerank", "report", "searched", "done"} /\ failure' # "value"
    BY <2>1, <2>2 DEF RetrievalInv
  <2>7. QED
    BY <2>1, <2>3, <2>4, <2>5, <2>6 DEF RetrievalInv, Corpus
<1>9. ASSUME NEW plan \in Plans, PlannerGivesUp(plan) PROVE RetrievalInv'
  BY <1>2, <1>9 DEF PlannerGivesUp, Failures
<1>10. CASE RerankStep
  <2>1. PICK q \in DOMAIN queries :
          \/ RerankRetry(q)
          \/ RerankFails(q)
          \/ \E items \in SeqOf(1 .. CandidateK, FinalMax), t \in Tokens : RerankReply(q, items, t)
    BY <1>10 DEF RerankStep
  <2>2. CASE RerankFails(q)
    BY <1>2, <2>2 DEF RerankFails, Failures
  <2>3. CASE ~RerankFails(q)
    <3>1. /\ stage = "rerank" /\ stage' \in {"rerank", "report"}
          /\ UNCHANGED <<index, failure, found>>
      BY <2>1, <2>3 DEF RerankRetry, RerankReply
    <3>2. store = Corpus /\ store' = store
      BY <3>1 DEF RetrievalInv, index
    <3>3. QED
      BY <3>1, <3>2, RetrievalKept
  <2>4. QED
    BY <2>2, <2>3
<1>11. ASSUME NEW t \in Tokens, Report(t) PROVE RetrievalInv'
  <2>1. stage = "report" /\ stage' = "done" /\ UNCHANGED <<index, failure, found>>
    BY <1>11 DEF Report
  <2>2. store = Corpus /\ store' = store
    BY <2>1 DEF RetrievalInv, index
  <2>3. QED
    BY <2>1, <2>2, RetrievalKept
<1>12. CASE CallFails \/ Timeout
  BY <1>2, <1>12 DEF CallFails, Timeout, Failures
<1>13. CASE UNCHANGED vars
  BY <1>1, <1>13 DEF vars, index
<1>14. QED
  BY <1>4, <1>5, <1>6, <1>7, <1>8, <1>9, <1>10, <1>11, <1>12, <1>13, RetrievalFinds,
     RetrievalMerges DEF Next

LEMMA RetrievalHolds == Spec => [](IndexInv /\ AnalysisInv /\ RetrievalInv)
<1>1. Init => AnalysisInv
  BY InitAnalysis
<1>2. Init => RetrievalInv
  BY EmptySeq DEF Init, RetrievalInv
<1>3. QED
  BY <1>1, <1>2, IndexHolds, AnalysisStep, RetrievalStep, PTL DEF Spec

(* A plan that passed the coverage check finds candidates for every query: *)
(* only a provider or a timeout ends an analysis without a report          *)
(* (retrieval_reranking.py:103-106, rag_context.py:120-126).               *)
THEOREM NoValueErrors == Spec => []OnlyProvidersFail
<1>1. RetrievalInv => OnlyProvidersFail
  BY DEF RetrievalInv, OnlyProvidersFail
<1>2. QED
  BY <1>1, RetrievalHolds, PTL
-----------------------------------------------------------------------------
(* The merge against its reference definition.                             *)

LEMMA DistinctCount ==
  ASSUME NEW S, NEW s \in Seq(S), \A i, j \in DOMAIN s : s[i] = s[j] => i = j
  PROVE  IsFiniteSet(Range(s)) /\ Cardinality(Range(s)) = Len(s)
<1>1. Len(s) \in Nat /\ DOMAIN s = 1 .. Len(s)
  BY LenProperties
<1>2. IsFiniteSet(1 .. Len(s)) /\ Cardinality(1 .. Len(s)) = Len(s)
  <2> DEFINE k == Len(s)
  <2>1. k \in Nat
    BY <1>1
  <2> HIDE DEF k
  <2>2. IsFiniteSet(1 .. k) /\ Cardinality(1 .. k) = IF 1 > k THEN 0 ELSE k - 1 + 1
    BY <2>1, FS_Interval
  <2>3. Cardinality(1 .. k) = k
    BY <2>1, <2>2
  <2>4. QED
    BY <2>2, <2>3 DEF k
<1>3. s \in Bijection(1 .. Len(s), Range(s))
  <2>1. s \in [1 .. Len(s) -> Range(s)]
    BY <1>1, LenProperties DEF Range
  <2>2. \A c \in Range(s) : \E i \in 1 .. Len(s) : s[i] = c
    BY <1>1 DEF Range
  <2>3. QED
    BY <1>1, <2>1, <2>2 DEF Bijection, Injection, Surjection, IsInjective
<1>4. ExistsBijection(1 .. Len(s), Range(s))
  BY <1>3 DEF ExistsBijection
<1>5. QED
  BY <1>2, <1>4, FS_Bijection

Mentioned(ranked, n) == {c \in Corpus : Mentions(ranked, n, c) # {}}

LEMMA FairMergeCount ==
  ASSUME NEW kept \in Seq(Match), NEW room \in Nat, NEW n \in Nat, NEW ranked,
         FairUpTo(kept, ranked, room, n)
  PROVE  Len(kept) = Shortest(room, Cardinality(Mentioned(ranked, n)))
<1> DEFINE mentioned == Mentioned(ranked, n)
<1> USE DEF Mentioned
<1> DEFINE s == [i \in 1 .. Len(kept) |-> kept[i].chunk]
<1>1. /\ Len(kept) \in Nat /\ DOMAIN kept = 1 .. Len(kept)
      /\ \A i \in 1 .. Len(kept) : kept[i] \in Match /\ kept[i].chunk \in Corpus
  <2>1. \A m \in Match : m.chunk \in Corpus
    BY DEF Match
  <2>2. QED
    BY <2>1, LenProperties, ElementOfSeq
<1>2. s \in Seq(Corpus) /\ Len(s) = Len(kept) /\ DOMAIN s = 1 .. Len(kept)
  <2>1. s \in [1 .. Len(kept) -> Corpus]
    BY <1>1
  <2>2. s \in Seq(Corpus)
    BY <1>1, <2>1, SeqDef
  <2> HIDE DEF s
  <2>3. QED
    BY <1>1, <2>1, <2>2, LenProperties
<1>3. \A i, j \in DOMAIN s : s[i] = s[j] => i = j
  BY <1>1, <1>2 DEF FairUpTo, Distinct
<1>4. \A c : c \in Range(s) <=> Knows(kept, c)
  BY <1>1, <1>2 DEF Range, Knows
<1>5. Range(s) \subseteq mentioned
  <2>1. ASSUME NEW i \in 1 .. Len(kept) PROVE s[i] \in mentioned
    BY <1>1, <2>1 DEF FairUpTo
  <2>2. QED
    BY <1>2, <2>1 DEF Range
<1> HIDE DEF s
<1>6. IsFiniteSet(Range(s)) /\ Cardinality(Range(s)) = Len(kept)
  BY <1>2, <1>3, DistinctCount
<1>7. IsFiniteSet(mentioned) /\ Cardinality(mentioned) \in Nat
  <2>1. IsFiniteSet(Corpus)
    BY CorpusIsNumbered, FS_Interval
  <2>2. QED
    BY <2>1, FS_Subset, FS_CardinalityType
<1>8. Len(kept) <= Cardinality(mentioned)
  BY <1>5, <1>6, <1>7, FS_Subset
<1>9. Len(kept) <= room
  BY DEF FairUpTo
<1>10. CASE mentioned = Range(s)
  <2>1. Cardinality(mentioned) = Len(kept)
    BY <1>6, <1>10
  <2> DEFINE size == Len(kept)
  <2>2. size \in Nat /\ size <= room /\ Cardinality(mentioned) = size
    BY <1>1, <1>9, <2>1
  <2> HIDE DEF size
  <2>3. Shortest(room, size) = size
    BY <2>2 DEF Shortest
  <2>4. QED
    BY <2>2, <2>3 DEF size
<1>11. CASE mentioned # Range(s)
  <2>1. PICK c \in mentioned : ~Knows(kept, c)
    BY <1>4, <1>5, <1>11
  <2>2. Len(kept) = room
    BY <2>1 DEF FairUpTo
  <2>3. QED
    BY <1>7, <1>8, <2>2 DEF Shortest
<1>12. QED
  BY <1>10, <1>11

(* The place of a chunk's first mention.                                   *)
LEMMA FirstMention ==
  ASSUME NEW ranked, NEW n \in Nat, NEW c, Mentions(ranked, n, c) # {}
  PROVE  LET first == CHOOSE m \in Mentions(ranked, n, c) : \A k \in Mentions(ranked, n, c) : m <= k
         IN  /\ first \in Mentions(ranked, n, c)
             /\ \A k \in Mentions(ranked, n, c) : first <= k
<1>1. Mentions(ranked, n, c) \in SUBSET Nat
  BY DEF Mentions
<1>2. QED
  BY <1>1, LeastNatural

LEMMA EarlierIsFirst ==
  ASSUME NEW ranked, NEW n \in Nat, NEW c, NEW d, Earlier(ranked, c, d),
         NEW f \in Mentions(ranked, n, c), \A k \in Mentions(ranked, n, c) : f <= k,
         NEW g \in Mentions(ranked, n, d)
  PROVE  f < g
<1>1. PICK m \in Nat : Mentions(ranked, m, c) # {} /\ Mentions(ranked, m, d) = {}
  BY DEF Earlier
<1>2. g \in Nat /\ f \in Nat /\ g <= n /\ ~(g <= m)
  BY <1>1 DEF Mentions
<1>3. PICK k \in Mentions(ranked, m, c) : TRUE
  BY <1>1
<1>4. k \in Nat /\ k <= m /\ k <= n /\ k \in Mentions(ranked, n, c)
  BY <1>1, <1>2, <1>3 DEF Mentions
<1>5. f <= k
  BY <1>4
<1>6. QED
  BY <1>1, <1>2, <1>4, <1>5
(* The chunks kept are those found, each with all the queries that found   *)
(* it, in the order of their first place in the round-robin; when there is *)
(* no room for all, it is the last ones that are dropped                   *)
(* (search.py:188-224).                                                    *)
THEOREM MergedFairly == Spec => []MergeIsFair
<1>1. AnalysisInv /\ RetrievalInv => MergeIsFair
  <2> SUFFICES ASSUME AnalysisInv, RetrievalInv, stage \in {"rerank", "searched"}
               PROVE  MergeIsFair
    BY DEF MergeIsFair
  <2> DEFINE n == Len(matches) * Longest(matches)
             M(c) == Mentions(matches, n, c)
             mentioned == UNION {Range(matches[q]) : q \in DOMAIN matches}
             kept == {merged[i].chunk : i \in DOMAIN merged}
  <2>1. /\ matches \in Seq(Seq(Corpus)) /\ matches # <<>> /\ limit \in Nat
        /\ merged \in Seq(Match) /\ FairUpTo(merged, matches, limit, n)
        /\ \A q \in DOMAIN matches : Found(matches[q], queries[q])
    BY DEF AnalysisInv, RetrievalInv
  <2>2. \A q \in DOMAIN matches : Len(matches[q]) <= CandidateK
    BY <2>1 DEF Found
  <2>3. CandidateK \in Nat
    BY SizesAssumption
  <2>4. n \in Nat /\ \A c : Finders(matches, n, c) = {q \in DOMAIN matches : c \in Range(matches[q])}
    BY <2>1, <2>2, <2>3, MentionedIsFound
  <2>5. \A c : FirstPlace(c) = CHOOSE m \in M(c) : \A k \in M(c) : m <= k
    BY DEF FirstPlace, Mentions, Named, ChunkAt
  <2> HIDE DEF n
  <2>6. \A c : M(c) # {} => FirstPlace(c) \in M(c) /\ \A k \in M(c) : FirstPlace(c) <= k
    BY <2>4, <2>5, FirstMention
  <2>7. \A c : c \in mentioned <=> M(c) # {}
    <3>1. \A c : M(c) # {} <=> Finders(matches, n, c) # {}
      BY DEF Finders
    <3>2. QED
      BY <2>4, <3>1
  <2>8. mentioned = {c \in Corpus : M(c) # {}}
    <3>1. \A q \in DOMAIN matches : Range(matches[q]) \subseteq Corpus
      BY <2>1, RangeOfSeq DEF Found
    <3>2. mentioned \subseteq Corpus
      BY <3>1
    <3>3. QED
      BY <2>7, <3>2
  <2> HIDE DEF mentioned
  <2>9. Len(merged) = Shortest(limit, Cardinality(mentioned))
    <3>1. mentioned = Mentioned(matches, n)
      BY <2>8 DEF Mentioned
    <3>2. Len(merged) = Shortest(limit, Cardinality(Mentioned(matches, n)))
      BY <2>1, <2>4, FairMergeCount
    <3>3. QED
      BY <3>1, <3>2
  <2>10. \A i \in DOMAIN merged : M(merged[i].chunk) # {}
    BY <2>1 DEF FairUpTo
  <2> HIDE DEF M
  <2>11. ASSUME NEW c, NEW d, Earlier(matches, c, d), M(c) # {}, M(d) # {}
         PROVE  FirstPlace(c) < FirstPlace(d)
    BY <2>4, <2>6, <2>11, EarlierIsFirst DEF M
  <2>12. \A i, j \in DOMAIN merged :
           i < j => FirstPlace(merged[i].chunk) < FirstPlace(merged[j].chunk)
    BY <2>1, <2>10, <2>11 DEF FairUpTo
  <2>13. ASSUME NEW c \in kept, NEW d \in mentioned \ kept PROVE FirstPlace(c) < FirstPlace(d)
    <3>1. PICK i \in DOMAIN merged : c = merged[i].chunk
      OBVIOUS
    <3>2. d \in Corpus /\ M(d) # {} /\ ~Knows(merged, d)
      BY <2>8 DEF Knows
    <3>3. Earlier(matches, merged[i].chunk, d)
      BY <2>1, <3>2 DEF FairUpTo, M
    <3>4. QED
      BY <2>10, <2>11, <3>1, <3>2, <3>3
  <2>14. \A i \in DOMAIN merged :
           merged[i].ids = {q \in DOMAIN matches : merged[i].chunk \in Range(matches[q])}
    BY <2>1, <2>4 DEF FairUpTo
  <2> HIDE DEF kept
  <2>15. /\ Len(merged) = Shortest(limit, Cardinality(mentioned))
         /\ \A i, j \in DOMAIN merged :
              i < j => FirstPlace(merged[i].chunk) < FirstPlace(merged[j].chunk)
         /\ \A c \in kept, d \in mentioned \ kept : FirstPlace(c) < FirstPlace(d)
         /\ \A i \in DOMAIN merged :
              merged[i].ids = {q \in DOMAIN matches : merged[i].chunk \in Range(matches[q])}
    BY <2>9, <2>12, <2>13, <2>14
  <2>16. QED
    BY <2>15 DEF MergeIsFair, mentioned, kept
<1>2. QED
  BY <1>1, RetrievalHolds, PTL
-----------------------------------------------------------------------------
(* The places of the report.                                               *)

(* A recursive function over the naturals exists.                          *)
Recursive(f, base, step) ==
  f[0] = base /\ \A n \in Nat \ {0} : f[n] = step[n][f[n - 1]]

LEMMA RecursionExists ==
  ASSUME NEW X, NEW base \in X, NEW step \in [Nat \ {0} -> [X -> X]]
  PROVE  \E f \in [Nat -> X] : Recursive(f, base, step)
<1> DEFINE
      Part(g, n) == /\ g \in [0 .. n -> X] /\ g[0] = base
                    /\ \A m \in 1 .. n : g[m] = step[m][g[m - 1]]
      Parts(n) == \E g : Part(g, n)
      G(n) == CHOOSE g : Part(g, n)
      f == [n \in Nat |-> G(n)[n]]
<1>1. \A n \in Nat : Parts(n)
  <2> DEFINE S == {n \in Nat : Parts(n)}
  <2>1. 0 \in S
    <3>1. Part([m \in 0 .. 0 |-> base], 0)
      OBVIOUS
    <3> HIDE DEF Part
    <3>2. QED
      BY <3>1
  <2>2. ASSUME NEW n \in S PROVE n + 1 \in S
    <3>1. PICK g : Part(g, n)
      OBVIOUS
    <3> DEFINE h == [m \in 0 .. (n + 1) |-> IF m = n + 1 THEN step[n + 1][g[n]] ELSE g[m]]
    <3>2. n \in Nat /\ n + 1 \in Nat \ {0}
      OBVIOUS
    <3>3. step[n + 1][g[n]] \in X /\ \A m \in 0 .. n : g[m] \in X
      BY <3>1, <3>2
    <3>4. \A m \in 0 .. (n + 1) : m \in 0 .. n \/ m = n + 1
      BY <3>2
    <3>5. h \in [0 .. (n + 1) -> X]
      BY <3>2, <3>3, <3>4
    <3>6. h[0] = base
      BY <3>1, <3>2
    <3>7. ASSUME NEW m \in 1 .. (n + 1) PROVE h[m] = step[m][h[m - 1]]
      BY <3>1, <3>2, <3>7
    <3>8. Part(h, n + 1)
      BY <3>5, <3>6, <3>7
    <3> HIDE DEF Part
    <3>9. QED
      BY <3>2, <3>8
  <2> HIDE DEF Parts
  <2>3. S \subseteq Nat
    OBVIOUS
  <2> HIDE DEF S
  <2>4. S = Nat
    BY <2>1, <2>2, <2>3, AllNaturals
  <2>5. QED
    BY <2>4 DEF S
<1>2. \A n \in Nat : Part(G(n), n)
  <2> HIDE DEF Part
  <2>1. QED
    BY <1>1
<1> HIDE DEF G
<1>3. ASSUME NEW n \in Nat \ {0} PROVE G(n)[n - 1] = G(n - 1)[n - 1]
  <2> DEFINE S == {m \in 0 .. (n - 1) : G(n)[m] = G(n - 1)[m]}
  <2>1. n - 1 \in Nat /\ n \in Nat
    OBVIOUS
  <2>2. 0 \in S
    BY <1>2, <2>1
  <2>3. ASSUME NEW m \in 1 .. (n - 1), m - 1 \in S PROVE m \in S
    <3>1. m \in 1 .. n /\ m \in 0 .. (n - 1)
      BY <2>1
    <3>2. G(n)[m] = step[m][G(n)[m - 1]] /\ G(n - 1)[m] = step[m][G(n - 1)[m - 1]]
      BY <1>2, <2>1, <3>1
    <3>3. QED
      BY <2>3, <3>1, <3>2
  <2> HIDE DEF S
  <2>4. 0 .. (n - 1) \subseteq S
    BY <2>1, <2>2, <2>3, UpTo
  <2>5. QED
    BY <2>1, <2>4 DEF S
<1>4. f \in [Nat -> X]
  BY <1>2
<1>5. f[0] = base
  BY <1>2
<1>6. ASSUME NEW n \in Nat \ {0} PROVE f[n] = step[n][f[n - 1]]
  <2>1. n - 1 \in Nat /\ n \in Nat /\ n \in 1 .. n
    OBVIOUS
  <2>2. G(n)[n] = step[n][G(n)[n - 1]]
    BY <1>2, <2>1
  <2>3. QED
    BY <1>3, <2>1, <2>2
<1>7. QED
  BY <1>4, <1>5, <1>6 DEF Recursive

(* What each query leaves of the places beyond one per query.              *)
Size(kept, q) == Len(Candidates(kept, q))
SpareIs(spare, plan, kept) ==
  /\ spare[0] = FinalMax - Len(plan)
  /\ \A q \in 1 .. Len(plan) :
       spare[q] = spare[q - 1] - Shortest(Size(kept, q) - 1, spare[q - 1])

LEMMA SpareExists ==
  ASSUME merged \in Seq(Match), Len(queries) \in Nat
  PROVE  SpareIs(Spare, queries, merged)
<1> DEFINE Op(x, q) == x - Shortest(Len(Candidates(merged, q)) - 1, x)
           base == FinalMax - Len(queries)
           step == [q \in Nat \ {0} |-> [x \in Int |-> Op(x, q)]]
<1>1. \A q : Len(Candidates(merged, q)) \in Nat
  BY CandidatesAre, LenProperties
<1>2. \A q \in Nat \ {0}, x \in Int : Op(x, q) \in Int
  BY <1>1 DEF Shortest
<1>3. base \in Int
  BY SizesAssumption
<1>4. step \in [Nat \ {0} -> [Int -> Int]]
  <2> HIDE DEF Op
  <2>1. QED
    BY <1>2
<1>5. PICK f \in [Nat -> Int] : Recursive(f, base, step)
  <2> HIDE DEF step, base
  <2>1. QED
    BY <1>3, <1>4, RecursionExists
<1>6. \A q \in Nat : f[q] = IF q = 0 THEN base ELSE Op(f[q - 1], q)
  <2> HIDE DEF Op, base
  <2>1. ASSUME NEW q \in Nat \ {0} PROVE f[q] = Op(f[q - 1], q)
    <3>1. q - 1 \in Nat /\ f[q - 1] \in Int
      OBVIOUS
    <3>2. QED
      BY <1>5, <3>1 DEF Recursive
  <2>2. QED
    BY <1>5, <2>1 DEF Recursive
<1> DEFINE Eq(g) == g = [q \in Nat |-> IF q = 0 THEN base ELSE Op(g[q - 1], q)]
<1>7. Eq(f)
  <2> HIDE DEF Op, base
  <2>1. QED
    BY <1>6
<1>8. Eq(Spare)
  <2>1. Spare = CHOOSE g : Eq(g)
    BY DEF Spare
  <2> HIDE DEF Eq
  <2>2. QED
    BY <1>7, <2>1
<1>9. \A q \in Nat : Spare[q] = IF q = 0 THEN base ELSE Op(Spare[q - 1], q)
  <2> HIDE DEF Op, base
  <2>1. QED
    BY <1>8
<1>10. QED
  BY <1>9 DEF SpareIs, Size

LEMMA SpareBounds ==
  ASSUME NEW plan, Len(plan) \in Nat, Len(plan) <= FinalMax, NEW kept \in Seq(Match),
         \A q \in 1 .. Len(plan) : Candidates(kept, q) # <<>>,
         NEW spare, SpareIs(spare, plan, kept)
  PROVE  \A q \in 0 .. Len(plan) : spare[q] \in Nat
<1> DEFINE n == Len(plan)
           S == {q \in 0 .. n : spare[q] \in Nat}
<1>1. \A q \in 1 .. n : Size(kept, q) \in Nat \ {0}
  BY CandidatesAre, LenProperties, EmptySeq DEF Size
<1>2. 0 \in S
  BY SizesAssumption DEF SpareIs
<1>3. ASSUME NEW q \in 1 .. n, q - 1 \in S PROVE q \in S
  <2>1. spare[q] = spare[q - 1] - Shortest(Size(kept, q) - 1, spare[q - 1])
    BY DEF SpareIs
  <2>2. spare[q - 1] \in Nat /\ Size(kept, q) \in Nat \ {0} /\ q \in 0 .. n
    BY <1>1, <1>3
  <2>3. spare[q] \in Nat
    BY <2>1, <2>2 DEF Shortest
  <2>4. QED
    BY <2>2, <2>3
<1> HIDE DEF S
<1>4. 0 .. n \subseteq S
  BY <1>2, <1>3, UpTo
<1>5. QED
  BY <1>4 DEF S
-----------------------------------------------------------------------------
(* What the report is written from.                                        *)

Answer == [tries : Nat, items : Seq(Nat), tokens : Nat \cup {None}]

(* An answer names candidates of its query, none twice and no more of them *)
(* than the query has places.                                              *)
Picks(items, kept, q, spare) ==
  /\ Len(items) <= 1 + Shortest(Size(kept, q) - 1, spare[q - 1])
  /\ \A i, j \in DOMAIN items : items[i] = items[j] => i = j
  /\ Range(items) \subseteq DOMAIN Candidates(kept, q)
Picked(items, kept, q) ==
  [i \in DOMAIN items |-> Candidates(kept, q)[items[i]].chunk]

LEMMA PickedIs ==
  ASSUME NEW items \in Seq(Nat), NEW kept \in Seq(Match), NEW q, Distinct(kept),
         Range(items) \subseteq DOMAIN Candidates(kept, q)
  PROVE  /\ Picked(items, kept, q) \in Seq(Corpus)
         /\ Len(Picked(items, kept, q)) = Len(items) /\ Len(items) \in Nat
         /\ \A i, j \in 1 .. Len(items) :
              Picked(items, kept, q)[i] = Picked(items, kept, q)[j] => items[i] = items[j]
         /\ \A i \in 1 .. Len(items) : \E k \in 1 .. Len(kept) :
              Picked(items, kept, q)[i] = kept[k].chunk /\ q \in kept[k].ids
<1> DEFINE C == Candidates(kept, q)
           n == Len(items)
           s == Picked(items, kept, q)
<1>1. n \in Nat /\ DOMAIN items = 1 .. n
  BY LenProperties
<1>2. /\ C \in Seq(Match)
      /\ \A i \in 1 .. Len(C) : \E j \in 1 .. Len(kept) : C[i] = kept[j] /\ q \in kept[j].ids
      /\ Distinct(C)
  <2> HIDE DEF C
  <2>1. C = Candidates(kept, q)
    BY DEF C
  <2>2. /\ Candidates(kept, q) \in Seq(Match)
        /\ Distinct(Candidates(kept, q))
    BY CandidatesAre
  <2>3. \A i \in 1 .. Len(Candidates(kept, q)) : \E j \in 1 .. Len(kept) :
          Candidates(kept, q)[i] = kept[j] /\ q \in kept[j].ids
    BY CandidatesAre
  <2>4. QED
    BY <2>1, <2>2, <2>3
<1> HIDE DEF C
<1>3. DOMAIN C = 1 .. Len(C) /\ \A i \in DOMAIN C : C[i].chunk \in Corpus
  <2>1. DOMAIN C = 1 .. Len(C) /\ \A i \in 1 .. Len(C) : C[i] \in Match
    BY <1>2, LenProperties, ElementOfSeq
  <2>2. \A m \in Match : m.chunk \in Corpus
    BY DEF Match
  <2>3. QED
    BY <2>1, <2>2
<1>4. \A i \in 1 .. n : items[i] \in DOMAIN C
  BY <1>1 DEF Range, C
<1>5. s = [i \in 1 .. n |-> C[items[i]].chunk]
  BY <1>1 DEF Picked, C
<1> HIDE DEF s, n
<1>6. s \in [1 .. n -> Corpus]
  BY <1>3, <1>4, <1>5
<1>7. s \in Seq(Corpus) /\ DOMAIN s = 1 .. n
  BY <1>1, <1>6, SeqDef
<1>8. Len(s) = n
  BY <1>1, <1>7, LenProperties
<1>9. \A i, j \in 1 .. n : s[i] = s[j] => items[i] = items[j]
  BY <1>2, <1>4, <1>5 DEF Distinct
<1>10. ASSUME NEW i \in 1 .. n
       PROVE  \E k \in 1 .. Len(kept) : s[i] = kept[k].chunk /\ q \in kept[k].ids
  <2>1. items[i] \in 1 .. Len(C) /\ s[i] = C[items[i]].chunk
    BY <1>3, <1>4, <1>5
  <2>2. PICK k \in 1 .. Len(kept) : C[items[i]] = kept[k] /\ q \in kept[k].ids
    BY <1>2, <2>1
  <2>3. s[i] = kept[k].chunk /\ q \in kept[k].ids
    BY <2>1, <2>2
  <2>4. QED
    BY <2>3
<1>11. QED
  BY <1>1, <1>7, <1>8, <1>9, <1>10 DEF n, s

(* Selected, query by query.                                               *)
LEMMA SelectedFold ==
  ASSUME Len(queries) \in Nat, DOMAIN queries = 1 .. Len(queries),
         merged \in Seq(Match), Distinct(merged),
         NEW results \in [DOMAIN queries -> Answer],
         \A q \in DOMAIN queries : Range(results[q].items) \subseteq DOMAIN Candidates(merged, q)
  PROVE  \E g :
           /\ \A m \in 0 .. Len(queries) : g[m] \in Seq(Corpus)
           /\ g[0] = <<>>
           /\ \A m \in 1 .. Len(queries) : g[m] = g[m - 1] \o Picked(results[m].items, merged, m)
           /\ Selected(results) = g[Len(queries)]
<1> DEFINE n == Len(queries)
           X == Seq(Corpus)
           Op(x, q) == x \o [i \in DOMAIN results[q].items |->
                               Candidates(merged, q)[results[q].items[i]].chunk]
           seq == [q \in DOMAIN queries |-> q]
           step == [q \in 1 .. n |-> [x \in X |-> Op(x, q)]]
           Eq(iter) == iter = [s \in SUBSET (1 .. n) |->
                                 IF s = {} THEN <<>> ELSE Op(iter[s \ {Max(s)}], seq[Max(s)])]
           iter == CHOOSE iter : Eq(iter)
<1>1. n \in Nat /\ DOMAIN queries = 1 .. n /\ <<>> \in X /\ \A q \in 1 .. n : seq[q] = q
  BY EmptySeq
<1>2. ASSUME NEW q \in 1 .. n, NEW x \in X
      PROVE  Op(x, q) \in X /\ Op(x, q) = x \o Picked(results[q].items, merged, q)
  <2>1. results[q].items \in Seq(Nat)
    <3>1. results[q] \in Answer
      BY <1>1
    <3>2. QED
      BY <3>1 DEF Answer
  <2>2. Picked(results[q].items, merged, q) \in Seq(Corpus)
    BY <1>1, <2>1, PickedIs
  <2>3. Op(x, q) = x \o Picked(results[q].items, merged, q)
    BY DEF Picked
  <2>4. QED
    BY <2>2, <2>3, ConcatProperties
<1>3. DOMAIN seq = 1 .. n /\ Len(seq) = n
  <2>1. seq \in Seq(Nat)
    BY <1>1, SeqDef
  <2>2. DOMAIN seq = 1 .. n
    BY <1>1
  <2> HIDE DEF seq
  <2>3. QED
    BY <1>1, <2>1, <2>2, LenProperties
<1>4. Selected(results) = iter[1 .. n]
  BY <1>3 DEF Selected, FoldLeft, MapThenFoldSet
<1> HIDE DEF Op, seq
<1>5. step \in [1 .. n -> [X -> X]]
  BY <1>2
<1>6. Eq(iter)
  <2>1. PICK fold \in [SUBSET (1 .. n) -> X] : Folds(fold, <<>>, n, step)
    <3> HIDE DEF step, X, n
    <3>1. QED
      BY <1>1, <1>5, FoldExists
  <2>2. ASSUME NEW s \in SUBSET (1 .. n)
        PROVE  fold[s] = IF s = {} THEN <<>> ELSE Op(fold[s \ {Max(s)}], seq[Max(s)])
    <3>1. CASE s = {}
      BY <2>1, <3>1 DEF Folds
    <3>2. CASE s # {}
      <4>1. Max(s) \in 1 .. n /\ seq[Max(s)] = Max(s)
        BY <1>1, <3>2, IntervalFacts
      <4>2. fold[s \ {Max(s)}] \in X
        BY <2>1
      <4>3. QED
        BY <2>1, <3>2, <4>1, <4>2 DEF Folds
    <3>3. QED
      BY <3>1, <3>2
  <2>3. fold = [s \in SUBSET (1 .. n) |->
                IF s = {} THEN <<>> ELSE Op(fold[s \ {Max(s)}], seq[Max(s)])]
    BY <2>2
  <2>4. QED
    BY <2>3
<1> HIDE DEF iter
<1>7. \A s \in SUBSET (1 .. n) :
        iter[s] = IF s = {} THEN <<>> ELSE Op(iter[s \ {Max(s)}], seq[Max(s)])
  BY <1>6
<1>8. iter[{}] = <<>> /\ \A m \in 1 .. n : iter[1 .. m] = Op(iter[1 .. (m - 1)], m)
  <2>1. iter[{}] = <<>>
    BY <1>7
  <2>2. ASSUME NEW m \in 1 .. n PROVE iter[1 .. m] = Op(iter[1 .. (m - 1)], m)
    <3>1. /\ 1 .. m \in SUBSET (1 .. n) /\ 1 .. m # {} /\ Max(1 .. m) = m
          /\ (1 .. m) \ {m} = 1 .. (m - 1)
      BY <1>1, IntervalFacts
    <3>2. iter[1 .. m] = Op(iter[(1 .. m) \ {m}], seq[m])
      BY <1>7, <3>1
    <3>3. QED
      BY <1>1, <3>1, <3>2
  <2>3. QED
    BY <2>1, <2>2
<1> DEFINE g == [m \in 0 .. n |-> iter[1 .. m]]
<1>9. g[0] = <<>> /\ \A m \in 1 .. n : g[m] = Op(g[m - 1], m)
  BY <1>1, <1>8
<1> HIDE DEF g
<1>10. \A m \in 0 .. n : g[m] \in X
  <2> DEFINE S == {m \in 0 .. n : g[m] \in X}
  <2> HIDE DEF X, n
  <2>1. 0 \in S
    BY <1>1, <1>9
  <2>2. ASSUME NEW m \in 1 .. n, m - 1 \in S PROVE m \in S
    <3>1. g[m - 1] \in X /\ m \in 0 .. n
      BY <1>1, <2>2
    <3>2. Op(g[m - 1], m) \in X
      BY <1>2, <3>1
    <3>3. QED
      BY <1>9, <3>1, <3>2
  <2> HIDE DEF S
  <2>3. 0 .. n \subseteq S
    BY <1>1, <2>1, <2>2, UpTo
  <2>4. QED
    BY <2>3 DEF S
<1>11. \A m \in 1 .. n : g[m] = g[m - 1] \o Picked(results[m].items, merged, m)
  <2>1. \A m \in 1 .. n : g[m - 1] \in X
    BY <1>1, <1>10
  <2>2. QED
    BY <1>2, <1>9, <2>1
<1>12. Selected(results) = g[n]
  BY <1>1, <1>4 DEF g
<1>13. QED
  BY <1>9, <1>10, <1>11, <1>12
(* Chunks of the first m dimensions of a plan, none twice.                 *)
Context(s, plan, m) ==
  /\ \A i, j \in 1 .. Len(s) : s[i] = s[j] => i = j
  /\ \A i \in 1 .. Len(s) : \E p \in 1 .. m : ChunkDim[s[i]] = plan[p]
  /\ \A p \in 1 .. m : \E i \in 1 .. Len(s) : ChunkDim[s[i]] = plan[p]

LEMMA ContextGrows ==
  ASSUME NEW plan, NEW m \in Nat \ {0}, \A p, q \in 1 .. m : plan[p] = plan[q] => p = q,
         NEW s \in Seq(Corpus), Context(s, plan, m - 1),
         NEW t \in Seq(Corpus), Len(t) # 0,
         \A i, j \in 1 .. Len(t) : t[i] = t[j] => i = j,
         \A i \in 1 .. Len(t) : ChunkDim[t[i]] = plan[m]
  PROVE  Context(s \o t, plan, m)
<1> DEFINE a == Len(s)
           b == Len(t)
           u == s \o t
<1>1. /\ a \in Nat /\ b \in Nat /\ Len(u) = a + b
      /\ \A i \in 1 .. (a + b) : u[i] = IF i <= a THEN s[i] ELSE t[i - a]
  BY LenProperties, ConcatProperties
<1>2. /\ \A i, j \in 1 .. a : s[i] = s[j] => i = j
      /\ \A i \in 1 .. a : \E p \in 1 .. (m - 1) : ChunkDim[s[i]] = plan[p]
      /\ \A p \in 1 .. (m - 1) : \E i \in 1 .. a : ChunkDim[s[i]] = plan[p]
  BY DEF Context
<1>3. /\ b # 0 /\ \A i, j \in 1 .. b : t[i] = t[j] => i = j
      /\ \A i \in 1 .. b : ChunkDim[t[i]] = plan[m]
  OBVIOUS
<1> HIDE DEF a, b, u
<1>4. \A i \in 1 .. (a + b) : \/ i \in 1 .. a /\ u[i] = s[i]
                              \/ i - a \in 1 .. b /\ u[i] = t[i - a]
  BY <1>1
<1>5. \A i \in 1 .. a : i \in 1 .. (a + b) /\ u[i] = s[i]
  BY <1>1
<1>6. 1 + a \in 1 .. (a + b) /\ 1 \in 1 .. b /\ u[1 + a] = t[1]
  <2>1. b # 0
    BY <1>3
  <2>2. 1 + a \in 1 .. (a + b) /\ 1 \in 1 .. b /\ ~(1 + a <= a) /\ (1 + a) - a = 1
    BY <1>1, <2>1
  <2>3. QED
    BY <1>1, <2>2
<1>7. \A p \in 1 .. m : p \in 1 .. (m - 1) \/ p = m
  OBVIOUS
<1>8. \A p \in 1 .. (m - 1) : plan[p] # plan[m] /\ p \in 1 .. m
  <2>1. \A p \in 1 .. (m - 1) : p \in 1 .. m /\ p # m /\ m \in 1 .. m
    OBVIOUS
  <2>2. QED
    BY <2>1
<1>9. ASSUME NEW i \in 1 .. (a + b), NEW j \in 1 .. (a + b), u[i] = u[j] PROVE i = j
  <2>1. CASE i \in 1 .. a /\ u[i] = s[i] /\ j \in 1 .. a /\ u[j] = s[j]
    BY <1>2, <1>9, <2>1
  <2>2. CASE i \in 1 .. a /\ u[i] = s[i] /\ j - a \in 1 .. b /\ u[j] = t[j - a]
    <3>1. PICK p \in 1 .. (m - 1) : ChunkDim[s[i]] = plan[p]
      BY <1>2, <2>2
    <3>2. ChunkDim[t[j - a]] = plan[m]
      BY <1>3, <2>2
    <3>3. s[i] = t[j - a]
      BY <1>9, <2>2
    <3>4. QED
      BY <1>8, <3>1, <3>2, <3>3
  <2>3. CASE i - a \in 1 .. b /\ u[i] = t[i - a] /\ j \in 1 .. a /\ u[j] = s[j]
    <3>1. PICK p \in 1 .. (m - 1) : ChunkDim[s[j]] = plan[p]
      BY <1>2, <2>3
    <3>2. ChunkDim[t[i - a]] = plan[m]
      BY <1>3, <2>3
    <3>3. s[j] = t[i - a]
      BY <1>9, <2>3
    <3>4. QED
      BY <1>8, <3>1, <3>2, <3>3
  <2>4. CASE i - a \in 1 .. b /\ u[i] = t[i - a] /\ j - a \in 1 .. b /\ u[j] = t[j - a]
    <3>1. i - a = j - a
      BY <1>3, <1>9, <2>4
    <3>2. QED
      BY <1>1, <3>1
  <2>5. QED
    BY <1>4, <2>1, <2>2, <2>3, <2>4
<1>10. ASSUME NEW i \in 1 .. (a + b) PROVE \E p \in 1 .. m : ChunkDim[u[i]] = plan[p]
  <2>1. m \in 1 .. m
    OBVIOUS
  <2>2. CASE i \in 1 .. a /\ u[i] = s[i]
    <3>1. PICK p \in 1 .. (m - 1) : ChunkDim[s[i]] = plan[p]
      BY <1>2, <2>2
    <3>2. p \in 1 .. m
      BY <1>8
    <3>3. QED
      BY <2>2, <3>1, <3>2
  <2>3. CASE i - a \in 1 .. b /\ u[i] = t[i - a]
    <3>1. ChunkDim[t[i - a]] = plan[m]
      BY <1>3, <2>3
    <3>2. QED
      BY <2>1, <2>3, <3>1
  <2>4. QED
    BY <1>4, <2>2, <2>3
<1>11. ASSUME NEW p \in 1 .. m PROVE \E i \in 1 .. (a + b) : ChunkDim[u[i]] = plan[p]
  <2>1. CASE p \in 1 .. (m - 1)
    BY <1>2, <1>5, <2>1
  <2>2. CASE p = m
    BY <1>3, <1>6, <2>2
  <2>3. QED
    BY <1>7, <2>1, <2>2
<1>12. Len(u) = a + b
  BY <1>1
<1>13. Context(u, plan, m)
  BY <1>9, <1>10, <1>11, <1>12 DEF Context
<1>14. QED
  BY <1>13 DEF u

(* A plan that covers the dimensions asks for none twice.                  *)
LEMMA PlanIsDistinct ==
  ASSUME NEW S, NEW plan \in Seq(S), Covers(plan)
  PROVE  /\ \A p, q \in 1 .. Len(plan) : plan[p] = plan[q] => p = q
         /\ Len(plan) \in Nat /\ Len(plan) <= FinalMax /\ DOMAIN plan = 1 .. Len(plan)
<1>1. Len(plan) \in Nat /\ DOMAIN plan = 1 .. Len(plan)
  BY LenProperties
<1>2. IsFiniteSet(1 .. Len(plan)) /\ Cardinality(1 .. Len(plan)) = Cardinality(Dimensions)
  BY <1>1, FS_Interval DEF Covers
<1>3. plan \in Surjection(1 .. Len(plan), Dimensions)
  <2>1. Range(plan) = Dimensions
    BY DEF Covers
  <2>2. plan \in [1 .. Len(plan) -> Dimensions]
    BY <1>1, <2>1, LenProperties DEF Range
  <2>3. \A d \in Dimensions : \E p \in 1 .. Len(plan) : plan[p] = d
    BY <1>1, <2>1 DEF Range
  <2>4. QED
    BY <2>2, <2>3 DEF Surjection
<1>4. plan \in Injection(1 .. Len(plan), Dimensions)
  BY <1>2, <1>3, FS_SurjSameCardinalityImpliesInj
<1>5. Len(plan) <= FinalMax
  BY SizesAssumption DEF Covers
<1>6. QED
  BY <1>1, <1>4, <1>5 DEF Injection, IsInjective

(* What a complete set of answers selects.                                 *)
LEMMA SelectionCovers ==
  ASSUME AnalysisInv, RetrievalInv, stage = "rerank",
         \A q \in DOMAIN queries : Candidates(merged, q) # <<>>,
         NEW results \in [DOMAIN queries -> Answer],
         NEW spare, SpareIs(spare, queries, merged),
         \A q \in DOMAIN queries :
           results[q].items # <<>> /\ Picks(results[q].items, merged, q, spare)
  PROVE  /\ {ChunkDim[c] : c \in Range(Selected(results))} = Dimensions
         /\ Cardinality(Range(Selected(results))) = Len(Selected(results))
         /\ Len(Selected(results)) <= FinalMax
<1> DEFINE n == Len(queries)
           Part(q) == Picked(results[q].items, merged, q)
<1>1. /\ queries \in Seq(Range(ChunkDim)) /\ merged \in Seq(Match) /\ Covers(queries)
      /\ matches \in Seq(Seq(Corpus)) /\ matches # <<>> /\ Len(matches) = n
      /\ \A q \in DOMAIN matches : Found(matches[q], queries[q])
      /\ FairUpTo(merged, matches, limit, Len(matches) * Longest(matches))
  BY DEF AnalysisInv, RetrievalInv
<1>2. /\ n \in Nat /\ DOMAIN queries = 1 .. n /\ n <= FinalMax
      /\ \A p, q \in 1 .. n : queries[p] = queries[q] => p = q
  BY <1>1, PlanIsDistinct
<1>3. DOMAIN matches = 1 .. n
  BY <1>1, LenProperties
<1>4. /\ Distinct(merged) /\ DOMAIN merged = 1 .. Len(merged)
      /\ \A k \in DOMAIN merged : merged[k].ids =
           {q \in DOMAIN matches : merged[k].chunk \in Range(matches[q])}
  <2>1. \A q \in DOMAIN matches : Len(matches[q]) <= CandidateK
    BY <1>1 DEF Found
  <2>2. CandidateK \in Nat
    BY SizesAssumption
  <2>3. \A c : Finders(matches, Len(matches) * Longest(matches), c) =
               {q \in DOMAIN matches : c \in Range(matches[q])}
    BY <1>1, <2>1, <2>2, MentionedIsFound
  <2>4. QED
    BY <1>1, <2>3, LenProperties DEF FairUpTo
<1>5. \A q \in 0 .. n : spare[q] \in Nat
  BY <1>1, <1>2, SpareBounds
<1>6. ASSUME NEW q \in 1 .. n
      PROVE  /\ Part(q) \in Seq(Corpus) /\ Len(Part(q)) \in Nat \ {0}
             /\ Len(Part(q)) <= 1 + (spare[q - 1] - spare[q])
             /\ \A i, j \in 1 .. Len(Part(q)) : Part(q)[i] = Part(q)[j] => i = j
             /\ \A i \in 1 .. Len(Part(q)) : ChunkDim[Part(q)[i]] = queries[q]
  <2> DEFINE items == results[q].items
  <2>1. items \in Seq(Nat) /\ items # <<>> /\ Picks(items, merged, q, spare)
    BY <1>2 DEF Answer
  <2> HIDE DEF items
  <2>2. /\ Picked(items, merged, q) \in Seq(Corpus)
        /\ Len(Picked(items, merged, q)) = Len(items) /\ Len(items) \in Nat \ {0}
        /\ \A i, j \in 1 .. Len(items) :
             Picked(items, merged, q)[i] = Picked(items, merged, q)[j] => i = j
        /\ \A i \in 1 .. Len(items) : \E k \in 1 .. Len(merged) :
             Picked(items, merged, q)[i] = merged[k].chunk /\ q \in merged[k].ids
    <3>1. /\ items \in Seq(Nat) /\ merged \in Seq(Match) /\ Distinct(merged)
          /\ Range(items) \subseteq DOMAIN Candidates(merged, q)
          /\ \A i, j \in DOMAIN items : items[i] = items[j] => i = j
      BY <1>1, <1>4, <2>1 DEF Picks
    <3>2. Len(items) # 0
      BY <2>1, EmptySeq
    <3>3. /\ Picked(items, merged, q) \in Seq(Corpus)
          /\ Len(Picked(items, merged, q)) = Len(items) /\ Len(items) \in Nat
          /\ \A i, j \in 1 .. Len(items) :
               Picked(items, merged, q)[i] = Picked(items, merged, q)[j] => items[i] = items[j]
          /\ \A i \in 1 .. Len(items) : \E k \in 1 .. Len(merged) :
               Picked(items, merged, q)[i] = merged[k].chunk /\ q \in merged[k].ids
      BY <3>1, PickedIs
    <3>4. DOMAIN items = 1 .. Len(items)
      BY <3>1, LenProperties
    <3>5. QED
      BY <3>1, <3>2, <3>3, <3>4
  <2>3. ASSUME NEW k \in 1 .. Len(merged), q \in merged[k].ids
        PROVE  ChunkDim[merged[k].chunk] = queries[q]
    <3>1. merged[k].chunk \in Range(matches[q]) /\ q \in DOMAIN matches
      BY <1>4, <2>3
    <3>2. PICK r \in DOMAIN matches[q] : matches[q][r] = merged[k].chunk
      BY <3>1 DEF Range
    <3>3. QED
      BY <1>1, <3>1, <3>2 DEF Found
  <2>4. Len(items) <= 1 + (spare[q - 1] - spare[q])
    <3>1. spare[q] = spare[q - 1] - Shortest(Size(merged, q) - 1, spare[q - 1])
      BY <1>2 DEF SpareIs
    <3>2. spare[q] \in Nat /\ spare[q - 1] \in Nat
      BY <1>2, <1>5
    <3>3. Len(items) <= 1 + Shortest(Size(merged, q) - 1, spare[q - 1])
      BY <2>1 DEF Picks
    <3>4. Size(merged, q) \in Nat
      BY <1>1, CandidatesAre, LenProperties DEF Size
    <3>5. Shortest(Size(merged, q) - 1, spare[q - 1]) \in Int
      BY <3>2, <3>4 DEF Shortest
    <3>6. QED
      BY <3>1, <3>2, <3>3, <3>5
  <2>5. QED
    BY <2>2, <2>3, <2>4 DEF items
<1>7. PICK g : /\ \A m \in 0 .. n : g[m] \in Seq(Corpus)
               /\ g[0] = <<>>
               /\ \A m \in 1 .. n : g[m] = g[m - 1] \o Part(m)
               /\ Selected(results) = g[n]
  BY <1>1, <1>2, <1>4, SelectedFold DEF Picks
<1> HIDE DEF Part, n
<1> DEFINE S == {m \in 0 .. n : /\ Context(g[m], queries, m)
                                /\ Len(g[m]) <= m + (spare[0] - spare[m])}
<1>8. 0 \in S
  <2>1. Len(g[0]) = 0 /\ 1 .. 0 = {}
    BY <1>7, EmptySeq
  <2>2. Context(g[0], queries, 0)
    BY <2>1 DEF Context
  <2>3. Len(g[0]) <= 0 + (spare[0] - spare[0]) /\ 0 \in 0 .. n
    BY <1>2, <1>5, <2>1
  <2>4. QED
    BY <2>2, <2>3
<1>9. ASSUME NEW m \in 1 .. n, m - 1 \in S PROVE m \in S
  <2>1. /\ m \in Nat \ {0} /\ m - 1 \in 0 .. n /\ m \in 0 .. n
        /\ \A p \in 1 .. m : p \in 1 .. n
    BY <1>2
  <2>2. g[m - 1] \in Seq(Corpus) /\ g[m] = g[m - 1] \o Part(m)
    BY <1>7, <2>1
  <2>3. /\ Context(g[m - 1], queries, m - 1)
        /\ Len(g[m - 1]) <= (m - 1) + (spare[0] - spare[m - 1])
    BY <1>9
  <2>4. /\ Part(m) \in Seq(Corpus) /\ Len(Part(m)) \in Nat \ {0}
        /\ Len(Part(m)) <= 1 + (spare[m - 1] - spare[m])
        /\ \A i, j \in 1 .. Len(Part(m)) : Part(m)[i] = Part(m)[j] => i = j
        /\ \A i \in 1 .. Len(Part(m)) : ChunkDim[Part(m)[i]] = queries[m]
    BY <1>6
  <2>5. Context(g[m], queries, m)
    <3>1. \A p, q \in 1 .. m : queries[p] = queries[q] => p = q
      BY <1>2, <2>1
    <3> DEFINE x == g[m - 1]
               y == Part(m)
    <3>2. /\ x \in Seq(Corpus) /\ Context(x, queries, m - 1)
          /\ y \in Seq(Corpus) /\ Len(y) # 0
          /\ \A i, j \in 1 .. Len(y) : y[i] = y[j] => i = j
          /\ \A i \in 1 .. Len(y) : ChunkDim[y[i]] = queries[m]
          /\ g[m] = x \o y
      BY <2>2, <2>3, <2>4
    <3> HIDE DEF x, y
    <3>3. Context(x \o y, queries, m)
      BY <2>1, <3>1, <3>2, ContextGrows
    <3>4. QED
      BY <3>2, <3>3
  <2>6. Len(g[m]) <= m + (spare[0] - spare[m])
    <3>1. Len(g[m]) = Len(g[m - 1]) + Len(Part(m)) /\ Len(g[m - 1]) \in Nat
      BY <2>2, <2>4, ConcatProperties, LenProperties
    <3>2. spare[0] \in Nat /\ spare[m] \in Nat /\ spare[m - 1] \in Nat
      BY <1>2, <1>5, <2>1
    <3>3. Len(Part(m)) \in Nat /\ Len(Part(m)) <= 1 + (spare[m - 1] - spare[m])
      BY <2>4
    <3> DEFINE a == Len(g[m - 1])
               b == Len(Part(m))
    <3>4. /\ a \in Nat /\ b \in Nat /\ Len(g[m]) = a + b
          /\ a <= (m - 1) + (spare[0] - spare[m - 1])
          /\ b <= 1 + (spare[m - 1] - spare[m])
      BY <2>3, <3>1, <3>3
    <3> HIDE DEF a, b
    <3>5. a + b <= m + (spare[0] - spare[m])
      BY <2>1, <3>2, <3>4
    <3>6. QED
      BY <3>4, <3>5
  <2>7. QED
    BY <2>1, <2>5, <2>6
<1> HIDE DEF S
<1>10. n \in S
  <2>1. 0 .. n \subseteq S
    BY <1>2, <1>8, <1>9, UpTo
  <2>2. QED
    BY <1>2, <2>1
<1> DEFINE s == Selected(results)
<1>11. /\ s \in Seq(Corpus) /\ Context(s, queries, n)
       /\ Len(s) <= n + (spare[0] - spare[n])
  BY <1>2, <1>7, <1>10 DEF S
<1> HIDE DEF s
<1>12. Len(s) <= FinalMax
  <2>1. spare[0] = FinalMax - n /\ spare[n] \in Nat /\ FinalMax \in Nat
    BY <1>2, <1>5, SizesAssumption DEF SpareIs, n
  <2>2. Len(s) \in Nat
    BY <1>11, LenProperties
  <2>3. QED
    BY <1>2, <1>11, <2>1, <2>2
<1>13. Cardinality(Range(s)) = Len(s)
  <2>1. DOMAIN s = 1 .. Len(s)
    BY <1>11, LenProperties
  <2>2. \A i, j \in DOMAIN s : s[i] = s[j] => i = j
    BY <1>11, <2>1 DEF Context
  <2>3. QED
    BY <1>11, <2>2, DistinctCount
<1>14. {ChunkDim[c] : c \in Range(s)} = Dimensions
  <2>1. DOMAIN s = 1 .. Len(s)
    BY <1>11, LenProperties
  <2>2. \A d : d \in Dimensions <=> \E p \in 1 .. n : queries[p] = d
    BY <1>1, <1>2 DEF Covers, Range
  <2>3. \A c \in Range(s) : ChunkDim[c] \in Dimensions
    BY <1>11, <2>1, <2>2 DEF Context, Range
  <2>4. ASSUME NEW d \in Dimensions PROVE \E c \in Range(s) : ChunkDim[c] = d
    <3>1. PICK p \in 1 .. n : queries[p] = d
      BY <2>2
    <3>2. PICK i \in 1 .. Len(s) : ChunkDim[s[i]] = queries[p]
      BY <1>11 DEF Context
    <3>3. s[i] \in Range(s)
      BY <2>1 DEF Range
    <3>4. QED
      BY <3>1, <3>2, <3>3
  <2>5. QED
    BY <2>3, <2>4
<1>15. QED
  BY <1>12, <1>13, <1>14 DEF s
LEMMA SpareUnique ==
  ASSUME NEW plan, Len(plan) \in Nat, NEW kept, NEW f, NEW g,
         SpareIs(f, plan, kept), SpareIs(g, plan, kept)
  PROVE  \A q \in 0 .. Len(plan) : f[q] = g[q]
<1> DEFINE n == Len(plan)
           S == {q \in 0 .. n : f[q] = g[q]}
<1>1. 0 \in S
  BY DEF SpareIs
<1>2. ASSUME NEW q \in 1 .. n, q - 1 \in S PROVE q \in S
  BY <1>2 DEF SpareIs
<1> HIDE DEF S
<1>3. 0 .. n \subseteq S
  BY <1>1, <1>2, UpTo
<1>4. QED
  BY <1>3 DEF S

(* Every query has candidates; what answered named some of them, within    *)
(* the places of its query; the report has every dimension.                *)
RerankedInv ==
  /\ stage \in {"rerank", "report", "done"} =>
       /\ \A q \in DOMAIN queries : Candidates(merged, q) # <<>>
       /\ reranked \in [DOMAIN queries -> Answer]
       /\ \A q \in DOMAIN queries : reranked[q].items = <<>> => reranked[q].tokens = None
       /\ \A spare : SpareIs(spare, queries, merged) =>
            \A q \in DOMAIN queries :
              reranked[q].items # <<>> => Picks(reranked[q].items, merged, q, spare)
  /\ EveryDimensionInContext

LEMMA RerankedKept ==
  ASSUME RerankedInv, UNCHANGED <<found, reranked, chosen>>,
         \/ stage' = stage
         \/ stage = "report" /\ stage' = "done"
         \/ stage' \notin {"rerank", "report", "done"}
  PROVE  RerankedInv'
<1>1. CASE stage' \in {"rerank", "report", "done"}
  <2>1. stage \in {"rerank", "report", "done"} /\ (stage' \in {"report", "done"} => stage # "rerank")
    BY <1>1
  <2>2. /\ queries' = queries /\ merged' = merged /\ reranked' = reranked /\ chosen' = chosen
    BY DEF found
  <2>3. /\ \A q \in DOMAIN queries' : Candidates(merged', q) # <<>>
        /\ reranked' \in [DOMAIN queries' -> Answer]
        /\ \A q \in DOMAIN queries' : reranked'[q].items = <<>> => reranked'[q].tokens = None
        /\ \A spare : SpareIs(spare, queries', merged') =>
             \A q \in DOMAIN queries' :
               reranked'[q].items # <<>> => Picks(reranked'[q].items, merged', q, spare)
    BY <2>1, <2>2 DEF RerankedInv
  <2>4. EveryDimensionInContext'
    BY <2>1, <2>2 DEF RerankedInv, EveryDimensionInContext
  <2>5. QED
    BY <2>3, <2>4 DEF RerankedInv
<1>2. CASE stage' \notin {"rerank", "report", "done"}
  BY <1>2 DEF RerankedInv, EveryDimensionInContext
<1>3. QED
  BY <1>1, <1>2

LEMMA RerankedStarts ==
  ASSUME AnalysisInv, NEW list, FindLastMatches(list)
  PROVE  RerankedInv'
<1>1. CASE stage' # "rerank"
  <2>1. stage' \notin {"rerank", "report", "done"}
    BY <1>1 DEF FindLastMatches, EndWith
  <2>2. QED
    BY <2>1 DEF RerankedInv, EveryDimensionInContext
<1>2. CASE stage' = "rerank"
  <2>1. /\ \A q \in DOMAIN queries : Candidates(Merge(Append(matches, list), limit), q) # <<>>
        /\ merged' = Merge(Append(matches, list), limit) /\ queries' = queries
        /\ reranked' = [q \in DOMAIN queries |-> Waiting]
    BY <1>2 DEF FindLastMatches, EndWith
  <2>2. Waiting \in Answer /\ Waiting.items = <<>> /\ Waiting.tokens = None
    BY EmptySeq DEF Waiting, Answer
  <2> HIDE DEF Waiting
  <2>3. \A q \in DOMAIN queries' : Candidates(merged', q) # <<>>
    BY <2>1
  <2>4. /\ reranked' \in [DOMAIN queries' -> Answer]
        /\ \A q \in DOMAIN queries' : reranked'[q] = Waiting
    BY <2>1, <2>2
  <2>5. EveryDimensionInContext'
    BY <1>2 DEF EveryDimensionInContext
  <2>6. QED
    BY <2>2, <2>3, <2>4, <2>5 DEF RerankedInv
<1>3. QED
  BY <1>1, <1>2

LEMMA AnswerCounts ==
  ASSUME AnalysisInv, RetrievalInv, stage = "rerank", NEW q \in DOMAIN queries, NEW items, Valid(q, items)
  PROVE  /\ SpareIs(Spare, queries, merged)
         /\ \A spare : SpareIs(spare, queries, merged) => Picks(items, merged, q, spare)
<1>1. queries \in Seq(Range(ChunkDim)) /\ merged \in Seq(Match)
  BY DEF AnalysisInv, RetrievalInv
<1>2. Len(queries) \in Nat /\ q \in 1 .. Len(queries)
  BY <1>1, LenProperties
<1>3. SpareIs(Spare, queries, merged)
  BY <1>1, <1>2, SpareExists
<1>4. ASSUME NEW spare, SpareIs(spare, queries, merged) PROVE Picks(items, merged, q, spare)
  <2>1. q - 1 \in 0 .. Len(queries)
    BY <1>2
  <2>2. spare[q - 1] = Spare[q - 1]
    BY <1>2, <1>3, <1>4, <2>1, SpareUnique
  <2>3. QED
    BY <2>2 DEF Valid, TopN, Picks, Size
<1>5. QED
  BY <1>3, <1>4

LEMMA RerankedAnswer ==
  ASSUME AnalysisInv, RetrievalInv, RerankedInv, NEW q \in DOMAIN queries,
         NEW items \in SeqOf(1 .. CandidateK, FinalMax), NEW t \in Tokens,
         RerankReply(q, items, t)
  PROVE  RerankedInv'
<1> DEFINE results == [reranked EXCEPT ![q].items = items, ![q].tokens = t]
<1>1. /\ stage = "rerank" /\ Valid(q, items) /\ items # <<>> /\ reranked' = results
      /\ UNCHANGED <<queries, matches, limit, merged>>
  BY DEF RerankReply, Valid, found
<1>2. /\ \A p \in DOMAIN queries : Candidates(merged, p) # <<>>
      /\ reranked \in [DOMAIN queries -> Answer]
      /\ \A p \in DOMAIN queries : reranked[p].items = <<>> => reranked[p].tokens = None
      /\ \A spare : SpareIs(spare, queries, merged) =>
           \A p \in DOMAIN queries :
             reranked[p].items # <<>> => Picks(reranked[p].items, merged, p, spare)
  BY <1>1 DEF RerankedInv
<1>3. items \in Seq(Nat) /\ t \in Nat \cup {None}
  <2>1. CandidateK \in Nat /\ Tokens \subseteq Nat \cup {None}
    BY SizesAssumption
  <2>2. PICK n \in Nat : items \in [1 .. n -> 1 .. CandidateK]
    BY <2>1, SizesAssumption DEF SeqOf
  <2>3. items \in [1 .. n -> Nat]
    BY <2>1, <2>2
  <2>4. QED
    BY <2>1, <2>3, SeqDef
<1>4. /\ results \in [DOMAIN queries -> Answer]
      /\ results[q].items = items
      /\ \A p \in DOMAIN queries : p # q => results[p] = reranked[p]
  BY <1>2, <1>3 DEF Answer
<1> HIDE DEF results
<1>5. \A p \in DOMAIN queries : results[p].items = <<>> => results[p].tokens = None
  BY <1>1, <1>2, <1>4
<1>6. /\ SpareIs(Spare, queries, merged)
      /\ \A spare : SpareIs(spare, queries, merged) => Picks(items, merged, q, spare)
  BY <1>1, AnswerCounts
<1>7. \A spare : SpareIs(spare, queries, merged) =>
        \A p \in DOMAIN queries :
          results[p].items # <<>> => Picks(results[p].items, merged, p, spare)
  BY <1>2, <1>4, <1>6
<1>8. \/ stage' = "rerank"
      \/ /\ stage' = "report" /\ chosen' = Selected(results)
         /\ \A p \in DOMAIN queries : results[p].items # <<>>
  BY <1>1 DEF RerankReply, results
<1>9. EveryDimensionInContext'
  <2>1. CASE stage' = "rerank"
    BY <2>1 DEF EveryDimensionInContext
  <2>2. CASE stage' = "report" /\ chosen' = Selected(results)
             /\ \A p \in DOMAIN queries : results[p].items # <<>>
    <3>1. /\ {ChunkDim[c] : c \in Range(Selected(results))} = Dimensions
          /\ Cardinality(Range(Selected(results))) = Len(Selected(results))
          /\ Len(Selected(results)) <= FinalMax
      BY <1>1, <1>2, <1>4, <1>6, <1>7, <2>2, SelectionCovers
    <3> DEFINE s == Selected(results)
    <3>2. /\ {ChunkDim[c] : c \in Range(s)} = Dimensions
          /\ Cardinality(Range(s)) = Len(s) /\ Len(s) <= FinalMax /\ chosen' = s
      BY <2>2, <3>1
    <3> HIDE DEF s
    <3>3. QED
      BY <3>2 DEF EveryDimensionInContext
  <2>3. QED
    BY <1>8, <2>1, <2>2
<1>10. /\ \A p \in DOMAIN queries' : Candidates(merged', p) # <<>>
       /\ reranked' \in [DOMAIN queries' -> Answer]
       /\ \A p \in DOMAIN queries' : reranked'[p].items = <<>> => reranked'[p].tokens = None
       /\ \A spare : SpareIs(spare, queries', merged') =>
            \A p \in DOMAIN queries' :
              reranked'[p].items # <<>> => Picks(reranked'[p].items, merged', p, spare)
  BY <1>1, <1>2, <1>4, <1>5, <1>7
<1>11. QED
  BY <1>9, <1>10 DEF RerankedInv

LEMMA RerankedStep ==
  AnalysisInv /\ RetrievalInv /\ RerankedInv /\ [Next]_vars => RerankedInv'
<1> SUFFICES ASSUME AnalysisInv, RetrievalInv, RerankedInv, [Next]_vars PROVE RerankedInv'
  OBVIOUS
<1>1. ASSUME stage' \notin {"rerank", "report", "done"} PROVE RerankedInv'
  BY <1>1 DEF RerankedInv, EveryDimensionInContext
<1>2. CASE \E p \in Processes : StartBuild(p) \/ UpsertBatch(p)
  BY <1>2, RerankedKept DEF StartBuild, UpsertBatch
<1>3. ASSUME NEW p \in Processes, Stop(p) PROVE RerankedInv'
  BY <1>1, <1>3, RerankedKept DEF Stop
<1>4. CASE Start \/ CallFails \/ Timeout
  BY <1>1, <1>4 DEF Start, CallFails, Timeout, EndWith
<1>5. ASSUME NEW plan \in Plans, NEW room, Search(plan, room) PROVE RerankedInv'
  BY <1>1, <1>5 DEF Search
<1>6. ASSUME NEW plan \in Plans, NEW t, PlanReply(plan, t) \/ PlannerGivesUp(plan) PROVE RerankedInv'
  BY <1>1, <1>6 DEF PlanReply, PlannerGivesUp, EndWith
<1>7. ASSUME NEW list, FindMatches(list) PROVE RerankedInv'
  BY <1>1, <1>7 DEF FindMatches
<1>8. CASE RerankStep
  <2>1. PICK q \in DOMAIN queries :
          \/ RerankRetry(q)
          \/ RerankFails(q)
          \/ \E items \in SeqOf(1 .. CandidateK, FinalMax), t \in Tokens : RerankReply(q, items, t)
    BY <1>8 DEF RerankStep
  <2>2. CASE RerankFails(q)
    BY <1>1, <2>2 DEF RerankFails, EndWith
  <2>3. CASE RerankRetry(q)
    <3> DEFINE again == [reranked EXCEPT ![q].tries = @ + 1]
    <3>1. /\ stage = "rerank" /\ stage' = "rerank" /\ reranked' = again
          /\ queries' = queries /\ merged' = merged
      BY <2>3 DEF RerankRetry, found
    <3>2. reranked \in [DOMAIN queries -> Answer]
      BY <3>1 DEF RerankedInv
    <3>3. DOMAIN again = DOMAIN queries /\ \A p \in DOMAIN queries :
            /\ p = q => again[p] = [reranked[p] EXCEPT !.tries = reranked[p].tries + 1]
            /\ p # q => again[p] = reranked[p]
      BY <3>2
    <3>4. again = [p \in DOMAIN queries |-> again[p]]
      BY <3>2
    <3> HIDE DEF again
    <3>5. ASSUME NEW p \in DOMAIN queries
          PROVE  /\ again[p] \in Answer
                 /\ again[p].items = reranked[p].items /\ again[p].tokens = reranked[p].tokens
      BY <3>2, <3>3 DEF Answer
    <3>6. /\ again \in [DOMAIN queries -> Answer]
          /\ \A p \in DOMAIN queries : again[p].items = reranked[p].items
                                       /\ again[p].tokens = reranked[p].tokens
      BY <3>4, <3>5
    <3>7. /\ \A p \in DOMAIN queries' : Candidates(merged', p) # <<>>
          /\ reranked' \in [DOMAIN queries' -> Answer]
          /\ \A p \in DOMAIN queries' : reranked'[p].items = <<>> => reranked'[p].tokens = None
          /\ \A spare : SpareIs(spare, queries', merged') =>
               \A p \in DOMAIN queries' :
                 reranked'[p].items # <<>> => Picks(reranked'[p].items, merged', p, spare)
      BY <3>1, <3>6 DEF RerankedInv
    <3>8. EveryDimensionInContext'
      BY <3>1 DEF EveryDimensionInContext
    <3>9. QED
      BY <3>7, <3>8 DEF RerankedInv
  <2>4. QED
    BY <2>1, <2>2, <2>3, RerankedAnswer
<1>9. ASSUME NEW t, Report(t) PROVE RerankedInv'
  BY <1>9, RerankedKept DEF Report
<1>10. CASE UNCHANGED vars
  BY <1>10, RerankedKept DEF vars
<1>11. QED
  BY <1>2, <1>3, <1>4, <1>5, <1>6, <1>7, <1>8, <1>9, <1>10, RerankedStarts DEF Next

LEMMA RerankedHolds == Spec => [](AnalysisInv /\ RetrievalInv /\ RerankedInv)
<1>1. Init => RerankedInv
  BY DEF Init, RerankedInv, EveryDimensionInContext
<1>2. QED
  BY <1>1, RetrievalHolds, RerankedStep, PTL DEF Spec

(* The report is written from at least one chunk of every dimension, none  *)
(* twice and no more than the maximum, whatever the planner, the search    *)
(* and the reranker answer (retrieval_reranking.py:33-91).                 *)
THEOREM ContextIsComplete == Spec => []EveryDimensionInContext
<1>1. RerankedInv => EveryDimensionInContext
  BY DEF RerankedInv
<1>2. QED
  BY <1>1, RerankedHolds, PTL
-----------------------------------------------------------------------------
(* Usage.                                                                  *)

Counts == Nat \cup {None}
(* The tokens of the answers, added up query by query.                     *)
Sums(g, answers, n) ==
  /\ \A m \in 0 .. n : g[m] \in Counts
  /\ g[0] = None
  /\ \A m \in 1 .. n : g[m] = Add(g[m - 1], answers[m].tokens)

LEMMA AddLaws ==
  /\ \A a, b \in Counts : Add(a, b) \in Counts /\ Add(a, b) = Add(b, a)
  /\ \A a, b, c \in Counts : Add(Add(a, b), c) = Add(a, Add(b, c))
  /\ \A a \in Counts : Add(a, None) = a /\ Add(None, a) = a
BY DEF Add, Counts, None

LEMMA TokensFold ==
  ASSUME queries \in Seq(Range(ChunkDim)), reranked \in [DOMAIN queries -> Answer]
  PROVE  \E g : Sums(g, reranked, Len(queries)) /\ RerankerTokens = g[Len(queries)]
<1> DEFINE n == Len(queries)
           Op(x, q) == Add(x, reranked[q].tokens)
           seq == [q \in DOMAIN queries |-> q]
           step == [q \in 1 .. n |-> [x \in Counts |-> Op(x, q)]]
           Eq(iter) == iter = [s \in SUBSET (1 .. n) |->
                                 IF s = {} THEN None ELSE Op(iter[s \ {Max(s)}], seq[Max(s)])]
           iter == CHOOSE iter : Eq(iter)
<1>1. n \in Nat /\ DOMAIN queries = 1 .. n /\ None \in Counts /\ \A q \in 1 .. n : seq[q] = q
  BY LenProperties DEF Counts
<1>2. ASSUME NEW q \in 1 .. n, NEW x \in Counts PROVE Op(x, q) \in Counts
  <2>1. reranked[q].tokens \in Counts
    BY <1>1 DEF Answer, Counts
  <2>2. QED
    BY <2>1, AddLaws
<1>3. DOMAIN seq = 1 .. n /\ Len(seq) = n
  <2>1. seq \in Seq(Nat)
    BY <1>1, SeqDef
  <2>2. DOMAIN seq = 1 .. n
    BY <1>1
  <2> HIDE DEF seq
  <2>3. QED
    BY <1>1, <2>1, <2>2, LenProperties
<1>4. RerankerTokens = iter[1 .. n]
  BY <1>3 DEF RerankerTokens, FoldLeft, MapThenFoldSet
<1> HIDE DEF Op, seq
<1>5. step \in [1 .. n -> [Counts -> Counts]]
  BY <1>2
<1>6. Eq(iter)
  <2>1. PICK fold \in [SUBSET (1 .. n) -> Counts] : Folds(fold, None, n, step)
    <3> HIDE DEF step, n
    <3>1. QED
      BY <1>1, <1>5, FoldExists
  <2>2. ASSUME NEW s \in SUBSET (1 .. n)
        PROVE  fold[s] = IF s = {} THEN None ELSE Op(fold[s \ {Max(s)}], seq[Max(s)])
    <3>1. CASE s = {}
      BY <2>1, <3>1 DEF Folds
    <3>2. CASE s # {}
      <4>1. Max(s) \in 1 .. n /\ seq[Max(s)] = Max(s)
        BY <1>1, <3>2, IntervalFacts
      <4>2. fold[s \ {Max(s)}] \in Counts
        BY <2>1
      <4>3. QED
        BY <2>1, <3>2, <4>1, <4>2 DEF Folds
    <3>3. QED
      BY <3>1, <3>2
  <2>3. fold = [s \in SUBSET (1 .. n) |->
                IF s = {} THEN None ELSE Op(fold[s \ {Max(s)}], seq[Max(s)])]
    BY <2>2
  <2>4. QED
    BY <2>3
<1> HIDE DEF iter
<1>7. \A s \in SUBSET (1 .. n) :
        iter[s] = IF s = {} THEN None ELSE Op(iter[s \ {Max(s)}], seq[Max(s)])
  BY <1>6
<1>8. iter[{}] = None /\ \A m \in 1 .. n : iter[1 .. m] = Op(iter[1 .. (m - 1)], m)
  <2>1. iter[{}] = None
    BY <1>7
  <2>2. ASSUME NEW m \in 1 .. n PROVE iter[1 .. m] = Op(iter[1 .. (m - 1)], m)
    <3>1. /\ 1 .. m \in SUBSET (1 .. n) /\ 1 .. m # {} /\ Max(1 .. m) = m
          /\ (1 .. m) \ {m} = 1 .. (m - 1)
      BY <1>1, IntervalFacts
    <3>2. iter[1 .. m] = Op(iter[(1 .. m) \ {m}], seq[m])
      BY <1>7, <3>1
    <3>3. QED
      BY <1>1, <3>1, <3>2
  <2>3. QED
    BY <2>1, <2>2
<1> DEFINE g == [m \in 0 .. n |-> iter[1 .. m]]
<1>9. g[0] = None /\ \A m \in 1 .. n : g[m] = Op(g[m - 1], m)
  BY <1>1, <1>8
<1> HIDE DEF g
<1>10. \A m \in 0 .. n : g[m] \in Counts
  <2> DEFINE S == {m \in 0 .. n : g[m] \in Counts}
  <2> HIDE DEF n
  <2>1. 0 \in S
    BY <1>1, <1>9
  <2>2. ASSUME NEW m \in 1 .. n, m - 1 \in S PROVE m \in S
    <3>1. g[m - 1] \in Counts /\ m \in 0 .. n
      BY <1>1, <2>2
    <3>2. Op(g[m - 1], m) \in Counts
      BY <1>2, <3>1
    <3>3. QED
      BY <1>9, <3>1, <3>2
  <2> HIDE DEF S
  <2>3. 0 .. n \subseteq S
    BY <1>1, <2>1, <2>2, UpTo
  <2>4. QED
    BY <2>3 DEF S
<1>11. RerankerTokens = g[n]
  BY <1>1, <1>4 DEF g
<1>12. Sums(g, reranked, n)
  BY <1>9, <1>10 DEF Sums, Op
<1>13. QED
  BY <1>11, <1>12

LEMMA SumsUnique ==
  ASSUME NEW n \in Nat, NEW answers, NEW f, NEW g, Sums(f, answers, n), Sums(g, answers, n)
  PROVE  f[n] = g[n]
<1> DEFINE S == {m \in 0 .. n : f[m] = g[m]}
<1>1. 0 \in S
  BY DEF Sums
<1>2. ASSUME NEW m \in 1 .. n, m - 1 \in S PROVE m \in S
  BY <1>2 DEF Sums
<1> HIDE DEF S
<1>3. 0 .. n \subseteq S
  BY <1>1, <1>2, UpTo
<1>4. QED
  BY <1>3 DEF S

(* One more answer adds its tokens.                                        *)
Answers(answers, results, q, t, n) ==
  /\ answers[q].tokens = None /\ results[q].tokens = t
  /\ \A p \in 1 .. n : answers[p].tokens \in Counts
  /\ \A p \in 1 .. n : p # q => results[p] = answers[p]

LEMMA SumsAdd ==
  ASSUME NEW n \in Nat, NEW answers, NEW results, NEW q \in 1 .. n, NEW t \in Counts,
         Answers(answers, results, q, t, n), NEW g, Sums(g, answers, n)
  PROVE  \E h : Sums(h, results, n) /\ h[n] = Add(g[n], t)
<1> DEFINE h == [m \in 0 .. n |-> IF m < q THEN g[m] ELSE Add(g[m], t)]
<1> USE DEF Answers
<1>1. \A m \in 0 .. n : h[m] \in Counts
  BY AddLaws DEF Sums
<1>2. h[0] = None
  BY DEF Sums
<1>3. ASSUME NEW m \in 1 .. n PROVE h[m] = Add(h[m - 1], results[m].tokens)
  <2>1. /\ m - 1 \in 0 .. n /\ m \in 0 .. n /\ g[m - 1] \in Counts /\ g[m] \in Counts
        /\ answers[m].tokens \in Counts /\ g[m] = Add(g[m - 1], answers[m].tokens)
    BY DEF Sums
  <2>2. CASE m < q
    BY <2>1, <2>2
  <2>3. CASE m = q
    <3>1. m - 1 < q /\ ~(m < q)
      BY <2>3
    <3>2. h[m] = Add(g[m], t) /\ h[m - 1] = g[m - 1] /\ results[m].tokens = t
      BY <2>1, <2>3, <3>1
    <3>3. g[m] = g[m - 1]
      BY <2>1, <2>3, AddLaws
    <3>4. QED
      BY <3>2, <3>3
  <2>4. CASE q < m
    <3>1. ~(m - 1 < q) /\ ~(m < q) /\ m # q
      BY <2>4
    <3>2. h[m] = Add(g[m], t) /\ h[m - 1] = Add(g[m - 1], t)
      BY <2>1, <3>1
    <3>3. results[m].tokens = answers[m].tokens
      BY <3>1
    <3> DEFINE a == answers[m].tokens
               b == g[m - 1]
    <3>4. a \in Counts /\ b \in Counts /\ g[m] = Add(b, a)
      BY <2>1
    <3> HIDE DEF a, b
    <3>5. Add(Add(b, a), t) = Add(Add(b, t), a)
      BY <3>4, AddLaws
    <3>6. QED
      BY <3>2, <3>3, <3>4, <3>5 DEF a, b
  <2>5. QED
    BY <2>2, <2>3, <2>4
<1>4. h[n] = Add(g[n], t)
  BY DEF h
<1> HIDE DEF h
<1>5. Sums(h, results, n)
  BY <1>1, <1>2, <1>3 DEF Sums
<1>6. QED
  BY <1>4, <1>5
(* What was billed is what the planner and the answers so far reported.    *)
UsageInv ==
  /\ stage \in {"plan", "retrieve"} => usage = billed
  /\ stage \in {"rerank", "report"} =>
       \E g : Sums(g, reranked, Len(queries)) /\ billed = Add(usage, g[Len(queries)])
  /\ UsageAddsUp

LEMMA UsageKept ==
  ASSUME UsageInv, UNCHANGED <<queries, usage, billed>>, stage' = stage,
         Len(queries) \in Nat,
         stage \in {"rerank", "report"} =>
           \A q \in 1 .. Len(queries) : reranked'[q].tokens = reranked[q].tokens
  PROVE  UsageInv'
<1>1. stage' \in {"plan", "retrieve"} => usage' = billed'
  BY DEF UsageInv
<1>2. ASSUME stage' \in {"rerank", "report"}
      PROVE  \E g : Sums(g, reranked', Len(queries')) /\ billed' = Add(usage', g[Len(queries')])
  <2>1. PICK g : Sums(g, reranked, Len(queries)) /\ billed = Add(usage, g[Len(queries)])
    BY <1>2 DEF UsageInv
  <2>2. Sums(g, reranked', Len(queries))
    BY <1>2, <2>1 DEF Sums
  <2>3. QED
    BY <2>1, <2>2
<1>3. UsageAddsUp'
  BY DEF UsageInv, UsageAddsUp
<1>4. QED
  BY <1>1, <1>2, <1>3 DEF UsageInv

LEMMA UsageStarts ==
  ASSUME AnalysisInv, RerankedInv', UsageInv, NEW list, FindLastMatches(list)
  PROVE  UsageInv'
<1>1. CASE stage' # "rerank"
  <2>1. stage' \in {"searched", "failed"}
    BY <1>1 DEF FindLastMatches, EndWith
  <2>2. QED
    BY <2>1 DEF UsageInv, UsageAddsUp
<1>2. CASE stage' = "rerank"
  <2>1. /\ stage = "retrieve" /\ UNCHANGED <<queries, usage, billed>>
        /\ reranked' = [q \in DOMAIN queries |-> Waiting]
    BY <1>2 DEF FindLastMatches, EndWith
  <2>2. Len(queries) \in Nat /\ DOMAIN queries = 1 .. Len(queries)
    BY LenProperties DEF AnalysisInv
  <2> DEFINE n == Len(queries)
             g == [m \in 0 .. n |-> None]
  <2>3. \A m \in 1 .. n : reranked'[m].tokens = None
    BY <2>1, <2>2 DEF Waiting
  <2>4. \A m \in 0 .. n : g[m] = None
    OBVIOUS
  <2> HIDE DEF g
  <2>5. Sums(g, reranked', n)
    <3>1. None \in Counts /\ Add(None, None) = None
      BY AddLaws DEF Counts
    <3>2. \A m \in 1 .. n : m \in 0 .. n /\ m - 1 \in 0 .. n
      BY <2>2
    <3>3. 0 \in 0 .. n
      BY <2>2
    <3> HIDE DEF n
    <3>4. QED
      BY <2>3, <2>4, <3>1, <3>2, <3>3 DEF Sums
  <2>6. billed' = Add(usage', g[n])
    <3>1. usage \in Counts /\ billed = usage
      BY <2>1 DEF UsageInv, AnalysisInv, Counts
    <3>2. QED
      BY <2>1, <2>2, <2>4, <3>1, AddLaws
  <2>7. UsageAddsUp'
    BY <1>2 DEF UsageAddsUp
  <2>8. QED
    BY <1>2, <2>1, <2>5, <2>6, <2>7 DEF UsageInv
<1>3. QED
  BY <1>1, <1>2

LEMMA UsageAnswer ==
  ASSUME AnalysisInv, RerankedInv, UsageInv, NEW q \in DOMAIN queries, NEW items,
         NEW t \in Tokens, RerankReply(q, items, t)
  PROVE  UsageInv'
<1> DEFINE n == Len(queries)
           results == [reranked EXCEPT ![q].items = items, ![q].tokens = t]
<1>1. /\ stage = "rerank" /\ stage' \in {"rerank", "report"} /\ reranked' = results
      /\ reranked[q].items = <<>> /\ billed' = Add(billed, t)
      /\ UNCHANGED <<queries, usage>>
  BY DEF RerankReply, Answered, found
<1>2. n \in Nat /\ DOMAIN queries = 1 .. n
  BY LenProperties DEF AnalysisInv
<1>3. /\ reranked \in [DOMAIN queries -> Answer]
      /\ reranked[q].tokens = None
  BY <1>1 DEF RerankedInv
<1>4. \A p \in 1 .. n : reranked[p].tokens \in Counts
  BY <1>2, <1>3 DEF Answer, Counts
<1>5. /\ results[q].tokens = t
      /\ \A p \in 1 .. n : p # q => results[p] = reranked[p]
  BY <1>2, <1>3 DEF Answer
<1> HIDE DEF results
<1>6. t \in Counts /\ usage \in Counts
  BY <1>1, SizesAssumption DEF Counts, AnalysisInv
<1>7. PICK g : Sums(g, reranked, n) /\ billed = Add(usage, g[n])
  BY <1>1 DEF UsageInv
<1> HIDE DEF n
<1>8. PICK h : Sums(h, results, n) /\ h[n] = Add(g[n], t)
  <2>1. \E h : Sums(h, results, n) /\ h[n] = Add(g[n], t)
    <3>1. n \in Nat /\ q \in 1 .. n /\ t \in Counts /\ Sums(g, reranked, n)
      BY <1>2, <1>6, <1>7
    <3>2. Answers(reranked, results, q, t, n)
      BY <1>3, <1>4, <1>5 DEF Answers
    <3>3. QED
      BY <3>1, <3>2, SumsAdd
  <2>2. QED
    BY <2>1
<1>9. billed' = Add(usage', h[n])
  <2>1. g[n] \in Counts
    BY <1>2, <1>7 DEF Sums
  <2>2. Add(Add(usage, g[n]), t) = Add(usage, Add(g[n], t))
    <3> DEFINE a == usage
               b == g[n]
    <3>1. a \in Counts /\ b \in Counts /\ t \in Counts
      BY <1>6, <2>1
    <3> HIDE DEF a, b
    <3>2. Add(Add(a, b), t) = Add(a, Add(b, t))
      BY <3>1, AddLaws
    <3>3. QED
      BY <3>2 DEF a, b
  <2>3. QED
    BY <1>1, <1>7, <1>8, <2>2
<1>10. Sums(h, reranked', Len(queries')) /\ billed' = Add(usage', h[Len(queries')])
  BY <1>1, <1>8, <1>9 DEF n
<1>11. QED
  BY <1>1, <1>10 DEF UsageInv, UsageAddsUp

LEMMA UsageReported ==
  ASSUME AnalysisInv, RerankedInv, UsageInv, NEW t \in Tokens, Report(t)
  PROVE  UsageInv'
<1> DEFINE n == Len(queries)
<1>1. /\ stage = "report" /\ stage' = "done" /\ billed' = Add(billed, t)
      /\ usage' = Add(Add(usage, RerankerTokens), t)
  BY DEF Report
<1>2. PICK g : Sums(g, reranked, n) /\ billed = Add(usage, g[n])
  BY <1>1 DEF UsageInv
<1>3. PICK h : Sums(h, reranked, n) /\ RerankerTokens = h[n]
  BY <1>1, TokensFold DEF AnalysisInv, RerankedInv
<1>4. n \in Nat
  BY LenProperties DEF AnalysisInv
<1>5. g[n] = h[n]
  BY <1>2, <1>3, <1>4, SumsUnique
<1>6. usage' = billed'
  BY <1>1, <1>2, <1>3, <1>5
<1>7. QED
  BY <1>1, <1>6 DEF UsageInv, UsageAddsUp

LEMMA UsageStep ==
  AnalysisInv /\ RerankedInv /\ RerankedInv' /\ UsageInv /\ [Next]_vars => UsageInv'
<1> SUFFICES ASSUME AnalysisInv, RerankedInv, RerankedInv', UsageInv, [Next]_vars PROVE UsageInv'
  OBVIOUS
<1>1. Len(queries) \in Nat /\ DOMAIN queries = 1 .. Len(queries)
  BY LenProperties DEF AnalysisInv
<1>2. ASSUME NEW plan, NEW room, Holds(plan, room), stage' \notin {"rerank", "report", "done"}
      PROVE  UsageInv'
  BY <1>2 DEF Holds, UsageInv, UsageAddsUp
<1>3. ASSUME UNCHANGED <<stage, found, reranked, usage, billed>> PROVE UsageInv'
  BY <1>1, <1>3, UsageKept DEF found
<1>4. CASE \E p \in Processes : StartBuild(p) \/ UpsertBatch(p)
  BY <1>3, <1>4 DEF StartBuild, UpsertBatch
<1>5. ASSUME NEW p \in Processes, Stop(p) PROVE UsageInv'
  <2>1. CASE stage' = "idle" /\ failure' = "none" /\ Holds(<<>>, 0)
    BY <1>2, <2>1
  <2>2. QED
    BY <1>3, <1>5, <2>1 DEF Stop
<1>6. CASE Start \/ CallFails \/ Timeout
  BY <1>2, <1>6 DEF Start, CallFails, Timeout, EndWith
<1>7. ASSUME NEW plan \in Plans, NEW room, Search(plan, room) PROVE UsageInv'
  BY <1>2, <1>7 DEF Search
<1>8. ASSUME NEW plan \in Plans, PlannerGivesUp(plan) PROVE UsageInv'
  BY <1>2, <1>8 DEF PlannerGivesUp, EndWith
<1>9. ASSUME NEW plan \in Plans, NEW t, PlanReply(plan, t) PROVE UsageInv'
  BY <1>9 DEF PlanReply, PlannerTokens, UsageInv, UsageAddsUp
<1>10. ASSUME NEW list, FindMatches(list) PROVE UsageInv'
  BY <1>1, <1>10, UsageKept DEF FindMatches
<1>11. CASE RerankStep
  <2>1. PICK q \in DOMAIN queries :
          \/ RerankRetry(q)
          \/ RerankFails(q)
          \/ \E items \in SeqOf(1 .. CandidateK, FinalMax), t \in Tokens : RerankReply(q, items, t)
    BY <1>11 DEF RerankStep
  <2>2. CASE RerankFails(q)
    BY <1>2, <2>2 DEF RerankFails, EndWith
  <2>3. CASE RerankRetry(q)
    <3>1. /\ stage = "rerank" /\ stage' = stage /\ UNCHANGED <<queries, usage, billed>>
          /\ reranked' = [reranked EXCEPT ![q].tries = @ + 1]
      BY <2>3 DEF RerankRetry, found
    <3>2. reranked \in [DOMAIN queries -> Answer]
      BY <3>1 DEF RerankedInv
    <3>3. \A p \in 1 .. Len(queries) : reranked'[p].tokens = reranked[p].tokens
      BY <1>1, <3>1, <3>2 DEF Answer
    <3>4. QED
      BY <1>1, <3>1, <3>3, UsageKept
  <2>4. QED
    BY <2>1, <2>2, <2>3, UsageAnswer
<1>12. CASE UNCHANGED vars
  BY <1>3, <1>12 DEF vars
<1>13. QED
  BY <1>4, <1>5, <1>6, <1>7, <1>8, <1>9, <1>10, <1>11, <1>12, UsageStarts, UsageReported DEF Next

(* The usage in the response is that of every planner, reranker and report *)
(* call that was answered, however the answers interleave                  *)
(* (dashscope_planner.py:77-95, rag_analysis.py:90-102).                   *)
THEOREM UsageIsWhatWasBilled == Spec => []UsageAddsUp
<1>1. Init => UsageInv
  BY DEF Init, UsageInv, UsageAddsUp
<1>2. UsageInv => UsageAddsUp
  BY DEF UsageInv
<1>3. QED
  BY <1>1, <1>2, RerankedHolds, UsageStep, PTL DEF Spec
-----------------------------------------------------------------------------
(* Places.                                                                 *)

TotalTopN == FoldLeft(LAMBDA sum, q : sum + TopN(q), 0, [q \in DOMAIN queries |-> q])
TotalSize == FoldLeft(LAMBDA sum, q : sum + Size(merged, q), 0, [q \in DOMAIN queries |-> q])

LEMMA PlacesAre ==
  ASSUME stage = "rerank" =>
           /\ TotalTopN = Shortest(FinalMax, TotalSize)
           /\ \A q \in DOMAIN queries : TopN(q) \in 1 .. Size(merged, q)
           /\ \A p, q \in DOMAIN queries : p < q /\ TopN(q) > 1 => TopN(p) = Size(merged, p)
  PROVE  PlacesAreUsedUp
BY DEF PlacesAreUsedUp, TotalTopN, TotalSize, Size, FoldLeft, MapThenFoldSet
LEMMA TopNFold ==
  ASSUME Len(queries) \in Nat, DOMAIN queries = 1 .. Len(queries),
         \A q \in 1 .. Len(queries) : TopN(q) \in Int
  PROVE  \E g : /\ \A m \in 0 .. Len(queries) : g[m] \in Int
                /\ g[0] = 0
                /\ \A m \in 1 .. Len(queries) : g[m] = g[m - 1] + TopN(m)
                /\ TotalTopN = g[Len(queries)]
<1> DEFINE n == Len(queries)
           Op(x, q) == x + TopN(q)
           seq == [q \in DOMAIN queries |-> q]
           step == [q \in 1 .. n |-> [x \in Int |-> Op(x, q)]]
           Eq(iter) == iter = [s \in SUBSET (1 .. n) |->
                                 IF s = {} THEN 0 ELSE Op(iter[s \ {Max(s)}], seq[Max(s)])]
           iter == CHOOSE iter : Eq(iter)
<1>1. n \in Nat /\ DOMAIN queries = 1 .. n /\ \A q \in 1 .. n : seq[q] = q
  OBVIOUS
<1>2. ASSUME NEW q \in 1 .. n, NEW x \in Int PROVE Op(x, q) \in Int
  OBVIOUS
<1>3. DOMAIN seq = 1 .. n /\ Len(seq) = n
  <2>1. seq \in Seq(Nat)
    BY <1>1, SeqDef
  <2>2. DOMAIN seq = 1 .. n
    BY <1>1
  <2> HIDE DEF seq
  <2>3. QED
    BY <1>1, <2>1, <2>2, LenProperties
<1>4. TotalTopN = iter[1 .. n]
  BY <1>3 DEF TotalTopN, FoldLeft, MapThenFoldSet
<1> HIDE DEF Op, seq
<1>5. step \in [1 .. n -> [Int -> Int]]
  BY <1>2
<1>6. Eq(iter)
  <2>1. PICK fold \in [SUBSET (1 .. n) -> Int] : Folds(fold, 0, n, step)
    <3> DEFINE X == Int
               base == 0
    <3>1. base \in X /\ step \in [1 .. n -> [X -> X]]
      BY <1>5
    <3> HIDE DEF step, n, X, base
    <3>2. \E fold \in [SUBSET (1 .. n) -> X] : Folds(fold, base, n, step)
      BY <1>1, <3>1, FoldExists
    <3>3. QED
      BY <3>2 DEF X, base
  <2>2. ASSUME NEW s \in SUBSET (1 .. n)
        PROVE  fold[s] = IF s = {} THEN 0 ELSE Op(fold[s \ {Max(s)}], seq[Max(s)])
    <3>1. CASE s = {}
      BY <2>1, <3>1 DEF Folds
    <3>2. CASE s # {}
      <4>1. Max(s) \in 1 .. n /\ seq[Max(s)] = Max(s)
        BY <1>1, <3>2, IntervalFacts
      <4>2. fold[s \ {Max(s)}] \in Int
        BY <2>1
      <4>3. QED
        BY <2>1, <3>2, <4>1, <4>2 DEF Folds
    <3>3. QED
      BY <3>1, <3>2
  <2>3. fold = [s \in SUBSET (1 .. n) |->
                IF s = {} THEN 0 ELSE Op(fold[s \ {Max(s)}], seq[Max(s)])]
    BY <2>2
  <2>4. QED
    BY <2>3
<1> HIDE DEF iter
<1>7. \A s \in SUBSET (1 .. n) :
        iter[s] = IF s = {} THEN 0 ELSE Op(iter[s \ {Max(s)}], seq[Max(s)])
  BY <1>6
<1>8. iter[{}] = 0 /\ \A m \in 1 .. n : iter[1 .. m] = Op(iter[1 .. (m - 1)], m)
  <2>1. iter[{}] = 0
    BY <1>7
  <2>2. ASSUME NEW m \in 1 .. n PROVE iter[1 .. m] = Op(iter[1 .. (m - 1)], m)
    <3>1. /\ 1 .. m \in SUBSET (1 .. n) /\ 1 .. m # {} /\ Max(1 .. m) = m
          /\ (1 .. m) \ {m} = 1 .. (m - 1)
      BY <1>1, IntervalFacts
    <3>2. iter[1 .. m] = Op(iter[(1 .. m) \ {m}], seq[m])
      BY <1>7, <3>1
    <3>3. QED
      BY <1>1, <3>1, <3>2
  <2>3. QED
    BY <2>1, <2>2
<1> DEFINE g == [m \in 0 .. n |-> iter[1 .. m]]
<1>9. g[0] = 0 /\ \A m \in 1 .. n : g[m] = Op(g[m - 1], m)
  BY <1>1, <1>8
<1> HIDE DEF g
<1>10. \A m \in 0 .. n : g[m] \in Int
  <2> DEFINE S == {m \in 0 .. n : g[m] \in Int}
  <2> HIDE DEF n
  <2>1. 0 \in S
    BY <1>1, <1>9
  <2>2. ASSUME NEW m \in 1 .. n, m - 1 \in S PROVE m \in S
    <3>1. g[m - 1] \in Int /\ m \in 0 .. n
      BY <1>1, <2>2
    <3>2. Op(g[m - 1], m) \in Int
      BY <1>2, <3>1
    <3>3. QED
      BY <1>9, <3>1, <3>2
  <2> HIDE DEF S
  <2>3. 0 .. n \subseteq S
    BY <1>1, <2>1, <2>2, UpTo
  <2>4. QED
    BY <2>3 DEF S
<1>11. TotalTopN = g[n]
  BY <1>1, <1>4 DEF g
<1>12. QED
  BY <1>9, <1>10, <1>11 DEF Op

LEMMA SizeFold ==
  ASSUME Len(queries) \in Nat, DOMAIN queries = 1 .. Len(queries),
         \A q \in 1 .. Len(queries) : Size(merged, q) \in Int
  PROVE  \E g : /\ \A m \in 0 .. Len(queries) : g[m] \in Int
                /\ g[0] = 0
                /\ \A m \in 1 .. Len(queries) : g[m] = g[m - 1] + Size(merged, m)
                /\ TotalSize = g[Len(queries)]
<1> DEFINE n == Len(queries)
           Op(x, q) == x + Size(merged, q)
           seq == [q \in DOMAIN queries |-> q]
           step == [q \in 1 .. n |-> [x \in Int |-> Op(x, q)]]
           Eq(iter) == iter = [s \in SUBSET (1 .. n) |->
                                 IF s = {} THEN 0 ELSE Op(iter[s \ {Max(s)}], seq[Max(s)])]
           iter == CHOOSE iter : Eq(iter)
<1>1. n \in Nat /\ DOMAIN queries = 1 .. n /\ \A q \in 1 .. n : seq[q] = q
  OBVIOUS
<1>2. ASSUME NEW q \in 1 .. n, NEW x \in Int PROVE Op(x, q) \in Int
  OBVIOUS
<1>3. DOMAIN seq = 1 .. n /\ Len(seq) = n
  <2>1. seq \in Seq(Nat)
    BY <1>1, SeqDef
  <2>2. DOMAIN seq = 1 .. n
    BY <1>1
  <2> HIDE DEF seq
  <2>3. QED
    BY <1>1, <2>1, <2>2, LenProperties
<1>4. TotalSize = iter[1 .. n]
  BY <1>3 DEF TotalSize, FoldLeft, MapThenFoldSet
<1> HIDE DEF Op, seq
<1>5. step \in [1 .. n -> [Int -> Int]]
  BY <1>2
<1>6. Eq(iter)
  <2>1. PICK fold \in [SUBSET (1 .. n) -> Int] : Folds(fold, 0, n, step)
    <3> DEFINE X == Int
               base == 0
    <3>1. base \in X /\ step \in [1 .. n -> [X -> X]]
      BY <1>5
    <3> HIDE DEF step, n, X, base
    <3>2. \E fold \in [SUBSET (1 .. n) -> X] : Folds(fold, base, n, step)
      BY <1>1, <3>1, FoldExists
    <3>3. QED
      BY <3>2 DEF X, base
  <2>2. ASSUME NEW s \in SUBSET (1 .. n)
        PROVE  fold[s] = IF s = {} THEN 0 ELSE Op(fold[s \ {Max(s)}], seq[Max(s)])
    <3>1. CASE s = {}
      BY <2>1, <3>1 DEF Folds
    <3>2. CASE s # {}
      <4>1. Max(s) \in 1 .. n /\ seq[Max(s)] = Max(s)
        BY <1>1, <3>2, IntervalFacts
      <4>2. fold[s \ {Max(s)}] \in Int
        BY <2>1
      <4>3. QED
        BY <2>1, <3>2, <4>1, <4>2 DEF Folds
    <3>3. QED
      BY <3>1, <3>2
  <2>3. fold = [s \in SUBSET (1 .. n) |->
                IF s = {} THEN 0 ELSE Op(fold[s \ {Max(s)}], seq[Max(s)])]
    BY <2>2
  <2>4. QED
    BY <2>3
<1> HIDE DEF iter
<1>7. \A s \in SUBSET (1 .. n) :
        iter[s] = IF s = {} THEN 0 ELSE Op(iter[s \ {Max(s)}], seq[Max(s)])
  BY <1>6
<1>8. iter[{}] = 0 /\ \A m \in 1 .. n : iter[1 .. m] = Op(iter[1 .. (m - 1)], m)
  <2>1. iter[{}] = 0
    BY <1>7
  <2>2. ASSUME NEW m \in 1 .. n PROVE iter[1 .. m] = Op(iter[1 .. (m - 1)], m)
    <3>1. /\ 1 .. m \in SUBSET (1 .. n) /\ 1 .. m # {} /\ Max(1 .. m) = m
          /\ (1 .. m) \ {m} = 1 .. (m - 1)
      BY <1>1, IntervalFacts
    <3>2. iter[1 .. m] = Op(iter[(1 .. m) \ {m}], seq[m])
      BY <1>7, <3>1
    <3>3. QED
      BY <1>1, <3>1, <3>2
  <2>3. QED
    BY <2>1, <2>2
<1> DEFINE g == [m \in 0 .. n |-> iter[1 .. m]]
<1>9. g[0] = 0 /\ \A m \in 1 .. n : g[m] = Op(g[m - 1], m)
  BY <1>1, <1>8
<1> HIDE DEF g
<1>10. \A m \in 0 .. n : g[m] \in Int
  <2> DEFINE S == {m \in 0 .. n : g[m] \in Int}
  <2> HIDE DEF n
  <2>1. 0 \in S
    BY <1>1, <1>9
  <2>2. ASSUME NEW m \in 1 .. n, m - 1 \in S PROVE m \in S
    <3>1. g[m - 1] \in Int /\ m \in 0 .. n
      BY <1>1, <2>2
    <3>2. Op(g[m - 1], m) \in Int
      BY <1>2, <3>1
    <3>3. QED
      BY <1>9, <3>1, <3>2
  <2> HIDE DEF S
  <2>3. 0 .. n \subseteq S
    BY <1>1, <2>1, <2>2, UpTo
  <2>4. QED
    BY <2>3 DEF S
<1>11. TotalSize = g[n]
  BY <1>1, <1>4 DEF g
<1>12. QED
  BY <1>9, <1>10, <1>11 DEF Op

(* What is left is what the candidates so far left of it.                  *)
Spends(spare, size, total, asked, n) ==
  /\ spare[0] \in Nat
  /\ \A q \in 1 .. n : size[q] \in Nat \ {0}
  /\ \A q \in 1 .. n : spare[q] = spare[q - 1] - Shortest(size[q] - 1, spare[q - 1])
  /\ total[0] = 0 /\ \A q \in 1 .. n : total[q] = total[q - 1] + size[q]
  /\ asked[0] = 0
  /\ \A q \in 1 .. n : asked[q] = asked[q - 1] + (1 + Shortest(size[q] - 1, spare[q - 1]))

LEMMA SpareIsLeft ==
  ASSUME NEW n \in Nat, NEW spare, NEW size, NEW total, NEW asked,
         Spends(spare, size, total, asked, n)
  PROVE  \A q \in 0 .. n :
           /\ spare[q] \in Nat /\ total[q] \in Nat /\ total[q] >= q
           /\ asked[q] = q + (spare[0] - spare[q])
           /\ spare[q] = IF total[q] - q >= spare[0] THEN 0 ELSE spare[0] - (total[q] - q)
<1> DEFINE Left(q) ==
             /\ spare[q] \in Nat /\ total[q] \in Nat /\ total[q] >= q
             /\ asked[q] = q + (spare[0] - spare[q])
             /\ spare[q] = IF total[q] - q >= spare[0] THEN 0 ELSE spare[0] - (total[q] - q)
           S == {q \in 0 .. n : Left(q)}
<1> USE DEF Spends
<1>1. 0 \in S
  <2>1. asked[0] = 0 /\ total[0] = 0
    OBVIOUS
  <2>2. Left(0)
    BY <2>1
  <2> HIDE DEF Left
  <2>3. QED
    BY <2>2
<1>2. ASSUME NEW q \in 1 .. n, q - 1 \in S PROVE q \in S
  <2> DEFINE k == size[q]
             s == spare[q - 1]
             t == total[q - 1]
             a == asked[q - 1]
             room == spare[0]
  <2>1. /\ s \in Nat /\ t \in Nat /\ t >= q - 1 /\ a = (q - 1) + (room - s)
        /\ s = IF t - (q - 1) >= room THEN 0 ELSE room - (t - (q - 1))
    BY <1>2
  <2>2. k \in Nat \ {0} /\ room \in Nat /\ q \in Nat \ {0} /\ q \in 0 .. n
    OBVIOUS
  <2>3. /\ spare[q] = s - Shortest(k - 1, s) /\ total[q] = t + k
        /\ asked[q] = a + (1 + Shortest(k - 1, s))
    OBVIOUS
  <2> DEFINE s2 == spare[q]
             t2 == total[q]
             a2 == asked[q]
  <2>4. s2 = s - Shortest(k - 1, s) /\ t2 = t + k /\ a2 = a + (1 + Shortest(k - 1, s))
    BY <2>3
  <2> HIDE DEF k, s, t, a, room, s2, t2, a2
  <2>5. /\ s2 \in Nat /\ t2 \in Nat /\ t2 >= q /\ a2 = q + (room - s2)
        /\ s2 = IF t2 - q >= room THEN 0 ELSE room - (t2 - q)
    <3>1. CASE k - 1 < s
      <4>1. s2 = s - (k - 1) /\ a2 = a + k
        BY <2>1, <2>2, <2>4, <3>1 DEF Shortest
      <4>2. QED
        BY <2>1, <2>2, <2>4, <3>1, <4>1
    <3>2. CASE ~(k - 1 < s)
      <4>1. s2 = 0 /\ a2 = a + (1 + s)
        BY <2>1, <2>2, <2>4, <3>2 DEF Shortest
      <4>2. QED
        BY <2>1, <2>2, <2>4, <3>2, <4>1
    <3>3. QED
      BY <3>1, <3>2
  <2>6. Left(q)
    BY <2>5 DEF s2, t2, a2, room
  <2> HIDE DEF Left
  <2>7. QED
    BY <2>2, <2>6
<1> HIDE DEF Left
<1> HIDE DEF S
<1>3. 0 .. n \subseteq S
  BY <1>1, <1>2, UpTo
<1>4. QED
  BY <1>3 DEF S, Left

LEMMA SpareShrinks ==
  ASSUME NEW n \in Nat, NEW spare, NEW size,
         \A q \in 0 .. n : spare[q] \in Nat,
         \A q \in 1 .. n : size[q] \in Nat \ {0},
         \A q \in 1 .. n : spare[q] = spare[q - 1] - Shortest(size[q] - 1, spare[q - 1]),
         NEW p \in 0 .. n
  PROVE  \A q \in 0 .. n : p <= q => spare[q] <= spare[p]
<1> DEFINE S == {q \in 0 .. n : p <= q => spare[q] <= spare[p]}
<1>1. 0 \in S
  OBVIOUS
<1>2. ASSUME NEW q \in 1 .. n, q - 1 \in S PROVE q \in S
  <2>1. /\ q \in 0 .. n /\ q - 1 \in 0 .. n /\ spare[q] \in Nat /\ spare[q - 1] \in Nat
        /\ size[q] \in Nat \ {0} /\ spare[p] \in Nat
    OBVIOUS
  <2>2. spare[q] = spare[q - 1] - Shortest(size[q] - 1, spare[q - 1])
    OBVIOUS
  <2>3. spare[q] <= spare[q - 1]
    BY <2>1, <2>2 DEF Shortest
  <2>4. CASE p <= q - 1
    BY <1>2, <2>1, <2>3, <2>4
  <2>5. CASE ~(p <= q - 1)
    <3>1. p <= q => p = q
      BY <2>5
    <3>2. QED
      BY <2>1, <3>1
  <2>6. QED
    BY <2>4, <2>5
<1> HIDE DEF S
<1>3. 0 .. n \subseteq S
  BY <1>1, <1>2, UpTo
<1>4. QED
  BY <1>3 DEF S

(* The reranker is asked for as many chunks as there are, up to the        *)
(* maximum, and an earlier query gets all its candidates before a later    *)
(* one gets a second (retrieval_reranking.py:140-153).                     *)
THEOREM NoPlaceIsWasted == Spec => []PlacesAreUsedUp
<1>1. AnalysisInv /\ RetrievalInv /\ RerankedInv => PlacesAreUsedUp
  <2> SUFFICES ASSUME AnalysisInv, RetrievalInv, RerankedInv, stage = "rerank"
               PROVE  /\ TotalTopN = Shortest(FinalMax, TotalSize)
                      /\ \A q \in DOMAIN queries : TopN(q) \in 1 .. Size(merged, q)
                      /\ \A p, q \in DOMAIN queries :
                           p < q /\ TopN(q) > 1 => TopN(p) = Size(merged, p)
    BY PlacesAre
  <2> DEFINE n == Len(queries)
             size == [q \in 1 .. n |-> Size(merged, q)]
             room == FinalMax - n
  <2>1. /\ queries \in Seq(Range(ChunkDim)) /\ merged \in Seq(Match) /\ Covers(queries)
        /\ \A q \in DOMAIN queries : Candidates(merged, q) # <<>>
    BY DEF AnalysisInv, RetrievalInv, RerankedInv
  <2>2. n \in Nat /\ DOMAIN queries = 1 .. n /\ n <= FinalMax /\ FinalMax \in Nat
    BY <2>1, PlanIsDistinct, SizesAssumption
  <2>3. \A q \in 1 .. n : Size(merged, q) \in Nat \ {0} /\ size[q] = Size(merged, q)
    BY <2>1, <2>2, CandidatesAre, LenProperties, EmptySeq DEF Size
  <2>4. SpareIs(Spare, queries, merged)
    BY <2>1, <2>2, SpareExists
  <2>5. \A q \in 0 .. n : Spare[q] \in Nat
    BY <2>1, <2>2, <2>4, SpareBounds
  <2>6. ASSUME NEW q \in 1 .. n
        PROVE  /\ TopN(q) = 1 + Shortest(size[q] - 1, Spare[q - 1])
               /\ Spare[q] = Spare[q - 1] - Shortest(size[q] - 1, Spare[q - 1])
               /\ Spare[q - 1] \in Nat /\ TopN(q) \in Int
    <3>1. q - 1 \in 0 .. n
      BY <2>2
    <3>2. TopN(q) = 1 + Shortest(size[q] - 1, Spare[q - 1])
      BY <2>3 DEF TopN, Size
    <3>3. Spare[q - 1] \in Nat /\ size[q] \in Nat
      BY <2>3, <2>5, <3>1
    <3>4. Spare[q] = Spare[q - 1] - Shortest(size[q] - 1, Spare[q - 1])
      BY <2>3, <2>4 DEF SpareIs
    <3>5. TopN(q) \in Int
      BY <3>2, <3>3 DEF Shortest
    <3>6. QED
      BY <3>2, <3>3, <3>4, <3>5
  <2>7. PICK asked : /\ asked[0] = 0
                     /\ \A m \in 1 .. n : asked[m] = asked[m - 1] + TopN(m)
                     /\ TotalTopN = asked[n]
    BY <2>2, <2>6, TopNFold
  <2>8. PICK total : /\ total[0] = 0
                     /\ \A m \in 1 .. n : total[m] = total[m - 1] + Size(merged, m)
                     /\ TotalSize = total[n]
    BY <2>2, <2>3, SizeFold
  <2>9. Spare[0] = FinalMax - n
    BY <2>4 DEF SpareIs
  <2> HIDE DEF n, size
  <2>10. \A q \in 0 .. n :
           /\ total[q] \in Nat /\ total[q] >= q
           /\ asked[q] = q + (Spare[0] - Spare[q])
           /\ Spare[q] = IF total[q] - q >= Spare[0] THEN 0 ELSE Spare[0] - (total[q] - q)
    <3>1. Spare[0] \in Nat
      BY <2>2, <2>5
    <3>2. \A q \in 1 .. n : size[q] \in Nat \ {0}
      BY <2>3
    <3>3. \A q \in 1 .. n : Spare[q] = Spare[q - 1] - Shortest(size[q] - 1, Spare[q - 1])
      BY <2>6
    <3>4. total[0] = 0 /\ \A q \in 1 .. n : total[q] = total[q - 1] + size[q]
      BY <2>3, <2>8
    <3>5. /\ asked[0] = 0
          /\ \A q \in 1 .. n : asked[q] = asked[q - 1] + (1 + Shortest(size[q] - 1, Spare[q - 1]))
      BY <2>6, <2>7
    <3>6. Spends(Spare, size, total, asked, n)
      BY <3>1, <3>2, <3>3, <3>4, <3>5 DEF Spends
    <3>7. QED
      BY <2>2, <3>6, SpareIsLeft
  <2>11. TotalTopN = Shortest(FinalMax, TotalSize)
    <3> DEFINE s == Spare[n]
               t == total[n]
    <3>1. /\ t \in Nat /\ t >= n /\ asked[n] = n + (room - s)
          /\ s = IF t - n >= room THEN 0 ELSE room - (t - n)
      BY <2>2, <2>9, <2>10
    <3> HIDE DEF s
    <3>2. asked[n] = IF FinalMax < t THEN FinalMax ELSE t
      <4> DEFINE b == asked[n]
      <4>1. b = n + (room - s)
        BY <3>1
      <4> HIDE DEF b, t
      <4>2. b = IF FinalMax < t THEN FinalMax ELSE t
        BY <2>2, <3>1, <4>1
      <4>3. QED
        BY <4>2 DEF b
    <3>3. QED
      BY <2>7, <2>8, <3>2 DEF Shortest
  <2>12. \A q \in 1 .. n : TopN(q) \in 1 .. Size(merged, q)
    <3>1. ASSUME NEW q \in 1 .. n PROVE TopN(q) \in 1 .. size[q]
      BY <2>3, <2>6 DEF Shortest
    <3>2. QED
      BY <2>3, <3>1
  <2>13. ASSUME NEW p \in 1 .. n, NEW q \in 1 .. n, p < q, TopN(q) > 1
         PROVE  TopN(p) = Size(merged, p)
    <3>1. p \in 0 .. n /\ q - 1 \in 0 .. n /\ p <= q - 1
      BY <2>2, <2>13
    <3>2. Spare[q - 1] # 0
      BY <2>3, <2>6, <2>13 DEF Shortest
    <3>3. Spare[q - 1] <= Spare[p]
      <4>1. \A i \in 1 .. n : size[i] \in Nat \ {0}
        BY <2>3
      <4>2. \A i \in 1 .. n : Spare[i] = Spare[i - 1] - Shortest(size[i] - 1, Spare[i - 1])
        BY <2>6
      <4>3. QED
        BY <2>2, <2>5, <3>1, <4>1, <4>2, SpareShrinks
    <3>4. /\ Spare[p] \in Nat /\ Spare[q - 1] \in Nat /\ Spare[p - 1] \in Nat
          /\ size[p] \in Nat \ {0}
          /\ Spare[p] = Spare[p - 1] - Shortest(size[p] - 1, Spare[p - 1])
          /\ TopN(p) = 1 + Shortest(size[p] - 1, Spare[p - 1])
      BY <2>3, <2>5, <2>6, <3>1
    <3>5. Spare[p] # 0
      BY <3>2, <3>3, <3>4
    <3>6. Shortest(size[p] - 1, Spare[p - 1]) = size[p] - 1
      BY <3>4, <3>5 DEF Shortest
    <3>7. TopN(p) = size[p]
      BY <3>4, <3>6
    <3>8. QED
      BY <2>3, <3>7
  <2>14. QED
    BY <2>2, <2>11, <2>12, <2>13
<1>2. QED
  BY <1>1, RerankedHolds, PTL
=============================================================================
