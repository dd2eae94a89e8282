---------------------------- MODULE RagPipeline ----------------------------
(***************************************************************************)
(* The retrieval-augmented analysis: the knowledge index that each process *)
(* builds at startup (knowledge/chroma_store.py), and one analysis in a    *)
(* process that serves: plan, search, rerank every dimension, report       *)
(* (services/rag_context.py, rag_analysis.py, retrieval_reranking.py).     *)
(*                                                                         *)
(* A chunk is its chunk_index plus one.  A query is its dimension, and its *)
(* query_id its position in the plan.  A similarity score is the rank it   *)
(* gives.  Token counts are input tokens, None when no call reported any;  *)
(* those of the embedding calls are dropped by the index.                  *)
(***************************************************************************)
EXTENDS Integers, FiniteSets, SequencesExt

CONSTANTS
  Processes,        \* processes that share the persisted collection
  Dimensions,       \* REPORT_DIMENSIONS
  ChunkDim,         \* dimension of each chunk of the corpus; may be another, too
  BatchSize,        \* embedding_max_batch_size
  CandidateK,       \* rerank_candidate_k
  FinalMax,         \* rerank_final_max_chunks
  MaxPlanAttempts,  \* MAX_PLAN_ATTEMPTS
  RerankRetries,    \* model_max_retries of the reranker
  Plans,            \* plans the model may answer, valid or not
  Limits,           \* max_total_chunks of direct searches
  Tokens            \* token counts a call may report, None among them

None == -1

ASSUME CorpusAssumption ==
  /\ ChunkDim \in Seq(Range(ChunkDim))
  /\ \A d \in Dimensions : \E c \in DOMAIN ChunkDim : ChunkDim[c] = d
ASSUME SizesAssumption ==
  /\ BatchSize \in Nat \ {0} /\ CandidateK \in Nat \ {0}
  /\ MaxPlanAttempts \in Nat \ {0} /\ RerankRetries \in Nat
  /\ FinalMax \in Nat /\ FinalMax >= Cardinality(Dimensions)
  /\ Tokens \subseteq Nat \cup {None} /\ Limits \subseteq Nat \ {0}
\* A chunk of another dimension than the report's stands for any other text.
ASSUME PlansAssumption == Plans \subseteq Seq(Range(ChunkDim))

VARIABLES
  store,     \* ids in the persisted collection
  build,     \* of each process: its state, and the next chunk to embed
  stage,     \* of the analysis
  failure,   \* why it failed
  attempts,  \* planner completions so far
  queries,   \* the plan
  matches,   \* ranked chunks of each query searched so far
  limit,     \* max_total_chunks of this retrieval
  merged,    \* chunks kept: [chunk, ids]
  reranked,  \* of each query: tries, and the items and tokens once it answered
  chosen,    \* chunks passed to the report
  usage,     \* input tokens: of the planner, then of the whole analysis
  billed     \* history: input tokens of all planner, reranker and report calls

index == <<store, build>>
found == <<queries, matches, limit, merged>>
vars == <<index, stage, failure, attempts, found, reranked, chosen, usage, billed>>
-----------------------------------------------------------------------------
Corpus == DOMAIN ChunkDim
Waiting == [tries |-> 0, items |-> <<>>, tokens |-> None]
Add(left, right) ==
  IF left = None THEN right ELSE IF right = None THEN left ELSE left + right
Shortest(a, b) == IF a < b THEN a ELSE b

Stages == {"idle", "plan", "retrieve", "rerank", "report",
           "search", "searched", "done", "failed"}
Failures == {"none", "timeout", "output", "provider", "value"}

TypeOK ==
  /\ store \subseteq Corpus
  /\ build \in [Processes -> [state : {"off", "building", "serving", "refused"}, next : Nat]]
  /\ stage \in Stages
  /\ failure \in Failures
  /\ failure # "none" <=> stage = "failed"
  /\ attempts \in 0 .. MaxPlanAttempts
  /\ queries \in Seq(Range(ChunkDim)) /\ matches \in Seq(Seq(Corpus))
  /\ Len(matches) <= Len(queries)
  /\ billed \in Nat \cup {None}
  /\ stage # "done" => usage \in Nat \cup {None}

\* An analysis that starts or ends without a result holds nothing.
Holds(plan, room) ==
  /\ queries' = plan /\ limit' = room
  /\ attempts' = 0 /\ matches' = <<>> /\ merged' = <<>>
  /\ reranked' = <<>> /\ chosen' = <<>> /\ usage' = None /\ billed' = None
EndWith(error) == stage' = "failed" /\ failure' = error /\ Holds(<<>>, 0)

Init ==
  /\ store = {}
  /\ build = [p \in Processes |-> [state |-> "off", next |-> 1]]
  /\ stage = "idle" /\ failure = "none" /\ attempts = 0
  /\ queries = <<>> /\ matches = <<>> /\ limit = 0 /\ merged = <<>>
  /\ reranked = <<>> /\ chosen = <<>> /\ usage = None /\ billed = None
-----------------------------------------------------------------------------
(* ChromaKnowledgeIndex.build: the ids are read once; a complete collection *)
(* is reused, a partial one refused, an empty one filled.                  *)

\* Mutant: a collection that is not empty is reused.
Reusable(stored) == stored # {}
Complete(stored) == stored = Corpus

StartBuild(p) ==
  /\ build[p].state = "off"
  /\ build' = [build EXCEPT ![p] =
       [state |-> IF Complete(store) THEN "serving"
                  ELSE IF store = {} THEN "building" ELSE "refused",
        next |-> 1]]
  /\ UNCHANGED <<store, stage, failure, attempts, found, reranked, chosen, usage, billed>>

UpsertBatch(p) ==
  LET end == build[p].next + BatchSize
  IN  /\ build[p].state = "building"
      /\ store' = store \cup (build[p].next .. (end - 1) \cap Corpus)
      /\ build' = [build EXCEPT ![p] =
           [state |-> IF end > Len(ChunkDim) THEN "serving" ELSE "building", next |-> end]]
      /\ UNCHANGED <<stage, failure, attempts, found, reranked, chosen, usage, billed>>

Serving(p) == build[p].state = "serving"
Idle == stage \in {"idle", "done", "failed", "searched"}

\* A process ends, by a failing embedding call or otherwise, and with it the
\* analysis, unless that runs in another process.
Stop(p) ==
  /\ build[p].state # "off"
  /\ build' = [build EXCEPT ![p] = [state |-> "off", next |-> 1]]
  /\ \/ stage' = "idle" /\ failure' = "none" /\ Holds(<<>>, 0)
     \/ /\ \E o \in Processes \ {p} : Serving(o)
        /\ UNCHANGED <<stage, failure, attempts, found, reranked, chosen, usage, billed>>
  /\ UNCHANGED store
-----------------------------------------------------------------------------
(* The planner: one retry when its answer is not a plan.                   *)

Start ==
  /\ Idle /\ \E p \in Processes : Serving(p)
  /\ stage' = "plan" /\ failure' = "none" /\ Holds(<<>>, 0)
  /\ UNCHANGED index

\* Exactly one query for every report dimension.
\* Mutant: dimensions that are asked twice pass.
CoversSome(plan) == Dimensions \subseteq Range(plan)
Covers(plan) == Range(plan) = Dimensions /\ Len(plan) = Cardinality(Dimensions)

\* Mutant: the tokens of the answer that was refused are forgotten.
LastTokens(tokens) == usage' = tokens
PlannerTokens(tokens) == usage' = Add(usage, tokens)

\* Every candidate of every query has room, whatever max_total_chunks the plan
\* asks for.
\* Mutant: the plan decides, and may ask for as little as one chunk.
PlanRoom(plan) == 1
Room(plan) == CandidateK * Len(plan)

Retries == attempts + 1 < MaxPlanAttempts

PlanReply(plan, tokens) ==
  /\ stage = "plan"
  /\ Covers(plan) \/ Retries
  /\ attempts' = attempts + 1
  /\ PlannerTokens(tokens)
  /\ billed' = Add(billed, tokens)
  /\ IF Covers(plan)
       THEN queries' = plan /\ limit' = Room(plan) /\ stage' = "retrieve"
       ELSE UNCHANGED <<queries, limit, stage>>
  /\ UNCHANGED <<index, failure, matches, merged, reranked, chosen>>

PlannerGivesUp(plan) ==
  /\ stage = "plan"
  /\ ~Covers(plan) /\ ~Retries
  /\ EndWith("output")
  /\ UNCHANGED index
-----------------------------------------------------------------------------
(* Search: ranked lists per query, merged round-robin.                     *)

\* What a vector search may return: the n best of the chunks stored for a
\* dimension, in any order of similarity.
Rankings(d, n) ==
  LET pool == {c \in store : ChunkDim[c] = d}
  IN  {s \in [1 .. Shortest(n, Cardinality(pool)) -> pool] :
         \A i, j \in DOMAIN s : s[i] = s[j] => i = j}

\* A chunk that another query found already gains the query; a new one is
\* kept while there is room.
Knows(kept, c) == \E i \in DOMAIN kept : kept[i].chunk = c
Gain(kept, q, c) ==
  [i \in DOMAIN kept |->
     IF kept[i].chunk = c THEN [kept[i] EXCEPT !.ids = @ \cup {q}] ELSE kept[i]]
Keep(kept, q, c, room) ==
  IF Len(kept) < room THEN Append(kept, [chunk |-> c, ids |-> {q}]) ELSE kept

\* Mutant: nothing is looked at any more when there is no more room.
PlaceUnlessFull(kept, q, c, room) ==
  IF Len(kept) < room /\ Knows(kept, c) THEN Gain(kept, q, c) ELSE Keep(kept, q, c, room)
Place(kept, q, c, room) ==
  IF Knows(kept, c) THEN Gain(kept, q, c) ELSE Keep(kept, q, c, room)

\* The n-th place of a round-robin over as many queries: its rank and query.
Rank(n, of) == 1 + ((n - 1) \div of)
Turn(n, of) == 1 + ((n - 1) % of)
Longest(ranked) ==
  CHOOSE n \in {Len(ranked[q]) : q \in DOMAIN ranked} :
    \A q \in DOMAIN ranked : Len(ranked[q]) <= n

Merge(ranked, room) ==
  LET of == Len(ranked)
      Visit(kept, n) ==
        LET list == ranked[Turn(n, of)]
        IN  IF Rank(n, of) > Len(list) THEN kept
            ELSE Place(kept, Turn(n, of), list[Rank(n, of)], room)
  IN  FoldLeft(Visit, <<>>, [n \in 1 .. of * Longest(ranked) |-> n])

\* Any plan may be searched through the index itself, with its own limit.
Search(plan, room) ==
  /\ Idle /\ \E p \in Processes : Serving(p)
  /\ plan # <<>>
  /\ stage' = "search" /\ failure' = "none" /\ Holds(plan, room)
  /\ UNCHANGED index

Candidates(kept, q) ==
  FoldLeft(LAMBDA list, m : IF q \in m.ids THEN Append(list, m) ELSE list, <<>>, kept)

FindMatches(list) ==
  /\ stage \in {"retrieve", "search"} /\ Len(matches) + 1 < Len(queries)
  /\ list \in Rankings(queries[Len(matches) + 1], CandidateK)
  /\ matches' = Append(matches, list)
  /\ UNCHANGED <<index, stage, failure, attempts, queries, limit, merged>>
  /\ UNCHANGED <<reranked, chosen, usage, billed>>

\* The last query: the matches are merged and, in an analysis, the candidates
\* of every query told apart before the next await.  None may be empty.
FindLastMatches(list) ==
  LET ranked == Append(matches, list)
      kept == Merge(ranked, limit)
      after == IF stage = "search" THEN "searched" ELSE "rerank"
  IN  /\ stage \in {"retrieve", "search"} /\ Len(ranked) = Len(queries)
      /\ list \in Rankings(queries[Len(ranked)], CandidateK)
      /\ IF after = "rerank" /\ \E q \in DOMAIN queries : Candidates(kept, q) = <<>>
           THEN EndWith("value")
           ELSE /\ matches' = ranked /\ merged' = kept
                /\ stage' = after
                /\ reranked' = [q \in DOMAIN queries |-> Waiting]
                /\ UNCHANGED <<failure, attempts, queries, limit, chosen, usage, billed>>
      /\ UNCHANGED index
-----------------------------------------------------------------------------
(* Reranking: one call per query, all at once.                             *)

\* What the earlier queries leave of the places beyond one per query.
Spare[q \in Nat] ==
  IF q = 0 THEN FinalMax - Len(queries)
  ELSE Spare[q - 1] - Shortest(Len(Candidates(merged, q)) - 1, Spare[q - 1])

\* Mutant: what a query takes is not taken from the later ones.
TopNUndiminished(q) == 1 + Shortest(Len(Candidates(merged, q)) - 1, Spare[0])
TopN(q) == 1 + Shortest(Len(Candidates(merged, q)) - 1, Spare[q - 1])

\* Indexes of candidates, none twice, at least one and at most top_n.
Valid(q, items) ==
  /\ items # <<>> /\ Len(items) <= TopN(q)
  /\ \A i, j \in DOMAIN items : items[i] = items[j] => i = j
  /\ Range(items) \subseteq DOMAIN Candidates(merged, q)

Answered(q) == reranked[q].items # <<>>
Selected(results) ==
  FoldLeft(LAMBDA chunks, q :
             chunks \o [i \in DOMAIN results[q].items |->
                          Candidates(merged, q)[results[q].items[i]].chunk],
           <<>>, [q \in DOMAIN queries |-> q])

\* The last answer completes the selection.
RerankReply(q, items, tokens) ==
  LET results == [reranked EXCEPT ![q].items = items, ![q].tokens = tokens]
  IN  /\ stage = "rerank" /\ ~Answered(q)
      /\ Valid(q, items)
      /\ reranked' = results
      /\ billed' = Add(billed, tokens)
      /\ IF \E p \in DOMAIN queries : results[p].items = <<>>
           THEN UNCHANGED <<stage, chosen>>
           ELSE chosen' = Selected(results) /\ stage' = "report"
      /\ UNCHANGED <<index, failure, attempts, found, usage>>

\* A transport error or a retryable status: tried again, then an error that
\* ends the whole selection.  An invalid answer ends it at once.
RerankRetry(q) ==
  /\ stage = "rerank" /\ ~Answered(q)
  /\ reranked[q].tries < RerankRetries
  /\ reranked' = [reranked EXCEPT ![q].tries = @ + 1]
  /\ UNCHANGED <<index, stage, failure, attempts, found, chosen, usage, billed>>

RerankFails(q) ==
  /\ stage = "rerank" /\ ~Answered(q)
  /\ \/ reranked[q].tries = RerankRetries /\ EndWith("provider")
     \/ EndWith("output")
  /\ UNCHANGED index
-----------------------------------------------------------------------------
(* The report, errors of the other calls, and the two timeouts.            *)

RerankerTokens ==
  FoldLeft(LAMBDA sum, q : Add(sum, reranked[q].tokens), None, [q \in DOMAIN queries |-> q])

Report(tokens) ==
  /\ stage = "report"
  /\ stage' = "done"
  /\ usage' = Add(Add(usage, RerankerTokens), tokens)
  /\ billed' = Add(billed, tokens)
  /\ UNCHANGED <<index, failure, attempts, found, reranked, chosen>>

\* Any other error of a planner, embedding or report call, its own retries
\* included.
CallFails ==
  /\ stage \in {"plan", "retrieve", "search", "report"}
  /\ EndWith("provider")
  /\ UNCHANGED index

\* rag_context_timeout_seconds around everything up to the selection,
\* model_timeout_seconds around the report.
\* Mutant: the retrieval has no timeout.
TimedReport == stage = "report"
Timed == stage \in {"plan", "retrieve", "rerank", "report"}
Timeout ==
  /\ Timed
  /\ EndWith("timeout")
  /\ UNCHANGED index

RerankStep ==
  \E q \in DOMAIN queries :
    \/ RerankRetry(q)
    \/ RerankFails(q)
    \/ \E items \in SeqOf(1 .. CandidateK, FinalMax), t \in Tokens : RerankReply(q, items, t)

Lists == SeqOf(Corpus, Shortest(CandidateK, Len(ChunkDim)))

Next ==
  \/ \E p \in Processes : StartBuild(p) \/ UpsertBatch(p) \/ Stop(p)
  \/ Start
  \/ \E plan \in Plans : PlannerGivesUp(plan) \/ \E t \in Tokens : PlanReply(plan, t)
  \/ \E plan \in Plans, room \in Limits : Search(plan, room)
  \/ \E list \in Lists : FindMatches(list) \/ FindLastMatches(list)
  \/ RerankStep
  \/ \E t \in Tokens : Report(t)
  \/ CallFails
  \/ Timeout

Spec == Init /\ [][Next]_vars

\* The event loop runs the timers of asyncio.wait_for.
FairSpec == Spec /\ WF_vars(Timeout)
-----------------------------------------------------------------------------
(* What the pipeline promises.                                             *)

\* A process that serves searches the whole corpus, whatever builds died or
\* run beside it (chroma_store.py:71-101).
ServesWholeCorpus == \A p \in Processes : Serving(p) => store = Corpus

\* Reference definition of the merge: the chunks that some query found, by
\* the place of their first mention in the round-robin, cut at the limit, and
\* each with all the queries that found it (search.py:188-224).
FirstPlace(c) ==
  LET of == Len(matches)
      places == {n \in 1 .. of * Longest(matches) :
                   /\ Rank(n, of) <= Len(matches[Turn(n, of)])
                   /\ matches[Turn(n, of)][Rank(n, of)] = c}
  IN  CHOOSE n \in places : \A m \in places : n <= m
MergeIsFair ==
  stage \in {"rerank", "searched"} =>
    LET mentioned == UNION {Range(matches[q]) : q \in DOMAIN matches}
        kept == {merged[i].chunk : i \in DOMAIN merged}
    IN  /\ Len(merged) = Shortest(limit, Cardinality(mentioned))
        /\ \A i, j \in DOMAIN merged :
             i < j => FirstPlace(merged[i].chunk) < FirstPlace(merged[j].chunk)
        /\ \A c \in kept, d \in mentioned \ kept : FirstPlace(c) < FirstPlace(d)
        /\ \A i \in DOMAIN merged :
             merged[i].ids = {q \in DOMAIN matches : merged[i].chunk \in Range(matches[q])}

\* The report is written from at least one chunk of every dimension, no chunk
\* twice and no more than the maximum, whatever the planner and the reranker
\* answer (retrieval_reranking.py:33-91; README.md:19).
EveryDimensionInContext ==
  stage \in {"report", "done"} =>
    /\ {ChunkDim[c] : c \in Range(chosen)} = Dimensions
    /\ Cardinality(Range(chosen)) = Len(chosen)
    /\ Len(chosen) <= FinalMax

\* The reranker is asked for as many chunks as there are, up to the maximum,
\* and earlier queries get the places beyond one per query first
\* (retrieval_reranking.py:140-153).
PlacesAreUsedUp ==
  stage = "rerank" =>
    LET size(q) == Len(Candidates(merged, q))
        total(count(_)) == FoldLeft(LAMBDA sum, q : sum + count(q), 0, [q \in DOMAIN queries |-> q])
    IN  /\ total(TopN) = Shortest(FinalMax, total(size))
        /\ \A q \in DOMAIN queries : TopN(q) \in 1 .. size(q)
        /\ \A p, q \in DOMAIN queries : p < q /\ TopN(q) > 1 => TopN(p) = size(p)

\* A plan that passed the coverage check finds candidates for every query:
\* only a provider or a timeout ends an analysis without a report
\* (retrieval_reranking.py:103-106, rag_context.py:120-126).
OnlyProvidersFail == failure # "value"

\* The usage in the response is that of every planner, reranker and report
\* call that was answered, the planner's refused answer included
\* (dashscope_planner.py:77-95, rag_analysis.py:90-102).
UsageAddsUp == stage = "done" => usage = billed

\* Every analysis ends, even if no provider ever answers
\* (rag_context.py:76-81, rag_analysis.py:63-73).
AnalysisEnds ==
  stage \in {"plan", "retrieve", "rerank", "report"} ~> Idle
=============================================================================
