# AI Photography Coach: a formal model

TLA+ modules, TLC configurations and TLAPS proofs kept beside the code of the
AI Photography Coach: a FastAPI service that analyses a photo with a language
model (`src/src/photography_coach`), keeps access codes, reservations, runs and
feedback in a database, and is used from a public page and an admin console
(`src/frontend`). Paths below are relative to `src/src/photography_coach` unless
they start with `src/`.

## 1. Inventory

| Component | State | Operations | What makes it correct |
|---|---|---|---|
| Usage authorizer, `persistence/usage.py` | access codes (status, three counters, expiry), reservations by idempotency key, usage events, policy row | `reserve`, `commit`, `release` | no code overspent; balance equals ledger; limits; each reservation settled once |
| Code and policy administration, `persistence/admin_service.py` | the same rows, audit rows | `create_batch`, `grant_uses`, `revoke_code`, `update_code`, `update_policy`; problem report triage; statistics | no grant lost, revoked means revoked, while requests run |
| Analysis orchestration, `services/control_plane.py` | one attempt per request | `analyze`, `_execute`, replay, failure clean-up | charged only for a report; retried without a second charge or a second execution |
| Recorder, `persistence/recording.py` | analysis runs | `start`, `succeed`, `fail` | a run ends once |
| Retention, `services/retention.py` + loop in `main.py` | none of its own | clear, delete, close, release, reconcile | whatever a dead request left behind is settled |
| In-flight registry, `services/in_flight.py` | futures and recent answers, per process | register, wait, store, fail, remove | no analysis runs twice, nobody waits for ever |
| Source rate limiter, `services/rate_limiting.py` | buckets of timestamps per day and source | `allow` | at most `limit` per window |
| Feedback, `persistence/feedback.py`, `api/public_routes.py` | feedback token hash per run, ratings, problem reports | register token, upsert, delete, report | only the holder of the token rates; one rating per target |
| Admin authentication, `persistence/admin_auth.py` | admin users, sessions | log in, authenticate, revoke | an ended session is not accepted |
| RAG pipeline, `services/rag_*.py`, `services/retrieval_reranking.py`, `knowledge/search.py` | none, one computation per analysis | plan, retrieve, merge, rerank, report | every report dimension gets knowledge within the bounds |
| Knowledge preparation, `knowledge/*` | vector store | split, embed, synchronise | index follows the source |
| Providers, `providers/*` | none | one external call each, planner with one output retry | errors mapped, tokens added up |
| Public page, `src/frontend/src` | form, idempotency key, report, rating widget | submit, retry, rate | one key per operation; report, photo and rating shown are the ones stored |
| Admin pages, `src/frontend/src/admin` | the token of the tab, tables and forms | the admin routes | a token is kept while its session lives; bars and totals agree |
| Edge proxy, `src/frontend/functions` | none | forward | - |
| Evaluations, `evals/*` | none | batch over a dataset | - |

**How they interact.** A request goes through the source limiter and the
in-flight registry into `_execute`: reserve, look for a finished run to replay,
`recorder.start`, the model (RAG pipeline and providers), `recorder.succeed`,
`authorizer.commit`, `register_feedback_token`, answer. A failure goes through
`recorder.fail` and `authorizer.release`. Administrator requests and the
retention pass write the same rows from their own database sessions. Registry,
cache and limiter live in the process and are lost with it; the tables stay.

**What is hard here.** SQLite under pysqlite runs a SELECT outside the write
transaction, so every decision taken on a row that was read is a check followed
by a later act; `expire_on_commit=False` lets callers hold rows across commits;
requests can die between any two steps; retries of a key meet their own dead
attempts; the retention pass settles rows that live requests are settling.
`PROJECT.json` lists the hazards at their lines.

## 2. Modules

| Module | Models | Role |
|---|---|---|
| `UsageAuthorizer` | `persistence/usage.py` and the administrator operations on the same rows | core component |
| `CodeBalance` | an access code as an account: grant, hold, spend, give back | abstract specification of the core |
| `UsageAuthorizerProofs`, `UsageLimitsProofs` | - | theorems about the core: the account; revocation, limits and holds |
| `AnalysisLifecycle` | `control_plane.py`, `recording.py`, `retention.py`, crash; EXTENDS `UsageAuthorizer` | composition |
| `AnalysisLifecycleProofs` | - | theorems about the composition, which implements the core |
| `Purchase` | what an idempotency key promises, also when several share a code | abstract specification of the composition |
| `InFlightRegistry` | `services/in_flight.py`, its use in `analyze()`, and the feedback token | one process, from lookup to answer |
| `RagPipeline` | `knowledge/chroma_store.py`, `services/rag_context.py`, `rag_analysis.py`, `retrieval_reranking.py`, the planner and the reranker | one analysis over a shared index |
| `PublicPage` | `App.tsx`, `PhotoForm.tsx`, `api.ts` | the page over the promise of `analyze()` |
| `Feedback` | `RatingButtons.tsx`, `persistence/feedback.py`, `api/public_routes.py` | the rating widget over the rows it writes, with replays and retention |
| `RateLimiter` | `services/rate_limiting.py` | operators, used by `AdminConsole` |
| `AdminConsole` | `persistence/admin_auth.py`, `api/admin_routes.py`, `update_problem_report`, `scripts/create_admin.py`, `admin/api.ts`, `Layout.tsx` | login, sessions and triage; EXTENDS `RateLimiter` |
| `Overview` | `SqlAdminService.overview`, `_series`, `DashboardPage.tsx` | totals and bars of the dashboard |
| `InFlightRegistryProofs`, `RagPipelineProofs`, `PublicPageProofs`, `FeedbackProofs`, `AdminConsoleProofs` | - | theorems about these components |
| `MC...` | instances for TLC | - |

**Grain.** One action per stretch of code that no other session can interleave
with: a SELECT, or the first write up to COMMIT. `call[s]` and `draft[a]` are the
rows and decisions a session carries from one step to the next. For instance
`reserve()` is `ReserveCheck` (policy and code row read, `_require_code`),
`ReserveLookup`/`ReserveExisting` (advisory replay check), `ReserveInsert` (conditional
UPDATE, exhausted mark, INSERT, limits, event, COMMIT) or `ReserveReject`
(rollback). `SettleRow` is the part that `commit()` and `release()` share,
instantiated with what each does to the code row. `Feedback` and `AdminConsole`
have the same grain: token check, SELECT and flush are steps of their own, and a
rating or a problem report is written column by column, as SQLAlchemy does it. A login is
five steps: the limiter, the SELECT of the user, the verification with the clock, the session
and, in a transaction of its own, the audit row. Each of the last four may fail (`Fail`), and
what was committed before stays.

**Correspondence of state.** `codes` = `access_codes`; `res` = `usage_reservations`
by key (the unique constraint); `ledger` = `access_code_usage_events` summed per
code and type; `policy` = the `access_policy` row; `runs` = `analysis_runs`, indexed by the key
whose reservation gave them their id; `attempt` = the local state of
`analyze()`; `pass` = `run_cleanup()`. In `Feedback`, `run` and `token` are the
analysis run and its `feedback_token_hash`, `ratings` the table, `widget` the state
of `RatingButtons`. In `PublicPage`, `page` is the state of `App`, `run`, `token`
and `cached` what the service holds for a key. In `AdminConsole`, `sessions` is
`admin_sessions` in the order of creation, `bucket` the limiter, `stored` the token
in `sessionStorage`. A `req[r]` is a request of a page from `fetch` to its answer.

History variables, which no code reads: `settled`, `produced`, `answered`, `faults`
(`AnalysisLifecycle`), `billed` (`RagPipeline`), `overlapped` and the field `known`
of the widget (`Feedback`), `operation`, `used`, `lapses` (`PublicPage`), `replaced`,
`admitted` and the fields `began` of a request, `late` of a login and its session and `owes` of a
session, the audit rows it lacks (`AdminConsole`).

**Abstractions.**
- A request stands for its fingerprint. Time is a clock in ticks; lifetimes and
  ages are constants. A run keeps its status, start and whether its report is
  stored. `StartFails` and the failures of the model are one action, `ModelFails`.
- The registry of in-flight requests is, in `AnalysisLifecycle`, the set of
  attempts; its answer cache is left out there because any entry may be gone at any
  time. `InFlightRegistry` models both, with the analysis as one step that succeeds
  or fails; it gives every execution a number, which stands for its future, its
  answer and its token.
- `RagPipeline` numbers chunks and lets any ranking stand for the similarity
  scores; a query is its dimension.
- `PublicPage` takes from the service only what a page can tell apart: for one key
  the run, its token and the cached answer. `text` stands for intent and access
  code. Retention is left out: a page would have to stay open for a month to meet it.
- `Feedback` follows one section of one report, since rows of different targets
  never meet. Reason codes behave as the comment does and are left out; the limit
  per hour is a free choice.
- `AdminConsole` has one administrator, one tab and one source address. Passwords
  are numbered; hashing is equality.
- `Overview` has a tick per hour. The page's window always ends now. Token sums
  and latency are left out, and both series rows are read in one step.

**External code.** SQLite and SQLAlchemy are modelled through the code's use of
them: an UPDATE writes the columns that differ from the held row, a row count of
zero raises for an UPDATE and not for a DELETE, a rollback expires held rows (which is why one row that cannot be
settled ends the retention pass: `SettleFail`), foreign keys cascade.

## 3. Runs

| Run | Question | Bounds |
|---|---|---|
| `authorizer` | do balance, ledger and status agree, do the limits hold and is a revocation final, under two request sessions and one administrator who grants, revokes, updates and switches the access mode? | 2 keys, 1 expiring code, 2 uses, 2 policies, days of one tick, clock 0..1 |
| `retries` | is there one execution per key, and is nothing charged without a report, whatever is cleared, deleted and revoked under the attempts? | 2 conflicting requests with one key, 2 workers, 1 administrator who revokes, 1 fault, all ages 0 |
| `recovery` | who is charged, what is returned, who is answered, is each key a `Purchase` and every expired reservation settled, with a worker that may die at any step and a pass that may break off? | 2 keys on one code, 1 worker, 1 fault, fair retention loop |
| `registry` | is an analysis executed once at a time, is everybody who waits served, does a cached answer hold the live token? | 3 requests, 3 analyses, 3 executions, 2 cache entries, clock 0..2 |
| `rag` | does the report see every dimension, whatever planner, index and reranker do; are merge and allocation what their reference definitions say; does every analysis end? | 2 processes, 2 report dimensions, 5 chunks in batches of 2, 2 candidates per query, 3 chunks in the report, 5 plans |
| `feedback` | does an acknowledged rating replace the stored one, does the widget show it, is it counted once? | 2 requests, 3 row ids, 2 tokens, 2 texts |
| `page` | one key per operation, the report of the photo shown, a token that works, a final failure, an end to loading? | 2 photos, one of them corrupt, 2 texts, 2 requests, 2 keys, 3 tokens, 3 operations |
| `console` | who is let in, how long does an old password live, how often may a source try, is the audit log complete? | 2 requests, 1 attempt per window of 2 ticks, days of 2 ticks, sessions of 1 tick, clock 0..2, 2 passwords, 2 sessions, one form that changes both columns |
| `trend` | code against `TrendChart.tsx:159` and `docs/CONTROL_PLANE_API.md:264` | 2 analyses, days of 3 hours, ranges of 1 and 2 days |
| `last_use_retry` | code against `docs/CONTROL_PLANE_API.md:145-147` | 1 code with 1 use |
| `lost_grant` | code against `docs/ADMIN_AGENT_HANDOFF.md:137` and `docs/CONTROL_PLANE_API.md:144` | 1 code, 2 administrators |
| `double_settle` | code against `docs/ADMIN_AGENT_HANDOFF.md:216` | 2 keys on one code |

The last four are expected to fail: each shows a documented promise that the
code does not keep, and PROJECT.json quotes it under `findings`.

The type invariants are not properties of these runs: they are theorems (section
4), as are `NoOverspend` (which `BalanceSpec` also contains), `CacheBounded`,
`NeverConflicts`, `DeleteNeverFails`, `TotalsWithinGrants` and `PaidUntilExpiry`. The runs spend their time on what is
easier to get wrong.

**Bounds.** Every bound is a constant: `MaxGranted`, `MaxTime`, `MaxFaults`,
`MaxToken`, `MaxKeys` and so on, and the sets. Two sessions suffice for every
check-then-act pair; two keys on one code are the least that lets one settlement
spend the hold of another; a lifetime of one tick lets reservations expire, be
released and re-dated within the run; one fault may fall anywhere and is followed
by a full pass. In `registry` the third analysis overflows the cache of two and the third request
waits beside another waiter; in `rag` the candidates are more than the report may hold,
direct searches are cut by their limit, and plans repeat a dimension or ask for another.
In `feedback` and `page` the second request is the one that meets a first that was
given up; a third row id lets two of them insert; two tokens make one of them dead.
In `console` a day as long as the window has a midnight inside a window, and a
session of one tick expires, is swept and is logged out within the run. In `trend`
the window of two days is the least with a full day in it.
`CHECK_DEADLOCK FALSE` wherever the clock is bounded or visitors may stop.

**Symmetry** is used over keys, sessions, workers or requests in runs without
liveness only.

**Fairness.** `FairAnalysisSpec` assumes that the retention loop goes on
(`main.py:109-132` starts the next pass whatever happened to the last) and that time
passes. Nothing is assumed of requests: they may die at any step. At most
`MaxFaults` passes break off; a pass that breaks for ever settles nothing.
`FairSpec` of `RagPipeline` assumes only that the timers of `asyncio.wait_for` fire
(`rag_context.py:76`, `rag_analysis.py:63`): `AnalysisEnds` holds with providers that never
answer. That justifies `FairSpec` of `InFlightRegistry`, in which owners end and the event
loop wakes who can go on; the waiters' own timers are not assumed.
`FairSpec` of `Feedback` and of `PublicPage` assumes that the event loop serves each
request it has and that the browser settles each `fetch`, with an answer or an error.

**What holds only under a condition.**
- `NoOverspend`, `ActiveHasUsesLeft` and `BalanceSpec` need a single administrator session: the
  documentation describes one owner account (`docs/CONTROL_PLANE_API.md:253`). The code does not
  enforce it. With two, a grant can be lost (`lost_grant`), a total written over by an older one
  can promise more uses than there are, and a stale status can be written over a newer one.
- `EventuallySettled` excepts a code of which one reservation was settled twice (`double_settle`).
  Its balance is one short, and the row that is left can neither be confirmed nor released: it ends
  every later pass, since the rollback expires the listed rows (`services/retention.py:199-216`), and
  whatever the pass has still to do waits too. `docs/CONTROL_PLANE_API.md:142` promises that the
  background task releases what a crash left. A row that ends one pass only does not matter: the
  run has two keys on one code and meets it.
- `DailyBudgetHeld` leaves out reservations confirmed after their expiry, which can pass the limit
  (`persistence/usage.py:465`; `docs/CONTROL_PLANE_ACCEPTANCE.md:20` makes no exception).
- `EarlyReturnMeansFailure` is not checked in `retries` and is proved under `PromptAttempts`: with
  ages scaled to zero a run can be deleted under an attempt seconds old, which 180 days exclude.
  `PaidUntilExpiry`, that a visitor with a report has paid or his reservation has expired, is proved
  under the same premise and checked by no run.
- `OldPasswordDiesOut` excepts a login that read the user before the replacement and took its time
  after it (`persistence/admin_auth.py:87-100`; the field `late`): argon2 lies between the two, and
  the script is another process.
- `AuditComplete` cannot say that every session has its row: a crash or a failed transaction
  between the two commits leaves one without (`api/admin_routes.py:117-120`). It says that such a
  login or logout was not acknowledged and that nobody has the token of a session
  whose login has no row.
- `RagPipeline` assumes that the corpus has a chunk of every report dimension, as the shipped
  one has; the schema does not require it (`knowledge/schemas.py:100`), and without it
  `OnlyProvidersFail` would not hold. Usage leaves out embedding calls, whose token counts
  the index drops.
- `PutReplaces` and `WidgetShowsRating` hold until a request is sent while one the
  widget had given up is still open (`overlapped`): the two are then merged column by
  column, and the widget shows the one that was answered.
- `ShownTokenWorks` excepts a key with a given up request and a cached answer that was
  lost: the late request then registers a token nobody receives.
- `LimiterHolds` allows twice the limit in a window with a midnight in it, where
  `docs/CONTROL_PLANE_ACCEPTANCE.md:110` says 5 per minute, and counts per process. `DayAssumption` has no
  window longer than a day: `main.py:80-83` has an hour and a minute.
- `SizesAssumption` has the limits of a search above zero (`search.py:251-252`, `retrieval.py:99`) and a
  place in the report for each dimension.

**Observed, and not a property.** The models also have these steps. The first and the third disagree with a
doc or a comment, as quoted; no property here calls them correct.
- An expired reservation of a stored report is released by the first half of a pass
  before the second half would confirm it (`services/retention.py:87`), so the report is
  free, although `docs/CONTROL_PLANE_ACCEPTANCE.md:15-17` and the comment at
  `services/control_plane.py:219-221` keep it reserved until a retry or the reconciliation confirms it.
- A grant that overlaps the claim of the last use leaves a code `exhausted` that has
  uses: the console shows it as active (`admin_service.py:1246`) and `_require_code`
  refuses it until the next release or grant.
- A late 401 of a request with an old token drops a newer one (`admin/api.ts:58`); a
  logout whose request is lost leaves the session live on the server, where
  `Layout.tsx:23` says it is gone either way; the audit row of a login and of a logout has a
  transaction of its own, where `admin_service.py:3` promises the same one; overlapping
  saves of a problem report merge their columns.
- A failed key replays its failure until an input changes (`CONTROL_PLANE_API.md:148`
  says so), while the texts of `api.ts` say to try again later. The header over a report
  shows the intent as it is edited now (`App.tsx:147`).
- A response with more than 366 bars, which a range of more than 15 days by the hour
  has, fails its own validation; `DashboardPage.load` is not cancelled when the range
  changes (`DashboardPage.tsx:35`); `InviteCodesPage.handleCreate` uses
  `event.currentTarget` after an await.

## 4. Proofs

Every theorem holds for all values of the constants that satisfy the named
assumptions; a further premise is named here.

`UsageAuthorizerProofs`:

| Theorem | States | Premise |
|---|---|---|
| `TypeCorrect` | `Spec => []TypeOK` | - |
| `LedgerCorrect` | `Spec => []LedgerRebuildsBalances` | - |
| `NeverOverspent` | `Spec => []NoOverspend` | at most one administrator session |
| `ActiveIsUsable` | `Spec => []ActiveHasUsesLeft` | " |
| `ImplementsBalance` | `Spec => BalanceSpec` | " |
| `NoUseFromNowhere` | `Spec => []TotalsWithinGrants` | - |

`TypeOK` alone is not inductive: that `reserved` stays in `Nat` needs the guard of
`SettleRow`, and a row carried in a draft must exist, so `TypeInv` adds
`RowsExist`. `LedgerInv` adds nothing but the typing. `NeverOverspent`, `ActiveIsUsable` and
`ImplementsBalance` rest on `AccountInv`: `NoOverspend`, `GrantsAddUp` and `ActiveHasUsesLeft`
together with `AbsentIsEmpty` and, for each draft, `DraftFresh`: the
total a draft holds is still the total in the table (there is no second
administrator to change it), and a status it would write is consistent with
the counters. The lemma `CodeSteps` says what any step does to a code row, and
the invariance and refinement proofs share it. `ImplementsBalance` maps each
step to one move of one code or to a stutter. `NoUseFromNowhere` is what remains of the account with any number of
administrators: grants that overlap overwrite each other, but none counts twice. `GrantedInv` says of each
draft that the total it holds was granted by then, and a write adds no more than its own event.

`UsageLimitsProofs`, for any number of administrators: `RevocationFinal` (`RevocationIsFinal`),
`InFlightWithinLimit` (`LiveWithinLimit`), `NothingStranded` (`NoStrandedUses`), `BudgetHeld`
(`DailyBudgetHeld`). A
settlement may write another status over `revoked`, so `RevocationInv` follows the
mark `revoked_at` instead, which nothing clears. `LiveInv` adds that no claim carries a
time later than the clock: what its transaction counts as live is then at least what is
live when it commits. `HoldInv` counts: a step that adds a hold adds an open
reservation, and one that closes a reservation takes a hold, or finds that another
settlement did. `DailyInv` looks at the reservations confirmed in time today and those that are live
as one set. A confirmation moves a member from one half to the other, and only a claim adds one, after
its transaction has counted both halves. The clock and a new day only take members away.

`AnalysisLifecycleProofs`, for any number of workers, codes and administrators and any ages:

| Theorem | States |
|---|---|
| `ImplementsAuthorizer` | `AnalysisSpec => AuthorizerSpec` |
| `AnalysisTypeCorrect` | `AnalysisSpec => []AnalysisTypeOK` |
| `OneExecutionForKey` | `AnalysisSpec => []OneExecutionPerKey` |
| `ChargesHaveReports` | `AnalysisSpec => []ChargedForReport` |
| `ReturnsAreFailures` | `AnalysisSpec /\ []PromptAttempts => []EarlyReturnMeansFailure` |
| `AnswersArePaid` | `AnalysisSpec /\ []PromptAttempts => []PaidUntilExpiry` |
| `NoOpenAnswer` | `AnalysisSpec => []AnswersAreSettled` |
| `ImplementsPurchase` | `AnalysisSpec => PurchaseSpec` |
| `TwiceSettledIsShared` | `AnalysisSpec => []SettledTwiceIsShared` |

`ImplementsAuthorizer` carries every theorem about the authorizer over to the composition: each
step of a worker, of the pass and of an administrator is a step of `UsageAuthorizer` or leaves
its variables alone, by construction of the module.
`ExecutionInv` adds that a worker with a call of the authorizer has
it for its own request, that the executing attempts have different requests of
different keys and that an attempt which executes holds the reservation it will settle.
`ChargeInv` says where a report is known to exist: in succeeded runs, in calls that
will confirm, in attempts between `succeed` and the confirmation. That includes charges under an
administrator, which no run checks.

`ReturnInv` relates the three actors that may touch one key, the owner of an execution, other attempts
and the pass. `Careful` says what an attempt relies on at each step: only the owner cleans up, for a run
that did not succeed and a report nobody holds. `AgesInv` says why the pass does not meet it: a
reservation expires before its run is old enough to be deleted, so the pass releases only what has
expired. That needs `PromptAttempts`, that no attempt is open for as long as metrics are kept less the
lifetime of a reservation. The code sees to it with the timeouts of the model calls: minutes
(`rag_context.py:76-81`, `rag_analysis.py:63-73`) against 180 days. In `recovery` the ages are long enough for
the premise to hold in every state (`PromptWithinRetention`). Where they are so short that it fails, TLC finds both
properties violated: the pass then deletes the run of an open attempt, and a retry starts another on the
same reservation.

`NoOpenAnswer` needs no premise: an attempt that goes to answer has settled its row or found it settled, and
a settled row stays settled.

`ImplementsPurchase` rests on `PurchaseInv`: `ExecutionInv`, `ChargeInv`, `HoldInv` and `LedgerInv`. They say that a code
never holds more uses than keys wait on it, so a settlement decided on a stale row is refused by the balance
unless another key waits on the same code (`SettlesWaiting`): it then takes that key's hold, as `double_settle`
shows, and `Purchase` says so. `TwiceSettledIsShared` draws the conclusion for one reservation: whoever is alone
on a code is settled once.

`InFlightRegistryProofs`, for any number of requests, analyses and executions, any
time to live, and a cache of at least two entries: `RegistryTypeCorrect`, `OneExecution`
(`OneExecutionPerHash`), `NobodyWaitsInVain` (`WaitsForSomeone`), `CachedTokenValid`
(`CachedTokenWorks`), `CacheNeverOverflows` (`CacheBounded`).
The first two properties follow from `RegistryInv`: executions are numbered in the order they start
(`Numbered`), an owner's future is pending and registered and its hash not cached
(`OwnerRegistered`), and what is registered has an owner (`RegisteredIsOwned`). The lemma `OwnerLeaves`
serves an answer and an error alike. `CachedTokenWorks` adds that the token of an
execution about to answer is its own (`TokenInv`): nothing else can change it meanwhile, because
two executions of a hash would be two owners. `CacheBounded` is inductive by itself
given that pruning a full cache drops at least one entry, for which `MaxEntries >= 2` is needed.

`RagPipelineProofs`, for any number of processes, chunks, dimensions, plans and retries, and any bounds:

| Theorem | States |
|---|---|
| `WholeCorpusServed` | `Spec => []ServesWholeCorpus` |
| `PipelineTypeCorrect` | `Spec => []TypeOK` |
| `NoValueErrors` | `Spec => []OnlyProvidersFail` |
| `MergedFairly` | `Spec => []MergeIsFair` |
| `ContextIsComplete` | `Spec => []EveryDimensionInContext` |
| `UsageIsWhatWasBilled` | `Spec => []UsageAddsUp` |
| `NoPlaceIsWasted` | `Spec => []PlacesAreUsedUp` |

`IndexInv` adds that a build has upserted every chunk before its next one, which the batches of
other builds cannot undo. `AnalysisInv` adds to the types that a planner still asked has an attempt left.

The loops of the code are folds and a recursive function here. The library's induction theorems take
an operator and cannot be instantiated, but least elements can: `LeastNatural` follows from
`NatLessThanWellFounded` and `WFMin`, and from it `AllNaturals` and `UpTo`, induction over a *set* of
numbers. `FoldExists` and `RecursionExists` build the function that a fold or a recursive definition
chooses, and one lemma per loop (`CandidateFold`, `MergeFold`, `SelectedFold`, `TopNFold`, `SpareExists`)
then says what the loop does in each round; what it computes is an invariant of its rounds.

- The merge: `FairUpTo` says what is kept after m places of the round-robin, each chunk once with
  all who found it so far, in the order of first mention, and whatever is missing was mentioned last.
- Errors: `RetrievalInv` adds that the room of a merge suffices for every chunk that was found, so that
  each query keeps a candidate and no empty list reaches the reranker.
- The report: `RerankedInv` says of every answer that it picks candidates of its own query, none
  twice and within its places. Chunks of different queries differ, since they are of different dimensions.
- Usage: `UsageInv` says that what was billed is what planner and answers so far have reported; an
  answer out of turn changes every later partial sum alike (`SumsAdd`).
- Places: after q queries what is spare is what the candidates beyond one per query so far left of it
  (`SpareIsLeft`), so what is asked for telescopes.

`PublicPageProofs`, for any number of photos, texts, requests, keys and operations:
`PageTypeCorrect`, `OneKey` (`OneKeyPerOperation`), `NoConflict` (`NeverConflicts`),
`ReportShownWithPhoto` (`ReportIsOfThePhoto`), `FailedStaysFailed` (`FailureIsFinal`), `TokenShownWorks`
(`ShownTokenWorks`).
`ExecInv` says that a run which is executed is running and has one request executing
it, `TokenInv` that a report goes out with a token; both belong to the types.
`KeyInv` says that the key the page holds is one of the current operation and that no
other key is, `ContentInv` that there is one content per key on which requests, runs
and the page agree. `ShownInv` follows a token from the service over the request the page waits for to the
report it shows: what replaces it is a request somebody gave up, which finds no cached answer.

`FeedbackProofs`, for any number of requests and texts and more row ids than
requests: `FeedbackTypeCorrect`, `CountsOnce` (`CountedOnce`), `DeletesSucceed`
(`DeleteNeverFails`), `PutsReplace` (`PutReplaces`), `WidgetIsRight` (`WidgetShowsRating`).
`Types` adds that a put has a content. That an INSERT finds a row id is a pigeonhole over the open requests.
`RatingInv` is the row: at most one, and none of a deleted run.
`MeetInv` says that without an overlap at most one request is open, so that what it
read is what it finds; `ShownInv` relates widget, the request it waits for and row.

`AdminConsoleProofs`, for any number of requests, passwords, sessions and ticks:
`ConsoleTypeCorrect`, `SessionsAreLeftAlone` (`LiveSessionsStay`), `OldSessionsExpire`
(`OldPasswordDiesOut`), `AcceptedHadSession` (`AcceptedWasLive`), `NothingUnaudited`
(`AuditComplete`), `LimiterIsKept` (`LimiterHolds`). `ConsoleInv` adds to the types that a request which stands for a
session names one that exists. `DyingInv` adds that a verified login has read a time no later
than now and, if its password was replaced since, no later than the replacement or is marked `late`. `AuditInv` says who may hold the token of a session
that lacks a row, and that a session which a logout ended is revoked, so that no second logout owes a row again.
`LiveInv` says of each place of a request what it knows: while it waits, a session
live now was live when it was sent, because sessions only end. `LimiterInv` says that the last calls
of the bucket are the attempts of this day and window (`Remembers`), so that the bucket's length bounds
the attempts of one day; `OverMidnight` adds two days up, for which a window is no longer than a day.

**Only model-checked.** Liveness under fairness, which is out of the prover's reach: `EventuallySettled`,
`WaiterIsServed`, `AnalysisEnds`, `WidgetSettles`, `LoadingEnds`. Every other property of a run that
passes is a theorem, for all values of the constants or under the premise named with it.

## 5. Plan

Done: the core with its account and its limits; the lifecycle with its refinements;
registry, pipeline, page, feedback, console and overview, each checked; the
theorems of section 4.

Left:
1. The core under PostgreSQL, where the count of live reservations and the insert of a new one are not
   serialised (`persistence/usage.py:441`).
2. The safety half of the liveness properties, as theorems: that each step of a pass, of an owner and
   of a request brings it nearer to its end.

## 6. Not modelled

- PostgreSQL isolation: counts and inserts of concurrent claims are then not
  serialised. The models follow SQLite, the configured default.
- Migrations; the schema is taken from `persistence/models.py`.
- HTTP parsing, schema validation and the checks of an image: sequential and pure.
- Listings, exports and rating moderation: one SELECT, or one write in one transaction.
- The creation of problem reports (one INSERT), and the steps of retention that clear
  their text and delete audit rows.
- Logging, prompts, the splitting of documents, embedding vectors, mock providers.
- Evaluations (an offline batch) and the edge proxy (a stateless forwarder).
