------------------------------- MODULE Overview -------------------------------
(***************************************************************************)
(* The dashboard (DashboardPage.tsx) and the numbers it gets from          *)
(* SqlAdminService.overview: the totals of a window and a series of bars,  *)
(* each from SELECTs of its own while analyses start, end and are rated.   *)
(* A tick is an hour.  Token sums and the mean latency are left out: they  *)
(* are added up over the same rows as the counts.                          *)
(***************************************************************************)
EXTENDS Integers, FiniteSets, SequencesExt

CONSTANTS
  Runs,         \* analyses
  HoursPerDay,  \* hours of a UTC day
  RangeDays,    \* window lengths the page offers, in days
  MaxBars,      \* the longest series a response may hold
  MaxHour       \* bound: the last hour

VARIABLES
  hour,  \* utc_now()
  run,   \* analysis_runs, each with its rating
  view   \* the overview request of the page

vars == <<hour, run, view>>
-----------------------------------------------------------------------------
NoRun == [status |-> "none"]
Closed == [step |-> "closed"]
Started == {r \in Runs : run[r] # NoRun}

Init ==
  /\ hour = 0
  /\ run = [r \in Runs |-> NoRun]
  /\ view = Closed

\* What one SELECT counts over a set of runs.
Metrics(rows) ==
  [total |-> Cardinality(rows),
   succeeded |-> Cardinality({r \in rows : run[r].status = "succeeded"}),
   failed |-> Cardinality({r \in rows : run[r].status = "failed"}),
   up |-> Cardinality({r \in rows : run[r].vote = "up"}),
   down |-> Cardinality({r \in rows : run[r].vote = "down"})]

\* started_at >= window.started_at AND started_at < window.ended_at
InWindow(w) == {r \in Started : w.from <= run[r].started /\ run[r].started < w.to}

\* strftime and date_trunc: the hour or the day that an instant is in.
Label(instant, bucket) == instant \div bucket

\* One bar per step from the start of the window, not from the start of its day,
\* and each bar holds the rows that have its label.
BarCount(w, bucket) == (w.to - w.from + bucket - 1) \div bucket
Series(w, bucket) ==
  [i \in 1 .. BarCount(w, bucket) |->
     LET current == w.from + (i - 1) * bucket
     IN  Metrics({r \in InWindow(w) : Label(run[r].started, bucket) = Label(current, bucket)})]
-----------------------------------------------------------------------------
(* The page and its request.  Reading the two series rows is one step.     *)

\* validate_overview_window: the window ends now unless the page says otherwise.
Window(days) == [from |-> hour - days * HoursPerDay, to |-> hour]

\* load(): the totals and the votes.
ReadTotals(days, bucket) ==
  /\ view.step # "series"
  /\ view' = [step |-> "series", window |-> Window(days), bucket |-> bucket,
              totals |-> Metrics(InWindow(Window(days)))]
  /\ UNCHANGED <<hour, run>>

\* A response with a longer series than OverviewResponse allows is an error.
ReadSeries ==
  LET bars == Series(view.window, view.bucket)
  IN  /\ view.step = "series"
      /\ view' = IF Len(bars) > MaxBars THEN [step |-> "error"]
                 ELSE [step |-> "shown", totals |-> view.totals, bars |-> bars]
      /\ UNCHANGED <<hour, run>>
-----------------------------------------------------------------------------
(* Meanwhile.                                                              *)

Start(r) ==
  /\ run[r] = NoRun
  /\ run' = [run EXCEPT ![r] = [status |-> "running", started |-> hour, vote |-> "none"]]
  /\ UNCHANGED <<hour, view>>

Finish(r, status) ==
  /\ run[r].status = "running"
  /\ run' = [run EXCEPT ![r].status = status]
  /\ UNCHANGED <<hour, view>>

Rate(r, vote) ==
  /\ run[r].status = "succeeded"
  /\ run' = [run EXCEPT ![r].vote = vote]
  /\ UNCHANGED <<hour, view>>

Tick ==
  /\ hour < MaxHour
  /\ hour' = hour + 1
  /\ UNCHANGED <<run, view>>

Next ==
  \/ \E days \in RangeDays, bucket \in {1, HoursPerDay} : ReadTotals(days, bucket)
  \/ ReadSeries
  \/ \E r \in Runs :
       \/ Start(r)
       \/ \E status \in {"succeeded", "failed"} : Finish(r, status)
       \/ \E vote \in {"up", "down", "none"} : Rate(r, vote)
  \/ Tick

Spec == Init /\ [][Next]_vars
-----------------------------------------------------------------------------
\* Each bar stands for the analyses of one day (TrendChart.tsx:159), so the bars
\* of a window add up to its total: no analysis starts or leaves a window that
\* has ended, whatever happens between the SELECTs (admin_service.py:844-957).
BarsAddUp ==
  view.step = "shown" =>
    view.totals.total = FoldLeft(LAMBDA sum, bar : sum + bar.total, 0, view.bars)
=============================================================================
