----------------------------- MODULE RateLimiter -----------------------------
(***************************************************************************)
(* SourceRateLimiter (services/rate_limiting.py): the calls of one source  *)
(* in one process.  A bucket belongs to a UTC day, since the key it is     *)
(* stored under has the day in it and buckets of other days are dropped.   *)
(* perf_counter() and the date are taken from one clock.                   *)
(***************************************************************************)
EXTENDS Integers, Sequences, FiniteSetsExt

CONSTANTS
  Window,     \* window_seconds, in ticks
  DayLength   \* ticks of a UTC day

ASSUME WindowAssumption == Window \in Nat \ {0}
\* main.py:80-83 has windows of an hour and of a minute.
ASSUME DayAssumption == DayLength \in Nat \ {0} /\ Window <= DayLength

Day(t) == t \div DayLength
EmptyBucket == [day |-> 0, calls |-> <<>>]

\* The calls that count: of this day, and from the first on that is younger
\* than the window.
Recent(bucket, now) ==
  LET n == Len(bucket.calls)
      young == {i \in 1 .. n : bucket.calls[i] > now - Window} \cup {n + 1}
  IN IF bucket.day = Day(now) THEN SubSeq(bucket.calls, Min(young), n) ELSE <<>>

Allows(bucket, limit, now) == limit > 0 /\ Len(Recent(bucket, now)) < limit

\* allow(): what the bucket is after the call.
AfterCall(bucket, limit, now) ==
  IF limit <= 0 THEN bucket
  ELSE [day   |-> Day(now),
        calls |-> IF Allows(bucket, limit, now) THEN Append(Recent(bucket, now), now)
                  ELSE Recent(bucket, now)]
=============================================================================
