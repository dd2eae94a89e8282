------------------------ MODULE MCAnalysisLifecycle ------------------------
(* Small instances of AnalysisLifecycle. *)
EXTENDS AnalysisLifecycle, TLC

CONSTANTS c1, k1, k2, w1, w2, j, a1

AllSessions == Workers \cup {Janitor}
Request(k, c, b) == [key |-> k, code |-> c, body |-> b]
CodeOnly == [mode |-> "code_required", concurrent |-> 2, daily |-> Unlimited]
CodeOnlySet == {CodeOnly}
NoDates == {Never}

Conflict == {Request(k1, c1, 1), Request(k1, c1, 2)}
SharedCode == {Request(k1, c1, 1), Request(k2, c1, 1)}
WorkerSwaps == Permutations({w1, w2})
=============================================================================
