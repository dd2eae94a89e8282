--------------------------- MODULE MCAdminConsole ---------------------------
(* A small instance of AdminConsole. *)
EXTENDS AdminConsole, TLC

CONSTANTS r1, r2

\* Both columns of a new report change.
OneForm == {[status |-> "resolved", priority |-> "high"]}

RequestSwaps == Permutations({r1, r2})
=============================================================================
