------------------------- MODULE MCUsageAuthorizer -------------------------
(* Small instances of UsageAuthorizer. *)
EXTENDS UsageAuthorizer, TLC

CONSTANTS c1, k1, k2, s1, s2, a1, a2

Request(k, c, b) == [key |-> k, code |-> c, body |-> b]
CodePolicy(n, d) == [mode |-> "code_required", concurrent |-> n, daily |-> d]
OpenPolicy(n, d) == [mode |-> "open", concurrent |-> n, daily |-> d]

TwoKeysOneCode == {Request(k1, c1, 1), Request(k2, c1, 1)}

CodeOnly == CodePolicy(2, Unlimited)
CodeOnlySet == {CodeOnly}
NoDates == {Never}
AllDates == Expiries
CodeOne == CodePolicy(1, 1)
CodeOrOpen == {CodeOne, OpenPolicy(1, 1)}
Swaps == Permutations({s1, s2}) \cup Permutations({k1, k2})
=============================================================================
