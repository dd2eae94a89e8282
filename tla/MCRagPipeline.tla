--------------------------- MODULE MCRagPipeline ---------------------------
(* A small instance of RagPipeline. *)
EXTENDS RagPipeline

CONSTANTS p1, p2, light, color, general

\* The candidates of both dimensions together are more than the report may
\* hold; one chunk is of no report dimension.
MCChunkDim == <<light, general, color, light, color>>
\* Both orders of a valid plan, repeated and unexpected dimensions, no plan.
MCPlans == {<<light, color>>, <<color, light>>, <<light, general>>, <<light, color, light>>, <<>>}
MCTokens == {None, 1}
=============================================================================
