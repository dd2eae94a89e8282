------------------------- MODULE MCInFlightRegistry -------------------------
(* A small instance of InFlightRegistry. *)
EXTENDS InFlightRegistry

CONSTANTS c1, c2, c3, h1, h2, h3
=============================================================================
