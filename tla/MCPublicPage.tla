---------------------------- MODULE MCPublicPage ----------------------------
(* A small instance of PublicPage. *)
EXTENDS PublicPage

CONSTANTS p1, p2, t1, r1, r2
=============================================================================
