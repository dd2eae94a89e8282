----------------------------- MODULE MCFeedback -----------------------------
(* A small instance of Feedback. *)
EXTENDS Feedback

CONSTANTS r1, r2, words
=============================================================================
