------------------------------ MODULE MCReview -------------------------------
(* Instance of Review for TLC. *)
EXTENDS Review
=============================================================================
