---------------------------- MODULE MC_Attempts ----------------------------
(* Instances of Attempts for TLC. *)
EXTENDS Attempts, TLC

MCReviews == {"code", "security", "pm"}
=============================================================================
