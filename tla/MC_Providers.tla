---------------------------- MODULE MC_Providers ----------------------------
(* The instance of Providers for TLC: the calls of one goroutine, one after another. *)
EXTENDS Providers

CONSTANT goroutine
MCRoleOf == [c \in {goroutine} |-> "backend"]
=============================================================================
