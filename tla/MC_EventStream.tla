--------------------------- MODULE MC_EventStream ---------------------------
(* Instances of EventStream for TLC. *)
EXTENDS EventStream, TLC

\* Goroutines that append are alike, and so are clients.
Symmetry == Permutations(Writer) \cup Permutations(Stream)
=============================================================================
