---------------------------- MODULE MC_Pipeline ----------------------------
(* Instances of Pipeline for TLC. *)
EXTENDS Pipeline, TLC

\* Tasks are ids and nothing orders them, so they may be permuted.
Symmetry == Permutations(Task)

\* The same reduction for liveness, where TLC's symmetry is unsound: the ids a run
\* draws from Task come in one fixed order.  Every behaviour is a renaming of one
\* of these.
IdOrder == CHOOSE s \in [1..Cardinality(Task) -> Task] : \A i, j \in DOMAIN s : s[i] = s[j] => i = j
IdsInOrder ==
  \A i, j \in DOMAIN IdOrder :
    (i < j /\ IdOrder[j] \in Existing') => IdOrder[i] \in Existing'

\* All rows are created in one second.  They tie, so that any may come first: a clock
\* that moves would only take some orders away.
InOneSecond == now' = now

\* An engineer, the PM, and a role the PM made up.
MCRole == {"backend", "pm", "wizard"}
MCRegistered == {"backend", "pm"}
=============================================================================
