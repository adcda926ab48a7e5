----------------------------- MODULE MC_Release -----------------------------
(* An instance of Release for TLC; tasks are interchangeable. *)
EXTENDS Release, TLC

Alike == Permutations(Task)

\* One chat saves a task that is done, or undoes it.  Its save, and the clock, concern only
\* the end of a task, the list and the stamp, so that they need not come between the others.
OneChat ==
  /\ doneAt' # doneAt /\ UNCHANGED step => resaved = {}
  /\ UNCHANGED step => step \in {"work", "list", "stamp"}
=============================================================================
