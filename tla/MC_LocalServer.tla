--------------------------- MODULE MC_LocalServer ---------------------------
(* Instances of LocalServer for TLC. *)
EXTENDS LocalServer

\* Bound: the last run has no chats.  What a chat keeps of a run matters to a Start
\* that follows, and after the last there is none.
EarlierRunsChat == \A c \in Chat : held'[c] < MaxRuns
=============================================================================
