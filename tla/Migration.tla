----------------------------- MODULE Migration -----------------------------
(***************************************************************************)
(* internal/state/db.go: Open and migrate, run by every local command over *)
(* the same state.db (cmd/root.go, server.NewLocal), the running server    *)
(* and a `buycott status` beside it included.                              *)
(*                                                                         *)
(* Every statement is a transaction of its own and can fail alone: another *)
(* process has the file locked, the disk is full.  A process can be killed *)
(* between any two.  user_version is read once, at the beginning.          *)
(***************************************************************************)
EXTENDS Naturals

CONSTANT Process  \* commands that open the file, one after another or at once

VARIABLES
  tables,       \* tables of the file
  columns,      \* columns that v2 adds to tasks
  userVersion,  \* PRAGMA user_version
  at,           \* where each process is in Open
  version,      \* the version its migrate works with
  next,         \* its next statement of the list it executes
  cause         \* what has happened in the life of the file that can break it

fileVars == <<tables, columns, userVersion>>
procVars == <<at, version, next>>
vars     == <<fileVars, procVars, cause>>

\* In the order of their statements.  (The indices of llm_logs follow; nothing needs them.)
Table  == <<"tasks", "events", "pipeline_state", "releases", "llm_logs">>
Column == <<"depends_on", "files_written", "subtask_id">>

Tables  == {Table[i] : i \in 1..5}
Columns == {Column[i] : i \in 1..3}

Migrating == {"creating", "stamping", "altering", "announcing"}
At        == {"off", "reading", "open", "failed", "refused"} \cup Migrating
Cause     == {"stopped", "raced", "misread"}

TypeOK ==
  /\ tables \subseteq Tables /\ columns \subseteq Columns /\ userVersion \in 0..2
  /\ at \in [Process -> At] /\ version \in [Process -> 0..2] /\ next \in [Process -> 1..5]
  /\ cause \subseteq Cause

Init ==
  /\ tables = {} /\ columns = {} /\ userVersion = 0
  /\ at = [p \in Process |-> "off"] /\ version = [p \in Process |-> 0]
  /\ next = [p \in Process |-> 1]
  /\ cause = {}

-----------------------------------------------------------------------------
(* Open *)

\* sql.Open connects to nothing yet.
BeginOpen(p) ==
  /\ at[p] = "off"
  /\ at' = [at EXCEPT ![p] = "reading"]
  /\ UNCHANGED <<fileVars, version, next, cause>>

Alone(p) == \A q \in Process \ {p} : at[q] \notin {"reading"} \cup Migrating

\* migrate begins with this version.
Begin(p, v) ==
  /\ at' = [at EXCEPT ![p] = IF v < 1 THEN "creating" ELSE IF v < 2 THEN "altering" ELSE "open"]
  /\ version' = [version EXCEPT ![p] = v]
  /\ next' = [next EXCEPT ![p] = 1]
  /\ UNCHANGED fileVars

ReadVersion(p) ==
  /\ at[p] = "reading"
  /\ Begin(p, userVersion)
  /\ cause' = cause \cup (IF Alone(p) THEN {} ELSE {"raced"})

\* The error of the read is dropped: version stays 0.
ReadFails(p) ==
  /\ at[p] = "reading"
  /\ Begin(p, 0)
  /\ cause' = cause \cup {"misread"}

\* Schema v1: CREATE TABLE IF NOT EXISTS, one after another.
CreateTable(p) ==
  /\ at[p] = "creating"
  /\ tables' = tables \cup {Table[next[p]]}
  /\ IF next[p] < 5
     THEN next' = [next EXCEPT ![p] = @ + 1] /\ UNCHANGED at
     ELSE at' = [at EXCEPT ![p] = "stamping"] /\ UNCHANGED next
  /\ UNCHANGED <<columns, userVersion, version, cause>>

\* Mutant of Stamp: the version that all of migrate leads to, at once.
StampNewest(p) ==
  /\ at[p] = "stamping"
  /\ userVersion' = 2
  /\ version' = [version EXCEPT ![p] = 1]
  /\ at' = [at EXCEPT ![p] = "altering"] /\ next' = [next EXCEPT ![p] = 1]
  /\ UNCHANGED <<tables, columns, cause>>

Stamp(p) ==
  /\ at[p] = "stamping"
  /\ userVersion' = 1
  /\ version' = [version EXCEPT ![p] = 1]
  /\ at' = [at EXCEPT ![p] = "altering"] /\ next' = [next EXCEPT ![p] = 1]
  /\ UNCHANGED <<tables, columns, cause>>

\* Schema v2: ALTER TABLE tasks ADD COLUMN has no IF NOT EXISTS.
AddColumn(p) ==
  /\ at[p] = "altering"
  /\ "tasks" \in tables /\ Column[next[p]] \notin columns
  /\ columns' = columns \cup {Column[next[p]]}
  /\ IF next[p] < 3
     THEN next' = [next EXCEPT ![p] = @ + 1] /\ UNCHANGED at
     ELSE at' = [at EXCEPT ![p] = "announcing"] /\ UNCHANGED next
  /\ UNCHANGED <<tables, userVersion, version, cause>>

AlterRefused(p) ==
  /\ at[p] = "altering"
  /\ "tasks" \notin tables \/ Column[next[p]] \in columns
  /\ at' = [at EXCEPT ![p] = "refused"]
  /\ UNCHANGED <<fileVars, version, next, cause>>

\* Mutant of Announce: the schema is new and the version is not.
AnnounceNothing(p) ==
  /\ at[p] = "announcing"
  /\ at' = [at EXCEPT ![p] = "open"]
  /\ UNCHANGED <<fileVars, version, next, cause>>

Announce(p) ==
  /\ at[p] = "announcing"
  /\ userVersion' = 2
  /\ at' = [at EXCEPT ![p] = "open"]
  /\ UNCHANGED <<tables, columns, version, next, cause>>

Stops(p) ==
  /\ cause' = cause \cup (IF at[p] \in {"altering", "announcing"} THEN {"stopped"} ELSE {})
  /\ UNCHANGED <<fileVars, version, next>>

\* A statement fails, and Open with it.
StatementFails(p) ==
  /\ at[p] \in Migrating
  /\ at' = [at EXCEPT ![p] = "failed"]
  /\ Stops(p)

Kill(p) ==
  /\ at[p] # "off"
  /\ at' = [at EXCEPT ![p] = "off"]
  /\ Stops(p)

Next ==
  \E p \in Process :
    \/ BeginOpen(p) \/ ReadVersion(p) \/ ReadFails(p)
    \/ CreateTable(p) \/ Stamp(p) \/ AddColumn(p) \/ AlterRefused(p) \/ Announce(p)
    \/ StatementFails(p) \/ Kill(p)

Spec == Init /\ [][Next]_vars

-----------------------------------------------------------------------------
(* Properties *)

\* server.NewLocal 54-68: whoever's Open succeeds finds every table and column that its
\* stores name, however many others migrate the file, die in it or set its version back.
SchemaIsWhole == \A p \in Process : at[p] = "open" => tables = Tables /\ columns = Columns

\* No Open can succeed any more: a column is there, and the version says it is not.
Broken == columns # {} /\ userVersion < 2

\* db.go 80, 144-156: what is left of an Open that fails or is killed is picked up by the
\* next one, if it was in the part with IF NOT EXISTS.  A file is broken, and an Open
\* refused, only after one was stopped in the part without, two overlapped, or the
\* version could not be read.
BrokenOnlyByAStop ==
  /\ (\A p \in Process : at[p] \notin Migrating) /\ Broken => cause # {}
  /\ (\E p \in Process : at[p] = "refused") => cause # {}

=============================================================================
