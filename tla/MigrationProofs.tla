-------------------------- MODULE MigrationProofs --------------------------
(***************************************************************************)
(* Theorems about Migration, for any number of processes.                  *)
(*                                                                         *)
(* That an opened file is whole needs only what a version and a place in   *)
(* migrate say of the file, which nobody ever takes back.  That a file is  *)
(* broken only after a stop needs in addition that, as long as nothing has *)
(* happened that could break it, one process at most is in migrate, and    *)
(* the columns are exactly those it has added.                             *)
(***************************************************************************)
EXTENDS Migration, TLAPS

\* A version announces what is there, and so does the place of a process.
FileIsAsSaid ==
  /\ userVersion >= 1 => tables = Tables
  /\ userVersion = 2 => columns = Columns
  /\ \A p \in Process :
       /\ at[p] = "creating" => \A i \in 1..5 : i < next[p] => Table[i] \in tables
       /\ at[p] \in {"stamping", "altering", "announcing", "open"} => tables = Tables
       /\ at[p] = "altering" =>
            next[p] \in 1..3 /\ \A i \in 1..3 : i < next[p] => Column[i] \in columns
       /\ at[p] \in {"announcing", "open"} => columns = Columns

\* While nothing has happened, migrate has at most one process at a time, the file is as
\* it left it, and nothing is refused.
OneByOne ==
  cause = {} =>
    /\ \A p, q \in Process : at[p] \in Migrating /\ at[q] \in Migrating => p = q
    /\ \A p \in Process :
         /\ at[p] \in {"creating", "stamping"} => userVersion = 0
         /\ at[p] = "altering" =>
              userVersion = 1 /\ \A i \in 1..3 : Column[i] \in columns => i < next[p]
         /\ at[p] # "refused"
    /\ (\A p \in Process : at[p] \notin {"altering", "announcing"}) /\ userVersion < 2
         => columns = {}

IInv == TypeOK /\ FileIsAsSaid /\ OneByOne

-----------------------------------------------------------------------------

\* Columns have different names.
LEMMA ColumnsDiffer == \A i, j \in 1..3 : Column[i] = Column[j] => i = j
<1>1. Column[1] = "depends_on" /\ Column[2] = "files_written" /\ Column[3] = "subtask_id"
  BY DEF Column
<1>2. 1..3 = {1, 2, 3}
  OBVIOUS
<1> QED BY <1>1, <1>2

\* A new file is empty, and nobody has opened it.
LEMMA InitIInv == Init => IInv
<1> SUFFICES ASSUME Init PROVE IInv
  OBVIOUS
<1>1. TypeOK
  BY DEF Init, TypeOK, At, Migrating, Cause
<1>2. FileIsAsSaid /\ OneByOne
  BY DEF Init, FileIsAsSaid, OneByOne, Migrating
<1> QED BY <1>1, <1>2 DEF IInv

\* Types are kept by every step.
LEMMA StepTypeOK == IInv /\ [Next]_vars => TypeOK'
<1> SUFFICES ASSUME IInv, [Next]_vars PROVE TypeOK'
  OBVIOUS
<1> USE DEF IInv, TypeOK, At, Migrating, Cause
<1>1. ASSUME NEW p \in Process, BeginOpen(p) PROVE TypeOK'
  BY <1>1 DEF BeginOpen, fileVars
<1>2. ASSUME NEW p \in Process, ReadVersion(p) PROVE TypeOK'
  BY <1>2 DEF ReadVersion, Begin, fileVars
<1>3. ASSUME NEW p \in Process, ReadFails(p) PROVE TypeOK'
  BY <1>3 DEF ReadFails, Begin, fileVars
<1>4. ASSUME NEW p \in Process, CreateTable(p) PROVE TypeOK'
  <2>1. Table[next[p]] \in Tables
    BY DEF Tables
  <2>2. next' \in [Process -> 1..5] /\ at' \in [Process -> At]
    BY <1>4 DEF CreateTable
  <2> QED BY <1>4, <2>1, <2>2 DEF CreateTable
<1>5. ASSUME NEW p \in Process, Stamp(p) PROVE TypeOK'
  BY <1>5 DEF Stamp
<1>6. ASSUME NEW p \in Process, AddColumn(p) PROVE TypeOK'
  <2>1. next[p] \in 1..3
    BY <1>6 DEF AddColumn, FileIsAsSaid
  <2>2. Column[next[p]] \in Columns
    BY <2>1 DEF Columns
  <2>3. next' \in [Process -> 1..5] /\ at' \in [Process -> At]
    BY <1>6, <2>1 DEF AddColumn
  <2> QED BY <1>6, <2>2, <2>3 DEF AddColumn
<1>7. ASSUME NEW p \in Process, AlterRefused(p) PROVE TypeOK'
  BY <1>7 DEF AlterRefused, fileVars
<1>8. ASSUME NEW p \in Process, Announce(p) PROVE TypeOK'
  BY <1>8 DEF Announce
<1>9. ASSUME NEW p \in Process, StatementFails(p) \/ Kill(p) PROVE TypeOK'
  BY <1>9 DEF StatementFails, Kill, Stops, fileVars
<1>10. CASE UNCHANGED vars
  BY <1>10 DEF vars, fileVars, procVars
<1> QED
  BY <1>1, <1>2, <1>3, <1>4, <1>5, <1>6, <1>7, <1>8, <1>9, <1>10 DEF Next

\* Tables and columns are added only, and a version follows what it announces.
LEMMA StepFile == IInv /\ [Next]_vars => FileIsAsSaid'
<1> SUFFICES ASSUME IInv, [Next]_vars PROVE FileIsAsSaid'
  OBVIOUS
<1> USE DEF IInv, TypeOK, FileIsAsSaid
<1>1. ASSUME NEW p \in Process, BeginOpen(p) PROVE FileIsAsSaid'
  BY <1>1 DEF BeginOpen, fileVars
<1>2. ASSUME NEW p \in Process, ReadVersion(p) PROVE FileIsAsSaid'
  BY <1>2 DEF ReadVersion, Begin, fileVars
<1>3. ASSUME NEW p \in Process, ReadFails(p) PROVE FileIsAsSaid'
  BY <1>3 DEF ReadFails, Begin, fileVars
<1>4. ASSUME NEW p \in Process, CreateTable(p) PROVE FileIsAsSaid'
  <2>1. next[p] \in 1..5 /\ Table[next[p]] \in Tables /\ tables' \subseteq Tables
    BY <1>4 DEF CreateTable, Tables
  <2>2. tables = Tables => tables' = Tables
    BY <1>4, <2>1 DEF CreateTable
  <2>3. ASSUME next[p] = 5 PROVE tables' = Tables
    <3>1. \A i \in 1..5 : Table[i] \in tables'
      BY <1>4, <2>3 DEF CreateTable
    <3> QED BY <3>1, <2>1 DEF Tables
  <2>4. \A i \in 1..5 : i <= next[p] => Table[i] \in tables'
    BY <1>4 DEF CreateTable
  <2> QED BY <1>4, <2>1, <2>2, <2>3, <2>4 DEF CreateTable
<1>5. ASSUME NEW p \in Process, Stamp(p) PROVE FileIsAsSaid'
  BY <1>5 DEF Stamp
<1>6. ASSUME NEW p \in Process, AddColumn(p) PROVE FileIsAsSaid'
  <2>1. next[p] \in 1..3 /\ Column[next[p]] \in Columns /\ columns' \subseteq Columns
    BY <1>6 DEF AddColumn, Columns
  <2>2. columns = Columns => columns' = Columns
    BY <1>6, <2>1 DEF AddColumn
  <2>3. ASSUME next[p] = 3 PROVE columns' = Columns
    <3>1. \A i \in 1..3 : Column[i] \in columns'
      BY <1>6, <2>3 DEF AddColumn
    <3> QED BY <3>1, <2>1 DEF Columns
  <2>4. \A i \in 1..3 : i <= next[p] => Column[i] \in columns'
    BY <1>6 DEF AddColumn
  <2> QED BY <1>6, <2>1, <2>2, <2>3, <2>4 DEF AddColumn
<1>7. ASSUME NEW p \in Process, AlterRefused(p) PROVE FileIsAsSaid'
  BY <1>7 DEF AlterRefused, fileVars
<1>8. ASSUME NEW p \in Process, Announce(p) PROVE FileIsAsSaid'
  BY <1>8 DEF Announce
<1>9. ASSUME NEW p \in Process, StatementFails(p) \/ Kill(p) PROVE FileIsAsSaid'
  BY <1>9 DEF StatementFails, Kill, Stops, fileVars
<1>10. CASE UNCHANGED vars
  BY <1>10 DEF vars, fileVars, procVars
<1> QED
  BY <1>1, <1>2, <1>3, <1>4, <1>5, <1>6, <1>7, <1>8, <1>9, <1>10 DEF Next

\* Without a stop, a race or a misreading, migrations follow one another.
LEMMA StepOneByOne == IInv /\ [Next]_vars => OneByOne'
<1> SUFFICES ASSUME IInv, [Next]_vars, cause' = {} PROVE OneByOne'
  BY DEF OneByOne
<1> USE DEF IInv, TypeOK, FileIsAsSaid, OneByOne, Migrating
<1>1. ASSUME NEW p \in Process, BeginOpen(p) PROVE OneByOne'
  BY <1>1 DEF BeginOpen, fileVars
<1>2. ASSUME NEW p \in Process, ReadVersion(p) PROVE OneByOne'
  <2>1. cause = {} /\ Alone(p)
    BY <1>2 DEF ReadVersion
  <2>2. \A q \in Process : at[q] \notin Migrating
    BY <1>2, <2>1 DEF ReadVersion, Alone
  <2>3. userVersion < 2 => columns = {}
    BY <2>1, <2>2
  <2> QED BY <1>2, <2>1, <2>2, <2>3 DEF ReadVersion, Begin, fileVars
<1>3. ASSUME NEW p \in Process, ReadFails(p) PROVE OneByOne'
  BY <1>3 DEF ReadFails
<1>4. ASSUME NEW p \in Process, CreateTable(p) PROVE OneByOne'
  BY <1>4 DEF CreateTable
<1>5. ASSUME NEW p \in Process, Stamp(p) PROVE OneByOne'
  BY <1>5 DEF Stamp
<1>6. ASSUME NEW p \in Process, AddColumn(p) PROVE OneByOne'
  <2>1. next[p] \in 1..3 /\ cause = {} /\ userVersion = 1
    BY <1>6 DEF AddColumn
  <2>2. \A i \in 1..3 : Column[i] \in columns' => i <= next[p]
    BY <1>6, <2>1, ColumnsDiffer DEF AddColumn
  <2> QED BY <1>6, <2>1, <2>2 DEF AddColumn
<1>7. ASSUME NEW p \in Process, AlterRefused(p) PROVE OneByOne'
  <2>1. cause = {} /\ at[p] = "altering" /\ next[p] \in 1..3 /\ tables = Tables
    BY <1>7 DEF AlterRefused
  <2>2. Column[next[p]] \notin columns
    BY <2>1
  <2>3. Table[1] = "tasks" /\ Table[1] \in Tables
    BY DEF Table, Tables
  <2> QED BY <1>7, <2>1, <2>2, <2>3 DEF AlterRefused
<1>8. ASSUME NEW p \in Process, Announce(p) PROVE OneByOne'
  BY <1>8 DEF Announce
<1>9. ASSUME NEW p \in Process, StatementFails(p) \/ Kill(p) PROVE OneByOne'
  BY <1>9 DEF StatementFails, Kill, Stops, fileVars
<1>10. CASE UNCHANGED vars
  BY <1>10 DEF vars, fileVars, procVars
<1> QED
  BY <1>1, <1>2, <1>3, <1>4, <1>5, <1>6, <1>7, <1>8, <1>9, <1>10 DEF Next

\* The strengthening is an invariant.
THEOREM InductiveInvariant == Spec => []IInv
<1>1. IInv /\ [Next]_vars => IInv'
  BY StepTypeOK, StepFile, StepOneByOne DEF IInv
<1> QED BY InitIInv, <1>1, PTL DEF Spec

\* Types.
THEOREM TypeCorrect == Spec => []TypeOK
<1>1. IInv => TypeOK
  BY DEF IInv
<1> QED BY InductiveInvariant, <1>1, PTL

\* Whoever has opened the file finds the whole schema, whatever the others did to it.
THEOREM OpenedFilesAreWhole == Spec => []SchemaIsWhole
<1>1. IInv => SchemaIsWhole
  BY DEF IInv, FileIsAsSaid, SchemaIsWhole
<1> QED BY InductiveInvariant, <1>1, PTL

\* A file that can no longer be opened was stopped in the second part of migrate, or
\* raced for, or misread.
THEOREM FilesBreakByAStopOnly == Spec => []BrokenOnlyByAStop
<1>1. IInv => BrokenOnlyByAStop
  BY DEF IInv, TypeOK, OneByOne, BrokenOnlyByAStop, Broken, Migrating
<1> QED BY InductiveInvariant, <1>1, PTL
=============================================================================
