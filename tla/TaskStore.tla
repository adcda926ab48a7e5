----------------------------- MODULE TaskStore -----------------------------
(***************************************************************************)
(* The `tasks` table of internal/state/tasks.go as the pipeline uses it:   *)
(* one row per task id, an upsert (Save) and the three queries that decide *)
(* what happens next (FirstPending, FindWaitingForSubtask, List(pending)). *)
(*                                                                         *)
(* A row keeps the columns control flow depends on.  Title, description,   *)
(* acceptance criteria, conversation history and execution results are     *)
(* data the control never branches on and are left out.                    *)
(***************************************************************************)
EXTENDS Naturals, FiniteSets

CONSTANTS
  Task,        \* the ids uuid.New() may hand out; a row exists for some of them
  NoTask,      \* the NULL of parent_task_id and subtask_id
  UnknownId,   \* a depends_on entry the PM made up: no task ever has this id
  Path,        \* artifact files a task may write
  Role         \* values of assigned_role, registered or not

ASSUME NoTaskAssumption    == NoTask \notin Task
ASSUME UnknownIdAssumption == UnknownId \notin Task
ASSUME PMAssumption        == "pm" \in Role

VARIABLES
  db,          \* the table: id -> row ("absent" when there is no row)
  now          \* the wall clock at the resolution created_at is stored with

InFlight == {"in_progress", "pending_review"}
Terminal == {"done", "escalated"}
Status   == {"absent", "pending", "waiting_subtask"} \cup InFlight \cup Terminal

Row == [status  : Status,
        role    : Role,
        retry   : Nat,
        deps    : SUBSET (Task \cup {UnknownId}),
        files   : SUBSET Path,
        parent  : Task \cup {NoTask},
        subtask : Task \cup {NoTask},
        created : Nat]

\* A row as &model.Task{...} is built for a new task, before it is saved.
NewRow(role, deps, parent, created) ==
  [status |-> "pending", role |-> role, retry |-> 0, deps |-> deps,
   files |-> {}, parent |-> parent, subtask |-> NoTask, created |-> created]

NoRow == [NewRow("pm", {}, NoTask, 0) EXCEPT !.status = "absent"]

Fresh    == {t \in Task : db[t].status = "absent"}
Existing == Task \ Fresh
Pending  == {t \in Task : db[t].status = "pending"}

-----------------------------------------------------------------------------

\* INSERT ... ON CONFLICT(id) DO UPDATE: the row of t becomes `row`.
Save(t, row) == db' = [db EXCEPT ![t] = row]

\* Mutant of AllDepsDone: one finished dependency is enough.
AnyDepDone(ids) == ids = {} \/ \E d \in ids : d \in Task /\ db[d].status = "done"

\* allDepsDone: every id named is the id of a row that is done.
AllDepsDone(ids) == \A d \in ids : d \in Task /\ db[d].status = "done"

Ready == {t \in Pending : AllDepsDone(db[t].deps)}

\* FirstPending returns a task of this set (nil when it is empty): ready, and no
\* ready row sorts before it.  created_at has one-second resolution, so several
\* rows may tie and ORDER BY leaves their order open.
FirstPending == {t \in Ready : \A u \in Ready : db[t].created <= db[u].created}

\* Mutant of WaitingFor: the subtask_id clause is missing.
AnyWaiting(c) == {p \in Task : db[p].status = "waiting_subtask"}

\* FindWaitingForSubtask(c): the rows its query matches.
WaitingFor(c) ==
  {p \in Task : db[p].status = "waiting_subtask" /\ db[p].subtask = c}

StoreInit == db = [t \in Task |-> NoRow] /\ now = 0

StoreTypeOK == db \in [Task -> Row] /\ now \in Nat
=============================================================================
