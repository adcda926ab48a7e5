--------------------------- MODULE PipelineProofs ---------------------------
(***************************************************************************)
(* Proofs about Pipeline, for every set of tasks, files and roles, every   *)
(* retry limit and queue depth, with or without reviewers, crashes, failed *)
(* saves and cancellations.                                                *)
(***************************************************************************)
EXTENDS Pipeline, TLAPS

-----------------------------------------------------------------------------
(* Type correctness *)

\* A new row is well formed.
LEMMA NewRowType ==
  ASSUME NEW role \in Role, NEW deps \in SUBSET (Task \cup {UnknownId}),
         NEW parent \in Task \cup {NoTask}, NEW created \in Nat
  PROVE  /\ NewRow(role, deps, parent, created) \in Row
         /\ NewRow(role, deps, parent, created).status = "pending"
         /\ NewRow(role, deps, parent, created).role = role
         /\ NewRow(role, deps, parent, created).deps = deps
         /\ NewRow(role, deps, parent, created).parent = parent
         /\ NewRow(role, deps, parent, created).retry = 0
  BY DEF NewRow, Row, Status, InFlight, Terminal

\* So is the row of a task that does not exist.
LEMMA NoRowType == NoRow \in Row /\ NoRow.status = "absent"
  BY PMAssumption DEF NoRow, NewRow, Row, Status, InFlight, Terminal

\* The types hold before the first step.
LEMMA InitTypeOK == Init => TypeOK
  BY NoRowType DEF Init, TypeOK, File, NoFile, StoreInit, StoreTypeOK, Location, LoopPoints, Unreviewed,
     Verdict, Answer

\* Saving a well-formed row keeps the table well formed.
LEMMA SaveType ==
  ASSUME StoreTypeOK, NEW t, NEW row \in Row, Save(t, row)
  PROVE  db' \in [Task -> Row]
  BY DEF StoreTypeOK, Save

\* The steps of Run keep the types.
LEMMA RunStepType == TypeOK /\ RunStep => TypeOK'
<1> SUFFICES ASSUME TypeOK, RunStep PROVE TypeOK'
  OBVIOUS
<1> USE DEF TypeOK, StoreTypeOK, Location, LoopPoints
<1>1. CASE LoopTop
  BY <1>1 DEF LoopTop, Proceed
<1>2. CASE GenerateSomeTasks
  <2>1. PICK batch \in SUBSET Fresh : \E roles \in [batch -> Role],
               deps \in [batch -> SUBSET (Existing \cup {UnknownId})],
               created \in {now, now + 1} : GenerateTasks(batch, roles, deps, created)
    BY <1>2 DEF GenerateSomeTasks
  <2>2. PICK roles \in [batch -> Role],
             deps \in [batch -> SUBSET (Existing \cup {UnknownId})],
             created \in {now, now + 1} : GenerateTasks(batch, roles, deps, created)
    BY <2>1
  <2>3. created \in Nat /\ now' \in Nat
    BY <2>2 DEF GenerateTasks, Clock
  <2>4. \A t \in batch : NewRow(roles[t], deps[t], NoTask, created) \in Row
    BY <2>3, NewRowType DEF Existing
  <2>5. db' \in [Task -> Row]
    BY <2>2, <2>4 DEF GenerateTasks
  <2> QED
    BY <2>2, <2>3, <2>5 DEF GenerateTasks, Proceed, CallReturns
<1>3. CASE NothingReady
  BY <1>3 DEF NothingReady, Proceed
<1>4. CASE FetchFails
  BY <1>4 DEF FetchFails, Proceed
<1>5. CASE Wake
  BY <1>5 DEF Wake, Proceed
<1>6. CASE \E t \in Task : FetchTask(t)
  BY <1>6 DEF FetchTask, Row, Status, InFlight, SavePoints
<1> QED
  BY <1>1, <1>2, <1>3, <1>4, <1>5, <1>6 DEF RunStep

\* The steps from the fetch of a task to its output keep the types.
LEMMA OutputStepType == TypeOK /\ OutputStep => TypeOK'
<1> SUFFICES ASSUME TypeOK, OutputStep PROVE TypeOK'
  OBVIOUS
<1> USE DEF TypeOK, StoreTypeOK, Location, CallPoints, SavePoints, Proceed, CallReturns
<1>1. CASE Claim
  BY <1>1, SaveType DEF Claim
<1>2. CASE InjectContext
  BY <1>2, SaveType DEF InjectContext
<1>3. CASE RoleFails
  BY <1>3 DEF RoleFails
<1>4. CASE RoleWantsSubTask
  BY <1>4 DEF RoleWantsSubTask
<1>5. CASE \E files \in SUBSET Path : RoleSubmits(files) \/ WriteFilesFails(files)
  <2>1. PICK files \in SUBSET Path : RoleSubmits(files) \/ WriteFilesFails(files)
    BY <1>5
  <2>2. mem' \in Row
    BY <2>1 DEF RoleSubmits, WriteFilesFails, Row
  <2>3. cur \in Task \cup {NoTask} /\ disk \in [Path -> File]
    OBVIOUS
  <2>4. disk' \in [Path -> File]
    <3>1. \A known \in SUBSET Path : Written(files, known) \in [Path -> File]
      BY <2>1, <2>3 DEF Written, File
    <3>2. mem.files \in SUBSET Path
      BY DEF Row
    <3> QED
      BY <2>1, <3>1, <3>2 DEF RoleSubmits, WriteFilesFails
  <2> QED
    BY <2>1, <2>2, <2>4 DEF RoleSubmits, WriteFilesFails, Unreviewed, Verdict, Answer
<1>6. CASE ExecPasses
  BY <1>6 DEF ExecPasses, AfterExec, AfterCode
<1>7. CASE ExecFails
  BY <1>7 DEF ExecFails
<1> QED
  BY <1>1, <1>2, <1>3, <1>4, <1>5, <1>6, <1>7 DEF OutputStep

\* The steps of the reviews keep the types.
LEMMA ReviewStepType == TypeOK /\ ReviewStep => TypeOK'
<1> SUFFICES ASSUME TypeOK, ReviewStep PROVE TypeOK'
  OBVIOUS
<1> USE DEF TypeOK, StoreTypeOK, Location, CallPoints, SavePoints, Proceed, CallReturns
<1>1. CASE \E answer \in Answer : \/ CodeReviewPasses(answer) \/ SecurityReviewPasses(answer)
                                 \/ PMReviewPasses(answer)
  BY <1>1 DEF CodeReviewPasses, SecurityReviewPasses, PMReviewPasses, AfterCode, Verdict
<1>2. CASE CodeReviewWantsChanges \/ SecurityReviewWantsChanges
  BY <1>2 DEF CodeReviewWantsChanges, SecurityReviewWantsChanges, AfterChanges, CountRetry,
     Row, Verdict, Answer
<1>3. CASE Rework
  BY <1>3, SaveType DEF Rework
<1>4. CASE AutoApprove
  <2>1. mem' \in Row
    BY <1>4 DEF AutoApprove, Row, Status, Terminal
  <2> QED
    BY <1>4, <2>1, SaveType DEF AutoApprove
<1>5. CASE SubmitForReview
  <2>1. mem' \in Row
    BY <1>5 DEF SubmitForReview, Row, Status, InFlight
  <2> QED
    BY <1>5, <2>1, SaveType DEF SubmitForReview
<1>6. CASE PMRejects
  BY <1>6 DEF PMRejects, Verdict, Answer
<1> QED
  BY <1>1, <1>2, <1>3, <1>4, <1>5, <1>6 DEF ReviewStep

\* Returning to Run keeps the types.
LEMMA ReturnType ==
  ASSUME TypeOK, Return, db' \in [Task -> Row], now' \in Nat,
         ctx' = ctx, disk' = disk
  PROVE  TypeOK'
  BY NoRowType DEF TypeOK, Return, StoreTypeOK, Location, LoopPoints, Unreviewed, Verdict, Answer

\* The steps that settle a task keep the types.
LEMMA OutcomeStepType == TypeOK /\ OutcomeStep => TypeOK'
<1> SUFFICES ASSUME TypeOK, OutcomeStep PROVE TypeOK'
  OBVIOUS
<1> USE DEF TypeOK, StoreTypeOK, Location, CallPoints, SavePoints, Proceed
<1>1. CASE Approve
  <2>1. mem' \in Row
    BY <1>1 DEF Approve, Row, Status, Terminal
  <2> QED
    BY <1>1, <2>1, SaveType DEF Approve
<1>2. CASE Reject
  <2>1. [mem EXCEPT !.retry = 0, !.status = "pending"] \in Row
    BY DEF Row, Status
  <2> QED
    BY <1>2, <2>1, SaveType, ReturnType DEF Reject
<1>3. CASE ResumeWaitingParent
  <2>1. \A p \in Task : [db[p] EXCEPT !.subtask = NoTask, !.status = "pending"] \in Row
    BY DEF Row, Status
  <2>2. db' \in [Task -> Row]
    BY <1>3, <2>1, SaveType DEF ResumeWaitingParent, WaitingFor
  <2> QED
    BY <1>3, <2>2, ReturnType DEF ResumeWaitingParent
<1>4. CASE Requeue
  <2> DEFINE counted == [mem EXCEPT !.retry = @ + 1]
  <2>1. counted \in Row
    BY DEF Row
  <2>2. [counted EXCEPT !.status = "pending"] \in Row
    BY <2>1 DEF Row, Status
  <2>3. [mem EXCEPT !.retry = @ + 1, !.status = "pending"]
          = [counted EXCEPT !.status = "pending"]
    BY DEF Row
  <2> QED
    BY <1>4, <2>2, <2>3, SaveType, ReturnType DEF Requeue
<1>5. CASE GiveUp
  BY <1>5 DEF GiveUp, CountRetry, Row
<1>6. CASE \E kept \in SUBSET Path : Rollback(kept)
  <2>1. PICK kept \in SUBSET Path : Rollback(kept)
    BY <1>6
  <2>2. disk' \in [Path -> File]
    BY <2>1 DEF Rollback, File, NoFile
  <2> QED
    BY <2>1, <2>2 DEF Rollback, Row, Status, Terminal
<1>7. CASE SaveEscalated
  BY <1>7, SaveType DEF SaveEscalated
<1>8. CASE \E e \in Task, created \in {now, now + 1} : SaveEscalationTask(e, created)
  <2>1. PICK e \in Task, created \in {now, now + 1} : SaveEscalationTask(e, created)
    BY <1>8
  <2>2. created \in Nat /\ NewRow("pm", {}, cur, created) \in Row
    BY NewRowType, PMAssumption
  <2> QED
    BY <2>1, <2>2, SaveType, ReturnType DEF SaveEscalationTask, Clock
<1>9. CASE \E c \in Task, role \in Role, created \in {now, now + 1} :
             SpawnChild(c, role, created)
  <2>1. PICK c \in Task, role \in Role, created \in {now, now + 1} :
          SpawnChild(c, role, created)
    BY <1>9
  <2>2. created \in Nat /\ NewRow(role, {}, cur, created) \in Row
    BY NewRowType
  <2>3. mem' \in Row
    BY <2>1 DEF SpawnChild, Row, Status
  <2> QED
    BY <2>1, <2>2, <2>3, SaveType DEF SpawnChild, Clock
<1>10. CASE SpawnParent
  BY <1>10, SaveType, ReturnType DEF SpawnParent
<1> QED
  BY <1>1, <1>2, <1>3, <1>4, <1>5, <1>6, <1>7, <1>8, <1>9, <1>10 DEF OutcomeStep

\* Every step keeps the types.
LEMMA StepTypeOK == TypeOK /\ [Next]_vars => TypeOK'
<1> SUFFICES ASSUME TypeOK, [Next]_vars PROVE TypeOK'
  OBVIOUS
<1>1. CASE PipelineStep
  BY <1>1, RunStepType, OutputStepType, ReviewStepType, OutcomeStepType DEF PipelineStep
<1>2. CASE Start
  BY <1>2 DEF Start, TypeOK, StoreTypeOK, Location, LoopPoints
<1>3. CASE SaveFails
  BY <1>3, ReturnType DEF SaveFails, TypeOK, StoreTypeOK
<1>4. CASE Cancel
  BY <1>4 DEF Cancel, TypeOK, StoreTypeOK
<1>5. CASE Crash
  BY <1>5, NoRowType DEF Crash, TypeOK, StoreTypeOK, Location, LoopPoints, Unreviewed,
     Verdict, Answer
<1>6. CASE UNCHANGED vars
  BY <1>6 DEF vars, TypeOK, StoreTypeOK
<1> QED
  BY <1>1, <1>2, <1>3, <1>4, <1>5, <1>6 DEF Next

\* Every variable keeps its type.
THEOREM TypeCorrect == Spec => []TypeOK
<1>1. Init => TypeOK
  BY InitTypeOK
<1>2. TypeOK /\ [Next]_vars => TypeOK'
  BY StepTypeOK
<1> QED
  BY <1>1, <1>2, PTL DEF Spec

-----------------------------------------------------------------------------
(* What a save does to the relations between rows *)

TableInv == DependenciesRespected /\ ParkedTaskHasItsSubtask

\* A step that saves nothing leaves what is said of the table.
LEMMA SameTable ==
  ASSUME TableInv, UNCHANGED db
  PROVE  TableInv'
  BY DEF TableInv, DependenciesRespected, ParkedTaskHasItsSubtask, AllDepsDone, WaitingFor,
     Existing, Fresh

\* New rows disturb no relation between the rows there were.
LEMMA NewRowsKeepTable ==
  ASSUME StoreTypeOK, StoreTypeOK', TableInv,
         \A t \in Task : db'[t] # db[t] =>
            db[t].status = "absent" /\ db'[t].status = "pending"
  PROVE  TableInv'
<1> USE DEF StoreTypeOK, InFlight, Terminal
<1>1. DependenciesRespected'
  BY DEF TableInv, DependenciesRespected, AllDepsDone, Existing, Fresh
<1>2. ParkedTaskHasItsSubtask'
  <2> SUFFICES ASSUME NEW p \in Task, db'[p].status = "waiting_subtask"
               PROVE  /\ db'[p].subtask \in Existing'
                      /\ db'[db'[p].subtask].parent = p
                      /\ WaitingFor(db[p].subtask)' = {p}
                      /\ db'[p] = db[p]
    BY DEF ParkedTaskHasItsSubtask, WaitingFor
  <2>1. db'[p] = db[p]
    OBVIOUS
  <2>2. /\ db[p].subtask \in Existing /\ db[db[p].subtask].parent = p
        /\ WaitingFor(db[p].subtask) = {p}
    BY <2>1 DEF TableInv, ParkedTaskHasItsSubtask
  <2>3. db'[db[p].subtask] = db[db[p].subtask]
    BY <2>2 DEF Existing, Fresh
  <2>4. \A q \in Task : db'[q].status = "waiting_subtask" => db'[q] = db[q]
    OBVIOUS
  <2>5. WaitingFor(db[p].subtask)' = WaitingFor(db[p].subtask)
    BY <2>4 DEF WaitingFor
  <2> QED
    BY <2>1, <2>2, <2>3, <2>5 DEF Existing, Fresh
<1> QED
  BY <1>1, <1>2 DEF TableInv

\* Nor does a save of the active task that does not park it.
LEMMA SaveOwnRowKeepsTable ==
  ASSUME StoreTypeOK, TableInv, NEW t \in Task, NEW row \in Row, Save(t, row),
         db[t].status \notin {"absent", "waiting_subtask", "done"},
         row.status \notin {"absent", "waiting_subtask"},
         row.deps = db[t].deps, row.parent = db[t].parent, AllDepsDone(row.deps)
  PROVE  TableInv'
<1> USE DEF StoreTypeOK
<1>1. /\ db' \in [Task -> Row] /\ db'[t] = row
      /\ \A u \in Task \ {t} : db'[u] = db[u]
  BY SaveType DEF Save
<1>2. \A ids : AllDepsDone(ids) => AllDepsDone(ids)'
  BY <1>1 DEF AllDepsDone
<1>3. DependenciesRespected'
  BY <1>1, <1>2 DEF TableInv, DependenciesRespected, AllDepsDone, Existing, Fresh
<1>4. ParkedTaskHasItsSubtask'
  <2> SUFFICES ASSUME NEW p \in Task, db'[p].status = "waiting_subtask"
               PROVE  /\ db[p].subtask \in Existing'
                      /\ db'[db[p].subtask].parent = p
                      /\ WaitingFor(db[p].subtask)' = {p}
                      /\ db'[p] = db[p]
    BY DEF ParkedTaskHasItsSubtask, WaitingFor
  <2>1. db'[p] = db[p]
    BY <1>1
  <2>2. /\ db[p].subtask \in Existing /\ db[db[p].subtask].parent = p
        /\ WaitingFor(db[p].subtask) = {p}
    BY <2>1 DEF TableInv, ParkedTaskHasItsSubtask
  <2>3. \A q \in Task : db'[q].status = "waiting_subtask" <=> db[q].status = "waiting_subtask"
    BY <1>1
  <2>4. \A q \in Task : db[q].status = "waiting_subtask" => db'[q] = db[q]
    BY <1>1
  <2>5. WaitingFor(db[p].subtask)' = WaitingFor(db[p].subtask)
    BY <2>3, <2>4 DEF WaitingFor
  <2>6. db[p].subtask \in Existing' /\ db'[db[p].subtask].parent = p
    BY <1>1, <2>2 DEF Existing, Fresh
  <2> QED
    BY <2>1, <2>2, <2>5, <2>6
<1> QED
  BY <1>3, <1>4 DEF TableInv

\* Waking a parked task frees its sub-task of waiters and leaves the others alone.
LEMMA WakingKeepsTable ==
  ASSUME StoreTypeOK, TableInv, NEW p \in Task, db[p].status = "waiting_subtask",
         Save(p, [db[p] EXCEPT !.subtask = NoTask, !.status = "pending"])
  PROVE  TableInv'
<1> USE DEF StoreTypeOK
<1>1. /\ \A u \in Task \ {p} : db'[u] = db[u]
      /\ db'[p].status = "pending" /\ db'[p].parent = db[p].parent
      /\ db'[p].deps = db[p].deps
  BY DEF Save, Row
<1>2. \A ids : AllDepsDone(ids) => AllDepsDone(ids)'
  BY <1>1 DEF AllDepsDone
<1>3. DependenciesRespected'
  BY <1>1, <1>2 DEF TableInv, DependenciesRespected, Existing, Fresh, InFlight, Terminal
<1>4. ParkedTaskHasItsSubtask'
  <2> SUFFICES ASSUME NEW q \in Task, db'[q].status = "waiting_subtask"
               PROVE  /\ db[q].subtask \in Existing'
                      /\ db'[db[q].subtask].parent = q
                      /\ WaitingFor(db[q].subtask)' = {q}
                      /\ db'[q] = db[q]
    BY DEF ParkedTaskHasItsSubtask, WaitingFor
  <2>1. q # p /\ db'[q] = db[q]
    BY <1>1
  <2>2. /\ db[q].subtask \in Existing /\ db[db[q].subtask].parent = q
        /\ WaitingFor(db[q].subtask) = {q}
    BY <2>1 DEF TableInv, ParkedTaskHasItsSubtask
  <2>3. WaitingFor(db[q].subtask)' = {q}
    BY <1>1, <2>1, <2>2 DEF WaitingFor
  <2>4. db[q].subtask \in Existing' /\ db'[db[q].subtask].parent = q
    BY <1>1, <2>2 DEF Existing, Fresh
  <2> QED
    BY <2>1, <2>3, <2>4
<1> QED
  BY <1>3, <1>4 DEF TableInv

\* Parking a task behind a child that has no waiter yet.
LEMMA ParkingKeepsTable ==
  ASSUME StoreTypeOK, TableInv, NEW t \in Task, NEW row \in Row, Save(t, row),
         db[t].status = "in_progress", row.status = "waiting_subtask",
         row.deps = db[t].deps, row.parent = db[t].parent, AllDepsDone(row.deps),
         row.subtask \in Existing \ {t}, db[row.subtask].parent = t,
         WaitingFor(row.subtask) = {}
  PROVE  TableInv'
<1> USE DEF StoreTypeOK
<1>1. /\ db' \in [Task -> Row] /\ db'[t] = row
      /\ \A u \in Task \ {t} : db'[u] = db[u]
  BY SaveType DEF Save
<1>2. \A ids : AllDepsDone(ids) => AllDepsDone(ids)'
  BY <1>1 DEF AllDepsDone
<1>3. DependenciesRespected'
  BY <1>1, <1>2 DEF TableInv, DependenciesRespected, AllDepsDone, Existing, Fresh
<1>4. ParkedTaskHasItsSubtask'
  <2> SUFFICES ASSUME NEW q \in Task, db'[q].status = "waiting_subtask"
               PROVE  /\ db'[q].subtask \in Existing'
                      /\ db'[db'[q].subtask].parent = q
                      /\ \A u \in Task : (/\ db'[u].status = "waiting_subtask"
                                         /\ db'[u].subtask = db'[q].subtask) => u = q
    BY DEF ParkedTaskHasItsSubtask, WaitingFor
  <2>1. CASE q = t
    <3>1. \A u \in Task : db'[u].status = "waiting_subtask" /\ db'[u].subtask = row.subtask
                           => u = t
      BY <1>1 DEF WaitingFor
    <3> QED
      BY <1>1, <2>1, <3>1 DEF Existing, Fresh
  <2>2. CASE q # t
    <3>1. db'[q] = db[q]
      BY <1>1, <2>2
    <3>2. /\ db[q].subtask \in Existing /\ db[db[q].subtask].parent = q
          /\ WaitingFor(db[q].subtask) = {q}
      BY <3>1 DEF TableInv, ParkedTaskHasItsSubtask
    <3>3. db[q].subtask # row.subtask
      BY <3>2
    <3>4. \A u \in Task : db'[u].status = "waiting_subtask" /\ db'[u].subtask = db[q].subtask
                           => u = q
      BY <1>1, <3>2, <3>3 DEF WaitingFor
    <3>5. db[q].subtask \in Existing' /\ db'[db[q].subtask].parent = q
      BY <1>1, <3>2 DEF Existing, Fresh
    <3> QED
      BY <3>1, <3>4, <3>5
  <2> QED
    BY <2>1, <2>2
<1> QED
  BY <1>3, <1>4 DEF TableInv

-----------------------------------------------------------------------------
(* The active task *)

\* The parts of IInv about the goroutine, and what they need of the table.
HeldInv == ActiveTaskHeld /\ ChildAwaitsParking /\ HeldRetryBudget /\ RetryBudgetKept

\* processTask returns after a save that keeps budgets: nothing is held any more.
LEMMA ReturnKeepsHeld ==
  ASSUME Return, \A t \in Existing' : db'[t].retry >= MaxRetry => db'[t].status = "escalated"
  PROVE  HeldInv'
  BY DEF Return, HeldInv, ActiveTaskHeld, ChildAwaitsParking, HeldRetryBudget, RetryBudgetKept,
     LoopPoints

\* The invariant holds before the first step.
LEMMA InitIInv == Init => IInv
<1> SUFFICES ASSUME Init PROVE IInv
  OBVIOUS
<1>1. Existing = {} /\ \A t \in Task : db[t].status = "absent"
  BY NoRowType DEF Init, StoreInit, Existing, Fresh
<1>2. TypeOK
  BY InitTypeOK
<1>3. ActiveTaskHeld /\ ChildAwaitsParking /\ HeldRetryBudget
  BY DEF Init, ActiveTaskHeld, ChildAwaitsParking, HeldRetryBudget, LoopPoints
<1>4. DependenciesRespected /\ ParkedTaskHasItsSubtask /\ RetryBudgetKept
  BY <1>1 DEF Init, DependenciesRespected, ParkedTaskHasItsSubtask, RetryBudgetKept
<1> QED
  BY <1>2, <1>3, <1>4 DEF IInv

\* The steps of Run keep the invariant: new tasks, and the fetch of one that is ready.
LEMMA RunStepInv == IInv /\ TypeOK' /\ RunStep => IInv'
<1> SUFFICES ASSUME IInv, TypeOK', RunStep PROVE IInv'
  OBVIOUS
<1> USE DEF LoopPoints
<1>1. TypeOK /\ TableInv /\ HeldInv
  BY DEF IInv, TableInv, HeldInv
<1>2. SUFFICES TableInv' /\ HeldInv'
  BY DEF IInv, TableInv, HeldInv
<1>3. CASE LoopTop \/ NothingReady \/ FetchFails \/ Wake
  <2>1. UNCHANGED <<db, cur, mem>> /\ pc \in LoopPoints /\ pc' \in LoopPoints
    BY <1>3 DEF LoopTop, NothingReady, FetchFails, Wake, Proceed
  <2> QED
    BY <1>1, <2>1, SameTable DEF HeldInv, ActiveTaskHeld, ChildAwaitsParking, HeldRetryBudget,
       RetryBudgetKept, Existing, Fresh
<1>4. CASE GenerateSomeTasks
  <2>1. PICK batch \in SUBSET Fresh : \E roles \in [batch -> Role],
               deps \in [batch -> SUBSET (Existing \cup {UnknownId})],
               created \in {now, now + 1} : GenerateTasks(batch, roles, deps, created)
    BY <1>4 DEF GenerateSomeTasks
  <2>2. PICK roles \in [batch -> Role],
             deps \in [batch -> SUBSET (Existing \cup {UnknownId})],
             created \in {now, now + 1} : GenerateTasks(batch, roles, deps, created)
    BY <2>1
  <2>3. \A t \in batch : NewRow(roles[t], deps[t], NoTask, created).status = "pending"
                         /\ NewRow(roles[t], deps[t], NoTask, created).retry = 0
    BY DEF NewRow
  <2>4. \A t \in Task : db'[t] # db[t] => /\ db[t].status = "absent"
                                          /\ db'[t].status = "pending" /\ db'[t].retry = 0
    BY <2>2, <2>3 DEF GenerateTasks, Fresh
  <2>5. TableInv'
    BY <1>1, <2>4, NewRowsKeepTable DEF TypeOK
  <2>6. HeldInv'
    BY <1>1, <2>2, <2>4, LimitsAssumption DEF GenerateTasks, Proceed, HeldInv, ActiveTaskHeld,
       ChildAwaitsParking, HeldRetryBudget, RetryBudgetKept, Existing, Fresh
  <2> QED
    BY <2>5, <2>6
<1>5. CASE \E t \in Task : FetchTask(t)
  <2>1. PICK t \in Task : FetchTask(t)
    BY <1>5
  <2>2. db[t].status = "pending" /\ AllDepsDone(db[t].deps)
    BY <2>1 DEF FetchTask, FirstPending, Ready, Pending
  <2>3. db[t].retry < MaxRetry
    BY <1>1, <2>2, LimitsAssumption DEF HeldInv, RetryBudgetKept, TypeOK, StoreTypeOK, Row,
       Existing, Fresh
  <2>4. TableInv'
    BY <1>1, <2>1, SameTable DEF FetchTask
  <2>5. /\ mem'.status = "in_progress" /\ mem'.role = db[t].role /\ mem'.deps = db[t].deps
        /\ mem'.parent = db[t].parent /\ mem'.subtask = db[t].subtask
        /\ mem'.retry = db[t].retry
    BY <1>1, <2>1 DEF FetchTask, TypeOK, StoreTypeOK, Row
  <2>6. ActiveTaskHeld'
    BY <2>1, <2>2, <2>5 DEF FetchTask, ActiveTaskHeld, StoredStatus, HeldStatus, Working, AllDepsDone
  <2>7. HeldInv'
    BY <1>1, <2>1, <2>3, <2>5, <2>6 DEF FetchTask, HeldInv, ChildAwaitsParking, HeldRetryBudget,
       RetryBudgetKept, Existing, Fresh
  <2> QED
    BY <2>4, <2>7
<1> QED
  BY <1>3, <1>4, <1>5 DEF RunStep

\* Between two saves processTask may count retries and record files, and no more.
LEMMA WorkingMove ==
  ASSUME IInv, pc \in Working, pc' \in Working, UNCHANGED <<db, cur>>,
         mem'.status = mem.status, mem'.role = mem.role, mem'.deps = mem.deps,
         mem'.parent = mem.parent, mem'.subtask = mem.subtask,
         mem'.retry < MaxRetry \/ pc' = "rollback"
  PROVE  TableInv' /\ HeldInv'
<1>1. TableInv'
  BY SameTable DEF IInv, TableInv
<1>2. pc' \notin LoopPoints /\ pc \notin LoopPoints
  BY DEF Working, LoopPoints
<1>3. ActiveTaskHeld'
  BY <1>2 DEF IInv, ActiveTaskHeld, StoredStatus, HeldStatus, Working, AllDepsDone
<1>4. ChildAwaitsParking' /\ HeldRetryBudget' /\ RetryBudgetKept'
  BY DEF IInv, ChildAwaitsParking, HeldRetryBudget, RetryBudgetKept, Working, Existing, Fresh
<1> QED
  BY <1>1, <1>3, <1>4 DEF HeldInv

\* A save of the active task, not parking it, after which processTask goes on.
LEMMA SaveAndGoOn ==
  ASSUME IInv, pc \notin LoopPoints \cup {"escalateTask", "resume", "spawnParent"},
         NEW row \in Row, Save(cur, row), mem' = row, cur' = cur,
         row.role = mem.role, row.deps = mem.deps, row.parent = mem.parent,
         row.subtask = mem.subtask,
         row.retry < MaxRetry \/ row.status = "escalated",
         pc' \notin LoopPoints \cup {"spawnParent"},
         row.status = StoredStatus', row.status = HeldStatus',
         row.status \notin {"absent", "waiting_subtask"},
         pc' \in {"rollback", "escalate", "escalateTask"} \/ row.retry < MaxRetry
  PROVE  TableInv' /\ HeldInv'
<1> USE DEF IInv, TypeOK, StoreTypeOK
<1>1. /\ cur \in Task /\ mem.deps = db[cur].deps /\ mem.parent = db[cur].parent
      /\ mem.role = db[cur].role /\ mem.subtask = db[cur].subtask
      /\ db[cur].status = StoredStatus /\ AllDepsDone(mem.deps)
  BY DEF ActiveTaskHeld
<1>2. db[cur].status \in {"pending", "in_progress", "pending_review"}
  BY <1>1 DEF StoredStatus, Working, Location, LoopPoints, CallPoints, SavePoints
<1>3. TableInv'
  BY <1>1, <1>2, SaveOwnRowKeepsTable DEF TableInv
<1>4. /\ db'[cur] = row /\ \A u \in Task \ {cur} : db'[u] = db[u]
      /\ \A ids : AllDepsDone(ids) => AllDepsDone(ids)'
  BY <1>1, <1>2 DEF Save, AllDepsDone
<1>5. ActiveTaskHeld'
  BY <1>1, <1>4 DEF ActiveTaskHeld
<1>6. RetryBudgetKept'
  <2>1. \A t \in Existing' : db'[t].retry >= MaxRetry => db'[t].status = "escalated"
    BY <1>1, <1>2, <1>4, LimitsAssumption DEF RetryBudgetKept, Existing, Fresh, Row
  <2>2. pc' \in {"work", "rework", "spawnChild", "spawnParent"} => mem'.retry < MaxRetry
    OBVIOUS
  <2> QED
    BY <2>1, <2>2 DEF RetryBudgetKept
<1>7. ChildAwaitsParking' /\ HeldRetryBudget'
  BY DEF ChildAwaitsParking, HeldRetryBudget
<1> QED
  BY <1>3, <1>5, <1>6, <1>7 DEF HeldInv

\* The steps from the fetch of a task to its output keep the invariant.
LEMMA OutputStepInv == IInv /\ TypeOK' /\ OutputStep => IInv'
<1> SUFFICES ASSUME IInv, TypeOK', OutputStep PROVE IInv'
  OBVIOUS
<1> SUFFICES TableInv' /\ HeldInv'
  BY DEF IInv, TableInv, HeldInv
<1> USE DEF Proceed
<1>0. TypeOK /\ mem \in Row
  BY DEF IInv, TypeOK
<1>1. CASE Claim \/ InjectContext
  <2>1. /\ Save(cur, mem) /\ mem' = mem /\ cur' = cur
        /\ pc \in {"claim", "context"} /\ pc' \in {"context", "work", "rollback"}
    BY <1>1 DEF Claim, InjectContext
  <2>2. mem.status = "in_progress" /\ mem.retry < MaxRetry
    BY <2>1 DEF IInv, ActiveTaskHeld, HeldStatus, Working, HeldRetryBudget, LoopPoints
  <2>3. mem.status = StoredStatus' /\ mem.status = HeldStatus'
    BY <2>1, <2>2 DEF StoredStatus, HeldStatus, Working
  <2> QED
    BY <1>0, <2>1, <2>2, <2>3, SaveAndGoOn DEF LoopPoints
<1>2. CASE RoleFails \/ RoleWantsSubTask \/ ExecFails
  <2>1. /\ pc \in {"work", "exec"} /\ pc' \in {"fail", "spawnChild"}
        /\ UNCHANGED <<db, cur, mem>>
    BY <1>2 DEF RoleFails, RoleWantsSubTask, ExecFails
  <2>2. mem'.retry < MaxRetry
    BY <2>1 DEF IInv, HeldRetryBudget, LoopPoints
  <2> QED
    BY <2>1, <2>2, WorkingMove DEF Working
<1>3. CASE \E files \in SUBSET Path : RoleSubmits(files) \/ WriteFilesFails(files)
  <2>1. PICK files \in SUBSET Path : RoleSubmits(files) \/ WriteFilesFails(files)
    BY <1>3
  <2>2. /\ pc = "work" /\ pc' \in {"exec", "fail"} /\ UNCHANGED <<db, cur>>
        /\ mem' = mem \/ mem' = [mem EXCEPT !.files = @ \cup files]
    BY <2>1 DEF RoleSubmits, WriteFilesFails
  <2>3. /\ mem'.status = mem.status /\ mem'.role = mem.role /\ mem'.deps = mem.deps
        /\ mem'.parent = mem.parent /\ mem'.subtask = mem.subtask /\ mem'.retry = mem.retry
    BY <1>0, <2>2 DEF Row
  <2>4. mem.retry < MaxRetry
    BY <2>2 DEF IInv, HeldRetryBudget, LoopPoints
  <2> QED
    BY <2>2, <2>3, <2>4, WorkingMove DEF Working
<1>4. CASE ExecPasses
  <2>1. /\ pc = "exec" /\ pc' \in {"codeReview", "securityReview", "submit"}
        /\ UNCHANGED <<db, cur, mem>>
    BY <1>4 DEF ExecPasses, AfterExec, AfterCode
  <2>2. mem'.retry < MaxRetry
    BY <2>1 DEF IInv, HeldRetryBudget, LoopPoints
  <2> QED
    BY <2>1, <2>2, WorkingMove DEF Working
<1> QED
  BY <1>1, <1>2, <1>3, <1>4 DEF OutputStep

\* The steps of the reviews keep the invariant.
LEMMA ReviewStepInv == IInv /\ TypeOK' /\ ReviewStep => IInv'
<1> SUFFICES ASSUME IInv, TypeOK', ReviewStep PROVE IInv'
  OBVIOUS
<1> SUFFICES TableInv' /\ HeldInv'
  BY DEF IInv, TableInv, HeldInv
<1> USE DEF Proceed
<1>0. TypeOK /\ TypeOK' /\ mem \in Row /\ mem' \in Row
  BY DEF IInv, TypeOK
<1>1. CASE \E answer \in Answer : CodeReviewPasses(answer) \/ SecurityReviewPasses(answer)
  <2>1. /\ pc \in {"codeReview", "securityReview"} /\ pc' \in {"securityReview", "submit"}
        /\ UNCHANGED <<db, cur, mem>>
    BY <1>1 DEF CodeReviewPasses, SecurityReviewPasses, AfterCode
  <2>2. mem'.retry < MaxRetry
    BY <2>1 DEF IInv, HeldRetryBudget, LoopPoints
  <2> QED
    BY <2>1, <2>2, WorkingMove DEF Working
<1>2. CASE CodeReviewWantsChanges \/ SecurityReviewWantsChanges
  <2>1. /\ pc \in {"codeReview", "securityReview"} /\ UNCHANGED <<db, cur>>
        /\ mem' = [mem EXCEPT !.retry = @ + 1]
        /\ pc' = IF mem.retry + 1 >= MaxRetry THEN "rollback" ELSE "rework"
    BY <1>2 DEF CodeReviewWantsChanges, SecurityReviewWantsChanges, AfterChanges, CountRetry
  <2>2. /\ mem'.status = mem.status /\ mem'.role = mem.role /\ mem'.deps = mem.deps
        /\ mem'.parent = mem.parent /\ mem'.subtask = mem.subtask
        /\ mem'.retry = mem.retry + 1 /\ mem.retry \in Nat
    BY <1>0, <2>1 DEF Row
  <2>3. mem'.retry < MaxRetry \/ pc' = "rollback"
    BY <2>1, <2>2, LimitsAssumption
  <2>4. pc' \in {"rollback", "rework"}
    BY <2>1
  <2> QED
    BY <2>1, <2>2, <2>3, <2>4, WorkingMove DEF Working
<1>3. CASE Rework
  <2>1. mem.status = "in_progress" /\ mem.retry < MaxRetry
    BY <1>3 DEF Rework, IInv, ActiveTaskHeld, HeldStatus, Working, HeldRetryBudget, LoopPoints
  <2>2. mem.status = StoredStatus' /\ mem.status = HeldStatus'
    BY <1>3, <2>1 DEF Rework, StoredStatus, HeldStatus, Working
  <2> QED
    BY <1>0, <1>3, <2>1, <2>2, SaveAndGoOn DEF Rework, LoopPoints
<1>4. CASE AutoApprove \/ SubmitForReview
  <2>1. PICK status \in {"done", "pending_review"} :
          /\ pc = "submit" /\ mem' = [mem EXCEPT !.status = status]
          /\ Save(cur, mem') /\ cur' = cur
          /\ pc' = IF status = "done" THEN "resume" ELSE "pmReview"
    BY <1>4 DEF AutoApprove, SubmitForReview
  <2>2. /\ mem'.status = status /\ mem'.role = mem.role /\ mem'.deps = mem.deps
        /\ mem'.parent = mem.parent /\ mem'.subtask = mem.subtask /\ mem'.retry = mem.retry
    BY <1>0, <2>1 DEF Row
  <2>3. mem.retry < MaxRetry
    BY <2>1 DEF IInv, HeldRetryBudget, LoopPoints
  <2>4. status = StoredStatus' /\ status = HeldStatus'
    BY <2>1 DEF StoredStatus, HeldStatus, Working
  <2>5. pc' \in {"resume", "pmReview"}
    BY <2>1
  <2> QED
    BY <1>0, <2>1, <2>2, <2>3, <2>4, <2>5, SaveAndGoOn DEF LoopPoints
<1>5. CASE PMRejects \/ \E answer \in Answer : PMReviewPasses(answer)
  <2>1. /\ pc = "pmReview" /\ pc' \in {"approve", "reject"} /\ UNCHANGED <<db, cur, mem>>
    BY <1>5 DEF PMRejects, PMReviewPasses
  <2>2. TableInv'
    BY <2>1, SameTable DEF IInv, TableInv
  <2>3. ActiveTaskHeld'
    BY <2>1 DEF IInv, ActiveTaskHeld, StoredStatus, HeldStatus, Working, LoopPoints, AllDepsDone
  <2>4. ChildAwaitsParking' /\ HeldRetryBudget' /\ RetryBudgetKept'
    BY <2>1 DEF IInv, ChildAwaitsParking, HeldRetryBudget, RetryBudgetKept, LoopPoints,
       Existing, Fresh
  <2> QED
    BY <2>2, <2>3, <2>4 DEF HeldInv
<1> QED
  BY <1>1, <1>2, <1>3, <1>4, <1>5 DEF ReviewStep

\* A save that re-queues the active task with a budget left, and the return.
LEMMA SaveAndReturn ==
  ASSUME IInv, pc \notin LoopPoints \cup {"escalateTask", "resume", "spawnParent"},
         NEW row \in Row, Save(cur, row), Return,
         row.deps = mem.deps, row.parent = mem.parent,
         row.status = "pending", row.retry < MaxRetry
  PROVE  TableInv' /\ HeldInv'
<1> USE DEF IInv, TypeOK, StoreTypeOK
<1>1. /\ cur \in Task /\ mem.deps = db[cur].deps /\ mem.parent = db[cur].parent
      /\ db[cur].status = StoredStatus /\ AllDepsDone(mem.deps)
  BY DEF ActiveTaskHeld
<1>2. db[cur].status \in {"pending", "in_progress", "pending_review"}
  BY <1>1 DEF StoredStatus, Working, Location, LoopPoints, CallPoints, SavePoints
<1>3. TableInv'
  BY <1>1, <1>2, SaveOwnRowKeepsTable DEF TableInv
<1>4. db'[cur] = row /\ \A u \in Task \ {cur} : db'[u] = db[u]
  BY <1>1 DEF Save
<1>5. \A t \in Existing' : db'[t].retry >= MaxRetry => db'[t].status = "escalated"
  BY <1>1, <1>4, LimitsAssumption DEF RetryBudgetKept, Existing, Fresh, Row
<1> QED
  BY <1>3, <1>5, ReturnKeepsHeld

\* Approval, rejection, a retry and the waking of a parent keep the invariant.
LEMMA QueueingStepInv ==
  IInv /\ TypeOK' /\ (Approve \/ Reject \/ Requeue \/ ResumeWaitingParent) => IInv'
<1> SUFFICES ASSUME IInv, TypeOK', Approve \/ Reject \/ Requeue \/ ResumeWaitingParent
             PROVE  IInv'
  OBVIOUS
<1> SUFFICES TableInv' /\ HeldInv'
  BY DEF IInv, TableInv, HeldInv
<1> USE DEF Proceed
<1>0. TypeOK /\ mem \in Row /\ mem' \in Row /\ mem.retry \in Nat
  BY DEF IInv, TypeOK, Row
<1>1. CASE Approve
  <2>1. /\ mem'.status = "done" /\ mem'.role = mem.role /\ mem'.deps = mem.deps
        /\ mem'.parent = mem.parent /\ mem'.subtask = mem.subtask /\ mem'.retry = mem.retry
    BY <1>0, <1>1 DEF Approve, Row
  <2>2. mem.retry < MaxRetry
    BY <1>1 DEF Approve, IInv, HeldRetryBudget, LoopPoints
  <2>3. "done" = StoredStatus' /\ "done" = HeldStatus'
    BY <1>1 DEF Approve, StoredStatus, HeldStatus, Working
  <2> QED
    BY <1>0, <1>1, <2>1, <2>2, <2>3, SaveAndGoOn DEF Approve, LoopPoints
<1>2. CASE Reject
  <2> DEFINE row == [mem EXCEPT !.retry = 0, !.status = "pending"]
  <2>1. /\ row \in Row /\ row.deps = mem.deps /\ row.parent = mem.parent
        /\ row.status = "pending" /\ row.retry = 0
    BY <1>0 DEF Row, Status
  <2> HIDE DEF row
  <2>2. Save(cur, row) /\ Return /\ pc = "reject"
    BY <1>2 DEF Reject, row
  <2> QED
    BY <2>1, <2>2, LimitsAssumption, SaveAndReturn DEF LoopPoints
<1>3. CASE Requeue
  <2> DEFINE row == [mem EXCEPT !.retry = @ + 1, !.status = "pending"]
  <2>1. /\ row.deps = mem.deps /\ row.parent = mem.parent
        /\ row.status = "pending" /\ row.retry = mem.retry + 1
    BY <1>0 DEF Row
  <2>2. row \in Row
    <3> DEFINE counted == [mem EXCEPT !.retry = @ + 1]
    <3>1. counted \in Row
      BY <1>0 DEF Row
    <3>2. [counted EXCEPT !.status = "pending"] \in Row
      BY <3>1 DEF Row, Status
    <3>3. row = [counted EXCEPT !.status = "pending"]
      BY <1>0 DEF Row
    <3> QED
      BY <3>2, <3>3
  <2> HIDE DEF row
  <2>3. Save(cur, row) /\ Return /\ pc = "fail" /\ mem.retry + 1 < MaxRetry
    BY <1>3 DEF Requeue, row
  <2> QED
    BY <2>1, <2>2, <2>3, SaveAndReturn DEF LoopPoints
<1>4. CASE ResumeWaitingParent
  <2>1. CASE WaitingFor(cur) = {}
    <3>1. UNCHANGED db /\ Return
      BY <1>4, <2>1 DEF ResumeWaitingParent
    <3>2. TableInv'
      BY <3>1, SameTable DEF IInv, TableInv
    <3>3. \A t \in Existing' : db'[t].retry >= MaxRetry => db'[t].status = "escalated"
      BY <3>1 DEF IInv, RetryBudgetKept, Existing, Fresh
    <3> QED
      BY <3>1, <3>2, <3>3, ReturnKeepsHeld
  <2>2. CASE WaitingFor(cur) # {}
    <3>1. PICK p \in Task :
            /\ db[p].status = "waiting_subtask" /\ Return
            /\ Save(p, [db[p] EXCEPT !.subtask = NoTask, !.status = "pending"])
      BY <1>4, <2>2 DEF ResumeWaitingParent, WaitingFor
    <3>2. TableInv'
      BY <1>0, <3>1, WakingKeepsTable DEF IInv, TableInv, TypeOK
    <3>3. /\ \A u \in Task \ {p} : db'[u] = db[u]
          /\ db'[p].retry = db[p].retry
      BY <1>0, <3>1 DEF Save, TypeOK, StoreTypeOK, Row
    <3>4. ~(db[p].retry >= MaxRetry)
      BY <1>0, <3>1 DEF IInv, RetryBudgetKept, Existing, Fresh
    <3>5. \A t \in Existing' : db'[t].retry >= MaxRetry => db'[t].status = "escalated"
      BY <3>3, <3>4 DEF IInv, RetryBudgetKept, Existing, Fresh
    <3> QED
      BY <3>1, <3>2, <3>5, ReturnKeepsHeld
  <2> QED
    BY <2>1, <2>2
<1> QED
  BY <1>1, <1>2, <1>3, <1>4

\* The steps of an escalation keep the invariant.
LEMMA EscalationStepInv ==
  IInv /\ TypeOK' /\ (\/ GiveUp \/ SaveEscalated
                     \/ \E kept \in SUBSET Path : Rollback(kept)
                     \/ \E e \in Task, created \in {now, now + 1} :
                          SaveEscalationTask(e, created))
    => IInv'
<1> SUFFICES ASSUME IInv, TypeOK',
                    \/ GiveUp \/ SaveEscalated
                    \/ \E kept \in SUBSET Path : Rollback(kept)
                    \/ \E e \in Task, created \in {now, now + 1} :
                         SaveEscalationTask(e, created)
             PROVE  IInv'
  OBVIOUS
<1> SUFFICES TableInv' /\ HeldInv'
  BY DEF IInv, TableInv, HeldInv
<1> USE DEF Proceed
<1>0. TypeOK /\ TypeOK' /\ mem \in Row /\ mem' \in Row
  BY DEF IInv, TypeOK
<1>1. CASE GiveUp
  <2>1. /\ mem'.status = mem.status /\ mem'.role = mem.role /\ mem'.deps = mem.deps
        /\ mem'.parent = mem.parent /\ mem'.subtask = mem.subtask
    BY <1>0, <1>1 DEF GiveUp, CountRetry, Row
  <2>2. pc = "fail" /\ pc' = "rollback" /\ UNCHANGED <<db, cur>>
    BY <1>1 DEF GiveUp
  <2> QED
    BY <2>1, <2>2, WorkingMove DEF Working
<1>2. CASE \E kept \in SUBSET Path : Rollback(kept)
  <2>1. /\ mem'.status = "escalated" /\ mem'.role = mem.role /\ mem'.deps = mem.deps
        /\ mem'.parent = mem.parent /\ mem'.subtask = mem.subtask
    BY <1>0, <1>2 DEF Rollback, Row
  <2>2. pc = "rollback" /\ pc' = "escalate" /\ UNCHANGED <<db, cur>>
    BY <1>2 DEF Rollback
  <2>3. TableInv'
    BY <2>2, SameTable DEF IInv, TableInv
  <2>4. ActiveTaskHeld'
    BY <2>1, <2>2 DEF IInv, ActiveTaskHeld, StoredStatus, HeldStatus, Working, LoopPoints,
       AllDepsDone
  <2>5. ChildAwaitsParking' /\ HeldRetryBudget' /\ RetryBudgetKept'
    BY <2>2 DEF IInv, ChildAwaitsParking, HeldRetryBudget, RetryBudgetKept, Existing, Fresh
  <2> QED
    BY <2>3, <2>4, <2>5 DEF HeldInv
<1>3. CASE SaveEscalated
  <2>1. mem.status = "escalated"
    BY <1>3 DEF SaveEscalated, IInv, ActiveTaskHeld, HeldStatus, Working, LoopPoints
  <2>2. mem.status = StoredStatus' /\ mem.status = HeldStatus'
    BY <1>3, <2>1 DEF SaveEscalated, StoredStatus, HeldStatus, Working
  <2> QED
    BY <1>0, <1>3, <2>1, <2>2, SaveAndGoOn DEF SaveEscalated, LoopPoints
<1>4. CASE \E e \in Task, created \in {now, now + 1} : SaveEscalationTask(e, created)
  <2>1. PICK e \in Task, created \in {now, now + 1} : SaveEscalationTask(e, created)
    BY <1>4
  <2>2. /\ db'[e].status = "pending" /\ db'[e].retry = 0 /\ db[e].status = "absent"
        /\ \A u \in Task \ {e} : db'[u] = db[u]
    BY <1>0, <2>1 DEF SaveEscalationTask, Save, NewRow, TypeOK, StoreTypeOK, Fresh
  <2>3. TableInv'
    BY <1>0, <2>2, NewRowsKeepTable DEF IInv, TableInv, TypeOK
  <2>4. \A t \in Existing' : db'[t].retry >= MaxRetry => db'[t].status = "escalated"
    BY <2>2, LimitsAssumption DEF IInv, RetryBudgetKept, Existing, Fresh
  <2> QED
    BY <2>1, <2>3, <2>4, ReturnKeepsHeld DEF SaveEscalationTask
<1> QED
  BY <1>1, <1>2, <1>3, <1>4

\* The two saves of a sub-task keep the invariant.
LEMMA SpawnStepInv ==
  IInv /\ TypeOK' /\ (\/ \E c \in Task, role \in Role, created \in {now, now + 1} :
                          SpawnChild(c, role, created)
                     \/ SpawnParent)
    => IInv'
<1> SUFFICES ASSUME IInv, TypeOK',
                    \/ \E c \in Task, role \in Role, created \in {now, now + 1} :
                         SpawnChild(c, role, created)
                    \/ SpawnParent
             PROVE  IInv'
  OBVIOUS
<1> SUFFICES TableInv' /\ HeldInv'
  BY DEF IInv, TableInv, HeldInv
<1> USE DEF Proceed
<1>0. TypeOK /\ TypeOK' /\ mem \in Row /\ mem' \in Row
  BY DEF IInv, TypeOK
<1>1. CASE \E c \in Task, role \in Role, created \in {now, now + 1} :
             SpawnChild(c, role, created)
  <2>1. PICK c \in Task, role \in Role, created \in {now, now + 1} :
          SpawnChild(c, role, created)
    BY <1>1
  <2>2. /\ db'[c].status = "pending" /\ db'[c].retry = 0 /\ db'[c].parent = cur
        /\ db[c].status = "absent" /\ \A u \in Task \ {c} : db'[u] = db[u]
    BY <1>0, <2>1 DEF SpawnChild, Save, NewRow, TypeOK, StoreTypeOK, Fresh
  <2>3. /\ pc = "spawnChild" /\ pc' = "spawnParent" /\ cur' = cur
        /\ mem'.subtask = c /\ mem'.status = "waiting_subtask" /\ mem'.retry = mem.retry
        /\ mem'.role = mem.role /\ mem'.deps = mem.deps /\ mem'.parent = mem.parent
    BY <1>0, <2>1 DEF SpawnChild, Row
  <2>4. TableInv'
    BY <1>0, <2>2, NewRowsKeepTable DEF IInv, TableInv, TypeOK
  <2>5. /\ cur \in Task /\ db[cur].status = "in_progress" /\ AllDepsDone(mem.deps)
        /\ mem.role = db[cur].role /\ mem.deps = db[cur].deps /\ mem.parent = db[cur].parent
    BY <2>3 DEF IInv, ActiveTaskHeld, StoredStatus, Working, LoopPoints
  <2>6. c # cur /\ db'[cur] = db[cur]
    BY <2>2, <2>5
  <2>7. AllDepsDone(mem.deps)'
    BY <2>2, <2>3, <2>5 DEF AllDepsDone
  <2>8. ActiveTaskHeld'
    BY <2>3, <2>5, <2>6, <2>7 DEF ActiveTaskHeld, StoredStatus, HeldStatus, Working, LoopPoints
  <2>9. ChildAwaitsParking'
    <3>1. \A p \in Task : db[p].status = "waiting_subtask" => db[p].subtask # c
      BY <2>2 DEF IInv, ParkedTaskHasItsSubtask, Existing, Fresh
    <3>2. \A p \in Task : db'[p].status = "waiting_subtask" => db'[p].subtask # c
      BY <2>2, <3>1
    <3>3. WaitingFor(c)' = {}
      BY <3>2 DEF WaitingFor
    <3>4. WaitingFor(mem.subtask)' = {}
      BY <2>3, <3>2 DEF WaitingFor
    <3> QED
      BY <2>1, <2>2, <2>3, <2>6, <3>4 DEF ChildAwaitsParking, Existing, Fresh
  <2>10. HeldRetryBudget' /\ RetryBudgetKept'
    BY <2>2, <2>3, LimitsAssumption DEF IInv, HeldRetryBudget, RetryBudgetKept, LoopPoints,
       Existing, Fresh
  <2> QED
    BY <2>4, <2>8, <2>9, <2>10 DEF HeldInv
<1>2. CASE SpawnParent
  <2>1. pc = "spawnParent" /\ Save(cur, mem) /\ Return
    BY <1>2 DEF SpawnParent
  <2>2. /\ cur \in Task /\ mem.deps = db[cur].deps /\ mem.parent = db[cur].parent
        /\ db[cur].status = "in_progress" /\ mem.status = "waiting_subtask"
        /\ AllDepsDone(mem.deps)
    BY <2>1 DEF IInv, ActiveTaskHeld, StoredStatus, HeldStatus, Working, LoopPoints
  <2>3. /\ mem.subtask \in Existing \ {cur} /\ db[mem.subtask].parent = cur
        /\ WaitingFor(mem.subtask) = {}
    BY <2>1 DEF IInv, ChildAwaitsParking
  <2>4. TableInv'
    BY <1>0, <2>1, <2>2, <2>3, ParkingKeepsTable DEF IInv, TableInv, TypeOK
  <2>5. mem.retry < MaxRetry /\ mem.retry \in Nat
    BY <1>0, <2>1 DEF IInv, HeldRetryBudget, LoopPoints, Row
  <2>6. /\ db'[cur].retry = mem.retry /\ db'[cur].status = "waiting_subtask"
        /\ \A u \in Task \ {cur} : db'[u] = db[u]
    BY <1>0, <2>1, <2>2 DEF Save, TypeOK, StoreTypeOK
  <2>7. \A t \in Existing' : db'[t].retry >= MaxRetry => db'[t].status = "escalated"
    BY <2>5, <2>6, LimitsAssumption DEF IInv, RetryBudgetKept, Existing, Fresh
  <2> QED
    BY <2>1, <2>4, <2>7, ReturnKeepsHeld
<1> QED
  BY <1>1, <1>2

\* A start, a failed save, a cancellation and a crash keep the invariant.
LEMMA EnvironmentStepInv == IInv /\ TypeOK' /\ (Start \/ SaveFails \/ Cancel \/ Crash) => IInv'
<1> SUFFICES ASSUME IInv, TypeOK', Start \/ SaveFails \/ Cancel \/ Crash PROVE IInv'
  OBVIOUS
<1>0. UNCHANGED db
  BY DEF Start, SaveFails, Cancel, Crash
<1>1. TableInv'
  BY <1>0, SameTable DEF IInv, TableInv
<1>2. RetryBudgetKept' /\ HeldRetryBudget' /\ ChildAwaitsParking' /\ ActiveTaskHeld'
  <2>1. CASE Start
    BY <2>1 DEF Start, IInv, RetryBudgetKept, HeldRetryBudget, ChildAwaitsParking,
       ActiveTaskHeld, LoopPoints, Existing, Fresh
  <2>2. CASE SaveFails
    BY <2>2 DEF SaveFails, Return, IInv, RetryBudgetKept, HeldRetryBudget, ChildAwaitsParking,
       ActiveTaskHeld, LoopPoints, Existing, Fresh
  <2>3. CASE Cancel
    BY <2>3 DEF Cancel, IInv, RetryBudgetKept, HeldRetryBudget, ChildAwaitsParking,
       ActiveTaskHeld, LoopPoints, Existing, Fresh, StoredStatus, HeldStatus, AllDepsDone,
       WaitingFor
  <2>4. CASE Crash
    BY <2>4 DEF Crash, IInv, RetryBudgetKept, HeldRetryBudget, ChildAwaitsParking,
       ActiveTaskHeld, LoopPoints, Existing, Fresh
  <2> QED
    BY <2>1, <2>2, <2>3, <2>4
<1> QED
  BY <1>1, <1>2 DEF IInv, TableInv

\* Every step keeps the invariant.
LEMMA StepIInv == IInv /\ [Next]_vars => IInv'
<1> SUFFICES ASSUME IInv, [Next]_vars PROVE IInv'
  OBVIOUS
<1>0. TypeOK'
  BY StepTypeOK DEF IInv
<1>1. CASE PipelineStep
  BY <1>0, <1>1, RunStepInv, OutputStepInv, ReviewStepInv, QueueingStepInv,
     EscalationStepInv, SpawnStepInv DEF PipelineStep, OutcomeStep
<1>2. CASE Start \/ SaveFails \/ Cancel \/ Crash
  BY <1>0, <1>2, EnvironmentStepInv
<1>3. CASE UNCHANGED vars
  <2>1. UNCHANGED <<db, pc, cur, mem>>
    BY <1>3 DEF vars
  <2>2. TableInv'
    BY <2>1, SameTable DEF IInv, TableInv
  <2>3. RetryBudgetKept' /\ HeldRetryBudget' /\ ChildAwaitsParking' /\ ActiveTaskHeld'
    BY <2>1 DEF IInv, RetryBudgetKept, HeldRetryBudget, ChildAwaitsParking, ActiveTaskHeld,
       LoopPoints, Existing, Fresh, StoredStatus, HeldStatus, AllDepsDone, WaitingFor
  <2> QED
    BY <1>0, <2>2, <2>3 DEF IInv, TableInv
<1> QED
  BY <1>1, <1>2, <1>3 DEF Next

\* The strengthened invariant of the pipeline.
THEOREM InductiveInvariant == Spec => []IInv
<1>1. Init => IInv
  BY InitIInv
<1>2. IInv /\ [Next]_vars => IInv'
  BY StepIInv
<1> QED
  BY <1>1, <1>2, PTL DEF Spec

\* A task that was started has only done dependencies, whatever fails or crashes.
THEOREM StartedTasksHaveTheirDependencies == Spec => []DependenciesRespected
<1>1. IInv => DependenciesRespected
  BY DEF IInv
<1> QED
  BY <1>1, InductiveInvariant, PTL

\* A parked task always has the sub-task it waits for, and is the only one to.
THEOREM ParkedTasksHaveTheirSubtask == Spec => []ParkedTaskHasItsSubtask
<1>1. IInv => ParkedTaskHasItsSubtask
  BY DEF IInv
<1> QED
  BY <1>1, InductiveInvariant, PTL

\* No attempt is made, and no task queued, on a spent retry budget.
THEOREM RetriesAreBounded == Spec => []RetryBudgetKept
<1>1. IInv => RetryBudgetKept
  BY DEF IInv
<1> QED
  BY <1>1, InductiveInvariant, PTL

-----------------------------------------------------------------------------
(* Pipeline implements TaskLifecycle *)

\* What TaskLifecycle sees of the table.
SeenStatus   == [t \in Task |-> db[t].status]
SeenDeps     == [t \in Task |-> db[t].deps]
SeenWaitsFor == [t \in Task |-> db[t].subtask]

\* No row has been written for a fresh id: the column the view shows is still NULL.
FreshRowsBlank == \A t \in Fresh : db[t].subtask = NoTask

LifecycleStep == [Lifecycle!Next]_(Lifecycle!vars)

\* A step that saves nothing is a stutter.
LEMMA NoSaveRefines ==
  ASSUME FreshRowsBlank, UNCHANGED db
  PROVE  LifecycleStep /\ FreshRowsBlank'
  BY DEF FreshRowsBlank, Fresh, LifecycleStep, Lifecycle!vars

\* A table in which only the row of t is new is seen to differ in t only.
LEMMA SaveIsSeen ==
  ASSUME StoreTypeOK, NEW t \in Task, NEW row \in Row, Save(t, row)
  PROVE  /\ SeenStatus' = [SeenStatus EXCEPT ![t] = row.status]
         /\ SeenDeps' = [SeenDeps EXCEPT ![t] = row.deps]
         /\ SeenWaitsFor' = [SeenWaitsFor EXCEPT ![t] = row.subtask]
         /\ FreshRowsBlank /\ row.status # "absent" => FreshRowsBlank'
<1>1. db' \in [Task -> Row] /\ db'[t] = row /\ \A u \in Task \ {t} : db'[u] = db[u]
  BY SaveType DEF Save, StoreTypeOK
<1> QED
  BY <1>1 DEF SeenStatus, SeenDeps, SeenWaitsFor, FreshRowsBlank, Fresh

\* A move of one task is a step of the life cycle.
LEMMA MoveIsStep ==
  ASSUME NEW t \in Task,
         \/ Lifecycle!Start(t) \/ Lifecycle!Submit(t) \/ Lifecycle!Finish(t)
         \/ Lifecycle!Requeue(t) \/ Lifecycle!Escalate(t) \/ Lifecycle!Wake(t)
  PROVE  LifecycleStep
<1>1. Lifecycle!Next
  BY Zenon DEF Lifecycle!Next
<1> QED
  BY <1>1 DEF LifecycleStep

\* The moves of the active task that leave its dependencies and its sub-task alone.
OwnMove(from, to) ==
  \/ to = from
  \/ from = "pending" /\ to = "in_progress"
  \/ from = "in_progress" /\ to \in {"pending_review", "done", "pending", "escalated"}
  \/ from = "pending_review" /\ to \in {"done", "pending"}

\* A save of the task in hand is the move its status makes.
LEMMA OwnSaveRefines ==
  ASSUME IInv, FreshRowsBlank, pc \notin LoopPoints, NEW row \in Row, Save(cur, row),
         row.deps = mem.deps, row.subtask = db[cur].subtask, row.status # "absent",
         OwnMove(StoredStatus, row.status)
  PROVE  LifecycleStep /\ FreshRowsBlank'
<1>1. /\ cur \in Task /\ db[cur].status = StoredStatus
      /\ row.deps = db[cur].deps /\ AllDepsDone(db[cur].deps)
  BY DEF IInv, ActiveTaskHeld
<1> PICK t \in Task : t = cur
  BY <1>1
<1>2. /\ SeenStatus' = [SeenStatus EXCEPT ![t] = row.status]
      /\ SeenDeps' = SeenDeps /\ SeenWaitsFor' = SeenWaitsFor /\ FreshRowsBlank'
  <2>1. /\ SeenStatus' = [SeenStatus EXCEPT ![cur] = row.status]
        /\ SeenDeps' = [SeenDeps EXCEPT ![cur] = row.deps]
        /\ SeenWaitsFor' = [SeenWaitsFor EXCEPT ![cur] = row.subtask]
        /\ FreshRowsBlank'
    BY <1>1, SaveIsSeen DEF IInv, TypeOK
  <2> QED
    BY <1>1, <2>1 DEF SeenDeps, SeenWaitsFor
<1>3. CASE row.status = StoredStatus
  <2>1. SeenStatus' = SeenStatus
    BY <1>1, <1>2, <1>3 DEF SeenStatus
  <2> QED
    BY <1>2, <2>1 DEF LifecycleStep, Lifecycle!vars, SeenStatus, SeenDeps, SeenWaitsFor
<1>4. CASE StoredStatus = "pending" /\ row.status = "in_progress"
  <2>1. Lifecycle!Start(t)
    BY <1>1, <1>2, <1>4 DEF Lifecycle!Start, Lifecycle!Move, Lifecycle!IsDone, AllDepsDone,
       SeenStatus, SeenDeps, SeenWaitsFor
  <2> QED
    BY <1>1, <1>2, <2>1, MoveIsStep
<1>5. CASE StoredStatus = "in_progress" /\ row.status = "pending_review"
  <2>1. Lifecycle!Submit(t)
    BY <1>1, <1>2, <1>5 DEF Lifecycle!Submit, Lifecycle!Move, SeenStatus, SeenDeps, SeenWaitsFor
  <2> QED
    BY <1>1, <1>2, <2>1, MoveIsStep
<1>6. CASE StoredStatus \in {"in_progress", "pending_review"} /\ row.status = "done"
  <2>1. Lifecycle!Finish(t)
    BY <1>1, <1>2, <1>6 DEF Lifecycle!Finish, Lifecycle!Move, SeenStatus, SeenDeps, SeenWaitsFor
  <2> QED
    BY <1>1, <1>2, <2>1, MoveIsStep
<1>7. CASE StoredStatus \in {"in_progress", "pending_review"} /\ row.status = "pending"
  <2>1. Lifecycle!Requeue(t)
    BY <1>1, <1>2, <1>7 DEF Lifecycle!Requeue, Lifecycle!Move, SeenStatus, SeenDeps, SeenWaitsFor
  <2> QED
    BY <1>1, <1>2, <2>1, MoveIsStep
<1>8. CASE StoredStatus = "in_progress" /\ row.status = "escalated"
  <2>1. Lifecycle!Escalate(t)
    BY <1>1, <1>2, <1>8 DEF Lifecycle!Escalate, Lifecycle!Move, SeenStatus, SeenDeps,
       SeenWaitsFor
  <2> QED
    BY <1>1, <1>2, <2>1, MoveIsStep
<1> QED
  BY <1>3, <1>4, <1>5, <1>6, <1>7, <1>8 DEF OwnMove

\* Rows made for fresh ids, with dependencies on rows there were or on no row.
LEMMA NewRowsRefine ==
  ASSUME StoreTypeOK, StoreTypeOK', FreshRowsBlank, NEW new \in SUBSET Fresh,
         \A t \in Task \ new : db'[t] = db[t],
         \A t \in new : /\ db'[t].status = "pending" /\ db'[t].subtask = NoTask
                        /\ db'[t].deps \subseteq Existing \cup {UnknownId}
  PROVE  LifecycleStep /\ FreshRowsBlank'
<1>1. \A t \in Task : db'[t].subtask = db[t].subtask
  BY DEF Fresh, FreshRowsBlank
<1>2. new \in SUBSET Task /\ \A t \in new : db[t].status = "absent"
  BY DEF Fresh
<1>3. Existing = {t \in Task : db[t].status # "absent"}
  BY DEF Existing, Fresh
<1>4. SeenStatus' = [t \in Task |-> IF t \in new THEN "pending" ELSE SeenStatus[t]]
  BY <1>2 DEF SeenStatus
<1>5. SeenDeps' = [t \in Task |-> IF t \in new THEN SeenDeps'[t] ELSE SeenDeps[t]]
  BY <1>2 DEF SeenDeps
<1>6. SeenWaitsFor' = SeenWaitsFor
  BY <1>1 DEF SeenWaitsFor
<1>7. Lifecycle!Created = Existing
  BY <1>3 DEF Lifecycle!Created
<1>8. \A t \in new : SeenStatus[t] = "absent" /\ SeenDeps'[t] \subseteq Existing \cup {UnknownId}
  BY <1>2 DEF SeenStatus, SeenDeps
<1>9. Lifecycle!Create(new)
  BY <1>4, <1>5, <1>6, <1>7, <1>8 DEF Lifecycle!Create, SeenStatus, SeenDeps, SeenWaitsFor
<1>10. FreshRowsBlank'
  BY DEF FreshRowsBlank, Fresh
<1> QED
  BY <1>2, <1>9, <1>10 DEF LifecycleStep, Lifecycle!Next

\* The goroutine's own steps make tasks and move none.
LEMMA RunStepRefines ==
  ASSUME IInv, TypeOK', FreshRowsBlank, RunStep
  PROVE  LifecycleStep /\ FreshRowsBlank'
<1>1. CASE UNCHANGED db
  BY <1>1, NoSaveRefines
<1>2. CASE GenerateSomeTasks
  <2>1. PICK batch \in SUBSET Fresh : \E roles \in [batch -> Role],
               deps \in [batch -> SUBSET (Existing \cup {UnknownId})],
               created \in {now, now + 1} : GenerateTasks(batch, roles, deps, created)
    BY <1>2 DEF GenerateSomeTasks
  <2>2. PICK roles \in [batch -> Role],
             deps \in [batch -> SUBSET (Existing \cup {UnknownId})],
             created \in {now, now + 1} : GenerateTasks(batch, roles, deps, created)
    BY <2>1
  <2>3. \A t \in batch : /\ db'[t] = NewRow(roles[t], deps[t], NoTask, created)
                         /\ deps[t] \subseteq Existing \cup {UnknownId}
    BY <2>2 DEF GenerateTasks, Fresh
  <2>4. \A t \in batch : /\ db'[t].status = "pending" /\ db'[t].subtask = NoTask
                         /\ db'[t].deps \subseteq Existing \cup {UnknownId}
    <3> TAKE t \in batch
    <3> DEFINE row == NewRow(roles[t], deps[t], NoTask, created)
    <3>1. row.status = "pending" /\ row.subtask = NoTask /\ row.deps = deps[t]
      BY DEF NewRow
    <3> QED
      BY <2>3, <3>1
  <2>5. \A t \in Task \ batch : db'[t] = db[t]
    BY <2>2 DEF GenerateTasks
  <2> QED
    BY <2>4, <2>5, NewRowsRefine DEF IInv, TypeOK
<1> QED
  BY <1>1, <1>2 DEF RunStep, LoopTop, NothingReady, FetchFails, Wake, FetchTask

\* A claim starts the task; the saves of a second context and of feedback are stutters.
LEMMA OutputStepRefines ==
  ASSUME IInv, FreshRowsBlank, OutputStep
  PROVE  LifecycleStep /\ FreshRowsBlank'
<1>1. CASE UNCHANGED db
  BY <1>1, NoSaveRefines
<1>2. CASE Claim \/ InjectContext
  <2>1. Save(cur, mem) /\ pc \in {"claim", "context"}
    BY <1>2 DEF Claim, InjectContext
  <2>2. pc \notin LoopPoints \cup {"spawnParent"} /\ mem \in Row
    BY <2>1 DEF LoopPoints, IInv, TypeOK
  <2>3. mem.status = "in_progress" /\ mem.subtask = db[cur].subtask
    BY <2>1, <2>2 DEF IInv, ActiveTaskHeld, HeldStatus, Working
  <2>4. OwnMove(StoredStatus, mem.status)
    BY <2>1, <2>3 DEF OwnMove, StoredStatus, Working
  <2> QED
    BY <2>1, <2>2, <2>3, <2>4, OwnSaveRefines
<1> QED
  BY <1>1, <1>2 DEF OutputStep, RoleFails, RoleWantsSubTask, RoleSubmits, WriteFilesFails,
     ExecPasses, ExecFails

\* The saves of the reviews are moves, or change no status.
LEMMA ReviewStepRefines ==
  ASSUME IInv, TypeOK', FreshRowsBlank, ReviewStep
  PROVE  LifecycleStep /\ FreshRowsBlank'
<1>1. CASE UNCHANGED db
  BY <1>1, NoSaveRefines
<1>2. CASE Rework
  <2>1. Save(cur, mem) /\ pc = "rework" /\ pc \notin LoopPoints /\ mem \in Row
    BY <1>2 DEF Rework, LoopPoints, IInv, TypeOK
  <2>2. mem.status = "in_progress" /\ mem.subtask = db[cur].subtask
    BY <2>1 DEF IInv, ActiveTaskHeld, HeldStatus, Working
  <2>3. OwnMove(StoredStatus, mem.status)
    BY <2>1, <2>2 DEF OwnMove, StoredStatus, Working
  <2> QED
    BY <2>1, <2>2, <2>3, OwnSaveRefines
<1>3. CASE AutoApprove \/ SubmitForReview
  <2>1. PICK status \in {"done", "pending_review"} :
          /\ pc = "submit" /\ mem' = [mem EXCEPT !.status = status]
          /\ Save(cur, mem')
    BY <1>3 DEF AutoApprove, SubmitForReview
  <2>2. mem \in Row /\ mem' \in Row /\ pc \notin LoopPoints
    BY <2>1 DEF LoopPoints, IInv, TypeOK
  <2>3. /\ mem'.status = status /\ mem'.deps = mem.deps /\ mem'.subtask = mem.subtask
    BY <2>1, <2>2 DEF Row
  <2>4. mem.subtask = db[cur].subtask
    BY <2>1, <2>2 DEF IInv, ActiveTaskHeld
  <2>5. OwnMove(StoredStatus, status)
    BY <2>1 DEF OwnMove, StoredStatus, Working
  <2> QED
    BY <2>1, <2>2, <2>3, <2>4, <2>5, OwnSaveRefines
<1> QED
  BY <1>1, <1>2, <1>3 DEF ReviewStep, CodeReviewPasses, SecurityReviewPasses, PMReviewPasses,
     CodeReviewWantsChanges, SecurityReviewWantsChanges, PMRejects

\* The saves that end a run of the active task, or its escalation.
LEMMA EndingStepRefines ==
  ASSUME IInv, TypeOK', FreshRowsBlank, Approve \/ Reject \/ Requeue \/ SaveEscalated
  PROVE  LifecycleStep /\ FreshRowsBlank'
<1>0. mem \in Row /\ mem' \in Row
  BY DEF IInv, TypeOK
<1>1. PICK row : /\ Save(cur, row) /\ pc \in {"approve", "reject", "fail", "escalate"}
                 /\ row.deps = mem.deps /\ row.subtask = mem.subtask
                 /\ row.status = CASE pc = "approve"  -> "done"
                                   [] pc = "escalate" -> "escalated"
                                   [] OTHER           -> "pending"
                 /\ row \in Row
  <2>1. CASE Approve
    BY <1>0, <2>1 DEF Approve, Row
  <2>2. CASE Reject
    <3> DEFINE row == [mem EXCEPT !.retry = 0, !.status = "pending"]
    <3>1. /\ row \in Row /\ row.deps = mem.deps /\ row.subtask = mem.subtask
          /\ row.status = "pending"
      BY <1>0 DEF Row, Status
    <3> QED
      BY <2>2, <3>1 DEF Reject
  <2>3. CASE Requeue
    <3> DEFINE counted == [mem EXCEPT !.retry = @ + 1]
               row == [mem EXCEPT !.retry = @ + 1, !.status = "pending"]
    <3>1. counted \in Row
      BY <1>0 DEF Row
    <3>2. [counted EXCEPT !.status = "pending"] \in Row
      BY <3>1 DEF Row, Status
    <3>3. row = [counted EXCEPT !.status = "pending"]
      BY <1>0 DEF Row
    <3>4. /\ row \in Row /\ row.deps = mem.deps /\ row.subtask = mem.subtask
          /\ row.status = "pending"
      BY <1>0, <3>2, <3>3 DEF Row
    <3> QED
      BY <2>3, <3>4 DEF Requeue
  <2>4. CASE SaveEscalated
    <3>1. mem.status = "escalated"
      BY <2>4 DEF SaveEscalated, IInv, ActiveTaskHeld, HeldStatus, Working, LoopPoints
    <3> QED
      BY <1>0, <2>4, <3>1 DEF SaveEscalated
  <2> QED
    BY <2>1, <2>2, <2>3, <2>4
<1>2. pc \notin LoopPoints /\ mem.subtask = db[cur].subtask
  BY <1>1 DEF IInv, ActiveTaskHeld, LoopPoints
<1>3. OwnMove(StoredStatus, row.status) /\ row.status # "absent"
  BY <1>1 DEF OwnMove, StoredStatus, Working
<1> QED
  BY <1>1, <1>2, <1>3, OwnSaveRefines

\* An escalation task and a sub-task are single new rows without dependencies.
LEMMA OneNewRowRefines ==
  ASSUME StoreTypeOK, StoreTypeOK', FreshRowsBlank, NEW t \in Fresh, NEW role, NEW parent,
         NEW created, Save(t, NewRow(role, {}, parent, created))
  PROVE  LifecycleStep /\ FreshRowsBlank'
<1> DEFINE new == {t}
<1>1. /\ t \in Task /\ new \in SUBSET Fresh /\ \A u \in Task \ new : db'[u] = db[u]
      /\ db'[t].status = "pending" /\ db'[t].subtask = NoTask /\ db'[t].deps = {}
  BY DEF Save, NewRow, StoreTypeOK, Fresh
<1>2. \A u \in new : /\ db'[u].status = "pending" /\ db'[u].subtask = NoTask
                     /\ db'[u].deps \subseteq Existing \cup {UnknownId}
  BY <1>1
<1> HIDE DEF new
<1> QED
  BY <1>1, <1>2, NewRowsRefine

\* The second save of spawnSubTask parks the active task behind its child.
LEMMA SpawnParentRefines ==
  ASSUME IInv, FreshRowsBlank, SpawnParent
  PROVE  LifecycleStep /\ FreshRowsBlank'
<1>1. /\ pc = "spawnParent" /\ pc \notin LoopPoints /\ Save(cur, mem) /\ mem \in Row
  BY DEF SpawnParent, LoopPoints, IInv, TypeOK
<1>2. /\ cur \in Task /\ db[cur].status = "in_progress" /\ mem.deps = db[cur].deps
      /\ mem.status = "waiting_subtask" /\ mem.subtask \in Existing \ {cur}
  BY <1>1 DEF IInv, ActiveTaskHeld, ChildAwaitsParking, StoredStatus, HeldStatus, Working
<1> PICK t \in Task : t = cur
  BY <1>2
<1> PICK c \in Task : c = mem.subtask
  BY <1>2 DEF Existing
<1>3. /\ SeenStatus' = [SeenStatus EXCEPT ![t] = "waiting_subtask"]
      /\ SeenDeps' = SeenDeps /\ SeenWaitsFor' = [SeenWaitsFor EXCEPT ![t] = c]
      /\ FreshRowsBlank'
  <2>1. /\ SeenStatus' = [SeenStatus EXCEPT ![t] = mem.status]
        /\ SeenDeps' = [SeenDeps EXCEPT ![t] = mem.deps]
        /\ SeenWaitsFor' = [SeenWaitsFor EXCEPT ![t] = mem.subtask]
        /\ FreshRowsBlank'
    BY <1>1, <1>2, SaveIsSeen DEF IInv, TypeOK
  <2> QED
    BY <1>2, <2>1 DEF SeenDeps
<1>4. c # t /\ db[c].status # "absent"
  BY <1>2 DEF Existing, Fresh
<1>5. Lifecycle!Park(t, c)
  BY <1>2, <1>3, <1>4 DEF Lifecycle!Park, Lifecycle!Move, Lifecycle!Created, SeenStatus,
     SeenDeps, SeenWaitsFor
<1>6. Lifecycle!Next
  BY <1>5, Zenon DEF Lifecycle!Next
<1> QED
  BY <1>3, <1>6 DEF LifecycleStep

\* resumeWaitingParent wakes the task that waits for the one just done, or nobody.
LEMMA ResumeRefines ==
  ASSUME IInv, FreshRowsBlank, ResumeWaitingParent
  PROVE  LifecycleStep /\ FreshRowsBlank'
<1>1. CASE WaitingFor(cur) = {}
  BY <1>1, NoSaveRefines DEF ResumeWaitingParent
<1>2. CASE WaitingFor(cur) # {}
  <2>1. PICK p \in Task :
          /\ db[p].status = "waiting_subtask" /\ db[p].subtask = cur
          /\ Save(p, [db[p] EXCEPT !.subtask = NoTask, !.status = "pending"])
    BY <1>2 DEF ResumeWaitingParent, WaitingFor
  <2> DEFINE row == [db[p] EXCEPT !.subtask = NoTask, !.status = "pending"]
  <2>2. cur \in Task /\ db[cur].status = "done"
    BY DEF ResumeWaitingParent, IInv, ActiveTaskHeld, StoredStatus, Working, LoopPoints
  <2>3. /\ row \in Row /\ row.status = "pending" /\ row.deps = db[p].deps
        /\ row.subtask = NoTask
    BY DEF IInv, TypeOK, StoreTypeOK, Row, Status
  <2>4. /\ SeenStatus' = [SeenStatus EXCEPT ![p] = "pending"]
        /\ SeenDeps' = SeenDeps /\ SeenWaitsFor' = [SeenWaitsFor EXCEPT ![p] = NoTask]
        /\ FreshRowsBlank'
    <3> HIDE DEF row
    <3>1. Save(p, row)
      BY <2>1 DEF row
    <3>2. /\ SeenStatus' = [SeenStatus EXCEPT ![p] = row.status]
          /\ SeenDeps' = [SeenDeps EXCEPT ![p] = row.deps]
          /\ SeenWaitsFor' = [SeenWaitsFor EXCEPT ![p] = row.subtask]
          /\ FreshRowsBlank'
      BY <2>3, <3>1, SaveIsSeen DEF IInv, TypeOK
    <3> QED
      BY <2>3, <3>2 DEF SeenDeps
  <2>5. Lifecycle!Wake(p)
    BY <2>1, <2>2, <2>4 DEF Lifecycle!Wake, Lifecycle!Move, Lifecycle!IsDone, SeenStatus,
       SeenDeps, SeenWaitsFor
  <2> QED
    BY <2>4, <2>5, MoveIsStep
<1> QED
  BY <1>1, <1>2

\* The saves that settle a task are moves.
LEMMA OutcomeStepRefines ==
  ASSUME IInv, TypeOK', FreshRowsBlank, OutcomeStep
  PROVE  LifecycleStep /\ FreshRowsBlank'
<1>1. CASE \E e \in Task, created \in {now, now + 1} : SaveEscalationTask(e, created)
  BY <1>1, OneNewRowRefines DEF SaveEscalationTask, IInv, TypeOK
<1>2. CASE \E c \in Task, role \in Role, created \in {now, now + 1} :
             SpawnChild(c, role, created)
  BY <1>2, OneNewRowRefines DEF SpawnChild, IInv, TypeOK
<1>3. CASE GiveUp \/ \E kept \in SUBSET Path : Rollback(kept)
  BY <1>3, NoSaveRefines DEF GiveUp, Rollback
<1> QED
  BY <1>1, <1>2, <1>3, EndingStepRefines, SpawnParentRefines, ResumeRefines DEF OutcomeStep

\* Every step of the pipeline, its crashes and its failures is a step of the life of one
\* task, the making of a batch, or nothing.
LEMMA StepRefines ==
  ASSUME IInv, FreshRowsBlank, [Next]_vars
  PROVE  LifecycleStep /\ FreshRowsBlank'
<1>1. TypeOK'
  BY StepTypeOK DEF IInv
<1>2. CASE PipelineStep
  BY <1>1, <1>2, RunStepRefines, OutputStepRefines, ReviewStepRefines, OutcomeStepRefines
     DEF PipelineStep
<1>3. CASE Start \/ SaveFails \/ Cancel \/ Crash \/ UNCHANGED vars
  BY <1>3, NoSaveRefines DEF Start, SaveFails, Cancel, Crash, vars
<1> QED
  BY <1>2, <1>3 DEF Next

\* The empty table is where the life cycle begins.
LEMMA InitRefines == Init => Lifecycle!Init /\ FreshRowsBlank
<1>1. NoRow.status = "absent" /\ NoRow.deps = {} /\ NoRow.subtask = NoTask
  BY DEF NoRow, NewRow
<1> QED
  BY <1>1 DEF Init, StoreInit, Lifecycle!Init, FreshRowsBlank, Fresh

\* The table keeps the promise of TaskLifecycle, with crashes, failed saves and
\* cancellations in between: tasks start only behind done dependencies, wake only behind
\* a done sub-task, and never leave done or escalated.
THEOREM PipelineKeepsLifecycle == Spec => KeepsLifecycle
<1>1. Init => IInv
  BY InitIInv
<1>2. IInv /\ [Next]_vars => IInv'
  BY StepIInv
<1>3. IInv /\ FreshRowsBlank /\ [Next]_vars
        => FreshRowsBlank' /\ [Lifecycle!Next]_(Lifecycle!vars)
  BY StepRefines DEF LifecycleStep
<1> QED
  BY <1>1, <1>2, <1>3, InitRefines, PTL DEF Spec, KeepsLifecycle, Lifecycle!Spec

-----------------------------------------------------------------------------
(* Without crashes and failed saves *)

\* The sub-task a task is about to wait for has not been worked on yet.
ChildNotDone == pc = "spawnParent" => db[mem.subtask].status # "done"

CalmInv == NothingStranded /\ NoLostWakeup /\ EscalationReachesPM /\ ChildNotDone

\* Nothing is saved, and the goroutine was not about to report or to wake anybody.
LEMMA NoSaveKeepsCalm ==
  ASSUME IInv, CalmInv, UNCHANGED db, pc \notin {"escalateTask", "resume"},
         cur' = cur \/ cur = NoTask, pc' # "spawnParent"
  PROVE  CalmInv'
<1>1. NothingStranded'
  BY NoTaskAssumption DEF CalmInv, NothingStranded
<1>2. NoLostWakeup'
  BY DEF CalmInv, NoLostWakeup
<1>3. EscalationReachesPM'
  BY DEF CalmInv, EscalationReachesPM, Existing, Fresh
<1>4. ChildNotDone'
  BY DEF ChildNotDone
<1> QED
  BY <1>1, <1>2, <1>3, <1>4 DEF CalmInv

\* The active task is saved: it may be finished only on the way to waking its parent and
\* escalated only on the way to reporting it, and is not let go of in flight.
LEMMA OwnSaveKeepsCalm ==
  ASSUME IInv, CalmInv, NEW row \in Row, Save(cur, row),
         pc \notin LoopPoints \cup {"escalateTask", "resume", "spawnParent"},
         pc' # "spawnParent", row.role = mem.role, row.parent = mem.parent,
         row.status \notin {"absent", "waiting_subtask"},
         row.status = "done" => pc' = "resume" /\ cur' = cur,
         row.status = "escalated" => pc' = "escalateTask" /\ cur' = cur,
         cur' = cur \/ row.status \notin InFlight
  PROVE  CalmInv'
<1>1. /\ cur \in Task /\ mem.role = db[cur].role /\ mem.parent = db[cur].parent
      /\ db[cur].status = StoredStatus
  BY DEF IInv, ActiveTaskHeld
<1>2. db' \in [Task -> Row] /\ db'[cur] = row /\ \A u \in Task \ {cur} : db'[u] = db[u]
  BY <1>1, SaveType DEF Save, IInv, TypeOK, StoreTypeOK
<1>3. db[cur].status \in {"pending", "in_progress", "pending_review"}
  BY <1>1 DEF StoredStatus, Working, IInv, TypeOK, Location, LoopPoints, CallPoints, SavePoints
<1>4. NothingStranded'
  BY <1>1, <1>2 DEF CalmInv, NothingStranded
<1>5. NoLostWakeup'
  <2> SUFFICES ASSUME NEW p \in Task, db'[p].status = "waiting_subtask",
                      db'[db'[p].subtask].status = "done"
               PROVE  pc' = "resume" /\ cur' = db'[p].subtask
    BY DEF NoLostWakeup
  <2>1. db'[p] = db[p] /\ db[p].subtask \in Task
    BY <1>2 DEF IInv, ParkedTaskHasItsSubtask, Existing
  <2>2. CASE db[p].subtask = cur
    BY <1>2, <2>1, <2>2
  <2>3. CASE db[p].subtask # cur
    BY <1>2, <2>1, <2>3 DEF CalmInv, NoLostWakeup
  <2> QED
    BY <2>2, <2>3
<1>6. EscalationReachesPM'
  <2>1. \A e \in Existing : /\ e \in Existing' /\ db'[e].parent = db[e].parent
                            /\ db'[e].role = db[e].role
    BY <1>1, <1>2 DEF Existing, Fresh
  <2>2. \A t \in Task \ {cur} : db'[t].status = "escalated" =>
          \E e \in Existing : db[e].parent = t /\ db[e].role = "pm"
    BY <1>2 DEF CalmInv, EscalationReachesPM
  <2>3. db'[cur].status = "escalated" => pc' = "escalateTask" /\ cur' = cur
    BY <1>2
  <2> QED
    BY <2>1, <2>2, <2>3 DEF EscalationReachesPM
<1>7. ChildNotDone'
  BY DEF ChildNotDone
<1> QED
  BY <1>4, <1>5, <1>6, <1>7 DEF CalmInv

\* What rows for fresh ids change: nothing about the rows there were.
LEMMA NewRowsKeepCalm ==
  ASSUME IInv, StoreTypeOK', CalmInv, pc # "resume",
         \A t \in Task : db'[t] # db[t] =>
            db[t].status = "absent" /\ db'[t].status = "pending",
         pc = "escalateTask" =>
            \E e \in Existing' : db'[e].parent = cur /\ db'[e].role = "pm",
         cur' = cur \/ cur = NoTask \/ pc = "escalateTask",
         pc' = "spawnParent" => db'[mem'.subtask].status # "done"
  PROVE  CalmInv'
<1> USE DEF IInv, TypeOK, StoreTypeOK, CalmInv
<1>1. NothingStranded'
  <2>1. pc = "escalateTask" => db[cur].status = "escalated"
    BY DEF ActiveTaskHeld, StoredStatus, Working, LoopPoints
  <2> SUFFICES ASSUME NEW t \in Task, db'[t].status \in InFlight
               PROVE  cur' = t
    BY DEF NothingStranded
  <2>2. db'[t] = db[t] /\ cur = t
    BY DEF NothingStranded, InFlight
  <2> QED
    BY <2>1, <2>2, NoTaskAssumption DEF InFlight
<1>2. NoLostWakeup'
  <2> SUFFICES ASSUME NEW p \in Task, db'[p].status = "waiting_subtask",
                      db'[db'[p].subtask].status = "done"
               PROVE  FALSE
    BY DEF NoLostWakeup
  <2>1. db'[p] = db[p] /\ db[p].subtask \in Existing
    BY DEF ParkedTaskHasItsSubtask
  <2>2. db'[db[p].subtask] = db[db[p].subtask]
    BY <2>1 DEF Existing, Fresh
  <2> QED
    BY <2>1, <2>2 DEF NoLostWakeup
<1>3. EscalationReachesPM'
  <2>1. \A e \in Existing : e \in Existing' /\ db'[e] = db[e]
    BY DEF Existing, Fresh
  <2> SUFFICES ASSUME NEW t \in Task, db'[t].status = "escalated"
               PROVE  \E e \in Existing' : db'[e].parent = t /\ db'[e].role = "pm"
    BY DEF EscalationReachesPM
  <2>2. db[t].status = "escalated"
    OBVIOUS
  <2> QED
    BY <2>1, <2>2 DEF EscalationReachesPM
<1>4. ChildNotDone'
  BY DEF ChildNotDone
<1> QED
  BY <1>1, <1>2, <1>3, <1>4

\* The steps of Run strand no task.
LEMMA RunStepCalm ==
  ASSUME IInv, TypeOK', CalmInv, RunStep, ~SavesFail
  PROVE  CalmInv'
<1>1. CASE GenerateSomeTasks
  <2>1. PICK batch \in SUBSET Fresh : \E roles \in [batch -> Role],
               deps \in [batch -> SUBSET (Existing \cup {UnknownId})],
               created \in {now, now + 1} : GenerateTasks(batch, roles, deps, created)
    BY <1>1 DEF GenerateSomeTasks
  <2>2. PICK roles \in [batch -> Role],
             deps \in [batch -> SUBSET (Existing \cup {UnknownId})],
             created \in {now, now + 1} : GenerateTasks(batch, roles, deps, created)
    BY <2>1
  <2>3. \A t \in batch : NewRow(roles[t], deps[t], NoTask, created).status = "pending"
    BY DEF NewRow
  <2>4. \A t \in Task : db'[t] # db[t] =>
          db[t].status = "absent" /\ db'[t].status = "pending"
    BY <2>2, <2>3 DEF GenerateTasks, Fresh
  <2>5. pc = "generating" /\ pc' = "fetch" /\ cur' = cur
    BY <2>2 DEF GenerateTasks, Proceed
  <2> QED
    BY <2>4, <2>5, NewRowsKeepCalm DEF TypeOK
<1>2. CASE \E t \in Task : FetchTask(t)
  <2>1. pc = "fetch" /\ pc' = "claim" /\ UNCHANGED db
    BY <1>2 DEF FetchTask
  <2>2. cur = NoTask
    BY <2>1 DEF IInv, ActiveTaskHeld, LoopPoints
  <2> QED
    BY <2>1, <2>2, NoSaveKeepsCalm
<1>3. CASE LoopTop \/ NothingReady \/ FetchFails \/ Wake
  <2>1. /\ pc \in LoopPoints /\ pc' \in LoopPoints /\ UNCHANGED <<db, cur>>
    BY <1>3 DEF LoopTop, NothingReady, FetchFails, Wake, Proceed, LoopPoints
  <2> QED
    BY <2>1, NoSaveKeepsCalm DEF LoopPoints
<1> QED
  BY <1>1, <1>2, <1>3 DEF RunStep

\* Nor do those from the fetch of a task to its output.
LEMMA OutputStepCalm ==
  ASSUME IInv, CalmInv, OutputStep
  PROVE  CalmInv'
<1>1. CASE UNCHANGED db
  <2>1. pc \in {"work", "exec", "claim", "context"} /\ cur' = cur /\ pc' # "spawnParent"
    BY DEF OutputStep, Claim, InjectContext, RoleFails, RoleWantsSubTask, RoleSubmits,
       WriteFilesFails, ExecPasses, ExecFails, Proceed, AfterExec, AfterCode
  <2> QED
    BY <1>1, <2>1, NoSaveKeepsCalm
<1>2. CASE Claim \/ InjectContext
  <2>1. /\ Save(cur, mem) /\ pc \in {"claim", "context"} /\ cur' = cur
        /\ pc' \in {"context", "rollback", "work"}
    BY <1>2 DEF Claim, InjectContext, Proceed
  <2>2. mem \in Row /\ mem.status = "in_progress"
    BY <2>1 DEF IInv, TypeOK, ActiveTaskHeld, HeldStatus, Working, LoopPoints
  <2> QED
    BY <2>1, <2>2, OwnSaveKeepsCalm DEF LoopPoints
<1> QED
  BY <1>1, <1>2 DEF OutputStep, RoleFails, RoleWantsSubTask, RoleSubmits, WriteFilesFails,
     ExecPasses, ExecFails

\* Nor do the reviews.
LEMMA ReviewStepCalm ==
  ASSUME IInv, TypeOK', CalmInv, ReviewStep
  PROVE  CalmInv'
<1>1. CASE UNCHANGED db
  <2>1. /\ pc \in {"codeReview", "securityReview", "pmReview", "rework", "submit"}
        /\ cur' = cur /\ pc' # "spawnParent"
    BY DEF ReviewStep, CodeReviewPasses, SecurityReviewPasses, PMReviewPasses,
       CodeReviewWantsChanges, SecurityReviewWantsChanges, PMRejects, Rework, AutoApprove,
       SubmitForReview, Proceed, AfterCode, AfterChanges
  <2> QED
    BY <1>1, <2>1, NoSaveKeepsCalm
<1>2. CASE Rework
  <2>1. Save(cur, mem) /\ pc = "rework" /\ pc' = "work" /\ cur' = cur
    BY <1>2 DEF Rework, Proceed
  <2>2. mem \in Row /\ mem.status = "in_progress"
    BY <2>1 DEF IInv, TypeOK, ActiveTaskHeld, HeldStatus, Working, LoopPoints
  <2> QED
    BY <2>1, <2>2, OwnSaveKeepsCalm DEF LoopPoints
<1>3. CASE AutoApprove \/ SubmitForReview
  <2>1. PICK status \in {"done", "pending_review"} :
          /\ pc = "submit" /\ mem' = [mem EXCEPT !.status = status]
          /\ Save(cur, mem') /\ cur' = cur
          /\ pc' = IF status = "done" THEN "resume" ELSE "pmReview"
    BY <1>3 DEF AutoApprove, SubmitForReview, Proceed
  <2>2. mem \in Row /\ mem' \in Row
    BY DEF IInv, TypeOK
  <2>3. mem'.status = status /\ mem'.role = mem.role /\ mem'.parent = mem.parent
    BY <2>1, <2>2 DEF Row
  <2>4. status = "done" => pc' = "resume"
    BY <2>1
  <2>5. pc' \in {"resume", "pmReview"}
    BY <2>1
  <2> QED
    BY <2>1, <2>2, <2>3, <2>4, <2>5, OwnSaveKeepsCalm DEF LoopPoints
<1> QED
  BY <1>1, <1>2, <1>3 DEF ReviewStep, CodeReviewPasses, SecurityReviewPasses, PMReviewPasses,
     CodeReviewWantsChanges, SecurityReviewWantsChanges, PMRejects

\* Nor do an approval, a rejection, a retry and the save of an escalation.
LEMMA QueueingStepCalm ==
  ASSUME IInv, TypeOK', CalmInv, Approve \/ Reject \/ Requeue \/ SaveEscalated
  PROVE  CalmInv'
<1>0. mem \in Row /\ mem' \in Row
  BY DEF IInv, TypeOK
<1>1. CASE Approve
  <2>1. mem'.status = "done" /\ mem'.role = mem.role /\ mem'.parent = mem.parent
    BY <1>0, <1>1 DEF Approve, Row
  <2> QED
    BY <1>0, <1>1, <2>1, OwnSaveKeepsCalm DEF Approve, Proceed, LoopPoints
<1>2. CASE Reject
  <2> DEFINE row == [mem EXCEPT !.retry = 0, !.status = "pending"]
  <2>1. /\ row \in Row /\ row.role = mem.role /\ row.parent = mem.parent
        /\ row.status = "pending"
    BY <1>0 DEF Row, Status
  <2>2. Save(cur, row) /\ pc = "reject" /\ pc' = "top"
    BY <1>2 DEF Reject, Return
  <2> HIDE DEF row
  <2> QED
    BY <2>1, <2>2, OwnSaveKeepsCalm DEF LoopPoints, InFlight
<1>3. CASE Requeue
  <2> DEFINE counted == [mem EXCEPT !.retry = @ + 1]
             row == [mem EXCEPT !.retry = @ + 1, !.status = "pending"]
  <2>1. counted \in Row /\ row = [counted EXCEPT !.status = "pending"]
    BY <1>0 DEF Row
  <2>2. /\ row \in Row /\ row.role = mem.role /\ row.parent = mem.parent
        /\ row.status = "pending"
    BY <1>0, <2>1 DEF Row, Status
  <2>3. Save(cur, row) /\ pc = "fail" /\ pc' = "top"
    BY <1>3 DEF Requeue, Return
  <2> HIDE DEF row
  <2> QED
    BY <2>2, <2>3, OwnSaveKeepsCalm DEF LoopPoints, InFlight
<1>4. CASE SaveEscalated
  <2>1. /\ Save(cur, mem) /\ pc = "escalate" /\ pc' = "escalateTask" /\ cur' = cur
    BY <1>4 DEF SaveEscalated, Proceed
  <2>2. mem.status = "escalated"
    BY <2>1 DEF IInv, ActiveTaskHeld, HeldStatus, Working, LoopPoints
  <2> QED
    BY <1>0, <2>1, <2>2, OwnSaveKeepsCalm DEF LoopPoints
<1> QED
  BY <1>1, <1>2, <1>3, <1>4

\* A parent is parked on a sub-task that is pending.
LEMMA SpawnParentCalm ==
  ASSUME IInv, CalmInv, SpawnParent
  PROVE  CalmInv'
<1>1. /\ pc = "spawnParent" /\ Save(cur, mem) /\ pc' = "top" /\ mem \in Row
  BY DEF SpawnParent, Return, IInv, TypeOK
<1>2. /\ cur \in Task /\ db[cur].status = "in_progress" /\ mem.status = "waiting_subtask"
      /\ mem.role = db[cur].role /\ mem.parent = db[cur].parent
      /\ mem.subtask \in Task \ {cur} /\ db[mem.subtask].status # "done"
  BY <1>1 DEF IInv, ActiveTaskHeld, ChildAwaitsParking, StoredStatus, HeldStatus, Working,
     LoopPoints, Existing, CalmInv, ChildNotDone
<1>3. db'[cur] = mem /\ \A u \in Task \ {cur} : db'[u] = db[u]
  BY <1>1, <1>2 DEF Save, IInv, TypeOK, StoreTypeOK
<1>4. NothingStranded'
  BY <1>2, <1>3 DEF CalmInv, NothingStranded, InFlight
<1>5. NoLostWakeup'
  <2> SUFFICES ASSUME NEW p \in Task, db'[p].status = "waiting_subtask",
                      db'[db'[p].subtask].status = "done"
               PROVE  FALSE
    BY DEF NoLostWakeup
  <2>1. p # cur
    BY <1>2, <1>3
  <2>2. db'[p] = db[p] /\ db[p].subtask \in Task /\ db[p].subtask # cur
    BY <1>2, <1>3, <2>1 DEF IInv, ParkedTaskHasItsSubtask, Existing
  <2> QED
    BY <1>1, <1>3, <2>2 DEF CalmInv, NoLostWakeup
<1>6. EscalationReachesPM'
  <2>1. \A e \in Existing : /\ e \in Existing' /\ db'[e].parent = db[e].parent
                            /\ db'[e].role = db[e].role
    BY <1>2, <1>3 DEF Existing, Fresh
  <2> QED
    BY <1>1, <1>2, <1>3, <2>1 DEF CalmInv, EscalationReachesPM
<1>7. ChildNotDone'
  BY <1>1 DEF ChildNotDone
<1> QED
  BY <1>4, <1>5, <1>6, <1>7 DEF CalmInv

\* The parent of a task that is done is woken, and no other was owed it.
LEMMA ResumeCalm ==
  ASSUME IInv, CalmInv, ResumeWaitingParent
  PROVE  CalmInv'
<1>1. /\ pc = "resume" /\ pc' = "top" /\ cur \in Task /\ db[cur].status = "done"
  BY DEF ResumeWaitingParent, Return, IInv, ActiveTaskHeld, StoredStatus, Working, LoopPoints
<1>2. /\ \A u \in Task : db'[u] # db[u] =>
           /\ db[u].status = "waiting_subtask" /\ db[u].subtask = cur
           /\ db'[u].status = "pending" /\ db'[u].parent = db[u].parent
           /\ db'[u].role = db[u].role
      /\ \A u \in Task : db[u].status = "waiting_subtask" /\ db[u].subtask = cur
           => db'[u].status = "pending"
  <2>1. CASE WaitingFor(cur) = {}
    BY <2>1 DEF ResumeWaitingParent, WaitingFor
  <2>2. CASE WaitingFor(cur) # {}
    <3>1. PICK p \in Task :
            /\ db[p].status = "waiting_subtask" /\ db[p].subtask = cur
            /\ Save(p, [db[p] EXCEPT !.subtask = NoTask, !.status = "pending"])
      BY <2>2 DEF ResumeWaitingParent, WaitingFor
    <3>2. /\ \A u \in Task \ {p} : db'[u] = db[u]
          /\ db'[p].status = "pending" /\ db'[p].parent = db[p].parent
          /\ db'[p].role = db[p].role
      BY <3>1 DEF Save, IInv, TypeOK, StoreTypeOK, Row
    <3>3. \A u \in Task : db[u].status = "waiting_subtask" /\ db[u].subtask = cur => u = p
      BY <3>1 DEF IInv, ParkedTaskHasItsSubtask, WaitingFor
    <3> QED
      BY <3>1, <3>2, <3>3
  <2> QED
    BY <2>1, <2>2
<1>3. NothingStranded'
  BY <1>1, <1>2 DEF CalmInv, NothingStranded, InFlight
<1>4. NoLostWakeup'
  <2> SUFFICES ASSUME NEW p \in Task, db'[p].status = "waiting_subtask",
                      db'[db'[p].subtask].status = "done"
               PROVE  FALSE
    BY DEF NoLostWakeup
  <2>1. db'[p] = db[p] /\ db[p].subtask \in Task /\ db[p].subtask # cur
    BY <1>2 DEF IInv, ParkedTaskHasItsSubtask, Existing
  <2>2. db[db[p].subtask].status = "done"
    BY <1>2, <2>1
  <2> QED
    BY <2>1, <2>2 DEF CalmInv, NoLostWakeup
<1>5. EscalationReachesPM'
  <2>1. \A e \in Existing : /\ e \in Existing' /\ db'[e].parent = db[e].parent
                            /\ db'[e].role = db[e].role
    BY <1>2 DEF Existing, Fresh
  <2>2. \A t \in Task : db'[t].status = "escalated" => db[t].status = "escalated"
    BY <1>2
  <2> QED
    BY <1>1, <2>1, <2>2 DEF CalmInv, EscalationReachesPM
<1>6. ChildNotDone'
  BY <1>1 DEF ChildNotDone
<1> QED
  BY <1>3, <1>4, <1>5, <1>6 DEF CalmInv

\* The steps that settle a task strand none.
LEMMA OutcomeStepCalm ==
  ASSUME IInv, TypeOK', CalmInv, OutcomeStep
  PROVE  CalmInv'
<1>1. CASE \E e \in Task, created \in {now, now + 1} : SaveEscalationTask(e, created)
  <2>1. PICK e \in Task, created \in {now, now + 1} : SaveEscalationTask(e, created)
    BY <1>1
  <2>2. /\ \A u \in Task \ {e} : db'[u] = db[u]
        /\ db[e].status = "absent" /\ db'[e].status = "pending"
        /\ db'[e].parent = cur /\ db'[e].role = "pm"
        /\ pc = "escalateTask" /\ pc' = "top"
    BY <2>1 DEF SaveEscalationTask, Save, NewRow, Fresh, Return, IInv, TypeOK, StoreTypeOK
  <2>3. \E f \in Existing' : db'[f].parent = cur /\ db'[f].role = "pm"
    BY <2>2 DEF Existing, Fresh
  <2> QED
    BY <2>2, <2>3, NewRowsKeepCalm DEF TypeOK
<1>2. CASE \E c \in Task, role \in Role, created \in {now, now + 1} :
             SpawnChild(c, role, created)
  <2>1. PICK c \in Task, role \in Role, created \in {now, now + 1} :
          SpawnChild(c, role, created)
    BY <1>2
  <2>2. /\ \A u \in Task \ {c} : db'[u] = db[u]
        /\ db[c].status = "absent" /\ db'[c].status = "pending"
        /\ mem'.subtask = c /\ cur' = cur /\ pc = "spawnChild"
    BY <2>1 DEF SpawnChild, Proceed, Save, NewRow, Fresh, IInv, TypeOK, StoreTypeOK, Row
  <2> QED
    BY <2>2, NewRowsKeepCalm DEF TypeOK
<1>3. CASE GiveUp \/ \E kept \in SUBSET Path : Rollback(kept)
  <2>1. /\ UNCHANGED <<db, cur>> /\ pc \in {"fail", "rollback"}
        /\ pc' \in {"rollback", "escalate"}
    BY <1>3 DEF GiveUp, Rollback, Proceed
  <2> QED
    BY <2>1, NoSaveKeepsCalm
<1> QED
  BY <1>1, <1>2, <1>3, QueueingStepCalm, SpawnParentCalm, ResumeCalm DEF OutcomeStep

\* Without crashes and failing saves, no step strands a task.
LEMMA StepCalm ==
  ASSUME ~CrashesHappen, ~SavesFail, IInv, CalmInv, [Next]_vars
  PROVE  CalmInv'
<1>1. TypeOK'
  BY StepTypeOK DEF IInv
<1>2. CASE PipelineStep
  BY <1>1, <1>2, RunStepCalm, OutputStepCalm, ReviewStepCalm, OutcomeStepCalm DEF PipelineStep
<1>3. CASE Start
  BY <1>3, NoSaveKeepsCalm DEF Start
<1>4. CASE Cancel \/ UNCHANGED vars
  <2>1. UNCHANGED <<db, pc, cur, mem>>
    BY <1>4 DEF Cancel, vars
  <2> QED
    BY <2>1 DEF CalmInv, NothingStranded, NoLostWakeup, EscalationReachesPM, ChildNotDone,
       Existing, Fresh
<1> QED
  BY <1>2, <1>3, <1>4 DEF Next, SaveFails, Crash

\* Nor is any stranded before the first step.
LEMMA InitCalm == Init => CalmInv
  BY NoRowType DEF Init, StoreInit, CalmInv, NothingStranded, NoLostWakeup,
     EscalationReachesPM, ChildNotDone, InFlight

\* While the process is not killed and saves succeed, the strengthening of the next three
\* is an invariant.
LEMMA CalmInvariant ==
  ASSUME ~CrashesHappen, ~SavesFail
  PROVE  Spec => []CalmInv
<1>1. Init => IInv /\ CalmInv
  BY InitIInv, InitCalm
<1>2. IInv /\ CalmInv /\ [Next]_vars => IInv' /\ CalmInv'
  BY StepIInv, StepCalm
<1> QED
  BY <1>1, <1>2, PTL DEF Spec

\* While the process is not killed and saves succeed, no row is left in flight behind the
\* goroutine's back: a cancelled context never abandons a task that was claimed.
THEOREM NothingIsStranded ==
  ASSUME ~CrashesHappen, ~SavesFail
  PROVE  Spec => []NothingStranded
<1>1. CalmInv => NothingStranded
  BY DEF CalmInv
<1> QED
  BY <1>1, CalmInvariant, PTL

\* While the process is not killed and saves succeed, no sub-task is done without
\* resumeWaitingParent being about to wake the parent that waits for it.
THEOREM WakeupsAreNotLost ==
  ASSUME ~CrashesHappen, ~SavesFail
  PROVE  Spec => []NoLostWakeup
<1>1. CalmInv => NoLostWakeup
  BY DEF CalmInv
<1> QED
  BY <1>1, CalmInvariant, PTL

\* While the process is not killed and saves succeed, every escalated task has its task for
\* the PM, or is about to.
THEOREM EscalationsReachThePM ==
  ASSUME ~CrashesHappen, ~SavesFail
  PROVE  Spec => []EscalationReachesPM
<1>1. CalmInv => EscalationReachesPM
  BY DEF CalmInv
<1> QED
  BY <1>1, CalmInvariant, PTL

-----------------------------------------------------------------------------
(* Rejected work *)

\* From the execution of an output to the PM's approval, no reviewer has asked for changes
\* to this output.
Examined == {"exec", "codeReview", "securityReview", "submit", "pmReview", "approve", "resume"}

NoChangesWanted ==
  pc \in Examined => "changes" \notin {verdict.reviewer, verdict.security, verdict.pm}

\* Work a reviewer found fault with never reaches the PM or the done column, whatever
\* crashes, failed saves and cancellations come in between.
THEOREM RejectedWorkIsStopped == Spec => []RejectedWorkStops
<1>1. Init => NoChangesWanted
  BY DEF Init, NoChangesWanted, Examined
<1>2. TypeOK /\ NoChangesWanted /\ [Next]_vars => NoChangesWanted'
  <2> SUFFICES ASSUME TypeOK, NoChangesWanted, [Next]_vars PROVE NoChangesWanted'
    OBVIOUS
  <2> USE DEF NoChangesWanted, Examined, Proceed
  <2>1. CASE RunStep
    BY <2>1 DEF RunStep, LoopTop, GenerateSomeTasks, GenerateTasks, FetchTask, NothingReady,
       FetchFails, Wake
  <2>2. CASE \E files \in SUBSET Path : RoleSubmits(files) \/ WriteFilesFails(files)
    BY <2>2 DEF RoleSubmits, WriteFilesFails, Unreviewed
  <2>3. CASE ExecPasses
    BY <2>3 DEF ExecPasses
  <2>4. CASE Claim \/ InjectContext \/ RoleFails \/ RoleWantsSubTask \/ ExecFails
    BY <2>4 DEF Claim, InjectContext, RoleFails, RoleWantsSubTask, ExecFails
  <2>5. CASE \E answer \in Answer : \/ CodeReviewPasses(answer) \/ SecurityReviewPasses(answer)
                                   \/ PMReviewPasses(answer)
    <3>1. PICK answer \in {"approved", "skipped"} :
            /\ pc \in Examined
            /\ \/ verdict' = [verdict EXCEPT !.reviewer = answer]
               \/ verdict' = [verdict EXCEPT !.security = answer]
               \/ verdict' = [verdict EXCEPT !.pm = answer]
      BY <2>5 DEF CodeReviewPasses, SecurityReviewPasses, PMReviewPasses
    <3> QED
      BY <3>1 DEF TypeOK, Verdict
  <2>6. CASE \/ CodeReviewWantsChanges \/ SecurityReviewWantsChanges \/ Rework \/ PMRejects
    BY <2>6 DEF CodeReviewWantsChanges, SecurityReviewWantsChanges, Rework, PMRejects,
       AfterChanges
  <2>7. CASE AutoApprove \/ SubmitForReview
    BY <2>7 DEF AutoApprove, SubmitForReview
  <2>8. CASE OutcomeStep
    BY <2>8 DEF OutcomeStep, Approve, Reject, ResumeWaitingParent, Requeue, GiveUp, Rollback,
       SaveEscalated, SaveEscalationTask, SpawnChild, SpawnParent, Return
  <2>9. CASE Start \/ SaveFails \/ Cancel \/ Crash \/ UNCHANGED vars
    BY <2>9 DEF Start, SaveFails, Cancel, Crash, Return, vars
  <2> QED
    BY <2>1, <2>2, <2>3, <2>4, <2>5, <2>6, <2>7, <2>8, <2>9
       DEF Next, PipelineStep, OutputStep, ReviewStep
<1>3. NoChangesWanted => RejectedWorkStops
  BY DEF NoChangesWanted, Examined, RejectedWorkStops
<1> QED
  BY <1>1, <1>2, <1>3, TypeCorrect, PTL DEF Spec

-----------------------------------------------------------------------------
(* Escalations and the files of their tasks *)

\* Where the files a task was the last to write are recorded: in processTask's copy while
\* it is active, then in its row, unless the run that wrote them was cut short and the row
\* stays in flight, which keeps it from ever being escalated.
FilesOnRecord ==
  /\ \A p \in Path : disk[p].by # NoTask /\ ~disk[p].lost =>
       IF disk[p].by = cur THEN p \in mem.files
       ELSE \/ db[disk[p].by].status \in InFlight \cup {"done"}
            \/ p \in db[disk[p].by].files
  /\ \A t \in Task : db[t].status \in {"absent", "escalated"} => db[t].files = {}
  /\ pc \in {"escalate", "escalateTask"} => mem.files = {}
  /\ pc = "claim" => mem.files = db[cur].files

\* The files of the other tasks are where they were when their rows are, up to a status
\* that is still not in flight, done or escalated.
OthersKept ==
  \A t \in Task \ {cur} : db'[t] # db[t] =>
    /\ db[t].status \notin InFlight \cup {"done"}
    /\ db'[t].status = "pending" /\ db'[t].files = db[t].files

\* The active task stays active, with the record it has.
LEMMA GoingOnKeepsFiles ==
  ASSUME IInv, FilesOnRecord, UNCHANGED <<disk, cur>>, OthersKept,
         mem'.files = mem.files, pc' # "claim",
         pc' = "escalate" => pc = "escalate", pc' = "escalateTask" => pc = "escalate",
         cur \in Task => db'[cur] = db[cur] \/ /\ db'[cur].files = mem.files
                                               /\ db'[cur].status # "absent"
                                               /\ db'[cur].status = "escalated"
                                                    => pc = "escalate"
  PROVE  FilesOnRecord'
<1> USE DEF IInv, TypeOK, StoreTypeOK, FilesOnRecord, OthersKept
<1>1. \A p \in Path : disk[p].by # NoTask /\ ~disk[p].lost =>
        /\ disk[p].by \in Task
        /\ IF disk[p].by = cur THEN p \in mem.files
           ELSE \/ db'[disk[p].by].status \in InFlight \cup {"done"}
                \/ p \in db'[disk[p].by].files
  <2>1. \A p \in Path : disk[p].by \in Task \cup {NoTask}
    BY DEF File
  <2> QED
    BY <2>1
<1>2. \A t \in Task : db'[t].status \in {"absent", "escalated"} => db'[t].files = {}
  OBVIOUS
<1> QED
  BY <1>1, <1>2

\* The active task is let go of, saved with its record or still in flight or done.
LEMMA LettingGoKeepsFiles ==
  ASSUME IInv, FilesOnRecord, UNCHANGED disk, OthersKept, cur' = NoTask,
         pc' \notin {"escalate", "escalateTask", "claim"},
         cur \in Task => \/ db'[cur] = db[cur]
                         \/ /\ db'[cur].files = mem.files
                            /\ db'[cur].status \notin {"absent", "escalated"}
  PROVE  FilesOnRecord'
<1> USE DEF IInv, TypeOK, StoreTypeOK, FilesOnRecord, OthersKept
<1>1. ASSUME cur \in Task
      PROVE  \/ db[cur].status \in InFlight \cup {"done"}
             \/ mem.files \subseteq db[cur].files
  <2>1. pc \notin LoopPoints /\ db[cur].status = StoredStatus
    BY <1>1, NoTaskAssumption DEF ActiveTaskHeld
  <2> QED
    BY <2>1 DEF StoredStatus, Working, InFlight, Location, LoopPoints, CallPoints, SavePoints
<1>2. \A p \in Path : disk[p].by # NoTask /\ ~disk[p].lost =>
        /\ disk[p].by \in Task
        /\ \/ db'[disk[p].by].status \in InFlight \cup {"done"}
           \/ p \in db'[disk[p].by].files
  <2>1. \A p \in Path : disk[p].by \in Task \cup {NoTask}
    BY DEF File
  <2> QED
    BY <1>1, <2>1
<1>3. \A t \in Task : db'[t].status \in {"absent", "escalated"} => db'[t].files = {}
  OBVIOUS
<1> QED
  BY <1>2, <1>3

\* The steps of Run touch no file.
LEMMA RunStepFiles ==
  ASSUME IInv, TypeOK', FilesOnRecord, RunStep
  PROVE  FilesOnRecord'
<1>1. CASE GenerateSomeTasks
  <2>1. PICK batch \in SUBSET Fresh : \E roles \in [batch -> Role],
               deps \in [batch -> SUBSET (Existing \cup {UnknownId})],
               created \in {now, now + 1} : GenerateTasks(batch, roles, deps, created)
    BY <1>1 DEF GenerateSomeTasks
  <2>2. PICK roles \in [batch -> Role],
             deps \in [batch -> SUBSET (Existing \cup {UnknownId})],
             created \in {now, now + 1} : GenerateTasks(batch, roles, deps, created)
    BY <2>1
  <2>3. \A t \in batch : /\ NewRow(roles[t], deps[t], NoTask, created).status = "pending"
                         /\ NewRow(roles[t], deps[t], NoTask, created).files = {}
    BY DEF NewRow
  <2>4. OthersKept
    BY <2>2, <2>3 DEF GenerateTasks, Fresh, OthersKept, FilesOnRecord, InFlight
  <2>5. /\ pc = "generating" /\ pc' = "fetch" /\ UNCHANGED <<disk, cur, mem>>
    BY <2>2 DEF GenerateTasks, Proceed
  <2>6. cur = NoTask
    BY <2>5 DEF IInv, ActiveTaskHeld, LoopPoints
  <2> QED
    BY <2>4, <2>5, <2>6, NoTaskAssumption, GoingOnKeepsFiles
<1>2. CASE \E t \in Task : FetchTask(t)
  <2>1. PICK t \in Task : FetchTask(t)
    BY <1>2
  <2>2. /\ pc = "fetch" /\ pc' = "claim" /\ cur' = t /\ UNCHANGED <<db, disk>>
        /\ mem' = [db[t] EXCEPT !.status = "in_progress"] /\ db[t].status = "pending"
    BY <2>1 DEF FetchTask, FirstPending, Ready, Pending
  <2>3. cur = NoTask /\ mem'.files = db[t].files
    BY <2>2 DEF IInv, ActiveTaskHeld, LoopPoints, TypeOK, StoreTypeOK, Row
  <2> QED
    BY <2>2, <2>3 DEF FilesOnRecord, InFlight
<1>3. CASE LoopTop \/ NothingReady \/ FetchFails \/ Wake
  <2>1. /\ pc' \in LoopPoints /\ UNCHANGED <<db, cur, mem, disk>>
    BY <1>3 DEF LoopTop, NothingReady, FetchFails, Wake, Proceed, LoopPoints
  <2> QED
    BY <2>1, GoingOnKeepsFiles DEF LoopPoints, OthersKept
<1> QED
  BY <1>1, <1>2, <1>3 DEF RunStep

\* What a task writes goes on its record.
LEMMA OutputStepFiles ==
  ASSUME IInv, TypeOK', FilesOnRecord, OutputStep
  PROVE  FilesOnRecord'
<1>1. CASE \E files \in SUBSET Path : WriteFilesFails(files)
  <2>1. PICK files \in SUBSET Path : WriteFilesFails(files)
    BY <1>1
  <2>2. /\ pc = "work" /\ pc' = "fail" /\ UNCHANGED <<db, cur, mem>>
        /\ disk' = [p \in Path |-> IF p \in files
                                  THEN [by |-> cur, lost |-> p \notin mem.files]
                                  ELSE disk[p]]
    BY <2>1 DEF WriteFilesFails, Written, Proceed
  <2> QED
    BY <2>2 DEF FilesOnRecord
<1>4. CASE \E files \in SUBSET Path : RoleSubmits(files)
  <2>1. PICK files \in SUBSET Path : RoleSubmits(files)
    BY <1>4
  <2>2. /\ pc = "work" /\ pc' = "exec" /\ UNCHANGED <<db, cur>>
        /\ mem'.files = mem.files \cup files
        /\ disk' = [p \in Path |-> IF p \in files THEN [by |-> cur, lost |-> FALSE]
                                  ELSE disk[p]]
    BY <2>1 DEF RoleSubmits, Written, Proceed, IInv, TypeOK, Row
  <2> QED
    BY <2>2 DEF FilesOnRecord
<1>2. CASE Claim \/ InjectContext
  <2>1. /\ Save(cur, mem) /\ pc \in {"claim", "context"} /\ UNCHANGED <<cur, mem, disk>>
        /\ pc' \in {"context", "rollback", "work"}
    BY <1>2 DEF Claim, InjectContext, Proceed
  <2>2. cur \in Task /\ mem.status = "in_progress"
    BY <2>1 DEF IInv, ActiveTaskHeld, HeldStatus, Working, LoopPoints
  <2>3. db'[cur] = mem /\ OthersKept
    BY <2>1, <2>2 DEF Save, OthersKept, IInv, TypeOK, StoreTypeOK
  <2> QED
    BY <2>1, <2>2, <2>3, GoingOnKeepsFiles
<1>3. CASE RoleFails \/ RoleWantsSubTask \/ ExecPasses \/ ExecFails
  <2>1. /\ UNCHANGED <<db, cur, mem, disk>>
        /\ pc' \in {"fail", "spawnChild", "codeReview", "securityReview", "submit"}
    BY <1>3 DEF RoleFails, RoleWantsSubTask, ExecPasses, ExecFails, Proceed, AfterExec, AfterCode
  <2> QED
    BY <2>1, GoingOnKeepsFiles DEF OthersKept
<1> QED
  BY <1>1, <1>2, <1>3, <1>4 DEF OutputStep

\* The reviews touch no file.
LEMMA ReviewStepFiles ==
  ASSUME IInv, TypeOK', FilesOnRecord, ReviewStep
  PROVE  FilesOnRecord'
<1>1. CASE UNCHANGED db
  <2>1. /\ UNCHANGED <<cur, disk>> /\ mem'.files = mem.files
        /\ pc' \notin {"claim", "escalate", "escalateTask"}
    BY DEF ReviewStep, CodeReviewPasses, SecurityReviewPasses, PMReviewPasses,
       CodeReviewWantsChanges, SecurityReviewWantsChanges, PMRejects, Rework, AutoApprove,
       SubmitForReview, Proceed, AfterCode, AfterChanges, CountRetry, IInv, TypeOK, Row
  <2> QED
    BY <1>1, <2>1, GoingOnKeepsFiles DEF OthersKept
<1>2. CASE Rework \/ AutoApprove \/ SubmitForReview
  <2>1. /\ Save(cur, mem') /\ mem'.files = mem.files /\ UNCHANGED <<cur, disk>>
        /\ pc \in {"rework", "submit"} /\ pc' \in {"work", "resume", "pmReview"}
    BY <1>2 DEF Rework, AutoApprove, SubmitForReview, Proceed, IInv, TypeOK, Row
  <2>2. cur \in Task /\ mem'.status \in {"in_progress", "done", "pending_review"}
    BY <1>2 DEF Rework, AutoApprove, SubmitForReview, IInv, TypeOK, Row, ActiveTaskHeld,
       HeldStatus, Working, LoopPoints
  <2>3. db'[cur] = mem' /\ OthersKept
    BY <2>1, <2>2 DEF Save, OthersKept, IInv, TypeOK, StoreTypeOK
  <2> QED
    BY <2>1, <2>2, <2>3, GoingOnKeepsFiles
<1> QED
  BY <1>1, <1>2 DEF ReviewStep, CodeReviewPasses, SecurityReviewPasses, PMReviewPasses,
     CodeReviewWantsChanges, SecurityReviewWantsChanges, PMRejects

\* An escalation removes what is on the record of its task, or strikes it off.
LEMMA OutcomeStepFiles ==
  ASSUME IInv, TypeOK', FilesOnRecord, OutcomeStep
  PROVE  FilesOnRecord'
<1>0. TypeOK /\ mem \in Row /\ mem' \in Row
  BY DEF IInv, TypeOK
<1> USE DEF Proceed, Return
<1>1. CASE Approve \/ SaveEscalated
  <2>1. /\ Save(cur, mem') /\ mem'.files = mem.files /\ UNCHANGED <<cur, disk>>
        /\ \/ pc = "approve" /\ pc' = "resume" /\ mem'.status = "done"
           \/ pc = "escalate" /\ pc' = "escalateTask" /\ mem' = mem
    <3>1. CASE Approve
      BY <1>0, <1>1, <3>1 DEF Approve, Row
    <3>2. CASE SaveEscalated
      BY <3>2 DEF SaveEscalated
    <3> QED
      BY <1>1, <3>1, <3>2
  <2>2. cur \in Task /\ mem'.status # "absent"
    BY <2>1 DEF IInv, ActiveTaskHeld, HeldStatus, Working, LoopPoints
  <2>3. mem'.status = "escalated" => pc = "escalate"
    BY <2>1
  <2>4. db'[cur] = mem' /\ OthersKept
    BY <2>1, <2>2 DEF Save, OthersKept, IInv, TypeOK, StoreTypeOK
  <2> QED
    BY <2>1, <2>2, <2>3, <2>4, GoingOnKeepsFiles
<1>2. CASE Reject \/ Requeue \/ SpawnParent
  <2>1. PICK row : /\ Save(cur, row) /\ pc \in {"reject", "fail", "spawnParent"}
                   /\ row.files = mem.files /\ row.status \in {"pending", "waiting_subtask"}
    <3>1. [mem EXCEPT !.retry = 0, !.status = "pending"].status = "pending"
          /\ [mem EXCEPT !.retry = 0, !.status = "pending"].files = mem.files
      BY <1>0 DEF Row
    <3>2. [mem EXCEPT !.retry = @ + 1, !.status = "pending"].status = "pending"
          /\ [mem EXCEPT !.retry = @ + 1, !.status = "pending"].files = mem.files
      BY <1>0 DEF Row
    <3>3. pc = "spawnParent" => mem.status = "waiting_subtask"
      BY DEF IInv, ActiveTaskHeld, HeldStatus, Working, LoopPoints
    <3> QED
      BY <1>2, <3>1, <3>2, <3>3 DEF Reject, Requeue, SpawnParent
  <2>2. cur \in Task
    BY <2>1 DEF IInv, ActiveTaskHeld, LoopPoints
  <2>3. db'[cur] = row /\ OthersKept
    BY <2>1, <2>2 DEF Save, OthersKept, IInv, TypeOK, StoreTypeOK
  <2>4. UNCHANGED disk /\ cur' = NoTask /\ pc' = "top"
    BY <1>2 DEF Reject, Requeue, SpawnParent
  <2> QED
    BY <2>1, <2>2, <2>3, <2>4, LettingGoKeepsFiles
<1>3. CASE ResumeWaitingParent
  <2>1. cur \in Task /\ db[cur].status = "done"
    BY <1>3 DEF ResumeWaitingParent, IInv, ActiveTaskHeld, StoredStatus, Working, LoopPoints
  <2>2. OthersKept /\ db'[cur] = db[cur]
    <3>1. CASE UNCHANGED db
      BY <3>1 DEF OthersKept
    <3>2. CASE WaitingFor(cur) # {}
      <4>1. PICK q \in Task :
              /\ db[q].status = "waiting_subtask"
              /\ Save(q, [db[q] EXCEPT !.subtask = NoTask, !.status = "pending"])
        BY <1>3, <3>2 DEF ResumeWaitingParent, WaitingFor
      <4> QED
        BY <2>1, <4>1 DEF Save, OthersKept, IInv, TypeOK, StoreTypeOK, Row, InFlight
    <3> QED
      BY <1>3, <3>1, <3>2 DEF ResumeWaitingParent
  <2>3. UNCHANGED disk /\ cur' = NoTask /\ pc' = "top"
    BY <1>3 DEF ResumeWaitingParent
  <2> QED
    BY <2>2, <2>3, LettingGoKeepsFiles
<1>4. CASE GiveUp
  <2>1. /\ UNCHANGED <<db, cur, disk>> /\ mem'.files = mem.files /\ pc' = "rollback"
    BY <1>0, <1>4 DEF GiveUp, CountRetry, Row
  <2> QED
    BY <2>1, GoingOnKeepsFiles DEF OthersKept
<1>5. CASE \E kept \in SUBSET Path : Rollback(kept)
  <2>1. PICK kept \in SUBSET Path : Rollback(kept)
    BY <1>5
  <2>2. UNCHANGED <<db, cur>> /\ mem'.files = {} /\ pc' = "escalate"
    BY <1>0, <2>1 DEF Rollback, Row
  <2>3. \A p \in Path : disk'[p].by # NoTask /\ ~disk'[p].lost =>
          disk'[p] = disk[p] /\ (p \notin mem.files \/ disk[p].by # cur)
    BY <2>1, <1>0 DEF Rollback, NoFile, File, TypeOK
  <2> QED
    BY <2>2, <2>3 DEF FilesOnRecord
<1>6. CASE \E e \in Task, created \in {now, now + 1} : SaveEscalationTask(e, created)
  <2>1. PICK e \in Task, created \in {now, now + 1} : SaveEscalationTask(e, created)
    BY <1>6
  <2>2. /\ \A u \in Task \ {e} : db'[u] = db[u]
        /\ db[e].status = "absent" /\ db'[e].status = "pending" /\ db'[e].files = {}
        /\ pc = "escalateTask" /\ pc' = "top" /\ cur' = NoTask /\ UNCHANGED disk
    BY <1>0, <2>1 DEF SaveEscalationTask, Save, NewRow, Fresh, TypeOK, StoreTypeOK
  <2>3. db[cur].status = "escalated"
    BY <2>2 DEF IInv, ActiveTaskHeld, StoredStatus, Working, LoopPoints
  <2>4. OthersKept /\ (cur \in Task => db'[cur] = db[cur])
    BY <2>2, <2>3 DEF OthersKept, FilesOnRecord, InFlight
  <2> QED
    BY <2>2, <2>4, LettingGoKeepsFiles
<1>7. CASE \E c \in Task, role \in Role, created \in {now, now + 1} :
             SpawnChild(c, role, created)
  <2>1. PICK c \in Task, role \in Role, created \in {now, now + 1} :
          SpawnChild(c, role, created)
    BY <1>7
  <2>2. /\ \A u \in Task \ {c} : db'[u] = db[u]
        /\ db[c].status = "absent" /\ db'[c].status = "pending" /\ db'[c].files = {}
        /\ mem'.files = mem.files /\ UNCHANGED <<cur, disk>>
        /\ pc = "spawnChild" /\ pc' = "spawnParent"
    BY <1>0, <2>1 DEF SpawnChild, Save, NewRow, Fresh, TypeOK, StoreTypeOK, Row
  <2>3. db[cur].status = "in_progress"
    BY <2>2 DEF IInv, ActiveTaskHeld, StoredStatus, Working, LoopPoints
  <2>4. OthersKept /\ (cur \in Task => db'[cur] = db[cur])
    BY <2>2, <2>3 DEF OthersKept, FilesOnRecord, InFlight
  <2> QED
    BY <2>2, <2>4, GoingOnKeepsFiles
<1> QED
  BY <1>1, <1>2, <1>3, <1>4, <1>5, <1>6, <1>7 DEF OutcomeStep

\* Of the files it was the last to write, an escalated task leaves only those that a
\* WriteFiles or a remove that failed took off its record, with crashes, failed saves and
\* cancellations in between.
THEOREM EscalationsAreRolledBack == Spec => []EscalationCleansUp
<1>1. Init => IInv /\ FilesOnRecord
  <2>1. NoRow.files = {}
    BY DEF NoRow, NewRow
  <2> QED
    BY <2>1, InitIInv, NoRowType DEF Init, NoFile, StoreInit, FilesOnRecord
<1>2. IInv /\ FilesOnRecord /\ [Next]_vars => IInv' /\ FilesOnRecord'
  <2> SUFFICES ASSUME IInv, FilesOnRecord, [Next]_vars PROVE IInv' /\ FilesOnRecord'
    OBVIOUS
  <2>1. IInv' /\ TypeOK'
    BY StepIInv DEF IInv
  <2>2. CASE PipelineStep
    BY <2>1, <2>2, RunStepFiles, OutputStepFiles, ReviewStepFiles, OutcomeStepFiles
       DEF PipelineStep
  <2>3. CASE SaveFails \/ Crash
    <3>1. UNCHANGED <<db, disk>> /\ cur' = NoTask /\ pc' \in {"top", "stopped"}
      BY <2>3 DEF SaveFails, Crash, Return
    <3> QED
      BY <2>1, <3>1, LettingGoKeepsFiles DEF OthersKept
  <2>4. CASE Start
    <3>1. UNCHANGED <<db, disk, cur, mem>> /\ pc' = "top"
      BY <2>4 DEF Start
    <3> QED
      BY <2>1, <3>1, GoingOnKeepsFiles DEF OthersKept
  <2>5. CASE Cancel \/ UNCHANGED vars
    <3>1. UNCHANGED <<db, disk, cur, mem, pc>>
      BY <2>5 DEF Cancel, vars
    <3> QED
      BY <2>1, <3>1 DEF FilesOnRecord
  <2> QED
    BY <2>2, <2>3, <2>4, <2>5 DEF Next
<1>3. IInv /\ FilesOnRecord => EscalationCleansUp
  <2> SUFFICES ASSUME IInv, FilesOnRecord, NEW t \in Task, db[t].status = "escalated",
                      NEW p \in Path, disk[p].by = t, ~disk[p].lost
               PROVE  FALSE
    BY DEF EscalationCleansUp
  <2>1. t = cur /\ p \in mem.files
    BY NoTaskAssumption DEF FilesOnRecord, InFlight
  <2>2. pc = "escalateTask"
    BY <2>1, NoTaskAssumption DEF IInv, TypeOK, ActiveTaskHeld, StoredStatus, Working,
       Location, LoopPoints, CallPoints, SavePoints
  <2> QED
    BY <2>1, <2>2 DEF FilesOnRecord
<1> QED
  BY <1>1, <1>2, <1>3, PTL DEF Spec
=============================================================================
