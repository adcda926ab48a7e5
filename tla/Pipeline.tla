------------------------------ MODULE Pipeline ------------------------------
(***************************************************************************)
(* The orchestration goroutine of internal/pipeline/pipeline.go: Run,      *)
(* generateTasks, processTask and the functions it calls.                  *)
(*                                                                         *)
(* Every step is the code between two points at which something else can   *)
(* happen: an external call (an LLM role, the Docker executor) returns, or *)
(* a TaskStore.Save commits.  `pc` names the call or the save the          *)
(* goroutine performs next, so a crash, a failing save and a cancellation  *)
(* of the context can fall between any two of them.                        *)
(*                                                                         *)
(* Left to other modules: Pause, Resume and who starts a run               *)
(* (LocalServer), the release cadence of maybeCheckRelease, which touches  *)
(* no task row, and the conversation history, on which no branch depends.  *)
(***************************************************************************)
EXTENDS TaskStore

CONSTANTS
  Registered,           \* roles in roles.Registry
  HasReviewer,          \* p.reviewer # nil
  HasSecurityReviewer,  \* p.securityReviewer # nil
  MaxRetry,             \* p.maxRetry
  MinQueueDepth,        \* p.minQueueDepth
  CrashesHappen,        \* may the process be killed?
  SavesFail,            \* may a TaskStore call return an error?
  WritesFail,           \* may WriteFiles or os.Remove fail?
  StopsHappen           \* may the context be cancelled?

ASSUME RegisteredAssumption == Registered \subseteq Role /\ "pm" \in Registered
ASSUME LimitsAssumption     == MaxRetry \in Nat \ {0} /\ MinQueueDepth \in Nat \ {0}
ASSUME SwitchesAssumption   ==
  {HasReviewer, HasSecurityReviewer, CrashesHappen, SavesFail, WritesFail,
   StopsHappen} \subseteq BOOLEAN

VARIABLES
  pc,       \* what the goroutine does next
  ctx,      \* the context: live, cancelled while a call is in flight, cancelled
  cur,      \* p.activeTask
  mem,      \* the *model.Task processTask works on, ahead of its row in db
  phase,    \* what asked for the output being made: a start or a review's changes
  verdict,  \* observation: what reviewers and PM said of the current output
  disk      \* observation: of each artifact file, the last writer (NoTask: no file),
            \* and whether a write or a remove that failed left it on no record

vars == <<db, now, pc, ctx, cur, mem, phase, verdict, disk>>

LoopPoints == {"stopped", "top", "generating", "fetch", "sleep"}
CallPoints == {"generating", "work", "exec", "codeReview", "securityReview", "pmReview"}
SavePoints == {"claim", "context", "rework", "submit", "approve", "reject", "fail",
               "escalate", "escalateTask", "spawnChild", "spawnParent", "resume"}
Location   == LoopPoints \cup CallPoints \cup SavePoints \cup {"rollback"}

Answer     == {"none", "approved", "skipped", "changes"}
Unreviewed == [reviewer |-> "none", security |-> "none", pm |-> "none"]
Verdict    == [reviewer : Answer, security : Answer, pm : Answer]

File   == [by : Task \cup {NoTask}, lost : BOOLEAN]
NoFile == [by |-> NoTask, lost |-> FALSE]

TypeOK ==
  /\ StoreTypeOK
  /\ pc \in Location
  /\ ctx \in {"live", "cancelling", "cancelled"}
  /\ cur \in Task \cup {NoTask}
  /\ mem \in Row
  /\ phase \in {"first", "code", "security"}
  /\ verdict \in Verdict
  /\ disk \in [Path -> File]

Init ==
  /\ StoreInit
  /\ pc = "stopped"
  /\ ctx = "live"
  /\ cur = NoTask
  /\ mem = NoRow
  /\ phase = "first"
  /\ verdict = Unreviewed
  /\ disk = [p \in Path |-> NoFile]

-----------------------------------------------------------------------------
(* Shorthands *)

CodeReviewed(role) == HasReviewer /\ role \notin {"pm", "reviewer"}
SecurityReviewed(role) ==
  HasSecurityReviewer /\ role \notin {"pm", "reviewer", "security"}

AfterCode(role) == IF SecurityReviewed(role) THEN "securityReview" ELSE "submit"

\* Where processTask goes once the output's commands have succeeded.
AfterExec(role) ==
  CASE phase = "security"                       -> "securityReview"
    [] phase # "security" /\ CodeReviewed(role)  -> "codeReview"
    [] OTHER                                     -> AfterCode(role)

\* A call issued before the cancellation may still answer; the next one fails.
CallAnswers == ctx # "cancelled"
CallReturns == ctx' = IF ctx = "cancelling" THEN "cancelled" ELSE ctx

\* MODEL BOUND.  Task is finite in a run.  An escalation needs a new id, so the
\* environment fails a task for the last time (or cancels, so that its next call
\* will fail) only while one is left, and never uses up the ids the queued tasks of
\* unregistered roles will need.
Reserved   == {t \in Pending : db[t].role \notin Registered}
Room(n)    == Cardinality(Fresh) >= n + Cardinality(Reserved)
CanFail(n) == mem.retry + n < MaxRetry \/ Room(1)

\* created_at of a row made now: the clock may or may not have moved on.
Clock(created) == created \in {now, now + 1} /\ now' = created

\* processTask returns: setActive(nil), and Run loops.
Return ==
  /\ pc' = "top" /\ cur' = NoTask /\ mem' = NoRow
  /\ phase' = "first" /\ verdict' = Unreviewed

Proceed(next) == pc' = next /\ UNCHANGED <<cur, phase>>

-----------------------------------------------------------------------------
(* Run *)

\* LocalServer.Start after NewLocal, Stop or a crash: a new Pipeline, a new
\* context, the same state.db and artifacts directory.  No row is touched.
Start ==
  /\ pc = "stopped"
  /\ pc' = "top" /\ ctx' = "live"
  /\ UNCHANGED <<db, now, cur, mem, phase, verdict, disk>>

\* ctx.Done() is polled, then the pending rows are counted.  The error of counting
\* them is dropped, and none are found.
LoopTop ==
  /\ pc = "top"
  /\ \E counted \in {Cardinality(Pending)} \cup (IF SavesFail THEN {0} ELSE {}) :
       Proceed(IF ctx # "live" THEN "stopped"
               ELSE IF counted < MinQueueDepth THEN "generating"
               ELSE "fetch")
  /\ UNCHANGED <<db, now, ctx, mem, verdict, disk>>

\* generateTasks: the batch shares one timestamp.  The empty batch stands for a
\* failed PM call and an empty answer, a smaller one for a Save that failed midway.
GenerateTasks(batch, roles, deps, created) ==
  /\ pc = "generating"
  /\ batch # {} => CallAnswers
  /\ db' = [t \in Task |->
              IF t \in batch THEN NewRow(roles[t], deps[t], NoTask, created) ELSE db[t]]
  /\ IF batch = {} THEN now' = now ELSE Clock(created)
  /\ CallReturns
  /\ Proceed("fetch")
  /\ UNCHANGED <<mem, verdict, disk>>

GenerateSomeTasks ==
  \E batch \in SUBSET Fresh :
    \E roles \in [batch -> Role],
       deps \in [batch -> SUBSET (Existing \cup {UnknownId})],
       created \in {now, now + 1} :
      /\ batch # {} =>
           Room(Cardinality(batch) + Cardinality({t \in batch : roles[t] \notin Registered}))
      /\ GenerateTasks(batch, roles, deps, created)

\* FirstPending, then the assignments at the head of processTask.
FetchTask(t) ==
  /\ pc = "fetch"
  /\ t \in FirstPending
  /\ cur' = t
  /\ mem' = [db[t] EXCEPT !.status = "in_progress"]
  /\ pc' = "claim"
  /\ UNCHANGED <<db, now, ctx, phase, verdict, disk>>

NothingReady ==
  /\ pc = "fetch"
  /\ Ready = {}
  /\ Proceed("sleep")
  /\ UNCHANGED <<db, now, ctx, mem, verdict, disk>>

\* An error of FirstPending ends Run.
FetchFails ==
  /\ SavesFail
  /\ pc = "fetch"
  /\ Proceed("stopped")
  /\ UNCHANGED <<db, now, ctx, mem, verdict, disk>>

\* The two-second sleep ends, or the context does.
Wake ==
  /\ pc = "sleep"
  /\ Proceed(IF ctx = "live" THEN "top" ELSE "stopped")
  /\ UNCHANGED <<db, now, ctx, mem, verdict, disk>>

-----------------------------------------------------------------------------
(* processTask: claiming the task and producing an output *)

\* The in_progress save, and the registry lookup after it.
Claim ==
  /\ pc = "claim"
  /\ Save(cur, mem)
  /\ Proceed(IF mem.role \in Registered THEN "context" ELSE "rollback")
  /\ UNCHANGED <<now, ctx, mem, verdict, disk>>

\* Initial context injection: a second save of the same columns on a first run.
InjectContext ==
  /\ pc = "context"
  /\ Save(cur, mem)
  /\ Proceed("work")
  /\ UNCHANGED <<now, ctx, mem, verdict, disk>>

\* role.ProcessTask returns an error.
RoleFails ==
  /\ pc = "work" /\ CanFail(1)
  /\ CallReturns
  /\ Proceed("fail")
  /\ UNCHANGED <<db, now, mem, verdict, disk>>

\* The output asks for a sub-task.  Only the first output of a run is looked at:
\* in the review loops output.SubTask is ignored.  The code sets no limit to how
\* often a role may ask, nor how deep; a finite Task does.
RoleWantsSubTask ==
  /\ pc = "work" /\ phase = "first"
  /\ CallAnswers /\ CallReturns
  /\ Room(1)
  /\ Proceed("spawnChild")
  /\ UNCHANGED <<db, now, mem, verdict, disk>>

\* The active task writes `files`; `recorded` is then on its record.
Written(files, recorded) ==
  [p \in Path |-> IF p \in files THEN [by |-> cur, lost |-> p \notin recorded]
                  ELSE disk[p]]

\* Mutant of RoleSubmits: the record keeps the files of the last output only.
RoleSubmitsForgetsEarlier(files) ==
  /\ pc = "work"
  /\ CallAnswers /\ CallReturns
  /\ disk' = Written(files, files)
  /\ mem' = [mem EXCEPT !.files = files]
  /\ verdict' = Unreviewed
  /\ Proceed("exec")
  /\ UNCHANGED <<db, now>>

\* An output whose files WriteFiles all writes.
RoleSubmits(files) ==
  /\ pc = "work"
  /\ CallAnswers /\ CallReturns
  /\ disk' = Written(files, files)
  /\ mem' = [mem EXCEPT !.files = @ \cup files]
  /\ verdict' = Unreviewed
  /\ Proceed("exec")
  /\ UNCHANGED <<db, now>>

\* WriteFiles fails after writing `files`; the caller drops the list it returns.
WriteFilesFails(files) ==
  /\ WritesFail
  /\ pc = "work" /\ CanFail(1)
  /\ CallAnswers /\ CallReturns
  /\ disk' = Written(files, mem.files)
  /\ verdict' = Unreviewed
  /\ Proceed("fail")
  /\ UNCHANGED <<db, now, mem>>

\* There is nothing to run, or every command exits 0.
ExecPasses ==
  /\ pc = "exec"
  /\ CallReturns
  /\ Proceed(AfterExec(mem.role))
  /\ UNCHANGED <<db, now, mem, verdict, disk>>

\* An executor error, a timeout or a non-zero exit code.
ExecFails ==
  /\ pc = "exec" /\ CanFail(1)
  /\ CallReturns
  /\ Proceed("fail")
  /\ UNCHANGED <<db, now, mem, verdict, disk>>

-----------------------------------------------------------------------------
(* processTask: the two review loops *)

\* ReviewCode approves, or fails and the review is skipped.
CodeReviewPasses(answer) ==
  /\ pc = "codeReview"
  /\ answer \in {"approved", "skipped"}
  /\ answer = "approved" => CallAnswers
  /\ CallReturns
  /\ verdict' = [verdict EXCEPT !.reviewer = answer]
  /\ Proceed(AfterCode(mem.role))
  /\ UNCHANGED <<db, now, mem, disk>>

\* Mutant of CountRetry: review iterations are not counted.
CountsNothing == mem' = mem

\* Mutants of AfterChanges: an off-by-one, and handing the work in at the limit.
AfterChangesOneMore == IF mem.retry + 1 > MaxRetry THEN "rollback" ELSE "rework"
AfterChangesGivesIn == IF mem.retry + 1 >= MaxRetry THEN "submit" ELSE "rework"

\* RetryCount++, then another iteration or the escalation.
CountRetry == mem' = [mem EXCEPT !.retry = @ + 1]

AfterChanges == IF mem.retry + 1 >= MaxRetry THEN "rollback" ELSE "rework"

CodeReviewWantsChanges ==
  /\ pc = "codeReview" /\ CanFail(IF ctx = "live" THEN 1 ELSE 2)
  /\ CallAnswers /\ CallReturns
  /\ CountRetry
  /\ verdict' = [verdict EXCEPT !.reviewer = "changes"]
  /\ phase' = "code"
  /\ pc' = AfterChanges
  /\ UNCHANGED <<db, now, cur, disk>>

\* The scans that precede ReviewSecurity only add to its prompt.
SecurityReviewPasses(answer) ==
  /\ pc = "securityReview"
  /\ answer \in {"approved", "skipped"}
  /\ answer = "approved" => CallAnswers
  /\ CallReturns
  /\ verdict' = [verdict EXCEPT !.security = answer]
  /\ Proceed("submit")
  /\ UNCHANGED <<db, now, mem, disk>>

SecurityReviewWantsChanges ==
  /\ pc = "securityReview" /\ CanFail(IF ctx = "live" THEN 1 ELSE 2)
  /\ CallAnswers /\ CallReturns
  /\ CountRetry
  /\ verdict' = [verdict EXCEPT !.security = "changes"]
  /\ phase' = "security"
  /\ pc' = AfterChanges
  /\ UNCHANGED <<db, now, cur, disk>>

\* The feedback is saved and the role is called again.
Rework ==
  /\ pc = "rework"
  /\ Save(cur, mem)
  /\ Proceed("work")
  /\ UNCHANGED <<now, ctx, mem, verdict, disk>>

-----------------------------------------------------------------------------
(* processTask: the PM's decision *)

\* Mutant of AutoApprove: the parent of a pm sub-task is forgotten.
AutoApproveOnly ==
  /\ pc = "submit" /\ mem.role = "pm"
  /\ Save(cur, [mem EXCEPT !.status = "done"])
  /\ Return
  /\ UNCHANGED <<now, ctx, disk>>

\* pm tasks are done at once; the others go to pending_review.
AutoApprove ==
  /\ pc = "submit" /\ mem.role = "pm"
  /\ mem' = [mem EXCEPT !.status = "done"]
  /\ Save(cur, mem')
  /\ Proceed("resume")
  /\ UNCHANGED <<now, ctx, verdict, disk>>

SubmitForReview ==
  /\ pc = "submit" /\ mem.role # "pm"
  /\ mem' = [mem EXCEPT !.status = "pending_review"]
  /\ Save(cur, mem')
  /\ Proceed("pmReview")
  /\ UNCHANGED <<now, ctx, verdict, disk>>

\* ReviewTask approves, or fails: an error approves.
PMReviewPasses(answer) ==
  /\ pc = "pmReview"
  /\ answer \in {"approved", "skipped"}
  /\ answer = "approved" => CallAnswers
  /\ CallReturns
  /\ verdict' = [verdict EXCEPT !.pm = answer]
  /\ Proceed("approve")
  /\ UNCHANGED <<db, now, mem, disk>>

PMRejects ==
  /\ pc = "pmReview"
  /\ CallAnswers /\ CallReturns
  /\ verdict' = [verdict EXCEPT !.pm = "changes"]
  /\ Proceed("reject")
  /\ UNCHANGED <<db, now, mem, disk>>

Approve ==
  /\ pc = "approve"
  /\ mem' = [mem EXCEPT !.status = "done"]
  /\ Save(cur, mem')
  /\ Proceed("resume")
  /\ UNCHANGED <<now, ctx, verdict, disk>>

\* Mutant of Reject: a rejection gives one retry back instead of all.
RejectRefundsOne ==
  /\ pc = "reject"
  /\ Save(cur, [mem EXCEPT !.retry = @ - 1, !.status = "pending"])
  /\ Return
  /\ UNCHANGED <<now, ctx, disk>>

\* Back to the queue with a fresh retry budget.
Reject ==
  /\ pc = "reject"
  /\ Save(cur, [mem EXCEPT !.retry = 0, !.status = "pending"])
  /\ Return
  /\ UNCHANGED <<now, ctx, disk>>

\* resumeWaitingParent.
ResumeWaitingParent ==
  /\ pc = "resume"
  /\ IF WaitingFor(cur) = {} THEN UNCHANGED db
     ELSE \E p \in WaitingFor(cur) :
            Save(p, [db[p] EXCEPT !.subtask = NoTask, !.status = "pending"])
  /\ Return
  /\ UNCHANGED <<now, ctx, disk>>

-----------------------------------------------------------------------------
(* Failures, escalations and sub-tasks *)

\* Mutant of Requeue: the status is not set back.
RequeueInPlace ==
  /\ pc = "fail" /\ mem.retry + 1 < MaxRetry
  /\ Save(cur, [mem EXCEPT !.retry = @ + 1])
  /\ Return
  /\ UNCHANGED <<now, ctx, disk>>

\* handleFailure below the limit: the error is saved and the task re-queued.
Requeue ==
  /\ pc = "fail" /\ mem.retry + 1 < MaxRetry
  /\ Save(cur, [mem EXCEPT !.retry = @ + 1, !.status = "pending"])
  /\ Return
  /\ UNCHANGED <<now, ctx, disk>>

\* handleFailure at the limit.
GiveUp ==
  /\ pc = "fail" /\ mem.retry + 1 >= MaxRetry
  /\ CountRetry
  /\ Proceed("rollback")
  /\ UNCHANGED <<db, now, ctx, verdict, disk>>

\* escalate, before its first save: the files on the task's record are removed, but
\* for the `kept` ones.  A remove that fails is logged, and the record goes anyway.
Rollback(kept) ==
  /\ pc = "rollback"
  /\ kept \subseteq {p \in mem.files : WritesFail /\ disk[p] # NoFile}
  /\ disk' = [p \in Path |->
                CASE p \in mem.files \ kept              -> NoFile
                  [] p \in kept /\ disk[p].by = cur      -> [disk[p] EXCEPT !.lost = TRUE]
                  [] OTHER                               -> disk[p]]
  /\ mem' = [mem EXCEPT !.files = {}, !.status = "escalated"]
  /\ Proceed("escalate")
  /\ UNCHANGED <<db, now, ctx, verdict>>

\* Mutant of SaveEscalated: the PM is not told of its own tasks.
SaveEscalatedQuietly ==
  /\ pc = "escalate"
  /\ Save(cur, mem)
  /\ IF mem.role = "pm" THEN Return ELSE Proceed("escalateTask") /\ UNCHANGED <<mem, verdict>>
  /\ UNCHANGED <<now, ctx, disk>>

SaveEscalated ==
  /\ pc = "escalate"
  /\ Save(cur, mem)
  /\ Proceed("escalateTask")
  /\ UNCHANGED <<now, ctx, mem, verdict, disk>>

\* The PM task "Handle escalation: ...".
SaveEscalationTask(e, created) ==
  /\ pc = "escalateTask"
  /\ e \in Fresh
  /\ Clock(created)
  /\ Save(e, NewRow("pm", {}, cur, created))
  /\ Return
  /\ UNCHANGED <<ctx, disk>>

\* Mutant of SpawnChild: the parent is parked before its child exists.
ParkBeforeSpawn(c, role, created) ==
  /\ pc = "spawnChild"
  /\ c \in Fresh
  /\ Clock(created)
  /\ mem' = [mem EXCEPT !.subtask = c, !.status = "waiting_subtask"]
  /\ Save(cur, mem')
  /\ Proceed("spawnParent")
  /\ UNCHANGED <<ctx, verdict, disk>>

\* spawnSubTask: the child is saved first, then the parent that waits for it.
SpawnChild(c, role, created) ==
  /\ pc = "spawnChild"
  /\ c \in Fresh
  /\ role \notin Registered => Room(2)
  /\ Clock(created)
  /\ Save(c, NewRow(role, {}, cur, created))
  /\ mem' = [mem EXCEPT !.subtask = c, !.status = "waiting_subtask"]
  /\ Proceed("spawnParent")
  /\ UNCHANGED <<ctx, verdict, disk>>

SpawnParent ==
  /\ pc = "spawnParent"
  /\ Save(cur, mem)
  /\ Return
  /\ UNCHANGED <<now, ctx, disk>>

-----------------------------------------------------------------------------
(* What the environment does *)

\* A Save returns an error: processTask returns it, Run logs it and loops.
SaveFails ==
  /\ SavesFail
  /\ pc \in SavePoints
  /\ pc = "fail" => mem.retry + 1 < MaxRetry
  /\ Return
  /\ UNCHANGED <<db, now, ctx, disk>>

\* LocalServer.Stop, Reset or a signal cancels the context Run was given.
Cancel ==
  /\ StopsHappen
  /\ pc # "stopped" /\ ctx = "live"
  /\ CanFail(1) /\ (\A t \in Pending : db[t].retry + 1 < MaxRetry \/ Room(1))
  /\ ctx' = IF pc \in CallPoints THEN "cancelling" ELSE "cancelled"
  /\ UNCHANGED <<db, now, pc, cur, mem, phase, verdict, disk>>

\* The process dies: what was not saved is gone, rows and files stay.
Crash ==
  /\ CrashesHappen
  /\ pc # "stopped"
  /\ pc' = "stopped" /\ cur' = NoTask /\ mem' = NoRow
  /\ phase' = "first" /\ verdict' = Unreviewed
  /\ UNCHANGED <<db, now, ctx, disk>>

-----------------------------------------------------------------------------

\* The steps of the goroutine: Run's own, and processTask's.
RunStep ==
  \/ LoopTop \/ GenerateSomeTasks \/ NothingReady \/ FetchFails \/ Wake
  \/ \E t \in Task : FetchTask(t)

OutputStep ==
  \/ Claim \/ InjectContext \/ RoleFails \/ RoleWantsSubTask
  \/ \E files \in SUBSET Path : RoleSubmits(files) \/ WriteFilesFails(files)
  \/ ExecPasses \/ ExecFails

ReviewStep ==
  \/ \E answer \in Answer :
       \/ CodeReviewPasses(answer) \/ SecurityReviewPasses(answer)
       \/ PMReviewPasses(answer)
  \/ CodeReviewWantsChanges \/ SecurityReviewWantsChanges \/ Rework
  \/ AutoApprove \/ SubmitForReview \/ PMRejects

OutcomeStep ==
  \/ Approve \/ Reject \/ ResumeWaitingParent
  \/ Requeue \/ GiveUp \/ SaveEscalated
  \/ \E kept \in SUBSET Path : Rollback(kept)
  \/ \E e \in Task, created \in {now, now + 1} : SaveEscalationTask(e, created)
  \/ \E c \in Task, role \in Role, created \in {now, now + 1} :
       SpawnChild(c, role, created)
  \/ SpawnParent

PipelineStep == RunStep \/ OutputStep \/ ReviewStep \/ OutcomeStep

Next == PipelineStep \/ Start \/ SaveFails \/ Cancel \/ Crash

Spec == Init /\ [][Next]_vars

\* The goroutine is scheduled and the calls it makes return.  taskTimeout bounds
\* an execution and rate_limit_max_wait a throttled call; that an LLM request
\* which is not throttled returns is an assumption on the provider.  Nothing is
\* assumed of the answers, nor of whether the pipeline is started.
FairSpec == Spec /\ WF_vars(PipelineStep)

-----------------------------------------------------------------------------
(* Safety *)

\* A task that was ever started has only done dependencies (tasks.go:71), through
\* retries, rejections, parking, crashes and failed saves: no row that is done can
\* become anything else, and a requeued task is looked at afresh by FirstPending.
DependenciesRespected ==
  \A t \in Existing :
    db[t].status \in InFlight \cup Terminal \cup {"waiting_subtask"}
      => \A d \in db[t].deps : d \in Existing /\ db[d].status = "done"

\* A parked task waits for a row that exists and names it as its parent, and no
\* two wait for the same one: FindWaitingForSubtask, which scans a single row,
\* wakes the right task.  Holds across a crash between the two saves of
\* spawnSubTask (pipeline.go:533, 540).
ParkedTaskHasItsSubtask ==
  \A p \in Task : db[p].status = "waiting_subtask" =>
    /\ db[p].subtask \in Existing
    /\ db[db[p].subtask].parent = p
    /\ WaitingFor(db[p].subtask) = {p}

\* Review iterations and failed attempts draw on one budget (349, 417, 621): no
\* output is asked for, and no task queued or parked, once it is used up, and only
\* an escalated task may have spent it.
RetryBudgetKept ==
  /\ pc \in {"work", "rework", "spawnChild", "spawnParent"} => mem.retry < MaxRetry
  /\ \A t \in Existing : db[t].retry >= MaxRetry => db[t].status = "escalated"

\* The next three hold while the process is not killed and saves succeed.

\* A row says in_progress or pending_review only while the goroutine works on it:
\* every way out of processTask leaves the task where a later step finds it.
NothingStranded ==
  \A t \in Task : db[t].status \in InFlight => cur = t

\* A sub-task is never finished behind its parent's back: the only time a task
\* waits for one that is done is between the done save and resumeWaitingParent.
NoLostWakeup ==
  \A p \in Task :
    (db[p].status = "waiting_subtask" /\ db[db[p].subtask].status = "done")
      => pc = "resume" /\ cur = db[p].subtask

\* README 585: whoever is escalated has a child for the PM.  A sub-task it once asked
\* the PM for would pass for one, as nothing in the two rows differs.
EscalationReachesPM ==
  \A t \in Task : db[t].status = "escalated" =>
    \/ pc = "escalateTask" /\ cur = t
    \/ \E e \in Existing : db[e].parent = t /\ db[e].role = "pm"

\* "Roll back files written by this task" (634): of the files an escalated task was
\* the last to write, whichever of its attempts wrote them, with re-runs, rejections,
\* sub-tasks and stops in between, only those are left that a failed WriteFiles had
\* written and put on no record (pipeline.go:308), or that os.Remove could not
\* remove, which takes them off the record all the same (636).
EscalationCleansUp ==
  \A t \in Task : db[t].status = "escalated" =>
    \A p \in Path : disk[p].by = t => disk[p].lost

\* Work a reviewer found fault with never reaches the PM or the done column.
RejectedWorkStops ==
  pc \in {"submit", "pmReview", "approve", "resume"} =>
    "changes" \notin {verdict.reviewer, verdict.security, verdict.pm}

\* The row of the active task lags behind processTask's copy in a fixed way: the
\* columns nothing assigns agree, and the stored status is the one of the last
\* save on the path to `pc`.  With the next two this makes the properties above
\* inductive.
Working == {"context", "work", "exec", "codeReview", "securityReview", "rework",
            "submit", "fail", "rollback", "spawnChild"}

StoredStatus ==
  CASE pc = "claim"                                       -> "pending"
    [] pc \in Working \cup {"escalate", "spawnParent"}     -> "in_progress"
    [] pc \in {"pmReview", "approve", "reject"}            -> "pending_review"
    [] pc = "escalateTask"                                -> "escalated"
    [] pc = "resume"                                      -> "done"

HeldStatus ==
  CASE pc = "claim" \/ pc \in Working                     -> "in_progress"
    [] pc \in {"pmReview", "approve", "reject"}            -> "pending_review"
    [] pc \in {"escalate", "escalateTask"}                -> "escalated"
    [] pc = "spawnParent"                                 -> "waiting_subtask"
    [] pc = "resume"                                      -> "done"

ActiveTaskHeld ==
  /\ pc \in LoopPoints => cur = NoTask
  /\ pc \notin LoopPoints =>
       /\ cur \in Task
       /\ mem.role = db[cur].role /\ mem.deps = db[cur].deps
       /\ mem.parent = db[cur].parent
       /\ db[cur].status = StoredStatus /\ mem.status = HeldStatus
       /\ pc = "spawnParent" \/ mem.subtask = db[cur].subtask
       /\ AllDepsDone(mem.deps)

\* Between the two saves of spawnSubTask the child has its parent, which alone
\* is going to wait for it.
ChildAwaitsParking ==
  pc = "spawnParent" =>
    /\ mem.subtask \in Existing \ {cur}
    /\ db[mem.subtask].parent = cur
    /\ WaitingFor(mem.subtask) = {}

\* Only on the way to an escalation does processTask hold a spent budget.
HeldRetryBudget ==
  pc \notin LoopPoints \cup {"rollback", "escalate", "escalateTask"}
    => mem.retry < MaxRetry

IInv ==
  /\ TypeOK
  /\ ActiveTaskHeld /\ ChildAwaitsParking /\ HeldRetryBudget
  /\ DependenciesRespected /\ ParkedTaskHasItsSubtask /\ RetryBudgetKept

\* Every committed save moves a task the way TaskLifecycle allows, or moves none.
Lifecycle == INSTANCE TaskLifecycle WITH
  status   <- [t \in Task |-> db[t].status],
  deps     <- [t \in Task |-> db[t].deps],
  waitsFor <- [t \in Task |-> db[t].subtask]

\* The table keeps that promise across crashes, failed saves and cancellations.
KeepsLifecycle == Lifecycle!Spec

-----------------------------------------------------------------------------
(* What the code says of itself and does not do *)

\* README 624: "Kill and restart the container -- the pipeline resumes exactly
\* where it left off."  After a restart the task that was being worked on is
\* picked up again, or at least still queued: no row stays in flight when the
\* loop goes to sleep for lack of work.
ResumesWhereItLeftOff ==
  pc = "sleep" => \A t \in Task : db[t].status \notin InFlight

-----------------------------------------------------------------------------
(* Liveness *)

\* However roles, executor and reviewers answer, a run of processTask ends: the
\* review loops, which have no bound of their own, run out of retries.
EveryRunEnds == (cur # NoTask) ~> (cur = NoTask)

\* While the pipeline runs a parked task is woken, unless a sub-task was escalated
\* (nobody wakes its parent then), or the PM goes on rejecting work, or roles go on
\* asking for sub-tasks: neither has a limit (507, 302).  In an instance Task is
\* finite and the last cannot happen.
ParkedTaskWoken ==
  \/ []<><<PMRejects>>_vars
  \/ []<><<RoleWantsSubTask>>_vars
  \/ \A p \in Task :
       (db[p].status = "waiting_subtask")
         ~> \/ db[p].status # "waiting_subtask"
            \/ \E c \in Task : db[c].status = "escalated" /\ db[c].parent # NoTask
=============================================================================
