------------------------------ MODULE Release ------------------------------
(***************************************************************************)
(* internal/pipeline/release.go: after every releaseInterval done tasks    *)
(* the PM is asked whether to cut a release of what was done since the     *)
(* last check, and a release is a directory, its RELEASE.md and a row.     *)
(*                                                                         *)
(* The check runs inside processTask, after the save of a done task, so    *)
(* that only a chat's injected save can change a task meanwhile; but the   *)
(* process may be killed between any two of its steps, and any of them may *)
(* fail.  Counter and check time are kept in pipeline_state, in whole      *)
(* seconds; failed reads and writes of the two go unnoticed.               *)
(* A reset is left out: it empties the tables, and a directory it leaves   *)
(* behind is like that of a release that was not recorded.                 *)
(***************************************************************************)
EXTENDS Naturals, Sequences

CONSTANTS
  Task,
  Version,          \* directory names, after the "v" is put before them
  releaseInterval,  \* execution.release_check_interval
  MaxTime           \* bound on the clock

ASSUME IntervalAssumption == releaseInterval \in Nat /\ MaxTime \in Nat

VARIABLES
  now,        \* the clock, in whole seconds, from 1
  doneAt,     \* updated_at of the done tasks (0: not done)
  count,      \* tasks_since_release_check
  lastCheck,  \* last_release_check_at (0: no row)
  step,       \* where processTask is
  version,    \* the version being released
  snap, doc, row,  \* the check that last wrote a version's snapshot, RELEASE.md and row (0: none)
  checks,     \* history: the checks and what became of each
  resaved,    \* history: the tasks a chat has saved after they were done
  since,      \* history: tasks done since a check began
  noted       \* history: the reset of the counter was written then

store   == <<doneAt, count, lastCheck>>
release == <<version, snap, doc, row>>
history == <<checks, resaved, since, noted>>
vars    == <<now, store, step, release, history>>

Steps == {"work", "count", "list", "stamp", "ask", "snapshot", "document", "record"}
\* What the query found, each task with its updated_at; whether it asked for more than
\* it should; and the time that was kept (0: none).
Check == [listed : SUBSET (Task \X Nat), misread : BOOLEAN, stamp : Nat]

TypeOK ==
  /\ now \in 1..(MaxTime + 1) /\ step \in Steps
  /\ doneAt \in [Task -> 0..now] /\ lastCheck \in 0..now
  /\ count \in Nat /\ (releaseInterval > 0 => count < releaseInterval)
  /\ version \in Version
  /\ snap \in [Version -> 0..Len(checks)]
  /\ doc \in [Version -> 0..Len(checks)] /\ row \in [Version -> 0..Len(checks)]
  /\ checks \in Seq(Check) /\ resaved \subseteq Task /\ since \in Nat /\ noted \in BOOLEAN

Init ==
  /\ now = 1 /\ step = "work"
  /\ doneAt = [t \in Task |-> 0] /\ count = 0 /\ lastCheck = 0
  /\ version \in Version
  /\ snap = [v \in Version |-> 0] /\ doc = snap /\ row = snap
  /\ checks = <<>> /\ resaved = {} /\ since = 0 /\ noted = TRUE

-----------------------------------------------------------------------------

\* processTask saves a task as done, and calls maybeCheckRelease.
Finish(t) ==
  /\ step = "work" /\ doneAt[t] = 0
  /\ doneAt' = [doneAt EXCEPT ![t] = now]
  /\ step' = "count" /\ since' = since + 1
  /\ UNCHANGED <<now, count, lastCheck, release, checks, resaved, noted>>

\* The save at the end of a chat that found the task while it was active, and outlived the
\* work on it: with a new updated_at, or with a status read before it was done.
ChatSaves(t) ==
  /\ doneAt[t] # 0
  /\ \E second \in {0} \cup doneAt[t]..now : doneAt' = [doneAt EXCEPT ![t] = second]
  /\ resaved' = resaved \cup {t}
  /\ UNCHANGED <<now, count, lastCheck, step, release, checks, since, noted>>

\* GetPipelineState of the counter: a failing read counts as 0.
CountRead == {count, 0}

\* The counter is off, or below the interval.
CountOnly ==
  /\ step = "count"
  /\ \E n \in CountRead :
       /\ releaseInterval = 0 \/ n + 1 < releaseInterval
       /\ count' = count \/ (releaseInterval > 0 /\ count' = n + 1)   \* or the write fails
  /\ step' = "work"
  /\ UNCHANGED <<now, doneAt, lastCheck, release, history>>

\* The interval is reached.
Due == releaseInterval > 0 /\ \E n \in CountRead : n + 1 >= releaseInterval

\* Mutant of BeginCheck: the counter is not reset.
BeginCheckAgain ==
  /\ step = "count" /\ Due
  /\ step' = "list" /\ since' = 0 /\ noted' = TRUE
  /\ UNCHANGED <<now, store, release, checks, resaved>>

\* Mutant of BeginCheck: the check time is kept before the tasks are listed.
BeginCheckStamped ==
  /\ step = "count" /\ Due
  /\ count' = 0 /\ noted' = TRUE /\ lastCheck' = now
  /\ step' = "list" /\ since' = 0
  /\ UNCHANGED <<now, doneAt, release, checks, resaved>>

\* The counter starts anew, if the write of it succeeds.
BeginCheck ==
  /\ step = "count" /\ Due
  /\ \/ count' = 0 /\ noted' = TRUE
     \/ count' = count /\ noted' = FALSE
  /\ step' = "list" /\ since' = 0
  /\ UNCHANGED <<now, doneAt, lastCheck, release, checks, resaved>>

\* Mutant of DoneSince: the second of the last check is looked at again.
DoneSinceInclusive(second) ==
  {<<t, doneAt[t]>> : t \in {u \in Task : doneAt[u] # 0 /\ doneAt[u] >= second}}

\* TaskStore.ListDoneSince.
DoneSince(second) ==
  {<<t, doneAt[t]>> : t \in {u \in Task : doneAt[u] # 0 /\ doneAt[u] > second}}

\* A check time that cannot be read is no check time: all done tasks are found.
ListDone ==
  /\ step = "list"
  /\ \E second \in {lastCheck, 0} :
       checks' = Append(checks, [listed  |-> DoneSince(second),
                                 misread |-> second # lastCheck,
                                 stamp   |-> 0])
  /\ step' = "stamp"
  /\ UNCHANGED <<now, store, release, resaved, since, noted>>

\* The check time is kept before the PM is asked.
Stamp ==
  /\ step = "stamp"
  /\ \/ lastCheck' = now /\ checks' = [checks EXCEPT ![Len(checks)].stamp = now]
     \/ UNCHANGED <<lastCheck, checks>>
  /\ step' = "ask"
  /\ UNCHANGED <<now, doneAt, count, release, resaved, since, noted>>

\* Mutant of Approve: the row is written first.
ApproveAndRecord(v) ==
  /\ step = "ask"
  /\ version' = v /\ step' = "snapshot" /\ row' = [row EXCEPT ![v] = Len(checks)]
  /\ UNCHANGED <<now, store, snap, doc, history>>

\* The PM is for a release.
Approve(v) ==
  /\ step = "ask"
  /\ version' = v /\ step' = "snapshot"
  /\ UNCHANGED <<now, store, snap, doc, row, history>>

\* Writes by the running check.
WrittenBy(f) == [f EXCEPT ![version] = Len(checks)]

\* The directory is made, and all artifacts are copied into it.  What an earlier
\* release of the same version left there stays.
Snapshot ==
  /\ step = "snapshot"
  /\ snap' = WrittenBy(snap) /\ step' = "document"
  /\ UNCHANGED <<now, store, version, doc, row, history>>

\* RELEASE.md
Document ==
  /\ step = "document"
  /\ doc' = WrittenBy(doc) /\ step' = "record"
  /\ UNCHANGED <<now, store, version, snap, row, history>>

\* ReleaseStore.Save: a new row, or new notes in the row of the version.
Record ==
  /\ step = "record"
  /\ row' = WrittenBy(row) /\ step' = "work"
  /\ UNCHANGED <<now, store, version, snap, doc, history>>

\* The list, the PM, a copy, a write or the save fails, or the PM defers: the check
\* is over, and is not repeated.
GiveUp ==
  /\ step \in {"list", "ask", "snapshot", "document", "record"}
  /\ step' = "work"
  /\ UNCHANGED <<now, store, release, history>>

\* The process is killed, and started again.
Crash ==
  /\ step # "work"
  /\ step' = "work"
  /\ UNCHANGED <<now, store, release, history>>

Tick ==
  /\ now < MaxTime   \* MODEL BOUND
  /\ now' = now + 1
  /\ UNCHANGED <<store, step, release, history>>

CheckStep ==
  \/ CountOnly \/ BeginCheck \/ ListDone \/ Stamp
  \/ \E v \in Version : Approve(v)
  \/ Snapshot \/ Document \/ Record \/ GiveUp

Next == (\E t \in Task : Finish(t) \/ ChatSaves(t)) \/ CheckStep \/ Crash \/ Tick

Spec == Init /\ [][Next]_vars

-----------------------------------------------------------------------------
(* Properties *)

\* A task is found by a second check only if the time of no check from the one to the
\* other was kept (a failed write, or a kill before it), if the second check could not
\* read the time, or if the task was saved again with a later time.
NoTaskListedTwice ==
  \A i, j \in 1..Len(checks) :
    i < j /\ checks[i].listed \cap checks[j].listed # {}
      => checks[j].misread \/ \A k \in i..(j - 1) : checks[k].stamp = 0

\* A done task the next check will pass over has been found by a check, or was done in
\* the very second of a check, unless a chat has saved it.  (What a check has found need
\* not come to the PM: a kill or an error after the time was kept loses all of it.)
OnlyTheSecondOfACheckIsLost ==
  \A t \in Task \ resaved : doneAt[t] \in 1..lastCheck =>
    \E k \in 1..Len(checks) : \/ <<t, doneAt[t]>> \in checks[k].listed
                              \/ checks[k].stamp = doneAt[t]

\* The PM is asked after releaseInterval more tasks, kills and failed reads and writes of
\* the counter or not; only a failed reset of it makes the next check early.
ChecksAreApart ==
  [][step = "count" /\ step' = "list" => since >= releaseInterval \/ ~noted]_vars

\* A release that is listed has its directory and its RELEASE.md, and they are of the
\* listed release or of a later one of the version, that a failure or a kill stopped.
RecordsFollowTheFiles ==
  \A v \in Version : row[v] <= doc[v] /\ doc[v] <= snap[v]
=============================================================================
