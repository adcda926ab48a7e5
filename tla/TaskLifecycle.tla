--------------------------- MODULE TaskLifecycle ---------------------------
(***************************************************************************)
(* What the task table promises to its readers (the dashboard, `buycott    *)
(* status`, the PM's project state): the life of a task as README 570-585  *)
(* draws it and model/types.go names its states, with the three rules that *)
(* tie tasks together.                                                     *)
(*                                                                         *)
(*   - a task is started only when everything it depends on is done;       *)
(*   - a parked task is woken only when the sub-task it waits for is done; *)
(*   - a done or escalated task never changes again.                       *)
(***************************************************************************)
CONSTANTS Task, NoTask, UnknownId

VARIABLES
  status,   \* status[t]: the state of t, "absent" before it is created
  deps,     \* deps[t]: the ids t depends on
  waitsFor  \* waitsFor[t]: the sub-task a parked t waits for

vars == <<status, deps, waitsFor>>

Created == {t \in Task : status[t] # "absent"}
IsDone(id) == id \in Task /\ status[id] = "done"

Move(t, to) == status' = [status EXCEPT ![t] = to]

Init ==
  /\ status = [t \in Task |-> "absent"]
  /\ deps = [t \in Task |-> {}]
  /\ waitsFor = [t \in Task |-> NoTask]

\* Tasks come into being pending, depending on ids that exist already or never will.
Create(new) ==
  /\ \A t \in new : status[t] = "absent"
  /\ status' = [t \in Task |-> IF t \in new THEN "pending" ELSE status[t]]
  /\ deps' = [t \in Task |-> IF t \in new THEN deps'[t] ELSE deps[t]]
  /\ \A t \in new : deps'[t] \subseteq Created \cup {UnknownId}
  /\ UNCHANGED waitsFor

Start(t) ==
  /\ status[t] = "pending" /\ \A id \in deps[t] : IsDone(id)
  /\ Move(t, "in_progress")
  /\ UNCHANGED <<deps, waitsFor>>

Submit(t) ==
  /\ status[t] = "in_progress"
  /\ Move(t, "pending_review")
  /\ UNCHANGED <<deps, waitsFor>>

\* Approved; the PM's own tasks skip pending_review.
Finish(t) ==
  /\ status[t] \in {"in_progress", "pending_review"}
  /\ Move(t, "done")
  /\ UNCHANGED <<deps, waitsFor>>

\* A failed attempt or a rejection.
Requeue(t) ==
  /\ status[t] \in {"in_progress", "pending_review"}
  /\ Move(t, "pending")
  /\ UNCHANGED <<deps, waitsFor>>

Escalate(t) ==
  /\ status[t] = "in_progress"
  /\ Move(t, "escalated")
  /\ UNCHANGED <<deps, waitsFor>>

Park(t, c) ==
  /\ status[t] = "in_progress"
  /\ c \in Created \ {t}
  /\ Move(t, "waiting_subtask")
  /\ waitsFor' = [waitsFor EXCEPT ![t] = c]
  /\ UNCHANGED deps

Wake(t) ==
  /\ status[t] = "waiting_subtask" /\ IsDone(waitsFor[t])
  /\ Move(t, "pending")
  /\ waitsFor' = [waitsFor EXCEPT ![t] = NoTask]
  /\ UNCHANGED deps

Next ==
  \/ \E new \in SUBSET Task : Create(new)
  \/ \E t \in Task :
       \/ Start(t) \/ Submit(t) \/ Finish(t) \/ Requeue(t) \/ Escalate(t) \/ Wake(t)
       \/ \E c \in Task : Park(t, c)

Spec == Init /\ [][Next]_vars
=============================================================================
