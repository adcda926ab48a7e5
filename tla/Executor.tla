------------------------------ MODULE Executor ------------------------------
(***************************************************************************)
(* internal/executor/docker.go: DockerExecutor.Run, which runs the commands *)
(* of an output, or a security scan, in a container of its own, as steps   *)
(* of the client against the Docker daemon.                                *)
(*                                                                         *)
(* Runs follow one another (pipeline.Run has one goroutine), so there is   *)
(* one Run at a time and what earlier ones left behind.  The module that   *)
(* makes the calls extends this one, begins a Run and takes its result.    *)
(* What a container writes is left out; a log that ends early is a Run     *)
(* with less output, one that breaks inside a payload is a Run that fails. *)
(***************************************************************************)

VARIABLES
  step,    \* where Run is
  box,     \* the container of this Run, as the daemon has it
  over,    \* the context given to Run is done: its timeout, or the pipeline's
  result,  \* what Run has returned and its caller has not yet taken
  left     \* the container the last Run has left behind, and how it came to stay

execVars == <<step, box, over, result, left>>

Step   == {"idle", "creating", "starting", "waiting", "reading", "removing"}
Exited == {"zero", "nonzero"}
Box    == {"none", "created", "running"} \cup Exited
Result == {"none", "error", "passes", "fails"}

\* The context was done; the daemon did its part, refused to, or its answer was lost; the
\* process was killed.
Relic == [over : BOOLEAN, daemon : {"fine", "refused", "unanswered"}, killed : BOOLEAN]

ExecTypeOK ==
  /\ step \in Step /\ box \in Box /\ over \in BOOLEAN
  /\ result \in Result /\ left \subseteq Relic

ExecInit ==
  step = "idle" /\ box = "none" /\ over = FALSE /\ result = "none" /\ left = {}

\* Run is called: the result of the pull is ignored, but a pull that takes long uses
\* up the context of the steps after it.
BeginRun(done) ==
  /\ step = "idle" /\ result = "none"
  /\ step' = "creating" /\ over' = done /\ left' = {}
  /\ UNCHANGED <<box, result>>

\* A container that nobody is going to remove.
Remains(container, daemon, killed) ==
  IF container = "none" THEN {}
  ELSE {[over |-> over, daemon |-> daemon, killed |-> killed]}

\* Run returns, the container as the daemon has it by then.
Leaves(container, daemon) ==
  /\ step' = "idle" /\ box' = "none"
  /\ left' = Remains(container, daemon, FALSE)

\* The caller has the result.
TakeResult ==
  /\ step = "idle" /\ result # "none"
  /\ result' = "none" /\ over' = FALSE
  /\ UNCHANGED <<step, box, left>>

-----------------------------------------------------------------------------

Creates ==
  /\ step = "creating" /\ ~over
  /\ step' = "starting" /\ box' = "created"
  /\ UNCHANGED <<over, result, left>>

\* Nothing to remove then: Run has no id.  A create that is cut off by its context, or
\* whose answer is lost, may have been carried out.
CreateFails ==
  /\ step = "creating"
  /\ result' = "error"
  /\ \E container \in {"none", "created"} : Leaves(container, "unanswered")
  /\ UNCHANGED over

\* From here on the deferred ContainerRemove runs whatever happens.
Starts ==
  /\ step = "starting" /\ ~over
  /\ step' = "waiting" /\ box' = "running"
  /\ UNCHANGED <<over, result, left>>

\* Mutant of StartFails: returns without the removal (the defer comes too late).
StartFailsBare ==
  /\ step = "starting"
  /\ result' = "error" /\ Leaves(box, "fine")
  /\ UNCHANGED over

StartFails ==
  /\ step = "starting"
  /\ step' = "removing" /\ result' = "error"
  /\ box' \in {"created", "running"}
  /\ UNCHANGED <<over, left>>

\* The commands end.
Exits ==
  /\ box = "running"
  /\ box' \in Exited
  /\ UNCHANGED <<step, over, result, left>>

WaitReturns ==
  /\ step = "waiting" /\ box \in Exited
  /\ step' = "reading"
  /\ UNCHANGED <<box, over, result, left>>

\* The wait is cut off by the context, or by the daemon.
WaitFails ==
  /\ step = "waiting"
  /\ step' = "removing" /\ result' = "error"
  /\ UNCHANGED <<box, over, left>>

\* demuxLogs takes an end of the stream anywhere but inside a payload for the end.
LogsEnd ==
  /\ step = "reading"
  /\ step' = "removing"
  /\ result' = IF box = "zero" THEN "passes" ELSE "fails"
  /\ UNCHANGED <<box, over, left>>

LogsFail ==
  /\ step = "reading"
  /\ step' = "removing" /\ result' = "error"
  /\ UNCHANGED <<box, over, left>>

\* ContainerRemove with Force, under the context of the Run.
Removes ==
  /\ step = "removing" /\ ~over
  /\ Leaves("none", "fine")
  /\ UNCHANGED <<over, result>>

\* Its error is dropped.
RemoveFails ==
  /\ step = "removing"
  /\ Leaves(box, IF over THEN "fine" ELSE "refused")
  /\ UNCHANGED <<over, result>>

\* The process is killed, and with it the removal that was deferred.  A create under way
\* may be carried out all the same.
KilledRun ==
  /\ step' = "idle" /\ box' = "none" /\ over' = FALSE /\ result' = "none"
  /\ IF step = "idle" THEN left' = left
     ELSE \E container \in {box} \cup (IF step = "creating" THEN {"created"} ELSE {}) :
            left' = Remains(container, "fine", TRUE)

\* Task_timeout, or the context of the pipeline.
Expires ==
  /\ step # "idle" /\ ~over
  /\ over' = TRUE
  /\ UNCHANGED <<step, box, result, left>>

ExecStep ==
  \/ Creates \/ CreateFails \/ Starts \/ StartFails \/ Exits \/ WaitReturns \/ WaitFails
  \/ LogsEnd \/ LogsFail \/ Removes \/ RemoveFails \/ Expires

-----------------------------------------------------------------------------
(* Properties *)

\* README 118: the containers are ephemeral.  While the process lives, the daemon does its
\* part and the Run's context lasts, a container goes with its Run: whichever step failed,
\* and however far the container had come.  The four ways to leave one are a context that
\* is done by the time of the removal (a timeout always is), a refusal, a create whose
\* answer is lost, and a kill.
ContainersAreRemoved ==
  \A relic \in left : relic.over \/ relic.daemon # "fine" \/ relic.killed
=============================================================================
