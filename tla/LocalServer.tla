---------------------------- MODULE LocalServer ----------------------------
(***************************************************************************)
(* internal/server/local.go: one process that owns at most one running     *)
(* pipeline and lets concurrent requests start, reset, pause, resume and   *)
(* stop it, and the pause/resume/cancel half of pipeline.Run.              *)
(*                                                                         *)
(* Every Start that succeeds makes a new Pipeline with its own context,    *)
(* flags, channels and goroutine: a run, numbered in order of launch.      *)
(* What a run does to the tables is module Pipeline; here it is only       *)
(* remembered which runs have left rows behind, and which chats hold a     *)
(* task of a run, to save it once more (module Chat has their insides).    *)
(*                                                                         *)
(* s.mu is modelled as the lock it is where it is held across calls        *)
(* (Start), and as an atomic step where the section is a few assignments.  *)
(* Pipeline.Stop and stopCh have no caller and are left out.               *)
(***************************************************************************)
EXTENDS Naturals, FiniteSets

CONSTANTS
  Handler,     \* goroutines serving POST /api/reset
  Chat,        \* chats with inject, as many as there are at a time
  Main,        \* the goroutine of `buycott start`
  NoOne,       \* nobody holds s.mu
  MaxRuns,     \* bound on the runs ever launched
  StoreFails   \* may a database call fail?

ASSUME ActorsAssumption  == Main \notin Handler /\ NoOne \notin Handler \cup {Main}
ASSUME MaxRunsAssumption == MaxRuns \in Nat \ {0} /\ StoreFails \in BOOLEAN

VARIABLES
  mu,         \* the goroutine that holds s.mu
  running,    \* s.running
  current,    \* the run s.pipe, s.cancel and s.done belong to (0: none yet)
  baseDone,   \* the context given to the first Start is cancelled
  loop,       \* where the goroutine of each run is
  paused,     \* Pipeline.paused of each run
  token,      \* the elements in Pipeline.resumeCh of each run
  cancelled,  \* pipeCtx of each run is cancelled
  pc,         \* what each request does next
  restart,    \* ResetOptions.Restart of each request
  target,     \* the run each request found when it asked the server to stop
  rows,       \* the runs that have rows in the tables which they saved themselves
  chat,       \* each chat: none, open, or done with the row it saved in the tables
  held,       \* the run the task is of that each chat has in hand (0: none yet)
  late        \* observation: the chats that were open at the last clearing

serverVars == <<mu, running, current, baseDone>>
runVars    == <<loop, paused, token, cancelled>>
resetVars  == <<pc, restart, target>>
chatVars   == <<chat, held, late>>
vars       == <<serverVars, runVars, resetVars, rows, chatVars>>

Actor    == Handler \cup {Main}
Run      == 1..MaxRuns
InRun    == {"top", "sawPaused", "waiting", "working"}
LoopAt   == {"none"} \cup InRun \cup {"exited", "unflagged", "gone"}
ActorAt  == {"idle", "stopping", "awaiting", "clearing", "starting", "launching"}

TypeOK ==
  /\ mu \in Actor \cup {NoOne} /\ running \in BOOLEAN /\ current \in 0..MaxRuns
  /\ baseDone \in BOOLEAN
  /\ loop \in [Run -> LoopAt] /\ paused \in [Run -> BOOLEAN]
  /\ token \in [Run -> 0..1] /\ cancelled \in [Run -> BOOLEAN]
  /\ pc \in [Actor -> ActorAt] /\ restart \in [Actor -> BOOLEAN]
  /\ target \in [Actor -> 0..MaxRuns]
  /\ rows \subseteq Run
  /\ chat \in [Chat -> {"none", "open", "saved"}]
  /\ held \in [Chat -> 0..MaxRuns] /\ late \subseteq Chat

\* `buycott start` is about to call Start; the listeners come up after it.
Init ==
  /\ mu = NoOne /\ running = FALSE /\ current = 0 /\ baseDone = FALSE
  /\ loop = [r \in Run |-> "none"] /\ paused = [r \in Run |-> FALSE]
  /\ token = [r \in Run |-> 0] /\ cancelled = [r \in Run |-> FALSE]
  /\ pc = [a \in Actor |-> IF a = Main THEN "starting" ELSE "idle"]
  /\ restart = [a \in Actor |-> FALSE]
  /\ target = [a \in Actor |-> 0]
  /\ rows = {} /\ late = {}
  /\ chat = [c \in Chat |-> "none"] /\ held = [c \in Chat |-> 0]

Serving == current # 0 /\ pc[Main] = "idle"

MoveLoop(r, to) == loop' = [loop EXCEPT ![r] = to]
MoveTo(a, to)   == pc' = [pc EXCEPT ![a] = to] /\ UNCHANGED <<restart, target>>

\* The request is answered, with a result or an error.
Answer(a) ==
  /\ pc' = [pc EXCEPT ![a] = "idle"]
  /\ restart' = [restart EXCEPT ![a] = FALSE]
  /\ target' = [target EXCEPT ![a] = 0]

-----------------------------------------------------------------------------
(* Start, called by `buycott start` and by a Reset that restarts *)

\* Lock, then the running check; an error returns at once.
BeginStart(a) ==
  /\ pc[a] = "starting" /\ mu = NoOne
  /\ IF running THEN Answer(a) /\ UNCHANGED mu
     ELSE MoveTo(a, "launching") /\ mu' = a
  /\ UNCHANGED <<running, current, baseDone, runVars, rows, chatVars>>

\* buildRoles or the Docker client fails.  (For `buycott start` that ends the process.)
StartFails(h) ==
  /\ pc[h] = "launching" /\ h \in Handler
  /\ mu' = NoOne /\ Answer(h)
  /\ UNCHANGED <<running, current, baseDone, runVars, rows, chatVars>>

\* A new Pipeline under a child of the base context, then Unlock.  The Pipeline it
\* replaces is garbage: its goroutine has left Run, and no one reads its flags again.
Launch(a) ==
  /\ pc[a] = "launching"
  /\ current < MaxRuns  \* MODEL BOUND: from there on every Start fails
  /\ LET r == current + 1 IN
       /\ current' = r
       /\ MoveLoop(r, "top")
       /\ cancelled' = [cancelled EXCEPT ![r] = baseDone]
  /\ paused' = [r \in Run |-> FALSE] /\ token' = [r \in Run |-> 0]
  /\ running' = TRUE /\ mu' = NoOne /\ Answer(a)
  /\ UNCHANGED <<baseDone, rows, chatVars>>

-----------------------------------------------------------------------------
(* Reset *)

BeginReset(h, again) ==
  /\ pc[h] = "idle" /\ Serving
  /\ pc' = [pc EXCEPT ![h] = "stopping"] /\ restart' = [restart EXCEPT ![h] = again]
  /\ UNCHANGED <<serverVars, runVars, target, rows, chatVars>>

\* Mutant of AskStop: running is cleared by the request and not by the run.
AskStopUnflags(h) ==
  /\ pc[h] = "stopping" /\ mu = NoOne
  /\ target' = [target EXCEPT ![h] = current]
  /\ cancelled' = [cancelled EXCEPT ![current] = @ \/ running]
  /\ running' = FALSE
  /\ pc' = [pc EXCEPT ![h] = IF running THEN "awaiting" ELSE "clearing"]
  /\ UNCHANGED <<mu, current, baseDone, loop, paused, token, restart, rows, chatVars>>

\* stopAndWait up to its Unlock.
AskStop(h) ==
  /\ pc[h] = "stopping" /\ mu = NoOne
  /\ target' = [target EXCEPT ![h] = current]
  /\ cancelled' = [cancelled EXCEPT ![current] = @ \/ running]
  /\ pc' = [pc EXCEPT ![h] = IF running THEN "awaiting" ELSE "clearing"]
  /\ UNCHANGED <<serverVars, loop, paused, token, restart, rows, chatVars>>

\* Mutant of AwaitDone: the run is told to stop and not waited for.
DoNotWait(h) ==
  /\ pc[h] = "awaiting"
  /\ MoveTo(h, "clearing")
  /\ UNCHANGED <<serverVars, runVars, rows, chatVars>>

\* <-done.
AwaitDone(h) ==
  /\ pc[h] = "awaiting" /\ loop[target[h]] = "gone"
  /\ MoveTo(h, "clearing")
  /\ UNCHANGED <<serverVars, runVars, rows, chatVars>>

\* ClearAll, one transaction, then the rate-limit markers, WipeArtifacts if asked
\* for, and the first event.  Artifacts are not tracked here.
Clear(h) ==
  /\ pc[h] = "clearing"
  /\ rows' = {}
  /\ late' = {c \in Chat : chat[c] = "open"}
  /\ chat' = [c \in Chat |-> IF c \in late' THEN "open" ELSE "none"]
  /\ held' = [c \in Chat |-> IF c \in late' THEN held[c] ELSE 0]
  /\ IF restart[h] THEN MoveTo(h, "starting") ELSE Answer(h)
  /\ UNCHANGED <<serverVars, runVars>>

ClearFails(h) ==
  /\ StoreFails
  /\ pc[h] = "clearing"
  /\ Answer(h)
  /\ UNCHANGED <<serverVars, runVars, rows, chatVars>>

-----------------------------------------------------------------------------
(* Pause, Resume, Stop *)

Pause ==
  /\ Serving /\ mu = NoOne
  /\ paused' = [paused EXCEPT ![current] = TRUE]
  /\ UNCHANGED <<serverVars, loop, token, cancelled, resetVars, rows, chatVars>>

\* Mutant of Resume: resumeCh has no buffer, so the signal needs a receiver.
ResumeUnbuffered ==
  /\ Serving /\ mu = NoOne /\ paused[current]
  /\ paused' = [paused EXCEPT ![current] = FALSE]
  /\ token' = [token EXCEPT ![current] = IF loop[current] = "waiting" THEN 1 ELSE @]
  /\ UNCHANGED <<serverVars, loop, cancelled, resetVars, rows, chatVars>>

\* A Resume of a pipeline that is not paused changes nothing; a signal that is
\* still in the channel is not doubled.
Resume ==
  /\ Serving /\ mu = NoOne /\ paused[current]
  /\ paused' = [paused EXCEPT ![current] = FALSE]
  /\ token' = [token EXCEPT ![current] = 1]
  /\ UNCHANGED <<serverVars, loop, cancelled, resetVars, rows, chatVars>>

\* SIGINT or SIGTERM cancels the base context, and with it every run's; the Stop
\* that `buycott start` then calls cancels nothing more.
Shutdown ==
  /\ Serving /\ ~baseDone
  /\ baseDone' = TRUE
  /\ cancelled' = [r \in Run |-> cancelled[r] \/ loop[r] # "none"]
  /\ UNCHANGED <<mu, running, current, loop, paused, token, resetVars, rows, chatVars>>

-----------------------------------------------------------------------------
(* The goroutine of a run: the head of the loop in pipeline.Run *)

\* ctx.Done() is polled, then isPaused.
Poll(r) ==
  /\ loop[r] = "top"
  /\ MoveLoop(r, IF cancelled[r] THEN "exited"
                 ELSE IF paused[r] THEN "sawPaused" ELSE "working")
  /\ UNCHANGED <<serverVars, paused, token, cancelled, resetVars, rows, chatVars>>

Block(r) ==
  /\ loop[r] = "sawPaused"
  /\ MoveLoop(r, "waiting")
  /\ UNCHANGED <<serverVars, paused, token, cancelled, resetVars, rows, chatVars>>

\* Mutant of HearResume: resumeCh is closed and not sent to, so it can be read for ever.
HearResumeForEver(r) ==
  /\ loop[r] = "waiting" /\ token[r] = 1
  /\ MoveLoop(r, "working")
  /\ UNCHANGED <<serverVars, paused, token, cancelled, resetVars, rows, chatVars>>

\* <-resumeCh.  Whether the pipeline is paused again by now is not looked at.
HearResume(r) ==
  /\ loop[r] = "waiting" /\ token[r] = 1
  /\ token' = [token EXCEPT ![r] = 0]
  /\ MoveLoop(r, "working")
  /\ UNCHANGED <<serverVars, paused, cancelled, resetVars, rows, chatVars>>

\* Mutant of HearCancel: the wait for Resume does not select on ctx.Done().
HearCancelAwake(r) ==
  /\ loop[r] = "working" /\ cancelled[r]
  /\ MoveLoop(r, "exited")
  /\ UNCHANGED <<serverVars, paused, token, cancelled, resetVars, rows, chatVars>>

\* ctx.Done() in the select of the pause, or in the one of the two-second sleep.
HearCancel(r) ==
  /\ loop[r] \in {"waiting", "working"} /\ cancelled[r]
  /\ MoveLoop(r, "exited")
  /\ UNCHANGED <<serverVars, paused, token, cancelled, resetVars, rows, chatVars>>

\* Whatever generateTasks and processTask save.
LeaveRow(r) ==
  /\ loop[r] = "working"
  /\ rows' = rows \cup {r}
  /\ UNCHANGED <<serverVars, runVars, resetVars, chatVars>>

\* processTask returns, or the sleep ends.
NextIteration(r) ==
  /\ loop[r] = "working"
  /\ MoveLoop(r, "top")
  /\ UNCHANGED <<serverVars, paused, token, cancelled, resetVars, rows, chatVars>>

\* FirstPending returns an error, and Run returns it.
FetchFails(r) ==
  /\ StoreFails
  /\ loop[r] = "working"
  /\ MoveLoop(r, "exited")
  /\ UNCHANGED <<serverVars, paused, token, cancelled, resetVars, rows, chatVars>>

\* The deferred function: running = false under s.mu, then close(done).
Unflag(r) ==
  /\ loop[r] = "exited" /\ mu = NoOne
  /\ running' = FALSE
  /\ MoveLoop(r, "unflagged")
  /\ UNCHANGED <<mu, current, baseDone, paused, token, cancelled, resetVars, rows, chatVars>>

CloseDone(r) ==
  /\ loop[r] = "unflagged"
  /\ MoveLoop(r, "gone")
  /\ UNCHANGED <<serverVars, paused, token, cancelled, resetVars, rows, chatVars>>

-----------------------------------------------------------------------------
(* Chat with inject, as far as the tables go *)

\* s.mu is held to ask the pipeline for the task it is working on.
OpenChat(c) ==
  /\ chat[c] = "none" /\ Serving /\ mu = NoOne /\ loop[current] = "working"
  /\ chat' = [chat EXCEPT ![c] = "open"]
  /\ held' = [held EXCEPT ![c] = current]
  /\ UNCHANGED <<serverVars, runVars, resetVars, rows, late>>

\* The injected save, an upsert of that task whatever has become of its run and row.
Inject(c) ==
  /\ chat[c] = "open"
  /\ chat' = [chat EXCEPT ![c] = "saved"]
  /\ UNCHANGED <<serverVars, runVars, resetVars, rows, held, late>>

\* The client has left, or the save fails.
DropChat(c) ==
  /\ chat[c] = "open"
  /\ chat' = [chat EXCEPT ![c] = "none"] /\ held' = [held EXCEPT ![c] = 0]
  /\ late' = late \ {c}
  /\ UNCHANGED <<serverVars, runVars, resetVars, rows>>

-----------------------------------------------------------------------------

\* What the goroutine of a run, and the one that serves a request, do.
RunStep(r) ==
  \/ Poll(r) \/ Block(r) \/ HearResume(r) \/ HearCancel(r) \/ NextIteration(r)
  \/ FetchFails(r) \/ Unflag(r) \/ CloseDone(r)

RequestStep(a) ==
  \/ AskStop(a) \/ AwaitDone(a) \/ Clear(a) \/ ClearFails(a)
  \/ BeginStart(a) \/ StartFails(a) \/ Launch(a)

Next ==
  \/ \E r \in Run : RunStep(r) \/ LeaveRow(r)
  \/ \E a \in Actor : RequestStep(a)
  \/ \E h \in Handler, again \in BOOLEAN : BeginReset(h, again)
  \/ Pause \/ Resume \/ Shutdown
  \/ \E c \in Chat : OpenChat(c) \/ Inject(c) \/ DropChat(c)

Spec == Init /\ [][Next]_vars

\* Goroutines are scheduled, and the calls a run makes return (Pipeline argues why).
\* Strong fairness is what sync.Mutex gives: it hands itself to a waiter it has kept
\* waiting; no other step is disabled by someone else once it is enabled.
Fairness ==
  /\ \A r \in Run : SF_vars(RunStep(r))
  /\ \A a \in Actor : SF_vars(RequestStep(a))

FairSpec == Spec /\ Fairness

-----------------------------------------------------------------------------
(* Properties *)

\* Start, Reset and the end of a run race over running, cancel and done, and still
\* no two runs are ever in pipeline.Run: their saves would overwrite each other.
AtMostOneRun == \A r, q \in Run : loop[r] \in InRun /\ loop[q] \in InRun => r = q

\* local.go 127-128: once a request has cleared the tables, the goroutine of the run it
\* stopped, or of any before it, brings no row back.  A chat does (526-532): its late
\* save puts a task of the stopped run into the cleared table.  Only a chat can that
\* was open when the tables were cleared; none gets hold of such a task later.
StoppedRunStaysSilent ==
  \A h \in Handler :
    pc[h] \in {"starting", "launching"} =>
      /\ rows \cap 1..target[h] = {}
      /\ \A c \in Chat : chat[c] = "saved" /\ held[c] <= target[h] => c \in late

\* A goroutine that waits for Resume while the pipeline is not paused has the
\* signal in its channel: a Resume that comes between its look at the flag and its
\* wait is not lost.
NoLostResume ==
  \A r \in Run : loop[r] \in {"sawPaused", "waiting"} /\ ~paused[r] => token[r] = 1

\* Every reset is answered, however runs end, starts fail and requests queue up.
ResetReturns == \A h \in Handler : pc[h] # "idle" ~> pc[h] = "idle"

\* cmd/pause.go 11: a run that stays paused comes to rest after its current task, or, when
\* a Resume nobody waited for has left its signal in the channel, after one more: a pause
\* can be put off by an old signal, and not for ever.
PauseTakesHold == \A r \in Run : <>[]paused[r] => <>[](loop[r] # "working")

-----------------------------------------------------------------------------
(* What makes the three invariants inductive *)

\* Runs are numbered as they are launched, and s.running is true from the launch of
\* the last one until it unflags itself; the earlier ones are past that.
RunsInOrder ==
  /\ \A r \in Run : loop[r] = "none" <=> r > current
  /\ \A r \in Run : loop[r] \in InRun \cup {"exited"} => running /\ r = current
  /\ running => current \in Run /\ loop[current] \in InRun \cup {"exited"}

\* Who is about to launch holds s.mu, and no run was flagged when it took it.
LauncherHoldsLock ==
  \A a \in Actor : pc[a] = "launching" => mu = a /\ ~running

\* A request that has stopped the server leaves no run of its time in Run.
StoppedRunsAreOut ==
  \A h \in Handler :
    /\ target[h] <= current
    /\ pc[h] \in {"clearing", "starting", "launching"} =>
         \A r \in Run : loop[r] \in InRun => r > target[h]

\* What a chat has of a stopped run once the tables are clear, it had when they were
\* cleared.
ChatsHoldOldTasks ==
  \A h \in Handler, c \in Chat :
    pc[h] \in {"starting", "launching"} /\ chat[c] # "none" /\ held[c] <= target[h]
      => c \in late

IInv ==
  /\ TypeOK
  /\ RunsInOrder /\ LauncherHoldsLock /\ StoppedRunsAreOut /\ ChatsHoldOldTasks
  /\ AtMostOneRun /\ StoppedRunStaysSilent /\ NoLostResume

-----------------------------------------------------------------------------
(* What the code says of itself and does not do *)

\* local.go 127-128: stopAndWait blocks "so callers can safely mutate shared state":
\* the tables are cleared only while nothing runs.
ResetsAStoppedServer ==
  [][\A h \in Handler : pc[h] = "clearing" /\ pc'[h] # pc[h]
       => \A r \in Run : loop[r] \notin InRun]_vars
=============================================================================
