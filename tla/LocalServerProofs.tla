------------------------- MODULE LocalServerProofs -------------------------
(***************************************************************************)
(* Proofs about LocalServer, for every set of concurrent requests and any  *)
(* number of runs, whether or not the database fails.                      *)
(***************************************************************************)
EXTENDS LocalServer, TLAPS

\* The invariant holds before the first step.
LEMMA InitIInv == Init => IInv
<1> USE ActorsAssumption, MaxRunsAssumption
<1> SUFFICES ASSUME Init PROVE IInv
  OBVIOUS
<1>1. TypeOK
  <2>1. mu \in Actor \cup {NoOne} /\ current \in 0..MaxRuns /\ rows \subseteq Run
    BY DEF Init
  <2>7. chat \in [Chat -> {"none", "open", "saved"}] /\ held \in [Chat -> 0..MaxRuns]
    BY DEF Init
  <2>8. late \subseteq Chat
    BY DEF Init
  <2>6. running \in BOOLEAN /\ baseDone \in BOOLEAN
    BY DEF Init
  <2>2. loop \in [Run -> LoopAt]
    BY DEF Init, LoopAt
  <2>3. paused \in [Run -> BOOLEAN] /\ cancelled \in [Run -> BOOLEAN]
    BY DEF Init
  <2>4. token \in [Run -> 0..1] /\ target \in [Actor -> 0..MaxRuns]
    BY DEF Init
  <2>5. pc \in [Actor -> ActorAt] /\ restart \in [Actor -> BOOLEAN]
    BY DEF Init, ActorAt
  <2> QED
    BY <2>1, <2>2, <2>3, <2>4, <2>5, <2>6, <2>7, <2>8 DEF TypeOK
<1>2. RunsInOrder /\ LauncherHoldsLock /\ StoppedRunsAreOut
  BY DEF Init, RunsInOrder, LauncherHoldsLock, StoppedRunsAreOut, Actor, Run, InRun
<1>3. AtMostOneRun /\ StoppedRunStaysSilent /\ NoLostResume /\ ChatsHoldOldTasks
  BY DEF Init, AtMostOneRun, StoppedRunStaysSilent, NoLostResume, ChatsHoldOldTasks, Actor, Run,
     InRun
<1> QED
  BY <1>1, <1>2, <1>3 DEF IInv

\* AtMostOneRun needs no argument of its own: whoever is in Run is the current run.
LEMMA OrderedRunsAreAlone == RunsInOrder => AtMostOneRun
  BY DEF RunsInOrder, AtMostOneRun

-----------------------------------------------------------------------------
(* The goroutine of a run *)

\* A run: its loop, its saves, its end, and the flag it takes back.
LEMMA RunStepInv ==
  ASSUME IInv, NEW r \in Run, RunStep(r) \/ LeaveRow(r)
  PROVE  IInv'
<1> USE DEF IInv, TypeOK, serverVars, resetVars, chatVars
<1>1. TypeOK'
  <2> USE DEF MoveLoop, LoopAt, InRun
  <2>1. CASE Poll(r)
    BY <2>1 DEF Poll
  <2>2. CASE Block(r)
    BY <2>2 DEF Block
  <2>3. CASE HearResume(r)
    BY <2>3 DEF HearResume
  <2>4. CASE HearCancel(r)
    BY <2>4 DEF HearCancel
  <2>5. CASE NextIteration(r)
    BY <2>5 DEF NextIteration
  <2>6. CASE FetchFails(r)
    BY <2>6 DEF FetchFails
  <2>7. CASE Unflag(r)
    BY <2>7 DEF Unflag
  <2>8. CASE CloseDone(r)
    BY <2>8 DEF CloseDone
  <2>9. CASE LeaveRow(r)
    BY <2>9 DEF LeaveRow, runVars
  <2> QED
    BY <2>1, <2>2, <2>3, <2>4, <2>5, <2>6, <2>7, <2>8, <2>9 DEF RunStep
<1>2. RunsInOrder'
  BY DEF RunStep, Poll, Block, HearResume, HearCancel, NextIteration, FetchFails, Unflag,
     CloseDone, LeaveRow, MoveLoop, RunsInOrder, InRun, runVars
<1>3. LauncherHoldsLock'
  BY DEF RunStep, Poll, Block, HearResume, HearCancel, NextIteration, FetchFails, Unflag,
     CloseDone, LeaveRow, LauncherHoldsLock, runVars
<1>4. StoppedRunsAreOut'
  BY DEF RunStep, Poll, Block, HearResume, HearCancel, NextIteration, FetchFails, Unflag,
     CloseDone, LeaveRow, MoveLoop, StoppedRunsAreOut, InRun, runVars
<1>5. AtMostOneRun'
  BY <1>2 DEF RunsInOrder, AtMostOneRun, InRun
<1>6. StoppedRunStaysSilent' /\ ChatsHoldOldTasks'
  <2>1. pc' = pc /\ target' = target /\ UNCHANGED chatVars
    BY DEF RunStep, Poll, Block, HearResume, HearCancel, NextIteration, FetchFails, Unflag,
       CloseDone, LeaveRow
  <2>2. CASE LeaveRow(r)
    <3> SUFFICES ASSUME NEW h \in Handler, pc[h] \in {"starting", "launching"}
                 PROVE  (rows \cup {r}) \cap 1..target[h] = {}
      BY <2>1, <2>2 DEF StoppedRunStaysSilent, ChatsHoldOldTasks, LeaveRow
    <3>1. rows \cap 1..target[h] = {}
      BY DEF StoppedRunStaysSilent
    <3>2. r > target[h]
      BY <2>2 DEF StoppedRunsAreOut, LeaveRow, InRun
    <3>3. target[h] \in Nat
      BY DEF Actor
    <3> QED
      BY <3>1, <3>2, <3>3 DEF Run
  <2>3. CASE RunStep(r)
    <3>1. rows' = rows
      BY <2>3 DEF RunStep, Poll, Block, HearResume, HearCancel, NextIteration, FetchFails,
         Unflag, CloseDone
    <3> QED
      BY <2>1, <3>1 DEF StoppedRunStaysSilent, ChatsHoldOldTasks
  <2> QED
    BY <2>2, <2>3
<1>7. NoLostResume'
  BY DEF RunStep, Poll, Block, HearResume, HearCancel, NextIteration, FetchFails, Unflag,
     CloseDone, LeaveRow, MoveLoop, NoLostResume, runVars
<1> QED
  BY <1>1, <1>2, <1>3, <1>4, <1>5, <1>6, <1>7

-----------------------------------------------------------------------------
(* Requests *)

\* What answering a request, and moving it on, leave of the three request variables.
LEMMA RequestMoves ==
  ASSUME TypeOK, NEW a \in Actor, NEW to \in ActorAt, Answer(a) \/ MoveTo(a, to)
  PROVE  /\ pc' \in [Actor -> ActorAt]
         /\ restart' \in [Actor -> BOOLEAN]
         /\ target' \in [Actor -> 0..MaxRuns]
<1> "idle" \in ActorAt
  BY DEF ActorAt
<1>1. pc' \in [Actor -> ActorAt]
  BY DEF TypeOK, Answer, MoveTo
<1>2. restart' \in [Actor -> BOOLEAN]
  BY DEF TypeOK, Answer, MoveTo
<1>3. target' \in [Actor -> 0..MaxRuns]
  BY MaxRunsAssumption DEF TypeOK, Answer, MoveTo
<1> QED
  BY <1>1, <1>2, <1>3

\* A request that neither launches a run nor clears the tables.
LEMMA QuietRequestInv ==
  ASSUME IInv, NEW a \in Actor,
         \/ BeginStart(a) \/ StartFails(a) \/ AskStop(a) \/ AwaitDone(a) \/ ClearFails(a)
  PROVE  IInv'
<1> USE DEF IInv, serverVars, runVars, resetVars, chatVars
<1> /\ "launching" \in ActorAt /\ "clearing" \in ActorAt
    /\ "idle" \in ActorAt /\ "awaiting" \in ActorAt
  BY DEF ActorAt
<1>1. TypeOK'
  <2>1. CASE BeginStart(a)
    <3>1. Answer(a) \/ MoveTo(a, "launching")
      BY <2>1 DEF BeginStart
    <3>2. mu' \in Actor \cup {NoOne} /\ UNCHANGED <<running, current, baseDone, runVars, rows, chatVars>>
      BY <2>1 DEF BeginStart, TypeOK
    <3> QED
      BY <3>1, <3>2, RequestMoves DEF TypeOK
  <2>2. CASE StartFails(a)
    <3>1. Answer(a)
      BY <2>2 DEF StartFails
    <3> QED
      BY <2>2, <3>1, RequestMoves DEF TypeOK, StartFails
  <2>3. CASE AskStop(a)
    <3>1. pc' \in [Actor -> ActorAt]
      BY <2>3 DEF AskStop, TypeOK
    <3>2. target' \in [Actor -> 0..MaxRuns]
      BY <2>3 DEF AskStop, TypeOK
    <3>3. cancelled' \in [Run -> BOOLEAN]
      BY <2>3, Zenon DEF AskStop, TypeOK
    <3> QED
      BY <2>3, <3>1, <3>2, <3>3 DEF TypeOK, AskStop
  <2>4. CASE AwaitDone(a)
    BY <2>4, RequestMoves DEF AwaitDone, TypeOK
  <2>5. CASE ClearFails(a)
    <3>1. Answer(a)
      BY <2>5 DEF ClearFails
    <3> QED
      BY <2>5, <3>1, RequestMoves DEF TypeOK, ClearFails
  <2> QED
    BY <2>1, <2>2, <2>3, <2>4, <2>5
<1>2. RunsInOrder' /\ NoLostResume'
  BY DEF BeginStart, StartFails, AskStop, AwaitDone, ClearFails, RunsInOrder, NoLostResume
<1>3. LauncherHoldsLock'
  <2> SUFFICES ASSUME NEW b \in Actor, pc'[b] = "launching"
               PROVE  mu' = b /\ ~running'
    BY DEF LauncherHoldsLock
  <2> b # NoOne /\ (pc[b] = "launching" => mu = b /\ ~running)
    BY ActorsAssumption DEF LauncherHoldsLock, Actor
  <2>1. CASE b # a
    BY <2>1 DEF BeginStart, StartFails, AskStop, AwaitDone, ClearFails, Answer, MoveTo,
       TypeOK, LauncherHoldsLock
  <2>2. CASE b = a
    BY <2>2 DEF BeginStart, StartFails, AskStop, AwaitDone, ClearFails, Answer, MoveTo, TypeOK
  <2> QED
    BY <2>1, <2>2
<1>4. StoppedRunsAreOut'
  <2> USE DEF TypeOK, Answer, MoveTo
  <2> SUFFICES ASSUME NEW h \in Handler
               PROVE  /\ target'[h] <= current
                      /\ pc'[h] \in {"clearing", "starting", "launching"} =>
                           \A r \in Run : loop[r] \in InRun => r > target'[h]
    BY DEF BeginStart, StartFails, AskStop, AwaitDone, ClearFails, StoppedRunsAreOut
  <2> h \in Actor /\ current \in Nat /\ target[h] \in Nat
    BY DEF Actor
  <2>0. /\ target[h] <= current
        /\ pc[h] \in {"clearing", "starting", "launching"} =>
             \A r \in Run : loop[r] \in InRun => r > target[h]
    BY DEF StoppedRunsAreOut
  <2>1. CASE h # a
    BY <2>0, <2>1 DEF BeginStart, StartFails, AskStop, AwaitDone, ClearFails
  <2>2. CASE h = a /\ AskStop(a)
    <3>1. CASE running
      BY <2>2, <3>1 DEF AskStop
    <3>2. CASE ~running
      BY <2>2, <3>2 DEF AskStop, RunsInOrder
    <3> QED
      BY <3>1, <3>2
  <2>3. CASE h = a /\ AwaitDone(a)
    <3>1. \A r \in Run : loop[r] \in InRun => r > target[h]
      BY <2>0, <2>3 DEF AwaitDone, RunsInOrder, Run, InRun
    <3> QED
      BY <2>0, <2>3, <3>1 DEF AwaitDone
  <2>4. CASE h = a /\ BeginStart(a)
    BY <2>0, <2>4 DEF BeginStart
  <2>5. CASE h = a /\ (StartFails(a) \/ ClearFails(a))
    BY <2>5 DEF StartFails, ClearFails
  <2> QED
    BY <2>1, <2>2, <2>3, <2>4, <2>5
<1>5. AtMostOneRun'
  BY <1>2 DEF RunsInOrder, AtMostOneRun, InRun
<1>6. StoppedRunStaysSilent' /\ ChatsHoldOldTasks'
  <2> USE DEF TypeOK, Answer, MoveTo
  <2>1. \A h \in Handler : pc'[h] \in {"starting", "launching"} =>
          pc[h] \in {"starting", "launching"} /\ target'[h] = target[h]
    BY DEF BeginStart, StartFails, AskStop, AwaitDone, ClearFails, Actor
  <2>2. UNCHANGED <<rows, chat, held, late>>
    BY DEF BeginStart, StartFails, AskStop, AwaitDone, ClearFails
  <2> QED
    BY <2>1, <2>2 DEF StoppedRunStaysSilent, ChatsHoldOldTasks
<1> QED
  BY <1>1, <1>2, <1>3, <1>4, <1>5, <1>6

\* The lock of Start is what keeps every other run out when one is launched.
LEMMA LaunchInv ==
  ASSUME IInv, NEW a \in Actor, Launch(a)
  PROVE  IInv'
<1> USE DEF IInv
<1> DEFINE r == current + 1
<1>0. /\ r \in Run /\ current \in Nat /\ r > current /\ a # NoOne
      /\ mu = a /\ ~running
      /\ \A q \in Run : loop[q] \notin InRun \cup {"exited"}
  BY ActorsAssumption, MaxRunsAssumption
     DEF Launch, TypeOK, Run, Actor, LauncherHoldsLock, RunsInOrder
<1>1. /\ current' = r /\ loop' = [loop EXCEPT ![r] = "top"] /\ running' /\ mu' = NoOne
      /\ cancelled' = [cancelled EXCEPT ![r] = baseDone]
      /\ paused' = [q \in Run |-> FALSE] /\ token' = [q \in Run |-> 0]
      /\ Answer(a) /\ baseDone' = baseDone /\ UNCHANGED <<rows, chat, held, late>>
  BY DEF Launch, MoveLoop, chatVars
<1>2. TypeOK'
  <2>1. "idle" \in ActorAt /\ "top" \in LoopAt
    BY DEF ActorAt, LoopAt, InRun
  <2>2. /\ pc' \in [Actor -> ActorAt] /\ restart' \in [Actor -> BOOLEAN]
        /\ target' \in [Actor -> 0..MaxRuns]
    BY <1>1, <2>1, RequestMoves
  <2>3. loop' \in [Run -> LoopAt]
    BY <1>1, <2>1 DEF TypeOK
  <2>4. cancelled' \in [Run -> BOOLEAN] /\ paused' \in [Run -> BOOLEAN]
    BY <1>1 DEF TypeOK
  <2>5. token' \in [Run -> 0..1] /\ current' \in 0..MaxRuns
    BY <1>0, <1>1, MaxRunsAssumption DEF Run
  <2>6. running' \in BOOLEAN
    BY DEF Launch
  <2> QED
    BY <1>1, <2>2, <2>3, <2>4, <2>5, <2>6 DEF TypeOK
<1>3. RunsInOrder'
  <2>1. \A q \in Run : q # r => loop'[q] = loop[q]
    BY <1>0, <1>1 DEF TypeOK
  <2>2. loop'[r] = "top"
    BY <1>0, <1>1 DEF TypeOK
  <2>3. \A q \in Run : loop'[q] = "none" <=> q > r
    BY <1>0, <2>1, <2>2 DEF RunsInOrder, Run
  <2>4. \A q \in Run : loop'[q] \in InRun \cup {"exited"} => q = r
    BY <1>0, <2>1
  <2> QED
    BY <1>0, <1>1, <2>2, <2>3, <2>4 DEF RunsInOrder, InRun
<1>4. LauncherHoldsLock'
  <2> SUFFICES ASSUME NEW b \in Actor, pc'[b] = "launching"
               PROVE  FALSE
    BY DEF LauncherHoldsLock
  <2> QED
    BY <1>0, <1>1 DEF LauncherHoldsLock, Answer, TypeOK
<1>5. StoppedRunsAreOut'
  <2> SUFFICES ASSUME NEW h \in Handler
               PROVE  /\ target'[h] <= r
                      /\ pc'[h] \in {"clearing", "starting", "launching"} =>
                           \A q \in Run : loop'[q] \in InRun => q > target'[h]
    BY <1>1 DEF StoppedRunsAreOut
  <2>1. h \in Actor /\ target[h] \in Nat /\ target[h] <= current
    BY DEF Actor, TypeOK, StoppedRunsAreOut
  <2>2. target'[h] <= current
    BY <1>0, <1>1, <2>1 DEF Answer, TypeOK
  <2>3. \A q \in Run : loop'[q] \in InRun => q = r
    BY <1>0, <1>1 DEF TypeOK
  <2>4. target'[h] \in Nat
    BY <1>2, <2>1 DEF TypeOK
  <2> QED
    BY <1>0, <2>2, <2>3, <2>4
<1>6. AtMostOneRun'
  BY <1>3 DEF RunsInOrder, AtMostOneRun, InRun
<1>7. StoppedRunStaysSilent' /\ ChatsHoldOldTasks'
  <2>1. \A h \in Handler : pc'[h] \in {"starting", "launching"} =>
          pc[h] \in {"starting", "launching"} /\ target'[h] = target[h]
    BY <1>1 DEF Answer, TypeOK, Actor
  <2> QED
    BY <1>1, <2>1 DEF StoppedRunStaysSilent, ChatsHoldOldTasks
<1>8. NoLostResume'
  <2>1. \A q \in Run : loop'[q] \notin {"sawPaused", "waiting"}
    BY <1>0, <1>1 DEF TypeOK, InRun
  <2> QED
    BY <2>1 DEF NoLostResume
<1> QED
  BY <1>2, <1>3, <1>4, <1>5, <1>6, <1>7, <1>8

\* A reset clears the tables, after the run it has stopped has left Run.
LEMMA ClearInv ==
  ASSUME IInv, NEW a \in Actor, Clear(a)
  PROVE  IInv'
<1> USE DEF IInv
<1>1. /\ UNCHANGED <<mu, running, current, baseDone, loop, paused, token, cancelled>>
      /\ rows' = {} /\ pc[a] = "clearing"
      /\ Answer(a) \/ MoveTo(a, "starting")
      /\ late' = {c \in Chat : chat[c] = "open"}
      /\ chat' = [c \in Chat |-> IF c \in late' THEN "open" ELSE "none"]
      /\ held' = [c \in Chat |-> IF c \in late' THEN held[c] ELSE 0]
  BY DEF Clear, serverVars, runVars
<1>2. TypeOK'
  <2>1. "starting" \in ActorAt
    BY DEF ActorAt
  <2>2. held' \in [Chat -> 0..MaxRuns]
    BY <1>1, MaxRunsAssumption DEF TypeOK
  <2>3. chat' \in [Chat -> {"none", "open", "saved"}] /\ late' \subseteq Chat
    BY <1>1
  <2> QED
    BY <1>1, <2>1, <2>2, <2>3, RequestMoves DEF TypeOK
<1>3. RunsInOrder' /\ AtMostOneRun' /\ NoLostResume'
  BY <1>1 DEF RunsInOrder, AtMostOneRun, NoLostResume
<1>4. LauncherHoldsLock'
  <2> SUFFICES ASSUME NEW b \in Actor, pc'[b] = "launching"
               PROVE  mu' = b /\ ~running'
    BY DEF LauncherHoldsLock
  <2>1. pc[b] = "launching"
    BY <1>1 DEF Answer, MoveTo, TypeOK
  <2> QED
    BY <1>1, <2>1 DEF LauncherHoldsLock
<1>5. StoppedRunsAreOut'
  <2> SUFFICES ASSUME NEW h \in Handler
               PROVE  /\ target'[h] <= current
                      /\ pc'[h] \in {"clearing", "starting", "launching"} =>
                           \A r \in Run : loop[r] \in InRun => r > target'[h]
    BY <1>1 DEF StoppedRunsAreOut
  <2> h \in Actor /\ current \in Nat
    BY DEF Actor, TypeOK
  <2>1. CASE pc'[h] = "idle" /\ target'[h] = 0
    BY <2>1
  <2>2. CASE target'[h] = target[h] /\ (pc'[h] = pc[h] \/ pc[h] = "clearing")
    BY <2>2 DEF StoppedRunsAreOut
  <2> QED
    BY <1>1, <2>1, <2>2 DEF Answer, MoveTo, TypeOK
<1>6. StoppedRunStaysSilent' /\ ChatsHoldOldTasks'
  BY <1>1 DEF StoppedRunStaysSilent, ChatsHoldOldTasks
<1> QED
  BY <1>2, <1>3, <1>4, <1>5, <1>6

\* A chat gets hold of a task of a run that is in Run, which is none a request has
\* stopped; its save and its end leave it with what it had.
LEMMA ChatStepInv ==
  ASSUME IInv, NEW c \in Chat, OpenChat(c) \/ Inject(c) \/ DropChat(c)
  PROVE  IInv'
<1> USE DEF IInv
<1>1. UNCHANGED <<serverVars, runVars, resetVars, rows>>
  BY DEF OpenChat, Inject, DropChat
<1>2. TypeOK'
  <2>1. chat' \in [Chat -> {"none", "open", "saved"}]
    BY DEF TypeOK, OpenChat, Inject, DropChat
  <2>2. held' \in [Chat -> 0..MaxRuns] /\ late' \subseteq Chat
    BY MaxRunsAssumption DEF TypeOK, OpenChat, Inject, DropChat
  <2> QED
    BY <1>1, <2>1, <2>2 DEF TypeOK, serverVars, runVars, resetVars
<1>3. RunsInOrder' /\ LauncherHoldsLock' /\ StoppedRunsAreOut' /\ AtMostOneRun' /\ NoLostResume'
  BY <1>1 DEF serverVars, runVars, resetVars, RunsInOrder, LauncherHoldsLock, StoppedRunsAreOut,
     AtMostOneRun, NoLostResume
<1>4. ChatsHoldOldTasks'
  <2>1. pc' = pc /\ target' = target
    BY <1>1 DEF resetVars
  <2>2. CASE OpenChat(c)
    <3>1. \A h \in Handler : pc[h] \in {"starting", "launching"} => current > target[h]
      BY <2>2 DEF OpenChat, Serving, StoppedRunsAreOut, InRun, TypeOK, Run
    <3>2. /\ held' = [held EXCEPT ![c] = current] /\ chat' = [chat EXCEPT ![c] = "open"]
          /\ late' = late
      BY <2>2 DEF OpenChat
    <3>3. \A h \in Handler : current \in Nat /\ target[h] \in Nat
      BY DEF TypeOK, Actor
    <3> QED
      BY <2>1, <3>1, <3>2, <3>3 DEF ChatsHoldOldTasks, TypeOK
  <2>3. CASE Inject(c)
    BY <2>1, <2>3 DEF Inject, ChatsHoldOldTasks, TypeOK
  <2>4. CASE DropChat(c)
    BY <2>1, <2>4 DEF DropChat, ChatsHoldOldTasks, TypeOK
  <2> QED
    BY <2>2, <2>3, <2>4
<1>5. StoppedRunStaysSilent'
  BY <1>1, <1>4 DEF StoppedRunStaysSilent, ChatsHoldOldTasks, resetVars
<1> QED
  BY <1>2, <1>3, <1>4, <1>5

-----------------------------------------------------------------------------
(* What arrives from outside *)

\* A reset begins.
LEMMA BeginResetInv ==
  ASSUME IInv, NEW h \in Handler, NEW again \in BOOLEAN, BeginReset(h, again)
  PROVE  IInv'
<1> USE DEF IInv
<1> h \in Actor /\ "stopping" \in ActorAt
  BY DEF Actor, ActorAt
<1>1. /\ UNCHANGED <<mu, running, current, baseDone, loop, paused, token, cancelled, target, rows,
                  chat, held, late>>
      /\ pc' = [pc EXCEPT ![h] = "stopping"] /\ restart' = [restart EXCEPT ![h] = again]
  BY DEF BeginReset, serverVars, runVars, chatVars
<1>2. TypeOK'
  <2>1. pc' \in [Actor -> ActorAt]
    BY <1>1 DEF TypeOK
  <2>2. restart' \in [Actor -> BOOLEAN]
    BY <1>1 DEF TypeOK
  <2> QED
    BY <1>1, <2>1, <2>2 DEF TypeOK
<1>3. RunsInOrder' /\ AtMostOneRun' /\ NoLostResume'
  BY <1>1 DEF RunsInOrder, AtMostOneRun, NoLostResume
<1>4. \A b \in Actor : pc'[b] # "stopping" => pc'[b] = pc[b]
  BY <1>1 DEF TypeOK
<1>5. LauncherHoldsLock'
  BY <1>1, <1>4 DEF LauncherHoldsLock
<1>6. StoppedRunsAreOut' /\ StoppedRunStaysSilent' /\ ChatsHoldOldTasks'
  BY <1>1, <1>4 DEF StoppedRunsAreOut, StoppedRunStaysSilent, ChatsHoldOldTasks, Actor
<1> QED
  BY <1>2, <1>3, <1>5, <1>6

\* Pause, Resume and a shutdown set flags and signals only.
LEMMA FlagInv ==
  ASSUME IInv, Pause \/ Resume \/ Shutdown
  PROVE  IInv'
<1> USE DEF IInv, Pause, Resume, Shutdown, serverVars, resetVars, chatVars
<1>1. TypeOK'
  <2>1. paused' \in [Run -> BOOLEAN]
    BY DEF TypeOK
  <2>2. token' \in [Run -> 0..1]
    BY DEF TypeOK
  <2>3. cancelled' \in [Run -> BOOLEAN]
    BY DEF TypeOK
  <2>4. baseDone' \in BOOLEAN
    BY DEF TypeOK
  <2> QED
    BY <2>1, <2>2, <2>3, <2>4 DEF TypeOK
<1>2. RunsInOrder' /\ AtMostOneRun'
  BY DEF RunsInOrder, AtMostOneRun
<1>3. LauncherHoldsLock' /\ StoppedRunsAreOut' /\ StoppedRunStaysSilent' /\ ChatsHoldOldTasks'
  BY DEF LauncherHoldsLock, StoppedRunsAreOut, StoppedRunStaysSilent, ChatsHoldOldTasks
<1>4. NoLostResume'
  BY DEF NoLostResume, TypeOK
<1> QED
  BY <1>1, <1>2, <1>3, <1>4

-----------------------------------------------------------------------------
(* The theorems *)

\* Every step keeps the invariant.
LEMMA StepInv == IInv /\ [Next]_vars => IInv'
<1> SUFFICES ASSUME IInv, [Next]_vars PROVE IInv'
  OBVIOUS
<1>1. CASE \E r \in Run : RunStep(r) \/ LeaveRow(r)
  BY <1>1, RunStepInv
<1>2. CASE \E a \in Actor : RequestStep(a)
  BY <1>2, QuietRequestInv, LaunchInv, ClearInv DEF RequestStep
<1>3. CASE \E h \in Handler, again \in BOOLEAN : BeginReset(h, again)
  BY <1>3, BeginResetInv
<1>4. CASE Pause \/ Resume \/ Shutdown
  BY <1>4, FlagInv
<1>5. CASE \E c \in Chat : OpenChat(c) \/ Inject(c) \/ DropChat(c)
  BY <1>5, ChatStepInv
<1>6. CASE UNCHANGED vars
  BY <1>6 DEF vars, serverVars, runVars, resetVars, chatVars, IInv, TypeOK, RunsInOrder,
     LauncherHoldsLock, StoppedRunsAreOut, ChatsHoldOldTasks, AtMostOneRun,
     StoppedRunStaysSilent, NoLostResume
<1> QED
  BY <1>1, <1>2, <1>3, <1>4, <1>5, <1>6 DEF Next

\* In every reachable state of the server, the runs are numbered in the order they
\* were launched and only the last can be in pipeline.Run, who is about to launch
\* holds s.mu over a server that is not running, and a request that has stopped the
\* server leaves no run of its time behind.
THEOREM InductiveInvariant == Spec => []IInv
<1> QED
  BY InitIInv, StepInv, PTL DEF Spec

\* However Start, Reset, Pause and the end of a run interleave, s.running and s.mu
\* never let two goroutines into pipeline.Run.
THEOREM OneRunAtATime == Spec => []AtMostOneRun
<1>1. IInv => AtMostOneRun
  BY DEF IInv
<1> QED
  BY <1>1, InductiveInvariant, PTL

\* Between a Reset's clearing of the tables and the Start that follows it, nothing
\* that the stopped run, or an earlier one, saved is in them, nor anything a chat saved
\* of its tasks, unless that chat had one in hand when the tables were cleared.
THEOREM ClearedTablesStayClear == Spec => []StoppedRunStaysSilent
<1>1. IInv => StoppedRunStaysSilent
  BY DEF IInv
<1> QED
  BY <1>1, InductiveInvariant, PTL

\* A Resume that falls between the goroutine's look at the flag and its wait is kept
\* in resumeCh: nobody waits for a signal that has been given.
THEOREM ResumeIsKept == Spec => []NoLostResume
<1>1. IInv => NoLostResume
  BY DEF IInv
<1> QED
  BY <1>1, InductiveInvariant, PTL
=============================================================================
