-------------------------------- MODULE Chat --------------------------------
(***************************************************************************)
(* LocalServer.Chat: a client talks to a role while the pipeline works.    *)
(* The answer goes through three goroutines and three channels,            *)
(*                                                                         *)
(*   Stream --buf--> LoggingProvider --pipe--> Chat --out--> client        *)
(*                                                                         *)
(* and at the end the exchange may be injected: appended to the            *)
(* *model.Task that was active when the chat began, and saved with it.     *)
(*                                                                         *)
(* Of the pipeline (module Pipeline) what is kept is which *model.Task it  *)
(* works on, the statuses it gives it, and their saves, each a step of     *)
(* its own.  A task's conversation is left out, and the race of the two    *)
(* appends to it.                                                          *)
(***************************************************************************)
EXTENDS RateLimit, Sequences

CONSTANTS
  Client,      \* chats
  Task,
  ChanCap,     \* capacity of the channels (256, 64 and 64)
  MaxChunks,   \* bound on the length of an answer
  MaxCopies    \* bound on the tasks FirstPending returns

ASSUME CallersAssumption == Caller = Client
ASSUME SizesAssumption   == ChanCap \in Nat \ {0} /\ MaxChunks \in Nat /\ MaxCopies \in Nat

VARIABLES
  row,      \* the status of each task in the tasks table
  copy,     \* the *model.Task values fetched to be changed, in order, and whether the
            \* status last given to each has been saved
  active,   \* p.activeTask (0: nil)
  work,     \* what is next in processTask
  held,     \* the active task each chat with the inject flag found (0: nil, or no flag)
  taken,    \* the status the save of a chat has read of it
  sender,   \* the goroutine that calls provider.Stream
  logger,   \* the goroutine of LoggingProvider.Stream
  copier,   \* the goroutine of Chat
  sent,     \* chunks of the answer sent so far
  buf, pipe, out,   \* the channels
  shown     \* the last of what the client received

taskVars == <<row, copy, active, work>>
pathVars == <<held, taken, sender, logger, copier, sent, buf, pipe, out, shown>>
vars     == <<limitVars, taskVars, pathVars>>

Status == {"absent", "pending", "in_progress", "waiting_subtask", "pending_review", "done",
           "escalated"}
Copy   == [of : Task, status : Status, saved : BOOLEAN]
Error   == <<"error">>
Nothing == <<>>
Chunk  == Nat \X Nat   \* the attempt it belongs to, and its place

TypeOK ==
  /\ LimitTypeOK
  /\ row \in [Task -> Status]
  /\ copy \in Seq(Copy) /\ active \in 0..Len(copy)
  /\ work \in {"none", "deciding", "saving", "closing", "waking", "leaving"}
  /\ held \in [Client -> 0..Len(copy)] /\ taken \in [Client -> Status]
  /\ sender \in [Client -> {"off", "on", "reporting", "done"}]
  /\ logger \in [Client -> {"off", "on", "draining", "done"}]
  /\ copier \in [Client -> {"off", "on", "injecting", "saving", "done"}]
  /\ sent \in [Client -> 0..MaxChunks]
  /\ \A q \in {buf, pipe} : q \in [Client -> Seq(Chunk)]
  /\ out \in [Client -> Seq(Chunk \cup {Error})]
  /\ shown \in [Client -> Chunk \cup {Error, Nothing}]
  /\ \A q \in {buf, pipe, out}, c \in Client : Len(q[c]) <= ChanCap

Init ==
  /\ LimitInit
  /\ row = [t \in Task |-> "absent"] /\ copy = <<>> /\ active = 0
  /\ work = "none"
  /\ held = [c \in Client |-> 0] /\ taken = [c \in Client |-> "absent"]
  /\ sender = [c \in Client |-> "off"] /\ logger = [c \in Client |-> "off"]
  /\ copier = [c \in Client |-> "off"] /\ sent = [c \in Client |-> 0]
  /\ buf = [c \in Client |-> <<>>] /\ pipe = [c \in Client |-> <<>>]
  /\ out = [c \in Client |-> <<>>] /\ shown = [c \in Client |-> <<>>]

-----------------------------------------------------------------------------
(* The pipeline *)

\* Somewhere on its way a chat has the task of a copy to inject into.
Holds(c) == copier[c] \in {"on", "injecting", "saving"} /\ held[c] # 0

\* A new task, of the PM or a role, has a new id: one no one holds a task by.
Create(t) ==
  /\ row[t] = "absent"
  /\ \A c \in Client : Holds(c) => copy[held[c]].of # t
  /\ row' = [row EXCEPT ![t] = "pending"]
  /\ UNCHANGED <<limitVars, copy, active, work, pathVars>>

\* FirstPending builds a new *model.Task from the row; processTask makes it the
\* active one.
Process(t) ==
  /\ active = 0 /\ row[t] = "pending"
  /\ Len(copy) < MaxCopies   \* MODEL BOUND
  /\ copy' = Append(copy, [of |-> t, status |-> "pending", saved |-> TRUE])
  /\ active' = Len(copy') /\ work' = "deciding"
  /\ UNCHANGED <<limitVars, row, pathVars>>

\* The statuses processTask gives a task that has the status s.
Following(s) ==
  CASE s = "pending"        -> {"in_progress"}
    [] s = "in_progress"    -> {"pending", "waiting_subtask", "pending_review", "done",
                                "escalated"}
    [] s = "pending_review" -> {"pending", "done"}
    [] OTHER                -> {}

\* Mutant of SetStatus: the new status goes to the table and not to the task in memory.
SetRowOnly(status) ==
  /\ work = "deciding" /\ status \in Following(row[copy[active].of])
  /\ row' = [row EXCEPT ![copy[active].of] = status]
  /\ work' = IF status \in {"in_progress", "pending_review"} THEN "deciding" ELSE "leaving"
  /\ UNCHANGED <<limitVars, copy, active, pathVars>>

\* A new status, in memory.
SetStatus(status) ==
  /\ work = "deciding" /\ status \in Following(copy[active].status)
  /\ copy' = [copy EXCEPT ![active].status = status, ![active].saved = FALSE]
  /\ work' = "saving"
  /\ UNCHANGED <<limitVars, row, active, pathVars>>

\* Its save, or one of a task in progress whose conversation has grown.  processTask
\* gives up when it fails.
SaveStatus ==
  LET task == copy[active] IN
  /\ \/ work = "saving"
     \/ work = "deciding" /\ task.status = "in_progress"
  /\ \/ /\ row' = [row EXCEPT ![task.of] = task.status]
        /\ copy' = [copy EXCEPT ![active].saved = TRUE]
        /\ work' = CASE task.status \in {"in_progress", "pending_review"} -> "deciding"
                     [] task.status = "done" -> "closing"
                     [] OTHER                -> "leaving"
     \/ work' = "leaving" /\ UNCHANGED <<row, copy>>
  /\ UNCHANGED <<limitVars, active, pathVars>>

\* resumeWaitingParent fetches the task that waits for this one (any other that waits,
\* here), and gives it its new status.
FindWaiting(t) ==
  /\ work = "closing" /\ row[t] = "waiting_subtask" /\ copy[active].of # t
  /\ Len(copy) < MaxCopies   \* MODEL BOUND
  /\ copy' = Append(copy, [of |-> t, status |-> "pending", saved |-> FALSE])
  /\ work' = "waking"
  /\ UNCHANGED <<limitVars, row, active, pathVars>>

\* The parent is saved; an error is logged.
WakeParent ==
  /\ work = "waking"
  /\ \/ /\ row' = [row EXCEPT ![copy[Len(copy)].of] = "pending"]
        /\ copy' = [copy EXCEPT ![Len(copy)].saved = TRUE]
     \/ UNCHANGED <<row, copy>>
  /\ work' = "leaving"
  /\ UNCHANGED <<limitVars, active, pathVars>>

\* The deferred setActive(nil).
Return ==
  /\ work \in {"closing", "leaving"}
  /\ active' = 0 /\ work' = "none"
  /\ UNCHANGED <<limitVars, row, copy, pathVars>>

\* Reset: the run has ended (LocalServer), tables and markers are cleared.  Chats go on.
Reset ==
  /\ active = 0 /\ \E t \in Task : row[t] # "absent"
  /\ row' = [t \in Task |-> "absent"]
  /\ marker' = [r \in Role |-> 0]
  /\ UNCHANGED <<callVars, copy, active, work, pathVars>>

-----------------------------------------------------------------------------
(* A chat: begin, stream *)

Open(c, inject) ==
  /\ copier[c] = "off" /\ Ask(c)
  /\ held' = [held EXCEPT ![c] = IF inject THEN active ELSE 0]
  /\ sender' = [sender EXCEPT ![c] = "on"] /\ logger' = [logger EXCEPT ![c] = "on"]
  /\ copier' = [copier EXCEPT ![c] = "on"]
  /\ UNCHANGED <<taskVars, taken, sent, buf, pipe, out, shown>>

\* Mutant of Emit: a chunk is dropped when the channel is full.
EmitOrDrop(c) ==
  /\ sender[c] = "on" /\ call[c] = "asking" /\ sent[c] < MaxChunks
  /\ sent' = [sent EXCEPT ![c] = @ + 1]
  /\ buf' = [buf EXCEPT ![c] = IF Len(@) < ChanCap THEN Append(@, <<attempt[c], sent'[c]>>) ELSE @]
  /\ UNCHANGED <<limitVars, taskVars, held, taken, sender, logger, copier, pipe, out, shown>>

\* The provider sends a token.  (When the client has left it may return instead,
\* which is one of the ways a call fails.)
Emit(c) ==
  /\ sender[c] = "on" /\ call[c] = "asking" /\ sent[c] < MaxChunks
  /\ Len(buf[c]) < ChanCap
  /\ sent' = [sent EXCEPT ![c] = @ + 1]
  /\ buf' = [buf EXCEPT ![c] = Append(@, <<attempt[c], sent'[c]>>)]
  /\ UNCHANGED <<limitVars, taskVars, held, taken, sender, logger, copier, pipe, out, shown>>

\* The retry loop around the provider.  A retry begins the answer anew, whatever
\* has been sent of it.
Stream(c) ==
  /\ sender[c] = "on" /\ CallStep(c)
  /\ sent' = [sent EXCEPT ![c] = IF call'[c] = "waiting" THEN 0 ELSE @]
  /\ UNCHANGED <<taskVars, held, taken, sender, logger, copier, buf, pipe, out, shown>>

\* Stream has returned, buf is closed and the logger has gone.  An error that is not
\* the client's leaving is going to be reported; otherwise pipe is closed.
StreamEnds(c) ==
  /\ sender[c] = "on" /\ call[c] \in Returned /\ logger[c] = "done"
  /\ sender' = [sender EXCEPT ![c] =
                  IF call[c] = "failed" /\ ~dropped[c] THEN "reporting" ELSE "done"]
  /\ UNCHANGED <<limitVars, taskVars, held, taken, logger, copier, sent, buf, pipe, out, shown>>

\* A send that gives up when out is full; then pipe is closed.
Report(c) ==
  /\ sender[c] = "reporting" /\ copier[c] # "done"
  /\ out' = [out EXCEPT ![c] = IF Len(@) < ChanCap THEN Append(@, Error) ELSE @]
  /\ sender' = [sender EXCEPT ![c] = "done"]
  /\ UNCHANGED <<limitVars, taskVars, held, taken, logger, copier, sent, buf, pipe, shown>>

\* The same send when Chat has closed out: it panics, and the process dies.  A new
\* one finds the rows as they are.
Panic(c) ==
  /\ sender[c] = "reporting" /\ copier[c] = "done"
  /\ call' = [d \in Caller |-> "idle"] /\ dropped' = [d \in Caller |-> FALSE]
  /\ attempt' = [d \in Caller |-> 0] /\ waited' = attempt' /\ delay' = attempt'
  /\ marker' = [r \in Role |-> 0]
  /\ copy' = <<>> /\ active' = 0 /\ work' = "none" /\ row' = row
  /\ held' = [d \in Client |-> 0] /\ taken' = [d \in Client |-> "absent"]
  /\ copier' = [d \in Client |-> "done"] /\ sender' = copier' /\ logger' = copier'
  /\ sent' = [d \in Client |-> 0]
  /\ buf' = [d \in Client |-> <<>>] /\ pipe' = buf' /\ out' = buf' /\ shown' = buf'

-----------------------------------------------------------------------------
(* A chat: the logger, the copier and the client *)

\* Mutant of Forward: a chunk for which there is no room is dropped.
ForwardOrDrop(c) ==
  /\ logger[c] = "on" /\ buf[c] # <<>>
  /\ pipe' = [pipe EXCEPT ![c] = IF Len(@) < ChanCap THEN Append(@, Head(buf[c])) ELSE @]
  /\ buf' = [buf EXCEPT ![c] = Tail(@)]
  /\ UNCHANGED <<limitVars, taskVars, held, taken, sender, logger, copier, sent, out, shown>>

Forward(c) ==
  /\ logger[c] = "on" /\ buf[c] # <<>> /\ Len(pipe[c]) < ChanCap
  /\ pipe' = [pipe EXCEPT ![c] = Append(@, Head(buf[c]))]
  /\ buf' = [buf EXCEPT ![c] = Tail(@)]
  /\ UNCHANGED <<limitVars, taskVars, held, taken, sender, logger, copier, sent, out, shown>>

\* Mutant of ForwardQuits: the send does not select on ctx.Done().
ForwardInsists(c) ==
  /\ logger[c] = "on" /\ buf[c] = <<>> /\ dropped[c]
  /\ logger' = [logger EXCEPT ![c] = "draining"]
  /\ UNCHANGED <<limitVars, taskVars, held, taken, sender, copier, sent, buf, pipe, out, shown>>

\* With a chunk in hand and the client gone, the logger empties buf until it is closed.
ForwardQuits(c) ==
  /\ logger[c] = "on" /\ buf[c] # <<>> /\ dropped[c]
  /\ logger' = [logger EXCEPT ![c] = "draining"]
  /\ UNCHANGED <<limitVars, taskVars, held, taken, sender, copier, sent, buf, pipe, out, shown>>

Drain(c) ==
  /\ logger[c] = "draining" /\ buf[c] # <<>>
  /\ buf' = [buf EXCEPT ![c] = Tail(@)]
  /\ UNCHANGED <<limitVars, taskVars, held, taken, sender, logger, copier, sent, pipe, out, shown>>

LoggerEnds(c) ==
  /\ logger[c] \in {"on", "draining"} /\ buf[c] = <<>> /\ call[c] \in Returned
  /\ logger' = [logger EXCEPT ![c] = "done"]
  /\ UNCHANGED <<limitVars, taskVars, held, taken, sender, copier, sent, buf, pipe, out, shown>>

Deliver(c) ==
  /\ copier[c] = "on" /\ pipe[c] # <<>> /\ Len(out[c]) < ChanCap
  /\ out' = [out EXCEPT ![c] = Append(@, Head(pipe[c]))]
  /\ pipe' = [pipe EXCEPT ![c] = Tail(@)]
  /\ UNCHANGED <<limitVars, taskVars, held, taken, sender, logger, copier, sent, buf, shown>>

\* With a chunk in hand and the client gone, Chat returns and closes out.
DeliverQuits(c) ==
  /\ copier[c] = "on" /\ pipe[c] # <<>> /\ dropped[c]
  /\ copier' = [copier EXCEPT ![c] = "done"]
  /\ UNCHANGED <<limitVars, taskVars, held, taken, sender, logger, sent, buf, pipe, out, shown>>

\* Mutant of PipeEnds: an empty channel is taken for a closed one.
PipeSeemsToEnd(c) ==
  /\ copier[c] = "on" /\ pipe[c] = <<>> /\ sent[c] > 0
  /\ copier' = [copier EXCEPT ![c] = IF held[c] # 0 THEN "injecting" ELSE "done"]
  /\ UNCHANGED <<limitVars, taskVars, held, taken, sender, logger, sent, buf, pipe, out, shown>>

\* pipe is closed and empty.
PipeEnds(c) ==
  /\ copier[c] = "on" /\ pipe[c] = <<>> /\ sender[c] = "done"
  /\ copier' = [copier EXCEPT ![c] = IF held[c] # 0 THEN "injecting" ELSE "done"]
  /\ UNCHANGED <<limitVars, taskVars, held, taken, sender, logger, sent, buf, pipe, out, shown>>

\* The exchange is appended to the task found at the beginning, and Save reads its
\* columns as they are in memory now.
Inject(c) ==
  /\ copier[c] = "injecting"
  /\ taken' = [taken EXCEPT ![c] = copy[held[c]].status]
  /\ copier' = [copier EXCEPT ![c] = "saving"]
  /\ UNCHANGED <<limitVars, taskVars, held, sender, logger, sent, buf, pipe, out, shown>>

\* The statement is executed: all the columns are written as they were read.  Whether the
\* task is still the active one is not looked at, nor whether the save fails.
SaveInjected(c) ==
  /\ copier[c] = "saving"
  /\ \/ row' = [row EXCEPT ![copy[held[c]].of] = taken[c]]
     \/ row' = row
  /\ copier' = [copier EXCEPT ![c] = "done"]
  /\ UNCHANGED <<limitVars, copy, active, work, held, taken, sender, logger, sent, buf, pipe, out,
                 shown>>

Receive(c) ==
  /\ out[c] # <<>>
  /\ shown' = [shown EXCEPT ![c] = Head(out[c])]
  /\ out' = [out EXCEPT ![c] = Tail(@)]
  /\ UNCHANGED <<limitVars, taskVars, held, taken, sender, logger, copier, sent, buf, pipe>>

\* Ctrl-C, or the connection is lost.
HangUp(c) ==
  /\ copier[c] \notin {"off", "done"} /\ ~dropped[c]
  /\ dropped' = [dropped EXCEPT ![c] = TRUE]
  /\ UNCHANGED <<call, attempt, waited, delay, marker, taskVars, pathVars>>

-----------------------------------------------------------------------------

SenderStep(c) == Stream(c) \/ StreamEnds(c) \/ Report(c) \/ Panic(c)
LoggerStep(c) == Forward(c) \/ ForwardQuits(c) \/ Drain(c) \/ LoggerEnds(c)
CopierStep(c) == Deliver(c) \/ DeliverQuits(c) \/ PipeEnds(c) \/ Inject(c) \/ SaveInjected(c)

PipelineStep ==
  \/ SaveStatus \/ WakeParent \/ Return \/ Reset
  \/ \E t \in Task : Create(t) \/ Process(t) \/ FindWaiting(t)
  \/ \E status \in Status : SetStatus(status)

Next ==
  \/ PipelineStep
  \/ \E c \in Client :
       \/ \E inject \in BOOLEAN : Open(c, inject)
       \/ Emit(c) \/ SenderStep(c) \/ LoggerStep(c) \/ CopierStep(c)
       \/ Receive(c) \/ HangUp(c)

Spec == Init /\ [][Next]_vars

\* Goroutines are scheduled, a provider returns, timers fire, and a client that has
\* not left reads on (both clients are a loop that does nothing else).
Fairness ==
  \A c \in Client :
    /\ WF_vars(SenderStep(c)) /\ WF_vars(LoggerStep(c)) /\ WF_vars(CopierStep(c))
    /\ WF_vars(Receive(c))

FairSpec == Spec /\ Fairness

-----------------------------------------------------------------------------
(* Properties *)

\* What a client has received last and what it is going to.
Delivered(c) == <<shown[c]>> \o out[c]

IsChunk(x) == x \notin {Error, Nothing}

\* One chunk of an attempt after another, and a later attempt from its first chunk on.
Follows(x, y) ==
  \/ y[1] = x[1] /\ y[2] = x[2] + 1
  \/ y[1] > x[1] /\ y[2] = 1

\* Each chunk follows the one before it, whatever there is between the two.
InSequence(q) ==
  \A i, j \in DOMAIN q :
    (i < j /\ IsChunk(q[i]) /\ IsChunk(q[j]) /\ \A k \in i + 1..j - 1 : ~IsChunk(q[k]))
      => Follows(q[i], q[j])

\* Chunks reach the client in the order they were sent, through three channels and
\* two goroutines, and none is left out; a retry begins the answer again at its first
\* chunk.  (The error report is sent past the copier, and may come between two chunks.)
ChunksInOrder == \A c \in Client : InSequence(Delivered(c))

\* Of an answer that came to its end, a client that stayed has the whole when out is
\* closed, and the whole is what a chat injects: nothing of it is left in a channel that is
\* closed or given up.  (A stream that failed is injected too, with what it brought, which
\* may be nothing, against pipeline.go:592: nothing is said of it here.)
AnswerIsWhole ==
  \A c \in Client :
    (copier[c] \in {"injecting", "saving", "done"} /\ call[c] = "answered" /\ ~dropped[c] /\ sent[c] > 0)
      => Delivered(c)[Len(Delivered(c))] = <<attempt[c], sent[c]>>

\* Everything under way to a client, but what the logger throws away.
Line(c) == out[c] \o pipe[c] \o IF logger[c] = "draining" THEN <<>> ELSE buf[c]

Going(c)  == IF call[c] \in Returned THEN call[c] ELSE "on"
Place(c)  == CASE call[c] = "failed"  -> <<0, 0>>
               [] call[c] = "waiting" -> <<attempt[c] + 1, 0>>
               [] OTHER               -> <<attempt[c], sent[c]>>
Reader(c) == IF ~dropped[c] THEN "reading"
             ELSE IF logger[c] \in {"draining", "done"} THEN "cut" ELSE "left"

\* The three channels are the one line of chunks AnswerFeed promises: a chunk leaves it
\* only when the client has left, and an error joins it only when the call has failed.
Feed == INSTANCE AnswerFeed WITH
  going  <- [c \in Client |-> Going(c)],
  place  <- [c \in Client |-> Place(c)],
  reader <- [c \in Client |-> Reader(c)],
  line   <- [c \in Client |-> Line(c)]

FeedsTheClient == Feed!Spec

\* A chat ends, its three goroutines with it, whether the client stays or leaves and
\* however full the channels are.
ChatEnds ==
  \A c \in Client : copier[c] # "off" ~>
    copier[c] = "done" /\ sender[c] = "done" /\ logger[c] = "done"

\* A chat that had found an earlier fetch of the task of copy h, or has read another
\* status of it, has ended, and may have saved it.
PutBack(h) ==
  \E d \in Client : /\ copier[d] = "done" /\ held[d] \in 1..h /\ copy[held[d]].of = copy[h].of
                    /\ held[d] < h \/ taken[d] # copy[h].status

\* Another fetch of the task of copy h has come after it.
Later(h) == \E k \in h + 1..Len(copy) : copy[k].of = copy[h].of

\* The save at the end of a chat writes back every column of the task the chat began
\* with, which processTask may still be working on, have settled, or be working on
\* anew from a later fetch.  It changes no status but that of a task fetched again since,
\* of one whose status in memory changed after the save had read it, or has not been saved
\* (not yet, or its save failed), of one another chat has put back, and of a cleared row.
InjectChangesNoStatus ==
  [][\A c \in Client : copier[c] = "saving" /\ copier'[c] = "done" =>
       LET task == copy[held[c]] IN
         \/ row'[task.of] = row[task.of] \/ row[task.of] = "absent"
         \/ Later(held[c]) \/ PutBack(held[c])
         \/ taken[c] # task.status \/ ~task.saved]_vars
=============================================================================
