------------------------------ MODULE Attempts ------------------------------
(***************************************************************************)
(* What the role of a task is told, attempt after attempt:                 *)
(* Task.ConversationHistory in internal/pipeline/pipeline.go, the request  *)
(* internal/roles/builtin.go makes of it and what the providers of         *)
(* internal/llm send, together with the containers (Executor) that the     *)
(* outputs and the security scans run in.                                  *)
(*                                                                         *)
(* One task is followed through every branch of processTask that touches   *)
(* its history.  Module Pipeline has the rest of processTask: several      *)
(* tasks, saves that fail, files.  A chat with inject may hold the task,   *)
(* also after its processTask has returned: then it saves an object nobody *)
(* else has any more.                                                      *)
(***************************************************************************)
EXTENDS Naturals, Sequences, Executor

CONSTANTS
  MaxHistory,  \* execution.max_history_messages
  MaxRetry,    \* execution.max_retries
  Reviews,     \* who reviews what the role of the task does
  Scans,       \* security scan commands
  MaxWords,    \* bound on what the role is told, over all attempts
  MaxChats     \* bound on the chats with inject

ASSUME LimitsAssumption == MaxHistory \in Nat \ {0} /\ MaxRetry \in Nat \ {0}
ASSUME ReviewsAssumption == Reviews \subseteq {"code", "security", "pm"}
ASSUME BoundsAssumption == Scans \in Nat /\ MaxWords \in Nat /\ MaxChats \in Nat

VARIABLES
  row,        \* the task in the database: status, history, retry count
  sub,        \* its sub-task is still to be done
  at,         \* where processTask is
  round,      \* which call of role.ProcessTask: the first, or after a review
  mem,        \* ConversationHistory of the object processTask works on
  retry,      \* RetryCount of that object
  words,      \* how often the role has been told something it must act on
  scans,      \* scans still to run
  cancelled,  \* the context of the pipeline is cancelled
  chat,       \* a chat holds nothing, the object in work, or one that is given up
  held,       \* that object, once it is given up
  chats       \* exchanges injected

taskVars == <<row, sub, at, round, mem, retry, words, scans>>
chatVars == <<chat, held, chats>>
vars     == <<taskVars, cancelled, chatVars, execVars>>

Message   == [from : {"user", "assistant"}, says : {"task", "word", "work", "chat"}, n : Nat]
Prompt    == [from |-> "system", says |-> "prompt", n |-> 0]
Statement == [from |-> "user", says |-> "task", n |-> 0]
Word(n)   == [from |-> "user", says |-> "word", n |-> n]
Work      == [from |-> "assistant", says |-> "work", n |-> 0]
Exchange  == << [from |-> "user", says |-> "chat", n |-> 0],
                [from |-> "assistant", says |-> "chat", n |-> 0] >>

Status == {"pending", "in_progress", "pending_review", "waiting_subtask", "done", "escalated"}
Row    == [status : Status, history : Seq(Message), retry : Nat]
InCall == {"claimed", "stating", "asking", "running", "reviewing", "scanning", "auditing",
           "submitting", "judging"}

\* The calls of ProcessTask that may follow one another in a processTask.
Round == {"first", "code", "security"}

TaskTypeOK ==
  /\ row \in Row /\ sub \in BOOLEAN
  /\ at \in InCall \cup {"idle"} /\ round \in Round
  /\ mem \in Seq(Message) /\ retry \in Nat /\ words \in Nat
  /\ scans \in 0..Scans /\ cancelled \in BOOLEAN
  /\ chat \in {"none", "open", "stale"} /\ held \in Row /\ chats \in 0..MaxChats

TypeOK == TaskTypeOK /\ ExecTypeOK

NewRow == [status |-> "pending", history |-> <<>>, retry |-> 0]

Init ==
  /\ row = NewRow /\ sub = FALSE /\ at = "idle" /\ round = "first" /\ mem = <<>>
  /\ retry = 0 /\ words = 0 /\ scans = 0 /\ cancelled = FALSE
  /\ chat = "none" /\ held = NewRow /\ chats = 0
  /\ ExecInit

-----------------------------------------------------------------------------
(* The request *)

\* The first message and the newest MaxHistory - 1.
Trim(h) ==
  IF Len(h) > MaxHistory
  THEN <<h[1]>> \o SubSeq(h, Len(h) - MaxHistory + 2, Len(h))
  ELSE h

\* Request messages: the role's prompt, then the conversation, or the bare task.
BuildMessages(h) == <<Prompt>> \o IF h = <<>> THEN <<Statement>> ELSE h

Turn == {"user", "assistant"}

\* The providers' loop over the messages, which picks those of some roles.
From(ms, roles) ==
  LET picked[i \in 0..Len(ms)] ==
        IF i = 0 THEN <<>>
        ELSE IF ms[i].from \in roles THEN Append(picked[i - 1], ms[i])
        ELSE picked[i - 1]
  IN  picked[Len(ms)]

\* Anthropic: the prompt is a parameter of its own, the turns are the messages.
AnthropicSent(ms) == From(ms, Turn)

\* OpenAI: the prompt is a message like the others.
OpenAISent(ms) == From(ms, {"system"} \cup Turn)

\* The CLIs: the turns as a labelled transcript; codex and gemini have the prompt in front.
SplitMessages(ms) == [system |-> From(ms, {"system"}), prompt |-> From(ms, Turn)]

\* Mutant of GeminiSent: the search for the message to answer stops at the first.
GeminiSentFirst(ms) ==
  LET turns == From(ms, Turn)
      asks  == {i \in DOMAIN turns : turns[i].from = "user"}
      first == CHOOSE i \in asks : \A j \in asks : i <= j
  IN  IF asks = {} THEN turns
      ELSE SubSeq(turns, 1, first - 1) \o SubSeq(turns, first + 1, Len(turns)) \o <<turns[first]>>

\* The Gemini API gets the last user message as the one to answer and all other turns as
\* the history before it.
GeminiSent(ms) ==
  LET turns == From(ms, Turn)
      asks  == {i \in DOMAIN turns : turns[i].from = "user"}
      last  == CHOOSE i \in asks : \A j \in asks : j <= i
  IN  IF asks = {} THEN turns
      ELSE SubSeq(turns, 1, last - 1) \o SubSeq(turns, last + 1, Len(turns)) \o <<turns[last]>>

-----------------------------------------------------------------------------
(* The task is fetched *)

\* processTask is entered: from now on a chat can have the object.  The row is saved
\* in_progress with the history it had.
Claim ==
  /\ at = "idle" /\ row.status = "pending" /\ ~cancelled
  /\ words < MaxWords  \* MODEL BOUND: the task is not fetched again
  /\ row' = [row EXCEPT !.status = "in_progress"]
  /\ mem' = row.history /\ retry' = row.retry
  /\ at' = "claimed"
  /\ UNCHANGED <<sub, round, words, scans, cancelled, chatVars, execVars>>

\* Only the object's history is trimmed.
TrimContext ==
  /\ at = "claimed"
  /\ mem' = Trim(mem) /\ at' = "stating"
  /\ UNCHANGED <<row, sub, round, retry, words, scans, cancelled, chatVars, execVars>>

\* The object as Save writes it while processTask works on it.
Object(h, r) ==
  [status |-> IF at = "judging" THEN "pending_review" ELSE "in_progress",
   history |-> h, retry |-> r]

\* An empty history begins with the statement of the task, and that is saved.
InjectContext ==
  /\ at = "stating"
  /\ IF mem = <<>>
     THEN mem' = <<Statement>> /\ row' = Object(mem', retry)
     ELSE UNCHANGED <<mem, row>>
  /\ at' = "asking" /\ round' = "first"
  /\ UNCHANGED <<sub, retry, words, scans, cancelled, chatVars, execVars>>

-----------------------------------------------------------------------------
(* The ends of processTask *)

\* processTask returns with this row; a chat may still hold the object.
Return(status, h, r) ==
  /\ row' = [status |-> status, history |-> h, retry |-> r]
  /\ at' = "idle" /\ mem' = <<>> /\ round' = "first" /\ retry' = 0
  /\ IF chat = "open" THEN chat' = "stale" /\ held' = row' ELSE UNCHANGED <<chat, held>>
  /\ UNCHANGED chats

\* The role is told something it must act on; the other words are the reviews'.
Tell(h) == Append(h, Word(words + 1))

\* Mutant of HandleFailure: the error is not put in the history.
HandleFailureSilently(h) ==
  /\ words' = words + 1
  /\ Return(IF retry + 1 >= MaxRetry THEN "escalated" ELSE "pending", h, retry + 1)

\* The error goes to the role, or, when the budget is spent, to the PM.
HandleFailure(h) ==
  IF retry + 1 >= MaxRetry
  THEN Return("escalated", h, retry + 1) /\ UNCHANGED words
  ELSE Return("pending", Tell(h), retry + 1) /\ words' = words + 1

-----------------------------------------------------------------------------
(* The role and its output *)

\* The call fails, or its answer does not parse.
RoleFails ==
  /\ at = "asking"
  /\ HandleFailure(mem)
  /\ UNCHANGED <<sub, scans, cancelled, execVars>>

\* assistantTurn goes in the history whatever becomes of the output.
WriteFilesFails ==
  /\ at = "asking"
  /\ HandleFailure(Append(mem, Work))
  /\ UNCHANGED <<sub, scans, cancelled, execVars>>

\* A sub-task counts in the first output only.
SpawnSubTask ==
  /\ at = "asking" /\ round = "first"
  /\ Return("waiting_subtask", Append(mem, Work), retry)
  /\ sub' = TRUE
  /\ UNCHANGED <<words, scans, cancelled, execVars>>

\* processTask of the sub-task ends, and puts its result in the row that waits for it.
SubTaskDone ==
  /\ sub /\ at = "idle" /\ ~cancelled
  /\ sub' = FALSE
  /\ IF row.status = "waiting_subtask"
     THEN /\ row' = [row EXCEPT !.status = "pending", !.history = Tell(@)]
          /\ words' = words + 1
     ELSE UNCHANGED <<row, words>>
  /\ UNCHANGED <<at, round, mem, retry, scans, cancelled, chatVars, execVars>>

RunOutput ==
  /\ at = "asking"
  /\ mem' = Append(mem, Work) /\ at' = "running"
  /\ BeginRun(cancelled)
  /\ UNCHANGED <<row, sub, round, retry, words, scans, cancelled, chatVars>>

\* What comes after an output that holds, or was not run: the review whose changes it
\* was asked for, or else the first one.
AfterOutput ==
  IF round # "security" /\ "code" \in Reviews THEN "reviewing"
  ELSE IF "security" \in Reviews THEN "scanning" ELSE "submitting"

\* Every round of the security review begins with all the scans.
GoOn(to) ==
  /\ at' = to
  /\ scans' = IF to = "scanning" THEN Scans ELSE 0

OutputNeedsNoRun ==
  /\ at = "asking"
  /\ mem' = Append(mem, Work)
  /\ GoOn(AfterOutput)
  /\ UNCHANGED <<row, sub, round, retry, words, cancelled, chatVars, execVars>>

RunPasses ==
  /\ at = "running" /\ result = "passes"
  /\ TakeResult
  /\ GoOn(AfterOutput)
  /\ UNCHANGED <<row, sub, round, mem, retry, words, cancelled, chatVars>>

\* An exit code, or an error of the executor.
RunFails ==
  /\ at = "running" /\ result \in {"fails", "error"}
  /\ TakeResult
  /\ HandleFailure(mem)
  /\ UNCHANGED <<sub, scans, cancelled>>

-----------------------------------------------------------------------------
(* The reviews *)

\* Approved, or the reviewer's call or answer is in error.
CodeReviewPasses ==
  /\ at = "reviewing"
  /\ GoOn(IF "security" \in Reviews THEN "scanning" ELSE "submitting")
  /\ UNCHANGED <<row, sub, round, mem, retry, words, cancelled, chatVars, execVars>>

SecurityReviewPasses ==
  /\ at = "auditing"
  /\ GoOn("submitting")
  /\ UNCHANGED <<row, sub, round, mem, retry, words, cancelled, chatVars, execVars>>

\* Mutant of RequestChanges: a round of review is free.
RequestChangesFreely(by) ==
  /\ words < MaxWords
  /\ mem' = Tell(mem) /\ words' = words + 1
  /\ row' = Object(mem', retry)
  /\ at' = "asking" /\ round' = by
  /\ UNCHANGED <<retry, chatVars>>

\* Changes requested: counted, told to the role and saved; or, as the last straw,
\* escalated.
RequestChanges(by) ==
  IF retry + 1 >= MaxRetry
  THEN Return("escalated", mem, retry + 1) /\ UNCHANGED words
  ELSE /\ mem' = Tell(mem) /\ words' = words + 1 /\ retry' = retry + 1
       /\ row' = Object(mem', retry')
       /\ at' = "asking" /\ round' = by
       /\ UNCHANGED chatVars

CodeReviewWantsChanges ==
  /\ at = "reviewing"
  /\ RequestChanges("code")
  /\ UNCHANGED <<sub, scans, cancelled, execVars>>

SecurityReviewWantsChanges ==
  /\ at = "auditing"
  /\ RequestChanges("security")
  /\ UNCHANGED <<sub, scans, cancelled, execVars>>

\* runSecurityScans: one Run each, with a timeout of its own; no result stops them.
BeginScan ==
  /\ at = "scanning" /\ scans > 0
  /\ BeginRun(cancelled)
  /\ UNCHANGED <<taskVars, cancelled, chatVars>>

ScanEnds ==
  /\ at = "scanning"
  /\ TakeResult
  /\ scans' = scans - 1
  /\ UNCHANGED <<row, sub, at, round, mem, retry, words, cancelled, chatVars>>

Audit ==
  /\ at = "scanning" /\ scans = 0
  /\ at' = "auditing"
  /\ UNCHANGED <<row, sub, round, mem, retry, words, scans, cancelled, chatVars, execVars>>

\* What the PM is to review is saved first.
SubmitForReview ==
  /\ at = "submitting" /\ "pm" \in Reviews
  /\ at' = "judging"
  /\ row' = [Object(mem, retry) EXCEPT !.status = "pending_review"]
  /\ UNCHANGED <<sub, round, mem, retry, words, scans, cancelled, chatVars, execVars>>

\* A task of the PM is done without a review.
Approve ==
  /\ at = IF "pm" \in Reviews THEN "judging" ELSE "submitting"
  /\ Return("done", mem, retry)
  /\ UNCHANGED <<sub, words, scans, cancelled, execVars>>

Reject ==
  /\ at = "judging"
  /\ Return("pending", Tell(mem), 0)
  /\ words' = words + 1
  /\ UNCHANGED <<sub, scans, cancelled, execVars>>

-----------------------------------------------------------------------------
(* Chat with inject; cancellation; the process *)

\* Chat finds the active task and keeps its pointer while the answer streams.
OpenChat ==
  /\ chats < MaxChats  \* MODEL BOUND
  /\ at \in InCall /\ chat = "none"
  /\ chat' = "open"
  /\ UNCHANGED <<taskVars, cancelled, held, chats, execVars>>

\* Both goroutines append without a lock: the chat's append may be of the slice before
\* the pipeline's last append, which is then lost; or the chat's own may be.
Appended(h) == {h, h \o Exchange, SubSeq(h, 1, Len(h) - 1) \o Exchange}

\* Right after the trim, it may be of the slice before that, which undoes the trim.
Inject ==
  /\ chat = "open"
  /\ mem' \in Appended(mem) \cup
       (IF at = "stating" THEN {row.history \o Exchange} ELSE {})
  /\ row' = Object(mem', retry)
  /\ chat' = "none" /\ chats' = chats + 1
  /\ UNCHANGED <<sub, at, round, retry, words, scans, cancelled, held, execVars>>

\* The object is out of work: its save puts an old row back.
InjectStale ==
  /\ chat = "stale"
  /\ row' = [held EXCEPT !.history = @ \o Exchange]
  /\ chat' = "none" /\ held' = NewRow /\ chats' = chats + 1
  /\ UNCHANGED <<sub, at, round, mem, retry, words, scans, cancelled, execVars>>

\* The client hangs up.
DropChat ==
  /\ chat # "none"
  /\ chat' = "none" /\ held' = NewRow
  /\ UNCHANGED <<taskVars, cancelled, chats, execVars>>

\* Calls under a cancelled context may fail, or have been answered before.
Cancel ==
  /\ ~cancelled
  /\ cancelled' = TRUE
  /\ over' = (over \/ step # "idle")
  /\ UNCHANGED <<taskVars, chatVars, step, box, result, left>>

\* The process ends, and another one starts.
Restart ==
  /\ at' = "idle" /\ round' = "first" /\ mem' = <<>> /\ scans' = 0
  /\ retry' = 0 /\ cancelled' = FALSE
  /\ chat' = "none" /\ held' = NewRow
  /\ KilledRun
  /\ UNCHANGED <<row, sub, words, chats>>

Next ==
  \/ Claim \/ TrimContext \/ InjectContext
  \/ RoleFails \/ WriteFilesFails \/ SpawnSubTask \/ SubTaskDone
  \/ RunOutput \/ OutputNeedsNoRun \/ RunPasses \/ RunFails
  \/ CodeReviewPasses \/ CodeReviewWantsChanges
  \/ BeginScan \/ ScanEnds \/ Audit \/ SecurityReviewPasses \/ SecurityReviewWantsChanges
  \/ SubmitForReview \/ Approve \/ Reject
  \/ OpenChat \/ Inject \/ InjectStale \/ DropChat
  \/ Cancel \/ Restart
  \/ ExecStep /\ UNCHANGED <<taskVars, cancelled, chatVars>>

Spec == Init /\ [][Next]_vars

-----------------------------------------------------------------------------
(* Properties *)

\* pipeline.go 263-265, 272-274: whatever the attempts and reviews before it, and
\* however much was trimmed, the role is asked with the statement of its task first and
\* with the newest thing it was told (an error, changes, a rejection, a result) last.
\* Not so with max_history_messages 1, which keeps the statement only, and once a chat
\* has put its exchange in the history, or in place of the newest message.
RoleIsTold ==
  at = "asking" /\ chats = 0 /\ MaxHistory > 1 =>
    /\ mem[1] = Statement
    /\ words > 0 => mem[Len(mem)] = Word(words)

\* Whatever provider a role has, it is sent the same turns in the same order.  The Gemini
\* API, which takes the last user message out of its place, is no exception as long as
\* that message is the last.  (A chat's exchange ends with a reply: its question then
\* comes after it.)
ProvidersAgree ==
  at = "asking" /\ chats = 0 =>
    LET sent == BuildMessages(mem) IN
      /\ GeminiSent(sent) = AnthropicSent(sent)
      /\ SplitMessages(sent).prompt = AnthropicSent(sent)
      /\ OpenAISent(sent) = <<Prompt>> \o AnthropicSent(sent)

\* pipeline.go 263-265: the context stays bounded across the attempts.  It is trimmed
\* when the task is fetched and not in the review loops, so a request can be longer than
\* max_history_messages by two messages for each retry that is left.  Not so once a chat
\* has injected: its exchange comes on top, and can undo a trim.
ContextIsBounded ==
  at = "asking" /\ chats = 0 => Len(mem) <= MaxHistory + 2 * (MaxRetry - 1)

=============================================================================
