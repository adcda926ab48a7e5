# buycott-ai: specifications, model checks and proofs

TLA+ specifications of the Go program in `src/`: an orchestrator in which a PM
agent fills a queue of tasks, engineer agents work on them one at a time, their
output runs in Docker, reviewers and the PM judge it, and everything is kept in
one SQLite file.  This directory holds the modules, the configurations TLC
checks, and proofs for TLAPS.  Paths and line numbers below are relative to
`src/`.

## 1. Inventory

| Component | State | Operations | Hard part |
|---|---|---|---|
| Pipeline (`internal/pipeline/pipeline.go`) | `activeTask`, the `*model.Task` being worked on, `paused`, `resumeCh` | `Run`, `generateTasks`, `processTask`, `spawnSubTask`, `resumeWaitingParent`, `handleFailure`, `escalate`, `Pause`, `Resume` | a task goes through up to a dozen saves and calls; a crash, a failing save or a cancelled context may fall between any two |
| Task store (`internal/state/tasks.go`) | table `tasks` | `Save`, `FirstPending`, `FindWaitingForSubtask`, `List` | dependencies and the FIFO order at one-second resolution |
| Local server (`internal/server/local.go`) | `mu`, `running`, `pipe`, `cancel`, `done`, `baseCtx` | `Start`, `Stop`, `Reset`, `Pause`, `Resume`, `Chat`, `StreamEvents`, webhook notifier | requests race with each other and with the goroutine of the run |
| Event log (`internal/state/events.go`) | table `events` | `Append`, `List`, `Since` | cursors over a column that keeps whole seconds |
| Release cadence (`internal/pipeline/release.go`) | two keys of `pipeline_state`, table `releases`, directories | `maybeCheckRelease`, `performReleaseCheck`, `createRelease` | counters and check times are saved before the work they stand for |
| Rate limiting (`internal/llm/ratelimit.go`, `local.go:308`) | `waited` of each call, marker of each role | `Complete`, `Stream` | calls of one role are concurrent (pipeline and chat) and share a marker |
| Schema (`internal/state/db.go`) | `user_version`, tables, columns | `Open`, `migrate`, `ClearAll`, `WipeArtifacts` | a crash between two statements of a migration, two processes that migrate one file, a version that cannot be read |
| Executor (`internal/executor/docker.go`) | a container | `Run` | each call to the daemon may fail or be cut off, and the container must go all the same |
| Roles (`internal/roles`) | none; what they are told is `ConversationHistory` | `ProcessTask`, reviews, `WriteFiles` | may answer anything, in several wrappings; a partial write of files; a history that is trimmed and appended to from ten places |
| LLM providers (`internal/llm`) | a subprocess per call | `Complete`, `Stream` of three CLIs and three APIs | a limit must be told from a failure by its wording; a killed CLI has children |
| LLM log, configuration, CLI, gRPC, HTTP routes | append-only log, otherwise none | conversions, queries | - |

How they interact: `buycott start` creates a `LocalServer` and calls `Start`,
which builds a `Pipeline` and runs `Pipeline.Run` in a goroutine of its own.
HTTP and gRPC handlers call the `LocalServer` from their goroutines.  The
pipeline and the handlers share `LocalServer.mu`, `Pipeline.mu`, the channels
`resumeCh` and `done`, the context, and the SQLite tables.  Everything the
pipeline does is also appended to `events`, which streams and the webhook
notifier poll.

What makes each part correct, and where it is hard to test, is the list of
`hazards` in `PROJECT.json`, each with the properties that watch over it.

## 2. Modules

| Module | Models | Note |
|---|---|---|
| `TaskStore` | table `tasks`, its upsert and its queries | operators over `db`, used by `Pipeline` |
| `Pipeline` | `Run`, `processTask` and what they call | the core; one action per call that returns or save that commits |
| `TaskLifecycle` | what the table promises to its readers | abstract; `Pipeline` implements it (`KeepsLifecycle`) |
| `LocalServer` | `Start`, `Reset`, `Pause`, `Resume`, shutdown, the goroutine of a run | several runs, several concurrent requests |
| `EventStream` | table `events`, streams, webhook notifiers | cursors, channels, resets |
| `RateLimit` | `RetryingProvider` and the markers of roles | calls that retry, wait, give up or are cancelled |
| `Providers` | the CLI subprocesses, what each provider makes of what it gets, what a role reads in it | extends `RateLimit`, and implements it: `ProvSpec => LimitSpec` |
| `Chat` | `LocalServer.Chat`, `LoggingProvider.Stream`, the client | extends `RateLimit`: the chat's stream is one of its calls |
| `AnswerFeed` | what the reader of a chat's channel is promised | abstract; `Chat` implements it (`FeedsTheClient`) |
| `Executor` | `DockerExecutor.Run` against the daemon | used by `Attempts` |
| `Attempts` | the conversation history of one task through all of `processTask`, and the requests made of it | extends `Executor`: outputs and scans run in its containers |
| `Migration` | `state.Open` and `migrate` | several processes, one file |
| `Release` | `maybeCheckRelease` to `createRelease` | a kill or a failure at each step |
| `MC_*` | instances for TLC | constants, symmetry and, in four, an action constraint (section 3) |
| `PipelineProofs`, `LocalServerProofs`, `EventStreamProofs`, `ProvidersProofs`, `ChatProofs`, `ReleaseProofs`, `AttemptsProofs`, `MigrationProofs` | theorems about the modules of those names | those about `RateLimit` are in `ProvidersProofs` |

### TaskStore and Pipeline

A row keeps the columns some branch depends on: status, role, retry count,
dependencies, files written, parent, sub-task and `created_at`.  Titles,
criteria and execution results are left out; conversations are in `Attempts`.  `created_at` is a
number of seconds: rows created in the same second tie, and `FirstPending` is
the *set* of rows the query may return.

`pc` names the external call or the save that the goroutine performs next.
`cur` and `mem` are the active task and the in-memory copy `processTask` works
on, which runs ahead of the row.  `ctx` distinguishes a context cancelled while
a call is in flight (that call may still answer) from one cancelled before the
call.  Three switches turn faults on: `CrashesHappen` (the process is killed at
any point), `SavesFail` (any store call returns an error), `WritesFail`
(`WriteFiles` stops midway, `os.Remove` fails in `escalate`); `StopsHappen` allows
cancellation.  The error of `List` at the top of the loop is dropped, as in the
code: the queue then counts as empty.

| Code | Actions |
|---|---|
| `Run` 99-150 | `Start`, `LoopTop`, `FetchTask`, `NothingReady`, `FetchFails`, `Wake` |
| `generateTasks` 202-245 | `GenerateTasks` (a batch; the empty one is a failed call) |
| `processTask` 247-327 | `Claim`, `InjectContext`, `RoleFails`, `RoleWantsSubTask`, `RoleSubmits`, `WriteFilesFails`, `ExecPasses`, `ExecFails` |
| reviews 329-464 | `CodeReviewPasses`, `CodeReviewWantsChanges`, `SecurityReview...`, `Rework` |
| decision 466-518 | `AutoApprove`, `SubmitForReview`, `PMReviewPasses`, `PMRejects`, `Approve`, `Reject`, `ResumeWaitingParent` |
| 520-551, 613-660 | `SpawnChild`, `SpawnParent`, `Requeue`, `GiveUp`, `Rollback`, `SaveEscalated`, `SaveEscalationTask` |
| environment | `SaveFails`, `Cancel`, `Crash` |

The two observation variables `verdict` and `disk` record what reviewers said
of the current output, and of each file who wrote it last and whether that task's
record has lost it (a `WriteFiles` or a remove that failed).

### LocalServer

A *run* is one successful `Start`: a `Pipeline`, a context and a goroutine.
`mu` is held across the two steps of `Start`, where the code holds it across
calls, and other critical sections are one step.  Requests go through
`stopping`, `awaiting`, `clearing`, `starting`, `launching`, the stretches of
`Reset` between which other goroutines get in.  The goroutine of a run goes
through the head of `Run` step by step (`Poll`, `Block`, `HearResume`,
`HearCancel`), and `working` stands for the rest; `rows` remembers which runs
have rows in the tables which they saved themselves.  A `Chat` with inject holds a
task of the run it began under, and saves it when it is done (`Inject`), into
tables that may have been cleared since: nothing a reset waits for stops it, and
`StoppedRunStaysSilent` says which chats can do so.  `Pipeline.Stop` and `stopCh` have no caller and are
left out.

### EventStream

Time is counted in ticks, `TicksPerSecond` to the second, so that a moment and
the second it is stored as can be told apart.  A writer reads the clock and
inserts in two steps, so rows may be inserted out of order.  A watcher (a
stream with its bounded channel, or the webhook notifier of a run) holds a
cursor and the rows of its last query; `ORDER BY created_at` leaves rows of the
same second in any order, so any earliest row may be handled next.  `Reset`
empties the table under open streams and starts a new notifier; `RunEnds`
leaves a notifier behind.  `fireWebhooks` has a goroutine per post that nobody
waits for: `Fire` adds an event to `posts`, and `Arrive` takes any of them, also
after its notifier has stopped.

### RateLimit and Chat

`Complete` and `Stream` are the same loop around a provider's call, and
`RateLimit` is that loop: `attempt`, `waited` and `delay` are its locals, one
set per call, and `marker` is the shared `rateLimits`.  Time is counted in half
base delays (2.5 s), so that the jitter of the first delay has both ends.
Whether an error is a limit, and which delay its text names, is the
environment's choice.

`Chat` adds what is around a streamed call.  Chunks are numbered, by attempt and
place, so that order and completeness can be stated; `buf`, `pipe` and `out`
are the three channels, and a `select` with two ready cases is two actions.
`Panic` is the send of an error on `out` after `Chat` has closed it: the process
dies, and the rows stay.  `copy` lists the `*model.Task` values the pipeline has
fetched, by `FetchTask` or by `resumeWaitingParent`; `work` is where processTask is
with the last.  Each status is given in memory (`SetStatus`) and saved in a step of
its own that may fail (`SaveStatus`), and so is the parent's (`FindWaiting`,
`WakeParent`).  A chat holds on to one of the copies; its save reads the status
that copy has in memory (`Inject`) and writes it to the row (`SaveInjected`).

`AnswerFeed` has one line of chunks where `Chat` has three channels and three
goroutines.  The mapping (`Feed`) puts the channels end to end, without what the
logger throws away, and makes one reader of what the client and the goroutines
know of its leaving: it reads on, it has left, or the line behind it is cut.

### Providers

A call of `RateLimit` is here what one of the providers does for it.  A CLI is
started (`Spawn`), ends (`Ends`, with any exit, anything on stdout and anything
on stderr) or is killed with its process group (`Kill`), and `cmd.Run` comes
back (`RunReturns`), in error if a child still held the output after
`WaitDelay`.  `ClaudeCode`, `Codex` and `GeminiCLI` are the three readings of
what was printed; a text is a member of `Printed`, as fine as the code tells
them apart: nothing, words, words that `isRateLimitErr` knows, an error in the
CLI's own JSON, an answer with an object in it or without.  An API provider is
one step.  A reply is a text in pieces: words, fences, braces that are never
closed or hold no JSON, and objects that approve, do not, lack the field or have
another type in it.  `ExtractJSON` (from the first brace to its own closing one, if
that is JSON) and `StripCodeFence` with `Alone` (what is left of the text must be
one object and no more) are the two readers, and `ParseReview` what is made of
the object; `verdict` records that, and the objects that were in the reply.

### Executor and Attempts

`Executor` is one `Run` at a time: an action per call to the daemon and its
failure, with the deferred removal after the ones the `defer` statement
precedes.  `left` is the container that outlived the last `Run`, with the state of
its context, what the daemon did (its part, a refusal, no answer) and whether the
process was killed (`KilledRun`).

`Attempts` follows one task through every branch of `processTask` that reads or
writes its history: the row, the object in memory, the trimming at the claim,
both review loops, the scans, sub-tasks, the failures, the PM's rejection, and a
chat with inject, which keeps a pointer to the object and may save it when
processTask has long given it up (`InjectStale`); one that found the object
before the trim may append to the slice the trim has replaced, and undo it
(`Inject`, at the place `TrimContext` leads to).  Messages are told apart by
who says what and, for what the role must act on, by a number.  The requests of
the providers (`AnthropicSent`, `OpenAISent`, `SplitMessages`, `GeminiSent`) are
functions of the history.  It complements `Pipeline`, which has several tasks,
their rows, files and failing saves, but no histories.

### Migration

A statement of SQL is a step, on a file that several processes may be opening.
`cause` is a history variable: a migration that was stopped between the first
ALTER and the version it announces, one that overlapped another, a version that
could not be read (`migrate` drops that error and takes 0).

### Release

One action per store access, PM call or group of file operations; `GiveUp` is
their failure and `Crash` a kill.  The reads and writes of `pipeline_state`, whose
errors the code drops, succeed or fail unnoticed: a counter that cannot be read
is 0 (`CountRead`), a check time that cannot be read is none, so that every done
task is found (`ListDone`), and a write that fails leaves what was there
(`CountOnly`, `BeginCheck`, `Stamp`).  `ChatSaves` is a chat's late save of a done
task, which moves its `updated_at` or undoes it.  A file or a row is represented by the number of the
check that wrote it last.  `checks`, `resaved`, `since` and `noted` are
history variables.

## 3. Runs

All runs finish on two workers within five minutes.  Deadlock checking is off in
two: in `release` all tasks are done and the clock is at its bound, and in
`attempts` the task is done or escalated, and nothing is left to happen.

| Run | Instance | Question and answer |
|---|---|---|
| `faults` | 3 tasks, 3 roles (one unregistered), code reviewer, `MaxRetry` 2, all faults | dependencies, parking, retry budget and the refinement of `TaskLifecycle` survive crashes, failing saves and cancellations: holds |
| `reliable` | 3 tasks, both reviewers, 1 file, cancellations, writes and removals of files that fail; no kills, and saves succeed | nothing stranded, no lost wake-up, escalations reach the PM and clean up what is on record, rejected work stops: holds |
| `live` | 3 tasks, code reviewer, no faults, fair goroutine | every `processTask` ends; a parked task is woken: holds |
| `server` | 2 requests, 2 runs, 1 chat with inject, a store that may fail, fair goroutines | one run at a time, no late row but an open chat's, no lost resume, every reset returns, a lasting pause takes hold: holds |
| `events` | 2 writers, 1 client or 2 notifiers, 3 events, 2 seconds of 2 ticks | no duplicates, a client's events in order, which events may be lost, what the page shows: holds |
| `calls` | 1 caller, any of 4 kinds of provider, `MaxWait` 3, delays 1, 2 and a named 4, every reply of up to 3 pieces, fair calls | waits are bounded, calls return unless the CLI or API never does, a killed CLI leaves nothing, reported limits are waited out, a verdict is that of an object in the reply: holds |
| `attempts` | 1 task, all three reviewers, 2 scans, `MaxHistory` 3, `MaxRetry` 3, 5 things told, 1 chat | what the role is told and in which order, how long it gets, which containers stay: holds |
| `open` | 3 processes on one file | an open file has the whole schema; what can break a file: holds |
| `chat` | 1 chat beside the pipeline, channels of 1, answers of 3 chunks, one retry, 2 tasks, 3 fetches, fair goroutines | order, completeness, the refinement of `AnswerFeed`, the end of all three goroutines, which statuses the injected save may change: holds |
| `release` | 3 tasks, 1 version, interval 2, 3 seconds, 1 save of a chat | which tasks checks find twice or never, intervals and files under failures and kills: holds |
| `crash` | 2 tasks, crashes | README 624 "resumes exactly where it left off": violated |
| `reset` | 2 requests, 2 runs | `local.go` 127-128 "safely mutate shared state": violated |

Every property of a passing run has a mutant in `PROJECT.json`: a plausible bug
in the code (a dropped clause, an off-by-one, a swapped order, a missing reset)
under which the run finds the property violated.

### Bounds, and why they are enough

* Three tasks are the fewest with a parent, its sub-task (or a dependency) and
  a PM task for an escalation at once.  `Room` and `CanFail` keep the last free
  id for the escalation the code would create, so that a finite id space never
  disables a step of the program: without a free id the *environment* stops
  failing tasks, not the code.
* `MaxRetry` 2 has one attempt below the limit and one at it, in each of the
  places that count.  `MinQueueDepth` 1 makes the queue both short and full.
* The clock of `Pipeline` only moves when a row is created, by 0 or 1: rows tie
  or are ordered, which is all `ORDER BY created_at` can tell.  In `reliable` it does
  not move (the action constraint `InOneSecond`): rows that tie come in any order, of
  which a clock that moves only takes some away, and its properties name no times.
* Two requests are enough for any race of two sections of `Reset`.  Two runs are
  a run and its successor; that more change nothing for the three invariants is
  what `LocalServerProofs` proves, and liveness is what the small size buys.  The
  action constraint `EarlierRunsChat` opens no chat in the last run, after which
  there is no `Start` for its save to come before.
* Three events over two seconds give two in one second and one in another, in
  every order of stamping, inserting and polling.  Notifiers and clients only
  share rows neither writes, so a behaviour follows one kind or the other.
* In `calls` a named delay is longer than `MaxWait`, so that one wait goes over
  it, and two short ones do not reach it.  There is one caller: two that share a
  marker set each other's, which no property of the run speaks of, and the proofs
  are for any number.  All printed texts are in the instance, and all replies of at
  most `MaxPieces` 3 pieces: a fence, an object and what comes before or after it;
  the proof has no such bound.
* In `attempts` a history of 3 is trimmed at the second fetch and grows past the
  limit in a review loop; `MaxRetry` 3 allows two retries.  Five things told are two
  attempts with their reviews, a rejection and another start; the proofs have no
  such bounds.  Two scans are one after another's failure.
* In `open` three processes overlap or follow one another; kills and failures are not
  bounded, and the schema is the code's own.
* In `chat` a channel of one is full and empty at every turn, and an answer of
  three chunks fills all three and has to wait.  `MaxWait` 1 allows one retry.
  Three fetches are the task in hand, one of another task or a parent, and a later
  one of the first.  One chat is all that fits, and the action constraint
  `OneAtATime` keeps the channels and the pipeline from being interleaved in full,
  as they meet only at the chat's two ends: a chat that has nothing to inject comes
  before all tasks, and one that injects has a short answer, at the start of which it
  has found the first task and after which the pipeline works on.  The safety
  properties are proved without it, for any number of chats.
* Three tasks with an interval of two give a check, and another when the reset
  of the counter is lost or a chat undoes a task; three seconds separate, or do
  not, a task from a check.  The action constraint `OneChat` allows one save of a
  chat, and lets it and the clock move only where they make a difference: around the
  end of a task, the list and the stamp.  A version is released twice; two versions
  share nothing.
* Symmetry is used for safety only.  In `live`, the action constraint
  `IdsInOrder` makes new rows take ids in one fixed order; each behaviour is a
  renaming of one that does, and no step is lost, only its duplicates.

### Fairness

`Pipeline!FairSpec` is weak fairness of the goroutine's steps: the Go scheduler
runs it, and the calls it makes return: executions because of `task_timeout`,
throttled LLM calls because of `rate_limit_max_wait`; that an LLM request that
is not throttled returns is an assumption on the provider.  Nothing is assumed
of what is answered, nor that anyone starts, stops or resumes the pipeline.

`LocalServer!FairSpec` is strong fairness of each goroutine's steps.  It differs
from weak fairness for the steps that take `s.mu`: `sync.Mutex` hands itself
over to a goroutine it has kept waiting for a millisecond.

`Providers!ProvFairSpec` is weak fairness of what the process does for a call: a
timer fires, the kernel delivers a kill, a request whose context is done returns.
Nothing is assumed of a CLI or an API that is not cancelled: neither client is
given a timeout (`anthropic.go` 20, `openai.go` 19), nor is the context of a run.
`CallReturns` excepts a CLI that never ends and an API that never answers, until
they are cancelled.  `Chat!FairSpec` is weak fairness of each goroutine on its own
and of the client, a loop that does nothing else; that the provider's call
returns is assumed there, as in `Pipeline`.

`ParkedTaskWoken` excludes three things the code really does: a PM that rejects
for ever (the rejection resets the retry count, line 507), roles that ask for a
sub-task of a sub-task for ever (302 has no limit either; an instance with
finitely many tasks cannot show it, and the formula excepts it all the same), and
an escalated sub-task (only the done path calls `resumeWaitingParent`).

## 4. Proofs

`PipelineProofs` proves, for any finite or infinite `Task`, `Path` and `Role`
and any limits and switches allowed by the assumptions of `TaskStore` and
`Pipeline`:

* `TypeCorrect`: `Spec => []TypeOK`;
* `InductiveInvariant`: `Spec => []IInv`;
* `StartedTasksHaveTheirDependencies`, `ParkedTasksHaveTheirSubtask`,
  `RetriesAreBounded`: the three safety invariants of the run `faults`;
* `PipelineKeepsLifecycle`: `Spec => KeepsLifecycle`, the refinement of
  `TaskLifecycle`;
* `NothingIsStranded`, `WakeupsAreNotLost`, `EscalationsReachThePM`,
  `RejectedWorkIsStopped`, `EscalationsAreRolledBack`: the invariants of the run
  `reliable`.

None of the first three invariants is inductive: they speak of rows, and the next row is written
from `mem`.  `IInv` adds what ties the two together: which status the row and
the copy have at each `pc`, and that the columns nothing assigns agree
(`ActiveTaskHeld`); that between the two saves of `spawnSubTask` the child
exists, names its parent and nobody waits for it (`ChildAwaitsParking`); and
that only on the way to an escalation is a spent budget held
(`HeldRetryBudget`).  The proof has one lemma per kind of write to the table
(new rows, the active task's own row, waking, parking), and one per group of
actions that cites them.

The refinement takes one fact more, that a row not yet created has no sub-task
(`FreshRowsBlank`).  Each save is then one step of the lifecycle by the status
the row has and gets: `IInv` says which statuses those are at each `pc`, and
`OwnSaveRefines` that the columns the lifecycle holds fixed are the same in the
copy.  Steps without a save stutter.

The properties of `reliable` hold under different assumptions, and the theorems
say which.  The first three assume that the process is not killed and that saves
succeed (a crash leaves the task it was on in flight, by design of the code);
they are proved together (`CalmInv`) with the fact that the sub-task being
spawned is not done.  `RejectedWorkIsStopped` assumes nothing; its strengthening
(`NoChangesWanted`) extends the property to the whole stretch from the execution
on.  `EscalationsAreRolledBack` assumes nothing either: `FilesOnRecord` says that
whoever last wrote a file has it on record, in the copy for the active task and
in the row for another one that is neither in flight nor done, unless a failing
`WriteFiles` or `os.Remove` took it off (`lost`).

`LocalServerProofs` proves, for any set of concurrent requests and any bound on
the runs, `Spec => []IInv`, and from it the three safety invariants of the run
`server`: `OneRunAtATime`, `ClearedTablesStayClear` and `ResumeIsKept`.
None is inductive; they rest on a chain that `IInv` spells out.  A goroutine that is about to launch holds `s.mu` and took it when
`running` was false (`LauncherHoldsLock`).  `running` is true from the launch of
the newest run until that run unflags itself, and the older ones are past that
(`RunsInOrder`): so whoever is in `Run` is the newest.  A request that has seen
its run's `done`, or found none running, therefore leaves no run up to its
target in `Run` (`StoppedRunsAreOut`), and only such a run could write a row
with its number; or a chat, which gets hold of a task only of the run that is
working, so that after the clearing only those can have one of an earlier run that
had it then (`ChatsHoldOldTasks`).  The proof has one lemma per group of steps: a run's own, the
requests that keep out of the tables, the launch, the clearing, and what arrives
from outside.

`EventStreamProofs` proves, for any writers, clients, notifiers and numbers of
events, ticks and resets, the three invariants of the run `events`
(`EventsComeInOrder`, `LostEventsWereOvertaken`, `PagesShowWhatIsNew`).  `EInv`
says that what a watcher has been sent and what waits in its channel is in order
of seconds and behind its cursor (`GotInOrder`, `ChanInOrder`), that a moved
cursor is some event's second (`CursorIsAnEvents`), that a row beyond the cursor
which the last query missed was inserted after all that query found
(`LateRowsComeLast`), and that a row the cursor has passed over was inserted
after one no older (`PassedRowsCameLate`).  The third needs only what cutting a
time to seconds does, which a few lemmas on division state.

`ProvidersProofs` begins with `RateLimit` itself: for any callers, roles and
delays a call waits less than `MaxWait` and one longest delay
(`CallsWaitBoundedly`).  The sum grows only when a wait ends, so the inductive
invariant keeps what was checked when it began (`WaitsWithinBudget`).  It then
proves that `Providers` implements `RateLimit`
(`ProvidersKeepTheLoop`: every step of a call maps to a step of the loop or leaves
its variables alone), so the bound on the waiting carries over
(`ProviderCallsWaitBoundedly`), and three invariants of its own from `ProvInv`:
a call between two subprocesses has none and nothing read (`procVars` follow
`call`), a child of a killed CLI is dead, an outcome reported as a limit is one
(a case analysis of the three readings), and a verdict is that of an object in its
reply, which for any text follows from what the two readers can return: the kind
of a piece the text has, or nothing.

`ChatProofs` proves, for any number of chats, channels of any size, answers of any
length and any delays, all the safety properties of the run `chat`: that `Chat`
implements `AnswerFeed` (`FeedsTheClientAlways`), `ChunksStayInOrder`,
`AnswerStaysWhole` and `InjectKeepsStatus`; and `TypeCorrect`.  The inductive
invariant has four parts.
`Types` gives every channel its type and capacity.  `ChanInv` is the order in which
the goroutines of a chat end and what is then in the channels: a logger that has
ended has emptied `buf`, a copier that injects for a client that stayed has an empty
`pipe`, a logger that throws chunks away has seen the client gone.  `FedInv` says of the line (`Fed`) that its
chunks, with the one shown last in front, follow one another, that they end with
the one sent last unless the line was cut or the answer has failed, and that an
error is in it only then.  `CopyInv` relates what a chat has read and will
save to the copy, and the copy to the row: of the last fetch of a task, what is
saved is what the row has, unless another chat has put an old status back (`InStep`).
The proof of the refinement has two layers: lemmas of the feed alone (a step that
puts the next chunk at the end of a line is a `Send`, and keeps `Fed`), and one
lemma per group of steps of `Chat` that says which of them it is: most move a chunk
from one channel to the next, and change nothing.  Order and completeness follow
from `Fed`.  Trying to prove `InjectChangesNoStatus` showed what the run
with one chat cannot: with two, one chat can put an old status back, and the other,
which has since found the fetch in hand, changes it again.  The property says so
(`PutBack`), and in this form it is proved.  It has to except, too, a status that
processTask gives the task after the save has read the old one, and one it has not
saved yet: the assignment and the save are two steps.

`MigrationProofs` proves `SchemaIsWhole` and `BrokenOnlyByAStop` for any set of
processes.  The strengthening says which tables each process has created by the
statement it is at, that a file of version 1 or more has all tables, that the
columns of a process that alters alone are those before its statement, and that
a file of version 2 has them all.

`AttemptsProofs` proves, for any limits, reviewers and numbers of scans and
chats: `RolesAreTold`, `ProvidersSeeTheSame`, `ContextsAreBounded` and
`RunsRemoveTheirContainers`.  The
strengthening has the retry budget that is left at each place (`Budget`), the
length of the history in terms of it, while no chat has injected (`Bounded`), where the last thing told is,
in the row, in memory and after trimming (`Told`), that an open chat is one of at
most `MaxChats` (`ChatBound`), and that a container exists only inside a
`Run` (`RunInv`, `Called`).  Trimming is one lemma: it keeps the first message
and the last (with `MaxHistory` 1, the first alone), and a history of at most
`MaxHistory`.  `ProvidersSeeTheSame` needs that the last message is always one to
the role (`Newest`, which with `MaxHistory` 1 is all it says), and what the
providers' loop picks (`From`, a recursive function) from messages of any number.
That is an induction, done here as a least counterexample: a set of numbers has a
least element by the library's well-founded induction on `Nat`, so two solutions
of the recursion do not differ first anywhere (`PicksAreUnique`), and a solution
that can be written down is the one (`FromIs`).

`ReleaseProofs` proves the four properties of the run `release` for any tasks,
versions and interval.  They compare the history of checks with the store; the
strengthening says that the running check has listed all that was done since the
stored time and not saved by a chat (`Running`), that what was listed, with its
time, is no later than the time of any check kept from its listing on
(`ListedByThen`), that the stored time is the last kept (`LastIsKept`), and that
the counter never exceeds the tasks done since its reset (`CountedTasks`).

## 5. Model-checked only, and not modelled

Model-checked only: liveness under fairness (`EveryRunEnds`, `ParkedTaskWoken`,
`ResetReturns`, `PauseTakesHold`, `CallReturns`, `ChatEnds`), which is out of the
prover's reach.  Every other property of a passing run is a theorem.

Not modelled (`PROJECT.json` lists every component): the texts of prompts and
feedback, the JSON of tasks and tools, token counts; the LLM log, which nothing
reads to decide; configuration and the commands, which parse and print; the
read-only HTTP and gRPC calls, and the relay of the two streams over gRPC, a
loop that copies one channel to another.

Known and in no run: a queue that counts as full of tasks that can never run (the
loop then sleeps for ever), code rewritten for the security reviewer that no
code reviewer sees, an event of an already seen second that no webhook is posted
for, webhooks of a run that overtake one another, a list of done tasks that is
lost with the check that was killed or failed after it kept its time, an
approval that is read as a rejection for the braces in the prose before it, a
failed stream whose partial text is injected (against `pipeline.go` 592), a chat's
append that is lost to one of processTask's, or undoes a trim, a marker that outlives its call, a resume nobody waited for, whose token
lets a run that is then paused start one more task (README 495 and
`cmd/pause.go` 11 say the current one is the last; `PauseTakesHold` says it is
one more and no other), and `release_check_interval: 0`, which `config.go` 165
turns into 10 while README 381 calls it off.  All but the last are in the models.

A local-mode `buycott dashboard` is a second process with its own `LocalServer`
over the same file; its reset is the `reset` run with the first lock removed,
and is not a run of its own.

## 6. What could follow

An abstract release (nothing, then all of it).
