---------------------------- MODULE EventStream ----------------------------
(***************************************************************************)
(* The events table and the goroutines that follow it with a cursor:       *)
(* StreamEvents (one per SSE, gRPC or CLI client, with a channel between   *)
(* it and the client) and the webhook notifier (one per run).              *)
(*                                                                         *)
(* created_at keeps whole seconds, and a watcher asks for the rows whose   *)
(* created_at is after the one it saw last.  Time is counted in ticks,     *)
(* TicksPerSecond to the second, so that what falls between two seconds    *)
(* can be told apart.  Types and payloads are left out: a webhook that     *)
(* filters by type is one that ignores some of the posts made here.        *)
(* How a run is stopped and what it does are in LocalServer and Pipeline.  *)
(***************************************************************************)
EXTENDS Naturals, Sequences, FiniteSets

CONSTANTS
  Writer,         \* goroutines that append events
  Stream,         \* clients of StreamEvents
  TicksPerSecond, \* resolution of time.Now() against that of created_at
  ChanCap,        \* capacity of a stream's channel (64 in the code)
  MaxTick, MaxEvents, MaxRuns   \* bounds on time, events and runs

ASSUME StreamAssumption == Stream \cap (1..MaxRuns) = {}
ASSUME BoundsAssumption ==
  /\ {TicksPerSecond, ChanCap, MaxRuns} \subseteq Nat \ {0}
  /\ {MaxTick, MaxEvents} \subseteq Nat

VARIABLES
  tick,      \* the wall clock
  log,       \* the tick at which each event ever inserted read the clock, in order of insertion
  kept,      \* the events whose row is still in the table
  stamped,   \* the clock each writer read for the event it is inserting (0: none)
  webhooks,  \* are webhooks configured?
  running, current,  \* s.running, and the run whose context s.cancel cancels
  at,        \* where each watcher is
  cursor,    \* created_at of the last event each watcher handled (0: none)
  batch,     \* rows of the last query each watcher has still to handle
  chan,      \* the channel of each stream
  posts,     \* the posts of each notifier under way, a goroutine each
  got,       \* what each client received, and each notifier's receiver, in order of arrival
  openedAt   \* when each client opened its stream

tableVars == <<tick, log, kept, stamped>>
runVars   == <<webhooks, running, current>>
vars      == <<tableVars, runVars, at, cursor, batch, chan, posts, got, openedAt>>

Event    == 1..MaxEvents
Notifier == 1..MaxRuns
Watcher  == Stream \cup Notifier
Following == {"following", "cancelled"}

\* created_at of an event, and a tick cut to its second.  0 is Go's zero time.
Second(t)    == t \div TicksPerSecond
CreatedAt(e) == Second(log[e])

Earliest(es) == {e \in es : \A f \in es : CreatedAt(e) <= CreatedAt(f)}
Elements(q)  == {q[i] : i \in DOMAIN q}

TypeOK ==
  /\ tick \in 0..MaxTick /\ log \in Seq(0..MaxTick) /\ Len(log) <= MaxEvents
  /\ kept \subseteq DOMAIN log /\ stamped \in [Writer -> 0..MaxTick]
  /\ {webhooks, running} \subseteq BOOLEAN /\ current \in Notifier
  /\ at \in [Watcher -> {"off", "following", "cancelled"}]
  /\ cursor \in [Watcher -> Nat] /\ batch \in [Watcher -> SUBSET Event]
  /\ chan \in [Stream -> Seq(Event)] /\ \A s \in Stream : Len(chan[s]) <= ChanCap
  /\ posts \in [Notifier -> SUBSET Event] /\ got \in [Watcher -> Seq(Event)]
  /\ openedAt \in [Stream -> 0..MaxTick]

\* The first run has been started.
Init ==
  /\ tick = TicksPerSecond /\ log = <<>> /\ kept = {} /\ stamped = [w \in Writer |-> 0]
  /\ webhooks \in BOOLEAN /\ running = TRUE /\ current = 1
  /\ at = [w \in Watcher |-> IF webhooks /\ w = 1 THEN "following" ELSE "off"]
  /\ cursor = [w \in Watcher |-> 0] /\ batch = [w \in Watcher |-> {}]
  /\ chan = [s \in Stream |-> <<>>] /\ posts = [n \in Notifier |-> {}]
  /\ got = [w \in Watcher |-> <<>>]
  /\ openedAt = [s \in Stream |-> 0]

-----------------------------------------------------------------------------
(* Time and the table *)

Tick ==
  /\ tick < MaxTick   \* MODEL BOUND
  /\ tick' = tick + 1
  /\ UNCHANGED <<log, kept, stamped, runVars, at, cursor, batch, chan, posts, got, openedAt>>

\* Append reads the clock, and then inserts: between the two another writer, or a
\* watcher's query, may come first.
ReadClock(w) ==
  /\ stamped[w] = 0
  /\ Len(log) + Cardinality({v \in Writer : stamped[v] # 0}) < MaxEvents  \* MODEL BOUND
  /\ stamped' = [stamped EXCEPT ![w] = tick]
  /\ UNCHANGED <<tick, log, kept, runVars, at, cursor, batch, chan, posts, got, openedAt>>

Insert(w) ==
  /\ stamped[w] # 0
  /\ log' = Append(log, stamped[w])
  /\ kept' = kept \cup {Len(log')}
  /\ stamped' = [stamped EXCEPT ![w] = 0]
  /\ UNCHANGED <<tick, runVars, at, cursor, batch, chan, posts, got, openedAt>>

\* The INSERT fails; every caller of Append ignores its error.
InsertFails(w) ==
  /\ stamped[w] # 0
  /\ stamped' = [stamped EXCEPT ![w] = 0]
  /\ UNCHANGED <<tick, log, kept, runVars, at, cursor, batch, chan, posts, got, openedAt>>

\* Mutant of Since: >= instead of >.
SinceInclusive(c) == {e \in kept : CreatedAt(e) >= c}

\* Since(cursor); ORDER BY created_at leaves the rows of one second in any order.
Since(c) == {e \in kept : CreatedAt(e) > c}

-----------------------------------------------------------------------------
(* Runs: Start launches a notifier with a zero cursor, Reset clears the table *)

\* stopAndWait cancels only a run that has not ended by itself.
Reset ==
  /\ current < MaxRuns   \* MODEL BOUND
  /\ kept' = {} /\ running' = TRUE /\ current' = current + 1
  /\ at' = [at EXCEPT ![current] = IF running /\ @ = "following" THEN "cancelled" ELSE @,
                      ![current + 1] = IF webhooks THEN "following" ELSE "off"]
  /\ UNCHANGED <<tick, log, stamped, webhooks, cursor, batch, chan, posts, got, openedAt>>

\* Run returns an error; nothing cancels its context.
RunEnds ==
  /\ running
  /\ running' = FALSE
  /\ UNCHANGED <<tableVars, webhooks, current, at, cursor, batch, chan, posts, got, openedAt>>

-----------------------------------------------------------------------------
(* Watchers *)

\* A stream begins with List(0), every row.
Open(s) ==
  /\ ~webhooks   \* MODEL BOUND: watchers only share rows they do not write, so
                 \* notifiers and clients need not be followed side by side
  /\ at[s] = "off"
  /\ at' = [at EXCEPT ![s] = "following"]
  /\ batch' = [batch EXCEPT ![s] = kept]
  /\ openedAt' = [openedAt EXCEPT ![s] = tick]
  /\ UNCHANGED <<tableVars, runVars, cursor, chan, posts, got>>

\* The ticker fires, and the query succeeds.  A cancelled watcher may do it once
\* more: its select takes either of the two that are ready.
Poll(w) ==
  /\ at[w] \in Following /\ batch[w] = {}
  /\ batch' = [batch EXCEPT ![w] = Since(cursor[w])]
  /\ UNCHANGED <<tableVars, runVars, at, cursor, chan, posts, got, openedAt>>

\* A stream sees ctx.Done(), also while it waits for room in its channel.  The goroutine
\* ends, and its client with it.
Leave(s) ==
  /\ at[s] = "following"
  /\ at' = [at EXCEPT ![s] = "off"]
  /\ batch' = [batch EXCEPT ![s] = {}] /\ cursor' = [cursor EXCEPT ![s] = 0]
  /\ chan' = [chan EXCEPT ![s] = <<>>] /\ got' = [got EXCEPT ![s] = <<>>]
  /\ openedAt' = [openedAt EXCEPT ![s] = 0]
  /\ UNCHANGED <<tableVars, runVars, posts>>

\* A notifier sees ctx.Done() only between two batches.  Its posts go on.
StopNotifier(n) ==
  /\ at[n] = "cancelled" /\ batch[n] = {}
  /\ at' = [at EXCEPT ![n] = "off"]
  /\ UNCHANGED <<tableVars, runVars, cursor, batch, chan, posts, got, openedAt>>

Handle(w, e) ==
  /\ e \in Earliest(batch[w])
  /\ batch' = [batch EXCEPT ![w] = @ \ {e}]

\* Mutant of Send: the cursor is the time of the send.
SendNow(s, e) ==
  /\ Handle(s, e) /\ Len(chan[s]) < ChanCap
  /\ chan' = [chan EXCEPT ![s] = Append(@, e)]
  /\ cursor' = [cursor EXCEPT ![s] = Second(tick)]
  /\ UNCHANGED <<tableVars, runVars, at, posts, got, openedAt>>

\* ch <- *e, then the cursor.
Send(s, e) ==
  /\ Handle(s, e) /\ Len(chan[s]) < ChanCap
  /\ chan' = [chan EXCEPT ![s] = Append(@, e)]
  /\ cursor' = [cursor EXCEPT ![s] = CreatedAt(e)]
  /\ UNCHANGED <<tableVars, runVars, at, posts, got, openedAt>>

Receive(s) ==
  /\ chan[s] # <<>>
  /\ got' = [got EXCEPT ![s] = Append(@, Head(chan[s]))]
  /\ chan' = [chan EXCEPT ![s] = Tail(@)]
  /\ UNCHANGED <<tableVars, runVars, at, cursor, batch, posts, openedAt>>

\* The cursor, then fireWebhooks: one goroutine per matching webhook, not waited for.
Fire(n, e) ==
  /\ Handle(n, e)
  /\ cursor' = [cursor EXCEPT ![n] = CreatedAt(e)]
  /\ posts' = [posts EXCEPT ![n] = @ \cup {e}]
  /\ UNCHANGED <<tableVars, runVars, at, chan, got, openedAt>>

\* A post under way gets through: any of them, and after its run as well.  One that
\* fails is only logged, as one that stays under way for ever here.
Arrive(n, e) ==
  /\ e \in posts[n]
  /\ posts' = [posts EXCEPT ![n] = @ \ {e}]
  /\ got' = [got EXCEPT ![n] = Append(@, e)]
  /\ UNCHANGED <<tableVars, runVars, at, cursor, batch, chan, openedAt>>

\* Mutant of ShownSince: the page asks for what is newer than this very moment, the
\* default of /events.
ShownSinceNow(s) == openedAt[s]

\* The `since` the page sends, in whole seconds: earlier events are received and not
\* written to the client.
ShownSince(s) == Second(openedAt[s]) * TicksPerSecond

Shown(s) == {e \in Elements(got[s]) : CreatedAt(e) * TicksPerSecond >= ShownSince(s)}

Next ==
  \/ Tick \/ Reset \/ RunEnds
  \/ \E w \in Writer : ReadClock(w) \/ Insert(w) \/ InsertFails(w)
  \/ \E w \in Watcher : Poll(w)
  \/ \E s \in Stream : Open(s) \/ Receive(s) \/ Leave(s) \/ \E e \in Event : Send(s, e)
  \/ \E n \in Notifier : StopNotifier(n) \/ \E e \in Event : Fire(n, e) \/ Arrive(n, e)

Spec == Init /\ [][Next]_vars

-----------------------------------------------------------------------------
(* Properties *)

\* What a watcher took up, handled or about to be.
TakenUp(w) ==
  batch[w] \cup Elements(got[w]) \cup IF w \in Stream THEN Elements(chan[w]) ELSE posts[w]

\* Nobody gets an event twice, a client of StreamEvents or a webhook from one notifier,
\* whatever order writers insert in and however tables are cleared.  A client gets none
\* after one of a later second either; of a webhook that is not so, since its posts are
\* goroutines nobody waits for.
InOrderAndOnce ==
  /\ \A w \in Watcher : \A i, j \in DOMAIN got[w] : i < j => got[w][i] # got[w][j]
  /\ \A s \in Stream : \A i, j \in DOMAIN got[s] :
       i < j => CreatedAt(got[s][i]) <= CreatedAt(got[s][j])

\* The cursor passes over a row only if one stamped in the same second or a later one
\* was inserted before it.  So it can be the first of its own second that is lost, to a
\* writer that read the clock after it and inserted first; but never an event that is
\* inserted while all others in the log are of earlier seconds.
OnlyOvertakenEventsAreLost ==
  \A w \in Watcher, e \in kept :
    (at[w] \in Following /\ CreatedAt(e) <= cursor[w] /\ e \notin TakenUp(w))
      => \E f \in 1..(e - 1) : CreatedAt(f) >= CreatedAt(e)

\* The page hides history, never an event of its own time, though `since` is a moment
\* and created_at is cut to the second.
NewEventsAreShown ==
  \A s \in Stream : \A e \in Elements(got[s]) : log[e] >= openedAt[s] => e \in Shown(s)

=============================================================================
