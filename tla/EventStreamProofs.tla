------------------------- MODULE EventStreamProofs -------------------------
(***************************************************************************)
(* Proofs about EventStream, for any set of writers and clients, any       *)
(* number of ticks to the second and any bounds on time, events and runs.  *)
(***************************************************************************)
EXTENDS EventStream, TLAPS

-----------------------------------------------------------------------------
(* Seconds *)

\* An instant is less than a second behind the second it is in.
LEMMA DivisionBounds ==
  ASSUME NEW t \in Nat
  PROVE  /\ Second(t) \in Nat
         /\ TicksPerSecond * Second(t) <= t /\ t < TicksPerSecond * Second(t) + TicksPerSecond
  BY BoundsAssumption DEF Second

\* Seconds are in the order of their ticks.
LEMMA TimesTicksIsMonotone ==
  ASSUME NEW p \in Nat, NEW q \in Nat, p <= q
  PROVE  TicksPerSecond * p <= TicksPerSecond * q /\ p * TicksPerSecond <= q * TicksPerSecond
<1>1. TicksPerSecond \in Nat
  BY BoundsAssumption
<1>2. PICK d \in Nat : q = p + d
  <2>1. q - p \in Nat /\ q = p + (q - p)
    OBVIOUS
  <2> QED
    BY <2>1
<1>3. /\ TicksPerSecond * (p + d) = TicksPerSecond * p + TicksPerSecond * d
      /\ TicksPerSecond * d \in Nat /\ TicksPerSecond * p \in Nat
  BY <1>1
<1> QED
  BY <1>1, <1>2, <1>3

\* A later moment is in the same second or a later one.
LEMMA SecondIsMonotone ==
  ASSUME NEW a \in Nat, NEW b \in Nat, a <= b
  PROVE  Second(a) <= Second(b)
<1> DEFINE p == Second(a)
           q == Second(b)
<1>1. /\ p \in Nat /\ q \in Nat
      /\ TicksPerSecond * p <= a /\ b < TicksPerSecond * q + TicksPerSecond
  BY DivisionBounds
<1> SUFFICES ASSUME q + 1 <= p PROVE FALSE
  BY <1>1
<1> HIDE DEF p, q
<1>2. TicksPerSecond * (q + 1) <= TicksPerSecond * p /\ TicksPerSecond \in Nat
  BY <1>1, TimesTicksIsMonotone, BoundsAssumption
<1>3. /\ TicksPerSecond * (q + 1) = TicksPerSecond * q + TicksPerSecond
      /\ TicksPerSecond * q \in Nat /\ TicksPerSecond * p \in Nat
  BY <1>1, <1>2
<1> QED
  BY <1>1, <1>2, <1>3

\* The first second is second 1, so a zero cursor is before every event.
LEMMA FirstSecond ==
  ASSUME NEW t \in Nat, t >= TicksPerSecond
  PROVE  Second(t) >= 1
<1>1. Second(TicksPerSecond) = 1 /\ TicksPerSecond \in Nat
  BY BoundsAssumption DEF Second
<1>2. Second(TicksPerSecond) <= Second(t)
  BY <1>1, SecondIsMonotone
<1> QED
  BY <1>1, <1>2, DivisionBounds

-----------------------------------------------------------------------------
(* Queues of events *)

\* c is created_at of each event; q goes by it and repeats nothing.
InOrder(q, c) ==
  \A i, j \in DOMAIN q : i < j => q[i] # q[j] /\ c[q[i]] <= c[q[j]]

\* An event no earlier than all others goes to the end.
LEMMA AppendInOrder ==
  ASSUME NEW q \in Seq(Nat), NEW c, NEW e \in Nat, InOrder(q, c),
         \A x \in Elements(q) : x # e /\ c[x] <= c[e]
  PROVE  /\ Append(q, e) \in Seq(Nat) /\ InOrder(Append(q, e), c)
         /\ Elements(Append(q, e)) = Elements(q) \cup {e}
<1>1. /\ DOMAIN q = 1..Len(q) /\ DOMAIN Append(q, e) = 1..(Len(q) + 1) /\ Len(q) \in Nat
      /\ Append(q, e)[Len(q) + 1] = e /\ \A i \in 1..Len(q) : Append(q, e)[i] = q[i]
  OBVIOUS
<1>2. InOrder(Append(q, e), c)
  <2> SUFFICES ASSUME NEW i \in 1..(Len(q) + 1), NEW j \in 1..(Len(q) + 1), i < j
               PROVE  /\ Append(q, e)[i] # Append(q, e)[j]
                      /\ c[Append(q, e)[i]] <= c[Append(q, e)[j]]
    BY <1>1 DEF InOrder
  <2>1. i \in 1..Len(q) /\ q[i] \in Elements(q)
    BY <1>1 DEF Elements
  <2>2. CASE j = Len(q) + 1
    BY <1>1, <2>1, <2>2
  <2>3. CASE j \in 1..Len(q)
    BY <1>1, <2>1, <2>3 DEF InOrder
  <2> QED
    BY <1>1, <2>2, <2>3
<1>3. Elements(Append(q, e)) = Elements(q) \cup {e}
  BY <1>1 DEF Elements
<1> QED
  BY <1>2, <1>3

\* No event is in q twice.
Once(q) == \A i, j \in DOMAIN q : i < j => q[i] # q[j]

\* An event that is not there yet goes to the end.
LEMMA AppendOnce ==
  ASSUME NEW q \in Seq(Nat), NEW e \in Nat, Once(q), e \notin Elements(q)
  PROVE  /\ Append(q, e) \in Seq(Nat) /\ Once(Append(q, e))
         /\ Elements(Append(q, e)) = Elements(q) \cup {e}
<1>1. /\ DOMAIN q = 1..Len(q) /\ DOMAIN Append(q, e) = 1..(Len(q) + 1) /\ Len(q) \in Nat
      /\ Append(q, e)[Len(q) + 1] = e /\ \A i \in 1..Len(q) : Append(q, e)[i] = q[i]
  OBVIOUS
<1>2. \A i \in 1..Len(q) : q[i] # e
  BY <1>1 DEF Elements
<1>3. Once(Append(q, e)) /\ Elements(Append(q, e)) = Elements(q) \cup {e}
  BY <1>1, <1>2 DEF Once, Elements
<1> QED
  BY <1>3

\* What is behind the first of some events in order is in order, and not before it.
LEMMA TailInOrder ==
  ASSUME NEW q \in Seq(Nat), NEW c, q # <<>>, InOrder(q, c)
  PROVE  /\ Tail(q) \in Seq(Nat) /\ InOrder(Tail(q), c) /\ Head(q) \in Elements(q)
         /\ Elements(q) = Elements(Tail(q)) \cup {Head(q)}
         /\ \A x \in Elements(Tail(q)) : Head(q) # x /\ c[Head(q)] <= c[x]
<1>1. /\ DOMAIN q = 1..Len(q) /\ Len(q) \in Nat \ {0} /\ Head(q) = q[1]
      /\ Tail(q) \in Seq(Nat) /\ DOMAIN Tail(q) = 1..(Len(q) - 1)
      /\ \A i \in 1..(Len(q) - 1) : Tail(q)[i] = q[i + 1]
  OBVIOUS
<1>2. InOrder(Tail(q), c)
  BY <1>1 DEF InOrder
<1>3. \A x \in Elements(q) : x \in Elements(Tail(q)) \/ x = Head(q)
  <2> SUFFICES ASSUME NEW i \in 1..Len(q), i # 1
               PROVE  q[i] \in Elements(Tail(q))
    BY <1>1 DEF Elements
  <2>1. i - 1 \in 1..(Len(q) - 1) /\ Tail(q)[i - 1] = q[i]
    BY <1>1
  <2> QED
    BY <1>1, <2>1 DEF Elements
<1>4. \A x \in Elements(Tail(q)) :
        x \in Elements(q) /\ Head(q) # x /\ c[Head(q)] <= c[x]
  <2> SUFFICES ASSUME NEW i \in 1..(Len(q) - 1)
               PROVE  /\ q[i + 1] \in Elements(q)
                      /\ Head(q) # q[i + 1] /\ c[Head(q)] <= c[q[i + 1]]
    BY <1>1 DEF Elements
  <2>1. 1 \in DOMAIN q /\ i + 1 \in DOMAIN q /\ 1 < i + 1
    BY <1>1
  <2> QED
    BY <1>1, <2>1 DEF Elements, InOrder
<1>5. Head(q) \in Elements(q)
  BY <1>1 DEF Elements
<1> QED
  BY <1>1, <1>2, <1>3, <1>4, <1>5

-----------------------------------------------------------------------------
(* The inductive invariant *)

\* created_at of each event.
Stamp == [e \in DOMAIN log |-> Second(log[e])]

\* Every event was read off a clock that starts at second 1.
TableInv ==
  /\ tick \in Nat /\ tick >= TicksPerSecond
  /\ log \in Seq(Nat) /\ \A e \in DOMAIN log : log[e] >= TicksPerSecond
  /\ kept \subseteq DOMAIN log
  /\ stamped \in [Writer -> Nat]
  /\ \A w \in Writer : stamped[w] # 0 => stamped[w] >= TicksPerSecond
  /\ current \in Notifier

\* A stream that is not open has nothing left over from one that was.
WatcherInv ==
  /\ at \in [Watcher -> {"off", "following", "cancelled"}]
  /\ cursor \in [Watcher -> Nat] /\ batch \in [Watcher -> SUBSET (DOMAIN log)]
  /\ got \in [Watcher -> Seq(Nat)] /\ \A w \in Watcher : Elements(got[w]) \subseteq DOMAIN log
  /\ posts \in [Notifier -> SUBSET (DOMAIN log)]
  /\ chan \in [Stream -> Seq(Nat)] /\ \A s \in Stream : Elements(chan[s]) \subseteq DOMAIN log
  /\ openedAt \in [Stream -> Nat]
  /\ \A s \in Stream : at[s] = "off" =>
       got[s] = <<>> /\ chan[s] = <<>> /\ batch[s] = {} /\ cursor[s] = 0

\* What was received is behind the cursor, what is to be handled is not; a stream's is in
\* order.
GotInOrder ==
  \A w \in Watcher :
    /\ w \in Stream => InOrder(got[w], Stamp)
    /\ \A e \in Elements(got[w]) : Stamp[e] <= cursor[w] /\ e \notin batch[w]
    /\ \A e \in batch[w] : cursor[w] <= Stamp[e]

\* What is in the channel is behind what has been received.
ChanInOrder ==
  \A s \in Stream :
    /\ InOrder(chan[s], Stamp)
    /\ \A e \in Elements(chan[s]) :
         /\ Stamp[e] <= cursor[s] /\ e \notin batch[s]
         /\ \A f \in Elements(got[s]) : f # e /\ Stamp[f] <= Stamp[e]

\* What is being posted is behind the cursor too, and has not arrived yet.
PostedOnce ==
  \A n \in Notifier :
    /\ Once(got[n])
    /\ \A e \in posts[n] :
         Stamp[e] <= cursor[n] /\ e \notin batch[n] /\ e \notin Elements(got[n])

\* A cursor that has moved is the created_at of an event.
CursorIsAnEvents ==
  \A w \in Watcher : cursor[w] = 0 \/ \E f \in DOMAIN log : Stamp[f] = cursor[w]

\* A row beyond the cursor that is in no batch was inserted after every row in the batch.
LateRowsComeLast ==
  \A w \in Watcher : \A e \in kept, f \in batch[w] :
    cursor[w] < Stamp[e] /\ e \notin TakenUp(w) => f < e

\* A row the cursor has passed over came after a row that is no older.
PassedRowsCameLate ==
  \A w \in Watcher : \A e \in kept :
    Stamp[e] <= cursor[w] /\ e \notin TakenUp(w)
      => \E f \in DOMAIN log : f < e /\ Stamp[e] <= Stamp[f]

EInv ==
  /\ TableInv /\ WatcherInv /\ GotInOrder /\ ChanInOrder /\ PostedOnce
  /\ CursorIsAnEvents /\ LateRowsComeLast /\ PassedRowsCameLate

\* The stamps are the seconds the rows of the log were created in.
LEMMA StampType ==
  ASSUME TableInv
  PROVE  /\ DOMAIN Stamp = DOMAIN log
         /\ \A e \in DOMAIN log : Stamp[e] \in Nat /\ Stamp[e] >= 1 /\ Stamp[e] = CreatedAt(e)
<1>1. \A e \in DOMAIN log : log[e] \in Nat /\ log[e] >= TicksPerSecond
  BY DEF TableInv
<1>2. \A e \in DOMAIN log : Second(log[e]) \in Nat /\ Second(log[e]) >= 1
  BY <1>1, DivisionBounds, FirstSecond
<1> QED
  BY <1>2 DEF Stamp, CreatedAt

\* The invariant holds before the first step.
LEMMA InitEInv == Init => EInv
<1> SUFFICES ASSUME Init PROVE EInv
  OBVIOUS
<1>1. /\ log = <<>> /\ DOMAIN log = {} /\ kept = {} /\ Elements(<<>>) = {}
      /\ \A w \in Watcher : got[w] = <<>> /\ cursor[w] = 0 /\ batch[w] = {}
      /\ \A s \in Stream : chan[s] = <<>>
      /\ \A n \in Notifier : posts[n] = {} /\ n \in Watcher
  BY DEF Init, Watcher, Elements
<1>2. TableInv /\ WatcherInv
  BY <1>1, BoundsAssumption, StreamAssumption DEF Init, TableInv, WatcherInv, Watcher, Notifier
<1>3. GotInOrder /\ ChanInOrder /\ PostedOnce
  BY <1>1 DEF GotInOrder, ChanInOrder, PostedOnce, Once, InOrder, Watcher
<1>4. CursorIsAnEvents /\ LateRowsComeLast /\ PassedRowsCameLate
  BY <1>1 DEF CursorIsAnEvents, LateRowsComeLast, PassedRowsCameLate
<1> QED
  BY <1>2, <1>3, <1>4 DEF EInv

\* Steps that touch neither the events nor a watcher's part of them.
LEMMA AsideKeeps ==
  ASSUME EInv, TableInv', UNCHANGED <<log, cursor, batch, chan, posts, got, openedAt>>,
         kept' \subseteq kept, at' \in [Watcher -> {"off", "following", "cancelled"}],
         \A s \in Stream : at'[s] = at[s]
  PROVE  EInv'
<1>1. WatcherInv'
  BY DEF EInv, WatcherInv
<1>2. Stamp' = Stamp
  BY DEF Stamp
<1>3. GotInOrder' /\ ChanInOrder' /\ PostedOnce' /\ CursorIsAnEvents'
  BY <1>2 DEF EInv, GotInOrder, ChanInOrder, PostedOnce, CursorIsAnEvents
<1>4. LateRowsComeLast' /\ PassedRowsCameLate'
  BY <1>2 DEF EInv, LateRowsComeLast, PassedRowsCameLate, TakenUp
<1> QED
  BY <1>1, <1>3, <1>4 DEF EInv

\* The clock, a reset, the end of a run or of its notifier and idle writers are no matter
\* to the events.
LEMMA AsideSteps ==
  ASSUME EInv,
         \/ Tick \/ Reset \/ RunEnds
         \/ \E w \in Writer : ReadClock(w) \/ InsertFails(w)
         \/ \E n \in Notifier : StopNotifier(n)
  PROVE  EInv'
<1> USE DEF EInv, TableInv, WatcherInv, tableVars, runVars
<1>1. CASE Tick
  BY <1>1, AsideKeeps, BoundsAssumption DEF Tick
<1>2. CASE Reset
  <2>1. /\ current + 1 \in Notifier /\ current \notin Stream /\ current + 1 \notin Stream
    <3>1. current \in 1..MaxRuns /\ current < MaxRuns /\ MaxRuns \in Nat
      BY <1>2, BoundsAssumption DEF Reset, Notifier
    <3>2. current + 1 \in 1..MaxRuns
      BY <3>1
    <3> QED
      BY <3>1, <3>2, StreamAssumption DEF Notifier
  <2>2. TableInv'
    BY <1>2, <2>1 DEF Reset
  <2>3. /\ at' \in [Watcher -> {"off", "following", "cancelled"}]
        /\ \A s \in Stream : at'[s] = at[s]
    BY <1>2, <2>1 DEF Reset, Watcher
  <2> QED
    BY <1>2, <2>2, <2>3, AsideKeeps DEF Reset
<1>3. CASE RunEnds
  BY <1>3, AsideKeeps DEF RunEnds
<1>4. CASE \E w \in Writer : ReadClock(w) \/ InsertFails(w)
  <2>1. PICK w \in Writer : ReadClock(w) \/ InsertFails(w)
    BY <1>4
  <2>2. /\ UNCHANGED <<tick, log, kept, current, at, cursor, batch, chan, posts, got, openedAt>>
        /\ \/ stamped' = [stamped EXCEPT ![w] = tick]
           \/ stamped' = [stamped EXCEPT ![w] = 0]
    BY <2>1 DEF ReadClock, InsertFails
  <2>3. /\ stamped' \in [Writer -> Nat]
        /\ \A v \in Writer : stamped'[v] # 0 => stamped'[v] >= TicksPerSecond
    <3>1. /\ stamped \in [Writer -> Nat] /\ tick \in Nat /\ tick >= TicksPerSecond
          /\ \A v \in Writer : stamped[v] # 0 => stamped[v] >= TicksPerSecond
      BY DEF TableInv
    <3>2. CASE stamped' = [stamped EXCEPT ![w] = tick]
      BY <3>1, <3>2
    <3>3. CASE stamped' = [stamped EXCEPT ![w] = 0]
      BY <3>1, <3>3
    <3> QED
      BY <2>2, <3>2, <3>3
  <2>4. TableInv'
    BY <2>2, <2>3
  <2> QED
    BY <2>2, <2>4, AsideKeeps
<1>5. CASE \E n \in Notifier : StopNotifier(n)
  <2>1. PICK n \in Notifier : StopNotifier(n)
    BY <1>5
  <2>2. n \notin Stream
    BY StreamAssumption DEF Notifier
  <2> QED
    <3>1. /\ UNCHANGED <<tick, log, kept, stamped, current, cursor, batch, chan, posts, got, openedAt>>
          /\ at' = [at EXCEPT ![n] = "off"]
      BY <2>1 DEF StopNotifier
    <3>2. TableInv'
      BY <3>1
    <3>3. /\ at' \in [Watcher -> {"off", "following", "cancelled"}]
          /\ \A s \in Stream : at'[s] = at[s]
      <4>1. at \in [Watcher -> {"off", "following", "cancelled"}] /\ Stream \subseteq Watcher
        BY DEF Watcher
      <4> QED
        BY <2>2, <3>1, <4>1
    <3> QED
      BY <3>1, <3>2, <3>3, AsideKeeps
<1> QED
  BY <1>1, <1>2, <1>3, <1>4, <1>5

\* A new row has the last number.  If a cursor is already there, the event it stopped at
\* has a smaller one.
LEMMA InsertStep ==
  ASSUME EInv, NEW w \in Writer, Insert(w)
  PROVE  EInv'
<1> DEFINE n == Len(log) + 1
<1> USE DEF EInv, tableVars, runVars
<1>1. /\ stamped[w] \in Nat /\ stamped[w] >= TicksPerSecond
      /\ log \in Seq(Nat) /\ DOMAIN log = 1..Len(log) /\ Len(log) \in Nat
  BY DEF Insert, TableInv
<1>2. /\ log' \in Seq(Nat) /\ DOMAIN log' = DOMAIN log \cup {n} /\ Len(log') = n
      /\ n \in Nat /\ \A e \in DOMAIN log : log'[e] = log[e] /\ e < n /\ e \in Nat
      /\ log'[n] = stamped[w] /\ kept' = kept \cup {n}
  BY <1>1 DEF Insert
<1>3. /\ UNCHANGED <<tick, current, at, cursor, batch, chan, posts, got, openedAt>>
      /\ stamped' = [stamped EXCEPT ![w] = 0]
  BY DEF Insert
<1>4. TableInv'
  BY <1>1, <1>2, <1>3 DEF TableInv
<1>5. \A e \in DOMAIN log : Stamp'[e] = Stamp[e] /\ e \in DOMAIN log'
  BY <1>2 DEF Stamp
<1>6. DOMAIN log \subseteq DOMAIN log' /\ n \notin DOMAIN log
  BY <1>1, <1>2
<1> HIDE DEF n
<1>7. WatcherInv'
  BY <1>3, <1>6 DEF WatcherInv
<1>8. /\ \A v \in Watcher : batch[v] \subseteq DOMAIN log /\ Elements(got[v]) \subseteq DOMAIN log
      /\ \A s \in Stream : Elements(chan[s]) \subseteq DOMAIN log
      /\ \A m \in Notifier : posts[m] \subseteq DOMAIN log
  BY DEF WatcherInv
<1>9. GotInOrder'
  BY <1>3, <1>5, <1>8 DEF GotInOrder, InOrder, Elements
<1>10. ChanInOrder'
  BY <1>3, <1>5, <1>8 DEF ChanInOrder, InOrder, Elements, Watcher
<1>16. PostedOnce'
  BY <1>3, <1>5, <1>8 DEF PostedOnce
<1>11. CursorIsAnEvents'
  BY <1>3, <1>5 DEF CursorIsAnEvents
<1>12. \A v \in Watcher : TakenUp(v)' = TakenUp(v)
  BY <1>3 DEF TakenUp
<1>13. kept \subseteq DOMAIN log
  BY DEF TableInv
<1>14. LateRowsComeLast'
  BY <1>2, <1>3, <1>5, <1>8, <1>12, <1>13 DEF LateRowsComeLast
<1>15. PassedRowsCameLate'
  <2> SUFFICES ASSUME NEW v \in Watcher, NEW e \in kept', Stamp'[e] <= cursor[v],
                      e \notin TakenUp(v)
               PROVE  \E f \in DOMAIN log' : f < e /\ Stamp'[e] <= Stamp'[f]
    BY <1>3, <1>12 DEF PassedRowsCameLate
  <2>1. CASE e \in kept
    BY <1>5, <1>13, <2>1 DEF PassedRowsCameLate
  <2>2. CASE e = n
    <3>1. Stamp'[e] = Second(stamped[w]) /\ Stamp'[e] >= 1 /\ Stamp'[e] \in Nat
      BY <1>1, <1>2, <2>2, FirstSecond, DivisionBounds DEF Stamp
    <3>2. cursor[v] # 0
      BY <3>1
    <3>3. PICK f \in DOMAIN log : Stamp[f] = cursor[v]
      BY <3>2 DEF CursorIsAnEvents
    <3> QED
      BY <1>2, <1>5, <2>2, <3>3
  <2> QED
    BY <1>2, <2>1, <2>2
<1> QED
  BY <1>4, <1>7, <1>9, <1>10, <1>11, <1>14, <1>15, <1>16

-----------------------------------------------------------------------------
(* Steps of a watcher: the table stays as it is *)

TableKept == UNCHANGED <<tick, log, kept, stamped, current>>

\* A step that leaves the tables leaves what is said of them.
LEMMA TableStays ==
  ASSUME EInv, TableKept
  PROVE  TableInv' /\ Stamp' = Stamp
  BY DEF EInv, TableInv, TableKept, Stamp

\* The rows a query finds are beyond everything handled, and all there are.
LEMMA PollStep ==
  ASSUME EInv, NEW w \in Watcher, Poll(w)
  PROVE  EInv'
<1>1. /\ TableKept /\ UNCHANGED <<at, cursor, chan, posts, got, openedAt>>
      /\ batch[w] = {} /\ batch' = [batch EXCEPT ![w] = Since(cursor[w])]
  BY DEF Poll, tableVars, runVars, TableKept
<1>2. TableInv' /\ Stamp' = Stamp
  BY <1>1, TableStays
<1>3. Since(cursor[w]) = {e \in kept : cursor[w] < Stamp[e]}
  <2>1. \A e \in kept : CreatedAt(e) = Stamp[e] /\ Stamp[e] \in Nat
    BY StampType DEF EInv, TableInv
  <2>2. cursor[w] \in Nat
    BY DEF EInv, WatcherInv
  <2> QED
    BY <2>1, <2>2 DEF Since
<1>4. \A e \in kept : e \in DOMAIN log /\ Stamp[e] \in Nat
  BY StampType DEF EInv, TableInv
<1> DEFINE found == {e \in kept : cursor[w] < Stamp[e]}
<1>5. batch' = [batch EXCEPT ![w] = found] /\ found \in SUBSET (DOMAIN log)
  BY <1>1, <1>3, <1>4
<1> USE DEF EInv
<1>6. WatcherInv'
  <2>1. \A s \in Stream : at[s] = "off" => s # w
    BY DEF Poll, Following
  <2> QED
    BY <1>1, <1>2, <1>5, <2>1 DEF WatcherInv, TableKept
<1>7. cursor \in [Watcher -> Nat] /\ batch \in [Watcher -> SUBSET (DOMAIN log)]
  BY DEF WatcherInv
<1>8. \A e \in found : /\ e \notin Elements(got[w]) /\ cursor[w] <= Stamp[e]
                       /\ w \in Stream => e \notin Elements(chan[w])
                       /\ w \in Notifier => e \notin posts[w]
  BY <1>4, <1>7 DEF GotInOrder, ChanInOrder, PostedOnce
<1>9. GotInOrder'
  BY <1>1, <1>2, <1>5, <1>7, <1>8 DEF GotInOrder
<1>10. ChanInOrder'
  BY <1>1, <1>2, <1>5, <1>7, <1>8 DEF ChanInOrder, Watcher
<1>16. PostedOnce'
  BY <1>1, <1>2, <1>5, <1>7, <1>8 DEF PostedOnce, Watcher
<1>11. CursorIsAnEvents'
  BY <1>1, <1>2 DEF CursorIsAnEvents, TableKept
<1>12. \A v \in Watcher \ {w} : TakenUp(v)' = TakenUp(v) /\ batch'[v] = batch[v]
  BY <1>1, <1>7 DEF TakenUp
<1>13. TakenUp(w)' = TakenUp(w) \cup found /\ batch'[w] = found
  BY <1>1, <1>5, <1>7 DEF TakenUp
<1>14. LateRowsComeLast'
  BY <1>1, <1>2, <1>12, <1>13 DEF LateRowsComeLast, TableKept
<1>15. PassedRowsCameLate'
  BY <1>1, <1>2, <1>12, <1>13 DEF PassedRowsCameLate, TableKept
<1> QED
  BY <1>2, <1>6, <1>9, <1>10, <1>11, <1>14, <1>15, <1>16

\* A stream begins with nothing handled and every row to handle.
LEMMA OpenStep ==
  ASSUME EInv, NEW w \in Stream, Open(w)
  PROVE  EInv'
<1>1. /\ TableKept /\ UNCHANGED <<cursor, chan, posts, got>> /\ at[w] = "off"
      /\ at' = [at EXCEPT ![w] = "following"] /\ batch' = [batch EXCEPT ![w] = kept]
      /\ openedAt' = [openedAt EXCEPT ![w] = tick] /\ w \in Watcher
      /\ w \notin Notifier
  BY StreamAssumption DEF Open, tableVars, runVars, TableKept, Watcher, Notifier
<1>2. TableInv' /\ Stamp' = Stamp
  BY <1>1, TableStays
<1> USE DEF EInv
<1>3. got[w] = <<>> /\ chan[w] = <<>> /\ cursor[w] = 0 /\ Elements(<<>>) = {}
  BY <1>1 DEF WatcherInv, Elements
<1>4. /\ kept \subseteq DOMAIN log /\ \A e \in kept : Stamp[e] \in Nat /\ Stamp[e] >= 1
      /\ cursor \in [Watcher -> Nat] /\ batch \in [Watcher -> SUBSET (DOMAIN log)]
  BY StampType DEF TableInv, WatcherInv
<1>5. WatcherInv'
  BY <1>1, <1>4 DEF WatcherInv, TableKept, TableInv
<1>6. GotInOrder'
  BY <1>1, <1>2, <1>3, <1>4 DEF GotInOrder
<1>7. ChanInOrder'
  BY <1>1, <1>2, <1>3, <1>4 DEF ChanInOrder, Watcher
<1>12. PostedOnce'
  BY <1>1, <1>2, <1>4 DEF PostedOnce, Watcher
<1>8. CursorIsAnEvents'
  BY <1>1, <1>2 DEF CursorIsAnEvents, TableKept
<1>9. \A v \in Watcher \ {w} : TakenUp(v)' = TakenUp(v) /\ batch'[v] = batch[v]
  BY <1>1, <1>4 DEF TakenUp
<1>10. \A e \in kept : e \in TakenUp(w)'
  BY <1>1, <1>4 DEF TakenUp
<1>11. LateRowsComeLast' /\ PassedRowsCameLate'
  BY <1>1, <1>2, <1>9, <1>10 DEF LateRowsComeLast, PassedRowsCameLate, TableKept
<1> QED
  BY <1>2, <1>5, <1>6, <1>7, <1>8, <1>11, <1>12

\* A client that leaves is as if it had never been.
LEMMA LeaveStep ==
  ASSUME EInv, NEW w \in Stream, Leave(w)
  PROVE  EInv'
<1>1. /\ TableKept /\ at' = [at EXCEPT ![w] = "off"]
      /\ batch' = [batch EXCEPT ![w] = {}] /\ cursor' = [cursor EXCEPT ![w] = 0]
      /\ got' = [got EXCEPT ![w] = <<>>] /\ chan' = [chan EXCEPT ![w] = <<>>]
      /\ openedAt' = [openedAt EXCEPT ![w] = 0] /\ UNCHANGED posts
      /\ w \in Watcher /\ w \notin Notifier
  BY StreamAssumption DEF Leave, tableVars, runVars, TableKept, Watcher, Notifier
<1>2. TableInv' /\ Stamp' = Stamp
  BY <1>1, TableStays
<1> USE DEF EInv
<1>3. Elements(<<>>) = {} /\ <<>> \in Seq(Nat) /\ InOrder(<<>>, Stamp)
  BY DEF Elements, InOrder
<1>4. /\ batch \in [Watcher -> SUBSET (DOMAIN log)] /\ cursor \in [Watcher -> Nat]
      /\ got \in [Watcher -> Seq(Nat)] /\ chan \in [Stream -> Seq(Nat)]
  BY DEF WatcherInv
<1>5. /\ batch'[w] = {} /\ cursor'[w] = 0 /\ got'[w] = <<>>
      /\ chan'[w] = <<>>
      /\ \A v \in Watcher \ {w} : batch'[v] = batch[v] /\ cursor'[v] = cursor[v] /\ got'[v] = got[v]
      /\ \A s \in Stream \ {w} : chan'[s] = chan[s]
  BY <1>1, <1>4
<1>6. WatcherInv'
  BY <1>1, <1>3 DEF WatcherInv, TableKept
<1>7. GotInOrder'
  BY <1>2, <1>3, <1>5 DEF GotInOrder
<1>8. ChanInOrder'
  BY <1>2, <1>3, <1>5 DEF ChanInOrder, Watcher
<1>14. PostedOnce'
  BY <1>1, <1>2, <1>5 DEF PostedOnce, Watcher
<1>9. CursorIsAnEvents'
  BY <1>1, <1>2, <1>5 DEF CursorIsAnEvents, TableKept
<1>10. \A v \in Watcher \ {w} : TakenUp(v)' = TakenUp(v)
  BY <1>1, <1>5 DEF TakenUp
<1>11. LateRowsComeLast'
  BY <1>1, <1>2, <1>5, <1>10 DEF LateRowsComeLast, TableKept
<1>12. \A e \in kept : ~(Stamp[e] <= 0)
  BY StampType DEF TableInv
<1>13. PassedRowsCameLate'
  BY <1>1, <1>2, <1>5, <1>10, <1>12 DEF PassedRowsCameLate, TableKept
<1> QED
  BY <1>2, <1>6, <1>7, <1>8, <1>9, <1>11, <1>13, <1>14

\* The cursor moves to the earliest row of the batch, which is behind it now.
LEMMA CursorMoves ==
  ASSUME EInv, TableKept, NEW w \in Watcher, NEW e \in Earliest(batch[w]),
         batch' = [batch EXCEPT ![w] = @ \ {e}],
         cursor' = [cursor EXCEPT ![w] = CreatedAt(e)],
         \A v \in Watcher : TakenUp(v)' = TakenUp(v)
  PROVE  /\ TableInv' /\ Stamp' = Stamp /\ e \in batch[w] /\ e \in DOMAIN log /\ Stamp[e] \in Nat
         /\ cursor' = [cursor EXCEPT ![w] = Stamp[e]] /\ cursor' \in [Watcher -> Nat]
         /\ batch' \in [Watcher -> SUBSET (DOMAIN log)]
         /\ cursor[w] <= Stamp[e] /\ \A f \in batch'[w] : Stamp[e] <= Stamp[f]
         /\ CursorIsAnEvents' /\ LateRowsComeLast' /\ PassedRowsCameLate'
<1> USE DEF EInv
<1>1. TableInv' /\ Stamp' = Stamp
  BY TableStays
<1>2. /\ cursor \in [Watcher -> Nat] /\ batch \in [Watcher -> SUBSET (DOMAIN log)]
      /\ \A f \in DOMAIN log : Stamp[f] \in Nat /\ CreatedAt(f) = Stamp[f]
      /\ kept \subseteq DOMAIN log /\ DOMAIN log = 1..Len(log)
  BY StampType DEF WatcherInv, TableInv
<1>3. e \in batch[w] /\ e \in DOMAIN log /\ \A f \in batch[w] : Stamp[e] <= Stamp[f]
  BY <1>2 DEF Earliest
<1>4. cursor' = [cursor EXCEPT ![w] = Stamp[e]] /\ cursor[w] <= Stamp[e]
  BY <1>2, <1>3 DEF GotInOrder
<1>5. CursorIsAnEvents'
  BY <1>1, <1>2, <1>3, <1>4 DEF CursorIsAnEvents, TableKept
<1>6. LateRowsComeLast'
  <2> SUFFICES ASSUME NEW v \in Watcher, NEW d \in kept, NEW f \in batch'[v],
                      cursor'[v] < Stamp[d], d \notin TakenUp(v)
               PROVE  d > f
    BY <1>1, <1>2 DEF LateRowsComeLast, TableKept
  <2>1. f \in batch[v] /\ cursor[v] < Stamp[d]
    BY <1>2, <1>3, <1>4
  <2> QED
    BY <1>2, <2>1 DEF LateRowsComeLast
<1>7. PassedRowsCameLate'
  <2> SUFFICES ASSUME NEW v \in Watcher, NEW d \in kept, Stamp[d] <= cursor'[v],
                      d \notin TakenUp(v)
               PROVE  \E f \in DOMAIN log : f < d /\ Stamp[d] <= Stamp[f]
    BY <1>1 DEF PassedRowsCameLate, TableKept
  <2>1. CASE Stamp[d] <= cursor[v]
    BY <2>1 DEF PassedRowsCameLate
  <2>2. CASE ~(Stamp[d] <= cursor[v])
    <3>1. v = w /\ cursor[v] < Stamp[d] /\ Stamp[d] <= Stamp[e]
      BY <1>2, <1>4, <2>2
    <3>2. e < d
      BY <1>3, <3>1 DEF LateRowsComeLast
    <3> QED
      BY <1>3, <3>1, <3>2
  <2> QED
    BY <2>1, <2>2
<1> QED
  BY <1>1, <1>2, <1>3, <1>4, <1>5, <1>6, <1>7

\* A stream hands its client the earliest event of its batch.
LEMMA SendStep ==
  ASSUME EInv, NEW w \in Stream, NEW e \in Event, Send(w, e)
  PROVE  EInv'
<1>1. /\ TableKept /\ UNCHANGED <<at, posts, got, openedAt>> /\ w \in Watcher /\ w \notin Notifier
      /\ e \in Earliest(batch[w]) /\ batch' = [batch EXCEPT ![w] = @ \ {e}]
      /\ cursor' = [cursor EXCEPT ![w] = CreatedAt(e)]
      /\ chan' = [chan EXCEPT ![w] = Append(@, e)] /\ e \in Nat
  BY StreamAssumption
     DEF Send, Handle, tableVars, runVars, TableKept, Watcher, Event, Notifier
<1>2. /\ batch \in [Watcher -> SUBSET (DOMAIN log)] /\ chan \in [Stream -> Seq(Nat)]
      /\ cursor \in [Watcher -> Nat] /\ e \in batch[w]
  BY <1>1 DEF EInv, WatcherInv, Earliest
<1>3. /\ e \in DOMAIN log /\ Stamp[e] \in Nat /\ cursor[w] <= Stamp[e] /\ cursor[w] \in Nat
      /\ \A x \in DOMAIN log : Stamp[x] \in Nat
      /\ \A v \in Watcher : Elements(got[v]) \subseteq DOMAIN log
      /\ \A s \in Stream : Elements(chan[s]) \subseteq DOMAIN log
  BY <1>1, <1>2, StampType DEF EInv, GotInOrder, WatcherInv
<1>4. /\ \A x \in Elements(chan[w]) : x # e /\ Stamp[x] <= Stamp[e]
      /\ \A x \in Elements(got[w]) : x # e /\ Stamp[x] <= Stamp[e]
      /\ InOrder(chan[w], Stamp)
  <2>1. /\ \A x \in Elements(chan[w]) : Stamp[x] <= cursor[w] /\ x \notin batch[w]
        /\ InOrder(chan[w], Stamp)
    BY DEF EInv, ChanInOrder
  <2>2. \A x \in Elements(got[w]) : Stamp[x] <= cursor[w] /\ x \notin batch[w]
    BY <1>1 DEF EInv, GotInOrder
  <2>3. \A x \in Elements(chan[w]) \cup Elements(got[w]) : Stamp[x] \in Nat
    BY <1>1, <1>3
  <2> QED
    BY <1>2, <1>3, <2>1, <2>2, <2>3
<1>5. /\ Append(chan[w], e) \in Seq(Nat) /\ InOrder(Append(chan[w], e), Stamp)
      /\ Elements(Append(chan[w], e)) = Elements(chan[w]) \cup {e}
  <2>1. PICK q \in Seq(Nat) : q = chan[w]
    BY <1>2
  <2>2. PICK c : c = Stamp
    OBVIOUS
  <2> QED
    BY <1>1, <1>4, <2>1, <2>2, AppendInOrder
<1>6. /\ chan'[w] = Append(chan[w], e) /\ \A s \in Stream \ {w} : chan'[s] = chan[s]
      /\ batch'[w] = batch[w] \ {e} /\ \A v \in Watcher \ {w} : batch'[v] = batch[v]
      /\ chan' \in [Stream -> Seq(Nat)]
  BY <1>1, <1>2, <1>5
<1>7. \A v \in Watcher : TakenUp(v)' = TakenUp(v)
  BY <1>1, <1>2, <1>5, <1>6 DEF TakenUp
<1>8. /\ TableInv' /\ Stamp' = Stamp /\ cursor' = [cursor EXCEPT ![w] = Stamp[e]]
      /\ cursor' \in [Watcher -> Nat] /\ batch' \in [Watcher -> SUBSET (DOMAIN log)]
      /\ \A f \in batch'[w] : Stamp[e] <= Stamp[f]
      /\ CursorIsAnEvents' /\ LateRowsComeLast' /\ PassedRowsCameLate'
  BY <1>1, <1>7, CursorMoves
<1>9. cursor'[w] = Stamp[e] /\ \A v \in Watcher \ {w} : cursor'[v] = cursor[v]
  BY <1>2, <1>8
<1>10. WatcherInv'
  <2>1. at[w] # "off"
    BY <1>1, <1>2 DEF EInv, WatcherInv
  <2>2. \A s \in Stream : Elements(chan'[s]) \subseteq DOMAIN log
    BY <1>3, <1>5, <1>6
  <2> QED
    BY <1>1, <1>6, <1>8, <1>9, <2>1, <2>2 DEF EInv, WatcherInv, TableKept, Watcher
<1>11. GotInOrder'
  <2> SUFFICES ASSUME NEW v \in Watcher
               PROVE  /\ v \in Stream => InOrder(got[v], Stamp)
                      /\ \A x \in Elements(got[v]) : Stamp[x] <= cursor'[v] /\ x \notin batch'[v]
                      /\ \A x \in batch'[v] : cursor'[v] <= Stamp[x]
    BY <1>1, <1>8 DEF GotInOrder
  <2>1. CASE v = w
    BY <1>4, <1>6, <1>8, <1>9, <2>1 DEF EInv, GotInOrder
  <2>2. CASE v # w
    BY <1>6, <1>9, <2>2 DEF EInv, GotInOrder
  <2> QED
    BY <2>1, <2>2
<1>12. ChanInOrder'
  <2> SUFFICES ASSUME NEW s \in Stream
               PROVE  /\ InOrder(chan'[s], Stamp)
                      /\ \A x \in Elements(chan'[s]) :
                           /\ Stamp[x] <= cursor'[s] /\ x \notin batch'[s]
                           /\ \A f \in Elements(got[s]) : f # x /\ Stamp[f] <= Stamp[x]
    BY <1>1, <1>8 DEF ChanInOrder
  <2>1. CASE s = w
    <3>1. \A x \in Elements(chan[w]) :
            x \notin batch[w] /\ \A f \in Elements(got[w]) : f # x /\ Stamp[f] <= Stamp[x]
      BY DEF EInv, ChanInOrder
    <3>2. \A x \in Elements(chan'[w]) : Stamp[x] <= cursor'[w] /\ x \notin batch'[w]
      BY <1>3, <1>4, <1>5, <1>6, <1>9, <3>1
    <3>3. \A x \in Elements(chan'[w]) : \A f \in Elements(got[w]) : f # x /\ Stamp[f] <= Stamp[x]
      BY <1>4, <1>5, <1>6, <3>1
    <3> QED
      BY <1>5, <1>6, <2>1, <3>2, <3>3
  <2>2. CASE s # w
    BY <1>6, <1>9, <2>2 DEF EInv, ChanInOrder, Watcher
  <2> QED
    BY <2>1, <2>2
<1>13. PostedOnce'
  BY <1>1, <1>6, <1>8, <1>9 DEF EInv, PostedOnce, Watcher
<1> QED
  BY <1>8, <1>10, <1>11, <1>12, <1>13 DEF EInv

\* A notifier posts the earliest event of its batch.
LEMMA FireStep ==
  ASSUME EInv, NEW w \in Notifier, NEW e \in Event, Fire(w, e)
  PROVE  EInv'
<1>1. /\ TableKept /\ UNCHANGED <<at, chan, got, openedAt>> /\ w \in Watcher /\ w \notin Stream
      /\ e \in Earliest(batch[w]) /\ batch' = [batch EXCEPT ![w] = @ \ {e}]
      /\ cursor' = [cursor EXCEPT ![w] = CreatedAt(e)]
      /\ posts' = [posts EXCEPT ![w] = @ \cup {e}] /\ e \in Nat
  BY StreamAssumption
     DEF Fire, Handle, tableVars, runVars, TableKept, Watcher, Event, Notifier
<1>2. /\ batch \in [Watcher -> SUBSET (DOMAIN log)] /\ posts \in [Notifier -> SUBSET (DOMAIN log)]
      /\ cursor \in [Watcher -> Nat] /\ e \in batch[w]
  BY <1>1 DEF EInv, WatcherInv, Earliest
<1>3. /\ e \in DOMAIN log /\ Stamp[e] \in Nat /\ cursor[w] <= Stamp[e] /\ cursor[w] \in Nat
      /\ \A x \in DOMAIN log : Stamp[x] \in Nat
      /\ \A v \in Watcher : Elements(got[v]) \subseteq DOMAIN log
  BY <1>2, <1>1, StampType DEF EInv, GotInOrder, WatcherInv
<1>4. /\ \A x \in Elements(got[w]) \cup posts[w] : x # e /\ x \notin batch[w] /\ Stamp[x] <= Stamp[e]
      /\ \A x \in posts[w] : x \notin Elements(got[w])
  BY <1>1, <1>2, <1>3 DEF EInv, GotInOrder, PostedOnce
<1>5. /\ posts'[w] = posts[w] \cup {e} /\ \A n \in Notifier \ {w} : posts'[n] = posts[n]
      /\ batch'[w] = batch[w] \ {e} /\ \A v \in Watcher \ {w} : batch'[v] = batch[v]
      /\ posts' \in [Notifier -> SUBSET (DOMAIN log)]
  BY <1>1, <1>2, <1>3
<1>6. \A v \in Watcher : TakenUp(v)' = TakenUp(v)
  BY <1>1, <1>2, <1>5 DEF TakenUp, Watcher
<1>7. /\ TableInv' /\ Stamp' = Stamp /\ cursor' = [cursor EXCEPT ![w] = Stamp[e]]
      /\ cursor' \in [Watcher -> Nat] /\ batch' \in [Watcher -> SUBSET (DOMAIN log)]
      /\ \A f \in batch'[w] : Stamp[e] <= Stamp[f]
      /\ CursorIsAnEvents' /\ LateRowsComeLast' /\ PassedRowsCameLate'
  BY <1>1, <1>6, CursorMoves
<1>8. cursor'[w] = Stamp[e] /\ \A v \in Watcher \ {w} : cursor'[v] = cursor[v]
  BY <1>2, <1>7
<1>9. WatcherInv'
  BY <1>1, <1>5, <1>7, <1>8 DEF EInv, WatcherInv, TableKept, Watcher
<1>10. GotInOrder'
  <2> SUFFICES ASSUME NEW v \in Watcher
               PROVE  /\ v \in Stream => InOrder(got[v], Stamp)
                      /\ \A x \in Elements(got[v]) : Stamp[x] <= cursor'[v] /\ x \notin batch'[v]
                      /\ \A x \in batch'[v] : cursor'[v] <= Stamp[x]
    BY <1>1, <1>7 DEF GotInOrder
  <2>1. CASE v = w
    BY <1>1, <1>4, <1>5, <1>7, <1>8, <2>1 DEF EInv, GotInOrder
  <2>2. CASE v # w
    BY <1>5, <1>8, <2>2 DEF EInv, GotInOrder
  <2> QED
    BY <2>1, <2>2
<1>11. ChanInOrder'
  BY <1>1, <1>5, <1>7, <1>8 DEF EInv, ChanInOrder, Watcher
<1>12. PostedOnce'
  <2> SUFFICES ASSUME NEW n \in Notifier
               PROVE  /\ Once(got[n])
                      /\ \A x \in posts'[n] : /\ Stamp[x] <= cursor'[n] /\ x \notin batch'[n]
                                             /\ x \notin Elements(got[n])
    BY <1>1, <1>7 DEF PostedOnce
  <2>1. Once(got[n])
    BY DEF EInv, PostedOnce
  <2>2. CASE n = w
    <3>1. e \notin Elements(got[w]) /\ Stamp[e] <= Stamp[e]
      BY <1>3, <1>4
    <3> QED
      BY <1>4, <1>5, <1>8, <2>1, <2>2, <3>1
  <2>3. CASE n # w
    BY <1>5, <1>8, <2>1, <2>3 DEF EInv, PostedOnce, Watcher
  <2> QED
    BY <2>2, <2>3
<1> QED
  BY <1>7, <1>9, <1>10, <1>11, <1>12 DEF EInv

\* A post moves from what is under way to what has arrived.
LEMMA ArriveStep ==
  ASSUME EInv, NEW w \in Notifier, NEW e \in Event, Arrive(w, e)
  PROVE  EInv'
<1>1. /\ TableKept /\ UNCHANGED <<at, cursor, batch, chan, openedAt>>
      /\ w \in Watcher /\ w \notin Stream /\ e \in posts[w] /\ e \in Nat
      /\ posts' = [posts EXCEPT ![w] = @ \ {e}] /\ got' = [got EXCEPT ![w] = Append(@, e)]
  BY StreamAssumption DEF Arrive, tableVars, runVars, TableKept, Watcher, Event, Notifier
<1>2. TableInv' /\ Stamp' = Stamp
  BY <1>1, TableStays
<1>3. /\ got \in [Watcher -> Seq(Nat)] /\ posts \in [Notifier -> SUBSET (DOMAIN log)]
      /\ \A v \in Watcher : Elements(got[v]) \subseteq DOMAIN log
      /\ Once(got[w]) /\ e \notin Elements(got[w]) /\ e \in DOMAIN log
      /\ Stamp[e] <= cursor[w] /\ e \notin batch[w]
  BY <1>1 DEF EInv, WatcherInv, PostedOnce
<1>4. /\ Append(got[w], e) \in Seq(Nat) /\ Once(Append(got[w], e))
      /\ Elements(Append(got[w], e)) = Elements(got[w]) \cup {e}
  <2>1. PICK q \in Seq(Nat) : q = got[w]
    BY <1>1, <1>3
  <2> QED
    BY <1>1, <1>3, <2>1, AppendOnce
<1>5. /\ got'[w] = Append(got[w], e) /\ \A v \in Watcher \ {w} : got'[v] = got[v]
      /\ posts'[w] = posts[w] \ {e} /\ \A n \in Notifier \ {w} : posts'[n] = posts[n]
      /\ got' \in [Watcher -> Seq(Nat)] /\ posts' \in [Notifier -> SUBSET (DOMAIN log)]
  BY <1>1, <1>3, <1>4
<1>6. \A v \in Watcher : TakenUp(v)' = TakenUp(v)
  BY <1>1, <1>4, <1>5 DEF TakenUp, Watcher
<1>7. WatcherInv'
  <2>1. \A v \in Watcher : Elements(got'[v]) \subseteq DOMAIN log
    BY <1>3, <1>4, <1>5
  <2> QED
    BY <1>1, <1>5, <2>1 DEF EInv, WatcherInv, TableKept, Watcher
<1>8. GotInOrder'
  <2> SUFFICES ASSUME NEW v \in Watcher
               PROVE  /\ v \in Stream => InOrder(got'[v], Stamp)
                      /\ \A x \in Elements(got'[v]) : Stamp[x] <= cursor[v] /\ x \notin batch[v]
                      /\ \A x \in batch[v] : cursor[v] <= Stamp[x]
    BY <1>1, <1>2 DEF GotInOrder
  <2>1. CASE v = w
    BY <1>1, <1>3, <1>4, <1>5, <2>1 DEF EInv, GotInOrder
  <2>2. CASE v # w
    BY <1>5, <2>2 DEF EInv, GotInOrder
  <2> QED
    BY <2>1, <2>2
<1>9. ChanInOrder'
  BY <1>1, <1>2, <1>5 DEF EInv, ChanInOrder, Watcher
<1>10. PostedOnce'
  <2> SUFFICES ASSUME NEW n \in Notifier
               PROVE  /\ Once(got'[n])
                      /\ \A x \in posts'[n] : /\ Stamp[x] <= cursor[n] /\ x \notin batch[n]
                                             /\ x \notin Elements(got'[n])
    BY <1>1, <1>2 DEF PostedOnce
  <2>1. CASE n = w
    BY <1>4, <1>5, <2>1 DEF EInv, PostedOnce
  <2>2. CASE n # w
    BY <1>5, <2>2 DEF EInv, PostedOnce, Watcher
  <2> QED
    BY <2>1, <2>2
<1>11. CursorIsAnEvents' /\ LateRowsComeLast' /\ PassedRowsCameLate'
  BY <1>1, <1>2, <1>6
     DEF EInv, CursorIsAnEvents, LateRowsComeLast, PassedRowsCameLate, TableKept
<1> QED
  BY <1>2, <1>7, <1>8, <1>9, <1>10, <1>11 DEF EInv

\* A client takes the next event out of its channel.
LEMMA ReceiveStep ==
  ASSUME EInv, NEW w \in Stream, Receive(w)
  PROVE  EInv'
<1>1. /\ TableKept /\ UNCHANGED <<at, cursor, batch, posts, openedAt>>
      /\ w \in Watcher /\ w \notin Notifier
      /\ chan[w] # <<>> /\ chan' = [chan EXCEPT ![w] = Tail(@)]
      /\ got' = [got EXCEPT ![w] = Append(@, Head(chan[w]))]
  BY StreamAssumption DEF Receive, tableVars, runVars, TableKept, Watcher, Notifier
<1>2. TableInv' /\ Stamp' = Stamp
  BY <1>1, TableStays
<1>3. /\ got \in [Watcher -> Seq(Nat)] /\ chan \in [Stream -> Seq(Nat)]
      /\ Elements(got[w]) \subseteq DOMAIN log /\ Elements(chan[w]) \subseteq DOMAIN log
  BY <1>1 DEF EInv, WatcherInv
<1>4. PICK q \in Seq(Nat) : q = chan[w]
  BY <1>3
<1>5. PICK g \in Seq(Nat) : g = got[w]
  BY <1>1, <1>3
<1>6. PICK c : c = Stamp
  OBVIOUS
<1> DEFINE h == Head(q)
<1>7. /\ InOrder(q, c) /\ InOrder(g, c)
      /\ \A x \in Elements(q) : /\ c[x] <= cursor[w] /\ x \notin batch[w]
                                /\ \A f \in Elements(g) : f # x /\ c[f] <= c[x]
      /\ \A x \in Elements(g) : c[x] <= cursor[w] /\ x \notin batch[w]
  BY <1>1, <1>4, <1>5, <1>6 DEF EInv, GotInOrder, ChanInOrder
<1>8. /\ Tail(q) \in Seq(Nat) /\ InOrder(Tail(q), c) /\ h \in Elements(q)
      /\ Elements(q) = Elements(Tail(q)) \cup {h}
      /\ \A x \in Elements(Tail(q)) : h # x /\ c[h] <= c[x]
  BY <1>1, <1>4, <1>7, TailInOrder
<1>9. h \in Nat
  BY <1>1, <1>4
<1>10. /\ Append(g, h) \in Seq(Nat) /\ InOrder(Append(g, h), c)
       /\ Elements(Append(g, h)) = Elements(g) \cup {h}
  <2>1. \A x \in Elements(g) : x # h /\ c[x] <= c[h]
    BY <1>7, <1>8
  <2> HIDE DEF h
  <2> QED
    BY <1>7, <1>9, <2>1, AppendInOrder
<1>11. /\ got'[w] = Append(g, h) /\ \A v \in Watcher \ {w} : got'[v] = got[v]
       /\ chan'[w] = Tail(q) /\ \A s \in Stream \ {w} : chan'[s] = chan[s]
       /\ got' \in [Watcher -> Seq(Nat)] /\ chan' \in [Stream -> Seq(Nat)]
  BY <1>1, <1>3, <1>4, <1>5, <1>8, <1>10
<1> HIDE DEF h
<1>12. \A v \in Watcher : TakenUp(v)' = TakenUp(v)
  BY <1>1, <1>4, <1>5, <1>8, <1>10, <1>11 DEF TakenUp
<1>13. WatcherInv'
  <2>1. at[w] # "off"
    BY <1>1, <1>3 DEF EInv, WatcherInv
  <2>2. /\ \A s \in Stream : Elements(chan'[s]) \subseteq DOMAIN log
        /\ \A v \in Watcher : Elements(got'[v]) \subseteq DOMAIN log
    BY <1>3, <1>4, <1>5, <1>8, <1>10, <1>11 DEF EInv, WatcherInv
  <2> QED
    BY <1>1, <1>11, <2>1, <2>2 DEF EInv, WatcherInv, TableKept, Watcher
<1>14. GotInOrder'
  <2> SUFFICES ASSUME NEW v \in Watcher
               PROVE  /\ v \in Stream => InOrder(got'[v], c)
                      /\ \A x \in Elements(got'[v]) : c[x] <= cursor[v] /\ x \notin batch[v]
                      /\ \A x \in batch[v] : cursor[v] <= c[x]
    BY <1>1, <1>2, <1>6 DEF GotInOrder
  <2>1. CASE v = w
    BY <1>6, <1>7, <1>8, <1>10, <1>11, <2>1 DEF EInv, GotInOrder
  <2>2. CASE v # w
    BY <1>6, <1>11, <2>2 DEF EInv, GotInOrder
  <2> QED
    BY <2>1, <2>2
<1>15. ChanInOrder'
  <2> SUFFICES ASSUME NEW s \in Stream
               PROVE  /\ InOrder(chan'[s], c)
                      /\ \A x \in Elements(chan'[s]) :
                           /\ c[x] <= cursor[s] /\ x \notin batch[s]
                           /\ \A f \in Elements(got'[s]) : f # x /\ c[f] <= c[x]
    BY <1>1, <1>2, <1>6 DEF ChanInOrder
  <2>1. CASE s = w
    BY <1>7, <1>8, <1>10, <1>11, <2>1
  <2>2. CASE s # w
    BY <1>6, <1>11, <2>2 DEF EInv, ChanInOrder, Watcher
  <2> QED
    BY <2>1, <2>2
<1>16. CursorIsAnEvents' /\ LateRowsComeLast' /\ PassedRowsCameLate'
  BY <1>1, <1>2, <1>12
     DEF EInv, CursorIsAnEvents, LateRowsComeLast, PassedRowsCameLate, TableKept
<1>17. PostedOnce'
  BY <1>1, <1>2, <1>11 DEF EInv, PostedOnce, Watcher
<1> QED
  BY <1>2, <1>13, <1>14, <1>15, <1>16, <1>17 DEF EInv

\* Every step keeps the invariant.
LEMMA StepEInv == EInv /\ [Next]_vars => EInv'
<1> SUFFICES ASSUME EInv, [Next]_vars PROVE EInv'
  OBVIOUS
<1>1. CASE UNCHANGED vars
  <2>1. TableKept /\ UNCHANGED <<at, cursor, batch, chan, posts, got, openedAt>>
    BY <1>1 DEF vars, tableVars, runVars, TableKept
  <2>2. TableInv'
    BY <2>1, TableStays
  <2> QED
    BY <2>1, <2>2, AsideKeeps DEF TableKept, EInv, WatcherInv
<1>2. CASE \/ Tick \/ Reset \/ RunEnds
           \/ \E w \in Writer : ReadClock(w) \/ InsertFails(w)
           \/ \E n \in Notifier : StopNotifier(n)
  BY <1>2, AsideSteps
<1>3. CASE \E w \in Writer : Insert(w)
  BY <1>3, InsertStep
<1>4. CASE \E s \in Stream : Open(s) \/ Receive(s) \/ Leave(s) \/ \E e \in Event : Send(s, e)
  BY <1>4, OpenStep, ReceiveStep, LeaveStep, SendStep
<1>5. CASE \E n \in Notifier, e \in Event : Fire(n, e) \/ Arrive(n, e)
  BY <1>5, FireStep, ArriveStep
<1>6. CASE \E w \in Watcher : Poll(w)
  BY <1>6, PollStep
<1> QED
  BY <1>1, <1>2, <1>3, <1>4, <1>5, <1>6 DEF Next

\* The strengthening is an invariant.
THEOREM EventInvariant == Spec => []EInv
<1> QED
  BY InitEInv, StepEInv, PTL DEF Spec

-----------------------------------------------------------------------------
(* The three invariants of the run `events` *)

\* Nobody gets an event twice, and a client gets them in the order of their seconds,
\* through resets, restarts, full channels, any order of inserting and posts that overtake
\* each other.
THEOREM EventsComeInOrder == Spec => []InOrderAndOnce
<1>1. EInv => InOrderAndOnce
  <2> SUFFICES ASSUME EInv, NEW w \in Watcher, NEW i \in DOMAIN got[w], NEW j \in DOMAIN got[w],
                      i < j
               PROVE  /\ got[w][i] # got[w][j]
                      /\ w \in Stream => CreatedAt(got[w][i]) <= CreatedAt(got[w][j])
    BY DEF InOrderAndOnce, Watcher
  <2>1. got[w][i] \in DOMAIN log /\ got[w][j] \in DOMAIN log
    BY DEF EInv, WatcherInv, Elements
  <2>2. CASE w \in Stream
    <3>1. got[w][i] # got[w][j] /\ Stamp[got[w][i]] <= Stamp[got[w][j]]
      BY <2>2 DEF EInv, GotInOrder, InOrder
    <3> QED
      BY <2>1, <3>1 DEF Stamp, CreatedAt
  <2>3. CASE w \notin Stream
    BY <2>3 DEF EInv, PostedOnce, Once, Watcher
  <2> QED
    BY <2>2, <2>3
<1> QED
  BY <1>1, EventInvariant, PTL

\* An event nobody will ever hear of was inserted after another of its second or a later
\* one.
THEOREM LostEventsWereOvertaken == Spec => []OnlyOvertakenEventsAreLost
<1>1. EInv => OnlyOvertakenEventsAreLost
  <2> SUFFICES ASSUME EInv, NEW w \in Watcher, NEW e \in kept,
                      CreatedAt(e) <= cursor[w], e \notin TakenUp(w)
               PROVE  \E f \in 1..(e - 1) : CreatedAt(f) >= CreatedAt(e)
    BY DEF OnlyOvertakenEventsAreLost
  <2>1. /\ kept \subseteq DOMAIN log /\ DOMAIN log = 1..Len(log) /\ Len(log) \in Nat
        /\ \A d \in DOMAIN log : Stamp[d] = CreatedAt(d) /\ Stamp[d] \in Nat
    BY StampType DEF EInv, TableInv
  <2>2. PICK f \in DOMAIN log : f < e /\ Stamp[e] <= Stamp[f]
    BY <2>1 DEF EInv, PassedRowsCameLate
  <2>3. f \in 1..(e - 1)
    BY <2>1, <2>2
  <2> QED
    BY <2>1, <2>2, <2>3
<1> QED
  BY <1>1, EventInvariant, PTL

\* The page shows every event that is not older than itself.
THEOREM PagesShowWhatIsNew == Spec => []NewEventsAreShown
<1>1. EInv => NewEventsAreShown
  <2> SUFFICES ASSUME EInv, NEW s \in Stream, NEW e \in Elements(got[s]), log[e] >= openedAt[s]
               PROVE  e \in Shown(s)
    BY DEF NewEventsAreShown
  <2>1. log[e] \in Nat /\ openedAt[s] \in Nat
    BY DEF EInv, WatcherInv, TableInv, Watcher
  <2>2. /\ Second(openedAt[s]) \in Nat /\ Second(log[e]) \in Nat
        /\ Second(openedAt[s]) <= Second(log[e])
    BY <2>1, SecondIsMonotone, DivisionBounds
  <2>3. Second(openedAt[s]) * TicksPerSecond <= Second(log[e]) * TicksPerSecond
    BY <2>2, TimesTicksIsMonotone
  <2>4. /\ Second(openedAt[s]) * TicksPerSecond \in Nat
        /\ Second(log[e]) * TicksPerSecond \in Nat
    BY <2>2, BoundsAssumption
  <2> QED
    BY <2>3, <2>4 DEF Shown, ShownSince, CreatedAt
<1> QED
  BY <1>1, EventInvariant, PTL
=============================================================================
