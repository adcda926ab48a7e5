--------------------------- MODULE AttemptsProofs ---------------------------
(***************************************************************************)
(* Theorems about Attempts and Executor, for any limits and any reviews.   *)
(*                                                                         *)
(* A history grows by what the role did and by what it is told, and is cut *)
(* down only when the task is fetched.  What bounds it in between is the   *)
(* retry count: each message a review adds costs a retry, and the row a    *)
(* task is fetched from has one left.  That the newest message is the one  *)
(* to act on needs the same of the rows in the database, from where the    *)
(* next attempt takes its history.                                         *)
(*                                                                         *)
(* So the last message is always one to the role, and the providers are    *)
(* sent the same.  What their loop picks from messages of any number is an *)
(* induction, which is done as the search for a least counterexample.      *)
(***************************************************************************)
EXTENDS Attempts, SequenceTheorems, WellFoundedInduction, TLAPS

\* A history that begins with the task, and one that ends with what was said last, or with
\* the task where no room is left for it: in any case with a message to the role.
Begun(h) == Len(h) > 0 /\ h[1] = Statement
Newest(h, n) ==
  /\ h[Len(h)].from = "user"
  /\ n > 0 /\ MaxHistory > 1 => h[Len(h)] = Word(n)

\* A task that is fetched has a retry left, and so has one in work.
HasBudget(r) == r.status \in {"pending", "waiting_subtask"} => r.retry < MaxRetry

Budget == HasBudget(row) /\ HasBudget(held) /\ (at \in InCall => retry < MaxRetry)

\* Each retry is worth two messages.
Allowed == MaxHistory + 2 * retry

Bounded ==
  chats = 0 =>
    /\ at \in {"stating", "asking"} => Len(mem) <= Allowed
    /\ at \in InCall \ {"claimed"} => Len(mem) <= Allowed + 1

\* The histories in the database and in memory, as long as no chat has touched them.
Told ==
  chats = 0 =>
    /\ row.status = "pending" =>
         \/ row.history = <<>> /\ words = 0
         \/ Begun(row.history) /\ Newest(row.history, words)
    /\ row.status = "waiting_subtask" => Begun(row.history)
    /\ at \in {"claimed", "stating"} =>
         \/ mem = <<>> /\ words = 0
         \/ Begun(mem) /\ Newest(mem, words)
    /\ at = "asking" => Newest(mem, words)
    /\ at \in InCall \ {"claimed", "stating"} => Begun(mem)

\* The bound on the exchanges counts the one to come.
ChatBound == chat # "none" => chats < MaxChats

\* A Run has a caller, which waits for it; a scan that runs is one that is still to end.
Called == step # "idle" \/ result # "none" => at = "running" \/ (at = "scanning" /\ scans > 0)

TaskInv == TaskTypeOK /\ Budget /\ ChatBound /\ Bounded /\ Told
RunInv  == ExecTypeOK /\ ContainersAreRemoved
IInv    == TaskInv /\ RunInv /\ Called

-----------------------------------------------------------------------------
(* Histories *)

\* What a history is made of.
LEMMA MessagesAre ==
  /\ Statement \in Message /\ Work \in Message
  /\ \A n \in Nat : Word(n) \in Message
  /\ Exchange \in Seq(Message) /\ Len(Exchange) = 2
<1> USE DEF Message, Statement, Work, Word, Exchange
<1>1. Statement \in Message /\ Work \in Message /\ \A n \in Nat : Word(n) \in Message
  OBVIOUS
<1>2. /\ [from |-> "user", says |-> "chat", n |-> 0] \in Message
      /\ [from |-> "assistant", says |-> "chat", n |-> 0] \in Message
  OBVIOUS
<1> QED BY <1>1, <1>2

\* Trim keeps the first message and the newest ones, and no more than the limit.
LEMMA TrimIs ==
  ASSUME NEW h \in Seq(Message)
  PROVE  /\ Trim(h) \in Seq(Message) /\ Len(Trim(h)) <= MaxHistory
         /\ h = <<>> => Trim(h) = <<>>
         /\ Len(h) > 0 =>
              /\ Len(Trim(h)) > 0 /\ Trim(h)[1] = h[1]
              /\ Trim(h)[Len(Trim(h))] \in {h[Len(h)], h[1]}
              /\ MaxHistory > 1 => Trim(h)[Len(Trim(h))] = h[Len(h)]
<1> USE LimitsAssumption
<1>1. Len(h) \in Nat
  BY LenProperties
<1>2. CASE Len(h) <= MaxHistory
  BY <1>1, <1>2 DEF Trim
<1>3. CASE Len(h) > MaxHistory
  <2> DEFINE a == <<h[1]>>
             b == SubSeq(h, Len(h) - MaxHistory + 2, Len(h))
  <2>1. Trim(h) = a \o b
    BY <1>3 DEF Trim
  <2>2. h[1] \in Message
    BY <1>1, <1>3, ElementOfSeq
  <2>3. a \in Seq(Message) /\ Len(a) = 1 /\ a[1] = h[1]
    BY <2>2
  <2>4. Len(h) - MaxHistory + 2 \in Int /\ Len(h) - MaxHistory + 2 >= 1
    BY <1>1, <1>3
  <2>5. \A i \in (Len(h) - MaxHistory + 2)..Len(h) : h[i] \in Message
    BY <1>1, <2>4, ElementOfSeq
  <2>6. /\ b \in Seq(Message)
        /\ Len(b) = MaxHistory - 1
        /\ \A i \in 1..(MaxHistory - 1) : b[i] = h[Len(h) - MaxHistory + 2 + i - 1]
    <3> DEFINE m == Len(h) - MaxHistory + 2
               n == Len(h)
    <3>0. m \in Int /\ n \in Int /\ \A i \in m..n : h[i] \in Message
      BY <1>1, <2>4, <2>5
    <3>1. /\ SubSeq(h, m, n) \in Seq(Message)
          /\ Len(SubSeq(h, m, n)) = IF m <= n THEN n - m + 1 ELSE 0
          /\ \A i \in 1..(n - m + 1) : SubSeq(h, m, n)[i] = h[m + i - 1]
      <4> HIDE DEF m, n
      <4> QED BY <3>0, SubSeqProperties
    <3>2. n - m + 1 = MaxHistory - 1
      BY <1>1
    <3> QED BY <1>1, <3>1, <3>2
  <2> HIDE DEF a, b
  <2>7. /\ a \o b \in Seq(Message) /\ Len(a \o b) = MaxHistory
        /\ \A i \in 1..MaxHistory : (a \o b)[i] = IF i <= 1 THEN a[i] ELSE b[i - 1]
    <3>1. /\ a \o b \in Seq(Message) /\ Len(a \o b) = Len(a) + Len(b)
          /\ \A i \in 1..(Len(a) + Len(b)) :
               (a \o b)[i] = IF i <= Len(a) THEN a[i] ELSE b[i - Len(a)]
      <4>1. a \in Seq(Message) /\ b \in Seq(Message)
        BY <2>3, <2>6
      <4> QED BY <4>1, ConcatProperties, Zenon
    <3>2. Len(a) = 1 /\ Len(a) + Len(b) = MaxHistory
      BY <2>3, <2>6
    <3> QED BY <3>1, <3>2
  <2>8. (a \o b)[1] = h[1]
    BY <2>3, <2>7
  <2>9. ASSUME MaxHistory > 1 PROVE (a \o b)[MaxHistory] = h[Len(h)]
    <3>1. (a \o b)[MaxHistory] = b[MaxHistory - 1]
      BY <2>7, <2>9
    <3>2. b[MaxHistory - 1] = h[Len(h) - MaxHistory + 2 + (MaxHistory - 1) - 1]
      BY <2>6, <2>9
    <3> QED BY <3>1, <3>2, <1>1
  <2> QED BY <1>1, <1>3, <2>1, <2>7, <2>8, <2>9
<1> QED BY <1>1, <1>2, <1>3

\* A message more.
LEMMA AppendIs ==
  ASSUME NEW h \in Seq(Message), NEW m \in Message
  PROVE  /\ Append(h, m) \in Seq(Message) /\ Len(Append(h, m)) = Len(h) + 1
         /\ Begun(h) => Begun(Append(h, m))
         /\ Append(h, m)[Len(Append(h, m))] = m
<1>1. Len(h) \in Nat
  BY LenProperties
<1>2. /\ Append(h, m) \in Seq(Message) /\ Len(Append(h, m)) = Len(h) + 1
      /\ \A i \in 1..Len(h) : Append(h, m)[i] = h[i]
      /\ Append(h, m)[Len(h) + 1] = m
  BY AppendProperties
<1> QED BY <1>1, <1>2 DEF Begun

\* The role is told a thing it was not told before, as the newest.
LEMMA TellIs ==
  ASSUME TaskTypeOK, NEW h \in Seq(Message)
  PROVE  /\ Tell(h) \in Seq(Message) /\ Len(Tell(h)) = Len(h) + 1
         /\ Begun(h) => Begun(Tell(h))
         /\ Newest(Tell(h), words + 1)
<1>1. Word(words + 1) \in Message
  BY MessagesAre DEF TaskTypeOK
<1>2. Word(words + 1).from = "user"
  BY DEF Word
<1> QED BY <1>1, <1>2, AppendIs DEF Tell, Newest

\* What a chat makes of a history is one.
LEMMA InjectIs ==
  ASSUME NEW h \in Seq(Message), NEW x \in Appended(h)
  PROVE  x \in Seq(Message)
<1>1. Exchange \in Seq(Message)
  BY MessagesAre
<1>2. \A g \in Seq(Message) : g \o Exchange \in Seq(Message)
  BY <1>1, ConcatProperties, Zenon
<1>3. SubSeq(h, 1, Len(h) - 1) \in Seq(Message)
  <2> DEFINE m == 1
             n == Len(h) - 1
  <2>1. m \in Int /\ n \in Int /\ \A i \in m..n : h[i] \in Message
    BY LenProperties, ElementOfSeq
  <2>2. SubSeq(h, m, n) \in Seq(Message)
    <3> HIDE DEF m, n
    <3> QED BY <2>1, SubSeqProperties
  <2> QED BY <2>2
<1> QED BY <1>2, <1>3 DEF Appended

-----------------------------------------------------------------------------
(* What the providers are sent *)

\* The loop's picks are determined step by step: whatever gives them for each prefix of
\* the messages gives them for all.
Pick(f, ms, roles, i) ==
  IF i = 0 THEN <<>>
  ELSE IF ms[i].from \in roles THEN Append(f[i - 1], ms[i])
  ELSE f[i - 1]

Picks(f, ms, roles) == f = [i \in 0..Len(ms) |-> Pick(f, ms, roles, i)]

Less == {pair \in Nat \X Nat : pair[1] < pair[2]}

\* A set of numbers has a least one.
LEMMA LeastNumber ==
  ASSUME NEW T \in SUBSET Nat, T # {}
  PROVE  \E x \in T : \A y \in T : x <= y
<1>1. Less = OpToRel(<, Nat)
  BY Zenon DEF Less, OpToRel
<1>2. IsWellFoundedOn(Less, Nat)
  BY <1>1, NatLessThanWellFounded, Zenon
<1>3. \E x \in T : \A y \in T : <<y, x>> \notin Less
  BY <1>2, WFMin, Zenon
<1>4. \A x, y \in Nat : y < x => <<y, x>> \in Less
  BY DEF Less
<1>5. PICK x \in T : \A y \in T : <<y, x>> \notin Less
  BY <1>3
<1>6. \A y \in T : x <= y
  <2> SUFFICES ASSUME NEW y \in T PROVE ~(y < x)
    OBVIOUS
  <2>1. x \in Nat /\ y \in Nat /\ <<y, x>> \notin Less
    BY <1>5
  <2> QED BY <1>4, <2>1
<1> QED BY <1>6

\* Two functions with the picks of every prefix do not differ first anywhere.
LEMMA PicksAreUnique ==
  ASSUME NEW ms, NEW roles, Len(ms) \in Nat, NEW f, NEW g, Picks(f, ms, roles), Picks(g, ms, roles)
  PROVE  f[Len(ms)] = g[Len(ms)]
<1> SUFFICES ASSUME f[Len(ms)] # g[Len(ms)] PROVE FALSE
  OBVIOUS
<1> DEFINE T == {i \in 0..Len(ms) : f[i] # g[i]}
<1>1. T \in SUBSET Nat /\ T # {}
  OBVIOUS
<1>2. PICK i \in T : \A j \in T : i <= j
  <2> HIDE DEF T
  <2> QED BY <1>1, LeastNumber
<1>3. f[i] = Pick(f, ms, roles, i) /\ g[i] = Pick(g, ms, roles, i)
  BY <1>2 DEF Picks
<1>4. i \in 0..Len(ms) /\ f[i] # g[i] /\ i \in Nat
  BY <1>2
<1>5. i # 0
  BY <1>3, <1>4 DEF Pick
<1>6. f[i - 1] = g[i - 1]
  BY <1>2, <1>4, <1>5
<1>7. Pick(f, ms, roles, i) = Pick(g, ms, roles, i)
  BY <1>6 DEF Pick
<1> QED BY <1>3, <1>4, <1>7

\* So From is the last value of any such function.
LEMMA FromIs ==
  ASSUME NEW ms, NEW roles, Len(ms) \in Nat, NEW g, Picks(g, ms, roles)
  PROVE  From(ms, roles) = g[Len(ms)]
<1> DEFINE f == CHOOSE picked : Picks(picked, ms, roles)
<1>1. Picks(f, ms, roles)
  OBVIOUS
<1>2. From(ms, roles) = f[Len(ms)]
  BY DEF From, Picks, Pick
<1> HIDE DEF f
<1> QED BY <1>1, <1>2, PicksAreUnique

\* Nothing is lost from messages that are all of the roles picked.
LEMMA AllArePicked ==
  ASSUME NEW S, NEW ms \in Seq(S), NEW roles, \A i \in 1..Len(ms) : ms[i].from \in roles
  PROVE  From(ms, roles) = ms
<1> DEFINE g == [i \in 0..Len(ms) |-> SubSeq(ms, 1, i)]
<1>1. Len(ms) \in Nat
  BY LenProperties
<1>2. ASSUME NEW i \in 1..Len(ms)
      PROVE  SubSeq(ms, 1, i) = Append(SubSeq(ms, 1, i - 1), ms[i])
  OBVIOUS
<1>3. SubSeq(ms, 1, 0) = <<>> /\ SubSeq(ms, 1, Len(ms)) = ms
  OBVIOUS
<1>4. ASSUME NEW i \in 0..Len(ms)
      PROVE  SubSeq(ms, 1, i) = Pick(g, ms, roles, i)
  <2>1. CASE i = 0
    BY <1>3, <2>1 DEF Pick
  <2>2. CASE i # 0
    <3>1. i \in 1..Len(ms) /\ i - 1 \in 0..Len(ms)
      BY <1>1, <2>2
    <3>2. g[i - 1] = SubSeq(ms, 1, i - 1)
      BY <3>1
    <3> HIDE DEF g
    <3> QED BY <1>2, <2>2, <3>1, <3>2 DEF Pick
  <2> QED BY <2>1, <2>2
<1>5. Picks(g, ms, roles)
  BY <1>4 DEF Picks
<1>6. From(ms, roles) = g[Len(ms)]
  <2> HIDE DEF g
  <2> QED BY <1>1, <1>5, FromIs
<1> QED BY <1>1, <1>3, <1>6

\* The conversation behind the prompt is what is left when the turns are picked.
LEMMA TurnsArePicked ==
  ASSUME NEW h \in Seq(Message)
  PROVE  /\ From(<<Prompt>> \o h, Turn) = h
         /\ From(<<Prompt>> \o h, {"system"} \cup Turn) = <<Prompt>> \o h
<1> DEFINE ms == <<Prompt>> \o h
           g  == [i \in 0..Len(ms) |-> SubSeq(h, 1, i - 1)]
<1>1. /\ Len(h) \in Nat /\ Len(ms) = Len(h) + 1
      /\ ms[1] = Prompt
      /\ \A i \in 1..Len(h) : ms[i + 1] = h[i]
  OBVIOUS
<1>2. Prompt.from = "system" /\ \A i \in 1..Len(h) : h[i].from \in Turn
  <2>1. \A i \in 1..Len(h) : h[i] \in Message
    OBVIOUS
  <2> QED BY <2>1 DEF Message, Turn, Prompt
<1>3. ASSUME NEW i \in 1..Len(h)
      PROVE  SubSeq(h, 1, i) = Append(SubSeq(h, 1, i - 1), h[i])
  OBVIOUS
<1>4. SubSeq(h, 1, 0 - 1) = <<>> /\ SubSeq(h, 1, 1 - 1) = <<>> /\ SubSeq(h, 1, Len(h)) = h
  OBVIOUS
<1> HIDE DEF ms
<1>5. ASSUME NEW i \in 0..Len(ms)
      PROVE  SubSeq(h, 1, i - 1) = Pick(g, ms, Turn, i)
  <2>1. CASE i = 0
    BY <1>4, <2>1 DEF Pick
  <2>2. CASE i = 1
    <3>1. g[1 - 1] = SubSeq(h, 1, 0 - 1)
      BY <1>1
    <3>2. ms[1].from \notin Turn
      BY <1>1, <1>2 DEF Turn
    <3> HIDE DEF g
    <3> QED BY <1>4, <2>2, <3>1, <3>2 DEF Pick
  <2>3. CASE i > 1
    <3>1. i \in Nat /\ i - 1 \in 1..Len(h) /\ i - 1 \in 0..Len(ms)
      BY <1>1, <2>3
    <3>2. g[i - 1] = SubSeq(h, 1, (i - 1) - 1)
      BY <3>1
    <3>3. ms[i] = h[i - 1] /\ ms[i].from \in Turn
      BY <1>1, <1>2, <3>1
    <3>4. Pick(g, ms, Turn, i) = Append(g[i - 1], ms[i])
      <4> HIDE DEF g
      <4> QED BY <2>3, <3>1, <3>3 DEF Pick
    <3> QED BY <1>3, <3>1, <3>2, <3>3, <3>4
  <2> QED BY <1>1, <2>1, <2>2, <2>3
<1>6. From(ms, Turn) = h
  <2>1. Picks(g, ms, Turn)
    BY <1>5 DEF Picks
  <2>2. From(ms, Turn) = g[Len(ms)]
    <3> HIDE DEF g
    <3> QED BY <1>1, <2>1, FromIs
  <2> QED BY <1>1, <1>4, <2>2
<1>7. From(ms, {"system"} \cup Turn) = ms
  <2>1. ms \in Seq(Message \cup {Prompt})
    BY DEF ms
  <2>2. \A i \in 1..Len(ms) : ms[i].from \in {"system"} \cup Turn
    <3> SUFFICES ASSUME NEW i \in 1..Len(ms) PROVE ms[i].from \in {"system"} \cup Turn
      OBVIOUS
    <3>1. i = 1 \/ (i - 1 \in 1..Len(h) /\ i = (i - 1) + 1)
      BY <1>1
    <3>2. ms[i] = Prompt \/ (i - 1 \in 1..Len(h) /\ ms[i] = h[i - 1])
      BY <1>1, <3>1
    <3> QED BY <1>2, <3>2
  <2> QED BY <2>1, <2>2, AllArePicked
<1> QED BY <1>6, <1>7 DEF ms

\* The turns with a user's as the last: taken out and put at the end, it is where it was.
LEMMA LastIsAnswered ==
  ASSUME NEW h \in Seq(Message), Len(h) > 0, h[Len(h)].from = "user",
         NEW ms, From(ms, Turn) = h
  PROVE  GeminiSent(ms) = h
<1> DEFINE asks == {i \in DOMAIN h : h[i].from = "user"}
           last == CHOOSE i \in asks : \A j \in asks : j <= i
<1>1. Len(h) \in Nat /\ DOMAIN h = 1..Len(h)
  OBVIOUS
<1>2. Len(h) \in asks /\ \A j \in asks : j <= Len(h)
  BY <1>1
<1>3. last = Len(h)
  <2>1. asks \subseteq Nat
    BY <1>1
  <2>2. last \in asks /\ \A j \in asks : j <= last
    <3> HIDE DEF asks
    <3> QED BY <1>2
  <2> HIDE DEF asks, last
  <2> QED BY <1>2, <2>1, <2>2
<1>4. GeminiSent(ms) = SubSeq(h, 1, last - 1) \o SubSeq(h, last + 1, Len(h)) \o <<h[last]>>
  BY <1>2 DEF GeminiSent
<1> HIDE DEF last
<1>5. SubSeq(h, 1, Len(h) - 1) \o SubSeq(h, Len(h) + 1, Len(h)) \o <<h[Len(h)]>> = h
  <2>1. SubSeq(h, 1, Len(h) - 1) \in Seq(Message) /\ SubSeq(h, Len(h) + 1, Len(h)) = <<>>
    OBVIOUS
  <2>2. SubSeq(h, 1, Len(h) - 1) \o <<h[Len(h)]>> = h
    OBVIOUS
  <2>3. \A s \in Seq(Message) : s \o <<>> = s
    OBVIOUS
  <2> QED BY <2>1, <2>2, <2>3
<1> QED BY <1>3, <1>4, <1>5

-----------------------------------------------------------------------------
(* Initial states and the ends of processTask *)

\* A new task has no history and all its retries.
LEMMA InitIInv == Init => IInv
<1> SUFFICES ASSUME Init PROVE IInv
  OBVIOUS
<1> USE LimitsAssumption, BoundsAssumption DEF Init
<1>1. NewRow \in Row
  BY DEF NewRow, Row, Status
<1>2. mem \in Seq(Message) /\ 0 \in 0..Scans /\ 0 \in 0..MaxChats
  OBVIOUS
<1>3. TaskTypeOK
  BY <1>1, <1>2 DEF TaskTypeOK, Round
<1>4. Budget /\ ChatBound
  BY DEF Budget, ChatBound, HasBudget, NewRow, InCall
<1>5. Bounded /\ Told
  BY DEF Bounded, Told, NewRow, InCall
<1>6. RunInv /\ Called
  BY DEF RunInv, Called, ExecInit, ExecTypeOK, ContainersAreRemoved, Step, Box, Result
<1> QED BY <1>3, <1>4, <1>5, <1>6 DEF IInv, TaskInv

\* processTask returns with a row that has a retry left, if it is to be fetched again,
\* and then with a history that ends with what was said last.
LEMMA Returns ==
  ASSUME TaskInv, NEW status \in Status, NEW h \in Seq(Message), NEW r \in Nat,
         Return(status, h, r),
         words' \in Nat, sub' \in BOOLEAN, scans' \in 0..Scans, cancelled' \in BOOLEAN,
         status \in {"pending", "waiting_subtask"} => r < MaxRetry,
         chats = 0 =>
           /\ status = "pending" => Begun(h) /\ Newest(h, words')
           /\ status = "waiting_subtask" => Begun(h)
  PROVE  TaskInv'
<1> USE DEF TaskInv
<1>1. row' = [status |-> status, history |-> h, retry |-> r]
  BY DEF Return
<1>2. row' \in Row
  BY <1>1 DEF Row
<1>3. chats' = chats /\ at' = "idle"
  BY DEF Return
<1>4. /\ chat' \in {"none", "open", "stale"}
      /\ held' = held \/ held' = row'
  BY DEF Return, TaskTypeOK
<1>5. mem' = <<>> /\ retry' = 0 /\ round' = "first"
  BY DEF Return
<1>6. TaskTypeOK'
  BY <1>2, <1>3, <1>4, <1>5 DEF TaskTypeOK, Round
<1>7. HasBudget(row)' /\ HasBudget(held)'
  BY <1>1, <1>4 DEF Budget, HasBudget
<1>8. Budget' /\ Bounded'
  BY <1>3, <1>7 DEF Budget, Bounded, InCall
<1>10. ChatBound'
  BY DEF Return, ChatBound
<1>9. Told'
  BY <1>1, <1>3 DEF Told, InCall
<1> QED BY <1>6, <1>8, <1>9, <1>10

\* A failure while the role still has retries is told to it.
LEMMA Failures ==
  ASSUME TaskInv, NEW h \in Seq(Message), HandleFailure(h), at \in InCall,
         UNCHANGED <<sub, scans, cancelled>>,
         chats = 0 => Begun(h)
  PROVE  TaskInv'
<1> USE LimitsAssumption DEF TaskInv
<1>1. retry \in Nat /\ words \in Nat /\ sub \in BOOLEAN /\ scans \in 0..Scans /\ cancelled \in BOOLEAN
  BY DEF TaskTypeOK
<1>2. /\ Tell(h) \in Seq(Message) /\ Newest(Tell(h), words + 1)
      /\ Begun(h) => Begun(Tell(h))
  BY TellIs
<1>3. "escalated" \in Status /\ "pending" \in Status
  BY DEF Status
<1>4. CASE retry + 1 >= MaxRetry
  <2>1. Return("escalated", h, retry + 1) /\ words' = words
    BY <1>4 DEF HandleFailure
  <2> QED BY <1>1, <1>3, <2>1, Returns
<1>5. CASE ~(retry + 1 >= MaxRetry)
  <2>1. Return("pending", Tell(h), retry + 1) /\ words' = words + 1
    BY <1>5 DEF HandleFailure
  <2>2. retry + 1 < MaxRetry /\ retry + 1 \in Nat /\ words' \in Nat
    BY <1>1, <1>5, <2>1
  <2> QED BY <1>1, <1>2, <1>3, <2>1, <2>2, Returns
<1> QED BY <1>4, <1>5

\* processTask goes on after the role's answer: the answer may be a message more.
LEMMA GoesOn ==
  ASSUME TaskInv, at \in InCall \ {"claimed", "stating"},
         at' \in InCall \ {"claimed", "stating", "asking"},
         UNCHANGED <<sub, round, retry, words, cancelled, chatVars>>,
         row' = row \/ (row' \in Row /\ row'.status \notin {"pending", "waiting_subtask"}),
         scans' \in 0..Scans,
         mem' = mem \/ (at = "asking" /\ mem' = Append(mem, Work))
  PROVE  TaskInv'
<1> USE DEF TaskInv
<1>1. mem \in Seq(Message) /\ Len(mem) \in Nat
  BY LenProperties DEF TaskTypeOK
<1>2. /\ mem' \in Seq(Message)
      /\ Begun(mem) => Begun(mem')
      /\ Len(mem') = Len(mem) \/ (at = "asking" /\ Len(mem') = Len(mem) + 1)
  <2>1. Work \in Message
    BY MessagesAre
  <2>2. /\ Append(mem, Work) \in Seq(Message) /\ Len(Append(mem, Work)) = Len(mem) + 1
        /\ Begun(mem) => Begun(Append(mem, Work))
    BY <1>1, <2>1, AppendIs
  <2>3. CASE mem' = mem
    BY <1>1, <2>3 DEF Begun
  <2>4. CASE at = "asking" /\ mem' = Append(mem, Work)
    BY <2>2, <2>4 DEF Begun
  <2> QED BY <2>3, <2>4
<1>3. retry \in Nat /\ chats \in Nat /\ row' \in Row
  BY DEF TaskTypeOK, chatVars
<1>4. TaskTypeOK'
  BY <1>2, <1>3 DEF TaskTypeOK, chatVars
<1>5. Budget' /\ ChatBound'
  BY DEF Budget, ChatBound, HasBudget, chatVars
<1>6. Bounded'
  BY <1>1, <1>2, <1>3, LimitsAssumption DEF Bounded, Allowed, chatVars
<1>7. Told'
  BY <1>2 DEF Told, chatVars
<1> QED BY <1>4, <1>5, <1>6, <1>7

\* The other reviews than the PM's: the retry that is counted allows for the message.
LEMMA Requests ==
  ASSUME TaskInv, NEW by \in Round, RequestChanges(by), at \in {"reviewing", "auditing"},
         UNCHANGED <<sub, scans, cancelled>>
  PROVE  TaskInv'
<1> USE LimitsAssumption DEF TaskInv
<1>1. /\ retry \in Nat /\ words \in Nat /\ sub \in BOOLEAN /\ scans \in 0..Scans
      /\ cancelled \in BOOLEAN /\ mem \in Seq(Message) /\ chats \in Nat
  BY DEF TaskTypeOK
<1>2. CASE retry + 1 >= MaxRetry
  <2>1. Return("escalated", mem, retry + 1) /\ words' = words
    BY <1>2 DEF RequestChanges
  <2>2. "escalated" \in Status /\ retry + 1 \in Nat
    BY <1>1 DEF Status
  <2> QED BY <1>1, <2>1, <2>2, Returns
<1>3. CASE ~(retry + 1 >= MaxRetry)
  <2>1. /\ mem' = Tell(mem) /\ words' = words + 1 /\ retry' = retry + 1
        /\ row' = Object(mem', retry') /\ at' = "asking" /\ round' = by
        /\ UNCHANGED chatVars
    BY <1>3 DEF RequestChanges
  <2>2. /\ mem' \in Seq(Message) /\ Len(mem') = Len(mem) + 1 /\ Newest(mem', words')
        /\ Begun(mem) => Begun(mem')
    BY <1>1, <2>1, TellIs
  <2>3. retry' \in Nat /\ words' \in Nat /\ retry' < MaxRetry
    BY <1>1, <1>3, <2>1
  <2>4. row' \in Row /\ row'.status = "in_progress"
    BY <2>1, <2>2, <2>3 DEF Object, Row, Status
  <2>5. TaskTypeOK'
    BY <1>1, <2>1, <2>2, <2>3, <2>4 DEF TaskTypeOK, chatVars, InCall
  <2>6. Budget' /\ ChatBound'
    BY <2>1, <2>3, <2>4 DEF Budget, ChatBound, HasBudget, chatVars
  <2>7. Len(mem) \in Nat /\ (chats = 0 => Len(mem) <= Allowed + 1)
    BY <1>1, LenProperties DEF Bounded, InCall
  <2>8. Bounded'
    BY <1>1, <2>1, <2>2, <2>7 DEF Bounded, Allowed, chatVars
  <2>9. Told'
    BY <2>1, <2>2, <2>4 DEF Told, chatVars, InCall
  <2> QED BY <2>5, <2>6, <2>8, <2>9
<1> QED BY <1>2, <1>3

-----------------------------------------------------------------------------
(* The steps of processTask *)

\* Fetched: the object has the history of the row.
LEMMA ClaimTaskInv == TaskInv /\ Claim => TaskInv'
<1> SUFFICES ASSUME TaskInv, Claim PROVE TaskInv'
  OBVIOUS
<1> USE LimitsAssumption DEF TaskInv, Claim
<1>1. /\ row.history \in Seq(Message) /\ row.retry \in Nat /\ row.status \in Status
      /\ words \in Nat /\ chats \in Nat
  BY DEF TaskTypeOK, Row
<1>2. row' \in Row /\ row'.status = "in_progress"
  BY DEF TaskTypeOK, Row, Status
<1>3. TaskTypeOK'
  BY <1>1, <1>2 DEF TaskTypeOK, chatVars, InCall
<1>4. Budget' /\ ChatBound'
  BY <1>2 DEF Budget, ChatBound, HasBudget, chatVars
<1>5. Bounded'
  BY DEF Bounded, chatVars
<1>6. Told'
  BY <1>2 DEF Told, chatVars, InCall
<1> QED BY <1>3, <1>4, <1>5, <1>6

\* The trimmed history still begins with the task and ends with the news.
LEMMA TrimTaskInv == TaskInv /\ TrimContext => TaskInv'
<1> SUFFICES ASSUME TaskInv, TrimContext PROVE TaskInv'
  OBVIOUS
<1> USE LimitsAssumption DEF TaskInv, TrimContext
<1>1. mem \in Seq(Message) /\ retry \in Nat /\ words \in Nat /\ chats \in Nat /\ Len(mem) \in Nat
  BY LenProperties DEF TaskTypeOK
<1>2. /\ mem' \in Seq(Message) /\ Len(mem') <= MaxHistory /\ Len(mem') \in Nat
      /\ mem = <<>> => mem' = <<>>
      /\ Len(mem) > 0 =>
           /\ Len(mem') > 0 /\ mem'[1] = mem[1]
           /\ mem'[Len(mem')] \in {mem[Len(mem)], mem[1]}
           /\ MaxHistory > 1 => mem'[Len(mem')] = mem[Len(mem)]
  BY <1>1, TrimIs, LenProperties
<1>3. TaskTypeOK'
  BY <1>1, <1>2 DEF TaskTypeOK, chatVars, InCall
<1>4. Budget' /\ ChatBound'
  BY DEF Budget, ChatBound, HasBudget, chatVars, InCall
<1>5. Bounded'
  BY <1>1, <1>2 DEF Bounded, Allowed, chatVars
<1>6. Told'
  <2>1. Statement.from = "user"
    BY DEF Statement
  <2> QED BY <1>2, <2>1 DEF Told, Begun, Newest, chatVars
<1> QED BY <1>3, <1>4, <1>5, <1>6

\* An empty history is given its first message.
LEMMA InjectContextTaskInv == TaskInv /\ InjectContext => TaskInv'
<1> SUFFICES ASSUME TaskInv, InjectContext PROVE TaskInv'
  OBVIOUS
<1> USE LimitsAssumption DEF TaskInv, InjectContext
<1>1. mem \in Seq(Message) /\ retry \in Nat /\ words \in Nat /\ chats \in Nat /\ row \in Row
  BY DEF TaskTypeOK
<1>2. CASE mem = <<>>
  <2>1. mem' = <<Statement>> /\ row' = Object(mem', retry)
    BY <1>2
  <2>2. mem' \in Seq(Message) /\ Len(mem') = 1 /\ mem'[1] = Statement
    BY <2>1, MessagesAre
  <2>3. row' \in Row /\ row'.status = "in_progress"
    BY <1>1, <2>1, <2>2 DEF Object, Row, Status
  <2>4. TaskTypeOK'
    BY <1>1, <2>2, <2>3 DEF TaskTypeOK, chatVars, InCall, Round
  <2>5. Budget' /\ ChatBound'
    BY <2>3 DEF Budget, ChatBound, HasBudget, chatVars, InCall
  <2>6. Bounded'
    BY <1>1, <2>2 DEF Bounded, Allowed, chatVars
  <2>7. Told'
    <3>1. chats = 0 => words = 0
      BY <1>2 DEF Told, Begun
    <3>2. Begun(mem)' /\ mem'[Len(mem')].from = "user"
      BY <2>2 DEF Begun, Statement
    <3> QED BY <2>3, <3>1, <3>2 DEF Told, Newest, chatVars
  <2> QED BY <2>4, <2>5, <2>6, <2>7
<1>3. CASE mem # <<>>
  <2>1. UNCHANGED <<mem, row>>
    BY <1>3
  <2>2. TaskTypeOK' /\ Budget' /\ ChatBound'
    BY <2>1 DEF TaskTypeOK, Budget, ChatBound, HasBudget, chatVars, InCall, Round
  <2>3. Bounded'
    BY <2>1 DEF Bounded, Allowed, chatVars, InCall
  <2>4. Told'
    BY <1>3, <2>1 DEF Told, chatVars
  <2> QED BY <2>2, <2>3, <2>4
<1> QED BY <1>2, <1>3

\* The steps of processTask leave a history that begins with the task and ends with the
\* news to the role that is asked, and to the row that is to be fetched again.
LEMMA TaskStepTaskInv ==
  ASSUME TaskInv, Called,
         \/ RoleFails \/ WriteFilesFails \/ SpawnSubTask \/ SubTaskDone
         \/ RunOutput \/ OutputNeedsNoRun \/ RunPasses \/ RunFails
         \/ CodeReviewPasses \/ CodeReviewWantsChanges
         \/ BeginScan \/ ScanEnds \/ Audit \/ SecurityReviewPasses \/ SecurityReviewWantsChanges
         \/ SubmitForReview \/ Approve \/ Reject
  PROVE  TaskInv'
<1> USE LimitsAssumption, BoundsAssumption DEF TaskInv
<1>1. /\ mem \in Seq(Message) /\ retry \in Nat /\ words \in Nat /\ scans \in 0..Scans
      /\ row \in Row /\ sub \in BOOLEAN /\ cancelled \in BOOLEAN /\ chats \in Nat
      /\ row.status \in Status /\ row.history \in Seq(Message) /\ row.retry \in Nat
  BY DEF TaskTypeOK, Row
<1>2. /\ Append(mem, Work) \in Seq(Message)
      /\ Begun(mem) => Begun(Append(mem, Work))
  <2>1. Work \in Message
    BY MessagesAre
  <2> QED BY <1>1, <2>1, AppendIs
<1>3. /\ Tell(mem) \in Seq(Message) /\ Newest(Tell(mem), words + 1)
      /\ Begun(mem) => Begun(Tell(mem))
      /\ words + 1 \in Nat
  BY <1>1, TellIs
<1>4. at \in InCall \ {"claimed", "stating"} /\ chats = 0 => Begun(mem)
  BY DEF Told
<1>5. /\ \A to : GoOn(to) => scans' \in 0..Scans
      /\ AfterOutput \in InCall \ {"claimed", "stating", "asking"}
  <2>1. 0 \in 0..Scans /\ Scans \in 0..Scans
    OBVIOUS
  <2> QED BY <2>1 DEF GoOn, AfterOutput, InCall
<1>6. {"code", "security"} \subseteq Round /\ {"waiting_subtask", "done", "pending"} \subseteq Status
  BY DEF Round, Status
<1>7. CASE RoleFails
  <2>1. at \in InCall \ {"claimed", "stating"}
    BY <1>7 DEF RoleFails, InCall
  <2>2. HandleFailure(mem) /\ UNCHANGED <<sub, scans, cancelled>>
    BY <1>7 DEF RoleFails
  <2> QED BY <1>1, <1>4, <2>1, <2>2, Failures
<1>8. CASE WriteFilesFails
  <2>1. at \in InCall \ {"claimed", "stating"}
    BY <1>8 DEF WriteFilesFails, InCall
  <2>2. HandleFailure(Append(mem, Work)) /\ UNCHANGED <<sub, scans, cancelled>>
    BY <1>8 DEF WriteFilesFails
  <2> QED BY <1>2, <1>4, <2>1, <2>2, Failures
<1>9. CASE RunFails
  <2>1. at \in InCall \ {"claimed", "stating"}
    BY <1>9 DEF RunFails, InCall
  <2>2. HandleFailure(mem) /\ UNCHANGED <<sub, scans, cancelled>>
    BY <1>9 DEF RunFails
  <2> QED BY <1>1, <1>4, <2>1, <2>2, Failures
<1>10. CASE SpawnSubTask
  <2>1. /\ at \in InCall \ {"claimed", "stating"} /\ sub' = TRUE
        /\ Return("waiting_subtask", Append(mem, Work), retry)
        /\ UNCHANGED <<words, scans, cancelled>>
    BY <1>10 DEF SpawnSubTask, InCall
  <2>2. retry < MaxRetry
    BY <2>1 DEF Budget
  <2> QED BY <1>1, <1>2, <1>4, <1>6, <2>1, <2>2, Returns
<1>11. CASE Approve
  <2>1. /\ Return("done", mem, retry) /\ UNCHANGED <<sub, words, scans, cancelled>>
    BY <1>11 DEF Approve
  <2> QED BY <1>1, <1>6, <2>1, Returns
<1>12. CASE Reject
  <2>1. /\ at \in InCall \ {"claimed", "stating"} /\ words' = words + 1
        /\ Return("pending", Tell(mem), 0) /\ UNCHANGED <<sub, scans, cancelled>>
    BY <1>12 DEF Reject, InCall
  <2>2. 0 < MaxRetry /\ 0 \in Nat
    OBVIOUS
  <2> QED BY <1>1, <1>3, <1>4, <1>6, <2>1, <2>2, Returns
<1>13. CASE CodeReviewWantsChanges
  BY <1>6, <1>13, Requests DEF CodeReviewWantsChanges
<1>14. CASE SecurityReviewWantsChanges
  BY <1>6, <1>14, Requests DEF SecurityReviewWantsChanges
<1>15. CASE RunOutput
  BY <1>1, <1>15, GoesOn DEF RunOutput, InCall
<1>16. CASE OutputNeedsNoRun
  BY <1>5, <1>16, GoesOn DEF OutputNeedsNoRun, GoOn, InCall
<1>17. CASE RunPasses
  BY <1>5, <1>17, GoesOn DEF RunPasses, GoOn, InCall
<1>18. CASE CodeReviewPasses
  BY <1>5, <1>18, GoesOn DEF CodeReviewPasses, GoOn, InCall
<1>19. CASE SecurityReviewPasses
  BY <1>5, <1>19, GoesOn DEF SecurityReviewPasses, GoOn, InCall
<1>20. CASE BeginScan
  <2>1. /\ UNCHANGED <<row, sub, at, round, mem, retry, words, scans, cancelled, chatVars>>
        /\ at = "scanning"
    BY <1>20 DEF BeginScan, taskVars
  <2> QED BY <1>1, <2>1, GoesOn DEF InCall
<1>21. CASE ScanEnds
  <2>1. scans - 1 \in 0..Scans
    BY <1>1, <1>21 DEF ScanEnds, TakeResult, Called
  <2> QED BY <1>21, <2>1, GoesOn DEF ScanEnds, InCall
<1>22. CASE Audit
  BY <1>1, <1>22, GoesOn DEF Audit, InCall
<1>23. CASE SubmitForReview
  <2>1. row' \in Row /\ row'.status = "pending_review"
    BY <1>1, <1>23 DEF SubmitForReview, Object, Row, Status
  <2> QED BY <1>1, <1>23, <2>1, GoesOn DEF SubmitForReview, InCall
<1>24. CASE SubTaskDone
  <2>1. CASE row.status = "waiting_subtask"
    <3> DEFINE told == Tell(row.history)
    <3>1. row' = [row EXCEPT !.status = "pending", !.history = told] /\ words' = words + 1
      BY <1>24, <2>1 DEF SubTaskDone
    <3>2. /\ told \in Seq(Message) /\ Newest(told, words + 1)
          /\ Begun(row.history) => Begun(told)
      BY <1>1, TellIs
    <3> HIDE DEF told
    <3>3. row' \in Row /\ row'.status = "pending" /\ row'.history = told /\ row'.retry = row.retry
      BY <1>1, <1>6, <3>1, <3>2 DEF Row
    <3>4. TaskTypeOK'
      <4>1. /\ words' \in Nat /\ sub' = FALSE
            /\ UNCHANGED <<at, round, mem, retry, scans, cancelled, chat, held, chats>>
        BY <1>3, <1>24, <3>1 DEF SubTaskDone, chatVars
      <4> QED BY <3>3, <4>1 DEF TaskTypeOK
    <3>5. Budget' /\ ChatBound'
      BY <1>24, <2>1, <3>3 DEF SubTaskDone, Budget, ChatBound, HasBudget, chatVars, InCall
    <3>6. Bounded'
      BY <1>24 DEF SubTaskDone, Bounded, chatVars, InCall
    <3>7. Told'
      BY <1>24, <2>1, <3>1, <3>2, <3>3 DEF SubTaskDone, Told, chatVars, InCall
    <3> QED BY <3>4, <3>5, <3>6, <3>7
  <2>2. CASE row.status # "waiting_subtask"
    <3>1. /\ UNCHANGED <<row, at, round, mem, retry, words, scans, cancelled, chatVars>>
          /\ sub' = FALSE
      BY <1>24, <2>2 DEF SubTaskDone
    <3>2. TaskTypeOK' /\ Budget' /\ ChatBound'
      BY <3>1 DEF TaskTypeOK, Budget, ChatBound, HasBudget, chatVars
    <3>3. Bounded' /\ Told'
      BY <3>1 DEF Bounded, Allowed, Told, chatVars
    <3> QED BY <3>2, <3>3
  <2> QED BY <2>1, <2>2
<1> QED BY <1>7, <1>8, <1>9, <1>10, <1>11, <1>12, <1>13, <1>14, <1>15, <1>16, <1>17, <1>18,
           <1>19, <1>20, <1>21, <1>22, <1>23, <1>24

-----------------------------------------------------------------------------
(* Chats, cancellation, the process *)

\* A chat may leave any history behind, of a call or of a row; that it did is counted.
LEMMA ChatStepTaskInv ==
  ASSUME TaskInv, OpenChat \/ Inject \/ InjectStale \/ DropChat
  PROVE  TaskInv'
<1> USE LimitsAssumption, BoundsAssumption DEF TaskInv
<1>1. /\ mem \in Seq(Message) /\ retry \in Nat /\ words \in Nat /\ scans \in 0..Scans
      /\ row \in Row /\ held \in Row /\ chats \in 0..MaxChats /\ Len(mem) \in Nat
      /\ held.history \in Seq(Message)
  BY LenProperties DEF TaskTypeOK, Row
<1>2. NewRow \in Row /\ HasBudget(NewRow)
  <2>1. <<>> \in Seq(Message)
    OBVIOUS
  <2> QED BY <2>1 DEF NewRow, Row, Status, HasBudget
<1>3. CASE OpenChat
  <2>1. TaskTypeOK' /\ Budget' /\ ChatBound'
    BY <1>3 DEF OpenChat, TaskTypeOK, Budget, ChatBound, HasBudget, taskVars
  <2>2. Bounded' /\ Told'
    BY <1>3 DEF OpenChat, Bounded, Allowed, Told, taskVars
  <2> QED BY <2>1, <2>2
<1>4. CASE DropChat
  <2>1. TaskTypeOK' /\ Budget' /\ ChatBound'
    BY <1>2, <1>4 DEF DropChat, TaskTypeOK, Budget, ChatBound, HasBudget, taskVars
  <2>2. Bounded' /\ Told'
    BY <1>4 DEF DropChat, Bounded, Allowed, Told, taskVars
  <2> QED BY <2>1, <2>2
<1>5. CASE Inject
  <2>1. mem' \in Seq(Message)
    <3>1. mem' \in Appended(mem) \/ mem' = row.history \o Exchange
      BY <1>5 DEF Inject
    <3>2. row.history \in Seq(Message) /\ row.history \o Exchange \in Appended(row.history)
      BY <1>1 DEF Row, Appended
    <3> QED BY <1>1, <3>1, <3>2, InjectIs
  <2>2. /\ row' = Object(mem', retry) /\ chat' = "none" /\ chats' = chats + 1
        /\ UNCHANGED <<sub, at, round, retry, words, scans, cancelled, held>>
    BY <1>5 DEF Inject
  <2>3. row' \in Row /\ row'.status \notin {"pending", "waiting_subtask"}
    BY <1>1, <2>1, <2>2 DEF Object, Row, Status
  <2>4. chats' \in 1..MaxChats
    BY <1>1, <1>5, <2>2 DEF Inject, ChatBound
  <2>5. TaskTypeOK'
    BY <2>1, <2>2, <2>3, <2>4 DEF TaskTypeOK
  <2>6. Budget' /\ ChatBound'
    BY <2>2, <2>3 DEF Budget, ChatBound, HasBudget
  <2>7. Bounded'
    BY <2>4 DEF Bounded
  <2>8. Told'
    BY <2>4 DEF Told
  <2> QED BY <2>5, <2>6, <2>7, <2>8
<1>6. CASE InjectStale
  <2>1. held.history \o Exchange \in Seq(Message)
    <3>1. held.history \o Exchange \in Appended(held.history)
      BY DEF Appended
    <3> QED BY <1>1, <3>1, InjectIs
  <2>2. /\ row' = [held EXCEPT !.history = held.history \o Exchange]
        /\ chat' = "none" /\ chats' = chats + 1 /\ held' = NewRow
        /\ UNCHANGED <<sub, at, round, mem, retry, words, scans, cancelled>>
    BY <1>6 DEF InjectStale
  <2>3. row' \in Row /\ HasBudget(row)'
    BY <1>1, <2>1, <2>2 DEF Row, HasBudget, Budget
  <2>4. chats' \in 1..MaxChats
    BY <1>1, <1>6, <2>2 DEF InjectStale, ChatBound
  <2>5. TaskTypeOK'
    BY <1>2, <2>2, <2>3, <2>4 DEF TaskTypeOK
  <2>6. Budget' /\ ChatBound'
    <3>1. HasBudget(held)'
      BY <1>2, <2>2 DEF HasBudget
    <3> QED BY <2>2, <2>3, <3>1 DEF Budget, ChatBound
  <2>7. Bounded'
    BY <2>4 DEF Bounded
  <2>8. Told'
    BY <2>4 DEF Told
  <2> QED BY <2>5, <2>6, <2>7, <2>8
<1> QED BY <1>3, <1>4, <1>5, <1>6

\* A process that ends takes its calls with it; the rows stay.
LEMMA OtherStepTaskInv ==
  ASSUME TaskInv,
         Cancel \/ Restart \/ UNCHANGED <<taskVars, cancelled, chatVars>>
  PROVE  TaskInv'
<1> USE LimitsAssumption, BoundsAssumption DEF TaskInv
<1>1. CASE Cancel \/ UNCHANGED <<taskVars, cancelled, chatVars>>
  <2>1. UNCHANGED <<taskVars, chatVars>> /\ (cancelled \in BOOLEAN => cancelled' \in BOOLEAN)
    BY <1>1 DEF Cancel
  <2>2. TaskTypeOK' /\ Budget' /\ ChatBound'
    BY <2>1 DEF TaskTypeOK, Budget, ChatBound, HasBudget, taskVars, chatVars
  <2>3. Bounded' /\ Told'
    BY <2>1 DEF Bounded, Allowed, Told, taskVars, chatVars
  <2> QED BY <2>2, <2>3
<1>2. CASE Restart
  <2>1. NewRow \in Row /\ HasBudget(NewRow)
    <3>1. <<>> \in Seq(Message)
      OBVIOUS
    <3> QED BY <3>1 DEF NewRow, Row, Status, HasBudget
  <2>2. 0 \in 0..Scans /\ mem' \in Seq(Message)
    BY <1>2 DEF Restart
  <2>3. TaskTypeOK' /\ Budget' /\ ChatBound'
    BY <1>2, <2>1, <2>2 DEF Restart, TaskTypeOK, Budget, ChatBound, HasBudget, InCall, Round
  <2>4. Bounded' /\ Told'
    BY <1>2 DEF Restart, Bounded, Told, InCall
  <2> QED BY <2>3, <2>4
<1> QED BY <1>1, <1>2

-----------------------------------------------------------------------------
(* The containers *)

\* Whichever step of a Run fails, its container is removed, or the removal was refused or
\* came after the end of its context, or the create was not answered.
LEMMA ExecStepRunInv ==
  ASSUME RunInv, ExecStep
  PROVE  RunInv'
<1> USE DEF RunInv, ExecTypeOK
<1> DEFINE Excused(relics) ==
             \A relic \in relics : relic.over \/ relic.daemon # "fine" \/ relic.killed
<1>1. ASSUME step' \in Step, box' \in Box, result' \in Result,
             over' = over \/ over' = TRUE,
             left' \subseteq Relic, Excused(left')
      PROVE  RunInv'
  BY <1>1 DEF ContainersAreRemoved
<1>2. left \subseteq Relic /\ Excused(left)
  BY DEF ContainersAreRemoved
<1>3. ASSUME NEW container, NEW daemon \in {"fine", "refused", "unanswered"},
             Leaves(container, daemon),
             over \/ daemon # "fine" \/ container = "none"
      PROVE  /\ step' \in Step /\ box' \in Box
             /\ left' \subseteq Relic /\ Excused(left')
  <2>1. step' \in Step /\ box' \in Box
    BY <1>3 DEF Leaves, Step, Box
  <2>2. CASE container = "none"
    <3>1. left' = {}
      BY <1>3, <2>2 DEF Leaves, Remains
    <3> QED BY <2>1, <3>1
  <2>3. CASE container # "none"
    <3> DEFINE new == [over |-> over, daemon |-> daemon, killed |-> FALSE]
    <3>1. left' = {new}
      BY <1>3, <2>3 DEF Leaves, Remains
    <3>2. new \in Relic /\ (new.over \/ new.daemon # "fine")
      BY <1>3, <2>3 DEF Relic
    <3> HIDE DEF new
    <3> QED BY <2>1, <3>1, <3>2
  <2> QED BY <2>2, <2>3
<1> HIDE DEF Excused
<1>4. CASE Creates \/ Starts \/ Exits \/ WaitReturns \/ Expires
  <2>1. /\ step' \in Step /\ box' \in Box /\ result' \in Result
        /\ left' = left /\ (over' = over \/ over' = TRUE)
    BY <1>4 DEF Creates, Starts, Exits, WaitReturns, Expires, Step, Box, Exited
  <2> QED BY <1>1, <1>2, <2>1
<1>5. CASE StartFails \/ WaitFails \/ LogsEnd \/ LogsFail
  <2>1. /\ step' \in Step /\ box' \in Box /\ result' \in Result
        /\ left' = left /\ over' = over
    BY <1>5 DEF StartFails, WaitFails, LogsEnd, LogsFail, Step, Box, Exited, Result
  <2> QED BY <1>1, <1>2, <2>1
<1>6. CASE CreateFails
  <2>1. PICK container \in {"none", "created"} : Leaves(container, "unanswered")
    BY <1>6 DEF CreateFails
  <2>2. /\ step' \in Step /\ box' \in Box
        /\ left' \subseteq Relic /\ Excused(left')
    BY <1>3, <2>1
  <2>3. result' \in Result /\ over' = over
    BY <1>6 DEF CreateFails, Result
  <2> QED BY <1>1, <2>2, <2>3
<1>7. CASE Removes
  <2>1. Leaves("none", "fine") /\ over' = over /\ result' = result
    BY <1>7 DEF Removes
  <2>2. /\ step' \in Step /\ box' \in Box
        /\ left' \subseteq Relic /\ Excused(left')
    BY <1>3, <2>1
  <2> QED BY <1>1, <2>1, <2>2
<1>8. CASE RemoveFails
  <2>1. /\ over' = over /\ result' = result
        /\ \/ over /\ Leaves(box, "fine")
           \/ ~over /\ Leaves(box, "refused")
    BY <1>8 DEF RemoveFails
  <2>2. /\ step' \in Step /\ box' \in Box
        /\ left' \subseteq Relic /\ Excused(left')
    BY <1>3, <2>1
  <2> QED BY <1>1, <2>1, <2>2
<1> QED BY <1>4, <1>5, <1>6, <1>7, <1>8 DEF ExecStep

\* A kill leaves what there is.
LEMMA KilledRunInv ==
  ASSUME RunInv, KilledRun
  PROVE  RunInv'
<1> USE DEF RunInv, ExecTypeOK
<1>1. step' \in Step /\ box' \in Box /\ result' \in Result /\ over' \in BOOLEAN
  BY DEF KilledRun, Step, Box, Result
<1>2. CASE step = "idle"
  BY <1>1, <1>2 DEF KilledRun, ContainersAreRemoved
<1>3. CASE step # "idle"
  <2>1. PICK container \in Box : left' = Remains(container, "fine", TRUE)
    BY <1>3 DEF KilledRun, Box
  <2>2. CASE container = "none"
    BY <1>1, <2>1, <2>2 DEF Remains, ContainersAreRemoved
  <2>3. CASE container # "none"
    <3> DEFINE new == [over |-> over, daemon |-> "fine", killed |-> TRUE]
    <3>1. left' = {new}
      BY <2>1, <2>3 DEF Remains
    <3>2. new \in Relic /\ new.killed
      BY DEF Relic
    <3> HIDE DEF new
    <3> QED BY <1>1, <3>1, <3>2 DEF ContainersAreRemoved
  <2> QED BY <2>2, <2>3
<1> QED BY <1>2, <1>3

\* No other step touches a container, or what is left of one.
LEMMA NextRunInv ==
  ASSUME IInv, [Next]_vars
  PROVE  RunInv'
<1> USE DEF IInv, RunInv, ExecTypeOK
<1>1. cancelled \in BOOLEAN
  BY DEF TaskInv, TaskTypeOK
<1>2. ASSUME step' \in Step, box' \in Box, result' \in Result, over' \in BOOLEAN,
             left' = left \/ left' = {}
      PROVE  RunInv'
  BY <1>2 DEF ContainersAreRemoved
<1>3. CASE ExecStep
  BY <1>3, ExecStepRunInv
<1>4. CASE RunOutput \/ BeginScan
  <2>1. BeginRun(cancelled)
    BY <1>4 DEF RunOutput, BeginScan
  <2>2. /\ step' \in Step /\ box' \in Box /\ result' \in Result /\ left' = {}
        /\ over' = cancelled
    BY <2>1 DEF BeginRun, Step
  <2> QED BY <1>1, <1>2, <2>2
<1>5. CASE RunPasses \/ RunFails \/ ScanEnds
  <2>1. TakeResult
    BY <1>5 DEF RunPasses, RunFails, ScanEnds
  <2>2. /\ step' \in Step /\ box' \in Box /\ result' \in Result /\ left' = left
        /\ over' = FALSE
    BY <2>1 DEF TakeResult, Result
  <2> QED BY <1>2, <2>2
<1>6. CASE Cancel
  <2>1. /\ step' \in Step /\ box' \in Box /\ result' \in Result /\ left' = left
        /\ over' = (over \/ step # "idle")
    BY <1>6 DEF Cancel
  <2> QED BY <1>2, <2>1
<1>7. CASE Restart
  BY <1>7, KilledRunInv DEF Restart
<1>8. CASE UNCHANGED execVars
  BY <1>8 DEF execVars, ContainersAreRemoved
<1>9. ASSUME ~ExecStep, ~(RunOutput \/ BeginScan), ~(RunPasses \/ RunFails \/ ScanEnds),
             ~Cancel, ~Restart
      PROVE  UNCHANGED execVars
  BY <1>9 DEF Next, vars, Claim, TrimContext, InjectContext, RoleFails, WriteFilesFails, SpawnSubTask,
     SubTaskDone, OutputNeedsNoRun, CodeReviewPasses, CodeReviewWantsChanges, Audit,
     SecurityReviewPasses, SecurityReviewWantsChanges, SubmitForReview, Approve, Reject,
     OpenChat, Inject, InjectStale, DropChat
<1> QED BY <1>3, <1>4, <1>5, <1>6, <1>7, <1>8, <1>9

\* A Run has a caller until its result is taken.
LEMMA NextCalled ==
  ASSUME IInv, [Next]_vars
  PROVE  Called'
<1> USE DEF IInv, Called
<1>1. CASE ExecStep /\ UNCHANGED <<taskVars, cancelled, chatVars>>
  <2>1. step # "idle" \/ (step' = step /\ result' = result)
    BY <1>1 DEF ExecStep, Creates, CreateFails, Starts, StartFails, Exits, WaitReturns,
       WaitFails, LogsEnd, LogsFail, Removes, RemoveFails, Expires
  <2> QED BY <1>1, <2>1 DEF taskVars
<1>2. CASE RunOutput \/ BeginScan
  <2>1. scans \in Nat
    BY BoundsAssumption DEF TaskInv, TaskTypeOK
  <2> QED BY <1>2, <2>1 DEF RunOutput, BeginScan, taskVars
<1>3. CASE RunPasses \/ RunFails \/ ScanEnds
  BY <1>3 DEF RunPasses, RunFails, ScanEnds, TakeResult
<1>4. CASE Restart
  BY <1>4 DEF Restart, KilledRun
<1>5. ASSUME UNCHANGED <<step, result>>, at \notin {"running", "scanning"}
      PROVE  Called'
  BY <1>5
<1>6. CASE Claim \/ TrimContext \/ InjectContext \/ RoleFails \/ WriteFilesFails \/ SpawnSubTask
           \/ SubTaskDone
  BY <1>5, <1>6 DEF Claim, TrimContext, InjectContext, RoleFails, WriteFilesFails, SpawnSubTask, SubTaskDone,
     execVars
<1>7. CASE OutputNeedsNoRun \/ CodeReviewPasses \/ CodeReviewWantsChanges
           \/ SecurityReviewPasses \/ SecurityReviewWantsChanges \/ SubmitForReview
           \/ Approve \/ Reject
  BY <1>5, <1>7 DEF OutputNeedsNoRun, CodeReviewPasses, CodeReviewWantsChanges,
     SecurityReviewPasses, SecurityReviewWantsChanges, SubmitForReview, Approve, Reject, execVars
<1>8. CASE Audit
  <2>1. step = "idle" /\ result = "none"
    BY <1>8 DEF Audit
  <2> QED BY <1>8, <2>1 DEF Audit, execVars
<1>9. CASE OpenChat \/ Inject \/ InjectStale \/ DropChat \/ Cancel \/ UNCHANGED vars
  BY <1>9 DEF OpenChat, Inject, InjectStale, DropChat, Cancel, vars, taskVars, execVars
<1> QED BY <1>1, <1>2, <1>3, <1>4, <1>6, <1>7, <1>8, <1>9 DEF Next

-----------------------------------------------------------------------------
(* Theorems *)

\* The task's part of the invariant, for every step.
LEMMA NextTaskInv ==
  ASSUME IInv, [Next]_vars
  PROVE  TaskInv'
<1> USE DEF IInv
<1>1. CASE Claim \/ TrimContext \/ InjectContext
  BY <1>1, ClaimTaskInv, TrimTaskInv, InjectContextTaskInv
<1>2. CASE \/ RoleFails \/ WriteFilesFails \/ SpawnSubTask \/ SubTaskDone
           \/ RunOutput \/ OutputNeedsNoRun \/ RunPasses \/ RunFails
           \/ CodeReviewPasses \/ CodeReviewWantsChanges
           \/ BeginScan \/ ScanEnds \/ Audit \/ SecurityReviewPasses \/ SecurityReviewWantsChanges
           \/ SubmitForReview \/ Approve \/ Reject
  BY <1>2, TaskStepTaskInv
<1>3. CASE OpenChat \/ Inject \/ InjectStale \/ DropChat
  BY <1>3, ChatStepTaskInv
<1>4. CASE Cancel \/ Restart \/ (ExecStep /\ UNCHANGED <<taskVars, cancelled, chatVars>>)
           \/ UNCHANGED vars
  BY <1>4, OtherStepTaskInv DEF vars
<1> QED BY <1>1, <1>2, <1>3, <1>4 DEF Next

\* The invariant: budgets, bounds, what the role has been told, and the containers.
THEOREM InductiveInvariant == Spec => []IInv
<1>1. IInv /\ [Next]_vars => IInv'
  BY NextTaskInv, NextRunInv, NextCalled DEF IInv
<1> QED BY <1>1, InitIInv, PTL DEF Spec

\* What a role is sent has a length the configuration bounds, although nothing is trimmed
\* in the review loops: the retries pay for what they add, as long as no chat injects.
THEOREM ContextsAreBounded == Spec => []ContextIsBounded
<1>1. IInv => ContextIsBounded
  <2> SUFFICES ASSUME IInv, at = "asking", chats = 0
               PROVE  Len(mem) <= MaxHistory + 2 * (MaxRetry - 1)
    BY DEF ContextIsBounded
  <2>1. /\ retry \in Nat /\ retry < MaxRetry /\ Len(mem) \in Nat
        /\ Len(mem) <= MaxHistory + 2 * retry
    BY LenProperties DEF IInv, TaskInv, TaskTypeOK, Budget, Bounded, Allowed, InCall
  <2> QED BY <2>1, LimitsAssumption
<1> QED BY <1>1, InductiveInvariant, PTL

\* The role is asked with its task first and the newest thing it must act on last,
\* whatever was trimmed, however many attempts and reviews came before, and whenever the
\* process was restarted.
THEOREM RolesAreTold == Spec => []RoleIsTold
<1>1. IInv => RoleIsTold
  <2>1. IInv => TaskTypeOK /\ Told
    BY DEF IInv, TaskInv
  <2> QED BY <2>1 DEF RoleIsTold, Told, Begun, Newest, InCall
<1> QED BY <1>1, InductiveInvariant, PTL

\* A container that outlives its Run does so by an expired context, a refusal of the daemon,
\* a lost answer to its create or a kill, and by no other failure of a step.
THEOREM RunsRemoveTheirContainers == Spec => []ContainersAreRemoved
<1>1. IInv => ContainersAreRemoved
  BY DEF IInv, RunInv
<1> QED BY <1>1, InductiveInvariant, PTL

\* All providers are sent the same turns: the last message is one the role has to answer,
\* so that the Gemini API, which takes the last question out of its place, changes nothing.
THEOREM ProvidersSeeTheSame == Spec => []ProvidersAgree
<1>1. IInv => ProvidersAgree
  <2> SUFFICES ASSUME IInv, at = "asking", chats = 0
               PROVE  LET sent == BuildMessages(mem) IN
                        /\ GeminiSent(sent) = AnthropicSent(sent)
                        /\ SplitMessages(sent).prompt = AnthropicSent(sent)
                        /\ OpenAISent(sent) = <<Prompt>> \o AnthropicSent(sent)
    BY DEF ProvidersAgree
  <2>1. mem \in Seq(Message) /\ Len(mem) > 0 /\ mem[Len(mem)].from = "user"
    BY DEF IInv, TaskInv, TaskTypeOK, Told, Begun, Newest, InCall
  <2>2. BuildMessages(mem) = <<Prompt>> \o mem
    BY <2>1 DEF BuildMessages
  <2>3. AnthropicSent(<<Prompt>> \o mem) = mem /\ OpenAISent(<<Prompt>> \o mem) = <<Prompt>> \o mem
    BY <2>1, TurnsArePicked DEF AnthropicSent, OpenAISent
  <2>4. GeminiSent(<<Prompt>> \o mem) = mem
    BY <2>1, LastIsAnswered, TurnsArePicked
  <2>5. SplitMessages(<<Prompt>> \o mem).prompt = AnthropicSent(<<Prompt>> \o mem)
    BY DEF SplitMessages, AnthropicSent
  <2> QED BY <2>2, <2>3, <2>4, <2>5
<1> QED BY <1>1, InductiveInvariant, PTL
=============================================================================
