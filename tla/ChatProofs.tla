----------------------------- MODULE ChatProofs -----------------------------
(***************************************************************************)
(* Theorems about Chat, for any chats, tasks, capacities and lengths.      *)
(*                                                                         *)
(* The three channels are seen as one line, with what was received last at *)
(* its head: its chunks follow one another, and it ends with the chunk     *)
(* that was sent last.  Only three kinds of steps change the line, at its  *)
(* ends, in the middle (the error) and behind a cut; every other one moves *)
(* a chunk from channel to channel.  That nothing of it is lost when a     *)
(* goroutine ends rests on the order in which the three end (ChanOK).      *)
(***************************************************************************)
EXTENDS Chat, SequenceTheorems, TLAPS

-----------------------------------------------------------------------------
(* Sequences of chunks *)

Item     == Chunk \cup {Error, Nothing}
Sendable == Chunk \cup {Error}

\* Chunks, the error and the first screen are told apart.
LEMMA ChunksAreChunks ==
  /\ \A x \in Chunk : IsChunk(x)
  /\ \A x \in Item : IsChunk(x) => x \in Chunk
  /\ Error # Nothing
  /\ Chunk \subseteq Sendable /\ Error \in Sendable
  /\ \A x \in Sendable : x \in Item /\ x # Nothing
<1>1. \A x \in Chunk : x # Error /\ x # Nothing
  BY DEF Chunk, Error, Nothing
<1>2. Error # Nothing
  BY DEF Error, Nothing
<1> QED
  BY <1>1, <1>2 DEF Item, Sendable, IsChunk

\* A chunk moves from the head of one channel to the end of the next.
LEMMA HeadMoves ==
  ASSUME NEW S, NEW s \in Seq(S), NEW t \in Seq(S), t # <<>>
  PROVE  Append(s, Head(t)) \o Tail(t) = s \o t
<1>1. /\ Head(t) \in S /\ Tail(t) \in Seq(S) /\ Len(Tail(t)) = Len(t) - 1 /\ Len(t) \in Nat \ {0}
      /\ Head(t) = t[1] /\ \A i \in 1..Len(t) - 1 : Tail(t)[i] = t[i + 1]
  BY HeadTailProperties, LenProperties, EmptySeq
<1>2. /\ Append(s, Head(t)) \in Seq(S) /\ Len(Append(s, Head(t))) = Len(s) + 1 /\ Len(s) \in Nat
      /\ \A i \in 1..Len(s) : Append(s, Head(t))[i] = s[i]
      /\ Append(s, Head(t))[Len(s) + 1] = t[1]
  BY <1>1, AppendProperties, LenProperties
<1> DEFINE l == Append(s, Head(t)) \o Tail(t)
           r == s \o t
<1>3. /\ l \in Seq(S) /\ Len(l) = Len(s) + Len(t)
      /\ \A i \in 1..Len(l) : l[i] = IF i <= Len(s) + 1 THEN Append(s, Head(t))[i]
                                                       ELSE Tail(t)[i - (Len(s) + 1)]
  <2>1. /\ l \in Seq(S) /\ Len(l) = Len(Append(s, Head(t))) + Len(Tail(t))
        /\ \A i \in 1..Len(Append(s, Head(t))) + Len(Tail(t)) :
             l[i] = IF i <= Len(Append(s, Head(t))) THEN Append(s, Head(t))[i]
                    ELSE Tail(t)[i - Len(Append(s, Head(t)))]
    BY <1>1, <1>2, ConcatProperties
  <2> QED
    BY <1>1, <1>2, <2>1
<1>4. /\ r \in Seq(S) /\ Len(r) = Len(s) + Len(t)
      /\ \A i \in 1..Len(r) : r[i] = IF i <= Len(s) THEN s[i] ELSE t[i - Len(s)]
  BY ConcatProperties
<1> HIDE DEF l, r
<1>5. \A i \in 1..Len(l) : l[i] = r[i]
  <2> TAKE i \in 1..Len(l)
  <2>1. CASE i <= Len(s)
    BY <1>2, <1>3, <1>4, <2>1
  <2>2. CASE i = Len(s) + 1
    BY <1>1, <1>2, <1>3, <1>4, <2>2
  <2>3. CASE i > Len(s) + 1
    <3>1. i - (Len(s) + 1) \in 1..Len(t) - 1 /\ (i - (Len(s) + 1)) + 1 = i - Len(s)
      BY <1>1, <1>2, <1>3, <2>3
    <3>2. l[i] = t[i - Len(s)]
      BY <1>1, <1>3, <2>3, <3>1
    <3> QED
      BY <1>2, <1>3, <1>4, <2>3, <3>2
  <2> QED
    BY <1>2, <1>3, <2>1, <2>2, <2>3
<1>6. l = r
  <2>1. l \in Seq(S) /\ r \in Seq(S) /\ Len(l) = Len(r)
    BY <1>3, <1>4
  <2> QED
    BY <1>5, <2>1, SeqEqual
<1> QED
  BY <1>6 DEF l, r

\* A chunk sent into the last channel is at the end of the line.
LEMMA AppendMoves ==
  ASSUME NEW S, NEW s \in Seq(S), NEW t \in Seq(S), NEW e \in S
  PROVE  s \o Append(t, e) = Append(s \o t, e)
  OBVIOUS

\* A chunk received from the first channel is at the head of the line.
LEMMA TailMoves ==
  ASSUME NEW S, NEW s \in Seq(S), NEW t \in Seq(S), s # <<>>
  PROVE  Head(s \o t) = Head(s) /\ Tail(s \o t) = Tail(s) \o t /\ s \o t # <<>>
  OBVIOUS

\* A channel that is thrown away is cut off behind the others.
LEMMA CutBehind ==
  ASSUME NEW S, NEW s \in Seq(S), NEW t \in Seq(S)
  PROVE  SubSeq(s \o t, 1, Len(s)) = s /\ s \o <<>> = s /\ Len(s) \in 0..Len(s \o t)
  OBVIOUS

\* Where one channel ends and the next begins does not matter.
LEMMA Associates ==
  ASSUME NEW S, NEW s \in Seq(S), NEW t \in Seq(S), NEW u \in Seq(S)
  PROVE  s \o (t \o u) = (s \o t) \o u
<1>1. (s \o t) \o u = s \o (t \o u)
  BY ConcatAssociative
<1> QED
  BY <1>1

\* How the last of a sequence relates to the place the answer is at: it is the chunk sent
\* last, or, when the attempt has sent none, of an earlier attempt.
EndsAt(x, p) == IF p[2] > 0 THEN x = p ELSE x = Nothing \/ x[1] < p[1]

\* A feed, with what was received from it last at its head.
Fed(q, going, p, reader) ==
  /\ q \in Seq(Item) /\ q # <<>> /\ p \in Chunk
  /\ \A i \in 2..Len(q) : q[i] # Nothing
  /\ InSequence(q)
  /\ going # "failed" =>
       /\ \A i \in 1..Len(q) : q[i] # Error
       /\ reader # "cut" => EndsAt(q[Len(q)], p)

\* The next chunk is sent.
LEMMA FedSend ==
  ASSUME NEW q, NEW p, NEW reader \in {"reading", "left"}, Fed(q, "on", p, reader)
  PROVE  Fed(Append(q, <<p[1], p[2] + 1>>), "on", <<p[1], p[2] + 1>>, reader)
<1> DEFINE e == <<p[1], p[2] + 1>>
           r == Append(q, e)
<1>1. /\ q \in Seq(Item) /\ Len(q) \in Nat \ {0} /\ p \in Chunk /\ InSequence(q)
      /\ \A i \in 2..Len(q) : q[i] # Nothing
      /\ \A i \in 1..Len(q) : q[i] # Error /\ q[i] \in Item
      /\ EndsAt(q[Len(q)], p)
  BY EmptySeq, ElementOfSeq DEF Fed
<1>2. /\ e \in Chunk /\ e \in Item /\ IsChunk(e) /\ e # Error /\ e # Nothing
      /\ e[1] = p[1] /\ e[2] = p[2] + 1
  BY <1>1, ChunksAreChunks DEF Chunk, Item, IsChunk
<1> HIDE DEF e
<1>3. /\ r \in Seq(Item) /\ r # <<>> /\ Len(r) = Len(q) + 1 /\ DOMAIN r = 1..Len(q) + 1
      /\ r[Len(q) + 1] = e /\ \A i \in 1..Len(q) : r[i] = q[i]
  BY <1>1, <1>2, AppendProperties
<1> HIDE DEF r
<1>4. InSequence(r)
  <2> SUFFICES ASSUME NEW i \in DOMAIN r, NEW j \in DOMAIN r, i < j,
                      IsChunk(r[i]), IsChunk(r[j]), \A k \in i + 1..j - 1 : ~IsChunk(r[k])
               PROVE  Follows(r[i], r[j])
    BY DEF InSequence
  <2>1. CASE j \in 1..Len(q)
    <3>1. i \in DOMAIN q /\ j \in DOMAIN q /\ r[i] = q[i] /\ r[j] = q[j]
          /\ \A k \in i + 1..j - 1 : r[k] = q[k]
      BY <1>1, <1>3, <2>1
    <3> QED
      BY <1>1, <3>1 DEF InSequence
  <2>2. CASE j = Len(q) + 1
    <3>1. i = Len(q)
      <4> SUFFICES ASSUME i < Len(q) PROVE FALSE
        BY <1>1, <1>3, <2>2
      <4>1. Len(q) \in i + 1..j - 1 /\ Len(q) \in 2..Len(q)
        BY <1>1, <1>3, <2>2
      <4> QED
        BY <1>1, <1>3, <4>1 DEF IsChunk
    <3>2. q[i] \in Chunk /\ q[i] # Nothing
      BY <1>1, <1>3, <3>1, ChunksAreChunks DEF IsChunk
    <3> QED
      BY <1>1, <1>2, <1>3, <2>2, <3>1, <3>2 DEF EndsAt, Follows, Chunk
  <2> QED
    BY <1>1, <1>3, <2>1, <2>2
<1>5. EndsAt(e, e)
  BY <1>1, <1>2 DEF EndsAt, Chunk
<1> QED
  BY <1>1, <1>2, <1>3, <1>4, <1>5 DEF Fed, e, r

\* What is sent behind the cut.
LEMMA FedSendCut ==
  ASSUME NEW q, NEW p, Fed(q, "on", p, "cut")
  PROVE  Fed(q, "on", <<p[1], p[2] + 1>>, "cut")
  BY DEF Fed, Chunk

\* A retry moves the place and not the line.
LEMMA FedStartOver ==
  ASSUME NEW q, NEW p, NEW reader, Fed(q, "on", p, reader)
  PROVE  Fed(q, "on", <<p[1] + 1, 0>>, reader)
<1>1. p \in Chunk /\ <<p[1] + 1, 0>> \in Chunk
  BY DEF Fed, Chunk
<1>2. ASSUME EndsAt(q[Len(q)], p) PROVE EndsAt(q[Len(q)], <<p[1] + 1, 0>>)
  <2>1. q[Len(q)] \in Item
    BY EmptySeq, ElementOfSeq DEF Fed
  <2> QED
    BY <1>1, <1>2, <2>1, ChunksAreChunks DEF EndsAt, Fed, Chunk, IsChunk
<1> QED
  BY <1>1, <1>2 DEF Fed

\* An answer that ends, or fails, leaves the line as it is.
LEMMA FedEnds ==
  ASSUME NEW q, NEW p, NEW reader, Fed(q, "on", p, reader)
  PROVE  Fed(q, "answered", p, reader) /\ Fed(q, "failed", <<0, 0>>, reader)
  BY DEF Fed, Chunk

\* A reader that leaves, and a line that is cut short.
LEMMA FedCut ==
  ASSUME NEW q, NEW going, NEW p, NEW reader, NEW n \in 1..Len(q), Fed(q, going, p, reader)
  PROVE  Fed(SubSeq(q, 1, n), going, p, "cut")
<1>1. q \in Seq(Item) /\ Len(q) \in Nat
  BY LenProperties DEF Fed
<1>2. /\ SubSeq(q, 1, n) \in Seq(Item) /\ Len(SubSeq(q, 1, n)) = n
      /\ \A i \in 1..n : SubSeq(q, 1, n)[i] = q[i]
  BY <1>1, ElementOfSeq, SubSeqProperties
<1>3. InSequence(SubSeq(q, 1, n))
  BY <1>1, <1>2, LenProperties DEF Fed, InSequence
<1> QED
  BY <1>1, <1>2, <1>3 DEF Fed

\* A reader that leaves takes nothing with it.
LEMMA FedLeave ==
  ASSUME NEW q, NEW going, NEW p, Fed(q, going, p, "reading"), NEW how \in {"left", "cut"}
  PROVE  Fed(q, going, p, how)
  BY DEF Fed

\* The reader takes the next one.
LEMMA FedReceive ==
  ASSUME NEW q, NEW going, NEW p, NEW reader, Fed(q, going, p, reader), Len(q) > 1
  PROVE  Fed(Tail(q), going, p, reader)
<1>1. q \in Seq(Item) /\ Len(q) \in Nat /\ DOMAIN q = 1..Len(q) /\ q # <<>>
  BY LenProperties DEF Fed
<1>2. /\ Tail(q) \in Seq(Item) /\ Len(Tail(q)) = Len(q) - 1
      /\ DOMAIN Tail(q) = 1..Len(q) - 1
      /\ \A i \in 1..Len(q) - 1 : Tail(q)[i] = q[i + 1]
  BY <1>1, HeadTailProperties, LenProperties
<1>3. InSequence(Tail(q))
  <2> SUFFICES ASSUME NEW i \in DOMAIN Tail(q), NEW j \in DOMAIN Tail(q), i < j,
                      IsChunk(Tail(q)[i]), IsChunk(Tail(q)[j]),
                      \A k \in i + 1..j - 1 : ~IsChunk(Tail(q)[k])
               PROVE  Follows(Tail(q)[i], Tail(q)[j])
    BY DEF InSequence
  <2>1. \A k \in (i + 1) + 1..(j + 1) - 1 : ~IsChunk(q[k])
    <3> TAKE k \in (i + 1) + 1..(j + 1) - 1
    <3>1. k - 1 \in i + 1..j - 1 /\ k - 1 \in 1..Len(q) - 1
      BY <1>1, <1>2
    <3> QED
      BY <1>2, <3>1
  <2>2. i + 1 \in DOMAIN q /\ j + 1 \in DOMAIN q
    BY <1>1, <1>2
  <2> QED
    BY <1>2, <2>1, <2>2 DEF Fed, InSequence
<1>4. Tail(q) # <<>> /\ Tail(q)[Len(Tail(q))] = q[Len(q)]
  BY <1>1, <1>2
<1>5. /\ \A i \in 2..Len(Tail(q)) : Tail(q)[i] = q[i + 1] /\ i + 1 \in 2..Len(q)
      /\ \A i \in 1..Len(Tail(q)) : Tail(q)[i] = q[i + 1] /\ i + 1 \in 1..Len(q)
  BY <1>1, <1>2
<1> QED
  BY <1>1, <1>2, <1>3, <1>4, <1>5 DEF Fed

\* An error is put in between.
LEMMA FedReport ==
  ASSUME NEW a \in Seq(Item), a # <<>>, NEW b \in Seq(Item), NEW p, NEW reader,
         Fed(a \o b, "failed", p, reader)
  PROVE  Fed(Append(a, Error) \o b, "failed", p, reader)
<1> DEFINE q == a \o b
           m == Len(a)
           r == Append(a, Error) \o b
           at(i) == IF i <= m THEN i ELSE i - 1
<1>1. m \in Nat \ {0} /\ Len(b) \in Nat
  BY LenProperties, EmptySeq
<1>2. /\ q \in Seq(Item) /\ Len(q) = m + Len(b) /\ DOMAIN q = 1..m + Len(b)
      /\ \A i \in 1..m + Len(b) : q[i] = IF i <= m THEN a[i] ELSE b[i - m]
  BY <1>1, ConcatProperties, LenProperties
<1>3. /\ Append(a, Error) \in Seq(Item) /\ Len(Append(a, Error)) = m + 1
      /\ \A i \in 1..m : Append(a, Error)[i] = a[i]
      /\ Append(a, Error)[m + 1] = Error
  BY AppendProperties DEF Item
<1>4. /\ r \in Seq(Item) /\ Len(r) = m + 1 + Len(b) /\ DOMAIN r = 1..m + 1 + Len(b)
      /\ \A i \in 1..m + 1 + Len(b) :
           r[i] = IF i <= m + 1 THEN Append(a, Error)[i] ELSE b[i - (m + 1)]
  BY <1>1, <1>3, ConcatProperties, LenProperties
<1>5. r[m + 1] = Error /\ \A i \in 1..m + 1 + Len(b) : i # m + 1 => r[i] = q[at(i)]
  BY <1>1, <1>2, <1>3, <1>4
<1> HIDE DEF q, m, r
<1>6. InSequence(r)
  <2> SUFFICES ASSUME NEW i \in DOMAIN r, NEW j \in DOMAIN r, i < j,
                      IsChunk(r[i]), IsChunk(r[j]), \A k \in i + 1..j - 1 : ~IsChunk(r[k])
               PROVE  Follows(r[i], r[j])
    BY DEF InSequence
  <2>1. i # m + 1 /\ j # m + 1
    BY <1>5 DEF IsChunk
  <2>2. at(i) \in DOMAIN q /\ at(j) \in DOMAIN q /\ at(i) < at(j)
    BY <1>1, <1>2, <1>4, <2>1
  <2>3. \A k \in at(i) + 1..at(j) - 1 : ~IsChunk(q[k])
    <3> TAKE k \in at(i) + 1..at(j) - 1
    <3>1. PICK l \in i + 1..j - 1 : l # m + 1 /\ at(l) = k
      <4>1. CASE k <= m
        BY <1>1, <1>4, <2>1, <4>1
      <4>2. CASE k > m
        <5>1. k + 1 \in i + 1..j - 1 /\ k + 1 # m + 1 /\ at(k + 1) = k
          BY <1>1, <1>4, <2>1, <4>2
        <5> QED
          BY <5>1
      <4> QED
        BY <1>1, <1>4, <2>1, <4>1, <4>2
    <3>2. l \in 1..m + 1 + Len(b) /\ r[l] = q[k] /\ ~IsChunk(r[l])
      <4>1. l \in 1..m + 1 + Len(b)
        BY <1>1, <1>4, <3>1
      <4>2. r[l] = q[at(l)]
        BY <1>5, <3>1, <4>1
      <4> QED
        BY <3>1, <4>1, <4>2
    <3> QED
      BY <3>2
  <2>4. InSequence(q)
    BY DEF Fed, q
  <2> QED
    BY <1>4, <1>5, <2>1, <2>2, <2>3, <2>4 DEF InSequence
<1>7. r # <<>>
  BY <1>1, <1>4, EmptySeq
<1>8. \A i \in 2..Len(r) : r[i] # Nothing
  <2>1. \A i \in 2..Len(q) : q[i] # Nothing
    BY DEF Fed, q
  <2> TAKE i \in 2..Len(r)
  <2>2. CASE i = m + 1
    BY <1>5, <2>2, ChunksAreChunks
  <2>3. CASE i # m + 1
    <3>1. at(i) \in 2..Len(q)
      BY <1>1, <1>2, <1>4, <2>3
    <3>2. r[i] = q[at(i)]
      BY <1>1, <1>4, <1>5, <2>3
    <3> QED
      BY <2>1, <2>3, <3>1, <3>2
  <2> QED
    BY <2>2, <2>3
<1> QED
  BY <1>4, <1>6, <1>7, <1>8 DEF Fed, r

-----------------------------------------------------------------------------
(* The steps of a feed *)

\* What AnswerFeed sees of a chat does not change.
Kept(c) ==
  /\ Going(c)' = Going(c) /\ Place(c)' = Place(c) /\ Reader(c)' = Reader(c)
  /\ Line(c)' = Line(c) /\ shown'[c] = shown[c]

FedInv == \A c \in Client : Fed(<<shown[c]>> \o Line(c), Going(c), Place(c), Reader(c))

FeedTypeOK ==
  /\ shown \in [Client -> Item] /\ \A c \in Client : Line(c) \in Seq(Sendable)

FeedStep == [Feed!Next]_(Feed!vars)

\* The functions AnswerFeed has for variables, when one client's values change.
LEMMA OneChanges ==
  ASSUME FeedTypeOK, FeedTypeOK', NEW c \in Client, \A d \in Client \ {c} : Kept(d)
  PROVE  /\ [d \in Client |-> Going(d)]' = [[d \in Client |-> Going(d)] EXCEPT ![c] = Going(c)']
         /\ [d \in Client |-> Place(d)]' = [[d \in Client |-> Place(d)] EXCEPT ![c] = Place(c)']
         /\ [d \in Client |-> Reader(d)]' = [[d \in Client |-> Reader(d)] EXCEPT ![c] = Reader(c)']
         /\ [d \in Client |-> Line(d)]' = [[d \in Client |-> Line(d)] EXCEPT ![c] = Line(c)']
         /\ shown' = [shown EXCEPT ![c] = shown'[c]]
<1> QED
  BY DEF Kept, FeedTypeOK

\* What a step leaves of its own client, it leaves of all.
LEMMA OneKeeps ==
  ASSUME FeedTypeOK, FeedTypeOK', NEW c \in Client, \A d \in Client \ {c} : Kept(d)
  PROVE  /\ Going(c)' = Going(c) => [d \in Client |-> Going(d)]' = [d \in Client |-> Going(d)]
         /\ Place(c)' = Place(c) => [d \in Client |-> Place(d)]' = [d \in Client |-> Place(d)]
         /\ Reader(c)' = Reader(c) => [d \in Client |-> Reader(d)]' = [d \in Client |-> Reader(d)]
         /\ Line(c)' = Line(c) => [d \in Client |-> Line(d)]' = [d \in Client |-> Line(d)]
         /\ shown'[c] = shown[c] => shown' = shown
<1> QED
  BY DEF Kept, FeedTypeOK

\* A step that changes no line is a stutter of the feed.
LEMMA KeptFeeds ==
  ASSUME FeedTypeOK, FeedTypeOK', \A d \in Client : Kept(d), FedInv
  PROVE  FeedStep /\ FedInv'
<1>1. FedInv'
  BY DEF Kept, FedInv
<1>2. UNCHANGED Feed!vars
  BY DEF Kept, Feed!vars, FeedTypeOK
<1> QED
  BY <1>1, <1>2 DEF FeedStep

\* A step that puts the next chunk at the end of a line, or behind its cut, is a Send.
LEMMA SendFeeds ==
  ASSUME FeedTypeOK, FeedTypeOK', FedInv, NEW c \in Client, \A d \in Client \ {c} : Kept(d),
         Going(c) = "on", Going(c)' = "on", Reader(c)' = Reader(c), shown'[c] = shown[c],
         Reader(c) \in {"reading", "left", "cut"},
         Place(c)' = <<Place(c)[1], Place(c)[2] + 1>>,
         Line(c)' = IF Reader(c) = "cut" THEN Line(c) ELSE Append(Line(c), Place(c)')
  PROVE  FeedStep /\ FedInv'
<1>1. Feed!Send(c)
  BY OneChanges, OneKeeps DEF Feed!Send
<1>2. Fed(<<shown[c]>> \o Line(c), Going(c), Place(c), Reader(c))'
  <2>1. CASE Reader(c) = "cut"
    BY <2>1, FedSendCut DEF FedInv
  <2>2. CASE Reader(c) # "cut"
    <3>1. Place(c)' \in Item
      <4>1. Place(c) \in Chunk
        BY DEF FedInv, Fed
      <4> QED
        BY <4>1 DEF Chunk, Item
    <3>2. <<shown[c]>> \o Append(Line(c), Place(c)') = Append(<<shown[c]>> \o Line(c), Place(c)')
      BY <3>1 DEF FeedTypeOK
    <3> QED
      BY <2>2, <3>2, FedSend DEF FedInv
  <2> QED
    BY <2>1, <2>2
<1> QED
  BY <1>1, <1>2 DEF FeedStep, Feed!Next, FedInv, Kept

\* A step of the call that sends nothing starts over, ends the answer or is a stutter.
LEMMA CallStepFeeds ==
  ASSUME FeedTypeOK, FeedTypeOK', FedInv, NEW c \in Client, \A d \in Client \ {c} : Kept(d),
         Reader(c)' = Reader(c), Line(c)' = Line(c), shown'[c] = shown[c], Going(c) = "on",
         \/ Going(c)' = "on" /\ Place(c)' \in {Place(c), <<Place(c)[1] + 1, 0>>}
         \/ Going(c)' = "answered" /\ Place(c)' = Place(c)
         \/ Going(c)' = "failed" /\ Place(c)' = <<0, 0>>
  PROVE  FeedStep /\ FedInv'
<1>1. CASE Going(c)' = "on" /\ Place(c)' = Place(c)
  <2>1. \A d \in Client : Kept(d)
    BY <1>1 DEF Kept
  <2> QED
    BY <2>1, KeptFeeds
<1>2. CASE Going(c)' = "on" /\ Place(c)' = <<Place(c)[1] + 1, 0>>
  <2>1. Feed!StartOver(c)
    BY <1>2, OneChanges, OneKeeps DEF Feed!StartOver
  <2> QED
    BY <1>2, <2>1, FedStartOver DEF FeedStep, Feed!Next, FedInv, Kept
<1>3. CASE Going(c)' = "answered" /\ Place(c)' = Place(c)
  <2>1. Feed!Complete(c)
    BY <1>3, OneChanges, OneKeeps DEF Feed!Complete
  <2> QED
    BY <1>3, <2>1, FedEnds DEF FeedStep, Feed!Next, FedInv, Kept
<1>4. CASE Going(c)' = "failed" /\ Place(c)' = <<0, 0>>
  <2>1. Feed!Fail(c)
    BY <1>4, OneChanges, OneKeeps DEF Feed!Fail
  <2> QED
    BY <1>4, <2>1, FedEnds DEF FeedStep, Feed!Next, FedInv, Kept
<1> QED
  BY <1>1, <1>2, <1>3, <1>4

\* A step that takes the head of a line and shows it is a Receive.
LEMMA ReceiveFeeds ==
  ASSUME FeedTypeOK, FeedTypeOK', FedInv, NEW c \in Client, \A d \in Client \ {c} : Kept(d),
         Going(c)' = Going(c), Place(c)' = Place(c), Reader(c)' = Reader(c),
         Line(c) # <<>>, shown'[c] = Head(Line(c)), Line(c)' = Tail(Line(c))
  PROVE  FeedStep /\ FedInv'
<1>1. Feed!Receive(c)
  BY OneChanges, OneKeeps DEF Feed!Receive
<1>2. /\ <<Head(Line(c))>> \o Tail(Line(c)) = Tail(<<shown[c]>> \o Line(c))
      /\ Len(<<shown[c]>> \o Line(c)) > 1
  BY DEF FeedTypeOK
<1>3. Fed(<<shown[c]>> \o Line(c), Going(c), Place(c), Reader(c))'
  BY <1>2, FedReceive DEF FedInv
<1> QED
  BY <1>1, <1>3 DEF FeedStep, Feed!Next, FedInv, Kept

\* A step by which the reader goes is a Leave.
LEMMA LeaveFeeds ==
  ASSUME FeedTypeOK, FeedTypeOK', FedInv, NEW c \in Client, \A d \in Client \ {c} : Kept(d),
         Going(c)' = Going(c), Place(c)' = Place(c), Line(c)' = Line(c), shown'[c] = shown[c],
         Reader(c) = "reading", Reader(c)' \in {"left", "cut"}
  PROVE  FeedStep /\ FedInv'
<1>1. Feed!Leave(c)
  BY OneChanges, OneKeeps DEF Feed!Leave
<1> QED
  BY <1>1, FedLeave DEF FeedStep, Feed!Next, FedInv, Kept

\* A step that drops the end of the line of a reader who is gone is a CutShort.
LEMMA CutFeeds ==
  ASSUME FeedTypeOK, FeedTypeOK', FedInv, NEW c \in Client, \A d \in Client \ {c} : Kept(d),
         Going(c)' = Going(c), Place(c)' = Place(c), shown'[c] = shown[c],
         Reader(c) = "left", Reader(c)' = "cut",
         NEW n \in 0..Len(Line(c)), Line(c)' = SubSeq(Line(c), 1, n)
  PROVE  FeedStep /\ FedInv'
<1>1. Feed!CutShort(c)
  BY OneChanges, OneKeeps DEF Feed!CutShort
<1>2. /\ <<shown[c]>> \o SubSeq(Line(c), 1, n) = SubSeq(<<shown[c]>> \o Line(c), 1, n + 1)
      /\ n + 1 \in 1..Len(<<shown[c]>> \o Line(c))
  BY DEF FeedTypeOK
<1>3. Fed(<<shown[c]>> \o Line(c), Going(c), Place(c), Reader(c))'
  BY <1>2, FedCut DEF FedInv
<1> QED
  BY <1>1, <1>3 DEF FeedStep, Feed!Next, FedInv, Kept

\* A step that puts the error somewhere in the line of a failed answer is a Report.
LEMMA ReportFeeds ==
  ASSUME FeedTypeOK, FeedTypeOK', FedInv, NEW c \in Client, \A d \in Client \ {c} : Kept(d),
         Going(c) = "failed", Going(c)' = "failed", Place(c)' = Place(c),
         Reader(c)' = Reader(c), shown'[c] = shown[c],
         NEW a \in Seq(Sendable), NEW b \in Seq(Sendable),
         Line(c) = a \o b, Line(c)' = Append(a, Error) \o b
  PROVE  FeedStep /\ FedInv'
<1>1. Len(a) \in 0..Len(Line(c)) /\ a = SubSeq(Line(c), 1, Len(a))
      /\ b = SubSeq(Line(c), Len(a) + 1, Len(Line(c)))
  OBVIOUS
<1>2. Feed!Report(c)
  <2>1. Line(c)' = Append(SubSeq(Line(c), 1, Len(a)), Error)
                     \o SubSeq(Line(c), Len(a) + 1, Len(Line(c)))
    BY <1>1
  <2>2. \E n \in 0..Len(Line(c)) :
          [d \in Client |-> Line(d)]' =
            [[d \in Client |-> Line(d)] EXCEPT ![c] =
               Append(SubSeq(Line(c), 1, n), Error) \o SubSeq(Line(c), n + 1, Len(Line(c)))]
    BY <1>1, <2>1, OneChanges
  <2> QED
    BY <2>2, OneKeeps DEF Feed!Report
<1>3. <<shown[c]>> \in Seq(Item) /\ a \in Seq(Item) /\ b \in Seq(Item) /\ Error \in Item
      /\ Append(a, Error) \in Seq(Item)
  <2>1. Seq(Sendable) \subseteq Seq(Item)
    BY ChunksAreChunks, SeqMonotonic
  <2>2. shown[c] \in Item /\ Error \in Item /\ a \in Seq(Item) /\ b \in Seq(Item)
    BY <2>1, ChunksAreChunks DEF FeedTypeOK
  <2> QED
    BY <2>2, AppendProperties
<1>4. <<shown[c]>> \o (a \o b) = (<<shown[c]>> \o a) \o b
      /\ <<shown[c]>> \o (Append(a, Error) \o b) = (<<shown[c]>> \o Append(a, Error)) \o b
  <2>1. <<shown[c]>> \o (a \o b) = (<<shown[c]>> \o a) \o b
    BY <1>3, Associates
  <2>2. <<shown[c]>> \o (Append(a, Error) \o b) = (<<shown[c]>> \o Append(a, Error)) \o b
    BY <1>3, Associates
  <2> QED
    BY <2>1, <2>2
<1>5. <<shown[c]>> \o Append(a, Error) = Append(<<shown[c]>> \o a, Error)
  <2>1. /\ Append(a, Error) = a \o <<Error>> /\ <<Error>> \in Seq(Item)
        /\ Append(<<shown[c]>> \o a, Error) = (<<shown[c]>> \o a) \o <<Error>>
    BY <1>3, AppendIsConcat, ConcatProperties
  <2>2. <<shown[c]>> \o (a \o <<Error>>) = (<<shown[c]>> \o a) \o <<Error>>
    BY <1>3, <2>1, Associates
  <2> QED
    BY <2>1, <2>2, Zenon
<1>6. <<shown[c]>> \o a \in Seq(Item) /\ <<shown[c]>> \o a # <<>>
  BY <1>3, ConcatProperties, EmptySeq
<1>7. Fed(<<shown[c]>> \o Line(c), Going(c), Place(c), Reader(c))'
  BY <1>3, <1>4, <1>5, <1>6, FedReport DEF FedInv
<1> QED
  BY <1>2, <1>7 DEF FeedStep, Feed!Next, FedInv, Kept

-----------------------------------------------------------------------------
(* Types *)

TaskTypeOK ==
  /\ row \in [Task -> Status]
  /\ copy \in Seq(Copy) /\ active \in 0..Len(copy)
  /\ work \in {"none", "deciding", "saving", "closing", "waking", "leaving"}
  /\ held \in [Client -> 0..Len(copy)] /\ taken \in [Client -> Status]

PathTypeOK ==
  /\ sender \in [Client -> {"off", "on", "reporting", "done"}]
  /\ logger \in [Client -> {"off", "on", "draining", "done"}]
  /\ copier \in [Client -> {"off", "on", "injecting", "saving", "done"}]
  /\ sent \in [Client -> 0..MaxChunks]
  /\ buf \in [Client -> Seq(Chunk)] /\ pipe \in [Client -> Seq(Chunk)]
  /\ out \in [Client -> Seq(Sendable)] /\ shown \in [Client -> Item]
  /\ \A c \in Client : Len(buf[c]) <= ChanCap /\ Len(pipe[c]) <= ChanCap /\ Len(out[c]) <= ChanCap

Types == LimitTypeOK /\ TaskTypeOK /\ PathTypeOK

\* The copy of a task that a chat or processTask holds is one of its fetches.
LEMMA CopyIsOK ==
  ASSUME TaskTypeOK, NEW h \in 0..Len(copy), h # 0
  PROVE  /\ h \in 1..Len(copy) /\ Len(copy) \in Nat
         /\ copy[h] \in Copy
         /\ copy[h].of \in Task /\ copy[h].status \in Status
<1>1. copy \in Seq(Copy) /\ Len(copy) \in Nat /\ h \in 1..Len(copy)
  BY LenProperties DEF TaskTypeOK
<1>2. copy[h] \in Copy
  BY <1>1, ElementOfSeq, Zenon
<1> QED
  BY <1>1, <1>2 DEF Copy

\* The types the proofs use are those of Chat.
LEMMA TypesAreOK == Types => TypeOK
<1> SUFFICES ASSUME Types PROVE TypeOK
  OBVIOUS
<1>1. Sendable = Chunk \cup {Error}
  BY ChunksAreChunks DEF Item, IsChunk
<1> QED
  BY <1>1 DEF Types, TaskTypeOK, PathTypeOK, TypeOK, Item

\* A call is well typed whatever its provider does.
LEMMA CallTypes ==
  ASSUME LimitTypeOK, NEW c \in Caller, Ask(c) \/ CallStep(c)
  PROVE  LimitTypeOK'
<1> USE DelaysAssumption, RoleOfAssumption DEF LimitTypeOK, CallAt
<1>1. CASE Ask(c)
  BY <1>1 DEF Ask
<1>2. CASE Succeeds(c)
  <2>1. marker' \in [Role -> Nat]
    BY <1>2 DEF Succeeds, Mark
  <2> QED
    BY <1>2, <2>1 DEF Succeeds
<1>3. CASE Fails(c)
  BY <1>3 DEF Fails
<1>4. ASSUME NEW d \in 1..LongestWait, Throttled(c, d) PROVE LimitTypeOK'
  <2>1. marker' \in [Role -> Nat]
    BY <1>4 DEF Throttled, Mark
  <2> QED
    BY <1>4, <2>1 DEF Throttled
<1>5. CASE Retry(c)
  <2>1. waited[c] + delay[c] \in Nat /\ attempt[c] + 1 \in Nat
    OBVIOUS
  <2> QED
    BY <1>5, <2>1 DEF Retry
<1>6. CASE WaitCancelled(c)
  BY <1>6 DEF WaitCancelled
<1> QED
  BY <1>1, <1>2, <1>3, <1>4, <1>5, <1>6 DEF CallStep

\* The types hold before the first step.
LEMMA InitTypes == Init => Types
<1> SUFFICES ASSUME Init PROVE Types
  OBVIOUS
<1>1. LimitTypeOK
  BY DEF Init, LimitInit, LimitTypeOK, CallAt
<1>2. TaskTypeOK
  BY DEF Init, TaskTypeOK, Status
<1>3. PathTypeOK
  BY SizesAssumption DEF Init, PathTypeOK, Item, Nothing
<1> QED
  BY <1>1, <1>2, <1>3 DEF Types

\* A chat that injects has a task to inject into.
ChatHasTask == \A c \in Client : copier[c] \in {"injecting", "saving"} => held[c] # 0

\* So has processTask at work.
WorkHasTask == work # "none" <=> active # 0

\* Every step keeps the types.
LEMMA StepTypes == Types /\ ChatHasTask /\ WorkHasTask /\ [Next]_vars => Types'
<1> SUFFICES ASSUME Types, ChatHasTask, WorkHasTask, [Next]_vars PROVE Types'
  OBVIOUS
<1> USE SizesAssumption, CallersAssumption DEF Types
<1>1. ASSUME UNCHANGED limitVars PROVE LimitTypeOK'
  BY <1>1 DEF limitVars, callVars, LimitTypeOK
<1>2. ASSUME UNCHANGED taskVars, UNCHANGED <<held, taken>> PROVE TaskTypeOK'
  BY <1>2 DEF taskVars, TaskTypeOK
<1>3. ASSUME UNCHANGED <<sender, logger, copier, sent, buf, pipe, out, shown>> PROVE PathTypeOK'
  BY <1>3 DEF PathTypeOK
<1>4. ASSUME NEW t \in Task, Create(t) PROVE Types'
  BY <1>1, <1>3, <1>4 DEF Create, pathVars, TaskTypeOK, Status
<1>5. ASSUME NEW new \in Copy, copy' = Append(copy, new), active' \in {active, Len(copy')},
             work' \in {"deciding", "waking"}, UNCHANGED <<limitVars, row, pathVars>>
      PROVE  Types'
  <2>1. copy' \in Seq(Copy) /\ Len(copy') = Len(copy) + 1 /\ Len(copy) \in Nat
    BY <1>5, AppendProperties, LenProperties DEF TaskTypeOK
  <2>2. TaskTypeOK'
    BY <1>5, <2>1 DEF pathVars, TaskTypeOK
  <2> QED
    BY <1>1, <1>3, <1>5, <2>2 DEF pathVars
<1>6. ASSUME NEW t \in Task, Process(t) \/ FindWaiting(t) PROVE Types'
  <2> DEFINE new(saved) == [of |-> t, status |-> "pending", saved |-> saved]
  <2>1. new(TRUE) \in Copy /\ new(FALSE) \in Copy
    BY DEF Copy, Status
  <2>2. CASE Process(t)
    BY <1>5, <2>1, <2>2 DEF Process
  <2>3. CASE FindWaiting(t)
    BY <1>5, <2>1, <2>3 DEF FindWaiting
  <2> QED
    BY <1>6, <2>2, <2>3
<1>25. ASSUME NEW status \in Status, NEW saved \in BOOLEAN, NEW h \in 0..Len(copy), h # 0,
              \/ copy' = [copy EXCEPT ![h].status = status, ![h].saved = saved]
              \/ copy' = [copy EXCEPT ![h].saved = saved]
              \/ copy' = copy,
              \/ row' = [row EXCEPT ![copy[h].of] = status] \/ row' = row,
              work' \in {"deciding", "saving", "closing", "leaving"},
              UNCHANGED <<limitVars, active, pathVars>>
       PROVE  Types'
  <2>1. h \in 1..Len(copy) /\ copy[h] \in Copy
    BY <1>25, CopyIsOK
  <2> DEFINE both == [copy[h] EXCEPT !.status = status, !.saved = saved]
             one  == [copy[h] EXCEPT !.saved = saved]
  <2>2. both \in Copy /\ one \in Copy
    BY <2>1 DEF Copy
  <2>3. copy' \in Seq(Copy) /\ Len(copy') = Len(copy)
    <3>1. copy' = [copy EXCEPT ![h] = both] \/ copy' = [copy EXCEPT ![h] = one] \/ copy' = copy
      BY <1>25
    <3> HIDE DEF both, one
    <3> QED
      BY <2>1, <2>2, <3>1, ExceptSeq DEF TaskTypeOK
  <2>4. row' \in [Task -> Status]
    BY <1>25, <2>1 DEF TaskTypeOK
  <2>5. TaskTypeOK'
    BY <1>25, <2>3, <2>4 DEF pathVars, TaskTypeOK
  <2> QED
    BY <1>1, <1>3, <1>25, <2>5 DEF pathVars
<1>26. ASSUME NEW status \in Status, SetStatus(status) PROVE Types'
  <2>1. active \in 0..Len(copy) /\ active # 0
    BY <1>26 DEF SetStatus, TaskTypeOK, WorkHasTask
  <2> QED
    BY <1>25, <1>26, <2>1 DEF SetStatus
<1>27. CASE SaveStatus
  <2>1. active \in 0..Len(copy) /\ active # 0 /\ copy[active].status \in Status
    BY <1>27, CopyIsOK DEF SaveStatus, TaskTypeOK, WorkHasTask
  <2> QED
    BY <1>25, <1>27, <2>1 DEF SaveStatus
<1>28. CASE WakeParent
  <2>1. Len(copy) \in 0..Len(copy) /\ Len(copy) # 0 /\ "pending" \in Status
    BY <1>28, LenProperties DEF WakeParent, TaskTypeOK, WorkHasTask, Status
  <2> QED
    BY <1>25, <1>28, <2>1 DEF WakeParent
<1>7. CASE Return
  BY <1>1, <1>3, <1>7 DEF Return, pathVars, TaskTypeOK, Status
<1>8. CASE Reset
  <2>1. LimitTypeOK'
    BY <1>8 DEF Reset, callVars, LimitTypeOK
  <2> QED
    BY <1>3, <1>8, <2>1 DEF Reset, pathVars, TaskTypeOK, Status
<1>9. ASSUME NEW c \in Client, NEW inject \in BOOLEAN, Open(c, inject) PROVE Types'
  <2>1. LimitTypeOK'
    BY <1>9, CallTypes DEF Open
  <2>2. TaskTypeOK'
    BY <1>9 DEF Open, taskVars, TaskTypeOK
  <2>3. PathTypeOK'
    BY <1>9 DEF Open, PathTypeOK
  <2> QED
    BY <2>1, <2>2, <2>3
<1>10. ASSUME NEW c \in Client, Emit(c) PROVE Types'
  <2>1. attempt[c] \in Nat /\ sent[c] + 1 \in 0..MaxChunks /\ <<attempt[c], sent[c] + 1>> \in Chunk
    BY <1>10 DEF Emit, LimitTypeOK, PathTypeOK, Chunk
  <2>2. PathTypeOK'
    BY <1>10, <2>1 DEF Emit, PathTypeOK
  <2> QED
    BY <1>1, <1>2, <1>10, <2>2 DEF Emit
<1>11. ASSUME NEW c \in Client, Stream(c) PROVE Types'
  <2>1. LimitTypeOK'
    BY <1>11, CallTypes DEF Stream
  <2>2. PathTypeOK'
    BY <1>11 DEF Stream, PathTypeOK
  <2> QED
    BY <1>2, <1>11, <2>1, <2>2 DEF Stream
<1>12. ASSUME NEW c \in Client, StreamEnds(c) PROVE Types'
  <2>1. PathTypeOK'
    BY <1>12 DEF StreamEnds, PathTypeOK
  <2> QED
    BY <1>1, <1>2, <1>12, <2>1 DEF StreamEnds
<1>13. ASSUME NEW c \in Client, Report(c) PROVE Types'
  <2>1. PathTypeOK'
    BY <1>13, ChunksAreChunks DEF Report, PathTypeOK, Item
  <2> QED
    BY <1>1, <1>2, <1>13, <2>1 DEF Report
<1>14. ASSUME NEW c \in Client, Panic(c) PROVE Types'
  <2>1. LimitTypeOK'
    BY <1>14 DEF Panic, LimitTypeOK, CallAt
  <2>2. TaskTypeOK'
    BY <1>14, EmptySeq DEF Panic, TaskTypeOK, Status
  <2>3. PathTypeOK'
    BY <1>14 DEF Panic, PathTypeOK, Item, Nothing
  <2> QED
    BY <2>1, <2>2, <2>3
<1>15. ASSUME NEW c \in Client, Forward(c) PROVE Types'
  <2>1. PathTypeOK'
    BY <1>15 DEF Forward, PathTypeOK
  <2> QED
    BY <1>1, <1>2, <1>15, <2>1 DEF Forward
<1>16. ASSUME NEW c \in Client, ForwardQuits(c) PROVE Types'
  <2>1. PathTypeOK'
    BY <1>16 DEF ForwardQuits, PathTypeOK
  <2> QED
    BY <1>1, <1>2, <1>16, <2>1 DEF ForwardQuits
<1>17. ASSUME NEW c \in Client, Drain(c) PROVE Types'
  <2>1. PathTypeOK'
    BY <1>17 DEF Drain, PathTypeOK
  <2> QED
    BY <1>1, <1>2, <1>17, <2>1 DEF Drain
<1>18. ASSUME NEW c \in Client, LoggerEnds(c) PROVE Types'
  <2>1. PathTypeOK'
    BY <1>18 DEF LoggerEnds, PathTypeOK
  <2> QED
    BY <1>1, <1>2, <1>18, <2>1 DEF LoggerEnds
<1>19. ASSUME NEW c \in Client, Deliver(c) PROVE Types'
  <2>1. Head(pipe[c]) \in Sendable
    BY <1>19, ChunksAreChunks DEF Deliver, PathTypeOK, Item, IsChunk
  <2>2. PathTypeOK'
    BY <1>19, <2>1 DEF Deliver, PathTypeOK
  <2> QED
    BY <1>1, <1>2, <1>19, <2>2 DEF Deliver
<1>20. ASSUME NEW c \in Client, DeliverQuits(c) \/ PipeEnds(c) PROVE Types'
  <2>1. PathTypeOK'
    BY <1>20 DEF DeliverQuits, PipeEnds, PathTypeOK
  <2> QED
    BY <1>1, <1>2, <1>20, <2>1 DEF DeliverQuits, PipeEnds
<1>21. ASSUME NEW c \in Client, Inject(c) \/ SaveInjected(c) PROVE Types'
  <2>1. PathTypeOK'
    BY <1>21 DEF Inject, SaveInjected, PathTypeOK
  <2>2. copy[held[c]].of \in Task /\ copy[held[c]].status \in Status
    BY <1>21, CopyIsOK DEF Inject, SaveInjected, TaskTypeOK, ChatHasTask
  <2>3. row' \in [Task -> Status] /\ taken' \in [Client -> Status]
    BY <1>21, <2>2 DEF Inject, SaveInjected, taskVars, TaskTypeOK
  <2>4. TaskTypeOK'
    BY <1>21, <2>3 DEF Inject, SaveInjected, taskVars, TaskTypeOK
  <2> QED
    BY <1>1, <1>21, <2>1, <2>4 DEF Inject, SaveInjected
<1>22. ASSUME NEW c \in Client, Receive(c) PROVE Types'
  <2>1. /\ out[c] \in Seq(Sendable) /\ out[c] # <<>>
    BY <1>22 DEF Receive, PathTypeOK
  <2>2. /\ Head(out[c]) \in Sendable /\ Tail(out[c]) \in Seq(Sendable)
        /\ Len(Tail(out[c])) = Len(out[c]) - 1 /\ Len(out[c]) \in Nat
    BY <2>1, HeadTailProperties, LenProperties
  <2>3. PathTypeOK'
    BY <1>22, <2>2, ChunksAreChunks DEF Receive, PathTypeOK
  <2> QED
    BY <1>1, <1>2, <1>22, <2>3 DEF Receive
<1>23. ASSUME NEW c \in Client, HangUp(c) PROVE Types'
  <2>1. LimitTypeOK'
    BY <1>23 DEF HangUp, LimitTypeOK
  <2> QED
    BY <1>2, <1>3, <1>23, <2>1 DEF HangUp, pathVars
<1>24. CASE UNCHANGED vars
  BY <1>1, <1>2, <1>3, <1>24 DEF vars, pathVars
<1> QED
  BY <1>4, <1>5, <1>6, <1>7, <1>8, <1>9, <1>10, <1>11, <1>12, <1>13, <1>14, <1>15, <1>16, <1>17,
     <1>18, <1>19, <1>20, <1>21, <1>22, <1>23, <1>24, <1>26, <1>27, <1>28
  DEF Next, PipelineStep, SenderStep, LoggerStep, CopierStep
-----------------------------------------------------------------------------
(* The goroutines of a chat *)

\* How far the three are, and what that says of their channels.
ChanOK(c) ==
  /\ copier[c] = "off" => sender[c] = "off" /\ logger[c] = "off"
  /\ call[c] = "waiting" => sent[c] = 0
  /\ logger[c] = "draining" => dropped[c]
  /\ logger[c] = "done" => buf[c] = <<>> /\ call[c] \notin {"asking", "waiting"}
  /\ sender[c] \in {"reporting", "done"} => logger[c] = "done"
  /\ sender[c] = "reporting" => call[c] = "failed"
  /\ copier[c] \in {"injecting", "saving", "done"} /\ ~dropped[c] => sender[c] = "done" /\ pipe[c] = <<>>
  /\ copier[c] \in {"injecting", "saving"} => held[c] # 0

ChanInv == \A c \in Client : ChanOK(c)

\* A chat that has no part in a step.
Still(c) ==
  /\ call'[c] = call[c] /\ attempt'[c] = attempt[c] /\ dropped'[c] = dropped[c]
  /\ held'[c] = held[c] /\ taken'[c] = taken[c] /\ sender'[c] = sender[c] /\ logger'[c] = logger[c]
  /\ copier'[c] = copier[c] /\ sent'[c] = sent[c]
  /\ buf'[c] = buf[c] /\ pipe'[c] = pipe[c] /\ out'[c] = out[c] /\ shown'[c] = shown[c]

ClientStep(c) ==
  \/ \E inject \in BOOLEAN : Open(c, inject)
  \/ Emit(c) \/ Stream(c) \/ StreamEnds(c) \/ Report(c)
  \/ LoggerStep(c) \/ CopierStep(c) \/ Receive(c) \/ HangUp(c)

\* A chat nothing of which has moved is as well ordered as it was.
LEMMA StillKeeps ==
  ASSUME NEW c \in Client, Still(c)
  PROVE  Kept(c) /\ (ChanOK(c) => ChanOK(c)')
  BY DEF Still, Kept, ChanOK, Going, Place, Reader, Line

\* A step of one chat moves nothing of another.
LEMMA OthersStill ==
  ASSUME Types, NEW c \in Client, ClientStep(c), NEW d \in Client \ {c}
  PROVE  Still(d)
<1> USE CallersAssumption DEF Types, LimitTypeOK, TaskTypeOK, PathTypeOK, Still
<1>1. ASSUME NEW inject \in BOOLEAN, Open(c, inject) PROVE Still(d)
  BY <1>1 DEF Open, Ask
<1>2. CASE Emit(c)
  BY <1>2 DEF Emit, limitVars, callVars
<1>3. CASE Stream(c)
  <2>1. call'[d] = call[d] /\ attempt'[d] = attempt[d] /\ dropped'[d] = dropped[d]
    BY <1>3 DEF Stream, CallStep, Succeeds, Fails, Retry, WaitCancelled, Throttled
  <2> QED
    BY <1>3, <2>1 DEF Stream
<1>4. CASE StreamEnds(c)
  BY <1>4 DEF StreamEnds, limitVars, callVars
<1>5. CASE Report(c)
  BY <1>5 DEF Report, limitVars, callVars
<1>6. CASE Forward(c) \/ Drain(c)
  BY <1>6 DEF Forward, Drain, limitVars, callVars
<1>7. CASE ForwardQuits(c) \/ LoggerEnds(c)
  BY <1>7 DEF ForwardQuits, LoggerEnds, limitVars, callVars
<1>8. CASE Deliver(c)
  BY <1>8 DEF Deliver, limitVars, callVars
<1>9. CASE DeliverQuits(c) \/ PipeEnds(c)
  BY <1>9 DEF DeliverQuits, PipeEnds, limitVars, callVars
<1>10. CASE Inject(c) \/ SaveInjected(c)
  BY <1>10 DEF Inject, SaveInjected, limitVars, callVars
<1>11. CASE Receive(c)
  BY <1>11 DEF Receive, limitVars, callVars
<1>12. CASE HangUp(c)
  BY <1>12 DEF HangUp, pathVars
<1> QED
  BY <1>1, <1>2, <1>3, <1>4, <1>5, <1>6, <1>7, <1>8, <1>9, <1>10, <1>11, <1>12
  DEF ClientStep, LoggerStep, CopierStep

\* What the pipeline does is no step of a chat.
LEMMA PipelineStill ==
  ASSUME PipelineStep \/ UNCHANGED vars, NEW c \in Client
  PROVE  Still(c)
  BY DEF PipelineStep, Create, Process, SetStatus, SaveStatus, FindWaiting, WakeParent, Return,
         Reset, vars, limitVars, callVars, pathVars, Still

\* A step of a chat keeps the order in which its goroutines end.
LEMMA ClientStepChan ==
  ASSUME Types, ChanInv, NEW c \in Client, ClientStep(c)
  PROVE  ChanOK(c)'
<1> USE CallersAssumption DEF Types, LimitTypeOK, TaskTypeOK, PathTypeOK, ChanOK
<1>0. ChanOK(c)
  BY DEF ChanInv
<1>1. ASSUME NEW inject \in BOOLEAN, Open(c, inject) PROVE ChanOK(c)'
  BY <1>0, <1>1 DEF Open, Ask
<1>2. CASE Emit(c)
  BY <1>0, <1>2 DEF Emit, limitVars, callVars
<1>3. CASE Stream(c)
  <2>1. /\ dropped'[c] = dropped[c] /\ call[c] \in {"asking", "waiting"}
        /\ call'[c] \in {"asking", "waiting", "answered", "failed"}
    BY <1>3 DEF Stream, CallStep, Succeeds, Fails, Retry, WaitCancelled, Throttled
  <2> QED
    BY <1>0, <1>3, <2>1 DEF Stream
<1>4. CASE StreamEnds(c)
  BY <1>0, <1>4 DEF StreamEnds, limitVars, callVars, Returned
<1>5. CASE Report(c)
  BY <1>0, <1>5 DEF Report, limitVars, callVars
<1>6. CASE Forward(c) \/ Drain(c)
  BY <1>0, <1>6 DEF Forward, Drain, limitVars, callVars
<1>7. CASE ForwardQuits(c) \/ LoggerEnds(c)
  BY <1>0, <1>7 DEF ForwardQuits, LoggerEnds, limitVars, callVars, Returned
<1>8. CASE Deliver(c)
  BY <1>0, <1>8 DEF Deliver, limitVars, callVars
<1>9. CASE DeliverQuits(c) \/ PipeEnds(c)
  BY <1>0, <1>9 DEF DeliverQuits, PipeEnds, limitVars, callVars
<1>10. CASE Inject(c) \/ SaveInjected(c)
  BY <1>0, <1>10 DEF Inject, SaveInjected, limitVars, callVars
<1>11. CASE Receive(c)
  BY <1>0, <1>11 DEF Receive, limitVars, callVars
<1>12. CASE HangUp(c)
  BY <1>0, <1>12 DEF HangUp, pathVars
<1> QED
  BY <1>1, <1>2, <1>3, <1>4, <1>5, <1>6, <1>7, <1>8, <1>9, <1>10, <1>11, <1>12
  DEF ClientStep, LoggerStep, CopierStep

\* What the steps of Next come to.
LEMMA NextIs ==
  ASSUME [Next]_vars
  PROVE  \/ PipelineStep \/ UNCHANGED vars
         \/ \E c \in Client : ClientStep(c)
         \/ \E c \in Client : Panic(c)
  BY DEF Next, ClientStep, SenderStep

\* Every step keeps the order in which the goroutines of all chats end.
LEMMA StepChan ==
  ASSUME Types, ChanInv, [Next]_vars
  PROVE  ChanInv'
<1>1. ASSUME NEW c \in Client, ClientStep(c) PROVE ChanInv'
  BY <1>1, OthersStill, StillKeeps, ClientStepChan DEF ChanInv
<1>2. ASSUME NEW c \in Client, Panic(c) PROVE ChanInv'
  BY <1>2, CallersAssumption DEF Panic, ChanInv, ChanOK
<1>3. ASSUME \A c \in Client : Still(c) PROVE ChanInv'
  BY <1>3, StillKeeps DEF ChanInv
<1> QED
  BY <1>1, <1>2, <1>3, NextIs, PipelineStill
-----------------------------------------------------------------------------
(* The feed *)

\* The feed the channels make is well typed.
LEMMA FeedTypes ==
  Types => /\ FeedTypeOK
           /\ \A c \in Client : /\ buf[c] \in Seq(Sendable)
                                /\ pipe[c] \in Seq(Sendable)
                                /\ out[c] \in Seq(Sendable)
<1> SUFFICES ASSUME Types
             PROVE  FeedTypeOK /\ \A c \in Client : /\ buf[c] \in Seq(Sendable)
                                                    /\ pipe[c] \in Seq(Sendable)
                                                    /\ out[c] \in Seq(Sendable)
  OBVIOUS
<1>1. ASSUME NEW c \in Client
      PROVE  /\ buf[c] \in Seq(Sendable) /\ pipe[c] \in Seq(Sendable)
             /\ out[c] \in Seq(Sendable)
  <2>1. Chunk \subseteq Sendable
    BY ChunksAreChunks DEF Item, IsChunk
  <2>2. Seq(Chunk) \subseteq Seq(Sendable)
    BY <2>1, SeqMonotonic
  <2> QED
    BY <2>2 DEF Types, PathTypeOK
<1>2. ASSUME NEW c \in Client PROVE Line(c) \in Seq(Sendable)
  BY <1>1, ConcatProperties, EmptySeq DEF Line
<1> QED
  BY <1>1, <1>2 DEF FeedTypeOK, Types, PathTypeOK

\* And so it is after a step that keeps the types.
LEMMA FeedTypesToo == Types' => FeedTypeOK'
  BY FeedTypes, PTL

\* The steps by which a line changes, one by one.
LEMMA EmitFeeds ==
  ASSUME Types, Types', ChanInv, FedInv, NEW c \in Client, Emit(c)
  PROVE  FeedStep /\ FedInv'
<1>1. ClientStep(c)
  BY DEF ClientStep
<1>2. \A d \in Client \ {c} : Kept(d)
  BY <1>1, OthersStill, StillKeeps
<1>3. /\ Going(c) = "on" /\ Going(c)' = "on" /\ Reader(c)' = Reader(c) /\ shown'[c] = shown[c]
      /\ Reader(c) \in {"reading", "left", "cut"}
  BY DEF Emit, limitVars, callVars, Going, Reader, Returned
<1>4. /\ Place(c) = <<attempt[c], sent[c]>> /\ Place(c)' = <<attempt[c], sent[c] + 1>>
      /\ Place(c)' \in Sendable /\ Place(c)' = <<Place(c)[1], Place(c)[2] + 1>>
  <2>1. attempt[c] \in Nat /\ sent[c] \in Nat
    BY CallersAssumption, SizesAssumption DEF Types, LimitTypeOK, PathTypeOK
  <2>2. Place(c) = <<attempt[c], sent[c]>> /\ Place(c)' = <<attempt[c], sent[c] + 1>>
    BY DEF Emit, limitVars, callVars, Place, Types, PathTypeOK
  <2> QED
    BY <2>1, <2>2, ChunksAreChunks DEF Chunk
<1>5. Line(c)' = IF Reader(c) = "cut" THEN Line(c) ELSE Append(Line(c), Place(c)')
  <2>1. CASE logger[c] = "draining"
    BY <2>1 DEF Emit, ChanInv, ChanOK, Line, Reader
  <2>2. CASE logger[c] # "draining"
    <3>1. Reader(c) # "cut"
      BY <2>2 DEF Emit, ChanInv, ChanOK, Reader
    <3>2. buf'[c] = Append(buf[c], Place(c)')
      BY <1>4 DEF Emit, Types, PathTypeOK
    <3> DEFINE ahead == out[c] \o pipe[c]
               last  == buf[c]
               next  == Place(c)'
    <3>3. ahead \in Seq(Sendable) /\ last \in Seq(Sendable) /\ next \in Sendable
      BY <1>4, FeedTypes, ConcatProperties
    <3>4. Line(c) = ahead \o last /\ Line(c)' = ahead \o Append(last, next)
      BY <2>2, <3>2 DEF Emit, Line
    <3> HIDE DEF ahead, last, next
    <3>5. ahead \o Append(last, next) = Append(ahead \o last, next)
      BY <3>3, AppendMoves
    <3> QED
      BY <3>1, <3>4, <3>5 DEF next
  <2> QED
    BY <2>1, <2>2
<1> QED
  BY <1>2, <1>3, <1>4, <1>5, FeedTypes, FeedTypesToo, SendFeeds

\* A step of the call: it sends nothing, but may end the answer or start it over.
LEMMA StreamFeeds ==
  ASSUME Types, Types', ChanInv, FedInv, NEW c \in Client, Stream(c)
  PROVE  FeedStep /\ FedInv'
<1>1. ClientStep(c)
  BY DEF ClientStep
<1>2. \A d \in Client \ {c} : Kept(d)
  BY <1>1, OthersStill, StillKeeps
<1>3. /\ Reader(c)' = Reader(c) /\ Line(c)' = Line(c) /\ shown'[c] = shown[c] /\ Going(c) = "on"
  <2>1. dropped'[c] = dropped[c] /\ call[c] \in {"asking", "waiting"}
    BY DEF Stream, CallStep, Succeeds, Fails, Retry, WaitCancelled, Throttled
  <2> QED
    BY <2>1 DEF Stream, Reader, Line, Going, Returned
<1>4. \/ Going(c)' = "on" /\ Place(c)' \in {Place(c), <<Place(c)[1] + 1, 0>>}
      \/ Going(c)' = "answered" /\ Place(c)' = Place(c)
      \/ Going(c)' = "failed" /\ Place(c)' = <<0, 0>>
  <2> USE CallersAssumption DEF Types, LimitTypeOK, PathTypeOK, Going, Place, Returned
  <2>1. CASE Succeeds(c)
    BY <2>1 DEF Stream, Succeeds
  <2>2. CASE Fails(c) \/ WaitCancelled(c)
    BY <2>2 DEF Stream, Fails, WaitCancelled
  <2>3. ASSUME NEW d \in 1..LongestWait, Throttled(c, d)
        PROVE  Going(c)' = "on" /\ Place(c)' = <<Place(c)[1] + 1, 0>>
    BY <2>3 DEF Stream, Throttled
  <2>4. CASE Retry(c)
    <3>1. sent[c] = 0
      BY <2>4 DEF ChanInv, ChanOK, Retry
    <3> QED
      BY <2>4, <3>1 DEF Stream, Retry
  <2> QED
    BY <2>1, <2>2, <2>3, <2>4 DEF Stream, CallStep
<1> QED
  BY <1>2, <1>3, <1>4, FeedTypes, FeedTypesToo, CallStepFeeds

\* The error goes into out, past what is in pipe and buf.
LEMMA ReportIsFed ==
  ASSUME Types, Types', ChanInv, FedInv, NEW c \in Client, Report(c)
  PROVE  FeedStep /\ FedInv'
<1> DEFINE rest == IF logger[c] = "draining" THEN <<>> ELSE buf[c]
<1>1. ClientStep(c)
  BY DEF ClientStep
<1>2. \A d \in Client \ {c} : Kept(d)
  BY <1>1, OthersStill, StillKeeps
<1>3. /\ Going(c) = "failed" /\ Going(c)' = "failed" /\ Place(c)' = Place(c)
      /\ Reader(c)' = Reader(c) /\ shown'[c] = shown[c]
  BY DEF Report, limitVars, callVars, Going, Place, Reader, Returned, ChanInv, ChanOK
<1>4. CASE Len(out[c]) < ChanCap
  <2> DEFINE first == out[c]
             mid   == pipe[c]
  <2>1. first \in Seq(Sendable) /\ mid \in Seq(Sendable) /\ rest \in Seq(Sendable)
    BY FeedTypes, EmptySeq
  <2>2. out'[c] = Append(out[c], Error)
    BY <1>4 DEF Report, Types, PathTypeOK
  <2>3. Line(c) = (first \o mid) \o rest /\ Line(c)' = (Append(first, Error) \o mid) \o rest
    BY <2>2 DEF Report, Line
  <2> HIDE DEF first, mid, rest
  <2>4. mid \o rest \in Seq(Sendable) /\ Append(first, Error) \in Seq(Sendable)
    BY <2>1, ChunksAreChunks, ConcatProperties, AppendProperties
  <2>5. first \o (mid \o rest) = (first \o mid) \o rest
    BY <2>1, Associates
  <2> DEFINE reported == Append(first, Error)
  <2> HIDE DEF reported
  <2>6. reported \o (mid \o rest) = (reported \o mid) \o rest
    <3>1. reported \in Seq(Sendable)
      BY <2>4 DEF reported
    <3> QED
      BY <2>1, <3>1, Associates
  <2>7. Line(c) = first \o (mid \o rest) /\ Line(c)' = Append(first, Error) \o (mid \o rest)
    BY <2>3, <2>5, <2>6 DEF reported
  <2> QED
    BY <1>2, <1>3, <2>1, <2>4, <2>7, FeedTypes, FeedTypesToo, ReportFeeds
<1>5. CASE ~(Len(out[c]) < ChanCap)
  <2>1. Line(c)' = Line(c)
    BY <1>5 DEF Report, Line, Types, PathTypeOK
  <2>2. \A d \in Client : Kept(d)
    BY <1>2, <1>3, <2>1 DEF Kept
  <2> QED
    BY <2>2, FeedTypes, FeedTypesToo, KeptFeeds
<1> QED
  BY <1>4, <1>5

\* The client takes the head of out.
LEMMA ReceiveIsFed ==
  ASSUME Types, Types', FedInv, NEW c \in Client, Receive(c)
  PROVE  FeedStep /\ FedInv'
<1> DEFINE rest == IF logger[c] = "draining" THEN <<>> ELSE buf[c]
<1>1. ClientStep(c)
  BY DEF ClientStep
<1>2. \A d \in Client \ {c} : Kept(d)
  BY <1>1, OthersStill, StillKeeps
<1>3. Going(c)' = Going(c) /\ Place(c)' = Place(c) /\ Reader(c)' = Reader(c)
  BY DEF Receive, limitVars, callVars, Going, Place, Reader, Returned
<1> DEFINE first == out[c]
           mid   == pipe[c]
<1>4. /\ first \in Seq(Sendable) /\ mid \in Seq(Sendable) /\ rest \in Seq(Sendable)
      /\ first # <<>> /\ Tail(first) \in Seq(Sendable)
  BY FeedTypes, EmptySeq, HeadTailProperties DEF Receive
<1>5. /\ shown'[c] = Head(first)
      /\ Line(c) = (first \o mid) \o rest /\ Line(c)' = (Tail(first) \o mid) \o rest
  BY DEF Receive, Line, Types, PathTypeOK
<1> HIDE DEF first, mid, rest
<1>6. first \o (mid \o rest) = (first \o mid) \o rest /\ mid \o rest \in Seq(Sendable)
  BY <1>4, Associates, ConcatProperties
<1>7. Tail(first) \o (mid \o rest) = (Tail(first) \o mid) \o rest
  <2> DEFINE left == Tail(first)
  <2>1. left \in Seq(Sendable)
    BY <1>4
  <2> HIDE DEF left
  <2>2. left \o (mid \o rest) = (left \o mid) \o rest
    BY <1>4, <2>1, Associates
  <2> QED
    BY <2>2 DEF left
<1>8. Line(c) # <<>> /\ Head(Line(c)) = Head(first) /\ Line(c)' = Tail(Line(c))
  <2> DEFINE behind == mid \o rest
  <2>1. behind \in Seq(Sendable) /\ Line(c) = first \o behind /\ Line(c)' = Tail(first) \o behind
    BY <1>5, <1>6, <1>7
  <2> HIDE DEF behind
  <2> QED
    BY <1>4, <2>1, TailMoves
<1> QED
  BY <1>2, <1>3, <1>5, <1>8, FeedTypes, FeedTypesToo, ReceiveFeeds

\* The logger moves a chunk on, or cuts the line short when its client is gone.
LEMMA LoggerFeeds ==
  ASSUME Types, Types', ChanInv, FedInv, NEW c \in Client, LoggerStep(c)
  PROVE  FeedStep /\ FedInv'
<1>1. ClientStep(c)
  BY DEF ClientStep
<1>2. \A d \in Client \ {c} : Kept(d)
  BY <1>1, OthersStill, StillKeeps
<1>3. Going(c)' = Going(c) /\ Place(c)' = Place(c) /\ shown'[c] = shown[c]
  BY DEF LoggerStep, Forward, ForwardQuits, Drain, LoggerEnds, limitVars, callVars, Going, Place,
         Returned
<1>4. /\ buf[c] \in Seq(Sendable) /\ pipe[c] \in Seq(Sendable)
      /\ out[c] \in Seq(Sendable) /\ out[c] \o pipe[c] \in Seq(Sendable)
  BY FeedTypes, ConcatProperties
<1>5. ASSUME Reader(c)' = Reader(c), Line(c)' = Line(c) PROVE FeedStep /\ FedInv'
  <2>1. \A d \in Client : Kept(d)
    BY <1>2, <1>3, <1>5 DEF Kept
  <2> QED
    BY <2>1, FeedTypes, FeedTypesToo, KeptFeeds
<1>6. CASE Forward(c)
  <2> DEFINE first == out[c]
             mid   == pipe[c]
             last  == buf[c]
  <2>1. first \in Seq(Sendable) /\ mid \in Seq(Sendable) /\ last \in Seq(Sendable) /\ last # <<>>
    BY <1>4, <1>6 DEF Forward
  <2>2. /\ Line(c) = (first \o mid) \o last
        /\ Line(c)' = (first \o Append(mid, Head(last))) \o Tail(last)
    BY <1>6 DEF Forward, Line, Types, PathTypeOK
  <2> HIDE DEF first, mid, last
  <2>3. Append(mid, Head(last)) \in Seq(Sendable) /\ Tail(last) \in Seq(Sendable)
    BY <2>1, HeadTailProperties, AppendProperties
  <2>4. first \o (Append(mid, Head(last)) \o Tail(last))
          = (first \o Append(mid, Head(last))) \o Tail(last)
    <3> DEFINE longer  == Append(mid, Head(last))
               shorter == Tail(last)
    <3>1. longer \in Seq(Sendable) /\ shorter \in Seq(Sendable)
      BY <2>3
    <3> HIDE DEF longer, shorter
    <3>2. first \o (longer \o shorter) = (first \o longer) \o shorter
      BY <2>1, <3>1, Associates
    <3> QED
      BY <3>2 DEF longer, shorter
  <2>5. first \o (mid \o last) = (first \o mid) \o last
    BY <2>1, Associates
  <2>6. Line(c)' = Line(c)
    BY <2>1, <2>2, <2>4, <2>5, HeadMoves
  <2>7. Reader(c)' = Reader(c)
    BY <1>6 DEF Forward, limitVars, callVars, Reader
  <2> QED
    BY <1>5, <2>6, <2>7
<1>7. CASE ForwardQuits(c)
  <2>1. Reader(c) = "left" /\ Reader(c)' = "cut"
    BY <1>7 DEF ForwardQuits, limitVars, callVars, Reader, Types, PathTypeOK
  <2> DEFINE ahead == out[c] \o pipe[c]
             last  == buf[c]
  <2>2. /\ ahead \in Seq(Sendable) /\ last \in Seq(Sendable)
        /\ Line(c) = ahead \o last /\ Line(c)' = ahead \o <<>>
    BY <1>4, <1>7 DEF ForwardQuits, Line, Types, PathTypeOK
  <2> HIDE DEF ahead, last
  <2>3. Len(ahead) \in 0..Len(Line(c)) /\ Line(c)' = SubSeq(Line(c), 1, Len(ahead))
    BY <2>2, CutBehind
  <2> QED
    BY <1>2, <1>3, <2>1, <2>3, FeedTypes, FeedTypesToo, CutFeeds
<1>8. CASE Drain(c)
  <2>1. Reader(c)' = Reader(c) /\ Line(c)' = Line(c)
    BY <1>8 DEF Drain, limitVars, callVars, Reader, Line
  <2> QED
    BY <1>5, <2>1
<1>9. CASE LoggerEnds(c)
  <2>1. Line(c)' = Line(c)
    BY <1>9 DEF LoggerEnds, Line, Types, PathTypeOK
  <2>2. CASE logger[c] = "on" /\ dropped[c]
    <3>1. Reader(c) = "left" /\ Reader(c)' = "cut"
      BY <1>9, <2>2 DEF LoggerEnds, limitVars, callVars, Reader, Types, PathTypeOK
    <3>2. Line(c) \in Seq(Sendable)
      BY FeedTypes DEF FeedTypeOK
    <3>3. Len(Line(c)) \in 0..Len(Line(c)) /\ SubSeq(Line(c), 1, Len(Line(c))) = Line(c)
      BY <3>2
    <3>4. Line(c)' = SubSeq(Line(c), 1, Len(Line(c)))
      BY <2>1, <3>3
    <3> QED
      BY <1>2, <1>3, <3>1, <3>3, <3>4, FeedTypes, FeedTypesToo, CutFeeds
  <2>3. CASE ~(logger[c] = "on" /\ dropped[c])
    <3>1. Reader(c)' = Reader(c)
      BY <1>9, <2>3 DEF LoggerEnds, limitVars, callVars, Reader, Types, PathTypeOK
    <3> QED
      BY <1>5, <2>1, <3>1
  <2> QED
    BY <2>2, <2>3
<1> QED
  BY <1>6, <1>7, <1>8, <1>9 DEF LoggerStep

\* The copier moves a chunk on, cuts the line short, or ends.
LEMMA CopierFeeds ==
  ASSUME Types, Types', FedInv, NEW c \in Client, CopierStep(c)
  PROVE  FeedStep /\ FedInv'
<1>1. ClientStep(c)
  BY DEF ClientStep
<1>2. \A d \in Client \ {c} : Kept(d)
  BY <1>1, OthersStill, StillKeeps
<1>3. Going(c)' = Going(c) /\ Place(c)' = Place(c) /\ Reader(c)' = Reader(c) /\ shown'[c] = shown[c]
  BY DEF CopierStep, Deliver, DeliverQuits, PipeEnds, Inject, SaveInjected, limitVars, callVars,
         Going, Place, Reader, Returned
<1>4. Line(c)' = Line(c)
  <2>1. CASE Deliver(c)
    <3> DEFINE first == out[c]
               mid   == pipe[c]
               rest  == IF logger[c] = "draining" THEN <<>> ELSE buf[c]
    <3>1. first \in Seq(Sendable) /\ mid \in Seq(Sendable) /\ mid # <<>>
      BY <2>1, FeedTypes DEF Deliver
    <3>2. /\ Line(c) = (first \o mid) \o rest
          /\ Line(c)' = (Append(first, Head(mid)) \o Tail(mid)) \o rest
      BY <2>1 DEF Deliver, Line, Types, PathTypeOK
    <3> HIDE DEF first, mid, rest
    <3> QED
      BY <3>1, <3>2, HeadMoves
  <2>2. CASE ~Deliver(c)
    BY <2>2 DEF CopierStep, DeliverQuits, PipeEnds, Inject, SaveInjected, Line
  <2> QED
    BY <2>1, <2>2
<1>5. \A d \in Client : Kept(d)
  BY <1>2, <1>3, <1>4 DEF Kept
<1> QED
  BY <1>5, FeedTypes, FeedTypesToo, KeptFeeds

\* The client leaves; its line is cut at once where a goroutine had ended before.
LEMMA HangUpFeeds ==
  ASSUME Types, Types', FedInv, NEW c \in Client, HangUp(c)
  PROVE  FeedStep /\ FedInv'
<1>1. ClientStep(c)
  BY DEF ClientStep
<1>2. \A d \in Client \ {c} : Kept(d)
  BY <1>1, OthersStill, StillKeeps
<1>3. Going(c)' = Going(c) /\ Place(c)' = Place(c) /\ Line(c)' = Line(c) /\ shown'[c] = shown[c]
  BY DEF HangUp, pathVars, Going, Place, Line, Returned
<1>4. Reader(c) = "reading" /\ Reader(c)' \in {"left", "cut"}
  BY CallersAssumption DEF HangUp, Reader, Types, LimitTypeOK
<1> QED
  BY <1>2, <1>3, <1>4, FeedTypes, FeedTypesToo, LeaveFeeds

\* A chat begins, and its sender ends.
LEMMA EndsFeed ==
  ASSUME Types, Types', ChanInv, FedInv, NEW c \in Client,
         (\E inject \in BOOLEAN : Open(c, inject)) \/ StreamEnds(c)
  PROVE  FeedStep /\ FedInv'
<1>1. ClientStep(c)
  BY DEF ClientStep
<1>2. \A d \in Client \ {c} : Kept(d)
  BY <1>1, OthersStill, StillKeeps
<1>3. ASSUME NEW inject \in BOOLEAN, Open(c, inject) PROVE Kept(c)
  <2>1. /\ call[c] = "idle" /\ call'[c] = "asking" /\ attempt' = attempt /\ dropped' = dropped
        /\ logger[c] = "off" /\ logger'[c] = "on"
        /\ UNCHANGED <<sent, buf, pipe, out, shown>>
    BY <1>3, CallersAssumption
    DEF Open, Ask, ChanInv, ChanOK, Types, LimitTypeOK, PathTypeOK
  <2>2. Going(c)' = Going(c) /\ Place(c)' = Place(c)
    BY <2>1 DEF Going, Place, Returned
  <2>3. Reader(c)' = Reader(c) /\ Line(c)' = Line(c)
    BY <2>1 DEF Reader, Line
  <2> QED
    BY <2>1, <2>2, <2>3 DEF Kept
<1>4. ASSUME StreamEnds(c) PROVE Kept(c)
  <2>1. UNCHANGED <<call, attempt, dropped, logger, sent, buf, pipe, out, shown>>
    BY <1>4 DEF StreamEnds, limitVars, callVars
  <2>2. Going(c)' = Going(c) /\ Place(c)' = Place(c)
    BY <2>1 DEF Going, Place, Returned
  <2>3. Reader(c)' = Reader(c) /\ Line(c)' = Line(c)
    BY <2>1 DEF Reader, Line
  <2> QED
    BY <2>1, <2>2, <2>3 DEF Kept
<1>5. Kept(c)
  BY <1>3, <1>4
<1>6. \A d \in Client : Kept(d)
  BY <1>2, <1>5
<1> QED
  BY <1>6, FeedTypes, FeedTypesToo, KeptFeeds

\* A feed that has not begun.
LEMMA FedAtFirst == Fed(<<Nothing>> \o <<>>, "on", <<0, 0>>, "reading")
<1>1. <<Nothing>> \o <<>> = <<Nothing>> /\ <<Nothing>> \in Seq(Item) /\ <<0, 0>> \in Chunk
  BY DEF Item, Chunk
<1>2. InSequence(<<Nothing>>)
  BY DEF InSequence
<1>3. EndsAt(Nothing, <<0, 0>>) /\ Nothing # Error
  BY ChunksAreChunks DEF EndsAt
<1> QED
  BY <1>1, <1>2, <1>3 DEF Fed

\* A panic ends all feeds.
LEMMA PanicFeeds ==
  ASSUME Types, Types', NEW c \in Client, Panic(c)
  PROVE  FeedStep /\ FedInv'
<1>1. \A d \in Client :
        /\ Going(d)' = "on" /\ Place(d)' = <<0, 0>> /\ Reader(d)' = "reading"
        /\ Line(d)' = <<>> /\ shown'[d] = Nothing
  <2>1. <<>> \o <<>> \o <<>> = <<>>
    OBVIOUS
  <2> QED
    BY <2>1, CallersAssumption DEF Panic, Going, Place, Reader, Line, Returned, Nothing
<1>2. shown' = [d \in Client |-> Nothing]
  BY DEF Panic, Nothing
<1>3. Feed!Die
  BY <1>1, <1>2 DEF Feed!Die
<1>4. FedInv'
  BY <1>1, FedAtFirst DEF FedInv
<1> QED
  BY <1>3, <1>4 DEF FeedStep, Feed!Next

\* Every step of Chat is a step of the feed, or none of it.
LEMMA StepFeeds ==
  ASSUME Types, Types', ChanInv, FedInv, [Next]_vars
  PROVE  FeedStep /\ FedInv'
<1>1. ASSUME NEW c \in Client, ClientStep(c) PROVE FeedStep /\ FedInv'
  BY <1>1, EmitFeeds, StreamFeeds, ReportIsFed, ReceiveIsFed, LoggerFeeds, CopierFeeds,
     HangUpFeeds, EndsFeed DEF ClientStep
<1>2. ASSUME \A c \in Client : Still(c) PROVE FeedStep /\ FedInv'
  <2>1. \A c \in Client : Kept(c)
    BY <1>2, StillKeeps
  <2> QED
    BY <2>1, FeedTypes, FeedTypesToo, KeptFeeds
<1> QED
  BY <1>1, <1>2, NextIs, PipelineStill, PanicFeeds

-----------------------------------------------------------------------------
(* What a chat injects into *)

\* The row of the task of copy h is as it is in memory, or there is a reason.
InStep(h) ==
  \/ row[copy[h].of] = copy[h].status \/ row[copy[h].of] = "absent"
  \/ ~copy[h].saved \/ Later(h) \/ PutBack(h)

\* The active task is the last fetched but for the parent it wakes, which no chat finds.
CopyInv ==
  /\ WorkHasTask
  /\ active # 0 => ~Later(active) /\ row[copy[active].of] # "absent" /\ InStep(active)
  /\ work = "waking" => copy[Len(copy)].status = "pending" /\ copy[Len(copy)].of # copy[active].of
  /\ \A k \in 1..Len(copy) : copy[k].status # "absent"
  /\ \A c \in Client : Holds(c) => InStep(held[c])
  /\ \A c \in Client : copier[c] = "saving" => taken[c] # "absent"

\* A copy stays one of its task, and a chat that has ended has.
GoesOn ==
  /\ Len(copy) <= Len(copy') /\ \A k \in 1..Len(copy) : copy'[k].of = copy[k].of
  /\ \A d \in Client : copier[d] = "done" =>
       copier'[d] = "done" /\ held'[d] = held[d] /\ taken'[d] = taken[d]

\* A later fetch, and a chat that has put something else back, stay what they are.
LEMMA ReasonsStay ==
  ASSUME Types, Types', GoesOn, NEW h \in 1..Len(copy)
  PROVE  /\ Later(h) => Later(h)'
         /\ PutBack(h) /\ copy'[h].status = copy[h].status => PutBack(h)'
<1>1. Len(copy) \in Nat /\ Len(copy') \in Nat
  BY LenProperties DEF Types, TaskTypeOK
<1>2. Later(h) => Later(h)'
  BY <1>1 DEF Later, GoesOn
<1>3. ASSUME PutBack(h), copy'[h].status = copy[h].status PROVE PutBack(h)'
  <2>1. PICK d \in Client : /\ copier[d] = "done" /\ held[d] \in 1..h
                            /\ copy[held[d]].of = copy[h].of
                            /\ held[d] < h \/ taken[d] # copy[h].status
    BY <1>3 DEF PutBack
  <2>2. held[d] \in 1..Len(copy)
    BY <1>1, <2>1
  <2> QED
    BY <1>3, <2>1, <2>2 DEF GoesOn, PutBack
<1> QED
  BY <1>2, <1>3

\* A copy that is not touched, of a task whose row is not, stays in step.
LEMMA StaysInStep ==
  ASSUME Types, Types', GoesOn, NEW h \in 1..Len(copy), InStep(h), copy'[h] = copy[h],
         row'[copy[h].of] = row[copy[h].of]
  PROVE  InStep(h)'
  BY ReasonsStay DEF InStep

\* The steps that leave the tasks in memory and the table alone.
LEMMA SameTasks ==
  ASSUME Types, Types', CopyInv, UNCHANGED taskVars,
         \A d \in Client : /\ copier[d] = "done" =>
                                copier'[d] = "done" /\ held'[d] = held[d] /\ taken'[d] = taken[d]
                           /\ Holds(d)' => (Holds(d) /\ held'[d] = held[d]) \/ held'[d] = active
                           /\ copier'[d] = "saving" => taken'[d] # "absent"
  PROVE  CopyInv'
<1>1. GoesOn
  <2>1. Len(copy) \in Nat
    BY LenProperties DEF Types, TaskTypeOK
  <2> QED
    BY <2>1 DEF GoesOn, taskVars
<1>2. ASSUME NEW h \in 1..Len(copy), InStep(h) PROVE InStep(h)'
  BY <1>1, <1>2, StaysInStep DEF taskVars
<1>3. ASSUME NEW h \in 0..Len(copy), h # 0 PROVE h \in 1..Len(copy)
  BY <1>3, CopyIsOK DEF Types
<1>4. active # 0 => InStep(active)'
  BY <1>2, <1>3 DEF CopyInv, Types, TaskTypeOK, taskVars
<1>5. ASSUME NEW d \in Client, Holds(d)' PROVE (InStep(held[d]))'
  <2>1. held'[d] # 0 /\ held'[d] \in 0..Len(copy)
    BY <1>5 DEF Holds, Types, TaskTypeOK, taskVars
  <2>2. CASE held'[d] = active
    BY <1>4, <2>1, <2>2 DEF taskVars
  <2>3. CASE Holds(d) /\ held'[d] = held[d]
    BY <1>2, <1>3, <2>1, <2>3 DEF CopyInv
  <2> QED
    BY <1>5, <2>2, <2>3
<1>6. active # 0 => ~Later(active)' /\ row'[copy'[active].of] # "absent"
  BY DEF CopyInv, Later, taskVars
<1> QED
  BY <1>4, <1>5, <1>6 DEF CopyInv, WorkHasTask, taskVars

\* A fetch of a task that is not the active one: all earlier fetches of it are behind.
LEMMA Fetched ==
  ASSUME Types, Types', CopyInv, NEW new \in Copy, copy' = Append(copy, new),
         new.status = "pending", UNCHANGED <<row, held, taken, copier>>
  PROVE  /\ GoesOn /\ Len(copy) \in Nat /\ Len(copy') = Len(copy) + 1
         /\ copy'[Len(copy) + 1] = new /\ \A k \in 1..Len(copy) : copy'[k] = copy[k]
         /\ \A k \in 1..Len(copy') : copy'[k].status # "absent"
         /\ \A h \in 1..Len(copy) : InStep(h) => InStep(h)'
         /\ \A d \in Client : Holds(d)' => (InStep(held[d]))'
<1>1. /\ Len(copy) \in Nat /\ Len(copy') = Len(copy) + 1 /\ copy'[Len(copy) + 1] = new
      /\ \A k \in 1..Len(copy) : copy'[k] = copy[k]
  BY LenProperties, AppendProperties DEF Types, TaskTypeOK
<1>2. GoesOn
  BY <1>1 DEF GoesOn
<1>3. \A k \in 1..Len(copy') : copy'[k].status # "absent"
  BY <1>1 DEF CopyInv
<1>4. \A h \in 1..Len(copy) : InStep(h) => InStep(h)'
  BY <1>1, <1>2, StaysInStep
<1>5. ASSUME NEW d \in Client, Holds(d)' PROVE (InStep(held[d]))'
  <2>1. Holds(d) /\ held'[d] = held[d] /\ held[d] \in 1..Len(copy)
    BY <1>1, <1>5 DEF Holds, Types, TaskTypeOK
  <2> QED
    BY <1>4, <2>1 DEF CopyInv
<1> QED
  BY <1>1, <1>2, <1>3, <1>4, <1>5

\* Every step keeps the row of a task in hand what its last fetch says, or has a reason.
LEMMA StepCopy ==
  ASSUME Types, Types', ChanInv, CopyInv, [Next]_vars
  PROVE  CopyInv'
<1>0. Len(copy) \in Nat /\ Len(copy') \in Nat
  BY LenProperties DEF Types, TaskTypeOK
<1>1. ASSUME NEW h \in 0..Len(copy), h # 0
      PROVE  /\ h \in 1..Len(copy) /\ copy[h].of \in Task /\ copy[h].status \in Status
  BY <1>1, CopyIsOK DEF Types
<1>2. ASSUME NEW t \in Task, Create(t) PROVE CopyInv'
  <2>1. /\ UNCHANGED <<copy, active, work, held, taken, copier>> /\ row[t] = "absent"
        /\ \A u \in Task \ {t} : row'[u] = row[u]
    BY <1>2 DEF Create, pathVars, Types, TaskTypeOK
  <2>2. GoesOn
    BY <1>0, <2>1 DEF GoesOn
  <2>3. ASSUME NEW h \in 1..Len(copy), InStep(h), copy[h].of # t PROVE InStep(h)'
    BY <1>1, <2>1, <2>2, <2>3, StaysInStep
  <2>4. ASSUME NEW d \in Client, Holds(d) PROVE held[d] \in 1..Len(copy) /\ copy[held[d]].of # t
    BY <1>1, <1>2, <2>4 DEF Holds, Create, Types, TaskTypeOK
  <2>5. active # 0 => active \in 1..Len(copy) /\ copy[active].of \in Task \ {t}
    BY <1>1, <2>1 DEF CopyInv, Types, TaskTypeOK
  <2>6. active # 0 => (~Later(active) /\ row[copy[active].of] # "absent" /\ InStep(active))'
    BY <2>1, <2>3, <2>5 DEF CopyInv, Later
  <2>7. ASSUME NEW d \in Client, Holds(d)' PROVE (InStep(held[d]))'
    BY <2>1, <2>3, <2>4, <2>7 DEF Holds, CopyInv
  <2> QED
    BY <2>1, <2>6, <2>7 DEF CopyInv, WorkHasTask
<1>3. ASSUME NEW t \in Task, Process(t) PROVE CopyInv'
  <2> DEFINE new == [of |-> t, status |-> "pending", saved |-> TRUE]
  <2>1. new \in Copy /\ new.status = "pending" /\ new.of = t
    BY DEF Copy, Status
  <2>2. /\ copy' = Append(copy, new) /\ active' = Len(copy') /\ work' = "deciding"
        /\ row[t] = "pending" /\ UNCHANGED <<row, held, taken, copier>>
    BY <1>3 DEF Process, pathVars
  <2>3. /\ Len(copy') = Len(copy) + 1 /\ copy'[active'] = new
        /\ \A k \in 1..Len(copy') : copy'[k].status # "absent"
        /\ \A d \in Client : Holds(d)' => (InStep(held[d]))'
    BY <2>1, <2>2, Fetched
  <2>4. ~Later(active)' /\ InStep(active)' /\ row'[copy'[active'].of] # "absent"
    BY <1>0, <2>1, <2>2, <2>3 DEF InStep, Later
  <2> QED
    BY <1>0, <2>1, <2>2, <2>3, <2>4 DEF CopyInv, WorkHasTask
<1>4. ASSUME NEW t \in Task, FindWaiting(t) PROVE CopyInv'
  <2> DEFINE new == [of |-> t, status |-> "pending", saved |-> FALSE]
  <2>1. new \in Copy /\ new.status = "pending" /\ new.of = t
    BY DEF Copy, Status
  <2>2. /\ copy' = Append(copy, new) /\ active' = active /\ work' = "waking" /\ work = "closing"
        /\ copy[active].of # t /\ UNCHANGED <<row, held, taken, copier>>
    BY <1>4 DEF FindWaiting, pathVars
  <2>3. active # 0 /\ active \in 1..Len(copy)
    BY <1>1, <2>2 DEF CopyInv, WorkHasTask, Types, TaskTypeOK
  <2>4. /\ Len(copy') = Len(copy) + 1 /\ copy'[Len(copy')] = new
        /\ \A k \in 1..Len(copy) : copy'[k] = copy[k]
        /\ \A k \in 1..Len(copy') : copy'[k].status # "absent"
        /\ InStep(active) => InStep(active)'
        /\ \A d \in Client : Holds(d)' => (InStep(held[d]))'
    BY <2>1, <2>2, <2>3, Fetched
  <2>5. ~Later(active)'
    BY <1>0, <2>1, <2>2, <2>3, <2>4 DEF Later, CopyInv
  <2>6. InStep(active)' /\ row'[copy'[active'].of] # "absent" /\ copy'[active'].of # t
    BY <2>2, <2>3, <2>4 DEF CopyInv
  <2> QED
    BY <2>1, <2>2, <2>3, <2>4, <2>5, <2>6 DEF CopyInv, WorkHasTask
<1>5. ASSUME NEW status \in Status, SetStatus(status) PROVE CopyInv'
  <2>1. active \in 1..Len(copy) /\ active # 0 /\ status # "absent"
    BY <1>1, <1>5 DEF SetStatus, Following, CopyInv, WorkHasTask, Types, TaskTypeOK
  <2>2. /\ Len(copy') = Len(copy) /\ \A k \in 1..Len(copy) : copy'[k].of = copy[k].of
        /\ copy'[active].status = status /\ copy'[active].saved = FALSE
        /\ \A k \in 1..Len(copy) : k # active => copy'[k] = copy[k]
    <3>1. copy[active] \in Copy /\ copy \in Seq(Copy)
      BY <2>1, CopyIsOK DEF Types, TaskTypeOK
    <3> QED
      BY <1>5, <2>1, <3>1 DEF SetStatus, Copy
  <2>3. UNCHANGED <<row, active, held, taken, copier>> /\ work' = "saving"
    BY <1>5 DEF SetStatus, pathVars
  <2>4. GoesOn
    BY <1>0, <2>2, <2>3 DEF GoesOn
  <2>5. ASSUME NEW h \in 1..Len(copy), InStep(h) PROVE InStep(h)'
    <3>1. CASE h = active
      BY <2>2, <2>3, <3>1 DEF InStep
    <3>2. CASE h # active
      BY <2>2, <2>3, <2>4, <2>5, <3>2, StaysInStep
    <3> QED
      BY <3>1, <3>2
  <2>6. (~Later(active) /\ row[copy[active].of] # "absent" /\ InStep(active))'
    BY <2>1, <2>2, <2>3, <2>5 DEF CopyInv, Later
  <2>7. ASSUME NEW d \in Client, Holds(d)' PROVE (InStep(held[d]))'
    BY <1>1, <2>3, <2>5, <2>7 DEF Holds, CopyInv, Types, TaskTypeOK
  <2>8. \A k \in 1..Len(copy') : copy'[k].status # "absent"
    BY <2>1, <2>2 DEF CopyInv
  <2> QED
    BY <2>1, <2>3, <2>6, <2>7, <2>8 DEF CopyInv, WorkHasTask
<1>6. ASSUME NEW h \in 1..Len(copy), copy[h].status # "absent", ~Later(h),
             row' = [row EXCEPT ![copy[h].of] = copy[h].status],
             copy' = [copy EXCEPT ![h].saved = TRUE],
             UNCHANGED <<active, held, taken, copier>>, work' # "waking",
             work # "none" /\ work' # "none"
      PROVE  CopyInv'
  <2>1. copy[h] \in Copy /\ copy \in Seq(Copy) /\ copy[h].of \in Task
    BY <1>0, CopyIsOK DEF Types, TaskTypeOK
  <2>2. /\ Len(copy') = Len(copy)
        /\ \A k \in 1..Len(copy) : copy'[k].of = copy[k].of /\ copy'[k].status = copy[k].status
        /\ copy'[h].saved = TRUE /\ \A k \in 1..Len(copy) : k # h => copy'[k] = copy[k]
    BY <1>6, <2>1 DEF Copy
  <2>3. /\ row'[copy[h].of] = copy[h].status
        /\ \A u \in Task \ {copy[h].of} : row'[u] = row[u]
    BY <1>6, <2>1 DEF Types, TaskTypeOK
  <2>4. GoesOn
    BY <1>0, <1>6, <2>2 DEF GoesOn
  <2>5. ASSUME NEW k \in 1..Len(copy), InStep(k) PROVE InStep(k)'
    <3>1. CASE k = h
      BY <2>2, <2>3, <3>1 DEF InStep
    <3>2. CASE k # h /\ copy[k].of = copy[h].of
      <4>1. k < h
        BY <1>0, <1>6, <3>2 DEF Later
      <4>2. h \in k + 1..Len(copy') /\ copy'[h].of = copy'[k].of
        BY <1>0, <2>2, <3>2, <4>1
      <4> QED
        BY <4>2 DEF InStep, Later
    <3>3. CASE k # h /\ copy[k].of # copy[h].of
      BY <1>0, <1>1, <2>2, <2>3, <2>4, <2>5, <3>3, StaysInStep
    <3> QED
      BY <3>1, <3>2, <3>3
  <2>6. active # 0 => (~Later(active) /\ row[copy[active].of] # "absent" /\ InStep(active))'
    <3>1. CASE active # 0
      <4>1. active \in 1..Len(copy) /\ copy[active].of \in Task
        BY <1>1, <3>1 DEF Types, TaskTypeOK
      <4>2. ~Later(active)' /\ InStep(active)'
        BY <1>6, <2>2, <2>5, <3>1, <4>1 DEF CopyInv, Later
      <4>3. row'[copy[active].of] # "absent"
        BY <1>6, <2>3, <3>1, <4>1 DEF CopyInv
      <4> QED
        BY <1>6, <2>2, <4>1, <4>2, <4>3
    <3> QED
      BY <1>6, <3>1
  <2>7. ASSUME NEW d \in Client, Holds(d)' PROVE (InStep(held[d]))'
    BY <1>1, <1>6, <2>5, <2>7 DEF Holds, CopyInv, Types, TaskTypeOK
  <2>8. \A k \in 1..Len(copy') : copy'[k].status # "absent"
    BY <2>2 DEF CopyInv
  <2> QED
    BY <1>6, <2>6, <2>7, <2>8 DEF CopyInv, WorkHasTask
<1>7. ASSUME UNCHANGED <<row, copy, held, taken, copier>>, active' = active, work' = "leaving",
             work # "none"
      PROVE  CopyInv'
  <2>1. GoesOn
    BY <1>0, <1>7 DEF GoesOn
  <2>2. ASSUME NEW h \in 1..Len(copy), InStep(h) PROVE InStep(h)'
    BY <1>7, <2>1, <2>2, StaysInStep
  <2>3. active # 0 => (~Later(active) /\ row[copy[active].of] # "absent" /\ InStep(active))'
    BY <1>1, <1>7, <2>2 DEF CopyInv, Later, Types, TaskTypeOK
  <2>4. ASSUME NEW d \in Client, Holds(d)' PROVE (InStep(held[d]))'
    BY <1>1, <1>7, <2>2, <2>4 DEF Holds, CopyInv, Types, TaskTypeOK
  <2> QED
    BY <1>7, <2>3, <2>4 DEF CopyInv, WorkHasTask
<1>8. CASE SaveStatus
  <2>1. work \in {"saving", "deciding"} /\ UNCHANGED <<active, held, taken, copier>>
    BY <1>8 DEF SaveStatus, pathVars
  <2>2. active \in 1..Len(copy) /\ copy[active].status # "absent" /\ ~Later(active)
    BY <1>1, <2>1 DEF CopyInv, WorkHasTask, Types, TaskTypeOK
  <2>3. \/ /\ row' = [row EXCEPT ![copy[active].of] = copy[active].status]
           /\ copy' = [copy EXCEPT ![active].saved = TRUE]
           /\ work' \in {"deciding", "closing", "leaving"}
        \/ work' = "leaving" /\ UNCHANGED <<row, copy>>
    BY <1>8 DEF SaveStatus
  <2> QED
    BY <1>6, <1>7, <2>1, <2>2, <2>3
<1>9. CASE WakeParent
  <2>1. /\ work = "waking" /\ work' = "leaving" /\ UNCHANGED <<active, held, taken, copier>>
        /\ \/ /\ row' = [row EXCEPT ![copy[Len(copy)].of] = "pending"]
              /\ copy' = [copy EXCEPT ![Len(copy)].saved = TRUE]
           \/ UNCHANGED <<row, copy>>
    BY <1>9 DEF WakeParent, pathVars
  <2>2. Len(copy) \in 1..Len(copy) /\ ~Later(Len(copy)) /\ copy[Len(copy)].status = "pending"
    BY <1>0, <1>1, <2>1 DEF CopyInv, WorkHasTask, Later, Types, TaskTypeOK
  <2> QED
    BY <1>6, <1>7, <2>1, <2>2
<1>10. CASE Return
  <2>1. /\ UNCHANGED <<row, copy, held, taken, copier>> /\ active' = 0 /\ work' = "none"
    BY <1>10 DEF Return, pathVars
  <2>2. GoesOn
    BY <1>0, <2>1 DEF GoesOn
  <2>3. ASSUME NEW h \in 1..Len(copy), InStep(h) PROVE InStep(h)'
    BY <2>1, <2>2, <2>3, StaysInStep
  <2>4. ASSUME NEW d \in Client, Holds(d)' PROVE (InStep(held[d]))'
    BY <1>1, <2>1, <2>3, <2>4 DEF Holds, CopyInv, Types, TaskTypeOK
  <2> QED
    BY <2>1, <2>4 DEF CopyInv, WorkHasTask
<1>11. CASE Reset
  <2>1. /\ UNCHANGED <<copy, active, work, held, taken, copier>> /\ active = 0
        /\ \A t \in Task : row'[t] = "absent"
    BY <1>11 DEF Reset, pathVars
  <2>2. ASSUME NEW d \in Client, Holds(d)' PROVE (InStep(held[d]))'
    BY <1>1, <2>1, <2>2 DEF Holds, InStep, Types, TaskTypeOK
  <2> QED
    BY <2>1, <2>2 DEF CopyInv, WorkHasTask
<1>12. ASSUME NEW c \in Client, SaveInjected(c) PROVE CopyInv'
  <2> DEFINE g == held[c]
  <2>1. g \in 1..Len(copy) /\ copy[g].of \in Task /\ taken[c] # "absent"
    BY <1>1, <1>12 DEF SaveInjected, ChanInv, ChanOK, CopyInv, Types, TaskTypeOK
  <2>2. /\ UNCHANGED <<copy, active, work, held, taken>>
        /\ copier[c] = "saving" /\ copier'[c] = "done"
        /\ \A d \in Client \ {c} : copier'[d] = copier[d]
        /\ row'[copy[g].of] \in {row[copy[g].of], taken[c]}
        /\ \A u \in Task \ {copy[g].of} : row'[u] = row[u]
    BY <1>12, <2>1 DEF SaveInjected, Types, TaskTypeOK, PathTypeOK
  <2>3. GoesOn
    BY <1>0, <2>2 DEF GoesOn
  <2>4. ASSUME NEW h \in 1..Len(copy), InStep(h) PROVE InStep(h)'
    <3>1. CASE row'[copy[h].of] = row[copy[h].of]
      BY <2>2, <2>3, <2>4, <3>1, StaysInStep
    <3>2. CASE copy[h].of = copy[g].of /\ row'[copy[h].of] = taken[c]
      <4>1. CASE g < h \/ (g = h /\ taken[c] # copy[h].status)
        <5>1. g \in 1..h
          BY <1>0, <2>1, <4>1
        <5> QED
          BY <2>2, <3>2, <4>1, <5>1 DEF InStep, PutBack
      <4>2. CASE g = h /\ taken[c] = copy[h].status
        BY <2>2, <3>2, <4>2 DEF InStep
      <4>3. CASE g > h
        BY <1>0, <2>1, <2>2, <3>2, <4>3 DEF InStep, Later
      <4> QED
        BY <1>0, <2>1, <4>1, <4>2, <4>3
    <3> QED
      BY <1>1, <2>2, <3>1, <3>2
  <2>5. active # 0 => (~Later(active) /\ row[copy[active].of] # "absent" /\ InStep(active))'
    <3>1. active # 0 => active \in 1..Len(copy) /\ copy[active].of \in Task
      BY <1>1 DEF Types, TaskTypeOK
    <3> QED
      BY <2>1, <2>2, <2>4, <3>1 DEF CopyInv, Later
  <2>6. ASSUME NEW d \in Client, Holds(d)' PROVE (InStep(held[d]))'
    BY <1>1, <2>2, <2>4, <2>6 DEF Holds, CopyInv, Types, TaskTypeOK
  <2>7. \A d \in Client : copier'[d] = "saving" => taken'[d] # "absent"
    BY <2>2 DEF CopyInv
  <2> QED
    BY <2>2, <2>5, <2>6, <2>7 DEF CopyInv, WorkHasTask
<1>13. ASSUME NEW c \in Client, Panic(c) PROVE CopyInv'
  BY <1>13 DEF Panic, CopyInv, Holds, WorkHasTask
<1>14. ASSUME NEW c \in Client, Inject(c) PROVE CopyInv'
  <2>1. /\ \A d \in Client \ {c} : copier'[d] = copier[d] /\ held'[d] = held[d] /\ taken'[d] = taken[d]
        /\ UNCHANGED taskVars /\ held' = held /\ copier[c] = "injecting" /\ copier'[c] = "saving"
        /\ taken'[c] = copy[held[c]].status
    BY <1>14 DEF Inject, Types, TaskTypeOK, PathTypeOK
  <2>2. taken'[c] # "absent"
    BY <1>1, <2>1 DEF ChanInv, ChanOK, CopyInv, Types, TaskTypeOK
  <2> QED
    BY <2>1, <2>2, SameTasks DEF Holds, CopyInv
<1>15. ASSUME NEW c \in Client, ClientStep(c), ~Inject(c), ~SaveInjected(c) PROVE CopyInv'
  <2>1. \A d \in Client \ {c} : copier'[d] = copier[d] /\ held'[d] = held[d] /\ taken'[d] = taken[d]
    BY <1>15, OthersStill DEF Still
  <2>2. /\ UNCHANGED taskVars /\ taken'[c] = taken[c]
        /\ copier[c] = "done" => copier'[c] = "done" /\ held'[c] = held[c]
        /\ Holds(c)' => (Holds(c) /\ held'[c] = held[c]) \/ held'[c] = active
        /\ copier'[c] = "saving" => copier[c] = "saving"
    <3> USE DEF Types, TaskTypeOK, PathTypeOK, Holds, taskVars
    <3>1. ASSUME NEW inject \in BOOLEAN, Open(c, inject)
          PROVE  /\ UNCHANGED taskVars /\ taken' = taken /\ copier[c] # "done" /\ copier'[c] = "on"
                 /\ held'[c] # 0 => held'[c] = active
      BY <3>1 DEF Open
    <3>2. ASSUME \A inject \in BOOLEAN : ~Open(c, inject)
          PROVE  /\ UNCHANGED <<taskVars, held, taken>>
                 /\ \/ copier'[c] \in {copier[c], "done"}
                    \/ copier[c] = "on" /\ copier'[c] = "injecting"
      BY <1>15, <3>2 DEF ClientStep, Emit, Stream, StreamEnds, Report, LoggerStep, Forward,
        ForwardQuits, Drain, LoggerEnds, CopierStep, Deliver, DeliverQuits, PipeEnds, Receive,
        HangUp, pathVars
    <3> QED
      BY <3>1, <3>2
  <2>3. copier'[c] = "saving" => taken'[c] # "absent"
    BY <2>2 DEF CopyInv
  <2> QED
    BY <2>1, <2>2, <2>3, SameTasks DEF Holds, CopyInv
<1>16. CASE UNCHANGED vars
  BY <1>16, SameTasks DEF vars, taskVars, pathVars, Holds, CopyInv
<1> QED
  BY <1>2, <1>3, <1>4, <1>5, <1>8, <1>9, <1>10, <1>11, <1>12, <1>13, <1>14, <1>15, <1>16, NextIs
  DEF PipelineStep

\* So the save of a chat changes a status for one of these reasons only.
LEMMA InjectStep ==
  ASSUME Types, ChanInv, CopyInv, [Next]_vars, NEW c \in Client,
         copier[c] = "saving", copier'[c] = "done"
  PROVE  LET task == copy[held[c]] IN
           \/ row'[task.of] = row[task.of] \/ row[task.of] = "absent"
           \/ Later(held[c]) \/ PutBack(held[c])
           \/ taken[c] # task.status \/ ~task.saved
<1>1. ~Still(c)
  BY DEF Still
<1>2. CASE \E d \in Client : Panic(d)
  BY <1>2 DEF Panic
<1>3. CASE \E d \in Client : ClientStep(d)
  <2>1. ClientStep(c)
    BY <1>1, <1>3, OthersStill
  <2>2. SaveInjected(c)
    BY <2>1 DEF ClientStep, Open, Emit, Stream, StreamEnds, Report, LoggerStep, Forward,
      ForwardQuits, Drain, LoggerEnds, CopierStep, Deliver, DeliverQuits, PipeEnds, Inject, Receive,
      HangUp, pathVars
  <2>3. copy[held[c]].of \in Task /\ InStep(held[c])
    BY CopyIsOK DEF ChanInv, ChanOK, CopyInv, Holds, Types, TaskTypeOK
  <2> QED
    BY <2>2, <2>3 DEF SaveInjected, InStep, Types, TaskTypeOK
<1> QED
  BY <1>1, <1>2, <1>3, NextIs, PipelineStill

-----------------------------------------------------------------------------
(* Theorems *)

IInv == Types /\ ChanInv /\ FedInv /\ CopyInv

\* The invariant holds before the first step, and the feed is empty.
LEMMA InitIInv == Init => IInv /\ Feed!Init
<1> SUFFICES ASSUME Init PROVE IInv /\ Feed!Init
  OBVIOUS
<1>1. \A c \in Client :
        /\ Going(c) = "on" /\ Place(c) = <<0, 0>> /\ Reader(c) = "reading"
        /\ Line(c) = <<>> /\ shown[c] = Nothing
  <2>1. <<>> \o <<>> \o <<>> = <<>>
    OBVIOUS
  <2> QED
    BY <2>1, CallersAssumption
    DEF Init, LimitInit, Going, Place, Reader, Line, Returned, Nothing
<1>2. FedInv
  BY <1>1, FedAtFirst DEF FedInv
<1>3. ChanInv
  BY CallersAssumption DEF Init, LimitInit, ChanInv, ChanOK
<1>4. shown = [c \in Client |-> Nothing]
  BY DEF Init, Nothing
<1>5. Feed!Init
  BY <1>1, <1>4 DEF Feed!Init
<1>6. CopyInv
  BY DEF Init, CopyInv, Holds, WorkHasTask
<1> QED
  BY <1>2, <1>3, <1>5, <1>6, InitTypes DEF IInv

\* Every step keeps the invariant, and is a step of the feed.
LEMMA StepIInv == IInv /\ [Next]_vars => IInv' /\ FeedStep
<1> SUFFICES ASSUME IInv, [Next]_vars PROVE IInv' /\ FeedStep
  OBVIOUS
<1>1. ChatHasTask
  BY DEF IInv, ChanInv, ChanOK, ChatHasTask
<1>2. Types'
  BY <1>1, StepTypes DEF IInv, CopyInv
<1> QED
  BY <1>2, StepChan, StepFeeds, StepCopy DEF IInv

\* What ties the channels, the call and the goroutines of each chat to one place of one
\* answer, and the copies of tasks to their rows, is an invariant.
THEOREM InductiveInvariant == Spec => []IInv
  BY InitIInv, StepIInv, PTL DEF Spec

\* Every variable of a chat, of the pipeline beside it and of the calls is of its type,
\* and no channel holds more than its capacity.
THEOREM TypeCorrect == Spec => []TypeOK
<1>1. IInv => TypeOK
  BY TypesAreOK DEF IInv
<1> QED
  BY InductiveInvariant, <1>1, PTL

\* The three goroutines and three channels of a chat are one line of chunks: every step
\* is a step of AnswerFeed or none, for any number of chats, and channels of any size.
THEOREM FeedsTheClientAlways == Spec => FeedsTheClient
<1>1. IInv /\ [Next]_vars => [Feed!Next]_(Feed!vars)
  BY StepIInv DEF FeedStep
<1>2. Init => Feed!Init
  BY InitIInv
<1> QED
  BY InductiveInvariant, <1>1, <1>2, PTL DEF Spec, FeedsTheClient, Feed!Spec

\* Chunks in sequence are so up to any of them.
LEMMA SequencePrefix ==
  ASSUME NEW q \in Seq(Item), InSequence(q), NEW r \in Seq(Item), Len(r) <= Len(q),
         \A i \in 1..Len(r) : r[i] = q[i]
  PROVE  InSequence(r)
<1>1. DOMAIN r = 1..Len(r) /\ DOMAIN q = 1..Len(q) /\ Len(r) \in Nat /\ Len(q) \in Nat
  BY LenProperties
<1> QED
  BY <1>1 DEF InSequence

\* What a client has received and what lies before it is one chunk after another, each
\* attempt at the answer from its first chunk on.
THEOREM ChunksStayInOrder == Spec => []ChunksInOrder
<1>1. IInv => ChunksInOrder
  <2> SUFFICES ASSUME IInv, NEW c \in Client PROVE InSequence(Delivered(c))
    BY DEF ChunksInOrder
  <2> DEFINE rest  == IF logger[c] = "draining" THEN <<>> ELSE buf[c]
             first == <<shown[c]>>
             mid   == out[c]
             last  == pipe[c]
  <2>1. /\ first \in Seq(Item) /\ mid \in Seq(Item) /\ last \in Seq(Item) /\ rest \in Seq(Item)
        /\ Line(c) = (mid \o last) \o rest /\ Delivered(c) = first \o mid
        /\ InSequence(first \o Line(c))
    <3>1. Seq(Sendable) \subseteq Seq(Item)
      BY ChunksAreChunks, SeqMonotonic
    <3>2. /\ first \in Seq(Item) /\ mid \in Seq(Item) /\ last \in Seq(Item) /\ rest \in Seq(Item)
      BY <3>1, FeedTypes, EmptySeq DEF IInv, FeedTypeOK
    <3>3. InSequence(first \o Line(c))
      BY DEF IInv, FedInv, Fed
    <3> QED
      BY <3>2, <3>3 DEF Line, Delivered
  <2> HIDE DEF rest, first, mid, last
  <2>2. /\ mid \o last \in Seq(Item) /\ (mid \o last) \o rest \in Seq(Item)
        /\ first \o ((mid \o last) \o rest) \in Seq(Item) /\ first \o mid \in Seq(Item)
    BY <2>1, ConcatProperties
  <2>3. /\ Len(first \o mid) <= Len(first \o ((mid \o last) \o rest))
        /\ \A i \in 1..Len(first \o mid) : (first \o mid)[i] = (first \o ((mid \o last) \o rest))[i]
    BY <2>1, <2>2
  <2> QED
    BY <2>1, <2>2, <2>3, SequencePrefix
<1> QED
  BY InductiveInvariant, <1>1, PTL

\* Of an answer that came to its end, the client that stays has the whole when its channel
\* is closed, and the whole is what a chat injects.
THEOREM AnswerStaysWhole == Spec => []AnswerIsWhole
<1>1. IInv => AnswerIsWhole
  <2> SUFFICES ASSUME IInv, NEW c \in Client, copier[c] \in {"injecting", "saving", "done"},
                      call[c] = "answered", ~dropped[c], sent[c] > 0
               PROVE  Delivered(c)[Len(Delivered(c))] = <<attempt[c], sent[c]>>
    BY DEF AnswerIsWhole
  <2>1. pipe[c] = <<>> /\ buf[c] = <<>>
    BY DEF IInv, ChanInv, ChanOK
  <2>2. out[c] \in Seq(Sendable)
    BY FeedTypes DEF IInv
  <2>3. Line(c) = out[c]
    BY <2>1, <2>2 DEF Line
  <2>4. Going(c) = "answered" /\ Place(c) = <<attempt[c], sent[c]>> /\ Reader(c) = "reading"
    BY DEF Going, Place, Reader, Returned
  <2>5. Fed(Delivered(c), "answered", <<attempt[c], sent[c]>>, "reading")
    BY <2>3, <2>4 DEF IInv, FedInv, Delivered
  <2> QED
    BY <2>5 DEF Fed, EndsAt
<1> QED
  BY InductiveInvariant, <1>1, PTL

\* The save at the end of a chat changes the status of a row only if the task in hand is
\* not the last fetched for it, if its status has changed since it was read or is still to
\* be saved, or if another chat has put something else back.
THEOREM InjectKeepsStatus == Spec => InjectChangesNoStatus
<1>1. IInv /\ [Next]_vars =>
        [\A c \in Client : copier[c] = "saving" /\ copier'[c] = "done" =>
           LET task == copy[held[c]] IN
             \/ row'[task.of] = row[task.of] \/ row[task.of] = "absent"
             \/ Later(held[c]) \/ PutBack(held[c])
             \/ taken[c] # task.status \/ ~task.saved]_vars
  BY InjectStep DEF IInv
<1> QED
  BY InductiveInvariant, <1>1, PTL DEF Spec, InjectChangesNoStatus
=============================================================================
