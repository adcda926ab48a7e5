----------------------------- MODULE AnswerFeed -----------------------------
(***************************************************************************)
(* What LocalServer.Chat promises whoever reads its channel: one line of   *)
(* chunks, each attempt at the answer from its first chunk on, from which  *)
(* nothing is taken but at its head by the reader.  Only once the reader   *)
(* has left is the line cut short, and only a failed answer has an error   *)
(* somewhere in it.                                                        *)
(***************************************************************************)
EXTENDS Naturals, Sequences

CONSTANTS
  Client,
  Error,     \* what a failed answer's error is shown as
  Nothing    \* what is shown before the first chunk

VARIABLES
  going,    \* the answer is being made, or how it has ended
  place,    \* the attempt, and the chunk of it that was sent last (a failed answer: none)
  reader,   \* reads on, has left, or has left a line that was cut short
  line,     \* what has been sent and not been received
  shown     \* the last of what was received

vars == <<going, place, reader, line, shown>>

Init ==
  /\ going = [c \in Client |-> "on"] /\ place = [c \in Client |-> <<0, 0>>]
  /\ reader = [c \in Client |-> "reading"]
  /\ line = [c \in Client |-> <<>>] /\ shown = [c \in Client |-> Nothing]

\* The next chunk; what is sent behind the cut is lost.
Send(c) ==
  /\ going[c] = "on"
  /\ place' = [place EXCEPT ![c] = <<@[1], @[2] + 1>>]
  /\ line' = [line EXCEPT ![c] = IF reader[c] = "cut" THEN @ ELSE Append(@, place'[c])]
  /\ UNCHANGED <<going, reader, shown>>

\* A retry begins the answer anew, whatever has been sent of it.
StartOver(c) ==
  /\ going[c] = "on"
  /\ place' = [place EXCEPT ![c] = <<@[1] + 1, 0>>]
  /\ UNCHANGED <<going, reader, line, shown>>

Complete(c) ==
  /\ going[c] = "on"
  /\ going' = [going EXCEPT ![c] = "answered"]
  /\ UNCHANGED <<place, reader, line, shown>>

Fail(c) ==
  /\ going[c] = "on"
  /\ going' = [going EXCEPT ![c] = "failed"] /\ place' = [place EXCEPT ![c] = <<0, 0>>]
  /\ UNCHANGED <<reader, line, shown>>

\* The error is sent past the chunks that are still under way.
Report(c) ==
  /\ going[c] = "failed"
  /\ \E n \in 0..Len(line[c]) :
       line' = [line EXCEPT ![c] = Append(SubSeq(@, 1, n), Error) \o SubSeq(@, n + 1, Len(@))]
  /\ UNCHANGED <<going, place, reader, shown>>

Receive(c) ==
  /\ line[c] # <<>>
  /\ shown' = [shown EXCEPT ![c] = Head(line[c])]
  /\ line' = [line EXCEPT ![c] = Tail(@)]
  /\ UNCHANGED <<going, place, reader>>

Leave(c) ==
  /\ reader[c] = "reading"
  /\ \E how \in {"left", "cut"} : reader' = [reader EXCEPT ![c] = how]
  /\ UNCHANGED <<going, place, line, shown>>

CutShort(c) ==
  /\ reader[c] = "left"
  /\ reader' = [reader EXCEPT ![c] = "cut"]
  /\ \E n \in 0..Len(line[c]) : line' = [line EXCEPT ![c] = SubSeq(@, 1, n)]
  /\ UNCHANGED <<going, place, shown>>

\* The process dies, and all its feeds with it.
Die ==
  /\ going' = [c \in Client |-> "on"] /\ place' = [c \in Client |-> <<0, 0>>]
  /\ reader' = [c \in Client |-> "reading"]
  /\ line' = [c \in Client |-> <<>>] /\ shown' = [c \in Client |-> Nothing]

Next ==
  \/ Die
  \/ \E c \in Client :
       \/ Send(c) \/ StartOver(c) \/ Complete(c) \/ Fail(c) \/ Report(c)
       \/ Receive(c) \/ Leave(c) \/ CutShort(c)

Spec == Init /\ [][Next]_vars
=============================================================================
