-------------------------- MODULE ProvidersProofs --------------------------
(***************************************************************************)
(* Theorems about RateLimit, for any callers, roles, limits and delays,    *)
(* and about Providers, whose calls it makes.                              *)
(*                                                                         *)
(* A call's total grows only when a wait ends, so the bound follows from   *)
(* what was checked when the wait began: the inductive invariant keeps     *)
(* that fact, and the length of the wait, while the call waits.            *)
(*                                                                         *)
(* Each step of a provider is a step of RateLimit or leaves its state      *)
(* alone, so this carries over.  That a limit is heard rests on a fact     *)
(* about three functions of what a CLI printed: what counts as reported is *)
(* never read as anything but a limit.                                     *)
(***************************************************************************)
EXTENDS Providers, TLAPS

-----------------------------------------------------------------------------
(* RateLimit *)

\* A call that waits had not used up maxWait when it began to, and waits for at most
\* the longest delay.
WaitsWithinBudget ==
  \A c \in Caller : call[c] = "waiting" => waited[c] < MaxWait /\ delay[c] \in 1..LongestWait

LimitInv == LimitTypeOK /\ WaitBounded /\ WaitsWithinBudget

-----------------------------------------------------------------------------

\* No call has waited at first.
LEMMA InitLimitInv == LimitInit => LimitInv
<1>1. LimitInit => LimitTypeOK
  BY DEF LimitInit, LimitTypeOK, CallAt
<1>2. LimitInit => WaitBounded /\ WaitsWithinBudget
  BY DelaysAssumption DEF LimitInit, WaitBounded, WaitsWithinBudget
<1> QED BY <1>1, <1>2 DEF LimitInv

\* Each action of a call, and what the rest of the program does, keeps the invariant.
LEMMA StepLimitInv == LimitInv /\ [LimitNext]_limitVars => LimitInv'
<1> SUFFICES ASSUME LimitInv, [LimitNext]_limitVars
             PROVE  LimitInv'
  OBVIOUS
<1> USE DelaysAssumption, RoleOfAssumption
<1> USE DEF LimitInv, LimitTypeOK, WaitBounded, WaitsWithinBudget, CallAt, Returned
<1>1. ASSUME NEW c \in Caller, Ask(c) PROVE LimitInv'
  BY <1>1 DEF Ask
<1>2. ASSUME NEW c \in Caller, Succeeds(c) PROVE LimitInv'
  <2>1. marker' \in [Role -> Nat]
    BY <1>2 DEF Succeeds, Mark
  <2> QED BY <1>2, <2>1 DEF Succeeds
<1>3. ASSUME NEW c \in Caller, Fails(c) PROVE LimitInv'
  BY <1>3 DEF Fails
<1>4. ASSUME NEW c \in Caller, NEW d \in 1..LongestWait, Throttled(c, d) PROVE LimitInv'
  <2>1. marker' \in [Role -> Nat]
    BY <1>4 DEF Throttled, Mark
  <2> QED BY <1>4, <2>1 DEF Throttled
<1>5. ASSUME NEW c \in Caller, Retry(c) PROVE LimitInv'
  <2>1. waited'[c] = waited[c] + delay[c] /\ waited[c] < MaxWait /\ delay[c] \in 1..LongestWait
    BY <1>5 DEF Retry
  <2>2. waited'[c] \in Nat /\ waited'[c] < MaxWait + LongestWait
    BY <2>1
  <2> QED BY <1>5, <2>2 DEF Retry
<1>6. ASSUME NEW c \in Caller, WaitCancelled(c) PROVE LimitInv'
  BY <1>6 DEF WaitCancelled
<1>7. ASSUME NEW c \in Caller, Cancel(c) PROVE LimitInv'
  BY <1>7 DEF Cancel
<1>8. ASSUME NEW c \in Caller, Again(c) PROVE LimitInv'
  BY <1>8 DEF Again
<1>9. CASE ClearMarkers
  BY <1>9 DEF ClearMarkers, callVars
<1>10. CASE UNCHANGED limitVars
  BY <1>10 DEF limitVars, callVars
<1> QED
  BY <1>1, <1>2, <1>3, <1>4, <1>5, <1>6, <1>7, <1>8, <1>9, <1>10 DEF LimitNext, CallStep

\* The strengthening is an invariant.
THEOREM LimitInvariant == LimitSpec => []LimitInv
  BY InitLimitInv, StepLimitInv, PTL DEF LimitSpec

\* Whatever a provider answers, and whoever else asks it, a call waits for less than
\* rate_limit_max_wait and one delay.
THEOREM CallsWaitBoundedly == LimitSpec => []WaitBounded
<1>1. LimitInv => WaitBounded
  BY DEF LimitInv
<1> QED BY LimitInvariant, <1>1, PTL

\* States of calls and markers are well typed.
THEOREM LimitTypeCorrect == LimitSpec => []LimitTypeOK
<1>1. LimitInv => LimitTypeOK
  BY DEF LimitInv
<1> QED BY LimitInvariant, <1>1, PTL

-----------------------------------------------------------------------------
(* Providers *)

\* What is reported is a limit; of a killed CLI no child is alive; a call in error for a
\* reported limit had waited enough; a verdict is the reply's.
ProvInv ==
  /\ LimitTypeOK /\ ProvTypeOK
  /\ \A c \in Caller :
       /\ proc[c] = "running" => KindOf(c) \in CLI
       /\ outcome[c].reported => outcome[c].is = "limit"
       /\ late[c].reported => late[c].is = "limit"
       /\ cut[c] => ~child[c]
       /\ reported[c] => call[c] = "failed" /\ waited[c] >= MaxWait
  /\ VerdictIsTheReplys

-----------------------------------------------------------------------------

\* Whatever a CLI prints, and whether a tool is wanted, its provider makes an outcome of
\* it, and hears a limit that is reported.
LEMMA ReadHears ==
  ASSUME NEW k \in CLI, NEW r \in Report, NEW wanted \in BOOLEAN
  PROVE  /\ Read(k, r, wanted) \in Outcome
         /\ Read(k, r, wanted).reported => Read(k, r, wanted).is = "limit"
<1>1. r.ok \in BOOLEAN /\ r.out \in Printed /\ r.err \in Errors
  BY DEF Report
<1> USE DEF Printed, Errors, Answer, JSONError
<1>2. /\ Interpreted(k, r, wanted) \in {"answer", "error", "limit"}
      /\ Reported(k, r) => Interpreted(k, r, wanted) = "limit"
  <2>1. CASE k = "claude-code"
    BY <1>1, <2>1 DEF Interpreted, Reported, ClaudeCode, Answered, Failed, RunError
  <2>2. CASE k = "codex"
    BY <1>1, <2>2 DEF Interpreted, Reported, Codex, HasErrorEvent, Answered, Failed, RunError
  <2>3. CASE k = "gemini-cli"
    BY <1>1, <2>3 DEF Interpreted, Reported, GeminiCLI, HasErrorObject, Answered, Failed, RunError
  <2> QED BY <2>1, <2>2, <2>3 DEF CLI
<1>3. Reported(k, r) \in BOOLEAN
  BY <1>1 DEF Reported
<1> QED BY <1>2, <1>3 DEF Read, Outcome

\* A child that keeps the output makes the exit an error, and the report stays one.
LEMMA NotOk == ASSUME NEW r \in Report PROVE [r EXCEPT !.ok = FALSE] \in Report
  BY DEF Report

\* Both readers return at most one object, and it is in the reply.
LEMMA ReadersTakeWhatIsThere ==
  ASSUME NEW reply \in Reply, NEW is \in SUBSET (DOMAIN reply.text)
  PROVE  /\ ExtractJSON(reply.text) \subseteq Objects(reply)
         /\ \A o, p \in ExtractJSON(reply.text) : o = p
         /\ StripCodeFence(reply.text) \subseteq DOMAIN reply.text
         /\ Alone(is, reply.text) \subseteq Objects(reply)
         /\ \A o, p \in Alone(is, reply.text) : o = p
<1>1. \A i, j \in FirstOf(Opening, reply.text) : i = j
  <2> SUFFICES ASSUME NEW i \in FirstOf(Opening, reply.text), NEW j \in FirstOf(Opening, reply.text)
               PROVE  i = j
    OBVIOUS
  <2>1. PICK n \in 0..MaxPieces : reply.text \in [1..n -> Piece]
    BY DEF Reply, Text
  <2>2. i \in 1..n /\ j \in 1..n /\ n \in Nat
    BY <2>1, PiecesAssumption DEF FirstOf
  <2>3. ~(i \in 1..(j - 1)) /\ ~(j \in 1..(i - 1))
    BY DEF FirstOf
  <2> QED BY <2>2, <2>3
<1>2. \A o, p \in ExtractJSON(reply.text) : o = p
  BY <1>1 DEF ExtractJSON
<1>3. /\ ExtractJSON(reply.text) \subseteq Objects(reply)
      /\ StripCodeFence(reply.text) \subseteq DOMAIN reply.text
  BY DEF ExtractJSON, FirstOf, StripCodeFence, Objects
<1>4. /\ Alone(is, reply.text) \subseteq Objects(reply)
      /\ \A o, p \in Alone(is, reply.text) : o = p
  BY DEF Alone, Objects
<1> QED BY <1>2, <1>3, <1>4

\* A verdict is that of an object in the reply, or an error.
LEMMA ReadReplySays ==
  ASSUME NEW k \in Kind, NEW reply \in Reply
  PROVE  /\ ReadReply(k, reply) \in {"error", "approved", "rejected"}
         /\ ReadReply(k, reply) = "approved" => "approve" \in Objects(reply)
         /\ ReadReply(k, reply) = "rejected" => Objects(reply) \cap {"reject", "other"} # {}
<1>1. ASSUME NEW objects \in SUBSET Objects(reply), \A o, p \in objects : o = p
      PROVE  /\ ParseReview(objects) \in {"error", "approved", "rejected"}
             /\ ParseReview(objects) = "approved" => "approve" \in Objects(reply)
             /\ ParseReview(objects) = "rejected" => Objects(reply) \cap {"reject", "other"} # {}
  <2>1. \A o \in objects : o \in {"approve", "reject", "other", "mistyped"}
    BY DEF Objects, Object
  <2>2. CASE objects \subseteq {"mistyped"}
    BY <2>2 DEF ParseReview
  <2>3. CASE "approve" \in objects
    <3>1. objects = {"approve"}
      BY <1>1, <2>3
    <3> QED BY <3>1 DEF ParseReview
  <2>4. CASE objects \cap {"reject", "other"} # {}
    BY <1>1, <2>4 DEF ParseReview
  <2> QED BY <2>1, <2>2, <2>3, <2>4
<1> DEFINE is == IF reply.tool THEN DOMAIN reply.text ELSE StripCodeFence(reply.text)
<1>2. is \in SUBSET (DOMAIN reply.text)
  BY ReadersTakeWhatIsThere
<1>3. ReadReply(k, reply) = ParseReview(IF k \in CLI THEN ExtractJSON(reply.text)
                                        ELSE Alone(is, reply.text))
  BY DEF ReadReply
<1> HIDE DEF is
<1>4. CASE k \in CLI
  BY <1>1, <1>3, <1>4, ReadersTakeWhatIsThere
<1>5. CASE k \notin CLI
  BY <1>1, <1>2, <1>3, <1>5, ReadersTakeWhatIsThere
<1> QED BY <1>4, <1>5

\* At first nothing runs.
LEMMA InitProvInv == ProvInit => ProvInv
<1> SUFFICES ASSUME ProvInit PROVE ProvInv
  OBVIOUS
<1>1. LimitTypeOK
  BY InitLimitInv DEF ProvInit, LimitInv
<1>2. ProvTypeOK
  BY DEF ProvInit, ProvTypeOK, NoOutcome, Outcome, NoVerdict
<1> QED
  BY <1>1, <1>2 DEF ProvInit, ProvInv, NoOutcome, NoVerdict, VerdictIsTheReplys

\* Each step of a provider is one of RateLimit, or none.
LEMMA StepOfLimit == [ProvNext]_provVars => [LimitNext]_limitVars
<1> SUFFICES ASSUME [ProvNext]_provVars PROVE [LimitNext]_limitVars
  OBVIOUS
<1>1. ASSUME NEW c \in Caller,
             Calls(c) \/ Cancel(c) \/ NextCall(c) \/ Retry(c) \/ WaitCancelled(c)
      PROVE LimitNext
  BY <1>1 DEF Calls, NextCall, LimitNext, CallStep
<1>2. ASSUME NEW c \in Caller, NEW reply \in Reply, Answers(c, reply) PROVE LimitNext
  BY <1>2 DEF Answers, LimitNext, CallStep
<1>3. ASSUME NEW c \in Caller, IsThrottled(c) \/ IsInError(c) PROVE LimitNext
  BY <1>3 DEF IsThrottled, IsInError, LimitNext, CallStep
<1>4. ASSUME NEW c \in Caller,
             Spawn(c) \/ SpawnRefused(c) \/ Kill(c) \/ RunReturns(c) \/ APIReturns(c)
               \/ ChildEnds(c) \/ \E r \in Report : Ends(c, r)
      PROVE UNCHANGED limitVars
  BY <1>4 DEF Spawn, SpawnRefused, Kill, RunReturns, APIReturns, ChildEnds, Ends
<1>5. ClearMarkers => LimitNext
  BY DEF LimitNext
<1>6. UNCHANGED provVars => UNCHANGED limitVars
  BY DEF provVars
<1> QED BY <1>1, <1>2, <1>3, <1>4, <1>5, <1>6 DEF ProvNext, ProviderStep

-----------------------------------------------------------------------------

\* The invariant is kept by each step.
LEMMA StepProvInv == ProvInv /\ LimitInv /\ LimitInv' /\ [ProvNext]_provVars => ProvInv'
<1> SUFFICES ASSUME ProvInv, LimitInv, LimitInv', [ProvNext]_provVars PROVE ProvInv'
  OBVIOUS
<1>0. LimitTypeOK'
  BY DEF LimitInv
<1> USE <1>0, DelaysAssumption, RoleOfAssumption
<1> USE DEF ProvInv, ProvTypeOK, VerdictIsTheReplys, KindOf
<1>1. ASSUME NEW c \in Caller, Calls(c) PROVE ProvInv'
  <2>1. forced' \in [Caller -> BOOLEAN]
    BY <1>1 DEF Calls
  <2>2. \A x \in Caller : call[x] = "failed" => call'[x] = "failed"
    BY <1>1 DEF Calls, Ask, LimitTypeOK
  <2> QED BY <1>1, <2>1, <2>2 DEF Calls, Ask
<1>2. ASSUME NEW c \in Caller, Cancel(c), UNCHANGED procVars PROVE ProvInv'
  BY <1>2 DEF Cancel, procVars
<1>3. ASSUME NEW c \in Caller, Spawn(c) PROVE ProvInv'
  BY <1>3 DEF Spawn, limitVars, callVars
<1>4. ASSUME NEW c \in Caller, SpawnRefused(c) PROVE ProvInv'
  BY <1>4 DEF SpawnRefused, limitVars, callVars, Outcome
<1>5. ASSUME NEW c \in Caller, Kill(c) PROVE ProvInv'
  <2>1. PICK text \in Errors : outcome' = [outcome EXCEPT ![c] = KilledAt(text)]
    BY <1>5 DEF Kill
  <2>2. KilledAt(text) \in Outcome /\ ~KilledAt(text).reported
    BY DEF KilledAt, Failed, Outcome
  <2> QED BY <1>5, <2>1, <2>2 DEF Kill, limitVars, callVars
<1>6. ASSUME NEW c \in Caller, RunReturns(c) PROVE ProvInv'
  <2>1. NoOutcome \in Outcome /\ ~NoOutcome.reported
    BY DEF NoOutcome, Outcome
  <2> QED BY <1>6, <2>1 DEF RunReturns, limitVars, callVars
<1>7. ASSUME NEW c \in Caller, APIReturns(c) PROVE ProvInv'
  BY <1>7 DEF APIReturns, limitVars, callVars, Outcome
<1>8. ASSUME NEW c \in Caller, NEW r \in Report, Ends(c, r) PROVE ProvInv'
  <2>1. KindOf(c) \in CLI /\ forced[c] \in BOOLEAN
    BY <1>8 DEF Ends
  <2>2. [r EXCEPT !.ok = FALSE] \in Report
    BY NotOk
  <2> DEFINE now == Read(KindOf(c), r, forced[c])
             then == Read(KindOf(c), [r EXCEPT !.ok = FALSE], forced[c])
  <2>3. now \in Outcome /\ (now.reported => now.is = "limit")
    BY <2>1, ReadHears
  <2>4. then \in Outcome /\ (then.reported => then.is = "limit")
    BY <2>1, <2>2, ReadHears
  <2>5. outcome' = [outcome EXCEPT ![c] = now] /\ late' = [late EXCEPT ![c] = then]
    BY <1>8 DEF Ends
  <2> HIDE DEF now, then
  <2>6. outcome' \in [Caller -> Outcome] /\ late' \in [Caller -> Outcome]
    BY <2>3, <2>4, <2>5
  <2>7. \A x \in Caller : /\ outcome'[x].reported => outcome'[x].is = "limit"
                          /\ late'[x].reported => late'[x].is = "limit"
    BY <2>3, <2>4, <2>5
  <2>8. proc' = [proc EXCEPT ![c] = "ended"]
        /\ UNCHANGED <<limitVars, kind, forced, child, reported, cut, verdict>>
    BY <1>8 DEF Ends
  <2> QED BY <2>6, <2>7, <2>8 DEF limitVars, callVars
<1>9. ASSUME NEW c \in Caller, ChildEnds(c) PROVE ProvInv'
  BY <1>9 DEF ChildEnds, limitVars, callVars
<1>10. ASSUME NEW c \in Caller, NEW reply \in Reply, Answers(c, reply) PROVE ProvInv'
  <2>1. NoOutcome \in Outcome /\ ~NoOutcome.reported
    BY DEF NoOutcome, Outcome
  <2>2. KindOf(c) \in Kind /\ Objects(reply) \in SUBSET Object
    BY DEF Objects
  <2>4. /\ verdict'[c] \in [says : {"none", "error", "approved", "rejected"},
                            in : SUBSET Object]
        /\ verdict'[c].says = "approved" => "approve" \in verdict'[c].in
        /\ verdict'[c].says = "rejected" => verdict'[c].in \cap {"reject", "other"} # {}
    <3>1. CASE forced[c]
      <4>1. verdict'[c] = [says |-> ReadReply(KindOf(c), reply), in |-> Objects(reply)]
        BY <1>10, <3>1 DEF Answers
      <4>2. /\ ReadReply(KindOf(c), reply) \in {"error", "approved", "rejected"}
            /\ ReadReply(KindOf(c), reply) = "approved" => "approve" \in Objects(reply)
            /\ ReadReply(KindOf(c), reply) = "rejected"
                 => Objects(reply) \cap {"reject", "other"} # {}
        BY <2>2, ReadReplySays
      <4> QED BY <4>1, <4>2, <2>2
    <3>2. CASE ~forced[c]
      BY <1>10, <3>2 DEF Answers, NoVerdict
    <3> QED BY <3>1, <3>2
  <2>5. verdict' = [verdict EXCEPT ![c] = verdict'[c]]
    BY <1>10 DEF Answers
  <2>6. call' = [call EXCEPT ![c] = "answered"] /\ call[c] = "asking" /\ UNCHANGED waited
    BY <1>10 DEF Answers, Succeeds
  <2> QED BY <1>10, <2>1, <2>4, <2>5, <2>6 DEF Answers, Back
<1>11. ASSUME NEW c \in Caller, IsThrottled(c) PROVE ProvInv'
  <2>1. NoOutcome \in Outcome /\ ~NoOutcome.reported
    BY DEF NoOutcome, Outcome
  <2> QED BY <1>11, <2>1 DEF IsThrottled, Back, Throttled
<1>12. ASSUME NEW c \in Caller, IsInError(c) PROVE ProvInv'
  <2>1. NoOutcome \in Outcome /\ ~NoOutcome.reported
    BY DEF NoOutcome, Outcome
  <2>2. outcome[c].reported \in BOOLEAN
    BY DEF Outcome
  <2>3. outcome[c].reported => waited[c] >= MaxWait
    BY <1>12 DEF IsInError, Back
  <2>4. call' = [call EXCEPT ![c] = "failed"] /\ UNCHANGED waited
    BY <1>12 DEF IsInError, Fails
  <2>5. \A x \in Caller : reported'[x] => call'[x] = "failed" /\ waited'[x] >= MaxWait
    BY <1>12, <2>3, <2>4 DEF IsInError, LimitTypeOK
  <2>6. reported' \in [Caller -> BOOLEAN]
    BY <1>12, <2>2 DEF IsInError
  <2>7. /\ proc' = [proc EXCEPT ![c] = "none"]
        /\ outcome' = [outcome EXCEPT ![c] = NoOutcome]
        /\ UNCHANGED <<kind, forced, child, late, cut, verdict>>
    BY <1>12 DEF IsInError, Back
  <2> QED BY <2>1, <2>5, <2>6, <2>7
<1>13. ASSUME NEW c \in Caller, (Retry(c) \/ WaitCancelled(c)), UNCHANGED procVars
       PROVE ProvInv'
  <2>1. \A x \in Caller : call[x] = "failed" => call'[x] = "failed" /\ waited'[x] = waited[x]
    BY <1>13 DEF Retry, WaitCancelled, LimitTypeOK
  <2> QED BY <1>13, <2>1 DEF procVars
<1>14. ASSUME NEW c \in Caller, NextCall(c) PROVE ProvInv'
  BY <1>14 DEF NextCall, Again, NoVerdict
<1>15. ASSUME ClearMarkers, UNCHANGED procVars PROVE ProvInv'
  BY <1>15 DEF ClearMarkers, callVars, procVars
<1>16. CASE UNCHANGED provVars
  BY <1>16 DEF provVars, procVars, limitVars, callVars
<1> QED
  BY <1>1, <1>2, <1>3, <1>4, <1>5, <1>6, <1>7, <1>8, <1>9, <1>10, <1>11, <1>12, <1>13,
     <1>14, <1>15, <1>16 DEF ProvNext, ProviderStep

\* The calls of every provider obey RetryingProvider's loop: Providers implements
\* RateLimit.
THEOREM ProvidersKeepTheLoop == ProvSpec => LimitSpec
<1>1. ProvInit => LimitInit
  BY DEF ProvInit
<1> QED BY <1>1, StepOfLimit, PTL DEF ProvSpec, LimitSpec

\* So a call waits for less than rate_limit_max_wait and one delay, whoever answers it.
THEOREM ProviderCallsWaitBoundedly == ProvSpec => []WaitBounded
  BY ProvidersKeepTheLoop, CallsWaitBoundedly, PTL

\* The strengthening is an invariant.
THEOREM ProvidersInvariant == ProvSpec => []ProvInv
<1>1. ProvSpec => []LimitInv
  BY ProvidersKeepTheLoop, LimitInvariant, PTL
<1> QED BY <1>1, InitProvInv, StepProvInv, PTL DEF ProvSpec

\* Of a CLI that was cut off nothing is left.
THEOREM CutCallsLeaveNothing == ProvSpec => []CancelLeavesNoProcess
<1>1. ProvInv => CancelLeavesNoProcess
  BY DEF ProvInv, CancelLeavesNoProcess
<1> QED BY ProvidersInvariant, <1>1, PTL

\* A reported limit is waited out, for each CLI and whatever else it prints.
THEOREM ReportedLimitsAreHeard == ProvSpec => []LimitIsHeard
<1>1. ProvInv => LimitIsHeard
  BY DEF ProvInv, LimitIsHeard
<1> QED BY ProvidersInvariant, <1>1, PTL

\* Whichever reader reads it, a review says what some object in the reply says.
THEOREM VerdictsAreTheReplys == ProvSpec => []VerdictIsTheReplys
<1>1. ProvInv => VerdictIsTheReplys
  BY DEF ProvInv
<1> QED BY ProvidersInvariant, <1>1, PTL
=============================================================================
