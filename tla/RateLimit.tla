----------------------------- MODULE RateLimit -----------------------------
(***************************************************************************)
(* internal/llm/ratelimit.go: RetryingProvider, which rides out rate       *)
(* limits, and the markers it keeps in LocalServer.rateLimits through      *)
(* makeRateLimitFunc for the status page to show.                          *)
(*                                                                         *)
(* Complete and Stream are one loop around a provider's call.  Every call  *)
(* has its own attempt and waited; the marker of a role is shared by all   *)
(* its calls, the pipeline's and the chats', and by every run.             *)
(* Time is counted in half base delays.                                    *)
(***************************************************************************)
EXTENDS Naturals, FiniteSets

CONSTANTS
  Caller,      \* calls that may be in flight at once
  Role,        \* roles, each with a provider of its own
  RoleOf,      \* the role each caller asks
  MaxWait,     \* execution.rate_limit_max_wait
  MaxDelay,    \* rlMaxDelay
  RetryAfter,  \* the delays an error text may ask for
  LongestWait  \* what one wait can last: rlMaxDelay, or 24 h and a second

ASSUME RoleOfAssumption == RoleOf \in [Caller -> Role]
ASSUME DelaysAssumption ==
  /\ MaxWait \in Nat \ {0} /\ MaxDelay \in Nat \ {0, 1}
  /\ LongestWait \in Nat /\ MaxDelay <= LongestWait
  /\ RetryAfter \subseteq 1..LongestWait

VARIABLES
  call,       \* where each call is
  attempt,    \* its retries so far
  waited,     \* what it has waited
  delay,      \* the wait it is in (0: none)
  dropped,    \* its context is cancelled
  marker      \* s.rateLimits: the attempt shown for each role (0: none)

callVars  == <<call, attempt, waited, delay, dropped>>
limitVars == <<callVars, marker>>

CallAt   == {"idle", "asking", "waiting", "answered", "failed"}
Returned == {"answered", "failed"}

LimitTypeOK ==
  /\ call \in [Caller -> CallAt]
  /\ attempt \in [Caller -> Nat] /\ waited \in [Caller -> Nat] /\ delay \in [Caller -> Nat]
  /\ dropped \in [Caller -> BOOLEAN]
  /\ marker \in [Role -> Nat]

LimitInit ==
  /\ call = [c \in Caller |-> "idle"] /\ dropped = [c \in Caller |-> FALSE]
  /\ attempt = [c \in Caller |-> 0] /\ waited = [c \in Caller |-> 0]
  /\ delay = [c \in Caller |-> 0]
  /\ marker = [r \in Role |-> 0]

-----------------------------------------------------------------------------

\* Delays without a hint: base * 2^attempt, at most MaxDelay, and then anything from
\* the half of that on.
Backoff(n) ==
  {d \in 1..MaxDelay : d <= 2^(n + 1) /\ (2 * d >= 2^(n + 1) \/ 2 * d >= MaxDelay)}

\* rlBackoff: an error that names a delay gets it.
Delays(n) == Backoff(n) \cup RetryAfter

\* onRL of makeRateLimitFunc, without the event it appends.
Mark(c, n) == marker' = [marker EXCEPT ![RoleOf[c]] = n]

Ask(c) ==
  /\ call[c] = "idle"
  /\ call' = [call EXCEPT ![c] = "asking"]
  /\ UNCHANGED <<attempt, waited, delay, dropped, marker>>

\* The provider answers; a call that was throttled clears the marker of its role.
Succeeds(c) ==
  /\ call[c] = "asking"
  /\ call' = [call EXCEPT ![c] = "answered"]
  /\ IF attempt[c] > 0 THEN Mark(c, 0) ELSE UNCHANGED marker
  /\ UNCHANGED <<attempt, waited, delay, dropped>>

\* An error that is no rate limit, or one after maxWait.
Fails(c) ==
  /\ call[c] = "asking"
  /\ call' = [call EXCEPT ![c] = "failed"]
  /\ UNCHANGED <<attempt, waited, delay, dropped, marker>>

\* Mutant of Throttled: the wait to come is not held against maxWait but added to it.
ThrottledForEver(c, d) ==
  /\ call[c] = "asking" /\ waited[c] < MaxWait + LongestWait
  /\ d \in Delays(attempt[c])
  /\ call' = [call EXCEPT ![c] = "waiting"]
  /\ delay' = [delay EXCEPT ![c] = d]
  /\ Mark(c, attempt[c] + 1)
  /\ UNCHANGED <<attempt, waited, dropped>>

\* A rate limit while the call may still wait.
Throttled(c, d) ==
  /\ call[c] = "asking" /\ waited[c] < MaxWait
  /\ d \in Delays(attempt[c])
  /\ call' = [call EXCEPT ![c] = "waiting"]
  /\ delay' = [delay EXCEPT ![c] = d]
  /\ Mark(c, attempt[c] + 1)
  /\ UNCHANGED <<attempt, waited, dropped>>

\* time.After(delay) comes first.
Retry(c) ==
  /\ call[c] = "waiting"
  /\ call' = [call EXCEPT ![c] = "asking"]
  /\ waited' = [waited EXCEPT ![c] = @ + delay[c]]
  /\ attempt' = [attempt EXCEPT ![c] = @ + 1]
  /\ delay' = [delay EXCEPT ![c] = 0]
  /\ UNCHANGED <<dropped, marker>>

\* ctx.Done() comes first.
WaitCancelled(c) ==
  /\ call[c] = "waiting" /\ dropped[c]
  /\ call' = [call EXCEPT ![c] = "failed"]
  /\ delay' = [delay EXCEPT ![c] = 0]
  /\ UNCHANGED <<attempt, waited, dropped, marker>>

\* What the loop does, and the provider under it.
CallStep(c) ==
  \/ Succeeds(c) \/ Fails(c) \/ Retry(c) \/ WaitCancelled(c)
  \/ \E d \in 1..LongestWait : Throttled(c, d)

\* The caller's context is cancelled.
Cancel(c) ==
  /\ call[c] \in {"asking", "waiting"} /\ ~dropped[c]
  /\ dropped' = [dropped EXCEPT ![c] = TRUE]
  /\ UNCHANGED <<call, attempt, waited, delay, marker>>

\* The caller has its answer, and its next call is a new one.
Again(c) ==
  /\ call[c] \in Returned
  /\ call' = [call EXCEPT ![c] = "idle"]
  /\ attempt' = [attempt EXCEPT ![c] = 0] /\ waited' = [waited EXCEPT ![c] = 0]
  /\ dropped' = [dropped EXCEPT ![c] = FALSE]
  /\ UNCHANGED <<delay, marker>>

\* LocalServer.Reset.
ClearMarkers ==
  /\ marker' = [r \in Role |-> 0]
  /\ UNCHANGED callVars

LimitNext ==
  \/ \E c \in Caller : Ask(c) \/ CallStep(c) \/ Cancel(c) \/ Again(c)
  \/ ClearMarkers

LimitSpec == LimitInit /\ [][LimitNext]_limitVars

-----------------------------------------------------------------------------
(* Properties *)

\* config.go 60-63: a call gives up a rate limit after max_wait.  It checks before a
\* wait and not after, so it goes over, by less than one wait.
WaitBounded == \A c \in Caller : waited[c] < MaxWait + LongestWait
=============================================================================
