----------------------------- MODULE Providers -----------------------------
(***************************************************************************)
(* internal/llm under RetryingProvider: a call of a CLI provider           *)
(* (claudecode.go, codex.go, geminicli.go over cli_common.go) as the life  *)
(* of a subprocess, a call of an API provider as one answer, and what each *)
(* makes of what comes back: an answer for the role to parse, an error, or *)
(* a rate limit for RateLimit to wait out.                                 *)
(*                                                                         *)
(* Texts are told apart as far as the code does: by wording that           *)
(* isRateLimitErr knows, and by the JSON the CLI in question writes.       *)
(***************************************************************************)
EXTENDS RateLimit

CONSTANT MaxPieces   \* bound on the pieces of a reply

ASSUME PiecesAssumption == MaxPieces \in Nat

VARIABLES
  kind,      \* the provider each role is configured with
  forced,    \* the call wants a tool's arguments: a review's does, and not a chat's
  proc,      \* the CLI of a call: none, running, ended, killed; back from cmd.Run
  child,     \* a process it has started is alive
  outcome,   \* what the provider will make of it
  late,      \* and what, if cmd.Run is in error for a child that keeps the output
  reported,  \* of a failed call: a limit was reported where the provider looks for one
  cut,       \* the last CLI of this call was killed
  verdict    \* what the role parses out of the answer, and what was in it

procVars == <<kind, forced, proc, child, outcome, late, reported, cut, verdict>>
provVars == <<limitVars, procVars>>

CLI  == {"claude-code", "codex", "gemini-cli"}
Kind == CLI \cup {"api"}

-----------------------------------------------------------------------------
(* What a CLI prints *)

\* Nothing, words, an error in the CLI's own JSON; or an answer, with an object in it
\* or without.  What has no object, or is an error, may say that a limit is reached.
Errors  == {"nothing", "words", "limit", "errorJSON", "limitJSON"}
Answer  == {"answer", "prose", "limitProse"}
Printed == Errors \cup Answer
Report  == [ok : BOOLEAN, out : Printed, err : Errors]

JSONError == {"errorJSON", "limitJSON"}

\* isRateLimitErr looks for the wording anywhere in the text of the error.
Failed(text) == IF text \in {"limit", "limitJSON", "limitProse"} THEN "limit" ELSE "error"

\* With a tool to call, an answer in which extractJSON finds no object is an error that
\* quotes it.
Answered(out, wanted) ==
  IF wanted /\ out # "answer" THEN Failed(out) ELSE "answer"

\* Mutant of RunError: stdout first.
RunErrorStdout(r) == IF r.out # "nothing" THEN r.out ELSE r.err

\* cmd.Run fails: stderr is the error's text, stdout only if that is blank.
RunError(r) == IF r.err # "nothing" THEN r.err ELSE r.out

\* Exit 0 and no result on stdout: an error with what is there instead.
ClaudeCode(r, wanted) ==
  IF ~r.ok THEN Failed(RunError(r))
  ELSE IF r.out \in Answer THEN Answered(r.out, wanted) ELSE Failed(r.out)

\* codexParseJSONL: the error events of the JSONL, and no other text.
HasErrorEvent(out) == out \in JSONError

\* Exit 0 and no last message: the error events.
Codex(r, wanted) ==
  IF ~r.ok THEN Failed(RunError(r))
  ELSE IF r.out \in Answer THEN Answered(r.out, wanted)
  ELSE IF HasErrorEvent(r.out) THEN Failed(r.out) ELSE "error"

\* parseGeminiJSON: the error object; other JSON has the answer, and what is no JSON is it.
HasErrorObject(out) == out \in JSONError

\* The error object on stdout, or on stderr if stdout is empty, before the exit code.
GeminiCLI(r, wanted) ==
  IF HasErrorObject(r.out) THEN Failed(r.out)
  ELSE IF r.out = "nothing" /\ HasErrorObject(r.err) THEN Failed(r.err)
  ELSE IF ~r.ok THEN Failed(RunError(r))
  ELSE Answered(r.out, wanted)

Interpreted(k, r, wanted) ==
  CASE k = "claude-code" -> ClaudeCode(r, wanted)
    [] k = "codex"       -> Codex(r, wanted)
    [] k = "gemini-cli"  -> GeminiCLI(r, wanted)

\* Where the comments of the providers say their CLI reports a limit (claudecode.go
\* 106-107, codex.go 104-105, geminicli.go 78-80).
Reported(k, r) ==
  \/ r.ok /\ r.out = "limitJSON"
  \/ ~r.ok /\ IF k = "gemini-cli" THEN r.out = "nothing" /\ r.err = "limitJSON"
              ELSE r.err \in {"limit", "limitJSON"}

Outcome   == [is : {"none", "answer", "error", "limit"}, reported : BOOLEAN]
NoOutcome == [is |-> "none", reported |-> FALSE]

Read(k, r, wanted) == [is |-> Interpreted(k, r, wanted), reported |-> Reported(k, r)]

-----------------------------------------------------------------------------
(* What a model replies, and what a role reads in it *)

\* A reply is a text in pieces: words, code fences, an opening brace that is never closed,
\* braces around what is no JSON, and JSON objects: one that approves, one that does not,
\* one without that field and one with something else than a boolean in it.  The words
\* come without braces and fences.  An API's reply can be a tool's arguments instead.
Object   == {"approve", "reject", "other", "mistyped"}
Opening  == Object \cup {"open", "broken"}
Fence    == {"fence", "json fence"}
Piece    == {"words"} \cup Opening \cup Fence
Text     == UNION {[1..n -> Piece] : n \in 0..MaxPieces}
Reply    == [tool : BOOLEAN, text : Text]

\* Where the first piece of a text that is one of ps is.
FirstOf(ps, text) ==
  {i \in DOMAIN text : text[i] \in ps /\ \A j \in 1..(i - 1) : text[j] \notin ps}

\* extractJSON, by which a CLI provider fills ToolInput: from the first opening brace to
\* its own closing one, in a fence or behind words, if that is JSON.  The object or none.
ExtractJSON(text) == {text[i] : i \in FirstOf(Opening, text)} \cap Object

\* stripCodeFence, for an answer without ToolInput: what follows the first fence with a
\* "json", or else a fence the text begins with, up to the next fence; or else all.
StripCodeFence(text) ==
  LET from == IF FirstOf({"json fence"}, text) # {} THEN FirstOf({"json fence"}, text)
              ELSE IF 1 \in FirstOf({"fence"}, text) THEN {1} ELSE {0}
  IN {i \in DOMAIN text : \E f \in from :
        f < i /\ (f > 0 => \A j \in (f + 1)..i : text[j] \notin Fence)}

\* What json.Unmarshal makes of some pieces: they must be one object and no more.
Alone(is, text) == {o \in Object : \E i \in is : is = {i} /\ text[i] = o}

\* Mutant of ParseReview: an answer that says neither is an approval.
ParseReviewKindly(objects) ==
  IF objects \subseteq {"mistyped"} THEN "error"
  ELSE IF objects = {"reject"} THEN "rejected" ELSE "approved"

\* parseReview of the object found, if there is one.  A field that is not there is false.
ParseReview(objects) ==
  IF objects \subseteq {"mistyped"} THEN "error"
  ELSE IF objects = {"approve"} THEN "approved" ELSE "rejected"

\* The answer of an API has ToolInput if the model used the tool.
ReadReply(k, reply) ==
  ParseReview(IF k \in CLI THEN ExtractJSON(reply.text)
              ELSE Alone(IF reply.tool THEN DOMAIN reply.text ELSE StripCodeFence(reply.text),
                         reply.text))

\* The objects there are in a reply.
Objects(reply) == {reply.text[i] : i \in DOMAIN reply.text} \cap Object

NoVerdict == [says |-> "none", in |-> {}]

-----------------------------------------------------------------------------
(* A subprocess *)

ProvTypeOK ==
  /\ kind \in [Role -> Kind] /\ forced \in [Caller -> BOOLEAN]
  /\ proc \in [Caller -> {"none", "running", "ended", "killed", "back"}]
  /\ child \in [Caller -> BOOLEAN] /\ cut \in [Caller -> BOOLEAN]
  /\ reported \in [Caller -> BOOLEAN]
  /\ outcome \in [Caller -> Outcome] /\ late \in [Caller -> Outcome]
  /\ verdict \in [Caller -> [says : {"none", "error", "approved", "rejected"},
                               in : SUBSET Object]]

ProvInit ==
  /\ LimitInit
  /\ kind \in [Role -> Kind] /\ forced = [c \in Caller |-> FALSE]
  /\ proc = [c \in Caller |-> "none"] /\ child = [c \in Caller |-> FALSE]
  /\ outcome = [c \in Caller |-> NoOutcome] /\ late = [c \in Caller |-> NoOutcome]
  /\ reported = [c \in Caller |-> FALSE]
  /\ cut = [c \in Caller |-> FALSE]
  /\ verdict = [c \in Caller |-> NoVerdict]

KindOf(c) == kind[RoleOf[c]]

\* A role's call, or a chat's.
Calls(c) ==
  /\ Ask(c)
  /\ forced' \in {[forced EXCEPT ![c] = b] : b \in BOOLEAN}
  /\ UNCHANGED <<kind, proc, child, outcome, late, reported, cut, verdict>>

\* cmd.Start, in a process group of its own; the CLI may start processes.
Spawn(c) ==
  /\ call[c] = "asking" /\ proc[c] = "none" /\ KindOf(c) \in CLI /\ ~dropped[c]
  /\ proc' = [proc EXCEPT ![c] = "running"]
  /\ child' \in {[child EXCEPT ![c] = b] : b \in BOOLEAN}
  /\ cut' = [cut EXCEPT ![c] = FALSE]
  /\ UNCHANGED <<limitVars, kind, forced, outcome, late, reported, verdict>>

\* cmd.Start of a context that is done starts nothing.
SpawnRefused(c) ==
  /\ call[c] = "asking" /\ proc[c] = "none" /\ KindOf(c) \in CLI /\ dropped[c]
  /\ proc' = [proc EXCEPT ![c] = "back"]
  /\ outcome' = [outcome EXCEPT ![c] = [is |-> "error", reported |-> FALSE]]
  /\ UNCHANGED <<limitVars, kind, forced, child, late, reported, cut, verdict>>

\* The CLI ends by itself; what it has started may go on.
Ends(c, r) ==
  /\ proc[c] = "running"
  /\ proc' = [proc EXCEPT ![c] = "ended"]
  /\ outcome' = [outcome EXCEPT ![c] = Read(KindOf(c), r, forced[c])]
  /\ late' = [late EXCEPT ![c] = Read(KindOf(c), [r EXCEPT !.ok = FALSE], forced[c])]
  /\ UNCHANGED <<limitVars, kind, forced, child, reported, cut, verdict>>

ChildEnds(c) ==
  /\ child[c]
  /\ child' = [child EXCEPT ![c] = FALSE]
  /\ UNCHANGED <<limitVars, kind, forced, proc, outcome, late, reported, cut, verdict>>

KilledAt(text) == [is |-> Failed(text), reported |-> FALSE]

\* Mutant of Kill: the CLI is killed, and not its group.
KillOne(c) ==
  /\ proc[c] = "running" /\ dropped[c]
  /\ proc' = [proc EXCEPT ![c] = "killed"]
  /\ cut' = [cut EXCEPT ![c] = TRUE]
  /\ \E text \in Errors : /\ outcome' = [outcome EXCEPT ![c] = KilledAt(text)]
                         /\ late' = [late EXCEPT ![c] = KilledAt(text)]
  /\ UNCHANGED <<limitVars, kind, forced, child, reported, verdict>>

\* The context is done while the CLI runs: SIGKILL to the group.  The error has what was
\* on stderr by then.
Kill(c) ==
  /\ proc[c] = "running" /\ dropped[c]
  /\ proc' = [proc EXCEPT ![c] = "killed"]
  /\ child' = [child EXCEPT ![c] = FALSE]
  /\ cut' = [cut EXCEPT ![c] = TRUE]
  /\ outcome' \in {[outcome EXCEPT ![c] = KilledAt(text)] : text \in Errors}
  /\ UNCHANGED <<limitVars, kind, forced, late, reported, verdict>>

\* Mutant of RunReturns: cmd.Wait waits for the end of the output, however long.
RunWaits(c) ==
  /\ proc[c] \in {"ended", "killed"} /\ ~child[c]
  /\ proc' = [proc EXCEPT ![c] = "back"]
  /\ late' = [late EXCEPT ![c] = NoOutcome]
  /\ UNCHANGED <<limitVars, kind, forced, child, outcome, reported, cut, verdict>>

\* The output ends with the last process that holds it, or WaitDelay after the CLI's
\* end: then cmd.Run is in error whatever the CLI has answered.
RunReturns(c) ==
  /\ proc[c] \in {"ended", "killed"}
  /\ proc' = [proc EXCEPT ![c] = "back"]
  /\ outcome' = IF child[c] THEN [outcome EXCEPT ![c] = late[c]] ELSE outcome
  /\ late' = [late EXCEPT ![c] = NoOutcome]
  /\ UNCHANGED <<limitVars, kind, forced, child, reported, cut, verdict>>

\* An API answers, or its error does.
APIReturns(c) ==
  /\ call[c] = "asking" /\ proc[c] = "none" /\ KindOf(c) = "api"
  /\ proc' = [proc EXCEPT ![c] = "back"]
  /\ \E is \in {"answer", "error", "limit"} :
       outcome' = [outcome EXCEPT ![c] = [is |-> is, reported |-> is = "limit"]]
  /\ UNCHANGED <<limitVars, kind, forced, child, late, reported, cut, verdict>>

-----------------------------------------------------------------------------
(* The call that RetryingProvider makes has returned *)

Back(c, is) ==
  /\ proc[c] = "back" /\ outcome[c].is = is
  /\ proc' = [proc EXCEPT ![c] = "none"]
  /\ outcome' = [outcome EXCEPT ![c] = NoOutcome]
  /\ UNCHANGED <<kind, forced, child, late, cut>>

\* A reply is read by the role once the call has returned it.
Answers(c, reply) ==
  /\ Back(c, "answer")
  /\ KindOf(c) \in CLI => ~reply.tool /\ (forced[c] => ExtractJSON(reply.text) # {})
  /\ Succeeds(c)
  /\ verdict' = [verdict EXCEPT ![c] =
                   IF forced[c] THEN [says |-> ReadReply(KindOf(c), reply), in |-> Objects(reply)]
                   ELSE NoVerdict]
  /\ UNCHANGED reported

IsThrottled(c) ==
  /\ Back(c, "limit")
  /\ \E d \in 1..LongestWait : Throttled(c, d)
  /\ UNCHANGED <<reported, verdict>>

\* No limit, or one after maxWait.
IsInError(c) ==
  /\ \/ Back(c, "error")
     \/ Back(c, "limit") /\ waited[c] >= MaxWait
  /\ Fails(c)
  /\ reported' = [reported EXCEPT ![c] = outcome[c].reported]
  /\ UNCHANGED verdict

NextCall(c) ==
  /\ Again(c)
  /\ reported' = [reported EXCEPT ![c] = FALSE] /\ cut' = [cut EXCEPT ![c] = FALSE]
  /\ child' = [child EXCEPT ![c] = FALSE] /\ verdict' = [verdict EXCEPT ![c] = NoVerdict]
  /\ UNCHANGED <<kind, forced, proc, outcome, late>>

\* What the process does for a call, beside waiting for a CLI or an API.
ProviderStep(c) ==
  \/ Spawn(c) \/ SpawnRefused(c) \/ Kill(c) \/ RunReturns(c)
  \/ \E reply \in Reply : Answers(c, reply)
  \/ IsThrottled(c) \/ IsInError(c)
  \/ Retry(c) /\ UNCHANGED procVars
  \/ WaitCancelled(c) /\ UNCHANGED procVars

ProvNext ==
  \/ \E c \in Caller :
       \/ Calls(c)
       \/ Cancel(c) /\ UNCHANGED procVars
       \/ ProviderStep(c) \/ APIReturns(c) \/ ChildEnds(c) \/ NextCall(c)
       \/ \E r \in Report : Ends(c, r)
  \/ ClearMarkers /\ UNCHANGED procVars

ProvSpec == ProvInit /\ [][ProvNext]_provVars

\* Timers fire, the kernel delivers a kill, and a request whose context is done returns.
\* A CLI owes nothing, less so the processes it has started, and neither does an API: no
\* client is given a timeout, nor is the context of a run (anthropic.go 20, openai.go 19).
ProvFairSpec ==
  /\ ProvSpec
  /\ \A c \in Caller : /\ WF_provVars(ProviderStep(c))
                       /\ WF_provVars(dropped[c] /\ APIReturns(c))

-----------------------------------------------------------------------------
(* Properties *)

\* The CLI runs, or the API has been asked.
WithProvider(c) ==
  proc[c] = "running" \/ (call[c] = "asking" /\ proc[c] = "none" /\ KindOf(c) = "api")

\* cli_common.go 11-16: a call comes to its end whatever its provider throttles, prints
\* or leaves running: waits add up to maxWait, and a CLI that is cancelled is out in
\* WaitDelay though its children hold the output.  Only a CLI that never ends or an API
\* that never answers keeps its caller, and only until it is cancelled.
CallReturns ==
  \A c \in Caller :
    call[c] \in {"asking", "waiting"} ~>
      (call[c] \in Returned \/ [](WithProvider(c) /\ ~dropped[c]))

\* cli_common.go 11-16: of a CLI that was cut off, nothing is left when its call returns.
CancelLeavesNoProcess ==
  \A c \in Caller : cut[c] /\ call[c] \in Returned => ~child[c]

\* claudecode.go 106-107, codex.go 104-105, geminicli.go 78-80: a limit that is reported
\* where it is said to be is never taken for a failure while the call may still wait.
LimitIsHeard ==
  \A c \in Caller :
    call[c] = "failed" /\ reported[c] => waited[c] >= MaxWait \/ dropped[c]

\* Among what is in a reply, the role reads an object that is there, by whichever of the
\* two readers: an approval only if some object of the reply approves, a rejection only
\* if some does not.  So a reply whose objects agree is read as they say, or is an error.
\* One with several can be read as any of them: a `{}` in the prose before an approval
\* rejects, and the two readers differ on where they look.
VerdictIsTheReplys ==
  \A c \in Caller :
    /\ verdict[c].says = "approved" => "approve" \in verdict[c].in
    /\ verdict[c].says = "rejected" => verdict[c].in \cap {"reject", "other"} # {}

=============================================================================
