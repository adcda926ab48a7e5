------------------------------ MODULE MC_Chat ------------------------------
(* An instance of Chat for TLC: one chat beside the pipeline. *)
EXTENDS Chat, TLC

CONSTANT chatter
MCClient == {chatter}
MCRoleOf == [c \in MCClient |-> "backend"]

\* The pipeline and the channels have nothing in common but the chat's end, so that they
\* need not be interleaved in full.  A chat with nothing to inject comes before all tasks.
\* One that injects finds the first task that is fetched (what came before is of no concern
\* to it), has an answer of one chunk or an error, at the first attempt, and the pipeline works on
\* when the client has that.
OneAtATime ==
  \A c \in Client :
    /\ copier[c] = "off" =>
         /\ Len(copy') <= 1 /\ \A t \in Task : row[t] # "absent" => row'[t] # "absent"
         /\ copier'[c] = "on" /\ held'[c] = 0 => \A t \in Task : row[t] = "absent"
    /\ copier[c] \in {"on", "done"} \/ dropped[c] \/ out[c] # <<>> =>
         UNCHANGED taskVars \/ copy' = <<>> \/ copier'[c] # copier[c]
    /\ held[c] # 0 =>
         /\ sent'[c] <= 1 /\ attempt'[c] = 0
         /\ sent'[c] = (CASE call'[c] = "answered" -> 1 [] call'[c] = "failed" -> 0 [] OTHER -> sent'[c])
=============================================================================
