----------------------------- MODULE MCOperations -----------------------------
(***************************************************************************)
(* The components that keep the agent running, side by side: scene says    *)
(* which of them moves in a behaviour, the others stay as they start.      *)
(* They share no state, so what holds of each in its scene holds of all    *)
(* together.                                                               *)
(***************************************************************************)
EXTENDS Custody, WorkerLoop, Access, ChatDesk, BriefDesk, TLC

VARIABLE scene

Scenes == {"custody", "workers", "limiter", "pairing", "tokens", "chat", "briefs"}

Init ==
    /\ scene \in Scenes
    /\ CustodyInit /\ WorkersInit /\ AccessInit /\ ChatInit /\ BriefDeskInit
    /\ scene # "chat" => operators = {}
    /\ scene # "briefs" => localMode = "auto"
    /\ dmPolicy \in CASE scene = "limiter" -> {"open"}
                      [] scene = "pairing" -> {"disabled", "allowlist", "pairing"}
                      [] OTHER -> {"pairing"}

\* One guest is enough to count messages, and one message at a time to pair.
Somebody == {CHOOSE u \in Guest : TRUE}
OneByOne == Cardinality({g \in Gate : gates'[g] # Resting}) <= 1

\* One brief in the making, while the other's customer has a link to nothing.
OneAtWork == Cardinality({j \in Ordered : making'[j] \notin {"ordered", "awaiting"}}) <= 1

Next ==
    /\ UNCHANGED scene
    /\ IF scene = "custody" THEN CustodyNext ELSE UNCHANGED custodyVars
    /\ IF scene = "workers" THEN WorkersNext ELSE UNCHANGED workerVars
    /\ IF scene = "chat" THEN ChatNext ELSE UNCHANGED chatVars
    /\ IF scene = "briefs" THEN BriefDeskNext /\ OneAtWork ELSE UNCHANGED deskVars
    /\ CASE scene = "limiter" -> DoorNext(Somebody, {"text", "exempt"}) \/ BansNext
         [] scene = "pairing" -> (DoorNext(Guest, {"start"}) \/ ApprovalsNext) /\ OneByOne
         [] scene = "tokens"  -> TokensNext
         [] OTHER -> UNCHANGED accessVars

vars == <<scene, custodyVars, workerVars, accessVars, chatVars, deskVars>>

\* The workers' processes go on, and so does their time.
Spec ==
    /\ Init /\ [][Next]_vars
    /\ WF_workerVars(scene = "workers" /\ WorkerTick)
    /\ \A w \in Worker : WF_workerVars(scene = "workers" /\ GoOn(w))

\* What WorkerLoop promises of the long run, in the scene in which time passes
\* for the workers.
JobsAreClosed == scene = "workers" => UnpaidIsClosed

-----------------------------------------------------------------------------
TestEnvironments ==
    {[flag |-> "sim", rail |-> "sim", key |-> "unset", cold |-> "unset"],
     [flag |-> "live", rail |-> "live", key |-> "reference", cold |-> "nano"],
     [flag |-> "live", rail |-> "sim", key |-> "material", cold |-> "hot"]}
TestLife == [j \in Pending |-> 2]
TestQuotas == {[window |-> 0, limit |-> 1], [window |-> 1, limit |-> 2]}
=============================================================================
