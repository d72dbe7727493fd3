--------------------------- MODULE MCRunEventSync ---------------------------
(***************************************************************************)
(* What becomes of the lines a harness writes: they pass through           *)
(* runSubagent and its result (Subagent), are shown to the caller of the   *)
(* agent tool (AgentProgress), and reach the Manager's mirror              *)
(* (RunEventSync); and whether the token of the one who asks for them      *)
(* comes to be accepted when its key is new (McpGateway).  The four share  *)
(* no variables, so a behaviour is one of them; Parts says which are       *)
(* taken.                                                                  *)
(***************************************************************************)
EXTENDS RunEventSync, Subagent, AgentProgress, McpGateway, GatewayValues

CONSTANT Parts
VARIABLE part

Profile(n, c, a, x) ==
  [name |-> n, client |-> c, agent |-> a, effort |-> "low", timeout |-> 1, extra |-> x]
MCTables == {<<>>, <<Profile("fast", "", "", "x")>>,
             <<Profile("fast", "codex", "deep", "x"), Profile("deep", "omp", "", "")>>,
             <<Profile("fast", "codex", "", "x"), Profile("fast", "omp", "", "")>>}

\* A part that is not taken rests where no step of it that is fair is enabled.
MCInit ==
  /\ part \in Parts
  /\ SyncInit(IF part = "sync" THEN "off" ELSE "synced")
  /\ SubagentInit /\ (part # "subagent" => table = <<>>)
  /\ ProgressInit
  /\ GwIdle /\ age = Cap
  /\ fleet = [d \in DOMAIN Fleet |-> "all"] /\ registrations = 0 /\ rotations = 0
MCNext ==
  \/ part = "sync" /\ Next /\ UNCHANGED <<part, subagentVars, progressVars, gwVars>>
  \/ part = "subagent" /\ SubagentNext /\ UNCHANGED <<part, vars, progressVars, gwVars>>
  \/ part = "progress" /\ ProgressNext /\ UNCHANGED <<part, vars, subagentVars, gwVars>>
  \/ part = "keys" /\ GwNext /\ UNCHANGED <<part, vars, subagentVars, progressVars>>
MCSpec == MCInit /\ [][MCNext]_<<part, vars, subagentVars, progressVars, gwVars>>
\* GwFairness, of the steps that the part may take.
GwFair ==
  LET on == part = "keys" IN
  /\ SF_gwVars(on /\ TimeGoesOn)
  /\ \A r \in Requests : WF_gwVars(on /\ GwStep(r))
  /\ \A t \in Bearer : SF_gwVars(on /\ \E r \in Requests : Arrive(r) /\ req'[r].token = t)
MCFairSpec == MCSpec /\ Fairness /\ SubagentFairness /\ GwFair

\* A key that the issuer goes on publishing comes to be accepted (NewKeyAccepted, of the
\* part that verifies tokens), however the answers of its endpoint overtake each other.
KeysAccepted == part = "keys" => NewKeyAccepted
=============================================================================
