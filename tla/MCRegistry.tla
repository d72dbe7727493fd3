----------------------------- MODULE MCRegistry -----------------------------
(***************************************************************************)
(* The Manager as its devices and callers meet it: how a device gets its   *)
(* identity (DeviceIdentity), how the client keeps its runtime and         *)
(* reconnects (ClientLoop), the sessions and calls of the Registry, all of *)
(* the one device d1.  The three share no variables here, so a behaviour   *)
(* is one of the three; Parts says which are taken.                        *)
(***************************************************************************)
EXTENDS Registry, DeviceIdentity, ClientLoop, TLC

CONSTANTS d1, Parts
VARIABLE part

OneDevice == [k \in Conns |-> d1]
Symmetry == Permutations(Conns) \cup Permutations(Calls) \cup Permutations(Handlers)

MCInit ==
  /\ part \in Parts
  /\ Init
  /\ IF part = "identity" THEN IdInit ELSE IdIdle /\ box = [d \in Boxes |-> [DownBox(0) EXCEPT !.at = "off"]]
  /\ IF part = "loop" THEN LoopInit
     ELSE /\ LoopIdle /\ at = "off"
          /\ env = [host |-> "", workspaces |-> {}, writable |-> {}, lsp |-> ""]
          /\ file.workspaces = {} /\ file.writable = {} /\ dirs = Names
MCNext ==
  \/ part = "registry" /\ Next /\ UNCHANGED <<part, idVars, loopVars>>
  \/ part = "identity" /\ IdNext /\ UNCHANGED <<part, vars, loopVars>>
  \/ part = "loop" /\ LoopNext /\ UNCHANGED <<part, vars, idVars>>
MCSpec == MCInit /\ [][MCNext]_<<part, vars, idVars, loopVars>>
\* In its first state no step of a part that is not taken is enabled that its
\* fairness speaks of, so that the three can be assumed together.
MCFairSpec == MCSpec /\ Fairness /\ IdFairness /\ LoopFairness
=============================================================================
