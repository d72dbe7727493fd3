------------------------------ MODULE MCNative ------------------------------
(***************************************************************************)
(* The native host: its IPC (HostIPC), the life of the daemon (Daemon),    *)
(* its store (RuntimeStore) and the app's control of the computer          *)
(* (Suspension).  They share no variables here, so a behaviour is one of   *)
(* the four; Parts says which are taken.                                   *)
(***************************************************************************)
EXTENDS HostIPC, Daemon, RuntimeStore, Suspension

CONSTANT Parts
VARIABLE part

\* A part that is not taken stays in a first state in which no fair step of
\* its own is enabled.
MCInit ==
  /\ part \in Parts
  /\ IpcInit
  /\ DaemonInit /\ (part # "daemon" => files = {})
  /\ StoreInit /\ (part # "store" => db = Empty)
  /\ SuspensionInit
MCNext ==
  \/ part = "ipc" /\ IpcNext /\ UNCHANGED <<part, daemonVars, storeVars, suspensionVars>>
  \/ part = "daemon" /\ DaemonNext /\ UNCHANGED <<part, ipcVars, storeVars, suspensionVars>>
  \/ part = "store" /\ StoreNext /\ UNCHANGED <<part, ipcVars, daemonVars, suspensionVars>>
  \/ part = "computer" /\ SuspensionNext /\ UNCHANGED <<part, ipcVars, daemonVars, storeVars>>
MCSpec == MCInit /\ [][MCNext]_<<part, ipcVars, daemonVars, storeVars, suspensionVars>>
MCFairSpec == MCSpec /\ IpcFairness /\ DaemonFairness
=============================================================================
