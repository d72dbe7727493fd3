----------------------------- MODULE ClientLoop -----------------------------
(***************************************************************************)
(* The main loop of cmd/client/main.go: the runtime is built from what the *)
(* environment pinned at the start and from the JSON file, a session is    *)
(* run with it, and the configuration UI saves the file and signals a      *)
(* reload.  Of the configuration the workspaces, the write opt-in, the     *)
(* manager host and LSP, as a setting with a pinned flag, are kept.        *)
(***************************************************************************)
EXTENDS Integers, FiniteSets

CONSTANTS Names,      \* workspace names
          Hosts,      \* manager hosts
          MaxSaves,   \* bound on what the operator does in the UI
          MaxEnds     \* bound on sessions that end by themselves

VARIABLES env,        \* what environment and flags set; "" and {} are unset
          file,       \* the JSON file
          dirs,       \* the workspaces whose directory exists
          boot,       \* bootOptions
          rt,         \* the runtime, or NoRuntime
          at,         \* where the loop is
          reload, disconnect,   \* the two one-slot channels
          backoff,    \* seconds
          saves, ends

loopVars == <<env, file, dirs, boot, rt, at, reload, disconnect, backoff, saves, ends>>

NoRuntime == [host |-> "", workspaces |-> {}, writable |-> {}, lsp |-> FALSE]
Files == [host : {""} \cup Hosts, workspaces : SUBSET Names, writable : SUBSET Names,
          lsp : BOOLEAN]
firstNonEmpty(a, b, c) == CASE a # "" -> a [] a = "" /\ b # "" -> b [] OTHER -> c

-----------------------------------------------------------------------------
(* Building a runtime *)

\* At least one workspace, the writable ones among them, and every directory
\* there.
ParseWorkspaceMap(entries, writable) ==
  entries # {} /\ writable \subseteq entries /\ entries \subseteq dirs

\* main: what the environment leaves open is filled from the file the process
\* starts with; the flags' defaults hide which of the two it was.
bootOptions(f) ==
  [host |-> firstNonEmpty(env.host, f.host, "local"), workspaces |-> env.workspaces,
   writable |-> IF env.writable # {} THEN env.writable ELSE f.writable,
   writablePinned |-> env.writable # {}, lspPinned |-> env.lsp # "",
   lsp |-> IF env.lsp # "" THEN env.lsp = "true" ELSE f.lsp]

buildRuntime(f) ==
  LET writable == IF ~boot.writablePinned /\ boot.writable = {} THEN f.writable ELSE boot.writable
      entries == IF boot.workspaces # {} THEN boot.workspaces ELSE f.workspaces
  IN IF ParseWorkspaceMap(entries, writable)
       THEN [host |-> firstNonEmpty(boot.host, f.host, "local"), workspaces |-> entries,
             writable |-> writable, lsp |-> IF boot.lspPinned THEN boot.lsp ELSE f.lsp]
       ELSE NoRuntime

-----------------------------------------------------------------------------
(* The loop *)

reconnectBackoffBase == 1
reconnectBackoffMax == 15
nextBackoff(current, stable) ==
  IF current <= 0 \/ stable THEN reconnectBackoffBase
  ELSE IF current * 2 < reconnectBackoffMax THEN current * 2 ELSE reconnectBackoffMax

Start ==
  /\ at = "start"
  /\ boot' = bootOptions(file)
  /\ at' = "built"
  /\ UNCHANGED <<env, file, dirs, rt, reload, disconnect, backoff, saves, ends>>

\* The first runtime, or one more attempt every three seconds.
Build ==
  /\ at \in {"built", "top"} /\ rt = NoRuntime
  /\ rt' = buildRuntime(file)
  /\ at' = "top"
  /\ UNCHANGED <<env, file, dirs, boot, reload, disconnect, backoff, saves, ends>>

RunSession ==
  /\ at = "top" /\ rt # NoRuntime
  /\ at' = "session"
  /\ UNCHANGED <<env, file, dirs, boot, rt, reload, disconnect, backoff, saves, ends>>

\* The reload case: a configuration that is rejected leaves the runtime.
ReloadCase ==
  /\ at = "session" /\ reload
  /\ reload' = FALSE
  /\ rt' = IF buildRuntime(file) # NoRuntime THEN buildRuntime(file) ELSE rt
  /\ backoff' = reconnectBackoffBase
  /\ at' = "top"
  /\ UNCHANGED <<env, file, dirs, boot, disconnect, saves, ends>>

DisconnectCase ==
  /\ at = "session" /\ disconnect
  /\ disconnect' = FALSE
  /\ at' = "top"
  /\ UNCHANGED <<env, file, dirs, boot, rt, reload, backoff, saves, ends>>

\* The session ends, with an error after a short or a long time, or without.
SessionEnds ==
  /\ at = "session"
  /\ ends < MaxEnds /\ ends' = ends + 1
  /\ \/ \E stable \in BOOLEAN : backoff' = nextBackoff(backoff, stable)
     \/ UNCHANGED backoff
  /\ at' = "wait"
  /\ UNCHANGED <<env, file, dirs, boot, rt, reload, disconnect, saves>>

Wake ==
  /\ at = "wait"
  /\ at' = "top"
  /\ UNCHANGED <<env, file, dirs, boot, rt, reload, disconnect, backoff, saves, ends>>

-----------------------------------------------------------------------------
(* The UI *)

\* Mutant: the signal reaches only a loop that is waiting for it, as with an
\* unbuffered channel.
SaveConfig_Connected ==
  /\ at \notin {"start", "built"}
  /\ saves < MaxSaves /\ saves' = saves + 1
  /\ \E f \in Files :
       IF f.host # "" /\ ParseWorkspaceMap(f.workspaces, f.writable)
         THEN file' = f /\ reload' = (reload \/ at = "session")
         ELSE UNCHANGED <<file, reload>>
  /\ UNCHANGED <<env, dirs, boot, rt, at, disconnect, backoff, ends>>

\* SaveConfig: a host is required, and the file must parse by itself.
SaveConfig ==
  /\ at \notin {"start", "built"}
  /\ saves < MaxSaves /\ saves' = saves + 1
  /\ \E f \in Files :
       IF f.host # "" /\ ParseWorkspaceMap(f.workspaces, f.writable)
         THEN file' = f /\ reload' = TRUE
         ELSE UNCHANGED <<file, reload>>
  /\ UNCHANGED <<env, dirs, boot, rt, at, disconnect, backoff, ends>>

\* An enrollment code alone: the file stays and a reload is signalled.
EnrollOnly ==
  /\ at \notin {"start", "built"}
  /\ saves < MaxSaves /\ saves' = saves + 1
  /\ reload' = TRUE
  /\ UNCHANGED <<env, file, dirs, boot, rt, at, disconnect, backoff, ends>>

UIDisconnect ==
  /\ at \notin {"start", "built"}
  /\ saves < MaxSaves /\ saves' = saves + 1
  /\ disconnect' = TRUE
  /\ UNCHANGED <<env, file, dirs, boot, rt, at, reload, backoff, ends>>

-----------------------------------------------------------------------------
LoopIdle ==
  /\ env \in [host : {""}, workspaces : {{}, {"a"}}, writable : {{}, {"a"}},
              lsp : {"", "false"}]
  /\ file \in Files /\ file.host = "" /\ file.lsp
  /\ dirs \in {Names, {"a"}}
  /\ boot = bootOptions(file) /\ rt = NoRuntime
  /\ reload = FALSE /\ disconnect = FALSE /\ backoff = reconnectBackoffBase
  /\ saves = 0 /\ ends = 0
LoopInit == LoopIdle /\ at = "start"

LoopNext == Start \/ Build \/ RunSession \/ ReloadCase \/ DisconnectCase \/ SessionEnds \/ Wake
            \/ SaveConfig \/ EnrollOnly \/ UIDisconnect

\* The loop is scheduled; a select takes a case that stays ready.
LoopFairness ==
  /\ WF_loopVars(Start \/ Build \/ RunSession \/ Wake)
  /\ WF_loopVars(ReloadCase) /\ WF_loopVars(DisconnectCase)
-----------------------------------------------------------------------------
(* Properties *)

\* Whatever is saved, the service and what is advertised agree: a runtime that
\* serves has workspaces, and only some of them are writable.
RuntimeValid == rt # NoRuntime => rt.workspaces # {} /\ rt.writable \subseteq rt.workspaces

\* "invalid input returns an error and the caller keeps the previous runtime".
RuntimeKept == [][rt # NoRuntime => rt' # NoRuntime]_loopVars

\* A saved configuration is not forgotten: once saves stop, the runtime is
\* the one the file gives, unless the file gives none; a reload that is
\* signalled while the loop waits, builds or reloads counts.
ConfigConverges == <>[](buildRuntime(file) \in {NoRuntime, rt})

\* "edits the JSON file -- workspaces, write opt-in, ... -- and triggers a
\* reconnect.  A setting pinned by environment or flag still wins": one that
\* is not pinned comes from the file in the end.
EditsApply ==
  <>[](env.writable = {} /\ env.workspaces = {} /\ ParseWorkspaceMap(file.workspaces, file.writable)
         => rt.writable = file.writable)
=============================================================================
