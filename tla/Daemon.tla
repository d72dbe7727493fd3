------------------------------- MODULE Daemon -------------------------------
(***************************************************************************)
(* The life of codebridged: Daemon.Run and shutdown (internal/daemon/      *)
(* daemon.go), its sockets and token file, the MCP ingress and the         *)
(* supervisor of tunnel-client (tunnel.go).  Processes of the daemon       *)
(* follow one another; each is a generation.  What a process leaves in the *)
(* file system, and a child it did not stop, outlive it.                   *)
(***************************************************************************)
EXTENDS Integers, FiniteSets

CONSTANTS MaxGens,      \* bound on the processes started
          MaxRestarts,  \* Tunnel.MaxRestarts; 0 is no limit
          BackoffMax,   \* Tunnel.RestartBackoffMax, in units of RestartBackoff
          MaxExits      \* bound on children that exit or fail to start of themselves

ASSUME DaemonAssumption == MaxGens \in Nat /\ MaxRestarts \in Nat /\ BackoffMax \in Nat \ {0} /\ MaxExits \in Nat

VARIABLES gen, run,     \* the process and where its Run is
          ctxDone,      \* the context of Run is cancelled (a signal)
          late,         \* a shutdown timer of this process ran out
          storeOpen, inflight,         \* the runtime store; an MCP request is being served
          sock, token,  \* files: the generation that made them, 0 for none
          files,        \* paths at which something that is not a socket stands
          loop, tstate, cmd, restarts, backoff, cancelled,   \* TunnelSupervisor
          children,     \* generations that have a running child
          signals,      \* what the child of this process was sent
          attempts, exits, wasReady                          \* history and bound

tunnelVars == <<loop, tstate, cmd, restarts, backoff, cancelled, children, signals, attempts, exits>>
fileVars == <<sock, token, files>>
daemonVars == <<gen, run, ctxDone, late, storeOpen, inflight, fileVars, tunnelVars, wasReady>>

Sockets == {"host", "mcp"}
Tunnels == {"disabled", "not_configured", "restarting"}   \* what Start makes of the configuration

-----------------------------------------------------------------------------
(* Run *)

\* main opens the store and builds the daemon.
NewProcess ==
  /\ run \in {"none", "returned", "crashed"} /\ gen < MaxGens
  /\ gen' = gen + 1 /\ run' = "token"
  /\ storeOpen' = TRUE /\ inflight' = FALSE /\ ctxDone' = FALSE /\ late' = FALSE /\ wasReady' = FALSE
  /\ loop' = "off" /\ tstate' = "disabled" /\ cmd' = FALSE /\ restarts' = 0 /\ backoff' = 1
  /\ cancelled' = FALSE /\ signals' = {} /\ attempts' = 0
  /\ UNCHANGED <<fileVars, children, exits>>

writeTokenFile ==
  /\ run = "token"
  /\ token' = gen /\ run' = "host"
  /\ UNCHANGED <<gen, ctxDone, late, storeOpen, inflight, sock, files, tunnelVars, wasReady>>

\* A socket that is there is removed; anything else is an error.
ListenUnix(path) ==
  IF path \in files THEN sock ELSE [sock EXCEPT ![path] = gen]

Fails == run' = "returned" /\ token' = 0      \* the deferred Remove of the token file

ListenHost ==
  /\ run = "host"
  /\ sock' = ListenUnix("host")
  /\ IF sock'["host"] = gen THEN run' = "mcp" /\ UNCHANGED token ELSE Fails
  /\ UNCHANGED <<gen, ctxDone, late, storeOpen, inflight, files, tunnelVars, wasReady>>

\* On an error hostSrv.Close closes, and so removes, the listener if Serve has set it.
startMCPIngress ==
  /\ run = "mcp"
  /\ LET bound == ListenUnix("mcp")
     IN \/ bound["mcp"] = gen /\ sock' = bound /\ run' = "tunnel" /\ UNCHANGED token
        \/ bound["mcp"] # gen /\ sock' \in {sock, [sock EXCEPT !["host"] = 0]} /\ Fails
  /\ UNCHANGED <<gen, ctxDone, late, storeOpen, inflight, files, tunnelVars, wasReady>>

StartTunnel ==
  /\ run = "tunnel"
  /\ run' = "ready" /\ wasReady' = TRUE
  /\ \E t \in Tunnels : tstate' = t /\ loop' = IF t = "restarting" THEN "check" ELSE "off"
  /\ cancelled' = ctxDone
  /\ UNCHANGED <<gen, ctxDone, late, storeOpen, inflight, fileVars, cmd, restarts, backoff, children,
                 signals, attempts, exits>>

\* The signal; the context of the tunnel is a child of this one.
Cancel ==
  /\ run \notin {"none", "returned", "crashed"} /\ ~ctxDone
  /\ ctxDone' = TRUE
  /\ cancelled' = (cancelled \/ loop # "off")
  /\ UNCHANGED <<gen, run, late, storeOpen, inflight, fileVars, loop, tstate, cmd, restarts, backoff, children,
                 signals, attempts, exits, wasReady>>

\* A request on the MCP ingress, served from its listener on.
IngressRequest ==
  /\ ~inflight /\ run \in {"tunnel", "ready", "grace", "await"}
  /\ inflight' = TRUE
  /\ UNCHANGED <<gen, run, ctxDone, late, storeOpen, fileVars, tunnelVars, wasReady>>
IngressAnswer ==
  /\ inflight
  /\ inflight' = FALSE
  /\ UNCHANGED <<gen, run, ctxDone, late, storeOpen, fileVars, tunnelVars, wasReady>>

-----------------------------------------------------------------------------
(* shutdown: the tunnel, the ingress, Host IPC, the store, the socket paths. *)

\* After a signal or a fatal listener error.  TunnelSupervisor.Stop cancels
\* its context, and sends SIGTERM to the command it sees.
StopTunnel ==
  /\ run = "ready" /\ (ctxDone \/ exits < MaxExits)
  /\ exits' = IF ctxDone THEN exits ELSE exits + 1
  /\ cancelled' = (cancelled \/ loop # "off")
  /\ IF cmd THEN run' = "grace" /\ signals' = signals \cup {"term"}
     ELSE run' = "await" /\ UNCHANGED signals
  /\ UNCHANGED <<gen, ctxDone, late, storeOpen, inflight, fileVars, loop, tstate, cmd, restarts, backoff,
                 children, attempts, wasReady>>

\* The grace loop: the command is reaped, or the grace is over.
Grace ==
  /\ run = "grace"
  /\ run' = "await"
  /\ \/ ~cmd /\ UNCHANGED <<late, children, signals>>
     \/ cmd /\ late' = TRUE /\ signals' = signals \cup {"graceOver", "kill"} /\ children' = children \ {gen}
  /\ UNCHANGED <<gen, ctxDone, storeOpen, inflight, fileVars, loop, tstate, cmd, restarts, backoff, cancelled,
                 attempts, exits, wasReady>>

\* Mutant: Stop does not wait for the loop.
AwaitLoop_Skips ==
  /\ run = "await"
  /\ run' = "stopMCP"
  /\ UNCHANGED <<gen, ctxDone, late, storeOpen, inflight, fileVars, tunnelVars, wasReady>>

\* The end of Stop: the loop has ended, or the grace is over once more.
AwaitLoop ==
  /\ run = "await"
  /\ run' = "stopMCP"
  /\ late' = (late \/ loop \notin {"off", "end"})
  /\ UNCHANGED <<gen, ctxDone, storeOpen, inflight, fileVars, tunnelVars, wasReady>>

\* Shutdown waits for the requests; when the grace is over, Close does not.
stopMCPIngress ==
  /\ run = "stopMCP"
  /\ run' = "stopHost"
  /\ late' = (late \/ inflight)
  /\ sock' = [sock EXCEPT !["mcp"] = 0]
  /\ UNCHANGED <<gen, ctxDone, storeOpen, inflight, token, files, tunnelVars, wasReady>>

StopHostIPC ==
  /\ run = "stopHost"
  /\ run' = "stopStore"
  /\ sock' = [sock EXCEPT !["host"] = 0]
  /\ UNCHANGED <<gen, ctxDone, late, storeOpen, inflight, token, files, tunnelVars, wasReady>>

CloseStore ==
  /\ run = "stopStore"
  /\ run' = "unlink" /\ storeOpen' = FALSE
  /\ UNCHANGED <<gen, ctxDone, late, inflight, fileVars, tunnelVars, wasReady>>

\* The socket paths are removed, Run returns and the token file goes.
RunReturns ==
  /\ run = "unlink"
  /\ run' = "returned" /\ token' = 0
  /\ sock' = [s \in Sockets |-> 0]
  /\ inflight' = FALSE
  /\ UNCHANGED <<gen, ctxDone, late, storeOpen, files, tunnelVars, wasReady>>

\* The process is killed: its files and its child stay.
Crash ==
  /\ run \notin {"none", "returned", "crashed"}
  /\ run' = "crashed"
  /\ loop' = "off" /\ cmd' = FALSE /\ inflight' = FALSE /\ storeOpen' = FALSE
  /\ UNCHANGED <<gen, ctxDone, late, fileVars, tstate, restarts, backoff, cancelled, children, signals, attempts,
                 exits, wasReady>>

-----------------------------------------------------------------------------
(* The loop of TunnelSupervisor; "started" is between cmd.Start and t.cmd = cmd. *)

loopRest == <<gen, run, ctxDone, late, storeOpen, inflight, fileVars, wasReady>>
Ended(s) == loop' = "end" /\ tstate' = s

CheckContext ==
  /\ loop = "check"
  /\ IF cancelled THEN Ended("stopped") ELSE loop' = "start" /\ UNCHANGED tstate
  /\ UNCHANGED <<loopRest, cmd, restarts, backoff, cancelled, children, signals, attempts, exits>>

growBackoff(b) == IF 2 * b > BackoffMax THEN BackoffMax ELSE 2 * b

givesUp(n) == MaxRestarts > 0 /\ n >= MaxRestarts

\* A start that failed, or a child that is gone: count, and give up or back off.
Restarts ==
  /\ restarts' = restarts + 1
  /\ IF givesUp(restarts + 1) THEN Ended("failed") ELSE loop' = "backoff" /\ tstate' = "restarting"

CmdStart ==
  /\ loop = "start"
  /\ attempts' = attempts + 1
  /\ \/ /\ ~cancelled
        /\ loop' = "started" /\ children' = children \cup {gen}
        /\ UNCHANGED <<tstate, restarts, exits>>
     \/ /\ cancelled \/ exits < MaxExits
        /\ exits' = IF cancelled THEN exits ELSE exits + 1
        /\ Restarts /\ UNCHANGED children
  /\ UNCHANGED <<loopRest, cmd, backoff, cancelled, signals>>

SetRunning ==
  /\ loop = "started"
  /\ loop' = "wait" /\ cmd' = TRUE /\ tstate' = "running"
  /\ UNCHANGED <<loopRest, restarts, backoff, cancelled, children, signals, attempts, exits>>

WaitReturns ==
  /\ loop = "wait" /\ gen \notin children
  /\ loop' = "exited" /\ cmd' = FALSE
  /\ UNCHANGED <<loopRest, tstate, restarts, backoff, cancelled, children, signals, attempts, exits>>

AfterWait ==
  /\ loop = "exited"
  /\ IF cancelled THEN Ended("stopped") /\ UNCHANGED restarts ELSE Restarts
  /\ UNCHANGED <<loopRest, cmd, backoff, cancelled, children, signals, attempts, exits>>

sleepCtx ==
  /\ loop = "backoff"
  /\ IF cancelled THEN Ended("stopped") /\ UNCHANGED backoff
     ELSE loop' = "check" /\ backoff' = growBackoff(backoff) /\ UNCHANGED tstate
  /\ UNCHANGED <<loopRest, cmd, restarts, cancelled, children, signals, attempts, exits>>

\* exec.CommandContext: the child is killed when the context is done.
\* Mutant: exec.Command.
KillOnCancel_Never == FALSE /\ UNCHANGED daemonVars
KillOnCancel ==
  /\ cancelled /\ gen \in children /\ loop \in {"started", "wait"}
  /\ children' = children \ {gen} /\ signals' = signals \cup {"kill"}
  /\ UNCHANGED <<loopRest, loop, tstate, cmd, restarts, backoff, cancelled, attempts, exits>>

\* tunnel-client ends of itself, or on SIGTERM.
ChildExits ==
  /\ gen \in children /\ ("term" \in signals \/ exits < MaxExits)
  /\ children' = children \ {gen}
  /\ exits' = IF "term" \in signals THEN exits ELSE exits + 1
  /\ UNCHANGED <<loopRest, loop, tstate, cmd, restarts, backoff, cancelled, signals, attempts>>

-----------------------------------------------------------------------------
DaemonInit ==
  /\ gen = 0 /\ run = "none" /\ ctxDone = FALSE /\ late = FALSE /\ wasReady = FALSE
  /\ storeOpen = FALSE /\ inflight = FALSE
  /\ sock = [s \in Sockets |-> 0] /\ token = 0 /\ files \in {{}, {"host"}, {"mcp"}}
  /\ loop = "off" /\ tstate = "disabled" /\ cmd = FALSE /\ restarts = 0 /\ backoff = 1
  /\ cancelled = FALSE /\ children = {} /\ signals = {} /\ attempts = 0 /\ exits = 0

RunStep == writeTokenFile \/ ListenHost \/ startMCPIngress \/ StartTunnel \/ (ctxDone /\ StopTunnel)
           \/ Grace \/ AwaitLoop \/ stopMCPIngress \/ StopHostIPC \/ CloseStore \/ RunReturns
TunnelStep == CheckContext \/ CmdStart \/ SetRunning \/ WaitReturns \/ AfterWait \/ sleepCtx

DaemonNext == NewProcess \/ RunStep \/ StopTunnel \/ Cancel \/ IngressRequest \/ IngressAnswer \/ Crash
              \/ TunnelStep \/ KillOnCancel \/ ChildExits

\* The goroutines of a process run, and the kernel delivers the kill.
DaemonFairness == WF_daemonVars(RunStep) /\ WF_daemonVars(TunnelStep) /\ WF_daemonVars(KillOnCancel)

-----------------------------------------------------------------------------
(* Properties *)

\* A controlled shutdown whose timers did not run out leaves nothing behind:
\* no child, no socket, no token file, and the store closed.
ShutdownLeavesNothing ==
  run = "returned" /\ wasReady /\ ~late =>
    gen \notin children /\ token = 0 /\ sock = [s \in Sockets |-> 0] /\ ~storeOpen

\* shutdown closes the store only when no request of the ingress is left that
\* could read it, unless the grace was over.
StoreOutlivesIngress == run = "unlink" /\ ~late => ~inflight

\* tunnel-client is started at most MaxRestarts times, and "failed" and
\* "stopped" are reported only when no child of this process is running.
RestartsBounded ==
  /\ MaxRestarts > 0 => attempts <= MaxRestarts
  /\ tstate \in {"failed", "stopped"} => gen \notin children

\* A process comes up whatever an earlier one that was killed left behind,
\* unless a file that is not a socket stands in its way.
ComesUp ==
  (run = "token" /\ files = {}) ~> (run \in {"ready", "crashed"} \/ ctxDone)

\* A child that does not obey SIGTERM is gone in the end once the tunnel is
\* stopped, also when it was started while Stop looked for a command.
ChildDies == (run = "await") ~> (gen \notin children \/ run = "crashed")

\* What Stop says: the child is killed only after SIGTERM and the grace.
GraceGiven == "kill" \in signals => {"term", "graceOver"} \subseteq signals
=============================================================================
