---------------------------- MODULE AgentProgress ----------------------------
(***************************************************************************)
(* How the client serves one request of a device tool: the request case of *)
(* runGRPCSession in cmd/client/main.go, and executeRequest, runAgentTool, *)
(* waitRun and forwardRunEvents in cmd/client/agent_tools.go.  The agent   *)
(* tool starts a run, waits for it and polls its ring of event lines for   *)
(* progress; the run belongs to the run manager and outlives the call.     *)
(* Lines are numbered in the order the run records them.                   *)
(***************************************************************************)
EXTENDS Integers, Sequences

CONSTANTS RingCap,    \* lines the ring of a run keeps
          MaxLines,   \* bound on the lines a run records
          MaxServed   \* bound on the requests

ASSUME ProgressAssumption == RingCap \in Nat \ {0} /\ MaxLines \in Nat /\ MaxServed \in Nat

VARIABLES run,      \* the run: status and number of lines recorded
          request,  \* the request: tool, budget (0 for none), place
          served,   \* number of requests
          ctx,      \* whether the context of the call is live
          waited,   \* the channel runs.Wait answers on: "", "run" or "ctx"
          poll,     \* the flush in progress: the count Get returned, or -1
          counted,  \* sent, the lines accounted for
          shown,    \* the lines handed to onEvent
          reply     \* the response that is sent

progressVars == <<run, request, served, ctx, waited, poll, counted, shown, reply>>

\* The budget: 30 seconds, but for agent what timeout_seconds says.
Budget(tool, timeout) == IF tool # "agent" THEN 30 ELSE timeout

\* A request arrives; agent starts a run, which admission may reject.
\* agent_start answers at once, agent_result says what it finds.
Serve ==
  /\ request.at \in {"idle", "answered"}
  /\ served < MaxServed /\ served' = served + 1
  /\ \E tool \in {"agent", "agent_start", "agent_result", "other"}, timeout \in {0, 1} :
       request' = [at |-> IF tool = "agent" THEN "start" ELSE "execute", tool |-> tool,
                   budget |-> Budget(tool, timeout)]
  /\ ctx' = TRUE /\ waited' = "" /\ reply' = ""
  /\ UNCHANGED <<run, poll, counted, shown>>

Answer(r) == reply' = r /\ request' = [request EXCEPT !.at = "answered"]

\* runs.Start of the agent tool, with the context of the call.
StartRun ==
  /\ request.at = "start"
  /\ \/ /\ run.status = "none" /\ ctx
        /\ run' = [run EXCEPT !.status = "running"]
        /\ request' = [request EXCEPT !.at = "waiting"]
        /\ UNCHANGED reply
     \/ Answer("rejected") /\ UNCHANGED run
  /\ UNCHANGED <<served, ctx, waited, poll, counted, shown>>

\* handleAgentRunTool, or the service: one step, with an answer, an error or
\* a response over the size limit.
Execute ==
  /\ request.at = "execute"
  /\ \/ /\ request.tool = "agent_start" /\ run.status = "none"
        /\ run' = [run EXCEPT !.status = "running"]
        /\ Answer("accepted")
     \/ /\ request.tool = "agent_result" /\ run.status # "none"
        /\ Answer(IF run.status = "done" THEN "result" ELSE "pending")
        /\ UNCHANGED run
     \/ request.tool = "other" /\ (Answer("ok") \/ Answer("too large")) /\ UNCHANGED run
     \/ Answer("error") /\ UNCHANGED run
  /\ UNCHANGED <<served, ctx, waited, poll, counted, shown>>

\* The run records a line or ends.
Record ==
  /\ run.status = "running" /\ run.lines < MaxLines
  /\ run' = [run EXCEPT !.lines = @ + 1]
  /\ UNCHANGED <<request, served, ctx, waited, poll, counted, shown, reply>>
RunEnds ==
  /\ run.status = "running"
  /\ run' = [run EXCEPT !.status = "done"]
  /\ UNCHANGED <<request, served, ctx, waited, poll, counted, shown, reply>>

\* The budget is over, or the session ends.
ContextEnds ==
  /\ ctx /\ request.at \in {"start", "waiting"}
  /\ ctx' = FALSE
  /\ UNCHANGED <<run, request, served, waited, poll, counted, shown, reply>>

\* runs.Wait, in a goroutine of its own.
Wait ==
  /\ request.at = "waiting" /\ waited = ""
  /\ \/ run.status = "done" /\ waited' = "run"
     \/ ~ctx /\ waited' = "ctx"
  /\ UNCHANGED <<run, request, served, ctx, poll, counted, shown, reply>>

\* A flush begins: at a tick, or for the last time once Wait has answered.
Tick ==
  /\ request.at = "waiting" /\ poll = -1
  /\ poll' = run.lines
  /\ UNCHANGED <<run, request, served, ctx, waited, counted, shown, reply>>
LastFlush ==
  /\ request.at = "waiting" /\ poll = -1 /\ waited # ""
  /\ poll' = run.lines
  /\ request' = [request EXCEPT !.at = "returning"]
  /\ UNCHANGED <<run, served, ctx, waited, counted, shown, reply>>

\* runs.Events(id, n): the last n lines of the ring.
ringTail(n) ==
  LET k == IF n <= RingCap THEN n ELSE RingCap
      m == IF k <= run.lines THEN k ELSE run.lines
  IN [i \in 1 .. m |-> run.lines - m + i]

\* Mutant: a flush waits for two new lines.
forwardRunEvents_Batch(count) ==
  IF count <= counted + 1 THEN UNCHANGED <<counted, shown>>
  ELSE shown' = shown \o ringTail(count - counted) /\ counted' = count

\* forwardRunEvents, after Get: lines may have been recorded meanwhile.
forwardRunEvents(count) ==
  IF count <= counted THEN UNCHANGED <<counted, shown>>
  ELSE /\ shown' = shown \o ringTail(count - counted)
       /\ counted' = count

Flush ==
  /\ poll >= 0
  /\ forwardRunEvents(poll)
  /\ poll' = -1
  /\ IF request.at = "returning"
       THEN Answer(IF waited = "run" THEN "result" ELSE "still going")
       ELSE UNCHANGED <<request, reply>>
  /\ UNCHANGED <<run, served, ctx, waited>>

ProgressInit ==
  /\ run = [status |-> "none", lines |-> 0]
  /\ request = [at |-> "idle", tool |-> "", budget |-> 0]
  /\ served = 0 /\ ctx = TRUE /\ waited = "" /\ poll = -1 /\ counted = 0 /\ shown = <<>> /\ reply = ""

ProgressNext == Serve \/ StartRun \/ Execute \/ Record \/ RunEnds \/ ContextEnds \/ Wait
                \/ Tick \/ LastFlush \/ Flush
ProgressSpec == ProgressInit /\ [][ProgressNext]_progressVars
-----------------------------------------------------------------------------
(* Properties *)

\* An agent call that returns the result of its run has shown the last line
\* the run recorded.
LastLineShown ==
  reply = "result" /\ request.tool = "agent" /\ run.lines > 0 =>
    shown # <<>> /\ shown[Len(shown)] = run.lines

\* forwardRunEvents hands over "the event lines recorded after the first sent
\* ones": no line is shown twice.
ShownOnce == \A i, j \in DOMAIN shown : i # j => shown[i] # shown[j]
=============================================================================
