------------------------------ MODULE Subagent ------------------------------
(***************************************************************************)
(* One subagent run of internal/agentops: the call is resolved against the *)
(* configured profiles and admitted (normalizeRunSpec, validateRunSpec),   *)
(* resolved again when it runs (runSubagent), and executed: the harness    *)
(* writes to a lineTee, whose lines cross a bounded channel to the pump    *)
(* that calls onEvent, and runSubagent puts the result together.           *)
(*                                                                         *)
(* The empty string stands for an omitted parameter, 0 for no timeout.     *)
(* Output is a sequence of numbered tokens, of which NL ends a line.       *)
(***************************************************************************)
EXTENDS Integers, Sequences, SequencesExt

CONSTANTS Tables,        \* the profile tables the operator may configure
          CallClients, CallAgents, CallEfforts, CallTimeouts,   \* what a call may name
          MaxReloads,    \* bound on changes of the table
          ChannelCap,    \* slots of the events channel, 256 in the code
          BufferMax,     \* capacity of the output buffer, in tokens
          TailMax,       \* what a completed result shows of it, twice what another does
          MaxWrites,     \* bound on the writes of the harness
          Helpers        \* whether the harness leaves a process behind that
                         \* keeps its output open

VARIABLES table,      \* SubagentProfiles
          reloads,
          stage,      \* how far the run is
          spec,       \* the call, as admitted
          again,      \* the call, as runSubagent resolved it
          output,     \* what the harness wrote
          tee,        \* the lineTee: carry and buf
          events,     \* the channel
          sent,       \* the lines onEvent was called with
          dropped,    \* whether a line met a full channel
          proc,       \* the harness process
          late,       \* whether the deadline of the run has passed
          result

subagentVars == <<table, reloads, stage, spec, again, output, tee, events, sent, dropped,
                  proc, late, result>>

NL == 0
DefaultSubagentClient == "omp"
Efforts == {"off", "minimal", "low", "medium", "high", "xhigh", "max"}
orDefault(v, def) == IF v = "" THEN def ELSE v

-----------------------------------------------------------------------------
(* Resolving a call *)

supportedSubagentClient(client) == client \in {"omp", "opencode", "codex"}

\* The first profile the agent parameter names counts, if the call names no
\* harness or the very harness of the profile; the call's fields win over the
\* profile's.
resolveSubagentCall(c) ==
  LET named == {i \in DOMAIN table : /\ table[i].name = c.agent /\ c.agent # ""
                                     /\ c.client \in {"", table[i].client}}
      p == table[CHOOSE i \in named : \A j \in named : i <= j]
  IN IF named = {} THEN [c EXCEPT !.client = orDefault(@, DefaultSubagentClient), !.extra = ""]
     ELSE [client |-> orDefault(p.client, DefaultSubagentClient),
           agent |-> orDefault(p.agent, p.name), effort |-> orDefault(c.effort, p.effort),
           timeout |-> IF c.timeout = 0 THEN p.timeout ELSE c.timeout, extra |-> p.extra]

validateSubagentCall(c) == supportedSubagentClient(c.client) /\ c.effort \in Efforts \cup {""}

\* The harness gets the effort, the agent name only where it has a flag for
\* it, and what the profile adds, before the task.
subagentArgs(c) ==
  LET effort == IF c.effort = "" \/ (c.effort = "off" /\ c.client # "omp")
                  THEN {} ELSE {<<"effort", c.effort>>}
      agent == IF c.agent = "" \/ c.client = "omp" THEN {} ELSE {<<"agent", c.agent>>}
      extra == IF c.extra = "" THEN {} ELSE {<<"extra", c.extra>>}
  IN effort \cup agent \cup extra

NoSpec == [client |-> "", agent |-> "", effort |-> "", timeout |-> 0, extra |-> ""]

\* Start: the spec is normalised, then validated.
Admit ==
  /\ stage = "idle"
  /\ \E client \in CallClients, agent \in CallAgents, effort \in CallEfforts,
        timeout \in CallTimeouts :
       LET c == resolveSubagentCall([client |-> client, agent |-> agent, effort |-> effort,
                                     timeout |-> timeout, extra |-> ""])
       IN IF validateSubagentCall(c) THEN stage' = "admitted" /\ spec' = c
                                     ELSE stage' = "rejected" /\ spec' = NoSpec
  /\ UNCHANGED <<table, reloads, again, output, tee, events, sent, dropped, proc, late, result>>

\* A configuration reload replaces the table; an empty one is not installed.
Reconfigure ==
  /\ stage \in {"idle", "admitted"}
  /\ reloads < MaxReloads
  /\ reloads' = reloads + 1
  /\ table' \in Tables \ {<<>>}
  /\ UNCHANGED <<stage, spec, again, output, tee, events, sent, dropped, proc, late, result>>

\* runSubagent: the admitted spec is resolved and validated again, and the
\* rules are asked again, which may refuse it by now.
Resolve ==
  /\ stage = "admitted"
  /\ LET c == resolveSubagentCall(spec)
     IN \/ validateSubagentCall(c) /\ stage' = "starting" /\ again' = c
        \/ stage' = "refused" /\ again' = NoSpec
  /\ UNCHANGED <<table, reloads, spec, output, tee, events, sent, dropped, proc, late, result>>

\* The process is started, or cannot be.  Of the call only its timeout
\* matters from here on.
Spawn ==
  /\ stage = "starting"
  /\ stage' = "running"
  /\ spec' = [NoSpec EXCEPT !.timeout = again.timeout]
  /\ again' = NoSpec
  /\ \E state \in {"up", "error"} : proc' = [state |-> state, held |-> FALSE]
  /\ table' = <<>> /\ reloads' = MaxReloads
  /\ UNCHANGED <<output, tee, events, sent, dropped, late, result>>

-----------------------------------------------------------------------------
(* Running it *)

Lines(s) ==   \* the complete lines of a sequence of tokens that are not blank
  LET ends == {i \in DOMAIN s : s[i] = NL}
      ordered == SelectSeq([i \in DOMAIN s |-> i], LAMBDA i : i \in ends)
      begin(k) == IF k = 1 THEN 1 ELSE ordered[k - 1] + 1
      all == [k \in DOMAIN ordered |-> SubSeq(s, begin(k), ordered[k] - 1)]
  IN SelectSeq(all, LAMBDA l : l # <<>>)
Unfinished(s) ==
  LET ends == {i \in DOMAIN s : s[i] = NL}
  IN IF ends = {} THEN s ELSE SubSeq(s, 1 + CHOOSE i \in ends : \A j \in ends : j <= i, Len(s))

\* lineTee.Write: complete lines go to the channel or are dropped, the rest
\* is carried, and the buffer takes what fits.
teeWrite(p) ==
  LET carry == tee.carry \o p
      lines == Lines(carry)
      room == ChannelCap - Len(events)
      fit == BufferMax - Len(tee.buf)
  IN /\ tee' = [carry |-> Unfinished(carry),
                buf |-> tee.buf \o (IF Len(p) <= fit THEN p ELSE SubSeq(p, 1, fit))]
     /\ events' = events \o SubSeq(lines, 1, IF Len(lines) <= room THEN Len(lines) ELSE room)
     /\ dropped' = (dropped \/ Len(lines) > room)

Write ==
  /\ stage = "running" /\ proc.state = "up"
  /\ Len(output) < 2 * MaxWrites
  /\ \E p \in {<<Len(output) + 1, NL>>, <<NL, Len(output) + 1>>, <<Len(output) + 1, Len(output) + 2>>} :
       output' = output \o p /\ teeWrite(p)
  /\ UNCHANGED <<table, reloads, stage, spec, again, sent, proc, late, result>>

\* The pump; onEvent returns.
Pump ==
  /\ events # <<>>
  /\ events' = Tail(events)
  /\ sent' = Append(sent, Head(events))
  /\ UNCHANGED <<table, reloads, stage, spec, again, output, tee, dropped, proc, late, result>>

\* The process ends by itself, or because its context was cancelled; it may
\* leave a helper behind that holds its output.
Exit ==
  /\ stage = "running" /\ proc.state = "up"
  /\ \E state \in {"done", "error"}, held \in {FALSE, Helpers} :
       proc' = [state |-> state, held |-> held]
  /\ UNCHANGED <<table, reloads, stage, spec, again, output, tee, events, sent, dropped, late, result>>

\* The deadline of the context passes; a process that still runs is killed.
Deadline ==
  /\ stage \in {"running", "draining"} /\ spec.timeout > 0 /\ ~late
  /\ late' = TRUE
  /\ IF proc.state = "up"
       THEN \E held \in {FALSE, Helpers} : proc' = [state |-> "killed", held |-> held]
       ELSE UNCHANGED proc
  /\ UNCHANGED <<table, reloads, stage, spec, again, output, tee, events, sent, dropped, result>>

\* cmd.Run returns once the process has ended and nobody holds its output;
\* the channel is closed.
RunReturns ==
  /\ stage = "running" /\ proc.state # "up" /\ ~proc.held
  /\ stage' = "draining"
  /\ UNCHANGED <<table, reloads, spec, again, output, tee, events, sent, dropped, proc, late, result>>

truncateTail(s, max) == IF Len(s) <= max THEN s ELSE SubSeq(s, Len(s) - max + 1, Len(s))

\* The context is asked before the error of the process; the result shows the
\* end of what the buffer took.
Result ==
  LET status == CASE late -> "timeout"
                  [] ~late /\ proc.state # "done" -> "failed"
                  [] OTHER -> "completed"
  IN [status |-> status,
      output |-> truncateTail(tee.buf, IF status = "completed" THEN TailMax ELSE TailMax \div 2)]

\* Mutant: the result does not wait for the pump.
Finish_NoWait ==
  /\ stage = "draining"
  /\ stage' = "finished"
  /\ result' = Result
  /\ UNCHANGED <<table, reloads, spec, again, output, tee, events, sent, dropped, proc, late>>

\* The pump has ended.
Finish ==
  /\ stage = "draining" /\ events = <<>>
  /\ stage' = "finished"
  /\ result' = Result
  /\ UNCHANGED <<table, reloads, spec, again, output, tee, events, sent, dropped, proc, late>>

-----------------------------------------------------------------------------
SubagentInit ==
  /\ table \in Tables /\ reloads = 0
  /\ stage = "idle" /\ spec = NoSpec /\ again = NoSpec
  /\ output = <<>> /\ tee = [carry |-> <<>>, buf |-> <<>>]
  /\ events = <<>> /\ sent = <<>> /\ dropped = FALSE
  /\ proc = [state |-> "none", held |-> FALSE] /\ late = FALSE
  /\ result = [status |-> "none", output |-> <<>>]

SubagentNext ==
  \/ Admit \/ Reconfigure \/ Resolve \/ Spawn \/ Write \/ Pump \/ Exit \/ Deadline
  \/ RunReturns \/ Finish

\* The goroutines of a run are scheduled, and the harness is killed when its
\* time is up; nothing says that a harness without a timeout ends.
SubagentFairness ==
  WF_subagentVars(Pump) /\ WF_subagentVars(RunReturns) /\ WF_subagentVars(Finish)

SubagentSpec == SubagentInit /\ [][SubagentNext]_subagentVars /\ SubagentFairness
-----------------------------------------------------------------------------
(* Properties *)

\* The steps of a run and of its process, and the capacity of the event channel.
SubagentTypeOK ==
  /\ stage \in {"idle", "admitted", "rejected", "starting", "refused", "running", "draining",
                "finished"}
  /\ Len(events) <= ChannelCap
  /\ proc.state \in {"none", "up", "done", "error", "killed"}

\* The harness that runs is the harness that was admitted, and whose
\* permission was asked, however the profiles change between Start and the
\* execution and although the call is resolved twice.
AdmittedHarnessRuns == stage = "starting" => again.client = spec.client

\* normalizeRunSpec: "runSubagent resolves the same call again, which is
\* idempotent": the command line of the run is that of the admitted call.
ResolvedOnce == stage = "starting" => subagentArgs(again) = subagentArgs(spec)

\* onEvent is called with the complete lines of the output in their order,
\* with none left out unless the channel was full, and never after the
\* result.
EventsComplete ==
  /\ stage = "finished" => events = <<>>
  /\ IF dropped THEN \A i, j \in DOMAIN sent : i < j => sent[i][1] < sent[j][1]
     ELSE sent \o events = Lines(output)

\* The result shows a piece of the output without a gap in it, whatever was
\* dropped on the way to onEvent: the end of the output while the buffer has
\* room for all of it, and what was written before it was full afterwards.
ResultContiguous ==
  stage = "finished" =>
    LET end == IF Len(output) <= BufferMax THEN Len(output) ELSE BufferMax
    IN result.output = SubSeq(output, end - Len(result.output) + 1, end)

\* "drop on backpressure; the final result keeps everything".
ResultKeepsEverything ==
  stage = "finished" /\ result.status = "completed" => result.output = output

\* "subagent exceeded the time limit and was killed": a run that ended by
\* itself is not reported so.
TimeoutMeansKilled == result.status = "timeout" => proc.state = "killed"

\* Once the harness has ended, the run has a result.
ResultFollows == (stage = "running" /\ proc.state # "up") ~> (stage = "finished")
=============================================================================
