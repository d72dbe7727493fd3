---------------------------- MODULE RunEventSync ----------------------------
(***************************************************************************)
(* How the Manager learns the events of the runs of one Client.            *)
(*                                                                         *)
(* The Client journals every event and publishes it on a bounded live      *)
(* channel (internal/agentops/run_events.go).  A session over one gRPC     *)
(* stream (cmd/client/main.go, cmd/client/runtime_events.go) subscribes to *)
(* that channel, then advertises the heads of its runs; the Manager asks   *)
(* for what it misses (internal/manager/run_events.go, grpc_agent.go) and  *)
(* the Client replays it from the journal beside the live events.          *)
(*                                                                         *)
(* Events are their sequence numbers; payloads are left out, and so are    *)
(* the other messages of the stream.  A lost stream loses what is in       *)
(* flight, except that the Manager may still drain the old stream.         *)
(***************************************************************************)
EXTENDS Integers, Sequences, FiniteSets

CONSTANTS Runs,        \* runs of the Client
          MaxSeq,      \* bound: events of one run
          LiveCap,     \* buffer of the live subscription
          NetCap,      \* messages a stream holds before a sender blocks
          PendingCap,  \* maxPendingRunEvents
          MaxHeads,    \* maxRunSyncHeads
          MaxBreaks, MaxClientRestarts, MaxManagerRestarts, \* bounds on failures
          MaxFaults    \* bound: journal appends that fail

ASSUME SyncBoundsAssumption ==
  /\ IsFiniteSet(Runs)
  /\ MaxSeq \in Nat /\ LiveCap \in Nat \ {0} /\ NetCap \in Nat \ {0}
  /\ PendingCap \in Nat /\ MaxHeads \in Nat \ {0}
  /\ MaxBreaks \in Nat /\ MaxClientRestarts \in Nat /\ MaxManagerRestarts \in Nat
  /\ MaxFaults \in Nat

VARIABLES
  \* Client
  phase,    \* "none", "queued", "running" or "over"
  started,  \* rank of the run's StartedAt; 0 for a run that never started
  seqNo,    \* runState.eventSeq
  journal,  \* sequence numbers in agent_run_events
  sess,     \* "off", "registered", "subscribed", "listed" or "synced"
  listed,   \* the heads read by sendRunHeads
  live,     \* the subscription's channel, over all runs
  replay,   \* cursors that replayRunEvents has still to serve
  \* the stream, and the events the Manager has not read yet of earlier ones
  up, down, stale,
  \* Manager
  head, pending,
  \* history: a live or an early event was discarded since the last connect
  lossy,
  breaks, clientRestarts, managerRestarts, faults

client == <<phase, started, seqNo, journal>>
session == <<sess, listed, live, replay, up, down>>
broker == <<head, pending>>
counters == <<breaks, clientRestarts, managerRestarts, faults>>
vars == <<client, session, stale, broker, lossy, counters>>

Event(r, n) == [type |-> "event", run |-> r, seq |-> n]
Heads(hs) == [type |-> "heads", heads |-> hs]
Known == {r \in Runs : phase[r] # "none"}
Active == {r \in Runs : phase[r] \in {"queued", "running"}}
MaxOf(S) == IF S = {} THEN 0 ELSE CHOOSE x \in S : \A y \in S : y <= x
RangeOf(s) == {s[i] : i \in DOMAIN s}

-----------------------------------------------------------------------------
(* The journal.  Every append is published in the same lock section.       *)

Phases(p) == CASE p = "none"    -> {"queued"}
               [] p = "queued"  -> {"running", "over"}
               [] p = "running" -> {"running", "over"}
               [] OTHER         -> {}

\* Mutant: the session subscribes after it has sent the heads.
Publish_SubscribedLate(r, n) ==
  IF sess # "synced" THEN UNCHANGED <<live, lossy>>
  ELSE IF Len(live) < LiveCap
  THEN live' = Append(live, [run |-> r, seq |-> n]) /\ UNCHANGED lossy
  ELSE lossy' = TRUE /\ UNCHANGED live

\* publishRuntimeEventLocked: a full subscriber loses the event.
Publish(r, n) ==
  IF sess \notin {"subscribed", "listed", "synced"} THEN UNCHANGED <<live, lossy>>
  ELSE IF Len(live) < LiveCap
  THEN live' = Append(live, [run |-> r, seq |-> n]) /\ UNCHANGED lossy
  ELSE lossy' = TRUE /\ UNCHANGED live

\* appendRuntimeEventLocked, with the status change it records; the append to
\* the table may fail, which is only logged.
AppendEvent(r, to, ok) ==
  /\ to \in Phases(phase[r])
  /\ seqNo[r] < MaxSeq
  /\ ok \/ faults < MaxFaults
  /\ faults' = IF ok THEN faults ELSE faults + 1
  /\ seqNo' = [seqNo EXCEPT ![r] = @ + 1]
  /\ journal' = IF ok THEN [journal EXCEPT ![r] = @ \cup {seqNo[r] + 1}] ELSE journal
  /\ phase' = [phase EXCEPT ![r] = to]
  /\ started' = IF phase[r] = "queued" /\ to = "running"
                THEN [started EXCEPT ![r] = MaxOf(RangeOf(started)) + 1]
                ELSE started
  /\ Publish(r, seqNo[r] + 1)
  /\ UNCHANGED <<sess, listed, replay, up, down, stale, broker, breaks, clientRestarts, managerRestarts>>

-----------------------------------------------------------------------------
(* runGRPCSession.                                                         *)

Connect ==
  /\ sess = "off"
  /\ sess' = "registered"
  /\ lossy' = FALSE
  /\ UNCHANGED <<client, listed, live, replay, up, down, stale, broker, counters>>

SubscribeEvents ==
  /\ sess = "registered"
  /\ sess' = "subscribed"
  /\ UNCHANGED <<client, listed, live, replay, up, down, stale, broker, lossy, counters>>

\* RunManager.List(maxRunSyncHeads): newest start first, cut at the limit.
Listings ==
  LET n == IF Cardinality(Known) <= MaxHeads THEN Cardinality(Known) ELSE MaxHeads
  IN  {l \in [1..n -> Known] :
         /\ \A i, j \in 1..n : i < j => l[i] # l[j] /\ started[l[i]] >= started[l[j]]
         /\ \A r \in Known \ RangeOf(l) : \A i \in 1..n : started[l[i]] >= started[r]}

List ==
  /\ sess = "subscribed"
  /\ \E l \in Listings : listed' = [i \in DOMAIN l |-> [run |-> l[i], seq |-> seqNo[l[i]]]]
  /\ sess' = "listed"
  /\ UNCHANGED <<client, live, replay, up, down, stale, broker, lossy, counters>>

\* Nothing is sent for an empty list.
sendRunHeads ==
  /\ sess = "listed"
  /\ up' = IF listed = <<>> THEN up ELSE Append(up, Heads(listed))
  /\ listed' = <<>>
  /\ sess' = "synced"
  /\ UNCHANGED <<client, live, replay, down, stale, broker, lossy, counters>>

\* The forwarding goroutine is started after the heads were sent.
ForwardLive ==
  /\ sess = "synced"
  /\ live # <<>> /\ Len(up) < NetCap
  /\ up' = Append(up, Event(Head(live).run, Head(live).seq))
  /\ live' = Tail(live)
  /\ UNCHANGED <<client, sess, listed, replay, down, stale, broker, lossy, counters>>

ReceiveReplay ==
  /\ down # <<>> /\ replay = <<>>
  /\ replay' = Head(down)
  /\ down' = Tail(down)
  /\ UNCHANGED <<client, sess, listed, live, up, stale, broker, lossy, counters>>

\* EventsAfter: what the table has of a run, and nothing of an unknown one.
EventsOf(r) == IF r \in Runs THEN journal[r] ELSE {}

\* replayRunEvents: one event of the current cursor; batches are read from
\* the store and what they contain up to "through" never changes.
ReplayEvent ==
  /\ replay # <<>> /\ Len(up) < NetCap
  /\ LET c == Head(replay)
     IN  /\ c.next + 1 \in EventsOf(c.run)
         /\ up' = Append(up, Event(c.run, c.next + 1))
         /\ replay' = IF c.next + 1 = c.through THEN Tail(replay)
                      ELSE [replay EXCEPT ![1].next = @ + 1]
  /\ UNCHANGED <<client, sess, listed, live, down, stale, broker, lossy, counters>>

\* A hole in the journal ends the whole replay, later cursors included.
ReplayGap ==
  /\ replay # <<>>
  /\ Head(replay).next + 1 \notin EventsOf(Head(replay).run)
  /\ replay' = <<>>
  /\ UNCHANGED <<client, sess, listed, live, up, down, stale, broker, lossy, counters>>

-----------------------------------------------------------------------------
(* RunEventBroker.                                                         *)

\* k is the end of the contiguous block of S that follows h.
BlockEnd(h, S, k) == (h + 1) .. k \subseteq S /\ k + 1 \notin S

\* One event: a duplicate is ignored, the next one advances the head over the
\* early events it connects to, an early one is kept while there is room.
Accept(r, n) ==
  IF n <= head[r] \/ n \in pending[r] THEN UNCHANGED <<head, pending, lossy>>
  ELSE IF n = head[r] + 1
  THEN \E k \in n .. n + Cardinality(pending[r]) :
         /\ BlockEnd(n, pending[r], k)
         /\ head' = [head EXCEPT ![r] = k]
         /\ pending' = [pending EXCEPT ![r] = @ \ (n .. k)]
         /\ UNCHANGED lossy
  ELSE IF Cardinality(pending[r]) >= PendingCap THEN lossy' = TRUE /\ UNCHANGED <<head, pending>>
  ELSE pending' = [pending EXCEPT ![r] = @ \cup {n}] /\ UNCHANGED <<head, lossy>>

\* The cursors of the heads with the indices in S, in their order.
CursorsOf(hs, S) ==
  {[i \in DOMAIN f |-> [run |-> hs[f[i]].run, next |-> head[hs[f[i]].run], through |-> hs[f[i]].seq]] :
     f \in {g \in [1 .. Cardinality(S) -> S] : \A i, j \in DOMAIN g : i < j => g[i] < g[j]}}

\* Mutant: a run whose head the Manager has never seen is not asked for.
Missing_KnownOnly(hs) ==
  CursorsOf(hs, {i \in DOMAIN hs : head[hs[i].run] > 0 /\ hs[i].seq > head[hs[i].run]})

\* The cursors the Manager answers to advertised heads (a set of one sequence).
Missing(hs) == CursorsOf(hs, {i \in DOMAIN hs : hs[i].seq > head[hs[i].run]})

Receive ==
  /\ up # <<>>
  /\ up' = Tail(up)
  /\ IF Head(up).type = "event"
     THEN Accept(Head(up).run, Head(up).seq) /\ UNCHANGED down
     ELSE /\ \E cs \in Missing(Head(up).heads) : down' = IF cs = <<>> THEN down ELSE Append(down, cs)
          /\ UNCHANGED <<broker, lossy>>
  /\ UNCHANGED <<client, sess, listed, live, replay, stale, counters>>

\* The handlers of streams the Client has already given up still accept
\* events; what they answer to heads goes nowhere.
ReceiveStale ==
  /\ \E e \in stale : stale' = stale \ {e} /\ Accept(e.run, e.seq)
  /\ UNCHANGED <<client, session, counters>>

LoseStale ==
  /\ stale # {}
  /\ stale' = {}
  /\ UNCHANGED <<client, session, broker, lossy, counters>>

-----------------------------------------------------------------------------
(* Failures.                                                               *)

SessionLost ==
  /\ sess' = "off"
  /\ listed' = <<>> /\ live' = <<>> /\ replay' = <<>> /\ up' = <<>> /\ down' = <<>>

StreamBreaks ==
  /\ sess # "off"
  /\ breaks < MaxBreaks
  /\ breaks' = breaks + 1
  /\ stale' = stale \cup {m \in RangeOf(up) : m.type = "event"}
  /\ SessionLost
  /\ UNCHANGED <<client, broker, lossy, clientRestarts, managerRestarts, faults>>

\* The next process marks live runs interrupted and journals it, and takes
\* the sequence numbers from the table.
ClientRestarts ==
  /\ clientRestarts < MaxClientRestarts
  /\ \A r \in Runs : MaxOf(journal[r]) \in 0 .. IF r \in Active THEN MaxSeq - 1 ELSE MaxSeq
  /\ clientRestarts' = clientRestarts + 1
  /\ journal' = [r \in Runs |-> IF r \in Active THEN journal[r] \cup {MaxOf(journal[r]) + 1}
                                ELSE journal[r]]
  /\ seqNo' = [r \in Runs |-> IF r \in Active THEN MaxOf(journal[r]) + 1 ELSE MaxOf(journal[r])]
  /\ phase' = [r \in Runs |-> IF r \in Active THEN "over" ELSE phase[r]]
  /\ stale' = stale \cup {m \in RangeOf(up) : m.type = "event"}
  /\ SessionLost
  /\ UNCHANGED <<started, broker, lossy, breaks, managerRestarts, faults>>

\* The broker is memory only.
ManagerRestarts ==
  /\ managerRestarts < MaxManagerRestarts
  /\ managerRestarts' = managerRestarts + 1
  /\ head' = [r \in Runs |-> 0]
  /\ pending' = [r \in Runs |-> {}]
  /\ stale' = {}
  /\ SessionLost
  /\ UNCHANGED <<client, lossy, breaks, clientRestarts, faults>>

-----------------------------------------------------------------------------
SyncInit(s) ==
  /\ phase = [r \in Runs |-> "none"]
  /\ started = [r \in Runs |-> 0]
  /\ seqNo = [r \in Runs |-> 0]
  /\ journal = [r \in Runs |-> {}]
  /\ sess = s
  /\ listed = <<>> /\ live = <<>> /\ replay = <<>> /\ up = <<>> /\ down = <<>> /\ stale = {}
  /\ head = [r \in Runs |-> 0]
  /\ pending = [r \in Runs |-> {}]
  /\ lossy = FALSE
  /\ breaks = 0 /\ clientRestarts = 0 /\ managerRestarts = 0 /\ faults = 0
Init == SyncInit("off")

SessionStep ==
  Connect \/ SubscribeEvents \/ List \/ sendRunHeads \/ ForwardLive \/ ReceiveReplay \/ ReplayEvent
  \/ ReplayGap \/ Receive

Next ==
  \/ \E r \in Runs, to \in {"queued", "running", "over"}, ok \in BOOLEAN : AppendEvent(r, to, ok)
  \/ SessionStep
  \/ ReceiveStale \/ LoseStale
  \/ StreamBreaks \/ ClientRestarts \/ ManagerRestarts

Spec == Init /\ [][Next]_vars

(***************************************************************************)
(* Fairness: the Client's reconnect loop retries for ever, and what a      *)
(* session's goroutines can do they eventually do.  Runs need not make     *)
(* progress and nothing has to fail.                                       *)
(***************************************************************************)
Fairness ==
  /\ WF_vars(Connect) /\ WF_vars(SubscribeEvents) /\ WF_vars(List) /\ WF_vars(sendRunHeads)
  /\ WF_vars(ForwardLive) /\ WF_vars(ReplayEvent)
  /\ WF_vars(ReceiveReplay) /\ WF_vars(ReplayGap) /\ WF_vars(Receive)

FairSpec == Spec /\ Fairness

-----------------------------------------------------------------------------
(* Properties.                                                             *)

EventMessages == [type : {"event"}, run : Runs, seq : Nat]
Messages == EventMessages \cup [type : {"heads"}, heads : Seq([run : Runs, seq : Nat])]
Cursors == [run : Runs, next : Nat, through : Nat]

\* Every variable has its type.
TypeOK ==
  /\ phase \in [Runs -> {"none", "queued", "running", "over"}]
  /\ started \in [Runs -> Nat] /\ seqNo \in [Runs -> Nat]
  /\ journal \in [Runs -> SUBSET Nat]
  /\ sess \in {"off", "registered", "subscribed", "listed", "synced"}
  /\ listed \in Seq([run : Runs, seq : Nat])
  /\ live \in Seq([run : Runs, seq : Nat])
  /\ replay \in Seq(Cursors)
  /\ up \in Seq(Messages)
  /\ stale \subseteq EventMessages
  /\ down \in Seq(Seq(Cursors))
  /\ head \in [Runs -> Nat]
  /\ pending \in [Runs -> SUBSET Nat]
  /\ lossy \in BOOLEAN
  /\ breaks \in Nat /\ clientRestarts \in Nat /\ managerRestarts \in Nat /\ faults \in Nat

\* The Manager's head never runs ahead of the journal: whatever it counts as
\* received can be replayed by the Client, after a restart too.
HeadIsDurable == faults = 0 => \A r \in Runs : 1 .. head[r] \subseteq journal[r]

\* The early events the Manager keeps lie beyond a real gap, within the bound
\* of its memory.
PendingBeyondGap ==
  \A r \in Runs : /\ \A n \in pending[r] : n > head[r] + 1
                  /\ Cardinality(pending[r]) <= PendingCap

\* Event n of run r is on its way to the Manager.
OnTheWay(r, n) ==
  \/ n \in pending[r]
  \/ [run |-> r, seq |-> n] \in RangeOf(live)
  \/ Event(r, n) \in RangeOf(up)
  \/ \E m \in RangeOf(up) : m.type = "heads" /\ \E h \in RangeOf(m.heads) : h.run = r /\ h.seq >= n
  \/ \E cs \in RangeOf(down) : \E c \in RangeOf(cs) : c.run = r /\ c.next < n /\ n <= c.through
  \/ \E c \in RangeOf(replay) : c.run = r /\ c.next < n /\ n <= c.through

\* Subscribing before the heads are read leaves no gap: once they are sent, in
\* a session that discarded nothing, every journalled event the Manager lacks
\* is on its way, live or by replay.
NothingForgotten ==
  faults = 0 /\ sess = "synced" /\ ~lossy /\ Cardinality(Known) <= MaxHeads =>
    \A r \in Runs : \A n \in journal[r] : n > head[r] => OnTheWay(r, n)

\* "the highest contiguous Runtime-event sequence received": the head of a run
\* only moves over events that are in hand, and only falls when the Manager
\* restarts.
HeadsAdvance ==
  [][managerRestarts' = managerRestarts =>
       \A r \in Runs :
         /\ head'[r] >= head[r]
         /\ \A n \in head[r] + 1 .. head'[r] :
              n \in pending[r] \/ Event(r, n) \in RangeOf(up) \cup stale]_vars

\* Once sessions stop discarding events, and unless a journal append failed, the
\* Manager ends up with the whole journal, through reconnects and restarts.
SyncConverges ==
  [](faults = 0) /\ <>[](~lossy) => \A r \in Runs : <>[](head[r] = seqNo[r])

\* "Missing events are replayed from the local journal": the same of a journal
\* that one failed append left with a hole.
MissingReplayed == <>[](~lossy) => \A r \in Runs : <>[](head[r] = seqNo[r])

\* "Client advertises active and recently terminal runs": no finished run takes
\* a place among the heads while a queued or running one is left out.
ActiveRunsAdvertised ==
  [][sess = "subscribed" /\ sess' = "listed" =>
       LET advertised == {h.run : h \in RangeOf(listed')}
       IN  Active \subseteq advertised \/ advertised \subseteq Active]_vars
=============================================================================
