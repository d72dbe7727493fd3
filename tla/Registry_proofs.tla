---------------------------- MODULE Registry_proofs ----------------------------
(***************************************************************************)
(* Proofs about the table of devices, for every number of devices,         *)
(* sessions and calls and every capacity: the type invariant with the      *)
(* bounds of the queues, that the table serves live sessions, and that the *)
(* slots of a connection (AgentConn.sem) bound the calls registered on it. *)
(***************************************************************************)
EXTENDS Registry, FiniteSetTheorems, TLAPS

USE RegistryAssumption

\* A number below the limit can be counted up, and one below another keeps the limit.
LEMMA Room ==
  ASSUME NEW a \in Nat, NEW b \in Nat
  PROVE  /\ b = a + 1 /\ a < MaxInflight => b <= MaxInflight
         /\ b <= a /\ a <= MaxInflight => b <= MaxInflight
  OBVIOUS

\* A step that leaves a part of the state alone keeps its type.
LEMMA Frame ==
  ASSUME TypeOK
  PROVE  /\ UNCHANGED table => TableOK'
         /\ UNCHANGED <<sess, closed, stream, silent>> => HandlerOK'
         /\ UNCHANGED queue => QueueOK'
         /\ UNCHANGED <<writer, hand>> => WriterOK'
         /\ UNCHANGED wire => WireOK'
         /\ UNCHANGED <<recv, client, working>> => PeerOK'
         /\ UNCHANGED <<pend, pc, conn>> => CallsOK'
         /\ UNCHANGED wait => WaitOK'
         /\ UNCHANGED operator => OperatorOK'
<1>1. UNCHANGED table => TableOK'
  BY Zenon DEF TypeOK, TableOK, table
<1>2. UNCHANGED <<sess, closed, stream, silent>> => HandlerOK'
  BY Zenon DEF TypeOK, HandlerOK
<1>3. UNCHANGED queue => QueueOK'
  BY Zenon DEF TypeOK, QueueOK
<1>4. UNCHANGED <<writer, hand>> => WriterOK'
  BY Zenon DEF TypeOK, WriterOK
<1>5. UNCHANGED wire => WireOK'
  BY Zenon DEF TypeOK, WireOK
<1>6. UNCHANGED <<recv, client, working>> => PeerOK'
  BY Zenon DEF TypeOK, PeerOK
<1>7. UNCHANGED <<pend, pc, conn>> => CallsOK'
  BY Zenon DEF TypeOK, CallsOK
<1>8. UNCHANGED wait => WaitOK'
  BY Zenon DEF TypeOK, WaitOK
<1>9. UNCHANGED operator => OperatorOK'
  BY Zenon DEF TypeOK, OperatorOK, operator
<1>. QED
  BY <1>1, <1>2, <1>3, <1>4, <1>5, <1>6, <1>7, <1>8, <1>9, Zenon

\* A helper of every action: grpcConn.Send keeps the queue of a session a
\* bounded sequence of messages.
LEMMA SendKeepsQueue ==
  ASSUME TypeOK, NEW k \in Conns, NEW m \in Messages, Send(k, m)
  PROVE  QueueOK'
<1>1. CASE UNCHANGED queue
  BY <1>1, Frame, Zenon
<1>2. CASE Len(queue[k]) < SendCap /\ queue' = [queue EXCEPT ![k] = Append(@, m)]
  <2>1. queue \in [Conns -> Seq(Messages)] /\ queue[k] \in Seq(Messages)
    BY Zenon DEF TypeOK, QueueOK
  <2>2. Append(queue[k], m) \in Seq(Messages) /\ Len(Append(queue[k], m)) <= SendCap
    BY <1>2, <2>1
  <2>. QED
    BY <1>2, <2>1, <2>2, Zenon DEF TypeOK, QueueOK
<1>. QED
  BY <1>1, <1>2, Zenon DEF Send

\* FailPending only puts errors into the channels of calls.
LEMMA FailPendingTyped ==
  ASSUME TypeOK, NEW k, FailPending(k)
  PROVE  WaitOK'
BY Zenon DEF TypeOK, WaitOK, FailPending

\* A step of a call keeps its part of the state: once it has found a session
\* it keeps it until it returns.
LEMMA CallKeepsConn ==
  ASSUME CallsOK, NEW c \in Calls,
         NEW s \in {"slot", "register", "write", "wait", "done"},
         s = "done" \/ conn[c] \in Conns,
         Step(c, s), UNCHANGED conn, pend' \in [Conns -> SUBSET Calls]
  PROVE  CallsOK'
BY Zenon DEF CallsOK, Step

\* A call past Lookup has found a session.
LEMMA CallHasConn ==
  ASSUME TypeOK, NEW c \in Calls, pc[c] \notin {"idle", "done"}
  PROVE  conn[c] \in Conns
BY Zenon DEF TypeOK, CallsOK

\* One step of a call keeps it (CallProgress).
LEMMA CallTyped ==
  ASSUME TypeOK, NEW c \in Calls,
         (\E d \in Devices : Lookup(c, d)) \/ CallStep(c) \/ Cancel(c)
  PROVE  TypeOK'
<1>1. ASSUME NEW d \in Devices, Lookup(c, d) PROVE TypeOK'
  <2>1. PICK s \in {"slot", "done"} :
          pc' = [pc EXCEPT ![c] = s] /\ (s = "slot" => devices[d] # None)
    BY <1>1, Zenon DEF Lookup, Step
  <2>2. conn' = [conn EXCEPT ![c] = devices[d]] /\ devices[d] \in Conns \cup {None}
    BY <1>1, Zenon DEF Lookup, TypeOK, TableOK
  <2>3. UNCHANGED pend
    BY <1>1, Zenon DEF Lookup
  <2>4. CallsOK'
    BY <2>1, <2>2, <2>3, Zenon DEF TypeOK, CallsOK
  <2>. QED
    BY <1>1, <2>4, Frame, Zenon DEF TypeOK, Lookup, flow
<1>2. CASE TakeSlot(c)
  <2>1. conn[c] \in Conns
    BY <1>2, CallHasConn, Zenon DEF TakeSlot
  <2>2. pend' \in [Conns -> SUBSET Calls]
    BY <1>2, Zenon DEF TypeOK, CallsOK, TakeSlot
  <2>3. CallsOK'
    BY <1>2, <2>1, <2>2, CallKeepsConn, Zenon DEF TypeOK, TakeSlot
  <2>. QED
    BY <1>2, <2>3, Frame, Zenon DEF TypeOK, TakeSlot, flow
<1>3. CASE Register(c)
  <2>1. conn[c] \in Conns
    BY <1>3, CallHasConn, Zenon DEF Register
  <2>2. pend' \in [Conns -> SUBSET Calls]
    BY <1>3, <2>1, Zenon DEF TypeOK, CallsOK, Register
  <2>3. CallsOK'
    BY <1>3, <2>1, <2>2, CallKeepsConn, Zenon DEF TypeOK, Register
  <2>. QED
    BY <1>3, <2>3, Frame, Zenon DEF TypeOK, Register, flow
<1>4. CASE WriteJSON(c)
  <2>1. conn[c] \in Conns
    BY <1>4, CallHasConn, Zenon DEF WriteJSON
  <2>2. QueueOK'
    BY <1>4, <2>1, SendKeepsQueue, Zenon DEF WriteJSON, Messages
  <2>3. CallsOK'
    <3>1. pend' \in [Conns -> SUBSET Calls]
      BY <1>4, Zenon DEF TypeOK, CallsOK, WriteJSON
    <3>. QED
      BY <1>4, <2>1, <3>1, CallKeepsConn, Zenon DEF TypeOK, WriteJSON
  <2>. QED
    BY <1>4, <2>2, <2>3, Frame, Zenon DEF TypeOK, WriteJSON
<1>5. CASE Return(c)
  <2>1. CallsOK'
    <3>1. pend' \in [Conns -> SUBSET Calls]
      BY <1>5, Zenon DEF TypeOK, CallsOK, Return
    <3>. QED
      BY <1>5, <3>1, CallKeepsConn, Zenon DEF TypeOK, Return
  <2>. QED
    BY <1>5, <2>1, Frame, Zenon DEF TypeOK, Return, flow
<1>. QED
  BY <1>1, <1>2, <1>3, <1>4, <1>5, Zenon DEF CallStep, GetResponse, Cancel

\* One step of the handler of a session keeps the type invariant (Connect,
\* Put, Remove).
LEMMA SessionTyped ==
  ASSUME TypeOK, NEW k \in Conns, Put(k) \/ SessionStep(k)
  PROVE  TypeOK'
<1>1. CASE Put(k)
  <2>1. TableOK'
    BY <1>1, Zenon DEF TypeOK, TableOK, Put
  <2>2. HandlerOK'
    BY <1>1, Zenon DEF TypeOK, HandlerOK, Put, Goto, Steps
  <2>3. WriterOK'
    BY <1>1, Zenon DEF TypeOK, WriterOK, Put
  <2>. QED
    BY <1>1, <2>1, <2>2, <2>3, Frame, Zenon DEF TypeOK, Put, calls
<1>2. CASE PutFailsOld(k)
  <2>1. HandlerOK'
    BY <1>2, Zenon DEF TypeOK, HandlerOK, PutFailsOld, Goto, Steps
  <2>2. WaitOK'
    BY <1>2, FailPendingTyped, Zenon DEF PutFailsOld
  <2>. QED
    BY <1>2, <2>1, <2>2, Frame, Zenon DEF TypeOK, PutFailsOld, flow
<1>3. CASE PutClosesOld(k)
  <2>1. HandlerOK'
    BY <1>3, Zenon DEF TypeOK, HandlerOK, PutClosesOld, Close, Goto, Steps
  <2>2. WriterOK'
    BY <1>3, Zenon DEF TypeOK, WriterOK, PutClosesOld
  <2>. QED
    BY <1>3, <2>1, <2>2, Frame, Zenon DEF TypeOK, PutClosesOld, calls
<1>4. CASE SendAck(k)
  <2>1. QueueOK'
    BY <1>4, SendKeepsQueue, Zenon DEF SendAck, Messages
  <2>2. HandlerOK'
    BY <1>4, Zenon DEF TypeOK, HandlerOK, SendAck, Goto, Steps
  <2>. QED
    BY <1>4, <2>1, <2>2, Frame, Zenon DEF TypeOK, SendAck, calls
<1>5. CASE LeaveLoop(k)
  <2>1. HandlerOK'
    BY <1>5, Zenon DEF TypeOK, HandlerOK, LeaveLoop, Close, Goto, Steps
  <2>. QED
    BY <1>5, <2>1, Frame, Zenon DEF TypeOK, LeaveLoop, flow, calls
<1>6. CASE WriterDone(k)
  <2>1. HandlerOK'
    BY <1>6, Zenon DEF TypeOK, HandlerOK, WriterDone, Goto, Steps
  <2>. QED
    BY <1>6, <2>1, Frame, Zenon DEF TypeOK, WriterDone, flow, calls
<1>7. CASE Remove(k)
  <2>1. TableOK'
    BY <1>7, Zenon DEF TypeOK, TableOK, Remove
  <2>2. HandlerOK'
    BY <1>7, Zenon DEF TypeOK, HandlerOK, Remove, Goto, Steps
  <2>. QED
    BY <1>7, <2>1, <2>2, Frame, Zenon DEF TypeOK, Remove, flow, calls
<1>8. CASE RemoveFails(k)
  <2>1. WaitOK'
    BY <1>8, FailPendingTyped, Zenon DEF RemoveFails
  <2>2. WireOK'
    BY <1>8 DEF TypeOK, WireOK, RemoveFails
  <2>3. HandlerOK'
    BY <1>8, Zenon DEF TypeOK, HandlerOK, RemoveFails, Goto, Steps
  <2>4. PeerOK'
    BY <1>8, Zenon DEF TypeOK, PeerOK, RemoveFails
  <2>. QED
    BY <1>8, <2>1, <2>2, <2>3, <2>4, Frame, Zenon DEF TypeOK, RemoveFails
<1>. QED
  BY <1>1, <1>2, <1>3, <1>4, <1>5, <1>6, <1>7, <1>8, Zenon DEF SessionStep

\* One step of the writer or the receiver of a session keeps it.
LEMMA FlowTyped ==
  ASSUME TypeOK, NEW k \in Conns,
         \/ WriterStep(k) \/ RecvHeartbeat(k) \/ RecvHeads(k) \/ SendReplay(k)
         \/ \E c \in Calls : RecvResponse(k, c)
  PROVE  TypeOK'
<1>1. CASE WriterTake(k)
  <2>1. queue[k] \in Seq(Messages) /\ queue[k] # <<>> /\ Len(queue[k]) <= SendCap
    BY <1>1, Zenon DEF TypeOK, QueueOK, WriterTake
  <2>2. /\ Head(queue[k]) \in Messages /\ Tail(queue[k]) \in Seq(Messages)
        /\ Len(Tail(queue[k])) = Len(queue[k]) - 1 /\ Len(queue[k]) \in Nat
    BY <2>1
  <2>3. Len(Tail(queue[k])) <= SendCap
    BY <2>1, <2>2
  <2>4. QueueOK'
    BY <1>1, <2>2, <2>3, Zenon DEF TypeOK, QueueOK, WriterTake
  <2>5. WriterOK'
    BY <1>1, <2>2, Zenon DEF TypeOK, WriterOK, WriterTake
  <2>. QED
    BY <1>1, <2>4, <2>5, Frame, Zenon DEF TypeOK, WriterTake, calls
<1>2. CASE WriterSend(k)
  <2>1. wire[k] \in Seq(Messages) /\ hand[k] \in Messages
    BY <1>2, Zenon DEF TypeOK, WireOK, WriterOK, WriterSend
  <2>2. /\ Append(wire[k], hand[k]) \in Seq(Messages)
        /\ Len(Append(wire[k], hand[k])) = Len(wire[k]) + 1 /\ Len(wire[k]) \in Nat
    BY <2>1
  <2>3. WireOK'
    <3>1. CASE UNCHANGED wire
      BY <3>1, Frame, Zenon
    <3>2. CASE /\ Len(wire[k]) < WireCap
               /\ wire' = [wire EXCEPT ![k] = Append(@, hand[k])]
      <4>1. Len(Append(wire[k], hand[k])) <= WireCap
        BY <2>2, <3>2
      <4>. QED
        BY <2>2, <3>2, <4>1, Zenon DEF TypeOK, WireOK
    <3>. QED
      BY <1>2, <3>1, <3>2, Zenon DEF WriterSend
  <2>4. WriterOK'
    <3>1. PICK w \in {"idle", "stopped"} : writer' = [writer EXCEPT ![k] = w]
      BY <1>2, Zenon DEF WriterSend
    <3>2. hand' = [hand EXCEPT ![k] = None]
      BY <1>2, Zenon DEF WriterSend
    <3>. QED
      BY <3>1, <3>2, Zenon DEF TypeOK, WriterOK
  <2>. QED
    BY <1>2, <2>3, <2>4, Frame, Zenon DEF TypeOK, WriterSend, calls
<1>3. CASE WriterStop(k)
  <2>1. WriterOK'
    BY <1>3, Zenon DEF TypeOK, WriterOK, WriterStop
  <2>. QED
    BY <1>3, <2>1, Frame, Zenon DEF TypeOK, WriterStop, calls
<1>4. CASE RecvHeartbeat(k)
  <2>1. HandlerOK'
    BY <1>4, Zenon DEF TypeOK, HandlerOK, RecvHeartbeat, Heard
  <2>. QED
    BY <1>4, <2>1, Frame, Zenon DEF TypeOK, RecvHeartbeat, flow, calls
<1>5. CASE RecvHeads(k)
  <2>1. HandlerOK'
    BY <1>5, Zenon DEF TypeOK, HandlerOK, RecvHeads, Heard
  <2>2. PeerOK'
    BY <1>5, Zenon DEF TypeOK, PeerOK, RecvHeads
  <2>. QED
    BY <1>5, <2>1, <2>2, Frame, Zenon DEF TypeOK, RecvHeads, calls
<1>6. CASE SendReplay(k)
  <2>1. QueueOK'
    BY <1>6, SendKeepsQueue, Zenon DEF SendReplay, Messages
  <2>2. PeerOK'
    BY <1>6, Zenon DEF TypeOK, PeerOK, SendReplay
  <2>. QED
    BY <1>6, <2>1, <2>2, Frame, Zenon DEF TypeOK, SendReplay, calls
<1>7. ASSUME NEW c \in Calls, RecvResponse(k, c) PROVE TypeOK'
  <2>1. HandlerOK'
    BY <1>7, Zenon DEF TypeOK, HandlerOK, RecvResponse, Heard
  <2>2. WaitOK'
    BY <1>7, Zenon DEF TypeOK, WaitOK, RecvResponse, Deliver
  <2>3. PeerOK'
    BY <1>7, Zenon DEF TypeOK, PeerOK, RecvResponse
  <2>. QED
    BY <1>7, <2>1, <2>2, <2>3, Frame, Zenon DEF TypeOK, RecvResponse
<1>. QED
  BY <1>1, <1>2, <1>3, <1>4, <1>5, <1>6, <1>7, Zenon DEF WriterStep

\* So does a step of the Client, of the network or of the clock.
LEMMA OutsideTyped ==
  ASSUME TypeOK, NEW k \in Conns, StreamBreaks(k) \/ ClientReads(k) \/ Silence(k)
  PROVE  TypeOK'
<1>1. CASE StreamBreaks(k)
  <2>1. WireOK'
    BY <1>1 DEF TypeOK, WireOK, StreamBreaks
  <2>2. HandlerOK'
    BY <1>1, Zenon DEF TypeOK, HandlerOK, StreamBreaks, Break
  <2>3. PeerOK'
    BY <1>1, Zenon DEF TypeOK, PeerOK, StreamBreaks, Break
  <2>. QED
    BY <1>1, <2>1, <2>2, <2>3, Frame, Zenon DEF TypeOK, StreamBreaks, calls
<1>2. CASE ClientReads(k)
  <2>1. wire[k] \in Seq(Messages) /\ wire[k] # <<>> /\ Len(wire[k]) <= WireCap
    BY <1>2, Zenon DEF TypeOK, WireOK, ClientReads
  <2>2. /\ Tail(wire[k]) \in Seq(Messages)
        /\ Len(Tail(wire[k])) = Len(wire[k]) - 1 /\ Len(wire[k]) \in Nat
    BY <2>1
  <2>3. Len(Tail(wire[k])) <= WireCap
    BY <2>1, <2>2
  <2>4. WireOK'
    BY <1>2, <2>2, <2>3, Zenon DEF TypeOK, WireOK, ClientReads
  <2>5. HandlerOK'
    BY <1>2, Zenon DEF TypeOK, HandlerOK, ClientReads, Break
  <2>6. PeerOK'
    <3>1. CASE Break(k)
      BY <1>2, <3>1, Zenon DEF TypeOK, PeerOK, ClientReads, Break
    <3>2. CASE UNCHANGED working /\ client' = [client EXCEPT ![k] = "online"]
      BY <1>2, <3>2, Zenon DEF TypeOK, PeerOK, ClientReads
    <3>3. CASE UNCHANGED <<client, working>>
      BY <1>2, <3>3, Frame, Zenon DEF ClientReads
    <3>4. ASSUME NEW m \in Calls, UNCHANGED client,
                 working' = [working EXCEPT ![k] = @ \cup {m}]
          PROVE  PeerOK'
      BY <1>2, <3>4, Zenon DEF TypeOK, PeerOK, ClientReads
    <3>. QED
      BY <1>2, <3>1, <3>2, <3>3, <3>4, Zenon DEF ClientReads
  <2>. QED
    BY <1>2, <2>4, <2>5, <2>6, Frame, Zenon DEF TypeOK, ClientReads, calls
<1>3. CASE Silence(k)
  <2>1. HandlerOK'
    BY <1>3, Zenon DEF TypeOK, HandlerOK, Silence
  <2>. QED
    BY <1>3, <2>1, Frame, Zenon DEF TypeOK, Silence, flow, calls
<1>. QED
  BY <1>1, <1>2, <1>3, Zenon

\* So does a step of the administrator (Disconnect).
LEMMA AdminTyped ==
  ASSUME TypeOK, (\E d \in Devices : Disconnect(d)) \/ AdminStep
  PROVE  TypeOK'
<1>1. ASSUME NEW d \in Devices, Disconnect(d) PROVE TypeOK'
  <2>1. OperatorOK'
    BY <1>1 DEF TypeOK, TableOK, OperatorOK, Disconnect
  <2>. QED
    BY <1>1, <2>1, Frame, Zenon DEF TypeOK, Disconnect, flow, calls
<1>2. CASE DisconnectFails
  <2>1. OperatorOK'
    BY <1>2, Zenon DEF TypeOK, OperatorOK, DisconnectFails
  <2>2. WaitOK'
    BY <1>2, FailPendingTyped, Zenon DEF DisconnectFails
  <2>. QED
    BY <1>2, <2>1, <2>2, Frame, Zenon DEF TypeOK, DisconnectFails, flow
<1>3. CASE DisconnectCloses
  <2>1. HandlerOK'
    BY <1>3, Zenon DEF TypeOK, HandlerOK, DisconnectCloses, Close
  <2>2. OperatorOK'
    BY <1>3, Zenon DEF TypeOK, OperatorOK, DisconnectCloses
  <2>. QED
    BY <1>3, <2>1, <2>2, Frame, Zenon DEF TypeOK, DisconnectCloses, flow, calls
<1>. QED
  BY <1>1, <1>2, <1>3, Zenon DEF AdminStep

\* Every step keeps the type invariant.
LEMMA NextTyped ==
  ASSUME TypeOK, [Next]_vars
  PROVE  TypeOK'
<1>1. CASE UNCHANGED vars
  BY <1>1, Frame, Zenon DEF TypeOK, vars, flow, calls
<1>. QED
  BY <1>1, SessionTyped, FlowTyped, OutsideTyped, CallTyped, AdminTyped, Zenon DEF Next

\* Every variable of the sessions, the calls and the administrator keeps its
\* type; the send queue and the stream never hold more than their capacity,
\* whichever goroutine sends (grpcConn.Send).
THEOREM TypeCorrect == Spec => []TypeOK
<1>1. Init => TypeOK
  BY DEF Init, TypeOK, TableOK, HandlerOK, QueueOK, WriterOK, WireOK, PeerOK, CallsOK,
         WaitOK, OperatorOK, Steps
<1>. QED
  BY <1>1, NextTyped, PTL DEF Spec

-----------------------------------------------------------------------------
(* The table, and the slots of its connections *)

\* A step that leaves the table, the steps of the handlers and the connections
\* as they are keeps RegistryServesLive.
LEMMA TableUntouched ==
  ASSUME RegistryServesLive, UNCHANGED <<devices, prev, sess, closed>>
  PROVE  RegistryServesLive'
BY Zenon DEF RegistryServesLive, BeingReplaced

\* A handler on its way out keeps it as long as it takes no session but its own
\* off the table, and is off the table itself once its Remove ran.
LEMMA LeavingKeepsTable ==
  ASSUME TypeOK, RegistryServesLive, NEW k \in Conns,
         NEW step \in {"draining", "removing", "failing", "ended"},
         sess[k] \in {"running", "draining", "removing", "failing"},
         Goto(k, step), UNCHANGED prev,
         \A j \in Conns : closed[j] => closed'[j],
         \A d \in Devices : devices'[d] = devices[d] \/ (devices[d] = k /\ devices'[d] = None),
         step \in {"failing", "ended"} => devices'[DeviceOf[k]] # k
  PROVE  RegistryServesLive'
<1>1. /\ sess'[k] = step
      /\ \A j \in Conns \ {k} : sess'[j] = sess[j]
  BY Zenon DEF TypeOK, HandlerOK, Goto
<1>2. \A j \in Conns : BeingReplaced(j) => BeingReplaced(j)'
  BY <1>1, Zenon DEF BeingReplaced
<1>3. ASSUME NEW j \in Conns, sess'[j] \in {"put", "close", "ack", "running"},
             ~closed'[j], ~BeingReplaced(j)'
      PROVE  devices'[DeviceOf[j]] = j
  <2>1. j # k /\ sess[j] = sess'[j] /\ ~closed[j] /\ ~BeingReplaced(j)
    BY <1>1, <1>2, <1>3, Zenon
  <2>2. devices[DeviceOf[j]] = j
    BY <1>3, <2>1, Zenon DEF RegistryServesLive
  <2>. QED
    BY <2>1, <2>2, Zenon
<1>4. ASSUME NEW j \in Conns, sess'[j] \in {"unused", "failing", "ended"}
      PROVE  devices'[DeviceOf[j]] # j
  <2>1. CASE j = k
    BY <1>1, <1>4, <2>1, Zenon
  <2>2. CASE j # k
    BY <1>1, <1>4, <2>2, ZenonT(60) DEF RegistryServesLive
  <2>. QED
    BY <2>1, <2>2, Zenon
<1>. QED
  BY <1>3, <1>4, Zenon DEF RegistryServesLive

\* Each step of a handler keeps it: Put leaves the session it replaces to the
\* window BeingReplaced, Close ends that window, and Remove deletes its own
\* session only.
LEMMA TableKept ==
  ASSUME TypeOK, RegistryServesLive, NEW k \in Conns, Put(k) \/ SessionStep(k)
  PROVE  RegistryServesLive'
<1>1. CASE Put(k)
  <2>. DEFINE d == DeviceOf[k]
  <2>1. /\ sess[k] = "unused" /\ sess'[k] \in {"put", "ack"} /\ closed' = closed
        /\ \A j \in Conns \ {k} : sess'[j] = sess[j] /\ prev'[j] = prev[j]
    BY <1>1, Zenon DEF TypeOK, TableOK, HandlerOK, Put, Goto
  <2>2. /\ devices'[d] = k
        /\ \A e \in Devices \ {d} : devices'[e] = devices[e]
    BY <1>1, Zenon DEF TypeOK, TableOK, Put
  <2>3. devices[d] # None => sess'[k] = "put" /\ prev'[k] = devices[d]
    BY <1>1, Zenon DEF TypeOK, TableOK, HandlerOK, Put, Goto
  <2>4. \A j \in Conns : BeingReplaced(j) => BeingReplaced(j)'
    BY <2>1, Zenon DEF BeingReplaced
  <2>5. ASSUME NEW j \in Conns, sess'[j] \in {"put", "close", "ack", "running"},
               ~closed'[j], ~BeingReplaced(j)'
        PROVE  devices'[DeviceOf[j]] = j
    <3>1. CASE j # k
      <4>1. devices[DeviceOf[j]] = j
        BY <2>1, <2>4, <2>5, <3>1, Zenon DEF RegistryServesLive
      <4>2. DeviceOf[j] # d
        BY <2>3, <2>5, <4>1, Zenon DEF BeingReplaced
      <4>. QED
        BY <2>2, <4>1, <4>2, Zenon
    <3>. QED
      BY <2>2, <3>1, Zenon
  <2>6. ASSUME NEW j \in Conns, sess'[j] \in {"unused", "failing", "ended"}
        PROVE  devices'[DeviceOf[j]] # j
    BY <2>1, <2>2, <2>6, Zenon DEF RegistryServesLive
  <2>. QED
    BY <2>5, <2>6, Zenon DEF RegistryServesLive
<1>2. CASE PutFailsOld(k)
  BY <1>2, Zenon DEF TypeOK, HandlerOK, PutFailsOld, Goto, Steps, table, RegistryServesLive, BeingReplaced
<1>3. CASE PutClosesOld(k)
  BY <1>3, Zenon DEF TypeOK, HandlerOK, PutClosesOld, Close, Goto, Steps, table, RegistryServesLive, BeingReplaced
<1>4. CASE SendAck(k)
  BY <1>4, Zenon DEF TypeOK, HandlerOK, SendAck, Goto, Steps, table, RegistryServesLive, BeingReplaced
<1>5. CASE LeaveLoop(k)
  <2>1. \A j \in Conns : closed[j] => closed'[j]
    BY <1>5, Zenon DEF TypeOK, HandlerOK, LeaveLoop, Close
  <2>. QED
    BY <1>5, <2>1, LeavingKeepsTable, Zenon DEF LeaveLoop, table
<1>6. CASE WriterDone(k)
  BY <1>6, LeavingKeepsTable, Zenon DEF WriterDone, table
<1>7. CASE Remove(k)
  <2>1. \A d \in Devices : devices'[d] = devices[d] \/ (devices[d] = k /\ devices'[d] = None)
    BY <1>7, Zenon DEF TypeOK, TableOK, Remove
  <2>2. devices'[DeviceOf[k]] # k
    BY <1>7, Zenon DEF TypeOK, TableOK, Remove
  <2>. QED
    BY <1>7, <2>1, <2>2, LeavingKeepsTable, Zenon DEF Remove
<1>8. CASE RemoveFails(k)
  <2>1. devices'[DeviceOf[k]] # k
    BY <1>8, Zenon DEF RemoveFails, table, RegistryServesLive
  <2>. QED
    BY <1>8, <2>1, LeavingKeepsTable, Zenon DEF RemoveFails, table
<1>. QED
  BY <1>1, <1>2, <1>3, <1>4, <1>5, <1>6, <1>7, <1>8, Zenon DEF SessionStep

\* Closing a connection keeps it too (Disconnect leaves the table alone).
LEMMA CloseKeepsTable ==
  ASSUME TypeOK, RegistryServesLive, NEW k, Close(k), UNCHANGED <<devices, prev, sess>>
  PROVE  RegistryServesLive'
BY Zenon DEF TypeOK, HandlerOK, RegistryServesLive, BeingReplaced, Close

\* The table serves live sessions for every number of devices, sessions and
\* calls: no late Remove of a replaced session takes its successor off the
\* table, and no session stays on it after its own Remove (Put, Remove).  The
\* invariant is inductive relative to the type invariant because it names the
\* window between Put's swap and its Close.
THEOREM RegistryServesLiveHolds == Spec => []RegistryServesLive
<1>1. Init => RegistryServesLive
  BY DEF Init, RegistryServesLive
<1>2. TypeOK /\ RegistryServesLive /\ [Next]_vars => RegistryServesLive'
  <2>. SUFFICES ASSUME TypeOK, RegistryServesLive, [Next]_vars
                PROVE  RegistryServesLive'
    BY Zenon
  <2>1. ASSUME NEW k \in Conns, Put(k) \/ SessionStep(k) PROVE RegistryServesLive'
    BY <2>1, TableKept, Zenon
  <2>2. CASE DisconnectCloses
    BY <2>2, CloseKeepsTable, Zenon DEF DisconnectCloses, table
  <2>3. CASE \/ UNCHANGED vars \/ DisconnectFails \/ \E d \in Devices : Disconnect(d)
    <3>1. UNCHANGED <<devices, prev, sess, closed>>
      BY <2>3, Zenon DEF vars, table, DisconnectFails, Disconnect
    <3>. QED
      BY <3>1, TableUntouched, Zenon
  <2>4. ASSUME NEW k \in Conns,
               \/ WriterStep(k) \/ RecvHeartbeat(k) \/ RecvHeads(k) \/ SendReplay(k)
               \/ \E c \in Calls : RecvResponse(k, c)
               \/ StreamBreaks(k) \/ ClientReads(k) \/ Silence(k)
        PROVE  RegistryServesLive'
    <3>1. UNCHANGED <<devices, prev, sess, closed>>
      BY <2>4, Zenon DEF table, WriterStep, WriterTake, WriterSend, WriterStop, RecvHeartbeat,
                  RecvHeads, SendReplay, RecvResponse, StreamBreaks, ClientReads, Silence
    <3>. QED
      BY <3>1, TableUntouched, Zenon
  <2>5. ASSUME NEW c \in Calls, (\E d \in Devices : Lookup(c, d)) \/ CallStep(c) \/ Cancel(c)
        PROVE  RegistryServesLive'
    <3>1. UNCHANGED <<devices, prev, sess, closed>>
      BY <2>5, Zenon DEF table, Lookup, CallStep, TakeSlot, Register, WriteJSON, GetResponse,
                  Cancel, Return
    <3>. QED
      BY <3>1, TableUntouched, Zenon
  <2>. QED
    BY <2>1, <2>2, <2>3, <2>4, <2>5, Zenon DEF Next, AdminStep
<1>. QED
  BY <1>1, <1>2, TypeCorrect, PTL DEF Spec

-----------------------------------------------------------------------------
\* What makes BoundedInflight inductive: a registered call holds a slot, and the
\* slots, not the registrations, are what TakeSlot counts.
SlotsHeld ==
  \A k \in Conns :
    pend[k] \subseteq Holders(k) /\ Cardinality(Holders(k)) <= MaxInflight

\* Every set of slot holders is finite.
LEMMA HoldersFinite ==
  ASSUME NEW k
  PROVE  IsFiniteSet(Holders(k)) /\ Cardinality(Holders(k)) \in Nat
<1>1. Holders(k) \subseteq Calls
  BY Zenon DEF Holders
<1>. QED
  BY <1>1, FS_Subset, FS_CardinalityType, Zenon

\* A step after which every connection has the same or fewer holders, and its
\* registered calls are still among them, keeps SlotsHeld.
LEMMA FewerHolders ==
  ASSUME SlotsHeld,
         \A k \in Conns : Holders(k)' \subseteq Holders(k) /\ pend'[k] \subseteq Holders(k)'
  PROVE  SlotsHeld'
<1>. SUFFICES ASSUME NEW k \in Conns
              PROVE  pend'[k] \subseteq Holders(k)' /\ Cardinality(Holders(k)') <= MaxInflight
  BY Zenon DEF SlotsHeld
<1>1. Cardinality(Holders(k)') <= Cardinality(Holders(k)) /\ IsFiniteSet(Holders(k)')
  BY HoldersFinite, FS_Subset, Zenon
<1>2. Cardinality(Holders(k)') \in Nat /\ Cardinality(Holders(k)) \in Nat
  BY <1>1, HoldersFinite, FS_CardinalityType, Zenon
<1>3. Cardinality(Holders(k)) <= MaxInflight
  BY Zenon DEF SlotsHeld
<1>. QED
  BY <1>1, <1>2, <1>3, Room, Zenon

\* Each step of a call keeps SlotsHeld: TakeSlot adds one holder where there was
\* room, Register adds a registration of a holder, the others add none.
LEMMA CallKeepsSlots ==
  ASSUME TypeOK, SlotsHeld, NEW c \in Calls,
         (\E d \in Devices : Lookup(c, d)) \/ CallStep(c) \/ Cancel(c)
  PROVE  SlotsHeld'
<1>1. ASSUME NEW d \in Devices, Lookup(c, d) PROVE SlotsHeld'
  <2>1. pend' = pend /\ pc[c] = "idle" /\ pc'[c] \in {"slot", "done"}
        /\ \A b \in Calls \ {c} : pc'[b] = pc[b] /\ conn'[b] = conn[b]
    BY <1>1, Zenon DEF Lookup, Step, TypeOK, CallsOK
  <2>2. \A k \in Conns : Holders(k)' = Holders(k)
    BY <2>1, Zenon DEF Holders
  <2>. QED
    BY <2>1, <2>2, FewerHolders, ZenonT(60) DEF SlotsHeld
<1>2. CASE TakeSlot(c)
  <2>. DEFINE h == conn[c]
  <2>1. /\ pend' = pend /\ conn' = conn /\ pc[c] = "slot" /\ pc'[c] = "register"
        /\ \A b \in Calls \ {c} : pc'[b] = pc[b]
        /\ Cardinality(Holders(h)) < MaxInflight
    BY <1>2, Zenon DEF TakeSlot, Step, TypeOK, CallsOK
  <2>2. Holders(h)' = Holders(h) \cup {c} /\ c \notin Holders(h)
    BY <2>1, Zenon DEF Holders
  <2>3. \A k \in Conns \ {h} : Holders(k)' = Holders(k)
    BY <2>1, Zenon DEF Holders
  <2>4. /\ Cardinality(Holders(h) \cup {c}) = Cardinality(Holders(h)) + 1
        /\ Cardinality(Holders(h) \cup {c}) \in Nat
    <3>1. IsFiniteSet(Holders(h) \cup {c})
      BY HoldersFinite, FS_AddElement, Zenon
    <3>. QED
      BY <2>2, <3>1, HoldersFinite, FS_AddElement, FS_CardinalityType, Zenon
  <2>5. Cardinality(Holders(h) \cup {c}) <= MaxInflight
    BY <2>1, <2>4, HoldersFinite, Room, Zenon
  <2>6. ASSUME NEW k \in Conns PROVE pend'[k] \subseteq Holders(k)' /\ Cardinality(Holders(k)') <= MaxInflight
    <3>1. CASE k = h
      BY <2>1, <2>2, <2>5, <3>1, Zenon DEF SlotsHeld
    <3>2. CASE k # h
      BY <2>1, <2>3, <3>2, Zenon DEF SlotsHeld
    <3>. QED
      BY <3>1, <3>2, Zenon
  <2>. QED
    BY <2>6, Zenon DEF SlotsHeld
<1>3. CASE Register(c)
  <2>1. /\ conn' = conn /\ pc[c] = "register" /\ pc'[c] = "write"
        /\ \A b \in Calls \ {c} : pc'[b] = pc[b]
        /\ pend' = [pend EXCEPT ![conn[c]] = @ \cup {c}]
    BY <1>3, Zenon DEF Register, Step, TypeOK, CallsOK
  <2>2. \A k \in Conns : Holders(k)' = Holders(k)
    BY <2>1, Zenon DEF Holders
  <2>3. \A k \in Conns : pend'[k] \subseteq Holders(k)'
    <3>1. c \in Holders(conn[c])
      BY <2>1, Zenon DEF Holders
    <3>2. \A k \in Conns : pend'[k] \subseteq pend[k] \cup (IF k = conn[c] THEN {c} ELSE {})
      BY <2>1, Zenon DEF TypeOK, CallsOK
    <3>. QED
      BY <2>2, <3>1, <3>2, Zenon DEF SlotsHeld
  <2>. QED
    BY <2>2, <2>3, FewerHolders, Zenon
<1>4. CASE WriteJSON(c)
  <2>1. /\ conn' = conn /\ pend' = pend /\ pc[c] = "write" /\ pc'[c] = "wait"
        /\ \A b \in Calls \ {c} : pc'[b] = pc[b]
    BY <1>4, Zenon DEF WriteJSON, Step, TypeOK, CallsOK
  <2>2. \A k \in Conns : Holders(k)' = Holders(k)
    BY <2>1, Zenon DEF Holders
  <2>. QED
    BY <2>1, <2>2, FewerHolders, ZenonT(60) DEF SlotsHeld
<1>5. CASE Return(c)
  <2>1. /\ conn' = conn /\ pc'[c] = "done"
        /\ \A b \in Calls \ {c} : pc'[b] = pc[b]
        /\ pend' = [pend EXCEPT ![conn[c]] = @ \ {c}]
    BY <1>5, Zenon DEF Return, Step, TypeOK, CallsOK
  <2>2. \A k \in Conns : Holders(k)' = Holders(k) \ {c}
    BY <2>1, Zenon DEF Holders
  <2>3. \A k \in Conns : c \in pend[k] => k = conn[c]
    BY Zenon DEF SlotsHeld, Holders
  <2>4. \A k \in Conns : pend'[k] \subseteq Holders(k)'
    BY <2>1, <2>2, <2>3, Zenon DEF SlotsHeld, TypeOK, CallsOK
  <2>. QED
    BY <2>2, <2>4, FewerHolders, Zenon
<1>. QED
  BY <1>1, <1>2, <1>3, <1>4, <1>5, Zenon DEF CallStep, GetResponse, Cancel

\* A connection never has more than MaxInflight registered calls, for every
\* number of calls and sessions (CallProgress, AgentConn.sem).
THEOREM BoundedInflightHolds == Spec => []BoundedInflight
<1>1. Init => SlotsHeld
  <2>1. ASSUME Init, NEW k \in Conns PROVE Holders(k) = {} /\ pend[k] = {}
    BY <2>1, Zenon DEF Init, Holders
  <2>. QED
    BY <2>1, FS_EmptySet DEF SlotsHeld
<1>2. TypeOK /\ SlotsHeld /\ [Next]_vars => SlotsHeld'
  <2>. SUFFICES ASSUME TypeOK, SlotsHeld, [Next]_vars PROVE SlotsHeld'
    BY Zenon
  <2>1. CASE UNCHANGED <<pend, pc, conn>>
    <3>1. \A k \in Conns : Holders(k)' = Holders(k)
      BY <2>1, Zenon DEF Holders
    <3>. QED
      BY <2>1, <3>1, FewerHolders, Zenon DEF SlotsHeld
  <2>2. CASE \E c \in Calls : (\E d \in Devices : Lookup(c, d)) \/ CallStep(c) \/ Cancel(c)
    BY <2>2, CallKeepsSlots, Zenon
  <2>3. ASSUME NEW k \in Conns, Put(k) \/ SessionStep(k) PROVE UNCHANGED <<pend, pc, conn>>
    BY <2>3, Zenon DEF calls, SessionStep, Put, PutFailsOld, PutClosesOld, SendAck, LeaveLoop,
                WriterDone, Remove, RemoveFails
  <2>4. ASSUME NEW k \in Conns,
               \/ WriterStep(k) \/ RecvHeartbeat(k) \/ RecvHeads(k) \/ SendReplay(k)
               \/ \E c \in Calls : RecvResponse(k, c)
               \/ StreamBreaks(k) \/ ClientReads(k) \/ Silence(k)
        PROVE  UNCHANGED <<pend, pc, conn>>
    BY <2>4, Zenon DEF calls, WriterStep, WriterTake, WriterSend, WriterStop, RecvHeartbeat,
                RecvHeads, SendReplay, RecvResponse, StreamBreaks, ClientReads, Silence
  <2>5. ASSUME UNCHANGED vars \/ AdminStep \/ \E d \in Devices : Disconnect(d)
        PROVE  UNCHANGED <<pend, pc, conn>>
    BY <2>5, Zenon DEF vars, calls, AdminStep, DisconnectFails, DisconnectCloses, Disconnect
  <2>. QED
    BY <2>1, <2>2, <2>3, <2>4, <2>5, Zenon DEF Next
<1>3. SlotsHeld => BoundedInflight
  <2>. SUFFICES ASSUME SlotsHeld, NEW k \in Conns PROVE Cardinality(pend[k]) <= MaxInflight
    BY Zenon DEF BoundedInflight
  <2>1. pend[k] \subseteq Holders(k) /\ Cardinality(Holders(k)) <= MaxInflight
    BY Zenon DEF SlotsHeld
  <2>2. IsFiniteSet(pend[k]) /\ Cardinality(pend[k]) <= Cardinality(Holders(k))
    BY <2>1, HoldersFinite, FS_Subset, Zenon
  <2>3. Cardinality(pend[k]) \in Nat /\ Cardinality(Holders(k)) \in Nat
    BY <2>2, HoldersFinite, FS_CardinalityType, Zenon
  <2>. QED
    BY <2>1, <2>2, <2>3, Room, Zenon
<1>. QED
  BY <1>1, <1>2, <1>3, TypeCorrect, PTL DEF Spec
=============================================================================
