------------------------------ MODULE Registry ------------------------------
(***************************************************************************)
(* The Manager's table of connected devices and the sessions and calls     *)
(* that use it (internal/manager/registry.go, grpc_agent.go), with what    *)
(* the Client does at the other end of the stream (cmd/client/main.go).    *)
(*                                                                         *)
(* A session is one gRPC stream.  Four goroutines share it on the Manager: *)
(* the handler, its writer, its receiver and the calls of MCP requests;    *)
(* a second session of the device and an administrator act on it too.      *)
(* A request is the call that made it: Registry.seq gives every call an id *)
(* of its own.  Payloads, accounts other than the caller's, the display    *)
(* fields of a device and the audit log are left out.  Run events are in   *)
(* RunEventSync; here they are only the replay request the receiver sends. *)
(***************************************************************************)
EXTENDS Integers, Sequences, FiniteSets

CONSTANTS Devices, Conns, Calls,
          DeviceOf,       \* the device that registers with a session
          None,           \* no session
          MaxInflight,    \* NewRegistry: capacity of AgentConn.sem
          SendCap,        \* capacity of grpcConn.send
          WireCap,        \* messages the stream takes before Send blocks
          MaxDisconnects  \* bound: Disconnect calls of the administrator

ASSUME RegistryAssumption ==
  /\ None \notin Conns /\ DeviceOf \in [Conns -> Devices]
  /\ IsFiniteSet(Calls)
  /\ MaxInflight \in Nat \ {0} /\ SendCap \in Nat \ {0} /\ WireCap \in Nat \ {0}
  /\ MaxDisconnects \in Nat

VARIABLES
  devices,  \* Registry.devices: the session that serves a device, or None
  \* one session
  sess,     \* step of the handler, see Steps
  prev,     \* the session that Put replaced
  closed,   \* grpcConn.done is closed
  stream,   \* the stream and its context are alive
  silent,   \* no message was received for heartbeatTimeout
  queue,    \* grpcConn.send
  writer,   \* "idle", "sending" or "stopped"
  hand,     \* what the writer is sending
  recv,     \* receiver: "fresh" until the run heads came, "sending", "idle"
  wire,     \* what the Client has still to read
  client,   \* "registering", "online" or "left"
  working,  \* requests the Client works on or has answered
  pend,     \* AgentConn.pend: the calls that registered
  \* one call
  pc,       \* step of CallProgress
  conn,     \* the session it found
  wait,     \* its channel of capacity 1
  \* the administrator
  admin, disconnects

table == <<devices, prev>>
flow == <<queue, writer, hand, recv, wire, client, working>>
calls == <<pend, pc, conn, wait>>
operator == <<admin, disconnects>>
vars == <<table, sess, closed, stream, silent, flow, calls, operator>>

Ack == "registered"
Replay == "run_replay"
Messages == Calls \cup {Ack, Replay}

\* "unused"; Put: "put", "close"; Connect: "ack", "running", "draining";
\* Remove: "removing", "failing"; "ended"
Steps == {"unused", "put", "close", "ack", "running", "draining", "removing",
          "failing", "ended"}

(* FailPending: every registered call whose channel is empty finds the     *)
(* error in it.  The snapshot and the sends are one step: the sends never  *)
(* block and go to a channel each.                                         *)
FailPending(k) ==
  wait' = [c \in Calls |-> IF c \in pend[k] /\ wait[c] = "empty"
                             THEN "failed" ELSE wait[c]]

(* grpcConn.Send: queues the message or, on a closed connection, may drop  *)
(* it; it blocks on a full queue.                                          *)
Send(k, m) ==
  \/ /\ Len(queue[k]) < SendCap
     /\ queue' = [queue EXCEPT ![k] = Append(@, m)]
  \/ closed[k] /\ UNCHANGED queue

Close(k) == closed' = [closed EXCEPT ![k] = TRUE]
Goto(k, step) == sess' = [sess EXCEPT ![k] = step]

(***************************************************************************)
(* The handler: Connect, with Put and Remove.                              *)
(***************************************************************************)
Put(k) ==
  /\ sess[k] = "unused"
  /\ stream' = [stream EXCEPT ![k] = TRUE]
  /\ LET old == devices[DeviceOf[k]] IN
       /\ devices' = [devices EXCEPT ![DeviceOf[k]] = k]
       /\ prev' = [prev EXCEPT ![k] = old]
       /\ Goto(k, IF old = None THEN "ack" ELSE "put")
       /\ writer' = [writer EXCEPT ![k] = IF old = None THEN "idle" ELSE @]
  /\ UNCHANGED <<closed, silent, queue, hand, recv, wire, client, working, calls, operator>>

PutFailsOld(k) ==
  /\ sess[k] = "put"
  /\ FailPending(prev[k])
  /\ Goto(k, "close")
  /\ UNCHANGED <<table, closed, stream, silent, flow, pend, pc, conn, operator>>

PutClosesOld(k) ==
  /\ sess[k] = "close"
  /\ Close(prev[k])
  /\ Goto(k, "ack")
  /\ writer' = [writer EXCEPT ![k] = "idle"]
  /\ UNCHANGED <<table, stream, silent, queue, hand, recv, wire, client, working, calls, operator>>

SendAck(k) ==
  /\ sess[k] = "ack"
  /\ Send(k, Ack)
  /\ Goto(k, "running")
  /\ UNCHANGED <<table, closed, stream, silent, writer, hand, recv, wire, client, working, calls, operator>>

\* the loop ends on ctx.Done, on a receive error or on the heartbeat check
LeaveLoop(k) ==
  /\ sess[k] = "running"
  /\ ~stream[k] \/ silent[k]
  /\ Close(k)
  /\ Goto(k, "draining")
  /\ UNCHANGED <<table, stream, silent, flow, calls, operator>>

WriterDone(k) ==
  /\ sess[k] = "draining" /\ writer[k] = "stopped"
  /\ Goto(k, "removing")
  /\ UNCHANGED <<table, closed, stream, silent, flow, calls, operator>>

\* mutant: Remove deletes whatever session serves the device
Remove_Any(k) ==
  /\ sess[k] = "removing"
  /\ devices' = [devices EXCEPT ![DeviceOf[k]] = None]
  /\ Goto(k, "failing")
  /\ UNCHANGED <<prev, closed, stream, silent, flow, calls, operator>>

Remove(k) ==
  /\ sess[k] = "removing"
  /\ devices' = [devices EXCEPT ![DeviceOf[k]] = IF @ = k THEN None ELSE @]
  /\ Goto(k, "failing")
  /\ UNCHANGED <<prev, closed, stream, silent, flow, calls, operator>>

\* mutant: Remove does not wake the waiters
RemoveFails_Silent(k) ==
  /\ sess[k] = "failing"
  /\ Goto(k, "ended")
  /\ stream' = [stream EXCEPT ![k] = FALSE]
  /\ client' = [client EXCEPT ![k] = "left"]
  /\ wire' = [wire EXCEPT ![k] = <<>>]
  /\ working' = [working EXCEPT ![k] = {}]
  /\ UNCHANGED <<table, closed, silent, queue, writer, hand, recv, calls, operator>>

\* Remove's FailPending; the handler returns, which ends the stream
RemoveFails(k) ==
  /\ sess[k] = "failing"
  /\ FailPending(k)
  /\ Goto(k, "ended")
  /\ stream' = [stream EXCEPT ![k] = FALSE]
  /\ client' = [client EXCEPT ![k] = "left"]
  /\ wire' = [wire EXCEPT ![k] = <<>>]
  /\ working' = [working EXCEPT ![k] = {}]
  /\ UNCHANGED <<table, closed, silent, queue, writer, hand, recv, pend, pc, conn, operator>>

(***************************************************************************)
(* The writer and the receiver.                                            *)
(***************************************************************************)
WriterTake(k) ==
  /\ writer[k] = "idle" /\ queue[k] # <<>>
  /\ writer' = [writer EXCEPT ![k] = "sending"]
  /\ hand' = [hand EXCEPT ![k] = Head(queue[k])]
  /\ queue' = [queue EXCEPT ![k] = Tail(@)]
  /\ UNCHANGED <<table, sess, closed, stream, silent, recv, wire, client, working, calls, operator>>

\* mutant: a failed send is tried again
WriterSend_Retries(k) ==
  /\ writer[k] = "sending"
  /\ stream[k] /\ Len(wire[k]) < WireCap
  /\ wire' = [wire EXCEPT ![k] = Append(@, hand[k])]
  /\ writer' = [writer EXCEPT ![k] = "idle"]
  /\ hand' = [hand EXCEPT ![k] = None]
  /\ UNCHANGED <<table, sess, closed, stream, silent, queue, recv, client, working, calls, operator>>

\* stream.Send blocks while the Client does not read, and fails on a dead stream
WriterSend(k) ==
  /\ writer[k] = "sending"
  /\ \/ /\ stream[k] /\ Len(wire[k]) < WireCap
        /\ wire' = [wire EXCEPT ![k] = Append(@, hand[k])]
        /\ writer' = [writer EXCEPT ![k] = "idle"]
     \/ /\ ~stream[k]
        /\ writer' = [writer EXCEPT ![k] = "stopped"]
        /\ UNCHANGED wire
  /\ hand' = [hand EXCEPT ![k] = None]
  /\ UNCHANGED <<table, sess, closed, stream, silent, queue, recv, client, working, calls, operator>>

WriterStop(k) ==
  /\ writer[k] = "idle"
  /\ closed[k] \/ ~stream[k]
  /\ writer' = [writer EXCEPT ![k] = "stopped"]
  /\ UNCHANGED <<table, sess, closed, stream, silent, queue, hand, recv, wire, client, working, calls, operator>>

\* the receiver runs once the acknowledgement is queued
Receiving(k) == stream[k] /\ sess[k] \in {"running", "draining", "removing", "failing"}
Heard(k) == silent' = [silent EXCEPT ![k] = FALSE]

RecvHeartbeat(k) ==
  /\ Receiving(k) /\ recv[k] # "sending" /\ client[k] = "online"
  /\ silent[k] /\ Heard(k)
  /\ UNCHANGED <<table, sess, closed, stream, flow, calls, operator>>

(* Deliver: the answer goes to the call that registered it on this very    *)
(* connection, unless the call is gone or has an outcome already.          *)
Deliver(k, c) ==
  wait' = IF c \in pend[k] /\ wait[c] = "empty"
            THEN [wait EXCEPT ![c] = "ok"] ELSE wait

RecvResponse(k, c) ==
  /\ Receiving(k) /\ recv[k] # "sending" /\ c \in working[k]
  /\ Heard(k)
  /\ Deliver(k, c)
  /\ working' = [working EXCEPT ![k] = @ \ {c}]
  /\ UNCHANGED <<table, sess, closed, stream, queue, writer, hand, recv, wire, client, pend, pc, conn, operator>>

\* the run heads the Client sends once; the Manager may miss some of them
RecvHeads(k) ==
  /\ Receiving(k) /\ recv[k] = "fresh" /\ client[k] = "online"
  /\ Heard(k)
  /\ \E step \in {"idle", "sending"} : recv' = [recv EXCEPT ![k] = step]
  /\ UNCHANGED <<table, sess, closed, stream, queue, writer, hand, wire, client, working, calls, operator>>

SendReplay(k) ==
  /\ recv[k] = "sending"
  /\ Send(k, Replay)
  /\ recv' = [recv EXCEPT ![k] = "idle"]
  /\ UNCHANGED <<table, sess, closed, stream, silent, writer, hand, wire, client, working, calls, operator>>

(***************************************************************************)
(* The Client and the network.                                             *)
(***************************************************************************)
Break(k) ==
  /\ stream' = [stream EXCEPT ![k] = FALSE]
  /\ client' = [client EXCEPT ![k] = "left"]
  /\ working' = [working EXCEPT ![k] = {}]

StreamBreaks(k) ==
  /\ stream[k] /\ sess[k] # "ended"
  /\ Break(k)
  /\ wire' = [wire EXCEPT ![k] = <<>>]
  /\ UNCHANGED <<table, sess, closed, silent, queue, writer, hand, recv, calls, operator>>

\* runGRPCSession: the first message must be the acknowledgement
ClientReads(k) ==
  /\ stream[k] /\ wire[k] # <<>>
  /\ LET m == Head(wire[k]) IN
       \/ /\ client[k] = "registering" /\ m = Ack
          /\ client' = [client EXCEPT ![k] = "online"]
          /\ UNCHANGED <<stream, working>>
       \/ /\ client[k] = "registering" /\ m # Ack
          /\ Break(k)
       \/ /\ client[k] = "online"
          /\ working' = IF m \in Calls THEN [working EXCEPT ![k] = @ \cup {m}] ELSE working
          /\ UNCHANGED <<stream, client>>
  /\ wire' = [wire EXCEPT ![k] = Tail(@)]
  /\ UNCHANGED <<table, sess, closed, silent, queue, writer, hand, recv, calls, operator>>

\* heartbeatTimeout passes without a message received
Silence(k) ==
  /\ sess[k] = "running" /\ ~silent[k]
  /\ silent' = [silent EXCEPT ![k] = TRUE]
  /\ UNCHANGED <<table, sess, closed, stream, flow, calls, operator>>

(***************************************************************************)
(* A call: CallProgress.                                                   *)
(***************************************************************************)
Step(c, s) == pc' = [pc EXCEPT ![c] = s]

\* an unknown device and a device of another account answer alike
Lookup(c, d) ==
  /\ pc[c] = "idle"
  /\ conn' = [conn EXCEPT ![c] = devices[d]]
  /\ \/ devices[d] # None /\ Step(c, "slot")
     \/ Step(c, "done")
  /\ UNCHANGED <<table, sess, closed, stream, silent, flow, pend, wait, operator>>

Holders(k) == {c \in Calls : conn[c] = k /\ pc[c] \in {"register", "write", "wait"}}

TakeSlot(c) ==
  /\ pc[c] = "slot"
  /\ Cardinality(Holders(conn[c])) < MaxInflight
  /\ Step(c, "register")
  /\ UNCHANGED <<table, sess, closed, stream, silent, flow, pend, conn, wait, operator>>

Register(c) ==
  /\ pc[c] = "register"
  /\ pend' = [pend EXCEPT ![conn[c]] = @ \cup {c}]
  /\ Step(c, "write")
  /\ UNCHANGED <<table, sess, closed, stream, silent, flow, conn, wait, operator>>

(* WriteJSON under AgentConn.mu: the holder waits for room and the others  *)
(* for the holder, so each of them waits for room.                         *)
WriteJSON(c) ==
  /\ pc[c] = "write"
  /\ Send(conn[c], c)
  /\ Step(c, "wait")
  /\ UNCHANGED <<table, sess, closed, stream, silent, writer, hand, recv, wire, client, working, pend, conn, wait, operator>>

\* both deferred functions: leave pend, give the slot back
Return(c) ==
  /\ Step(c, "done")
  /\ pend' = [pend EXCEPT ![conn[c]] = @ \ {c}]
  /\ UNCHANGED <<table, sess, closed, stream, silent, flow, conn, wait, operator>>

GetResponse(c) == pc[c] = "wait" /\ wait[c] # "empty" /\ Return(c)

\* ctx.Done: the MCP client went away
Cancel(c) == pc[c] \in {"slot", "wait"} /\ Return(c)

(***************************************************************************)
(* Disconnect, after an administrator rotated or revoked a credential.     *)
(***************************************************************************)
Disconnect(d) ==
  /\ admin = <<>> /\ disconnects < MaxDisconnects /\ devices[d] # None
  /\ admin' = <<"fail", devices[d]>>
  /\ disconnects' = disconnects + 1
  /\ UNCHANGED <<table, sess, closed, stream, silent, flow, calls>>

DisconnectFails ==
  /\ admin # <<>> /\ admin[1] = "fail"
  /\ FailPending(admin[2])
  /\ admin' = <<"close", admin[2]>>
  /\ UNCHANGED <<table, sess, closed, stream, silent, flow, pend, pc, conn, disconnects>>

DisconnectCloses ==
  /\ admin # <<>> /\ admin[1] = "close"
  /\ Close(admin[2])
  /\ admin' = <<>>
  /\ UNCHANGED <<table, sess, stream, silent, flow, calls, disconnects>>

-----------------------------------------------------------------------------
Init ==
  /\ devices = [d \in Devices |-> None]
  /\ prev = [k \in Conns |-> None]
  /\ sess = [k \in Conns |-> "unused"]
  /\ closed = [k \in Conns |-> FALSE]
  /\ stream = [k \in Conns |-> FALSE]
  /\ silent = [k \in Conns |-> FALSE]
  /\ queue = [k \in Conns |-> <<>>]
  /\ writer = [k \in Conns |-> "stopped"]
  /\ hand = [k \in Conns |-> None]
  /\ recv = [k \in Conns |-> "fresh"]
  /\ wire = [k \in Conns |-> <<>>]
  /\ client = [k \in Conns |-> "registering"]
  /\ working = [k \in Conns |-> {}]
  /\ pend = [k \in Conns |-> {}]
  /\ pc = [c \in Calls |-> "idle"]
  /\ conn = [c \in Calls |-> None]
  /\ wait = [c \in Calls |-> "empty"]
  /\ admin = <<>> /\ disconnects = 0

SessionStep(k) ==
  \/ PutFailsOld(k) \/ PutClosesOld(k) \/ SendAck(k)
  \/ LeaveLoop(k) \/ WriterDone(k) \/ Remove(k) \/ RemoveFails(k)
WriterStep(k) == WriterTake(k) \/ WriterSend(k) \/ WriterStop(k)
CallStep(c) == TakeSlot(c) \/ Register(c) \/ WriteJSON(c) \/ GetResponse(c)
AdminStep == DisconnectFails \/ DisconnectCloses

Next ==
  \/ \E k \in Conns :
       \/ Put(k) \/ SessionStep(k) \/ WriterStep(k)
       \/ RecvHeartbeat(k) \/ RecvHeads(k) \/ SendReplay(k)
       \/ \E c \in Calls : RecvResponse(k, c)
       \/ StreamBreaks(k) \/ ClientReads(k) \/ Silence(k)
  \/ \E c \in Calls : (\E d \in Devices : Lookup(c, d)) \/ CallStep(c) \/ Cancel(c)
  \/ \E d \in Devices : Disconnect(d)
  \/ AdminStep

Spec == Init /\ [][Next]_vars

(***************************************************************************)
(* Fairness: the Go scheduler runs every goroutine that can go on.  No     *)
(* call is sure to be cancelled, no message sure to arrive and no stream   *)
(* sure to break; but a receiver that is blocked itself hears nothing.     *)
(* The Client's read loop never blocks: each request has a goroutine.      *)
(***************************************************************************)
Fairness ==
  /\ \A k \in Conns :
       /\ WF_vars(SessionStep(k)) /\ WF_vars(WriterStep(k))
       /\ WF_vars(SendReplay(k)) /\ WF_vars(recv[k] = "sending" /\ Silence(k))
       /\ WF_vars(ClientReads(k))
  /\ \A c \in Calls : WF_vars(CallStep(c))
  /\ WF_vars(AdminStep)

FairSpec == Spec /\ Fairness

-----------------------------------------------------------------------------
\* Every variable of the session, of the call and of the administrator has
\* the values the Go types and the steps of the functions allow.
TableOK ==
  /\ devices \in [Devices -> Conns \cup {None}]
  /\ prev \in [Conns -> Conns \cup {None}]
HandlerOK ==
  /\ sess \in [Conns -> Steps]
  /\ closed \in [Conns -> BOOLEAN] /\ stream \in [Conns -> BOOLEAN]
  /\ silent \in [Conns -> BOOLEAN]
QueueOK ==
  queue \in [Conns -> Seq(Messages)] /\ \A k \in Conns : Len(queue[k]) <= SendCap
WriterOK ==
  /\ writer \in [Conns -> {"idle", "sending", "stopped"}]
  /\ hand \in [Conns -> Messages \cup {None}]
  /\ \A k \in Conns : writer[k] = "sending" => hand[k] \in Messages
WireOK ==
  wire \in [Conns -> Seq(Messages)] /\ \A k \in Conns : Len(wire[k]) <= WireCap
PeerOK ==
  /\ recv \in [Conns -> {"fresh", "sending", "idle"}]
  /\ client \in [Conns -> {"registering", "online", "left"}]
  /\ working \in [Conns -> SUBSET Calls]
CallsOK ==
  /\ pend \in [Conns -> SUBSET Calls]
  /\ pc \in [Calls -> {"idle", "slot", "register", "write", "wait", "done"}]
  /\ conn \in [Calls -> Conns \cup {None}]
  /\ \A c \in Calls : pc[c] \notin {"idle", "done"} => conn[c] \in Conns
WaitOK == wait \in [Calls -> {"empty", "ok", "failed"}]
OperatorOK ==
  /\ admin \in {<<>>} \cup ({"fail", "close"} \X Conns)
  /\ disconnects \in 0..MaxDisconnects
\* The state has its type; the queues and the wire stay within their capacities.
TypeOK ==
  /\ TableOK /\ HandlerOK /\ QueueOK /\ WriterOK /\ WireOK
  /\ PeerOK /\ CallsOK /\ WaitOK /\ OperatorOK

\* Another session is between the swap of Put and the Close of this one.
BeingReplaced(k) == \E j \in Conns : sess[j] \in {"put", "close"} /\ prev[j] = k

\* The table serves live sessions: a session that registered and that nobody
\* closed or is about to replace is the one calls for its device find, however
\* late the handler of an older session runs Remove; and once a session's own
\* Remove ran, no call finds it (Put, Remove: registry.go 65-94).
RegistryServesLive ==
  \A k \in Conns :
    /\ /\ sess[k] \in {"put", "close", "ack", "running"}
       /\ ~closed[k] /\ ~BeingReplaced(k)
       => devices[DeviceOf[k]] = k
    /\ sess[k] \in {"unused", "failing", "ended"} => devices[DeviceOf[k]] # k

\* One connection never has more than MaxInflight registered calls, between
\* two calls that test for a slot at the same time and calls that are cancelled
\* or fail (CallProgress: registry.go 180-200).
BoundedInflight == \A k \in Conns : Cardinality(pend[k]) <= MaxInflight

\* A call that is registered when its session's handler leaves the loop does
\* not wait for ever: the handler reaches Remove, whose FailPending wakes it.
PendingCallsFail ==
  \A k \in Conns, c \in Calls :
    (sess[k] = "draining" /\ c \in pend[k]) ~> (c \notin pend[k])

\* A device whose stream broke is off the table in the end, whatever the writer,
\* the receiver or a call of the session is blocked on.
BrokenSessionEnds ==
  \A k \in Conns :
    (~stream[k] /\ sess[k] = "running")
      ~> (sess[k] = "ended" /\ devices[DeviceOf[k]] # k)

\* The receiver is never wedged on a full queue: if the writer makes no room,
\* the handler closes the connection in the end and Send returns.
ReceiverNotWedged ==
  \A k \in Conns : (recv[k] = "sending") ~> (recv[k] # "sending")

\* "Pending MCP calls fail promptly when an Agent disconnects/reconnects"
\* (docs/development-standards.md:73): no call waits with an empty channel on
\* a session whose handler has returned.
NoCallOutlivesSession ==
  \A c \in Calls :
    pc[c] = "wait" /\ wait[c] = "empty" => sess[conn[c]] # "ended"

\* "if ack.Type != "registered"" (cmd/client/main.go:557): the first message
\* of a session is the acknowledgement of its registration.
AckFirst ==
  \A k \in Conns :
    client[k] = "registering" /\ wire[k] # <<>> => Head(wire[k]) = Ack
=============================================================================
