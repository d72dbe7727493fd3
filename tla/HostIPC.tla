------------------------------ MODULE HostIPC -------------------------------
(***************************************************************************)
(* Host IPC v1: the listener of codebridged (internal/hostipc/server.go)   *)
(* and the Go client (client.go).  Every connection is served by a         *)
(* goroutine that reads one frame at a time and runs the handler itself;   *)
(* the client multiplexes calls over one connection and has a reader of    *)
(* its own.  A frame is a record; bytes and JSON are left out.             *)
(***************************************************************************)
EXTENDS Integers, Sequences, FiniteSets

CONSTANTS Conns,       \* connections, each dialled once
          Callers,     \* goroutines of one client that Call
          MaxSeq,      \* bound on the calls of a client, host.hello included
          MaxPeer,     \* bound on the frames of a peer that is not the Go client
          Registered   \* methods a handler was registered for

ASSUME HostAssumption == MaxSeq \in Nat /\ MaxPeer \in Nat

VARIABLES closed,      \* Server.closed
          closing,     \* where Server.Close is: "no", "listener", "conns", "done"
          snapshot,    \* the connections Close found in Server.conns
          serve,       \* Serve: "accept", "wait", "returned"
          srv,         \* the server's end of each connection
          toSrv, toCli,\* frames under way
          cli,         \* the client's end: reader, pending table, sequence number
          call,        \* the callers
          served       \* history: (connection, role, method) a handler ran for

serverVars == <<closed, closing, snapshot, serve>>
ipcVars == <<closed, closing, snapshot, serve, srv, toSrv, toCli, cli, call, served>>

-----------------------------------------------------------------------------
(* The method table: rows with the same direction and roles are one row. *)

Roles == {"app", "diagnostics", "harness"}
methodTable ==
  [m \in {"host.health", "host.phase0_probe", "runtime.events", "computer.act", "notify.post"} |->
     CASE m = "host.health"       -> [dir |-> "app_to_daemon", roles |-> Roles]
       [] m = "host.phase0_probe" -> [dir |-> "app_to_daemon", roles |-> {"app", "diagnostics"}]
       [] m = "runtime.events"    -> [dir |-> "app_to_daemon", roles |-> {"app"}]
       [] m = "computer.act"      -> [dir |-> "daemon_to_app", roles |-> {"app"}]
       [] OTHER                   -> [dir |-> "daemon_to_app_notification", roles |-> {"app"}]]
Methods == DOMAIN methodTable \cup {"no.such"}

Authorize(m, role) ==
  /\ m \in DOMAIN methodTable
  /\ methodTable[m].dir = "app_to_daemon"
  /\ role \in methodTable[m].roles

\* The minor versions spoken: the daemon's own and the one below.
SupportedClientMinors(minor) == {n \in {minor, minor - 1} : n >= 0}
Negotiate(daemon, client) ==
  client.major = daemon.major /\ client.minor \in SupportedClientMinors(daemon.minor)

DaemonProtocol == [major |-> 1, minor |-> 1]
PreviousMinor == [major |-> 1, minor |-> 0]
NoProtocol == [major |-> 0, minor |-> 0]

\* id is the JSON-RPC id, call the caller's own number of the call it made.
Frame(k, id, n, m) == [k |-> k, id |-> id, call |-> n, m |-> m, role |-> "harness",
                       protocol |-> NoProtocol, signed |-> FALSE]
Hello(role, protocol, signed) ==
  [Frame("hello", 1, 1, "") EXCEPT !.role = role, !.protocol = protocol, !.signed = signed]
Hellos == {Hello("app", DaemonProtocol, s) : s \in BOOLEAN}
          \cup {Hello(r, PreviousMinor, FALSE) : r \in {"harness", "other"}}
          \cup {Hello("harness", [major |-> 1, minor |-> 2], FALSE), Hello("harness", [major |-> 2, minor |-> 1], FALSE)}
Answer(f, ok) == [id |-> f.id, call |-> f.call, ok |-> ok]
NoAnswer == [id |-> 0, call |-> 0, ok |-> FALSE]   \* an error without an id, or a failed connection

\* What the readers make of the bytes: a frame of a length out of bounds or an
\* attachment, a payload that is no JSON-RPC 2.0 message, or a message.
FrameError(f) == f.k \in {"length", "attachment"}
DecodeError(f) == f.k = "garbage"
Kind(f) == IF f.k = "hello" THEN "request" ELSE f.k

-----------------------------------------------------------------------------
(* The server *)

NoConn == [at |-> "none", hello |-> FALSE, role |-> "", verified |-> FALSE, deadline |-> FALSE,
           member |-> FALSE, open |-> FALSE, req |-> Frame("none", 0, 0, "")]

\* removeConn and Close, at the end of serveConn.
Gone(c) == [srv[c] EXCEPT !.at = "gone", !.member = FALSE, !.open = FALSE]
peerOpen(c) == cli[c].open
\* WriteFrame: an answer written to a connection closed by either side is lost.
Sent(c, a) == IF srv[c].open /\ peerOpen(c) THEN [toCli EXCEPT ![c] = Append(@, a)] ELSE toCli

Accept(c) ==
  /\ serve = "accept" /\ srv[c].at = "backlog"
  /\ srv' = [srv EXCEPT ![c].at = "accepted", ![c].open = TRUE]
  /\ UNCHANGED <<serverVars, toSrv, toCli, cli, call, served>>

\* The peer's credentials, addConn and the deadline for host.hello.
ServeConn(c) ==
  /\ srv[c].at = "accepted"
  /\ \/ srv' = [srv EXCEPT ![c].at = "read", ![c].member = TRUE, ![c].deadline = TRUE]
     \/ srv' = [srv EXCEPT ![c] = Gone(c)]
  /\ UNCHANGED <<serverVars, toSrv, toCli, cli, call, served>>

\* The read fails: the peer left, Close closed the connection, or the deadline passed.
ReadFails(c) ==
  /\ srv[c].at = "read"
  /\ \/ ~srv[c].open
     \/ ~peerOpen(c) /\ toSrv[c] = <<>>
     \/ srv[c].deadline
  /\ srv' = [srv EXCEPT ![c] = Gone(c)]
  /\ UNCHANGED <<serverVars, toSrv, toCli, cli, call, served>>

\* An answer that does not end the connection, and one that does.
Keeps(c, a) == toCli' = Sent(c, a) /\ UNCHANGED srv
Ends(c, a) == toCli' = Sent(c, a) /\ srv' = [srv EXCEPT ![c] = Gone(c)]

\* signed: VerifyAppPeer accepts the live process of the peer.
handleHello(c, f) ==
  IF srv[c].hello THEN Keeps(c, Answer(f, FALSE))
  ELSE IF f.role \notin Roles \/ ~Negotiate(DaemonProtocol, f.protocol) \/ (f.role = "app" /\ ~f.signed)
  THEN Ends(c, Answer(f, FALSE))
  ELSE IF ~srv[c].open \/ ~peerOpen(c) THEN Ends(c, Answer(f, TRUE))
  ELSE /\ srv' = [srv EXCEPT ![c].hello = TRUE, ![c].role = f.role, ![c].deadline = FALSE,
                             ![c].verified = f.role = "app"]
       /\ toCli' = Sent(c, Answer(f, TRUE))

handleRequest(c, f) ==
  IF f.k = "hello" THEN handleHello(c, f)
  ELSE IF ~srv[c].hello THEN Ends(c, Answer(f, FALSE))
  ELSE IF ~Authorize(f.m, srv[c].role) \/ f.m \notin Registered THEN Keeps(c, Answer(f, FALSE))
  ELSE srv' = [srv EXCEPT ![c].at = "handle", ![c].req = f] /\ UNCHANGED toCli

\* One frame: what is no message ends the connection, a notification is passed
\* over, and so is a response, as the daemon has asked nothing.
ReadFrame(c) ==
  /\ srv[c].at = "read" /\ srv[c].open /\ toSrv[c] # <<>>
  /\ LET f == Head(toSrv[c])
     IN /\ toSrv' = [toSrv EXCEPT ![c] = Tail(@)]
        /\ IF FrameError(f) \/ DecodeError(f) THEN Ends(c, NoAnswer)
           ELSE IF Kind(f) = "request" THEN handleRequest(c, f)
           ELSE UNCHANGED <<srv, toCli>>
        /\ served' = IF srv'[c].at = "handle" THEN served \cup {<<c, srv[c].role, f.m>>} ELSE served
  /\ UNCHANGED <<serverVars, cli, call>>

\* The handler returns a result or an error; a result that cannot be written
\* ends the connection.
HandlerReturns(c) ==
  /\ srv[c].at = "handle"
  /\ \E ok \in BOOLEAN :
       /\ toCli' = Sent(c, Answer(srv[c].req, ok))
       /\ srv' = [srv EXCEPT ![c] = IF ok /\ ~(srv[c].open /\ peerOpen(c)) THEN Gone(c)
                                    ELSE [srv[c] EXCEPT !.at = "read"]]
  /\ UNCHANGED <<serverVars, toSrv, cli, call, served>>

\* Close: closed and the snapshot; the listener; the connections found.
CloseBegins ==
  /\ closing = "no"
  /\ closed' = TRUE /\ closing' = "listener"
  /\ snapshot' = {c \in Conns : srv[c].member}
  /\ UNCHANGED <<serve, srv, toSrv, toCli, cli, call, served>>

\* Connections nobody accepted are reset by the kernel.
CloseListener ==
  /\ closing = "listener"
  /\ closing' = "conns"
  /\ srv' = [c \in Conns |-> IF srv[c].at = "backlog" THEN [srv[c] EXCEPT !.at = "gone"] ELSE srv[c]]
  /\ UNCHANGED <<closed, snapshot, serve, toSrv, toCli, cli, call, served>>

CloseConns ==
  /\ closing = "conns"
  /\ closing' = "done"
  /\ srv' = [c \in Conns |-> IF c \in snapshot THEN [srv[c] EXCEPT !.open = FALSE] ELSE srv[c]]
  /\ UNCHANGED <<closed, snapshot, serve, toSrv, toCli, cli, call, served>>

Serving == {c \in Conns : srv[c].at \in {"accepted", "read", "handle"}}

\* Mutant: Serve returns as soon as its listener is closed.
ServeReturns_AtOnce ==
  /\ serve = "wait"
  /\ serve' = "returned"
  /\ UNCHANGED <<closed, closing, snapshot, srv, toSrv, toCli, cli, call, served>>

\* Accept fails on the closed listener; then Serve waits for the connections.
AcceptFails ==
  /\ serve = "accept" /\ closing \in {"conns", "done"}
  /\ serve' = "wait"
  /\ UNCHANGED <<closed, closing, snapshot, srv, toSrv, toCli, cli, call, served>>
ServeReturns ==
  /\ serve = "wait" /\ Serving = {}
  /\ serve' = "returned"
  /\ UNCHANGED <<closed, closing, snapshot, srv, toSrv, toCli, cli, call, served>>

-----------------------------------------------------------------------------
(* The client *)

NoClient == [reader |-> "off", open |-> FALSE, done |-> FALSE, seq |-> 0, pending |-> {}, calls |-> 0]
Idle == [at |-> "idle", id |-> 0, call |-> 0, m |-> "", ch |-> <<>>, got |-> NoAnswer]
\* A peer that is not this client (the app) frames its messages itself.
RawPeer(c) == cli[c].reader = "raw"

Dial(c) ==
  /\ cli[c].reader = "off" /\ closing \in {"no", "listener"}
  /\ \E r \in {"read", "raw"} : cli' = [cli EXCEPT ![c] = [NoClient EXCEPT !.reader = r, !.open = TRUE]]
  /\ srv' = [srv EXCEPT ![c].at = "backlog"]
  /\ UNCHANGED <<serverVars, toSrv, toCli, call, served>>

\* Any frame the peer may send; how many is bounded by MaxPeer.
PeerSends(c) ==
  /\ RawPeer(c) /\ cli[c].open /\ cli[c].calls < MaxPeer
  /\ cli' = [cli EXCEPT ![c].calls = @ + 1]
  /\ \E f \in {[h EXCEPT !.call = cli[c].calls + 1] : h \in Hellos}
              \cup {Frame("request", 1, cli[c].calls + 1, m) : m \in Methods}
              \cup {Frame(k, 0, 0, "") : k \in {"length", "attachment", "garbage", "notification", "response"}} :
       toSrv' = [toSrv EXCEPT ![c] = Append(@, f)]
  /\ UNCHANGED <<serverVars, srv, toCli, call, served>>

callID(c) == cli[c].seq + 1

\* Call: the id and the channel are put into the pending table.
Register(c, k) ==
  /\ cli[c].reader \in {"read", "fail", "end"} /\ call[c][k].at = "idle" /\ cli[c].seq < MaxSeq
  /\ cli[c].calls > 0 \/ k = 1     \* Dial makes the first call
  /\ \A j \in Callers : cli[c].calls = 1 => call[c][j].at = "idle"
  /\ call' = [call EXCEPT ![c][k] = [Idle EXCEPT !.at = "write", !.id = callID(c), !.call = cli[c].calls + 1,
                                                 !.m = IF cli[c].calls = 0 THEN "host.hello" ELSE "host.health"]]
  /\ cli' = [cli EXCEPT ![c].seq = @ + 1, ![c].calls = @ + 1, ![c].pending = @ \cup {callID(c)}]
  /\ UNCHANGED <<serverVars, srv, toSrv, toCli, served>>

\* The deferred delete, and the result of the call.
Returned(c, k, a) ==
  /\ call' = [call EXCEPT ![c][k] = [@ EXCEPT !.at = "returned", !.got = a, !.ch = <<>>]]
  /\ cli' = [cli EXCEPT ![c] =
       LET p == [cli[c] EXCEPT !.pending = cli[c].pending \ {call[c][k].id}]
       IN IF call[c][k].m = "host.hello" /\ ~a.ok
          THEN [p EXCEPT !.open = FALSE, !.done = TRUE] ELSE p]    \* Dial: c.Close()

Write(c, k) ==
  /\ call[c][k].at = "write"
  /\ IF cli[c].open /\ srv[c].at # "gone" /\ (srv[c].at = "backlog" \/ srv[c].open)
     THEN /\ toSrv' = [toSrv EXCEPT ![c] = Append(@, IF call[c][k].m = "host.hello"
               THEN [Hello("harness", PreviousMinor, FALSE) EXCEPT !.id = call[c][k].id]
               ELSE Frame("request", call[c][k].id, call[c][k].call, call[c][k].m))]
          /\ call' = [call EXCEPT ![c][k].at = "wait"]
          /\ UNCHANGED cli
     ELSE Returned(c, k, NoAnswer) /\ UNCHANGED toSrv
  /\ UNCHANGED <<serverVars, srv, toCli, served>>

\* The select of Call: the answer, the closed connection, the timer or the context.
CallAnswered(c, k) ==
  /\ call[c][k].at = "wait" /\ call[c][k].ch # <<>>
  /\ Returned(c, k, Head(call[c][k].ch))
  /\ UNCHANGED <<serverVars, srv, toSrv, toCli, served>>
CallDone(c, k) ==
  /\ call[c][k].at = "wait" /\ cli[c].done
  /\ Returned(c, k, NoAnswer)
  /\ UNCHANGED <<serverVars, srv, toSrv, toCli, served>>
CallTimesOut(c, k) ==
  /\ call[c][k].at = "wait"
  /\ Returned(c, k, NoAnswer)
  /\ UNCHANGED <<serverVars, srv, toSrv, toCli, served>>
CallAgain(c, k) ==
  /\ call[c][k].at = "returned"
  /\ call' = [call EXCEPT ![c][k] = Idle]
  /\ UNCHANGED <<serverVars, srv, toSrv, toCli, cli, served>>

\* An answer goes to the channel (of one place) its id has in the pending table.
Delivered(c, a) ==
  [k \in Callers |-> IF call[c][k].at \in {"write", "wait"} /\ call[c][k].id = a.id
                        /\ a.id \in cli[c].pending /\ call[c][k].ch = <<>>
                     THEN [call[c][k] EXCEPT !.ch = <<a>>] ELSE call[c][k]]
ReadAnswer(c) ==
  /\ cli[c].reader \in {"read", "raw"} /\ cli[c].open /\ toCli[c] # <<>>
  /\ toCli' = [toCli EXCEPT ![c] = Tail(@)]
  /\ call' = [call EXCEPT ![c] = Delivered(c, Head(toCli[c]))]
  /\ UNCHANGED <<serverVars, srv, toSrv, cli, served>>

\* Mutant: the reader returns, and neither fails the calls nor closes.
FailAll_Returns(c) ==
  /\ cli[c].reader = "read"
  /\ ~cli[c].open \/ (toCli[c] = <<>> /\ (srv[c].at = "gone" \/ (srv[c].at \notin {"backlog"} /\ ~srv[c].open)))
  /\ cli' = [cli EXCEPT ![c].reader = "end"]
  /\ UNCHANGED <<serverVars, srv, toSrv, toCli, call, served>>

\* The read fails: failAll empties the pending table, then Close.
FailAll(c) ==
  /\ cli[c].reader = "read"
  /\ ~cli[c].open \/ (toCli[c] = <<>> /\ (srv[c].at = "gone" \/ (srv[c].at \notin {"backlog"} /\ ~srv[c].open)))
  /\ cli' = [cli EXCEPT ![c].reader = "fail", ![c].pending = {}]
  /\ call' = [call EXCEPT ![c] = [k \in Callers |->
       IF call[c][k].at \in {"write", "wait"} /\ call[c][k].id \in cli[c].pending /\ call[c][k].ch = <<>>
       THEN [call[c][k] EXCEPT !.ch = <<NoAnswer>>] ELSE call[c][k]]]
  /\ UNCHANGED <<serverVars, srv, toSrv, toCli, served>>

ReaderEnds(c) ==
  /\ cli[c].reader = "fail"
  /\ cli' = [cli EXCEPT ![c].reader = "end", ![c].open = FALSE, ![c].done = TRUE]
  /\ UNCHANGED <<serverVars, srv, toSrv, toCli, call, served>>

\* Client.Close, or the peer goes away.
CloseClient(c) ==
  /\ cli[c].open
  /\ cli' = [cli EXCEPT ![c].open = FALSE, ![c].done = TRUE]
  /\ UNCHANGED <<serverVars, srv, toSrv, toCli, call, served>>

-----------------------------------------------------------------------------
IpcInit ==
  /\ closed = FALSE /\ closing = "no" /\ snapshot = {} /\ serve = "accept"
  /\ srv = [c \in Conns |-> NoConn] /\ cli = [c \in Conns |-> NoClient]
  /\ toSrv = [c \in Conns |-> <<>>] /\ toCli = [c \in Conns |-> <<>>]
  /\ call = [c \in Conns |-> [k \in Callers |-> Idle]] /\ served = {}

ServerStep(c) == Accept(c) \/ ServeConn(c) \/ ReadFails(c) \/ ReadFrame(c) \/ HandlerReturns(c)
CloseStep == CloseListener \/ CloseConns \/ AcceptFails \/ ServeReturns
CallStep(c, k) == Write(c, k) \/ CallAnswered(c, k) \/ CallDone(c, k)
ReaderStep(c) == ReadAnswer(c) \/ FailAll(c) \/ ReaderEnds(c)

IpcNext ==
  \/ \E c \in Conns : \/ ServerStep(c) \/ ReaderStep(c) \/ Dial(c) \/ PeerSends(c) \/ CloseClient(c)
                      \/ \E k \in Callers : Register(c, k) \/ CallStep(c, k) \/ CallTimesOut(c, k) \/ CallAgain(c, k)
  \/ CloseBegins \/ CloseStep

\* Goroutines are scheduled; nothing is assumed of the timers of the calls.
IpcFairness ==
  /\ \A c \in Conns : WF_ipcVars(ServerStep(c)) /\ WF_ipcVars(ReaderStep(c))
  /\ \A c \in Conns, k \in Callers : WF_ipcVars(CallStep(c, k))
  /\ WF_ipcVars(CloseStep)

-----------------------------------------------------------------------------
(* Properties *)

\* A call that returned a result returned the one of its own request, never
\* that of an earlier call that timed out and was answered late.
AnswersItsCall ==
  \A c \in Conns, k \in Callers :
    call[c][k].at = "returned" /\ call[c][k].got.id # 0 => call[c][k].got.call = call[c][k].call

\* A handler runs only for a role the table allows, and as "app" only for a
\* connection whose live process was verified in the handshake.
HandlerAuthorised ==
  \A s \in served : /\ s[2] \in methodTable[s[3]].roles /\ methodTable[s[3]].dir = "app_to_daemon"
                    /\ s[2] = "app" => srv[s[1]].verified

\* Serve returns only when no goroutine of a connection is left.
ServeWaits == serve = "returned" => Serving = {}

\* A connection does not stay unauthenticated: it says host.hello or is closed.
UnauthenticatedEnds ==
  \A c \in Conns : srv[c].at = "accepted" ~> (srv[c].hello \/ srv[c].at = "gone")

\* Every call on a connection that ended returns, without help of its timer:
\* also one that was registered after the reader had failed all others.
CallsReturn ==
  \A c \in Conns, k \in Callers :
    (call[c][k].at \in {"write", "wait"} /\ (cli[c].done \/ cli[c].reader \in {"fail", "end"} \/ srv[c].at = "gone"))
      ~> (call[c][k].at \notin {"write", "wait"})

\* What Close says it does: once it is through, every connection is closed and
\* no handler runs.
CloseIsComplete ==
  closing = "done" => \A c \in Conns : ~srv[c].open /\ srv[c].at # "handle"
=============================================================================
