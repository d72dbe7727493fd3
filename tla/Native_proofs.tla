---------------------------- MODULE Native_proofs ----------------------------
(***************************************************************************)
(* Proofs about the parts of the native host that keep no database: what   *)
(* the computer-use model executes around a suspension, how the daemon     *)
(* starts and shuts down with its tunnel child, and the JSON-RPC protocol  *)
(* between the host app and the daemon.  Each part has its own variables   *)
(* and its own specification; none assumes anything of the others.         *)
(***************************************************************************)
EXTENDS HostIPC, Suspension, Daemon, TLAPS

(* The connection of host app and daemon *)

IpcSpec == IpcInit /\ [][IpcNext]_ipcVars

\* The server: a handler ran for a connection that said hello, and hello is
\* taken only once.
SrvShape == srv = [c \in Conns |-> srv[c]] /\ \A c \in Conns : DOMAIN srv[c] = DOMAIN NoConn
ServerInv ==
  /\ SrvShape
  /\ ServeWaits
  /\ \A c \in Conns : srv[c].hello /\ srv[c].role = "app" => srv[c].verified
  /\ \A s \in served : /\ s[1] \in Conns /\ srv[s[1]].hello
                       /\ Authorize(s[3], s[2])
                       /\ s[2] = "app" => srv[s[1]].verified

\* What a step may do to the server's end of a connection without touching
\* the handshake: no connection begins to be served, and none is made again.
SrvKept ==
  /\ SrvShape'
  /\ \A c \in Conns : /\ srv'[c].hello = srv[c].hello /\ srv'[c].role = srv[c].role
                      /\ srv'[c].verified = srv[c].verified /\ srv'[c].req = srv[c].req
                      /\ srv'[c].at \in {"accepted", "read", "handle"} =>
                           srv[c].at \in {"accepted", "read", "handle"}

\* A step that keeps the handshakes and serves no new connection keeps ServerInv.
LEMMA KeptIsEnough ==
  ASSUME ServerInv, SrvKept, UNCHANGED served, serve' = serve
  PROVE  ServerInv'
<1>1. ServeWaits'
  BY Zenon DEF ServerInv, SrvKept, ServeWaits, Serving
<1>. QED
  BY <1>1, Zenon DEF ServerInv, SrvKept

\* removeConn: the end of a connection changes no handshake.
LEMMA GoneIsKept ==
  ASSUME SrvShape, NEW c \in Conns, srv' = [srv EXCEPT ![c] = Gone(c)]
  PROVE  SrvKept
<1>1. \A e \in Conns : srv'[e] = IF e = c THEN Gone(c) ELSE srv[e]
  BY Zenon DEF SrvShape
<1>2. /\ Gone(c).hello = srv[c].hello /\ Gone(c).role = srv[c].role
      /\ Gone(c).verified = srv[c].verified /\ Gone(c).req = srv[c].req /\ Gone(c).at = "gone"
  BY Zenon DEF SrvShape, Gone, NoConn
<1>3. SrvShape'
  BY Zenon DEF SrvShape, Gone, NoConn
<1>. QED
  BY <1>1, <1>2, <1>3, Zenon DEF SrvKept

\* The cases of ReadFrame.
LEMMA ReadFrameCases ==
  ASSUME NEW c \in Conns, ReadFrame(c), SrvShape
  PROVE  LET f == Head(toSrv[c])
         IN \/ /\ srv' \in {srv, [srv EXCEPT ![c] = Gone(c)]} /\ served' = served
               /\ toCli' \in {toCli, Sent(c, NoAnswer), Sent(c, Answer(f, TRUE)), Sent(c, Answer(f, FALSE))}
            \/ /\ ~srv[c].hello /\ served' = served
               /\ srv' = [srv EXCEPT ![c].hello = TRUE, ![c].role = f.role, ![c].deadline = FALSE,
                                     ![c].verified = f.role = "app"]
               /\ toCli' = Sent(c, Answer(f, TRUE))
            \/ /\ srv[c].hello /\ Authorize(f.m, srv[c].role)
               /\ srv' = [srv EXCEPT ![c].at = "handle", ![c].req = f]
               /\ served' = served \cup {<<c, srv[c].role, f.m>>}
               /\ toCli' = toCli
<1>. DEFINE f == Head(toSrv[c])
<1>0. srv[c].at = "read"
  BY Zenon DEF ReadFrame
<1>1. /\ served' = IF srv'[c].at = "handle" THEN served \cup {<<c, srv[c].role, f.m>>} ELSE served
      /\ IF FrameError(f) \/ DecodeError(f) THEN Ends(c, NoAnswer)
         ELSE IF Kind(f) = "request" THEN handleRequest(c, f)
         ELSE UNCHANGED <<srv, toCli>>
  BY Zenon DEF ReadFrame
<1>. HIDE DEF f
<1>2. \/ UNCHANGED <<srv, toCli>>
      \/ \E a \in {NoAnswer, Answer(f, TRUE), Answer(f, FALSE)} : Ends(c, a) \/ Keeps(c, a)
      \/ /\ ~srv[c].hello
         /\ srv' = [srv EXCEPT ![c].hello = TRUE, ![c].role = f.role, ![c].deadline = FALSE,
                               ![c].verified = f.role = "app"]
         /\ toCli' = Sent(c, Answer(f, TRUE))
      \/ /\ srv[c].hello /\ Authorize(f.m, srv[c].role)
         /\ srv' = [srv EXCEPT ![c].at = "handle", ![c].req = f] /\ UNCHANGED toCli
  <2>1. CASE FrameError(f) \/ DecodeError(f)
    BY <1>1, <2>1, Zenon
  <2>2. CASE ~(FrameError(f) \/ DecodeError(f)) /\ Kind(f) = "request" /\ f.k = "hello"
    BY <1>1, <2>2, Zenon DEF handleRequest, handleHello
  <2>3. CASE ~(FrameError(f) \/ DecodeError(f)) /\ Kind(f) = "request" /\ f.k # "hello"
    BY <1>1, <2>3, Zenon DEF handleRequest
  <2>4. CASE ~(FrameError(f) \/ DecodeError(f)) /\ Kind(f) # "request"
    BY <1>1, <2>4, Zenon
  <2>. QED
    BY <2>1, <2>2, <2>3, <2>4, Zenon
<1>3. CASE UNCHANGED <<srv, toCli>>
  BY <1>0, <1>1, <1>3, Zenon DEF f
<1>4. ASSUME NEW a \in {NoAnswer, Answer(f, TRUE), Answer(f, FALSE)}, Ends(c, a) \/ Keeps(c, a)
      PROVE  /\ srv' \in {srv, [srv EXCEPT ![c] = Gone(c)]} /\ served' = served
             /\ toCli' = Sent(c, a)
  <2>1. srv' \in {srv, [srv EXCEPT ![c] = Gone(c)]} /\ toCli' = Sent(c, a)
    BY <1>4, Zenon DEF Ends, Keeps
  <2>2. srv'[c].at \in {"read", "gone"}
    BY <1>0, <2>1, Zenon DEF SrvShape, Gone, NoConn
  <2>. QED
    BY <1>1, <2>1, <2>2, Zenon
<1>5. CASE /\ ~srv[c].hello
           /\ srv' = [srv EXCEPT ![c].hello = TRUE, ![c].role = f.role, ![c].deadline = FALSE,
                                 ![c].verified = f.role = "app"]
           /\ toCli' = Sent(c, Answer(f, TRUE))
  <2>1. srv'[c].at = "read"
    BY <1>0, <1>5, Zenon DEF SrvShape, NoConn
  <2>. QED
    BY <1>1, <1>5, <2>1, Zenon DEF f
<1>6. CASE /\ srv[c].hello /\ Authorize(f.m, srv[c].role)
           /\ srv' = [srv EXCEPT ![c].at = "handle", ![c].req = f] /\ UNCHANGED toCli
  <2>1. srv'[c].at = "handle"
    BY <1>6, Zenon DEF SrvShape, NoConn
  <2>. QED
    BY <1>1, <1>6, <2>1, Zenon DEF f
<1>. QED
  BY <1>2, <1>3, <1>4, <1>5, <1>6, Zenon DEF f

\* serveConn reads a frame: it is refused, answered, the hello, or handed to a handler.
LEMMA ReadFrameServer ==
  ASSUME ServerInv, NEW c \in Conns, ReadFrame(c)
  PROVE  ServerInv'
<1>. DEFINE f == Head(toSrv[c])
<1>0. SrvShape /\ srv[c].at = "read" /\ serve' = serve
  BY Zenon DEF ServerInv, ReadFrame, serverVars
<1>00. serve # "returned"
  BY <1>0, Zenon DEF ServerInv, ServeWaits, Serving
<1>. HIDE DEF f
<1>1. CASE srv' \in {srv, [srv EXCEPT ![c] = Gone(c)]} /\ served' = served
  <2>1. SrvKept
    BY <1>0, <1>1, GoneIsKept, Zenon DEF SrvKept, SrvShape
  <2>. QED
    BY <1>0, <1>1, <2>1, KeptIsEnough, Zenon
<1>2. CASE /\ ~srv[c].hello /\ served' = served
           /\ srv' = [srv EXCEPT ![c].hello = TRUE, ![c].role = f.role, ![c].deadline = FALSE,
                                 ![c].verified = f.role = "app"]
  <2>1. SrvShape' /\ ServeWaits'
    BY <1>0, <1>00, <1>2, Zenon DEF SrvShape, ServeWaits
  <2>2. /\ \A e \in Conns \ {c} : srv'[e] = srv[e]
        /\ srv'[c].hello /\ srv'[c].role = f.role /\ srv'[c].verified = (f.role = "app")
    BY <1>0, <1>2, Zenon DEF SrvShape, NoConn
  <2>3. \A s \in served : s[1] # c
    BY <1>2, Zenon DEF ServerInv
  <2>. QED
    BY <1>2, <2>1, <2>2, <2>3, ZenonT(60) DEF ServerInv
<1>3. CASE /\ srv[c].hello /\ Authorize(f.m, srv[c].role)
           /\ srv' = [srv EXCEPT ![c].at = "handle", ![c].req = f]
           /\ served' = served \cup {<<c, srv[c].role, f.m>>}
  <2>1. SrvShape' /\ ServeWaits'
    BY <1>0, <1>00, <1>3, Zenon DEF SrvShape, ServeWaits
  <2>2. \A e \in Conns : /\ srv'[e].hello = srv[e].hello /\ srv'[e].role = srv[e].role
                         /\ srv'[e].verified = srv[e].verified
    BY <1>0, <1>3, Zenon DEF SrvShape, NoConn
  <2>3. \A s \in served' : /\ s[1] \in Conns /\ srv[s[1]].hello /\ Authorize(s[3], s[2])
                           /\ s[2] = "app" => srv[s[1]].verified
    <3>1. \A s \in served : /\ s[1] \in Conns /\ srv[s[1]].hello /\ Authorize(s[3], s[2])
                            /\ s[2] = "app" => srv[s[1]].verified
      BY Zenon DEF ServerInv
    <3>2. srv[c].role = "app" => srv[c].verified
      BY <1>3, Zenon DEF ServerInv
    <3>. QED
      BY <1>3, <3>1, <3>2
  <2>. QED
    BY <1>3, <2>1, <2>2, <2>3, ZenonT(60) DEF ServerInv
<1>. QED
  BY <1>0, <1>1, <1>2, <1>3, ReadFrameCases, Zenon DEF f

\* Steps that leave the handshakes alone.
LEMMA QuietServer ==
  ASSUME SrvShape
  PROVE  /\ \A c \in Conns : ServeConn(c) \/ ReadFails(c) \/ HandlerReturns(c) \/ Dial(c) => SrvKept
         /\ CloseListener \/ CloseConns => SrvKept
<1>1. ASSUME NEW c \in Conns, ServeConn(c) \/ ReadFails(c) \/ HandlerReturns(c) \/ Dial(c)
      PROVE  SrvKept
  <2>. c \in Conns
    BY <1>1, Zenon
  <2>1. CASE srv' = [srv EXCEPT ![c] = Gone(c)]
    BY <2>1, GoneIsKept, Zenon
  <2>2. CASE srv' = [srv EXCEPT ![c].at = "read", ![c].member = TRUE, ![c].deadline = TRUE]
             /\ srv[c].at = "accepted"
    BY <2>2, Zenon DEF SrvShape, SrvKept, NoConn
  <2>3. CASE srv' = [srv EXCEPT ![c] = [srv[c] EXCEPT !.at = "read"]] /\ srv[c].at = "handle"
    BY <2>3, Zenon DEF SrvShape, SrvKept, NoConn
  <2>4. CASE srv' = [srv EXCEPT ![c].at = "backlog"]
    BY <2>4, Zenon DEF SrvShape, SrvKept, NoConn
  <2>5. CASE ServeConn(c) \/ ReadFails(c) \/ Dial(c)
    BY <2>1, <2>2, <2>4, <2>5, Zenon DEF ServeConn, ReadFails, Dial
  <2>6. CASE HandlerReturns(c)
    BY <2>1, <2>3, <2>6, Zenon DEF HandlerReturns
  <2>. QED
    BY <1>1, <2>5, <2>6, Zenon
<1>2. CloseListener \/ CloseConns => SrvKept
  BY ZenonT(60) DEF CloseListener, CloseConns, SrvShape, SrvKept, NoConn
<1>. QED
  BY <1>1, <1>2, Zenon

\* Every step of server, client and peer keeps ServerInv.
LEMMA ServerStepInv ==
  ASSUME ServerInv, [IpcNext]_ipcVars
  PROVE  ServerInv'
<1>0. SrvShape
  BY Zenon DEF ServerInv
<1>1. ASSUME NEW c \in Conns, Accept(c) PROVE ServerInv'
  <2>1. SrvShape' /\ ServeWaits'
    BY <1>0, <1>1, Zenon DEF Accept, SrvShape, ServeWaits, serverVars
  <2>2. \A e \in Conns : /\ srv'[e].hello = srv[e].hello /\ srv'[e].role = srv[e].role
                         /\ srv'[e].verified = srv[e].verified
    BY <1>0, <1>1, Zenon DEF Accept, SrvShape, NoConn
  <2>. QED
    BY <1>1, <2>1, <2>2, ZenonT(60) DEF ServerInv, Accept
<1>2. ASSUME NEW c \in Conns, ServeConn(c) \/ ReadFails(c) \/ HandlerReturns(c) \/ Dial(c) PROVE ServerInv'
  BY <1>0, <1>2, QuietServer, KeptIsEnough, Zenon DEF ServeConn, ReadFails, HandlerReturns, Dial, serverVars
<1>3. ASSUME NEW c \in Conns, ReadFrame(c) PROVE ServerInv'
  BY <1>3, ReadFrameServer, Zenon
<1>4. CASE CloseListener \/ CloseConns
  BY <1>0, <1>4, QuietServer, KeptIsEnough, Zenon DEF CloseListener, CloseConns
<1>5. CASE AcceptFails \/ ServeReturns
  BY <1>5, Zenon DEF AcceptFails, ServeReturns, ServerInv, SrvShape, ServeWaits, Serving
<1>6. CASE UNCHANGED <<srv, serve, served>>
  BY <1>6, Zenon DEF ServerInv, SrvShape, ServeWaits, Serving
<1>7. ASSUME NEW c \in Conns,
             \/ ReaderStep(c) \/ PeerSends(c) \/ CloseClient(c) 
             \/ \E k \in Callers : Register(c, k) \/ CallStep(c, k) \/ CallTimesOut(c, k) \/ CallAgain(c, k)
      PROVE  UNCHANGED <<srv, serve, served>>
  BY <1>7, Zenon DEF ReaderStep, PeerSends, CloseClient, Register, CallStep, CallTimesOut, CallAgain,
                    ReadAnswer, FailAll, ReaderEnds, Write, CallAnswered, CallDone, serverVars
<1>. QED
  BY <1>1, <1>2, <1>3, <1>4, <1>5, <1>6, <1>7, Zenon
     DEF IpcNext, ServerStep, CloseStep, CloseBegins, ipcVars

-----------------------------------------------------------------------------
\* Frames and answers.  Of the Go client they carry the number of the call as
\* their id; what another peer sends may carry anything.
FrameRecs ==
  [k : {"none", "hello", "request", "length", "attachment", "garbage", "notification", "response"},
   id : Nat, call : Nat, m : Methods \cup {""}, role : Roles \cup {"other"},
   protocol : [major : Nat, minor : Nat], signed : BOOLEAN]
Answers == [id : Nat, call : Nat, ok : BOOLEAN]
FramesOn(c) == {f \in FrameRecs : RawPeer(c) \/ f.id = f.call}
AnswersOn(c) == {a \in Answers : RawPeer(c) \/ a.id = a.call}

WireInv ==
  /\ toSrv = [c \in Conns |-> toSrv[c]] /\ toCli = [c \in Conns |-> toCli[c]]
  /\ \A c \in Conns : /\ toSrv[c] \in Seq(FramesOn(c)) /\ toCli[c] \in Seq(AnswersOn(c))
                      /\ srv[c].req \in FramesOn(c)
                      /\ cli[c].reader = "off" => ~cli[c].open /\ toSrv[c] = <<>> /\ toCli[c] = <<>>

ClientShape == cli = [c \in Conns |-> cli[c]] /\ \A c \in Conns : DOMAIN cli[c] = DOMAIN NoClient
CallShape ==
  /\ call = [c \in Conns |-> call[c]]
  /\ \A c \in Conns : call[c] = [k \in Callers |-> call[c][k]]
  /\ \A c \in Conns, k \in Callers : DOMAIN call[c][k] = DOMAIN Idle
Counted(c) ==
  cli[c].seq \in Nat /\ cli[c].calls \in Nat /\ (RawPeer(c) \/ cli[c].calls = cli[c].seq)
CallOK(c, l) ==
  /\ cli[c].reader \in {"off", "raw"} => l.at = "idle"
  /\ l.id \in Nat /\ l.call = l.id /\ (l.m = "host.hello" => l.id = 1)
  /\ l.m \in {"", "host.hello", "host.health"}
  /\ l.ch # <<>> /\ Head(l.ch).id # 0 => Head(l.ch).id = l.id /\ Head(l.ch).call = l.id
  /\ l.at = "returned" /\ l.got.id # 0 => l.got.call = l.call
CallsInv ==
  /\ ClientShape /\ CallShape
  /\ \A c \in Conns : Counted(c) /\ \A k \in Callers : CallOK(c, call[c][k])

IpcInv == ServerInv /\ WireInv /\ CallsInv

\* A frame and an answer of a connection.
LEMMA AnswerTyped ==
  ASSUME NEW c \in Conns, NEW f \in FramesOn(c), NEW ok \in BOOLEAN
  PROVE  Answer(f, ok) \in AnswersOn(c) /\ NoAnswer \in AnswersOn(c)
BY Zenon DEF FramesOn, AnswersOn, FrameRecs, Answers, Answer, NoAnswer

\* writeResponse: an answer of the connection joins its other answers.
LEMMA SentTyped ==
  ASSUME WireInv, NEW c \in Conns, NEW a \in AnswersOn(c), toCli' = Sent(c, a), UNCHANGED cli
  PROVE  /\ toCli' = [d \in Conns |-> toCli'[d]]
         /\ \A d \in Conns : /\ toCli'[d] \in Seq(AnswersOn(d))
                             /\ cli[d].reader = "off" => toCli'[d] = <<>>
<1>1. toCli' = toCli \/ (cli[c].open /\ toCli' = [toCli EXCEPT ![c] = Append(toCli[c], a)])
  BY Zenon DEF Sent, peerOpen
<1>2. Append(toCli[c], a) \in Seq(AnswersOn(c))
  BY DEF WireInv
<1>3. cli[c].open => cli[c].reader # "off"
  BY Zenon DEF WireInv
<1>. QED
  BY <1>1, <1>2, <1>3, Zenon DEF WireInv

\* The frames the two kinds of client write.
LEMMA FramesTyped ==
  ASSUME NEW n \in Nat, NEW i \in Nat
  PROVE  /\ \A m \in Methods \cup {""}, k \in {"none", "request", "length", "attachment", "garbage", "notification", "response"} :
               Frame(k, i, n, m) \in FrameRecs /\ Frame(k, i, n, m).id = i /\ Frame(k, i, n, m).call = n
         /\ \A h \in Hellos : [h EXCEPT !.call = n] \in FrameRecs
         /\ [Hello("harness", PreviousMinor, FALSE) EXCEPT !.id = i] \in FrameRecs
         /\ [Hello("harness", PreviousMinor, FALSE) EXCEPT !.id = i].id = i
         /\ [Hello("harness", PreviousMinor, FALSE) EXCEPT !.id = i].call = 1
<1>1. \A m \in Methods \cup {""}, k \in {"none", "request", "length", "attachment", "garbage", "notification", "response"} :
               Frame(k, i, n, m) \in FrameRecs /\ Frame(k, i, n, m).id = i /\ Frame(k, i, n, m).call = n
  BY Zenon DEF Frame, FrameRecs, NoProtocol, Roles
<1>2. \A r \in Roles \cup {"other"}, p \in [major : Nat, minor : Nat], s \in BOOLEAN :
        Hello(r, p, s) \in FrameRecs /\ Hello(r, p, s).call = 1
  BY ZenonT(60) DEF Hello, Frame, FrameRecs, NoProtocol, Roles
<1>3. \A h \in Hellos : h \in FrameRecs
  BY <1>2, Zenon DEF Hellos, Roles, DaemonProtocol, PreviousMinor
<1>4. \A h \in FrameRecs : [h EXCEPT !.call = n] \in FrameRecs /\ [h EXCEPT !.id = i] \in FrameRecs
                          /\ [h EXCEPT !.id = i].id = i /\ [h EXCEPT !.id = i].call = h.call
  BY Zenon DEF FrameRecs
<1>5. Hello("harness", PreviousMinor, FALSE) \in FrameRecs /\ Hello("harness", PreviousMinor, FALSE).call = 1
  BY <1>2, Zenon DEF Roles, PreviousMinor
<1>. QED
  BY <1>1, <1>3, <1>4, <1>5, Zenon

\* What Call writes for a method is a frame that carries the call's id.
LEMMA RequestTyped ==
  ASSUME NEW n \in Nat, NEW i \in Nat, NEW m \in Methods \cup {""}
  PROVE  /\ Frame("request", i, n, m) \in FrameRecs
         /\ Frame("request", i, n, m).id = i /\ Frame("request", i, n, m).call = n
BY Zenon DEF Frame, FrameRecs, NoProtocol, Roles

\* What a step of the client leaves of the ends of its connections.
ClientKept ==
  /\ ClientShape'
  /\ \A c \in Conns :
       /\ cli'[c].reader = cli[c].reader \/ {cli[c].reader, cli'[c].reader} \cap {"off", "raw"} = {}
       /\ cli'[c].open => cli[c].open
       /\ cli'[c].seq = cli[c].seq /\ cli'[c].calls = cli[c].calls

\* A step that sends and reads nothing leaves the wires as they are.
LEMMA WireFrame ==
  ASSUME WireInv, UNCHANGED <<toSrv, toCli>>, ClientKept \/ UNCHANGED cli,
         \A c \in Conns : srv'[c].req = srv[c].req
  PROVE  WireInv'
<1>1. \A c \in Conns : /\ cli'[c].reader = "raw" <=> cli[c].reader = "raw"
                       /\ cli'[c].reader = "off" => cli[c].reader = "off" /\ (cli'[c].open => cli[c].open)
  BY Zenon DEF ClientKept
<1>2. \A c \in Conns : FramesOn(c)' = FramesOn(c)
  BY <1>1, Zenon DEF FramesOn, RawPeer
<1>3. \A c \in Conns : AnswersOn(c)' = AnswersOn(c)
  BY <1>1, Zenon DEF AnswersOn, RawPeer
<1>. QED
  BY <1>1, <1>2, <1>3, Zenon DEF WireInv

\* A step of no caller leaves what is said of the calls.
LEMMA CallsFrame ==
  ASSUME CallsInv, UNCHANGED call, ClientKept \/ UNCHANGED cli
  PROVE  CallsInv'
<1>1. ClientShape' /\ CallShape'
  BY Zenon DEF CallsInv, ClientKept, ClientShape, CallShape
<1>2. \A c \in Conns : Counted(c)'
  BY Zenon DEF CallsInv, Counted, RawPeer, ClientKept
<1>3. \A c \in Conns : \A l : CallOK(c, l) => CallOK(c, l)'
  BY Zenon DEF CallOK, ClientKept
<1>. QED
  BY <1>1, <1>2, <1>3, Zenon DEF CallsInv

\* The server answers what it has read, and touches no call.
LEMMA ServerKeepsCalls ==
  ASSUME IpcInv,
         \/ CloseBegins \/ CloseStep
         \/ \E c \in Conns : ServerStep(c)
  PROVE  WireInv' /\ CallsInv'
<1>0. SrvShape /\ WireInv /\ CallsInv
  BY Zenon DEF IpcInv, ServerInv
<1>1. UNCHANGED <<cli, call>>
  BY Zenon DEF CloseBegins, CloseStep, CloseListener, CloseConns, AcceptFails, ServeReturns, ServerStep, Accept, ServeConn,
         ReadFails, ReadFrame, HandlerReturns
<1>2. CallsInv'
  BY <1>0, <1>1, CallsFrame, Zenon
<1>w. ASSUME UNCHANGED <<toSrv, toCli>>, \A c \in Conns : srv'[c].req = srv[c].req
      PROVE  WireInv'
  BY <1>0, <1>1, <1>w, WireFrame, Zenon
<1>3. CASE CloseBegins \/ AcceptFails \/ ServeReturns
  <2>1. UNCHANGED <<toSrv, toCli>> /\ UNCHANGED srv
    BY <1>3, Zenon DEF CloseBegins, AcceptFails, ServeReturns
  <2>. QED
    BY <1>2, <1>w, <2>1, Zenon
<1>4. CASE CloseListener \/ CloseConns
  <2>1. UNCHANGED <<toSrv, toCli>>
    BY <1>4, Zenon DEF CloseListener, CloseConns
  <2>2. \A c \in Conns : srv'[c].req = srv[c].req
    BY <1>0, <1>4, QuietServer, Zenon DEF SrvKept
  <2>. QED
    BY <1>2, <1>w, <2>1, <2>2, Zenon
<1>5. ASSUME NEW c \in Conns, Accept(c) \/ ServeConn(c) \/ ReadFails(c) PROVE WireInv'
  <2>1. UNCHANGED <<toSrv, toCli>>
    BY <1>5, Zenon DEF Accept, ServeConn, ReadFails
  <2>2. CASE Accept(c)
    BY <1>0, <1>5, <1>w, <2>1, <2>2, Zenon DEF Accept, SrvShape, NoConn
  <2>3. CASE ServeConn(c) \/ ReadFails(c)
    BY <1>0, <1>5, <1>w, <2>1, <2>3, QuietServer, Zenon DEF SrvKept
  <2>. QED
    BY <1>5, <2>2, <2>3, Zenon
<1>r. \A c \in Conns : FramesOn(c)' = FramesOn(c) /\ AnswersOn(c)' = AnswersOn(c)
  BY <1>1, Zenon DEF FramesOn, AnswersOn, RawPeer
<1>6. ASSUME NEW c \in Conns, HandlerReturns(c) PROVE WireInv'
  <2>1. PICK ok \in BOOLEAN : toCli' = Sent(c, Answer(srv[c].req, ok))
    BY <1>6, Zenon DEF HandlerReturns
  <2>2. Answer(srv[c].req, ok) \in AnswersOn(c)
    BY <1>0, <1>6, AnswerTyped, Zenon DEF WireInv
  <2>3. \A d \in Conns : srv'[d].req = srv[d].req
    BY <1>0, <1>6, QuietServer, Zenon DEF SrvKept
  <2>4. /\ toCli' = [d \in Conns |-> toCli'[d]]
        /\ \A d \in Conns : /\ toCli'[d] \in Seq(AnswersOn(d))
                            /\ cli[d].reader = "off" => toCli'[d] = <<>>
    BY <1>0, <1>1, <1>6, <2>1, <2>2, SentTyped, Zenon
  <2>5. toSrv' = toSrv
    BY <1>6, Zenon DEF HandlerReturns
  <2>. QED
    BY <1>0, <1>1, <1>r, <2>3, <2>4, <2>5, Zenon DEF WireInv
<1>7. ASSUME NEW c \in Conns, ReadFrame(c) PROVE WireInv'
  <2>. DEFINE f == Head(toSrv[c])
  <2>1. /\ toSrv[c] # <<>> /\ toSrv' = [toSrv EXCEPT ![c] = Tail(toSrv[c])]
    BY <1>7, Zenon DEF ReadFrame
  <2>2. f \in FramesOn(c) /\ Tail(toSrv[c]) \in Seq(FramesOn(c)) /\ cli[c].reader # "off"
    BY <1>0, <1>7, <2>1 DEF WireInv
  <2>3. /\ toSrv' = [d \in Conns |-> toSrv'[d]]
        /\ \A d \in Conns : toSrv'[d] \in Seq(FramesOn(d)) /\ (cli[d].reader = "off" => toSrv'[d] = <<>>)
    BY <1>0, <1>7, <2>1, <2>2, Zenon DEF WireInv
  <2>. HIDE DEF f
  <2>4. /\ toCli' = [d \in Conns |-> toCli'[d]]
        /\ \A d \in Conns : /\ toCli'[d] \in Seq(AnswersOn(d))
                            /\ cli[d].reader = "off" => toCli'[d] = <<>>
    <3>1. toCli' \in {toCli, Sent(c, NoAnswer), Sent(c, Answer(f, TRUE)), Sent(c, Answer(f, FALSE))}
      BY <1>0, <1>7, ReadFrameCases, Zenon DEF f
    <3>2. NoAnswer \in AnswersOn(c) /\ Answer(f, TRUE) \in AnswersOn(c) /\ Answer(f, FALSE) \in AnswersOn(c)
      BY <1>7, <2>2, AnswerTyped, Zenon
    <3>3. CASE toCli' = toCli
      BY <1>0, <3>3, Zenon DEF WireInv
    <3>. QED
      BY <1>0, <1>1, <1>7, <3>1, <3>2, <3>3, SentTyped, Zenon
  <2>5. \A d \in Conns : srv'[d].req \in {srv[d].req, f} /\ (d # c => srv'[d].req = srv[d].req)
    <3>1. \/ srv' \in {srv, [srv EXCEPT ![c] = Gone(c)]}
          \/ srv' = [srv EXCEPT ![c].hello = TRUE, ![c].role = f.role, ![c].deadline = FALSE,
                                ![c].verified = f.role = "app"]
          \/ srv' = [srv EXCEPT ![c].at = "handle", ![c].req = f]
      BY <1>0, <1>7, ReadFrameCases, Zenon DEF f
    <3>2. CASE srv' = srv
      BY <3>2, Zenon
    <3>3. CASE srv' = [srv EXCEPT ![c] = Gone(c)]
      BY <1>0, <1>7, <3>3, GoneIsKept, Zenon DEF SrvKept
    <3>4. CASE srv' = [srv EXCEPT ![c].hello = TRUE, ![c].role = f.role, ![c].deadline = FALSE,
                                  ![c].verified = f.role = "app"]
      BY <1>0, <1>7, <3>4, Zenon DEF SrvShape, NoConn
    <3>5. CASE srv' = [srv EXCEPT ![c].at = "handle", ![c].req = f]
      BY <1>0, <1>7, <3>5, Zenon DEF SrvShape, NoConn
    <3>. QED
      BY <3>1, <3>2, <3>3, <3>4, <3>5, Zenon
  <2>. QED
    BY <1>0, <1>1, <1>r, <2>2, <2>3, <2>4, <2>5, Zenon DEF WireInv
<1>. QED
  BY <1>2, <1>3, <1>4, <1>5, <1>6, <1>7, Zenon DEF CloseStep, ServerStep

\* DialHost: a new connection begins with empty wires and no call.
LEMMA DialStep ==
  ASSUME IpcInv, NEW c \in Conns, Dial(c)
  PROVE  WireInv' /\ CallsInv'
<1>0. SrvShape /\ WireInv /\ CallsInv /\ ClientShape /\ CallShape
  BY Zenon DEF IpcInv, ServerInv, CallsInv
<1>1. PICK r \in {"read", "raw"} : cli' = [cli EXCEPT ![c] = [NoClient EXCEPT !.reader = r, !.open = TRUE]]
  BY Zenon DEF Dial
<1>2. /\ ClientShape' /\ \A d \in Conns \ {c} : cli'[d] = cli[d]
      /\ cli'[c].reader = r /\ cli'[c].seq = 0 /\ cli'[c].calls = 0
  BY <1>0, <1>1, Zenon DEF ClientShape, NoClient
<1>3. /\ cli[c].reader = "off" /\ UNCHANGED <<toSrv, toCli, call>>
      /\ \A d \in Conns : srv'[d].req = srv[d].req
  BY <1>0, QuietServer, Zenon DEF SrvKept, Dial
<1>4. \A d \in Conns \ {c} : FramesOn(d)' = FramesOn(d) /\ AnswersOn(d)' = AnswersOn(d)
  BY <1>2, Zenon DEF FramesOn, AnswersOn, RawPeer
<1>5. FramesOn(c) \subseteq FramesOn(c)'
  BY <1>3, Zenon DEF FramesOn, RawPeer
<1>6. WireInv'
  <2>1. toSrv'[c] = <<>> /\ toCli'[c] = <<>>
    BY <1>0, <1>3, Zenon DEF WireInv
  <2>2. \A d \in Conns : /\ toSrv'[d] \in Seq(FramesOn(d)') /\ toCli'[d] \in Seq(AnswersOn(d)')
                         /\ srv'[d].req \in FramesOn(d)'
    <3>1. \A d \in Conns \ {c} : /\ toSrv'[d] \in Seq(FramesOn(d)') /\ toCli'[d] \in Seq(AnswersOn(d)')
                                 /\ srv'[d].req \in FramesOn(d)'
      BY <1>0, <1>3, <1>4, Zenon DEF WireInv
    <3>2. toSrv'[c] \in Seq(FramesOn(c)') /\ toCli'[c] \in Seq(AnswersOn(c)')
      BY <2>1
    <3>3. srv'[c].req \in FramesOn(c)'
      BY <1>0, <1>3, <1>5, Zenon DEF WireInv
    <3>. QED
      BY <3>1, <3>2, <3>3, Zenon
  <2>. QED
    BY <1>0, <1>2, <1>3, <2>2, Zenon DEF WireInv
<1>7. \A d \in Conns : Counted(d)'
  BY <1>0, <1>2 DEF CallsInv, Counted, RawPeer
<1>8. \A d \in Conns, k \in Callers : CallOK(d, call[d][k])'
  <2>1. \A k \in Callers : call[c][k].at = "idle"
    BY <1>0, <1>3, Zenon DEF CallsInv, CallOK
  <2>2. ASSUME NEW d \in Conns \ {c}, NEW k \in Callers PROVE CallOK(d, call[d][k])'
    <3>1. CallOK(d, call[d][k])
      BY <1>0, Zenon DEF CallsInv
    <3>2. cli'[d] = cli[d] /\ call' = call
      BY <1>2, <1>3, Zenon
    <3>. QED
      BY <3>1, <3>2, Zenon DEF CallOK
  <2>3. \A k \in Callers : CallOK(c, call[c][k])'
    BY <1>0, <1>3, <2>1, Zenon DEF CallsInv, CallOK
  <2>. QED
    BY <2>2, <2>3, Zenon
<1>9. CallShape'
  BY <1>0, <1>3, Zenon DEF CallShape
<1>. QED
  BY <1>2, <1>6, <1>7, <1>8, <1>9, Zenon DEF CallsInv

\* A peer of another make sends any frame; nothing is claimed of its ids.
LEMMA PeerStep ==
  ASSUME IpcInv, NEW c \in Conns, PeerSends(c)
  PROVE  WireInv' /\ CallsInv'
<1>0. WireInv /\ CallsInv /\ ClientShape /\ CallShape /\ Counted(c)
  BY Zenon DEF IpcInv, CallsInv
<1>1. /\ cli' = [cli EXCEPT ![c].calls = cli[c].calls + 1] /\ cli[c].reader = "raw"
      /\ UNCHANGED <<srv, toCli, call>>
  BY Zenon DEF PeerSends, RawPeer
<1>2. PICK f : /\ toSrv' = [toSrv EXCEPT ![c] = Append(toSrv[c], f)]
               /\ f \in {[h EXCEPT !.call = cli[c].calls + 1] : h \in Hellos}
                       \cup {Frame("request", 1, cli[c].calls + 1, m) : m \in Methods}
                       \cup {Frame(k, 0, 0, "") : k \in {"length", "attachment", "garbage", "notification", "response"}}
  BY Zenon DEF PeerSends
<1>3. f \in FrameRecs
  <2>. DEFINE n == cli[c].calls + 1
  <2>1. n \in Nat
    BY <1>0 DEF Counted
  <2>. HIDE DEF n
  <2>2. \A h \in Hellos : [h EXCEPT !.call = n] \in FrameRecs
    BY <2>1, FramesTyped, 0 \in Nat, Zenon
  <2>3. \A m \in Methods : Frame("request", 1, n, m) \in FrameRecs
    BY <2>1, FramesTyped, 1 \in Nat, Zenon
  <2>4. \A k \in {"length", "attachment", "garbage", "notification", "response"} :
          Frame(k, 0, 0, "") \in FrameRecs
    BY FramesTyped, 0 \in Nat, Zenon
  <2>. QED
    BY <1>2, <2>2, <2>3, <2>4, Zenon DEF n
<1>4. /\ ClientShape'
      /\ \A d \in Conns : /\ cli'[d].reader = cli[d].reader /\ cli'[d].open = cli[d].open
                          /\ cli'[d].seq = cli[d].seq
                          /\ cli'[d].calls = IF d = c THEN cli[c].calls + 1 ELSE cli[d].calls
  BY <1>0, <1>1, Zenon DEF ClientShape, NoClient
<1>5. \A d \in Conns : FramesOn(d)' = FramesOn(d) /\ AnswersOn(d)' = AnswersOn(d)
  BY <1>4, Zenon DEF FramesOn, AnswersOn, RawPeer
<1>6. WireInv'
  <2>1. f \in FramesOn(c) /\ toSrv[c] \in Seq(FramesOn(c))
    BY <1>0, <1>1, <1>3, Zenon DEF FramesOn, RawPeer, WireInv
  <2>2. Append(toSrv[c], f) \in Seq(FramesOn(c))
    BY <2>1
  <2>3. /\ toSrv' = [d \in Conns |-> toSrv'[d]]
        /\ \A d \in Conns : /\ toSrv'[d] \in Seq(FramesOn(d))
                            /\ cli[d].reader = "off" => toSrv'[d] = toSrv[d]
    BY <1>0, <1>1, <1>2, <2>2, Zenon DEF WireInv
  <2>. QED
    BY <1>0, <1>1, <1>4, <1>5, <2>3, ZenonT(60) DEF WireInv
<1>7. \A d \in Conns : Counted(d)'
  BY <1>0, <1>1, <1>4 DEF CallsInv, Counted, RawPeer
<1>8. ASSUME NEW d \in Conns, NEW k \in Callers PROVE CallOK(d, call[d][k])'
  <2>1. CallOK(d, call[d][k])
    BY <1>0, Zenon DEF CallsInv
  <2>2. cli'[d].reader = cli[d].reader /\ call' = call
    BY <1>1, <1>4, Zenon
  <2>. QED
    BY <2>1, <2>2, Zenon DEF CallOK
<1>9. CallShape'
  BY <1>0, <1>1, Zenon DEF CallShape
<1>. QED
  BY <1>4, <1>6, <1>7, <1>8, <1>9, Zenon DEF CallsInv

\* Steps of one caller: the connection's counters may advance with a new call.
LEMMA CallerKept ==
  ASSUME CallsInv, NEW c \in Conns, NEW k \in Callers, NEW l,
         call' = [call EXCEPT ![c][k] = l], DOMAIN l = DOMAIN Idle,
         ClientKept \/ UNCHANGED cli, CallOK(c, l)
  PROVE  CallsInv'
<1>0. ClientShape /\ CallShape
  BY Zenon DEF CallsInv
<1>1. CallShape' /\ call'[c][k] = l /\ \A d \in Conns, j \in Callers : d # c \/ j # k => call'[d][j] = call[d][j]
  BY <1>0, Zenon DEF CallShape
<1>2. ClientShape' /\ \A d \in Conns : Counted(d)'
  BY Zenon DEF CallsInv, ClientKept, ClientShape, Counted, RawPeer
<1>3. \A d \in Conns : cli'[d].reader \in {"off", "raw"} => cli[d].reader \in {"off", "raw"}
  BY Zenon DEF ClientKept
<1>4. \A d \in Conns, j \in Callers : CallOK(d, call'[d][j])
  BY <1>1, Zenon DEF CallsInv
<1>5. ASSUME NEW d \in Conns, NEW j \in Callers PROVE CallOK(d, call[d][j])'
  <2>1. CallOK(d, call'[d][j])
    BY <1>4, Zenon
  <2>. QED
    BY <1>3, <2>1, Zenon DEF CallOK
<1>. QED
  BY <1>1, <1>2, <1>5, Zenon DEF CallsInv

\* Call returns: the id leaves the pending table, and the answer is the one of the call.
LEMMA ReturnedStep ==
  ASSUME IpcInv, NEW c \in Conns, NEW k \in Callers, NEW a, Returned(c, k, a),
         call[c][k].at # "idle", a.id # 0 => a.call = call[c][k].call
  PROVE  CallsInv' /\ ClientKept
<1>0. CallsInv /\ ClientShape /\ CallShape /\ CallOK(c, call[c][k])
  BY Zenon DEF IpcInv, CallsInv
<1>. DEFINE l == [call[c][k] EXCEPT !.at = "returned", !.got = a, !.ch = <<>>]
<1>1. call' = [call EXCEPT ![c][k] = l]
  BY Zenon DEF Returned
<1>2. /\ DOMAIN l = DOMAIN Idle
      /\ l.id = call[c][k].id /\ l.call = call[c][k].call /\ l.m = call[c][k].m
      /\ l.ch = <<>> /\ l.at = "returned" /\ l.got = a
  BY <1>0, Zenon DEF CallShape, Idle
<1>. HIDE DEF l
<1>3. CallOK(c, l)
  BY <1>0, <1>2, Zenon DEF CallOK
<1>4. ClientKept
  <2>. DEFINE p == [cli[c] EXCEPT !.pending = cli[c].pending \ {call[c][k].id}]
  <2>1. \/ cli' = [cli EXCEPT ![c] = p]
        \/ cli' = [cli EXCEPT ![c] = [p EXCEPT !.open = FALSE, !.done = TRUE]]
    <3>1. CASE call[c][k].m = "host.hello" /\ ~a.ok
      BY <3>1, Zenon DEF Returned
    <3>2. CASE ~(call[c][k].m = "host.hello" /\ ~a.ok)
      BY <3>2, Zenon DEF Returned
    <3>. QED
      BY <3>1, <3>2, Zenon
  <2>2. /\ DOMAIN p = DOMAIN NoClient
        /\ p.reader = cli[c].reader /\ p.open = cli[c].open /\ p.seq = cli[c].seq /\ p.calls = cli[c].calls
    BY <1>0, Zenon DEF ClientShape, NoClient
  <2>. HIDE DEF p
  <2>3. \E q \in {p, [p EXCEPT !.open = FALSE, !.done = TRUE]} : cli' = [cli EXCEPT ![c] = q]
    BY <2>1, Zenon
  <2>4. PICK q \in {p, [p EXCEPT !.open = FALSE, !.done = TRUE]} : cli' = [cli EXCEPT ![c] = q]
    BY <2>3, Zenon
  <2>5. /\ DOMAIN q = DOMAIN NoClient
        /\ q.reader = cli[c].reader /\ (q.open => cli[c].open) /\ q.seq = cli[c].seq /\ q.calls = cli[c].calls
    BY <2>2, <2>4, Zenon DEF NoClient
  <2>. QED
    BY <1>0, <2>4, <2>5, Zenon DEF ClientKept, ClientShape
<1>. QED
  BY <1>0, <1>1, <1>2, <1>3, <1>4, CallerKept, Zenon

\* Call takes the next id: the number of the id is the number of the call.
LEMMA RegisterStep ==
  ASSUME IpcInv, NEW c \in Conns, NEW k \in Callers, Register(c, k)
  PROVE  WireInv' /\ CallsInv'
<1>0. WireInv /\ CallsInv /\ ClientShape /\ CallShape /\ Counted(c)
  BY Zenon DEF IpcInv, CallsInv
<1>. DEFINE l == [Idle EXCEPT !.at = "write", !.id = callID(c), !.call = cli[c].calls + 1,
                              !.m = IF cli[c].calls = 0 THEN "host.hello" ELSE "host.health"]
<1>1. /\ call' = [call EXCEPT ![c][k] = l] /\ cli[c].reader \in {"read", "fail", "end"}
      /\ cli' = [cli EXCEPT ![c].seq = cli[c].seq + 1, ![c].calls = cli[c].calls + 1,
                            ![c].pending = cli[c].pending \cup {callID(c)}]
      /\ UNCHANGED <<srv, toSrv, toCli>>
  BY Zenon DEF Register
<1>2. cli[c].seq \in Nat /\ cli[c].calls = cli[c].seq
  BY <1>0, <1>1, Zenon DEF Counted, RawPeer
<1>3. /\ DOMAIN l = DOMAIN Idle /\ l.at = "write" /\ l.id = cli[c].seq + 1 /\ l.call = cli[c].calls + 1
      /\ l.m = (IF cli[c].calls = 0 THEN "host.hello" ELSE "host.health") /\ l.ch = <<>>
  BY Zenon DEF Idle, callID
<1>. HIDE DEF l
<1>4. CallOK(c, l)
  BY <1>1, <1>2, <1>3 DEF CallOK
<1>5. /\ ClientShape'
      /\ \A d \in Conns : /\ cli'[d].reader = cli[d].reader /\ cli'[d].open = cli[d].open
                          /\ d # c => cli'[d] = cli[d]
      /\ cli'[c].seq = cli[c].seq + 1 /\ cli'[c].calls = cli[c].calls + 1
  BY <1>0, <1>1, Zenon DEF ClientShape, NoClient
<1>6. \A d \in Conns : Counted(d)'
  BY <1>0, <1>2, <1>5 DEF CallsInv, Counted, RawPeer
<1>7. CallShape' /\ call'[c][k] = l /\ \A d \in Conns, j \in Callers : d # c \/ j # k => call'[d][j] = call[d][j]
  BY <1>0, <1>1, <1>3, Zenon DEF CallShape
<1>8. ASSUME NEW d \in Conns, NEW j \in Callers PROVE CallOK(d, call[d][j])'
  <2>1. CallOK(d, call'[d][j])
    BY <1>0, <1>4, <1>7, Zenon DEF CallsInv
  <2>. QED
    BY <1>5, <2>1, Zenon DEF CallOK
<1>9. WireInv'
  <2>1. \A d \in Conns : FramesOn(d)' = FramesOn(d) /\ AnswersOn(d)' = AnswersOn(d)
    BY <1>5, Zenon DEF FramesOn, AnswersOn, RawPeer
  <2>. QED
    BY <1>0, <1>1, <1>5, <2>1, Zenon DEF WireInv
<1>. QED
  BY <1>5, <1>6, <1>7, <1>8, <1>9, Zenon DEF CallsInv

\* Call ends with an answer, with the closed connection or with its timer.
LEMMA EndOfCall ==
  ASSUME IpcInv, NEW c \in Conns, NEW k \in Callers,
         CallAnswered(c, k) \/ CallDone(c, k) \/ CallTimesOut(c, k)
  PROVE  WireInv' /\ CallsInv'
<1>0. WireInv /\ CallOK(c, call[c][k])
  BY Zenon DEF IpcInv, CallsInv
<1>1. PICK a : /\ Returned(c, k, a) /\ call[c][k].at = "wait"
               /\ a = NoAnswer \/ (call[c][k].ch # <<>> /\ a = Head(call[c][k].ch))
  BY Zenon DEF CallAnswered, CallDone, CallTimesOut
<1>2. a.id # 0 => a.call = call[c][k].call
  <2>1. NoAnswer.id = 0
    BY Zenon DEF NoAnswer
  <2>. QED
    BY <1>0, <1>1, <2>1, Zenon DEF CallOK
<1>3. CallsInv' /\ ClientKept
  BY <1>1, <1>2, ReturnedStep, Zenon
<1>4. UNCHANGED <<srv, toSrv, toCli>>
  BY Zenon DEF CallAnswered, CallDone, CallTimesOut
<1>. QED
  BY <1>0, <1>3, <1>4, WireFrame, Zenon

\* Call writes its request, or fails to and returns.
LEMMA WriteStep ==
  ASSUME IpcInv, NEW c \in Conns, NEW k \in Callers, Write(c, k)
  PROVE  WireInv' /\ CallsInv'
<1>0. WireInv /\ CallsInv /\ CallShape /\ CallOK(c, call[c][k])
  BY Zenon DEF IpcInv, CallsInv
<1>1. call[c][k].at = "write" /\ UNCHANGED <<srv, toCli>>
  BY Zenon DEF Write
<1>2. CASE UNCHANGED cli /\ call' = [call EXCEPT ![c][k].at = "wait"]
           /\ toSrv' = [toSrv EXCEPT ![c] = Append(toSrv[c], IF call[c][k].m = "host.hello"
               THEN [Hello("harness", PreviousMinor, FALSE) EXCEPT !.id = call[c][k].id]
               ELSE Frame("request", call[c][k].id, call[c][k].call, call[c][k].m))]
  <2>. DEFINE f == IF call[c][k].m = "host.hello"
                   THEN [Hello("harness", PreviousMinor, FALSE) EXCEPT !.id = call[c][k].id]
                   ELSE Frame("request", call[c][k].id, call[c][k].call, call[c][k].m)
              l == [call[c][k] EXCEPT !.at = "wait"]
  <2>1. f \in FrameRecs /\ f.id = f.call
    <3>1. call[c][k].id \in Nat /\ call[c][k].call \in Nat /\ call[c][k].call = call[c][k].id
      BY <1>0, Zenon DEF CallOK
    <3>2. CASE call[c][k].m = "host.hello"
      BY <1>0, <3>1, <3>2, FramesTyped, ZenonT(60) DEF CallOK
    <3>3. CASE call[c][k].m # "host.hello"
      <4>1. call[c][k].m \in Methods \cup {""}
        BY <1>0, <3>3, Zenon DEF CallOK, Methods, methodTable
      <4>. DEFINE g == Frame("request", call[c][k].id, call[c][k].call, call[c][k].m)
      <4>2. f = g
        BY <3>3, Zenon
      <4>. HIDE DEF f
      <4>3. g \in FrameRecs /\ g.id = call[c][k].id /\ g.call = call[c][k].call
        BY <3>1, <4>1, RequestTyped, Zenon
      <4>. QED
        BY <3>1, <4>2, <4>3, Zenon
    <3>. QED
      BY <3>2, <3>3, Zenon
  <2>2. toSrv' = [toSrv EXCEPT ![c] = Append(toSrv[c], f)]
    BY <1>2, Zenon
  <2>. HIDE DEF f
  <2>3. cli[c].reader # "off"
    BY <1>0, <1>1, Zenon DEF CallOK
  <2>4. /\ toSrv' = [d \in Conns |-> toSrv'[d]]
        /\ \A d \in Conns : toSrv'[d] \in Seq(FramesOn(d)) /\ (d # c => toSrv'[d] = toSrv[d])
    <3>1. f \in FramesOn(c) /\ toSrv[c] \in Seq(FramesOn(c))
      BY <1>0, <2>1, Zenon DEF FramesOn, WireInv
    <3>2. Append(toSrv[c], f) \in Seq(FramesOn(c))
      BY <3>1
    <3>. QED
      BY <1>0, <2>2, <3>2, Zenon DEF WireInv
  <2>5. \A d \in Conns : FramesOn(d)' = FramesOn(d) /\ AnswersOn(d)' = AnswersOn(d)
    BY <1>2, Zenon DEF FramesOn, AnswersOn, RawPeer
  <2>6. WireInv'
    BY <1>0, <1>1, <1>2, <2>3, <2>4, <2>5, Zenon DEF WireInv
  <2>7. /\ DOMAIN l = DOMAIN Idle /\ l.at = "wait"
        /\ l.id = call[c][k].id /\ l.call = call[c][k].call /\ l.m = call[c][k].m /\ l.ch = call[c][k].ch
    BY <1>0, Zenon DEF CallShape, Idle
  <2>8. call' = [call EXCEPT ![c][k] = l]
    BY <1>2, Zenon
  <2>. HIDE DEF l
  <2>9. CallOK(c, l)
    BY <1>0, <1>1, <2>7, Zenon DEF CallOK
  <2>. QED
    BY <1>0, <1>2, <2>6, <2>7, <2>8, <2>9, CallerKept, Zenon
<1>3. CASE Returned(c, k, NoAnswer) /\ UNCHANGED toSrv
  BY <1>0, <1>1, <1>3, ReturnedStep, WireFrame, Zenon DEF NoAnswer
<1>. QED
  BY <1>2, <1>3, Zenon DEF Write

\* The reader ends, the client is closed, or a caller begins anew.
LEMMA ReaderSteps ==
  ASSUME IpcInv, NEW c \in Conns,
         ReaderEnds(c) \/ CloseClient(c) \/ \E k \in Callers : CallAgain(c, k)
  PROVE  WireInv' /\ CallsInv'
<1>0. WireInv /\ CallsInv /\ ClientShape
  BY Zenon DEF IpcInv, CallsInv
<1>1. CASE ReaderEnds(c) \/ CloseClient(c)
  <2>1. ClientKept
    BY <1>0, <1>1 DEF ReaderEnds, CloseClient, ClientKept, ClientShape, NoClient
  <2>2. UNCHANGED <<srv, toSrv, toCli, call>>
    BY <1>1, Zenon DEF ReaderEnds, CloseClient
  <2>. QED
    BY <1>0, <2>1, <2>2, WireFrame, CallsFrame, Zenon
<1>2. ASSUME NEW k \in Callers, CallAgain(c, k) PROVE WireInv' /\ CallsInv'
  <2>1. CallOK(c, Idle)
    BY Zenon DEF CallOK, Idle
  <2>2. UNCHANGED <<srv, toSrv, toCli, cli>> /\ call' = [call EXCEPT ![c][k] = Idle]
    BY <1>2, Zenon DEF CallAgain
  <2>3. WireInv'
    BY <1>0, <2>2, WireFrame, Zenon
  <2>4. CallsInv'
    BY <1>0, <1>2, <2>1, <2>2, CallerKept, Zenon
  <2>. QED
    BY <2>3, <2>4, Zenon
<1>. QED
  BY <1>1, <1>2, Zenon

\* The reader hands a message, or the error of the read, to the calls that
\* wait for it: their channels take one answer each.
LEMMA HandedOn ==
  ASSUME CallsInv, NEW c \in Conns, NEW a, NEW W \in SUBSET Callers,
         call' = [call EXCEPT ![c] = [k \in Callers |-> IF k \in W THEN [call[c][k] EXCEPT !.ch = <<a>>] ELSE call[c][k]]],
         \A k \in W : a.id # 0 => a.id = call[c][k].id /\ a.call = call[c][k].id,
         ClientKept \/ UNCHANGED cli
  PROVE  CallsInv'
<1>0. ClientShape /\ CallShape
  BY Zenon DEF CallsInv
<1>. DEFINE R == [k \in Callers |-> [call[c][k] EXCEPT !.ch = <<a>>]]
<1>1. \A k \in Callers :
        /\ DOMAIN R[k] = DOMAIN Idle /\ R[k].at = call[c][k].at /\ R[k].id = call[c][k].id
        /\ R[k].call = call[c][k].call /\ R[k].m = call[c][k].m /\ R[k].got = call[c][k].got /\ R[k].ch = <<a>>
  BY <1>0, Zenon DEF CallShape, Idle
<1>2. /\ call' = [d \in Conns |-> call'[d]]
      /\ \A d \in Conns \ {c} : call'[d] = call[d]
      /\ call'[c] = [k \in Callers |-> IF k \in W THEN [call[c][k] EXCEPT !.ch = <<a>>] ELSE call[c][k]]
  BY <1>0, Zenon DEF CallShape
<1>3. call'[c] = [k \in Callers |-> IF k \in W THEN R[k] ELSE call[c][k]]
  BY <1>2, Zenon
<1>. HIDE DEF R
<1>4. call'[c] = [k \in Callers |-> call'[c][k]]
  BY <1>3, ZenonT(60)
<1>5. \A k \in Callers : call'[c][k] = IF k \in W THEN R[k] ELSE call[c][k]
  BY <1>3, Zenon
<1>6. CallShape'
  <2>1. \A d \in Conns : call'[d] = [k \in Callers |-> call'[d][k]]
    BY <1>0, <1>2, <1>4, ZenonT(60) DEF CallShape
  <2>2. \A d \in Conns, k \in Callers : DOMAIN call'[d][k] = DOMAIN Idle
    BY <1>0, <1>1, <1>2, <1>5, ZenonT(60) DEF CallShape
  <2>. QED
    BY <1>2, <2>1, <2>2, Zenon DEF CallShape
<1>7. ASSUME NEW d \in Conns, NEW k \in Callers PROVE CallOK(d, call'[d][k])
  <2>0. CallOK(d, call[d][k]) /\ CallOK(c, call[c][k])
    BY Zenon DEF CallsInv
  <2>1. CASE d # c \/ k \notin W
    BY <1>2, <1>5, <2>0, <2>1, Zenon
  <2>2. CASE d = c /\ k \in W
    <3>1. CallOK(c, R[k])
      <4>1. Head(R[k].ch) = a
        BY <1>1
      <4>. QED
        BY <1>1, <2>0, <2>2, <4>1, Zenon DEF CallOK
    <3>. QED
      BY <1>5, <2>2, <3>1, Zenon
  <2>. QED
    BY <2>1, <2>2, Zenon
<1>8. ClientShape' /\ \A d \in Conns : Counted(d)'
  BY <1>0, Zenon DEF CallsInv, ClientKept, ClientShape, Counted, RawPeer
<1>9. ASSUME NEW d \in Conns, NEW k \in Callers PROVE CallOK(d, call[d][k])'
  BY <1>7, ZenonT(60) DEF CallOK, ClientKept
<1>. QED
  BY <1>6, <1>8, <1>9, Zenon DEF CallsInv

\* readLoop: an answer goes to the call with its id, if that is still pending.
LEMMA AnswerStep ==
  ASSUME IpcInv, NEW c \in Conns, ReadAnswer(c)
  PROVE  WireInv' /\ CallsInv'
<1>0. WireInv /\ CallsInv
  BY Zenon DEF IpcInv
<1>. DEFINE a == Head(toCli[c])
            W == {k \in Callers : /\ call[c][k].at \in {"write", "wait"} /\ call[c][k].id = a.id
                                  /\ a.id \in cli[c].pending /\ call[c][k].ch = <<>>}
<1>1. /\ toCli[c] # <<>> /\ toCli' = [toCli EXCEPT ![c] = Tail(toCli[c])]
      /\ UNCHANGED <<srv, toSrv, cli>>
      /\ call' = [call EXCEPT ![c] = [k \in Callers |-> IF k \in W THEN [call[c][k] EXCEPT !.ch = <<a>>] ELSE call[c][k]]]
  BY Zenon DEF ReadAnswer, Delivered
<1>2. a \in AnswersOn(c) /\ Tail(toCli[c]) \in Seq(AnswersOn(c))
  BY <1>0, <1>1 DEF WireInv
<1>3. \A k \in W : a.id # 0 => a.id = call[c][k].id /\ a.call = call[c][k].id
  <2>1. \A k \in W : a.id = call[c][k].id /\ ~RawPeer(c)
    BY <1>0, Zenon DEF CallsInv, CallOK, RawPeer
  <2>2. RawPeer(c) \/ a.id = a.call
    BY <1>2, Zenon DEF AnswersOn
  <2>. QED
    BY <2>1, <2>2, Zenon
<1>4. CallsInv'
  <2>1. W \in SUBSET Callers
    BY Zenon
  <2>2. UNCHANGED cli
    BY <1>1, Zenon
  <2>3. call' = [call EXCEPT ![c] = [k \in Callers |-> IF k \in W THEN [call[c][k] EXCEPT !.ch = <<a>>] ELSE call[c][k]]]
    BY <1>1, Zenon
  <2>. HIDE DEF a, W
  <2>. QED
    BY <1>0, <1>3, <2>1, <2>2, <2>3, HandedOn, Zenon
<1>5. WireInv'
  <2>1. \A d \in Conns : FramesOn(d)' = FramesOn(d) /\ AnswersOn(d)' = AnswersOn(d)
    BY <1>1, Zenon DEF FramesOn, AnswersOn, RawPeer
  <2>2. /\ toCli' = [d \in Conns |-> toCli'[d]]
        /\ \A d \in Conns : toCli'[d] \in Seq(AnswersOn(d)) /\ (toCli[d] = <<>> => toCli'[d] = <<>>)
    BY <1>0, <1>1, <1>2, Zenon DEF WireInv
  <2>. HIDE DEF a, W
  <2>. QED
    BY <1>0, <1>1, <2>1, <2>2, Zenon DEF WireInv
<1>. QED
  BY <1>4, <1>5, Zenon

\* failAll: every pending call gets the error, once.
LEMMA FailStep ==
  ASSUME IpcInv, NEW c \in Conns, FailAll(c)
  PROVE  WireInv' /\ CallsInv'
<1>0. WireInv /\ CallsInv /\ ClientShape
  BY Zenon DEF IpcInv, CallsInv
<1>. DEFINE W == {k \in Callers : /\ call[c][k].at \in {"write", "wait"} /\ call[c][k].id \in cli[c].pending
                                  /\ call[c][k].ch = <<>>}
<1>1. /\ UNCHANGED <<srv, toSrv, toCli>> /\ cli[c].reader = "read"
      /\ cli' = [cli EXCEPT ![c].reader = "fail", ![c].pending = {}]
      /\ call' = [call EXCEPT ![c] = [k \in Callers |->
                    IF k \in W THEN [call[c][k] EXCEPT !.ch = <<NoAnswer>>] ELSE call[c][k]]]
  BY Zenon DEF FailAll
<1>2. W \in SUBSET Callers
  BY Zenon
<1>. HIDE DEF W
<1>3. ClientKept
  BY <1>0, <1>1, Zenon DEF ClientKept, ClientShape, NoClient
<1>4. NoAnswer.id = 0
  BY Zenon DEF NoAnswer
<1>5. CallsInv'
  BY <1>0, <1>1, <1>2, <1>3, <1>4, HandedOn, Zenon
<1>6. WireInv'
  BY <1>0, <1>1, <1>3, WireFrame, Zenon
<1>. QED
  BY <1>5, <1>6, Zenon

\* The invariant holds before the first connection.
LEMMA IpcInvInit ==
  ASSUME IpcInit
  PROVE  IpcInv
<1>1. ServerInv
  BY Zenon DEF IpcInit, ServerInv, SrvShape, ServeWaits, NoConn
<1>2. /\ \A c \in Conns : toSrv[c] = <<>> /\ toCli[c] = <<>>
      /\ \A c \in Conns : srv[c].req = NoConn.req /\ cli[c] = NoClient
      /\ toSrv = [c \in Conns |-> toSrv[c]] /\ toCli = [c \in Conns |-> toCli[c]]
  BY Zenon DEF IpcInit
<1>3. NoConn.req \in FrameRecs /\ NoConn.req.id = NoConn.req.call
  <2>1. NoConn.req = Frame("none", 0, 0, "")
    BY Zenon DEF NoConn
  <2>2. Frame("none", 0, 0, "") \in FrameRecs /\ Frame("none", 0, 0, "").id = 0 /\ Frame("none", 0, 0, "").call = 0
    BY Zenon DEF Frame, FrameRecs, NoProtocol, Roles
  <2>. QED
    BY <2>1, <2>2, Zenon
<1>4. WireInv
  <2>1. \A c \in Conns : NoConn.req \in FramesOn(c)
    BY <1>3, Zenon DEF FramesOn
  <2>2. ~NoClient.open
    BY Zenon DEF NoClient
  <2>3. \A c \in Conns : <<>> \in Seq(FramesOn(c)) /\ <<>> \in Seq(AnswersOn(c))
    OBVIOUS
  <2>. QED
    BY <1>2, <2>1, <2>2, <2>3, Zenon DEF WireInv
<1>5. \A c \in Conns : Counted(c) /\ CallOK(c, Idle)
  BY <1>2 DEF Counted, CallOK, NoClient, Idle
<1>6. CallsInv
  BY <1>5, Zenon DEF IpcInit, CallsInv, ClientShape, CallShape
<1>. QED
  BY <1>1, <1>4, <1>6, Zenon DEF IpcInv

\* Every step keeps the invariant: one lemma for each handler.
LEMMA IpcInvStep ==
  ASSUME IpcInv, [IpcNext]_ipcVars
  PROVE  IpcInv'
<1>1. ServerInv'
  BY ServerStepInv, Zenon DEF IpcInv
<1>2. WireInv' /\ CallsInv'
  <2>1. CASE UNCHANGED ipcVars
    BY <2>1, WireFrame, CallsFrame, Zenon DEF IpcInv, ipcVars
  <2>2. CASE CloseBegins \/ CloseStep \/ \E c \in Conns : ServerStep(c)
    BY <2>2, ServerKeepsCalls, Zenon
  <2>3. ASSUME NEW c \in Conns, ReaderStep(c) \/ Dial(c) \/ PeerSends(c) \/ CloseClient(c)
        PROVE  WireInv' /\ CallsInv'
    BY <2>3, AnswerStep, FailStep, ReaderSteps, DialStep, PeerStep, Zenon DEF ReaderStep
  <2>4. ASSUME NEW c \in Conns, NEW k \in Callers,
               Register(c, k) \/ CallStep(c, k) \/ CallTimesOut(c, k) \/ CallAgain(c, k)
        PROVE  WireInv' /\ CallsInv'
    BY <2>4, RegisterStep, WriteStep, EndOfCall, ReaderSteps, Zenon DEF CallStep
  <2>. QED
    BY <2>1, <2>2, <2>3, <2>4, Zenon DEF IpcNext
<1>. QED
  BY <1>1, <1>2, Zenon DEF IpcInv

\* The invariant of the connection, for any number of connections and callers.
THEOREM IpcInvariant == IpcSpec => []IpcInv
BY IpcInvInit, IpcInvStep, PTL DEF IpcSpec

\* Serve comes back only when the last goroutine of a connection has ended.
THEOREM ServeWaitsHolds == IpcSpec => []ServeWaits
<1>1. IpcInv => ServeWaits
  BY Zenon DEF IpcInv, ServerInv
<1>. QED
  BY <1>1, IpcInvariant, PTL

\* Every handler that ran was one the method table gives the role of its
\* connection, and the role "app" belongs to a verified process.
THEOREM HandlersAuthorised == IpcSpec => []HandlerAuthorised
<1>1. IpcInv => HandlerAuthorised
  BY Zenon DEF IpcInv, ServerInv, HandlerAuthorised, Authorize
<1>. QED
  BY <1>1, IpcInvariant, PTL

\* A call that returns a result returns the one of its own request.
THEOREM CallsGetTheirAnswer == IpcSpec => []AnswersItsCall
<1>1. IpcInv => AnswersItsCall
  BY Zenon DEF IpcInv, CallsInv, CallOK, AnswersItsCall
<1>. QED
  BY <1>1, IpcInvariant, PTL

-----------------------------------------------------------------------------
(* Computer use: a suspension *)

SuspensionSpec == SuspensionInit /\ [][SuspensionNext]_suspensionVars

\* A suspension empties the queue and moves the geometry on; so what is queued was queued
\* since the last one, and a frame of the present geometry was captured since then.  A
\* human's stop is a hold until the stop is undone.
SuspensionInv ==
  /\ stops \in Nat
  /\ geometryGeneration = stops + 1
  /\ \A i \in DOMAIN queuedActions : queuedActions[i] = stops
  /\ queuedActions \in Seq(Nat)
  /\ \A f \in taken : f.span \in Nat /\ f.geometryGeneration = f.span + 1
  /\ frames \subseteq taken
  /\ humanHold \in BOOLEAN /\ stopped \in BOOLEAN
  /\ stopped => humanHold
  /\ NoReplay /\ FreshObservation /\ HumanReleases

\* A frame that validates was captured since the last suspension.
LEMMA ValidIsFresh ==
  ASSUME SuspensionInv, NEW f \in frames, NEW at, validate(frames, f, at)
  PROVE  f.span = stops
BY DEF SuspensionInv, validate

\* The invariant holds before anything was captured.
LEMMA SuspensionInvInit == SuspensionInit => SuspensionInv
<1> SUFFICES ASSUME SuspensionInit PROVE SuspensionInv
  BY Zenon
<1>1. queuedActions \in Seq(Nat) /\ \A i \in DOMAIN queuedActions : queuedActions[i] = stops
  BY DEF SuspensionInit
<1>2. NoReplay /\ FreshObservation /\ HumanReleases
  BY Zenon DEF SuspensionInit, NoReplay, FreshObservation, HumanReleases
<1>3. humanHold \in BOOLEAN /\ stopped \in BOOLEAN /\ (stopped => humanHold)
  BY Zenon DEF SuspensionInit
<1> QED
  BY <1>1, <1>2, <1>3 DEF SuspensionInit, SuspensionInv

\* Every step keeps the invariant, one case for each action.
LEMMA SuspensionInvStep == SuspensionInv /\ [SuspensionNext]_suspensionVars => SuspensionInv'
<1> SUFFICES ASSUME SuspensionInv, [SuspensionNext]_suspensionVars PROVE SuspensionInv'
  BY Zenon
<1> USE DEF framesVars, controlVars, historyOfStops, NoReplay, FreshObservation, HumanReleases
<1>1. CASE Capture
  <2>1. PICK mine \in BOOLEAN :
          taken' = taken \cup {[mine |-> mine, controllerEpoch |-> controllerEpoch,
                                geometryGeneration |-> geometryGeneration, capturedAt |-> now, span |-> stops]}
    BY <1>1, Zenon DEF Capture
  <2>2. UNCHANGED <<frames, queuedActions, humanHold, geometryGeneration, stops, stopped, ran>>
    BY <1>1, Zenon DEF Capture
  <2> QED
    BY <2>1, <2>2 DEF SuspensionInv
<1>2. CASE recordFrame
  BY <1>2, Zenon DEF recordFrame, Recorded, SuspensionInv
<1>3. CASE activate
  <2>1. frames' \subseteq taken /\ UNCHANGED <<geometryGeneration, taken, queuedActions, stops, ran>>
    BY <1>3, Zenon DEF activate, Recorded, SuspensionInv
  <2>2. UNCHANGED <<humanHold, stopped>> \/ (humanHold' = FALSE /\ stopped' = FALSE)
    BY <1>3, Zenon DEF activate
  <2>3. humanHold' \in BOOLEAN /\ stopped' \in BOOLEAN /\ (stopped' => humanHold')
    <3>1. humanHold \in BOOLEAN /\ stopped \in BOOLEAN /\ (stopped => humanHold)
      BY Zenon DEF SuspensionInv
    <3>2. (humanHold' = humanHold /\ stopped' = stopped) \/ (humanHold' = FALSE /\ stopped' = FALSE)
      BY <2>2, Zenon
    <3>3. CASE humanHold' = humanHold /\ stopped' = stopped
      BY <3>1, <3>3, Zenon
    <3>4. CASE humanHold' = FALSE /\ stopped' = FALSE
      BY <3>4, Zenon
    <3> QED
      BY <3>2, <3>3, <3>4, Zenon
  <2> QED
    BY <2>1, <2>3, Zenon DEF SuspensionInv
<1>4. CASE acquireAgentControl \/ FramesAge
  BY <1>4 DEF acquireAgentControl, FramesAge, SuspensionInv
<1>5. CASE enqueue
  <2>1. queuedActions' = Append(queuedActions, stops)
        /\ UNCHANGED <<frames, taken, humanHold, geometryGeneration, stops, stopped, ran>>
    BY <1>5, Zenon DEF enqueue
  <2>2. queuedActions' \in Seq(Nat) /\ \A i \in DOMAIN queuedActions' : queuedActions'[i] = stops
    BY <2>1 DEF SuspensionInv
  <2> QED
    BY <2>1, <2>2, Zenon DEF SuspensionInv
<1>6. CASE drainForExecution
  <2>1. queuedActions' = <<>> /\ UNCHANGED <<frames, taken, humanHold, geometryGeneration, stops, stopped>>
    BY <1>6, Zenon DEF drainForExecution
  <2>2. \A x \in ran' : x.queued = x.at /\ x.seen = x.at /\ ~x.held
    <3>1. CASE UNCHANGED ran
      BY <3>1, Zenon DEF SuspensionInv
    <3>2. ASSUME MayInput, NEW f \in frames, validate(frames, f, now),
                 ran' = ran \cup {[queued |-> queuedActions[i], seen |-> f.span, at |-> stops, held |-> stopped]
                                  : i \in 1..Len(queuedActions)}
          PROVE  \A x \in ran' : x.queued = x.at /\ x.seen = x.at /\ ~x.held
      <4>1. f.span = stops /\ stopped = FALSE
        BY <3>2, ValidIsFresh, Zenon DEF MayInput, SuspensionInv
      <4>2. \A i \in 1..Len(queuedActions) : queuedActions[i] = stops
        BY DEF SuspensionInv
      <4> QED
        BY <3>2, <4>1, <4>2 DEF SuspensionInv
    <3> QED
      BY <1>6, <3>1, <3>2, Zenon DEF drainForExecution
  <2> QED
    BY <2>1, <2>2 DEF SuspensionInv
<1>7. ASSUME NEW reason \in Reasons, suspend(reason) PROVE SuspensionInv'
  BY <1>7 DEF suspend, SuspensionInv
<1>8. ASSUME NEW humanActor \in BOOLEAN, resumeAfterFreshObservation(humanActor) PROVE SuspensionInv'
  <2>1. frames' \subseteq taken /\ UNCHANGED <<geometryGeneration, taken, queuedActions, stops, ran>>
    BY <1>8, Zenon DEF resumeAfterFreshObservation, Recorded, SuspensionInv
  <2>2. /\ humanHold' \in BOOLEAN /\ stopped' \in BOOLEAN
        /\ stopped' => humanHold'
    <3>1. CASE UNCHANGED <<session, humanHold>>
      BY <1>8, <3>1, Zenon DEF resumeAfterFreshObservation, SuspensionInv
    <3>2. CASE session' = "active" /\ humanHold' = (humanHold /\ ~humanActor)
      BY <1>8, <3>2, Zenon DEF resumeAfterFreshObservation, SuspensionInv
    <3> QED
      BY <1>8, <3>1, <3>2, Zenon DEF resumeAfterFreshObservation
  <2> QED
    BY <2>1, <2>2, Zenon DEF SuspensionInv
<1>9. CASE close
  BY <1>9 DEF close, SuspensionInv
<1>10. CASE UNCHANGED suspensionVars
  BY <1>10, Zenon DEF suspensionVars, SuspensionInv
<1> QED
  BY <1>1, <1>2, <1>3, <1>4, <1>5, <1>6, <1>7, <1>8, <1>9, <1>10, Zenon DEF SuspensionNext

\* Input queued before a suspension is never executed after it, however many there are.
THEOREM InputNotReplayed == SuspensionSpec => []NoReplay
<1>1. SuspensionInv => NoReplay
  BY Zenon DEF SuspensionInv
<1> QED
  BY <1>1, SuspensionInvInit, SuspensionInvStep, PTL DEF SuspensionSpec

\* Input is executed only under a frame captured since the last suspension.
THEOREM InputSeesPresent == SuspensionSpec => []FreshObservation
<1>1. SuspensionInv => FreshObservation
  BY Zenon DEF SuspensionInv
<1> QED
  BY <1>1, SuspensionInvInit, SuspensionInvStep, PTL DEF SuspensionSpec

\* After a human's stop no input is executed until a human resumes the session, or it is
\* opened again.
THEOREM StopHolds == SuspensionSpec => []HumanReleases
<1>1. SuspensionInv => HumanReleases
  BY Zenon DEF SuspensionInv
<1> QED
  BY <1>1, SuspensionInvInit, SuspensionInvStep, PTL DEF SuspensionSpec

-----------------------------------------------------------------------------
(* The daemon: start, shutdown and the tunnel child *)

DaemonSpec == DaemonInit /\ [][DaemonNext]_daemonVars

Opening == {"token", "host", "mcp", "tunnel"}

\* The child: it runs only while the loop has it, unless the process was killed.
ChildInv ==
  /\ gen \in Nat /\ \A g \in children : g \in Nat /\ g <= gen
  /\ run \in {"none", "crashed"} \cup Opening => loop = "off"
  /\ run # "crashed" => (gen \in children => loop \in {"started", "wait"})
  /\ tstate \in {"failed", "stopped"} => loop \in {"off", "end"} /\ gen \notin children

\* The order of shutdown.
ShutdownInv ==
  /\ run \in Opening => ~wasReady
  /\ run \in {"stopMCP", "stopHost", "stopStore", "unlink", "returned"} /\ wasReady /\ ~late =>
       loop \in {"off", "end"}
  /\ run \in {"stopHost", "stopStore", "unlink"} /\ ~late => ~inflight
  /\ run = "unlink" => ~storeOpen
  /\ run = "returned" /\ wasReady => token = 0 /\ sock = [s \in Sockets |-> 0] /\ ~storeOpen

\* Starts and counted restarts.
CountInv ==
  /\ attempts \in Nat /\ restarts \in Nat
  /\ run \in Opening => attempts = 0 /\ restarts = 0
  /\ loop \in {"check", "start", "backoff"} => attempts = restarts /\ ~givesUp(restarts)
  /\ loop \in {"started", "wait", "exited"} => attempts = restarts + 1 /\ ~givesUp(restarts)
  /\ MaxRestarts > 0 => attempts <= MaxRestarts

DaemonInv == ChildInv /\ ShutdownInv /\ CountInv


\* Run, the tunnel loop and the kernel keep what is said of the child.
LEMMA ChildInvStep ==
  ASSUME DaemonInv, DaemonNext
  PROVE  ChildInv'
<1>0. ChildInv
  BY Zenon DEF DaemonInv
<1>. USE <1>0 DEF ChildInv, Opening, loopRest, fileVars, tunnelVars
<1>1. CASE NewProcess
  BY <1>1 DEF NewProcess
<1>2. CASE writeTokenFile
  BY <1>2, Zenon DEF writeTokenFile
<1>3. CASE ListenHost
  BY <1>3, Zenon DEF ListenHost, ListenUnix, Fails
<1>4. CASE startMCPIngress
  BY <1>4, Zenon DEF startMCPIngress, ListenUnix, Fails
<1>5. CASE StartTunnel
  BY <1>5, Zenon DEF StartTunnel
<1>6. CASE StopTunnel
  BY <1>6, Zenon DEF StopTunnel
<1>7. CASE Grace
  BY <1>7, Zenon DEF Grace
<1>8. CASE AwaitLoop
  BY <1>8, Zenon DEF AwaitLoop
<1>9. CASE stopMCPIngress
  BY <1>9, Zenon DEF stopMCPIngress
<1>10. CASE StopHostIPC
  BY <1>10, Zenon DEF StopHostIPC
<1>11. CASE CloseStore
  BY <1>11, Zenon DEF CloseStore
<1>12. CASE RunReturns
  BY <1>12, Zenon DEF RunReturns
<1>13. CASE Cancel
  BY <1>13, Zenon DEF Cancel
<1>14. CASE IngressRequest
  BY <1>14, Zenon DEF IngressRequest
<1>15. CASE IngressAnswer
  BY <1>15, Zenon DEF IngressAnswer
<1>16. CASE Crash
  BY <1>16, Zenon DEF Crash
<1>17. CASE CheckContext
  BY <1>17, Zenon DEF CheckContext, Ended
<1>18. CASE CmdStart
  BY <1>18 DEF CmdStart, Restarts, Ended
<1>19. CASE SetRunning
  BY <1>19, Zenon DEF SetRunning
<1>20. CASE WaitReturns
  BY <1>20, Zenon DEF WaitReturns
<1>21. CASE AfterWait
  BY <1>21, Zenon DEF AfterWait, Restarts, Ended
<1>22. CASE sleepCtx
  BY <1>22, Zenon DEF sleepCtx, Ended
<1>23. CASE KillOnCancel
  BY <1>23, Zenon DEF KillOnCancel
<1>24. CASE ChildExits
  BY <1>24, ZenonT(60) DEF ChildExits
<1>. HIDE <1>0 DEF ChildInv, Opening, loopRest, fileVars, tunnelVars
<1>. QED
  BY <1>1, <1>2, <1>3, <1>4, <1>5, <1>6, <1>7, <1>8, <1>9, <1>10, <1>11, <1>12,
     <1>13, <1>14, <1>15, <1>16, <1>17, <1>18, <1>19, <1>20,
     <1>21, <1>22, <1>23, <1>24, ZenonT(60) DEF DaemonNext, RunStep, TunnelStep

\* Every step keeps the order of shutdown; a step that waits relies on ChildInv.
LEMMA ShutdownInvStep ==
  ASSUME DaemonInv, DaemonNext
  PROVE  ShutdownInv'
<1>0. ChildInv /\ ShutdownInv
  BY Zenon DEF DaemonInv
<1>. USE <1>0 DEF ChildInv, ShutdownInv, Opening, loopRest, fileVars, tunnelVars
<1>1. CASE NewProcess
  BY <1>1, Zenon DEF NewProcess
<1>2. CASE writeTokenFile
  BY <1>2, Zenon DEF writeTokenFile
<1>3. CASE ListenHost
  BY <1>3, Zenon DEF ListenHost, ListenUnix, Fails
<1>4. CASE startMCPIngress
  BY <1>4, Zenon DEF startMCPIngress, ListenUnix, Fails
<1>5. CASE StartTunnel
  BY <1>5, Zenon DEF StartTunnel
<1>6. CASE StopTunnel
  BY <1>6, Zenon DEF StopTunnel
<1>7. CASE Grace
  BY <1>7, Zenon DEF Grace
<1>8. CASE AwaitLoop
  BY <1>8, Zenon DEF AwaitLoop
<1>9. CASE stopMCPIngress
  BY <1>9, Zenon DEF stopMCPIngress
<1>10. CASE StopHostIPC
  BY <1>10, Zenon DEF StopHostIPC
<1>11. CASE CloseStore
  BY <1>11, Zenon DEF CloseStore
<1>12. CASE RunReturns
  BY <1>12, Zenon DEF RunReturns
<1>13. CASE Cancel
  BY <1>13, Zenon DEF Cancel
<1>14. CASE IngressRequest
  BY <1>14, Zenon DEF IngressRequest
<1>15. CASE IngressAnswer
  BY <1>15, Zenon DEF IngressAnswer
<1>16. CASE Crash
  BY <1>16, Zenon DEF Crash
<1>17. CASE CheckContext
  BY <1>17, Zenon DEF CheckContext, Ended
<1>18. CASE CmdStart
  BY <1>18, Zenon DEF CmdStart, Restarts, Ended
<1>19. CASE SetRunning
  BY <1>19, Zenon DEF SetRunning
<1>20. CASE WaitReturns
  BY <1>20, Zenon DEF WaitReturns
<1>21. CASE AfterWait
  BY <1>21, Zenon DEF AfterWait, Restarts, Ended
<1>22. CASE sleepCtx
  BY <1>22, Zenon DEF sleepCtx, Ended
<1>23. CASE KillOnCancel
  BY <1>23, Zenon DEF KillOnCancel
<1>24. CASE ChildExits
  BY <1>24, ZenonT(60) DEF ChildExits
<1>. HIDE <1>0 DEF ChildInv, ShutdownInv, Opening, loopRest, fileVars, tunnelVars
<1>. QED
  BY <1>1, <1>2, <1>3, <1>4, <1>5, <1>6, <1>7, <1>8, <1>9, <1>10, <1>11, <1>12,
     <1>13, <1>14, <1>15, <1>16, <1>17, <1>18, <1>19, <1>20,
     <1>21, <1>22, <1>23, <1>24, Zenon DEF DaemonNext, RunStep, TunnelStep

\* Every step keeps the count of starts: one start for each restart that was counted.
LEMMA CountInvStep ==
  ASSUME DaemonInv, DaemonNext
  PROVE  CountInv'
<1>0. ChildInv /\ CountInv
  BY Zenon DEF DaemonInv
<1>. USE <1>0, DaemonAssumption DEF ChildInv, CountInv, Opening, loopRest, fileVars, tunnelVars, givesUp
<1>1. CASE NewProcess
  BY <1>1 DEF NewProcess
<1>2. CASE writeTokenFile
  BY <1>2, Zenon DEF writeTokenFile
<1>3. CASE ListenHost
  BY <1>3, Zenon DEF ListenHost, ListenUnix, Fails
<1>4. CASE startMCPIngress
  BY <1>4, Zenon DEF startMCPIngress, ListenUnix, Fails
<1>5. CASE StartTunnel
  BY <1>5 DEF StartTunnel
<1>6. CASE StopTunnel
  BY <1>6, Zenon DEF StopTunnel
<1>7. CASE Grace
  BY <1>7, Zenon DEF Grace
<1>8. CASE AwaitLoop
  BY <1>8, Zenon DEF AwaitLoop
<1>9. CASE stopMCPIngress
  BY <1>9, Zenon DEF stopMCPIngress
<1>10. CASE StopHostIPC
  BY <1>10, Zenon DEF StopHostIPC
<1>11. CASE CloseStore
  BY <1>11, Zenon DEF CloseStore
<1>12. CASE RunReturns
  BY <1>12, Zenon DEF RunReturns
<1>13. CASE Cancel
  BY <1>13, Zenon DEF Cancel
<1>14. CASE IngressRequest
  BY <1>14, Zenon DEF IngressRequest
<1>15. CASE IngressAnswer
  BY <1>15, Zenon DEF IngressAnswer
<1>16. CASE Crash
  BY <1>16, Zenon DEF Crash
<1>17. CASE CheckContext
  BY <1>17, Zenon DEF CheckContext, Ended
<1>18. CASE CmdStart
  BY <1>18 DEF CmdStart, Restarts, Ended
<1>19. CASE SetRunning
  BY <1>19, Zenon DEF SetRunning
<1>20. CASE WaitReturns
  BY <1>20, Zenon DEF WaitReturns
<1>21. CASE AfterWait
  BY <1>21, Zenon DEF AfterWait, Restarts, Ended
<1>22. CASE sleepCtx
  BY <1>22, Zenon DEF sleepCtx, Ended
<1>23. CASE KillOnCancel
  BY <1>23, Zenon DEF KillOnCancel
<1>24. CASE ChildExits
  BY <1>24, Zenon DEF ChildExits
<1>. HIDE <1>0, DaemonAssumption DEF ChildInv, CountInv, Opening, loopRest, fileVars, tunnelVars, givesUp
<1>. QED
  BY <1>1, <1>2, <1>3, <1>4, <1>5, <1>6, <1>7, <1>8, <1>9, <1>10, <1>11, <1>12,
     <1>13, <1>14, <1>15, <1>16, <1>17, <1>18, <1>19, <1>20,
     <1>21, <1>22, <1>23, <1>24, Zenon DEF DaemonNext, RunStep, TunnelStep

\* The three parts together are an invariant of the daemon.
LEMMA DaemonInvariant == DaemonSpec => []DaemonInv
<1>1. DaemonInit => DaemonInv
  BY DaemonAssumption DEF DaemonInit, DaemonInv, ChildInv, ShutdownInv, CountInv, Opening, givesUp
<1>2. DaemonInv /\ [DaemonNext]_daemonVars => DaemonInv'
  <2>1. ASSUME DaemonInv, DaemonNext PROVE DaemonInv'
    BY <2>1, ChildInvStep, ShutdownInvStep, CountInvStep, Zenon DEF DaemonInv
  <2>2. ASSUME DaemonInv, UNCHANGED daemonVars PROVE DaemonInv'
    BY <2>2, Zenon DEF DaemonInv, ChildInv, ShutdownInv, CountInv, daemonVars, fileVars, tunnelVars
  <2>. QED
    BY <2>1, <2>2, Zenon
<1>. QED
  BY <1>1, <1>2, PTL DEF DaemonSpec

\* Run: a controlled shutdown whose timers did not run out leaves no child, no
\* socket, no token file and no open store.
THEOREM ShutdownIsClean == DaemonSpec => []ShutdownLeavesNothing
<1>1. DaemonInv => ShutdownLeavesNothing
  BY Zenon DEF DaemonInv, ChildInv, ShutdownInv, ShutdownLeavesNothing
<1>. QED
  BY <1>1, DaemonInvariant, PTL

\* shutdown: the store is closed after the last request of the ingress.
THEOREM StoreClosedLast == DaemonSpec => []StoreOutlivesIngress
<1>1. DaemonInv => StoreOutlivesIngress
  BY Zenon DEF DaemonInv, ShutdownInv, StoreOutlivesIngress
<1>. QED
  BY <1>1, DaemonInvariant, PTL

\* superviseTunnel: no more than MaxRestarts starts, and no child is left when
\* the tunnel is said to have failed or stopped.
THEOREM TunnelRestartsBounded == DaemonSpec => []RestartsBounded
<1>1. DaemonInv => RestartsBounded
  BY Zenon DEF DaemonInv, ChildInv, CountInv, RestartsBounded
<1>. QED
  BY <1>1, DaemonInvariant, PTL
==============================================================================
