--------------------------- MODULE DeviceIdentity ---------------------------
(***************************************************************************)
(* Enrolment, registration, rotation and revocation of devices:            *)
(* internal/authstore, the registration part of GRPCAgentServer.Connect,   *)
(* the /admin handler and the client's side (cmd/client, clientcred).      *)
(* A credential is a number, 0 for none; the store holds the number whose  *)
(* digest it keeps.  The state of the Manager is kept in memory and in a   *)
(* file that is replaced by a rename.                                      *)
(***************************************************************************)
EXTENDS Integers, FiniteSets

CONSTANTS Boxes,       \* device identifiers, one client each
          Codes,       \* enrollment codes
          Handlers,    \* Connect handlers that can be open at once
          MaxCreds,    \* bound on issued credentials
          MaxAdmin,    \* bound on calls of the administrator
          MaxBreaks    \* bound on crashes, lost connections and failed saves

ASSUME IdentityAssumption ==
  MaxCreds \in Nat /\ MaxAdmin \in Nat /\ MaxBreaks \in Nat /\ "none" \notin Handlers

VARIABLES mem, disk,   \* authstore: [cred, codes] in memory and in the file
          expired,     \* codes whose time is over
          created,     \* codes the administrator was shown
          fresh,       \* credentials issued so far
          hdl,        \* the handlers
          online,      \* Registry: the handler that is the device's entry
          closing,       \* the device a handler is about to Disconnect
          shown,       \* the credential the administrator was shown per device
          box,         \* the clients
          adminCalls, breaks,
          grants, retired   \* history: (code, credential); replaced credentials

storeVars == <<mem, disk, expired, created, fresh>>
idVars == <<mem, disk, expired, created, fresh, hdl, online, closing, shown, box,
            adminCalls, breaks, grants, retired>>

NoCode == "none"
NoHandler == "none"
FreeHandler == [at |-> "free", dev |-> "none", cred |-> 0, code |-> NoCode, issued |-> 0,
                open |-> FALSE, closed |-> FALSE]
\* rtCred and rtCode are the values rt.reg captured when the runtime was built.
DownBox(f) == [at |-> "down", cred |-> 0, code |-> NoCode, rtCred |-> 0, rtCode |-> NoCode,
               issued |-> 0, via |-> NoHandler, file |-> f]
Mishap == breaks < MaxBreaks /\ breaks' = breaks + 1

-----------------------------------------------------------------------------
(* authstore: every operation holds the mutex, persists, and takes the change
   back when persisting fails.  Beyond MaxCreds there is no random secret. *)

pruneExpired(s) == [s EXCEPT !.codes = @ \ expired]

\* What persistLocked does to the file and, when it fails, to memory.
persisted(new, old) ==
  \/ mem' = new /\ disk' = new /\ UNCHANGED breaks
  \/ mem' = old /\ Mishap /\ UNCHANGED disk

CreateEnrollment(c) ==
  /\ c \notin created /\ adminCalls < MaxAdmin
  /\ adminCalls' = adminCalls + 1
  /\ LET pruned == pruneExpired(mem)
     IN persisted([pruned EXCEPT !.codes = @ \cup {c}], pruned)
  /\ created' = IF c \in mem'.codes THEN created \cup {c} ELSE created
  /\ UNCHANGED <<expired, fresh, hdl, online, closing, shown, box, grants, retired>>

Expire(c) ==
  /\ c \in created \ expired /\ adminCalls < MaxAdmin
  /\ adminCalls' = adminCalls + 1
  /\ expired' = expired \cup {c}
  /\ UNCHANGED <<mem, disk, created, fresh, hdl, online, closing, shown, box, breaks, grants, retired>>

\* /admin: the store first, then Registry.Disconnect; the answer after both.
RotateDevice(d) ==
  /\ closing = "none" /\ adminCalls < MaxAdmin /\ mem.cred[d] # 0 /\ fresh < MaxCreds
  /\ adminCalls' = adminCalls + 1
  /\ fresh' = fresh + 1
  /\ persisted([mem EXCEPT !.cred[d] = fresh + 1], mem)
  /\ LET done == mem'.cred[d] = fresh + 1
     IN /\ closing' = IF done THEN d ELSE closing
        /\ shown' = IF done THEN [shown EXCEPT ![d] = fresh + 1] ELSE shown
        /\ retired' = IF done THEN retired \cup {mem.cred[d]} ELSE retired
  /\ UNCHANGED <<expired, created, hdl, online, box, grants>>

RevokeDevice(d) ==
  /\ closing = "none" /\ adminCalls < MaxAdmin /\ mem.cred[d] # 0
  /\ adminCalls' = adminCalls + 1
  /\ persisted([mem EXCEPT !.cred[d] = 0], mem)
  /\ LET done == mem'.cred[d] = 0
     IN /\ closing' = IF done THEN d ELSE closing
        /\ retired' = IF done THEN retired \cup {mem.cred[d]} ELSE retired
  /\ shown' = [shown EXCEPT ![d] = 0]
  /\ UNCHANGED <<expired, created, fresh, hdl, online, box, grants>>

\* Registry.Disconnect closes the adapter; the handler itself goes on.
DisconnectDevice ==
  /\ closing # "none"
  /\ hdl' = [h \in Handlers |->
                IF h = online[closing] THEN [hdl[h] EXCEPT !.closed = TRUE] ELSE hdl[h]]
  /\ closing' = "none"
  /\ UNCHANGED <<storeVars, online, shown, box, adminCalls, breaks, grants, retired>>

-----------------------------------------------------------------------------
(* The client *)

\* main: a credential from the environment is saved, else the file is read.
\* The operator passes the one they were shown, and any code they have.
BootClient(d) ==
  /\ box[d].at = "down"
  /\ \E override \in {0, IF closing = d THEN 0 ELSE shown[d]}, code \in created \cup {NoCode} :
       LET cred == IF override # 0 THEN override ELSE box[d].file
       IN box' = [box EXCEPT ![d] = [DownBox(cred) EXCEPT !.at = "idle", !.cred = cred, !.code = code,
                                                          !.rtCred = cred, !.rtCode = code]]
  /\ UNCHANGED <<storeVars, hdl, online, closing, shown, adminCalls, breaks, grants, retired>>

\* The UI: an enrollment code is put into the state and the runtime rebuilt.
EnterCode(d, c) ==
  /\ box[d].at = "idle" /\ c \in created /\ box[d].code # c
  /\ box' = [box EXCEPT ![d].code = c, ![d].rtCode = c, ![d].rtCred = box[d].cred]
  /\ UNCHANGED <<storeVars, hdl, online, closing, shown, adminCalls, breaks, grants, retired>>

\* Mutant: the registration is the one captured when the runtime was built.
Registration_Captured(b) == [cred |-> b.rtCred, code |-> b.rtCode]

\* The registration is made anew on each connect; an empty state leaves the
\* value captured in rt.reg.
Registration(b) ==
  [cred |-> IF b.cred # 0 THEN b.cred ELSE b.rtCred,
   code |-> IF b.code # NoCode THEN b.code ELSE b.rtCode]

ConnectBox(d, h) ==
  /\ box[d].at = "idle" /\ hdl[h].at = "free"
  /\ hdl' = [hdl EXCEPT ![h] = [FreeHandler EXCEPT !.at = "verify", !.dev = d, !.open = TRUE,
                                    !.cred = Registration(box[d]).cred,
                                    !.code = Registration(box[d]).code]]
  /\ box' = [box EXCEPT ![d].at = "wait", ![d].via = h]
  /\ UNCHANGED <<storeVars, online, closing, shown, adminCalls, breaks, grants, retired>>

\* persistCredential: the file, then memory; a failed save ends the session.
SaveCredential(d) ==
  /\ box[d].at = "accepted"
  /\ \/ /\ box' = [box EXCEPT ![d].file = IF box[d].issued # 0 THEN box[d].issued ELSE @,
                              ![d].at = "saved"]
        /\ UNCHANGED <<hdl, breaks>>
     \/ /\ box[d].issued # 0 /\ Mishap
        /\ box' = [box EXCEPT ![d].at = "idle", ![d].issued = 0, ![d].via = NoHandler]
        /\ hdl' = [hdl EXCEPT ![box[d].via].open = FALSE]
  /\ UNCHANGED <<storeVars, online, closing, shown, adminCalls, grants, retired>>

\* A session whose connection went away meanwhile ends when it reads on.
StoreCredential(d) ==
  /\ box[d].at = "saved"
  /\ LET then == IF box[d].via = NoHandler THEN "idle" ELSE "online"
     IN box' = [box EXCEPT ![d] = IF box[d].issued = 0 THEN [@ EXCEPT !.at = then]
                                  ELSE [@ EXCEPT !.at = then, !.cred = box[d].issued,
                                                 !.code = NoCode, !.issued = 0]]
  /\ UNCHANGED <<storeVars, hdl, online, closing, shown, adminCalls, breaks, grants, retired>>

Detached(d) == [h \in Handlers |-> IF h = box[d].via THEN [hdl[h] EXCEPT !.open = FALSE] ELSE hdl[h]]

\* The connection is lost, or the client's process ends.
LoseConnection(d) ==
  /\ box[d].at \in {"wait", "accepted", "online"} /\ Mishap
  /\ hdl' = Detached(d)
  /\ box' = [box EXCEPT ![d].at = "idle", ![d].issued = 0, ![d].via = NoHandler]
  /\ UNCHANGED <<storeVars, online, closing, shown, adminCalls, grants, retired>>

CrashClient(d) ==
  /\ box[d].at # "down" /\ Mishap
  /\ hdl' = Detached(d)
  /\ box' = [box EXCEPT ![d] = DownBox(box[d].file)]
  /\ UNCHANGED <<storeVars, online, closing, shown, adminCalls, grants, retired>>

\* The operator restarts the client with the credential they were shown.
StopClient(d) ==
  /\ box[d].at = "online" /\ shown[d] \notin {0, box[d].cred} /\ closing # d
  /\ hdl' = Detached(d)
  /\ box' = [box EXCEPT ![d] = DownBox(box[d].file)]
  /\ UNCHANGED <<storeVars, online, closing, shown, adminCalls, breaks, grants, retired>>

-----------------------------------------------------------------------------
(* Connect, up to the acknowledgement *)

VerifyDevice(h) ==
  /\ hdl[h].at = "verify"
  /\ hdl' = [hdl EXCEPT ![h].at =
                IF hdl[h].cred # 0 /\ mem.cred[hdl[h].dev] = hdl[h].cred THEN "account" ELSE "enroll"]
  /\ UNCHANGED <<storeVars, online, closing, shown, box, adminCalls, breaks, grants, retired>>

\* Mutant: the code stays valid until it expires.
EnrollDevice_KeepsCode(h) ==
  /\ hdl[h].at = "enroll"
  /\ LET d == hdl[h].dev
         pruned == pruneExpired(mem)
         ok == hdl[h].code \in pruned.codes /\ mem.cred[d] = 0 /\ fresh < MaxCreds
     IN IF ok
        THEN /\ persisted([codes |-> pruned.codes,
                           cred |-> [mem.cred EXCEPT ![d] = fresh + 1]], pruned)
             /\ LET done == mem'.cred[d] # 0
                IN /\ hdl' = [hdl EXCEPT ![h].at = IF done THEN "account" ELSE "rejected",
                                           ![h].issued = IF done THEN fresh + 1 ELSE 0]
                   /\ grants' = IF done THEN grants \cup {<<hdl[h].code, fresh + 1>>} ELSE grants
             /\ fresh' = fresh + 1
        ELSE /\ mem' = pruned /\ hdl' = [hdl EXCEPT ![h].at = "rejected"]
             /\ UNCHANGED <<disk, breaks, fresh, grants>>
  /\ UNCHANGED <<expired, created, online, closing, shown, box, adminCalls, retired>>

\* The code is consumed and the device added in one change of the store.
EnrollDevice(h) ==
  /\ hdl[h].at = "enroll"
  /\ LET d == hdl[h].dev
         pruned == pruneExpired(mem)
         ok == hdl[h].code \in pruned.codes /\ mem.cred[d] = 0 /\ fresh < MaxCreds
     IN IF ok
        THEN /\ persisted([codes |-> pruned.codes \ {hdl[h].code},
                           cred |-> [mem.cred EXCEPT ![d] = fresh + 1]], pruned)
             /\ LET done == mem'.cred[d] # 0
                IN /\ hdl' = [hdl EXCEPT ![h].at = IF done THEN "account" ELSE "rejected",
                                           ![h].issued = IF done THEN fresh + 1 ELSE 0]
                   /\ grants' = IF done THEN grants \cup {<<hdl[h].code, fresh + 1>>} ELSE grants
             /\ fresh' = fresh + 1
        ELSE /\ mem' = pruned /\ hdl' = [hdl EXCEPT ![h].at = "rejected"]
             /\ UNCHANGED <<disk, breaks, fresh, grants>>
  /\ UNCHANGED <<expired, created, online, closing, shown, box, adminCalls, retired>>

DeviceAccount(h) ==
  /\ hdl[h].at = "account"
  /\ hdl' = [hdl EXCEPT ![h].at = IF mem.cred[hdl[h].dev] # 0 THEN "put" ELSE "rejected"]
  /\ UNCHANGED <<storeVars, online, closing, shown, box, adminCalls, breaks, grants, retired>>

\* Registry.Put: an entry that is there is closed.
PutDevice(h) ==
  /\ hdl[h].at = "put"
  /\ hdl' = [g \in Handlers |->
                CASE g = h -> [hdl[g] EXCEPT !.at = "ack"]
                  [] g # h /\ g = online[hdl[h].dev] -> [hdl[g] EXCEPT !.closed = TRUE]
                  [] OTHER -> hdl[g]]
  /\ online' = [online EXCEPT ![hdl[h].dev] = h]
  /\ UNCHANGED <<storeVars, closing, shown, box, adminCalls, breaks, grants, retired>>

\* The acknowledgement reaches the client, unless the adapter was closed.
Acknowledge(h) ==
  /\ hdl[h].at = "ack"
  /\ hdl' = [hdl EXCEPT ![h].at = "live"]
  /\ \/ /\ hdl[h].open
        /\ box' = [box EXCEPT ![hdl[h].dev].at = "accepted", ![hdl[h].dev].issued = hdl[h].issued]
     \/ (~hdl[h].open \/ hdl[h].closed) /\ UNCHANGED box
  /\ UNCHANGED <<storeVars, online, closing, shown, adminCalls, breaks, grants, retired>>

Freed(h) ==
  /\ hdl' = [hdl EXCEPT ![h] = FreeHandler]
  /\ online' = [d \in Boxes |-> IF online[d] = h THEN NoHandler ELSE online[d]]

Reject(h) ==
  /\ hdl[h].at = "rejected"
  /\ box' = IF hdl[h].open THEN [box EXCEPT ![hdl[h].dev].at = "idle", ![hdl[h].dev].via = NoHandler]
            ELSE box
  /\ Freed(h)
  /\ UNCHANGED <<storeVars, closing, shown, adminCalls, breaks, grants, retired>>

\* The handler sees that its stream ended.
EndHandler(h) ==
  /\ hdl[h].at = "live" /\ ~hdl[h].open
  /\ Freed(h)
  /\ UNCHANGED <<storeVars, closing, shown, box, adminCalls, breaks, grants, retired>>

\* No heartbeat for 45 seconds: the client never got its acknowledgement.
HeartbeatTimeout(h) ==
  /\ hdl[h].at = "live" /\ hdl[h].open /\ box[hdl[h].dev].at = "wait"
  /\ Freed(h)
  /\ box' = [box EXCEPT ![hdl[h].dev].at = "idle", ![hdl[h].dev].via = NoHandler]
  /\ UNCHANGED <<storeVars, closing, shown, adminCalls, breaks, grants, retired>>

\* The Manager's process ends and reads its file again.
RestartManager ==
  /\ Mishap
  /\ mem' = disk
  /\ hdl' = [h \in Handlers |-> FreeHandler]
  /\ online' = [d \in Boxes |-> NoHandler]
  /\ closing' = "none"
  /\ shown' = IF closing = "none" THEN shown ELSE [shown EXCEPT ![closing] = 0]
  /\ box' = [d \in Boxes |-> IF box[d].at \in {"wait", "accepted", "online"}
                               THEN [box[d] EXCEPT !.at = "idle", !.via = NoHandler, !.issued = 0]
                               ELSE [box[d] EXCEPT !.via = NoHandler]]
  /\ UNCHANGED <<disk, expired, created, fresh, adminCalls, grants, retired>>

-----------------------------------------------------------------------------
IdIdle ==
  /\ mem = [cred |-> [d \in Boxes |-> 0], codes |-> {}] /\ disk = mem
  /\ expired = {} /\ created = {} /\ fresh = 0
  /\ hdl = [h \in Handlers |-> FreeHandler] /\ online = [d \in Boxes |-> NoHandler]
  /\ closing = "none" /\ shown = [d \in Boxes |-> 0]
  /\ adminCalls = 0 /\ breaks = 0 /\ grants = {} /\ retired = {}
IdInit == IdIdle /\ box = [d \in Boxes |-> DownBox(0)]

HandlerStep(h) == VerifyDevice(h) \/ EnrollDevice(h) \/ DeviceAccount(h) \/ PutDevice(h)
                  \/ Acknowledge(h) \/ Reject(h) \/ EndHandler(h) \/ HeartbeatTimeout(h)
ClientStep(d) == BootClient(d) \/ (\E h \in Handlers : ConnectBox(d, h)) \/ SaveCredential(d)
                 \/ StoreCredential(d)

IdNext ==
  \/ \E c \in Codes : CreateEnrollment(c) \/ Expire(c)
  \/ \E d \in Boxes : RotateDevice(d) \/ RevokeDevice(d)
  \/ DisconnectDevice
  \/ \E d \in Boxes : ClientStep(d) \/ LoseConnection(d) \/ CrashClient(d) \/ StopClient(d)
  \/ \E d \in Boxes, c \in Codes : EnterCode(d, c)
  \/ \E h \in Handlers : HandlerStep(h)
  \/ RestartManager

IdSpec == IdInit /\ [][IdNext]_idVars

\* Goroutines are scheduled and the client reconnects until it is told to stop.
IdFairness ==
  /\ \A h \in Handlers : WF_idVars(HandlerStep(h))
  /\ \A d \in Boxes : WF_idVars(ClientStep(d))
  /\ WF_idVars(DisconnectDevice)
-----------------------------------------------------------------------------
(* Properties *)

\* "consumes an enrollment code exactly once": also when the Manager ends
\* between two steps, a save fails, or two clients present the code at once.
OneEnrolmentPerCode == \A g, k \in grants : g[1] = k[1] => g = k

\* A credential that was issued or shown and not replaced since is the one the
\* Manager knows, in memory and in its file: no failed save, crash or
\* concurrent registration leaves a client with one that cannot be used.
IssuedVerifies ==
  \A d \in Boxes :
    LET held == {box[d].file, box[d].cred, box[d].issued, shown[d]}
                  \cup {hdl[h].issued : h \in {g \in Handlers : hdl[g].dev = d}}
    IN \A k \in held \ (retired \cup {0}) : mem.cred[d] = k /\ disk.cred[d] = k

\* A credential in use survives the client's process: it is in the file.
CredentialDurable ==
  \A d \in Boxes : box[d].cred # 0 /\ box[d].at # "saved" => box[d].file = box[d].cred

\* Once nothing breaks any more, a client with the current credential gets a
\* session: what it enrolled with earlier does not stand in its way.
ClientSettles ==
  <>[](\A d \in Boxes : box[d].cred # 0 /\ box[d].cred = mem.cred[d] => box[d].at = "online")

\* "prevents a successful enrollment from being lost if the connection drops
\* immediately afterwards": a device the Manager enrolled has its credential
\* in the client's file, on the way, or with the administrator.
EnrolmentNotLost ==
  \A d \in Boxes : mem.cred[d] # 0 =>
    \/ mem.cred[d] \in {box[d].file, box[d].issued, shown[d]}
    \/ \E h \in Handlers : hdl[h].open /\ hdl[h].issued = mem.cred[d]
=============================================================================
