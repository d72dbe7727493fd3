---------------------------- MODULE Access_proofs ----------------------------
(***************************************************************************)
(* Proofs about what may be reached: which devices may connect, through    *)
(* enrolment and credentials, and which of their tools a request may call. *)
(* They hold for any devices, codes, handlers, requests and policies, and  *)
(* through crashes of either side, lost connections, failed saves and      *)
(* calls of the administrator in any order.  The two parts have their own  *)
(* variables and assume nothing of each other.                             *)
(***************************************************************************)
EXTENDS DeviceIdentity, McpGateway, TLAPS

(* Enrolment and credentials *)

\* The shape of the state: what is a function of what, and the fields of its
\* records.
Stores == [cred : [Boxes -> Nat], codes : SUBSET Codes]
StoreOK == mem \in Stores /\ disk \in Stores /\ fresh \in Nat /\ created \subseteq Codes
HandlersOK ==
  /\ hdl = [h \in Handlers |-> hdl[h]]
  /\ \A h \in Handlers : /\ DOMAIN hdl[h] = DOMAIN FreeHandler
                         /\ hdl[h].at # "free" => hdl[h].dev \in Boxes
BoxesOK ==
  /\ box = [d \in Boxes |-> box[d]]
  /\ \A d \in Boxes : DOMAIN box[d] = DOMAIN DownBox(0)
ShownOK == shown \in [Boxes -> Nat]

\* A code that was used is in neither copy of the store any more, and what is
\* in a copy was shown to the administrator: so a code that is made is new.
UsedCodes ==
  /\ mem.codes \subseteq created /\ disk.codes \subseteq created
  /\ \A g \in grants : g[1] \in created /\ g[1] \notin mem.codes /\ g[1] \notin disk.codes
  /\ OneEnrolmentPerCode

\* A credential somebody has for a device is none, a replaced one, or the one
\* the Manager knows.
Held(d, k) == k = 0 \/ k \in retired \/ k = mem.cred[d]
BoxHolds ==
  \A d \in Boxes : Held(d, box[d].file) /\ Held(d, box[d].cred) /\ Held(d, box[d].issued)
AdminHolds == \A d \in Boxes : Held(d, shown[d])
HandlersHold == \A h \in Handlers : hdl[h].dev \in Boxes => Held(hdl[h].dev, hdl[h].issued)

\* An open connection is the one its client is on, and the client waits until
\* the handler is through.
Linked ==
  \A h \in Handlers : hdl[h].open =>
    /\ hdl[h].at # "free" /\ box[hdl[h].dev].via = h
    /\ box[hdl[h].dev].at \notin {"down", "idle"}
    /\ hdl[h].at # "live" => box[hdl[h].dev].at = "wait"
\* Between the save and the store it is the issued credential that is in the file.
Saved ==
  \A d \in Boxes :
    LET b == box[d]
        used == IF b.at = "saved" /\ b.issued # 0 THEN b.issued ELSE b.cred
    IN used # 0 => b.file = used

IdInv ==
  /\ StoreOK /\ HandlersOK /\ BoxesOK /\ ShownOK
  /\ mem.cred = disk.cred
  /\ UsedCodes /\ BoxHolds /\ AdminHolds /\ HandlersHold
  /\ Linked /\ Saved

\* A step that does not touch the store keeps what is said of it.
LEMMA StoreFrame ==
  ASSUME IdInv, UNCHANGED <<storeVars, grants, retired>>
  PROVE  /\ StoreOK' /\ UsedCodes' /\ mem'.cred = disk'.cred
         /\ \A d, k : Held(d, k)' <=> Held(d, k)
<1>1. StoreOK' /\ mem'.cred = disk'.cred
  BY Zenon DEF IdInv, StoreOK, storeVars
<1>2. UsedCodes'
  BY Zenon DEF IdInv, UsedCodes, OneEnrolmentPerCode, storeVars
<1>. QED
  BY <1>1, <1>2, Zenon DEF Held, storeVars

\* Where a credential the client has after a step comes from, and a handler's.
BoxSources ==
  \A d \in Boxes : {box'[d].file, box'[d].cred, box'[d].issued} \subseteq
    {0, box[d].file, box[d].cred, box[d].issued, shown[d]}
      \cup {hdl[h].issued : h \in {g \in Handlers : hdl[g].dev = d}}
IssuedKept ==
  \A h \in Handlers : \/ hdl'[h].issued = 0
                      \/ hdl'[h].issued = hdl[h].issued /\ hdl'[h].dev = hdl[h].dev

\* A step of the client or of a handler that does not touch the store, nor what
\* the administrator was shown.
LEMMA QuietStep ==
  ASSUME IdInv, UNCHANGED <<storeVars, grants, retired, shown>>,
         HandlersOK', BoxesOK', Linked', Saved', BoxSources, IssuedKept
  PROVE  IdInv'
<1>0. /\ StoreOK' /\ UsedCodes' /\ mem'.cred = disk'.cred
      /\ \A d, k : Held(d, k)' <=> Held(d, k)
  BY StoreFrame, Zenon
<1>1. ShownOK' /\ AdminHolds'
  BY <1>0, Zenon DEF IdInv, ShownOK, AdminHolds
<1>2. BoxHolds'
  <2>. SUFFICES ASSUME NEW d \in Boxes,
                       NEW k \in {box'[d].file, box'[d].cred, box'[d].issued}
                PROVE  Held(d, k)
    BY <1>0, Zenon DEF BoxHolds
  <2>1. CASE k = 0
    BY <2>1, Zenon DEF Held
  <2>2. CASE k \in {box[d].file, box[d].cred, box[d].issued}
    BY <2>2, Zenon DEF IdInv, BoxHolds
  <2>3. CASE k = shown[d]
    BY <2>3, Zenon DEF IdInv, AdminHolds
  <2>4. ASSUME NEW h \in Handlers, hdl[h].dev = d, k = hdl[h].issued PROVE Held(d, k)
    BY <2>4, Zenon DEF IdInv, HandlersHold
  <2>. QED
    BY <2>1, <2>2, <2>3, <2>4 DEF BoxSources
<1>3. HandlersHold'
  <2>. SUFFICES ASSUME NEW h \in Handlers, hdl'[h].dev \in Boxes
                PROVE  Held(hdl'[h].dev, hdl'[h].issued)
    BY <1>0, Zenon DEF HandlersHold
  <2>1. CASE hdl'[h].issued = 0
    BY <2>1, Zenon DEF Held
  <2>2. CASE hdl'[h].issued = hdl[h].issued /\ hdl'[h].dev = hdl[h].dev
    BY <2>2, Zenon DEF IdInv, HandlersHold
  <2>. QED
    BY <2>1, <2>2, Zenon DEF IssuedKept
<1>. QED
  BY <1>0, <1>1, <1>2, <1>3, Zenon DEF IdInv

\* main: the credential of the environment or of the file.
LEMMA BootStep ==
  ASSUME IdInv, NEW d \in Boxes, BootClient(d)
  PROVE  IdInv'
<1>. USE IdentityAssumption DEF NoHandler, NoCode
<1>0. HandlersOK /\ BoxesOK /\ StoreOK /\ Linked /\ Saved
  BY Zenon DEF IdInv
<1>1. HandlersOK'
  BY <1>0, Zenon DEF BootClient, HandlersOK, BoxesOK, FreeHandler
<1>2. BoxesOK'
  BY <1>0, SMTT(30) DEF BootClient, HandlersOK, BoxesOK, DownBox
<1>3. Linked'
  BY <1>0 DEF BootClient, Linked, HandlersOK, BoxesOK, FreeHandler, DownBox
<1>4. Saved'
  BY <1>0 DEF BootClient, Saved, Linked, HandlersOK, BoxesOK, DownBox
<1>5. IssuedKept
  BY <1>0, Zenon DEF BootClient, IssuedKept, HandlersOK, FreeHandler
<1>6. BoxSources
  BY <1>0 DEF BootClient, BoxSources, HandlersOK, BoxesOK, DownBox
<1>. QED
  BY <1>1, <1>2, <1>3, <1>4, <1>5, <1>6, QuietStep, Zenon DEF BootClient, storeVars

\* A code entered in the UI.
LEMMA EnterStep ==
  ASSUME IdInv, NEW d \in Boxes, NEW c \in Codes, EnterCode(d, c)
  PROVE  IdInv'
<1>. USE IdentityAssumption DEF NoHandler, NoCode
<1>0. HandlersOK /\ BoxesOK /\ StoreOK /\ Linked /\ Saved
  BY Zenon DEF IdInv
<1>1. HandlersOK'
  BY <1>0, Zenon DEF EnterCode, HandlersOK, BoxesOK, FreeHandler
<1>2. BoxesOK'
  BY <1>0, Zenon DEF EnterCode, HandlersOK, BoxesOK, DownBox
<1>3. Linked'
  BY <1>0, Zenon DEF EnterCode, Linked, HandlersOK, BoxesOK, FreeHandler, DownBox
<1>4. Saved'
  BY <1>0 DEF EnterCode, Saved, Linked, HandlersOK, BoxesOK, DownBox
<1>5. IssuedKept
  BY <1>0, Zenon DEF EnterCode, IssuedKept, HandlersOK, FreeHandler
<1>6. BoxSources
  BY <1>0, ZenonT(60) DEF EnterCode, BoxSources, HandlersOK, BoxesOK, DownBox
<1>. QED
  BY <1>1, <1>2, <1>3, <1>4, <1>5, <1>6, QuietStep, Zenon DEF EnterCode, storeVars

\* A client without an open connection gets a handler.
LEMMA ConnectStep ==
  ASSUME IdInv, NEW d \in Boxes, NEW h \in Handlers, ConnectBox(d, h)
  PROVE  IdInv'
<1>. USE IdentityAssumption DEF NoHandler, NoCode
<1>0. HandlersOK /\ BoxesOK /\ StoreOK /\ Linked /\ Saved
  BY Zenon DEF IdInv
<1>1. HandlersOK'
  BY <1>0, Zenon DEF ConnectBox, Registration, HandlersOK, BoxesOK, FreeHandler
<1>2. BoxesOK'
  BY <1>0, Zenon DEF ConnectBox, Registration, HandlersOK, BoxesOK, DownBox
<1>3. Linked'
  BY <1>0 DEF ConnectBox, Registration, Linked, HandlersOK, BoxesOK, FreeHandler, DownBox
<1>4. Saved'
  BY <1>0 DEF ConnectBox, Registration, Saved, Linked, HandlersOK, BoxesOK, DownBox
<1>5. IssuedKept
  BY <1>0, Zenon DEF ConnectBox, Registration, IssuedKept, HandlersOK, FreeHandler
<1>6. BoxSources
  BY <1>0 DEF ConnectBox, Registration, BoxSources, HandlersOK, BoxesOK, DownBox
<1>. QED
  BY <1>1, <1>2, <1>3, <1>4, <1>5, <1>6, QuietStep, Zenon DEF ConnectBox, storeVars

\* persistCredential, the file: saved, or the session ends.
LEMMA SaveStep ==
  ASSUME IdInv, NEW d \in Boxes, SaveCredential(d)
  PROVE  IdInv'
<1>. USE IdentityAssumption DEF NoHandler, NoCode
<1>0. HandlersOK /\ BoxesOK /\ StoreOK /\ Linked /\ Saved
  BY Zenon DEF IdInv
<1>1. HandlersOK'
  <2>1. hdl' = hdl \/ hdl' = [hdl EXCEPT ![box[d].via].open = FALSE]
    BY Zenon DEF SaveCredential
  <2> QED
    BY <1>0, <2>1 DEF HandlersOK, FreeHandler
<1>2. BoxesOK'
  BY <1>0, Zenon DEF SaveCredential, HandlersOK, BoxesOK, DownBox
<1>3. Linked'
  BY <1>0 DEF SaveCredential, Linked, HandlersOK, BoxesOK, FreeHandler, DownBox
<1>a. /\ \A e \in Boxes \ {d} : box'[e] = box[e]
      /\ box'[d].cred = box[d].cred /\ box[d].at # "saved"
      /\ \/ /\ box'[d].at = "saved" /\ box'[d].issued = box[d].issued
            /\ box'[d].file = IF box[d].issued # 0 THEN box[d].issued ELSE box[d].file
         \/ box'[d].at = "idle" /\ box'[d].issued = 0 /\ box'[d].file = box[d].file
  <2>1. CASE box' = [box EXCEPT ![d].file = IF box[d].issued # 0 THEN box[d].issued ELSE @,
                                ![d].at = "saved"]
    <3>. DEFINE f == IF box[d].issued # 0 THEN box[d].issued ELSE box[d].file
    <3>1. box' = [box EXCEPT ![d].file = f, ![d].at = "saved"]
      BY <2>1, Zenon
    <3>. HIDE DEF f
    <3>2. /\ \A e \in Boxes \ {d} : box'[e] = box[e]
          /\ box'[d].cred = box[d].cred /\ box'[d].issued = box[d].issued
          /\ box'[d].at = "saved" /\ box'[d].file = f
      BY <1>0, <3>1, Zenon DEF BoxesOK, DownBox
    <3>. QED
      BY <3>2, Zenon DEF SaveCredential, f
  <2>2. CASE box' = [box EXCEPT ![d].at = "idle", ![d].issued = 0, ![d].via = NoHandler]
    BY <1>0, <2>2, Zenon DEF SaveCredential, BoxesOK, DownBox
  <2>. QED
    BY <2>1, <2>2, Zenon DEF SaveCredential
<1>4. Saved'
  <2>1. \A e \in Boxes \ {d} : Saved!(e)'
    BY <1>0, <1>a, Zenon DEF Saved
  <2>2. Saved!(d)'
    BY <1>0, <1>a, Zenon DEF Saved
  <2>. QED
    BY <2>1, <2>2, Zenon DEF Saved
<1>5. IssuedKept
  <2>1. hdl' = hdl \/ hdl' = [hdl EXCEPT ![box[d].via].open = FALSE]
    BY Zenon DEF SaveCredential
  <2>. QED
    BY <1>0, <2>1, SMTT(30) DEF IssuedKept, HandlersOK, FreeHandler
<1>6. BoxSources
  BY <1>a, Zenon DEF BoxSources
<1>. QED
  BY <1>1, <1>2, <1>3, <1>4, <1>5, <1>6, QuietStep, Zenon DEF SaveCredential, storeVars

\* persistCredential, the state: only what is in the file is used.
LEMMA StoreStep ==
  ASSUME IdInv, NEW d \in Boxes, StoreCredential(d)
  PROVE  IdInv'
<1>. USE IdentityAssumption DEF NoHandler, NoCode
<1>0. HandlersOK /\ BoxesOK /\ StoreOK /\ Linked /\ Saved
  BY Zenon DEF IdInv
<1>1. HandlersOK'
  BY <1>0, Zenon DEF StoreCredential, HandlersOK, BoxesOK, FreeHandler
<1>2. BoxesOK'
  BY <1>0, Zenon DEF StoreCredential, HandlersOK, BoxesOK, DownBox
<1>3. Linked'
  BY <1>0 DEF StoreCredential, Linked, HandlersOK, BoxesOK, FreeHandler, DownBox
<1>4. Saved'
  BY <1>0 DEF StoreCredential, Saved, Linked, HandlersOK, BoxesOK, DownBox
<1>5. IssuedKept
  BY <1>0, Zenon DEF StoreCredential, IssuedKept, HandlersOK, FreeHandler
<1>6. BoxSources
  BY <1>0 DEF StoreCredential, BoxSources, HandlersOK, BoxesOK, DownBox
<1>. QED
  BY <1>1, <1>2, <1>3, <1>4, <1>5, <1>6, QuietStep, Zenon DEF StoreCredential, storeVars

\* A lost connection drops an issued credential that was not saved.
LEMMA LoseStep ==
  ASSUME IdInv, NEW d \in Boxes, LoseConnection(d)
  PROVE  IdInv'
<1>. USE IdentityAssumption DEF NoHandler, NoCode
<1>0. HandlersOK /\ BoxesOK /\ StoreOK /\ Linked /\ Saved
  BY Zenon DEF IdInv
<1>1. HandlersOK'
  BY <1>0, Zenon DEF LoseConnection, Detached, HandlersOK, BoxesOK, FreeHandler
<1>2. BoxesOK'
  BY <1>0, Zenon DEF LoseConnection, Detached, HandlersOK, BoxesOK, DownBox
<1>3. Linked'
  BY <1>0 DEF LoseConnection, Detached, Linked, HandlersOK, BoxesOK, FreeHandler, DownBox
<1>4. Saved'
  BY <1>0 DEF LoseConnection, Detached, Saved, Linked, HandlersOK, BoxesOK, DownBox
<1>5. IssuedKept
  BY <1>0, Zenon DEF LoseConnection, Detached, IssuedKept, HandlersOK, FreeHandler
<1>6. BoxSources
  BY <1>0 DEF LoseConnection, Detached, BoxSources, HandlersOK, BoxesOK, DownBox
<1>. QED
  BY <1>1, <1>2, <1>3, <1>4, <1>5, <1>6, QuietStep, Zenon DEF LoseConnection, storeVars

\* The client's process ends: only the file is left.
LEMMA CrashStep ==
  ASSUME IdInv, NEW d \in Boxes, CrashClient(d)
  PROVE  IdInv'
<1>. USE IdentityAssumption DEF NoHandler, NoCode
<1>0. HandlersOK /\ BoxesOK /\ StoreOK /\ Linked /\ Saved
  BY Zenon DEF IdInv
<1>1. HandlersOK'
  BY <1>0, Zenon DEF CrashClient, Detached, HandlersOK, BoxesOK, FreeHandler
<1>2. BoxesOK'
  BY <1>0, Zenon DEF CrashClient, Detached, HandlersOK, BoxesOK, DownBox
<1>3. Linked'
  BY <1>0 DEF CrashClient, Detached, Linked, HandlersOK, BoxesOK, FreeHandler, DownBox
<1>4. Saved'
  BY <1>0, Zenon DEF CrashClient, Detached, Saved, Linked, HandlersOK, BoxesOK, DownBox
<1>5. IssuedKept
  BY <1>0, Zenon DEF CrashClient, Detached, IssuedKept, HandlersOK, FreeHandler
<1>6. BoxSources
  BY <1>0, Zenon DEF CrashClient, Detached, BoxSources, HandlersOK, BoxesOK, DownBox
<1>. QED
  BY <1>1, <1>2, <1>3, <1>4, <1>5, <1>6, QuietStep, Zenon DEF CrashClient, storeVars

\* The operator stops the client.
LEMMA StopStep ==
  ASSUME IdInv, NEW d \in Boxes, StopClient(d)
  PROVE  IdInv'
<1>. USE IdentityAssumption DEF NoHandler, NoCode
<1>0. HandlersOK /\ BoxesOK /\ StoreOK /\ Linked /\ Saved
  BY Zenon DEF IdInv
<1>1. HandlersOK'
  BY <1>0, Zenon DEF StopClient, Detached, HandlersOK, BoxesOK, FreeHandler
<1>2. BoxesOK'
  BY <1>0, Zenon DEF StopClient, Detached, HandlersOK, BoxesOK, DownBox
<1>3. Linked'
  BY <1>0 DEF StopClient, Detached, Linked, HandlersOK, BoxesOK, FreeHandler, DownBox
<1>4. Saved'
  BY <1>0, Zenon DEF StopClient, Detached, Saved, Linked, HandlersOK, BoxesOK, DownBox
<1>5. IssuedKept
  BY <1>0, Zenon DEF StopClient, Detached, IssuedKept, HandlersOK, FreeHandler
<1>6. BoxSources
  BY <1>0, Zenon DEF StopClient, Detached, BoxSources, HandlersOK, BoxesOK, DownBox
<1>. QED
  BY <1>1, <1>2, <1>3, <1>4, <1>5, <1>6, QuietStep, Zenon DEF StopClient, storeVars

\* VerifyDevice reads the store.
LEMMA VerifyStep ==
  ASSUME IdInv, NEW h \in Handlers, VerifyDevice(h)
  PROVE  IdInv'
<1>. USE IdentityAssumption DEF NoHandler, NoCode
<1>0. HandlersOK /\ BoxesOK /\ StoreOK /\ Linked /\ Saved
  BY Zenon DEF IdInv
<1>1. HandlersOK'
  BY <1>0, Zenon DEF VerifyDevice, HandlersOK, BoxesOK, FreeHandler
<1>2. BoxesOK'
  BY <1>0, Zenon DEF VerifyDevice, HandlersOK, BoxesOK, DownBox
<1>3. Linked'
  BY <1>0 DEF VerifyDevice, Linked, HandlersOK, BoxesOK, FreeHandler, DownBox
<1>4. Saved'
  BY <1>0, Zenon DEF VerifyDevice, Saved, Linked, HandlersOK, BoxesOK, DownBox
<1>5. IssuedKept
  BY <1>0, Zenon DEF VerifyDevice, IssuedKept, HandlersOK, FreeHandler
<1>6. BoxSources
  BY <1>0, Zenon DEF VerifyDevice, BoxSources, HandlersOK, BoxesOK, DownBox
<1>. QED
  BY <1>1, <1>2, <1>3, <1>4, <1>5, <1>6, QuietStep, Zenon DEF VerifyDevice, storeVars

\* DeviceAccount reads the store.
LEMMA AccountStep ==
  ASSUME IdInv, NEW h \in Handlers, DeviceAccount(h)
  PROVE  IdInv'
<1>. USE IdentityAssumption DEF NoHandler, NoCode
<1>0. HandlersOK /\ BoxesOK /\ StoreOK /\ Linked /\ Saved
  BY Zenon DEF IdInv
<1>1. HandlersOK'
  BY <1>0, Zenon DEF DeviceAccount, HandlersOK, BoxesOK, FreeHandler
<1>2. BoxesOK'
  BY <1>0, Zenon DEF DeviceAccount, HandlersOK, BoxesOK, DownBox
<1>3. Linked'
  BY <1>0 DEF DeviceAccount, Linked, HandlersOK, BoxesOK, FreeHandler, DownBox
<1>4. Saved'
  BY <1>0, Zenon DEF DeviceAccount, Saved, Linked, HandlersOK, BoxesOK, DownBox
<1>5. IssuedKept
  BY <1>0, Zenon DEF DeviceAccount, IssuedKept, HandlersOK, FreeHandler
<1>6. BoxSources
  BY <1>0, Zenon DEF DeviceAccount, BoxSources, HandlersOK, BoxesOK, DownBox
<1>. QED
  BY <1>1, <1>2, <1>3, <1>4, <1>5, <1>6, QuietStep, Zenon DEF DeviceAccount, storeVars

\* Registry.Put closes the entry it replaces.
LEMMA PutStep ==
  ASSUME IdInv, NEW h \in Handlers, PutDevice(h)
  PROVE  IdInv'
<1>. USE IdentityAssumption DEF NoHandler, NoCode
<1>0. HandlersOK /\ BoxesOK /\ StoreOK /\ Linked /\ Saved
  BY Zenon DEF IdInv
<1>1. HandlersOK'
  BY <1>0, Zenon DEF PutDevice, HandlersOK, BoxesOK, FreeHandler
<1>2. BoxesOK'
  BY <1>0, Zenon DEF PutDevice, HandlersOK, BoxesOK, DownBox
<1>3. Linked'
  BY <1>0 DEF PutDevice, Linked, HandlersOK, BoxesOK, FreeHandler, DownBox
<1>4. Saved'
  BY <1>0, Zenon DEF PutDevice, Saved, Linked, HandlersOK, BoxesOK, DownBox
<1>5. IssuedKept
  BY <1>0, Zenon DEF PutDevice, IssuedKept, HandlersOK, FreeHandler
<1>6. BoxSources
  BY <1>0, Zenon DEF PutDevice, BoxSources, HandlersOK, BoxesOK, DownBox
<1>. QED
  BY <1>1, <1>2, <1>3, <1>4, <1>5, <1>6, QuietStep, Zenon DEF PutDevice, storeVars

\* The acknowledgement carries the issued credential to its own client, which
\* was waiting for it.
LEMMA AckStep ==
  ASSUME IdInv, NEW h \in Handlers, Acknowledge(h)
  PROVE  IdInv'
<1>. USE IdentityAssumption DEF NoHandler, NoCode
<1>0. HandlersOK /\ BoxesOK /\ StoreOK /\ Linked /\ Saved
  BY Zenon DEF IdInv
<1>1. HandlersOK'
  BY <1>0, Zenon DEF Acknowledge, HandlersOK, BoxesOK, FreeHandler
<1>2. BoxesOK'
  BY <1>0, ZenonT(60) DEF Acknowledge, HandlersOK, BoxesOK, DownBox
<1>b. hdl[h].dev \in Boxes
  BY <1>0, Zenon DEF Acknowledge, HandlersOK
<1>c. \A g \in Handlers : /\ hdl'[g].open = hdl[g].open /\ hdl'[g].dev = hdl[g].dev
                          /\ hdl'[g].at = IF g = h THEN "live" ELSE hdl[g].at
  BY <1>0, Zenon DEF Acknowledge, HandlersOK, FreeHandler
<1>d. \/ box' = box /\ (hdl[h].open => hdl[h].closed)
      \/ /\ hdl[h].open /\ \A e \in Boxes \ {hdl[h].dev} : box'[e] = box[e]
         /\ box'[hdl[h].dev].at = "accepted" /\ box'[hdl[h].dev].issued = hdl[h].issued
         /\ box'[hdl[h].dev].via = box[hdl[h].dev].via
         /\ box'[hdl[h].dev].cred = box[hdl[h].dev].cred
         /\ box'[hdl[h].dev].file = box[hdl[h].dev].file
  BY <1>0, <1>b DEF Acknowledge, BoxesOK, DownBox
<1>3. Linked'
  BY <1>0, <1>b, <1>c, <1>d DEF Linked, HandlersOK
<1>e. hdl[h].open => box[hdl[h].dev].at = "wait"
  BY <1>0, Zenon DEF Linked, Acknowledge
<1>4. Saved'
  <2>1. \A e \in Boxes : \/ box'[e] = box[e]
                         \/ /\ box[e].at = "wait" /\ box'[e].at = "accepted"
                            /\ box'[e].cred = box[e].cred /\ box'[e].file = box[e].file
    BY <1>b, <1>d, <1>e, Zenon
  <2>. QED
    BY <1>0, <2>1, ZenonT(60) DEF Saved
<1>5. IssuedKept
  BY <1>0, Zenon DEF Acknowledge, IssuedKept, HandlersOK, FreeHandler
<1>6. BoxSources
  BY <1>b, <1>d, ZenonT(60) DEF BoxSources
<1>. QED
  BY <1>1, <1>2, <1>3, <1>4, <1>5, <1>6, QuietStep, Zenon DEF Acknowledge, storeVars

\* A rejected registration ends.
LEMMA RejectStep ==
  ASSUME IdInv, NEW h \in Handlers, Reject(h)
  PROVE  IdInv'
<1>. USE IdentityAssumption DEF NoHandler, NoCode
<1>0. HandlersOK /\ BoxesOK /\ StoreOK /\ Linked /\ Saved
  BY Zenon DEF IdInv
<1>1. HandlersOK'
  BY <1>0, Zenon DEF Reject, Freed, HandlersOK, BoxesOK, FreeHandler
<1>2. BoxesOK'
  BY <1>0, Zenon DEF Reject, Freed, HandlersOK, BoxesOK, DownBox
<1>3. Linked'
  <2>1. ASSUME NEW g \in Handlers, hdl'[g].open
        PROVE  g # h /\ hdl'[g] = hdl[g] /\ hdl[g].open
    <3>1. hdl' = [hdl EXCEPT ![h] = FreeHandler] /\ hdl = [k \in Handlers |-> hdl[k]]
      BY <1>0, Zenon DEF Reject, Freed, HandlersOK
    <3>. QED
      BY <2>1, <3>1, Zenon DEF FreeHandler
  <2>2. ASSUME NEW g \in Handlers, g # h, hdl[g].open
        PROVE  box'[hdl[g].dev] = box[hdl[g].dev]
    <3>1. box[hdl[g].dev].via = g /\ (hdl[h].open => box[hdl[h].dev].via = h)
      BY <1>0, <2>2, Zenon DEF Linked
    <3>2. hdl[h].open => hdl[g].dev # hdl[h].dev
      BY <2>2, <3>1, Zenon
    <3> DEFINE x == hdl[h].dev
    <3>3. /\ hdl[g].dev \in Boxes
          /\ \/ box' = box
             \/ hdl[h].open /\ x \in Boxes /\ box' = [box EXCEPT ![x].at = "idle", ![x].via = NoHandler]
      BY <1>0, <2>2, Zenon DEF Reject, HandlersOK, Linked
    <3>4. box = [d \in Boxes |-> box[d]]
      BY <1>0, Zenon DEF BoxesOK
    <3>. QED
      BY <3>2, <3>3, <3>4, Zenon
  <2>3. ASSUME NEW g \in Handlers, hdl'[g].open
        PROVE  /\ hdl'[g].at # "free" /\ box'[hdl'[g].dev].via = g
               /\ box'[hdl'[g].dev].at \notin {"down", "idle"}
               /\ hdl'[g].at # "live" => box'[hdl'[g].dev].at = "wait"
    <3>1. hdl'[g] = hdl[g] /\ hdl[g].open /\ box'[hdl[g].dev] = box[hdl[g].dev]
      BY <2>1, <2>2, <2>3, Zenon
    <3>2. /\ hdl[g].at # "free" /\ box[hdl[g].dev].via = g
          /\ box[hdl[g].dev].at \notin {"down", "idle"}
          /\ hdl[g].at # "live" => box[hdl[g].dev].at = "wait"
      BY <1>0, <3>1, ZenonT(60) DEF Linked
    <3>. QED
      BY <3>1, <3>2, Zenon
  <2>. QED
    BY <2>3, Zenon DEF Linked
<1>a. \A e \in Boxes :
        \/ box'[e] = box[e]
        \/ /\ box[e].at = "wait" /\ box'[e].at = "idle" /\ box'[e].issued = box[e].issued
           /\ box'[e].cred = box[e].cred /\ box'[e].file = box[e].file
  BY <1>0 DEF Reject, Linked, HandlersOK, BoxesOK, DownBox
<1>4. Saved'
  BY <1>0, <1>a DEF Saved
<1>5. IssuedKept
  BY <1>0, Zenon DEF Reject, Freed, IssuedKept, HandlersOK, FreeHandler
<1>6. BoxSources
  BY <1>a, Zenon DEF BoxSources
<1>. QED
  BY <1>1, <1>2, <1>3, <1>4, <1>5, <1>6, QuietStep, Zenon DEF Reject, storeVars

\* A handler whose stream ended.
LEMMA EndStep ==
  ASSUME IdInv, NEW h \in Handlers, EndHandler(h)
  PROVE  IdInv'
<1>. USE IdentityAssumption DEF NoHandler, NoCode
<1>0. HandlersOK /\ BoxesOK /\ StoreOK /\ Linked /\ Saved
  BY Zenon DEF IdInv
<1>1. HandlersOK'
  BY <1>0, Zenon DEF EndHandler, Freed, HandlersOK, BoxesOK, FreeHandler
<1>2. BoxesOK'
  BY <1>0, Zenon DEF EndHandler, Freed, HandlersOK, BoxesOK, DownBox
<1>3. Linked'
  BY <1>0, Zenon DEF EndHandler, Freed, Linked, HandlersOK, BoxesOK, FreeHandler, DownBox
<1>4. Saved'
  BY <1>0, Zenon DEF EndHandler, Freed, Saved, Linked, HandlersOK, BoxesOK, DownBox
<1>5. IssuedKept
  BY <1>0, Zenon DEF EndHandler, Freed, IssuedKept, HandlersOK, FreeHandler
<1>6. BoxSources
  BY <1>0, Zenon DEF EndHandler, Freed, BoxSources, HandlersOK, BoxesOK, DownBox
<1>. QED
  BY <1>1, <1>2, <1>3, <1>4, <1>5, <1>6, QuietStep, Zenon DEF EndHandler, storeVars

\* A handler that hears nothing from a waiting client.
LEMMA TimeoutStep ==
  ASSUME IdInv, NEW h \in Handlers, HeartbeatTimeout(h)
  PROVE  IdInv'
<1>. USE IdentityAssumption DEF NoHandler, NoCode
<1>0. HandlersOK /\ BoxesOK /\ StoreOK /\ Linked /\ Saved
  BY Zenon DEF IdInv
<1>1. HandlersOK'
  BY <1>0, Zenon DEF HeartbeatTimeout, Freed, HandlersOK, BoxesOK, FreeHandler
<1>2. BoxesOK'
  BY <1>0, ZenonT(60) DEF HeartbeatTimeout, Freed, HandlersOK, BoxesOK, DownBox
<1>3. Linked'
  BY <1>0, SMTT(30) DEF HeartbeatTimeout, Freed, Linked, HandlersOK, BoxesOK, FreeHandler, DownBox
<1>a. \A e \in Boxes :
        \/ box'[e] = box[e]
        \/ /\ box[e].at = "wait" /\ box'[e].at = "idle" /\ box'[e].issued = box[e].issued
           /\ box'[e].cred = box[e].cred /\ box'[e].file = box[e].file
  BY <1>0 DEF HeartbeatTimeout, Linked, HandlersOK, BoxesOK, DownBox
<1>4. Saved'
  BY <1>0, <1>a DEF Saved
<1>5. IssuedKept
  BY <1>0, Zenon DEF HeartbeatTimeout, Freed, IssuedKept, HandlersOK, FreeHandler
<1>6. BoxSources
  BY <1>a, Zenon DEF BoxSources
<1>. QED
  BY <1>1, <1>2, <1>3, <1>4, <1>5, <1>6, QuietStep, Zenon DEF HeartbeatTimeout, storeVars

\* Registry.Disconnect.
LEMMA DisconnectStep ==
  ASSUME IdInv, DisconnectDevice
  PROVE  IdInv'
<1>0. HandlersOK /\ BoxesOK /\ Linked /\ Saved
  BY Zenon DEF IdInv
<1>1. HandlersOK'
  BY <1>0, Zenon DEF DisconnectDevice, HandlersOK, FreeHandler
<1>2. BoxesOK' /\ Saved' /\ BoxSources
  BY <1>0, Zenon DEF DisconnectDevice, BoxesOK, Saved, BoxSources
<1>3. Linked'
  BY <1>0, ZenonT(60) DEF DisconnectDevice, Linked, HandlersOK, FreeHandler
<1>4. IssuedKept
  BY <1>0, Zenon DEF DisconnectDevice, IssuedKept, HandlersOK, FreeHandler
<1>. QED
  BY <1>1, <1>2, <1>3, <1>4, QuietStep, Zenon DEF DisconnectDevice, storeVars

\* What the operations of the store do: both copies take the change, or memory
\* keeps the old state (which a prune may have made smaller).
LEMMA CodesStep ==
  ASSUME IdInv, NEW c \in Codes, CreateEnrollment(c) \/ Expire(c)
  PROVE  IdInv'
<1>0. StoreOK /\ UsedCodes /\ mem.cred = disk.cred
  BY Zenon DEF IdInv
<1>1. /\ mem'.cred = mem.cred /\ disk'.cred = disk.cred
      /\ mem'.codes \subseteq mem.codes \cup {c} /\ disk'.codes \subseteq disk.codes \cup mem.codes \cup {c}
      /\ StoreOK'
  BY <1>0, ZenonT(60) DEF CreateEnrollment, Expire, persisted, pruneExpired, StoreOK, Stores
<1>2. \/ created' = created /\ mem'.codes \subseteq mem.codes /\ disk'.codes \subseteq disk.codes \cup mem.codes
      \/ c \notin created /\ created' = created \cup {c}
  BY <1>0, Zenon DEF CreateEnrollment, Expire, persisted, pruneExpired, StoreOK, Stores
<1>3. UNCHANGED <<hdl, shown, box, grants, retired>>
  BY Zenon DEF CreateEnrollment, Expire
<1>4. UsedCodes'
  BY <1>0, <1>1, <1>2, <1>3, Zenon DEF UsedCodes, OneEnrolmentPerCode
<1>5. BoxHolds' /\ AdminHolds' /\ HandlersHold'
  BY <1>1, <1>3, Zenon DEF IdInv, BoxHolds, AdminHolds, HandlersHold, Held
<1>6. HandlersOK' /\ BoxesOK' /\ ShownOK' /\ Linked' /\ Saved'
  BY <1>3, Zenon DEF IdInv, HandlersOK, BoxesOK, ShownOK, Linked, Saved
<1>. QED
  BY <1>0, <1>1, <1>4, <1>5, <1>6, Zenon DEF IdInv

\* The administrator's changes of a device's credential.
LEMMA AdminStep ==
  ASSUME IdInv, NEW d \in Boxes, RotateDevice(d) \/ RevokeDevice(d)
  PROVE  IdInv'
<1>0. StoreOK /\ UsedCodes /\ ShownOK /\ mem.cred = disk.cred
  BY Zenon DEF IdInv
<1>1. /\ mem'.cred = disk'.cred /\ mem'.codes = mem.codes
      /\ disk'.codes \in {disk.codes, mem.codes}
      /\ StoreOK' /\ created' = created
  BY <1>0 DEF RotateDevice, RevokeDevice, persisted, StoreOK, Stores
<1>2. /\ \A e \in Boxes \ {d} : mem'.cred[e] = mem.cred[e]
      /\ mem'.cred[d] = mem.cred[d] \/ retired' = retired \cup {mem.cred[d]}
      /\ retired \subseteq retired'
  BY <1>0, ZenonT(60) DEF RotateDevice, RevokeDevice, persisted, StoreOK, Stores
<1>3. /\ ShownOK' /\ \A e \in Boxes \ {d} : shown'[e] = shown[e]
      /\ shown'[d] \in {0, shown[d], mem'.cred[d]}
  BY <1>0 DEF RotateDevice, RevokeDevice, persisted, ShownOK, StoreOK, Stores
<1>4. UNCHANGED <<hdl, box, grants>>
  BY Zenon DEF RotateDevice, RevokeDevice
<1>5. \A e \in Boxes : \A k : Held(e, k) => Held(e, k)'
  BY <1>2, Zenon DEF Held
<1>6. UsedCodes'
  BY <1>0, <1>1, <1>4, Zenon DEF UsedCodes, OneEnrolmentPerCode
<1>7. BoxHolds' /\ HandlersHold'
  BY <1>4, <1>5, Zenon DEF IdInv, BoxHolds, HandlersHold
<1>8. AdminHolds'
  BY <1>3, <1>5, Zenon DEF IdInv, AdminHolds, Held
<1>9. HandlersOK' /\ BoxesOK' /\ Linked' /\ Saved'
  BY <1>4, Zenon DEF IdInv, HandlersOK, BoxesOK, Linked, Saved
<1>. QED
  BY <1>1, <1>3, <1>6, <1>7, <1>8, <1>9, Zenon DEF IdInv

\* Enrolment: the code leaves both copies in the change that adds the device,
\* or nothing is granted.
LEMMA EnrollStep ==
  ASSUME IdInv, NEW h \in Handlers, EnrollDevice(h)
  PROVE  IdInv'
<1>0. StoreOK /\ UsedCodes /\ HandlersOK /\ BoxesOK /\ Linked /\ mem.cred = disk.cred
  BY Zenon DEF IdInv
<1>. DEFINE d == hdl[h].dev
            c == hdl[h].code
<1>1. d \in Boxes
  BY <1>0, Zenon DEF EnrollDevice, HandlersOK
<1>2. UNCHANGED <<box, shown, retired, created>>
  BY Zenon DEF EnrollDevice
<1>3. \/ /\ mem'.cred = mem.cred /\ disk' = disk /\ mem'.codes \subseteq mem.codes
         /\ fresh' \in {fresh, fresh + 1} /\ grants' = grants
         /\ \/ hdl' = [hdl EXCEPT ![h].at = "rejected"]
            \/ hdl' = [hdl EXCEPT ![h].at = "rejected", ![h].issued = 0]
      \/ /\ c \in mem.codes /\ mem.cred[d] = 0 /\ mem' = disk'
         /\ mem'.cred = [mem.cred EXCEPT ![d] = fresh + 1]
         /\ mem'.codes \subseteq mem.codes \ {c}
         /\ fresh' = fresh + 1 /\ grants' = grants \cup {<<c, fresh + 1>>}
         /\ hdl' = [hdl EXCEPT ![h].at = "account", ![h].issued = fresh + 1]
  <2>1. CASE ~(c \in pruneExpired(mem).codes /\ mem.cred[d] = 0 /\ fresh < MaxCreds)
    BY <1>0, <2>1 DEF EnrollDevice, pruneExpired, StoreOK, Stores
  <2>2. CASE /\ c \in pruneExpired(mem).codes /\ mem.cred[d] = 0 /\ fresh < MaxCreds
             /\ mem' = pruneExpired(mem) /\ UNCHANGED disk
    <3>1. mem'.cred = mem.cred /\ mem'.codes \subseteq mem.codes
      BY <1>0, <2>2, Zenon DEF pruneExpired, StoreOK, Stores
    <3>. QED
      BY <1>0, <2>2, <3>1, Zenon DEF EnrollDevice
  <2>3. CASE /\ c \in pruneExpired(mem).codes /\ mem.cred[d] = 0 /\ fresh < MaxCreds
             /\ mem' = [codes |-> pruneExpired(mem).codes \ {c},
                        cred |-> [mem.cred EXCEPT ![d] = fresh + 1]]
             /\ disk' = mem'
    <3>1. /\ mem'.cred = [mem.cred EXCEPT ![d] = fresh + 1] /\ c \in mem.codes
          /\ mem'.codes \subseteq mem.codes \ {c}
      BY <1>0, <2>3, Zenon DEF pruneExpired, StoreOK, Stores
    <3>2. mem'.cred[d] # 0
      BY <1>0, <1>1, <3>1 DEF StoreOK, Stores
    <3>. QED
      BY <2>3, <3>1, <3>2, Zenon DEF EnrollDevice
  <2>. QED
    BY <2>1, <2>2, <2>3, Zenon DEF EnrollDevice, persisted
<1>. HIDE DEF d, c
<1>4. StoreOK'
  <2>1. mem' \in Stores /\ disk' \in Stores
    BY <1>0, <1>1, <1>3 DEF StoreOK, Stores, EnrollDevice, persisted, pruneExpired
  <2>. QED
    BY <1>0, <1>2, <1>3, <2>1, SMTT(30) DEF StoreOK
<1>5. UsedCodes'
  BY <1>0, <1>2, <1>3 DEF UsedCodes, OneEnrolmentPerCode
<1>6. mem'.cred = disk'.cred
  BY <1>0, <1>3, Zenon
<1>7. \A e \in Boxes : \A k : Held(e, k) => Held(e, k)'
  BY <1>0, <1>1, <1>2, <1>3, Zenon DEF Held, StoreOK, Stores
<1>8. BoxHolds' /\ AdminHolds' /\ BoxesOK' /\ ShownOK' /\ Saved'
  BY <1>2, <1>7, Zenon DEF IdInv, BoxHolds, AdminHolds, BoxesOK, ShownOK, Saved
<1>9. HandlersOK'
  BY <1>0, <1>3, SMTT(30) DEF HandlersOK, FreeHandler, EnrollDevice
<1>10. Linked'
  BY <1>0, <1>2, <1>3 DEF HandlersOK, FreeHandler, Linked, EnrollDevice
<1>11. HandlersHold'
  <2>1. \A g \in Handlers :
          /\ hdl'[g].dev = hdl[g].dev
          /\ \/ hdl'[g].issued \in {0, hdl[g].issued}
             \/ g = h /\ hdl'[g].issued = mem'.cred[d]
    BY <1>0, <1>1, <1>3 DEF HandlersOK, FreeHandler, StoreOK, Stores
  <2>2. \A e \in Boxes : Held(e, 0)' /\ Held(e, mem.cred[e])'
    BY <1>7, Zenon DEF Held
  <2>. QED
    BY <1>7, <2>1, <2>2 DEF IdInv, HandlersHold, Held, d
<1>. QED
  BY <1>4, <1>5, <1>6, <1>8, <1>9, <1>10, <1>11, Zenon DEF IdInv

\* The Manager starts again from its file.
LEMMA RestartStep ==
  ASSUME IdInv, RestartManager
  PROVE  IdInv'
<1>0. StoreOK /\ UsedCodes /\ ShownOK /\ BoxesOK /\ Saved /\ mem.cred = disk.cred
  BY Zenon DEF IdInv
<1>1. /\ StoreOK' /\ mem'.cred = disk'.cred /\ mem'.cred = mem.cred
  BY <1>0, Zenon DEF RestartManager, StoreOK
<1>2. UsedCodes'
  BY <1>0, Zenon DEF RestartManager, UsedCodes, OneEnrolmentPerCode
<1>3. \A d, k : Held(d, k)' <=> Held(d, k)
  BY <1>1, Zenon DEF RestartManager, Held
<1>4. HandlersOK' /\ Linked' /\ HandlersHold'
  BY Zenon DEF RestartManager, HandlersOK, Linked, HandlersHold, Held, FreeHandler
<1>5. ShownOK' /\ \A d \in Boxes : shown'[d] \in {0, shown[d]}
  BY <1>0, Zenon DEF RestartManager, ShownOK
<1>6. BoxesOK'
  BY <1>0, Zenon DEF RestartManager, BoxesOK, DownBox
<1>7. \A d \in Boxes :
        /\ box'[d].file = box[d].file /\ box'[d].cred = box[d].cred
        /\ \/ box'[d].issued = box[d].issued /\ box'[d].at = box[d].at
           \/ box'[d].issued = 0 /\ box[d].at # "saved" /\ box'[d].at = "idle"
  BY <1>0, Zenon DEF RestartManager, BoxesOK, DownBox
<1>8. Saved'
  BY <1>0, <1>7, Zenon DEF Saved
<1>9. AdminHolds'
  BY <1>3, <1>5, ZenonT(60) DEF IdInv, AdminHolds, Held
<1>10. BoxHolds'
  <2>1. \A d \in Boxes : Held(d, 0)
    BY Zenon DEF Held
  <2>. QED
    BY <1>3, <1>7, <2>1, Zenon DEF IdInv, BoxHolds
<1>. QED
  BY <1>1, <1>2, <1>4, <1>5, <1>6, <1>8, <1>9, <1>10, Zenon DEF IdInv

\* At the start there are no credentials.
LEMMA IdInvInit ==
  ASSUME IdInit
  PROVE  IdInv
<1>1. StoreOK /\ ShownOK /\ mem.cred = disk.cred
  BY Zenon DEF IdInit, IdIdle, StoreOK, Stores, ShownOK
<1>2. HandlersOK /\ Linked
  BY Zenon DEF IdInit, IdIdle, HandlersOK, Linked, FreeHandler
<1>3. BoxesOK /\ Saved
  BY Zenon DEF IdInit, BoxesOK, Saved, DownBox
<1>4. UsedCodes
  BY Zenon DEF IdInit, IdIdle, UsedCodes, OneEnrolmentPerCode
<1>5. BoxHolds /\ AdminHolds /\ HandlersHold
  BY Zenon DEF IdInit, IdIdle, BoxHolds, AdminHolds, HandlersHold, Held, DownBox, FreeHandler
<1>. QED
  BY <1>1, <1>2, <1>3, <1>4, <1>5, Zenon DEF IdInv

\* Every step keeps the invariant.
LEMMA IdInvStep ==
  ASSUME IdInv, [IdNext]_idVars
  PROVE  IdInv'
<1>1. CASE \E c \in Codes : CreateEnrollment(c) \/ Expire(c)
  BY <1>1, CodesStep, Zenon
<1>2. CASE \E d \in Boxes : RotateDevice(d) \/ RevokeDevice(d)
  BY <1>2, AdminStep, Zenon
<1>3. CASE DisconnectDevice
  BY <1>3, DisconnectStep, Zenon
<1>4. CASE \E d \in Boxes : ClientStep(d) \/ LoseConnection(d) \/ CrashClient(d) \/ StopClient(d)
  BY <1>4, BootStep, ConnectStep, SaveStep, StoreStep, LoseStep, CrashStep, StopStep, Zenon DEF ClientStep
<1>5. CASE \E d \in Boxes, c \in Codes : EnterCode(d, c)
  BY <1>5, EnterStep, Zenon
<1>6. CASE \E h \in Handlers : HandlerStep(h)
  BY <1>6, VerifyStep, EnrollStep, AccountStep, PutStep, AckStep, RejectStep, EndStep, TimeoutStep, Zenon
     DEF HandlerStep
<1>7. CASE RestartManager
  BY <1>7, RestartStep, Zenon
<1>8. CASE UNCHANGED idVars
  <2>. UNCHANGED <<mem, disk, fresh, created, hdl, shown, box, grants, retired>>
    BY <1>8, Zenon DEF idVars
  <2>1. StoreOK' /\ HandlersOK' /\ BoxesOK' /\ ShownOK' /\ mem'.cred = disk'.cred
    BY Zenon DEF IdInv, StoreOK, HandlersOK, BoxesOK, ShownOK
  <2>2. UsedCodes' /\ Linked' /\ Saved'
    BY Zenon DEF IdInv, UsedCodes, OneEnrolmentPerCode, Linked, Saved
  <2>3. BoxHolds' /\ AdminHolds' /\ HandlersHold'
    <3>1. BoxHolds /\ AdminHolds /\ HandlersHold
      BY Zenon DEF IdInv
    <3>2. BoxHolds' /\ AdminHolds'
      BY <3>1, Zenon DEF BoxHolds, AdminHolds, Held
    <3>3. HandlersHold'
      BY <3>1, Zenon DEF HandlersHold, Held
    <3>. QED
      BY <3>2, <3>3, Zenon
  <2>. QED
    BY <2>1, <2>2, <2>3, Zenon DEF IdInv
<1>. QED
  BY <1>1, <1>2, <1>3, <1>4, <1>5, <1>6, <1>7, <1>8, Zenon DEF IdNext

\* authstore consumes an enrollment code exactly once: for any number of
\* clients presenting it at once, through failed saves (taken back in memory)
\* and restarts of the Manager from its file.
THEOREM EnrolmentOnce == IdSpec => []OneEnrolmentPerCode
<1>1. IdInv => OneEnrolmentPerCode
  BY Zenon DEF IdInv, UsedCodes
<1>. QED
  BY <1>1, IdInvInit, IdInvStep, PTL DEF IdSpec

\* No crash, failed save or late acknowledgement leaves anybody with a
\* credential that is neither replaced nor the one both copies of the store
\* know.
THEOREM CredentialsVerify == IdSpec => []IssuedVerifies
<1>1. IdInv => IssuedVerifies
  BY DEF IdInv, IssuedVerifies, BoxHolds, AdminHolds, HandlersHold, Held
<1>. QED
  BY <1>1, IdInvInit, IdInvStep, PTL DEF IdSpec

\* persistCredential writes the file before the state: a credential in use is
\* in the file, whichever connection it came over.
THEOREM CredentialsDurable == IdSpec => []CredentialDurable
<1>1. IdInv => CredentialDurable
  BY Zenon DEF IdInv, CredentialDurable, Saved
<1>. QED
  BY <1>1, IdInvInit, IdInvStep, PTL DEF IdSpec

-----------------------------------------------------------------------------
(* The tools of a device that its policy disables *)

\* What the tools of the request's server promise of the device it names, until that
\* device registers again.
Barred(q) ==
  /\ q.direct /\ ~q.moved /\ q.account = ForSubject(q.token.sub)
  /\ q.device \in ListAccount(q.account) /\ Disables(fleet[q.device], q.tool)
Formed(q) == q.at # "free" => DOMAIN q = {"at", "token", "device", "tool", "pass", "account", "waited",
                                          "doc", "moved", "direct"}
SurfaceInv ==
  /\ req = [r \in Requests |-> req[r]]
  /\ fleet = [d \in DOMAIN Fleet |-> fleet[d]]
  /\ \A d \in DOMAIN Fleet : fleet[d] \in DOMAIN Policies \cup {"off"}
  /\ \A r \in Requests : Formed(req[r]) /\ (req[r].at = "forward" => ~Barred(req[r]))
  /\ strayed = FALSE

\* A step that moves one request, and not to the call, keeps what holds of the others.
LEMMA MoveKeeps ==
  ASSUME SurfaceInv, NEW r \in Requests, NEW to, Move(r, to), to.at # "forward", Formed(to),
         UNCHANGED <<fleet, strayed>>
  PROVE  SurfaceInv'
<1>1. /\ req' = [s \in Requests |-> req'[s]] /\ req'[r] = to
      /\ \A s \in Requests \ {r} : req'[s] = req[s]
  BY Zenon DEF SurfaceInv, Move
<1>2. ASSUME NEW s \in Requests, req'[s].at = "forward" PROVE ~Barred(req[s])'
  <2>1. s # r /\ req'[s] = req[s]
    BY <1>1, <1>2, Zenon
  <2> QED
    BY <1>2, <2>1, Zenon DEF SurfaceInv, Barred, ListAccount, Disables
<1>3. \A s \in Requests : Formed(req[s])'
  BY <1>1, Zenon DEF SurfaceInv, Formed
<1> QED
  BY <1>1, <1>2, <1>3, Zenon DEF SurfaceInv

\* The end of a verification does not make the call.
LEMMA VerifiedKeeps ==
  ASSUME SurfaceInv, NEW r \in Requests, NEW found, Verified(r, found), UNCHANGED <<fleet, strayed>>,
         req[r].at \notin {"forward", "free"}
  PROVE  SurfaceInv'
<1> DEFINE q == req[r]
           to == CASE q.pass = 1 /\ (found /\ Accepts(q.token)) /\ Scope \in extractScopes(q.token) ->
                       [q EXCEPT !.at = "key", !.pass = 2]
                  [] q.pass = 2 -> [q EXCEPT !.at = "surface",
                                       !.account = IF found /\ Accepts(q.token) THEN ForSubject(q.token.sub)
                                                   ELSE DefaultAccount]
                  [] OTHER -> Free
<1>1. Move(r, to)
  BY Zenon DEF Verified
<1>2. Free.at # "forward" /\ Formed(Free)
  BY Zenon DEF Free, Formed
<1>3. Formed(q)
  BY Zenon DEF SurfaceInv
<1>4. to.at # "forward" /\ Formed(to)
  BY <1>2, <1>3, Zenon DEF Formed
<1> QED
  BY <1>1, <1>4, MoveKeeps, Zenon

\* Every step keeps the promise; a device that registers while a call is made breaks it
\* only for itself, and marks the call.
LEMMA SurfaceStep == SurfaceInv /\ [GwNext]_gwVars => SurfaceInv'
<1> SUFFICES ASSUME SurfaceInv, [GwNext]_gwVars PROVE SurfaceInv'
  BY Zenon
<1>0. Free.at # "forward" /\ Formed(Free)
  BY Zenon DEF Free, Formed
<1>00. \A r \in Requests : Formed(req[r])
  BY Zenon DEF SurfaceInv
<1>1. ASSUME NEW r \in Requests, Arrive(r) PROVE SurfaceInv'
  <2>1. PICK to : Move(r, to) /\ to.at # "forward" /\ Formed(to)
    <3>1. PICK t \in Bearer, d \in Targets, tool \in Tools :
            Move(r, [at |-> "key", token |-> t, device |-> d, tool |-> tool, pass |-> 1,
                     account |-> "", waited |-> 0, doc |-> {}, moved |-> FALSE, direct |-> TRUE])
      BY <1>1, Zenon DEF Arrive
    <3> DEFINE new == [at |-> "key", token |-> t, device |-> d, tool |-> tool, pass |-> 1,
                       account |-> "", waited |-> 0, doc |-> {}, moved |-> FALSE, direct |-> TRUE]
    <3>2. new.at # "forward" /\ Formed(new)
      BY Zenon DEF Formed
    <3> QED
      BY <3>1, <3>2, Zenon
  <2>2. UNCHANGED <<fleet, strayed>>
    BY <1>1, Zenon DEF Arrive, fleetVars
  <2> QED
    BY <2>1, <2>2, MoveKeeps, Zenon
<1>2. ASSUME NEW r \in Requests, NEW hit, NEW miss, Looked(r, hit, miss) PROVE SurfaceInv'
  <2> DEFINE to == [req[r] EXCEPT !.at = "fetch", !.waited = 0]
  <2>1. UNCHANGED <<fleet, strayed>> /\ req[r].at \notin {"forward", "free"}
    BY <1>2, Zenon DEF Looked, fleetVars
  <2>2. to.at # "forward" /\ Formed(to)
    BY <1>00, <2>1, Zenon DEF Formed
  <2>3. Move(r, to) \/ Verified(r, hit)
    BY <1>2, Zenon DEF Looked
  <2> QED
    BY <2>1, <2>2, <2>3, MoveKeeps, VerifiedKeeps, Zenon
<1>3. ASSUME NEW r \in Requests, FetchAnswered(r) PROVE SurfaceInv'
  <2> DEFINE to == [req[r] EXCEPT !.at = "transit", !.doc = jwks]
  <2>1. UNCHANGED <<fleet, strayed>> /\ req[r].at = "fetch" /\ Move(r, to)
    BY <1>3, Zenon DEF FetchAnswered, fleetVars
  <2>2. to.at # "forward" /\ Formed(to)
    BY <1>00, <2>1, Zenon DEF Formed
  <2> QED
    BY <2>1, <2>2, MoveKeeps, Zenon
<1>4. ASSUME NEW r \in Requests, FetchFailed(r) PROVE SurfaceInv'
  <2>1. UNCHANGED <<fleet, strayed>> /\ req[r].at \notin {"forward", "free"} /\ Verified(r, FALSE)
    BY <1>4, Zenon DEF FetchFailed, fleetVars
  <2> QED
    BY <2>1, VerifiedKeeps, Zenon
<1>5. ASSUME NEW r \in Requests, refreshKeys(r) PROVE SurfaceInv'
  <2> DEFINE to == [req[r] EXCEPT !.at = "again", !.doc = {}, !.waited = 0]
  <2>1. UNCHANGED <<fleet, strayed>> /\ req[r].at \notin {"forward", "free"}
    BY <1>5, Zenon DEF refreshKeys, fleetVars
  <2>2. to.at # "forward" /\ Formed(to)
    BY <1>00, <2>1, Zenon DEF Formed
  <2>3. Move(r, to) \/ Verified(r, FALSE)
    BY <1>5, Zenon DEF refreshKeys
  <2> QED
    BY <2>1, <2>2, <2>3, MoveKeeps, VerifiedKeeps, Zenon
<1>6. ASSUME NEW r \in Requests, keyAgain(r) PROVE SurfaceInv'
  <2>1. UNCHANGED <<fleet, strayed>> /\ req[r].at \notin {"forward", "free"} /\ Verified(r, KidKnown(r))
    BY <1>6, Zenon DEF keyAgain, fleetVars
  <2> QED
    BY <2>1, VerifiedKeeps, Zenon
<1>7. ASSUME NEW r \in Requests, ServerForRequest(r) PROVE SurfaceInv'
  <2>1. UNCHANGED <<fleet, strayed>> /\ req[r].at = "surface"
    BY <1>7, Zenon DEF ServerForRequest, fleetVars
  <2>2. CASE Move(r, Free)
    BY <1>0, <2>1, <2>2, MoveKeeps, Zenon
  <2>3. ASSUME NEW tool \in registerWithPolicy(req[r].account, req[r].tool),
               Move(r, [req[r] EXCEPT !.at = "forward", !.tool = tool, !.direct = (tool = req[r].tool)])
        PROVE  SurfaceInv'
    <3> DEFINE to == [req[r] EXCEPT !.at = "forward", !.tool = tool, !.direct = (tool = req[r].tool)]
    <3>1. /\ req' = [s \in Requests |-> req'[s]] /\ req'[r] = to
          /\ \A s \in Requests \ {r} : req'[s] = req[s]
      BY <2>3, Zenon DEF SurfaceInv, Move
    <3>2. /\ DOMAIN to = DOMAIN req[r] /\ DOMAIN to = {"at", "token", "device", "tool", "pass", "account",
                                                       "waited", "doc", "moved", "direct"}
          /\ (to.direct <=> tool = req[r].tool) /\ to.tool = tool /\ to.account = req[r].account
      BY <1>00, <2>1, Zenon DEF Formed
    <3>3. ASSUME NEW s \in Requests \ {r}, req'[s].at = "forward" PROVE ~Barred(req[s])'
      BY <2>1, <3>1, <3>3, Zenon DEF SurfaceInv, Barred, ListAccount, Disables
    <3> HIDE DEF to
    <3>4. ~Barred(to)
      <4> SUFFICES ASSUME Barred(to) PROVE FALSE
        BY Zenon
      <4>1. req[r].tool = tool
        BY <3>2, Zenon DEF Barred
      <4>2. tool \notin customToolsForAccount(to.account, tool)
        BY WrappersRenamed, Zenon DEF customToolsForAccount, ListAccount, SurfaceInv
      <4>3. ~toolDisabledForAccount(to.account, tool)
        BY <2>3, <3>2, <4>1, <4>2, Zenon DEF registerWithPolicy
      <4> QED
        BY <3>2, <4>3, Zenon DEF toolDisabledForAccount, Barred
    <3>5. ~Barred(req[r])' /\ Formed(req[r])'
      BY <2>1, <3>1, <3>2, <3>4, Zenon DEF Barred, ListAccount, Disables, Formed
    <3>6. \A s \in Requests : Formed(req[s])'
      BY <1>00, <3>1, <3>5, Zenon DEF Formed
    <3> QED
      BY <2>1, <3>1, <3>3, <3>5, <3>6, Zenon DEF SurfaceInv
  <2> QED
    BY <1>7, <2>2, <2>3, Zenon DEF ServerForRequest
<1>8. ASSUME NEW r \in Requests, forward(r) PROVE SurfaceInv'
  <2> DEFINE q == req[r]
             barred == /\ q.direct /\ Disables(fleet[q.device], q.tool)
                       /\ q.account = ForSubject(q.token.sub) /\ ~q.moved
  <2>1. CASE q.device \in ListAccount(ForSubject(q.token.sub))
    <3>1. ~barred
      BY <1>8, <2>1, Zenon DEF forward, SurfaceInv, Barred
    <3>2. strayed' = strayed /\ fleet' = fleet /\ Move(r, [q EXCEPT !.at = "wait"])
      BY <1>8, <2>1, <3>1, Zenon DEF forward, fleetVars, SurfaceInv
    <3>3. [q EXCEPT !.at = "wait"].at # "forward" /\ Formed([q EXCEPT !.at = "wait"])
      BY <1>00, <1>8, Zenon DEF forward, Formed
    <3> QED
      BY <3>2, <3>3, MoveKeeps, Zenon
  <2>2. CASE q.device \notin ListAccount(ForSubject(q.token.sub))
    <3>1. UNCHANGED <<fleet, strayed>> /\ Move(r, Free)
      BY <1>8, <2>2, Zenon DEF forward, fleetVars
    <3> QED
      BY <1>0, <3>1, MoveKeeps, Zenon
  <2> QED
    BY <2>1, <2>2, Zenon
<1>9. ASSUME NEW r \in Requests, CallReturns(r) PROVE SurfaceInv'
  <2>1. UNCHANGED <<fleet, strayed>> /\ Move(r, Free)
    BY <1>9, Zenon DEF CallReturns, fleetVars
  <2> QED
    BY <1>0, <2>1, MoveKeeps, Zenon
<1>10. ASSUME NEW d \in DOMAIN Fleet, DeviceRegisters(d) PROVE SurfaceInv'
  <2>1. PICK p \in DOMAIN Policies \cup {"off"} : fleet' = [fleet EXCEPT ![d] = p]
    BY <1>10, Zenon DEF DeviceRegisters
  <2>2. /\ fleet' = [e \in DOMAIN Fleet |-> fleet'[e]] /\ DOMAIN fleet' = DOMAIN fleet
        /\ \A e \in DOMAIN Fleet : fleet'[e] \in DOMAIN Policies \cup {"off"}
        /\ \A e \in DOMAIN Fleet \ {d} : fleet'[e] = fleet[e]
    BY <2>1, Zenon DEF SurfaceInv
  <2>3. /\ req' = [r \in Requests |-> req'[r]] /\ strayed' = strayed
        /\ \A r \in Requests : req'[r] = IF req[r].at = "forward" /\ req[r].device = d
                                         THEN [req[r] EXCEPT !.moved = TRUE] ELSE req[r]
    BY <1>10, Zenon DEF DeviceRegisters
  <2>4. ASSUME NEW r \in Requests, req'[r].at = "forward" PROVE ~Barred(req[r])'
    <3>1. CASE req[r].at = "forward" /\ req[r].device = d
      BY <1>00, <2>3, <3>1, Zenon DEF Barred, Formed
    <3>2. CASE req[r].at # "forward" \/ req[r].device # d
      <4>1. req'[r] = req[r]
        BY <2>3, <3>2, Zenon
      <4>2. req[r].at = "forward" /\ req[r].device # d /\ ~Barred(req[r])
        BY <2>4, <3>2, <4>1, Zenon DEF SurfaceInv
      <4> DEFINE e == req[r].device
      <4>3. (e \in ListAccount(req[r].account))' => e \in ListAccount(req[r].account) /\ fleet'[e] = fleet[e]
        BY <2>2, <4>1, <4>2, Zenon DEF ListAccount, SurfaceInv
      <4> QED
        BY <4>1, <4>2, <4>3, Zenon DEF Barred, Disables
    <3> QED
      BY <3>1, <3>2, Zenon
  <2>5. ASSUME NEW r \in Requests PROVE Formed(req[r])'
    <3>1. Formed(req[r])
      BY <1>00, Zenon
    <3>2. req'[r] = req[r] \/ (req[r].at = "forward" /\ req'[r] = [req[r] EXCEPT !.moved = TRUE])
      BY <2>3, Zenon
    <3>3. CASE req'[r] = req[r]
      BY <3>1, <3>3, Zenon DEF Formed
    <3>4. CASE req[r].at = "forward" /\ req'[r] = [req[r] EXCEPT !.moved = TRUE]
      <4>1. DOMAIN req'[r] = DOMAIN req[r] /\ req[r].at # "free"
        BY <3>4, Zenon
      <4> QED
        BY <3>1, <4>1, Zenon DEF Formed
    <3> QED
      BY <3>2, <3>3, <3>4, Zenon
  <2> QED
    BY <2>2, <2>3, <2>4, <2>5, Zenon DEF SurfaceInv
<1>11. ASSUME \/ UNCHANGED gwVars \/ \E k \in DOMAIN JWK : Rotate(k) PROVE SurfaceInv'
  <2>1. UNCHANGED <<req, fleet, strayed>>
    BY <1>11, Zenon DEF gwVars, Rotate, fleetVars
  <2> QED
    BY <2>1, Zenon DEF SurfaceInv, Barred, ListAccount, Disables
<1>12. ASSUME TimeGoesOn PROVE SurfaceInv'
  <2>1. /\ req' = [r \in Requests |-> req'[r]] /\ strayed' = strayed /\ fleet' = fleet
        /\ \A r \in Requests : req'[r] = IF req[r].at \in {"fetch", "transit"}
                                         THEN [req[r] EXCEPT !.waited = @ + 1] ELSE req[r]
    BY <1>12, Zenon DEF TimeGoesOn, fleetVars
  <2>2. ASSUME NEW r \in Requests, req'[r].at = "forward" PROVE ~Barred(req[r])'
    <3>1. req'[r] = req[r]
      BY <1>00, <2>1, <2>2, Zenon DEF Formed
    <3> QED
      BY <2>1, <2>2, <3>1, Zenon DEF SurfaceInv, Barred, ListAccount, Disables
  <2>3. ASSUME NEW r \in Requests PROVE Formed(req[r])'
    BY <1>00, <2>1, Zenon DEF Formed
  <2> QED
    BY <2>1, <2>2, <2>3, Zenon DEF SurfaceInv
<1> QED
  BY <1>1, <1>2, <1>3, <1>4, <1>5, <1>6, <1>7, <1>8, <1>9, <1>10, <1>11, <1>12, Zenon DEF GwNext, GwStep, key

\* forward hands a device no call of a built-in tool that the device disables, unless the
\* server of the request was built for another account or the device registered since.
THEOREM DisabledNotCalledHolds == GwSpec => []DisabledNotCalled
<1>1. GwInit => SurfaceInv
  BY DEF GwInit, GwIdle, SurfaceInv, Free, Formed
<1>2. SurfaceInv => DisabledNotCalled
  BY Zenon DEF SurfaceInv, DisabledNotCalled
<1> QED
  BY <1>1, <1>2, SurfaceStep, PTL DEF GwSpec
==============================================================================
