-------------------------- MODULE AuthServer_proofs --------------------------
(***************************************************************************)
(* Proofs about the authorization server, for any users, clients, requests *)
(* and handlers, and through any crashes, torn stores and expiries.        *)
(***************************************************************************)
EXTENDS AuthServer, TLAPS

(* Grants.  The invariant follows a grant: from the code or the refresh    *)
(* token, through the handler that has taken it, to the token that is      *)
(* issued for it and to the copies of that token in memory, in flight to   *)
(* the file and in it.                                                     *)

Grants == [id : Nat, client : {q.client : q \in AuthRequests}, uri : {q.uri : q \in AuthRequests},
           resource : {Resource} \cup {q.resource : q \in AuthRequests}, scopes : {q.scopes : q \in AuthRequests},
           subject : Users, challenge : {q.challenge : q \in AuthRequests}]
Askers == [client : {q.client : q \in AuthRequests}, uri : {q.uri : q \in AuthRequests}, verifier : Verifiers]
Sources == [kind : {"code", "refresh"}, id : Nat]
Issues == [src : Sources, by : Askers, grant : Grants, life : Nat]
Ids == 1..Len(issued)
Signing == {h \in AuthHandlers : ask[h].at = "sign"}
\* A refresh token is a copy of what was issued under its number.
Copies == {r \in [id : Nat, grant : Grants] : r.id \in Ids /\ r.grant = issued[r.id].grant}

\* The types of what the argument is about, and the copies of refresh tokens.
AuthType ==
  /\ issued \in Seq(Issues) /\ nCodes \in Nat /\ life \in Nat
  /\ \A t \in Ids : issued[t].life <= life
  /\ ask = [h \in AuthHandlers |-> ask[h]] /\ data = [i \in Inodes |-> data[i]]
  /\ \A s \in sessions : s.subject \in Users
  /\ codes \subseteq Grants /\ refresh \subseteq Copies
  /\ \A h \in AuthHandlers : ask[h].at = "code" => ask[h].q \in AuthRequests /\ ask[h].subject \in Users
  /\ \A h \in Signing : ask[h].grant \in Grants /\ ask[h].src \in Sources /\ ask[h].by \in Askers
  /\ \A h \in AuthHandlers : ask[h].at \in {"open", "write"} => ask[h].content.refresh \subseteq Copies
  /\ \A i \in Inodes : data[i].refresh \subseteq Copies
  /\ (asStore = 0 \/ asStore \in Inodes) /\ (tmp = 0 \/ tmp \in Inodes)
  /\ asUp # "up" => Signing = {}

\* What a request was made for is not in the maps any more.
Spent(src) ==
  IF src.kind = "code" THEN src.id \in 1..nCodes /\ \A c \in codes : c.id # src.id
  ELSE src.id \in Ids /\ \A r \in refresh : r.id # src.id

\* A code, and in one life of the process a refresh token, is in one place: in the map,
\* with the one handler that took it, or behind the one token that was issued for it.
Once ==
  /\ \A c \in codes : c.id \in 1..nCodes
  /\ \A c, d \in codes : c.id = d.id => c = d
  /\ \A h \in Signing : Spent(ask[h].src)
  /\ \A g, h \in Signing : ask[g].src = ask[h].src => g = h
  /\ \A t \in Ids : issued[t].src.kind = "code" \/ issued[t].life = life =>
       Spent(issued[t].src) /\ \A h \in Signing : ask[h].src # issued[t].src
  /\ SingleUse

\* Whoever has taken a grant is entitled to it, and a refreshed one is the one before.
Entitled(by, g) == by.client = g.client /\ by.uri = g.uri /\ pkceS256(by.verifier) = g.challenge
Faithful ==
  /\ \A h \in Signing : /\ Entitled(ask[h].by, ask[h].grant)
                        /\ ask[h].src.kind = "refresh" =>
                             ask[h].src.id \in Ids /\ issued[ask[h].src.id].grant = ask[h].grant
  /\ \A t \in Ids : issued[t].src.kind = "refresh" => issued[t].src.id \in Ids
  /\ GrantFaithful

AuthInv == AuthType /\ Once /\ Faithful

\* Nothing is issued, nothing is added to the maps, and no handler takes a grant.
Quiet0 ==
  /\ UNCHANGED <<issued, life, nCodes>>
  /\ codes' \subseteq codes /\ refresh' \subseteq refresh
  /\ \A h \in AuthHandlers : ask'[h].at = "sign" => ask'[h] = ask[h]

\* Such a step keeps what is said of sources.
LEMMA QuietKeepsOnce ==
  ASSUME AuthInv, Quiet0
  PROVE  Once' /\ Faithful'
<1>1. Signing' \subseteq Signing /\ \A h \in Signing' : ask'[h] = ask[h]
  BY Zenon DEF Signing, Quiet0
<1>2. Ids' = Ids /\ issued' = issued /\ nCodes' = nCodes /\ life' = life
  BY Zenon DEF Ids, Quiet0
<1>3. ASSUME NEW src, Spent(src) PROVE Spent(src)'
  BY <1>2, <1>3, Zenon DEF Spent, Quiet0
<1>4. Once'
  <2>1. SingleUse'
    BY <1>2, Zenon DEF AuthInv, Once, SingleUse
  <2>2. \A t \in Ids' : issued'[t].src.kind = "code" \/ issued'[t].life = life' =>
       Spent(issued[t].src)' /\ \A h \in Signing' : ask'[h].src # issued'[t].src
    BY <1>1, <1>2, <1>3, ZenonT(60) DEF AuthInv, Once
  <2>3. \A h \in Signing' : Spent(ask[h].src)'
    BY <1>1, <1>3, Zenon DEF AuthInv, Once
  <2> QED
    BY <1>1, <1>2, <2>1, <2>2, <2>3, Zenon DEF AuthInv, Once, Quiet0
<1>5. Faithful'
  BY <1>1, <1>2 DEF AuthInv, Faithful, GrantFaithful, Entitled, pkceS256
<1> QED
  BY <1>4, <1>5, Zenon

\* A step that issues nothing keeps the copies.
LEMMA SameCopies ==
  ASSUME UNCHANGED issued
  PROVE  Ids' = Ids /\ Copies' = Copies
BY Zenon DEF Ids, Copies

\* What a handler's turn leaves of the other handlers.
LEMMA TurnOf ==
  ASSUME AuthType, NEW h \in AuthHandlers, NEW from, NEW to, Turn(h, from, to)
  PROVE  /\ asUp = "up" /\ ask[h].at = from /\ ask'[h] = to
         /\ ask' = [g \in AuthHandlers |-> ask'[g]]
         /\ \A g \in AuthHandlers \ {h} : ask'[g] = ask[g]
BY Zenon DEF AuthType, Turn

\* The invariant holds of the empty store the server starts with.
LEMMA AuthInvInit ==
  ASSUME AuthInit
  PROVE  AuthInv
<1>0. issued \in Seq(Issues) /\ Len(issued) = 0
  <2>1. issued = <<>>
    BY Zenon DEF AuthInit, AuthIdle
  <2>2. <<>> \in Seq(Issues) /\ Len(<<>>) = 0
    OBVIOUS
  <2>. QED
    BY <2>1, <2>2, Zenon
<1>1. Ids = {} /\ Signing = {}
  <2>1. Ids = {}
    BY <1>0 DEF Ids
  <2>2. \A h \in AuthHandlers : ask[h].at = "free"
    BY Zenon DEF FreeAsk, AuthInit, AuthIdle
  <2> QED
    BY <2>1, <2>2, Zenon DEF Signing
<1> USE DEF AuthInit, AuthIdle
<1>2. AuthType
  <2>1. issued \in Seq(Issues) /\ nCodes \in Nat /\ life \in Nat
    BY <1>0, Zenon
  <2>2. ask = [h \in AuthHandlers |-> ask[h]] /\ \A h \in AuthHandlers : ask[h].at = "free"
    BY Zenon DEF FreeAsk
  <2>3. data = [i \in Inodes |-> data[i]] /\ \A i \in Inodes : data[i].refresh = {}
    BY Zenon DEF NoContent
  <2> QED
    BY <1>1, <2>1, <2>2, <2>3, Zenon DEF AuthType
<1>3. Once
  <2>1. SingleUse
    BY <1>1, Zenon DEF SingleUse, Ids
  <2> QED
    BY <1>1, <2>1, Zenon DEF Once
<1>4. Faithful
  BY <1>1, Zenon DEF Faithful, GrantFaithful, Ids
<1> QED
  BY <1>2, <1>3, <1>4, Zenon DEF AuthInv

\* The steps of a handler that neither take a grant nor issue one.
LEMMA QuietSteps ==
  ASSUME AuthInv, NEW h \in AuthHandlers,
         \/ Authorize(h) \/ authorizePost(h) \/ RegisterClient(h) \/ Marshal(h) \/ OpenTmp(h)
         \/ WriteTmp(h) \/ RenameTmp(h) \/ PersistFails(h) \/ Answer(h)
  PROVE  AuthInv'
<1> USE DEF AuthInv
<1>1. \E from, to : Turn(h, from, to) /\ to.at # "sign"
  <2>1. CASE Authorize(h)
    BY <2>1 DEF Authorize
  <2>2. CASE authorizePost(h)
    BY <2>2 DEF authorizePost
  <2>3. CASE RegisterClient(h)
    BY <2>3 DEF RegisterClient
  <2>4. CASE Marshal(h)
    BY <2>4 DEF Marshal
  <2>5. CASE OpenTmp(h)
    BY <2>5 DEF OpenTmp
  <2>6. CASE WriteTmp(h)
    BY <2>6 DEF WriteTmp
  <2>7. CASE RenameTmp(h)
    BY <2>7 DEF RenameTmp
  <2>8. CASE PersistFails(h)
    BY <2>8 DEF PersistFails
  <2>9. CASE Answer(h)
    BY <2>9 DEF Answer, FreeAsk
  <2> QED
    BY <2>1, <2>2, <2>3, <2>4, <2>5, <2>6, <2>7, <2>8, <2>9, Zenon
<1>2. UNCHANGED <<issued, life, nCodes, codes, refresh, asUp>>
  BY Zenon DEF Authorize, authorizePost, RegisterClient, Marshal, OpenTmp, WriteTmp, RenameTmp,
         PersistFails, Answer, asMaps, asCounts, asFiles
<1>3. /\ asUp = "up" /\ ask'[h].at # "sign" /\ ask' = [g \in AuthHandlers |-> ask'[g]]
      /\ \A g \in AuthHandlers \ {h} : ask'[g] = ask[g]
  BY <1>1, TurnOf, ZenonT(60)
<1>4. Quiet0
  BY <1>1, <1>2, <1>3, Zenon DEF Quiet0
<1>5. Ids' = Ids /\ Copies' = Copies
  BY <1>2, SameCopies, Zenon
<1>6. Signing' \subseteq Signing /\ \A g \in Signing' : ask'[g] = ask[g]
  BY <1>4, Zenon DEF Quiet0, Signing
<1>7. \A s \in sessions' : s.subject \in Users
  <2>1. CASE authorizePost(h)
    BY <2>1 DEF authorizePost, AuthType
  <2>2. CASE ~authorizePost(h)
    BY <2>2, Zenon DEF Authorize, RegisterClient, Marshal, OpenTmp, WriteTmp, RenameTmp,
         PersistFails, Answer, asMaps, AuthType
  <2> QED
    BY <2>1, <2>2, Zenon
<1>8. ask'[h].at = "code" => ask'[h].q \in AuthRequests /\ ask'[h].subject \in Users
  BY <1>3, SMTT(30) DEF Authorize, authorizePost, RegisterClient, Marshal, OpenTmp, WriteTmp, RenameTmp,
         PersistFails, Answer, FreeAsk, Turn, AuthType
<1>9. ask'[h].at \in {"open", "write"} => ask'[h].content.refresh \subseteq Copies
  BY <1>3 DEF Authorize, authorizePost, RegisterClient, Marshal, OpenTmp, WriteTmp, RenameTmp,
         PersistFails, Answer, FreeAsk, Turn, AuthType
<1>10. data' = [i \in Inodes |-> data'[i]] /\ \A i \in Inodes : data'[i].refresh \subseteq Copies
  <2>1. CASE OpenTmp(h)
    BY <2>1, Zenon DEF OpenTmp, AuthType, NoContent
  <2>2. CASE WriteTmp(h)
    <3>1. ask[h].content.refresh \subseteq Copies
      BY <2>2, Zenon DEF WriteTmp, Turn, AuthType
    <3>2. PICK c : c.refresh \subseteq Copies /\ data' = [data EXCEPT ![ask[h].fd] = c]
      BY <2>2, <3>1, Zenon DEF WriteTmp, NoContent
    <3> QED
      BY <3>2, Zenon DEF AuthType
  <2>3. CASE ~(OpenTmp(h) \/ WriteTmp(h))
    BY <2>3, Zenon DEF Authorize, authorizePost, RegisterClient, Marshal, RenameTmp,
         PersistFails, Answer, asFiles, AuthType
  <2> QED
    BY <2>1, <2>2, <2>3, Zenon
<1>11. (asStore' = 0 \/ asStore' \in Inodes) /\ (tmp' = 0 \/ tmp' \in Inodes)
  BY Zenon DEF Authorize, authorizePost, RegisterClient, Marshal, OpenTmp, WriteTmp, RenameTmp,
         PersistFails, Answer, asFiles, AuthType
<1>12. Inodes' = Inodes
  BY Zenon DEF Inodes
<1>13. AuthType'
  BY <1>2, <1>3, <1>5, <1>6, <1>7, <1>8, <1>9, <1>10, <1>11, <1>12, Zenon DEF AuthType
<1> QED
  BY <1>4, <1>13, QuietKeepsOnce, Zenon

\* A code that is issued has a number no request has seen.
LEMMA IssueCodeStep ==
  ASSUME AuthInv, NEW h \in AuthHandlers, issueCode(h)
  PROVE  AuthInv'
<1> USE DEF AuthInv
<1> DEFINE q == ask[h].q
           new == [id |-> nCodes + 1, client |-> q.client, uri |-> q.uri,
                   resource |-> IF q.resource = "" THEN Resource ELSE q.resource,
                   scopes |-> q.scopes, subject |-> ask[h].subject, challenge |-> q.challenge]
<1>1. /\ asUp = "up" /\ ask[h].at = "code" /\ ask'[h] = FreeAsk
      /\ ask' = [g \in AuthHandlers |-> ask'[g]] /\ \A g \in AuthHandlers \ {h} : ask'[g] = ask[g]
  BY TurnOf, Zenon DEF issueCode
<1>2. new \in Grants /\ new.id = nCodes + 1
  <2>1. q \in AuthRequests /\ ask[h].subject \in Users /\ nCodes + 1 \in Nat
    BY <1>1 DEF AuthType
  <2> QED
    BY <2>1, Zenon DEF Grants
<1>3. UNCHANGED <<sessions, refresh, data, tmp, asStore, asUp, issued, life>>
  BY Zenon DEF issueCode, asFiles
<1>4. \/ codes' = codes /\ nCodes' = nCodes
      \/ codes' \subseteq codes \cup {new} /\ nCodes' = nCodes + 1
  BY Zenon DEF issueCode
<1> HIDE DEF new, q
<1>5. Ids' = Ids /\ Copies' = Copies /\ Inodes' = Inodes
  BY <1>3, SameCopies, Zenon DEF Inodes
<1>6. Signing' \subseteq Signing /\ \A g \in Signing' : ask'[g] = ask[g]
  BY <1>1 DEF Signing, FreeAsk
<1>7. AuthType'
  <2>1. codes' \subseteq Grants /\ nCodes' \in Nat
    BY <1>2, <1>4 DEF AuthType
  <2>2. \A g \in AuthHandlers : ask'[g] = ask[g] \/ ask'[g].at = "free"
    BY <1>1 DEF FreeAsk
  <2> QED
    BY <1>1, <1>3, <1>5, <1>6, <2>1, <2>2, Zenon DEF AuthType
<1>8. CASE codes' = codes /\ nCodes' = nCodes
  <2>1. Quiet0
    BY <1>1, <1>3, <1>8 DEF Quiet0, FreeAsk
  <2> QED
    BY <1>7, <2>1, QuietKeepsOnce, Zenon
<1>9. CASE codes' \subseteq codes \cup {new} /\ nCodes' = nCodes + 1
  <2>1. \A c \in codes' : (c \in codes /\ c.id \in 1..nCodes) \/ (c = new /\ c.id = nCodes + 1)
    BY <1>2, <1>9, Zenon DEF Once
  <2>2. nCodes \in Nat
    BY Zenon DEF AuthType
  <2>3. ASSUME NEW src, Spent(src) PROVE Spent(src)'
    BY <1>3, <1>5, <1>9, <2>1, <2>2, <2>3 DEF Spent
  <2>4. SingleUse'
    BY <1>3, Zenon DEF Once, SingleUse
  <2>5. \A t \in Ids' : issued'[t].src.kind = "code" \/ issued'[t].life = life' =>
       Spent(issued[t].src)' /\ \A g \in Signing' : ask'[g].src # issued'[t].src
    BY <1>3, <1>5, <1>6, <2>3, ZenonT(60) DEF Once
  <2>6. \A g \in Signing' : Spent(ask[g].src)'
    BY <1>6, <2>3, Zenon DEF Once
  <2>7. (\A c \in codes' : c.id \in 1..nCodes') /\ (\A c, d \in codes' : c.id = d.id => c = d)
    BY <1>9, <2>1, <2>2 DEF Once
  <2>8. Once'
    BY <1>6, <2>4, <2>5, <2>6, <2>7, Zenon DEF Once
  <2>9. Faithful'
    BY <1>3, <1>5, <1>6 DEF Faithful, GrantFaithful, Entitled, pkceS256
  <2> QED
    BY <1>7, <2>8, <2>9, Zenon
<1> QED
  BY <1>4, <1>8, <1>9, Zenon

\* A handler takes a grant: what it takes it for was in a map and is not any more, so
\* that no other handler has it and no token was issued for it.
LEMMA TakeStep ==
  ASSUME AuthInv, NEW h \in AuthHandlers, asUp = "up", ask[h].at = "free",
         NEW g \in Grants, NEW src \in Sources, NEW by \in Askers,
         ask' = [ask EXCEPT ![h] = Sign(g, src, by)],
         UNCHANGED <<sessions, data, tmp, asStore, asUp, issued, life, nCodes>>,
         codes' \subseteq codes, refresh' \subseteq refresh,
         ~Spent(src), Spent(src)', Entitled(by, g),
         src.kind = "refresh" => src.id \in Ids /\ issued[src.id].grant = g
  PROVE  AuthInv'
<1> USE DEF AuthInv
<1>1. /\ ask'[h] = Sign(g, src, by) /\ ask' = [k \in AuthHandlers |-> ask'[k]]
      /\ \A k \in AuthHandlers \ {h} : ask'[k] = ask[k]
  BY Zenon DEF AuthType
<1>2. Signing' = Signing \cup {h} /\ h \notin Signing /\ \A k \in Signing : ask'[k] = ask[k]
  BY <1>1, Zenon DEF Signing, Sign
<1>3. Ids' = Ids /\ Copies' = Copies /\ Inodes' = Inodes
  BY SameCopies, Zenon DEF Inodes
<1>4. /\ ask'[h].at = "sign" /\ ask'[h].grant = g /\ ask'[h].src = src /\ ask'[h].by = by
  BY <1>1, Zenon DEF Sign
<1>5. AuthType'
  <2>1. \A k \in AuthHandlers : ask'[k] = ask[k] \/ ask'[k].at = "sign"
    BY <1>1, <1>4, Zenon
  <2> QED
    BY <1>1, <1>2, <1>3, <1>4, <2>1, Zenon DEF AuthType
<1>6. ASSUME NEW s, Spent(s) PROVE Spent(s)'
  BY <1>3, <1>6, Zenon DEF Spent
<1>7. Once'
  <2>1. SingleUse'
    BY Zenon DEF Once, SingleUse
  <2>2. ASSUME NEW t \in Ids', issued'[t].src.kind = "code" \/ issued'[t].life = life'
        PROVE  Spent(issued[t].src)' /\ \A k \in Signing' : ask'[k].src # issued'[t].src
    <3>1. Spent(issued[t].src) /\ \A k \in Signing : ask[k].src # issued[t].src
      BY <1>3, <2>2, Zenon DEF Once
    <3> QED
      BY <1>2, <1>4, <1>6, <3>1, Zenon
  <2>3. \A k \in Signing' : Spent(ask[k].src)'
    BY <1>2, <1>4, <1>6, Zenon DEF Once
  <2>4. \A k, l \in Signing' : ask'[k].src = ask'[l].src => k = l
    BY <1>2, <1>4 DEF Once
  <2> QED
    BY <1>3, <2>1, <2>2, <2>3, <2>4, Zenon DEF Once
<1>8. Faithful'
  <2>1. GrantFaithful'
    BY Zenon DEF Faithful, GrantFaithful
  <2>2. \A t \in Ids' : issued'[t].src.kind = "refresh" => issued'[t].src.id \in Ids'
    BY <1>3, Zenon DEF Faithful
  <2> DEFINE Taker(k) == /\ Entitled(ask[k].by, ask[k].grant)
                         /\ ask[k].src.kind = "refresh" =>
                             ask[k].src.id \in Ids /\ issued[ask[k].src.id].grant = ask[k].grant
  <2>3. ASSUME NEW k \in Signing PROVE Taker(k)'
    <3>1. ask'[k] = ask[k]
      BY <1>2, Zenon
    <3> QED
      BY <1>3, <3>1 DEF Faithful, Entitled, pkceS256
  <2>4. Taker(h)'
    BY <1>3, <1>4 DEF Entitled, pkceS256
  <2>5. \A k \in Signing' : Taker(k)'
    <3> HIDE DEF Taker
    <3> QED
      BY <1>2, <2>3, <2>4, Zenon
  <2> QED
    BY <2>1, <2>2, <2>5, Zenon DEF Faithful
<1> QED
  BY <1>5, <1>7, <1>8, Zenon

\* A refused request changes what is in the maps and nothing else.
LEMMA RefuseStep ==
  ASSUME AuthInv, NEW h \in AuthHandlers, asUp = "up", ask[h].at = "free",
         ask' = [ask EXCEPT ![h] = FreeAsk],
         UNCHANGED <<sessions, data, tmp, asStore, asUp, issued, life, nCodes>>,
         codes' \subseteq codes, refresh' \subseteq refresh
  PROVE  AuthInv'
<1> USE DEF AuthInv
<1>1. /\ ask' = [k \in AuthHandlers |-> ask'[k]]
      /\ \A k \in AuthHandlers : ask'[k] = ask[k] \/ ask'[k].at = "free"
  BY Zenon DEF AuthType, FreeAsk
<1>2. Quiet0
  BY <1>1, Zenon DEF Quiet0
<1>3. Ids' = Ids /\ Copies' = Copies /\ Inodes' = Inodes
  BY SameCopies, Zenon DEF Inodes
<1>4. Signing' \subseteq Signing /\ \A g \in Signing' : ask'[g] = ask[g]
  BY <1>1, Zenon DEF Signing
<1>5. AuthType'
  BY <1>1, <1>3, <1>4, Zenon DEF AuthType
<1> QED
  BY <1>2, <1>5, QuietKeepsOnce, Zenon

\* The token endpoint with a code: the code is deleted in the step that issues its grant.
LEMMA TokenCodeStep ==
  ASSUME AuthInv, NEW h \in AuthHandlers, tokenCode(h)
  PROVE  AuthInv'
<1>1. PICK g \in codes, c \in {q.client : q \in AuthRequests} \cup {d.id : d \in dcrClients},
           u \in {q.uri : q \in AuthRequests}, verifier \in Verifiers :
        /\ Turn(h, "free", IF g.id > lapsed.code /\ c = g.client /\ u = g.uri /\ pkceS256(verifier) = g.challenge
                           THEN Sign(g, [kind |-> "code", id |-> g.id],
                                     [client |-> c, uri |-> u, verifier |-> verifier])
                           ELSE FreeAsk)
        /\ codes' = codes \ {g}
  BY Zenon DEF tokenCode
<1>2. UNCHANGED <<sessions, data, tmp, asStore, asUp, issued, life, nCodes, refresh>>
  BY Zenon DEF tokenCode, asFiles, asCounts
<1>3. asUp = "up" /\ ask[h].at = "free"
  BY <1>1, Zenon DEF Turn
<1> DEFINE src == [kind |-> "code", id |-> g.id]
           by == [client |-> c, uri |-> u, verifier |-> verifier]
<1>4. CASE c = g.client /\ u = g.uri /\ pkceS256(verifier) = g.challenge /\ g.id > lapsed.code
  <2>1. g \in Grants /\ g.id \in Nat /\ g.client \in {q.client : q \in AuthRequests}
    BY Zenon DEF AuthInv, AuthType, Grants
  <2>2. src \in Sources /\ src.kind = "code" /\ src.id = g.id
    BY <2>1, Zenon DEF Sources
  <2>3. by \in Askers /\ Entitled(by, g)
    BY <1>4, <2>1, Zenon DEF Askers, Entitled
  <2>4. ask' = [ask EXCEPT ![h] = Sign(g, src, by)]
    BY <1>1, <1>4, Zenon DEF Turn
  <2> HIDE DEF src, by
  <2>5. ~Spent(src)
    BY <2>2, Zenon DEF Spent
  <2>6. Spent(src)'
    BY <1>1, <1>2, <2>2, Zenon DEF Spent, AuthInv, Once
  <2> QED
    BY <1>1, <1>2, <1>3, <2>1, <2>2, <2>3, <2>4, <2>5, <2>6, TakeStep, Zenon
<1>5. CASE ~(c = g.client /\ u = g.uri /\ pkceS256(verifier) = g.challenge /\ g.id > lapsed.code)
  <2>1. ask' = [ask EXCEPT ![h] = FreeAsk]
    BY <1>1, <1>5, Zenon DEF Turn
  <2> QED
    BY <1>1, <1>2, <1>3, <2>1, RefuseStep, Zenon
<1> QED
  BY <1>4, <1>5, Zenon

\* The token endpoint with a refresh token: one pair of tokens replaces another.
LEMMA TokenRefreshStep ==
  ASSUME AuthInv, NEW h \in AuthHandlers, tokenRefresh(h)
  PROVE  AuthInv'
<1>1. PICK g \in refresh, c \in {q.client : q \in AuthRequests} \cup {d.id : d \in dcrClients} :
        /\ Turn(h, "free", IF g.id > lapsed.token /\ c = g.grant.client
                           THEN Sign(g.grant, [kind |-> "refresh", id |-> g.id],
                                     [issued[g.id].by EXCEPT !.client = c])
                           ELSE FreeAsk)
        /\ refresh' = refresh \ {g}
  BY Zenon DEF tokenRefresh
<1>2. UNCHANGED <<sessions, data, tmp, asStore, asUp, issued, life, nCodes, codes>>
  BY Zenon DEF tokenRefresh, asFiles, asCounts
<1>3. asUp = "up" /\ ask[h].at = "free"
  BY <1>1, Zenon DEF Turn
<1> DEFINE src == [kind |-> "refresh", id |-> g.id]
           by == [issued[g.id].by EXCEPT !.client = c]
<1>4. CASE c = g.grant.client /\ g.id > lapsed.token
  <2>1. g \in Copies /\ issued \in Seq(Issues)
    BY Zenon DEF AuthInv, AuthType
  <2>2. g.grant \in Grants /\ g.id \in Nat /\ g.id \in Ids /\ g.grant = issued[g.id].grant
    BY <2>1, Zenon DEF Copies
  <2>3. issued[g.id] \in Issues
    BY <2>1, <2>2 DEF Ids
  <2>4. Entitled(issued[g.id].by, g.grant)
    BY <2>2, Zenon DEF AuthInv, Faithful, GrantFaithful, Entitled, Ids
  <2>5. by = issued[g.id].by
    <3>1. issued[g.id].by \in Askers
      BY <2>3, Zenon DEF Issues
    <3> QED
      BY <1>4, <2>4, <3>1, Zenon DEF Askers, Entitled
  <2>6. by \in Askers /\ Entitled(by, g.grant)
    BY <2>3, <2>4, <2>5, Zenon DEF Issues
  <2>7. src \in Sources /\ src.kind = "refresh" /\ src.id = g.id
    BY <2>2, Zenon DEF Sources
  <2>8. ask' = [ask EXCEPT ![h] = Sign(g.grant, src, by)]
    BY <1>1, <1>4, Zenon DEF Turn
  <2> HIDE DEF src, by
  <2>9. ~Spent(src)
    BY <2>7, Zenon DEF Spent
  <2>10. ASSUME NEW r \in refresh', r.id = g.id PROVE FALSE
    <3>1. r \in Copies /\ r # g
      BY <1>1, Zenon DEF AuthInv, AuthType
    <3>2. r \in [id : Nat, grant : Grants] /\ g \in [id : Nat, grant : Grants] /\ r.grant = g.grant
      BY <2>1, <2>2, <2>10, <3>1, Zenon DEF Copies
    <3> QED
      BY <2>10, <3>1, <3>2
  <2>11. Spent(src)'
    BY <1>2, <2>2, <2>7, <2>10, Zenon DEF Spent, Ids
  <2> QED
    BY <1>1, <1>2, <1>3, <2>2, <2>6, <2>7, <2>8, <2>9, <2>11, TakeStep, Zenon
<1>5. CASE ~(c = g.grant.client /\ g.id > lapsed.token)
  <2>1. ask' = [ask EXCEPT ![h] = FreeAsk]
    BY <1>1, <1>5, Zenon DEF Turn
  <2> QED
    BY <1>1, <1>2, <1>3, <2>1, RefuseStep, Zenon
<1> QED
  BY <1>4, <1>5, Zenon

\* A token is issued: its number is new, and its source leaves the handler for it.
LEMMA IssueTokensStep ==
  ASSUME AuthInv, NEW h \in AuthHandlers, issueTokens(h)
  PROVE  AuthInv'
<1> USE DEF AuthInv
<1> DEFINE a == ask[h]
           n == Len(issued) + 1
           new == [src |-> a.src, by |-> a.by, grant |-> a.grant, life |-> life]
           rec == [id |-> n, grant |-> a.grant]
<1>1. /\ asUp = "up" /\ a.at = "sign" /\ ask'[h].at = "persist"
      /\ ask' = [g \in AuthHandlers |-> ask'[g]] /\ \A g \in AuthHandlers \ {h} : ask'[g] = ask[g]
  <2>1. Turn(h, "sign", [at |-> "persist", reply |-> [kind |-> "token", id |-> n]])
    BY Zenon DEF issueTokens
  <2> QED
    BY <2>1, TurnOf
<1>2. /\ UNCHANGED <<data, tmp, asStore, asUp, life, nCodes, codes>> /\ sessions' \subseteq sessions
      /\ issued' = Append(issued, new) /\ refresh' \subseteq refresh \cup {rec}
  BY Zenon DEF issueTokens, asFiles, asCounts, prune
<1>3. h \in Signing /\ a.grant \in Grants /\ a.src \in Sources /\ a.by \in Askers
  BY <1>1, Zenon DEF Signing, AuthType
<1>4. new \in Issues /\ new.src = a.src /\ new.by = a.by /\ new.grant = a.grant /\ new.life = life
  BY <1>3, Zenon DEF Issues, AuthType
<1>5. n \in Nat /\ rec \in [id : Nat, grant : Grants] /\ rec.id = n /\ rec.grant = a.grant
  BY <1>3 DEF AuthType
<1> HIDE DEF new, rec
<1>6. /\ issued' \in Seq(Issues) /\ Len(issued') = n /\ issued'[n] = new
      /\ \A t \in Ids : issued'[t] = issued[t]
  BY <1>2, <1>4 DEF AuthType, Ids
<1>7. Ids' = Ids \cup {n} /\ n \notin Ids /\ (\A t \in Ids : t < n) /\ Inodes' = Inodes
  BY <1>5, <1>6 DEF Ids, Inodes, AuthType
<1> HIDE DEF n
<1>8. Copies \subseteq Copies' /\ rec \in Copies'
  BY <1>4, <1>5, <1>6, <1>7, Zenon DEF Copies
<1>9. Signing' = Signing \ {h} /\ \A g \in Signing' : ask'[g] = ask[g]
  BY <1>1, Zenon DEF Signing
<1>10. AuthType'
  <2>1. refresh' \subseteq Copies'
    BY <1>2, <1>8, Zenon DEF AuthType
  <2>2. ASSUME NEW t \in Ids' PROVE issued'[t].life <= life'
    <3>1. life \in Nat /\ life' = life
      BY <1>2, Zenon DEF AuthType
    <3>2. CASE t \in Ids
      BY <1>6, <3>1, <3>2, Zenon DEF AuthType
    <3>3. CASE t = n
      BY <1>4, <1>6, <3>1, <3>3
    <3> QED
      BY <1>7, <3>2, <3>3, Zenon
  <2>3. \A g \in AuthHandlers : ask'[g] = ask[g] \/ ask'[g].at = "persist"
    BY <1>1, Zenon
  <2>4. /\ \A g \in AuthHandlers : ask'[g].at \in {"open", "write"} => ask'[g].content.refresh \subseteq Copies'
        /\ \A i \in Inodes : data'[i].refresh \subseteq Copies'
    BY <1>2, <1>8, <2>3, Zenon DEF AuthType
  <2> QED
    BY <1>1, <1>2, <1>6, <1>7, <1>9, <2>1, <2>2, <2>3, <2>4, Zenon DEF AuthType
<1>11. ASSUME NEW s, Spent(s) PROVE Spent(s)'
  BY <1>2, <1>5, <1>7, <1>11, Zenon DEF Spent
<1>12. \A t \in Ids : issued[t].src.kind = "code" \/ issued[t].life = life => issued[t].src # a.src
  BY <1>3, Zenon DEF Once
<1>13. Once'
  <2>1. ASSUME NEW s \in Ids', NEW t \in Ids', issued'[s].src = issued'[t].src,
               issued'[s].src.kind = "code" \/ issued'[s].life = issued'[t].life
        PROVE  s = t
    <3>1. CASE s \in Ids /\ t \in Ids
      BY <1>6, <2>1, <3>1, Zenon DEF Once, SingleUse, Ids
    <3>2. CASE s = n /\ t \in Ids
      BY <1>4, <1>6, <1>12, <2>1, <3>2, Zenon
    <3>3. CASE s \in Ids /\ t = n
      BY <1>4, <1>6, <1>12, <2>1, <3>3, Zenon
    <3> QED
      BY <1>7, <2>1, <3>1, <3>2, <3>3, Zenon
  <2>2. SingleUse'
    BY <2>1, Zenon DEF SingleUse, Ids
  <2>3. ASSUME NEW t \in Ids', issued'[t].src.kind = "code" \/ issued'[t].life = life'
        PROVE  Spent(issued[t].src)' /\ \A g \in Signing' : ask'[g].src # issued'[t].src
    <3>1. CASE t \in Ids
      <4>1. issued'[t] = issued[t] /\ life' = life
        BY <1>2, <1>6, <3>1, Zenon
      <4>2. Spent(issued[t].src) /\ \A g \in Signing : ask[g].src # issued[t].src
        BY <2>3, <3>1, <4>1, Zenon DEF Once
      <4> QED
        BY <1>9, <1>11, <4>1, <4>2, Zenon
    <3>2. CASE t = n
      BY <1>3, <1>4, <1>6, <1>9, <1>11, <3>2 DEF Once
    <3> QED
      BY <1>7, <3>1, <3>2, Zenon
  <2>4. \A g \in Signing' : Spent(ask[g].src)'
    BY <1>9, <1>11, Zenon DEF Once
  <2>5. \A g, k \in Signing' : ask'[g].src = ask'[k].src => g = k
    BY <1>9 DEF Once
  <2>6. (\A c \in codes' : c.id \in 1..nCodes') /\ (\A c, d \in codes' : c.id = d.id => c = d)
    BY <1>2, Zenon DEF Once
  <2> QED
    BY <2>2, <2>3, <2>4, <2>5, <2>6, Zenon DEF Once
<1>14. Faithful'
  <2>1. ASSUME NEW t \in Ids'
        PROVE  /\ Entitled(issued'[t].by, issued'[t].grant)
               /\ issued'[t].src.kind = "refresh" =>
                    issued'[t].src.id < t /\ issued'[issued'[t].src.id].grant = issued'[t].grant
    <3>1. CASE t \in Ids
      <4>1. /\ Entitled(issued[t].by, issued[t].grant)
            /\ issued[t].src.kind = "refresh" =>
                 issued[t].src.id < t /\ issued[issued[t].src.id].grant = issued[t].grant
        BY <3>1, Zenon DEF Faithful, GrantFaithful, Entitled, Ids
      <4>2. issued[t].src.kind = "refresh" => issued[t].src.id \in Ids
        BY <3>1, Zenon DEF Faithful
      <4> QED
        BY <1>6, <3>1, <4>1, <4>2, Zenon DEF Entitled
    <3>2. CASE t = n
      BY <1>3, <1>4, <1>6, <1>7, <3>2 DEF Faithful
    <3> QED
      BY <1>7, <3>1, <3>2, Zenon
  <2>2. GrantFaithful'
    BY <2>1, Zenon DEF GrantFaithful, Entitled, Ids, pkceS256
  <2>3. ASSUME NEW g \in Signing'
        PROVE  /\ Entitled(ask'[g].by, ask'[g].grant)
               /\ ask'[g].src.kind = "refresh" =>
                    ask'[g].src.id \in Ids' /\ issued'[ask'[g].src.id].grant = ask'[g].grant
    BY <1>6, <1>7, <1>9 DEF Faithful
  <2>4. \A t \in Ids' : issued'[t].src.kind = "refresh" => issued'[t].src.id \in Ids'
    BY <1>3, <1>4, <1>6, <1>7, ZenonT(60) DEF Faithful
  <2> QED
    BY <2>2, <2>3, <2>4, Zenon DEF Faithful, Entitled, pkceS256
<1> QED
  BY <1>10, <1>13, <1>14, Zenon

\* A crash empties the maps, and the next life begins with copies of what was issued.
LEMMA CrashStep ==
  ASSUME AuthInv, CrashServer
  PROVE  AuthInv'
<1> USE DEF AuthInv, CrashServer
<1>1. \A h \in AuthHandlers : ask'[h].at = "free"
  BY Zenon DEF FreeAsk
<1>2. Quiet0
  BY <1>1, Zenon DEF Quiet0, asCounts
<1>3. Ids' = Ids /\ Copies' = Copies /\ Inodes' = Inodes
  BY SameCopies, Zenon DEF Inodes
<1>4. Signing' = {}
  BY <1>1, Zenon DEF Signing
<1>5. AuthType'
  BY <1>1, <1>3, <1>4, Zenon DEF AuthType, asFiles, asCounts
<1> QED
  BY <1>2, <1>5, QuietKeepsOnce, Zenon

\* load: after a restart memory is what was last saved.
LEMMA LoadStep ==
  ASSUME AuthInv, loadStore
  PROVE  AuthInv'
<1> USE DEF AuthInv
<1>1. /\ UNCHANGED <<codes, ask, data, tmp, asStore, issued, nCodes>> /\ asUp = "down"
      /\ life' = life + 1 /\ sessions' \subseteq sessions
  BY Zenon DEF loadStore, asFiles, asCounts, prune
<1>2. Ids' = Ids /\ Copies' = Copies /\ Inodes' = Inodes
  BY <1>1, SameCopies, Zenon DEF Inodes
<1>3. Signing = {} /\ Signing' = {}
  BY <1>1, Zenon DEF Signing, AuthType
<1>4. refresh' \subseteq Copies
  BY Zenon DEF loadStore, prune, AuthType, NoContent
<1>5. life \in Nat /\ \A t \in Ids : issued[t] \in Issues /\ issued[t].life <= life
  BY DEF AuthType, Ids
<1>6. \A t \in Ids : issued[t].life \in Nat /\ issued[t].life <= life' /\ issued[t].life # life'
  BY <1>1, <1>5 DEF Issues
<1>7. AuthType'
  BY <1>1, <1>2, <1>3, <1>4, <1>5, <1>6 DEF AuthType
<1>8. Once'
  <2>1. SingleUse'
    BY <1>1, Zenon DEF Once, SingleUse
  <2>2. ASSUME NEW t \in Ids', issued'[t].src.kind = "code" \/ issued'[t].life = life'
        PROVE  Spent(issued[t].src)'
    <3>1. issued[t].src.kind = "code" /\ Spent(issued[t].src)
      BY <1>1, <1>2, <1>6, <2>2, Zenon DEF Once
    <3> QED
      BY <1>1, <3>1, Zenon DEF Spent
  <2> QED
    BY <1>1, <1>3, <2>1, <2>2, Zenon DEF Once
<1>9. Faithful'
  BY <1>1, <1>2, <1>3, Zenon DEF Faithful, GrantFaithful, Entitled, pkceS256
<1> QED
  BY <1>7, <1>8, <1>9, Zenon

\* Every step of the server, of the clients' hosts and of the clock keeps the invariant.
LEMMA AuthInvStep ==
  ASSUME AuthInv, [AuthNext]_authVars
  PROVE  AuthInv'
<1>1. ASSUME NEW h \in AuthHandlers, AuthStep(h) PROVE AuthInv'
  BY <1>1, QuietSteps, IssueCodeStep, TokenCodeStep, TokenRefreshStep, IssueTokensStep, Zenon DEF AuthStep
<1>2. CASE UNCHANGED <<asMaps, ask, asFiles, asUp, issued, life, asCounts>>
  <2>1. UNCHANGED <<sessions, codes, refresh, ask, data, tmp, asStore, asUp, issued, life, nCodes>>
    BY <1>2, Zenon DEF asMaps, asFiles, asCounts
  <2>2. Quiet0
    BY <2>1, Zenon DEF Quiet0
  <2>3. Ids' = Ids /\ Copies' = Copies /\ Inodes' = Inodes /\ Signing' = Signing
    BY <2>1, SameCopies, Zenon DEF Inodes, Signing
  <2>4. AuthType'
    BY <2>1, <2>3, Zenon DEF AuthType, AuthInv
  <2> QED
    BY <2>2, <2>4, QuietKeepsOnce, Zenon DEF AuthInv
<1>3. CASE TimePasses \/ (\E c \in CimdClients : DocumentChanges(c)) \/ UNCHANGED authVars
  BY <1>2, <1>3, Zenon DEF TimePasses, Passes, DocumentChanges, authVars
<1> QED
  BY <1>1, <1>3, CrashStep, LoadStep, Zenon DEF AuthNext

\* SingleUse for any number of handlers, requests, crashes and reloads: no code, and in
\* one life of the process no refresh token, is exchanged twice, as tokenCode and
\* tokenRefresh delete the entry in the step that finds it.
THEOREM CodesSpentOnce == AuthSpec => []SingleUse
<1>1. AuthInv => SingleUse
  BY Zenon DEF AuthInv, Once
<1> QED
  BY <1>1, AuthInvInit, AuthInvStep, PTL DEF AuthSpec

\* GrantFaithful for any chain of refreshes, through restarts from any store persist may
\* leave: a token carries the grant of the login at its start, to the client that had it.
THEOREM GrantsKept == AuthSpec => []GrantFaithful
<1>1. AuthInv => GrantFaithful
  BY Zenon DEF AuthInv, Faithful
<1> QED
  BY <1>1, AuthInvInit, AuthInvStep, PTL DEF AuthSpec

-----------------------------------------------------------------------------
(* The store: what is answered survives a restart. *)

\* What was answered is in a store with these clients and tokens, when the live tokens
\* and the issued ones are these: a client is there, a token is there unless it was
\* used, and the token it replaces is not.
Has(a, clients, tokens, live, log) ==
  IF a.kind = "client" THEN \E d \in clients : d.id = ClientIDs[a.id]
  ELSE /\ (\E r \in live : r.id = a.id) => \E r \in tokens : r.id = a.id
       /\ log[a.id].src.kind = "refresh" => ~\E r \in tokens : r.id = log[a.id].src.id
Settled == answered \cup {ask[h].reply : h \in {g \in AuthHandlers : ask[g].at = "answer"}}
Complete(c, h) ==
  /\ c.kind = "json"
  /\ \A a \in Settled \cup {ask[h].reply} : Has(a, c.clients, c.refresh, refresh, issued)

\* While persist neither failed nor overlapped: one handler is in it, alone with the
\* temporary file, and the store, the maps and the file on its way to be the store have
\* all that was answered, the last two also what the handler is to answer.
OnePersists == \A g, h \in AuthHandlers : Persisting(g) /\ Persisting(h) => g = h
StoreGood ==
  /\ tmp # 0 => tmp # asStore
  /\ asStore # 0 => Stored.kind = "json"
  /\ \A a \in Settled : Has(a, Stored.clients, Stored.refresh, refresh, issued)
MapsGood ==
  /\ asUp = "up" => \A a \in Settled : Has(a, dcrClients, refresh, refresh, issued)
  /\ \A h \in AuthHandlers : Persisting(h) => Has(ask[h].reply, dcrClients, refresh, refresh, issued)
InFlight(h) ==
  /\ ask[h].at \in {"open", "write"} => Complete(ask[h].content, h)
  /\ ask[h].at = "write" => ask[h].fd = tmp /\ tmp # 0 /\ data[tmp] = NoContent
  /\ ask[h].at = "rename" => tmp # 0 /\ Complete(data[tmp], h)
CalmInv == OnePersists /\ StoreGood /\ MapsGood /\ \A h \in AuthHandlers : InFlight(h)

\* What is answered was issued, and handlers run only in a server that is up.
Known(a) == a.kind # "client" => a.id \in Ids
Busy(at) == at \in {"persist", "open", "write", "rename", "answer"}
RepliesInv ==
  /\ \A a \in answered : Known(a)
  /\ \A h \in AuthHandlers : Busy(ask[h].at) => Known(ask[h].reply)
  /\ asUp # "up" => \A h \in AuthHandlers : ask[h].at = "free"
  /\ calm \in BOOLEAN
DurableInv == RepliesInv /\ (calm => CalmInv)

\* A step outside persist: the maps lose tokens at most, and no handler enters or leaves it.
Aside ==
  /\ UNCHANGED <<dcrClients, issued, answered, data, tmp, asStore, asUp, calm>>
  /\ refresh' \subseteq refresh
  /\ \A h \in AuthHandlers : ask'[h] = ask[h] \/ (~Busy(ask[h].at) /\ ~Busy(ask'[h].at))
  /\ asUp # "up" => ask' = ask

\* Such a step leaves every store as complete as it was.
LEMMA AsideKeeps ==
  ASSUME DurableInv, Aside
  PROVE  DurableInv'
<1> USE DEF DurableInv, Aside
<1>1. Ids' = Ids
  BY Zenon DEF Ids
<1>2. \A h \in AuthHandlers : Busy(ask[h].at) \/ Busy(ask'[h].at) => ask'[h] = ask[h]
  BY Zenon
<1>3. RepliesInv'
  BY <1>1, <1>2, Zenon DEF RepliesInv, Known
<1>4. Settled' = Settled
  BY <1>2, Zenon DEF Settled, Busy
<1>5. \A h \in AuthHandlers : Persisting(h) \/ Persisting(h)' => ask'[h] = ask[h]
  BY <1>2, Zenon DEF Busy, Persisting
<1>6. \A a, C, T : Has(a, C, T, refresh, issued) => Has(a, C, T, refresh', issued)
  BY Zenon DEF Has
<1>7. \A a, C : Has(a, C, refresh, refresh, issued) => Has(a, C, refresh', refresh', issued)
  BY Zenon DEF Has
<1>8. ASSUME calm PROVE CalmInv'
  <2>1. OnePersists'
    BY <1>5, <1>8, Zenon DEF CalmInv, OnePersists, Persisting
  <2>2. StoreGood'
    BY <1>4, <1>6, <1>8, Zenon DEF CalmInv, StoreGood, Stored
  <2>3. MapsGood'
    BY <1>4, <1>5, <1>7, <1>8, Zenon DEF CalmInv, MapsGood, Persisting
  <2>4. ASSUME NEW h \in AuthHandlers PROVE InFlight(h)'
    <3>1. InFlight(h)
      BY <1>8, Zenon DEF CalmInv
    <3>2. \A c : ask'[h] = ask[h] /\ Complete(c, h) => c.kind = "json" /\ \A a \in Settled' \cup {ask'[h].reply} : Has(a, c.clients, c.refresh, refresh', issued')
      BY <1>4, <1>6, Zenon DEF Complete
    <3>3. ask'[h].at \in {"open", "write", "rename"} => ask'[h] = ask[h]
      BY <1>5, Zenon DEF Persisting
    <3> QED
      BY <3>1, <3>2, <3>3, Zenon DEF InFlight, Complete
  <2> QED
    BY <2>1, <2>2, <2>3, <2>4, Zenon DEF CalmInv
<1> QED
  BY <1>3, <1>8, Zenon

\* Requests that are refused, logged in or given a code, a code or a token that is
\* taken, the clock and the clients' hosts are outside persist.
LEMMA AsideSteps ==
  ASSUME AuthType,
         \/ \E h \in AuthHandlers : \/ Authorize(h) \/ authorizePost(h) \/ issueCode(h)
                                    \/ tokenCode(h) \/ tokenRefresh(h)
         \/ TimePasses \/ (\E c \in CimdClients : DocumentChanges(c)) \/ UNCHANGED authVars
  PROVE  Aside
<1>1. ASSUME NEW h \in AuthHandlers, Authorize(h) \/ authorizePost(h) \/ issueCode(h) \/ tokenCode(h) \/ tokenRefresh(h)
      PROVE  Aside
  <2>1. /\ UNCHANGED <<dcrClients, issued, answered, data, tmp, asStore, asUp, calm>>
        /\ refresh' \subseteq refresh
    BY <1>1, Zenon DEF Authorize, authorizePost, issueCode, tokenCode, tokenRefresh, asMaps, asFiles
  <2>2. \E from, to : Turn(h, from, to) /\ ~Busy(from) /\ ~Busy(to.at)
    <3>1. CASE Authorize(h)
      BY <3>1 DEF Authorize, Busy
    <3>2. CASE authorizePost(h)
      BY <3>2 DEF authorizePost, Busy
    <3>3. CASE issueCode(h)
      <4>1. Turn(h, "code", FreeAsk)
        BY <3>3, Zenon DEF issueCode
      <4> QED
        BY <4>1 DEF Busy, FreeAsk
    <3>4. CASE tokenCode(h)
      <4>1. \E g, src, by : Turn(h, "free", Sign(g, src, by)) \/ Turn(h, "free", FreeAsk)
        BY <3>4, Zenon DEF tokenCode
      <4> QED
        BY <4>1 DEF Busy, FreeAsk, Sign
    <3>5. CASE tokenRefresh(h)
      <4>1. \E g, src, by : Turn(h, "free", Sign(g, src, by)) \/ Turn(h, "free", FreeAsk)
        BY <3>5, Zenon DEF tokenRefresh
      <4> QED
        BY <4>1 DEF Busy, FreeAsk, Sign
    <3> QED
      BY <1>1, <3>1, <3>2, <3>3, <3>4, <3>5, Zenon
  <2>3. asUp = "up" /\ \A g \in AuthHandlers : ask'[g] = ask[g] \/ (~Busy(ask[g].at) /\ ~Busy(ask'[g].at))
    BY <2>2, TurnOf
  <2> QED
    BY <2>1, <2>3, Zenon DEF Aside
<1>2. CASE UNCHANGED <<asMaps, ask, asFiles, asUp, issued, answered, calm>>
  BY <1>2, Zenon DEF Aside, asMaps, asFiles
<1> QED
  BY <1>1, <1>2, Zenon DEF TimePasses, Passes, DocumentChanges, authVars

\* A handler that goes through persist turns to its next step.
LEMMA Goes ==
  ASSUME AuthType, RepliesInv, NEW h \in AuthHandlers, NEW from, NEW to, Turn(h, from, to),
         Len(issued) <= Len(issued)', Busy(to.at) => Known(to.reply)',
         \A a \in answered' : a \in answered \/ (a = ask[h].reply /\ Busy(from)),
         calm' \in BOOLEAN, asUp' = asUp
  PROVE  RepliesInv'
<1>1. /\ asUp = "up" /\ ask[h].at = from /\ ask'[h] = to
      /\ \A g \in AuthHandlers \ {h} : ask'[g] = ask[g]
  BY TurnOf, Zenon
<1>2. \A a : Known(a) => Known(a)'
  <2>1. Len(issued) \in Nat
    BY DEF AuthType
  <2>2. Ids \subseteq Ids'
    BY <2>1 DEF Ids
  <2> QED
    BY <2>2, Zenon DEF Known
<1> QED
  BY <1>1, <1>2, Zenon DEF RepliesInv


\* A handler enters persist: issueTokens and RegisterClient have added to the maps what
\* it is to answer, and no other handler is in it.
LEMMA EnterKeeps ==
  ASSUME AuthInv, DurableInv, NEW h \in AuthHandlers, issueTokens(h) \/ RegisterClient(h)
  PROVE  DurableInv'
<1> USE DEF DurableInv, AuthInv
<1>1. PICK from, to : ~Busy(from) /\ Turn(h, from, to) /\ to.at = "persist"
  <2>1. CASE issueTokens(h)
    BY <2>1 DEF issueTokens, Busy
  <2>2. CASE RegisterClient(h)
    BY <2>2 DEF RegisterClient, Busy
  <2> QED
    BY <2>1, <2>2, Zenon
<1>2. /\ asUp = "up" /\ ask[h].at = from /\ ask'[h] = to
      /\ \A g \in AuthHandlers \ {h} : ask'[g] = ask[g]
  BY <1>1, TurnOf, Zenon
<1>3. UNCHANGED <<answered, data, tmp, asStore, asUp>> /\ Save(h) /\ dcrClients \subseteq dcrClients'
  BY Zenon DEF issueTokens, RegisterClient, asFiles
<1>4. calm' => calm /\ \A g \in AuthHandlers \ {h} : ~Persisting(g)
  BY <1>3, Zenon DEF Save
<1>5. Len(issued) \in Nat /\ Len(issued) <= Len(issued)' /\ \A t \in Ids : issued'[t] = issued[t]
  <2>1. CASE issueTokens(h)
    BY <2>1 DEF issueTokens, AuthType, Ids
  <2>2. CASE RegisterClient(h)
    BY <2>2 DEF RegisterClient, AuthType
  <2> QED
    BY <2>1, <2>2, Zenon
\* Only a token with a number that was not issued is new to the map.
<1>6. \A r \in refresh' : r \in refresh \/ (issueTokens(h) /\ r.id = Len(issued) + 1)
  <2>1. CASE issueTokens(h)
    <3> DEFINE new == [id |-> Len(issued) + 1, grant |-> ask[h].grant]
    <3>1. prune(refresh \cup {new})
      BY <2>1, Zenon DEF issueTokens
    <3>2. \A r \in refresh' : r \in refresh \/ r = new
      BY <3>1, Zenon DEF prune
    <3>3. new.id = Len(issued) + 1
      BY Zenon
    <3> HIDE DEF new
    <3> QED
      BY <2>1, <3>2, <3>3, Zenon
  <2>2. CASE RegisterClient(h)
    BY <2>2, Zenon DEF RegisterClient
  <2> QED
    BY <2>1, <2>2, Zenon
<1>7. ASSUME NEW a, Known(a), NEW C, NEW D, C \subseteq D, NEW T, Has(a, C, T, refresh, issued)
      PROVE  Has(a, D, T, refresh', issued')
  <2>1. CASE a.kind = "client"
    BY <1>7, <2>1, Zenon DEF Has
  <2>2. CASE a.kind # "client"
    <3>1. a.id \in Ids /\ issued'[a.id] = issued[a.id] /\ a.id # Len(issued) + 1
      BY <1>5, <1>7, <2>2 DEF Known, Ids
    <3> QED
      BY <1>6, <1>7, <2>2, <3>1, Zenon DEF Has
  <2> QED
    BY <2>1, <2>2, Zenon
<1>8. ASSUME NEW a, Known(a), Has(a, dcrClients, refresh, refresh, issued)
      PROVE  Has(a, dcrClients', refresh', refresh', issued')
  <2>1. CASE a.kind = "client"
    BY <1>3, <1>8, <2>1, Zenon DEF Has
  <2>2. CASE a.kind # "client"
    <3>1. a.id \in Ids /\ issued'[a.id] = issued[a.id]
      BY <1>5, <1>8, <2>2, Zenon DEF Known
    <3>2. issued[a.id].src.kind = "refresh" => issued[a.id].src.id # Len(issued) + 1
      <4>1. issued[a.id].src.kind = "refresh" => issued[a.id].src.id \in Ids
        BY <3>1, Zenon DEF Faithful
      <4>2. Len(issued) + 1 \notin Ids
        BY <1>5 DEF Ids
      <4> QED
        BY <4>1, <4>2, Zenon
    <3> QED
      BY <1>6, <1>8, <2>2, <3>1, <3>2, Zenon DEF Has
  <2> QED
    BY <2>1, <2>2, Zenon
<1>9. Known(to.reply)' /\ Has(to.reply, dcrClients', refresh', refresh', issued')
  <2>1. CASE issueTokens(h)
    <3>1. /\ to.reply = [kind |-> "token", id |-> Len(issued) + 1]
          /\ issued'[Len(issued) + 1].src = ask[h].src /\ Len(issued)' = Len(issued) + 1
          /\ h \in Signing
      BY <1>2, <2>1 DEF issueTokens, Turn, AuthType, Signing
    <3>2. ask[h].src.kind = "refresh" => ask[h].src.id \in Ids /\ \A r \in refresh : r.id # ask[h].src.id
      BY <3>1, Zenon DEF Once, Spent
    <3>3. ask[h].src.kind = "refresh" => \A r \in refresh' : r.id # ask[h].src.id
      BY <1>5, <1>6, <3>2 DEF Ids
    <3>4. /\ to.reply.kind # "client" /\ to.reply.id = Len(issued) + 1
          /\ issued'[to.reply.id].src = ask[h].src
      BY <3>1
    <3>5. Len(issued) + 1 \in Ids'
      BY <1>5, <3>1 DEF Ids
    <3> QED
      BY <3>3, <3>4, <3>5, Zenon DEF Has, Known
  <2>2. CASE RegisterClient(h)
    <3>1. to.reply = [kind |-> "client", id |-> nClients + 1]
      BY <1>2, <2>2 DEF RegisterClient, Turn, AuthType
    <3>2. \E d \in dcrClients' : d.id = ClientIDs[nClients + 1]
      <4>1. PICK uris : dcrClients' = dcrClients \cup {[id |-> ClientIDs[nClients + 1], uris |-> uris]}
        BY <2>2, Zenon DEF RegisterClient
      <4>2. PICK d : d = [id |-> ClientIDs[nClients + 1], uris |-> uris]
        BY Zenon
      <4>3. d \in dcrClients' /\ d.id = ClientIDs[nClients + 1]
        BY <4>1, <4>2, Zenon
      <4> QED
        BY <4>3, Zenon
    <3>3. to.reply.kind = "client" /\ to.reply.id = nClients + 1
      BY <3>1
    <3> QED
      BY <3>2, <3>3, Zenon DEF Has, Known
  <2> QED
    BY <2>1, <2>2, Zenon
<1>10. RepliesInv'
  <2>1. calm' \in BOOLEAN
    BY <1>3, Zenon DEF Save
  <2> QED
    BY <1>1, <1>3, <1>5, <1>9, <2>1, Goes, Zenon
<1>11. ASSUME calm' PROVE CalmInv'
  <2>1. \A g \in AuthHandlers : Persisting(g)' => g = h
    BY <1>2, <1>4, <1>11, Zenon DEF Persisting
  <2>2. Settled' = Settled /\ \A a \in Settled : Known(a)
    BY <1>1, <1>2, <1>3, ZenonT(60) DEF Settled, Busy, RepliesInv
  <2>3. CalmInv
    BY <1>4, <1>11, Zenon
  <2>4. StoreGood'
    BY <1>3, <1>7, <2>2, <2>3, Zenon DEF CalmInv, StoreGood, Stored
  <2>5. MapsGood'
    <3>1. \A a \in Settled' : Has(a, dcrClients', refresh', refresh', issued')
      BY <1>2, <1>8, <2>2, <2>3, Zenon DEF CalmInv, MapsGood
    <3>2. ASSUME NEW g \in AuthHandlers, Persisting(g)'
          PROVE  Has(ask'[g].reply, dcrClients', refresh', refresh', issued')
      BY <1>2, <1>9, <2>1, <3>2, Zenon
    <3> QED
      BY <3>1, <3>2, Zenon DEF MapsGood
  <2>6. \A g \in AuthHandlers : InFlight(g)'
    BY <1>1, <1>2, <2>1, Zenon DEF InFlight, Persisting
  <2> QED
    BY <2>1, <2>4, <2>5, <2>6, Zenon DEF CalmInv, OnePersists
<1> QED
  BY <1>10, <1>11, Zenon

\* A step within persist: the handler is the only one there, and stays so.
LEMMA InPersist ==
  ASSUME AuthType, CalmInv, NEW h \in AuthHandlers, NEW from, NEW to, Turn(h, from, to),
         from \in {"persist", "open", "write"}, to.at \in {"open", "write", "rename"},
         to.reply = ask[h].reply,
         UNCHANGED <<dcrClients, refresh, issued, answered, asUp>>
  PROVE  /\ OnePersists' /\ MapsGood' /\ Settled' = Settled
         /\ \A g \in AuthHandlers \ {h} : InFlight(g)'
         /\ \A c : Complete(c, h) => Complete(c, h)'
<1>1. /\ asUp = "up" /\ ask[h].at = from /\ ask'[h] = to
      /\ \A g \in AuthHandlers \ {h} : ask'[g] = ask[g]
  BY TurnOf, Zenon
<1>2. Persisting(h) /\ \A g \in AuthHandlers \ {h} : ~Persisting(g)
  BY <1>1, Zenon DEF CalmInv, OnePersists, Persisting
<1>3. \A g \in AuthHandlers \ {h} : ~Persisting(g)'
  BY <1>1, <1>2, Zenon DEF Persisting
<1>4. Settled' = Settled
  BY <1>1 DEF Settled
<1>5. OnePersists'
  BY <1>3, Zenon DEF OnePersists
<1>6. MapsGood'
  <2>1. \A a \in Settled' : Has(a, dcrClients', refresh', refresh', issued')
    BY <1>1, <1>4, Zenon DEF CalmInv, MapsGood
  <2>2. ASSUME NEW g \in AuthHandlers, Persisting(g)'
        PROVE  Has(ask'[g].reply, dcrClients', refresh', refresh', issued')
    BY <1>1, <1>2, <1>3, <2>2, Zenon DEF CalmInv, MapsGood
  <2> QED
    BY <2>1, <2>2, Zenon DEF MapsGood
<1>7. \A g \in AuthHandlers \ {h} : InFlight(g)'
  BY <1>3, Zenon DEF InFlight, Persisting
<1>8. \A c : Complete(c, h) => Complete(c, h)'
  BY <1>1, <1>4, Zenon DEF Complete
<1> QED
  BY <1>4, <1>5, <1>6, <1>7, <1>8, Zenon

\* Marshal takes the maps, which have all that is settled and what is to be answered.
LEMMA MarshalKeeps ==
  ASSUME AuthType, CalmInv, NEW h \in AuthHandlers, Marshal(h)
  PROVE  CalmInv'
<1>1. UNCHANGED <<dcrClients, refresh, issued, answered, asUp, data, tmp, asStore>>
  BY Zenon DEF Marshal, asMaps, asFiles
<1>2. PICK to : to = [at |-> "open", reply |-> ask[h].reply,
                      content |-> [kind |-> "json", clients |-> dcrClients, refresh |-> refresh]]
  BY Zenon
<1>3. Turn(h, "persist", to)
  BY <1>2, Zenon DEF Marshal
<1>4. /\ to.at = "open" /\ to.reply = ask[h].reply /\ to.content.kind = "json"
      /\ to.content.clients = dcrClients /\ to.content.refresh = refresh
  BY <1>2, Zenon
<1>5. /\ OnePersists' /\ MapsGood' /\ Settled' = Settled
      /\ \A g \in AuthHandlers \ {h} : InFlight(g)'
      /\ \A c : Complete(c, h) => Complete(c, h)'
  BY <1>1, <1>3, <1>4, InPersist, Zenon
<1>6. asUp = "up" /\ ask[h].at = "persist" /\ ask'[h] = to
  BY <1>3, TurnOf, Zenon
<1>7. StoreGood'
  BY <1>1, <1>5, Zenon DEF CalmInv, StoreGood, Stored
<1>8. Complete(to.content, h)
  BY <1>4, <1>6, Zenon DEF CalmInv, MapsGood, Complete, Persisting
<1>9. InFlight(h)'
  BY <1>4, <1>5, <1>6, <1>8, Zenon DEF InFlight
<1> QED
  BY <1>5, <1>7, <1>9, Zenon DEF CalmInv

\* The file that is opened and truncated is not the store.
LEMMA OpenKeeps ==
  ASSUME AuthType, CalmInv, NEW h \in AuthHandlers, OpenTmp(h)
  PROVE  CalmInv'
<1>1. UNCHANGED <<dcrClients, refresh, issued, answered, asUp, asStore>>
  BY Zenon DEF OpenTmp, asMaps
<1>2. PICK to : to = [at |-> "write", reply |-> ask[h].reply, content |-> ask[h].content, fd |-> tmp']
  BY Zenon
<1>3. Turn(h, "open", to) /\ tmp' \in Inodes /\ data' = [data EXCEPT ![tmp'] = NoContent]
  BY <1>2, Zenon DEF OpenTmp
<1>4. to.at = "write" /\ to.reply = ask[h].reply /\ to.content = ask[h].content /\ to.fd = tmp'
  BY <1>2, Zenon
<1>5. /\ OnePersists' /\ MapsGood' /\ Settled' = Settled
      /\ \A g \in AuthHandlers \ {h} : InFlight(g)'
      /\ \A c : Complete(c, h) => Complete(c, h)'
  BY <1>1, <1>3, <1>4, InPersist, Zenon
<1>6. asUp = "up" /\ ask[h].at = "open" /\ ask'[h] = to
  BY <1>3, TurnOf, Zenon
<1>7. tmp' # asStore /\ tmp' # 0 /\ data'[tmp'] = NoContent
  <2>1. Cardinality(AuthHandlers) \in Nat
    BY AuthAssumption, Zenon
  <2>2. tmp' # 0 /\ data'[tmp'] = NoContent
    BY <1>3, <2>1 DEF AuthType, Inodes
  <2>3. CASE tmp # 0
    BY <2>2, <2>3, Zenon DEF OpenTmp, CalmInv, StoreGood
  <2>4. CASE tmp = 0
    <3>1. {g \in AuthHandlers : ask[g].at = "write"} = {}
      BY <1>6, Zenon DEF CalmInv, OnePersists, Persisting
    <3>2. Held = {tmp, asStore}
      BY <3>1, Zenon DEF Held
    <3>3. \E i \in Inodes : i \notin Held
      BY <2>1, <2>4, <3>2 DEF Inodes
    <3>4. tmp' = CHOOSE i \in Inodes : i \notin Held
      BY <2>4, Zenon DEF OpenTmp
    <3>5. tmp' \notin Held
      BY <3>3, <3>4, Zenon
    <3> QED
      BY <2>2, <3>2, <3>5, Zenon
  <2> QED
    BY <2>2, <2>3, <2>4, Zenon
<1>8. Stored' = Stored
  BY <1>1, <1>3, <1>7, Zenon DEF Stored, AuthType
<1>9. StoreGood'
  BY <1>1, <1>5, <1>7, <1>8, Zenon DEF CalmInv, StoreGood
<1>10. InFlight(h)'
  BY <1>4, <1>5, <1>6, <1>7, Zenon DEF InFlight, CalmInv
<1> QED
  BY <1>5, <1>9, <1>10, Zenon DEF CalmInv

\* The whole content is written, as nobody else has written to the file.
LEMMA WriteTmpKeeps ==
  ASSUME AuthType, CalmInv, NEW h \in AuthHandlers, WriteTmp(h)
  PROVE  CalmInv'
<1>1. UNCHANGED <<dcrClients, refresh, issued, answered, asUp, tmp, asStore>>
  BY Zenon DEF WriteTmp, asMaps
<1>2. PICK to : to = [at |-> "rename", reply |-> ask[h].reply]
  BY Zenon
<1>3. Turn(h, "write", to)
  BY <1>2, Zenon DEF WriteTmp
<1>4. to.at = "rename" /\ to.reply = ask[h].reply
  BY <1>2, Zenon
<1>5. /\ OnePersists' /\ MapsGood' /\ Settled' = Settled
      /\ \A g \in AuthHandlers \ {h} : InFlight(g)'
      /\ \A c : Complete(c, h) => Complete(c, h)'
  BY <1>1, <1>3, <1>4, InPersist, Zenon
<1>6. ask[h].at = "write" /\ ask'[h] = to
  BY <1>3, TurnOf, Zenon
<1>7. ask[h].fd = tmp /\ tmp # 0 /\ data[tmp] = NoContent /\ Complete(ask[h].content, h)
  BY <1>6, Zenon DEF CalmInv, InFlight
<1>8. data' = [data EXCEPT ![tmp] = ask[h].content]
  BY <1>7, Zenon DEF WriteTmp
<1>9. tmp \in Inodes /\ tmp # asStore
  BY <1>7, Zenon DEF AuthType, CalmInv, StoreGood
<1>10. data'[tmp] = ask[h].content /\ Stored' = Stored
  BY <1>1, <1>8, <1>9, Zenon DEF Stored, AuthType
<1>11. StoreGood'
  BY <1>1, <1>5, <1>10, Zenon DEF CalmInv, StoreGood
<1>12. PICK c : c = ask[h].content
  BY Zenon
<1>13. Complete(c, h)'
  BY <1>5, <1>7, <1>12, Zenon
<1>14. InFlight(h)'
  <2>1. Complete(data[tmp], h)'
    BY <1>1, <1>10, <1>12, <1>13, Zenon DEF Complete
  <2> QED
    BY <1>1, <1>4, <1>6, <1>7, <2>1, Zenon DEF InFlight
<1> QED
  BY <1>5, <1>11, <1>14, Zenon DEF CalmInv

\* The renamed file has what was settled and what is settled by the rename.
LEMMA RenameKeeps ==
  ASSUME AuthType, CalmInv, NEW h \in AuthHandlers, RenameTmp(h)
  PROVE  CalmInv'
<1>1. UNCHANGED <<dcrClients, refresh, issued, answered, asUp, data>>
  BY Zenon DEF RenameTmp, asMaps
<1>2. PICK to : to = [at |-> "answer", reply |-> ask[h].reply]
  BY Zenon
<1>3. Turn(h, "rename", to)
  BY <1>2, Zenon DEF RenameTmp
<1>4. to.at = "answer" /\ to.reply = ask[h].reply
  BY <1>2, Zenon
<1>5. /\ asUp = "up" /\ ask[h].at = "rename" /\ ask'[h] = to
      /\ \A g \in AuthHandlers \ {h} : ask'[g] = ask[g]
  BY <1>3, TurnOf, Zenon
<1>6. tmp # 0 /\ Complete(data[tmp], h)
  BY <1>5, Zenon DEF CalmInv, InFlight
<1>7. asStore' = tmp /\ tmp' = 0
  BY <1>6, Zenon DEF RenameTmp
<1>8. Persisting(h) /\ \A g \in AuthHandlers \ {h} : ~Persisting(g)
  BY <1>5, Zenon DEF CalmInv, OnePersists, Persisting
<1>9. \A g \in AuthHandlers : ~Persisting(g)'
  BY <1>4, <1>5, <1>8, Zenon DEF Persisting
<1>10. Settled' = Settled \cup {ask[h].reply}
  <2>1. {g \in AuthHandlers : ask'[g].at = "answer"} = {g \in AuthHandlers : ask[g].at = "answer"} \cup {h}
    BY <1>4, <1>5, Zenon
  <2>2. \A g \in AuthHandlers : ask'[g].reply = ask[g].reply
    BY <1>4, <1>5, Zenon
  <2> QED
    BY <1>1, <2>1, <2>2 DEF Settled
<1>11. Stored' = data[tmp]
  BY <1>1, <1>6, <1>7, Zenon DEF Stored
<1>12. StoreGood'
  BY <1>1, <1>6, <1>7, <1>10, <1>11, Zenon DEF StoreGood, Complete
<1>13. MapsGood'
  BY <1>1, <1>5, <1>8, <1>9, <1>10, Zenon DEF MapsGood, CalmInv
<1>14. OnePersists' /\ \A g \in AuthHandlers : InFlight(g)'
  BY <1>9, Zenon DEF OnePersists, InFlight, Persisting
<1> QED
  BY <1>12, <1>13, <1>14, Zenon DEF CalmInv

\* The answer was settled before it is given.
LEMMA AnswerKeeps ==
  ASSUME AuthType, CalmInv, NEW h \in AuthHandlers, Answer(h)
  PROVE  CalmInv'
<1>1. /\ UNCHANGED <<dcrClients, refresh, issued, data, tmp, asStore, asUp>>
      /\ answered' = answered \cup {ask[h].reply}
  BY Zenon DEF Answer, asMaps, asFiles
<1>2. /\ asUp = "up" /\ ask[h].at = "answer" /\ ask'[h] = FreeAsk
      /\ \A g \in AuthHandlers \ {h} : ask'[g] = ask[g]
  BY TurnOf, Zenon DEF Answer
<1>3. \A g \in AuthHandlers : Persisting(g)' => Persisting(g) /\ ask'[g] = ask[g]
  <2>1. ask'[h].at = "free"
    BY <1>2 DEF FreeAsk
  <2>2. ~Persisting(h)'
    BY <2>1, Zenon DEF Persisting
  <2>3. ASSUME NEW g \in AuthHandlers \ {h} PROVE ask'[g] = ask[g] /\ Persisting(g)' = Persisting(g)
    BY <1>2, Zenon DEF Persisting
  <2> QED
    BY <2>2, <2>3, Zenon
<1>4. Settled' = Settled
  <2>1. \A g \in AuthHandlers : /\ ask'[g].at = "answer" => ask'[g] = ask[g]
                                /\ ask[g].at = "answer" => g = h \/ ask'[g] = ask[g]
    BY <1>2 DEF FreeAsk
  <2>2. \A a : a \in Settled' => a \in Settled
    BY <1>1, <1>2, <2>1, Zenon DEF Settled
  <2>3. \A a : a \in Settled => a \in Settled'
    BY <1>1, <2>1, Zenon DEF Settled
  <2> QED
    BY <2>2, <2>3, Zenon
<1>5. OnePersists' /\ StoreGood'
  BY <1>1, <1>3, <1>4, Zenon DEF CalmInv, OnePersists, StoreGood, Stored
<1>6. MapsGood'
  BY <1>1, <1>3, <1>4, Zenon DEF CalmInv, MapsGood
<1>7. ASSUME NEW g \in AuthHandlers PROVE InFlight(g)'
  <2>1. InFlight(g)
    BY Zenon DEF CalmInv
  <2>3. CASE ask'[g] = ask[g]
    <3>1. ASSUME ask[g].at \in {"open", "write"} PROVE Complete(ask[g].content, g)'
      BY <1>1, <1>4, <2>1, <2>3, <3>1, Zenon DEF Complete, InFlight
    <3>2. ASSUME ask[g].at = "rename" PROVE Complete(data[tmp], g)'
      BY <1>1, <1>4, <2>1, <2>3, <3>2, Zenon DEF Complete, InFlight
    <3> QED
      BY <1>1, <2>1, <2>3, <3>1, <3>2, Zenon DEF InFlight
  <2>4. CASE ask'[g] # ask[g]
    BY <1>3, <2>4, Zenon DEF InFlight, Persisting
  <2> QED
    BY <2>3, <2>4, Zenon
<1> QED
  BY <1>5, <1>6, <1>7, Zenon DEF CalmInv

\* A crash loses what no client was answered; the store is as it was.
LEMMA CrashKeeps ==
  ASSUME AuthType, DurableInv, CrashServer
  PROVE  DurableInv'
<1> USE DEF DurableInv
<1>1. /\ UNCHANGED <<issued, answered, calm, data, tmp, asStore>>
      /\ refresh' = {} /\ asUp' = "down" /\ \A g \in AuthHandlers : ask'[g].at = "free"
  BY Zenon DEF CrashServer, asFiles, FreeAsk
<1>2. RepliesInv'
  BY <1>1, Zenon DEF RepliesInv, Known, Ids, Busy
<1>3. Settled' \subseteq Settled
  BY <1>1, Zenon DEF Settled
<1>4. ASSUME calm PROVE CalmInv'
  <2>1. \A a, C, T : Has(a, C, T, refresh, issued) => Has(a, C, T, refresh', issued')
    BY <1>1, Zenon DEF Has
  <2>2. StoreGood'
    BY <1>1, <1>3, <1>4, <2>1, Zenon DEF CalmInv, StoreGood, Stored
  <2>3. OnePersists' /\ MapsGood' /\ \A g \in AuthHandlers : InFlight(g)'
    BY <1>1, Zenon DEF OnePersists, MapsGood, InFlight, Persisting
  <2> QED
    BY <2>2, <2>3, Zenon DEF CalmInv
<1> QED
  BY <1>1, <1>2, <1>4, Zenon

\* New reads the maps from the store, so they have what the store has.
LEMMA LoadKeeps ==
  ASSUME AuthType, DurableInv, loadStore
  PROVE  DurableInv'
<1> USE DEF DurableInv
<1>1. UNCHANGED <<issued, answered, calm, data, tmp, asStore, ask>> /\ asUp = "down"
  BY Zenon DEF loadStore, asFiles
<1>2. \A g \in AuthHandlers : ask[g].at = "free"
  BY <1>1, Zenon DEF RepliesInv
<1>3. RepliesInv'
  BY <1>1, <1>2, Zenon DEF RepliesInv, Known, Ids, Busy
<1>4. Settled' = Settled
  BY <1>1, Zenon DEF Settled
<1>5. ASSUME calm PROVE CalmInv'
  <2>1. dcrClients' = Stored.clients /\ refresh' \subseteq Stored.refresh
    <3>1. CASE asStore = 0
      BY <3>1, Zenon DEF loadStore, Stored, NoContent, prune
    <3>2. CASE asStore # 0
      BY <1>5, <3>2, Zenon DEF loadStore, Stored, prune, CalmInv, StoreGood
    <3> QED
      BY <3>1, <3>2, Zenon
  <2>2. ASSUME NEW a \in Settled PROVE /\ Has(a, Stored.clients, Stored.refresh, refresh', issued')
                                       /\ Has(a, dcrClients', refresh', refresh', issued')
    <3>1. Has(a, Stored.clients, Stored.refresh, refresh, issued)
      BY <1>5, Zenon DEF CalmInv, StoreGood
    <3> QED
      BY <1>1, <2>1, <3>1, Zenon DEF Has
  <2>3. StoreGood'
    BY <1>1, <1>4, <1>5, <2>2, Zenon DEF CalmInv, StoreGood, Stored
  <2>4. MapsGood' /\ OnePersists' /\ \A g \in AuthHandlers : InFlight(g)'
    BY <1>1, <1>2, <1>4, <2>2, Zenon DEF OnePersists, MapsGood, InFlight, Persisting
  <2> QED
    BY <2>3, <2>4, Zenon DEF CalmInv
<1> QED
  BY <1>1, <1>3, <1>5, Zenon

\* The empty store lacks nothing.
LEMMA DurableInit ==
  ASSUME AuthInit
  PROVE  DurableInv
<1>1. /\ answered = {} /\ calm = TRUE /\ asStore = 0 /\ tmp = 0 /\ asUp = "down"
      /\ \A g \in AuthHandlers : ask[g].at = "free"
  BY Zenon DEF AuthInit, AuthIdle, FreeAsk
<1>2. RepliesInv
  BY <1>1, Zenon DEF RepliesInv, Busy
<1>3. Settled = {}
  BY <1>1, Zenon DEF Settled
<1>4. CalmInv
  BY <1>1, <1>3, Zenon DEF CalmInv, OnePersists, StoreGood, MapsGood, InFlight, Persisting
<1> QED
  BY <1>2, <1>4, Zenon DEF DurableInv

\* Every step keeps the store complete.
LEMMA DurableStep ==
  ASSUME AuthInv, DurableInv, [AuthNext]_authVars
  PROVE  DurableInv'
<1>1. AuthType
  BY Zenon DEF AuthInv
<1>2. ASSUME NEW h \in AuthHandlers, Marshal(h) \/ OpenTmp(h) \/ WriteTmp(h) \/ RenameTmp(h) \/ Answer(h)
      PROVE  DurableInv'
  <2>1. \E from, to : Turn(h, from, to) /\ Busy(from) /\ (Busy(to.at) => to.reply = ask[h].reply)
    <3>1. CASE Marshal(h)
      BY <3>1 DEF Marshal, Busy
    <3>2. CASE OpenTmp(h)
      BY <3>2 DEF OpenTmp, Busy
    <3>3. CASE WriteTmp(h)
      BY <3>3 DEF WriteTmp, Busy
    <3>4. CASE RenameTmp(h)
      BY <3>4 DEF RenameTmp, Busy
    <3>5. CASE Answer(h)
      BY <3>5 DEF Answer, Busy, FreeAsk
    <3> QED
      BY <1>2, <3>1, <3>2, <3>3, <3>4, <3>5, Zenon
  <2>2. PICK from, to : Turn(h, from, to) /\ Busy(from) /\ (Busy(to.at) => to.reply = ask[h].reply)
    BY <2>1, Zenon
  <2>3. /\ UNCHANGED <<issued, calm, asUp>>
        /\ \A a \in answered' : a \in answered \/ a = ask[h].reply
    BY <1>2, Zenon DEF Marshal, OpenTmp, WriteTmp, RenameTmp, Answer
  <2>4. ask[h].at = from
    BY <1>1, <2>2, TurnOf, Zenon
  <2>5. Busy(to.at) => Known(to.reply)'
    BY <2>2, <2>3, <2>4, Zenon DEF DurableInv, RepliesInv, Known, Ids
  <2>6. Len(issued) <= Len(issued)' /\ calm' \in BOOLEAN
    <3>1. issued \in Seq(Issues) /\ calm \in BOOLEAN
      BY <1>1, Zenon DEF AuthType, DurableInv, RepliesInv
    <3> QED
      BY <2>3, <3>1
  <2>7. RepliesInv'
    BY <1>1, <2>2, <2>3, <2>5, <2>6, Goes, Zenon DEF DurableInv
  <2>8. calm => CalmInv'
    BY <1>1, <1>2, MarshalKeeps, OpenKeeps, WriteTmpKeeps, RenameKeeps, AnswerKeeps, Zenon DEF DurableInv
  <2> QED
    BY <2>3, <2>7, <2>8, Zenon DEF DurableInv
<1>3. ASSUME NEW h \in AuthHandlers, PersistFails(h)
      PROVE  DurableInv'
  <2>1. PICK to : to = [at |-> "answer", reply |-> ask[h].reply]
    BY Zenon
  <2>2. Turn(h, "write", to) /\ UNCHANGED <<issued, answered, asUp>> /\ calm' = FALSE
    BY <1>3, <2>1, Zenon DEF PersistFails
  <2>3. ask[h].at = "write"
    BY <1>1, <2>2, TurnOf, Zenon
  <2>4. Known(to.reply)'
    BY <2>1, <2>2, <2>3, Zenon DEF DurableInv, RepliesInv, Known, Ids, Busy
  <2>5. Len(issued) <= Len(issued)'
    BY <1>1, <2>2 DEF AuthType
  <2>6. RepliesInv'
    BY <1>1, <2>2, <2>4, <2>5, Goes, Zenon DEF DurableInv
  <2> QED
    BY <2>2, <2>6, Zenon DEF DurableInv
<1>4. ASSUME NEW h \in AuthHandlers, AuthStep(h) PROVE DurableInv'
  BY <1>1, <1>2, <1>3, <1>4, AsideSteps, AsideKeeps, EnterKeeps, Zenon DEF AuthStep
<1> QED
  BY <1>1, <1>4, CrashKeeps, LoadKeeps, AsideSteps, AsideKeeps, Zenon DEF AuthNext

\* AnsweredDurable for any handlers and any number of registrations, tokens, crashes and
\* restarts: persist writes its file before the answer, so, as long as it neither fails
\* nor overlaps, what a client holds is in the store when the process dies.
THEOREM AnsweredDurableHolds == AuthSpec => []AnsweredDurable
<1>1. AuthInv /\ DurableInv => AnsweredDurable
  BY Zenon DEF DurableInv, CalmInv, StoreGood, Settled, Has, AnsweredDurable
<1>2. AuthInit => AuthInv /\ DurableInv
  BY AuthInvInit, DurableInit, Zenon
<1>3. AuthInv /\ DurableInv /\ [AuthNext]_authVars => (AuthInv /\ DurableInv)'
  BY AuthInvStep, DurableStep, Zenon
<1> QED
  BY <1>1, <1>2, <1>3, PTL DEF AuthSpec
==============================================================================
