----------------------------- MODULE AuthServer -----------------------------
(***************************************************************************)
(* The Manager's embedded OAuth 2.1 authorization server                   *)
(* (internal/authserver): logins, one-time authorization codes with PKCE,  *)
(* rotating refresh tokens, CIMD and dynamically registered clients, and   *)
(* the as-store.json file that is to survive a restart.                    *)
(*                                                                         *)
(* A handler runs in steps that are atomic because Server.mu is held, or   *)
(* because they are one system call; persist marshals the live maps and    *)
(* writes the one temporary file with no lock held.  Time is what has      *)
(* expired: the codes, logins and refresh tokens with a number up to       *)
(* lapsed, as the older ones of a kind expire first.                       *)
(***************************************************************************)
EXTENDS Integers, FiniteSets, Sequences

CONSTANTS AuthHandlers,  \* concurrent HTTP requests
          Users,         \* the configured login names
          CimdClients,   \* client_id values that are https URLs
          AuthRequests,  \* the authorization requests clients make
          LiveDocs,      \* what the metadata URL of a client may answer
          RegisteredURIs,\* redirect_uris of a dynamic registration
          ClientIDs,     \* the client_id values that registrations get
          Resource,      \* Config.Resource
          MaxCodes, MaxTokens, MaxClients, MaxLogins, MaxAuthFaults
\* The handlers that run at a time are finitely many.
ASSUME AuthAssumption == Cardinality(AuthHandlers) \in Nat

VARIABLES doc,           \* the answer at the client's metadata URL
          dcrClients, sessions, codes, refresh,  \* the maps of Server
          lapsed,        \* how many codes, logins and refresh tokens have expired
          ask,           \* what each handler does
          data,          \* inode -> content
          tmp, asStore,  \* the inodes named as-store.json.tmp and as-store.json, 0 if none
          asUp,          \* "up", "down", or "failed" when New returned an error
          \* History: the tokens issued, the ones answered, the process's lives, and
          \* whether persist never failed or ran twice at once.
          issued, answered, life, calm,
          nCodes, nClients, nLogins, authFaults

asMaps == <<dcrClients, sessions, codes, refresh>>
asFiles == <<data, tmp, asStore>>
asCounts == <<nCodes, nClients, nLogins>>
authVars == <<doc, asMaps, lapsed, ask, asFiles, asUp, issued, answered, life, calm, asCounts,
              authFaults>>

FreeAsk == [at |-> "free"]
NoContent == [kind |-> "empty", clients |-> {}, refresh |-> {}]
Inodes == 1..(Cardinality(AuthHandlers) + 2)
AtStep(step) == Cardinality({h \in AuthHandlers : ask[h].at = step})
CodesLeft == nCodes + AtStep("code") < MaxCodes
TokensLeft == Len(issued) + AtStep("sign") < MaxTokens
AuthFault == authFaults < MaxAuthFaults /\ authFaults' = authFaults + 1
Turn(h, from, to) == asUp = "up" /\ ask[h].at = from /\ ask' = [ask EXCEPT ![h] = to]

-----------------------------------------------------------------------------
(* Whom a redirect may go to. *)

isLoopback(u) == u.host \in {"127.0.0.1", "localhost", "::1"}
redirectAllowed(allowed, want) ==
  \E a \in allowed : a = want \/ (isLoopback(a) /\ isLoopback(want) /\ a.path = want.path)

\* The documents compiled into the Manager, for when the live one cannot be had.
builtinCIMD == [c \in CimdClients |->
  CASE c = "https:chatgpt" -> {[host |-> "chatgpt.com", port |-> 0, path |-> "connector"]}
    [] c = "https:codex" -> {[host |-> "127.0.0.1", port |-> 0, path |-> "callback"],
                             [host |-> "localhost", port |-> 0, path |-> "callback"]}
    [] OTHER -> {}]

\* The URIs a client may use; {} stands for every error, as both end the request.
fetchCIMD(c) ==
  CASE doc[c].answer = "down" -> builtinCIMD[c]
    [] doc[c].answer = "ok" /\ doc[c].client = c -> doc[c].uris
    [] OTHER -> {}
allowedRedirectURIs(c) ==
  IF c \in CimdClients THEN fetchCIMD(c)
  ELSE UNION {d.uris : d \in {x \in dcrClients : x.id = c}}

validateAuthorizeRequest(q) ==
  /\ q.method = "S256" /\ q.challenge # ""
  /\ redirectAllowed(allowedRedirectURIs(q.client), q.uri)

\* The hash tells verifiers apart.
Verifiers == {"v1", "v2"}
pkceS256(verifier) == [v1 |-> "h1", v2 |-> "h2"][verifier]

-----------------------------------------------------------------------------
(* GET /authorize with a live session, and POST /authorize with a password, *)
(* both end in issueCode; without either the login form is shown and       *)
(* nothing changes.  The POST validates nothing before it logs in.         *)

sessionSubject(s) == s.id > lapsed.login
Authorize(h) ==
  \E q \in AuthRequests, s \in sessions :
    /\ CodesLeft /\ validateAuthorizeRequest(q) /\ sessionSubject(s)
    /\ Turn(h, "free", [at |-> "code", q |-> q, subject |-> s.subject])
    /\ UNCHANGED <<doc, asMaps, lapsed, asFiles, asUp, issued, answered, life, calm, asCounts,
                   authFaults>>
authorizePost(h) ==
  \E q \in AuthRequests, u \in Users :
    /\ CodesLeft /\ nLogins < MaxLogins
    /\ Turn(h, "free", [at |-> "code", q |-> q, subject |-> u])
    /\ nLogins' = nLogins + 1
    /\ sessions' = sessions \cup {[id |-> nLogins + 1, subject |-> u]}
    /\ UNCHANGED <<doc, dcrClients, codes, refresh, lapsed, asFiles, asUp, issued, answered, life,
                   calm, nCodes, nClients, authFaults>>

\* The client's document is fetched again, and may have changed.
issueCode(h) ==
  /\ Turn(h, "code", FreeAsk)
  /\ LET q == ask[h].q
         new == [id |-> nCodes + 1, client |-> q.client, uri |-> q.uri,
                 resource |-> IF q.resource = "" THEN Resource ELSE q.resource,
                 scopes |-> q.scopes, subject |-> ask[h].subject, challenge |-> q.challenge]
     IN IF validateAuthorizeRequest(q)
        THEN /\ codes' = {c \in codes \cup {new} : c.id > lapsed.code}
             /\ nCodes' = nCodes + 1
        ELSE UNCHANGED <<codes, nCodes>>
  /\ UNCHANGED <<doc, dcrClients, sessions, refresh, lapsed, asFiles, asUp, issued, answered, life,
                 calm, nClients, nLogins, authFaults>>

-----------------------------------------------------------------------------
(* POST /token. *)

\* What issueTokens is called with, and (for the properties) for what and by whom.
Sign(g, src, by) == [at |-> "sign", grant |-> g, src |-> src, by |-> by]

\* Mutant: a code is good until it expires.
tokenCode_KeepsCode(h) ==
  \E g \in codes, c \in {q.client : q \in AuthRequests} \cup {d.id : d \in dcrClients},
    u \in {q.uri : q \in AuthRequests}, verifier \in Verifiers :
    LET by == [client |-> c, uri |-> u, verifier |-> verifier]
        ok == /\ g.id > lapsed.code /\ c = g.client /\ u = g.uri
              /\ pkceS256(verifier) = g.challenge
    IN /\ TokensLeft
       /\ Turn(h, "free", IF ok THEN Sign(g, [kind |-> "code", id |-> g.id], by) ELSE FreeAsk)
       /\ UNCHANGED <<doc, asMaps, lapsed, asFiles, asUp, issued, answered, life, calm, asCounts,
                      authFaults>>
\* The code is spent before it is checked.
tokenCode(h) ==
  \E g \in codes, c \in {q.client : q \in AuthRequests} \cup {d.id : d \in dcrClients},
    u \in {q.uri : q \in AuthRequests}, verifier \in Verifiers :
    LET by == [client |-> c, uri |-> u, verifier |-> verifier]
        ok == /\ g.id > lapsed.code /\ c = g.client /\ u = g.uri
              /\ pkceS256(verifier) = g.challenge
    IN /\ TokensLeft
       /\ Turn(h, "free", IF ok THEN Sign(g, [kind |-> "code", id |-> g.id], by) ELSE FreeAsk)
       /\ codes' = codes \ {g}
       /\ UNCHANGED <<doc, dcrClients, sessions, refresh, lapsed, asFiles, asUp, issued, answered,
                      life, calm, asCounts, authFaults>>

\* "rotation: single use".  A refused token is gone as well, and that is not persisted.
tokenRefresh(h) ==
  \E g \in refresh, c \in {q.client : q \in AuthRequests} \cup {d.id : d \in dcrClients} :
    /\ TokensLeft
    /\ Turn(h, "free",
            IF g.id > lapsed.token /\ c = g.grant.client
            THEN Sign(g.grant, [kind |-> "refresh", id |-> g.id], [issued[g.id].by EXCEPT !.client = c])
            ELSE FreeAsk)
    /\ refresh' = refresh \ {g}
    /\ UNCHANGED <<doc, dcrClients, sessions, codes, lapsed, asFiles, asUp, issued, answered, life,
                   calm, asCounts, authFaults>>

\* The one signing key, as GET /jwks.json publishes it.
kid == 1
JWKS == [kty |-> "RSA", use |-> "sig", alg |-> "RS256", n |-> 1, eBytes |-> 3, e |-> 65537]
\* The JWT that goes with a grant.
signAccessToken(g) ==
  [iss |-> "public", sub |-> g.subject, aud |-> g.resource, scope |-> g.scopes, alg |-> "RS256",
   kid |-> kid]

prune(now) ==
  /\ refresh' = {r \in now : r.id > lapsed.token}
  /\ sessions' = {s \in sessions : sessionSubject(s)}

Persisting(h) == ask[h].at \in {"persist", "open", "write", "rename"}
\* From here to the answer the handler is in persist.
Save(h) == calm' = (calm /\ \A g \in AuthHandlers \ {h} : ~Persisting(g))

issueTokens(h) ==
  LET id == Len(issued) + 1
      a == ask[h]
  IN /\ Turn(h, "sign", [at |-> "persist", reply |-> [kind |-> "token", id |-> id]])
     /\ issued' = Append(issued, [src |-> a.src, by |-> a.by, grant |-> a.grant, life |-> life])
     /\ prune(refresh \cup {[id |-> id, grant |-> a.grant]})
     /\ Save(h)
     /\ UNCHANGED <<doc, dcrClients, codes, lapsed, asFiles, asUp, answered, life, asCounts,
                    authFaults>>

\* POST /register.
RegisterClient(h) ==
  \E uris \in RegisteredURIs :
    /\ nClients < MaxClients
    /\ Turn(h, "free", [at |-> "persist", reply |-> [kind |-> "client", id |-> nClients + 1]])
    /\ dcrClients' = dcrClients \cup {[id |-> ClientIDs[nClients + 1], uris |-> uris]}
    /\ nClients' = nClients + 1
    /\ Save(h)
    /\ UNCHANGED <<doc, sessions, codes, refresh, lapsed, asFiles, asUp, issued, answered, life,
                   nCodes, nLogins, authFaults>>

-----------------------------------------------------------------------------
(* persist: nothing is locked, all handlers share one temporary name, and  *)
(* every error is ignored.                                                 *)

\* Mutant: the store is marshalled before the new token is added.
Marshal_Before(h) ==
  /\ Turn(h, "persist", [at |-> "open", reply |-> ask[h].reply,
                         content |-> [kind |-> "json", clients |-> dcrClients,
                                      refresh |-> {r \in refresh : ask[h].reply # [kind |-> "token", id |-> r.id]}]])
  /\ UNCHANGED <<doc, asMaps, lapsed, asFiles, asUp, issued, answered, life, calm, asCounts,
                 authFaults>>
Marshal(h) ==
  /\ Turn(h, "persist", [at |-> "open", reply |-> ask[h].reply,
                         content |-> [kind |-> "json", clients |-> dcrClients, refresh |-> refresh]])
  /\ UNCHANGED <<doc, asMaps, lapsed, asFiles, asUp, issued, answered, life, calm, asCounts,
                 authFaults>>

\* os.WriteFile opens and truncates the file, then writes it: here an inode, which
\* another handler may meanwhile rename, truncate or write.
Held == {tmp, asStore} \cup {ask[h].fd : h \in {g \in AuthHandlers : ask[g].at = "write"}}
OpenTmp(h) ==
  LET fd == IF tmp # 0 THEN tmp ELSE CHOOSE i \in Inodes : i \notin Held
  IN /\ fd \in Inodes
     /\ Turn(h, "open", [at |-> "write", reply |-> ask[h].reply, content |-> ask[h].content, fd |-> fd])
     /\ tmp' = fd
     /\ data' = [data EXCEPT ![fd] = NoContent]
     /\ UNCHANGED <<doc, asMaps, lapsed, asStore, asUp, issued, answered, life, calm, asCounts,
                    authFaults>>
WriteTmp(h) ==
  /\ Turn(h, "write", [at |-> "rename", reply |-> ask[h].reply])
  /\ \E c \in {ask[h].content}
        \cup (IF data[ask[h].fd] = NoContent THEN {} ELSE {[NoContent EXCEPT !.kind = "torn"]}) :
       data' = [data EXCEPT ![ask[h].fd] = c]
  /\ UNCHANGED <<doc, asMaps, lapsed, tmp, asStore, asUp, issued, answered, life, calm, asCounts,
                 authFaults>>
RenameTmp(h) ==
  /\ Turn(h, "rename", [at |-> "answer", reply |-> ask[h].reply])
  /\ asStore' = IF tmp # 0 THEN tmp ELSE asStore
  /\ tmp' = 0
  /\ UNCHANGED <<doc, asMaps, lapsed, data, asUp, issued, answered, life, calm, asCounts,
                 authFaults>>
\* The file cannot be opened or written, and the handler goes on to its answer.
PersistFails(h) ==
  /\ AuthFault
  /\ Turn(h, "write", [at |-> "answer", reply |-> ask[h].reply])
  /\ calm' = FALSE
  /\ UNCHANGED <<doc, asMaps, lapsed, asFiles, asUp, issued, answered, life, asCounts>>

Answer(h) ==
  /\ Turn(h, "answer", FreeAsk)
  /\ answered' = answered \cup {ask[h].reply}
  /\ UNCHANGED <<doc, asMaps, lapsed, asFiles, asUp, issued, life, calm, asCounts, authFaults>>

-----------------------------------------------------------------------------
(* The process ends (a map iterated while it is written is fatal to a Go   *)
(* program, so an overlap of persist may do it too) and is started again.  *)

CrashServer ==
  /\ AuthFault /\ asUp = "up"
  /\ asUp' = "down"
  /\ ask' = [h \in AuthHandlers |-> FreeAsk]
  /\ dcrClients' = {} /\ sessions' = {} /\ codes' = {} /\ refresh' = {}
  /\ UNCHANGED <<doc, lapsed, asFiles, issued, answered, life, calm, asCounts>>

\* New: the store is read and pruned; one that does not decode is fatal.
loadStore ==
  LET c == IF asStore = 0 THEN [NoContent EXCEPT !.kind = "json"] ELSE data[asStore]
  IN /\ asUp = "down"
     /\ asUp' = IF c.kind = "json" THEN "up" ELSE "failed"
     /\ IF c.kind = "json" THEN dcrClients' = c.clients /\ prune(c.refresh)
        ELSE UNCHANGED <<dcrClients, refresh, sessions>>
     /\ life' = life + 1
     /\ UNCHANGED <<doc, codes, lapsed, ask, asFiles, issued, answered, calm, asCounts, authFaults>>

\* external: the client's host changes its document or cannot be reached.
DocumentChanges(c) ==
  /\ \E d \in LiveDocs : doc' = [doc EXCEPT ![c] = d]
  /\ AuthFault
  /\ UNCHANGED <<asMaps, lapsed, ask, asFiles, asUp, issued, answered, life, calm, asCounts>>

\* The oldest of a kind that is still valid expires.
Passes(kind, n) ==
  /\ lapsed[kind] < n
  /\ lapsed' = [lapsed EXCEPT ![kind] = @ + 1]
  /\ AuthFault
  /\ UNCHANGED <<doc, asMaps, ask, asFiles, asUp, issued, answered, life, calm, asCounts>>
TimePasses == Passes("code", nCodes) \/ Passes("login", nLogins) \/ Passes("token", Len(issued))

AuthIdle ==
  /\ dcrClients = {} /\ sessions = {} /\ codes = {} /\ refresh = {}
  /\ doc = [c \in CimdClients |-> [answer |-> "down", client |-> "", uris |-> {}]]
  /\ lapsed = [code |-> 0, login |-> 0, token |-> 0]
  /\ ask = [h \in AuthHandlers |-> FreeAsk]
  /\ data = [i \in Inodes |-> NoContent] /\ tmp = 0 /\ asStore = 0
  /\ issued = <<>> /\ answered = {} /\ life = 0 /\ calm = TRUE
  /\ nCodes = 0 /\ nClients = 0 /\ nLogins = 0 /\ authFaults = 0
AuthInit == AuthIdle /\ asUp = "down"

AuthStep(h) ==
  \/ Authorize(h) \/ authorizePost(h) \/ issueCode(h) \/ tokenCode(h) \/ tokenRefresh(h)
  \/ issueTokens(h) \/ RegisterClient(h) \/ Marshal(h) \/ OpenTmp(h) \/ WriteTmp(h)
  \/ RenameTmp(h) \/ PersistFails(h) \/ Answer(h)
AuthNext ==
  \/ \E h \in AuthHandlers : AuthStep(h)
  \/ CrashServer \/ loadStore \/ TimePasses
  \/ \E c \in CimdClients : DocumentChanges(c)
AuthSpec == AuthInit /\ [][AuthNext]_authVars

-----------------------------------------------------------------------------
\* An authorization code is good for one token request, whatever requests race for
\* it, and within one life of the process so is a refresh token: tokenCode and
\* tokenRefresh remove the entry before they look at it.
SingleUse ==
  \A s, t \in 1..Len(issued) :
    issued[s].src = issued[t].src /\ (issued[s].src.kind = "code" \/ issued[s].life = issued[t].life)
      => s = t

\* Along a chain of refreshes, restarts and changes of the client's document, tokens
\* go only to the client that the code was issued to, which presented the code's
\* redirect URI and the verifier of its challenge, and for the subject who logged in.
GrantFaithful ==
  \A t \in 1..Len(issued) :
    LET g == issued[t].grant
        by == issued[t].by
        src == issued[t].src
    IN /\ by.client = g.client /\ by.uri = g.uri /\ pkceS256(by.verifier) = g.challenge
       /\ src.kind = "refresh" => src.id < t /\ issued[src.id].grant = g

Stored == IF asStore = 0 THEN NoContent ELSE data[asStore]
\* "persisted holds everything that must survive restarts" (server.go:91): as long as
\* no two handlers persisted at once and no write failed, the store can be loaded, it
\* has every token and client that was answered and not used since, and no refresh
\* token whose successor was answered.
AnsweredDurable ==
  calm =>
    /\ asStore # 0 => Stored.kind = "json"
    /\ \A a \in answered :
         IF a.kind = "client" THEN \E d \in Stored.clients : d.id = ClientIDs[a.id]
         ELSE /\ (\E r \in refresh : r.id = a.id) => \E r \in Stored.refresh : r.id = a.id
              /\ issued[a.id].src.kind = "refresh" =>
                   ~\E r \in Stored.refresh : r.id = issued[a.id].src.id
=============================================================================
