----------------------------- MODULE MCToolCall -----------------------------
(***************************************************************************)
(* What a tool call meets on its way: the caller's token is issued by the  *)
(* embedded authorization server (AuthServer) and checked by the Manager's *)
(* gateway (McpGateway), and on the device the permission rules decide     *)
(* (ClientPermissions) before files are patched (PatchStore); then the     *)
(* Manager records the call (CallHistory).  They share no variables, so a  *)
(* behaviour is one of them; Parts says which are taken.                   *)
(***************************************************************************)
EXTENDS ClientPermissions, PatchStore, AuthServer, McpGateway,
        GatewayValues, CallHistory, TLC

CONSTANT Parts

\* What moves: the permissions of a bash or an agent call, patches, authorization, or
\* requests while the issuer changes its keys or the devices their policies, or the
\* record of calls while pages of it are read or the Manager restarts.
VARIABLE part

GitBare == <<"git">>
GitPush == <<"git", " ", "push">>
MCCommands == {GitBare, GitPush}
MCClients == {<<"omp">>}
MCFileRules == {[effect |-> "deny", tool |-> "",
                 pattern |-> [tokens |-> <<"git", " ", "push">>, glob |-> TRUE]]}
MCEnvRules == {}

Edit(p, o, n) == [path |-> p, old |-> o, new |-> n]
MCPatches == {<<Edit("a", 1, 2), Edit("b", 0, 1)>>, <<Edit("a", 2, 0)>>,
              <<Edit("b", 1, 2), Edit("a", 2, 1)>>, <<Edit("a", 1, 3)>>}
MCStart == [f \in {"a", "b"} |-> IF f = "a" THEN 1 ELSE 0]

\* Authorization: a loopback client with the document compiled in, asking for a path it
\* has and one it has not, and one that registers.
URI(h, p, path) == [host |-> h, port |-> p, path |-> path]
Asks(c, u, resource) == [client |-> c, uri |-> u, method |-> "S256", challenge |-> "h1",
                         resource |-> resource, scopes |-> <<"read", "read">>]
MCAuthRequests == {Asks("https:codex", URI("127.0.0.1", 5, "callback"), ""),
                   Asks("https:codex", URI("127.0.0.1", 5, "other"), ""),
                   Asks("cb-1", URI("app", 0, "cb"), "elsewhere")}
MCLiveDocs ==
  {[answer |-> "ok", client |-> "https:codex", uris |-> {URI("localhost", 1, "callback")}],
   [answer |-> "ok", client |-> "https:other", uris |-> {URI("localhost", 1, "other")}]}
MCRegisteredURIs == {{URI("app", 0, "cb")}}
MCClientIDs == <<"cb-1">>

\* A call that fails in two ways, two calls of before, and the console with no filter and with one.
MCErrs == {{"Canceled", "offline or unknown"}}
Was(c, ok) == [fact |-> [call |-> c, success |-> ok, kind |-> IF ok THEN "" ELSE "timeout"],
               time |-> 0]
MCRecorded == <<Was("old1", FALSE), Was("old2", TRUE)>>
Shows(equal, since) == [equal |-> equal, since |-> since, until |-> {}, limit |-> callsLimit]
MCFilters == {Shows(<<>>, {}), Shows([success |-> FALSE], {1})}

MCSymmetry == Permutations(Callers) \cup Permutations(Requests) \cup Permutations(AuthHandlers)

MCInit ==
  /\ part \in Parts
  /\ PermissionsInit /\ PatchInit /\ AuthInit
  /\ GwIdle /\ age = Cap
  /\ fleet = [d \in DOMAIN Fleet |-> IF part = "keys" THEN "all" ELSE "off"]
  /\ registrations = IF part = "keys" THEN MaxRegistrations ELSE 0
  /\ rotations = IF part = "surface" THEN MaxRotations ELSE 0
  /\ HistoryIdle
  /\ clock = IF part = "history" THEN MaxClock ELSE 0
  /\ starts = IF part = "history" THEN MaxStarts ELSE 0
  /\ histFaults = IF part = "history" THEN MaxHistoryFaults ELSE 0
  /\ applies = IF part = "record" THEN MaxApplies ELSE 0
MCNext ==
  /\ UNCHANGED part
  /\ \/ /\ part \in {"bash", "agent"} /\ PermissionsNext
        /\ \A p \in Callers : call'[p].tool \in {"", part}
        /\ UNCHANGED <<patchVars, authVars, gwVars, historyVars>>
     \/ part = "patch" /\ PatchNext /\ UNCHANGED <<permissionsVars, authVars, gwVars, historyVars>>
     \/ part = "auth" /\ AuthNext /\ UNCHANGED <<permissionsVars, patchVars, gwVars, historyVars>>
     \/ part \in {"keys", "surface"} /\ GwNext
        /\ UNCHANGED <<permissionsVars, patchVars, authVars, historyVars>>
     \/ part \in {"history", "record"} /\ HistoryNext
        /\ UNCHANGED <<permissionsVars, patchVars, authVars, gwVars>>
MCSpec == MCInit /\ [][MCNext]_<<permissionsVars, patchVars, authVars, gwVars, historyVars, part>>

\* The state of the client's write and permission tools is well formed.
ClientTypeOK == PermissionsTypeOK /\ PatchTypeOK

\* What signAccessToken makes of a grant for the Manager's own resource is a token that
\* the Manager's verifier accepts, for the subject who logged in and with the scopes
\* that were asked for.
AccessAccepted ==
  \A t \in 1..Len(issued) :
    LET g == issued[t].grant
        token == signAccessToken(g)
    IN g.resource = Audience =>
         /\ JWK[kid] = JWKS /\ kid \in usable({kid}) /\ Accepts(token)
         /\ token.sub = g.subject /\ extractScopes(token) = {g.scopes[i] : i \in 1..Len(g.scopes)}
=============================================================================
