----------------------------- MODULE McpGateway -----------------------------
(***************************************************************************)
(* One MCP HTTP request through the Manager: limitMCP, the bearer token    *)
(* checked by oauthresource.Verifier, the server built for the request     *)
(* with the tools of the caller's account, and the call that is forwarded  *)
(* to a device.                                                            *)
(*                                                                         *)
(* Each Verify reads the cached key set of the issuer and may fetch it     *)
(* again; the token is verified twice, once by RequireBearerToken and once *)
(* by AccountFromRequest.  Time passes only while a request waits for the  *)
(* issuer or a device, in ticks, and ages stop at Cap.                     *)
(***************************************************************************)
EXTENDS Integers, FiniteSets, Sequences

CONSTANTS Requests,        \* concurrent /mcp requests
          MaxMCPInflight,
          Bearer,          \* the tokens callers have
          JWK,             \* JWK[k]: the JWKS entry with kid k
          Issuer, Audience, AllowedSubjects, Scope,
          AccountMap,      \* CODEBRIDGE_OAUTH_ACCOUNT_MAP
          DefaultAccount,
          Fleet,           \* device -> its account
          Policies,        \* what ToolPolicy a device may register with
          Builtin, piCoreTools,
          Targets, Tools,  \* the devices and tools that callers name
          CacheTTL, Quiet, FetchTimeout,  \* 15 min, 30 s, 10 s in ticks
          MaxFetchFails, MaxRegistrations, MaxRotations

ASSUME GatewayAssumption == Quiet <= CacheTTL /\ piCoreTools \subseteq Builtin
\* A client sends no wrapper with the name of a tool that can be wrapped (sanitizeCustomTools).
ASSUME WrappersRenamed ==
  \A p \in DOMAIN Policies : \A n \in DOMAIN Policies[p].custom : Policies[p].custom[n] # n

VARIABLES jwks, gone,      \* kids the issuer publishes; ticks since it withdrew one
          keys, age,       \* Verifier.keys, and the time since fetchedAt
          req,             \* what each request does
          fleet,           \* device -> the policy it is online with, or "off"
          \* History: whether a token was accepted on a key withdrawn too long ago, and
          \* whether a call reached a device that disables its tool and did so when the
          \* server of the request was built.
          lateKey, strayed,
          fetchFails, registrations, rotations

issuerVars == <<jwks, gone, rotations>>
fleetVars == <<fleet, registrations>>
gwVars == <<issuerVars, keys, age, req, fleetVars, lateKey, strayed, fetchFails>>

Cap == CacheTTL + FetchTimeout + 1
Older(n) == IF n < Cap THEN n + 1 ELSE n
Free == [at |-> "free"]
Move(r, to) == req' = [req EXCEPT ![r] = to]
Inflight == {r \in Requests : req[r].at # "free"}

-----------------------------------------------------------------------------
(* What is checked of a key and of a token. *)

parseJWK(j) ==
  \/ j.kty = "RSA" /\ j.n > 0 /\ j.eBytes \in 1..4 /\ j.e >= 3
  \/ j.kty = "EC" /\ j.crv \in {"P-256", "P-384", "P-521"} /\ j.onCurve
\* The entries of a document that refresh keeps.
usable(doc) == {k \in doc : JWK[k].use \in {"", "sig"} /\ parseJWK(JWK[k])}

validMethods == {"RS256", "RS384", "RS512", "PS256", "PS384", "PS512", "ES256", "ES384", "ES512"}
claimsValid(t) ==
  /\ t.alg \in validMethods /\ t.iss = Issuer /\ t.aud = Audience
  /\ t.sub # "" /\ (AllowedSubjects # {} => t.sub \in AllowedSubjects)
algMatches(t) == JWK[t.kid].alg \in {"", t.alg}
\* extractScopes: each scope once; RequireBearerToken asks for Scope.
extractScopes(t) == {t.scope[i] : i \in 1..Len(t.scope)}
Accepts(t) == claimsValid(t) /\ algMatches(t)

ForSubject(subject) == IF subject \in DOMAIN AccountMap THEN AccountMap[subject] ELSE subject

-----------------------------------------------------------------------------
(* The tools of an account. *)

ListAccount(account) == {d \in DOMAIN fleet : fleet[d] # "off" /\ Fleet[d] = account}
Disables(policy, tool) ==
  LET p == Policies[policy] IN
  \/ tool \in p.disabled
  \/ p.enabled = {} /\ tool \notin piCoreTools
  \/ p.enabled # {} /\ "*" \notin p.enabled /\ tool \notin p.enabled
\* Mutant: hidden only when every device disables it.
toolDisabledForAccount_All(account, tool) ==
  ListAccount(account) # {} /\ \A d \in ListAccount(account) : Disables(fleet[d], tool)
toolDisabledForAccount(account, tool) == \E d \in ListAccount(account) : Disables(fleet[d], tool)
\* The built-in tool that a name stands for on the account's server, "" if it has no such tool.
customToolsForAccount(account, name) ==
  {Policies[fleet[d]].custom[name] : d \in {e \in ListAccount(account) :
      name \in DOMAIN Policies[fleet[e]].custom /\ Policies[fleet[e]].custom[name] \in Builtin}}
registerWithPolicy(account, name) ==
  (IF name \in Builtin /\ ~toolDisabledForAccount(account, name) THEN {name} ELSE {})
    \cup customToolsForAccount(account, name)

-----------------------------------------------------------------------------
(* limitMCP, then the two verifications. *)

Arrive(r) ==
  /\ req[r].at = "free"
  /\ Cardinality(Inflight) < MaxMCPInflight
  /\ \E t \in Bearer, d \in Targets, tool \in Tools :
       Move(r, [at |-> "key", token |-> t, device |-> d, tool |-> tool, pass |-> 1,
                account |-> "", waited |-> 0, doc |-> {}, moved |-> FALSE, direct |-> TRUE])
  /\ UNCHANGED <<issuerVars, keys, age, fleetVars, lateKey, strayed, fetchFails>>

\* Verify returns.  A failure of the first is a 401; AccountFromRequest takes one of the
\* second to mean the default account.
Verified(r, found) ==
  LET q == req[r]
      ok == found /\ Accepts(q.token)
  IN /\ Move(r, CASE q.pass = 1 /\ ok /\ Scope \in extractScopes(q.token) ->
                       [q EXCEPT !.at = "key", !.pass = 2]
                  [] q.pass = 2 -> [q EXCEPT !.at = "surface",
                                       !.account = IF ok THEN ForSubject(q.token.sub) ELSE DefaultAccount]
                  [] OTHER -> Free)
     /\ lateKey' = (lateKey \/ (ok /\ gone[q.token.kid] > CacheTTL + FetchTimeout))

KidKnown(r) == req[r].token.kid \in keys
\* Verifier.key before it fetches.
Looked(r, hit, miss) ==
  /\ req[r].at = "key"
  /\ IF hit \/ miss THEN Verified(r, hit)
     ELSE Move(r, [req[r] EXCEPT !.at = "fetch", !.waited = 0]) /\ UNCHANGED lateKey
  /\ UNCHANGED <<issuerVars, keys, age, fleetVars, strayed, fetchFails>>
\* Mutant: a kid that is not there is refused.
key_NoRetry(r) == Looked(r, KidKnown(r) /\ age <= CacheTTL, ~KidKnown(r))
key(r) == Looked(r, KidKnown(r) /\ age <= CacheTTL, ~KidKnown(r) /\ age <= Quiet)

\* The issuer answers with what it publishes now; the answer is under way, and others
\* may overtake it.
FetchAnswered(r) ==
  /\ req[r].at = "fetch"
  /\ Move(r, [req[r] EXCEPT !.at = "transit", !.doc = jwks])
  /\ UNCHANGED <<issuerVars, keys, age, fleetVars, lateKey, strayed, fetchFails>>
\* The fetch fails, or takes longer than the client's timeout.
FetchFailed(r) ==
  /\ req[r].at \in {"fetch", "transit"}
  /\ fetchFails < MaxFetchFails /\ fetchFails' = fetchFails + 1
  /\ Verified(r, FALSE)
  /\ UNCHANGED <<issuerVars, keys, age, fleetVars, strayed>>
\* The rest of refresh: the key set is replaced, unless nothing of it is usable.
refreshKeys(r) ==
  /\ req[r].at = "transit"
  /\ IF usable(req[r].doc) = {} THEN Verified(r, FALSE) /\ UNCHANGED <<keys, age>>
     ELSE /\ keys' = usable(req[r].doc) /\ age' = 0
          /\ Move(r, [req[r] EXCEPT !.at = "again", !.doc = {}, !.waited = 0])
          /\ UNCHANGED lateKey
  /\ UNCHANGED <<issuerVars, fleetVars, strayed, fetchFails>>
\* The key is looked up again, in whatever set is there by now.
keyAgain(r) ==
  /\ req[r].at = "again"
  /\ Verified(r, KidKnown(r))
  /\ UNCHANGED <<issuerVars, keys, age, fleetVars, strayed, fetchFails>>

-----------------------------------------------------------------------------
(* The server of the request, and the call. *)

ServerForRequest(r) ==
  /\ req[r].at = "surface"
  /\ \/ /\ registerWithPolicy(req[r].account, req[r].tool) = {}
        /\ Move(r, Free)
     \/ \E tool \in registerWithPolicy(req[r].account, req[r].tool) :
          Move(r, [req[r] EXCEPT !.at = "forward", !.tool = tool, !.direct = (tool = req[r].tool)])
  /\ UNCHANGED <<issuerVars, keys, age, fleetVars, lateKey, strayed, fetchFails>>

\* The call goes to the account of the subject that the first verification found.
forward(r) ==
  LET q == req[r]
      subject == ForSubject(q.token.sub)
      barred == /\ q.direct /\ Disables(fleet[q.device], q.tool)
                /\ q.account = subject /\ ~q.moved
  IN /\ q.at = "forward"
     /\ IF q.device \in ListAccount(subject)
        THEN /\ Move(r, [q EXCEPT !.at = "wait"])
             /\ strayed' = (strayed \/ barred)
        ELSE Move(r, Free) /\ UNCHANGED strayed
     /\ UNCHANGED <<issuerVars, keys, age, fleetVars, lateKey, fetchFails>>
CallReturns(r) ==
  /\ req[r].at = "wait"
  /\ Move(r, Free)
  /\ UNCHANGED <<issuerVars, keys, age, fleetVars, lateKey, strayed, fetchFails>>

-----------------------------------------------------------------------------
(* The devices, the issuer and time. *)

DeviceRegisters(d) ==
  /\ registrations < MaxRegistrations /\ registrations' = registrations + 1
  /\ \E p \in DOMAIN Policies \cup {"off"} : p # fleet[d] /\ fleet' = [fleet EXCEPT ![d] = p]
  /\ req' = [r \in Requests |-> IF req[r].at = "forward" /\ req[r].device = d
                               THEN [req[r] EXCEPT !.moved = TRUE] ELSE req[r]]
  /\ UNCHANGED <<issuerVars, keys, age, lateKey, strayed, fetchFails>>

\* external: the issuer adds a key, or withdraws one.
Rotate(k) ==
  /\ rotations < MaxRotations /\ rotations' = rotations + 1
  /\ jwks' = IF k \in jwks THEN jwks \ {k} ELSE jwks \cup {k}
  /\ jwks' # {}
  /\ gone' = [gone EXCEPT ![k] = 0]
  /\ UNCHANGED <<keys, age, req, fleetVars, lateKey, strayed, fetchFails>>

TimeGoesOn ==
  /\ \A r \in Requests :
       \/ req[r].at \in {"free", "wait"}
       \/ req[r].at \in {"fetch", "transit"} /\ req[r].waited < FetchTimeout
  /\ age' = Older(age)
  /\ gone' = [k \in DOMAIN JWK |-> IF k \in jwks THEN 0 ELSE Older(gone[k])]
  /\ req' = [r \in Requests |-> IF req[r].at \in {"fetch", "transit"}
                               THEN [req[r] EXCEPT !.waited = @ + 1] ELSE req[r]]
  /\ UNCHANGED <<jwks, rotations, keys, fleetVars, lateKey, strayed, fetchFails>>

GwIdle ==
  /\ jwks = {1} /\ gone = [k \in DOMAIN JWK |-> 0]
  /\ keys = {}
  /\ req = [r \in Requests |-> Free]
  /\ lateKey = FALSE /\ strayed = FALSE
  /\ fetchFails = 0
GwInit ==
  /\ GwIdle /\ age = Cap
  /\ fleet = [d \in DOMAIN Fleet |-> "off"]
  /\ registrations = 0 /\ rotations = 0

GwStep(r) ==
  \/ key(r) \/ FetchAnswered(r) \/ FetchFailed(r) \/ refreshKeys(r) \/ keyAgain(r)
  \/ ServerForRequest(r) \/ forward(r) \/ CallReturns(r)
GwNext ==
  \/ \E r \in Requests : Arrive(r) \/ GwStep(r)
  \/ \E d \in DOMAIN Fleet : DeviceRegisters(d)
  \/ \E k \in DOMAIN JWK : Rotate(k)
  \/ TimeGoesOn
GwSpec == GwInit /\ [][GwNext]_gwVars

\* Handlers run, time passes, and a caller with a token keeps trying.  Fetches that
\* fail or take too long are as many as MaxFetchFails.
GwFairness ==
  /\ SF_gwVars(TimeGoesOn)
  /\ \A r \in Requests : WF_gwVars(GwStep(r))
  /\ \A t \in Bearer : SF_gwVars(\E r \in Requests : Arrive(r) /\ req'[r].token = t)

-----------------------------------------------------------------------------
\* A token is never accepted on a key that its issuer withdrew more than cacheTTL and
\* one fetch ago, though answers of the issuer may overtake each other and a set that
\* is older can replace a newer one.
KeyFresh == ~lateKey

\* No call of a built-in tool reaches a device that disables the tool, if the server
\* of the request was built for the caller's account and the device did not register
\* since.  Neither is certain: the second verification may see other keys than the
\* first, and devices come and go while a request is served.
DisabledNotCalled == ~strayed

\* A key that the issuer goes on publishing comes to be accepted, again and again: the
\* refusal of unknown kids for 30 seconds and answers that arrive late only delay it.
NewKeyAccepted ==
  \A t \in Bearer :
    (<>[](t.kid \in usable(jwks)) /\ Accepts(t)) =>
      []<>(\E r \in Requests : req[r].at # "free" /\ req[r].token = t /\ req[r].pass = 2)
=============================================================================
