--------------------------- MODULE GatewayValues ---------------------------
(***************************************************************************)
(* Values for the constants of McpGateway in model checking.               *)
(***************************************************************************)
\* Requests: the embedded server's key and one of another kind, two devices of one
\* account, with the default policy, everything enabled, and a wrapper.
Token(k, alg) == [kid |-> k, alg |-> alg, iss |-> "public", aud |-> "public", sub |-> "alice",
                  scope |-> <<"read", "read">>]
MCBearer == {Token(1, "RS256"), Token(2, "ES256")}
MCJWK == <<[kty |-> "RSA", use |-> "sig", alg |-> "RS256", n |-> 1, eBytes |-> 3, e |-> 65537],
           [kty |-> "EC", use |-> "", alg |-> "", crv |-> "P-256", onCurve |-> TRUE]>>
MCAccountMap == [alice |-> "team"]
MCFleet == [d1 |-> "team", d2 |-> "team"]
Policy(enabled, custom) == [disabled |-> {}, enabled |-> enabled, custom |-> custom]
MCPolicies == [none |-> Policy({}, <<>>), all |-> Policy({"*"}, [wrap |-> "patch"])]
=============================================================================
