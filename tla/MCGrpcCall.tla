----------------------------- MODULE MCGrpcCall -----------------------------
(* Instances of GrpcCall for TLC.                                            *)
EXTENDS GrpcCall

CONSTANT c1

Get == <<"svc", "Get">>
Health == <<"health", "Check">>
MCMethods == {Get, Health}
MCSkip == {Health}
MCCerts == {[sa |-> "a", cn |-> "b"], [sa |-> "", cn |-> ""]}
MCPatterns == {Get, <<"svc", "*">>}
MCRules == {[allowed |-> {<<"svc", "*">>}, denied |-> {Get}]}
MCInitial == {[s \in {"a", "b"} |-> IF s = "a" THEN [allowed |-> {<<"svc", "*">>}, denied |-> {}]
                                    ELSE NoRule]}
MCRequired == [m \in MCMethods |-> IF m = Get THEN {"read"} ELSE {}]

CertA == [sa |-> "a", cn |-> "b"]
NoName == [sa |-> "", cn |-> ""]
Of(kind, m, cert, u, p, sk, d) ==
    [kind |-> kind, method |-> m, cert |-> cert, user |-> u, prov |-> p, skew |-> sk, deadline |-> d]

\* The order of the package documentation, inside recovery and a logger.
Documented ==
    [server |-> <<"recovery", "logging", "mtls", "credential", "acl", "audit">>,
     stream |-> <<"recovery", "logging", "mtls", "credential", "acl", "audit">>,
     client |-> <<"timeout", "retry", "credential">>, retried |-> {"Unavailable"},
     allowedServices |-> {"a", "b"}, optional |-> FALSE, requireMatch |-> TRUE, useCred |-> TRUE,
     defaultAllow |-> FALSE,
     inputs |-> {Of("unary", Get, CertA, "b", {"bearer"}, 0, "none"),
                 Of("unary", Get, CertA, "a", {"hmac"}, 0, "none"),
                 Of("unary", Get, NoCert, "a", {"api_key"}, 0, "none"),
                 Of("unary", Health, NoCert, "a", {}, 0, "none")}]

\* Everything retried, with the metadata of the first attempt.
OuterCredential ==
    [server |-> <<"metrics", "mtls", "credential", "permission", "recovery">>,
     stream |-> <<"mtls", "credential", "recovery">>,
     client |-> <<"credential", "retry", "timeout">>,
     retried |-> {"Unavailable", "DeadlineExceeded", "Unauthenticated", "Unknown", "Internal"},
     allowedServices |-> {"a", ""}, optional |-> TRUE, requireMatch |-> TRUE, useCred |-> TRUE,
     defaultAllow |-> FALSE,
     inputs |-> {Of("unary", Get, CertA, "a", {"hmac"}, 1, "none"),
                 Of("unary", Get, CertA, "b", {"hmac"}, 0, "armed"),
                 Of("unary", Get, NoName, "a", {"bearer", "api_key"}, 0, "none"),
                 Of("unary", Get, CertA, "a", {"api_key"}, 0, "none"),
                 Of("stream", Get, CertA, "a", {"hmac"}, -1, "armed")}]

\* No certificates: the credential names the caller.
NoCertificates ==
    [server |-> <<"request_id", "logger", "recovery", "credential", "acl">>,
     stream |-> <<"request_id", "logger", "recovery", "credential", "acl">>,
     client |-> <<"retry", "credential", "timeout">>, retried |-> {"Unavailable", "no token"},
     allowedServices |-> {}, optional |-> TRUE, requireMatch |-> FALSE, useCred |-> TRUE,
     defaultAllow |-> TRUE,
     inputs |-> {Of("unary", Get, NoCert, "b", {"bearer"}, 0, "none"),
                 Of("unary", Get, NoCert, "a", {}, 0, "none"),
                 Of("stream", Get, NoCert, "b", {"api_key"}, 0, "none")}]

MCConfs == {Documented, OuterCredential, NoCertificates}

\* The chains of this instance are as the theorem about CallInv assumes them.
ASSUME MCOncePerChain == OncePerChain
=============================================================================
