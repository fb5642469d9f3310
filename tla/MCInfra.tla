------------------------------ MODULE MCInfra ------------------------------
(* Instances of the components that share nothing for TLC: a behaviour is    *)
(* one of a single part, and the others stay as they are.                    *)
EXTENDS RedisRuntime, RedisStore, CertReload, RequestLogs, LogFiles, DatabaseRegistry, TLC

CONSTANT Parts
VARIABLE part

Cfg(h, as, d) == [host |-> h, addrs |-> as, db |-> d]
Conf(base, over, hd, fb, cs, as, cl) ==
    [base |-> base, override |-> [n \in {"p"} |-> over], hasDefault |-> hd, fallback |-> fb,
     callers |-> cs, askers |-> as, closes |-> cl]

MCRuntimeConfs ==
    {Conf(Cfg("A", {}, 0), Cfg("B", {}, 1), TRUE, TRUE, {"x"}, {"u"}, TRUE),
     Conf(Cfg("A", {"A"}, 0), Cfg("", {"B"}, 1), TRUE, TRUE, {"x", "y"}, {}, FALSE),
     Conf(Cfg("A", {}, 0), Cfg("", {}, 0), TRUE, FALSE, {"x"}, {"u"}, FALSE),
     Conf(Cfg("A", {}, 0), Cfg("B", {}, 0), FALSE, TRUE, {"x", "y"}, {}, FALSE)}

\* Two stores over one key, with different codecs, and one of a child keyspace
\* whose name is that of a third keyspace.
MCStores == [u \in {"json", "gzip", "child"} |->
    CASE u = "json"  -> [space |-> <<<<"b">>>>, codec |-> "json", ttl |-> 1, ratio |-> 3,
                          uses |-> {"set", "get", "consume"}]
      [] u = "gzip"  -> [space |-> <<<<"b">>, <<"">>>>, codec |-> "gzip+json", ttl |-> 0, ratio |-> 1,
                          uses |-> {"set_if_absent", "get", "consume"}]
      [] u = "child" -> [space |-> <<<<"b">>, <<"", "a", "">>>>, codec |-> "string", ttl |-> 0, ratio |-> 0,
                          uses |-> {"set", "get", "delete"}]]

MCPurges ==
    {[space |-> <<<<"b">>>>, batchSize |-> 1, dryRun |-> FALSE],
     [space |-> <<<<"b">>>>, batchSize |-> 2, dryRun |-> TRUE],
     [space |-> <<<<"a">>>>, batchSize |-> 2, dryRun |-> FALSE]}

ASSUME MCRootsApart == RootsApart

MCIssuerOf == <<"ca1", "ca2">>
Peer(g, roots, insecure, cn, ous, sans) ==
    [cert |-> g, roots |-> roots, insecure |-> insecure, cn |-> cn, ous |-> ous, sans |-> sans]
MCAllowedCNs == {<<"a", "n", "svc">>, <<"b", "svc">>}
MCAllowedDNSSANs == {<<"*", "d">>}
MCPeers ==
    {Peer(1, {"ca1"}, FALSE, <<"a", "n", "svc">>, {"x"}, <<<<"h", "d">>>>),
     Peer(2, {}, TRUE, <<"b", "svc">>, {"x", "y"}, <<<<"z">>, <<"h", "d">>>>),
     Peer(1, {"ca1", "ca2"}, FALSE, <<"b", "svc">>, {"x"}, <<<<"d">>>>)}

Req(trace, id, key, body, preset, path, traced, does) ==
    [trace |-> trace, id |-> id, key |-> key, body |-> body, preset |-> preset, path |-> path,
     traced |-> traced, does |-> does]
MCRequests == [r \in {"get", "post", "none", "skip", "m1", "m2"} |->
    CASE r = "get"  -> Req("t", "", "", 0, 200, "/a", TRUE, {"write", "status", "panic", "say"})
      [] r = "post" -> Req("", "i", "k", 3, 200, "/a", TRUE, {"read", "write", "status"})
      [] r = "none" -> Req("", "", "", 2, 404, "/b", FALSE, {"read", "status", "write", "say"})
      [] r = "skip" -> Req("", "", "", 3, 200, "/health", TRUE, {"read", "write", "redis", "pipeline", "sql", "say"})
      [] r = "m1"   -> Req("t", "i", "", 0, 200, "/a", TRUE, {"mongo"})
      [] r = "m2"   -> Req("u", "", "", 0, 200, "/a", TRUE, {"mongo"})]
MCRequestGroups == {{"get"}, {"post"}, {"none"}, {"skip"}, {"m1", "m2"}}

LogConf(kind, timed, mode, paths, maxAge) ==
    [kind |-> kind, timed |-> timed, level |-> IF kind = "plain" THEN 4 ELSE 2, mode |-> mode, paths |-> paths, maxAge |-> maxAge,
     faults |-> kind = "time"]
MCLogConfs ==
    {LogConf("time", TRUE, "duplicate", Out :> {"app"}, 3),
     LogConf("plain", FALSE, "duplicate", Out :> {"app", "app-error"}, 2),
     LogConf("levels", TRUE, "duplicate", AllLevels :> {"app"} @@ 3 :> {"app-error"}, 3),
     LogConf("levels", TRUE, "duplicate", AllLevels :> {"app"} @@ 3 :> {"app-error"}, 1),
     LogConf("levels", TRUE, "exact", AllLevels :> {"app"} @@ 3 :> {"app-error"}, 0),
     LogConf("levels", FALSE, "above", 2 :> {"app"} @@ 4 :> {"app-error"}, 2)}
MCSameDirPrefix == [p \in {"app", "app-error"} |-> IF p = "app" THEN {p, "app-error"} ELSE {p}]

MCDbStages == <<"nil", "mysql", "redis", "init", "work">>
MCDbHooks == <<"work", "close">>

allVars == <<part, rtVars, stVars, crVars, rqVars, lfVars, dbVars>>

MCInit ==
    /\ part \in Parts
    /\ RuntimeInit /\ StoreInit /\ CertInit /\ RequestInit /\ LogInit /\ DbInit
    /\ part # "runtime" =>
          /\ \A a \in RedisAddrs : server[a]
          /\ rtConf = CHOOSE cf \in MCRuntimeConfs : TRUE
    /\ part # "requests" => rqReq["get"].pc = "arrived"
    /\ part # "logs" => lfConf = CHOOSE cf \in MCLogConfs : TRUE

RuntimePart(A) == part = "runtime" /\ A /\ UNCHANGED <<part, stVars, crVars, rqVars, lfVars, dbVars>>
StorePart(A) == part = "store" /\ A /\ UNCHANGED <<part, rtVars, crVars, rqVars, lfVars, dbVars>>
CertPart(A) == part = "certs" /\ A /\ UNCHANGED <<part, rtVars, stVars, rqVars, lfVars, dbVars>>
RequestPart(A) == part = "requests" /\ A /\ UNCHANGED <<part, rtVars, stVars, crVars, lfVars, dbVars>>
LogPart(A) == part = "logs" /\ A /\ UNCHANGED <<part, rtVars, stVars, crVars, rqVars, dbVars>>
DbPart(A) == part = "databases" /\ A /\ UNCHANGED <<part, rtVars, stVars, crVars, rqVars, lfVars>>

MCNext ==
    \/ RuntimePart(RuntimeNext)
    \/ StorePart(StoreNext)
    \/ CertPart(CertNext)
    \/ RequestPart(RequestNext)
    \/ LogPart(LogNext)
    \/ DbPart(DbNext)

\* Callers of the registries run on, time passes, and certificates are reloaded.
MCSpec ==
    /\ MCInit /\ [][MCNext]_allVars
    /\ \A p \in Callers : WF_allVars(RuntimePart(CallerStep(p)))
    /\ WF_allVars(RuntimePart(TimePasses))
    /\ \A l \in Loaders \cup {New} : WF_allVars(CertPart(Loading(l)))
=============================================================================
