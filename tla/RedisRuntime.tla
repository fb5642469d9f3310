---------------------------- MODULE RedisRuntime ----------------------------
(****************************************************************************)
(* The registry of Redis profiles: Connect, Close and HealthCheck run by    *)
(* concurrent callers, and Bind and Client by those who want a connection.  *)
(*                                                                          *)
(* A profile's state (lastErr, nextRetryAt, retryDelay) is written under    *)
(* the mutex, a handle's client without one, and HealthCheck reads lastErr  *)
(* and nextRetryAt without it.  A client is nil, open or closed; go-redis   *)
(* itself reconnects an open client to a server that is back.  Times are in *)
(* units of profileInitialRetryDelay.  Nil receivers, pool sizes and the    *)
(* observer's events are left out.                                          *)
(****************************************************************************)
EXTENDS Integers, FiniteSets

CONSTANTS
    ProfileNames,     \* names of the configured profiles
    OtherNames,       \* names nobody configured
    Callers, Askers,
    RedisAddrs,       \* addresses of Redis servers
    RuntimeConfs,     \* [base, override, hasDefault, fallback, callers, askers, closes]: the
                      \* configurations of the default and of each profile, who calls what
    MaxRetryDelay,    \* profileMaxRetryDelay
    MaxFaults         \* how often a server goes down

VARIABLES
    rtConf,
    handle,    \* name -> its client: "nil", "open", "closed"; the default's name is ""
    profile,   \* name -> [err, wait, delay]: is lastErr set, time to nextRetryAt, retryDelay
    caller,    \* what each caller of the registry is doing
    asker,     \* and each caller of Client
    server,    \* address -> is the server up
    faults,
    lost       \* has a handle dropped an open client

rtVars == <<rtConf, handle, profile, caller, asker, server, faults, lost>>

Default == ""
Handles == ProfileNames \cup {Default}
NoCaller == [op |-> "idle", pc |-> "none", todo |-> {}, cur |-> Default, stale |-> FALSE]
NoAsker == [name |-> Default, pc |-> "idle", res |-> "none"]
RedisConfigs == [host : RedisAddrs \cup {""}, addrs : SUBSET RedisAddrs, db : 0..1]

ASSUME RuntimeConstants ==
    /\ MaxRetryDelay \in Nat \ {0} /\ MaxFaults \in Nat /\ IsFiniteSet(Callers)
    /\ Default \notin ProfileNames \cup OtherNames /\ ProfileNames \cap OtherNames = {}
    /\ "" \notin RedisAddrs
    /\ \A cf \in RuntimeConfs :
          /\ cf.base \in RedisConfigs /\ cf.override \in [ProfileNames -> RedisConfigs]
          /\ cf.base.host # "" /\ cf.callers \subseteq Callers /\ cf.askers \subseteq Askers
          /\ {cf.hasDefault, cf.fallback, cf.closes} \subseteq BOOLEAN

-----------------------------------------------------------------------------
(* Configuration.                                                           *)

\* MergeConfig: what the override sets wins, and its database always does.
MergeConfig(base, override) ==
    [host  |-> IF override.host # "" THEN override.host ELSE base.host,
     addrs |-> IF override.addrs # {} THEN override.addrs ELSE base.addrs,
     db    |-> override.db]

\* Handle.addresses: the list before host and port.
Addresses(cfg) == IF cfg.addrs # {} THEN cfg.addrs ELSE {cfg.host}

\* The configuration New gives a handle; without a default the profile's own.
ConfigOf(h) ==
    IF h = Default THEN rtConf.base
    ELSE IF rtConf.hasDefault THEN MergeConfig(rtConf.base, rtConf.override[h])
    ELSE rtConf.override[h]

\* A new client answers its first Ping.  A single-node client takes one address.
Reachable(h) == \E a \in Addresses(ConfigOf(h)) : a \in RedisAddrs /\ server[a]

-----------------------------------------------------------------------------
(* Handles.                                                                 *)

\* Handle.Connect of a reachable handle: the client that was there is dropped.
HandleConnect(h) ==
    /\ handle' = [handle EXCEPT ![h] = "open"]
    /\ lost' = (lost \/ handle[h] = "open")

\* Handle.Close: the closed client stays in the handle.  Whoever was about to
\* ping it will fail.
HandleClose(p, h, pc) ==
    /\ handle' = [handle EXCEPT ![h] = IF @ = "open" THEN "closed" ELSE @]
    /\ caller' = [q \in Callers |->
           IF q = p THEN [caller[p] EXCEPT !.pc = pc]
           ELSE IF caller[q].cur = h THEN [caller[q] EXCEPT !.stale = TRUE] ELSE caller[q]]

\* Handle.HealthCheck of the client that was read.
Answers(h) == handle[h] = "open" /\ Reachable(h)

-----------------------------------------------------------------------------
(* Connect, Close and HealthCheck of the registry.                          *)

Goto(p, pc) == caller' = [caller EXCEPT ![p].pc = pc]

Start(p, op) ==
    /\ p \in rtConf.callers /\ caller[p].op = "idle"
    /\ caller' = [caller EXCEPT ![p] = [NoCaller EXCEPT
           !.op = op, !.todo = ProfileNames, !.pc = IF rtConf.hasDefault THEN "default" ELSE "loop"]]
    /\ UNCHANGED <<rtConf, handle, profile, asker, server, faults, lost>>

\* The default first: an error of Connect or HealthCheck ends the call, and the
\* profiles are not looked at.
DefaultFirst(p) ==
    /\ caller[p].pc = "default"
    /\ \/ /\ caller[p].op = "connect" /\ Reachable(Default)
          /\ HandleConnect(Default) /\ Goto(p, "loop")
       \/ /\ caller[p].op = "connect" /\ ~Reachable(Default)
          /\ caller' = [caller EXCEPT ![p] = NoCaller] /\ UNCHANGED <<handle, lost>>
       \/ /\ caller[p].op = "health" /\ Answers(Default)
          /\ Goto(p, "loop") /\ UNCHANGED <<handle, lost>>
       \/ /\ caller[p].op = "health" /\ ~Answers(Default)
          /\ caller' = [caller EXCEPT ![p] = NoCaller] /\ UNCHANGED <<handle, lost>>
       \/ /\ caller[p].op = "close"
          /\ HandleClose(p, Default, "loop") /\ UNCHANGED lost
    /\ UNCHANGED <<rtConf, profile, asker, server, faults>>

\* The loop takes the profiles in any order.
NextProfile(p) ==
    /\ caller[p].pc = "loop"
    /\ \/ /\ caller[p].todo = {}
          /\ caller' = [caller EXCEPT ![p] = NoCaller]
       \/ \E n \in caller[p].todo :
             caller' = [caller EXCEPT ![p].todo = @ \ {n}, ![p].cur = n, ![p].stale = FALSE,
                 ![p].pc = CASE caller[p].op = "connect" -> "open"
                             [] caller[p].op = "close"   -> "close"
                             [] caller[p].op = "health"  -> IF profile[n].err THEN "due" ELSE "ping"]
    /\ UNCHANGED <<rtConf, handle, profile, asker, server, faults, lost>>

ClosesProfile(p) ==
    /\ caller[p].pc = "close"
    /\ HandleClose(p, caller[p].cur, "loop")
    /\ UNCHANGED <<rtConf, profile, asker, server, faults, lost>>

Pings(p) ==
    /\ caller[p].pc = "ping"
    /\ Goto(p, IF Answers(caller[p].cur) /\ ~caller[p].stale THEN "loop" ELSE "failed")
    /\ UNCHANGED <<rtConf, handle, profile, asker, server, faults, lost>>

\* Is somebody writing the state of the profile that p reads without the mutex?
Racing(p) ==
    \E q \in Callers \ {p} : caller[q].cur = caller[p].cur /\ caller[q].pc \in {"opened", "failed"}

\* retryDue: a time that is read while it is written can come out either way.
RetryDue(p) ==
    LET n == caller[p].cur
        due == profile[n].err /\ profile[n].wait = 0
    IN  /\ caller[p].pc = "due"
        /\ \/ Goto(p, IF due THEN "reclose" ELSE "loop")
           \/ Racing(p) /\ Goto(p, IF due THEN "loop" ELSE "reclose")
        /\ UNCHANGED <<rtConf, handle, profile, asker, server, faults, lost>>

\* Faulty variant: reconnect does not close the client it replaces.
ReconnectNoClose(p) ==
    /\ caller[p].pc = "reclose"
    /\ Goto(p, "open")
    /\ UNCHANGED <<rtConf, handle, profile, asker, server, faults, lost>>

\* reconnect: Close, and in a step of its own Connect.
Reconnect(p) ==
    /\ caller[p].pc = "reclose"
    /\ HandleClose(p, caller[p].cur, "open")
    /\ UNCHANGED <<rtConf, profile, asker, server, faults, lost>>

\* A client whose Ping fails is not kept, nor closed: the old one stays.
OpensProfile(p) ==
    LET n == caller[p].cur
    IN  /\ caller[p].pc = "open"
        /\ \/ Reachable(n) /\ HandleConnect(n) /\ Goto(p, "opened")
           \/ ~Reachable(n) /\ Goto(p, "failed") /\ UNCHANGED <<handle, lost>>
        /\ UNCHANGED <<rtConf, profile, asker, server, faults>>

\* Faulty variant: lastErr stays.
MarkAvailableKeepsErr(p) ==
    /\ caller[p].pc = "opened"
    /\ profile' = [profile EXCEPT ![caller[p].cur].wait = 0, ![caller[p].cur].delay = 0]
    /\ Goto(p, "loop")
    /\ UNCHANGED <<rtConf, handle, asker, server, faults, lost>>

\* markAvailable.
MarkAvailable(p) ==
    /\ caller[p].pc = "opened"
    /\ profile' = [profile EXCEPT ![caller[p].cur] = [err |-> FALSE, wait |-> 0, delay |-> 0]]
    /\ Goto(p, "loop")
    /\ UNCHANGED <<rtConf, handle, asker, server, faults, lost>>

\* The delay of markUnavailable: initial, then doubled up to the maximum.
NextDelay(d) ==
    IF d = 0 THEN 1 ELSE IF 2 * d > MaxRetryDelay THEN MaxRetryDelay ELSE 2 * d

MarkUnavailable(p) ==
    LET n == caller[p].cur
        d == NextDelay(profile[n].delay)
    IN  /\ caller[p].pc = "failed"
        /\ profile' = [profile EXCEPT ![n] = [err |-> TRUE, wait |-> d, delay |-> d]]
        /\ Goto(p, "loop")
        /\ UNCHANGED <<rtConf, handle, asker, server, faults, lost>>

CallerStep(p) ==
    \/ DefaultFirst(p) \/ NextProfile(p) \/ ClosesProfile(p) \/ Pings(p) \/ RetryDue(p)
    \/ Reconnect(p) \/ OpensProfile(p) \/ MarkAvailable(p) \/ MarkUnavailable(p)

-----------------------------------------------------------------------------
(* Bind and Client.                                                         *)

\* Status: a configured profile is available or not, before any Connect too.
Status(n) ==
    IF n \notin ProfileNames THEN "missing" ELSE IF profile[n].err THEN "unavailable" ELSE "available"

\* What Client makes of a handle.
FromHandle(h) == IF handle[h] = "nil" THEN "error" ELSE IF h = Default THEN "default" ELSE "profile"
FromDefault == IF rtConf.hasDefault THEN FromHandle(Default) ELSE "error"

\* Client, and in it Bind and ByProfile of a profile without an error.
Ask(a, n) ==
    /\ a \in rtConf.askers /\ asker[a].pc = "idle"
    /\ asker' = [asker EXCEPT ![a] =
           IF n = Default THEN [name |-> n, pc |-> "done", res |-> FromDefault]
           ELSE IF Status(n) = "available" THEN [name |-> n, pc |-> "done", res |-> FromHandle(n)]
           ELSE [name |-> n, pc |-> "asking", res |-> "none"]]
    /\ UNCHANGED <<rtConf, handle, profile, caller, server, faults, lost>>

\* The rest of Bind after an error of ByProfile: it asks for the status again.
Bind(a) ==
    /\ asker[a].pc = "asking"
    /\ asker' = [asker EXCEPT ![a].pc = "done",
           ![a].res = IF Status(asker[a].name) = "missing" /\ rtConf.fallback THEN FromDefault
                      ELSE "error"]
    /\ UNCHANGED <<rtConf, handle, profile, caller, server, faults, lost>>

Forget(a) ==
    /\ asker[a].pc = "done"
    /\ asker' = [asker EXCEPT ![a] = NoAsker]
    /\ UNCHANGED <<rtConf, handle, profile, caller, server, faults, lost>>

-----------------------------------------------------------------------------
(* The environment.                                                         *)

ServerFails(a) ==
    /\ server[a] /\ faults < MaxFaults
    /\ server' = [server EXCEPT ![a] = FALSE]
    /\ faults' = faults + 1
    /\ UNCHANGED <<rtConf, handle, profile, caller, asker, lost>>

ServerReturns(a) ==
    /\ ~server[a]
    /\ server' = [server EXCEPT ![a] = TRUE]
    /\ UNCHANGED <<rtConf, handle, profile, caller, asker, faults, lost>>

TimePasses ==
    /\ \E n \in ProfileNames : profile[n].wait > 0
    /\ profile' = [n \in ProfileNames |->
           [profile[n] EXCEPT !.wait = IF @ > 0 THEN @ - 1 ELSE 0]]
    /\ UNCHANGED <<rtConf, handle, caller, asker, server, faults, lost>>

RuntimeInit ==
    /\ rtConf \in RuntimeConfs
    /\ handle = [h \in Handles |-> "nil"]
    /\ profile = [n \in ProfileNames |-> [err |-> FALSE, wait |-> 0, delay |-> 0]]
    /\ caller = [p \in Callers |-> NoCaller]
    /\ asker = [a \in Askers |-> NoAsker]
    /\ server \in [RedisAddrs -> BOOLEAN]
    /\ faults = 0
    /\ lost = FALSE

\* The application connects once, when nobody checks yet, and closes when it
\* likes.
Connect(p) ==
    /\ \A h \in Handles : handle[h] = "nil"
    /\ \A q \in Callers : caller[q].op = "idle"
    /\ Start(p, "connect")

RuntimeNext ==
    \/ \E p \in Callers :
          \/ Connect(p) \/ Start(p, "health") \/ CallerStep(p)
          \/ rtConf.closes /\ Start(p, "close")
    \/ \E a \in Askers : (\E n \in ProfileNames \cup OtherNames \cup {Default} : Ask(a, n)) \/ Bind(a) \/ Forget(a)
    \/ \E a \in RedisAddrs : ServerFails(a) \/ ServerReturns(a)
    \/ TimePasses

RuntimeSpec == RuntimeInit /\ [][RuntimeNext]_rtVars

-----------------------------------------------------------------------------
(* Properties.                                                              *)

\* Every variable has its type; a retry delay doubles up to the maximum.
RuntimeTypeOK ==
    /\ rtConf \in RuntimeConfs
    /\ handle \in [Handles -> {"nil", "open", "closed"}]
    /\ \A n \in ProfileNames :
          /\ profile[n].delay \in 0..MaxRetryDelay /\ profile[n].wait \in 0..profile[n].delay
          /\ ~profile[n].err => profile[n].delay = 0
    /\ \A p \in Callers : caller[p].op \in {"idle", "connect", "health", "close"}
    /\ \A a \in Askers : asker[a].pc \in {"idle", "asking", "done"}
    /\ faults \in 0..MaxFaults /\ lost \in BOOLEAN

\* "A configured profile that is unavailable returns an error": a client of the
\* default is handed out for a profile that is not configured only, whatever
\* health checks do between ByProfile and Status.
UnavailableIsNotDefault ==
    \A a \in Askers : asker[a].res = "default" => asker[a].name \notin ProfileNames

\* One caller of the registry never makes a handle drop a client that is still
\* open: reconnect closes it first.  (Two health checks can, and a second
\* Connect does.)
NoneDropped == Cardinality(rtConf.callers) = 1 => ~lost

\* A profile connects to the servers its own configuration names, if it names
\* any; except that a host is overruled by a list of addresses of the default.
OwnServers ==
    \A n \in ProfileNames :
        LET own == rtConf.override[n]
        IN  /\ own.addrs # {} => Addresses(ConfigOf(n)) = own.addrs
            /\ own.addrs = {} /\ own.host # "" /\ rtConf.base.addrs = {}
               => Addresses(ConfigOf(n)) = {own.host}
            /\ ConfigOf(n).db = own.db

\* Health checks heal a profile: once the servers stay up, nobody closes the
\* runtime and checks go on, one at a time, every profile becomes available for
\* good with an open client, however overlapping checks got in each other's
\* way before.  (Checks that overlap for ever can undo each other's reconnects
\* for ever.)  The default must have connected: its failure ends every check.
Recovers ==
    /\ <>[]((\A a \in RedisAddrs : server[a]) /\ (rtConf.hasDefault => handle[Default] = "open"))
    /\ <>[](Cardinality({p \in Callers : caller[p].op # "idle"}) <= 1)
    /\ ~rtConf.closes /\ []<>(\E p \in Callers : caller[p].op = "health")
    => <>[](\A n \in ProfileNames : ~profile[n].err /\ handle[n] = "open")

\* What holds of the handles at every time: types, no default client for a
\* profile that is configured, no open client dropped, the profile's own servers.
RuntimeInv == RuntimeTypeOK /\ UnavailableIsNotDefault /\ NoneDropped /\ OwnServers
=============================================================================
