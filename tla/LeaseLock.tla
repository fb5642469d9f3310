------------------------------ MODULE LeaseLock ------------------------------
(****************************************************************************)
(* The Redis lease lock: redis/lease.Service (Acquire, Renew, Release,      *)
(* CheckOwnership) behind locklease/redisadapter.Manager, used by several   *)
(* clients at once over a connection that loses, delays and repeats         *)
(* commands.                                                                *)
(*                                                                          *)
(* A call is three steps: the client sends one command, Redis runs it       *)
(* (SETNX, a compare-and-set script or GET, each atomic), the client gets   *)
(* the answer or an error.  go-redis repeats a command whose answer does    *)
(* not arrive, and Redis may still run a copy the client has given up on:   *)
(* such copies are in `stray`.                                              *)
(*                                                                          *)
(* Time is counted in ticks, MsTicks of them to a millisecond.  Nothing     *)
(* holds an absolute time: an entry of the store and a client's view of its *)
(* lease hold what is left of them, and Tick shortens them all.             *)
(*                                                                          *)
(* Returns that leave every variable alone (an empty name or key, a TTL     *)
(* that is not positive, a token source that fails, a nil client) are not   *)
(* actions; their conditions are the guards of the calls.                   *)
(****************************************************************************)
EXTENDS Integers, FiniteSets

CONSTANTS
    Clients,      \* goroutines or processes that share the locks
    Tokens,       \* the lease tokens the token source may yet generate
    Specs,        \* locklease.Spec values: [name, defaultTTL]
    BizKeys,      \* business keys passed to AcquireSpec
    Overrides,    \* ttlOverride arguments; 0 stands for none
    NoName,       \* the empty string
    MsTicks,      \* ticks in a millisecond
    MaxStray,     \* bound: copies of commands under way at once
    None          \* no lease, no entry, no call

ASSUME MsTicksPositive == MsTicks \in Nat \ {0}

ASSUME MaxStrayNatural == MaxStray \in Nat

ASSUME SpecsTyped == \A s \in Specs : s.defaultTTL \in Int

ASSUME OverridesTyped == Overrides \subseteq Int

VARIABLES
    store,        \* Redis: lock key -> entry [token, left] or None
    issued,       \* token -> [client, key] it was generated for, or None
    call,         \* client -> the call it waits for, or None
    lease,        \* client -> the Lease value it holds, or None
    stray         \* copies of commands Redis may still run

vars == <<store, issued, call, lease, stray>>

-----------------------------------------------------------------------------
(* What the caller asks for and what reaches Redis.                         *)

\* Manager.redisKey: a business key, when there is one, replaces the name.
redisKey(spec, key) == IF key # NoName THEN key ELSE spec.name

\* AcquireSpec: a positive override replaces the default TTL.
SpecTTL(spec, override) ==
    IF override > 0 THEN override ELSE spec.defaultTTL

LockKeys == {redisKey(s, k) : s \in Specs, k \in BizKeys} \ {NoName}

TTLs == {SpecTTL(s, o) : s \in Specs, o \in Overrides} \cap (Nat \ {0})

\* go-redis sends whole milliseconds and rounds a shorter TTL up to one.
SetNXTicks(ttl) ==
    IF ttl < MsTicks THEN MsTicks ELSE (ttl \div MsTicks) * MsTicks

\* Renew passes ttl.Milliseconds(), which truncates.
PExpireTicks(ttl) == (ttl \div MsTicks) * MsTicks

Request == [op : {"acquire", "renew", "release", "check"},
            key : LockKeys, token : Tokens, ticks : Nat]

Entry == [token : Tokens, left : Nat \ {0}]

\* A lease value; safe is what is left of it for a caller that starts its
\* clock before it sends the command.
LeaseValue == [key : LockKeys, token : Tokens, safe : Nat]

\* fresh is the validity a positive answer would still give.
Call == [req : Request, done : BOOLEAN, reply : BOOLEAN, fresh : Nat]

Issue == [client : Clients, key : LockKeys]

ASSUME NoneIsNew == None \notin Clients \cup Entry \cup LeaseValue \cup Call
                                \cup Issue

TypeOK ==
    /\ store \in [LockKeys -> Entry \cup {None}]
    /\ issued \in [Tokens -> Issue \cup {None}]
    /\ call \in [Clients -> Call \cup {None}]
    /\ lease \in [Clients -> LeaseValue \cup {None}]
    /\ stray \subseteq Request

Init ==
    /\ store = [k \in LockKeys |-> None]
    /\ issued = [t \in Tokens |-> None]
    /\ call = [c \in Clients |-> None]
    /\ lease = [c \in Clients |-> None]
    /\ stray = {}

-----------------------------------------------------------------------------
(* Calls.                                                                   *)

Send(c, op, key, token, ticks) ==
    call' = [call EXCEPT ![c] =
                [req |-> [op |-> op, key |-> key, token |-> token,
                          ticks |-> ticks],
                 done |-> FALSE, reply |-> FALSE, fresh |-> ticks]]

\* Manager.AcquireSpec -> Manager.Acquire -> Service.Acquire up to SetNX.
\* A token is 128 random bits: one that was never issued.
AcquireCall(c, spec, key, override) ==
    LET ttl == SpecTTL(spec, override)
        k   == redisKey(spec, key)
    IN  /\ call[c] = None /\ lease[c] = None
        /\ spec.name # NoName
        /\ ttl > 0
        /\ k # NoName
        /\ \E t \in Tokens :
              /\ issued[t] = None
              /\ issued' = [issued EXCEPT ![t] = [client |-> c, key |-> k]]
              /\ Send(c, "acquire", k, t, SetNXTicks(ttl))
        /\ UNCHANGED <<store, lease, stray>>

\* Service.Renew up to the script.  The caller keeps the old value until the
\* answer comes.
RenewCall(c, ttl) ==
    /\ call[c] = None /\ lease[c] # None
    /\ ttl > 0
    /\ Send(c, "renew", lease[c].key, lease[c].token, PExpireTicks(ttl))
    /\ UNCHANGED <<store, issued, lease, stray>>

\* Service.Release up to the script.  A caller uses no lease after it has
\* passed it to Release, whatever Release returns.
ReleaseCall(c) ==
    /\ call[c] = None /\ lease[c] # None
    /\ Send(c, "release", lease[c].key, lease[c].token, 0)
    /\ lease' = [lease EXCEPT ![c] = None]
    /\ UNCHANGED <<store, issued, stray>>

\* Service.CheckOwnership up to GET.
CheckCall(c) ==
    /\ call[c] = None /\ lease[c] # None
    /\ Send(c, "check", lease[c].key, lease[c].token, 0)
    /\ UNCHANGED <<store, issued, lease, stray>>

-----------------------------------------------------------------------------
(* Redis.                                                                   *)

Owned(r) == store[r.key] # None /\ store[r.key].token = r.token

\* Faulty variant: Release and Renew do not compare the token.
AnswerAnyToken(r) == IF r.op = "acquire" THEN store[r.key] = None
                                         ELSE store[r.key] # None

\* Faulty variant: SET without NX.
AnswerNoNX(r) == r.op = "acquire" \/ Owned(r)

\* The answer of a command: SETNX finds no entry, a script and GET find the
\* caller's token.
Answer(r) == IF r.op = "acquire" THEN store[r.key] = None ELSE Owned(r)

\* The effect of a command.  PEXPIRE with 0 deletes the key.
Effect(r) ==
    CASE r.op \in {"acquire", "renew"} /\ Answer(r) ->
            store' = [store EXCEPT ![r.key] =
                        IF r.ticks = 0 THEN None
                        ELSE [token |-> r.token, left |-> r.ticks]]
      [] r.op = "release" /\ Answer(r) ->
            store' = [store EXCEPT ![r.key] = None]
      [] OTHER -> UNCHANGED store

\* Redis runs the command a client waits for.
Serve(c) ==
    /\ call[c] # None /\ ~call[c].done
    /\ Effect(call[c].req)
    /\ call' = [call EXCEPT ![c].done = TRUE,
                            ![c].reply = Answer(call[c].req)]
    /\ UNCHANGED <<issued, lease, stray>>

\* Redis runs a copy nobody waits for.
ServeStray(r) ==
    /\ Effect(r)
    /\ stray' = stray \ {r}
    /\ UNCHANGED <<issued, call, lease>>

\* Faulty variant: the last tick of an entry never passes.
TickNoExpiry ==
    /\ store' = [k \in LockKeys |->
                   IF store[k] = None \/ store[k].left <= 1 THEN store[k]
                   ELSE [store[k] EXCEPT !.left = @ - 1]]
    /\ UNCHANGED <<issued, call, lease, stray>>

\* Time passes for everybody; an entry with nothing left expires.
Tick ==
    /\ store' = [k \in LockKeys |->
                   IF store[k] = None \/ store[k].left <= 1 THEN None
                   ELSE [store[k] EXCEPT !.left = @ - 1]]
    /\ lease' = [c \in Clients |->
                   IF lease[c] = None \/ lease[c].safe = 0 THEN lease[c]
                   ELSE [lease[c] EXCEPT !.safe = @ - 1]]
    /\ call' = [c \in Clients |->
                   IF call[c] = None \/ call[c].fresh = 0 THEN call[c]
                   ELSE [call[c] EXCEPT !.fresh = @ - 1]]
    /\ UNCHANGED <<issued, stray>>

-----------------------------------------------------------------------------
(* Answers and errors.                                                      *)

\* The client stops waiting for its command.  Redis may have run it already,
\* it may be lost, or it may still arrive (a late GET is of no consequence).
LeaveBehind(c) ==
    \/ UNCHANGED stray
    \/ /\ ~call[c].done /\ call[c].req.op # "check"
       /\ Cardinality(stray) < MaxStray
       /\ stray' = stray \cup {call[c].req}

\* The answer did not come in time and go-redis sends the command again.
Retry(c) ==
    /\ call[c] # None
    /\ call' = [call EXCEPT ![c].done = FALSE, ![c].reply = FALSE]
    /\ LeaveBehind(c)
    /\ UNCHANGED <<store, issued, lease>>

\* Faulty variant: Renew ignores the answer of the script.
ReturnRenewed(c) ==
    /\ call[c] # None /\ call[c].done
    /\ LET r == call[c].req
       IN  lease' = [lease EXCEPT ![c] =
              CASE r.op = "renew" \/ (r.op = "acquire" /\ call[c].reply) ->
                     [key |-> r.key, token |-> r.token, safe |-> call[c].fresh]
                [] r.op = "acquire" /\ ~call[c].reply -> None
                [] OTHER -> @]
    /\ call' = [call EXCEPT ![c] = None]
    /\ UNCHANGED <<store, issued, stray>>

\* The answer arrives: the rest of Acquire, Renew, Release, CheckOwnership.
Return(c) ==
    /\ call[c] # None /\ call[c].done
    /\ LET r == call[c].req
       IN  lease' = [lease EXCEPT ![c] =
              IF r.op \in {"acquire", "renew"}
                THEN IF call[c].reply
                       THEN [key |-> r.key, token |-> r.token,
                             safe |-> call[c].fresh]
                       ELSE None
                ELSE @]
    /\ call' = [call EXCEPT ![c] = None]
    /\ UNCHANGED <<store, issued, stray>>

\* The call ends with an error: Acquire and Renew return the zero Lease, and
\* the command may still be on its way.
Fail(c) ==
    /\ call[c] # None
    /\ LeaveBehind(c)
    /\ lease' = [lease EXCEPT ![c] =
                   IF call[c].req.op = "renew" THEN None ELSE @]
    /\ call' = [call EXCEPT ![c] = None]
    /\ UNCHANGED <<store, issued>>

\* The client's process dies and a new one takes its place.
Crash(c) ==
    /\ lease[c] # None \/ call[c] # None
    /\ IF call[c] = None THEN UNCHANGED stray ELSE LeaveBehind(c)
    /\ lease' = [lease EXCEPT ![c] = None]
    /\ call' = [call EXCEPT ![c] = None]
    /\ UNCHANGED <<store, issued>>

Next ==
    \/ \E c \in Clients, s \in Specs, k \in BizKeys, o \in Overrides :
          AcquireCall(c, s, k, o)
    \/ \E c \in Clients, d \in TTLs : RenewCall(c, d)
    \/ \E c \in Clients : ReleaseCall(c)
    \/ \E c \in Clients : CheckCall(c)
    \/ \E c \in Clients : Serve(c)
    \/ \E r \in stray : ServeStray(r)
    \/ \E c \in Clients : Retry(c)
    \/ \E c \in Clients : Return(c)
    \/ \E c \in Clients : Fail(c)
    \/ \E c \in Clients : Crash(c)
    \/ Tick

Spec == Init /\ [][Next]_vars

\* Time goes on; clients and the network owe nothing.
FairSpec == Spec /\ WF_vars(Tick)

-----------------------------------------------------------------------------
(* Properties.                                                              *)

\* Every TTL is at least a millisecond, the resolution Redis is asked with.
MillisecondTTLs == \A d \in TTLs : d >= MsTicks

\* Every TTL is the same number of milliseconds: a Renew that was delayed
\* can then not shorten what a later Renew has granted.
UniformTTLs == \A d, e \in TTLs : d \div MsTicks = e \div MsTicks

Holds(c, k) == lease[c] # None /\ lease[c].key = k /\ lease[c].safe > 0

InFlight ==
    stray \cup {call[c].req : c \in {x \in Clients :
                                        call[x] # None /\ ~call[x].done}}

\* Two clients never hold a valid lease of the same lock key at once, however
\* their commands, the repeats and the expiries of the key interleave
\* (Acquire's SET NX with Release's and Renew's token comparison).
MutualExclusion ==
    \A k \in LockKeys : \A c, d \in Clients :
        Holds(c, k) /\ Holds(d, k) => c = d

\* Renew and CheckOwnership never answer "not owned" to a client whose lease
\* is still valid: nothing that any client, retry or late copy does takes the
\* key from it.
NeverToldLost ==
    \A c \in Clients :
        /\ call[c] # None /\ call[c].done /\ ~call[c].reply
        /\ call[c].req.op \in {"renew", "check"}
        /\ lease[c] # None
        => lease[c].safe = 0

\* An entry that has time left leaves the store only through a Release of the
\* very lease that put it there, sent by the client the token was issued to:
\* a holder whose lease has expired never deletes its successor's.
EvictedOnlyByItsOwner ==
    [][\A k \in LockKeys :
          /\ store[k] # None /\ store[k].left > 1
          /\ store'[k] = None \/ store'[k].token # store[k].token
          => \E r \in InFlight :
                /\ r.op = "release"
                /\ r.key = k /\ r.token = store[k].token]_vars

\* No lease, call or copy carries the token any more.
Abandoned(t) ==
    /\ \A c \in Clients : lease[c] = None \/ lease[c].token # t
    /\ \A c \in Clients : call[c] = None \/ call[c].req.token # t
    /\ \A r \in stray : r.token # t

\* A lock whose holder crashed, or whose Acquire failed after SETNX had
\* succeeded, does not stay locked: the entry expires.
OrphanExpires ==
    \A k \in LockKeys, t \in Tokens :
        store[k] # None /\ store[k].token = t /\ Abandoned(t)
            ~> store[k] = None \/ store[k].token # t

\* Who holds each lock, for the contract the service implements.
holder ==
    [k \in LockKeys |->
        IF \E c \in Clients : Holds(c, k)
          THEN CHOOSE c \in Clients : Holds(c, k) ELSE None]

Contract == INSTANCE LeaseContract WITH Keys <- LockKeys, holder <- holder

\* The service implements an exclusive lock: a client comes to hold a key only
\* while nobody else holds it, and nobody takes it over directly.
ImplementsContract == Contract!Spec

=============================================================================
