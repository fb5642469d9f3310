--------------------------- MODULE LeaseLockProofs ---------------------------
(****************************************************************************)
(* Proofs about LeaseLock: type correctness for every choice of the         *)
(* constants, and, when every TTL is the same whole number of milliseconds, *)
(* that a lease excludes every other client and is never reported lost.     *)
(****************************************************************************)
EXTENDS LeaseLock, TLAPS

Grants == {"acquire", "renew"}

\* The validity every SETNX and PEXPIRE grants when the TTLs are uniform.
Length == IF TTLs = {} THEN 1 ELSE PExpireTicks(CHOOSE d \in TTLs : TRUE)

\* Token t was issued for key k.
IssuedFor(t, k) == issued[t] # None /\ issued[t].key = k

\* Every token in use was issued, for that key and to that client.
TokensIssued ==
    /\ \A k \in LockKeys : store[k] # None => IssuedFor(store[k].token, k)
    /\ \A c \in Clients : lease[c] # None =>
          /\ IssuedFor(lease[c].token, lease[c].key)
          /\ issued[lease[c].token].client = c
    /\ \A c \in Clients : call[c] # None =>
          /\ IssuedFor(call[c].req.token, call[c].req.key)
          /\ issued[call[c].req.token].client = c
    /\ \A r \in stray : IssuedFor(r.token, r.key)

\* A call is about the lease its client holds, or about none.
CallsMatchLeases ==
    \A c \in Clients : call[c] # None =>
        IF call[c].req.op \in {"acquire", "release"} THEN lease[c] = None
        ELSE /\ lease[c] # None
             /\ lease[c].key = call[c].req.key
             /\ lease[c].token = call[c].req.token

\* Every grant is Length ticks long and no view of it is longer.
GrantsUniform ==
    /\ \A r \in stray : r.op \in Grants => r.ticks = Length
    /\ \A c \in Clients : call[c] # None =>
          /\ call[c].req.op \in Grants => call[c].req.ticks = Length
          /\ call[c].fresh <= call[c].req.ticks
    /\ \A c \in Clients : lease[c] # None => lease[c].safe <= Length

\* A Release left behind names a lease nobody uses any more.
ReleasedIsSpent ==
    \A r \in stray : r.op = "release" =>
        \A c \in Clients :
            /\ lease[c] # None => lease[c].token # r.token
            /\ call[c] # None /\ call[c].req.op # "release" =>
                  call[c].req.token # r.token

\* The store backs token t on key k for n more ticks.
Backed(k, t, n) == store[k] # None /\ store[k].token = t /\ store[k].left >= n

LeasesBacked ==
    /\ \A c \in Clients :
          lease[c] # None /\ lease[c].safe > 0 =>
              Backed(lease[c].key, lease[c].token, lease[c].safe)
    /\ \A c \in Clients :
          /\ call[c] # None /\ call[c].done /\ call[c].reply
          /\ call[c].req.op \in Grants /\ call[c].fresh > 0
          => Backed(call[c].req.key, call[c].req.token, call[c].fresh)

IInv ==
    /\ TypeOK
    /\ TokensIssued
    /\ CallsMatchLeases
    /\ GrantsUniform
    /\ ReleasedIsSpent
    /\ LeasesBacked
    /\ NeverToldLost

-----------------------------------------------------------------------------
(* Arithmetic.                                                              *)

\* What SETNX is asked for is positive, what PEXPIRE is asked for is a natural
\* number: the products in SetNXTicks and PExpireTicks stay in Nat.
LEMMA TicksTyped ==
    \A d \in TTLs : SetNXTicks(d) \in Nat /\ PExpireTicks(d) \in Nat
<1> SUFFICES ASSUME NEW d \in TTLs
             PROVE  SetNXTicks(d) \in Nat /\ PExpireTicks(d) \in Nat
    OBVIOUS
<1>1. d \in Nat /\ MsTicks \in Nat /\ MsTicks > 0
    BY MsTicksPositive DEF TTLs
<1>2. d \div MsTicks \in Nat
    BY <1>1
<1>3. \A a, b \in Nat : a * b \in Nat
    OBVIOUS
<1> QED
    BY <1>1, <1>2, <1>3 DEF SetNXTicks, PExpireTicks

\* With uniform TTLs of at least a millisecond, Acquire and Renew ask for the
\* same positive number of ticks.
LEMMA LengthUniform ==
    ASSUME MillisecondTTLs, UniformTTLs
    PROVE  \A d \in TTLs : /\ SetNXTicks(d) = Length
                           /\ PExpireTicks(d) = Length
                           /\ Length \in Nat /\ Length > 0
<1> SUFFICES ASSUME NEW d \in TTLs
             PROVE  /\ SetNXTicks(d) = Length
                    /\ PExpireTicks(d) = Length
                    /\ Length \in Nat /\ Length > 0
    OBVIOUS
<1> DEFINE e == CHOOSE x \in TTLs : TRUE
<1>1. e \in TTLs
    OBVIOUS
<1> HIDE DEF e
<1>2. /\ d \in Nat /\ e \in Nat /\ MsTicks \in Nat /\ MsTicks > 0
      /\ d >= MsTicks /\ e >= MsTicks
    BY <1>1, MsTicksPositive DEF TTLs, MillisecondTTLs
<1>3. d \div MsTicks = e \div MsTicks
    BY <1>1 DEF UniformTTLs
<1>4. d \div MsTicks \in Nat /\ d \div MsTicks >= 1
    BY <1>2
<1>5. \A a, b \in Nat : a >= 1 /\ b >= 1 => a * b \in Nat /\ a * b > 0
    OBVIOUS
<1>6. Length = PExpireTicks(e)
    BY DEF Length, e
<1> QED
    BY <1>2, <1>3, <1>4, <1>5, <1>6 DEF SetNXTicks, PExpireTicks

-----------------------------------------------------------------------------
(* Type correctness.                                                        *)

\* A TTL AcquireSpec accepts is one of TTLs, and its key, when there is one, is
\* one of LockKeys.
LEMMA KeysTyped ==
    \A s \in Specs, k \in BizKeys, o \in Overrides :
        /\ redisKey(s, k) # NoName => redisKey(s, k) \in LockKeys
        /\ SpecTTL(s, o) > 0 => SpecTTL(s, o) \in TTLs
BY SpecsTyped, OverridesTyped DEF LockKeys, TTLs, SpecTTL

\* A command of either script, SETNX or GET leaves the store well typed.
LEMMA EffectTyped ==
    ASSUME TypeOK, NEW r \in Request, Effect(r)
    PROVE  store' \in [LockKeys -> Entry \cup {None}]
BY DEF TypeOK, Effect, Request, Entry

\* No step leaves the types.
LEMMA TypeStep ==
    ASSUME TypeOK, [Next]_vars PROVE TypeOK'
<1>1. ASSUME NEW c \in Clients, NEW s \in Specs, NEW k \in BizKeys,
             NEW o \in Overrides, AcquireCall(c, s, k, o)
      PROVE  TypeOK'
  <2> DEFINE key == redisKey(s, k)
             n   == SetNXTicks(SpecTTL(s, o))
  <2>1. key \in LockKeys /\ n \in Nat
      BY <1>1, KeysTyped, TicksTyped DEF AcquireCall
  <2>2. PICK t \in Tokens :
           /\ issued' = [issued EXCEPT ![t] = [client |-> c, key |-> key]]
           /\ Send(c, "acquire", key, t, n)
      BY <1>1 DEF AcquireCall
  <2> HIDE DEF key, n
  <2> QED
      BY <1>1, <2>1, <2>2 DEF AcquireCall, Send, TypeOK, Call, Request, Issue
<1>2. ASSUME NEW c \in Clients, NEW d \in TTLs, RenewCall(c, d)
      PROVE  TypeOK'
  <2>1. PExpireTicks(d) \in Nat
      BY TicksTyped
  <2> QED
      BY <1>2, <2>1 DEF RenewCall, Send, TypeOK, Call, Request, LeaseValue
<1>3. ASSUME NEW c \in Clients, ReleaseCall(c) PROVE TypeOK'
    BY <1>3 DEF ReleaseCall, Send, TypeOK, Call, Request, LeaseValue
<1>4. ASSUME NEW c \in Clients, CheckCall(c) PROVE TypeOK'
    BY <1>4 DEF CheckCall, Send, TypeOK, Call, Request, LeaseValue
<1>5. ASSUME NEW c \in Clients, Serve(c) PROVE TypeOK'
  <2>1. call[c] \in Call /\ call[c].req \in Request
      BY <1>5 DEF Serve, TypeOK, Call
  <2>2. store' \in [LockKeys -> Entry \cup {None}]
      BY <1>5, <2>1, EffectTyped DEF Serve
  <2>3. Answer(call[c].req) \in BOOLEAN
      BY DEF Answer, Owned
  <2>4. call' \in [Clients -> Call \cup {None}]
      BY <1>5, <2>1, <2>3 DEF Serve, TypeOK, Call
  <2> QED
      BY <1>5, <2>2, <2>4 DEF Serve, TypeOK
<1>6. ASSUME NEW r \in stray, ServeStray(r) PROVE TypeOK'
  <2>1. r \in Request
      BY DEF TypeOK
  <2>2. store' \in [LockKeys -> Entry \cup {None}]
      BY <1>6, <2>1, EffectTyped DEF ServeStray
  <2> QED
      BY <1>6, <2>2 DEF ServeStray, TypeOK
<1>7. ASSUME NEW c \in Clients, Retry(c) PROVE TypeOK'
    BY <1>7 DEF Retry, LeaveBehind, TypeOK, Call
<1>8. ASSUME NEW c \in Clients, Return(c) PROVE TypeOK'
    BY <1>8 DEF Return, TypeOK, Call, Request, LeaseValue
<1>9. ASSUME NEW c \in Clients, Fail(c) PROVE TypeOK'
    BY <1>9 DEF Fail, LeaveBehind, TypeOK, Call
<1>10. ASSUME NEW c \in Clients, Crash(c) PROVE TypeOK'
    BY <1>10 DEF Crash, LeaveBehind, TypeOK, Call
<1>11. CASE Tick
  <2>1. store' \in [LockKeys -> Entry \cup {None}]
    <3>1. \A e \in Entry : e.left > 1 => [e EXCEPT !.left = @ - 1] \in Entry
        BY DEF Entry
    <3>2. \A k \in LockKeys : store[k] \in Entry \cup {None}
        BY DEF TypeOK
    <3>3. \A e \in Entry : e.left \in Nat
        BY DEF Entry
    <3> QED
        BY <1>11, <3>1, <3>2, <3>3 DEF Tick
  <2>2. lease' \in [Clients -> LeaseValue \cup {None}]
    <3>1. \A v \in LeaseValue :
             v.safe # 0 => [v EXCEPT !.safe = @ - 1] \in LeaseValue
        BY DEF LeaseValue
    <3>2. \A c \in Clients : lease[c] \in LeaseValue \cup {None}
        BY DEF TypeOK
    <3> QED
        BY <1>11, <3>1, <3>2 DEF Tick
  <2>3. call' \in [Clients -> Call \cup {None}]
    <3>1. \A v \in Call :
             v.fresh # 0 => [v EXCEPT !.fresh = @ - 1] \in Call
        BY DEF Call
    <3>2. \A c \in Clients : call[c] \in Call \cup {None}
        BY DEF TypeOK
    <3> QED
        BY <1>11, <3>1, <3>2 DEF Tick
  <2> QED
      BY <1>11, <2>1, <2>2, <2>3 DEF Tick, TypeOK
<1>12. CASE UNCHANGED vars
    BY <1>12 DEF vars, TypeOK
<1> QED
    BY <1>1, <1>2, <1>3, <1>4, <1>5, <1>6, <1>7, <1>8, <1>9, <1>10, <1>11,
       <1>12 DEF Next

\* Every reachable state is well typed, whatever the constants are: entries
\* keep a positive time to live, and every call, lease and stray command names
\* a lock key and a token (the whole of Service and Manager).
THEOREM TypeCorrect == Spec => []TypeOK
<1>1. Init => TypeOK
    BY DEF Init, TypeOK
<1>2. TypeOK /\ [Next]_vars => TypeOK'
    BY TypeStep
<1> QED
    BY <1>1, <1>2, PTL DEF Spec

-----------------------------------------------------------------------------
(* Exclusion.                                                               *)

\* What the types say of the parts of the state the invariant speaks of.
LEMMA Shapes ==
    ASSUME TypeOK
    PROVE  /\ \A k \in LockKeys : store[k] # None =>
                 /\ store[k] \in Entry
                 /\ store[k].token \in Tokens
                 /\ store[k].left \in Nat \ {0}
           /\ \A c \in Clients : lease[c] # None =>
                 /\ lease[c] \in LeaseValue
                 /\ lease[c].key \in LockKeys /\ lease[c].token \in Tokens
                 /\ lease[c].safe \in Nat
           /\ \A c \in Clients : call[c] # None =>
                 /\ call[c] \in Call
                 /\ call[c].req \in Request
                 /\ call[c].fresh \in Nat
                 /\ call[c].done \in BOOLEAN /\ call[c].reply \in BOOLEAN
           /\ \A r \in Request : /\ r.key \in LockKeys /\ r.token \in Tokens
                                 /\ r.ticks \in Nat
           /\ \A r \in stray : r \in Request
BY DEF TypeOK, Entry, LeaseValue, Call, Request

\* Redis answers a command without harming a valid lease of another token,
\* and a grant runs for Length ticks.
LEMMA EffectCases ==
    ASSUME NEW r \in Request, Effect(r), TypeOK, Length > 0,
           r.op \in Grants => r.ticks = Length
    PROVE  /\ \A k \in LockKeys : k # r.key => store'[k] = store[k]
           /\ \/ /\ r.op \in Grants /\ Answer(r)
                 /\ store'[r.key] = [token |-> r.token, left |-> Length]
              \/ /\ r.op = "release" /\ Answer(r) /\ store'[r.key] = None
              \/ /\ r.op = "check" \/ ~Answer(r)
                 /\ store' = store
BY DEF Effect, Request, Grants, TypeOK

\* Running a command keeps every valid lease and every positive answer backed
\* by the store: SETNX finds the key taken, a script finds another token, and
\* a Renew of the same token grants at least what is left.
LEMMA EffectKeepsBacked ==
    ASSUME IInv, Length > 0, Length \in Nat,
           NEW r \in Request, Effect(r),
           r.op \in Grants => r.ticks = Length,
           NEW k \in LockKeys, NEW t \in Tokens, NEW n \in Nat,
           Backed(k, t, n), n <= Length,
           r.op = "release" => r.token # t
    PROVE  store'[k] # None /\ store'[k].token = t /\ store'[k].left >= n
<1>1. TypeOK
    BY DEF IInv
<1>2. CASE k # r.key
    BY <1>1, <1>2, EffectCases DEF Backed
<1>3. CASE k = r.key
  <2>1. store[k] # None /\ store[k].token = t /\ store[k].left >= n
      BY DEF Backed
  <2>2. CASE r.op \in Grants /\ Answer(r)
    <3>1. r.op = "renew" /\ r.token = t
        BY <1>3, <2>1, <2>2 DEF Answer, Owned, Grants
    <3>2. store'[k] = [token |-> t, left |-> Length]
        BY <1>1, <1>3, <2>2, <3>1, EffectCases
    <3>3. store'[k] \in Entry
        BY <3>2 DEF Entry
    <3> QED
        BY <3>2, <3>3, NoneIsNew
  <2>3. CASE r.op = "release" /\ Answer(r)
      BY <1>3, <2>1, <2>3 DEF Answer, Owned
  <2>4. CASE r.op = "check" \/ ~Answer(r)
    <3>1. store' = store
        BY <1>1, <2>4, EffectCases DEF Grants
    <3> QED
        BY <2>1, <3>1
  <2> QED
      BY <2>2, <2>3, <2>4 DEF Grants, Request
<1> QED
    BY <1>2, <1>3

\* Running an issued command leaves only issued tokens in the store.
LEMMA EffectKeepsIssued ==
    ASSUME IInv, Length > 0, Length \in Nat,
           NEW r \in Request, Effect(r),
           r.op \in Grants => r.ticks = Length,
           IssuedFor(r.token, r.key)
    PROVE  \A k \in LockKeys : store'[k] # None => IssuedFor(store'[k].token, k)
<1>1. TypeOK /\ TokensIssued
    BY DEF IInv
<1> SUFFICES ASSUME NEW k \in LockKeys, store'[k] # None
             PROVE  IssuedFor(store'[k].token, k)
    OBVIOUS
<1>2. \/ store'[k] = store[k]
      \/ k = r.key /\ store'[k] = [token |-> r.token, left |-> Length]
    BY <1>1, EffectCases
<1>3. CASE store'[k] = store[k]
    BY <1>1, <1>3 DEF TokensIssued
<1>4. CASE k = r.key /\ store'[k] = [token |-> r.token, left |-> Length]
    BY <1>4
<1> QED
    BY <1>2, <1>3, <1>4

\* A client leaves behind nothing but the command it waited for.
LEMMA LeftBehind ==
    ASSUME NEW c \in Clients, LeaveBehind(c)
    PROVE  \A r \in stray' :
              r \in stray \/ (r = call[c].req /\ call[c].req.op # "check")
BY DEF LeaveBehind

\* No step leaves the invariant.
LEMMA InvStep ==
    ASSUME MillisecondTTLs, UniformTTLs, IInv, [Next]_vars PROVE IInv'
<1> USE DEF IInv
<1>1. TypeOK /\ TypeOK'
    BY TypeStep
<1>2. Length \in Nat /\ Length > 0
    BY LengthUniform DEF Length
<1>3. ASSUME NEW c \in Clients, NEW s \in Specs, NEW k \in BizKeys,
             NEW o \in Overrides, AcquireCall(c, s, k, o)
      PROVE  IInv'
  <2> DEFINE key == redisKey(s, k)
             n   == SetNXTicks(SpecTTL(s, o))
  <2>1. key \in LockKeys /\ n = Length /\ Length \in Nat
      BY <1>3, KeysTyped, LengthUniform DEF AcquireCall
  <2>2. PICK t \in Tokens :
           /\ issued[t] = None
           /\ issued' = [issued EXCEPT ![t] = [client |-> c, key |-> key]]
           /\ Send(c, "acquire", key, t, n)
      BY <1>3 DEF AcquireCall
  <2> HIDE DEF key, n
  <2>3. /\ call[c] = None /\ lease[c] = None
        /\ store' = store /\ lease' = lease /\ stray' = stray
      BY <1>3 DEF AcquireCall
  <2>4. call' = [call EXCEPT ![c] =
                   [req |-> [op |-> "acquire", key |-> key, token |-> t,
                             ticks |-> n],
                    done |-> FALSE, reply |-> FALSE, fresh |-> n]]
      BY <2>2 DEF Send
  <2>5. TokensIssued'
      BY <1>1, <2>1, <2>2, <2>3, <2>4, Shapes, NoneIsNew
      DEF TokensIssued, IssuedFor, Issue, TypeOK
  <2>6. CallsMatchLeases'
      BY <1>1, <2>3, <2>4 DEF CallsMatchLeases, TypeOK
  <2>7. GrantsUniform'
      BY <1>1, <2>1, <2>3, <2>4 DEF GrantsUniform, TypeOK, Grants
  <2>8. ReleasedIsSpent'
      BY <1>1, <2>2, <2>3, <2>4 DEF ReleasedIsSpent, TypeOK, TokensIssued,
                                       IssuedFor
  <2>9. LeasesBacked'
      BY <1>1, <2>3, <2>4 DEF LeasesBacked, Backed, TypeOK
  <2>10. NeverToldLost'
      BY <1>1, <2>3, <2>4 DEF NeverToldLost, TypeOK
  <2> QED
      BY <1>1, <2>5, <2>6, <2>7, <2>8, <2>9, <2>10
<1>4. ASSUME NEW c \in Clients, NEW op \in {"renew", "check"}, NEW n \in Nat,
             op = "renew" => n = Length,
             call[c] = None, lease[c] # None,
             Send(c, op, lease[c].key, lease[c].token, n),
             UNCHANGED <<store, issued, lease, stray>>
      PROVE  IInv'
  <2>1. call' = [call EXCEPT ![c] =
                   [req |-> [op |-> op, key |-> lease[c].key,
                             token |-> lease[c].token, ticks |-> n],
                    done |-> FALSE, reply |-> FALSE, fresh |-> n]]
      BY <1>4 DEF Send
  <2>2. TokensIssued'
      BY <1>1, <1>4, <2>1 DEF TokensIssued, IssuedFor, TypeOK
  <2>3. CallsMatchLeases'
      BY <1>1, <1>4, <2>1 DEF CallsMatchLeases, TypeOK
  <2>4. GrantsUniform'
      BY <1>1, <1>4, <2>1 DEF GrantsUniform, TypeOK, Grants
  <2>5. ReleasedIsSpent'
      BY <1>1, <1>4, <2>1 DEF ReleasedIsSpent, TypeOK
  <2>6. LeasesBacked'
      BY <1>1, <1>4, <2>1 DEF LeasesBacked, Backed, TypeOK
  <2>7. NeverToldLost'
      BY <1>1, <1>4, <2>1 DEF NeverToldLost, TypeOK
  <2> QED
      BY <1>1, <2>2, <2>3, <2>4, <2>5, <2>6, <2>7
<1>5. ASSUME NEW c \in Clients, NEW d \in TTLs, RenewCall(c, d)
      PROVE  IInv'
    BY <1>4, <1>5, LengthUniform DEF RenewCall
<1>6. ASSUME NEW c \in Clients, CheckCall(c) PROVE IInv'
    BY <1>4, <1>6 DEF CheckCall
<1>7. ASSUME NEW c \in Clients, ReleaseCall(c) PROVE IInv'
  <2>1. call' = [call EXCEPT ![c] =
                   [req |-> [op |-> "release", key |-> lease[c].key,
                             token |-> lease[c].token, ticks |-> 0],
                    done |-> FALSE, reply |-> FALSE, fresh |-> 0]]
      BY <1>7 DEF ReleaseCall, Send
  <2>2. /\ call[c] = None /\ lease[c] # None
        /\ lease' = [lease EXCEPT ![c] = None]
        /\ store' = store /\ issued' = issued /\ stray' = stray
      BY <1>7 DEF ReleaseCall
  <2>3. TokensIssued'
      BY <1>1, <2>1, <2>2 DEF TokensIssued, IssuedFor, TypeOK
  <2>4. CallsMatchLeases'
      BY <1>1, <2>1, <2>2 DEF CallsMatchLeases, TypeOK
  <2>5. GrantsUniform'
      BY <1>1, <2>1, <2>2 DEF GrantsUniform, TypeOK, Grants
  <2>6. ReleasedIsSpent'
      BY <1>1, <2>1, <2>2 DEF ReleasedIsSpent, TypeOK
  <2>7. LeasesBacked'
      BY <1>1, <2>1, <2>2 DEF LeasesBacked, Backed, TypeOK, Grants
  <2>8. NeverToldLost'
      BY <1>1, <2>1, <2>2 DEF NeverToldLost, TypeOK
  <2> QED
      BY <1>1, <2>3, <2>4, <2>5, <2>6, <2>7, <2>8
<1>8. ASSUME NEW c \in Clients, Serve(c) PROVE IInv'
  <2>0. PICK r \in Request : r = call[c].req
      BY <1>1, <1>8, Shapes DEF Serve
  <2>1. /\ call[c] # None /\ ~call[c].done
        /\ Effect(r)
        /\ lease' = lease /\ issued' = issued /\ stray' = stray
      BY <1>8, <2>0 DEF Serve
  <2>2. /\ r.op \in Grants => r.ticks = Length
        /\ IssuedFor(r.token, r.key) /\ issued[r.token].client = c
        /\ call[c].fresh <= r.ticks
        /\ r.token \in Tokens /\ r.key \in LockKeys /\ r.ticks \in Nat
      BY <1>1, <2>0, <2>1, Shapes DEF GrantsUniform, TokensIssued
  <2>3. Answer(r) \in BOOLEAN
      BY DEF Answer, Owned
  <2>4. \A d \in Clients : d # c => call'[d] = call[d]
      BY <1>1, <1>8 DEF Serve, TypeOK
  <2>5. /\ call'[c] # None /\ call'[c].req = r
        /\ call'[c].fresh = call[c].fresh
    <3>1. call'[c] = [call[c] EXCEPT !.done = TRUE, !.reply = Answer(r)]
        BY <1>1, <1>8, <2>0 DEF Serve, TypeOK
    <3>2. call[c] \in Call /\ call'[c] \in Call
        BY <1>1, <2>1, <2>3, <3>1, Shapes DEF Call
    <3> QED
        BY <2>0, <3>1, <3>2, NoneIsNew DEF Call
  <2>5a. call'[c].done /\ (call'[c].reply <=> Answer(r))
    <3>1. call'[c] = [call[c] EXCEPT !.done = TRUE, !.reply = Answer(r)]
        BY <1>1, <1>8, <2>0 DEF Serve, TypeOK
    <3>2. call[c] \in Call
        BY <1>1, <2>1, Shapes
    <3> QED
        BY <2>3, <3>1, <3>2 DEF Call
  <2>7. TokensIssued'
    <3>1. \A k \in LockKeys : store'[k] # None =>
             IssuedFor(store'[k].token, k)
        BY <1>2, <2>1, <2>2, EffectKeepsIssued
    <3> QED
        BY <2>0, <2>1, <2>2, <2>4, <2>5, <3>1 DEF TokensIssued, IssuedFor
  <2>8. CallsMatchLeases'
      BY <2>0, <2>1, <2>4, <2>5 DEF CallsMatchLeases
  <2>9. GrantsUniform'
      BY <2>0, <2>1, <2>2, <2>4, <2>5 DEF GrantsUniform
  <2>10. ReleasedIsSpent'
      BY <2>0, <2>1, <2>4, <2>5 DEF ReleasedIsSpent
  <2>11. LeasesBacked'
    <3>1. ASSUME NEW d \in Clients, lease[d] # None, lease[d].safe > 0
          PROVE  Backed(lease[d].key, lease[d].token, lease[d].safe)'
      <4>1. Backed(lease[d].key, lease[d].token, lease[d].safe)
          BY <3>1 DEF LeasesBacked
      <4>2. r.op = "release" => r.token # lease[d].token
        <5>1. issued[lease[d].token].client = d
            BY <3>1 DEF TokensIssued, IssuedFor
        <5>2. r.op = "release" => lease[c] = None
            BY <2>0, <2>1 DEF CallsMatchLeases
        <5> QED
            BY <2>2, <3>1, <5>1, <5>2
      <4>3. /\ lease[d].key \in LockKeys /\ lease[d].token \in Tokens
            /\ lease[d].safe \in Nat /\ lease[d].safe <= Length
          BY <1>1, <3>1, Shapes DEF GrantsUniform
      <4> QED
          BY <1>2, <2>1, <2>2, <4>1, <4>2, <4>3, EffectKeepsBacked DEF Backed
    <3>2. ASSUME NEW d \in Clients, d # c,
                 call[d] # None, call[d].done, call[d].reply,
                 call[d].req.op \in Grants, call[d].fresh > 0
          PROVE  Backed(call[d].req.key, call[d].req.token, call[d].fresh)'
      <4>1. Backed(call[d].req.key, call[d].req.token, call[d].fresh)
          BY <3>2 DEF LeasesBacked
      <4>2. r.token # call[d].req.token
        <5>1. issued[call[d].req.token].client = d
            BY <3>2 DEF TokensIssued, IssuedFor
        <5> QED
            BY <2>2, <3>2, <5>1
      <4>3. /\ call[d].req.key \in LockKeys /\ call[d].req.token \in Tokens
            /\ call[d].fresh \in Nat /\ call[d].fresh <= Length
          BY <1>1, <3>2, Shapes DEF GrantsUniform
      <4>4. store'[call[d].req.key] # None
            /\ store'[call[d].req.key].token = call[d].req.token
            /\ store'[call[d].req.key].left >= call[d].fresh
          BY <1>2, <2>1, <2>2, <4>1, <4>2, <4>3, EffectKeepsBacked
      <4> QED
          BY <2>4, <3>2, <4>4 DEF Backed
    <3>3. ASSUME r.op \in Grants, Answer(r)
          PROVE  Backed(r.key, r.token, call[c].fresh)'
      <4>1. store'[r.key] = [token |-> r.token, left |-> Length]
          BY <1>1, <1>2, <2>1, <2>2, <3>3, EffectCases DEF Grants
      <4>2. store'[r.key] \in Entry
          BY <1>2, <2>2, <4>1 DEF Entry
      <4>3. call'[c].fresh <= Length
          BY <2>2, <2>5, <3>3
      <4>4. store'[r.key] # None /\ store'[r.key].left >= call'[c].fresh
          BY <4>1, <4>2, <4>3, NoneIsNew
      <4> QED
          BY <2>5, <4>1, <4>4 DEF Backed
    <3>4. ASSUME NEW d \in Clients,
                 call'[d] # None, call'[d].done, call'[d].reply,
                 call'[d].req.op \in Grants, call'[d].fresh > 0
          PROVE  Backed(call[d].req.key, call[d].req.token, call[d].fresh)'
      <4>1. CASE d = c
          BY <2>0, <2>5, <2>5a, <3>3, <3>4, <4>1 DEF Backed
      <4>2. CASE d # c
          BY <2>4, <3>2, <3>4, <4>2
      <4> QED
          BY <4>1, <4>2
    <3> QED
        BY <2>1, <3>1, <3>4 DEF LeasesBacked
  <2>12. NeverToldLost'
    <3> SUFFICES ASSUME r.op \in {"renew", "check"}, ~Answer(r),
                        lease[c] # None, lease[c].safe # 0
                 PROVE  FALSE
        BY <2>0, <2>1, <2>4, <2>5, <2>5a DEF NeverToldLost
    <3>1. lease[c].key = r.key /\ lease[c].token = r.token
        BY <2>0, <2>1 DEF CallsMatchLeases
    <3>2. Backed(lease[c].key, lease[c].token, lease[c].safe)
        BY <1>1, Shapes DEF LeasesBacked
    <3> QED
        BY <3>1, <3>2 DEF Backed, Answer, Owned
  <2> QED
      BY <1>1, <2>7, <2>8, <2>9, <2>10, <2>11, <2>12
<1>9. ASSUME NEW r \in stray, ServeStray(r) PROVE IInv'
  <2>1. /\ r \in Request /\ Effect(r)
        /\ r.token \in Tokens /\ r.key \in LockKeys
        /\ r.op \in Grants => r.ticks = Length
        /\ IssuedFor(r.token, r.key)
        /\ lease' = lease /\ issued' = issued /\ call' = call
        /\ stray' = stray \ {r}
      BY <1>1, <1>9, Shapes DEF ServeStray, GrantsUniform, TokensIssued
  <2>2. TokensIssued'
    <3>1. \A k \in LockKeys : store'[k] # None =>
             IssuedFor(store'[k].token, k)
        BY <1>2, <2>1, EffectKeepsIssued
    <3> QED
        BY <2>1, <3>1 DEF TokensIssued, IssuedFor
  <2>3. CallsMatchLeases' /\ GrantsUniform' /\ ReleasedIsSpent' /\ NeverToldLost'
      BY <2>1 DEF CallsMatchLeases, GrantsUniform, ReleasedIsSpent,
                  NeverToldLost
  <2>4. LeasesBacked'
    <3>1. ASSUME NEW d \in Clients, lease[d] # None, lease[d].safe > 0
          PROVE  Backed(lease[d].key, lease[d].token, lease[d].safe)'
      <4>1. Backed(lease[d].key, lease[d].token, lease[d].safe)
          BY <3>1 DEF LeasesBacked
      <4>2. r.op = "release" => r.token # lease[d].token
          BY <3>1 DEF ReleasedIsSpent
      <4>3. /\ lease[d].key \in LockKeys /\ lease[d].token \in Tokens
            /\ lease[d].safe \in Nat /\ lease[d].safe <= Length
          BY <1>1, <3>1, Shapes DEF GrantsUniform
      <4> QED
          BY <1>2, <2>1, <4>1, <4>2, <4>3, EffectKeepsBacked DEF Backed
    <3>2. ASSUME NEW d \in Clients, call[d] # None, call[d].done,
                 call[d].reply, call[d].req.op \in Grants, call[d].fresh > 0
          PROVE  Backed(call[d].req.key, call[d].req.token, call[d].fresh)'
      <4>1. Backed(call[d].req.key, call[d].req.token, call[d].fresh)
          BY <3>2 DEF LeasesBacked
      <4>2. r.op = "release" => r.token # call[d].req.token
          BY <3>2 DEF ReleasedIsSpent, Grants
      <4>3. /\ call[d].req.key \in LockKeys /\ call[d].req.token \in Tokens
            /\ call[d].fresh \in Nat /\ call[d].fresh <= Length
          BY <1>1, <3>2, Shapes DEF GrantsUniform
      <4> QED
          BY <1>2, <2>1, <4>1, <4>2, <4>3, EffectKeepsBacked DEF Backed
    <3> QED
        BY <2>1, <3>1, <3>2 DEF LeasesBacked
  <2> QED
      BY <1>1, <2>2, <2>3, <2>4
<1>10. ASSUME NEW c \in Clients, Retry(c) PROVE IInv'
  <2>1. /\ call[c] # None /\ LeaveBehind(c)
        /\ store' = store /\ lease' = lease /\ issued' = issued
      BY <1>10 DEF Retry
  <2>2. /\ \A d \in Clients : d # c => call'[d] = call[d]
        /\ call'[c] # None /\ call'[c].req = call[c].req
        /\ call'[c].fresh = call[c].fresh
    <3>1. call'[c] = [call[c] EXCEPT !.done = FALSE, !.reply = FALSE]
        BY <1>1, <1>10 DEF Retry, TypeOK
    <3>2. call[c] \in Call /\ call'[c] \in Call
        BY <1>1, <2>1, <3>1, Shapes DEF Call
    <3> QED
        BY <1>1, <1>10, <3>1, <3>2, NoneIsNew DEF Call, Retry, TypeOK
  <2>3. ~call'[c].done
    <3>1. call'[c] = [call[c] EXCEPT !.done = FALSE, !.reply = FALSE]
        BY <1>1, <1>10 DEF Retry, TypeOK
    <3>2. call[c] \in Call
        BY <1>1, <2>1, Shapes
    <3> QED
        BY <3>1, <3>2 DEF Call
  <2>4. \A r \in stray' : r \in stray \/ r = call[c].req
      BY <2>1, LeftBehind
  <2>5. TokensIssued'
      BY <1>1, <2>1, <2>2, <2>4, Shapes DEF TokensIssued, IssuedFor
  <2>6. CallsMatchLeases' /\ GrantsUniform'
      BY <2>1, <2>2, <2>4 DEF CallsMatchLeases, GrantsUniform
  <2>7. ReleasedIsSpent'
    <3> SUFFICES ASSUME NEW r \in stray', r.op = "release", NEW d \in Clients
                 PROVE  /\ lease[d] # None => lease[d].token # r.token
                        /\ call[d] # None /\ call[d].req.op # "release" =>
                              call[d].req.token # r.token
        BY <2>1, <2>2 DEF ReleasedIsSpent
    <3>1. CASE r \in stray
        BY <3>1 DEF ReleasedIsSpent
    <3>2. CASE r = call[c].req
        BY <2>1, <3>2 DEF TokensIssued, IssuedFor, CallsMatchLeases
    <3> QED
        BY <2>4, <3>1, <3>2
  <2>8. LeasesBacked' /\ NeverToldLost'
      BY <2>1, <2>2, <2>3 DEF LeasesBacked, Backed, NeverToldLost
  <2> QED
      BY <1>1, <2>5, <2>6, <2>7, <2>8
<1>11. ASSUME NEW c \in Clients, call[c] # None, LeaveBehind(c),
              call' = [call EXCEPT ![c] = None],
              UNCHANGED <<store, issued>>,
              \/ lease' = [lease EXCEPT ![c] = None]
              \/ call[c].req.op # "renew" /\ lease' = lease
       PROVE  IInv'
  <2>1. /\ call'[c] = None /\ \A d \in Clients : d # c => call'[d] = call[d]
        /\ \A d \in Clients : lease'[d] = None \/ lease'[d] = lease[d]
        /\ store' = store /\ issued' = issued
      BY <1>1, <1>11 DEF TypeOK
  <2>2. \A r \in stray' : r \in stray
                          \/ (r = call[c].req /\ call[c].req.op # "check")
      BY <1>11, LeftBehind
  <2>3. TokensIssued'
      BY <1>1, <1>11, <2>1, <2>2, Shapes DEF TokensIssued, IssuedFor
  <2>4. CallsMatchLeases' /\ GrantsUniform'
    <3>1. \A d \in Clients : d # c => lease'[d] = lease[d]
        BY <1>1, <1>11 DEF TypeOK
    <3> QED
        BY <1>11, <2>1, <2>2, <3>1 DEF CallsMatchLeases, GrantsUniform
  <2>5. ReleasedIsSpent'
    <3> SUFFICES ASSUME NEW r \in stray', r.op = "release", NEW d \in Clients
                 PROVE  /\ lease'[d] # None => lease'[d].token # r.token
                        /\ call'[d] # None /\ call'[d].req.op # "release" =>
                              call'[d].req.token # r.token
        BY DEF ReleasedIsSpent
    <3>1. CASE r \in stray
        BY <2>1, <3>1 DEF ReleasedIsSpent
    <3>2. CASE r = call[c].req
        BY <1>11, <2>1, <3>2 DEF TokensIssued, IssuedFor, CallsMatchLeases
    <3> QED
        BY <2>2, <3>1, <3>2
  <2>6. LeasesBacked' /\ NeverToldLost'
      BY <2>1 DEF LeasesBacked, Backed, NeverToldLost
  <2> QED
      BY <1>1, <2>3, <2>4, <2>5, <2>6
<1>12. ASSUME NEW c \in Clients, Fail(c) PROVE IInv'
  <2>1. \/ lease' = [lease EXCEPT ![c] = None]
        \/ call[c].req.op # "renew" /\ lease' = lease
      BY <1>1, <1>12 DEF Fail, TypeOK
  <2> QED
      BY <1>11, <1>12, <2>1 DEF Fail
<1>13. ASSUME NEW c \in Clients, Crash(c) PROVE IInv'
  <2>1. CASE call[c] # None
      BY <1>11, <1>13, <2>1 DEF Crash
  <2>2. CASE call[c] = None
    <3>1. /\ call' = call /\ stray' = stray /\ store' = store
          /\ issued' = issued
          /\ \A d \in Clients : lease'[d] = None \/ lease'[d] = lease[d]
          /\ \A d \in Clients : d # c => lease'[d] = lease[d]
        BY <1>1, <1>13, <2>2 DEF Crash, TypeOK
    <3>2. TokensIssued' /\ CallsMatchLeases' /\ GrantsUniform'
        BY <2>2, <3>1
        DEF TokensIssued, IssuedFor, CallsMatchLeases, GrantsUniform
    <3>3. ReleasedIsSpent' /\ LeasesBacked' /\ NeverToldLost'
        BY <3>1 DEF ReleasedIsSpent, LeasesBacked, Backed, NeverToldLost
    <3> QED
        BY <1>1, <3>2, <3>3
  <2> QED
      BY <2>1, <2>2
<1>14. ASSUME NEW c \in Clients, Return(c) PROVE IInv'
  <2>1. /\ call[c] # None /\ call[c].done
        /\ call'[c] = None /\ \A d \in Clients : d # c => call'[d] = call[d]
        /\ \A d \in Clients : d # c => lease'[d] = lease[d]
        /\ store' = store /\ issued' = issued /\ stray' = stray
      BY <1>1, <1>14 DEF Return, TypeOK
  <2>2. \/ lease'[c] = None \/ lease'[c] = lease[c]
        \/ /\ call[c].reply /\ call[c].req.op \in Grants
           /\ lease'[c] = [key |-> call[c].req.key,
                           token |-> call[c].req.token,
                           safe |-> call[c].fresh]
      BY <1>1, <1>14 DEF Return, TypeOK, Grants
  <2>3. CASE lease'[c] = None \/ lease'[c] = lease[c]
    <3>1. \A d \in Clients : lease'[d] = None \/ lease'[d] = lease[d]
        BY <2>1, <2>3
    <3>2. TokensIssued' /\ CallsMatchLeases' /\ GrantsUniform'
        BY <2>1, <3>1
        DEF TokensIssued, IssuedFor, CallsMatchLeases, GrantsUniform
    <3>3. ReleasedIsSpent' /\ LeasesBacked' /\ NeverToldLost'
        BY <2>1, <3>1 DEF ReleasedIsSpent, LeasesBacked, Backed, NeverToldLost
    <3> QED
        BY <1>1, <3>2, <3>3
  <2>4. CASE /\ call[c].reply /\ call[c].req.op \in Grants
             /\ lease'[c] = [key |-> call[c].req.key,
                             token |-> call[c].req.token,
                             safe |-> call[c].fresh]
    <3>1. /\ lease'[c].key = call[c].req.key
          /\ lease'[c].token = call[c].req.token
          /\ lease'[c].safe = call[c].fresh
        BY <2>4
    <3>2. TokensIssued' /\ CallsMatchLeases'
        BY <2>1, <3>1 DEF TokensIssued, IssuedFor, CallsMatchLeases
    <3>3. GrantsUniform'
        BY <1>1, <1>2, <2>1, <2>4, <3>1, Shapes DEF GrantsUniform, Grants
    <3>4. ReleasedIsSpent'
        BY <2>1, <2>4, <3>1 DEF ReleasedIsSpent, Grants
    <3>5. LeasesBacked'
        BY <2>1, <2>4, <3>1 DEF LeasesBacked, Backed
    <3>6. NeverToldLost'
        BY <2>1 DEF NeverToldLost
    <3> QED
        BY <1>1, <3>2, <3>3, <3>4, <3>5, <3>6
  <2> QED
      BY <2>2, <2>3, <2>4
<1>15. CASE Tick
  <2>1. issued' = issued /\ stray' = stray
      BY <1>15 DEF Tick
  <2>2. \A c \in Clients :
           /\ lease'[c] # None <=> lease[c] # None
           /\ lease[c] # None =>
                 /\ lease'[c].key = lease[c].key
                 /\ lease'[c].token = lease[c].token
                 /\ lease'[c].safe <= lease[c].safe
                 /\ lease'[c].safe > 0 => lease'[c].safe = lease[c].safe - 1
    <3> SUFFICES ASSUME NEW c \in Clients, lease[c] # None
                 PROVE  /\ lease'[c] # None
                        /\ lease'[c].key = lease[c].key
                        /\ lease'[c].token = lease[c].token
                        /\ lease'[c].safe <= lease[c].safe
                        /\ lease'[c].safe > 0 =>
                              lease'[c].safe = lease[c].safe - 1
        BY <1>15 DEF Tick
    <3>1. lease[c] \in LeaseValue
        BY <1>1, Shapes
    <3>2. lease'[c] = IF lease[c].safe = 0 THEN lease[c]
                      ELSE [lease[c] EXCEPT !.safe = @ - 1]
        BY <1>15 DEF Tick
    <3>3. lease'[c] \in LeaseValue
        BY <3>1, <3>2 DEF LeaseValue
    <3> QED
        BY <3>1, <3>2, <3>3, NoneIsNew DEF LeaseValue
  <2>3. \A c \in Clients :
           /\ call'[c] # None <=> call[c] # None
           /\ call[c] # None =>
                 /\ call'[c].req = call[c].req
                 /\ call'[c].done = call[c].done
                 /\ call'[c].reply = call[c].reply
                 /\ call'[c].fresh <= call[c].fresh
                 /\ call'[c].fresh > 0 => call'[c].fresh = call[c].fresh - 1
    <3> SUFFICES ASSUME NEW c \in Clients, call[c] # None
                 PROVE  /\ call'[c] # None
                        /\ call'[c].req = call[c].req
                        /\ call'[c].done = call[c].done
                        /\ call'[c].reply = call[c].reply
                        /\ call'[c].fresh <= call[c].fresh
                        /\ call'[c].fresh > 0 =>
                              call'[c].fresh = call[c].fresh - 1
        BY <1>15 DEF Tick
    <3>1. call[c] \in Call
        BY <1>1, Shapes
    <3>2. call'[c] = IF call[c].fresh = 0 THEN call[c]
                     ELSE [call[c] EXCEPT !.fresh = @ - 1]
        BY <1>15 DEF Tick
    <3>3. call'[c] \in Call
        BY <3>1, <3>2 DEF Call
    <3> QED
        BY <3>1, <3>2, <3>3, NoneIsNew DEF Call
  <2>4. \A k \in LockKeys :
           /\ store'[k] # None => /\ store[k] # None
                                  /\ store'[k].token = store[k].token
           /\ store[k] # None /\ store[k].left > 1 =>
                 /\ store'[k] # None
                 /\ store'[k].left = store[k].left - 1
    <3> SUFFICES ASSUME NEW k \in LockKeys, store[k] # None, store[k].left > 1
                 PROVE  /\ store'[k] # None
                        /\ store'[k].token = store[k].token
                        /\ store'[k].left = store[k].left - 1
        BY <1>1, <1>15, Shapes DEF Tick
    <3>1. store[k] \in Entry
        BY <1>1, Shapes
    <3>2. store'[k] = [store[k] EXCEPT !.left = @ - 1]
        BY <1>15, <3>1 DEF Tick, Entry
    <3>3. store'[k] \in Entry
        BY <3>1, <3>2 DEF Entry
    <3> QED
        BY <3>1, <3>2, <3>3, NoneIsNew DEF Entry
  <2>5. TokensIssued'
      BY <2>1, <2>2, <2>3, <2>4 DEF TokensIssued, IssuedFor
  <2>6. CallsMatchLeases' /\ ReleasedIsSpent'
      BY <2>1, <2>2, <2>3 DEF CallsMatchLeases, ReleasedIsSpent
  <2>7. GrantsUniform'
    <3>1. ASSUME NEW c \in Clients, lease'[c] # None
          PROVE  lease'[c].safe <= Length
      <4>1. /\ lease[c] # None /\ lease[c].safe <= Length
            /\ lease'[c].safe <= lease[c].safe
            /\ lease[c].safe \in Nat
          BY <1>1, <2>2, <3>1, Shapes DEF GrantsUniform
      <4>2. lease'[c].safe \in Nat
          BY <1>1, <3>1 DEF TypeOK, LeaseValue
      <4> QED
          BY <1>2, <4>1, <4>2
    <3>2. ASSUME NEW c \in Clients, call'[c] # None
          PROVE  call'[c].fresh <= call'[c].req.ticks
      <4>1. /\ call[c] # None /\ call[c].fresh <= call[c].req.ticks
            /\ call'[c].fresh <= call[c].fresh
            /\ call'[c].req = call[c].req
            /\ call[c].fresh \in Nat /\ call[c].req.ticks \in Nat
          BY <1>1, <2>3, <3>2, Shapes DEF GrantsUniform
      <4>2. call'[c].fresh \in Nat
          BY <1>1, <3>2 DEF TypeOK, Call
      <4> QED
          BY <4>1, <4>2
    <3> QED
        BY <2>1, <2>3, <3>1, <3>2 DEF GrantsUniform
  <2>8. LeasesBacked'
    <3>1. ASSUME NEW k \in LockKeys, NEW t, NEW n \in Nat, NEW m \in Nat,
                 Backed(k, t, n), m > 0, m = n - 1
          PROVE  Backed(k, t, m)'
        BY <1>1, <2>4, <3>1, Shapes DEF Backed
    <3>2. ASSUME NEW c \in Clients, lease'[c] # None, lease'[c].safe > 0
          PROVE  Backed(lease[c].key, lease[c].token, lease[c].safe)'
      <4>1. Backed(lease[c].key, lease[c].token, lease[c].safe)
          BY <1>1, <2>2, <3>2, Shapes DEF LeasesBacked
      <4> QED
          BY <1>1, <2>2, <3>2, <4>1, <2>4, Shapes DEF Backed
    <3>3. ASSUME NEW c \in Clients, call'[c] # None, call'[c].done,
                 call'[c].reply, call'[c].req.op \in Grants,
                 call'[c].fresh > 0
          PROVE  Backed(call[c].req.key, call[c].req.token, call[c].fresh)'
      <4>1. Backed(call[c].req.key, call[c].req.token, call[c].fresh)
          BY <1>1, <2>3, <3>3, Shapes DEF LeasesBacked
      <4> QED
          BY <1>1, <2>3, <3>3, <4>1, <2>4, Shapes DEF Backed
    <3> QED
        BY <3>2, <3>3 DEF LeasesBacked
  <2>9. NeverToldLost'
    <3> SUFFICES ASSUME NEW c \in Clients, call'[c] # None, call'[c].done,
                        ~call'[c].reply, call'[c].req.op \in {"renew", "check"},
                        lease'[c] # None
                 PROVE  lease'[c].safe = 0
        BY DEF NeverToldLost
    <3>1. lease[c] # None /\ lease[c].safe = 0
        BY <2>2, <2>3 DEF NeverToldLost
    <3>2. lease'[c].safe \in Nat
        BY <1>1 DEF TypeOK, LeaseValue
    <3> QED
        BY <2>2, <3>1, <3>2
  <2> QED
      BY <1>1, <2>5, <2>6, <2>7, <2>8, <2>9
<1>16. CASE UNCHANGED vars
    BY <1>16 DEF vars, TypeOK, TokensIssued, IssuedFor, CallsMatchLeases,
                 GrantsUniform, ReleasedIsSpent, LeasesBacked, Backed,
                 NeverToldLost
<1> QED
    BY <1>3, <1>5, <1>6, <1>7, <1>8, <1>9, <1>10, <1>12, <1>13, <1>14, <1>15,
       <1>16 DEF Next

\* With uniform TTLs of at least a millisecond the invariant holds throughout.
THEOREM LeaseInvariant ==
    ASSUME MillisecondTTLs, UniformTTLs PROVE Spec => []IInv
<1>1. Init => IInv
    BY DEF Init, IInv, TypeOK, TokensIssued, CallsMatchLeases, GrantsUniform,
           ReleasedIsSpent, LeasesBacked, NeverToldLost
<1>2. IInv /\ [Next]_vars => IInv'
    BY InvStep
<1> QED
    BY <1>1, <1>2, PTL DEF Spec

\* Two valid leases of a key are both backed by its one entry, whose token was
\* issued to one client.
LEMMA OneHolder == ASSUME IInv PROVE MutualExclusion
<1> SUFFICES ASSUME NEW k \in LockKeys, NEW c \in Clients, NEW d \in Clients,
                    Holds(c, k), Holds(d, k)
             PROVE  c = d
    BY DEF MutualExclusion
<1>1. store[k].token = lease[c].token /\ store[k].token = lease[d].token
    BY DEF IInv, LeasesBacked, Backed, Holds
<1>2. /\ issued[lease[c].token].client = c
      /\ issued[lease[d].token].client = d
    BY DEF IInv, TokensIssued, Holds
<1> QED
    BY <1>1, <1>2

\* A valid lease excludes every other client, for any number of clients, keys
\* and tokens and any number of retries (Acquire, Renew and Release of
\* Service).
THEOREM Exclusive ==
    ASSUME MillisecondTTLs, UniformTTLs PROVE Spec => []MutualExclusion
    BY OneHolder, LeaseInvariant, PTL

\* Renew and CheckOwnership never answer "not owned" about a valid lease.
THEOREM Truthful ==
    ASSUME MillisecondTTLs, UniformTTLs PROVE Spec => []NeverToldLost
<1>1. IInv => NeverToldLost
    BY DEF IInv
<1> QED
    BY <1>1, LeaseInvariant, PTL

-----------------------------------------------------------------------------
(* Refinement.                                                              *)

\* The refinement mapping names the one client that holds a valid lease.
LEMMA HolderIs ==
    ASSUME IInv, NEW k \in LockKeys
    PROVE  /\ \A c \in Clients : Holds(c, k) => holder[k] = c
           /\ (\A c \in Clients : ~Holds(c, k)) => holder[k] = None
           /\ holder[k] # None => holder[k] \in Clients /\ Holds(holder[k], k)
<1>1. \A c, d \in Clients : Holds(c, k) /\ Holds(d, k) => c = d
    BY OneHolder DEF MutualExclusion
<1>2. holder[k] = IF \E c \in Clients : Holds(c, k)
                    THEN CHOOSE c \in Clients : Holds(c, k) ELSE None
    BY DEF holder
<1>3. (\E c \in Clients : Holds(c, k)) =>
         holder[k] \in Clients /\ Holds(holder[k], k)
    BY <1>2
<1> QED
    BY <1>1, <1>2, <1>3

\* A step after which nobody holds a key who did not hold it before ends
\* leases, perhaps none.
LEMMA NobodyNew ==
    ASSUME IInv, IInv',
           \A c \in Clients, k \in LockKeys : Holds(c, k)' => Holds(c, k)
    PROVE  Contract!Next
<1> DEFINE ended == {k \in LockKeys : holder'[k] = None}
<1>1. \A k \in LockKeys : holder'[k] # None => holder'[k] = holder[k]
  <2> SUFFICES ASSUME NEW k \in LockKeys, holder'[k] # None
               PROVE  holder'[k] = holder[k]
      OBVIOUS
  <2>1. PICK c \in Clients : c = holder'[k] /\ Holds(c, k)'
    <3>1. holder'[k] = IF \E c \in Clients : Holds(c, k)'
                         THEN CHOOSE c \in Clients : Holds(c, k)' ELSE None
        BY DEF holder
    <3> QED
        BY <3>1
  <2> QED
      BY <2>1, HolderIs
<1>2. holder' = [k \in LockKeys |-> IF k \in ended THEN None ELSE holder[k]]
  <2>1. holder' = [k \in LockKeys |-> holder'[k]]
      BY DEF holder
  <2> QED
      BY <1>1, <2>1
<1>3. Contract!End(ended)
    BY <1>2 DEF Contract!End
<1> QED
    BY <1>3 DEF Contract!Next

\* The answer of a grant comes back: the client comes to hold the key, which
\* nobody held, or goes on holding it.
LEMMA ReturnGrants ==
    ASSUME IInv, IInv', NEW c \in Clients, Return(c)
    PROVE  Contract!Next
<1>0. TypeOK /\ call[c] # None /\ call[c] \in Call
    BY Shapes DEF IInv, Return
<1>k. PICK k \in LockKeys : k = call[c].req.key
    BY <1>0 DEF Call, Request
<1>1. \A d \in Clients : d # c => lease'[d] = lease[d]
    BY <1>0 DEF Return, TypeOK
<1>2. \A d \in Clients, x \in LockKeys :
         d # c => (Holds(d, x)' <=> Holds(d, x))
    BY <1>1 DEF Holds
<1>3. \A x \in LockKeys : x # k => (Holds(c, x)' <=> Holds(c, x))
    BY <1>0, <1>k DEF Return, TypeOK, Holds, IInv, CallsMatchLeases
<1>4. CASE Holds(c, k)' => Holds(c, k)
  <2>1. \A d \in Clients, x \in LockKeys : Holds(d, x)' => Holds(d, x)
      BY <1>2, <1>3, <1>4
  <2> QED
      BY <2>1, NobodyNew
<1>5. CASE Holds(c, k)' /\ ~Holds(c, k)
  <2>1. \A d \in Clients : Holds(d, k)' => d = c
    <3> SUFFICES ASSUME NEW d \in Clients, Holds(d, k)' PROVE d = c
        OBVIOUS
    <3>1. /\ store'[k].token = lease'[c].token
          /\ store'[k].token = lease'[d].token
        BY <1>5 DEF IInv, LeasesBacked, Backed, Holds
    <3>2. /\ issued'[lease'[c].token].client = c
          /\ issued'[lease'[d].token].client = d
        BY <1>5 DEF IInv, TokensIssued, Holds
    <3> QED
        BY <3>1, <3>2
  <2>2. holder[k] = None
    <3>1. \A d \in Clients : ~Holds(d, k)
        BY <1>2, <1>5, <2>1
    <3> QED
        BY <3>1, HolderIs
  <2>3. holder'[k] = c
    <3>1. holder'[k] = IF \E d \in Clients : Holds(d, k)'
                         THEN CHOOSE d \in Clients : Holds(d, k)' ELSE None
        BY DEF holder
    <3> QED
        BY <1>5, <2>1, <3>1
  <2>4. \A x \in LockKeys : x # k => holder'[x] = holder[x]
    <3> SUFFICES ASSUME NEW x \in LockKeys, x # k PROVE holder'[x] = holder[x]
        OBVIOUS
    <3>1. \A d \in Clients : Holds(d, x)' <=> Holds(d, x)
        BY <1>2, <1>3
    <3>2. holder'[x] = IF \E d \in Clients : Holds(d, x)'
                         THEN CHOOSE d \in Clients : Holds(d, x)' ELSE None
        BY DEF holder
    <3>3. CASE \E d \in Clients : Holds(d, x)'
      <4>1. PICK d \in Clients : d = holder'[x] /\ Holds(d, x)'
          BY <3>2, <3>3
      <4> QED
          BY <3>1, <4>1, HolderIs
    <3>4. CASE \A d \in Clients : ~Holds(d, x)'
        BY <3>1, <3>2, <3>4, HolderIs
    <3> QED
        BY <3>3, <3>4
  <2>5. holder' = [holder EXCEPT ![k] = c]
    <3>1. /\ holder = [x \in LockKeys |-> holder[x]]
          /\ holder' = [x \in LockKeys |-> holder'[x]]
        BY DEF holder
    <3> QED
        BY <2>3, <2>4, <3>1
  <2>6. Contract!Grant(c, k)
      BY <2>2, <2>5 DEF Contract!Grant
  <2> QED
      BY <2>6 DEF Contract!Next
<1> QED
    BY <1>4, <1>5

\* Every step of the service is a step of the contract.
LEMMA ContractStep ==
    ASSUME IInv, IInv', [Next]_vars PROVE Contract!Next
<1>0. TypeOK
    BY DEF IInv
<1>1. CASE lease' = lease
  <2>1. \A c \in Clients, k \in LockKeys : Holds(c, k)' => Holds(c, k)
      BY <1>1 DEF Holds
  <2> QED
      BY <2>1, NobodyNew
<1>2. ASSUME NEW c \in Clients,
             \/ lease' = [lease EXCEPT ![c] = None]
             \/ lease' = [lease EXCEPT ![c] = @]
      PROVE  Contract!Next
  <2>1. \A d \in Clients, k \in LockKeys : Holds(d, k)' => Holds(d, k)
      BY <1>0, <1>2 DEF Holds, TypeOK
  <2> QED
      BY <2>1, NobodyNew
<1>3. CASE Tick
  <2>1. \A d \in Clients, k \in LockKeys : Holds(d, k)' => Holds(d, k)
    <3> SUFFICES ASSUME NEW d \in Clients, NEW k \in LockKeys, Holds(d, k)'
                 PROVE  Holds(d, k)
        OBVIOUS
    <3>1. lease'[d] = IF lease[d] = None \/ lease[d].safe = 0 THEN lease[d]
                      ELSE [lease[d] EXCEPT !.safe = @ - 1]
        BY <1>3 DEF Tick
    <3>2. lease[d] = None \/ lease[d] \in LeaseValue
        BY <1>0, Shapes
    <3>3. lease[d] # None
        BY <3>1 DEF Holds
    <3> QED
        BY <3>1, <3>2, <3>3 DEF Holds, LeaseValue
  <2> QED
      BY <2>1, NobodyNew
<1>4. ASSUME NEW c \in Clients, Fail(c) PROVE Contract!Next
  <2>1. \/ lease' = [lease EXCEPT ![c] = None]
        \/ lease' = [lease EXCEPT ![c] = @]
      BY <1>4 DEF Fail
  <2> QED
      BY <1>2, <2>1
<1>5. ASSUME NEW c \in Clients, ReleaseCall(c) \/ Crash(c) PROVE Contract!Next
    BY <1>2, <1>5 DEF ReleaseCall, Crash
<1>6. ASSUME NEW c \in Clients, Return(c) PROVE Contract!Next
    BY <1>6, ReturnGrants
<1>7. ASSUME NEW c \in Clients, Serve(c) \/ Retry(c) \/ CheckCall(c)
      PROVE  lease' = lease
    BY <1>7 DEF Serve, Retry, CheckCall
<1>8. ASSUME NEW c \in Clients, NEW s \in Specs, NEW k \in BizKeys,
             NEW o \in Overrides, AcquireCall(c, s, k, o)
      PROVE  lease' = lease
    BY <1>8 DEF AcquireCall
<1>9. ASSUME NEW c \in Clients, NEW d \in TTLs, RenewCall(c, d)
      PROVE  lease' = lease
    BY <1>9 DEF RenewCall
<1>10. ASSUME NEW r \in stray, ServeStray(r) PROVE lease' = lease
    BY <1>10 DEF ServeStray
<1>11. CASE UNCHANGED vars
    BY <1>1, <1>11 DEF vars
<1> QED
    BY <1>1, <1>3, <1>4, <1>5, <1>6, <1>7, <1>8, <1>9, <1>10, <1>11 DEF Next

\* The service implements the exclusive lock of LeaseContract: a key is granted
\* only while nobody holds it, whatever is retried, late or lost.
THEOREM Implements ==
    ASSUME MillisecondTTLs, UniformTTLs PROVE Spec => ImplementsContract
<1>1. Init => Contract!Init
  <2>1. Init => \A c \in Clients, k \in LockKeys : ~Holds(c, k)
      BY DEF Init, Holds
  <2> QED
      BY <2>1 DEF Contract!Init, holder
<1>2. IInv /\ IInv' /\ [Next]_vars => [Contract!Next]_holder
    BY ContractStep
<1> QED
    BY <1>1, <1>2, LeaseInvariant, PTL DEF Spec, ImplementsContract, Contract!Spec

-----------------------------------------------------------------------------
(* Eviction.                                                                *)

\* Every Renew under way asks for at least a millisecond.
RenewalsPositive ==
    /\ \A r \in stray : r.op = "renew" => r.ticks > 0
    /\ \A c \in Clients :
          call[c] # None /\ call[c].req.op = "renew" => call[c].req.ticks > 0

\* PEXPIRE is never asked for 0.
LEMMA PExpirePositive ==
    ASSUME MillisecondTTLs PROVE \A d \in TTLs : PExpireTicks(d) > 0
<1> SUFFICES ASSUME NEW d \in TTLs PROVE PExpireTicks(d) > 0
    OBVIOUS
<1>1. d \in Nat /\ MsTicks \in Nat /\ MsTicks > 0 /\ d >= MsTicks
    BY MsTicksPositive DEF TTLs, MillisecondTTLs
<1>2. d \div MsTicks \in Nat /\ d \div MsTicks >= 1
    BY <1>1
<1>3. \A a, b \in Nat : a >= 1 /\ b >= 1 => a * b > 0
    OBVIOUS
<1> QED
    BY <1>1, <1>2, <1>3 DEF PExpireTicks

\* No step sends or leaves behind another kind of Renew.
LEMMA RenewalsStep ==
    ASSUME MillisecondTTLs, TypeOK, RenewalsPositive, [Next]_vars
    PROVE  RenewalsPositive'
<1>1. ASSUME NEW c \in Clients, NEW op, NEW k, NEW t, NEW n,
             Send(c, op, k, t, n), op = "renew" => n > 0, stray' = stray
      PROVE  RenewalsPositive'
  <2>1. /\ call'[c].req.op = op /\ call'[c].req.ticks = n
        /\ \A d \in Clients : d # c => call'[d] = call[d]
      BY <1>1 DEF Send, TypeOK
  <2> QED
      BY <1>1, <2>1 DEF RenewalsPositive
<1>2. ASSUME NEW c \in Clients, NEW s \in Specs, NEW k \in BizKeys,
             NEW o \in Overrides, AcquireCall(c, s, k, o)
      PROVE  RenewalsPositive'
    BY <1>1, <1>2 DEF AcquireCall
<1>3. ASSUME NEW c \in Clients, NEW d \in TTLs, RenewCall(c, d)
      PROVE  RenewalsPositive'
    BY <1>1, <1>3, PExpirePositive DEF RenewCall
<1>4. ASSUME NEW c \in Clients, ReleaseCall(c) \/ CheckCall(c)
      PROVE  RenewalsPositive'
    BY <1>1, <1>4 DEF ReleaseCall, CheckCall
<1>5. ASSUME \A c \in Clients : call'[c] # None =>
                call[c] # None /\ call'[c].req = call[c].req,
             \A r \in stray' : \/ r \in stray
                               \/ \E c \in Clients :
                                     call[c] # None /\ r = call[c].req
      PROVE  RenewalsPositive'
    BY <1>5 DEF RenewalsPositive
<1>6. ASSUME NEW c \in Clients, Serve(c) PROVE RenewalsPositive'
    BY <1>5, <1>6 DEF Serve, TypeOK, Call
<1>7. ASSUME NEW r \in stray, ServeStray(r) PROVE RenewalsPositive'
    BY <1>5, <1>7 DEF ServeStray
<1>8. ASSUME NEW c \in Clients, Retry(c) PROVE RenewalsPositive'
    BY <1>5, <1>8, LeftBehind DEF Retry, TypeOK, Call
<1>9. ASSUME NEW c \in Clients, Return(c) PROVE RenewalsPositive'
    BY <1>5, <1>9 DEF Return, TypeOK
<1>10. ASSUME NEW c \in Clients, Fail(c) PROVE RenewalsPositive'
    BY <1>5, <1>10, LeftBehind DEF Fail, TypeOK
<1>11. ASSUME NEW c \in Clients, Crash(c) PROVE RenewalsPositive'
    BY <1>5, <1>11, LeftBehind DEF Crash, TypeOK
<1>12. CASE Tick
  <2>1. \A c \in Clients : call'[c] # None =>
           call[c] # None /\ call'[c].req = call[c].req
      BY <1>12 DEF Tick, TypeOK, Call
  <2> QED
      BY <1>5, <1>12, <2>1 DEF Tick
<1>13. CASE UNCHANGED vars
    BY <1>13 DEF vars, RenewalsPositive
<1> QED
    BY <1>2, <1>3, <1>4, <1>6, <1>7, <1>8, <1>9, <1>10, <1>11, <1>12, <1>13
    DEF Next

\* What EvictedOnlyByItsOwner says of one step.
Evicted(k) == store'[k] = None \/ store'[k].token # store[k].token

\* The one command that evicts an entry is a Release of its token.
LEMMA EffectEvicts ==
    ASSUME TypeOK, NEW r \in Request, Effect(r), r.op = "renew" => r.ticks > 0,
           NEW k \in LockKeys, store[k] # None, Evicted(k)
    PROVE  r.op = "release" /\ r.key = k /\ r.token = store[k].token
<1>1. CASE r.op \in {"acquire", "renew"} /\ Answer(r)
  <2>1. k # r.key => store'[k] = store[k]
      BY <1>1 DEF Effect, TypeOK
  <2>2. k = r.key
      BY <2>1 DEF Evicted
  <2>3. r.op = "renew" /\ store[k].token = r.token
      BY <1>1, <2>2 DEF Answer, Owned
  <2>4. r.ticks # 0
      BY <2>3 DEF Request
  <2>5. store'[k] = [token |-> r.token, left |-> r.ticks]
      BY <1>1, <2>2, <2>4 DEF Effect, TypeOK
  <2>6. store'[k] \in Entry
      BY <2>4, <2>5 DEF Entry, Request
  <2> QED
      BY <2>3, <2>5, <2>6, NoneIsNew DEF Evicted
<1>2. CASE r.op = "release" /\ Answer(r)
  <2>1. k # r.key => store'[k] = store[k]
      BY <1>2 DEF Effect, TypeOK
  <2> QED
      BY <1>2, <2>1 DEF Evicted, Answer, Owned
<1>3. CASE r.op = "check" \/ ~Answer(r)
  <2>1. store' = store
      BY <1>3 DEF Effect
  <2> QED
      BY <2>1 DEF Evicted
<1> QED
    BY <1>1, <1>2, <1>3 DEF Request

\* With TTLs of at least a millisecond, but of any lengths, an entry with time
\* left is evicted only by a Release of the lease that put it there: Renew and
\* Release compare the token, SETNX finds the key taken, and time only takes
\* an entry in its last tick.
THEOREM EvictedByOwner ==
    ASSUME MillisecondTTLs PROVE Spec => EvictedOnlyByItsOwner
<1> DEFINE Good == TypeOK /\ RenewalsPositive
           Step == \A k \in LockKeys :
                      store[k] # None /\ store[k].left > 1 /\ Evicted(k) =>
                      \E r \in InFlight : /\ r.op = "release"
                                          /\ r.key = k /\ r.token = store[k].token
<1>1. Init => Good
    BY DEF Init, TypeOK, RenewalsPositive
<1>2. Good /\ [Next]_vars => Good'
    BY TypeStep, RenewalsStep
<1>3. Good /\ [Next]_vars => [Step]_vars
  <2> SUFFICES ASSUME TypeOK, RenewalsPositive, Next,
                      NEW k \in LockKeys,
                      store[k] # None, store[k].left > 1, Evicted(k)
               PROVE  \E r \in InFlight : /\ r.op = "release"
                                          /\ r.key = k /\ r.token = store[k].token
      OBVIOUS
  <2>1. ASSUME store' = store PROVE FALSE
      BY <2>1 DEF Evicted
  <2>2. ASSUME NEW c \in Clients, Serve(c)
        PROVE  \E r \in InFlight : /\ r.op = "release"
                                   /\ r.key = k /\ r.token = store[k].token
    <3>1. /\ call[c] # None /\ ~call[c].done /\ call[c].req \in Request
          /\ Effect(call[c].req)
        BY <2>2, Shapes DEF Serve
    <3>2. call[c].req \in InFlight
        BY <3>1 DEF InFlight
    <3>3. call[c].req.op = "renew" => call[c].req.ticks > 0
        BY <3>1 DEF RenewalsPositive
    <3> QED
        BY <3>1, <3>2, <3>3, EffectEvicts
  <2>3. ASSUME NEW q \in stray, ServeStray(q)
        PROVE  \E r \in InFlight : /\ r.op = "release"
                                   /\ r.key = k /\ r.token = store[k].token
    <3>1. q \in Request /\ Effect(q) /\ q \in InFlight
        BY <2>3 DEF ServeStray, TypeOK, InFlight
    <3>2. q.op = "renew" => q.ticks > 0
        BY DEF RenewalsPositive
    <3> QED
        BY <3>1, <3>2, EffectEvicts
  <2>4. CASE Tick
    <3>1. store[k] \in Entry
        BY Shapes
    <3>2. store'[k] = [store[k] EXCEPT !.left = @ - 1]
        BY <2>4, <3>1 DEF Tick, Entry
    <3>3. store'[k] \in Entry /\ store'[k].token = store[k].token
        BY <3>1, <3>2 DEF Entry
    <3> QED
        BY <3>3, NoneIsNew DEF Evicted
  <2>5. ASSUME NEW c \in Clients,
               \/ ReleaseCall(c) \/ CheckCall(c) \/ Retry(c)
               \/ Return(c) \/ Fail(c) \/ Crash(c)
        PROVE  store' = store
      BY <2>5 DEF ReleaseCall, CheckCall, Retry, Return, Fail, Crash
  <2>6. ASSUME NEW c \in Clients, NEW s \in Specs, NEW b \in BizKeys,
               NEW o \in Overrides, AcquireCall(c, s, b, o)
        PROVE  store' = store
      BY <2>6 DEF AcquireCall
  <2>7. ASSUME NEW c \in Clients, NEW d \in TTLs, RenewCall(c, d)
        PROVE  store' = store
      BY <2>7 DEF RenewCall
  <2> QED
      BY <2>1, <2>2, <2>3, <2>4, <2>5, <2>6, <2>7 DEF Next
<1>4. [Step]_vars => [\A k \in LockKeys :
          /\ store[k] # None /\ store[k].left > 1
          /\ store'[k] = None \/ store'[k].token # store[k].token
          => \E r \in InFlight :
                /\ r.op = "release"
                /\ r.key = k /\ r.token = store[k].token]_vars
    BY DEF Evicted
<1> QED
    BY <1>1, <1>2, <1>3, <1>4, PTL DEF Spec, EvictedOnlyByItsOwner

=============================================================================
