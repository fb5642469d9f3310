----------------------------- MODULE RateLimit -----------------------------
(****************************************************************************)
(* ratelimit: the keyed LocalLimiter with its cleanup and eviction, and the *)
(* DistributedLimiter over the Redis token bucket script, whose callers     *)
(* bring their own clocks.                                                  *)
(*                                                                          *)
(* Tokens are counted in parts: a request takes One of them and Rate come   *)
(* back each tick.  golang.org/x/time/rate and Redis are outside: Allow,    *)
(* Reserve and Cancel work as they document it.                             *)
(****************************************************************************)
EXTENDS Integers, FiniteSets

CONSTANTS
    RlCallers, RlKeys,
    One, Rate, Burst,      \* parts per request, parts per tick, requests in a full bucket
    LimiterTTL, CleanupInterval, MaxEntries,
    Skew,                  \* caller -> ticks its clock is off
    Margin,                \* the five seconds of the script's TTL
    MaxClock, MaxSetBack, MaxLost

VARIABLES
    clock,
    entries,       \* key -> [tokens, last, seen]: LocalLimiter.entries, or NoEntry
    lastCleanup,
    hash,          \* the bucket in Redis: [tokens, ts, expires], or NoHash
    ask,           \* caller -> [pc, key, at]: a limited local answer being prepared
    admitted,      \* [keys and "redis"] -> requests allowed
    lost,          \* reservations whose cancelling gave nothing back
    evicted,       \* key -> times it was dropped to make room
    setBack,       \* ticks of credit given by clocks that disagree
    told           \* caller -> [until, alone, right]: a limited answer of Redis, nobody asked since

rlVars == <<clock, entries, lastCleanup, hash, ask, admitted, lost, evicted, setBack, told>>

NoEntry == [tokens |-> 0, last |-> 0, seen |-> -1]
NoHash == [tokens |-> -1, ts |-> 0, expires |-> 0]
Quiet == [pc |-> "idle", key |-> "none", at |-> 0]
Untold == [until |-> 0, alone |-> FALSE, right |-> TRUE]
Full == Burst * One

ASSUME RateConstants ==
    /\ One \in Nat \ {0} /\ Rate \in Nat \ {0} /\ Burst \in Nat \ {0} /\ MaxEntries \in Nat
    /\ LimiterTTL \in Nat /\ CleanupInterval \in Nat /\ Margin \in Nat
    /\ MaxClock \in Nat /\ CleanupInterval <= MaxClock
    /\ LimiterTTL * Rate >= Burst * One    \* an idle bucket is full before it is forgotten
    /\ IsFiniteSet(RlCallers) /\ Skew \in [RlCallers -> Int]
    /\ \E c \in RlCallers : \A d \in RlCallers : Skew[d] <= Skew[c]
    /\ "redis" \notin RlKeys

Least(a, b) == IF a < b THEN a ELSE b
CeilDiv(a, b) == (a + b - 1) \div b

-----------------------------------------------------------------------------
(* LocalLimiter.                                                            *)

\* rate.Limiter.advance.
Tokens(e) == Least(Full, e.tokens + Rate * (clock - e.last))

LocalKey(k) == IF k = "" THEN "anonymous" ELSE k
LocalKeys == {LocalKey(k) : k \in RlKeys}

Live(es) == {k \in LocalKeys : es[k] # NoEntry}

\* The entries idle for longer than the TTL, dropped at most once per interval.
Expired == IF clock - lastCleanup < CleanupInterval THEN {}
           ELSE {k \in Live(entries) : clock - entries[k].seen > LimiterTTL}

\* Then, in map order, as many as there are too many.
Surplus ==
    LET left == Live(entries) \ Expired
    IN  IF clock - lastCleanup < CleanupInterval THEN {{}}
        ELSE {s \in SUBSET left :
                Cardinality(s) = IF Cardinality(left) > MaxEntries THEN Cardinality(left) - MaxEntries ELSE 0}

\* The key's entry, a new one with a full bucket if there is none.
EntryFor(k, dropped) ==
    LET e == IF k \in dropped THEN NoEntry ELSE entries[k]
    IN  [(IF e = NoEntry THEN [tokens |-> Full, last |-> clock, seen |-> clock] ELSE e)
            EXCEPT !.seen = clock]

\* Decide: limiterForKey under the mutex, then Allow of the limiter it found.
\* Callers still busy with a limiter that is dropped touch no entry any more.
Decide(c, k0) ==
    /\ ask[c].pc = "idle"
    /\ \E surplus \in Surplus :
          LET k == LocalKey(k0)
              dropped == Expired \cup surplus
              e == EntryFor(k, dropped)
              ok == Tokens(e) >= One
          IN  /\ entries' = [x \in LocalKeys |->
                     IF x = k THEN IF ok THEN [e EXCEPT !.tokens = Tokens(e) - One, !.last = clock] ELSE e
                     ELSE IF x \in dropped THEN NoEntry ELSE entries[x]]
              /\ lastCleanup' = IF clock - lastCleanup >= CleanupInterval THEN clock ELSE lastCleanup
              /\ evicted' = [x \in LocalKeys |-> IF x \in surplus THEN evicted[x] + 1 ELSE evicted[x]]
              /\ admitted' = IF ok THEN [admitted EXCEPT ![k] = @ + 1] ELSE admitted
              /\ ask' = [d \in RlCallers |->
                     IF d = c THEN IF ok THEN Quiet ELSE [pc |-> "reserve", key |-> k, at |-> 0]
                     ELSE IF ask[d].key \in dropped THEN Quiet ELSE ask[d]]
    /\ UNCHANGED <<clock, hash, lost, setBack, told>>

\* retryAfterForLimiter reserves a token to learn the delay ...
Reserve(c) ==
    LET k == ask[c].key
        e == entries[k]
        after == Tokens(e) - One
    IN  /\ ask[c].pc = "reserve"
        /\ entries' = [entries EXCEPT ![k].tokens = after, ![k].last = clock]
        /\ ask' = [ask EXCEPT ![c] = [pc |-> "cancel", key |-> k,
                      at |-> clock + IF after < 0 THEN CeilDiv(-after, Rate) ELSE 0]]
        /\ UNCHANGED <<clock, lastCleanup, hash, admitted, lost, evicted, setBack, told>>

\* Another reservation of the same bucket was made after c's.
Overtaken(c) ==
    \E d \in RlCallers \ {c} : ask[d].pc = "cancel" /\ ask[d].key = ask[c].key /\ ask[d].at > ask[c].at

\* ... and cancels it: nothing comes back once its time is over, or if another
\* reservation was made after it, so that two refusals at once cost a token.
Cancel(c) ==
    LET k == ask[c].key
    IN  /\ ask[c].pc = "cancel"
        /\ Overtaken(c) => lost < MaxLost
        /\ lost' = IF Overtaken(c) THEN lost + 1 ELSE lost
        /\ ask' = [ask EXCEPT ![c] = Quiet]
        /\ entries' = IF ask[c].at < clock \/ Overtaken(c) THEN entries
                      ELSE [entries EXCEPT ![k].tokens = Least(Full, Tokens(entries[k]) + One),
                                           ![k].last = clock]
        /\ UNCHANGED <<clock, lastCleanup, hash, admitted, evicted, setBack, told>>

-----------------------------------------------------------------------------
(* DistributedLimiter and the script.                                       *)

Now(c) == clock + Skew[c]
Fastest == Skew[CHOOSE c \in RlCallers : \A d \in RlCallers : Skew[d] <= Skew[c]]

\* The bucket's TTL: the time it takes to fill, and five seconds.
ScriptTTL == CeilDiv(Full, Rate) + Margin

\* Faulty variant: a refusal does not move the bucket's time.
TokenBucketScriptKeepsTs(now) ==
    LET b == IF hash = NoHash \/ clock >= hash.expires THEN [tokens |-> Full, ts |-> now] ELSE hash
        have == Least(Full, b.tokens + Rate * (IF now > b.ts THEN now - b.ts ELSE 0))
        ok == have >= One
    IN  [ok |-> ok, missing |-> One - have,
         to |-> [tokens |-> IF ok THEN have - One ELSE have, ts |-> IF ok THEN now ELSE b.ts,
                 expires |-> clock + ScriptTTL]]

\* The token bucket script.
TokenBucketScript(now) ==
    LET b == IF hash = NoHash \/ clock >= hash.expires THEN [tokens |-> Full, ts |-> now] ELSE hash
        have == Least(Full, b.tokens + Rate * (IF now > b.ts THEN now - b.ts ELSE 0))
        ok == have >= One
    IN  [ok |-> ok, missing |-> One - have,
         to |-> [tokens |-> IF ok THEN have - One ELSE have, ts |-> now, expires |-> clock + ScriptTTL]]

\* RetryAfterSeconds for the missing parts: the full seconds and one more.
RetryAfter(missing) == missing \div Rate + 1

\* What c's clock takes back from the bucket's time; a new bucket starts at the
\* asker's clock too.
SetBack(c) ==
    LET ts == IF hash = NoHash \/ clock >= hash.expires THEN clock + Fastest ELSE hash.ts
    IN  IF Now(c) < ts THEN ts - Now(c) ELSE 0

\* Decide of the distributed limiter.
DecideShared(c) ==
    LET r == TokenBucketScript(Now(c))
    IN  /\ setBack + SetBack(c) <= MaxSetBack
        /\ hash' = r.to
        /\ admitted' = IF r.ok THEN [admitted EXCEPT !["redis"] = @ + 1] ELSE admitted
        /\ setBack' = setBack + SetBack(c)
        /\ told' = [d \in RlCallers |->
               IF d = c THEN [until |-> IF r.ok THEN 0 ELSE clock + RetryAfter(r.missing), alone |-> ~r.ok,
                              right |-> (told[c].alone /\ clock >= told[c].until) => r.ok]
               ELSE [told[d] EXCEPT !.alone = FALSE]]
        /\ UNCHANGED <<clock, entries, lastCleanup, ask, lost, evicted>>

\* An empty key, an invalid policy, no backend, an error of Redis or an answer
\* that does not parse: allowed as degraded.  The script may have run.
DegradedOpen(c) ==
    /\ setBack + SetBack(c) <= MaxSetBack
    /\ \/ UNCHANGED <<hash, setBack>>
       \/ LET r == TokenBucketScript(Now(c))
          IN  hash' = r.to /\ setBack' = setBack + SetBack(c)
    /\ told' = [d \in RlCallers |-> [told[d] EXCEPT !.alone = FALSE]]
    /\ UNCHANGED <<clock, entries, lastCleanup, ask, admitted, lost, evicted>>

ClockTick ==
    /\ clock < MaxClock /\ clock' = clock + 1
    /\ UNCHANGED <<entries, lastCleanup, hash, ask, admitted, lost, evicted, setBack, told>>

-----------------------------------------------------------------------------
RateInit ==
    /\ clock = CleanupInterval /\ lastCleanup = 0
    /\ entries = [k \in LocalKeys |-> NoEntry] /\ hash = NoHash
    /\ ask = [c \in RlCallers |-> Quiet] /\ told = [c \in RlCallers |-> Untold]
    /\ admitted = [k \in LocalKeys \cup {"redis"} |-> 0]
    /\ evicted = [k \in LocalKeys |-> 0] /\ setBack = 0 /\ lost = 0

LocalNext == \E c \in RlCallers : Reserve(c) \/ Cancel(c) \/ \E k \in RlKeys : Decide(c, k)
SharedNext == \E c \in RlCallers : DecideShared(c) \/ DegradedOpen(c)

RateNext == ClockTick \/ LocalNext \/ SharedNext

RateSpec == RateInit /\ [][RateNext]_rlVars

-----------------------------------------------------------------------------
(* Properties.                                                              *)

\* Every variable has its type: a bucket is never over its burst, and the
\* shared one never in debt.
RateTypeOK ==
    /\ clock \in CleanupInterval..MaxClock /\ lastCleanup \in 0..clock
    /\ \A k \in Live(entries) : Tokens(entries[k]) <= Full
    /\ hash # NoHash => hash.tokens \in 0..Full

\* In any run from the start a key is admitted at most its burst and what the
\* rate gave since, and one burst more for each time it was dropped to make
\* room: forgetting an idle entry gives nothing away.
LocalRateHolds ==
    \A k \in LocalKeys :
        admitted[k] * One <= Full * (1 + evicted[k]) + Rate * (clock - CleanupInterval)

\* Refusing costs nothing: a bucket is in debt only for refusals being prepared
\* and for those that met another one.
DebtIsFromOverlap ==
    \A k \in LocalKeys :
        LET pending == {c \in RlCallers : ask[c].pc = "cancel" /\ ask[c].key = k}
        IN  Tokens(entries[k]) >= -One * (lost + Cardinality(pending))

\* All callers together are admitted at most burst and rate by Redis, plus what
\* clocks that disagree give: each time a slower clock sets ts back, a faster
\* one earns the difference again.
SharedRateHolds ==
    admitted["redis"] * One <= Full + Rate * (clock - CleanupInterval + setBack)

\* Who waits RetryAfterSeconds and finds nobody has asked meanwhile is let in.
RetryAfterIsEnough == \A c \in RlCallers : told[c].right

\* What holds of both buckets at every time: types, the rates that were promised,
\* debts only from refusals that overlap, and a wait that is long enough.
RateInv ==
    /\ RateTypeOK /\ LocalRateHolds /\ DebtIsFromOverlap
    /\ SharedRateHolds /\ RetryAfterIsEnough
=============================================================================
