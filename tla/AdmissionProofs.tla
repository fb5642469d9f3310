--------------------------- MODULE AdmissionProofs ---------------------------
(****************************************************************************)
(* What lets a request or a message in, for any number of callers, keys and *)
(* workers: the backpressure limiter, the local and the distributed rate    *)
(* limiter, and the middlewares of a subscription.                          *)
(****************************************************************************)
EXTENDS Backpressure, RateLimit, Middlewares, FiniteSetTheorems, SequenceTheorems, TLAPS

-----------------------------------------------------------------------------
(* Backpressure: the channel holds the callers inside, less the slots that *)
(* were given back once too often.                                         *)

Gates == [pc : {"outside", "waiting", "inside", "free"}, left : {Never} \cup Nat]

\* GateInv with the sets the variables are from; a channel is never fuller than
\* its capacity.
BInv ==
    /\ gateConf \in GateConfs /\ gate \in [BpCallers -> Gates]
    /\ extra \in 0..MaxExtra /\ sem \in Nat
    /\ gateConf.max > 0 => sem <= gateConf.max
    /\ NoSlotLeaks

-----------------------------------------------------------------------------
LEMMA InsideFinite == IsFiniteSet(Inside) /\ Cardinality(Inside) \in Nat
<1>1. Inside \subseteq BpCallers
    BY DEF Inside
<1> QED
    BY <1>1, BpConstants, FS_Subset, FS_CardinalityType

\* The invariant implies what the runs check.
LEMMA BInvImplies == ASSUME BInv PROVE GateInv
<1>1. BpTypeOK
    BY DEF BInv, BpTypeOK, Gates, Never
<1>2. InflightBounded
  <2>1. sem = Cardinality(Inside) - extra /\ extra \in Int /\ Cardinality(Inside) \in Nat
      BY InsideFinite, BpConstants DEF BInv, NoSlotLeaks
  <2>2. gateConf.max \in Int
      BY BpConstants DEF BInv
  <2> QED
      BY <2>1, <2>2 DEF BInv, InflightBounded
<1> QED
    BY <1>1, <1>2 DEF GateInv, BInv

\* A step that changes one caller's gate, and lets nobody in or out.
LEMMA OneGate ==
    ASSUME BInv, NEW c \in BpCallers, NEW g \in Gates,
           gate' = [gate EXCEPT ![c] = g],
           (gate[c].pc = "inside") <=> (g.pc = "inside")
    PROVE  gate' \in [BpCallers -> Gates] /\ Inside' = Inside
BY DEF BInv, Inside

\* How long a caller waits is a number of ticks, or for ever.
LEMMA WaitForTyped ==
    ASSUME BInv, NEW c \in BpCallers PROVE WaitFor(c) \in {Never} \cup Nat
BY BpConstants DEF BInv, WaitFor

LEMMA BInvStep == ASSUME BInv, [BpNext]_bpVars PROVE BInv'
<1>1. CASE Tick
  <2>1. gate' \in [BpCallers -> Gates]
    <3>1. ASSUME NEW c \in BpCallers PROVE gate'[c] \in Gates
      <4>1. gate[c] \in Gates
          BY DEF BInv
      <4>2. CASE gate[c].pc = "waiting" /\ gate[c].left > 0
        <5>1. gate'[c] = [gate[c] EXCEPT !.left = @ - 1]
            BY <1>1, <4>2 DEF Tick
        <5>2. gate[c].left - 1 \in Nat
            BY <4>1, <4>2 DEF Gates, Never
        <5> QED
            BY <4>1, <5>1, <5>2 DEF Gates
      <4>3. CASE ~(gate[c].pc = "waiting" /\ gate[c].left > 0)
          BY <1>1, <4>1, <4>3 DEF Tick
      <4> QED
          BY <4>2, <4>3
    <3> QED
        BY <1>1, <3>1 DEF Tick
  <2>2. Inside' = Inside
      BY <1>1, <2>1 DEF Tick, Inside, BInv, Gates
  <2> QED
      BY <1>1, <2>1, <2>2 DEF Tick, BInv, NoSlotLeaks
<1>2. ASSUME NEW c \in BpCallers, Acquire(c) PROVE BInv'
  <2> DEFINE g == IF gateConf.max <= 0 THEN [pc |-> "free", left |-> Never]
                  ELSE [pc |-> "waiting", left |-> WaitFor(c)]
  <2>1. g \in Gates /\ g.pc # "inside"
      BY WaitForTyped DEF Gates
  <2>2. gate' \in [BpCallers -> Gates] /\ Inside' = Inside
      BY <1>2, <2>1, OneGate DEF Acquire
  <2> QED
      BY <1>2, <2>2 DEF Acquire, BInv, NoSlotLeaks
<1>3. ASSUME NEW c \in BpCallers, Acquired(c) PROVE BInv'
  <2>1. gate[c] \in Gates /\ gate' = [gate EXCEPT ![c] = [gate[c] EXCEPT !.pc = "inside"]]
      BY <1>3 DEF Acquired, BInv
  <2>2. gate' \in [BpCallers -> Gates]
      BY <2>1 DEF Gates, BInv
  <2>3. Inside' = Inside \cup {c} /\ c \notin Inside
      BY <1>3, <2>1 DEF Acquired, Inside, BInv, Gates
  <2>4. Cardinality(Inside') = Cardinality(Inside) + 1
      BY <2>3, InsideFinite, FS_AddElement
  <2>5. NoSlotLeaks'
      BY <1>3, <2>4, InsideFinite, BpConstants DEF Acquired, BInv, NoSlotLeaks
  <2>6. gateConf'.max > 0 => sem' <= gateConf'.max
      BY <1>3, BpConstants DEF Acquired, BInv
  <2> QED
      BY <1>3, <2>2, <2>5, <2>6 DEF Acquired, BInv
<1>4. ASSUME NEW c \in BpCallers, WaitEnds(c) \/ Cancelled(c) PROVE BInv'
  <2>1. gate[c].pc # "inside" /\ gate' = [gate EXCEPT ![c] = Outside]
      BY <1>4 DEF WaitEnds, Cancelled
  <2>2. Outside \in Gates /\ Outside.pc # "inside"
      BY DEF Outside, Gates
  <2>3. gate' \in [BpCallers -> Gates] /\ Inside' = Inside
      BY <2>1, <2>2, OneGate
  <2> QED
      BY <1>4, <2>3 DEF WaitEnds, Cancelled, BInv, NoSlotLeaks
<1>5. ASSUME NEW c \in BpCallers, Release(c) PROVE BInv'
  <2>1. Outside \in Gates /\ Outside.pc # "inside"
      BY DEF Outside, Gates
  <2>2. CASE gate[c].pc = "free"
    <3>1. gate' \in [BpCallers -> Gates] /\ Inside' = Inside
        BY <1>5, <2>1, <2>2, OneGate DEF Release
    <3> QED
        BY <1>5, <2>2, <3>1 DEF Release, BInv, NoSlotLeaks
  <2>3. CASE gate[c].pc = "inside"
    <3>1. gate' \in [BpCallers -> Gates]
        BY <1>5, <2>1 DEF Release, BInv
    <3>2. Inside' = Inside \ {c} /\ c \in Inside
        BY <1>5, <2>1, <2>3 DEF Release, Inside, BInv
    <3>3. Cardinality(Inside') = Cardinality(Inside) - 1
        BY <3>2, InsideFinite, FS_RemoveElement
    <3>4. NoSlotLeaks'
        BY <1>5, <2>3, <3>3, InsideFinite, BpConstants DEF Release, BInv, NoSlotLeaks
    <3>5. sem' \in Nat /\ (gateConf'.max > 0 => sem' <= gateConf'.max)
        BY <1>5, <2>3, BpConstants DEF Release, BInv
    <3> QED
        BY <1>5, <3>1, <3>4, <3>5 DEF Release, BInv
  <2> QED
      BY <1>5, <2>2, <2>3 DEF Release
<1>6. ASSUME NEW c \in BpCallers, ReleaseAgain(c) PROVE BInv'
  <2>1. Inside' = Inside
      BY <1>6 DEF ReleaseAgain, Inside
  <2>2. NoSlotLeaks'
      BY <1>6, <2>1, InsideFinite, BpConstants DEF ReleaseAgain, BInv, NoSlotLeaks
  <2>3. sem' \in Nat /\ extra' \in 0..MaxExtra /\ (gateConf'.max > 0 => sem' <= gateConf'.max)
      BY <1>6, BpConstants DEF ReleaseAgain, BInv
  <2> QED
      BY <1>6, <2>2, <2>3 DEF ReleaseAgain, BInv
<1>7. CASE UNCHANGED bpVars
    BY <1>7 DEF bpVars, BInv, NoSlotLeaks, Inside
<1> QED
    BY <1>1, <1>2, <1>3, <1>4, <1>5, <1>6, <1>7 DEF BpNext, BpStep

\* However callers acquire, give up, release and release again, no more of them
\* are inside than the limit and the extra releases allow, and no slot leaks.
THEOREM GateHolds == BpSpec => []GateInv
<1>1. BpInit => BInv
  <2> SUFFICES ASSUME BpInit PROVE BInv
      OBVIOUS
  <2>1. Inside = {}
      BY DEF BpInit, Inside, Outside
  <2>2. Cardinality(Inside) = 0
      BY <2>1, FS_EmptySet
  <2>3. Outside \in Gates
      BY DEF Outside, Gates
  <2> QED
      BY <2>2, <2>3, BpConstants DEF BpInit, BInv, NoSlotLeaks
<1>2. BInv /\ [BpNext]_bpVars => BInv'
    BY BInvStep
<1>3. BInv => GateInv
    BY BInvImplies
<1> QED
    BY <1>1, <1>2, <1>3, PTL DEF BpSpec

-----------------------------------------------------------------------------
(* RateLimit: a bucket, what was admitted from it and what its cancelled    *)
(* reservations give back are together within the allowance.                *)

Entries == [tokens : Int, last : Int, seen : Int]
Asks == [pc : {"idle", "reserve", "cancel"}, key : LocalKeys \cup {"none"}, at : Int]
Answers == [until : Int, alone : BOOLEAN, right : BOOLEAN]

RateTypes ==
    /\ clock \in CleanupInterval..MaxClock /\ lastCleanup \in 0..clock
    /\ entries \in [LocalKeys -> Entries] /\ hash \in [tokens : Int, ts : Int, expires : Int]
    /\ ask \in [RlCallers -> Asks] /\ told \in [RlCallers -> Answers]
    /\ admitted \in [LocalKeys \cup {"redis"} -> Nat] /\ evicted \in [LocalKeys -> Nat]
    /\ lost \in Nat /\ setBack \in Nat

\* Times are past ones, and who prepares an answer does so with a live entry.
EntriesHold ==
    /\ \A k \in LocalKeys : entries[k].last <= clock
    /\ \A k \in LocalKeys : entries[k] # NoEntry => entries[k].seen \in 0..clock
    /\ \A c \in RlCallers : ask[c].pc # "idle" => ask[c].key \in LocalKeys /\ entries[ask[c].key] # NoEntry

\* The reservations of a key that give a token back if they are cancelled after t.
Reserved(k, t) == {c \in RlCallers : ask[c].pc = "cancel" /\ ask[c].key = k /\ ask[c].at > t}

\* What a key may have been admitted by time t.
Allowance(k, t) == Full * (1 + evicted[k]) + Rate * (t - CleanupInterval)

\* What was admitted, what is in the bucket and what cancelling gives back are
\* within the allowance; up to the last request without the bucket.  A forgotten
\* entry leaves room for a full bucket.
WithinAllowance(k) ==
    IF entries[k] = NoEntry THEN admitted[k] * One + Full <= Allowance(k, clock)
    ELSE /\ admitted[k] * One <= Allowance(k, entries[k].seen)
         /\ admitted[k] * One + Tokens(entries[k]) + One * Cardinality(Reserved(k, clock - 1))
              <= Allowance(k, clock)

\* The debt at any time to come is that of the reservations still out then, and of
\* the lost ones.
OwesAt(k, t) ==
    entries[k].tokens + Rate * (t - entries[k].last) >= -(One * (lost + Cardinality(Reserved(k, t))))

\* The bucket in Redis: what was admitted and what it holds is what the rate gave
\* up to its time, on the fastest clock, and it outlives its refilling.
SharedHolds ==
    IF hash = NoHash THEN admitted["redis"] = 0
    ELSE /\ hash.tokens \in 0..Full
         /\ hash.ts <= hash.expires - ScriptTTL + Fastest /\ hash.expires - ScriptTTL <= clock
         /\ admitted["redis"] * One + hash.tokens
              <= Full + Rate * (hash.ts - Fastest - CleanupInterval + setBack)

\* A caller that was refused, with nobody asking since, finds the bucket as its own
\* request left it.
AnswersHold ==
    \A c \in RlCallers :
        /\ told[c].right
        /\ told[c].alone => /\ hash # NoHash /\ hash.tokens < One
                            /\ told[c].until = hash.ts - Skew[c] + RetryAfter(One - hash.tokens)

RInv ==
    /\ RateTypes /\ EntriesHold /\ SharedHolds /\ AnswersHold
    /\ \A k \in LocalKeys : WithinAllowance(k)
    /\ \A k \in LocalKeys : \A t \in Int : t >= clock => OwesAt(k, t)

-----------------------------------------------------------------------------
(* Arithmetic.                                                              *)

LEMMA Times ==
    ASSUME NEW r \in Int, NEW a \in Int, NEW b \in Int
    PROVE  /\ r * (a + b) = r * a + r * b /\ r * (a - b) = r * a - r * b
           /\ r * a \in Int /\ a * r = r * a /\ r * 1 = r /\ r * 0 = 0
OBVIOUS

LEMMA TimesMonotone ==
    ASSUME NEW r \in Nat, NEW a \in Int, NEW b \in Int, a <= b PROVE r * a <= r * b
OBVIOUS

LEMMA Divided ==
    ASSUME NEW a \in Int, NEW b \in Nat, b > 0
    PROVE  a \div b \in Int /\ b * (a \div b) <= a /\ a < b * (a \div b) + b
OBVIOUS

LEMMA Sizes ==
    /\ One \in Nat /\ One > 0 /\ Rate \in Nat /\ Rate > 0 /\ Full \in Nat /\ One <= Full
    /\ LimiterTTL \in Nat /\ CleanupInterval \in Nat /\ Margin \in Nat /\ Full <= Rate * LimiterTTL
<1>1. One \in Nat /\ One > 0 /\ Rate \in Nat /\ Rate > 0 /\ Burst \in Nat /\ Burst >= 1
      /\ LimiterTTL \in Nat /\ CleanupInterval \in Nat /\ Margin \in Nat
    BY RateConstants
<1>2. One * 1 <= One * Burst /\ One * 1 = One /\ Burst * One = One * Burst
    BY <1>1, TimesMonotone, Times
<1>3. Full \in Nat /\ One <= Full
    BY <1>1, <1>2 DEF Full
<1>4. Full <= Rate * LimiterTTL
    BY <1>1, Times, RateConstants DEF Full
<1> QED
    BY <1>1, <1>3, <1>4

\* The time a division rounds up to is enough.
LEMMA CeilIsEnough ==
    ASSUME NEW a \in Int PROVE CeilDiv(a, Rate) \in Int /\ a <= Rate * CeilDiv(a, Rate)
<1>1. a + Rate - 1 \in Int
    BY Sizes
<1>2. /\ (a + Rate - 1) \div Rate \in Int
      /\ a + Rate - 1 < Rate * ((a + Rate - 1) \div Rate) + Rate
    BY <1>1, Sizes, Divided
<1>3. Rate * ((a + Rate - 1) \div Rate) \in Int
    BY <1>2, Sizes
<1> QED
    BY <1>2, <1>3, Sizes DEF CeilDiv

LEMMA ScriptTTLFills == ScriptTTL \in Int /\ Full <= Rate * ScriptTTL
<1>1. CeilDiv(Full, Rate) \in Int /\ Full <= Rate * CeilDiv(Full, Rate)
    BY Sizes, CeilIsEnough
<1>2. Rate * CeilDiv(Full, Rate) <= Rate * (CeilDiv(Full, Rate) + Margin)
    BY <1>1, Sizes, TimesMonotone
<1>3. Rate * CeilDiv(Full, Rate) \in Int /\ Rate * (CeilDiv(Full, Rate) + Margin) \in Int
    BY <1>1, Sizes
<1> QED
    BY <1>1, <1>2, <1>3, Sizes DEF ScriptTTL

\* Fastest is the skew of a caller, and no other clock is ahead of it.
LEMMA FastestIsAhead == Fastest \in Int /\ \A c \in RlCallers : Skew[c] \in Int /\ Skew[c] <= Fastest
<1> DEFINE f == CHOOSE c \in RlCallers : \A d \in RlCallers : Skew[d] <= Skew[c]
<1>1. f \in RlCallers /\ \A d \in RlCallers : Skew[d] <= Skew[f]
    BY RateConstants
<1>2. Fastest = Skew[f]
    BY DEF Fastest
<1> QED
    BY <1>1, <1>2, RateConstants

-----------------------------------------------------------------------------
(* The buckets of the LocalLimiter.                                         *)

LEMMA ReservedCounted ==
    ASSUME NEW k, NEW t
    PROVE  IsFiniteSet(Reserved(k, t)) /\ Cardinality(Reserved(k, t)) \in Nat
<1>1. Reserved(k, t) \subseteq RlCallers
    BY DEF Reserved
<1> QED
    BY <1>1, RateConstants, FS_Subset, FS_CardinalityType

LEMMA EntryTyped ==
    ASSUME RInv, NEW k \in LocalKeys
    PROVE  /\ entries[k] \in Entries /\ entries[k].tokens \in Int /\ entries[k].last \in Int
           /\ entries[k].seen \in Int /\ clock \in Nat /\ clock >= CleanupInterval
           /\ admitted[k] \in Nat /\ evicted[k] \in Nat /\ lost \in Nat /\ entries[k].last <= clock
           /\ entries[k] # NoEntry => entries[k].seen >= 0 /\ entries[k].seen <= clock
<1>1. clock \in Nat /\ clock >= CleanupInterval
    BY Sizes, RateConstants DEF RInv, RateTypes
<1> QED
    BY <1>1 DEF RInv, RateTypes, EntriesHold, Entries

\* A bucket is not over its burst, nor over what came since.
LEMMA TokensBounded ==
    ASSUME NEW e \in Entries, clock \in Int
    PROVE  LET had == e.tokens + Rate * (clock - e.last)
           IN  /\ had \in Int /\ Tokens(e) \in Int /\ Tokens(e) <= Full /\ Tokens(e) <= had
               /\ Tokens(e) = Full \/ Tokens(e) = had
<1>1. e.tokens \in Int /\ e.last \in Int
    BY DEF Entries
<1>2. Rate * (clock - e.last) \in Int
    BY <1>1, Sizes
<1> QED
    BY <1>1, <1>2, Sizes DEF Tokens, Least

LEMMA AllowanceTyped ==
    ASSUME RInv, NEW k \in LocalKeys, NEW t \in Int, NEW u \in Int, t <= u
    PROVE  /\ Allowance(k, t) \in Int /\ Allowance(k, u) \in Int
           /\ Allowance(k, u) = Allowance(k, t) + Rate * (u - t) /\ Allowance(k, t) <= Allowance(k, u)
<1>1. evicted[k] \in Nat
    BY EntryTyped
<1>2. /\ Full * (1 + evicted[k]) \in Int
      /\ Rate * (t - CleanupInterval) = Rate * t - Rate * CleanupInterval
      /\ Rate * (u - CleanupInterval) = Rate * u - Rate * CleanupInterval
      /\ Rate * (u - t) = Rate * u - Rate * t
      /\ Rate * t \in Int /\ Rate * u \in Int /\ Rate * CleanupInterval \in Int
    BY <1>1, Sizes, Times
<1>3. Rate * t <= Rate * u
    BY Sizes, TimesMonotone
<1> QED
    BY <1>2, <1>3 DEF Allowance

LEMMA RInvImplies == ASSUME RInv PROVE RateInv
<1>1. clock \in Nat /\ clock >= CleanupInterval
    BY Sizes, RateConstants DEF RInv, RateTypes
<1>2. RateTypeOK
  <2>1. \A k \in Live(entries) : Tokens(entries[k]) <= Full
      BY <1>1, EntryTyped, TokensBounded DEF Live
  <2> QED
      BY <2>1 DEF RateTypeOK, RInv, RateTypes, SharedHolds
<1>3. LocalRateHolds
  <2>1. SUFFICES ASSUME NEW k \in LocalKeys PROVE admitted[k] * One <= Allowance(k, clock)
      BY DEF LocalRateHolds, Allowance
  <2>2. admitted[k] * One \in Int /\ Allowance(k, clock) \in Int
      BY <1>1, EntryTyped, AllowanceTyped, Sizes
  <2>3. CASE entries[k] = NoEntry
      BY <2>2, <2>3, Sizes DEF RInv, WithinAllowance
  <2>4. CASE entries[k] # NoEntry
    <3>1. /\ entries[k].seen \in Int /\ entries[k].seen <= clock
        BY <2>4, EntryTyped
    <3>2. Allowance(k, entries[k].seen) <= Allowance(k, clock) /\ Allowance(k, entries[k].seen) \in Int
        BY <1>1, <3>1, AllowanceTyped
    <3> QED
        BY <2>2, <2>4, <3>2 DEF RInv, WithinAllowance
  <2> QED
      BY <2>3, <2>4
<1>4. DebtIsFromOverlap
  <2>1. SUFFICES ASSUME NEW k \in LocalKeys
        PROVE  LET pending == {c \in RlCallers : ask[c].pc = "cancel" /\ ask[c].key = k}
               IN  Tokens(entries[k]) >= -One * (lost + Cardinality(pending))
      BY DEF DebtIsFromOverlap
  <2> DEFINE pending == {c \in RlCallers : ask[c].pc = "cancel" /\ ask[c].key = k}
             n == Cardinality(pending)
             m == Cardinality(Reserved(k, clock))
  <2>2. pending \subseteq RlCallers /\ Reserved(k, clock) \subseteq pending
      BY DEF Reserved
  <2>3. n \in Nat /\ m \in Nat /\ m <= n
      BY <2>2, RateConstants, FS_Subset, FS_CardinalityType
  <2> HIDE DEF n
  <2>4. lost \in Nat /\ OwesAt(k, clock)
      BY <1>1, EntryTyped DEF RInv
  <2>5. /\ One * (lost + m) <= One * (lost + n) /\ -One * (lost + n) = -(One * (lost + n))
        /\ One * (lost + m) \in Int /\ One * (lost + n) \in Int /\ One * (lost + n) >= 0
      BY <2>3, <2>4, Sizes, TimesMonotone
  <2>6. entries[k].tokens + Rate * (clock - entries[k].last) >= -(One * (lost + m))
      BY <2>4 DEF OwesAt
  <2> HIDE DEF m
  <2>7. LET had == entries[k].tokens + Rate * (clock - entries[k].last)
        IN  /\ had \in Int /\ Tokens(entries[k]) \in Int
            /\ Tokens(entries[k]) = Full \/ Tokens(entries[k]) = had
      BY <1>1, EntryTyped, TokensBounded
  <2>8. Tokens(entries[k]) >= -One * (lost + n)
      BY <2>5, <2>6, <2>7, Sizes
  <2> QED
      BY <2>8 DEF n
<1>5. SharedRateHolds
  <2>1. admitted["redis"] \in Nat /\ setBack \in Nat
      BY DEF RInv, RateTypes
  <2>2. Rate * (clock - CleanupInterval + setBack) \in Nat
      BY <1>1, <2>1, Sizes
  <2>3. CASE hash = NoHash
    <3>1. admitted["redis"] * One = 0
        BY <2>3, Sizes DEF RInv, SharedHolds
    <3> QED
        BY <2>2, <3>1, Sizes DEF SharedRateHolds
  <2>4. CASE hash # NoHash
    <3>1. /\ hash.tokens \in Nat /\ hash.ts \in Int /\ hash.expires \in Int
          /\ hash.ts <= hash.expires - ScriptTTL + Fastest /\ hash.expires - ScriptTTL <= clock
          /\ admitted["redis"] * One + hash.tokens
               <= Full + Rate * (hash.ts - Fastest - CleanupInterval + setBack)
        BY <2>4, Sizes DEF RInv, RateTypes, SharedHolds
    <3>2. hash.ts - Fastest - CleanupInterval + setBack <= clock - CleanupInterval + setBack
        BY <1>1, <2>1, <3>1, Sizes, ScriptTTLFills, FastestIsAhead
    <3>3. /\ Rate * (hash.ts - Fastest - CleanupInterval + setBack) <= Rate * (clock - CleanupInterval + setBack)
          /\ Rate * (hash.ts - Fastest - CleanupInterval + setBack) \in Int
        BY <1>1, <2>1, <3>1, <3>2, Sizes, FastestIsAhead, TimesMonotone
    <3>4. admitted["redis"] * One \in Int
        BY <2>1, Sizes
    <3> QED
        BY <2>2, <3>1, <3>3, <3>4, Sizes DEF SharedRateHolds
  <2> QED
      BY <2>3, <2>4
<1>6. RetryAfterIsEnough
    BY DEF RInv, AnswersHold, RetryAfterIsEnough
<1> QED
    BY <1>2, <1>3, <1>4, <1>5, <1>6 DEF RateInv

LEMMA RInvInit == ASSUME RateInit PROVE RInv
<1> USE DEF RateInit
<1>1. clock = CleanupInterval /\ clock \in Nat
    BY Sizes
<1>2. RateTypes
  <2>1. NoEntry \in Entries /\ Quiet \in Asks /\ Untold \in Answers
      BY DEF NoEntry, Entries, Quiet, Asks, Untold, Answers
  <2>2. entries \in [LocalKeys -> Entries] /\ ask \in [RlCallers -> Asks] /\ told \in [RlCallers -> Answers]
      BY <2>1
  <2>3. admitted \in [LocalKeys \cup {"redis"} -> Nat] /\ evicted \in [LocalKeys -> Nat]
      OBVIOUS
  <2>4. clock \in CleanupInterval..MaxClock /\ lastCleanup \in 0..clock
      BY <1>1, RateConstants
  <2>5. hash \in [tokens : Int, ts : Int, expires : Int]
      BY DEF NoHash
  <2> QED
      BY <2>2, <2>3, <2>4, <2>5 DEF RateTypes
<1>3. EntriesHold
    BY <1>1 DEF EntriesHold, NoEntry, Quiet
<1>4. SharedHolds /\ AnswersHold
    BY DEF SharedHolds, AnswersHold, Untold
<1>5. ASSUME NEW k \in LocalKeys PROVE WithinAllowance(k)
  <2>1. admitted[k] = 0 /\ evicted[k] = 0 /\ entries[k] = NoEntry
      OBVIOUS
  <2>2. 0 * One = 0 /\ Full * (1 + 0) = Full /\ Rate * (clock - CleanupInterval) = 0
      BY <1>1, Sizes
  <2> QED
      BY <2>1, <2>2, Sizes DEF WithinAllowance, Allowance
<1>6. ASSUME NEW k \in LocalKeys, NEW t \in Int, t >= clock PROVE OwesAt(k, t)
  <2>1. entries[k].tokens = 0 /\ entries[k].last = 0 /\ lost = 0
      BY DEF NoEntry
  <2>2. Rate * (t - 0) \in Nat
      BY <1>1, <1>6, Sizes
  <2>3. One * (0 + Cardinality(Reserved(k, t))) \in Nat
      BY Sizes, ReservedCounted
  <2> QED
      BY <2>1, <2>2, <2>3 DEF OwesAt
<1> QED
    BY <1>2, <1>3, <1>4, <1>5, <1>6 DEF RInv

\* A step at the same time that leaves a key's bucket, counts and reservations as
\* they are.
LEMMA KeyKept ==
    ASSUME RInv, NEW x \in LocalKeys, clock' = clock, entries'[x] = entries[x], admitted'[x] = admitted[x],
           evicted'[x] = evicted[x], lost' \in {lost, lost + 1},
           \A t \in Int : Reserved(x, t)' = Reserved(x, t)
    PROVE  WithinAllowance(x)' /\ \A t \in Int : t >= clock' => OwesAt(x, t)'
<1>1. clock \in Nat /\ clock - 1 \in Int /\ lost \in Nat
    BY EntryTyped
<1>2. WithinAllowance(x)'
    BY <1>1 DEF RInv, WithinAllowance, Allowance, Tokens
<1>3. ASSUME NEW t \in Int, t >= clock PROVE OwesAt(x, t)'
  <2> DEFINE n == Cardinality(Reserved(x, t))
             had == entries[x].tokens + Rate * (t - entries[x].last)
  <2>1. n \in Nat /\ had >= -(One * (lost + n)) /\ had \in Int
      BY <1>3, ReservedCounted, EntryTyped, Sizes DEF RInv, OwesAt
  <2>2. /\ One * (lost + n) \in Int /\ One * ((lost + 1) + n) = One * (lost + n) + One
      BY <1>1, <2>1, Sizes, Times
  <2>3. had >= -(One * (lost' + n))
    <3> HIDE DEF had, n
    <3> QED
        BY <2>1, <2>2, Sizes
  <2> QED
      BY <2>3 DEF OwesAt
<1> QED
    BY <1>2, <1>3

LEMMA ClockTickStep == ASSUME RInv, ClockTick PROVE RInv'
<1>1. /\ clock' = clock + 1 /\ clock < MaxClock
      /\ UNCHANGED <<entries, lastCleanup, hash, ask, admitted, lost, evicted, setBack, told>>
    BY DEF ClockTick
<1>2. clock \in Nat /\ clock >= CleanupInterval
    BY Sizes, RateConstants DEF RInv, RateTypes
<1>3. RateTypes'
    BY <1>1, <1>2, Sizes, RateConstants DEF RInv, RateTypes
<1>4. EntriesHold'
    BY <1>1, <1>2, EntryTyped DEF RInv, EntriesHold
<1>5. SharedHolds' /\ AnswersHold'
  <2>1. hash.expires - ScriptTTL <= clock => hash.expires - ScriptTTL <= clock + 1
      BY <1>2, ScriptTTLFills DEF RInv, RateTypes
  <2> QED
      BY <1>1, <2>1 DEF RInv, SharedHolds, AnswersHold
<1>6. ASSUME NEW k \in LocalKeys PROVE WithinAllowance(k)'
  <2>1. /\ Allowance(k, clock + 1) = Allowance(k, clock) + Rate /\ Allowance(k, clock) \in Int
        /\ admitted[k] * One \in Int
    <3>1. Rate * ((clock + 1) - clock) = Rate
        BY <1>2, Sizes
    <3> QED
        BY <1>2, <3>1, AllowanceTyped, EntryTyped, Sizes
  <2>2. Allowance(k, clock)' = Allowance(k, clock + 1) /\ Allowance(k, entries[k].seen)' = Allowance(k, entries[k].seen)
      BY <1>1 DEF Allowance
  <2>3. CASE entries[k] = NoEntry
    <3>1. admitted[k] * One + Full <= Allowance(k, clock)
        BY <2>3 DEF RInv, WithinAllowance
    <3>2. admitted[k] * One + Full <= Allowance(k, clock + 1)
        BY <2>1, <3>1, Sizes
    <3> QED
        BY <1>1, <2>2, <2>3, <3>2 DEF WithinAllowance
  <2>4. CASE entries[k] # NoEntry
    <3> DEFINE n == Cardinality(Reserved(k, clock - 1))
               n1 == Cardinality(Reserved(k, clock))
               have == Tokens(entries[k])
    <3>1. /\ admitted[k] * One <= Allowance(k, entries[k].seen)
          /\ admitted[k] * One + have + One * n <= Allowance(k, clock)
        BY <2>4 DEF RInv, WithinAllowance
    <3>2. n \in Nat /\ n1 \in Nat /\ n1 <= n
      <4>1. Reserved(k, clock) \subseteq Reserved(k, clock - 1)
          BY <1>2 DEF RInv, RateTypes, Asks, Reserved
      <4> QED
          BY <4>1, ReservedCounted, FS_Subset
    <3>3. Tokens(entries[k])' <= have + Rate /\ have \in Int /\ Tokens(entries[k])' \in Int
      <4>1. /\ entries[k].tokens \in Int /\ entries[k].last \in Int /\ entries'[k] = entries[k]
          BY <1>1, EntryTyped
      <4>2. /\ Rate * ((clock + 1) - entries[k].last) = Rate * (clock - entries[k].last) + Rate
            /\ Rate * (clock - entries[k].last) \in Int
          BY <1>2, <4>1, Sizes
      <4> QED
          BY <1>1, <4>1, <4>2, Sizes DEF Tokens, Least
    <3>4. One * n1 <= One * n /\ One * n1 \in Int /\ One * n \in Int
        BY <3>2, Sizes, TimesMonotone
    <3>5. Reserved(k, clock - 1)' = Reserved(k, clock)
      <4>1. clock' - 1 = clock
          BY <1>1, <1>2
      <4> QED
          BY <1>1, <4>1 DEF Reserved
    <3> HIDE DEF n, n1, have
    <3>6. admitted[k] * One + Tokens(entries[k])' + One * n1 <= Allowance(k, clock + 1)
        BY <2>1, <3>1, <3>3, <3>4, Sizes
    <3> QED
        BY <1>1, <2>2, <2>4, <3>1, <3>5, <3>6 DEF WithinAllowance, n1
  <2> QED
      BY <2>3, <2>4
<1>7. ASSUME NEW k \in LocalKeys, NEW t \in Int, t >= clock' PROVE OwesAt(k, t)'
  <2>1. t >= clock
      BY <1>1, <1>2, <1>7
  <2> QED
      BY <1>1, <2>1 DEF RInv, OwesAt, Reserved
<1> QED
    BY <1>3, <1>4, <1>5, <1>6, <1>7 DEF RInv

\* A local step keeps what is known of Redis.
LEMMA SharedKept ==
    ASSUME RInv, clock' = clock, hash' = hash, told' = told, setBack' = setBack,
           admitted'["redis"] = admitted["redis"]
    PROVE  SharedHolds' /\ AnswersHold'
BY DEF RInv, SharedHolds, AnswersHold

LEMMA ReserveStep == ASSUME RInv, NEW c \in RlCallers, Reserve(c) PROVE RInv'
<1>0. PICK k \in LocalKeys : k = ask[c].key
    BY DEF Reserve, RInv, EntriesHold
<1> DEFINE e == entries[k]
           have == Tokens(e)
           after == have - One
           delay == IF after < 0 THEN CeilDiv(-after, Rate) ELSE 0
           a == [pc |-> "cancel", key |-> k, at |-> clock + delay]
           e1 == [e EXCEPT !.tokens = after, !.last = clock]
<1>1. ask[c].pc = "reserve" /\ ask[c].key = k /\ e # NoEntry
    BY <1>0 DEF Reserve, RInv, EntriesHold
<1>2. /\ e \in Entries /\ e.tokens \in Int /\ e.last \in Int /\ e.seen \in Int /\ clock \in Nat
      /\ clock >= CleanupInterval /\ admitted[k] \in Nat /\ evicted[k] \in Nat /\ lost \in Nat /\ e.last <= clock
      /\ e.seen >= 0 /\ e.seen <= clock
    BY <1>1, EntryTyped
<1>3. /\ have \in Int /\ have <= e.tokens + Rate * (clock - e.last) /\ e.tokens + Rate * (clock - e.last) \in Int
      /\ have = Full \/ have = e.tokens + Rate * (clock - e.last)
    BY <1>2, TokensBounded
<1>4. after \in Int
    BY <1>3, Sizes
<1>5. delay \in Nat /\ -after <= Rate * delay
  <2>1. CASE after < 0
    <3>1. CeilDiv(-after, Rate) \in Int /\ -after <= Rate * CeilDiv(-after, Rate)
        BY <1>4, CeilIsEnough
    <3>2. CeilDiv(-after, Rate) > 0
      <4>1. SUFFICES ASSUME CeilDiv(-after, Rate) <= 0 PROVE FALSE
          BY <3>1
      <4>2. Rate * CeilDiv(-after, Rate) <= Rate * 0 /\ Rate * 0 = 0
          BY <3>1, <4>1, Sizes, TimesMonotone
      <4>3. Rate * CeilDiv(-after, Rate) \in Int
          BY <3>1, Sizes
      <4> QED
          BY <1>4, <2>1, <3>1, <4>2, <4>3
    <3> QED
        BY <2>1, <3>1, <3>2
  <2>2. CASE ~(after < 0)
    <3>1. delay = 0 /\ Rate * 0 = 0
        BY <2>2, Sizes
    <3> QED
        BY <1>4, <2>2, <3>1
  <2> QED
      BY <2>1, <2>2
<1>6. /\ entries' = [entries EXCEPT ![k] = e1] /\ ask' = [ask EXCEPT ![c] = a]
      /\ UNCHANGED <<clock, lastCleanup, hash, admitted, lost, evicted, setBack, told>>
    BY <1>0 DEF Reserve
<1> HIDE DEF delay, after
<1>7. e1 \in Entries /\ e1.tokens = after /\ e1.last = clock /\ e1.seen = e.seen
  <2>1. e \in Entries /\ clock \in Int
      BY <1>2
  <2> HIDE DEF e
  <2> QED
      BY <1>4, <2>1 DEF Entries
<1>8. a \in Asks /\ a.pc = "cancel" /\ a.key = k /\ a.at = clock + delay
    BY <1>1, <1>2, <1>5 DEF Asks
<1> HIDE DEF a, e1
<1>9. /\ entries' \in [LocalKeys -> Entries] /\ entries'[k] = e1
      /\ \A x \in LocalKeys : x # k => entries'[x] = entries[x]
    BY <1>1, <1>6, <1>7 DEF RInv, RateTypes
<1>10. /\ ask' \in [RlCallers -> Asks] /\ ask'[c] = a
       /\ \A d \in RlCallers : d # c => ask'[d] = ask[d]
    BY <1>6, <1>8 DEF RInv, RateTypes
<1>11. RateTypes'
    BY <1>6, <1>9, <1>10 DEF RInv, RateTypes
<1>12. e1 # NoEntry
    BY <1>2, <1>7 DEF NoEntry
<1>13. EntriesHold'
  <2>1. \A x \in LocalKeys : entries'[x].last <= clock
      BY <1>2, <1>7, <1>9 DEF RInv, EntriesHold
  <2>2. \A x \in LocalKeys : entries'[x] # NoEntry => entries'[x].seen \in 0..clock
      BY <1>2, <1>7, <1>9 DEF RInv, EntriesHold
  <2>3. ASSUME NEW d \in RlCallers, ask'[d].pc # "idle"
        PROVE  ask'[d].key \in LocalKeys /\ entries'[ask'[d].key] # NoEntry
      BY <1>1, <1>8, <1>9, <1>10, <1>12, <2>3 DEF RInv, EntriesHold
  <2> QED
      BY <1>6, <2>1, <2>2, <2>3 DEF EntriesHold
<1>14. SharedHolds' /\ AnswersHold'
    BY <1>6, SharedKept
<1>15. \A x \in LocalKeys, t \in Int : x # k => Reserved(x, t)' = Reserved(x, t)
    BY <1>1, <1>8, <1>10 DEF Reserved
<1>16. ASSUME NEW t \in Int
       PROVE  /\ Cardinality(Reserved(k, t)) \in Nat
              /\ Cardinality(Reserved(k, t)') = Cardinality(Reserved(k, t)) + (IF clock + delay > t THEN 1 ELSE 0)
  <2>1. c \notin Reserved(k, t)
      BY <1>1 DEF Reserved
  <2>2. Reserved(k, t)' = {d \in RlCallers : ask'[d].pc = "cancel" /\ ask'[d].key = k /\ ask'[d].at > t}
      BY DEF Reserved
  <2>3. Reserved(k, t)' = IF clock + delay > t THEN Reserved(k, t) \cup {c} ELSE Reserved(k, t)
    <3>1. ASSUME NEW d \in RlCallers
          PROVE  d \in Reserved(k, t)' <=> (d \in Reserved(k, t) \/ (d = c /\ clock + delay > t))
        BY <1>1, <1>8, <1>10, <2>2 DEF Reserved
    <3>2. Reserved(k, t)' \subseteq RlCallers /\ Reserved(k, t) \subseteq RlCallers
        BY <2>2 DEF Reserved
    <3> QED
        BY <3>1, <3>2
  <2>4. IsFiniteSet(Reserved(k, t)) /\ Cardinality(Reserved(k, t)) \in Nat
      BY ReservedCounted
  <2>5. Cardinality(Reserved(k, t) \cup {c}) = Cardinality(Reserved(k, t)) + 1
      BY <2>1, <2>4, FS_AddElement
  <2> QED
      BY <2>3, <2>4, <2>5
<1>17. ASSUME NEW x \in LocalKeys
       PROVE  WithinAllowance(x)' /\ \A t \in Int : t >= clock' => OwesAt(x, t)'
  <2>1. CASE x # k
      BY <1>6, <1>9, <1>15, <2>1, KeyKept
  <2>2. CASE x = k
    <3> DEFINE n(t) == Cardinality(Reserved(k, t))
    <3>1. WithinAllowance(k)'
      <4>1. /\ admitted[k] * One <= Allowance(k, e.seen)
            /\ admitted[k] * One + have + One * n(clock - 1) <= Allowance(k, clock)
          BY <1>1 DEF RInv, WithinAllowance
      <4>2. PICK u \in Int : u = clock - 1
          BY <1>2
      <4>3. Cardinality(Reserved(k, u)') = n(u) + 1 /\ n(u) \in Nat
        <5>1. clock + delay > u
            BY <1>2, <1>5, <4>2
        <5> QED
            BY <1>16, <5>1
      <4>4. Tokens(entries[k])' <= after /\ Tokens(entries[k])' \in Int
        <5>1. Rate * (clock - clock) = 0
            BY <1>2, Sizes
        <5> QED
            BY <1>4, <1>6, <1>7, <1>9, <5>1, Sizes DEF Tokens, Least
      <4>5. /\ One * (n(u) + 1) = One * n(u) + One /\ One * n(u) \in Int
            /\ admitted[k] * One \in Int /\ Allowance(k, clock) \in Int
          BY <1>1, <1>2, <4>3, Sizes, Times, AllowanceTyped
      <4>6. admitted[k] * One + Tokens(entries[k])' + One * (n(u) + 1) <= Allowance(k, clock)
        <5> HIDE DEF n
        <5> QED
            BY <1>3, <4>1, <4>2, <4>4, <4>5, Sizes DEF after
      <4>7. Reserved(k, clock - 1)' = Reserved(k, u)'
          BY <1>6, <4>2 DEF Reserved
      <4> QED
          BY <1>6, <1>7, <1>9, <1>12, <4>1, <4>3, <4>6, <4>7 DEF WithinAllowance, Allowance
    <3>2. ASSUME NEW t \in Int, t >= clock PROVE OwesAt(k, t)'
      <4>1. /\ e.tokens + Rate * (t - e.last) >= -(One * (lost + n(t))) /\ n(t) \in Nat
          BY <1>1, <1>16, <3>2 DEF RInv, OwesAt
      <4>2. after + Rate * (t - clock) >= -(One * (lost + Cardinality(Reserved(k, t)')))
        <5>1. CASE clock + delay > t
          <6>1. Cardinality(Reserved(k, t)') = n(t) + 1
              BY <1>16, <5>1
          <6>2. /\ One * (lost + (n(t) + 1)) = One * (lost + n(t)) + One /\ One * (lost + n(t)) \in Nat
                /\ Rate * (t - clock) \in Nat
              BY <1>2, <3>2, <4>1, Sizes, Times
          <6>3. CASE have = Full
              BY <6>1, <6>2, <6>3, Sizes DEF after
          <6>4. CASE have = e.tokens + Rate * (clock - e.last)
            <7>1. /\ Rate * (clock - e.last) + Rate * (t - clock) = Rate * (t - e.last)
                  /\ Rate * (t - e.last) \in Int /\ Rate * (clock - e.last) \in Int
                BY <1>2, Sizes
            <7> QED
                BY <1>2, <4>1, <6>1, <6>2, <6>4, <7>1, Sizes DEF after
          <6> QED
              BY <1>3, <6>3, <6>4
        <5>2. CASE ~(clock + delay > t)
          <6>1. Rate * delay <= Rate * (t - clock) /\ Rate * delay \in Int /\ Rate * (t - clock) \in Int
              BY <1>2, <1>5, <5>2, Sizes, TimesMonotone
          <6>2. Cardinality(Reserved(k, t)') = n(t) /\ One * (lost + n(t)) \in Nat
              BY <1>2, <1>16, <4>1, <5>2, Sizes
          <6> QED
              BY <1>4, <1>5, <6>1, <6>2
        <5> QED
            BY <5>1, <5>2
      <4> QED
          BY <1>6, <1>7, <1>9, <4>2 DEF OwesAt
    <3> QED
        BY <1>6, <2>2, <3>1, <3>2
  <2> QED
      BY <2>1, <2>2
<1> QED
    BY <1>11, <1>13, <1>14, <1>17 DEF RInv

LEMMA CancelStep == ASSUME RInv, NEW c \in RlCallers, Cancel(c) PROVE RInv'
<1>0. PICK k \in LocalKeys : k = ask[c].key
    BY DEF Cancel, RInv, EntriesHold
<1> DEFINE e == entries[k]
           have == Tokens(e)
           kept == ask[c].at < clock \/ Overtaken(c)
           e1 == [e EXCEPT !.tokens = Least(Full, have + One), !.last = clock]
           n(t) == Cardinality(Reserved(k, t))
<1>1. ask[c].pc = "cancel" /\ ask[c].key = k /\ e # NoEntry /\ ask[c].at \in Int
    BY <1>0 DEF Cancel, RInv, EntriesHold, RateTypes, Asks
<1>2. /\ e \in Entries /\ e.tokens \in Int /\ e.last \in Int /\ e.seen \in Int /\ clock \in Nat
      /\ clock >= CleanupInterval /\ admitted[k] \in Nat /\ evicted[k] \in Nat /\ lost \in Nat /\ e.last <= clock
      /\ e.seen >= 0 /\ e.seen <= clock
    BY <1>1, EntryTyped
<1>3. /\ have \in Int /\ have <= e.tokens + Rate * (clock - e.last) /\ e.tokens + Rate * (clock - e.last) \in Int
      /\ have = Full \/ have = e.tokens + Rate * (clock - e.last)
    BY <1>2, TokensBounded
<1>4. /\ Least(Full, have + One) \in Int /\ Least(Full, have + One) <= have + One
      /\ Least(Full, have + One) = Full \/ Least(Full, have + One) = have + One
    BY <1>3, Sizes DEF Least
<1>5. /\ entries' = IF kept THEN entries ELSE [entries EXCEPT ![k] = e1]
      /\ ask' = [ask EXCEPT ![c] = Quiet]
      /\ lost' = (IF Overtaken(c) THEN lost + 1 ELSE lost)
      /\ UNCHANGED <<clock, lastCleanup, hash, admitted, evicted, setBack, told>>
    BY <1>0 DEF Cancel
<1>6. e1 \in Entries /\ e1.tokens = Least(Full, have + One) /\ e1.last = clock /\ e1.seen = e.seen
  <2>1. e \in Entries /\ clock \in Int
      BY <1>2
  <2> HIDE DEF e
  <2> QED
      BY <1>4, <2>1 DEF Entries
<1>7. Quiet \in Asks /\ Quiet.pc = "idle"
    BY DEF Quiet, Asks
<1> HIDE DEF e1, kept, n
<1>8. /\ entries' \in [LocalKeys -> Entries] /\ entries'[k] = (IF kept THEN e ELSE e1)
      /\ \A x \in LocalKeys : x # k => entries'[x] = entries[x]
    BY <1>5, <1>6 DEF RInv, RateTypes
<1>9. /\ ask' \in [RlCallers -> Asks] /\ ask'[c].pc = "idle"
      /\ \A d \in RlCallers : d # c => ask'[d] = ask[d]
    BY <1>5, <1>7 DEF RInv, RateTypes
<1>10. RateTypes'
    BY <1>5, <1>8, <1>9 DEF RInv, RateTypes
<1>11. e1 # NoEntry
    BY <1>2, <1>6 DEF NoEntry
<1>12. EntriesHold'
  <2>1. \A x \in LocalKeys : entries'[x].last <= clock
      BY <1>2, <1>6, <1>8 DEF RInv, EntriesHold
  <2>2. \A x \in LocalKeys : entries'[x] # NoEntry => entries'[x].seen \in 0..clock
      BY <1>2, <1>6, <1>8 DEF RInv, EntriesHold
  <2>3. ASSUME NEW d \in RlCallers, ask'[d].pc # "idle"
        PROVE  ask'[d].key \in LocalKeys /\ entries'[ask'[d].key] # NoEntry
    <3>1. ask'[d] = ask[d] /\ ask[d].key \in LocalKeys /\ entries[ask[d].key] # NoEntry
        BY <1>9, <2>3 DEF RInv, EntriesHold
    <3> QED
        BY <1>1, <1>8, <1>11, <3>1
  <2> QED
      BY <1>5, <2>1, <2>2, <2>3 DEF EntriesHold
<1>13. SharedHolds' /\ AnswersHold'
    BY <1>5, SharedKept
<1>14. \A x \in LocalKeys, t \in Int : x # k => Reserved(x, t)' = Reserved(x, t)
    BY <1>1, <1>9 DEF Reserved
\* The reservation is gone from the count of every time it would have lasted to.
<1>15. ASSUME NEW t \in Int
       PROVE  /\ n(t) \in Nat
              /\ ask[c].at > t => n(t) > 0
              /\ Cardinality(Reserved(k, t)') = n(t) - (IF ask[c].at > t THEN 1 ELSE 0)
  <2>1. c \in Reserved(k, t) <=> ask[c].at > t
      BY <1>1 DEF Reserved
  <2>2. Reserved(k, t)' = Reserved(k, t) \ {c}
      BY <1>9 DEF Reserved
  <2>3. IsFiniteSet(Reserved(k, t)) /\ n(t) \in Nat
      BY ReservedCounted DEF n
  <2>4. CASE ask[c].at > t
    <3>1. /\ Cardinality(Reserved(k, t) \ {c}) = n(t) - 1 /\ IsFiniteSet(Reserved(k, t) \ {c})
        BY <2>1, <2>3, <2>4, FS_RemoveElement DEF n
    <3>2. Cardinality(Reserved(k, t) \ {c}) \in Nat
        BY <3>1, FS_CardinalityType
    <3> QED
        BY <2>2, <2>3, <2>4, <3>1, <3>2
  <2>5. CASE ~(ask[c].at > t)
    <3>1. Reserved(k, t)' = Reserved(k, t)
        BY <2>1, <2>2, <2>5
    <3> QED
        BY <2>3, <2>5, <3>1 DEF n
  <2> QED
      BY <2>4, <2>5
<1>16. WithinAllowance(k)'
  <2>1. /\ admitted[k] * One <= Allowance(k, e.seen)
        /\ admitted[k] * One + have + One * n(clock - 1) <= Allowance(k, clock)
      BY <1>1 DEF RInv, WithinAllowance, n
  <2>2. PICK u \in Int : u = clock - 1
      BY <1>2
  <2> DEFINE n1 == Cardinality(Reserved(k, u)')
  <2>3. /\ n(u) \in Nat /\ n1 \in Nat /\ n1 = n(u) - (IF ask[c].at > u THEN 1 ELSE 0)
      BY <1>15
  <2> HIDE DEF n1
  <2>4. /\ One * (n(u) - 1) = One * n(u) - One /\ One * n(u) \in Int /\ One * n1 \in Int /\ One * n1 <= One * n(u)
        /\ admitted[k] * One \in Int /\ Allowance(k, clock) \in Int
    <3>1. n1 <= n(u)
        BY <2>3
    <3> QED
        BY <1>2, <2>3, <3>1, Sizes, Times, TimesMonotone, AllowanceTyped
  <2>5. admitted[k] * One + Tokens(entries[k])' + One * n1 <= Allowance(k, clock)
    <3>1. CASE kept
      <4>1. Tokens(entries[k])' = have
          BY <1>5, <1>8, <3>1 DEF Tokens
      <4> QED
          BY <1>3, <2>1, <2>2, <2>4, <4>1
    <3>2. CASE ~kept
      <4>1. Tokens(entries[k])' <= have + One /\ Tokens(entries[k])' \in Int
        <5>1. Rate * (clock - clock) = 0
            BY <1>2, Sizes
        <5> QED
            BY <1>3, <1>4, <1>5, <1>6, <1>8, <3>2, <5>1, Sizes DEF Tokens, Least
      <4>2. One * n1 = One * n(u) - One
          BY <1>1, <2>2, <2>3, <2>4, <3>2, <1>2 DEF kept
      <4> QED
          BY <1>3, <2>1, <2>2, <2>4, <4>1, <4>2, Sizes
    <3> QED
        BY <3>1, <3>2
  <2>6. Reserved(k, clock - 1)' = Reserved(k, u)'
      BY <1>5, <2>2 DEF Reserved
  <2>7. entries'[k] # NoEntry /\ entries'[k].seen = e.seen
      BY <1>1, <1>6, <1>8, <1>11
  <2> QED
      BY <1>5, <2>1, <2>5, <2>6, <2>7 DEF WithinAllowance, Allowance, n1
<1>17. ASSUME NEW t \in Int, t >= clock PROVE OwesAt(k, t)'
  <2> DEFINE n1 == Cardinality(Reserved(k, t)')
             after == (IF kept THEN e.tokens + Rate * (t - e.last) ELSE e1.tokens + Rate * (t - clock))
  <2>1. n(t) \in Nat /\ n1 = n(t) - (IF ask[c].at > t THEN 1 ELSE 0) /\ n1 \in Nat
      BY <1>15
  <2> HIDE DEF n1
  <2>2. e.tokens + Rate * (t - e.last) >= -(One * (lost + n(t)))
      BY <1>17 DEF RInv, OwesAt, n
  <2>3. /\ One * (lost + n(t)) \in Nat /\ One * (lost + n1) \in Nat /\ Rate * (t - clock) \in Nat
        /\ One * ((lost + 1) + n1) = One * (lost + n1) + One
        /\ Rate * (t - e.last) \in Int /\ Rate * (clock - e.last) \in Int
        /\ Rate * (clock - e.last) + Rate * (t - clock) = Rate * (t - e.last)
      BY <1>2, <1>17, <2>1, Sizes, Times
  <2>4. n1 = n(t) \/ One * (lost + n1) = One * (lost + n(t)) - One
    <3>1. n1 = n(t) - 1 => One * (lost + n1) = One * (lost + n(t)) - One
        BY <1>2, <2>1, Sizes, Times
    <3> QED
        BY <2>1, <3>1
  <2>5. after >= -(One * (lost' + n1))
    <3>1. CASE Overtaken(c)
      <4>1. kept /\ lost' = lost + 1
          BY <1>5, <3>1 DEF kept
      <4>2. One * (lost' + n1) >= One * (lost + n(t)) /\ One * (lost' + n1) \in Nat
          BY <2>3, <2>4, <4>1, Sizes
      <4> QED
          BY <1>2, <2>2, <2>3, <4>1, <4>2
    <3>2. CASE ~Overtaken(c) /\ kept
      <4>1. lost' = lost /\ n1 = n(t)
          BY <1>1, <1>2, <1>5, <1>17, <2>1, <3>2 DEF kept
      <4> QED
          BY <2>2, <3>2, <4>1
    <3>3. CASE ~kept
      <4>1. lost' = lost /\ after = Least(Full, have + One) + Rate * (t - clock)
          BY <1>5, <1>6, <3>3 DEF kept
      <4>2. One * (lost + n(t)) <= One * (lost + n1) + One
          BY <2>3, <2>4, Sizes
      <4> HIDE DEF after
      <4>3. CASE Least(Full, have + One) = Full \/ have = Full
        <5>1. Least(Full, have + One) >= 0
            BY <1>4, <4>3, Sizes
        <5> QED
            BY <1>4, <2>3, <4>1, <5>1
      <4>4. CASE Least(Full, have + One) = have + One /\ have = e.tokens + Rate * (clock - e.last)
          BY <1>2, <2>2, <2>3, <4>1, <4>2, <4>4, Sizes
      <4> QED
          BY <1>3, <1>4, <4>3, <4>4
    <3> QED
        BY <3>1, <3>2, <3>3
  <2> QED
      BY <1>5, <1>6, <1>8, <2>5 DEF OwesAt, n1
<1>18. ASSUME NEW x \in LocalKeys
       PROVE  WithinAllowance(x)' /\ \A t \in Int : t >= clock' => OwesAt(x, t)'
  <2>1. CASE x # k
    <3>1. lost' \in {lost, lost + 1}
        BY <1>5
    <3> QED
        BY <1>5, <1>8, <1>14, <2>1, <3>1, KeyKept
  <2>2. CASE x = k
      BY <1>5, <1>16, <1>17, <2>2
  <2> QED
      BY <2>1, <2>2
<1> QED
    BY <1>10, <1>12, <1>13, <1>18 DEF RInv

\* A key whose entry is dropped, or that has none, has room for a full bucket.
LEMMA RoomWithoutEntry ==
    ASSUME RInv, NEW x \in LocalKeys, NEW surplus \in Surplus, entries[x] = NoEntry \/ x \in Expired \cup surplus
    PROVE  /\ x \in surplus => admitted[x] * One <= Allowance(x, clock)
           /\ x \notin surplus => admitted[x] * One + Full <= Allowance(x, clock)
<1>1. clock \in Nat /\ admitted[x] * One \in Int /\ Allowance(x, clock) \in Int
    BY EntryTyped, AllowanceTyped, Sizes
<1>2. surplus \subseteq Live(entries) /\ Expired \subseteq Live(entries)
    BY DEF Surplus, Expired
<1>3. CASE entries[x] # NoEntry
  <2>1. /\ entries[x].seen \in Int /\ entries[x].seen <= clock
        /\ admitted[x] * One <= Allowance(x, entries[x].seen)
      BY <1>3, EntryTyped DEF RInv, WithinAllowance
  <2>2. /\ Allowance(x, entries[x].seen) \in Int
        /\ Allowance(x, clock) = Allowance(x, entries[x].seen) + Rate * (clock - entries[x].seen)
        /\ Allowance(x, entries[x].seen) <= Allowance(x, clock)
      BY <1>1, <2>1, AllowanceTyped
  <2>3. x \in Expired => Rate * LimiterTTL <= Rate * (clock - entries[x].seen)
    <3>1. SUFFICES ASSUME x \in Expired PROVE Rate * LimiterTTL <= Rate * (clock - entries[x].seen)
        OBVIOUS
    <3>2. LimiterTTL <= clock - entries[x].seen
        BY <1>1, <2>1, <3>1, Sizes DEF Expired
    <3> QED
        BY <1>1, <2>1, <3>2, Sizes, TimesMonotone
  <2>4. Rate * (clock - entries[x].seen) \in Int /\ Rate * LimiterTTL \in Int
      BY <1>1, <2>1, Sizes
  <2>5. x \in Expired => admitted[x] * One + Full <= Allowance(x, clock)
      BY <1>1, <2>1, <2>2, <2>3, <2>4, Sizes
  <2> QED
      BY <1>1, <1>3, <2>1, <2>2, <2>5
<1>4. CASE entries[x] = NoEntry
  <2>1. x \notin surplus
      BY <1>2, <1>4 DEF Live
  <2>2. admitted[x] * One + Full <= Allowance(x, clock)
      BY <1>4 DEF RInv, WithinAllowance
  <2> QED
      BY <2>1, <2>2
<1> QED
    BY <1>3, <1>4

\* An entry that a request touched, with the tokens it left.
LEMMA DecideStep == ASSUME RInv, NEW c \in RlCallers, NEW k0 \in RlKeys, Decide(c, k0) PROVE RInv'
<1>1. PICK surplus \in Surplus :
          LET k == LocalKey(k0)
              dropped == Expired \cup surplus
              e == EntryFor(k, dropped)
              ok == Tokens(e) >= One
          IN  /\ entries' = [x \in LocalKeys |->
                     IF x = k THEN IF ok THEN [e EXCEPT !.tokens = Tokens(e) - One, !.last = clock] ELSE e
                     ELSE IF x \in dropped THEN NoEntry ELSE entries[x]]
              /\ lastCleanup' = IF clock - lastCleanup >= CleanupInterval THEN clock ELSE lastCleanup
              /\ evicted' = [x \in LocalKeys |-> IF x \in surplus THEN evicted[x] + 1 ELSE evicted[x]]
              /\ admitted' = IF ok THEN [admitted EXCEPT ![k] = @ + 1] ELSE admitted
              /\ ask' = [d \in RlCallers |->
                     IF d = c THEN IF ok THEN Quiet ELSE [pc |-> "reserve", key |-> k, at |-> 0]
                     ELSE IF ask[d].key \in dropped THEN Quiet ELSE ask[d]]
    BY DEF Decide
<1>2. PICK k \in LocalKeys : k = LocalKey(k0)
    BY DEF LocalKeys
<1>3. PICK dropped : dropped = Expired \cup surplus
    OBVIOUS
<1>4. dropped \subseteq Live(entries) /\ surplus \subseteq dropped
    BY <1>3 DEF Surplus, Expired
<1>5. clock \in Nat /\ clock >= CleanupInterval
    BY EntryTyped
<1> DEFINE fresh == k \in dropped \/ entries[k] = NoEntry
           e == EntryFor(k, dropped)
           have == Tokens(e)
           ok == have >= One
           e1 == IF ok THEN [e EXCEPT !.tokens = have - One, !.last = clock] ELSE e
           asked == IF ok THEN Quiet ELSE [pc |-> "reserve", key |-> k, at |-> 0]
<1>6. /\ entries' = [x \in LocalKeys |-> IF x = k THEN e1 ELSE IF x \in dropped THEN NoEntry ELSE entries[x]]
      /\ lastCleanup' = IF clock - lastCleanup >= CleanupInterval THEN clock ELSE lastCleanup
      /\ evicted' = [x \in LocalKeys |-> IF x \in surplus THEN evicted[x] + 1 ELSE evicted[x]]
      /\ admitted' = IF ok THEN [admitted EXCEPT ![k] = @ + 1] ELSE admitted
      /\ ask' = [d \in RlCallers |-> IF d = c THEN asked ELSE IF ask[d].key \in dropped THEN Quiet ELSE ask[d]]
    BY <1>1, <1>2, <1>3
<1>7. UNCHANGED <<clock, hash, lost, setBack, told>> /\ ask[c].pc = "idle"
    BY DEF Decide
\* The entry found or made.
<1>8. /\ e \in Entries /\ e.seen = clock
      /\ e.tokens = (IF fresh THEN Full ELSE entries[k].tokens)
      /\ e.last = (IF fresh THEN clock ELSE entries[k].last)
  <2>1. CASE fresh
    <3> DEFINE f == [tokens |-> Full, last |-> clock, seen |-> clock]
    <3>1. e = [f EXCEPT !.seen = clock]
        BY <2>1 DEF EntryFor
    <3>2. f \in Entries
        BY <1>5, Sizes DEF Entries
    <3> HIDE DEF e
    <3> QED
        BY <1>5, <2>1, <3>1, <3>2 DEF Entries
  <2>2. CASE ~fresh
    <3>1. e = [entries[k] EXCEPT !.seen = clock]
        BY <2>2 DEF EntryFor
    <3>2. entries[k] \in Entries
        BY EntryTyped
    <3> HIDE DEF e
    <3> QED
        BY <1>5, <2>2, <3>1, <3>2 DEF Entries
  <2> QED
      BY <2>1, <2>2
<1> HIDE DEF e
<1>9. /\ e.tokens \in Int /\ e.last \in Int /\ e.last <= clock /\ have \in Int /\ have <= Full
      /\ have <= e.tokens + Rate * (clock - e.last)
      /\ Rate * (clock - e.last) \in Int
      /\ have = Full \/ have = e.tokens + Rate * (clock - e.last)
  <2>1. e.tokens \in Int /\ e.last \in Int /\ e.last <= clock
      BY <1>5, <1>8, EntryTyped DEF Entries
  <2> QED
      BY <1>5, <1>8, <2>1, Sizes, TokensBounded
<1>10. fresh => have = Full /\ ok
  <2>1. Rate * (clock - clock) = 0
      BY <1>5, Sizes
  <2> QED
      BY <1>8, <1>9, <2>1, Sizes DEF Tokens, Least
<1> HIDE DEF have
<1>11. /\ e1 \in Entries /\ e1.seen = clock
       /\ e1.tokens = (IF ok THEN have - One ELSE e.tokens)
       /\ e1.last = (IF ok THEN clock ELSE e.last)
  <2> HIDE DEF ok
  <2>1. CASE ok
    <3>1. have - One \in Int /\ clock \in Int
        BY <1>5, <1>9, Sizes
    <3> QED
        BY <1>8, <2>1, <3>1 DEF Entries
  <2>2. CASE ~ok
      BY <1>8, <2>2
  <2> QED
      BY <2>1, <2>2
<1>12. /\ asked \in Asks /\ asked.pc \in {"idle", "reserve"}
       /\ asked.pc # "idle" => asked.key = k
    BY DEF Asks, Quiet
<1>13. NoEntry \in Entries /\ NoEntry.last = 0 /\ NoEntry.tokens = 0 /\ NoEntry.seen = -1 /\ e1 # NoEntry
       /\ Quiet \in Asks /\ Quiet.pc = "idle"
  <2>1. NoEntry \in Entries /\ NoEntry.last = 0 /\ NoEntry.tokens = 0 /\ NoEntry.seen = -1
      BY DEF NoEntry, Entries
  <2>2. Quiet \in Asks /\ Quiet.pc = "idle"
      BY DEF Quiet, Asks
  <2> HIDE DEF e1
  <2> QED
      BY <1>5, <1>11, <2>1, <2>2
<1> HIDE DEF e1, asked, ok
<1>14. /\ entries' \in [LocalKeys -> Entries] /\ entries'[k] = e1
       /\ \A x \in LocalKeys : x # k => entries'[x] = (IF x \in dropped THEN NoEntry ELSE entries[x])
    BY <1>6, <1>11, <1>13 DEF RInv, RateTypes
<1>15. /\ ask' \in [RlCallers -> Asks] /\ ask'[c] = asked
       /\ \A d \in RlCallers : d # c => ask'[d] = (IF ask[d].key \in dropped THEN Quiet ELSE ask[d])
    BY <1>6, <1>12, <1>13 DEF RInv, RateTypes
<1>16. /\ admitted' \in [LocalKeys \cup {"redis"} -> Nat] /\ admitted'[k] = (IF ok THEN admitted[k] + 1 ELSE admitted[k])
       /\ \A x \in LocalKeys \cup {"redis"} : x # k => admitted'[x] = admitted[x]
    BY <1>6 DEF RInv, RateTypes
<1>17. /\ evicted' \in [LocalKeys -> Nat]
       /\ \A x \in LocalKeys : evicted'[x] = (IF x \in surplus THEN evicted[x] + 1 ELSE evicted[x])
    BY <1>6 DEF RInv, RateTypes
<1>18. RateTypes'
  <2>1. lastCleanup' \in 0..clock
      BY <1>5, <1>6 DEF RInv, RateTypes
  <2> QED
      BY <1>7, <1>14, <1>15, <1>16, <1>17, <2>1 DEF RInv, RateTypes
<1>19. EntriesHold'
  <2>1. \A x \in LocalKeys : entries'[x].last <= clock
      BY <1>5, <1>9, <1>11, <1>13, <1>14 DEF RInv, EntriesHold
  <2>2. \A x \in LocalKeys : entries'[x] # NoEntry => entries'[x].seen \in 0..clock
      BY <1>5, <1>11, <1>14 DEF RInv, EntriesHold
  <2>3. ASSUME NEW d \in RlCallers, ask'[d].pc # "idle"
        PROVE  ask'[d].key \in LocalKeys /\ entries'[ask'[d].key] # NoEntry
    <3>1. CASE d = c
        BY <1>12, <1>13, <1>14, <1>15, <2>3, <3>1
    <3>2. CASE d # c
      <4>1. ask'[d] = ask[d] /\ ask[d].key \notin dropped
          BY <1>13, <1>15, <2>3, <3>2
      <4>2. ask[d].key \in LocalKeys /\ entries[ask[d].key] # NoEntry
          BY <2>3, <4>1 DEF RInv, EntriesHold
      <4> QED
          BY <1>13, <1>14, <4>1, <4>2
    <3> QED
        BY <3>1, <3>2
  <2> QED
      BY <1>7, <2>1, <2>2, <2>3 DEF EntriesHold
<1>20. SharedHolds' /\ AnswersHold'
  <2>1. k # "redis" /\ "redis" \in LocalKeys \cup {"redis"}
      BY <1>2, RateConstants DEF LocalKey
  <2> QED
      BY <1>7, <1>16, <2>1, SharedKept
\* Who was preparing an answer with a dropped entry touches none any more.
<1>21. /\ \A x \in LocalKeys, t \in Int : x \in dropped => Reserved(x, t)' = {}
       /\ \A x \in LocalKeys, t \in Int : x \notin dropped => Reserved(x, t)' = Reserved(x, t)
  <2>1. ASSUME NEW x \in LocalKeys, NEW t \in Int, x \in dropped PROVE Reserved(x, t)' = {}
      BY <1>12, <1>13, <1>15, <2>1 DEF Reserved
  <2>2. ASSUME NEW x \in LocalKeys, NEW t \in Int, x \notin dropped PROVE Reserved(x, t)' = Reserved(x, t)
      BY <1>7, <1>12, <1>13, <1>15, <2>2 DEF Reserved
  <2> QED
      BY <2>1, <2>2
<1>22. \A t \in Int : fresh => Reserved(k, t)' = {}
  <2>1. ASSUME NEW t \in Int, entries[k] = NoEntry PROVE Reserved(k, t) = {}
      BY <2>1 DEF Reserved, RInv, EntriesHold
  <2>2. entries[k] = NoEntry => k \notin dropped
      BY <1>4 DEF Live
  <2> QED
      BY <1>21, <2>1, <2>2
\* Room for a full bucket, after the evictions are counted.
<1>23. ASSUME NEW x \in LocalKeys, entries[x] = NoEntry \/ x \in dropped
       PROVE  admitted[x] * One + Full <= Full * (1 + evicted'[x]) + Rate * (clock - CleanupInterval)
  <2>1. /\ x \in surplus => admitted[x] * One <= Allowance(x, clock)
        /\ x \notin surplus => admitted[x] * One + Full <= Allowance(x, clock)
      BY <1>3, <1>23, RoomWithoutEntry
  <2>2. evicted[x] \in Nat /\ admitted[x] * One \in Int /\ Rate * (clock - CleanupInterval) \in Int
      BY <1>5, EntryTyped, Sizes
  <2>3. Full * (1 + (evicted[x] + 1)) = Full * (1 + evicted[x]) + Full /\ Full * (1 + evicted[x]) \in Int
      BY <2>2, Sizes, Times
  <2> QED
      BY <1>17, <2>1, <2>2, <2>3, Sizes DEF Allowance
<1>24. PICK u \in Int : u = clock - 1
    BY <1>5
<1>25. ASSUME NEW x \in LocalKeys, x # k, x \in dropped
       PROVE  WithinAllowance(x)' /\ \A t \in Int : t >= clock' => OwesAt(x, t)'
  <2>1. entries'[x] = NoEntry /\ admitted'[x] = admitted[x]
      BY <1>14, <1>16, <1>25
  <2>2. WithinAllowance(x)'
      BY <1>7, <1>23, <1>25, <2>1 DEF WithinAllowance, Allowance, NoEntry
  <2>3. ASSUME NEW t \in Int, t >= clock PROVE OwesAt(x, t)'
    <3>1. Cardinality(Reserved(x, t)') = 0 /\ lost \in Nat
        BY <1>21, <1>25, FS_EmptySet, EntryTyped
    <3>2. Rate * (t - 0) \in Nat /\ One * (lost + 0) \in Nat
        BY <1>5, <2>3, <3>1, Sizes
    <3> QED
        BY <1>7, <1>13, <2>1, <3>1, <3>2 DEF OwesAt
  <2> QED
      BY <1>7, <2>2, <2>3
<1>26. WithinAllowance(k)'
  <2> DEFINE n == Cardinality(Reserved(k, u)')
             room == Full * (1 + evicted'[k]) + Rate * (clock - CleanupInterval)
  <2>1. /\ Allowance(k, entries[k].seen)' = room /\ Allowance(k, clock)' = room
        /\ Reserved(k, clock - 1)' = Reserved(k, u)'
      BY <1>7, <1>11, <1>14, <1>24 DEF Allowance, Reserved
  <2>2. /\ admitted[k] * One \in Int /\ (admitted[k] + 1) * One = admitted[k] * One + One
        /\ room \in Int /\ admitted[k] \in Nat
      BY <1>5, <1>17, EntryTyped, Sizes, Times
  <2>3. n \in Nat
    <3>1. Reserved(k, u)' = {} \/ Reserved(k, u)' = Reserved(k, u)
        BY <1>21
    <3> QED
        BY <3>1, FS_EmptySet, ReservedCounted
  <2>4. One * n \in Nat
      BY <2>3, Sizes
  <2>5. admitted[k] * One + have + One * n <= room
    <3>1. CASE fresh
      <4>1. One * n = 0
          BY <1>22, <1>24, <3>1, FS_EmptySet, Sizes
      <4> QED
          BY <1>10, <1>23, <2>2, <3>1, <4>1, Sizes
    <3>2. CASE ~fresh
      <4>1. Reserved(k, u)' = Reserved(k, clock - 1) /\ evicted'[k] = evicted[k]
          BY <1>4, <1>17, <1>21, <1>24, <3>2
      <4>2. have = Tokens(entries[k])
          BY <1>8, <3>2 DEF have, Tokens
      <4> QED
          BY <3>2, <4>1, <4>2 DEF RInv, WithinAllowance, Allowance
    <3> QED
        BY <3>1, <3>2
  <2> HIDE DEF n, room
  <2>6. Tokens(entries[k])' \in Int /\ Tokens(entries[k])' = (IF ok THEN have - One ELSE have)
    <3>1. CASE ok
      <4>1. Rate * (clock - clock) = 0
          BY <1>5, Sizes
      <4> QED
          BY <1>7, <1>9, <1>11, <1>14, <3>1, <4>1, Sizes DEF Tokens, Least
    <3>2. CASE ~ok
        BY <1>7, <1>9, <1>11, <1>14, <3>2 DEF Tokens, have
    <3> QED
        BY <3>1, <3>2
  <2>7. admitted'[k] * One + Tokens(entries[k])' + One * n <= room
      BY <1>9, <1>16, <2>2, <2>4, <2>5, <2>6, Sizes
  <2>8. admitted'[k] * One <= room
    <3>1. CASE ok
      <4>1. Tokens(entries[k])' >= 0 /\ admitted'[k] * One \in Int
          BY <1>9, <1>16, <2>2, <2>6, <3>1, Sizes DEF ok
      <4> QED
          BY <2>2, <2>4, <2>6, <2>7, <4>1
    <3>2. CASE ~ok
      <4>1. ~fresh /\ evicted'[k] = evicted[k]
          BY <1>4, <1>10, <1>17, <3>2
      <4>2. admitted[k] * One <= Allowance(k, entries[k].seen) /\ entries[k].seen \in Int /\ entries[k].seen <= clock
          BY <4>1, EntryTyped DEF RInv, WithinAllowance
      <4>3. Allowance(k, entries[k].seen) <= Allowance(k, clock) /\ Allowance(k, entries[k].seen) \in Int
            /\ Allowance(k, clock) = room
          BY <1>5, <4>1, <4>2, AllowanceTyped DEF Allowance, room
      <4> QED
          BY <1>16, <2>2, <3>2, <4>2, <4>3
    <3> QED
        BY <3>1, <3>2
  <2> QED
      BY <1>13, <1>14, <2>1, <2>7, <2>8 DEF WithinAllowance, n
<1>27. ASSUME NEW t \in Int, t >= clock PROVE OwesAt(k, t)'
  <2> DEFINE n == Cardinality(Reserved(k, t)')
  <2>1. n \in Nat /\ lost \in Nat
    <3>1. Reserved(k, t)' = {} \/ Reserved(k, t)' = Reserved(k, t)
        BY <1>21
    <3> QED
      <4>1. lost \in Nat
          BY EntryTyped
      <4>2. n \in Nat
          BY <3>1, FS_EmptySet, ReservedCounted
      <4> QED
          BY <4>1, <4>2
  <2>2. One * (lost + n) \in Nat /\ Rate * (t - clock) \in Nat
      BY <1>5, <1>27, <2>1, Sizes
  <2>3. CASE ok
    <3>1. e1.tokens >= 0 /\ e1.tokens \in Int /\ e1.last = clock
        BY <1>9, <1>11, <2>3, Sizes DEF ok
    <3> HIDE DEF n
    <3>2. e1.tokens + Rate * (t - clock) >= -(One * (lost + n))
        BY <2>2, <3>1
    <3> QED
        BY <1>7, <1>14, <3>1, <3>2 DEF OwesAt, n
  <2>4. CASE ~ok
    <3>1. ~fresh
        BY <1>10, <2>4
    <3>2. Reserved(k, t)' = Reserved(k, t)
        BY <1>21, <3>1
    <3>3. e1.tokens = entries[k].tokens /\ e1.last = entries[k].last
        BY <1>8, <1>11, <2>4, <3>1
    <3>4. OwesAt(k, t)
        BY <1>27 DEF RInv
    <3> QED
        BY <1>7, <1>14, <3>2, <3>3, <3>4 DEF OwesAt
  <2> QED
      BY <2>3, <2>4
<1>28. ASSUME NEW x \in LocalKeys
       PROVE  WithinAllowance(x)' /\ \A t \in Int : t >= clock' => OwesAt(x, t)'
  <2>1. CASE x = k
      BY <1>7, <1>26, <1>27, <2>1
  <2>2. CASE x # k /\ x \in dropped
      BY <1>25, <2>2
  <2>3. CASE x # k /\ x \notin dropped
    <3>1. entries'[x] = entries[x] /\ admitted'[x] = admitted[x] /\ evicted'[x] = evicted[x]
        BY <1>4, <1>14, <1>16, <1>17, <2>3
    <3>2. \A t \in Int : Reserved(x, t)' = Reserved(x, t)
        BY <1>21, <2>3
    <3> QED
        BY <1>7, <3>1, <3>2, KeyKept
  <2> QED
      BY <2>1, <2>2, <2>3
<1> QED
    BY <1>18, <1>19, <1>20, <1>28 DEF RInv

-----------------------------------------------------------------------------
(* The bucket in Redis.                                                     *)

\* The script at a caller's time, with what its clock takes back from the bucket's:
\* what was admitted and what the bucket holds stays within what the rate gave.
LEMMA ScriptKeepsRate ==
    ASSUME RInv, NEW c \in RlCallers
    PROVE  LET r == TokenBucketScript(Now(c))
           IN  /\ r.ok \in BOOLEAN /\ r.missing \in Int /\ SetBack(c) \in Nat
               /\ r.to \in [tokens : Int, ts : Int, expires : Int] /\ r.to # NoHash
               /\ r.to.tokens \in 0..Full /\ r.to.ts = Now(c) /\ r.to.expires = clock + ScriptTTL
               /\ ~r.ok => r.to.tokens < One /\ r.missing = One - r.to.tokens
               /\ admitted["redis"] * One + (IF r.ok THEN One ELSE 0) + r.to.tokens
                    <= Full + Rate * (r.to.ts - Fastest - CleanupInterval + (setBack + SetBack(c)))
<1> DEFINE now == Now(c)
           gone == hash = NoHash \/ clock >= hash.expires
           b == IF gone THEN [tokens |-> Full, ts |-> now] ELSE hash
           since == IF now > b.ts THEN now - b.ts ELSE 0
           had == b.tokens + Rate * since
           have == Least(Full, had)
           ok == have >= One
           spent == admitted["redis"] * One
           from == IF gone THEN clock + Fastest ELSE hash.ts
<1>1. /\ clock \in Nat /\ clock >= CleanupInterval /\ setBack \in Nat /\ admitted["redis"] \in Nat
      /\ hash.tokens \in Int /\ hash.ts \in Int /\ hash.expires \in Int
    BY Sizes, RateConstants DEF RInv, RateTypes
<1>2. now \in Int /\ now <= clock + Fastest /\ Fastest \in Int /\ ScriptTTL \in Int
    BY <1>1, FastestIsAhead, ScriptTTLFills DEF Now
<1>3. spent \in Nat
    BY <1>1, Sizes
<1>4. b.tokens \in 0..Full /\ b.ts \in Int
  <2>1. CASE gone
      BY <1>2, <2>1, Sizes
  <2>2. CASE ~gone
      BY <1>1, <2>2 DEF RInv, SharedHolds
  <2> QED
      BY <2>1, <2>2
<1>5. since \in Nat
    BY <1>2, <1>4
<1>6. SetBack(c) = (IF now < from THEN from - now ELSE 0) /\ SetBack(c) \in Nat /\ from \in Int
  <2>1. from \in Int
      BY <1>1, <1>2
  <2> QED
      BY <1>2, <2>1 DEF SetBack
\* Before the script: the bucket it starts from, at the time of the bucket or, if it
\* is a new one, of the fastest clock.
<1>7. spent + b.tokens <= Full + Rate * (from - Fastest - CleanupInterval + setBack)
  <2>1. CASE hash = NoHash
    <3>1. spent = 0 /\ from - Fastest - CleanupInterval + setBack \in Nat
        BY <1>1, <1>2, <2>1, Sizes DEF RInv, SharedHolds
    <3>2. Rate * (from - Fastest - CleanupInterval + setBack) \in Nat
        BY <3>1, Sizes
    <3> HIDE DEF spent, from
    <3> QED
        BY <1>4, <3>1, <3>2, Sizes
  <2>2. CASE hash # NoHash /\ clock >= hash.expires
    <3> DEFINE old == hash.ts - Fastest - CleanupInterval + setBack
               new == from - Fastest - CleanupInterval + setBack
    <3>1. /\ hash.tokens >= 0 /\ hash.ts <= hash.expires - ScriptTTL + Fastest
          /\ spent + hash.tokens <= Full + Rate * old
        BY <2>2, Sizes DEF RInv, SharedHolds
    <3>2. b.tokens = Full /\ old \in Int /\ new \in Int /\ old + ScriptTTL <= new
        BY <1>1, <1>2, <2>2, <3>1, Sizes
    <3> HIDE DEF old, new
    <3>3. /\ Rate * (old + ScriptTTL) <= Rate * new /\ Rate * (old + ScriptTTL) = Rate * old + Rate * ScriptTTL
          /\ Rate * old \in Int /\ Rate * new \in Int /\ Rate * ScriptTTL \in Int
        BY <1>2, <3>2, Sizes, Times, TimesMonotone
    <3>4. spent + Full <= Full + Rate * new
      <4> HIDE DEF spent
      <4> QED
          BY <1>1, <1>3, <3>1, <3>3, Sizes, ScriptTTLFills
    <3> QED
        BY <3>2, <3>4 DEF new
  <2>3. CASE hash # NoHash /\ ~(clock >= hash.expires)
      BY <2>3 DEF RInv, SharedHolds
  <2> QED
      BY <2>1, <2>2, <2>3
\* After it: the caller's time is from moved on by since, or set back.
<1>8. Rate * since + Rate * (from - Fastest - CleanupInterval + setBack)
        <= Rate * (now - Fastest - CleanupInterval + (setBack + SetBack(c)))
  <2>1. since + (from - Fastest - CleanupInterval + setBack) <= now - Fastest - CleanupInterval + (setBack + SetBack(c))
    <3>1. since <= now - from + SetBack(c)
      <4>1. CASE gone
        <5>1. since = 0 /\ SetBack(c) >= from - now
            BY <1>2, <1>6, <4>1
        <5> QED
            BY <1>2, <1>6, <5>1
      <4>2. CASE ~gone
          BY <1>2, <1>4, <1>6, <4>2
      <4> QED
          BY <4>1, <4>2
    <3> HIDE DEF since, now, from
    <3> QED
        BY <1>1, <1>2, <1>5, <1>6, <3>1, Sizes
  <2> HIDE DEF since, now, from
  <2>2. /\ since + (from - Fastest - CleanupInterval + setBack) \in Int
        /\ now - Fastest - CleanupInterval + (setBack + SetBack(c)) \in Int
        /\ from - Fastest - CleanupInterval + setBack \in Int
      BY <1>1, <1>2, <1>5, <1>6, Sizes
  <2> QED
      BY <1>5, <2>1, <2>2, Sizes, Times, TimesMonotone
<1>9. /\ had \in Nat /\ Rate * since \in Nat /\ have \in 0..Full /\ have <= b.tokens + Rate * since
  <2>1. Rate * since \in Nat
      BY <1>5, Sizes
  <2> HIDE DEF b, since
  <2> QED
      BY <1>4, <2>1, Sizes DEF Least
<1> DEFINE to == [tokens |-> IF ok THEN have - One ELSE have, ts |-> now, expires |-> clock + ScriptTTL]
<1>10. TokenBucketScript(now) = [ok |-> ok, missing |-> One - have, to |-> to]
    BY DEF TokenBucketScript
<1> HIDE DEF have, b, since, spent, from, now, gone
<1>11. /\ to.tokens \in 0..Full /\ to.ts = now /\ to.expires = clock + ScriptTTL /\ ok \in BOOLEAN
       /\ to \in [tokens : Int, ts : Int, expires : Int]
       /\ to.tokens = (IF ok THEN have - One ELSE have)
    BY <1>1, <1>2, <1>9, Sizes
<1>12. to # NoHash
    BY <1>11 DEF NoHash
<1>13. spent + (IF ok THEN One ELSE 0) + to.tokens
         <= Full + Rate * (now - Fastest - CleanupInterval + (setBack + SetBack(c)))
  <2>1. spent + (IF ok THEN One ELSE 0) + to.tokens = spent + have
      BY <1>3, <1>9, <1>11, Sizes
  <2>2. /\ Rate * (from - Fastest - CleanupInterval + setBack) \in Int
        /\ Rate * (now - Fastest - CleanupInterval + (setBack + SetBack(c))) \in Int
      BY <1>1, <1>2, <1>6, Sizes
  <2> QED
      BY <1>3, <1>4, <1>7, <1>8, <1>9, <2>1, <2>2, Sizes
<1>14. ~ok => to.tokens < One /\ One - have = One - to.tokens
    BY <1>9, <1>11, Sizes
<1> HIDE DEF to, ok
<1> QED
    BY <1>6, <1>9, <1>10, <1>11, <1>12, <1>13, <1>14, Sizes DEF now, spent

\* What a step over Redis leaves alone.
LEMMA LocalKept ==
    ASSUME RInv, UNCHANGED <<clock, entries, lastCleanup, ask, lost, evicted>>,
           \A k \in LocalKeys : admitted'[k] = admitted[k]
    PROVE  /\ EntriesHold' /\ \A k \in LocalKeys : WithinAllowance(k)'
           /\ \A k \in LocalKeys : \A t \in Int : t >= clock' => OwesAt(k, t)'
BY DEF RInv, EntriesHold, WithinAllowance, Allowance, Tokens, Reserved, OwesAt

\* The bucket after the script, if what was admitted is no more than it gave.
LEMMA SharedAfterScript ==
    ASSUME RInv, NEW c \in RlCallers, hash' = TokenBucketScript(Now(c)).to, clock' = clock,
           setBack' = setBack + SetBack(c), admitted'["redis"] \in Nat,
           admitted'["redis"] <= admitted["redis"] + (IF TokenBucketScript(Now(c)).ok THEN 1 ELSE 0)
    PROVE  SharedHolds' /\ setBack' \in Nat /\ hash' \in [tokens : Int, ts : Int, expires : Int]
<1> DEFINE r == TokenBucketScript(Now(c))
           given == Rate * (r.to.ts - Fastest - CleanupInterval + (setBack + SetBack(c)))
           more == IF r.ok THEN 1 ELSE 0
<1>1. /\ r.ok \in BOOLEAN /\ SetBack(c) \in Nat
      /\ r.to \in [tokens : Int, ts : Int, expires : Int] /\ r.to # NoHash
      /\ r.to.tokens \in 0..Full /\ r.to.ts = Now(c) /\ r.to.expires = clock + ScriptTTL
      /\ admitted["redis"] * One + (IF r.ok THEN One ELSE 0) + r.to.tokens <= Full + given
    BY ScriptKeepsRate
<1>2. /\ clock \in Nat /\ Now(c) \in Int /\ Now(c) <= clock + Fastest /\ Fastest \in Int /\ ScriptTTL \in Int
      /\ admitted["redis"] \in Nat /\ setBack \in Nat
    BY Sizes, RateConstants, FastestIsAhead, ScriptTTLFills DEF RInv, RateTypes, Now
<1>3. /\ One * admitted'["redis"] <= One * (admitted["redis"] + more)
      /\ One * (admitted["redis"] + more) = One * admitted["redis"] + One * more
      /\ One * more = (IF r.ok THEN One ELSE 0)
      /\ admitted'["redis"] * One = One * admitted'["redis"] /\ admitted["redis"] * One = One * admitted["redis"]
      /\ One * admitted'["redis"] \in Int /\ One * admitted["redis"] \in Int
  <2>1. more \in Nat /\ admitted'["redis"] <= admitted["redis"] + more
      BY <1>1
  <2>2. One * more = (IF r.ok THEN One ELSE 0)
      BY Sizes
  <2> HIDE DEF more, r
  <2> QED
      BY <1>2, <2>1, <2>2, Sizes, Times, TimesMonotone
<1>4. given \in Int
    BY <1>1, <1>2, Sizes
<1> HIDE DEF given, more, r
<1>5. admitted'["redis"] * One + r.to.tokens <= Full + given
    BY <1>1, <1>3, <1>4, Sizes
<1>6. hash' = r.to
    BY DEF r
<1>7. r.to.ts <= r.to.expires - ScriptTTL + Fastest /\ r.to.expires - ScriptTTL <= clock
    BY <1>1, <1>2
<1>8. /\ Fastest' = Fastest /\ ScriptTTL' = ScriptTTL
    BY DEF Fastest, ScriptTTL
<1> QED
    BY <1>1, <1>2, <1>5, <1>6, <1>7 DEF SharedHolds, given

LEMMA DecideSharedStep == ASSUME RInv, NEW c \in RlCallers, DecideShared(c) PROVE RInv'
<1> DEFINE r == TokenBucketScript(Now(c))
           answer == [until |-> IF r.ok THEN 0 ELSE clock + RetryAfter(r.missing), alone |-> ~r.ok,
                      right |-> (told[c].alone /\ clock >= told[c].until) => r.ok]
<1>1. /\ hash' = r.to /\ setBack' = setBack + SetBack(c)
      /\ admitted' = (IF r.ok THEN [admitted EXCEPT !["redis"] = @ + 1] ELSE admitted)
      /\ told' = [d \in RlCallers |-> IF d = c THEN answer ELSE [told[d] EXCEPT !.alone = FALSE]]
      /\ UNCHANGED <<clock, entries, lastCleanup, ask, lost, evicted>>
    BY DEF DecideShared
<1>2. /\ r.ok \in BOOLEAN /\ r.missing \in Int
      /\ r.to.tokens \in 0..Full /\ r.to.ts = Now(c) /\ r.to # NoHash
      /\ ~r.ok => r.to.tokens < One /\ r.missing = One - r.to.tokens
    BY ScriptKeepsRate
<1>3. /\ clock \in Nat /\ Skew[c] \in Int /\ hash.tokens \in Int /\ hash.ts \in Int /\ hash.expires \in Int
      /\ told[c] \in Answers /\ Now(c) = clock + Skew[c]
    BY Sizes, RateConstants, FastestIsAhead DEF RInv, RateTypes, Now
\* The wait the script named is long enough.
<1>4. (told[c].alone /\ clock >= told[c].until) => r.ok
  <2>1. SUFFICES ASSUME told[c].alone, clock >= told[c].until PROVE r.ok
      OBVIOUS
  <2> DEFINE missing == One - hash.tokens
             waited == Now(c) - hash.ts
  <2>2. /\ hash # NoHash /\ hash.tokens < One /\ hash.tokens \in 0..Full
        /\ told[c].until = hash.ts - Skew[c] + (missing \div Rate + 1)
      BY <2>1 DEF RInv, AnswersHold, SharedHolds, RetryAfter
  <2>3. /\ missing \in Nat /\ missing \div Rate \in Int /\ missing < Rate * (missing \div Rate) + Rate
        /\ waited \in Int
      BY <1>3, <2>2, Sizes, Divided
  <2>4. waited >= missing \div Rate + 1
      BY <1>3, <2>1, <2>2, <2>3
  <2> HIDE DEF missing
  <2>5. /\ Rate * (missing \div Rate + 1) = Rate * (missing \div Rate) + Rate
        /\ Rate * (missing \div Rate + 1) <= Rate * waited
        /\ Rate * (missing \div Rate) \in Int /\ Rate * waited \in Int
    <3> HIDE DEF waited
    <3> QED
        BY <2>3, <2>4, Sizes, Times, TimesMonotone
  <2>6. missing <= Rate * waited /\ waited > 0
    <3>1. missing \div Rate >= 0
      <4>1. SUFFICES ASSUME missing \div Rate <= -1 PROVE FALSE
          BY <2>3
      <4>2. Rate * (missing \div Rate) <= Rate * (-1) /\ Rate * (-1) = -Rate
          BY <2>3, <4>1, Sizes, TimesMonotone
      <4> QED
          BY <2>3, <2>5, <4>2, Sizes
    <3> HIDE DEF waited
    <3> QED
        BY <2>3, <2>4, <2>5, <3>1, Sizes
  <2>7. CASE clock >= hash.expires
    <3>1. (r.ok <=> Least(Full, Full + Rate * 0) >= One) /\ Rate * 0 = 0
      <4> DEFINE b == [tokens |-> Full, ts |-> Now(c)]
                 since == IF Now(c) > b.ts THEN Now(c) - b.ts ELSE 0
      <4>1. r.ok <=> Least(Full, b.tokens + Rate * since) >= One
          BY <2>7 DEF TokenBucketScript
      <4>2. since = 0
          BY <1>3
      <4> HIDE DEF r, since
      <4> QED
          BY <4>1, <4>2, Sizes
    <3> QED
        BY <3>1, Sizes DEF Least
  <2>8. CASE ~(clock >= hash.expires)
    <3>1. r.ok <=> Least(Full, hash.tokens + Rate * waited) >= One
      <4>1. Now(c) > hash.ts
          BY <1>3, <2>3, <2>6
      <4> QED
          BY <2>2, <2>8, <4>1 DEF TokenBucketScript
    <3> HIDE DEF r, waited
    <3> QED
      <4>1. hash.tokens + Rate * waited >= One
          BY <1>3, <2>5, <2>6, Sizes DEF missing
      <4> QED
          BY <1>3, <2>5, <3>1, <4>1, Sizes DEF Least
  <2> QED
      BY <2>7, <2>8
<1>5. /\ answer \in Answers /\ answer.right /\ answer.alone = ~r.ok
      /\ ~r.ok => answer.until = clock + RetryAfter(r.missing)
  <2>1. ~r.ok => RetryAfter(r.missing) \in Int
      BY <1>2, Sizes, Divided DEF RetryAfter
  <2> DEFINE until == IF r.ok THEN 0 ELSE clock + RetryAfter(r.missing)
  <2>2. until \in Int /\ (~r.ok => until = clock + RetryAfter(r.missing))
    <3> HIDE DEF r
    <3> QED
        BY <1>3, <2>1
  <2>3. answer = [until |-> until, alone |-> ~r.ok, right |-> TRUE]
      BY <1>4
  <2> HIDE DEF until, r, answer
  <2> QED
      BY <1>2, <2>2, <2>3 DEF Answers
<1> HIDE DEF answer, r
<1>6. /\ admitted' \in [LocalKeys \cup {"redis"} -> Nat]
      /\ admitted'["redis"] = admitted["redis"] + (IF r.ok THEN 1 ELSE 0) /\ admitted["redis"] \in Nat
      /\ \A k \in LocalKeys : admitted'[k] = admitted[k]
  <2>1. "redis" \notin LocalKeys
      BY RateConstants DEF LocalKeys, LocalKey
  <2> QED
      BY <1>1, <1>2, <2>1 DEF RInv, RateTypes
<1>7. SharedHolds' /\ setBack' \in Nat /\ hash' \in [tokens : Int, ts : Int, expires : Int]
  <2>1. admitted'["redis"] \in Nat /\ admitted'["redis"] <= admitted["redis"] + (IF r.ok THEN 1 ELSE 0)
      BY <1>6
  <2> QED
      BY <1>1, <2>1, SharedAfterScript DEF r
<1>8. /\ told' \in [RlCallers -> Answers] /\ told'[c] = answer
      /\ \A d \in RlCallers : d # c => ~told'[d].alone /\ told'[d].right = told[d].right
    BY <1>1, <1>5 DEF RInv, RateTypes, Answers
<1>9. RateTypes'
    BY <1>1, <1>6, <1>7, <1>8 DEF RInv, RateTypes
<1>10. AnswersHold'
  <2>1. SUFFICES ASSUME NEW d \in RlCallers
        PROVE  /\ told'[d].right
               /\ told'[d].alone => /\ hash' # NoHash /\ hash'.tokens < One
                                    /\ told'[d].until = hash'.ts - Skew[d] + RetryAfter(One - hash'.tokens)
      BY DEF AnswersHold, RetryAfter, NoHash
  <2>2. CASE d = c
    <3>1. ~r.ok => clock + RetryAfter(r.missing) = r.to.ts - Skew[c] + RetryAfter(One - r.to.tokens)
        BY <1>2, <1>3, Sizes, Divided DEF RetryAfter
    <3> QED
        BY <1>1, <1>2, <1>5, <1>8, <2>2, <3>1
  <2>3. CASE d # c
      BY <1>8, <2>3 DEF RInv, AnswersHold
  <2> QED
      BY <2>2, <2>3
<1> QED
    BY <1>1, <1>6, <1>7, <1>9, <1>10, LocalKept DEF RInv

LEMMA DegradedOpenStep == ASSUME RInv, NEW c \in RlCallers, DegradedOpen(c) PROVE RInv'
<1>1. /\ told' = [d \in RlCallers |-> [told[d] EXCEPT !.alone = FALSE]]
      /\ UNCHANGED <<clock, entries, lastCleanup, ask, admitted, lost, evicted>>
      /\ \/ UNCHANGED <<hash, setBack>>
         \/ hash' = TokenBucketScript(Now(c)).to /\ setBack' = setBack + SetBack(c)
    BY DEF DegradedOpen
<1>2. /\ told' \in [RlCallers -> Answers]
      /\ \A d \in RlCallers : ~told'[d].alone /\ told'[d].right = told[d].right
    BY <1>1 DEF RInv, RateTypes, Answers
<1>3. SharedHolds' /\ setBack' \in Nat /\ hash' \in [tokens : Int, ts : Int, expires : Int]
  <2>1. CASE UNCHANGED <<hash, setBack>>
      BY <1>1, <2>1 DEF RInv, RateTypes, SharedHolds
  <2>2. CASE hash' = TokenBucketScript(Now(c)).to /\ setBack' = setBack + SetBack(c)
    <3>1. /\ admitted'["redis"] \in Nat
          /\ admitted'["redis"] <= admitted["redis"] + (IF TokenBucketScript(Now(c)).ok THEN 1 ELSE 0)
        BY <1>1 DEF RInv, RateTypes
    <3> QED
        BY <1>1, <2>2, <3>1, SharedAfterScript
  <2> QED
      BY <1>1, <2>1, <2>2
<1>4. RateTypes'
    BY <1>1, <1>2, <1>3 DEF RInv, RateTypes
<1>5. AnswersHold'
    BY <1>2 DEF RInv, AnswersHold
<1> QED
    BY <1>1, <1>3, <1>4, <1>5, LocalKept DEF RInv

LEMMA RInvStep == ASSUME RInv, [RateNext]_rlVars PROVE RInv'
<1>1. CASE ClockTick
    BY <1>1, ClockTickStep
<1>2. ASSUME NEW c \in RlCallers, Reserve(c) \/ Cancel(c) PROVE RInv'
    BY <1>2, ReserveStep, CancelStep
<1>3. ASSUME NEW c \in RlCallers, NEW k \in RlKeys, Decide(c, k) PROVE RInv'
    BY <1>3, DecideStep
<1>4. ASSUME NEW c \in RlCallers, DecideShared(c) \/ DegradedOpen(c) PROVE RInv'
    BY <1>4, DecideSharedStep, DegradedOpenStep
<1>5. CASE UNCHANGED rlVars
  <2>1. UNCHANGED <<clock, entries, lastCleanup, hash, ask, admitted, lost, evicted, setBack, told>>
      BY <1>5 DEF rlVars
  <2>2. RateTypes' /\ SharedHolds' /\ AnswersHold'
      BY <2>1 DEF RInv, RateTypes, SharedHolds, AnswersHold
  <2> QED
      BY <2>1, <2>2, LocalKept DEF RInv
<1> QED
    BY <1>1, <1>2, <1>3, <1>4, <1>5 DEF RateNext, LocalNext, SharedNext

\* Both limiters keep the rate they promise, for any number of callers and keys,
\* any rate and burst, and clocks off by anything: what a key is admitted, what
\* Redis admits, what refusing costs, and how long to wait.
THEOREM RateHolds == RateSpec => []RateInv
<1>1. RateInit => RInv
    BY RInvInit
<1>2. RInv /\ [RateNext]_rlVars => RInv'
    BY RInvStep
<1>3. RInv => RateInv
    BY RInvImplies
<1> QED
    BY <1>1, <1>2, <1>3, PTL DEF RateSpec

-----------------------------------------------------------------------------
(* The bucket in Redis from any moment on.                                  *)

\* The bucket is not there, or the next script finds it expired.
Gone == hash = NoHash \/ clock >= hash.expires

Spent == admitted["redis"] * One

\* What can be taken from the bucket stays within K and what the rate gives from
\* now on: a full bucket and what the slowest clock, lag ticks behind the fastest,
\* may make up for once; what the bucket holds at its time; or a new bucket.
Room(K, lag) ==
    \/ Spent + Full + Rate * lag <= K + Rate * (clock + setBack)
    \/ ~Gone /\ Spent + hash.tokens + Rate * (Fastest - hash.ts) <= K + Rate * setBack
    \/ Gone /\ Spent + Full <= K + Rate * (clock + setBack)

LEMMA SharedTyped ==
    ASSUME RInv
    PROVE  /\ clock \in Nat /\ setBack \in Nat /\ admitted["redis"] \in Nat /\ Spent \in Nat
           /\ hash.tokens \in Int /\ hash.ts \in Int /\ hash.expires \in Int
           /\ Fastest \in Int /\ ScriptTTL \in Int /\ ScriptTTL > 0
           /\ hash # NoHash => hash.tokens >= 0 /\ hash.ts <= hash.expires - ScriptTTL + Fastest
                               /\ hash.expires - ScriptTTL <= clock
<1>1. /\ clock \in Nat /\ setBack \in Nat /\ admitted["redis"] \in Nat
      /\ hash.tokens \in Int /\ hash.ts \in Int /\ hash.expires \in Int
    BY Sizes, RateConstants DEF RInv, RateTypes
<1>2. Spent \in Nat
    BY <1>1, Sizes DEF Spent
<1>3. ScriptTTL \in Int /\ Full <= Rate * ScriptTTL /\ Fastest \in Int
    BY ScriptTTLFills, FastestIsAhead
<1>4. ScriptTTL > 0
  <2>1. SUFFICES ASSUME ScriptTTL <= 0 PROVE FALSE
      BY <1>3
  <2>2. Rate * ScriptTTL <= Rate * 0 /\ Rate * 0 = 0 /\ Rate * ScriptTTL \in Int
      BY <1>3, <2>1, Sizes, Times, TimesMonotone
  <2> QED
      BY <1>3, <2>2, Sizes
<1>5. hash # NoHash => hash.tokens >= 0 /\ hash.ts <= hash.expires - ScriptTTL + Fastest
                       /\ hash.expires - ScriptTTL <= clock
    BY Sizes DEF RInv, SharedHolds
<1> QED
    BY <1>1, <1>2, <1>3, <1>4, <1>5

\* What one script takes and leaves: no more than a full bucket, nor than the
\* bucket had and the caller's clock added.
LEMMA ScriptTakes ==
    ASSUME RInv, NEW c \in RlCallers
    PROVE  LET r == TokenBucketScript(Now(c))
               taken == (IF r.ok THEN One ELSE 0) + r.to.tokens
           IN  /\ taken \in Int /\ taken <= Full
               /\ ~Gone => taken <= hash.tokens + Rate * (Now(c) - hash.ts + SetBack(c))
               /\ Gone => Fastest + clock - Now(c) <= SetBack(c)
<1> DEFINE now == Now(c)
           b == IF Gone THEN [tokens |-> Full, ts |-> now] ELSE hash
           since == IF now > b.ts THEN now - b.ts ELSE 0
           have == Least(Full, b.tokens + Rate * since)
           ok == have >= One
           to == [tokens |-> IF ok THEN have - One ELSE have, ts |-> now, expires |-> clock + ScriptTTL]
<1>1. now \in Int
    BY SharedTyped, FastestIsAhead DEF Now
<1>2. b.tokens \in Int /\ b.ts \in Int
    BY <1>1, SharedTyped, Sizes
<1>3. since \in Nat
    BY <1>1, <1>2
<1>4. Rate * since \in Nat
    BY <1>3, Sizes
<1>5. have \in Int /\ have <= Full /\ have <= b.tokens + Rate * since
  <2> HIDE DEF b, since
  <2> QED
      BY <1>2, <1>4, Sizes DEF Least
<1>6. TokenBucketScript(now) = [ok |-> ok, missing |-> One - have, to |-> to]
    BY DEF TokenBucketScript, Gone
<1>7. (IF ok THEN One ELSE 0) + to.tokens = have
  <2> HIDE DEF have
  <2> QED
      BY <1>5, Sizes
<1>8. ASSUME ~Gone PROVE have <= hash.tokens + Rate * (now - hash.ts + SetBack(c))
  <2>1. SetBack(c) = IF now < hash.ts THEN hash.ts - now ELSE 0
      BY <1>8 DEF SetBack, Gone
  <2>2. since = now - hash.ts + SetBack(c) /\ b = hash
      BY <1>1, <1>8, <2>1, SharedTyped
  <2> HIDE DEF have, since, b
  <2> QED
      BY <1>5, <2>2
<1>9. ASSUME Gone PROVE Fastest + clock - now <= SetBack(c)
  <2>1. PICK n : n = now /\ n \in Int
      BY <1>1
  <2>2. n = Now(c) /\ (hash = NoHash \/ clock >= hash.expires)
      BY <1>9, <2>1 DEF Gone
  <2>3. PICK ts : ts = IF hash = NoHash \/ clock >= hash.expires THEN clock + Fastest ELSE hash.ts
      OBVIOUS
  <2> HIDE DEF now
  <2>4. SetBack(c) = IF n < ts THEN ts - n ELSE 0
      BY <2>2, <2>3, Zenon DEF SetBack
  <2>5. ts = clock + Fastest
      BY <2>2, <2>3
  <2> QED
      BY <2>1, <2>4, <2>5, SharedTyped
<1> HIDE DEF have, ok, to
<1> QED
    BY <1>5, <1>6, <1>7, <1>8, <1>9

\* A script keeps the room, if what is admitted is no more than it takes.
LEMMA RoomAfterScript ==
    ASSUME RInv, NEW c \in RlCallers, NEW lag \in Nat, Fastest - Skew[c] <= lag,
           NEW K \in Int, Room(K, lag),
           hash' = TokenBucketScript(Now(c)).to, clock' = clock, setBack' = setBack + SetBack(c),
           admitted'["redis"] \in Nat,
           admitted'["redis"] <= admitted["redis"] + (IF TokenBucketScript(Now(c)).ok THEN 1 ELSE 0)
    PROVE  Room(K, lag)'
<1> PICK r : r = TokenBucketScript(Now(c))
    OBVIOUS
<1> PICK taken : taken = (IF r.ok THEN One ELSE 0) + r.to.tokens
    OBVIOUS
<1> PICK back : back = SetBack(c)
    OBVIOUS
<1> PICK now : now = Now(c)
    OBVIOUS
<1>1. /\ r.ok \in BOOLEAN /\ back \in Nat /\ r.to # NoHash
      /\ r.to.tokens \in 0..Full /\ r.to.ts = now /\ r.to.expires = clock + ScriptTTL
    BY ScriptKeepsRate
<1>2. /\ taken \in Int /\ taken <= Full
      /\ ~Gone => taken <= hash.tokens + Rate * (now - hash.ts + back)
      /\ Gone => Fastest + clock - now <= back
    BY ScriptTakes
<1>3. /\ now \in Int /\ Fastest - now <= lag - clock /\ Fastest' = Fastest
  <2>1. Skew[c] \in Int /\ now = clock + Skew[c]
      BY FastestIsAhead DEF Now
  <2> QED
      BY <2>1, SharedTyped DEF Fastest
<1>4. Spent' \in Int /\ Spent' + r.to.tokens <= Spent + taken
  <2>1. PICK more \in {0, 1} : more = (IF r.ok THEN 1 ELSE 0)
      BY <1>1
  <2>2. One * more = (IF r.ok THEN One ELSE 0)
      BY <2>1, Sizes
  <2>3. admitted'["redis"] <= admitted["redis"] + more
      BY <2>1
  <2>4. /\ One * admitted'["redis"] <= One * (admitted["redis"] + more)
        /\ One * (admitted["redis"] + more) = One * admitted["redis"] + One * more
        /\ admitted'["redis"] * One = One * admitted'["redis"]
        /\ admitted["redis"] * One = One * admitted["redis"]
        /\ One * admitted'["redis"] \in Int /\ One * admitted["redis"] \in Int
      BY <2>1, <2>3, SharedTyped, Sizes, Times, TimesMonotone
  <2> QED
      BY <1>1, <1>2, <2>2, <2>4, Sizes DEF Spent
<1>5. ~Gone'
    BY <1>1, SharedTyped DEF Gone
<1>6. Spent + taken + Rate * (Fastest - now) <= K + Rate * (setBack + back)
  <2>1. /\ Rate * (setBack + back) = Rate * setBack + Rate * back
        /\ Rate * (clock + setBack) = Rate * clock + Rate * setBack
        /\ Rate * setBack \in Int /\ Rate * back \in Int /\ Rate * clock \in Int /\ Rate * lag \in Int
        /\ Rate * (Fastest - now) \in Int /\ Rate * back >= 0
      BY <1>1, <1>3, SharedTyped, Sizes, Times
  <2>2. CASE Spent + Full + Rate * lag <= K + Rate * (clock + setBack)
    <3>1. Rate * (Fastest - now) <= Rate * (lag - clock) /\ Rate * (lag - clock) = Rate * lag - Rate * clock
        BY <1>3, SharedTyped, Sizes, Times, TimesMonotone
    <3> QED
        BY <1>2, <2>1, <2>2, <3>1, SharedTyped, Sizes
  <2>3. CASE ~Gone /\ Spent + hash.tokens + Rate * (Fastest - hash.ts) <= K + Rate * setBack
    <3>1. Rate * (now - hash.ts + back) + Rate * (Fastest - now) = Rate * (Fastest - hash.ts) + Rate * back
      <4>1. /\ now - hash.ts + back \in Int /\ Fastest - now \in Int /\ Fastest - hash.ts \in Int
            /\ (now - hash.ts + back) + (Fastest - now) = (Fastest - hash.ts) + back
          BY <1>1, <1>3, SharedTyped
      <4>2. /\ Rate * ((now - hash.ts + back) + (Fastest - now)) = Rate * (now - hash.ts + back) + Rate * (Fastest - now)
            /\ Rate * ((Fastest - hash.ts) + back) = Rate * (Fastest - hash.ts) + Rate * back
          BY <1>1, <4>1, Sizes, Times
      <4> QED
          BY <4>1, <4>2
    <3>2. Rate * (now - hash.ts + back) \in Int /\ Rate * (Fastest - hash.ts) \in Int
        BY <1>1, <1>3, SharedTyped, Sizes
    <3> QED
        BY <1>2, <2>1, <2>3, <3>1, <3>2, SharedTyped
  <2>4. CASE Gone /\ Spent + Full <= K + Rate * (clock + setBack)
    <3>1. Fastest - now <= back - clock
        BY <1>1, <1>2, <1>3, <2>4, SharedTyped
    <3>2. Rate * (Fastest - now) <= Rate * (back - clock) /\ Rate * (back - clock) = Rate * back - Rate * clock
        BY <1>1, <1>3, <3>1, SharedTyped, Sizes, Times, TimesMonotone
    <3> QED
        BY <1>2, <2>1, <2>4, <3>2, SharedTyped, Sizes
  <2> QED
      BY <2>2, <2>3, <2>4 DEF Room
<1>7. hash'.tokens = r.to.tokens /\ hash'.ts = now /\ setBack' = setBack + back
    BY <1>1
<1>8. Rate * (Fastest - now) \in Int /\ Rate * (setBack + back) \in Int
    BY <1>1, <1>3, SharedTyped, Sizes
<1>9. Spent' + hash'.tokens + Rate * (Fastest' - hash'.ts) <= K + Rate * setBack'
    BY <1>1, <1>2, <1>3, <1>4, <1>6, <1>7, <1>8, SharedTyped
<1> QED
    BY <1>5, <1>9 DEF Room

\* Time: a bucket that expires meanwhile had the time to fill.
LEMMA RoomAfterTick ==
    ASSUME RInv, NEW lag \in Nat, NEW K \in Int, Room(K, lag), ClockTick
    PROVE  Room(K, lag)'
<1>1. clock' = clock + 1 /\ hash' = hash /\ setBack' = setBack /\ Spent' = Spent /\ Fastest' = Fastest
    BY DEF ClockTick, Spent, Fastest
<1>2. /\ Rate * (clock' + setBack') \in Int /\ Rate * (clock + setBack) \in Int
      /\ Rate * (clock + setBack) <= Rate * (clock' + setBack') /\ Rate * lag \in Int
  <2>1. clock + setBack \in Int /\ clock' + setBack' \in Int /\ clock + setBack <= clock' + setBack'
      BY <1>1, SharedTyped
  <2> QED
      BY <2>1, Sizes, TimesMonotone
<1>3. CASE Spent + Full + Rate * lag <= K + Rate * (clock + setBack)
  <2>1. Spent' + Full + Rate * lag <= K + Rate * (clock' + setBack')
      BY <1>1, <1>2, <1>3, SharedTyped, Sizes
  <2> QED
      BY <2>1 DEF Room
<1>4. CASE Gone /\ Spent + Full <= K + Rate * (clock + setBack)
  <2>1. Spent' + Full <= K + Rate * (clock' + setBack')
      BY <1>1, <1>2, <1>4, SharedTyped, Sizes
  <2>2. Gone'
      BY <1>1, <1>4, SharedTyped DEF Gone
  <2> QED
      BY <2>1, <2>2 DEF Room
<1>5. CASE ~Gone /\ Spent + hash.tokens + Rate * (Fastest - hash.ts) <= K + Rate * setBack
  <2>1. CASE ~Gone'
      BY <1>1, <1>5, <2>1 DEF Room
  <2>2. CASE Gone'
    <3>1. hash # NoHash /\ clock' >= hash.expires
        BY <1>1, <1>5, <2>2 DEF Gone
    <3>2. hash.tokens >= 0 /\ hash.ts \in Int /\ ScriptTTL - clock' <= Fastest - hash.ts
        BY <1>1, <3>1, SharedTyped
    <3>3. Rate * (ScriptTTL - clock') <= Rate * (Fastest - hash.ts)
          /\ Rate * (ScriptTTL - clock') = Rate * ScriptTTL - Rate * clock'
        BY <1>1, <3>2, SharedTyped, Sizes, Times, TimesMonotone
    <3>4. /\ Rate * (clock' + setBack') = Rate * clock' + Rate * setBack'
          /\ Rate * clock' \in Int /\ Rate * setBack' \in Int /\ Rate * ScriptTTL \in Int
          /\ Rate * (Fastest - hash.ts) \in Int
        BY <1>1, SharedTyped, Sizes, Times
    <3>5. Spent' + Full <= K + Rate * (clock' + setBack')
        BY <1>1, <1>5, <3>2, <3>3, <3>4, SharedTyped, ScriptTTLFills, Sizes
    <3> QED
        BY <2>2, <3>5 DEF Room
  <2> QED
      BY <2>1, <2>2
<1> QED
    BY <1>3, <1>4, <1>5 DEF Room

LEMMA RoomStep ==
    ASSUME RInv, NEW lag \in Nat, \A c \in RlCallers : Fastest - Skew[c] <= lag,
           NEW K \in Int, Room(K, lag), [RateNext]_rlVars
    PROVE  Room(K, lag)'
<1>1. CASE ClockTick
    BY <1>1, RoomAfterTick
<1>2. ASSUME NEW c \in RlCallers, DecideShared(c) PROVE Room(K, lag)'
  <2>1. /\ hash' = TokenBucketScript(Now(c)).to /\ clock' = clock /\ setBack' = setBack + SetBack(c)
        /\ admitted' = IF TokenBucketScript(Now(c)).ok THEN [admitted EXCEPT !["redis"] = @ + 1] ELSE admitted
      BY <1>2 DEF DecideShared
  <2>2. /\ admitted'["redis"] \in Nat
        /\ admitted'["redis"] <= admitted["redis"] + (IF TokenBucketScript(Now(c)).ok THEN 1 ELSE 0)
    <3>1. admitted \in [LocalKeys \cup {"redis"} -> Nat] /\ admitted["redis"] \in Nat
        BY DEF RInv, RateTypes
    <3>2. CASE TokenBucketScript(Now(c)).ok
        BY <2>1, <3>1, <3>2
    <3>3. CASE ~TokenBucketScript(Now(c)).ok
        BY <2>1, <3>1, <3>3
    <3> QED
        BY <3>2, <3>3
  <2> QED
      BY <2>1, <2>2, RoomAfterScript
<1>3. ASSUME NEW c \in RlCallers, DegradedOpen(c) PROVE Room(K, lag)'
  <2>1. /\ clock' = clock /\ admitted' = admitted
        /\ \/ UNCHANGED <<hash, setBack>>
           \/ hash' = TokenBucketScript(Now(c)).to /\ setBack' = setBack + SetBack(c)
      BY <1>3 DEF DegradedOpen
  <2>2. CASE UNCHANGED <<hash, setBack>>
      BY <2>1, <2>2 DEF Room, Spent, Gone, Fastest
  <2>3. CASE hash' = TokenBucketScript(Now(c)).to /\ setBack' = setBack + SetBack(c)
    <3>1. /\ admitted'["redis"] \in Nat
          /\ admitted'["redis"] <= admitted["redis"] + (IF TokenBucketScript(Now(c)).ok THEN 1 ELSE 0)
        BY <2>1, SharedTyped
    <3> QED
        BY <2>1, <2>3, <3>1, RoomAfterScript
  <2> QED
      BY <2>1, <2>2, <2>3
<1>4. ASSUME UNCHANGED <<clock, hash, setBack>>, admitted'["redis"] = admitted["redis"] PROVE Room(K, lag)'
    BY <1>4 DEF Room, Spent, Gone, Fastest
<1>5. ASSUME NEW c \in RlCallers, Reserve(c) \/ Cancel(c) PROVE Room(K, lag)'
    BY <1>4, <1>5 DEF Reserve, Cancel
<1>6. ASSUME NEW c \in RlCallers, NEW k0 \in RlKeys, Decide(c, k0) PROVE Room(K, lag)'
  <2>1. PICK k \in LocalKeys : admitted' = [admitted EXCEPT ![k] = @ + 1] \/ admitted' = admitted
      BY <1>6 DEF Decide, LocalKeys
  <2>2. k # "redis"
      BY RateConstants DEF LocalKeys, LocalKey
  <2>3. admitted'["redis"] = admitted["redis"]
      BY <2>1, <2>2 DEF RInv, RateTypes
  <2> QED
      BY <1>4, <1>6, <2>3 DEF Decide
<1>7. CASE UNCHANGED rlVars
    BY <1>4, <1>7 DEF rlVars
<1> QED
    BY <1>1, <1>2, <1>3, <1>5, <1>6, <1>7 DEF RateNext, LocalNext, SharedNext

\* What the bucket had admitted, when, and what the clocks had set back by then.
SharedAt(a0, t0, s0) == admitted["redis"] = a0 /\ clock = t0 /\ setBack = s0

SharedWithin(lag, a0, t0, s0) ==
    admitted["redis"] * One <= a0 * One + Full + Rate * ((clock - t0) + (setBack - s0) + lag)

\* In whatever window all callers together look at the Redis bucket, it admits at
\* most a burst and what the rate gives in that time, what clocks set it back in
\* that time, and once what the slowest clock is behind: no state of the bucket,
\* expiry or change of callers gives more.
THEOREM SharedRateInAnyWindow ==
    ASSUME NEW lag \in Nat, \A c \in RlCallers : Fastest - Skew[c] <= lag,
           NEW a0 \in Nat, NEW t0 \in Nat, NEW s0 \in Nat
    PROVE  RateSpec => [](SharedAt(a0, t0, s0) => []SharedWithin(lag, a0, t0, s0))
<1> DEFINE K == a0 * One + Full + Rate * lag - Rate * (t0 + s0)
           W == RInv /\ Room(K, lag)
<1>0. a0 * One \in Int /\ Rate * lag \in Int /\ Rate * (t0 + s0) \in Int /\ K \in Int
    BY Sizes
<1>1. RInv /\ SharedAt(a0, t0, s0) => W
  <2> SUFFICES ASSUME RInv, SharedAt(a0, t0, s0) PROVE Room(K, lag)
      OBVIOUS
  <2>1. Spent = a0 * One /\ Rate * (clock + setBack) = Rate * (t0 + s0)
      BY DEF Spent, SharedAt
  <2>2. Spent + Full + Rate * lag <= K + Rate * (clock + setBack)
      BY <1>0, <2>1, Sizes
  <2> QED
      BY <2>2 DEF Room
<1>2. W /\ [RateNext]_rlVars => W'
  <2> SUFFICES ASSUME W, [RateNext]_rlVars PROVE W'
      OBVIOUS
  <2> HIDE DEF K
  <2>1. RInv' /\ Room(K, lag)'
      BY <1>0, RInvStep, RoomStep
  <2> QED
      BY <2>1 DEF K
<1>3. W => SharedWithin(lag, a0, t0, s0)
  <2> SUFFICES ASSUME W PROVE SharedWithin(lag, a0, t0, s0)
      OBVIOUS
  <2>1. Rate * lag >= 0 /\ Rate * setBack \in Int /\ Rate * clock \in Int
      BY Sizes, SharedTyped
  <2>2. Spent <= K + Rate * (clock + setBack)
    <3>1. Rate * (clock + setBack) \in Int /\ Rate * (clock + setBack) = Rate * clock + Rate * setBack
        BY SharedTyped, Sizes, Times
    <3>2. CASE ~Gone /\ Spent + hash.tokens + Rate * (Fastest - hash.ts) <= K + Rate * setBack
      <4>1. hash # NoHash /\ -clock <= Fastest - hash.ts /\ hash.tokens >= 0
          BY <3>2, SharedTyped DEF Gone
      <4>2. Rate * (-clock) <= Rate * (Fastest - hash.ts) /\ Rate * (-clock) = -(Rate * clock)
            /\ Rate * (Fastest - hash.ts) \in Int
          BY <4>1, SharedTyped, Sizes, Times, TimesMonotone
      <4> HIDE DEF K
      <4> QED
          BY <1>0, <2>1, <3>1, <3>2, <4>1, <4>2, SharedTyped
    <3>3. CASE Spent + Full + Rate * lag <= K + Rate * (clock + setBack)
      <4> HIDE DEF K
      <4> QED
          BY <1>0, <2>1, <3>1, <3>3, Sizes, SharedTyped
    <3>4. CASE Gone /\ Spent + Full <= K + Rate * (clock + setBack)
      <4> HIDE DEF K
      <4> QED
          BY <1>0, <2>1, <3>1, <3>4, Sizes, SharedTyped
    <3> HIDE DEF K
    <3> QED
        BY <3>2, <3>3, <3>4 DEF Room
  <2>3. Rate * ((clock - t0) + (setBack - s0) + lag) = Rate * (clock + setBack) - Rate * (t0 + s0) + Rate * lag
    <3>1. /\ (clock - t0) + (setBack - s0) + lag = ((clock + setBack) - (t0 + s0)) + lag
          /\ clock + setBack \in Int /\ t0 + s0 \in Int /\ (clock + setBack) - (t0 + s0) \in Int
        BY SharedTyped
    <3>2. /\ Rate * (((clock + setBack) - (t0 + s0)) + lag)
               = Rate * ((clock + setBack) - (t0 + s0)) + Rate * lag
          /\ Rate * ((clock + setBack) - (t0 + s0)) = Rate * (clock + setBack) - Rate * (t0 + s0)
        BY <3>1, Sizes, Times
    <3> QED
        BY <3>1, <3>2
  <2>4. Rate * (clock + setBack) \in Int
      BY SharedTyped, Sizes
  <2> QED
      BY <1>0, <2>2, <2>3, <2>4, Sizes, SharedTyped DEF Spent, SharedWithin
<1>4. RateInit => RInv
    BY RInvInit
<1>5. RInv /\ [RateNext]_rlVars => RInv'
    BY RInvStep
<1> HIDE DEF W
<1> QED
    BY <1>1, <1>2, <1>3, <1>4, <1>5, PTL DEF RateSpec

-----------------------------------------------------------------------------
(* Middlewares: every worker has a message of its own; a count that reached *)
(* the maximum has a worker on its way to open the breaker or to reset it.  *)

Pcs == {"idle", "limit", "check", "half 1", "half 2", "run", "failed", "count", "compare",
        "open 1", "open 2", "succeeded", "closed 1", "closed 2", "reset",
        "append", "appending", "flush", "cut", "out"}
Jobs == [pc : Pcs, m : Msgs \cup {"none"}, err : BOOLEAN, n : Nat]
States == {"closed", "open", "half-open"}

ChainTypes ==
    /\ chain \in ChainConfs /\ worker \in [Workers -> Jobs]
    /\ msg \in [Msgs -> {"unsent", "queued", "taken", "acked"}]
    /\ state \in States \X States /\ batch \in Seq(Msgs)
    /\ failures \in Nat /\ fails \in 0..MaxFails /\ raced \in BOOLEAN

\* The bucket is within its capacity, and the credit is what it holds.
BucketHolds == tokens \in 0..chain.capacity /\ credit = tokens

\* The workers with a message, the ones whose failure is not counted yet, and
\* those from which a count that reached the maximum is still to be dealt with.
Running == {w \in Workers : worker[w].pc # "idle"}
Counting == {w \in Workers : worker[w].pc \in {"failed", "count"}}
HotPcs == {"half 1", "half 2", "run", "failed", "count", "compare", "open 1",
           "succeeded", "closed 1", "closed 2", "reset"}

\* A worker that is not idle has a message of its own.
OwnMessage ==
    /\ \A w \in Workers : worker[w].pc # "idle" => worker[w].m \in Msgs /\ msg[worker[w].m] = "taken"
    /\ \A v, w \in Workers :
          (v # w /\ worker[v].pc # "idle" /\ worker[w].pc # "idle") => worker[v].m # worker[w].m

\* Every failure counted, or about to be, was one.
CountBounded ==
    /\ failures + Cardinality(Counting) <= fails
    /\ \A w \in Workers : worker[w].pc = "count" => worker[w].n + Cardinality(Counting) <= fails

\* A count that reached the maximum opens the breaker or is set back: a worker is
\* on its way to do one or the other, or the pointer is written and the length
\* too or next.
OpensOrResets ==
    (chain.breaker /\ failures >= chain.max) =>
        \/ \E w \in Workers : worker[w].pc \in HotPcs
        \/ /\ state[1] = "open"
           /\ state[2] = "open" \/ \E w \in Workers : worker[w].pc = "open 2"

\* Where a message is that may be acknowledged.
InBatch(m) == \E i \in 1..Len(batch) : batch[i] = m
Accounted(m) == m \in handled \cup chain.skipped \cup undone \/ InBatch(m)
Touching == {"appending", "flush", "cut"}

\* What the handler had, and, as long as no two workers met in the batch's code,
\* what becomes of the messages in the batch.
JobAccounted(w) ==
    /\ worker[w].pc \in {"succeeded", "closed 1", "closed 2", "reset"} => worker[w].m \in handled
    /\ worker[w].pc = "appending" => worker[w].n = Len(batch)
    /\ worker[w].pc = "flush" => InBatch(worker[w].m)
    /\ worker[w].pc = "cut" =>
          /\ ~worker[w].err => worker[w].m \in handled
          /\ \A m \in Msgs : InBatch(m) => m \in handled \cup undone \/ (worker[w].err /\ m = worker[w].m)
    /\ (worker[w].pc = "out" /\ ~worker[w].err) => Accounted(worker[w].m)

BatchAccounted ==
    ~raced =>
        /\ \A w \in Workers : JobAccounted(w)
        /\ \A v, w \in Workers : (worker[v].pc \in Touching /\ worker[w].pc \in Touching) => v = w
        /\ \A m \in Msgs : msg[m] = "acked" => Accounted(m)

MInv ==
    /\ ChainTypes /\ BucketHolds /\ OwnMessage /\ AuditBalances
    /\ CountBounded /\ OpensOrResets /\ BatchAccounted

-----------------------------------------------------------------------------
LEMMA WorkersFinite ==
    /\ IsFiniteSet(Running) /\ Cardinality(Running) \in Nat
    /\ IsFiniteSet(Counting) /\ Cardinality(Counting) \in Nat
    /\ IsFiniteSet(InBatchCode) /\ Cardinality(InBatchCode) \in Nat
<1>1. Running \subseteq Workers /\ Counting \subseteq Workers /\ InBatchCode \subseteq Workers
    BY DEF Running, Counting, InBatchCode
<1>2. IsFiniteSet(Workers)
    BY ChainConstants
<1> QED
    BY <1>1, <1>2, FS_Subset, FS_CardinalityType

LEMMA MInvImplies == ASSUME MInv PROVE ChainInv
<1> USE DEF MInv
<1>1. ChainTypeOK
  <2>1. failures <= fails
      BY WorkersFinite DEF CountBounded, ChainTypes
  <2> QED
      BY <2>1, ChainConstants DEF ChainTypeOK, ChainTypes, BucketHolds, States
<1>2. QuietBreakerAgrees
  <2>1. SUFFICES ASSUME chain.breaker, ~Reads("open"), failures >= chain.max,
                        \A w \in Workers : worker[w].pc = "idle"
        PROVE FALSE
    <3>1. chain.max \in Int /\ failures \in Int
        BY ChainConstants DEF ChainTypes
    <3> QED
        BY <3>1 DEF QuietBreakerAgrees
  <2>2. state[1] = "open" /\ state[2] = "open"
      BY <2>1 DEF OpensOrResets, HotPcs
  <2>3. state = <<"open", "open">>
      BY <2>2 DEF ChainTypes
  <2> QED
      BY <2>1, <2>3 DEF Reads
<1>3. AckedIsAccounted
    BY DEF AckedIsAccounted, BatchAccounted, Accounted, InBatch, ChainTypes
<1> QED
    BY <1>1, <1>2, <1>3 DEF ChainInv

LEMMA MInvInit == ASSUME ChainInit PROVE MInv
<1> USE DEF ChainInit
<1>1. ChainTypes /\ BucketHolds
  <2>1. Resting \in Jobs
      BY DEF Resting, Jobs, Pcs
  <2>2. worker \in [Workers -> Jobs]
      BY <2>1
  <2>3. msg \in [Msgs -> {"unsent", "queued", "taken", "acked"}]
      OBVIOUS
  <2>4. batch \in Seq(Msgs) /\ state \in States \X States
      BY EmptySeq DEF States
  <2>5. fails \in 0..MaxFails
      BY ChainConstants
  <2>6. BucketHolds
      BY ChainConstants DEF BucketHolds, FullBucket
  <2> QED
      BY <2>2, <2>3, <2>4, <2>5, <2>6 DEF ChainTypes
<1>2. \A w \in Workers : worker[w] = Resting
    OBVIOUS
<1>3. Running = {} /\ Counting = {}
    BY <1>2 DEF Running, Counting, Resting
<1>4. OwnMessage
    BY <1>2 DEF OwnMessage, Resting
<1>5. AuditBalances /\ CountBounded
  <2>1. Cardinality({}) = 0
      BY FS_EmptySet
  <2>2. \A w \in Workers : worker[w].pc = "idle"
      BY <1>2 DEF Resting
  <2>3. Cardinality(Running) = 0 /\ Cardinality(Counting) = 0
      BY <1>3, <2>1
  <2>4. AuditBalances
      BY <2>3 DEF AuditBalances, Running
  <2> QED
      BY <2>2, <2>3, <2>4 DEF CountBounded
<1>6. OpensOrResets
    BY <1>1, ChainConstants DEF OpensOrResets, ChainTypes
<1>7. BatchAccounted
    BY <1>1, <1>2 DEF BatchAccounted, JobAccounted, Resting, Touching, ChainTypes
<1> QED
    BY <1>1, <1>4, <1>5, <1>6, <1>7 DEF MInv

-----------------------------------------------------------------------------
\* A worker that goes on with its message, or only one that changes its record.
LEMMA Moves ==
    ASSUME ChainTypes, NEW w \in Workers, NEW j \in Jobs, worker' = [worker EXCEPT ![w] = j]
    PROVE  /\ worker' \in [Workers -> Jobs] /\ worker'[w] = j
           /\ \A v \in Workers : v # w => worker'[v] = worker[v]
BY DEF ChainTypes

LEMMA GoesOn ==
    ASSUME MInv, NEW w \in Workers, NEW j \in Jobs, worker' = [worker EXCEPT ![w] = j],
           worker[w].pc # "idle", j.pc # "idle", j.m = worker[w].m, msg' = msg, audit' = audit
    PROVE  OwnMessage' /\ AuditBalances'
<1> USE DEF MInv
<1>1. /\ worker'[w] = j /\ \A v \in Workers : v # w => worker'[v] = worker[v]
    BY Moves
<1>2. OwnMessage'
    BY <1>1 DEF OwnMessage
<1>3. {v \in Workers : worker'[v].pc # "idle"} = {v \in Workers : worker[v].pc # "idle"}
    BY <1>1
<1> QED
    BY <1>2, <1>3 DEF AuditBalances

LEMMA CountKept ==
    ASSUME MInv, NEW w \in Workers, NEW j \in Jobs, worker' = [worker EXCEPT ![w] = j],
           worker[w].pc \notin {"failed", "count"}, j.pc \notin {"failed", "count"},
           failures' = failures \/ failures' = 0, fails' = fails
    PROVE  CountBounded'
<1> USE DEF MInv
<1>1. /\ worker'[w] = j /\ \A v \in Workers : v # w => worker'[v] = worker[v]
    BY Moves
<1>2. Counting' = Counting
    BY <1>1 DEF Counting
<1>3. \A v \in Workers : worker'[v].pc = "count" => worker'[v] = worker[v]
    BY <1>1
<1>4. failures' + Cardinality(Counting) <= fails
    BY WorkersFinite DEF CountBounded, ChainTypes
<1> QED
    BY <1>2, <1>3, <1>4 DEF CountBounded

\* A step of a worker that is not on its way to open or to close the breaker,
\* and does not touch it.
LEMMA BreakerKept ==
    ASSUME MInv, NEW w \in Workers, NEW j \in Jobs, worker' = [worker EXCEPT ![w] = j],
           worker[w].pc \notin HotPcs \cup {"open 2"} \/ j.pc \in HotPcs,
           chain' = chain, state' = state, failures' = failures
    PROVE  OpensOrResets'
<1> USE DEF MInv
<1>1. /\ worker'[w] = j /\ \A v \in Workers : v # w => worker'[v] = worker[v]
    BY Moves
<1> QED
    BY <1>1 DEF OpensOrResets, HotPcs

\* A step outside the batch's code.
LEMMA BatchKept ==
    ASSUME MInv, NEW w \in Workers, NEW j \in Jobs, worker' = [worker EXCEPT ![w] = j],
           j.pc \notin Touching, chain' = chain, msg' = msg, batch' = batch, undone' = undone,
           raced' = raced, handled \subseteq handled',
           j.pc \in {"succeeded", "closed 1", "closed 2", "reset"} => j.m \in handled',
           (j.pc = "out" /\ ~j.err) => j.m \in handled'
    PROVE  BatchAccounted'
<1> USE DEF MInv
<1>1. /\ worker'[w] = j /\ \A v \in Workers : v # w => worker'[v] = worker[v]
    BY Moves
<1>2. SUFFICES ASSUME ~raced
      PROVE  /\ \A v \in Workers : JobAccounted(v)'
             /\ \A v, u \in Workers : (worker'[v].pc \in Touching /\ worker'[u].pc \in Touching) => v = u
             /\ \A m \in Msgs : msg'[m] = "acked" => Accounted(m)'
    BY DEF BatchAccounted
<1>3. \A m : Accounted(m) => Accounted(m)'
    BY DEF Accounted, InBatch
<1>4. \A m : InBatch(m)' = InBatch(m)
    BY DEF InBatch
<1>5. ASSUME NEW v \in Workers PROVE JobAccounted(v)'
  <2>1. CASE v = w
      BY <1>1, <2>1 DEF JobAccounted, Touching, Accounted
  <2>2. CASE v # w
    <3>1. JobAccounted(v) /\ worker'[v] = worker[v]
        BY <1>1, <1>2, <2>2 DEF BatchAccounted
    <3> QED
        BY <3>1, <1>3, <1>4 DEF JobAccounted
  <2> QED
      BY <2>1, <2>2
<1>6. \A v, u \in Workers : (worker'[v].pc \in Touching /\ worker'[u].pc \in Touching) => v = u
    BY <1>1, <1>2 DEF BatchAccounted
<1>7. \A m \in Msgs : msg'[m] = "acked" => Accounted(m)'
    BY <1>2, <1>3 DEF BatchAccounted
<1> QED
    BY <1>5, <1>6, <1>7
-----------------------------------------------------------------------------
\* One lemma for each kind of step.

LEMMA TakeStep == ASSUME MInv, NEW w \in Workers, NEW m \in Msgs, Take(w, m) PROVE MInv'
<1> DEFINE p == IF m \in chain.skipped THEN "out" ELSE "limit"
           j == [Resting EXCEPT !.m = m, !.pc = p]
<1> USE DEF MInv
<1>1. j \in Jobs /\ worker' = [worker EXCEPT ![w] = j]
  <2>1. Resting \in Jobs /\ p \in {"out", "limit"}
      BY DEF Resting, Jobs, Pcs
  <2>2. j \in Jobs
    <3> HIDE DEF p
    <3> QED
        BY <2>1 DEF Jobs, Pcs
  <2> QED
      BY <2>2 DEF Take
<1>0. j.m = m /\ j.pc = (IF m \in chain.skipped THEN "out" ELSE "limit") /\ j.err = FALSE
    BY DEF Resting
<1> HIDE DEF j
<1>2. /\ worker' \in [Workers -> Jobs] /\ worker'[w] = j
      /\ \A v \in Workers : v # w => worker'[v] = worker[v]
    BY <1>1, Moves
<1>3. /\ worker[w].pc = "idle" /\ msg[m] = "queued" /\ msg' = [msg EXCEPT ![m] = "taken"]
      /\ audit' = audit + 1
      /\ UNCHANGED <<chain, tokens, credit, state, failures, cooled, batch, handled, undone, raced, fails, mwCrashes>>
    BY DEF Take, limitVars, breakerVars, batchVars
<1>4. /\ msg' \in [Msgs -> {"unsent", "queued", "taken", "acked"}] /\ msg'[m] = "taken"
      /\ \A x \in Msgs : x # m => msg'[x] = msg[x]
    BY <1>3 DEF ChainTypes
<1>5. ChainTypes' /\ BucketHolds'
    BY <1>0, <1>2, <1>3, <1>4 DEF ChainTypes, BucketHolds
<1>6. OwnMessage'
    BY <1>0, <1>2, <1>3, <1>4 DEF OwnMessage
<1>7. AuditBalances'
  <2>1. Running' = Running \cup {w} /\ w \notin Running
      BY <1>0, <1>2, <1>3 DEF Running
  <2>2. Cardinality(Running') = Cardinality(Running) + 1
      BY <2>1, WorkersFinite, FS_AddElement
  <2> QED
      BY <2>2, <1>3 DEF AuditBalances, Running
<1>8. CountBounded' /\ OpensOrResets'
    BY <1>0, <1>1, <1>3, CountKept, BreakerKept DEF HotPcs
<1>9. BatchAccounted'
  <2>1. SUFFICES ASSUME ~raced
        PROVE  /\ \A v \in Workers : JobAccounted(v)'
               /\ \A v, u \in Workers : (worker'[v].pc \in Touching /\ worker'[u].pc \in Touching) => v = u
               /\ \A x \in Msgs : msg'[x] = "acked" => Accounted(x)'
      BY <1>3 DEF BatchAccounted
  <2>2. \A x : Accounted(x)' = Accounted(x) /\ InBatch(x)' = InBatch(x)
      BY <1>3 DEF Accounted, InBatch
  <2>3. ASSUME NEW v \in Workers PROVE JobAccounted(v)'
    <3>1. CASE v = w
      <4>1. worker'[v].m = m /\ worker'[v].pc \in {"out", "limit"}
          BY <1>0, <1>2, <3>1
      <4>2. worker'[v].pc = "out" => m \in chain'.skipped
          BY <1>0, <1>2, <1>3, <3>1
      <4> QED
          BY <4>1, <4>2 DEF JobAccounted, Accounted
    <3>2. CASE v # w
      <4>1. JobAccounted(v) /\ worker'[v] = worker[v]
          BY <1>0, <1>2, <2>1, <3>2 DEF BatchAccounted
      <4> QED
          BY <4>1, <2>2, <1>3 DEF JobAccounted
    <3> QED
        BY <3>1, <3>2
  <2>4. \A v, u \in Workers : (worker'[v].pc \in Touching /\ worker'[u].pc \in Touching) => v = u
      BY <1>0, <1>2, <2>1 DEF BatchAccounted, Touching
  <2>5. \A x \in Msgs : msg'[x] = "acked" => Accounted(x)'
      BY <1>4, <2>1, <2>2 DEF BatchAccounted
  <2> QED
      BY <2>3, <2>4, <2>5
<1> QED
    BY <1>5, <1>6, <1>7, <1>8, <1>9

LEMMA OutStep == ASSUME MInv, NEW w \in Workers, Out(w) PROVE MInv'
<1> DEFINE m == worker[w].m
<1> USE DEF MInv
<1>1. Resting \in Jobs /\ worker' = [worker EXCEPT ![w] = Resting]
    BY DEF Out, Resting, Jobs, Pcs
<1>2. /\ worker' \in [Workers -> Jobs] /\ worker'[w] = Resting
      /\ \A v \in Workers : v # w => worker'[v] = worker[v]
    BY <1>1, Moves
<1>3. /\ worker[w].pc = "out" /\ audit' = audit - 1
      /\ msg' = [msg EXCEPT ![m] = IF worker[w].err THEN "queued" ELSE "acked"]
      /\ UNCHANGED <<chain, tokens, credit, state, failures, cooled, batch, handled, undone, raced, fails, mwCrashes>>
    BY DEF Out, limitVars, breakerVars, batchVars
<1>4. m \in Msgs /\ msg[m] = "taken"
    BY <1>3 DEF OwnMessage
<1>5. /\ msg' \in [Msgs -> {"unsent", "queued", "taken", "acked"}]
      /\ msg'[m] = IF worker[w].err THEN "queued" ELSE "acked"
      /\ \A x \in Msgs : x # m => msg'[x] = msg[x]
    BY <1>3, <1>4 DEF ChainTypes
<1>6. ChainTypes' /\ BucketHolds'
    BY <1>2, <1>3, <1>5 DEF ChainTypes, BucketHolds
<1>7. Resting.pc = "idle"
    BY DEF Resting
<1>8. OwnMessage'
    BY <1>2, <1>3, <1>5, <1>7 DEF OwnMessage
<1>9. AuditBalances'
  <2>1. Running' = Running \ {w} /\ w \in Running
      BY <1>2, <1>3, <1>7 DEF Running
  <2>2. Cardinality(Running') = Cardinality(Running) - 1
      BY <2>1, WorkersFinite, FS_RemoveElement
  <2> QED
      BY <2>2, <1>3 DEF AuditBalances, Running
<1>10. CountBounded' /\ OpensOrResets'
    BY <1>1, <1>3, <1>7, CountKept, BreakerKept DEF HotPcs
<1>11. BatchAccounted'
  <2>1. SUFFICES ASSUME ~raced
        PROVE  /\ \A v \in Workers : JobAccounted(v)'
               /\ \A v, u \in Workers : (worker'[v].pc \in Touching /\ worker'[u].pc \in Touching) => v = u
               /\ \A x \in Msgs : msg'[x] = "acked" => Accounted(x)'
      BY <1>3 DEF BatchAccounted
  <2>2. \A x : Accounted(x)' = Accounted(x) /\ InBatch(x)' = InBatch(x)
      BY <1>3 DEF Accounted, InBatch
  <2>3. ASSUME NEW v \in Workers PROVE JobAccounted(v)'
    <3>1. CASE v = w
        BY <1>2, <1>7, <3>1 DEF JobAccounted
    <3>2. CASE v # w
      <4>1. JobAccounted(v) /\ worker'[v] = worker[v]
          BY <1>2, <2>1, <3>2 DEF BatchAccounted
      <4> QED
          BY <4>1, <2>2, <1>3 DEF JobAccounted
    <3> QED
        BY <3>1, <3>2
  <2>4. \A v, u \in Workers : (worker'[v].pc \in Touching /\ worker'[u].pc \in Touching) => v = u
      BY <1>2, <1>7, <2>1 DEF BatchAccounted, Touching
  <2>5. ~worker[w].err => Accounted(m)
      BY <1>3, <2>1 DEF BatchAccounted, JobAccounted
  <2>6. \A x \in Msgs : msg'[x] = "acked" => Accounted(x)'
      BY <1>5, <2>1, <2>2, <2>5 DEF BatchAccounted
  <2> QED
      BY <2>3, <2>4, <2>6
<1> QED
    BY <1>6, <1>8, <1>9, <1>10, <1>11

\* A step of one worker that leaves the breaker, the counts and the batch alone.
LEMMA QuietStep ==
    ASSUME MInv, NEW w \in Workers, NEW j \in Jobs, worker' = [worker EXCEPT ![w] = j],
           worker[w].pc # "idle", j.pc # "idle", j.m = worker[w].m,
           worker[w].pc \notin {"failed", "count"}, j.pc \notin {"failed", "count"},
           worker[w].pc \notin HotPcs \cup {"open 2"} \/ j.pc \in HotPcs,
           j.pc \notin Touching, handled \subseteq handled',
           j.pc \in {"succeeded", "closed 1", "closed 2", "reset"} => j.m \in handled',
           (j.pc = "out" /\ ~j.err) => j.m \in handled',
           UNCHANGED <<chain, msg, state, failures, batch, undone, raced, audit, fails>>,
           BucketHolds'
    PROVE  MInv'
<1>1. worker' \in [Workers -> Jobs]
    BY Moves DEF MInv
<1>2. ChainTypes'
    BY <1>1 DEF ChainTypes, MInv
<1>3. OwnMessage' /\ AuditBalances'
    BY GoesOn
<1>4. CountBounded'
    BY CountKept
<1>5. OpensOrResets'
    BY BreakerKept
<1>6. BatchAccounted'
    BY BatchKept
<1> QED
    BY <1>2, <1>3, <1>4, <1>5, <1>6 DEF MInv

LEMMA RateLimitStep == ASSUME MInv, NEW w \in Workers, RateLimit(w) PROVE MInv'
<1>1. worker[w] \in Jobs /\ worker[w].pc = "limit"
    BY DEF MInv, ChainTypes, RateLimit
<1>2. /\ UNCHANGED <<chain, msg, state, failures, batch, handled, undone, raced, audit, fails>>
      /\ chain.capacity \in Nat
    BY ChainConstants DEF RateLimit, breakerVars, batchVars, MInv, ChainTypes
<1>3. CASE chain.mode # "none" /\ tokens = 0
  <2> DEFINE j == [worker[w] EXCEPT !.pc = "out", !.err = TRUE]
  <2>1. worker' = [worker EXCEPT ![w] = j] /\ UNCHANGED <<tokens, credit>>
      BY <1>3 DEF RateLimit, Fail, limitVars, MInv, ChainTypes
  <2>2. /\ j \in Jobs /\ j.pc = "out" /\ j.err /\ j.m = worker[w].m
      BY <1>1 DEF Jobs, Pcs
  <2>3. BucketHolds'
      BY <1>2, <2>1 DEF MInv, BucketHolds
  <2> QED
      BY <1>1, <1>2, <2>1, <2>2, <2>3, QuietStep DEF HotPcs, Touching
<1>4. CASE ~(chain.mode # "none" /\ tokens = 0)
  <2> DEFINE j == [worker[w] EXCEPT !.pc = IF chain.batch > 0 THEN "append" ELSE "check"]
  <2>1. /\ worker' = [worker EXCEPT ![w] = j]
        /\ IF chain.mode = "none" THEN UNCHANGED limitVars ELSE TakeToken
      BY <1>4 DEF RateLimit, Go
  <2>2. /\ j \in Jobs /\ j.pc \in {"append", "check"} /\ j.m = worker[w].m
      BY <1>1 DEF Jobs, Pcs
  <2>3. BucketHolds'
      BY <1>2, <1>4, <2>1 DEF MInv, BucketHolds, TakeToken, limitVars
  <2> QED
      BY <1>1, <1>2, <2>1, <2>2, <2>3, QuietStep DEF HotPcs, Touching
<1> QED
    BY <1>3, <1>4

LEMMA CheckStep == ASSUME MInv, NEW w \in Workers, Check(w) PROVE MInv'
<1>1. worker[w] \in Jobs /\ worker[w].pc = "check"
    BY DEF MInv, ChainTypes, Check
<1>2. UNCHANGED <<chain, msg, state, failures, batch, handled, undone, raced, audit, fails, tokens, credit>>
    BY DEF Check, breakerVars, batchVars, limitVars
<1>3. BucketHolds'
    BY <1>2 DEF MInv, BucketHolds
<1>4. PICK j : /\ worker' = [worker EXCEPT ![w] = j]
               /\ \/ j = [worker[w] EXCEPT !.pc = "half 1"] \/ j = [worker[w] EXCEPT !.pc = "run"]
                  \/ j = [worker[w] EXCEPT !.pc = "out", !.err = TRUE]
    BY DEF Check, Go, Fail
<1>5. /\ j \in Jobs /\ j.pc \in {"half 1", "run", "out"} /\ j.m = worker[w].m /\ (j.pc = "out" => j.err)
    BY <1>1, <1>4 DEF Jobs, Pcs
<1> QED
    BY <1>1, <1>2, <1>3, <1>4, <1>5, QuietStep DEF HotPcs, Touching

LEMMA CompareStep == ASSUME MInv, NEW w \in Workers, Compare(w) PROVE MInv'
<1>1. worker[w] \in Jobs /\ worker[w].pc = "compare"
    BY DEF MInv, ChainTypes, Compare
<1>2. UNCHANGED <<chain, msg, state, failures, batch, handled, undone, raced, audit, fails, tokens, credit>>
    BY DEF Compare, breakerVars, batchVars, limitVars
<1>3. BucketHolds'
    BY <1>2 DEF MInv, BucketHolds
<1>4. CASE failures >= chain.max
  <2> DEFINE j == [worker[w] EXCEPT !.pc = "open 1"]
  <2>1. worker' = [worker EXCEPT ![w] = j]
      BY <1>4 DEF Compare, Go
  <2>2. /\ j \in Jobs /\ j.pc = "open 1" /\ j.m = worker[w].m
      BY <1>1 DEF Jobs, Pcs
  <2> QED
      BY <1>1, <1>2, <1>3, <2>1, <2>2, QuietStep DEF HotPcs, Touching
<1>5. CASE ~(failures >= chain.max)
  <2> DEFINE j == [worker[w] EXCEPT !.pc = "out", !.err = TRUE]
  <2>1. worker' = [worker EXCEPT ![w] = j]
      BY <1>5 DEF Compare, Fail, MInv, ChainTypes
  <2>2. /\ j \in Jobs /\ j.pc = "out" /\ j.err /\ j.m = worker[w].m
      BY <1>1 DEF Jobs, Pcs
  <2>3. ChainTypes'
      BY <1>2, <2>1, <2>2, Moves DEF MInv, ChainTypes
  <2>4. OpensOrResets'
      BY <1>2, <1>5 DEF OpensOrResets
  <2>5. OwnMessage' /\ AuditBalances' /\ CountBounded'
      BY <1>1, <1>2, <2>1, <2>2, GoesOn, CountKept
  <2>6. BatchAccounted'
      BY <1>1, <1>2, <2>1, <2>2, BatchKept DEF Touching
  <2> QED
      BY <1>3, <2>3, <2>4, <2>5, <2>6 DEF MInv
<1> QED
    BY <1>4, <1>5
LEMMA SucceededStep == ASSUME MInv, NEW w \in Workers, Succeeded(w) PROVE MInv'
<1> DEFINE p == IF Reads("half-open") THEN "closed 1" ELSE "reset"
           j == [worker[w] EXCEPT !.pc = p]
<1>1. worker[w] \in Jobs /\ worker[w].pc = "succeeded" /\ p \in {"closed 1", "reset"}
    BY DEF MInv, ChainTypes, Succeeded
<1>2. UNCHANGED <<chain, msg, state, failures, batch, handled, undone, raced, audit, fails, tokens, credit>>
    BY DEF Succeeded, breakerVars, batchVars, limitVars
<1>3. worker' = [worker EXCEPT ![w] = j]
    BY DEF Succeeded, Go
<1> HIDE DEF p
<1>4. BucketHolds'
    BY <1>2 DEF MInv, BucketHolds
<1>5. j \in Jobs /\ j.pc = p /\ j.m = worker[w].m
    BY <1>1 DEF Jobs, Pcs
<1>6. CASE raced
  <2>1. ChainTypes'
      BY <1>2, <1>3, <1>5, Moves DEF MInv, ChainTypes
  <2>2. OwnMessage' /\ AuditBalances' /\ CountBounded' /\ OpensOrResets'
      BY <1>1, <1>2, <1>3, <1>5, GoesOn, CountKept, BreakerKept DEF HotPcs
  <2> QED
      BY <1>2, <1>4, <1>6, <2>1, <2>2 DEF MInv, BatchAccounted
<1>7. CASE ~raced
  <2>1. worker[w].m \in handled
      BY <1>1, <1>7 DEF MInv, BatchAccounted, JobAccounted
  <2> HIDE DEF j
  <2> QED
      BY <1>1, <1>2, <1>3, <1>4, <1>5, <2>1, QuietStep DEF HotPcs, Touching
<1> QED
    BY <1>6, <1>7

\* The handler's answer.
LEMMA RunStep == ASSUME MInv, NEW w \in Workers, NEW ok \in BOOLEAN, Run(w, ok) PROVE MInv'
<1>1. worker[w] \in Jobs /\ worker[w].pc = "run" /\ worker[w].m \in Msgs
    BY DEF MInv, ChainTypes, Run, OwnMessage
<1>2. /\ UNCHANGED <<chain, msg, state, failures, batch, undone, raced, audit, tokens, credit>>
      /\ handled' = (IF ok THEN handled \cup {worker[w].m} ELSE handled)
      /\ fails' = (IF ok THEN fails ELSE fails + 1) /\ (ok \/ fails < MaxFails)
    BY DEF Run, breakerVars, limitVars
<1>3. BucketHolds'
    BY <1>2 DEF MInv, BucketHolds
<1>4. PICK j : /\ worker' = [worker EXCEPT ![w] = j]
               /\ \/ ok /\ ~chain.breaker /\ j = [worker[w] EXCEPT !.pc = "out"]
                  \/ ~ok /\ ~chain.breaker /\ j = [worker[w] EXCEPT !.pc = "out", !.err = TRUE]
                  \/ ok /\ chain.breaker /\ j = [worker[w] EXCEPT !.pc = "succeeded"]
                  \/ ~ok /\ chain.breaker /\ j = [worker[w] EXCEPT !.pc = "failed"]
    BY DEF Run, Go, Fail
<1>5. /\ j \in Jobs /\ j.m = worker[w].m
      /\ j.pc = (IF ~chain.breaker THEN "out" ELSE IF ok THEN "succeeded" ELSE "failed")
      /\ (j.pc = "out" /\ ~j.err) => ok
    BY <1>1, <1>4 DEF Jobs, Pcs
<1>6. worker' \in [Workers -> Jobs] /\ worker'[w] = j /\ \A v \in Workers : v # w => worker'[v] = worker[v]
    BY <1>4, <1>5, Moves DEF MInv
<1>7. ChainTypes'
    BY <1>2, <1>6, ChainConstants DEF MInv, ChainTypes
<1>8. OwnMessage' /\ AuditBalances'
    BY <1>1, <1>2, <1>4, <1>5, GoesOn
<1>9. OpensOrResets'
  <2>1. CASE chain.breaker
      BY <1>1, <1>2, <1>4, <1>5, <2>1, BreakerKept DEF HotPcs
  <2>2. CASE ~chain.breaker
      BY <1>2, <2>2 DEF OpensOrResets
  <2> QED
      BY <2>1, <2>2
<1>10. BatchAccounted'
    BY <1>1, <1>2, <1>4, <1>5, BatchKept DEF Touching
<1>11. CountBounded'
  <2>1. CASE j.pc # "failed"
    <3>1. Counting' = Counting
        BY <1>1, <1>5, <1>6, <2>1 DEF Counting
    <3>2. \A v \in Workers : worker'[v].pc = "count" => worker'[v] = worker[v]
        BY <1>5, <1>6
    <3>3. fails' >= fails /\ fails \in Nat /\ fails' \in Nat /\ failures \in Nat
        BY <1>2, ChainConstants DEF MInv, ChainTypes
    <3>4. \A v \in Workers : worker[v].n \in Nat
        BY DEF MInv, ChainTypes, Jobs
    <3>5. failures + Cardinality(Counting) <= fails'
        BY <3>3, WorkersFinite DEF MInv, CountBounded
    <3>6. \A v \in Workers : worker[v].pc = "count" => worker[v].n + Cardinality(Counting) <= fails'
        BY <3>3, <3>4, WorkersFinite DEF MInv, CountBounded
    <3> QED
        BY <1>2, <3>1, <3>2, <3>5, <3>6 DEF CountBounded
  <2>2. CASE j.pc = "failed"
    <3>1. fails' = fails + 1 /\ fails \in Nat /\ failures \in Nat /\ failures' = failures
        BY <1>2, <1>5, <2>2 DEF MInv, ChainTypes
    <3>2. Counting' = Counting \cup {w} /\ w \notin Counting
        BY <1>1, <1>6, <2>2 DEF Counting
    <3>3. Cardinality(Counting') = Cardinality(Counting) + 1
        BY <3>2, WorkersFinite, FS_AddElement
    <3>4. \A v \in Workers : worker'[v].pc = "count" => worker'[v] = worker[v]
        BY <1>6, <2>2
    <3>5. \A v \in Workers : worker[v].n \in Nat
        BY DEF MInv, ChainTypes, Jobs
    <3>6. failures + (Cardinality(Counting) + 1) <= fails + 1
        BY <3>1, WorkersFinite DEF MInv, CountBounded
    <3>7. \A v \in Workers : worker[v].pc = "count" => worker[v].n + (Cardinality(Counting) + 1) <= fails + 1
        BY <3>1, <3>5, WorkersFinite DEF MInv, CountBounded
    <3> QED
        BY <3>1, <3>3, <3>4, <3>6, <3>7 DEF CountBounded
  <2> QED
      BY <2>1, <2>2
<1> QED
    BY <1>3, <1>7, <1>8, <1>9, <1>10, <1>11 DEF MInv

LEMMA CountReadStep == ASSUME MInv, NEW w \in Workers, CountRead(w) PROVE MInv'
<1> DEFINE j == [worker[w] EXCEPT !.pc = "count", !.n = failures]
<1>1. worker[w] \in Jobs /\ worker[w].pc = "failed" /\ failures \in Nat
    BY DEF MInv, ChainTypes, CountRead
<1>2. UNCHANGED <<chain, msg, state, failures, batch, handled, undone, raced, audit, fails, tokens, credit>>
    BY DEF CountRead, breakerVars, batchVars, limitVars
<1>3. worker' = [worker EXCEPT ![w] = j]
    BY DEF CountRead
<1>4. j \in Jobs /\ j.pc = "count" /\ j.n = failures /\ j.m = worker[w].m
    BY <1>1 DEF Jobs, Pcs
<1> HIDE DEF j
<1>5. worker' \in [Workers -> Jobs] /\ worker'[w] = j /\ \A v \in Workers : v # w => worker'[v] = worker[v]
    BY <1>3, <1>4, Moves DEF MInv
<1>6. ChainTypes' /\ BucketHolds'
    BY <1>2, <1>5 DEF MInv, ChainTypes, BucketHolds
<1>7. OwnMessage' /\ AuditBalances' /\ OpensOrResets'
    BY <1>1, <1>2, <1>3, <1>4, GoesOn, BreakerKept DEF HotPcs
<1>8. BatchAccounted'
    BY <1>1, <1>2, <1>3, <1>4, BatchKept DEF Touching
<1>9. CountBounded'
  <2>1. Counting' = Counting
      BY <1>1, <1>4, <1>5 DEF Counting
  <2>2. failures + Cardinality(Counting) <= fails
      BY DEF MInv, CountBounded
  <2> QED
      BY <1>2, <1>4, <1>5, <2>1, <2>2 DEF MInv, CountBounded
<1> QED
    BY <1>6, <1>7, <1>8, <1>9 DEF MInv

LEMMA CountWriteStep == ASSUME MInv, NEW w \in Workers, CountWrite(w) PROVE MInv'
<1> DEFINE j == [worker[w] EXCEPT !.pc = "compare"]
<1>1. worker[w] \in Jobs /\ worker[w].pc = "count" /\ worker[w].n \in Nat
    BY DEF MInv, ChainTypes, CountWrite, Jobs
<1>2. /\ UNCHANGED <<chain, msg, state, batch, handled, undone, raced, audit, fails, tokens, credit>>
      /\ failures' = worker[w].n + 1
    BY DEF CountWrite, batchVars, limitVars
<1>3. worker' = [worker EXCEPT ![w] = j]
    BY DEF CountWrite, Go
<1>4. j \in Jobs /\ j.pc = "compare" /\ j.m = worker[w].m
    BY <1>1 DEF Jobs, Pcs
<1> HIDE DEF j
<1>5. worker' \in [Workers -> Jobs] /\ worker'[w] = j /\ \A v \in Workers : v # w => worker'[v] = worker[v]
    BY <1>3, <1>4, Moves DEF MInv
<1>6. ChainTypes' /\ BucketHolds'
    BY <1>1, <1>2, <1>5 DEF MInv, ChainTypes, BucketHolds
<1>7. OwnMessage' /\ AuditBalances'
    BY <1>1, <1>2, <1>3, <1>4, GoesOn
<1>8. BatchAccounted'
    BY <1>1, <1>2, <1>3, <1>4, BatchKept DEF Touching
<1>9. OpensOrResets'
    BY <1>4, <1>5 DEF OpensOrResets, HotPcs
<1>10. CountBounded'
  <2>1. Counting' = Counting \ {w} /\ w \in Counting
      BY <1>1, <1>4, <1>5 DEF Counting
  <2>2. Cardinality(Counting') = Cardinality(Counting) - 1
      BY <2>1, WorkersFinite, FS_RemoveElement
  <2>3. worker[w].n + Cardinality(Counting) <= fails /\ fails \in Nat
      BY <1>1 DEF MInv, CountBounded, ChainTypes
  <2>4. failures' + (Cardinality(Counting) - 1) <= fails
      BY <1>1, <1>2, <2>3, WorkersFinite
  <2>5. ASSUME NEW v \in Workers, worker'[v].pc = "count"
        PROVE  worker'[v].n + (Cardinality(Counting) - 1) <= fails
    <3>1. worker'[v] = worker[v] /\ worker[v].n \in Nat
        BY <1>4, <1>5, <2>5 DEF MInv, ChainTypes, Jobs
    <3>2. worker[v].n + Cardinality(Counting) <= fails
        BY <2>5, <3>1 DEF MInv, CountBounded
    <3> QED
        BY <2>3, <3>1, <3>2, WorkersFinite
  <2> QED
      BY <1>2, <2>2, <2>4, <2>5 DEF CountBounded
<1> QED
    BY <1>6, <1>7, <1>8, <1>9, <1>10 DEF MInv

\* The count starts again.
LEMMA ResetStep == ASSUME MInv, NEW w \in Workers, Reset(w) PROVE MInv'
<1> DEFINE j == [worker[w] EXCEPT !.pc = "out"]
<1>1. worker[w] \in Jobs /\ worker[w].pc = "reset"
    BY DEF MInv, ChainTypes, Reset
<1>2. /\ UNCHANGED <<chain, msg, state, batch, handled, undone, raced, audit, fails, tokens, credit>>
      /\ failures' = 0
    BY DEF Reset, batchVars, limitVars
<1>3. worker' = [worker EXCEPT ![w] = j]
    BY DEF Reset, Go
<1>4. j \in Jobs /\ j.pc = "out" /\ j.m = worker[w].m
    BY <1>1 DEF Jobs, Pcs
<1> HIDE DEF j
<1>5. worker' \in [Workers -> Jobs] /\ worker'[w] = j /\ \A v \in Workers : v # w => worker'[v] = worker[v]
    BY <1>3, <1>4, Moves DEF MInv
<1>6. ChainTypes' /\ BucketHolds'
    BY <1>1, <1>2, <1>5 DEF MInv, ChainTypes, BucketHolds
<1>7. OwnMessage' /\ AuditBalances' /\ CountBounded'
    BY <1>1, <1>2, <1>3, <1>4, GoesOn, CountKept
<1>8. OpensOrResets'
  <2>1. SUFFICES ASSUME chain.breaker PROVE ~(failures' >= chain.max)
      BY <1>2 DEF OpensOrResets
  <2>2. chain.max \in Int /\ chain.max > 0
      BY <2>1, ChainConstants DEF MInv, ChainTypes
  <2> QED
      BY <1>2, <2>2
<1>9. CASE raced
    BY <1>2, <1>6, <1>7, <1>8, <1>9 DEF MInv, BatchAccounted
<1>10. CASE ~raced
  <2>1. worker[w].m \in handled
      BY <1>1, <1>10 DEF MInv, BatchAccounted, JobAccounted
  <2>2. BatchAccounted'
      BY <1>1, <1>2, <1>3, <1>4, <2>1, BatchKept DEF Touching
  <2> QED
      BY <1>6, <1>7, <1>8, <2>2 DEF MInv
<1> QED
    BY <1>9, <1>10

\* One of the two words of an assignment to the breaker's state.
LEMMA AssignWord ==
    ASSUME MInv, NEW w \in Workers, NEW j \in Jobs, worker' = [worker EXCEPT ![w] = j], j.m = worker[w].m,
           state' \in States \X States,
           \/ worker[w].pc = "half 1" /\ j.pc = "half 2"
           \/ worker[w].pc = "half 2" /\ j.pc = "run"
           \/ worker[w].pc = "closed 1" /\ j.pc = "closed 2"
           \/ worker[w].pc = "closed 2" /\ j.pc = "reset"
           \/ worker[w].pc = "open 1" /\ j.pc = "open 2" /\ state'[1] = "open"
           \/ worker[w].pc = "open 2" /\ j.pc = "out" /\ j.err /\ state'[1] = state[1] /\ state'[2] = "open",
           UNCHANGED <<chain, msg, limitVars, failures, cooled, batchVars, audit, fails, mwCrashes>>
    PROVE  MInv'
<1>1. worker[w] \in Jobs
    BY DEF MInv, ChainTypes
<1>2. UNCHANGED <<chain, msg, failures, batch, handled, undone, raced, audit, fails, tokens, credit>>
    BY DEF limitVars, batchVars
<1>3. worker' \in [Workers -> Jobs] /\ worker'[w] = j /\ \A v \in Workers : v # w => worker'[v] = worker[v]
    BY Moves DEF MInv
<1>4. ChainTypes' /\ BucketHolds'
    BY <1>2, <1>3 DEF MInv, ChainTypes, BucketHolds
<1>5. OwnMessage' /\ AuditBalances' /\ CountBounded'
    BY <1>2, GoesOn, CountKept
<1>6. BatchAccounted'
  <2>1. CASE raced
      BY <1>2, <2>1 DEF BatchAccounted
  <2>2. CASE ~raced
    <3>1. j.pc \in {"succeeded", "closed 1", "closed 2", "reset"} => j.m \in handled
        BY <2>2 DEF MInv, BatchAccounted, JobAccounted
    <3>2. j.pc \notin Touching /\ ~(j.pc = "out" /\ ~j.err)
        BY DEF Touching
    <3> QED
        BY <1>2, <3>1, <3>2, BatchKept
  <2> QED
      BY <2>1, <2>2
<1>7. OpensOrResets'
  <2>1. CASE j.pc \in HotPcs
      BY <1>3, <2>1 DEF OpensOrResets
  <2>2. CASE j.pc = "open 2"
      BY <1>3, <2>2 DEF OpensOrResets
  <2>3. CASE j.pc = "out"
    <3>1. SUFFICES ASSUME chain.breaker, failures >= chain.max
          PROVE  (\E v \in Workers : worker'[v].pc \in HotPcs) \/ (state'[1] = "open" /\ state'[2] = "open")
        BY <1>2 DEF OpensOrResets
    <3>2. state'[1] = state[1] /\ state'[2] = "open" /\ worker[w].pc = "open 2"
        BY <2>3
    <3>3. CASE \E v \in Workers : worker[v].pc \in HotPcs
        BY <1>3, <3>2, <3>3 DEF HotPcs
    <3>4. CASE state[1] = "open"
        BY <3>2, <3>4
    <3> QED
        BY <3>1, <3>3, <3>4 DEF MInv, OpensOrResets
  <2> QED
      BY <2>1, <2>2, <2>3 DEF HotPcs
<1> QED
    BY <1>4, <1>5, <1>6, <1>7 DEF MInv

LEMMA AssignStep == ASSUME MInv, NEW w \in Workers, Assign(w) PROVE MInv'
<1>1. worker[w] \in Jobs /\ state[1] \in States /\ state[2] \in States
    BY DEF MInv, ChainTypes
<1>2. CASE Assigns(w, "half 1", "half 2", "half-open", "run")
  <2>1. UNCHANGED <<chain, msg, limitVars, failures, cooled, batchVars, audit, fails, mwCrashes>>
      BY <1>2 DEF Assigns
  <2>2. CASE worker[w].pc = "half 1" /\ state' = <<"half-open", state[2]>> /\ Go(w, "half 2")
    <3> DEFINE j == [worker[w] EXCEPT !.pc = "half 2"]
    <3>1. j \in Jobs /\ j.pc = "half 2" /\ j.m = worker[w].m
        BY <1>1 DEF Jobs, Pcs
    <3>2. worker' = [worker EXCEPT ![w] = j]
        BY <2>2 DEF Go
    <3>3. state' \in States \X States /\ state'[1] = "half-open"
        BY <1>1, <2>2 DEF States
    <3> HIDE DEF j
    <3> QED
        BY <2>1, <2>2, <3>1, <3>2, <3>3, AssignWord
  <2>3. CASE worker[w].pc = "half 2" /\ state' = <<state[1], "half-open">> /\ Go(w, "run")
    <3> DEFINE j == [worker[w] EXCEPT !.pc = "run"]
    <3>1. j \in Jobs /\ j.pc = "run" /\ j.m = worker[w].m
        BY <1>1 DEF Jobs, Pcs
    <3>2. worker' = [worker EXCEPT ![w] = j]
        BY <2>3 DEF Go
    <3>3. state' \in States \X States /\ state'[1] = state[1] /\ state'[2] = "half-open"
        BY <1>1, <2>3 DEF States
    <3> HIDE DEF j
    <3> QED
        BY <2>1, <2>3, <3>1, <3>2, <3>3, AssignWord
  <2> QED
      BY <1>2, <2>2, <2>3 DEF Assigns
<1>3. CASE Assigns(w, "open 1", "open 2", "open", "out")
  <2>1. UNCHANGED <<chain, msg, limitVars, failures, cooled, batchVars, audit, fails, mwCrashes>>
      BY <1>3 DEF Assigns
  <2>2. CASE worker[w].pc = "open 1" /\ state' = <<"open", state[2]>> /\ Go(w, "open 2")
    <3> DEFINE j == [worker[w] EXCEPT !.pc = "open 2"]
    <3>1. j \in Jobs /\ j.pc = "open 2" /\ j.m = worker[w].m
        BY <1>1 DEF Jobs, Pcs
    <3>2. worker' = [worker EXCEPT ![w] = j]
        BY <2>2 DEF Go
    <3>3. state' \in States \X States /\ state'[1] = "open"
        BY <1>1, <2>2 DEF States
    <3> HIDE DEF j
    <3> QED
        BY <2>1, <2>2, <3>1, <3>2, <3>3, AssignWord
  <2>3. CASE worker[w].pc = "open 2" /\ state' = <<state[1], "open">> /\ Fail(w)
    <3> DEFINE j == [worker[w] EXCEPT !.pc = "out", !.err = TRUE]
    <3>1. j \in Jobs /\ j.pc = "out" /\ j.m = worker[w].m /\ j.err
        BY <1>1 DEF Jobs, Pcs
    <3>2. worker' = [worker EXCEPT ![w] = j]
        BY <2>3 DEF Fail, MInv, ChainTypes
    <3>3. state' \in States \X States /\ state'[1] = state[1] /\ state'[2] = "open"
        BY <1>1, <2>3 DEF States
    <3> HIDE DEF j
    <3> QED
        BY <2>1, <2>3, <3>1, <3>2, <3>3, AssignWord
  <2> QED
      BY <1>3, <2>2, <2>3 DEF Assigns
<1>4. CASE Assigns(w, "closed 1", "closed 2", "closed", "reset")
  <2>1. UNCHANGED <<chain, msg, limitVars, failures, cooled, batchVars, audit, fails, mwCrashes>>
      BY <1>4 DEF Assigns
  <2>2. CASE worker[w].pc = "closed 1" /\ state' = <<"closed", state[2]>> /\ Go(w, "closed 2")
    <3> DEFINE j == [worker[w] EXCEPT !.pc = "closed 2"]
    <3>1. j \in Jobs /\ j.pc = "closed 2" /\ j.m = worker[w].m
        BY <1>1 DEF Jobs, Pcs
    <3>2. worker' = [worker EXCEPT ![w] = j]
        BY <2>2 DEF Go
    <3>3. state' \in States \X States /\ state'[1] = "closed"
        BY <1>1, <2>2 DEF States
    <3> HIDE DEF j
    <3> QED
        BY <2>1, <2>2, <3>1, <3>2, <3>3, AssignWord
  <2>3. CASE worker[w].pc = "closed 2" /\ state' = <<state[1], "closed">> /\ Go(w, "reset")
    <3> DEFINE j == [worker[w] EXCEPT !.pc = "reset"]
    <3>1. j \in Jobs /\ j.pc = "reset" /\ j.m = worker[w].m
        BY <1>1 DEF Jobs, Pcs
    <3>2. worker' = [worker EXCEPT ![w] = j]
        BY <2>3 DEF Go
    <3>3. state' \in States \X States /\ state'[1] = state[1] /\ state'[2] = "closed"
        BY <1>1, <2>3 DEF States
    <3> HIDE DEF j
    <3> QED
        BY <2>1, <2>3, <3>1, <3>2, <3>3, AssignWord
  <2> QED
      BY <1>4, <2>2, <2>3 DEF Assigns
<1> QED
    BY <1>2, <1>3, <1>4 DEF Assign

-----------------------------------------------------------------------------
(* The batch.                                                               *)

\* Two of the workers in the batch's code are two of them.
LEMMA AloneInBatchCode ==
    ASSUME NEW v \in InBatchCode, NEW w \in InBatchCode, ~(Cardinality(InBatchCode) > 1)
    PROVE  v = w
<1>1. SUFFICES ASSUME v # w PROVE FALSE
    OBVIOUS
<1>2. Cardinality(InBatchCode \ {v}) = Cardinality(InBatchCode) - 1 /\ IsFiniteSet(InBatchCode \ {v})
    BY WorkersFinite, FS_RemoveElement
<1>3. Cardinality(InBatchCode \ {v}) = 0
    BY <1>2, WorkersFinite, FS_CardinalityType
<1>4. InBatchCode \ {v} = {}
    BY <1>2, <1>3, FS_EmptySet
<1> QED
    BY <1>1, <1>4

\* What a step in the batch's code keeps of everything but the batch.
LEMMA BatchStep ==
    ASSUME MInv, NEW w \in Workers, NEW j \in Jobs, worker' = [worker EXCEPT ![w] = j],
           worker[w].pc \in {"append", "appending", "cut"},
           j.pc \in {"appending", "flush", "out"}, j.m = worker[w].m,
           UNCHANGED <<chain, msg, state, failures, audit, fails, tokens, credit>>,
           batch' \in Seq(Msgs), raced' \in BOOLEAN
    PROVE  ChainTypes' /\ BucketHolds' /\ OwnMessage' /\ AuditBalances' /\ CountBounded' /\ OpensOrResets'
<1>1. ChainTypes'
    BY Moves DEF MInv, ChainTypes
<1>2. BucketHolds'
    BY DEF MInv, BucketHolds
<1>3. OwnMessage' /\ AuditBalances'
    BY GoesOn
<1>4. CountBounded'
    BY CountKept
<1>5. OpensOrResets'
    BY BreakerKept DEF HotPcs
<1> QED
    BY <1>1, <1>2, <1>3, <1>4, <1>5

LEMMA AppendReadStep == ASSUME MInv, NEW w \in Workers, AppendRead(w) PROVE MInv'
<1> DEFINE j == [worker[w] EXCEPT !.pc = "appending", !.n = Len(batch)]
<1>1. worker[w] \in Jobs /\ worker[w].pc = "append" /\ batch \in Seq(Msgs) /\ Len(batch) \in Nat
    BY LenProperties DEF MInv, ChainTypes, AppendRead
<1>2. /\ UNCHANGED <<chain, msg, state, failures, batch, handled, undone, audit, fails, tokens, credit>>
      /\ raced' = (raced \/ Cardinality(InBatchCode) > 1) /\ raced' \in BOOLEAN
    BY DEF AppendRead, breakerVars, limitVars
<1>3. worker' = [worker EXCEPT ![w] = j]
    BY DEF AppendRead
<1>4. j \in Jobs /\ j.pc = "appending" /\ j.n = Len(batch) /\ j.m = worker[w].m
    BY <1>1 DEF Jobs, Pcs
<1> HIDE DEF j
<1>5. worker'[w] = j /\ \A v \in Workers : v # w => worker'[v] = worker[v]
    BY <1>3, <1>4, Moves DEF MInv
<1>6. ChainTypes' /\ BucketHolds' /\ OwnMessage' /\ AuditBalances' /\ CountBounded' /\ OpensOrResets'
    BY <1>1, <1>2, <1>3, <1>4, BatchStep
<1>7. BatchAccounted'
  <2>1. SUFFICES ASSUME ~raced, ~(Cardinality(InBatchCode) > 1)
        PROVE  /\ \A v \in Workers : JobAccounted(v)'
               /\ \A v, u \in Workers : (worker'[v].pc \in Touching /\ worker'[u].pc \in Touching) => v = u
               /\ \A x \in Msgs : msg'[x] = "acked" => Accounted(x)'
      BY <1>2 DEF BatchAccounted
  <2>2. \A x : Accounted(x)' = Accounted(x) /\ InBatch(x)' = InBatch(x)
      BY <1>2 DEF Accounted, InBatch
  <2>3. ASSUME NEW v \in Workers PROVE JobAccounted(v)'
    <3>1. CASE v = w
        BY <1>2, <1>4, <1>5, <3>1 DEF JobAccounted
    <3>2. CASE v # w
      <4>1. JobAccounted(v) /\ worker'[v] = worker[v]
          BY <1>5, <2>1, <3>2 DEF MInv, BatchAccounted
      <4> QED
          BY <4>1, <2>2, <1>2 DEF JobAccounted
    <3> QED
        BY <3>1, <3>2
  <2>4. \A v \in Workers : worker'[v].pc \in Touching => v = w
    <3>1. SUFFICES ASSUME NEW v \in Workers, worker'[v].pc \in Touching, v # w PROVE FALSE
        OBVIOUS
    <3>2. v \in InBatchCode /\ w \in InBatchCode
        BY <1>1, <1>5, <3>1 DEF InBatchCode, Touching
    <3> QED
        BY <2>1, <3>1, <3>2, AloneInBatchCode
  <2>5. \A x \in Msgs : msg'[x] = "acked" => Accounted(x)'
      BY <1>2, <2>1, <2>2 DEF MInv, BatchAccounted
  <2> QED
      BY <2>3, <2>4, <2>5
<1> QED
    BY <1>6, <1>7 DEF MInv

LEMMA AppendWriteStep == ASSUME MInv, NEW w \in Workers, AppendWrite(w) PROVE MInv'
<1> DEFINE k == IF worker[w].n < Len(batch) THEN worker[w].n ELSE Len(batch)
           kept == SubSeq(batch, 1, k)
<1>1. /\ worker[w] \in Jobs /\ worker[w].pc = "appending" /\ batch \in Seq(Msgs) /\ Len(batch) \in Nat
      /\ worker[w].n \in Nat /\ worker[w].m \in Msgs
    BY LenProperties DEF MInv, ChainTypes, AppendWrite, Jobs, OwnMessage
<1>2. /\ UNCHANGED <<chain, msg, state, failures, handled, undone, audit, fails, tokens, credit>>
      /\ raced' = (raced \/ Cardinality(InBatchCode) > 1) /\ raced' \in BOOLEAN
      /\ batch' = Append(kept, worker[w].m)
    BY DEF AppendWrite, breakerVars, limitVars
<1>3. kept \in Seq(Msgs) /\ (k = Len(batch) => kept = batch)
  <2>1. k \in 0..Len(batch)
      BY <1>1
  <2>2. kept \in Seq(Msgs)
      BY <1>1, <2>1, SubSeqProperties
  <2>3. k = Len(batch) => kept = batch
      BY <1>1, SubSeqFull
  <2> QED
      BY <2>2, <2>3
<1>4. PICK p \in {"flush", "out"} : worker' = [worker EXCEPT ![w] = [worker[w] EXCEPT !.pc = p]]
    BY DEF AppendWrite, Go
<1> DEFINE j == [worker[w] EXCEPT !.pc = p]
<1>5. j \in Jobs /\ j.pc = p /\ j.m = worker[w].m
    BY <1>1 DEF Jobs, Pcs
<1>6. worker' = [worker EXCEPT ![w] = j]
    BY <1>4
<1> HIDE DEF j, kept
<1>7. worker'[w] = j /\ \A v \in Workers : v # w => worker'[v] = worker[v]
    BY <1>5, <1>6, Moves DEF MInv
<1>8. batch' \in Seq(Msgs)
    BY <1>1, <1>2, <1>3, AppendProperties
<1>9. ChainTypes' /\ BucketHolds' /\ OwnMessage' /\ AuditBalances' /\ CountBounded' /\ OpensOrResets'
    BY <1>1, <1>2, <1>5, <1>6, <1>8, BatchStep
<1>10. BatchAccounted'
  <2>1. SUFFICES ASSUME ~raced, ~(Cardinality(InBatchCode) > 1)
        PROVE  /\ \A v \in Workers : JobAccounted(v)'
               /\ \A v, u \in Workers : (worker'[v].pc \in Touching /\ worker'[u].pc \in Touching) => v = u
               /\ \A x \in Msgs : msg'[x] = "acked" => Accounted(x)'
      BY <1>2 DEF BatchAccounted
  <2>2. \A v \in Workers : worker'[v].pc \in Touching => v = w
    <3>1. SUFFICES ASSUME NEW v \in Workers, worker'[v].pc \in Touching, v # w PROVE FALSE
        OBVIOUS
    <3>2. v \in InBatchCode /\ w \in InBatchCode
        BY <1>1, <1>7, <3>1 DEF InBatchCode, Touching
    <3> QED
        BY <2>1, <3>1, <3>2, AloneInBatchCode
  <2>3. kept = batch
      BY <1>1, <1>3, <2>1 DEF MInv, BatchAccounted, JobAccounted
  <2>4. /\ Len(batch') = Len(batch) + 1 /\ batch'[Len(batch) + 1] = worker[w].m
        /\ \A i \in 1..Len(batch) : batch'[i] = batch[i]
      BY <1>1, <1>2, <2>3, AppendProperties
  <2>5. InBatch(worker[w].m)'
    <3>1. Len(batch) + 1 \in 1..Len(batch')
        BY <1>1, <2>4
    <3>2. worker'[w].m = worker[w].m
        BY <1>5, <1>7
    <3> QED
        BY <2>4, <3>1, <3>2 DEF InBatch
  <2>6. \A x : Accounted(x) => Accounted(x)'
      BY <1>1, <1>2, <2>4 DEF Accounted, InBatch
  <2>7. ASSUME NEW v \in Workers PROVE JobAccounted(v)'
    <3>1. CASE v = w
        BY <1>5, <1>7, <2>5, <3>1 DEF JobAccounted, Accounted, InBatch
    <3>2. CASE v # w
      <4>1. JobAccounted(v) /\ worker'[v] = worker[v] /\ worker'[v].pc \notin Touching
          BY <1>7, <2>1, <2>2, <3>2 DEF MInv, BatchAccounted
      <4> QED
          BY <4>1, <2>6, <1>2 DEF JobAccounted, Touching
    <3> QED
        BY <3>1, <3>2
  <2>8. \A x \in Msgs : msg'[x] = "acked" => Accounted(x)'
      BY <1>2, <2>1, <2>6 DEF MInv, BatchAccounted
  <2> QED
      BY <2>2, <2>7, <2>8
<1> QED
    BY <1>9, <1>10 DEF MInv

LEMMA FlushStep == ASSUME MInv, NEW w \in Workers, NEW ok \in BOOLEAN, Flush(w, ok) PROVE MInv'
<1> DEFINE all == {batch[i] : i \in 1..Len(batch)}
           j == [worker[w] EXCEPT !.pc = "cut", !.err = ~ok]
<1>1. worker[w] \in Jobs /\ worker[w].pc = "flush"
    BY DEF MInv, ChainTypes, Flush
<1>2. /\ UNCHANGED <<chain, msg, state, failures, batch, raced, audit, tokens, credit>>
      /\ handled' = (IF ok THEN handled \cup all ELSE handled)
      /\ undone' = (IF ok THEN undone ELSE undone \cup (all \ {worker[w].m}))
      /\ fails' = (IF ok THEN fails ELSE fails + 1) /\ (ok \/ fails < MaxFails)
    BY DEF Flush, breakerVars, limitVars
<1>3. worker' = [worker EXCEPT ![w] = j]
    BY DEF Flush
<1>4. j \in Jobs /\ j.pc = "cut" /\ j.m = worker[w].m /\ j.err = ~ok
    BY <1>1 DEF Jobs, Pcs
<1>5. \A x : x \in all <=> InBatch(x)
    BY DEF InBatch
<1> HIDE DEF j, all
<1>6. worker' \in [Workers -> Jobs] /\ worker'[w] = j /\ \A v \in Workers : v # w => worker'[v] = worker[v]
    BY <1>3, <1>4, Moves DEF MInv
<1>7. ChainTypes' /\ BucketHolds'
    BY <1>2, <1>6, ChainConstants DEF MInv, ChainTypes, BucketHolds
<1>8. OwnMessage' /\ AuditBalances'
    BY <1>1, <1>2, <1>3, <1>4, GoesOn
<1>9. OpensOrResets'
    BY <1>1, <1>2, <1>3, <1>4, BreakerKept DEF HotPcs
<1>10. CountBounded'
  <2>1. Counting' = Counting
      BY <1>1, <1>4, <1>6 DEF Counting
  <2>2. \A v \in Workers : worker'[v].pc = "count" => worker'[v] = worker[v]
      BY <1>4, <1>6
  <2>3. fails' >= fails /\ fails \in Nat /\ fails' \in Nat /\ failures \in Nat
      BY <1>2, ChainConstants DEF MInv, ChainTypes
  <2>4. \A v \in Workers : worker[v].n \in Nat
      BY DEF MInv, ChainTypes, Jobs
  <2>5. failures + Cardinality(Counting) <= fails'
      BY <2>3, WorkersFinite DEF MInv, CountBounded
  <2>6. \A v \in Workers : worker[v].pc = "count" => worker[v].n + Cardinality(Counting) <= fails'
      BY <2>3, <2>4, WorkersFinite DEF MInv, CountBounded
  <2> QED
      BY <1>2, <2>1, <2>2, <2>5, <2>6 DEF CountBounded
<1>11. BatchAccounted'
  <2>1. SUFFICES ASSUME ~raced
        PROVE  /\ \A v \in Workers : JobAccounted(v)'
               /\ \A v, u \in Workers : (worker'[v].pc \in Touching /\ worker'[u].pc \in Touching) => v = u
               /\ \A x \in Msgs : msg'[x] = "acked" => Accounted(x)'
      BY <1>2 DEF BatchAccounted
  <2>2. handled \subseteq handled' /\ undone \subseteq undone'
      BY <1>2
  <2>3. \A x : InBatch(x)' = InBatch(x)
      BY <1>2 DEF InBatch
  <2>4. \A x : Accounted(x) => Accounted(x)'
      BY <1>2, <2>2, <2>3 DEF Accounted
  <2>5. \A v \in Workers : worker[v].pc \in Touching => v = w
      BY <1>1, <2>1 DEF MInv, BatchAccounted, Touching
  <2>6. InBatch(worker[w].m)
      BY <1>1, <2>1 DEF MInv, BatchAccounted, JobAccounted
  <2>7. ASSUME NEW v \in Workers PROVE JobAccounted(v)'
    <3>1. CASE v = w
      <4>1. ~j.err => j.m \in handled'
          BY <1>2, <1>4, <1>5, <2>6
      <4>2. \A x \in Msgs : InBatch(x) => x \in handled' \cup undone' \/ (j.err /\ x = j.m)
          BY <1>2, <1>4, <1>5
      <4> QED
          BY <1>4, <1>6, <2>3, <3>1, <4>1, <4>2 DEF JobAccounted
    <3>2. CASE v # w
      <4>1. JobAccounted(v) /\ worker'[v] = worker[v] /\ worker'[v].pc \notin Touching
          BY <1>6, <2>1, <2>5, <3>2 DEF MInv, BatchAccounted
      <4> QED
          BY <4>1, <2>2, <2>4 DEF JobAccounted, Touching
    <3> QED
        BY <3>1, <3>2
  <2>8. \A v, u \in Workers : (worker'[v].pc \in Touching /\ worker'[u].pc \in Touching) => v = u
      BY <1>6, <2>5
  <2>9. \A x \in Msgs : msg'[x] = "acked" => Accounted(x)'
      BY <1>2, <2>1, <2>4 DEF MInv, BatchAccounted
  <2> QED
      BY <2>7, <2>8, <2>9
<1> QED
    BY <1>7, <1>8, <1>9, <1>10, <1>11 DEF MInv

\* The slice is cut when what was in it has been handled, or is lost and known.
LEMMA CutStep == ASSUME MInv, NEW w \in Workers, Cut(w) PROVE MInv'
<1> DEFINE j == [worker[w] EXCEPT !.pc = "out"]
<1>1. worker[w] \in Jobs /\ worker[w].pc = "cut" /\ worker[w].m \in Msgs /\ msg[worker[w].m] = "taken"
    BY DEF MInv, ChainTypes, Cut, OwnMessage
<1>2. /\ UNCHANGED <<chain, msg, state, failures, handled, undone, raced, audit, fails, tokens, credit>>
      /\ batch' = <<>>
    BY DEF Cut, breakerVars, limitVars
<1>3. worker' = [worker EXCEPT ![w] = j]
    BY DEF Cut, Go
<1>4. j \in Jobs /\ j.pc = "out" /\ j.m = worker[w].m /\ j.err = worker[w].err
    BY <1>1 DEF Jobs, Pcs
<1> HIDE DEF j
<1>5. worker' \in [Workers -> Jobs] /\ worker'[w] = j /\ \A v \in Workers : v # w => worker'[v] = worker[v]
    BY <1>3, <1>4, Moves DEF MInv
<1>6. batch' \in Seq(Msgs) /\ raced' \in BOOLEAN
    BY <1>2, EmptySeq DEF MInv, ChainTypes
<1>7. ChainTypes' /\ BucketHolds' /\ OwnMessage' /\ AuditBalances' /\ CountBounded' /\ OpensOrResets'
    BY <1>1, <1>2, <1>3, <1>4, <1>6, BatchStep
<1>8. BatchAccounted'
  <2>1. SUFFICES ASSUME ~raced
        PROVE  /\ \A v \in Workers : JobAccounted(v)'
               /\ \A v, u \in Workers : (worker'[v].pc \in Touching /\ worker'[u].pc \in Touching) => v = u
               /\ \A x \in Msgs : msg'[x] = "acked" => Accounted(x)'
      BY <1>2 DEF BatchAccounted
  <2>2. \A v \in Workers : worker[v].pc \in Touching => v = w
      BY <1>1, <2>1 DEF MInv, BatchAccounted, Touching
  <2>3. /\ ~worker[w].err => worker[w].m \in handled
        /\ \A x \in Msgs : InBatch(x) => x \in handled \cup undone \/ x = worker[w].m
      BY <1>1, <2>1 DEF MInv, BatchAccounted, JobAccounted
  <2>4. \A x \in Msgs : (Accounted(x) /\ x # worker[w].m) => Accounted(x)'
      BY <1>2, <2>3 DEF Accounted
  <2>5. ASSUME NEW v \in Workers PROVE JobAccounted(v)'
    <3>1. CASE v = w
        BY <1>2, <1>4, <1>5, <2>3, <3>1 DEF JobAccounted, Accounted
    <3>2. CASE v # w
      <4>1. JobAccounted(v) /\ worker'[v] = worker[v] /\ worker'[v].pc \notin Touching
          BY <1>5, <2>1, <2>2, <3>2 DEF MInv, BatchAccounted
      <4>2. worker[v].pc = "out" => worker[v].m \in Msgs /\ worker[v].m # worker[w].m
          BY <1>1, <3>2 DEF MInv, OwnMessage
      <4>3. (worker[v].pc = "out" /\ ~worker[v].err) => Accounted(worker[v].m)
          BY <4>1 DEF JobAccounted
      <4>4. (worker'[v].pc = "out" /\ ~worker'[v].err) => Accounted(worker[v].m)'
        <5>1. SUFFICES ASSUME worker[v].pc = "out", ~worker[v].err PROVE Accounted(worker[v].m)'
            BY <4>1
        <5>2. worker[v].m \in handled \cup chain.skipped \cup undone
            BY <2>3, <4>2, <4>3, <5>1 DEF Accounted
        <5> QED
            BY <1>2, <4>1, <5>2 DEF Accounted
      <4> QED
          BY <4>1, <4>4, <1>2 DEF JobAccounted, Touching
    <3> QED
        BY <3>1, <3>2
  <2>6. \A v, u \in Workers : (worker'[v].pc \in Touching /\ worker'[u].pc \in Touching) => v = u
      BY <1>5, <2>2, <1>4 DEF Touching
  <2>7. \A x \in Msgs : msg'[x] = "acked" => Accounted(x)'
      BY <1>1, <1>2, <2>1, <2>4 DEF MInv, BatchAccounted
  <2> QED
      BY <2>5, <2>6, <2>7
<1> QED
    BY <1>7, <1>8 DEF MInv

\* A token comes back, or time passes.
LEMMA RefillStep == ASSUME MInv, Refill \/ Cool PROVE MInv'
<1>1. /\ UNCHANGED <<chain, msg, worker, state, failures, batch, handled, undone, raced, audit, fails>>
      /\ BucketHolds'
  <2>1. chain.capacity \in Nat
      BY ChainConstants DEF MInv, ChainTypes
  <2> QED
      BY <2>1 DEF Refill, Cool, MInv, BucketHolds, breakerVars, limitVars, batchVars
<1>2. ChainTypes' /\ OwnMessage' /\ AuditBalances'
    BY <1>1 DEF MInv, ChainTypes, OwnMessage, AuditBalances
<1>3. CountBounded' /\ OpensOrResets'
    BY <1>1 DEF MInv, CountBounded, OpensOrResets, Counting
<1>4. BatchAccounted'
    BY <1>1 DEF MInv, BatchAccounted, JobAccounted, Accounted, InBatch
<1> QED
    BY <1>1, <1>2, <1>3, <1>4 DEF MInv

\* The process dies and comes back.
LEMMA CrashStep == ASSUME MInv, Crash PROVE MInv'
<1>1. /\ UNCHANGED <<chain, handled, raced, fails>> /\ batch' = <<>> /\ worker' = [w \in Workers |-> Resting]
      /\ undone' = undone \cup {m \in {batch[i] : i \in 1..Len(batch)} : msg[m] = "acked"}
      /\ msg' = [m \in Msgs |-> IF msg[m] = "taken" THEN "queued" ELSE msg[m]]
      /\ tokens' = chain.capacity /\ credit' = chain.capacity
      /\ state' = <<"closed", "closed">> /\ failures' = 0 /\ audit' = 0
    BY DEF Crash
<1>2. Resting \in Jobs /\ Resting.pc = "idle"
    BY DEF Resting, Jobs, Pcs
<1>3. ChainTypes'
  <2>1. worker' \in [Workers -> Jobs] /\ msg' \in [Msgs -> {"unsent", "queued", "taken", "acked"}]
      BY <1>1, <1>2 DEF MInv, ChainTypes
  <2>2. batch' \in Seq(Msgs) /\ state' \in States \X States
      BY <1>1, EmptySeq DEF States
  <2> QED
      BY <1>1, <2>1, <2>2 DEF MInv, ChainTypes
<1>4. BucketHolds'
    BY <1>1, ChainConstants DEF BucketHolds, MInv, ChainTypes
<1>5. \A w \in Workers : worker'[w] = Resting /\ worker'[w].pc = "idle"
    BY <1>1, <1>2
<1>6. Running' = {} /\ Counting' = {} /\ Cardinality({}) = 0
    BY <1>5, FS_EmptySet DEF Running, Counting
<1>7. OwnMessage'
    BY <1>5 DEF OwnMessage
<1>8. AuditBalances'
    BY <1>1, <1>6 DEF AuditBalances, Running
<1>9. CountBounded'
    BY <1>1, <1>5, <1>6 DEF MInv, ChainTypes, CountBounded
<1>10. OpensOrResets'
  <2>1. SUFFICES ASSUME chain.breaker PROVE ~(failures' >= chain.max)
      BY <1>1 DEF OpensOrResets
  <2>2. chain.max \in Int /\ chain.max > 0
      BY <2>1, ChainConstants DEF MInv, ChainTypes
  <2> QED
      BY <1>1, <2>2
<1>11. BatchAccounted'
  <2>1. SUFFICES ASSUME ~raced PROVE \A x \in Msgs : msg'[x] = "acked" => Accounted(x)'
      BY <1>1, <1>5 DEF BatchAccounted, JobAccounted, Touching
  <2>2. SUFFICES ASSUME NEW x \in Msgs, msg[x] = "acked" PROVE x \in handled \cup chain.skipped \cup undone'
      BY <1>1 DEF Accounted
  <2>3. Accounted(x)
      BY <2>1, <2>2 DEF MInv, BatchAccounted
  <2> QED
      BY <1>1, <2>2, <2>3 DEF Accounted, InBatch
<1> QED
    BY <1>3, <1>4, <1>7, <1>8, <1>9, <1>10, <1>11 DEF MInv

LEMMA MInvStep == ASSUME MInv, [ChainNext]_mwVars PROVE MInv'
<1>1. CASE Refill \/ Cool
    BY <1>1, RefillStep
<1>2. CASE Crash
    BY <1>2, CrashStep
<1>3. ASSUME NEW w \in Workers, WorkerStep(w) PROVE MInv'
    BY <1>3, RateLimitStep, CheckStep, RunStep, CountReadStep, CountWriteStep, CompareStep, AssignStep,
       SucceededStep, ResetStep, AppendReadStep, AppendWriteStep, FlushStep, CutStep, OutStep DEF WorkerStep
<1>4. ASSUME NEW w \in Workers, Run(w, FALSE) \/ Flush(w, FALSE) PROVE MInv'
    BY <1>4, RunStep, FlushStep
<1>5. ASSUME NEW w \in Workers, NEW m \in Msgs, Take(w, m) PROVE MInv'
    BY <1>5, TakeStep
<1>6. CASE UNCHANGED mwVars
  <2>1. UNCHANGED <<chain, msg, worker, tokens, credit, state, failures, batch, handled, undone, raced, audit, fails>>
      BY <1>6 DEF mwVars
  <2>2. ChainTypes' /\ BucketHolds' /\ OwnMessage' /\ AuditBalances'
      BY <2>1 DEF MInv, ChainTypes, BucketHolds, OwnMessage, AuditBalances
  <2>3. CountBounded' /\ OpensOrResets'
      BY <2>1 DEF MInv, CountBounded, OpensOrResets, Counting
  <2>4. BatchAccounted'
      BY <2>1 DEF MInv, BatchAccounted, JobAccounted, Accounted, InBatch
  <2> QED
      BY <2>2, <2>3, <2>4 DEF MInv
<1> QED
    BY <1>1, <1>2, <1>3, <1>4, <1>5, <1>6 DEF ChainNext

\* The chain keeps its promises for any number of workers and messages and any
\* configuration, whatever the unlocked reads and writes of the breaker and the
\* batch do to each other.
THEOREM ChainHolds == ChainSpec => []ChainInv
<1>1. ChainInit => MInv
    BY MInvInit
<1>2. MInv /\ [ChainNext]_mwVars => MInv'
    BY MInvStep
<1>3. MInv => ChainInv
    BY MInvImplies
<1> QED
    BY <1>1, <1>2, <1>3, PTL DEF ChainSpec
=============================================================================
