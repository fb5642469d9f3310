---------------------------- MODULE Backpressure ----------------------------
(****************************************************************************)
(* backpressure.Limiter: a counting semaphore made of a buffered channel,   *)
(* waiting bounded by the limiter's timeout or the caller's deadline, and   *)
(* release functions the callers own.  A release function that is called    *)
(* twice takes the slot of somebody else, or waits for one.                 *)
(****************************************************************************)
EXTENDS Integers, FiniteSets

CONSTANTS
    BpCallers,
    GateConfs,     \* [max, timeout]: slots, 0 or less where NewLimiter returns nil; ticks, 0: none
    Deadline,      \* caller -> ticks its context gives it, or 0 for no deadline
    MaxExtra

VARIABLES
    gateConf,
    sem,           \* len(l.sem)
    gate,          \* caller -> [pc, left]: the ticks until its waitCtx ends, or Never
    extra          \* release calls beyond the first

bpVars == <<gateConf, sem, gate, extra>>

Never == -1

ASSUME BpConstants ==
    /\ IsFiniteSet(BpCallers) /\ Deadline \in [BpCallers -> Nat] /\ MaxExtra \in Nat
    /\ \A g \in GateConfs : g.max \in Int /\ g.timeout \in Nat

Outside == [pc |-> "outside", left |-> Never]

\* Faulty variant: the limiter's timeout only shortens a deadline.
WaitForDeadline(c) ==
    IF gateConf.timeout > 0 /\ Deadline[c] # 0 /\ Deadline[c] > gateConf.timeout THEN gateConf.timeout
    ELSE IF Deadline[c] # 0 THEN Deadline[c] ELSE Never

\* How long until waitCtx ends: the timeout, unless the caller's deadline comes earlier.
WaitFor(c) ==
    IF gateConf.timeout > 0 /\ (Deadline[c] = 0 \/ Deadline[c] > gateConf.timeout) THEN gateConf.timeout
    ELSE IF Deadline[c] # 0 THEN Deadline[c] ELSE Never

\* Acquire up to its select.  A nil limiter admits everybody.
Acquire(c) ==
    /\ gate[c].pc = "outside"
    /\ gate' = [gate EXCEPT ![c] = IF gateConf.max <= 0 THEN [pc |-> "free", left |-> Never]
                                   ELSE [pc |-> "waiting", left |-> WaitFor(c)]]
    /\ UNCHANGED <<gateConf, sem, extra>>

\* A slot is free; it may be taken though the wait is over too.
Acquired(c) ==
    /\ gate[c].pc = "waiting" /\ sem < gateConf.max
    /\ sem' = sem + 1
    /\ gate' = [gate EXCEPT ![c].pc = "inside"]
    /\ UNCHANGED <<gateConf, extra>>

\* Faulty variant: giving up returns a slot.
WaitEndsReleases(c) ==
    /\ gate[c].pc = "waiting" /\ gate[c].left = 0 /\ sem > 0
    /\ gate' = [gate EXCEPT ![c] = Outside]
    /\ sem' = sem - 1
    /\ UNCHANGED <<gateConf, extra>>

\* waitCtx has ended.  (Its error is returned even if a slot is free by now.)
WaitEnds(c) ==
    /\ gate[c].pc = "waiting" /\ gate[c].left = 0
    /\ gate' = [gate EXCEPT ![c] = Outside]
    /\ UNCHANGED <<gateConf, sem, extra>>

\* The context's own cancellation, which any caller may do.
Cancelled(c) ==
    /\ gate[c].pc = "waiting"
    /\ gate' = [gate EXCEPT ![c] = Outside]
    /\ UNCHANGED <<gateConf, sem, extra>>

\* release: it receives from the channel, whoever put the value there.
Release(c) ==
    /\ gate[c].pc \in {"inside", "free"}
    /\ IF gate[c].pc = "inside" THEN sem > 0 /\ sem' = sem - 1 ELSE UNCHANGED sem
    /\ gate' = [gate EXCEPT ![c] = Outside]
    /\ UNCHANGED <<gateConf, extra>>

ReleaseAgain(c) ==
    /\ gate[c].pc = "outside" /\ gateConf.max > 0 /\ extra < MaxExtra /\ sem > 0
    /\ sem' = sem - 1 /\ extra' = extra + 1
    /\ UNCHANGED <<gateConf, gate>>

\* Time passes for those who wait; the runtime wakes them in time.
Tick ==
    /\ \E c \in BpCallers : gate[c].pc = "waiting" /\ gate[c].left > 0
    /\ gate' = [c \in BpCallers |->
                   IF gate[c].pc = "waiting" /\ gate[c].left > 0 THEN [gate[c] EXCEPT !.left = @ - 1]
                   ELSE gate[c]]
    /\ UNCHANGED <<gateConf, sem, extra>>

BpInit ==
    /\ gateConf \in GateConfs /\ sem = 0 /\ gate = [c \in BpCallers |-> Outside] /\ extra = 0

BpStep(c) == Acquired(c) \/ WaitEnds(c)

BpNext ==
    \/ Tick
    \/ \E c \in BpCallers : Acquire(c) \/ BpStep(c) \/ Cancelled(c) \/ Release(c) \/ ReleaseAgain(c)

BpSpec == BpInit /\ [][BpNext]_bpVars

-----------------------------------------------------------------------------
(* Properties.                                                              *)

Inside == {c \in BpCallers : gate[c].pc = "inside"}

\* Every variable has its type; no channel has a negative length.
BpTypeOK ==
    /\ extra \in 0..MaxExtra
    /\ sem \in Nat
    /\ \A c \in BpCallers : gate[c].pc \in {"outside", "waiting", "inside", "free"}
                             /\ gate[c].left >= Never

\* No more callers are inside than the limit, plus one for each release that was
\* called once too often: the channel counts releases, not callers.
InflightBounded == gateConf.max > 0 => Cardinality(Inside) <= gateConf.max + extra

\* A slot is given back whichever way Acquire and release end: the channel
\* holds exactly the callers inside, less the extra releases.
NoSlotLeaks == sem = Cardinality(Inside) - extra

\* With a timeout, or a deadline of its own, nobody waits for ever.
WaitIsBounded ==
    \A c \in BpCallers :
        (gate[c].pc = "waiting" /\ (gateConf.timeout > 0 \/ Deadline[c] # 0)) ~> gate[c].pc # "waiting"

\* What holds of the limiter at every time: types, the bound and the slots.
GateInv == BpTypeOK /\ InflightBounded /\ NoSlotLeaks
=============================================================================
