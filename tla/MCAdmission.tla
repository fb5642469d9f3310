---------------------------- MODULE MCAdmission ----------------------------
(* Instances of Backpressure, RateLimit and Middlewares for TLC.  A behaviour *)
(* is one of a single component.                                              *)
EXTENDS Backpressure, RateLimit, Middlewares

VARIABLE part

MCGateConfs == {[max |-> 1, timeout |-> 2], [max |-> 1, timeout |-> 0], [max |-> 2, timeout |-> 1],
                [max |-> 0, timeout |-> 1]}
MCDeadline == [c \in {"a", "b", "c"} |-> CASE c = "a" -> 0 [] c = "b" -> 1 [] c = "c" -> 3]
MCSkew == [c \in {"a", "b"} |-> IF c = "a" THEN 0 ELSE -1]

Chain(sent, ws, mode, cap, brk, max, bt, skip, cr) ==
    [sent |-> sent, workers |-> ws, mode |-> mode, capacity |-> cap, breaker |-> brk, max |-> max, batch |-> bt,
     skipped |-> skip, crashes |-> cr]
MCChainConfs ==
    {Chain({}, {}, "none", 0, FALSE, 1, 0, {}, 0),
     Chain({"m1", "m2"}, {"v", "w"}, "none", 0, TRUE, 2, 0, {}, 0),
     Chain({"m1", "m2", "m3"}, {"v"}, "none", 0, FALSE, 1, 2, {}, 1),
     Chain({"m1", "m2"}, {"v", "w"}, "none", 0, FALSE, 1, 2, {}, 1),
     Chain({"m1", "m2"}, {"v", "w"}, "drop", 1, FALSE, 1, 0, {"m2"}, 0),
     Chain({"m1", "m2"}, {"v", "w"}, "wait", 1, TRUE, 1, 0, {}, 0)}

allVars == <<part, bpVars, rlVars, mwVars>>

MCInit ==
    /\ BpInit /\ RateInit /\ ChainInit
    /\ part \in {"gate", "local", "shared", "chain"}
    /\ part # "gate" => gateConf = CHOOSE g \in GateConfs : TRUE
    /\ part # "chain" => chain = CHOOSE c \in ChainConfs : c.sent = {}

GatePart(A) == part = "gate" /\ A /\ UNCHANGED <<part, rlVars, mwVars>>
LocalPart(A) == part = "local" /\ A /\ UNCHANGED <<part, bpVars, mwVars>>
SharedPart(A) == part = "shared" /\ A /\ UNCHANGED <<part, bpVars, mwVars>>
ChainPart(A) == part = "chain" /\ A /\ UNCHANGED <<part, bpVars, rlVars>>

MCNext ==
    \/ GatePart(BpNext) \/ ChainPart(ChainNext)
    \/ LocalPart(ClockTick \/ LocalNext) \/ SharedPart(ClockTick \/ SharedNext)

\* Time passes and waiting callers wake.  Workers run on, every queued message is
\* delivered in its turn, and the refill goroutine and the breaker's timeout come.
MCSpec ==
    /\ MCInit /\ [][MCNext]_allVars
    /\ WF_allVars(GatePart(Tick)) /\ \A c \in BpCallers : WF_allVars(GatePart(BpStep(c)))
    /\ WF_allVars(ChainPart(Refill)) /\ WF_allVars(ChainPart(Cool))
    /\ \A w \in Workers : WF_allVars(ChainPart(WorkerStep(w)))
    /\ \A m \in Msgs : SF_allVars(ChainPart(\E w \in Workers : Take(w, m)))
=============================================================================
