------------------------ MODULE RouterLifecycleProofs ------------------------
(****************************************************************************)
(* RouterLifecycle for any number of keys, callers and Runs, over either    *)
(* broker: the types, what is quiet after Stop, when stopChan may be closed *)
(* twice, and that Stop and Close are never in a deadlock.                  *)
(****************************************************************************)
EXTENDS RouterLifecycle, TLAPS

\* stopChan is closed by a Stop of a running router, and a router that is
\* running with stopChan closed was run twice.
ClosedByStop ==
    /\ running \/ stopClosed => runs > 0
    /\ running /\ stopClosed => runs > 1

RInv == TypeOK /\ ClosedByStop /\ QuietAfterStop /\ NoDoubleClose

\* What a step of any kind must do to keep what follows Stop: a stopped
\* subscriber gets only consumers that are counted as late, and a subscriber
\* is stopped, or lets go of its mutex, only when the others are gone.
LEMMA KeepsQuiet ==
    ASSUME QuietAfterStop, broker' = broker,
           \/ stopped' = stopped /\ subMu' = subMu
           \/ IsNSQ \/ subMu' # None
           \/ \A k \in Keys : consumer'[k] \in {"none", "exited"},
           late \subseteq late',
           \A k \in Keys : \/ consumer'[k] = consumer[k]
                           \/ consumer'[k] \in {"none", "exited"}
                           \/ consumer[k] \in {"idle", "handling"}
                           \/ ~stopped \/ k \in late'
    PROVE  QuietAfterStop'
BY DEF QuietAfterStop, IsNSQ

\* A call of the router or the subscriber keeps the invariant.
LEMMA CallKeeps ==
    ASSUME RInv, NEW a \in Actors, Call(a) PROVE RInv'
<1> USE DEF RInv
<1>1. ASSUME NEW k \in Keys, AddHandler(a, k), broker' = broker PROVE RInv'
  <2>1. TypeOK'
    <3>1. handlers' \subseteq Keys
        BY <1>1 DEF AddHandler, TypeOK
    <3>2. /\ todo' \in [Actors -> SUBSET handlers']
          /\ fault' \in {"none", "closeOfClosedChannel", "concurrentMapAccess"}
      <4>1. CASE fault' = fault
        BY <4>1, <1>1 DEF AddHandler, TypeOK
      <4>2. CASE todo' = todo /\ fault' = "concurrentMapAccess"
        BY <4>2, <1>1 DEF AddHandler, TypeOK
      <4> QED
        BY <1>1, <4>1, <4>2 DEF AddHandler
    <3> QED
        BY <1>1, <3>1, <3>2
        DEF AddHandler, TypeOK, lifecycle, locks, consumers
  <2>2. ClosedByStop'
      BY <1>1 DEF AddHandler, ClosedByStop, lifecycle
  <2>3. QuietAfterStop'
      BY <1>1, KeepsQuiet DEF AddHandler, locks, consumers
  <2>4. NoDoubleClose'
      BY <1>1 DEF AddHandler, NoDoubleClose, lifecycle
  <2> QED
      BY <2>1, <2>2, <2>3, <2>4
<1>2. ASSUME Run(a), broker' = broker PROVE RInv'
  <2>1. TypeOK'
      BY <1>2 DEF Run, Goto, TypeOK, locks, consumers
  <2>2. ClosedByStop'
      BY <1>2 DEF Run, ClosedByStop, TypeOK
  <2>3. QuietAfterStop'
      BY <1>2, KeepsQuiet DEF Run, locks, consumers
  <2>4. NoDoubleClose'
      BY <1>2 DEF Run, Free, NoDoubleClose
  <2> QED
      BY <2>1, <2>2, <2>3, <2>4
<1>3. ASSUME Stop(a), broker' = broker PROVE RInv'
  <2>1. TypeOK'
      BY <1>3 DEF Stop, Goto, TypeOK, consumers
  <2>2. ClosedByStop'
      BY <1>3 DEF Stop, ClosedByStop, TypeOK
  <2>3. QuietAfterStop'
      BY <1>3, KeepsQuiet DEF Stop, consumers
  <2>4. NoDoubleClose'
      BY <1>3 DEF Stop, Free, NoDoubleClose, ClosedByStop
  <2> QED
      BY <2>1, <2>2, <2>3, <2>4
<1>4. ASSUME Close(a), broker' = broker PROVE RInv'
  <2>1. TypeOK'
      BY <1>4 DEF Close, Goto, TypeOK, lifecycle, locks, consumers
  <2>2. ClosedByStop' /\ NoDoubleClose'
      BY <1>4 DEF Close, ClosedByStop, NoDoubleClose, lifecycle
  <2>3. QuietAfterStop'
      BY <1>4, KeepsQuiet DEF Close, locks, consumers
  <2> QED
      BY <2>1, <2>2, <2>3
<1> QED
    BY <1>1, <1>2, <1>3, <1>4 DEF Call

\* A pending step of a call keeps the invariant.
LEMMA ProceedKeeps ==
    ASSUME RInv, NEW a \in Actors, Proceed(a) PROVE RInv'
<1> USE DEF RInv
<1>1. ASSUME NEW k \in Keys, Subscribe(a, k), broker' = broker PROVE RInv'
  <2>1. TypeOK'
      BY <1>1 DEF Subscribe, TypeOK, lifecycle, locks
  <2>2. ClosedByStop' /\ NoDoubleClose'
      BY <1>1 DEF Subscribe, ClosedByStop, NoDoubleClose, lifecycle
  <2>3. QuietAfterStop'
    <3>1. late \subseteq late' /\ (~stopped \/ k \in late')
        BY <1>1 DEF Subscribe
    <3>2. \A x \in Keys : x # k => consumer'[x] = consumer[x]
        BY <1>1 DEF Subscribe, TypeOK
    <3> QED
        BY <1>1, <3>1, <3>2, KeepsQuiet DEF Subscribe, locks
  <2> QED
      BY <2>1, <2>2, <2>3
<1>2. ASSUME NEW k \in Keys, SubscribeFails(a, k), broker' = broker PROVE RInv'
  <2>1. TypeOK'
      BY <1>2 DEF SubscribeFails, Goto, TypeOK, lifecycle, locks, consumers
  <2>2. ClosedByStop' /\ NoDoubleClose'
      BY <1>2 DEF SubscribeFails, ClosedByStop, NoDoubleClose, lifecycle
  <2>3. QuietAfterStop'
      BY <1>2, KeepsQuiet DEF SubscribeFails, locks, consumers
  <2> QED
      BY <2>1, <2>2, <2>3
<1>3. ASSUME LoopDone(a) \/ RunReturns(a), broker' = broker PROVE RInv'
  <2>1. TypeOK'
      BY <1>3 DEF LoopDone, RunReturns, Goto, TypeOK, lifecycle, locks, consumers
  <2>2. ClosedByStop' /\ NoDoubleClose'
      BY <1>3 DEF LoopDone, RunReturns, ClosedByStop, NoDoubleClose, lifecycle
  <2>3. QuietAfterStop'
      BY <1>3, KeepsQuiet DEF LoopDone, RunReturns, locks, consumers
  <2> QED
      BY <2>1, <2>2, <2>3
<1>4. ASSUME SubscriberStop(a), broker' = broker PROVE RInv'
  <2>1. TypeOK'
      BY <1>4 DEF SubscriberStop, Goto, TypeOK, lifecycle
  <2>2. ClosedByStop' /\ NoDoubleClose'
      BY <1>4 DEF SubscriberStop, ClosedByStop, NoDoubleClose, lifecycle
  <2>3. IsNSQ \/ subMu' # None
      BY <1>4, ActorsDistinct DEF SubscriberStop, Actors
  <2>4. QuietAfterStop'
      BY <1>4, <2>3, KeepsQuiet DEF SubscriberStop
  <2> QED
      BY <2>1, <2>2, <2>4
<1>5. ASSUME Drained(a), broker' = broker PROVE RInv'
  <2>1. TypeOK'
      BY <1>5 DEF Drained, Goto, TypeOK, lifecycle
  <2>2. ClosedByStop' /\ NoDoubleClose'
      BY <1>5 DEF Drained, ClosedByStop, NoDoubleClose, lifecycle
  <2>3. QuietAfterStop'
      BY <1>5, KeepsQuiet DEF Drained
  <2> QED
      BY <2>1, <2>2, <2>3
<1> QED
    BY <1>1, <1>2, <1>3, <1>4, <1>5 DEF Proceed

\* A step of a consumer that is in its loop keeps the invariant.
LEMMA ConsumerKeeps ==
    ASSUME RInv, NEW k \in Keys, NEW from \in {"idle", "handling"},
           NEW to \in {"idle", "handling", "exited"}, ConsumerTo(k, from, to)
    PROVE  RInv'
<1> USE DEF RInv
<1>1. TypeOK'
    BY DEF ConsumerTo, TypeOK, lifecycle, locks
<1>2. ClosedByStop' /\ NoDoubleClose'
    BY DEF ConsumerTo, ClosedByStop, NoDoubleClose, lifecycle
<1>3. QuietAfterStop'
  <2>1. consumer[k] \in {"idle", "handling"}
      BY DEF ConsumerTo
  <2>2. \A x \in Keys : x # k => consumer'[x] = consumer[x]
      BY DEF ConsumerTo, TypeOK
  <2> QED
      BY <2>1, <2>2, KeepsQuiet DEF ConsumerTo, locks
<1> QED
    BY <1>1, <1>2, <1>3

\* The inductive invariant of the router over either broker, for every number
\* of handlers and callers.
THEOREM RouterInvariant == Spec => []RInv
<1>1. Init => RInv
  <2>1. Init => TypeOK
    <3> SUFFICES ASSUME Init PROVE TypeOK
        OBVIOUS
    <3>1. consumer \in [Keys -> {"none", "idle", "handling", "exited"}]
        BY DEF Init
    <3>2. todo \in [Actors -> SUBSET handlers]
        BY DEF Init
    <3>3. pc \in [Actors ->
                    {"idle", "loop", "select", "stop", "close", "drain"}]
        BY DEF Init
    <3> QED
        BY <3>1, <3>2, <3>3 DEF Init, TypeOK
  <2>2. Init => ClosedByStop /\ QuietAfterStop /\ NoDoubleClose
      BY DEF Init, ClosedByStop, QuietAfterStop, NoDoubleClose
  <2> QED
      BY <2>1, <2>2 DEF RInv
<1>2. RInv /\ [Next]_vars => RInv'
  <2> SUFFICES ASSUME RInv, [Next]_vars PROVE RInv'
      OBVIOUS
  <2>1. CASE \E a \in Actors : Call(a) \/ Proceed(a)
      BY <2>1, CallKeeps, ProceedKeeps
  <2>2. CASE \E k \in Keys : Take(k) \/ HandlerReturns(k) \/ ConsumerExits(k)
      BY <2>2, ConsumerKeeps DEF Take, HandlerReturns, ConsumerExits
  <2>3. CASE ConnectionLost
    <3>1. TypeOK'
        BY <2>3 DEF ConnectionLost, RInv, TypeOK, lifecycle, locks
    <3>2. ClosedByStop' /\ NoDoubleClose'
        BY <2>3 DEF ConnectionLost, RInv, ClosedByStop, NoDoubleClose, lifecycle
    <3>3. QuietAfterStop'
        BY <2>3, KeepsQuiet DEF ConnectionLost, RInv, locks
    <3> QED
        BY <3>1, <3>2, <3>3 DEF RInv
  <2>4. CASE UNCHANGED vars
    <3>1. TypeOK'
        BY <2>4 DEF vars, RInv, TypeOK, lifecycle, locks, consumers
    <3>2. ClosedByStop' /\ NoDoubleClose'
        BY <2>4 DEF vars, RInv, ClosedByStop, NoDoubleClose, lifecycle
    <3>3. QuietAfterStop'
        BY <2>4, KeepsQuiet DEF vars, RInv, locks, consumers
    <3> QED
        BY <3>1, <3>2, <3>3 DEF RInv
  <2> QED
      BY <2>1, <2>2, <2>3, <2>4 DEF Next
<1> QED
    BY <1>1, <1>2, PTL DEF Spec

\* Calls leave the mutexes, consumers and counters of the router within their types.
THEOREM TypeCorrect == Spec => []TypeOK
<1>1. RInv => TypeOK
    BY DEF RInv
<1> QED
    BY <1>1, RouterInvariant, PTL

\* When the RabbitMQ subscriber has been stopped, no consumer it had before is
\* in its loop and no handler of theirs is running.
THEOREM QuietAlways == Spec => []QuietAfterStop
<1>1. RInv => QuietAfterStop
    BY DEF RInv
<1> QED
    BY <1>1, RouterInvariant, PTL

\* Stop closes stopChan a second time only for a router that was run again,
\* however many goroutines call it.
THEOREM ClosedOnce == Spec => []NoDoubleClose
<1>1. RInv => NoDoubleClose
    BY DEF RInv
<1> QED
    BY <1>1, RouterInvariant, PTL

-----------------------------------------------------------------------------
(* Who waits for whom.                                                      *)

\* Only who waits for the consumers holds the subscriber's mutex, and nobody
\* waits for them before it has told them to stop.
WaitsAfterStop ==
    /\ subMu # None => ~IsNSQ /\ subMu \in Actors /\ pc[subMu] = "drain"
    /\ \A a \in Actors : pc[a] = "drain" => stopped

MInv == TypeOK /\ WaitsAfterStop

\* Handlers do not wait for themselves: over RabbitMQ they do not call the
\* router, over NSQ they do not call Close.
HandlersDoNotWait ==
    \A k \in Reentrant : \/ pc[k] = "idle"
                         \/ IsNSQ /\ pc[k] \in {"loop", "select", "stop"}

\* A step of a or of k that waits for nobody.
CallGoesOn(a) ==
    \/ pc[a] = "select"
    \/ pc[a] \in {"loop", "stop", "close"} /\ subMu = None
    \/ pc[a] = "drain" /\ \A k \in Keys : consumer[k] \in {"none", "exited"}

ConsumerGoesOn(k) ==
    \/ consumer[k] = "handling" /\ (k \in Actors => pc[k] = "idle")
    \/ consumer[k] = "idle" /\ (stopped \/ lost)

\* While Stop or Close has not returned, a call, a handler or a consumer goes on.
StopIsNotStuck ==
    HandlersDoNotWait /\ (\E a \in Actors : pc[a] \in {"stop", "close", "drain"}) =>
        (\E a \in Actors : CallGoesOn(a)) \/ (\E k \in Keys : ConsumerGoesOn(k))

\* What a call must do to keep who waits for whom.
LEMMA KeepsWaits ==
    ASSUME MInv, NEW a \in Actors, NEW where, Goto(a, where), broker' = broker,
           where # "drain", stopped' = stopped, subMu' = subMu, subMu # a
    PROVE  WaitsAfterStop'
<1>1. pc \in [Actors -> {"idle", "loop", "select", "stop", "close", "drain"}]
    BY DEF MInv, TypeOK
<1>2. pc'[a] = where /\ \A b \in Actors : b # a => pc'[b] = pc[b]
    BY <1>1 DEF Goto
<1> QED
    BY <1>2 DEF MInv, WaitsAfterStop, IsNSQ

LEMMA MInvStep == ASSUME MInv, TypeOK', [Next]_vars PROVE MInv'
<1>1. pc \in [Actors -> {"idle", "loop", "select", "stop", "close", "drain"}]
    BY DEF MInv, TypeOK
<1>2. \A a \in Actors : subMu = a => pc[a] = "drain"
    BY ActorsDistinct DEF MInv, WaitsAfterStop, Actors
<1>3. CASE UNCHANGED <<broker, stopped, subMu, pc>>
    BY <1>3 DEF MInv, WaitsAfterStop, IsNSQ
<1>4. ASSUME NEW a \in Actors, Call(a) PROVE MInv'
  <2>1. CASE \E k \in Keys : AddHandler(a, k)
      BY <1>3, <1>4, <2>1 DEF Call, AddHandler, locks, consumers
  <2>2. ASSUME Run(a) \/ Close(a) PROVE MInv'
    <3>1. pc[a] = "idle" /\ stopped' = stopped /\ subMu' = subMu /\ (Goto(a, "loop") \/ Goto(a, "close"))
        BY <2>2 DEF Run, Close, Free, locks, consumers
    <3> QED
        BY <1>2, <1>4, <3>1, KeepsWaits DEF Call, MInv
  <2>3. CASE Stop(a)
    <3>1. pc[a] = "idle" /\ stopped' = stopped /\ subMu' = subMu /\ (Goto(a, "stop") \/ pc' = pc)
        BY <2>3 DEF Stop, Free, consumers
    <3> QED
        BY <1>2, <1>3, <1>4, <3>1, KeepsWaits DEF Call, MInv
  <2> QED
      BY <1>4, <2>1, <2>2, <2>3 DEF Call
<1>5. ASSUME NEW a \in Actors, Proceed(a) PROVE MInv'
  <2>1. ASSUME NEW k \in Keys, Subscribe(a, k) PROVE MInv'
      BY <1>3, <1>5, <2>1 DEF Proceed, Subscribe, locks
  <2>2. ASSUME NEW k \in Keys, SubscribeFails(a, k) PROVE MInv'
    <3>1. pc[a] = "loop" /\ stopped' = stopped /\ subMu' = subMu /\ Goto(a, "idle")
        BY <2>2 DEF SubscribeFails, locks, consumers
    <3> QED
        BY <1>2, <1>5, <3>1, KeepsWaits DEF Proceed, MInv
  <2>3. ASSUME LoopDone(a) \/ RunReturns(a) PROVE MInv'
    <3>1. /\ pc[a] # "drain" /\ stopped' = stopped /\ subMu' = subMu
          /\ Goto(a, "select") \/ Goto(a, "idle")
        BY <2>3 DEF LoopDone, RunReturns, locks, consumers
    <3> QED
        BY <1>2, <1>5, <3>1, KeepsWaits DEF Proceed, MInv
  <2>4. CASE SubscriberStop(a)
    <3>1. broker' = broker /\ stopped' /\ subMu = None /\ a # None
        BY <1>5, <2>4, ActorsDistinct DEF Proceed, SubscriberStop, Actors
    <3>2. subMu' = None \/ (subMu' = a /\ ~IsNSQ /\ Goto(a, "drain"))
        BY <2>4, <3>1 DEF SubscriberStop
    <3> QED
        BY <1>1, <3>1, <3>2 DEF MInv, WaitsAfterStop, IsNSQ, Goto
  <2>5. CASE Drained(a)
    <3>1. /\ broker' = broker /\ stopped' = stopped /\ pc[a] = "drain" /\ Goto(a, "idle")
          /\ subMu' = IF subMu = a THEN None ELSE subMu
        BY <1>5, <2>5 DEF Proceed, Drained
    <3>2. pc'[a] = "idle" /\ \A b \in Actors : b # a => pc'[b] = pc[b]
        BY <1>1, <3>1 DEF Goto
    <3> QED
        BY <3>1, <3>2 DEF MInv, WaitsAfterStop, IsNSQ
  <2> QED
      BY <1>5, <2>1, <2>2, <2>3, <2>4, <2>5 DEF Proceed
<1>6. ASSUME NEW k \in Keys, Take(k) \/ HandlerReturns(k) \/ ConsumerExits(k) PROVE MInv'
    BY <1>3, <1>6 DEF Take, HandlerReturns, ConsumerExits, ConsumerTo, locks
<1>7. CASE ConnectionLost \/ UNCHANGED vars
    BY <1>3, <1>7 DEF ConnectionLost, locks, vars, consumers
<1> QED
    BY <1>4, <1>5, <1>6, <1>7 DEF Next

\* Stop and Close hold mutexes while they wait for the consumers, and yet are
\* never in a deadlock, for any keys and callers: as long as handlers do not
\* wait for themselves, somebody they wait for goes on.
THEOREM StopNeverDeadlocks == Spec => []StopIsNotStuck
<1>1. Init /\ TypeOK => MInv
    BY DEF Init, MInv, WaitsAfterStop
<1>2. MInv /\ TypeOK' /\ [Next]_vars => MInv'
    BY MInvStep
<1>3. MInv => StopIsNotStuck
  <2> SUFFICES ASSUME MInv, HandlersDoNotWait,
                      NEW a \in Actors, pc[a] \in {"stop", "close", "drain"},
                      ~\E b \in Actors : CallGoesOn(b)
               PROVE  \E k \in Keys : ConsumerGoesOn(k)
      BY DEF StopIsNotStuck
  <2>1. PICK b \in Actors : pc[b] = "drain"
    <3>1. CASE pc[a] = "drain"
        BY <3>1
    <3>2. CASE pc[a] \in {"stop", "close"}
      <4>1. subMu # None
          BY <3>2 DEF CallGoesOn
      <4> QED
          BY <4>1 DEF MInv, WaitsAfterStop
    <3> QED
        BY <3>1, <3>2
  <2>2. PICK k \in Keys : consumer[k] \notin {"none", "exited"}
      BY <2>1 DEF CallGoesOn
  <2>3. consumer[k] \in {"idle", "handling"}
      BY <2>2 DEF MInv, TypeOK
  <2>4. stopped
      BY <2>1 DEF MInv, WaitsAfterStop
  <2>5. k \in Actors => pc[k] = "idle"
    <3> SUFFICES ASSUME k \in Actors, pc[k] # "idle" PROVE FALSE
        OBVIOUS
    <3>1. k \in Reentrant
        BY ActorsDistinct DEF Actors
    <3>2. IsNSQ /\ pc[k] \in {"loop", "select", "stop"}
        BY <3>1 DEF HandlersDoNotWait
    <3>3. subMu = None
        BY <3>2 DEF MInv, WaitsAfterStop
    <3> QED
        BY <3>2, <3>3 DEF CallGoesOn
  <2> QED
      BY <2>3, <2>4, <2>5 DEF ConsumerGoesOn
<1> QED
    BY <1>1, <1>2, <1>3, TypeCorrect, PTL DEF Spec

=============================================================================
