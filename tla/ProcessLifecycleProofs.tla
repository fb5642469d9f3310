----------------------- MODULE ProcessLifecycleProofs -----------------------
(****************************************************************************)
(* Proofs about ProcessLifecycle for any managers, callbacks and services   *)
(* and any number of signals.                                               *)
(****************************************************************************)
EXTENDS ProcessLifecycle, FiniteSetTheorems, TLAPS

\* A shutdown begins with a signal; it runs every callback that was registered
\* by then, and passes the wait only when none is running.
ShutdownProgress ==
    \A m \in Managers :
        /\ mgr[m] \in {"notified", "shutdown", "callbacks", "flush", "exit"} =>
              signals > 0
        /\ mgr[m] \in {"callbacks", "flush", "exit"} =>
              \A c \in callbacks \ late : cb[m][c] # "no"
        /\ mgr[m] \in {"flush", "exit"} =>
              \A c \in Callbacks : cb[m][c] # "running"

ExitByManager == process = "exit0" => \E m \in Managers : mgr[m] = "exit"

\* done is closed when every service is over.
ClosedAfterAll == closed => \A s \in Active : svc[s] = "over"

PInv ==
    /\ TypeOK
    /\ ShutdownProgress
    /\ ExitByManager
    /\ ClosedAfterAll
    /\ NilMeansAllOver

\* The steps of RunGroup, which leave the shutdown alone.
GroupStep ==
    \/ Run \/ StartDone \/ StartManagerFails \/ SpawnDone
    \/ SelectError \/ SelectDone \/ CloseDone
    \/ \E s \in Services :
          \/ SpawnService(s) \/ ServiceEnds(s)
          \/ ServiceFails(s) \/ ServiceSends(s)

\* The steps of the shutdown, which leave RunGroup alone.
ShutStep ==
    \/ \E m \in Managers : AddShutdownManager(m)
    \/ \E c \in Callbacks : AddShutdownCallback(c)
    \/ Signal
    \/ \E m \in Managers : ManagerStep(m)
    \/ \E m \in Managers, c \in Callbacks : CallbackReturns(m, c)

-----------------------------------------------------------------------------
\* Every step is of one of three kinds.
LEMMA Steps ==
    ASSUME Next PROVE GroupStep \/ ShutStep \/ StartManager
BY DEF Next, MainStep, GroupStep, ShutStep

\* A step of RunGroup changes none of the variables of the shutdown.
LEMMA GroupKeepsShut ==
    ASSUME GroupStep PROVE UNCHANGED shut
BY DEF GroupStep, Run, StartDone, StartManagerFails, SpawnDone, SelectError,
       SelectDone, CloseDone, SpawnService, ServiceEnds, ServiceFails,
       ServiceSends, shut

\* A step of the shutdown changes none of the variables of RunGroup.
LEMMA ShutKeepsGroup ==
    ASSUME ShutStep PROVE UNCHANGED group
BY DEF ShutStep, AddShutdownManager, AddShutdownCallback, Signal, ManagerStep,
       Notify, Receive, StartShutdown, CallbacksDone, ShutdownFinish,
       CallbackReturns, group

\* RunGroup keeps the types of its variables.
LEMMA GroupTypes ==
    ASSUME TypeOK, GroupStep PROVE TypeOK'
<1>1. UNCHANGED shut
    BY GroupKeepsShut
<1>2. CASE Run \/ StartDone \/ StartManagerFails \/ SpawnDone
    BY <1>1, <1>2
    DEF TypeOK, shut, Run, StartDone, StartManagerFails, SpawnDone
<1>3. CASE SelectError \/ SelectDone \/ CloseDone
  <2>1. CASE SelectError
      BY <1>1, <2>1 DEF TypeOK, shut, SelectError
  <2>2. CASE SelectDone \/ CloseDone
      BY <1>1, <2>2 DEF TypeOK, shut, SelectDone, CloseDone
  <2> QED
      BY <1>3, <2>1, <2>2
<1>4. ASSUME NEW s \in Services,
             SpawnService(s) \/ ServiceEnds(s) \/ ServiceFails(s)
      PROVE  TypeOK'
    BY <1>1, <1>4 DEF TypeOK, shut, SpawnService, ServiceEnds, ServiceFails
<1>5. ASSUME NEW s \in Services, ServiceSends(s) PROVE TypeOK'
    BY <1>1, <1>5 DEF TypeOK, shut, ServiceSends
<1> QED
    BY <1>2, <1>3, <1>4, <1>5 DEF GroupStep

\* The shutdown keeps the types of its variables.
LEMMA ShutTypes ==
    ASSUME TypeOK, ShutStep PROVE TypeOK'
<1>1. UNCHANGED group
    BY ShutKeepsGroup
<1>2. ASSUME NEW m \in Managers, AddShutdownManager(m) PROVE TypeOK'
    BY <1>1, <1>2 DEF TypeOK, group, AddShutdownManager
<1>3. ASSUME NEW c \in Callbacks, AddShutdownCallback(c) PROVE TypeOK'
    BY <1>1, <1>3 DEF TypeOK, group, AddShutdownCallback
<1>4. CASE Signal
    BY <1>1, <1>4 DEF TypeOK, group, Signal
<1>5. ASSUME NEW m \in Managers, ManagerStep(m) PROVE TypeOK'
  <2>1. CASE StartShutdown(m)
      BY <1>1, <2>1 DEF TypeOK, group, StartShutdown
  <2>2. CASE Notify(m) \/ Receive(m) \/ CallbacksDone(m) \/ ShutdownFinish(m)
      BY <1>1, <2>2
      DEF TypeOK, group, Notify, Receive, CallbacksDone, ShutdownFinish
  <2> QED
      BY <1>5, <2>1, <2>2 DEF ManagerStep
<1>6. ASSUME NEW m \in Managers, NEW c \in Callbacks, CallbackReturns(m, c)
      PROVE  TypeOK'
    BY <1>1, <1>6 DEF TypeOK, group, CallbackReturns
<1> QED
    BY <1>2, <1>3, <1>4, <1>5, <1>6 DEF ShutStep

-----------------------------------------------------------------------------
\* A service that is over stays over, and Run returns nil only when all are.
LEMMA GroupKeeps ==
    ASSUME PInv, GroupStep PROVE ClosedAfterAll' /\ NilMeansAllOver'
<1>1. TypeOK /\ ClosedAfterAll /\ NilMeansAllOver
    BY DEF PInv
<1>2. CASE Run \/ StartDone \/ StartManagerFails
    BY <1>1, <1>2 DEF ClosedAfterAll, NilMeansAllOver, Run, StartDone,
                      StartManagerFails
<1>3. CASE SpawnDone
    BY <1>1, <1>3 DEF ClosedAfterAll, NilMeansAllOver, SpawnDone
<1>4. CASE SelectError \/ SelectDone \/ CloseDone
    BY <1>1, <1>4 DEF ClosedAfterAll, NilMeansAllOver, SelectError, SelectDone,
                      CloseDone
<1>5. ASSUME NEW s \in Services,
             \/ SpawnService(s) \/ ServiceEnds(s)
             \/ ServiceFails(s) \/ ServiceSends(s)
      PROVE  ClosedAfterAll' /\ NilMeansAllOver'
  <2>1. /\ closed' = closed /\ result' = result
        /\ svc[s] # "over"
        /\ \E x \in {"running", "over", "sending"} :
              svc' = [svc EXCEPT ![s] = x]
        /\ s \in Active \/ svc'[s] = "over" \/ svc[s] = "running"
      BY <1>1, <1>5 DEF SpawnService, ServiceEnds, ServiceFails, ServiceSends,
                        TypeOK
  <2>2. s \in Active => ~closed /\ result # "nil"
      BY <1>1, <2>1 DEF ClosedAfterAll, NilMeansAllOver
  <2>3. \A t \in Active : t # s => svc'[t] = svc[t]
      BY <1>1, <2>1 DEF TypeOK, Active
  <2> QED
      BY <1>1, <2>1, <2>2, <2>3 DEF ClosedAfterAll, NilMeansAllOver
<1> QED
    BY <1>2, <1>3, <1>4, <1>5 DEF GroupStep

\* A step of the shutdown keeps its progress.
LEMMA ShutKeeps ==
    ASSUME PInv, ShutStep PROVE ShutdownProgress' /\ ExitByManager'
<1>1. TypeOK /\ ShutdownProgress /\ ExitByManager
    BY DEF PInv
<1>2. ASSUME NEW m \in Managers, AddShutdownManager(m)
      PROVE  ShutdownProgress' /\ ExitByManager'
    BY <1>1, <1>2 DEF ShutdownProgress, ExitByManager, AddShutdownManager
<1>3. ASSUME NEW c \in Callbacks, AddShutdownCallback(c)
      PROVE  ShutdownProgress' /\ ExitByManager'
  <2>1. /\ signals > 0 => callbacks' \ late' = callbacks \ late
        /\ mgr' = mgr /\ cb' = cb /\ signals' = signals /\ process' = process
      BY <1>1, <1>3 DEF AddShutdownCallback, TypeOK
  <2> QED
      BY <1>1, <2>1 DEF ShutdownProgress, ExitByManager
<1>4. CASE Signal
  <2>1. /\ signals' > 0 /\ callbacks' = callbacks /\ late' = late /\ cb' = cb
        /\ process' # "exit0"
      BY <1>1, <1>4 DEF Signal, TypeOK
  <2>2. \A m \in Managers :
           mgr'[m] \in {"callbacks", "flush", "exit"} => mgr'[m] = mgr[m]
      BY <1>1, <1>4 DEF Signal, TypeOK
  <2> QED
      BY <1>1, <2>1, <2>2 DEF ShutdownProgress, ExitByManager
<1>5. ASSUME NEW m \in Managers, ManagerStep(m)
      PROVE  ShutdownProgress' /\ ExitByManager'
  <2>1. CASE Notify(m) \/ Receive(m)
      BY <1>1, <2>1
      DEF ShutdownProgress, ExitByManager, Notify, Receive, TypeOK
  <2>2. CASE StartShutdown(m)
    <3>1. /\ mgr' = [mgr EXCEPT ![m] = "callbacks"] /\ mgr[m] = "shutdown"
          /\ \A n \in Managers : n # m => cb'[n] = cb[n]
          /\ \A c \in Callbacks : c \in callbacks => cb'[m][c] = "running"
          /\ callbacks' = callbacks /\ late' = late /\ signals' = signals
          /\ process' = process /\ process = "up" /\ callbacks \subseteq Callbacks
        BY <1>1, <2>2 DEF StartShutdown, TypeOK
    <3> QED
        BY <1>1, <3>1 DEF ShutdownProgress, ExitByManager, TypeOK
  <2>3. CASE CallbacksDone(m) \/ ShutdownFinish(m)
      BY <1>1, <2>3
      DEF ShutdownProgress, ExitByManager, CallbacksDone, ShutdownFinish, TypeOK
  <2> QED
      BY <1>5, <2>1, <2>2, <2>3 DEF ManagerStep
<1>6. ASSUME NEW m \in Managers, NEW c \in Callbacks, CallbackReturns(m, c)
      PROVE  ShutdownProgress' /\ ExitByManager'
  <2>1. /\ \A n \in Managers, b \in Callbacks :
              cb'[n][b] = cb[n][b] \/ cb'[n][b] = "done"
        /\ mgr' = mgr /\ callbacks' = callbacks /\ late' = late
        /\ signals' = signals /\ process' = process
        /\ callbacks \subseteq Callbacks
      BY <1>1, <1>6 DEF CallbackReturns, TypeOK
  <2> QED
      BY <1>1, <2>1 DEF ShutdownProgress, ExitByManager
<1> QED
    BY <1>2, <1>3, <1>4, <1>5, <1>6 DEF ShutStep

\* No step leaves the invariant.
LEMMA PInvStep ==
    ASSUME PInv, [Next]_vars PROVE PInv'
<1>1. CASE GroupStep
  <2>1. UNCHANGED shut /\ TypeOK'
      BY <1>1, GroupKeepsShut, GroupTypes DEF PInv
  <2>2. ShutdownProgress' /\ ExitByManager'
      BY <2>1 DEF PInv, ShutdownProgress, ExitByManager, shut
  <2> QED
      BY <1>1, <2>1, <2>2, GroupKeeps DEF PInv
<1>2. CASE ShutStep
  <2>1. UNCHANGED group /\ TypeOK'
      BY <1>2, ShutKeepsGroup, ShutTypes DEF PInv
  <2>2. ClosedAfterAll' /\ NilMeansAllOver'
      BY <2>1 DEF PInv, ClosedAfterAll, NilMeansAllOver, group
  <2> QED
      BY <1>2, <2>1, <2>2, ShutKeeps DEF PInv
<1>3. CASE StartManager
  <2>1. TypeOK
      BY DEF PInv
  <2>2. /\ mgr' = [mgr EXCEPT ![managers[started + 1]] = "spawned"]
        /\ started' = started + 1
        /\ UNCHANGED <<main, result, svc, failed, errCh, closed, managers,
                       callbacks, late, cb, process, signals>>
        /\ process = "up"
      BY <1>3 DEF StartManager
  <2>3. \A m \in Managers : mgr'[m] = mgr[m] \/ mgr'[m] = "spawned"
      BY <2>1, <2>2 DEF TypeOK
  <2>4. TypeOK'
    <3>1. mgr' \in [Managers -> {"off", "spawned", "listening", "notified",
                                 "shutdown", "callbacks", "flush", "exit"}]
        BY <2>1, <2>2 DEF TypeOK
    <3>2. started' \in Nat
        BY <2>1, <2>2 DEF TypeOK
    <3> QED
        BY <2>1, <2>2, <3>1, <3>2 DEF TypeOK
  <2>5. ShutdownProgress'
      BY <2>2, <2>3 DEF PInv, ShutdownProgress
  <2>6. ExitByManager'
      BY <2>2 DEF ExitByManager
  <2>7. ClosedAfterAll' /\ NilMeansAllOver'
      BY <2>2 DEF PInv, ClosedAfterAll, NilMeansAllOver
  <2> QED
      BY <2>4, <2>5, <2>6, <2>7 DEF PInv
<1>4. CASE UNCHANGED vars
    BY <1>4 DEF PInv, TypeOK, ShutdownProgress, ExitByManager, ClosedAfterAll,
                NilMeansAllOver, vars, group, shut
<1> QED
    BY <1>1, <1>2, <1>3, <1>4, Steps

LEMMA TypesInitially == ASSUME Init PROVE TypeOK
<1>1. cb \in [Managers -> [Callbacks -> {"no", "running", "done"}]]
    BY DEF Init
<1>2. managers \in Seq(Managers) /\ errCh \in Seq(Services)
    BY DEF Init
<1> QED
    BY <1>1, <1>2 DEF Init, TypeOK

\* The invariant holds throughout.
THEOREM LifecycleInvariant == Spec => []PInv
<1>1. Init => PInv
  <2> SUFFICES ASSUME Init PROVE PInv
      OBVIOUS
  <2>1. TypeOK
      BY TypesInitially
  <2>2. ShutdownProgress /\ ExitByManager
      BY DEF Init, ShutdownProgress, ExitByManager
  <2>3. ClosedAfterAll /\ NilMeansAllOver
      BY DEF Init, ClosedAfterAll, NilMeansAllOver
  <2> QED
      BY <2>1, <2>2, <2>3 DEF PInv
<1>2. PInv /\ [Next]_vars => PInv'
    BY PInvStep
<1> QED
    BY <1>1, <1>2, PTL DEF Spec

\* Services, managers and callbacks stay within their states.
THEOREM TypeCorrect == Spec => []TypeOK
<1>1. PInv => TypeOK
    BY DEF PInv
<1> QED
    BY <1>1, LifecycleInvariant, PTL

\* os.Exit(0) never overtakes a callback that was registered before the first
\* signal, for any number of managers, callbacks and signals.
THEOREM ExitAfterCallbacks == Spec => []CallbacksBeforeExit
<1>1. PInv => CallbacksBeforeExit
  <2> SUFFICES ASSUME PInv, process = "exit0"
               PROVE  \E m \in Managers :
                         /\ mgr[m] = "exit"
                         /\ \A c \in callbacks \ late : cb[m][c] = "done"
      BY DEF CallbacksBeforeExit
  <2>1. PICK m \in Managers : mgr[m] = "exit"
      BY DEF PInv, ExitByManager
  <2>2. \A c \in callbacks \ late : c \in Callbacks
      BY DEF PInv, TypeOK
  <2>3. \A c \in callbacks \ late :
           cb[m][c] # "no" /\ cb[m][c] # "running"
      BY <2>1, <2>2 DEF PInv, ShutdownProgress
  <2>4. \A c \in callbacks \ late : cb[m][c] \in {"no", "running", "done"}
      BY <2>2 DEF PInv, TypeOK
  <2> QED
      BY <2>1, <2>3, <2>4
<1> QED
    BY <1>1, LifecycleInvariant, PTL

\* RunGroup.Run returns nil only after the last service, for any services.
THEOREM NilAfterAllServices == Spec => []NilMeansAllOver
<1>1. PInv => NilMeansAllOver
    BY DEF PInv
<1> QED
    BY <1>1, LifecycleInvariant, PTL

-----------------------------------------------------------------------------
(* errCh has a place for every service: nobody waits to send.               *)

Over == {s \in Services : svc[s] = "over"}

\* A service sends at most once, and is over when it has.
ErrorsAreOfTheOver == Len(errCh) <= Cardinality(Over)

\* When Run waits in its select it has spawned every service.
AllSpawned == main = "select" => \A s \in Active : svc[s] # "idle"

\* No service waits for a place in errCh, and Run, when it waits, waits for a
\* service, for the goroutine that closes done, or for nothing at all.
NobodyIsStuck ==
    /\ \A s \in Services : svc[s] = "sending" => Len(errCh) < Capacity
    /\ main = "select" =>
          \/ \E s \in Active : svc[s] \in {"running", "sending"}
          \/ \A s \in Active : svc[s] = "over"

GInv == TypeOK /\ ErrorsAreOfTheOver /\ AllSpawned

LEMMA OverIsFinite ==
    /\ IsFiniteSet(Over) /\ Cardinality(Over) \in Nat
    /\ Cardinality(Over) <= Capacity /\ Capacity \in Nat
<1>1. Over \subseteq Services
    BY DEF Over
<1> QED
    BY <1>1, ServicesFinite, FS_Subset, FS_CardinalityType DEF Capacity

\* What keeps the count: the services that are over stay over, and errCh grows
\* only when one more is.
LEMMA KeepsErrors ==
    ASSUME GInv, TypeOK',
           \A s \in Services : svc[s] = "over" => svc'[s] = "over",
           \/ Len(errCh') <= Len(errCh)
           \/ /\ Len(errCh') = Len(errCh) + 1
              /\ \E s \in Services : svc[s] # "over" /\ svc'[s] = "over"
    PROVE  ErrorsAreOfTheOver'
<1>1. Over \subseteq Over' /\ Over' \subseteq Services
    BY DEF Over
<1>2. IsFiniteSet(Over') /\ Cardinality(Over') \in Nat
    BY <1>1, ServicesFinite, FS_Subset, FS_CardinalityType
<1>3. Cardinality(Over) \in Nat /\ Cardinality(Over) <= Cardinality(Over')
    BY <1>1, <1>2, FS_Subset, FS_CardinalityType
<1>4. Len(errCh) \in Nat /\ Len(errCh) <= Cardinality(Over)
    BY DEF GInv, TypeOK, ErrorsAreOfTheOver
<1>5. CASE Len(errCh') <= Len(errCh)
  <2>1. Len(errCh') \in Nat
      BY DEF TypeOK
  <2> QED
      BY <1>2, <1>3, <1>4, <1>5, <2>1 DEF ErrorsAreOfTheOver
<1>6. ASSUME Len(errCh') = Len(errCh) + 1,
             NEW s \in Services, svc[s] # "over", svc'[s] = "over"
      PROVE  ErrorsAreOfTheOver'
  <2>1. s \in Over' /\ s \notin Over
      BY <1>6 DEF Over
  <2>2. Cardinality(Over) < Cardinality(Over')
    <3>1. Cardinality(Over) # Cardinality(Over')
        BY <1>1, <1>2, <2>1, FS_Subset
    <3> QED
        BY <1>2, <1>3, <3>1
  <2> QED
      BY <1>2, <1>3, <1>4, <1>6, <2>2 DEF ErrorsAreOfTheOver
<1> QED
    BY <1>5, <1>6

LEMMA GInvStep ==
    ASSUME GInv, [Next]_vars PROVE GInv'
<1>1. TypeOK /\ errCh \in Seq(Services) /\ svc \in [Services -> {"idle", "running", "sending", "over"}]
    BY DEF GInv, TypeOK
<1>2. TypeOK'
  <2>1. CASE UNCHANGED vars
      BY <1>1, <2>1 DEF vars, group, shut, TypeOK
  <2>2. CASE StartManager
      BY <1>1, <2>2 DEF StartManager, TypeOK
  <2> QED
      BY <1>1, <2>1, <2>2, Steps, GroupTypes, ShutTypes
<1>3. CASE UNCHANGED group \/ StartManager
  <2>1. errCh' = errCh /\ svc' = svc /\ (main' = main)
      BY <1>3 DEF group, StartManager
  <2>2. ErrorsAreOfTheOver' /\ AllSpawned'
      BY <2>1 DEF GInv, ErrorsAreOfTheOver, Over, AllSpawned
  <2> QED
      BY <1>2, <2>2 DEF GInv
<1>4. CASE Run \/ StartDone \/ StartManagerFails \/ SpawnDone \/ SelectDone \/ CloseDone
  <2>1. errCh' = errCh /\ svc' = svc
      BY <1>4 DEF Run, StartDone, StartManagerFails, SpawnDone, SelectDone, CloseDone
  <2>2. main' = "select" => \A s \in Active : svc[s] # "idle"
      BY <1>4 DEF Run, StartDone, StartManagerFails, SpawnDone, SelectDone, CloseDone, GInv, AllSpawned
  <2>3. ErrorsAreOfTheOver' /\ AllSpawned'
      BY <2>1, <2>2 DEF GInv, ErrorsAreOfTheOver, Over, AllSpawned
  <2> QED
      BY <1>2, <2>3 DEF GInv
<1>5. CASE SelectError
  <2>1. svc' = svc /\ main' = "returned" /\ errCh # <<>> /\ errCh' = Tail(errCh)
      BY <1>5 DEF SelectError
  <2>2. Len(errCh') <= Len(errCh)
      BY <1>1, <2>1
  <2>3. ErrorsAreOfTheOver'
      BY <1>2, <2>1, <2>2, KeepsErrors
  <2> QED
      BY <1>2, <2>1, <2>3 DEF GInv, AllSpawned
<1>6. ASSUME NEW s \in Services, SpawnService(s) \/ ServiceEnds(s) \/ ServiceFails(s)
      PROVE  GInv'
  <2>1. PICK to \in {"running", "over", "sending"} : svc' = [svc EXCEPT ![s] = to]
      BY <1>6 DEF SpawnService, ServiceEnds, ServiceFails
  <2>2. errCh' = errCh /\ main' = main /\ svc[s] # "over"
      BY <1>6 DEF SpawnService, ServiceEnds, ServiceFails
  <2>3. \A x \in Services : svc[x] = "over" => svc'[x] = "over"
      BY <1>1, <2>1, <2>2
  <2>4. ErrorsAreOfTheOver'
    <3>1. Len(errCh') <= Len(errCh)
        BY <1>1, <2>2
    <3> QED
        BY <1>2, <2>3, <3>1, KeepsErrors
  <2>5. AllSpawned'
    <3>1. Active \subseteq Services
        BY DEF Active
    <3>2. \A x \in Services : svc'[x] = svc[x] \/ svc'[x] # "idle"
        BY <1>1, <2>1
    <3> QED
        BY <2>2, <3>1, <3>2 DEF GInv, AllSpawned
  <2> QED
      BY <1>2, <2>4, <2>5 DEF GInv
<1>7. ASSUME NEW s \in Services, ServiceSends(s) PROVE GInv'
  <2>1. /\ svc[s] = "sending" /\ svc' = [svc EXCEPT ![s] = "over"]
        /\ errCh' = Append(errCh, s) /\ main' = main
      BY <1>7 DEF ServiceSends
  <2>2. svc'[s] = "over" /\ \A x \in Services : x # s => svc'[x] = svc[x]
      BY <1>1, <2>1
  <2>3. Len(errCh') = Len(errCh) + 1
      BY <1>1, <2>1
  <2>4. ErrorsAreOfTheOver'
      BY <1>2, <2>1, <2>2, <2>3, KeepsErrors
  <2>5. AllSpawned'
    <3>1. Active \subseteq Services
        BY DEF Active
    <3> QED
        BY <2>1, <2>2, <3>1 DEF GInv, AllSpawned
  <2> QED
      BY <1>2, <2>4, <2>5 DEF GInv
<1>8. CASE UNCHANGED vars
    BY <1>3, <1>8 DEF vars
<1>9. CASE GroupStep
    BY <1>4, <1>5, <1>6, <1>7, <1>9 DEF GroupStep
<1>10. CASE ShutStep
    BY <1>3, <1>10, ShutKeepsGroup
<1> QED
    BY <1>3, <1>8, <1>9, <1>10, Steps

\* A service that fails can always deliver its error, also when Run has long
\* returned, and Run never waits for a service it has not spawned: errCh has a
\* place for each of any number of services.
THEOREM NobodyWaitsForErrCh == Spec => []NobodyIsStuck
<1>1. Init => GInv
  <2> SUFFICES ASSUME Init PROVE GInv
      OBVIOUS
  <2>1. TypeOK
      BY TypesInitially
  <2>2. Len(errCh) = 0
      BY DEF Init
  <2> QED
      BY <2>1, <2>2, OverIsFinite DEF Init, GInv, ErrorsAreOfTheOver, AllSpawned
<1>2. GInv /\ [Next]_vars => GInv'
    BY GInvStep
<1>3. GInv => NobodyIsStuck
  <2> SUFFICES ASSUME GInv PROVE NobodyIsStuck
      OBVIOUS
  <2>1. ASSUME NEW s \in Services, svc[s] = "sending" PROVE Len(errCh) < Capacity
    <3>1. Over \subseteq Services /\ s \in Services /\ s \notin Over
        BY <2>1 DEF Over
    <3>2. Cardinality(Over) # Cardinality(Services)
        BY <3>1, ServicesFinite, FS_Subset
    <3>3. Len(errCh) \in Nat
        BY DEF GInv, TypeOK
    <3>4. Cardinality(Over) <= Cardinality(Services) /\ Cardinality(Services) \in Nat
        BY OverIsFinite DEF Capacity
    <3> QED
        BY <3>2, <3>3, <3>4, OverIsFinite DEF GInv, ErrorsAreOfTheOver, Capacity
  <2>2. ASSUME main = "select"
        PROVE  \/ \E s \in Active : svc[s] \in {"running", "sending"}
               \/ \A s \in Active : svc[s] = "over"
    <3>1. \A s \in Active : svc[s] \in {"running", "sending", "over"}
        BY <2>2 DEF GInv, TypeOK, AllSpawned, Active
    <3> QED
        BY <3>1
  <2> QED
      BY <2>1, <2>2 DEF NobodyIsStuck
<1> QED
    BY <1>1, <1>2, <1>3, PTL DEF Spec

=============================================================================
