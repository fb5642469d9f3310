-------------------------- MODULE ProcessLifecycle --------------------------
(****************************************************************************)
(* A process from start to exit: processruntime.RunGroup runs the services, *)
(* shutdown.GracefulShutdown starts the shutdown managers and runs the      *)
(* callbacks, posixsignal.PosixSignalManager turns a signal into a shutdown *)
(* and into os.Exit(0).                                                     *)
(*                                                                          *)
(* Goroutines: the caller of RunGroup.Run ("main"), one per service, one    *)
(* that waits for all services, one per manager and one per callback and    *)
(* shutdown.  Nothing happens after the process has ended.  What the caller *)
(* does once Run has returned is its own affair: the other goroutines may   *)
(* still run.                                                               *)
(****************************************************************************)
EXTENDS Naturals, Sequences, FiniteSets

CONSTANTS
    Managers,      \* posix signal managers, all for the same signals
    Callbacks,
    Services,      \* RunGroup.Services
    NilRun,        \* services without a Run function
    FailingStart,  \* managers whose Start may fail
    MaxSignals     \* bound: signals sent to the process

ASSUME ServicesFinite == IsFiniteSet(Services) /\ NilRun \subseteq Services

ASSUME SignalsBounded == MaxSignals \in Nat

VARIABLES
    main,          \* where the caller of Run is
    result,        \* what Run has returned
    managers,      \* GracefulShutdown.managers
    callbacks,     \* GracefulShutdown.callbacks
    late,          \* history: the callbacks added after the first signal
    started,       \* how many managers have been started
    mgr,           \* manager -> where its goroutine is
    cb,            \* manager -> callback -> how far its run for it is
    svc,           \* service -> where its goroutine is
    failed,        \* services that have returned an error
    errCh,         \* the buffered channel of RunGroup.Run
    closed,        \* its done channel is closed
    process,       \* "up", or how the process ended
    signals        \* signals sent so far

group == <<main, result, started, svc, failed, errCh, closed>>

shut == <<managers, callbacks, late, mgr, cb, process, signals>>

vars == <<group, shut>>

Active == Services \ NilRun

TypeOK ==
    /\ main \in {"setup", "start", "spawn", "select", "returned"}
    /\ result \in {"none", "nil", "startError", "error"}
    /\ managers \in Seq(Managers)
    /\ callbacks \subseteq Callbacks /\ late \subseteq callbacks
    /\ started \in Nat
    /\ mgr \in [Managers -> {"off", "spawned", "listening", "notified",
                             "shutdown", "callbacks", "flush", "exit"}]
    /\ cb \in [Managers -> [Callbacks -> {"no", "running", "done"}]]
    /\ svc \in [Services -> {"idle", "running", "sending", "over"}]
    /\ failed \subseteq Services
    /\ errCh \in Seq(Services)
    /\ closed \in BOOLEAN
    /\ process \in {"up", "exit0", "killed"}
    /\ signals \in Nat

Init ==
    /\ main = "setup" /\ result = "none"
    /\ managers = <<>> /\ callbacks = {} /\ late = {} /\ started = 0
    /\ mgr = [m \in Managers |-> "off"]
    /\ cb = [m \in Managers |-> [c \in Callbacks |-> "no"]]
    /\ svc = [s \in Services |-> "idle"]
    /\ failed = {} /\ errCh = <<>> /\ closed = FALSE
    /\ process = "up" /\ signals = 0

-----------------------------------------------------------------------------
(* GracefulShutdown: registration and Start.                                *)

AddShutdownManager(m) ==
    /\ process = "up" /\ main = "setup"
    /\ \A i \in 1 .. Len(managers) : managers[i] # m
    /\ managers' = Append(managers, m)
    /\ UNCHANGED <<group, callbacks, late, mgr, cb, process, signals>>

\* A callback may be added at any time: GSInterface gives the method to the
\* managers as well.
AddShutdownCallback(c) ==
    /\ process = "up"
    /\ c \notin callbacks
    /\ callbacks' = callbacks \cup {c}
    /\ late' = IF signals > 0 THEN late \cup {c} ELSE late
    /\ UNCHANGED <<group, managers, mgr, cb, process, signals>>

\* RunGroup.Run is called; its StartShutdown is GracefulShutdown.Start.
Run ==
    /\ process = "up" /\ main = "setup"
    /\ main' = "start"
    /\ UNCHANGED <<result, started, svc, failed, errCh, closed, shut>>

\* Start of one manager: a goroutine is spawned that will listen.
StartManager ==
    /\ process = "up" /\ main = "start" /\ started < Len(managers)
    /\ started' = started + 1
    /\ mgr' = [mgr EXCEPT ![managers[started + 1]] = "spawned"]
    /\ UNCHANGED <<main, result, svc, failed, errCh, closed, managers, callbacks, late, cb, process, signals>>

\* ... or fails, which ends Run before any service is started.
StartManagerFails ==
    /\ process = "up" /\ main = "start" /\ started < Len(managers)
    /\ managers[started + 1] \in FailingStart
    /\ main' = "returned" /\ result' = "startError"
    /\ UNCHANGED <<started, svc, failed, errCh, closed, shut>>

StartDone ==
    /\ process = "up" /\ main = "start" /\ started = Len(managers)
    /\ main' = "spawn"
    /\ UNCHANGED <<result, started, svc, failed, errCh, closed, shut>>

-----------------------------------------------------------------------------
(* RunGroup.Run: services.                                                  *)

\* One iteration of the loop; a service without Run is skipped.
SpawnService(s) ==
    /\ process = "up" /\ main = "spawn"
    /\ s \in Active /\ svc[s] = "idle"
    /\ svc' = [svc EXCEPT ![s] = "running"]
    /\ UNCHANGED <<main, result, started, failed, errCh, closed, shut>>

\* Run returns nil at once if there was nothing to start; otherwise it spawns
\* the waiting goroutine and goes to its select.
SpawnDone ==
    /\ process = "up" /\ main = "spawn"
    /\ \A s \in Active : svc[s] # "idle"
    /\ IF Active = {}
         THEN main' = "returned" /\ result' = "nil"
         ELSE main' = "select" /\ UNCHANGED result
    /\ UNCHANGED <<started, svc, failed, errCh, closed, shut>>

\* A service returns nil ...
ServiceEnds(s) ==
    /\ process = "up" /\ svc[s] = "running"
    /\ svc' = [svc EXCEPT ![s] = "over"]
    /\ UNCHANGED <<main, result, started, failed, errCh, closed, shut>>

\* ... or an error, which it is to send.
ServiceFails(s) ==
    /\ process = "up" /\ svc[s] = "running"
    /\ svc' = [svc EXCEPT ![s] = "sending"]
    /\ failed' = failed \cup {s}
    /\ UNCHANGED <<main, result, started, errCh, closed, shut>>

\* The capacity of errCh.
Capacity == Cardinality(Services)

\* Faulty variant: errCh has no buffer, a send needs Run at its select.
ServiceSendsUnbuffered(s) ==
    /\ process = "up" /\ svc[s] = "sending"
    /\ main = "select" /\ errCh = <<>>
    /\ errCh' = Append(errCh, s)
    /\ svc' = [svc EXCEPT ![s] = "over"]
    /\ UNCHANGED <<main, result, started, failed, closed, shut>>

\* errCh <- err blocks while the channel is full.
ServiceSends(s) ==
    /\ process = "up" /\ svc[s] = "sending"
    /\ Len(errCh) < Capacity
    /\ errCh' = Append(errCh, s)
    /\ svc' = [svc EXCEPT ![s] = "over"]
    /\ UNCHANGED <<main, result, started, failed, closed, shut>>

\* Faulty variant: done is closed when the first service is over.
CloseDoneEarly ==
    /\ process = "up" /\ ~closed /\ main = "select"
    /\ \E s \in Active : svc[s] = "over"
    /\ closed' = TRUE
    /\ UNCHANGED <<main, result, started, svc, failed, errCh, shut>>

\* wg.Wait() returns and done is closed.
CloseDone ==
    /\ process = "up" /\ ~closed
    /\ main = "select" \/ (main = "returned" /\ result = "error")
    /\ \A s \in Active : svc[s] = "over"
    /\ closed' = TRUE
    /\ UNCHANGED <<main, result, started, svc, failed, errCh, shut>>

\* The select of Run: when both channels are ready, either is chosen.
SelectError ==
    /\ process = "up" /\ main = "select" /\ errCh # <<>>
    /\ main' = "returned" /\ result' = "error"
    /\ errCh' = Tail(errCh)
    /\ UNCHANGED <<started, svc, failed, closed, shut>>

SelectDone ==
    /\ process = "up" /\ main = "select" /\ closed
    /\ main' = "returned" /\ result' = "nil"
    /\ UNCHANGED <<started, svc, failed, errCh, closed, shut>>

-----------------------------------------------------------------------------
(* Signals and the goroutine of a PosixSignalManager.                       *)

\* signal.Notify, in the goroutine that Start has spawned.
Notify(m) ==
    /\ process = "up" /\ mgr[m] = "spawned"
    /\ mgr' = [mgr EXCEPT ![m] = "listening"]
    /\ UNCHANGED <<group, managers, callbacks, late, cb, process, signals>>

\* A signal reaches every channel registered for it; with none registered the
\* default action ends the process.
Signal ==
    /\ process = "up" /\ signals < MaxSignals
    /\ signals' = signals + 1
    /\ IF \E m \in Managers : mgr[m] \in {"listening", "notified"}
         THEN /\ mgr' = [m \in Managers |-> IF mgr[m] = "listening"
                                              THEN "notified" ELSE mgr[m]]
              /\ UNCHANGED process
         ELSE process' = "killed" /\ UNCHANGED mgr
    /\ UNCHANGED <<group, managers, callbacks, late, cb>>

\* The manager takes the signal, stops listening and calls StartShutdown.
Receive(m) ==
    /\ process = "up" /\ mgr[m] = "notified"
    /\ mgr' = [mgr EXCEPT ![m] = "shutdown"]
    /\ UNCHANGED <<group, managers, callbacks, late, cb, process, signals>>

\* GracefulShutdown.StartShutdown: every callback runs in its own goroutine.
StartShutdown(m) ==
    /\ process = "up" /\ mgr[m] = "shutdown"
    /\ mgr' = [mgr EXCEPT ![m] = "callbacks"]
    /\ cb' = [cb EXCEPT ![m] = [c \in Callbacks |->
                IF c \in callbacks THEN "running" ELSE "no"]]
    /\ UNCHANGED <<group, managers, callbacks, late, process, signals>>

CallbackReturns(m, c) ==
    /\ process = "up" /\ cb[m][c] = "running"
    /\ cb' = [cb EXCEPT ![m][c] = "done"]
    /\ UNCHANGED <<group, managers, callbacks, late, mgr, process, signals>>

\* Faulty variant: StartShutdown does not wait for the callbacks.
CallbacksNotAwaited(m) ==
    /\ process = "up" /\ mgr[m] = "callbacks"
    /\ mgr' = [mgr EXCEPT ![m] = "flush"]
    /\ UNCHANGED <<group, managers, callbacks, late, cb, process, signals>>

\* Faulty variant: the wait group counts callbacks that are not run.
CallbacksOvercounted(m) ==
    /\ process = "up" /\ mgr[m] = "callbacks"
    /\ \A c \in Callbacks : cb[m][c] = "done"
    /\ mgr' = [mgr EXCEPT ![m] = "flush"]
    /\ UNCHANGED <<group, managers, callbacks, late, cb, process, signals>>

\* wg.Wait() of StartShutdown returns.
CallbacksDone(m) ==
    /\ process = "up" /\ mgr[m] = "callbacks"
    /\ \A c \in Callbacks : cb[m][c] # "running"
    /\ mgr' = [mgr EXCEPT ![m] = "flush"]
    /\ UNCHANGED <<group, managers, callbacks, late, cb, process, signals>>

\* ShutdownFinish: flush the log, exit with status 0.
ShutdownFinish(m) ==
    /\ process = "up" /\ mgr[m] = "flush"
    /\ mgr' = [mgr EXCEPT ![m] = "exit"]
    /\ process' = "exit0"
    /\ UNCHANGED <<group, managers, callbacks, late, cb, signals>>

MainStep == StartManager \/ StartDone \/ SpawnDone \/ SelectError \/ SelectDone

ManagerStep(m) ==
    \/ Notify(m) \/ Receive(m) \/ StartShutdown(m)
    \/ CallbacksDone(m) \/ ShutdownFinish(m)

Next ==
    \/ \E m \in Managers : AddShutdownManager(m)
    \/ \E c \in Callbacks : AddShutdownCallback(c)
    \/ Run \/ StartManagerFails \/ MainStep
    \/ \E s \in Services :
          \/ SpawnService(s) \/ ServiceEnds(s)
          \/ ServiceFails(s) \/ ServiceSends(s)
    \/ CloseDone
    \/ Signal
    \/ \E m \in Managers : ManagerStep(m)
    \/ \E m \in Managers, c \in Callbacks : CallbackReturns(m, c)

Spec == Init /\ [][Next]_vars

\* Every goroutine that can go on does; callbacks return.  Services run as
\* long as they like.
FairSpec ==
    /\ Spec
    /\ WF_vars(MainStep) /\ WF_vars(CloseDone)
    /\ \A s \in Services : WF_vars(SpawnService(s)) /\ WF_vars(ServiceSends(s))
    /\ \A m \in Managers : WF_vars(ManagerStep(m))
    /\ \A m \in Managers, c \in Callbacks : WF_vars(CallbackReturns(m, c))

-----------------------------------------------------------------------------
(* Properties.                                                              *)

\* Before os.Exit(0) ends the process, every callback that was registered when
\* the first signal came has returned (StartShutdown waits for all of them,
\* whatever other managers do).
CallbacksBeforeExit ==
    process = "exit0" =>
        \E m \in Managers : /\ mgr[m] = "exit"
                            /\ \A c \in callbacks \ late : cb[m][c] = "done"

\* Run returns nil only when no service is running any more (done is closed
\* after wg.Wait).
NilMeansAllOver == result = "nil" => \A s \in Active : svc[s] = "over"

\* A service that fails can always deliver its error and end, also when Run has
\* returned long before: no goroutine is left blocked on errCh.
SendersFinish ==
    \A s \in Services :
        svc[s] = "sending" ~> svc[s] = "over" \/ process # "up"

\* Once every service is over, Run returns.
RunReturns ==
    main = "select" /\ (\A s \in Active : svc[s] = "over")
        ~> main = "returned" \/ process # "up"

\* A RunGroup ends with all its goroutines: no sender stays, and Run returns.
GroupEnds == SendersFinish /\ RunReturns

\* A signal that a manager has received ends the process, if the callbacks
\* return.
SignalExits == \A m \in Managers : mgr[m] = "notified" ~> process # "up"

=============================================================================
