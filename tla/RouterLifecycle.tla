--------------------------- MODULE RouterLifecycle ---------------------------
(****************************************************************************)
(* Starting and stopping message consumption: messaging.Router (AddHandler, *)
(* Run, Stop) over the NSQ or the RabbitMQ subscriber (Subscribe, Stop,     *)
(* Close) with one consumer goroutine per handler.                          *)
(*                                                                          *)
(* Router.mu is held while Router.Stop calls Subscriber.Stop; the RabbitMQ  *)
(* subscriber holds its own mutex while Stop waits for the consumers.  Run  *)
(* sets running under Router.mu and then subscribes handler by handler      *)
(* without it.                                                              *)
(*                                                                          *)
(* Calls that return without a change (Run of a router that is running,     *)
(* Stop of one that is not) are not actions.                                *)
(****************************************************************************)
EXTENDS Naturals, FiniteSets

CONSTANTS
    Keys,          \* topic:channel keys handlers are registered under
    Callers,       \* goroutines of the application
    Reentrant,     \* keys whose handlers call the router themselves
    Brokers,       \* the subscriber implementations, of "nsq" and "rabbitmq"
    MaxRuns,       \* bound: successful starts of Run
    None

ASSUME RunsNatural == MaxRuns \in Nat /\ Brokers \subseteq {"nsq", "rabbitmq"}

ASSUME ActorsDistinct ==
    /\ Reentrant \subseteq Keys /\ Keys \cap Callers = {}
    /\ None \notin Keys \cup Callers

Actors == Callers \cup Reentrant

VARIABLES
    broker,        \* the subscriber the router was made with, never changed
    handlers,      \* Router.handlers
    running,       \* Router.running
    stopClosed,    \* Router.stopChan is closed
    routerMu,      \* who holds Router.mu between two steps
    subMu,         \* who holds the subscriber's mutex between two steps
    stopped,       \* subscriber: stopped, or stopCh closed
    lost,          \* RabbitMQ: the AMQP channel is closed
    consumer,      \* key -> its consumer goroutine
    late,          \* history: keys subscribed after the subscriber was stopped
    pc,            \* actor -> the call it is in
    todo,          \* actor -> handlers its Run has yet to subscribe
    stopReturned,  \* history: Router.Stop of a running router has returned
    fault,         \* a fatal error of the Go runtime
    runs           \* successful starts of Run

lifecycle == <<running, stopClosed, runs>>
locks == <<routerMu, subMu>>
consumers == <<stopped, lost, consumer, late>>

vars == <<broker, handlers, lifecycle, locks, consumers, pc, todo, stopReturned, fault>>

TypeOK ==
    /\ broker \in Brokers
    /\ handlers \subseteq Keys
    /\ running \in BOOLEAN /\ stopClosed \in BOOLEAN
    /\ routerMu \in Actors \cup {None} /\ subMu \in Actors \cup {None}
    /\ stopped \in BOOLEAN /\ lost \in BOOLEAN
    /\ consumer \in [Keys -> {"none", "idle", "handling", "exited"}]
    /\ late \subseteq Keys
    /\ pc \in [Actors -> {"idle", "loop", "select", "stop", "close", "drain"}]
    /\ todo \in [Actors -> SUBSET handlers]
    /\ stopReturned \in BOOLEAN
    /\ fault \in {"none", "closeOfClosedChannel", "concurrentMapAccess"}
    /\ runs \in Nat

IsNSQ == broker = "nsq"

Init ==
    /\ broker \in Brokers
    /\ handlers = {}
    /\ running = FALSE /\ stopClosed = FALSE /\ runs = 0
    /\ routerMu = None /\ subMu = None
    /\ stopped = FALSE /\ lost = FALSE /\ late = {}
    /\ consumer = [k \in Keys |-> "none"]
    /\ pc = [a \in Actors |-> "idle"]
    /\ todo = [a \in Actors |-> {}]
    /\ stopReturned = FALSE /\ fault = "none"

\* An actor that may start a call: a handler only while it is running.
Free(a) ==
    /\ fault = "none" /\ pc[a] = "idle"
    /\ a \in Keys => consumer[a] = "handling"

Goto(a, where) == pc' = [pc EXCEPT ![a] = where]

-----------------------------------------------------------------------------
(* Router.                                                                  *)

\* AddHandler.  Run ranges over the map without the lock: a write meanwhile is
\* a data race that the runtime may report, and the range may or may not see
\* the new key.
AddHandler(a, k) ==
    /\ Free(a) /\ routerMu = None
    /\ k \notin handlers
    /\ handlers' = handlers \cup {k}
    /\ LET looping == {b \in Actors : pc[b] = "loop"}
       IN  \/ /\ \E seen \in SUBSET looping :
                    todo' = [b \in Actors |-> IF b \in seen
                                THEN todo[b] \cup {k} ELSE todo[b]]
              /\ UNCHANGED fault
           \/ /\ looping # {}
              /\ fault' = "concurrentMapAccess"
              /\ UNCHANGED todo
    /\ UNCHANGED <<lifecycle, locks, consumers, pc, stopReturned>>

\* Run, up to the loop.
Run(a) ==
    /\ Free(a) /\ routerMu = None
    /\ ~running /\ runs < MaxRuns
    /\ running' = TRUE /\ runs' = runs + 1
    /\ todo' = [todo EXCEPT ![a] = handlers]
    /\ Goto(a, "loop")
    /\ UNCHANGED <<handlers, stopClosed, locks, consumers, stopReturned, fault>>

\* What Subscribe refuses: NSQ after Stop; RabbitMQ a key it has in its map,
\* where a consumer stays for ever, and everything once the channel is closed.
Refused(k) == IF IsNSQ THEN stopped ELSE consumer[k] # "none" \/ lost

\* One iteration of Run's loop: Subscribe starts the consumer goroutine.
Subscribe(a, k) ==
    /\ fault = "none" /\ pc[a] = "loop" /\ k \in todo[a]
    /\ subMu = None
    /\ ~Refused(k)
    /\ consumer' = [consumer EXCEPT ![k] = "idle"]
    /\ late' = IF stopped THEN late \cup {k} ELSE late
    /\ todo' = [todo EXCEPT ![a] = @ \ {k}]
    /\ UNCHANGED <<handlers, lifecycle, locks, stopped, lost, pc, stopReturned,
                   fault>>

\* Subscribe fails, refused or by an error of the broker, and Run returns it;
\* running stays set.
SubscribeFails(a, k) ==
    /\ fault = "none" /\ pc[a] = "loop" /\ k \in todo[a]
    /\ subMu = None
    /\ todo' = [todo EXCEPT ![a] = {}]
    /\ Goto(a, "idle")
    /\ UNCHANGED <<handlers, lifecycle, locks, consumers, stopReturned, fault>>

LoopDone(a) ==
    /\ fault = "none" /\ pc[a] = "loop" /\ todo[a] = {}
    /\ Goto(a, "select")
    /\ UNCHANGED <<handlers, lifecycle, locks, consumers, todo, stopReturned,
                   fault>>

\* Run returns: its context is done, as it may be at any time, or stopChan is
\* closed.
RunReturns(a) ==
    /\ fault = "none" /\ pc[a] = "select"
    /\ Goto(a, "idle")
    /\ UNCHANGED <<handlers, lifecycle, locks, consumers, todo, stopReturned,
                   fault>>

\* Faulty variant: Stop leaves running set.
StopAgain(a) ==
    /\ Free(a) /\ routerMu = None
    /\ running
    /\ IF stopClosed
         THEN /\ fault' = "closeOfClosedChannel"
              /\ UNCHANGED <<stopClosed, routerMu, pc>>
         ELSE /\ stopClosed' = TRUE /\ routerMu' = a
              /\ Goto(a, "stop")
              /\ UNCHANGED fault
    /\ UNCHANGED <<handlers, running, runs, subMu, consumers, todo,
                   stopReturned>>

\* Stop of a running router closes stopChan, which panics for a channel that
\* an earlier Stop has closed, and goes on to Subscriber.Stop.
Stop(a) ==
    /\ Free(a) /\ routerMu = None
    /\ running
    /\ running' = FALSE
    /\ IF stopClosed
         THEN /\ fault' = "closeOfClosedChannel"
              /\ UNCHANGED <<stopClosed, routerMu, pc>>
         ELSE /\ stopClosed' = TRUE /\ routerMu' = a
              /\ Goto(a, "stop")
              /\ UNCHANGED fault
    /\ UNCHANGED <<handlers, runs, subMu, consumers, todo, stopReturned>>

-----------------------------------------------------------------------------
(* Subscriber.Stop and Close.                                               *)

\* Subscriber.Close, called by EventBus.Close.
Close(a) ==
    /\ Free(a)
    /\ Goto(a, "close")
    /\ UNCHANGED <<handlers, lifecycle, locks, consumers, todo, stopReturned,
                   fault>>

\* Subscriber.Stop: RabbitMQ's closes stopCh, cancels the consumers and waits
\* for them with its mutex held; NSQ's tells the consumers to stop and returns,
\* and its Close waits for them.
SubscriberStop(a) ==
    /\ fault = "none" /\ pc[a] \in {"stop", "close"}
    /\ subMu = None
    /\ stopped' = TRUE
    /\ IF IsNSQ /\ pc[a] = "stop"
         THEN /\ routerMu' = None /\ stopReturned' = TRUE
              /\ Goto(a, "idle")
              /\ UNCHANGED subMu
         ELSE /\ subMu' = IF IsNSQ THEN None ELSE a
              /\ Goto(a, "drain")
              /\ UNCHANGED <<routerMu, stopReturned>>
    /\ UNCHANGED <<handlers, lifecycle, lost, consumer, late, todo, fault>>

\* Faulty variant: Stop does not wait for the consumers.
DrainedAtOnce(a) ==
    /\ fault = "none" /\ pc[a] = "drain"
    /\ subMu' = IF subMu = a THEN None ELSE subMu
    /\ routerMu' = IF routerMu = a THEN None ELSE routerMu
    /\ stopReturned' = (stopReturned \/ routerMu = a)
    /\ Goto(a, "idle")
    /\ UNCHANGED <<handlers, lifecycle, consumers, todo, fault>>

\* All consumers have exited: Stop or Close returns and unlocks, and RabbitMQ's
\* Close closes the channel.
Drained(a) ==
    /\ fault = "none" /\ pc[a] = "drain"
    /\ \A k \in Keys : consumer[k] \in {"none", "exited"}
    /\ subMu' = IF subMu = a THEN None ELSE subMu
    /\ routerMu' = IF routerMu = a THEN None ELSE routerMu
    /\ stopReturned' = (stopReturned \/ routerMu = a)
    /\ lost' = (lost \/ (~IsNSQ /\ routerMu # a))
    /\ Goto(a, "idle")
    /\ UNCHANGED <<handlers, lifecycle, stopped, consumer, late, todo, fault>>

-----------------------------------------------------------------------------
(* The consumer goroutine of a key.                                         *)

ConsumerTo(k, from, to) ==
    /\ fault = "none" /\ consumer[k] = from
    /\ consumer' = [consumer EXCEPT ![k] = to]
    /\ UNCHANGED <<broker, handlers, lifecycle, locks, stopped, lost, late, pc,
                   todo, stopReturned, fault>>

\* A message is taken; select picks it though stopCh may be closed as well.
Take(k) == ConsumerTo(k, "idle", "handling")

HandlerReturns(k) ==
    /\ k \in Actors => pc[k] = "idle"
    /\ ConsumerTo(k, "handling", "idle")

\* The broker or the network closes RabbitMQ's connection, and with it the
\* delivery channels of all consumers.  go-nsq reconnects by itself.
ConnectionLost ==
    /\ fault = "none" /\ ~IsNSQ /\ ~lost
    /\ lost' = TRUE
    /\ UNCHANGED <<broker, handlers, lifecycle, locks, stopped, consumer, late,
                   pc, todo, stopReturned, fault>>

\* Faulty variant: the consumer does not look at stopCh.
NeverExits(k) == FALSE /\ ConsumerTo(k, "idle", "exited")

\* The consumer leaves its loop: stopCh, its context or msgs is closed.
ConsumerExits(k) == (stopped \/ lost) /\ ConsumerTo(k, "idle", "exited")

Call(a) ==
    /\ UNCHANGED broker
    /\ \/ \E k \in Keys : AddHandler(a, k)
       \/ Run(a) \/ Stop(a) \/ Close(a)

Proceed(a) ==
    /\ UNCHANGED broker
    /\ \/ \E k \in Keys : Subscribe(a, k) \/ SubscribeFails(a, k)
       \/ LoopDone(a) \/ RunReturns(a) \/ SubscriberStop(a) \/ Drained(a)

Next ==
    \/ \E a \in Actors : Call(a) \/ Proceed(a)
    \/ \E k \in Keys : Take(k) \/ HandlerReturns(k) \/ ConsumerExits(k)
    \/ ConnectionLost

Spec == Init /\ [][Next]_vars

\* Goroutines are scheduled and mutexes are handed to their waiters, handlers
\* return, and a select with several ready channels, asked again and again,
\* chooses each of them.
FairSpec ==
    /\ Spec
    /\ \A a \in Actors : SF_vars(Proceed(a))
    /\ \A k \in Keys : WF_vars(HandlerReturns(k)) /\ SF_vars(ConsumerExits(k))

-----------------------------------------------------------------------------
(* Properties.                                                              *)

\* When the RabbitMQ subscriber has been stopped, every consumer that was
\* subscribed before has left its loop and no handler of theirs is running.
QuietAfterStop ==
    ~IsNSQ /\ stopped /\ subMu = None =>
        \A k \in Keys \ late : consumer[k] \in {"none", "exited"}

\* Any number of goroutines may call Stop, but it closes stopChan twice, and
\* panics, only for a router that was run again.
NoDoubleClose == fault = "closeOfClosedChannel" => runs > 1

\* Stop and Close return, although they wait with mutexes held, if handlers
\* return and do not wait for themselves: over RabbitMQ a handler must not call
\* the router, over NSQ it must not call Close.
StopReturns ==
    [](\A k \in Reentrant : \/ pc[k] = "idle"
                            \/ IsNSQ /\ pc[k] \in {"loop", "select", "stop"}) =>
        \A a \in Actors :
            pc[a] \in {"stop", "close", "drain"}
                ~> pc[a] = "idle" \/ fault # "none"

=============================================================================
