--------------------------- MODULE MessageDelivery ---------------------------
(****************************************************************************)
(* The life of a message between a broker and a handler: the adapters of    *)
(* messaging/nsq and messaging/rabbitmq, Message.settle of messaging/port.go*)
(* and the middlewares of messaging/middleware.go in the order the package  *)
(* README recommends, Recover(Timeout(Retry(Deduplication(handler)))).      *)
(*                                                                          *)
(* A delivery has two goroutines.  "main" is the adapter's: it calls the    *)
(* handler chain, waits for its result and settles the message.  "work"     *)
(* runs what TimeoutMiddleware wraps; it goes on after a timeout, so it may *)
(* settle the message or finish long after the adapter has answered the     *)
(* broker, and while the message is delivered again.                        *)
(*                                                                          *)
(* The broker is external: a message is ready, in the hands of one delivery *)
(* or done.  Every message has been published at the start; one that is     *)
(* published later is one that is delivered later.                          *)
(****************************************************************************)
EXTENDS Naturals, FiniteSets

CONSTANTS
    Messages,
    MaxDeliveries,    \* bound: deliveries made in a behaviour
    MaxInFlight,      \* handlers running at once: NSQ's MaxInFlight, 1 for RabbitMQ
    NoId,             \* messages RabbitMQ's Publish sent without a MessageId
    Undecodable,      \* messages whose envelope NSQ's adapter cannot decode
    MaxAttempts,      \* NSQ's MaxAttempts: deliveries of a message, 0 for no limit
    BrokerRequeues,   \* the broker may take back a message that is out
    Restarts,         \* the process may be killed or restarted
    AutoRespond,      \* go-nsq answers the broker itself when the handler returns
    UseRecover, UseTimeout, UseDedup,
    MaxRetries,       \* RetryMiddleware's maxRetries, 0 for no retries
    HandlerCalls,     \* what the handler may call on the message itself
    Outcomes,         \* how the handler may end
    Ready, Done, None

ASSUME BoundsNatural ==
    /\ MaxDeliveries \in Nat /\ MaxInFlight \in Nat \ {0}
    /\ MaxRetries \in Nat /\ MaxAttempts \in Nat

ASSUME SwitchesBoolean ==
    {BrokerRequeues, Restarts, AutoRespond, UseRecover, UseTimeout, UseDedup}
        \subseteq BOOLEAN

ASSUME EnvelopesTyped ==
    /\ Undecodable \subseteq Messages /\ NoId \subseteq Messages
    /\ \A m \in Messages : m \notin Nat

ASSUME BrokerStates == Ready # Done /\ Ready \notin Nat /\ Done \notin Nat

ASSUME HandlerTyped ==
    /\ HandlerCalls \subseteq {"none", "ack", "nack"}
    /\ Outcomes \subseteq {"ok", "err", "panic"}

VARIABLES
    owner,        \* message -> Ready, Done, or the delivery it is out with
    dlv,          \* delivery -> its state, or None before it is made
    marked,       \* DeduplicationStore: the UUIDs marked as processed
    effects,      \* message -> how often the handler has processed it
    crashed,      \* a panic has ended the process at least once
    attempts,     \* nsqd: message -> how often it has been handed out
    tag           \* RabbitMQ: the last delivery tag of the channel

vars == <<owner, dlv, marked, effects, crashed, attempts, tag>>

Deliveries == 1 .. MaxDeliveries

Delivery ==
    [msg : Messages,
     uuid : Messages \cup Nat,            \* Message.UUID
     main : {"wait", "settle", "run", "auto", "end"},
     result : {"none", "ok", "err"},      \* what the chain returned to the adapter
     work : {"dedup", "handle", "settle", "run", "after", "done", "dead"},
     outcome : {"ok", "err", "panic"},    \* how the handler ended
     calls : {"none", "ack", "nack"},     \* what the handler calls
     tries : Nat,                         \* retries made
     cancelled : BOOLEAN,                 \* the context of the timeout is done
     settled : BOOLEAN,                   \* Message.settled
     userAck : BOOLEAN,                   \* ... by an Ack of the handler's own
     sent : Nat]                          \* answers sent to the broker

ASSUME NoneIsNoDelivery == None \notin Delivery

TypeOK ==
    /\ owner \in [Messages -> Deliveries \cup {Ready, Done}]
    /\ dlv \in [Deliveries -> Delivery \cup {None}]
    /\ marked \subseteq Messages \cup Nat
    /\ effects \in [Messages -> Nat]
    /\ crashed \in BOOLEAN
    /\ attempts \in [Messages -> Nat]
    /\ tag \in Nat

Init ==
    /\ owner = [m \in Messages |-> Ready]
    /\ dlv = [d \in Deliveries |-> None]
    /\ marked = {}
    /\ effects = [m \in Messages |-> 0]
    /\ crashed = FALSE
    /\ attempts = [m \in Messages |-> 0]
    /\ tag = 0

-----------------------------------------------------------------------------
(* The broker (external).                                                   *)

Active(d) == dlv[d] # None /\ dlv[d].main # "end"

\* RabbitMQ's adapter takes the delivery tag for a message without an id; tags
\* count the deliveries of a channel.
UUID(m) == IF m \in NoId THEN tag + 1 ELSE m

\* The broker hands a message to the consumer, whose adapter wraps it in a new
\* Message and calls the handler chain.  NSQ's adapter returns an error at once
\* for an envelope it cannot decode.
Deliver(m, d) ==
    /\ owner[m] = Ready
    /\ MaxAttempts = 0 \/ attempts[m] < MaxAttempts
    /\ dlv[d] = None /\ \A e \in Deliveries : e < d => dlv[e] # None
    /\ Cardinality({e \in Deliveries : Active(e)}) < MaxInFlight
    /\ owner' = [owner EXCEPT ![m] = d]
    /\ dlv' = [dlv EXCEPT ![d] =
                 [msg |-> m, uuid |-> UUID(m),
                  main |-> IF m \in Undecodable THEN "auto" ELSE "wait",
                  result |-> IF m \in Undecodable THEN "err" ELSE "none",
                  work |-> IF m \in Undecodable THEN "dead" ELSE "dedup",
                  outcome |-> "ok", calls |-> "none", tries |-> 0,
                  cancelled |-> FALSE, settled |-> FALSE, userAck |-> FALSE,
                  sent |-> 0]]
    /\ attempts' = [attempts EXCEPT ![m] = @ + 1]
    /\ tag' = tag + 1
    /\ UNCHANGED <<marked, effects, crashed>>

\* go-nsq finishes a message that has been handed out too often, without
\* calling the adapter.
GiveUp(m) ==
    /\ owner[m] = Ready
    /\ MaxAttempts > 0 /\ attempts[m] >= MaxAttempts
    /\ owner' = [owner EXCEPT ![m] = Done]
    /\ UNCHANGED <<dlv, marked, effects, crashed, attempts, tag>>

\* The broker gives up waiting (message timeout, lost connection).
Requeue(m) ==
    /\ BrokerRequeues
    /\ owner[m] \in Deliveries
    /\ owner' = [owner EXCEPT ![m] = Ready]
    /\ UNCHANGED <<dlv, marked, effects, crashed, attempts, tag>>

\* The process is gone: its goroutines are dead, its channel is closed and the
\* broker gets back what the process had in hand.
ProcessEnds ==
    /\ dlv' = [e \in Deliveries |->
                 IF dlv[e] = None THEN None
                 ELSE [dlv[e] EXCEPT !.main = "end", !.work = "dead"]]
    /\ owner' = [m \in Messages |->
                   IF owner[m] \in Deliveries THEN Ready ELSE owner[m]]
    /\ tag' = 0

\* The process is restarted or killed, and started again.
Restart ==
    /\ Restarts /\ ProcessEnds
    /\ UNCHANGED <<marked, effects, crashed, attempts>>

\* Faulty variant: an answer counts whoever the message is out with.
RespondAnyone(d, kind) ==
    owner' = [owner EXCEPT ![dlv[d].msg] = IF kind = "ack" THEN Done ELSE Ready]

\* What the broker makes of an answer: it counts only while the message is out
\* with that delivery, and go-nsq sends only the first one.
Respond(d, kind) ==
    LET m    == dlv[d].msg
        sent == ~AutoRespond \/ dlv[d].sent = 0
    IN  owner' = IF sent /\ owner[m] = d
                   THEN [owner EXCEPT ![m] = IF kind = "ack" THEN Done ELSE Ready]
                   ELSE owner

SentAfter(d) ==
    IF ~AutoRespond \/ dlv[d].sent = 0 THEN dlv[d].sent + 1 ELSE dlv[d].sent

-----------------------------------------------------------------------------
(* The goroutine of the handler.                                            *)

\* Faulty variant: Deduplication marks the message before it is processed.
CheckAndMark(d) ==
    /\ dlv[d] # None /\ dlv[d].work = "dedup"
    /\ dlv' = [dlv EXCEPT ![d].outcome = "ok",
                 ![d].work = IF UseDedup /\ dlv[d].uuid \in marked
                               THEN "done" ELSE "handle"]
    /\ marked' = IF UseDedup THEN marked \cup {dlv[d].uuid} ELSE marked
    /\ UNCHANGED <<owner, effects, crashed, attempts, tag>>

\* Deduplication: a message that is marked is skipped without an error.
CheckDedup(d) ==
    /\ dlv[d] # None /\ dlv[d].work = "dedup"
    /\ dlv' = [dlv EXCEPT ![d].work =
                 IF UseDedup /\ dlv[d].uuid \in marked THEN "done" ELSE "handle",
                          ![d].outcome = "ok"]
    /\ UNCHANGED <<owner, marked, effects, crashed, attempts, tag>>

\* The handler does its work; it may be about to call Ack or Nack itself.
Handle(d) ==
    /\ dlv[d] # None /\ dlv[d].work = "handle"
    /\ \E o \in Outcomes, s \in HandlerCalls :
         /\ dlv' = [dlv EXCEPT ![d].outcome = o, ![d].calls = s,
                      ![d].work = IF s = "none" THEN "after" ELSE "settle"]
         /\ effects' = IF o = "ok"
                         THEN [effects EXCEPT ![dlv[d].msg] = @ + 1]
                         ELSE effects
    /\ UNCHANGED <<owner, marked, crashed, attempts, tag>>

\* Message.settle, called by the handler: the flag is taken under the lock.  A
\* call that finds it taken returns nil at once.
HandlerSettle(d) ==
    /\ dlv[d] # None /\ dlv[d].work = "settle"
    /\ dlv' = [dlv EXCEPT ![d].work = IF dlv[d].settled
                                        THEN "after" ELSE "run",
                          ![d].settled = TRUE,
                          ![d].userAck = @ \/ (~dlv[d].settled
                                               /\ dlv[d].calls = "ack")]
    /\ UNCHANGED <<owner, marked, effects, crashed, attempts, tag>>

\* ... and the broker is answered after the lock is released.
HandlerRespond(d) ==
    /\ dlv[d] # None /\ dlv[d].work = "run"
    /\ Respond(d, dlv[d].calls)
    /\ dlv' = [dlv EXCEPT ![d].work = "after", ![d].sent = SentAfter(d)]
    /\ UNCHANGED <<marked, effects, crashed, attempts, tag>>

\* The handler has succeeded: Deduplication marks the message (an error of
\* Mark is ignored), Retry returns nil.
Succeed(d) ==
    /\ dlv[d] # None /\ dlv[d].work = "after" /\ dlv[d].outcome = "ok"
    /\ \/ UNCHANGED marked
       \/ UseDedup /\ marked' = marked \cup {dlv[d].uuid}
    /\ dlv' = [dlv EXCEPT ![d].work = "done"]
    /\ UNCHANGED <<owner, effects, crashed, attempts, tag>>

\* The handler has failed: Retry calls it again, or returns the error after
\* the last try or when the context is done while it waits.
FailAttempt(d) ==
    /\ dlv[d] # None /\ dlv[d].work = "after" /\ dlv[d].outcome = "err"
    /\ \/ /\ dlv[d].tries < MaxRetries
          /\ dlv' = [dlv EXCEPT ![d].work = "dedup", ![d].tries = @ + 1]
       \/ /\ dlv[d].tries = MaxRetries \/ dlv[d].cancelled
          /\ dlv' = [dlv EXCEPT ![d].work = "done"]
    /\ UNCHANGED <<owner, marked, effects, crashed, attempts, tag>>

\* A panic.  Recover turns it into an error, but only on its own goroutine:
\* TimeoutMiddleware runs the handler on another one, where a panic ends the
\* process.
Panic(d) ==
    /\ dlv[d] # None /\ dlv[d].work = "after" /\ dlv[d].outcome = "panic"
    /\ IF UseRecover /\ ~UseTimeout
         THEN /\ dlv' = [dlv EXCEPT ![d].work = "done", ![d].outcome = "err"]
              /\ UNCHANGED <<owner, crashed, tag>>
         ELSE ProcessEnds /\ crashed' = TRUE
    /\ UNCHANGED <<marked, effects, attempts>>

-----------------------------------------------------------------------------
(* The adapter's goroutine.                                                 *)

\* The chain returns what the handler returned.
Result(d) ==
    /\ dlv[d] # None /\ dlv[d].main = "wait" /\ dlv[d].work = "done"
    /\ dlv' = [dlv EXCEPT ![d].main = "settle", ![d].cancelled = TRUE,
                          ![d].result = dlv[d].outcome]
    /\ UNCHANGED <<owner, marked, effects, crashed, attempts, tag>>

\* Faulty variant: a timeout returns nil.
TimeoutNil(d) ==
    /\ UseTimeout
    /\ dlv[d] # None /\ dlv[d].main = "wait"
    /\ dlv' = [dlv EXCEPT ![d].main = "settle", ![d].cancelled = TRUE,
                          ![d].result = "ok"]
    /\ UNCHANGED <<owner, marked, effects, crashed, attempts, tag>>

\* Faulty variant: the middleware waits for the handler after the timeout.
TimeoutWaits(d) ==
    /\ dlv[d] # None /\ dlv[d].main = "wait" /\ ~dlv[d].cancelled
    /\ dlv' = [dlv EXCEPT ![d].cancelled = TRUE]
    /\ UNCHANGED <<owner, marked, effects, crashed, attempts, tag>>

\* TimeoutMiddleware returns an error; the handler's goroutine goes on.
Timeout(d) ==
    /\ UseTimeout
    /\ dlv[d] # None /\ dlv[d].main = "wait"
    /\ dlv' = [dlv EXCEPT ![d].main = "settle", ![d].cancelled = TRUE,
                          ![d].result = "err"]
    /\ UNCHANGED <<owner, marked, effects, crashed, attempts, tag>>

\* Faulty variant: the adapter answers without looking at the flag.
AdapterSettleAgain(d) ==
    /\ dlv[d] # None /\ dlv[d].main = "settle"
    /\ dlv' = [dlv EXCEPT ![d].main = "run", ![d].settled = TRUE]
    /\ UNCHANGED <<owner, marked, effects, crashed, attempts, tag>>

\* The adapter: Ack after success, Nack after an error, if not settled yet.
\* IsSettled and settle read the same flag; one that is set in between makes
\* settle do nothing.
AdapterSettle(d) ==
    /\ dlv[d] # None /\ dlv[d].main = "settle"
    /\ dlv' = [dlv EXCEPT ![d].main = IF dlv[d].settled THEN "auto" ELSE "run",
                          ![d].settled = TRUE]
    /\ UNCHANGED <<owner, marked, effects, crashed, attempts, tag>>

\* Faulty variant: an error is acknowledged as well.
AdapterKindAck(d) == "ack"

AdapterKind(d) == IF dlv[d].result = "ok" THEN "ack" ELSE "nack"

AdapterRespond(d) ==
    /\ dlv[d] # None /\ dlv[d].main = "run"
    /\ Respond(d, AdapterKind(d))
    /\ dlv' = [dlv EXCEPT ![d].main = "auto", ![d].sent = SentAfter(d)]
    /\ UNCHANGED <<marked, effects, crashed, attempts, tag>>

\* go-nsq finishes or requeues a message by what the handler returned, unless
\* it has been answered; RabbitMQ's adapter turns to the next message.
HandlerReturn(d) ==
    /\ dlv[d] # None /\ dlv[d].main = "auto"
    /\ IF AutoRespond
         THEN /\ Respond(d, AdapterKind(d))
              /\ dlv' = [dlv EXCEPT ![d].main = "end", ![d].sent = SentAfter(d)]
         ELSE /\ UNCHANGED owner
              /\ dlv' = [dlv EXCEPT ![d].main = "end"]
    /\ UNCHANGED <<marked, effects, crashed, attempts, tag>>

Work(d) ==
    \/ CheckDedup(d)
    \/ Handle(d)
    \/ HandlerSettle(d)
    \/ HandlerRespond(d)
    \/ Succeed(d)
    \/ FailAttempt(d)
    \/ Panic(d)

Adapter(d) ==
    \/ Result(d)
    \/ Timeout(d)
    \/ AdapterSettle(d)
    \/ AdapterRespond(d)
    \/ HandlerReturn(d)

Next ==
    \/ \E m \in Messages, d \in Deliveries : Deliver(m, d)
    \/ \E m \in Messages : GiveUp(m)
    \/ \E m \in Messages : Requeue(m)
    \/ Restart
    \/ \E d \in Deliveries : Work(d)
    \/ \E d \in Deliveries : Adapter(d)

Spec == Init /\ [][Next]_vars

\* The adapter's goroutines are scheduled and timers fire; a handler may hang.
FairSpec == Spec /\ \A d \in Deliveries : WF_vars(Adapter(d))

-----------------------------------------------------------------------------
(* Properties.                                                              *)

\* A delivery is answered at most once, whoever settles it: the handler, the
\* adapter, or a handler that outlived its timeout (Message.settle).  RabbitMQ
\* closes the channel on a second answer.
AnsweredOnce == \A d \in Deliveries : dlv[d] # None => dlv[d].sent <= 1

\* The broker forgets m only if the handler has processed it once or has
\* acknowledged it itself, or after MaxAttempts deliveries.
Kept(m) ==
    owner[m] = Done =>
        \/ effects[m] > 0
        \/ \E d \in Deliveries :
              dlv[d] # None /\ dlv[d].msg = m /\ dlv[d].userAck
        \/ MaxAttempts > 0 /\ attempts[m] >= MaxAttempts

\* Neither a failed, timed-out or skipped run of the handler chain nor the end
\* of the process loses a message.
NothingLost == \A m \in Messages : Kept(m)

\* What the deduplication store says was processed was processed: a UUID is
\* marked only after the handler has succeeded.
MarkedIsProcessed == \A m \in Messages : m \in marked => effects[m] > 0

\* A finished message is never handed out again.
DoneIsFinal == [][\A m \in Messages : owner[m] = Done => owner'[m] = Done]_vars

\* The messages with an id of their own that some run of the handler chain has
\* processed or the handler has acknowledged, that are at their last attempt, and
\* that the broker has forgotten.
Identified == Messages \ NoId

Handled == {m \in Identified :
              \/ effects[m] > 0
              \/ \E d \in Deliveries :
                    dlv[d] # None /\ dlv[d].msg = m /\ dlv[d].userAck}

Spent == {m \in Identified : MaxAttempts > 0 /\ attempts[m] >= MaxAttempts}

Forgotten == {m \in Identified : owner[m] = Done}

Contract == INSTANCE DeliveryContract
              WITH Messages <- Identified, handled <- Handled,
                   spent <- Spent, forgotten <- Forgotten

\* Adapter, middlewares and broker implement at-least-once delivery: no step
\* forgets a message for another's result, takes back what was processed or
\* acknowledged, or brings back what was forgotten.
ImplementsContract == Contract!Spec

\* With TimeoutMiddleware the adapter answers the broker and is free for the
\* next message even if the handler never returns.
TimeoutFreesAdapter ==
    \A d \in Deliveries : Active(d) ~> ~Active(d)

\* The comment on RecoverMiddleware: it keeps the failure of one message from
\* crashing the whole program.
RecoverKeepsProcess == UseRecover => ~crashed

=============================================================================
