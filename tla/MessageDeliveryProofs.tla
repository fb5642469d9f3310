----------------------- MODULE MessageDeliveryProofs -----------------------
(****************************************************************************)
(* Proofs about MessageDelivery for every set of messages, every chain of   *)
(* middlewares and any number of deliveries: a delivery is answered at most *)
(* once, nothing is lost, a finished message stays finished, and the whole  *)
(* implements DeliveryContract.                                             *)
(****************************************************************************)
EXTENDS MessageDelivery, TLAPS

\* Who has taken the settled flag, and what that leaves to be sent.  Without
\* go-nsq's own check the flag alone keeps a second answer from being sent.
SettledBy(r) ==
    /\ r.sent \in {0, 1}
    /\ r.work = "run" \/ r.main = "run" =>
          r.settled /\ (AutoRespond \/ r.sent = 0)
    /\ ~(r.work = "run" /\ r.main = "run")
    /\ ~AutoRespond /\ r.sent = 1 => r.settled

\* A positive result comes from a handler that has processed the message; only
\* a message without an id may be taken for another one.
ResultsTrue(r) ==
    /\ IF r.msg \in NoId THEN r.uuid \in Nat ELSE r.uuid = r.msg
    /\ r.msg \notin NoId =>
          /\ r.work \in {"settle", "run", "after", "done"} /\ r.outcome = "ok" =>
                effects[r.msg] > 0
          /\ r.result = "ok" => effects[r.msg] > 0
    /\ r.work = "run" /\ r.calls = "ack" => r.userAck

\* A recovered or retried panic never reaches the adapter as a result.
NoPanicReturned(r) == r.work = "done" => r.outcome # "panic"

\* A message that has an id is not lost.
IdentifiedKept == \A m \in Messages \ NoId : Kept(m)

DInv ==
    /\ TypeOK
    /\ \A d \in Deliveries : dlv[d] # None =>
          /\ SettledBy(dlv[d])
          /\ ResultsTrue(dlv[d])
          /\ NoPanicReturned(dlv[d])
    /\ MarkedIsProcessed
    /\ IdentifiedKept

-----------------------------------------------------------------------------
\* A step that changes one delivery keeps the invariant if its new state is
\* consistent, processing is never undone, and a message becomes done only
\* for a reason NothingLost accepts.
LEMMA OneDelivery ==
    ASSUME DInv, NEW d \in Deliveries, dlv[d] # None,
           NEW r \in Delivery, dlv' = [dlv EXCEPT ![d] = r],
           r.msg = dlv[d].msg, dlv[d].userAck => r.userAck,
           SettledBy(r), ResultsTrue(r)', NoPanicReturned(r),
           effects' \in [Messages -> Nat],
           \A m \in Messages : effects'[m] >= effects[m],
           marked' \subseteq Messages \cup Nat,
           \A m \in Messages : m \in marked' => effects'[m] > 0,
           owner' \in [Messages -> Deliveries \cup {Ready, Done}],
           \A m \in Messages : owner'[m] = Done =>
              \/ owner[m] = Done \/ m \in NoId
              \/ m = r.msg /\ (effects'[m] > 0 \/ r.userAck),
           crashed' \in BOOLEAN,
           attempts' = attempts, tag' \in Nat
    PROVE  DInv'
<1>1. TypeOK
    BY DEF DInv
<1>2. dlv[d] \in Delivery /\ r # None
    BY <1>1, NoneIsNoDelivery DEF TypeOK
<1>3. /\ dlv'[d] = r
      /\ \A e \in Deliveries : e # d => dlv'[e] = dlv[e]
    BY <1>1 DEF TypeOK
<1>4. TypeOK'
    BY <1>1 DEF TypeOK
<1>5. ASSUME NEW e \in Deliveries, dlv'[e] # None
      PROVE  SettledBy(dlv'[e]) /\ ResultsTrue(dlv[e])' /\ NoPanicReturned(dlv'[e])
  <2>1. CASE e = d
      BY <1>3, <2>1 DEF ResultsTrue
  <2>2. CASE e # d
    <3>1. dlv[e] \in Delivery /\ dlv'[e] = dlv[e]
        BY <1>1, <1>3, <1>5, <2>2 DEF TypeOK
    <3>2. /\ dlv[e].msg \in Messages
          /\ effects[dlv[e].msg] \in Nat /\ effects'[dlv[e].msg] \in Nat
        BY <1>1, <3>1 DEF Delivery, TypeOK
    <3>3. effects[dlv[e].msg] > 0 => effects'[dlv[e].msg] > 0
        BY <3>2
    <3> QED
        BY <1>5, <3>1, <3>3 DEF DInv, ResultsTrue
  <2> QED
      BY <2>1, <2>2
<1>6. MarkedIsProcessed'
    BY DEF MarkedIsProcessed
<1>7. IdentifiedKept'
  <2> SUFFICES ASSUME NEW m \in Messages \ NoId, owner'[m] = Done
               PROVE  \/ effects'[m] > 0
                      \/ \E e \in Deliveries :
                            dlv'[e] # None /\ dlv'[e].msg = m /\ dlv'[e].userAck
                      \/ MaxAttempts > 0 /\ attempts'[m] >= MaxAttempts
      BY DEF IdentifiedKept, Kept
  <2>1. CASE owner[m] = Done
    <3>1. \/ effects[m] > 0
          \/ \E e \in Deliveries :
                dlv[e] # None /\ dlv[e].msg = m /\ dlv[e].userAck
          \/ MaxAttempts > 0 /\ attempts[m] >= MaxAttempts
        BY <2>1 DEF DInv, IdentifiedKept, Kept
    <3>2. CASE effects[m] > 0
      <4>1. effects[m] \in Nat /\ effects'[m] \in Nat /\ effects'[m] >= effects[m]
          BY <1>1 DEF TypeOK
      <4> QED
          BY <3>2, <4>1
    <3>3. CASE \E e \in Deliveries :
                  dlv[e] # None /\ dlv[e].msg = m /\ dlv[e].userAck
        BY <1>2, <1>3, <3>3
    <3> QED
        BY <3>1, <3>2, <3>3
  <2>2. CASE m = r.msg /\ (effects'[m] > 0 \/ r.userAck)
      BY <1>2, <1>3, <2>2
  <2> QED
      BY <2>1, <2>2
<1> QED
    BY <1>4, <1>5, <1>6, <1>7 DEF DInv

\* An answer makes a message done only if it is an Ack and the message is out
\* with that delivery.
LEMMA RespondCases ==
    ASSUME TypeOK, NEW d \in Deliveries, dlv[d] \in Delivery,
           NEW kind, Respond(d, kind)
    PROVE  /\ owner' \in [Messages -> Deliveries \cup {Ready, Done}]
           /\ \A m \in Messages : owner'[m] = Done =>
                 owner[m] = Done \/ (m = dlv[d].msg /\ kind = "ack")
           /\ \A m \in Messages : owner[m] = Done => owner'[m] = Done
<1>1. /\ dlv[d].msg \in Messages
      /\ owner \in [Messages -> Deliveries \cup {Ready, Done}]
    BY DEF TypeOK, Delivery
<1>2. Done # d
    BY BrokerStates DEF Deliveries
<1> QED
    BY <1>1, <1>2, BrokerStates DEF Respond

\* What SentAfter leaves when there was at most one answer.
LEMMA SentAfterCases ==
    ASSUME NEW d \in Deliveries, dlv[d].sent \in {0, 1},
           AutoRespond \/ dlv[d].sent = 0
    PROVE  SentAfter(d) = 1
BY SwitchesBoolean DEF SentAfter

\* The state of a delivery, as the invariant gives it.
LEMMA DeliveryState ==
    ASSUME DInv, NEW d \in Deliveries, dlv[d] # None
    PROVE  /\ dlv[d] \in Delivery
           /\ dlv[d].msg \in Messages
           /\ SettledBy(dlv[d]) /\ ResultsTrue(dlv[d])
           /\ NoPanicReturned(dlv[d])
           /\ effects[dlv[d].msg] \in Nat
BY DEF DInv, TypeOK, Delivery

\* A step that leaves the broker, the store and the counters alone.
LEMMA LocalStep ==
    ASSUME DInv, NEW d \in Deliveries, dlv[d] # None,
           NEW r \in Delivery, dlv' = [dlv EXCEPT ![d] = r],
           r.msg = dlv[d].msg, dlv[d].userAck => r.userAck,
           SettledBy(r), ResultsTrue(r), NoPanicReturned(r),
           owner' = owner, marked' = marked, effects' = effects,
           crashed' = crashed, attempts' = attempts,
           tag' = tag
    PROVE  DInv'
<1>1. TypeOK /\ MarkedIsProcessed
    BY DEF DInv
<1>2. ResultsTrue(r)'
    BY DEF ResultsTrue
<1>3. \A m \in Messages : effects'[m] >= effects[m]
    BY <1>1 DEF TypeOK
<1>4. \A m \in Messages : m \in marked' => effects'[m] > 0
    BY <1>1 DEF MarkedIsProcessed
<1> QED
    BY <1>1, <1>2, <1>3, <1>4, OneDelivery DEF TypeOK

\* A step that answers the broker: an Ack needs a reason.
LEMMA AnswerStep ==
    ASSUME DInv, NEW d \in Deliveries, dlv[d] # None,
           NEW r \in Delivery, dlv' = [dlv EXCEPT ![d] = r],
           r.msg = dlv[d].msg, r.userAck = dlv[d].userAck,
           SettledBy(r), ResultsTrue(r), NoPanicReturned(r),
           NEW kind, Respond(d, kind),
           kind = "ack" =>
              dlv[d].msg \in NoId \/ effects[dlv[d].msg] > 0 \/ r.userAck,
           marked' = marked, effects' = effects,
           crashed' = crashed, attempts' = attempts,
           tag' = tag
    PROVE  DInv'
<1>1. TypeOK /\ MarkedIsProcessed /\ dlv[d] \in Delivery
    BY DeliveryState DEF DInv
<1>2. /\ owner' \in [Messages -> Deliveries \cup {Ready, Done}]
      /\ \A m \in Messages : owner'[m] = Done =>
            owner[m] = Done \/ (m = dlv[d].msg /\ kind = "ack")
    BY <1>1, RespondCases
<1>3. ResultsTrue(r)'
    BY DEF ResultsTrue
<1>4. \A m \in Messages : effects'[m] >= effects[m]
    BY <1>1 DEF TypeOK
<1>5. \A m \in Messages : m \in marked' => effects'[m] > 0
    BY <1>1 DEF MarkedIsProcessed
<1>6. \A m \in Messages : owner'[m] = Done =>
         \/ owner[m] = Done \/ m \in NoId
         \/ m = r.msg /\ (effects'[m] > 0 \/ r.userAck)
    BY <1>2
<1> QED
    BY <1>1, <1>2, <1>3, <1>4, <1>5, <1>6, OneDelivery DEF TypeOK

\* The end of the process keeps the invariant: what was settled stays settled,
\* and no message that was not done becomes done.
LEMMA EndStep ==
    ASSUME DInv, ProcessEnds, marked' = marked, effects' = effects,
           attempts' = attempts, crashed' \in BOOLEAN
    PROVE  DInv'
<1>0. TypeOK /\ MarkedIsProcessed /\ IdentifiedKept
    BY DEF DInv
<1>1. /\ dlv' = [e \in Deliveries |->
                   IF dlv[e] = None THEN None
                   ELSE [dlv[e] EXCEPT !.main = "end", !.work = "dead"]]
      /\ owner' = [m \in Messages |->
                     IF owner[m] \in Deliveries THEN Ready ELSE owner[m]]
      /\ tag' = 0
    BY DEF ProcessEnds
<1>2. ASSUME NEW e \in Deliveries, dlv[e] # None
      PROVE  /\ dlv'[e] \in Delivery /\ dlv'[e] # None
             /\ dlv'[e].msg = dlv[e].msg /\ dlv'[e].userAck = dlv[e].userAck
             /\ SettledBy(dlv'[e]) /\ NoPanicReturned(dlv'[e])
             /\ ResultsTrue(dlv[e])'
  <2>1. PICK r : r = [dlv[e] EXCEPT !.main = "end", !.work = "dead"]
      OBVIOUS
  <2>2. dlv'[e] = r
      BY <1>1, <1>2, <2>1
  <2>3. /\ r \in Delivery /\ r.msg = dlv[e].msg
        /\ r.userAck = dlv[e].userAck
        /\ SettledBy(r) /\ NoPanicReturned(r) /\ ResultsTrue(r)
      BY <1>2, <2>1, DeliveryState
      DEF Delivery, SettledBy, NoPanicReturned, ResultsTrue
  <2> QED
      BY <2>2, <2>3, NoneIsNoDelivery DEF ResultsTrue
<1>3. \A e \in Deliveries : dlv[e] = None => dlv'[e] = None
    BY <1>1
<1>4. TypeOK'
    BY <1>0, <1>1, <1>2, <1>3 DEF TypeOK
<1>5. \A m \in Messages : owner'[m] = Done => owner[m] = Done
    BY <1>0, <1>1, BrokerStates DEF TypeOK
<1>6. IdentifiedKept'
    BY <1>0, <1>2, <1>5 DEF IdentifiedKept, Kept
<1> QED
    BY <1>0, <1>2, <1>3, <1>4, <1>6 DEF DInv, MarkedIsProcessed

\* No step leaves the invariant.
LEMMA DInvStep ==
    ASSUME DInv, [Next]_vars PROVE DInv'
<1>0. TypeOK /\ MarkedIsProcessed /\ IdentifiedKept
    BY DEF DInv
<1>1. ASSUME NEW m \in Messages, NEW d \in Deliveries, Deliver(m, d)
      PROVE  DInv'
  <2>0. PICK r :
           r = [msg |-> m, uuid |-> UUID(m),
                main |-> IF m \in Undecodable THEN "auto" ELSE "wait",
                result |-> IF m \in Undecodable THEN "err" ELSE "none",
                work |-> IF m \in Undecodable THEN "dead" ELSE "dedup",
                outcome |-> "ok", calls |-> "none", tries |-> 0,
                cancelled |-> FALSE, settled |-> FALSE, userAck |-> FALSE,
                sent |-> 0]
      OBVIOUS
  <2>1. r \in Delivery
      BY <1>0, <2>0 DEF Delivery, UUID, TypeOK
  <2>2. SettledBy(r) /\ ResultsTrue(r)' /\ NoPanicReturned(r)
      BY <1>0, <2>0 DEF SettledBy, ResultsTrue, NoPanicReturned, UUID, TypeOK
  <2>3. /\ owner' = [owner EXCEPT ![m] = d]
        /\ dlv' = [dlv EXCEPT ![d] = r]
        /\ marked' = marked /\ effects' = effects
        /\ crashed' = crashed /\ dlv[d] = None
        /\ attempts' = [attempts EXCEPT ![m] = attempts[m] + 1]
        /\ tag' = tag + 1
      BY <1>1, <2>0 DEF Deliver
  <2>4. /\ dlv'[d] = r
        /\ \A e \in Deliveries : e # d => dlv'[e] = dlv[e]
      BY <1>0, <2>3 DEF TypeOK
  <2>5. TypeOK'
      BY <1>0, <2>1, <2>3 DEF TypeOK
  <2>6. \A e \in Deliveries : dlv'[e] # None =>
           SettledBy(dlv'[e]) /\ ResultsTrue(dlv[e])' /\ NoPanicReturned(dlv'[e])
      BY <2>2, <2>3, <2>4 DEF DInv, ResultsTrue
  <2>7. IdentifiedKept'
    <3>0. \A n \in Messages : attempts'[n] >= MaxAttempts
                              \/ ~(attempts[n] >= MaxAttempts)
        BY <1>0, <2>3, BoundsNatural DEF TypeOK
    <3>1. \A n \in Messages : owner'[n] = Done => owner[n] = Done
        BY <1>0, <2>3, BrokerStates DEF TypeOK, Deliveries
    <3> QED
        BY <1>0, <2>3, <2>4, <3>0, <3>1 DEF IdentifiedKept, Kept
  <2> QED
      BY <1>0, <2>3, <2>5, <2>6, <2>7 DEF DInv, MarkedIsProcessed
<1>2. ASSUME NEW m \in Messages, Requeue(m) PROVE DInv'
  <2>1. /\ owner' = [owner EXCEPT ![m] = Ready]
        /\ dlv' = dlv /\ marked' = marked /\ effects' = effects
        /\ crashed' = crashed /\ attempts' = attempts
        /\ tag' = tag
      BY <1>2 DEF Requeue
  <2>2. TypeOK'
      BY <1>0, <2>1 DEF TypeOK
  <2>3. \A n \in Messages : owner'[n] = Done => owner[n] = Done
      BY <1>0, <2>1, BrokerStates DEF TypeOK
  <2> QED
      BY <1>0, <2>1, <2>2, <2>3
      DEF DInv, IdentifiedKept, Kept, MarkedIsProcessed, ResultsTrue
<1>3. ASSUME NEW d \in Deliveries, CheckDedup(d) PROVE DInv'
  <2>1. PICK w \in {"done", "handle"} :
           /\ w = "done" => dlv[d].uuid \in marked
           /\ dlv' = [dlv EXCEPT ![d] = [dlv[d] EXCEPT !.work = w,
                                                       !.outcome = "ok"]]
      BY <1>0, <1>3, SwitchesBoolean DEF CheckDedup, TypeOK
  <2>2. /\ dlv[d] # None /\ dlv[d].work = "dedup"
        /\ owner' = owner /\ marked' = marked /\ effects' = effects
        /\ crashed' = crashed /\ attempts' = attempts
        /\ tag' = tag
      BY <1>3 DEF CheckDedup
  <2> DEFINE r == [dlv[d] EXCEPT !.work = w, !.outcome = "ok"]
  <2>3. /\ r \in Delivery /\ r.msg = dlv[d].msg /\ r.userAck = dlv[d].userAck
        /\ SettledBy(r) /\ NoPanicReturned(r)
      BY <2>1, <2>2, DeliveryState DEF Delivery, SettledBy, NoPanicReturned
  <2>4. ResultsTrue(r)
      BY <1>0, <2>1, <2>2, DeliveryState
      DEF Delivery, ResultsTrue, MarkedIsProcessed
  <2> QED
      BY <1>0, <2>1, <2>2, <2>3, <2>4, LocalStep DEF TypeOK
<1>4. ASSUME NEW d \in Deliveries, Handle(d) PROVE DInv'
  <2>1. /\ dlv[d] # None /\ dlv[d].work = "handle"
        /\ owner' = owner /\ marked' = marked
        /\ crashed' = crashed /\ attempts' = attempts
        /\ tag' = tag
      BY <1>4 DEF Handle
  <2>2. PICK o \in Outcomes, s \in HandlerCalls :
           /\ dlv' = [dlv EXCEPT ![d].outcome = o, ![d].calls = s,
                        ![d].work = IF s = "none" THEN "after" ELSE "settle"]
           /\ effects' = IF o = "ok"
                           THEN [effects EXCEPT ![dlv[d].msg] = @ + 1]
                           ELSE effects
      BY <1>4 DEF Handle
  <2>3. o \in {"ok", "err", "panic"} /\ s \in {"none", "ack", "nack"}
      BY HandlerTyped
  <2>4. PICK w \in {"after", "settle"} :
           dlv' = [dlv EXCEPT ![d] = [dlv[d] EXCEPT !.outcome = o, !.calls = s,
                                                    !.work = w]]
      BY <1>0, <2>2 DEF TypeOK
  <2>4a. PICK r : r = [dlv[d] EXCEPT !.outcome = o, !.calls = s, !.work = w]
      OBVIOUS
  <2>5. /\ effects' \in [Messages -> Nat]
        /\ \A m \in Messages : effects'[m] >= effects[m]
        /\ o = "ok" => effects'[dlv[d].msg] > 0
      BY <1>0, <2>1, <2>2, DeliveryState DEF TypeOK
  <2>6. /\ r \in Delivery /\ r.msg = dlv[d].msg /\ r.userAck = dlv[d].userAck
        /\ r.outcome = o /\ r.work = w /\ r.result = dlv[d].result
        /\ r.uuid = dlv[d].uuid
        /\ SettledBy(r) /\ NoPanicReturned(r)
      BY <2>1, <2>3, <2>4a, DeliveryState
      DEF Delivery, SettledBy, NoPanicReturned
  <2>7. effects[dlv[d].msg] > 0 => effects'[dlv[d].msg] > 0
    <3>1. effects[dlv[d].msg] \in Nat /\ effects'[dlv[d].msg] \in Nat
          /\ effects'[dlv[d].msg] >= effects[dlv[d].msg]
        BY <2>1, <2>5, DeliveryState
    <3> QED
        BY <3>1
  <2>8. ResultsTrue(r)'
    <3>1. /\ dlv[d].msg \notin NoId /\ dlv[d].result = "ok" =>
                effects[dlv[d].msg] > 0
          /\ IF dlv[d].msg \in NoId THEN dlv[d].uuid \in Nat
                                    ELSE dlv[d].uuid = dlv[d].msg
        BY <2>1, DeliveryState DEF ResultsTrue
    <3>2. /\ r.outcome = "ok" => effects'[r.msg] > 0
          /\ r.msg \notin NoId /\ r.result = "ok" => effects'[r.msg] > 0
          /\ r.work # "run"
          /\ IF r.msg \in NoId THEN r.uuid \in Nat ELSE r.uuid = r.msg
        BY <2>5, <2>6, <2>7, <3>1
    <3> QED
        BY <3>2 DEF ResultsTrue
  <2>9. \A m \in Messages : m \in marked' => effects'[m] > 0
    <3> SUFFICES ASSUME NEW m \in Messages, m \in marked'
                 PROVE  effects'[m] > 0
        OBVIOUS
    <3>1. /\ effects[m] > 0
          /\ effects[m] \in Nat /\ effects'[m] \in Nat
          /\ effects'[m] >= effects[m]
        BY <1>0, <2>1, <2>5 DEF TypeOK, MarkedIsProcessed
    <3> QED
        BY <3>1
  <2>10. dlv' = [dlv EXCEPT ![d] = r]
      BY <2>4, <2>4a
  <2> QED
      BY <1>0, <2>1, <2>5, <2>6, <2>8, <2>9, <2>10, OneDelivery DEF TypeOK
<1>5. ASSUME NEW d \in Deliveries, HandlerSettle(d) PROVE DInv'
  <2>1. /\ dlv[d] # None /\ dlv[d].work = "settle"
        /\ owner' = owner /\ marked' = marked /\ effects' = effects
        /\ crashed' = crashed /\ attempts' = attempts
        /\ tag' = tag
      BY <1>5 DEF HandlerSettle
  <2>2. CASE dlv[d].settled
    <3> DEFINE r == [dlv[d] EXCEPT !.work = "after", !.settled = TRUE,
                                   !.userAck = dlv[d].userAck]
    <3>1. dlv' = [dlv EXCEPT ![d] = r]
        BY <1>0, <1>5, <2>1, <2>2, DeliveryState
        DEF HandlerSettle, TypeOK, Delivery
    <3>2. /\ r \in Delivery /\ r.msg = dlv[d].msg /\ r.userAck = dlv[d].userAck
          /\ SettledBy(r) /\ NoPanicReturned(r) /\ ResultsTrue(r)
      <4>1. r \in Delivery /\ r.msg = dlv[d].msg /\ r.userAck = dlv[d].userAck
          BY <2>1, <2>2, DeliveryState DEF Delivery
      <4>2. SettledBy(r) /\ NoPanicReturned(r)
          BY <2>1, <2>2, DeliveryState DEF Delivery, SettledBy, NoPanicReturned
      <4>3. ResultsTrue(r)
          BY <2>1, <2>2, DeliveryState DEF Delivery, ResultsTrue
      <4> QED
          BY <4>1, <4>2, <4>3
    <3> QED
        BY <2>1, <3>1, <3>2, LocalStep
  <2>3. CASE ~dlv[d].settled
    <3> DEFINE u == dlv[d].userAck \/ dlv[d].calls = "ack"
               r == [dlv[d] EXCEPT !.work = "run", !.settled = TRUE,
                                   !.userAck = u]
    <3>0. u \in BOOLEAN /\ (dlv[d].userAck => u) /\ (dlv[d].calls = "ack" => u)
        OBVIOUS
    <3>1. dlv' = [dlv EXCEPT ![d] = r]
        BY <1>0, <1>5, <2>1, <2>3, DeliveryState
        DEF HandlerSettle, TypeOK, Delivery
    <3> HIDE DEF u
    <3>2. /\ r \in Delivery /\ r.msg = dlv[d].msg /\ r.userAck = u
          /\ r.calls = dlv[d].calls
          /\ NoPanicReturned(r)
        BY <2>1, <3>0, DeliveryState DEF Delivery, NoPanicReturned
    <3>3. SettledBy(r)
        BY <2>1, <2>3, <3>0, DeliveryState, SwitchesBoolean
        DEF Delivery, SettledBy
    <3>4. ResultsTrue(r)
        BY <2>1, <3>0, DeliveryState DEF Delivery, ResultsTrue
    <3> QED
        BY <2>1, <3>0, <3>1, <3>2, <3>3, <3>4, LocalStep
  <2> QED
      BY <2>2, <2>3
<1>6. ASSUME NEW d \in Deliveries, HandlerRespond(d) PROVE DInv'
  <2>1. /\ dlv[d] # None /\ dlv[d].work = "run"
        /\ marked' = marked /\ effects' = effects /\ crashed' = crashed /\ attempts' = attempts
        /\ tag' = tag
        /\ Respond(d, dlv[d].calls)
      BY <1>6 DEF HandlerRespond
  <2>2. SentAfter(d) = 1
      BY <2>1, DeliveryState, SentAfterCases DEF SettledBy
  <2>3. PICK r : r = [dlv[d] EXCEPT !.work = "after", !.sent = 1]
      OBVIOUS
  <2>4. dlv' = [dlv EXCEPT ![d] = r]
      BY <1>0, <1>6, <2>2, <2>3 DEF HandlerRespond, TypeOK
  <2>5. /\ r \in Delivery /\ r.msg = dlv[d].msg /\ r.userAck = dlv[d].userAck
        /\ SettledBy(r) /\ NoPanicReturned(r)
      BY <2>1, <2>3, DeliveryState DEF Delivery, SettledBy, NoPanicReturned
  <2>6. ResultsTrue(r)
      BY <2>1, <2>3, DeliveryState DEF Delivery, ResultsTrue
  <2>7. dlv[d].calls = "ack" => r.userAck
      BY <2>1, <2>5, DeliveryState DEF ResultsTrue
  <2> QED
      BY <1>0, <2>1, <2>4, <2>5, <2>6, <2>7, DeliveryState, AnswerStep
<1>7. ASSUME NEW d \in Deliveries, Succeed(d) PROVE DInv'
  <2>1. /\ dlv[d] # None /\ dlv[d].work = "after" /\ dlv[d].outcome = "ok"
        /\ owner' = owner /\ effects' = effects
        /\ crashed' = crashed /\ attempts' = attempts
        /\ tag' = tag
      BY <1>7 DEF Succeed
  <2>2. \A i \in marked' : i \in marked \/ i = dlv[d].uuid
      BY <1>7 DEF Succeed
  <2>3. PICK r : r = [dlv[d] EXCEPT !.work = "done"]
      OBVIOUS
  <2>4. dlv' = [dlv EXCEPT ![d] = r]
      BY <1>0, <1>7, <2>3 DEF Succeed, TypeOK
  <2>5. /\ r \in Delivery /\ r.msg = dlv[d].msg /\ r.userAck = dlv[d].userAck
        /\ SettledBy(r) /\ NoPanicReturned(r) /\ ResultsTrue(r)
      BY <2>1, <2>3, DeliveryState
      DEF Delivery, SettledBy, NoPanicReturned, ResultsTrue
  <2>6. ResultsTrue(r)'
      BY <2>1, <2>5 DEF ResultsTrue
  <2>7. /\ dlv[d].uuid \in Messages \cup Nat
        /\ dlv[d].uuid \in Messages => effects[dlv[d].uuid] > 0
      BY <2>1, DeliveryState, EnvelopesTyped DEF ResultsTrue, Delivery
  <2>8. /\ marked' \subseteq Messages \cup Nat
        /\ \A m \in Messages : m \in marked' => effects'[m] > 0
      BY <1>0, <2>1, <2>2, <2>7 DEF TypeOK, MarkedIsProcessed
  <2>9. \A m \in Messages : effects'[m] >= effects[m]
      BY <1>0, <2>1 DEF TypeOK
  <2> QED
      BY <1>0, <2>1, <2>4, <2>5, <2>6, <2>8, <2>9, OneDelivery DEF TypeOK
<1>8. ASSUME NEW d \in Deliveries, FailAttempt(d) PROVE DInv'
  <2>1. /\ dlv[d] # None /\ dlv[d].work = "after" /\ dlv[d].outcome = "err"
        /\ owner' = owner /\ marked' = marked /\ effects' = effects
        /\ crashed' = crashed /\ attempts' = attempts
        /\ tag' = tag
      BY <1>8 DEF FailAttempt
  <2>2. dlv[d] \in Delivery /\ dlv[d].tries \in Nat
      BY <2>1, DeliveryState DEF Delivery
  <2>3. PICK w \in {"dedup", "done"}, n \in Nat :
           dlv' = [dlv EXCEPT ![d] = [dlv[d] EXCEPT !.work = w, !.tries = n]]
    <3>1. CASE dlv' = [dlv EXCEPT ![d].work = "dedup", ![d].tries = @ + 1]
      <4>1. dlv[d].tries + 1 \in Nat
          BY <2>2
      <4>2. dlv' = [dlv EXCEPT ![d] = [dlv[d] EXCEPT !.work = "dedup",
                                          !.tries = dlv[d].tries + 1]]
          BY <1>0, <3>1 DEF TypeOK
      <4> QED
          BY <4>1, <4>2
    <3>2. CASE dlv' = [dlv EXCEPT ![d].work = "done"]
      <4>1. dlv' = [dlv EXCEPT ![d] = [dlv[d] EXCEPT !.work = "done",
                                          !.tries = dlv[d].tries]]
          BY <1>0, <2>2, <3>2 DEF TypeOK, Delivery
      <4> QED
          BY <2>2, <4>1
    <3> QED
        BY <1>8, <3>1, <3>2 DEF FailAttempt
  <2>4. PICK r : r = [dlv[d] EXCEPT !.work = w, !.tries = n]
      OBVIOUS
  <2>5. /\ r \in Delivery /\ r.msg = dlv[d].msg /\ r.userAck = dlv[d].userAck
        /\ SettledBy(r) /\ NoPanicReturned(r) /\ ResultsTrue(r)
      BY <2>1, <2>4, DeliveryState
      DEF Delivery, SettledBy, NoPanicReturned, ResultsTrue
  <2> QED
      BY <1>0, <2>1, <2>3, <2>4, <2>5, LocalStep DEF TypeOK
<1>9. ASSUME NEW d \in Deliveries, Panic(d) PROVE DInv'
  <2>1. /\ dlv[d] # None /\ dlv[d].work = "after" /\ dlv[d].outcome = "panic"
        /\ marked' = marked /\ effects' = effects
        /\ attempts' = attempts
      BY <1>9 DEF Panic
  <2>2. CASE UseRecover /\ ~UseTimeout
    <3>1. PICK r : r = [dlv[d] EXCEPT !.work = "done", !.outcome = "err"]
        OBVIOUS
    <3>2. /\ dlv' = [dlv EXCEPT ![d] = r]
          /\ owner' = owner /\ crashed' = crashed /\ attempts' = attempts
        /\ tag' = tag
        BY <1>0, <1>9, <2>2, <3>1 DEF Panic, TypeOK
    <3>3. /\ r \in Delivery /\ r.msg = dlv[d].msg /\ r.userAck = dlv[d].userAck
          /\ SettledBy(r) /\ NoPanicReturned(r) /\ ResultsTrue(r)
      <4>1. r \in Delivery /\ r.msg = dlv[d].msg /\ r.userAck = dlv[d].userAck
          BY <2>1, <3>1, DeliveryState DEF Delivery
      <4>2. SettledBy(r) /\ NoPanicReturned(r)
          BY <2>1, <3>1, DeliveryState DEF Delivery, SettledBy, NoPanicReturned
      <4>3. ResultsTrue(r)
          BY <2>1, <3>1, DeliveryState DEF Delivery, ResultsTrue
      <4> QED
          BY <4>1, <4>2, <4>3
    <3> QED
        BY <1>0, <2>1, <3>2, <3>3, LocalStep DEF TypeOK
  <2>3. CASE ~(UseRecover /\ ~UseTimeout)
      BY <1>9, <2>1, <2>3, EndStep DEF Panic
  <2> QED
      BY <2>2, <2>3
<1>10. ASSUME NEW d \in Deliveries, Result(d) PROVE DInv'
  <2>1. /\ dlv[d] # None /\ dlv[d].main = "wait" /\ dlv[d].work = "done"
        /\ owner' = owner /\ marked' = marked /\ effects' = effects
        /\ crashed' = crashed /\ attempts' = attempts
        /\ tag' = tag
      BY <1>10 DEF Result
  <2>2. PICK r : r = [dlv[d] EXCEPT !.main = "settle", !.cancelled = TRUE,
                                    !.result = dlv[d].outcome]
      OBVIOUS
  <2>3. dlv' = [dlv EXCEPT ![d] = r]
      BY <1>0, <1>10, <2>2 DEF Result, TypeOK
  <2>4. dlv[d].outcome \in {"ok", "err"}
      BY <2>1, DeliveryState DEF NoPanicReturned, Delivery
  <2>5. /\ r \in Delivery /\ r.msg = dlv[d].msg /\ r.userAck = dlv[d].userAck
        /\ SettledBy(r) /\ NoPanicReturned(r) /\ ResultsTrue(r)
    <3>1. r \in Delivery /\ r.msg = dlv[d].msg /\ r.userAck = dlv[d].userAck
        BY <2>1, <2>2, <2>4, DeliveryState DEF Delivery
    <3>2. SettledBy(r) /\ NoPanicReturned(r)
        BY <2>1, <2>2, <2>4, DeliveryState DEF Delivery, SettledBy, NoPanicReturned
    <3>3. ResultsTrue(r)
        BY <2>1, <2>2, <2>4, DeliveryState DEF Delivery, ResultsTrue
    <3> QED
        BY <3>1, <3>2, <3>3
  <2> QED
      BY <1>0, <2>1, <2>3, <2>5, LocalStep DEF TypeOK
<1>11. ASSUME NEW d \in Deliveries, Timeout(d) PROVE DInv'
  <2>1. /\ dlv[d] # None /\ dlv[d].main = "wait"
        /\ owner' = owner /\ marked' = marked /\ effects' = effects
        /\ crashed' = crashed /\ attempts' = attempts
        /\ tag' = tag
      BY <1>11 DEF Timeout
  <2>2. PICK r : r = [dlv[d] EXCEPT !.main = "settle", !.cancelled = TRUE,
                                    !.result = "err"]
      OBVIOUS
  <2>3. dlv' = [dlv EXCEPT ![d] = r]
      BY <1>0, <1>11, <2>2 DEF Timeout, TypeOK
  <2>4. /\ r \in Delivery /\ r.msg = dlv[d].msg /\ r.userAck = dlv[d].userAck
        /\ SettledBy(r) /\ NoPanicReturned(r) /\ ResultsTrue(r)
    <3>1. r \in Delivery /\ r.msg = dlv[d].msg /\ r.userAck = dlv[d].userAck
        BY <2>1, <2>2, DeliveryState DEF Delivery
    <3>2. SettledBy(r) /\ NoPanicReturned(r)
        BY <2>1, <2>2, DeliveryState DEF Delivery, SettledBy, NoPanicReturned
    <3>3. ResultsTrue(r)
        BY <2>1, <2>2, DeliveryState DEF Delivery, ResultsTrue
    <3> QED
        BY <3>1, <3>2, <3>3
  <2> QED
      BY <1>0, <2>1, <2>3, <2>4, LocalStep DEF TypeOK
<1>12. ASSUME NEW d \in Deliveries, AdapterSettle(d) PROVE DInv'
  <2>1. /\ dlv[d] # None /\ dlv[d].main = "settle"
        /\ owner' = owner /\ marked' = marked /\ effects' = effects
        /\ crashed' = crashed /\ attempts' = attempts
        /\ tag' = tag
      BY <1>12 DEF AdapterSettle
  <2>2. PICK w \in {"auto", "run"} :
           /\ w = "run" => ~dlv[d].settled
           /\ dlv' = [dlv EXCEPT ![d] = [dlv[d] EXCEPT !.main = w,
                                                       !.settled = TRUE]]
      BY <1>0, <1>12 DEF AdapterSettle, TypeOK
  <2>3. PICK r : r = [dlv[d] EXCEPT !.main = w, !.settled = TRUE]
      OBVIOUS
  <2>4. /\ r \in Delivery /\ r.msg = dlv[d].msg /\ r.userAck = dlv[d].userAck
        /\ NoPanicReturned(r) /\ ResultsTrue(r)
      BY <2>1, <2>3, DeliveryState DEF Delivery, NoPanicReturned, ResultsTrue
  <2>5. SettledBy(r)
      BY <2>1, <2>2, <2>3, DeliveryState, SwitchesBoolean
      DEF Delivery, SettledBy
  <2> QED
      BY <1>0, <2>1, <2>2, <2>3, <2>4, <2>5, LocalStep DEF TypeOK
<1>13. ASSUME NEW d \in Deliveries, AdapterRespond(d) PROVE DInv'
  <2>1. /\ dlv[d] # None /\ dlv[d].main = "run"
        /\ marked' = marked /\ effects' = effects /\ crashed' = crashed /\ attempts' = attempts
        /\ tag' = tag
        /\ Respond(d, AdapterKind(d))
      BY <1>13 DEF AdapterRespond
  <2>2. SentAfter(d) = 1
      BY <2>1, DeliveryState, SentAfterCases DEF SettledBy
  <2>3. PICK r : r = [dlv[d] EXCEPT !.main = "auto", !.sent = 1]
      OBVIOUS
  <2>4. dlv' = [dlv EXCEPT ![d] = r]
      BY <1>0, <1>13, <2>2, <2>3 DEF AdapterRespond, TypeOK
  <2>5. /\ r \in Delivery /\ r.msg = dlv[d].msg /\ r.userAck = dlv[d].userAck
        /\ SettledBy(r) /\ NoPanicReturned(r) /\ ResultsTrue(r)
      BY <2>1, <2>3, DeliveryState
      DEF Delivery, SettledBy, NoPanicReturned, ResultsTrue
  <2>6. AdapterKind(d) = "ack" => dlv[d].msg \in NoId \/ effects[dlv[d].msg] > 0
      BY <2>1, DeliveryState DEF AdapterKind, ResultsTrue
  <2> QED
      BY <1>0, <2>1, <2>4, <2>5, <2>6, DeliveryState, AnswerStep
<1>14. ASSUME NEW d \in Deliveries, HandlerReturn(d) PROVE DInv'
  <2>1. /\ dlv[d] # None /\ dlv[d].main = "auto"
        /\ marked' = marked /\ effects' = effects
        /\ crashed' = crashed /\ attempts' = attempts
        /\ tag' = tag
      BY <1>14 DEF HandlerReturn
  <2>2. CASE ~AutoRespond
    <3>1. PICK r : r = [dlv[d] EXCEPT !.main = "end"]
        OBVIOUS
    <3>2. dlv' = [dlv EXCEPT ![d] = r] /\ owner' = owner
        BY <1>0, <1>14, <2>2, <3>1 DEF HandlerReturn, TypeOK
    <3>3. /\ r \in Delivery /\ r.msg = dlv[d].msg /\ r.userAck = dlv[d].userAck
          /\ SettledBy(r) /\ NoPanicReturned(r) /\ ResultsTrue(r)
        BY <2>1, <3>1, DeliveryState
        DEF Delivery, SettledBy, NoPanicReturned, ResultsTrue
    <3> QED
        BY <1>0, <2>1, <3>2, <3>3, LocalStep DEF TypeOK
  <2>3. CASE AutoRespond
    <3>1. SentAfter(d) = 1
        BY <2>1, <2>3, DeliveryState, SentAfterCases DEF SettledBy
    <3>2. PICK r : r = [dlv[d] EXCEPT !.main = "end", !.sent = 1]
        OBVIOUS
    <3>3. dlv' = [dlv EXCEPT ![d] = r] /\ Respond(d, AdapterKind(d))
        BY <1>0, <1>14, <2>3, <3>1, <3>2 DEF HandlerReturn, TypeOK
    <3>4. /\ r \in Delivery /\ r.msg = dlv[d].msg /\ r.userAck = dlv[d].userAck
          /\ NoPanicReturned(r) /\ ResultsTrue(r)
        BY <2>1, <3>2, DeliveryState DEF Delivery, NoPanicReturned, ResultsTrue
    <3>5. SettledBy(r)
        BY <2>1, <2>3, <3>2, DeliveryState DEF Delivery, SettledBy
    <3>6. AdapterKind(d) = "ack" => dlv[d].msg \in NoId \/ effects[dlv[d].msg] > 0
        BY <2>1, DeliveryState DEF AdapterKind, ResultsTrue
    <3> QED
        BY <1>0, <2>1, <3>3, <3>4, <3>5, <3>6, DeliveryState, AnswerStep
  <2> QED
      BY <2>2, <2>3
<1>15. CASE UNCHANGED vars
  <2>1. /\ owner' = owner /\ dlv' = dlv /\ marked' = marked
        /\ effects' = effects /\ crashed' = crashed /\ attempts' = attempts
        /\ tag' = tag
      BY <1>15 DEF vars
  <2>2. TypeOK' /\ MarkedIsProcessed' /\ IdentifiedKept'
      BY <1>0, <2>1 DEF TypeOK, MarkedIsProcessed, IdentifiedKept, Kept
  <2>3. \A d \in Deliveries : dlv'[d] # None =>
           SettledBy(dlv'[d]) /\ ResultsTrue(dlv[d])' /\ NoPanicReturned(dlv'[d])
      BY <2>1 DEF DInv, ResultsTrue
  <2> QED
      BY <2>2, <2>3 DEF DInv
<1>2a. ASSUME NEW m \in Messages, GiveUp(m) PROVE DInv'
  <2>1. /\ owner' = [owner EXCEPT ![m] = Done]
        /\ MaxAttempts > 0 /\ attempts[m] >= MaxAttempts
        /\ dlv' = dlv /\ marked' = marked /\ effects' = effects
        /\ crashed' = crashed /\ attempts' = attempts
        /\ tag' = tag
      BY <1>2a DEF GiveUp
  <2>2. TypeOK'
      BY <1>0, <2>1 DEF TypeOK
  <2>3. \A n \in Messages : owner'[n] = Done => owner[n] = Done \/ n = m
      BY <1>0, <2>1 DEF TypeOK
  <2> QED
      BY <1>0, <2>1, <2>2, <2>3
      DEF DInv, IdentifiedKept, Kept, MarkedIsProcessed, ResultsTrue
<1>2b. ASSUME Restart PROVE DInv'
    BY <1>0, <1>2b, EndStep DEF Restart, TypeOK
<1>16. ASSUME NEW d \in Deliveries, Work(d) PROVE DInv'
    BY <1>3, <1>4, <1>5, <1>6, <1>7, <1>8, <1>9, <1>16 DEF Work
<1>17. ASSUME NEW d \in Deliveries, Adapter(d) PROVE DInv'
    BY <1>10, <1>11, <1>12, <1>13, <1>14, <1>17 DEF Adapter
<1> QED
    BY <1>1, <1>2, <1>2a, <1>2b, <1>15, <1>16, <1>17 DEF Next

-----------------------------------------------------------------------------
\* The invariant holds throughout.
THEOREM DeliveryInvariant == Spec => []DInv
<1>1. Init => DInv
  <2> SUFFICES ASSUME Init PROVE DInv
      OBVIOUS
  <2>1. TypeOK
      BY DEF Init, TypeOK
  <2>2. IdentifiedKept /\ MarkedIsProcessed
      BY BrokerStates DEF Init, IdentifiedKept, Kept, MarkedIsProcessed
  <2>3. \A d \in Deliveries : dlv[d] = None
      BY DEF Init
  <2> QED
      BY <2>1, <2>2, <2>3 DEF DInv
<1>2. DInv /\ [Next]_vars => DInv'
    BY DInvStep
<1> QED
    BY <1>1, <1>2, PTL DEF Spec

\* Every delivery, tag and mark stays within its type, through panics and restarts.
THEOREM TypeCorrect == Spec => []TypeOK
<1>1. DInv => TypeOK
    BY DEF DInv
<1> QED
    BY <1>1, DeliveryInvariant, PTL

\* The settled flag of Message.settle lets at most one answer per delivery
\* through to the broker, however the handler, its late goroutine and the
\* adapter interleave.
THEOREM AnsweredOnceAlways == Spec => []AnsweredOnce
<1>1. DInv => AnsweredOnce
    BY DEF DInv, AnsweredOnce, SettledBy
<1> QED
    BY <1>1, DeliveryInvariant, PTL

\* The adapters, Retry, Timeout and Deduplication never let the broker forget
\* a message that no handler has processed or acknowledged, if every message
\* carries an id of its own.
THEOREM NothingLostAlways ==
    ASSUME NoId = {} PROVE Spec => []NothingLost
<1>1. DInv => NothingLost
    BY DEF DInv, IdentifiedKept, NothingLost
<1> QED
    BY <1>1, DeliveryInvariant, PTL

\* A UUID in the deduplication store belongs to a processed message, although
\* checking it and marking it are separate steps of concurrent deliveries.
THEOREM MarkedAlways == Spec => []MarkedIsProcessed
<1>1. DInv => MarkedIsProcessed
    BY DEF DInv
<1> QED
    BY <1>1, DeliveryInvariant, PTL

\* No late answer, timeout or crash of the process brings a finished message
\* back.
THEOREM DoneStaysDone == Spec => DoneIsFinal
<1>1. DInv /\ [Next]_vars =>
         [\A m \in Messages : owner[m] = Done => owner'[m] = Done]_vars
  <2> SUFFICES ASSUME DInv, Next, NEW m \in Messages, owner[m] = Done
               PROVE  owner'[m] = Done
      OBVIOUS
  <2>1. TypeOK /\ Done \notin Deliveries /\ Ready # Done
      BY BrokerStates DEF DInv, Deliveries
  <2>2. ASSUME NEW n \in Messages, NEW d \in Deliveries, Deliver(n, d)
        PROVE  owner'[m] = Done
      BY <2>1, <2>2 DEF Deliver, TypeOK
  <2>3. ASSUME NEW n \in Messages, Requeue(n) PROVE owner'[m] = Done
      BY <2>1, <2>3 DEF Requeue, TypeOK
  <2>3a. ASSUME NEW n \in Messages, GiveUp(n) PROVE owner'[m] = Done
      BY <2>1, <2>3a DEF GiveUp, TypeOK
  <2>3b. ASSUME Restart PROVE owner'[m] = Done
      BY <2>1, <2>3b DEF Restart, ProcessEnds, TypeOK
  <2>4. ASSUME NEW d \in Deliveries, dlv[d] # None, NEW kind, Respond(d, kind)
        PROVE  owner'[m] = Done
      BY <2>1, <2>4, RespondCases, DeliveryState
  <2>5. ASSUME NEW d \in Deliveries, Work(d) PROVE owner'[m] = Done
    <3>1. CASE HandlerRespond(d)
        BY <2>4, <3>1 DEF HandlerRespond
    <3>2. CASE Panic(d)
        BY <2>1, <3>2 DEF Panic, ProcessEnds, TypeOK
    <3>3. CASE \/ CheckDedup(d) \/ Handle(d) \/ HandlerSettle(d)
               \/ Succeed(d) \/ FailAttempt(d)
        BY <3>3 DEF CheckDedup, Handle, HandlerSettle, Succeed, FailAttempt
    <3> QED
        BY <2>5, <3>1, <3>2, <3>3 DEF Work
  <2>6. ASSUME NEW d \in Deliveries, Adapter(d) PROVE owner'[m] = Done
    <3>1. CASE AdapterRespond(d)
        BY <2>4, <3>1 DEF AdapterRespond
    <3>2. CASE HandlerReturn(d)
        BY <2>4, <3>2 DEF HandlerReturn
    <3>3. CASE Result(d) \/ Timeout(d) \/ AdapterSettle(d)
        BY <3>3 DEF Result, Timeout, AdapterSettle
    <3> QED
        BY <2>6, <3>1, <3>2, <3>3 DEF Adapter
  <2> QED
      BY <2>2, <2>3, <2>3a, <2>3b, <2>5, <2>6 DEF Next
<1> QED
    BY <1>1, DeliveryInvariant, PTL DEF Spec, DoneIsFinal

-----------------------------------------------------------------------------
(* The contract.                                                            *)

\* A delivery that changes leaves what was handled; if it has the handler's own
\* Ack now, its message is handled.
LEMMA HandledMoves ==
    ASSUME DInv, NEW d \in Deliveries, dlv[d] # None,
           NEW r \in Delivery, dlv' = [dlv EXCEPT ![d] = r],
           r.msg = dlv[d].msg, dlv[d].userAck => r.userAck,
           effects' = effects
    PROVE  Handled' = IF r.userAck THEN Handled \cup ({dlv[d].msg} \cap Identified)
                                   ELSE Handled
<1>1. /\ dlv'[d] = r /\ r # None
      /\ \A e \in Deliveries : e # d => dlv'[e] = dlv[e]
    BY NoneIsNoDelivery DEF DInv, TypeOK
<1>2. \A m \in Identified :
         (\E e \in Deliveries : dlv'[e] # None /\ dlv'[e].msg = m /\ dlv'[e].userAck)
         <=> \/ \E e \in Deliveries : dlv[e] # None /\ dlv[e].msg = m /\ dlv[e].userAck
             \/ m = r.msg /\ r.userAck
    BY <1>1
<1> QED
    BY <1>2 DEF Handled, Identified

\* A step that only moves one delivery on is none of the contract's.
LEMMA MoveIsNone ==
    ASSUME DInv, NEW d \in Deliveries, dlv[d] # None,
           NEW r \in Delivery, dlv' = [dlv EXCEPT ![d] = r],
           r.msg = dlv[d].msg, r.userAck = dlv[d].userAck,
           effects' = effects, attempts' = attempts
    PROVE  Handled' = Handled /\ Spent' = Spent
<1>1. dlv[d].userAck => {dlv[d].msg} \cap Identified \subseteq Handled
    BY DEF Handled
<1>2. Handled' = Handled
    BY <1>1, HandledMoves
<1> QED
    BY <1>2 DEF Spent

\* An answer of a delivery is a Forget or none: an Ack has its reason.
LEMMA AnswerForgets ==
    ASSUME DInv, NEW d \in Deliveries, dlv[d] # None,
           NEW r \in Delivery, dlv' = [dlv EXCEPT ![d] = r],
           r.msg = dlv[d].msg, r.userAck = dlv[d].userAck,
           NEW kind, Respond(d, kind),
           kind = "ack" =>
              dlv[d].msg \in NoId \/ effects[dlv[d].msg] > 0 \/ dlv[d].userAck,
           effects' = effects, attempts' = attempts
    PROVE  [Contract!Next]_(Contract!cVars)
<1>1. Handled' = Handled /\ Spent' = Spent
    BY MoveIsNone
<1>2. TypeOK /\ dlv[d] \in Delivery /\ dlv[d].msg \in Messages
    BY DeliveryState DEF DInv
<1>3. /\ \A m \in Messages : owner'[m] = Done =>
            owner[m] = Done \/ (m = dlv[d].msg /\ kind = "ack")
      /\ \A m \in Messages : owner[m] = Done => owner'[m] = Done
    BY <1>2, RespondCases
<1>4. CASE Forgotten' = Forgotten
    BY <1>1, <1>4 DEF Contract!cVars
<1>5. CASE Forgotten' # Forgotten
  <2>1. PICK m \in Identified : owner'[m] = Done /\ owner[m] # Done
      BY <1>3, <1>5 DEF Forgotten, Identified
  <2>2. m = dlv[d].msg /\ kind = "ack"
      BY <1>3, <2>1 DEF Identified
  <2>3. m \in Handled
      BY <2>1, <2>2 DEF Handled, Identified
  <2>4. Forgotten' = Forgotten \cup {m}
      BY <1>3, <2>1, <2>2 DEF Forgotten, Identified
  <2>5. Contract!Forget(m)
      BY <1>1, <2>3, <2>4 DEF Contract!Forget
  <2> QED
      BY <2>1, <2>5 DEF Contract!Next
<1> QED
    BY <1>4, <1>5

\* The end of the process: what was handled stays so, nothing is forgotten.
LEMMA EndIsNone ==
    ASSUME DInv, ProcessEnds, effects' = effects, attempts' = attempts
    PROVE  UNCHANGED Contract!cVars
<1>1. /\ \A e \in Deliveries : dlv[e] = None => dlv'[e] = None
      /\ \A e \in Deliveries : dlv[e] # None =>
            dlv'[e] = [dlv[e] EXCEPT !.main = "end", !.work = "dead"]
    BY DEF ProcessEnds
<1>2. ASSUME NEW e \in Deliveries, dlv[e] # None
      PROVE  /\ dlv'[e] # None
             /\ dlv'[e].msg = dlv[e].msg /\ dlv'[e].userAck = dlv[e].userAck
  <2>1. PICK r : r = [dlv[e] EXCEPT !.main = "end", !.work = "dead"]
      OBVIOUS
  <2>2. r \in Delivery /\ r.msg = dlv[e].msg /\ r.userAck = dlv[e].userAck
      BY <1>2, <2>1, DeliveryState DEF Delivery
  <2> QED
      BY <1>1, <1>2, <2>1, <2>2, NoneIsNoDelivery
<1>3. Handled' = Handled
    BY <1>1, <1>2 DEF Handled
<1>4. \A m \in Messages : owner'[m] = Done <=> owner[m] = Done
  <2>1. \A m \in Messages :
           owner'[m] = IF owner[m] \in Deliveries THEN Ready ELSE owner[m]
      BY DEF ProcessEnds
  <2>2. Done \notin Deliveries /\ Ready # Done
      BY BrokerStates DEF Deliveries
  <2> QED
      BY <2>1, <2>2
<1>5. Forgotten' = Forgotten
    BY <1>4 DEF Forgotten, Identified
<1> QED
    BY <1>3, <1>5 DEF Contract!cVars, Spent

\* The adapter's broker steps: an attempt more, a message given up or taken back.
LEMMA BrokerContract ==
    ASSUME DInv, NEW m \in Messages,
           \/ \E d \in Deliveries : Deliver(m, d)
           \/ GiveUp(m) \/ Requeue(m)
    PROVE  [Contract!Next]_(Contract!cVars)
<1>0. TypeOK /\ Done \notin Deliveries /\ Ready # Done
    BY BrokerStates DEF DInv, Deliveries
<1>1. ASSUME NEW d \in Deliveries, Deliver(m, d)
      PROVE  [Contract!Next]_(Contract!cVars)
  <2>0. PICK r :
           r = [msg |-> m, uuid |-> UUID(m),
                main |-> IF m \in Undecodable THEN "auto" ELSE "wait",
                result |-> IF m \in Undecodable THEN "err" ELSE "none",
                work |-> IF m \in Undecodable THEN "dead" ELSE "dedup",
                outcome |-> "ok", calls |-> "none", tries |-> 0,
                cancelled |-> FALSE, settled |-> FALSE, userAck |-> FALSE,
                sent |-> 0]
      OBVIOUS
  <2>1. /\ owner[m] = Ready /\ owner' = [owner EXCEPT ![m] = d]
        /\ MaxAttempts = 0 \/ attempts[m] < MaxAttempts
        /\ dlv[d] = None /\ dlv' = [dlv EXCEPT ![d] = r]
        /\ attempts' = [attempts EXCEPT ![m] = attempts[m] + 1]
        /\ effects' = effects
      BY <1>1, <2>0 DEF Deliver
  <2>2. /\ dlv'[d] = r /\ ~r.userAck
        /\ \A e \in Deliveries : e # d => dlv'[e] = dlv[e]
      BY <1>0, <2>0, <2>1 DEF TypeOK
  <2>3. Handled' = Handled
      BY <2>1, <2>2 DEF Handled
  <2>4. \A n \in Messages : owner'[n] = Done <=> owner[n] = Done
      BY <1>0, <2>1 DEF TypeOK
  <2>5. Forgotten' = Forgotten
      BY <2>4 DEF Forgotten, Identified
  <2>6. CASE m \in Identified /\ MaxAttempts > 0 /\ attempts'[m] >= MaxAttempts
    <3>1. Spent' = Spent \cup {m}
        BY <1>0, <2>1, <2>6 DEF Spent, Identified, TypeOK
    <3> QED
        BY <2>3, <2>5, <2>6, <3>1 DEF Contract!Next, Contract!Spend
  <2>7. CASE ~(m \in Identified /\ MaxAttempts > 0 /\ attempts'[m] >= MaxAttempts)
    <3>1. attempts[m] \in Nat /\ MaxAttempts \in Nat
        BY <1>0, BoundsNatural DEF TypeOK
    <3>2. \A n \in Identified :
             MaxAttempts > 0 =>
                (attempts'[n] >= MaxAttempts <=> attempts[n] >= MaxAttempts)
        BY <1>0, <2>1, <2>7, <3>1 DEF Identified, TypeOK
    <3>3. Spent' = Spent
        BY <3>2 DEF Spent
    <3> QED
        BY <2>3, <2>5, <3>3 DEF Contract!cVars
  <2> QED
      BY <2>6, <2>7
<1>2. ASSUME GiveUp(m) PROVE [Contract!Next]_(Contract!cVars)
  <2>1. /\ owner' = [owner EXCEPT ![m] = Done]
        /\ MaxAttempts > 0 /\ attempts[m] >= MaxAttempts
        /\ Handled' = Handled /\ Spent' = Spent
      BY <1>2 DEF GiveUp, Handled, Spent
  <2>2. CASE m \in Identified
    <3>1. Forgotten' = Forgotten \cup {m}
        BY <1>0, <2>1, <2>2 DEF Forgotten, Identified, TypeOK
    <3>2. m \in Spent
        BY <2>1, <2>2 DEF Spent
    <3> QED
        BY <2>1, <2>2, <3>1, <3>2 DEF Contract!Next, Contract!Forget
  <2>3. CASE m \notin Identified
    <3>1. Forgotten' = Forgotten
        BY <1>0, <2>1, <2>3 DEF Forgotten, Identified, TypeOK
    <3> QED
        BY <2>1, <3>1 DEF Contract!cVars
  <2> QED
      BY <2>2, <2>3
<1>3. ASSUME Requeue(m) PROVE [Contract!Next]_(Contract!cVars)
  <2>1. \A n \in Messages : owner'[n] = Done <=> owner[n] = Done
      BY <1>0, <1>3 DEF Requeue, TypeOK
  <2>2. /\ Forgotten' = Forgotten
        /\ Handled' = Handled /\ Spent' = Spent
      BY <1>3, <2>1 DEF Requeue, Forgotten, Handled, Spent, Identified
  <2> QED
      BY <2>2 DEF Contract!cVars
<1> QED
    BY <1>1, <1>2, <1>3

\* The handler's goroutine: what it processes or acknowledges is handled, and
\* only its own answer forgets.
LEMMA WorkContract ==
    ASSUME DInv, NEW d \in Deliveries, Work(d)
    PROVE  [Contract!Next]_(Contract!cVars)
<1>0. TypeOK
    BY DEF DInv
<1>1. CASE CheckDedup(d)
  <2>1. /\ dlv[d] # None
        /\ owner' = owner /\ effects' = effects /\ attempts' = attempts
      BY <1>1 DEF CheckDedup
  <2>2. PICK w \in {"done", "handle"} :
           dlv' = [dlv EXCEPT ![d] = [dlv[d] EXCEPT !.work = w, !.outcome = "ok"]]
      BY <1>0, <1>1 DEF CheckDedup, TypeOK
  <2>3. PICK r : r = [dlv[d] EXCEPT !.work = w, !.outcome = "ok"]
      OBVIOUS
  <2>4. r \in Delivery /\ r.msg = dlv[d].msg /\ r.userAck = dlv[d].userAck
      BY <2>1, <2>3, DeliveryState DEF Delivery
  <2> QED
      BY <2>1, <2>2, <2>3, <2>4, MoveIsNone DEF Contract!cVars, Forgotten
<1>2. CASE Handle(d)
  <2>1. /\ dlv[d] # None /\ owner' = owner /\ attempts' = attempts
      BY <1>2 DEF Handle
  <2>2. PICK o \in Outcomes, s \in HandlerCalls :
           /\ dlv' = [dlv EXCEPT ![d].outcome = o, ![d].calls = s,
                        ![d].work = IF s = "none" THEN "after" ELSE "settle"]
           /\ effects' = IF o = "ok"
                           THEN [effects EXCEPT ![dlv[d].msg] = @ + 1]
                           ELSE effects
      BY <1>2 DEF Handle
  <2>3. PICK w \in {"after", "settle"} :
           dlv' = [dlv EXCEPT ![d] = [dlv[d] EXCEPT !.outcome = o, !.calls = s,
                                                    !.work = w]]
      BY <1>0, <2>2 DEF TypeOK
  <2>4. PICK r : r = [dlv[d] EXCEPT !.outcome = o, !.calls = s, !.work = w]
      OBVIOUS
  <2>4a. o \in {"ok", "err", "panic"} /\ s \in {"none", "ack", "nack"}
      BY HandlerTyped
  <2>5. r \in Delivery /\ r.msg = dlv[d].msg /\ r.userAck = dlv[d].userAck
      BY <2>1, <2>4, <2>4a, DeliveryState DEF Delivery
  <2>6. CASE effects' = effects
      BY <2>1, <2>3, <2>4, <2>5, <2>6, MoveIsNone DEF Contract!cVars, Forgotten
  <2>7. CASE effects' = [effects EXCEPT ![dlv[d].msg] = @ + 1]
    <3>1. /\ dlv'[d] = r /\ r # None
          /\ \A e \in Deliveries : e # d => dlv'[e] = dlv[e]
        BY <1>0, <2>3, <2>4, <2>5, NoneIsNoDelivery DEF TypeOK
    <3>2. \A m \in Identified :
             (\E e \in Deliveries : dlv'[e] # None /\ dlv'[e].msg = m /\ dlv'[e].userAck)
             <=> \E e \in Deliveries : dlv[e] # None /\ dlv[e].msg = m /\ dlv[e].userAck
        BY <2>1, <2>5, <3>1
    <3>3. dlv[d].msg \in Messages /\ effects[dlv[d].msg] \in Nat
        BY <1>0, <2>1, DeliveryState DEF TypeOK
    <3>4. \A m \in Identified : effects'[m] > 0 <=> effects[m] > 0 \/ m = dlv[d].msg
        BY <1>0, <2>7, <3>3 DEF Identified, TypeOK
    <3>5. Handled' = Handled \cup ({dlv[d].msg} \cap Identified)
        BY <3>2, <3>4 DEF Handled
    <3>6. Spent' = Spent /\ Forgotten' = Forgotten
        BY <2>1 DEF Spent, Forgotten
    <3>7. CASE dlv[d].msg \in Identified
      <4>1. Contract!HandleIt(dlv[d].msg)
          BY <3>5, <3>6, <3>7 DEF Contract!HandleIt
      <4> QED
          BY <3>7, <4>1 DEF Contract!Next
    <3>8. CASE dlv[d].msg \notin Identified
        BY <3>5, <3>6, <3>8 DEF Contract!cVars
    <3> QED
        BY <3>7, <3>8
  <2> QED
      BY <2>2, <2>6, <2>7
<1>3. CASE HandlerSettle(d)
  <2>1. /\ dlv[d] # None
        /\ owner' = owner /\ effects' = effects /\ attempts' = attempts
      BY <1>3 DEF HandlerSettle
  <2>2. PICK w \in {"after", "run"}, u \in BOOLEAN :
           /\ dlv[d].userAck => u
           /\ dlv' = [dlv EXCEPT ![d] = [dlv[d] EXCEPT !.work = w, !.settled = TRUE,
                                                       !.userAck = u]]
    <3> DEFINE u0 == dlv[d].userAck \/ (~dlv[d].settled /\ dlv[d].calls = "ack")
               w0 == IF dlv[d].settled THEN "after" ELSE "run"
    <3>1. dlv' = [dlv EXCEPT ![d] = [dlv[d] EXCEPT !.work = w0, !.settled = TRUE,
                                                   !.userAck = u0]]
        BY <1>0, <1>3, <2>1, DeliveryState DEF HandlerSettle, TypeOK, Delivery
    <3>2. u0 \in BOOLEAN /\ (dlv[d].userAck => u0) /\ w0 \in {"after", "run"}
        OBVIOUS
    <3> HIDE DEF u0, w0
    <3> QED
        BY <3>1, <3>2
  <2>3. PICK r : r = [dlv[d] EXCEPT !.work = w, !.settled = TRUE, !.userAck = u]
      OBVIOUS
  <2>4. r \in Delivery /\ r.msg = dlv[d].msg /\ r.userAck = u
      BY <2>1, <2>2, <2>3, DeliveryState DEF Delivery
  <2>5. Handled' = Handled \/ Handled' = Handled \cup ({dlv[d].msg} \cap Identified)
      BY <2>1, <2>2, <2>3, <2>4, HandledMoves
  <2>6. Spent' = Spent /\ Forgotten' = Forgotten
      BY <2>1 DEF Spent, Forgotten
  <2>7. CASE dlv[d].msg \in Identified /\ Handled' # Handled
    <3>1. Contract!HandleIt(dlv[d].msg)
        BY <2>5, <2>6, <2>7 DEF Contract!HandleIt
    <3> QED
        BY <2>7, <3>1 DEF Contract!Next
  <2>8. CASE dlv[d].msg \notin Identified \/ Handled' = Handled
      BY <2>5, <2>6, <2>8 DEF Contract!cVars
  <2> QED
      BY <2>7, <2>8
<1>4. CASE HandlerRespond(d)
  <2>1. /\ dlv[d] # None /\ dlv[d].work = "run"
        /\ effects' = effects /\ attempts' = attempts
        /\ Respond(d, dlv[d].calls)
      BY <1>4 DEF HandlerRespond
  <2>2. SentAfter(d) = 1
      BY <2>1, DeliveryState, SentAfterCases DEF SettledBy
  <2>3. PICK r : r = [dlv[d] EXCEPT !.work = "after", !.sent = 1]
      OBVIOUS
  <2>4. dlv' = [dlv EXCEPT ![d] = r]
      BY <1>0, <1>4, <2>2, <2>3 DEF HandlerRespond, TypeOK
  <2>5. r \in Delivery /\ r.msg = dlv[d].msg /\ r.userAck = dlv[d].userAck
      BY <2>1, <2>3, DeliveryState DEF Delivery
  <2>6. dlv[d].calls = "ack" => dlv[d].userAck
      BY <2>1, DeliveryState DEF ResultsTrue
  <2> QED
      BY <2>1, <2>4, <2>5, <2>6, AnswerForgets
<1>5. CASE Succeed(d)
  <2>1. /\ dlv[d] # None
        /\ owner' = owner /\ effects' = effects /\ attempts' = attempts
      BY <1>5 DEF Succeed
  <2>2. PICK r : r = [dlv[d] EXCEPT !.work = "done"]
      OBVIOUS
  <2>3. dlv' = [dlv EXCEPT ![d] = r]
      BY <1>0, <1>5, <2>2 DEF Succeed, TypeOK
  <2>4. r \in Delivery /\ r.msg = dlv[d].msg /\ r.userAck = dlv[d].userAck
      BY <2>1, <2>2, DeliveryState DEF Delivery
  <2> QED
      BY <2>1, <2>3, <2>4, MoveIsNone DEF Contract!cVars, Forgotten
<1>6. CASE FailAttempt(d)
  <2>1. /\ dlv[d] # None
        /\ owner' = owner /\ effects' = effects /\ attempts' = attempts
      BY <1>6 DEF FailAttempt
  <2>2. dlv[d] \in Delivery /\ dlv[d].tries \in Nat /\ dlv[d].tries + 1 \in Nat
      BY <2>1, DeliveryState DEF Delivery
  <2>3. CASE dlv' = [dlv EXCEPT ![d].work = "dedup", ![d].tries = @ + 1]
    <3>1. PICK r : r = [dlv[d] EXCEPT !.work = "dedup", !.tries = dlv[d].tries + 1]
        OBVIOUS
    <3>2. dlv' = [dlv EXCEPT ![d] = r]
        BY <1>0, <2>3, <3>1 DEF TypeOK
    <3>3. r \in Delivery /\ r.msg = dlv[d].msg /\ r.userAck = dlv[d].userAck
        BY <2>2, <3>1 DEF Delivery
    <3> QED
        BY <2>1, <3>2, <3>3, MoveIsNone DEF Contract!cVars, Forgotten
  <2>4. CASE dlv' = [dlv EXCEPT ![d].work = "done"]
    <3>1. PICK r : r = [dlv[d] EXCEPT !.work = "done"]
        OBVIOUS
    <3>2. dlv' = [dlv EXCEPT ![d] = r]
        BY <1>0, <2>4, <3>1 DEF TypeOK
    <3>3. r \in Delivery /\ r.msg = dlv[d].msg /\ r.userAck = dlv[d].userAck
        BY <2>2, <3>1 DEF Delivery
    <3> QED
        BY <2>1, <3>2, <3>3, MoveIsNone DEF Contract!cVars, Forgotten
  <2> QED
      BY <1>6, <2>3, <2>4 DEF FailAttempt
<1>7. CASE Panic(d)
  <2>1. dlv[d] # None /\ effects' = effects /\ attempts' = attempts
      BY <1>7 DEF Panic
  <2>2. CASE UseRecover /\ ~UseTimeout
    <3>1. PICK r : r = [dlv[d] EXCEPT !.work = "done", !.outcome = "err"]
        OBVIOUS
    <3>2. dlv' = [dlv EXCEPT ![d] = r] /\ owner' = owner
        BY <1>0, <1>7, <2>2, <3>1 DEF Panic, TypeOK
    <3>3. r \in Delivery /\ r.msg = dlv[d].msg /\ r.userAck = dlv[d].userAck
        BY <2>1, <3>1, DeliveryState DEF Delivery
    <3> QED
        BY <2>1, <3>2, <3>3, MoveIsNone DEF Contract!cVars, Forgotten
  <2>3. CASE ~(UseRecover /\ ~UseTimeout)
      BY <1>7, <2>1, <2>3, EndIsNone DEF Panic
  <2> QED
      BY <2>2, <2>3
<1> QED
    BY <1>1, <1>2, <1>3, <1>4, <1>5, <1>6, <1>7 DEF Work

\* The adapter's goroutine: its Ack needs a result that is true.
LEMMA AdapterContract ==
    ASSUME DInv, NEW d \in Deliveries, Adapter(d)
    PROVE  [Contract!Next]_(Contract!cVars)
<1>0. TypeOK
    BY DEF DInv
<1>1. CASE Result(d)
  <2>1. /\ dlv[d] # None /\ dlv[d].work = "done"
        /\ owner' = owner /\ effects' = effects /\ attempts' = attempts
      BY <1>1 DEF Result
  <2>2. PICK r : r = [dlv[d] EXCEPT !.main = "settle", !.cancelled = TRUE,
                                    !.result = dlv[d].outcome]
      OBVIOUS
  <2>3. dlv' = [dlv EXCEPT ![d] = r]
      BY <1>0, <1>1, <2>2 DEF Result, TypeOK
  <2>4. dlv[d].outcome \in {"ok", "err"}
      BY <2>1, DeliveryState DEF NoPanicReturned, Delivery
  <2>5. r \in Delivery /\ r.msg = dlv[d].msg /\ r.userAck = dlv[d].userAck
      BY <2>1, <2>2, <2>4, DeliveryState DEF Delivery
  <2> QED
      BY <2>1, <2>3, <2>5, MoveIsNone DEF Contract!cVars, Forgotten
<1>2. CASE Timeout(d)
  <2>1. /\ dlv[d] # None
        /\ owner' = owner /\ effects' = effects /\ attempts' = attempts
      BY <1>2 DEF Timeout
  <2>2. PICK r : r = [dlv[d] EXCEPT !.main = "settle", !.cancelled = TRUE,
                                    !.result = "err"]
      OBVIOUS
  <2>3. dlv' = [dlv EXCEPT ![d] = r]
      BY <1>0, <1>2, <2>2 DEF Timeout, TypeOK
  <2>4. r \in Delivery /\ r.msg = dlv[d].msg /\ r.userAck = dlv[d].userAck
      BY <2>1, <2>2, DeliveryState DEF Delivery
  <2> QED
      BY <2>1, <2>3, <2>4, MoveIsNone DEF Contract!cVars, Forgotten
<1>3. CASE AdapterSettle(d)
  <2>1. /\ dlv[d] # None
        /\ owner' = owner /\ effects' = effects /\ attempts' = attempts
      BY <1>3 DEF AdapterSettle
  <2>2. PICK w \in {"auto", "run"} :
           dlv' = [dlv EXCEPT ![d] = [dlv[d] EXCEPT !.main = w, !.settled = TRUE]]
      BY <1>0, <1>3 DEF AdapterSettle, TypeOK
  <2>3. PICK r : r = [dlv[d] EXCEPT !.main = w, !.settled = TRUE]
      OBVIOUS
  <2>4. r \in Delivery /\ r.msg = dlv[d].msg /\ r.userAck = dlv[d].userAck
      BY <2>1, <2>3, DeliveryState DEF Delivery
  <2> QED
      BY <2>1, <2>2, <2>3, <2>4, MoveIsNone DEF Contract!cVars, Forgotten
<1>4. AdapterKind(d) = "ack" /\ dlv[d] # None =>
         dlv[d].msg \in NoId \/ effects[dlv[d].msg] > 0
    BY DeliveryState DEF AdapterKind, ResultsTrue
<1>5. CASE AdapterRespond(d)
  <2>1. /\ dlv[d] # None /\ dlv[d].main = "run"
        /\ effects' = effects /\ attempts' = attempts
        /\ Respond(d, AdapterKind(d))
      BY <1>5 DEF AdapterRespond
  <2>2. SentAfter(d) = 1
      BY <2>1, DeliveryState, SentAfterCases DEF SettledBy
  <2>3. PICK r : r = [dlv[d] EXCEPT !.main = "auto", !.sent = 1]
      OBVIOUS
  <2>4. dlv' = [dlv EXCEPT ![d] = r]
      BY <1>0, <1>5, <2>2, <2>3 DEF AdapterRespond, TypeOK
  <2>5. r \in Delivery /\ r.msg = dlv[d].msg /\ r.userAck = dlv[d].userAck
      BY <2>1, <2>3, DeliveryState DEF Delivery
  <2> QED
      BY <1>4, <2>1, <2>4, <2>5, AnswerForgets
<1>6. CASE HandlerReturn(d)
  <2>1. dlv[d] # None /\ effects' = effects /\ attempts' = attempts
      BY <1>6 DEF HandlerReturn
  <2>2. CASE ~AutoRespond
    <3>1. PICK r : r = [dlv[d] EXCEPT !.main = "end"]
        OBVIOUS
    <3>2. dlv' = [dlv EXCEPT ![d] = r] /\ owner' = owner
        BY <1>0, <1>6, <2>2, <3>1 DEF HandlerReturn, TypeOK
    <3>3. r \in Delivery /\ r.msg = dlv[d].msg /\ r.userAck = dlv[d].userAck
        BY <2>1, <3>1, DeliveryState DEF Delivery
    <3> QED
        BY <2>1, <3>2, <3>3, MoveIsNone DEF Contract!cVars, Forgotten
  <2>3. CASE AutoRespond
    <3>1. SentAfter(d) = 1
        BY <2>1, <2>3, DeliveryState, SentAfterCases DEF SettledBy
    <3>2. PICK r : r = [dlv[d] EXCEPT !.main = "end", !.sent = 1]
        OBVIOUS
    <3>3. dlv' = [dlv EXCEPT ![d] = r] /\ Respond(d, AdapterKind(d))
        BY <1>0, <1>6, <2>3, <3>1, <3>2 DEF HandlerReturn, TypeOK
    <3>4. r \in Delivery /\ r.msg = dlv[d].msg /\ r.userAck = dlv[d].userAck
        BY <2>1, <3>2, DeliveryState DEF Delivery
    <3> QED
        BY <1>4, <2>1, <3>3, <3>4, AnswerForgets
  <2> QED
      BY <2>2, <2>3
<1> QED
    BY <1>1, <1>2, <1>3, <1>5, <1>6 DEF Adapter

\* The adapters, the chain Recover(Timeout(Retry(Deduplication(handler)))) and
\* the broker implement the delivery contract for the messages that have an id
\* of their own: a message is forgotten only after it was processed or
\* acknowledged or has used up its attempts, and for good, through late
\* answers, redeliveries, panics and restarts.
THEOREM ImplementsDelivery == Spec => ImplementsContract
<1>1. Init => Contract!Init
    BY BrokerStates, BoundsNatural
    DEF Init, Contract!Init, Handled, Spent, Forgotten, Identified
<1>2. DInv /\ [Next]_vars => [Contract!Next]_(Contract!cVars)
  <2> SUFFICES ASSUME DInv, [Next]_vars PROVE [Contract!Next]_(Contract!cVars)
      OBVIOUS
  <2>1. CASE UNCHANGED vars
      BY <2>1 DEF vars, Contract!cVars, Handled, Spent, Forgotten
  <2>2. CASE Restart
      BY <2>2, EndIsNone DEF Restart
  <2> QED
      BY <2>1, <2>2, BrokerContract, WorkContract, AdapterContract DEF Next
<1> QED
    BY <1>1, <1>2, DeliveryInvariant, PTL
    DEF Spec, ImplementsContract, Contract!Spec

=============================================================================
