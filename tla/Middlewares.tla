---------------------------- MODULE Middlewares ----------------------------
(****************************************************************************)
(* The stateful messaging middlewares, shared by the workers of a           *)
(* subscription: rate limit over a TokenBucketLimiter, SimpleCircuitBreaker *)
(* and batch, inside audit, metrics and a filter.  Neither the breaker nor  *)
(* the batch has a lock, so their reads and writes interleave; the          *)
(* breaker's state is a string, two words that are written one by one.      *)
(*                                                                          *)
(* An error sends the message back to the broker, nil acknowledges it.      *)
(****************************************************************************)
EXTENDS Integers, Sequences, FiniteSets

CONSTANTS
    ChainConfs,    \* [sent, workers, mode, capacity, breaker, max, batch,
                   \* skipped, crashes]
    Msgs, Workers,
    MaxFails

VARIABLES
    chain,
    msg,           \* message -> "unsent", "queued", "taken", "acked"
    worker,        \* worker -> [pc, m, err, n]
    tokens,
    credit,        \* the tokens there were and came, less the messages let through
    state,         \* the breaker's state: <<pointer, length>>, each named by the string it is of
    failures, cooled,
    batch,         \* the slice
    handled,       \* messages a handler, or the batch handler, was called with
    undone,        \* acknowledged messages whose batch failed or died with the process
    raced,         \* two workers have been in the batch code together
    audit,         \* "message.received" logged so far without an outcome
    fails, mwCrashes

mwVars == <<chain, msg, worker, tokens, credit, state, failures, cooled, batch, handled,
            undone, raced, audit, fails, mwCrashes>>
limitVars == <<tokens, credit>>
breakerVars == <<state, failures, cooled>>
batchVars == <<batch, handled, undone, raced>>

Resting == [pc |-> "idle", m |-> "none", err |-> FALSE, n |-> 0]
Go(w, pc) == worker' = [worker EXCEPT ![w].pc = pc]
Fail(w) == worker' = [worker EXCEPT ![w].pc = "out", ![w].err = TRUE]

\* cb.state == s; a torn string is none of the three.
Reads(s) == state = <<s, s>>

ASSUME ChainConstants ==
    /\ MaxFails \in Nat /\ "none" \notin Msgs /\ IsFiniteSet(Workers)
    /\ \A c \in ChainConfs :
          /\ c.capacity \in Nat /\ c.max \in Int /\ c.batch \in Int
          /\ c.breaker => c.max > 0      \* one that opens after no failure guards nothing

-----------------------------------------------------------------------------
(* The outer middlewares.                                                   *)

\* A worker takes a message; AuditMiddleware, and FilterMiddleware that drops
\* what it does not want with nil.
Take(w, m) ==
    /\ w \in chain.workers /\ worker[w].pc = "idle" /\ msg[m] = "queued"
    /\ msg' = [msg EXCEPT ![m] = "taken"]
    /\ audit' = audit + 1
    /\ worker' = [worker EXCEPT ![w] = [Resting EXCEPT !.m = m,
                      !.pc = IF m \in chain.skipped THEN "out" ELSE "limit"]]
    /\ UNCHANGED <<chain, limitVars, breakerVars, batchVars, fails, mwCrashes>>

\* AuditMiddleware and MetricsMiddleware after next, and the adapter's Ack or Nack.
Out(w) ==
    /\ worker[w].pc = "out"
    /\ audit' = audit - 1
    /\ msg' = [msg EXCEPT ![worker[w].m] = IF worker[w].err THEN "queued" ELSE "acked"]
    /\ worker' = [worker EXCEPT ![w] = Resting]
    /\ UNCHANGED <<chain, limitVars, breakerVars, batchVars, fails, mwCrashes>>

-----------------------------------------------------------------------------
(* RateLimitMiddleware and TokenBucketLimiter.                              *)

\* NewTokenBucketLimiter fills the bucket.
FullBucket == tokens = chain.capacity /\ credit = chain.capacity

\* Allow and Wait: a token from the channel.
TakeToken == tokens' = tokens - 1 /\ credit' = credit - 1

\* Wait blocks until there is a token; in the other mode no token is an error.
RateLimit(w) ==
    /\ worker[w].pc = "limit"
    /\ chain.mode = "wait" => tokens > 0
    /\ IF chain.mode # "none" /\ tokens = 0 THEN Fail(w) /\ UNCHANGED limitVars
       ELSE /\ Go(w, IF chain.batch > 0 THEN "append" ELSE "check")
            /\ IF chain.mode = "none" THEN UNCHANGED limitVars ELSE TakeToken
    /\ UNCHANGED <<chain, msg, breakerVars, batchVars, audit, fails, mwCrashes>>

\* The refill goroutine: a full bucket takes no token.
Refill ==
    /\ chain.mode # "none" /\ tokens < chain.capacity
    /\ tokens' = tokens + 1 /\ credit' = credit + 1
    /\ UNCHANGED <<chain, msg, worker, breakerVars, batchVars, audit, fails, mwCrashes>>

-----------------------------------------------------------------------------
(* SimpleCircuitBreaker.                                                    *)

\* Faulty variant: an open breaker stays open.
CheckNeverRecovers(w) ==
    /\ worker[w].pc = "check"
    /\ IF chain.breaker /\ Reads("open") THEN Fail(w) ELSE Go(w, "run")
    /\ UNCHANGED <<chain, msg, limitVars, breakerVars, batchVars, audit, fails, mwCrashes>>

\* Call: an open breaker refuses, or after the timeout becomes half-open.
Check(w) ==
    /\ worker[w].pc = "check"
    /\ IF chain.breaker /\ Reads("open") THEN IF cooled THEN Go(w, "half 1") ELSE Fail(w)
       ELSE Go(w, "run")
    /\ UNCHANGED <<chain, msg, limitVars, breakerVars, batchVars, audit, fails, mwCrashes>>

\* fn: the handler.
Run(w, ok) ==
    /\ worker[w].pc = "run" /\ (ok \/ fails < MaxFails)
    /\ handled' = IF ok THEN handled \cup {worker[w].m} ELSE handled
    /\ fails' = IF ok THEN fails ELSE fails + 1
    /\ IF ~chain.breaker THEN IF ok THEN Go(w, "out") ELSE Fail(w)
       ELSE Go(w, IF ok THEN "succeeded" ELSE "failed")
    /\ UNCHANGED <<chain, msg, limitVars, breakerVars, batch, undone, raced, audit, mwCrashes>>

\* failures++ reads and then writes; lastFailTime is now.
CountRead(w) ==
    /\ worker[w].pc = "failed"
    /\ worker' = [worker EXCEPT ![w].pc = "count", ![w].n = failures]
    /\ UNCHANGED <<chain, msg, limitVars, breakerVars, batchVars, audit, fails, mwCrashes>>

CountWrite(w) ==
    /\ worker[w].pc = "count"
    /\ failures' = worker[w].n + 1 /\ cooled' = FALSE
    /\ Go(w, "compare")
    /\ UNCHANGED <<chain, msg, limitVars, state, batchVars, audit, fails, mwCrashes>>

\* failures >= maxFailures opens it.
Compare(w) ==
    /\ worker[w].pc = "compare"
    /\ IF failures >= chain.max THEN Go(w, "open 1") ELSE Fail(w)
    /\ UNCHANGED <<chain, msg, limitVars, breakerVars, batchVars, audit, fails, mwCrashes>>

\* An assignment of s to cb.state is two words, the pointer and the length; then
\* the worker goes on, or returns the error.
Assigns(w, first, second, s, next) ==
    /\ \/ worker[w].pc = first /\ state' = <<s, state[2]>> /\ Go(w, second)
       \/ /\ worker[w].pc = second /\ state' = <<state[1], s>>
          /\ IF next = "out" THEN Fail(w) ELSE Go(w, next)
    /\ UNCHANGED <<chain, msg, limitVars, failures, cooled, batchVars, audit, fails, mwCrashes>>

Assign(w) ==
    \/ Assigns(w, "half 1", "half 2", "half-open", "run")
    \/ Assigns(w, "open 1", "open 2", "open", "out")
    \/ Assigns(w, "closed 1", "closed 2", "closed", "reset")

\* Success: half-open becomes closed, and the count starts again.
Succeeded(w) ==
    /\ worker[w].pc = "succeeded"
    /\ Go(w, IF Reads("half-open") THEN "closed 1" ELSE "reset")
    /\ UNCHANGED <<chain, msg, limitVars, breakerVars, batchVars, audit, fails, mwCrashes>>

Reset(w) ==
    /\ worker[w].pc = "reset"
    /\ failures' = 0 /\ Go(w, "out")
    /\ UNCHANGED <<chain, msg, limitVars, state, cooled, batchVars, audit, fails, mwCrashes>>

\* The breaker's timeout since lastFailTime has passed.
Cool ==
    /\ chain.breaker /\ ~cooled /\ cooled' = TRUE
    /\ UNCHANGED <<chain, msg, worker, limitVars, state, failures, batchVars, audit, fails, mwCrashes>>

-----------------------------------------------------------------------------
(* BatchMiddleware.                                                         *)

InBatchCode == {w \in Workers : worker[w].pc \in {"append", "appending", "flush", "cut"}}

\* append reads the slice's length ...
AppendRead(w) ==
    /\ worker[w].pc = "append"
    /\ worker' = [worker EXCEPT ![w].pc = "appending", ![w].n = Len(batch)]
    /\ raced' = (raced \/ Cardinality(InBatchCode) > 1)
    /\ UNCHANGED <<chain, msg, limitVars, breakerVars, batch, handled, undone, audit, fails, mwCrashes>>

\* ... and writes the element and the length.  A full batch, or one that is old
\* enough, is flushed; otherwise the message is acknowledged from here.
AppendWrite(w) ==
    LET kept == SubSeq(batch, 1, IF worker[w].n < Len(batch) THEN worker[w].n ELSE Len(batch))
    IN  /\ worker[w].pc = "appending"
        /\ batch' = Append(kept, worker[w].m)
        /\ \/ Go(w, "flush")
           \/ Len(kept) + 1 < chain.batch /\ Go(w, "out")
        /\ raced' = (raced \/ Cardinality(InBatchCode) > 1)
        /\ UNCHANGED <<chain, msg, limitVars, breakerVars, handled, undone, audit, fails, mwCrashes>>

\* Faulty variant: the batch is emptied before the handler has it.
FlushEmptied(w, ok) ==
    /\ worker[w].pc = "flush" /\ (ok \/ fails < MaxFails)
    /\ batch' = <<>>
    /\ worker' = [worker EXCEPT ![w].pc = "cut", ![w].err = ~ok]
    /\ UNCHANGED <<chain, msg, limitVars, breakerVars, handled, undone, raced, audit, mwCrashes, fails>>

\* flush calls the batch handler.  Its error is returned for the last message
\* only: the others have been acknowledged.
Flush(w, ok) ==
    LET all == {batch[i] : i \in 1..Len(batch)}
    IN  /\ worker[w].pc = "flush" /\ (ok \/ fails < MaxFails)
        /\ handled' = IF ok THEN handled \cup all ELSE handled
        /\ undone' = IF ok THEN undone ELSE undone \cup (all \ {worker[w].m})
        /\ fails' = IF ok THEN fails ELSE fails + 1
        /\ worker' = [worker EXCEPT ![w].pc = "cut", ![w].err = ~ok]
        /\ UNCHANGED <<chain, msg, limitVars, breakerVars, batch, raced, audit, mwCrashes>>

\* batch[:0] and lastFlush.
Cut(w) ==
    /\ worker[w].pc = "cut"
    /\ batch' = <<>> /\ Go(w, "out")
    /\ UNCHANGED <<chain, msg, limitVars, breakerVars, handled, undone, raced, audit, fails, mwCrashes>>

\* The process dies: the broker has the messages that were not acknowledged.
Crash ==
    /\ mwCrashes < chain.crashes /\ mwCrashes' = mwCrashes + 1
    /\ undone' = undone \cup {m \in {batch[i] : i \in 1..Len(batch)} : msg[m] = "acked"}
    /\ batch' = <<>> /\ worker' = [w \in Workers |-> Resting]
    /\ msg' = [m \in Msgs |-> IF msg[m] = "taken" THEN "queued" ELSE msg[m]]
    /\ tokens' = chain.capacity /\ credit' = chain.capacity
    /\ state' = <<"closed", "closed">> /\ failures' = 0 /\ cooled' = TRUE
    /\ audit' = 0
    /\ UNCHANGED <<chain, handled, raced, fails>>

-----------------------------------------------------------------------------
ChainInit ==
    /\ chain \in ChainConfs
    /\ msg = [m \in Msgs |-> IF m \in chain.sent THEN "queued" ELSE "unsent"]
    /\ worker = [w \in Workers |-> Resting]
    /\ FullBucket
    /\ state = <<"closed", "closed">> /\ failures = 0 /\ cooled = TRUE
    /\ batch = <<>> /\ handled = {} /\ undone = {} /\ raced = FALSE
    /\ audit = 0
    /\ fails = 0 /\ mwCrashes = 0

\* A worker goes on with its message.
WorkerStep(w) ==
    \/ RateLimit(w) \/ Check(w) \/ Run(w, TRUE) \/ CountRead(w) \/ CountWrite(w) \/ Compare(w)
    \/ Assign(w) \/ Succeeded(w) \/ Reset(w) \/ AppendRead(w) \/ AppendWrite(w) \/ Flush(w, TRUE)
    \/ Cut(w) \/ Out(w)

ChainNext ==
    \/ Refill \/ Cool \/ Crash
    \/ \E w \in Workers : WorkerStep(w) \/ Run(w, FALSE) \/ Flush(w, FALSE) \/ \E m \in Msgs : Take(w, m)

ChainSpec == ChainInit /\ [][ChainNext]_mwVars

-----------------------------------------------------------------------------
(* Properties.                                                              *)

\* Every variable has its type, and no more messages pass than there were
\* tokens, whichever mode and however many workers.
ChainTypeOK ==
    /\ tokens \in 0..chain.capacity /\ credit >= 0
    /\ \A i \in 1..2 : state[i] \in {"closed", "open", "half-open"}
    /\ failures \in 0..MaxFails /\ \A m \in Msgs : msg[m] \in {"unsent", "queued", "taken", "acked"}

\* Whatever the workers' writes do to each other, once they are all done a
\* breaker that admits calls has fewer failures than would open it.
QuietBreakerAgrees ==
    (chain.breaker /\ ~Reads("open") /\ ~Reads("half-open") /\ \A w \in Workers : worker[w].pc = "idle")
        => failures < chain.max

\* An acknowledged message was handled, skipped, or is in the batch; it is gone
\* only if its batch failed or died, or workers met in the batch's code.
AckedIsAccounted ==
    \A m \in Msgs : msg[m] = "acked" =>
        \/ m \in handled \cup chain.skipped \cup undone \/ raced
        \/ \E i \in 1..Len(batch) : batch[i] = m

\* Audit and metrics have an outcome for every message received that is not
\* still on its way, refused ones too.
AuditBalances == audit = Cardinality({w \in Workers : worker[w].pc # "idle"})

\* Every message is acknowledged in the end: a refused one comes back, an open
\* breaker recovers, a waiting worker gets a token.
MessagesGetThrough == \A m \in Msgs : msg[m] = "queued" ~> msg[m] = "acked"

\* What holds of the chain at every time: types, a quiet breaker that agrees with
\* its count, acknowledged messages accounted for, balanced records.
ChainInv == ChainTypeOK /\ QuietBreakerAgrees /\ AckedIsAccounted /\ AuditBalances
=============================================================================
