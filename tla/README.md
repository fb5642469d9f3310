# Verification of component-base

component-base is a Go library of infrastructure parts: a Redis lease lock,
messaging over NSQ and RabbitMQ, process start and graceful shutdown, rate
limiting, Redis profiles, a unit of work with an outbox, gRPC interceptors,
logging, errors. It has no main program; each part keeps state of its own, is
called by several goroutines and talks to a service that can fail. This
directory holds TLA+ models of those parts, TLC configurations that check them
on small instances and TLAPS proofs for every instance.

    tlc -workers 2 -config Router.cfg MCRouterLifecycle
    tlapm LeaseLockProofs.tla

## 1. Inventory

Paths are under `src/pkg/`. "Hard" is what a test hardly reaches.

| Component | State | Operations | Interacts with | Hard | Correct if |
|---|---|---|---|---|---|
| lease lock (`redis/lease`, `locklease`) | Redis keys with a token and a TTL; Lease values of clients | Acquire, Renew, Release, CheckOwnership, AcquireSpec | Redis by one command per call; runtime handles | lost, late and repeated commands, expiry, crash of a holder, TTL rounding | one valid holder per key; only the owner's Release evicts; orphans expire |
| message delivery (`messaging/port.go`, adapters) | settled flag, answer sent to the broker | Ack, Nack, settle, the adapters' callbacks | broker, middlewares, handler | timeout and handler race to settle; redelivery beside a late handler; restart | one answer per delivery; nothing lost |
| middlewares (`messaging/middleware.go`) | dedup store, token bucket, circuit breaker, batch | Recover, Timeout, Retry, Deduplication, RateLimit, CircuitBreaker, Batch | wrap handlers | check-then-act, unsynchronised fields, panic on another goroutine | a failure is reported and not swallowed |
| router (`messaging/router.go`) | handlers, running, stopChan | AddHandler, Run, Stop | Subscriber.Subscribe, Stop, Close | Stop during Run, mutexes held while waiting | nothing consumed after Stop; Stop returns |
| publishers, event buses | exchanges declared, provider registry | Publish, Close, RegisterProvider | broker clients | double-checked locking, order of Close | one declaration per exchange |
| process runtime (`processruntime`) | error channel, wait group, hooks | RunGroup.Run, Lifecycle, Runner | shutdown | select with two ready cases | nil only after all services; no blocked sender |
| graceful shutdown (`shutdown`) | managers, callbacks | Start, StartShutdown, AddShutdownCallback | operating system, os.Exit | signal before Notify, two managers, callback added late | callbacks return before exit |
| backpressure (`backpressure`) | a channel as semaphore | Acquire, release | contexts | release called twice, timeout against a free slot | holders never exceed the bound |
| rate limiting (`ratelimit`) | keyed limiters, Redis bucket | Allow, Decide | Redis script, clocks | clocks that differ, clean-up at the bound | never more than rate and burst allow |
| redis runtime (`redis/runtime`) | profile states, back-off | Connect, HealthCheck, Bind, Close | store, lease | reads without the lock, two reconnects | no client in use is closed |
| redis store, ops | none of its own; values in Redis | Get, Set, SetIfAbsent, Delete, ConsumeIfExists, DeleteByPattern | runtime handle | lost answers, writes during a purge | one consumer of a value; a purge is complete and stays inside its keyspace |
| unit of work, outbox, events | transaction, hooks, records | WithinTransaction, AfterCommit, Stage, Claim | database, messaging | nested calls, crash after commit | hooks run once, only after commit |
| event catalog | configuration | Load, Resolve | outbox | - | every event resolves as configured |
| grpc interceptors, mtls | ACL, nonce window, certificate | chain of interceptors, reload | each other through the context | replay window, reload during handshakes | no request passes unchecked |
| database registry | databases, initialised | Register, Init, Close | drivers | failure in the middle of Init | what was opened is closed |
| errors | error values, code registry | WithCode, IsCode, NewAggregate | all | - | - |
| log, log rotation | current file and date | Write, rotate, Close | file system | failed open after close | no write to a closed file |
| log front ends, utilities | - | formatting, id generators | - | - | - |

## 2. Modules

    LeaseContract        what a lock promises: at most one holder per key
    LeaseLock            the Redis lease lock; implements LeaseContract
    DeliveryContract     at-least-once delivery: what the broker may forget
    MessageDelivery      a message from broker to handler and back; implements
                         DeliveryContract
    RouterLifecycle      Run, Stop, Close of router, subscriber and consumers
    ProcessLifecycle     RunGroup, GracefulShutdown and the signal managers
    GrpcCall             one call through client and server interceptors
    RedisRuntime         Redis profiles: connect, health check, fallback
    RedisStore           value stores, consume, deletion by pattern
    CertReload           certificates: loading, reloading, serving, verifying
    RequestLogs          what the loggers around a request record
    LogFiles             levels, cores, time rotation and the cleaner
    DatabaseRegistry     the registry in a staged process with shutdown hooks
    EventBus             bus construction, publishers, exchanges, Close
    OutboxContract       a transactional outbox: events staged, owed and sent
    EventOutbox          unit of work, hooks, outbox, relays, catalog;
                         implements OutboxContract
    Backpressure         the in-flight limiter
    RateLimit            local and Redis token buckets
    Middlewares          rate limit, circuit breaker, batch, audit
    MC*                  the values of the constants for TLC
    LeaseLockProofs, MessageDeliveryProofs, RouterLifecycleProofs,
    ProcessLifecycleProofs, GrpcCallProofs
                         theorems about the module of that name
    AdmissionProofs      theorems about Backpressure, RateLimit and Middlewares
    EventsProofs         theorems about EventOutbox and EventBus
    InfraProofs          theorems about DatabaseRegistry, CertReload, RedisStore,
                         RedisRuntime, RequestLogs and LogFiles

In each module an operator called "Faulty variant" is not part of the
specification: it is a plausible mistake in the definition after it, used to
see that a property notices.

Components that interact are composed inside one module: GrpcCall runs client
and server interceptors over one call, EventOutbox joins the unit of work, the
outbox, its relays, the codec and the catalog, DatabaseRegistry joins Runner,
registry and Lifecycle, Middlewares is one chain. MCInfra, MCEvents and
MCAdmission put modules that share nothing side by side for TLC: a behaviour is
one of a single part (`part`), so their state spaces add up and do not multiply.

### LeaseLock

`store` is Redis (key -> token and time left), `lease` the `Lease` value a
client holds, `issued` the tokens generated, `call` the call a client waits
for, `stray` commands Redis may still run although their caller no longer
waits. A call is three steps: `AcquireCall`, `RenewCall`, `ReleaseCall` or
`CheckCall` sends the one command the Go method issues; `Serve` runs it
atomically in Redis; `Return` or `Fail` is the rest of the method. `Retry`
(go-redis repeats), `LeaveBehind` (the caller's context ends), `ServeStray`,
`Crash` and `Tick` are the environment. `redisKey` and `SpecTTL` are
`redisadapter.Manager`'s choice of key and TTL; `SetNXTicks` and `PExpireTicks`
keep the two roundings of a `time.Duration` to milliseconds, which differ
below one millisecond.

The validity of a lease (`safe`) is counted from the moment the command was
sent, as a careful caller does. `Lease.AcquiredAt` is taken after the answer
(`service.go:129`), so AcquiredAt + TTL is later than the expiry of the key by
the time of one round trip; a caller that relies on it can overlap with the
next holder.

### MessageDelivery

`owner` is the broker's view of a message (ready, out with one delivery, done),
`dlv` the state of each delivery: `main` is the adapter's goroutine, `work` the
one TimeoutMiddleware starts, `settled` the atomic flag of `Message`, `sent` the
number of answers. `marked` is the deduplication store, `effects` how often the
handler has processed a message. The chain is
Recover(Timeout(Retry(Deduplication(handler)))), as the package README builds
it, each part with a switch. The two adapters differ by constants: NSQ answers
by itself after the handler (`AutoRespond`), gives up after MaxAttempts and can
meet an undecodable envelope; RabbitMQ handles one message at a time and knows
a message without MessageId by its delivery tag (`NoId`, `UUID`). `Restart`
ends the process: messages that are out go back to the broker and tags start
again; the deduplication store stays. Expiry of marks is left out: it only
makes a message be processed again, which a redelivery does as well.

ImplementsContract reads this as at-least-once delivery: `handled` are the
messages that were processed or acknowledged by the handler itself, `spent`
those whose attempts are used up, `forgotten` those the broker has done with. The
mapping leaves out the messages known by their delivery tag only (`NoId`), for
which the contract does not hold.

### RouterLifecycle

`broker` is the subscriber the router was made with. `routerMu` and `subMu` say
who holds a mutex between two steps (a mutex taken and released in one step
does not appear). `consumer[k]` is the goroutine of a handler. `pc` is the call
an application goroutine, or a handler that calls the router itself, is in.
`Run` sets `running` under the mutex and then subscribes one handler per step,
without it. `AddHandler` meanwhile is a data race: the range may or may not see
the key, or the runtime stops the process (`fault`). `Stop` closes `stopChan`
and calls the subscriber, which for RabbitMQ waits for the consumers with both
mutexes held. `ConnectionLost` closes the delivery channels of RabbitMQ.

### ProcessLifecycle

`main` is the goroutine in `RunGroup.Run`, `svc` the services, `errCh` and
`closed` its two channels, `mgr` the goroutines of the signal managers, `cb` the
callbacks of each shutdown. `Signal` reaches every listening channel or, with
none, kills the process, which covers the window before `signal.Notify` and the
time after `signal.Stop`.

### GrpcCall

`call` is the client's side of a call, `srv[r]` an attempt that reached the
server with its contexts and the identity, credential and request id in them,
`nonces`, `acl` and `keys` the stores, `seen` and `metrics` what the observers
recorded. `conf` is the order of the chains, one of the client and two of the
server, for unary calls and for streams: the code leaves it to the caller,
and several facts depend on it; the instance has the documented order, the
credential outside the retry, and a server without certificates. A server
interceptor is a step inwards and one outwards (`Unwind`), and a panic unwinds
to the first RecoveryInterceptor. Data is small: a signature is the record of
what was signed, a method pattern a set of methods.

Facts: the nonce is checked and stored in two steps, so two overlapping
requests with one nonce both pass. A request with a bearer token and a
signature is validated by the token alone, and its nonce neither asked for nor
stored. With the credential interceptor outside the
retry one, every attempt has the same nonce and the second is refused as a
replay. With credential before mTLS the two identities are never compared.
Audit, metrics and loggers do not defer: a panic caught further out leaves no
record. They say Internal for an error that gRPC sends as Unknown.
`AddServicePermission` takes no notice of Enabled; under a default of allow,
`RemoveServicePermission` widens access. `RecordAuth*` and `RecordACLResult` are
never called.

### RedisRuntime

`handle` and `profile` are the handles and the status fields of the default and
the named profiles, `server` which servers answer, `caller` the Connect, Close
or HealthCheck a goroutine is in, `asker` a ByProfile or Bind between its reads,
`lost` whether a handle dropped a client that was still open. HealthCheck is one
step for the default and two for each profile, as it reads without the mutex and
reconnects outside it. `MergeConfig` is Profile over base.

Facts: a new client whose Ping fails is not closed. A second Connect, and two
health checks at once, drop open clients; overlapping checks can undo each
other's reconnects for ever. The default's failure ends a health check before
the profiles. HealthCheck after Close connects the profiles again. A profile's
Host is overruled by a list of Addrs of the default. Status is "available"
before any Connect.

### RedisStore

One server's keys, users with a store each, and a purge. A command is sent, run
and answered in separate steps where go-redis may repeat it or lose its answer.
A stored value is a pair of payload and the form the codec gave it. SCAN
returns any keys in any order, every key that stays throughout at least once.
Facts: a repeated ConsumeIfExists script tells false to the consumer who has
consumed the key; JitterTTL of a TTL below a second can return a second.

### CertReload

`crDisk` is the generation of each file, `crLoader` a load that has read the
certificate and not yet the key or the CAs, `crBuilt` the builder's tls.Config,
`crServing` what the gRPC credentials took of it. `Loaders` are goroutines of
StartAutoReload. Facts: Stop twice closes a closed channel; CheckCertExpiry is
left out.

### RequestLogs

Requests with a trace, a body and a plan of what their handler does;
TracingMiddleware, HTTPLogger and the hooks of Redis, GORM and MongoDB add
records to `rqLog`. `rqCache` is MongoHook's commandCache. A body is its length,
a record says who wrote it, its level, its trace fields and what it is about.
Facts: after a panic there is no end record; the TracingMiddleware starts from
200, so a status set by Gin before it is logged as 200, and a WriteHeader after
the first Write is logged though it was not sent; `InfofContext` and its
siblings lose the trace fields; NewRequestLogger adds a second request_id; a
pipeline logs redis.Nil as an error, a single command does not.

### LogFiles

`lfWriter` is the file each writer has open, `lfFile` what files hold,
`lfRec` the records with the writers they are still to reach, `lfClean` running
cleaners, `lfNow` the day. A date in a file's name stands for LogPeriod days.
Facts: after a failed reopen, or Close, the writer refuses every record for
ever; modes exact and above ignore Level and "all"; the cleaner removes every
old file whose name starts like its own, those of another logger too, and with
MaxAge shorter than the period it removes the file that is being written.

### DatabaseRegistry

The RWMutex (a waiting writer keeps readers out), the walks over the map one
connection at a time, and the main goroutine through stages, running and hooks.
Facts: Init stops at its first error and leaves the others connected; a client
whose ping failed, or that was replaced by a second Init, is never closed
(`dbStray`); Close returns the last error and keeps closed clients in place;
GetClient before Init returns a nil client without an error; Init during the
shutdown opens clients again; a hook that panics ends the rest.

### EventBus

`factories` and `bus` are construction and Close, `conn` the connections a
broker has, `chan` the publisher's channel, `declared` the broker's exchanges,
`exchanges` and `mu` publisher.exchanges and its mutex, `call` a Publish of an
application's goroutine or of a running handler. `accepted` and `routed` compare
what Publish answered with what the broker did. Facts: an exchange deleted at
the broker stays in the cache, so Publish answers nil, the message is lost and
the channel dies; nothing reconnects although AutoReconnect is true by default;
with no URL the bus dials a fixed address and never calls `BuildURL`, whatever
the host and port configured; NSQ's bus stops the producer before its handlers
are done.

### EventOutbox

`txn` is a WithinTransaction with nested calls and hooks, `record` the outbox
row of each event, `relay` what a relay is working on, `broker` the messages
that arrived, `catalog` the loaded configuration. The repository has the pieces
of a relay (claims, transitions, DecodePendingEvent, BuildMessage) and the
interface of its store; the loop is the application's and external. Facts: hooks are lost if the process dies after
the commit; transactions opened with WithTx never run hooks; an inner error the
outer function swallows keeps the inner writes; a row whose payload does not
decode is claimed and fails for ever; an event without BaseEvent's fields loses
id and type; two topic keys with one name give two subscriptions.

ImplementsOutbox maps this to a transactional outbox: `staged` is what a
transaction under way has put into its own writes, `owed` the committed rows that
are not marked as published, `sent` what the broker has. A commit that is in doubt
has been made, and a row that fails for good stays owed.

### Backpressure, RateLimit, Middlewares

Backpressure: `sem` is the number of tokens in the channel, `gate` each caller's
Acquire; `extra` counts releases beyond the first, which give back somebody
else's slot. RateLimit: time is `clock`, tokens are counted in units of 1/One,
`ask` is a Decide between its steps, `entries` the keyed limiters. A refused
caller reserves and cancels, and a second one in between makes the cancel
incomplete: the bucket goes into debt (DebtIsFromOverlap). Size eviction gives a
key a fresh burst. In the Redis script `now` is the caller's clock; a clock that
is behind sets `ts` back and the next caller earns the difference again
(`setBack`). Middlewares: the breaker's fields are read and written without a
lock, its state string word by word; the batch's append is a read and a write.
Facts: mode "drop" answers an error, so a message is redelivered; a half-open
breaker admits everybody; a batch has no timer, a failed flush loses the
acknowledged messages of the batch, a crash all of them; the refill goroutine
never ends.

## 3. Runs

| Run | Instance | Checks |
|---|---|---|
| lease | 2 clients, 3 tokens, 2 specs on one key, TTLs of 2 and 3 half milliseconds, 1 stray | MutualExclusion, NeverToldLost, EvictedOnlyByItsOwner, OrphanExpires, refinement ImplementsContract |
| delivery_rabbitmq | 2 messages, 2 deliveries, whole chain, restarts | AnsweredOnce, MarkedIsProcessed, refinement ImplementsContract |
| delivery_nsq | 2 messages, 3 deliveries, 2 at once, MaxAttempts 2 | NothingLost, TimeoutFreesAdapter |
| lifecycle | 2 managers, 1 callback, 3 services, 2 signals | CallbacksBeforeExit, NilMeansAllOver, SignalExits, GroupEnds (SendersFinish, RunReturns) |
| router | both brokers, 2 callers, 2 keys, a handler that calls back, 2 Runs | QuietAfterStop, NoDoubleClose, StopReturns |
| grpc | 1 call, 1 retry, 2 services, 3 validators, 3 configurations of the chains, 3 ticks, 1 administrative change | NonceUsedOnce, CallReturns, CallInv (RetryIsNoReplay, IdentityAgrees, RevokedIsRefused, EndIsRecorded) |
| infra, runtime | 1 profile beside the default, 2 servers, 2 callers, 4 configurations | Recovers, RuntimeInv (UnavailableIsNotDefault, NoneDropped, OwnServers) |
| infra, store | 2 keyspaces and a child with a misleading name, 3 stores with 3 codecs, 2 writes, a purge | PurgeStaysInside, StoreInv (ConsumedOnce, ReadsOwnForm, PurgeIsComplete, PurgeCountIsSafe) |
| infra, certs | 2 generations of files, 2 reload goroutines, 3 peers | BuilderCatchesUp, CertInv (half rotations, AdmittedIsAllowed) |
| infra, requests | 5 kinds of request, two with MongoDB commands together | RequestInv (TraceEverywhere, CacheIsInFlight, BodyIntactIfSmall, CapturedIsPrefix, StatusAgrees, FailuresAreLogged) |
| infra, logs | 2 files, 2 records, 4 days, 6 configurations, disk faults | LogInv (NothingMisfiled, KeptWhileYoung, RefusedOnlyAfterFault) |
| infra, databases | 2 connections, 5 stages, 2 hooks, 1 other caller | InitAllOrError, DbInv (NoneForgotten, SomeCallGoesOn) |
| events, outbox | 1 transaction with nested calls, 2 durable events and a best-effort one, 2 relays, 1 crash, 1 refusal, 2 hooks | OutboxInv (NoGhostEvent, HooksAfterCommit, MessageIsTheEvent, SubscriberKnowsEvent), OutboxProgress (HooksRun, EventuallyPublished), refinement ImplementsOutbox |
| events, bus | both providers, 2 applications' goroutines and a handler, 2 topics, 1 fault | CloseReturns, BusInv (NothingLeftOpen, AcceptedIsRouted, PublisherOutlivesHandlers, IdentitySurvives) |
| admission, gate | 3 callers, limits 0 to 2, 1 extra release | WaitIsBounded, GateInv (InflightBounded, NoSlotLeaks) |
| admission, rates | 2 callers, 2 keys, room for 1, 4 ticks, a clock that is behind | RateInv (LocalRateHolds, DebtIsFromOverlap, SharedRateHolds, RetryAfterIsEnough) |
| admission, chain | up to 3 messages, 2 workers, 6 configurations, 2 failures, a crash | MessagesGetThrough, ChainInv (QuietBreakerAgrees, AckedIsAccounted, AuditBalances) |
| http_body | the requests of infra | BodyReachesHandler is violated |
| tls_reload | the certificates of infra | ServerCatchesUp is violated |
| delivery_recover | Timeout inside Recover | RecoverKeepsProcess is violated |

The rows of infra, events and admission are parts of one run each. An ...Inv is
the conjunction of the type invariant and what holds of one component at every
time, each part with a name and a comment of its own. The type invariants are parts
of the invariants proved in section 4.

Why the bounds are enough. Lease: two clients and a third token let a lease
expire, be taken over and be released late by its former holder, with a copy
under way; the proofs cover every size, and EvictedByOwner TTLs that differ. Delivery: a second
delivery is where a late handler, a redelivery and a restart meet; two handlers
at once is the smallest overlap. Lifecycle: with two managers both can run the
callbacks; two services can both have errors to send; a second signal comes
after `signal.Stop`. Router: two callers race Run with Stop and Close, the
second key is the iteration of Run's loop that comes late, the second Run is the
one that finds `stopChan` closed. grpc: one retry is one repeated nonce, and an
administrative change falls before, between or after the attempts. Redis: two
callers are the overlap of two health checks; the writes of two stores with
different codecs meet on one key. Logs: three days to a date lets MaxAge be
equal to, shorter or longer than the period, and four days pass a midnight.
Events: two relays are what a claim must keep apart, one crash leaves a claim
behind, one refusal makes a retry; a second topic is what an exchange's lock is
held for while another is wanted. Admission: a third caller waits for the slot
an extra release gave away; two workers are the smallest race; a third message
fills a batch that a failure has emptied.

Deadlock checking is off where the system may stop: all deliveries are made,
the process has ended, every caller has made its calls. In the lease run it is
on: time always passes.

### Fairness

* LeaseLock: weak fairness of `Tick`. Time passes; clients need not act.
* MessageDelivery: weak fairness of the adapter's steps. The Go scheduler runs
  the goroutine and the timer fires. Handlers have none: they may hang.
* ProcessLifecycle: weak fairness of the goroutines and of the return of
  callbacks (the code has no timeout for them, so SignalExits needs it). None
  for services ending, signals or registrations.
* RouterLifecycle: strong fairness of the callers' pending steps, since a mutex
  is released and taken again by others in between and Go hands a starving
  waiter the mutex, and of `ConsumerExits`, since a `select` with several ready
  channels chooses among them at random; weak fairness of a handler's return.
  StopReturns also assumes that no handler waits for itself: over RabbitMQ a
  handler that calls the router while Stop waits never returns, over NSQ one
  that calls Close.
* GrpcCall: weak fairness of each call's client steps, the end of an armed
  deadline among them, and of each attempt's server steps, since goroutines run
  and a deadline comes. None for the network's answer or the handler:
  CallReturns rests on the deadline that ClientTimeoutInterceptor sets.
* RedisRuntime: weak fairness of a call that has begun and of time. Recovers
  states in its premise that health checks go on; nothing in the package
  starts them.
* CertReload: weak fairness of a load that has begun, and none of the files.
* EventOutbox: weak fairness of the hooks and of a relay that has a claim, of
  NextAttemptAt and the stale time; strong fairness of the claim of each due
  row, because a relay takes due rows in their turn and a row is due again and
  again.
* EventBus: weak fairness of callers, handlers and of Close.
* Admission: weak fairness of time and of a waiting Acquire, of the refill and
  the breaker's timeout, and of the workers; strong fairness of the delivery of
  each queued message to some worker, because a broker delivers in turn.
  Failures are bounded (MaxFails).

### What the runs found

The violated properties say what a comment or document of the repository says:

* http_body: `readAndRestoreHTTPRequestBody` restores only the MaxBodyBytes it
  has read, so logging a request changes what the handler gets.
* tls_reload: the certificate the server serves is the first one;
  StartAutoReload replaces a pointer that no handshake reads again.
* delivery_recover: TimeoutMiddleware runs the handler on a goroutine no
  `recover` of the chain covers.

Behaviours of the models that no run is about: `Renew` with less than a
millisecond deletes the key and answers success; a handler that outlives its
timeout and the redelivery both find no mark and both process the message;
`Publish` sets no MessageId, so over RabbitMQ the UUID is a delivery tag, and
after a restart a marked tag makes the adapter acknowledge a message nobody
has processed (with ids of their own nothing is lost, proved); `done` and
`errCh` of a RunGroup may be ready together and `Run` return nil after a
failure; `Stop` during the router's Run is followed by another Subscribe, which
RabbitMQ's subscriber accepts; a signal between `Start` and `signal.Notify`
kills the process; with two managers the first to finish exits while the other's
callbacks run; an `Ack` that finds the message settled by the adapter's Nack
returns nil and the message is delivered again; after `ConnectionLost` no
RabbitMQ consumer starts again; a lost answer of SETNX leaves the key locked
until its TTL. More are with the modules above.

## 4. Proofs

| Theorem | For every | Assuming |
|---|---|---|
| TypeCorrect (LeaseLock) | clients, tokens, specs, TTLs, strays | the typing of the constants |
| LeaseInvariant, Exclusive, Truthful, Implements | the same | MillisecondTTLs, UniformTTLs |
| EvictedByOwner | the same | MillisecondTTLs |
| DeliveryInvariant, AnsweredOnceAlways, MarkedAlways, DoneStaysDone, ImplementsDelivery | messages, deliveries, chain, adapter | the typing of the constants |
| NothingLostAlways | the same | NoId = {} |
| LifecycleInvariant, ExitAfterCallbacks, NilAfterAllServices, NobodyWaitsForErrCh | managers, callbacks, services | finitely many services |
| RouterInvariant, QuietAlways, ClosedOnce, StopNeverDeadlocks | keys, callers, Runs, brokers | actors are distinct |
| TypeCorrect (delivery, lifecycle, router) | as the invariant of the module | as the invariant |
| GateHolds | callers, limits, timeouts, deadlines, extra releases | finitely many callers |
| RateHolds | keys, callers, rates, bursts, skewed clocks, evictions | finitely many callers, one of them with the fastest clock; an idle bucket is full before it is forgotten |
| SharedRateInAnyWindow | the same, and every moment to count from | the same, and a bound of the clocks' lag behind the fastest |
| ChainHolds | messages, workers, chains, failures, crashes | finitely many workers; a circuit breaker opens after at least one failure |
| OutboxHolds, OutboxImplements | transactions, hooks, events, relays, catalogs, crashes | the typing of the constants |
| BusHolds | providers, goroutines, handlers, topics, faults | the typing of the constants |
| DatabasesHold, InitOpensAll | connections, stages, hooks, callers | the typing of the constants |
| CertsHold | generations of files, reload goroutines, peers | the typing of the constants |
| StoreHolds | keyspaces, keys, stores, codecs, users, purges | finitely many users; purges are of root keyspaces |
| PurgeContained | the same | RootsApart |
| RuntimeHolds | profiles, servers, callers, configurations | finitely many callers, MaxRetryDelay > 0 |
| SignedOnce | calls, retries, chains, clocks, keys, changes of rules | the typing of the constants, a recovery in each chain |
| CallHolds | the same | OncePerChain |
| RequestsHold | requests, headers, bodies, presets, commands, ids | ids made for a request are not empty |
| LogsHold | loggers, outputs, levels, rotation periods, disk faults | the typing of the constants |

Lease. MutualExclusion is not inductive: it says nothing about answers and
copies under way. `IInv` adds that every token belongs to one call
(TokensIssued), that a call and the lease it is for agree (CallsMatchLeases),
that all grants have the same length (GrantsUniform: this is where UniformTTLs
is needed, else a late short Renew undercuts a long one), that a released token
is never held (ReleasedIsSpent), and the core, LeasesBacked: a lease with time
left, or one an answer under way would give, is backed by a store entry with
its token and at least as much time. Two valid leases of one key then have one
entry, hence one token, hence one client. For Implements, `holder` names that
client; every step either makes nobody a holder who was not one, which is
LeaseContract's End, or is the answer of a grant, and then nobody else holds
the key. EvictedByOwner needs neither the invariant nor equal TTLs, only that
no Renew under way asks PEXPIRE for 0, which would delete the key.

Delivery. `DInv` says who has taken the settled flag (SettledBy: the number of
answers is determined by the two goroutines' places), that a result "ok" stands
for a processed, marked or acknowledged message (ResultsTrue), that no panic is
returned as a result, and that marks and done messages are justified. All
actions but Deliver, Restart and the broker's change one delivery; the lemmas
OneDelivery, LocalStep, AnswerStep and EndStep carry the invariant through
them. ImplementsDelivery needs no assumption on NoId, as the contract speaks of
identified messages only: a step of a delivery either adds one message to `handled`
or `spent` (HandledMoves) or none (MoveIsNone), and an answer that lets the broker
forget a message finds it there, by SettledBy and ResultsTrue (AnswerForgets).
DoneStaysDone says the last part of the contract of every message: what the broker
has done with never comes back.

Lifecycle. `PInv` adds to the two properties which callbacks a shutdown waits
for (ShutdownProgress), that only a manager exits (ExitByManager), and that a
closed `done` means all services are over and stay over (ClosedAfterAll).
NobodyWaitsForErrCh counts: errCh holds no more errors than services are over
(ErrorsAreOfTheOver), and who is about to send is not over, so one of the
`len(Services)` places is free; GroupEnds is the same as a liveness property.

Router. QuietAfterStop is inductive with the types, because every step that
lets go of the subscriber's mutex first sees all consumers gone and a later
Subscribe is counted as late. NoDoubleClose needs ClosedByStop: a router that
runs with `stopChan` closed has been run twice. StopNeverDeadlocks follows from who
waits for whom (WaitsAfterStop): a held subscriber's mutex belongs to a call that
waits for the consumers, and it has told them to stop before. So each wait ends at
a consumer that can go on, or at a handler, which must not wait itself; that is
the premise of StopReturns as well, asked of the present state only.

Backpressure. `BInv` is GateInv with the sets its variables are from and one
fact more, that a channel is never fuller than its capacity; with NoSlotLeaks
that gives InflightBounded. Each step adds or removes one caller of Inside, or
leaves the set alone (OneGate).

Rate limits. LocalRateHolds counts what was admitted since the start; `RInv` adds
the bucket to the account (WithinAllowance): what was admitted, what the bucket
has and what refusals under way will give back are together at most what has
flowed in. An entry that is forgotten was idle for LimiterTTL, so its bucket is
full, which is what the next one starts with. Refusals change the bucket twice
and not in order, so OwesAt looks ahead: at every time to come the debt is that
of the refusals still out then and of those lost to an overlap. SharedHolds is
the account of the Redis script, on the fastest clock, with what slower ones have
set back, and says that the bucket outlives its refilling. AnswersHold says that
a refused caller, with nobody asking since, finds the bucket as its own request
left it, which is what RetryAfterIsEnough needs.

SharedRateInAnyWindow says more than SharedRateHolds, which counts from the start: a
limiter is to bound every window. Room is what can still be taken from the bucket,
for each of the three states the next script may find: its tokens at its time, a
new bucket because the old one has expired, or no more than a full one plus what
the slowest clock may make up for. A script turns each into one of the three
(ScriptTakes, RoomAfterScript), and so does time (RoomAfterTick). The lag counts
once: a bucket that is full at the time of a slow clock is filled again by a fast
one.

Chain. AuditBalances is inductive with the messages' owners: no two workers have
one message (OwnMessage). QuietBreakerAgrees needs to know why a count at the
maximum does not stay: some worker is on its way to open the breaker or to set
the count back, or the state is being written to open (OpensOrResets); the type
of the count needs that each failure counted, or about to be, was one
(CountBounded). AckedIsAccounted needs, as long as no two workers met in the
batch's code, where the message of each place of that code is (BatchAccounted).

Outbox. OutboxInv speaks of what has arrived and what has run; `OInv` adds what
is under way: the hooks that have run are the first of those registered, after a
commit (TxnsInv), a row is the record of an event a committed transaction has
staged (RowsInv), a relay's claim and its message are of such a row (ClaimsInv),
and so is every message that arrived (MessageOf); the catalog has passed
Validate (CatalogInv). OutboxImplements adds two facts: no two transactions stage
one event (StagedOnce), which the contract's Stage and an all-or-nothing Commit
need, and what is marked as published, or about to be, has reached the broker
(SentKept), which Settle needs: a relay whose claim was taken over marks a row that
another one may meanwhile have sent, never one that nobody has.

Bus. `BusIInv` ties the open connections to the place construction or Close has
reached (ConnsInv), a Publish that sends to an exchange the publisher remembers
(CallsInv), a remembered exchange to one that is declared or was deleted, which
is a fault (ExchangesInv), and a running handler to a bus whose subscriber, and
over RabbitMQ whose publisher, is still connected (HandlersInv).

Databases. `DbIInv` says that a writer holds the RWMutex alone (WriterIsAlone),
what a call still walks over and that an Init has opened the rest (CallWalks),
that the main goroutine is in a call only where it waits for one (MainCalls), and
that what its Close hook has walked over stays closed unless somebody calls Init
again (StaysClosed); NoneForgotten then holds of every lifecycle with a Close
hook. SomeCallGoesOn is stated with the guards written out (CanGoOn) in the
place of ENABLED.

Certificates. A load may meet two generations of files; `CertIInv` says that
certificate and key it is about to publish are of one (MaterialIsWhole) and that
an admitted peer has passed verifyPeerCertificate (AdmittedVerified). A lemma,
WildcardIsBelow, says that a wildcard never stands for no label.

Store. ConsumedOnce needs that no two entries are of one write (WritesUnique) and
that what was won is no longer there (WinsGone); ReadsOwnForm needs that an entry
is of a store with its key (EntriesOwned); the purge needs that what is left of
its keyspace is in the batch or still owed by SCAN (PurgeWillMeet). PurgeContained
is an action property: DeleteByPattern deletes inside its keyspace, if no root
keyspace begins with another (RootsApart).

Runtime. `RtIInv` bounds the back-off (DelaysBounded), says what a call does at
each place (CallerPlaces), and that what a lone caller has still to open is not
open (AloneDropsNone), so that it drops no client.

gRPC. The core of `GInv` is NonceKept: an accepted signature's nonce is in the
store for as long as its timestamp can be accepted. It rests on two things: a
timestamp under validation is at most Validity ahead of the server's clock
(Validating), so the TTL of twice Validity outlasts it, and requests with one
nonce have one timestamp (NonceOf, CallNonce, lemma SameNonce). Whoever finds
the nonce absent then has no accepted rival, only ones that validate beside it
(ClaimsOverlap). No order of the chains is assumed. `OInv` is what holds besides
where no interceptor is twice in a chain: an attempt's own nonce is stored by
nobody else (OwnNonce), a dead key stays dead and does not pass (DeadKey), the
certificate's name is compared where the credential is found (Compared), and
each observer's record agrees with the end (EndRecorded). With an interceptor
twice in a chain CallInv fails: the second CredentialInterceptor takes the
request's own nonce for a replay. The server's actions are first reduced to six
effects on a request (ServerEffect), the client's to three (ClientEffect).

Logs of requests. `RqIInv` says of each request, as a predicate of its state and
its records (RqHolds): a request that has not come to its handler is untouched
(NotBegun), the ids are there before the first record (RecordsIdentify), and the
wrapper of the response follows Gin's own status until the headers are out
(StatusKept). For the MongoDB commands, a command under way belongs to the one
request that waits for it, and the context in the cache is the one it waits with
(CommandWaits); the end records of a command therefore have the ids of its
request.

Log files. KeptWhileYoung is about the cleaner, which decides in one step and
removes in another. `LfIInv` says that a file has the date of its last write
(FileOK), that what a cleaner is about to remove has a past date, where no
writer writes again, and only old records (CleanerOK), and that the one writer
whose file is gone is of an earlier date, so that it opens a new one before it
writes (WriterOK). Each of these needs `Lasting`, that a period is not
longer than maxAge, which KeptWhileYoung states as its condition.

Only model-checked: the liveness properties (OrphanExpires, TimeoutFreesAdapter,
GroupEnds, SignalExits, StopReturns, CallReturns, Recovers, BuilderCatchesUp,
CloseReturns, OutboxProgress, WaitIsBounded, MessagesGetThrough), since the prover
reasons neither about fairness nor about ENABLED. For three of them the step the
argument rests on is a theorem without fairness: whoever is waited for can go on
(NobodyWaitsForErrCh, StopNeverDeadlocks, and SomeCallGoesOn of DatabasesHold).
Every safety invariant, action property and refinement of a passing run has a
theorem.

## 5. Plan

What would say more, in this order: the same step for the other liveness arguments
(each action of a waiting goroutine stays possible until it is taken, and a measure
falls); SharedRateInAnyWindow for the local limiter, whose entries are forgotten
and whose refusals run into debt; an abstract counting semaphore that the gate
implements; and the facts about the recursive conversions that TLC only samples.

## 6. Not modelled

Errors (values; formatting and stacks), string and id utilities, generated and
example code, the drivers and client libraries behind an interface (they appear
as external actions). Formatting, masking and the wording of records; the
builders of connection strings, tls.Config's fixed fields, YAML loading; the
stateless middlewares Logger, Metrics, Tracing and Priority; AlertChecker,
GetMetrics and ClientLogInterceptor; NSQ's topic creator; lumberjack's own
rotation. Calls that return early without a change are not actions; their
conditions are guards.
