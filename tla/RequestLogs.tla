----------------------------- MODULE RequestLogs -----------------------------
(****************************************************************************)
(* The logs of one HTTP request: TracingMiddleware, the Gin middleware of   *)
(* HTTPLoggerWithConfig, the RequestLogger a handler takes from its         *)
(* context, and the hooks of the drivers it calls (Mongo, Redis, GORM).     *)
(* Requests run concurrently and share the hooks and the logger.            *)
(*                                                                          *)
(* A body is a sequence of bytes of which only the number matters.  What a  *)
(* record says is the request's trace, the values of its request_id field   *)
(* in the order they are written, and its level.                            *)
(****************************************************************************)
EXTENDS Integers, Sequences, FiniteSets

CONSTANTS
    Requests,        \* name -> [trace, id: of its headers, "" if it has none;
                     \*          key: the id a Gin middleware has stored, body, preset,
                     \*          path, traced, does: what its handler does]
    RequestGroups,   \* sets of requests that run together
    SkipPaths, MaxBodyBytes, LogRequestBody, LogResponseBody,
    IgnoredCommands, LogCommandDetail,
    GormLevel,       \* LogLevel of the GORM logger: 0 to 4
    MongoIDs,        \* request ids of the Mongo driver
    MaxOps           \* steps of a handler

VARIABLES
    rqReq,      \* request -> where it is, its context, its body and its writer
    rqLog,      \* request -> the records it has caused
    rqCache,    \* MongoHook.commandCache: request id -> the context of the command
    rqCmd       \* request id -> the command the driver runs under it

rqVars == <<rqReq, rqLog, rqCache, rqCmd>>

Names == DOMAIN Requests
OK == 200
BadRequest == 400
NotFound == 404
ServerError == 500
NotRead == -1
NoID == ""
NoCommand == [req |-> NoID, name |-> NoID]

\* What a context carries: nothing, or trace and request id, and the
\* RequestLogger's fields.
NoContext == [trace |-> NoID, id |-> NoID, logger |-> <<>>]

ASSUME RequestLogConstants ==
    /\ MaxBodyBytes \in Nat \ {0} /\ GormLevel \in 0..4 /\ MaxOps \in Nat
    /\ UNION RequestGroups \subseteq Names /\ NoID \notin Names
    /\ \A r \in Names :
          Requests[r].body \in Nat /\ Requests[r].preset \in {OK, NotFound} /\ Requests[r].traced \in BOOLEAN

-----------------------------------------------------------------------------
(* Contexts and records.                                                    *)

\* idutil.NewTraceID and NewRequestID: never given twice.
NewID(r) == r

WithTraceContext(ctx, trace, id) ==
    [ctx EXCEPT !.trace = trace, !.id = IF id = NoID THEN @ ELSE id]

\* TraceFields: the ids that are there, as [trace, ids].
TraceFields(ctx) == [trace |-> ctx.trace, ids |-> IF ctx.id = NoID THEN <<>> ELSE <<ctx.id>>]

\* NewRequestLogger: the trace fields come before the caller's.
NewRequestLogger(ctx, id) == [TraceFields(ctx) EXCEPT !.ids = Append(@, id)]

\* L: the logger of the context, or one with its trace fields.
L(ctx) == IF ctx.logger # <<>> THEN ctx.logger[1] ELSE TraceFields(ctx)

Rec(by, level, fields, about) ==
    [by |-> by, level |-> level, trace |-> fields.trace, ids |-> fields.ids, about |-> about]

Logged(r, rec) == rqLog' = [rqLog EXCEPT ![r] = @ \cup {rec}]

-----------------------------------------------------------------------------
(* The middlewares.                                                         *)

Tracing(r) ==
    LET q == Requests[r]
        trace == IF q.trace = NoID THEN NewID(r) ELSE q.trace
        id == IF q.id = NoID THEN NewID(r) ELSE q.id
        ctx == WithTraceContext(NoContext, trace, id)
    IN  /\ rqReq[r].pc = "arrived"
        /\ IF q.traced
           THEN /\ rqReq' = [rqReq EXCEPT ![r].pc = "gin", ![r].ctx = ctx]
                /\ Logged(r, Rec("tracing", "info", TraceFields(ctx), <<"start">>))
           ELSE rqReq' = [rqReq EXCEPT ![r].pc = "gin"] /\ UNCHANGED rqLog
        /\ UNCHANGED <<rqCache, rqCmd>>

Least(a, b) == IF a < b THEN a ELSE b

\* readAndRestoreHTTPRequestBody: the bytes that were read, and what the
\* handler finds in the request afterwards.
readAndRestore(n) == [logged |-> Least(n, MaxBodyBytes), left |-> Least(n, MaxBodyBytes)]

\* HTTPLoggerWithConfig up to c.Next.
HTTPLoggerStarts(r) ==
    LET q == Requests[r]
        st == rqReq[r]
        ctx == [st.ctx EXCEPT !.logger = <<NewRequestLogger(st.ctx, q.key)>>]
        body == IF LogRequestBody THEN readAndRestore(q.body) ELSE [logged |-> 0, left |-> q.body]
        fields == [TraceFields(ctx) EXCEPT !.ids = <<q.key>> \o @]
    IN  /\ st.pc = "gin"
        /\ IF q.path \in SkipPaths
           THEN rqReq' = [rqReq EXCEPT ![r].pc = "handler"] /\ UNCHANGED rqLog
           ELSE /\ rqReq' = [rqReq EXCEPT ![r].pc = "handler", ![r].ctx = ctx,
                       ![r].body = body.left, ![r].logged = body.logged, ![r].wrapped = TRUE]
                /\ Logged(r, Rec("http", "info", fields, <<"start">>))
        /\ UNCHANGED <<rqCache, rqCmd>>

\* logHTTPRequestEnd: the level is that of the status the wrapper has seen.
HTTPLevel(status) ==
    IF status >= ServerError THEN "error" ELSE IF status >= BadRequest THEN "warn" ELSE "debug"

HTTPLoggerEnds(r) ==
    LET st == rqReq[r]
        fields == [TraceFields(st.ctx) EXCEPT !.ids = <<Requests[r].key>> \o @]
    IN  /\ st.pc = "returned"
        /\ rqReq' = [rqReq EXCEPT ![r].pc = "left"]
        /\ IF st.wrapped
           THEN Logged(r, Rec("http", HTTPLevel(st.status), fields,
                              <<"end", st.status, st.logged, st.captured>>))
           ELSE UNCHANGED rqLog
        /\ UNCHANGED <<rqCache, rqCmd>>

\* TracingMiddleware after ServeHTTP: its wrapper has the header that Gin sent.
TracingEnds(r) ==
    /\ rqReq[r].pc = "left"
    /\ rqReq' = [rqReq EXCEPT ![r].pc = "done"]
    /\ IF Requests[r].traced
       THEN Logged(r, Rec("tracing", "info", TraceFields(rqReq[r].ctx), <<"end", rqReq[r].header>>))
       ELSE UNCHANGED rqLog
    /\ UNCHANGED <<rqCache, rqCmd>>

-----------------------------------------------------------------------------
(* The handler.                                                             *)

InHandler(r, what) ==
    rqReq[r].pc = "handler" /\ what \in Requests[r].does /\ rqReq[r].ops < MaxOps

\* The handler reads its body to the end.
ReadsBody(r) ==
    /\ InHandler(r, "read")
    /\ rqReq' = [rqReq EXCEPT ![r].got = IF @ = NotRead THEN rqReq[r].body ELSE @, ![r].body = 0, ![r].ops = @ + 1]
    /\ UNCHANGED <<rqLog, rqCache, rqCmd>>

\* httpBodyCaptureWriter.Write: what the buffer holds after n bytes.
Captured(have, n) ==
    IF LogResponseBody /\ have < MaxBodyBytes THEN have + Least(MaxBodyBytes - have, n) ELSE have

\* Gin sends the header with the first byte.
Writes(r, n) ==
    /\ InHandler(r, "write")
    /\ rqReq' = [rqReq EXCEPT
           ![r].captured = IF rqReq[r].wrapped THEN Captured(@, n) ELSE @,
           ![r].sent = @ + n, ![r].ops = @ + 1,
           ![r].header = IF @ = 0 THEN rqReq[r].gin ELSE @]
    /\ UNCHANGED <<rqLog, rqCache, rqCmd>>

\* httpBodyCaptureWriter.WriteHeader: the wrapper notes every status, Gin
\* ignores one that comes after the header.
WriteHeader(r, code) ==
    /\ InHandler(r, "status")
    /\ rqReq' = [rqReq EXCEPT
           ![r].status = IF rqReq[r].wrapped THEN code ELSE @, ![r].ops = @ + 1,
           ![r].late = @ \/ rqReq[r].header # 0,
           ![r].gin = IF rqReq[r].header = 0 THEN code ELSE @]
    /\ UNCHANGED <<rqLog, rqCache, rqCmd>>

\* The RequestLogger of the context; InfoContext; and InfofContext, whose
\* With(fields) hands zap one slice, which it drops.
Says(r, how) ==
    LET fields == CASE how = "L" -> L(rqReq[r].ctx)
                    [] how = "InfoContext" -> TraceFields(rqReq[r].ctx)
                    [] how = "InfofContext" -> TraceFields(NoContext)
    IN  /\ InHandler(r, "say")
        /\ rqReq' = [rqReq EXCEPT ![r].ops = @ + 1]
        /\ Logged(r, Rec(how, "info", fields, <<"op", rqReq[r].ops + 1>>))
        /\ UNCHANGED <<rqCache, rqCmd>>

-----------------------------------------------------------------------------
(* The hooks of the drivers.                                                *)

\* RedisHook.logCommand, and logCommandSucceeded and logCommandFailed of Mongo.
\* Only a single Redis command takes redis.Nil for an answer.
HookLevel(outcome, took) ==
    IF outcome = "error" THEN "error" ELSE IF took THEN "warn" ELSE "debug"

\* gormLogger.Trace: "none" if nothing is logged.
GormTrace(outcome, took) ==
    IF outcome = "error" /\ GormLevel >= 2 THEN "error"
    ELSE IF took /\ GormLevel >= 3 THEN "warn"
    ELSE IF GormLevel >= 4 THEN "debug" ELSE "none"

\* ProcessHook, ProcessPipelineHook and Trace run around the call.
Queries(r, what, outcome, took) ==
    LET seen == IF what = "pipeline" /\ outcome = "nil" THEN "error" ELSE outcome
        level == IF what = "sql" THEN GormTrace(seen, took) ELSE HookLevel(seen, took)
    IN  /\ InHandler(r, what)
        /\ rqReq' = [rqReq EXCEPT ![r].ops = @ + 1,
                       ![r].failed = IF outcome = "error" THEN @ \cup {rqReq[r].ops + 1} ELSE @]
        /\ IF level = "none" THEN UNCHANGED rqLog
           ELSE Logged(r, Rec(what, level, TraceFields(rqReq[r].ctx), <<"op", rqReq[r].ops + 1>>))
        /\ UNCHANGED <<rqCache, rqCmd>>

Cached(name) == name \notin IgnoredCommands /\ LogCommandDetail

\* Faulty variant: one slot for the command that was started last.
CommandStartedOneSlot(r, id, name) ==
    /\ InHandler(r, "mongo") /\ rqCmd[id] = NoCommand
    /\ rqCmd' = [rqCmd EXCEPT ![id] = [req |-> r, name |-> name]]
    /\ rqCache' = [rqCache EXCEPT ![CHOOSE i \in MongoIDs : TRUE] = <<rqReq[r].ctx>>]
    /\ rqReq' = [rqReq EXCEPT ![r].pc = "mongo", ![r].ops = @ + 1]
    /\ UNCHANGED rqLog

\* logCommandStarted, on the caller's goroutine.
CommandStarted(r, id, name) ==
    /\ InHandler(r, "mongo") /\ rqCmd[id] = NoCommand
    /\ rqCmd' = [rqCmd EXCEPT ![id] = [req |-> r, name |-> name]]
    /\ rqCache' = IF Cached(name) THEN [rqCache EXCEPT ![id] = <<rqReq[r].ctx>>] ELSE rqCache
    /\ rqReq' = [rqReq EXCEPT ![r].pc = "mongo", ![r].ops = @ + 1]
    /\ UNCHANGED rqLog

\* The context a finished command is logged with, the driver's if it has none.
LoadAndDelete(id) == [rqCache EXCEPT ![id] = <<>>]
CommandContext(id, ctx) == IF rqCache[id] # <<>> THEN rqCache[id][1] ELSE ctx

\* logCommandSucceeded and logCommandFailed.  A failure is always logged.
CommandEnds(id, outcome, took) ==
    LET c == rqCmd[id]
        r == c.req
    IN  /\ c # NoCommand
        /\ rqCmd' = [rqCmd EXCEPT ![id] = NoCommand]
        /\ rqReq' = [rqReq EXCEPT ![r].pc = "handler",
                       ![r].failed = IF outcome = "error" THEN @ \cup {rqReq[r].ops} ELSE @]
        /\ IF outcome # "error" /\ c.name \in IgnoredCommands
           THEN UNCHANGED <<rqLog, rqCache>>
           ELSE /\ rqCache' = LoadAndDelete(id)
                /\ Logged(r, Rec("mongo", HookLevel(outcome, took),
                                 TraceFields(CommandContext(id, rqReq[r].ctx)), <<"op", rqReq[r].ops>>))

Returns(r) ==
    /\ rqReq[r].pc = "handler"
    /\ rqReq' = [rqReq EXCEPT ![r].pc = "returned",
                   ![r].header = IF @ = 0 THEN rqReq[r].gin ELSE @]
    /\ UNCHANGED <<rqLog, rqCache, rqCmd>>

\* A panic passes HTTPLoggerWithConfig, which writes no end record; Gin's
\* recovery answers, or it passes TracingMiddleware too.
Panics(r) ==
    /\ InHandler(r, "panic")
    /\ \/ rqReq' = [rqReq EXCEPT ![r].pc = "left",
                       ![r].header = IF @ = 0 THEN ServerError ELSE @]
       \/ rqReq' = [rqReq EXCEPT ![r].pc = "panicked"]
    /\ UNCHANGED <<rqLog, rqCache, rqCmd>>

-----------------------------------------------------------------------------
NewRequest(r, group) ==
    [pc |-> IF r \in group THEN "arrived" ELSE "absent", ctx |-> NoContext,
     body |-> Requests[r].body, got |-> NotRead, logged |-> 0, wrapped |-> FALSE,
     captured |-> 0, sent |-> 0, status |-> OK, gin |-> Requests[r].preset, header |-> 0,
     late |-> FALSE, failed |-> {}, ops |-> 0]

RequestInit ==
    /\ \E group \in RequestGroups : rqReq = [r \in Names |-> NewRequest(r, group)]
    /\ rqLog = [r \in Names |-> {}]
    /\ rqCache = [id \in MongoIDs |-> <<>>]
    /\ rqCmd = [id \in MongoIDs |-> NoCommand]

RequestNext ==
    \/ \E r \in Names :
         \/ Tracing(r) \/ HTTPLoggerStarts(r) \/ HTTPLoggerEnds(r) \/ TracingEnds(r)
         \/ ReadsBody(r) \/ Returns(r) \/ Panics(r)
         \/ \E n \in 1..2 : Writes(r, n)
         \/ \E code \in {OK, NotFound, ServerError} : WriteHeader(r, code)
         \/ \E how \in {"L", "InfoContext", "InfofContext"} : Says(r, how)
         \/ \E what \in {"redis", "pipeline", "sql"}, o \in {"ok", "nil", "error"}, took \in BOOLEAN :
               Queries(r, what, o, took)
         \/ \E id \in MongoIDs, name \in {"find", "ping"} : CommandStarted(r, id, name)
    \/ \E id \in MongoIDs, o \in {"ok", "error"}, took \in BOOLEAN : CommandEnds(id, o, took)

RequestSpec == RequestInit /\ [][RequestNext]_rqVars

-----------------------------------------------------------------------------
(* Properties.                                                              *)

\* Every variable has its type: at most MaxBodyBytes of a body are captured.
RequestTypeOK ==
    /\ \A r \in Names :
          /\ rqReq[r].pc \in {"absent", "arrived", "gin", "handler", "mongo", "returned",
                              "left", "done", "panicked"}
          /\ rqReq[r].captured \in 0..MaxBodyBytes /\ rqReq[r].logged \in 0..MaxBodyBytes
          /\ rqReq[r].ops \in 0..MaxOps /\ rqReq[r].header \in {0, OK, NotFound, ServerError}
    /\ \A id \in MongoIDs : Len(rqCache[id]) <= 1 /\ (rqCmd[id] = NoCommand \/ rqCmd[id].req \in Names)

\* Behind TracingMiddleware every structured record that a request causes has
\* its trace and its request id, a finished Mongo command's too, whatever other
\* requests had commands under way.
TraceEverywhere ==
    \A r \in Names : Requests[r].traced =>
        \A rec \in rqLog[r] : rec.by # "InfofContext" =>
            /\ rec.trace = rqReq[r].ctx.trace
            /\ \E i \in DOMAIN rec.ids : rec.ids[i] = rqReq[r].ctx.id

\* The command cache of MongoHook holds the commands under way and no other.
CacheIsInFlight ==
    \A id \in MongoIDs :
        rqCache[id] # <<>> <=> rqCmd[id] # NoCommand /\ Cached(rqCmd[id].name)

\* Logging leaves the body of a request alone, if it is no longer than MaxBodyBytes.
BodyIntactIfSmall ==
    \A r \in Names : rqReq[r].got # NotRead /\ Requests[r].body <= MaxBodyBytes =>
        rqReq[r].got = Requests[r].body

\* "Reads the request body and restores it": the handler finds what was sent.
BodyReachesHandler ==
    \A r \in Names : rqReq[r].got # NotRead => rqReq[r].got = Requests[r].body

\* What is logged of a response is all of it up to MaxBodyBytes, in however
\* many pieces the handler wrote it.
CapturedIsPrefix ==
    \A r \in Names : rqReq[r].wrapped /\ LogResponseBody =>
        rqReq[r].captured = Least(rqReq[r].sent, MaxBodyBytes)

\* The end records of both middlewares have the status the client was sent,
\* unless the handler set one after the header or Gin had set one before.
StatusAgrees ==
    \A r \in Names : ~rqReq[r].late /\ Requests[r].preset = OK =>
        \A rec \in rqLog[r] : rec.by \in {"http", "tracing"} /\ rec.about[1] = "end" =>
            rec.about[2] = rqReq[r].header

\* A failed command is logged as an error, an ignored one's failure too.
FailuresAreLogged ==
    GormLevel >= 2 =>
        \A r \in Names : \A i \in rqReq[r].failed :
            \E rec \in rqLog[r] : rec.about = <<"op", i>> /\ rec.level = "error"

\* What holds of records and requests at every time: traces, the cache of the
\* commands, bodies within the limit, the status that was sent, failures.
RequestInv ==
    /\ RequestTypeOK /\ TraceEverywhere /\ CacheIsInFlight
    /\ BodyIntactIfSmall /\ CapturedIsPrefix /\ StatusAgrees /\ FailuresAreLogged
=============================================================================
