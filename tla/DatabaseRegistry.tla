-------------------------- MODULE DatabaseRegistry --------------------------
(****************************************************************************)
(* The database registry and a staged process around it.  A Runner runs the *)
(* stages of a process, which register connections and initialise them; a   *)
(* Lifecycle runs its shutdown hooks, one of which closes the registry.     *)
(* Other goroutines use the registry meanwhile, under its RWMutex.          *)
(****************************************************************************)
EXTENDS Integers, Sequences

CONSTANTS
    DbTypes,         \* DatabaseType
    DbUsers,         \* goroutines that use the registry
    DbUses,          \* what they call
    DbStages,        \* the stages of the Runner: "init", "work", "nil", or a type to register
    DbHooks,         \* the hooks of the Lifecycle: "close" or "work"
    MaxUses          \* calls of all of them

VARIABLES
    dbReg,      \* connections: the types that are registered
    dbClient,   \* type -> the client its connection holds
    dbStray,    \* types with an open client that no connection holds
    dbUp,       \* type -> whether the server answers
    dbCall,     \* goroutine -> the call it is in
    dbMain,     \* the process: [pc, i, failed: stage, reported: hooks, late: Init since they began]
    dbUsed      \* calls that were made
dbVars == <<dbReg, dbClient, dbStray, dbUp, dbCall, dbMain, dbUsed>>

MainProc == "main"
DbActors == DbUsers \cup {MainProc}
NoCall == [pc |-> "idle", op |-> "", todo |-> {}, err |-> FALSE]

ASSUME DbConstants ==
    /\ MainProc \notin DbUsers /\ DbUses \subseteq {"init", "close", "health", "get"}
    /\ DbTypes \cap {"", "init", "close", "health", "get", "work", "nil"} = {}
    /\ DbStages \in Seq(DbTypes \cup {"init", "work", "nil"})
    /\ DbHooks \in Seq({"close", "work"}) /\ MaxUses \in Nat

-----------------------------------------------------------------------------
(* The mutex.  A goroutine that waits for the write lock keeps readers out. *)

Writing(op) == op \notin {"health", "get"}
Inside(a) == dbCall[a].pc = "in"

CanEnter(a) ==
    IF Writing(dbCall[a].op) THEN \A b \in DbActors : ~Inside(b)
    ELSE \A b \in DbActors : Writing(dbCall[b].op) => dbCall[b].pc = "idle"

\* Where a call can go on: at the lock, at a connection it walks over, at its end.
MayEnter(a) == dbCall[a].pc = "wait" /\ CanEnter(a)
At(a, op, t) == Inside(a) /\ dbCall[a].op = op /\ t \in dbCall[a].todo
AtEnd(a) == Inside(a) /\ dbCall[a].todo = {}

Calling(a, op) == [dbCall EXCEPT ![a] = [NoCall EXCEPT !.pc = "wait", !.op = op]]

\* The hooks have begun.
Ending == dbMain.pc \in {"hooks", "hook", "done"}

\* What a call walks over, a map in any order.
Walks(op) == CASE op \in DbTypes -> {op} [] op = "get" -> {} [] OTHER -> dbReg

EntersRegistry(a) ==
    /\ MayEnter(a)
    /\ dbCall' = [dbCall EXCEPT ![a].pc = "in", ![a].todo = Walks(dbCall[a].op)]
    /\ dbMain' = [dbMain EXCEPT !.late = @ \/ (dbCall[a].op = "init" /\ Ending)]
    /\ UNCHANGED <<dbReg, dbClient, dbStray, dbUp, dbUsed>>

\* The deferred unlock, and the error that is returned.
ReturnWith(a, err) == [dbCall EXCEPT ![a] = [@ EXCEPT !.pc = "idle", !.todo = {}, !.err = err]]
Went(a, t) == [dbCall EXCEPT ![a].todo = @ \ {t}]

ReturnsFrom(a) ==
    /\ AtEnd(a) /\ dbCall' = ReturnWith(a, dbCall[a].err)
    /\ UNCHANGED <<dbReg, dbClient, dbStray, dbUp, dbMain, dbUsed>>

-----------------------------------------------------------------------------
(* The operations, one connection at a time.                                *)

Register(a, t) ==
    /\ At(a, t, t)
    /\ dbReg' = dbReg \cup {t} /\ dbCall' = ReturnWith(a, t \in dbReg)
    /\ UNCHANGED <<dbClient, dbStray, dbUp, dbMain, dbUsed>>

\* Connect: a connection keeps the client it had if the new one fails ...
Connected(t) == IF dbUp[t] THEN [dbClient EXCEPT ![t] = "open"] ELSE dbClient

\* ... and a client whose ping fails, or one that is replaced, is not closed.
Strays(t) == IF ~dbUp[t] \/ dbClient[t] = "open" THEN dbStray \cup {t} ELSE dbStray

\* Faulty variant: Init goes on after an error and forgets it.
ConnectsGoesOn(a, t) ==
    /\ At(a, "init", t)
    /\ dbClient' = Connected(t) /\ dbCall' = Went(a, t)
    /\ UNCHANGED <<dbReg, dbStray, dbUp, dbMain, dbUsed>>

\* Registry.Init: the first error ends it.
Connects(a, t) ==
    /\ At(a, "init", t)
    /\ dbStray' = Strays(t) /\ dbClient' = Connected(t)
    /\ dbCall' = IF dbUp[t] THEN Went(a, t) ELSE ReturnWith(a, TRUE)
    /\ UNCHANGED <<dbReg, dbUp, dbMain, dbUsed>>

\* A client that is closed already, or whose server is gone, may answer with an error.
CloseFails(t) == IF dbClient[t] = "nil" THEN {FALSE}
                 ELSE IF dbClient[t] = "closed" \/ ~dbUp[t] THEN BOOLEAN ELSE {FALSE}
CloseClient(t) == IF dbClient[t] = "open" THEN [dbClient EXCEPT ![t] = "closed"] ELSE dbClient

\* Registry.Close: an error is kept, and the next connection is closed.  The connection
\* keeps its closed client.
CloseAll(a, t) ==
    /\ At(a, "close", t)
    /\ dbClient' = CloseClient(t)
    /\ \E err \in CloseFails(t) :
          dbCall' = [dbCall EXCEPT ![a].todo = @ \ {t}, ![a].err = @ \/ err]
    /\ UNCHANGED <<dbReg, dbStray, dbUp, dbMain, dbUsed>>

\* The HealthCheck of a connection: its client is missing, closed or without a server.
Healthy(t) == dbClient[t] = "open" /\ dbUp[t]

\* Registry.HealthCheck: the first that is not healthy ends it.
CheckClient(a, t) ==
    /\ At(a, "health", t)
    /\ dbCall' = IF Healthy(t) THEN Went(a, t) ELSE ReturnWith(a, TRUE)
    /\ UNCHANGED <<dbReg, dbClient, dbStray, dbUp, dbMain, dbUsed>>

-----------------------------------------------------------------------------
(* The process.                                                             *)

MainAt(where) == dbMain.pc = where /\ dbCall[MainProc].pc = "idle"

\* Runner.Run: a stage that is nil is passed over, the first error ends it.
RunStage ==
    /\ MainAt("stages") /\ dbMain.i <= Len(DbStages)
    /\ LET s == DbStages[dbMain.i]
       IN  \/ /\ s \in {"nil", "work"}
              /\ dbMain' = [dbMain EXCEPT !.i = @ + 1] /\ UNCHANGED dbCall
           \/ /\ s = "work"
              /\ dbMain' = [dbMain EXCEPT !.pc = "running", !.failed = s] /\ UNCHANGED dbCall
           \/ /\ s \notin {"nil", "work"}
              /\ dbMain' = [dbMain EXCEPT !.pc = "stage"] /\ dbCall' = Calling(MainProc, s)
    /\ UNCHANGED <<dbReg, dbClient, dbStray, dbUp, dbUsed>>

StageReturns ==
    /\ MainAt("stage")
    /\ dbMain' = IF dbCall[MainProc].err
                 THEN [dbMain EXCEPT !.pc = "running", !.failed = DbStages[dbMain.i]]
                 ELSE [dbMain EXCEPT !.pc = "stages", !.i = @ + 1]
    /\ UNCHANGED <<dbReg, dbClient, dbStray, dbUp, dbCall, dbUsed>>

BuildPrepared ==
    /\ MainAt("stages") /\ dbMain.i > Len(DbStages)
    /\ dbMain' = [dbMain EXCEPT !.pc = "running"]
    /\ UNCHANGED <<dbReg, dbClient, dbStray, dbUp, dbCall, dbUsed>>

\* The host ends, prepared or not, and runs the Lifecycle.
EndProcess ==
    /\ MainAt("running") /\ dbMain' = [dbMain EXCEPT !.pc = "hooks", !.i = 1]
    /\ UNCHANGED <<dbReg, dbClient, dbStray, dbUp, dbCall, dbUsed>>

\* Faulty variant: an error ends the hooks.
AfterHookStops(err) ==
    IF err THEN [dbMain EXCEPT !.pc = "done", !.reported = @ \cup {dbMain.i}]
    ELSE [dbMain EXCEPT !.pc = "hooks", !.i = @ + 1]

\* Lifecycle.Run: an error is reported, and the next hook runs.
AfterHook(err) ==
    [dbMain EXCEPT !.pc = "hooks", !.i = @ + 1, !.reported = IF err THEN @ \cup {dbMain.i} ELSE @]

RunShutdownHook ==
    /\ MainAt("hooks") /\ dbMain.i <= Len(DbHooks)
    /\ IF DbHooks[dbMain.i] = "close"
       THEN dbMain' = [dbMain EXCEPT !.pc = "hook"] /\ dbCall' = Calling(MainProc, "close")
       ELSE UNCHANGED dbCall /\ \E err \in BOOLEAN : dbMain' = AfterHook(err)
    /\ UNCHANGED <<dbReg, dbClient, dbStray, dbUp, dbUsed>>

HookReturns ==
    /\ MainAt("hook") /\ dbMain' = AfterHook(dbCall[MainProc].err)
    /\ UNCHANGED <<dbReg, dbClient, dbStray, dbUp, dbCall, dbUsed>>

LifecycleEnds ==
    /\ MainAt("hooks") /\ dbMain.i > Len(DbHooks)
    /\ dbMain' = [dbMain EXCEPT !.pc = "done"]
    /\ UNCHANGED <<dbReg, dbClient, dbStray, dbUp, dbCall, dbUsed>>

-----------------------------------------------------------------------------
UserCalls(a, op) ==
    /\ dbCall[a].pc = "idle" /\ dbUsed < MaxUses /\ dbMain.pc # "done"
    /\ dbCall' = Calling(a, op) /\ dbUsed' = dbUsed + 1
    /\ UNCHANGED <<dbReg, dbClient, dbStray, dbUp, dbMain>>

ServerChanges(t) ==
    /\ dbUp[t] /\ dbUp' = [dbUp EXCEPT ![t] = FALSE]
    /\ UNCHANGED <<dbReg, dbClient, dbStray, dbCall, dbMain, dbUsed>>

DbInit ==
    /\ dbReg = {} /\ dbStray = {} /\ dbUsed = 0
    /\ dbClient = [t \in DbTypes |-> "nil"]
    /\ dbUp = [t \in DbTypes |-> TRUE]
    /\ dbCall = [a \in DbActors |-> NoCall]
    /\ dbMain = [pc |-> "stages", i |-> 1, failed |-> "", reported |-> {}, late |-> FALSE]

CallStep(a) ==
    \/ EntersRegistry(a) \/ ReturnsFrom(a)
    \/ \E t \in DbTypes : Register(a, t) \/ Connects(a, t) \/ CloseAll(a, t) \/ CheckClient(a, t)

DbNext ==
    \/ \E a \in DbActors : CallStep(a)
    \/ \E a \in DbUsers, op \in DbUses : UserCalls(a, op)
    \/ RunStage \/ StageReturns \/ BuildPrepared \/ EndProcess
    \/ RunShutdownHook \/ HookReturns \/ LifecycleEnds
    \/ \E t \in DbTypes : ServerChanges(t)

DbSpec == DbInit /\ [][DbNext]_dbVars

-----------------------------------------------------------------------------
(* Properties.                                                              *)

\* Every variable has its type, and nobody else is in the registry with a writer.
DbTypeOK ==
    /\ dbReg \subseteq DbTypes /\ dbStray \subseteq dbReg
    /\ dbClient \in [DbTypes -> {"nil", "open", "closed"}]
    /\ \A t \in DbTypes : dbClient[t] # "nil" => t \in dbReg
    /\ \A a, b \in DbActors : a # b /\ Inside(a) /\ Inside(b) => ~Writing(dbCall[a].op)
    /\ dbMain.reported \subseteq DOMAIN DbHooks

\* When Registry.Init returns without an error every connection that was
\* registered has an open client, whoever else opens and closes them.
InitAllOrError ==
    [][\A a \in DbActors :
          dbCall[a].op = "init" /\ Inside(a) /\ dbCall'[a].pc = "idle" /\ ~dbCall'[a].err =>
              \A t \in dbReg : dbClient'[t] = "open"]_dbVars

\* Once the hooks have run, one of which closes the registry, no registered
\* connection has an open client, though an earlier hook or an earlier Close may
\* have failed, and whether or not the stages came to an end, if nobody has
\* called Init since the hooks began.
NoneForgotten ==
    dbMain.pc = "done" /\ ~dbMain.late /\ (\E i \in DOMAIN DbHooks : DbHooks[i] = "close") =>
        \A t \in dbReg : dbClient[t] # "open"

\* No call waits for ever: while one is under way, one can take a step of
\* CallStep, though an Init or a HealthCheck has failed half-way.
CanGoOn(a) ==
    \/ MayEnter(a) \/ AtEnd(a)
    \/ \E t \in DbTypes : \E op \in {t, "init", "close", "health"} : At(a, op, t)

SomeCallGoesOn ==
    (\E a \in DbActors : dbCall[a].pc # "idle") => \E a \in DbActors : CanGoOn(a)

\* What holds of the registry at every time: types and the lock, no client
\* forgotten by the hooks, no call that waits for ever.
DbInv == DbTypeOK /\ NoneForgotten /\ SomeCallGoesOn
=============================================================================
