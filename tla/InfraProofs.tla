----------------------------- MODULE InfraProofs -----------------------------
(****************************************************************************)
(* Proofs about what a process stands on: the database registry and the     *)
(* staged process around it, the mTLS material, typed values in Redis, the  *)
(* registry of Redis profiles, the logs of requests, the files of the logs. *)
(*                                                                          *)
(* Each part has an inductive invariant, a conjunction of named parts, and  *)
(* one lemma for each of them that an action can disturb.                   *)
(****************************************************************************)
EXTENDS DatabaseRegistry, CertReload, RedisStore, RedisRuntime, RequestLogs, LogFiles,
        FiniteSetTheorems, SequenceTheorems, WellFoundedInduction, TLAPS

-----------------------------------------------------------------------------
(* The database registry.                                                   *)

DbOps == DbTypes \cup {"", "init", "close", "health", "get"}
DbCalls == [pc : {"idle", "wait", "in"}, op : DbOps, todo : SUBSET DbTypes, err : BOOLEAN]
\* Places in the list of stages or of hooks.
Places == Nat \ {0}

DbMains ==
    [pc : {"stages", "stage", "running", "hooks", "hook", "done"}, i : Places,
     failed : DbTypes \cup {"", "init", "work", "nil"}, reported : SUBSET DOMAIN DbHooks,
     late : BOOLEAN]

DbTyped ==
    /\ dbReg \in SUBSET DbTypes /\ dbStray \in SUBSET DbTypes
    /\ dbClient \in [DbTypes -> {"nil", "open", "closed"}]
    /\ dbUp \in [DbTypes -> BOOLEAN]
    /\ dbCall \in [DbActors -> DbCalls]
    /\ dbMain \in DbMains

\* Nobody else is inside with a writer.
WriterIsAlone ==
    \A a, b \in DbActors : a # b /\ Inside(a) /\ Inside(b) => ~Writing(dbCall[a].op)

\* A client, and a stray one, is that of a registered type.
ClientsRegistered ==
    /\ \A t \in DbTypes : dbClient[t] # "nil" => t \in dbReg
    /\ dbStray \subseteq dbReg

\* What a call still walks over: its own type, or registered ones; and an Init
\* that goes on has opened the others.
CallWalks(a) ==
    /\ dbCall[a].pc # "idle" => dbCall[a].op # ""
    /\ dbCall[a].pc = "wait" => dbCall[a].todo = {}
    /\ Inside(a) /\ dbCall[a].op \in DbTypes => dbCall[a].todo \subseteq {dbCall[a].op}
    /\ Inside(a) /\ dbCall[a].op = "get" => dbCall[a].todo = {}
    /\ Inside(a) /\ dbCall[a].op \notin DbTypes => dbCall[a].todo \subseteq dbReg
    /\ Inside(a) /\ dbCall[a].op = "init" =>
          \A t \in dbReg \ dbCall[a].todo : dbClient[t] = "open"

\* Only the process registers types, and it is in a call only where it waits for one.
MainCalls ==
    /\ \A a \in DbUsers : dbCall[a].op \notin DbTypes
    /\ dbCall[MainProc].pc # "idle" => dbMain.pc \in {"stage", "hook"}
    /\ dbMain.pc = "hook" =>
          /\ dbCall[MainProc].op = "close" /\ dbMain.i \in DOMAIN DbHooks
          /\ DbHooks[dbMain.i] = "close"
    /\ dbMain.pc = "stage" => dbMain.i <= Len(DbStages)
    /\ dbMain.pc = "done" => dbMain.i > Len(DbHooks)

\* The hooks have closed the registry.
CloseHookRan ==
    \/ dbMain.pc \in {"hooks", "done"} /\ \E i \in DOMAIN DbHooks : i < dbMain.i /\ DbHooks[i] = "close"
    \/ dbMain.pc = "hook" /\ \E i \in DOMAIN DbHooks : i < dbMain.i /\ DbHooks[i] = "close"
    \/ dbMain.pc = "hook" /\ dbCall[MainProc].pc = "idle"

\* Unless somebody has called Init since the hooks began, what the process has
\* walked over in Close stays closed.
StaysClosed ==
    ~dbMain.late =>
        /\ dbMain.pc = "hook" /\ Inside(MainProc) =>
              \A t \in dbReg \ dbCall[MainProc].todo : dbClient[t] # "open"
        /\ CloseHookRan =>
              /\ \A t \in dbReg : dbClient[t] # "open"
              /\ \A a \in DbActors : Inside(a) => dbCall[a].op # "init"

DbIInv ==
    /\ DbTyped /\ WriterIsAlone /\ ClientsRegistered /\ (\A a \in DbActors : CallWalks(a))
    /\ MainCalls /\ StaysClosed

\* The bounds of the registry, and its actors.
LEMMA DbBounds ==
    /\ MainProc \in DbActors /\ DbUsers \subseteq DbActors /\ MainProc \notin DbUsers
    /\ DbActors = DbUsers \cup {MainProc}
    /\ DbUses \subseteq {"init", "close", "health", "get"} /\ DbUses \subseteq DbOps
    /\ DbTypes \cap {"", "init", "close", "health", "get", "work", "nil"} = {}
BY DbConstants DEF DbActors, DbOps

LEMMA DbLists ==
    /\ Len(DbStages) \in Nat
    /\ \A i \in 1..Len(DbStages) : DbStages[i] \in DbTypes \cup {"init", "work", "nil"}
    /\ Len(DbHooks) \in Nat /\ DOMAIN DbHooks = 1..Len(DbHooks)
    /\ \A i \in 1..Len(DbHooks) : DbHooks[i] \in {"close", "work"}
BY DbConstants, LenProperties, ElementOfSeq

\* One goroutine's call moves on, the others' are what they were.
LEMMA OneCall ==
    ASSUME DbTyped, NEW a \in DbActors, NEW c \in DbCalls, dbCall' = [dbCall EXCEPT ![a] = c]
    PROVE  /\ dbCall' \in [DbActors -> DbCalls] /\ dbCall'[a] = c
           /\ \A b \in DbActors : b # a => dbCall'[b] = dbCall[b]
BY DEF DbTyped

LEMMA NextPlace == 1 \in Places /\ \A i \in Places : i \in Nat /\ i >= 1 /\ i + 1 \in Places
BY DEF Places

LEMMA CallTyped == ASSUME DbTyped, NEW a \in DbActors PROVE dbCall[a] \in DbCalls
BY DEF DbTyped

\* The calls a goroutine can be in after it has moved.
LEMMA CallMoved ==
    ASSUME NEW c \in DbCalls, NEW todo \in SUBSET DbTypes, NEW pc \in {"idle", "wait", "in"}
    PROVE  LET d == [c EXCEPT !.pc = pc, !.todo = todo]
           IN  d \in DbCalls /\ d.pc = pc /\ d.op = c.op /\ d.todo = todo /\ d.err = c.err
BY DEF DbCalls

LEMMA CallFailed ==
    ASSUME NEW c \in DbCalls, NEW err \in BOOLEAN
    PROVE  LET d == [c EXCEPT !.err = err]
           IN  d \in DbCalls /\ d.pc = c.pc /\ d.op = c.op /\ d.todo = c.todo
BY DEF DbCalls

\* A call that keeps its operation, or stays outside, disturbs no writer.
LEMMA StaysAlone ==
    ASSUME WriterIsAlone, NEW a \in DbActors, \A b \in DbActors : b # a => dbCall'[b] = dbCall[b],
           dbCall'[a].pc = "in" => dbCall[a].pc = "in" /\ dbCall'[a].op = dbCall[a].op
    PROVE  WriterIsAlone'
BY DEF WriterIsAlone, Inside, Writing

\* The other calls walk on, unless what they have opened is closed.
LEMMA OthersWalk ==
    ASSUME DbTyped, NEW b \in DbActors, CallWalks(b), dbCall'[b] = dbCall[b],
           dbReg \subseteq dbReg',
           dbCall[b].pc = "in" /\ dbCall[b].op = "init" =>
               dbReg' = dbReg /\ \A t \in dbReg : dbClient[t] = "open" => dbClient'[t] = "open"
    PROVE  CallWalks(b)'
BY DEF CallWalks, Inside

LEMMA EntersAlone ==
    ASSUME WriterIsAlone, NEW a \in DbActors, \A b \in DbActors : b # a => dbCall'[b] = dbCall[b],
           CanEnter(a), dbCall'[a].op = dbCall[a].op
    PROVE  WriterIsAlone'
BY DEF WriterIsAlone, Inside, Writing, CanEnter

\* What a call that enters walks over.
LEMMA WalksOver ==
    ASSUME DbTyped, NEW op \in DbOps
    PROVE  /\ Walks(op) \in SUBSET DbTypes
           /\ op \in DbTypes => Walks(op) = {op}
           /\ op = "get" => Walks(op) = {}
           /\ op \notin DbTypes /\ op # "get" => Walks(op) = dbReg
BY DbBounds DEF Walks, DbTyped, DbOps

\* Goroutines other than the process do not undo its Close.
LEMMA UserStaysClosed ==
    ASSUME StaysClosed, MainCalls, WriterIsAlone, NEW a \in DbUsers,
           \A b \in DbActors : b # a => dbCall'[b] = dbCall[b],
           dbCall'[a].pc = "in" => dbCall[a].pc = "in" /\ dbCall'[a].op = dbCall[a].op,
           dbMain' = dbMain, dbReg' = dbReg,
           \A t \in dbReg : dbClient'[t] = "open" =>
               dbClient[t] = "open" \/ (dbCall[a].pc = "in" /\ dbCall[a].op = "init")
    PROVE  StaysClosed'
<1>1. dbCall'[MainProc] = dbCall[MainProc] /\ a \in DbActors /\ MainProc \in DbActors /\ a # MainProc
    BY DbBounds
<1> SUFFICES ASSUME ~dbMain.late
             PROVE  /\ dbMain.pc = "hook" /\ dbCall[MainProc].pc = "in" =>
                           \A t \in dbReg \ dbCall[MainProc].todo : dbClient'[t] # "open"
                    /\ CloseHookRan =>
                           /\ \A t \in dbReg : dbClient'[t] # "open"
                           /\ \A b \in DbActors : dbCall'[b].pc = "in" => dbCall'[b].op # "init"
    BY <1>1 DEF StaysClosed, CloseHookRan, Inside
<1>2. ASSUME dbMain.pc = "hook", dbCall[MainProc].pc = "in"
      PROVE  \A t \in dbReg \ dbCall[MainProc].todo : dbClient'[t] # "open"
  <2>1. dbCall[a].pc # "in"
      BY <1>1, <1>2 DEF WriterIsAlone, Inside, Writing, MainCalls
  <2> QED
      BY <1>2, <2>1 DEF StaysClosed, Inside
<1>3. ASSUME CloseHookRan
      PROVE  /\ \A t \in dbReg : dbClient'[t] # "open"
             /\ \A b \in DbActors : dbCall'[b].pc = "in" => dbCall'[b].op # "init"
    BY <1>1, <1>3 DEF StaysClosed, Inside
<1> QED
    BY <1>2, <1>3

\* The process registers types in its stages only.
LEMMA MainIs ==
    ASSUME MainCalls, NEW a \in DbActors
    PROVE  /\ dbCall[a].op \in DbTypes => a = MainProc
           /\ dbCall[a].pc # "idle" /\ dbCall[a].op # "close" /\ a = MainProc => dbMain.pc = "stage"
BY DbBounds DEF MainCalls

LEMMA NotYetClosed ==
    ASSUME dbMain'.pc \notin {"hook", "hooks", "done"}
    PROVE  StaysClosed'
BY DEF StaysClosed, CloseHookRan

LEMMA EntersKeeps == ASSUME DbIInv, NEW a \in DbActors, EntersRegistry(a) PROVE DbIInv'
<1> DEFINE op == dbCall[a].op
           c == [dbCall[a] EXCEPT !.pc = "in", !.todo = Walks(op)]
<1>1. dbCall[a] \in DbCalls /\ op \in DbOps /\ Walks(op) \in SUBSET DbTypes
    BY CallTyped, WalksOver DEF DbIInv, DbCalls
<1>2. c \in DbCalls /\ c.pc = "in" /\ c.op = op /\ c.todo = Walks(op)
    BY <1>1, CallMoved DEF DbCalls
<1>3. dbCall' = [dbCall EXCEPT ![a] = c]
    BY DEF EntersRegistry, MayEnter
<1> HIDE DEF c
<1>4. /\ dbCall' \in [DbActors -> DbCalls] /\ dbCall'[a] = c
      /\ \A b \in DbActors : b # a => dbCall'[b] = dbCall[b]
    BY <1>2, <1>3, OneCall DEF DbIInv
<1>5. /\ UNCHANGED <<dbReg, dbClient, dbStray, dbUp>>
      /\ dbCall[a].pc = "wait" /\ CanEnter(a)
      /\ dbMain' = [dbMain EXCEPT !.late = @ \/ (op = "init" /\ Ending)]
    BY DEF EntersRegistry, MayEnter
<1>6. DbTyped'
    BY <1>4, <1>5 DEF DbIInv, DbTyped, DbMains
<1>7. /\ dbMain' \in DbMains /\ dbMain'.pc = dbMain.pc /\ dbMain'.i = dbMain.i
      /\ ~dbMain'.late => ~dbMain.late /\ ~(op = "init" /\ Ending)
    BY <1>5 DEF DbIInv, DbTyped, DbMains
<1>8. WriterIsAlone'
    BY <1>2, <1>4, <1>5, EntersAlone DEF DbIInv
<1>9. ASSUME NEW b \in DbActors PROVE CallWalks(b)'
  <2>1. CASE b = a
    <3>1. /\ dbCall'[a].op # "" /\ dbCall'[a].todo = Walks(op)
          /\ op \in DbTypes => Walks(op) = {op}
          /\ op = "get" => Walks(op) = {}
          /\ op \notin DbTypes /\ op # "get" => Walks(op) = dbReg
          /\ "init" \notin DbTypes
        BY <1>1, <1>2, <1>4, <1>5, WalksOver, DbBounds DEF DbIInv, CallWalks
    <3> QED
        BY <1>2, <1>4, <1>5, <2>1, <3>1 DEF CallWalks, Inside
  <2>2. CASE b # a
      BY <1>4, <1>5, <2>2, OthersWalk DEF DbIInv
  <2> QED
      BY <2>1, <2>2
<1>10. MainCalls'
    BY <1>2, <1>4, <1>5, <1>7, DbBounds DEF DbIInv, MainCalls
<1>11. StaysClosed'
  <2> SUFFICES ASSUME ~dbMain'.late
             PROVE  /\ dbMain.pc = "hook" /\ dbCall'[MainProc].pc = "in" =>
                           \A t \in dbReg \ dbCall'[MainProc].todo : dbClient[t] # "open"
                    /\ CloseHookRan' =>
                           /\ \A t \in dbReg : dbClient[t] # "open"
                           /\ \A b \in DbActors : dbCall'[b].pc = "in" => dbCall'[b].op # "init"
      BY <1>5, <1>7 DEF StaysClosed, Inside
  <2>1. ASSUME dbMain.pc = "hook", dbCall'[MainProc].pc = "in"
        PROVE  \A t \in dbReg \ dbCall'[MainProc].todo : dbClient[t] # "open"
    <3>1. CASE a = MainProc
      <4>1. op = "close"
          BY <2>1, <3>1 DEF DbIInv, MainCalls
      <4> QED
          BY <1>1, <1>2, <1>4, <3>1, <4>1, WalksOver, DbBounds DEF DbIInv
    <3>2. CASE a # MainProc
        BY <1>4, <1>7, <2>1, <3>2, DbBounds DEF DbIInv, StaysClosed, Inside
    <3> QED
        BY <3>1, <3>2
  <2>2. ASSUME CloseHookRan'
        PROVE  /\ \A t \in dbReg : dbClient[t] # "open"
               /\ \A b \in DbActors : dbCall'[b].pc = "in" => dbCall'[b].op # "init"
    <3>1. CloseHookRan /\ Ending
        BY <1>2, <1>4, <1>5, <1>7, <2>2, DbBounds DEF CloseHookRan, Ending
    <3>2. op # "init"
        BY <1>7, <3>1
    <3> QED
        BY <1>2, <1>4, <1>7, <3>1, <3>2 DEF DbIInv, StaysClosed, Inside
  <2> QED
      BY <2>1, <2>2
<1> QED
    BY <1>5, <1>6, <1>8, <1>9, <1>10, <1>11 DEF DbIInv, ClientsRegistered

LEMMA ReturnsKeeps == ASSUME DbIInv, NEW a \in DbActors, ReturnsFrom(a) PROVE DbIInv'
<1> DEFINE c == [dbCall[a] EXCEPT !.pc = "idle", !.todo = {}]
<1>1. dbCall[a] \in DbCalls
    BY CallTyped DEF DbIInv
<1>2. c \in DbCalls /\ c.pc = "idle" /\ c.op = dbCall[a].op /\ c.todo = {}
    BY <1>1 DEF DbCalls
<1>3. dbCall' = [dbCall EXCEPT ![a] = c]
    BY <1>1 DEF ReturnsFrom, AtEnd, ReturnWith, DbCalls
<1> HIDE DEF c
<1>4. /\ dbCall' \in [DbActors -> DbCalls] /\ dbCall'[a] = c
      /\ \A b \in DbActors : b # a => dbCall'[b] = dbCall[b]
    BY <1>2, <1>3, OneCall DEF DbIInv
<1>5. UNCHANGED <<dbReg, dbClient, dbStray, dbUp, dbMain>> /\ dbCall[a].pc = "in" /\ dbCall[a].todo = {}
    BY DEF ReturnsFrom, AtEnd, Inside
<1>6. DbTyped'
    BY <1>4, <1>5 DEF DbIInv, DbTyped
<1>7. WriterIsAlone'
    BY <1>2, <1>4, <1>5, StaysAlone DEF DbIInv
<1>8. ASSUME NEW b \in DbActors PROVE CallWalks(b)'
  <2>1. CASE b = a
      BY <1>2, <1>4, <1>5, <2>1 DEF CallWalks, Inside
  <2>2. CASE b # a
      BY <1>4, <1>5, <2>2, OthersWalk DEF DbIInv
  <2> QED
      BY <2>1, <2>2
<1>9. MainCalls'
    BY <1>2, <1>4, <1>5, DbBounds DEF DbIInv, MainCalls
<1>10. StaysClosed'
  <2>1. CASE a \in DbUsers
      BY <1>2, <1>4, <1>5, <2>1, UserStaysClosed DEF DbIInv
  <2>2. CASE a = MainProc /\ dbMain.pc = "hook"
    <3>1. \A b \in DbActors : b # a => dbCall[b].pc # "in"
        BY <1>5, <2>2 DEF DbIInv, WriterIsAlone, Inside, Writing, MainCalls
    <3>2. ~dbMain.late => \A t \in dbReg : dbClient[t] # "open"
        BY <1>5, <2>2 DEF DbIInv, StaysClosed, Inside
    <3> QED
        BY <1>2, <1>4, <1>5, <2>2, <3>1, <3>2 DEF StaysClosed, Inside
  <2>3. CASE a = MainProc /\ dbMain.pc # "hook"
    <3>1. dbMain.pc = "stage"
        BY <1>5, <2>3 DEF DbIInv, MainCalls
    <3> QED
        BY <1>5, <3>1, NotYetClosed
  <2> QED
      BY <2>1, <2>2, <2>3, DbBounds
<1> QED
    BY <1>5, <1>6, <1>7, <1>8, <1>9, <1>10 DEF DbIInv, ClientsRegistered

LEMMA RegisterKeeps == ASSUME DbIInv, NEW a \in DbActors, NEW t \in DbTypes, Register(a, t) PROVE DbIInv'
<1> DEFINE d == [dbCall[a] EXCEPT !.pc = "idle", !.todo = {}]
           c == [d EXCEPT !.err = t \in dbReg]
<1>1. dbCall[a] \in DbCalls
    BY CallTyped DEF DbIInv
<1>2. d \in DbCalls /\ d.pc = "idle" /\ d.op = dbCall[a].op /\ d.todo = {}
    BY <1>1 DEF DbCalls
<1>3. c \in DbCalls /\ c.pc = "idle" /\ c.op = dbCall[a].op /\ c.todo = {}
  <2> HIDE DEF d
  <2>1. (t \in dbReg) \in BOOLEAN
      OBVIOUS
  <2>2. \A e \in BOOLEAN : [d EXCEPT !.err = e] \in DbCalls
          /\ [d EXCEPT !.err = e].pc = d.pc /\ [d EXCEPT !.err = e].op = d.op /\ [d EXCEPT !.err = e].todo = d.todo
      BY <1>2, CallFailed
  <2> QED
      BY <1>2, <2>1, <2>2
<1>4. dbCall' = [dbCall EXCEPT ![a] = c]
    BY DEF Register, At, ReturnWith
<1> HIDE DEF c, d
<1>5. /\ dbCall' \in [DbActors -> DbCalls] /\ dbCall'[a] = c
      /\ \A b \in DbActors : b # a => dbCall'[b] = dbCall[b]
    BY <1>3, <1>4, OneCall DEF DbIInv
<1>6. /\ UNCHANGED <<dbClient, dbStray, dbUp, dbMain>> /\ dbReg' = dbReg \cup {t}
      /\ dbCall[a].pc = "in" /\ dbCall[a].op = t
    BY DEF Register, At, Inside
<1>7. DbTyped'
    BY <1>5, <1>6 DEF DbIInv, DbTyped
<1>8. WriterIsAlone'
    BY <1>3, <1>5, <1>6, StaysAlone DEF DbIInv
<1>9. a = MainProc /\ dbMain.pc = "stage" /\ \A b \in DbActors : b # a => dbCall[b].pc # "in"
  <2>1. t \notin {"health", "get", "close"} /\ a = MainProc
      BY <1>6, DbBounds, MainIs DEF DbIInv
  <2> QED
      BY <1>6, <2>1, MainIs DEF DbIInv, WriterIsAlone, Inside, Writing
<1>10. ASSUME NEW b \in DbActors PROVE CallWalks(b)'
  <2>1. CASE b = a
      BY <1>3, <1>5, <1>6, <2>1 DEF DbIInv, CallWalks, Inside
  <2>2. CASE b # a
      BY <1>5, <1>6, <1>9, <2>2, OthersWalk DEF DbIInv
  <2> QED
      BY <2>1, <2>2
<1>11. MainCalls'
    BY <1>3, <1>5, <1>6, <1>9, DbBounds DEF DbIInv, MainCalls
<1>12. StaysClosed'
    BY <1>6, <1>9, NotYetClosed
<1> QED
    BY <1>6, <1>7, <1>8, <1>10, <1>11, <1>12 DEF DbIInv, ClientsRegistered

\* A call that goes on to the next type, perhaps with an error it keeps, or returns.
LEMMA CallGoesOn ==
    ASSUME DbTyped, NEW a \in DbActors, NEW t, NEW err \in BOOLEAN,
           dbCall' \in {Went(a, t), [dbCall EXCEPT ![a].todo = @ \ {t}, ![a].err = err]}
    PROVE  /\ dbCall' \in [DbActors -> DbCalls]
           /\ dbCall'[a].pc = dbCall[a].pc /\ dbCall'[a].op = dbCall[a].op
           /\ dbCall'[a].todo = dbCall[a].todo \ {t}
           /\ \A b \in DbActors : b # a => dbCall'[b] = dbCall[b]
<1> DEFINE x == [dbCall[a] EXCEPT !.todo = @ \ {t}]
           y == [dbCall[a] EXCEPT !.todo = @ \ {t}, !.err = err]
<1>1. x \in DbCalls /\ x.pc = dbCall[a].pc /\ x.op = dbCall[a].op /\ x.todo = dbCall[a].todo \ {t}
    BY CallTyped DEF DbCalls
<1>2. y \in DbCalls /\ y.pc = dbCall[a].pc /\ y.op = dbCall[a].op /\ y.todo = dbCall[a].todo \ {t}
    BY CallTyped DEF DbCalls
<1>3. dbCall' = [dbCall EXCEPT ![a] = x] \/ dbCall' = [dbCall EXCEPT ![a] = y]
    BY DEF Went
<1> HIDE DEF x, y
<1> QED
    BY <1>1, <1>2, <1>3, OneCall

LEMMA CallReturnsWith ==
    ASSUME DbTyped, NEW a \in DbActors, NEW err \in BOOLEAN, dbCall' = ReturnWith(a, err)
    PROVE  /\ dbCall' \in [DbActors -> DbCalls]
           /\ dbCall'[a].pc = "idle" /\ dbCall'[a].op = dbCall[a].op /\ dbCall'[a].todo = {}
           /\ \A b \in DbActors : b # a => dbCall'[b] = dbCall[b]
<1> DEFINE x == [dbCall[a] EXCEPT !.pc = "idle", !.todo = {}, !.err = err]
<1>1. x \in DbCalls /\ x.pc = "idle" /\ x.op = dbCall[a].op /\ x.todo = {}
    BY CallTyped DEF DbCalls
<1>2. dbCall' = [dbCall EXCEPT ![a] = x]
    BY DEF ReturnWith
<1> HIDE DEF x
<1> QED
    BY <1>1, <1>2, OneCall

LEMMA ConnectsKeeps == ASSUME DbIInv, NEW a \in DbActors, NEW t \in DbTypes, Connects(a, t) PROVE DbIInv'
<1>1. /\ dbCall' \in [DbActors -> DbCalls] /\ dbCall'[a].op = dbCall[a].op
      /\ \A b \in DbActors : b # a => dbCall'[b] = dbCall[b]
      /\ \/ dbCall'[a].pc = "idle" /\ dbCall'[a].todo = {}
         \/ dbUp[t] /\ dbCall'[a].pc = "in" /\ dbCall'[a].todo = dbCall[a].todo \ {t}
  <2>1. CASE dbUp[t]
    <3>1. dbCall' = Went(a, t) /\ dbCall[a].pc = "in"
        BY <2>1 DEF Connects, At, Inside
    <3> QED
        BY <2>1, <3>1, CallGoesOn DEF DbIInv
  <2>2. CASE ~dbUp[t]
    <3>1. dbCall' = ReturnWith(a, TRUE)
        BY <2>2 DEF Connects, At
    <3> QED
        BY <3>1, CallReturnsWith DEF DbIInv
  <2> QED
      BY <2>1, <2>2
<1>2. /\ UNCHANGED <<dbReg, dbUp, dbMain>> /\ dbStray' \subseteq dbStray \cup {t}
      /\ dbClient' = Connected(t) /\ dbCall[a].pc = "in" /\ dbCall[a].op = "init" /\ t \in dbCall[a].todo
    BY DEF Connects, At, Inside, Strays
<1>3. /\ dbClient' \in [DbTypes -> {"nil", "open", "closed"}] /\ (dbUp[t] => dbClient'[t] = "open")
      /\ \A u \in DbTypes : dbClient'[u] = dbClient[u] \/ (u = t /\ dbClient'[u] = "open")
    BY <1>2 DEF Connected, DbIInv, DbTyped
<1>4. t \in dbReg
    BY <1>2, DbBounds DEF DbIInv, CallWalks, Inside
<1>5. DbTyped'
    BY <1>1, <1>2, <1>3, <1>4 DEF DbIInv, DbTyped
<1>6. WriterIsAlone'
    BY <1>1, <1>2, StaysAlone DEF DbIInv
<1>7. ClientsRegistered'
    BY <1>2, <1>3, <1>4 DEF DbIInv, ClientsRegistered
<1>8. ASSUME NEW b \in DbActors PROVE CallWalks(b)'
  <2>1. CASE b = a
    <3>1. /\ dbCall[a].todo \subseteq dbReg /\ dbReg \subseteq DbTypes /\ "init" \notin DbTypes
          /\ \A u \in dbReg \ dbCall[a].todo : dbClient[u] = "open"
        BY <1>2, DbBounds DEF DbIInv, DbTyped, CallWalks, Inside
    <3> QED
        <4>1. /\ dbCall'[a].todo \subseteq dbReg /\ dbCall'[a].op = "init" /\ dbCall'[a].pc # "wait"
            BY <1>1, <1>2, <3>1
        <4>2. ASSUME dbCall'[a].pc = "in", NEW u \in dbReg \ dbCall'[a].todo PROVE dbClient'[u] = "open"
            BY <1>1, <1>3, <3>1, <4>2
        <4> QED
            BY <1>2, <2>1, <3>1, <4>1, <4>2 DEF CallWalks, Inside
  <2>2. CASE b # a
    <3>1. \A u \in dbReg : dbClient[u] = "open" => dbClient'[u] = "open"
        BY <1>3 DEF DbIInv, DbTyped
    <3> QED
        BY <1>1, <1>2, <2>2, <3>1, OthersWalk DEF DbIInv
  <2> QED
      BY <2>1, <2>2
<1>9. MainCalls'
    BY <1>1, <1>2, DbBounds DEF DbIInv, MainCalls
<1>10. StaysClosed'
  <2>1. CASE a \in DbUsers
    <3>1. \A u \in dbReg : dbClient'[u] = "open" => dbClient[u] = "open" \/ (dbCall[a].pc = "in" /\ dbCall[a].op = "init")
        BY <1>2
    <3> QED
        BY <1>1, <1>2, <2>1, <3>1, UserStaysClosed DEF DbIInv
  <2>2. CASE a = MainProc
    <3>1. dbMain.pc = "stage"
        BY <1>2, <2>2, MainIs DEF DbIInv
    <3> QED
        BY <1>2, <3>1, NotYetClosed
  <2> QED
      BY <2>1, <2>2, DbBounds
<1> QED
    BY <1>5, <1>6, <1>7, <1>8, <1>9, <1>10 DEF DbIInv

LEMMA CloseAllKeeps == ASSUME DbIInv, NEW a \in DbActors, NEW t \in DbTypes, CloseAll(a, t) PROVE DbIInv'
<1>1. PICK err \in BOOLEAN : dbCall' = [dbCall EXCEPT ![a].todo = @ \ {t}, ![a].err = @ \/ err]
    BY DEF CloseAll, At, CloseFails
<1>2. /\ dbCall' \in [DbActors -> DbCalls] /\ dbCall'[a].pc = dbCall[a].pc
      /\ dbCall'[a].op = dbCall[a].op /\ dbCall'[a].todo = dbCall[a].todo \ {t}
      /\ \A b \in DbActors : b # a => dbCall'[b] = dbCall[b]
  <2>1. dbCall[a].err \in BOOLEAN /\ (dbCall[a].err \/ err) \in BOOLEAN
      BY CallTyped DEF DbIInv, DbCalls
  <2> QED
      BY <1>1, <2>1, CallGoesOn DEF DbIInv
<1>3. /\ UNCHANGED <<dbReg, dbStray, dbUp, dbMain>> /\ dbClient' = CloseClient(t)
      /\ dbCall[a].pc = "in" /\ dbCall[a].op = "close" /\ t \in dbCall[a].todo
    BY DEF CloseAll, At, Inside
<1>4. /\ dbClient' \in [DbTypes -> {"nil", "open", "closed"}] /\ dbClient'[t] # "open"
      /\ \A u \in DbTypes : \/ dbClient'[u] = dbClient[u]
                            \/ u = t /\ dbClient[u] = "open" /\ dbClient'[u] = "closed"
    BY <1>3 DEF CloseClient, DbIInv, DbTyped
<1>5. DbTyped'
    BY <1>2, <1>3, <1>4 DEF DbIInv, DbTyped
<1>6. WriterIsAlone'
    BY <1>2, <1>3, StaysAlone DEF DbIInv
<1>7. ClientsRegistered'
    BY <1>3, <1>4 DEF DbIInv, ClientsRegistered
<1>8. \A b \in DbActors : b # a => dbCall[b].pc # "in"
    BY <1>3 DEF DbIInv, WriterIsAlone, Inside, Writing
<1>9. ASSUME NEW b \in DbActors PROVE CallWalks(b)'
  <2>1. CASE b = a
      BY <1>2, <1>3, <2>1 DEF DbIInv, CallWalks, Inside
  <2>2. CASE b # a
      BY <1>2, <1>3, <1>8, <2>2, OthersWalk DEF DbIInv
  <2> QED
      BY <2>1, <2>2
<1>10. MainCalls'
    BY <1>2, <1>3, DbBounds DEF DbIInv, MainCalls
<1>11. StaysClosed'
  <2>1. \A u \in dbReg : dbClient'[u] = "open" => dbClient[u] = "open"
      BY <1>4 DEF DbIInv, DbTyped
  <2>2. CASE a \in DbUsers
      BY <1>2, <1>3, <2>1, <2>2, UserStaysClosed DEF DbIInv
  <2>3. CASE a = MainProc
      BY <1>2, <1>3, <1>4, <2>1, <2>3 DEF DbIInv, StaysClosed, CloseHookRan, Inside
  <2> QED
      BY <2>2, <2>3, DbBounds
<1> QED
    BY <1>5, <1>6, <1>7, <1>9, <1>10, <1>11 DEF DbIInv

LEMMA CheckKeeps == ASSUME DbIInv, NEW a \in DbActors, NEW t \in DbTypes, CheckClient(a, t) PROVE DbIInv'
<1>1. /\ dbCall' \in [DbActors -> DbCalls] /\ dbCall'[a].op = dbCall[a].op
      /\ \A b \in DbActors : b # a => dbCall'[b] = dbCall[b]
      /\ \/ dbCall'[a].pc = "idle" /\ dbCall'[a].todo = {}
         \/ dbCall'[a].pc = "in" /\ dbCall'[a].todo = dbCall[a].todo \ {t}
  <2>1. CASE Healthy(t)
    <3>1. dbCall' = Went(a, t) /\ dbCall[a].pc = "in"
        BY <2>1 DEF CheckClient, At, Inside
    <3> QED
        BY <3>1, CallGoesOn DEF DbIInv
  <2>2. CASE ~Healthy(t)
    <3>1. dbCall' = ReturnWith(a, TRUE)
        BY <2>2 DEF CheckClient, At
    <3> QED
        BY <3>1, CallReturnsWith DEF DbIInv
  <2> QED
      BY <2>1, <2>2
<1>2. /\ UNCHANGED <<dbReg, dbClient, dbStray, dbUp, dbMain>>
      /\ dbCall[a].pc = "in" /\ dbCall[a].op = "health"
    BY DEF CheckClient, At, Inside
<1>3. DbTyped'
    BY <1>1, <1>2 DEF DbIInv, DbTyped
<1>4. WriterIsAlone'
    BY <1>1, <1>2, StaysAlone DEF DbIInv
<1>5. ASSUME NEW b \in DbActors PROVE CallWalks(b)'
  <2>1. CASE b = a
      BY <1>1, <1>2, <2>1 DEF DbIInv, CallWalks, Inside
  <2>2. CASE b # a
      BY <1>1, <1>2, <2>2, OthersWalk DEF DbIInv
  <2> QED
      BY <2>1, <2>2
<1>6. MainCalls'
    BY <1>1, <1>2, DbBounds DEF DbIInv, MainCalls
<1>7. StaysClosed'
  <2>1. CASE a \in DbUsers
      BY <1>1, <1>2, <2>1, UserStaysClosed DEF DbIInv
  <2>2. CASE a = MainProc
    <3>1. dbMain.pc = "stage"
        BY <1>2, <2>2, MainIs DEF DbIInv
    <3> QED
        BY <1>2, <3>1, NotYetClosed
  <2> QED
      BY <2>1, <2>2, DbBounds
<1> QED
    BY <1>2, <1>3, <1>4, <1>5, <1>6, <1>7 DEF DbIInv, ClientsRegistered

LEMMA CallBegins ==
    ASSUME DbTyped, NEW a \in DbActors, NEW op \in DbOps, dbCall' = Calling(a, op)
    PROVE  /\ dbCall' \in [DbActors -> DbCalls]
           /\ dbCall'[a].pc = "wait" /\ dbCall'[a].op = op /\ dbCall'[a].todo = {}
           /\ \A b \in DbActors : b # a => dbCall'[b] = dbCall[b]
<1> DEFINE x == [NoCall EXCEPT !.pc = "wait", !.op = op]
<1>1. x \in DbCalls /\ x.pc = "wait" /\ x.op = op /\ x.todo = {}
    BY DEF DbCalls, NoCall
<1>2. dbCall' = [dbCall EXCEPT ![a] = x]
    BY DEF Calling
<1> HIDE DEF x
<1> QED
    BY <1>1, <1>2, OneCall

\* A goroutine that was in no call begins one.
LEMMA BeginKeeps ==
    ASSUME DbIInv, NEW a \in DbActors, NEW op \in DbOps, op # "", dbCall' = Calling(a, op),
           UNCHANGED <<dbReg, dbClient, dbStray, dbUp>>, dbMain' \in DbMains
    PROVE  /\ DbTyped' /\ WriterIsAlone' /\ ClientsRegistered' /\ \A b \in DbActors : CallWalks(b)'
           /\ dbCall'[a].pc = "wait" /\ dbCall'[a].op = op
           /\ \A b \in DbActors : b # a => dbCall'[b] = dbCall[b]
<1>1. /\ dbCall' \in [DbActors -> DbCalls]
      /\ dbCall'[a].pc = "wait" /\ dbCall'[a].op = op /\ dbCall'[a].todo = {}
      /\ \A b \in DbActors : b # a => dbCall'[b] = dbCall[b]
    BY CallBegins DEF DbIInv
<1>2. DbTyped'
    BY <1>1 DEF DbIInv, DbTyped
<1>3. WriterIsAlone'
    BY <1>1, StaysAlone DEF DbIInv
<1>4. ASSUME NEW b \in DbActors PROVE CallWalks(b)'
  <2>1. CASE b = a
      BY <1>1, <2>1 DEF CallWalks, Inside
  <2>2. CASE b # a
      BY <1>1, <2>2, OthersWalk DEF DbIInv
  <2> QED
      BY <2>1, <2>2
<1> QED
    BY <1>1, <1>2, <1>3, <1>4 DEF DbIInv, ClientsRegistered

\* Only the process moves.
LEMMA MainKeeps ==
    ASSUME DbIInv, UNCHANGED <<dbReg, dbClient, dbStray, dbUp, dbCall>>, dbMain' \in DbMains
    PROVE  /\ DbTyped' /\ WriterIsAlone' /\ ClientsRegistered' /\ \A b \in DbActors : CallWalks(b)'
<1>1. DbTyped'
    BY DEF DbIInv, DbTyped
<1>2. WriterIsAlone'
    BY DEF DbIInv, WriterIsAlone, Inside, Writing
<1>3. ASSUME NEW b \in DbActors PROVE CallWalks(b)'
    BY OthersWalk DEF DbIInv
<1> QED
    BY <1>1, <1>2, <1>3 DEF DbIInv, ClientsRegistered

LEMMA UserCallsKeeps == ASSUME DbIInv, NEW a \in DbUsers, NEW op \in DbUses, UserCalls(a, op) PROVE DbIInv'
<1>1. /\ dbCall' = Calling(a, op) /\ dbMain' = dbMain /\ dbMain \in DbMains
      /\ UNCHANGED <<dbReg, dbClient, dbStray, dbUp>>
    BY DEF UserCalls, DbIInv, DbTyped
<1>2. a \in DbActors /\ a # MainProc /\ op \in DbOps /\ op # "" /\ op \notin DbTypes
    BY DbBounds
<1>3. /\ DbTyped' /\ WriterIsAlone' /\ ClientsRegistered' /\ \A b \in DbActors : CallWalks(b)'
      /\ dbCall'[a].pc = "wait" /\ dbCall'[a].op = op
      /\ \A b \in DbActors : b # a => dbCall'[b] = dbCall[b]
    BY <1>1, <1>2, BeginKeeps
<1>4. MainCalls'
    BY <1>1, <1>2, <1>3, DbBounds DEF DbIInv, MainCalls
<1>5. StaysClosed'
    BY <1>1, <1>3, UserStaysClosed DEF DbIInv
<1> QED
    BY <1>3, <1>4, <1>5 DEF DbIInv

\* The stage the process is at.
LEMMA StageAt ==
    ASSUME dbMain \in DbMains, dbMain.i <= Len(DbStages)
    PROVE  DbStages[dbMain.i] \in DbTypes \cup {"init", "work", "nil"}
<1>1. dbMain.i \in Nat /\ dbMain.i >= 1
    BY NextPlace DEF DbMains
<1> QED
    BY <1>1, DbLists

LEMMA RunStageKeeps == ASSUME DbIInv, RunStage PROVE DbIInv'
<1> DEFINE s == DbStages[dbMain.i]
<1>1. /\ dbMain \in DbMains /\ dbMain.pc = "stages" /\ dbCall[MainProc].pc = "idle"
      /\ UNCHANGED <<dbReg, dbClient, dbStray, dbUp>>
    BY DEF RunStage, MainAt, DbIInv, DbTyped
<1>2. dbMain.i <= Len(DbStages) /\ s \in DbTypes \cup {"init", "work", "nil"}
    BY <1>1, StageAt DEF RunStage
<1>3. ASSUME s \notin {"nil", "work"}, dbMain' = [dbMain EXCEPT !.pc = "stage"], dbCall' = Calling(MainProc, s)
      PROVE  DbIInv'
  <2>1. s \in DbOps /\ s # ""
      BY <1>2, <1>3, DbBounds DEF DbOps
  <2>2. dbMain' \in DbMains /\ dbMain'.pc = "stage" /\ dbMain'.i = dbMain.i
      BY <1>1, <1>3 DEF DbMains
  <2>3. /\ DbTyped' /\ WriterIsAlone' /\ ClientsRegistered' /\ \A b \in DbActors : CallWalks(b)'
        /\ \A b \in DbActors : b # MainProc => dbCall'[b] = dbCall[b]
      BY <1>1, <1>3, <2>1, <2>2, BeginKeeps, DbBounds
  <2>4. MainCalls'
      BY <1>2, <2>2, <2>3, DbBounds DEF DbIInv, MainCalls
  <2> QED
      BY <2>2, <2>3, <2>4, NotYetClosed DEF DbIInv
<1>4. ASSUME s \in {"nil", "work"}, UNCHANGED dbCall,
             \/ dbMain' = [dbMain EXCEPT !.i = @ + 1]
             \/ dbMain' = [dbMain EXCEPT !.pc = "running", !.failed = s]
      PROVE  DbIInv'
  <2>1. dbMain' \in DbMains /\ dbMain'.pc \in {"stages", "running"}
      BY <1>1, <1>4, NextPlace DEF DbMains
  <2>2. /\ DbTyped' /\ WriterIsAlone' /\ ClientsRegistered' /\ \A b \in DbActors : CallWalks(b)'
      BY <1>1, <1>4, <2>1, MainKeeps
  <2>3. MainCalls'
      BY <1>1, <1>4, <2>1 DEF DbIInv, MainCalls
  <2> QED
      BY <2>1, <2>2, <2>3, NotYetClosed DEF DbIInv
<1> QED
    BY <1>3, <1>4 DEF RunStage

LEMMA StagesKeep == ASSUME DbIInv, StageReturns \/ BuildPrepared PROVE DbIInv'
<1>1. /\ dbMain \in DbMains /\ dbMain.pc \in {"stage", "stages"} /\ dbCall[MainProc].pc = "idle"
      /\ UNCHANGED <<dbReg, dbClient, dbStray, dbUp, dbCall>>
    BY DEF StageReturns, BuildPrepared, MainAt, DbIInv, DbTyped
<1>2. dbMain' \in DbMains /\ dbMain'.pc \in {"stages", "running"}
  <2>1. CASE StageReturns
    <3>1. DbStages[dbMain.i] \in DbTypes \cup {"", "init", "work", "nil"}
        BY <1>1, <2>1, StageAt DEF StageReturns, MainAt, DbIInv, MainCalls
    <3> DEFINE f == [dbMain EXCEPT !.pc = "running", !.failed = DbStages[dbMain.i]]
               n == [dbMain EXCEPT !.pc = "stages", !.i = @ + 1]
    <3>2. f \in DbMains /\ f.pc = "running"
        BY <1>1, <3>1 DEF DbMains
    <3>3. n \in DbMains /\ n.pc = "stages"
        BY <1>1, NextPlace DEF DbMains
    <3>4. dbMain' = f \/ dbMain' = n
        BY <2>1 DEF StageReturns
    <3> HIDE DEF f, n
    <3> QED
        BY <3>2, <3>3, <3>4
  <2>2. CASE BuildPrepared
      BY <1>1, <2>2 DEF BuildPrepared, DbMains
  <2> QED
      BY <2>1, <2>2
<1>3. /\ DbTyped' /\ WriterIsAlone' /\ ClientsRegistered' /\ \A b \in DbActors : CallWalks(b)'
    BY <1>1, <1>2, MainKeeps
<1>4. MainCalls'
    BY <1>1, <1>2 DEF DbIInv, MainCalls
<1> QED
    BY <1>2, <1>3, <1>4, NotYetClosed DEF DbIInv

\* A hook ends, with an error or without.
LEMMA HookEnds ==
    ASSUME dbMain \in DbMains, dbMain.i \in DOMAIN DbHooks, NEW err \in BOOLEAN, dbMain' = AfterHook(err)
    PROVE  /\ dbMain' \in DbMains /\ dbMain'.pc = "hooks" /\ dbMain'.i = dbMain.i + 1
           /\ dbMain'.late = dbMain.late
<1> DEFINE f == [dbMain EXCEPT !.pc = "hooks", !.i = @ + 1, !.reported = @ \cup {dbMain.i}]
           n == [dbMain EXCEPT !.pc = "hooks", !.i = @ + 1]
<1>1. f \in DbMains /\ f.pc = "hooks" /\ f.i = dbMain.i + 1 /\ f.late = dbMain.late
    BY NextPlace DEF DbMains
<1>2. n \in DbMains /\ n.pc = "hooks" /\ n.i = dbMain.i + 1 /\ n.late = dbMain.late
    BY NextPlace DEF DbMains
<1>3. dbMain' = f \/ dbMain' = n
  <2>1. CASE err
      BY <2>1 DEF AfterHook
  <2>2. CASE ~err
    <3>1. dbMain' = [dbMain EXCEPT !.pc = "hooks", !.i = @ + 1, !.reported = dbMain.reported]
        BY <2>2 DEF AfterHook
    <3> QED
        BY <3>1 DEF DbMains
  <2> QED
      BY <2>1, <2>2
<1> HIDE DEF f, n
<1> QED
    BY <1>1, <1>2, <1>3

LEMMA EndKeeps == ASSUME DbIInv, EndProcess \/ LifecycleEnds PROVE DbIInv'
<1>1. /\ dbMain \in DbMains /\ dbCall[MainProc].pc = "idle"
      /\ UNCHANGED <<dbReg, dbClient, dbStray, dbUp, dbCall>>
    BY DEF EndProcess, LifecycleEnds, MainAt, DbIInv, DbTyped
<1>2. CASE EndProcess
  <2>1. dbMain' \in DbMains /\ dbMain'.pc = "hooks" /\ dbMain'.i = 1
      BY <1>1, <1>2, NextPlace DEF EndProcess, DbMains
  <2>2. /\ DbTyped' /\ WriterIsAlone' /\ ClientsRegistered' /\ \A b \in DbActors : CallWalks(b)'
      BY <1>1, <2>1, MainKeeps
  <2>3. MainCalls'
      BY <1>1, <2>1 DEF DbIInv, MainCalls
  <2>4. StaysClosed'
      BY <2>1, DbLists DEF StaysClosed, CloseHookRan
  <2> QED
      BY <2>2, <2>3, <2>4 DEF DbIInv
<1>3. CASE LifecycleEnds
  <2>1. /\ dbMain' \in DbMains /\ dbMain'.pc = "done" /\ dbMain'.i = dbMain.i /\ dbMain'.late = dbMain.late
        /\ dbMain.pc = "hooks" /\ dbMain.i > Len(DbHooks)
      BY <1>1, <1>3 DEF LifecycleEnds, MainAt, DbMains
  <2>2. /\ DbTyped' /\ WriterIsAlone' /\ ClientsRegistered' /\ \A b \in DbActors : CallWalks(b)'
      BY <1>1, <2>1, MainKeeps
  <2>3. MainCalls'
      BY <1>1, <2>1 DEF DbIInv, MainCalls
  <2>4. StaysClosed'
      BY <1>1, <2>1 DEF DbIInv, StaysClosed, CloseHookRan, Inside
  <2> QED
      BY <2>2, <2>3, <2>4 DEF DbIInv
<1> QED
    BY <1>2, <1>3

LEMMA HookReturnsKeeps == ASSUME DbIInv, HookReturns PROVE DbIInv'
<1>1. /\ dbMain \in DbMains /\ dbMain.pc = "hook" /\ dbCall[MainProc].pc = "idle"
      /\ UNCHANGED <<dbReg, dbClient, dbStray, dbUp, dbCall>>
    BY DEF HookReturns, MainAt, DbIInv, DbTyped
<1>2. dbMain.i \in DOMAIN DbHooks /\ dbCall[MainProc].err \in BOOLEAN
    BY <1>1, CallTyped, DbBounds DEF DbIInv, MainCalls, DbCalls
<1>3. /\ dbMain' \in DbMains /\ dbMain'.pc = "hooks" /\ dbMain'.i = dbMain.i + 1
      /\ dbMain'.late = dbMain.late
    BY <1>1, <1>2, HookEnds DEF HookReturns
<1>4. /\ DbTyped' /\ WriterIsAlone' /\ ClientsRegistered' /\ \A b \in DbActors : CallWalks(b)'
    BY <1>1, <1>3, MainKeeps
<1>5. MainCalls'
    BY <1>1, <1>3 DEF DbIInv, MainCalls
<1>6. StaysClosed'
  <2>1. CloseHookRan
      BY <1>1 DEF CloseHookRan
  <2> QED
      BY <1>1, <1>3, <2>1 DEF DbIInv, StaysClosed, Inside
<1> QED
    BY <1>4, <1>5, <1>6 DEF DbIInv

LEMMA RunHookKeeps == ASSUME DbIInv, RunShutdownHook PROVE DbIInv'
<1>1. /\ dbMain \in DbMains /\ dbMain.pc = "hooks" /\ dbCall[MainProc].pc = "idle"
      /\ UNCHANGED <<dbReg, dbClient, dbStray, dbUp>>
    BY DEF RunShutdownHook, MainAt, DbIInv, DbTyped
<1>2. dbMain.i \in DOMAIN DbHooks
  <2>1. dbMain.i \in Nat /\ dbMain.i >= 1 /\ dbMain.i <= Len(DbHooks)
      BY <1>1, NextPlace DEF RunShutdownHook, DbMains
  <2> QED
      BY <2>1, DbLists
<1>3. CASE DbHooks[dbMain.i] = "close"
  <2>1. dbMain' = [dbMain EXCEPT !.pc = "hook"] /\ dbCall' = Calling(MainProc, "close")
      BY <1>3 DEF RunShutdownHook
  <2>2. dbMain' \in DbMains /\ dbMain'.pc = "hook" /\ dbMain'.i = dbMain.i /\ dbMain'.late = dbMain.late
      BY <1>1, <2>1 DEF DbMains
  <2>3. /\ DbTyped' /\ WriterIsAlone' /\ ClientsRegistered' /\ \A b \in DbActors : CallWalks(b)'
        /\ dbCall'[MainProc].pc = "wait" /\ dbCall'[MainProc].op = "close"
        /\ \A b \in DbActors : b # MainProc => dbCall'[b] = dbCall[b]
    <3>1. "close" \in DbOps /\ "close" # ""
        BY DEF DbOps
    <3> QED
        BY <1>1, <2>1, <2>2, <3>1, BeginKeeps, DbBounds
  <2>4. MainCalls'
      BY <1>2, <1>3, <2>2, <2>3, DbBounds DEF DbIInv, MainCalls
  <2>5. StaysClosed'
      BY <1>1, <2>2, <2>3 DEF DbIInv, StaysClosed, CloseHookRan, Inside
  <2> QED
      BY <2>3, <2>4, <2>5 DEF DbIInv
<1>4. CASE DbHooks[dbMain.i] # "close"
  <2>1. PICK err \in BOOLEAN : dbMain' = AfterHook(err) /\ UNCHANGED dbCall
      BY <1>4 DEF RunShutdownHook
  <2>2. /\ dbMain' \in DbMains /\ dbMain'.pc = "hooks" /\ dbMain'.i = dbMain.i + 1
        /\ dbMain'.late = dbMain.late
      BY <1>1, <1>2, <2>1, HookEnds
  <2>3. /\ DbTyped' /\ WriterIsAlone' /\ ClientsRegistered' /\ \A b \in DbActors : CallWalks(b)'
      BY <1>1, <2>1, <2>2, MainKeeps
  <2>4. MainCalls'
      BY <1>1, <2>1, <2>2 DEF DbIInv, MainCalls
  <2>5. StaysClosed'
    <3>1. dbMain.i \in Nat
        BY <1>1, NextPlace DEF DbMains
    <3>2. CloseHookRan' => CloseHookRan
        BY <1>1, <1>4, <2>1, <2>2, <3>1, DbLists DEF CloseHookRan
    <3> QED
        BY <1>1, <2>1, <2>2, <3>2 DEF DbIInv, StaysClosed, Inside
  <2> QED
      BY <2>3, <2>4, <2>5 DEF DbIInv
<1> QED
    BY <1>3, <1>4

LEMMA ServerKeeps == ASSUME DbIInv, NEW t \in DbTypes, ServerChanges(t) PROVE DbIInv'
<1>1. DbTyped'
    BY DEF ServerChanges, DbIInv, DbTyped
<1>2. ASSUME NEW b \in DbActors PROVE CallWalks(b)'
    BY OthersWalk DEF ServerChanges, DbIInv
<1> QED
    BY <1>1, <1>2 DEF ServerChanges, DbIInv, WriterIsAlone, ClientsRegistered, MainCalls, StaysClosed,
       CloseHookRan, Inside, Writing

LEMMA DbIInvInit == ASSUME DbInit PROVE DbIInv
<1>1. NoCall \in DbCalls /\ NoCall.pc = "idle" /\ NoCall.op = ""
    BY DEF NoCall, DbCalls, DbOps
<1>2. dbCall \in [DbActors -> DbCalls] /\ \A a \in DbActors : dbCall[a] = NoCall
    BY <1>1 DEF DbInit
<1>3. dbMain \in DbMains /\ dbMain.pc = "stages"
    BY NextPlace DEF DbInit, DbMains
<1>4. DbTyped
    BY <1>2, <1>3 DEF DbInit, DbTyped
<1>5. WriterIsAlone /\ \A a \in DbActors : CallWalks(a)
    BY <1>1, <1>2 DEF WriterIsAlone, CallWalks, Inside
<1>6. MainCalls
    BY <1>1, <1>2, <1>3, DbBounds DEF MainCalls
<1> QED
    BY <1>3, <1>4, <1>5, <1>6 DEF DbInit, DbIInv, ClientsRegistered, StaysClosed, CloseHookRan

LEMMA DbIInvStep == ASSUME DbIInv, [DbNext]_dbVars PROVE DbIInv'
<1>1. ASSUME NEW a \in DbActors, CallStep(a) PROVE DbIInv'
    BY <1>1, EntersKeeps, ReturnsKeeps, RegisterKeeps, ConnectsKeeps, CloseAllKeeps, CheckKeeps DEF CallStep
<1>2. CASE UNCHANGED dbVars
    BY <1>2, MainKeeps DEF dbVars, DbIInv, DbTyped, MainCalls, StaysClosed, CloseHookRan, Inside
<1> QED
    BY <1>1, <1>2, UserCallsKeeps, RunStageKeeps, StagesKeep, EndKeeps, RunHookKeeps, HookReturnsKeeps,
       ServerKeeps DEF DbNext

\* A call that is under way waits for the lock, or for nothing.
LEMMA SomebodyGoesOn ==
    ASSUME DbIInv, NEW a \in DbActors, dbCall[a].pc # "idle"
    PROVE  \E b \in DbActors : CanGoOn(b)
<1>1. \A b \in DbActors : dbCall[b].pc \in {"idle", "wait", "in"} /\ dbCall[b].op \in DbOps
    BY CallTyped DEF DbIInv, DbCalls
<1>2. ASSUME NEW b \in DbActors, Inside(b) PROVE CanGoOn(b)
  <2>1. dbCall[b].todo \subseteq DbTypes
      BY CallTyped DEF DbIInv, DbCalls
  <2>2. \/ dbCall[b].op \in DbTypes /\ dbCall[b].todo \subseteq {dbCall[b].op}
        \/ dbCall[b].op = "get" /\ dbCall[b].todo = {}
        \/ dbCall[b].op \in {"init", "close", "health"}
      BY <1>1, <1>2 DEF DbIInv, CallWalks, Inside, DbOps
  <2>3. CASE dbCall[b].todo = {}
      BY <1>2, <2>3 DEF CanGoOn, AtEnd
  <2>4. ASSUME NEW t \in dbCall[b].todo PROVE CanGoOn(b)
    <3>1. dbCall[b].op \in {t, "init", "close", "health"} /\ t \in DbTypes
        BY <2>1, <2>2, <2>4
    <3> QED
        BY <1>2, <3>1 DEF CanGoOn, At
  <2> QED
      BY <2>3, <2>4
<1>3. CASE \A b \in DbActors : ~Inside(b)
  <2>1. CASE \E b \in DbActors : dbCall[b].pc = "wait" /\ Writing(dbCall[b].op)
      BY <1>3, <2>1 DEF CanGoOn, MayEnter, CanEnter
  <2>2. CASE \A b \in DbActors : Writing(dbCall[b].op) => dbCall[b].pc # "wait"
      BY <1>1, <1>3, <2>2 DEF CanGoOn, MayEnter, CanEnter, Inside
  <2> QED
      BY <2>1, <2>2
<1> QED
    BY <1>2, <1>3

LEMMA DbIInvImplies == ASSUME DbIInv PROVE DbInv
<1>1. DbTypeOK
  <2>1. dbMain.reported \subseteq DOMAIN DbHooks
      BY DEF DbIInv, DbTyped, DbMains
  <2> QED
      BY <2>1 DEF DbIInv, DbTyped, WriterIsAlone, ClientsRegistered, DbTypeOK
<1>2. ASSUME \E i \in DOMAIN DbHooks : DbHooks[i] = "close", dbMain.pc = "done", ~dbMain.late
      PROVE  \A t \in dbReg : dbClient[t] # "open"
  <2>1. dbMain.i > Len(DbHooks) /\ dbMain.i \in Nat
      BY <1>2, NextPlace DEF DbIInv, DbTyped, DbMains, MainCalls
  <2>2. CloseHookRan
      BY <1>2, <2>1, DbLists DEF CloseHookRan
  <2> QED
      BY <1>2, <2>2 DEF DbIInv, StaysClosed
<1>3. SomeCallGoesOn
    BY SomebodyGoesOn DEF SomeCallGoesOn
<1> QED
    BY <1>1, <1>2, <1>3 DEF DbInv, NoneForgotten

\* The types of the registry and its lock; no registered client left open by a
\* lifecycle that closes the registry; and no call that waits for ever.
THEOREM DatabasesHold == DbSpec => []DbInv
<1>1. DbInit => DbIInv
    BY DbIInvInit
<1>2. DbIInv /\ [DbNext]_dbVars => DbIInv'
    BY DbIInvStep
<1> QED
    BY <1>1, <1>2, DbIInvImplies, PTL DEF DbSpec

\* A step of one goroutine, or of the process, leaves the call another is in.
LEMMA CallUntouched ==
    ASSUME DbIInv, [DbNext]_dbVars, NEW a \in DbActors, dbCall[a].pc = "in"
    PROVE  CallStep(a) \/ dbCall'[a] = dbCall[a]
<1>1. ASSUME NEW b \in DbActors, CallStep(b), b # a PROVE dbCall'[a] = dbCall[a]
    BY <1>1 DEF CallStep, EntersRegistry, MayEnter, ReturnsFrom, AtEnd, Register, At, Connects, CloseAll, CheckClient,
       ReturnWith, Went, DbIInv, DbTyped
<1>2. ASSUME NEW b \in DbUsers, NEW op \in DbUses, UserCalls(b, op) PROVE dbCall'[a] = dbCall[a]
    BY <1>2 DEF UserCalls, Calling, DbIInv, DbTyped
<1>3. CASE RunStage \/ RunShutdownHook
  <2>1. a # MainProc
      BY <1>3 DEF RunStage, RunShutdownHook, MainAt
  <2>2. dbCall' = dbCall \/ \E op : dbCall' = Calling(MainProc, op)
      BY <1>3 DEF RunStage, RunShutdownHook
  <2> QED
      BY <2>1, <2>2 DEF Calling, DbIInv, DbTyped
<1>4. CASE StageReturns \/ BuildPrepared \/ EndProcess \/ HookReturns \/ LifecycleEnds
           \/ (\E t \in DbTypes : ServerChanges(t)) \/ UNCHANGED dbVars
    BY <1>4 DEF StageReturns, BuildPrepared, EndProcess, HookReturns, LifecycleEnds, ServerChanges, dbVars
<1> QED
    BY <1>1, <1>2, <1>3, <1>4 DEF DbNext

\* Registry.Init returns without an error only when every registered
\* connection has an open client, whoever opens and closes them meanwhile.
THEOREM InitOpensAll == DbSpec => InitAllOrError
<1> DEFINE Good == \A a \in DbActors :
          dbCall[a].op = "init" /\ Inside(a) /\ dbCall'[a].pc = "idle" /\ ~dbCall'[a].err =>
              \A t \in dbReg : dbClient'[t] = "open"
<1>1. ASSUME DbIInv, [DbNext]_dbVars PROVE Good
  <2> SUFFICES ASSUME NEW a \in DbActors, dbCall[a].op = "init", dbCall[a].pc = "in",
                      dbCall'[a].pc = "idle", ~dbCall'[a].err
               PROVE  \A t \in dbReg : dbClient'[t] = "open"
      BY DEF Inside
  <2>1. CASE ReturnsFrom(a)
    <3>1. dbClient' = dbClient /\ dbCall[a].todo = {} /\ CallWalks(a)
        BY <1>1, <2>1 DEF ReturnsFrom, AtEnd, DbIInv
    <3> QED
        BY <3>1 DEF CallWalks, Inside
  <2>2. CASE \E t \in DbTypes : Connects(a, t)
    <3>1. PICK t \in DbTypes : Connects(a, t)
        BY <2>2
    <3>2. CASE dbUp[t]
      <4>1. dbCall' = Went(a, t)
          BY <3>1, <3>2 DEF Connects, At
      <4>2. dbCall'[a].pc = "in"
          BY <1>1, <4>1, CallGoesOn DEF DbIInv
      <4> QED
          BY <4>2
    <3>3. CASE ~dbUp[t]
      <4>1. dbCall' = ReturnWith(a, TRUE)
          BY <3>1, <3>3 DEF Connects, At
      <4>2. dbCall'[a].err = TRUE
          BY <1>1, <4>1, CallTyped DEF DbIInv, DbTyped, ReturnWith, DbCalls
      <4> QED
          BY <4>2
    <3> QED
        BY <3>2, <3>3
  <2>3. dbCall'[a].pc = "in" \/ ReturnsFrom(a) \/ \E t \in DbTypes : Connects(a, t)
    <3>1. \A t \in DbTypes : ~Register(a, t) /\ ~CloseAll(a, t) /\ ~CheckClient(a, t)
        BY DbBounds DEF Register, At, CloseAll, CheckClient
    <3>2. ~EntersRegistry(a)
        BY DEF EntersRegistry, MayEnter
    <3> QED
        BY <1>1, <3>1, <3>2, CallUntouched DEF CallStep
  <2> QED
      BY <2>1, <2>2, <2>3
<1> QED
    BY <1>1, DbIInvInit, DbIInvStep, PTL DEF DbSpec, InitAllOrError

-----------------------------------------------------------------------------
(* Certificates.                                                            *)

Gens == 1..MaxGen
Material == {NoTLS} \cup [pair : Gens, cas : (SUBSET CAs) \ {{}}]
LoaderStates == [pc : {"idle", "key", "ca", "gone"}, cert : 0..MaxGen, pair : 0..MaxGen]

\* What is built is one generation with its own key; what a loader is about to
\* publish too.
MaterialIsWhole ==
    /\ crDisk \in [cert : 0..MaxGen, key : 0..MaxGen, cas : SUBSET CAs]
    /\ crBuilt \in Material /\ crServing \in Material
    /\ crLoader \in [Loaders \cup {New} -> LoaderStates]
    /\ \A l \in Loaders \cup {New} :
          crLoader[l].pc = "ca" => crLoader[l].pair = crLoader[l].cert /\ crLoader[l].pair \in Gens

\* Who was admitted has passed verifyPeerCertificate.
AdmittedVerified ==
    /\ crPeer = [p \in Peers |-> crPeer[p]]
    /\ \A p \in Peers : crPeer[p] # <<>> /\ RequireClientCert => verifyPeerCertificate(p)

CertIInv == MaterialIsWhole /\ AdmittedVerified /\ crStop \in {"open", "closed", "panic"}

\* A wildcard stands for one or more labels in front, never for none: the name
\* is longer than what follows the star.
LEMMA WildcardIsBelow ==
    ASSUME NEW name \in Seq(STRING), NEW w \in Seq(STRING), MatchDNSSAN(name, w), name # w
    PROVE  IsWild(w) /\ \E k \in 1..(Len(name) - 1) : SubSeq(name, k + 1, Len(name)) = Tail(w)
<1>1. /\ IsWild(w) /\ Len(w) > 1 /\ Len(name) >= Len(w)
      /\ SubSeq(name, Len(name) - Len(w) + 2, Len(name)) = Tail(w)
    BY DEF MatchDNSSAN, IsWild
<1> DEFINE k == Len(name) - Len(w) + 1
<1>2. Len(name) \in Nat /\ Len(w) \in Nat
    BY LenProperties
<1>3. k \in 1..(Len(name) - 1) /\ k + 1 = Len(name) - Len(w) + 2
    BY <1>1, <1>2
<1> QED
    BY <1>1, <1>3

LEMMA CertIInvImplies == ASSUME CertIInv PROVE CertInv
<1>1. CertTypeOK
    BY DEF CertIInv, MaterialIsWhole, CertTypeOK, Material, LoaderStates, Gens
<1>2. ASSUME NEW p \in Peers, crPeer[p] # <<>>, RequireClientCert, AllowedDNSSANs # {}
      PROVE  \E i \in 1..Len(p.sans), w \in AllowedDNSSANs :
                 p.sans[i] = w \/ (IsWild(w) /\ \E k \in 1..(Len(p.sans[i]) - 1) :
                                      SubSeq(p.sans[i], k + 1, Len(p.sans[i])) = Tail(w))
  <2>1. PICK i \in 1..Len(p.sans), w \in AllowedDNSSANs : MatchDNSSAN(p.sans[i], w)
      BY <1>2 DEF CertIInv, AdmittedVerified, verifyPeerCertificate
  <2>2. p.sans[i] \in Seq(STRING) /\ w \in Seq(STRING)
      BY CertConstants, ElementOfSeq
  <2> QED
      BY <2>1, <2>2, WildcardIsBelow
<1>3. AdmittedIsAllowed
    BY <1>2 DEF CertIInv, AdmittedVerified, verifyPeerCertificate, AdmittedIsAllowed
<1> QED
    BY <1>1, <1>3 DEF CertInv

LEMMA CertIInvInit == ASSUME CertInit PROVE CertIInv
<1>1. Idle \in LoaderStates /\ Idle.pc = "idle" /\ 1 \in 0..MaxGen /\ IssuerOf[1] \in CAs
    BY CertConstants DEF Idle, LoaderStates, Broken, CAs
<1> QED
    BY <1>1, CertConstants
    DEF CertInit, CertIInv, MaterialIsWhole, AdmittedVerified, Material, Broken

\* One loader moves on.
LEMMA LoaderMoves ==
    ASSUME MaterialIsWhole, NEW l \in Loaders \cup {New}, NEW s \in LoaderStates,
           crLoader' = [crLoader EXCEPT ![l] = s],
           s.pc = "ca" => s.pair = s.cert /\ s.pair \in Gens,
           crBuilt' \in Material, UNCHANGED <<crDisk, crServing>>
    PROVE  MaterialIsWhole'
BY DEF MaterialIsWhole

LEMMA CertIInvStep == ASSUME CertIInv, [CertNext]_crVars PROVE CertIInv'
<1> USE DEF CertIInv
<1>1. ASSUME NEW l \in Loaders \cup {New}, ReadCert(l) PROVE CertIInv'
  <2> DEFINE s == [crLoader[l] EXCEPT !.pc = "key", !.cert = crDisk.cert]
  <2>1. s \in LoaderStates /\ s.pc = "key"
      BY DEF MaterialIsWhole, LoaderStates
  <2>2. MaterialIsWhole'
      BY <1>1, <2>1, LoaderMoves DEF ReadCert, MaterialIsWhole
  <2> QED
      BY <1>1, <2>2 DEF ReadCert, AdmittedVerified
<1>2. ASSUME NEW l \in Loaders \cup {New}, ReadKey(l) PROVE CertIInv'
  <2>1. Idle \in LoaderStates /\ Idle.pc = "idle"
      BY CertConstants DEF Idle, LoaderStates, Broken
  <2>2. CASE crDisk.key # Broken /\ crDisk.key = crLoader[l].cert
    <3> DEFINE s == [crLoader[l] EXCEPT !.pc = "ca", !.pair = crDisk.key]
    <3>1. s \in LoaderStates /\ s.pair = crDisk.key /\ s.cert = crLoader[l].cert
        BY DEF MaterialIsWhole, LoaderStates
    <3>2. crLoader' = [crLoader EXCEPT ![l] = s]
        BY <1>2, <2>2 DEF ReadKey, MaterialIsWhole, LoaderStates
    <3>3. crDisk.key \in Gens
        BY <2>2, CertConstants DEF MaterialIsWhole, Gens, Broken
    <3> HIDE DEF s
    <3>4. MaterialIsWhole'
        BY <1>2, <2>2, <3>1, <3>2, <3>3, LoaderMoves DEF ReadKey, MaterialIsWhole
    <3> QED
        BY <1>2, <3>4 DEF ReadKey, AdmittedVerified
  <2>3. CASE ~(crDisk.key # Broken /\ crDisk.key = crLoader[l].cert)
    <3>1. MaterialIsWhole'
        BY <1>2, <2>1, <2>3, LoaderMoves DEF ReadKey, Unread, MaterialIsWhole
    <3> QED
        BY <1>2, <3>1 DEF ReadKey, AdmittedVerified
  <2> QED
      BY <2>2, <2>3
<1>3. ASSUME NEW l \in Loaders \cup {New}, loadCACertPool(l) PROVE CertIInv'
  <2>1. Idle \in LoaderStates /\ Idle.pc = "idle"
      BY CertConstants DEF Idle, LoaderStates, Broken
  <2>2. crLoader[l].pair \in Gens
      BY <1>3 DEF loadCACertPool, MaterialIsWhole
  <2>3. crBuilt' \in Material
      BY <1>3, <2>2 DEF loadCACertPool, MaterialIsWhole, Material
  <2>4. MaterialIsWhole'
      BY <1>3, <2>1, <2>3, LoaderMoves DEF loadCACertPool, Unread
  <2> QED
      BY <1>3, <2>4 DEF loadCACertPool, AdmittedVerified
<1>4. ASSUME NEW l \in Loaders \cup {New}, Leaves(l) PROVE CertIInv'
  <2> DEFINE s == [crLoader[l] EXCEPT !.pc = "gone"]
  <2>1. s \in LoaderStates /\ s.pc = "gone"
      BY DEF MaterialIsWhole, LoaderStates
  <2>2. crLoader' = [crLoader EXCEPT ![l] = s]
      BY <1>4 DEF Leaves
  <2>3. MaterialIsWhole'
      BY <1>4, <2>1, <2>2, LoaderMoves DEF Leaves, MaterialIsWhole
  <2> QED
      BY <1>4, <2>3 DEF Leaves, AdmittedVerified
<1>5. ASSUME NEW p \in Peers, Handshake(p) PROVE CertIInv'
  <2>1. RequireClientCert => verifyPeerCertificate(p)
      BY <1>5 DEF Handshake
  <2>2. AdmittedVerified'
      BY <1>5, <2>1 DEF Handshake, AdmittedVerified, verifyPeerCertificate
  <2> QED
      BY <1>5, <2>2 DEF Handshake, MaterialIsWhole
<1>6. ASSUME NEW f \in {"cert", "key"}, Install(f) PROVE CertIInv'
  <2>1. crDisk' \in [cert : 0..MaxGen, key : 0..MaxGen, cas : SUBSET CAs]
      BY <1>6, CertConstants DEF Install, MaterialIsWhole
  <2> QED
      BY <1>6, <2>1 DEF Install, MaterialIsWhole, AdmittedVerified
<1>7. CASE InstallCAs
  <2>1. crDisk' \in [cert : 0..MaxGen, key : 0..MaxGen, cas : SUBSET CAs]
      BY <1>7 DEF InstallCAs, MaterialIsWhole
  <2> QED
      BY <1>7, <2>1 DEF InstallCAs, MaterialIsWhole, AdmittedVerified
<1>8. CASE TransportCredentials \/ StopReload \/ UNCHANGED crVars
    BY <1>8 DEF TransportCredentials, StopReload, crVars, MaterialIsWhole, AdmittedVerified
<1> QED
    BY <1>1, <1>2, <1>3, <1>4, <1>5, <1>6, <1>7, <1>8 DEF CertNext, Loading

\* No configuration that is published or served mixes two generations, and no
\* client is admitted against a list, nor as the parent of a wildcard.
THEOREM CertsHold == CertSpec => []CertInv
<1>1. CertInit => CertIInv
    BY CertIInvInit
<1>2. CertIInv /\ [CertNext]_crVars => CertIInv'
    BY CertIInvStep
<1> QED
    BY <1>1, <1>2, CertIInvImplies, PTL DEF CertSpec

-----------------------------------------------------------------------------
(* Typed values in Redis, and DeleteByPattern.                              *)

Payloads == {Marshal(codec, u) : codec \in Codecs, u \in Users}
\* What Get can have read: the value, with the payload it was read from.
Reads == {<<>>} \cup ((Users \cup Payloads) \X Payloads)
StSpaces == {Stores[u].space : u \in Users}
StEntries ==
    [write : Nat \ {0}, payload : Payloads, owner : StSpaces, asked : Nat, ttl : Nat]
StUsers == [again : Operations \cup {"no"}, read : Reads, seen : Nat]
PurgeConfs == Purges \cup {NoPurge.conf}
StPurges ==
    [pc : {"idle", "scan", "batch", "done"}, conf : PurgeConfs, there : SUBSET Nat,
     owes : SUBSET Keys, keys : Seq(Keys), scans : Nat, last : BOOLEAN, deleted : Nat,
     removed : SUBSET Nat, res : {"none", "ok", "error"}]

StTyped ==
    /\ entries \in [Keys -> StEntries \cup {NoEntry}]
    /\ user \in [Users -> StUsers]
    /\ purge \in StPurges
    /\ writes \in 0..MaxWrites /\ purges \in 0..MaxPurges
    /\ wins \in SUBSET (Users \X Nat)

\* An entry is that of a store with this key, and its TTL is one that was asked for.
EntriesOwned ==
    \A k \in Keys : entries[k] # NoEntry =>
        /\ entries[k].write <= writes
        /\ \E u \in Users : KeyOf(u) = k /\ entries[k].owner = Stores[u].space
        /\ IF entries[k].asked = 0 THEN entries[k].ttl = 0
           ELSE entries[k].ttl >= 1 /\ (entries[k].ttl <= 2 * entries[k].asked \/ entries[k].ttl = Second)

\* No two entries are of one write.
WritesUnique ==
    \A j, k \in Keys : entries[j] # NoEntry /\ entries[k] # NoEntry /\ entries[j].write = entries[k].write => j = k

\* What was won is no longer there.
WinsGone ==
    \A w \in wins :
        w[2] <= writes /\ \A k \in Keys : entries[k] # NoEntry => entries[k].write # w[2]

\* A call of DeleteByPattern has still to meet what is left of its keyspace: in
\* the batches of this SCAN, or in a later one.
PurgeWillMeet ==
    ~purge.conf.dryRun /\ purge.pc \in {"scan", "batch"} =>
        \A k \in Keys : entries[k] # NoEntry /\ entries[k].write \in purge.there =>
            \/ k \in purge.owes
            \/ purge.pc = "batch" /\ \E i \in 1..Len(purge.keys) : purge.keys[i] = k

\* The keys of a SCAN match, and the last one has left nothing.
ScanMatches ==
    purge.pc = "batch" =>
        /\ \A i \in 1..Len(purge.keys) : Matches(purge.conf.space, purge.keys[i])
        /\ purge.last => purge.owes = {}

\* What the call has removed is gone, and what it notes was written before.
RemovedGone ==
    /\ \A n \in purge.there \cup purge.removed : n <= writes
    /\ \A k \in Keys : entries[k] # NoEntry => entries[k].write \notin purge.removed

PurgeOK == PurgeWillMeet /\ ScanMatches /\ RemovedGone /\ PurgeIsComplete /\ PurgeCountIsSafe

StIInv ==
    /\ StTyped /\ EntriesOwned /\ WritesUnique /\ WinsGone /\ ConsumedOnce /\ ReadsOwnForm
    /\ PurgeOK

\* The bounds, the stores and the calls.
LEMMA StBounds ==
    /\ MaxWrites \in Nat /\ MaxPurges \in Nat /\ MaxScans \in Nat /\ Second \in Nat \ {0}
BY StoreConstants

LEMMA StoreIs ==
    ASSUME NEW u \in Users
    PROVE  /\ Stores[u].codec \in Codecs /\ Stores[u].ttl \in Nat /\ Stores[u].ratio \in Nat
           /\ Stores[u].space \in Seq(Seq(STRING)) /\ Len(Stores[u].space) \in 1..2
BY StoreConstants

LEMMA ConfIs ==
    ASSUME NEW c \in Purges
    PROVE  /\ c.space \in Seq(Seq(STRING)) /\ Len(c.space) = 1
           /\ c.batchSize \in Nat \ {0} /\ c.dryRun \in BOOLEAN
BY StoreConstants

LEMMA KeysFinite == IsFiniteSet(Keys)
<1> DEFINE f == [u \in Users |-> KeyOf(u)]
<1>1. IsFiniteSet(Users)
    BY StoreConstants
<1>2. f \in Surjection(Users, Keys)
    BY DEF Surjection, Keys
<1> QED
    BY <1>1, <1>2, FS_Surjection

\* A set of numbers has a least one, and a bounded one a greatest.
LEMMA HasLeast == ASSUME NEW S, S \subseteq Nat, S # {} PROVE \E i \in S : \A j \in S : i <= j
<1> DEFINE R == OpToRel(<, Nat)
<1>1. IsWellFoundedOn(R, Nat)
    BY NatLessThanWellFounded
<1>2. \A x, y \in Nat : x < y => <<x, y>> \in R
    BY DEF OpToRel
<1> HIDE DEF R
<1>3. PICK i \in S : \A j \in S : ~(<<j, i>> \in R)
    BY <1>1, WFMin
<1>4. \A j \in S : ~(j < i)
    BY <1>2, <1>3
<1>5. \A j \in S : i <= j
    BY <1>4
<1> QED
    BY <1>5

LEMMA HasGreatest ==
    ASSUME NEW n \in Nat, NEW S, S \subseteq 1..n, S # {}
    PROVE  \E i \in S : \A j \in S : j <= i
<1> DEFINE D == {n - i : i \in S}
<1>1. D \subseteq Nat /\ D # {}
  <2>1. \A i \in S : n - i \in Nat
      OBVIOUS
  <2> QED
      BY <2>1
<1>2. PICK d \in D : \A e \in D : d <= e
    BY <1>1, HasLeast
<1>3. PICK i \in S : d = n - i
    BY <1>2
<1>4. \A j \in S : n - i <= n - j
    BY <1>2, <1>3
<1>5. \A j \in S : j <= i
    BY <1>4
<1> QED
    BY <1>5

\* The segments of keys.
Segments == STRING \cup {"k"}

LEMMA NamespaceIsSeq == ASSUME NEW ns \in Seq(STRING) PROVE NormalizeNamespace(ns) \in Seq(Segments)
<1> DEFINE full == {i \in 1..Len(ns) : ns[i] # ""}
           lo == CHOOSE i \in full : \A j \in full : i <= j
           hi == CHOOSE i \in full : \A j \in full : j <= i
<1>1. CASE full = {}
    BY <1>1, EmptySeq DEF NormalizeNamespace
<1>2. CASE full # {}
  <2>1. Len(ns) \in Nat
      BY LenProperties
  <2>9. full \subseteq 1..Len(ns) /\ full \subseteq Nat
    <3>1. full \subseteq 1..Len(ns)
        OBVIOUS
    <3> HIDE DEF full
    <3> QED
        BY <2>1, <3>1
  <2>2. \E i \in full : \A j \in full : i <= j
      BY <1>2, <2>9, HasLeast
  <2>3. \E i \in full : \A j \in full : j <= i
      BY <1>2, <2>1, <2>9, HasGreatest
  <2>4. lo \in full
      BY <2>2
  <2>5. hi \in full
      BY <2>3
  <2>6. NormalizeNamespace(ns) = SubSeq(ns, lo, hi)
      BY <1>2 DEF NormalizeNamespace
  <2> HIDE DEF lo, hi
  <2>7. lo \in Int /\ hi \in Int /\ \A i \in lo..hi : ns[i] \in Segments
    <3>1. lo \in 1..Len(ns) /\ hi \in 1..Len(ns)
        BY <2>9, <2>4, <2>5
    <3>2. \A i \in lo..hi : i \in 1..Len(ns)
        BY <2>1, <3>1
    <3> QED
        BY <3>1, <3>2, ElementOfSeq DEF Segments
  <2> QED
      BY <2>6, <2>7, SubSeqProperties
<1> QED
    BY <1>1, <1>2

\* The first elements of a concatenation.
LEMMA BeginsWith ==
    ASSUME NEW s \in Seq(Segments), NEW t \in Seq(Segments)
    PROVE  /\ s \o t \in Seq(Segments) /\ Len(s \o t) = Len(s) + Len(t)
           /\ StartsWith(s, s \o t)
<1>1. /\ s \o t \in Seq(Segments) /\ Len(s \o t) = Len(s) + Len(t)
      /\ \A i \in 1..Len(s) + Len(t) : (s \o t)[i] = IF i <= Len(s) THEN s[i] ELSE t[i - Len(s)]
    BY ConcatProperties
<1> DEFINE c == s \o t
           b == SubSeq(c, 1, Len(s))
<1>2. Len(s) \in Nat /\ Len(t) \in Nat
    BY LenProperties
<1>3. \A i \in 1..Len(s) : c[i] = s[i] /\ s[i] \in Segments
    BY <1>1, <1>2, ElementOfSeq
<1> HIDE DEF c
<1>4. b \in Seq(Segments) /\ Len(b) = Len(s) /\ \A i \in 1..Len(s) : b[i] = c[i]
  <2>1. 1 \in Int /\ Len(s) \in Int /\ \A i \in 1..Len(s) : c[i] \in Segments
      BY <1>2, <1>3
  <2>2. /\ b \in Seq(Segments) /\ Len(b) = (IF 1 <= Len(s) THEN Len(s) - 1 + 1 ELSE 0)
        /\ \A i \in 1..Len(s) - 1 + 1 : b[i] = c[1 + i - 1]
      BY <2>1, SubSeqProperties
  <2> QED
      BY <1>2, <2>2
<1>5. b = s
    BY <1>3, <1>4, SeqEqual
<1> QED
    BY <1>1, <1>2, <1>5 DEF StartsWith, c

\* Of two beginnings of one sequence, the shorter begins the longer.
LEMMA BeginningsMeet ==
    ASSUME NEW s \in Seq(Segments), NEW t \in Seq(Segments), NEW k \in Seq(Segments),
           StartsWith(s, k), StartsWith(t, k), Len(s) <= Len(t)
    PROVE  StartsWith(s, t)
<1>1. Len(s) \in Nat /\ Len(t) \in Nat /\ Len(k) \in Nat
    BY LenProperties
<1>2. ASSUME NEW q \in Seq(Segments), StartsWith(q, k) PROVE \A i \in 1..Len(q) : q[i] = k[i] /\ k[i] \in Segments
  <2>1. Len(q) \in Nat /\ Len(q) <= Len(k) /\ q = SubSeq(k, 1, Len(q))
      BY <1>2, LenProperties DEF StartsWith
  <2>2. \A i \in 1..Len(q) : k[i] \in Segments
      BY <1>1, <2>1, ElementOfSeq
  <2>3. \A i \in 1..Len(q) - 1 + 1 : SubSeq(k, 1, Len(q))[i] = k[1 + i - 1]
      BY <2>1, <2>2, SubSeqProperties
  <2> QED
      BY <2>1, <2>2, <2>3
<1>3. \A i \in 1..Len(s) : s[i] = t[i] /\ t[i] \in Segments
    BY <1>1, <1>2
<1> DEFINE b == SubSeq(t, 1, Len(s))
<1>4. b \in Seq(Segments) /\ Len(b) = Len(s) /\ \A i \in 1..Len(s) : b[i] = t[i]
  <2>1. 1 \in Int /\ Len(s) \in Int /\ \A i \in 1..Len(s) : t[i] \in Segments
      BY <1>1, <1>3
  <2>2. /\ b \in Seq(Segments) /\ Len(b) = (IF 1 <= Len(s) THEN Len(s) - 1 + 1 ELSE 0)
        /\ \A i \in 1..Len(s) - 1 + 1 : b[i] = t[1 + i - 1]
      BY <2>1, SubSeqProperties
  <2> QED
      BY <1>1, <2>2
<1>5. b = s
    BY <1>3, <1>4, SeqEqual
<1> QED
    BY <1>5 DEF StartsWith

\* A key of a store begins with the namespace of its root, and is longer.
LEMMA KeyBegins ==
    ASSUME NEW u \in Users
    PROVE  LET root == NormalizeNamespace(Stores[u].space[1])
           IN  /\ root \in Seq(Segments) /\ KeyOf(u) \in Seq(Segments)
               /\ StartsWith(root, KeyOf(u)) /\ Len(root) < Len(KeyOf(u))
<1> DEFINE sp == Stores[u].space
           root == NormalizeNamespace(sp[1])
           last == <<"k">>
<1>1. root \in Seq(Segments) /\ Len(root) \in Nat
  <2>1. sp \in Seq(Seq(STRING)) /\ 1 \in 1..Len(sp)
      BY StoreIs
  <2>2. sp[1] \in Seq(STRING)
      BY <2>1, ElementOfSeq
  <2> QED
      BY <2>2, NamespaceIsSeq, LenProperties
<1>2. last \in Seq(Segments) /\ Len(last) = 1
  <2>1. "k" \in Segments
      BY DEF Segments
  <2> QED
      BY <2>1
<1>3. CASE Len(sp) = 1
  <2>1. KeyOf(u) = root \o last
      BY <1>3 DEF KeyOf, Prefix, NamespaceOf
  <2> HIDE DEF root, last
  <2>2. root \o last \in Seq(Segments) /\ Len(root \o last) = Len(root) + 1 /\ StartsWith(root, root \o last)
      BY <1>1, <1>2, BeginsWith
  <2>3. Len(root) < Len(root \o last)
      BY <1>1, <2>2
  <2> QED
      BY <1>1, <2>1, <2>2, <2>3 DEF root
<1>4. CASE Len(sp) # 1
  <2> DEFINE sub == NormalizeNamespace(sp[2])
             rest == sub \o last
  <2>1. sub \in Seq(Segments) /\ Len(sub) \in Nat
    <3>1. sp \in Seq(Seq(STRING)) /\ Len(sp) \in 1..2
        BY StoreIs
    <3>3. 2 \in 1..Len(sp)
        BY <1>4, <3>1
    <3>2. sp[2] \in Seq(STRING)
        BY <3>1, <3>3, ElementOfSeq
    <3> QED
        BY <3>2, NamespaceIsSeq, LenProperties
  <2>2. KeyOf(u) = (root \o sub) \o last
      BY <1>4 DEF KeyOf, Prefix, NamespaceOf, Child
  <2> HIDE DEF root, sub, last
  <2>3. KeyOf(u) = root \o rest
      BY <1>1, <1>2, <2>1, <2>2, ConcatAssociative
  <2>4. rest \in Seq(Segments) /\ Len(rest) = Len(sub) + 1
      BY <1>2, <2>1, BeginsWith
  <2> HIDE DEF rest
  <2>5. root \o rest \in Seq(Segments) /\ Len(root \o rest) = Len(root) + Len(rest) /\ StartsWith(root, root \o rest)
      BY <1>1, <2>4, BeginsWith
  <2>6. Len(root) < Len(root \o rest)
      BY <1>1, <2>1, <2>4, <2>5
  <2> QED
      BY <1>1, <2>3, <2>5, <2>6 DEF root
<1> QED
    BY <1>3, <1>4

\* The pattern of a keyspace matches the keys of its stores and of its children.
LEMMA OwnKeysMatch ==
    ASSUME NEW u \in Users, NEW c \in Purges, Stores[u].space[1] = c.space[1]
    PROVE  Matches(c.space, KeyOf(u))
<1>1. NamespaceOf(c.space) = NormalizeNamespace(Stores[u].space[1])
    BY ConfIs DEF NamespaceOf
<1> QED
    BY <1>1, KeyBegins DEF Matches, StartsWith

\* And, where roots are apart, no others.
LEMMA OnlyOwnKeysMatch ==
    ASSUME RootsApart, NEW u \in Users, NEW c \in Purges, Matches(c.space, KeyOf(u))
    PROVE  Stores[u].space[1] = c.space[1]
<1> DEFINE root == NormalizeNamespace(Stores[u].space[1])
           ns == NormalizeNamespace(c.space[1])
<1>1. ns \in Seq(Segments) /\ NamespaceOf(c.space) = ns
  <2>1. c.space \in Seq(Seq(STRING)) /\ Len(c.space) = 1
      BY ConfIs
  <2>3. 1 \in 1..Len(c.space)
      BY <2>1
  <2>2. c.space[1] \in Seq(STRING)
      BY <2>1, <2>3, ElementOfSeq
  <2> QED
      BY <2>1, <2>2, NamespaceIsSeq DEF NamespaceOf
<1>2. root \in Seq(Segments) /\ KeyOf(u) \in Seq(Segments) /\ StartsWith(root, KeyOf(u))
    BY KeyBegins
<1> HIDE DEF root, ns
<1>3. Len(root) \in Nat /\ Len(ns) \in Nat /\ Len(KeyOf(u)) \in Nat
    BY <1>1, <1>2, LenProperties
<1>4. StartsWith(ns, KeyOf(u))
  <2>1. CASE ns = <<>>
    <3>1. <<>> \o KeyOf(u) = KeyOf(u) /\ <<>> \in Seq(Segments)
        BY <1>2, ConcatEmptySeq, EmptySeq
    <3>2. StartsWith(<<>>, <<>> \o KeyOf(u))
        BY <1>2, <3>1, BeginsWith
    <3> QED
        BY <2>1, <3>1, <3>2
  <2>2. CASE ns # <<>>
      BY <1>1, <1>3, <2>2 DEF Matches, StartsWith
  <2> QED
      BY <2>1, <2>2
<1>5. StartsWith(ns, root) \/ StartsWith(root, ns)
  <2>1. CASE Len(ns) <= Len(root)
      BY <1>1, <1>2, <1>4, <2>1, BeginningsMeet
  <2>2. CASE Len(root) <= Len(ns)
      BY <1>1, <1>2, <1>4, <2>2, BeginningsMeet
  <2> QED
      BY <1>3, <2>1, <2>2
<1> QED
    BY <1>5 DEF RootsApart, root, ns

\* A TTL that was asked for ends, in at most twice the time or in a second.
LEMMA JitterEnds ==
    ASSUME NEW ttl \in Nat, NEW ratio \in Nat, NEW t \in JitterTTL(ttl, ratio)
    PROVE  /\ t \in Nat
           /\ IF ttl = 0 THEN t = 0 ELSE t >= 1 /\ (t <= 2 * ttl \/ t = Second)
<1> DEFINE r == IF ratio > 2 THEN 2 ELSE ratio
           maxJitter == (ttl * r) \div 2
<1>1. r \in 0..2 /\ maxJitter \in Nat /\ maxJitter <= ttl
  <2>1. r \in 0..2
      OBVIOUS
  <2> HIDE DEF r
  <2>2. CASE r = 0
      BY <2>2
  <2>3. CASE r = 1
      BY <2>3
  <2>4. CASE r = 2
      BY <2>4
  <2> QED
      BY <2>1, <2>2, <2>3, <2>4
<1>2. t = ttl \/ (ttl > 0 /\ \E delta \in (-maxJitter)..maxJitter :
                     t = IF ttl + delta <= 0 THEN Second ELSE ttl + delta)
    BY DEF JitterTTL
<1> HIDE DEF r, maxJitter
<1> QED
    BY <1>1, <1>2, StBounds

\* What a codec reads it has written itself; a string is any payload.
LEMMA ReadsOwn ==
    ASSUME NEW codec \in Codecs, NEW p \in Payloads, Unmarshal(codec, p) # <<>>
    PROVE  LET v == Unmarshal(codec, p)
           IN  v[1] \in Users \cup Payloads /\ (codec # "string" => p = Marshal(codec, v[1]))
<1>1. PICK c \in Codecs, w \in Users : p = Marshal(c, w)
    BY DEF Payloads
<1>2. CASE c = "json"
  <2>1. p = <<"json", w>>
      BY <1>1, <1>2 DEF Marshal
  <2> QED
      BY <1>2, <2>1 DEF Codecs, Marshal, Unmarshal
<1>3. CASE c = "string"
  <2>1. p = <<"raw", w>>
      BY <1>1, <1>3 DEF Marshal
  <2> QED
      BY <1>3, <2>1 DEF Codecs, Marshal, Unmarshal
<1>4. CASE c = "gzip+json"
  <2>1. p = <<"gzip", "json", w>>
      BY <1>1, <1>4 DEF Marshal
  <2> QED
      BY <1>4, <2>1 DEF Codecs, Marshal, Unmarshal
<1> QED
    BY <1>2, <1>3, <1>4 DEF Codecs

\* A call returns or loses its answer: only Get leaves something read.
LEMMA UserMoves ==
    ASSUME StTyped, ReadsOwnForm, NEW u \in Users, NEW read \in Reads, NEW op \in Operations,
           Return(u, read) \/ (Lost(u, op) /\ read = <<>>),
           read # <<>> /\ Stores[u].codec # "string" => read[2] = Marshal(Stores[u].codec, read[1])
    PROVE  user' \in [Users -> StUsers] /\ ReadsOwnForm'
<1> DEFINE a == [NoUser EXCEPT !.read = read]
           b == [NoUser EXCEPT !.again = op]
<1>1. a \in StUsers /\ a.read = read
    BY DEF NoUser, StUsers
<1>2. b \in StUsers /\ b.read = <<>>
    BY DEF NoUser, StUsers, Reads
<1>3. user' = [user EXCEPT ![u] = a] \/ (user' = [user EXCEPT ![u] = b] /\ read = <<>>)
    BY DEF Return, Lost
<1> HIDE DEF a, b
<1>4. /\ user' \in [Users -> StUsers] /\ user'[u].read = read
      /\ \A v \in Users : v # u => user'[v] = user[v]
    BY <1>1, <1>2, <1>3 DEF StTyped
<1> QED
    BY <1>4 DEF ReadsOwnForm

LEMMA NothingRead == <<>> \in Reads
BY DEF Reads

LEMMA UserIsBack ==
    ASSUME StTyped, ReadsOwnForm, NEW u \in Users, NEW op \in Operations, Return(u, <<>>) \/ Lost(u, op)
    PROVE  user' \in [Users -> StUsers] /\ ReadsOwnForm'
BY NothingRead, UserMoves

LEMMA EntryIs ==
    ASSUME StTyped, NEW k \in Keys, entries[k] # NoEntry
    PROVE  entries[k] \in StEntries /\ entries[k].write \in Nat \ {0} /\ entries[k].payload \in Payloads
BY DEF StTyped, StEntries

\* Entries that are only removed stay as they were written.
LEMMA EntriesShrink ==
    ASSUME StIInv, writes' = writes, \A k \in Keys : entries'[k] = entries[k] \/ entries'[k] = NoEntry
    PROVE  EntriesOwned' /\ WritesUnique' /\ (wins' = wins => WinsGone')
<1>1. EntriesOwned'
    BY DEF StIInv, EntriesOwned
<1>2. WritesUnique'
    BY DEF StIInv, WritesUnique
<1>3. wins' = wins => WinsGone'
    BY DEF StIInv, WinsGone
<1> QED
    BY <1>1, <1>2, <1>3

LEMMA PurgeIs == ASSUME StTyped PROVE purge \in StPurges
BY DEF StTyped

\* One entry is changed: a call of DeleteByPattern no longer owes it.
LEMMA PurgeOnPut ==
    ASSUME StIInv, NEW k \in Keys, purge' = [purge EXCEPT !.owes = @ \ {k}],
           \A j \in Keys : j # k => entries'[j] = entries[j],
           writes' \in Nat, writes <= writes',
           entries'[k] = NoEntry \/ (entries'[k].write \in Nat /\ writes < entries'[k].write)
    PROVE  purge' \in StPurges /\ PurgeOK'
<1>1. /\ purge' \in StPurges /\ purge'.pc = purge.pc /\ purge'.conf = purge.conf
      /\ purge'.there = purge.there /\ purge'.owes = purge.owes \ {k} /\ purge'.keys = purge.keys
      /\ purge'.last = purge.last /\ purge'.deleted = purge.deleted
      /\ purge'.removed = purge.removed /\ purge'.res = purge.res
    BY PurgeIs DEF StIInv, StPurges
<1>2. \A n \in purge.there \cup purge.removed : n \in Nat /\ n <= writes
    BY PurgeIs DEF StIInv, PurgeOK, RemovedGone, StPurges
<1>3. writes \in Nat
    BY StBounds DEF StIInv, StTyped
<1>4. entries'[k] # NoEntry => entries'[k].write \notin purge.there \cup purge.removed
    BY <1>2, <1>3
<1>5. PurgeWillMeet'
    BY <1>1, <1>4 DEF StIInv, PurgeOK, PurgeWillMeet
<1>6. ScanMatches'
    BY <1>1 DEF StIInv, PurgeOK, ScanMatches
<1>7. RemovedGone'
  <2>1. \A n \in purge'.there \cup purge'.removed : n <= writes'
      BY <1>1, <1>2, <1>3
  <2> QED
      BY <1>1, <1>4, <2>1 DEF StIInv, PurgeOK, RemovedGone
<1>8. PurgeIsComplete' /\ PurgeCountIsSafe'
    BY <1>1, <1>4 DEF StIInv, PurgeOK, PurgeIsComplete, PurgeCountIsSafe
<1> QED
    BY <1>1, <1>5, <1>6, <1>7, <1>8 DEF PurgeOK

LEMMA GetKeeps == ASSUME StIInv, NEW u \in Users, Get(u) PROVE StIInv'
<1> DEFINE k == KeyOf(u)
           p == entries[k].payload
           v == Unmarshal(Stores[u].codec, p)
           read == IF v = <<>> THEN <<>> ELSE <<v[1], p>>
<1>1. /\ entries[k] # NoEntry /\ Return(u, read)
      /\ UNCHANGED <<entries, purge, writes, wins, purges>>
    BY DEF Get
<1>2. k \in Keys /\ p \in Payloads /\ Stores[u].codec \in Codecs
    BY <1>1, EntryIs, StoreIs DEF StIInv, Keys
<1>3. /\ read \in Reads
      /\ read # <<>> /\ Stores[u].codec # "string" => read[2] = Marshal(Stores[u].codec, read[1])
  <2>1. CASE v = <<>>
      BY <2>1, NothingRead
  <2>2. CASE v # <<>>
    <3>1. v[1] \in Users \cup Payloads /\ (Stores[u].codec # "string" => p = Marshal(Stores[u].codec, v[1]))
        BY <1>2, <2>2, ReadsOwn
    <3> HIDE DEF v, p
    <3>2. read = <<v[1], p>> /\ read[1] = v[1] /\ read[2] = p
        BY <2>2
    <3> HIDE DEF read
    <3> QED
        BY <1>2, <3>1, <3>2 DEF Reads
  <2> QED
      BY <2>1, <2>2
<1> HIDE DEF read
<1>4. user' \in [Users -> StUsers] /\ ReadsOwnForm'
    BY <1>1, <1>3, UserMoves DEF StIInv, Operations
<1> QED
    BY <1>1, <1>4 DEF StIInv, StTyped, EntriesOwned, WritesUnique, WinsGone, ConsumedOnce, PurgeOK,
        PurgeWillMeet, ScanMatches, RemovedGone, PurgeIsComplete, PurgeCountIsSafe, Matches

LEMMA NoAnswerKeeps == ASSUME StIInv, NEW u \in Users, NoAnswer(u) \/ UNCHANGED stVars PROVE StIInv'
<1>1. UNCHANGED <<entries, purge, writes, wins, purges>>
    BY DEF NoAnswer, stVars
<1>2. user' \in [Users -> StUsers] /\ ReadsOwnForm'
  <2>1. CASE NoAnswer(u)
      BY <2>1, UserIsBack DEF NoAnswer, StIInv, Operations
  <2>2. CASE UNCHANGED stVars
      BY <2>2 DEF stVars, StIInv, StTyped, ReadsOwnForm
  <2> QED
      BY <2>1, <2>2
<1> QED
    BY <1>1, <1>2 DEF StIInv, StTyped, EntriesOwned, WritesUnique, WinsGone, ConsumedOnce, PurgeOK,
        PurgeWillMeet, ScanMatches, RemovedGone, PurgeIsComplete, PurgeCountIsSafe, Matches

\* An entry is gone, and whoever consumed it has won its write.
LEMMA GoneKeeps ==
    ASSUME StIInv, NEW k \in Keys, Put(k, NoEntry), UNCHANGED <<writes, purges>>,
           user' \in [Users -> StUsers], ReadsOwnForm',
           \/ wins' = wins
           \/ /\ entries[k] # NoEntry
              /\ \E u \in Users : wins' = wins \cup {<<u, entries[k].write>>}
    PROVE  StIInv'
<1>1. /\ entries' = [entries EXCEPT ![k] = NoEntry]
      /\ purge' = [purge EXCEPT !.owes = @ \ {k}]
    BY DEF Put
<1>2. /\ entries' \in [Keys -> StEntries \cup {NoEntry}] /\ entries'[k] = NoEntry
      /\ \A j \in Keys : j # k => entries'[j] = entries[j]
    BY <1>1 DEF StIInv, StTyped
<1>3. writes' = writes /\ writes' \in Nat /\ writes <= writes'
    BY StBounds DEF StIInv, StTyped
<1>4. purge' \in StPurges /\ PurgeOK'
    BY <1>1, <1>2, <1>3, PurgeOnPut
<1>5. EntriesOwned' /\ WritesUnique' /\ (wins' = wins => WinsGone')
    BY <1>2, <1>3, EntriesShrink
<1>6. wins' \in SUBSET (Users \X Nat) /\ WinsGone' /\ ConsumedOnce'
  <2>1. CASE wins' = wins
      BY <1>5, <2>1 DEF StIInv, StTyped, ConsumedOnce
  <2>2. CASE wins' # wins
    <3>1. entries[k] # NoEntry
        BY <2>2
    <3> DEFINE n == entries[k].write
    <3>2. PICK u \in Users : wins' = wins \cup {<<u, n>>}
        BY <2>2
    <3>3. /\ n \in Nat /\ n <= writes
          /\ \A w \in wins : w[2] # n
          /\ \A j \in Keys : entries'[j] # NoEntry => entries'[j].write # n
        BY <1>2, <3>1, EntryIs DEF StIInv, EntriesOwned, WritesUnique, WinsGone
    <3> HIDE DEF n
    <3>4. \A w \in wins' : w \in wins \/ w = <<u, n>>
        BY <3>2
    <3>5. wins' \in SUBSET (Users \X Nat)
        BY <3>2, <3>3 DEF StIInv, StTyped
    <3>6. WinsGone'
        BY <1>2, <1>3, <3>3, <3>4 DEF StIInv, WinsGone
    <3>7. ConsumedOnce'
        BY <3>3, <3>4 DEF StIInv, ConsumedOnce
    <3> QED
        BY <3>5, <3>6, <3>7
  <2> QED
      BY <2>1, <2>2
<1> QED
    BY <1>2, <1>3, <1>4, <1>5, <1>6 DEF StIInv, StTyped

LEMMA KeyIs == \A u \in Users : KeyOf(u) \in Keys
BY DEF Keys

LEMMA DeleteKeeps == ASSUME StIInv, NEW u \in Users, Delete(u) PROVE StIInv'
<1>1. user' \in [Users -> StUsers] /\ ReadsOwnForm'
    BY UserIsBack DEF Delete, StIInv, Operations
<1> QED
    BY <1>1, GoneKeeps, KeyIs DEF Delete

LEMMA ExpireKeeps == ASSUME StIInv, NEW k \in Keys, Expire(k) PROVE StIInv'
<1>1. user' \in [Users -> StUsers] /\ ReadsOwnForm'
    BY DEF Expire, StIInv, StTyped, ReadsOwnForm
<1> QED
    BY <1>1, GoneKeeps DEF Expire

LEMMA ConsumeKeeps == ASSUME StIInv, NEW u \in Users, ConsumeIfExists(u) PROVE StIInv'
<1>1. user' \in [Users -> StUsers] /\ ReadsOwnForm'
    BY UserIsBack DEF ConsumeIfExists, StIInv, Operations
<1>2. \/ wins' = wins
      \/ /\ entries[KeyOf(u)] # NoEntry
         /\ \E v \in Users : wins' = wins \cup {<<v, entries[KeyOf(u)].write>>}
    BY DEF ConsumeIfExists
<1> QED
    BY <1>1, <1>2, GoneKeeps, KeyIs DEF ConsumeIfExists

LEMMA SetKeeps ==
    ASSUME StIInv, NEW u \in Users, NEW op \in {"set", "set_if_absent"}, Set(u, op)
    PROVE  StIInv'
<1> DEFINE k == KeyOf(u)
<1>1. UNCHANGED <<wins, purges>> /\ op \in Operations /\ k \in Keys
    BY KeyIs DEF Set, Operations
<1>2. user' \in [Users -> StUsers] /\ ReadsOwnForm'
    BY <1>1, UserIsBack DEF Set, StIInv
<1>3. CASE UNCHANGED <<entries, purge, writes>>
    BY <1>1, <1>2, <1>3 DEF StIInv, StTyped, EntriesOwned, WritesUnique, WinsGone, ConsumedOnce, PurgeOK,
        PurgeWillMeet, ScanMatches, RemovedGone, PurgeIsComplete, PurgeCountIsSafe, Matches
<1>4. ASSUME writes < MaxWrites, writes' = writes + 1, NEW t \in JitterTTL(Stores[u].ttl, Stores[u].ratio),
             Put(k, [write |-> writes + 1, payload |-> Marshal(Stores[u].codec, u),
                     owner |-> Stores[u].space, asked |-> Stores[u].ttl, ttl |-> t])
      PROVE  StIInv'
  <2> DEFINE e == [write |-> writes + 1, payload |-> Marshal(Stores[u].codec, u),
                   owner |-> Stores[u].space, asked |-> Stores[u].ttl, ttl |-> t]
             asked == Stores[u].ttl
  <2>1. writes \in Nat /\ writes' \in 0..MaxWrites /\ writes' \in Nat /\ writes <= writes'
      BY <1>4, StBounds DEF StIInv, StTyped
  <2>2. t \in Nat /\ IF asked = 0 THEN t = 0 ELSE t >= 1 /\ (t <= 2 * asked \/ t = Second)
      BY StoreIs, JitterEnds
  <2>3. /\ Stores[u].space \in StSpaces /\ Stores[u].ttl \in Nat
        /\ Marshal(Stores[u].codec, u) \in Payloads
      BY StoreIs DEF StSpaces, Payloads
  <2>4. /\ e \in StEntries /\ e # NoEntry /\ e.write = writes + 1 /\ e.owner = Stores[u].space
        /\ e.asked = asked /\ e.ttl = t
      BY <2>1, <2>2, <2>3 DEF StEntries, NoEntry
  <2>5. entries' = [entries EXCEPT ![k] = e] /\ purge' = [purge EXCEPT !.owes = @ \ {k}]
      BY <1>4 DEF Put
  <2> HIDE DEF e
  <2>6. /\ entries' \in [Keys -> StEntries \cup {NoEntry}] /\ entries'[k] = e
        /\ \A j \in Keys : j # k => entries'[j] = entries[j]
      BY <1>1, <2>4, <2>5 DEF StIInv, StTyped
  <2>7. purge' \in StPurges /\ PurgeOK'
    <3>1. entries'[k].write \in Nat /\ writes < entries'[k].write
        BY <2>1, <2>4, <2>6
    <3> QED
        BY <1>1, <2>1, <2>5, <2>6, <3>1, PurgeOnPut
  <2>8. \A j \in Keys : j # k /\ entries[j] # NoEntry =>
            entries[j].write \in Nat /\ entries[j].write <= writes /\ entries[j].write # e.write
      BY <2>1, <2>4, EntryIs DEF StIInv, EntriesOwned
  <2>9. EntriesOwned'
    <3> SUFFICES ASSUME NEW j \in Keys, entries'[j] # NoEntry
                 PROVE  /\ entries'[j].write <= writes'
                        /\ \E v \in Users : KeyOf(v) = j /\ entries'[j].owner = Stores[v].space
                        /\ IF entries'[j].asked = 0 THEN entries'[j].ttl = 0
                           ELSE entries'[j].ttl >= 1 /\ (entries'[j].ttl <= 2 * entries'[j].asked
                                                         \/ entries'[j].ttl = Second)
        BY DEF EntriesOwned
    <3>1. CASE j = k
        BY <1>4, <2>1, <2>2, <2>4, <2>6, <3>1
    <3>2. CASE j # k
      <4>1. entries'[j].write <= writes'
          BY <1>4, <2>1, <2>6, <2>8, <3>2
      <4> QED
          BY <2>6, <3>2, <4>1 DEF StIInv, EntriesOwned
    <3> QED
        BY <3>1, <3>2
  <2>10. WritesUnique'
      BY <2>6, <2>8 DEF StIInv, WritesUnique
  <2>11. WinsGone' /\ ConsumedOnce'
    <3>1. \A w \in wins : w[2] \in Nat /\ w[2] <= writes
        BY DEF StIInv, StTyped, WinsGone
    <3>2. \A w \in wins : w[2] <= writes' /\ e.write # w[2]
        BY <2>1, <2>4, <1>4, <3>1
    <3> QED
        BY <1>1, <2>6, <3>2 DEF StIInv, WinsGone, ConsumedOnce
  <2> QED
      BY <1>1, <1>2, <2>1, <2>6, <2>7, <2>9, <2>10, <2>11 DEF StIInv, StTyped
<1> QED
    BY <1>3, <1>4 DEF Set

-----------------------------------------------------------------------------
(* The steps of DeleteByPattern.                                            *)

LEMMA PurgeBegins == ASSUME StIInv, NEW c \in Purges, DeleteByPattern(c) PROVE StIInv'
<1> DEFINE matching == {k \in Keys : Matches(c.space, k) /\ entries[k] # NoEntry}
           inside == {k \in Keys : entries[k] # NoEntry /\ entries[k].owner[1] = c.space[1]}
           there == {entries[k].write : k \in inside}
           p == [NoPurge EXCEPT !.pc = "scan", !.conf = c, !.owes = matching, !.there = there]
<1>1. purge' = p /\ purges < MaxPurges /\ purges' = purges + 1 /\ UNCHANGED <<entries, user, writes, wins>>
    BY DEF DeleteByPattern
<1>2. \A n \in there : n \in Nat /\ n <= writes
    BY EntryIs DEF StIInv, EntriesOwned
<1>3. \A k \in Keys : entries[k] # NoEntry /\ entries[k].write \in there => k \in matching
  <2> SUFFICES ASSUME NEW k \in Keys, entries[k] # NoEntry, entries[k].write \in there
               PROVE  k \in matching
      OBVIOUS
  <2>1. PICK j \in inside : entries[j].write = entries[k].write
      OBVIOUS
  <2>2. j = k
      BY <2>1 DEF StIInv, WritesUnique
  <2>3. PICK u \in Users : KeyOf(u) = k /\ entries[k].owner = Stores[u].space
      BY DEF StIInv, EntriesOwned
  <2>4. Stores[u].space[1] = c.space[1]
      BY <2>1, <2>2, <2>3
  <2> QED
      BY <2>3, <2>4, OwnKeysMatch
<1>4. matching \subseteq Keys /\ there \subseteq Nat /\ c \in PurgeConfs
    BY <1>2 DEF PurgeConfs
<1> HIDE DEF matching, there
<1>5. /\ p \in StPurges /\ p.pc = "scan" /\ p.conf = c /\ p.owes = matching /\ p.there = there
      /\ p.deleted = 0 /\ p.removed = {} /\ p.res = "none"
  <2>1. <<>> \in Seq(Keys)
      BY EmptySeq
  <2> QED
      BY <1>4, <2>1 DEF NoPurge, StPurges
<1> HIDE DEF p
<1>6. purges' \in 0..MaxPurges
    BY <1>1, StBounds DEF StIInv, StTyped
<1>7. PurgeWillMeet' /\ ScanMatches'
    BY <1>1, <1>3, <1>5 DEF PurgeWillMeet, ScanMatches
<1>8. RemovedGone' /\ PurgeIsComplete'
    BY <1>1, <1>2, <1>5 DEF RemovedGone, PurgeIsComplete
<1>9. PurgeCountIsSafe'
  <2>1. Cardinality({}) = 0
      BY FS_EmptySet
  <2> QED
      BY <1>1, <1>5, <2>1 DEF PurgeCountIsSafe
<1>10. StTyped' /\ PurgeOK'
    BY <1>1, <1>5, <1>6, <1>7, <1>8, <1>9 DEF StIInv, StTyped, PurgeOK
<1> QED
    BY <1>1, <1>10 DEF StIInv, EntriesOwned, WritesUnique, WinsGone, ConsumedOnce, ReadsOwnForm

\* A SCAN returns the keys in some order.
LEMMA ScanOrder ==
    ASSUME NEW S \in SUBSET Keys
    PROVE  LET order == CHOOSE q \in [1..Cardinality(S) -> S] :
                            \A k \in S : \E i \in 1..Cardinality(S) : q[i] = k
           IN  /\ order \in Seq(Keys)
               /\ \A i \in 1..Len(order) : order[i] \in S
               /\ \A k \in S : \E i \in 1..Len(order) : order[i] = k
<1> DEFINE n == Cardinality(S)
           Is(q) == \A k \in S : \E i \in 1..n : q[i] = k
           order == CHOOSE q \in [1..n -> S] : Is(q)
<1>1. IsFiniteSet(S) /\ n \in Nat /\ ExistsBijection(1..n, S)
    BY KeysFinite, FS_Subset, FS_CardinalityType
<1> HIDE DEF n
<1>2. PICK q \in Bijection(1..n, S) : TRUE
    BY <1>1 DEF ExistsBijection
<1>3. q \in [1..n -> S] /\ Is(q)
    BY <1>2 DEF Bijection, Injection, Surjection
<1>4. order \in [1..n -> S] /\ Is(order)
    BY <1>3
<1> HIDE DEF order
<1>5. order \in Seq(S) /\ Len(order) = n
    BY <1>1, <1>4
<1>6. order \in Seq(Keys)
  <2>1. order \in [1..n -> Keys]
      BY <1>4
  <2> QED
      BY <1>1, <2>1
<1> QED
    BY <1>4, <1>5, <1>6 DEF order, n

LEMMA ScanKeeps == ASSUME StIInv, Scan PROVE StIInv'
<1>1. PICK S \in SUBSET {k \in Keys : Matches(purge.conf.space, k) /\ entries[k] # NoEntry}, last \in BOOLEAN :
        LET order == CHOOSE q \in [1..Cardinality(S) -> S] : \A k \in S : \E i \in 1..Cardinality(S) : q[i] = k
        IN  /\ last \/ (S # {} /\ purge.scans < MaxScans)
            /\ last => purge.owes \subseteq S
            /\ purge' = [purge EXCEPT !.keys = order, !.last = last, !.scans = IF last THEN @ ELSE @ + 1, !.owes = @ \ S,
                   !.pc = IF S # {} THEN "batch" ELSE IF last THEN "done" ELSE "scan",
                   !.res = IF S = {} /\ last THEN "ok" ELSE @]
    BY DEF Scan
<1> DEFINE order == CHOOSE q \in [1..Cardinality(S) -> S] : \A k \in S : \E i \in 1..Cardinality(S) : q[i] = k
           scans == IF last THEN purge.scans ELSE purge.scans + 1
           pc == IF S # {} THEN "batch" ELSE IF last THEN "done" ELSE "scan"
           res == IF S = {} /\ last THEN "ok" ELSE purge.res
           p == [purge EXCEPT !.keys = order, !.last = last, !.scans = scans, !.owes = @ \ S, !.pc = pc, !.res = res]
<1>2. /\ order \in Seq(Keys)
      /\ \A i \in 1..Len(order) : order[i] \in S
      /\ \A k \in S : \E i \in 1..Len(order) : order[i] = k
  <2>1. S \in SUBSET Keys
      OBVIOUS
  <2> QED
      BY <2>1, ScanOrder
<1>3. purge' = p /\ (last \/ S # {}) /\ (last => purge.owes \subseteq S)
    BY <1>1
<1>4. UNCHANGED <<entries, user, writes, wins, purges>> /\ purge.pc = "scan"
    BY DEF Scan
<1> HIDE DEF order
<1>5. /\ purge' \in StPurges /\ purge'.pc = pc /\ purge'.conf = purge.conf /\ purge'.there = purge.there
      /\ purge'.owes = purge.owes \ S /\ purge'.keys = order /\ purge'.last = last
      /\ purge'.deleted = purge.deleted /\ purge'.removed = purge.removed /\ purge'.res = res
  <2>1. purge \in StPurges
      BY PurgeIs DEF StIInv
  <2>2. scans \in Nat /\ pc \in {"scan", "batch", "done"} /\ res \in {"none", "ok", "error"}
      BY <2>1 DEF StPurges
  <2> HIDE DEF scans, pc, res
  <2> QED
      BY <1>2, <1>3, <2>1, <2>2 DEF StPurges
<1>6. PurgeWillMeet'
    BY <1>2, <1>3, <1>4, <1>5 DEF StIInv, PurgeOK, PurgeWillMeet
<1>7. ScanMatches'
    BY <1>2, <1>3, <1>4, <1>5 DEF ScanMatches, Matches
<1>8. RemovedGone' /\ PurgeCountIsSafe'
    BY <1>4, <1>5 DEF StIInv, PurgeOK, RemovedGone, PurgeCountIsSafe
<1>9. PurgeIsComplete'
  <2> SUFFICES ASSUME res = "ok", ~purge.conf.dryRun, NEW k \in Keys, entries[k] # NoEntry
               PROVE  entries[k].write \notin purge.there
      BY <1>4, <1>5 DEF PurgeIsComplete
  <2>1. CASE S = {} /\ last
      BY <1>3, <1>4, <2>1 DEF StIInv, PurgeOK, PurgeWillMeet
  <2>2. CASE ~(S = {} /\ last)
      BY <2>2 DEF StIInv, PurgeOK, PurgeIsComplete
  <2> QED
      BY <2>1, <2>2
<1>10. StTyped' /\ PurgeOK'
    BY <1>4, <1>5, <1>6, <1>7, <1>8, <1>9 DEF StIInv, StTyped, PurgeOK
<1> QED
    BY <1>4, <1>10 DEF StIInv, EntriesOwned, WritesUnique, WinsGone, ConsumedOnce, ReadsOwnForm

LEMMA PurgeConfIs == \A c \in PurgeConfs : c.batchSize \in Nat \ {0} /\ c.dryRun \in BOOLEAN
<1>1. NoPurge.conf.batchSize = 1 /\ NoPurge.conf.dryRun = TRUE
    BY DEF NoPurge
<1>2. 1 \in Nat \ {0} /\ TRUE \in BOOLEAN
    OBVIOUS
<1>3. \A c \in Purges : c.batchSize \in Nat \ {0} /\ c.dryRun \in BOOLEAN
    BY ConfIs
<1> QED
    BY <1>1, <1>2, <1>3 DEF PurgeConfs

\* A batch and the rest after it.
LEMMA BatchSplits ==
    ASSUME StTyped
    PROVE  /\ Rest \in Seq(Keys) /\ Batch \in SUBSET Keys
           /\ \A k \in Batch : \E i \in 1..Len(purge.keys) : purge.keys[i] = k
           /\ \A i \in 1..Len(Rest) : \E j \in 1..Len(purge.keys) : purge.keys[j] = Rest[i]
           /\ \A j \in 1..Len(purge.keys) :
                 purge.keys[j] \in Batch \/ \E i \in 1..Len(Rest) : Rest[i] = purge.keys[j]
<1> DEFINE keys == purge.keys
           n == purge.conf.batchSize
           m == IF Len(keys) < n THEN Len(keys) ELSE n
<1>1. keys \in Seq(Keys) /\ n \in Nat \ {0}
    BY PurgeIs, PurgeConfIs DEF StPurges
<1>2. Batch = {keys[i] : i \in 1..m} /\ Rest = SubSeq(keys, n + 1, Len(keys))
    BY DEF Batch, Rest
<1> HIDE DEF keys, n
<1>3. Len(keys) \in Nat /\ \A i \in 1..Len(keys) : keys[i] \in Keys
    BY <1>1, LenProperties, ElementOfSeq
<1>4. m \in Nat /\ m <= Len(keys) /\ (m = n \/ (m = Len(keys) /\ m < n))
    BY <1>1, <1>3
<1> HIDE DEF m
<1>5. n + 1 \in Int /\ Len(keys) \in Int /\ \A i \in (n + 1)..Len(keys) : keys[i] \in Keys
    BY <1>1, <1>3
<1>6. /\ Rest \in Seq(Keys)
      /\ Len(Rest) = (IF n + 1 <= Len(keys) THEN Len(keys) - (n + 1) + 1 ELSE 0)
      /\ \A i \in 1..Len(keys) - (n + 1) + 1 : Rest[i] = keys[n + 1 + i - 1]
    BY <1>2, <1>5, SubSeqProperties
<1>7. \A i \in 1..Len(Rest) : Rest[i] = keys[n + i] /\ n + i \in 1..Len(keys)
    BY <1>1, <1>3, <1>6
<1>8. \A j \in 1..Len(keys) : j \in 1..m \/ (j - n \in 1..Len(Rest) /\ Rest[j - n] = keys[j])
  <2> SUFFICES ASSUME NEW j \in 1..Len(keys), ~(j \in 1..m) PROVE j - n \in 1..Len(Rest) /\ Rest[j - n] = keys[j]
      OBVIOUS
  <2>1. n < j /\ n + 1 <= Len(keys) /\ j - n \in Int /\ j - n <= Len(keys) - n /\ 1 <= j - n
      BY <1>1, <1>3, <1>4
  <2>2. Len(Rest) = Len(keys) - n
      BY <1>1, <1>3, <1>6, <2>1
  <2>3. j - n \in 1..Len(Rest)
      BY <1>1, <1>3, <2>1, <2>2
  <2>4. Rest[j - n] = keys[n + (j - n)] /\ n + (j - n) = j
      BY <1>1, <1>7, <2>3
  <2> QED
      BY <2>3, <2>4
<1>9. \A k \in Batch : \E i \in 1..Len(keys) : keys[i] = k
  <2>1. \A i \in 1..m : i \in 1..Len(keys)
      BY <1>3, <1>4
  <2> QED
      BY <1>2, <2>1
<1>10. Batch \in SUBSET Keys
    BY <1>3, <1>9
<1>11. \A j \in 1..Len(keys) : keys[j] \in Batch \/ \E i \in 1..Len(Rest) : Rest[i] = keys[j]
    BY <1>2, <1>8
<1>12. \A i \in 1..Len(Rest) : \E j \in 1..Len(keys) : keys[j] = Rest[i]
    BY <1>7
<1> QED
    BY <1>6, <1>9, <1>10, <1>11, <1>12 DEF keys

\* Of each entry that is removed the write is new among those that were.
LEMMA RemovedCount ==
    ASSUME StIInv, NEW gone \in SUBSET Keys, \A k \in gone : entries[k] # NoEntry
    PROVE  LET T == {entries[k].write : k \in gone}
           IN  /\ T \in SUBSET Nat /\ \A n \in T : n <= writes
               /\ Cardinality(gone) \in Nat /\ Cardinality(purge.removed) \in Nat
               /\ Cardinality(purge.removed \cup T) \in Nat
               /\ Cardinality(purge.removed) + Cardinality(gone) <= Cardinality(purge.removed \cup T)
<1> DEFINE T == {entries[k].write : k \in gone}
           f == [k \in gone |-> entries[k].write]
           R == purge.removed
<1>1. \A k \in gone : entries[k].write \in Nat /\ entries[k].write <= writes /\ entries[k].write \notin R
    BY EntryIs DEF StIInv, EntriesOwned, PurgeOK, RemovedGone
<1>2. \A j, k \in gone : entries[j].write = entries[k].write => j = k
    BY DEF StIInv, WritesUnique
<1>3. f \in Injection(gone, T)
    BY <1>2 DEF Injection, IsInjective
<1>4. R \in SUBSET Nat /\ (\A n \in R : n <= writes) /\ writes \in Nat
  <2>1. R \in SUBSET Nat
      BY PurgeIs DEF StIInv, StPurges
  <2>2. writes \in Nat
      BY StBounds DEF StIInv, StTyped
  <2> QED
      BY <2>1, <2>2 DEF StIInv, PurgeOK, RemovedGone
<1>5. T \in SUBSET Nat /\ (\A n \in T : n <= writes) /\ R \cap T = {}
    BY <1>1
<1>6. IsFiniteSet(gone) /\ Cardinality(gone) \in Nat
    BY KeysFinite, FS_Subset, FS_CardinalityType
<1> HIDE DEF T, R
<1>7. IsFiniteSet(R) /\ Cardinality(R) \in Nat
    BY <1>4, FS_BoundedSetOfNaturals, FS_CardinalityType
<1>8. IsFiniteSet(T) /\ Cardinality(T) \in Nat
    BY <1>4, <1>5, FS_BoundedSetOfNaturals, FS_CardinalityType
<1> HIDE DEF f
<1>9. Cardinality(gone) <= Cardinality(T)
    BY <1>3, <1>8, FS_Injection
<1>10. IsFiniteSet(R \cup T) /\ Cardinality(R \cup T) = Cardinality(R) + Cardinality(T) - Cardinality(R \cap T)
    BY <1>7, <1>8, FS_Union
<1>11. Cardinality(R \cap T) = 0
    BY <1>5, FS_EmptySet
<1>12. Cardinality(R \cup T) = Cardinality(R) + Cardinality(T)
    BY <1>7, <1>8, <1>10, <1>11
<1> QED
    BY <1>5, <1>6, <1>7, <1>8, <1>9, <1>12 DEF T, R

\* Entries that a purge removes.
LEMMA EntriesPurged ==
    ASSUME StIInv, NEW gone \in SUBSET Keys, \A k \in gone : entries[k] # NoEntry,
           entries' = [k \in Keys |-> IF k \in gone THEN NoEntry ELSE entries[k]],
           UNCHANGED <<user, writes, wins, purges>>,
           purge' \in StPurges,
           purge'.removed = purge.removed \cup {entries[k].write : k \in gone}
    PROVE  /\ StTyped' /\ EntriesOwned' /\ WritesUnique' /\ WinsGone' /\ ConsumedOnce' /\ ReadsOwnForm'
           /\ (purge'.there = purge.there => RemovedGone')
<1>1. /\ \A k \in Keys : entries'[k] = entries[k] \/ entries'[k] = NoEntry
      /\ \A k \in gone : entries'[k] = NoEntry
      /\ \A k \in Keys \ gone : entries'[k] = entries[k]
      /\ entries' \in [Keys -> StEntries \cup {NoEntry}]
    BY DEF StIInv, StTyped
<1>2. StTyped'
    BY <1>1 DEF StIInv, StTyped
<1>3. EntriesOwned' /\ WritesUnique' /\ WinsGone'
    BY <1>1, EntriesShrink
<1>4. ConsumedOnce' /\ ReadsOwnForm'
    BY DEF StIInv, ConsumedOnce, ReadsOwnForm
<1>5. ASSUME purge'.there = purge.there PROVE RemovedGone'
  <2> DEFINE T == {entries[k].write : k \in gone}
  <2>1. \A n \in T : n <= writes
      BY RemovedCount
  <2>2. \A k \in Keys : entries'[k] # NoEntry => entries'[k] = entries[k] /\ k \notin gone
      BY <1>1
  <2>3. \A k \in Keys : entries'[k] # NoEntry => entries'[k].write \notin T
      BY <2>2 DEF StIInv, WritesUnique
  <2> HIDE DEF T
  <2>4. purge'.removed = purge.removed \cup T
      BY DEF T
  <2> QED
      BY <1>1, <1>5, <2>1, <2>2, <2>3, <2>4 DEF StIInv, PurgeOK, RemovedGone
<1> QED
    BY <1>2, <1>3, <1>4, <1>5

LEMMA BatchKeeps == ASSUME StIInv, NEW counted \in BOOLEAN, DeleteBatch(counted) PROVE StIInv'
<1> DEFINE dry == purge.conf.dryRun
           gone == IF dry THEN {} ELSE {k \in Batch : entries[k] # NoEntry}
           T == {entries[k].write : k \in gone}
           more == IF dry THEN Cardinality(Batch) ELSE IF counted THEN Cardinality(gone) ELSE 0
           rest == Rest
           pc == AfterBatch
           res == IF pc = "done" THEN "ok" ELSE purge.res
           p == [purge EXCEPT !.removed = @ \cup T, !.deleted = @ + more, !.owes = @ \ gone,
                              !.keys = rest, !.pc = pc, !.res = res]
<1>1. /\ purge' = p /\ purge.pc = "batch"
      /\ entries' = [k \in Keys |-> IF k \in gone THEN NoEntry ELSE entries[k]]
      /\ UNCHANGED <<user, writes, wins, purges>>
    BY DEF DeleteBatch
<1>2. /\ rest \in Seq(Keys) /\ Batch \in SUBSET Keys
      /\ \A i \in 1..Len(rest) : \E j \in 1..Len(purge.keys) : purge.keys[j] = rest[i]
      /\ \A j \in 1..Len(purge.keys) :
            purge.keys[j] \in Batch \/ \E i \in 1..Len(rest) : rest[i] = purge.keys[j]
    BY BatchSplits DEF StIInv
<1>3. /\ gone \in SUBSET Keys /\ \A k \in gone : entries[k] # NoEntry
      /\ dry => gone = {}
      /\ ~dry => \A k \in Batch : entries[k] # NoEntry => k \in gone
    BY <1>2
<1>4. /\ pc = IF rest # <<>> THEN "batch" ELSE IF purge.last THEN "done" ELSE "scan"
    BY DEF AfterBatch
<1>5. purge \in StPurges /\ dry \in BOOLEAN
    BY PurgeIs, PurgeConfIs DEF StIInv, StPurges
<1>6. Cardinality(Batch) \in Nat
    BY <1>2, KeysFinite, FS_Subset, FS_CardinalityType
<1> HIDE DEF gone, rest, pc, dry
<1>7. /\ T \in SUBSET Nat /\ Cardinality(gone) \in Nat /\ Cardinality(purge.removed) \in Nat
      /\ Cardinality(purge.removed \cup T) \in Nat
      /\ Cardinality(purge.removed) + Cardinality(gone) <= Cardinality(purge.removed \cup T)
    BY <1>3, RemovedCount
<1> HIDE DEF T
<1>8. more \in Nat /\ (~dry => more <= Cardinality(gone))
    BY <1>5, <1>6, <1>7
<1>9. pc \in {"scan", "batch", "done"} /\ res \in {"none", "ok", "error"}
    BY <1>4, <1>5 DEF StPurges
<1> HIDE DEF more, res
<1>10. /\ purge' \in StPurges /\ purge'.pc = pc /\ purge'.conf = purge.conf /\ purge'.there = purge.there
       /\ purge'.owes = purge.owes \ gone /\ purge'.keys = rest /\ purge'.last = purge.last
       /\ purge'.deleted = purge.deleted + more /\ purge'.removed = purge.removed \cup T
       /\ purge'.res = res
  <2>1. /\ purge.deleted + more \in Nat /\ purge.removed \cup T \in SUBSET Nat
        /\ purge.owes \ gone \in SUBSET Keys /\ rest \in Seq(Keys)
    <3>1. purge.deleted \in Nat /\ purge.removed \in SUBSET Nat /\ purge.owes \in SUBSET Keys
        BY <1>5 DEF StPurges
    <3>2. purge.deleted + more \in Nat
        BY <1>8, <3>1
    <3>3. purge.removed \cup T \in SUBSET Nat
        BY <1>7, <3>1
    <3> QED
        BY <1>2, <3>1, <3>2, <3>3
  <2>2. purge' = p /\ purge \in StPurges
      BY <1>1, <1>5
  <2> QED
      BY <1>9, <2>1, <2>2 DEF StPurges
<1> HIDE DEF p
<1>11. /\ StTyped' /\ EntriesOwned' /\ WritesUnique' /\ WinsGone' /\ ConsumedOnce' /\ ReadsOwnForm'
       /\ RemovedGone'
    BY <1>1, <1>3, <1>10, EntriesPurged DEF T
<1>12. /\ \A k \in Keys : entries'[k] # NoEntry => entries'[k] = entries[k] /\ k \notin gone
    BY <1>1
<1>13. rest = <<>> => Len(rest) = 0
    BY EmptySeq
<1>14. ASSUME ~dry, NEW k \in Keys, entries'[k] # NoEntry, entries[k].write \in purge.there
       PROVE  k \in purge'.owes \/ \E i \in 1..Len(rest) : rest[i] = k
  <2>1. k \notin gone /\ entries[k] # NoEntry /\ (k \in purge.owes \/ \E i \in 1..Len(purge.keys) : purge.keys[i] = k)
      BY <1>1, <1>12, <1>14 DEF StIInv, PurgeOK, PurgeWillMeet, dry
  <2> QED
      BY <1>2, <1>3, <1>10, <1>14, <2>1
<1>15. purge.last => purge.owes = {}
    BY <1>1 DEF StIInv, PurgeOK, ScanMatches
<1>16. PurgeWillMeet'
    BY <1>4, <1>10, <1>12, <1>13, <1>14 DEF PurgeWillMeet, dry
<1>17. ScanMatches'
  <2>1. \A i \in 1..Len(purge.keys) : Matches(purge.conf.space, purge.keys[i])
      BY <1>1 DEF StIInv, PurgeOK, ScanMatches
  <2>2. \A i \in 1..Len(rest) : Matches(purge.conf.space, rest[i])
      BY <1>2, <2>1
  <2> QED
      BY <1>10, <1>15, <2>2 DEF ScanMatches, Matches
<1>18. PurgeIsComplete'
  <2> SUFFICES ASSUME res = "ok", ~dry, NEW k \in Keys, entries'[k] # NoEntry
               PROVE  entries'[k].write \notin purge.there
      BY <1>10 DEF PurgeIsComplete, dry
  <2>1. CASE pc = "done"
    <3>1. rest = <<>> /\ purge.last
        BY <1>4, <2>1
    <3>2. Len(rest) = 0 /\ purge'.owes = {}
        BY <1>10, <1>13, <1>15, <3>1
    <3> QED
        BY <1>12, <1>14, <3>2
  <2>2. CASE pc # "done"
      BY <1>12, <2>2 DEF StIInv, PurgeOK, PurgeIsComplete, res, dry
  <2> QED
      BY <2>1, <2>2
<1>19. PurgeCountIsSafe'
  <2>1. CASE dry
    <3>1. T = {} /\ purge.removed = {}
        BY <1>3, <2>1 DEF StIInv, PurgeOK, PurgeCountIsSafe, T, dry
    <3> QED
        BY <1>10, <2>1, <3>1 DEF PurgeCountIsSafe, dry
  <2>2. CASE ~dry
    <3>1. purge.deleted <= Cardinality(purge.removed) /\ purge.deleted \in Nat
        BY <1>5, <2>2 DEF StIInv, PurgeOK, PurgeCountIsSafe, StPurges, dry
    <3>2. purge.deleted + more <= Cardinality(purge.removed \cup T)
        BY <1>7, <1>8, <2>2, <3>1
    <3> QED
        BY <1>10, <2>2, <3>2 DEF PurgeCountIsSafe, dry
  <2> QED
      BY <2>1, <2>2
<1> QED
    BY <1>11, <1>16, <1>17, <1>18, <1>19 DEF StIInv, PurgeOK

LEMMA PurgeFailsKeeps == ASSUME StIInv, PurgeFails PROVE StIInv'
<1>1. PICK ran \in BOOLEAN :
          LET gone == IF ran /\ purge.pc = "batch" THEN {k \in Batch : entries[k] # NoEntry} ELSE {}
          IN  /\ entries' = [k \in Keys |-> IF k \in gone THEN NoEntry ELSE entries[k]]
              /\ purge' = [purge EXCEPT !.pc = "done", !.res = "error",
                               !.removed = @ \cup {entries[k].write : k \in gone}]
    BY DEF PurgeFails
<1> DEFINE gone == IF ran /\ purge.pc = "batch" THEN {k \in Batch : entries[k] # NoEntry} ELSE {}
           T == {entries[k].write : k \in gone}
<1>2. /\ entries' = [k \in Keys |-> IF k \in gone THEN NoEntry ELSE entries[k]]
      /\ purge' = [purge EXCEPT !.pc = "done", !.res = "error", !.removed = @ \cup T]
    BY <1>1
<1>3. /\ gone \in SUBSET Keys /\ (\A k \in gone : entries[k] # NoEntry)
      /\ purge.pc = "scan" => gone = {}
    BY BatchSplits DEF StIInv
<1>4. UNCHANGED <<user, writes, wins, purges>> /\ (purge.pc = "scan" \/ ~purge.conf.dryRun)
    BY DEF PurgeFails
<1> HIDE DEF gone
<1>5. /\ T \in SUBSET Nat /\ Cardinality(gone) \in Nat /\ Cardinality(purge.removed) \in Nat
      /\ Cardinality(purge.removed \cup T) \in Nat
      /\ Cardinality(purge.removed) + Cardinality(gone) <= Cardinality(purge.removed \cup T)
    BY <1>3, RemovedCount
<1>6. purge.conf.dryRun => T = {}
    BY <1>3, <1>4
<1> HIDE DEF T
<1>7. /\ purge' \in StPurges /\ purge'.pc = "done" /\ purge'.conf = purge.conf /\ purge'.there = purge.there
      /\ purge'.deleted = purge.deleted /\ purge'.removed = purge.removed \cup T /\ purge'.res = "error"
    BY <1>2, <1>5, PurgeIs DEF StIInv, StPurges
<1>8. /\ StTyped' /\ EntriesOwned' /\ WritesUnique' /\ WinsGone' /\ ConsumedOnce' /\ ReadsOwnForm'
      /\ RemovedGone'
    BY <1>2, <1>3, <1>4, <1>7, EntriesPurged DEF T
<1>9. PurgeWillMeet' /\ ScanMatches' /\ PurgeIsComplete'
    BY <1>7 DEF PurgeWillMeet, ScanMatches, PurgeIsComplete
<1>10. PurgeCountIsSafe'
  <2>1. purge \in StPurges /\ purge.deleted \in Nat
      BY PurgeIs DEF StIInv, StPurges
  <2>2. CASE purge.conf.dryRun
      BY <1>6, <1>7, <2>2 DEF StIInv, PurgeOK, PurgeCountIsSafe
  <2>3. CASE ~purge.conf.dryRun
    <3>1. purge.deleted <= Cardinality(purge.removed)
        BY <2>3 DEF StIInv, PurgeOK, PurgeCountIsSafe
    <3>2. purge.deleted <= Cardinality(purge.removed \cup T)
        BY <1>5, <2>1, <3>1
    <3> QED
        BY <1>7, <2>3, <3>2 DEF PurgeCountIsSafe
  <2> QED
      BY <2>2, <2>3
<1> QED
    BY <1>8, <1>9, <1>10 DEF StIInv, PurgeOK

LEMMA StStep == StIInv /\ [StoreNext]_stVars => StIInv'
<1> SUFFICES ASSUME StIInv, [StoreNext]_stVars PROVE StIInv'
    OBVIOUS
<1>1. CASE UNCHANGED stVars
    BY <1>1 DEF stVars, StIInv, StTyped, EntriesOwned, WritesUnique, WinsGone, ConsumedOnce, ReadsOwnForm,
        PurgeOK, PurgeWillMeet, ScanMatches, RemovedGone, PurgeIsComplete, PurgeCountIsSafe, Matches
<1>2. CASE StoreNext
  <2>1. ASSUME NEW u \in Users,
               \/ Get(u) \/ Delete(u) \/ ConsumeIfExists(u) \/ NoAnswer(u)
               \/ \E op \in {"set", "set_if_absent"} : Set(u, op)
        PROVE  StIInv'
      BY <2>1, GetKeeps, DeleteKeeps, ConsumeKeeps, NoAnswerKeeps, SetKeeps
  <2>2. ASSUME NEW k \in Keys, Expire(k) PROVE StIInv'
      BY <2>2, ExpireKeeps
  <2>3. ASSUME NEW c \in Purges, DeleteByPattern(c) PROVE StIInv'
      BY <2>3, PurgeBegins
  <2>4. CASE Scan \/ PurgeFails
      BY <2>4, ScanKeeps, PurgeFailsKeeps
  <2>5. ASSUME NEW counted \in BOOLEAN, DeleteBatch(counted) PROVE StIInv'
      BY <2>5, BatchKeeps
  <2> QED
      BY <1>2, <2>1, <2>2, <2>3, <2>4, <2>5 DEF StoreNext
<1> QED
    BY <1>1, <1>2

LEMMA StInit == StoreInit => StIInv
<1> SUFFICES ASSUME StoreInit PROVE StIInv
    OBVIOUS
<1>1. NoUser \in StUsers /\ NoUser.read = <<>>
    BY NothingRead DEF NoUser, StUsers
<1>2. NoPurge \in StPurges /\ NoPurge.pc = "idle" /\ NoPurge.conf.dryRun /\ NoPurge.removed = {}
      /\ NoPurge.there = {} /\ NoPurge.res = "none"
  <2>1. <<>> \in Seq(Keys)
      BY EmptySeq
  <2> QED
      BY <2>1 DEF NoPurge, StPurges, PurgeConfs
<1>3. StTyped
    BY <1>1, <1>2, StBounds DEF StoreInit, StTyped
<1>4. EntriesOwned /\ WritesUnique /\ WinsGone /\ ConsumedOnce /\ ReadsOwnForm
    BY <1>1 DEF StoreInit, EntriesOwned, WritesUnique, WinsGone, ConsumedOnce, ReadsOwnForm
<1>5. PurgeOK
    BY <1>2 DEF StoreInit, PurgeOK, PurgeWillMeet, ScanMatches, RemovedGone, PurgeIsComplete, PurgeCountIsSafe
<1> QED
    BY <1>3, <1>4, <1>5 DEF StIInv

\* Of one value one ConsumeIfExists says true; no codec reads another's form; a
\* DeleteByPattern without an error has left nothing of its keyspace, and counts
\* no more than it removed: for any stores, keyspaces, TTLs, batches and numbers
\* of callers, answers lost and commands sent twice.
THEOREM StoreHolds == StoreSpec => []StoreInv
<1>1. StIInv => StoreInv
  <2> SUFFICES ASSUME StIInv PROVE StoreInv
      OBVIOUS
  <2>1. ASSUME NEW k \in Keys, entries[k] # NoEntry
        PROVE  /\ entries[k].write \in 1..MaxWrites
               /\ IF entries[k].asked = 0 THEN entries[k].ttl = 0
                  ELSE entries[k].ttl >= 1 /\ (entries[k].ttl <= 2 * entries[k].asked \/ entries[k].ttl = Second)
    <3>1. entries[k].write \in Nat \ {0} /\ entries[k].write <= writes /\ writes \in 0..MaxWrites
        BY <2>1, EntryIs DEF StIInv, StTyped, EntriesOwned
    <3>2. entries[k].write \in 1..MaxWrites
        BY <3>1, StBounds
    <3> QED
        BY <2>1, <3>2 DEF StIInv, EntriesOwned
  <2>2. \A u \in Users : user[u].again \in Operations \cup {"no"}
      BY DEF StIInv, StTyped, StUsers
  <2>3. purge.pc \in {"idle", "scan", "batch", "done"} /\ purge.deleted \in Nat
      BY PurgeIs DEF StIInv, StPurges
  <2>4. StoreTypeOK
      BY <2>1, <2>2, <2>3 DEF StIInv, StTyped, StoreTypeOK
  <2> QED
      BY <2>4 DEF StIInv, PurgeOK, StoreInv
<1> QED
    BY <1>1, StInit, StStep, PTL DEF StoreSpec

\* Where no root keyspace begins with another, DeleteByPattern removes values of
\* its own keyspace and its children only: what matches its pattern is theirs.
THEOREM PurgeContained == ASSUME RootsApart PROVE StoreSpec => PurgeStaysInside
<1> DEFINE Inside1 == \A k \in Keys :
               entries[k] # NoEntry /\ entries'[k] = NoEntry /\ entries[k].write \in purge'.removed \ purge.removed
               => entries[k].owner[1] = purge.conf.space[1]
<1>1. StIInv /\ [StoreNext]_stVars => [Inside1]_stVars
  <2> SUFFICES ASSUME StIInv, StoreNext, NEW k \in Keys, entries[k] # NoEntry,
                      entries[k].write \in purge'.removed, entries[k].write \notin purge.removed
               PROVE  entries[k].owner[1] = purge.conf.space[1]
      OBVIOUS
  <2>1. ASSUME NEW gone \in SUBSET Batch, purge.pc = "batch", ~purge.conf.dryRun,
               \A j \in gone : entries[j] # NoEntry,
               purge'.removed = purge.removed \cup {entries[j].write : j \in gone}
        PROVE  entries[k].owner[1] = purge.conf.space[1]
    <3>1. PICK j \in gone : entries[j].write = entries[k].write
        BY <2>1
    <3>2. j = k /\ k \in Batch
        BY <2>1, <3>1, BatchSplits DEF StIInv, WritesUnique
    <3>3. PICK i \in 1..Len(purge.keys) : purge.keys[i] = k
        BY <3>2, BatchSplits DEF StIInv
    <3>4. Matches(purge.conf.space, k)
        BY <2>1, <3>3 DEF StIInv, PurgeOK, ScanMatches
    <3>5. PICK u \in Users : KeyOf(u) = k /\ entries[k].owner = Stores[u].space
        BY DEF StIInv, EntriesOwned
    <3>6. purge.conf \in Purges
        BY <2>1, PurgeIs DEF StIInv, StPurges, PurgeConfs, NoPurge
    <3> QED
        BY <3>4, <3>5, <3>6, OnlyOwnKeysMatch
  <2>2. ASSUME purge'.removed \subseteq purge.removed PROVE FALSE
      BY <2>2
  <2>3. ASSUME NEW j \in Keys, purge' = [purge EXCEPT !.owes = @ \ {j}] PROVE FALSE
    <3>1. purge'.removed = purge.removed
        BY <2>3, PurgeIs DEF StIInv, StPurges
    <3> QED
        BY <2>2, <3>1
  <2>4. ASSUME NEW u \in Users,
               \/ Get(u) \/ Delete(u) \/ ConsumeIfExists(u) \/ NoAnswer(u)
               \/ \E op \in {"set", "set_if_absent"} : Set(u, op)
        PROVE  FALSE
    <3>1. purge' = purge \/ purge' = [purge EXCEPT !.owes = @ \ {KeyOf(u)}]
        BY <2>4 DEF Get, Delete, ConsumeIfExists, NoAnswer, Set, Put
    <3> QED
        BY <2>2, <2>3, <3>1, KeyIs
  <2>5. ASSUME NEW j \in Keys, Expire(j) PROVE FALSE
      BY <2>3, <2>5 DEF Expire, Put
  <2>6. ASSUME NEW c \in Purges, DeleteByPattern(c) PROVE FALSE
    <3>1. purge'.removed = {}
        BY <2>6 DEF DeleteByPattern, NoPurge
    <3> QED
        BY <2>2, <3>1
  <2>7. ASSUME Scan PROVE FALSE
    <3>1. purge'.removed = purge.removed
        BY <2>7, PurgeIs DEF Scan, StIInv, StPurges
    <3> QED
        BY <2>2, <3>1
  <2>8. ASSUME NEW counted \in BOOLEAN, DeleteBatch(counted) PROVE entries[k].owner[1] = purge.conf.space[1]
    <3> DEFINE gone == IF purge.conf.dryRun THEN {} ELSE {j \in Batch : entries[j] # NoEntry}
    <3>1. purge'.removed = purge.removed \cup {entries[j].write : j \in gone} /\ purge.pc = "batch"
        BY <2>8, PurgeIs DEF DeleteBatch, StIInv, StPurges
    <3>2. CASE purge.conf.dryRun
        BY <2>2, <3>1, <3>2
    <3>3. CASE ~purge.conf.dryRun
      <4>1. gone \in SUBSET Batch /\ \A j \in gone : entries[j] # NoEntry
          BY <3>3
      <4> HIDE DEF gone
      <4> QED
          BY <2>1, <3>1, <3>3, <4>1
    <3> QED
        BY <3>2, <3>3
  <2>9. ASSUME PurgeFails PROVE entries[k].owner[1] = purge.conf.space[1]
    <3>1. PICK ran \in BOOLEAN :
             LET gone == IF ran /\ purge.pc = "batch" THEN {j \in Batch : entries[j] # NoEntry} ELSE {}
             IN  purge' = [purge EXCEPT !.pc = "done", !.res = "error",
                               !.removed = @ \cup {entries[j].write : j \in gone}]
        BY <2>9 DEF PurgeFails
    <3> DEFINE gone == IF ran /\ purge.pc = "batch" THEN {j \in Batch : entries[j] # NoEntry} ELSE {}
    <3>2. purge'.removed = purge.removed \cup {entries[j].write : j \in gone}
        BY <3>1, PurgeIs DEF StIInv, StPurges
    <3>3. CASE gone = {}
        BY <2>2, <3>2, <3>3
    <3>4. CASE gone # {}
      <4>1. purge.pc = "batch" /\ ~purge.conf.dryRun /\ gone \in SUBSET Batch /\ \A j \in gone : entries[j] # NoEntry
          BY <2>9, <3>4 DEF PurgeFails
      <4> HIDE DEF gone
      <4> QED
          BY <2>1, <3>2, <4>1
    <3> QED
        BY <3>3, <3>4
  <2> QED
      BY <2>4, <2>5, <2>6, <2>7, <2>8, <2>9 DEF StoreNext
<1> QED
    BY <1>1, StInit, StStep, PTL DEF StoreSpec, PurgeStaysInside

-----------------------------------------------------------------------------
(* The registry of Redis profiles.                                          *)

RtPlaces == {"none", "default", "loop", "open", "close", "due", "ping", "failed", "opened", "reclose"}
\* Where a call looks at one profile.
AtProfile == {"open", "close", "due", "ping", "failed", "opened", "reclose"}
RtOps == {"idle", "connect", "health", "close"}
RtCalls == [op : RtOps, pc : RtPlaces, todo : SUBSET ProfileNames, cur : Handles, stale : BOOLEAN]
RtAsks ==
    [name : ProfileNames \cup OtherNames \cup {Default}, pc : {"idle", "asking", "done"},
     res : {"none", "error", "default", "profile"}]
RtProfiles == [err : BOOLEAN, wait : Nat, delay : Nat]

RtTyped ==
    /\ rtConf \in RuntimeConfs
    /\ handle \in [Handles -> {"nil", "open", "closed"}]
    /\ profile \in [ProfileNames -> RtProfiles]
    /\ caller \in [Callers -> RtCalls]
    /\ asker \in [Askers -> RtAsks]
    /\ server \in [RedisAddrs -> BOOLEAN]
    /\ faults \in 0..MaxFaults /\ lost \in BOOLEAN

\* The delay of a profile that failed, and the rest of it to wait.
DelaysBounded ==
    \A n \in ProfileNames :
        /\ profile[n].delay \in 0..MaxRetryDelay /\ profile[n].wait \in 0..profile[n].delay
        /\ ~profile[n].err => profile[n].delay = 0

\* What a call does at each place; who may not call is in none.
CallerPlaces ==
    \A p \in Callers :
        /\ p \notin rtConf.callers => caller[p].op = "idle"
        /\ caller[p].op = "idle" <=> caller[p].pc = "none"
        /\ caller[p].op = "connect" => caller[p].pc \in {"default", "loop", "open", "opened", "failed"}
        /\ caller[p].pc \in AtProfile => caller[p].cur \in ProfileNames /\ caller[p].cur \notin caller[p].todo

\* What a caller that is alone has still to open is not open: Connect was called
\* with nothing open, and a health check has closed what it is about to open.
AloneDropsNone ==
    \A p \in Callers : rtConf.callers = {p} =>
        /\ ~lost
        /\ caller[p].op = "connect" =>
              /\ caller[p].pc = "default" => \A h \in Handles : handle[h] = "nil"
              /\ \A n \in caller[p].todo : handle[n] = "nil"
        /\ caller[p].pc = "open" => handle[caller[p].cur] # "open"

RtIInv == RtTyped /\ DelaysBounded /\ CallerPlaces /\ AloneDropsNone /\ UnavailableIsNotDefault

LEMMA RtFacts ==
    /\ Default \notin ProfileNames \cup OtherNames /\ ProfileNames \cap OtherNames = {}
    /\ Default \in Handles /\ ProfileNames \subseteq Handles
    /\ \A cf \in RuntimeConfs : cf.callers \subseteq Callers /\ cf.hasDefault \in BOOLEAN
BY RuntimeConstants DEF Handles

LEMMA RtBounds == MaxRetryDelay \in Nat \ {0} /\ MaxFaults \in Nat
BY RuntimeConstants

\* One caller moves, and with Close it may hurt what others are about to ping.
LEMMA CallMoves ==
    ASSUME RtTyped, NEW p \in Callers, NEW c \in RtCalls, caller' = [caller EXCEPT ![p] = c]
    PROVE  /\ caller' \in [Callers -> RtCalls] /\ caller'[p] = c
           /\ \A q \in Callers : q # p => caller'[q] = caller[q]
BY DEF RtTyped

LEMMA CallIs == ASSUME RtTyped, NEW p \in Callers PROVE caller[p] \in RtCalls
BY DEF RtTyped

LEMMA Goes ==
    ASSUME RtTyped, NEW p \in Callers, NEW pc \in RtPlaces, Goto(p, pc)
    PROVE  /\ caller' \in [Callers -> RtCalls] /\ caller'[p].pc = pc
           /\ caller'[p].op = caller[p].op /\ caller'[p].todo = caller[p].todo /\ caller'[p].cur = caller[p].cur
           /\ \A q \in Callers : q # p => caller'[q] = caller[q]
<1> DEFINE c == [caller[p] EXCEPT !.pc = pc]
<1>1. c \in RtCalls /\ c.pc = pc /\ c.op = caller[p].op /\ c.todo = caller[p].todo /\ c.cur = caller[p].cur
    BY CallIs DEF RtCalls
<1>2. caller' = [caller EXCEPT ![p] = c]
    BY DEF Goto
<1> HIDE DEF c
<1> QED
    BY <1>1, <1>2, CallMoves

\* A caller that is idle again.
LEMMA Ends ==
    ASSUME RtTyped, NEW p \in Callers, caller' = [caller EXCEPT ![p] = NoCaller]
    PROVE  /\ caller' \in [Callers -> RtCalls] /\ caller'[p].pc = "none" /\ caller'[p].op = "idle"
           /\ \A q \in Callers : q # p => caller'[q] = caller[q]
<1>1. NoCaller \in RtCalls /\ NoCaller.pc = "none" /\ NoCaller.op = "idle"
    BY RtFacts DEF NoCaller, RtCalls, RtOps, RtPlaces
<1> QED
    BY <1>1, CallMoves

LEMMA Closes ==
    ASSUME RtTyped, NEW p \in Callers, NEW h \in Handles, NEW pc \in RtPlaces, HandleClose(p, h, pc)
    PROVE  /\ caller' \in [Callers -> RtCalls] /\ caller'[p].pc = pc
           /\ caller'[p].op = caller[p].op /\ caller'[p].todo = caller[p].todo /\ caller'[p].cur = caller[p].cur
           /\ \A q \in Callers : q # p =>
                 /\ caller'[q].op = caller[q].op /\ caller'[q].pc = caller[q].pc
                 /\ caller'[q].todo = caller[q].todo /\ caller'[q].cur = caller[q].cur
           /\ handle' \in [Handles -> {"nil", "open", "closed"}] /\ handle'[h] # "open"
           /\ \A g \in Handles : handle'[g] = handle[g] \/ (handle[g] = "open" /\ handle'[g] = "closed")
<1>1. ASSUME NEW q \in Callers
      PROVE  /\ caller'[q] \in RtCalls /\ caller'[q].op = caller[q].op
             /\ caller'[q].todo = caller[q].todo /\ caller'[q].cur = caller[q].cur
             /\ caller'[q].pc = IF q = p THEN pc ELSE caller[q].pc
  <2>1. caller[q] \in RtCalls
      BY CallIs
  <2>2. CASE q = p
    <3>1. caller'[q] = [caller[q] EXCEPT !.pc = pc]
        BY <2>2 DEF HandleClose
    <3> QED
        BY <2>1, <2>2, <3>1 DEF RtCalls
  <2>3. CASE q # p
    <3>1. caller'[q] = [caller[q] EXCEPT !.stale = TRUE] \/ caller'[q] = caller[q]
        BY <2>3 DEF HandleClose
    <3> QED
        BY <2>1, <2>3, <3>1 DEF RtCalls
  <2> QED
      BY <2>2, <2>3
<1>2. caller' \in [Callers -> RtCalls]
  <2>1. caller' = [q \in Callers |-> caller'[q]]
      BY DEF HandleClose
  <2> QED
      BY <1>1, <2>1
<1> QED
    BY <1>1, <1>2 DEF HandleClose, RtTyped

LEMMA HandleOpens ==
    ASSUME RtTyped, NEW h \in Handles, HandleConnect(h)
    PROVE  /\ handle' \in [Handles -> {"nil", "open", "closed"}]
           /\ \A g \in Handles : g # h => handle'[g] = handle[g]
           /\ lost' \in BOOLEAN /\ (handle[h] # "open" /\ ~lost => ~lost')
BY DEF HandleConnect, RtTyped

\* The two invariants of the callers after a step of one of them.
LEMMA PlacesKept ==
    ASSUME RtIInv, NEW p \in Callers, p \in rtConf.callers, rtConf' = rtConf,
           \A q \in Callers : q # p =>
               /\ caller'[q].op = caller[q].op /\ caller'[q].pc = caller[q].pc
               /\ caller'[q].cur = caller[q].cur /\ caller'[q].todo = caller[q].todo,
           caller'[p].op = "idle" <=> caller'[p].pc = "none",
           caller'[p].op = "connect" => caller'[p].pc \in {"default", "loop", "open", "opened", "failed"},
           caller'[p].pc \in AtProfile => caller'[p].cur \in ProfileNames /\ caller'[p].cur \notin caller'[p].todo
    PROVE  CallerPlaces'
BY DEF RtIInv, CallerPlaces

LEMMA AloneKept ==
    ASSUME RtIInv, NEW p \in Callers, p \in rtConf.callers, rtConf' = rtConf,
           rtConf.callers = {p} =>
               /\ ~lost'
               /\ caller'[p].op = "connect" =>
                     /\ caller'[p].pc = "default" => \A h \in Handles : handle'[h] = "nil"
                     /\ \A n \in caller'[p].todo : handle'[n] = "nil"
               /\ caller'[p].pc = "open" => handle'[caller'[p].cur] # "open"
    PROVE  AloneDropsNone'
BY DEF AloneDropsNone

LEMMA AloneIs ==
    ASSUME RtIInv, NEW p \in Callers, rtConf.callers = {p}
    PROVE  /\ ~lost
           /\ caller[p].op = "connect" =>
                 /\ caller[p].pc = "default" => \A h \in Handles : handle[h] = "nil"
                 /\ \A n \in caller[p].todo : handle[n] = "nil"
           /\ caller[p].pc = "open" => handle[caller[p].cur] # "open"
BY DEF RtIInv, AloneDropsNone

LEMMA PlaceIs ==
    ASSUME RtIInv, NEW p \in Callers, caller[p].pc # "none"
    PROVE  /\ p \in rtConf.callers /\ caller[p].op # "idle" /\ caller[p].op \in RtOps
           /\ caller[p].todo \subseteq ProfileNames
           /\ caller[p].op = "connect" => caller[p].pc \in {"default", "loop", "open", "opened", "failed"}
           /\ caller[p].pc \in AtProfile => caller[p].cur \in ProfileNames /\ caller[p].cur \notin caller[p].todo
<1>1. caller[p] \in RtCalls
    BY CallIs DEF RtIInv
<1> QED
    BY <1>1 DEF RtIInv, CallerPlaces, RtCalls

\* A caller goes on and no handle changes.
LEMMA QuietKeeps ==
    ASSUME RtIInv, NEW p \in Callers, NEW pc \in {"loop", "failed", "reclose"}, Goto(p, pc),
           caller[p].pc \in AtProfile, caller[p].op = "connect" => pc # "reclose",
           UNCHANGED <<rtConf, handle, lost>>
    PROVE  caller' \in [Callers -> RtCalls] /\ CallerPlaces' /\ AloneDropsNone'
<1>1. /\ caller' \in [Callers -> RtCalls] /\ caller'[p].pc = pc
      /\ caller'[p].op = caller[p].op /\ caller'[p].todo = caller[p].todo /\ caller'[p].cur = caller[p].cur
      /\ \A q \in Callers : q # p => caller'[q] = caller[q]
    BY Goes DEF RtIInv, RtPlaces
<1>2. caller[p].pc # "none"
    BY DEF AtProfile
<1>3. CallerPlaces'
    BY <1>1, <1>2, PlaceIs, PlacesKept
<1>4. AloneDropsNone'
    BY <1>1, <1>2, PlaceIs, AloneIs, AloneKept
<1> QED
    BY <1>1, <1>3, <1>4

LEMMA StartKeeps ==
    ASSUME RtIInv, NEW p \in Callers, NEW op \in {"connect", "health", "close"}, Start(p, op),
           op = "connect" => \A h \in Handles : handle[h] = "nil"
    PROVE  RtIInv'
<1> DEFINE c == [NoCaller EXCEPT !.op = op, !.todo = ProfileNames,
                                !.pc = IF rtConf.hasDefault THEN "default" ELSE "loop"]
<1>1. /\ c \in RtCalls /\ c.pc \in {"default", "loop"} /\ c.op = op /\ c.todo = ProfileNames
    BY RtFacts DEF NoCaller, RtCalls, RtOps, RtPlaces
<1>2. caller' = [caller EXCEPT ![p] = c] /\ p \in rtConf.callers
    BY DEF Start
<1> HIDE DEF c
<1>3. /\ caller' \in [Callers -> RtCalls] /\ caller'[p] = c
      /\ \A q \in Callers : q # p => caller'[q] = caller[q]
    BY <1>1, <1>2, CallMoves DEF RtIInv
<1>4. UNCHANGED <<rtConf, handle, profile, asker, server, faults, lost>>
    BY DEF Start
<1>5. CallerPlaces'
    BY <1>1, <1>2, <1>3, <1>4, PlacesKept DEF AtProfile
<1>6. AloneDropsNone'
    BY <1>1, <1>2, <1>3, <1>4, AloneIs, AloneKept, RtFacts
<1> QED
    BY <1>3, <1>4, <1>5, <1>6 DEF RtIInv, RtTyped, DelaysBounded, UnavailableIsNotDefault

LEMMA DefaultFirstKeeps == ASSUME RtIInv, NEW p \in Callers, DefaultFirst(p) PROVE RtIInv'
<1>1. UNCHANGED <<rtConf, profile, asker, server, faults>> /\ caller[p].pc = "default"
    BY DEF DefaultFirst
<1>2. p \in rtConf.callers /\ caller[p].op # "idle" /\ caller[p].todo \subseteq ProfileNames
    BY <1>1, PlaceIs
<1>3. /\ caller' \in [Callers -> RtCalls] /\ handle' \in [Handles -> {"nil", "open", "closed"}]
      /\ lost' \in BOOLEAN
      /\ \A q \in Callers : q # p =>
            /\ caller'[q].op = caller[q].op /\ caller'[q].pc = caller[q].pc
            /\ caller'[q].cur = caller[q].cur /\ caller'[q].todo = caller[q].todo
      /\ \/ caller'[p].op = "idle" /\ caller'[p].pc = "none"
         \/ caller'[p].op = caller[p].op /\ caller'[p].pc = "loop" /\ caller'[p].todo = caller[p].todo
      /\ rtConf.callers = {p} =>
            ~lost' /\ (caller[p].op = "connect" => \A n \in ProfileNames : handle'[n] = "nil")
  <2> USE DEF RtIInv
  <2>1. "loop" \in RtPlaces /\ RtTyped
      BY DEF RtPlaces
  <2>2. CASE caller[p].op = "connect" /\ HandleConnect(Default) /\ Goto(p, "loop")
      BY <1>1, <2>1, <2>2, Goes, HandleOpens, AloneIs, RtFacts
  <2>3. CASE caller' = [caller EXCEPT ![p] = NoCaller] /\ UNCHANGED <<handle, lost>>
    <3>1. /\ caller' \in [Callers -> RtCalls] /\ caller'[p].pc = "none" /\ caller'[p].op = "idle"
          /\ \A q \in Callers : q # p => caller'[q] = caller[q]
        BY <2>1, <2>3, Ends
    <3>2. rtConf.callers = {p} =>
              ~lost' /\ (caller[p].op = "connect" => \A n \in ProfileNames : handle'[n] = "nil")
        BY <1>1, <2>3, AloneIs, RtFacts
    <3>3. handle' \in [Handles -> {"nil", "open", "closed"}] /\ lost' \in BOOLEAN
        BY <2>1, <2>3 DEF RtTyped
    <3> QED
        BY <3>1, <3>2, <3>3
  <2>4. CASE Goto(p, "loop") /\ UNCHANGED <<handle, lost>> /\ caller[p].op = "health"
      BY <1>1, <2>1, <2>4, Goes, AloneIs, RtFacts DEF RtTyped
  <2>5. CASE HandleClose(p, Default, "loop") /\ UNCHANGED lost /\ caller[p].op = "close"
      BY <1>1, <2>1, <2>5, Closes, AloneIs, RtFacts DEF RtTyped
  <2> QED
      BY <2>2, <2>3, <2>4, <2>5 DEF DefaultFirst
<1>4. CallerPlaces'
    BY <1>1, <1>2, <1>3, PlacesKept DEF AtProfile
<1>5. AloneDropsNone'
    BY <1>1, <1>2, <1>3, AloneKept
<1> QED
    BY <1>1, <1>3, <1>4, <1>5 DEF RtIInv, RtTyped, DelaysBounded, UnavailableIsNotDefault

LEMMA NextProfileKeeps == ASSUME RtIInv, NEW p \in Callers, NextProfile(p) PROVE RtIInv'
<1>1. UNCHANGED <<rtConf, handle, profile, asker, server, faults, lost>> /\ caller[p].pc = "loop"
    BY DEF NextProfile
<1>2. /\ p \in rtConf.callers /\ caller[p].op \in {"connect", "close", "health"}
      /\ caller[p].todo \subseteq ProfileNames
    BY <1>1, PlaceIs DEF RtOps
<1>3. CASE caller' = [caller EXCEPT ![p] = NoCaller]
  <2>1. /\ caller' \in [Callers -> RtCalls] /\ caller'[p].pc = "none" /\ caller'[p].op = "idle"
        /\ \A q \in Callers : q # p => caller'[q] = caller[q]
      BY <1>3, Ends DEF RtIInv
  <2>2. CallerPlaces'
      BY <1>1, <1>2, <2>1, PlacesKept DEF AtProfile
  <2>3. AloneDropsNone'
      BY <1>1, <1>2, <2>1, AloneIs, AloneKept
  <2> QED
      BY <1>1, <2>1, <2>2, <2>3 DEF RtIInv, RtTyped, DelaysBounded, UnavailableIsNotDefault
<1>4. ASSUME NEW n \in caller[p].todo, NEW pc \in AtProfile,
             caller[p].op = "connect" => pc = "open", caller[p].op # "connect" => pc \in {"close", "due", "ping"},
             caller' = [caller EXCEPT ![p].todo = @ \ {n}, ![p].cur = n, ![p].stale = FALSE, ![p].pc = pc]
      PROVE  RtIInv'
  <2> DEFINE c == [caller[p] EXCEPT !.todo = @ \ {n}, !.cur = n, !.stale = FALSE, !.pc = pc]
  <2>1. caller[p] \in RtCalls /\ n \in ProfileNames /\ n \in Handles /\ pc \in RtPlaces
      BY <1>2, <1>4, CallIs, RtFacts DEF RtIInv, AtProfile, RtPlaces
  <2>2. c \in RtCalls /\ c.op = caller[p].op /\ c.todo = caller[p].todo \ {n} /\ c.cur = n /\ c.pc = pc
      BY <2>1 DEF RtCalls
  <2>3. caller' = [caller EXCEPT ![p] = c]
      BY <1>4
  <2> HIDE DEF c
  <2>4. /\ caller' \in [Callers -> RtCalls] /\ caller'[p] = c
        /\ \A q \in Callers : q # p => caller'[q] = caller[q]
      BY <2>2, <2>3, CallMoves DEF RtIInv
  <2>5. CallerPlaces'
    <3>1. c.op = "connect" => c.pc = "open"
        BY <1>4, <2>2
    <3>2. c.op # "idle" /\ c.pc # "none"
        BY <1>2, <1>4, <2>2 DEF AtProfile
    <3> QED
        BY <1>1, <1>2, <2>1, <2>2, <2>4, <3>1, <3>2, PlacesKept
  <2>6. AloneDropsNone'
    <3>1. c.pc = "open" => c.op = "connect"
        BY <1>4, <2>2
    <3>2. c.pc # "default"
        BY <2>2, <1>4 DEF AtProfile
    <3> QED
        BY <1>1, <1>2, <1>4, <2>2, <2>4, <3>1, <3>2, AloneIs, AloneKept
  <2> QED
      BY <1>1, <2>4, <2>5, <2>6 DEF RtIInv, RtTyped, DelaysBounded, UnavailableIsNotDefault
<1>5. CASE \E n \in caller[p].todo :
             caller' = [caller EXCEPT ![p].todo = @ \ {n}, ![p].cur = n, ![p].stale = FALSE,
                 ![p].pc = CASE caller[p].op = "connect" -> "open"
                             [] caller[p].op = "close"   -> "close"
                             [] caller[p].op = "health"  -> IF profile[n].err THEN "due" ELSE "ping"]
  <2> PICK n \in caller[p].todo :
             caller' = [caller EXCEPT ![p].todo = @ \ {n}, ![p].cur = n, ![p].stale = FALSE,
                 ![p].pc = CASE caller[p].op = "connect" -> "open"
                             [] caller[p].op = "close"   -> "close"
                             [] caller[p].op = "health"  -> IF profile[n].err THEN "due" ELSE "ping"]
      BY <1>5
  <2> DEFINE pc == CASE caller[p].op = "connect" -> "open"
                     [] caller[p].op = "close"   -> "close"
                     [] caller[p].op = "health"  -> IF profile[n].err THEN "due" ELSE "ping"
  <2>1. /\ pc \in AtProfile
        /\ caller[p].op = "connect" => pc = "open"
        /\ caller[p].op # "connect" => pc \in {"close", "due", "ping"}
      BY <1>2 DEF AtProfile
  <2>2. caller' = [caller EXCEPT ![p].todo = @ \ {n}, ![p].cur = n, ![p].stale = FALSE, ![p].pc = pc]
      OBVIOUS
  <2> HIDE DEF pc
  <2> QED
      BY <1>4, <2>1, <2>2
<1> QED
    BY <1>3, <1>5 DEF NextProfile

LEMMA ClosesProfileKeeps ==
    ASSUME RtIInv, NEW p \in Callers, NEW pc \in {"loop", "open"}, caller[p].pc \in {"close", "reclose"},
           HandleClose(p, caller[p].cur, pc),
           UNCHANGED <<rtConf, profile, asker, server, faults, lost>>
    PROVE  RtIInv'
<1>1. /\ p \in rtConf.callers /\ caller[p].op \notin {"idle", "connect"}
      /\ caller[p].cur \in ProfileNames /\ caller[p].cur \in Handles
      /\ caller[p].cur \notin caller[p].todo
    BY PlaceIs, RtFacts DEF AtProfile
<1>2. /\ caller' \in [Callers -> RtCalls] /\ caller'[p].pc = pc
      /\ caller'[p].op = caller[p].op /\ caller'[p].todo = caller[p].todo /\ caller'[p].cur = caller[p].cur
      /\ \A q \in Callers : q # p =>
            /\ caller'[q].op = caller[q].op /\ caller'[q].pc = caller[q].pc
            /\ caller'[q].cur = caller[q].cur /\ caller'[q].todo = caller[q].todo
      /\ handle' \in [Handles -> {"nil", "open", "closed"}] /\ handle'[caller[p].cur] # "open"
    BY <1>1, Closes DEF RtIInv, RtPlaces
<1>3. CallerPlaces'
    BY <1>1, <1>2, PlacesKept
<1>4. AloneDropsNone'
    BY <1>1, <1>2, AloneIs, AloneKept
<1> QED
    BY <1>2, <1>3, <1>4 DEF RtIInv, RtTyped, DelaysBounded, UnavailableIsNotDefault

LEMMA OpensProfileKeeps == ASSUME RtIInv, NEW p \in Callers, OpensProfile(p) PROVE RtIInv'
<1> DEFINE n == caller[p].cur
<1>1. UNCHANGED <<rtConf, profile, asker, server, faults>> /\ caller[p].pc = "open"
    BY DEF OpensProfile
<1>2. /\ p \in rtConf.callers /\ caller[p].op # "idle" /\ n \in Handles /\ n \notin caller[p].todo
      /\ caller[p].todo \subseteq Handles
    BY <1>1, PlaceIs, RtFacts DEF AtProfile
<1>3. CASE HandleConnect(n) /\ Goto(p, "opened")
  <2>1. /\ caller' \in [Callers -> RtCalls] /\ caller'[p].pc = "opened"
        /\ caller'[p].op = caller[p].op /\ caller'[p].todo = caller[p].todo /\ caller'[p].cur = caller[p].cur
        /\ \A q \in Callers : q # p => caller'[q] = caller[q]
      BY <1>3, Goes DEF RtIInv, RtPlaces
  <2>2. /\ handle' \in [Handles -> {"nil", "open", "closed"}]
        /\ \A g \in Handles : g # n => handle'[g] = handle[g]
        /\ lost' \in BOOLEAN /\ (handle[n] # "open" /\ ~lost => ~lost')
      BY <1>2, <1>3, HandleOpens DEF RtIInv
  <2>3. CallerPlaces'
      BY <1>1, <1>2, <2>1, PlaceIs, PlacesKept DEF AtProfile
  <2>4. AloneDropsNone'
    <3>1. ASSUME rtConf.callers = {p}
          PROVE  ~lost' /\ (caller[p].op = "connect" => \A m \in caller[p].todo : handle'[m] = "nil")
        BY <1>1, <1>2, <2>2, <3>1, AloneIs
    <3> QED
        BY <1>1, <1>2, <2>1, <3>1, AloneKept
  <2> QED
      BY <1>1, <2>1, <2>2, <2>3, <2>4 DEF RtIInv, RtTyped, DelaysBounded, UnavailableIsNotDefault
<1>4. CASE Goto(p, "failed") /\ UNCHANGED <<handle, lost>>
  <2>1. caller' \in [Callers -> RtCalls] /\ CallerPlaces' /\ AloneDropsNone'
      BY <1>1, <1>4, QuietKeeps DEF AtProfile
  <2> QED
      BY <1>1, <1>4, <2>1 DEF RtIInv, RtTyped, DelaysBounded, UnavailableIsNotDefault
<1> QED
    BY <1>3, <1>4 DEF OpensProfile

LEMMA PingsOrDueKeeps == ASSUME RtIInv, NEW p \in Callers, Pings(p) \/ RetryDue(p) PROVE RtIInv'
<1>1. UNCHANGED <<rtConf, handle, profile, asker, server, faults, lost>> /\ caller[p].pc \in {"ping", "due"}
    BY DEF Pings, RetryDue
<1>2. PICK pc \in {"loop", "failed", "reclose"} : Goto(p, pc)
    BY DEF Pings, RetryDue
<1>3. caller[p].op # "connect" /\ caller[p].pc \in AtProfile
    BY <1>1, PlaceIs DEF AtProfile
<1>4. caller' \in [Callers -> RtCalls] /\ CallerPlaces' /\ AloneDropsNone'
    BY <1>1, <1>2, <1>3, QuietKeeps
<1> QED
    BY <1>1, <1>4 DEF RtIInv, RtTyped, DelaysBounded, UnavailableIsNotDefault

LEMMA DelayDoubles == ASSUME NEW d \in 0..MaxRetryDelay PROVE NextDelay(d) \in 1..MaxRetryDelay
BY RtBounds DEF NextDelay

\* The state of a profile, written with what came of opening it.
LEMMA MarksKeep ==
    ASSUME RtIInv, NEW p \in Callers, MarkAvailable(p) \/ MarkUnavailable(p)
    PROVE  RtIInv'
<1>1. /\ UNCHANGED <<rtConf, handle, asker, server, faults, lost>> /\ Goto(p, "loop")
      /\ caller[p].pc \in {"opened", "failed"}
    BY DEF MarkAvailable, MarkUnavailable
<1>2. caller[p].pc \in AtProfile /\ caller[p].cur \in ProfileNames
    BY <1>1, PlaceIs DEF AtProfile
<1>3. caller' \in [Callers -> RtCalls] /\ CallerPlaces' /\ AloneDropsNone'
    BY <1>1, <1>2, QuietKeeps
<1>4. PICK s \in RtProfiles :
          /\ profile' = [profile EXCEPT ![caller[p].cur] = s]
          /\ s.delay \in 0..MaxRetryDelay /\ s.wait \in 0..s.delay /\ (~s.err => s.delay = 0)
  <2>1. CASE MarkAvailable(p)
    <3> DEFINE s == [err |-> FALSE, wait |-> 0, delay |-> 0]
    <3>1. /\ s \in RtProfiles /\ s.delay \in 0..MaxRetryDelay /\ s.wait \in 0..s.delay /\ ~s.err /\ s.delay = 0
        BY RtBounds DEF RtProfiles
    <3>2. profile' = [profile EXCEPT ![caller[p].cur] = s]
        BY <2>1 DEF MarkAvailable
    <3> HIDE DEF s
    <3> QED
        BY <3>1, <3>2
  <2>2. CASE MarkUnavailable(p)
    <3> DEFINE d == NextDelay(profile[caller[p].cur].delay)
               s == [err |-> TRUE, wait |-> d, delay |-> d]
    <3>1. d \in 1..MaxRetryDelay
        BY <1>2, DelayDoubles DEF RtIInv, DelaysBounded
    <3>2. profile' = [profile EXCEPT ![caller[p].cur] = s]
        BY <2>2 DEF MarkUnavailable
    <3> HIDE DEF d
    <3>3. /\ s \in RtProfiles /\ s.delay \in 0..MaxRetryDelay /\ s.wait \in 0..s.delay /\ s.err
        BY <3>1, RtBounds DEF RtProfiles
    <3> HIDE DEF s
    <3> QED
        BY <3>2, <3>3
  <2> QED
      BY <2>1, <2>2
<1>5. /\ profile' \in [ProfileNames -> RtProfiles] /\ profile'[caller[p].cur] = s
      /\ \A n \in ProfileNames : n # caller[p].cur => profile'[n] = profile[n]
    BY <1>2, <1>4 DEF RtIInv, RtTyped
<1>6. DelaysBounded'
    BY <1>4, <1>5 DEF RtIInv, DelaysBounded
<1> QED
    BY <1>1, <1>3, <1>5, <1>6 DEF RtIInv, RtTyped, UnavailableIsNotDefault

LEMMA TimeKeeps == ASSUME RtIInv, TimePasses PROVE RtIInv'
<1>1. UNCHANGED <<rtConf, handle, caller, asker, server, faults, lost>>
    BY DEF TimePasses
<1>2. ASSUME NEW n \in ProfileNames
      PROVE  /\ profile'[n] \in RtProfiles /\ profile'[n].delay = profile[n].delay
             /\ profile'[n].err = profile[n].err /\ profile'[n].wait \in 0..profile[n].delay
  <2>1. profile[n] \in RtProfiles /\ profile[n].wait \in 0..profile[n].delay /\ profile[n].delay \in Nat
      BY DEF RtIInv, RtTyped, DelaysBounded
  <2>2. profile'[n] = [profile[n] EXCEPT !.wait = IF profile[n].wait > 0 THEN profile[n].wait - 1 ELSE 0]
      BY DEF TimePasses
  <2>3. (IF profile[n].wait > 0 THEN profile[n].wait - 1 ELSE 0) \in 0..profile[n].delay
      BY <2>1
  <2> QED
      BY <2>1, <2>2, <2>3 DEF RtProfiles
<1>3. profile' \in [ProfileNames -> RtProfiles]
  <2>1. profile' = [n \in ProfileNames |-> profile'[n]]
      BY DEF TimePasses
  <2> QED
      BY <1>2, <2>1
<1>4. DelaysBounded'
    BY <1>2 DEF RtIInv, DelaysBounded
<1> QED
    BY <1>1, <1>3, <1>4 DEF RtIInv, RtTyped, CallerPlaces, AloneDropsNone, UnavailableIsNotDefault

\* What a handle gives: the default's client is the default's only.
LEMMA HandleGives ==
    /\ \A h \in Handles : FromHandle(h) \in {"error", "default", "profile"}
    /\ \A n \in ProfileNames : FromHandle(n) # "default"
    /\ FromDefault \in {"error", "default", "profile"}
BY RtFacts DEF FromHandle, FromDefault

LEMMA AnswersKeep ==
    ASSUME RtIInv, NEW a \in Askers, NEW s \in RtAsks, asker' = [asker EXCEPT ![a] = s],
           s.res = "default" => s.name \notin ProfileNames,
           UNCHANGED <<rtConf, handle, profile, caller, server, faults, lost>>
    PROVE  RtIInv'
<1>1. /\ asker' \in [Askers -> RtAsks] /\ asker'[a] = s
      /\ \A b \in Askers : b # a => asker'[b] = asker[b]
    BY DEF RtIInv, RtTyped
<1>2. UnavailableIsNotDefault'
    BY <1>1 DEF RtIInv, UnavailableIsNotDefault
<1> QED
    BY <1>1, <1>2 DEF RtIInv, RtTyped, DelaysBounded, CallerPlaces, AloneDropsNone

LEMMA AskKeeps ==
    ASSUME RtIInv, NEW a \in Askers, NEW n \in ProfileNames \cup OtherNames \cup {Default}, Ask(a, n)
    PROVE  RtIInv'
<1> DEFINE s == IF n = Default THEN [name |-> n, pc |-> "done", res |-> FromDefault]
                ELSE IF Status(n) = "available" THEN [name |-> n, pc |-> "done", res |-> FromHandle(n)]
                ELSE [name |-> n, pc |-> "asking", res |-> "none"]
<1>1. asker' = [asker EXCEPT ![a] = s] /\ UNCHANGED <<rtConf, handle, profile, caller, server, faults, lost>>
    BY DEF Ask
<1>2. s \in RtAsks /\ (s.res = "default" => s.name \notin ProfileNames)
  <2>1. CASE n = Default
      BY <2>1, HandleGives, RtFacts DEF RtAsks
  <2>2. CASE n # Default /\ Status(n) = "available"
    <3>1. n \in ProfileNames /\ n \in Handles
        BY <2>2, RtFacts DEF Status
    <3> QED
        BY <2>2, <3>1, HandleGives DEF RtAsks
  <2>3. CASE n # Default /\ Status(n) # "available"
      BY <2>3 DEF RtAsks
  <2> QED
      BY <2>1, <2>2, <2>3
<1> HIDE DEF s
<1> QED
    BY <1>1, <1>2, AnswersKeep

LEMMA BindKeeps == ASSUME RtIInv, NEW a \in Askers, Bind(a) PROVE RtIInv'
<1> DEFINE res == IF Status(asker[a].name) = "missing" /\ rtConf.fallback THEN FromDefault ELSE "error"
           s == [asker[a] EXCEPT !.pc = "done", !.res = res]
<1>1. asker' = [asker EXCEPT ![a] = s] /\ UNCHANGED <<rtConf, handle, profile, caller, server, faults, lost>>
    BY DEF Bind
<1>2. /\ asker[a] \in RtAsks /\ res \in {"error", "default", "profile"}
      /\ res = "default" => asker[a].name \notin ProfileNames
    BY HandleGives DEF RtIInv, RtTyped, Status
<1> HIDE DEF res
<1>3. s \in RtAsks /\ (s.res = "default" => s.name \notin ProfileNames)
    BY <1>2 DEF RtAsks
<1> HIDE DEF s
<1> QED
    BY <1>1, <1>3, AnswersKeep

LEMMA ForgetKeeps == ASSUME RtIInv, NEW a \in Askers, Forget(a) PROVE RtIInv'
<1>1. NoAsker \in RtAsks /\ NoAsker.res # "default"
    BY DEF NoAsker, RtAsks
<1> QED
    BY <1>1, AnswersKeep DEF Forget

LEMMA RtEnvKeeps ==
    ASSUME RtIInv, (\E a \in RedisAddrs : ServerFails(a) \/ ServerReturns(a)) \/ UNCHANGED rtVars
    PROVE  RtIInv'
<1>1. UNCHANGED <<rtConf, handle, profile, caller, asker, lost>>
    BY DEF ServerFails, ServerReturns, rtVars
<1>2. server \in [RedisAddrs -> BOOLEAN] /\ faults \in 0..MaxFaults
    BY DEF RtIInv, RtTyped
<1>3. server' \in [RedisAddrs -> BOOLEAN]
    BY <1>2 DEF ServerFails, ServerReturns, rtVars
<1>4. faults' \in 0..MaxFaults
    BY <1>2, RtBounds DEF ServerFails, ServerReturns, rtVars
<1> QED
    BY <1>1, <1>3, <1>4 DEF RtIInv, RtTyped, DelaysBounded, CallerPlaces, AloneDropsNone, UnavailableIsNotDefault

LEMMA RtStep == RtIInv /\ [RuntimeNext]_rtVars => RtIInv'
<1> SUFFICES ASSUME RtIInv, RuntimeNext PROVE RtIInv'
    BY RtEnvKeeps
<1>1. ASSUME NEW p \in Callers, CallerStep(p) PROVE RtIInv'
  <2>1. CASE DefaultFirst(p)
      BY <2>1, DefaultFirstKeeps
  <2>2. CASE NextProfile(p)
      BY <2>2, NextProfileKeeps
  <2>3. CASE ClosesProfile(p)
      BY <2>3, ClosesProfileKeeps DEF ClosesProfile
  <2>4. CASE Pings(p) \/ RetryDue(p)
      BY <2>4, PingsOrDueKeeps
  <2>5. CASE Reconnect(p)
      BY <2>5, ClosesProfileKeeps DEF Reconnect
  <2>6. CASE OpensProfile(p)
      BY <2>6, OpensProfileKeeps
  <2>7. CASE MarkAvailable(p) \/ MarkUnavailable(p)
      BY <2>7, MarksKeep
  <2> QED
      BY <1>1, <2>1, <2>2, <2>3, <2>4, <2>5, <2>6, <2>7 DEF CallerStep
<1>2. ASSUME NEW p \in Callers, Connect(p) \/ Start(p, "health") \/ Start(p, "close") PROVE RtIInv'
    BY <1>2, StartKeeps DEF Connect
<1>3. ASSUME NEW a \in Askers, Bind(a) \/ Forget(a) \/ \E n \in ProfileNames \cup OtherNames \cup {Default} : Ask(a, n)
      PROVE  RtIInv'
    BY <1>3, AskKeeps, BindKeeps, ForgetKeeps
<1> QED
    BY <1>1, <1>2, <1>3, RtEnvKeeps, TimeKeeps DEF RuntimeNext

LEMMA RtInit == RuntimeInit => RtIInv
<1> SUFFICES ASSUME RuntimeInit PROVE RtIInv
    OBVIOUS
<1>1. [err |-> FALSE, wait |-> 0, delay |-> 0] \in RtProfiles
    BY DEF RtProfiles
<1>2. NoCaller \in RtCalls /\ NoCaller.op = "idle" /\ NoCaller.pc = "none" /\ NoCaller.todo = {}
    BY RtFacts DEF NoCaller, RtCalls, RtOps, RtPlaces
<1>3. NoAsker \in RtAsks /\ NoAsker.res = "none"
    BY DEF NoAsker, RtAsks
<1>4. RtTyped
  <2>1. faults \in 0..MaxFaults
      BY RtBounds DEF RuntimeInit
  <2> QED
      BY <1>1, <1>2, <1>3, <2>1 DEF RuntimeInit, RtTyped
<1>5. DelaysBounded
    BY RtBounds DEF RuntimeInit, DelaysBounded
<1>6. CallerPlaces /\ AloneDropsNone
    BY <1>2 DEF RuntimeInit, CallerPlaces, AloneDropsNone, AtProfile
<1>7. UnavailableIsNotDefault
    BY <1>3 DEF RuntimeInit, UnavailableIsNotDefault
<1> QED
    BY <1>4, <1>5, <1>6, <1>7 DEF RtIInv

\* A merged configuration has the servers of the profile's own.
LEMMA OwnMerged == ASSUME rtConf \in RuntimeConfs PROVE OwnServers
<1>1. ASSUME NEW n \in ProfileNames
      PROVE  LET own == rtConf.override[n]
             IN  /\ own.addrs # {} => Addresses(ConfigOf(n)) = own.addrs
                 /\ own.addrs = {} /\ own.host # "" /\ rtConf.base.addrs = {}
                    => Addresses(ConfigOf(n)) = {own.host}
                 /\ ConfigOf(n).db = own.db
    BY <1>1, RtFacts DEF ConfigOf, MergeConfig, Addresses
<1> QED
    BY <1>1 DEF OwnServers

\* No profile that is configured gets the default's client, one caller drops no
\* open client, retry delays stay within their bounds and profiles connect to
\* their own servers: for any profiles, callers, servers and delays.
THEOREM RuntimeHolds == RuntimeSpec => []RuntimeInv
<1>1. RtIInv => RuntimeInv
  <2> SUFFICES ASSUME RtIInv PROVE RuntimeInv
      OBVIOUS
  <2>1. RuntimeTypeOK
    <3>1. \A p \in Callers : caller[p].op \in {"idle", "connect", "health", "close"}
        BY CallIs DEF RtIInv, RtCalls, RtOps
    <3>2. \A a \in Askers : asker[a].pc \in {"idle", "asking", "done"}
        BY DEF RtIInv, RtTyped, RtAsks
    <3> QED
        BY <3>1, <3>2 DEF RtIInv, RtTyped, DelaysBounded, RuntimeTypeOK
  <2>2. NoneDropped
    <3> SUFFICES ASSUME Cardinality(rtConf.callers) = 1 PROVE ~lost
        BY DEF NoneDropped
    <3>1. rtConf.callers \subseteq Callers /\ IsFiniteSet(Callers)
      <4>1. IsFiniteSet(Callers)
          BY RuntimeConstants
      <4> QED
          BY <4>1, RtFacts DEF RtIInv, RtTyped
    <3>2. PICK p : rtConf.callers = {p}
        BY <3>1, FS_Subset, FS_Singleton
    <3> QED
        BY <3>1, <3>2 DEF RtIInv, AloneDropsNone
  <2>3. OwnServers
      BY OwnMerged DEF RtIInv, RtTyped
  <2> QED
      BY <2>1, <2>2, <2>3 DEF RtIInv, RuntimeInv
<1> QED
    BY <1>1, RtInit, RtStep, PTL DEF RuntimeSpec

-----------------------------------------------------------------------------
(* The logs of a request.                                                   *)

\* The text of ids, keys and names.
RqText ==
    Names \cup {NoID} \cup {Requests[r].trace : r \in Names} \cup {Requests[r].id : r \in Names}
        \cup {Requests[r].key : r \in Names}

RqFields == [trace : RqText, ids : Seq(RqText)]
RqContexts == [trace : RqText, id : RqText, logger : {<<>>} \cup {<<f>> : f \in RqFields}]
\* A request that has not come to its handler, and one whose records have not ended.
RqEarly == {"absent", "arrived", "gin"}
RqOpen == RqEarly \cup {"handler", "mongo", "returned"}
RqStates ==
    [pc : RqOpen \cup {"left", "done", "panicked"}, ctx : RqContexts,
     body : Nat, got : Int, logged : 0..MaxBodyBytes, wrapped : BOOLEAN,
     captured : 0..MaxBodyBytes, sent : Nat, status : Int, gin : {OK, NotFound, ServerError},
     header : {0, OK, NotFound, ServerError}, late : BOOLEAN, failed : SUBSET Int, ops : 0..MaxOps]

\* Fields, of a record or of a logger, that tell what request they are of.
Identifies(f, ctx) ==
    f.trace = ctx.trace /\ \E i \in DOMAIN f.ids : f.ids[i] = ctx.id

IsEnd(rec) == rec.by \in {"http", "tracing"} /\ rec.about[1] = "end"

\* Nothing has been read, written or wrapped before the handler runs.
NotBegun(r, st) ==
    st.pc \in RqEarly =>
        /\ st.header = 0 /\ st.status = OK /\ st.gin = Requests[r].preset /\ st.wrapped = FALSE
        /\ st.sent = 0 /\ st.captured = 0 /\ st.got = NotRead /\ st.body = Requests[r].body

\* A traced request has its ids before its first record, and every record has them.
RecordsIdentify(r, st, log) ==
    /\ st.pc \in {"absent", "arrived"} => log = {}
    /\ Requests[r].traced =>
          /\ st.pc \notin {"absent", "arrived"} => st.ctx.id # NoID
          /\ st.ctx.logger # <<>> => Identifies(st.ctx.logger[1], st.ctx)
          /\ \A rec \in log : rec.by # "InfofContext" => Identifies(rec, st.ctx)

BodyKept(r, st) ==
    Requests[r].body <= MaxBodyBytes =>
        IF st.got = NotRead THEN st.body = Requests[r].body ELSE st.got = Requests[r].body

PrefixCaptured(st) ==
    st.wrapped /\ LogResponseBody => st.captured = Least(st.sent, MaxBodyBytes)

\* While the handler runs the wrapper has the status that Gin will send or has
\* sent; the end records are written later and have it.
StatusKept(r, st, log) ==
    /\ st.pc \in {"handler", "mongo", "returned"} =>
          /\ st.header # 0 => st.header = st.gin
          /\ ~st.late /\ Requests[r].preset = OK /\ st.wrapped => st.status = st.gin
    /\ st.pc = "returned" => st.header # 0
    /\ st.pc \in RqOpen => \A rec \in log : ~IsEnd(rec)
    /\ ~st.late /\ Requests[r].preset = OK =>
          \A rec \in log : IsEnd(rec) => rec.about[2] = st.header

FailuresKept(st, log) ==
    GormLevel >= 2 =>
        \A i \in st.failed : \E rec \in log : rec.about = <<"op", i>> /\ rec.level = "error"

\* What holds of one request and its records.
RqHolds(r, st, log) ==
    /\ st \in RqStates
    /\ NotBegun(r, st) /\ RecordsIdentify(r, st, log) /\ BodyKept(r, st)
    /\ PrefixCaptured(st) /\ StatusKept(r, st, log) /\ FailuresKept(st, log)

RqTyped ==
    /\ DOMAIN rqReq = Names /\ DOMAIN rqLog = Names
    /\ rqCmd \in [MongoIDs -> {NoCommand} \cup [req : Names, name : {"find", "ping"}]]
    /\ rqCache \in [MongoIDs -> {<<>>} \cup {<<c>> : c \in RqContexts}]

\* The request of a command waits for that command only, and what is cached is
\* the context it waits with.
CommandWaits(id) ==
    rqCmd[id] # NoCommand =>
        /\ rqReq[rqCmd[id].req].pc = "mongo"
        /\ rqCache[id] # <<>> => rqCache[id][1] = rqReq[rqCmd[id].req].ctx
        /\ \A other \in MongoIDs : rqCmd[other].req = rqCmd[id].req => other = id

RqIInv ==
    /\ RqTyped /\ CacheIsInFlight
    /\ \A r \in Names : RqHolds(r, rqReq[r], rqLog[r])
    /\ \A id \in MongoIDs : CommandWaits(id)

LEMMA RqConstants ==
    /\ MaxBodyBytes \in Nat /\ MaxBodyBytes > 0 /\ GormLevel \in Nat /\ MaxOps \in Nat
    /\ Names \subseteq RqText /\ NoID \notin Names
    /\ \A r \in Names :
          /\ Requests[r].trace \in RqText /\ Requests[r].id \in RqText /\ Requests[r].key \in RqText
          /\ Requests[r].body \in Nat /\ Requests[r].preset \in {OK, NotFound}
          /\ Requests[r].traced \in BOOLEAN
<1>1. MaxBodyBytes \in Nat /\ MaxBodyBytes > 0
    BY RequestLogConstants
<1>2. GormLevel \in Nat /\ MaxOps \in Nat
    BY RequestLogConstants
<1>3. Names \subseteq RqText /\ NoID \notin Names
    BY RequestLogConstants DEF RqText
<1>4. ASSUME NEW r \in Names
      PROVE  /\ Requests[r].trace \in RqText /\ Requests[r].id \in RqText /\ Requests[r].key \in RqText
    BY DEF RqText
<1>5. ASSUME NEW r \in Names
      PROVE  /\ Requests[r].body \in Nat /\ Requests[r].preset \in {OK, NotFound}
    BY RequestLogConstants
<1>6. ASSUME NEW r \in Names
      PROVE  Requests[r].traced \in BOOLEAN
    BY RequestLogConstants
<1> QED
    BY <1>1, <1>2, <1>3, <1>4, <1>5, <1>6

\* Two logged ids: of the second one's place.
LEMMA IdIsSecond ==
    ASSUME NEW T, NEW a \in Seq(T), NEW b \in Seq(T), Len(a) = 1, Len(b) = 1
    PROVE  a \o b \in Seq(T) /\ Len(a \o b) = 2 /\ 2 \in DOMAIN (a \o b) /\ (a \o b)[2] = b[1]
<1>1. 2 \in 1..(Len(a) + Len(b)) /\ ~(2 <= Len(a)) /\ 2 - Len(a) = 1
    OBVIOUS
<1>2. (a \o b)[2] = IF 2 <= Len(a) THEN a[2] ELSE b[2 - Len(a)]
    BY <1>1, ConcatProperties, Zenon
<1>3. a \o b \in Seq(T) /\ Len(a \o b) = 2
    OBVIOUS
<1>4. 2 \in DOMAIN (a \o b)
    BY <1>3
<1> QED
    BY <1>1, <1>2, <1>3, <1>4

LEMMA FieldsIdentify ==
    ASSUME NEW ctx \in RqContexts, NEW s \in RqText
    PROVE  /\ TraceFields(ctx) \in RqFields
           /\ NewRequestLogger(ctx, s) \in RqFields
           /\ ctx.id # NoID =>
                 /\ Identifies(TraceFields(ctx), ctx)
                 /\ Identifies([TraceFields(ctx) EXCEPT !.ids = <<s>> \o @], ctx)
                 /\ Identifies(NewRequestLogger(ctx, s), ctx)
<1>1. ctx.trace \in RqText /\ ctx.id \in RqText
    BY DEF RqContexts
<1>2. PICK ids : ids = IF ctx.id = NoID THEN <<>> ELSE <<ctx.id>>
    OBVIOUS
<1>3. TraceFields(ctx) = [trace |-> ctx.trace, ids |-> ids]
    BY <1>2 DEF TraceFields
<1>4. PICK both : both = <<s>> \o ids
    OBVIOUS
<1>5. PICK more : more = Append(ids, s)
    OBVIOUS
<1>6. /\ ids \in Seq(RqText) /\ more \in Seq(RqText)
      /\ ctx.id # NoID => Len(ids) = 1 /\ ids[1] = ctx.id
  <2>1. CASE ctx.id = NoID
      BY <1>2, <1>5, <2>1
  <2>2. CASE ctx.id # NoID
    <3>1. PICK i : i = ctx.id /\ i \in RqText
        BY <1>1
    <3>2. ids = <<i>>
        BY <1>2, <2>2, <3>1
    <3>3. ids \in Seq(RqText) /\ Len(ids) = 1 /\ ids[1] = i
        BY <3>1, <3>2
    <3> QED
        BY <1>5, <3>1, <3>3
  <2> QED
      BY <2>1, <2>2
<1>7. ASSUME ctx.id # NoID
      PROVE  /\ 1 \in DOMAIN ids /\ ids[1] = ctx.id
             /\ 1 \in DOMAIN more /\ more[1] = ctx.id
             /\ 2 \in DOMAIN both /\ both[2] = ctx.id
  <2>1. <<s>> \in Seq(RqText) /\ Len(<<s>>) = 1
      OBVIOUS
  <2>2. 2 \in DOMAIN both /\ both[2] = ids[1]
      BY <1>4, <1>6, <1>7, <2>1, IdIsSecond
  <2>3. 1 \in DOMAIN ids
      BY <1>6, <1>7
  <2>4. 1 \in DOMAIN more /\ more[1] = ids[1]
      BY <1>5, <1>6, <1>7
  <2> QED
      BY <1>6, <1>7, <2>2, <2>3, <2>4
<1>8. PICK f : f = TraceFields(ctx)
    OBVIOUS
<1>9. /\ f.ids = ids /\ [f EXCEPT !.ids = more] = [trace |-> ctx.trace, ids |-> more]
      /\ [f EXCEPT !.ids = both] = [trace |-> ctx.trace, ids |-> both]
    BY <1>3, <1>8
<1>10. NewRequestLogger(ctx, s) = [trace |-> ctx.trace, ids |-> more]
    BY <1>5, <1>8, <1>9, Zenon DEF NewRequestLogger
<1>11. [TraceFields(ctx) EXCEPT !.ids = <<s>> \o @] = [trace |-> ctx.trace, ids |-> both]
    BY <1>4, <1>8, <1>9, Zenon
<1>12. TraceFields(ctx) \in RqFields /\ NewRequestLogger(ctx, s) \in RqFields
    BY <1>1, <1>3, <1>6, <1>10 DEF RqFields
<1>13. ASSUME ctx.id # NoID, NEW g, NEW n, g = [trace |-> ctx.trace, ids |-> n],
              NEW i \in DOMAIN n, n[i] = ctx.id
       PROVE  Identifies(g, ctx)
    BY <1>13 DEF Identifies
<1>14. ctx.id # NoID => Identifies(TraceFields(ctx), ctx) /\ Identifies(NewRequestLogger(ctx, s), ctx)
    BY <1>3, <1>7, <1>10, <1>13
<1>15. ctx.id # NoID => Identifies([TraceFields(ctx) EXCEPT !.ids = <<s>> \o @], ctx)
  <2>1. PICK g : g = [trace |-> ctx.trace, ids |-> both]
      OBVIOUS
  <2>2. ctx.id # NoID => Identifies(g, ctx)
      BY <1>7, <1>13, <2>1
  <2> QED
      BY <1>11, <2>1, <2>2, Zenon
<1> QED
    BY <1>12, <1>14, <1>15, Zenon

\* A step of one request that has no command under way.
LEMMA RqMoves ==
    ASSUME RqIInv, NEW r \in Names, rqReq[r].pc # "mongo", UNCHANGED <<rqCache, rqCmd>>,
           NEW st, NEW log,
           DOMAIN rqReq' = Names, DOMAIN rqLog' = Names,
           \A q \in Names : rqReq'[q] = IF q = r THEN st ELSE rqReq[q],
           \A q \in Names : rqLog'[q] = IF q = r THEN log ELSE rqLog[q],
           RqHolds(r, st, log)
    PROVE  RqIInv'
<1>1. RqTyped' /\ CacheIsInFlight'
    BY DEF RqIInv, RqTyped, CacheIsInFlight
<1>2. ASSUME NEW q \in Names PROVE RqHolds(q, rqReq'[q], rqLog'[q])
    BY DEF RqIInv
<1>3. ASSUME NEW id \in MongoIDs PROVE CommandWaits(id)'
  <2>1. SUFFICES ASSUME rqCmd[id] # NoCommand PROVE CommandWaits(id)'
      BY DEF CommandWaits
  <2>2. CommandWaits(id) /\ rqCmd[id].req \in Names
      BY <2>1 DEF RqIInv, RqTyped
  <2>3. rqReq'[rqCmd[id].req] = rqReq[rqCmd[id].req]
      BY <2>1, <2>2 DEF CommandWaits
  <2> QED
      BY <2>1, <2>2, <2>3 DEF CommandWaits
<1> QED
    BY <1>1, <1>2, <1>3 DEF RqIInv
\* What a record has of its fields, and what it keeps of one request.
LEMMA RecIs ==
    ASSUME NEW by, NEW level, NEW f, NEW about
    PROVE  /\ Rec(by, level, f, about).by = by /\ Rec(by, level, f, about).level = level
           /\ Rec(by, level, f, about).about = about
           /\ \A ctx : Identifies(Rec(by, level, f, about), ctx) <=> Identifies(f, ctx)
<1>1. PICK rec : rec = [by |-> by, level |-> level, trace |-> f.trace, ids |-> f.ids, about |-> about]
    OBVIOUS
<1>2. Rec(by, level, f, about) = rec
    BY <1>1 DEF Rec
<1> QED
    BY <1>1, <1>2 DEF Identifies

LEMMA TracingKeeps == ASSUME RqIInv, NEW r \in Names, Tracing(r) PROVE RqIInv'
<1>1. PICK s : s = rqReq[r]
    OBVIOUS
<1>2. PICK log : log = rqLog[r]
    OBVIOUS
<1>3. RqHolds(r, s, log) /\ s.pc = "arrived" /\ s \in RqStates /\ RqTyped
    BY <1>1, <1>2 DEF RqIInv, RqHolds, Tracing
<1>4. CASE ~Requests[r].traced
  <2>1. PICK t : t = [s EXCEPT !.pc = "gin"]
      OBVIOUS
  <2>2. rqReq' = [rqReq EXCEPT ![r] = t] /\ UNCHANGED <<rqLog, rqCache, rqCmd>>
      BY <1>1, <1>4, <2>1 DEF Tracing
  <2>3. /\ t \in RqStates /\ t.pc = "gin" /\ t.ctx = s.ctx /\ t.header = s.header /\ t.status = s.status
        /\ t.gin = s.gin /\ t.wrapped = s.wrapped /\ t.sent = s.sent /\ t.captured = s.captured
        /\ t.got = s.got /\ t.body = s.body /\ t.late = s.late /\ t.failed = s.failed
      BY <1>3, <2>1 DEF RqStates, RqOpen, RqEarly
  <2>4. RqHolds(r, t, log)
      BY <1>3, <1>4, <2>3 DEF RqHolds, NotBegun, RecordsIdentify, BodyKept, PrefixCaptured, StatusKept, FailuresKept, RqEarly, RqOpen
  <2> QED
      BY <1>1, <1>2, <1>3, <2>2, <2>4, RqMoves DEF RqTyped
<1>5. CASE Requests[r].traced
  <2>1. PICK trace : trace = IF Requests[r].trace = NoID THEN r ELSE Requests[r].trace
      OBVIOUS
  <2>2. PICK id : id = IF Requests[r].id = NoID THEN r ELSE Requests[r].id
      OBVIOUS
  <2>3. trace \in RqText /\ id \in RqText /\ id # NoID
      BY <2>1, <2>2, RqConstants
  <2>4. PICK ctx : ctx = WithTraceContext(NoContext, trace, id)
      OBVIOUS
  <2>5. ctx = [trace |-> trace, id |-> id, logger |-> <<>>]
      BY <2>3, <2>4 DEF WithTraceContext, NoContext
  <2>6. ctx \in RqContexts /\ ctx.id # NoID /\ ctx.logger = <<>>
      BY <2>3, <2>5 DEF RqContexts
  <2>7. PICK t : t = [s EXCEPT !.pc = "gin", !.ctx = ctx]
      OBVIOUS
  <2>8. PICK rec : rec = Rec("tracing", "info", TraceFields(ctx), <<"start">>)
      OBVIOUS
  <2>9. /\ rqReq' = [rqReq EXCEPT ![r] = t] /\ rqLog' = [rqLog EXCEPT ![r] = @ \cup {rec}]
        /\ UNCHANGED <<rqCache, rqCmd>>
      BY <1>1, <1>5, <2>1, <2>2, <2>4, <2>7, <2>8 DEF Tracing, Logged, NewID
  <2>10. /\ t \in RqStates /\ t.pc = "gin" /\ t.ctx = ctx /\ t.header = s.header /\ t.status = s.status
         /\ t.gin = s.gin /\ t.wrapped = s.wrapped /\ t.sent = s.sent /\ t.captured = s.captured
         /\ t.got = s.got /\ t.body = s.body /\ t.late = s.late /\ t.failed = s.failed
      BY <1>3, <2>6, <2>7 DEF RqStates, RqOpen, RqEarly
  <2>11. Identifies(rec, ctx) /\ rec.by = "tracing" /\ ~IsEnd(rec)
    <3>1. rec.about = <<"start">> /\ rec.by = "tracing"
        BY <2>8, RecIs
    <3>2. Identifies(TraceFields(ctx), ctx)
      <4>1. r \in RqText
          BY RqConstants
      <4> QED
          BY <2>6, <4>1, FieldsIdentify
    <3> QED
        BY <2>8, <3>1, <3>2, RecIs DEF IsEnd
  <2>12. RqHolds(r, t, log \cup {rec})
      BY <1>3, <1>5, <2>6, <2>10, <2>11 DEF RqHolds, NotBegun, RecordsIdentify, BodyKept, PrefixCaptured, StatusKept, FailuresKept, RqEarly, RqOpen
  <2> QED
      BY <1>1, <1>2, <1>3, <2>9, <2>12, RqMoves DEF RqTyped
<1> QED
    BY <1>4, <1>5

LEMMA ReadsBodyKeeps == ASSUME RqIInv, NEW r \in Names, ReadsBody(r) PROVE RqIInv'
<1>1. PICK s : s = rqReq[r]
    OBVIOUS
<1>2. PICK log : log = rqLog[r]
    OBVIOUS
<1>3. RqHolds(r, s, log) /\ s.pc = "handler" /\ s.ops < MaxOps /\ s \in RqStates /\ RqTyped
    BY <1>1, <1>2 DEF RqIInv, RqHolds, ReadsBody, InHandler
<1>a. PICK got, ops : got = (IF s.got = NotRead THEN s.body ELSE s.got) /\ ops = s.ops + 1
    OBVIOUS
<1>b. got \in Int /\ ops \in 0..MaxOps
    BY <1>3, <1>a, RqConstants DEF RqStates
<1>4. PICK t : t = [s EXCEPT !.got = got, !.body = 0, !.ops = ops]
    OBVIOUS
<1>5. rqReq' = [rqReq EXCEPT ![r] = t] /\ UNCHANGED <<rqLog, rqCache, rqCmd>>
    BY <1>1, <1>a, <1>4 DEF ReadsBody
<1>6. /\ t \in RqStates /\ t.pc = s.pc /\ t.got = got
      /\ t.ctx = s.ctx /\ t.logged = s.logged /\ t.wrapped = s.wrapped /\ t.captured = s.captured
      /\ t.sent = s.sent /\ t.status = s.status /\ t.gin = s.gin /\ t.header = s.header
      /\ t.late = s.late /\ t.failed = s.failed
    BY <1>3, <1>4, <1>b DEF RqStates
<1>7. t.got # NotRead
    BY <1>3, <1>a, <1>6 DEF RqStates, NotRead
<1>8. RqHolds(r, t, log)
    BY <1>3, <1>a, <1>6, <1>7 DEF RqHolds, NotBegun, RecordsIdentify, BodyKept, PrefixCaptured, StatusKept, FailuresKept, RqEarly, RqOpen
<1> QED
    BY <1>1, <1>2, <1>3, <1>5, <1>8, RqMoves DEF RqTyped

\* What the buffer holds is what was sent, up to its limit.
LEMMA CapturesAll ==
    ASSUME LogResponseBody, NEW sent \in Nat, NEW n \in Nat
    PROVE  Captured(Least(sent, MaxBodyBytes), n) = Least(sent + n, MaxBodyBytes)
BY RqConstants DEF Captured, Least

LEMMA CapturedTyped ==
    ASSUME NEW have \in 0..MaxBodyBytes, NEW n \in Nat PROVE Captured(have, n) \in 0..MaxBodyBytes
BY RqConstants DEF Captured, Least

LEMMA WritesKeeps == ASSUME RqIInv, NEW r \in Names, NEW n \in 1..2, Writes(r, n) PROVE RqIInv'
<1>1. PICK s : s = rqReq[r]
    OBVIOUS
<1>2. PICK log : log = rqLog[r]
    OBVIOUS
<1>3. RqHolds(r, s, log) /\ s.pc = "handler" /\ s.ops < MaxOps /\ s \in RqStates /\ RqTyped
    BY <1>1, <1>2 DEF RqIInv, RqHolds, Writes, InHandler
<1>4. PICK captured : captured = IF s.wrapped THEN Captured(s.captured, n) ELSE s.captured
    OBVIOUS
<1>5. captured \in 0..MaxBodyBytes
  <2>1. s.captured \in 0..MaxBodyBytes
      BY <1>3 DEF RqStates
  <2>2. Captured(s.captured, n) \in 0..MaxBodyBytes
    <3>1. n \in Nat
        OBVIOUS
    <3> QED
        BY <2>1, <3>1, CapturedTyped
  <2> QED
      BY <1>4, <2>1, <2>2
<1>a. PICK sent, ops, header :
          sent = s.sent + n /\ ops = s.ops + 1 /\ header = IF s.header = 0 THEN s.gin ELSE s.header
    OBVIOUS
<1>b. sent \in Nat /\ ops \in 0..MaxOps /\ header \in {0, OK, NotFound, ServerError}
    BY <1>3, <1>a, RqConstants DEF RqStates
<1>6. PICK t : t = [s EXCEPT !.captured = captured, !.sent = sent, !.ops = ops, !.header = header]
    OBVIOUS
<1>7. rqReq' = [rqReq EXCEPT ![r] = t] /\ UNCHANGED <<rqLog, rqCache, rqCmd>>
    BY <1>1, <1>3, <1>4, <1>a, <1>6 DEF Writes, RqStates
<1>8. /\ t \in RqStates /\ t.pc = s.pc /\ t.captured = captured /\ t.sent = sent /\ t.header = header
      /\ t.ctx = s.ctx /\ t.body = s.body /\ t.got = s.got /\ t.logged = s.logged /\ t.wrapped = s.wrapped
      /\ t.status = s.status /\ t.gin = s.gin /\ t.late = s.late /\ t.failed = s.failed
    BY <1>3, <1>5, <1>6, <1>b DEF RqStates
<1>9. t.wrapped /\ LogResponseBody => t.captured = Least(t.sent, MaxBodyBytes)
  <2>1. SUFFICES ASSUME t.wrapped, LogResponseBody PROVE t.captured = Least(t.sent, MaxBodyBytes)
      OBVIOUS
  <2>2. s.captured = Least(s.sent, MaxBodyBytes) /\ s.sent \in Nat
      BY <1>3, <1>8, <2>1 DEF RqHolds, PrefixCaptured, RqStates
  <2> QED
      BY <1>4, <1>a, <1>8, <2>1, <2>2, CapturesAll
<1>10. RqHolds(r, t, log)
    BY <1>3, <1>a, <1>8, <1>9 DEF RqHolds, NotBegun, RecordsIdentify, BodyKept, PrefixCaptured, StatusKept, FailuresKept, RqEarly, RqOpen
<1> QED
    BY <1>1, <1>2, <1>3, <1>7, <1>10, RqMoves DEF RqTyped

LEMMA WriteHeaderKeeps ==
    ASSUME RqIInv, NEW r \in Names, NEW code \in {OK, NotFound, ServerError}, WriteHeader(r, code)
    PROVE  RqIInv'
<1>1. PICK s : s = rqReq[r]
    OBVIOUS
<1>2. PICK log : log = rqLog[r]
    OBVIOUS
<1>3. RqHolds(r, s, log) /\ s.pc = "handler" /\ s.ops < MaxOps /\ s \in RqStates /\ RqTyped
    BY <1>1, <1>2 DEF RqIInv, RqHolds, WriteHeader, InHandler
<1>a. PICK status, ops, late, gin :
          /\ status = (IF s.wrapped THEN code ELSE s.status) /\ ops = s.ops + 1
          /\ late = (s.late \/ s.header # 0) /\ gin = IF s.header = 0 THEN code ELSE s.gin
    OBVIOUS
<1>b. /\ status \in Int /\ ops \in 0..MaxOps /\ gin \in {OK, NotFound, ServerError}
      /\ late \in BOOLEAN /\ (late <=> s.late \/ s.header # 0)
  <2>1. status \in Int /\ gin \in {OK, NotFound, ServerError}
      BY <1>3, <1>a DEF RqStates, OK, NotFound, ServerError
  <2>2. ops \in 0..MaxOps
      BY <1>3, <1>a, RqConstants DEF RqStates
  <2>3. late \in BOOLEAN /\ (late <=> s.late \/ s.header # 0)
      BY <1>3, <1>a DEF RqStates
  <2> QED
      BY <2>1, <2>2, <2>3
<1>4. PICK t : t = [s EXCEPT !.status = status, !.ops = ops, !.late = late, !.gin = gin]
    OBVIOUS
<1>5. rqReq' = [rqReq EXCEPT ![r] = t] /\ UNCHANGED <<rqLog, rqCache, rqCmd>>
    BY <1>1, <1>3, <1>a, <1>4 DEF WriteHeader, RqStates
<1>6. /\ t \in RqStates /\ t.pc = s.pc /\ t.status = status /\ t.late = late /\ t.gin = gin
      /\ t.ctx = s.ctx /\ t.body = s.body /\ t.got = s.got /\ t.logged = s.logged /\ t.wrapped = s.wrapped
      /\ t.captured = s.captured /\ t.sent = s.sent /\ t.header = s.header /\ t.failed = s.failed
    BY <1>3, <1>4, <1>b DEF RqStates
<1>7. RqHolds(r, t, log)
    BY <1>3, <1>a, <1>b, <1>6 DEF RqHolds, NotBegun, RecordsIdentify, BodyKept, PrefixCaptured, StatusKept, FailuresKept, RqEarly, RqOpen
<1> QED
    BY <1>1, <1>2, <1>3, <1>5, <1>7, RqMoves DEF RqTyped

LEMMA HandlerReturnsKeeps == ASSUME RqIInv, NEW r \in Names, Returns(r) PROVE RqIInv'
<1>1. PICK s : s = rqReq[r]
    OBVIOUS
<1>2. PICK log : log = rqLog[r]
    OBVIOUS
<1>3. RqHolds(r, s, log) /\ s.pc = "handler" /\ s \in RqStates /\ RqTyped
    BY <1>1, <1>2 DEF RqIInv, RqHolds, Returns
<1>4. PICK t : t = [s EXCEPT !.pc = "returned", !.header = IF @ = 0 THEN s.gin ELSE @]
    OBVIOUS
<1>5. rqReq' = [rqReq EXCEPT ![r] = t] /\ UNCHANGED <<rqLog, rqCache, rqCmd>>
    BY <1>1, <1>4 DEF Returns
<1>6. /\ t \in RqStates /\ t.pc = "returned" /\ t.header = IF s.header = 0 THEN s.gin ELSE s.header
      /\ t.ctx = s.ctx /\ t.body = s.body /\ t.got = s.got /\ t.logged = s.logged /\ t.wrapped = s.wrapped
      /\ t.captured = s.captured /\ t.sent = s.sent /\ t.status = s.status /\ t.gin = s.gin
      /\ t.late = s.late /\ t.failed = s.failed /\ t.ops = s.ops
    BY <1>3, <1>4 DEF RqStates, RqOpen
<1>7. t.header # 0
    BY <1>3, <1>6 DEF RqStates, OK, NotFound, ServerError
<1>8. RqHolds(r, t, log)
    BY <1>3, <1>6, <1>7 DEF RqHolds, NotBegun, RecordsIdentify, BodyKept, PrefixCaptured, StatusKept, FailuresKept, RqEarly, RqOpen
<1> QED
    BY <1>1, <1>2, <1>3, <1>5, <1>8, RqMoves DEF RqTyped

LEMMA PanicsKeeps == ASSUME RqIInv, NEW r \in Names, Panics(r) PROVE RqIInv'
<1>1. PICK s : s = rqReq[r]
    OBVIOUS
<1>2. PICK log : log = rqLog[r]
    OBVIOUS
<1>3. RqHolds(r, s, log) /\ s.pc = "handler" /\ s \in RqStates /\ RqTyped
    BY <1>1, <1>2 DEF RqIInv, RqHolds, Panics, InHandler
<1>4. PICK t : /\ \/ t = [s EXCEPT !.pc = "left", !.header = IF @ = 0 THEN ServerError ELSE @]
                  \/ t = [s EXCEPT !.pc = "panicked"]
               /\ rqReq' = [rqReq EXCEPT ![r] = t]
  <2>1. CASE rqReq' = [rqReq EXCEPT ![r].pc = "left", ![r].header = IF @ = 0 THEN ServerError ELSE @]
      BY <1>1, <2>1
  <2>2. CASE rqReq' = [rqReq EXCEPT ![r].pc = "panicked"]
      BY <1>1, <2>2
  <2> QED
      BY <2>1, <2>2 DEF Panics
<1>5. UNCHANGED <<rqLog, rqCache, rqCmd>>
    BY DEF Panics
<1>6. /\ t \in RqStates /\ t.pc \in {"left", "panicked"}
      /\ t.ctx = s.ctx /\ t.body = s.body /\ t.got = s.got /\ t.logged = s.logged /\ t.wrapped = s.wrapped
      /\ t.captured = s.captured /\ t.sent = s.sent /\ t.status = s.status /\ t.gin = s.gin
      /\ t.late = s.late /\ t.failed = s.failed /\ t.ops = s.ops
  <2> DEFINE header == IF s.header = 0 THEN ServerError ELSE s.header
  <2>1. header \in {0, OK, NotFound, ServerError} /\ s \in RqStates
      BY <1>3 DEF RqStates
  <2>2. CASE t = [s EXCEPT !.pc = "panicked"]
      BY <2>1, <2>2 DEF RqStates
  <2>3. CASE t = [s EXCEPT !.pc = "left", !.header = IF @ = 0 THEN ServerError ELSE @]
    <3>1. t = [s EXCEPT !.pc = "left", !.header = header]
        BY <2>3
    <3> HIDE DEF header
    <3> QED
        BY <2>1, <3>1 DEF RqStates
  <2> QED
      BY <1>4, <2>2, <2>3
<1>7. RqHolds(r, t, log)
    BY <1>3, <1>6 DEF RqHolds, NotBegun, RecordsIdentify, BodyKept, PrefixCaptured, StatusKept, FailuresKept, RqEarly, RqOpen
<1> QED
    BY <1>1, <1>2, <1>3, <1>4, <1>5, <1>7, RqMoves DEF RqTyped

\* readAndRestoreHTTPRequestBody leaves a small body as it was.
LEMMA Restored ==
    ASSUME NEW n \in Nat
    PROVE  /\ readAndRestore(n).logged \in 0..MaxBodyBytes /\ readAndRestore(n).left \in Nat
           /\ n <= MaxBodyBytes => readAndRestore(n).left = n
BY RqConstants DEF readAndRestore, Least

LEMMA HTTPLoggerStartsKeeps == ASSUME RqIInv, NEW r \in Names, HTTPLoggerStarts(r) PROVE RqIInv'
<1>1. PICK s : s = rqReq[r]
    OBVIOUS
<1>2. PICK log : log = rqLog[r]
    OBVIOUS
<1>3. RqHolds(r, s, log) /\ s.pc = "gin" /\ s \in RqStates /\ RqTyped /\ s.ctx \in RqContexts
    BY <1>1, <1>2 DEF RqIInv, RqHolds, HTTPLoggerStarts, RqStates
<1>4. CASE Requests[r].path \in SkipPaths
  <2>1. PICK t : t = [s EXCEPT !.pc = "handler"]
      OBVIOUS
  <2>2. rqReq' = [rqReq EXCEPT ![r] = t] /\ UNCHANGED <<rqLog, rqCache, rqCmd>>
      BY <1>1, <1>4, <2>1 DEF HTTPLoggerStarts
  <2>3. /\ t \in RqStates /\ t.pc = "handler"
        /\ t.ctx = s.ctx /\ t.body = s.body /\ t.got = s.got /\ t.logged = s.logged /\ t.wrapped = s.wrapped
        /\ t.captured = s.captured /\ t.sent = s.sent /\ t.status = s.status /\ t.gin = s.gin
        /\ t.header = s.header /\ t.late = s.late /\ t.failed = s.failed /\ t.ops = s.ops
      BY <1>3, <2>1 DEF RqStates, RqOpen
  <2>4. RqHolds(r, t, log)
      BY <1>3, <2>3 DEF RqHolds, NotBegun, RecordsIdentify, BodyKept, PrefixCaptured, StatusKept, FailuresKept, RqEarly, RqOpen
  <2> QED
      BY <1>1, <1>2, <1>3, <2>2, <2>4, RqMoves DEF RqTyped
<1>5. CASE Requests[r].path \notin SkipPaths
  <2>1. PICK key : key = Requests[r].key
      OBVIOUS
  <2>2. key \in RqText
      BY <2>1, RqConstants
  <2>3. PICK logger : logger = NewRequestLogger(s.ctx, key)
      OBVIOUS
  <2>4. PICK ctx : ctx = [s.ctx EXCEPT !.logger = <<logger>>]
      OBVIOUS
  <2>5. ctx \in RqContexts /\ ctx.trace = s.ctx.trace /\ ctx.id = s.ctx.id /\ ctx.logger[1] = logger
    <3>1. logger \in RqFields
        BY <1>3, <2>2, <2>3, FieldsIdentify
    <3> QED
        BY <1>3, <2>4, <3>1 DEF RqContexts
  <2>6. PICK body : body = IF LogRequestBody THEN readAndRestore(Requests[r].body)
                           ELSE [logged |-> 0, left |-> Requests[r].body]
      OBVIOUS
  <2>7. /\ body.logged \in 0..MaxBodyBytes /\ body.left \in Nat
        /\ Requests[r].body <= MaxBodyBytes => body.left = Requests[r].body
      BY <2>6, Restored, RqConstants
  <2>8. PICK logged, left : logged = body.logged /\ left = body.left
      OBVIOUS
  <2>9. PICK t : t = [s EXCEPT !.pc = "handler", !.ctx = ctx, !.body = left, !.logged = logged, !.wrapped = TRUE]
      OBVIOUS
  <2>10. PICK fields : fields = [TraceFields(ctx) EXCEPT !.ids = <<key>> \o @]
      OBVIOUS
  <2>11. PICK rec : rec = Rec("http", "info", fields, <<"start">>)
      OBVIOUS
  <2>12. /\ rqReq' = [rqReq EXCEPT ![r] = t] /\ rqLog' = [rqLog EXCEPT ![r] = @ \cup {rec}]
         /\ UNCHANGED <<rqCache, rqCmd>>
    <3>1. /\ rqReq' = [rqReq EXCEPT ![r].pc = "handler", ![r].ctx = ctx, ![r].body = body.left,
                                   ![r].logged = body.logged, ![r].wrapped = TRUE]
          /\ Logged(r, rec) /\ UNCHANGED <<rqCache, rqCmd>>
        BY <1>1, <1>5, <2>1, <2>3, <2>4, <2>6, <2>10, <2>11, Zenon DEF HTTPLoggerStarts
    <3> QED
        BY <1>1, <1>3, <2>8, <2>9, <3>1 DEF Logged
  <2>13. /\ t \in RqStates /\ t.pc = "handler" /\ t.ctx = ctx /\ t.body = left /\ t.logged = logged /\ t.wrapped = TRUE
         /\ t.got = s.got /\ t.captured = s.captured /\ t.sent = s.sent /\ t.status = s.status
         /\ t.gin = s.gin /\ t.header = s.header /\ t.late = s.late /\ t.failed = s.failed
         /\ t.ops = s.ops
      BY <1>3, <2>5, <2>7, <2>8, <2>9 DEF RqStates, RqOpen
  <2>14. /\ rec.by = "http" /\ ~IsEnd(rec)
         /\ ctx.id # NoID => Identifies(rec, ctx) /\ Identifies(logger, ctx)
    <3>1. rec.about = <<"start">> /\ rec.by = "http"
        BY <2>11, RecIs
    <3>2. ctx.id # NoID => Identifies(fields, ctx) /\ Identifies(logger, s.ctx)
        BY <1>3, <2>2, <2>3, <2>5, <2>10, FieldsIdentify
    <3>3. ctx.id # NoID => Identifies(rec, ctx)
        BY <2>11, <3>2, RecIs
    <3> QED
        BY <2>5, <3>1, <3>2, <3>3 DEF IsEnd, Identifies
  <2>15. \A other \in log : Identifies(other, s.ctx) <=> Identifies(other, ctx)
      BY <2>5 DEF Identifies
  <2>16. t.captured = Least(t.sent, MaxBodyBytes)
      BY <1>3, <2>13, RqConstants DEF RqHolds, NotBegun, RqEarly, Least
  <2>17. RqHolds(r, t, log \cup {rec})
    <3>1. NotBegun(r, t)
        BY <1>3, <2>5, <2>7, <2>8, <2>13, <2>14, <2>15, <2>16 DEF RqHolds, NotBegun, RqEarly
    <3>2. RecordsIdentify(r, t, log \cup {rec})
        BY <1>3, <2>5, <2>7, <2>8, <2>13, <2>14, <2>15, <2>16 DEF RqHolds, RecordsIdentify
    <3>3. BodyKept(r, t)
        BY <1>3, <2>5, <2>7, <2>8, <2>13, <2>14, <2>15, <2>16 DEF RqHolds, BodyKept
    <3>4. PrefixCaptured(t)
        BY <1>3, <2>5, <2>7, <2>8, <2>13, <2>14, <2>15, <2>16 DEF RqHolds, PrefixCaptured
    <3>5. StatusKept(r, t, log \cup {rec})
        BY <1>3, <2>5, <2>7, <2>8, <2>13, <2>14, <2>15, <2>16 DEF RqHolds, NotBegun, StatusKept, RqOpen, RqEarly
    <3>6. FailuresKept(t, log \cup {rec})
        BY <1>3, <2>5, <2>7, <2>8, <2>13, <2>14, <2>15, <2>16 DEF RqHolds, FailuresKept
    <3> QED
        BY <1>3, <2>5, <2>7, <2>8, <2>13, <2>14, <2>15, <2>16, <3>1, <3>2, <3>3, <3>4, <3>5, <3>6 DEF RqHolds
  <2> QED
      BY <1>1, <1>2, <1>3, <2>12, <2>17, RqMoves DEF RqTyped
<1> QED
    BY <1>4, <1>5

LEMMA HTTPLoggerEndsKeeps == ASSUME RqIInv, NEW r \in Names, HTTPLoggerEnds(r) PROVE RqIInv'
<1>1. PICK s : s = rqReq[r]
    OBVIOUS
<1>2. PICK log : log = rqLog[r]
    OBVIOUS
<1>3. RqHolds(r, s, log) /\ s.pc = "returned" /\ s \in RqStates /\ RqTyped /\ s.ctx \in RqContexts
    BY <1>1, <1>2 DEF RqIInv, RqHolds, HTTPLoggerEnds, RqStates
<1>4. PICK t : t = [s EXCEPT !.pc = "left"]
    OBVIOUS
<1>5. rqReq' = [rqReq EXCEPT ![r] = t] /\ UNCHANGED <<rqCache, rqCmd>>
    BY <1>1, <1>4 DEF HTTPLoggerEnds
<1>6. /\ t \in RqStates /\ t.pc = "left"
      /\ t.ctx = s.ctx /\ t.body = s.body /\ t.got = s.got /\ t.logged = s.logged /\ t.wrapped = s.wrapped
      /\ t.captured = s.captured /\ t.sent = s.sent /\ t.status = s.status /\ t.gin = s.gin
      /\ t.header = s.header /\ t.late = s.late /\ t.failed = s.failed /\ t.ops = s.ops
    BY <1>3, <1>4 DEF RqStates
<1>7. CASE ~s.wrapped
  <2>1. UNCHANGED rqLog
      BY <1>1, <1>7 DEF HTTPLoggerEnds
  <2>2. RqHolds(r, t, log)
      BY <1>3, <1>6 DEF RqHolds, NotBegun, RecordsIdentify, BodyKept, PrefixCaptured, StatusKept, FailuresKept, RqEarly, RqOpen
  <2> QED
      BY <1>1, <1>2, <1>3, <1>5, <2>1, <2>2, RqMoves DEF RqTyped
<1>8. CASE s.wrapped
  <2>1. PICK key : key = Requests[r].key
      OBVIOUS
  <2>2. key \in RqText
      BY <2>1, RqConstants
  <2>3. PICK fields : fields = [TraceFields(s.ctx) EXCEPT !.ids = <<key>> \o @]
      OBVIOUS
  <2>4. PICK rec : rec = Rec("http", HTTPLevel(s.status), fields, <<"end", s.status, s.logged, s.captured>>)
      OBVIOUS
  <2>5. rqLog' = [rqLog EXCEPT ![r] = @ \cup {rec}]
      BY <1>1, <1>8, <2>1, <2>3, <2>4, Zenon DEF HTTPLoggerEnds, Logged
  <2>6. rec.by = "http" /\ rec.about[2] = s.status
    <3>1. rec.about = <<"end", s.status, s.logged, s.captured>> /\ rec.by = "http"
        BY <2>4, RecIs
    <3> QED
        BY <3>1
  <2>7. s.ctx.id # NoID => Identifies(rec, s.ctx)
    <3>1. s.ctx.id # NoID => Identifies(fields, s.ctx)
        BY <1>3, <2>2, <2>3, FieldsIdentify
    <3> QED
        BY <2>4, <3>1, RecIs
  <2>8. ~s.late /\ Requests[r].preset = OK => s.status = s.header
      BY <1>3, <1>8 DEF RqHolds, StatusKept
  <2>9. RqHolds(r, t, log \cup {rec})
    <3>1. NotBegun(r, t)
        BY <1>3, <1>6, <2>6, <2>7, <2>8 DEF RqHolds, NotBegun, RqEarly
    <3>2. RecordsIdentify(r, t, log \cup {rec})
        BY <1>3, <1>6, <2>6, <2>7, <2>8 DEF RqHolds, RecordsIdentify
    <3>3. BodyKept(r, t)
        BY <1>3, <1>6, <2>6, <2>7, <2>8 DEF RqHolds, BodyKept
    <3>4. PrefixCaptured(t)
        BY <1>3, <1>6, <2>6, <2>7, <2>8 DEF RqHolds, PrefixCaptured
    <3>5. StatusKept(r, t, log \cup {rec})
        BY <1>3, <1>6, <2>6, <2>7, <2>8 DEF RqHolds, StatusKept, RqOpen, RqEarly
    <3>6. FailuresKept(t, log \cup {rec})
        BY <1>3, <1>6, <2>6, <2>7, <2>8 DEF RqHolds, FailuresKept
    <3> QED
        BY <1>3, <1>6, <2>6, <2>7, <2>8, <3>1, <3>2, <3>3, <3>4, <3>5, <3>6 DEF RqHolds
  <2> QED
      BY <1>1, <1>2, <1>3, <1>5, <2>5, <2>9, RqMoves DEF RqTyped
<1> QED
    BY <1>7, <1>8

LEMMA TracingEndsKeeps == ASSUME RqIInv, NEW r \in Names, TracingEnds(r) PROVE RqIInv'
<1>1. PICK s : s = rqReq[r]
    OBVIOUS
<1>2. PICK log : log = rqLog[r]
    OBVIOUS
<1>3. RqHolds(r, s, log) /\ s.pc = "left" /\ s \in RqStates /\ RqTyped /\ s.ctx \in RqContexts
    BY <1>1, <1>2 DEF RqIInv, RqHolds, TracingEnds, RqStates
<1>4. PICK t : t = [s EXCEPT !.pc = "done"]
    OBVIOUS
<1>5. rqReq' = [rqReq EXCEPT ![r] = t] /\ UNCHANGED <<rqCache, rqCmd>>
    BY <1>1, <1>4 DEF TracingEnds
<1>6. /\ t \in RqStates /\ t.pc = "done"
      /\ t.ctx = s.ctx /\ t.body = s.body /\ t.got = s.got /\ t.logged = s.logged /\ t.wrapped = s.wrapped
      /\ t.captured = s.captured /\ t.sent = s.sent /\ t.status = s.status /\ t.gin = s.gin
      /\ t.header = s.header /\ t.late = s.late /\ t.failed = s.failed /\ t.ops = s.ops
    BY <1>3, <1>4 DEF RqStates
<1>7. CASE ~Requests[r].traced
  <2>1. UNCHANGED rqLog
      BY <1>1, <1>7 DEF TracingEnds
  <2>2. RqHolds(r, t, log)
      BY <1>3, <1>6 DEF RqHolds, NotBegun, RecordsIdentify, BodyKept, PrefixCaptured, StatusKept, FailuresKept, RqEarly, RqOpen
  <2> QED
      BY <1>1, <1>2, <1>3, <1>5, <2>1, <2>2, RqMoves DEF RqTyped
<1>8. CASE Requests[r].traced
  <2>1. PICK rec : rec = Rec("tracing", "info", TraceFields(s.ctx), <<"end", s.header>>)
      OBVIOUS
  <2>2. rqLog' = [rqLog EXCEPT ![r] = @ \cup {rec}]
      BY <1>1, <1>8, <2>1, Zenon DEF TracingEnds, Logged
  <2>3. rec.by = "tracing" /\ rec.about[2] = s.header
    <3>1. rec.about = <<"end", s.header>> /\ rec.by = "tracing"
        BY <2>1, RecIs
    <3> QED
        BY <3>1
  <2>4. s.ctx.id # NoID => Identifies(rec, s.ctx)
    <3>1. NoID \in RqText
        BY DEF RqText
    <3>2. QED
      <4>1. s.ctx.id # NoID => Identifies(TraceFields(s.ctx), s.ctx)
          BY <1>3, <3>1, FieldsIdentify
      <4> QED
          BY <2>1, <4>1, RecIs
  <2>5. RqHolds(r, t, log \cup {rec})
    <3>1. NotBegun(r, t)
        BY <1>3, <1>6, <2>3, <2>4 DEF RqHolds, NotBegun, RqEarly
    <3>2. RecordsIdentify(r, t, log \cup {rec})
        BY <1>3, <1>6, <2>3, <2>4 DEF RqHolds, RecordsIdentify
    <3>3. BodyKept(r, t)
        BY <1>3, <1>6, <2>3, <2>4 DEF RqHolds, BodyKept
    <3>4. PrefixCaptured(t)
        BY <1>3, <1>6, <2>3, <2>4 DEF RqHolds, PrefixCaptured
    <3>5. StatusKept(r, t, log \cup {rec})
        BY <1>3, <1>6, <2>3, <2>4 DEF RqHolds, StatusKept, RqOpen, RqEarly
    <3>6. FailuresKept(t, log \cup {rec})
        BY <1>3, <1>6, <2>3, <2>4 DEF RqHolds, FailuresKept
    <3> QED
        BY <1>3, <1>6, <2>3, <2>4, <3>1, <3>2, <3>3, <3>4, <3>5, <3>6 DEF RqHolds
  <2> QED
      BY <1>1, <1>2, <1>3, <1>5, <2>2, <2>5, RqMoves DEF RqTyped
<1> QED
    BY <1>7, <1>8

LEMMA SaysKeeps ==
    ASSUME RqIInv, NEW r \in Names, NEW how \in {"L", "InfoContext", "InfofContext"}, Says(r, how)
    PROVE  RqIInv'
<1>1. PICK s : s = rqReq[r]
    OBVIOUS
<1>2. PICK log : log = rqLog[r]
    OBVIOUS
<1>3. RqHolds(r, s, log) /\ s.pc = "handler" /\ s.ops < MaxOps /\ s \in RqStates /\ RqTyped /\ s.ctx \in RqContexts
    BY <1>1, <1>2 DEF RqIInv, RqHolds, Says, InHandler, RqStates
<1>4. PICK ops : ops = s.ops + 1
    OBVIOUS
<1>5. ops \in 0..MaxOps
    BY <1>3, <1>4, RqConstants DEF RqStates
<1>6. PICK t : t = [s EXCEPT !.ops = ops]
    OBVIOUS
<1>7. PICK fields : fields = CASE how = "L" -> L(s.ctx)
                               [] how = "InfoContext" -> TraceFields(s.ctx)
                               [] how = "InfofContext" -> TraceFields(NoContext)
    OBVIOUS
<1>8. PICK rec : rec = Rec(how, "info", fields, <<"op", ops>>)
    OBVIOUS
<1>9. /\ rqReq' = [rqReq EXCEPT ![r] = t] /\ UNCHANGED <<rqCache, rqCmd>>
    BY <1>1, <1>4, <1>6 DEF Says
<1>10. rqLog' = [rqLog EXCEPT ![r] = @ \cup {rec}]
    BY <1>1, <1>4, <1>7, <1>8, Zenon DEF Says, Logged
<1>11. /\ t \in RqStates /\ t.pc = s.pc
       /\ t.ctx = s.ctx /\ t.body = s.body /\ t.got = s.got /\ t.logged = s.logged /\ t.wrapped = s.wrapped
       /\ t.captured = s.captured /\ t.sent = s.sent /\ t.status = s.status /\ t.gin = s.gin
       /\ t.header = s.header /\ t.late = s.late /\ t.failed = s.failed
    BY <1>3, <1>5, <1>6 DEF RqStates
<1>12. rec.by = how /\ ~IsEnd(rec)
    BY <1>8, RecIs DEF IsEnd
<1>13. Requests[r].traced /\ rec.by # "InfofContext" => Identifies(rec, s.ctx)
  <2>1. SUFFICES ASSUME Requests[r].traced, how # "InfofContext" PROVE Identifies(fields, s.ctx)
      BY <1>8, <1>12, RecIs
  <2>2. s.ctx.id # NoID /\ (s.ctx.logger # <<>> => Identifies(s.ctx.logger[1], s.ctx))
      BY <1>3, <2>1 DEF RqHolds, RecordsIdentify
  <2>3. Identifies(TraceFields(s.ctx), s.ctx)
    <3>1. NoID \in RqText
        BY DEF RqText
    <3> QED
        BY <1>3, <2>2, <3>1, FieldsIdentify
  <2>4. fields = L(s.ctx) \/ fields = TraceFields(s.ctx)
      BY <1>7, <2>1
  <2> QED
      BY <2>2, <2>3, <2>4 DEF L
<1>14. RqHolds(r, t, log \cup {rec})
  <2>1. NotBegun(r, t)
      BY <1>3, <1>11, <1>12, <1>13 DEF RqHolds, NotBegun, RqEarly
  <2>2. RecordsIdentify(r, t, log \cup {rec})
      BY <1>3, <1>11, <1>12, <1>13 DEF RqHolds, RecordsIdentify
  <2>3. BodyKept(r, t)
      BY <1>3, <1>11, <1>12, <1>13 DEF RqHolds, BodyKept
  <2>4. PrefixCaptured(t)
      BY <1>3, <1>11, <1>12, <1>13 DEF RqHolds, PrefixCaptured
  <2>5. StatusKept(r, t, log \cup {rec})
      BY <1>3, <1>11, <1>12, <1>13 DEF RqHolds, StatusKept, RqOpen, RqEarly
  <2>6. FailuresKept(t, log \cup {rec})
      BY <1>3, <1>11, <1>12, <1>13 DEF RqHolds, FailuresKept
  <2> QED
      BY <1>3, <1>11, <1>12, <1>13, <2>1, <2>2, <2>3, <2>4, <2>5, <2>6 DEF RqHolds
<1> QED
    BY <1>1, <1>2, <1>3, <1>9, <1>10, <1>14, RqMoves DEF RqTyped

\* The hooks log every failure as an error, gormLogger from LogLevel 2 on.
LEMMA FailureLevel ==
    ASSUME GormLevel >= 2, NEW took \in BOOLEAN
    PROVE  GormTrace("error", took) = "error" /\ HookLevel("error", took) = "error"
BY DEF GormTrace, HookLevel

LEMMA QueriesKeeps ==
    ASSUME RqIInv, NEW r \in Names, NEW what \in {"redis", "pipeline", "sql"},
           NEW outcome \in {"ok", "nil", "error"}, NEW took \in BOOLEAN, Queries(r, what, outcome, took)
    PROVE  RqIInv'
<1>1. PICK s : s = rqReq[r]
    OBVIOUS
<1>2. PICK log : log = rqLog[r]
    OBVIOUS
<1>3. RqHolds(r, s, log) /\ s.pc = "handler" /\ s.ops < MaxOps /\ s \in RqStates /\ RqTyped /\ s.ctx \in RqContexts
    BY <1>1, <1>2 DEF RqIInv, RqHolds, Queries, InHandler, RqStates
<1>4. PICK ops, failed : ops = s.ops + 1 /\ failed = IF outcome = "error" THEN s.failed \cup {ops} ELSE s.failed
    OBVIOUS
<1>5. ops \in 0..MaxOps /\ failed \in SUBSET Int
    BY <1>3, <1>4, RqConstants DEF RqStates
<1>6. PICK t : t = [s EXCEPT !.ops = ops, !.failed = failed]
    OBVIOUS
<1>7. PICK seen : seen = IF what = "pipeline" /\ outcome = "nil" THEN "error" ELSE outcome
    OBVIOUS
<1>8. PICK level : level = IF what = "sql" THEN GormTrace(seen, took) ELSE HookLevel(seen, took)
    OBVIOUS
<1>9. PICK rec : rec = Rec(what, level, TraceFields(s.ctx), <<"op", ops>>)
    OBVIOUS
<1>10. rqReq' = [rqReq EXCEPT ![r] = t] /\ UNCHANGED <<rqCache, rqCmd>>
    BY <1>1, <1>3, <1>4, <1>6 DEF Queries, RqStates
<1>11. IF level = "none" THEN UNCHANGED rqLog ELSE rqLog' = [rqLog EXCEPT ![r] = @ \cup {rec}]
    BY <1>1, <1>4, <1>7, <1>8, <1>9, Zenon DEF Queries, Logged
<1>12. /\ t \in RqStates /\ t.pc = s.pc /\ t.failed = failed
       /\ t.ctx = s.ctx /\ t.body = s.body /\ t.got = s.got /\ t.logged = s.logged /\ t.wrapped = s.wrapped
       /\ t.captured = s.captured /\ t.sent = s.sent /\ t.status = s.status /\ t.gin = s.gin
       /\ t.header = s.header /\ t.late = s.late
    BY <1>3, <1>5, <1>6 DEF RqStates
<1>13. rec.by = what /\ ~IsEnd(rec) /\ rec.about = <<"op", ops>> /\ rec.level = level
    BY <1>9, RecIs DEF IsEnd
<1>14. s.ctx.id # NoID => Identifies(rec, s.ctx)
  <2>1. NoID \in RqText
      BY DEF RqText
  <2>2. s.ctx.id # NoID => Identifies(TraceFields(s.ctx), s.ctx)
      BY <1>3, <2>1, FieldsIdentify
  <2> QED
      BY <1>9, <2>2, RecIs
<1>15. GormLevel >= 2 /\ outcome = "error" => level = "error"
  <2>1. SUFFICES ASSUME GormLevel >= 2, outcome = "error" PROVE level = "error"
      OBVIOUS
  <2>2. seen = "error"
      BY <1>7, <2>1
  <2> QED
      BY <1>8, <2>1, <2>2, FailureLevel
<1>16. CASE level = "none"
  <2>1. GormLevel >= 2 => failed = s.failed
      BY <1>4, <1>15, <1>16
  <2>2. RqHolds(r, t, log)
    <3>1. NotBegun(r, t)
        BY <1>3, <1>12, <2>1 DEF RqHolds, NotBegun, RqEarly
    <3>2. RecordsIdentify(r, t, log)
        BY <1>3, <1>12, <2>1 DEF RqHolds, RecordsIdentify
    <3>3. BodyKept(r, t)
        BY <1>3, <1>12, <2>1 DEF RqHolds, BodyKept
    <3>4. PrefixCaptured(t)
        BY <1>3, <1>12, <2>1 DEF RqHolds, PrefixCaptured
    <3>5. StatusKept(r, t, log)
        BY <1>3, <1>12, <2>1 DEF RqHolds, StatusKept, RqOpen, RqEarly
    <3>6. FailuresKept(t, log)
        BY <1>3, <1>12, <2>1 DEF RqHolds, FailuresKept
    <3> QED
        BY <1>3, <1>12, <2>1, <3>1, <3>2, <3>3, <3>4, <3>5, <3>6 DEF RqHolds
  <2> QED
      BY <1>1, <1>2, <1>3, <1>10, <1>11, <1>16, <2>2, RqMoves DEF RqTyped
<1>17. CASE level # "none"
  <2>1. RqHolds(r, t, log \cup {rec})
    <3>1. NotBegun(r, t)
        BY <1>3, <1>4, <1>12, <1>13, <1>14, <1>15 DEF RqHolds, NotBegun, RqEarly
    <3>2. RecordsIdentify(r, t, log \cup {rec})
        BY <1>3, <1>4, <1>12, <1>13, <1>14, <1>15 DEF RqHolds, RecordsIdentify
    <3>3. BodyKept(r, t)
        BY <1>3, <1>4, <1>12, <1>13, <1>14, <1>15 DEF RqHolds, BodyKept
    <3>4. PrefixCaptured(t)
        BY <1>3, <1>4, <1>12, <1>13, <1>14, <1>15 DEF RqHolds, PrefixCaptured
    <3>5. StatusKept(r, t, log \cup {rec})
        BY <1>3, <1>4, <1>12, <1>13, <1>14, <1>15 DEF RqHolds, StatusKept, RqOpen, RqEarly
    <3>6. FailuresKept(t, log \cup {rec})
        BY <1>3, <1>4, <1>12, <1>13, <1>14, <1>15 DEF RqHolds, FailuresKept
    <3> QED
        BY <1>3, <1>4, <1>12, <1>13, <1>14, <1>15, <3>1, <3>2, <3>3, <3>4, <3>5, <3>6 DEF RqHolds
  <2> QED
      BY <1>1, <1>2, <1>3, <1>10, <1>11, <1>17, <2>1, RqMoves DEF RqTyped
<1> QED
    BY <1>16, <1>17

\* A command that begins: its request waits, and its context is cached if
\* its end will be logged.
LEMMA CommandStartedKeeps ==
    ASSUME RqIInv, NEW r \in Names, NEW id \in MongoIDs, NEW name \in {"find", "ping"},
           CommandStarted(r, id, name)
    PROVE  RqIInv'
<1>1. PICK s : s = rqReq[r]
    OBVIOUS
<1>2. PICK log : log = rqLog[r]
    OBVIOUS
<1>3. RqHolds(r, s, log) /\ s.pc = "handler" /\ s.ops < MaxOps /\ s \in RqStates /\ RqTyped /\ s.ctx \in RqContexts
    BY <1>1, <1>2 DEF RqIInv, RqHolds, CommandStarted, InHandler, RqStates
<1>4. PICK ops : ops = s.ops + 1
    OBVIOUS
<1>5. ops \in 0..MaxOps
    BY <1>3, <1>4, RqConstants DEF RqStates
<1>6. PICK t : t = [s EXCEPT !.pc = "mongo", !.ops = ops]
    OBVIOUS
<1>7. rqReq' = [rqReq EXCEPT ![r] = t] /\ UNCHANGED rqLog
    BY <1>1, <1>3, <1>4, <1>6 DEF CommandStarted, RqStates
<1>8. /\ t \in RqStates /\ t.pc = "mongo"
      /\ t.ctx = s.ctx /\ t.body = s.body /\ t.got = s.got /\ t.logged = s.logged /\ t.wrapped = s.wrapped
      /\ t.captured = s.captured /\ t.sent = s.sent /\ t.status = s.status /\ t.gin = s.gin
      /\ t.header = s.header /\ t.late = s.late /\ t.failed = s.failed
    BY <1>3, <1>5, <1>6 DEF RqStates, RqOpen
<1>9. RqHolds(r, t, log)
  <2>1. NotBegun(r, t)
      BY <1>3, <1>8 DEF RqHolds, NotBegun, RqEarly
  <2>2. RecordsIdentify(r, t, log)
      BY <1>3, <1>8 DEF RqHolds, RecordsIdentify
  <2>3. BodyKept(r, t)
      BY <1>3, <1>8 DEF RqHolds, BodyKept
  <2>4. PrefixCaptured(t)
      BY <1>3, <1>8 DEF RqHolds, PrefixCaptured
  <2>5. StatusKept(r, t, log)
      BY <1>3, <1>8 DEF RqHolds, StatusKept, RqOpen, RqEarly
  <2>6. FailuresKept(t, log)
      BY <1>3, <1>8 DEF RqHolds, FailuresKept
  <2> QED
      BY <1>3, <1>8, <2>1, <2>2, <2>3, <2>4, <2>5, <2>6 DEF RqHolds
<1>10. ASSUME NEW q \in Names PROVE RqHolds(q, rqReq'[q], rqLog'[q])
    BY <1>2, <1>3, <1>7, <1>9 DEF RqIInv, RqTyped
<1>11. PICK cmd : cmd = [req |-> r, name |-> name]
    OBVIOUS
<1>12. /\ rqCmd[id] = NoCommand /\ rqCmd' = [rqCmd EXCEPT ![id] = cmd]
       /\ cmd \in [req : Names, name : {"find", "ping"}] /\ cmd.req = r /\ cmd.name = name
    BY <1>11 DEF CommandStarted
<1>13. rqCache' = IF Cached(name) THEN [rqCache EXCEPT ![id] = <<s.ctx>>] ELSE rqCache
    BY <1>1 DEF CommandStarted
<1>14. cmd # NoCommand
  <2>1. NoCommand.req = NoID /\ NoID # r
      BY RqConstants DEF NoCommand
  <2> QED
      BY <1>12, <2>1
<1>15. PICK one : one = <<s.ctx>>
    OBVIOUS
<1>16. one # <<>> /\ one[1] = s.ctx /\ one \in {<<c>> : c \in RqContexts}
    BY <1>3, <1>15
<1>17. /\ \A i \in MongoIDs \ {id} : rqCmd'[i] = rqCmd[i] /\ rqCache'[i] = rqCache[i]
       /\ rqCmd'[id] = cmd /\ rqCache'[id] = IF Cached(name) THEN one ELSE rqCache[id]
    BY <1>3, <1>12, <1>13, <1>15 DEF RqTyped
<1>18. RqTyped'
  <2>1. rqCmd' \in [MongoIDs -> {NoCommand} \cup [req : Names, name : {"find", "ping"}]]
      BY <1>3, <1>12 DEF RqTyped
  <2>2. rqCache' \in [MongoIDs -> {<<>>} \cup {<<c>> : c \in RqContexts}]
      BY <1>3, <1>13, <1>15, <1>16 DEF RqTyped
  <2> QED
      BY <1>3, <1>7, <2>1, <2>2 DEF RqTyped
<1>19. rqCache[id] = <<>>
    BY <1>12 DEF RqIInv, CacheIsInFlight
<1>20. CacheIsInFlight'
  <2>1. CacheIsInFlight
      BY DEF RqIInv
  <2>2. ASSUME NEW i \in MongoIDs
        PROVE  rqCache'[i] # <<>> <=> rqCmd'[i] # NoCommand /\ Cached(rqCmd'[i].name)
    <3>1. CASE i = id
        BY <1>12, <1>14, <1>16, <1>17, <1>19, <3>1
    <3>2. CASE i # id
        BY <1>17, <2>1, <3>2 DEF CacheIsInFlight
    <3> QED
        BY <3>1, <3>2
  <2> QED
      BY <2>2 DEF CacheIsInFlight
<1>21. \A i \in MongoIDs : rqCmd[i] # NoCommand => rqCmd[i].req # r
    BY <1>1, <1>3 DEF RqIInv, CommandWaits
<1>22. \A i \in MongoIDs \ {id} : rqCmd[i].req # r
  <2>1. NoCommand.req # r
      BY RqConstants DEF NoCommand
  <2> QED
      BY <1>21, <2>1
<1>23. ASSUME NEW i \in MongoIDs PROVE CommandWaits(i)'
  <2>1. SUFFICES ASSUME rqCmd'[i] # NoCommand PROVE CommandWaits(i)'
      BY DEF CommandWaits
  <2>2. CASE i = id
    <3>1. rqReq'[r] = t
        BY <1>3, <1>7 DEF RqTyped
    <3>2. rqCache'[i] # <<>> => rqCache'[i][1] = t.ctx
        BY <1>8, <1>16, <1>17, <1>19, <2>2
    <3>3. \A other \in MongoIDs : rqCmd'[other].req = r => other = id
        BY <1>17, <1>22
    <3> QED
        BY <1>8, <1>12, <1>17, <2>2, <3>1, <3>2, <3>3 DEF CommandWaits
  <2>3. CASE i # id
    <3>1. CommandWaits(i) /\ rqCmd[i] # NoCommand /\ rqCmd'[i] = rqCmd[i] /\ rqCmd[i].req \in Names
        BY <1>3, <1>17, <2>1, <2>3 DEF RqIInv, RqTyped
    <3>2. rqReq'[rqCmd[i].req] = rqReq[rqCmd[i].req]
        BY <1>3, <1>7, <1>21, <3>1 DEF RqTyped
    <3>3. \A other \in MongoIDs : rqCmd'[other].req = rqCmd[i].req => other = i
        BY <1>12, <1>17, <1>21, <3>1 DEF CommandWaits
    <3> QED
        BY <1>17, <2>3, <3>1, <3>2, <3>3 DEF CommandWaits
  <2> QED
      BY <2>2, <2>3
<1> QED
    BY <1>10, <1>18, <1>20, <1>23 DEF RqIInv

\* A command that ends: it is logged with the context it began with, unless it
\* is an ignored one that succeeded.
LEMMA CommandEndsKeeps ==
    ASSUME RqIInv, NEW id \in MongoIDs, NEW outcome \in {"ok", "error"}, NEW took \in BOOLEAN,
           CommandEnds(id, outcome, took)
    PROVE  RqIInv'
<1>1. PICK c : c = rqCmd[id]
    OBVIOUS
<1>2. c # NoCommand /\ CommandWaits(id) /\ RqTyped /\ CacheIsInFlight
    BY <1>1 DEF CommandEnds, RqIInv
<1>3. c.req \in Names /\ c.name \in {"find", "ping"}
    BY <1>1, <1>2 DEF RqTyped
<1>4. PICK r \in Names : r = c.req
    BY <1>3
<1>5. PICK s : s = rqReq[r]
    OBVIOUS
<1>6. PICK log : log = rqLog[r]
    OBVIOUS
<1>7. RqHolds(r, s, log) /\ s.pc = "mongo" /\ s \in RqStates /\ s.ctx \in RqContexts
    BY <1>1, <1>2, <1>4, <1>5, <1>6 DEF RqIInv, RqHolds, CommandWaits, RqStates
<1>8. PICK failed : failed = IF outcome = "error" THEN s.failed \cup {s.ops} ELSE s.failed
    OBVIOUS
<1>9. failed \in SUBSET Int
    BY <1>7, <1>8, RqConstants DEF RqStates
<1>10. PICK t : t = [s EXCEPT !.pc = "handler", !.failed = failed]
    OBVIOUS
<1>11. rqReq' = [rqReq EXCEPT ![r] = t] /\ rqCmd' = [rqCmd EXCEPT ![id] = NoCommand]
    BY <1>1, <1>4, <1>5, <1>7, <1>8, <1>10 DEF CommandEnds, RqStates
<1>12. /\ t \in RqStates /\ t.pc = "handler" /\ t.failed = failed
       /\ t.ctx = s.ctx /\ t.body = s.body /\ t.got = s.got /\ t.logged = s.logged /\ t.wrapped = s.wrapped
       /\ t.captured = s.captured /\ t.sent = s.sent /\ t.status = s.status /\ t.gin = s.gin
       /\ t.header = s.header /\ t.late = s.late /\ t.ops = s.ops
    BY <1>7, <1>9, <1>10 DEF RqStates, RqOpen
<1>13. PICK ctx : ctx = CommandContext(id, s.ctx)
    OBVIOUS
<1>14. ctx = s.ctx
    BY <1>1, <1>2, <1>4, <1>5, <1>13 DEF CommandContext, CommandWaits
<1>15. PICK rec : rec = Rec("mongo", HookLevel(outcome, took), TraceFields(ctx), <<"op", s.ops>>)
    OBVIOUS
<1>16. IF outcome # "error" /\ c.name \in IgnoredCommands
       THEN UNCHANGED <<rqLog, rqCache>>
       ELSE rqCache' = [rqCache EXCEPT ![id] = <<>>] /\ rqLog' = [rqLog EXCEPT ![r] = @ \cup {rec}]
    BY <1>1, <1>4, <1>5, <1>13, <1>15, Zenon DEF CommandEnds, Logged, LoadAndDelete
<1>17. /\ rec.by = "mongo" /\ ~IsEnd(rec) /\ rec.about = <<"op", s.ops>> 
       /\ rec.level = HookLevel(outcome, took)
    BY <1>15, RecIs DEF IsEnd
<1>18. s.ctx.id # NoID => Identifies(rec, s.ctx)
  <2>1. NoID \in RqText
      BY DEF RqText
  <2>2. s.ctx.id # NoID => Identifies(TraceFields(s.ctx), s.ctx)
      BY <1>7, <2>1, FieldsIdentify
  <2> QED
      BY <1>14, <1>15, <2>2, RecIs
<1>19. outcome = "error" => rec.level = "error"
    BY <1>17 DEF HookLevel
<1>20. PICK newLog : /\ newLog = log \/ newLog = log \cup {rec}
                     /\ outcome = "error" => newLog = log \cup {rec}
                     /\ DOMAIN rqLog' = Names
                     /\ \A q \in Names : rqLog'[q] = IF q = r THEN newLog ELSE rqLog[q]
  <2>1. CASE outcome # "error" /\ c.name \in IgnoredCommands
      BY <1>2, <1>6, <1>16, <2>1 DEF RqTyped
  <2>2. CASE ~(outcome # "error" /\ c.name \in IgnoredCommands)
      BY <1>2, <1>6, <1>16, <2>2 DEF RqTyped
  <2> QED
      BY <2>1, <2>2
<1>21. RqHolds(r, t, newLog)
  <2>1. NotBegun(r, t)
      BY <1>7, <1>8, <1>12, <1>17, <1>18, <1>19, <1>20 DEF RqHolds, NotBegun, RqEarly
  <2>2. RecordsIdentify(r, t, newLog)
      BY <1>7, <1>8, <1>12, <1>17, <1>18, <1>19, <1>20 DEF RqHolds, RecordsIdentify
  <2>3. BodyKept(r, t)
      BY <1>7, <1>8, <1>12, <1>17, <1>18, <1>19, <1>20 DEF RqHolds, BodyKept
  <2>4. PrefixCaptured(t)
      BY <1>7, <1>8, <1>12, <1>17, <1>18, <1>19, <1>20 DEF RqHolds, PrefixCaptured
  <2>5. StatusKept(r, t, newLog)
      BY <1>7, <1>8, <1>12, <1>17, <1>18, <1>19, <1>20 DEF RqHolds, StatusKept, RqOpen, RqEarly
  <2>6. FailuresKept(t, newLog)
      BY <1>7, <1>8, <1>12, <1>17, <1>18, <1>19, <1>20 DEF RqHolds, FailuresKept
  <2> QED
      BY <1>7, <1>8, <1>12, <1>17, <1>18, <1>19, <1>20, <2>1, <2>2, <2>3, <2>4, <2>5, <2>6 DEF RqHolds
<1>22. ASSUME NEW q \in Names PROVE RqHolds(q, rqReq'[q], rqLog'[q])
    BY <1>2, <1>11, <1>20, <1>21 DEF RqIInv, RqTyped
<1>23. rqCache' = [rqCache EXCEPT ![id] = <<>>]
  <2>1. outcome # "error" /\ c.name \in IgnoredCommands => rqCache[id] = <<>>
      BY <1>1, <1>2 DEF CacheIsInFlight, Cached
  <2>2. CASE outcome # "error" /\ c.name \in IgnoredCommands
    <3>1. rqCache = [i \in MongoIDs |-> rqCache[i]] /\ rqCache' = rqCache
        BY <1>2, <1>16, <2>2 DEF RqTyped
    <3> QED
        BY <2>1, <2>2, <3>1
  <2>3. CASE ~(outcome # "error" /\ c.name \in IgnoredCommands)
      BY <1>16, <2>3
  <2> QED
      BY <2>2, <2>3
<1>24. /\ rqCmd'[id] = NoCommand /\ rqCache'[id] = <<>>
       /\ \A i \in MongoIDs \ {id} : rqCmd'[i] = rqCmd[i] /\ rqCache'[i] = rqCache[i]
    BY <1>2, <1>11, <1>23 DEF RqTyped
<1>25. RqTyped'
  <2>1. rqCmd' \in [MongoIDs -> {NoCommand} \cup [req : Names, name : {"find", "ping"}]]
      BY <1>2, <1>11 DEF RqTyped
  <2>2. rqCache' \in [MongoIDs -> {<<>>} \cup {<<x>> : x \in RqContexts}]
      BY <1>2, <1>23 DEF RqTyped
  <2> QED
      BY <1>2, <1>11, <1>20, <2>1, <2>2 DEF RqTyped
<1>26. CacheIsInFlight'
  <2>1. ASSUME NEW i \in MongoIDs
        PROVE  rqCache'[i] # <<>> <=> rqCmd'[i] # NoCommand /\ Cached(rqCmd'[i].name)
      BY <1>2, <1>24 DEF CacheIsInFlight
  <2> QED
      BY <2>1 DEF CacheIsInFlight
<1>27. ASSUME NEW i \in MongoIDs PROVE CommandWaits(i)'
  <2>1. SUFFICES ASSUME rqCmd'[i] # NoCommand PROVE CommandWaits(i)'
      BY DEF CommandWaits
  <2>2. i # id /\ rqCmd'[i] = rqCmd[i] /\ rqCache'[i] = rqCache[i] /\ CommandWaits(i) /\ rqCmd[i].req \in Names
      BY <1>2, <1>24, <2>1 DEF RqIInv, RqTyped
  <2>3. rqCmd[i].req # r
      BY <1>1, <1>4, <2>1, <2>2 DEF CommandWaits
  <2>4. rqReq'[rqCmd[i].req] = rqReq[rqCmd[i].req]
      BY <1>2, <1>11, <2>2, <2>3 DEF RqTyped
  <2>5. NoCommand.req # rqCmd[i].req
      BY <2>2, RqConstants DEF NoCommand
  <2>6. \A other \in MongoIDs : rqCmd'[other].req = rqCmd[i].req => other = i
      BY <1>24, <2>1, <2>2, <2>5 DEF CommandWaits
  <2> QED
      BY <2>1, <2>2, <2>4, <2>6 DEF CommandWaits
<1> QED
    BY <1>22, <1>25, <1>26, <1>27 DEF RqIInv

LEMMA RqStep == RqIInv /\ [RequestNext]_rqVars => RqIInv'
<1>1. CASE UNCHANGED rqVars
    BY <1>1 DEF rqVars, RqIInv, RqTyped, CacheIsInFlight, CommandWaits
<1>2. ASSUME RqIInv, NEW r \in Names,
             \/ Tracing(r) \/ HTTPLoggerStarts(r) \/ HTTPLoggerEnds(r) \/ TracingEnds(r)
             \/ ReadsBody(r) \/ Returns(r) \/ Panics(r)
      PROVE  RqIInv'
    BY <1>2, TracingKeeps, HTTPLoggerStartsKeeps, HTTPLoggerEndsKeeps, TracingEndsKeeps, ReadsBodyKeeps,
       HandlerReturnsKeeps, PanicsKeeps
<1>3. ASSUME RqIInv, NEW r \in Names,
             \/ \E n \in 1..2 : Writes(r, n)
             \/ \E code \in {OK, NotFound, ServerError} : WriteHeader(r, code)
             \/ \E how \in {"L", "InfoContext", "InfofContext"} : Says(r, how)
             \/ \E what \in {"redis", "pipeline", "sql"}, o \in {"ok", "nil", "error"}, took \in BOOLEAN :
                   Queries(r, what, o, took)
             \/ \E id \in MongoIDs, name \in {"find", "ping"} : CommandStarted(r, id, name)
      PROVE  RqIInv'
    BY <1>3, WritesKeeps, WriteHeaderKeeps, SaysKeeps, QueriesKeeps, CommandStartedKeeps
<1>4. ASSUME RqIInv, \E id \in MongoIDs, o \in {"ok", "error"}, took \in BOOLEAN : CommandEnds(id, o, took)
      PROVE  RqIInv'
    BY <1>4, CommandEndsKeeps
<1> QED
    BY <1>1, <1>2, <1>3, <1>4, Zenon DEF RequestNext

LEMMA RqInit == RequestInit => RqIInv
<1> SUFFICES ASSUME RequestInit PROVE RqIInv
    OBVIOUS
<1>1. PICK group : rqReq = [r \in Names |-> NewRequest(r, group)]
    BY DEF RequestInit
<1>2. /\ rqLog = [r \in Names |-> {}] /\ rqCache = [id \in MongoIDs |-> <<>>]
      /\ rqCmd = [id \in MongoIDs |-> NoCommand]
    BY DEF RequestInit
<1>3. RqTyped /\ CacheIsInFlight /\ \A id \in MongoIDs : CommandWaits(id)
    BY <1>1, <1>2 DEF RqTyped, CacheIsInFlight, CommandWaits
<1>4. ASSUME NEW r \in Names PROVE RqHolds(r, rqReq[r], rqLog[r])
  <2>1. PICK pc \in {"arrived", "absent"} : pc = IF r \in group THEN "arrived" ELSE "absent"
      OBVIOUS
  <2>2. PICK ctx : ctx = NoContext
      OBVIOUS
  <2>3. ctx \in RqContexts
      BY <2>2 DEF NoContext, RqContexts, RqText
  <2>4. PICK t : t = [pc |-> pc, ctx |-> ctx,
             body |-> Requests[r].body, got |-> NotRead, logged |-> 0, wrapped |-> FALSE,
             captured |-> 0, sent |-> 0, status |-> OK, gin |-> Requests[r].preset, header |-> 0,
             late |-> FALSE, failed |-> {}, ops |-> 0]
      OBVIOUS
  <2>5. rqReq[r] = t /\ rqLog[r] = {}
      BY <1>1, <1>2, <2>1, <2>2, <2>4, Zenon DEF NewRequest
  <2>6. t \in RqStates
      BY <2>3, <2>4, RqConstants DEF RqStates, RqOpen, RqEarly, NotRead, OK
  <2>7. /\ t.pc \in {"arrived", "absent"} /\ t.header = 0 /\ t.status = OK /\ t.gin = Requests[r].preset
        /\ t.wrapped = FALSE /\ t.sent = 0 /\ t.captured = 0 /\ t.got = NotRead /\ t.body = Requests[r].body
        /\ t.failed = {} /\ t.ctx.logger = <<>>
      BY <2>2, <2>4 DEF NoContext
  <2>8. RqHolds(r, t, {})
    <3>1. NotBegun(r, t)
        BY <2>6, <2>7 DEF RqHolds, NotBegun, RqEarly
    <3>2. RecordsIdentify(r, t, {})
        BY <2>6, <2>7 DEF RqHolds, RecordsIdentify
    <3>3. BodyKept(r, t)
        BY <2>6, <2>7 DEF RqHolds, BodyKept
    <3>4. PrefixCaptured(t)
        BY <2>6, <2>7 DEF RqHolds, PrefixCaptured
    <3>5. StatusKept(r, t, {})
        BY <2>6, <2>7 DEF RqHolds, StatusKept, RqOpen, RqEarly
    <3>6. FailuresKept(t, {})
        BY <2>6, <2>7 DEF RqHolds, FailuresKept
    <3> QED
        BY <2>6, <2>7, <3>1, <3>2, <3>3, <3>4, <3>5, <3>6 DEF RqHolds
  <2> QED
      BY <2>5, <2>8
<1> QED
    BY <1>3, <1>4 DEF RqIInv

LEMMA RqIInvImplies == RqIInv => RequestInv
<1> SUFFICES ASSUME RqIInv PROVE RequestInv
    OBVIOUS
<1>1. /\ RqTyped /\ CacheIsInFlight /\ \A r \in Names : RqHolds(r, rqReq[r], rqLog[r]) /\ rqReq[r] \in RqStates
    BY DEF RqIInv, RqHolds
<1>2. RequestTypeOK
  <2>1. ASSUME NEW r \in Names
        PROVE  /\ rqReq[r].pc \in {"absent", "arrived", "gin", "handler", "mongo", "returned",
                                   "left", "done", "panicked"}
               /\ rqReq[r].captured \in 0..MaxBodyBytes /\ rqReq[r].logged \in 0..MaxBodyBytes
               /\ rqReq[r].ops \in 0..MaxOps /\ rqReq[r].header \in {0, OK, NotFound, ServerError}
      BY <1>1 DEF RqStates, RqOpen, RqEarly
  <2>2. ASSUME NEW id \in MongoIDs
        PROVE  Len(rqCache[id]) <= 1 /\ (rqCmd[id] = NoCommand \/ rqCmd[id].req \in Names)
    <3>1. rqCache[id] = <<>> \/ \E x \in RqContexts : rqCache[id] = <<x>>
        BY <1>1 DEF RqTyped
    <3>2. Len(rqCache[id]) <= 1
      <4>1. CASE rqCache[id] = <<>>
          BY <4>1
      <4>2. ASSUME NEW x \in RqContexts, rqCache[id] = <<x>> PROVE Len(rqCache[id]) <= 1
          BY <4>2
      <4> QED
          BY <3>1, <4>1, <4>2
    <3>3. rqCmd[id] = NoCommand \/ rqCmd[id] \in [req : Names, name : {"find", "ping"}]
        BY <1>1 DEF RqTyped
    <3> QED
        BY <3>2, <3>3
  <2> QED
      BY <2>1, <2>2 DEF RequestTypeOK
<1>3. TraceEverywhere
    BY <1>1 DEF TraceEverywhere, RqHolds, RecordsIdentify, Identifies
<1>4. BodyIntactIfSmall
    BY <1>1 DEF BodyIntactIfSmall, RqHolds, BodyKept
<1>5. CapturedIsPrefix
    BY <1>1 DEF CapturedIsPrefix, RqHolds, PrefixCaptured
<1>6. StatusAgrees
    BY <1>1 DEF StatusAgrees, RqHolds, StatusKept, IsEnd
<1>7. FailuresAreLogged
    BY <1>1 DEF FailuresAreLogged, RqHolds, FailuresKept
<1> QED
    BY <1>1, <1>2, <1>3, <1>4, <1>5, <1>6, <1>7 DEF RequestInv

\* Whatever other requests do, the records of a traced request carry its trace
\* and its id, those of its Mongo commands too; MongoHook.commandCache holds the
\* commands under way; logging leaves a small body as it was and captures what
\* is sent; the end records have the status the client got; and every failure
\* is logged as an error.
THEOREM RequestsHold == RequestSpec => []RequestInv
<1>1. RequestInit => RqIInv
    BY RqInit
<1>2. RqIInv /\ [RequestNext]_rqVars => RqIInv'
    BY RqStep
<1>3. RqIInv => RequestInv
    BY RqIInvImplies
<1> QED
    BY <1>1, <1>2, <1>3, PTL DEF RequestSpec

-----------------------------------------------------------------------------
(* The files of the logs.                                                   *)

AllWriters == UNION {Writers(cf) : cf \in LogConfs}
LfHandles == [h : {"nil", "open", "closed"}, date : Dates, unlinked : BOOLEAN]
LfFiles == [there : BOOLEAN, mtime : Nat, recs : SUBSET Nat]
LfRecs == [level : LogLevels, stamp : Nat, refused : SUBSET AllWriters, todo : SUBSET AllWriters]
LfCleaners == [path : LogPaths, file : Files \cup {NoFile}]

LfTyped ==
    /\ lfConf \in LogConfs /\ lfNow \in 0..MaxDay /\ lfDirOK \in BOOLEAN
    /\ lfWriter \in [Writers(lfConf) -> LfHandles]
    /\ lfFile \in [Files -> LfFiles]
    /\ lfRec \in Seq(LfRecs)
    /\ lfClean \subseteq LfCleaners /\ lfHurt \subseteq Writers(lfConf)

\* No file has a date that outlives its records.
Lasting == LogPeriod <= lfConf.maxAge

\* A file has the date of the day it was written to last, and its records are
\* not younger than that.
FileOK(f) ==
    /\ lfFile[f].mtime <= lfNow
    /\ lfFile[f].there /\ lfConf.timed => DateOf(lfFile[f].mtime) = f[2]
    /\ ~lfFile[f].there => lfFile[f].recs = {}
    /\ \A i \in lfFile[f].recs :
          /\ i \in DOMAIN lfRec /\ lfRec[i].stamp <= lfFile[f].mtime
          /\ f[1] \in Promised(lfRec[i].level)
          /\ lfConf.timed => DateOf(lfRec[i].stamp) <= f[2]

\* A writer whose file was removed has one of an earlier date.
WriterOK(w) ==
    /\ lfWriter[w].h = "closed" => w \in lfHurt
    /\ lfWriter[w].h = "open" =>
          lfWriter[w].unlinked \/ lfFile[<<w[2], lfWriter[w].date>>].there \/ ~lfConf.timed
    /\ ~lfConf.timed => lfWriter[w].h = "open" /\ lfWriter[w].date = 0 /\ ~lfWriter[w].unlinked
    /\ lfWriter[w].unlinked /\ Lasting => lfWriter[w].date < DateOf(lfNow)

\* A cleaner is about to remove a file of an earlier date with old records.
CleanerOK(c) ==
    /\ lfConf.timed
    /\ c.file # NoFile /\ Lasting =>
          /\ c.file[2] < DateOf(lfNow)
          /\ \A i \in lfFile[c.file].recs : lfRec[i].stamp < lfNow - lfConf.maxAge

\* A record waits for a writer, was refused by it, or is in its file while young.
RecordOK(i) ==
    /\ lfRec[i].stamp <= lfNow /\ lfRec[i].refused \subseteq lfHurt
    /\ lfRec[i].todo \subseteq {w \in Writers(lfConf) : Enabled(lfConf, w[1], lfRec[i].level)}
    /\ \A w \in Writers(lfConf) :
          /\ Enabled(lfConf, w[1], lfRec[i].level) /\ w \notin lfRec[i].todo /\ w \notin lfRec[i].refused
          /\ Lasting /\ lfRec[i].stamp >= lfNow - lfConf.maxAge
          => \E d \in Dates : i \in lfFile[<<w[2], d>>].recs

LfIInv ==
    /\ LfTyped
    /\ \A f \in Files : FileOK(f)
    /\ \A w \in Writers(lfConf) : WriterOK(w)
    /\ \A c \in lfClean : CleanerOK(c)
    /\ \A i \in DOMAIN lfRec : RecordOK(i)

LEMMA LfBounds ==
    /\ LogPeriod \in Nat /\ LogPeriod > 0 /\ MaxDay \in Nat /\ MaxRecords \in Nat
    /\ LogLevels \subseteq 1..4
BY LogConstants

LEMMA ConfFacts ==
    ASSUME NEW cf \in LogConfs
    PROVE  /\ cf.timed \in BOOLEAN /\ cf.maxAge \in Int /\ cf.level \in Int
           /\ \A k \in DOMAIN cf.paths : cf.paths[k] \subseteq LogPaths
BY LogConstants

LEMMA Quotient ==
    ASSUME NEW a \in Nat, NEW b \in Nat, b > 0
    PROVE  a \div b \in Nat /\ b * (a \div b) <= a /\ a < b * (a \div b) + b
OBVIOUS

\* A later day has no earlier date, and one that is LogPeriod later a later one.
LEMMA DatesGrow ==
    ASSUME NEW a \in Nat, NEW b \in Nat
    PROVE  /\ DateOf(a) \in Nat
           /\ a <= b => DateOf(a) <= DateOf(b)
           /\ a + LogPeriod <= b => DateOf(a) < DateOf(b)
<1>1. PICK x, y : x = DateOf(a) /\ y = DateOf(b)
    OBVIOUS
<1>2. /\ x \in Nat /\ LogPeriod * x <= a /\ a < LogPeriod * x + LogPeriod
      /\ y \in Nat /\ LogPeriod * y <= b /\ b < LogPeriod * y + LogPeriod
    BY <1>1, LfBounds, Quotient DEF DateOf
<1>3. y < x => LogPeriod * y + LogPeriod <= LogPeriod * x
  <2>1. SUFFICES ASSUME y < x PROVE LogPeriod * y + LogPeriod <= LogPeriod * x
      OBVIOUS
  <2>2. PICK k \in Nat : x = y + 1 + k
    <3>1. x - (y + 1) \in Nat /\ x = y + 1 + (x - (y + 1))
        BY <1>2, <2>1
    <3> QED
        BY <3>1
  <2>3. LogPeriod * (y + 1 + k) = LogPeriod * y + LogPeriod + LogPeriod * k /\ LogPeriod * k >= 0
      BY <1>2, LfBounds
  <2> QED
      BY <1>2, <2>2, <2>3, LfBounds
<1>4. y = x => LogPeriod * y = LogPeriod * x
    OBVIOUS
<1>5. PICK px, py : px = LogPeriod * x /\ py = LogPeriod * y /\ px \in Nat /\ py \in Nat
    BY <1>2, LfBounds
<1> QED
    BY <1>1, <1>2, <1>3, <1>4, <1>5, LfBounds

LEMMA DatesIn == ASSUME NEW day \in 0..MaxDay PROVE DateOf(day) \in Dates
BY LfBounds, DatesGrow DEF Dates

LEMMA WriterIs ==
    ASSUME NEW cf \in LogConfs, NEW w \in Writers(cf)
    PROVE  /\ w[1] \in CoreKeys(cf) /\ w[1] \in DOMAIN cf.paths /\ w[2] \in cf.paths[w[1]]
           /\ w[2] \in LogPaths /\ w \in AllWriters /\ w = <<w[1], w[2]>>
<1>1. PICK k \in CoreKeys(cf) : w \in {k} \X cf.paths[k]
    BY DEF Writers
<1>2. k \in DOMAIN cf.paths
    BY DEF CoreKeys
<1>3. w \in AllWriters
    BY DEF AllWriters
<1> QED
    BY <1>1, <1>2, <1>3, ConfFacts

\* The files that LevelOutputMode promises are those of the enabled cores.
LEMMA EnabledIsPromised ==
    ASSUME lfConf \in LogConfs, NEW l \in LogLevels, NEW w \in Writers(lfConf), Enabled(lfConf, w[1], l)
    PROVE  w[2] \in Promised(l)
<1>1. PICK k, p : k = w[1] /\ p = w[2]
    OBVIOUS
<1>2. /\ k \in DOMAIN lfConf.paths /\ p \in lfConf.paths[k] /\ p \in LogPaths
      /\ k = AllLevels => lfConf.mode = "duplicate"
    BY <1>1, WriterIs DEF CoreKeys
<1>3. CASE lfConf.kind # "levels"
  <2>1. k = Out
      BY <1>2, <1>3, LogConstants
  <2>2. l >= lfConf.level
      BY <1>1, <2>1 DEF Enabled
  <2> QED
      BY <1>1, <1>2, <1>3, <2>1, <2>2 DEF Promised
<1>4. CASE lfConf.kind = "levels"
  <2>1. k = AllLevels \/ k \in 1..4
      BY <1>2, <1>4, LogConstants
  <2>2. CASE k = AllLevels
    <3>1. l >= lfConf.level
        BY <1>1, <2>2 DEF Enabled
    <3> QED
        BY <1>1, <1>2, <1>4, <2>2, <3>1 DEF Promised
  <2>3. CASE k # AllLevels
    <3>1. k \notin {AllLevels, Out} /\ k \in 1..4 /\ l \in 1..4
        BY <2>1, <2>3, LfBounds DEF Out
    <3>2. l = k \/ (lfConf.mode = "above" /\ l > k)
        BY <1>1, <3>1 DEF Enabled
    <3> QED
        BY <1>1, <1>2, <1>4, <2>3, <3>2 DEF Promised
  <2> QED
      BY <2>2, <2>3
<1> QED
    BY <1>3, <1>4

LEMMA PromisedIsEnabled ==
    ASSUME lfConf \in LogConfs, NEW l \in LogLevels, NEW p \in Promised(l)
    PROVE  \E w \in Writers(lfConf) : w[2] = p /\ Enabled(lfConf, w[1], l)
<1>1. ASSUME NEW k \in DOMAIN lfConf.paths, p \in lfConf.paths[k], Enabled(lfConf, k, l),
             k = AllLevels => lfConf.mode = "duplicate"
      PROVE  \E w \in Writers(lfConf) : w[2] = p /\ Enabled(lfConf, w[1], l)
  <2>1. PICK w : w = <<k, p>>
      OBVIOUS
  <2>2. k \in CoreKeys(lfConf)
      BY <1>1 DEF CoreKeys
  <2>3. w \in Writers(lfConf)
      BY <1>1, <2>1, <2>2 DEF Writers
  <2> QED
      BY <1>1, <2>1, <2>3
<1>2. CASE lfConf.kind # "levels"
  <2>1. l >= lfConf.level /\ p \in lfConf.paths[Out] /\ Out \in DOMAIN lfConf.paths
      BY <1>2, LogConstants DEF Promised
  <2>2. Enabled(lfConf, Out, l) /\ Out # AllLevels
      BY <2>1 DEF Enabled, Out, AllLevels
  <2> QED
      BY <1>1, <2>1, <2>2
<1>3. CASE lfConf.kind = "levels"
  <2>1. PICK k \in DOMAIN lfConf.paths :
           /\ p \in lfConf.paths[k]
           /\ \/ k # AllLevels /\ (l = k \/ (lfConf.mode = "above" /\ l > k))
              \/ k = AllLevels /\ lfConf.mode = "duplicate" /\ l >= lfConf.level
      BY <1>3 DEF Promised
  <2>2. k = AllLevels \/ k \in 1..4
      BY <1>3, LogConstants
  <2>3. CASE k = AllLevels
    <3>1. Enabled(lfConf, k, l)
        BY <2>1, <2>3 DEF Enabled
    <3> QED
        BY <1>1, <2>1, <2>3, <3>1
  <2>4. CASE k # AllLevels
    <3>1. k \notin {AllLevels, Out} /\ k \in 1..4 /\ l \in 1..4
        BY <2>2, <2>4, LfBounds DEF Out
    <3>2. Enabled(lfConf, k, l)
        BY <2>1, <2>4, <3>1 DEF Enabled
    <3> QED
        BY <1>1, <2>1, <2>4, <3>2
  <2> QED
      BY <2>3, <2>4
<1> QED
    BY <1>2, <1>3

LEMMA PromisedSame ==
    ASSUME UNCHANGED lfConf PROVE \A l : Promised(l)' = Promised(l)
BY DEF Promised

LEMMA LfRecIs ==
    ASSUME LfTyped, NEW i \in DOMAIN lfRec
    PROVE  /\ lfRec[i] \in LfRecs /\ lfRec[i].stamp \in Nat /\ lfRec[i].level \in LogLevels
           /\ i \in 1..Len(lfRec)
<1>1. lfRec \in Seq(LfRecs)
    BY DEF LfTyped
<1>2. DOMAIN lfRec = 1..Len(lfRec)
    BY <1>1
<1>3. lfRec[i] \in LfRecs /\ i \in 1..Len(lfRec)
    BY <1>1, <1>2
<1> QED
    BY <1>3 DEF LfRecs

LEMMA LogKeeps == ASSUME LfIInv, NEW l \in LogLevels, Log(l) PROVE LfIInv'
<1>1. PICK n : n = Len(lfRec) + 1
    OBVIOUS
<1>2. PICK rec : rec = [level |-> l, stamp |-> lfNow, refused |-> {},
                        todo |-> {w \in Writers(lfConf) : Enabled(lfConf, w[1], l)}]
    OBVIOUS
<1>3. /\ lfRec' = Append(lfRec, rec)
      /\ UNCHANGED <<lfConf, lfNow, lfDirOK, lfWriter, lfFile, lfClean, lfHurt>>
    BY <1>2 DEF Log
<1>4. LfTyped /\ lfConf \in LogConfs /\ lfNow \in Nat
    BY LfBounds DEF LfIInv, LfTyped
<1>5. rec \in LfRecs /\ rec.level = l /\ rec.stamp = lfNow /\ rec.refused = {}
      /\ rec.todo = {w \in Writers(lfConf) : Enabled(lfConf, w[1], l)}
    BY <1>2, <1>4 DEF LfRecs, AllWriters
<1>6. /\ lfRec' \in Seq(LfRecs) /\ DOMAIN lfRec' = DOMAIN lfRec \cup {n} /\ lfRec'[n] = rec
      /\ \A i \in DOMAIN lfRec : lfRec'[i] = lfRec[i]
  <2>1. lfRec \in Seq(LfRecs)
      BY <1>4 DEF LfTyped
  <2>2. lfRec' \in Seq(LfRecs) /\ Len(lfRec') = n /\ lfRec'[n] = rec
      BY <1>1, <1>3, <1>5, <2>1
  <2>3. DOMAIN lfRec = 1..Len(lfRec) /\ DOMAIN lfRec' = 1..n /\ Len(lfRec) \in Nat
      BY <2>1, <2>2
  <2>4. \A i \in DOMAIN lfRec : lfRec'[i] = lfRec[i]
      BY <1>3, <2>1
  <2> QED
      BY <1>1, <2>2, <2>3, <2>4
<1>7. LfTyped'
    BY <1>3, <1>4, <1>6 DEF LfTyped
<1>8. ASSUME NEW f \in Files PROVE FileOK(f)'
  <2>1. FileOK(f)
      BY DEF LfIInv
  <2> QED
      BY <1>3, <1>6, <2>1 DEF FileOK, Promised
<1>9. ASSUME NEW w \in Writers(lfConf) PROVE WriterOK(w)'
    BY <1>3 DEF LfIInv, WriterOK, Lasting
<1>10. ASSUME NEW c \in lfClean PROVE CleanerOK(c)'
  <2>1. CleanerOK(c) /\ (c.file # NoFile => FileOK(c.file))
      BY <1>4 DEF LfIInv, LfTyped, LfCleaners
  <2>2. c.file # NoFile => \A i \in lfFile[c.file].recs : lfRec'[i] = lfRec[i]
      BY <1>6, <2>1 DEF FileOK
  <2> QED
      BY <1>3, <2>1, <2>2 DEF CleanerOK, Lasting
<1>11. ASSUME NEW i \in DOMAIN lfRec PROVE RecordOK(i)'
    BY <1>3, <1>6 DEF LfIInv, RecordOK, Lasting
<1>12. RecordOK(n)'
    BY <1>3, <1>4, <1>5, <1>6 DEF RecordOK
<1> QED
    BY <1>3, <1>6, <1>7, <1>8, <1>9, <1>10, <1>11, <1>12 DEF LfIInv

LEMMA CloseWriterKeeps == ASSUME LfIInv, NEW w \in Writers(lfConf), CloseWriter(w) PROVE LfIInv'
<1>1. PICK s : s = lfWriter[w]
    OBVIOUS
<1>2. LfTyped /\ s \in LfHandles
    BY <1>1 DEF LfIInv, LfTyped
<1>3. PICK t : t = [s EXCEPT !.h = "closed"]
    OBVIOUS
<1>4. t \in LfHandles /\ t.h = "closed" /\ t.date = s.date /\ t.unlinked = s.unlinked
    BY <1>2, <1>3 DEF LfHandles
<1>5. /\ lfConf.timed /\ lfWriter' = [lfWriter EXCEPT ![w] = t] /\ lfHurt' = lfHurt \cup {w}
      /\ UNCHANGED <<lfConf, lfNow, lfDirOK, lfFile, lfRec, lfClean>>
    BY <1>1, <1>3 DEF CloseWriter
<1>6. /\ lfWriter'[w] = t /\ \A v \in Writers(lfConf) \ {w} : lfWriter'[v] = lfWriter[v]
    BY <1>2, <1>5 DEF LfTyped
<1>7. LfTyped'
    BY <1>2, <1>4, <1>5 DEF LfTyped
<1>8. ASSUME NEW f \in Files PROVE FileOK(f)'
    BY <1>5 DEF LfIInv, FileOK, Promised
<1>9. ASSUME NEW v \in Writers(lfConf) PROVE WriterOK(v)'
  <2>1. WriterOK(v)
      BY DEF LfIInv
  <2>2. CASE v = w
      BY <1>1, <1>4, <1>5, <1>6, <2>1, <2>2 DEF WriterOK, Lasting
  <2>3. CASE v # w
      BY <1>5, <1>6, <2>1, <2>3 DEF WriterOK, Lasting
  <2> QED
      BY <2>2, <2>3
<1>10. ASSUME NEW c \in lfClean PROVE CleanerOK(c)'
    BY <1>5 DEF LfIInv, CleanerOK, Lasting
<1>11. ASSUME NEW i \in DOMAIN lfRec PROVE RecordOK(i)'
    BY <1>5 DEF LfIInv, RecordOK, Lasting
<1> QED
    BY <1>5, <1>7, <1>8, <1>9, <1>10, <1>11 DEF LfIInv

LEMMA DiskKeeps == ASSUME LfIInv, DiskFails \/ DiskRecovers PROVE LfIInv'
<1>1. lfDirOK' \in BOOLEAN /\ UNCHANGED <<lfConf, lfNow, lfWriter, lfFile, lfRec, lfClean, lfHurt>>
    BY DEF DiskFails, DiskRecovers
<1>2. LfTyped'
    BY <1>1 DEF LfIInv, LfTyped
<1>3. ASSUME NEW f \in Files PROVE FileOK(f)'
    BY <1>1 DEF LfIInv, FileOK, Promised
<1>4. ASSUME NEW w \in Writers(lfConf) PROVE WriterOK(w)'
    BY <1>1 DEF LfIInv, WriterOK, Lasting
<1>5. ASSUME NEW c \in lfClean PROVE CleanerOK(c)'
    BY <1>1 DEF LfIInv, CleanerOK, Lasting
<1>6. ASSUME NEW i \in DOMAIN lfRec PROVE RecordOK(i)'
    BY <1>1 DEF LfIInv, RecordOK, Lasting
<1> QED
    BY <1>1, <1>2, <1>3, <1>4, <1>5, <1>6 DEF LfIInv

LEMMA DayPassesKeeps == ASSUME LfIInv, DayPasses PROVE LfIInv'
<1>1. lfNow' = lfNow + 1 /\ lfNow < MaxDay /\ UNCHANGED <<lfConf, lfDirOK, lfWriter, lfFile, lfRec, lfClean, lfHurt>>
    BY DEF DayPasses
<1>2. LfTyped /\ lfNow \in Nat /\ lfConf.maxAge \in Int /\ lfRec \in Seq(LfRecs)
    BY LfBounds, ConfFacts DEF LfIInv, LfTyped
<1>3. PICK today, tomorrow : today = DateOf(lfNow) /\ tomorrow = DateOf(lfNow + 1)
    OBVIOUS
<1>4. today \in Nat /\ tomorrow \in Nat /\ today <= tomorrow
    BY <1>2, <1>3, DatesGrow
<1>5. DateOf(lfNow)' = tomorrow
    BY <1>1, <1>3 DEF DateOf
<1>6. LfTyped'
    BY <1>1, <1>2, LfBounds DEF LfTyped
<1>7. ASSUME NEW f \in Files PROVE FileOK(f)'
  <2>1. FileOK(f) /\ lfFile[f].mtime \in Nat
      BY <1>2 DEF LfIInv, LfTyped, LfFiles
  <2> QED
      BY <1>1, <1>2, <2>1 DEF FileOK, Promised, DateOf
<1>8. ASSUME NEW w \in Writers(lfConf) PROVE WriterOK(w)'
  <2>1. WriterOK(w) /\ lfWriter[w].date \in Nat
      BY <1>2 DEF LfIInv, LfTyped, LfHandles, Dates
  <2> QED
      BY <1>1, <1>3, <1>4, <1>5, <2>1 DEF WriterOK, Lasting
<1>9. ASSUME NEW c \in lfClean PROVE CleanerOK(c)'
  <2>1. CleanerOK(c)
      BY DEF LfIInv
  <2>2. c.file # NoFile => c.file[2] \in Nat /\ FileOK(c.file)
    <3>1. c.file # NoFile => c.file \in Files /\ c.file[2] \in Dates
        BY <1>2 DEF LfTyped, LfCleaners, Files
    <3> QED
        BY <3>1 DEF LfIInv, Dates
  <2>3. c.file # NoFile => \A i \in lfFile[c.file].recs : lfRec[i].stamp \in Nat
      BY <1>2, <2>2, LfRecIs DEF FileOK
  <2> QED
      BY <1>1, <1>2, <1>3, <1>4, <1>5, <2>1, <2>2, <2>3 DEF CleanerOK, Lasting
<1>10. ASSUME NEW i \in DOMAIN lfRec PROVE RecordOK(i)'
  <2>1. RecordOK(i) /\ lfRec[i].stamp \in Nat
      BY <1>2, LfRecIs DEF LfIInv
  <2>2. lfRec[i].stamp <= lfNow'
      BY <1>1, <1>2, <2>1 DEF RecordOK
  <2>3. lfRec[i].stamp >= lfNow' - lfConf.maxAge => lfRec[i].stamp >= lfNow - lfConf.maxAge
      BY <1>1, <1>2, <2>1
  <2> QED
      BY <1>1, <2>1, <2>2, <2>3 DEF RecordOK, Lasting
<1> QED
    BY <1>1, <1>6, <1>7, <1>8, <1>9, <1>10 DEF LfIInv

LEMMA FileIs ==
    ASSUME LfTyped, NEW f \in Files
    PROVE  /\ lfFile[f] \in LfFiles /\ lfFile[f].mtime \in Nat /\ lfFile[f].there \in BOOLEAN
           /\ lfFile[f].recs \in SUBSET Nat /\ f[1] \in LogPaths /\ f[2] \in Dates /\ f[2] \in Nat
<1>1. lfFile[f] \in LfFiles
    BY DEF LfTyped
<1>2. f[1] \in LogPaths /\ f[2] \in Dates /\ f[2] \in Nat
    BY DEF Files, Dates
<1> QED
    BY <1>1, <1>2 DEF LfFiles

LEMMA CleanerIs ==
    ASSUME LfTyped, NEW c \in lfClean
    PROVE  c \in LfCleaners /\ c.path \in LogPaths /\ (c.file = NoFile \/ c.file \in Files)
<1>1. c \in LfCleaners
    BY DEF LfTyped
<1> QED
    BY <1>1 DEF LfCleaners

\* A file that a cleaner finds too old has a date that has passed.
LEMMA ExpiredIsPast ==
    ASSUME LfIInv, NEW f \in Files, lfConf.timed, lfFile[f].there, Expired(f)
    PROVE  /\ Lasting => f[2] < DateOf(lfNow)
           /\ \A i \in lfFile[f].recs : lfRec[i].stamp < lfNow - lfConf.maxAge
<1>1. LfTyped /\ FileOK(f) /\ lfFile[f].mtime \in Nat /\ lfNow \in Nat /\ lfConf.maxAge \in Int
    BY LfBounds, ConfFacts, FileIs DEF LfIInv, LfTyped
<1>2. PICK mtime : mtime = lfFile[f].mtime
    OBVIOUS
<1>3. mtime \in Nat /\ mtime < lfNow - lfConf.maxAge /\ DateOf(mtime) = f[2]
    BY <1>1, <1>2 DEF Expired, FileOK
<1>4. Lasting => mtime + LogPeriod <= lfNow
    BY <1>1, <1>3, LfBounds DEF Lasting
<1>5. Lasting => DateOf(mtime) < DateOf(lfNow)
    BY <1>1, <1>3, <1>4, DatesGrow
<1>6. ASSUME NEW i \in lfFile[f].recs PROVE lfRec[i].stamp < lfNow - lfConf.maxAge
  <2>1. lfRec[i].stamp <= mtime /\ lfRec[i].stamp \in Nat
      BY <1>1, <1>2, LfRecIs DEF FileOK
  <2> QED
      BY <1>1, <1>3, <2>1
<1> QED
    BY <1>3, <1>5, <1>6

LEMMA CleanPicksKeeps == ASSUME LfIInv, NEW c \in lfClean, NEW f \in Files, CleanPicks(c, f) PROVE LfIInv'
<1>1. PICK d : d = [c EXCEPT !.file = f]
    OBVIOUS
<1>2. /\ lfClean' = (lfClean \ {c}) \cup {d} /\ lfFile[f].there /\ Expired(f)
      /\ UNCHANGED <<lfConf, lfNow, lfDirOK, lfWriter, lfFile, lfRec, lfHurt>>
    BY <1>1 DEF CleanPicks, Step
<1>3. LfTyped /\ CleanerOK(c) /\ c \in LfCleaners
    BY CleanerIs DEF LfIInv
<1>4. d \in LfCleaners /\ d.file = f
    BY <1>1, <1>3 DEF LfCleaners
<1>5. LfTyped'
    BY <1>2, <1>3, <1>4 DEF LfTyped
<1>6. ASSUME NEW g \in Files PROVE FileOK(g)'
    BY <1>2 DEF LfIInv, FileOK, Promised
<1>7. ASSUME NEW w \in Writers(lfConf) PROVE WriterOK(w)'
    BY <1>2 DEF LfIInv, WriterOK, Lasting
<1>8. ASSUME NEW e \in lfClean PROVE CleanerOK(e)'
    BY <1>2 DEF LfIInv, CleanerOK, Lasting
<1>9. CleanerOK(d)'
  <2>1. lfConf.timed
      BY <1>3 DEF CleanerOK
  <2>2. /\ Lasting => f[2] < DateOf(lfNow)
        /\ \A i \in lfFile[f].recs : lfRec[i].stamp < lfNow - lfConf.maxAge
      BY <1>2, <2>1, ExpiredIsPast
  <2> QED
      BY <1>2, <1>4, <2>1, <2>2 DEF CleanerOK, Lasting
<1>10. ASSUME NEW i \in DOMAIN lfRec PROVE RecordOK(i)'
    BY <1>2 DEF LfIInv, RecordOK, Lasting
<1> QED
    BY <1>2, <1>5, <1>6, <1>7, <1>8, <1>9, <1>10 DEF LfIInv

LEMMA CleanRemovesKeeps == ASSUME LfIInv, NEW c \in lfClean, CleanRemoves(c) PROVE LfIInv'
<1>1. PICK f, d : f = c.file /\ d = [c EXCEPT !.file = NoFile]
    OBVIOUS
<1>2. LfTyped /\ CleanerOK(c) /\ c \in LfCleaners /\ f # NoFile /\ f \in Files /\ lfConf.timed
    BY <1>1, CleanerIs DEF LfIInv, CleanRemoves, CleanerOK
<1>3. PICK gone : gone = [there |-> FALSE, mtime |-> 0, recs |-> {}]
    OBVIOUS
<1>4. /\ lfClean' = (lfClean \ {c}) \cup {d} /\ lfFile' = [lfFile EXCEPT ![f] = gone]
      /\ lfWriter' = [w \in DOMAIN lfWriter |->
            IF lfWriter[w].h = "open" /\ <<w[2], lfWriter[w].date>> = f
            THEN [lfWriter[w] EXCEPT !.unlinked = TRUE] ELSE lfWriter[w]]
      /\ UNCHANGED <<lfConf, lfNow, lfDirOK, lfRec, lfHurt>>
    BY <1>1, <1>3 DEF CleanRemoves, Step
<1>5. d \in LfCleaners /\ d.file = NoFile
    BY <1>1, <1>2 DEF LfCleaners
<1>6. gone \in LfFiles /\ gone.there = FALSE /\ gone.mtime = 0 /\ gone.recs = {}
    BY <1>3 DEF LfFiles
<1>7. /\ lfFile'[f] = gone /\ \A g \in Files \ {f} : lfFile'[g] = lfFile[g]
      /\ \A g \in Files : lfFile'[g].recs \subseteq lfFile[g].recs
    BY <1>2, <1>4, <1>6 DEF LfTyped
<1>8. ASSUME NEW w \in Writers(lfConf)
      PROVE  /\ lfWriter[w] \in LfHandles /\ lfWriter'[w] \in LfHandles
             /\ lfWriter'[w].h = lfWriter[w].h /\ lfWriter'[w].date = lfWriter[w].date
             /\ IF lfWriter[w].h = "open" /\ <<w[2], lfWriter[w].date>> = f
                THEN lfWriter'[w].unlinked = TRUE ELSE lfWriter'[w] = lfWriter[w]
  <2>1. PICK s : s = lfWriter[w]
      OBVIOUS
  <2>2. s \in LfHandles /\ w \in DOMAIN lfWriter
      BY <1>2, <2>1 DEF LfTyped
  <2>3. PICK t : t = [s EXCEPT !.unlinked = TRUE]
      OBVIOUS
  <2>4. t \in LfHandles /\ t.h = s.h /\ t.date = s.date /\ t.unlinked = TRUE
      BY <2>2, <2>3 DEF LfHandles
  <2>5. lfWriter'[w] = IF s.h = "open" /\ <<w[2], s.date>> = f THEN t ELSE s
      BY <1>4, <2>1, <2>2, <2>3
  <2> QED
      BY <2>1, <2>2, <2>4, <2>5
<1>9. LfTyped'
  <2>1. lfWriter' \in [Writers(lfConf) -> LfHandles]
    <3>1. DOMAIN lfWriter = Writers(lfConf)
        BY <1>2 DEF LfTyped
    <3>2. lfWriter' = [w \in Writers(lfConf) |-> lfWriter'[w]]
        BY <1>4, <3>1
    <3> QED
        BY <1>8, <3>2
  <2>2. lfFile' \in [Files -> LfFiles]
      BY <1>2, <1>4, <1>6 DEF LfTyped
  <2> QED
      BY <1>2, <1>4, <1>5, <2>1, <2>2 DEF LfTyped
<1>10. ASSUME NEW g \in Files PROVE FileOK(g)'
  <2>1. FileOK(g) /\ lfNow \in Nat
      BY <1>2, LfBounds DEF LfIInv, LfTyped
  <2>2. CASE g = f
      BY <1>4, <1>6, <1>7, <2>1, <2>2 DEF FileOK
  <2>3. CASE g # f
      BY <1>4, <1>7, <2>1, <2>3 DEF FileOK, Promised
  <2> QED
      BY <2>2, <2>3
<1>11. ASSUME NEW w \in Writers(lfConf) PROVE WriterOK(w)'
  <2>1. WriterOK(w)
      BY DEF LfIInv
  <2>2. Lasting => f[2] < DateOf(lfNow)
      BY <1>1, <1>2 DEF CleanerOK
  <2>3. PICK g : g = <<w[2], lfWriter[w].date>>
      OBVIOUS
  <2>4. g \in Files /\ g[2] = lfWriter[w].date
    <3>1. w[2] \in LogPaths /\ lfWriter[w].date \in Dates
        BY <1>2, <1>8, WriterIs DEF LfTyped, LfHandles
    <3> QED
        BY <2>3, <3>1 DEF Files
  <2>5. CASE lfWriter[w].h = "open" /\ g = f
      BY <1>2, <1>4, <1>8, <2>1, <2>2, <2>3, <2>4, <2>5 DEF WriterOK, Lasting
  <2>6. CASE ~(lfWriter[w].h = "open" /\ g = f)
    <3>1. lfWriter'[w] = lfWriter[w]
        BY <1>8, <2>3, <2>6
    <3>2. lfWriter[w].h = "open" => lfFile'[g] = lfFile[g]
        BY <1>7, <2>4, <2>6
    <3> QED
        BY <1>4, <2>1, <2>3, <3>1, <3>2 DEF WriterOK, Lasting
  <2> QED
      BY <2>5, <2>6
<1>12. ASSUME NEW e \in lfClean PROVE CleanerOK(e)'
  <2>1. CleanerOK(e) /\ (e.file = NoFile \/ e.file \in Files)
      BY <1>2, CleanerIs DEF LfIInv
  <2> QED
      BY <1>4, <1>7, <2>1 DEF CleanerOK, Lasting
<1>13. CleanerOK(d)'
    BY <1>2, <1>4, <1>5 DEF CleanerOK
<1>14. ASSUME NEW i \in DOMAIN lfRec PROVE RecordOK(i)'
  <2>1. RecordOK(i)
      BY DEF LfIInv
  <2>2. ASSUME Lasting, lfRec[i].stamp >= lfNow - lfConf.maxAge
        PROVE  i \notin lfFile[f].recs
    <3>1. lfRec[i].stamp \in Nat /\ lfNow \in Nat /\ lfConf.maxAge \in Int
        BY <1>2, LfBounds, ConfFacts, LfRecIs DEF LfTyped
    <3>2. i \in lfFile[f].recs => lfRec[i].stamp < lfNow - lfConf.maxAge
        BY <1>1, <1>2, <2>2 DEF CleanerOK
    <3> QED
        BY <2>2, <3>1, <3>2
  <2>3. ASSUME NEW w \in Writers(lfConf), NEW x \in Dates, i \in lfFile[<<w[2], x>>].recs,
               Lasting, lfRec[i].stamp >= lfNow - lfConf.maxAge
        PROVE  i \in lfFile'[<<w[2], x>>].recs
    <3>1. PICK g : g = <<w[2], x>>
        OBVIOUS
    <3>2. g \in Files
        BY <1>2, <3>1, WriterIs DEF LfTyped, Files
    <3> QED
        BY <1>7, <2>2, <2>3, <3>1, <3>2
  <2> QED
      BY <1>4, <2>1, <2>3 DEF RecordOK, Lasting
<1> QED
    BY <1>4, <1>9, <1>10, <1>11, <1>12, <1>13, <1>14 DEF LfIInv

\* A write goes to the file of the day, if its writer can open that; one that is
\* refused has met a fault.
Written(w, i, date, s, ok) ==
    /\ i \in DOMAIN lfRec /\ w \in lfRec[i].todo /\ date \in Dates
    /\ lfWriter' = [lfWriter EXCEPT ![w] = s]
    /\ lfRec' = [lfRec EXCEPT ![i].todo = @ \ {w},
                              ![i].refused = IF ok THEN @ ELSE @ \cup {w}]
    /\ lfFile' = IF ok /\ ~s.unlinked THEN Appended(<<w[2], date>>, i) ELSE lfFile
    /\ lfClean' \subseteq lfClean \cup {x \in {[path |-> w[2], file |-> NoFile]} : lfConf.timed}
    /\ lfClean \subseteq lfClean'
    /\ lfHurt \subseteq lfHurt' /\ lfHurt' \subseteq lfHurt \cup {w}
    /\ UNCHANGED <<lfConf, lfNow, lfDirOK>>
    /\ ok => ~(s.unlinked /\ Lasting)
    /\ ~ok => w \in lfHurt'
    /\ s.h = "open" => ok /\ s.date = date
    /\ s.h = "closed" => w \in lfHurt'
    /\ ~lfConf.timed => s = lfWriter[w]
    /\ s.unlinked => lfWriter[w].unlinked /\ s.date = lfWriter[w].date

LEMMA WriteIs ==
    ASSUME LfIInv, NEW w \in Writers(lfConf), NEW i \in 1..MaxRecords, Write(w, i),
           NEW date, date = IF lfConf.timed THEN DateOf(lfNow) ELSE 0
    PROVE  \E s \in LfHandles, ok \in BOOLEAN : Written(w, i, date, s, ok)
<1>1. PICK old : old = lfWriter[w]
    OBVIOUS
<1>2. LfTyped /\ WriterOK(w) /\ old \in LfHandles /\ lfNow \in 0..MaxDay /\ lfConf.timed \in BOOLEAN
    BY <1>1, ConfFacts DEF LfIInv, LfTyped
<1>3. date \in Dates
  <2>1. 0 \in 0..MaxDay /\ DateOf(lfNow) \in Dates
      BY <1>2, LfBounds, DatesIn
  <2>2. 0 \in Dates
      BY LfBounds, DatesGrow DEF Dates
  <2> QED
      BY <2>1, <2>2
<1>4. PICK rotates \in BOOLEAN : rotates <=> NeedsRotation(w, date)
    OBVIOUS
<1>5. rotates <=> old.h = "nil" \/ old.date # date
    BY <1>1, <1>4 DEF NeedsRotation
<1>6. PICK s : s = IF rotates THEN Rotated(w, date) ELSE old
    OBVIOUS
<1>7. rotates => IF old.h # "closed" /\ lfDirOK THEN s = [h |-> "open", date |-> date, unlinked |-> FALSE]
                 ELSE IF old.h = "open" /\ ~lfDirOK THEN s = [old EXCEPT !.h = "closed"]
                 ELSE s = old
  <2>1. SUFFICES ASSUME rotates
                 PROVE  IF old.h # "closed" /\ lfDirOK THEN s = [h |-> "open", date |-> date, unlinked |-> FALSE]
                        ELSE IF old.h = "open" /\ ~lfDirOK THEN s = [old EXCEPT !.h = "closed"]
                        ELSE s = old
      OBVIOUS
  <2>2. CASE old.h # "closed" /\ lfDirOK
      BY <1>1, <1>6, <2>1, <2>2 DEF Rotated
  <2>3. CASE ~(old.h # "closed" /\ lfDirOK) /\ old.h = "open" /\ ~lfDirOK
      BY <1>1, <1>6, <2>1, <2>3 DEF Rotated
  <2>4. CASE ~(old.h # "closed" /\ lfDirOK) /\ ~(old.h = "open" /\ ~lfDirOK)
      BY <1>1, <1>6, <2>1, <2>4 DEF Rotated
  <2> QED
      BY <2>2, <2>3, <2>4
<1>8. /\ s \in LfHandles
      /\ s.h = "open" => s.date = date
      /\ rotates /\ s.h = "open" => lfDirOK /\ ~s.unlinked
      /\ rotates /\ s.h # "open" => old.h = "closed" \/ ~lfDirOK
      /\ s.h = "closed" => old.h = "closed" \/ (rotates /\ ~lfDirOK)
      /\ ~rotates => s = old
      /\ s.unlinked => old.unlinked /\ s.date = old.date
  <2>1. CASE ~rotates
      BY <1>2, <1>5, <1>6, <2>1
  <2>2. CASE rotates /\ old.h # "closed" /\ lfDirOK
    <3>1. s = [h |-> "open", date |-> date, unlinked |-> FALSE]
        BY <1>7, <2>2
    <3>2. s \in LfHandles /\ s.h = "open" /\ s.date = date /\ s.unlinked = FALSE
        BY <1>3, <3>1 DEF LfHandles
    <3> QED
        BY <2>2, <3>2
  <2>3. CASE rotates /\ old.h = "open" /\ ~lfDirOK
    <3>1. s = [old EXCEPT !.h = "closed"]
        BY <1>7, <2>3
    <3>2. s \in LfHandles /\ s.h = "closed" /\ s.date = old.date /\ s.unlinked = old.unlinked
        BY <1>2, <3>1 DEF LfHandles
    <3> QED
        BY <2>3, <3>2
  <2>4. CASE rotates /\ (old.h = "closed" \/ (old.h # "open" /\ ~lfDirOK))
    <3>1. s = old
        BY <1>7, <2>4
    <3> QED
        BY <1>2, <2>4, <3>1
  <2> QED
      BY <2>1, <2>2, <2>3, <2>4
<1>9. PICK ok \in BOOLEAN : ok <=> s.h = "open" /\ (rotates => s.date = date)
    OBVIOUS
<1>10. PICK opened \in BOOLEAN : opened <=> rotates /\ s.h = "open"
    OBVIOUS
<1>11. ok <=> s.h = "open"
    BY <1>8, <1>9
<1>12. /\ i \in DOMAIN lfRec /\ w \in lfRec[i].todo
       /\ lfWriter' = [lfWriter EXCEPT ![w] = s]
       /\ lfRec' = [lfRec EXCEPT ![i].todo = @ \ {w}, ![i].refused = IF ok THEN @ ELSE @ \cup {w}]
       /\ lfFile' = IF ok /\ ~s.unlinked THEN Appended(<<w[2], s.date>>, i) ELSE lfFile
       /\ lfClean' = IF opened /\ lfConf.timed /\ lfConf.maxAge > 0
                     THEN lfClean \cup {[path |-> w[2], file |-> NoFile]} ELSE lfClean
       /\ lfHurt' = IF rotates /\ ~lfDirOK THEN lfHurt \cup {w} ELSE lfHurt
       /\ UNCHANGED <<lfConf, lfNow, lfDirOK>>
  <2>1. /\ i \in DOMAIN lfRec /\ w \in lfRec[i].todo
        /\ UNCHANGED <<lfConf, lfNow, lfDirOK>>
      BY DEF Write
  <2>2. lfWriter' = [lfWriter EXCEPT ![w] = s]
      BY <1>1, <1>4, <1>6 DEF Write
  <2>3. lfRec' = [lfRec EXCEPT ![i].todo = @ \ {w}, ![i].refused = IF ok THEN @ ELSE @ \cup {w}]
      BY <1>1, <1>4, <1>6, <1>9 DEF Write
  <2>4. lfFile' = IF ok /\ ~s.unlinked THEN Appended(<<w[2], s.date>>, i) ELSE lfFile
      BY <1>1, <1>4, <1>6, <1>9 DEF Write
  <2>5. lfClean' = IF opened /\ lfConf.timed /\ lfConf.maxAge > 0
                   THEN lfClean \cup {[path |-> w[2], file |-> NoFile]} ELSE lfClean
      BY <1>1, <1>4, <1>6, <1>10 DEF Write
  <2>6. lfHurt' = IF rotates /\ ~lfDirOK THEN lfHurt \cup {w} ELSE lfHurt
      BY <1>1, <1>4 DEF Write
  <2> QED
      BY <2>1, <2>2, <2>3, <2>4, <2>5, <2>6
<1>13. ok => ~(s.unlinked /\ Lasting)
  <2>1. SUFFICES ASSUME ok, s.unlinked, Lasting PROVE FALSE
      OBVIOUS
  <2>2. ~rotates /\ s = old /\ old.unlinked /\ old.date = date
      BY <1>8, <1>11, <2>1
  <2>3. lfConf.timed /\ old.date < DateOf(lfNow) /\ old.date \in Nat
      BY <1>1, <1>2, <2>1, <2>2 DEF WriterOK, LfHandles, Dates
  <2> QED
      BY <1>2, <2>2, <2>3, DatesGrow
<1>14. old.h = "closed" => w \in lfHurt
    BY <1>1, <1>2 DEF WriterOK
<1>15. ~ok => w \in lfHurt'
  <2>1. SUFFICES ASSUME ~ok PROVE w \in lfHurt'
      OBVIOUS
  <2>2. s.h # "open"
      BY <1>11, <2>1
  <2>3. CASE rotates
      BY <1>8, <1>12, <1>14, <2>2, <2>3
  <2>4. CASE ~rotates
    <3>1. old.h = "closed"
        BY <1>2, <1>5, <1>8, <2>2, <2>4 DEF LfHandles
    <3> QED
        BY <1>12, <1>14, <3>1
  <2> QED
      BY <2>3, <2>4
<1>16. s.h = "closed" => w \in lfHurt'
    BY <1>8, <1>12, <1>14
<1>17. ~lfConf.timed => s = lfWriter[w]
    BY <1>1, <1>2, <1>5, <1>8 DEF WriterOK
<1>18. lfFile' = IF ok /\ ~s.unlinked THEN Appended(<<w[2], date>>, i) ELSE lfFile
    BY <1>8, <1>11, <1>12
<1>19. /\ lfClean' \subseteq lfClean \cup {x \in {[path |-> w[2], file |-> NoFile]} : lfConf.timed}
       /\ lfClean \subseteq lfClean'
       /\ lfHurt \subseteq lfHurt' /\ lfHurt' \subseteq lfHurt \cup {w}
    BY <1>12
<1>20. s \in LfHandles /\ ok \in BOOLEAN /\ (s.h = "open" => ok /\ s.date = date)
       /\ (s.unlinked => lfWriter[w].unlinked /\ s.date = lfWriter[w].date)
    BY <1>1, <1>8, <1>11
<1> QED
    BY <1>3, <1>12, <1>13, <1>15, <1>16, <1>17, <1>18, <1>19, <1>20, Zenon DEF Written

LEMMA WriteKeeps ==
    ASSUME LfIInv, NEW w \in Writers(lfConf), NEW i \in 1..MaxRecords, Write(w, i)
    PROVE  LfIInv'
<1>1. PICK date : date = IF lfConf.timed THEN DateOf(lfNow) ELSE 0
    OBVIOUS
<1>a. PICK s \in LfHandles, ok \in BOOLEAN : Written(w, i, date, s, ok)
    BY <1>1, WriteIs
<1>2. /\ i \in DOMAIN lfRec /\ w \in lfRec[i].todo /\ date \in Dates
      /\ lfWriter' = [lfWriter EXCEPT ![w] = s]
      /\ lfRec' = [lfRec EXCEPT ![i].todo = @ \ {w}, ![i].refused = IF ok THEN @ ELSE @ \cup {w}]
      /\ lfFile' = IF ok /\ ~s.unlinked THEN Appended(<<w[2], date>>, i) ELSE lfFile
      /\ lfClean' \subseteq lfClean \cup {x \in {[path |-> w[2], file |-> NoFile]} : lfConf.timed}
      /\ lfClean \subseteq lfClean'
      /\ lfHurt \subseteq lfHurt' /\ lfHurt' \subseteq lfHurt \cup {w}
      /\ UNCHANGED <<lfConf, lfNow, lfDirOK>>
      /\ ok => ~(s.unlinked /\ Lasting)
      /\ ~ok => w \in lfHurt'
      /\ s.h = "open" => ok /\ s.date = date
      /\ s.h = "closed" => w \in lfHurt'
      /\ ~lfConf.timed => s = lfWriter[w]
      /\ s.unlinked => lfWriter[w].unlinked /\ s.date = lfWriter[w].date
    BY <1>a, Zenon DEF Written
<1>3. /\ LfTyped /\ lfConf \in LogConfs /\ lfConf.timed \in BOOLEAN /\ lfNow \in Nat
      /\ w[2] \in LogPaths /\ w \in AllWriters /\ lfConf.maxAge \in Int
    BY LfBounds, ConfFacts, WriterIs DEF LfIInv, LfTyped
<1>4. PICK f : f = <<w[2], date>>
    OBVIOUS
<1>5. f \in Files /\ f[1] = w[2] /\ f[2] = date
    BY <1>2, <1>3, <1>4 DEF Files
<1>6. PICK wrote \in BOOLEAN : wrote <=> ok /\ ~s.unlinked
    OBVIOUS
\* The records.
<1>7. PICK old : old = lfRec[i]
    OBVIOUS
<1>8. old \in LfRecs /\ w \in old.todo /\ RecordOK(i)
    BY <1>2, <1>3, <1>7, LfRecIs DEF LfIInv
<1>9. PICK todo, refused : todo = old.todo \ {w} /\ refused = IF ok THEN old.refused ELSE old.refused \cup {w}
    OBVIOUS
<1>10. PICK rec : rec = [old EXCEPT !.todo = todo, !.refused = refused]
    OBVIOUS
<1>11. /\ rec \in LfRecs /\ rec.level = old.level /\ rec.stamp = old.stamp
       /\ rec.todo = todo /\ rec.refused = refused
    BY <1>3, <1>8, <1>9, <1>10 DEF LfRecs
<1>12. lfRec' = [lfRec EXCEPT ![i] = rec]
    BY <1>2, <1>7, <1>8, <1>9, <1>10 DEF LfRecs
<1>13. /\ lfRec' \in Seq(LfRecs) /\ DOMAIN lfRec' = DOMAIN lfRec /\ lfRec'[i] = rec
       /\ \A j \in DOMAIN lfRec \ {i} : lfRec'[j] = lfRec[j]
  <2>1. lfRec \in Seq(LfRecs)
      BY <1>3 DEF LfTyped
  <2>2. lfRec' \in Seq(LfRecs)
    <3>1. [lfRec EXCEPT ![i] = rec] \in Seq(LfRecs)
        BY <1>2, <1>11, <2>1, ExceptSeq
    <3> QED
        BY <1>12, <3>1
  <2> QED
      BY <1>2, <1>12, <2>1, <2>2
<1>14. \A j \in DOMAIN lfRec : lfRec'[j].level = lfRec[j].level /\ lfRec'[j].stamp = lfRec[j].stamp
    BY <1>7, <1>11, <1>13
\* The files.
<1>15. PICK was : was = lfFile[f]
    OBVIOUS
<1>16. was \in LfFiles /\ FileOK(f)
    BY <1>3, <1>5, <1>15, FileIs DEF LfIInv
<1>17. PICK recs : recs = IF was.there THEN was.recs \cup {i} ELSE {i}
    OBVIOUS
<1>18. recs = was.recs \cup {i} /\ recs \in SUBSET Nat
  <2>1. ~was.there => was.recs = {}
      BY <1>15, <1>16 DEF FileOK
  <2>2. i \in Nat /\ was.recs \subseteq Nat
      BY <1>16, LfBounds DEF LfFiles
  <2> QED
      BY <1>17, <2>1, <2>2
<1>19. PICK new : new = [there |-> TRUE, mtime |-> lfNow, recs |-> recs]
    OBVIOUS
<1>20. new \in LfFiles /\ new.there = TRUE /\ new.mtime = lfNow /\ new.recs = recs
    BY <1>3, <1>18, <1>19 DEF LfFiles
<1>21. lfFile' = IF wrote THEN [lfFile EXCEPT ![f] = new] ELSE lfFile
  <2>1. CASE wrote
    <3>1. lfFile' = Appended(f, i)
        BY <1>2, <1>4, <1>6, <2>1
    <3> QED
        BY <1>15, <1>17, <1>19, <2>1, <3>1 DEF Appended
  <2>2. CASE ~wrote
      BY <1>2, <1>6, <2>2
  <2> QED
      BY <2>1, <2>2
<1>22. /\ lfFile' \in [Files -> LfFiles]
       /\ wrote => lfFile'[f] = new
       /\ ~wrote => lfFile'[f] = lfFile[f]
       /\ \A g \in Files \ {f} : lfFile'[g] = lfFile[g]
    BY <1>3, <1>5, <1>20, <1>21 DEF LfTyped
<1>23. /\ \A g \in Files : lfFile[g].recs \subseteq lfFile'[g].recs
       /\ \A g \in Files : lfFile[g].there => lfFile'[g].there
    BY <1>15, <1>18, <1>20, <1>22
\* The writers.
<1>24. /\ lfWriter'[w] = s /\ \A v \in Writers(lfConf) \ {w} : lfWriter'[v] = lfWriter[v]
    BY <1>2, <1>3 DEF LfTyped
<1>25. LfTyped'
  <2>1. lfWriter' \in [Writers(lfConf) -> LfHandles]
      BY <1>2, <1>3 DEF LfTyped
  <2>2. lfClean' \subseteq LfCleaners
    <3>1. [path |-> w[2], file |-> NoFile] \in LfCleaners
        BY <1>3 DEF LfCleaners
    <3>2. lfClean \subseteq LfCleaners
        BY <1>3 DEF LfTyped
    <3> QED
        BY <1>2, <3>1, <3>2
  <2>3. lfHurt' \subseteq Writers(lfConf)
      BY <1>2, <1>3 DEF LfTyped
  <2> QED
      BY <1>2, <1>3, <1>13, <1>22, <2>1, <2>2, <2>3 DEF LfTyped
<1>26. ASSUME NEW g \in Files PROVE FileOK(g)'
  <2>1. FileOK(g)
      BY DEF LfIInv
  <2>2. CASE g = f /\ wrote
    <3>1. lfFile'[f].mtime <= lfNow' /\ lfFile'[f].there
        BY <1>2, <1>3, <1>20, <1>22, <2>2
    <3>2. lfConf.timed => DateOf(lfFile'[f].mtime) = f[2]
        BY <1>1, <1>5, <1>20, <1>22, <2>2
    <3>3. ASSUME NEW j \in lfFile'[f].recs
          PROVE  /\ j \in DOMAIN lfRec /\ lfRec[j].stamp <= lfNow /\ f[1] \in Promised(lfRec[j].level)
                 /\ lfConf.timed => DateOf(lfRec[j].stamp) <= f[2]
      <4>1. CASE j \in was.recs
        <5>1. j \in DOMAIN lfRec /\ lfRec[j].stamp <= was.mtime /\ f[1] \in Promised(lfRec[j].level)
              /\ (lfConf.timed => DateOf(lfRec[j].stamp) <= f[2]) /\ was.mtime <= lfNow
            BY <1>15, <1>16, <4>1 DEF FileOK
        <5>2. was.mtime \in Nat /\ lfRec[j].stamp \in Nat
            BY <1>3, <1>16, <5>1, LfRecIs DEF LfFiles
        <5> QED
            BY <1>3, <5>1, <5>2
      <4>2. CASE j = i
        <5>1. lfRec[j].stamp <= lfNow /\ lfRec[j].stamp \in Nat
            BY <1>2, <1>3, <1>8, <4>2, LfRecIs DEF RecordOK
        <5>2. Enabled(lfConf, w[1], lfRec[j].level) /\ lfRec[j].level \in LogLevels
            BY <1>2, <1>3, <1>7, <1>8, <4>2, LfRecIs DEF RecordOK
        <5>3. f[1] \in Promised(lfRec[j].level)
            BY <1>3, <1>5, <5>2, EnabledIsPromised
        <5>4. lfConf.timed => DateOf(lfRec[j].stamp) <= f[2]
            BY <1>1, <1>3, <1>5, <5>1, DatesGrow
        <5> QED
            BY <1>2, <4>2, <5>1, <5>3, <5>4
      <4> QED
          BY <1>18, <1>20, <1>22, <2>2, <3>3, <4>1, <4>2
    <3>4. PICK mtime : mtime = lfNow
        OBVIOUS
    <3>5. lfFile'[f].mtime = mtime
        BY <1>20, <1>22, <2>2, <3>4
    <3> QED
      <4>1. lfConf'.timed => DateOf(lfFile[g].mtime)' = g[2]
          BY <1>2, <2>2, <3>2 DEF DateOf
      <4>2. ASSUME NEW j \in lfFile'[g].recs
            PROVE  /\ j \in DOMAIN lfRec' /\ lfRec'[j].stamp <= lfFile'[g].mtime
                   /\ g[1] \in Promised(lfRec[j].level)'
                   /\ lfConf'.timed => DateOf(lfRec[j].stamp)' <= g[2]
        <5>1. /\ j \in DOMAIN lfRec /\ lfRec[j].stamp <= lfNow /\ g[1] \in Promised(lfRec[j].level)
              /\ lfConf.timed => DateOf(lfRec[j].stamp) <= g[2]
            BY <2>2, <3>3, <4>2
        <5>2. lfRec'[j].level = lfRec[j].level /\ lfRec'[j].stamp = lfRec[j].stamp /\ j \in DOMAIN lfRec'
            BY <1>13, <1>14, <5>1
        <5>3. lfRec'[j].stamp <= lfFile'[g].mtime
            BY <2>2, <3>4, <3>5, <5>1, <5>2
        <5>4. g[1] \in Promised(lfRec[j].level)'
            BY <1>2, <5>1, <5>2 DEF Promised
        <5>5. lfConf'.timed => DateOf(lfRec[j].stamp)' <= g[2]
            BY <1>2, <5>1, <5>2 DEF DateOf
        <5> QED
            BY <5>2, <5>3, <5>4, <5>5
      <4>3. lfFile'[g].mtime <= lfNow' /\ lfFile'[g].there
          BY <2>2, <3>1
      <4> QED
          BY <4>1, <4>2, <4>3 DEF FileOK
  <2>3. CASE ~(g = f /\ wrote)
    <3>1. lfFile'[g] = lfFile[g]
        BY <1>5, <1>22, <2>3
    <3>2. \A j \in lfFile[g].recs : j \in DOMAIN lfRec
        BY <2>1 DEF FileOK
    <3> QED
      <4>1. ASSUME NEW j \in lfFile[g].recs
            PROVE  /\ j \in DOMAIN lfRec' /\ lfRec'[j].stamp <= lfFile[g].mtime
                   /\ g[1] \in Promised(lfRec[j].level)'
                   /\ lfConf'.timed => DateOf(lfRec[j].stamp)' <= g[2]
        <5>1. /\ j \in DOMAIN lfRec /\ lfRec[j].stamp <= lfFile[g].mtime
              /\ g[1] \in Promised(lfRec[j].level)
              /\ lfConf.timed => DateOf(lfRec[j].stamp) <= g[2]
            BY <2>1, <4>1 DEF FileOK
        <5> QED
            BY <1>2, <1>13, <1>14, <5>1 DEF Promised, DateOf
      <4>2. DateOf(lfFile[g].mtime)' = DateOf(lfFile[g].mtime)
          BY <3>1 DEF DateOf
      <4> QED
          BY <1>2, <2>1, <3>1, <4>1, <4>2 DEF FileOK
  <2> QED
      BY <2>2, <2>3
<1>27. ASSUME NEW v \in Writers(lfConf) PROVE WriterOK(v)'
  <2>1. WriterOK(v)
      BY DEF LfIInv
  <2>2. CASE v = w
    <3>1. s.h = "open" => s.unlinked \/ lfFile'[<<w[2], s.date>>].there
      <4>1. SUFFICES ASSUME s.h = "open", ~s.unlinked PROVE lfFile'[<<w[2], s.date>>].there
          OBVIOUS
      <4>2. wrote /\ <<w[2], s.date>> = f
          BY <1>2, <1>4, <1>6, <4>1
      <4> QED
          BY <1>20, <1>22, <4>2
    <3>2. s.unlinked /\ Lasting => s.date < DateOf(lfNow)
        BY <1>2, <2>1, <2>2 DEF WriterOK
    <3>3. ~lfConf.timed => s.h = "open" /\ s.date = 0 /\ ~s.unlinked
        BY <1>2, <2>1, <2>2 DEF WriterOK
    <3>4. s.h = "closed" => w \in lfHurt'
        BY <1>2
    <3>5. DateOf(lfNow)' = DateOf(lfNow) /\ (Lasting' <=> Lasting)
        BY <1>2 DEF DateOf, Lasting
    <3> QED
        BY <1>2, <1>24, <2>2, <3>1, <3>2, <3>3, <3>4, <3>5 DEF WriterOK
  <2>3. CASE v # w
    <3>1. lfWriter'[v] = lfWriter[v] /\ lfWriter[v] \in LfHandles
        BY <1>3, <1>24, <2>3 DEF LfTyped
    <3>2. PICK g : g = <<v[2], lfWriter[v].date>>
        OBVIOUS
    <3>3. g \in Files
        BY <1>3, <3>1, <3>2, WriterIs DEF LfHandles, Files
    <3>4. lfFile[g].there => lfFile'[g].there
        BY <1>23, <3>3
    <3> QED
        BY <1>2, <2>1, <3>1, <3>2, <3>4 DEF WriterOK, Lasting, DateOf
  <2> QED
      BY <2>2, <2>3
<1>28. ASSUME NEW c \in lfClean' PROVE CleanerOK(c)'
  <2>1. CASE c \in lfClean
    <3>1. CleanerOK(c) /\ (c.file = NoFile \/ c.file \in Files)
        BY <1>3, <2>1, CleanerIs DEF LfIInv
    <3>2. SUFFICES ASSUME c.file # NoFile, Lasting
                   PROVE  /\ c.file[2] < DateOf(lfNow)
                          /\ \A j \in lfFile'[c.file].recs : lfRec'[j].stamp < lfNow - lfConf.maxAge
        BY <1>2, <3>1 DEF CleanerOK, Lasting, DateOf
    <3>3. c.file[2] < date /\ c.file \in Files /\ c.file[2] \in Nat
        BY <1>1, <1>3, <3>1, <3>2, FileIs DEF CleanerOK
    <3>4. date \in Nat
        BY <1>2 DEF Dates
    <3>5. c.file # f
        BY <1>5, <3>3, <3>4
    <3>6. lfFile'[c.file] = lfFile[c.file]
        BY <1>22, <3>3, <3>5
    <3>7. \A j \in lfFile[c.file].recs : j \in DOMAIN lfRec
        BY <3>3 DEF LfIInv, FileOK
    <3> QED
        BY <1>14, <3>1, <3>2, <3>6, <3>7 DEF CleanerOK
  <2>2. CASE c \notin lfClean
    <3>1. lfConf.timed /\ c = [path |-> w[2], file |-> NoFile]
        BY <1>2, <2>2
    <3>2. c.file = NoFile
        BY <3>1
    <3> QED
        BY <1>2, <3>1, <3>2 DEF CleanerOK
  <2> QED
      BY <2>1, <2>2
<1>29. ASSUME NEW j \in DOMAIN lfRec PROVE RecordOK(j)'
  <2>1. RecordOK(j)
      BY DEF LfIInv
  <2>2. /\ lfRec'[j].todo \subseteq lfRec[j].todo /\ lfRec'[j].refused \subseteq lfRec[j].refused \cup {w}
        /\ lfRec'[j].refused \subseteq lfHurt'
        /\ \A v \in Writers(lfConf) \ {w} :
              /\ v \notin lfRec'[j].todo => v \notin lfRec[j].todo
              /\ v \notin lfRec'[j].refused => v \notin lfRec[j].refused
        /\ j # i => lfRec'[j] = lfRec[j]
    <3>1. lfRec[j].refused \subseteq lfHurt'
        BY <1>2, <2>1 DEF RecordOK
    <3>2. CASE j = i
        BY <1>2, <1>7, <1>9, <1>11, <1>13, <3>1, <3>2
    <3>3. CASE j # i
        BY <1>13, <3>1, <3>3
    <3> QED
        BY <3>2, <3>3
  <2>3. ASSUME NEW v \in Writers(lfConf), NEW d \in Dates, j \in lfFile[<<v[2], d>>].recs
        PROVE  j \in lfFile'[<<v[2], d>>].recs
    <3>1. PICK g : g = <<v[2], d>>
        OBVIOUS
    <3>2. g \in Files
        BY <1>3, <3>1, WriterIs DEF Files
    <3> QED
        BY <1>23, <2>3, <3>1, <3>2
  <2>4. ASSUME NEW v \in Writers(lfConf), Enabled(lfConf, v[1], lfRec[j].level),
               v \notin lfRec'[j].todo, v \notin lfRec'[j].refused,
               Lasting, lfRec[j].stamp >= lfNow - lfConf.maxAge
        PROVE  \E d \in Dates : j \in lfFile'[<<v[2], d>>].recs
    <3>1. CASE v \notin lfRec[j].todo /\ v \notin lfRec[j].refused
        BY <2>1, <2>3, <2>4, <3>1 DEF RecordOK
    <3>2. CASE ~(v \notin lfRec[j].todo /\ v \notin lfRec[j].refused)
      <4>1. v = w /\ j = i
          BY <2>2, <2>4, <3>2
      <4>2. ok /\ wrote
          BY <1>2, <1>6, <1>9, <1>11, <1>13, <2>4, <4>1
      <4>3. j \in lfFile'[<<v[2], date>>].recs
          BY <1>4, <1>18, <1>20, <1>22, <4>1, <4>2
      <4> QED
          BY <1>2, <4>3
    <3> QED
        BY <3>1, <3>2
  <2>5. lfRec'[j].level = lfRec[j].level /\ lfRec'[j].stamp = lfRec[j].stamp
      BY <1>14
  <2> QED
      BY <1>2, <2>1, <2>2, <2>4, <2>5 DEF RecordOK, Lasting
<1> QED
    BY <1>2, <1>13, <1>25, <1>26, <1>27, <1>28, <1>29 DEF LfIInv

LEMMA LfStep == LfIInv /\ [LogNext]_lfVars => LfIInv'
<1> SUFFICES ASSUME LfIInv, [LogNext]_lfVars PROVE LfIInv'
    OBVIOUS
<1>1. DOMAIN lfWriter = Writers(lfConf)
    BY DEF LfIInv, LfTyped
<1>2. CASE UNCHANGED lfVars
    BY <1>2 DEF lfVars, LfIInv, LfTyped, FileOK, WriterOK, CleanerOK, RecordOK, Lasting, Promised, DateOf
<1>3. CASE \E l \in LogLevels : Log(l)
    BY <1>3, LogKeeps
<1>4. CASE \E w \in DOMAIN lfWriter : CloseWriter(w) \/ \E i \in 1..MaxRecords : Write(w, i)
    BY <1>1, <1>4, CloseWriterKeeps, WriteKeeps
<1>5. CASE \E c \in lfClean : CleanRemoves(c) \/ \E f \in Files : CleanPicks(c, f)
    BY <1>5, CleanRemovesKeeps, CleanPicksKeeps
<1>6. CASE DayPasses \/ DiskFails \/ DiskRecovers
    BY <1>6, DayPassesKeeps, DiskKeeps
<1> QED
    BY <1>2, <1>3, <1>4, <1>5, <1>6 DEF LogNext

LEMMA LfInit == LogInit => LfIInv
<1> SUFFICES ASSUME LogInit PROVE LfIInv
    OBVIOUS
<1>1. /\ lfConf \in LogConfs /\ lfNow = 0 /\ lfDirOK = TRUE
      /\ lfWriter = [w \in Writers(lfConf) |->
            [h |-> IF lfConf.timed THEN "nil" ELSE "open", date |-> 0, unlinked |-> FALSE]]
      /\ lfFile = [f \in Files |-> [there |-> FALSE, mtime |-> 0, recs |-> {}]]
      /\ lfRec = <<>> /\ lfClean = {} /\ lfHurt = {}
    BY DEF LogInit
<1>2. 0 \in Dates /\ 0 \in 0..MaxDay
    BY LfBounds, DatesGrow DEF Dates
<1>3. PICK h \in {"nil", "open"} : h = IF lfConf.timed THEN "nil" ELSE "open"
    OBVIOUS
<1>4. PICK s : s = [h |-> h, date |-> 0, unlinked |-> FALSE]
    OBVIOUS
<1>5. s \in LfHandles /\ s.h = h /\ s.date = 0 /\ s.unlinked = FALSE
    BY <1>2, <1>4 DEF LfHandles
<1>6. lfWriter = [w \in Writers(lfConf) |-> s]
    BY <1>1, <1>3, <1>4
<1>7. PICK none : none = [there |-> FALSE, mtime |-> 0, recs |-> {}]
    OBVIOUS
<1>8. none \in LfFiles /\ none.there = FALSE /\ none.mtime = 0 /\ none.recs = {}
    BY <1>7 DEF LfFiles
<1>9. lfFile = [f \in Files |-> none]
    BY <1>1, <1>7
<1>10. lfRec \in Seq(LfRecs) /\ DOMAIN lfRec = {}
    BY <1>1
<1>11. LfTyped
    BY <1>1, <1>2, <1>5, <1>6, <1>8, <1>9, <1>10 DEF LfTyped
<1>12. ASSUME NEW f \in Files PROVE FileOK(f)
    BY <1>1, <1>8, <1>9 DEF FileOK
<1>13. ASSUME NEW w \in Writers(lfConf) PROVE WriterOK(w)
    BY <1>3, <1>5, <1>6 DEF WriterOK
<1> QED
    BY <1>1, <1>10, <1>11, <1>12, <1>13 DEF LfIInv

LEMMA LfIInvImplies == LfIInv => LogInv
<1> SUFFICES ASSUME LfIInv PROVE LogInv
    OBVIOUS
<1>1. LfTyped /\ lfConf \in LogConfs /\ lfNow \in Nat /\ DOMAIN lfWriter = Writers(lfConf)
    BY LfBounds DEF LfIInv, LfTyped
<1>2. LogTypeOK
  <2>1. ASSUME NEW w \in DOMAIN lfWriter
        PROVE  /\ lfWriter[w].h \in {"nil", "open", "closed"} /\ lfWriter[w].date \in Dates
               /\ lfWriter[w].h = "closed" => w \in lfHurt
               /\ lfWriter[w].h = "open" =>
                     lfWriter[w].unlinked \/ lfFile[<<w[2], lfWriter[w].date>>].there \/ ~lfConf.timed
    <3>1. lfWriter[w] \in LfHandles /\ WriterOK(w)
        BY <1>1 DEF LfIInv, LfTyped
    <3> QED
        BY <3>1 DEF LfHandles, WriterOK
  <2>2. ASSUME NEW f \in Files
        PROVE  lfFile[f].mtime \in 0..lfNow /\ lfFile[f].recs \subseteq DOMAIN lfRec
    <3>1. FileOK(f) /\ lfFile[f].mtime \in Nat
        BY <1>1, FileIs DEF LfIInv
    <3> QED
        BY <1>1, <3>1 DEF FileOK
  <2>3. lfNow \in 0..MaxDay /\ lfHurt \subseteq DOMAIN lfWriter
      BY <1>1 DEF LfTyped
  <2> QED
      BY <1>1, <2>1, <2>2, <2>3 DEF LogTypeOK
<1>3. NothingMisfiled
    BY DEF LfIInv, FileOK, NothingMisfiled
<1>4. KeptWhileYoung
  <2>1. SUFFICES ASSUME Lasting, NEW i \in DOMAIN lfRec, lfRec[i].todo = {}, lfRec[i].refused = {},
                        lfRec[i].stamp >= lfNow - lfConf.maxAge, NEW p \in Promised(lfRec[i].level)
                 PROVE  \E d \in Dates : i \in lfFile[<<p, d>>].recs
      BY DEF KeptWhileYoung, Lasting
  <2>2. PICK w \in Writers(lfConf) : w[2] = p /\ Enabled(lfConf, w[1], lfRec[i].level)
      BY <1>1, LfRecIs, PromisedIsEnabled
  <2>3. RecordOK(i)
      BY DEF LfIInv
  <2> QED
      BY <2>1, <2>2, <2>3 DEF RecordOK
<1>5. RefusedOnlyAfterFault
    BY DEF LfIInv, RecordOK, RefusedOnlyAfterFault
<1> QED
    BY <1>2, <1>3, <1>4, <1>5 DEF LogInv

\* No record is in a file that its level or its day does not belong in; as long
\* as no date stands for more days than MaxAge, a record that was written is in
\* every file it was promised to until it is older than that, whatever the
\* cleaners of cleanOldFiles do between Lstat and Remove; and only a writer that
\* has met a fault of the disk, or was closed, refuses one.
THEOREM LogsHold == LogSpec => []LogInv
<1>1. LogInit => LfIInv
    BY LfInit
<1>2. LfIInv /\ [LogNext]_lfVars => LfIInv'
    BY LfStep
<1>3. LfIInv => LogInv
    BY LfIInvImplies
<1> QED
    BY <1>1, <1>2, <1>3, PTL DEF LogSpec
=============================================================================
