----------------------------- MODULE RedisStore -----------------------------
(****************************************************************************)
(* Typed values in Redis: ValueStore with its codecs and TTLs, keyspaces,   *)
(* ConsumeIfExists, ScanKeys and DeleteByPattern, used by several processes *)
(* at once.  A command may be lost, its answer may be lost, and go-redis    *)
(* may then send it a second time.  Exists, which only reads, is left out.  *)
(*                                                                          *)
(* A key is the sequence of its segments between colons.  A payload is the  *)
(* form it has and the value in it; checks for nil and empty arguments and  *)
(* the observer's events are left out.                                      *)
(****************************************************************************)
EXTENDS Integers, Sequences, FiniteSets

CONSTANTS
    Users, Stores,     \* user -> [space, codec, ttl, ratio, uses], its store and TTLs
    Purges,            \* calls of DeleteByPattern on a keyspace of New: [space, batchSize,
                       \* dryRun]
    Second,            \* time.Second in the unit of the TTLs
    MaxWrites, MaxPurges,
    MaxScans           \* SCANs before the one that ends the iteration

VARIABLES
    entries,   \* Redis: key -> entry
    user,      \* user -> the call it is in
    purge,     \* the call of DeleteByPattern or ScanKeys
    writes,    \* writes so far: the number of the last one
    wins,      \* <<user, write>> for every ConsumeIfExists that said true
    purges

stVars == <<entries, user, purge, writes, wins, purges>>

\* What JitterTTL can return: symmetric around the TTL, and one second where
\* that leaves nothing.  The ratio is in halves.
JitterTTL(ttl, ratio) ==
    LET r == IF ratio > 2 THEN 2 ELSE ratio
        maxJitter == (ttl * r) \div 2
    IN  IF ttl <= 0 \/ ratio <= 0 \/ maxJitter <= 0 THEN {ttl}
        ELSE {IF ttl + delta <= 0 THEN Second ELSE ttl + delta : delta \in (-maxJitter)..maxJitter}

-----------------------------------------------------------------------------
(* Keyspaces.                                                               *)

\* NormalizeNamespace: colons at the ends, here empty segments, are cut off.
NormalizeNamespace(ns) ==
    LET full == {i \in 1..Len(ns) : ns[i] # ""}
        lo == CHOOSE i \in full : \A j \in full : i <= j
        hi == CHOOSE i \in full : \A j \in full : j <= i
    IN  IF full = {} THEN <<>> ELSE SubSeq(ns, lo, hi)

\* Keyspace.Child; an empty part adds nothing.
Child(parent, child) == NormalizeNamespace(parent) \o NormalizeNamespace(child)

\* The namespace of New(space[1]).Child(space[2]).
NamespaceOf(space) ==
    IF Len(space) = 1 THEN NormalizeNamespace(space[1]) ELSE Child(space[1], space[2])

\* Keyspace.Prefix.
Prefix(space, key) == NamespaceOf(space) \o key

\* Faulty variant: the pattern begins with a star.
MatchesAnywhere(space, key) ==
    LET ns == NamespaceOf(space)
    IN  \E i \in 1..Len(key) : i - 1 + Len(ns) < Len(key) /\ SubSeq(key, i, i - 1 + Len(ns)) = ns

\* What the pattern Pattern("*") matches: something must follow the colon.
Matches(space, key) ==
    LET ns == NamespaceOf(space)
    IN  ns = <<>> \/ (Len(ns) < Len(key) /\ SubSeq(key, 1, Len(ns)) = ns)

KeyOf(u) == Prefix(Stores[u].space, <<"k">>)
Keys == {KeyOf(u) : u \in Users}

-----------------------------------------------------------------------------
(* Codecs.                                                                  *)

NoEntry == [write |-> 0, payload |-> <<>>, owner |-> <<>>, asked |-> 0, ttl |-> 0]
Operations == {"get", "set", "set_if_absent", "delete", "consume"}
Codecs == {"json", "string", "gzip+json"}

ASSUME StoreConstants ==
    /\ MaxWrites \in Nat /\ MaxPurges \in Nat /\ MaxScans \in Nat /\ Second \in Nat \ {0}
    /\ IsFiniteSet(Users)
    /\ \A u \in Users :
          /\ Stores[u].codec \in Codecs /\ Stores[u].ttl \in Nat /\ Stores[u].ratio \in Nat
          /\ Stores[u].space \in Seq(Seq(STRING)) /\ Len(Stores[u].space) \in 1..2
          /\ Stores[u].uses \subseteq Operations
    /\ \A c \in Purges :
          /\ c.space \in Seq(Seq(STRING)) /\ Len(c.space) = 1
          /\ c.batchSize \in Nat \ {0} /\ c.dryRun \in BOOLEAN

\* Marshal of each codec: the layers of the payload, outermost first.
Marshal(codec, v) ==
    CASE codec = "json"      -> <<"json", v>>
      [] codec = "string"    -> <<"raw", v>>
      [] codec = "gzip+json" -> <<"gzip", "json", v>>

\* Unmarshal: <<value>>, or <<>> for an error.  A string is any payload at all.
Unmarshal(codec, p) ==
    CASE codec = "json"      -> IF p[1] = "json" THEN <<p[2]>> ELSE <<>>
      [] codec = "string"    -> <<IF p[1] = "raw" THEN p[2] ELSE p>>
      [] codec = "gzip+json" -> IF p[1] = "gzip" /\ p[2] = "json" THEN <<p[3]>> ELSE <<>>

-----------------------------------------------------------------------------
(* The calls on one key.                                                    *)

NoUser == [again |-> "no", read |-> <<>>, seen |-> 0]

\* The entries are changed and the scan is told: what is gone or new is no
\* longer what it owes.
Put(k, e) ==
    /\ entries' = [entries EXCEPT ![k] = e]
    /\ purge' = [purge EXCEPT !.owes = @ \ {k}]

\* Redis runs the command op of u, now or for the second time: the call returns
\* (of the answers only what Get read is kept), or the answer is lost.
Runs(u, op) == user[u].again \in {"no", op} /\ op \in Stores[u].uses
Return(u, read) == user' = [user EXCEPT ![u] = [NoUser EXCEPT !.read = read]]
Lost(u, op) == user[u].again = "no" /\ user' = [user EXCEPT ![u] = [NoUser EXCEPT !.again = op]]

\* Get: a miss and a payload that does not decode read nothing.
Get(u) ==
    LET e == entries[KeyOf(u)]
    IN  /\ Runs(u, "get") /\ e # NoEntry
        /\ LET v == Unmarshal(Stores[u].codec, e.payload)
           IN  Return(u, IF v = <<>> THEN <<>> ELSE <<v[1], e.payload>>)
        /\ UNCHANGED <<entries, purge, writes, wins, purges>>

\* set, for Set and, with onlyIfAbsent, SetIfAbsent.
Set(u, op) ==
    LET k == KeyOf(u)
    IN  /\ Runs(u, op)
        /\ IF op = "set_if_absent" /\ entries[k] # NoEntry
           THEN Return(u, <<>>) /\ UNCHANGED <<entries, purge, writes>>
           ELSE /\ writes < MaxWrites /\ writes' = writes + 1
                /\ \E t \in JitterTTL(Stores[u].ttl, Stores[u].ratio) :
                      Put(k, [write |-> writes + 1, payload |-> Marshal(Stores[u].codec, u),
                              owner |-> Stores[u].space, asked |-> Stores[u].ttl, ttl |-> t])
                /\ Return(u, <<>>) \/ Lost(u, op)
        /\ UNCHANGED <<wins, purges>>

Delete(u) ==
    /\ Runs(u, "delete")
    /\ Put(KeyOf(u), NoEntry)
    /\ Return(u, <<>>) \/ Lost(u, "delete")
    /\ UNCHANGED <<writes, wins, purges>>

\* Faulty variant: EXISTS and DEL are two commands.
ConsumeTwoCommands(u) ==
    LET k == KeyOf(u)
    IN  /\ Runs(u, "consume")
        /\ IF user[u].seen = 0
           THEN /\ entries[k] # NoEntry /\ user' = [user EXCEPT ![u].seen = entries[k].write]
                /\ UNCHANGED <<entries, purge, wins>>
           ELSE /\ Put(k, NoEntry) /\ Return(u, <<>>)
                /\ wins' = wins \cup {<<u, user[u].seen>>}
        /\ UNCHANGED <<writes, purges>>

\* ConsumeIfExists: one script.  If its answer is lost and go-redis sends it
\* again, the caller is told false of an entry it has consumed.
ConsumeIfExists(u) ==
    LET k == KeyOf(u)
    IN  /\ Runs(u, "consume")
        /\ Put(k, NoEntry)
        /\ \/ /\ Return(u, <<>>)
              /\ wins' = IF entries[k] # NoEntry THEN wins \cup {<<u, entries[k].write>>} ELSE wins
           \/ Lost(u, "consume") /\ UNCHANGED wins
        /\ UNCHANGED <<writes, purges>>

\* An error after a lost answer.
NoAnswer(u) ==
    /\ user[u].again # "no"
    /\ Return(u, <<>>)
    /\ UNCHANGED <<entries, purge, writes, wins, purges>>

\* The TTL of an entry runs out.
Expire(k) ==
    /\ entries[k] # NoEntry /\ entries[k].ttl > 0
    /\ Put(k, NoEntry)
    /\ UNCHANGED <<user, writes, wins, purges>>

-----------------------------------------------------------------------------
(* DeleteByPattern.                                                         *)

NoPurge == [pc |-> "idle", conf |-> [space |-> <<>>, batchSize |-> 1, dryRun |-> TRUE],
            there |-> {}, owes |-> {}, keys |-> <<>>, scans |-> 0, last |-> FALSE,
            deleted |-> 0, removed |-> {}, res |-> "none"]

\* there, a note for the properties: the writes the call should remove.
DeleteByPattern(c) ==
    LET matching == {k \in Keys : Matches(c.space, k) /\ entries[k] # NoEntry}
        inside == {k \in Keys : entries[k] # NoEntry /\ entries[k].owner[1] = c.space[1]}
    IN  /\ purge.pc \in {"idle", "done"} /\ purges < MaxPurges
        /\ purges' = purges + 1
        /\ purge' = [NoPurge EXCEPT !.pc = "scan", !.conf = c, !.owes = matching,
                        !.there = {entries[k].write : k \in inside}]
        /\ UNCHANGED <<entries, user, writes, wins>>

\* One SCAN: it returns keys that are there, some perhaps again; before the
\* cursor is back at 0 every key that was there all the time was returned.
Scan ==
    /\ purge.pc = "scan"
    /\ \E S \in SUBSET {k \in Keys : Matches(purge.conf.space, k) /\ entries[k] # NoEntry},
          last \in BOOLEAN :
        LET order == CHOOSE q \in [1..Cardinality(S) -> S] : \A k \in S : \E i \in 1..Cardinality(S) : q[i] = k
        IN  /\ last \/ (S # {} /\ purge.scans < MaxScans)
            /\ last => purge.owes \subseteq S
            /\ purge' = [purge EXCEPT !.keys = order, !.last = last, !.scans = IF last THEN @ ELSE @ + 1, !.owes = @ \ S,
                   !.pc = IF S # {} THEN "batch" ELSE IF last THEN "done" ELSE "scan",
                   !.res = IF S = {} /\ last THEN "ok" ELSE @]
    /\ UNCHANGED <<entries, user, writes, wins, purges>>

\* The batch [start:end] of the keys of this SCAN, and those after it.
Batch == {purge.keys[i] : i \in 1..(IF Len(purge.keys) < purge.conf.batchSize THEN Len(purge.keys)
                                    ELSE purge.conf.batchSize)}
Rest == SubSeq(purge.keys, purge.conf.batchSize + 1, Len(purge.keys))
AfterBatch == IF Rest # <<>> THEN "batch" ELSE IF purge.last THEN "done" ELSE "scan"

\* deleteBatch: UNLINK or DEL, of which the answer counts.  Sent twice, the
\* second answer counts, and the first execution has removed the keys.
DeleteBatch(counted) ==
    LET gone == IF purge.conf.dryRun THEN {} ELSE {k \in Batch : entries[k] # NoEntry}
    IN  /\ purge.pc = "batch"
        /\ entries' = [k \in Keys |-> IF k \in gone THEN NoEntry ELSE entries[k]]
        /\ purge' = [purge EXCEPT
               !.removed = @ \cup {entries[k].write : k \in gone},
               !.deleted = @ + IF purge.conf.dryRun THEN Cardinality(Batch)
                               ELSE IF counted THEN Cardinality(gone) ELSE 0,
               !.owes = @ \ gone,
               !.keys = Rest, !.pc = AfterBatch, !.res = IF AfterBatch = "done" THEN "ok" ELSE @]
        /\ UNCHANGED <<user, writes, wins, purges>>

\* SCAN or the deletion ends with an error, the batch perhaps deleted: what was
\* counted so far is returned with it.
PurgeFails ==
    /\ purge.pc = "scan" \/ (purge.pc = "batch" /\ ~purge.conf.dryRun)
    /\ \E ran \in BOOLEAN :
          LET gone == IF ran /\ purge.pc = "batch" THEN {k \in Batch : entries[k] # NoEntry} ELSE {}
          IN  /\ entries' = [k \in Keys |-> IF k \in gone THEN NoEntry ELSE entries[k]]
              /\ purge' = [purge EXCEPT !.pc = "done", !.res = "error",
                               !.removed = @ \cup {entries[k].write : k \in gone}]
    /\ UNCHANGED <<user, writes, wins, purges>>

-----------------------------------------------------------------------------
StoreInit ==
    /\ entries = [k \in Keys |-> NoEntry]
    /\ user = [u \in Users |-> NoUser]
    /\ purge = NoPurge
    /\ writes = 0 /\ wins = {} /\ purges = 0

StoreNext ==
    \/ \E u \in Users :
          \/ Get(u) \/ Delete(u) \/ ConsumeIfExists(u) \/ NoAnswer(u)
          \/ \E op \in {"set", "set_if_absent"} : Set(u, op)
    \/ \E k \in Keys : Expire(k)
    \/ \E c \in Purges : DeleteByPattern(c)
    \/ Scan \/ PurgeFails
    \/ \E counted \in BOOLEAN : DeleteBatch(counted)

StoreSpec == StoreInit /\ [][StoreNext]_stVars

-----------------------------------------------------------------------------
(* Properties.                                                              *)

\* Every variable has its type; an entry with a TTL has one that ends, between
\* nothing and twice the TTL asked for or one second.
StoreTypeOK ==
    /\ \A k \in Keys :
          LET e == entries[k]
          IN  e # NoEntry => /\ e.write \in 1..MaxWrites
                             /\ IF e.asked = 0 THEN e.ttl = 0
                                ELSE e.ttl >= 1 /\ (e.ttl <= 2 * e.asked \/ e.ttl = Second)
    /\ \A u \in Users : user[u].again \in Operations \cup {"no"}
    /\ purge.pc \in {"idle", "scan", "batch", "done"} /\ purge.deleted \in Nat
    /\ writes \in 0..MaxWrites /\ purges \in 0..MaxPurges

\* Of one written value at most one ConsumeIfExists says true, with consumers
\* that overlap, answers that are lost and commands that are sent twice.
ConsumedOnce ==
    \A a, b \in wins : a[2] = b[2] => a = b

\* A JSON or gzip store returns no value that was written in another form: it
\* reports an error.  (A string store takes any bytes.)
ReadsOwnForm ==
    \A u \in Users :
        LET r == user[u].read
        IN  r # <<>> /\ Stores[u].codec # "string" => r[2] = Marshal(Stores[u].codec, r[1])

\* DeleteByPattern without an error has removed every value of its keyspace and
\* of the children of it that was there when it began.
PurgeIsComplete ==
    purge.res = "ok" /\ ~purge.conf.dryRun
    => \A k \in Keys : entries[k] # NoEntry => entries[k].write \notin purge.there

\* No keyspace that is purged begins with the namespace of a store in another
\* one, nor the other way round: then their patterns cannot meet.
StartsWith(s, t) == Len(s) <= Len(t) /\ SubSeq(t, 1, Len(s)) = s
RootsApart ==
    \A u \in Users, c \in Purges :
        LET root == NormalizeNamespace(Stores[u].space[1])
            ns == NormalizeNamespace(c.space[1])
        IN  Stores[u].space[1] # c.space[1] => ~StartsWith(root, ns) /\ ~StartsWith(ns, root)

\* It removes nothing of another keyspace: its own values, those of children,
\* and what was written there while it ran.
PurgeStaysInside ==
    [][\A k \in Keys :
          entries[k] # NoEntry /\ entries'[k] = NoEntry /\ entries[k].write \in purge'.removed \ purge.removed
          => entries[k].owner[1] = purge.conf.space[1]]_stVars

\* The count it returns is never more than what it removed, with or without an
\* error; a dry run removes nothing.
PurgeCountIsSafe ==
    IF purge.conf.dryRun THEN purge.removed = {} ELSE purge.deleted <= Cardinality(purge.removed)

\* What holds of stores and purges at every time: types, one consumer of a value,
\* no value read in another form, a purge that is complete and counts safely.
StoreInv == StoreTypeOK /\ ConsumedOnce /\ ReadsOwnForm /\ PurgeIsComplete /\ PurgeCountIsSafe
=============================================================================
