------------------------------ MODULE LogFiles ------------------------------
(****************************************************************************)
(* The log package down to its files: which outputs New builds from the     *)
(* options, the levels each of them takes, TimeRotationWriter with the      *)
(* goroutines that clean old files, and a disk that can fail.               *)
(*                                                                          *)
(* Time is counted in days; the date in a file's name stands for LogPeriod  *)
(* of them.  A level is a number; key AllLevels stands for "all".           *)
(****************************************************************************)
EXTENDS Integers, Sequences

CONSTANTS
    LogConfs,        \* Options: [kind, timed, level, mode, paths, maxAge], and
                     \* faults: whether its disk fails and its writers are closed
    LogPaths,        \* files named by the options
    SameDirPrefix,   \* path -> the paths whose file names begin with its base name
    LogPeriod,       \* days that have the same date in TimeRotationFormat
    LogLevels,
    MaxDay, MaxRecords

VARIABLES
    lfConf,     \* the Options of New
    lfNow,      \* the day
    lfDirOK,    \* whether files can be created
    lfWriter,   \* writer -> [h: its file's state, date, unlinked]
    lfFile,     \* <<path, date>> -> [there, mtime, recs]
    lfRec,      \* the records, with the writers they still have to reach
    lfClean,    \* goroutines of cleanOldFiles
    lfHurt      \* writers that have met a fault or have been closed
lfVars == <<lfConf, lfNow, lfDirOK, lfWriter, lfFile, lfRec, lfClean, lfHurt>>

AllLevels == 0
Out == 10                               \* the one output of a logger without levels
DateOf(day) == day \div LogPeriod
Dates == 0..DateOf(MaxDay)
Files == LogPaths \X Dates
NoFile == <<"", 0>>

ASSUME LogConstants ==
    /\ LogPeriod \in Nat \ {0} /\ LogLevels \subseteq 1..4 /\ MaxDay \in Nat /\ MaxRecords \in Nat
    /\ \A p \in LogPaths : p \in SameDirPrefix[p]
    /\ \A cf \in LogConfs :
          /\ cf.kind \in {"plain", "time", "levels"} /\ cf.mode \in {"exact", "above", "duplicate"}
          /\ (cf.kind = "time" => cf.timed) /\ (cf.kind = "plain" => ~cf.timed)
          /\ cf.timed \in BOOLEAN /\ cf.level \in Int /\ cf.maxAge \in Int
          /\ \A k \in DOMAIN cf.paths : cf.paths[k] \subseteq LogPaths
          /\ IF cf.kind = "levels" THEN DOMAIN cf.paths \subseteq {AllLevels} \cup 1..4
             ELSE DOMAIN cf.paths = {Out}

-----------------------------------------------------------------------------
(* New: one core for each key that names a level and has a path.            *)

CoreKeys(cf) ==
    {k \in DOMAIN cf.paths : /\ cf.paths[k] # {}
                             /\ k = AllLevels => cf.mode = "duplicate"}
Writers(cf) == UNION {{k} \X cf.paths[k] : k \in CoreKeys(cf)}

\* The LevelEnabler of a core.  Only "all" and the plain outputs look at Level.
Enabled(cf, k, l) ==
    IF k \in {AllLevels, Out} THEN l >= cf.level
    ELSE l = k \/ (cf.mode = "above" /\ l > k)

\* The wrappers Debug, Info, ..., the typed ones (HTTP, SQL, ...) and those of an
\* infoLogger come down to one entry, stamped and handed to every enabled core.
Log(l) ==
    /\ CoreKeys(lfConf) # {} /\ Len(lfRec) < MaxRecords
    /\ lfRec' = Append(lfRec, [level |-> l, stamp |-> lfNow, refused |-> {},
                               todo |-> {w \in Writers(lfConf) : Enabled(lfConf, w[1], l)}])
    /\ UNCHANGED <<lfConf, lfNow, lfDirOK, lfWriter, lfFile, lfClean, lfHurt>>

-----------------------------------------------------------------------------
(* Write, under the writer's mutex.                                         *)

NeedsRotation(w, date) == lfWriter[w].h = "nil" \/ lfWriter[w].date # date

\* rotate: the old file is closed, which fails if it is, and the new one opened.
Rotated(w, date) ==
    LET s == lfWriter[w]
    IN  CASE s.h # "closed" /\ lfDirOK  -> [h |-> "open", date |-> date, unlinked |-> FALSE]
          [] s.h = "open" /\ ~lfDirOK   -> [s EXCEPT !.h = "closed"]
          [] OTHER                      -> s

\* The file after the open and the write.
Appended(f, i) == [lfFile EXCEPT ![f] =
    [there |-> TRUE, mtime |-> lfNow, recs |-> IF @.there THEN @.recs \cup {i} ELSE {i}]]

Write(w, i) ==
    LET timed == lfConf.timed
        date == IF timed THEN DateOf(lfNow) ELSE 0
        rotates == NeedsRotation(w, date)
        s == IF rotates THEN Rotated(w, date) ELSE lfWriter[w]
        opened == rotates /\ s.h = "open"
        ok == s.h = "open" /\ (rotates => s.date = date)
    IN  /\ i \in DOMAIN lfRec /\ w \in lfRec[i].todo
        /\ lfWriter' = [lfWriter EXCEPT ![w] = s]
        /\ lfRec' = [lfRec EXCEPT ![i].todo = @ \ {w}, ![i].refused = IF ok THEN @ ELSE @ \cup {w}]
        /\ lfFile' = IF ok /\ ~s.unlinked THEN Appended(<<w[2], s.date>>, i) ELSE lfFile
        /\ lfClean' = IF opened /\ timed /\ lfConf.maxAge > 0
                      THEN lfClean \cup {[path |-> w[2], file |-> NoFile]}
                      ELSE lfClean
        /\ lfHurt' = IF rotates /\ ~lfDirOK THEN lfHurt \cup {w} ELSE lfHurt
        /\ UNCHANGED <<lfConf, lfNow, lfDirOK>>

\* Close leaves currentFile as it is.
CloseWriter(w) ==
    /\ w \in Writers(lfConf) /\ lfConf.timed /\ lfConf.faults /\ lfWriter[w].h = "open"
    /\ lfWriter' = [lfWriter EXCEPT ![w].h = "closed"]
    /\ lfHurt' = lfHurt \cup {w}
    /\ UNCHANGED <<lfConf, lfNow, lfDirOK, lfFile, lfRec, lfClean>>

-----------------------------------------------------------------------------
(* cleanOldFiles, a goroutine of its own: for each file Lstat and Remove.   *)
(* It may take its cutoff as late as it looks at the file; one taken before *)
(* removes less.  One that has finished may as well wait, and stays.        *)

Step(c, d) == lfClean' = (lfClean \ {c}) \cup d

\* Faulty variant: the date in the file's name is compared.
ExpiredByName(f) == f[2] * LogPeriod < lfNow - lfConf.maxAge

Expired(f) == lfFile[f].mtime < lfNow - lfConf.maxAge

CleanPicks(c, f) ==
    /\ c.file = NoFile
    /\ f[1] \in SameDirPrefix[c.path] /\ lfFile[f].there /\ Expired(f)
    /\ Step(c, {[c EXCEPT !.file = f]})
    /\ UNCHANGED <<lfConf, lfNow, lfDirOK, lfWriter, lfFile, lfRec, lfHurt>>

\* A writer that has the file open goes on writing where nobody can read.
CleanRemoves(c) ==
    /\ c.file # NoFile
    /\ lfFile' = [lfFile EXCEPT ![c.file] = [there |-> FALSE, mtime |-> 0, recs |-> {}]]
    /\ lfWriter' = [w \in DOMAIN lfWriter |->
          IF lfWriter[w].h = "open" /\ <<w[2], lfWriter[w].date>> = c.file
          THEN [lfWriter[w] EXCEPT !.unlinked = TRUE] ELSE lfWriter[w]]
    /\ Step(c, {[c EXCEPT !.file = NoFile]})
    /\ UNCHANGED <<lfConf, lfNow, lfDirOK, lfRec, lfHurt>>

-----------------------------------------------------------------------------
DayPasses ==
    /\ lfNow < MaxDay /\ lfNow' = lfNow + 1
    /\ UNCHANGED <<lfConf, lfDirOK, lfWriter, lfFile, lfRec, lfClean, lfHurt>>

DiskFails ==
    /\ lfDirOK /\ lfConf.faults
    /\ lfDirOK' = FALSE
    /\ UNCHANGED <<lfConf, lfNow, lfWriter, lfFile, lfRec, lfClean, lfHurt>>

DiskRecovers ==
    /\ ~lfDirOK /\ lfDirOK' = TRUE
    /\ UNCHANGED <<lfConf, lfNow, lfWriter, lfFile, lfRec, lfClean, lfHurt>>

\* A file without a date is zap's or lumberjack's, and is there when it is written
\* to; a writer that rotates by time opens none before its first record.
LogInit ==
    /\ lfConf \in LogConfs
    /\ lfNow = 0 /\ lfDirOK = TRUE
    /\ lfWriter = [w \in Writers(lfConf) |->
          [h |-> IF lfConf.timed THEN "nil" ELSE "open", date |-> 0, unlinked |-> FALSE]]
    /\ lfFile = [f \in Files |-> [there |-> FALSE, mtime |-> 0, recs |-> {}]]
    /\ lfRec = <<>> /\ lfClean = {} /\ lfHurt = {}

LogNext ==
    \/ \E l \in LogLevels : Log(l)
    \/ \E w \in DOMAIN lfWriter : CloseWriter(w) \/ \E i \in 1..MaxRecords : Write(w, i)
    \/ \E c \in lfClean :
         CleanRemoves(c) \/ \E f \in Files : CleanPicks(c, f)
    \/ DayPasses \/ DiskFails \/ DiskRecovers

LogSpec == LogInit /\ [][LogNext]_lfVars

-----------------------------------------------------------------------------
(* Properties.                                                              *)

\* Every variable has its type: an open file is on disk or was removed, and only
\* a fault or Close leaves a writer with a closed one.
LogTypeOK ==
    /\ lfConf \in LogConfs /\ lfNow \in 0..MaxDay /\ lfHurt \subseteq DOMAIN lfWriter
    /\ \A w \in DOMAIN lfWriter :
          /\ lfWriter[w].h \in {"nil", "open", "closed"} /\ lfWriter[w].date \in Dates
          /\ lfWriter[w].h = "closed" => w \in lfHurt
          /\ lfWriter[w].h = "open" =>
                lfWriter[w].unlinked \/ lfFile[<<w[2], lfWriter[w].date>>].there \/ ~lfConf.timed
    /\ \A f \in Files : lfFile[f].mtime \in 0..lfNow /\ lfFile[f].recs \subseteq DOMAIN lfRec

\* The files in which LevelOutputMode promises a record: "exact" its own level's,
\* "above" also those of lower levels, "duplicate" its own and "all".
Promised(l) ==
    {p \in LogPaths :
        \/ lfConf.kind # "levels" /\ l >= lfConf.level /\ p \in lfConf.paths[Out]
        \/ lfConf.kind = "levels" /\ \E k \in DOMAIN lfConf.paths :
              /\ p \in lfConf.paths[k]
              /\ \/ k # AllLevels /\ (l = k \/ (lfConf.mode = "above" /\ l > k))
                 \/ k = AllLevels /\ lfConf.mode = "duplicate" /\ l >= lfConf.level}

\* No file has a record its level does not belong in, or one that was logged
\* after the days of its date.
NothingMisfiled ==
    \A f \in Files : \A i \in lfFile[f].recs :
        /\ f[1] \in Promised(lfRec[i].level)
        /\ lfConf.timed => DateOf(lfRec[i].stamp) <= f[2]

\* A record that was written, and is not older than MaxAge, is in each of the
\* files it was promised to, as long as no date stands for more than MaxAge
\* days: no cleaner removes it, and none removes a file that is written to.
KeptWhileYoung ==
    LogPeriod <= lfConf.maxAge =>
        \A i \in DOMAIN lfRec :
            lfRec[i].todo = {} /\ lfRec[i].refused = {} /\ lfRec[i].stamp >= lfNow - lfConf.maxAge =>
                \A p \in Promised(lfRec[i].level) : \E d \in Dates : i \in lfFile[<<p, d>>].recs

\* A record is refused only by a writer that could not create a file at some
\* time, or was closed.
RefusedOnlyAfterFault ==
    \A i \in DOMAIN lfRec : lfRec[i].refused \subseteq lfHurt

\* What holds of the files at every time: types, records in their own files, kept
\* while they are young, refused only after a fault.
LogInv == LogTypeOK /\ NothingMisfiled /\ KeptWhileYoung /\ RefusedOnlyAfterFault
=============================================================================
