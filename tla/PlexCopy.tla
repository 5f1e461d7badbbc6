------------------------------ MODULE PlexCopy ------------------------------
(***************************************************************************)
(* The copy of Plex's databases (internal/plexdb/backup.go, verify.go)     *)
(* while Plex runs: it commits, checkpoints its write-ahead log or writes  *)
(* in place beside a rollback journal, starts, stops and dies at any step. *)
(* Each database is copied either through SQLite, which reads a committed  *)
(* state, or, when no log is beside it, as an immutable file whose pages   *)
(* are read one after another; the file is compared before and after. The  *)
(* copies and Preferences.xml are staged, and the copies verified. What    *)
(* happens to a staged version then is in Versions and EngineVersions.     *)
(*                                                                         *)
(* A database has two pages, each holding the number of the commit that    *)
(* wrote it; every commit writes both.                                     *)
(***************************************************************************)
EXTENDS Integers, FiniteSets

CONSTANTS
    Attempts,       \* BackupOptions.Attempts
    Worlds          \* the settings

VARIABLES
    world, used,    \* the setting with its bounds, and what is used of them
    up,             \* Plex runs
    db,             \* [main, logged, at, mtime]: the pages, the log (0, or the commit it holds:
                    \* the new one of a -wal, the old one of a -journal), the newest commit
    prefs,          \* Preferences.xml: its version, 0 when missing or unreadable
    run,            \* the job: its step, the database and attempt, the mtime before, how it is copied,
                    \* the next page, the copy, Preferences.xml's first read, the commits that were the
                    \* newest while each database was copied, the verdict
    staged          \* the staging directory: what it holds of each file

vars == <<world, used, up, db, prefs, run, staged>>

\* The databases; Plex may have no blobs database.
Library == "library"
Blobs == "blobs"
Files == {Library, Blobs, "prefs"}
Dbs == IF world.blobs THEN {Library, Blobs} ELSE {Library}
Nothing == [f \in Files |-> 0]
Idle == [at |-> "idle", d |-> Library, attempt |-> 1, before |-> 0, live |-> FALSE, page |-> 1,
         copy |-> <<0, 0>>, read |-> 0, seen |-> [d \in {Library, Blobs} |-> {}], ok |-> FALSE]

Init ==
    /\ world \in Worlds
    /\ used = [commits |-> 0, starts |-> 0, writes |-> 0, errors |-> 0, crashes |-> 0, runs |-> 0]
    /\ up = world.up
    /\ db = [d \in Dbs |-> [main |-> <<1, 1>>, logged |-> 0, at |-> 1, mtime |-> 1]]
    /\ prefs = world.prefs
    /\ run = Idle /\ staged = Nothing

Use(what) == used[what] < world[what] /\ used' = [used EXCEPT ![what] = @ + 1]
Go(p) == run' = [run EXCEPT !.at = p]
Wal == world.mode = "wal"

-----------------------------------------------------------------------------
(* Plex (external).                                                        *)

Copying == run.at \in {"log", "copy"}
Seen(D) == IF Copying THEN [run EXCEPT !.seen[run.d] = @ \cup {D[run.d].at}] ELSE run
Plex(D) == db' = D /\ run' = Seen(D) /\ UNCHANGED <<world, staged>>

\* A commit to the -wal; or a transaction in place: the journal holds the old content.
Commit(d) ==
    /\ up /\ Use("commits")
    /\ Wal \/ db[d].logged = 0
    /\ Plex([db EXCEPT ![d].logged = IF Wal THEN db[d].at + 1 ELSE db[d].at, ![d].at = IF Wal THEN @ + 1 ELSE @])
    /\ UNCHANGED <<up, prefs>>
\* A checkpoint, or the transaction, writes one page.
New(d) == IF Wal THEN db[d].logged ELSE db[d].at + 1
WritePage(d, p) ==
    /\ up /\ db[d].logged # 0 /\ db[d].main[p] # New(d)
    /\ Plex([db EXCEPT ![d].main[p] = New(d), ![d].mtime = @ + 1])
    /\ UNCHANGED <<used, up, prefs>>
\* The journal is deleted: the transaction is committed.
EndJournal(d) ==
    /\ up /\ ~Wal /\ db[d].logged # 0 /\ \A p \in 1..2 : db[d].main[p] = New(d)
    /\ Plex([db EXCEPT ![d].logged = 0, ![d].at = @ + 1])
    /\ UNCHANGED <<used, up, prefs>>
\* Plex stops with every log written back and deleted, or dies.
Stop ==
    /\ up /\ \A d \in Dbs : db[d].logged = 0 \/ (Wal /\ db[d].main = <<New(d), New(d)>>)
    /\ up' = FALSE /\ Plex([d \in Dbs |-> [db[d] EXCEPT !.logged = 0]]) /\ UNCHANGED <<used, prefs>>
Die == up /\ up' = FALSE /\ UNCHANGED <<world, used, db, prefs, run, staged>>
\* It starts and rolls a hot journal back.
Start ==
    /\ ~up /\ Use("starts") /\ up' = TRUE
    /\ Plex([d \in Dbs |-> IF Wal \/ db[d].logged = 0 THEN db[d]
                           ELSE [db[d] EXCEPT !.main = <<db[d].logged, db[d].logged>>, !.logged = 0, !.mtime = @ + 1]])
    /\ UNCHANGED prefs
\* Preferences.xml is replaced, in one step.
WritePrefs == up /\ prefs # 0 /\ Use("writes") /\ prefs' = prefs + 1 /\ UNCHANGED <<world, up, db, run, staged>>

-----------------------------------------------------------------------------
(* The copy of a database.                                                 *)

Outside == UNCHANGED <<world, up, db, prefs>>
Fresh(d) == [run EXCEPT !.at = "stat", !.d = d, !.attempt = 1]

\* The job starts: the staging of an earlier attempt is removed, the free space checked.
Begin ==
    /\ run.at = "idle" /\ Use("runs") /\ staged' = Nothing
    /\ run' = [Idle EXCEPT !.at = IF world.space THEN "stat" ELSE "fail"] /\ Outside
Stat ==
    /\ run.at = "stat"
    /\ run' = [run EXCEPT !.at = "log", !.before = db[run.d].mtime, !.seen[run.d] = {db[run.d].at}]
    /\ UNCHANGED <<used, staged>> /\ Outside
HasLog(d) == db[d].logged # 0
\* A log beside the database: it is opened through SQLite; else as an immutable file.
Choose ==
    /\ run.at = "log"
    /\ run' = [run EXCEPT !.at = "copy", !.live = HasLog(run.d), !.page = 1]
    /\ UNCHANGED <<used, staged>> /\ Outside

Again == IF run.attempt < Attempts THEN run' = [run EXCEPT !.at = "stat", !.attempt = @ + 1] ELSE Go("fail")
\* A transaction in place has begun to write.
Hot(d) == ~Wal /\ db[d].logged # 0 /\ db[d].main # <<db[d].at, db[d].at>>
\* onlineBackup of a live database: one step reads a committed state.
CopyLive ==
    /\ run.at = "copy" /\ run.live /\ ~Hot(run.d)
    /\ run' = [run EXCEPT !.at = "check", !.copy = <<db[run.d].at, db[run.d].at>>]
    /\ UNCHANGED <<used, staged>> /\ Outside
\* It is busy, or cannot roll the journal back (the file is opened read-only), or reading fails:
\* another attempt.
CopyFails ==
    /\ run.at = "copy" /\ Again /\ UNCHANGED staged /\ Outside
    /\ IF run.live /\ Hot(run.d) THEN UNCHANGED used ELSE Use("errors")
CopyPage ==
    /\ run.at = "copy" /\ ~run.live
    /\ run' = [run EXCEPT !.copy[run.page] = db[run.d].main[run.page], !.page = 2, !.at = IF run.page = 2 THEN "check" ELSE @]
    /\ UNCHANGED <<used, staged>> /\ Outside

MutStable(d) == ~HasLog(d)
\* After an immutable read: no log has appeared, size, mtime and identity are the same.
Stable(d) == ~HasLog(d) /\ db[d].mtime = run.before
CheckCopy ==
    /\ run.at = "check"
    /\ IF run.live \/ Stable(run.d) THEN Go("finish") ELSE Again
    /\ UNCHANGED <<used, staged>> /\ Outside
\* finishStaged: the copy gets its name.
FinishStaged ==
    /\ run.at = "finish"
    /\ staged' = [staged EXCEPT ![run.d] = run.copy]
    /\ run' = IF run.d = Library /\ world.blobs THEN Fresh(Blobs) ELSE [run EXCEPT !.at = "prefs", !.attempt = 1]
    /\ UNCHANGED used /\ Outside

-----------------------------------------------------------------------------
(* Preferences.xml, verification, and the end.                             *)

\* Read twice; a file that is missing, unreadable or keeps changing is left out with a warning.
ReadFirst ==
    /\ run.at = "prefs"
    /\ IF prefs = 0 THEN Go("verify") ELSE run' = [run EXCEPT !.at = "second", !.read = prefs]
    /\ UNCHANGED <<used, staged>> /\ Outside
ReadSecond ==
    /\ run.at = "second"
    /\ \/ /\ prefs = run.read /\ Go("verify") /\ staged' = [staged EXCEPT !["prefs"] = prefs]
       \/ /\ prefs # run.read /\ UNCHANGED staged
          /\ IF run.attempt < Attempts THEN run' = [run EXCEPT !.at = "prefs", !.attempt = @ + 1] ELSE Go("verify")
    /\ UNCHANGED used /\ Outside

\* readSchema: an index whose keys have a collation SQLite lacks, by a clause of its own or by its
\* column's, is checked with a stub that sorts otherwise, so its rows seem to be missing.
CustomIndexes(d) == {i \in DOMAIN world.schema[d].indexes : world.schema[d].indexes[i] # "builtin"}
Torn(d) == staged[d][1] # staged[d][2]
Pages(d) == IF Torn(d) THEN {"page"} ELSE world.damage[d] \cap {"page"}
QuickCheck(d) == Pages(d) = {}
IntegrityLines(d) == Pages(d) \cup world.damage[d] \cup CustomIndexes(d)
Keep(d, l) == l \notin CustomIndexes(d)
\* A schema whose checks would run its own SQL is refused.
RefuseExpressions(d) == world.schema[d].expression
Verify(d) == ~RefuseExpressions(d) /\ QuickCheck(d) /\ ~\E l \in IntegrityLines(d) : Keep(d, l)
PlexLibrary(d) == d = Library => world.schema[d].tables
VerifyStaged ==
    /\ run.at = "verify"
    /\ run' = [run EXCEPT !.at = "publish", !.ok = \A d \in Dbs : Verify(d) /\ PlexLibrary(d)]
    /\ UNCHANGED <<used, staged>> /\ Outside

\* The version is stored with its integrity and the staging directory removed.
Publish ==
    /\ run.at = "publish" /\ staged' = Nothing /\ run' = Idle
    /\ UNCHANGED used /\ Outside
\* The job fails or is cancelled: what it staged is removed.
Fail == run.at = "fail" /\ staged' = Nothing /\ run' = Idle /\ UNCHANGED used /\ Outside
Break == run.at \notin {"idle", "fail"} /\ Use("errors") /\ Go("fail") /\ UNCHANGED staged /\ Outside
Crash == run.at # "idle" /\ Use("crashes") /\ run' = Idle /\ UNCHANGED staged /\ Outside

Next ==
    \/ \E d \in Dbs : Commit(d) \/ EndJournal(d) \/ \E p \in 1..2 : WritePage(d, p)
    \/ Stop \/ Die \/ Start \/ WritePrefs
    \/ Begin \/ Stat \/ Choose \/ CopyLive \/ CopyFails \/ CopyPage \/ CheckCopy \/ FinishStaged
    \/ ReadFirst \/ ReadSecond \/ VerifyStaged \/ Publish \/ Fail \/ Break \/ Crash

Spec == Init /\ [][Next]_vars

-----------------------------------------------------------------------------
(* Properties.                                                             *)

\* Every database that is stored is one committed state Plex had while it was copied: never
\* pages of two commits, never one that a log superseded before the copy began.
CopyCommitted ==
    run.at = "publish" => \A d \in Dbs : staged[d][1] = staged[d][2] /\ staged[d][1] \in run.seen[d]

\* A version that counts as ok has no damage but in indexes that SQLite cannot check without Plex's
\* collations, and is a Plex library.
OkIsSound ==
    run.at = "publish" /\ run.ok =>
        /\ world.schema[Library].tables
        /\ \A d \in Dbs : \A i \in world.damage[d] : i # "page" /\ world.schema[d].indexes[i] # "builtin"

\* Staged files (they hold Plex's token) stay only over a crash, until the job runs again.
StagedRemoved ==
    run.at = "idle" /\ used.crashes = 0 => staged = Nothing

\* A stored copy of a database is one state that Plex had committed while it was copied, never
\* pages of two; a version that counts as ok is a Plex library without damage that SQLite can see;
\* and staged files, which hold Plex's token, stay only over a crash.
CopiesSound == CopyCommitted /\ OkIsSound /\ StagedRemoved
=============================================================================
