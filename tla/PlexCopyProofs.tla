--------------------------- MODULE PlexCopyProofs ---------------------------
(***************************************************************************)
(* Proofs about PlexCopy for every setting and every number of attempts:   *)
(* however Plex commits, checkpoints, stops, dies and starts while its     *)
(* databases are copied, what is stored is sound (CopiesSound).            *)
(***************************************************************************)
EXTENDS PlexCopy, TLAPS

Active == {"stat", "log", "copy", "check", "finish"}
Done == {"prefs", "second", "verify", "publish"}
Two == [1..2 -> Nat]
Uses == {"commits", "starts", "writes", "errors", "crashes", "runs"}

-----------------------------------------------------------------------------
(* The invariant.                                                          *)

RunFields == DOMAIN run = {"at", "d", "attempt", "before", "live", "page", "copy", "read", "seen", "ok"}
RunTypes ==
    /\ run.at \in Active \cup Done \cup {"idle", "fail"}
    /\ run.d \in {Library, Blobs} /\ run.before \in Nat
    /\ run.page \in 1..2 /\ run.copy \in Two
    /\ DOMAIN run.seen = {Library, Blobs}

DbType == [main : Two, logged : Nat, at : Nat, mtime : Nat]

Shapes ==
    /\ used \in [Uses -> Nat]
    /\ db \in [Dbs -> DbType]
    /\ DOMAIN staged = Files
    /\ RunFields /\ RunTypes

\* A log holds the newest commit, or the one to go back to; without one the pages are the newest commit.
Committed(D) ==
    \A d \in Dbs :
        /\ D[d].logged \in {0, D[d].at} /\ D[d].at # 0
        /\ D[d].logged = 0 => D[d].main[1] = D[d].at /\ D[d].main[2] = D[d].at

Good(d) == staged[d][1] = staged[d][2] /\ staged[d][1] \in run.seen[d]

\* The job copies a database that Plex has; the newest commit is one of those seen, and the file was
\* not older before.
Watching ==
    /\ run.at \in Active => run.d \in Dbs
    /\ run.at \in {"log", "copy"} => db[run.d].at \in run.seen[run.d]
    /\ run.at \in {"log", "copy", "check"} => run.before <= db[run.d].mtime

\* While the file is as old as before, an immutable read finds one commit in it, and the pages read
\* so far are of that one.
Reading ==
    run.at \in {"copy", "check"} /\ ~run.live /\ db[run.d].mtime = run.before =>
        /\ db[run.d].main[1] = db[run.d].main[2]
        /\ db[run.d].main[1] \in run.seen[run.d]
        /\ run.page = 2 => run.copy[1] = db[run.d].main[1]
        /\ run.at = "check" => run.page = 2 /\ run.copy[2] = db[run.d].main[1]

\* A copy that was read through SQLite, or found stable, is one commit that was seen.
Read ==
    run.at = "finish" \/ (run.at = "check" /\ run.live) =>
        run.copy[1] = run.copy[2] /\ run.copy[1] \in run.seen[run.d]

\* What is staged of the databases that are done.
Staged ==
    /\ run.at \in Active /\ run.d = Blobs => Good(Library)
    /\ run.at \in Done => \A d \in Dbs : Good(d)

CopyInv ==
    Shapes /\ Committed(db) /\ Watching /\ Reading /\ Read /\ Staged /\ OkIsSound /\ StagedRemoved

-----------------------------------------------------------------------------
(* Facts about pages and names.                                            *)

\* A database of two pages of one commit each.
LEMMA Pair ==
    ASSUME NEW a \in Nat, NEW b \in Nat
    PROVE  <<a, b>> \in Two /\ <<a, b>>[1] = a /\ <<a, b>>[2] = b
  BY DEF Two

\* The databases are files, and not Preferences.xml.
LEMMA Names == Dbs \subseteq {Library, Blobs} /\ Library \in Dbs /\ Dbs \subseteq Files /\ "prefs" \notin Dbs
  BY DEF Dbs, Files, Library, Blobs

WithLog(r, l, a) == [r EXCEPT !.logged = l, !.at = a]
WithMain(r, m, t) == [r EXCEPT !.main = m, !.mtime = t]
WithBack(r, m, t) == [r EXCEPT !.main = m, !.logged = 0, !.mtime = t]

\* What a database is after its log and its newest commit are set.
LEMMA SetLog ==
    ASSUME NEW r \in DbType, NEW l \in Nat, NEW a \in Nat
    PROVE  /\ WithLog(r, l, a) \in DbType /\ WithLog(r, l, a).main = r.main /\ WithLog(r, l, a).logged = l
           /\ WithLog(r, l, a).at = a /\ WithLog(r, l, a).mtime = r.mtime
  BY DEF DbType, WithLog

\* The pages and the time of change are set.
LEMMA SetMain ==
    ASSUME NEW r \in DbType, NEW m \in Two, NEW t \in Nat
    PROVE  /\ WithMain(r, m, t) \in DbType /\ WithMain(r, m, t).main = m /\ WithMain(r, m, t).logged = r.logged
           /\ WithMain(r, m, t).at = r.at /\ WithMain(r, m, t).mtime = t
  BY DEF DbType, WithMain

\* A journal is rolled back.
LEMMA SetBack ==
    ASSUME NEW r \in DbType, NEW m \in Two, NEW t \in Nat
    PROVE  /\ WithBack(r, m, t) \in DbType /\ WithBack(r, m, t).main = m /\ WithBack(r, m, t).logged = 0
           /\ WithBack(r, m, t).at = r.at /\ WithBack(r, m, t).mtime = t
  BY DEF DbType, WithBack

\* No job runs.
LEMMA IdleShape ==
    /\ Idle.at = "idle" /\ Idle.d = Library /\ Idle.before = 0 /\ Idle.live = FALSE /\ Idle.page = 1
    /\ Idle.copy = <<0, 0>> /\ Idle.copy \in Two /\ DOMAIN Idle.seen = {Library, Blobs} /\ Idle.ok = FALSE
  BY Pair DEF Idle

\* The invariant holds at first.
LEMMA InitCopy == Init => CopyInv
  <1> SUFFICES ASSUME Init PROVE CopyInv
      OBVIOUS
  <1>1. used \in [Uses -> Nat] /\ used.crashes = 0
      BY DEF Init, Uses
  <1>2. db \in [Dbs -> DbType] /\ Committed(db)
      BY Pair DEF Init, DbType, Committed
  <1>3. run = Idle /\ staged = Nothing /\ DOMAIN staged = Files
      BY DEF Init, Nothing
  <1>4. RunFields
      BY <1>3 DEF RunFields, Idle
  <1>5. RunTypes
    <2>1. run.at = "idle" /\ run.d = Library /\ run.before = 0 /\ run.live = FALSE /\ run.page = 1
        BY <1>3, IdleShape
    <2>2. run.copy \in Two /\ DOMAIN run.seen = {Library, Blobs}
        BY <1>3, IdleShape
    <2> QED BY <2>1, <2>2 DEF RunTypes
  <1>6. Watching /\ Reading /\ Read /\ Staged /\ OkIsSound /\ StagedRemoved
      BY <1>3, IdleShape DEF Watching, Reading, Read, Staged, OkIsSound, StagedRemoved, Active, Done
  <1> QED BY <1>1, <1>2, <1>3, <1>4, <1>5, <1>6 DEF CopyInv, Shapes

-----------------------------------------------------------------------------
(* Plex.                                                                   *)

\* Plex leaves a committed state or a log, and touches a file that it writes.
PlexStep ==
    /\ world' = world /\ staged' = staged
    /\ used' \in [Uses -> Nat] /\ used'.crashes = used.crashes
    /\ db' \in [Dbs -> DbType]
    /\ Committed(db')
    /\ \A d \in Dbs : db'[d].mtime >= db[d].mtime /\ (db'[d].mtime = db[d].mtime => db'[d].main = db[d].main)
    /\ run' = Seen(db')

\* What a step of Plex uses of its bounds.
LEMMA UseEffect ==
    ASSUME NEW w \in Uses, used \in [Uses -> Nat], Use(w)
    PROVE  used' \in [Uses -> Nat] /\ (w # "crashes" => used'.crashes = used.crashes)
  BY DEF Use, Uses

\* A commit to the -wal, or a transaction that begins to write in place.
LEMMA CommitEffect == ASSUME CopyInv, NEW d \in Dbs, Commit(d) PROVE PlexStep
  <1>1. used' \in [Uses -> Nat] /\ used'.crashes = used.crashes
      BY UseEffect DEF CopyInv, Shapes, Commit, Uses
  <1> DEFINE l == IF Wal THEN db[d].at + 1 ELSE db[d].at
             a == IF Wal THEN db[d].at + 1 ELSE db[d].at
  <1>2. db' = [db EXCEPT ![d].logged = l, ![d].at = a]
      BY DEF Commit, Plex, CopyInv, Shapes, DbType
  <1>3. db \in [Dbs -> DbType] /\ Committed(db)
      BY DEF CopyInv, Shapes
  <1>4. db[d] \in DbType /\ l \in Nat /\ a \in Nat /\ l = a /\ a # 0
      BY <1>3 DEF DbType, Committed
  <1>5. \A e \in Dbs : db'[e] = IF e = d THEN [db[d] EXCEPT !.logged = l, !.at = a] ELSE db[e]
      BY <1>2, <1>3
  <1>6. db' \in [Dbs -> DbType] /\ Committed(db')
      BY <1>2, <1>3, <1>4 DEF DbType, Committed
  <1>7. \A e \in Dbs : db'[e].mtime = db[e].mtime /\ db'[e].main = db[e].main /\ db[e].mtime \in Nat
      BY <1>5, <1>3, <1>4 DEF DbType
  <1>8. world' = world /\ staged' = staged /\ run' = Seen(db')
      BY DEF Commit, Plex
  <1> QED BY <1>1, <1>6, <1>7, <1>8 DEF PlexStep

\* A checkpoint or a transaction writes a page, and the file is newer.
LEMMA WritePageEffect == ASSUME CopyInv, NEW d \in Dbs, NEW p \in 1..2, WritePage(d, p) PROVE PlexStep
  <1>1. used' \in [Uses -> Nat] /\ used'.crashes = used.crashes
      BY DEF CopyInv, Shapes, WritePage
  <1> DEFINE n == New(d)
  <1>2. db' = [db EXCEPT ![d].main[p] = n, ![d].mtime = @ + 1] /\ db[d].logged # 0
      BY DEF WritePage, Plex
  <1>3. db \in [Dbs -> DbType] /\ Committed(db)
      BY DEF CopyInv, Shapes
  <1>4. db[d] \in DbType /\ n \in Nat
      BY <1>3 DEF DbType, New
  <1> HIDE DEF n
  <1> DEFINE t == db[d].mtime + 1
             m == [db[d].main EXCEPT ![p] = n]
             x == WithMain(db[d], m, t)
  <1>5. db' = [db EXCEPT ![d] = x]
      BY <1>2, <1>3 DEF WithMain
  <1>6. x \in DbType /\ x.logged = db[d].logged /\ x.at = db[d].at /\ x.mtime = db[d].mtime + 1
    <2>1. db[d].main \in Two /\ t \in Nat
        BY <1>4 DEF DbType
    <2>2. m \in Two
        BY <1>4, <2>1 DEF Two
    <2> HIDE DEF t, m
    <2>3. x \in DbType /\ x.logged = db[d].logged /\ x.at = db[d].at /\ x.mtime = t
        BY <1>4, <2>1, <2>2, SetMain
    <2> QED BY <2>3 DEF t
  <1> HIDE DEF x
  <1>7. db' \in [Dbs -> DbType] /\ \A e \in Dbs : db'[e] = IF e = d THEN x ELSE db[e]
      BY <1>3, <1>5, <1>6
  <1>8. Committed(db')
      BY <1>2, <1>3, <1>6, <1>7 DEF Committed
  <1>9. \A e \in Dbs : db'[e].mtime >= db[e].mtime /\ (db'[e].mtime = db[e].mtime => db'[e].main = db[e].main)
      BY <1>3, <1>6, <1>7 DEF DbType
  <1>10. world' = world /\ staged' = staged /\ run' = Seen(db')
      BY DEF WritePage, Plex
  <1> QED BY <1>1, <1>7, <1>8, <1>9, <1>10 DEF PlexStep

\* The transaction is committed: both pages are its own.
LEMMA EndJournalEffect == ASSUME CopyInv, NEW d \in Dbs, EndJournal(d) PROVE PlexStep
  <1>1. used' \in [Uses -> Nat] /\ used'.crashes = used.crashes
      BY DEF CopyInv, Shapes, EndJournal
  <1>2. db' = [db EXCEPT ![d].logged = 0, ![d].at = @ + 1] /\ db[d].main[1] = db[d].at + 1 /\ db[d].main[2] = db[d].at + 1
      BY DEF EndJournal, Plex, New
  <1>3. db \in [Dbs -> DbType] /\ Committed(db)
      BY DEF CopyInv, Shapes
  <1>4. db[d] \in DbType
      BY <1>3
  <1> DEFINE a == db[d].at + 1
             x == WithLog(db[d], 0, a)
  <1>5. db' = [db EXCEPT ![d] = x]
      BY <1>2, <1>3 DEF WithLog
  <1>6. x \in DbType /\ x.logged = 0 /\ x.at = db[d].at + 1 /\ x.mtime = db[d].mtime /\ x.main = db[d].main
    <2>1. a \in Nat
        BY <1>4 DEF DbType
    <2> HIDE DEF a
    <2>2. x \in DbType /\ x.logged = 0 /\ x.at = a /\ x.mtime = db[d].mtime /\ x.main = db[d].main
        BY <1>4, <2>1, SetLog
    <2> QED BY <2>2 DEF a
  <1> HIDE DEF x
  <1>7. db' \in [Dbs -> DbType] /\ \A e \in Dbs : db'[e] = IF e = d THEN x ELSE db[e]
      BY <1>3, <1>5, <1>6
  <1>8. x.at # 0
      BY <1>4, <1>6 DEF DbType
  <1>9. Committed(db')
      BY <1>2, <1>3, <1>6, <1>7, <1>8 DEF Committed
  <1>10. \A e \in Dbs : db'[e].mtime >= db[e].mtime /\ (db'[e].mtime = db[e].mtime => db'[e].main = db[e].main)
      BY <1>3, <1>6, <1>7 DEF DbType
  <1>11. world' = world /\ staged' = staged /\ run' = Seen(db')
      BY DEF EndJournal, Plex
  <1> QED BY <1>1, <1>7, <1>9, <1>10, <1>11 DEF PlexStep

\* Plex stops: what the log held is in the file.
LEMMA StopEffect == ASSUME CopyInv, Stop PROVE PlexStep
  <1>1. used' \in [Uses -> Nat] /\ used'.crashes = used.crashes
      BY DEF CopyInv, Shapes, Stop
  <1>2. db' = [d \in Dbs |-> [db[d] EXCEPT !.logged = 0]]
      BY DEF Stop, Plex
  <1>3. db \in [Dbs -> DbType] /\ Committed(db)
      BY DEF CopyInv, Shapes
  <1>4. ASSUME NEW d \in Dbs
        PROVE  /\ db'[d] \in DbType /\ db'[d].logged = 0 /\ db'[d].at = db[d].at /\ db'[d].mtime = db[d].mtime
               /\ db'[d].main = db[d].main /\ db[d].mtime \in Nat
      BY <1>2, <1>3 DEF DbType
  <1>5. ASSUME NEW d \in Dbs PROVE db[d].main[1] = db[d].at /\ db[d].main[2] = db[d].at
    <2>1. CASE db[d].logged = 0
        BY <1>3, <2>1 DEF Committed
    <2>2. CASE db[d].logged # 0
      <3>1. db[d].logged = db[d].at /\ db[d].logged \in Nat
          BY <1>3, <2>2 DEF Committed, DbType
      <3>2. db[d].main = <<db[d].logged, db[d].logged>>
          BY <2>2 DEF Stop, New
      <3> QED BY <3>1, <3>2, Pair
    <2> QED BY <2>1, <2>2
  <1>6. db' \in [Dbs -> DbType]
      BY <1>2, <1>4
  <1>7. Committed(db')
      BY <1>3, <1>4, <1>5 DEF Committed
  <1>8. world' = world /\ staged' = staged /\ run' = Seen(db')
      BY DEF Stop, Plex
  <1> QED BY <1>1, <1>4, <1>6, <1>7, <1>8 DEF PlexStep

\* Plex starts: a hot journal is rolled back, and the file is newer.
LEMMA StartEffect == ASSUME CopyInv, Start PROVE PlexStep
  <1>1. used' \in [Uses -> Nat] /\ used'.crashes = used.crashes
      BY UseEffect DEF CopyInv, Shapes, Start, Uses
  <1> DEFINE t(d) == db[d].mtime + 1
             m(d) == <<db[d].logged, db[d].logged>>
             x(d) == WithBack(db[d], m(d), t(d))
  <1>2. db' = [d \in Dbs |-> IF Wal \/ db[d].logged = 0 THEN db[d] ELSE x(d)]
      BY DEF Start, Plex, WithBack
  <1>3. db \in [Dbs -> DbType] /\ Committed(db)
      BY DEF CopyInv, Shapes
  <1>4. ASSUME NEW d \in Dbs
        PROVE  /\ x(d) \in DbType /\ x(d).logged = 0 /\ x(d).at = db[d].at /\ x(d).mtime = db[d].mtime + 1
               /\ x(d).main[1] = db[d].logged /\ x(d).main[2] = db[d].logged
    <2>1. db[d] \in DbType /\ db[d].logged \in Nat
        BY <1>3 DEF DbType
    <2>2. m(d) \in Two /\ m(d)[1] = db[d].logged /\ m(d)[2] = db[d].logged
        BY <2>1, Pair
    <2>3. t(d) \in Nat
        BY <2>1 DEF DbType
    <2> HIDE DEF t, m
    <2>4. x(d) \in DbType /\ x(d).logged = 0 /\ x(d).at = db[d].at /\ x(d).mtime = t(d) /\ x(d).main = m(d)
        BY <2>1, <2>2, <2>3, SetBack
    <2> HIDE DEF x
    <2> QED BY <2>2, <2>4 DEF t
  <1> HIDE DEF x
  <1>5. \A d \in Dbs : db'[d] = db[d] \/ (db[d].logged # 0 /\ db'[d] = x(d))
      BY <1>2
  <1>6. db' \in [Dbs -> DbType]
      BY <1>2, <1>3, <1>4
  <1>7. Committed(db')
      BY <1>3, <1>4, <1>5 DEF Committed
  <1>8. \A e \in Dbs : db'[e].mtime >= db[e].mtime /\ (db'[e].mtime = db[e].mtime => db'[e].main = db[e].main)
      BY <1>3, <1>4, <1>5 DEF DbType
  <1>9. world' = world /\ staged' = staged /\ run' = Seen(db')
      BY DEF Start, Plex
  <1> QED BY <1>1, <1>6, <1>7, <1>8, <1>9 DEF PlexStep

\* What a step of Plex leaves of the job: only the commits that it sees are more.
LEMMA SeenEffect ==
    ASSUME RunFields, RunTypes, NEW D, run' = Seen(D)
    PROVE  /\ RunFields' /\ RunTypes'
           /\ run'.at = run.at /\ run'.d = run.d /\ run'.before = run.before /\ run'.live = run.live
           /\ run'.page = run.page /\ run'.copy = run.copy /\ run'.ok = run.ok
           /\ \A e \in {Library, Blobs} : run.seen[e] \subseteq run'.seen[e]
           /\ Copying => D[run.d].at \in run'.seen[run.d]
  <1>1. CASE ~Copying
      BY <1>1 DEF Seen, RunTypes, RunFields
  <1>2. CASE Copying
    <2>1. run' = [run EXCEPT !.seen[run.d] = @ \cup {D[run.d].at}]
        BY <1>2 DEF Seen
    <2>2. /\ DOMAIN run' = DOMAIN run
          /\ run'.at = run.at /\ run'.d = run.d /\ run'.before = run.before /\ run'.live = run.live
          /\ run'.page = run.page /\ run'.copy = run.copy /\ run'.ok = run.ok
          /\ run'.seen = [run.seen EXCEPT ![run.d] = @ \cup {D[run.d].at}]
        BY <2>1 DEF RunFields
    <2>3. DOMAIN run'.seen = {Library, Blobs} /\ D[run.d].at \in run'.seen[run.d]
          /\ \A e \in {Library, Blobs} : run.seen[e] \subseteq run'.seen[e]
        BY <2>2 DEF RunTypes
    <2> QED BY <2>2, <2>3 DEF RunFields, RunTypes
  <1> QED BY <1>1, <1>2

\* The invariant withstands Plex.
LEMMA PlexKeeps == ASSUME CopyInv, PlexStep PROVE CopyInv'
  <1>1. /\ Dbs' = Dbs /\ world' = world /\ staged' = staged /\ db' \in [Dbs -> DbType] /\ db \in [Dbs -> DbType]
        /\ used' \in [Uses -> Nat] /\ used'.crashes = used.crashes /\ DOMAIN staged = Files
      BY DEF PlexStep, Dbs, CopyInv, Shapes
  <1>2. /\ RunFields' /\ RunTypes' /\ RunTypes
        /\ run'.at = run.at /\ run'.d = run.d /\ run'.before = run.before /\ run'.live = run.live
        /\ run'.page = run.page /\ run'.copy = run.copy /\ run'.ok = run.ok
        /\ \A e \in {Library, Blobs} : run.seen[e] \subseteq run'.seen[e]
        /\ Copying => db'[run.d].at \in run'.seen[run.d]
      BY SeenEffect DEF PlexStep, CopyInv, Shapes
  <1>3. Shapes'
      BY <1>1, <1>2 DEF Shapes
  <1>4. Committed(db)'
      BY <1>1 DEF PlexStep, Committed
  <1>5. run.at \in Active => run.d \in Dbs
      BY DEF CopyInv, Watching
  <1>6. run.d \in Dbs =>
            /\ db'[run.d].mtime >= db[run.d].mtime /\ db'[run.d].mtime \in Nat /\ db[run.d].mtime \in Nat
            /\ db'[run.d].mtime = db[run.d].mtime => db'[run.d].main = db[run.d].main
    <2>1. run.d \in Dbs => db'[run.d] \in DbType /\ db[run.d] \in DbType
        BY <1>1
    <2> QED BY <2>1 DEF PlexStep, DbType
  <1>7. run.before \in Nat /\ run.d \in {Library, Blobs}
      BY <1>2 DEF RunTypes
  <1>8. Watching'
      BY <1>1, <1>2, <1>5, <1>6, <1>7 DEF CopyInv, Watching, Copying, Active
  <1>9. Reading'
    <2> SUFFICES ASSUME run.at \in {"copy", "check"}, ~run.live, db'[run.d].mtime = run.before
                 PROVE  /\ db'[run.d].main[1] = db'[run.d].main[2] /\ db'[run.d].main[1] \in run'.seen[run.d]
                        /\ run.page = 2 => run.copy[1] = db'[run.d].main[1]
                        /\ run.at = "check" => run.page = 2 /\ run.copy[2] = db'[run.d].main[1]
        BY <1>2 DEF Reading
    <2>1. run.d \in Dbs /\ run.before <= db[run.d].mtime
        BY DEF CopyInv, Watching, Active
    <2>2. db[run.d].mtime = run.before /\ db'[run.d].main = db[run.d].main
        BY <2>1, <1>6, <1>7
    <2> QED BY <1>2, <1>7, <2>2 DEF CopyInv, Reading
  <1>10. Read'
      BY <1>2, <1>7 DEF CopyInv, Read
  <1>11. Staged'
    <2>1. ASSUME NEW e \in {Library, Blobs}, Good(e) PROVE Good(e)'
        BY <1>1, <1>2, <2>1 DEF Good
    <2> QED BY <1>1, <1>2, <2>1, Names DEF CopyInv, Staged, Library, Blobs
  <1>12. OkIsSound'
      BY <1>1, <1>2 DEF CopyInv, OkIsSound
  <1>13. StagedRemoved'
      BY <1>1, <1>2 DEF CopyInv, StagedRemoved, Nothing, Files
  <1> QED BY <1>3, <1>4, <1>8, <1>9, <1>10, <1>11, <1>12, <1>13 DEF CopyInv

-----------------------------------------------------------------------------
(* The job.                                                                *)

\* What the job leaves alone, and what every step of it has to show.
JobStep ==
    /\ world' = world /\ db' = db
    /\ used' \in [Uses -> Nat] /\ (run'.at = "idle" /\ used'.crashes = 0 => staged' = Nothing)
    /\ DOMAIN staged' = Files /\ RunFields' /\ RunTypes'

\* What it then has to show of the copy.
LEMMA JobKeeps ==
    ASSUME CopyInv, JobStep, Watching', Reading', Read', Staged', OkIsSound'
    PROVE  CopyInv'
  <1>1. Dbs' = Dbs /\ db' = db
      BY DEF JobStep, Dbs
  <1>2. Shapes'
      BY <1>1 DEF CopyInv, Shapes, JobStep
  <1>3. Committed(db)'
      BY <1>1 DEF CopyInv, Committed
  <1>4. StagedRemoved'
      BY DEF JobStep, StagedRemoved, Nothing, Files
  <1> QED BY <1>2, <1>3, <1>4 DEF CopyInv

\* A step that only goes on, or gives the attempt up.
LEMMA Elsewhere ==
    ASSUME CopyInv, JobStep, run'.at \in {"idle", "fail"}
    PROVE  CopyInv'
  <1>1. Watching' /\ Reading' /\ Read' /\ Staged' /\ OkIsSound'
      BY DEF Watching, Reading, Read, Staged, OkIsSound, Active, Done
  <1> QED BY <1>1, JobKeeps

\* What the invariant says of the state, for the steps of the job.
LEMMA Known ==
    ASSUME CopyInv
    PROVE  /\ used \in [Uses -> Nat] /\ DOMAIN staged = Files /\ RunFields /\ RunTypes /\ db \in [Dbs -> DbType]
           /\ used.crashes \in Nat
  BY DEF CopyInv, Shapes, Uses

\* A step to another point.
LEMMA GoEffect ==
    ASSUME RunFields, RunTypes, NEW q \in Active \cup Done \cup {"idle", "fail"}, Go(q)
    PROVE  /\ RunFields' /\ RunTypes'
           /\ run'.at = q /\ run'.d = run.d /\ run'.before = run.before /\ run'.live = run.live
           /\ run'.page = run.page /\ run'.copy = run.copy /\ run'.ok = run.ok /\ run'.seen = run.seen
  <1>1. /\ DOMAIN run' = DOMAIN run
        /\ run'.at = q /\ run'.d = run.d /\ run'.before = run.before /\ run'.live = run.live
        /\ run'.page = run.page /\ run'.copy = run.copy /\ run'.ok = run.ok /\ run'.seen = run.seen
      BY DEF RunFields, Go
  <1> QED BY <1>1 DEF RunFields, RunTypes

\* Another attempt of the same database, or the end.
LEMMA AgainKeeps ==
    ASSUME CopyInv, run.at \in {"copy", "check"}, Again, staged' = staged, Outside,
           used' \in [Uses -> Nat], used'.crashes = used.crashes
    PROVE  CopyInv'
  <1>1. CASE Go("fail")
    <2>1. RunFields' /\ RunTypes' /\ run'.at = "fail"
        BY <1>1, Known, GoEffect
    <2> QED BY <2>1, Known, Elsewhere DEF JobStep, Outside
  <1>2. CASE run' = [run EXCEPT !.at = "stat", !.attempt = @ + 1]
    <2>1. /\ DOMAIN run' = DOMAIN run
          /\ run'.at = "stat" /\ run'.d = run.d /\ run'.before = run.before /\ run'.live = run.live
          /\ run'.page = run.page /\ run'.copy = run.copy /\ run'.ok = run.ok /\ run'.seen = run.seen
        BY <1>2, Known DEF RunFields
    <2>2. RunFields' /\ RunTypes'
        BY <2>1, Known DEF RunFields, RunTypes, Active
    <2>3. JobStep
        BY <2>1, <2>2, Known DEF JobStep, Outside
    <2>4. world' = world /\ Dbs' = Dbs
        BY DEF Outside, Dbs
    <2>5. Watching' /\ Reading' /\ Read' /\ OkIsSound'
        BY <2>1, <2>4 DEF CopyInv, Watching, Reading, Read, OkIsSound, Active
    <2>6. Staged'
        BY <2>1, <2>4 DEF CopyInv, Staged, Good, Active, Done
    <2> QED BY <2>3, <2>5, <2>6, JobKeeps
  <1> QED BY <1>1, <1>2 DEF Again

\* The job begins with nothing staged.
LEMMA BeginKeeps == ASSUME CopyInv, Begin PROVE CopyInv'
  <1>1. used' \in [Uses -> Nat]
      BY Known, UseEffect DEF Begin, Uses
  <1>2. staged' = Nothing /\ DOMAIN staged' = Files
      BY DEF Begin, Nothing
  <1> DEFINE q == IF world.space THEN "stat" ELSE "fail"
  <1>3. run' = [Idle EXCEPT !.at = q] /\ q \in {"stat", "fail"}
      BY DEF Begin
  <1> HIDE DEF q
  <1>4. /\ DOMAIN run' = {"at", "d", "attempt", "before", "live", "page", "copy", "read", "seen", "ok"}
        /\ run'.at = q /\ run'.d = Library /\ run'.before = 0 /\ run'.page = 1
        /\ run'.copy = Idle.copy /\ run'.seen = Idle.seen
      BY <1>3 DEF Idle
  <1>5. RunFields' /\ RunTypes'
      BY <1>3, <1>4, IdleShape DEF RunFields, RunTypes, Active
  <1>6. JobStep
      BY <1>1, <1>2, <1>5 DEF JobStep, Begin, Outside
  <1>7. Dbs' = Dbs
      BY DEF Begin, Outside, Dbs
  <1>8. Watching' /\ Reading' /\ Read' /\ OkIsSound' /\ Staged'
      BY <1>3, <1>4, <1>7, Names DEF Watching, Reading, Read, OkIsSound, Staged, Active, Done, Library, Blobs
  <1> QED BY <1>6, <1>8, JobKeeps

\* The file is looked at before the copy: the newest commit is seen.
LEMMA StatKeeps == ASSUME CopyInv, Stat PROVE CopyInv'
  <1>1. run.at = "stat" /\ staged' = staged /\ used' = used /\ world' = world /\ db' = db /\ Dbs' = Dbs
      BY DEF Stat, Outside, Dbs
  <1>2. run.d \in Dbs /\ db[run.d] \in DbType /\ db[run.d].mtime \in Nat
    <2>1. run.d \in Dbs
        BY <1>1 DEF CopyInv, Watching, Active
    <2>2. db[run.d] \in DbType
        BY <2>1, Known
    <2> QED BY <2>1, <2>2 DEF DbType
  <1>3. run' = [run EXCEPT !.at = "log", !.before = db[run.d].mtime, !.seen[run.d] = {db[run.d].at}]
      BY DEF Stat
  <1>4. /\ DOMAIN run' = DOMAIN run
        /\ run'.at = "log" /\ run'.d = run.d /\ run'.before = db[run.d].mtime /\ run'.page = run.page /\ run'.copy = run.copy
        /\ run'.seen = [run.seen EXCEPT ![run.d] = {db[run.d].at}]
      BY <1>3, Known DEF RunFields
  <1>5. DOMAIN run'.seen = {Library, Blobs} /\ db[run.d].at \in run'.seen[run.d]
        /\ \A e \in {Library, Blobs} : e # run.d => run'.seen[e] = run.seen[e]
      BY <1>4, Known DEF RunTypes
  <1>6. RunFields' /\ RunTypes'
      BY <1>2, <1>4, <1>5, Known DEF RunFields, RunTypes, Active
  <1>7. JobStep
      BY <1>1, <1>4, <1>6, Known DEF JobStep
  <1>8. Watching'
      BY <1>1, <1>2, <1>4, <1>5 DEF Watching, Active
  <1>9. Reading' /\ Read' /\ OkIsSound'
      BY <1>4 DEF Reading, Read, OkIsSound
  <1>10. Staged'
      BY <1>1, <1>4, <1>5 DEF CopyInv, Staged, Good, Active, Done, Library, Blobs
  <1> QED BY <1>7, <1>8, <1>9, <1>10, JobKeeps

\* Without a log the pages are the newest commit, which was seen.
LEMMA ChooseKeeps == ASSUME CopyInv, Choose PROVE CopyInv'
  <1>1. run.at = "log" /\ staged' = staged /\ used' = used /\ world' = world /\ db' = db /\ Dbs' = Dbs
      BY DEF Choose, Outside, Dbs
  <1>2. run.d \in Dbs /\ db[run.d].at \in run.seen[run.d] /\ run.before <= db[run.d].mtime
      BY <1>1 DEF CopyInv, Watching, Active
  <1>3. run' = [run EXCEPT !.at = "copy", !.live = HasLog(run.d), !.page = 1]
      BY DEF Choose
  <1>4. /\ DOMAIN run' = DOMAIN run
        /\ run'.at = "copy" /\ run'.d = run.d /\ run'.before = run.before /\ run'.live = HasLog(run.d)
        /\ run'.page = 1 /\ run'.copy = run.copy /\ run'.seen = run.seen
      BY <1>3, Known DEF RunFields
  <1>5. RunFields' /\ RunTypes'
      BY <1>4, Known DEF RunFields, RunTypes, Active
  <1>6. JobStep
      BY <1>1, <1>4, <1>5, Known DEF JobStep
  <1>7. Watching'
      BY <1>1, <1>2, <1>4 DEF Watching, Active
  <1>8. Reading'
    <2>1. ~HasLog(run.d) => db[run.d].main[1] = db[run.d].at /\ db[run.d].main[2] = db[run.d].at
        BY <1>2 DEF HasLog, CopyInv, Committed
    <2> QED BY <1>1, <1>2, <1>4, <2>1 DEF Reading
  <1>9. Read' /\ OkIsSound'
      BY <1>4 DEF Read, OkIsSound
  <1>10. Staged'
      BY <1>1, <1>4 DEF CopyInv, Staged, Good, Active, Done
  <1> QED BY <1>6, <1>7, <1>8, <1>9, <1>10, JobKeeps

\* SQLite reads the newest commit.
LEMMA CopyLiveKeeps == ASSUME CopyInv, CopyLive PROVE CopyInv'
  <1>1. run.at = "copy" /\ run.live /\ staged' = staged /\ used' = used /\ world' = world /\ db' = db /\ Dbs' = Dbs
      BY DEF CopyLive, Outside, Dbs
  <1>2. run.d \in Dbs /\ db[run.d].at \in run.seen[run.d] /\ run.before <= db[run.d].mtime /\ db[run.d].at \in Nat
    <2>1. run.d \in Dbs /\ db[run.d].at \in run.seen[run.d] /\ run.before <= db[run.d].mtime
        BY <1>1 DEF CopyInv, Watching, Active
    <2>2. db[run.d] \in DbType
        BY <2>1, Known
    <2> QED BY <2>1, <2>2 DEF DbType
  <1> DEFINE c == <<db[run.d].at, db[run.d].at>>
  <1>3. c \in Two /\ c[1] = db[run.d].at /\ c[2] = db[run.d].at
      BY <1>2, Pair
  <1>4. run' = [run EXCEPT !.at = "check", !.copy = c]
      BY DEF CopyLive
  <1> HIDE DEF c
  <1>5. /\ DOMAIN run' = DOMAIN run
        /\ run'.at = "check" /\ run'.d = run.d /\ run'.before = run.before /\ run'.live = run.live
        /\ run'.page = run.page /\ run'.copy = c /\ run'.seen = run.seen
      BY <1>4, Known DEF RunFields
  <1>6. RunFields' /\ RunTypes'
      BY <1>3, <1>5, Known DEF RunFields, RunTypes, Active
  <1>7. JobStep
      BY <1>1, <1>5, <1>6, Known DEF JobStep
  <1>8. Watching'
      BY <1>1, <1>2, <1>5 DEF Watching, Active
  <1>9. Reading' /\ Read' /\ OkIsSound'
      BY <1>1, <1>2, <1>3, <1>5 DEF Reading, Read, OkIsSound
  <1>10. Staged'
      BY <1>1, <1>5 DEF CopyInv, Staged, Good, Active, Done
  <1> QED BY <1>7, <1>8, <1>9, <1>10, JobKeeps

\* A page is read: of the commit the file holds, while it is as old as before.
LEMMA CopyPageKeeps == ASSUME CopyInv, CopyPage PROVE CopyInv'
  <1>1. run.at = "copy" /\ ~run.live /\ staged' = staged /\ used' = used /\ world' = world /\ db' = db /\ Dbs' = Dbs
      BY DEF CopyPage, Outside, Dbs
  <1>2. /\ run.d \in Dbs /\ db[run.d].at \in run.seen[run.d] /\ run.before <= db[run.d].mtime
        /\ db[run.d].main \in Two /\ run.page \in 1..2 /\ run.copy \in Two
    <2>1. run.d \in Dbs /\ db[run.d].at \in run.seen[run.d] /\ run.before <= db[run.d].mtime
        BY <1>1 DEF CopyInv, Watching, Active
    <2>2. db[run.d] \in DbType
        BY <2>1, Known
    <2> QED BY <2>1, <2>2, Known DEF DbType, RunTypes
  <1> DEFINE n == db[run.d].main[run.page]
             q == IF run.page = 2 THEN "check" ELSE "copy"
  <1>3. run' = [run EXCEPT !.copy[run.page] = n, !.page = 2, !.at = q]
      BY <1>1 DEF CopyPage
  <1>4. n \in Nat /\ q \in {"copy", "check"} /\ (q = "check" <=> run.page = 2)
      BY <1>2 DEF Two
  <1> HIDE DEF q
  <1>5. /\ DOMAIN run' = DOMAIN run
        /\ run'.at = q /\ run'.d = run.d /\ run'.before = run.before /\ run'.live = run.live
        /\ run'.page = 2 /\ run'.copy = [run.copy EXCEPT ![run.page] = n] /\ run'.seen = run.seen
      BY <1>3, Known DEF RunFields
  <1>6. run'.copy \in Two /\ run'.copy[run.page] = n /\ \A i \in 1..2 : i # run.page => run'.copy[i] = run.copy[i]
      BY <1>2, <1>4, <1>5 DEF Two
  <1>7. RunFields' /\ RunTypes'
      BY <1>4, <1>5, <1>6, Known DEF RunFields, RunTypes, Active
  <1>8. JobStep
      BY <1>1, <1>4, <1>5, <1>7, Known DEF JobStep
  <1>9. Watching'
      BY <1>1, <1>2, <1>4, <1>5 DEF Watching, Active
  <1>10. Reading'
    <2> SUFFICES ASSUME db[run.d].mtime = run.before
                 PROVE  /\ db[run.d].main[1] = db[run.d].main[2] /\ db[run.d].main[1] \in run.seen[run.d]
                        /\ run'.copy[1] = db[run.d].main[1]
                        /\ q = "check" => run'.copy[2] = db[run.d].main[1]
        BY <1>1, <1>5 DEF Reading
    <2>1. /\ db[run.d].main[1] = db[run.d].main[2] /\ db[run.d].main[1] \in run.seen[run.d]
          /\ run.page = 2 => run.copy[1] = db[run.d].main[1]
        BY <1>1 DEF CopyInv, Reading
    <2>2. CASE run.page = 1
        BY <1>4, <1>6, <2>1, <2>2
    <2>3. CASE run.page = 2
        BY <1>4, <1>6, <2>1, <2>3
    <2> QED BY <1>2, <2>2, <2>3
  <1>11. Read' /\ OkIsSound'
      BY <1>1, <1>4, <1>5 DEF Read, OkIsSound
  <1>12. Staged'
      BY <1>1, <1>4, <1>5 DEF CopyInv, Staged, Good, Active, Done
  <1> QED BY <1>8, <1>9, <1>10, <1>11, <1>12, JobKeeps

\* The copy is stable, or read again.
LEMMA CheckCopyKeeps == ASSUME CopyInv, CheckCopy PROVE CopyInv'
  <1>1. run.at = "check" /\ staged' = staged /\ used' = used /\ world' = world /\ db' = db /\ Dbs' = Dbs /\ Outside
      BY DEF CheckCopy, Outside, Dbs
  <1>2. CASE Again
      BY <1>1, <1>2, AgainKeeps, Known
  <1>3. CASE Go("finish") /\ (run.live \/ Stable(run.d))
    <2>1. /\ RunFields' /\ RunTypes' /\ run'.at = "finish" /\ run'.d = run.d /\ run'.copy = run.copy /\ run'.seen = run.seen
        BY <1>3, Known, GoEffect DEF Active
    <2>2. run.copy[1] = run.copy[2] /\ run.copy[1] \in run.seen[run.d]
      <3>1. CASE run.live
          BY <1>1, <3>1 DEF CopyInv, Read
      <3>2. CASE ~run.live
          BY <1>1, <1>3, <3>2 DEF CopyInv, Reading, Stable
      <3> QED BY <3>1, <3>2
    <2>3. JobStep
        BY <1>1, <2>1, Known DEF JobStep
    <2>4. Watching' /\ Reading' /\ Read' /\ OkIsSound'
        BY <1>1, <2>1, <2>2 DEF CopyInv, Watching, Reading, Read, OkIsSound, Active
    <2>5. Staged'
        BY <1>1, <2>1 DEF CopyInv, Staged, Good, Active, Done
    <2> QED BY <2>3, <2>4, <2>5, JobKeeps
  <1> QED BY <1>2, <1>3 DEF CheckCopy

\* The copy gets its name, and the next database is copied.
LEMMA FinishStagedKeeps == ASSUME CopyInv, FinishStaged PROVE CopyInv'
  <1>1. run.at = "finish" /\ used' = used /\ world' = world /\ db' = db /\ Dbs' = Dbs
        /\ staged' = [staged EXCEPT ![run.d] = run.copy] /\ DOMAIN staged' = Files
      BY Known DEF FinishStaged, Outside, Dbs
  <1>2. run.d \in Dbs /\ run.copy[1] = run.copy[2] /\ run.copy[1] \in run.seen[run.d]
      BY <1>1 DEF CopyInv, Watching, Read, Active
  <1>3. staged'[run.d] = run.copy /\ \A e \in Dbs : e # run.d => staged'[e] = staged[e]
      BY <1>1, <1>2, Known, Names
  <1>4. CASE run.d = Library /\ world.blobs
    <2>1. run' = [run EXCEPT !.at = "stat", !.d = Blobs, !.attempt = 1]
        BY <1>4 DEF FinishStaged, Fresh
    <2>2. /\ DOMAIN run' = DOMAIN run
          /\ run'.at = "stat" /\ run'.d = Blobs /\ run'.before = run.before
          /\ run'.page = run.page /\ run'.copy = run.copy /\ run'.seen = run.seen
        BY <2>1, Known DEF RunFields
    <2>3. RunFields' /\ RunTypes'
        BY <2>2, Known DEF RunFields, RunTypes, Active
    <2>4. JobStep
        BY <1>1, <2>2, <2>3, Known DEF JobStep
    <2>5. Blobs \in Dbs
        BY <1>4 DEF Dbs
    <2>6. Watching' /\ Reading' /\ Read' /\ OkIsSound'
        BY <1>1, <2>2, <2>5 DEF Watching, Reading, Read, OkIsSound, Active
    <2>7. Staged'
        BY <1>2, <1>3, <1>4, <2>2 DEF Staged, Good, Active, Done
    <2> QED BY <2>4, <2>6, <2>7, JobKeeps
  <1>5. CASE ~(run.d = Library /\ world.blobs)
    <2>1. run' = [run EXCEPT !.at = "prefs", !.attempt = 1]
        BY <1>5 DEF FinishStaged
    <2>2. /\ DOMAIN run' = DOMAIN run
          /\ run'.at = "prefs" /\ run'.d = run.d /\ run'.before = run.before
          /\ run'.page = run.page /\ run'.copy = run.copy /\ run'.seen = run.seen
        BY <2>1, Known DEF RunFields
    <2>3. RunFields' /\ RunTypes'
        BY <2>2, Known DEF RunFields, RunTypes, Active, Done
    <2>4. JobStep
        BY <1>1, <2>2, <2>3, Known DEF JobStep
    <2>5. Watching' /\ Reading' /\ Read' /\ OkIsSound'
        BY <2>2 DEF Watching, Reading, Read, OkIsSound, Active
    <2>6. ASSUME NEW e \in Dbs PROVE Good(e)'
      <3>1. CASE e = run.d
          BY <1>2, <1>3, <2>2, <3>1 DEF Good
      <3>2. CASE e # run.d
        <4>1. e = Library /\ run.d = Blobs
            BY <1>2, <1>5, <3>2 DEF Dbs
        <4>2. Good(Library)
            BY <1>1, <4>1 DEF CopyInv, Staged, Active
        <4> QED BY <1>3, <2>2, <3>2, <4>1, <4>2 DEF Good
      <3> QED BY <3>1, <3>2
    <2>7. Staged'
        BY <1>1, <2>2, <2>6 DEF Staged, Active
    <2> QED BY <2>4, <2>5, <2>7, JobKeeps
  <1> QED BY <1>4, <1>5

\* A step past the copies, to one that is not the last.
LEMMA PastKeeps ==
    ASSUME CopyInv, run.at \in Done, RunFields', RunTypes', run'.at \in Done \ {"publish"}, run'.seen = run.seen,
           DOMAIN staged' = Files, \A e \in Dbs : staged'[e] = staged[e], used' = used, Outside
    PROVE  CopyInv'
  <1>1. world' = world /\ db' = db /\ Dbs' = Dbs
      BY DEF Outside, Dbs
  <1>2. JobStep
      BY <1>1, Known DEF JobStep, Done
  <1>3. Watching' /\ Reading' /\ Read' /\ OkIsSound'
      BY DEF Watching, Reading, Read, OkIsSound, Active, Done
  <1>4. Staged'
      BY <1>1 DEF CopyInv, Staged, Good, Active, Done
  <1> QED BY <1>2, <1>3, <1>4, JobKeeps

\* Preferences.xml is read.
LEMMA ReadFirstKeeps == ASSUME CopyInv, ReadFirst PROVE CopyInv'
  <1>1. run.at \in Done /\ staged' = staged /\ used' = used /\ Outside
      BY DEF ReadFirst, Done
  <1>2. CASE Go("verify")
    <2>1. RunFields' /\ RunTypes' /\ run'.at = "verify" /\ run'.seen = run.seen
        BY <1>2, Known, GoEffect DEF Done
    <2> QED BY <1>1, <2>1, Known, PastKeeps DEF Done
  <1>3. CASE run' = [run EXCEPT !.at = "second", !.read = prefs]
    <2>1. /\ DOMAIN run' = DOMAIN run
          /\ run'.at = "second" /\ run'.d = run.d /\ run'.before = run.before
          /\ run'.page = run.page /\ run'.copy = run.copy /\ run'.seen = run.seen
        BY <1>3, Known DEF RunFields
    <2>2. RunFields' /\ RunTypes'
        BY <2>1, Known DEF RunFields, RunTypes, Done
    <2> QED BY <1>1, <2>1, <2>2, Known, PastKeeps DEF Done
  <1> QED BY <1>2, <1>3 DEF ReadFirst

\* Preferences.xml is read again.
LEMMA ReadSecondKeeps == ASSUME CopyInv, ReadSecond PROVE CopyInv'
  <1>1. run.at \in Done /\ used' = used /\ Outside
      BY DEF ReadSecond, Done
  <1>2. DOMAIN staged' = Files /\ \A e \in Dbs : staged'[e] = staged[e]
    <2>1. staged' = staged \/ staged' = [staged EXCEPT !["prefs"] = prefs]
        BY DEF ReadSecond
    <2> QED BY <2>1, Known, Names
  <1>3. CASE Go("verify")
    <2>1. RunFields' /\ RunTypes' /\ run'.at = "verify" /\ run'.seen = run.seen
        BY <1>3, Known, GoEffect DEF Done
    <2> QED BY <1>1, <1>2, <2>1, PastKeeps DEF Done
  <1>4. CASE run' = [run EXCEPT !.at = "prefs", !.attempt = @ + 1]
    <2>1. /\ DOMAIN run' = DOMAIN run
          /\ run'.at = "prefs" /\ run'.d = run.d /\ run'.before = run.before
          /\ run'.page = run.page /\ run'.copy = run.copy /\ run'.seen = run.seen
        BY <1>4, Known DEF RunFields
    <2>2. RunFields' /\ RunTypes'
        BY <2>1, Known DEF RunFields, RunTypes, Done
    <2> QED BY <1>1, <1>2, <2>1, <2>2, PastKeeps DEF Done
  <1> QED BY <1>3, <1>4 DEF ReadSecond

\* A database that verifies has no damage but in indexes that SQLite cannot check.
LEMMA Verified ==
    ASSUME NEW d, Verify(d), NEW i \in world.damage[d]
    PROVE  i # "page" /\ world.schema[d].indexes[i] # "builtin"
  <1>1. Pages(d) = {} /\ i \in IntegrityLines(d)
      BY DEF Verify, QuickCheck, IntegrityLines
  <1>2. i \in CustomIndexes(d)
      BY <1>1 DEF Verify, Keep
  <1>3. i # "page"
      BY <1>1 DEF Pages
  <1> QED BY <1>2, <1>3 DEF CustomIndexes

\* The copies are verified.
LEMMA VerifyStagedKeeps == ASSUME CopyInv, VerifyStaged PROVE CopyInv'
  <1>1. run.at = "verify" /\ staged' = staged /\ used' = used /\ world' = world /\ db' = db /\ Dbs' = Dbs
      BY DEF VerifyStaged, Outside, Dbs
  <1> DEFINE v == \A d \in Dbs : Verify(d) /\ PlexLibrary(d)
  <1>2. run' = [run EXCEPT !.at = "publish", !.ok = v]
      BY DEF VerifyStaged
  <1> HIDE DEF v
  <1>3. /\ DOMAIN run' = DOMAIN run
        /\ run'.at = "publish" /\ run'.d = run.d /\ run'.before = run.before
        /\ run'.page = run.page /\ run'.copy = run.copy /\ run'.seen = run.seen /\ run'.ok = v
      BY <1>2, Known DEF RunFields
  <1>4. RunFields' /\ RunTypes'
      BY <1>3, Known DEF RunFields, RunTypes, Done
  <1>5. JobStep
      BY <1>1, <1>3, <1>4, Known DEF JobStep
  <1>6. Watching' /\ Reading' /\ Read'
      BY <1>3 DEF Watching, Reading, Read, Active
  <1>7. Staged'
      BY <1>1, <1>3 DEF CopyInv, Staged, Good, Active, Done
  <1>8. OkIsSound'
    <2>1. v => world.schema[Library].tables
        BY Names DEF v, PlexLibrary
    <2>2. ASSUME v, NEW d \in Dbs, NEW i \in world.damage[d]
          PROVE  i # "page" /\ world.schema[d].indexes[i] # "builtin"
        BY <2>2, Verified DEF v
    <2> QED BY <1>1, <1>3, <2>1, <2>2 DEF OkIsSound
  <1> QED BY <1>5, <1>6, <1>7, <1>8, JobKeeps

\* The job is over: it ended, failed or the process died.
LEMMA OverKeeps ==
    ASSUME CopyInv, run' = Idle, world' = world, db' = db, used' \in [Uses -> Nat], DOMAIN staged' = Files,
           used'.crashes = 0 => staged' = Nothing
    PROVE  CopyInv'
  <1>1. RunFields'
      BY DEF RunFields, Idle
  <1>2. run'.at = "idle" /\ run'.d = Library /\ run'.before = 0 /\ run'.page = 1 /\ run'.copy \in Two
        /\ DOMAIN run'.seen = {Library, Blobs}
      BY IdleShape
  <1>3. RunTypes'
      BY <1>2 DEF RunTypes
  <1> QED BY <1>1, <1>2, <1>3, Elsewhere DEF JobStep

\* The job ends, fails, is cancelled, dies, or tries again.
LEMMA EndKeeps == ASSUME CopyInv, Publish \/ Fail \/ Break \/ Crash \/ CopyFails PROVE CopyInv'
  <1>1. DOMAIN Nothing = Files
      BY DEF Nothing
  <1>2. CASE Publish
      BY <1>1, <1>2, Known, OverKeeps DEF Publish, Outside
  <1>3. CASE Fail
      BY <1>1, <1>3, Known, OverKeeps DEF Fail, Outside
  <1>4. CASE Crash
    <2>1. used' \in [Uses -> Nat]
        BY <1>4, Known, UseEffect DEF Crash, Uses
    <2>2. used'.crashes # 0
        BY <1>4, Known DEF Crash, Use, Uses
    <2> QED BY <1>4, <2>1, <2>2, Known, OverKeeps DEF Crash, Outside
  <1>5. CASE Break
    <2>1. used' \in [Uses -> Nat] /\ used'.crashes = used.crashes
        BY <1>5, Known, UseEffect DEF Break, Uses
    <2>2. RunFields' /\ RunTypes' /\ run'.at = "fail"
        BY <1>5, Known, GoEffect DEF Break
    <2> QED BY <1>5, <2>1, <2>2, Known, Elsewhere DEF JobStep, Break, Outside
  <1>6. CASE CopyFails
    <2>1. used' \in [Uses -> Nat] /\ used'.crashes = used.crashes
        BY <1>6, Known, UseEffect DEF CopyFails, Uses
    <2> QED BY <1>6, <2>1, AgainKeeps DEF CopyFails
  <1> QED BY <1>2, <1>3, <1>4, <1>5, <1>6

\* Plex dies, or replaces Preferences.xml; or nothing happens.
LEMMA ApartKeeps ==
    ASSUME CopyInv, UNCHANGED <<world, db, run, staged>>, used' \in [Uses -> Nat], used'.crashes = used.crashes
    PROVE  CopyInv'
  <1>1. Dbs' = Dbs /\ world' = world /\ db' = db /\ run' = run /\ staged' = staged
      BY DEF Dbs
  <1>2. RunFields' /\ RunTypes' /\ DOMAIN staged' = Files
      BY <1>1, Known DEF RunFields, RunTypes
  <1>3. JobStep
      BY <1>1, <1>2 DEF JobStep, CopyInv, StagedRemoved, Nothing, Files
  <1>4. Watching' /\ Reading' /\ Read'
      BY <1>1 DEF CopyInv, Watching, Reading, Read
  <1>5. Staged' /\ OkIsSound'
      BY <1>1 DEF CopyInv, Staged, Good, OkIsSound
  <1> QED BY <1>3, <1>4, <1>5, JobKeeps

-----------------------------------------------------------------------------
(* The theorem.                                                            *)

\* Every step keeps the invariant: Plex's and the job's.
LEMMA NextKeeps == CopyInv /\ [Next]_vars => CopyInv'
  <1> SUFFICES ASSUME CopyInv, [Next]_vars PROVE CopyInv'
      OBVIOUS
  <1>1. CASE \E d \in Dbs : Commit(d) \/ EndJournal(d) \/ \E p \in 1..2 : WritePage(d, p)
      BY <1>1, CommitEffect, EndJournalEffect, WritePageEffect, PlexKeeps
  <1>2. CASE Stop \/ Start
      BY <1>2, StopEffect, StartEffect, PlexKeeps
  <1>3. CASE Die \/ WritePrefs \/ UNCHANGED vars
    <2>1. used' \in [Uses -> Nat] /\ used'.crashes = used.crashes
        BY <1>3, Known, UseEffect DEF Die, WritePrefs, vars, Uses
    <2>2. UNCHANGED <<world, db, run, staged>>
        BY <1>3 DEF Die, WritePrefs, vars
    <2> QED BY <2>1, <2>2, ApartKeeps
  <1>4. CASE Begin \/ Stat \/ Choose \/ CopyLive \/ CopyPage \/ CheckCopy \/ FinishStaged
      BY <1>4, BeginKeeps, StatKeeps, ChooseKeeps, CopyLiveKeeps, CopyPageKeeps, CheckCopyKeeps, FinishStagedKeeps
  <1>5. CASE ReadFirst \/ ReadSecond \/ VerifyStaged
      BY <1>5, ReadFirstKeeps, ReadSecondKeeps, VerifyStagedKeeps
  <1>6. CASE Publish \/ Fail \/ Break \/ Crash \/ CopyFails
      BY <1>6, EndKeeps
  <1> QED BY <1>1, <1>2, <1>3, <1>4, <1>5, <1>6 DEF Next

\* However Plex commits, checkpoints, stops, dies and starts, and wherever the job fails or the process
\* dies: what is stored of a database is one state committed while it was copied, a version that counts
\* as ok is sound, and no staged file is left but over a crash.
THEOREM CopiesAlwaysSound == Spec => []CopiesSound
  <1>1. CopyInv => CopiesSound
      BY DEF CopyInv, CopiesSound, CopyCommitted, Staged, Good, Done
  <1>2. Spec => []CopyInv
      BY InitCopy, NextKeeps, PTL DEF Spec
  <1> QED BY <1>1, <1>2, PTL

=============================================================================
