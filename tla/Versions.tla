------------------------------ MODULE Versions ------------------------------
(***************************************************************************)
(* The versioned backups inside a filecopy destination: Plex databases     *)
(* (internal/plexdb), *arr backups (internal/arrbackup) and library        *)
(* manifests (internal/manifest). The three runners share one protocol:    *)
(* recover, choose, write a partial directory, rename it to the version's  *)
(* name, record it, and prune old versions; internal/snapshots holds the   *)
(* names, the trash and the retention. A crash or an error may come        *)
(* between any two steps.                                                  *)
(*                                                                         *)
(* One integration (for manifests: one destination), one folder. A         *)
(* version's manifest is [job, time, ok, src, sched]: its writer (id and   *)
(* queue time), its creation, what verification said, what was backed up,  *)
(* and whether that was an *arr's scheduled backup. A directory is         *)
(* [m, files]: its files are whole, bad (they do not match the manifest)   *)
(* or some (one is missing). A version's name is <<time, 0>>, or           *)
(* <<time, job>> with the -job suffix. Jobs of one integration exclude     *)
(* each other and start in the order they were queued (JobQueue).          *)
(***************************************************************************)
EXTENDS Integers, FiniteSets, SequencesExt

CONSTANTS
    Jobs,           \* job ids, 1..n
    MaxTime,        \* bound: the clock
    Day, Week,      \* ticks of a day and of an ISO week
    FailedKeep,     \* snapshots.FailedKeep, manifest.DamagedKeep in ticks
    Contents,       \* what the source may hold
    Worlds,         \* the settings explored (WorldType)
    None

Times == 0..MaxTime
Names == Times \X (Jobs \cup {0})

\* A setting: the runner, the retention settings the user may choose, and bounds: jobs,
\* ticks, changes of the source, ends of the process, failing operations, and versions
\* somebody else changes.
WorldType == [kind : {"plex", "arr", "manifest"}, keeps : SUBSET (Int \X Int), jobs : Nat, ticks : Nat,
              changes : Nat, crashes : Nat, errors : Nat, meddles : Nat]

ASSUME VersionAssumption ==
    /\ Jobs \subseteq Nat \ {0} /\ IsFiniteSet(Jobs) /\ MaxTime \in Nat
    /\ Day \in Nat \ {0} /\ Week \in Nat \ {0} /\ FailedKeep \in Nat
    /\ \A w \in Worlds : w \in WorldType /\ w.keeps # {} /\ w.ticks <= MaxTime
    /\ None \notin Names

\* A version's manifest, a directory of the folder, and a row of the table.
ManifestType == [job : Jobs, time : Times, ok : BOOLEAN, src : Contents, sched : BOOLEAN]
DirType == [m : ManifestType, files : {"whole", "bad", "some"}]
RowType == [id : Nat, name : Names, by : Jobs, ok : BOOLEAN, m : ManifestType]

ASSUME NoneAssumption == None \notin ManifestType /\ None \notin DirType

VARIABLES
    world, used,    \* the setting, chosen once, and what is used of its bounds
    now, src, keep, \* the clock, what the source holds, the retention settings
    part, at, trash,\* the folder: .partial-job<id>, versions, .prune-<version>
    rows,           \* the snapshots (manifests) table
    job,            \* each job: [st, resumed]
    run,            \* the running job
    saw, hurt, spoiled \* history: what the source held since a job began; the versions
                    \* somebody else changed; the jobs during which that happened

env == <<world, now, src, keep>>
folder == <<part, at, trash>>
hist == <<saw, hurt, spoiled>>
vars == <<used, env, folder, rows, job, run, hist>>

\* The running job: its next step, the entries or rows left to it, the version it
\* writes, the retention it read; tidy says that it left nothing to a later run.
Idle == [job |-> 0, at |-> "idle", todo |-> {}, list |-> {}, m |-> None, name |-> None,
         keep |-> None, tidy |-> TRUE]

Init ==
    /\ world \in Worlds /\ used = [changes |-> 0, crashes |-> 0, errors |-> 0, meddles |-> 0]
    /\ now = 0 /\ src \in Contents /\ keep \in world.keeps
    /\ part = [j \in Jobs |-> None]
    /\ at = [n \in Names |-> None]
    /\ trash = [n \in Names |-> None]
    /\ rows = {}
    /\ job = [j \in Jobs |-> [st |-> "new", resumed |-> FALSE]]
    /\ run = Idle
    /\ saw = [j \in Jobs |-> {}] /\ hurt = {} /\ spoiled = {}

-----------------------------------------------------------------------------
(* The table and the retention.                                            *)

Newer(r, s) == r.m.time > s.m.time \/ (r.m.time = s.m.time /\ r.id > s.id)
Newest(R) == CHOOSE r \in R : \A s \in R \ {r} : Newer(r, s)
Oldest(R) == CHOOSE r \in R : \A s \in R \ {r} : Newer(s, r)
NewestFirst(R) == SetToSortSeq(R, Newer)

Recorded(n) == \E r \in rows : r.name = n

\* The row an INSERT adds: SQLite's next id; by is the job that records it.
Row(n, m, ok) ==
    [id |-> 1 + Max({0} \cup {r.id : r \in rows}), name |-> n, by |-> run.job, ok |-> ok,
     m |-> m]

MaxOf(a, b) == IF a > b THEN a ELSE b

\* snapshots.Keep: the loop over the versions, newest first.
Keep(R, daily, weekly) ==
    LET step(k, r) ==
            LET w == r.m.time \div Week
                n == k.n + 1
                new == w \notin k.weeks /\ Cardinality(k.weeks) < MaxOf(weekly, 0)
            IN  [n |-> n, weeks |-> IF new THEN k.weeks \cup {w} ELSE k.weeks,
                 ids |-> IF n <= MaxOf(daily, 1) \/ new THEN k.ids \cup {r} ELSE k.ids]
    IN  FoldLeft(step, [n |-> 0, weeks |-> {}, ids |-> {}],
                 NewestFirst({r \in R : r.ok})).ids

MutKeepSet(R, days, weeks) ==
    LET step(k, r) ==
            LET d == r.m.time \div Day
                w == r.m.time \div Week
                newDay == d \notin k.days /\ Cardinality(k.days) < MaxOf(days, 1)
                newWeek == ~newDay /\ w \notin k.weeks /\ Cardinality(k.weeks) < MaxOf(weeks, 0)
            IN  [days |-> IF newDay THEN k.days \cup {d} ELSE k.days,
                 weeks |-> IF newWeek THEN k.weeks \cup {w} ELSE k.weeks,
                 ids |-> IF newDay \/ newWeek THEN k.ids \cup {r} ELSE k.ids]
    IN  FoldLeft(step, [days |-> {}, weeks |-> {}, ids |-> {}],
                 NewestFirst({r \in R : r.ok})).ids

\* manifest.KeepSet: days count calendar days that have an ok version.
KeepSet(R, days, weeks) ==
    LET step(k, r) ==
            LET d == r.m.time \div Day
                w == r.m.time \div Week
                newDay == d \notin k.days /\ Cardinality(k.days) < MaxOf(days, 1)
                newWeek == w \notin k.weeks /\ Cardinality(k.weeks) < MaxOf(weeks, 0)
            IN  [days |-> IF newDay THEN k.days \cup {d} ELSE k.days,
                 weeks |-> IF newWeek THEN k.weeks \cup {w} ELSE k.weeks,
                 ids |-> IF newDay \/ newWeek THEN k.ids \cup {r} ELSE k.ids]
    IN  FoldLeft(step, [days |-> {}, weeks |-> {}, ids |-> {}],
                 NewestFirst({r \in R : r.ok})).ids

Kept(R) == IF world.kind = "manifest" THEN KeepSet(R, run.keep[1], run.keep[2])
                                      ELSE Keep(R, run.keep[1], run.keep[2])

\* Prune, PruneSet.
Prune(R) == {r \in R : IF r.ok THEN r \notin Kept(R) ELSE now - r.m.time >= FailedKeep}

-----------------------------------------------------------------------------
(* What a runner finds at the destination.                                 *)

\* plexdb, arrbackup checkComplete: sizes count for an ok version only (a change of
\* bytes may or may not change a size; bad files have another size here).
CompleteCheck(r, d) == d.files = "whole" \/ (d.files = "bad" /\ ~r.ok)

\* manifest.CheckVersion: the hashes, whatever the row says.
CheckVersion(r, d) == d.files = "whole" /\ d.m = r.m

Complete(r, d) ==
    d # None /\ IF world.kind = "manifest" THEN CheckVersion(r, d) ELSE CompleteCheck(r, d)

\* Layout.VersionLost, manifest versionLost.
VersionLost(r) == at[r.name] = None /\ ~Complete(r, trash[r.name])

\* plexdb.ownVersion: a row whose manifest names the job, unless its files did not
\* match when it was adopted.
PlexOwn(j) == {r \in rows : r.m.job = j /\ at[r.name] # None /\ (r.ok \/ ~r.m.ok)}

\* manifest.ownVersion: ok rows this job recorded.
ManifestOwn(j) == {r \in rows : r.by = j /\ r.ok /\ r.m.job = j
                                /\ at[r.name] # None /\ CheckVersion(r, at[r.name])}

Own(j) == IF ~job[j].resumed THEN {}
          ELSE IF world.kind = "manifest" THEN ManifestOwn(j) ELSE PlexOwn(j)

\* The rows of this job that manifest.ownVersion finds damaged before it returns.
Damaged(j) ==
    IF world.kind # "manifest" \/ ~job[j].resumed THEN {}
    ELSE {r \in rows : /\ r.by = j /\ r.ok
                       /\ at[r.name] = None \/ ~CheckVersion(r, at[r.name])
                       /\ \A s \in ManifestOwn(j) : ~Newer(Newest(ManifestOwn(j)), r)}

-----------------------------------------------------------------------------
(* The run of a job.                                                       *)

Failing == used.errors < world.errors /\ used' = [used EXCEPT !.errors = @ + 1]
NoFault == UNCHANGED used
\* The process ends and starts again: that takes longer than the second that a version's
\* name tells apart.
Restart ==
    /\ used.crashes < world.crashes /\ used' = [used EXCEPT !.crashes = @ + 1]
    /\ now < world.ticks /\ now' = now + 1
Go(p) == run' = [run EXCEPT !.at = p]
\* A problem that is a warning: the run goes on, not all of it done.
Warned(r) == [r EXCEPT !.tidy = FALSE]
Files(d, f) == [d EXCEPT !.files = f]

Entries == {<<"part", <<0, j>>>> : j \in {i \in Jobs : part[i] # None}}
           \cup {<<"trash", n>> : n \in {i \in Names : trash[i] # None}}
           \cup {<<"at", n>> : n \in {i \in Names : at[i] # None}}

\* Run, up to the listing of the folder (recover). The open destination carries the
\* retention settings.
Begin(j) ==
    /\ run = Idle /\ job[j].st \in {"new", "queued"} /\ j <= world.jobs
    /\ \A i \in Jobs : i < j => job[i].st \in {"ok", "failed"}
    /\ job' = [job EXCEPT ![j].st = "running"]
    /\ run' = [Idle EXCEPT !.job = j, !.at = "recover", !.todo = Entries, !.keep = keep]
    /\ saw' = [saw EXCEPT ![j] = @ \cup {src}]
    /\ UNCHANGED <<used, env, folder, rows, hurt, spoiled>>

Done(e) == [run EXCEPT !.todo = @ \ {e}]

\* recover: an unfinished version goes; when it cannot be removed the job fails.
RecoverPartial(j) ==
    LET e == <<"part", <<0, j>>>>
    IN  /\ run.at = "recover" /\ e \in run.todo
        /\ \/ part' = [part EXCEPT ![j] = None] /\ run' = Done(e) /\ NoFault
           \/ Failing /\ Go("fail") /\ part' = part
        /\ UNCHANGED <<env, at, trash, rows, job, hist>>

\* recover: what a prune left goes unless its row is still there.
RecoverTrash(n) ==
    LET e == <<"trash", n>>
    IN  /\ run.at = "recover" /\ e \in run.todo
        /\ \/ Recorded(n) /\ trash' = trash /\ run' = Done(e) /\ NoFault
           \/ ~Recorded(n) /\ trash' = [trash EXCEPT ![n] = None] /\ run' = Done(e) /\ NoFault
           \/ /\ ~Recorded(n) /\ Failing
              /\ trash' = [trash EXCEPT ![n] = Files(@, "some")] /\ run' = Warned(Done(e))
        /\ UNCHANGED <<env, part, at, rows, job, hist>>

\* adopt: ok only when the manifest says so and the files match it.
Adopt(n) == rows' = rows \cup {Row(n, at[n].m, at[n].m.ok /\ at[n].files = "whole")}

\* recover: a version without a row is recorded, or left alone when its manifest is
\* one of the files that are missing or do not read.
RecoverVersion(n) ==
    LET e == <<"at", n>>
    IN  /\ run.at = "recover" /\ e \in run.todo
        /\ \/ Recorded(n) /\ rows' = rows /\ run' = Done(e) /\ NoFault
           \/ ~Recorded(n) /\ at[n] # None /\ Adopt(n) /\ run' = Done(e) /\ NoFault
           \/ /\ ~Recorded(n) /\ ~(at[n] # None /\ at[n].files = "whole")
              /\ rows' = rows /\ run' = Warned(Done(e)) /\ NoFault
           \/ ~Recorded(n) /\ Failing /\ rows' = rows /\ run' = Warned(Done(e))
        /\ UNCHANGED <<env, folder, job, hist>>

Unmark(R) == (rows \ R) \cup {[r EXCEPT !.ok = FALSE] : r \in R}

\* recover's answer: a resumed job finishes with its own version (finishRecovered,
\* finishOwn) and fails when that failed verification.
RecoverEnd ==
    /\ run.at = "recover" /\ run.todo = {}
    /\ rows' = Unmark(Damaged(run.job))
    /\ Go(IF Own(run.job) = {} THEN "choose"
          ELSE IF Newest(Own(run.job)).ok THEN "prune" ELSE "fail")
    /\ UNCHANGED <<used, env, folder, job, hist>>

\* The manifest of the version to write; a library manifest is built, not verified.
NewManifest(ok, sched) ==
    [job |-> run.job, time |-> now, ok |-> ok, src |-> src, sched |-> sched]
Stage(m) == [run EXCEPT !.at = "copy", !.m = m, !.todo = {}]

\* plexdb.backup: the databases are staged and verified.
ChoosePlex ==
    /\ run.at = "choose" /\ world.kind = "plex"
    /\ \E ok \in BOOLEAN : run' = Stage(NewManifest(ok, FALSE))
    /\ UNCHANGED <<used, env, folder, rows, job, hist>>

\* manifest.unchanged: the newest ok version with this content is read back; a
\* damaged one is marked.
ChooseManifest ==
    /\ run.at = "choose" /\ world.kind = "manifest"
    /\ LET ok == {r \in rows : r.ok}
           v == Newest(ok)
           same == ok # {} /\ v.m.src = src
           intact == same /\ at[v.name] # None /\ CheckVersion(v, at[v.name])
       IN  \/ intact /\ Go("prune") /\ rows' = rows
           \/ ~intact /\ rows' = Unmark(IF same THEN {v} ELSE {})
              /\ run' = Stage(NewManifest(TRUE, FALSE))
    /\ UNCHANGED <<used, env, folder, job, hist>>

\* arrbackup.choose: without a fresh scheduled backup the *arr makes one (a resumed job
\* takes one made since it was queued); with one, alreadyCopied looks through its copies.
ChooseArr ==
    /\ run.at = "choose" /\ world.kind = "arr"
    /\ \/ \E ok \in BOOLEAN, c \in IF job[run.job].resumed THEN saw[run.job] ELSE {src} :
              run' = Stage([NewManifest(ok, FALSE) EXCEPT !.src = c])
       \/ run' = [run EXCEPT !.at = "copies", !.m = NewManifest(TRUE, TRUE),
                             !.todo = {r \in rows : r.m.src = src /\ r.m.sched}]
    /\ UNCHANGED <<used, env, folder, rows, job, hist>>

MutIntactCopy(r) == at[r.name] # None

\* intactCopy: the version is at its name and its zip has the recorded hash (equal zips
\* are of one backup and verify alike).
IntactCopy(r) ==
    /\ at[r.name] # None /\ at[r.name].files = "whole"
    /\ [at[r.name].m EXCEPT !.job = r.m.job, !.time = r.m.time] = r.m

\* alreadyCopied, one copy, newest first.
Look ==
    /\ run.at = "copies" /\ run.todo # {}
    /\ LET r == Newest(run.todo)
           next == [run EXCEPT !.todo = @ \ {r}]
       IN  \/ ~r.ok /\ r.m.ok /\ run' = next /\ rows' = rows
           \* The backup itself failed: the *arr is asked for another one.
           \/ ~r.ok /\ ~r.m.ok /\ rows' = rows
              /\ \E ok \in BOOLEAN : run' = Stage([run.m EXCEPT !.ok = ok, !.sched = FALSE])
           \/ r.ok /\ VersionLost(r) /\ run' = next /\ rows' = rows
           \/ r.ok /\ IntactCopy(r) /\ run' = Warned([run EXCEPT !.at = "end"]) /\ rows' = rows
           \/ r.ok /\ ~VersionLost(r) /\ at[r.name] = None /\ run' = next /\ rows' = rows
           \* damagedCopy: markFailed deletes the row and inserts it again.
           \/ r.ok /\ at[r.name] # None /\ ~IntactCopy(r)
              /\ rows' = rows \ {r} /\ run' = [next EXCEPT !.at = "mark", !.list = {r}]
    /\ UNCHANGED <<used, env, folder, job, hist>>

\* No intact copy: the scheduled backup is fetched and verified.
LookEnd ==
    /\ run.at = "copies" /\ run.todo = {}
    /\ \E ok \in BOOLEAN : run' = Stage([run.m EXCEPT !.ok = ok])
    /\ UNCHANGED <<used, env, folder, rows, job, hist>>

\* markFailed, the insert.
MarkFailed ==
    /\ run.at = "mark"
    /\ LET r == CHOOSE s \in run.list : TRUE
           next == [run EXCEPT !.at = "copies", !.list = {}]
       IN  \/ rows' = rows \cup {[Row(r.name, r.m, FALSE) EXCEPT !.by = r.by]} /\ run' = next /\ NoFault
           \/ Failing /\ rows' = rows /\ run' = Warned(next)
    /\ UNCHANGED <<env, folder, job, hist>>

\* copyFiles, copyZip, writeFileStream: the files go into the partial directory.
Copy ==
    /\ run.at = "copy"
    /\ part' = [part EXCEPT ![run.job] = [m |-> run.m, files |-> "some"]]
    /\ Go("manifest")
    /\ UNCHANGED <<used, env, at, trash, rows, job, hist>>

\* The manifest (SHA256SUMS) completes it.
WriteManifest ==
    /\ run.at = "manifest"
    /\ part' = [part EXCEPT ![run.job] = Files(@, "whole")]
    /\ Go("rename")
    /\ UNCHANGED <<used, env, at, trash, rows, job, hist>>

\* RenameVersion: the plain name, or the one with the job's suffix.
FreeName == LET n == <<run.m.time, 0>> IN IF at[n] = None THEN n ELSE <<run.m.time, run.job>>

RenameVersion ==
    /\ run.at = "rename" /\ at[FreeName] = None
    /\ at' = [at EXCEPT ![FreeName] = part[run.job]]
    /\ part' = [part EXCEPT ![run.job] = None]
    \* The directories may fail to sync after the rename.
    /\ \/ run' = [run EXCEPT !.at = "record", !.name = FreeName] /\ NoFault
       \/ Failing /\ Go("fail")
    /\ UNCHANGED <<env, trash, rows, job, hist>>

\* The row. A version that failed verification is kept, and fails the job.
Record ==
    /\ run.at = "record" /\ ~Recorded(run.name)
    /\ rows' = rows \cup {Row(run.name, run.m, run.m.ok)}
    /\ Go(IF run.m.ok THEN "prune" ELSE "fail")
    /\ UNCHANGED <<used, env, folder, job, hist>>

\* The path is unique in the table; two directories cannot have one name.
RecordRefused ==
    /\ \/ run.at = "record" /\ Recorded(run.name)
       \/ run.at = "rename" /\ at[FreeName] # None
    /\ Go("fail")
    /\ UNCHANGED <<used, env, folder, rows, job, hist>>

\* An error or a cancelled context before the version is recorded.
Fail ==
    /\ run.at \in {"recover", "choose", "copies", "copy", "manifest", "rename", "record"}
    /\ Failing /\ Go("fail")
    /\ UNCHANGED <<env, folder, rows, job, hist>>


\* The failed run: the deferred cleanup removes what the job was writing. A job that a
\* shutdown cancelled is queued again.
FailEnd ==
    /\ run.at = "fail"
    /\ \/ /\ part' = [part EXCEPT ![run.job] = None] \/ part' = part
          /\ job' = [job EXCEPT ![run.job].st = "failed"]
          /\ IF part' = part /\ part[run.job] # None THEN Failing ELSE NoFault
          /\ now' = now
       \/ /\ part' = [part EXCEPT ![run.job] = None]
          /\ job' = [job EXCEPT ![run.job] = [st |-> "queued", resumed |-> TRUE]]
          /\ Restart
    /\ run' = Idle
    /\ UNCHANGED <<world, src, keep, at, trash, rows, hist>>

-----------------------------------------------------------------------------
(* prune: problems are warnings.                                           *)

\* The destination is checked again and the rows are listed; a manifest's prune reads
\* the retention settings now.
PruneList ==
    /\ run.at = "prune"
    /\ \/ /\ run' = [run EXCEPT !.at = "lost", !.todo = rows, !.list = {},
                                !.keep = IF world.kind = "manifest" THEN keep ELSE @]
          /\ NoFault
       \/ run' = Warned([run EXCEPT !.at = "end"]) /\ Failing
    /\ UNCHANGED <<env, folder, rows, job, hist>>

\* dropLost: the row of a version that is gone; then the rest of its trash.
DropLost ==
    /\ run.at = "lost" /\ run.todo # {}
    /\ LET r == Newest(run.todo)
           next == [run EXCEPT !.todo = @ \ {r}]
           present == [next EXCEPT !.list = @ \cup {r}]
       IN  \/ ~VersionLost(r) /\ rows' = rows /\ run' = present /\ NoFault
           \/ /\ VersionLost(r) /\ rows' = rows \ {r} /\ NoFault
              /\ run' = [next EXCEPT !.at = "sweep", !.name = r.name]
           \/ VersionLost(r) /\ rows' = rows /\ run' = Warned(present) /\ Failing
    /\ UNCHANGED <<env, folder, job, hist>>

\* RemoveTrash, on the way or done: RemoveAll deletes file by file.
RemoveTrash(n) == trash' = [trash EXCEPT ![n] = None]
RemoveSome(n) == trash[n] # None /\ trash' = [trash EXCEPT ![n] = Files(@, "some")]

DropTrash ==
    /\ run.at = "sweep"
    /\ \/ RemoveTrash(run.name) /\ Go("lost") /\ NoFault
       \/ RemoveSome(run.name) /\ run' = Warned([run EXCEPT !.at = "lost"]) /\ Failing
    /\ UNCHANGED <<env, part, at, rows, job, hist>>

\* What goes is decided on the rows that are left.
Decide ==
    /\ run.at = "lost" /\ run.todo = {}
    /\ run' = [run EXCEPT !.at = "restore", !.todo = run.list \ Prune(run.list), !.list = Prune(run.list)]
    /\ UNCHANGED <<used, env, folder, rows, job, hist>>

Restorable(r) == at[r.name] = None /\ Complete(r, trash[r.name])

\* RestoreVersion: a kept version comes back from the trash of an interrupted prune.
RestoreVersion ==
    /\ run.at = "restore" /\ run.todo # {}
    /\ LET r == Newest(run.todo)
           next == [run EXCEPT !.todo = @ \ {r}]
       IN  \/ /\ Restorable(r) /\ run' = next /\ NoFault
              /\ at' = [at EXCEPT ![r.name] = trash[r.name]]
              /\ RemoveTrash(r.name)
           \/ Restorable(r) /\ run' = Warned(next) /\ UNCHANGED <<at, trash>> /\ Failing
           \/ /\ ~Restorable(r) /\ UNCHANGED <<at, trash>> /\ NoFault
              /\ run' = IF at[r.name] = None THEN Warned(next) ELSE next
    /\ UNCHANGED <<env, part, rows, job, hist>>

RestoreEnd ==
    /\ run.at = "restore" /\ run.todo = {}
    /\ Go("delete")
    /\ UNCHANGED <<used, env, folder, rows, job, hist>>

\* TrashVersion: a stale trash under the name goes first; then the version leaves its
\* name (or has left it already). The rename may be done and its sync fail.
TrashVersion ==
    /\ run.at = "delete" /\ run.list # {}
    /\ LET r == Oldest(run.list)
           n == r.name
           skip == Warned([run EXCEPT !.list = @ \ {r}])
           moved == /\ at' = [at EXCEPT ![n] = None]
                    /\ trash' = [trash EXCEPT ![n] = at[n]]
       IN  \/ at[n] # None /\ trash[n] # None /\ RemoveTrash(n) /\ at' = at /\ run' = run /\ NoFault
           \/ at[n] # None /\ trash[n] # None /\ RemoveSome(n) /\ at' = at /\ run' = skip /\ Failing
           \/ at[n] # None /\ trash[n] = None /\ moved /\ Go("unrecord") /\ NoFault
           \/ at[n] # None /\ trash[n] = None /\ moved /\ run' = skip /\ Failing
           \/ at[n] = None /\ UNCHANGED <<at, trash>> /\ Go("unrecord") /\ NoFault
    /\ UNCHANGED <<env, part, rows, job, hist>>

MutUnrecord ==
    /\ run.at = "unrecord"
    /\ LET r == Oldest(run.list)
       IN  \/ rows' = rows \ {r} /\ Go("empty") /\ NoFault
           \/ rows' = rows /\ Failing /\ run' = Warned([run EXCEPT !.at = "empty"])
    /\ UNCHANGED <<env, folder, job, hist>>

\* Remove: the row goes, whether or not the job is being cancelled.
Unrecord ==
    /\ run.at = "unrecord"
    /\ LET r == Oldest(run.list)
       IN  \/ rows' = rows \ {r} /\ Go("empty") /\ NoFault
           \/ /\ rows' = rows /\ Failing
              /\ run' = Warned([run EXCEPT !.at = "delete", !.list = @ \ {r}])
    /\ UNCHANGED <<env, folder, job, hist>>

\* The files go; what is left of them waits for the next run's recovery.
EmptyTrash ==
    /\ run.at = "empty"
    /\ LET r == Oldest(run.list)
           next == [run EXCEPT !.at = "delete", !.list = @ \ {r}]
       IN  \/ RemoveTrash(r.name) /\ run' = next /\ NoFault
           \/ RemoveSome(r.name) /\ run' = Warned(next) /\ Failing
    /\ UNCHANGED <<env, part, at, rows, job, hist>>

\* Every deletion is done, or the job is being cancelled.
PruneEnd ==
    /\ run.at = "delete"
    /\ \/ run.list = {} /\ Go("end") /\ NoFault
       \/ run.list # {} /\ run' = Warned([run EXCEPT !.at = "end"]) /\ Failing
    /\ UNCHANGED <<env, folder, rows, job, hist>>

Succeed ==
    /\ run.at = "end"
    /\ job' = [job EXCEPT ![run.job].st = "ok"]
    /\ run' = Idle
    /\ UNCHANGED <<used, env, folder, rows, hist>>

-----------------------------------------------------------------------------
(* Around the jobs.                                                        *)

\* The trash a step is about to delete.
Removing(n) ==
    \/ run.at = "recover" /\ <<"trash", n>> \in run.todo /\ ~Recorded(n)
    \/ run.at = "sweep" /\ n = run.name
    \/ run.at = "empty" /\ n = Oldest(run.list).name
    \/ run.at = "delete" /\ run.list # {} /\ n = Oldest(run.list).name /\ at[n] # None

\* The process ends, perhaps while files are being removed. At the next start the job
\* is queued again, or failed (JobQueue).
Crash ==
    /\ run # Idle /\ Restart
    /\ trash' = trash \/ \E n \in Names : Removing(n) /\ RemoveSome(n)
    /\ \E st \in {"queued", "failed"} : job' = [job EXCEPT ![run.job] = [st |-> st, resumed |-> TRUE]]
    /\ run' = Idle
    /\ UNCHANGED <<world, src, keep, part, at, rows, hist>>

\* The clock, the source and the settings change at any time; a change is taken here just
\* before a step that reads it, or between two runs.
Tick ==
    /\ run.at \in {"idle", "choose", "lost"}
    /\ now < world.ticks /\ now' = now + 1
    /\ UNCHANGED <<world, used, src, keep, folder, rows, job, run, hist>>

SourceChanges ==
    /\ run.at \in {"idle", "choose"}
    /\ used.changes < world.changes /\ used' = [used EXCEPT !.changes = @ + 1]
    /\ \E c \in Contents \ {src} :
         /\ src' = c
         /\ saw' = [j \in Jobs |-> IF saw[j] # {} THEN saw[j] \cup {c} ELSE {}]
    /\ UNCHANGED <<world, now, keep, folder, rows, job, run, hurt, spoiled>>

SetKeep ==
    /\ run.at \in {"idle", "prune"}
    /\ \E k \in world.keeps \ {keep} : keep' = k
    /\ UNCHANGED <<world, used, now, src, folder, rows, job, run, hist>>

\* Somebody else damages or deletes a version, or damages one in the trash.
Meddle(n) ==
    /\ used.meddles < world.meddles /\ used' = [used EXCEPT !.meddles = @ + 1]
    /\ hurt' = hurt \cup {n}
    /\ spoiled' = spoiled \cup {j \in Jobs : job[j].st \in {"running", "queued"}}
    /\ \/ /\ at[n] # None /\ trash' = trash
          /\ \E d \in {Files(at[n], "bad"), Files(at[n], "some"), None} : at' = [at EXCEPT ![n] = d]
       \/ RemoveSome(n) /\ at' = at
    /\ UNCHANGED <<env, part, rows, job, run, saw>>

Next ==
    \/ \E j \in Jobs : Begin(j) \/ RecoverPartial(j)
    \/ \E n \in Names : RecoverTrash(n) \/ RecoverVersion(n) \/ Meddle(n)
    \/ RecoverEnd \/ ChoosePlex \/ ChooseManifest \/ ChooseArr \/ Look \/ LookEnd \/ MarkFailed
    \/ Copy \/ WriteManifest \/ RenameVersion \/ Record \/ RecordRefused \/ Fail \/ FailEnd
    \/ PruneList \/ DropLost \/ DropTrash \/ Decide \/ RestoreVersion \/ RestoreEnd
    \/ TrashVersion \/ Unrecord \/ EmptyTrash \/ PruneEnd \/ Succeed
    \/ Crash \/ Tick \/ SourceChanges \/ SetKeep

Spec == Init /\ [][Next]_vars

-----------------------------------------------------------------------------
(* Properties.                                                             *)

\* Another job of the same second took the row's name while its version was in the
\* trash, and that job's version was moved to the trash over it, whole.
TakenOver(r) ==
    LET d == trash[r.name] IN d # None /\ d.files = "whole" /\ d.m.job # r.m.job

\* TrashVersion's promise: whatever the moment of a crash or an error, no version is
\* half deleted under its name, and no row is without its directory, at its name or
\* complete in the trash, unless somebody else touched it (or its name was taken over).
NothingHalfDeleted ==
    /\ \A n \in Names \ hurt : at[n] # None => at[n].files = "whole"
    /\ \A r \in rows : \/ r.name \in hurt
                       \/ at[r.name] # None
                       \/ Complete(r, trash[r.name])
                       \/ TakenOver(r)

Ok == {r \in rows : r.ok}
Intact(r) == \/ at[r.name] # None /\ at[r.name] = [m |-> r.m, files |-> "whole"]
             \/ at[r.name] = None /\ trash[r.name] = [m |-> r.m, files |-> "whole"]

\* A job that is about to succeed leaves an ok version that is whole at its name and
\* holds what the source held since the job began, unless somebody else touched a
\* version meanwhile (a version damaged before is found out).
SuccessIsReal ==
    run.at = "end" /\ run.job \notin spoiled =>
        \E r \in Ok : LET d == at[r.name]
                      IN  d # None /\ d.files = "whole" /\ d.m.ok /\ d.m.src \in saw[run.job]

\* Without failing operations and other people's changes, a job that is interrupted and
\* resumed writes no second version: ownVersion finds the one it wrote.
OneVersionPerJob ==
    used.errors = 0 /\ hurt = {} =>
        \A n, o \in Names : at[n] # None /\ at[o] # None /\ at[n].m.job = at[o].m.job => n = o

\* A run that succeeds without a warning leaves nothing behind: no unfinished version,
\* no trash but a stale one under a version's name, every version with its row and
\* every row with its version, and no ok version the retention it read gives up.
TidyAfterSuccess ==
    run.at = "end" /\ run.tidy /\ hurt = {} =>
        /\ \A j \in Jobs : part[j] = None
        /\ \A n \in Names : /\ trash[n] # None => at[n] # None
                            /\ at[n] # None <=> Recorded(n)
        /\ Ok \subseteq Kept(rows)

\* Keep and KeepSet by their comments: with d = max(daily, 1) and w = max(weekly, 0), the
\* newest d ok versions (of each of the newest d days), and the newest ok version of each
\* of the newest w weeks that have one.
Rank(R, r, span) == Cardinality({s.m.time \div span : s \in {q \in R : q.m.time \div span > r.m.time \div span}})
NewestOf(R, r, span) == \A s \in R \ {r} : s.m.time \div span = r.m.time \div span => Newer(r, s)
RetentionMeans ==
    run.at = "lost" =>
        \A d, w \in -1..2 :
            LET weekly(r) == NewestOf(Ok, r, Week) /\ Rank(Ok, r, Week) < MaxOf(w, 0)
            IN  /\ Keep(rows, d, w) =
                     {r \in Ok : Cardinality({s \in Ok : Newer(s, r)}) < MaxOf(d, 1) \/ weekly(r)}
                /\ KeepSet(rows, d, w) =
                     {r \in Ok : (NewestOf(Ok, r, Day) /\ Rank(Ok, r, Day) < MaxOf(d, 1)) \/ weekly(r)}

\* What a successful job means: its version is there and real, it is the only one the job
\* wrote, and nothing is left behind.
SuccessMeans == SuccessIsReal /\ OneVersionPerJob /\ TidyAfterSuccess
=============================================================================
