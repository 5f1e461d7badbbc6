--------------------------- MODULE EngineVersions ---------------------------
(***************************************************************************)
(* Config versions at an engine destination (internal/snapshots/engine.go  *)
(* and the engine paths of plexdb, arrbackup and manifest): a version is   *)
(* one restic snapshot, or an rclone directory whose manifest.json comes   *)
(* last. A run lists what is there, settles what interrupted runs left,    *)
(* stores and records a new version and prunes old ones. A crash, an error *)
(* or somebody else's change may come between any two steps, and a restic  *)
(* version that was pruned stays until a retention job forgets it.         *)
(*                                                                         *)
(* A version is [path, ref, job, src, sched, ok, files, done]: its writer, *)
(* what was backed up, what verification said (its manifest), its files    *)
(* (some or whole), and whether manifest.json is there. A path is          *)
(* <<time, 0>>, or <<time, job>> when the name was taken.                  *)
(***************************************************************************)
EXTENDS Integers, FiniteSets

CONSTANTS
    LeftoverAge,    \* snapshots.LeftoverAge, staleStaging in ticks
    Attempts,       \* attempts the job manager gives a job
    Worlds, None

VARIABLES
    world, used,    \* the setting with its bounds, and what is used of them
    now, src, keep, \* the clock, what the source holds, how many versions to keep
    store,          \* the versions at the destination
    rows,           \* the snapshots (manifests) table
    asks,           \* engine_forget: restic snapshots the retention job is to forget
    staged,         \* staging directories: <<"job", id>>, and restic's <<"put", id>>
    job,            \* the job: [id, st, attempt]
    run,            \* its run: next step, listing, rows known at the listing, work left
    hist            \* history: what the source held since the job began, versions that
                    \* others changed or a purge took, versions recorded per job

vars == <<world, used, now, src, keep, store, rows, asks, staged, job, run, hist>>

Idle == [at |-> "idle", list |-> {}, known |-> {}, todo |-> {}, v |-> None, keep |-> 0]

Init ==
    /\ world \in Worlds
    /\ used = [changes |-> 0, crashes |-> 0, errors |-> 0, meddles |-> 0]
    /\ now = 0 /\ src = 1 /\ keep \in world.keeps
    /\ store = {} /\ rows = {} /\ asks = {} /\ staged = {}
    /\ job = [id |-> 0, st |-> "done", attempt |-> 1]
    /\ run = Idle
    /\ hist = [saw |-> {}, hurt |-> {}, purged |-> {}, made |-> {}]

Restic == world.engine = "restic"
Use(what) == used[what] < world[what] /\ used' = [used EXCEPT ![what] = @ + 1]
Go(p) == run' = [run EXCEPT !.at = p]
Same(outside) == UNCHANGED <<world, now, src, keep, job>> /\ UNCHANGED outside

-----------------------------------------------------------------------------
(* Rows and listings.                                                      *)

Newer(r, s) == r.path[1] > s.path[1] \/ (r.path[1] = s.path[1] /\ r.job > s.job)
Newest(R) == CHOOSE r \in R : \A s \in R \ {r} : Newer(r, s)
RowRef(v) == IF Restic THEN v.ref ELSE <<0, 0>>
Matches(v, r) == IF Restic THEN v.ref = r.ref ELSE v.path = r.path
Find(list, r) == {v \in list : Matches(v, r)}
Lost(r) == \A v \in Find(run.list, r) : ~v.done
Recorded(v) == \E r \in run.known : Matches(v, r) \/ r.path = v.path
Row(v, ok) == [path |-> v.path, ref |-> RowRef(v), job |-> v.job, src |-> v.src, sched |-> v.sched,
               mok |-> v.ok, ok |-> ok, by |-> job.id]
\* CheckSizes on a listed version.
Sized(r) == \E v \in Find(run.list, r) : v.done /\ v.files = "whole"
Insert(v, ok) ==
    /\ rows' = rows \cup {Row(v, ok)}
    /\ hist' = [hist EXCEPT !.made = @ \cup {<<v.job, v.ref>>}]
Unmark(R) == (rows \ R) \cup {[r EXCEPT !.ok = FALSE] : r \in R}

-----------------------------------------------------------------------------
(* The start of a run and the recovery.                                    *)

\* A queued job starts, or the next one (jobs of an integration exclude each other).
Begin ==
    /\ run = Idle
    /\ \/ job.st = "queued" /\ job' = [job EXCEPT !.st = "running"] /\ hist' = hist
       \/ /\ job.st \in {"done", "failed"} /\ job.id < world.jobs
          /\ job' = [id |-> job.id + 1, st |-> "running", attempt |-> 1]
          /\ hist' = [hist EXCEPT !.saw = {src}]
    /\ run' = [Idle EXCEPT !.at = "open", !.keep = keep]
    /\ UNCHANGED <<world, used, now, src, keep, store, rows, asks, staged>>

\* plexdb and arrbackup remove the stale staging of other jobs (time tells which).
CleanStaleStaging(S) == IF world.kind # "manifest" THEN {s \in S : s[2] # job.id => now - s[3] < LeftoverAge} ELSE S
\* Opening the store sweeps what an interrupted Put left; plexdb and arrbackup remove the
\* staging of an earlier attempt.
Open ==
    /\ run.at = "open" /\ Go("list")
    /\ staged' = CleanStaleStaging({s \in staged : s[1] = "job" /\ (world.kind # "manifest" => s[2] # job.id)})
    /\ Same(<<used, store, rows, asks, hist>>)

List ==
    /\ run.at = "list"
    /\ run' = [run EXCEPT !.at = "settle", !.list = store, !.known = rows, !.todo = store]
    /\ Same(<<used, store, rows, asks, staged, hist>>)

\* On restic only a snapshot of the running job is settled.
Mine(v) == Restic => v.job = job.id
First(V) == CHOOSE v \in V : \A w \in V \ {v} : Newer(w, v) \/ (w.path = v.path /\ w.ref # v.ref)
Settled(v) == [run EXCEPT !.todo = @ \ {v}]

\* Recover, one version: recorded ones, others' snapshots and young uploads are left alone.
Young(v) == now - v.path[1] < LeftoverAge
LeaveAlone ==
    /\ run.at = "settle" /\ run.todo # {}
    /\ LET v == First(run.todo) IN
       /\ Recorded(v) \/ ~Mine(v) \/ (~v.done /\ Young(v))
       /\ run' = Settled(v)
    /\ Same(<<used, store, rows, asks, staged, hist>>)

\* An old unfinished upload is purged; when that fails a part may be left.
PurgeLeftover ==
    /\ run.at = "settle" /\ run.todo # {}
    /\ LET v == First(run.todo) IN
       /\ ~Recorded(v) /\ Mine(v) /\ ~v.done /\ ~Young(v)
       /\ \/ /\ store' = store \ {v} /\ UNCHANGED used
             /\ run' = [Settled(v) EXCEPT !.list = @ \ {v}]
          \/ Use("errors") /\ store' \in {store, (store \ {v}) \cup {[v EXCEPT !.files = "some"]}} /\ run' = Settled(v)
    /\ Same(<<rows, asks, staged, hist>>)

\* adoptEngine: recorded as failed when the sizes differ. A version that does not read is left
\* alone.
MutIntegrity(v) == v.ok
Integrity(v) == v.ok /\ v.files = "whole"
AdoptBackup(v) ==
    /\ world.kind # "manifest"
    /\ \/ Insert(v, Integrity(v)) /\ UNCHANGED used
       \/ Use("errors") /\ UNCHANGED <<rows, hist>>
\* A library manifest is read and must be there whole.
AdoptManifest(v) ==
    /\ world.kind = "manifest"
    /\ \/ v.files = "whole" /\ Insert(v, v.ok) /\ UNCHANGED used
       \/ v.files # "whole" /\ UNCHANGED <<rows, hist, used>>
       \/ Use("errors") /\ UNCHANGED <<rows, hist>>
Adopt ==
    /\ run.at = "settle" /\ run.todo # {}
    /\ LET v == First(run.todo) IN
       /\ ~Recorded(v) /\ Mine(v) /\ v.done
       /\ run' = Settled(v)
       /\ AdoptBackup(v) \/ AdoptManifest(v)
    /\ Same(<<store, asks, staged>>)

Resumed == job.attempt > 1
PlexOwn == {r \in rows : r.job = job.id /\ ~Lost(r) /\ (r.ok \/ ~r.mok)}
\* A library manifest is fetched and checked: a damaged one is marked.
CheckEngineVersion(r) == Sized(r)
Checked == {r \in rows : r.by = job.id /\ r.ok /\ ~Lost(r)}
ManifestOwn == {r \in Checked : r.job = job.id /\ CheckEngineVersion(r)}
Own == IF world.kind = "manifest" THEN ManifestOwn ELSE PlexOwn
Damaged == IF world.kind # "manifest" THEN {}
           ELSE {r \in Checked : ~CheckEngineVersion(r) /\ (ManifestOwn # {} => Newer(r, Newest(ManifestOwn)))}

\* A resumed job whose version is recorded finishes with it.
RecoverEnd ==
    /\ run.at = "settle" /\ run.todo = {}
    /\ rows' = IF Resumed THEN Unmark(Damaged) ELSE rows
    /\ Go(IF ~Resumed \/ Own = {} THEN "choose" ELSE IF Newest(Own).ok THEN "prune" ELSE "fail")
    /\ Same(<<used, store, asks, staged, hist>>)

-----------------------------------------------------------------------------
(* What to store.                                                          *)

\* FreePath: the second's name, or that with the job's id.
Taken(p) == p \in {v.path : v \in run.list} \cup {r.path : r \in rows}
FreePath == {p \in {<<now, 0>>, <<now, job.id>>} : ~Taken(p) /\ (p[2] # 0 => Taken(<<now, 0>>))}

\* The version is staged (a new snapshot's id is none that was used).
Stage(ok, sched) ==
    \/ /\ FreePath # {}
       /\ run' = [run EXCEPT !.at = "put", !.v = [path |-> CHOOSE p \in FreePath : TRUE, ref |-> <<job.id, job.attempt>>, job |-> job.id,
                                src |-> src, sched |-> sched, ok |-> ok, files |-> "some", done |-> FALSE]]
       /\ staged' = staged \cup {<<"job", job.id, now>>}
    \/ FreePath = {} /\ Go("fail") /\ UNCHANGED staged

StagePlex ==
    /\ run.at = "choose" /\ world.kind = "plex"
    /\ \E ok \in BOOLEAN : Stage(ok, FALSE)
    /\ Same(<<used, store, rows, asks, hist>>)

\* manifest.unchanged: the newest ok version has this content, and its files read back.
StageManifest ==
    /\ run.at = "choose" /\ world.kind = "manifest"
    /\ LET ok == {r \in rows : r.ok}
           same == ok # {} /\ Newest(ok).src = src IN
       \/ same /\ CheckEngineVersion(Newest(ok)) /\ Go("prune") /\ UNCHANGED <<rows, staged>>
       \/ same /\ ~CheckEngineVersion(Newest(ok)) /\ rows' = Unmark({Newest(ok)}) /\ Stage(TRUE, FALSE)
       \/ ~same /\ Stage(TRUE, FALSE) /\ UNCHANGED rows
    /\ Same(<<used, store, asks, hist>>)

\* choose: a new backup of the *arr, or a scheduled one with its copies (alreadyCopied, newest
\* first): an intact copy ends the job, a failed one asks for a new backup, a damaged one is
\* taken off and recorded again as failed (markFailed).
Copies == {r \in rows : r.sched /\ r.src = src}
Intact(r) == Sized(r)
Chosen(C) ==
    LET stops == {r \in C : IF r.ok THEN ~Lost(r) /\ Intact(r) ELSE ~r.mok}
        bad == {r \in C : r.ok /\ ~Lost(r) /\ ~Intact(r) /\ (stops # {} => Newer(r, Newest(stops)))} IN
    \/ bad # {} /\ rows' = rows \ bad /\ run' = [run EXCEPT !.at = "mark", !.todo = bad] /\ UNCHANGED staged
    \/ bad = {} /\ stops = {} /\ (\E ok \in BOOLEAN : Stage(ok, TRUE)) /\ UNCHANGED rows
    \/ bad = {} /\ stops # {} /\ Newest(stops).ok /\ Go("end") /\ UNCHANGED <<rows, staged>>
    \/ bad = {} /\ stops # {} /\ ~Newest(stops).ok /\ (\E ok \in BOOLEAN : Stage(ok, FALSE)) /\ UNCHANGED rows
\* A copy that could not be read, or not be marked, is passed over.
StageArr ==
    /\ run.at = "choose" /\ world.kind = "arr"
    /\ \/ (\E ok \in BOOLEAN : Stage(ok, FALSE)) /\ UNCHANGED <<rows, used>>
       \/ Chosen(Copies) /\ UNCHANGED used
       \/ Use("errors") /\ \E r \in Copies : r.ok /\ ~Lost(r) /\ Chosen(Copies \ {r})
    /\ Same(<<store, asks, hist>>)

MarkFailed ==
    /\ run.at = "mark"
    /\ rows' = rows \cup {[r EXCEPT !.ok = FALSE] : r \in run.todo}
    /\ run' = [run EXCEPT !.at = "choose", !.todo = {}]
    /\ Same(<<used, store, asks, staged, hist>>)

-----------------------------------------------------------------------------
(* VersionStore.Put and the row.                                           *)

Stored(v) == (store \ {w \in store : w.ref = v.ref /\ w.path = v.path}) \cup {v}
Holds(v) == run' = [run EXCEPT !.at = CASE @ = "put" -> "copy" [] @ = "copy" -> "manifest" [] @ = "manifest" -> "readback", !.v = v]

\* rclone: the files, then manifest.json.
PutFiles ==
    /\ run.at \in {"put", "copy"} /\ ~Restic
    /\ LET v == [run.v EXCEPT !.ref = run.v.path, !.files = IF run.at = "put" THEN "some" ELSE "whole"] IN store' = Stored(v) /\ Holds(v)
    /\ Same(<<used, rows, asks, staged, hist>>)
PutManifest ==
    /\ run.at = "manifest" /\ ~Restic
    /\ LET v == [run.v EXCEPT !.done = TRUE] IN store' = Stored(v) /\ Holds(v)
    /\ Same(<<used, rows, asks, staged, hist>>)

\* restic: the staged directory moves to its fixed place, where the snapshot is taken; a backup
\* that does not complete may leave a snapshot without all files.
PutMove ==
    /\ run.at = "put" /\ Restic /\ Go("copy")
    /\ staged' = {s \in staged : s[1] = "job"} \cup {<<"put", job.id, now>>}
    /\ Same(<<used, store, rows, asks, hist>>)
PutSnapshot ==
    /\ run.at = "copy" /\ Restic
    /\ LET v == [run.v EXCEPT !.files = "whole", !.done = TRUE] IN
       \/ store' = Stored(v) /\ run' = [run EXCEPT !.at = "readback", !.v = v] /\ UNCHANGED used
       \/ Use("errors") /\ store' = Stored([v EXCEPT !.files = "some"]) /\ Go("fail")
    /\ Same(<<rows, asks, staged, hist>>)

\* The version reads back with every file.
ReadBack ==
    /\ run.at = "readback" /\ Go("record")
    /\ staged' = {s \in staged : s[1] = "job"}
    /\ Same(<<used, store, rows, asks, hist>>)

Record ==
    /\ run.at = "record"
    /\ Insert(run.v, run.v.ok)
    /\ run' = [run EXCEPT !.at = IF run.v.ok THEN "clean" ELSE "fail", !.list = @ \cup {run.v}]
    /\ Same(<<used, store, asks, staged>>)

Clean ==
    /\ run.at = "clean" /\ Go("prune")
    /\ staged' = {s \in staged : s[2] # job.id}
    /\ Same(<<used, store, rows, asks, hist>>)

-----------------------------------------------------------------------------
(* pruneEngine.                                                            *)

\* The keep math (Versions) with one version a day: the newest ok ones stay; failed ones stay
\* for longer than these behaviours last.
Pruned(R) == {r \in R : r.ok /\ Cardinality({s \in R : s.ok /\ Newer(s, r)}) >= run.keep}

\* Rows of versions that are gone are dropped first.
PruneBegin ==
    /\ run.at = "prune"
    /\ LET R == {r \in rows : ~Lost(r)} IN
       rows' = R /\ run' = [run EXCEPT !.at = "remove", !.todo = Pruned(R)]
    /\ Same(<<used, store, asks, staged, hist>>)

\* restic: the row and the forget request in one transaction.
RemoveRestic ==
    /\ run.at = "remove" /\ run.todo # {} /\ Restic
    /\ \E r \in run.todo :
       /\ run' = [run EXCEPT !.todo = @ \ {r}]
       /\ \/ rows' = rows \ {r} /\ asks' = asks \cup {r.ref} /\ UNCHANGED used
          \/ Use("errors") /\ UNCHANGED <<rows, asks>>
    /\ Same(<<store, staged, hist>>)

\* rclone: the purge, which takes files one by one and may stop, and then the row.
Purge ==
    /\ run.at = "remove" /\ run.todo # {} /\ ~Restic
    /\ \E r \in run.todo : \E v \in Find(store, r) :
       /\ hist' = [hist EXCEPT !.purged = @ \cup {r.path}]
       /\ \/ store' = store \ {v} /\ run' = [run EXCEPT !.at = "row", !.v = r] /\ UNCHANGED used
          \/ /\ store' \in {Stored([v EXCEPT !.files = "some", !.done = d]) : d \in BOOLEAN} \cup {Stored([v EXCEPT !.done = FALSE])}
             /\ run' = [run EXCEPT !.todo = @ \ {r}] /\ Use("errors")
    /\ Same(<<rows, asks, staged>>)
RemoveRow ==
    /\ run.at = "row"
    /\ run' = [run EXCEPT !.at = "remove", !.todo = @ \ {run.v}]
    /\ rows' = rows \ {run.v}
    /\ Same(<<used, store, asks, staged, hist>>)

PruneEnd ==
    /\ run.at = "remove" /\ run.todo = {} /\ Go("end")
    /\ Same(<<used, store, rows, asks, staged, hist>>)

-----------------------------------------------------------------------------
(* How a run ends.                                                         *)

Finish ==
    /\ run.at = "end" /\ run' = Idle /\ job' = [job EXCEPT !.st = "done"]
    /\ UNCHANGED <<world, used, now, src, keep, store, rows, asks, staged, hist>>

\* A step fails, or the job is cancelled before a step.
Break ==
    /\ run.at \in {"open", "list", "choose", "put", "copy", "manifest", "readback"}
    /\ Use("errors") /\ Go("fail")
    /\ Same(<<store, rows, asks, staged, hist>>)

Fail ==
    /\ run.at = "fail" /\ run' = Idle /\ job' = [job EXCEPT !.st = "failed"]
    /\ staged' = {s \in staged : s[2] # job.id}
    /\ UNCHANGED <<world, used, now, src, keep, store, rows, asks, hist>>

\* The process ends; it starts again in a later second and resumes the job, or fails it for good
\* (*arr jobs then lose their staging: OnJobFinish).
Crash ==
    /\ run.at # "idle" /\ Use("crashes") /\ run' = Idle
    /\ now' = now + 1
    /\ job' = IF job.attempt < Attempts THEN [job EXCEPT !.st = "queued", !.attempt = @ + 1] ELSE [job EXCEPT !.st = "failed"]
    /\ staged' = IF job.attempt = Attempts /\ world.kind = "arr" THEN staged \ {s \in staged : s[1] = "job" /\ s[2] = job.id} ELSE staged
    /\ UNCHANGED <<world, src, keep, store, rows, asks, hist>>

-----------------------------------------------------------------------------
(* Around the runs.                                                        *)

Tick == now < world.ticks /\ now' = now + 1 /\ UNCHANGED <<world, used, src, keep, store, rows, asks, staged, job, run, hist>>

Change ==
    /\ Use("changes") /\ src' = src + 1 /\ hist' = [hist EXCEPT !.saw = @ \cup {src'}]
    /\ UNCHANGED <<world, now, keep, store, rows, asks, staged, job, run>>

SetKeep ==
    /\ run = Idle /\ keep' \in world.keeps \ {keep}
    /\ UNCHANGED <<world, used, now, src, store, rows, asks, staged, job, run, hist>>

\* A retention job forgets the requested snapshots no row references (FilterForget; what else it
\* protects only stays longer).
Forget ==
    /\ Restic /\ asks # {} /\ asks' = {}
    /\ store' = {v \in store : v.ref \in asks => \E r \in rows : r.ref = v.ref}
    /\ Same(<<used, rows, staged, run, hist>>)

\* Between runs somebody deletes a version, or a file of an rclone version.
Meddle ==
    /\ run = Idle /\ Use("meddles")
    /\ \E v \in store :
       /\ \/ store' = store \ {v}
          \/ ~Restic /\ v.done /\ store' \in {Stored([v EXCEPT !.files = "some"]), Stored([v EXCEPT !.done = FALSE])}
       /\ hist' = [hist EXCEPT !.hurt = @ \cup {v.ref}]
    /\ Same(<<rows, asks, staged, run>>)

Next ==
    \/ Begin \/ Open \/ List \/ LeaveAlone \/ PurgeLeftover \/ Adopt \/ RecoverEnd
    \/ StagePlex \/ StageManifest \/ StageArr \/ MarkFailed
    \/ PutFiles \/ PutManifest \/ PutMove \/ PutSnapshot \/ ReadBack \/ Record \/ Clean
    \/ PruneBegin \/ RemoveRestic \/ Purge \/ RemoveRow \/ PruneEnd
    \/ Finish \/ Break \/ Fail \/ Crash \/ Tick \/ Change \/ SetKeep \/ Forget \/ Meddle

Spec == Init /\ [][Next]_vars

-----------------------------------------------------------------------------
(* Properties.                                                             *)

\* A job that is about to succeed has a recorded ok version of what the source held since it
\* began, complete at the destination; only its own version may have been damaged by others,
\* between a crash and the resumed run.
SuccessStored ==
    run.at = "end" =>
        \E r \in rows : \E v \in Find(store, r) :
            r.ok /\ r.src \in hist.saw /\ v.done /\ (v.files = "whole" \/ (v.ref \in hist.hurt /\ r.job = job.id))

\* An ok row has its version whole at the destination: on restic it is never about to be
\* forgotten, on rclone only a purge takes it, whose row goes next.
RowsHold ==
    \A r \in rows : r.ok /\ (\A h \in hist.hurt : ~Matches([path |-> h, ref |-> h], r)) =>
        \/ r.ref \notin asks /\ \E v \in Find(store, r) : v.done /\ v.files = "whole"
        \/ ~Restic /\ r.path \in hist.purged

\* A job that was interrupted records its version once, however often it is resumed.
OncePerJob ==
    used.errors = 0 /\ hist.hurt = {} => \A a, b \in hist.made : a[1] = b[1] => a = b

\* Past its start a run leaves no staged version of an interrupted Put, and when it has stored
\* its version nothing of its own staging (it holds tokens and passwords).
StagingSwept ==
    /\ run.at \notin {"idle", "open", "copy", "readback", "fail"} => \A s \in staged : s[1] = "job"
    /\ run.at \in {"prune", "remove", "row", "end"} /\ world.kind # "manifest" => \A s \in staged : s[2] # job.id
=============================================================================
