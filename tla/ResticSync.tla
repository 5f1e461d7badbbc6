----------------------------- MODULE ResticSync -----------------------------
(***************************************************************************)
(* Syncs and retention of a restic destination (internal/enginerun:        *)
(* restic_sync.go, restic_record.go, restic_retention.go, state.go; the    *)
(* keep rules of internal/engines/restic/keep.go; the store in             *)
(* internal/syncer/store_engine.go). One source, whose names are one       *)
(* folder, planned by PlanRules; one job at a time (JobQueue).             *)
(*                                                                         *)
(* A batch of items is one snapshot of everything recorded so far and of   *)
(* the batch, and counts only through what a read-back finds in it. A      *)
(* record has no reference while the base, the snapshot recorded last,     *)
(* holds its version; else it names the snapshot that does. The process    *)
(* may end between any two steps, the source changes at any time, and      *)
(* snapshots are removed by others between jobs.                           *)
(***************************************************************************)
EXTENDS Integers, FiniteSets, FiniteSetsExt, Sequences, SequencesExt

CONSTANTS
    Names,      \* the names, numbers in path order
    Jobs,       \* bound: syncs, 1..n
    Worlds,     \* the settings explored
    None

VARIABLES
    world, used,    \* bounds of this behaviour, chosen once, and what is used of them
    src, twins,     \* the source: the version of each name (0: none); the names of one inode
    newest, cat,    \* the newest version so far; the catalog as of the last scan
    snaps,          \* every snapshot ever made: [kind, job, batch, holds, t, at]
    rows,           \* engine_snapshots, in the order recorded: [snap, job, batch, complete]
    conf, requests, \* the snapshots of config versions' rows; engine_forget
    rec, ret,       \* destination_files: live records by name, retained rows
    job, items,     \* the running or last sync and its items
    run,            \* where the running job is
    known, excused  \* history: versions recorded; those expired or lost with a removed snapshot

vars == <<world, used, src, twins, newest, cat, snaps, rows, conf, requests, rec, ret, job, items, run, known, excused>>
source == <<src, twins, newest, cat>>
repo == <<snaps, rows, conf, requests>>
files == <<rec, ret>>
hist == <<known, excused>>

P == INSTANCE PlanRules

Ids == 1..Len(snaps)
Here(s) == snaps[s].at = "here"
Idle == [at |-> "idle", batch |-> <<>>, set |-> {}, snap |-> 0, k |-> 0, done |-> {}, fail |-> {}, forget |-> {}]

Init ==
    /\ world \in Worlds
    /\ used = [stops |-> 0, removed |-> 0, unread |-> 0, cuts |-> 0, retentions |-> 0, configs |-> 0, back |-> 0, errors |-> 0]
    /\ src = [n \in Names |-> IF n = 1 \/ world.twins THEN 1 ELSE 0]
    /\ twins = IF world.twins THEN Names ELSE {}
    /\ newest = 1
    /\ cat = [n \in Names |-> 0]
    /\ snaps = <<>> /\ rows = <<>> /\ conf = {} /\ requests = {}
    /\ rec = [n \in Names |-> None] /\ ret = {}
    /\ job = [id |-> 0, st |-> "ended", planned |-> FALSE]
    /\ items = {}
    /\ run = Idle
    /\ known = {} /\ excused = {}

Use(what) == used[what] < world[what] /\ used' = [used EXCEPT ![what] = @ + 1]
Live(n) == rec[n] # None
At(step) == run' = [run EXCEPT !.at = step]
Pending == {i \in items : i.st = "pending"}
Content(S) == {i \in S : i.phase < 6}
InOrder(S) == SetToSortSeq(S, LAMBDA a, b : a.phase < b.phase \/ (a.phase = b.phase /\ a.n < b.n))

-----------------------------------------------------------------------------
(* The source, others at the repository, the end of a job.                 *)

SourceChanges ==
    /\ newest < world.versions
    /\ newest' = newest + 1
    /\ \/ \E n \in Names : src' = [src EXCEPT ![n] = newest + 1] /\ twins' = twins \ {n}
       \/ \E n \in Names : src[n] # 0 /\ src' = [src EXCEPT ![n] = 0] /\ twins' = twins \ {n}
       \/ \E n, m \in Names :
             /\ src[n] # 0 /\ src[m] = 0
             /\ src' = [src EXCEPT ![n] = 0, ![m] = src[n]] /\ twins' = twins \ {n}
    /\ UNCHANGED <<world, used, cat, repo, files, job, items, run, hist>>

\* Somebody runs restic forget, between jobs or while a forget is planned.
RemovedOutside ==
    /\ run.at \in {"idle", "forget"} /\ Use("removed")
    /\ \E s \in Ids : Here(s) /\ snaps' = [snaps EXCEPT ![s].at = "removed"]
    /\ UNCHANGED <<world, source, rows, conf, requests, files, job, items, run, hist>>

\* The end of the process or a shutdown (the job is queued again), a cancel, or an
\* error that is not an item's: the steps done so far stay.
Stop ==
    /\ run.at # "idle" /\ Use("stops")
    /\ \E st \in {"queued", "ended"} : job' = IF job.st = "running" THEN [job EXCEPT !.st = st] ELSE job
    /\ run' = Idle
    /\ UNCHANGED <<world, source, repo, files, items, hist>>

-----------------------------------------------------------------------------
(* Preflight, plan, and what an earlier attempt did not record.            *)

Base == IF rows = <<>> THEN 0 ELSE rows[Len(rows)].snap

Begin ==
    /\ run.at = "idle"
    /\ \/ job.st = "queued" /\ job' = [job EXCEPT !.st = "running"] /\ items' = items
       \/ /\ job.st # "queued" /\ job.id + 1 \in Jobs
          /\ job' = [id |-> job.id + 1, st |-> "running", planned |-> FALSE] /\ items' = {}
    /\ run' = [Idle EXCEPT !.at = "preflight"]
    /\ UNCHANGED <<world, used, source, repo, files, hist>>

\* preflightListing: rows of snapshots that are gone go, with the versions retained
\* in them; the live records they hold become missing.
LostIn(n, gone) ==
    Live(n) /\ (rec[n].ref \in gone \/ (rec[n].ref = 0 /\ Base \in gone /\ rec[n].st \in {"present", "linked"}))
Preflight ==
    /\ run.at = "preflight"
    /\ LET gone == {rows[i].snap : i \in DOMAIN rows} \cap {s \in Ids : ~Here(s)}
           lost == {n \in Names : LostIn(n, gone)}
           versions == {r \in ret : r.ref \in gone}
       IN /\ rows' = SelectSeq(rows, LAMBDA r : r.snap \notin gone)
          /\ ret' = ret \ versions
          /\ rec' = [n \in Names |-> IF n \in lost THEN [rec[n] EXCEPT !.st = "missing", !.ref = 0] ELSE rec[n]]
          /\ excused' = excused \cup {rec[n].v : n \in lost} \cup {r.v : r \in versions}
    /\ At("plan")
    /\ UNCHANGED <<world, used, source, snaps, conf, requests, job, items, known>>

PlanInput(scan) ==
    [files |-> [n \in {m \in Names : scan[m] # 0} |->
                   [v |-> scan[n], grp |-> IF n \in twins THEN 1 ELSE 0, full |-> TRUE, replaced |-> FALSE, unknown |-> FALSE]],
     recs |-> [n \in {m \in Names : Live(m)} |-> [st |-> rec[n].st, v |-> rec[n].v, link |-> rec[n].link]],
     dir |-> [n \in Names |-> 0], targeted |-> FALSE, updateKept |-> TRUE, size |-> [v \in 0..newest |-> 1],
     there |-> [n \in Names |-> -1], adopt |-> FALSE, release |-> {}]

\* sourceSet: the files whose record holds their catalogued version, read once
\* before the first batch; each batch adds the files it recorded.
Included(scan, I) == {n \in Names : Live(n) /\ scan[n] = rec[n].v /\ ~\E i \in I : i.n = n}

ToItem(in, it) ==
    [act |-> it.act, n |-> it.rel, from |-> it.from, v |-> it.v,
     id |-> IF it.rec \in Names /\ Live(it.rec) THEN rec[it.rec].id ELSE None,
     phase |-> P!Phase(in, it), st |-> "pending", cuts |-> 0]

\* A stored plan is kept, and its batches' snapshots are looked for (reconcileJob).
Plan ==
    /\ run.at = "plan"
    /\ IF job.planned THEN UNCHANGED <<items, cat, job>> /\ At("reconcile")
       ELSE /\ cat' = src /\ job' = [job EXCEPT !.planned = TRUE]
            /\ LET in == PlanInput(src) IN items' = {ToItem(in, it) : it \in P!Items(in)}
            /\ run' = [run EXCEPT !.at = "next", !.set = Included(src, items')]
    /\ UNCHANGED <<world, used, src, twins, newest, repo, files, hist>>

Recorded == {rows[i].snap : i \in DOMAIN rows}
Unrecorded == {s \in Ids : Here(s) /\ snaps[s].kind = "media" /\ snaps[s].job = job.id /\ s \notin Recorded}
LastBatch == Max({0} \cup {rows[i].batch : i \in {k \in DOMAIN rows : rows[k].job = job.id}}
                     \cup {snaps[s].batch : s \in {z \in Ids : Here(z) /\ snaps[z].kind = "media" /\ snaps[z].job = job.id}})

\* reconcileJob: the first of them is read back against every pending item.
Reconcile ==
    /\ run.at = "reconcile"
    /\ IF Unrecorded = {} THEN run' = [run EXCEPT !.at = "next", !.set = Included(cat, Pending)]
       ELSE LET s == CHOOSE s \in Unrecorded : \A z \in Unrecorded : snaps[s].batch <= snaps[z].batch
            IN run' = [run EXCEPT !.at = "resume", !.snap = s, !.k = snaps[s].batch, !.batch = InOrder(Content(Pending))]
    /\ UNCHANGED <<world, used, source, repo, files, job, items, hist>>

-----------------------------------------------------------------------------
(* Batches.                                                                *)

\* work, alreadyDone: the version an item's file must have, and an item a recorded
\* batch finished.
Wants(i) == IF i.act = "promote" THEN IF Live(i.n) THEN rec[i.n].v ELSE -1 ELSE i.v
AlreadyDone(i) ==
    /\ Live(i.n) /\ rec[i.n].job = job.id
    /\ IF i.act = "promote" THEN rec[i.n].st = "present" /\ rec[i.n].link = 0
       ELSE rec[i.n].st \in {"present", "linked"} /\ rec[i.n].v = i.v /\ rec[i.n].ref = 0

EndItems(S, st) == items' = (items \ S) \cup {[i EXCEPT !.st = st] : i \in S}

SkipDone ==
    /\ run.at = "next"
    /\ LET S == {i \in Content(Pending) : AlreadyDone(i)} IN S # {} /\ EndItems(S, "done")
    /\ UNCHANGED <<world, used, source, repo, files, job, run, hist>>

\* cutBatch and the check of each file: the first items, as many as the limits (the
\* batch settings, the window, the cut cap) let in.
CutBatch ==
    /\ run.at = "next" /\ Content(Pending) # {} /\ ~\E i \in Content(Pending) : AlreadyDone(i)
    /\ \E size \in 1..Cardinality(Content(Pending)) :
          LET batch == {InOrder(Content(Pending))[k] : k \in 1..size}
              stale == {i \in batch : src[i.n] # Wants(i)}
          IN /\ EndItems(stale, "failed")
             /\ run' = IF batch = stale THEN run
                       ELSE [Idle EXCEPT !.at = "backup", !.batch = InOrder(batch \ stale), !.k = LastBatch + 1, !.set = run.set]
    /\ UNCHANGED <<world, used, source, repo, files, job, hist>>

\* Backup: the snapshot holds what restic read; one file may be unreadable (exit 3),
\* and the clock may have been set back since the last one.
Backup ==
    /\ run.at = "backup"
    /\ \E unread \in SUBSET Names, back \in BOOLEAN :
          LET listed == run.set \cup {run.batch[k].n : k \in DOMAIN run.batch}
              holds == [n \in Names |-> IF n \in listed \ unread THEN src[n] ELSE 0]
              t == IF back THEN 0 ELSE Len(snaps) + 1
          IN /\ unread # {} => Cardinality(unread) = 1 /\ unread \subseteq listed /\ used.unread < world.unread
             /\ back => used.back < world.back
             /\ used' = [used EXCEPT !.unread = @ + Cardinality(unread), !.back = IF back THEN @ + 1 ELSE @]
             /\ snaps' = Append(snaps, [kind |-> "media", job |-> job.id, batch |-> run.k, holds |-> holds, t |-> t, at |-> "here"])
             /\ run' = [run EXCEPT !.at = "record", !.snap = Len(snaps) + 1]
    /\ UNCHANGED <<world, source, rows, conf, requests, files, job, items, hist>>

\* The window's end interrupts it: the items stay pending and the job is deferred; a
\* batch of one file that two windows cut fails.
WindowCut ==
    /\ run.at = "backup" /\ Use("cuts")
    /\ LET i == run.batch[1]
       IN items' = IF Len(run.batch) > 1 THEN items
                   ELSE (items \ {i}) \cup {[i EXCEPT !.cuts = @ + 1, !.st = IF i.cuts + 1 >= 2 THEN "failed" ELSE @]}
    /\ job' = [job EXCEPT !.st = "queued"]
    /\ run' = Idle
    /\ UNCHANGED <<world, source, repo, files, hist>>

Rec(id, st, v, link) == [id |-> id, st |-> st, v |-> v, link |-> link, ref |-> 0, job |-> job.id]
Row(r, n, ref, why, S) ==
    [rel |-> n, path |-> n, v |-> r.v, ref |-> ref, why |-> why, seq |-> 1 + Max({0} \cup {q.seq : q \in S})]
Coalesce(ref, base) == IF ref # 0 THEN ref ELSE base
Dependents(R, n) == {d \in Names : R[d] # None /\ R[d].link = n}

\* PromoteTx without a move.
Promoted(a, i) ==
    IF a.rec[i.n] = None THEN [a EXCEPT !.fail = @ \cup {i}]
    ELSE IF a.rec[i.n].st = "present" /\ a.rec[i.n].link = 0 THEN [a EXCEPT !.done = @ \cup {i}]
    ELSE IF a.rec[i.n].link # i.from \/ a.rec[i.from] = None THEN [a EXCEPT !.fail = @ \cup {i}]
    ELSE [a EXCEPT !.done = @ \cup {i},
            !.rec = [m \in Names |-> IF m = i.n THEN [@[m] EXCEPT !.st = "present", !.link = 0, !.job = job.id]
                                     ELSE IF @[m] # None /\ @[m].link = i.from THEN [@[m] EXCEPT !.link = i.n] ELSE @[m]]]

\* replacesVersion.
Replaces(i, old) == i.act = "update" \/ (i.act = "link" /\ old.st # "missing" /\ old.link = 0)

\* followMoveTx: the old versions of a moved record follow it, their paths stay.
FollowMove(S, f, n) ==
    {IF r.rel = f /\ r.why \in {"replaced", "damaged"}
          /\ ~\E q \in S : q.rel = f /\ q.why \notin {"replaced", "damaged"} /\ q.seq > r.seq
       THEN [r EXCEPT !.rel = n] ELSE r : r \in S}

\* recordItemTx: a held item's record takes the version, an update's old version a
\* row that names the snapshot it is in.
MutRecordItem(a, i) ==
    LET old == IF Live(i.n) THEN rec[i.n] ELSE None
    IN IF i.act \in {"promote", "move"} THEN IF i.act = "promote" THEN Promoted(a, i) ELSE a
       ELSE [a EXCEPT !.done = @ \cup {i}, !.rec[i.n] = Rec(IF old = None THEN <<i.n, job.id>> ELSE old.id, "present", i.v, 0),
                !.ret = IF old # None /\ Replaces(i, old) /\ old.ref # 0
                          THEN @ \cup {Row(old, i.n, old.ref, IF old.st = "missing" THEN "damaged" ELSE "replaced", @)} ELSE @]
RecordItem(a, i) ==
    LET of == {n \in Names : Live(n) /\ rec[n].id = i.id}
        f == IF of = {} THEN 0 ELSE CHOOSE n \in of : TRUE
        old == IF f = 0 THEN None ELSE rec[f]
        prim == i.act = "link" /\ a.rec[i.from] # None /\ a.rec[i.from].st = "present" /\ a.rec[i.from].v = i.v
        id == IF f # 0 THEN old.id ELSE IF a.rec[i.n] # None THEN a.rec[i.n].id ELSE <<i.n, job.id>>
        new == IF prim THEN Rec(id, "linked", i.v, i.from) ELSE Rec(id, "present", i.v, 0)
        ref == IF f = 0 THEN 0 ELSE Coalesce(old.ref, Base)
    IN CASE i.act = "promote" -> Promoted(a, i)
         [] f # 0 /\ f # i.n /\ a.rec[i.n] # None -> [a EXCEPT !.fail = @ \cup {i}]
         [] OTHER ->
              [a EXCEPT !.done = @ \cup {i},
                 !.rec = [m \in Names |->
                            CASE m = i.n -> new
                              [] m = f -> None
                              [] OTHER -> IF f # 0 /\ f # i.n /\ @[m] # None /\ @[m].link = f THEN [@[m] EXCEPT !.link = i.n] ELSE @[m]],
                 !.ret = IF i.act = "move" /\ f # 0 THEN FollowMove(@, f, i.n)
                         ELSE IF f # 0 /\ Replaces(i, old) /\ ref # 0
                           THEN @ \cup {Row(old, f, ref, IF old.st = "missing" THEN "damaged" ELSE "replaced", @)}
                         ELSE @]

\* ApplyReadBackTx: the reference rule, for every live record.
MutReadBack(R, holds, base) ==
    [n \in Names |-> IF R[n] = None THEN None
                     ELSE [R[n] EXCEPT !.ref = IF holds[n] = R[n].v THEN 0 ELSE base]]
ReadBack(R, holds, base) ==
    [n \in Names |-> IF R[n] = None THEN None
                     ELSE [R[n] EXCEPT !.ref = IF holds[n] = R[n].v THEN 0 ELSE Coalesce(@, base)]]

\* recordBatch: one transaction records the snapshot, its items and the references.
\* A resumed job leaves pending what its snapshot does not hold.
RecordBatch ==
    /\ run.at \in {"record", "resume"} /\ Here(run.snap)
    /\ LET holds == snaps[run.snap].holds
           held(i) == holds[i.n] = Wants(i)
           start == [rec |-> rec, ret |-> ret, done |-> {},
                     fail |-> IF run.at = "resume" THEN {} ELSE {i \in ToSet(run.batch) : ~held(i)}]
           a == FoldLeft(RecordItem, start, SelectSeq(run.batch, held))
       IN /\ rec' = ReadBack(a.rec, holds, Base)
          /\ ret' = a.ret
          /\ known' = known \cup {i.v : i \in a.done}
          /\ rows' = Append(rows, [snap |-> run.snap, job |-> job.id, batch |-> run.k, complete |-> FALSE])
          /\ run' = [run EXCEPT !.at = IF run.at = "resume" THEN "resumed" ELSE "finish", !.done = a.done, !.fail = a.fail,
                               !.set = @ \cup {i.n : i \in a.done}]
    /\ UNCHANGED <<world, used, source, snaps, conf, requests, job, items, excused>>

\* The items are finished one by one after the transaction.
FinishItem ==
    /\ run.at \in {"finish", "resumed", "retained"} /\ run.done \cup run.fail # {}
    /\ LET i == InOrder(run.done \cup run.fail)[1]
       IN /\ EndItems({i}, IF i \in run.done THEN "done" ELSE "failed")
          /\ run' = [run EXCEPT !.done = @ \ {i}, !.fail = @ \ {i}]
    /\ UNCHANGED <<world, used, source, repo, files, job, hist>>

BatchDone ==
    /\ run.at \in {"finish", "resumed", "retained"} /\ run.done \cup run.fail = {}
    /\ run' = CASE run.at = "finish" -> [Idle EXCEPT !.at = "next", !.set = run.set]
                [] run.at = "resumed" -> [Idle EXCEPT !.at = "reconcile"]
                [] OTHER -> [Idle EXCEPT !.at = "end"]
    /\ UNCHANGED <<world, used, source, repo, files, job, items, hist>>

-----------------------------------------------------------------------------
(* The end of a sync.                                                      *)

Reappeared(n) == src[n] # 0 /\ cat[n] # 0
HoldsContent(n) ==
    \/ Live(n) /\ rec[n].st # "missing" /\ rec[n].v = cat[n]
    \/ \E r \in ret : r.rel = n /\ r.why # "damaged" /\ r.v = cat[n]
NotBackedUp == {n \in Names : cat[n] # 0 /\ ~HoldsContent(n)}

\* One retain of finishSync's transaction.
RetainItem(a, i) ==
    LET r == a.rec[i.n]
    IN CASE r = None \/ r.id # i.id -> [a EXCEPT !.done = @ \cup {i}]
         [] Reappeared(i.n) -> [a EXCEPT !.fail = @ \cup {i}]
         [] Dependents(a.rec, i.n) # {} /\ (r.st = "missing" \/ NotBackedUp = {}) -> [a EXCEPT !.fail = @ \cup {i}]
         [] r.st = "missing" -> [a EXCEPT !.done = @ \cup {i}, !.rec[i.n] = None]
         [] NotBackedUp # {} -> [a EXCEPT !.fail = @ \cup {i}, !.rec[i.n].ref = Coalesce(@, Base)]
         [] OTHER -> [a EXCEPT !.done = @ \cup {i}, !.rec[i.n] = None,
                         !.ret = @ \cup {Row(r, i.n, Coalesce(r.ref, Base), "deleted", @)}]

\* finishSync: the last snapshot of the job is complete, the retains are decided.
Complete(R) ==
    LET mine == {k \in DOMAIN R : R[k].job = job.id}
        last == CHOOSE k \in mine : \A m \in mine : R[m].batch < R[k].batch \/ (R[m].batch = R[k].batch /\ m <= k)
    IN IF mine = {} THEN R ELSE [R EXCEPT ![last].complete = TRUE]
FinishSync ==
    /\ run.at = "next" /\ Content(Pending) = {}
    /\ LET a == FoldLeft(RetainItem, [rec |-> rec, ret |-> ret, done |-> {}, fail |-> {}], InOrder(Pending))
       IN /\ rec' = a.rec /\ ret' = a.ret
          /\ rows' = Complete(rows)
          /\ run' = [run EXCEPT !.at = "retained", !.done = a.done, !.fail = a.fail]
    /\ UNCHANGED <<world, used, source, snaps, conf, requests, job, items, hist>>

SyncDone ==
    /\ run.at = "end"
    /\ job' = [job EXCEPT !.st = "done"] /\ run' = Idle
    /\ UNCHANGED <<world, used, source, repo, files, items, hist>>

-----------------------------------------------------------------------------
(* Config versions: a snapshot, then its row and the requests to forget    *)
(* the ones its runner pruned (RequestForget).                             *)

ConfigBackup ==
    /\ run.at = "idle" /\ job.st # "queued" /\ Use("configs")
    /\ snaps' = Append(snaps, [kind |-> "config", job |-> 0, batch |-> 1, holds |-> [n \in Names |-> 0], t |-> Len(snaps) + 1, at |-> "here"])
    /\ run' = [Idle EXCEPT !.at = "config", !.snap = Len(snaps) + 1]
    /\ UNCHANGED <<world, source, rows, conf, requests, files, job, items, hist>>

ConfigRecord ==
    /\ run.at = "config"
    /\ \E pruned \in SUBSET conf :
          /\ conf' = (conf \ pruned) \cup {run.snap}
          /\ requests' = requests \cup pruned
    /\ run' = Idle
    /\ UNCHANGED <<world, used, source, snaps, rows, files, job, items, hist>>

-----------------------------------------------------------------------------
(* Retention jobs.                                                         *)

RetentionBegin ==
    /\ run.at = "idle" /\ job.st # "queued" /\ Use("retentions")
    /\ run' = [Idle EXCEPT !.at = "expire"]
    /\ UNCHANGED <<world, source, repo, files, job, items, hist>>

\* expiryHold: a replaced version waits for a newer one of its path.
ExpiryHeld(r) ==
    /\ r.why = "replaced"
    /\ IF Live(r.rel) THEN rec[r.rel].st # "present"
       ELSE ~\E q \in ret : q.rel = r.rel /\ q.seq > r.seq

\* expireRow: only the row goes.
ExpireRow ==
    /\ run.at = "expire"
    /\ \E r \in ret :
          /\ ~ExpiryHeld(r)
          /\ ret' = ret \ {r}
          /\ excused' = excused \cup {r.v}
    /\ UNCHANGED <<world, used, source, repo, rec, job, items, run, known>>

\* protect (S24): what no forget may take, on a listing of the repository.
Listed(kind) == {s \in Ids : Here(s) /\ snaps[s].kind = kind}
Newer(s, z) == snaps[z].t > snaps[s].t \/ (snaps[z].t = snaps[s].t /\ z > s)
NewestOf(S) == {s \in S : ~\E z \in S : Newer(s, z)}
CompleteSnaps == {s \in Listed("media") : \E k \in DOMAIN rows : rows[k].snap = s /\ rows[k].complete}
Refs == {rec[n].ref : n \in {m \in Names : Live(m)}} \cup {r.ref : r \in ret} \cup conf
Protected == NewestOf(Listed("media")) \cup NewestOf(Listed("config")) \cup NewestOf(CompleteSnaps) \cup Refs \cup {Base}

\* bucketKeep: the newest complete snapshot of each of the last days that have one.
BucketKeep ==
    {s \in CompleteSnaps :
        /\ ~\E z \in CompleteSnaps : snaps[z].t = snaps[s].t /\ z > s
        /\ Cardinality({snaps[z].t : z \in {y \in CompleteSnaps : snaps[y].t > snaps[s].t}}) < world.daily}

KeepMedia == Listed("media") \ (Protected \cup BucketKeep)
FilterForget == (requests \cap Listed("config")) \ Protected

\* forget: one item per snapshot; requests of snapshots that are gone are served.
ForgetPlan ==
    /\ run.at = "expire"
    /\ requests' = {s \in requests : Here(s)}
    /\ run' = [run EXCEPT !.at = "forget", !.forget = KeepMedia \cup FilterForget]
    /\ UNCHANGED <<world, used, source, snaps, rows, conf, files, job, items, hist>>

\* forgetChunk: the repository is listed and the keep set computed again; some of the
\* chunk may be forgotten when restic fails. What takes the last complete snapshot is
\* noted for the property below.
ForgetChunk ==
    /\ run.at = "forget"
    /\ LET ids == run.forget \cap (KeepMedia \cup FilterForget)
       IN \E done \in SUBSET ids :
             /\ IF done = ids THEN used' = used ELSE Use("errors")
             /\ snaps' = [s \in Ids |-> IF s \notin done THEN snaps[s]
                                       ELSE [snaps[s] EXCEPT !.at = IF CompleteSnaps # {} /\ CompleteSnaps \subseteq done
                                                                      THEN "last" ELSE "forgotten"]]
             /\ run' = [run EXCEPT !.at = "forgotten", !.forget = done]
    /\ UNCHANGED <<world, source, rows, conf, requests, files, job, items, hist>>

\* forgotten: their rows and requests go.
Forgotten ==
    /\ run.at = "forgotten"
    /\ rows' = SelectSeq(rows, LAMBDA r : r.snap \notin run.forget)
    /\ requests' = requests \ run.forget
    /\ run' = Idle
    /\ UNCHANGED <<world, used, source, snaps, conf, files, job, items, hist>>

-----------------------------------------------------------------------------

Next ==
    \/ SourceChanges \/ RemovedOutside \/ Stop
    \/ Begin \/ Preflight \/ Plan \/ Reconcile
    \/ SkipDone \/ CutBatch \/ Backup \/ WindowCut \/ RecordBatch \/ FinishItem \/ BatchDone
    \/ FinishSync \/ SyncDone
    \/ ConfigBackup \/ ConfigRecord
    \/ RetentionBegin \/ ExpireRow \/ ForgetPlan \/ ForgetChunk \/ Forgotten

Spec == Init /\ [][Next]_vars

-----------------------------------------------------------------------------
(* Properties.                                                             *)

\* A snapshot that holds version v of path n, and is in the repository or was
\* removed by others since the last preflight.
Holds(s, n, v) == s \in Ids /\ snaps[s].holds[n] = v /\ (Here(s) \/ (snaps[s].at = "removed" /\ s \in Recorded))

\* At every step, also after any end of the process, every present record's version
\* is in the snapshot it names (the base when it names none), every retained version
\* that was not damaged is in its snapshot, and so is every config version: nothing
\* is recorded that was not read back, no reference is moved, and no forget takes a
\* snapshot somebody needs, or the last complete one, also when others removed the
\* newest after the forget was planned (S7, S24, restic_record.go, keep.go).
Restorable ==
    /\ \A n \in Names : Live(n) /\ rec[n].st \in {"present", "linked"} => Holds(Coalesce(rec[n].ref, Base), n, rec[n].v)
    /\ \A r \in ret : r.why # "damaged" => Holds(r.ref, r.path, r.v)
    /\ \A s \in conf : snaps[s].at # "forgotten"
    /\ \A s \in Ids : snaps[s].at # "last"

\* A version that was ever recorded stays recorded, live or retained, until it
\* expires or the snapshots that held it are removed by others: an update keeps the
\* version it replaces, also across crashes and recorded-twice batches (S2).
VersionsKept ==
    known \subseteq excused \cup {rec[n].v : n \in {m \in Names : Live(m)}} \cup {r.v : r \in ret}

\* A sync that ends with every item done has every scanned file recorded with the
\* scanned version, whatever its attempts did before.
EveryFileRecorded ==
    run.at = "idle" /\ job.st = "done" /\ (\A i \in items : i.st = "done") =>
        \A n \in Names : cat[n] # 0 => Live(n) /\ rec[n].st # "missing" /\ rec[n].v = cat[n]
=============================================================================
