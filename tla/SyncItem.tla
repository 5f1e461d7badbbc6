------------------------------ MODULE SyncItem ------------------------------
(***************************************************************************)
(* The jobs of a filecopy destination on one path: syncs that copy, update *)
(* or retain it, verifies and retentions, with a crash or an error between *)
(* any two steps (internal/syncer: exec.go, reconcile.go, retention.go;    *)
(* internal/engines/filecopy).                                             *)
(*                                                                         *)
(* A file is [c |-> content, n |-> inode]; contents stand for size, mtime  *)
(* and hash together. The source shows version src of the file (0: none).  *)
(* Hardlinked names, moves and tiers are not in this module. Jobs of one   *)
(* destination exclude each other (JobQueue), so one job runs at a time.   *)
(***************************************************************************)
EXTENDS Integers, FiniteSets

CONSTANTS
    Jobs,           \* job ids, 1..n
    Names,          \* bound: names per path in a job's retention directory
    MaxVersion,     \* bound: versions of the source file
    Worlds,         \* the settings explored (WorldType)
    None

Slots == Jobs \X Names     \* the retained paths of the file
Partial == 0               \* the content of an unfinished temp file
Foreign == MaxVersion + 1  \* the content of a file Bunkarr did not write
Versions == 1..MaxVersion
Contents == {Partial, Foreign} \cup Versions
Files == [c : Contents, n : Nat]

\* A setting: whether the destination supports hardlinks, whether an unfinished job
\* is resumed before a later one starts, and bounds: versions of the source, ends of
\* the process during a job, failing operations of an item and of settling what it
\* left, and changes somebody else makes at the path.
WorldType == [hardlinks : BOOLEAN, inOrder : BOOLEAN, versions : Versions, crashes : Nat,
              errors : Nat, stuck : Nat, meddles : Nat]

ASSUME SyncAssumption ==
    /\ Jobs \subseteq Nat \ {0} /\ IsFiniteSet(Jobs)
    /\ Names \subseteq Nat \ {0} /\ IsFiniteSet(Names)
    /\ MaxVersion \in Nat \ {0}
    /\ \A w \in Worlds : w \in WorldType
    /\ None \notin Slots /\ None \notin Files

\* Detail (the execution state of an item), job_items, destination_files and its
\* retained rows.
Whys == {"", "replaced", "deleted", "damaged", "displaced"}
DetailType == [temp : BOOLEAN, done : BOOLEAN, tv : Contents, ret : Slots \cup {None},
               rv : Contents, rh : Contents, why : Whys, disp : Slots \cup {None}, dv : Contents]
ItemType == [act : {"put", "retain"}, st : {"pending", "done", "failed"}, d : DetailType,
             v : Contents, id : Nat]
RecType == [st : {"present", "missing"}, v : Contents, intent : Slots \cup {None}, why : Whys,
            job : Jobs, id : Nat]
RowType == [slot : Slots, v : Contents, h : Contents, why : Whys, id : Nat]

ASSUME NoneAssumption == None \notin ItemType /\ None \notin RecType

VARIABLES
    world,          \* the setting, chosen once
    src, ver,       \* the source's version now (0: no file), and the newest one so far
    live, ret, temp,\* the destination: the file at the path, in retention, each item's temp file
    rec, rows,      \* destination_files: the live record, the retained rows
    item,           \* job_items: each job's item for the path
    jobst, kind,    \* each job's state and type
    run,            \* the running job
    seen, gone,     \* history: every file that was ever at the path; those expired or taken away
    bounds

disk == <<live, ret, temp>>
base == <<rec, rows, item, jobst, kind>>
hist == <<seen, gone>>
vars == <<world, src, ver, disk, base, run, hist, bounds>>

NoDetail == [temp |-> FALSE, done |-> FALSE, tv |-> 0, ret |-> None, rv |-> 0, rh |-> 0,
             why |-> "", disp |-> None, dv |-> 0]

\* The running job: its id and program counter; x.d; what place found in retention
\* when it began (retx); whether the old version is (to be) recorded there (kept);
\* whether the path was seen free before the last rename (free); whether it holds a
\* file that settle does not know (unknown); how the item stopped; where it goes on
\* after a displacement (next); the version being copied (sv); the jobs left to sweep.
Idle == [job |-> 0, at |-> "idle", d |-> NoDetail, retx |-> FALSE, kept |-> FALSE, free |-> FALSE,
         unknown |-> FALSE, stop |-> "", next |-> "", sv |-> 0, todo |-> {}]

Init ==
    /\ world \in Worlds
    /\ src = 1 /\ ver = 1
    /\ live = None /\ ret = [s \in Slots |-> None] /\ temp = [j \in Jobs |-> None]
    /\ rec = None /\ rows = {}
    /\ item = [j \in Jobs |-> None]
    /\ jobst = [j \in Jobs |-> "new"] /\ kind = [j \in Jobs |-> "sync"]
    /\ run = Idle
    /\ seen = {} /\ gone = {}
    /\ bounds = [crashes |-> 0, errors |-> 0, stuck |-> 0, meddles |-> 0]

J == run.job
D == run.d
HasRec == rec # None
At(s) == s # None /\ ret[s] # None
RowAt(s) == \E r \in rows : r.slot = s
Row(s, v, h, why, id) == [slot |-> s, v |-> v, h |-> h, why |-> why, id |-> id]
\* insertRetained, retainedExists: recorded once.
WithRow(r) == IF RowAt(r.slot) THEN rows ELSE rows \cup {r}
Go(p) == run' = [run EXCEPT !.at = p]
\* saveDetail: the in-memory detail d becomes the item's.
Save(d) == item' = [item EXCEPT ![J].d = d]
\* RetentionTarget: the first free name in the job's directory.
FreeNames == {k \in Names : ret[<<J, k>>] = None}
RetentionTarget == <<J, CHOOSE k \in FreeNames : \A i \in FreeNames : k <= i>>
\* sameDestFile, where inode numbers identify files.
SameFile(s) == At(s) /\ ret[s] = live
\* Files still on the destination after ret becomes r and the path holds f.
Held(f, r) == {f} \cup {r[s] : s \in Slots}

-----------------------------------------------------------------------------
(* The source, and others at the destination.                              *)

SourceChanges ==
    /\ ver < world.versions
    /\ ver' = ver + 1
    /\ src' = ver + 1
    /\ UNCHANGED <<world, disk, base, run, hist, bounds>>

SourceVanishes ==
    /\ src # 0
    /\ src' = 0
    /\ UNCHANGED <<world, ver, disk, base, run, hist, bounds>>

\* Somebody puts a file where there is none, at any time, or removes the file.
Meddle ==
    /\ bounds.meddles < world.meddles
    /\ bounds' = [bounds EXCEPT !.meddles = @ + 1]
    /\ \/ /\ live = None
          /\ live' = [c |-> Foreign, n |-> bounds.meddles]
          /\ gone' = gone
       \/ /\ live # None /\ run.at = "idle"
          /\ live' = None
          /\ gone' = IF live \in Held(None, ret) THEN gone ELSE gone \cup {live}
    /\ seen' = seen \cup ({live'} \ {None})
    /\ UNCHANGED <<world, src, ver, ret, temp, base, run>>

-----------------------------------------------------------------------------
(* Jobs.                                                                   *)

\* The manager starts a new job, or resumes an unfinished one.
Start(j, k) ==
    /\ run.at = "idle"
    /\ \/ jobst[j] = "new" /\ (\A i \in Jobs : i < j => jobst[i] # "new")
          /\ (world.inOrder => \A i \in Jobs : jobst[i] # "queued")
          /\ kind' = [kind EXCEPT ![j] = k]
       \/ jobst[j] = "queued" /\ k = kind[j] /\ kind' = kind
    /\ jobst' = [jobst EXCEPT ![j] = "running"]
    \* sweep: the jobs with a directory in .bunkarr/retention and a pending item.
    /\ run' = [Idle EXCEPT !.job = j, !.at = "sweep",
                  !.todo = {i \in Jobs \ {j} : /\ \E n \in Names : ret[<<i, n>>] # None
                                               /\ item[i] # None /\ item[i].st = "pending"}]
    /\ UNCHANGED <<world, src, ver, disk, rec, rows, item, hist, bounds>>

\* The process ends; the job is queued again, or failed after too many attempts.
Crash ==
    /\ run.at # "idle" /\ bounds.crashes < world.crashes
    /\ bounds' = [bounds EXCEPT !.crashes = @ + 1]
    /\ \E st \in {"queued", "over"} : jobst' = [jobst EXCEPT ![J] = st]
    /\ run' = Idle
    /\ UNCHANGED <<world, src, ver, disk, rec, rows, item, kind, hist>>

\* The job ends in state st.
End(st) == jobst' = [jobst EXCEPT ![J] = st] /\ run' = Idle

-----------------------------------------------------------------------------
(* reconcile: sweep, then settle the intent of an earlier job.             *)

\* Mutant: the sweep records nothing that was displaced.
MutSweepDisplaced(i) ==
    /\ run.at = "sweep" /\ i \in run.todo /\ \A k \in run.todo : i <= k
    /\ Go("sweepPlaced")
    /\ UNCHANGED <<world, src, ver, disk, base, hist, bounds>>

\* sweepItem, first part: the file the stopped item displaced is recorded.
SweepDisplaced(i) ==
    /\ run.at = "sweep" /\ i \in run.todo /\ \A k \in run.todo : i <= k
    /\ LET d == item[i].d
       IN  rows' = IF At(d.disp) THEN WithRow(Row(d.disp, ret[d.disp].c, 0, "displaced", 0)) ELSE rows
    /\ Go("sweepPlaced")
    /\ UNCHANGED <<world, src, ver, disk, rec, item, jobst, kind, hist, bounds>>

\* placedTx: the path is present with the temp file's content; the old version kept.
Placed(d, kept, job) ==
    /\ rec' = [st |-> "present", v |-> d.tv, intent |-> None, why |-> "", job |-> job,
               id |-> IF HasRec THEN rec.id ELSE job]
    /\ rows' = IF kept /\ d.ret # None THEN WithRow(Row(d.ret, d.rv, d.rh, d.why, 0)) ELSE rows

\* Mutant: the sweep takes a complete temp file for a renamed one.
MutFinishedPlaced(i, d) ==
    /\ d.temp /\ d.done /\ At(d.ret)
    /\ HasRec /\ rec.intent = d.ret

\* finishPlaced: the stopped item's temp file was renamed into place.
FinishedPlaced(i, d) ==
    /\ d.temp /\ d.done /\ At(d.ret)
    /\ temp[i] = None
    /\ live # None /\ live.c = d.tv /\ ~SameFile(d.ret)
    /\ HasRec /\ rec.intent = d.ret

SweepPlaced(i) ==
    /\ run.at = "sweepPlaced" /\ i \in run.todo /\ \A k \in run.todo : i <= k
    /\ IF FinishedPlaced(i, item[i].d) THEN Placed(item[i].d, TRUE, i)
                                       ELSE UNCHANGED <<rec, rows>>
    /\ Go("sweepTemp")
    /\ UNCHANGED <<world, src, ver, disk, item, jobst, kind, hist, bounds>>

SweepTemp(i) ==
    /\ run.at = "sweepTemp" /\ i \in run.todo /\ \A k \in run.todo : i <= k
    /\ temp' = IF item[i].d.temp THEN [temp EXCEPT ![i] = None] ELSE temp
    /\ run' = [run EXCEPT !.at = "sweep", !.todo = @ \ {i}]
    /\ UNCHANGED <<world, src, ver, live, ret, base, hist, bounds>>

\* Intents are settled unless they are the job's own (its item finishes it).
SweepEnd ==
    /\ run.at = "sweep" /\ run.todo = {}
    /\ Go("settle")
    /\ UNCHANGED <<world, src, ver, disk, base, hist, bounds>>

Unsettled == HasRec /\ rec.intent # None /\ rec.intent[1] # J

\* settle, on the file system: a file that was renamed goes back to its path. It
\* then does not have to be recorded (kept), unless the rename fails.
SettleFS(next) ==
    LET s == rec.intent
    IN  /\ \/ /\ At(s) /\ live = None
              /\ live' = ret[s] /\ ret' = [ret EXCEPT ![s] = None]
              /\ run' = [run EXCEPT !.at = next, !.kept = FALSE, !.unknown = FALSE]
              /\ bounds' = bounds
           \/ /\ At(s) /\ live = None /\ bounds.stuck < world.stuck
              /\ bounds' = [bounds EXCEPT !.stuck = @ + 1]
              /\ run' = [run EXCEPT !.at = next, !.kept = TRUE, !.unknown = FALSE]
              /\ UNCHANGED <<live, ret>>
           \/ /\ ~At(s) \/ live # None
              /\ run' = [run EXCEPT !.at = next, !.kept = At(s), !.unknown = At(s) /\ ~SameFile(s)]
              /\ UNCHANGED <<live, ret, bounds>>
        /\ UNCHANGED <<world, src, ver, temp, base, hist>>

\* settle, in the database: record a file that stays in retention, with what is
\* known of it; a record whose path holds an unknown file is missing; the
\* intent is cleared.
SettleDB(h, why, next) ==
    LET s == rec.intent
    IN  /\ rec' = [rec EXCEPT !.intent = None, !.why = "", !.st = IF run.unknown THEN "missing" ELSE @]
        /\ rows' = IF run.kept /\ At(s) THEN WithRow(Row(s, ret[s].c, h, why, 0)) ELSE rows
        /\ Go(next)
        /\ UNCHANGED <<world, src, ver, disk, item, jobst, kind, hist, bounds>>

Settle == run.at = "settle" /\ Unsettled /\ SettleFS("settleDB")
SettleRecord == run.at = "settleDB" /\ SettleDB(0, rec.why, "ready")
SettleNothing ==
    /\ run.at = "settle" /\ ~Unsettled
    /\ Go("ready")
    /\ UNCHANGED <<world, src, ver, disk, base, hist, bounds>>

\* A reconcile step fails: a warning, or the job fails.
ReconcileFails ==
    /\ run.at \in {"sweepPlaced", "sweepTemp", "settle", "settleDB"} /\ bounds.stuck < world.stuck
    /\ bounds' = [bounds EXCEPT !.stuck = @ + 1]
    /\ \/ /\ run.at \in {"settle", "settleDB"} /\ Go("ready") /\ jobst' = jobst
       \/ /\ run.at \in {"sweepPlaced", "sweepTemp"} /\ jobst' = jobst
          /\ run' = [run EXCEPT !.at = "sweep", !.todo = {k \in @ : \E i \in @ : i < k}]
       \/ End("over")
    /\ UNCHANGED <<world, src, ver, disk, rec, rows, item, kind, hist>>

-----------------------------------------------------------------------------
(* The plan, and the jobs that do not copy.                                *)

\* The sync plans its item for the path: what the records and the source ask for.
PlanItem ==
    IF src # 0 THEN IF HasRec /\ rec.st = "present" /\ rec.v = src THEN "" ELSE "put"
    ELSE IF HasRec THEN "retain" ELSE ""

Plan ==
    /\ run.at = "ready" /\ kind[J] = "sync" /\ item[J] = None /\ PlanItem # ""
    /\ item' = [item EXCEPT ![J] = [act |-> PlanItem, st |-> "pending", d |-> NoDetail, v |-> src,
                                    id |-> IF HasRec THEN rec.id ELSE 0]]
    /\ UNCHANGED <<world, src, ver, disk, rec, rows, jobst, kind, run, hist, bounds>>

\* The executor takes its pending item ...
Begin ==
    /\ run.at = "ready" /\ item[J] # None /\ item[J].st = "pending"
    /\ run' = [run EXCEPT !.at = "begin", !.d = item[J].d]
    /\ UNCHANGED <<world, src, ver, disk, base, hist, bounds>>

\* recordDisplaced, if the file is in retention.
RecordDisplaced ==
    rows' = IF At(D.disp) THEN WithRow(Row(D.disp, D.dv, 0, "displaced", 0)) ELSE rows

\* ... and records what an earlier attempt displaced.
EarlierDisplace ==
    /\ run.at = "begin"
    /\ RecordDisplaced
    /\ Go(item[J].act)
    /\ UNCHANGED <<world, src, ver, disk, rec, item, jobst, kind, hist, bounds>>

NothingToDo ==
    /\ run.at = "ready" /\ kind[J] = "sync"
    /\ IF item[J] = None THEN PlanItem = "" ELSE item[J].st # "pending"
    /\ End("over")
    /\ UNCHANGED <<world, src, ver, disk, rec, rows, item, kind, hist, bounds>>

\* verify: a file that is gone, or not what the record says, is marked missing.
Verify ==
    /\ run.at = "ready" /\ kind[J] = "verify"
    /\ rec' = IF HasRec /\ rec.st = "present" /\ (live = None \/ live.c # rec.v)
              THEN [rec EXCEPT !.st = "missing"] ELSE rec
    /\ End("over")
    /\ UNCHANGED <<world, src, ver, disk, rows, item, kind, hist, bounds>>

\* Expire refuses a file of another size than the row's.
Expirable(r) == At(r.slot) => ret[r.slot].c = r.v

\* retention: the file of an expired row is deleted, ...
ExpireFile(r) ==
    /\ run.at = "ready" /\ kind[J] = "retention" /\ r \in rows /\ Expirable(r)
    /\ ret' = [ret EXCEPT ![r.slot] = None]
    /\ gone' = IF At(r.slot) /\ ret[r.slot] \notin Held(live, ret') THEN gone \cup {ret[r.slot]} ELSE gone
    /\ run' = [run EXCEPT !.at = "expired", !.d = [NoDetail EXCEPT !.ret = r.slot]]
    /\ UNCHANGED <<world, src, ver, live, temp, base, seen, bounds>>

\* ... then its row.
ExpireRow ==
    /\ run.at = "expired"
    /\ rows' = {r \in rows : r.slot # D.ret}
    /\ run' = [run EXCEPT !.at = "ready", !.d = NoDetail]
    /\ UNCHANGED <<world, src, ver, disk, rec, item, jobst, kind, hist, bounds>>

ExpireEnd ==
    /\ run.at = "ready" /\ kind[J] = "retention"
    /\ End("over")
    /\ UNCHANGED <<world, src, ver, disk, rec, rows, item, kind, hist, bounds>>

-----------------------------------------------------------------------------
(* place: make the path hold the source's content.                         *)

TempComplete == D.temp /\ D.done /\ temp[J] # None
LinkedOld == live # None /\ SameFile(D.ret)
\* The old version was renamed or hardlinked into retention, the new one is complete.
HalfDone == HasRec /\ TempComplete /\ ((At(D.ret) /\ live = None) \/ LinkedOld)
\* The temp file was renamed into place and nothing was recorded.
RenamedInto ==
    /\ D.done /\ temp[J] = None /\ live # None /\ live.c = D.tv
    /\ D.ret = None \/ (At(D.ret) /\ ~LinkedOld)

AlreadyDone == HasRec /\ rec.st = "present" /\ rec.v = src /\ live # None /\ live.c = rec.v

\* The item stops with an error: "fail" (the item fails), "fatal" (the job fails),
\* "cancel" (the job is cancelled, shut down or deferred; the item stays pending).
StopWith(how) == run' = [run EXCEPT !.at = "putBack", !.stop = how]

\* place continues from what an earlier attempt left ...
PutResumed ==
    /\ run.at = "put"
    /\ \/ /\ HalfDone
          /\ run' = [run EXCEPT !.at = "commit", !.kept = TRUE, !.free = live = None]
       \/ /\ ~HalfDone /\ RenamedInto
          /\ run' = [run EXCEPT !.at = "record", !.kept = At(D.ret)]
    /\ UNCHANGED <<world, src, ver, disk, base, hist, bounds>>

\* ... or starts the new version over from the source.
PutAnew ==
    /\ run.at = "put" /\ ~HalfDone /\ ~RenamedInto
    /\ \/ /\ src = 0
          /\ StopWith("fail") /\ temp' = temp
       \/ /\ src # 0
          /\ temp' = IF D.temp THEN [temp EXCEPT ![J] = None] ELSE temp
          /\ run' = [run EXCEPT !.at = IF AlreadyDone THEN "finish"
                                       ELSE IF ~HasRec /\ live # None THEN "way" ELSE "write",
                                !.d.temp = FALSE, !.d.done = FALSE, !.retx = At(D.ret)]
    /\ UNCHANGED <<world, src, ver, live, ret, base, hist, bounds>>

\* An unrecorded file with the source's content may be adopted (tryAdopt, recordAdopted) ...
Adopt ==
    /\ run.at = "way" /\ live.c = src
    /\ rec' = [st |-> "present", v |-> src, intent |-> None, why |-> "", job |-> J, id |-> J]
    /\ Go("finish")
    /\ UNCHANGED <<world, src, ver, disk, rows, item, jobst, kind, hist, bounds>>

\* ... any other one is displaced.
InTheWay ==
    /\ run.at = "way"
    /\ run' = [run EXCEPT !.at = "displace", !.next = "write"]
    /\ UNCHANGED <<world, src, ver, disk, base, hist, bounds>>

\* displace: an earlier displaced file is recorded and a new name chosen and saved, ...
Displace ==
    /\ run.at = "displace" /\ FreeNames # {}
    /\ LET d == IF D.disp = None \/ At(D.disp)
                THEN [D EXCEPT !.disp = RetentionTarget, !.dv = live.c] ELSE D
       IN  Save(d) /\ run' = [run EXCEPT !.at = "displaceFS", !.d = d]
    /\ RecordDisplaced
    /\ UNCHANGED <<world, src, ver, disk, rec, jobst, kind, hist, bounds>>

\* ... the file renamed there, ...
DisplaceFS ==
    /\ run.at = "displaceFS" /\ ~At(D.disp) /\ live # None
    /\ ret' = [ret EXCEPT ![D.disp] = live] /\ live' = None
    /\ Go("displaced")
    /\ UNCHANGED <<world, src, ver, temp, base, hist, bounds>>

\* ... and recorded.
Displaced ==
    /\ run.at = "displaced"
    /\ RecordDisplaced
    /\ run' = [run EXCEPT !.at = run.next, !.free = TRUE, !.kept = run.next = "commit"]
    /\ UNCHANGED <<world, src, ver, disk, rec, item, jobst, kind, hist, bounds>>

\* WriteTemp: the temp file's name is saved before it exists (OnTemp), ...
NameTemp ==
    /\ run.at = "write"
    /\ LET d == [D EXCEPT !.temp = TRUE, !.done = FALSE]
       IN  Save(d) /\ run' = [run EXCEPT !.at = "copy", !.d = d]
    /\ UNCHANGED <<world, src, ver, disk, rec, rows, jobst, kind, hist, bounds>>

\* ... then it is created; a source that is gone fails the item ...
OpenTemp ==
    /\ run.at = "copy"
    /\ IF src = 0 THEN StopWith("fail") /\ temp' = temp
       ELSE /\ temp' = [temp EXCEPT ![J] = [c |-> Partial, n |-> J]]
            /\ run' = [run EXCEPT !.at = "copying", !.sv = src]
    /\ UNCHANGED <<world, src, ver, live, ret, base, hist, bounds>>

\* ... and so does one that changed during the copy.
FillTemp ==
    /\ run.at = "copying"
    /\ IF src # run.sv THEN temp' = [temp EXCEPT ![J] = None] /\ StopWith("fail")
       ELSE /\ temp' = [temp EXCEPT ![J].c = src]
            /\ Go("copied")
    /\ UNCHANGED <<world, src, ver, live, ret, base, hist, bounds>>

\* The detail says that the temp file is complete, before anything else changes.
TempDone ==
    /\ run.at = "copied"
    /\ LET d == [D EXCEPT !.done = TRUE, !.tv = run.sv]
       IN  Save(d) /\ run' = [run EXCEPT !.at = "keep", !.d = d]
    /\ UNCHANGED <<world, src, ver, disk, rec, rows, jobst, kind, hist, bounds>>

\* Step 4 of place: what happens to the file at the path.
Keep ==
    /\ run.at = "keep"
    /\ \/ /\ ~HasRec /\ live # None         \* it appeared during the copy
          /\ StopWith("fail")
       \/ /\ HasRec /\ live # None /\ run.retx /\ ~SameFile(D.ret)
          /\ run' = [run EXCEPT !.at = "displace", !.next = "commit"]
       \/ /\ HasRec /\ live # None /\ ~run.retx
          /\ Go(IF D.ret = None THEN "choose" ELSE "intent")
       \/ /\ live = None \/ (HasRec /\ run.retx /\ SameFile(D.ret))
          /\ run' = [run EXCEPT !.at = "commit", !.kept = HasRec /\ run.retx, !.free = live = None]
    /\ UNCHANGED <<world, src, ver, disk, base, hist, bounds>>

\* oldVersion: the hash is the record's only if the file is known to be the recorded one.
Description ==
    IF rec.st = "missing" THEN [h |-> 0, why |-> "damaged"]
    ELSE [h |-> IF live.c = rec.v THEN rec.v ELSE 0,
          why |-> IF item[J].act = "put" THEN "replaced" ELSE "deleted"]

\* keepInRetention: a name and the description of the file are saved, ...
Choose ==
    /\ run.at = "choose" /\ FreeNames # {}
    /\ LET d == [D EXCEPT !.ret = RetentionTarget, !.rv = live.c,
                          !.rh = Description.h, !.why = Description.why]
       IN  Save(d) /\ run' = [run EXCEPT !.at = "intent", !.d = d]
    /\ UNCHANGED <<world, src, ver, disk, rec, rows, jobst, kind, hist, bounds>>

\* ... the record gets the retention intent (setIntentTx), ...
Intent ==
    /\ run.at = "intent"
    /\ rec' = [rec EXCEPT !.intent = D.ret, !.why = D.why]
    /\ Go("keepFS")
    /\ UNCHANGED <<world, src, ver, disk, rows, item, jobst, kind, hist, bounds>>

\* ... and the file is hardlinked or renamed; a name taken meanwhile is replaced.
KeepFS ==
    /\ run.at = "keepFS"
    /\ IF At(D.ret) THEN run' = [run EXCEPT !.at = "choose", !.d.ret = None] /\ UNCHANGED <<live, ret>>
       ELSE /\ ret' = [ret EXCEPT ![D.ret] = live]
            /\ live' = IF world.hardlinks /\ item[J].act = "put" THEN live ELSE None
            /\ run' = [run EXCEPT !.at = IF item[J].act = "put" THEN "commit" ELSE "retained",
                                  !.kept = TRUE, !.free = live' = None]
    /\ UNCHANGED <<world, src, ver, temp, base, hist, bounds>>

\* Mutant: the new version is renamed over whatever is at the path.
MutCommit ==
    /\ run.at = "commit"
    /\ live' = temp[J] /\ temp' = [temp EXCEPT ![J] = None]
    /\ seen' = seen \cup {live'}
    /\ Go("record")
    /\ UNCHANGED <<world, src, ver, ret, base, gone, bounds>>

\* Commit: the temp file is renamed into place, never over a file that appeared.
Commit ==
    /\ run.at = "commit"
    /\ IF run.free /\ live # None THEN StopWith("fail") /\ UNCHANGED <<live, temp, seen>>
       ELSE /\ live' = temp[J] /\ temp' = [temp EXCEPT ![J] = None]
            /\ seen' = seen \cup {live'}
            /\ Go("record")
    /\ UNCHANGED <<world, src, ver, ret, base, gone, bounds>>

\* recordPlaced
Record ==
    /\ run.at = "record"
    /\ Placed(D, run.kept, J)
    /\ Go("finish")
    /\ UNCHANGED <<world, src, ver, disk, item, jobst, kind, hist, bounds>>

\* finish: the item is done (or skipped).
Finish ==
    /\ run.at = "finish"
    /\ item' = [item EXCEPT ![J].st = "done"]
    /\ Go("ready")
    /\ UNCHANGED <<world, src, ver, disk, rec, rows, jobst, kind, hist, bounds>>

-----------------------------------------------------------------------------
(* retain: the name vanished from the source.                              *)

\* The record that was planned to be retained is still live.
Unchanged == HasRec /\ rec.id = item[J].id

Retain ==
    /\ run.at = "retain"
    /\ LET moved == D.ret # None /\ live = None /\ At(D.ret)
       IN  \/ /\ ~Unchanged  \* removed, or retained already
              /\ Go("finish")
           \/ /\ Unchanged /\ moved
              /\ run' = [run EXCEPT !.at = "retained", !.kept = TRUE]
           \/ /\ Unchanged /\ ~moved /\ src # 0
              /\ Go("finish")                    \* it reappeared: skipped
           \/ /\ Unchanged /\ ~moved /\ src = 0
              /\ run' = [run EXCEPT !.kept = FALSE,
                            !.at = IF live = None THEN "retained"
                                   ELSE IF D.ret = None THEN "choose" ELSE "intent"]
    /\ UNCHANGED <<world, src, ver, disk, base, hist, bounds>>

\* The record becomes the retained row (or goes, when nothing was there).
Retained ==
    /\ run.at = "retained"
    /\ rec' = None
    /\ rows' = IF run.kept THEN WithRow(Row(D.ret, D.rv, D.rh, D.why, rec.id)) ELSE rows
    /\ Go("finish")
    /\ UNCHANGED <<world, src, ver, disk, item, jobst, kind, hist, bounds>>

-----------------------------------------------------------------------------
(* Errors: runItem settles what the item left.                             *)

ExecPoints == {"begin", "put", "way", "displace", "displaceFS", "displaced", "write", "copy",
               "copying", "copied", "keep", "choose", "intent", "keepFS", "commit", "record",
               "finish", "retain", "retained"}

\* A file system or database operation fails, or the job is cancelled.
Fail(how) ==
    /\ run.at \in ExecPoints /\ bounds.errors < world.errors
    /\ bounds' = [bounds EXCEPT !.errors = @ + 1]
    /\ StopWith(how)
    /\ UNCHANGED <<world, src, ver, disk, base, hist>>

OwnIntent == D.ret # None /\ HasRec /\ rec.intent = D.ret

\* putBack: the item's intent is settled, with the item's description of the file.
PutBack == run.at = "putBack" /\ OwnIntent /\ SettleFS("putBackDB")
PutBackRecord == run.at = "putBackDB" /\ SettleDB(D.rh, D.why, "clean")
PutBackNothing ==
    /\ run.at = "putBack" /\ ~OwnIntent
    /\ Go("clean")
    /\ UNCHANGED <<world, src, ver, disk, base, hist, bounds>>

PutBackFails ==
    /\ run.at \in {"putBack", "putBackDB"} /\ OwnIntent /\ bounds.stuck < world.stuck
    /\ bounds' = [bounds EXCEPT !.stuck = @ + 1]
    /\ Go("clean")
    /\ UNCHANGED <<world, src, ver, disk, base, hist>>

\* salvage: a failed job records what its item displaced and removes its temp file.
Salvage ==
    /\ run.at = "clean" /\ run.stop = "fatal"
    /\ RecordDisplaced
    /\ temp' = IF D.temp THEN [temp EXCEPT ![J] = None] ELSE temp
    /\ End("over")
    /\ UNCHANGED <<world, src, ver, live, ret, rec, item, kind, hist, bounds>>

\* cleanupTemp keeps the new version of a half-done replacement.
CleanTemp ==
    temp' = IF D.temp /\ ~(D.done /\ D.ret # None /\ temp[J] # None /\ At(D.ret) /\ live = None)
            THEN [temp EXCEPT ![J] = None] ELSE temp

\* A cancelled job ends; a shut down or deferred one is queued again.
Cancelled ==
    /\ run.at = "clean" /\ run.stop = "cancel"
    /\ CleanTemp
    /\ \E st \in {"over", "queued"} : End(st)
    /\ UNCHANGED <<world, src, ver, live, ret, rec, rows, item, kind, hist, bounds>>

\* failItem
ItemFailed ==
    /\ run.at = "clean" /\ run.stop = "fail"
    /\ CleanTemp
    /\ item' = [item EXCEPT ![J].st = "failed"]
    /\ Go("ready")
    /\ UNCHANGED <<world, src, ver, live, ret, rec, rows, jobst, kind, hist, bounds>>

-----------------------------------------------------------------------------
Reconcile ==
    \/ \E i \in Jobs : SweepDisplaced(i) \/ SweepPlaced(i) \/ SweepTemp(i)
    \/ SweepEnd \/ Settle \/ SettleRecord \/ SettleNothing \/ ReconcileFails
Sync == Plan \/ Begin \/ EarlierDisplace \/ NothingToDo
Place ==
    \/ PutResumed \/ PutAnew \/ Adopt \/ InTheWay \/ Displace \/ DisplaceFS \/ Displaced
    \/ NameTemp \/ OpenTemp \/ FillTemp \/ TempDone
    \/ Keep \/ Choose \/ Intent \/ KeepFS \/ Commit \/ Record \/ Finish
Stop ==
    \/ \E how \in {"fail", "fatal", "cancel"} : Fail(how)
    \/ PutBack \/ PutBackRecord \/ PutBackNothing \/ PutBackFails \/ Salvage \/ Cancelled \/ ItemFailed
Other == Verify \/ (\E r \in rows : ExpireFile(r)) \/ ExpireRow \/ ExpireEnd

Next ==
    \/ SourceChanges \/ SourceVanishes \/ Meddle
    \/ \E j \in Jobs, k \in {"sync", "verify", "retention"} : Start(j, k)
    \/ Crash
    \/ Reconcile \/ Sync \/ Place \/ Retain \/ Retained \/ Stop \/ Other

Spec == Init /\ [][Next]_vars

-----------------------------------------------------------------------------
(* Properties.                                                             *)

\* A file that was once at the path is there, in retention, or was expired or taken
\* away by somebody else: no order of jobs, crashes and errors deletes one
\* (exec.go place, retain; reconcile.go settle: "Nothing is deleted").
NeverLost == \A f \in seen : f \in Held(live, ret) \cup gone

\* A retained row describes the file in its retained path: its size, and its hash
\* when it has one (exec.go oldVersion).
RowsTruthful ==
    \A r \in rows : At(r.slot) => ret[r.slot].c = r.v /\ r.h \in {0, ret[r.slot].c}

\* The same while unfinished jobs are resumed before later ones start and nobody
\* else touched the path, with crashes and failures anywhere.
RowsTruthfulInOrder == world.inOrder /\ bounds.meddles = 0 => RowsTruthful

\* A present record without a retention intent has its content at the path, whatever
\* was interrupted (reconcile.go, "no record says present while its file is in
\* retention"). Not so when somebody else touches the path, when a file cannot be
\* moved back, and while an item goes on from its hardlink although its intent was
\* settled meanwhile (by its own putBack, or by another job that ran first).
RecordTruthful ==
    /\ HasRec /\ rec.st = "present" /\ rec.intent = None
    /\ bounds.meddles = 0 /\ bounds.stuck = 0
    /\ world.inOrder /\ (world.hardlinks => bounds.errors = 0)
    => live # None /\ live.c = rec.v

\* Once a job reconciled, every file in the retention directories of other jobs is
\* recorded (reconcile.go, "nothing stays unrecorded in retention"), while no
\* operation failed and nobody else touched the path: crashes, in any number and
\* anywhere, leave nothing behind that the next job does not record.
SettledAfterCrashes ==
    run.at = "ready" /\ bounds.errors = 0 /\ bounds.stuck = 0 /\ bounds.meddles = 0
        => \A s \in Slots : At(s) /\ s[1] # J => RowAt(s)

\* A copy that is done recorded a version at least as new as the one it was planned
\* for, whatever its earlier attempts left (exec.go place), unless it was resumed
\* after a later job.
DoneIsRecorded ==
    world.inOrder /\ run.at = "ready" /\ item[J] # None /\ item[J].st = "done" /\ item[J].act = "put"
        => HasRec /\ rec.v >= item[J].v

\* What the database says of the destination is true: the record of the path, the rows of the
\* retained files, and the items that are done.
DatabaseTruthful == RecordTruthful /\ RowsTruthfulInOrder /\ DoneIsRecorded
=============================================================================
