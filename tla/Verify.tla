------------------------------- MODULE Verify -------------------------------
(***************************************************************************)
(* Verify jobs of the three engines (internal/syncer/verify.go for         *)
(* filecopy, internal/enginerun/verify.go for restic and rclone): plan,    *)
(* the check of each item, and the marks it makes on the records.          *)
(*                                                                         *)
(* The source changes at any time, objects are damaged or taken away at    *)
(* any time, the process ends between a mark and the end of its item, a    *)
(* window closes between items, and a sync may run before the deferred job *)
(* goes on. The repository check of restic is in ResticLocks, the settling *)
(* of rclone's intents in RcloneSync.                                      *)
(***************************************************************************)
EXTENDS Integers, FiniteSets, FiniteSetsExt, Sequences, SequencesExt

CONSTANTS Names, Worlds, None

VARIABLES
    world, used,    \* the settings [kind, mode, twins, sample, ...] and bounds; what is used of them
    src, newest,    \* the source: version of each name (0: none)
    obj,            \* content of each file at the destination: [c, ino]; c a version, or one of Broken
    rec,            \* live records: [st, v, link, seen]; seen: order of verified_at (0: NULL)
    job, items,     \* [st, planned]; [n, check, v, retry, st]
    run,            \* [at, item, batch, bad]
    hist            \* history: [wrong, broken]

vars == <<world, used, src, newest, obj, rec, job, items, run, hist>>

Gone == -1
Short == -2     \* another size
Bad == -3       \* the size is right, the content is not (restic: a damaged pack)
Broken == {Gone, Short, Bad}

Filecopy == world.kind = "filecopy"
Idle == [at |-> "idle", item |-> None, batch |-> {}, bad |-> FALSE]
Use(what) == used[what] < world[what] /\ used' = [used EXCEPT ![what] = @ + 1]
At(step) == run' = [run EXCEPT !.at = step]
Content(n) == obj[n].c
Intact(n) == Content(n) = rec[n].v

Init ==
    /\ world \in Worlds
    /\ used = [changes |-> 0, breaks |-> 0, stops |-> 0, errors |-> 0, syncs |-> 0, jobs |-> 0]
    /\ src = [n \in Names |-> 1] /\ newest = 1
    /\ obj = [n \in Names |-> [c |-> 1, ino |-> IF world.twins THEN 1 ELSE n]]
    /\ \E lost \in SUBSET IF world.missing THEN Names \ {1} ELSE {} :
          rec = [n \in Names |-> [st |-> CASE n \in lost -> "missing" [] world.twins /\ n > 1 -> "linked" [] OTHER -> "present",
                                  v |-> 1, link |-> IF world.twins /\ n > 1 THEN 1 ELSE 0, seen |-> 0]]
    /\ job = [st |-> "ended", planned |-> FALSE] /\ items = {}
    /\ run = Idle
    /\ hist = [wrong |-> {}, broken |-> {}]

-----------------------------------------------------------------------------
(* The source, the destination, and syncs between the attempts.            *)

SourceChanges ==
    /\ Use("changes") /\ newest' = newest + 1
    /\ \E n \in Names, v \in {0, newest + 1} : src' = [src EXCEPT ![n] = v]
    /\ UNCHANGED <<world, obj, rec, job, items, run, hist>>

Break ==
    /\ Use("breaks")
    /\ \E n \in Names, c \in Broken :
          obj' = [m \in Names |-> IF m = n \/ (c # Gone /\ obj[m].ino = obj[n].ino) THEN [obj[m] EXCEPT !.c = c] ELSE obj[m]]
    /\ UNCHANGED <<world, src, newest, rec, job, items, run, hist>>

\* A sync before the job goes on: changed and missing files are copied anew.
Sync ==
    /\ run.at = "idle" /\ Use("syncs")
    /\ LET S == {n \in Names : src[n] # 0 /\ (rec[n].st = "missing" \/ rec[n].v # src[n])}
       IN /\ rec' = [n \in Names |-> IF n \in S THEN [rec[n] EXCEPT !.st = "present", !.v = src[n], !.link = 0, !.seen = 0] ELSE rec[n]]
          /\ obj' = [n \in Names |-> IF n \in S THEN [c |-> src[n], ino |-> 10 + n] ELSE obj[n]]
          /\ hist' = [hist EXCEPT !.broken = @ \ S]
    /\ UNCHANGED <<world, src, newest, job, items, run>>

\* The process ends, a window closes between two items, or an error that is not an
\* item's ends the job.
Stop ==
    /\ run.at # "idle" /\ Use("stops")
    /\ \E st \in {"queued", "ended"} : job' = [job EXCEPT !.st = st]
    /\ run' = Idle
    /\ UNCHANGED <<world, src, newest, obj, rec, items, hist>>

-----------------------------------------------------------------------------
(* The plan.                                                               *)

Begin ==
    /\ run.at = "idle"
    /\ \/ job.st = "queued" /\ job' = [job EXCEPT !.st = "running"] /\ UNCHANGED <<items, used>>
       \/ job.st # "queued" /\ Use("jobs") /\ job' = [st |-> "running", planned |-> FALSE] /\ items' = {}
    /\ At(IF job'.planned THEN "execute" ELSE "plan")
    /\ UNCHANGED <<world, src, newest, obj, rec, hist>>

Limit(k) == IF world.mode = "full" THEN k ELSE IF world.mode = "off" THEN 0 ELSE Min({k, world.sample})
FirstOf(sorted, k) == {sorted[i] : i \in 1..Min({k, Len(sorted)})}
Earlier(a, b) == rec[a].seen < rec[b].seen \/ (rec[a].seen = rec[b].seen /\ a < b)

\* plan of syncer/verify.go: a stat of every file, the sample by verified_at.
Item(n, check) == [n |-> n, check |-> check, v |-> rec[n].v, retry |-> rec[n].st = "missing", st |-> "pending"]
Checkable == {n \in Names : rec[n].st \in {"present", "linked"}}
StatProblem(n) == Content(n) \in {Gone, Short}
FilecopyItems ==
    LET sample == FirstOf(SetToSortSeq(Checkable, Earlier), Limit(Cardinality(Checkable)))
    IN {Item(n, "stat") : n \in {m \in Checkable : StatProblem(m)}} \cup {Item(n, "hash") : n \in {m \in sample : ~StatProblem(m)}}

\* VerifyCandidates: missing records first; planSample takes those whose source still
\* has the recorded version.
Candidate(a, b) ==
    IF (rec[a].st = "missing") # (rec[b].st = "missing") THEN rec[a].st = "missing" ELSE Earlier(a, b)
Population == {n \in Names : rec[n].st = "present" /\ rec[n].link = 0}
PlanSample ==
    LET cands == {n \in Names : rec[n].st \in {"present", "missing"} /\ rec[n].link = 0 /\ src[n] = rec[n].v}
    IN {Item(n, "sample") : n \in FirstOf(SetToSortSeq(cands, Candidate), Limit(Cardinality(Population)))}

Plan ==
    /\ run.at = "plan"
    /\ items' = CASE Filecopy -> FilecopyItems
                  [] world.kind = "restic" -> PlanSample
                  [] OTHER -> PlanSample \cup {[n |-> 0, check |-> "listing", v |-> 0, retry |-> FALSE, st |-> "pending"]}
    /\ job' = [job EXCEPT !.planned = TRUE]
    /\ hist' = [hist EXCEPT !.broken = {n \in Checkable : Content(n) \in Broken}]
    /\ At("execute")
    /\ UNCHANGED <<world, used, src, newest, obj, rec>>

-----------------------------------------------------------------------------
(* Items.                                                                  *)

Pending == {i \in items : i.st = "pending"}
Finish(S, st) == items' = (items \ S) \cup {[i EXCEPT !.st = st] : i \in S}
Missing(S) == [n \in Names |-> IF n \in S THEN [rec[n] EXCEPT !.st = "missing"] ELSE rec[n]]
\* What a mark claims of the records: a version that is there is not missing.
Marked(S) == hist' = [hist EXCEPT !.wrong = @ \cup {n \in S : Intact(n)}]

\* verifyItem of syncer/verify.go. Only what is gone or differs is marked; a file that
\* cannot be read fails its item.
VerifyItem ==
    /\ run.at = "execute" /\ Filecopy
    /\ \E i \in Pending :
          /\ \A j \in Pending : i.n <= j.n
          /\ LET r == rec[i.n]
                 problem == IF i.check = "stat" THEN StatProblem(i.n) ELSE ~Intact(i.n)
             IN \/ /\ r.st = "missing" /\ run' = [run EXCEPT !.at = "shared", !.item = i]
                   /\ UNCHANGED <<used, rec, items, hist>>
                \/ /\ r.st # "missing" /\ problem /\ rec' = Missing({i.n}) /\ Marked({i.n})
                   /\ run' = [run EXCEPT !.at = "shared", !.item = i]
                   /\ UNCHANGED <<used, items>>
                \/ /\ r.st # "missing" /\ ~problem /\ Finish({i}, "done")
                   /\ rec' = IF i.check = "stat" THEN rec ELSE [rec EXCEPT ![i.n].seen = 1 + Max({rec[m].seen : m \in Names})]
                   /\ UNCHANGED <<used, run, hist>>
                \/ /\ r.st # "missing" /\ Use("errors") /\ Finish({i}, "unchecked")
                   /\ UNCHANGED <<rec, run, hist>>
    /\ UNCHANGED <<world, src, newest, obj, job>>

\* markSharedInode: the primary of a damaged hardlink that is the same file.
MarkSharedInode ==
    LET n == run.item.n
        p == rec[n].link
        same == p # 0 /\ rec[p].st = "present" /\ Gone \notin {Content(n), Content(p)} /\ obj[n].ino = obj[p].ino
    IN /\ rec' = IF same THEN Missing({p}) ELSE rec
       /\ Marked(IF same THEN {p} ELSE {})
       /\ At("finish")
Shared ==
    /\ run.at = "shared" /\ MarkSharedInode
    /\ UNCHANGED <<world, used, src, newest, obj, job, items>>

FailMarked ==
    /\ run.at = "finish"
    /\ Finish({run.item}, "failed")
    /\ run' = IF run.batch = {} THEN [Idle EXCEPT !.at = "execute"] ELSE [run EXCEPT !.at = "compare", !.item = None]
    /\ UNCHANGED <<world, used, src, newest, obj, rec, job, hist>>

\* rclone check compares with the source as it is now: when that is no longer the recorded
\* version, also an intact record is marked. restic's sample is skipped then.
Outdated(i) == world.kind = "rclone" /\ src[i.n] # rec[i.n].v
\* markSample: a match sets verified_at and makes a missing record present again.
Changed(i) == rec[i.n].v # i.v
MarkSample(i, match) ==
    \/ Changed(i) /\ Finish({i}, "skipped") /\ run' = [run EXCEPT !.batch = @ \ {i}] /\ UNCHANGED <<rec, hist>>
    \/ /\ ~Changed(i) /\ match /\ Finish({i}, "done")
       /\ rec' = [rec EXCEPT ![i.n] = [@ EXCEPT !.st = "present", !.seen = 1 + Max({rec[m].seen : m \in Names})]]
       /\ run' = [run EXCEPT !.batch = @ \ {i}] /\ UNCHANGED hist
    \/ /\ ~Changed(i) /\ ~match
       /\ rec' = Missing({i.n}) /\ Marked(IF Outdated(i) THEN {} ELSE {i.n}) /\ UNCHANGED items
       /\ run' = [run EXCEPT !.batch = @ \ {i}, !.at = "finish", !.item = i]

\* resticSample: the sample is restored from the base; some of it may not fit, an
\* unreachable repository or a full staging directory ends the job (Stop), a restore
\* that failed for some files only goes on.
Restore ==
    /\ run.at = "execute" /\ world.kind = "restic" /\ Pending # {}
    /\ \E left \in SUBSET Pending :
          /\ left # {} => Use("errors")
          /\ left = {} => UNCHANGED used
          /\ Finish(left, "skipped")
          /\ run' = [run EXCEPT !.at = IF left = Pending THEN "execute" ELSE "compare", !.batch = Pending \ left]
    /\ UNCHANGED <<world, src, newest, obj, rec, job, hist>>

\* sourceHash: only a source that still has the version is compared.
MutSourceSame(i) == src[i.n] # 0
SourceSame(i) == src[i.n] = i.v
Compare ==
    /\ run.at = "compare" /\ world.kind = "restic" /\ run.batch # {}
    /\ \E i \in run.batch :
          IF ~SourceSame(i) THEN Finish({i}, "skipped") /\ run' = [run EXCEPT !.batch = @ \ {i}] /\ UNCHANGED <<rec, hist>>
          ELSE MarkSample(i, Content(i.n) = src[i.n])
    /\ UNCHANGED <<world, used, src, newest, obj, job>>

\* rcloneListing: one transaction marks every present record whose object is gone or
\* has another size; an error of the listing ends the job (Stop).
Listing ==
    /\ run.at = "execute" /\ world.kind = "rclone"
    /\ \E i \in Pending :
          /\ i.check = "listing"
          /\ LET bad == {n \in Names : rec[n].st = "present" /\ Content(n) \in {Gone, Short}}
             IN /\ rec' = Missing(bad) /\ Marked(bad)
                /\ run' = [run EXCEPT !.at = "listed", !.item = i, !.bad = bad # {}]
    /\ UNCHANGED <<world, used, src, newest, obj, job, items>>

Listed ==
    /\ run.at = "listed"
    /\ Finish({run.item}, IF run.bad THEN "failed" ELSE "done")
    /\ run' = [Idle EXCEPT !.at = "execute"]
    /\ UNCHANGED <<world, used, src, newest, obj, rec, job, hist>>

\* rcloneSample: what the listing marked is not compared; rclone check marks each file
\* against the source as it is now, or not at all.
MarkedThisJob(i) == ~i.retry /\ rec[i.n].st = "missing"
Check ==
    /\ run.at = "execute" /\ world.kind = "rclone" /\ Pending # {} /\ \A i \in Pending : i.check = "sample"
    /\ LET skip == {i \in Pending : MarkedThisJob(i)}
       IN Finish(skip, "skipped") /\ run' = [run EXCEPT !.at = IF skip = Pending THEN "execute" ELSE "compare", !.batch = Pending \ skip]
    /\ UNCHANGED <<world, used, src, newest, obj, rec, job, hist>>

CompareCombined ==
    /\ run.at = "compare" /\ world.kind = "rclone"
    /\ \E i \in run.batch :
          \/ /\ src[i.n] # 0 /\ Content(i.n) = src[i.n] /\ UNCHANGED used
             /\ IF SourceSame(i) THEN MarkSample(i, TRUE)
                ELSE Finish({i}, "skipped") /\ run' = [run EXCEPT !.batch = @ \ {i}] /\ UNCHANGED <<rec, hist>>
          \/ src[i.n] # 0 /\ Content(i.n) # src[i.n] /\ UNCHANGED used /\ MarkSample(i, FALSE)
          \/ /\ IF src[i.n] = 0 THEN UNCHANGED used ELSE Use("errors")
             /\ Finish({i}, "unchecked") /\ run' = [run EXCEPT !.batch = @ \ {i}] /\ UNCHANGED <<rec, hist>>
    /\ UNCHANGED <<world, src, newest, obj, job>>

Compared ==
    /\ run.at = "compare" /\ run.batch = {}
    /\ run' = [Idle EXCEPT !.at = "execute"]
    /\ UNCHANGED <<world, used, src, newest, obj, rec, job, items, hist>>

Done ==
    /\ run.at = "execute" /\ Pending = {}
    /\ job' = [job EXCEPT !.st = "done"] /\ run' = Idle
    /\ UNCHANGED <<world, used, src, newest, obj, rec, items, hist>>

Next ==
    \/ SourceChanges \/ Break \/ Sync \/ Stop
    \/ Begin \/ Plan \/ VerifyItem \/ Shared \/ FailMarked \/ Restore \/ Compare
    \/ Listing \/ Listed \/ Check \/ CompareCombined \/ Compared \/ Done

Spec == Init /\ [][Next]_vars

-----------------------------------------------------------------------------
(* Properties.                                                             *)

\* A verify marks a record missing only when its file is gone or damaged, or when rclone
\* compared it with a source that no longer has the recorded version. Of filecopy and restic,
\* and by rclone's listing, no change of the source marks an intact record, and of no engine
\* does an unreachable or partly restored repository, a sync or a resumed job (markSample,
\* sourceHash, partialRestore, markedThisJob).
MissingIsDamaged == hist.wrong = {}

\* When a verify is done, every file that was damaged when it planned is marked, if the
\* job was to find it and could read it: a filecopy file that is gone or has another
\* size, all content in full mode, the primary of a hardlink that was found damaged;
\* an rclone object that is
\* gone or has another size. Attempts that stopped between a mark and the end of its
\* item do not change that.
DamageFound ==
    job.st = "done" /\ run.at = "idle" =>
        \A n \in hist.broken :
            \/ rec[n].st \notin {"present", "linked"}
            \/ \E i \in items : i.n = n /\ i.st \in {"unchecked", "skipped"}
            \/ ~(\/ Filecopy /\ (Content(n) \in {Gone, Short} \/ world.mode = "full")
                 \/ Filecopy /\ Content(n) # Gone /\ (\E i \in items : i.st = "failed" /\ i.n # n /\ rec[i.n].link = n /\ obj[i.n] = obj[n])
                 \/ world.kind = "rclone" /\ rec[n].st = "present" /\ Content(n) \in {Gone, Short})
=============================================================================
