----------------------------- MODULE RcloneSync -----------------------------
(***************************************************************************)
(* Syncs of an rclone destination (internal/enginerun: rclone_sync.go,     *)
(* rclone_copy.go, rclone_retain.go, rclone_reconcile.go; the store in     *)
(* internal/syncer/store_engine.go, engine_store_ext.go). The names of one *)
(* folder of one source, with the planner of PlanRules, one job at a time  *)
(* (JobQueue). A server-side move is a copy and a delete of which the      *)
(* second may not happen, and the process may end between any two steps.   *)
(*                                                                         *)
(* An object is its version (size and mtime) and whether its content is    *)
(* intact; version 0 is an object of somebody else. A retention path is    *)
(* <<name, job, number>>. Windows, rates and the size of a batch are left  *)
(* open: a batch is any set of the pending copies.                         *)
(***************************************************************************)
EXTENDS Integers, FiniteSets, FiniteSetsExt

CONSTANTS
    Names,      \* the names, numbers in path order
    Jobs,       \* bound: syncs, 1..n
    Numbers,    \* bound: numbered retention names, 0..n
    Worlds,     \* the settings explored
    None

VARIABLES
    world,      \* bounds of this behaviour, chosen once
    src, twins, \* the source: the version of each name (0: none); the names of one inode
    newest,     \* the newest version so far
    cat,        \* the catalog: the source as of the last scan
    remote,     \* the object at each live and retention path
    rec, rows,  \* destination_files: live records by name, retained rows
    job,        \* the running or last job
    items,      \* its items
    run,        \* where it is
    ever,       \* history: every object that was ever there
    excused,    \* history: names whose record nobody checks again, and why
    used        \* faults so far

vars == <<world, src, twins, newest, cat, remote, rec, rows, job, items, run, ever, excused, used>>
source == <<src, twins, newest, cat>>
hist == <<ever, excused>>

P == INSTANCE PlanRules

L(n) == <<n, 0, 0>>
Paths == {L(n) : n \in Names} \cup (Names \X Jobs \X Numbers)
Foreign == 0
Obj(v) == [v |-> v, ok |-> TRUE]

\* The running job: its step, the item, the retention path and the names of a move,
\* what follows it, the names of the batch, how the transfer ended, and the names
\* still to settle or to reconcile.
Idle == [at |-> "idle", kind |-> "sync", it |-> None, dst |-> None, from |-> None, to |-> None, back |-> "",
         batch |-> {}, cut |-> "no", todo |-> {}]

Init ==
    /\ world \in Worlds
    /\ src = [n \in Names |-> IF n = 1 \/ world.twins THEN 1 ELSE 0]
    /\ twins = IF world.twins THEN Names ELSE {}
    /\ newest = 1
    /\ cat = [n \in Names |-> 0]
    /\ remote = [p \in Paths |-> None]
    /\ rec = [n \in Names |-> None] /\ rows = {}
    /\ job = [id |-> 0, st |-> "ended"]
    /\ items = {}
    /\ run = Idle
    /\ ever = {} /\ excused = {}
    /\ used = [stops |-> 0, faults |-> 0, halves |-> 0, foreign |-> 0, damage |-> 0, robs |-> 0, expiries |-> 0]

Live(n) == rec[n] # None
Rec(id, st, v, link) == [id |-> id, st |-> st, v |-> v, link |-> link, job |-> job.id, to |-> None, why |-> ""]
At(step) == run' = [run EXCEPT !.at = step]
Item == CHOOSE i \in items : i.key = run.it
OfName(n) == CHOOSE i \in items : i.key \in {<<"copy", n>>, <<"update", n>>}
SetItem(i, f) == items' = (items \ {i}) \cup {f}
Pending == {i \in items : i.st = "pending"}
Dependents(n) == {d \in Names : Live(d) /\ rec[d].link = n}

-----------------------------------------------------------------------------
(* The source and others at the destination.                               *)

SourceChanges ==
    /\ newest < world.versions
    /\ newest' = newest + 1
    /\ \/ \E n \in Names : src' = [src EXCEPT ![n] = newest + 1] /\ twins' = twins \ {n}
       \/ twins # {} /\ src' = [n \in Names |-> IF n \in twins THEN newest + 1 ELSE src[n]] /\ twins' = twins
       \/ \E n \in Names : src[n] # 0 /\ src' = [src EXCEPT ![n] = 0] /\ twins' = twins \ {n}
       \/ \E n, m \in Names :
             /\ src[n] # 0 /\ src[m] = 0
             /\ src' = [src EXCEPT ![n] = 0, ![m] = src[n]]
             /\ twins' = IF n \in twins THEN (twins \ {n}) \cup {m} ELSE twins
    /\ UNCHANGED <<world, cat, remote, rec, rows, job, items, run, hist, used>>

\* Somebody puts an object at a live path, between jobs.
Meddle ==
    /\ run.at = "idle"
    /\ used.foreign < world.foreign /\ used' = [used EXCEPT !.foreign = @ + 1]
    /\ \E n \in Names :
          /\ remote[L(n)] = None
          /\ remote' = [remote EXCEPT ![L(n)] = Obj(Foreign)]
    /\ ever' = ever \cup {Obj(Foreign)}
    /\ UNCHANGED <<world, source, rec, rows, job, items, run, excused>>

\* An object is removed by hand between jobs.
Rob ==
    /\ used.robs < world.robs /\ used' = [used EXCEPT !.robs = @ + 1]
    /\ run.at = "idle"
    /\ \E n \in Names :
          /\ remote[L(n)] # None
          /\ remote' = [remote EXCEPT ![L(n)] = None]
          /\ excused' = excused \cup {<<"removed", n>>}
          /\ ever' = ever \ {remote[L(n)]}
    /\ UNCHANGED <<world, source, rec, rows, job, items, run>>

\* The content of an object rots (size and mtime stay) and a verify marks its record.
VerifyDamaged ==
    /\ used.damage < world.damage /\ used' = [used EXCEPT !.damage = @ + 1]
    /\ run.at = "idle" /\ job.st # "queued"
    /\ \E n \in Names :
          /\ Live(n) /\ rec[n].st = "present" /\ rec[n].to = None
          /\ remote[L(n)] # None /\ remote[L(n)].v = rec[n].v
          /\ remote' = [remote EXCEPT ![L(n)].ok = FALSE]
          /\ rec' = [rec EXCEPT ![n].st = "missing"]
          /\ ever' = (ever \ {remote[L(n)]}) \cup {[remote[L(n)] EXCEPT !.ok = FALSE]}
    /\ UNCHANGED <<world, source, rows, job, items, run, excused>>

-----------------------------------------------------------------------------
(* The job.                                                                *)

\* The manager starts a new sync, or the unfinished one again.
Begin ==
    /\ run.at = "idle"
    /\ \/ job.st = "queued" /\ job' = [job EXCEPT !.st = "running"] /\ items' = items
       \/ /\ job.st # "queued" /\ job.id + 1 \in Jobs
          /\ job' = [id |-> job.id + 1, st |-> "running"] /\ items' = {}
    /\ run' = [Idle EXCEPT !.at = "reconcile", !.todo = {n \in Names : Live(n) /\ rec[n].to # None}]
    /\ UNCHANGED <<world, source, remote, rec, rows, hist, used>>

\* The end of the process or a shutdown (the job is queued again), a cancel, or an
\* error that is not an item's: the steps done so far stay.
Stop ==
    /\ run.at \notin {"idle", "settle"}
    /\ used.stops < world.stops /\ used' = [used EXCEPT !.stops = @ + 1]
    /\ \E st \in {"queued", "ended"} :
          /\ job' = IF run.kind = "sync" THEN [job EXCEPT !.st = st] ELSE job
          /\ excused' = IF st = "ended" /\ run.at \in {"promoteRecord", "moveRecord"}
                          THEN excused \cup {<<"cancelled", Item.n>>, <<"cancelled", Item.from>>} ELSE excused
    /\ run' = Idle
    /\ UNCHANGED <<world, source, remote, rec, rows, items, ever>>

\* Also a process end between the transfer of a batch and its settling.
StopUnsettled ==
    /\ run.at = "settle"
    /\ used.stops < world.stops /\ used' = [used EXCEPT !.stops = @ + 1]
    /\ job' = [job EXCEPT !.st = "queued"]
    /\ run' = Idle
    /\ UNCHANGED <<world, source, remote, rec, rows, items, hist>>

\* A retained row; seq is its retained_at.
Row(p, n, why) ==
    [at |-> p, rel |-> n, why |-> why, v |-> remote[p].v, job |-> IF run.kind = "sync" THEN job.id ELSE 0,
     seq |-> 1 + Max({0} \cup {r.seq : r \in rows})]
\* InsertRetainedTx: a row of the same path is reused.
WithRow(p, n, why) == IF \E r \in rows : r.at = p THEN rows ELSE rows \cup {Row(p, n, why)}
ClearIntent(r) == [r EXCEPT !.to = None, !.why = ""]
MarkMissing(r) == [r EXCEPT !.st = IF @ \in {"present", "linked"} THEN "missing" ELSE @]
\* RecordContentTx: the record takes the version and loses its intent.
RecordContent(n, v) == Rec(IF Live(n) THEN rec[n].id ELSE <<n, job.id>>, "present", v, 0)

\* RetainTx refuses a record that live hardlinks depend on.
IsUpdate(r) == r.why \in {"replaced", "damaged"}

\* reconcile: what a stopped job left of a retention move, by what is where.
Reconcile ==
    /\ run.at = "reconcile" /\ run.todo # {}
    /\ LET n == Min(run.todo)
           r == rec[n]
           atLive == remote[L(n)] # None
           atRet == remote[r.to] # None
           current == IsUpdate(r) /\ cat[n] # 0 /\ atLive /\ remote[L(n)].v = cat[n]
       IN /\ rows' = IF atRet THEN WithRow(r.to, n, r.why) ELSE rows
          /\ rec' = [rec EXCEPT ![n] =
                CASE atRet /\ ~atLive /\ ~IsUpdate(r) ->
                        IF Dependents(n) = {} THEN None ELSE MarkMissing(ClearIntent(r))
                  [] atRet /\ ~atLive -> MarkMissing(ClearIntent(r))
                  [] atRet /\ atLive  -> IF ~IsUpdate(r) THEN ClearIntent(r)
                                         ELSE IF current THEN RecordContent(n, cat[n])
                                         ELSE MarkMissing(ClearIntent(r))
                  [] atLive           -> ClearIntent(r)
                  [] OTHER            -> MarkMissing(ClearIntent(r))]
          /\ run' = [run EXCEPT !.todo = @ \ {n}]
    /\ UNCHANGED <<world, source, remote, job, items, hist, used>>

\* Planner.Plan: a stored plan is kept; a new one scans first.
PlanInput(files) ==
    [files |-> [n \in {m \in Names : files[m] # 0} |->
                   [v |-> files[n], grp |-> IF n \in twins THEN 1 ELSE 0, full |-> TRUE, replaced |-> FALSE, unknown |-> FALSE]],
     recs |-> [n \in {m \in Names : Live(m)} |-> [st |-> rec[n].st, v |-> rec[n].v, link |-> rec[n].link]],
     dir |-> [n \in Names |-> 0], targeted |-> FALSE, updateKept |-> FALSE, size |-> [v \in 0..newest |-> 1],
     there |-> [n \in Names |-> -1], adopt |-> FALSE, release |-> {}]

ToItem(in, it) ==
    [key |-> P!Key(it), n |-> it.rel, from |-> it.from, v |-> it.v, for |-> it.why,
     id |-> IF it.rec \in Names /\ Live(it.rec) THEN rec[it.rec].id ELSE None,
     phase |-> P!Phase(in, it), st |-> "pending", disp |-> None, cuts |-> 0]

Plan ==
    /\ run.at = "reconcile" /\ run.todo = {} /\ run.kind = "sync"
    /\ IF items # {} THEN UNCHANGED <<items, cat>>
       ELSE /\ cat' = src
            /\ LET in == PlanInput(src) IN items' = {ToItem(in, it) : it \in P!Items(in)}
    /\ At("next")
    /\ UNCHANGED <<world, src, twins, newest, remote, rec, rows, job, hist, used>>

\* execute: promotes, moves, copies in batches, links, retains. When no item is
\* left the job is done.
Finish ==
    /\ run.at = "next" /\ Pending = {}
    /\ job' = [job EXCEPT !.st = "done"]
    /\ run' = Idle
    /\ UNCHANGED <<world, source, remote, rec, rows, items, hist, used>>

Earliest(S) == CHOOSE i \in S : \A k \in S : i.phase < k.phase \/ (i.phase = k.phase /\ i.n <= k.n)
First == Earliest(Pending)
Puts == IF Pending = {} \/ First.phase \notin {3, 4} THEN {} ELSE {i \in Pending : i.phase \in {3, 4}}

\* step: the item begins; its action's steps follow. Copies go to copyItems.
Step ==
    /\ run.at = "next" /\ Pending # {} /\ First.phase \in {1, 2, 5}
    /\ run' = [Idle EXCEPT !.at = First.key[1], !.it = First.key]
    /\ UNCHANGED <<world, source, remote, rec, rows, job, items, hist, used>>

\* The item ends: done, failed or skipped.
Ends(st) == SetItem(Item, [Item EXCEPT !.st = st]) /\ At("next")
ItemDone ==
    /\ run.at = "itemDone"
    /\ Ends("done")
    /\ UNCHANGED <<world, source, remote, rec, rows, job, hist, used>>

-----------------------------------------------------------------------------
(* moveTo and what uses it.                                                *)

\* moveTo: the object arrives and leaves; arrives and does not leave, with an error
\* or without one; or neither, with an error. After an error the item fails.
MoveTo(f, t, then) ==
    \/ /\ remote' = [remote EXCEPT ![t] = remote[f], ![f] = None]
       /\ At(then) /\ UNCHANGED <<items, used>>
    \/ /\ used.halves < world.halves /\ used' = [used EXCEPT !.halves = @ + 1]
       /\ remote' = [remote EXCEPT ![t] = remote[f]]
       /\ \/ At(then) /\ items' = items
          \/ Ends("failed")
    \/ /\ used.faults < world.faults /\ used' = [used EXCEPT !.faults = @ + 1]
       /\ Ends("failed") /\ remote' = remote

FreeNumbers(n) == {k \in Numbers : remote[<<n, job.id, k>>] = None}

\* Mutant: the plain name, taken or not.
MutFreeRetention(n) == <<n, job.id, 0>>

\* freeRetention: the plain name, or the first free numbered one.
FreeRetention(n) == <<n, job.id, Min(FreeNumbers(n))>>

\* displace: the retention name goes into the item's detail first.
DisplaceIntent ==
    /\ run.at = "displace" /\ FreeNumbers(run.from) # {}
    /\ LET dst == FreeRetention(run.from) IN
       /\ SetItem(Item, [Item EXCEPT !.disp = dst])
       /\ run' = [run EXCEPT !.at = "dispMove", !.dst = dst]
    /\ UNCHANGED <<world, source, remote, rec, rows, job, hist, used>>

DisplaceMove ==
    /\ run.at = "dispMove"
    /\ MoveTo(L(run.from), run.dst, "dispRecord")
    /\ UNCHANGED <<world, source, rec, rows, job, hist>>

\* recordDisplaced: the row, and the detail's intent goes; what could not be moved
\* out of the way fails the item.
RecordDisplaced ==
    /\ run.at = "dispRecord"
    /\ rows' = IF remote[run.dst] # None THEN WithRow(run.dst, run.from, "displaced") ELSE rows
    /\ LET i == [Item EXCEPT !.disp = None] IN
       IF remote[L(run.from)] # None
         THEN SetItem(Item, [i EXCEPT !.st = "failed"]) /\ At("next")
         ELSE SetItem(Item, i) /\ At(run.back)
    /\ UNCHANGED <<world, source, remote, rec, job, hist, used>>

Displace(n, then) == run' = [run EXCEPT !.at = "displace", !.from = n, !.back = then]

\* What a promote and a move find in the records before they look at the destination.
Dependent(i) ==
    Live(i.n) /\ rec[i.n].link = i.from /\ rec[i.n].st = "link_recorded" /\ Live(i.from) /\ rec[i.from].id = i.id
Movable(i) == ~(Live(i.n) /\ rec[i.n].id = i.id) /\ Live(i.from) /\ rec[i.from].id = i.id
Earlier(i) == i.disp # None /\ IF run.at = "promote" THEN Dependent(i) ELSE Movable(i)

\* recordEarlierDisplace: what an earlier attempt of the item displaced and did not
\* record, once the records say that the item still has to be done.
EarlierDisplace ==
    /\ run.at \in {"promote", "move"} /\ Earlier(Item)
    /\ rows' = IF remote[Item.disp] # None THEN WithRow(Item.disp, Item.n, "displaced") ELSE rows
    /\ SetItem(Item, [Item EXCEPT !.disp = None])
    /\ UNCHANGED <<world, source, remote, rec, job, run, hist, used>>

\* retainOwnObject: the record's object moves into retention, with an intent.
OwnIntent ==
    /\ run.at = "own"
    /\ IF remote[L(run.from)] = None
         THEN At(run.back) /\ rec' = rec
         ELSE /\ FreeNumbers(run.from) # {}
              /\ LET n == run.from dst == FreeRetention(n) IN
                 /\ rec' = [rec EXCEPT ![n].to = dst, ![n].why = IF rec[n].st = "missing" THEN "damaged" ELSE "replaced"]
                 /\ run' = [run EXCEPT !.at = "ownMove", !.dst = dst]
    /\ UNCHANGED <<world, source, remote, rows, job, items, hist, used>>

OwnMove ==
    /\ run.at = "ownMove"
    /\ MoveTo(L(run.from), run.dst, "ownRecord")
    /\ UNCHANGED <<world, source, rec, rows, job, hist>>

OwnRecord ==
    /\ run.at = "ownRecord"
    /\ LET n == run.from IN
       /\ rows' = IF remote[run.dst] # None THEN WithRow(run.dst, n, rec[n].why) ELSE rows
       /\ rec' = [rec EXCEPT ![n] = ClearIntent(@)]
    /\ At(run.back)
    /\ UNCHANGED <<world, source, remote, job, items, hist, used>>

RetainOwn(n, then) == run' = [run EXCEPT !.at = "own", !.from = n, !.back = then]

-----------------------------------------------------------------------------
(* Promotes, moves and links.                                              *)

Holds(n, v) == remote[L(n)] # None /\ remote[L(n)].v = v
Fails(st) == Ends(st) /\ UNCHANGED <<world, source, remote, rec, rows, job, hist, used>>
\* The item fails because of what it found, which the record does not say.
FailsKnowing(why, n) ==
    /\ excused' = excused \cup {<<why, n>>} /\ Ends("failed")
    /\ UNCHANGED <<world, source, remote, rec, rows, job, ever, used>>
Goes == UNCHANGED <<world, source, remote, rec, rows, job, items, hist, used>>

\* promote: the content of a primary moves to a hardlinked name that still needs it.
PromoteStart ==
    /\ run.at = "promote" /\ ~Earlier(Item)
    /\ LET t == Item.n
           v == Item.from
       IN IF ~Live(t) THEN Fails("failed")
          ELSE IF rec[t].st = "present" /\ rec[t].link = 0 THEN Fails("done")
          ELSE IF ~Dependent(Item) THEN Fails("failed")
          ELSE IF remote[L(v)] = None /\ Holds(t, rec[v].v) THEN At("promoteRecord") /\ Goes
          ELSE IF src[t] # rec[t].v THEN Fails("failed")
          ELSE IF ~Holds(v, rec[v].v) THEN FailsKnowing("changed", v)
          ELSE IF remote[L(t)] # None THEN Displace(t, "promoteMove") /\ Goes
          ELSE At("promoteMove") /\ Goes

PromoteMove ==
    /\ run.at = "promoteMove"
    /\ MoveTo(L(Item.from), L(Item.n), "promoteRecord")
    /\ UNCHANGED <<world, source, rec, rows, job, hist>>

\* PromoteTx; the copy a half move left at the primary's path is displaced after a
\* promote for a retain.
PromoteRecord ==
    /\ run.at = "promoteRecord"
    /\ LET t == Item.n
           v == Item.from
       IN /\ rec' = [n \in Names |->
                CASE n = t -> [rec[t] EXCEPT !.st = "present", !.link = 0, !.job = job.id]
                  [] n = v -> IF Item.for = "retain" THEN None ELSE [rec[v] EXCEPT !.st = "missing"]
                  [] OTHER -> IF Live(n) /\ rec[n].link = v THEN [rec[n] EXCEPT !.link = t] ELSE rec[n]]
          /\ IF remote[L(v)] # None /\ Item.for = "retain" THEN Displace(v, "itemDone") ELSE At("itemDone")
    /\ UNCHANGED <<world, source, remote, rows, job, items, hist, used>>

\* move: a renamed file's object is renamed.
MoveStart ==
    /\ run.at = "move" /\ ~Earlier(Item)
    /\ LET n == Item.n
           f == Item.from
       IN IF Live(n) /\ rec[n].id = Item.id THEN Fails("done")
          ELSE IF ~Movable(Item) THEN Fails("failed")
          ELSE IF remote[L(f)] = None /\ Holds(n, rec[f].v) THEN At("moveRecord") /\ Goes
          ELSE IF ~Holds(f, rec[f].v) THEN FailsKnowing("changed", f)
          ELSE IF remote[L(n)] # None /\ Live(n) THEN Fails("failed")
          ELSE IF remote[L(n)] # None THEN Displace(n, "moveMove") /\ Goes
          ELSE At("moveMove") /\ Goes

MoveMove ==
    /\ run.at = "moveMove"
    /\ MoveTo(L(Item.from), L(Item.n), "moveRecord")
    /\ UNCHANGED <<world, source, rec, rows, job, hist>>

\* RecordContentTx with Moved; its old versions follow (followMoveTx).
FollowMove(f, n) ==
    {IF r.rel = f /\ IsUpdate(r) /\ ~\E q \in rows : q.rel = f /\ ~IsUpdate(q) /\ q.seq > r.seq
       THEN [r EXCEPT !.rel = n] ELSE r : r \in rows}

MoveRecord ==
    /\ run.at = "moveRecord"
    /\ LET n == Item.n
           f == Item.from
           moved == Rec(rec[f].id, "present", rec[f].v, 0)
       IN IF Live(n)
            THEN Fails("failed")
            ELSE /\ rec' = [m \in Names |->
                       CASE m = n -> moved
                         [] m = f -> None
                         [] OTHER -> IF Live(m) /\ rec[m].link = f THEN [rec[m] EXCEPT !.link = n] ELSE rec[m]]
                 /\ rows' = FollowMove(f, n)
                 /\ IF remote[L(f)] # None THEN Displace(f, "itemDone") ELSE At("itemDone")
                 /\ UNCHANGED <<world, source, remote, job, items, hist, used>>

Owns(n) == Live(n) /\ rec[n].st # "link_recorded"

\* copyAlone, alone: the live path is freed before an upload.
FreeFirst(n, then) ==
    IF remote[L(n)] = None THEN At(then)
    ELSE IF Owns(n) THEN RetainOwn(n, then)
    ELSE Displace(n, then)

\* link: another name of a recorded object; a copy of its own when the primary or
\* the source is not what the plan saw.
Valid(n, p) == Live(p) /\ rec[p].st = "present" /\ rec[p].v = src[n] /\ {n, p} \subseteq twins /\ n # p
LinkStart ==
    /\ run.at = "link"
    /\ LET n == Item.n
           p == Item.from
       IN IF src[n] = 0 THEN Fails("failed")
          ELSE IF ~Valid(n, p) THEN FreeFirst(n, "upload") /\ Goes
          ELSE IF Live(n) /\ rec[n].st = "link_recorded" /\ rec[n].link = p /\ rec[n].v = src[n] THEN Fails("done")
          ELSE IF Owns(n) THEN RetainOwn(n, "linkRecord") /\ Goes
          ELSE At("linkRecord") /\ Goes

LinkRecord ==
    /\ run.at = "linkRecord"
    /\ LET n == Item.n IN
       rec' = [rec EXCEPT ![n] = Rec(IF Live(n) THEN rec[n].id ELSE <<n, job.id>>, "link_recorded", rec[Item.from].v, Item.from)]
    /\ At("itemDone")
    /\ UNCHANGED <<world, source, remote, rows, job, items, hist, used>>

-----------------------------------------------------------------------------
(* Copies: single ones, then batches.                                      *)


\* alreadyDone: an earlier attempt of the job recorded it.
AlreadyDone(i) ==
    Live(i.n) /\ rec[i.n].st = "present" /\ rec[i.n].v = i.v /\ rec[i.n].job = job.id /\ rec[i.n].to = None
Backup(n) == <<n, job.id, 0>>
\* The backup name is taken (a resumed job), or the object of a missing record is there.
RunsAlone(n) == remote[Backup(n)] # None \/ (Live(n) /\ rec[n].st = "missing" /\ remote[L(n)] # None)
BackupReason(n) == IF ~Owns(n) THEN "displaced" ELSE IF rec[n].st = "missing" THEN "damaged" ELSE "replaced"

SkipDone ==
    /\ run.at = "next"
    /\ \E i \in Puts : AlreadyDone(i) /\ SetItem(i, [i EXCEPT !.st = "done"])
    /\ UNCHANGED <<world, source, remote, rec, rows, job, run, hist, used>>

\* checkSource: no longer the planned version.
SourceChanged ==
    /\ run.at = "next"
    /\ \E i \in Puts : ~AlreadyDone(i) /\ src[i.n] # i.v /\ SetItem(i, [i EXCEPT !.st = "failed"])
    /\ UNCHANGED <<world, source, remote, rec, rows, job, run, hist, used>>

\* retainedByThisJob.
Retained(n) == \E r \in rows : r.rel = n /\ r.job = job.id

\* Mutant: the object that matches is taken as the upload.
MutFreshObject(i) == Holds(i.n, i.v)

\* alone: an object that matches is this job's upload, unless it is the damaged one.
FreshObject(i) ==
    Holds(i.n, i.v) /\ (Live(i.n) /\ rec[i.n].st = "missing" => Retained(i.n))

Alone ==
    /\ run.at = "next"
    /\ \E i \in Puts :
          /\ ~AlreadyDone(i) /\ src[i.n] = i.v /\ RunsAlone(i.n)
          /\ rows' = IF remote[Backup(i.n)] # None THEN WithRow(Backup(i.n), i.n, BackupReason(i.n)) ELSE rows
          /\ run' = [Idle EXCEPT !.at = "alone", !.it = i.key]
    /\ UNCHANGED <<world, source, remote, rec, job, items, hist, used>>

AloneFree ==
    /\ run.at = "alone"
    /\ IF FreshObject(Item) THEN At("recordAlone")
       ELSE FreeFirst(Item.n, IF remote[L(Item.n)] # None /\ Owns(Item.n) THEN "aloneMissing" ELSE "upload")
    /\ Goes

AloneMissing ==
    /\ run.at = "aloneMissing"
    /\ rec' = [rec EXCEPT ![Item.n] = MarkMissing(@)]
    /\ At("upload")
    /\ UNCHANGED <<world, source, remote, rows, job, items, hist, used>>

Put(n) == remote' = [remote EXCEPT ![L(n)] = Obj(src[n])] /\ ever' = ever \cup {Obj(src[n])}

\* upload: checkSource, then copyto writes what the source holds by then.
UploadStart ==
    /\ run.at = "upload"
    /\ IF src[Item.n] = Item.v THEN At("copyTo") /\ Goes ELSE FailsKnowing(Item.key[1], Item.n)

Upload ==
    /\ run.at = "copyTo"
    /\ \/ src[Item.n] # 0 /\ Put(Item.n) /\ At("recordAlone") /\ UNCHANGED <<items, excused, used>>
       \/ /\ src[Item.n] = 0 \/ used.faults < world.faults
          /\ used' = [used EXCEPT !.faults = IF src[Item.n] = 0 THEN @ ELSE @ + 1]
          /\ excused' = excused \cup {<<Item.key[1], Item.n>>}
          /\ Ends("failed") /\ UNCHANGED <<remote, ever>>
    /\ UNCHANGED <<world, source, rec, rows, job>>

\* Recorded-only links whose content the new version replaces.
Outdated(S, v) == {<<"promote", d>> : d \in {m \in Names : Live(m) /\ rec[m].link \in S /\ rec[m].v # v}}

\* recordAlone.
RecordAlone ==
    /\ run.at = "recordAlone"
    /\ IF ~Holds(Item.n, Item.v) THEN FailsKnowing(Item.key[1], Item.n)
       ELSE /\ rec' = [rec EXCEPT ![Item.n] = RecordContent(Item.n, Item.v)]
            /\ excused' = excused \cup Outdated({Item.n}, Item.v)
            /\ At("itemDone")
            /\ UNCHANGED <<world, source, remote, rows, job, items, ever, used>>


\* SetIntentTx: where the record's object will be moved, and why.
Intent(n) == IF Owns(n) THEN [rec[n] EXCEPT !.to = Backup(n), !.why = BackupReason(n)] ELSE rec[n]

\* cutBatch, copyBatch: the batch and its intents.
Batch ==
    /\ run.at = "next"
    /\ \E S \in SUBSET Puts :
          /\ S # {}
          /\ \A i \in S : ~AlreadyDone(i) /\ src[i.n] = i.v /\ ~RunsAlone(i.n)
          /\ LET names == {i.n : i \in S} IN
             /\ rec' = [n \in Names |-> IF n \in names THEN Intent(n) ELSE rec[n]]
             /\ run' = [Idle EXCEPT !.at = "copy", !.batch = names]
    /\ UNCHANGED <<world, source, remote, rows, job, items, hist, used>>

\* rclone copy --backup-dir of one name: an object of the same size and mtime is
\* skipped; another one goes to the backup directory first.
Transfers(n) == src[n] # 0 /\ ~Holds(n, src[n])
Outcomes(n) == IF ~Transfers(n) THEN {"none"}
               ELSE {"ok", "none"} \cup (IF remote[L(n)] = None THEN {} ELSE {"moved", "both"})

\* The transfer ends normally, at the window's end (cut), with an error or by a cancel.
Copy ==
    /\ run.at = "copy"
    /\ \E out \in [run.batch -> {"ok", "none", "moved", "both"}], end \in {"no", "cut", "error", "cancel"} :
          LET short == {n \in run.batch : out[n] # "ok" /\ Transfers(n)}
              full == {n \in run.batch : out[n] = "ok"}
              old == {n \in run.batch : remote[L(n)] # None /\ out[n] \in {"ok", "moved", "both"}}
          IN /\ \A n \in run.batch : out[n] \in Outcomes(n)
             /\ end # "no" \/ short # {} => used.faults < world.faults
             /\ used' = [used EXCEPT !.faults = IF end # "no" \/ short # {} THEN @ + 1 ELSE @]
             /\ remote' = [p \in Paths |->
                   LET n == p[1] IN
                   IF p = L(n) /\ n \in full THEN Obj(src[n])
                   ELSE IF p = L(n) /\ n \in old /\ out[n] = "moved" THEN None
                   ELSE IF n \in old /\ p = Backup(n) THEN remote[L(n)]
                   ELSE remote[p]]
             /\ ever' = ever \cup {Obj(src[n]) : n \in full}
             /\ run' = [run EXCEPT !.at = "settle", !.cut = end]
    /\ UNCHANGED <<world, source, rec, rows, job, items, excused>>

Matches(n) == Holds(n, OfName(n).v)
Moved(n) == remote[Backup(n)] # None

\* What settleBatch makes of one record.
Settled(n) ==
    IF Matches(n) THEN RecordContent(n, OfName(n).v)
    ELSE IF ~Owns(n) THEN rec[n]
    ELSE IF Moved(n) THEN MarkMissing(ClearIntent(rec[n])) ELSE ClearIntent(rec[n])

\* settleBatch: one transaction by what is where, then the items.
SettleBatch ==
    /\ run.at = "settle"
    /\ rec' = [n \in Names |-> IF n \in run.batch THEN Settled(n) ELSE rec[n]]
    /\ rows' = rows \cup {Row(Backup(n), n, BackupReason(n)) :
                              n \in {m \in run.batch : Moved(m) /\ ~\E r \in rows : r.at = Backup(m)}}
    /\ run' = [run EXCEPT !.at = "settled", !.todo = {n \in run.batch : Matches(n)}]
    /\ excused' = excused \cup UNION {Outdated({n}, OfName(n).v) : n \in {m \in run.batch : Matches(m)}}
    /\ UNCHANGED <<world, source, remote, job, items, ever, used>>

\* Items without a matching object fail, or stay pending after a cut or a cancel; an
\* item cut twice fails (noteCuts). The job goes on, is deferred, fails or is cancelled.
BatchDone ==
    /\ run.at = "settled"
    /\ LET keeps == run.cut \in {"cut", "cancel"}
           of == {OfName(n) : n \in run.batch}
       IN \E transferring \in SUBSET run.batch :
             /\ run.cut # "cut" => transferring = {}
             /\ run.cut = "cut" /\ Cardinality(run.batch) = 1 => transferring = run.batch
             /\ items' = (items \ of) \cup
                  {LET cuts == i.cuts + (IF i.n \in transferring THEN 1 ELSE 0) IN
                   IF i.n \in run.todo THEN [i EXCEPT !.st = "done"]
                   ELSE [i EXCEPT !.cuts = cuts, !.st = IF keeps /\ cuts < 2 THEN "pending" ELSE "failed"] : i \in of}
    /\ job' = [job EXCEPT !.st = CASE run.cut = "cut" -> "queued" [] run.cut = "no" -> @ [] OTHER -> "ended"]
    /\ run' = [Idle EXCEPT !.at = IF run.cut = "no" THEN "next" ELSE "idle"]
    /\ UNCHANGED <<world, source, remote, rec, rows, hist, used>>

-----------------------------------------------------------------------------
(* Retains.                                                                *)

Retains == {i \in Pending : i.phase >= 6}
Prepared == {i \in Retains : i.n \in run.batch}
InRetains == run.at = "next" /\ Pending = Retains
Reappeared(n) == src[n] # 0 /\ cat[n] # 0

HoldsContent(n) ==
    \/ Live(n) /\ rec[n].st # "missing" /\ rec[n].v = cat[n]
    \/ \E r \in rows : r.rel = n /\ r.why \notin {"damaged", "displaced"} /\ r.v = cat[n]

\* notBackedUp (S6): catalogued names without their content in the folder.
NotBackedUp == {n \in Names : cat[n] # 0 /\ ~HoldsContent(n)}

\* Recorded-only links that are gone from the source go with their primary.
Gone(n) == {d \in Dependents(n) : ~Reappeared(d)}
Without(S) == [n \in Names |-> IF n \in S THEN None ELSE rec[n]]

\* prepareRetain: an item that moves nothing ends here.
RetainEnds(i) ==
    LET n == i.n
        ends(st) == SetItem(i, [i EXCEPT !.st = st]) /\ rec' = rec
    IN IF ~Live(n) \/ rec[n].id # i.id THEN ends("done")
       ELSE IF Reappeared(n) THEN ends("skipped")
       ELSE IF Dependents(n) # Gone(n) THEN ends("failed")
       ELSE IF rec[n].st \in {"link_recorded", "missing"}
         THEN SetItem(i, [i EXCEPT !.st = "done"]) /\ rec' = Without({n} \cup Gone(n))
       ELSE NotBackedUp # {} /\ ends("failed")

PrepareRetain ==
    /\ InRetains /\ Retains # Prepared
    /\ LET i == Earliest(Retains \ Prepared)
           movable == /\ Live(i.n) /\ rec[i.n].id = i.id /\ ~Reappeared(i.n) /\ Dependents(i.n) = Gone(i.n)
                      /\ rec[i.n].st \notin {"link_recorded", "missing"} /\ NotBackedUp = {}
       IN IF movable
            THEN run' = [run EXCEPT !.batch = @ \cup {i.n}] /\ UNCHANGED <<items, rec>>
            ELSE RetainEnds(i) /\ run' = run
    /\ UNCHANGED <<world, source, remote, rows, job, hist, used>>

RetainItem(n) == CHOOSE i \in Retains : i.n = n

\* retainBatch: a name without an object loses its record.
RetainGone ==
    /\ InRetains /\ Retains = Prepared
    /\ \E n \in run.batch :
          /\ remote[L(n)] = None
          /\ rec' = Without({n} \cup Gone(n))
          /\ SetItem(RetainItem(n), [RetainItem(n) EXCEPT !.st = "done"])
          /\ run' = [run EXCEPT !.batch = @ \ {n}]
    /\ UNCHANGED <<world, source, remote, rows, job, hist, used>>

\* The intents: the plain retention names in a batch, a taken one alone with a
\* numbered name (retainAlone).
RetainIntents ==
    /\ InRetains /\ Retains = Prepared /\ run.batch # {}
    /\ \A n \in run.batch : remote[L(n)] # None
    /\ LET taken == {n \in run.batch : remote[Backup(n)] # None}
           todo == IF taken # {} THEN {Min(taken)} ELSE run.batch
       IN /\ \A n \in todo : FreeNumbers(n) # {}
          /\ rec' = [n \in Names |-> IF n \in todo THEN [rec[n] EXCEPT !.to = FreeRetention(n), !.why = "deleted"] ELSE rec[n]]
          /\ run' = [run EXCEPT !.at = "retainMove", !.todo = todo]
    /\ UNCHANGED <<world, source, remote, rows, job, items, hist, used>>

\* rclone move of the names; each is moved, copied only, or left.
RetainMove ==
    /\ run.at = "retainMove"
    /\ \E out \in [run.todo -> {"ok", "half", "none"}], end \in {"no", "cut", "error"} :
          LET short == \E n \in run.todo : out[n] # "ok"
              to(n) == rec[n].to
          IN /\ end # "no" \/ short => used.faults < world.faults
             /\ used' = [used EXCEPT !.faults = IF end # "no" \/ short THEN @ + 1 ELSE @]
             /\ remote' = [p \in Paths |->
                   LET n == p[1] IN
                   IF n \in run.todo /\ p = L(n) /\ out[n] = "ok" THEN None
                   ELSE IF n \in run.todo /\ p = to(n) /\ out[n] # "none" THEN remote[L(n)]
                   ELSE remote[p]]
             /\ run' = [run EXCEPT !.at = "retainSettle", !.cut = end]
    /\ UNCHANGED <<world, source, rec, rows, job, items, hist>>

\* settleRetain: only the retention path holds it.
RetainedOnly(n) == remote[rec[n].to] # None /\ remote[L(n)] = None

SettleRetain ==
    /\ run.at = "retainSettle"
    /\ LET done == {n \in run.todo : RetainedOnly(n)}
           there == {n \in run.todo : remote[rec[n].to] # None}
           of == {RetainItem(n) : n \in run.todo}
       IN /\ rec' = [n \in Names |->
                IF n \in done \/ \E d \in done : n \in Gone(d) THEN None
                ELSE IF n \in run.todo THEN ClearIntent(rec[n]) ELSE rec[n]]
          /\ rows' = rows \cup {Row(rec[n].to, n, "deleted") : n \in {m \in there : ~\E r \in rows : r.at = rec[m].to}}
          /\ items' = (items \ of) \cup
                {[i EXCEPT !.st = IF i.n \in done THEN "done" ELSE IF run.cut = "cut" THEN "pending" ELSE "failed"] : i \in of}
    /\ job' = [job EXCEPT !.st = CASE run.cut = "cut" -> "queued" [] run.cut = "no" -> @ [] OTHER -> "ended"]
    /\ run' = IF run.cut = "no" THEN [run EXCEPT !.at = "next", !.batch = @ \ run.todo, !.todo = {}] ELSE Idle
    /\ UNCHANGED <<world, source, remote, hist, used>>

-----------------------------------------------------------------------------
(* Retention jobs: an expired row loses its object, then the row goes.     *)

RetentionBegin ==
    /\ run.at = "idle"
    /\ used.expiries < world.expiries /\ used' = [used EXCEPT !.expiries = @ + 1]
    /\ run' = [Idle EXCEPT !.at = "reconcile", !.kind = "retention", !.todo = {n \in Names : Live(n) /\ rec[n].to # None}]
    /\ UNCHANGED <<world, source, remote, rec, rows, job, items, hist>>

\* expiryHold: a replaced version is held until a newer one of its path is recorded.
ExpiryHeld(r) ==
    /\ r.why = "replaced"
    /\ IF Live(r.rel) THEN rec[r.rel].st # "present"
       ELSE ~\E q \in rows : q.rel = r.rel /\ q.why # "displaced" /\ q.seq > r.seq

\* expireBatch: an object that is not the recorded one is left.
ExpireObject ==
    /\ run.at = "reconcile" /\ run.todo = {} /\ run.kind = "retention"
    /\ \E r \in rows :
          /\ ~ExpiryHeld(r)
          /\ remote[r.at] # None => remote[r.at].v = r.v
          /\ remote' = [remote EXCEPT ![r.at] = None]
          /\ ever' = IF \E p \in Paths \ {r.at} : remote[p] = remote[r.at] THEN ever ELSE ever \ {remote[r.at]}
          /\ run' = [run EXCEPT !.at = "forget", !.dst = r.at]
    /\ UNCHANGED <<world, source, rec, rows, job, items, excused, used>>

\* forgetGone.
Forget ==
    /\ run.at = "forget"
    /\ rows' = {r \in rows : r.at # run.dst}
    /\ run' = Idle
    /\ UNCHANGED <<world, source, remote, rec, job, items, hist, used>>

NothingExpired ==
    /\ run.at = "reconcile" /\ run.todo = {} /\ run.kind = "retention"
    /\ run' = Idle
    /\ UNCHANGED <<world, source, remote, rec, rows, job, items, hist, used>>

-----------------------------------------------------------------------------

Next ==
    \/ SourceChanges \/ Meddle \/ Rob \/ VerifyDamaged
    \/ Begin \/ Stop \/ StopUnsettled \/ Reconcile \/ Plan \/ Finish \/ Step \/ ItemDone
    \/ DisplaceIntent \/ DisplaceMove \/ RecordDisplaced \/ EarlierDisplace
    \/ OwnIntent \/ OwnMove \/ OwnRecord
    \/ PromoteStart \/ PromoteMove \/ PromoteRecord \/ MoveStart \/ MoveMove \/ MoveRecord
    \/ LinkStart \/ LinkRecord
    \/ SkipDone \/ SourceChanged \/ Alone \/ AloneFree \/ AloneMissing \/ UploadStart \/ Upload \/ RecordAlone
    \/ Batch \/ Copy \/ SettleBatch \/ BatchDone
    \/ PrepareRetain \/ RetainGone \/ RetainIntents \/ RetainMove \/ SettleRetain
    \/ RetentionBegin \/ ExpireObject \/ Forget \/ NothingExpired

Spec == Init /\ [][Next]_vars

-----------------------------------------------------------------------------
(* Properties.                                                             *)

\* Whatever moves, uploads, half moves, cuts, cancels and ends of the process there
\* are, every object that was ever at the destination is still at some path (S2,
\* S23: nothing is overwritten or deleted, it moves into retention).
NothingLost == \A o \in ever : \E p \in Paths : remote[p] = o

\* After a sync that ended done without failed items, whatever earlier jobs left,
\* a record that says present has its undamaged object. Excepted are records no
\* sync looks at again: of an object somebody removed; of a move or promote that was
\* cancelled after the move, or found the object changed, when the source is renamed
\* back before the next scan; of a link copied as its own object whose upload failed
\* (copyAlone does not mark the record missing as alone does); and of a link whose primary was
\* replaced after its promote failed.
AllDone == run.at = "idle" /\ job.st = "done" /\ \A i \in items : i.st = "done"
Truthful(n) == remote[L(n)] = Obj(rec[n].v)
Excused(n, whys) == \E e \in excused : e[2] = n /\ e[1] \in whys
RecordsTruthful ==
    AllDone => \A n \in Names :
        Live(n) /\ rec[n].st = "present" =>
            Truthful(n) \/ Excused(n, {"removed", "cancelled", "changed", "link", "promote"})

\* After such a sync every scanned file has its version recorded, live or by its
\* link.
EveryFileRecorded ==
    AllDone => \A n \in Names : cat[n] # 0 => Live(n) /\ rec[n].v = cat[n]

=============================================================================
