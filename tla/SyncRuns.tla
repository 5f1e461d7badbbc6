------------------------------ MODULE SyncRuns ------------------------------
(***************************************************************************)
(* A sync as a whole (syncer/sync.go, planner.go, targeted.go, expected.go *)
(* and tiers.go): a full sync, a targeted one that a webhook queued, a     *)
(* release preview (a dry run) and the release its user confirmed. The     *)
(* run scans the source, waits for files the *arr expects while its lock   *)
(* is free, plans by catalog, records and tiers, holds what does not fit   *)
(* or changes too much, and runs its persisted items: content first, then  *)
(* what vanished. Files, rules, the facts behind the tiers and the source  *)
(* change at any time, another destination's sync scans the same source,   *)
(* and a crash may come between any two steps. One item's execution is     *)
(* atomic here (SyncItem); moves, repairs, promotes and names are planned  *)
(* in PlanRules.                                                           *)
(*                                                                         *)
(* Names lie in folders; a file's version is a number, 0 is no file. A     *)
(* file takes one unit of space.                                           *)
(***************************************************************************)
EXTENDS Integers, FiniteSets

CONSTANTS
    Names, Folder,  \* source paths and the folder of each
    Target,         \* the folder a targeted sync is for
    Waits,          \* rescans of a webhook sync: len(expectedWaits)
    CacheAge,       \* how long a release uses decisions it has read: a minute
    Worlds, None

\* The settings: files with their versions, the free space, the limits of the guard.
ASSUME WorldsAssumption ==
    /\ IsFiniteSet(Names) /\ CacheAge \in Nat
    /\ \A w \in Worlds :
         /\ w.arr \in [Names -> Nat] /\ w.view \in [Names -> Nat] /\ w.live \in [Names -> Nat]
         /\ DOMAIN w.tier = Names /\ w.free \in Nat /\ w.max \in Nat /\ w.pct \in Nat /\ w.least \in Nat

VARIABLES
    world, used,    \* the setting with its bounds, and what is used of them
    disk,           \* arr: the files as the *arr wrote them; view: as the mount shows them
    cat,            \* the catalog: the version of each live file
    dest,           \* live: the record of each name; kept: retained; free: units
    rules,          \* tiers: [rev, tier], tier[n] is full, skip or unknown (then full)
    source,         \* [on, ed]: enabled, and its path's edition
    shown,          \* the last finished release preview: [rev, recs], rev is its stats.tierRevision
    job,            \* [kind, allow, st, attempt, planned, items, live, of]: allow is allowChanges,
                    \* live the files of the source at the plan, of the confirmed preview
    run,            \* the attempt: [at, linked, waits, rev, nonfull, cur, ed, warns, allowed, want,
                    \* dec]; dec are the decisions its releases have read, with their time
    clock,          \* the time, and history: since when each file is full
    hist            \* history: releases made, names retained beside uncovered content, decided
                    \* copies of this job without space, and the names whose catalog entry is the
                    \* same since the attempt read what is not backed up

vars == <<world, used, disk, cat, dest, rules, source, shown, job, run, clock, hist>>

NoFiles == [n \in Names |-> 0]
NoJob == [kind |-> "none", allow |-> FALSE, st |-> "done", attempt |-> 1, planned |-> FALSE, items |-> {}, live |-> 0,
          of |-> [rev |-> 0, recs |-> {}]]
Idle == [at |-> "idle", linked |-> FALSE, waits |-> Waits, rev |-> 0, nonfull |-> {}, cur |-> None, ed |-> 0, warns |-> 0, allowed |-> {}, want |-> NoFiles,
         dec |-> None]

Init ==
    /\ world \in Worlds
    /\ used = [jobs |-> 0, changes |-> 0, rules |-> 0, facts |-> 0, ticks |-> 0, edits |-> 0, crashes |-> 0, errors |-> 0,
               others |-> 0]
    /\ disk = [arr |-> world.arr, view |-> world.view]
    /\ cat = world.live
    /\ dest = [live |-> world.live, kept |-> {}, free |-> world.free]
    /\ rules = [rev |-> 1, tier |-> world.tier]
    /\ source = [on |-> TRUE, ed |-> 1]
    /\ shown = [rev |-> 0, recs |-> {}]
    /\ job = NoJob /\ run = Idle
    /\ clock = [now |-> CacheAge + 1, since |-> NoFiles]
    /\ hist = [released |-> {}, uncovered |-> {}, starved |-> {}, steady |-> Names]

Use(what) == used[what] < world[what] /\ used' = [used EXCEPT ![what] = @ + 1]
Go(p) == run' = [run EXCEPT !.at = p]
Same(rest) == UNCHANGED <<world, disk, rules, source, clock>> /\ UNCHANGED rest

Targeted == job.kind = "webhook"
Scope == IF Targeted THEN {n \in Names : Folder[n] = Target} ELSE Names
Preview == job.kind = "preview"

-----------------------------------------------------------------------------
(* The start of an attempt.                                                *)

\* A job starts: a queued one after a crash, or a new one. A release names the finished
\* preview its user saw, with its revision. A user's sync may allow what the guard would hold.
Begin ==
    /\ run = Idle
    /\ \/ job.st = "queued" /\ job' = [job EXCEPT !.st = "running"] /\ UNCHANGED <<used, hist>>
       \/ /\ job.st # "queued" /\ Use("jobs") /\ hist' = [hist EXCEPT !.starved = {}]
          /\ \E k \in world.kinds, a \in world.allow :
             /\ k = "release" => shown.rev # 0
             /\ a => k # "webhook"
             /\ job' = [NoJob EXCEPT !.kind = k, !.allow = a, !.st = "running", !.of = shown]
    /\ run' = [Idle EXCEPT !.at = "open"]
    /\ Same(<<cat, dest, shown>>)

\* The destination opens. When it is not mounted, a follow-up is skipped with a warning and
\* any other sync fails.
Open ==
    /\ run.at = "open"
    /\ \/ Go("prepare") /\ UNCHANGED <<used, job>>
       \/ Use("errors") /\ run' = Idle /\ job' = [job EXCEPT !.st = IF Targeted THEN "done" ELSE "failed"]
    /\ Same(<<cat, dest, shown, hist>>)

\* A preview ends when it has its plan.
AfterPlan == IF Preview THEN "end" ELSE "space"
\* prepare, prepareRelease: a complete plan is resumed, else planning starts over. A release
\* may take the records of its preview while the rules are those of the preview.
Prepare ==
    /\ run.at = "prepare"
    /\ IF job.planned THEN run' = [run EXCEPT !.at = AfterPlan, !.linked = source.on] /\ UNCHANGED job
       ELSE /\ job' = [job EXCEPT !.items = {}]
            /\ run' = [run EXCEPT !.at = "scan", !.linked = source.on, !.allowed =
                          IF job.kind = "release" /\ job.of.rev = rules.rev THEN job.of.recs ELSE {}]
    /\ Same(<<used, cat, dest, shown, hist>>)

-----------------------------------------------------------------------------
(* The scan, under the source's lock, and the waits, without it.           *)

Scanned == [n \in Names |-> IF n \in Scope THEN disk.view[n] ELSE cat[n]]
\* checkExpected, classifyExpected: expected files that are not live with the *arr's version.
\* One the mount shows as it is catalogued is not waited for.
Expected(c) == {n \in Scope : disk.arr[n] # 0 /\ c[n] # disk.arr[n]}
Pending(c) == {n \in Expected(c) : c[n] = 0 \/ c[n] # disk.view[n]}
OtherSize(c) == Expected(c) \ Pending(c)

\* After a scan: wait for what may still show up, at the end report it as missing.
Checked(c) ==
    IF Targeted /\ Pending(c) # {} /\ run.waits > 0
    THEN run' = [run EXCEPT !.at = "wait", !.waits = @ - 1, !.ed = source.ed]
    ELSE run' = [run EXCEPT !.at = "plan", !.ed = source.ed, !.want = IF Targeted THEN disk.arr ELSE NoFiles,
                            !.warns = @ + IF Targeted THEN Cardinality(Expected(c)) ELSE 0]

Dropped == job' = [job EXCEPT !.planned = TRUE] /\ run' = [run EXCEPT !.at = AfterPlan, !.linked = FALSE] /\ UNCHANGED cat

\* planSource's start: a source that is off is not synced.
Scan ==
    /\ run.at = "scan"
    /\ IF source.on /\ run.linked THEN cat' = Scanned /\ Checked(cat') /\ UNCHANGED job ELSE Dropped
    /\ Same(<<used, dest, shown, hist>>)

\* After a wait the lock is held again: an edited source (reloadSource) is not synced.
Rescan ==
    /\ run.at = "wait"
    /\ IF source.on /\ source.ed = run.ed THEN cat' = Scanned /\ Checked(cat') /\ UNCHANGED job ELSE Dropped
    /\ Same(<<used, dest, shown, hist>>)

-----------------------------------------------------------------------------
(* The plan: decisions, items, the guard.                                  *)

Item(n, act, v, prim) ==
    [n |-> n, act |-> act, v |-> v, old |-> dest.live[n], prim |-> prim, unknown |-> rules.tier[n] = "unknown",
     rev |-> rules.rev, st |-> "pending"]
Full(n) == rules.tier[n] # "skip"
\* The first name of a hardlink group (world.group) is its primary.
Primary(n) == IF n \in world.group THEN CHOOSE p \in world.group : \A m \in world.group : p <= m ELSE n
Twin(n) == Primary(n) # n /\ cat[n] = cat[Primary(n)]

Content ==
    {Item(n, "link", cat[n], Primary(n)) : n \in {m \in Scope : cat[m] # 0 /\ Full(m) /\ dest.live[m] # cat[m] /\ Twin(m) /\ Full(Primary(m))}}
    \cup {Item(n, IF dest.live[n] = 0 THEN "copy" ELSE "update", cat[n], n) :
              n \in {m \in Scope : cat[m] # 0 /\ Full(m) /\ dest.live[m] # cat[m] /\ ~(Twin(m) /\ Full(Primary(m)))}}
\* A targeted sync retains only where its plan brings content.
Vanished ==
    {n \in Scope : cat[n] = 0 /\ dest.live[n] # 0
                   /\ (Targeted => \E i \in Content : Folder[i.n] = Folder[n])}
\* keep: a file that is no longer full stays; a preview lists it, a release takes it when its
\* preview listed this record and the decision is of the preview's revision.
MayRelease(n) == Preview \/ (<<n, dest.live[n]>> \in run.allowed /\ rules.rev = job.of.rev)
Released == {n \in Scope : cat[n] # 0 /\ ~Full(n) /\ dest.live[n] # 0 /\ MayRelease(n)}

Planned ==
    Content \cup {Item(n, "retain", dest.live[n], n) : n \in Vanished}
            \cup {Item(n, "release", dest.live[n], n) : n \in Released}
\* What the guard counts: versions that are replaced or leave, hardlinks made of a recorded name
\* (relinks), and new copies that are full only because a fact is unknown.
Change(i) ==
    \/ i.act \in {"update", "retain", "release"}
    \/ i.act = "copy" /\ i.unknown
    \/ i.act = "link" /\ i.old # 0
\* shrinks: a version of less than half the size (world.short are the truncated ones).
Shrinks(new, old) == new \in world.short /\ old \notin world.short
Shrink(i) == i.act \in {"update", "link"} /\ i.old # 0 /\ Shrinks(i.v, i.old)
\* The item of its primary, which a link depends on (after).
After(i, p) == i.act = "link" /\ p.n = i.prim /\ p.act \in {"copy", "update"}

Within(changes, live) == (changes * 100 <= world.pct * live \/ changes <= world.least) /\ changes <= world.max
Limited(items, live) == ~Within(Cardinality({i \in items : Change(i)}), live)
\* applyGuard without allowChanges: too many changes hold all of them, a truncated version is
\* always held, and with an item what depends on it.
Suspect(i, items, live) == Shrink(i) \/ (Change(i) /\ Limited(items, live))
Stopped(i, items, live) == Suspect(i, items, live) \/ \E p \in items : After(i, p) /\ Suspect(p, items, live)
Guarded(items, live) ==
    IF job.allow THEN items
    ELSE {IF Stopped(i, items, live) THEN [i EXCEPT !.st = "held"] ELSE i : i \in items}

Live == Cardinality({n \in Names : cat[n] # 0})
Plan ==
    /\ run.at = "plan"
    /\ job' = [job EXCEPT !.items = Guarded(Planned, Live), !.planned = TRUE, !.live = Live]
    /\ run' = [run EXCEPT !.at = AfterPlan, !.rev = rules.rev, !.nonfull = {n \in Scope : cat[n] # 0 /\ ~Full(n)}]
    /\ Same(<<used, cat, dest, shown, hist>>)

-----------------------------------------------------------------------------
(* The free space.                                                         *)

PendingItems(acts) == {i \in job.items : i.st = "pending" /\ i.act \in acts}
UnknownCopies == {i \in PendingItems({"copy"}) : i.unknown}
Bytes == Cardinality(PendingItems({"copy", "update"}))
\* Links whose primary's copy is held would copy its bytes.
LinksOfHeld == {i \in PendingItems({"link"}) : i.unknown /\ \E h \in job.items : h.n = i.prim /\ h.act = "copy" /\ h.st = "held"}

\* This attempt did not make the plan.
Resumed == run.rev = 0
\* checkFreeSpace of a new plan; recheckUnknownHold of a resumed one, which never fails.
CheckSpace ==
    /\ run.at = "space"
    /\ \/ Bytes <= dest.free /\ Go(IF Resumed THEN "links" ELSE "items")
       \/ Bytes > dest.free /\ UnknownCopies # {} /\ (Resumed \/ Bytes - Cardinality(UnknownCopies) <= dest.free) /\ Go("hold")
       \/ Bytes > dest.free /\ Resumed /\ UnknownCopies = {} /\ Go("links")
       \/ Bytes > dest.free /\ ~Resumed /\ Bytes - Cardinality(UnknownCopies) > dest.free /\ Go("fail")
    /\ Same(<<used, cat, dest, shown, job, hist>>)

Held(i) == [job EXCEPT !.items = (@ \ {i}) \cup {[i EXCEPT !.st = "held"]}]

\* holdUnknownCopies, holdLinksOfHeld: item by item.
HoldCopy ==
    /\ run.at = "hold"
    /\ IF UnknownCopies = {} THEN Go("links") /\ UNCHANGED job
       ELSE (\E i \in UnknownCopies : job' = Held(i)) /\ UNCHANGED run
    /\ Same(<<used, cat, dest, shown, hist>>)
HoldLink ==
    /\ run.at = "links"
    /\ IF LinksOfHeld = {} THEN Go("items") /\ UNCHANGED job
       ELSE (\E i \in LinksOfHeld : job' = Held(i)) /\ UNCHANGED run
    /\ Same(<<used, cat, dest, shown, hist>>)

-----------------------------------------------------------------------------
(* The items.                                                              *)

ContentActs == {"copy", "update", "link"}
Ends(i, st) == job' = [job EXCEPT !.items = (@ \ {i}) \cup {[i EXCEPT !.st = st]}]
\* place takes the file as it is at the source now. A link costs nothing while its primary is
\* backed up with this content and both names still are one file, else it is a copy. A record
\* that has the content already is left.
Hardlinks(i) == i.act = "link" /\ disk.view[i.prim] = disk.view[i.n] /\ dest.live[i.prim] = disk.view[i.n]
Copies(i) == ~Hardlinks(i) /\ dest.live[i.n] # disk.view[i.n]
CostOf(i) == IF Copies(i) THEN 1 ELSE 0
\* A file that was truncated since the plan is held: only where it would be copied.
Truncated(i) == ~job.allow /\ i.old # 0 /\ Copies(i) /\ Shrinks(disk.view[i.n], i.old)
\* The old version of an update is retained.
Bring(i) ==
    [dest EXCEPT !.live[i.n] = disk.view[i.n], !.free = @ - CostOf(i),
                 !.kept = IF dest.live[i.n] \in {0, disk.view[i.n]} THEN @ ELSE @ \cup {<<i.n, dest.live[i.n]>>}]

\* A source that was disabled since the plan: its records are never changed.
SkipUnlinked ==
    /\ run.at = "items" /\ ~run.linked
    /\ \E i \in PendingItems(ContentActs \cup {"retain", "release"}) : Ends(i, "skipped")
    /\ run' = [run EXCEPT !.warns = @ + 1]
    /\ Same(<<used, cat, dest, shown, hist>>)

\* phases: the links run after the copies and updates.
NextContent == IF PendingItems({"copy", "update"}) # {} THEN PendingItems({"copy", "update"}) ELSE PendingItems({"link"})

RunContent ==
    /\ run.at = "items" /\ run.linked
    /\ \E i \in NextContent :
       \/ /\ disk.view[i.n] # 0 /\ ~Truncated(i) /\ CostOf(i) <= dest.free
          /\ dest' = Bring(i) /\ Ends(i, "done") /\ UNCHANGED used
       \/ disk.view[i.n] # 0 /\ Truncated(i) /\ Ends(i, "held") /\ UNCHANGED <<used, dest>>
       \/ disk.view[i.n] = 0 /\ Ends(i, "failed") /\ UNCHANGED <<used, dest>>
       \/ Use("errors") /\ Ends(i, "failed") /\ UNCHANGED dest
    /\ Same(<<cat, shown, run, hist>>)

\* A fatal error of an item (no space, or the storage fails) ends the job; the item stays pending.
Fatal ==
    /\ run.at = "items" /\ run.linked
    /\ \/ \E i \in NextContent :
             /\ disk.view[i.n] # 0 /\ ~Truncated(i) /\ CostOf(i) > dest.free /\ UNCHANGED used
             /\ hist' = [hist EXCEPT !.starved = IF i.act # "link" /\ ~i.unknown THEN @ \cup {i.n} ELSE @]
       \/ PendingItems(ContentActs \cup {"retain", "release"}) # {} /\ Use("errors") /\ UNCHANGED hist
    /\ run' = Idle /\ job' = [job EXCEPT !.st = "failed"]
    /\ Same(<<cat, dest, shown>>)

BackedUp(n) == dest.live[n] = cat[n] \/ <<n, cat[n]>> \in dest.kept
\* notBackedUp: live files without a backup, except what this attempt decided is not full.
\* Read once per attempt.
MutUncovered == {}
Uncovered == {n \in Names : cat[n] # 0 /\ ~BackedUp(n) /\ n \notin run.nonfull}
ReadUncovered ==
    /\ run.at = "items" /\ run.linked /\ PendingItems(ContentActs) = {} /\ PendingItems({"retain"}) # {} /\ run.cur = None
    /\ run' = [run EXCEPT !.cur = Uncovered] /\ hist' = [hist EXCEPT !.steady = Names]
    /\ Same(<<used, cat, dest, shown, job>>)

ToRetention(i) == [dest EXCEPT !.live[i.n] = 0, !.kept = @ \cup {<<i.n, i.v>>}]
\* What this job was to bring into the folder and did not.
Missed(i) ==
    {c \in job.items : /\ c.act \in ContentActs /\ c.st # "done" /\ Folder[c.n] = Folder[i.n]
                      /\ c.n \in hist.steady /\ cat[c.n] = c.v /\ ~BackedUp(c.n)}

\* retain: not while the name is back, or its folder has a file that is not backed up.
RunRetain ==
    /\ run.at = "items" /\ run.cur # None
    /\ \E i \in PendingItems({"retain"}) :
       \/ dest.live[i.n] # i.v /\ Ends(i, "skipped") /\ UNCHANGED <<dest, hist>>
       \/ dest.live[i.n] = i.v /\ disk.view[i.n] # 0 /\ Ends(i, "skipped") /\ UNCHANGED <<dest, hist>>
       \/ /\ dest.live[i.n] = i.v /\ disk.view[i.n] = 0 /\ \E m \in run.cur : Folder[m] = Folder[i.n]
          /\ Ends(i, "failed") /\ UNCHANGED <<dest, hist>>
       \/ /\ dest.live[i.n] = i.v /\ disk.view[i.n] = 0 /\ \A m \in run.cur : Folder[m] # Folder[i.n]
          /\ dest' = ToRetention(i) /\ Ends(i, "done")
          /\ hist' = [hist EXCEPT !.uncovered = @ \cup {c.n : c \in Missed(i)}]
    /\ Same(<<used, cat, shown, run>>)

\* The tiers of the live files as they are now; a file the decisions do not know is full.
Decisions == [tier |-> [n \in Names |-> IF cat[n] = 0 THEN "full" ELSE rules.tier[n]], at |-> clock.now]
\* execDecisions: read again when they are too old.
ExecDecisions == IF run.dec = None \/ clock.now - run.dec.at > CacheAge THEN Decisions ELSE run.dec
MutRevisionStands(i) == dest.live[i.n] = i.v
\* checkRelease: the rules are still those of the preview, the file is live, and not full by the
\* decisions, which are read only when the revision is right.
RevisionStands(i) == dest.live[i.n] = i.v /\ rules.rev = i.rev
CheckRelease(i) == RevisionStands(i) /\ cat[i.n] # 0 /\ ExecDecisions.tier[i.n] = "skip"
\* A release with what it was, and how long the file had been full.
Gone(i) ==
    [rec |-> <<i.n, i.v>>, rev |-> rules.rev, full |-> Full(i.n), age |-> clock.now - clock.since[i.n], of |-> job.of]
RunRelease ==
    /\ run.at = "items" /\ run.linked /\ PendingItems(ContentActs \cup {"retain"}) = {}
    /\ \E i \in PendingItems({"release"}) :
       /\ run' = IF RevisionStands(i) THEN [run EXCEPT !.dec = ExecDecisions] ELSE run
       /\ \/ /\ CheckRelease(i) /\ dest' = ToRetention(i) /\ Ends(i, "done")
             /\ hist' = [hist EXCEPT !.released = @ \cup {Gone(i)}]
          \/ ~CheckRelease(i) /\ Ends(i, "skipped") /\ UNCHANGED <<dest, hist>>
    /\ Same(<<used, cat, shown>>)

ItemsEnd ==
    /\ run.at = "items" /\ PendingItems(ContentActs \cup {"retain", "release"}) = {} /\ Go("end")
    /\ Same(<<used, cat, dest, shown, job, hist>>)

\* The result: failed and held items count from the table, other warnings from this attempt. A
\* resumed preview gives the revision of the rules as they are now (tierResult).
Warnings == run.warns + Cardinality({i \in job.items : i.st \in {"failed", "held"}})
End ==
    /\ run.at = "end" /\ run' = Idle /\ job' = [job EXCEPT !.st = "done"]
    /\ shown' = IF Preview THEN [rev |-> IF run.rev # 0 THEN run.rev ELSE rules.rev, recs |-> {<<i.n, i.v>> : i \in {j \in job.items : j.act = "release"}}]
                ELSE shown
    /\ Same(<<used, cat, dest, hist>>)
Fail ==
    /\ run.at = "fail" /\ run' = Idle /\ job' = [job EXCEPT !.st = "failed"]
    /\ Same(<<used, cat, dest, shown, hist>>)

Crash ==
    /\ run.at # "idle" /\ Use("crashes") /\ run' = Idle
    /\ job' = [job EXCEPT !.st = "queued", !.attempt = @ + 1]
    /\ Same(<<cat, dest, shown, hist>>)

-----------------------------------------------------------------------------
(* Around the sync.                                                        *)

\* The *arr writes or deletes a file; the mount shows it at once or later.
Write ==
    /\ Use("changes")
    /\ \E n \in Names : \E v \in {0, 2} \ {disk.arr[n]} :
          \/ disk' = [disk EXCEPT !.arr[n] = v]
          \/ disk' = [disk EXCEPT !.arr[n] = v, !.view[n] = v]
    /\ UNCHANGED <<world, cat, dest, rules, source, shown, job, run, clock, hist>>
Show ==
    /\ \E n \in Names : disk.view[n] # disk.arr[n] /\ disk' = [disk EXCEPT !.view[n] = disk.arr[n]]
    /\ UNCHANGED <<world, used, cat, dest, rules, source, shown, job, run, clock, hist>>
\* A file that becomes full is so since now.
Since(n, t) == IF ~Full(n) /\ t # "skip" THEN [clock EXCEPT !.since[n] = clock.now] ELSE clock
\* The rules are saved: their revision grows.
SetRules ==
    /\ Use("rules")
    /\ \E n \in Names : \E t \in {"full", "skip"} \ {rules.tier[n]} :
          /\ rules' = [rules EXCEPT !.rev = @ + 1, !.tier[n] = t]
          /\ clock' = Since(n, t)
    /\ UNCHANGED <<world, disk, cat, dest, source, shown, job, run, hist>>
\* A flag, an index or a destination changes, and with it a tier: under the same revision.
SetFacts ==
    /\ Use("facts")
    /\ \E n \in Names : \E t \in {"full", "skip", "unknown"} \ {rules.tier[n]} :
          /\ rules' = [rules EXCEPT !.tier[n] = t]
          /\ clock' = Since(n, t)
    /\ UNCHANGED <<world, disk, cat, dest, source, shown, job, run, hist>>
Tick ==
    /\ Use("ticks") /\ clock' = [clock EXCEPT !.now = @ + 1]
    /\ UNCHANGED <<world, disk, cat, dest, rules, source, shown, job, run, hist>>
\* The lock of the source is free: outside the scan and the plan.
LockFree == run.at \notin {"scan", "plan"}
EditSource ==
    /\ Use("edits") /\ LockFree
    /\ source' \in {[source EXCEPT !.on = FALSE], [source EXCEPT !.ed = @ + 1]}
    /\ UNCHANGED <<world, disk, cat, dest, rules, shown, job, run, clock, hist>>
OtherScan ==
    /\ Use("others") /\ LockFree /\ cat' = disk.view
    /\ hist' = [hist EXCEPT !.steady = {n \in @ : cat'[n] = cat[n]}]
    /\ UNCHANGED <<world, disk, dest, rules, source, shown, job, run, clock>>

Next ==
    \/ Begin \/ Open \/ Prepare \/ Scan \/ Rescan \/ Plan \/ CheckSpace \/ HoldCopy \/ HoldLink
    \/ SkipUnlinked \/ RunContent \/ Fatal \/ ReadUncovered \/ RunRetain \/ RunRelease \/ ItemsEnd \/ End \/ Fail \/ Crash
    \/ Write \/ Show \/ SetRules \/ SetFacts \/ Tick \/ EditSource \/ OtherScan

Spec == Init /\ [][Next]_vars

-----------------------------------------------------------------------------
(* Properties.                                                             *)

\* A release takes only records its user saw in the preview, under the rule revision the user
\* confirmed, and never a file that has been full for longer than the decisions of a release are
\* used (a flag or an index may make it full without a new revision).
OnlyConfirmed ==
    \A x \in hist.released : x.rec \in x.of.recs /\ x.rev = x.of.rev /\ (x.full => x.age <= CacheAge)

\* The old version of an upgrade leaves the destination only when the new one is there: a
\* folder's files are not retained while content of this job for it, which the catalog lists ever
\* since the attempt read what is not backed up, failed, was held, or waits.
UpgradeCovered == hist.uncovered = {}

\* Copies whose tier is only unknown never take the space a decided copy needs: when one finds no
\* space, no attempt of its job has made an unknown one.
DecidedFirst ==
    hist.starved # {} => \A i \in job.items : i.unknown /\ i.act = "copy" => i.st # "done"

\* A webhook's sync that ends without a warning has backed up every file the *arr expected at
\* the last scan of the attempt: that version, or the one its item found.
NoSilentMiss ==
    run.at = "end" /\ Targeted /\ Warnings = 0 =>
        \A n \in Scope \ run.nonfull : run.want[n] # 0 =>
            dest.live[n] # 0 /\ (dest.live[n] = run.want[n] \/ \E i \in job.items : i.n = n /\ i.v = run.want[n] /\ i.st = "done")

\* Without allowChanges a sync makes no more changes than the limit; what the guard holds, and what
\* depends on it, is not done by any attempt; and no update puts a truncated version in the place
\* of a whole one, also when the file is cut short after the plan.
ChangesBounded ==
    ~job.allow =>
        /\ Within(Cardinality({i \in job.items : i.st = "done" /\ Change(i)}), job.live)
        /\ \A i \in job.items : i.st = "done" =>
              /\ ~Stopped(i, job.items, job.live)
              /\ i.act = "update" => ~Shrinks(dest.live[i.n], i.old)

\* A targeted sync retains only beside content it plans.
RetainsBesideContent ==
    Targeted => \A i \in job.items : i.act = "retain" => \E c \in job.items : c.act \in ContentActs /\ Folder[c.n] = Folder[i.n]

\* An upgrade's old version stays until the new one is backed up, copies of unknown tier never
\* take the space of decided ones, a webhook's file is not missed silently, a sync that was not
\* told to makes no more changes than its guard allows and replaces nothing by a truncated version,
\* and a targeted one retains only beside new content.
SyncPromises == UpgradeCovered /\ DecidedFirst /\ NoSilentMiss /\ ChangesBounded /\ RetainsBesideContent
=============================================================================
