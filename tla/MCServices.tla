----------------------------- MODULE MCServices -----------------------------
(***************************************************************************)
(* The smaller components, checked side by side. A behaviour belongs to    *)
(* one component, named by part. SyncRuns has its own variables, which     *)
(* stand still in the behaviours of the others; each of the others is an   *)
(* instance of its own module, whose variables are the first slots (the    *)
(* other slots stay None), with the worlds defined here, and each property *)
(* is the one of that module, stated for the behaviours of the component.  *)
(***************************************************************************)
EXTENDS SyncRuns, Sequences, TLC

CONSTANTS d1, d2, e1, e2, fx, fy, dirF, dirG, dirH, dirf, t1, t2

VARIABLES part, v1, v2, v3, v4, v5, v6, v7, v8, v9, v10, v11, v12

slots == <<v1, v2, v3, v4, v5, v6, v7, v8, v9, v10, v11, v12>>
allVars == <<part, vars, slots>>

-----------------------------------------------------------------------------
\* Locks of a restic repository: a kill, a shutdown or a late command of ours beside another
\* container, with our host name (11) or another (12).
LockWorld == [kills |-> 0, stops |-> 0, late |-> 0, jobs |-> 2, others |-> 0, ticks |-> 3, who |-> {11}]
LockWorlds == {
    [LockWorld EXCEPT !.kills = 1, !.others = 1],
    [LockWorld EXCEPT !.stops = 1, !.others = 1],
    [LockWorld EXCEPT !.stops = 1, !.others = 1, !.who = {12}],
    [LockWorld EXCEPT !.kills = 2],
    [LockWorld EXCEPT !.kills = 1, !.late = 1],
    [LockWorld EXCEPT !.stops = 1, !.jobs = 4, !.ticks = 1]}
Locks == INSTANCE ResticLocks WITH world <- v1, used <- v2, now <- v3, start <- v4, lock <- v5,
    live <- v6, spans <- v7, file <- v8, earlier <- v9, st <- v10, run <- v11, hist <- v12,
    Children <- 1..6, Others <- {11, 12}, SameHost <- {11}, LiveLockAge <- 2, Subsets <- {1, 2},
    Worlds <- LockWorlds, None <- None
-----------------------------------------------------------------------------
\* Verify jobs of each engine, with hardlinked twins, a record known missing, and a sample.
VerifyWorld ==
    [kind |-> "filecopy", mode |-> "full", twins |-> FALSE, missing |-> FALSE, sample |-> 1,
     changes |-> 1, breaks |-> 1, stops |-> 1, errors |-> 1, syncs |-> 1, jobs |-> 2]
VerifyWorlds ==
    {[VerifyWorld EXCEPT !.twins = t, !.mode = m, !.changes = 0] : t \in BOOLEAN, m \in {"full", "sample"}}
    \cup {[VerifyWorld EXCEPT !.kind = k, !.missing = TRUE, !.changes = c, !.errors = 1 - c] : k \in {"restic", "rclone"}, c \in 0..1}
    \cup {[VerifyWorld EXCEPT !.kind = "rclone", !.mode = "off", !.jobs = 1]}
Ver == INSTANCE Verify WITH world <- v1, used <- v2, src <- v3, newest <- v4, obj <- v5, rec <- v6,
    job <- v7, items <- v8, run <- v9, hist <- v10, Names <- 1..2, Worlds <- VerifyWorlds,
    None <- None
-----------------------------------------------------------------------------
\* Destinations created, changed and deleted at three places (3 is inside 2), on two disks.
DestWorld ==
    [creates |-> 2, fails |-> 1, kills |-> 1, mounts |-> 0, calls |-> 1, jobs |-> 1, typed |-> 0, plain |-> FALSE,
     engine |-> "rclone", places |-> {1}, mounted |-> (1 :> 1 @@ 2 :> 1 @@ 3 :> 2)]
DestWorlds == {
    [DestWorld EXCEPT !.creates = 3, !.calls = 2], [DestWorld EXCEPT !.creates = 3, !.calls = 2, !.engine = "restic"],
    [DestWorld EXCEPT !.engine = "filecopy", !.mounts = 1, !.places = {1, 2}, !.jobs = 0],
    [DestWorld EXCEPT !.plain = TRUE, !.mounts = 1, !.places = {1, 2}, !.jobs = 0, !.kills = 0],
    [DestWorld EXCEPT !.fails = 0, !.kills = 0, !.calls = 3],
    [DestWorld EXCEPT !.engine = "restic", !.kills = 0, !.typed = 1],
    [DestWorld EXCEPT !.fails = 0, !.kills = 0, !.jobs = 0, !.calls = 0, !.places = {2, 3}],
    [DestWorld EXCEPT !.creates = 1, !.kills = 0, !.fails = 0, !.jobs = 0, !.calls = 3]}
Dest == INSTANCE Destinations WITH world <- v1, used <- v2, disk <- v3, mounted <- v4, rows <- v5,
    seq <- v6, fresh <- v7, op <- v8, calls <- v9, run <- v10, hist <- v11, Places <- {1, 2, 3},
    Inside <- {<<3, 2>>}, Disks <- {1, 2}, Worlds <- DestWorlds
-----------------------------------------------------------------------------
\* Hooks of finished jobs with different outcomes and scopes, a clock set back, a shutdown.
Job == [status |-> "failed", dry |-> FALSE, limited |-> TRUE, held |-> FALSE, scope |-> {}, at |-> 0, id |-> 0]
Clean == [Job EXCEPT !.status = "completed"]
Warned == [Job EXCEPT !.status = "warnings"]
NotifyWorld == [jobs |-> 3, backs |-> 0, fails |-> 1, closes |-> 0, warns |-> 0, until |-> 4, kinds |-> {Job, Clean}]
NotifyWorlds == {
    [NotifyWorld EXCEPT !.jobs = 4], [NotifyWorld EXCEPT !.until = 7, !.kinds = {Job}],
    [NotifyWorld EXCEPT !.kinds = {Job, Warned, [Warned EXCEPT !.held = TRUE], [Job EXCEPT !.limited = FALSE]}],
    [NotifyWorld EXCEPT !.kinds = {[Job EXCEPT !.scope = {1}], [Clean EXCEPT !.scope = {1}], [Clean EXCEPT !.scope = {2}], [Clean EXCEPT !.dry = TRUE]}],
    [NotifyWorld EXCEPT !.kinds = {Job, [Clean EXCEPT !.limited = FALSE]}],
    [NotifyWorld EXCEPT !.backs = 1], [NotifyWorld EXCEPT !.kinds = {Job}, !.backs = 1, !.fails = 2],
    [NotifyWorld EXCEPT !.kinds = {Job}, !.closes = 1, !.warns = 1, !.until = 3]}
Not == INSTANCE Notify WITH world <- v1, used <- v2, clock <- v3, hooks <- v4, admitted <- v5,
    notified <- v6, lastSlot <- v7, queue <- v8, sending <- v9, closed <- v10, hist <- v11,
    Quiet <- 3, Slack <- 1, QueueSize <- 1, Workers <- 2, Worlds <- NotifyWorlds, None <- None
-----------------------------------------------------------------------------
\* Rules over families of conditions, each with truths and partial knowledge; two editors.
Cond(field, op, v, neg) == [field |-> field, op |-> op, v |-> v, neg |-> neg]
Rule(cs, m, a) == [conds |-> cs, match |-> m, action |-> a, dests |-> None, enabled |-> TRUE]
RulesOf(cs) ==
    LET sets == {s \in SUBSET cs : Cardinality(s) <= 2}
        all == {Rule(s, m, a) : s \in sets, m \in {"all", "any"}, a \in {"full", "manifest", "skip"}}
        once == {r \in all : Cardinality(r.conds) = 2 \/ r.match = "all"}
        first == {r \in once : r.action # "manifest"}
        last == {r \in once : Cardinality(r.conds) <= 1 /\ r.action = (IF r.conds = {} THEN "skip" ELSE "manifest")}
    IN  {<<r, l>> : r \in first, l \in last}
BaseTruth == [managed |-> TRUE, linked |-> FALSE, tags |-> {}, section |-> "movies", plays |-> 0, last |-> None,
              shared |-> FALSE, tv |-> FALSE, requests |-> [s \in {"s1", "s2"} |-> {}], pending |-> FALSE]
Asked(u, all, season) == [user |-> u, all |-> all, season |-> season]
TierWorld(truths, views, cs, seerrs) ==
    [truths |-> truths, views |-> views, rules |-> RulesOf(cs), seerrs |-> seerrs, outages |-> 1, edits |-> 0, removals |-> 0,
     extra |-> Rule({}, "all", "skip")]
ArrWorld == TierWorld(
    {[BaseTruth EXCEPT !.managed = m, !.tags = g, !.linked = l] : m \in BOOLEAN, l \in BOOLEAN, g \in {{}, {"keep"}}},
    {[view |-> v] : v \in {"row", "two", "size", "gone", "new"}} \cup {[mapped |-> FALSE]},
    {Cond("tag", "has", "keep", FALSE), Cond("managed", "is", "-", TRUE), Cond("genre", "has", "keep", TRUE)}, {})
WatchWorld == TierWorld(
    {[BaseTruth EXCEPT !.plays = p[1], !.last = p[2], !.shared = s] : p \in {<<0, None>>, <<1, "old">>, <<2, "recent">>}, s \in BOOLEAN},
    {[history |-> FALSE, plays |-> 0, last |-> None], [churn |-> TRUE], [holds |-> FALSE], [view |-> "row"],
     [history |-> FALSE, plays |-> 1, last |-> "old"]},
    {Cond("plays", "gte", 1, FALSE), Cond("plays", "lt", 2, FALSE), Cond("last", "newer", 1, FALSE)}, {})
DatesWorld == [WatchWorld EXCEPT !.rules = RulesOf({Cond("last", "older", 1, FALSE), Cond("last", "never", 0, FALSE)})]
SeerrWorld == TierWorld(
    {[BaseTruth EXCEPT !.tv = tv, !.requests = ("s1" :> a @@ "s2" :> b)] : tv \in BOOLEAN,
        a \in {{}, {Asked("u1", TRUE, TRUE)}, {Asked("u1", FALSE, TRUE)}, {Asked("u1", FALSE, FALSE)}}, b \in {{}, {Asked("u2", TRUE, TRUE)}}},
    {[view |-> "row"], [view |-> "new"], [holds |-> FALSE]},
    {Cond("requested", "is", "-", FALSE), Cond("requested", "is", "-", TRUE)}, {"s1", "s2"})
UserWorld == [SeerrWorld EXCEPT !.seerrs = {"s1"},
    !.rules = RulesOf({Cond("requestedBy", "in", "u1", FALSE), Cond("requestedBy", "in", "u1", TRUE)})]
MaintWorld == TierWorld({[BaseTruth EXCEPT !.pending = p, !.section = s] : p \in BOOLEAN, s \in {"movies", "tv"}},
    {[view |-> "row"], [view |-> "two"], [excluded |-> FALSE]},
    {Cond("pending", "is", "-", FALSE), Cond("section", "is", "tv", FALSE), Cond("size", "gte", "big", FALSE)}, {})
EditWorld == [TierWorld({BaseTruth}, {[view |-> "row"]}, {}, {}) EXCEPT !.outages = 0, !.edits = 3, !.removals = 1,
    !.rules = {<<Rule({Cond("tag", "has", "keep", FALSE)}, "all", "full")>>}]
TierWorlds == [arr |-> ArrWorld, watch |-> WatchWorld, dates |-> DatesWorld, seerr |-> SeerrWorld, user |-> UserWorld,
               maint |-> MaintWorld, edit |-> EditWorld]
Tier == INSTANCE Tiers WITH world <- v1, used <- v2, truth <- v3, know <- v4, rules <- v5,
    revision <- v6, dests <- v7, drafts <- v8, hist <- v9, Editors <- {e1, e2}, Dests <- {d1, d2},
    Worlds <- TierWorlds, None <- None
-----------------------------------------------------------------------------
\* Files flagged by path, by folder and by *arr item while folders are renamed.
FlagWorld(ks, r, m, n, gone) == [kinds |-> ks, calm |-> TRUE, renames |-> r, moves |-> m, crashes |-> 1, flags |-> n, deletes |-> gone]
FlagWorlds == {FlagWorld({"file"}, 1, 1, 2, 0), FlagWorld({"folder"}, 2, 0, 1, 0), FlagWorld({"folder"}, 1, 1, 1, 0), FlagWorld({"item"}, 2, 0, 1, 1)}
Flag == INSTANCE ItemFlags WITH world <- v1, used <- v2, at <- v3, cat <- v4, rec <- v5,
    item <- v6, flags <- v7, job <- v8, owed <- v9, Files <- {fx, fy},
    Folders <- {dirF, dirG, dirH}, Dests <- {d1, d2}, Worlds <- FlagWorlds, None <- None
-----------------------------------------------------------------------------
\* Scans of a share with hardlinks, a second share, an unreadable folder, a respelled folder,
\* and a FUSE daemon that shows two files under one inode number.
File(i, v, o) == [ino |-> i, ver |-> v, outside |-> o]
Places == {<<dirF, fx>>, <<dirG, fx>>, <<dirG, fy>>}
Linked == (<<dirF, fx>> :> 1) @@ (<<dirG, fx>> :> 1) @@ (<<dirG, fy>> :> 2)
Apart == (<<dirF, fx>> :> 1) @@ (<<dirG, fx>> :> 0) @@ (<<dirG, fy>> :> 2)
Files == <<File(1, 1, 0), File(2, 2, 0), File(3, 3, 0)>>
Twins == <<File(1, 1, 1), File(1, 1, 1), File(3, 3, 0)>>
CatalogWorld(fs, targets, at, files, edits, mounts, cuts, shuts, settings) ==
    [fs |-> fs, kinds |-> {"full", "targeted"}, targets |-> targets, at |-> at, file |-> files, fold |-> dirf \in UNION targets,
     swap |-> shuts > 0, edits |-> edits, scans |-> 2, mounts |-> mounts, cuts |-> cuts, shuts |-> shuts, settings |-> settings]
CatalogWorlds ==
    {CatalogWorld("disk", {{dirF}, {<<dirG, fx>>}}, Linked, Files, 2, 0, 1, 0, 0),
     CatalogWorld("disk", {{dirG}, {<<dirG, fx>>}}, Linked, Files, 1, 0, 0, 1, 1),
     CatalogWorld("disk", {{dirF, <<dirF, fx>>}, {dirf}, {<<dirF, fx>>}}, Linked, Files, 1, 0, 1, 0, 0),
     CatalogWorld("runtime", {{dirF}}, Apart, Twins, 1, 1, 0, 0, 0)}
    \cup {CatalogWorld(fs, {{dirF}, {dirF, dirG}}, Apart, Files, 1, 2, 0, 0, 0) : fs \in {"disk", "anon", "runtime"}}
Cat == INSTANCE Catalog WITH world <- v1, used <- v2, disk <- v3, mount <- v4, excl <- v5,
    rows <- v6, src <- v7, sc <- v8, hist <- v9, Folders <- {dirF, dirG}, Case <- dirF,
    Alias <- dirf, Places <- Places, Inodes <- {1, 2, 3}, Worlds <- CatalogWorlds, None <- None
-----------------------------------------------------------------------------
\* *arr backups: a job that crashes while its command runs, and jobs beside scheduled backups.
Old(type) == [type |-> type, time |-> 0, size |-> 2, good |-> TRUE, gone |-> FALSE]
ArrBackups(bs, j, s, m, n) == [backups |-> bs, jobs |-> j, ticks |-> 1, stops |-> s, made |-> m, faults |-> n, restarts |-> n]
ArrWorlds == {ArrBackups(1 :> Old("manual"), 1, 2, 0, 1), ArrBackups(1 :> Old("scheduled"), 2, 1, 2, 0)}
Arr == INSTANCE ArrBackup WITH world <- v1, used <- v2, clock <- v3, app <- v4, job <- v5,
    staging <- v6, rows <- v7, hist <- v8, MaxAge <- 2, Slack <- 0, MaxPollErrors <- 2,
    Retries <- 1, Attempts <- 2, Worlds <- ArrWorlds, None <- None
-----------------------------------------------------------------------------
\* Config versions at restic and rclone: crashes, errors, versions that others change, prunes.
EvWorld == [engine |-> "rclone", kind |-> "plex", keeps |-> {1}, jobs |-> 2, ticks |-> 1, changes |-> 0, crashes |-> 1, errors |-> 1, meddles |-> 0]
EvWorlds ==
    {[EvWorld EXCEPT !.engine = e, !.kind = k, !.changes = 1] : e \in {"restic", "rclone"}, k \in {"plex", "manifest"}}
    \cup {[EvWorld EXCEPT !.engine = e, !.kind = "arr", !.changes = c, !.errors = 1 - c, !.ticks = c] : e \in {"restic", "rclone"}, c \in 0..1}
    \cup {[EvWorld EXCEPT !.engine = e, !.kind = k, !.meddles = 1, !.errors = 0] : e \in {"restic", "rclone"}, k \in {"plex", "arr", "manifest"}}
    \cup {[EvWorld EXCEPT !.engine = e, !.kind = "plex", !.crashes = 2, !.ticks = 3, !.errors = 0, !.jobs = 2] : e \in {"restic", "rclone"}}
    \cup {[EvWorld EXCEPT !.engine = e, !.kind = k, !.crashes = 3, !.errors = 0, !.ticks = 0, !.jobs = IF k = "plex" THEN 2 ELSE 1] : e \in {"restic", "rclone"}, k \in {"plex", "arr"}}
    \cup {[EvWorld EXCEPT !.engine = e, !.kind = k, !.crashes = 0, !.keeps = {1, 2}, !.jobs = 3] : e \in {"restic", "rclone"}, k \in {"plex", "manifest"}}
Ever == INSTANCE EngineVersions WITH world <- v1, used <- v2, now <- v3, src <- v4, keep <- v5,
    store <- v6, rows <- v7, asks <- v8, staged <- v9, job <- v10, run <- v11, hist <- v12,
    LeftoverAge <- 2, Attempts <- 3, Worlds <- EvWorlds, None <- None
-----------------------------------------------------------------------------
\* Syncs of two folders: an upgrade that a webhook announces, releases of demoted files while rules
\* and facts change, copies of unknown tier on a full disk (hardlinks among them) or too many of
\* them, a mass deletion, hardlinked names that change or are cut short, a disabled source.
SrWorld ==
    [arr |-> <<0, 2, 1>>, view |-> <<0, 0, 1>>, live |-> <<1, 0, 1>>, tier |-> <<"full", "full", "full">>, free |-> 9, group |-> {}, max |-> 2,
     pct |-> 100, least |-> 1, short |-> {}, allow |-> {FALSE}, kinds |-> {"webhook"}, jobs |-> 1, changes |-> 0, rules |-> 0, facts |-> 0,
     ticks |-> 0, edits |-> 0, crashes |-> 0, errors |-> 0, others |-> 0]
SrAll == [SrWorld EXCEPT !.arr = <<1, 1, 1>>, !.view = <<1, 1, 1>>, !.live = <<0, 0, 0>>, !.kinds = {"full"}]
SrDemoted == [SrAll EXCEPT !.live = <<1, 1, 0>>, !.tier = <<"skip", "skip", "full">>, !.kinds = {"preview", "release"}]
SrGroup == [SrAll EXCEPT !.arr = <<2, 2, 1>>, !.view = <<2, 2, 1>>, !.live = <<1, 1, 1>>, !.group = {1, 2}, !.allow = BOOLEAN]
SrWorlds == {
    [SrWorld EXCEPT !.changes = 1, !.edits = 1, !.errors = 1],
    [SrWorld EXCEPT !.changes = 2, !.others = 2, !.errors = 1],
    [SrWorld EXCEPT !.changes = 1, !.crashes = 1, !.errors = 1, !.others = 1, !.kinds = {"webhook", "full"}, !.jobs = 2],
    [SrDemoted EXCEPT !.jobs = 3, !.rules = 2, !.crashes = 1],
    [SrDemoted EXCEPT !.jobs = 3, !.rules = 1, !.changes = 1, !.crashes = 1],
    [SrDemoted EXCEPT !.jobs = 2, !.facts = 2, !.ticks = 2],
    [SrDemoted EXCEPT !.jobs = 2, !.facts = 1, !.ticks = 2, !.rules = 1],
    [SrAll EXCEPT !.tier = <<"unknown", "full", "full">>, !.free = 2, !.crashes = 2, !.rules = 1],
    [SrAll EXCEPT !.tier = <<"unknown", "full", "full">>, !.free = 1, !.crashes = 2],
    [SrAll EXCEPT !.tier = <<"unknown", "unknown", "full">>, !.free = 1, !.crashes = 2, !.group = {1, 2}],
    [SrAll EXCEPT !.tier = <<"unknown", "unknown", "full">>, !.max = 1, !.jobs = 2, !.facts = 1],
    [SrWorld EXCEPT !.arr = <<0, 0, 2>>, !.view = <<0, 0, 2>>, !.live = <<1, 1, 1>>, !.kinds = {"webhook", "full"}, !.jobs = 2, !.changes = 1, !.crashes = 1],
    [SrGroup EXCEPT !.max = 1, !.crashes = 1, !.changes = 1],
    [SrGroup EXCEPT !.live = <<1, 0, 1>>, !.short = {2}, !.jobs = 2, !.errors = 1],
    [SrGroup EXCEPT !.live = <<1, 0, 0>>, !.max = 0, !.jobs = 2, !.changes = 1],
    [SrGroup EXCEPT !.arr = <<3, 3, 1>>, !.view = <<3, 3, 1>>, !.short = {2}, !.changes = 2, !.crashes = 1],
    [SrGroup EXCEPT !.arr = <<3, 3, 2>>, !.view = <<3, 3, 2>>, !.group = {}, !.pct = 60, !.changes = 1, !.jobs = 2, !.max = 3],
    [SrAll EXCEPT !.live = <<0, 1, 0>>, !.tier = <<"full", "skip", "full">>, !.free = 1, !.jobs = 2, !.rules = 1, !.crashes = 1, !.edits = 1]}
SrFolders == <<"A", "A", "B">>
-----------------------------------------------------------------------------
\* Schedules of an integration's targets: saves, edits and deletions beside the scheduler's loop,
\* a clock that is set, crashes, calls of the database that fail.
ScCrons == ("even" :> {2, 4, 6, 8, 10, 12}) @@ ("late" :> {2, 6, 10, 14})
ScT(d, c) == [d |-> d, cron |-> c, on |-> TRUE]
ScWorld == [forms |-> {<<ScT(1, "even")>>}, singles |-> {ScT(1, "late")}, ids |-> 3, serial |-> TRUE, sets |-> {1, 6},
            saves |-> 1, edits |-> 0, deletes |-> 0, crashes |-> 0, jumps |-> 0, skips |-> 0, ticks |-> 0, errors |-> 0, type |-> "plex"]
ScTwo == [ScWorld EXCEPT !.forms = {<<ScT(1, "even"), ScT(2, "late")>>, <<ScT(2, "even"), ScT(1, None)>>}]
ScWorlds == {[ScWorld EXCEPT !.edits = 1, !.jumps = 1, !.ticks = 4, !.forms = {<<ScT(1, "even")>>, <<ScT(1, "late")>>}],
             [ScWorld EXCEPT !.saves = 1, !.crashes = 1, !.jumps = 1, !.ticks = 4],
             [ScWorld EXCEPT !.saves = 2, !.deletes = 1, !.skips = 1, !.serial = FALSE, !.ticks = 2],
             [ScWorld EXCEPT !.saves = 2, !.ticks = 2, !.forms = {<<ScT(1, "even")>>, <<ScT(2, "even")>>}],
             [ScTwo EXCEPT !.saves = 2, !.edits = 2], [ScTwo EXCEPT !.deletes = 2, !.edits = 1],
             [ScTwo EXCEPT !.edits = 1, !.deletes = 1, !.serial = FALSE],
             [ScTwo EXCEPT !.saves = 2, !.deletes = 1, !.crashes = 1, !.serial = FALSE],
             [ScTwo EXCEPT !.saves = 2, !.edits = 1, !.crashes = 1, !.serial = FALSE],
             [ScTwo EXCEPT !.saves = 2, !.edits = 1, !.deletes = 1, !.errors = 1],
             [ScTwo EXCEPT !.deletes = 2, !.errors = 1, !.serial = FALSE],
             [ScTwo EXCEPT !.deletes = 2, !.errors = 1, !.serial = FALSE, !.type = "arr"]}
Sched == INSTANCE Schedules WITH world <- v1, used <- v2, clock <- v3, rows <- v4, conf <- v5,
    sched <- v6, reloading <- v7, req <- v8, late <- v9, jobs <- v10, missed <- v11,
    Dests <- {1, 2}, Requests <- {1, 2}, MaxSleep <- 2, Crons <- ScCrons, Worlds <- ScWorlds,
    None <- None
-----------------------------------------------------------------------------
\* Integrations changed while requests hold their tokens and hooks arrive.
InRow(t, u, k) == [type |-> t, url |-> u, key |-> k, hook |-> None]
InWorld ==
    [rows |-> <<InRow("arr", "u1", t1), None>>, types |-> {"arr"}, typed |-> {}, writes |-> 3, reads |-> 1, errors |-> 1, crashes |-> 0, pins |-> 0]
InWorlds ==
    {InWorld,
     [InWorld EXCEPT !.writes = 2, !.pins = 1, !.typed = {"u2"}, !.types = {"plex"}, !.rows[2] = InRow("plex", "u2", t1)],
     [InWorld EXCEPT !.writes = 2, !.crashes = 1, !.rows[2] = InRow("plex", "u2", t2)]}
Integ == INSTANCE Integrations WITH world <- v1, used <- v2, up <- v3, rows <- v4, registry <- v5,
    hooks <- v6, client <- v7, told <- v8, sent <- v9, Ids <- {1, 2}, Urls <- {"u1", "u2"},
    Tokens <- {t1, t2}, Clients <- {1, 2}, MaxReleased <- 2, Worlds <- InWorlds, None <- None
-----------------------------------------------------------------------------
\* SyncRuns stands still in the behaviours of the other components.
Still == Init /\ world = CHOOSE w \in Worlds : TRUE

AllInit ==
    \/ /\ part = "SyncRuns" /\ Init
       /\ v1 = None /\ v2 = None /\ v3 = None /\ v4 = None /\ v5 = None /\ v6 = None /\ v7 = None /\ v8 = None
       /\ v9 = None /\ v10 = None /\ v11 = None /\ v12 = None
    \/ part = "ResticLocks" /\ Locks!Init /\ Still
    \/ part = "Verify" /\ Ver!Init /\ Still /\ v11 = None /\ v12 = None
    \/ part = "Destinations" /\ Dest!Init /\ Still /\ v12 = None
    \/ part = "Notify" /\ Not!Init /\ Still /\ v12 = None
    \/ part = "Tiers" /\ Tier!Init /\ Still /\ v10 = None /\ v11 = None /\ v12 = None
    \/ part = "ItemFlags" /\ Flag!Init /\ Still /\ v10 = None /\ v11 = None /\ v12 = None
    \/ part = "Catalog" /\ Cat!Init /\ Still /\ v10 = None /\ v11 = None /\ v12 = None
    \/ part = "ArrBackup" /\ Arr!Init /\ Still /\ v9 = None /\ v10 = None /\ v11 = None /\ v12 = None
    \/ part = "EngineVersions" /\ Ever!Init /\ Still
    \/ part = "Schedules" /\ Sched!Init /\ Still /\ v12 = None
    \/ part = "Integrations" /\ Integ!Init /\ Still /\ v10 = None /\ v11 = None /\ v12 = None

AllNext ==
    /\ UNCHANGED part
    /\ \/ part = "SyncRuns" /\ Next /\ UNCHANGED slots
       \/ part = "ResticLocks" /\ Locks!Next /\ UNCHANGED vars
       \/ part = "Verify" /\ Ver!Next /\ UNCHANGED vars /\ UNCHANGED <<v11, v12>>
       \/ part = "Destinations" /\ Dest!Next /\ UNCHANGED vars /\ UNCHANGED <<v12>>
       \/ part = "Notify" /\ Not!Next /\ UNCHANGED vars /\ UNCHANGED <<v12>>
       \/ part = "Tiers" /\ Tier!Next /\ UNCHANGED vars /\ UNCHANGED <<v10, v11, v12>>
       \/ part = "ItemFlags" /\ Flag!Next /\ UNCHANGED vars /\ UNCHANGED <<v10, v11, v12>>
       \/ part = "Catalog" /\ Cat!Next /\ UNCHANGED vars /\ UNCHANGED <<v10, v11, v12>>
       \/ part = "ArrBackup" /\ Arr!Next /\ UNCHANGED vars /\ UNCHANGED <<v9, v10, v11, v12>>
       \/ part = "EngineVersions" /\ Ever!Next /\ UNCHANGED vars
       \/ part = "Schedules" /\ Sched!Next /\ UNCHANGED vars /\ UNCHANGED <<v12>>
       \/ part = "Integrations" /\ Integ!Next /\ UNCHANGED vars /\ UNCHANGED <<v10, v11, v12>>

AllSpec == AllInit /\ [][AllNext]_allVars

-----------------------------------------------------------------------------
\* The guarded unlock never removes a lock of a live restic process it saw, also not of a
\* container with the same host name; what a killed process left never stands in the way of the
\* next exclusive command; and a prune is followed by its check (GuardedUnlock, restic_retention.go).
LocksAndChecks == part = "ResticLocks" => Locks!LiveLockKept /\ Locks!LeftoversPass /\ Locks!PruneIsChecked

\* A verify marks only records whose file is gone or damaged (and, of rclone's sample, those whose
\* source no longer has the recorded version), and when it is done it has marked every damaged file
\* it was to find and could read, whatever stopped or changed between its plan, check and mark.
VerifyMarks == part = "Verify" => Ver!MissingIsDamaged /\ Ver!DamageFound

\* What a job wrote is encrypted with a secret its user has; a create that fails or is killed
\* at any step leaves no repository that nobody can open; and updates tested at the same time
\* keep each other's credentials.
SecretsKept == part = "Destinations" => Dest!DataReadable /\ Dest!NeverOrphaned /\ Dest!CredentialsKept

\* A lasting problem is told once per interval: it is held back only for a message of its type
\* that was, may have been or was about to be told, and told again only after a clean job that
\* covers it, whatever the order of hooks and failed sends.
ProblemsTold == part = "Notify" => Not!HeldBackWasTold /\ Not!ToldOnce

\* Whatever caches are stale, incomplete or gone, no file is decided less protective than by an
\* index that sees everything; and the rules are those of the last accepted save, made by an
\* editor that had seen what it replaced, and apply nowhere that save did not say, whichever
\* destinations were deleted.
TiersHold == part = "Tiers" => Tier!UnknownNeverDemotes /\ Tier!RulesAsSaved

\* Once every destination followed every rename, each file the user flagged is still covered,
\* through renames, crashes between a move and its flags, and replayed moves.
FlaggedStaysCovered == part = "ItemFlags" => Flag!FlaggedStaysCovered

\* A scan marks a row deleted only when its file was gone at some moment of the scan, or was
\* excluded: never because the share was unmounted, replaced, failing or partly unreadable. Rows
\* in one hardlink group were read with the same metadata and content, and are no more than the
\* file's links; every row is keyed by a name the source listed. After targeted scans, changes
\* during a walk, unstable inodes and other spellings.
CatalogTrue == part = "Catalog" => Cat!DeletedWasGone /\ Cat!GroupsReal /\ Cat!KeyedAsListed

\* A job asks the *arr for a second backup only when the first one was stopped, forgotten or
\* never recorded; what it stores is sound and fresh; and when it has ended no zip with the
\* *arr's keys is left in staging.
OneFreshBackup == part = "ArrBackup" => Arr!AskedOnce /\ Arr!SuccessIsFresh /\ Arr!StagingGone

\* A config job that succeeds has its version whole at the engine, an ok row always has its
\* version, an interrupted job records its version once, and staged secrets are swept; through
\* crashes, errors, prunes, forgets and changes by others.
VersionsAtEngines == part = "EngineVersions" => Ever!SuccessStored /\ Ever!RowsHold /\ Ever!OncePerJob /\ Ever!StagingSwept

\* No schedule queues two jobs for one scheduled time, whatever reloads it and however the clock is
\* set, unless a run in between went unrecorded; with no request in flight the scheduler has exactly
\* the enabled rows, unless since its last reload one failed, or a delete did that had dropped them; a due
\* run waits for at most maxSleep; and with one request at a time the rows mirror the settings as of the
\* last mirroring that did not fail, also when a Plex server could not be deleted.
SchedulesFire == part = "Schedules" => Sched!FiresOnce /\ Sched!EntriesCurrent /\ Sched!PromptFires /\ Sched!Mirrored

\* A token is sent only to a URL its user saved it with; every stored secret, and a token a job
\* still uses, is held in the redaction registry; and the webhook routes accept exactly the stored
\* keys. While integrations are saved, rotated, deleted and created again at the same time.
TokensBound == part = "Integrations" => Integ!TokenBound /\ Integ!SecretsHeld /\ Integ!HooksExact

=============================================================================
