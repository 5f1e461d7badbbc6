------------------------------ MODULE MCEngines -----------------------------
(***************************************************************************)
(* The copy of Plex's databases and the two engines, side by side: a       *)
(* behaviour belongs to the component named by part. PlexCopy has its own  *)
(* variables, which stand still in the behaviours of the engines; the      *)
(* variables of an engine are the first slots (the other slots stay None). *)
(* Each engine is an instance of its module with the worlds defined here.  *)
(***************************************************************************)
EXTENDS PlexCopy, Sequences, TLC

CONSTANTS None

VARIABLES part, v1, v2, v3, v4, v5, v6, v7, v8, v9, v10, v11, v12, v13, v14, v15, v16, v17

slots == <<v1, v2, v3, v4, v5, v6, v7, v8, v9, v10, v11, v12, v13, v14, v15, v16, v17>>
allVars == <<part, vars, slots>>

-----------------------------------------------------------------------------
\* Versions of two names, which may be links of one file; objects of others, damaged and removed
\* ones; crashes, failing commands, half moves and expiries.
RcloneWorld == [versions |-> 2, twins |-> FALSE, foreign |-> 0, damage |-> 0, robs |-> 0, stops |-> 0, faults |-> 0,
                halves |-> 0, expiries |-> 0]
RcloneWorlds == {
    [RcloneWorld EXCEPT !.versions = 3, !.stops = 1, !.faults = 1, !.expiries = 1],
    [RcloneWorld EXCEPT !.versions = 3, !.foreign = 1, !.halves = 1, !.stops = 1, !.faults = 1],
    [RcloneWorld EXCEPT !.versions = 3, !.twins = TRUE, !.halves = 1, !.faults = 1],
    [RcloneWorld EXCEPT !.twins = TRUE, !.foreign = 1, !.halves = 1, !.stops = 1, !.faults = 1],
    [RcloneWorld EXCEPT !.damage = 1, !.stops = 2, !.faults = 1],
    [RcloneWorld EXCEPT !.damage = 1, !.twins = TRUE, !.stops = 1, !.faults = 1],
    [RcloneWorld EXCEPT !.versions = 3, !.robs = 1, !.stops = 1],
    [RcloneWorld EXCEPT !.versions = 3, !.expiries = 1, !.stops = 1, !.halves = 1]}
Rclone == INSTANCE RcloneSync WITH world <- v1, src <- v2, twins <- v3, newest <- v4, cat <- v5,
    remote <- v6, rec <- v7, rows <- v8, job <- v9, items <- v10, run <- v11, ever <- v12,
    excused <- v13, used <- v14, Names <- 1..2, Jobs <- 1..3, Numbers <- 0..2,
    Worlds <- RcloneWorlds, None <- None
-----------------------------------------------------------------------------
\* Versions of two names, which may be links of one file; crashes, unreadable files, cut batches,
\* snapshots somebody removed, retention with forgets and failing requests, config versions.
ResticWorld == [versions |-> 2, twins |-> FALSE, stops |-> 0, removed |-> 0, unread |-> 0, cuts |-> 0, retentions |-> 0,
                configs |-> 0, back |-> 0, errors |-> 0, daily |-> 1]
ResticWorlds == {
    [ResticWorld EXCEPT !.versions = 3, !.stops = 1, !.unread = 1],
    [ResticWorld EXCEPT !.versions = 3, !.twins = TRUE, !.stops = 1],
    [ResticWorld EXCEPT !.versions = 3, !.retentions = 2, !.back = 1, !.daily = 0],
    [ResticWorld EXCEPT !.versions = 3, !.removed = 1, !.retentions = 1],
    [ResticWorld EXCEPT !.configs = 3, !.retentions = 2, !.errors = 1],
    [ResticWorld EXCEPT !.configs = 2, !.retentions = 2, !.errors = 1, !.stops = 1],
    [ResticWorld EXCEPT !.cuts = 2, !.stops = 1, !.twins = TRUE]}
Restic == INSTANCE ResticSync WITH world <- v1, used <- v2, src <- v3, twins <- v4, newest <- v5,
    cat <- v6, snaps <- v7, rows <- v8, conf <- v9, requests <- v10, rec <- v11, ret <- v12,
    job <- v13, items <- v14, run <- v15, known <- v16, excused <- v17, Names <- 1..2,
    Jobs <- 1..3, Worlds <- ResticWorlds, None <- None
-----------------------------------------------------------------------------
\* Copies of Plex's databases while Plex commits, stops, dies and starts, in each journal mode;
\* damaged databases, refused schemas, a full disk, changing preferences.
PcEach(x) == [d \in {"library", "blobs"} |-> x]
PcSchema ==
    [tables |-> TRUE, expression |-> FALSE, indexes |-> [title |-> "clause", sort |-> "column", id |-> "builtin"]]
PcWorld == [mode |-> "wal", blobs |-> FALSE, up |-> TRUE, space |-> TRUE, prefs |-> 1, commits |-> 2, starts |-> 1, writes |-> 0,
            errors |-> 0, crashes |-> 0, runs |-> 1, damage |-> PcEach({}), schema |-> PcEach(PcSchema)]
PcWorlds ==
    {[PcWorld EXCEPT !.mode = m, !.up = u] : m \in {"wal", "journal"}, u \in BOOLEAN}
    \cup {[PcWorld EXCEPT !.mode = m, !.commits = 1, !.errors = 1, !.crashes = 1, !.runs = 2] : m \in {"wal", "journal"}}
    \cup {[PcWorld EXCEPT !.mode = m, !.blobs = TRUE, !.commits = 1] : m \in {"wal", "journal"}}
    \cup {[PcWorld EXCEPT !.prefs = p, !.writes = 2, !.commits = 0, !.space = s] : p \in 0..1, s \in BOOLEAN}
    \cup {[PcWorld EXCEPT !.blobs = TRUE, !.commits = 0, !.up = FALSE, !.damage["library"] = l, !.damage["blobs"] = m,
                          !.schema["library"].tables = t, !.schema["blobs"].expression = e] :
              l \in {{}, {"sort"}, {"id"}}, m \in {{}, {"title", "page"}}, t \in BOOLEAN, e \in BOOLEAN}
-----------------------------------------------------------------------------
\* PlexCopy stands still in the behaviours of the other components.
Still == Init /\ world = CHOOSE w \in Worlds : TRUE

AllInit ==
    \/ /\ part = "PlexCopy" /\ Init
       /\ v1 = None /\ v2 = None /\ v3 = None /\ v4 = None /\ v5 = None /\ v6 = None /\ v7 = None /\ v8 = None
       /\ v9 = None /\ v10 = None /\ v11 = None /\ v12 = None /\ v13 = None /\ v14 = None /\ v15 = None /\ v16 = None
       /\ v17 = None
    \/ part = "RcloneSync" /\ Rclone!Init /\ Still /\ v15 = None /\ v16 = None /\ v17 = None
    \/ part = "ResticSync" /\ Restic!Init /\ Still

AllNext ==
    /\ UNCHANGED part
    /\ \/ part = "PlexCopy" /\ Next /\ UNCHANGED slots
       \/ part = "RcloneSync" /\ Rclone!Next /\ UNCHANGED vars /\ UNCHANGED <<v15, v16, v17>>
       \/ part = "ResticSync" /\ Restic!Next /\ UNCHANGED vars

AllSpec == AllInit /\ [][AllNext]_allVars

-----------------------------------------------------------------------------
\* Whatever rclone moves, uploads, half moves and ends of the process there are, every object
\* that was ever at the destination is still at some path until it expires.
NothingLost == part = "RcloneSync" => Rclone!NothingLost

\* After an rclone sync that ended without failed items, whatever earlier jobs left, every
\* scanned file has its version recorded, and a present record has its undamaged object.
RecordsTruthful == part = "RcloneSync" => Rclone!RecordsTruthful /\ Rclone!EveryFileRecorded

\* At every step, also after any end of the process, the version of every present restic record
\* is in the snapshot it names, and so is every retained and config version: nothing is recorded
\* that was not read back, and no forget takes a snapshot somebody needs, or the last complete one,
\* also when others removed the newest after the forget was planned.
Restorable == part = "ResticSync" => Restic!Restorable

\* A version that was ever recorded stays recorded until it expires or others remove its
\* snapshots, and a sync that ends with every item done has every scanned file recorded, across
\* crashes and batches recorded twice.
VersionsKept == part = "ResticSync" => Restic!VersionsKept /\ Restic!EveryFileRecorded

=============================================================================
