------------------------------ MODULE ItemFlags ------------------------------
(***************************************************************************)
(* Irreplaceable flags (internal/tiers: flags.go, resolve.go, engine.go;   *)
(* internal/syncer/tiers.go: followMoves). A flag names a file, a folder   *)
(* or an *arr item; it has to stay with what it flags while folders are    *)
(* renamed, the *arr moves or forgets the item, and each destination's     *)
(* sync finds out about a rename at its own time, crashes between two      *)
(* moves and replays the ones it made. Every file keeps its name: a path   *)
(* is the folder of a file.                                                *)
(***************************************************************************)
EXTENDS Integers, FiniteSets, TLC

CONSTANTS Files, Folders, Dests, Worlds, None

VARIABLES
    world, used,    \* bounds of this behaviour and what is used of them
    at,             \* file -> its folder on disk
    cat,            \* file -> its folder in the catalog
    rec,            \* destination -> file -> the folder it is recorded at
    item,           \* the *arr item's folder, None when deleted; the index is up to date
    flags,          \* item_flags: file -> folder, folder set, the *arr flag's last folder
    job,            \* destination -> its sync job
    owed            \* history: what the user flagged: <<kind, file>>

vars == <<world, used, at, cat, rec, item, flags, job, owed>>

Use(what) == used[what] < world[what] /\ used' = [used EXCEPT ![what] = @ + 1]
Idle == [st |-> "idle", todo |-> {}, done |-> {}]
Start == CHOOSE d \in Folders : TRUE

Init ==
    /\ world \in Worlds
    /\ used = [renames |-> 0, moves |-> 0, crashes |-> 0, flags |-> 0, deletes |-> 0]
    /\ at = [f \in Files |-> Start] /\ cat = at /\ rec = [d \in Dests |-> at]
    /\ item = Start
    /\ flags = [file |-> <<>>, folders |-> {}, arr |-> FALSE, last |-> None]
    /\ job = [d \in Dests |-> Idle]
    /\ owed = {}

-----------------------------------------------------------------------------
(* The user and the *arr.                                                  *)

\* The user flags what the library shows and a destination has backed up.
Settled(f) == at[f] = cat[f] /\ \E d \in Dests : rec[d][f] = cat[f] /\ job[d].st = "idle"

\* In a calm world the user flags a folder while no sync of it is under way.
Whole(folder) == /\ world.calm => \A d \in Dests : job[d] = Idle
                 /\ \A f \in Files : /\ at[f] = folder => Settled(f)
                                     /\ at[f] # folder => cat[f] # folder /\ \A d \in Dests : rec[d][f] # folder

\* AddFlag: a path flag needs no index; an *arr flag records the item's located folder.
AddFlag ==
    /\ Use("flags")
    /\ \/ \E f \in Files : /\ "file" \in world.kinds /\ Settled(f)
                           /\ flags' = [flags EXCEPT !.file = (f :> at[f]) @@ @]
                           /\ owed' = owed \cup {<<"file", f>>}
       \/ \E d \in {at[f] : f \in Files} :
             /\ "folder" \in world.kinds /\ Whole(d)
             /\ flags' = [flags EXCEPT !.folders = @ \cup {d}]
             /\ owed' = owed \cup {<<"folder", f>> : f \in {x \in Files : at[x] = d}}
       \/ /\ "item" \in world.kinds /\ item # None /\ Whole(item)
          /\ flags' = [flags EXCEPT !.arr = TRUE, !.last = item]
          /\ owed' = owed \cup {<<"item", f>> : f \in {x \in Files : at[x] = item}}
    /\ UNCHANGED <<world, at, cat, rec, item, job>>

Unused(e) == /\ \A f \in Files : e # at[f] /\ e # cat[f] /\ \A d \in Dests : e # rec[d][f]
             /\ e \notin flags.folders /\ e # flags.last

\* A folder is renamed; the *arr's own folder by the *arr.
RenameFolder ==
    /\ Use("renames")
    /\ \E d \in {at[f] : f \in Files}, e \in Folders :
          /\ Unused(e)
          /\ at' = [f \in Files |-> IF at[f] = d THEN e ELSE at[f]]
          /\ item' = IF item = d THEN e ELSE item
    /\ UNCHANGED <<world, cat, rec, flags, job, owed>>

\* One file is moved: a flag of its folder is not its own.
MoveFile ==
    /\ Use("moves")
    /\ \E f \in Files, e \in Folders : Unused(e) /\ at' = [at EXCEPT ![f] = e]
    /\ owed' = {o \in owed : o[1] = "file"}
    /\ UNCHANGED <<world, cat, rec, item, flags, job>>

\* The item is deleted from the *arr, its files are not.
ArrDeletes ==
    /\ Use("deletes") /\ item # None /\ item' = None
    /\ UNCHANGED <<world, at, cat, rec, flags, job, owed>>

Scan ==
    /\ cat # at /\ cat' = at
    /\ UNCHANGED <<world, used, at, rec, item, flags, job, owed>>

-----------------------------------------------------------------------------
(* A destination's sync.                                                   *)

\* The files recorded at another folder than the catalog's are its moves.
SyncStarts(d) ==
    /\ job[d].st = "idle" /\ \E f \in Files : rec[d][f] # cat[f]
    /\ job' = [job EXCEPT ![d] = [Idle EXCEPT !.st = "exec",
                 !.todo = {[f |-> f, from |-> rec[d][f], to |-> cat[f]] : f \in {x \in Files : rec[d][x] # cat[x]}}]]
    /\ UNCHANGED <<world, used, at, cat, rec, item, flags, owed>>

\* MoveFlagsTx, in the transaction that records the move: a file's own flag goes with it.
MoveFlagsTx(m) ==
    IF m.f \in DOMAIN flags.file /\ flags.file[m.f] = m.from
    THEN [flags EXCEPT !.file = [@ EXCEPT ![m.f] = m.to]] ELSE flags

\* A move whose file is not there any more fails.
SyncMoves(d) ==
    /\ job[d].st = "exec"
    /\ \E m \in job[d].todo :
          /\ at[m.f] = m.to
          /\ rec' = [rec EXCEPT ![d][m.f] = m.to]
          /\ flags' = MoveFlagsTx(m)
          /\ job' = [job EXCEPT ![d].todo = @ \ {m}, ![d].done = @ \cup {m}]
    /\ UNCHANGED <<world, used, at, cat, item, owed>>

\* renamedFolder: every move from under the folder lands under one other folder.
RenamedFolder(folder, moves) ==
    LET to == {m.to : m \in {x \in moves : x.from = folder}} IN
    IF Cardinality(to) = 1 THEN CHOOSE g \in to : TRUE ELSE None
AnyLiveUnder(folder) == \E f \in Files : cat[f] = folder
Followed(folder, moves) ==
    LET to == RenamedFolder(folder, moves) IN IF to = None \/ AnyLiveUnder(folder) THEN folder ELSE to

\* FlagsAfterSync: folder flags and the last folders of *arr flags follow the moves; then a
\* resolved *arr flag's last folder is the item's.
FlagsAfterSync(moves) ==
    [flags EXCEPT !.folders = {Followed(x, moves) : x \in @},
                  !.last = IF ~flags.arr THEN @ ELSE IF item # None THEN item ELSE Followed(@, moves)]

\* doneMoves: the moves that are recorded, by this attempt or an earlier one, are read back from
\* the job's items.
DoneMoves(d) == {m \in job[d].done : m.from # m.to}
\* followMoves: after every attempt and when a job ends without running again (OnJobFinish).
MutFollowMoves(d) == IF job[d].st = "queued" THEN flags ELSE FlagsAfterSync(DoneMoves(d))
FollowMoves(d) == IF DoneMoves(d) = {} THEN flags ELSE FlagsAfterSync(DoneMoves(d))

\* The attempt ends; moves it did not make stay for the next sync.
SyncEnds(d) ==
    /\ job[d].st = "exec"
    /\ flags' = FollowMoves(d)
    /\ job' = [job EXCEPT ![d] = Idle]
    /\ UNCHANGED <<world, used, at, cat, rec, item, owed>>

\* A job cancelled in the queue, or failed by crash recovery, never runs again.
QueuedEnds(d) ==
    /\ job[d].st = "queued"
    /\ flags' = FollowMoves(d)
    /\ job' = [job EXCEPT ![d] = Idle]
    /\ UNCHANGED <<world, used, at, cat, rec, item, owed>>

Crash ==
    /\ Use("crashes")
    /\ job' = [d \in Dests |-> IF job[d].st = "exec" THEN [job[d] EXCEPT !.st = "queued"] ELSE job[d]]
    /\ UNCHANGED <<world, at, cat, rec, item, flags, owed>>

\* The resumed job makes the moves left of its plan that are still so.
Resume(d) ==
    /\ job[d].st = "queued"
    /\ job' = [job EXCEPT ![d].st = "exec", ![d].todo = {m \in @ : cat[m.f] = m.to}]
    /\ UNCHANGED <<world, used, at, cat, rec, item, flags, owed>>

Next ==
    \/ AddFlag \/ RenameFolder \/ MoveFile \/ ArrDeletes \/ Scan \/ Crash
    \/ \E d \in Dests : SyncStarts(d) \/ SyncMoves(d) \/ SyncEnds(d) \/ QueuedEnds(d) \/ Resume(d)

Spec == Init /\ [][Next]_vars

-----------------------------------------------------------------------------
(* Properties.                                                             *)

\* resolvedFlag.covers: by the flag's path, the item's folder, or the last folder of an item
\* that is gone.
Covered(f) ==
    \/ f \in DOMAIN flags.file /\ flags.file[f] = cat[f]
    \/ cat[f] \in flags.folders
    \/ flags.arr /\ cat[f] = (IF item # None THEN item ELSE flags.last)

\* Once every destination has followed every rename, each file the user flagged, by its path,
\* its folder or its *arr item, is still covered: through renames, moves, crashes between a
\* move and its flags, syncs that replay their moves, and an *arr that forgets the item
\* (MoveFlagsTx, FollowFolderMoves, followMoves, resolveFlags).
FlaggedStaysCovered ==
    (cat = at /\ \A d \in Dests : rec[d] = cat /\ job[d].st = "idle")
        => \A o \in owed : Covered(o[2])
==============================================================================
