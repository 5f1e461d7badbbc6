----------------------------- MODULE MediaIndex -----------------------------
(***************************************************************************)
(* The media index of one *arr (internal/mediaindex): refresh jobs read    *)
(* the *arr and change the index, and every change they write is followed  *)
(* by syncs of the folders it concerns. What is owed is kept as pending    *)
(* job items (intents, or the mark of a refresh that overflowed), stored   *)
(* before the index changes, so that a crash, a cancel or a failure in     *)
(* between loses none. Refreshes of one integration exclude each other     *)
(* (JobQueue); what a queued sync then does is SyncRuns and SyncItem.      *)
(*                                                                         *)
(* An item of the *arr is [there, folder, file]: file is the id of its one *)
(* file, 0 when it has none, and a replacement gets a new id. A batch is   *)
(* one item. A folder's place is the set of [src, root] it locates in;     *)
(* root says that it is the source's own folder. Unmapped folders and      *)
(* those in no source have no place.                                       *)
(***************************************************************************)
EXTENDS Integers, FiniteSets, SequencesExt

CONSTANTS
    Items, Folders, Roots, Sources,
    Jobs,               \* job ids, 1..n
    MaxTime,            \* bound: the clock and the times made from it
    MaxFile,            \* bound: file ids
    GuardMinimum, MaxTargetPaths, PurgeAfter, MaxAttempts, MaxURL,
    Worlds,             \* the settings explored (WorldType)
    None

Requests == [mode : {"full", "targeted", "items", "overflow"}, ids : SUBSET Items, dry : BOOLEAN, allow : BOOLEAN]
ArrItems == [there : BOOLEAN, folder : Folders, file : 0..MaxFile]
URLs == 0..MaxURL
Times == 0..MaxTime

\* A setting: what the *arrs hold at first and whether the index has the first one; whether
\* files are read item by item; the folders' root folders and places, the sources of the root
\* folders, the folders missing where they map to, the enabled sources, the destinations; the
\* requests that arrive; and bounds: jobs, changes of the *arr, ends of the process, failing
\* calls, cancels, new URLs, changes of accessibility; and what the clock may say.
WorldType == [start : [URLs -> [Items -> ArrItems]], indexed : BOOLEAN, perItem : BOOLEAN,
              rootOf : [Folders -> Roots], place : [Folders -> SUBSET [src : Sources, root : BOOLEAN]],
              rootPlace : SUBSET Sources, missing : SUBSET Folders, on : SUBSET Sources,
              dests : SUBSET [enabled : BOOLEAN, onChange : BOOLEAN, sources : SUBSET Sources],
              requests : SUBSET Requests, jobs : Nat, changes : Nat, crashes : Nat, errors : Nat,
              cancels : Nat, urls : Nat, deads : Nat, clock : SUBSET Times]

ASSUME MediaIndexAssumption ==
    /\ Jobs \subseteq Nat \ {0} /\ IsFiniteSet(Jobs) /\ {MaxTime, MaxFile, PurgeAfter, MaxURL} \subseteq Nat
    /\ {GuardMinimum, MaxTargetPaths} \subseteq Nat /\ MaxAttempts \in Nat \ {0}
    /\ None \notin Folders \cup Items \cup URLs
    /\ \A w \in Worlds : w.place \in [Folders -> SUBSET [src : Sources, root : BOOLEAN]] /\ w.requests \subseteq Requests

VARIABLES
    world, used,        \* the setting, chosen once, and what is used of its bounds
    url, dead, app,     \* the integration's URL, the inaccessible root folders, and whether
                        \* the expected application answers there
    arr,                \* the *arrs' items
    items, files,       \* arr_items and arr_files
    state,              \* index_state and the root folders of arr_meta
    job,                \* the refresh jobs and their pending job items
    run,                \* the running attempt
    owed, dropped,      \* history: <<folder, source>> of the indexed changes that no sync was
                        \* queued for since; those of them given up with a warning or a cancel
    had                 \* history: the states of each item since the attempt began

index == <<items, files, state>>
hist == <<owed, dropped, had>>
outside == <<url, dead, app, arr>>
vars == <<world, used, outside, index, job, run, hist>>

NoRow == [known |-> FALSE, folder |-> None, has |-> FALSE, deleted |-> 0, seen |-> 0, inst |-> None]

NewJob == [st |-> "new", mode |-> "full", ids |-> {}, dry |-> FALSE, allow |-> FALSE, tries |-> 0,
           pending |-> {}, mark |-> FALSE]

\* The running attempt: its step, its URL and time; whether there is nothing to reconcile
\* against, or the index is another instance's; the inaccessible roots and whether it read the
\* root folders; the items left, what it fetched, the item being written; the counts before;
\* what it removes; the sources refused when it queued syncs, and how it ends.
Idle == [job |-> 0, at |-> "idle", url |-> 0, runAt |-> 0, first |-> FALSE, changed |-> FALSE, dead |-> {},
         roots |-> FALSE, todo |-> {}, list |-> [i \in Items |-> None], item |-> None, listed |-> 0,
         nItems |-> 0, nFiles |-> 0, takes |-> {}, takesFiles |-> {}, held |-> FALSE, refused |-> {}, end |-> "done"]

\* A file row: the file's id, its item, its folder and when it was seen.
File(i, id, folder, t) == IF id = 0 THEN {} ELSE {[id |-> id, item |-> i, folder |-> folder, seen |-> t]}

Init ==
    /\ world \in Worlds
    /\ used = [changes |-> 0, crashes |-> 0, errors |-> 0, cancels |-> 0, deads |-> 0]
    /\ url = 0 /\ dead = {} /\ app = TRUE /\ arr = world.start
    /\ items = [i \in Items |-> IF world.indexed /\ arr[0][i].there
                                THEN [known |-> TRUE, folder |-> arr[0][i].folder, has |-> arr[0][i].file > 0,
                                      deleted |-> 0, seen |-> 1, inst |-> 0]
                                ELSE NoRow]
    /\ files = IF world.indexed THEN UNION {File(i, arr[0][i].file, arr[0][i].folder, 1) : i \in {x \in Items : arr[0][x].there}} ELSE {}
    /\ state = IF world.indexed
               THEN [refreshed |-> 1, instance |-> 0, attempted |-> 1, status |-> "ok", dead |-> {}, roots |-> TRUE]
               ELSE [refreshed |-> 0, instance |-> None, attempted |-> 0, status |-> "never", dead |-> {}, roots |-> FALSE]
    /\ job = [j \in Jobs |-> NewJob]
    /\ run = Idle /\ owed = {} /\ dropped = {} /\ had = [i \in Items |-> {}]

Me == job[run.job]
\* The webhooks' refreshes, of items or (overflow) of the whole library, ask for follow-ups; a
\* refresh of items that does not ("items") owes none.
SyncAfter(j) == job[j].mode \in {"targeted", "overflow"}
Targeted == Me.mode \in {"targeted", "items"}
WantIntents == ~Me.dry /\ (Me.mode = "targeted" \/ (Me.mode = "full" /\ ~run.first))
Live(j) == job[j].st \in {"queued", "running"}
Used(what) == used' = [used EXCEPT ![what] = @ + 1]
Left(what) == used[what] < world[what]

-----------------------------------------------------------------------------
(* The follow-up syncs.                                                    *)

Places(f) == IF f = None THEN {} ELSE world.place[f]
Followable(s) == s \in world.on /\ \E d \in world.dests : d.enabled /\ d.onChange /\ s \in d.sources
Concerns(folders) ==
    {<<f, s>> \in (folders \ {None}) \X Sources : Followable(s) /\ \E p \in Places(f) : p.src = s}

\* The folders of intents, and whether each must exist.
FolderKeys(list) == {k \in ({<<in.old, FALSE>> : in \in list} \cup {<<in.new, in.has>> : in \in list}) : k[1] # None}

WholeSources(list) ==
    {p.src : p \in UNION {{q \in Places(k[1]) : q.root \/ (k[2] /\ k[1] \in world.missing)} : k \in FolderKeys(list)}}
TargetPaths(list, s) ==
    {k[1] : k \in {x \in FolderKeys(list) : /\ x[2] => x[1] \notin world.missing
                                            /\ \E p \in Places(x[1]) : p.src = s /\ ~p.root}}

MutCovered(list, whole, refused) ==
    {<<f, s>> \in Folders \X (Sources \ refused) :
        Followable(s) /\ (s \in whole \cup WholeSources(list) \/ \E in \in list : in.new = f /\ f \in TargetPaths(list, s))}

\* What the syncs cover that are queued for intents and for whole sources, when the queue
\* refuses some sources' syncs.
Covered(list, whole, refused) ==
    {<<f, s>> \in Folders \X (Sources \ refused) :
        /\ Followable(s)
        /\ \/ s \in whole \cup WholeSources(list)
           \/ f \in TargetPaths(list, s)
           \/ Cardinality(TargetPaths(list, s)) > MaxTargetPaths}

QueueSyncs(list, whole, refused) ==
    /\ owed' = owed \ Covered(list, whole, refused)
    /\ dropped' = dropped \ Covered(list, whole, refused)

Refusals == IF Left("errors") THEN {{}, Sources} \cup {{s} : s \in Sources} ELSE {{}}
Spend(r) == used' = [used EXCEPT !.errors = IF r = {} THEN @ ELSE @ + 1]

\* The sources of the root folders: as this attempt or an earlier one read them.
RootFolderSources == IF run.roots \/ state.roots THEN world.rootPlace ELSE {}

\* Jobs that ended without their runner, with intents or a mark still pending.
StrandedJobs ==
    {k \in Jobs \ {run.job} : /\ ~job[k].dry /\ (job[k].pending # {} \/ job[k].mark)
                              /\ job[k].st = "failed" \/ (job[k].st = "cancelled" /\ ~SyncAfter(k))}

Settled(J) == [k \in Jobs |-> IF k \in J THEN [job[k] EXCEPT !.pending = {}, !.mark = FALSE] ELSE job[k]]

Queue(list, whole, after) ==
    \E r \in Refusals :
        /\ QueueSyncs(list, whole, r) /\ Spend(r)
        /\ run' = [run EXCEPT !.at = after, !.refused = r]
        /\ UNCHANGED <<world, outside, index, job, had>>

\* The syncs earlier refreshes left pending. The intents' folders are not checked; when a sync is
\* refused they stay pending.
FollowUpStranded ==
    /\ run.at = "stranded"
    /\ IF Me.dry \/ StrandedJobs = {}
       THEN run' = [run EXCEPT !.at = "start"] /\ UNCHANGED <<world, used, outside, index, job, hist>>
       ELSE Queue({[in EXCEPT !.has = FALSE] : in \in UNION {job[k].pending : k \in StrandedJobs}},
                  IF \E k \in StrandedJobs : job[k].mark THEN RootFolderSources ELSE {}, "strandedSettle")

SettleStranded ==
    /\ run.at = "strandedSettle"
    /\ run' = [run EXCEPT !.at = "start", !.refused = {}]
    /\ job' = IF run.refused = {} THEN Settled(StrandedJobs) ELSE job
    /\ UNCHANGED <<world, used, outside, index, hist>>

End(j, st) == job' = [j EXCEPT ![run.job].st = st]
Stop == run' = Idle /\ had' = [i \in Items |-> {}]

\* After a success: the intents of this job, or the sources of the root folders it read. A first
\* full refresh reads no intents.
FollowUp ==
    /\ run.at = "follow"
    /\ IF Me.mode = "overflow" THEN Queue({}, IF run.roots THEN world.rootPlace ELSE {}, "settle")
       ELSE IF WantIntents /\ Me.pending # {} THEN Queue(Me.pending, {}, "settle")
       ELSE End(job, "done") /\ Stop /\ UNCHANGED <<world, used, outside, index, owed, dropped>>

\* The folder of a requested item as the index has it, when no intent names the item.
RequestedFolders ==
    {[item |-> i, old |-> None, new |-> items[i].folder, has |-> FALSE] :
        i \in {x \in Me.ids : Me.mode = "targeted" /\ items[x].known /\ ~\E in \in Me.pending : in.item = x}}

FollowUpAfterFailure ==
    /\ run.at = "failing"
    /\ IF ~Me.dry /\ (Me.pending # {} \/ SyncAfter(run.job))
       THEN Queue(Me.pending \cup RequestedFolders, IF Me.mode = "overflow" THEN RootFolderSources ELSE {}, "settle")
       ELSE End(job, "failed") /\ Stop /\ UNCHANGED <<world, used, outside, index, owed, dropped>>

\* A cancelled or shut-down full refresh follows up what it recorded.
FollowUpCancelled ==
    /\ run.at = "cancelled"
    /\ IF ~SyncAfter(run.job) /\ Me.pending # {} /\ ~Me.dry
       THEN Queue(Me.pending, {}, "settle")
       ELSE End(job, run.end) /\ Stop /\ UNCHANGED <<world, used, outside, index, owed, dropped>>

\* The items are marked done, or failed with a warning when a sync was refused.
Settle ==
    /\ run.at = "settle"
    /\ End(Settled({run.job}), run.end) /\ Stop
    /\ dropped' = IF run.refused = {} THEN dropped ELSE dropped \cup {p \in owed : p[2] \in run.refused}
    /\ UNCHANGED <<world, used, outside, index, owed>>

\* The pending items cannot be read: a warning, and nothing is queued or settled.
FollowUpBroken ==
    /\ run.at \in {"follow", "failing", "cancelled"} /\ Left("errors") /\ ~Me.dry /\ Used("errors")
    /\ End(job, run.end) /\ Stop
    /\ dropped' = IF run.end = "done" THEN dropped \cup owed ELSE dropped
    /\ UNCHANGED <<world, outside, index, owed>>

-----------------------------------------------------------------------------
(* An attempt.                                                             *)

Arr == arr[run.url]

Begin(j, t) ==
    /\ run.at = "idle" /\ job[j].st = "queued" /\ \A k \in Jobs : job[k].st = "queued" => k >= j
    /\ job' = [job EXCEPT ![j].st = "running"]
    /\ run' = [Idle EXCEPT !.job = j, !.at = "stranded", !.url = url, !.runAt = t]
    /\ had' = [i \in Items |-> {arr[url][i]}]
    /\ UNCHANGED <<world, used, outside, index, owed, dropped>>

LastSeen == Max({items[i].seen : i \in Items} \cup {f.seen : f \in files} \cup {state.attempted})

MutRunAt(t, last) == t

\* Later than everything the index has, whatever the clock says.
RunAt(t, last) == IF t > last THEN t ELSE last + 1

\* An overflow refresh marks, before it writes, that the sync of the root folders is owed.
Marked == IF Me.mode = "overflow" /\ ~Me.dry THEN [job EXCEPT ![run.job].mark = TRUE] ELSE job

Start ==
    /\ run.at = "start" /\ run.url = url /\ RunAt(run.runAt, LastSeen) <= MaxTime
    /\ job' = Marked
    /\ run' = [run EXCEPT !.at = IF Targeted THEN "fetchOne" ELSE "meta",
                          !.todo = IF Targeted THEN Me.ids ELSE {},
                          !.runAt = RunAt(@, LastSeen),
                          !.changed = state.instance # run.url,
                          !.first = state.refreshed = 0 \/ state.instance # run.url]
    /\ UNCHANGED <<world, used, outside, index, hist>>

LiveItems == {i \in Items : items[i].known /\ items[i].deleted = 0}

\* The first write: the rows of another instance go, with its metadata and refreshed_at.
Begun(read) ==
    /\ items' = IF run.changed THEN [i \in Items |-> NoRow] ELSE items
    /\ files' = IF run.changed THEN {} ELSE files
    /\ state' = [state EXCEPT !.attempted = run.runAt, !.instance = run.url,
                              !.refreshed = IF run.changed THEN 0 ELSE @,
                              !.dead = IF read THEN dead ELSE IF run.changed THEN {} ELSE @,
                              !.roots = IF read THEN TRUE ELSE IF run.changed THEN FALSE ELSE @]

\* A full refresh counts the index, asks for the status and the metadata, and begins.
FetchMeta ==
    /\ run.at = "meta" /\ app
    /\ IF Me.dry THEN UNCHANGED index ELSE Begun(TRUE)
    /\ run' = [run EXCEPT !.at = "list", !.dead = dead, !.roots = TRUE,
                          !.nItems = Cardinality(LiveItems), !.nFiles = Cardinality(files)]
    /\ UNCHANGED <<world, used, outside, job, hist>>

FetchAll ==
    /\ run.at = "list"
    /\ LET listed == {i \in Items : Arr[i].there}
       IN run' = [run EXCEPT !.at = "items", !.todo = listed, !.listed = Cardinality(listed),
                             !.list = [i \in Items |-> IF i \in listed
                                         THEN [folder |-> Arr[i].folder, file |-> Arr[i].file, at |-> Arr[i].folder] ELSE None]]
    /\ UNCHANGED <<world, used, outside, index, job, hist>>

\* One requested item; None is a 404.
FetchOne(i) ==
    /\ run.at = "fetchOne" /\ i \in run.todo
    /\ run' = [run EXCEPT !.todo = @ \ {i},
                          !.list[i] = IF app /\ Arr[i].there
                                      THEN [folder |-> Arr[i].folder, file |-> Arr[i].file, at |-> Arr[i].folder] ELSE None]
    /\ UNCHANGED <<world, used, outside, index, job, hist>>

Gone == {i \in Me.ids : run.list[i] = None}

\* A 404 means deleted only when the expected application answers.
Believed == Gone # {} => app

\* The metadata is read again when the instance changed or an item names an unknown tag.
TargetedMeta(read) ==
    /\ run.at = "fetchOne" /\ run.todo = {} /\ Believed
    /\ (run.changed \/ read) => app
    /\ IF Me.dry THEN UNCHANGED index ELSE Begun(run.changed \/ read)
    /\ run' = [run EXCEPT !.at = "items", !.todo = Me.ids \ Gone,
                          !.roots = run.changed \/ read,
                          !.dead = IF run.changed \/ read THEN dead ELSE state.dead]
    /\ UNCHANGED <<world, used, outside, job, hist>>

FilesOf(i) == {f \in files : f.item = i}
SameFiles(i, f) == {<<x.id, x.folder>> : x \in FilesOf(i)} = {<<x.id, x.folder>> : x \in File(i, f.file, f.at, 0)}
UnderInaccessible(f) == world.rootOf[f.folder] \in run.dead

Change(i, old, new, has) == {[item |-> i, old |-> old, new |-> new, has |-> has]}

\* The intent of a fetched item: what differs from the index, or that it was requested.
IntentOf(i, f) ==
    LET row == items[i] has == f.file # 0
        moved == row.known /\ row.folder # f.folder
    IN  IF Targeted THEN Change(i, IF moved THEN row.folder ELSE None, f.folder, has)
        ELSE IF run.first THEN {}
        ELSE IF moved THEN Change(i, row.folder, f.folder, has)
        ELSE IF row.known /\ (~SameFiles(i, f) \/ (row.deleted > 0 /\ has)) THEN Change(i, None, f.folder, has)
        ELSE IF ~row.known /\ has THEN Change(i, None, f.folder, TRUE)
        ELSE {}

Persist(list) == job' = [job EXCEPT ![run.job].pending = IF WantIntents THEN @ \cup list ELSE @]

\* The next item's files are read, and its intent is stored before its rows change.
FetchItem(i) ==
    /\ run.at = "items" /\ i \in run.todo
    /\ LET f == IF world.perItem /\ ~Targeted
                THEN [run.list[i] EXCEPT !.file = IF Arr[i].there THEN Arr[i].file ELSE 0, !.at = Arr[i].folder]
                ELSE run.list[i]
       IN /\ Persist(IntentOf(i, f))
          /\ run' = [run EXCEPT !.todo = @ \ {i}, !.list[i] = f,
                                !.item = IF Me.dry THEN None ELSE i, !.at = IF Me.dry THEN @ ELSE "write"]
    /\ UNCHANGED <<world, used, outside, index, hist>>

\* The folders a written item concerns: nothing at the first full refresh of an instance.
Absorbed(i, f) ==
    IF run.first /\ ~SyncAfter(run.job) THEN {}
    ELSE LET row == items[i]
         IN Concerns(IF ~row.known THEN (IF f.file # 0 THEN {f.folder} ELSE {})
                     ELSE IF row.folder # f.folder THEN {row.folder, f.folder}
                     ELSE IF ~SameFiles(i, f) \/ (row.deleted > 0 /\ f.file # 0) THEN {f.folder} ELSE {})

\* Of an overflow refresh, what the sources of the root folders hold; of one of items without
\* follow-ups, nothing.
Owe(pairs) ==
    owed' = owed \cup {p \in pairs : Me.mode # "items" /\ (Me.mode = "overflow" => p[2] \in world.rootPlace)}

Unseen(i) == {f \in FilesOf(i) : f.seen # run.runAt /\ ~UnderInaccessible(f)}

\* The item's file is written; a targeted refresh removes the files it did not see.
Written(i, f) ==
    {x \in files : x.id # f.file /\ ~(Targeted /\ x \in Unseen(i))} \cup File(i, f.file, f.at, run.runAt)

Flush ==
    /\ run.at = "write"
    /\ LET i == run.item f == run.list[run.item]
       IN /\ Owe(Absorbed(i, f))
          /\ items' = [items EXCEPT ![i] = [known |-> TRUE, folder |-> f.folder, has |-> f.file # 0, deleted |-> 0,
                                            seen |-> run.runAt, inst |-> run.url]]
          /\ files' = Written(i, f)
    /\ run' = [run EXCEPT !.at = "items", !.item = None]
    /\ UNCHANGED <<world, used, outside, state, job, dropped, had>>

GoneItems == {i \in LiveItems : items[i].seen # run.runAt}
GoneFiles == {f \in files : f.seen # run.runAt}
HadFiles(i) == items[i].has \/ FilesOf(i) # {}

ItemsHeld == GoneItems # {} /\ \/ run.listed = 0 /\ run.nItems > 0
                               \/ Cardinality(GoneItems) * 2 > run.nItems /\ Cardinality(GoneItems) > GuardMinimum
TakesItems == IF ItemsHeld /\ ~Me.allow THEN {} ELSE GoneItems
FilesTaken == {f \in GoneFiles : ~UnderInaccessible(f) /\ (f.item \in GoneItems => f.item \in TakesItems)}
FilesHeld == Cardinality(FilesTaken) * 2 > run.nFiles /\ Cardinality(FilesTaken) > GuardMinimum

Guard == [run EXCEPT !.at = "finish", !.takes = TakesItems, !.held = (ItemsHeld \/ FilesHeld) /\ ~Me.allow,
                     !.takesFiles = IF FilesHeld /\ ~Me.allow THEN {} ELSE FilesTaken]

\* What the complete fetch did not see, less what the guard holds; its intents are stored.
GoneRows ==
    /\ run.at = "items" /\ ~Targeted /\ run.todo = {}
    /\ IF Me.dry THEN run' = [run EXCEPT !.at = "follow"] /\ UNCHANGED job
       ELSE /\ run' = Guard
            /\ Persist(UNION {Change(i, items[i].folder, None, FALSE) : i \in {x \in Guard.takes : HadFiles(x)}})
    /\ UNCHANGED <<world, used, outside, index, hist>>

FinishFull ==
    /\ run.at = "finish"
    /\ Owe(IF run.first /\ ~SyncAfter(run.job) THEN {} ELSE Concerns({items[i].folder : i \in {x \in run.takes : HadFiles(x)}}))
    /\ LET marked == [i \in Items |-> IF i \in run.takes THEN [items[i] EXCEPT !.deleted = run.runAt] ELSE items[i]]
           purged == {i \in Items : marked[i].deleted > 0 /\ marked[i].deleted < run.runAt - PurgeAfter}
       IN /\ items' = [i \in Items |-> IF i \in purged THEN NoRow ELSE marked[i]]
          /\ files' = {f \in files \ run.takesFiles : f.item \notin purged}
    /\ state' = [state EXCEPT !.status = "ok", !.instance = run.url, !.refreshed = IF run.held THEN @ ELSE run.runAt]
    /\ run' = [run EXCEPT !.at = "follow"]
    /\ UNCHANGED <<world, used, outside, job, dropped, had>>

TargetedGone == {i \in Gone : items[i].known /\ items[i].deleted = 0 /\ ~run.changed}

\* The items that answered 404: their intents, then their rows.
PersistGone ==
    /\ run.at = "items" /\ Targeted /\ run.todo = {}
    /\ Persist(UNION {Change(i, items[i].folder, None, FALSE) : i \in TargetedGone})
    /\ run' = [run EXCEPT !.at = IF Me.dry THEN "follow" ELSE "gone", !.takes = TargetedGone]
    /\ UNCHANGED <<world, used, outside, index, hist>>

MarkTargetedGone ==
    /\ run.at = "gone"
    /\ Owe(Concerns({items[i].folder : i \in {x \in run.takes : HadFiles(x)}}))
    /\ items' = [i \in Items |-> IF i \in run.takes THEN [items[i] EXCEPT !.deleted = run.runAt] ELSE items[i]]
    /\ files' = {f \in files : f.item \notin run.takes}
    /\ run' = [run EXCEPT !.at = "record"]
    /\ UNCHANGED <<world, used, outside, state, job, dropped, had>>

RecordTargeted ==
    /\ run.at = "record"
    /\ state' = [state EXCEPT !.status = "ok", !.attempted = run.runAt]
    /\ run' = [run EXCEPT !.at = "follow"]
    /\ UNCHANGED <<world, used, outside, items, files, job, hist>>

Working == run.at \in {"start", "meta", "list", "fetchOne", "items", "write", "finish", "gone", "record"}

\* What makes the attempt fail whatever else happens.
Doomed ==
    \/ run.at = "start" /\ run.url # url
    \/ run.at = "meta" /\ ~app
    \/ run.at = "fetchOne" /\ run.todo = {} /\ ~app
    \/ run.at = "items" /\ world.perItem /\ ~Targeted /\ \E i \in run.todo : ~Arr[i].there

RecordFailure == IF Me.dry THEN UNCHANGED state ELSE state' = [state EXCEPT !.status = "failed", !.attempted = run.runAt]

Fail ==
    /\ Working
    /\ \/ Doomed /\ UNCHANGED used
       \/ Left("errors") /\ Used("errors")
    /\ RecordFailure
    /\ run' = [run EXCEPT !.at = "failing", !.end = "failed"]
    /\ UNCHANGED <<world, outside, items, files, job, hist>>

\* A cancel or a shutdown while the attempt works or queues: ctx ends. A cancelled webhook
\* refresh has its events re-armed: the same request arrives again (Webhooks).
Interrupt(st) ==
    /\ Working \/ run.at \in {"stranded", "strandedSettle", "follow"} \/ (run.at = "settle" /\ run.end = "done")
    /\ Left("cancels") /\ Used("cancels")
    /\ run' = [run EXCEPT !.at = "cancelled", !.end = st]
    /\ UNCHANGED <<world, outside, index, job, hist>>

Request(j, r) ==
    /\ job[j].st = "new" /\ \A k \in Jobs : k < j => job[k].st # "new"
    /\ j <= world.jobs
    /\ job' = [job EXCEPT ![j] = [NewJob EXCEPT !.st = "queued", !.mode = r.mode, !.ids = r.ids, !.dry = r.dry, !.allow = r.allow]]

Arrives(j, r) == Request(j, r) /\ UNCHANGED <<world, used, outside, index, run, hist>>

\* The events of a cancelled webhook refresh come again. The folders only its intents know are
\* given up.
Rearm(j) ==
    /\ job[j].st = "cancelled" /\ SyncAfter(j) /\ ~job[j].dry
    /\ \A k \in Jobs : k < j => job[k].st # "cancelled"
    /\ job' = [job EXCEPT ![j] = [NewJob EXCEPT !.st = "queued", !.mode = job[j].mode, !.ids = job[j].ids]]
    /\ dropped' = dropped \cup (owed \cap Concerns({in.old : in \in job[j].pending}))
    /\ UNCHANGED <<world, used, outside, index, run, owed, had>>

\* A queued job, resumed after a crash or not, is cancelled without its runner.
CancelQueued(j) ==
    /\ job[j].st = "queued" /\ Left("cancels") /\ Used("cancels")
    /\ job' = [job EXCEPT ![j].st = "cancelled"]
    /\ UNCHANGED <<world, outside, index, run, hist>>

\* The end of the process: the job is resumed, or failed after too many crashes.
Crash ==
    /\ run.at # "idle" /\ Left("crashes") /\ Used("crashes")
    /\ job' = [job EXCEPT ![run.job].tries = @ + 1,
                          ![run.job].st = IF Me.tries + 1 >= MaxAttempts THEN "failed" ELSE "queued"]
    /\ Stop /\ UNCHANGED <<world, outside, index, owed, dropped>>

\* The integration gets another URL, which needs a full refresh.
ChangeURL(j) ==
    /\ url < world.urls /\ url' = url + 1
    /\ Request(j, [mode |-> "full", ids |-> {}, dry |-> FALSE, allow |-> FALSE])
    /\ UNCHANGED <<world, used, dead, app, arr, index, run, hist>>

Edits(a) ==
    IF a.there THEN {[a EXCEPT !.there = FALSE]} \cup {[a EXCEPT !.folder = f] : f \in Folders}
                    \cup {[a EXCEPT !.file = n] : n \in {0, a.file + 1} \cap 0..MaxFile}
    ELSE {[a EXCEPT !.there = TRUE]}

ArrChanges(i, b) ==
    /\ Left("changes") /\ Used("changes") /\ b # arr[url][i]
    /\ b.file # 0 => \A k \in Items \ {i} : arr[url][k].file # b.file
    /\ arr' = [arr EXCEPT ![url][i] = b]
    /\ had' = IF run.at = "idle" THEN had ELSE [had EXCEPT ![i] = @ \cup {arr'[run.url][i]}]
    /\ UNCHANGED <<world, url, dead, app, index, job, run, owed, dropped>>

\* A share goes away or comes back, or something else answers at the URL.
Disturb ==
    /\ run.at = "idle" /\ Left("deads") /\ Used("deads")
    /\ \/ \E r \in Roots : dead' = (dead \ {r}) \cup ({r} \ dead) /\ UNCHANGED app
       \/ app' = ~app /\ UNCHANGED dead
    /\ UNCHANGED <<world, url, arr, index, job, run, hist>>

\* All that may happen has happened.
Quiet == run.at = "idle" /\ (\A j \in Jobs : ~Live(j)) /\ UNCHANGED vars

Next ==
    \/ \E j \in Jobs, r \in world.requests : Arrives(j, r)
    \/ \E j \in Jobs : ChangeURL(j)
    \/ \E i \in Items : \E b \in Edits(arr[url][i]) : ArrChanges(i, b)
    \/ Disturb
    \/ \E j \in Jobs, t \in world.clock : Begin(j, t)
    \/ FollowUpStranded \/ SettleStranded \/ Start \/ FetchMeta \/ FetchAll
    \/ \E i \in Items : FetchOne(i)
    \/ \E read \in BOOLEAN : TargetedMeta(read)
    \/ \E i \in Items : FetchItem(i)
    \/ Flush \/ GoneRows \/ FinishFull \/ PersistGone \/ MarkTargetedGone \/ RecordTargeted
    \/ FollowUp \/ FollowUpAfterFailure \/ FollowUpCancelled \/ FollowUpBroken \/ Settle \/ Fail
    \/ \E st \in {"cancelled", "queued"} : Interrupt(st)
    \/ \E j \in Jobs : Rearm(j)
    \/ \E j \in Jobs : CancelQueued(j)
    \/ Crash \/ Quiet

Spec == Init /\ [][Next]_vars

-----------------------------------------------------------------------------

\* A change the index has is not lost to the backups: until a sync of its folders is queued for
\* every destination that wants one, a job that will queue it holds its intent or its mark, or a
\* webhook refresh of the item is still to come. Crashes, cancels, shutdowns, failing requests
\* and several refreshes may come in between, at any point.
Followed ==
    \A p \in owed \ dropped : \E j \in Jobs :
        /\ ~job[j].dry
        /\ \/ /\ Live(j) \/ job[j].st = "failed" \/ (job[j].st = "cancelled" /\ ~SyncAfter(j))
              /\ \/ \E in \in job[j].pending : p[1] \in {in.old, in.new}
                 \/ job[j].mark /\ p[2] \in world.rootPlace
           \/ /\ Live(j) \/ (job[j].st = "cancelled" /\ SyncAfter(j))
              /\ \/ job[j].mode = "overflow" /\ p[2] \in world.rootPlace
                 \/ job[j].mode = "targeted" /\ \E i \in job[j].ids : p[1] = items[i].folder \/ \E in \in job[j].pending : in.old = p[1]

\* When a full refresh completes, or a targeted one its items, the index says of each item what
\* the *arr said at some moment of the attempt: a live row with its folder, or none; no file
\* stays that the item did not have, except under a root folder that could not be read, and
\* none is missing that it had throughout. (The files of an item that an earlier refresh marked
\* deleted while its guard held the files wait for the next full refresh.)
IndexTrue ==
    run.at = "follow" /\ ~Me.dry /\ run.end = "done" /\ ~run.held =>
        \A i \in IF Targeted THEN Me.ids ELSE Items :
            /\ IF i \in LiveItems THEN \E a \in had[i] : a.there /\ a.folder = items[i].folder
               ELSE \E a \in had[i] : ~a.there
            /\ ~Targeted \/ i \in LiveItems =>
                   \A f \in FilesOf(i) : UnderInaccessible(f) \/ \E a \in had[i] : a.there /\ a.file = f.id
            /\ i \in LiveItems => \A id \in 1..MaxFile : (\A a \in had[i] : a.there /\ a.file = id) => \E f \in FilesOf(i) : f.id = id

=============================================================================
