------------------------------- MODULE Catalog -------------------------------
(***************************************************************************)
(* The catalog of one source and its scanner (internal/catalog): full and  *)
(* targeted scans of a folder tree that changes, is unmounted, remounted,  *)
(* emptied or fails while they read it, whose folders may be unreadable or *)
(* respelled on a case-insensitive filesystem, and the batches and the     *)
(* final transaction that bring the rows up to date. A path is <<folder    *)
(* name, file name>>; the library has one more file that is never touched. *)
(***************************************************************************)
EXTENDS Integers, FiniteSets, TLC

CONSTANTS Folders, Case, Alias,  \* the folders; Case may also be spelled Alias
          Places,                \* <<folder, name>>: where the share keeps a file
          Inodes, Worlds, None

VARIABLES
    world, used,    \* what this behaviour meets, and how much of it is used
    disk,           \* the share: file of each path, files, spelling, unreadable folders
    mount,          \* what is at the source's path, and its filesystem identity
    excl,           \* the source's excluded folders
    rows,           \* catalog_files: path -> row
    src,            \* sources: the recorded identity and scan_seq
    sc,             \* the scan that holds the source's lock
    hist            \* history: what the scan could have seen; what went wrong

vars == <<world, used, disk, mount, excl, rows, src, sc, hist>>

Use(what) == used[what] < world[what] /\ used' = [used EXCEPT ![what] = @ + 1]
Idle == [st |-> "idle"]
Spellings == Folders \cup {Alias}
Logical(s) == IF s = Alias THEN Case ELSE s
Top(t) == IF t \in Spellings THEN t ELSE t[1]
Paths == {p \in Spellings \X {q[2] : q \in Places} : <<Logical(p[1]), p[2]>> \in Places}
Listed(d, s) == s = IF Logical(s) = Case THEN d.spell ELSE s
FileAt(d, p) == d.at[<<Logical(p[1]), p[2]>>]
Present(d, p) == Listed(d, p[1]) /\ FileAt(d, p) # 0
HasFiles(d, s) == \E p \in Places : p[1] = Logical(s) /\ d.at[p] # 0
RootNames(d) == {s \in Spellings : Listed(d, s) /\ HasFiles(d, s)}

\* Meta: device, inode, link count and ver, which stands for size, mtime and ctime.
Meta(d, p) ==
    LET f == FileAt(d, p) IN
    [dev |-> mount.ident.dev, ino |-> d.file[f].ino, ver |-> d.file[f].ver,
     nlink |-> Cardinality({q \in Places : d.at[q] = f}) + d.file[f].outside]
Stat(d, p) == [meta |-> Meta(d, p), data |-> FileAt(d, p)]

RowOf(s, stamp) == [live |-> TRUE, meta |-> s.meta, data |-> s.data, stamp |-> stamp, group |-> None]

Init ==
    /\ world \in Worlds
    /\ used = [edits |-> 0, scans |-> 0, mounts |-> 0, cuts |-> 0, shuts |-> 0, settings |-> 0]
    /\ disk = [at |-> world.at, file |-> world.file, spell |-> Case, shut |-> {}]
    /\ mount = [share |-> "up", ident |-> [type |-> "share", dev |-> 1, ino |-> 1]]
    /\ excl = {}
    /\ rows = [p \in {q \in Paths : Present(disk, q)} |-> RowOf(Stat(disk, p), 0)]
    /\ src = [ident |-> mount.ident, seq |-> 0]
    /\ sc = Idle
    /\ hist = [absent |-> {}, names |-> {}, wrong |-> {}, misnamed |-> {}]

-----------------------------------------------------------------------------
(* The share (external): other programs and the machine change it.         *)

Absent(d) == {p \in Paths : ~Present(d, p)}
Changes(d) ==
    /\ disk' = d
    /\ hist' = IF sc = Idle THEN hist
               ELSE [hist EXCEPT !.absent = @ \cup Absent(d), !.names = @ \cup RootNames(d)]
    /\ UNCHANGED <<world, mount, excl, rows, src, sc>>

Unused(d) == {f \in DOMAIN d.file : \A p \in Places : d.at[p] # f}
FreeInodes(d) == Inodes \ {d.file[f].ino : f \in DOMAIN d.file \ Unused(d)}

\* A file is removed, linked under a second name, renamed, or written in place.
EditFile ==
    /\ Use("edits")
    /\ \E p, q \in Places :
          \/ disk.at[p] # 0 /\ q = p /\ Changes([disk EXCEPT !.at[p] = 0])
          \/ disk.at[p] # 0 /\ disk.at[q] = 0 /\ Changes([disk EXCEPT !.at[q] = disk.at[p]])
          \/ disk.at[p] # 0 /\ disk.at[q] = 0 /\ Changes([disk EXCEPT !.at[q] = disk.at[p], !.at[p] = 0])
          \/ disk.at[p] # 0 /\ q = p /\ Changes([disk EXCEPT !.file[disk.at[p]].ver = @ + 10])

\* A file is replaced by a new one, which may get an inode number that became free.
ReplaceFile ==
    /\ Use("edits")
    /\ \E p \in Places, f \in Unused(disk) :
          LET d == [disk EXCEPT !.at[p] = f] IN
          \E i \in FreeInodes(d) : Changes([d EXCEPT !.file[f] = [ino |-> i, ver |-> 3 + used.edits, outside |-> 0]])

\* A folder is respelled: a case-only rename.
Respell == Use("edits") /\ Changes([disk EXCEPT !.spell = IF @ = Case THEN Alias ELSE Case])

\* A folder becomes unreadable, or readable again.
Shut ==
    /\ Use("shuts")
    /\ \E d \in Folders : Changes([disk EXCEPT !.shut = (@ \cup {d}) \ (@ \cap {d})])

\* Identities a mount may show: the device number of an anonymous device is new after each
\* mount, inode numbers are too on filesystems that assign them at run time.
Remounted ==
    [type |-> "share",
     dev |-> IF world.fs = "disk" THEN 1 ELSE 2 + used.mounts,
     ino |-> IF world.fs = "runtime" THEN 2 + used.mounts ELSE 1]

\* What the mount point is while the share is away: a directory of the parent filesystem,
\* holding a stray file.
Underneath ==
    [type |-> IF world.fs = "runtime" THEN "parent" ELSE "share",
     dev |-> IF world.fs = "disk" THEN 9 ELSE src.ident.dev, ino |-> 9]

\* The share is unmounted, loses its contents (a union filesystem without its branches), or
\* comes back: between scans, since a scan holds the root open. A failing share fails any read.
Mount ==
    /\ Use("mounts")
    /\ \/ /\ sc.st \in {"idle", "open"} /\ src.ident # None
          /\ \/ mount.share # "away" /\ mount' = [share |-> "away", ident |-> Underneath]
             \/ mount.share = "up" /\ mount' = [mount EXCEPT !.share = "hollow"]
             \/ mount' = [share |-> "up", ident |-> Remounted]
       \/ mount.share = "up" /\ mount' = [mount EXCEPT !.share = "dead"]
    /\ UNCHANGED <<world, disk, excl, rows, src, sc, hist>>

\* A failing share recovers by itself.
Recovers == mount.share = "dead" /\ mount' = [mount EXCEPT !.share = "up"]
            /\ UNCHANGED <<world, used, disk, excl, rows, src, sc, hist>>

-----------------------------------------------------------------------------
(* Settings.                                                               *)

\* Update: exclusions change at any time; a plain re-save clears the recorded identity while
\* the path exists (the user saves it while the right share is there).
Update ==
    /\ Use("settings")
    /\ \/ \E d \in Folders : excl' = (excl \cup {d}) \ (excl \cap {d}) /\ UNCHANGED src
       \/ mount.share = "up" /\ src' = [src EXCEPT !.ident = None] /\ UNCHANGED excl
    /\ UNCHANGED <<world, disk, mount, rows, sc, hist>>

-----------------------------------------------------------------------------
(* Scans. Everything up to Commit reads only.                              *)

Under(p, t) == p = t \/ p[1] = t
UnderAny(p, ts) == \E t \in ts : Under(p, t)
Live == {p \in DOMAIN rows : rows[p].live}

\* CanonicalTargets: no target inside another.
CanonicalTargets(T) == {t \in T : t \in Paths => t[1] \notin T}

Fresh(kind, targets, x, ident, live, retried) ==
    [st |-> "open", kind |-> kind, targets |-> targets, excl |-> x, recorded |-> ident, live |-> live, retried |-> retried,
     todo |-> {}, ident |-> None, walked |-> <<>>, files |-> 0, bad |-> {}, out |-> <<>>, groups |-> {}, partners |-> {},
     names |-> None, links |-> <<>>]

\* sourceLocks: one scan, sync or edit of a source at a time.
LockFree == sc = Idle
\* Scan, ScanPaths: take the source's lock and load the source.
Begin ==
    /\ LockFree /\ Use("scans")
    /\ \E kind \in world.kinds : \E T \in IF kind = "full" THEN {{}} ELSE world.targets :
          sc' = Fresh(kind, CanonicalTargets(T), excl, src.ident, Cardinality(Live) + 1, FALSE)
    /\ hist' = [hist EXCEPT !.absent = Absent(disk), !.names = RootNames(disk)]
    /\ UNCHANGED <<world, disk, mount, excl, rows, src>>

\* The scan ends: it releases the lock; the history forgets what it saw.
Ends(h) == sc' = Idle /\ hist' = [h EXCEPT !.absent = {}, !.names = {}]

\* A scan refused by an I/O error; a targeted one starts over once after ESTALE.
RefuseIO ==
    /\ IF sc.kind = "targeted" /\ ~sc.retried
       THEN sc' = Fresh(sc.kind, sc.targets, sc.excl, sc.recorded, sc.live, TRUE) /\ UNCHANGED hist
       ELSE Ends(hist)
    /\ UNCHANGED rows

\* openRoot: the root is on the recorded filesystem.
SameRoot(rec, now) ==
    \/ rec = None
    \/ /\ rec.type = now.type
       /\ world.fs = "disk" => rec.dev = now.dev
       /\ world.fs = "anon" => rec.ino = now.ino

OpenRoot ==
    /\ sc.st = "open"
    /\ IF mount.share = "dead" THEN RefuseIO
       ELSE IF ~SameRoot(sc.recorded, mount.ident) THEN Ends(hist)
       ELSE /\ sc' = [sc EXCEPT !.st = "walk", !.ident = mount.ident, !.files = IF mount.share = "hollow" THEN 0 ELSE 1,
                         !.todo = IF sc.kind = "targeted" THEN sc.targets
                                  ELSE IF mount.share = "up" THEN RootNames(disk) ELSE {}]
            /\ UNCHANGED hist
    /\ UNCHANGED <<world, used, disk, mount, excl, rows, src>>

\* A lookup finds a name the folder lists, or another spelling of it.
Found(s) == mount.share = "up" /\ (Listed(disk, s) \/ world.fold) /\ HasFiles(disk, s)

\* A folder the walk leaves out: excluded, a destination's root, or holding the master key.
Skipped(s) == s \in sc.excl

\* listedExactly: the root lists the folder's name byte for byte. It is listed once per attempt,
\* and again for a target that is not in the listing.
Listing == IF sc.names = None THEN RootNames(disk) ELSE sc.names
ListedExactly(s) == s \in Listing
ListedAgain(t) == IF ~Found(Top(t)) THEN sc.names ELSE IF t \in Spellings /\ t \notin Listing THEN RootNames(disk) ELSE Listing

Unreadable(s, swapped) == Logical(s) \in disk.shut \/ swapped

\* walkDir of a folder: its files under the name it was entered by.
FolderFiles(s) == {p \in Paths : p[1] = s /\ FileAt(disk, p) # 0}
Walked(S) == [p \in S |-> Stat(disk, p)] @@ sc.walked

\* enterDir of the full scan: excluded folders are skipped, a vanished one is ignored, an
\* unreadable one (or one swapped while it was opened) keeps its rows.
EnterDir(s, swapped) ==
    sc' = CASE Skipped(s) \/ ~Found(s) -> [sc EXCEPT !.todo = @ \ {s}]
            [] Unreadable(s, swapped)     -> [sc EXCEPT !.todo = @ \ {s}, !.bad = @ \cup {s}]
            [] OTHER                      -> [sc EXCEPT !.todo = @ \ {s}, !.walked = Walked(FolderFiles(s)),
                                                        !.files = @ + Cardinality(FolderFiles(s))]

MutGoneTarget(t) == "gone"
\* goneTarget: an empty parent while the catalog lists other files in it is an unmounted share.
GoneTarget(t) == IF mount.share = "hollow" /\ Cardinality({p \in Live : ~Under(p, t)}) + 1 > 0 THEN "refused" ELSE "gone"

\* walkTarget: the outcome of one target.
TargetState(t, swapped) ==
    IF t \in Spellings
    THEN CASE ~Found(t) \/ t \notin ListedAgain(t) -> GoneTarget(t)
           [] ~Skipped(t) /\ Unreadable(t, swapped) -> "dropped"
           [] OTHER -> "scanned"
    ELSE CASE ~Found(t[1]) \/ ~ListedExactly(t[1]) \/ Skipped(t[1]) \/ Unreadable(t[1], swapped) -> "dropped"
           [] FileAt(disk, t) = 0 -> GoneTarget(t)
           [] OTHER -> "scanned"

\* The hardlink candidates: by inode, the metadata of the first one walked.
Key(m) == <<m.dev, m.ino>>
Links(S) ==
    LET linked == {m \in {Meta(disk, p) : p \in S} : m.nlink >= 2}
    IN sc.links @@ [k \in {Key(m) : m \in linked} |-> CHOOSE m \in linked : Key(m) = k]

WalkTarget(t, swapped) ==
    LET state == TargetState(t, swapped)
        found == IF state # "scanned" \/ Skipped(t) THEN {} ELSE IF t \in Spellings THEN FolderFiles(t) ELSE {t}
    IN sc' = [sc EXCEPT !.todo = @ \ {t}, !.out = (t :> state) @@ @, !.walked = Walked(found), !.links = Links(found), !.names = ListedAgain(t)]

\* The next folder or target, in a fixed order (the code's is by name).
Walk ==
    /\ sc.st = "walk" /\ sc.todo # {}
    /\ \E swapped \in {FALSE, world.swap} : LET t == CHOOSE u \in sc.todo : TRUE IN
          IF mount.share = "dead" THEN RefuseIO
          ELSE /\ IF sc.kind = "full" THEN EnterDir(t, swapped) ELSE WalkTarget(t, swapped)
               /\ UNCHANGED <<rows, hist>>
    /\ UNCHANGED <<world, used, disk, mount, excl, src>>

Scopes == {t \in DOMAIN sc.out : sc.out[t] \in {"scanned", "gone"}}

\* nominatePartners, lstatPartner: rows outside the targets recorded with the inode of a
\* linked file, which still have exactly the metadata of its first name.
Partners ==
    {p \in Live : /\ ~UnderAny(p, Scopes) /\ p \notin DOMAIN sc.walked
                  /\ Found(p[1]) /\ ListedExactly(p[1]) /\ ~Skipped(p[1]) /\ ~Unreadable(p[1], FALSE)
                  /\ FileAt(disk, p) # 0
                  /\ Key(rows[p].meta) \in DOMAIN sc.links /\ Meta(disk, p) = sc.links[Key(rows[p].meta)]}

\* planGroups: names with one inode group when they agree and are no more than its links.
PlanGroups(w) ==
    LET links == {p \in DOMAIN w : w[p].meta.nlink >= 2}
        bucket(p) == {q \in links : Key(w[q].meta) = Key(w[p].meta)}
    IN {G \in {bucket(p) : p \in links} :
           /\ Cardinality(G) >= 2
           /\ \A p, q \in G : w[p].meta = w[q].meta /\ Cardinality(G) <= w[p].meta.nlink}

\* confirmFUSE: the files are still the ones walked and their contents agree.
ConfirmFUSE(G, w) ==
    \A p, q \in G : /\ mount.share = "up" /\ FileAt(disk, p) # 0 /\ FileAt(disk, q) # 0
                    /\ Meta(disk, p).ino = w[p].meta.ino /\ Meta(disk, p).ver = w[p].meta.ver
                    /\ FileAt(disk, p) = FileAt(disk, q)

\* The walk is over: a full scan that saw no file refuses; hardlinks are grouped.
Group ==
    /\ sc.st = "walk" /\ sc.todo = {}
    /\ LET partners == IF sc.kind = "targeted" THEN Partners ELSE {}
           w == Walked(partners)
           links == \E p \in DOMAIN sc.walked : sc.walked[p].meta.nlink >= 2
       IN IF mount.share = "dead" /\ links /\ (sc.kind = "targeted" \/ world.fs = "runtime") THEN RefuseIO
          ELSE IF IF sc.kind = "full" THEN sc.files = 0 /\ sc.live > 0 ELSE Scopes = {} THEN Ends(hist)
          ELSE /\ sc' = [sc EXCEPT !.st = "commit", !.walked = w, !.partners = partners,
                            !.groups = {G \in PlanGroups(w) : world.fs = "runtime" => ConfirmFUSE(G, w)}]
               /\ UNCHANGED hist
    /\ UNCHANGED <<world, used, disk, mount, excl, rows, src>>

-----------------------------------------------------------------------------
(* Commit and finish.                                                      *)

Stamp == used.scans
Pending == {p \in DOMAIN sc.walked : p \notin DOMAIN rows \/ ~rows[p].live \/ rows[p].meta # sc.walked[p].meta}

\* upsertFile: a new, changed or reappeared file; its row loses its group.
Upsert(p) == RowOf(sc.walked[p], Stamp)

\* The rows once the walked files S are written: changed ones first, then last_seen_at.
Written(S) ==
    [p \in S |-> IF p \in Pending THEN Upsert(p) ELSE [rows[p] EXCEPT !.stamp = Stamp]] @@ rows

Misnamed(S) == {p \in S : p[1] \notin hist.names}

Commit ==
    /\ sc.st = "commit"
    /\ rows' = Written(DOMAIN sc.walked)
    /\ sc' = [sc EXCEPT !.st = "finish"]
    /\ hist' = [hist EXCEPT !.misnamed = @ \cup Misnamed(DOMAIN sc.walked)]
    /\ UNCHANGED <<world, used, disk, mount, excl, src>>

\* The process ends, the job is cancelled or a write fails between two batches.
CommitCut ==
    /\ sc.st = "commit" /\ Use("cuts")
    /\ \E S \in SUBSET (DOMAIN sc.walked) :
          /\ Pending \subseteq S \/ S \subseteq Pending
          /\ rows' = Written(S)
          /\ Ends([hist EXCEPT !.misnamed = @ \cup Misnamed(S)])
    /\ UNCHANGED <<world, disk, mount, excl, src>>

\* underUnreadable: rows of a folder that could not be read are kept.
UnderUnreadable(p) == p[1] \in sc.bad

InScope(p) == sc.kind = "full" \/ UnderAny(p, Scopes)

\* unseen: live rows of the scope this scan did not see.
Unseen == {p \in Live : rows[p].stamp # Stamp /\ InScope(p) /\ ~UnderUnreadable(p)}

\* finishTargets: unseen rows are marked deleted; this scan's groups replace the old ones of
\* the rows in its scope and of their partners.
Finished(gone) ==
    [p \in DOMAIN rows |->
        IF p \in gone THEN [rows[p] EXCEPT !.live = FALSE, !.group = None]
        ELSE IF \E G \in sc.groups : p \in G
        THEN [rows[p] EXCEPT !.group = <<src.seq + 1, CHOOSE G \in sc.groups : p \in G>>]
        ELSE IF InScope(p) \/ p \in sc.partners THEN [rows[p] EXCEPT !.group = None] ELSE rows[p]]

\* finish: one transaction for rows, groups and scan_seq; a full scan records the identity.
Finish ==
    /\ sc.st = "finish"
    /\ rows' = Finished(Unseen)
    /\ src' = [ident |-> IF sc.kind = "full" THEN sc.ident ELSE src.ident, seq |-> src.seq + 1]
    /\ Ends([hist EXCEPT !.wrong = @ \cup {p \in Unseen : p \notin hist.absent /\ ~Skipped(p[1])}])
    /\ UNCHANGED <<world, used, disk, mount, excl>>

\* A scan is cancelled, or the process ends, before it writes anything or before the final
\* transaction.
Cancel ==
    /\ sc.st \in {"open", "walk", "finish"} /\ Use("cuts")
    /\ Ends(hist)
    /\ UNCHANGED <<world, disk, mount, excl, rows, src>>

Next ==
    \/ EditFile \/ ReplaceFile \/ Respell \/ Shut \/ Mount \/ Recovers \/ Update
    \/ Begin \/ OpenRoot \/ Walk \/ Group \/ Commit \/ CommitCut \/ Finish \/ Cancel

Spec == Init /\ [][Next]_vars

-----------------------------------------------------------------------------
\* A scan marks a row deleted only when its file was not at that path at some moment of the
\* scan, or its folder was excluded: never because the share was unmounted, replaced, emptied
\* or failing, because a folder could not be read, or because an earlier scan was cut short.
DeletedWasGone == hist.wrong = {}

\* Rows in one hardlink group were read with the same metadata and content, and are no more
\* than the links the file had: also after targeted scans, changes during the walk, reused or
\* unstable inode numbers, and scans cut between batches.
GroupsReal ==
    \A p, q \in Live :
        (rows[p].group # None /\ rows[p].group = rows[q].group) =>
            /\ rows[p].meta = rows[q].meta /\ rows[p].data = rows[q].data
            /\ Cardinality({r \in Live : rows[r].group = rows[p].group}) <= rows[p].meta.nlink

\* Every row a scan writes is keyed by a folder name the source listed during that scan, also
\* on a filesystem whose lookups find other spellings.
KeyedAsListed == hist.misnamed = {}
==============================================================================
