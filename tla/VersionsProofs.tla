--------------------------- MODULE VersionsProofs ---------------------------
(***************************************************************************)
(* Proofs about Versions: whatever crashes, fails or is pruned, no version *)
(* is half deleted under its name and no row is left without its directory *)
(* (NothingHalfDeleted).                                                   *)
(***************************************************************************)
EXTENDS Versions, TLAPS, FiniteSetTheorems, WellFoundedInduction

-----------------------------------------------------------------------------
(* The rows are ordered by time and id.                                    *)

\* In a finite set a strict order, given as a set of pairs, has a maximal element.
LEMMA MaximalIn ==
    ASSUME NEW S, IsFiniteSet(S), S # {}, NEW R,
           \A x \in S : <<x, x>> \notin R,
           \A x, y, z \in S : <<x, y>> \in R /\ <<y, z>> \in R => <<x, z>> \in R
    PROVE  \E x \in S : \A y \in S : <<y, x>> \notin R
<1>. DEFINE Above(x) == {y \in S : <<y, x>> \in R}
            C == {Above(x) : x \in S}
<1>1. C \subseteq FiniteSubsetsOf(S) /\ C # {}
  <2>1. \A x : Above(x) \subseteq S /\ IsFiniteSet(Above(x))
    BY FS_Subset, Zenon
  <2>2. PICK x \in S : TRUE
    OBVIOUS
  <2>3. Above(x) \in C
    BY <2>2
  <2>4. C \subseteq FiniteSubsetsOf(S)
    <3>. SUFFICES ASSUME NEW y \in S PROVE Above(y) \in FiniteSubsetsOf(S)
    OBVIOUS
    <3>1. Above(y) \subseteq S /\ IsFiniteSet(Above(y))
    BY <2>1
    <3>. QED
    BY <3>1, Zenon DEF FiniteSubsetsOf
  <2>. QED
    BY <2>3, <2>4
<1>2. PICK c \in C : \A d \in C : ~(<<d, c>> \in StrictSubsetOrdering(S))
    BY <1>1, FS_StrictSubsetOrderingWellFounded, WFMin
<1>3. PICK x \in S : c = Above(x)
    BY <1>2
<1>4. ASSUME NEW y \in S, <<y, x>> \in R
      PROVE  FALSE
  <2>1. Above(y) \in C /\ Above(y) \subseteq Above(x)
    BY <1>3, <1>4
  <2>2. y \in Above(x) /\ y \notin Above(y)
    BY <1>4
  <2>3. Above(x) \subseteq S
    OBVIOUS
  <2>. QED
    BY <2>1, <2>2, <2>3, <1>2, <1>3 DEF StrictSubsetOrdering
<1>. QED
    BY <1>3, <1>4

\* The largest of finitely many numbers.
LEMMA MaxIn ==
    ASSUME NEW S, IsFiniteSet(S), S # {}, S \subseteq Nat
    PROVE  Max(S) \in S /\ \A i \in S : i <= Max(S)
<1>. DEFINE R == {p \in S \X S : p[1] > p[2]}
<1>1. /\ \A x \in S : <<x, x>> \notin R
      /\ \A x, y, z \in S : <<x, y>> \in R /\ <<y, z>> \in R => <<x, z>> \in R
    OBVIOUS
<1>2. PICK x \in S : \A y \in S : <<y, x>> \notin R
  <2>. HIDE DEF R
  <2>. QED
    BY <1>1, MaximalIn
<1>3. \A y \in S : x >= y
  <2>. SUFFICES ASSUME NEW y \in S PROVE x >= y
    OBVIOUS
  <2>1. ~(y > x)
    BY <1>2, Zenon
  <2>. QED
    BY <2>1
<1>. QED
    BY <1>3 DEF Max

\* A finite set of rows, each with its id.
Table(R) == R \subseteq RowType /\ IsFiniteSet(R) /\ \A r, s \in R : r.id = s.id => r = s

\* The newest and the oldest of a table's rows.
LEMMA NewestIn ==
    ASSUME NEW R, Table(R), R # {}
    PROVE  Newest(R) \in R
<1>. DEFINE P == {p \in R \X R : Newer(p[1], p[2])}
<1>0. \A r \in R : r.m.time \in Nat /\ r.id \in Nat
    BY VersionAssumption DEF Table, RowType, ManifestType, Times
<1>1. /\ \A x \in R : <<x, x>> \notin P
      /\ \A x, y, z \in R : <<x, y>> \in P /\ <<y, z>> \in P => <<x, z>> \in P
    BY <1>0 DEF Newer
<1>2. PICK x \in R : \A y \in R : <<y, x>> \notin P
  <2>. HIDE DEF P
  <2>. QED
    BY <1>1, MaximalIn DEF Table
<1>3. \A y \in R \ {x} : Newer(x, y)
  <2>. SUFFICES ASSUME NEW y \in R, y # x PROVE Newer(x, y)
    OBVIOUS
  <2>1. ~Newer(y, x)
    BY <1>2, Zenon
  <2>2. x.id # y.id
    BY DEF Table
  <2>. QED
    BY <1>0, <2>1, <2>2 DEF Newer
<1>. QED
    BY <1>3 DEF Newest

\* The oldest row of a table is one of its rows.
LEMMA OldestIn ==
    ASSUME NEW R, Table(R), R # {}
    PROVE  Oldest(R) \in R
<1>. DEFINE P == {p \in R \X R : Newer(p[2], p[1])}
<1>0. \A r \in R : r.m.time \in Nat /\ r.id \in Nat
    BY VersionAssumption DEF Table, RowType, ManifestType, Times
<1>1. /\ \A x \in R : <<x, x>> \notin P
      /\ \A x, y, z \in R : <<x, y>> \in P /\ <<y, z>> \in P => <<x, z>> \in P
    BY <1>0 DEF Newer
<1>2. PICK x \in R : \A y \in R : <<y, x>> \notin P
  <2>. HIDE DEF P
  <2>. QED
    BY <1>1, MaximalIn DEF Table
<1>3. \A y \in R \ {x} : Newer(y, x)
  <2>. SUFFICES ASSUME NEW y \in R, y # x PROVE Newer(y, x)
    OBVIOUS
  <2>1. ~Newer(x, y)
    BY <1>2, Zenon
  <2>2. x.id # y.id
    BY DEF Table
  <2>. QED
    BY <1>0, <2>1, <2>2 DEF Newer
<1>. QED
    BY <1>3 DEF Oldest

-----------------------------------------------------------------------------
(* The inductive invariant.                                                *)

Points == {"idle", "recover", "choose", "copies", "mark", "copy", "manifest", "rename", "record", "fail",
           "prune", "lost", "sweep", "restore", "delete", "unrecord", "empty", "end"}
EntryType == {"part", "trash", "at"} \X Names
RunType == [job : Nat, at : Points, todo : SUBSET (RowType \cup EntryType), list : SUBSET RowType,
            m : ManifestType \cup {None}, name : Names \cup {None}, keep : (Int \X Int) \cup {None},
            tidy : BOOLEAN]
JobType == [st : {"new", "queued", "running", "ok", "failed"}, resumed : BOOLEAN]

TypeOK ==
    /\ world.ticks \in Nat /\ world.ticks <= MaxTime /\ world.keeps \subseteq Int \X Int
    /\ now \in Times /\ src \in Contents /\ keep \in Int \X Int
    /\ part \in [Jobs -> DirType \cup {None}]
    /\ at \in [Names -> DirType \cup {None}]
    /\ trash \in [Names -> DirType \cup {None}]
    /\ Table(rows)
    /\ job \in [Jobs -> JobType]
    /\ run \in RunType /\ Table(run.list)
    /\ saw \in [Jobs -> SUBSET Contents]

Held(n) == n \in hurt \/ at[n] # None

\* What the running job knows at each step: its version, and which rows it still has to do with.
AtPoints ==
    /\ run.at = "idle" => run = Idle
    /\ run.at # "idle" => run.job \in Jobs /\ job[run.job].st = "running"
    /\ run.at = "recover" => \A n \in Names : <<"trash", n>> \in run.todo => trash[n] # None
    /\ run.at \in {"copies", "mark", "copy", "manifest", "rename", "record"} =>
          run.m \in ManifestType /\ run.m.job = run.job
    /\ run.at = "manifest" => part[run.job] = [m |-> run.m, files |-> "some"]
    /\ run.at = "rename" => part[run.job] = [m |-> run.m, files |-> "whole"]
    /\ run.at = "record" => run.name \in Names /\ run.name[1] = run.m.time /\ Held(run.name)
    /\ run.at \in {"copies", "mark", "lost", "sweep", "restore"} => run.todo \subseteq rows
    /\ run.at \in {"lost", "sweep", "restore", "delete", "unrecord"} => run.list \subseteq rows
    /\ run.at \in {"lost", "sweep"} => run.todo \cap run.list = {}
    /\ run.at = "mark" => \E r \in run.list : /\ run.list = {r} /\ ~Recorded(r.name) /\ Held(r.name)
                                              /\ r.m.time = r.name[1]
    /\ run.at = "sweep" => run.name \in Names /\ ~Recorded(run.name)
    /\ run.at \in {"unrecord", "empty"} => run.list # {}
    /\ run.at = "empty" => /\ run.list \ {Oldest(run.list)} \subseteq rows
                           /\ ~Recorded(Oldest(run.list).name)

\* A name has one row.
NamesOnce == \A r, s \in rows : r.name = s.name => r = s

\* Directories nobody else changed are whole, or are being deleted in the trash.
Dirs == \A n \in Names \ hurt : /\ at[n] # None => at[n].files = "whole"
                                /\ trash[n] # None => trash[n].files # "bad"

RowsHeld == \A r \in rows : Held(r.name) \/ Complete(r, trash[r.name]) \/ TakenOver(r)

\* A version has the name of its second.
OfSecond ==
    /\ \A n \in Names : /\ at[n] # None => at[n].m.time = n[1]
                        /\ trash[n] # None => trash[n].m.time = n[1]
    /\ \A r \in rows : r.m.time = r.name[1]

\* The manifests there are: of directories, of rows, of the version that is being written.
InFolder(m) ==
    \/ \E n \in Names : at[n] # None /\ m = at[n].m
    \/ \E n \in Names : trash[n] # None /\ m = trash[n].m
    \/ \E j \in Jobs : part[j] # None /\ m = part[j].m
InTable(m) ==
    \/ \E r \in rows : m = r.m
    \/ run.at = "mark" /\ \E r \in run.list : m = r.m
Being(m) == run.at \in {"copy", "manifest", "rename", "record"} /\ m = run.m
Man(m) == InFolder(m) \/ InTable(m) \/ Being(m)

\* An attempt of a job writes one version, in a second of its own.
OnePerSecond == \A l, m \in ManifestType : Man(l) /\ Man(m) /\ l.job = m.job /\ l.time = m.time => l = m
Earlier ==
    \A m \in ManifestType : Man(m) =>
        /\ m.time <= now
        /\ job[m.job].st # "new"
        /\ job[m.job].st = "queued" => m.time < now
        /\ run.at \in {"recover", "choose"} /\ m.job = run.job => m.time < now
        /\ run.at \in {"copies", "mark"} /\ m.job = run.job => m.time < run.m.time
Staged == run.at \in {"copies", "mark"} => run.m.time <= now

VersionInv ==
    /\ TypeOK /\ AtPoints /\ NamesOnce /\ Dirs /\ RowsHeld /\ OfSecond /\ OnePerSecond /\ Earlier /\ Staged

-----------------------------------------------------------------------------
(* Tables.                                                                 *)

\* Rows of a table are a table.
LEMMA TableSub ==
    ASSUME NEW R, Table(R), NEW S, S \subseteq R
    PROVE  Table(S)
BY FS_Subset DEF Table

\* A row with an id of its own may be added.
LEMMA TableAdd ==
    ASSUME NEW R, Table(R), NEW r \in RowType, \A s \in R : s.id # r.id
    PROVE  Table(R \cup {r})
<1>1. IsFiniteSet(R \cup {r})
    BY FS_AddElement DEF Table
<1>. QED
    BY <1>1 DEF Table

\* No rows.
LEMMA TableNone == Table({})
BY FS_EmptySet DEF Table

\* The row that is added has an id of its own.
LEMMA RowFresh ==
    ASSUME Table(rows), run.job \in Jobs, NEW n \in Names, NEW m \in ManifestType, NEW ok \in BOOLEAN
    PROVE  /\ Row(n, m, ok) \in RowType
           /\ \A r \in rows : r.id # Row(n, m, ok).id
           /\ Row(n, m, ok).name = n /\ Row(n, m, ok).m = m /\ Row(n, m, ok).ok = ok
           /\ Row(n, m, ok).by = run.job
<1>. DEFINE S == {r.id : r \in rows}
            f == [r \in rows |-> r.id]
<1>1. S \subseteq Nat
    BY DEF Table, RowType
<1>2. f \in Surjection(rows, S)
    BY DEF Surjection
<1>3. IsFiniteSet(S)
    BY <1>2, FS_Surjection DEF Table
<1>4. IsFiniteSet({0} \cup S)
  <2>1. IsFiniteSet(S \cup {0}) /\ {0} \cup S = S \cup {0}
    BY <1>3, FS_AddElement
  <2>. QED
    BY <2>1
<1>5. Max({0} \cup S) \in Nat /\ \A i \in S : i <= Max({0} \cup S)
  <2>1. {0} \cup S \subseteq Nat /\ {0} \cup S # {} /\ S \subseteq {0} \cup S
    BY <1>1
  <2>. DEFINE T == {0} \cup S
  <2>2. T \subseteq Nat /\ T # {} /\ S \subseteq T /\ IsFiniteSet(T)
    BY <2>1, <1>4
  <2>. HIDE DEF T
  <2>3. Max(T) \in Nat /\ \A i \in S : i <= Max(T)
    BY <2>2, MaxIn
  <2>. QED
    BY <2>3 DEF T
<1>. DEFINE k == 1 + Max({0} \cup S)
<1>6. k \in Nat /\ \A r \in rows : r.id # k
  <2>. HIDE DEF k, S
  <2>0. PICK x \in Nat : x = Max({0} \cup S) /\ \A i \in S : i <= x
    BY <1>5
  <2>3. k = 1 + x
    BY <2>0 DEF k
  <2>1. k \in Nat /\ \A i \in S : i < k
    BY <1>1, <2>0, <2>3
  <2>2. \A r \in rows : r.id \in S
    BY DEF S
  <2>. QED
    BY <1>1, <2>1, <2>2
<1>7. Row(n, m, ok) = [id |-> k, name |-> n, by |-> run.job, ok |-> ok, m |-> m]
    BY DEF Row
<1>. HIDE DEF k
<1>. QED
    BY <1>6, <1>7 DEF RowType

\* Marking rows changes their ok and nothing else.
LEMMA Unmarked ==
    ASSUME Table(rows), NEW R, R \subseteq rows
    PROVE  /\ Table(Unmark(R))
           /\ \A s \in Unmark(R) : \E r \in rows : s.id = r.id /\ s.name = r.name /\ s.m = r.m /\ (s = r \/ ~s.ok)
           /\ \A r \in rows : \E s \in Unmark(R) : s.name = r.name
<1>. DEFINE g == [r \in R |-> [r EXCEPT !.ok = FALSE]]
            S == {[r EXCEPT !.ok = FALSE] : r \in R}
<1>0. \A r \in R : /\ [r EXCEPT !.ok = FALSE] \in RowType
                   /\ [r EXCEPT !.ok = FALSE].id = r.id /\ [r EXCEPT !.ok = FALSE].name = r.name
                   /\ [r EXCEPT !.ok = FALSE].m = r.m /\ ~[r EXCEPT !.ok = FALSE].ok
    BY DEF Table, RowType
<1>1. g \in Surjection(R, S)
    BY DEF Surjection
<1>2. IsFiniteSet(R) /\ IsFiniteSet(rows \ R)
    BY FS_Subset, FS_Difference DEF Table
<1>3. IsFiniteSet(S)
    BY <1>1, <1>2, FS_Surjection
<1>4. IsFiniteSet((rows \ R) \cup S)
    BY <1>2, <1>3, FS_Union
<1>5. Unmark(R) = (rows \ R) \cup S
    BY DEF Unmark
<1>6. \A s \in Unmark(R) : \E r \in rows : /\ s.id = r.id /\ s.name = r.name /\ s.m = r.m
                                           /\ (s = r \/ ~s.ok) /\ s \in RowType
                                           /\ (s = r /\ r \notin R) \/ (r \in R /\ s = [r EXCEPT !.ok = FALSE])
    BY <1>0, <1>5 DEF Table
<1>7. \A r \in rows : \E s \in Unmark(R) : s.name = r.name
    BY <1>0, <1>5
<1>8. Table(Unmark(R))
  <2>1. Unmark(R) \subseteq RowType
    BY <1>6
  <2>2. \A s, u \in Unmark(R) : s.id = u.id => s = u
    <3>. SUFFICES ASSUME NEW s \in Unmark(R), NEW u \in Unmark(R), s.id = u.id PROVE s = u
    OBVIOUS
    <3>1. PICK r \in rows : s.id = r.id /\ ((s = r /\ r \notin R) \/ (r \in R /\ s = [r EXCEPT !.ok = FALSE]))
    BY <1>6
    <3>2. PICK q \in rows : u.id = q.id /\ ((u = q /\ q \notin R) \/ (q \in R /\ u = [q EXCEPT !.ok = FALSE]))
    BY <1>6
    <3>3. r = q
    BY <3>1, <3>2 DEF Table
    <3>. QED
    BY <3>1, <3>2, <3>3
  <2>. QED
    BY <1>4, <1>5, <2>1, <2>2 DEF Table
<1>. QED
    BY <1>6, <1>7, <1>8

-----------------------------------------------------------------------------
(* The running job.                                                        *)

\* The names of the running job's steps.
LEMMA PointNames ==
    /\ "idle" \in Points /\ "recover" \in Points /\ "choose" \in Points /\ "copies" \in Points
    /\ "mark" \in Points /\ "copy" \in Points /\ "manifest" \in Points /\ "rename" \in Points
    /\ "record" \in Points /\ "fail" \in Points /\ "prune" \in Points /\ "lost" \in Points
    /\ "sweep" \in Points /\ "restore" \in Points /\ "delete" \in Points /\ "unrecord" \in Points
    /\ "empty" \in Points /\ "end" \in Points
BY DEF Points

\* The running job with other fields.
LEMMA RunUpdates ==
    ASSUME run \in RunType, NEW p \in Points
    PROVE  /\ [run EXCEPT !.at = p] \in RunType
           /\ \A S \in SUBSET run.todo : /\ [run EXCEPT !.todo = S] \in RunType
                                         /\ Warned([run EXCEPT !.todo = S]) \in RunType
           /\ Warned([run EXCEPT !.at = p]) \in RunType
           /\ \A L \in SUBSET RowType : /\ [run EXCEPT !.list = L] \in RunType
                                        /\ Warned([run EXCEPT !.list = L]) \in RunType
                                        /\ [run EXCEPT !.at = p, !.list = L] \in RunType
                                        /\ Warned([run EXCEPT !.at = p, !.list = L]) \in RunType
           /\ \A n \in Names : [run EXCEPT !.at = p, !.name = n] \in RunType
           /\ \A m \in ManifestType : [run EXCEPT !.at = p, !.m = m, !.todo = {}] \in RunType
BY DEF RunType, Warned

\* The job goes on to its next step.
LEMMA GoTo ==
    ASSUME run \in RunType, NEW p \in Points, Go(p)
    PROVE  /\ run' \in RunType /\ run'.at = p /\ run'.job = run.job /\ run'.todo = run.todo
           /\ run'.list = run.list /\ run'.m = run.m /\ run'.name = run.name
BY DEF RunType, Go

\* Points at which the job knows nothing but itself.
LEMMA CalmPoint ==
    ASSUME run'.at \in {"choose", "fail", "prune", "end"}, run'.job \in Jobs, job'[run'.job].st = "running"
    PROVE  AtPoints'
BY DEF AtPoints

\* No job runs.
LEMMA IdlePoint ==
    ASSUME run' = Idle
    PROVE  run' \in RunType /\ Table(run'.list) /\ AtPoints'
<1>1. run'.at = "idle" /\ run'.list = {}
    BY DEF Idle
<1>2. run' \in RunType
    BY DEF Idle, RunType, Points
<1>. QED
    BY <1>1, <1>2, TableNone DEF AtPoints

\* The version to write.
LEMMA StageTyped ==
    ASSUME run \in RunType, NEW m \in ManifestType, run' = Stage(m)
    PROVE  /\ run' \in RunType /\ run'.at = "copy" /\ run'.m = m /\ run'.job = run.job
           /\ run'.list = run.list /\ run'.todo = {}
BY DEF Stage, RunType, Points

\* A job that has chosen its version knows its manifest.
LEMMA Staging ==
    ASSUME TypeOK, AtPoints, run.at # "idle", NEW m \in ManifestType, m.job = run.job, run' = Stage(m),
           job' = job
    PROVE  run' \in RunType /\ Table(run'.list) /\ AtPoints'
<1>1. run \in RunType /\ Table(run.list)
    BY DEF TypeOK
<1>2. /\ run' \in RunType /\ run'.at = "copy" /\ run'.m = m /\ run'.job = run.job
      /\ run'.list = run.list
    BY <1>1, StageTyped
<1>3. run.job \in Jobs /\ job[run.job].st = "running"
    BY DEF AtPoints
<1>. QED
    BY <1>1, <1>2, <1>3 DEF AtPoints

\* The manifest of the version that is chosen now.
LEMMA NewManifestTyped ==
    ASSUME TypeOK, run.job \in Jobs, NEW ok \in BOOLEAN, NEW sched \in BOOLEAN
    PROVE  NewManifest(ok, sched) \in ManifestType /\ NewManifest(ok, sched).job = run.job
           /\ NewManifest(ok, sched).time = now
BY DEF TypeOK, NewManifest, ManifestType

\* Nothing the running job knows changed; or somebody changed a directory.
LEMMA RunFramed ==
    ASSUME TypeOK, AtPoints, UNCHANGED <<run, job, rows, part, at, trash, hurt>>
    PROVE  run' \in RunType /\ Table(run'.list) /\ AtPoints'
BY DEF TypeOK, AtPoints, Held, Recorded

\* Somebody changed a directory.
LEMMA RunMeddled ==
    ASSUME TypeOK, AtPoints, UNCHANGED <<run, job, rows, part>>, NEW n \in Names, hurt' = hurt \cup {n},
           \A k \in Names : (k # n => at'[k] = at[k]) /\ (trash[k] # None => trash'[k] # None)
    PROVE  run' \in RunType /\ Table(run'.list) /\ AtPoints'
<1>1. \A k \in Names : Held(k) => Held(k)'
    BY DEF Held
<1>2. \A k : Recorded(k)' <=> Recorded(k)
    BY DEF Recorded
<1>3. run.list \subseteq RowType
    BY DEF TypeOK, Table
<1>4. run.at = "mark" => \A r \in run.list : r.name \in Names
    BY <1>3 DEF RowType
<1>5. /\ run.at = "mark" => \E r \in run.list : /\ run.list = {r} /\ ~Recorded(r.name)' /\ Held(r.name)'
                                                /\ r.m.time = r.name[1]
      /\ run.at = "record" => run.name \in Names /\ run.name[1] = run.m.time /\ Held(run.name)'
      /\ run.at = "sweep" => run.name \in Names /\ ~Recorded(run.name)'
      /\ run.at = "empty" => ~Recorded(Oldest(run.list).name)'
      /\ run.at = "recover" => \A k \in Names : <<"trash", k>> \in run.todo => trash'[k] # None
    BY <1>1, <1>2, <1>4 DEF AtPoints
<1>. QED
    BY <1>5 DEF TypeOK, AtPoints

\* Each step leads to a point at which what the next one needs is known.
LEMMA RunKept ==
    ASSUME TypeOK, AtPoints, NamesOnce, RowsHeld, OfSecond, [Next]_vars
    PROVE  run' \in RunType /\ Table(run'.list) /\ AtPoints'
<1>a. run \in RunType /\ Table(run.list) /\ Table(rows) /\ run.list \subseteq RowType
    BY DEF TypeOK, Table
<1>b. run.at # "idle" => run.job \in Jobs /\ job[run.job].st = "running"
    BY DEF AtPoints
<1>c. job \in [Jobs -> JobType]
    BY DEF TypeOK
<1>1. CASE RecoverEnd
  <2>1. run.at # "idle" /\ job' = job
    BY <1>1 DEF RecoverEnd
  <2>2. PICK p \in {"choose", "prune", "fail"} : Go(p)
    BY <1>1 DEF RecoverEnd
  <2>3. p \in Points
    BY <2>2 DEF Points
  <2>4. run' \in RunType /\ run'.at = p /\ run'.job = run.job /\ run'.list = run.list
    BY <1>a, <2>2, <2>3, GoTo
  <2>5. run'.at \in {"choose", "fail", "prune", "end"}
    BY <2>2, <2>4
  <2>. QED
    BY <1>a, <1>b, <2>1, <2>4, <2>5, CalmPoint
<1>2. CASE ChoosePlex
  <2>1. run.at # "idle" /\ job' = job
    BY <1>2 DEF ChoosePlex
  <2>2. PICK ok \in BOOLEAN : run' = Stage(NewManifest(ok, FALSE))
    BY <1>2 DEF ChoosePlex
  <2>. QED
    BY <1>b, <2>1, <2>2, NewManifestTyped, Staging
<1>3. CASE ChooseManifest
  <2>1. run.at # "idle" /\ job' = job
    BY <1>3 DEF ChooseManifest
  <2>2. CASE run' = Stage(NewManifest(TRUE, FALSE))
    BY <1>b, <2>1, <2>2, NewManifestTyped, Staging
  <2>3. CASE Go("prune")
    <3>1. run' \in RunType /\ run'.at = "prune" /\ run'.job = run.job /\ run'.list = run.list
    BY <1>a, <2>3, GoTo, PointNames
    <3>. QED
    BY <1>a, <1>b, <2>1, <3>1, CalmPoint
  <2>. QED
    BY <1>3, <2>2, <2>3 DEF ChooseManifest
<1>4. CASE ChooseArr
  <2>1. run.at # "idle" /\ job' = job /\ rows' = rows /\ run.job \in Jobs
    BY <1>4, <1>b DEF ChooseArr
  <2>2. CASE \E ok \in BOOLEAN, c \in IF job[run.job].resumed THEN saw[run.job] ELSE {src} :
                 run' = Stage([NewManifest(ok, FALSE) EXCEPT !.src = c])
    <3>1. PICK ok \in BOOLEAN, c \in IF job[run.job].resumed THEN saw[run.job] ELSE {src} :
                 run' = Stage([NewManifest(ok, FALSE) EXCEPT !.src = c])
    BY <2>2
    <3>2. c \in Contents
    BY <2>1, <3>1 DEF TypeOK
    <3>3. NewManifest(ok, FALSE) \in ManifestType /\ NewManifest(ok, FALSE).job = run.job
    BY <2>1, NewManifestTyped
    <3>4. PICK m : m = [NewManifest(ok, FALSE) EXCEPT !.src = c]
    OBVIOUS
    <3>5. m \in ManifestType /\ m.job = run.job
    BY <3>2, <3>3, <3>4 DEF ManifestType
    <3>. QED
    BY <2>1, <3>1, <3>4, <3>5, Staging
  <2>3. CASE run' = [run EXCEPT !.at = "copies", !.m = NewManifest(TRUE, TRUE),
                             !.todo = {r \in rows : r.m.src = src /\ r.m.sched}]
    <3>1. PICK m \in ManifestType : m = NewManifest(TRUE, TRUE) /\ m.job = run.job
    BY <2>1, NewManifestTyped
    <3>2. PICK S \in SUBSET rows : S = {r \in rows : r.m.src = src /\ r.m.sched}
    OBVIOUS
    <3>3. rows \subseteq RowType
    BY <1>a DEF Table
    <3>4. run' = [run EXCEPT !.at = "copies", !.m = m, !.todo = S]
    BY <2>3, <3>1, <3>2
    <3>5. /\ run' \in RunType /\ run'.at = "copies" /\ run'.m = m /\ run'.job = run.job
          /\ run'.list = run.list /\ run'.todo = S
    BY <1>a, <3>3, <3>4 DEF RunType, Points
    <3>. QED
    BY <1>a, <1>b, <2>1, <3>1, <3>5 DEF AtPoints
  <2>. QED
    BY <1>4, <2>2, <2>3 DEF ChooseArr
<1>5. CASE Look
  <2>0. /\ run.at = "copies" /\ run.todo # {} /\ job' = job /\ at' = at /\ hurt' = hurt
    BY <1>5 DEF Look, folder, hist
  <2>1. /\ run.job \in Jobs /\ job[run.job].st = "running" /\ run.m \in ManifestType
        /\ run.m.job = run.job /\ run.todo \subseteq rows
    BY <1>b, <2>0 DEF AtPoints
  <2>2. PICK r \in run.todo : r = Newest(run.todo)
    BY <1>a, <2>0, <2>1, TableSub, NewestIn
  <2>3. r \in rows /\ r \in RowType /\ r.name \in Names
    BY <1>a, <2>1, <2>2 DEF Table, RowType
  <2>4. CASE run' = [run EXCEPT !.todo = @ \ {r}] /\ rows' = rows
    <3>1. run' \in RunType /\ run'.todo \subseteq run.todo /\ run'.at = run.at /\ run'.job = run.job
          /\ run'.list = run.list /\ run'.m = run.m
    BY <1>a, <2>4 DEF RunType
    <3>. QED
    BY <1>a, <2>0, <2>1, <2>4, <3>1 DEF AtPoints
  <2>5. CASE \E ok \in BOOLEAN : run' = Stage([run.m EXCEPT !.ok = ok, !.sched = FALSE])
    <3>1. PICK ok \in BOOLEAN : run' = Stage([run.m EXCEPT !.ok = ok, !.sched = FALSE])
    BY <2>5
    <3>2. [run.m EXCEPT !.ok = ok, !.sched = FALSE] \in ManifestType
          /\ [run.m EXCEPT !.ok = ok, !.sched = FALSE].job = run.job
    BY <2>1 DEF ManifestType
    <3>. QED
    BY <2>0, <3>1, <3>2, Staging
  <2>6. CASE run' = Warned([run EXCEPT !.at = "end"])
    <3>1. run' \in RunType /\ run'.at = "end" /\ run'.job = run.job /\ run'.list = run.list
    BY <1>a, <2>6 DEF RunType, Warned, Points
    <3>. QED
    BY <1>a, <2>0, <2>1, <3>1, CalmPoint
  <2>7. CASE /\ at[r.name] # None /\ rows' = rows \ {r}
             /\ run' = [[run EXCEPT !.todo = @ \ {r}] EXCEPT !.at = "mark", !.list = {r}]
    <3>1. /\ run' \in RunType /\ run'.at = "mark" /\ run'.job = run.job /\ run'.list = {r}
          /\ run'.m = run.m /\ run'.todo = run.todo \ {r}
    BY <1>a, <2>3, <2>7 DEF RunType, Points
    <3>2. Table({r})
    BY <2>3, FS_Singleton DEF Table
    <3>3. ~Recorded(r.name)' /\ Held(r.name)' /\ r.m.time = r.name[1]
    BY <2>0, <2>3, <2>7 DEF Recorded, NamesOnce, Held, OfSecond
    <3>4. run'.todo \subseteq rows'
    BY <2>1, <2>7, <3>1
    <3>. QED
    BY <2>0, <2>1, <3>1, <3>2, <3>3, <3>4 DEF AtPoints
  <2>. QED
    BY <1>5, <2>2, <2>4, <2>5, <2>6, <2>7 DEF Look
<1>6. CASE LookEnd
  <2>0. run.at = "copies" /\ job' = job
    BY <1>6 DEF LookEnd
  <2>1. run.m \in ManifestType /\ run.m.job = run.job
    BY <2>0 DEF AtPoints
  <2>2. PICK ok \in BOOLEAN : run' = Stage([run.m EXCEPT !.ok = ok])
    BY <1>6 DEF LookEnd
  <2>3. [run.m EXCEPT !.ok = ok] \in ManifestType /\ [run.m EXCEPT !.ok = ok].job = run.job
    BY <2>1 DEF ManifestType
  <2>. QED
    BY <2>0, <2>2, <2>3, Staging
<1>7. CASE MarkFailed
  <2>0. run.at = "mark" /\ job' = job /\ rows \subseteq rows'
    BY <1>7 DEF MarkFailed
  <2>1. /\ run.job \in Jobs /\ job[run.job].st = "running" /\ run.m \in ManifestType
        /\ run.m.job = run.job /\ run.todo \subseteq rows
    BY <1>b, <2>0 DEF AtPoints
  <2>2. /\ run' \in RunType /\ run'.at = "copies" /\ run'.job = run.job /\ run'.list = {}
        /\ run'.m = run.m /\ run'.todo = run.todo
    BY <1>7, <1>a DEF MarkFailed, RunType, Points, Warned
  <2>. QED
    BY <2>0, <2>1, <2>2, TableNone DEF AtPoints
<1>8. CASE Copy
  <2>0. run.at = "copy" /\ job' = job /\ part' = [part EXCEPT ![run.job] = [m |-> run.m, files |-> "some"]]
    BY <1>8 DEF Copy
  <2>1. /\ run.job \in Jobs /\ job[run.job].st = "running" /\ run.m \in ManifestType
        /\ run.m.job = run.job
    BY <1>b, <2>0 DEF AtPoints
  <2>2. /\ run' \in RunType /\ run'.at = "manifest" /\ run'.job = run.job /\ run'.list = run.list
        /\ run'.m = run.m
    BY <1>8, <1>a, GoTo, PointNames DEF Copy
  <2>3. part'[run.job] = [m |-> run.m, files |-> "some"]
    BY <2>0, <2>1 DEF TypeOK
  <2>. QED
    BY <1>a, <2>0, <2>1, <2>2, <2>3 DEF AtPoints
<1>9. CASE WriteManifest
  <2>0. run.at = "manifest" /\ job' = job /\ part' = [part EXCEPT ![run.job] = Files(part[run.job], "whole")]
    BY <1>9 DEF WriteManifest
  <2>1. /\ run.job \in Jobs /\ job[run.job].st = "running" /\ run.m \in ManifestType
        /\ run.m.job = run.job /\ part[run.job] = [m |-> run.m, files |-> "some"]
    BY <1>b, <2>0 DEF AtPoints
  <2>2. /\ run' \in RunType /\ run'.at = "rename" /\ run'.job = run.job /\ run'.list = run.list
        /\ run'.m = run.m
    BY <1>9, <1>a, GoTo, PointNames DEF WriteManifest
  <2>4. Files(part[run.job], "whole") = [m |-> run.m, files |-> "whole"]
    BY <2>1 DEF Files
  <2>3. part'[run.job] = [m |-> run.m, files |-> "whole"]
    BY <2>0, <2>1, <2>4 DEF TypeOK
  <2>. QED
    BY <1>a, <2>0, <2>1, <2>2, <2>3 DEF AtPoints
<1>10. CASE RenameVersion
  <2>0. /\ run.at = "rename" /\ job' = job /\ at' = [at EXCEPT ![FreeName] = part[run.job]]
    BY <1>10 DEF RenameVersion
  <2>1. /\ run.job \in Jobs /\ job[run.job].st = "running" /\ run.m \in ManifestType
        /\ run.m.job = run.job /\ part[run.job] = [m |-> run.m, files |-> "whole"]
    BY <1>b, <2>0 DEF AtPoints
  <2>2. FreeName \in Names /\ FreeName[1] = run.m.time
    BY <2>1 DEF FreeName, Names, ManifestType
  <2>3. CASE Go("fail")
    <3>1. run' \in RunType /\ run'.at = "fail" /\ run'.job = run.job /\ run'.list = run.list
    BY <1>a, <2>3, GoTo, PointNames
    <3>. QED
    BY <1>a, <2>0, <2>1, <3>1, CalmPoint
  <2>4. CASE run' = [run EXCEPT !.at = "record", !.name = FreeName]
    <3>1. PICK n \in Names : n = FreeName
    BY <2>2
    <3>2. /\ run' \in RunType /\ run'.at = "record" /\ run'.job = run.job /\ run'.list = run.list
          /\ run'.m = run.m /\ run'.name = n
    BY <1>a, <2>4, <3>1 DEF RunType, Points
    <3>3. [m |-> run.m, files |-> "whole"] \in DirType
    BY <2>1 DEF DirType
    <3>4. at'[n] # None
    BY <2>0, <2>1, <3>1, <3>3, NoneAssumption DEF TypeOK
    <3>. QED
    BY <1>a, <2>0, <2>1, <2>2, <3>1, <3>2, <3>4 DEF AtPoints, Held
  <2>. QED
    BY <1>10, <2>3, <2>4 DEF RenameVersion
<1>11. CASE Record
  <2>1. run.at # "idle" /\ job' = job
    BY <1>11 DEF Record
  <2>2. PICK p \in {"prune", "fail"} : Go(p)
    BY <1>11 DEF Record
  <2>3. p \in Points
    BY <2>2 DEF Points
  <2>4. run' \in RunType /\ run'.at = p /\ run'.job = run.job /\ run'.list = run.list
    BY <1>a, <2>2, <2>3, GoTo
  <2>5. run'.at \in {"choose", "fail", "prune", "end"}
    BY <2>2, <2>4
  <2>. QED
    BY <1>a, <1>b, <2>1, <2>4, <2>5, CalmPoint
<1>12. CASE RecordRefused
  <2>1. run.at # "idle" /\ job' = job
    BY <1>12 DEF RecordRefused
  <2>2. PICK p \in {"fail"} : Go(p)
    BY <1>12 DEF RecordRefused
  <2>3. p \in Points
    BY <2>2 DEF Points
  <2>4. run' \in RunType /\ run'.at = p /\ run'.job = run.job /\ run'.list = run.list
    BY <1>a, <2>2, <2>3, GoTo
  <2>5. run'.at \in {"choose", "fail", "prune", "end"}
    BY <2>2, <2>4
  <2>. QED
    BY <1>a, <1>b, <2>1, <2>4, <2>5, CalmPoint
<1>13. CASE Fail
  <2>1. run.at # "idle" /\ job' = job
    BY <1>13 DEF Fail
  <2>2. PICK p \in {"fail"} : Go(p)
    BY <1>13 DEF Fail
  <2>3. p \in Points
    BY <2>2 DEF Points
  <2>4. run' \in RunType /\ run'.at = p /\ run'.job = run.job /\ run'.list = run.list
    BY <1>a, <2>2, <2>3, GoTo
  <2>5. run'.at \in {"choose", "fail", "prune", "end"}
    BY <2>2, <2>4
  <2>. QED
    BY <1>a, <1>b, <2>1, <2>4, <2>5, CalmPoint
<1>14. CASE FailEnd
    BY <1>14, IdlePoint DEF FailEnd
<1>15. CASE PruneList
  <2>0. run.at = "prune" /\ job' = job /\ rows' = rows
    BY <1>15 DEF PruneList
  <2>1. CASE run' = [run EXCEPT !.at = "lost", !.todo = rows, !.list = {},
                                !.keep = IF world.kind = "manifest" THEN keep ELSE @]
    <3>1. rows \subseteq RowType /\ keep \in Int \X Int
    BY <1>a DEF Table, TypeOK
    <3>2. run' \in RunType /\ run'.at = "lost" /\ run'.job = run.job /\ run'.list = {} /\ run'.todo = rows
    BY <1>a, <2>1, <3>1 DEF RunType, Points
    <3>. QED
    BY <1>b, <2>0, <3>2, TableNone DEF AtPoints
  <2>2. CASE run' = Warned([run EXCEPT !.at = "end"])
    <3>1. run' \in RunType /\ run'.at = "end" /\ run'.job = run.job /\ run'.list = run.list
    BY <1>a, <2>2 DEF RunType, Warned, Points
    <3>. QED
    BY <1>a, <1>b, <2>0, <3>1, CalmPoint
  <2>. QED
    BY <1>15, <2>1, <2>2 DEF PruneList
<1>16. CASE DropLost
  <2>0. run.at = "lost" /\ run.todo # {} /\ job' = job
    BY <1>16 DEF DropLost
  <2>1. /\ run.job \in Jobs /\ job[run.job].st = "running" /\ run.todo \subseteq rows
        /\ run.list \subseteq rows /\ run.todo \cap run.list = {}
    BY <1>b, <2>0 DEF AtPoints
  <2>2. PICK r \in run.todo : r = Newest(run.todo)
    BY <1>a, <2>0, <2>1, TableSub, NewestIn
  <2>3. r \in rows /\ r \in RowType /\ r.name \in Names
    BY <1>a, <2>1, <2>2 DEF Table, RowType
  <2>. DEFINE next == [run EXCEPT !.todo = @ \ {r}]
              present == [next EXCEPT !.list = @ \cup {r}]
  <2>4. CASE rows' = rows /\ (run' = present \/ run' = Warned(present))
    <3>a. /\ next \in RunType /\ next.at = run.at /\ next.job = run.job
          /\ next.list = run.list /\ next.todo = run.todo \ {r}
    BY <1>a DEF RunType
    <3>. HIDE DEF next
    <3>b. /\ present \in RunType /\ present.at = run.at /\ present.job = run.job
          /\ present.list = run.list \cup {r} /\ present.todo = run.todo \ {r}
    BY <2>3, <3>a DEF RunType
    <3>. HIDE DEF present
    <3>1. /\ run' \in RunType /\ run'.at = run.at /\ run'.job = run.job
          /\ run'.list = run.list \cup {r} /\ run'.todo = run.todo \ {r}
      <4>1. CASE run' = present
        BY <3>b, <4>1
      <4>2. CASE run' = Warned(present)
        BY <3>b, <4>2 DEF RunType, Warned
      <4>. QED
        BY <2>4, <4>1, <4>2
    <3>2. run'.list \subseteq rows /\ Table(run'.list)
    BY <1>a, <2>1, <2>3, <3>1, TableSub
    <3>3. run'.todo \subseteq rows' /\ run'.list \subseteq rows' /\ run'.todo \cap run'.list = {}
    BY <2>1, <2>4, <3>1, <3>2
    <3>. QED
    BY <2>0, <2>1, <3>1, <3>2, <3>3 DEF AtPoints
  <2>5. CASE rows' = rows \ {r} /\ run' = [next EXCEPT !.at = "sweep", !.name = r.name]
    <3>1. /\ run' \in RunType /\ run'.at = "sweep" /\ run'.job = run.job
          /\ run'.list = run.list /\ run'.todo = run.todo \ {r} /\ run'.name = r.name
    BY <1>a, <2>3, <2>5 DEF RunType, Points
    <3>2. run'.todo \subseteq rows' /\ run'.list \subseteq rows' /\ run'.todo \cap run'.list = {}
    BY <2>1, <2>2, <2>5, <3>1
    <3>3. ~Recorded(r.name)'
    BY <2>3, <2>5 DEF Recorded, NamesOnce
    <3>. QED
    BY <1>a, <2>0, <2>1, <2>3, <3>1, <3>2, <3>3 DEF AtPoints
  <2>. QED
    BY <1>16, <2>2, <2>4, <2>5 DEF DropLost
<1>17. CASE DropTrash
  <2>0. run.at = "sweep" /\ job' = job /\ rows' = rows
    BY <1>17 DEF DropTrash
  <2>1. /\ run.job \in Jobs /\ job[run.job].st = "running" /\ run.todo \subseteq rows
        /\ run.list \subseteq rows /\ run.todo \cap run.list = {}
    BY <1>b, <2>0 DEF AtPoints
  <2>2. /\ run' \in RunType /\ run'.at = "lost" /\ run'.job = run.job
        /\ run'.list = run.list /\ run'.todo = run.todo
    BY <1>17, <1>a DEF DropTrash, RunType, Points, Go, Warned
  <2>. QED
    BY <1>a, <2>0, <2>1, <2>2 DEF AtPoints
<1>18. CASE Decide
  <2>0. run.at = "lost" /\ job' = job /\ rows' = rows
    BY <1>18 DEF Decide
  <2>1. run.job \in Jobs /\ job[run.job].st = "running" /\ run.list \subseteq rows
    BY <1>b, <2>0 DEF AtPoints
  <2>2. PICK L \in SUBSET run.list : L = Prune(run.list)
    BY DEF Prune
  <2>3. run' = [run EXCEPT !.at = "restore", !.todo = run.list \ L, !.list = L]
    BY <1>18, <2>2 DEF Decide
  <2>4. /\ run' \in RunType /\ run'.at = "restore" /\ run'.job = run.job
        /\ run'.list = L /\ run'.todo = run.list \ L
    BY <1>a, <2>3 DEF RunType, Points
  <2>5. Table(L)
    BY <1>a, TableSub
  <2>. QED
    BY <2>0, <2>1, <2>4, <2>5 DEF AtPoints
<1>19. CASE RestoreVersion
  <2>0. run.at = "restore" /\ run.todo # {} /\ job' = job /\ rows' = rows
    BY <1>19 DEF RestoreVersion
  <2>1. /\ run.job \in Jobs /\ job[run.job].st = "running" /\ run.todo \subseteq rows
        /\ run.list \subseteq rows
    BY <1>b, <2>0 DEF AtPoints
  <2>2. PICK r : r = Newest(run.todo)
    OBVIOUS
  <2>3. run' = [run EXCEPT !.todo = @ \ {r}] \/ run' = Warned([run EXCEPT !.todo = @ \ {r}])
    BY <1>19, <2>2 DEF RestoreVersion
  <2>4. /\ run' \in RunType /\ run'.at = "restore" /\ run'.job = run.job
        /\ run'.list = run.list /\ run'.todo \subseteq run.todo
    BY <1>a, <2>0, <2>3 DEF RunType, Warned
  <2>. QED
    BY <1>a, <2>0, <2>1, <2>4 DEF AtPoints
<1>20. CASE RestoreEnd
  <2>0. run.at = "restore" /\ job' = job /\ rows' = rows
    BY <1>20 DEF RestoreEnd
  <2>1. run.job \in Jobs /\ job[run.job].st = "running" /\ run.list \subseteq rows
    BY <1>b, <2>0 DEF AtPoints
  <2>2. run' \in RunType /\ run'.at = "delete" /\ run'.job = run.job /\ run'.list = run.list
    BY <1>20, <1>a, GoTo, PointNames DEF RestoreEnd
  <2>. QED
    BY <1>a, <2>0, <2>1, <2>2 DEF AtPoints
<1>21. CASE TrashVersion
  <2>0. run.at = "delete" /\ run.list # {} /\ job' = job /\ rows' = rows
    BY <1>21 DEF TrashVersion
  <2>1. run.job \in Jobs /\ job[run.job].st = "running" /\ run.list \subseteq rows
    BY <1>b, <2>0 DEF AtPoints
  <2>2. PICK r : r = Oldest(run.list)
    OBVIOUS
  <2>3. \/ run' = run
        \/ run' = Warned([run EXCEPT !.list = @ \ {r}])
        \/ Go("unrecord")
    BY <1>21, <2>2 DEF TrashVersion
  <2>4. /\ run' \in RunType /\ run'.at \in {"delete", "unrecord"} /\ run'.job = run.job
        /\ run'.list \subseteq run.list /\ (run'.at = "unrecord" => run'.list = run.list)
    BY <1>a, <2>0, <2>3 DEF RunType, Warned, Go, Points
  <2>5. Table(run'.list)
    BY <1>a, <2>4, TableSub
  <2>. QED
    BY <2>0, <2>1, <2>4, <2>5 DEF AtPoints
<1>22. CASE Unrecord
  <2>0. run.at = "unrecord" /\ job' = job
    BY <1>22 DEF Unrecord
  <2>1. /\ run.job \in Jobs /\ job[run.job].st = "running" /\ run.list \subseteq rows
        /\ run.list # {}
    BY <1>b, <2>0 DEF AtPoints
  <2>2. PICK r \in run.list : r = Oldest(run.list)
    BY <1>a, <2>1, OldestIn
  <2>3. CASE rows' = rows \ {r} /\ Go("empty")
    <3>1. run' \in RunType /\ run'.at = "empty" /\ run'.job = run.job /\ run'.list = run.list
    BY <1>a, <2>3, GoTo, PointNames
    <3>2. run'.list \ {r} \subseteq rows' /\ ~Recorded(r.name)'
    BY <2>1, <2>2, <2>3, <3>1 DEF Recorded, NamesOnce
    <3>. QED
    BY <1>a, <2>0, <2>1, <2>2, <3>1, <3>2 DEF AtPoints
  <2>4. CASE rows' = rows /\ run' = Warned([run EXCEPT !.at = "delete", !.list = @ \ {r}])
    <3>1. /\ run' \in RunType /\ run'.at = "delete" /\ run'.job = run.job
          /\ run'.list = run.list \ {r}
    BY <1>a, <2>4 DEF RunType, Warned, Points
    <3>2. Table(run'.list) /\ run'.list \subseteq rows'
    BY <1>a, <2>1, <2>4, <3>1, TableSub
    <3>. QED
    BY <2>0, <2>1, <3>1, <3>2 DEF AtPoints
  <2>. QED
    BY <1>22, <2>2, <2>3, <2>4 DEF Unrecord
<1>23. CASE EmptyTrash
  <2>0. run.at = "empty" /\ job' = job /\ rows' = rows
    BY <1>23 DEF EmptyTrash
  <2>1. /\ run.job \in Jobs /\ job[run.job].st = "running" /\ run.list # {}
        /\ run.list \ {Oldest(run.list)} \subseteq rows
    BY <1>b, <2>0 DEF AtPoints
  <2>2. PICK r : r = Oldest(run.list)
    OBVIOUS
  <2>. DEFINE q == [run EXCEPT !.at = "delete", !.list = @ \ {r}]
  <2>3. run' = q \/ run' = Warned(q)
    BY <1>23, <2>2 DEF EmptyTrash
  <2>6. /\ q \in RunType /\ q.at = "delete" /\ q.job = run.job /\ q.list = run.list \ {r}
    BY <1>a DEF RunType, Points
  <2>. HIDE DEF q
  <2>4. /\ run' \in RunType /\ run'.at = "delete" /\ run'.job = run.job
        /\ run'.list = run.list \ {r}
    <3>1. CASE run' = q
    BY <2>6, <3>1
    <3>2. CASE run' = Warned(q)
    BY <2>6, <3>2 DEF RunType, Warned
    <3>. QED
    BY <2>3, <3>1, <3>2
  <2>5. Table(run'.list)
    BY <1>a, <2>4, TableSub
  <2>. QED
    BY <2>0, <2>1, <2>2, <2>4, <2>5 DEF AtPoints
<1>24. CASE PruneEnd
  <2>0. run.at = "delete" /\ job' = job
    BY <1>24 DEF PruneEnd
  <2>1. run' \in RunType /\ run'.at = "end" /\ run'.job = run.job /\ run'.list = run.list
    BY <1>24, <1>a DEF PruneEnd, RunType, Warned, Points, Go
  <2>. QED
    BY <1>a, <1>b, <2>0, <2>1, CalmPoint
<1>25. CASE Succeed
    BY <1>25, IdlePoint DEF Succeed
<1>26. CASE Crash
    BY <1>26, IdlePoint DEF Crash
<1>27. CASE Tick
  <2>1. UNCHANGED <<run, job, rows, part, at, trash, hurt>>
    BY <1>27 DEF Tick, folder, hist
  <2>. QED
    BY <1>a, <2>1, RunFramed
<1>28. CASE SourceChanges
  <2>1. UNCHANGED <<run, job, rows, part, at, trash, hurt>>
    BY <1>28 DEF SourceChanges, folder, hist
  <2>. QED
    BY <1>a, <2>1, RunFramed
<1>29. CASE SetKeep
  <2>1. UNCHANGED <<run, job, rows, part, at, trash, hurt>>
    BY <1>29 DEF SetKeep, folder, hist
  <2>. QED
    BY <1>a, <2>1, RunFramed
<1>30. ASSUME NEW j \in Jobs, Begin(j)
      PROVE  run' \in RunType /\ Table(run'.list) /\ AtPoints'
  <2>1. job'[j].st = "running"
    BY <1>30, <1>c DEF Begin, JobType
  <2>2. Entries \subseteq EntryType /\ \A n \in Names : <<"trash", n>> \in Entries => trash[n] # None
    BY VersionAssumption DEF Entries, EntryType, Names, Times
  <2>3. keep \in Int \X Int /\ trash' = trash /\ j \in Nat
    BY <1>30, VersionAssumption DEF TypeOK, Begin, folder
  <2>4. run' = [Idle EXCEPT !.job = j, !.at = "recover", !.todo = Entries, !.keep = keep]
    BY <1>30 DEF Begin
  <2>5. Idle \in RunType /\ Idle.list = {}
    BY DEF Idle, RunType, Points
  <2>6. /\ run' \in RunType /\ run'.at = "recover" /\ run'.job = j /\ run'.todo = Entries
        /\ run'.list = {}
    BY <2>2, <2>3, <2>4, <2>5 DEF RunType, Points
  <2>. QED
    BY <2>1, <2>2, <2>3, <2>6, TableNone DEF AtPoints
<1>31. ASSUME NEW j \in Jobs, RecoverPartial(j)
      PROVE  run' \in RunType /\ Table(run'.list) /\ AtPoints'
  <2>0. run.at = "recover" /\ job' = job
    BY <1>31 DEF RecoverPartial
  <2>1. /\ run.job \in Jobs /\ job[run.job].st = "running"
        /\ \A k \in Names : <<"trash", k>> \in run.todo => trash[k] # None
    BY <1>b, <2>0 DEF AtPoints
  <2>2. CASE run' = Done(<<"part", <<0, j>>>>)
    <3>1. /\ run' \in RunType /\ run'.at = "recover" /\ run'.job = run.job /\ run'.list = run.list
          /\ run'.todo \subseteq run.todo
    BY <1>a, <2>0, <2>2 DEF RunType, Done
    <3>2. trash' = trash
    BY <1>31 DEF RecoverPartial
    <3>. QED
    BY <1>a, <2>0, <2>1, <3>1, <3>2 DEF AtPoints
  <2>3. CASE Go("fail")
    <3>1. run' \in RunType /\ run'.at = "fail" /\ run'.job = run.job /\ run'.list = run.list
    BY <1>a, <2>3, GoTo, PointNames
    <3>. QED
    BY <1>a, <2>0, <2>1, <3>1, CalmPoint
  <2>. QED
    BY <1>31, <2>2, <2>3 DEF RecoverPartial
<1>32. ASSUME NEW n \in Names, RecoverTrash(n)
      PROVE  run' \in RunType /\ Table(run'.list) /\ AtPoints'
  <2>0. run.at = "recover" /\ job' = job
    BY <1>32 DEF RecoverTrash
  <2>1. /\ run.job \in Jobs /\ job[run.job].st = "running"
        /\ \A k \in Names : <<"trash", k>> \in run.todo => trash[k] # None
    BY <1>b, <2>0 DEF AtPoints
  <2>2. PICK e : e = <<"trash", n>> /\ (run' = Done(e) \/ run' = Warned(Done(e)))
    BY <1>32 DEF RecoverTrash
  <2>6. /\ Done(e) \in RunType /\ Done(e).at = "recover" /\ Done(e).job = run.job
        /\ Done(e).list = run.list /\ Done(e).todo = run.todo \ {e}
    BY <1>a, <2>0 DEF RunType, Done
  <2>3. /\ run' \in RunType /\ run'.at = "recover" /\ run'.job = run.job /\ run'.list = run.list
        /\ run'.todo = run.todo \ {e}
    <3>1. CASE run' = Done(e)
    BY <2>6, <3>1
    <3>2. CASE run' = Warned(Done(e))
    BY <2>6, <3>2 DEF RunType, Warned
    <3>. QED
    BY <2>2, <3>1, <3>2
  <2>4. \A k \in Names \ {n} : trash'[k] = trash[k]
    BY <1>32 DEF RecoverTrash, TypeOK
  <2>5. \A k \in Names : <<"trash", k>> \in run'.todo => trash'[k] # None
    BY <2>1, <2>2, <2>3, <2>4
  <2>. QED
    BY <1>a, <2>0, <2>1, <2>3, <2>5 DEF AtPoints
<1>33. ASSUME NEW n \in Names, RecoverVersion(n)
      PROVE  run' \in RunType /\ Table(run'.list) /\ AtPoints'
  <2>0. run.at = "recover" /\ job' = job
    BY <1>33 DEF RecoverVersion
  <2>1. /\ run.job \in Jobs /\ job[run.job].st = "running"
        /\ \A k \in Names : <<"trash", k>> \in run.todo => trash[k] # None
    BY <1>b, <2>0 DEF AtPoints
  <2>2. PICK e : e = <<"at", n>> /\ (run' = Done(e) \/ run' = Warned(Done(e)))
    BY <1>33 DEF RecoverVersion
  <2>6. /\ Done(e) \in RunType /\ Done(e).at = "recover" /\ Done(e).job = run.job
        /\ Done(e).list = run.list /\ Done(e).todo = run.todo \ {e}
    BY <1>a, <2>0 DEF RunType, Done
  <2>3. /\ run' \in RunType /\ run'.at = "recover" /\ run'.job = run.job /\ run'.list = run.list
        /\ run'.todo \subseteq run.todo
    <3>1. CASE run' = Done(e)
    BY <2>6, <3>1
    <3>2. CASE run' = Warned(Done(e))
    BY <2>6, <3>2 DEF RunType, Warned
    <3>. QED
    BY <2>2, <3>1, <3>2
  <2>4. trash' = trash
    BY <1>33 DEF RecoverVersion, folder
  <2>. QED
    BY <1>a, <2>0, <2>1, <2>3, <2>4 DEF AtPoints
<1>34. ASSUME NEW n \in Names, Meddle(n)
      PROVE  run' \in RunType /\ Table(run'.list) /\ AtPoints'
  <2>1. UNCHANGED <<run, job, rows, part>> /\ hurt' = hurt \cup {n}
    BY <1>34 DEF Meddle
  <2>2. \A k \in Names : /\ (k # n => at'[k] = at[k]) /\ (trash[k] # None => trash'[k] # None)
    <3>1. CASE trash' = trash /\ \E d : at' = [at EXCEPT ![n] = d]
    BY <3>1 DEF TypeOK
    <3>2. CASE RemoveSome(n) /\ at' = at
      <4>1. trash[n] \in DirType
        BY <3>2 DEF RemoveSome, TypeOK
      <4>2. Files(trash[n], "some") \in DirType
        BY <4>1 DEF Files, DirType
      <4>. QED
        BY <3>2, <4>2, NoneAssumption DEF RemoveSome, TypeOK
    <3>. QED
    BY <1>34, <3>1, <3>2 DEF Meddle
  <2>. QED
    BY <1>a, <2>1, <2>2, RunMeddled
<1>35. CASE UNCHANGED vars
    BY <1>35, RunFramed DEF vars, folder, hist
<1>. QED
    BY <1>1, <1>2, <1>3, <1>4, <1>5, <1>6, <1>7, <1>8, <1>9, <1>10, <1>11, <1>12, <1>13, <1>14,
       <1>15, <1>16, <1>17, <1>18, <1>19, <1>20, <1>21, <1>22, <1>23, <1>24, <1>25, <1>26,
       <1>27, <1>28, <1>29, <1>30, <1>31, <1>32, <1>33, <1>34, <1>35 DEF Next

-----------------------------------------------------------------------------
(* The clock and the jobs.                                                 *)

\* How the jobs and the clock move: a job ends, is queued again at a later second, or begins.
JobsMove ==
    \A j \in Jobs :
        \/ job'[j].st = job[j].st
        \/ job'[j].st \in {"ok", "failed"} /\ job[j].st = "running"
        \/ job'[j].st = "queued" /\ job[j].st = "running" /\ now' = now + 1
        \/ job'[j].st = "running" /\ job[j].st \in {"new", "queued"} /\ run'.job = j /\ run'.at = "recover"

WorldMoves ==
    /\ world' = world /\ now' \in Times /\ now <= now' /\ src' \in Contents /\ keep' \in Int \X Int
    /\ job' \in [Jobs -> JobType] /\ saw' \in [Jobs -> SUBSET Contents]
    /\ JobsMove

\* Nothing of it moves but the clock, which is within its bound.
LEMMA ClockMoves ==
    ASSUME TypeOK, UNCHANGED <<world, src, keep, saw>>,
           now' = now \/ (now < world.ticks /\ now' = now + 1)
    PROVE  /\ world' = world /\ now' \in Times /\ now <= now' /\ src' \in Contents /\ keep' \in Int \X Int
           /\ saw' \in [Jobs -> SUBSET Contents]
BY VersionAssumption DEF TypeOK, Times

\* A step of the running job: nothing of it moves.
LEMMA WorldStill ==
    ASSUME TypeOK, UNCHANGED <<world, now, src, keep, job, saw>>
    PROVE  WorldMoves
<1>1. JobsMove
    BY DEF JobsMove
<1>. QED
    BY <1>1, ClockMoves DEF WorldMoves, TypeOK

\* The running job ends.
LEMMA JobEnds ==
    ASSUME TypeOK, run.job \in Jobs, job[run.job].st = "running", NEW x \in JobType,
           job' = [job EXCEPT ![run.job] = x],
           x.st \in {"ok", "failed"} \/ (x.st = "queued" /\ now' = now + 1)
    PROVE  job' \in [Jobs -> JobType] /\ JobsMove
<1>1. job' \in [Jobs -> JobType] /\ \A j \in Jobs : job'[j] = IF j = run.job THEN x ELSE job[j]
    BY DEF TypeOK
<1>. QED
    BY <1>1 DEF JobsMove

\* The clock goes on and the jobs end, are queued again or begin.
LEMMA WorldKept ==
    ASSUME TypeOK, AtPoints, [Next]_vars
    PROVE  WorldMoves
<1>a. run \in RunType /\ job \in [Jobs -> JobType] /\ saw \in [Jobs -> SUBSET Contents] /\ src \in Contents
    BY DEF TypeOK
<1>b. run.at # "idle" => run.job \in Jobs /\ job[run.job].st = "running"
    BY DEF AtPoints
<1>1. CASE RecoverEnd
    BY <1>1, WorldStill DEF RecoverEnd, env, hist
<1>2. CASE ChoosePlex
    BY <1>2, WorldStill DEF ChoosePlex, env, hist
<1>3. CASE ChooseManifest
    BY <1>3, WorldStill DEF ChooseManifest, env, hist
<1>4. CASE ChooseArr
    BY <1>4, WorldStill DEF ChooseArr, env, hist
<1>5. CASE Look
    BY <1>5, WorldStill DEF Look, env, hist
<1>6. CASE LookEnd
    BY <1>6, WorldStill DEF LookEnd, env, hist
<1>7. CASE MarkFailed
    BY <1>7, WorldStill DEF MarkFailed, env, hist
<1>8. CASE Copy
    BY <1>8, WorldStill DEF Copy, env, hist
<1>9. CASE WriteManifest
    BY <1>9, WorldStill DEF WriteManifest, env, hist
<1>10. CASE RenameVersion
    BY <1>10, WorldStill DEF RenameVersion, env, hist
<1>11. CASE Record
    BY <1>11, WorldStill DEF Record, env, hist
<1>12. CASE RecordRefused
    BY <1>12, WorldStill DEF RecordRefused, env, hist
<1>13. CASE Fail
    BY <1>13, WorldStill DEF Fail, env, hist
<1>14. CASE FailEnd
  <2>1. /\ run.at = "fail" /\ UNCHANGED <<world, src, keep, saw>>
    BY <1>14 DEF FailEnd, hist
  <2>2. run.job \in Jobs /\ job[run.job].st = "running" /\ job[run.job] \in JobType
    BY <1>a, <1>b, <2>1
  <2>3. CASE job' = [job EXCEPT ![run.job].st = "failed"] /\ now' = now
    <3>1. PICK x : x = [job[run.job] EXCEPT !.st = "failed"]
    OBVIOUS
    <3>2. x \in JobType /\ x.st = "failed" /\ job' = [job EXCEPT ![run.job] = x]
    BY <2>2, <2>3, <3>1 DEF JobType
    <3>. QED
    BY <2>1, <2>2, <2>3, <3>2, JobEnds, ClockMoves DEF WorldMoves
  <2>4. CASE job' = [job EXCEPT ![run.job] = [st |-> "queued", resumed |-> TRUE]] /\ Restart
    <3>1. PICK x : x = [st |-> "queued", resumed |-> TRUE]
    OBVIOUS
    <3>2. x \in JobType /\ x.st = "queued" /\ job' = [job EXCEPT ![run.job] = x]
    BY <2>4, <3>1 DEF JobType
    <3>3. now < world.ticks /\ now' = now + 1
    BY <2>4 DEF Restart
    <3>. QED
    BY <2>1, <2>2, <3>2, <3>3, JobEnds, ClockMoves DEF WorldMoves
  <2>. QED
    BY <1>14, <2>3, <2>4 DEF FailEnd
<1>15. CASE PruneList
    BY <1>15, WorldStill DEF PruneList, env, hist
<1>16. CASE DropLost
    BY <1>16, WorldStill DEF DropLost, env, hist
<1>17. CASE DropTrash
    BY <1>17, WorldStill DEF DropTrash, env, hist
<1>18. CASE Decide
    BY <1>18, WorldStill DEF Decide, env, hist
<1>19. CASE RestoreVersion
    BY <1>19, WorldStill DEF RestoreVersion, env, hist
<1>20. CASE RestoreEnd
    BY <1>20, WorldStill DEF RestoreEnd, env, hist
<1>21. CASE TrashVersion
    BY <1>21, WorldStill DEF TrashVersion, env, hist
<1>22. CASE Unrecord
    BY <1>22, WorldStill DEF Unrecord, env, hist
<1>23. CASE EmptyTrash
    BY <1>23, WorldStill DEF EmptyTrash, env, hist
<1>24. CASE PruneEnd
    BY <1>24, WorldStill DEF PruneEnd, env, hist
<1>25. CASE Succeed
  <2>1. /\ run.at = "end" /\ UNCHANGED <<world, now, src, keep, saw>>
    BY <1>25 DEF Succeed, hist, env
  <2>2. run.job \in Jobs /\ job[run.job].st = "running" /\ job[run.job] \in JobType
    BY <1>a, <1>b, <2>1
  <2>3. PICK x : x = [job[run.job] EXCEPT !.st = "ok"]
    OBVIOUS
  <2>4. x \in JobType /\ x.st = "ok" /\ job' = [job EXCEPT ![run.job] = x]
    BY <1>25, <2>2, <2>3 DEF JobType, Succeed
  <2>. QED
    BY <2>1, <2>2, <2>4, JobEnds, ClockMoves DEF WorldMoves
<1>26. CASE Crash
  <2>1. /\ run # Idle /\ UNCHANGED <<world, src, keep, saw>> /\ now < world.ticks /\ now' = now + 1
    BY <1>26 DEF Crash, hist, Restart
  <2>2. run.job \in Jobs /\ job[run.job].st = "running"
    BY <1>b, <2>1 DEF AtPoints
  <2>3. PICK st \in {"queued", "failed"} : job' = [job EXCEPT ![run.job] = [st |-> st, resumed |-> TRUE]]
    BY <1>26 DEF Crash
  <2>4. PICK x : x = [st |-> st, resumed |-> TRUE]
    OBVIOUS
  <2>5. x \in JobType /\ x.st = st /\ job' = [job EXCEPT ![run.job] = x]
    BY <2>3, <2>4 DEF JobType
  <2>. QED
    BY <2>1, <2>2, <2>3, <2>5, JobEnds, ClockMoves DEF WorldMoves
<1>27. CASE Tick
  <2>1. /\ UNCHANGED <<world, src, keep, saw, job>> /\ now < world.ticks /\ now' = now + 1
    BY <1>27 DEF Tick, hist
  <2>. QED
    BY <1>a, <2>1, ClockMoves DEF WorldMoves, JobsMove
<1>28. CASE SourceChanges
  <2>1. UNCHANGED <<world, now, keep, job>> /\ src' \in Contents
    BY <1>28 DEF SourceChanges
  <2>2. saw' \in [Jobs -> SUBSET Contents]
    BY <1>28, <1>a DEF SourceChanges
  <2>3. now' \in Times /\ now <= now' /\ keep' \in Int \X Int
    BY <2>1, VersionAssumption DEF TypeOK, Times
  <2>. QED
    BY <1>a, <2>1, <2>2, <2>3 DEF WorldMoves, JobsMove
<1>29. CASE SetKeep
  <2>1. UNCHANGED <<world, now, src, job, saw>> /\ keep' \in Int \X Int
    BY <1>29 DEF SetKeep, hist, TypeOK
  <2>2. now' \in Times /\ now <= now'
    BY <2>1, VersionAssumption DEF TypeOK, Times
  <2>. QED
    BY <1>a, <2>1, <2>2 DEF WorldMoves, JobsMove
<1>30. ASSUME NEW j \in Jobs, Begin(j)
      PROVE  WorldMoves
  <2>1. /\ UNCHANGED <<world, now, src, keep>> /\ job[j].st \in {"new", "queued"}
        /\ job' = [job EXCEPT ![j].st = "running"] /\ saw' = [saw EXCEPT ![j] = @ \cup {src}]
    BY <1>30 DEF Begin, env
  <2>2. run'.job = j /\ run'.at = "recover"
    BY <1>30 DEF Begin, Idle
  <2>3. PICK x : x = [job[j] EXCEPT !.st = "running"]
    OBVIOUS
  <2>4. x \in JobType /\ x.st = "running" /\ job' = [job EXCEPT ![j] = x]
    BY <1>a, <2>1, <2>3 DEF JobType
  <2>5. job' \in [Jobs -> JobType] /\ \A i \in Jobs : job'[i] = IF i = j THEN x ELSE job[i]
    BY <1>a, <2>4
  <2>6. saw' \in [Jobs -> SUBSET Contents]
    BY <1>a, <2>1
  <2>7. now' \in Times /\ now <= now' /\ src' \in Contents /\ keep' \in Int \X Int
    BY <2>1, VersionAssumption DEF TypeOK, Times
  <2>. QED
    BY <2>1, <2>2, <2>4, <2>5, <2>6, <2>7 DEF WorldMoves, JobsMove
<1>31. ASSUME NEW j \in Jobs, RecoverPartial(j)
      PROVE  WorldMoves
    BY <1>31, WorldStill DEF RecoverPartial, env, hist
<1>32. ASSUME NEW n \in Names, RecoverTrash(n)
      PROVE  WorldMoves
    BY <1>32, WorldStill DEF RecoverTrash, env, hist
<1>33. ASSUME NEW n \in Names, RecoverVersion(n)
      PROVE  WorldMoves
    BY <1>33, WorldStill DEF RecoverVersion, env, hist
<1>34. ASSUME NEW n \in Names, Meddle(n)
      PROVE  WorldMoves
    BY <1>34, WorldStill DEF Meddle, env, hist
<1>35. CASE UNCHANGED vars
    BY <1>35, WorldStill DEF vars, env, hist
<1>. QED
    BY <1>1, <1>2, <1>3, <1>4, <1>5, <1>6, <1>7, <1>8, <1>9, <1>10, <1>11, <1>12, <1>13, <1>14,
       <1>15, <1>16, <1>17, <1>18, <1>19, <1>20, <1>21, <1>22, <1>23, <1>24, <1>25, <1>26,
       <1>27, <1>28, <1>29, <1>30, <1>31, <1>32, <1>33, <1>34, <1>35 DEF Next

-----------------------------------------------------------------------------
(* The table.                                                              *)

\* A new row is for a version that is at its name, and whose manifest is not new.
NewRow(q) ==
    /\ \A r \in rows : r.id # q.id
    /\ ~Recorded(q.name) /\ Held(q.name) /\ q.m.time = q.name[1] /\ Man(q.m)

\* Rows go, are marked as failed, or one is added.
RowsMove ==
    \/ rows' \subseteq rows
    \/ \E R \in SUBSET rows : rows' = Unmark(R)
    \/ \E q \in RowType : rows' = rows \cup {q} /\ NewRow(q)

\* What each step does to the rows.
LEMMA RowsKept ==
    ASSUME TypeOK, AtPoints, OfSecond, [Next]_vars
    PROVE  RowsMove
<1>a. run \in RunType /\ Table(rows) /\ Table(run.list) /\ rows \subseteq RowType
    BY DEF TypeOK, Table
<1>b. run.at # "idle" => run.job \in Jobs
    BY DEF AtPoints
<1>1. CASE RecoverEnd
  <2>1. Damaged(run.job) \subseteq rows
    BY DEF Damaged
  <2>. QED
    BY <1>1, <2>1 DEF RecoverEnd, RowsMove
<1>2. CASE ChoosePlex
    BY <1>2 DEF ChoosePlex, RowsMove
<1>3. CASE ChooseManifest
  <2>1. CASE rows' = rows
    BY <2>1 DEF RowsMove
  <2>2. CASE rows' # rows
    <3>. DEFINE ok == {r \in rows : r.ok}
                R == IF ok # {} /\ Newest(ok).m.src = src THEN {Newest(ok)} ELSE {}
    <3>1. rows' = Unmark(R)
    BY <1>3, <2>2 DEF ChooseManifest
    <3>2. ok # {} => Newest(ok) \in ok
    BY <1>a, TableSub, NewestIn
    <3>3. R \subseteq rows
    BY <3>2
    <3>. QED
    BY <3>1, <3>3 DEF RowsMove
  <2>. QED
    BY <2>1, <2>2
<1>4. CASE ChooseArr
    BY <1>4 DEF ChooseArr, RowsMove
<1>5. CASE Look
    BY <1>5 DEF Look, RowsMove
<1>6. CASE LookEnd
    BY <1>6 DEF LookEnd, RowsMove
<1>7. CASE MarkFailed
  <2>1. run.at = "mark"
    BY <1>7 DEF MarkFailed
  <2>2. PICK r \in run.list : /\ run.list = {r} /\ ~Recorded(r.name) /\ Held(r.name)
                              /\ r.m.time = r.name[1]
    BY <2>1 DEF AtPoints
  <2>3. (CHOOSE s \in run.list : TRUE) = r
    BY <2>2
  <2>4. r \in RowType /\ r.name \in Names /\ r.m \in ManifestType /\ r.by \in Jobs
    BY <1>a, <2>2 DEF Table, RowType
  <2>11. \A ok \in BOOLEAN : /\ Row(r.name, r.m, ok) \in RowType
                             /\ \A s \in rows : s.id # Row(r.name, r.m, ok).id
                             /\ Row(r.name, r.m, ok).name = r.name /\ Row(r.name, r.m, ok).m = r.m
    BY <1>a, <1>b, <2>1, <2>4, RowFresh
  <2>5. PICK p \in RowType : /\ p = Row(r.name, r.m, FALSE) /\ \A s \in rows : s.id # p.id
                             /\ p.name = r.name /\ p.m = r.m
    BY <2>11, Zenon
  <2>6. PICK q : q = [p EXCEPT !.by = r.by]
    OBVIOUS
  <2>7. q \in RowType /\ q.id = p.id /\ q.name = r.name /\ q.m = r.m
    BY <2>4, <2>5, <2>6 DEF RowType
  <2>8. Man(q.m)
    BY <2>1, <2>2, <2>7 DEF Man, InTable
  <2>9. NewRow(q)
    BY <2>2, <2>5, <2>7, <2>8 DEF NewRow
  <2>10. rows' = rows \/ rows' = rows \cup {q}
    BY <1>7, <2>3, <2>5, <2>6 DEF MarkFailed
  <2>. QED
    BY <2>7, <2>9, <2>10 DEF RowsMove
<1>8. CASE Copy
    BY <1>8 DEF Copy, RowsMove
<1>9. CASE WriteManifest
    BY <1>9 DEF WriteManifest, RowsMove
<1>10. CASE RenameVersion
    BY <1>10 DEF RenameVersion, RowsMove
<1>11. CASE Record
  <2>1. run.at = "record" /\ ~Recorded(run.name) /\ rows' = rows \cup {Row(run.name, run.m, run.m.ok)}
    BY <1>11 DEF Record
  <2>2. /\ run.m \in ManifestType /\ run.name \in Names /\ run.name[1] = run.m.time /\ Held(run.name)
    BY <2>1 DEF AtPoints
  <2>3. run.m.ok \in BOOLEAN
    BY <2>2 DEF ManifestType
  <2>5. PICK q \in RowType : /\ q = Row(run.name, run.m, run.m.ok) /\ \A s \in rows : s.id # q.id
                             /\ q.name = run.name /\ q.m = run.m
    BY <1>a, <1>b, <2>1, <2>2, <2>3, RowFresh
  <2>6. Man(q.m)
    BY <2>1, <2>5 DEF Man, Being
  <2>7. NewRow(q)
    BY <2>1, <2>2, <2>5, <2>6 DEF NewRow
  <2>. QED
    BY <2>1, <2>5, <2>7 DEF RowsMove
<1>12. CASE RecordRefused
    BY <1>12 DEF RecordRefused, RowsMove
<1>13. CASE Fail
    BY <1>13 DEF Fail, RowsMove
<1>14. CASE FailEnd
    BY <1>14 DEF FailEnd, RowsMove
<1>15. CASE PruneList
    BY <1>15 DEF PruneList, RowsMove
<1>16. CASE DropLost
    BY <1>16 DEF DropLost, RowsMove
<1>17. CASE DropTrash
    BY <1>17 DEF DropTrash, RowsMove
<1>18. CASE Decide
    BY <1>18 DEF Decide, RowsMove
<1>19. CASE RestoreVersion
    BY <1>19 DEF RestoreVersion, RowsMove
<1>20. CASE RestoreEnd
    BY <1>20 DEF RestoreEnd, RowsMove
<1>21. CASE TrashVersion
    BY <1>21 DEF TrashVersion, RowsMove
<1>22. CASE Unrecord
    BY <1>22 DEF Unrecord, RowsMove
<1>23. CASE EmptyTrash
    BY <1>23 DEF EmptyTrash, RowsMove
<1>24. CASE PruneEnd
    BY <1>24 DEF PruneEnd, RowsMove
<1>25. CASE Succeed
    BY <1>25 DEF Succeed, RowsMove
<1>26. CASE Crash
    BY <1>26 DEF Crash, RowsMove
<1>27. CASE Tick
    BY <1>27 DEF Tick, RowsMove
<1>28. CASE SourceChanges
    BY <1>28 DEF SourceChanges, RowsMove
<1>29. CASE SetKeep
    BY <1>29 DEF SetKeep, RowsMove
<1>30. ASSUME NEW j \in Jobs, Begin(j)
      PROVE  RowsMove
    BY <1>30 DEF Begin, RowsMove
<1>31. ASSUME NEW j \in Jobs, RecoverPartial(j)
      PROVE  RowsMove
    BY <1>31 DEF RecoverPartial, RowsMove
<1>32. ASSUME NEW n \in Names, RecoverTrash(n)
      PROVE  RowsMove
    BY <1>32 DEF RecoverTrash, RowsMove
<1>33. ASSUME NEW n \in Names, RecoverVersion(n)
      PROVE  RowsMove
  <2>1. CASE rows' = rows
    BY <2>1 DEF RowsMove
  <2>2. CASE ~Recorded(n) /\ at[n] # None /\ Adopt(n)
    <3>1. at[n] \in DirType
    BY <2>2 DEF TypeOK
    <3>2. at[n].m \in ManifestType
    BY <3>1 DEF DirType
    <3>3. PICK ok \in BOOLEAN : ok = (at[n].m.ok /\ at[n].files = "whole")
    OBVIOUS
    <3>4. run.job \in Jobs
    BY <1>33, <1>b DEF RecoverVersion
    <3>9. PICK m \in ManifestType : m = at[n].m
    BY <3>2
    <3>10. \A b \in BOOLEAN : /\ Row(n, m, b) \in RowType
                              /\ \A s \in rows : s.id # Row(n, m, b).id
                              /\ Row(n, m, b).name = n /\ Row(n, m, b).m = m
    BY <1>a, <3>4, RowFresh
    <3>5. PICK q \in RowType : /\ q = Row(n, m, ok) /\ \A s \in rows : s.id # q.id
                             /\ q.name = n /\ q.m = m
    BY <3>10, Zenon
    <3>6. rows' = rows \cup {q}
    BY <2>2, <3>3, <3>5, <3>9 DEF Adopt
    <3>7. Man(q.m) /\ Held(n) /\ q.m.time = n[1]
    BY <2>2, <3>5, <3>9 DEF Man, InFolder, Held, OfSecond
    <3>8. NewRow(q)
    BY <2>2, <3>5, <3>7 DEF NewRow
    <3>. QED
    BY <3>5, <3>6, <3>8 DEF RowsMove
  <2>. QED
    BY <1>33, <2>1, <2>2 DEF RecoverVersion
<1>34. ASSUME NEW n \in Names, Meddle(n)
      PROVE  RowsMove
    BY <1>34 DEF Meddle, RowsMove
<1>35. CASE UNCHANGED vars
    BY <1>35 DEF vars, RowsMove
<1>. QED
    BY <1>1, <1>2, <1>3, <1>4, <1>5, <1>6, <1>7, <1>8, <1>9, <1>10, <1>11, <1>12, <1>13, <1>14,
       <1>15, <1>16, <1>17, <1>18, <1>19, <1>20, <1>21, <1>22, <1>23, <1>24, <1>25, <1>26,
       <1>27, <1>28, <1>29, <1>30, <1>31, <1>32, <1>33, <1>34, <1>35 DEF Next

\* What the moves of the rows mean.
LEMMA RowsMoved ==
    ASSUME TypeOK, NamesOnce, OfSecond, RowsMove
    PROVE  /\ Table(rows') /\ NamesOnce'
           /\ \A r \in rows' : r.m.time = r.name[1]
           /\ \A r \in rows' : \/ \E s \in rows : s.name = r.name /\ s.m = r.m /\ (r = s \/ ~r.ok)
                               \/ Held(r.name) /\ Man(r.m) /\ ~Recorded(r.name)
<1>a. Table(rows) /\ rows \subseteq RowType
    BY DEF TypeOK, Table
<1>b. \A r \in rows : r.m.time = r.name[1]
    BY DEF OfSecond
<1>1. CASE rows' \subseteq rows
    BY <1>1, <1>a, <1>b, TableSub DEF NamesOnce
<1>2. CASE \E R \in SUBSET rows : rows' = Unmark(R)
  <2>1. PICK R \in SUBSET rows : rows' = Unmark(R)
    BY <1>2
  <2>2. /\ Table(rows')
        /\ \A s \in rows' : \E r \in rows : s.id = r.id /\ s.name = r.name /\ s.m = r.m /\ (s = r \/ ~s.ok)
    BY <1>a, <2>1, Unmarked
  <2>3. NamesOnce'
    BY <2>2 DEF NamesOnce, Table
  <2>. QED
    BY <1>b, <2>2, <2>3
<1>3. CASE \E q \in RowType : rows' = rows \cup {q} /\ NewRow(q)
  <2>1. PICK q \in RowType : rows' = rows \cup {q} /\ NewRow(q)
    BY <1>3
  <2>2. Table(rows')
    BY <1>a, <2>1, TableAdd DEF NewRow
  <2>3. NamesOnce'
    BY <2>1 DEF NamesOnce, NewRow, Recorded
  <2>. QED
    BY <1>b, <2>1, <2>2, <2>3 DEF NewRow
<1>. QED
    BY <1>1, <1>2, <1>3 DEF RowsMove

-----------------------------------------------------------------------------
(* The folder.                                                             *)

\* Directories keep their types and come from where they were, or from the version that is being
\* written; a version's name stays that of its second; directories nobody else changed stay whole.
FolderMoves ==
    /\ part' \in [Jobs -> DirType \cup {None}]
    /\ at' \in [Names -> DirType \cup {None}]
    /\ trash' \in [Names -> DirType \cup {None}]
    /\ \A j \in Jobs : part'[j] # None => InFolder(part'[j].m) \/ Being(part'[j].m)
    /\ \A n \in Names : at'[n] # None => InFolder(at'[n].m) /\ at'[n].m.time = n[1]
    /\ \A n \in Names : trash'[n] # None => InFolder(trash'[n].m) /\ trash'[n].m.time = n[1]
    /\ Dirs'

\* What a name may hold after a step.
MayHold(d, n) == d = None \/ (d \in DirType /\ InFolder(d.m) /\ d.m.time = n[1])

\* What a name holds it may hold.
LEMMA HoldsNow ==
    ASSUME TypeOK, OfSecond, NEW n \in Names
    PROVE  MayHold(at[n], n) /\ MayHold(trash[n], n) /\ MayHold(None, n)
BY DEF TypeOK, OfSecond, MayHold, InFolder

\* A directory that lost or changed files.
LEMMA HoldsLess ==
    ASSUME NEW n \in Names, NEW d, d # None, MayHold(d, n), NEW f \in {"whole", "bad", "some"}
    PROVE  /\ MayHold(Files(d, f), n) /\ Files(d, f) \in DirType /\ Files(d, f).files = f
           /\ Files(d, f).m = d.m
<1>1. d \in DirType /\ InFolder(d.m) /\ d.m.time = n[1]
    BY DEF MayHold
<1>2. Files(d, f) \in DirType /\ Files(d, f).files = f /\ Files(d, f).m = d.m
    BY <1>1 DEF DirType, Files
<1>. QED
    BY <1>1, <1>2 DEF MayHold

\* Directories of one name change; the partial ones stay or go.
LEMMA NameMoves ==
    ASSUME TypeOK, OfSecond, Dirs, NEW n \in Names, NEW a, NEW t, MayHold(a, n), MayHold(t, n),
           at' = [at EXCEPT ![n] = a], trash' = [trash EXCEPT ![n] = t],
           \A j \in Jobs : part'[j] \in {part[j], None}, part' \in [Jobs -> DirType \cup {None}],
           hurt \subseteq hurt',
           n \notin hurt' => (a # None => a.files = "whole") /\ (t # None => t.files # "bad")
    PROVE  FolderMoves
<1>1. /\ at \in [Names -> DirType \cup {None}] /\ trash \in [Names -> DirType \cup {None}]
    BY DEF TypeOK
<1>2. a \in DirType \cup {None} /\ t \in DirType \cup {None}
    BY DEF MayHold
<1>3. /\ at' \in [Names -> DirType \cup {None}] /\ trash' \in [Names -> DirType \cup {None}]
      /\ \A k \in Names : at'[k] = (IF k = n THEN a ELSE at[k]) /\ trash'[k] = (IF k = n THEN t ELSE trash[k])
    BY <1>1, <1>2
<1>4. \A k \in Names : MayHold(at'[k], k) /\ MayHold(trash'[k], k)
    BY <1>3, HoldsNow
<1>5. \A j \in Jobs : part'[j] # None => InFolder(part'[j].m)
    BY DEF InFolder
<1>6. Dirs'
    BY <1>3 DEF Dirs
<1>. QED
    BY <1>3, <1>4, <1>5, <1>6 DEF FolderMoves, MayHold

\* The partial directory of one job changes.
LEMMA PartMoves ==
    ASSUME TypeOK, OfSecond, Dirs, NEW j \in Jobs, NEW d \in DirType \cup {None},
           part' = [part EXCEPT ![j] = d], UNCHANGED <<at, trash, hurt>>,
           d # None => InFolder(d.m) \/ Being(d.m)
    PROVE  FolderMoves
<1>1. /\ at \in [Names -> DirType \cup {None}] /\ trash \in [Names -> DirType \cup {None}]
      /\ part \in [Jobs -> DirType \cup {None}]
    BY DEF TypeOK
<1>2. part' \in [Jobs -> DirType \cup {None}] /\ \A i \in Jobs : part'[i] = IF i = j THEN d ELSE part[i]
    BY <1>1
<1>3. \A i \in Jobs : part'[i] # None => InFolder(part'[i].m) \/ Being(part'[i].m)
    BY <1>2 DEF InFolder
<1>4. \A k \in Names : MayHold(at[k], k) /\ MayHold(trash[k], k)
    BY HoldsNow
<1>5. Dirs'
    BY DEF Dirs
<1>. QED
    BY <1>1, <1>2, <1>3, <1>4, <1>5 DEF FolderMoves, MayHold

\* No directory changed.
LEMMA FolderStill ==
    ASSUME TypeOK, OfSecond, Dirs, UNCHANGED <<part, at, trash, hurt>>
    PROVE  FolderMoves
<1>1. /\ at \in [Names -> DirType \cup {None}] /\ trash \in [Names -> DirType \cup {None}]
      /\ part \in [Jobs -> DirType \cup {None}]
    BY DEF TypeOK
<1>2. \A i \in Jobs : part[i] # None => InFolder(part[i].m)
    BY DEF InFolder
<1>4. \A k \in Names : MayHold(at[k], k) /\ MayHold(trash[k], k)
    BY HoldsNow
<1>5. Dirs'
    BY DEF Dirs
<1>. QED
    BY <1>1, <1>2, <1>4, <1>5 DEF FolderMoves, MayHold

\* The trash of one name is removed, wholly or in part.
LEMMA TrashGoes ==
    ASSUME TypeOK, OfSecond, Dirs, NEW n \in Names, UNCHANGED <<part, at, hurt>>,
           RemoveTrash(n) \/ RemoveSome(n)
    PROVE  FolderMoves
<1>1. part \in [Jobs -> DirType \cup {None}] /\ at' = [at EXCEPT ![n] = at[n]]
      /\ trash \in [Names -> DirType \cup {None}]
    BY DEF TypeOK
<1>2. CASE RemoveTrash(n)
    BY <1>1, <1>2, HoldsNow, NameMoves DEF RemoveTrash, Dirs
<1>3. CASE RemoveSome(n)
  <2>1. PICK t : t = Files(trash[n], "some")
    OBVIOUS
  <2>2. MayHold(t, n) /\ t.files = "some"
    BY <1>3, <2>1, HoldsNow, HoldsLess DEF RemoveSome
  <2>3. trash' = [trash EXCEPT ![n] = t]
    BY <1>3, <2>1 DEF RemoveSome
  <2>. QED
    BY <1>1, <2>2, <2>3, HoldsNow, NameMoves DEF Dirs
<1>. QED
    BY <1>2, <1>3

\* What each step does to the folder.
LEMMA FolderKept ==
    ASSUME TypeOK, AtPoints, OfSecond, Dirs, [Next]_vars
    PROVE  FolderMoves
<1>a. run \in RunType /\ Table(rows) /\ Table(run.list) /\ rows \subseteq RowType
    BY DEF TypeOK, Table
<1>b. run.at # "idle" => run.job \in Jobs
    BY DEF AtPoints
<1>c. /\ at \in [Names -> DirType \cup {None}] /\ trash \in [Names -> DirType \cup {None}]
      /\ part \in [Jobs -> DirType \cup {None}]
    BY DEF TypeOK
<1>d. \A k \in Names : MayHold(at[k], k) /\ MayHold(trash[k], k) /\ MayHold(None, k)
    BY HoldsNow
<1>1. CASE RecoverEnd
    BY <1>1, FolderStill DEF RecoverEnd, folder, hist
<1>2. CASE ChoosePlex
    BY <1>2, FolderStill DEF ChoosePlex, folder, hist
<1>3. CASE ChooseManifest
    BY <1>3, FolderStill DEF ChooseManifest, folder, hist
<1>4. CASE ChooseArr
    BY <1>4, FolderStill DEF ChooseArr, folder, hist
<1>5. CASE Look
    BY <1>5, FolderStill DEF Look, folder, hist
<1>6. CASE LookEnd
    BY <1>6, FolderStill DEF LookEnd, folder, hist
<1>7. CASE MarkFailed
    BY <1>7, FolderStill DEF MarkFailed, folder, hist
<1>8. CASE Copy
  <2>1. /\ run.at = "copy" /\ UNCHANGED <<at, trash, hurt>>
        /\ part' = [part EXCEPT ![run.job] = [m |-> run.m, files |-> "some"]]
    BY <1>8 DEF Copy, hist
  <2>2. run.m \in ManifestType /\ run.job \in Jobs
    BY <1>b, <2>1 DEF AtPoints
  <2>3. PICK d : d = [m |-> run.m, files |-> "some"]
    OBVIOUS
  <2>5. d \in DirType /\ d.m = run.m
    BY <2>2, <2>3 DEF DirType
  <2>4. Being(d.m)
    BY <2>1, <2>5 DEF Being
  <2>. QED
    BY <2>1, <2>2, <2>3, <2>4, <2>5, PartMoves
<1>9. CASE WriteManifest
  <2>1. /\ run.at = "manifest" /\ UNCHANGED <<at, trash, hurt>>
        /\ part' = [part EXCEPT ![run.job] = Files(part[run.job], "whole")]
    BY <1>9 DEF WriteManifest, hist
  <2>2. run.m \in ManifestType /\ run.job \in Jobs /\ part[run.job] = [m |-> run.m, files |-> "some"]
    BY <1>b, <2>1 DEF AtPoints
  <2>3. PICK d : d = Files(part[run.job], "whole")
    OBVIOUS
  <2>5. d = [m |-> run.m, files |-> "whole"]
    BY <2>2, <2>3 DEF Files
  <2>6. d \in DirType /\ d.m = run.m
    BY <2>2, <2>5 DEF DirType
  <2>4. Being(d.m)
    BY <2>1, <2>6 DEF Being
  <2>. QED
    BY <2>1, <2>2, <2>3, <2>4, <2>6, PartMoves
<1>10. CASE RenameVersion
  <2>1. /\ run.at = "rename" /\ UNCHANGED <<trash, hurt>> /\ at' = [at EXCEPT ![FreeName] = part[run.job]]
        /\ part' = [part EXCEPT ![run.job] = None]
    BY <1>10 DEF RenameVersion, hist
  <2>2. /\ run.m \in ManifestType /\ run.job \in Jobs /\ part[run.job] = [m |-> run.m, files |-> "whole"]
    BY <1>b, <2>1 DEF AtPoints
  <2>8. FreeName \in Names /\ FreeName[1] = run.m.time
    BY <2>2 DEF FreeName, Names, ManifestType
  <2>3. PICK n \in Names : n = FreeName /\ n[1] = run.m.time
    BY <2>8
  <2>4. PICK a \in DirType : a = part[run.job] /\ a.m = run.m /\ a.files = "whole"
    BY <2>2 DEF DirType
  <2>5. MayHold(a, n)
    BY <2>2, <2>3, <2>4, NoneAssumption DEF MayHold, InFolder
  <2>6. part' \in [Jobs -> DirType \cup {None}] /\ \A j \in Jobs : part'[j] \in {part[j], None}
    BY <1>c, <2>1
  <2>7. at' = [at EXCEPT ![n] = a] /\ trash' = [trash EXCEPT ![n] = trash[n]]
    BY <1>c, <2>1, <2>3, <2>4
  <2>. QED
    BY <1>d, <2>1, <2>4, <2>5, <2>6, <2>7, NameMoves DEF Dirs
<1>11. CASE Record
    BY <1>11, FolderStill DEF Record, folder, hist
<1>12. CASE RecordRefused
    BY <1>12, FolderStill DEF RecordRefused, folder, hist
<1>13. CASE Fail
    BY <1>13, FolderStill DEF Fail, folder, hist
<1>14. CASE FailEnd
  <2>1. /\ run.at = "fail" /\ UNCHANGED <<at, trash, hurt>>
        /\ part' = [part EXCEPT ![run.job] = None] \/ part' = part
    BY <1>14 DEF FailEnd, hist
  <2>. QED
    BY <1>b, <2>1, PartMoves, FolderStill
<1>15. CASE PruneList
    BY <1>15, FolderStill DEF PruneList, folder, hist
<1>16. CASE DropLost
    BY <1>16, FolderStill DEF DropLost, folder, hist
<1>17. CASE DropTrash
  <2>1. /\ run.at = "sweep" /\ UNCHANGED <<at, part, hurt>>
        /\ RemoveTrash(run.name) \/ RemoveSome(run.name)
    BY <1>17 DEF DropTrash, hist
  <2>2. run.name \in Names
    BY <2>1 DEF AtPoints
  <2>. QED
    BY <2>1, <2>2, TrashGoes
<1>18. CASE Decide
    BY <1>18, FolderStill DEF Decide, folder, hist
<1>19. CASE RestoreVersion
  <2>1. /\ run.at = "restore" /\ run.todo # {} /\ UNCHANGED <<part, hurt>>
    BY <1>19 DEF RestoreVersion, hist
  <2>2. run.todo \subseteq rows
    BY <2>1 DEF AtPoints
  <2>3. PICK r \in run.todo : r = Newest(run.todo)
    BY <1>a, <2>1, <2>2, TableSub, NewestIn
  <2>4. r.name \in Names
    BY <1>a, <2>2, <2>3 DEF RowType
  <2>5. CASE UNCHANGED <<at, trash>>
    BY <2>1, <2>5, FolderStill
  <2>6. CASE Restorable(r) /\ at' = [at EXCEPT ![r.name] = trash[r.name]] /\ RemoveTrash(r.name)
    <3>1. trash[r.name] # None /\ trash[r.name].files \in {"whole", "bad"}
    BY <2>6 DEF Restorable, Complete, CompleteCheck, CheckVersion
    <3>2. r.name \notin hurt => trash[r.name].files = "whole"
    BY <2>4, <3>1 DEF Dirs
    <3>3. trash' = [trash EXCEPT ![r.name] = None]
    BY <2>6 DEF RemoveTrash
    <3>. QED
    BY <1>c, <1>d, <2>1, <2>4, <2>6, <3>2, <3>3, NameMoves
  <2>. QED
    BY <1>19, <2>3, <2>5, <2>6 DEF RestoreVersion
<1>20. CASE RestoreEnd
    BY <1>20, FolderStill DEF RestoreEnd, folder, hist
<1>21. CASE TrashVersion
  <2>1. /\ run.at = "delete" /\ run.list # {} /\ UNCHANGED <<part, hurt>>
    BY <1>21 DEF TrashVersion, hist
  <2>2. PICK r \in run.list : r = Oldest(run.list)
    BY <1>a, <2>1, OldestIn
  <2>3. PICK n \in Names : n = r.name
    BY <1>a, <2>2 DEF Table, RowType
  <2>4. CASE UNCHANGED <<at, trash>>
    BY <2>1, <2>4, FolderStill
  <2>5. CASE at' = at /\ (RemoveTrash(n) \/ RemoveSome(n))
    BY <2>1, <2>5, TrashGoes
  <2>6. CASE at' = [at EXCEPT ![n] = None] /\ trash' = [trash EXCEPT ![n] = at[n]]
    <3>1. n \notin hurt => (at[n] # None => at[n].files # "bad")
    BY DEF Dirs
    <3>. QED
    BY <1>c, <1>d, <2>1, <2>6, <3>1, NameMoves
  <2>. QED
    BY <1>21, <2>2, <2>3, <2>4, <2>5, <2>6 DEF TrashVersion
<1>22. CASE Unrecord
    BY <1>22, FolderStill DEF Unrecord, folder, hist
<1>23. CASE EmptyTrash
  <2>1. run.at = "empty" /\ UNCHANGED <<at, part, hurt>>
    BY <1>23 DEF EmptyTrash, hist
  <2>2. run.list # {}
    BY <2>1 DEF AtPoints
  <2>3. PICK r \in run.list : r = Oldest(run.list)
    BY <1>a, <2>2, OldestIn
  <2>4. r.name \in Names
    BY <1>a, <2>3 DEF Table, RowType
  <2>5. RemoveTrash(r.name) \/ RemoveSome(r.name)
    BY <1>23, <2>3 DEF EmptyTrash
  <2>. QED
    BY <2>1, <2>4, <2>5, TrashGoes
<1>24. CASE PruneEnd
    BY <1>24, FolderStill DEF PruneEnd, folder, hist
<1>25. CASE Succeed
    BY <1>25, FolderStill DEF Succeed, folder, hist
<1>26. CASE Crash
  <2>1. UNCHANGED <<at, part, hurt>> /\ (trash' = trash \/ \E n \in Names : RemoveSome(n))
    BY <1>26 DEF Crash, hist
  <2>. QED
    BY <2>1, TrashGoes, FolderStill
<1>27. CASE Tick
    BY <1>27, FolderStill DEF Tick, folder, hist
<1>28. CASE SourceChanges
    BY <1>28, FolderStill DEF SourceChanges, folder, hist
<1>29. CASE SetKeep
    BY <1>29, FolderStill DEF SetKeep, folder, hist
<1>30. ASSUME NEW j \in Jobs, Begin(j)
      PROVE  FolderMoves
    BY <1>30, FolderStill DEF Begin, folder, hist
<1>31. ASSUME NEW j \in Jobs, RecoverPartial(j)
      PROVE  FolderMoves
  <2>1. UNCHANGED <<at, trash, hurt>> /\ (part' = [part EXCEPT ![j] = None] \/ part' = part)
    BY <1>31 DEF RecoverPartial, hist
  <2>. QED
    BY <2>1, PartMoves, FolderStill
<1>32. ASSUME NEW n \in Names, RecoverTrash(n)
      PROVE  FolderMoves
  <2>1. UNCHANGED <<at, part, hurt>> /\ run.at = "recover" /\ <<"trash", n>> \in run.todo
    BY <1>32 DEF RecoverTrash, hist
  <2>2. trash[n] # None
    BY <2>1 DEF AtPoints
  <2>3. trash' = trash \/ RemoveTrash(n) \/ RemoveSome(n)
    BY <1>32, <2>2 DEF RecoverTrash, RemoveTrash, RemoveSome
  <2>. QED
    BY <2>1, <2>3, TrashGoes, FolderStill
<1>33. ASSUME NEW n \in Names, RecoverVersion(n)
      PROVE  FolderMoves
    BY <1>33, FolderStill DEF RecoverVersion, folder, hist
<1>34. ASSUME NEW n \in Names, Meddle(n)
      PROVE  FolderMoves
  <2>1. part' = part /\ hurt' = hurt \cup {n}
    BY <1>34 DEF Meddle
  <2>2. CASE /\ at[n] # None /\ trash' = trash
             /\ \E d \in {Files(at[n], "bad"), Files(at[n], "some"), None} : at' = [at EXCEPT ![n] = d]
    <3>1. PICK d \in {Files(at[n], "bad"), Files(at[n], "some"), None} : at' = [at EXCEPT ![n] = d]
    BY <2>2
    <3>2. MayHold(d, n)
    BY <1>d, <2>2, <3>1, HoldsLess
    <3>3. trash' = [trash EXCEPT ![n] = trash[n]]
    BY <1>c, <2>2
    <3>. QED
    BY <1>c, <1>d, <2>1, <3>1, <3>2, <3>3, NameMoves
  <2>3. CASE RemoveSome(n) /\ at' = at
    <3>1. PICK t : t = Files(trash[n], "some")
    OBVIOUS
    <3>2. MayHold(t, n)
    BY <1>d, <2>3, <3>1, HoldsLess DEF RemoveSome
    <3>3. at' = [at EXCEPT ![n] = at[n]] /\ trash' = [trash EXCEPT ![n] = t]
    BY <1>c, <2>3, <3>1 DEF RemoveSome
    <3>. QED
    BY <1>c, <1>d, <2>1, <3>2, <3>3, NameMoves
  <2>. QED
    BY <1>34, <2>2, <2>3 DEF Meddle
<1>35. CASE UNCHANGED vars
    BY <1>35, FolderStill DEF vars, folder, hist
<1>. QED
    BY <1>1, <1>2, <1>3, <1>4, <1>5, <1>6, <1>7, <1>8, <1>9, <1>10, <1>11, <1>12, <1>13, <1>14,
       <1>15, <1>16, <1>17, <1>18, <1>19, <1>20, <1>21, <1>22, <1>23, <1>24, <1>25, <1>26,
       <1>27, <1>28, <1>29, <1>30, <1>31, <1>32, <1>33, <1>34, <1>35 DEF Next

-----------------------------------------------------------------------------
(* No row loses its directory.                                             *)

\* Rows that were marked or added, while no directory changed.
LEMMA CoveredStill ==
    ASSUME TypeOK, RowsHeld, UNCHANGED <<world, at, trash, hurt>>,
           \A r \in rows' : \/ \E s \in rows : s.name = r.name /\ s.m = r.m /\ (r = s \/ ~r.ok)
                            \/ Held(r.name)
    PROVE  RowsHeld'
<1>. SUFFICES ASSUME NEW r \in rows' PROVE Held(r.name)' \/ Complete(r, trash[r.name])' \/ TakenOver(r)'
    BY DEF RowsHeld
<1>1. CASE Held(r.name)
    BY <1>1 DEF Held
<1>2. CASE \E s \in rows : s.name = r.name /\ s.m = r.m /\ (r = s \/ ~r.ok)
  <2>1. PICK s \in rows : s.name = r.name /\ s.m = r.m /\ (r = s \/ ~r.ok)
    BY <1>2
  <2>2. Held(s.name) \/ Complete(s, trash[s.name]) \/ TakenOver(s)
    BY DEF RowsHeld
  <2>3. CASE Held(s.name)
    BY <2>1, <2>3 DEF Held
  <2>4. CASE TakenOver(s)
    BY <2>1, <2>4 DEF TakenOver
  <2>5. CASE Complete(s, trash[s.name])
    <3>1. CASE r = s
    BY <2>5, <3>1 DEF Complete, CheckVersion, CompleteCheck
    <3>2. CASE ~r.ok
    BY <2>1, <2>5, <3>2 DEF Complete, CheckVersion, CompleteCheck
    <3>. QED
    BY <2>1, <3>1, <3>2
  <2>. QED
    BY <2>2, <2>3, <2>4, <2>5
<1>. QED
    BY <1>1, <1>2

\* One name changes: its row has to be looked at.
LEMMA CoveredBut ==
    ASSUME TypeOK, RowsHeld, UNCHANGED <<world, rows>>, hurt \subseteq hurt', NEW n \in Names,
           \A k \in Names \ {n} : at'[k] = at[k] /\ trash'[k] = trash[k],
           \A r \in rows : r.name = n => Held(n)' \/ Complete(r, trash[n])' \/ TakenOver(r)'
    PROVE  RowsHeld'
<1>. SUFFICES ASSUME NEW r \in rows, r.name # n
              PROVE Held(r.name)' \/ Complete(r, trash[r.name])' \/ TakenOver(r)'
    BY DEF RowsHeld
<1>1. r.name \in Names
    BY DEF TypeOK, Table, RowType
<1>2. Held(r.name) \/ Complete(r, trash[r.name]) \/ TakenOver(r)
    BY DEF RowsHeld
<1>3. at'[r.name] = at[r.name] /\ trash'[r.name] = trash[r.name]
    BY <1>1
<1>4. CASE Held(r.name)
    BY <1>3, <1>4 DEF Held
<1>5. CASE Complete(r, trash[r.name])
    BY <1>3, <1>5 DEF Complete, CheckVersion, CompleteCheck
<1>6. CASE TakenOver(r)
    BY <1>3, <1>6 DEF TakenOver
<1>. QED
    BY <1>2, <1>4, <1>5, <1>6

\* Trash is removed only where no row needs it.
LEMMA TrashNotNeeded ==
    ASSUME TypeOK, RowsHeld, UNCHANGED <<world, rows, at, hurt>>, NEW n \in Names,
           RemoveTrash(n) \/ RemoveSome(n), ~Recorded(n) \/ at[n] # None
    PROVE  RowsHeld'
<1>1. \A k \in Names \ {n} : trash'[k] = trash[k]
    BY DEF TypeOK, RemoveTrash, RemoveSome
<1>2. \A r \in rows : r.name = n => Held(n)'
    BY DEF Recorded, Held
<1>. QED
    BY <1>1, <1>2, CoveredBut

\* Every step leaves each row its directory.
LEMMA CoverKept ==
    ASSUME VersionInv, [Next]_vars
    PROVE  RowsHeld'
<1>a. run \in RunType /\ Table(rows) /\ Table(run.list) /\ rows \subseteq RowType
    BY DEF TypeOK, Table, VersionInv
<1>b. /\ TypeOK /\ AtPoints /\ NamesOnce /\ Dirs /\ RowsHeld /\ OfSecond /\ OnePerSecond
    BY DEF VersionInv
<1>c. /\ at \in [Names -> DirType \cup {None}] /\ trash \in [Names -> DirType \cup {None}]
    BY <1>b DEF TypeOK
<1>d. world' = world
    BY <1>b, WorldKept DEF WorldMoves
<1>e. \A r \in rows' : \/ \E s \in rows : s.name = r.name /\ s.m = r.m /\ (r = s \/ ~r.ok)
                       \/ Held(r.name)
    BY <1>b, RowsKept, RowsMoved
<1>1. CASE RecoverEnd
    BY <1>1, <1>b, <1>d, <1>e, CoveredStill DEF RecoverEnd, folder, hist
<1>2. CASE ChoosePlex
    BY <1>2, <1>b, <1>d, <1>e, CoveredStill DEF ChoosePlex, folder, hist
<1>3. CASE ChooseManifest
    BY <1>3, <1>b, <1>d, <1>e, CoveredStill DEF ChooseManifest, folder, hist
<1>4. CASE ChooseArr
    BY <1>4, <1>b, <1>d, <1>e, CoveredStill DEF ChooseArr, folder, hist
<1>5. CASE Look
    BY <1>5, <1>b, <1>d, <1>e, CoveredStill DEF Look, folder, hist
<1>6. CASE LookEnd
    BY <1>6, <1>b, <1>d, <1>e, CoveredStill DEF LookEnd, folder, hist
<1>7. CASE MarkFailed
    BY <1>7, <1>b, <1>d, <1>e, CoveredStill DEF MarkFailed, folder, hist
<1>8. CASE Copy
    BY <1>8, <1>b, <1>d, <1>e, CoveredStill DEF Copy, folder, hist
<1>9. CASE WriteManifest
    BY <1>9, <1>b, <1>d, <1>e, CoveredStill DEF WriteManifest, folder, hist
<1>10. CASE RenameVersion
  <2>1. /\ run.at = "rename" /\ UNCHANGED <<rows, trash, hurt>> /\ at' = [at EXCEPT ![FreeName] = part[run.job]]
    BY <1>10 DEF RenameVersion, hist
  <2>2. /\ run.m \in ManifestType /\ run.job \in Jobs /\ part[run.job] = [m |-> run.m, files |-> "whole"]
    BY <1>b, <2>1 DEF AtPoints
  <2>3. FreeName \in Names
    BY <2>2 DEF FreeName, Names, ManifestType
  <2>4. PICK n \in Names : n = FreeName
    BY <2>3
  <2>5. part[run.job] # None
    BY <2>2, NoneAssumption DEF DirType
  <2>6. at'[n] # None /\ \A k \in Names \ {n} : at'[k] = at[k] /\ trash'[k] = trash[k]
    BY <1>c, <2>1, <2>4, <2>5
  <2>. QED
    BY <1>b, <1>d, <2>1, <2>6, CoveredBut DEF Held
<1>11. CASE Record
    BY <1>11, <1>b, <1>d, <1>e, CoveredStill DEF Record, folder, hist
<1>12. CASE RecordRefused
    BY <1>12, <1>b, <1>d, <1>e, CoveredStill DEF RecordRefused, folder, hist
<1>13. CASE Fail
    BY <1>13, <1>b, <1>d, <1>e, CoveredStill DEF Fail, folder, hist
<1>14. CASE FailEnd
    BY <1>14, <1>b, <1>d, <1>e, CoveredStill DEF FailEnd, folder, hist
<1>15. CASE PruneList
    BY <1>15, <1>b, <1>d, <1>e, CoveredStill DEF PruneList, folder, hist
<1>16. CASE DropLost
    BY <1>16, <1>b, <1>d, <1>e, CoveredStill DEF DropLost, folder, hist
<1>17. CASE DropTrash
  <2>1. /\ run.at = "sweep" /\ UNCHANGED <<rows, at, hurt>>
        /\ RemoveTrash(run.name) \/ RemoveSome(run.name)
    BY <1>17 DEF DropTrash, hist
  <2>2. run.name \in Names /\ ~Recorded(run.name)
    BY <1>b, <2>1 DEF AtPoints
  <2>. QED
    BY <1>b, <1>d, <2>1, <2>2, TrashNotNeeded
<1>18. CASE Decide
    BY <1>18, <1>b, <1>d, <1>e, CoveredStill DEF Decide, folder, hist
<1>19. CASE RestoreVersion
  <2>1. /\ run.at = "restore" /\ run.todo # {} /\ UNCHANGED <<rows, hurt>>
    BY <1>19 DEF RestoreVersion, hist
  <2>2. run.todo \subseteq rows
    BY <1>b, <2>1 DEF AtPoints
  <2>3. PICK r \in run.todo : r = Newest(run.todo)
    BY <1>a, <2>1, <2>2, TableSub, NewestIn
  <2>4. r.name \in Names
    BY <1>a, <2>2, <2>3 DEF RowType
  <2>5. CASE UNCHANGED <<at, trash>>
    BY <1>b, <1>d, <1>e, <2>1, <2>5, CoveredStill
  <2>6. CASE Restorable(r) /\ at' = [at EXCEPT ![r.name] = trash[r.name]] /\ RemoveTrash(r.name)
    <3>1. trash[r.name] # None
    BY <2>6 DEF Restorable, Complete
    <3>2. at'[r.name] # None /\ \A k \in Names \ {r.name} : at'[k] = at[k] /\ trash'[k] = trash[k]
    BY <1>c, <2>4, <2>6, <3>1 DEF RemoveTrash
    <3>. QED
    BY <1>b, <1>d, <2>1, <2>4, <3>2, CoveredBut DEF Held
  <2>. QED
    BY <1>19, <2>3, <2>5, <2>6 DEF RestoreVersion
<1>20. CASE RestoreEnd
    BY <1>20, <1>b, <1>d, <1>e, CoveredStill DEF RestoreEnd, folder, hist
<1>21. CASE TrashVersion
  <2>1. /\ run.at = "delete" /\ run.list # {} /\ UNCHANGED <<rows, hurt>>
    BY <1>21 DEF TrashVersion, hist
  <2>2. PICK r \in run.list : r = Oldest(run.list)
    BY <1>a, <2>1, OldestIn
  <2>3. r \in rows /\ r \in RowType
    BY <1>a, <1>b, <2>1, <2>2 DEF AtPoints
  <2>4. PICK n \in Names : n = r.name
    BY <2>3 DEF RowType
  <2>5. CASE UNCHANGED <<at, trash>>
    BY <1>b, <1>d, <1>e, <2>1, <2>5, CoveredStill
  <2>6. CASE at' = at /\ at[n] # None /\ (RemoveTrash(n) \/ RemoveSome(n))
    BY <1>b, <1>d, <2>1, <2>6, TrashNotNeeded
  <2>7. CASE at[n] # None /\ at' = [at EXCEPT ![n] = None] /\ trash' = [trash EXCEPT ![n] = at[n]]
    <3>1. trash'[n] = at[n] /\ \A k \in Names \ {n} : at'[k] = at[k] /\ trash'[k] = trash[k]
    BY <1>c, <2>7
    <3>2. \A s \in rows : s.name = n => s = r
    BY <1>b, <2>3, <2>4 DEF NamesOnce
    <3>3. CASE n \in hurt
    BY <1>b, <1>d, <2>1, <3>1, <3>3, CoveredBut DEF Held
    <3>4. CASE n \notin hurt
      <4>1. at[n].files = "whole" /\ at[n].m.time = n[1] /\ r.m.time = n[1]
        BY <1>b, <2>3, <2>4, <2>7, <3>4 DEF Dirs, OfSecond
      <4>2. at[n].m \in ManifestType /\ r.m \in ManifestType
        BY <1>c, <2>3, <2>7 DEF DirType, RowType
      <4>3. Man(at[n].m) /\ Man(r.m)
        BY <2>3, <2>7 DEF Man, InFolder, InTable
      <4>4. at[n].m.job = r.m.job => at[n].m = r.m
        BY <1>b, <4>1, <4>2, <4>3 DEF OnePerSecond
      <4>5. CASE at[n].m.job = r.m.job
        <5>1. Complete(r, trash[n])'
          BY <2>7, <3>1, <4>1, <4>4, <4>5 DEF Complete, CheckVersion, CompleteCheck
        <5>. QED
          BY <1>b, <1>d, <2>1, <3>1, <3>2, <5>1, CoveredBut
      <4>6. CASE at[n].m.job # r.m.job
        <5>1. TakenOver(r)'
          BY <2>4, <2>7, <3>1, <4>1, <4>6 DEF TakenOver
        <5>. QED
          BY <1>b, <1>d, <2>1, <3>1, <3>2, <5>1, CoveredBut
      <4>. QED
        BY <4>5, <4>6
    <3>. QED
    BY <3>3, <3>4
  <2>. QED
    BY <1>21, <2>2, <2>4, <2>5, <2>6, <2>7 DEF TrashVersion
<1>22. CASE Unrecord
    BY <1>22, <1>b, <1>d, <1>e, CoveredStill DEF Unrecord, folder, hist
<1>23. CASE EmptyTrash
  <2>1. run.at = "empty" /\ UNCHANGED <<rows, at, hurt>>
    BY <1>23 DEF EmptyTrash, hist
  <2>2. run.list # {} /\ ~Recorded(Oldest(run.list).name)
    BY <1>b, <2>1 DEF AtPoints
  <2>3. PICK r \in run.list : r = Oldest(run.list)
    BY <1>a, <2>2, OldestIn
  <2>4. r.name \in Names
    BY <1>a, <2>3 DEF Table, RowType
  <2>5. RemoveTrash(r.name) \/ RemoveSome(r.name)
    BY <1>23, <2>3 DEF EmptyTrash
  <2>. QED
    BY <1>b, <1>d, <2>1, <2>2, <2>3, <2>4, <2>5, TrashNotNeeded
<1>24. CASE PruneEnd
    BY <1>24, <1>b, <1>d, <1>e, CoveredStill DEF PruneEnd, folder, hist
<1>25. CASE Succeed
    BY <1>25, <1>b, <1>d, <1>e, CoveredStill DEF Succeed, folder, hist
<1>26. CASE Crash
  <2>1. UNCHANGED <<rows, at, hurt>> /\ (trash' = trash \/ \E n \in Names : Removing(n) /\ RemoveSome(n))
    BY <1>26 DEF Crash, hist
  <2>2. CASE trash' = trash
    BY <1>b, <1>d, <1>e, <2>1, <2>2, CoveredStill
  <2>3. CASE \E n \in Names : Removing(n) /\ RemoveSome(n)
    <3>1. PICK n \in Names : Removing(n) /\ RemoveSome(n)
    BY <2>3
    <3>2. ~Recorded(n) \/ at[n] # None
    BY <1>b, <3>1 DEF Removing, AtPoints
    <3>. QED
    BY <1>b, <1>d, <2>1, <3>1, <3>2, TrashNotNeeded
  <2>. QED
    BY <2>1, <2>2, <2>3
<1>27. CASE Tick
    BY <1>27, <1>b, <1>d, <1>e, CoveredStill DEF Tick, folder, hist
<1>28. CASE SourceChanges
    BY <1>28, <1>b, <1>d, <1>e, CoveredStill DEF SourceChanges, folder, hist
<1>29. CASE SetKeep
    BY <1>29, <1>b, <1>d, <1>e, CoveredStill DEF SetKeep, folder, hist
<1>30. ASSUME NEW j \in Jobs, Begin(j)
      PROVE  RowsHeld'
    BY <1>30, <1>b, <1>d, <1>e, CoveredStill DEF Begin, folder, hist
<1>31. ASSUME NEW j \in Jobs, RecoverPartial(j)
      PROVE  RowsHeld'
    BY <1>31, <1>b, <1>d, <1>e, CoveredStill DEF RecoverPartial, folder, hist
<1>32. ASSUME NEW n \in Names, RecoverTrash(n)
      PROVE  RowsHeld'
  <2>1. UNCHANGED <<rows, at, hurt>> /\ run.at = "recover" /\ <<"trash", n>> \in run.todo
    BY <1>32 DEF RecoverTrash, hist
  <2>2. trash[n] # None
    BY <1>b, <2>1 DEF AtPoints
  <2>3. trash' = trash \/ (~Recorded(n) /\ (RemoveTrash(n) \/ RemoveSome(n)))
    BY <1>32, <2>2 DEF RecoverTrash, RemoveTrash, RemoveSome
  <2>. QED
    BY <1>b, <1>d, <1>e, <2>1, <2>3, TrashNotNeeded, CoveredStill
<1>33. ASSUME NEW n \in Names, RecoverVersion(n)
      PROVE  RowsHeld'
    BY <1>33, <1>b, <1>d, <1>e, CoveredStill DEF RecoverVersion, folder, hist
<1>34. ASSUME NEW n \in Names, Meddle(n)
      PROVE  RowsHeld'
  <2>1. rows' = rows /\ hurt' = hurt \cup {n}
    BY <1>34 DEF Meddle
  <2>2. \A k \in Names \ {n} : at'[k] = at[k] /\ trash'[k] = trash[k]
    <3>1. CASE trash' = trash /\ \E d : at' = [at EXCEPT ![n] = d]
    BY <1>c, <3>1
    <3>2. CASE RemoveSome(n) /\ at' = at
    BY <1>c, <3>2 DEF RemoveSome
    <3>. QED
    BY <1>34, <3>1, <3>2 DEF Meddle
  <2>. QED
    BY <1>b, <1>d, <2>1, <2>2, CoveredBut DEF Held
<1>35. CASE UNCHANGED vars
    BY <1>35, <1>b, <1>d, <1>e, CoveredStill DEF vars, folder, hist
<1>. QED
    BY <1>1, <1>2, <1>3, <1>4, <1>5, <1>6, <1>7, <1>8, <1>9, <1>10, <1>11, <1>12, <1>13, <1>14,
       <1>15, <1>16, <1>17, <1>18, <1>19, <1>20, <1>21, <1>22, <1>23, <1>24, <1>25, <1>26,
       <1>27, <1>28, <1>29, <1>30, <1>31, <1>32, <1>33, <1>34, <1>35 DEF Next

-----------------------------------------------------------------------------
(* A job writes one version in a second.                                   *)

\* The manifest of the version that the job starts to write.
NewMan(m) ==
    /\ run.at \in {"choose", "copies"} /\ run'.at = "copy" /\ m = run'.m
    /\ m.job = run.job /\ run'.job = run.job
    /\ m.time = IF run.at = "choose" THEN now ELSE run.m.time

\* The steps that lead to the points before the version is written, and at which it is.
PointsMove ==
    /\ run'.at \in {"recover", "choose"} =>
          \/ run.at \in {"recover", "choose"} /\ run'.job = run.job
          \/ run'.job \in Jobs /\ job[run'.job].st \in {"new", "queued"}
    /\ run'.at \in {"copies", "mark"} =>
          \/ run.at = "choose" /\ run'.job = run.job /\ run'.m.time = now
          \/ run.at \in {"copies", "mark"} /\ run'.job = run.job /\ run'.m = run.m
    /\ run'.at = "mark" => run'.list \subseteq rows \/ (run.at = "mark" /\ run'.list = run.list)
    /\ run'.at \in {"copy", "manifest", "rename", "record"} =>
          \/ run.at \in {"copy", "manifest", "rename", "record"} /\ run'.m = run.m
          \/ NewMan(run'.m)

\* A step to a point after the version was written, or of which nothing is known.
LEMMA PointsPast ==
    ASSUME run'.at \in {"idle", "fail", "prune", "lost", "sweep", "restore", "delete", "unrecord", "empty", "end"}
    PROVE  PointsMove
BY DEF PointsMove

\* The version is chosen: its manifest is the one to write.
LEMMA PointsStage ==
    ASSUME run \in RunType, run.at \in {"choose", "copies"}, NEW m \in ManifestType, m.job = run.job,
           m.time = IF run.at = "choose" THEN now ELSE run.m.time, run' = Stage(m)
    PROVE  PointsMove
<1>1. run'.at = "copy" /\ run'.m = m /\ run'.job = run.job
    BY StageTyped
<1>. QED
    BY <1>1 DEF PointsMove, NewMan

\* Where each step leads the running job.
LEMMA PointsKept ==
    ASSUME TypeOK, AtPoints, [Next]_vars
    PROVE  PointsMove
<1>a. run \in RunType /\ Table(rows)
    BY DEF TypeOK
<1>b. run.at # "idle" => run.job \in Jobs
    BY DEF AtPoints
<1>1. CASE RecoverEnd
  <2>1. run.at = "recover" /\ run'.at \in {"choose", "prune", "fail"} /\ run'.job = run.job
    BY <1>1, <1>a DEF RecoverEnd, RunType, Go
  <2>. QED
    BY <2>1 DEF PointsMove
<1>2. CASE ChoosePlex
  <2>1. run.at = "choose" /\ \E ok \in BOOLEAN : run' = Stage(NewManifest(ok, FALSE))
    BY <1>2 DEF ChoosePlex
  <2>. QED
    BY <1>a, <1>b, <2>1, NewManifestTyped, PointsStage
<1>3. CASE ChooseManifest
  <2>1. run.at = "choose" /\ (Go("prune") \/ run' = Stage(NewManifest(TRUE, FALSE)))
    BY <1>3 DEF ChooseManifest
  <2>2. CASE Go("prune")
    <3>1. run'.at = "prune"
    BY <1>a, <2>2, GoTo, PointNames
    <3>. QED
    BY <3>1, PointsPast
  <2>3. CASE run' = Stage(NewManifest(TRUE, FALSE))
    BY <1>a, <1>b, <2>1, <2>3, NewManifestTyped, PointsStage
  <2>. QED
    BY <2>1, <2>2, <2>3
<1>4. CASE ChooseArr
  <2>1. run.at = "choose" /\ run.job \in Jobs
    BY <1>4, <1>b DEF ChooseArr
  <2>2. CASE \E ok \in BOOLEAN, c \in IF job[run.job].resumed THEN saw[run.job] ELSE {src} :
                 run' = Stage([NewManifest(ok, FALSE) EXCEPT !.src = c])
    <3>1. PICK ok \in BOOLEAN, c \in IF job[run.job].resumed THEN saw[run.job] ELSE {src} :
                 run' = Stage([NewManifest(ok, FALSE) EXCEPT !.src = c])
    BY <2>2
    <3>2. c \in Contents
    BY <2>1, <3>1 DEF TypeOK
    <3>3. /\ NewManifest(ok, FALSE) \in ManifestType /\ NewManifest(ok, FALSE).job = run.job
          /\ NewManifest(ok, FALSE).time = now
    BY <2>1, NewManifestTyped
    <3>4. PICK m : m = [NewManifest(ok, FALSE) EXCEPT !.src = c]
    OBVIOUS
    <3>5. m \in ManifestType /\ m.job = run.job /\ m.time = now
    BY <3>2, <3>3, <3>4 DEF ManifestType
    <3>6. run' = Stage(m)
    BY <3>1, <3>4
    <3>. QED
    BY <1>a, <2>1, <3>5, <3>6, PointsStage
  <2>3. CASE run' = [run EXCEPT !.at = "copies", !.m = NewManifest(TRUE, TRUE),
                             !.todo = {r \in rows : r.m.src = src /\ r.m.sched}]
    <3>1. PICK m \in ManifestType : m = NewManifest(TRUE, TRUE) /\ m.time = now
    BY <2>1, NewManifestTyped
    <3>2. run'.at = "copies" /\ run'.job = run.job /\ run'.m = m
    BY <1>a, <2>3, <3>1 DEF RunType
    <3>. QED
    BY <2>1, <3>1, <3>2 DEF PointsMove
  <2>. QED
    BY <1>4, <2>2, <2>3 DEF ChooseArr
<1>5. CASE Look
  <2>0. run.at = "copies" /\ run.todo # {}
    BY <1>5 DEF Look
  <2>1. run.m \in ManifestType /\ run.m.job = run.job /\ run.todo \subseteq rows
    BY <2>0 DEF AtPoints
  <2>2. PICK r \in run.todo : r = Newest(run.todo)
    BY <1>a, <2>0, <2>1, TableSub, NewestIn
  <2>4. CASE run' = [run EXCEPT !.todo = @ \ {r}]
    <3>1. run'.at = "copies" /\ run'.job = run.job /\ run'.m = run.m
    BY <1>a, <2>0, <2>4 DEF RunType
    <3>. QED
    BY <2>0, <3>1 DEF PointsMove
  <2>5. CASE \E ok \in BOOLEAN : run' = Stage([run.m EXCEPT !.ok = ok, !.sched = FALSE])
    <3>1. PICK ok \in BOOLEAN : run' = Stage([run.m EXCEPT !.ok = ok, !.sched = FALSE])
    BY <2>5
    <3>2. PICK m : m = [run.m EXCEPT !.ok = ok, !.sched = FALSE]
    OBVIOUS
    <3>3. m \in ManifestType /\ m.job = run.job /\ m.time = run.m.time
    BY <2>1, <3>2 DEF ManifestType
    <3>. QED
    BY <1>a, <2>0, <3>1, <3>2, <3>3, PointsStage
  <2>6. CASE run' = Warned([run EXCEPT !.at = "end"])
    <3>1. run'.at = "end"
    BY <1>a, <2>6 DEF RunType, Warned
    <3>. QED
    BY <3>1, PointsPast
  <2>7. CASE run' = [[run EXCEPT !.todo = @ \ {r}] EXCEPT !.at = "mark", !.list = {r}]
    <3>1. run'.at = "mark" /\ run'.job = run.job /\ run'.m = run.m /\ run'.list = {r}
    BY <1>a, <2>7 DEF RunType
    <3>. QED
    BY <2>0, <2>1, <2>2, <3>1 DEF PointsMove
  <2>. QED
    BY <1>5, <2>2, <2>4, <2>5, <2>6, <2>7 DEF Look
<1>6. CASE LookEnd
  <2>0. run.at = "copies"
    BY <1>6 DEF LookEnd
  <2>1. run.m \in ManifestType /\ run.m.job = run.job
    BY <2>0 DEF AtPoints
  <2>2. PICK ok \in BOOLEAN : run' = Stage([run.m EXCEPT !.ok = ok])
    BY <1>6 DEF LookEnd
  <2>3. PICK m : m = [run.m EXCEPT !.ok = ok]
    OBVIOUS
  <2>4. m \in ManifestType /\ m.job = run.job /\ m.time = run.m.time
    BY <2>1, <2>3 DEF ManifestType
  <2>. QED
    BY <1>a, <2>0, <2>2, <2>3, <2>4, PointsStage
<1>7. CASE MarkFailed
  <2>1. run.at = "mark" /\ run'.at = "copies" /\ run'.job = run.job /\ run'.m = run.m
    BY <1>7, <1>a DEF MarkFailed, RunType, Warned
  <2>. QED
    BY <2>1 DEF PointsMove
<1>8. CASE Copy
  <2>1. run.at = "copy" /\ run'.at = "manifest" /\ run'.m = run.m
    BY <1>8, <1>a, GoTo, PointNames DEF Copy
  <2>. QED
    BY <2>1 DEF PointsMove
<1>9. CASE WriteManifest
  <2>1. run.at = "manifest" /\ run'.at = "rename" /\ run'.m = run.m
    BY <1>9, <1>a, GoTo, PointNames DEF WriteManifest
  <2>. QED
    BY <2>1 DEF PointsMove
<1>10. CASE RenameVersion
  <2>1. run.at = "rename" /\ run'.at \in {"record", "fail"} /\ run'.m = run.m
    BY <1>10, <1>a DEF RenameVersion, RunType, Go
  <2>. QED
    BY <2>1 DEF PointsMove
<1>11. CASE Record
  <2>1. run'.at \in {"prune", "fail"}
    BY <1>11, <1>a DEF Record, RunType, Go, Warned, Idle
  <2>. QED
    BY <2>1, PointsPast
<1>12. CASE RecordRefused
  <2>1. run'.at \in {"fail"}
    BY <1>12, <1>a DEF RecordRefused, RunType, Go, Warned, Idle
  <2>. QED
    BY <2>1, PointsPast
<1>13. CASE Fail
  <2>1. run'.at \in {"fail"}
    BY <1>13, <1>a DEF Fail, RunType, Go, Warned, Idle
  <2>. QED
    BY <2>1, PointsPast
<1>14. CASE FailEnd
  <2>1. run'.at \in {"idle"}
    BY <1>14, <1>a DEF FailEnd, RunType, Go, Warned, Idle
  <2>. QED
    BY <2>1, PointsPast
<1>15. CASE PruneList
  <2>1. run'.at \in {"lost", "end"}
    BY <1>15, <1>a DEF PruneList, RunType, Go, Warned, Idle
  <2>. QED
    BY <2>1, PointsPast
<1>16. CASE DropLost
  <2>1. run'.at \in {"lost", "sweep"}
    BY <1>16, <1>a DEF DropLost, RunType, Go, Warned
  <2>. QED
    BY <2>1, PointsPast
<1>17. CASE DropTrash
  <2>1. run'.at \in {"lost"}
    BY <1>17, <1>a DEF DropTrash, RunType, Go, Warned, Idle
  <2>. QED
    BY <2>1, PointsPast
<1>18. CASE Decide
  <2>1. run'.at \in {"restore"}
    BY <1>18, <1>a DEF Decide, RunType, Go, Warned, Idle
  <2>. QED
    BY <2>1, PointsPast
<1>19. CASE RestoreVersion
  <2>1. run'.at \in {"restore"}
    BY <1>19, <1>a DEF RestoreVersion, RunType, Go, Warned
  <2>. QED
    BY <2>1, PointsPast
<1>20. CASE RestoreEnd
  <2>1. run'.at \in {"delete"}
    BY <1>20, <1>a DEF RestoreEnd, RunType, Go, Warned, Idle
  <2>. QED
    BY <2>1, PointsPast
<1>21. CASE TrashVersion
  <2>1. run'.at \in {"delete", "unrecord"}
    BY <1>21, <1>a DEF TrashVersion, RunType, Go, Warned
  <2>. QED
    BY <2>1, PointsPast
<1>22. CASE Unrecord
  <2>1. run'.at \in {"delete", "empty"}
    BY <1>22, <1>a DEF Unrecord, RunType, Go, Warned
  <2>. QED
    BY <2>1, PointsPast
<1>23. CASE EmptyTrash
  <2>1. run'.at \in {"delete"}
    BY <1>23, <1>a DEF EmptyTrash, RunType, Go, Warned
  <2>. QED
    BY <2>1, PointsPast
<1>24. CASE PruneEnd
  <2>1. run'.at \in {"end"}
    BY <1>24, <1>a DEF PruneEnd, RunType, Go, Warned, Idle
  <2>. QED
    BY <2>1, PointsPast
<1>25. CASE Succeed
  <2>1. run'.at \in {"idle"}
    BY <1>25, <1>a DEF Succeed, RunType, Go, Warned, Idle
  <2>. QED
    BY <2>1, PointsPast
<1>26. CASE Crash
  <2>1. run'.at \in {"idle"}
    BY <1>26, <1>a DEF Crash, RunType, Go, Warned, Idle
  <2>. QED
    BY <2>1, PointsPast
<1>27. CASE Tick
  <2>1. run' = run
    BY <1>27 DEF Tick
  <2>. QED
    BY <1>b, <2>1 DEF PointsMove
<1>28. CASE SourceChanges
  <2>1. run' = run
    BY <1>28 DEF SourceChanges
  <2>. QED
    BY <1>b, <2>1 DEF PointsMove
<1>29. CASE SetKeep
  <2>1. run' = run
    BY <1>29 DEF SetKeep
  <2>. QED
    BY <1>b, <2>1 DEF PointsMove
<1>30. ASSUME NEW j \in Jobs, Begin(j)
      PROVE  PointsMove
  <2>1. run'.at = "recover" /\ run'.job = j /\ job[j].st \in {"new", "queued"}
    BY <1>30 DEF Begin, Idle
  <2>. QED
    BY <2>1 DEF PointsMove
<1>31. ASSUME NEW j \in Jobs, RecoverPartial(j)
      PROVE  PointsMove
  <2>1. run.at = "recover" /\ run'.at \in {"recover", "fail"} /\ run'.job = run.job
    BY <1>31, <1>a DEF RecoverPartial, RunType, Done, Warned, Go
  <2>. QED
    BY <2>1 DEF PointsMove
<1>32. ASSUME NEW n \in Names, RecoverTrash(n)
      PROVE  PointsMove
  <2>1. run.at = "recover" /\ run'.at \in {"recover", "fail"} /\ run'.job = run.job
    BY <1>32, <1>a DEF RecoverTrash, RunType, Done, Warned, Go
  <2>. QED
    BY <2>1 DEF PointsMove
<1>33. ASSUME NEW n \in Names, RecoverVersion(n)
      PROVE  PointsMove
  <2>1. run.at = "recover" /\ run'.at \in {"recover", "fail"} /\ run'.job = run.job
    BY <1>33, <1>a DEF RecoverVersion, RunType, Done, Warned, Go
  <2>. QED
    BY <2>1 DEF PointsMove
<1>34. ASSUME NEW n \in Names, Meddle(n)
      PROVE  PointsMove
  <2>1. run' = run
    BY <1>34 DEF Meddle
  <2>. QED
    BY <1>b, <2>1 DEF PointsMove
<1>35. CASE UNCHANGED vars
    BY <1>35 DEF vars, PointsMove
<1>. QED
    BY <1>1, <1>2, <1>3, <1>4, <1>5, <1>6, <1>7, <1>8, <1>9, <1>10, <1>11, <1>12, <1>13, <1>14,
       <1>15, <1>16, <1>17, <1>18, <1>19, <1>20, <1>21, <1>22, <1>23, <1>24, <1>25, <1>26,
       <1>27, <1>28, <1>29, <1>30, <1>31, <1>32, <1>33, <1>34, <1>35 DEF Next

\* A manifest that was not there before is that of the version the job starts to write.
LEMMA MansMove ==
    ASSUME VersionInv, [Next]_vars, NEW m, Man(m)'
    PROVE  Man(m) \/ NewMan(m)
<1>a. TypeOK /\ AtPoints /\ NamesOnce /\ Dirs /\ OfSecond
    BY DEF VersionInv
<1>1. FolderMoves
    BY <1>a, FolderKept
<1>2. PointsMove
    BY <1>a, PointsKept
<1>3. \A r \in rows' : Man(r.m)
  <2>1. \A r \in rows' : (\E s \in rows : s.m = r.m) \/ Man(r.m)
    BY <1>a, RowsKept, RowsMoved
  <2>. QED
    BY <2>1 DEF Man, InTable
<1>4. CASE InFolder(m)'
    BY <1>1, <1>4 DEF FolderMoves, InFolder, Man
<1>5. CASE InTable(m)'
  <2>1. CASE \E r \in rows' : m = r.m
    BY <1>3, <2>1
  <2>2. CASE run'.at = "mark" /\ \E r \in run'.list : m = r.m
    BY <1>2, <2>2 DEF PointsMove, Man, InTable
  <2>. QED
    BY <1>5, <2>1, <2>2 DEF InTable
<1>6. CASE Being(m)'
    BY <1>2, <1>6 DEF PointsMove, Man, Being
<1>. QED
    BY <1>4, <1>5, <1>6 DEF Man

\* Every step leaves one manifest per job and second, of a second that has come.
LEMMA MansKept ==
    ASSUME VersionInv, [Next]_vars
    PROVE  OnePerSecond' /\ Earlier' /\ Staged'
<1>a. TypeOK /\ AtPoints /\ NamesOnce /\ RowsHeld /\ OfSecond /\ OnePerSecond /\ Earlier /\ Staged
    BY DEF VersionInv
<1>b. PointsMove
    BY <1>a, PointsKept
<1>c. WorldMoves /\ now \in Nat /\ now' \in Nat /\ now <= now' /\ JobsMove
    BY <1>a, WorldKept, VersionAssumption DEF WorldMoves, TypeOK, Times
<1>d. AtPoints' /\ run' \in RunType
    BY <1>a, RunKept
<1>e. \A m \in ManifestType : m.time \in Nat /\ m.job \in Jobs
    BY VersionAssumption DEF ManifestType, Times
<1>f. \A m \in ManifestType : Man(m)' => Man(m) \/ NewMan(m)
    BY MansMove
<1>g. \A m \in ManifestType : NewMan(m) =>
         /\ run.at \in {"choose", "copies"} /\ m.job = run.job /\ m = run'.m /\ m.time <= now
         /\ \A l \in ManifestType : Man(l) /\ l.job = m.job => l.time < m.time
         /\ run'.at = "copy" /\ run'.job = run.job
  <2>. SUFFICES ASSUME NEW m \in ManifestType, NewMan(m)
                PROVE  /\ m.time <= now
                       /\ \A l \in ManifestType : Man(l) /\ l.job = m.job => l.time < m.time
    BY DEF NewMan
  <2>1. m.time = IF run.at = "choose" THEN now ELSE run.m.time
    BY DEF NewMan
  <2>2. run.at \in {"choose", "copies"} /\ m.job = run.job
    BY DEF NewMan
  <2>3. m.time <= now
    BY <1>a, <1>c, <1>e, <2>1, <2>2 DEF Staged
  <2>4. ASSUME NEW l \in ManifestType, Man(l), l.job = m.job PROVE l.time < m.time
    BY <1>a, <2>1, <2>2, <2>4 DEF Earlier
  <2>. QED
    BY <2>3, <2>4
<1>1. OnePerSecond'
  <2>. SUFFICES ASSUME NEW l \in ManifestType, NEW m \in ManifestType, Man(l)', Man(m)',
                       l.job = m.job, l.time = m.time
                PROVE  l = m
    BY DEF OnePerSecond
  <2>1. CASE Man(l) /\ Man(m)
    BY <1>a, <2>1 DEF OnePerSecond
  <2>2. CASE NewMan(l) /\ NewMan(m)
    BY <2>2, <1>g
  <2>3. CASE (Man(l) /\ NewMan(m)) \/ (Man(m) /\ NewMan(l))
    BY <1>e, <1>g, <2>3
  <2>. QED
    BY <1>f, <2>1, <2>2, <2>3
<1>2. Earlier'
  <2>. SUFFICES ASSUME NEW m \in ManifestType, Man(m)'
                PROVE  /\ m.time <= now'
                       /\ job'[m.job].st # "new"
                       /\ job'[m.job].st = "queued" => m.time < now'
                       /\ run'.at \in {"recover", "choose"} /\ m.job = run'.job => m.time < now'
                       /\ run'.at \in {"copies", "mark"} /\ m.job = run'.job => m.time < run'.m.time
    BY DEF Earlier
  <2>0. m.time \in Nat /\ m.job \in Jobs
    BY <1>e
  <2>1. CASE Man(m)
    <3>1. /\ m.time <= now
          /\ job[m.job].st # "new"
          /\ job[m.job].st = "queued" => m.time < now
          /\ run.at \in {"recover", "choose"} /\ m.job = run.job => m.time < now
          /\ run.at \in {"copies", "mark"} /\ m.job = run.job => m.time < run.m.time
    BY <1>a, <2>1 DEF Earlier
    <3>2. m.time <= now' /\ job'[m.job].st # "new" /\ (job'[m.job].st = "queued" => m.time < now')
    BY <1>c, <2>0, <3>1 DEF JobsMove
    <3>3. ASSUME run'.at \in {"recover", "choose"}, m.job = run'.job PROVE m.time < now'
    BY <1>b, <1>c, <2>0, <3>1, <3>3 DEF PointsMove
    <3>4. ASSUME run'.at \in {"copies", "mark"}, m.job = run'.job PROVE m.time < run'.m.time
    BY <1>b, <3>1, <3>4 DEF PointsMove
    <3>. QED
    BY <3>2, <3>3, <3>4
  <2>2. CASE NewMan(m)
    <3>1. m.time <= now /\ run'.at = "copy" /\ run'.job = m.job
    BY <1>g, <2>2
    <3>2. job'[m.job].st = "running"
    BY <1>d, <3>1 DEF AtPoints
    <3>. QED
    BY <1>c, <2>0, <3>1, <3>2
  <2>. QED
    BY <1>f, <2>1, <2>2
<1>3. Staged'
  <2>. SUFFICES ASSUME run'.at \in {"copies", "mark"} PROVE run'.m.time <= now'
    BY DEF Staged
  <2>1. run'.m \in ManifestType
    BY <1>d DEF AtPoints
  <2>2. run'.m.time <= now
    BY <1>a, <1>b, <1>c DEF PointsMove, Staged
  <2>. QED
    BY <1>c, <1>e, <2>1, <2>2
<1>. QED
    BY <1>1, <1>2, <1>3

-----------------------------------------------------------------------------
(* The theorems.                                                           *)

\* The invariant holds at first.
LEMMA VersionInit ==
    ASSUME Init
    PROVE  VersionInv
<1>1. /\ world \in WorldType /\ world.ticks <= MaxTime /\ now = 0 /\ src \in Contents
      /\ keep \in world.keeps /\ rows = {} /\ run = Idle /\ hurt = {}
    BY VersionAssumption DEF Init
<1>2. world.ticks \in Nat /\ world.keeps \subseteq Int \X Int
    BY <1>1 DEF WorldType
<1>3. /\ part = [j \in Jobs |-> None] /\ at = [n \in Names |-> None] /\ trash = [n \in Names |-> None]
      /\ job = [j \in Jobs |-> [st |-> "new", resumed |-> FALSE]] /\ saw = [j \in Jobs |-> {}]
    BY DEF Init
<1>4. run \in RunType /\ run.at = "idle" /\ run.list = {}
    BY <1>1 DEF Idle, RunType, Points
<1>5. job \in [Jobs -> JobType]
    BY <1>3 DEF JobType
<1>6. TypeOK
    BY <1>1, <1>2, <1>3, <1>4, <1>5, TableNone, VersionAssumption DEF TypeOK, Times
<1>7. AtPoints
    BY <1>1, <1>4 DEF AtPoints
<1>8. \A m : ~Man(m)
    BY <1>1, <1>3, <1>4 DEF Man, InFolder, InTable, Being
<1>. QED
    BY <1>1, <1>3, <1>4, <1>6, <1>7, <1>8
    DEF VersionInv, NamesOnce, Dirs, RowsHeld, OfSecond, OnePerSecond, Earlier, Staged

\* Every step keeps it.
LEMMA VersionKept ==
    ASSUME VersionInv, [Next]_vars
    PROVE  VersionInv'
<1>a. TypeOK /\ AtPoints /\ NamesOnce /\ Dirs /\ RowsHeld /\ OfSecond
    BY DEF VersionInv
<1>1. run' \in RunType /\ Table(run'.list) /\ AtPoints'
    BY <1>a, RunKept
<1>2. WorldMoves
    BY <1>a, WorldKept
<1>3. FolderMoves
    BY <1>a, FolderKept
<1>4. Table(rows') /\ NamesOnce' /\ \A r \in rows' : r.m.time = r.name[1]
    BY <1>a, RowsKept, RowsMoved
<1>5. TypeOK'
    BY <1>a, <1>1, <1>2, <1>3, <1>4 DEF TypeOK, WorldMoves, FolderMoves
<1>6. OfSecond' /\ Dirs'
    BY <1>3, <1>4 DEF OfSecond, FolderMoves
<1>. QED
    BY <1>1, <1>4, <1>5, <1>6, CoverKept, MansKept DEF VersionInv

\* Versions and their rows: every row has its version at its name, complete in the trash, or taken
\* over by another job of the same second; a name has one row; an attempt of a job writes one
\* version in a second of its own (recover, RenameVersion, TrashVersion, dropLost, Remove).
THEOREM VersionInvariant == Spec => []VersionInv
<1>1. Init => VersionInv
    BY VersionInit
<1>2. VersionInv /\ [Next]_vars => VersionInv'
    BY VersionKept
<1>. QED
    BY <1>1, <1>2, PTL DEF Spec

\* TrashVersion's promise, for any jobs, times and settings: at whatever moment the process ends or
\* an operation fails, no version is half deleted under its name and no row is without its directory.
THEOREM NeverHalfDeleted == Spec => []NothingHalfDeleted
<1>1. VersionInv => NothingHalfDeleted
    BY DEF VersionInv, Dirs, RowsHeld, Held, NothingHalfDeleted
<1>. QED
    BY <1>1, VersionInvariant, PTL
=============================================================================
