--------------------------- MODULE SyncTruthProofs ---------------------------
(***************************************************************************)
(* Proofs about SyncItem: what the database says of the destination is     *)
(* true (DatabaseTruthful). Four invariants, each resting on the ones      *)
(* before: the jobs run in order (Ordered), an item that is done is        *)
(* recorded (Copying), the rows are true (Describing), and so is the       *)
(* record (Recording).                                                     *)
(***************************************************************************)
EXTENDS SyncItemProofs

\* An item that is, or will be, worked on by the one job that is not over.
Open(j) == jobst[j] # "over" /\ Pending(j)

-----------------------------------------------------------------------------
(* The jobs and their items.                                               *)

\* One job runs, and in order no other is unfinished; a new job, and one that does not sync,
\* has no item.
OneUnfinished ==
    /\ run.at # "idle" => J \in Jobs /\ jobst[J] = "running" /\ J \notin run.todo
    /\ \A j \in Jobs : jobst[j] = "running" => run.at # "idle" /\ j = J
    /\ run.at = "expired" => kind[J] = "retention"
    /\ \A i, j \in Jobs : jobst[i] \in {"queued", "running"} /\ jobst[j] \in {"queued", "running"} => i = j
    /\ \A j \in Jobs : item[j] # None => jobst[j] # "new" /\ kind[j] = "sync"

\* An item uses its own job's directory.
OwnPaths ==
    \A i \in Jobs : item[i] # None =>
        /\ item[i].d.ret # None => item[i].d.ret[1] = i
        /\ item[i].d.disp # None => item[i].d.disp[1] = i

\* The detail in memory and the saved one agree on everything but the temp file, which place
\* forgets before it starts over.
SameDetail ==
    /\ Pending(J)
    /\ D.disp = item[J].d.disp /\ D.dv = item[J].d.dv
    /\ D.ret # None => D.ret = item[J].d.ret /\ D.rv = item[J].d.rv /\ D.rh = item[J].d.rh
    /\ D.tv = item[J].d.tv
    /\ D.done => item[J].d.done

Ordered ==
    /\ OneUnfinished
    /\ OwnPaths
    /\ run.at \in Working => SameDetail
    /\ run.at \in Placing => IsPut
    /\ run.at \in {"begin", "put", "retain", "copy", "copying", "copied", "keep", "displaceFS", "displaced",
                   "commit", "record"}
           => D.ret = item[J].d.ret /\ D.done = item[J].d.done
    /\ run.at \in {"choose", "intent", "keepFS"} => D.done = item[J].d.done
    /\ run.at \in {"begin", "put", "retain"} => D.temp = item[J].d.temp

-----------------------------------------------------------------------------
(* Items that are done.                                                    *)

\* A file at the destination is complete, but for temp files; the source shows its newest
\* version or none.
Whole ==
    /\ live # None => live.c # Partial
    /\ \A s \in Slots : ret[s] # None => ret[s].c # Partial
    /\ src \in {0, ver}

\* A temp file is known to its item, with its content once the item says it is complete.
TempsKnown ==
    \A i \in Jobs : temp[i] # None =>
        /\ temp[i].n = i
        /\ item[i] # None /\ item[i].d.temp
        /\ item[i].d.done => temp[i].c = item[i].d.tv

\* A complete temp file is a version at least as new as the planned one.
NewEnough ==
    \A i \in Jobs : item[i] # None =>
        /\ item[i].v <= ver
        /\ item[i].act = "put" => item[i].v \in Versions
        /\ item[i].d.done => item[i].d.tv \in Versions /\ item[i].v <= item[i].d.tv

\* The record has the item's version, and no earlier job's item can overwrite that.
Steady == HasRec /\ At(rec.intent) /\ live # None => live.c \in {rec.v, Foreign}
Recorded(j) == HasRec /\ item[j].v <= rec.v /\ Steady

DoneRecorded ==
    \A j \in Jobs : item[j] # None /\ item[j].act = "put" /\ item[j].st = "done" /\ jobst[j] # "over" => Recorded(j)

CopyPoints ==
    /\ run.at \in Working => (temp[J] # None => D.temp)
    /\ run.at \in {"copy", "copying", "copied"} => ~D.done
    /\ run.at = "copy" => D.temp /\ item[J].d.temp
    /\ run.at \in {"copying", "copied"} => run.sv \in Versions /\ item[J].v <= run.sv /\ run.sv <= ver
    /\ run.at = "copied" => temp[J].c = run.sv
    /\ run.at \in {"keep", "commit", "record"} => D.done
    /\ run.at \in {"choose", "intent", "keepFS"} /\ IsPut => D.done
    /\ run.at \in Displacing => (run.next = "commit" => D.done)
    /\ run.at = "retained" => ~IsPut
    /\ run.at = "finish" /\ IsPut => Recorded(J)

CopyFacts == Whole /\ TempsKnown /\ NewEnough /\ DoneRecorded
Copying == CopyFacts /\ CopyPoints

-----------------------------------------------------------------------------
(* The rows of retained files.                                             *)

\* A job without an item has nothing in its directory, nor rows, nor an intent.
NothingYet ==
    \A j \in Jobs : item[j] = None =>
        \A s \in Slots : s[1] = j => ~At(s) /\ ~RowAt(s) /\ ~Intended(s)

\* What an item says of the file it retained.
Described ==
    \A i \in Jobs : item[i] # None =>
        /\ item[i].d.ret # None => item[i].d.rh \in {0, item[i].d.rv}
        /\ At(item[i].d.ret) => ret[item[i].d.ret].c = item[i].d.rv

\* The file to be retained or displaced is still at the path.
Waiting(j) ==
    LET d == item[j].d
    IN  /\ d.ret # None /\ ~At(d.ret) => live # None /\ live.c = d.rv
        /\ d.disp # None /\ ~At(d.disp) /\ d.ret \in {None, d.disp} => live # None /\ live.c = d.dv
        /\ At(d.disp) => ret[d.disp].c = d.dv

\* Beside a retained file the path holds the same file (a hardlink), or the new version; never
\* anything when the name was to go.
Beside(j) ==
    LET d == item[j].d
    IN  At(d.ret) /\ live # None =>
            /\ item[j].act = "put"
            /\ live = ret[d.ret] \/ (d.done /\ temp[j] = None /\ live.c = d.tv)

\* An open item that retains keeps its record until then, its intent is its own, and its rows
\* describe the file that is, or will be again, in their path.
Retaining(j) ==
    LET d == item[j].d
    IN  /\ item[j].act = "put" /\ d.ret # None => HasRec
        /\ HasRec /\ At(d.ret) => rec.intent \in {None, d.ret}
        /\ \A r \in rows : r.slot[1] = j /\ ~At(r.slot) => r.slot = d.ret /\ r.v = d.rv /\ r.h \in {0, r.v}

OwnIntents ==
    \A j \in Jobs : jobst[j] # "over" /\ item[j] # None =>
        \A s \in Slots : s[1] = j /\ Intended(s) => item[j].d.ret = s

Unlinked == At(item[J].d.ret) /\ live # None => live = ret[item[J].d.ret]

RowPoints ==
    /\ run.at \in Working => D.ret = item[J].d.ret
    /\ run.at \in {"way"} \cup Displacing => ~HasRec /\ D.ret = None
    /\ run.at \in Displacing => run.next = "write"
    /\ run.at = "choose" => D.ret = None
    /\ run.at \in {"intent", "keepFS"} => D.ret # None /\ ~At(D.ret)
    /\ run.at = "keepFS" => rec.intent = D.ret
    /\ run.at \in {"way", "write", "copy", "copying", "copied", "keep"} => Unlinked
    /\ run.at \in {"way", "write", "copy", "copying", "copied", "keep"} \cup Displacing => (run.retx <=> At(D.ret))
    /\ run.at \in {"commit", "record"} => D.ret = None \/ At(D.ret)
    /\ run.at = "commit" /\ run.free => live = None
    /\ run.at = "record" => live # None /\ live.c = D.tv
    /\ run.at = "record" => temp[J] = None
    /\ run.at = "retained" => (run.kept => At(D.ret)) /\ live = None
    /\ run.at = "putBackDB" => rec.intent = D.ret

RowFacts ==
    /\ RowsTruthful /\ NothingYet /\ Described /\ OwnIntents
    /\ \A j \in Jobs : Open(j) => Waiting(j) /\ Beside(j) /\ Retaining(j)
Describing == RowFacts /\ RowPoints

-----------------------------------------------------------------------------
(* The record of the path.                                                 *)

\* A present record is true, also of a file on its way into retention.
Present ==
    HasRec /\ rec.st = "present" =>
        IF At(rec.intent) THEN ret[rec.intent].c = rec.v ELSE live # None /\ live.c = rec.v

\* No file of an unfinished job is in retention, nor at the path before the job renamed it there.
Committed(j) ==
    LET d == item[j].d
    IN  d.done /\ temp[j] = None /\ live.c = d.tv /\ (d.ret = None \/ At(d.ret))
OwnFiles ==
    \A j \in Jobs : jobst[j] # "over" =>
        /\ \A s \in Slots : At(s) => ret[s].n # j
        /\ live # None /\ live.n = j =>
               item[j] # None /\ item[j].act = "put" /\ (item[j].st = "pending" => Committed(j))

\* A hardlinked item goes on to its rename.
Linked(j) == At(item[j].d.ret) /\ live = ret[item[j].d.ret]
GoesOn ==
    \A j \in Jobs : Open(j) /\ Linked(j) =>
        world.hardlinks /\ item[j].d.temp /\ item[j].d.done /\ temp[j] # None /\ rec.intent = item[j].d.ret

RecPoints ==
    /\ run.at \in Working \cup {"ready", "expired"} => NothingOpen
    /\ run.at \in Working \ {"begin", "put", "commit"} => ~Linked(J)
    /\ run.at \in {"way", "write", "copy", "copying", "copied", "keep", "choose", "intent", "keepFS"} \cup Displacing
           => (live # None => live.n # J)
    /\ run.at = "commit" => (HasRec /\ rec.st = "present" => rec.intent # None)
    /\ run.at = "settleDB" => rec.intent[1] # J
    /\ run.at \in {"settleDB", "putBackDB"} => (~run.unknown => ~At(rec.intent) \/ SameFile(rec.intent))

RecFacts == Present /\ OwnFiles /\ GoesOn
Recording == RecFacts /\ RecPoints

TruthInv ==
    world.inOrder =>
        /\ Ordered /\ Copying
        /\ bounds.meddles = 0 =>
               /\ Describing
               /\ bounds.stuck = 0 /\ (world.hardlinks => bounds.errors = 0) => Recording

-----------------------------------------------------------------------------
(* What each action does, field by field.                                  *)

\* The running job goes on at point p with the same detail.
Goes(p) ==
    /\ run'.at = p /\ run'.job = run.job /\ run'.d = run.d /\ run'.retx = run.retx
    /\ run'.sv = run.sv /\ run'.next = run.next /\ run'.todo = run.todo
Others == UNCHANGED <<world, src, ver, jobst, kind, bounds>>
\* The only row that may be new.
NewRow(s, v, h) == \A r \in rows' : r \in rows \/ (r.slot = s /\ r.v = v /\ r.h = h)
\* The item of the running job gets the detail e.
Saves(e) ==
    /\ item'[J] # None /\ item'[J].d = e /\ item'[J].act = item[J].act
    /\ item'[J].st = item[J].st /\ item'[J].v = item[J].v
    /\ \A i \in Jobs \ {J} : item'[i] = item[i]

\* Go, as a step of the fields.
LEMMA GoEffect ==
    ASSUME TypeOK, NEW p, Go(p)
    PROVE  Goes(p) /\ run'.kept = run.kept /\ run'.free = run.free /\ run'.unknown = run.unknown
BY DEF TypeOK, RunType, Go, Goes

\* StopWith, as a step of the fields.
LEMMA StopEffect ==
    ASSUME TypeOK, NEW how, StopWith(how)
    PROVE  Goes("putBack")
BY DEF TypeOK, RunType, StopWith, Goes

\* A row recorded once.
LEMMA RowEffect ==
    ASSUME NEW s, NEW v, NEW h, NEW why, NEW id, rows' = WithRow(Row(s, v, h, why, id))
    PROVE  NewRow(s, v, h)
<1>1. Row(s, v, h, why, id).slot = s /\ Row(s, v, h, why, id).v = v /\ Row(s, v, h, why, id).h = h
    BY DEF Row
<1>. QED
    BY <1>1 DEF WithRow, NewRow

\* recordDisplaced adds at most the row of the displaced file.
LEMMA DisplacedEffect ==
    ASSUME RecordDisplaced
    PROVE  rows' = rows \/ (At(D.disp) /\ NewRow(D.disp, D.dv, 0))
BY RowEffect DEF RecordDisplaced

\* saveDetail, as a step of the fields.
LEMMA SaveEffect ==
    ASSUME TypeOK, J \in Jobs, item[J] # None, NEW e \in DetailType, Save(e)
    PROVE  Saves(e)
<1>1. item \in [Jobs -> ItemType \cup {None}] /\ item[J] \in ItemType
    BY DEF TypeOK
<1>2. item'[J] = [item[J] EXCEPT !.d = e] /\ \A i \in Jobs \ {J} : item'[i] = item[i]
    BY <1>1 DEF Save
<1>3. /\ item'[J] \in ItemType /\ item'[J].act = item[J].act /\ item'[J].st = item[J].st
      /\ item'[J].d = e /\ item'[J].v = item[J].v
    BY <1>1, <1>2 DEF ItemType
<1>. QED
    BY <1>2, <1>3, NoneAssumption DEF Saves

\* The job ends.
LEMMA EndEffect ==
    ASSUME TypeOK, J \in Jobs, NEW st, End(st)
    PROVE  /\ run'.at = "idle" /\ run'.todo = {}
           /\ jobst'[J] = st /\ \A i \in Jobs \ {J} : jobst'[i] = jobst[i]
BY DEF End, Idle, TypeOK

\* The source's file changes or vanishes.
LEMMA SourceEffect ==
    ASSUME SourceChanges \/ SourceVanishes
    PROVE  /\ UNCHANGED <<world, live, ret, temp, rec, rows, item, jobst, kind, run, bounds>>
           /\ \/ ver' = ver + 1 /\ src' = ver'
              \/ ver' = ver /\ src' = 0
BY DEF SourceChanges, SourceVanishes, disk, base, hist

\* Somebody else changes the path.
LEMMA MeddleEffect ==
    ASSUME TypeOK, Meddle
    PROVE  /\ UNCHANGED <<world, src, ver, ret, temp, rec, rows, item, jobst, kind, run>>
           /\ bounds'.meddles # 0
           /\ \/ live = None /\ live' # None /\ live'.c = Foreign
              \/ live' = None /\ run.at = "idle"
<1>1. bounds.meddles \in Nat /\ bounds'.meddles = bounds.meddles + 1
    BY DEF TypeOK, Meddle
<1>2. [c |-> Foreign, n |-> bounds.meddles] \in Files
    BY <1>1, Facts DEF Files
<1>3. [c |-> Foreign, n |-> bounds.meddles] # None
    BY <1>2, SyncAssumption
<1>4. [c |-> Foreign, n |-> bounds.meddles].c = Foreign
    OBVIOUS
<1>. QED
    BY <1>1, <1>3, <1>4 DEF Meddle, base

\* A job starts or is resumed.
LEMMA StartEffect ==
    ASSUME TypeOK, NEW j \in Jobs, NEW k \in {"sync", "verify", "retention"}, Start(j, k)
    PROVE  /\ UNCHANGED <<world, src, ver, live, ret, temp, rec, rows, item, bounds>>
           /\ run.at = "idle" /\ run'.at = "sweep" /\ run'.job = j /\ j \notin run'.todo
           /\ jobst'[j] = "running" /\ jobst[j] \in {"new", "queued"}
           /\ \A i \in Jobs \ {j} : jobst'[i] = jobst[i] /\ kind'[i] = kind[i]
           /\ jobst[j] = "queued" => kind'[j] = kind[j]
           /\ jobst[j] = "new" /\ world.inOrder => \A i \in Jobs : jobst[i] # "queued"
<1>1. /\ run'.at = "sweep" /\ run'.job = j /\ j \notin run'.todo
    BY DEF Start, Idle
<1>2. jobst \in [Jobs -> {"new", "running", "queued", "over"}] /\ kind \in [Jobs -> {"sync", "verify", "retention"}]
    BY DEF TypeOK
<1>3. jobst'[j] = "running" /\ \A i \in Jobs \ {j} : jobst'[i] = jobst[i]
    BY <1>2 DEF Start
<1>4. \A i \in Jobs \ {j} : kind'[i] = kind[i]
    BY <1>2 DEF Start
<1>. QED
    BY <1>1, <1>3, <1>4 DEF Start, disk, hist

\* The process ends.
LEMMA CrashEffect ==
    ASSUME TypeOK, AtPoints, Crash
    PROVE  /\ UNCHANGED <<world, src, ver, live, ret, temp, rec, rows, item, kind>>
           /\ bounds'.meddles = bounds.meddles /\ bounds'.stuck = bounds.stuck /\ bounds'.errors = bounds.errors
           /\ run.at # "idle" /\ run'.at = "idle" /\ run'.todo = {}
           /\ jobst'[J] \in {"queued", "over"} /\ \A i \in Jobs \ {J} : jobst'[i] = jobst[i]
<1>1. J \in Jobs
    BY DEF Crash, AtPoints
<1>. QED
    BY <1>1 DEF Crash, Idle, TypeOK, disk, hist

\* The sweep of job i's directory.
LEMMA SweepEffect ==
    ASSUME TypeOK, AtPoints, NEW i \in Jobs, SweepDisplaced(i) \/ SweepPlaced(i) \/ SweepTemp(i)
    PROVE  /\ Others /\ UNCHANGED <<live, ret, item>>
           /\ run.at \in Sweeping /\ run'.at \in Sweeping /\ run'.job = run.job /\ run'.todo \subseteq run.todo
           /\ i \in run.todo /\ item[i] # None
           /\ temp' = temp \/ (temp'[i] = None /\ \A k \in Jobs \ {i} : temp'[k] = temp[k])
           /\ \/ rec' = rec /\ rows' = rows
              \/ rec' = rec /\ At(item[i].d.disp) /\ NewRow(item[i].d.disp, ret[item[i].d.disp].c, 0)
              \/ /\ FinishedPlaced(i, item[i].d)
                 /\ rec'.st = "present" /\ rec'.v = item[i].d.tv /\ rec'.intent = None /\ rec' # None
                 /\ NewRow(item[i].d.ret, item[i].d.rv, item[i].d.rh)
<1>a. run \in RunType /\ i \in run.todo /\ item[i] # None
    BY DEF TypeOK, AtPoints, SweepDisplaced, SweepPlaced, SweepTemp
<1>1. CASE SweepDisplaced(i)
  <2>1. Goes("sweepPlaced")
    BY <1>1, GoEffect DEF SweepDisplaced
  <2>2. rows' = rows \/ (At(item[i].d.disp) /\ NewRow(item[i].d.disp, ret[item[i].d.disp].c, 0))
    BY <1>1, RowEffect DEF SweepDisplaced
  <2>. QED
    BY <1>1, <1>a, <2>1, <2>2 DEF SweepDisplaced, Goes, Sweeping, disk, hist, Others
<1>2. CASE SweepPlaced(i)
  <2>1. Goes("sweepTemp")
    BY <1>2, GoEffect DEF SweepPlaced
  <2>2. CASE FinishedPlaced(i, item[i].d)
    <3>1. Placed(item[i].d, TRUE, i) /\ At(item[i].d.ret)
      BY <1>2, <2>2 DEF SweepPlaced, FinishedPlaced
    <3>2. rec'.st = "present" /\ rec'.v = item[i].d.tv /\ rec'.intent = None
      BY <3>1 DEF Placed
    <3>3. NewRow(item[i].d.ret, item[i].d.rv, item[i].d.rh)
      BY <3>1, RowEffect DEF Placed, At
    <3>4. rec' # None
      <4>1. item[i].d.tv \in Contents /\ i \in Jobs /\ HasRec /\ rec.id \in Nat
        BY <1>a, <2>2, Shapes DEF DetailType, FinishedPlaced, RecType
      <4>2. rec' \in RecType
        BY <3>1, <4>1, Facts, Shapes DEF Placed, RecType
      <4>. QED
        BY <4>2, NoneAssumption
    <3>. QED
      BY <1>2, <1>a, <2>1, <2>2, <3>2, <3>3, <3>4 DEF SweepPlaced, Goes, Sweeping, disk, hist, Others
  <2>3. CASE ~FinishedPlaced(i, item[i].d)
    BY <1>2, <1>a, <2>1, <2>3 DEF SweepPlaced, Goes, Sweeping, disk, hist, Others
  <2>. QED
    BY <2>2, <2>3
<1>3. CASE SweepTemp(i)
  <2>1. run'.at = "sweep" /\ run'.job = run.job /\ run'.todo = run.todo \ {i}
    BY <1>3, <1>a DEF SweepTemp, RunType
  <2>2. temp' = temp \/ (temp'[i] = None /\ \A k \in Jobs \ {i} : temp'[k] = temp[k])
    BY <1>3 DEF SweepTemp, TypeOK
  <2>. QED
    BY <1>3, <1>a, <2>1, <2>2 DEF SweepTemp, Sweeping, base, hist, Others
<1>. QED
    BY <1>1, <1>2, <1>3

\* Steps of the reconcile that only go on.
LEMMA ReconcileGoes ==
    ASSUME TypeOK, SweepEnd \/ SettleNothing
    PROVE  /\ Others /\ UNCHANGED <<live, ret, temp, rec, rows, item>>
           /\ \/ run.at = "sweep" /\ Goes("settle")
              \/ run.at = "settle" /\ ~Unsettled /\ Goes("ready")
BY GoEffect DEF SweepEnd, SettleNothing, disk, base, hist, Others

\* settle, on the file system.
LEMMA SettleFSEffect ==
    ASSUME TypeOK, HasRec, NEW next, SettleFS(next)
    PROVE  /\ Goes(next) /\ UNCHANGED <<world, src, ver, temp, rec, rows, item, jobst, kind>>
           /\ bounds'.meddles = bounds.meddles /\ bounds'.errors = bounds.errors
           /\ \/ /\ At(rec.intent) /\ live = None /\ live' = ret[rec.intent] /\ rec.intent \in Slots
                 /\ ret'[rec.intent] = None /\ \A s \in Slots : s # rec.intent => ret'[s] = ret[s]
                 /\ bounds' = bounds
              \/ /\ UNCHANGED <<live, ret>> /\ bounds'.stuck # 0
              \/ /\ UNCHANGED <<live, ret, bounds>> /\ (~At(rec.intent) \/ live # None)
                 /\ run'.unknown = (At(rec.intent) /\ ~SameFile(rec.intent))
<1>1. /\ run \in RunType /\ rec.intent \in Slots \cup {None} /\ ret \in [Slots -> Files \cup {None}]
      /\ ~At(None)
    BY Shapes
<1>2. /\ UNCHANGED <<world, src, ver, temp, rec, rows, item, jobst, kind>>
    BY DEF SettleFS, base, hist
<1>3. CASE /\ At(rec.intent) /\ live = None
           /\ live' = ret[rec.intent] /\ ret' = [ret EXCEPT ![rec.intent] = None]
           /\ run' = [run EXCEPT !.at = next, !.kept = FALSE, !.unknown = FALSE]
           /\ bounds' = bounds
  <2>1. Goes(next)
    BY <1>1, <1>3 DEF RunType, Goes
  <2>2. rec.intent \in Slots
    BY <1>1, <1>3
  <2>3. ret'[rec.intent] = None /\ \A s \in Slots : s # rec.intent => ret'[s] = ret[s]
    BY <1>1, <1>3, <2>2
  <2>. QED
    BY <1>2, <1>3, <2>1, <2>2, <2>3
<1>4. CASE /\ bounds' = [bounds EXCEPT !.stuck = @ + 1]
           /\ run' = [run EXCEPT !.at = next, !.kept = TRUE, !.unknown = FALSE]
           /\ UNCHANGED <<live, ret>>
  <2>1. Goes(next)
    BY <1>1, <1>4 DEF RunType, Goes
  <2>2. bounds'.stuck # 0 /\ bounds'.meddles = bounds.meddles /\ bounds'.errors = bounds.errors
    BY <1>4 DEF TypeOK
  <2>. QED
    BY <1>2, <1>4, <2>1, <2>2
<1>5. CASE /\ ~At(rec.intent) \/ live # None
           /\ run' = [run EXCEPT !.at = next, !.kept = At(rec.intent),
                                 !.unknown = At(rec.intent) /\ ~SameFile(rec.intent)]
           /\ UNCHANGED <<live, ret, bounds>>
  <2>1. Goes(next) /\ run'.unknown = (At(rec.intent) /\ ~SameFile(rec.intent))
    BY <1>1, <1>5 DEF RunType, Goes
  <2>. QED
    BY <1>2, <1>5, <2>1
<1>. QED
    BY <1>3, <1>4, <1>5 DEF SettleFS

\* settle, in the database.
LEMMA SettleDBEffect ==
    ASSUME TypeOK, HasRec, NEW h, NEW why, NEW next, SettleDB(h, why, next)
    PROVE  /\ Goes(next) /\ Others /\ UNCHANGED <<live, ret, temp, item>>
           /\ rec' # None /\ rec'.intent = None /\ rec'.v = rec.v
           /\ rec'.st = (IF run.unknown THEN "missing" ELSE rec.st)
           /\ rows' = rows \/ (At(rec.intent) /\ NewRow(rec.intent, ret[rec.intent].c, h))
<1>1. rec \in RecType
    BY Shapes
<1>2. rec' \in RecType \cup {rec'} /\ rec'.intent = None /\ rec'.v = rec.v
      /\ rec'.st = (IF run.unknown THEN "missing" ELSE rec.st)
    BY <1>1 DEF SettleDB, RecType
<1>3. rec' # None
  <2>1. rec' \in RecType
    BY <1>1, Facts DEF SettleDB, RecType
  <2>. QED
    BY <2>1, NoneAssumption
<1>4. rows' = rows \/ (At(rec.intent) /\ NewRow(rec.intent, ret[rec.intent].c, h))
    BY RowEffect DEF SettleDB
<1>. QED
    BY <1>2, <1>3, <1>4, GoEffect DEF SettleDB, disk, hist, Others

\* A reconcile step fails.
LEMMA ReconcileFailsEffect ==
    ASSUME TypeOK, AtPoints, ReconcileFails
    PROVE  /\ UNCHANGED <<world, src, ver, live, ret, temp, rec, rows, item, kind>>
           /\ bounds'.meddles = bounds.meddles /\ bounds'.stuck # 0
           /\ run.at \in Sweeping \cup {"settle", "settleDB"}
           /\ \/ run'.at \in {"sweep", "ready"} /\ run'.job = run.job /\ run'.todo \subseteq run.todo /\ jobst' = jobst
              \/ /\ run'.at = "idle" /\ run'.todo = {} /\ jobst'[J] = "over"
                 /\ \A i \in Jobs \ {J} : jobst'[i] = jobst[i]
<1>1. J \in Jobs /\ run \in RunType
    BY DEF TypeOK, AtPoints, ReconcileFails
<1>2. bounds'.meddles = bounds.meddles /\ bounds'.stuck # 0
    BY DEF ReconcileFails, TypeOK
<1>3. CASE End("over")
    BY <1>1, <1>2, <1>3, EndEffect DEF ReconcileFails, Sweeping, disk, hist
<1>4. CASE Go("ready") /\ jobst' = jobst
    BY <1>1, <1>2, <1>4, GoEffect DEF Goes, ReconcileFails, Sweeping, disk, hist
<1>5. CASE /\ jobst' = jobst
           /\ run' = [run EXCEPT !.at = "sweep", !.todo = {k \in @ : \E i \in @ : i < k}]
  <2>1. run'.at = "sweep" /\ run'.job = run.job /\ run'.todo \subseteq run.todo
    BY <1>1, <1>5 DEF RunType
  <2>. QED
    BY <1>2, <1>5, <2>1 DEF ReconcileFails, Sweeping, disk, hist
<1>. QED
    BY <1>3, <1>4, <1>5 DEF ReconcileFails

\* The sync plans its item.
LEMMA PlanEffect ==
    ASSUME TypeOK, AtPoints, Plan
    PROVE  /\ Others /\ UNCHANGED <<live, ret, temp, rec, rows, run>>
           /\ run.at = "ready" /\ J \in Jobs /\ kind[J] = "sync" /\ item[J] = None
           /\ item'[J] # None /\ item'[J].st = "pending" /\ item'[J].d = NoDetail /\ item'[J].v = src
           /\ item'[J].act = "put" => src # 0
           /\ \A i \in Jobs \ {J} : item'[i] = item[i]
<1>1. J \in Jobs /\ item \in [Jobs -> ItemType \cup {None}]
    BY DEF Plan, AtPoints, TypeOK
<1>2. item'[J] = [act |-> PlanItem, st |-> "pending", d |-> NoDetail, v |-> src,
                  id |-> IF HasRec THEN rec.id ELSE 0]
    BY <1>1 DEF Plan
<1>3. item'[J].st = "pending" /\ item'[J].d = NoDetail /\ item'[J].v = src /\ item'[J].act = PlanItem
    BY <1>2
<1>4. item'[J] # None
  <2>1. PlanItem \in {"put", "retain"}
    BY DEF Plan, PlanItem
  <2>2. (IF HasRec THEN rec.id ELSE 0) \in Nat /\ src \in Contents
    BY Shapes, Facts DEF HasRec, RecType, TypeOK
  <2>3. PICK n \in Nat, a \in {"put", "retain"} : n = (IF HasRec THEN rec.id ELSE 0) /\ a = PlanItem
    BY <2>1, <2>2
  <2>4. [act |-> a, st |-> "pending", d |-> NoDetail, v |-> src, id |-> n] \in ItemType
    BY <2>2, <2>3, Facts DEF ItemType
  <2>5. item'[J] \in ItemType
    BY <1>2, <2>3, <2>4
  <2>. QED
    BY <2>5, NoneAssumption
<1>5. PlanItem = "put" => src # 0
    BY DEF PlanItem
<1>6. \A i \in Jobs \ {J} : item'[i] = item[i]
    BY <1>1 DEF Plan
<1>. QED
    BY <1>1, <1>3, <1>4, <1>5, <1>6 DEF Plan, disk, hist, Others

\* The executor takes the item.
LEMMA BeginEffect ==
    ASSUME TypeOK, AtPoints, Begin
    PROVE  /\ Others /\ UNCHANGED <<live, ret, temp, rec, rows, item>>
           /\ run.at = "ready" /\ run'.at = "begin" /\ run'.job = run.job /\ run'.todo = run.todo
           /\ run'.d = item[J].d /\ J \in Jobs /\ Pending(J)
BY DEF Begin, TypeOK, RunType, AtPoints, disk, base, hist, Others, Pending

\* The job's item at its points.
LEMMA WorkFacts ==
    ASSUME TypeOK, AtPoints, run.at \in Working
    PROVE  /\ J \in Jobs /\ item[J] # None /\ item[J] \in ItemType /\ item[J].d \in DetailType
           /\ D \in DetailType /\ run \in RunType /\ run.job = J /\ run.d = D
BY Shapes, RunFields DEF AtPoints, Working, ExecPoints, J, D

\* What an earlier attempt displaced is recorded.
LEMMA EarlierEffect ==
    ASSUME TypeOK, EarlierDisplace
    PROVE  /\ Others /\ UNCHANGED <<live, ret, temp, rec, item>>
           /\ run.at = "begin" /\ Goes(item[J].act)
           /\ rows' = rows \/ (At(D.disp) /\ NewRow(D.disp, D.dv, 0))
BY GoEffect, DisplacedEffect DEF EarlierDisplace, disk, hist, Others

\* The job ends, with nothing else or after a verify or an expiry.
LEMMA EndsEffect ==
    ASSUME TypeOK, AtPoints, NothingToDo \/ Verify \/ ExpireEnd
    PROVE  /\ UNCHANGED <<world, src, ver, live, ret, temp, rows, item, kind, bounds>>
           /\ run.at = "ready" /\ run'.at = "idle" /\ run'.todo = {} /\ jobst'[J] = "over"
           /\ \A i \in Jobs \ {J} : jobst'[i] = jobst[i]
           /\ \/ rec' = rec
              \/ /\ HasRec /\ rec' # None /\ rec'.st = "missing" /\ rec'.v = rec.v /\ rec'.intent = rec.intent
                 /\ kind[J] = "verify"
<1>1. J \in Jobs
    BY DEF NothingToDo, Verify, ExpireEnd, AtPoints
<1>2. CASE NothingToDo \/ ExpireEnd
    BY <1>1, <1>2, EndEffect DEF NothingToDo, ExpireEnd, disk, hist
<1>3. CASE Verify
  <2>1. CASE HasRec /\ rec' = [rec EXCEPT !.st = "missing"]
    <3>1. rec \in RecType
      BY <2>1, Shapes
    <3>2. rec' \in RecType /\ rec'.st = "missing" /\ rec'.v = rec.v /\ rec'.intent = rec.intent
      BY <2>1, <3>1 DEF RecType
    <3>. QED
      BY <1>1, <1>3, <2>1, <3>2, EndEffect, NoneAssumption DEF Verify, disk, hist
  <2>2. CASE rec' = rec
    BY <1>1, <1>3, <2>2, EndEffect DEF Verify, disk, hist
  <2>. QED
    BY <1>3, <2>1, <2>2 DEF Verify
<1>. QED
    BY <1>2, <1>3

\* retention: a file, ...
LEMMA ExpireFileEffect ==
    ASSUME TypeOK, AtPoints, NEW r \in rows, ExpireFile(r)
    PROVE  /\ Others /\ UNCHANGED <<live, temp, rec, rows, item>>
           /\ run.at = "ready" /\ kind[J] = "retention" /\ J \in Jobs
           /\ run'.at = "expired" /\ run'.job = run.job /\ run'.todo = run.todo
           /\ r.slot \in Slots /\ ret'[r.slot] = None /\ \A s \in Slots : s # r.slot => ret'[s] = ret[s]
<1>1. run \in RunType /\ ret \in [Slots -> Files \cup {None}] /\ r.slot \in Slots /\ J \in Jobs
    BY DEF TypeOK, RowType, AtPoints, ExpireFile
<1>2. run'.at = "expired" /\ run'.job = run.job /\ run'.todo = run.todo
    BY <1>1 DEF ExpireFile, RunType
<1>3. ret'[r.slot] = None /\ \A s \in Slots : s # r.slot => ret'[s] = ret[s]
    BY <1>1 DEF ExpireFile
<1>. QED
    BY <1>1, <1>2, <1>3 DEF ExpireFile, base, Others

\* ... then its row.
LEMMA ExpireRowEffect ==
    ASSUME TypeOK, ExpireRow
    PROVE  /\ Others /\ UNCHANGED <<live, ret, temp, rec, item>> /\ rows' \subseteq rows
           /\ run.at = "expired" /\ run'.at = "ready" /\ run'.job = run.job /\ run'.todo = run.todo
BY DEF ExpireRow, TypeOK, RunType, disk, hist, Others

\* place goes on.
LEMMA PutResumedEffect ==
    ASSUME TypeOK, PutResumed
    PROVE  /\ Others /\ UNCHANGED <<live, ret, temp, rec, rows, item>>
           /\ run.at = "put"
           /\ \/ HalfDone /\ Goes("commit") /\ run'.free = (live = None)
              \/ ~HalfDone /\ RenamedInto /\ Goes("record")
BY DEF PutResumed, TypeOK, RunType, Goes, disk, base, hist, Others

\* place starts over.
LEMMA PutAnewEffect ==
    ASSUME TypeOK, AtPoints, PutAnew
    PROVE  /\ Others /\ UNCHANGED <<live, ret, rec, rows, item>>
           /\ run.at = "put" /\ ~HalfDone /\ ~RenamedInto
           /\ \/ Goes("putBack") /\ temp' = temp
              \/ /\ run'.at = IF AlreadyDone THEN "finish" ELSE IF ~HasRec /\ live # None THEN "way" ELSE "write"
                 /\ run'.job = run.job /\ run'.todo = run.todo /\ run'.retx = At(D.ret) /\ src # 0
                 /\ ~run'.d.temp /\ ~run'.d.done /\ run'.d.ret = D.ret /\ run'.d.rv = D.rv /\ run'.d.rh = D.rh
                 /\ run'.d.disp = D.disp /\ run'.d.dv = D.dv /\ run'.d.tv = D.tv
                 /\ D.temp => temp'[J] = None
                 /\ ~D.temp => temp' = temp
                 /\ \A i \in Jobs \ {J} : temp'[i] = temp[i]
<1>1. /\ J \in Jobs /\ run \in RunType /\ D \in DetailType /\ run.d = D
    BY WorkFacts DEF PutAnew, Working, ExecPoints
<1>2. CASE StopWith("fail") /\ temp' = temp
    BY <1>2, StopEffect DEF PutAnew, disk, base, hist, Others
<1>3. CASE /\ src # 0
           /\ temp' = IF D.temp THEN [temp EXCEPT ![J] = None] ELSE temp
           /\ run' = [run EXCEPT !.at = IF AlreadyDone THEN "finish"
                                        ELSE IF ~HasRec /\ live # None THEN "way" ELSE "write",
                                 !.d.temp = FALSE, !.d.done = FALSE, !.retx = At(D.ret)]
  <2>1. /\ run'.at = (IF AlreadyDone THEN "finish" ELSE IF ~HasRec /\ live # None THEN "way" ELSE "write")
        /\ run'.job = run.job /\ run'.todo = run.todo /\ run'.retx = At(D.ret)
        /\ run'.d = [D EXCEPT !.temp = FALSE, !.done = FALSE]
    BY <1>1, <1>3 DEF RunType
  <2>2. /\ ~run'.d.temp /\ ~run'.d.done /\ run'.d.ret = D.ret /\ run'.d.rv = D.rv /\ run'.d.rh = D.rh
        /\ run'.d.disp = D.disp /\ run'.d.dv = D.dv /\ run'.d.tv = D.tv
    BY <1>1, <2>1 DEF DetailType
  <2>3. /\ D.temp => temp'[J] = None
        /\ ~D.temp => temp' = temp
        /\ \A i \in Jobs \ {J} : temp'[i] = temp[i]
    BY <1>1, <1>3 DEF TypeOK
  <2>. QED
    BY <1>3, <2>1, <2>2, <2>3 DEF PutAnew, disk, base, hist, Others
<1>. QED
    BY <1>2, <1>3 DEF PutAnew

\* An unrecorded file is adopted.
LEMMA AdoptEffect ==
    ASSUME TypeOK, AtPoints, Adopt
    PROVE  /\ Others /\ UNCHANGED <<live, ret, temp, rows, item>>
           /\ run.at = "way" /\ Goes("finish") /\ live # None /\ live.c = src
           /\ rec' # None /\ rec'.st = "present" /\ rec'.v = src /\ rec'.intent = None
<1>1. J \in Jobs /\ J \in Nat /\ src \in Contents
    BY Facts DEF Adopt, AtPoints, TypeOK
<1>2. rec' \in RecType
    BY <1>1, Facts DEF Adopt, RecType
<1>3. rec'.st = "present" /\ rec'.v = src /\ rec'.intent = None
    BY DEF Adopt
<1>. QED
    BY <1>2, <1>3, GoEffect, NoneAssumption DEF Adopt, AtPoints, disk, hist, Others

\* It is to be displaced.
LEMMA InTheWayEffect ==
    ASSUME TypeOK, InTheWay
    PROVE  /\ Others /\ UNCHANGED <<live, ret, temp, rec, rows, item>>
           /\ run.at = "way" /\ run'.at = "displace" /\ run'.next = "write"
           /\ run'.job = run.job /\ run'.d = run.d /\ run'.todo = run.todo /\ run'.retx = run.retx
BY DEF InTheWay, TypeOK, RunType, disk, base, hist, Others

\* A new target is a path of the job's own directory.
LEMMA TargetEffect ==
    ASSUME TypeOK, J \in Jobs, FreeNames # {}
    PROVE  /\ RetentionTarget \in Slots /\ RetentionTarget[1] = J /\ ret[RetentionTarget] = None
           /\ RetentionTarget # None
BY TargetFree, SyncAssumption DEF RetentionTarget

\* displace chooses a name, ...
LEMMA DisplaceEffect ==
    ASSUME TypeOK, AtPoints, Displace
    PROVE  /\ Others /\ UNCHANGED <<live, ret, temp, rec>>
           /\ run.at = "displace" /\ run'.at = "displaceFS" /\ run'.next = run.next
           /\ run'.job = run.job /\ run'.todo = run.todo /\ run'.retx = run.retx
           /\ Saves(run'.d) /\ live # None
           /\ run'.d.temp = D.temp /\ run'.d.done = D.done /\ run'.d.tv = D.tv
           /\ run'.d.ret = D.ret /\ run'.d.rv = D.rv /\ run'.d.rh = D.rh
           /\ \/ /\ run'.d.disp \in Slots /\ run'.d.disp[1] = J /\ ~At(run'.d.disp) /\ run'.d.dv = live.c
              \/ run'.d = D /\ D.disp # None /\ ~At(D.disp)
           /\ rows' = rows \/ (At(D.disp) /\ NewRow(D.disp, D.dv, 0))
<1>1. J \in Jobs /\ item[J] # None /\ D \in DetailType /\ run \in RunType /\ live # None /\ live.c \in Contents
  <2>1. live # None /\ live \in Files \cup {None}
    BY DEF Displace, AtPoints, TypeOK
  <2>2. live.c \in Contents
    BY <2>1 DEF Files
  <2>. QED
    BY <2>1, <2>2, WorkFacts DEF Displace, Working, ExecPoints
<1>2. /\ RetentionTarget \in Slots /\ RetentionTarget[1] = J /\ ret[RetentionTarget] = None
      /\ RetentionTarget # None
    BY <1>1, TargetEffect DEF Displace
<1>3. rows' = rows \/ (At(D.disp) /\ NewRow(D.disp, D.dv, 0))
    BY DisplacedEffect DEF Displace
<1>4. ASSUME NEW e \in DetailType, Save(e), run' = [run EXCEPT !.at = "displaceFS", !.d = e]
      PROVE  /\ run'.at = "displaceFS" /\ run'.next = run.next /\ run'.d = e
             /\ run'.job = run.job /\ run'.todo = run.todo /\ run'.retx = run.retx
             /\ Saves(run'.d)
  <2>1. /\ run'.at = "displaceFS" /\ run'.next = run.next /\ run'.d = e
        /\ run'.job = run.job /\ run'.todo = run.todo /\ run'.retx = run.retx
    BY <1>1, <1>4 DEF RunType
  <2>2. Saves(e)
    BY <1>1, <1>4, SaveEffect
  <2>. QED
    BY <2>1, <2>2
<1>5. CASE D.disp = None \/ At(D.disp)
  <2>1. PICK t \in Slots : t = RetentionTarget
    BY <1>2
  <2>2. PICK c \in Contents : c = live.c
    BY <1>1
  <2>3. PICK e \in DetailType : e = [D EXCEPT !.disp = t, !.dv = c]
    BY <1>1 DEF DetailType
  <2>4. /\ e.disp = t /\ e.dv = c /\ e.temp = D.temp /\ e.done = D.done /\ e.tv = D.tv
        /\ e.ret = D.ret /\ e.rv = D.rv /\ e.rh = D.rh
    BY <1>1, <2>3 DEF DetailType
  <2>5. Save(e) /\ run' = [run EXCEPT !.at = "displaceFS", !.d = e]
    BY <1>5, <2>1, <2>2, <2>3 DEF Displace
  <2>6. ~At(t) /\ t[1] = J
    BY <1>2, <2>1 DEF At
  <2>7. /\ run'.at = "displaceFS" /\ run'.next = run.next /\ run'.d = e
        /\ run'.job = run.job /\ run'.todo = run.todo /\ run'.retx = run.retx
        /\ Saves(run'.d)
    BY <1>4, <2>5
  <2>. QED
    BY <1>1, <1>3, <2>2, <2>4, <2>6, <2>7 DEF Displace, disk, hist, Others
<1>6. CASE ~(D.disp = None \/ At(D.disp))
  <2>1. Save(D) /\ run' = [run EXCEPT !.at = "displaceFS", !.d = D]
    BY <1>6 DEF Displace
  <2>2. /\ run'.at = "displaceFS" /\ run'.next = run.next /\ run'.d = D
        /\ run'.job = run.job /\ run'.todo = run.todo /\ run'.retx = run.retx
        /\ Saves(run'.d)
    BY <1>1, <1>4, <2>1
  <2>. QED
    BY <1>1, <1>3, <1>6, <2>2 DEF Displace, disk, hist, Others
<1>. QED
    BY <1>5, <1>6

\* ... renames the file, ...
LEMMA DisplaceFSEffect ==
    ASSUME TypeOK, AtPoints, DisplaceFS
    PROVE  /\ Others /\ UNCHANGED <<temp, rec, rows, item>>
           /\ run.at = "displaceFS" /\ Goes("displaced") /\ D.disp \in Slots /\ ~At(D.disp)
           /\ live # None /\ live' = None /\ ret'[D.disp] = live
           /\ \A s \in Slots : s # D.disp => ret'[s] = ret[s]
<1>1. D.disp \in Slots /\ ret \in [Slots -> Files \cup {None}]
    BY RunFields DEF DisplaceFS, AtPoints, TypeOK
<1>. QED
    BY <1>1, GoEffect DEF DisplaceFS, base, hist, Others

\* ... and records it.
LEMMA DisplacedDone ==
    ASSUME TypeOK, AtPoints, Displaced
    PROVE  /\ Others /\ UNCHANGED <<live, ret, temp, rec, item>>
           /\ run.at = "displaced" /\ run.next \in {"write", "commit"}
           /\ run'.at = run.next /\ run'.job = run.job /\ run'.d = run.d /\ run'.todo = run.todo
           /\ run'.retx = run.retx
           /\ rows' = rows \/ (At(D.disp) /\ NewRow(D.disp, D.dv, 0))
<1>1. run \in RunType /\ run.next \in {"write", "commit"}
    BY RunFields DEF TypeOK, Displaced, AtPoints
<1>2. run'.at = run.next /\ run'.job = run.job /\ run'.d = run.d /\ run'.todo = run.todo /\ run'.retx = run.retx
    BY <1>1 DEF Displaced, RunType
<1>. QED
    BY <1>1, <1>2, DisplacedEffect DEF Displaced, disk, hist, Others

\* The temp file's name is saved, ...
LEMMA NameTempEffect ==
    ASSUME TypeOK, AtPoints, NameTemp
    PROVE  /\ Others /\ UNCHANGED <<live, ret, temp, rec, rows>>
           /\ run.at = "write" /\ run'.at = "copy" /\ run'.job = run.job /\ run'.todo = run.todo
           /\ run'.retx = run.retx /\ Saves(run'.d)
           /\ run'.d.temp /\ ~run'.d.done /\ run'.d.tv = D.tv /\ run'.d.ret = D.ret /\ run'.d.rv = D.rv
           /\ run'.d.rh = D.rh /\ run'.d.disp = D.disp /\ run'.d.dv = D.dv
<1>1. J \in Jobs /\ item[J] # None /\ D \in DetailType /\ run \in RunType
    BY WorkFacts DEF NameTemp, Working, ExecPoints
<1>2. PICK e \in DetailType : e = [D EXCEPT !.temp = TRUE, !.done = FALSE]
    BY <1>1 DEF DetailType
<1>3. /\ e.temp /\ ~e.done /\ e.tv = D.tv /\ e.ret = D.ret /\ e.rv = D.rv
      /\ e.rh = D.rh /\ e.disp = D.disp /\ e.dv = D.dv
    BY <1>1, <1>2 DEF DetailType
<1>4. Save(e) /\ run' = [run EXCEPT !.at = "copy", !.d = e]
    BY <1>2 DEF NameTemp
<1>5. run'.at = "copy" /\ run'.job = run.job /\ run'.todo = run.todo /\ run'.retx = run.retx /\ run'.d = e
    BY <1>1, <1>4 DEF RunType
<1>. QED
    BY <1>1, <1>3, <1>4, <1>5, SaveEffect DEF NameTemp, disk, hist, Others

\* ... the file is created, ...
LEMMA OpenTempEffect ==
    ASSUME TypeOK, AtPoints, OpenTemp
    PROVE  /\ Others /\ UNCHANGED <<live, ret, rec, rows, item>>
           /\ run.at = "copy"
           /\ \/ Goes("putBack") /\ temp' = temp
              \/ /\ run'.at = "copying" /\ run'.job = run.job /\ run'.todo = run.todo
                 /\ run'.d = run.d /\ run'.retx = run.retx
                 /\ run'.sv = src /\ src # 0 /\ temp'[J] # None /\ temp'[J].n = J
                 /\ \A i \in Jobs \ {J} : temp'[i] = temp[i]
<1>1. J \in Jobs /\ run \in RunType /\ J \in Nat /\ temp \in [Jobs -> Files \cup {None}]
    BY Facts, WorkFacts DEF OpenTemp, Working, ExecPoints, TypeOK
<1>2. CASE src = 0
    BY <1>2, StopEffect DEF OpenTemp, base, hist, Others
<1>3. CASE src # 0
  <2>1. run'.at = "copying" /\ run'.job = run.job /\ run'.todo = run.todo /\ run'.d = run.d
        /\ run'.retx = run.retx /\ run'.sv = src
    BY <1>1, <1>3 DEF OpenTemp, RunType
  <2>2. temp'[J] = [c |-> Partial, n |-> J] /\ \A i \in Jobs \ {J} : temp'[i] = temp[i]
    BY <1>1, <1>3 DEF OpenTemp
  <2>3. temp'[J].n = J /\ temp'[J] \in Files
    <3>1. PICK n \in Nat, c \in Contents : n = J /\ c = Partial
      BY <1>1, Facts
    <3>2. [c |-> c, n |-> n] \in Files
      BY DEF Files
    <3>. QED
      BY <2>2, <3>1, <3>2
  <2>. QED
    BY <1>3, <2>1, <2>2, <2>3, SyncAssumption DEF OpenTemp, base, hist, Others
<1>. QED
    BY <1>2, <1>3

\* ... filled, ...
LEMMA FillTempEffect ==
    ASSUME TypeOK, AtPoints, NewVersionExists, FillTemp
    PROVE  /\ Others /\ UNCHANGED <<live, ret, rec, rows, item>>
           /\ run.at = "copying"
           /\ \/ Goes("putBack") /\ temp'[J] = None
              \/ /\ Goes("copied") /\ temp'[J] # None /\ temp'[J].c = run.sv /\ temp'[J].n = temp[J].n
           /\ \A i \in Jobs \ {J} : temp'[i] = temp[i]
<1>1. J \in Jobs /\ temp \in [Jobs -> Files \cup {None}] /\ temp[J] \in Files
    BY WorkFacts DEF FillTemp, Working, ExecPoints, TypeOK, NewVersionExists
<1>2. CASE src # run.sv
    BY <1>1, <1>2, StopEffect DEF FillTemp, base, hist, Others
<1>3. CASE src = run.sv
  <2>1. temp'[J] = [temp[J] EXCEPT !.c = src] /\ \A i \in Jobs \ {J} : temp'[i] = temp[i]
    BY <1>1, <1>3 DEF FillTemp
  <2>2. src \in Contents
    BY Facts DEF TypeOK
  <2>3. temp'[J] \in Files /\ temp'[J].c = src /\ temp'[J].n = temp[J].n
    BY <1>1, <2>1, <2>2 DEF Files
  <2>. QED
    BY <1>3, <2>1, <2>3, GoEffect, SyncAssumption DEF FillTemp, base, hist, Others
<1>. QED
    BY <1>2, <1>3

\* ... and said to be complete.
LEMMA TempDoneEffect ==
    ASSUME TypeOK, AtPoints, TempDone
    PROVE  /\ Others /\ UNCHANGED <<live, ret, temp, rec, rows>>
           /\ run.at = "copied" /\ run'.at = "keep" /\ run'.job = run.job /\ run'.todo = run.todo
           /\ run'.retx = run.retx /\ Saves(run'.d)
           /\ run'.d.done /\ run'.d.temp = D.temp /\ run'.d.tv = run.sv /\ run'.d.ret = D.ret /\ run'.d.rv = D.rv
           /\ run'.d.rh = D.rh /\ run'.d.disp = D.disp /\ run'.d.dv = D.dv
<1>1. J \in Jobs /\ item[J] # None /\ D \in DetailType /\ run \in RunType /\ run.sv \in Contents
    BY WorkFacts, RunFields DEF TempDone, Working, ExecPoints
<1>2. PICK e \in DetailType : e = [D EXCEPT !.done = TRUE, !.tv = run.sv]
    BY <1>1 DEF DetailType
<1>3. /\ e.done /\ e.temp = D.temp /\ e.tv = run.sv /\ e.ret = D.ret /\ e.rv = D.rv
      /\ e.rh = D.rh /\ e.disp = D.disp /\ e.dv = D.dv
    BY <1>1, <1>2 DEF DetailType
<1>4. Save(e) /\ run' = [run EXCEPT !.at = "keep", !.d = e]
    BY <1>2 DEF TempDone
<1>5. run'.at = "keep" /\ run'.job = run.job /\ run'.todo = run.todo /\ run'.retx = run.retx /\ run'.d = e
    BY <1>1, <1>4 DEF RunType
<1>. QED
    BY <1>1, <1>3, <1>4, <1>5, SaveEffect DEF TempDone, disk, hist, Others

\* Step 4 of place.
LEMMA KeepEffect ==
    ASSUME TypeOK, AtPoints, Keep
    PROVE  /\ Others /\ UNCHANGED <<live, ret, temp, rec, rows, item>>
           /\ run.at = "keep"
           /\ run'.job = run.job /\ run'.d = run.d /\ run'.todo = run.todo
           /\ \/ run'.at = "putBack"
              \/ run'.at = "displace" /\ run'.next = "commit" /\ HasRec /\ live # None /\ run.retx /\ ~SameFile(D.ret)
              \/ run'.at = (IF D.ret = None THEN "choose" ELSE "intent") /\ HasRec /\ live # None /\ ~run.retx
              \/ /\ run'.at = "commit" /\ run'.free = (live = None)
                 /\ live = None \/ (HasRec /\ run.retx /\ SameFile(D.ret))
<1>1. run \in RunType
    BY DEF TypeOK
<1>2. Others /\ UNCHANGED <<live, ret, temp, rec, rows, item>> /\ run.at = "keep"
    BY DEF Keep, disk, base, hist, Others
<1>3. CASE StopWith("fail")
    BY <1>2, <1>3, StopEffect DEF Goes
<1>4. CASE /\ HasRec /\ live # None /\ run.retx /\ ~SameFile(D.ret)
           /\ run' = [run EXCEPT !.at = "displace", !.next = "commit"]
    BY <1>1, <1>2, <1>4 DEF RunType
<1>5. CASE HasRec /\ live # None /\ ~run.retx /\ Go(IF D.ret = None THEN "choose" ELSE "intent")
    BY <1>2, <1>5, GoEffect DEF Goes
<1>6. CASE /\ live = None \/ (HasRec /\ run.retx /\ SameFile(D.ret))
           /\ run' = [run EXCEPT !.at = "commit", !.kept = HasRec /\ run.retx, !.free = live = None]
    BY <1>1, <1>2, <1>6 DEF RunType
<1>. QED
    BY <1>3, <1>4, <1>5, <1>6 DEF Keep

\* keepInRetention: a name and a description, ...
LEMMA ChooseEffect ==
    ASSUME TypeOK, AtPoints, Choose
    PROVE  /\ Others /\ UNCHANGED <<live, ret, temp, rec, rows>>
           /\ run.at = "choose" /\ run'.at = "intent" /\ run'.job = run.job /\ run'.todo = run.todo
           /\ Saves(run'.d) /\ HasRec /\ live # None
           /\ run'.d.ret \in Slots /\ run'.d.ret[1] = J /\ ~At(run'.d.ret) /\ run'.d.ret # None
           /\ run'.d.rv = live.c /\ run'.d.rh \in {0, live.c}
           /\ run'.d.temp = D.temp /\ run'.d.done = D.done /\ run'.d.tv = D.tv
           /\ run'.d.disp = D.disp /\ run'.d.dv = D.dv
<1>1. J \in Jobs /\ item[J] # None /\ D \in DetailType /\ run \in RunType /\ HasRec /\ live # None
    BY WorkFacts DEF Choose, Working, ExecPoints, AtPoints
<1>2. rec \in RecType /\ live \in Files
    BY <1>1, Shapes DEF TypeOK
<1>3. PICK c \in Contents : c = live.c
    BY <1>2 DEF Files
<1>4. PICK h \in Contents : h = Description.h /\ h \in {0, c}
  <2>1. Description.h = 0 \/ (Description.h = rec.v /\ live.c = rec.v)
    BY DEF Description
  <2>. QED
    BY <1>3, <2>1 DEF Contents, Partial
<1>5. PICK y \in Whys : y = Description.why
  <2>1. Description.why \in {"damaged", "replaced", "deleted"}
    BY DEF Description
  <2>. QED
    BY <2>1 DEF Whys
<1>6. PICK t \in Slots : t = RetentionTarget /\ t[1] = J /\ ret[t] = None /\ t # None
    BY <1>1, TargetEffect DEF Choose
<1>7. PICK e \in DetailType : e = [D EXCEPT !.ret = t, !.rv = c, !.rh = h, !.why = y]
    BY <1>1 DEF DetailType
<1>8. /\ e.ret = t /\ e.rv = c /\ e.rh = h /\ e.temp = D.temp /\ e.done = D.done /\ e.tv = D.tv
      /\ e.disp = D.disp /\ e.dv = D.dv
    BY <1>1, <1>7 DEF DetailType
<1>9. Save(e) /\ run' = [run EXCEPT !.at = "intent", !.d = e]
    BY <1>3, <1>4, <1>5, <1>6, <1>7 DEF Choose
<1>10. run'.at = "intent" /\ run'.job = run.job /\ run'.todo = run.todo /\ run'.d = e
    BY <1>1, <1>9 DEF RunType
<1>11. ~At(t)
    BY <1>6 DEF At
<1>. QED
    BY <1>1, <1>3, <1>4, <1>6, <1>8, <1>9, <1>10, <1>11, SaveEffect DEF Choose, disk, hist, Others

\* ... the intent, ...
LEMMA IntentEffect ==
    ASSUME TypeOK, AtPoints, Intent
    PROVE  /\ Others /\ UNCHANGED <<live, ret, temp, rows, item>>
           /\ run.at = "intent" /\ Goes("keepFS") /\ HasRec
           /\ rec' # None /\ rec'.st = rec.st /\ rec'.v = rec.v /\ rec'.intent = D.ret
<1>1. HasRec /\ rec \in RecType
    BY Shapes DEF Intent, AtPoints
<1>2. D.ret \in Slots \cup {None} /\ D.why \in Whys
    BY RunFields
<1>3. rec' \in RecType /\ rec'.st = rec.st /\ rec'.v = rec.v /\ rec'.intent = D.ret
    BY <1>1, <1>2 DEF Intent, RecType
<1>. QED
    BY <1>1, <1>3, GoEffect, NoneAssumption DEF Intent, disk, hist, Others

\* ... and the file itself.
LEMMA KeepFSEffect ==
    ASSUME TypeOK, AtPoints, KeepFS
    PROVE  /\ Others /\ UNCHANGED <<temp, rec, rows, item>>
           /\ run.at = "keepFS" /\ run'.job = run.job /\ run'.todo = run.todo /\ live # None /\ HasRec
           /\ \/ /\ At(D.ret) /\ run'.at = "choose" /\ UNCHANGED <<live, ret>>
                 /\ run'.d.ret = None /\ run'.d.temp = D.temp /\ run'.d.done = D.done /\ run'.d.tv = D.tv
                 /\ run'.d.disp = D.disp /\ run'.d.dv = D.dv
              \/ /\ ~At(D.ret) /\ D.ret \in Slots /\ run'.d = run.d
                 /\ ret'[D.ret] = live /\ \A s \in Slots : s # D.ret => ret'[s] = ret[s]
                 /\ live' = (IF world.hardlinks /\ item[J].act = "put" THEN live ELSE None)
                 /\ run'.at = (IF item[J].act = "put" THEN "commit" ELSE "retained")
                 /\ run'.free = (live' = None)
<1>1. /\ run \in RunType /\ D \in DetailType /\ ret \in [Slots -> Files \cup {None}] /\ D.ret \in Slots
      /\ run.at = "keepFS" /\ live # None /\ HasRec /\ run.d = D
    BY WorkFacts, RunFields DEF KeepFS, Working, ExecPoints, AtPoints, TypeOK
<1>2. CASE At(D.ret)
  <2>1. run'.at = "choose" /\ run'.job = run.job /\ run'.todo = run.todo /\ run'.d = [D EXCEPT !.ret = None]
    BY <1>1, <1>2 DEF KeepFS, RunType
  <2>2. /\ run'.d.ret = None /\ run'.d.temp = D.temp /\ run'.d.done = D.done /\ run'.d.tv = D.tv
        /\ run'.d.disp = D.disp /\ run'.d.dv = D.dv
    BY <1>1, <2>1 DEF DetailType
  <2>. QED
    BY <1>1, <1>2, <2>1, <2>2 DEF KeepFS, base, hist, Others
<1>3. CASE ~At(D.ret)
  <2>1. /\ run'.job = run.job /\ run'.todo = run.todo /\ run'.d = run.d
        /\ run'.at = (IF item[J].act = "put" THEN "commit" ELSE "retained")
        /\ run'.free = (live' = None)
    BY <1>1, <1>3 DEF KeepFS, RunType
  <2>2. ret'[D.ret] = live /\ \A s \in Slots : s # D.ret => ret'[s] = ret[s]
    BY <1>1, <1>3 DEF KeepFS
  <2>. QED
    BY <1>1, <1>3, <2>1, <2>2 DEF KeepFS, base, hist, Others
<1>. QED
    BY <1>2, <1>3

\* The new version is renamed into place, ...
LEMMA CommitEffect ==
    ASSUME TypeOK, AtPoints, NewVersionExists, Commit
    PROVE  /\ Others /\ UNCHANGED <<ret, rec, rows, item>>
           /\ run.at = "commit"
           /\ \/ run.free /\ live # None /\ Goes("putBack") /\ UNCHANGED <<live, temp>>
              \/ /\ ~(run.free /\ live # None) /\ Goes("record") /\ live' = temp[J] /\ temp[J] # None
                 /\ temp'[J] = None /\ \A i \in Jobs \ {J} : temp'[i] = temp[i]
<1>1. J \in Jobs /\ temp \in [Jobs -> Files \cup {None}] /\ temp[J] # None
    BY WorkFacts DEF Commit, Working, ExecPoints, TypeOK, NewVersionExists
<1>2. CASE run.free /\ live # None
    BY <1>2, StopEffect DEF Commit, base, Others
<1>3. CASE ~(run.free /\ live # None)
  <2>1. temp'[J] = None /\ \A i \in Jobs \ {J} : temp'[i] = temp[i]
    BY <1>1, <1>3 DEF Commit
  <2>. QED
    BY <1>1, <1>3, <2>1, GoEffect DEF Commit, base, Others
<1>. QED
    BY <1>2, <1>3

\* ... and recorded.
LEMMA RecordEffect ==
    ASSUME TypeOK, AtPoints, Record
    PROVE  /\ Others /\ UNCHANGED <<live, ret, temp, item>>
           /\ run.at = "record" /\ Goes("finish")
           /\ rec' # None /\ rec'.st = "present" /\ rec'.v = D.tv /\ rec'.intent = None
           /\ rows' = rows \/ (D.ret # None /\ NewRow(D.ret, D.rv, D.rh))
<1>1. J \in Jobs /\ J \in Nat /\ D.tv \in Contents /\ (HasRec => rec.id \in Nat)
    BY WorkFacts, RunFields, Facts, Shapes DEF Record, Working, ExecPoints, RecType
<1>2. rec'.st = "present" /\ rec'.v = D.tv /\ rec'.intent = None
    BY DEF Record, Placed
<1>3. rec' \in RecType
  <2>1. PICK n \in Nat : n = (IF HasRec THEN rec.id ELSE J)
    BY <1>1
  <2>2. rec' = [st |-> "present", v |-> D.tv, intent |-> None, why |-> "", job |-> J, id |-> n]
    BY <2>1 DEF Record, Placed
  <2>. QED
    BY <1>1, <2>2, Facts DEF RecType
<1>4. rows' = rows \/ (D.ret # None /\ NewRow(D.ret, D.rv, D.rh))
    BY RowEffect DEF Record, Placed
<1>. QED
    BY <1>2, <1>3, <1>4, GoEffect, NoneAssumption DEF Record, disk, hist, Others

\* The item gets the state st.
LEMMA StateEffect ==
    ASSUME TypeOK, J \in Jobs, item[J] # None, NEW st \in {"done", "failed"},
           item' = [item EXCEPT ![J].st = st]
    PROVE  /\ item'[J] # None /\ item'[J].d = item[J].d /\ item'[J].act = item[J].act
           /\ item'[J].st = st /\ item'[J].v = item[J].v
           /\ \A i \in Jobs \ {J} : item'[i] = item[i]
<1>1. item \in [Jobs -> ItemType \cup {None}] /\ item[J] \in ItemType
    BY DEF TypeOK
<1>2. item'[J] = [item[J] EXCEPT !.st = st] /\ \A i \in Jobs \ {J} : item'[i] = item[i]
    BY <1>1
<1>3. /\ item'[J].d = item[J].d /\ item'[J].act = item[J].act /\ item'[J].st = st /\ item'[J].v = item[J].v
      /\ item'[J] \in ItemType
    BY <1>1, <1>2 DEF ItemType
<1>. QED
    BY <1>2, <1>3, NoneAssumption

\* finish, as a step of the fields.
LEMMA FinishEffect ==
    ASSUME TypeOK, AtPoints, Finish
    PROVE  /\ Others /\ UNCHANGED <<live, ret, temp, rec, rows>>
           /\ run.at = "finish" /\ Goes("ready")
           /\ item'[J] # None /\ item'[J].d = item[J].d /\ item'[J].act = item[J].act
           /\ item'[J].st = "done" /\ item'[J].v = item[J].v
           /\ \A i \in Jobs \ {J} : item'[i] = item[i]
BY WorkFacts, StateEffect, GoEffect DEF Finish, Working, ExecPoints, disk, hist, Others

\* retain, as a step of the fields.
LEMMA RetainEffect ==
    ASSUME TypeOK, AtPoints, Retain
    PROVE  /\ Others /\ UNCHANGED <<live, ret, temp, rec, rows, item>>
           /\ run.at = "retain" /\ run'.job = run.job /\ run'.d = run.d /\ run'.todo = run.todo
           /\ item[J].act = "retain"
           /\ \/ run'.at = "finish"
              \/ run'.at = "retained" /\ HasRec /\ live = None /\ (run'.kept => At(D.ret))
              \/ /\ run'.at = (IF D.ret = None THEN "choose" ELSE "intent") /\ HasRec /\ live # None
<1>1. run \in RunType
    BY DEF TypeOK
<1>2. /\ Others /\ UNCHANGED <<live, ret, temp, rec, rows, item>> /\ run.at = "retain" /\ item[J].act = "retain"
    BY DEF Retain, AtPoints, disk, base, hist, Others
<1>3. CASE Go("finish")
    BY <1>2, <1>3, GoEffect DEF Goes
<1>4. CASE /\ Unchanged /\ D.ret # None /\ live = None /\ At(D.ret)
           /\ run' = [run EXCEPT !.at = "retained", !.kept = TRUE]
    BY <1>1, <1>2, <1>4 DEF RunType, Unchanged
<1>5. CASE /\ Unchanged
           /\ run' = [run EXCEPT !.kept = FALSE,
                            !.at = IF live = None THEN "retained"
                                   ELSE IF D.ret = None THEN "choose" ELSE "intent"]
  <2>1. /\ run'.job = run.job /\ run'.d = run.d /\ run'.todo = run.todo /\ run'.kept = FALSE
        /\ run'.at = IF live = None THEN "retained" ELSE IF D.ret = None THEN "choose" ELSE "intent"
    BY <1>1, <1>5 DEF RunType
  <2>. QED
    BY <1>2, <1>5, <2>1 DEF Unchanged
<1>. QED
    BY <1>3, <1>4, <1>5 DEF Retain

\* The record becomes the retained row.
LEMMA RetainedEffect ==
    ASSUME TypeOK, Retained
    PROVE  /\ Others /\ UNCHANGED <<live, ret, temp, item>>
           /\ run.at = "retained" /\ Goes("finish") /\ rec' = None
           /\ rows' = rows \/ (run.kept /\ NewRow(D.ret, D.rv, D.rh))
<1>1. rows' = rows \/ (run.kept /\ NewRow(D.ret, D.rv, D.rh))
    BY RowEffect DEF Retained
<1>. QED
    BY <1>1, GoEffect DEF Retained, disk, hist, Others

\* An operation fails.
LEMMA FailEffect ==
    ASSUME TypeOK, NEW how \in {"fail", "fatal", "cancel"}, Fail(how)
    PROVE  /\ UNCHANGED <<world, src, ver, live, ret, temp, rec, rows, item, jobst, kind>>
           /\ run.at \in ExecPoints /\ Goes("putBack")
           /\ bounds'.meddles = bounds.meddles /\ bounds'.stuck = bounds.stuck /\ bounds'.errors # 0
<1>1. bounds'.meddles = bounds.meddles /\ bounds'.stuck = bounds.stuck /\ bounds'.errors # 0
    BY DEF Fail, TypeOK
<1>. QED
    BY <1>1, StopEffect DEF Fail, disk, base, hist

\* Settling is skipped, or fails.
LEMMA PutBackGoes ==
    ASSUME TypeOK, PutBackNothing \/ PutBackFails
    PROVE  /\ UNCHANGED <<world, src, ver, live, ret, temp, rec, rows, item, jobst, kind>>
           /\ run.at \in {"putBack", "putBackDB"} /\ Goes("clean")
           /\ bounds'.meddles = bounds.meddles /\ bounds'.errors = bounds.errors
           /\ bounds' = bounds \/ bounds'.stuck # 0
<1>1. CASE PutBackNothing
    BY <1>1, GoEffect DEF PutBackNothing, disk, base, hist
<1>2. CASE PutBackFails
  <2>1. bounds'.meddles = bounds.meddles /\ bounds'.errors = bounds.errors /\ bounds'.stuck # 0
    BY <1>2 DEF PutBackFails, TypeOK
  <2>. QED
    BY <1>2, <2>1, GoEffect DEF PutBackFails, disk, base, hist
<1>. QED
    BY <1>1, <1>2

\* The stopped item's temp file is removed or kept.
LEMMA CleanEffect ==
    ASSUME TypeOK, J \in Jobs, CleanTemp \/ temp' = IF D.temp THEN [temp EXCEPT ![J] = None] ELSE temp
    PROVE  temp' = temp \/ (temp'[J] = None /\ \A i \in Jobs \ {J} : temp'[i] = temp[i])
BY DEF CleanTemp, TypeOK

\* The job stops with its item.
LEMMA StopsEffect ==
    ASSUME TypeOK, AtPoints, Salvage \/ Cancelled
    PROVE  /\ UNCHANGED <<world, src, ver, live, ret, rec, item, kind, bounds>>
           /\ run.at = "clean" /\ run'.at = "idle" /\ run'.todo = {} /\ jobst'[J] \in {"over", "queued"}
           /\ \A i \in Jobs \ {J} : jobst'[i] = jobst[i]
           /\ temp' = temp \/ (temp'[J] = None /\ \A i \in Jobs \ {J} : temp'[i] = temp[i])
           /\ rows' = rows \/ (At(D.disp) /\ NewRow(D.disp, D.dv, 0))
<1>1. J \in Jobs
    BY WorkFacts DEF Salvage, Cancelled, Working, ExecPoints
<1>2. CASE Salvage
    BY <1>1, <1>2, EndEffect, CleanEffect, DisplacedEffect DEF Salvage
<1>3. CASE Cancelled
    BY <1>1, <1>3, EndEffect, CleanEffect DEF Cancelled
<1>. QED
    BY <1>2, <1>3

\* The item fails.
LEMMA ItemFailedEffect ==
    ASSUME TypeOK, AtPoints, ItemFailed
    PROVE  /\ Others /\ UNCHANGED <<live, ret, rec, rows>>
           /\ run.at = "clean" /\ Goes("ready")
           /\ temp' = temp \/ (temp'[J] = None /\ \A i \in Jobs \ {J} : temp'[i] = temp[i])
           /\ item'[J] # None /\ item'[J].d = item[J].d /\ item'[J].act = item[J].act
           /\ item'[J].st = "failed" /\ item'[J].v = item[J].v
           /\ \A i \in Jobs \ {J} : item'[i] = item[i]
<1>1. J \in Jobs /\ item[J] # None
    BY WorkFacts DEF ItemFailed, Working, ExecPoints
<1>. QED
    BY <1>1, StateEffect, GoEffect, CleanEffect DEF ItemFailed, hist, Others

-----------------------------------------------------------------------------
(* The jobs and their items.                                               *)

\* The only unfinished job with an item is the running one.
LEMMA OnlyOne ==
    ASSUME TypeOK, Ordered, run.at # "idle"
    PROVE  /\ J \in Jobs /\ jobst[J] = "running" /\ J \notin run.todo
           /\ \A j \in Jobs : jobst[j] # "over" /\ item[j] # None => j = J
           /\ \A j \in Jobs : jobst[j] # "over" /\ j # J => jobst[j] = "new" /\ item[j] = None
<1>1. J \in Jobs /\ jobst[J] = "running" /\ J \notin run.todo
    BY DEF Ordered, OneUnfinished
<1>2. \A j \in Jobs : jobst[j] \in {"new", "running", "queued", "over"}
    BY DEF TypeOK
<1>3. \A j \in Jobs : jobst[j] # "over" /\ item[j] # None => j = J
    BY <1>1, <1>2 DEF Ordered, OneUnfinished
<1>4. \A j \in Jobs : jobst[j] # "over" /\ j # J => jobst[j] = "new" /\ item[j] = None
    BY <1>1, <1>2 DEF Ordered, OneUnfinished
<1>. QED
    BY <1>1, <1>3, <1>4

\* The job goes on.
LEMMA UnfinishedOn ==
    ASSUME Ordered, run.at # "idle", run'.at # "idle", run'.job = run.job, run'.todo \subseteq run.todo,
           UNCHANGED <<jobst, kind>>, run'.at = "expired" => kind[J] = "retention",
           \A i \in Jobs : item'[i] # None => item[i] # None \/ (i = J /\ kind[J] = "sync")
    PROVE  OneUnfinished'
BY DEF Ordered, OneUnfinished, J

\* The job ends, or is queued again.
LEMMA UnfinishedEnds ==
    ASSUME TypeOK, Ordered, run.at # "idle", run'.at = "idle", item' = item, kind' = kind,
           jobst'[J] \in {"queued", "over"}, \A i \in Jobs \ {J} : jobst'[i] = jobst[i]
    PROVE  Ordered'
<1>1. J \in Jobs /\ jobst[J] = "running"
    BY OnlyOne
<1>2. \A i \in Jobs \ {J} : jobst'[i] \notin {"queued", "running"}
    BY <1>1 DEF Ordered, OneUnfinished
<1>3. OneUnfinished'
    BY <1>1, <1>2 DEF Ordered, OneUnfinished
<1>4. OwnPaths'
    BY DEF Ordered, OwnPaths
<1>. QED
    BY <1>3, <1>4 DEF Ordered, Working, ExecPoints, Placing, Displacing

\* The job goes on, and no item changes.
LEMMA OrderedOn ==
    ASSUME Ordered, run.at # "idle", run'.at # "idle", run'.job = run.job, run'.todo \subseteq run.todo,
           UNCHANGED <<jobst, kind, item>>, run'.at = "expired" => kind[J] = "retention"
    PROVE  OneUnfinished' /\ OwnPaths'
BY UnfinishedOn DEF Ordered, OwnPaths

\* So does one that is not at its item.
LEMMA OrderedIdle ==
    ASSUME OneUnfinished', OwnPaths', run'.at \notin Working
    PROVE  Ordered'
BY DEF Ordered, Working, ExecPoints, Placing, Displacing

\* A detail is saved.
LEMMA OrderedSaved ==
    ASSUME TypeOK, AtPoints, Ordered, run.at \in Working, run'.at \in Working, run'.job = run.job,
           run'.todo = run.todo, UNCHANGED <<jobst, kind>>, Saves(run'.d),
           run'.d.ret # None => run'.d.ret[1] = J, run'.d.disp # None => run'.d.disp[1] = J,
           run'.at \in Placing => IsPut
    PROVE  Ordered'
<1>1. J \in Jobs /\ item[J] # None /\ run.at # "idle" /\ run'.at # "idle" /\ run'.at # "expired" /\ J' = J
    BY WorkFacts DEF Working, ExecPoints, J
<1>2. OneUnfinished'
    BY <1>1, UnfinishedOn DEF Saves
<1>3. OwnPaths'
    BY <1>1 DEF Ordered, OwnPaths, Saves
<1>4. SameDetail' /\ D' = item'[J].d
    BY <1>1 DEF Ordered, SameDetail, Pending, Saves, D, J
<1>5. IsPut' <=> IsPut
    BY <1>1 DEF IsPut, Saves
<1>. QED
    BY <1>1, <1>2, <1>3, <1>4, <1>5 DEF Ordered

\* The item is worked on with the same detail.
LEMMA OrderedGo ==
    ASSUME TypeOK, AtPoints, Ordered, run.at \in Working, run'.at \in Working \ {"begin", "retain"},
           UNCHANGED <<jobst, kind, item>>, run'.job = run.job, run'.d = run.d, run'.todo = run.todo,
           run'.at = "put" => run.at = "begin" /\ IsPut,
           run'.at \in Placing /\ run'.at # "put" => run.at \in Placing \/ IsPut,
           run'.at \in {"copy", "copying", "copied", "keep", "displaceFS", "displaced", "commit", "record"} =>
               \/ run.at \in {"begin", "put", "retain", "copy", "copying", "copied", "keep", "displaceFS",
                              "displaced", "commit", "record"}
               \/ D.ret = item[J].d.ret /\ D.done = item[J].d.done,
           run'.at \in {"choose", "intent", "keepFS"} =>
               run.at \in {"keep", "retain", "choose", "intent", "keepFS"}
    PROVE  Ordered'
<1>1. J' = J /\ D' = D /\ run.at # "idle" /\ run'.at # "idle" /\ run'.at # "expired"
    BY DEF J, D, Working, ExecPoints
<1>2. OneUnfinished' /\ OwnPaths'
    BY <1>1, OrderedOn
<1>3. SameDetail' /\ (IsPut' <=> IsPut)
    BY <1>1 DEF Ordered, SameDetail, Pending, IsPut
<1>. QED
    BY <1>1, <1>2, <1>3 DEF Ordered

\* Every step keeps the jobs in order.
LEMMA OrderedKept ==
    ASSUME TypeOK, TypeOK', AtPoints, AtPoints', NewVersionExists, world.inOrder, Ordered, [Next]_vars
    PROVE  Ordered'
<1>1. CASE SourceChanges \/ SourceVanishes
  <2>1. UNCHANGED <<item, jobst, kind, run>>
    BY <1>1, SourceEffect
  <2>. QED
    BY <2>1 DEF Ordered, OneUnfinished, OwnPaths, SameDetail, Pending, IsPut, J, D
<1>2. CASE Meddle
  <2>1. UNCHANGED <<item, jobst, kind, run>>
    BY <1>2, MeddleEffect
  <2>. QED
    BY <2>1 DEF Ordered, OneUnfinished, OwnPaths, SameDetail, Pending, IsPut, J, D
<1>3. CASE \E j \in Jobs, k \in {"sync", "verify", "retention"} : Start(j, k)
  <2>1. PICK j \in Jobs, k \in {"sync", "verify", "retention"} : Start(j, k)
    BY <1>3
  <2>2. /\ item' = item /\ run.at = "idle" /\ run'.at = "sweep" /\ run'.job = j /\ j \notin run'.todo
        /\ jobst'[j] = "running" /\ jobst[j] \in {"new", "queued"}
        /\ \A i \in Jobs \ {j} : jobst'[i] = jobst[i] /\ kind'[i] = kind[i]
        /\ jobst[j] = "queued" => kind'[j] = kind[j]
        /\ jobst[j] = "new" => \A i \in Jobs : jobst[i] # "queued"
    BY <2>1, StartEffect
  <2>3. \A i \in Jobs \ {j} : jobst[i] \notin {"queued", "running"}
    BY <2>2 DEF Ordered, OneUnfinished
  <2>4. OneUnfinished'
    BY <2>2, <2>3 DEF Ordered, OneUnfinished, J
  <2>5. OwnPaths'
    BY <2>2 DEF Ordered, OwnPaths
  <2>. QED
    BY <2>2, <2>4, <2>5, OrderedIdle DEF Working, ExecPoints
<1>4. CASE Crash
    BY <1>4, CrashEffect, UnfinishedEnds
<1>5. CASE \E i \in Jobs : SweepDisplaced(i) \/ SweepPlaced(i) \/ SweepTemp(i)
  <2>1. /\ Others /\ item' = item /\ run.at \in Sweeping /\ run'.at \in Sweeping /\ run'.job = run.job
        /\ run'.todo \subseteq run.todo
    BY <1>5, SweepEffect
  <2>. QED
    BY <2>1, OrderedOn, OrderedIdle DEF Sweeping, Others, Working, ExecPoints
<1>6. CASE SweepEnd \/ SettleNothing
    BY <1>6, ReconcileGoes, OrderedOn, OrderedIdle DEF Goes, Others, Working, ExecPoints
<1>7. CASE Settle
  <2>1. HasRec /\ run.at = "settle"
    BY <1>7 DEF Settle, Unsettled
  <2>2. Goes("settleDB") /\ UNCHANGED <<item, jobst, kind>>
    BY <1>7, <2>1, SettleFSEffect DEF Settle
  <2>. QED
    BY <2>1, <2>2, OrderedOn, OrderedIdle DEF Goes, Working, ExecPoints
<1>8. CASE SettleRecord
  <2>1. HasRec /\ run.at = "settleDB"
    BY <1>8 DEF SettleRecord, AtPoints
  <2>2. Goes("ready") /\ UNCHANGED <<item, jobst, kind>>
    BY <1>8, <2>1, SettleDBEffect DEF SettleRecord, Others
  <2>. QED
    BY <2>1, <2>2, OrderedOn, OrderedIdle DEF Goes, Working, ExecPoints
<1>9. CASE ReconcileFails
  <2>1. item' = item /\ kind' = kind /\ run.at # "idle"
    BY <1>9, ReconcileFailsEffect DEF Sweeping
  <2>2. CASE run'.at = "idle" /\ jobst'[J] = "over" /\ \A i \in Jobs \ {J} : jobst'[i] = jobst[i]
    BY <2>1, <2>2, UnfinishedEnds
  <2>3. CASE run'.at \in {"sweep", "ready"} /\ run'.job = run.job /\ run'.todo \subseteq run.todo /\ jobst' = jobst
    BY <2>1, <2>3, OrderedOn, OrderedIdle DEF Working, ExecPoints
  <2>. QED
    BY <1>9, <2>2, <2>3, ReconcileFailsEffect
<1>10. CASE Plan
  <2>1. /\ UNCHANGED <<jobst, kind, run>> /\ run.at = "ready" /\ J \in Jobs /\ kind[J] = "sync"
        /\ item'[J].d = NoDetail /\ \A i \in Jobs \ {J} : item'[i] = item[i]
    BY <1>10, PlanEffect DEF Others
  <2>2. OneUnfinished'
    BY <2>1, UnfinishedOn
  <2>4. NoDetail.ret = None /\ NoDetail.disp = None
    BY DEF NoDetail
  <2>3. OwnPaths'
    BY <2>1, <2>4 DEF Ordered, OwnPaths
  <2>. QED
    BY <2>1, <2>2, <2>3, OrderedIdle DEF Working, ExecPoints
<1>11. CASE Begin
  <2>1. /\ UNCHANGED <<jobst, kind, item>> /\ run.at = "ready" /\ run'.at = "begin" /\ run'.job = run.job
        /\ run'.todo = run.todo /\ run'.d = item[J].d /\ Pending(J)
    BY <1>11, BeginEffect DEF Others
  <2>2. OneUnfinished' /\ OwnPaths'
    BY <2>1, OrderedOn
  <2>3. SameDetail' /\ D' = item'[J'].d
    BY <2>1 DEF SameDetail, Pending, J, D
  <2>. QED
    BY <2>1, <2>2, <2>3 DEF Ordered, Placing, Displacing
<1>12. CASE NothingToDo \/ Verify \/ ExpireEnd
    BY <1>12, EndsEffect, UnfinishedEnds
<1>13. CASE (\E r \in rows : ExpireFile(r)) \/ ExpireRow
    BY <1>13, ExpireFileEffect, ExpireRowEffect, OrderedOn, OrderedIdle DEF Others, Working, ExecPoints
<1>14. CASE EarlierDisplace
  <2>1. /\ UNCHANGED <<jobst, kind, item>> /\ run'.job = run.job /\ run'.d = run.d /\ run'.todo = run.todo
        /\ run.at = "begin" /\ run'.at = item[J].act
    BY <1>14, EarlierEffect DEF Goes, Others
  <2>2. item[J].act \in {"put", "retain"}
    BY <2>1, WorkFacts DEF ItemType, Working, ExecPoints
  <2>3. CASE item[J].act = "put"
    BY <2>1, <2>3, OrderedGo DEF Working, ExecPoints, Placing, Displacing, IsPut
  <2>4. CASE item[J].act = "retain"
    <3>1. J' = J /\ D' = D /\ OneUnfinished' /\ OwnPaths'
      BY <2>1, <2>4, OrderedOn DEF J, D
    <3>2. SameDetail' /\ D.ret = item[J].d.ret /\ D.done = item[J].d.done /\ D.temp = item[J].d.temp
      BY <2>1, <3>1 DEF Ordered, SameDetail, Pending, Working, ExecPoints
    <3>. QED
      BY <2>1, <2>4, <3>1, <3>2 DEF Ordered, Placing, Displacing
  <2>. QED
    BY <2>2, <2>3, <2>4
<1>15. CASE PutResumed
  <2>1. /\ UNCHANGED <<jobst, kind, item>> /\ run'.job = run.job /\ run'.d = run.d /\ run'.todo = run.todo
        /\ run.at = "put" /\ run'.at \in {"commit", "record"}
    BY <1>15, PutResumedEffect DEF Goes, Others
  <2>. QED
    BY <2>1, OrderedGo DEF Working, ExecPoints, Placing, Displacing
<1>16. CASE PutAnew
  <2>1. UNCHANGED <<jobst, kind, item>> /\ run.at = "put"
    BY <1>16, PutAnewEffect DEF Others
  <2>2. CASE Goes("putBack")
    BY <2>1, <2>2, OrderedGo DEF Goes, Working, ExecPoints, Placing, Displacing
  <2>3. CASE run'.at \in {"finish", "way", "write"}
    <3>1. /\ run'.job = run.job /\ run'.todo = run.todo
          /\ ~run'.d.temp /\ ~run'.d.done /\ run'.d.ret = D.ret /\ run'.d.rv = D.rv /\ run'.d.rh = D.rh
          /\ run'.d.disp = D.disp /\ run'.d.dv = D.dv /\ run'.d.tv = D.tv
      BY <1>16, <2>3, PutAnewEffect DEF Goes
    <3>2. J' = J /\ OneUnfinished' /\ OwnPaths'
      BY <2>1, <2>3, <3>1, OrderedOn DEF J
    <3>3. SameDetail' /\ IsPut'
      BY <2>1, <3>1, <3>2 DEF Ordered, SameDetail, Pending, D, IsPut, Working, ExecPoints, Placing
    <3>. QED
      BY <2>3, <3>2, <3>3 DEF Ordered
  <2>. QED
    BY <1>16, <2>2, <2>3, PutAnewEffect
<1>17. CASE Adopt
  <2>1. /\ UNCHANGED <<jobst, kind, item>> /\ run'.job = run.job /\ run'.d = run.d /\ run'.todo = run.todo
        /\ run.at = "way" /\ run'.at = "finish"
    BY <1>17, AdoptEffect DEF Goes, Others
  <2>. QED
    BY <2>1, OrderedGo DEF Working, ExecPoints, Placing, Displacing
<1>18. CASE InTheWay
  <2>1. /\ UNCHANGED <<jobst, kind, item>> /\ run'.job = run.job /\ run'.d = run.d /\ run'.todo = run.todo
        /\ run.at = "way" /\ run'.at = "displace"
    BY <1>18, InTheWayEffect DEF Goes, Others
  <2>. QED
    BY <2>1, OrderedGo DEF Working, ExecPoints, Placing, Displacing
<1>19. CASE Displace
  <2>1. /\ UNCHANGED <<jobst, kind>> /\ run'.job = run.job /\ run'.todo = run.todo /\ Saves(run'.d)
        /\ run.at = "displace" /\ run'.at = "displaceFS"
    BY <1>19, DisplaceEffect DEF Others
  <2>2. J \in Jobs /\ (D.ret # None => D.ret[1] = J) /\ (D.disp # None => D.disp[1] = J)
    BY <2>1, WorkFacts DEF Ordered, SameDetail, OwnPaths, Working, ExecPoints
  <2>3. (run'.d.ret # None => run'.d.ret[1] = J) /\ (run'.d.disp # None => run'.d.disp[1] = J)
    BY <1>19, <2>2, DisplaceEffect
  <2>4. run'.at \in Placing => IsPut
    BY <2>1 DEF Ordered, Placing, Displacing
  <2>. QED
    BY <2>1, <2>3, <2>4, OrderedSaved DEF Working, ExecPoints
<1>20. CASE DisplaceFS
  <2>1. /\ UNCHANGED <<jobst, kind, item>> /\ run'.job = run.job /\ run'.d = run.d /\ run'.todo = run.todo
        /\ run.at = "displaceFS" /\ run'.at = "displaced"
    BY <1>20, DisplaceFSEffect DEF Goes, Others
  <2>. QED
    BY <2>1, OrderedGo DEF Working, ExecPoints, Placing, Displacing
<1>21. CASE Displaced
  <2>1. /\ UNCHANGED <<jobst, kind, item>> /\ run'.job = run.job /\ run'.d = run.d /\ run'.todo = run.todo
        /\ run.at = "displaced" /\ run'.at \in {"write", "commit"}
    BY <1>21, DisplacedDone DEF Goes, Others
  <2>. QED
    BY <2>1, OrderedGo DEF Working, ExecPoints, Placing, Displacing
<1>22. CASE NameTemp
  <2>1. /\ UNCHANGED <<jobst, kind>> /\ run'.job = run.job /\ run'.todo = run.todo /\ Saves(run'.d)
        /\ run.at = "write" /\ run'.at = "copy"
    BY <1>22, NameTempEffect DEF Others
  <2>2. J \in Jobs /\ (D.ret # None => D.ret[1] = J) /\ (D.disp # None => D.disp[1] = J)
    BY <2>1, WorkFacts DEF Ordered, SameDetail, OwnPaths, Working, ExecPoints
  <2>3. (run'.d.ret # None => run'.d.ret[1] = J) /\ (run'.d.disp # None => run'.d.disp[1] = J)
    BY <1>22, <2>2, NameTempEffect
  <2>4. run'.at \in Placing => IsPut
    BY <2>1 DEF Ordered, Placing, Displacing
  <2>. QED
    BY <2>1, <2>3, <2>4, OrderedSaved DEF Working, ExecPoints
<1>23. CASE OpenTemp
  <2>1. /\ UNCHANGED <<jobst, kind, item>> /\ run'.job = run.job /\ run'.d = run.d /\ run'.todo = run.todo
        /\ run.at = "copy" /\ run'.at \in {"putBack", "copying"}
    BY <1>23, OpenTempEffect DEF Goes, Others
  <2>. QED
    BY <2>1, OrderedGo DEF Working, ExecPoints, Placing, Displacing
<1>24. CASE FillTemp
  <2>1. /\ UNCHANGED <<jobst, kind, item>> /\ run'.job = run.job /\ run'.d = run.d /\ run'.todo = run.todo
        /\ run.at = "copying" /\ run'.at \in {"putBack", "copied"}
    BY <1>24, FillTempEffect DEF Goes, Others
  <2>. QED
    BY <2>1, OrderedGo DEF Working, ExecPoints, Placing, Displacing
<1>25. CASE TempDone
  <2>1. /\ UNCHANGED <<jobst, kind>> /\ run'.job = run.job /\ run'.todo = run.todo /\ Saves(run'.d)
        /\ run.at = "copied" /\ run'.at = "keep"
    BY <1>25, TempDoneEffect DEF Others
  <2>2. J \in Jobs /\ (D.ret # None => D.ret[1] = J) /\ (D.disp # None => D.disp[1] = J)
    BY <2>1, WorkFacts DEF Ordered, SameDetail, OwnPaths, Working, ExecPoints
  <2>3. (run'.d.ret # None => run'.d.ret[1] = J) /\ (run'.d.disp # None => run'.d.disp[1] = J)
    BY <1>25, <2>2, TempDoneEffect
  <2>4. run'.at \in Placing => IsPut
    BY <2>1 DEF Ordered, Placing, Displacing
  <2>. QED
    BY <2>1, <2>3, <2>4, OrderedSaved DEF Working, ExecPoints
<1>26. CASE Keep
  <2>1. /\ UNCHANGED <<jobst, kind, item>> /\ run'.job = run.job /\ run'.d = run.d /\ run'.todo = run.todo
        /\ run.at = "keep" /\ run'.at \in {"putBack", "displace", "choose", "intent", "commit"}
    BY <1>26, KeepEffect DEF Goes, Others
  <2>. QED
    BY <2>1, OrderedGo DEF Working, ExecPoints, Placing, Displacing
<1>27. CASE Choose
  <2>1. /\ UNCHANGED <<jobst, kind>> /\ run'.job = run.job /\ run'.todo = run.todo /\ Saves(run'.d)
        /\ run.at = "choose" /\ run'.at = "intent"
    BY <1>27, ChooseEffect DEF Others
  <2>2. J \in Jobs /\ (D.ret # None => D.ret[1] = J) /\ (D.disp # None => D.disp[1] = J)
    BY <2>1, WorkFacts DEF Ordered, SameDetail, OwnPaths, Working, ExecPoints
  <2>3. (run'.d.ret # None => run'.d.ret[1] = J) /\ (run'.d.disp # None => run'.d.disp[1] = J)
    BY <1>27, <2>2, ChooseEffect
  <2>4. run'.at \in Placing => IsPut
    BY <2>1 DEF Ordered, Placing, Displacing
  <2>. QED
    BY <2>1, <2>3, <2>4, OrderedSaved DEF Working, ExecPoints
<1>28. CASE Intent
  <2>1. /\ UNCHANGED <<jobst, kind, item>> /\ run'.job = run.job /\ run'.d = run.d /\ run'.todo = run.todo
        /\ run.at = "intent" /\ run'.at = "keepFS"
    BY <1>28, IntentEffect DEF Goes, Others
  <2>. QED
    BY <2>1, OrderedGo DEF Working, ExecPoints, Placing, Displacing
<1>29. CASE KeepFS
  <2>1. /\ UNCHANGED <<jobst, kind, item>> /\ run'.job = run.job /\ run'.todo = run.todo /\ run.at = "keepFS"
        /\ run'.at \in {"choose", "commit", "retained"} /\ J' = J
    BY <1>29, KeepFSEffect DEF Others, J
  <2>2. OneUnfinished' /\ OwnPaths'
    BY <2>1, OrderedOn
  <2>3. SameDetail
    BY <2>1 DEF Ordered, Working, ExecPoints
  <2>4. CASE run'.at = "choose"
    <3>1. /\ run'.d.ret = None /\ run'.d.temp = D.temp /\ run'.d.done = D.done /\ run'.d.tv = D.tv
          /\ run'.d.disp = D.disp /\ run'.d.dv = D.dv
      BY <1>29, <2>4, KeepFSEffect
    <3>2. SameDetail' /\ D'.done = item'[J].d.done
      BY <2>1, <2>3, <3>1 DEF SameDetail, Pending, D, Ordered
    <3>. QED
      BY <2>1, <2>2, <2>4, <3>2 DEF Ordered, Placing, Displacing
  <2>5. CASE run'.at \in {"commit", "retained"}
    <3>1. run'.d = run.d /\ (run'.at = "commit" => IsPut) /\ D.ret # None
      BY <1>29, <2>5, KeepFSEffect, Shapes DEF IsPut
    <3>2. SameDetail' /\ D' = D /\ (IsPut' <=> IsPut)
      BY <2>1, <2>3, <3>1 DEF SameDetail, Pending, D, IsPut
    <3>3. run'.at = "commit" => D.ret = item[J].d.ret /\ D.done = item[J].d.done
      BY <2>1, <2>3, <3>1 DEF SameDetail, Ordered
    <3>. QED
      BY <2>1, <2>2, <2>5, <3>1, <3>2, <3>3 DEF Ordered, Placing, Displacing
  <2>. QED
    BY <2>1, <2>4, <2>5
<1>30. CASE Commit
  <2>1. /\ UNCHANGED <<jobst, kind, item>> /\ run'.job = run.job /\ run'.d = run.d /\ run'.todo = run.todo
        /\ run.at = "commit" /\ run'.at \in {"putBack", "record"}
    BY <1>30, CommitEffect DEF Goes, Others
  <2>. QED
    BY <2>1, OrderedGo DEF Working, ExecPoints, Placing, Displacing
<1>31. CASE Record
  <2>1. /\ UNCHANGED <<jobst, kind, item>> /\ run'.job = run.job /\ run'.d = run.d /\ run'.todo = run.todo
        /\ run.at = "record" /\ run'.at = "finish"
    BY <1>31, RecordEffect DEF Goes, Others
  <2>. QED
    BY <2>1, OrderedGo DEF Working, ExecPoints, Placing, Displacing
<1>32. CASE Finish \/ ItemFailed
  <2>1. /\ UNCHANGED <<jobst, kind>> /\ run.at \in Working /\ run'.at = "ready" /\ run'.job = run.job
        /\ run'.todo = run.todo /\ item'[J].d = item[J].d /\ \A i \in Jobs \ {J} : item'[i] = item[i]
    BY <1>32, FinishEffect, ItemFailedEffect DEF Others, Goes, Working, ExecPoints
  <2>2. J \in Jobs /\ item[J] # None /\ run.at # "idle"
    BY <2>1, WorkFacts DEF Working, ExecPoints
  <2>3. OneUnfinished'
    BY <2>1, <2>2, UnfinishedOn
  <2>4. OwnPaths'
    BY <2>1, <2>2 DEF Ordered, OwnPaths
  <2>. QED
    BY <2>1, <2>3, <2>4, OrderedIdle DEF Working, ExecPoints
<1>33. CASE Retain
  <2>1. /\ UNCHANGED <<jobst, kind, item>> /\ run'.job = run.job /\ run'.d = run.d /\ run'.todo = run.todo
        /\ run.at = "retain" /\ run'.at \in {"finish", "retained", "choose", "intent"}
    BY <1>33, RetainEffect DEF Goes, Others
  <2>. QED
    BY <2>1, OrderedGo DEF Working, ExecPoints, Placing, Displacing
<1>34. CASE Retained
  <2>1. /\ UNCHANGED <<jobst, kind, item>> /\ run'.job = run.job /\ run'.d = run.d /\ run'.todo = run.todo
        /\ run.at = "retained" /\ run'.at = "finish"
    BY <1>34, RetainedEffect DEF Goes, Others
  <2>. QED
    BY <2>1, OrderedGo DEF Working, ExecPoints, Placing, Displacing
<1>35. CASE \E how \in {"fail", "fatal", "cancel"} : Fail(how)
  <2>1. /\ UNCHANGED <<jobst, kind, item>> /\ run'.job = run.job /\ run'.d = run.d /\ run'.todo = run.todo
        /\ run.at \in ExecPoints /\ run'.at = "putBack"
    BY <1>35, FailEffect DEF Goes, Others
  <2>. QED
    BY <2>1, OrderedGo DEF Working, ExecPoints, Placing, Displacing
<1>36. CASE PutBackNothing \/ PutBackFails
  <2>1. /\ UNCHANGED <<jobst, kind, item>> /\ run'.job = run.job /\ run'.d = run.d /\ run'.todo = run.todo
        /\ run.at \in {"putBack", "putBackDB"} /\ run'.at = "clean"
    BY <1>36, PutBackGoes DEF Goes, Others
  <2>. QED
    BY <2>1, OrderedGo DEF Working, ExecPoints, Placing, Displacing
<1>37. CASE PutBack \/ PutBackRecord
  <2>1. HasRec /\ run.at \in {"putBack", "putBackDB"}
    BY <1>37 DEF PutBack, PutBackRecord, OwnIntent, AtPoints
  <2>2. (Goes("putBackDB") \/ Goes("clean")) /\ UNCHANGED <<item, jobst, kind>>
    BY <1>37, <2>1, SettleFSEffect, SettleDBEffect DEF PutBack, PutBackRecord, Others
  <2>. QED
    BY <2>1, <2>2, OrderedGo DEF Goes, Working, ExecPoints, Placing, Displacing
<1>38. CASE Salvage \/ Cancelled
    BY <1>38, StopsEffect, UnfinishedEnds
<1>39. CASE UNCHANGED vars
    BY <1>39 DEF vars, base, Ordered, OneUnfinished, OwnPaths, SameDetail, Pending, IsPut, J, D
<1>. QED
    BY <1>1, <1>2, <1>3, <1>4, <1>5, <1>6, <1>7, <1>8, <1>9, <1>10, <1>11, <1>12, <1>13, <1>14,
       <1>15, <1>16, <1>17, <1>18, <1>19, <1>20, <1>21, <1>22, <1>23, <1>24, <1>25, <1>26,
       <1>27, <1>28, <1>29, <1>30, <1>31, <1>32, <1>33, <1>34, <1>35, <1>36, <1>37, <1>38, <1>39
       DEF Next, Reconcile, Sync, Place, Stop, Other

-----------------------------------------------------------------------------
(* Items that are done.                                                    *)

\* The contents are different.
LEMMA Distinct == Foreign # Partial /\ Partial \notin Versions /\ Foreign \notin Versions
<1>1. MaxVersion \in Nat
    BY SyncAssumption
<1>. QED
    BY <1>1 DEF Foreign, Partial, Versions

\* While the job works on its item, no unfinished job's item is done.
LEMMA DoneAtWork ==
    ASSUME TypeOK, AtPoints, Ordered, run.at \in Working, item'[J].st # "done",
           \A i \in Jobs \ {J} : jobst'[i] = jobst[i] /\ item'[i] = item[i]
    PROVE  DoneRecorded'
<1>1. \A j \in Jobs : jobst[j] # "over" /\ j # J => item[j] = None
    BY OnlyOne DEF Working, ExecPoints
<1>. QED
    BY <1>1 DEF DoneRecorded

\* A step that keeps the record's version keeps what is recorded.
LEMMA DoneKept ==
    ASSUME DoneRecorded, HasRec /\ Steady => rec' # None /\ rec'.v = rec.v /\ Steady',
           \A j \in Jobs : item'[j] # None /\ item'[j].st = "done" /\ jobst'[j] # "over" =>
               /\ item[j] # None /\ item[j].st = "done" /\ jobst[j] # "over"
               /\ item'[j].act = item[j].act /\ item'[j].v = item[j].v
    PROVE  DoneRecorded'
BY DEF DoneRecorded, Recorded, HasRec

\* The temp files stay, but for the running job's.
LEMMA TempsKept ==
    ASSUME TempsKnown, NEW k \in Jobs,
           temp' = temp \/ (temp'[k] = None /\ \A i \in Jobs \ {k} : temp'[i] = temp[i]),
           \A i \in Jobs : item'[i] = item[i] \/ (item'[i] # None /\ item'[i].d = item[i].d) \/ item[i] = None
    PROVE  TempsKnown'
BY DEF TempsKnown

\* The items and the source stay as they were.
LEMMA NewKept ==
    ASSUME NewEnough, ver' = ver, 
           \A i \in Jobs : item'[i] = item[i] \/ (/\ item[i] # None /\ item'[i].d = item[i].d
                                                  /\ item'[i].act = item[i].act /\ item'[i].v = item[i].v)
    PROVE  NewEnough'
BY DEF NewEnough

\* The item is worked on, and nothing but its temp file goes.
LEMMA FactsOn ==
    ASSUME TypeOK, AtPoints, Ordered, CopyFacts, run.at \in Working,
           UNCHANGED <<src, ver, live, ret, item>>, \A i \in Jobs \ {J} : jobst'[i] = jobst[i],
           temp' = temp \/ (temp'[J] = None /\ \A i \in Jobs \ {J} : temp'[i] = temp[i])
    PROVE  CopyFacts'
<1>1. J \in Jobs /\ item[J].st # "done"
    BY WorkFacts DEF Ordered, SameDetail, Pending
<1>2. DoneRecorded'
    BY <1>1, DoneAtWork
<1>3. TempsKnown'
    BY <1>1, TempsKept DEF CopyFacts
<1>4. NewEnough'
    BY NewKept DEF CopyFacts
<1>. QED
    BY <1>2, <1>3, <1>4 DEF CopyFacts, Whole

\* A file moves at the destination.
LEMMA FactsMoved ==
    ASSUME TypeOK, AtPoints, Ordered, CopyFacts, run.at \in Working,
           UNCHANGED <<src, ver, temp, item, jobst>>, live' # None => live'.c # Partial,
           \A s \in Slots : ret'[s] # None => ret'[s].c # Partial
    PROVE  CopyFacts'
<1>1. J \in Jobs /\ item[J].st # "done"
    BY WorkFacts DEF Ordered, SameDetail, Pending
<1>2. DoneRecorded'
    BY <1>1, DoneAtWork
<1>3. TempsKnown'
    BY <1>1, TempsKept DEF CopyFacts
<1>4. NewEnough'
    BY NewKept DEF CopyFacts
<1>. QED
    BY <1>2, <1>3, <1>4 DEF CopyFacts, Whole

\* A detail is saved that says nothing wrong of the temp file.
LEMMA FactsSaved ==
    ASSUME TypeOK, AtPoints, Ordered, CopyFacts, run.at \in Working,
           UNCHANGED <<src, ver, live, ret, temp, jobst>>, NEW e, Saves(e),
           temp[J] # None => e.temp /\ (e.done => temp[J].c = e.tv),
           e.done => e.tv \in Versions /\ item[J].v <= e.tv
    PROVE  CopyFacts'
<1>1. J \in Jobs /\ item[J] # None /\ item[J].st # "done"
    BY WorkFacts DEF Ordered, SameDetail, Pending
<1>2. DoneRecorded'
    BY <1>1, DoneAtWork DEF Saves
<1>3. TempsKnown'
    BY <1>1 DEF CopyFacts, TempsKnown, Saves
<1>4. NewEnough'
    BY <1>1 DEF CopyFacts, NewEnough, Saves
<1>. QED
    BY <1>2, <1>3, <1>4 DEF CopyFacts, Whole

\* What the detail in memory says of the temp file.
LEMMA DetailKnown ==
    ASSUME TypeOK, AtPoints, Ordered, Copying, run.at \in Working
    PROVE  /\ J \in Jobs /\ item[J] # None
           /\ temp[J] # None => D.temp /\ (D.done => temp[J].c = D.tv)
           /\ D.done => D.tv \in Versions /\ item[J].v <= D.tv
<1>1. J \in Jobs /\ item[J] # None /\ SameDetail
    BY WorkFacts DEF Ordered
<1>. QED
    BY <1>1 DEF SameDetail, Copying, CopyFacts, CopyPoints, TempsKnown, NewEnough

\* A job that is not at its item knows nothing of it.
LEMMA PointsIdle ==
    ASSUME run'.at \notin Working
    PROVE  CopyPoints'
BY DEF CopyPoints, Working, ExecPoints, Displacing

\* A job that is not at its item changes nothing of the items.
LEMMA FactsIdle ==
    ASSUME CopyFacts, UNCHANGED <<src, ver, live, ret, temp, item>>, run'.at \notin Working,
           HasRec /\ Steady => rec' # None /\ rec'.v = rec.v /\ Steady',
           \A j \in Jobs : jobst'[j] # "over" => jobst[j] # "over"
    PROVE  Copying'
<1>1. DoneRecorded'
    BY DoneKept DEF CopyFacts
<1>2. TempsKnown' /\ NewEnough' /\ Whole'
    BY DEF CopyFacts, TempsKnown, NewEnough, Whole
<1>. QED
    BY <1>1, <1>2, PointsIdle DEF Copying, CopyFacts

\* The item is stopped.
LEMMA PointsStop ==
    ASSUME run'.at \in {"putBack", "putBackDB", "clean", "begin", "put", "retain"},
           temp'[J'] # None => run'.d.temp
    PROVE  CopyPoints'
BY DEF CopyPoints, Displacing, D

\* Every step keeps what the items that are done say.
LEMMA CopyingKept ==
    ASSUME TypeOK, TypeOK', AtPoints, AtPoints', NewVersionExists, world.inOrder, Ordered, Ordered', Copying,
           [Next]_vars
    PROVE  Copying'
<1>. USE DEF Copying
<1>1. CASE SourceChanges \/ SourceVanishes
  <2>1. /\ UNCHANGED <<live, ret, temp, rec, item, jobst, run>>
        /\ (ver' = ver + 1 /\ src' = ver') \/ (ver' = ver /\ src' = 0)
    BY <1>1, SourceEffect
  <2>2. ver \in Nat /\ ver' \in Nat /\ ver <= ver' /\ run.sv \in Nat
    <3>1. ver \in Nat /\ run.sv \in Nat
      BY Facts, RunFields DEF TypeOK
    <3>. QED
      BY <2>1, <3>1
  <2>3. Whole'
    BY <2>1, <2>2 DEF Whole, CopyFacts
  <2>4. TempsKnown'
    BY <2>1 DEF TempsKnown, CopyFacts
  <2>5. NewEnough'
    <3>1. \A i \in Jobs : item[i] # None => item[i].v \in Nat
      BY Facts, Shapes DEF ItemType
    <3>. QED
      BY <2>1, <2>2, <3>1 DEF NewEnough, CopyFacts
  <2>6. DoneRecorded'
    BY <2>1 DEF DoneRecorded, Recorded, Steady, HasRec, At, CopyFacts
  <2>7. CopyPoints'
    BY <2>1, <2>2 DEF CopyPoints, Recorded, Steady, HasRec, At, IsPut, J, D
  <2>. QED
    BY <2>3, <2>4, <2>5, <2>6, <2>7 DEF CopyFacts
<1>2. CASE Meddle
  <2>1. /\ UNCHANGED <<src, ver, ret, temp, rec, item, jobst, run>>
        /\ live' = None \/ live'.c = Foreign
    BY <1>2, MeddleEffect
  <2>2. Whole'
    BY <2>1, Distinct DEF Whole, CopyFacts
  <2>3. TempsKnown' /\ NewEnough'
    BY <2>1 DEF TempsKnown, NewEnough, CopyFacts
  <2>4. Steady'
    BY <2>1 DEF Steady
  <2>5. DoneRecorded'
    BY <2>1, <2>4 DEF DoneRecorded, Recorded, HasRec, CopyFacts
  <2>6. CopyPoints'
    BY <2>1, <2>4 DEF CopyPoints, Recorded, HasRec, IsPut, J, D
  <2>. QED
    BY <2>2, <2>3, <2>5, <2>6 DEF CopyFacts
<1>3. CASE \E j \in Jobs, k \in {"sync", "verify", "retention"} : Start(j, k)
  <2>1. PICK j \in Jobs, k \in {"sync", "verify", "retention"} : Start(j, k)
    BY <1>3
  <2>2. /\ UNCHANGED <<src, ver, live, ret, temp, rec, item>> /\ run'.at = "sweep"
        /\ jobst[j] \in {"new", "queued"} /\ \A i \in Jobs \ {j} : jobst'[i] = jobst[i]
    BY <2>1, StartEffect
  <2>3. Steady => Steady'
    BY <2>2 DEF Steady, HasRec, At
  <2>. QED
    BY <2>2, <2>3, FactsIdle DEF HasRec, Working, ExecPoints
<1>4. CASE Crash
  <2>1. /\ UNCHANGED <<src, ver, live, ret, temp, rec, item>> /\ run'.at = "idle" /\ run.at # "idle"
        /\ \A i \in Jobs \ {J} : jobst'[i] = jobst[i]
    BY <1>4, CrashEffect
  <2>2. jobst[J] = "running"
    BY <2>1, OnlyOne
  <2>3. Steady => Steady'
    BY <2>1 DEF Steady, HasRec, At
  <2>. QED
    BY <2>1, <2>2, <2>3, FactsIdle DEF HasRec, Working, ExecPoints
<1>5. CASE \E i \in Jobs : SweepDisplaced(i) \/ SweepPlaced(i) \/ SweepTemp(i)
  <2>1. PICK i \in Jobs : SweepDisplaced(i) \/ SweepPlaced(i) \/ SweepTemp(i)
    BY <1>5
  <2>2. /\ UNCHANGED <<src, ver, jobst, live, ret, item>> /\ run'.at \in Sweeping /\ item[i] # None
        /\ temp' = temp \/ (temp'[i] = None /\ \A k \in Jobs \ {i} : temp'[k] = temp[k])
        /\ \/ rec' = rec
           \/ /\ FinishedPlaced(i, item[i].d)
              /\ rec'.v = item[i].d.tv /\ rec'.intent = None /\ rec' # None
    BY <2>1, SweepEffect DEF Others
  <2>3. HasRec /\ Steady => rec' # None /\ rec'.v = rec.v /\ Steady'
    <3>1. CASE rec' = rec
      BY <2>2, <3>1 DEF Steady, HasRec, At
    <3>2. CASE /\ FinishedPlaced(i, item[i].d)
               /\ rec'.v = item[i].d.tv /\ rec'.intent = None /\ rec' # None
      <4>1. item[i].d.tv \in Versions /\ live.c = item[i].d.tv /\ At(rec.intent) /\ HasRec /\ live # None
        BY <2>2, <3>2 DEF CopyFacts, NewEnough, FinishedPlaced
      <4>2. item[i].d.tv # Foreign
        BY <4>1, Distinct
      <4>3. ~At(None)'
        BY DEF At
      <4>. QED
        BY <3>2, <4>1, <4>2, <4>3 DEF Steady
    <3>. QED
      BY <2>2, <3>1, <3>2
  <2>4. DoneRecorded'
    BY <2>2, <2>3, DoneKept DEF CopyFacts
  <2>5. TempsKnown'
    BY <2>2, TempsKept DEF CopyFacts
  <2>6. NewEnough' /\ Whole'
    BY <2>2 DEF CopyFacts, NewEnough, Whole
  <2>. QED
    BY <2>2, <2>4, <2>5, <2>6, PointsIdle DEF CopyFacts, Sweeping, Working, ExecPoints
<1>6. CASE SweepEnd \/ SettleNothing
  <2>1. UNCHANGED <<src, ver, live, ret, temp, rec, item, jobst>> /\ run'.at \in {"settle", "ready"}
    BY <1>6, ReconcileGoes DEF Others, Goes
  <2>2. Steady => Steady'
    BY <2>1 DEF Steady, HasRec, At
  <2>. QED
    BY <2>1, <2>2, FactsIdle DEF HasRec, Working, ExecPoints
<1>7. CASE Settle
  <2>1. HasRec /\ run.at = "settle"
    BY <1>7 DEF Settle, Unsettled
  <2>2. /\ Goes("settleDB") /\ UNCHANGED <<src, ver, temp, rec, item, jobst>>
        /\ \/ /\ At(rec.intent) /\ live' = ret[rec.intent] /\ rec.intent \in Slots
              /\ ret'[rec.intent] = None /\ \A s \in Slots : s # rec.intent => ret'[s] = ret[s]
           \/ UNCHANGED <<live, ret>>
    BY <1>7, <2>1, SettleFSEffect DEF Settle
  <2>3. Whole'
    BY <2>2 DEF Whole, CopyFacts, At
  <2>4. HasRec /\ Steady => rec' # None /\ rec'.v = rec.v /\ Steady'
    BY <2>2 DEF Steady, HasRec, At
  <2>5. DoneRecorded'
    BY <2>2, <2>4, DoneKept DEF CopyFacts
  <2>6. TempsKnown' /\ NewEnough'
    BY <2>2 DEF CopyFacts, TempsKnown, NewEnough
  <2>. QED
    BY <2>2, <2>3, <2>5, <2>6, PointsIdle DEF CopyFacts, Goes, Working, ExecPoints
<1>8. CASE SettleRecord
  <2>1. HasRec /\ run.at = "settleDB"
    BY <1>8 DEF SettleRecord, AtPoints
  <2>2. /\ Goes("ready") /\ UNCHANGED <<src, ver, live, ret, temp, item, jobst>>
        /\ rec' # None /\ rec'.intent = None /\ rec'.v = rec.v
    BY <1>8, <2>1, SettleDBEffect DEF SettleRecord, Others
  <2>3. Steady'
    BY <2>2 DEF Steady, At
  <2>. QED
    BY <2>2, <2>3, FactsIdle DEF Goes, Working, ExecPoints
<1>9. CASE ReconcileFails
  <2>1. /\ UNCHANGED <<src, ver, live, ret, temp, rec, item>> /\ run'.at \in {"sweep", "ready", "idle"}
        /\ \A i \in Jobs : jobst'[i] # "over" => jobst[i] # "over"
    BY <1>9, ReconcileFailsEffect
  <2>2. Steady => Steady'
    BY <2>1 DEF Steady, HasRec, At
  <2>. QED
    BY <2>1, <2>2, FactsIdle DEF HasRec, Working, ExecPoints
<1>10. CASE Plan
  <2>1. /\ UNCHANGED <<src, ver, live, ret, temp, rec, jobst, run>> /\ run.at = "ready" /\ J \in Jobs
        /\ item[J] = None /\ item'[J] # None /\ item'[J].st = "pending" /\ item'[J].d = NoDetail
        /\ item'[J].v = src /\ (item'[J].act = "put" => src # 0) /\ \A i \in Jobs \ {J} : item'[i] = item[i]
    BY <1>10, PlanEffect DEF Others
  <2>2. Whole' /\ (Steady => Steady')
    BY <2>1 DEF CopyFacts, Whole, Steady, HasRec, At
  <2>3. DoneRecorded'
    BY <2>1, <2>2, DoneKept DEF CopyFacts, HasRec
  <2>4. TempsKnown'
    BY <2>1 DEF CopyFacts, TempsKnown
  <2>5. ver \in Nat /\ ver \in Versions /\ src \in {0, ver} /\ ~NoDetail.done
    BY Facts DEF TypeOK, CopyFacts, Whole, NoDetail, Versions
  <2>6. NewEnough'
    BY <2>1, <2>5 DEF CopyFacts, NewEnough
  <2>. QED
    BY <2>1, <2>2, <2>3, <2>4, <2>6, PointsIdle DEF CopyFacts, Working, ExecPoints
<1>11. CASE Begin
  <2>1. /\ UNCHANGED <<src, ver, live, ret, temp, rec, item, jobst>> /\ run'.at = "begin" /\ run'.job = run.job
        /\ run'.d = item[J].d /\ J \in Jobs
    BY <1>11, BeginEffect DEF Others
  <2>2. Steady => Steady'
    BY <2>1 DEF Steady, HasRec, At
  <2>3. DoneRecorded'
    BY <2>1, <2>2, DoneKept DEF CopyFacts, HasRec
  <2>4. Whole' /\ TempsKnown' /\ NewEnough'
    BY <2>1 DEF CopyFacts, Whole, TempsKnown, NewEnough
  <2>5. CopyPoints'
    BY <2>1, PointsStop DEF CopyFacts, TempsKnown, J
  <2>. QED
    BY <2>3, <2>4, <2>5 DEF CopyFacts
<1>12. CASE NothingToDo \/ Verify \/ ExpireEnd
  <2>1. /\ UNCHANGED <<src, ver, live, ret, temp, item>> /\ run'.at = "idle"
        /\ \A i \in Jobs : jobst'[i] # "over" => jobst[i] # "over"
        /\ rec' = rec \/ (HasRec /\ rec' # None /\ rec'.v = rec.v /\ rec'.intent = rec.intent)
    BY <1>12, EndsEffect
  <2>2. HasRec /\ Steady => rec' # None /\ rec'.v = rec.v /\ Steady'
    BY <2>1 DEF Steady, HasRec, At
  <2>. QED
    BY <2>1, <2>2, FactsIdle DEF Working, ExecPoints
<1>13. CASE \E r \in rows : ExpireFile(r)
  <2>1. PICK r \in rows : ExpireFile(r)
    BY <1>13
  <2>2. /\ UNCHANGED <<src, ver, live, temp, rec, item, jobst>> /\ run'.at = "expired"
        /\ \A s \in Slots : ret'[s] = None \/ ret'[s] = ret[s]
    BY <2>1, ExpireFileEffect DEF Others
  <2>3. HasRec => rec.intent \in Slots \cup {None}
    BY Shapes DEF RecType
  <2>4. HasRec /\ Steady => rec' # None /\ rec'.v = rec.v /\ Steady'
    BY <2>2, <2>3 DEF Steady, HasRec, At
  <2>5. DoneRecorded'
    BY <2>2, <2>4, DoneKept DEF CopyFacts
  <2>6. Whole' /\ TempsKnown' /\ NewEnough'
    BY <2>2 DEF CopyFacts, Whole, TempsKnown, NewEnough
  <2>. QED
    BY <2>2, <2>5, <2>6, PointsIdle DEF CopyFacts, Working, ExecPoints
<1>14. CASE ExpireRow
  <2>1. UNCHANGED <<src, ver, live, ret, temp, rec, item, jobst>> /\ run'.at = "ready"
    BY <1>14, ExpireRowEffect DEF Others
  <2>2. Steady => Steady'
    BY <2>1 DEF Steady, HasRec, At
  <2>. QED
    BY <2>1, <2>2, FactsIdle DEF HasRec, Working, ExecPoints
<1>15. CASE EarlierDisplace
  <2>1. /\ UNCHANGED <<src, ver, live, ret, temp, item, jobst>> /\ run.at = "begin"
        /\ run'.job = run.job /\ run'.d = run.d /\ run'.at = item[J].act
    BY <1>15, EarlierEffect DEF Others, Goes
  <2>2. run.at \in Working
    BY <2>1 DEF Working, ExecPoints
  <2>3. CopyFacts'
    BY <2>1, <2>2, FactsOn
  <2>4. item[J].act \in {"put", "retain"}
    BY <2>2, WorkFacts DEF ItemType
  <2>5. temp'[J'] # None => run'.d.temp
    BY <2>1, <2>2 DEF CopyPoints, J, D
  <2>. QED
    BY <2>1, <2>3, <2>4, <2>5, PointsStop
<1>16. CASE PutResumed
  <2>1. /\ UNCHANGED <<src, ver, live, ret, item, jobst>> /\ temp' = temp /\ run.at = "put"
        /\ run'.job = run.job /\ run'.d = run.d
        /\ run'.at \in {"commit", "record"} /\ D.done
    BY <1>16, PutResumedEffect DEF Others, Goes, HalfDone, RenamedInto, TempComplete
  <2>2. run.at \in Working
    BY <2>1 DEF Working, ExecPoints
  <2>3. CopyFacts'
    BY <2>1, <2>2, FactsOn
  <2>4. J' = J /\ D' = D /\ (temp'[J] # None => D.temp) /\ (IsPut' <=> IsPut)
    BY <2>1, <2>2 DEF CopyPoints, J, D, IsPut
  <2>. QED
    BY <2>1, <2>3, <2>4 DEF CopyPoints, Displacing
<1>17. CASE PutAnew
  <2>1. /\ UNCHANGED <<src, ver, live, ret, rec, item, jobst>> /\ run.at = "put" /\ run'.job = run.job
        /\ temp' = temp \/ (temp'[J] = None /\ \A i \in Jobs \ {J} : temp'[i] = temp[i])
    BY <1>17, PutAnewEffect DEF Others, Goes
  <2>2. run.at \in Working
    BY <2>1 DEF Working, ExecPoints
  <2>3. CopyFacts'
    BY <2>1, <2>2, FactsOn
  <2>4. CASE Goes("putBack") /\ temp' = temp
    <3>1. temp'[J'] # None => run'.d.temp
      BY <2>1, <2>2, <2>4 DEF CopyPoints, Goes, J, D
    <3>. QED
      BY <2>3, <2>4, <3>1, PointsStop DEF Goes
  <2>5. CASE /\ run'.at = IF AlreadyDone THEN "finish" ELSE IF ~HasRec /\ live # None THEN "way" ELSE "write"
             /\ src # 0 /\ (D.temp => temp'[J] = None) /\ (~D.temp => temp' = temp)
    <3>1. temp'[J'] = None /\ run'.at \in {"finish", "way", "write"}
      BY <2>1, <2>2, <2>5 DEF CopyPoints, J
    <3>2. AlreadyDone => Recorded(J)'
      <4>1. J \in Jobs /\ item[J] # None
        BY <2>2, WorkFacts
      <4>2. AlreadyDone => HasRec /\ item[J].v <= rec.v /\ live.c = rec.v
        BY <2>5, <4>1 DEF AlreadyDone, CopyFacts, NewEnough, Whole
      <4>. QED
        BY <2>1, <4>2 DEF Recorded, Steady, HasRec, At, J
    <3>. QED
      BY <2>3, <2>5, <3>1, <3>2 DEF CopyPoints, Displacing, Recorded, J
  <2>. QED
    BY <1>17, <2>4, <2>5, PutAnewEffect
<1>18. CASE Adopt
  <2>1. /\ UNCHANGED <<src, ver, live, ret, item, jobst>> /\ temp' = temp /\ run.at = "way"
        /\ run'.job = run.job /\ run'.d = run.d
        /\ run'.at = "finish" /\ live # None /\ live.c = src /\ rec' # None /\ rec'.v = src /\ rec'.intent = None
    BY <1>18, AdoptEffect DEF Others, Goes
  <2>2. run.at \in Working
    BY <2>1 DEF Working, ExecPoints
  <2>3. CopyFacts'
    BY <2>1, <2>2, FactsOn
  <2>4. J' = J /\ D' = D /\ (temp'[J] # None => D.temp) /\ (IsPut' <=> IsPut)
    BY <2>1, <2>2 DEF CopyPoints, J, D, IsPut
  <2>5. J \in Jobs /\ item[J] # None
    BY <2>2, WorkFacts
  <2>6. item[J].v <= src
    BY <2>1, <2>5 DEF CopyFacts, NewEnough, Whole, Partial
  <2>7. Recorded(J)'
    BY <2>1, <2>4, <2>6 DEF Recorded, Steady, HasRec, At
  <2>. QED
    BY <2>1, <2>3, <2>4, <2>7 DEF CopyPoints, Displacing, Recorded
<1>19. CASE InTheWay
  <2>1. /\ UNCHANGED <<src, ver, live, ret, item, jobst>> /\ temp' = temp /\ run.at = "way"
        /\ run'.job = run.job /\ run'.d = run.d
        /\ run'.at = "displace" /\ run'.next = "write"
    BY <1>19, InTheWayEffect DEF Others, Goes
  <2>2. run.at \in Working
    BY <2>1 DEF Working, ExecPoints
  <2>3. CopyFacts'
    BY <2>1, <2>2, FactsOn
  <2>4. J' = J /\ D' = D /\ (temp'[J] # None => D.temp) /\ (IsPut' <=> IsPut)
    BY <2>1, <2>2 DEF CopyPoints, J, D, IsPut
  <2>. QED
    BY <2>1, <2>3, <2>4 DEF CopyPoints, Displacing
<1>20. CASE Displace
  <2>1. /\ UNCHANGED <<src, ver, live, ret, temp, jobst>> /\ run.at = "displace" /\ run'.job = run.job
        /\ Saves(run'.d) /\ run'.at = "displaceFS" /\ run'.next = run.next
        /\ run'.d.temp = D.temp /\ run'.d.done = D.done /\ run'.d.tv = D.tv
    BY <1>20, DisplaceEffect DEF Others
  <2>2. run.at \in Working
    BY <2>1 DEF Working, ExecPoints
  <2>3. /\ temp[J] # None => run'.d.temp /\ (run'.d.done => temp[J].c = run'.d.tv)
        /\ run'.d.done => run'.d.tv \in Versions /\ item[J].v <= run'.d.tv
    BY <2>1, <2>2, DetailKnown
  <2>4. CopyFacts'
    BY <2>1, <2>2, <2>3, FactsSaved
  <2>5. J' = J /\ D' = run'.d /\ (IsPut' <=> IsPut) /\ item'[J].v = item[J].v /\ item'[J].d = run'.d
    BY <2>1 DEF J, D, IsPut, Saves
  <2>. QED
    BY <2>1, <2>3, <2>4, <2>5 DEF CopyPoints, Displacing
<1>21. CASE DisplaceFS
  <2>1. /\ UNCHANGED <<src, ver, temp, item, jobst>> /\ run.at = "displaceFS" /\ Goes("displaced")
        /\ live # None /\ live' = None /\ ret'[D.disp] = live
        /\ \A s \in Slots : s # D.disp => ret'[s] = ret[s]
    BY <1>21, DisplaceFSEffect DEF Others
  <2>2. run.at \in Working
    BY <2>1 DEF Working, ExecPoints
  <2>3. CopyFacts'
    BY <2>1, <2>2, FactsMoved DEF CopyFacts, Whole
  <2>4. J' = J /\ D' = D /\ (temp'[J] # None => D.temp)
    BY <2>1, <2>2 DEF CopyPoints, J, D, Goes
  <2>. QED
    BY <2>1, <2>3, <2>4 DEF CopyPoints, Displacing, Goes
<1>22. CASE Displaced
  <2>1. /\ UNCHANGED <<src, ver, live, ret, item, jobst>> /\ temp' = temp /\ run.at = "displaced"
        /\ run'.job = run.job /\ run'.d = run.d
        /\ run'.at = run.next /\ run.next \in {"write", "commit"}
    BY <1>22, DisplacedDone DEF Others, Goes
  <2>2. run.at \in Working
    BY <2>1 DEF Working, ExecPoints
  <2>3. CopyFacts'
    BY <2>1, <2>2, FactsOn
  <2>4. J' = J /\ D' = D /\ (temp'[J] # None => D.temp) /\ (IsPut' <=> IsPut)
    BY <2>1, <2>2 DEF CopyPoints, J, D, IsPut
  <2>. QED
    BY <2>1, <2>3, <2>4 DEF CopyPoints, Displacing
<1>23. CASE NameTemp
  <2>1. /\ UNCHANGED <<src, ver, live, ret, temp, jobst>> /\ run.at = "write" /\ run'.job = run.job
        /\ Saves(run'.d) /\ run'.at = "copy" /\ run'.d.temp /\ ~run'.d.done
    BY <1>23, NameTempEffect DEF Others
  <2>2. run.at \in Working
    BY <2>1 DEF Working, ExecPoints
  <2>3. /\ temp[J] # None => run'.d.temp /\ (run'.d.done => temp[J].c = run'.d.tv)
        /\ run'.d.done => run'.d.tv \in Versions /\ item[J].v <= run'.d.tv
    BY <2>1, <2>2, DetailKnown
  <2>4. CopyFacts'
    BY <2>1, <2>2, <2>3, FactsSaved
  <2>5. J' = J /\ D' = run'.d /\ (IsPut' <=> IsPut) /\ item'[J].v = item[J].v /\ item'[J].d = run'.d
    BY <2>1 DEF J, D, IsPut, Saves
  <2>. QED
    BY <2>1, <2>3, <2>4, <2>5 DEF CopyPoints, Displacing
<1>24. CASE OpenTemp
  <2>1. UNCHANGED <<src, ver, live, ret, item, jobst>> /\ run.at = "copy" /\ run'.job = run.job /\ run'.d = run.d
    BY <1>24, OpenTempEffect DEF Others, Goes
  <2>2. run.at \in Working /\ J' = J /\ D' = D
    BY <2>1 DEF Working, ExecPoints, J, D
  <2>3. J \in Jobs /\ item[J] # None /\ D.temp /\ item[J].d.temp /\ ~D.done /\ ~item[J].d.done /\ item[J].st # "done"
    BY <2>1, <2>2, WorkFacts DEF CopyPoints, Ordered, SameDetail, Pending
  <2>4. CASE Goes("putBack") /\ temp' = temp
    <3>1. CopyFacts'
      BY <2>1, <2>2, <2>4, FactsOn
    <3>. QED
      BY <2>1, <2>3, <2>4, <3>1, PointsStop DEF Goes, D
  <2>5. CASE /\ run'.at = "copying" /\ run'.sv = src /\ src # 0 /\ temp'[J] # None /\ temp'[J].n = J
             /\ \A i \in Jobs \ {J} : temp'[i] = temp[i]
    <3>1. TempsKnown'
      BY <2>1, <2>3, <2>5 DEF CopyFacts, TempsKnown
    <3>2. NewEnough'
      BY <2>1, NewKept DEF CopyFacts
    <3>3. DoneRecorded'
      BY <2>1, <2>2, <2>3, DoneAtWork
    <3>4. src \in Versions /\ item[J].v <= src /\ src <= ver
      BY <2>3, <2>5 DEF CopyFacts, Whole, NewEnough, TypeOK, Versions
    <3>5. CopyPoints'
      BY <2>1, <2>2, <2>3, <2>5, <3>4 DEF CopyPoints, Displacing
    <3>. QED
      BY <2>1, <3>1, <3>2, <3>3, <3>5 DEF CopyFacts, Whole
  <2>. QED
    BY <1>24, <2>4, <2>5, OpenTempEffect
<1>25. CASE FillTemp
  <2>1. /\ UNCHANGED <<src, ver, live, ret, item, jobst>> /\ run.at = "copying" /\ run'.job = run.job /\ run'.d = run.d
        /\ run'.sv = run.sv /\ \A i \in Jobs \ {J} : temp'[i] = temp[i]
    BY <1>25, FillTempEffect DEF Others, Goes
  <2>2. run.at \in Working /\ J' = J /\ D' = D
    BY <2>1 DEF Working, ExecPoints, J, D
  <2>3. J \in Jobs /\ item[J] # None /\ ~D.done /\ ~item[J].d.done /\ item[J].st # "done" /\ temp[J] # None /\ D.temp
    BY <2>1, <2>2, WorkFacts DEF CopyPoints, Ordered, SameDetail, Pending, NewVersionExists
  <2>4. CASE Goes("putBack") /\ temp'[J] = None
    <3>1. CopyFacts'
      BY <2>1, <2>2, <2>4, FactsOn
    <3>. QED
      BY <2>1, <2>2, <2>4, <3>1, PointsStop DEF Goes
  <2>5. CASE Goes("copied") /\ temp'[J] # None /\ temp'[J].c = run.sv /\ temp'[J].n = temp[J].n
    <3>1. TempsKnown'
      BY <2>1, <2>3, <2>5 DEF CopyFacts, TempsKnown
    <3>2. NewEnough'
      BY <2>1, NewKept DEF CopyFacts
    <3>3. DoneRecorded'
      BY <2>1, <2>2, <2>3, DoneAtWork
    <3>5. CopyPoints'
      BY <2>1, <2>2, <2>3, <2>5 DEF CopyPoints, Displacing, Goes
    <3>. QED
      BY <2>1, <3>1, <3>2, <3>3, <3>5 DEF CopyFacts, Whole
  <2>. QED
    BY <1>25, <2>4, <2>5, FillTempEffect
<1>26. CASE TempDone
  <2>1. /\ UNCHANGED <<src, ver, live, ret, temp, jobst>> /\ run.at = "copied" /\ run'.job = run.job
        /\ Saves(run'.d) /\ run'.at = "keep" /\ run'.d.done /\ run'.d.temp = D.temp /\ run'.d.tv = run.sv
    BY <1>26, TempDoneEffect DEF Others
  <2>2. run.at \in Working
    BY <2>1 DEF Working, ExecPoints
  <2>3. /\ temp[J] # None => run'.d.temp /\ (run'.d.done => temp[J].c = run'.d.tv)
        /\ run'.d.done => run'.d.tv \in Versions /\ item[J].v <= run'.d.tv
    BY <2>1, <2>2, DetailKnown DEF CopyPoints
  <2>4. CopyFacts'
    BY <2>1, <2>2, <2>3, FactsSaved
  <2>5. J' = J /\ D' = run'.d /\ (IsPut' <=> IsPut) /\ item'[J].v = item[J].v /\ item'[J].d = run'.d
    BY <2>1 DEF J, D, IsPut, Saves
  <2>. QED
    BY <2>1, <2>3, <2>4, <2>5 DEF CopyPoints, Displacing
<1>27. CASE Keep
  <2>1. /\ UNCHANGED <<src, ver, live, ret, item, jobst>> /\ temp' = temp /\ run.at = "keep"
        /\ run'.job = run.job /\ run'.d = run.d
        /\ run'.at \in {"putBack", "displace", "choose", "intent", "commit"}
    BY <1>27, KeepEffect DEF Others, Goes
  <2>2. run.at \in Working
    BY <2>1 DEF Working, ExecPoints
  <2>3. CopyFacts'
    BY <2>1, <2>2, FactsOn
  <2>4. J' = J /\ D' = D /\ (temp'[J] # None => D.temp) /\ (IsPut' <=> IsPut)
    BY <2>1, <2>2 DEF CopyPoints, J, D, IsPut
  <2>. QED
    BY <2>1, <2>3, <2>4 DEF CopyPoints, Displacing
<1>28. CASE Choose
  <2>1. /\ UNCHANGED <<src, ver, live, ret, temp, jobst>> /\ run.at = "choose" /\ run'.job = run.job
        /\ Saves(run'.d) /\ run'.at = "intent"
        /\ run'.d.temp = D.temp /\ run'.d.done = D.done /\ run'.d.tv = D.tv
    BY <1>28, ChooseEffect DEF Others
  <2>2. run.at \in Working
    BY <2>1 DEF Working, ExecPoints
  <2>3. /\ temp[J] # None => run'.d.temp /\ (run'.d.done => temp[J].c = run'.d.tv)
        /\ run'.d.done => run'.d.tv \in Versions /\ item[J].v <= run'.d.tv
    BY <2>1, <2>2, DetailKnown
  <2>4. CopyFacts'
    BY <2>1, <2>2, <2>3, FactsSaved
  <2>5. J' = J /\ D' = run'.d /\ (IsPut' <=> IsPut) /\ item'[J].v = item[J].v /\ item'[J].d = run'.d
    BY <2>1 DEF J, D, IsPut, Saves
  <2>. QED
    BY <2>1, <2>3, <2>4, <2>5 DEF CopyPoints, Displacing
<1>29. CASE Intent
  <2>1. /\ UNCHANGED <<src, ver, live, ret, item, jobst>> /\ temp' = temp /\ run.at = "intent"
        /\ run'.job = run.job /\ run'.d = run.d
        /\ run'.at = "keepFS"
    BY <1>29, IntentEffect DEF Others, Goes
  <2>2. run.at \in Working
    BY <2>1 DEF Working, ExecPoints
  <2>3. CopyFacts'
    BY <2>1, <2>2, FactsOn
  <2>4. J' = J /\ D' = D /\ (temp'[J] # None => D.temp) /\ (IsPut' <=> IsPut)
    BY <2>1, <2>2 DEF CopyPoints, J, D, IsPut
  <2>. QED
    BY <2>1, <2>3, <2>4 DEF CopyPoints, Displacing
<1>30. CASE KeepFS
  <2>1. /\ UNCHANGED <<src, ver, temp, item, jobst>> /\ run.at = "keepFS" /\ run'.job = run.job /\ live # None
        /\ run'.d.temp = D.temp /\ run'.d.done = D.done
        /\ run'.at \in {"choose", "commit", "retained"} /\ (run'.at = "commit" => IsPut)
        /\ (run'.at = "retained" => ~IsPut)
        /\ live' \in {live, None} /\ (ret' = ret \/ \A s \in Slots : ret'[s] \in {live, ret[s]})
    BY <1>30, KeepFSEffect DEF Others, IsPut, D
  <2>2. run.at \in Working
    BY <2>1 DEF Working, ExecPoints
  <2>3. CopyFacts'
    BY <2>1, <2>2, FactsMoved DEF CopyFacts, Whole
  <2>4. J' = J /\ D'.done = D.done /\ D'.temp = D.temp /\ (temp'[J] # None => D.temp) /\ (IsPut' <=> IsPut)
    BY <2>1, <2>2 DEF CopyPoints, J, D, IsPut
  <2>. QED
    BY <2>1, <2>3, <2>4 DEF CopyPoints, Displacing
<1>31. CASE Commit
  <2>1. UNCHANGED <<src, ver, ret, item, jobst>> /\ run.at = "commit" /\ run'.job = run.job /\ run'.d = run.d
    BY <1>31, CommitEffect DEF Others, Goes
  <2>2. run.at \in Working /\ J' = J /\ D' = D
    BY <2>1 DEF Working, ExecPoints, J, D
  <2>3. J \in Jobs /\ item[J] # None /\ D.done /\ item[J].st # "done"
    BY <2>1, <2>2, WorkFacts DEF CopyPoints, Ordered, SameDetail, Pending
  <2>4. CASE Goes("putBack") /\ UNCHANGED <<live, temp>>
    <3>1. CopyFacts'
      BY <2>1, <2>2, <2>4, FactsOn
    <3>2. temp'[J'] # None => run'.d.temp
      BY <2>1, <2>2, <2>4 DEF CopyPoints, D
    <3>. QED
      BY <2>1, <2>4, <3>1, <3>2, PointsStop DEF Goes
  <2>5. CASE Goes("record") /\ live' = temp[J] /\ temp[J] # None /\ temp'[J] = None /\ \A i \in Jobs \ {J} : temp'[i] = temp[i]
    <3>1. TempsKnown'
      BY <2>1, <2>3, <2>5, TempsKept DEF CopyFacts
    <3>2. NewEnough'
      BY <2>1, NewKept DEF CopyFacts
    <3>3. DoneRecorded'
      BY <2>1, <2>2, <2>3, DoneAtWork
    <3>4. temp[J].c \in Versions
      BY <2>2, <2>3, <2>5, DetailKnown
    <3>5. Whole'
      BY <2>1, <2>5, <3>4, Distinct DEF CopyFacts, Whole
    <3>6. CopyPoints'
      BY <2>1, <2>2, <2>3, <2>5 DEF CopyPoints, Displacing, Goes
    <3>. QED
      BY <3>1, <3>2, <3>3, <3>5, <3>6 DEF CopyFacts
  <2>. QED
    BY <1>31, <2>4, <2>5, CommitEffect
<1>32. CASE Record
  <2>1. /\ UNCHANGED <<src, ver, live, ret, item, jobst>> /\ temp' = temp /\ run.at = "record"
        /\ run'.job = run.job /\ run'.d = run.d
        /\ run'.at = "finish" /\ rec' # None /\ rec'.v = D.tv /\ rec'.intent = None
    BY <1>32, RecordEffect DEF Others, Goes
  <2>2. run.at \in Working
    BY <2>1 DEF Working, ExecPoints
  <2>3. CopyFacts'
    BY <2>1, <2>2, FactsOn
  <2>4. J' = J /\ D' = D /\ (temp'[J] # None => D.temp) /\ (IsPut' <=> IsPut)
    BY <2>1, <2>2 DEF CopyPoints, J, D, IsPut
  <2>5. item[J].v <= D.tv
    BY <2>1, <2>2, DetailKnown DEF CopyPoints
  <2>6. Recorded(J)'
    BY <2>1, <2>4, <2>5 DEF Recorded, Steady, HasRec, At
  <2>. QED
    BY <2>1, <2>3, <2>4, <2>6 DEF CopyPoints, Displacing, Recorded
<1>33. CASE Finish \/ ItemFailed
  <2>1. /\ UNCHANGED <<src, ver, live, ret, rec, jobst>> /\ run.at \in Working /\ run'.at = "ready"
        /\ item'[J] # None /\ item'[J].d = item[J].d /\ item'[J].act = item[J].act /\ item'[J].v = item[J].v
        /\ temp' = temp \/ (temp'[J] = None /\ \A i \in Jobs \ {J} : temp'[i] = temp[i])
        /\ \A i \in Jobs \ {J} : item'[i] = item[i]
        /\ item'[J].st = "failed" \/ (item'[J].st = "done" /\ run.at = "finish")
    BY <1>33, FinishEffect, ItemFailedEffect DEF Others, Goes, Working, ExecPoints
  <2>2. J \in Jobs /\ item[J] # None
    BY <2>1, WorkFacts
  <2>3. TempsKnown'
    BY <2>1, <2>2, TempsKept DEF CopyFacts
  <2>4. NewEnough'
    BY <2>1, <2>2, NewKept DEF CopyFacts
  <2>5. \A j \in Jobs : jobst[j] # "over" /\ j # J => item[j] = None
    BY <2>1, OnlyOne DEF Working, ExecPoints
  <2>6. DoneRecorded'
    <3>1. item'[J].st = "done" /\ item[J].act = "put" => Recorded(J)
      BY <2>1 DEF CopyPoints, IsPut
    <3>2. Steady => Steady'
      BY <2>1 DEF Steady, HasRec, At
    <3>3. item'[J].st = "done" /\ item'[J].act = "put" => HasRec' /\ item'[J].v <= rec'.v /\ Steady'
      BY <2>1, <3>1, <3>2 DEF Recorded, HasRec
    <3>. QED
      BY <2>1, <2>5, <3>3 DEF DoneRecorded, Recorded
  <2>. QED
    BY <2>1, <2>3, <2>4, <2>6, PointsIdle DEF CopyFacts, Whole, Working, ExecPoints
<1>34. CASE Retain
  <2>1. /\ UNCHANGED <<src, ver, live, ret, item, jobst>> /\ temp' = temp /\ run.at = "retain"
        /\ run'.job = run.job /\ run'.d = run.d
        /\ ~IsPut /\ run'.at \in {"finish", "retained", "choose", "intent"}
    BY <1>34, RetainEffect DEF Others, Goes, IsPut
  <2>2. run.at \in Working
    BY <2>1 DEF Working, ExecPoints
  <2>3. CopyFacts'
    BY <2>1, <2>2, FactsOn
  <2>4. J' = J /\ D' = D /\ (temp'[J] # None => D.temp) /\ (IsPut' <=> IsPut)
    BY <2>1, <2>2 DEF CopyPoints, J, D, IsPut
  <2>. QED
    BY <2>1, <2>3, <2>4 DEF CopyPoints, Displacing
<1>35. CASE Retained
  <2>1. /\ UNCHANGED <<src, ver, live, ret, item, jobst>> /\ temp' = temp /\ run.at = "retained"
        /\ run'.job = run.job /\ run'.d = run.d
        /\ run'.at = "finish"
    BY <1>35, RetainedEffect DEF Others, Goes
  <2>2. run.at \in Working
    BY <2>1 DEF Working, ExecPoints
  <2>3. CopyFacts'
    BY <2>1, <2>2, FactsOn
  <2>4. J' = J /\ D' = D /\ (temp'[J] # None => D.temp) /\ (IsPut' <=> IsPut)
    BY <2>1, <2>2 DEF CopyPoints, J, D, IsPut
  <2>. QED
    BY <2>1, <2>3, <2>4 DEF CopyPoints, Displacing
<1>36. CASE \E how \in {"fail", "fatal", "cancel"} : Fail(how)
  <2>1. /\ UNCHANGED <<src, ver, live, ret, item, jobst>> /\ temp' = temp /\ run.at \in ExecPoints
        /\ run'.job = run.job /\ run'.d = run.d
        /\ run'.at = "putBack"
    BY <1>36, FailEffect DEF Others, Goes
  <2>2. run.at \in Working
    BY <2>1 DEF Working, ExecPoints
  <2>3. CopyFacts'
    BY <2>1, <2>2, FactsOn
  <2>4. J' = J /\ D' = D /\ (temp'[J] # None => D.temp) /\ (IsPut' <=> IsPut)
    BY <2>1, <2>2 DEF CopyPoints, J, D, IsPut
  <2>. QED
    BY <2>1, <2>3, <2>4 DEF CopyPoints, Displacing
<1>37. CASE PutBackNothing \/ PutBackFails
  <2>1. /\ UNCHANGED <<src, ver, live, ret, item, jobst>> /\ temp' = temp /\ run.at \in {"putBack", "putBackDB"}
        /\ run'.job = run.job /\ run'.d = run.d
        /\ run'.at = "clean"
    BY <1>37, PutBackGoes DEF Others, Goes
  <2>2. run.at \in Working
    BY <2>1 DEF Working, ExecPoints
  <2>3. CopyFacts'
    BY <2>1, <2>2, FactsOn
  <2>4. J' = J /\ D' = D /\ (temp'[J] # None => D.temp) /\ (IsPut' <=> IsPut)
    BY <2>1, <2>2 DEF CopyPoints, J, D, IsPut
  <2>. QED
    BY <2>1, <2>3, <2>4 DEF CopyPoints, Displacing
<1>38. CASE PutBack
  <2>1. HasRec /\ run.at = "putBack"
    BY <1>38 DEF PutBack, OwnIntent
  <2>2. /\ Goes("putBackDB") /\ UNCHANGED <<src, ver, temp, rec, item, jobst>>
        /\ \/ /\ At(rec.intent) /\ live' = ret[rec.intent] /\ rec.intent \in Slots
              /\ ret'[rec.intent] = None /\ \A s \in Slots : s # rec.intent => ret'[s] = ret[s]
           \/ UNCHANGED <<live, ret>>
    BY <1>38, <2>1, SettleFSEffect DEF PutBack
  <2>3. run.at \in Working
    BY <2>1 DEF Working, ExecPoints
  <2>4. CopyFacts'
    BY <2>2, <2>3, FactsMoved DEF CopyFacts, Whole, At
  <2>5. temp'[J'] # None => run'.d.temp
    BY <2>2, <2>3 DEF CopyPoints, Goes, J, D
  <2>. QED
    BY <2>2, <2>4, <2>5, PointsStop DEF Goes
<1>39. CASE PutBackRecord
  <2>1. HasRec /\ run.at = "putBackDB"
    BY <1>39 DEF PutBackRecord, AtPoints
  <2>2. Goes("clean") /\ UNCHANGED <<src, ver, live, ret, temp, item, jobst>>
    BY <1>39, <2>1, SettleDBEffect DEF PutBackRecord, Others
  <2>3. run.at \in Working
    BY <2>1 DEF Working, ExecPoints
  <2>4. CopyFacts'
    BY <2>2, <2>3, FactsOn
  <2>5. temp'[J'] # None => run'.d.temp
    BY <2>2, <2>3 DEF CopyPoints, Goes, J, D
  <2>. QED
    BY <2>2, <2>4, <2>5, PointsStop DEF Goes
<1>40. CASE Salvage \/ Cancelled
  <2>1. /\ UNCHANGED <<src, ver, live, ret, item>> /\ run.at \in Working /\ run'.at = "idle"
        /\ \A i \in Jobs \ {J} : jobst'[i] = jobst[i]
        /\ temp' = temp \/ (temp'[J] = None /\ \A i \in Jobs \ {J} : temp'[i] = temp[i])
    BY <1>40, StopsEffect DEF Working, ExecPoints
  <2>. QED
    BY <2>1, FactsOn, PointsIdle DEF Working, ExecPoints
<1>41. CASE UNCHANGED vars
  <2>1. UNCHANGED <<src, ver, live, ret, temp, rec, item, jobst, run>>
    BY <1>41 DEF vars, disk, base
  <2>2. Steady' <=> Steady
    BY <2>1 DEF Steady, HasRec, At
  <2>3. CopyFacts'
    BY <2>1, <2>2 DEF CopyFacts, Whole, TempsKnown, NewEnough, DoneRecorded, Recorded, HasRec
  <2>4. CopyPoints'
    BY <2>1, <2>2 DEF CopyPoints, Recorded, HasRec, IsPut, J, D
  <2>. QED
    BY <2>3, <2>4
<1>. QED
    BY <1>1, <1>2, <1>3, <1>4, <1>5, <1>6, <1>7, <1>8, <1>9, <1>10, <1>11, <1>12, <1>13, <1>14,
       <1>15, <1>16, <1>17, <1>18, <1>19, <1>20, <1>21, <1>22, <1>23, <1>24, <1>25, <1>26,
       <1>27, <1>28, <1>29, <1>30, <1>31, <1>32, <1>33, <1>34, <1>35, <1>36, <1>37, <1>38,
       <1>39, <1>40, <1>41 DEF Next, Reconcile, Sync, Place, Stop, Other

-----------------------------------------------------------------------------
(* The rows of retained files.                                             *)

\* A row that may be recorded.
GoodRow(r) == /\ At(r.slot) /\ ret[r.slot].c = r.v /\ r.h \in {0, r.v} /\ item[r.slot[1]] # None
GoodRows == \A r \in rows' : r \in rows \/ GoodRow(r)

\* The path holds the file that item i retained, if both are there.
Joined(i) == At(item[i].d.ret) /\ live # None => live = ret[item[i].d.ret]

\* The intent is cleared, stays, or becomes the one of the only open item.
IntentMoves ==
    rec' # None =>
        \/ rec'.intent = None
        \/ HasRec /\ rec'.intent = rec.intent
        \/ \E k \in Jobs : /\ Open(k) /\ rec'.intent = item[k].d.ret
                           /\ \A j \in Jobs : jobst[j] # "over" /\ item[j] # None => j = k

\* No file moves, and no item changes what it says of one.
LEMMA RowsOn ==
    ASSUME TypeOK, TypeOK', Ordered, RowFacts, UNCHANGED <<live, ret>>, GoodRows, IntentMoves,
           \A i \in Jobs : /\ item'[i] = None <=> item[i] = None
                           /\ item'[i].d = item[i].d /\ item'[i].act = item[i].act
                           /\ item'[i].st = "pending" => item[i].st = "pending"
                           /\ jobst'[i] # "over" => jobst[i] # "over"
                           /\ temp'[i] \in {None, temp[i]} \/ Joined(i),
           HasRec /\ rec' = None => \A j \in Jobs : Open(j) => item[j].act = "retain"
    PROVE  RowFacts'
<1>1. \A s : At(s)' <=> At(s)
    BY DEF At
<1>2. \A r \in rows' : r.slot \in Slots /\ r.slot[1] \in Jobs
    BY DEF TypeOK, RowType, Slots
<1>3. RowsTruthful'
    BY <1>1 DEF RowFacts, RowsTruthful, GoodRows, GoodRow
<1>4. NothingYet'
  <2>. SUFFICES ASSUME NEW j \in Jobs, item'[j] = None, NEW s \in Slots, s[1] = j
                PROVE  ~At(s)' /\ ~RowAt(s)' /\ ~Intended(s)'
    BY DEF NothingYet
  <2>1. item[j] = None /\ ~At(s) /\ ~RowAt(s) /\ ~Intended(s)
    BY DEF RowFacts, NothingYet
  <2>2. ~RowAt(s)'
    BY <2>1 DEF RowAt, GoodRows, GoodRow
  <2>3. ~Intended(s)'
    <3>1. SUFFICES ASSUME rec' # None, rec'.intent = s PROVE FALSE
      BY DEF Intended, HasRec
    <3>2. s # None
      BY SyncAssumption
    <3>3. ASSUME NEW k \in Jobs, Open(k), s = item[k].d.ret PROVE FALSE
      BY <2>1, <3>2, <3>3 DEF Ordered, OwnPaths, Open, Pending
    <3>. QED
      BY <2>1, <3>1, <3>2, <3>3 DEF IntentMoves, Intended
  <2>. QED
    BY <1>1, <2>1, <2>2, <2>3
<1>5. Described'
    BY <1>1 DEF RowFacts, Described
<1>6. OwnIntents'
  <2>. SUFFICES ASSUME NEW j \in Jobs, jobst'[j] # "over", item'[j] # None,
                       NEW s \in Slots, s[1] = j, rec' # None, rec'.intent = s
                PROVE  item'[j].d.ret = s
    BY DEF OwnIntents, Intended, HasRec
  <2>1. jobst[j] # "over" /\ item[j] # None /\ s # None
    BY SyncAssumption
  <2>2. CASE HasRec /\ rec'.intent = rec.intent
    BY <2>1, <2>2 DEF RowFacts, OwnIntents, Intended
  <2>3. CASE \E k \in Jobs : /\ Open(k) /\ rec'.intent = item[k].d.ret
                             /\ \A i \in Jobs : jobst[i] # "over" /\ item[i] # None => i = k
    BY <2>1, <2>3
  <2>. QED
    BY <2>1, <2>2, <2>3 DEF IntentMoves
<1>7. ASSUME NEW j \in Jobs, Open(j)' PROVE Waiting(j)' /\ Beside(j)' /\ Retaining(j)'
  <2>1. Open(j) /\ Waiting(j) /\ Beside(j) /\ Retaining(j)
    BY <1>7 DEF Open, Pending, RowFacts
  <2>2. Waiting(j)'
    BY <1>1, <2>1 DEF Waiting
  <2>3. Beside(j)'
    BY <1>1, <2>1 DEF Beside, Joined
  <2>4. item'[j].act = "put" /\ item'[j].d.ret # None => HasRec'
    BY <2>1 DEF Retaining, HasRec
  <2>5. HasRec' /\ At(item[j].d.ret) => rec'.intent \in {None, item[j].d.ret}
    BY <2>1 DEF Retaining, IntentMoves, HasRec, Open, Pending
  <2>6. \A r \in rows' : r.slot[1] = j /\ ~At(r.slot) =>
            r.slot = item[j].d.ret /\ r.v = item[j].d.rv /\ r.h \in {0, r.v}
    BY <2>1 DEF Retaining, GoodRows, GoodRow
  <2>. QED
    BY <1>1, <2>2, <2>3, <2>4, <2>5, <2>6 DEF Retaining
<1>. QED
    BY <1>3, <1>4, <1>5, <1>6, <1>7 DEF RowFacts

\* So do steps that change neither the items nor the record.
LEMMA RowsStay ==
    ASSUME TypeOK, TypeOK', Ordered, RowFacts, UNCHANGED <<live, ret, item>>, GoodRows, IntentMoves,
           \A i \in Jobs : jobst'[i] # "over" => jobst[i] # "over",
           \A i \in Jobs : temp'[i] \in {None, temp[i]},
           HasRec => rec' # None
    PROVE  RowFacts'
BY RowsOn

\* No row is new.
LEMMA SameRows ==
    ASSUME rows' \subseteq rows
    PROVE  GoodRows
BY DEF GoodRows

\* A new row describes the file in its path.
LEMMA OneRow ==
    ASSUME NEW s, NEW v, NEW h, NewRow(s, v, h), At(s), ret[s].c = v, h \in {0, v}, item[s[1]] # None
    PROVE  GoodRows
BY DEF GoodRows, GoodRow, NewRow

\* What the open item in memory says of its files.
LEMMA OwnRows ==
    ASSUME TypeOK, AtPoints, Ordered, Describing, run.at \in Working
    PROVE  /\ J \in Jobs /\ item[J] # None /\ Open(J) /\ Waiting(J) /\ Beside(J) /\ Retaining(J)
           /\ D.ret = item[J].d.ret /\ D.disp = item[J].d.disp /\ D.dv = item[J].d.dv
           /\ D.ret # None => D.ret \in Slots /\ D.ret[1] = J /\ D.rv = item[J].d.rv /\ D.rh = item[J].d.rh
           /\ D.disp # None => D.disp \in Slots /\ D.disp[1] = J
           /\ At(D.disp) /\ NewRow(D.disp, D.dv, 0) => GoodRows
           /\ At(D.ret) /\ NewRow(D.ret, D.rv, D.rh) => GoodRows
           /\ \A j \in Jobs : jobst[j] # "over" /\ item[j] # None => j = J
<1>1. J \in Jobs /\ item[J] # None /\ SameDetail /\ item[J].d \in DetailType
    BY WorkFacts DEF Ordered
<1>2. jobst[J] = "running" /\ \A j \in Jobs : jobst[j] # "over" /\ item[j] # None => j = J
    BY OnlyOne DEF Working, ExecPoints
<1>3. Open(J) /\ Waiting(J) /\ Beside(J) /\ Retaining(J)
    BY <1>1, <1>2 DEF Open, SameDetail, Describing, RowFacts
<1>4. D.ret = item[J].d.ret /\ D.disp = item[J].d.disp /\ D.dv = item[J].d.dv
    BY <1>1 DEF SameDetail, Describing, RowPoints
<1>5. D.ret # None => D.ret \in Slots /\ D.ret[1] = J /\ D.rv = item[J].d.rv /\ D.rh = item[J].d.rh
    BY <1>1, <1>4, RunFields DEF SameDetail, Ordered, OwnPaths
<1>6. D.disp # None => D.disp \in Slots /\ D.disp[1] = J
    BY <1>1, <1>4, RunFields DEF Ordered, OwnPaths
<1>7. ASSUME At(D.disp), NewRow(D.disp, D.dv, 0) PROVE GoodRows
  <2>1. D.disp # None /\ ret[D.disp].c = D.dv
    BY <1>3, <1>4, <1>7 DEF Waiting, At
  <2>. QED
    BY <1>1, <1>6, <1>7, <2>1, OneRow
<1>8. ASSUME At(D.ret), NewRow(D.ret, D.rv, D.rh) PROVE GoodRows
  <2>1. D.ret # None /\ ret[D.ret].c = D.rv /\ D.rh \in {0, D.rv}
    BY <1>1, <1>4, <1>5, <1>8 DEF Describing, RowFacts, Described, At
  <2>. QED
    BY <1>1, <1>5, <1>8, <2>1, OneRow
<1>. QED
    BY <1>1, <1>2, <1>3, <1>4, <1>5, <1>6, <1>7, <1>8

\* The job is at a point that knows only its own detail.
LEMMA PointsPlain ==
    ASSUME run'.at \in {"begin", "put", "retain", "finish", "putBack", "clean"}, run'.d.ret = item'[J'].d.ret
    PROVE  RowPoints'
BY DEF RowPoints, Displacing, D

\* A job that is not at its item.
LEMMA RowPointsIdle ==
    ASSUME run'.at \notin Working
    PROVE  RowPoints'
BY DEF RowPoints, Working, ExecPoints, Displacing

\* The running job's item is the only one to look at.
LEMMA RowsMoved ==
    ASSUME TypeOK, AtPoints, Ordered, NEW k \in Jobs, k = J, run.at # "idle", UNCHANGED jobst,
           \A i \in Jobs \ {k} : item'[i] = item[i],
           RowsTruthful', NothingYet', Described', OwnIntents',
           Open(k)' => Waiting(k)' /\ Beside(k)' /\ Retaining(k)'
    PROVE  RowFacts'
<1>1. \A j \in Jobs : jobst[j] # "over" /\ item[j] # None => j = k
    BY OnlyOne
<1>2. \A j \in Jobs : Open(j)' => j = k
    BY <1>1 DEF Open, Pending
<1>. QED
    BY <1>2 DEF RowFacts

\* A detail is saved that is true of the files.
LEMMA RowsSaved ==
    ASSUME TypeOK, TypeOK', AtPoints, Ordered, Describing, run.at \in Working, NEW e, Saves(e), GoodRows,
           UNCHANGED <<live, ret, temp, rec, jobst>>,
           e.ret # None => e.rh \in {0, e.rv}, At(e.ret) => ret[e.ret].c = e.rv,
           e.ret = item[J].d.ret \/ (item[J].d.ret = None /\ ~At(e.ret)),
           e.ret = item[J].d.ret /\ e.ret # None => e.rv = item[J].d.rv,
           e.ret # None /\ ~At(e.ret) => live # None /\ live.c = e.rv,
           e.disp # None /\ ~At(e.disp) /\ e.ret \in {None, e.disp} => live # None /\ live.c = e.dv,
           At(e.disp) => ret[e.disp].c = e.dv,
           At(e.ret) /\ live # None => live = ret[e.ret],
           item[J].act = "put" /\ e.ret # None => HasRec
    PROVE  RowFacts'
<1>1. /\ J \in Jobs /\ item[J] # None /\ Open(J) /\ Waiting(J) /\ Beside(J) /\ Retaining(J)
      /\ \A j \in Jobs : jobst[j] # "over" /\ item[j] # None => j = J
    BY OwnRows
<1>2. \A s : (At(s)' <=> At(s)) /\ (Intended(s)' <=> Intended(s))
    BY DEF At, Intended, HasRec
<1>k. PICK k \in Jobs : k = J
    BY <1>1
<1>3. item'[k] # None /\ item'[k].d = e /\ item'[k].act = item[k].act /\ \A i \in Jobs \ {k} : item'[i] = item[i]
    BY <1>k DEF Saves
<1>4. \A r \in rows' : r.slot \in Slots /\ r.slot[1] \in Jobs
    BY DEF TypeOK, RowType, Slots
<1>5. RowsTruthful'
    BY <1>2 DEF Describing, RowFacts, RowsTruthful, GoodRows, GoodRow
<1>6. NothingYet'
  <2>. SUFFICES ASSUME NEW j \in Jobs, item'[j] = None, NEW s \in Slots, s[1] = j
                PROVE  ~At(s)' /\ ~RowAt(s)' /\ ~Intended(s)'
    BY DEF NothingYet
  <2>1. item[j] = None /\ ~At(s) /\ ~RowAt(s) /\ ~Intended(s)
    BY <1>3 DEF Describing, RowFacts, NothingYet
  <2>2. ~RowAt(s)'
    BY <2>1 DEF RowAt, GoodRows, GoodRow
  <2>. QED
    BY <1>2, <2>1, <2>2
<1>7. Described'
    BY <1>2, <1>3 DEF Describing, RowFacts, Described
<1>8. OwnIntents'
  <2>. SUFFICES ASSUME NEW j \in Jobs, jobst'[j] # "over", item'[j] # None,
                       NEW s \in Slots, s[1] = j, Intended(s)
                PROVE  item'[j].d.ret = s
    BY <1>2 DEF OwnIntents
  <2>1. item[j] # None /\ s # None
    BY <1>1, <1>k, <1>3, SyncAssumption
  <2>2. item[j].d.ret = s
    BY <2>1 DEF Describing, RowFacts, OwnIntents
  <2>. QED
    BY <1>k, <1>3, <2>1, <2>2
<1>9. Waiting(k)'
    BY <1>2, <1>3 DEF Waiting
<1>10. Beside(k)'
    BY <1>1, <1>k, <1>2, <1>3 DEF Beside
<1>11. Retaining(k)'
  <2>1. HasRec /\ At(e.ret) => rec.intent \in {None, e.ret}
    BY <1>1 DEF Retaining, At
  <2>2. \A r \in rows' : r.slot[1] = k /\ ~At(r.slot) => r.slot = e.ret /\ r.v = e.rv /\ r.h \in {0, r.v}
    <3>. SUFFICES ASSUME NEW r \in rows', r.slot[1] = k, ~At(r.slot)
                  PROVE  r.slot = e.ret /\ r.v = e.rv /\ r.h \in {0, r.v}
      OBVIOUS
    <3>1. r.slot = item[k].d.ret /\ r.v = item[k].d.rv /\ r.h \in {0, r.v}
      BY <1>1, <1>k DEF Retaining, GoodRows, GoodRow
    <3>2. item[k].d.ret # None
      BY <1>4, <3>1, SyncAssumption
    <3>. QED
      BY <1>k, <3>1, <3>2
  <2>3. item[k].act = "put" /\ e.ret # None => HasRec
    BY <1>k
  <2>. QED
    BY <1>2, <1>3, <2>1, <2>2, <2>3 DEF Retaining, HasRec
<1>. QED
    BY <1>k, <1>3, <1>5, <1>6, <1>7, <1>8, <1>9, <1>10, <1>11, RowsMoved DEF Working, ExecPoints


\* What the items say of retained files is compared with the files that moved.
LEMMA DescribedMoved ==
    ASSUME TypeOK, Described, item' = item,
           \A i \in Jobs, s \in Slots : item[i] # None /\ s = item[i].d.ret /\ At(s)' => ret'[s].c = item[i].d.rv
    PROVE  Described'
<1>1. \A i \in Jobs : item[i] # None => item[i].d.ret \in Slots \cup {None}
    BY Shapes DEF DetailType
<1>2. ~At(None)'
    BY DEF At
<1>. QED
    BY <1>1, <1>2 DEF Described

\* The item displaces the file at the path.
LEMMA RowsDisplaceFS ==
    ASSUME TypeOK, TypeOK', AtPoints, Ordered, Describing, DisplaceFS
    PROVE  RowFacts'
<1>1. /\ UNCHANGED <<temp, rec, rows, item, jobst>> /\ run.at = "displaceFS"
      /\ D.disp \in Slots /\ ~At(D.disp) /\ live # None /\ live' = None /\ ret'[D.disp] = live
      /\ \A s \in Slots : s # D.disp => ret'[s] = ret[s]
    BY DisplaceFSEffect DEF Others
<1>2. /\ J \in Jobs /\ item[J] # None /\ Waiting(J) /\ Retaining(J) /\ D.ret = item[J].d.ret /\ D.disp = item[J].d.disp
      /\ D.disp # None /\ D.disp[1] = J /\ D.ret = None
    BY <1>1, OwnRows, SyncAssumption DEF Working, ExecPoints, Describing, RowPoints, Displacing
<1>k. PICK k \in Jobs : k = J
    BY <1>2
<1>s. PICK t \in Slots : t = D.disp
    BY <1>1
<1>3. \A s \in Slots \cup {None} : s # t => (At(s)' => At(s)) /\ (At(s) /\ s \in Slots => At(s)' /\ ret'[s] = ret[s])
    BY <1>1, <1>s DEF At, TypeOK
<1>4. \A r \in rows : r.slot \in Slots
    BY DEF TypeOK, RowType
<1>5. \A r \in rows : r.slot # t
  <2>1. SUFFICES ASSUME NEW r \in rows, r.slot = t PROVE FALSE
    OBVIOUS
  <2>. QED
    BY <1>1, <1>2, <1>s, <2>1 DEF Retaining
<1>6. RowsTruthful'
    BY <1>1, <1>3, <1>4, <1>5 DEF Describing, RowFacts, RowsTruthful
<1>7. NothingYet'
  <2>1. \A s \in Slots : item[s[1]] = None => s # t
    BY <1>2, <1>s
  <2>2. \A s : (RowAt(s)' <=> RowAt(s)) /\ (Intended(s)' <=> Intended(s))
    BY <1>1 DEF RowAt, Intended, HasRec
  <2>. QED
    BY <1>1, <1>3, <2>1, <2>2 DEF Describing, RowFacts, NothingYet
<1>8. \A i \in Jobs : item[i] # None => item[i].d.ret # t /\ item[i].d.ret \in Slots \cup {None}
    BY <1>2, <1>s, Shapes DEF Ordered, OwnPaths, DetailType
<1>9. Described'
  <2>1. ASSUME NEW i \in Jobs, NEW s \in Slots, item[i] # None, s = item[i].d.ret, At(s)'
        PROVE  ret'[s].c = item[i].d.rv
    BY <1>3, <1>8, <2>1 DEF Describing, RowFacts, Described
  <2>. QED
    BY <1>1, <2>1, DescribedMoved DEF Describing, RowFacts
<1>10. OwnIntents'
    BY <1>1 DEF Describing, RowFacts, OwnIntents, Intended, HasRec
<1>11. item'[k] = item[k] /\ item[k].d.ret = None /\ item[k].d.disp = t /\ ~At(None)'
    BY <1>1, <1>2, <1>k, <1>s DEF At
<1>12. Waiting(k)'
  <2>1. live.c = item[k].d.dv
    BY <1>1, <1>2, <1>k DEF Waiting
  <2>2. ret'[t] = live /\ At(t)'
    BY <1>1, <1>s, SyncAssumption DEF At
  <2>. QED
    BY <1>11, <2>1, <2>2 DEF Waiting
<1>13. Beside(k)'
    BY <1>11 DEF Beside
<1>14. Retaining(k)'
  <2>1. \A r \in rows' : r.slot[1] = k /\ ~At(r.slot)' => r.slot = item[k].d.ret /\ r.v = item[k].d.rv /\ r.h \in {0, r.v}
    BY <1>1, <1>2, <1>k, <1>3, <1>4, <1>5 DEF Retaining
  <2>. QED
    BY <1>11, <2>1 DEF Retaining
<1>. QED
    BY <1>1, <1>k, <1>6, <1>7, <1>9, <1>10, <1>12, <1>13, <1>14, RowsMoved

\* The item retains the file at the path.
LEMMA RowsKeepFS ==
    ASSUME TypeOK, TypeOK', AtPoints, Ordered, Describing, KeepFS
    PROVE  RowFacts' /\ ~At(D.ret)
<1>0. run.at = "keepFS" /\ run.at \in Working
    BY DEF KeepFS, Working, ExecPoints
<1>1. ~At(D.ret) /\ D.ret # None /\ HasRec /\ rec.intent = D.ret
    BY <1>0, KeepFSEffect DEF Describing, RowPoints
<1>2. /\ UNCHANGED <<temp, rec, rows, item, jobst>> /\ live # None
      /\ D.ret \in Slots /\ ret'[D.ret] = live /\ \A s \in Slots : s # D.ret => ret'[s] = ret[s]
      /\ live' = (IF world.hardlinks /\ item[J].act = "put" THEN live ELSE None)
    BY <1>1, KeepFSEffect DEF Others
<1>3. /\ J \in Jobs /\ item[J] # None /\ Waiting(J) /\ Retaining(J) /\ D.ret = item[J].d.ret /\ D.ret[1] = J
      /\ item[J].d.rh \in {0, item[J].d.rv}
    BY <1>0, <1>1, OwnRows DEF Describing, RowFacts, Described
<1>k. PICK k \in Jobs : k = J
    BY <1>3
<1>s. PICK t \in Slots : t = D.ret
    BY <1>2
<1>4. \A s \in Slots \cup {None} : s # t => (At(s)' => At(s)) /\ (At(s) /\ s \in Slots => At(s)' /\ ret'[s] = ret[s])
    BY <1>2, <1>s DEF At, TypeOK
<1>5. At(t)' /\ ret'[t] = live /\ t # None /\ item'[k] = item[k] /\ item[k].d.ret = t /\ ~At(t)
    BY <1>1, <1>2, <1>3, <1>k, <1>s DEF At
<1>6. live.c = item[k].d.rv
    BY <1>3, <1>k, <1>5 DEF Waiting
<1>7. \A r \in rows : r.slot \in Slots
    BY DEF TypeOK, RowType
<1>8. RowsTruthful'
  <2>. SUFFICES ASSUME NEW r \in rows, At(r.slot)' PROVE ret'[r.slot].c = r.v /\ r.h \in {0, ret'[r.slot].c}
    BY <1>2 DEF RowsTruthful
  <2>1. CASE r.slot = t
    <3>1. r.v = item[k].d.rv /\ r.h \in {0, r.v}
      BY <1>3, <1>k, <1>s, <1>5, <2>1 DEF Retaining
    <3>. QED
      BY <1>5, <1>6, <2>1, <3>1
  <2>2. CASE r.slot # t
    BY <1>4, <1>7, <2>2 DEF Describing, RowFacts, RowsTruthful
  <2>. QED
    BY <2>1, <2>2
<1>9. NothingYet'
  <2>1. \A s \in Slots : item[s[1]] = None => s # t
    BY <1>3, <1>s
  <2>2. \A s : (RowAt(s)' <=> RowAt(s)) /\ (Intended(s)' <=> Intended(s))
    BY <1>2 DEF RowAt, Intended, HasRec
  <2>. QED
    BY <1>2, <1>4, <2>1, <2>2 DEF Describing, RowFacts, NothingYet
<1>10. Described'
  <2>. SUFFICES ASSUME NEW i \in Jobs, NEW s \in Slots, item[i] # None, s = item[i].d.ret, At(s)'
                PROVE  ret'[s].c = item[i].d.rv
    BY <1>2, DescribedMoved DEF Describing, RowFacts
  <2>1. CASE i = k
    BY <1>5, <1>6, <2>1
  <2>2. CASE i # k
    <3>1. s # t
      BY <1>3, <1>k, <1>s, <1>5, <2>2 DEF Ordered, OwnPaths
    <3>. QED
      BY <1>4, <3>1 DEF Describing, RowFacts, Described
  <2>. QED
    BY <2>1, <2>2
<1>11. OwnIntents'
    BY <1>2 DEF Describing, RowFacts, OwnIntents, Intended, HasRec
<1>12. Waiting(k)'
  <2>1. item[k].d.disp \in Slots \cup {None}
    BY <1>3, <1>k, Shapes DEF DetailType
  <2>2. CASE item[k].d.disp = t
    <3>1. live.c = item[k].d.dv
      BY <1>3, <1>k, <1>5, <2>2 DEF Waiting
    <3>. QED
      BY <1>5, <2>2, <3>1 DEF Waiting
  <2>3. CASE item[k].d.disp # t
    <3>1. At(item[k].d.disp)' => ret'[item[k].d.disp].c = item[k].d.dv
      BY <1>2, <1>3, <1>k, <1>4, <2>1, <2>3 DEF Waiting, At
    <3>. QED
      BY <1>5, <2>3, <3>1 DEF Waiting
  <2>. QED
    BY <2>2, <2>3
<1>13. Beside(k)'
  <2>1. live' # None => item[k].act = "put" /\ live' = live
    BY <1>2, <1>k
  <2>. QED
    BY <1>5, <2>1 DEF Beside
<1>14. Retaining(k)'
  <2>1. \A r \in rows' : r.slot[1] = k /\ ~At(r.slot)' => r.slot = item[k].d.ret /\ r.v = item[k].d.rv /\ r.h \in {0, r.v}
    BY <1>2, <1>3, <1>k, <1>4, <1>5, <1>7 DEF Retaining
  <2>2. HasRec' /\ rec'.intent = item'[k].d.ret
    BY <1>1, <1>2, <1>s, <1>5 DEF HasRec
  <2>. QED
    BY <1>5, <2>1, <2>2 DEF Retaining
<1>. QED
    BY <1>0, <1>1, <1>2, <1>k, <1>8, <1>9, <1>10, <1>11, <1>12, <1>13, <1>14, RowsMoved

\* The file of an intent goes back to its path.
LEMMA RowsBack ==
    ASSUME TypeOK, TypeOK', AtPoints, Ordered, Describing, run.at # "idle", HasRec,
           UNCHANGED <<temp, rec, rows, item, jobst>>, NEW t \in Slots, t = rec.intent, At(t), live = None,
           live' = ret[t], ret'[t] = None, \A s \in Slots : s # t => ret'[s] = ret[s],
           t[1] # J \/ (item[J] # None /\ item[J].d.ret = t)
    PROVE  RowFacts'
<1>1. J \in Jobs /\ \A j \in Jobs : jobst[j] # "over" /\ item[j] # None => j = J
    BY OnlyOne
<1>k. PICK k \in Jobs : k = J
    BY <1>1
<1>2. ~At(t)' /\ t # None /\ \A s \in Slots \cup {None} : s # t => (At(s)' => At(s)) /\ (At(s) /\ s \in Slots => At(s)' /\ ret'[s] = ret[s])
    BY SyncAssumption DEF At, TypeOK
<1>3. \A s \in Slots \cup {None} : At(s)' => At(s) /\ s # t
    BY <1>2
<1>4. \A r \in rows : r.slot \in Slots
    BY DEF TypeOK, RowType
<1>5. RowsTruthful'
    BY <1>2, <1>3, <1>4 DEF Describing, RowFacts, RowsTruthful
<1>6. NothingYet'
  <2>1. \A s : (RowAt(s)' <=> RowAt(s)) /\ (Intended(s)' <=> Intended(s))
    BY DEF RowAt, Intended, HasRec
  <2>. QED
    BY <1>3, <2>1 DEF Describing, RowFacts, NothingYet
<1>7. Described'
  <2>1. ASSUME NEW i \in Jobs, NEW s \in Slots, item[i] # None, s = item[i].d.ret, At(s)'
        PROVE  ret'[s].c = item[i].d.rv
    BY <1>2, <1>3, <2>1 DEF Describing, RowFacts, Described
  <2>. QED
    BY <2>1, DescribedMoved DEF Describing, RowFacts
<1>8. OwnIntents'
    BY DEF Describing, RowFacts, OwnIntents, Intended, HasRec
<1>9. ASSUME Open(k)' PROVE Waiting(k)' /\ Beside(k)' /\ Retaining(k)'
  <2>1. Open(k) /\ item[k] # None /\ item'[k] = item[k]
    BY <1>9 DEF Open, Pending
  <2>2. Waiting(k) /\ Beside(k) /\ Retaining(k)
    BY <2>1 DEF Describing, RowFacts
  <2>3. item[k].d.ret \in Slots \cup {None} /\ item[k].d.disp \in Slots \cup {None}
    BY <2>1, Shapes DEF DetailType
  <2>4. CASE item[k].d.ret = t
    <3>1. live'.c = item[k].d.rv /\ live' # None
      BY <2>1, <2>4 DEF Describing, RowFacts, Described, At
    <3>2. Waiting(k)'
      <4>1. item[k].d.disp = t => live'.c = item[k].d.dv
        BY <2>2 DEF Waiting
      <4>2. At(item[k].d.disp)' => ret'[item[k].d.disp].c = item[k].d.dv
        BY <1>2, <1>3, <2>2, <2>3 DEF Waiting, At
      <4>. QED
        BY <1>2, <2>1, <2>4, <3>1, <4>1, <4>2 DEF Waiting
    <3>3. Beside(k)'
      BY <1>2, <2>1, <2>4 DEF Beside
    <3>4. \A r \in rows' : r.slot[1] = k /\ ~At(r.slot)' => r.slot = item[k].d.ret /\ r.v = item[k].d.rv /\ r.h \in {0, r.v}
      <4>. SUFFICES ASSUME NEW r \in rows, r.slot[1] = k, ~At(r.slot)'
                    PROVE  r.slot = item[k].d.ret /\ r.v = item[k].d.rv /\ r.h \in {0, r.v}
        OBVIOUS
      <4>1. CASE r.slot = t
        <5>1. ret[t].c = r.v /\ r.h \in {0, ret[t].c} /\ ret[t].c = item[k].d.rv
          BY <2>1, <2>4, <4>1 DEF Describing, RowFacts, RowsTruthful, Described
        <5>. QED
          BY <2>4, <4>1, <5>1
      <4>2. CASE r.slot # t
        BY <1>2, <1>4, <2>2, <4>2 DEF Retaining
      <4>. QED
        BY <4>1, <4>2
    <3>. QED
      BY <1>2, <2>1, <2>2, <2>4, <3>2, <3>3, <3>4 DEF Retaining, HasRec
  <2>5. CASE item[k].d.ret # t
    <3>1. t[1] # k
      BY <1>k, <2>5
    <3>2. item[k].d.disp # t
      BY <1>2, <2>1, <3>1 DEF Ordered, OwnPaths
    <3>3. Waiting(k)'
      <4>1. At(item[k].d.disp)' => ret'[item[k].d.disp].c = item[k].d.dv
        BY <1>2, <2>2, <2>3, <3>2 DEF Waiting, At
      <4>2. item[k].d.ret # None => At(item[k].d.ret)'
        BY <1>2, <2>2, <2>3, <2>5 DEF Waiting
      <4>3. item[k].d.disp # None /\ item[k].d.ret \in {None, item[k].d.disp} => At(item[k].d.disp)'
        BY <1>2, <2>2, <2>3, <3>2 DEF Waiting
      <4>. QED
        BY <2>1, <4>1, <4>2, <4>3 DEF Waiting
    <3>4. ~At(item[k].d.ret)
      BY <1>2, <2>2, <2>5 DEF Retaining
    <3>5. Beside(k)'
      BY <1>3, <2>1, <2>3, <3>4 DEF Beside
    <3>6. \A r \in rows' : r.slot[1] = k /\ ~At(r.slot)' => r.slot = item[k].d.ret /\ r.v = item[k].d.rv /\ r.h \in {0, r.v}
      BY <1>2, <1>4, <2>2, <3>1 DEF Retaining
    <3>. QED
      BY <1>3, <2>1, <2>2, <2>3, <3>3, <3>4, <3>5, <3>6 DEF Retaining, HasRec
  <2>. QED
    BY <2>4, <2>5
<1>. QED
    BY <1>k, <1>5, <1>6, <1>7, <1>8, <1>9, RowsMoved

\* The new version is renamed into place.
LEMMA RowsCommit ==
    ASSUME TypeOK, TypeOK', AtPoints, NewVersionExists, ReplacesLinked, Ordered, Copying, Describing, Commit,
           ~(run.free /\ live # None)
    PROVE  RowFacts'
<1>1. /\ UNCHANGED <<ret, rec, rows, item, jobst>> /\ run.at = "commit" /\ live' = temp[J] /\ temp[J] # None
      /\ temp'[J] = None
    BY CommitEffect DEF Others
<1>2. run.at \in Working /\ D.done
    BY <1>1 DEF Working, ExecPoints, Copying, CopyPoints
<1>3. /\ J \in Jobs /\ item[J] # None /\ Waiting(J) /\ Retaining(J) /\ D.ret = item[J].d.ret
      /\ temp[J].c = item[J].d.tv /\ item[J].d.done /\ IsPut
    BY <1>1, <1>2, OwnRows DEF Ordered, Placing, SameDetail, Copying, CopyFacts, TempsKnown
<1>4. D.ret = None \/ At(D.ret)
    BY <1>1 DEF Describing, RowPoints
<1>5. (live = None) \/ At(D.ret)
    BY <1>1 DEF ReplacesLinked, SameFile
<1>k. PICK k \in Jobs : k = J
    BY <1>3
<1>6. \A s : (At(s)' <=> At(s)) /\ (RowAt(s)' <=> RowAt(s)) /\ (Intended(s)' <=> Intended(s))
    BY <1>1 DEF At, RowAt, Intended, HasRec
<1>7. RowsTruthful' /\ NothingYet' /\ Described' /\ OwnIntents'
    BY <1>1, <1>6 DEF Describing, RowFacts, RowsTruthful, NothingYet, Described, OwnIntents
<1>8. Waiting(k)'
  <2>1. item[k].d.ret = None \/ At(item[k].d.ret)
    BY <1>3, <1>4, <1>k
  <2>2. ~(item[k].d.disp # None /\ ~At(item[k].d.disp) /\ item[k].d.ret \in {None, item[k].d.disp})
    BY <1>3, <1>5, <1>k, <2>1 DEF Waiting, At
  <2>. QED
    BY <1>1, <1>3, <1>6, <1>k, <2>1, <2>2 DEF Waiting
<1>9. Beside(k)'
    BY <1>1, <1>3, <1>k DEF Beside, IsPut
<1>10. Retaining(k)'
    BY <1>1, <1>3, <1>6, <1>k DEF Retaining, HasRec
<1>. QED
    BY <1>1, <1>k, <1>7, <1>8, <1>9, <1>10, RowsMoved

\* A retention job expires a file.
LEMMA RowsExpire ==
    ASSUME TypeOK, TypeOK', AtPoints, Ordered, Describing, NEW x \in rows, ExpireFile(x)
    PROVE  RowFacts'
<1>1. /\ UNCHANGED <<live, temp, rec, rows, item, jobst>> /\ run.at = "ready" /\ kind[J] = "retention" /\ J \in Jobs
      /\ ret'[x.slot] = None /\ \A s \in Slots : s # x.slot => ret'[s] = ret[s]
    BY ExpireFileEffect DEF Others
<1>2. \A j \in Jobs : jobst[j] # "over" /\ item[j] # None => j = J
    BY <1>1, OnlyOne
<1>3. item[J] = None
    BY <1>1 DEF Ordered, OneUnfinished
<1>4. \A s \in Slots : At(s)' => At(s) /\ ret'[s] = ret[s]
    BY <1>1 DEF At
<1>5. \A s : (RowAt(s)' <=> RowAt(s)) /\ (Intended(s)' <=> Intended(s))
    BY <1>1 DEF RowAt, Intended, HasRec
<1>6. \A r \in rows : r.slot \in Slots
    BY DEF TypeOK, RowType
<1>7. RowsTruthful'
    BY <1>1, <1>4, <1>6 DEF Describing, RowFacts, RowsTruthful
<1>8. NothingYet' /\ OwnIntents'
    BY <1>1, <1>4, <1>5 DEF Describing, RowFacts, NothingYet, OwnIntents
<1>9. Described'
  <2>1. ASSUME NEW i \in Jobs, NEW s \in Slots, item[i] # None, s = item[i].d.ret, At(s)'
        PROVE  ret'[s].c = item[i].d.rv
    BY <1>4, <2>1 DEF Describing, RowFacts, Described
  <2>. QED
    BY <1>1, <2>1, DescribedMoved DEF Describing, RowFacts
<1>10. \A j \in Jobs : ~Open(j)'
    BY <1>1, <1>2, <1>3 DEF Open, Pending
<1>. QED
    BY <1>7, <1>8, <1>9, <1>10 DEF RowFacts

\* The sync plans its item.
LEMMA RowsPlan ==
    ASSUME TypeOK, TypeOK', AtPoints, Ordered, Describing, Plan
    PROVE  RowFacts'
<1>1. /\ UNCHANGED <<live, ret, temp, rec, rows, jobst>> /\ run.at = "ready" /\ J \in Jobs
      /\ item[J] = None /\ item'[J] # None /\ item'[J].d = NoDetail /\ \A i \in Jobs \ {J} : item'[i] = item[i]
    BY PlanEffect DEF Others
<1>k. PICK k \in Jobs : k = J
    BY <1>1
<1>2. NoDetail.ret = None /\ NoDetail.disp = None /\ ~At(None) /\ ~At(None)'
    BY DEF NoDetail, At
<1>3. item'[k] # None /\ item'[k].d.ret = None /\ item'[k].d.disp = None
    BY <1>1, <1>2, <1>k
<1>4. \A s : (At(s)' <=> At(s)) /\ (RowAt(s)' <=> RowAt(s)) /\ (Intended(s)' <=> Intended(s))
    BY <1>1 DEF At, RowAt, Intended, HasRec
<1>5. \A s \in Slots : s[1] = k => ~At(s) /\ ~RowAt(s) /\ ~Intended(s)
    BY <1>1, <1>k DEF Describing, RowFacts, NothingYet
<1>6. RowsTruthful' /\ NothingYet'
    BY <1>1, <1>4, <1>k DEF Describing, RowFacts, RowsTruthful, NothingYet
<1>7. Described'
    BY <1>1, <1>2, <1>3, <1>4, <1>k DEF Describing, RowFacts, Described
<1>8. OwnIntents'
    BY <1>1, <1>4, <1>5, <1>k DEF Describing, RowFacts, OwnIntents
<1>9. Waiting(k)' /\ Beside(k)'
    BY <1>2, <1>3 DEF Waiting, Beside
<1>10. Retaining(k)'
  <2>1. \A r \in rows' : r.slot \in Slots
    BY DEF TypeOK, RowType
  <2>2. \A r \in rows' : r.slot[1] # k
    BY <1>1, <1>5, <2>1 DEF RowAt
  <2>. QED
    BY <1>2, <1>3, <2>2 DEF Retaining
<1>. QED
    BY <1>1, <1>k, <1>6, <1>7, <1>8, <1>9, <1>10, RowsMoved

\* Every step keeps the rows true, while nobody else touches the path.
LEMMA DescribingKept ==
    ASSUME TypeOK, TypeOK', AtPoints, AtPoints', NewVersionExists, ReplacesLinked, world.inOrder,
           Ordered, Copying, Describing, [Next]_vars, bounds'.meddles = 0
    PROVE  Describing'
<1>. USE DEF Describing
<1>1. CASE SourceChanges \/ SourceVanishes
  <2>1. UNCHANGED <<live, ret, temp, rec, rows, item, jobst, run>>
    BY <1>1, SourceEffect
  <2>2. GoodRows /\ IntentMoves
    BY <2>1, SameRows DEF IntentMoves, HasRec
  <2>3. RowFacts'
    BY <2>1, <2>2, RowsStay DEF HasRec
  <2>4. RowPoints'
    BY <2>1 DEF RowPoints, Unlinked, HasRec, At, J, D
  <2>. QED
    BY <2>3, <2>4
<1>2. CASE Meddle
    BY <1>2, MeddleEffect
<1>3. CASE \E j \in Jobs, k \in {"sync", "verify", "retention"} : Start(j, k)
  <2>0. PICK j \in Jobs, k \in {"sync", "verify", "retention"} : Start(j, k)
    BY <1>3
  <2>1. /\ UNCHANGED <<live, ret, temp, rec, item, rows>> /\ run'.at = "sweep"
        /\ jobst[j] \in {"new", "queued"} /\ \A i \in Jobs \ {j} : jobst'[i] = jobst[i]
    BY <2>0, StartEffect
  <2>2. GoodRows /\ IntentMoves
    BY <2>1, SameRows DEF IntentMoves, HasRec
  <2>3. RowFacts'
    BY <2>1, <2>2, RowsStay DEF HasRec
  <2>. QED
    BY <2>1, <2>3, RowPointsIdle DEF Working, ExecPoints
<1>4. CASE Crash
  <2>1. /\ UNCHANGED <<live, ret, temp, rec, rows, item>> /\ run'.at = "idle" /\ run.at # "idle"
        /\ \A i \in Jobs \ {J} : jobst'[i] = jobst[i]
    BY <1>4, CrashEffect
  <2>2. jobst[J] = "running"
    BY <2>1, OnlyOne
  <2>3. GoodRows /\ IntentMoves
    BY <2>1, SameRows DEF IntentMoves, HasRec
  <2>4. RowFacts'
    BY <2>1, <2>2, <2>3, RowsStay DEF HasRec
  <2>. QED
    BY <2>1, <2>4, RowPointsIdle DEF Working, ExecPoints
<1>5. CASE \E i \in Jobs : SweepDisplaced(i) \/ SweepPlaced(i) \/ SweepTemp(i)
  <2>1. PICK i \in Jobs : SweepDisplaced(i) \/ SweepPlaced(i) \/ SweepTemp(i)
    BY <1>5
  <2>2. /\ UNCHANGED <<live, ret, item, jobst>> /\ run'.at \in Sweeping /\ item[i] # None
        /\ temp' = temp \/ (temp'[i] = None /\ \A k \in Jobs \ {i} : temp'[k] = temp[k])
        /\ \/ rec' = rec /\ rows' = rows
           \/ rec' = rec /\ At(item[i].d.disp) /\ NewRow(item[i].d.disp, ret[item[i].d.disp].c, 0)
           \/ /\ FinishedPlaced(i, item[i].d) /\ rec' # None /\ rec'.intent = None
              /\ NewRow(item[i].d.ret, item[i].d.rv, item[i].d.rh)
    BY <2>1, SweepEffect DEF Others
  <2>3. GoodRows
    <3>1. CASE rows' = rows
      BY <3>1, SameRows
    <3>2. CASE At(item[i].d.disp) /\ NewRow(item[i].d.disp, ret[item[i].d.disp].c, 0)
      <4>1. item[i].d.disp[1] = i
        BY <2>2, <3>2 DEF Ordered, OwnPaths, At
      <4>. QED
        BY <2>2, <3>2, <4>1, OneRow
    <3>3. CASE FinishedPlaced(i, item[i].d) /\ NewRow(item[i].d.ret, item[i].d.rv, item[i].d.rh)
      <4>1. At(item[i].d.ret) /\ item[i].d.ret # None
        BY <3>3 DEF FinishedPlaced, At
      <4>2. item[i].d.ret[1] = i /\ ret[item[i].d.ret].c = item[i].d.rv /\ item[i].d.rh \in {0, item[i].d.rv}
        BY <2>2, <4>1 DEF Ordered, OwnPaths, RowFacts, Described
      <4>. QED
        BY <2>2, <3>3, <4>1, <4>2, OneRow
    <3>. QED
      BY <2>2, <3>1, <3>2, <3>3
  <2>4. IntentMoves /\ (HasRec => rec' # None)
    BY <2>2 DEF IntentMoves, HasRec
  <2>5. \A k \in Jobs : temp'[k] \in {None, temp[k]}
    BY <2>2
  <2>6. RowFacts'
    BY <2>2, <2>3, <2>4, <2>5, RowsStay
  <2>. QED
    BY <2>2, <2>6, RowPointsIdle DEF Sweeping, Working, ExecPoints
<1>6. CASE SweepEnd \/ SettleNothing
  <2>1. /\ UNCHANGED <<live, ret, temp, rec, item>> /\ rows' \subseteq rows
        /\ run'.at \in {"settle", "ready"}
        /\ \A i \in Jobs : jobst'[i] # "over" => jobst[i] # "over"
    BY <1>6, ReconcileGoes DEF Others, Goes
  <2>2. GoodRows /\ IntentMoves
    BY <2>1, SameRows DEF IntentMoves, HasRec
  <2>3. RowFacts'
    BY <2>1, <2>2, RowsStay DEF HasRec
  <2>. QED
    BY <2>1, <2>3, RowPointsIdle DEF Working, ExecPoints
<1>7. CASE Settle
  <2>1. HasRec /\ run.at = "settle" /\ rec.intent[1] # J
    BY <1>7 DEF Settle, Unsettled
  <2>2. /\ run'.at = "settleDB" /\ UNCHANGED <<temp, rec, rows, item, jobst>>
        /\ \/ /\ At(rec.intent) /\ live = None /\ live' = ret[rec.intent] /\ rec.intent \in Slots
              /\ ret'[rec.intent] = None /\ \A s \in Slots : s # rec.intent => ret'[s] = ret[s]
           \/ UNCHANGED <<live, ret>>
    BY <1>7, <2>1, SettleFSEffect DEF Settle, Goes
  <2>3. CASE UNCHANGED <<live, ret>>
    <3>1. GoodRows /\ IntentMoves
      BY <2>2, SameRows DEF IntentMoves, HasRec
    <3>2. RowFacts'
      BY <2>2, <2>3, <3>1, RowsStay DEF HasRec
    <3>. QED
      BY <2>2, <3>2, RowPointsIdle DEF Working, ExecPoints
  <2>4. CASE /\ At(rec.intent) /\ live = None /\ live' = ret[rec.intent] /\ rec.intent \in Slots
             /\ ret'[rec.intent] = None /\ \A s \in Slots : s # rec.intent => ret'[s] = ret[s]
    <3>1. RowFacts'
      BY <2>1, <2>2, <2>4, RowsBack
    <3>. QED
      BY <2>2, <3>1, RowPointsIdle DEF Working, ExecPoints
  <2>. QED
    BY <2>2, <2>3, <2>4
<1>8. CASE SettleRecord
  <2>1. HasRec /\ run.at = "settleDB"
    BY <1>8 DEF SettleRecord, AtPoints
  <2>2. /\ run'.at = "ready" /\ UNCHANGED <<live, ret, temp, item, jobst>> /\ rec' # None /\ rec'.intent = None
        /\ rows' = rows \/ (At(rec.intent) /\ NewRow(rec.intent, ret[rec.intent].c, 0))
    BY <1>8, <2>1, SettleDBEffect DEF SettleRecord, Goes, Others
  <2>3. GoodRows
    <3>1. CASE rows' = rows
      BY <3>1, SameRows
    <3>2. CASE At(rec.intent) /\ NewRow(rec.intent, ret[rec.intent].c, 0)
      <4>1. rec.intent \in Slots /\ rec.intent[1] \in Jobs
        BY <2>1, <3>2, Shapes DEF RecType, At, Slots
      <4>2. item[rec.intent[1]] # None
        BY <2>1, <4>1 DEF RowFacts, NothingYet, Intended
      <4>. QED
        BY <3>2, <4>2, OneRow
    <3>. QED
      BY <2>2, <3>1, <3>2
  <2>4. RowFacts'
    BY <2>2, <2>3, RowsStay DEF IntentMoves
  <2>. QED
    BY <2>2, <2>4, RowPointsIdle DEF Working, ExecPoints
<1>9. CASE ReconcileFails
  <2>1. /\ UNCHANGED <<live, ret, temp, rec, item>> /\ rows' \subseteq rows
        /\ run'.at \in {"sweep", "ready", "idle"}
        /\ \A i \in Jobs : jobst'[i] # "over" => jobst[i] # "over"
    BY <1>9, ReconcileFailsEffect
  <2>2. GoodRows /\ IntentMoves
    BY <2>1, SameRows DEF IntentMoves, HasRec
  <2>3. RowFacts'
    BY <2>1, <2>2, RowsStay DEF HasRec
  <2>. QED
    BY <2>1, <2>3, RowPointsIdle DEF Working, ExecPoints
<1>10. CASE Plan
  <2>1. run'.at = "ready"
    BY <1>10, PlanEffect
  <2>. QED
    BY <1>10, <2>1, RowsPlan, RowPointsIdle DEF Working, ExecPoints
<1>11. CASE Begin
  <2>1. /\ UNCHANGED <<live, ret, temp, rec, rows, item, jobst>> /\ run'.at = "begin" /\ run'.job = run.job
        /\ run'.d = item[J].d
    BY <1>11, BeginEffect DEF Others
  <2>2. GoodRows /\ IntentMoves
    BY <2>1, SameRows DEF IntentMoves, HasRec
  <2>3. RowFacts'
    BY <2>1, <2>2, RowsStay DEF HasRec
  <2>. QED
    BY <2>1, <2>3, PointsPlain DEF J
<1>12. CASE NothingToDo \/ Verify \/ ExpireEnd
  <2>1. /\ UNCHANGED <<live, ret, temp, rows, item>> /\ run'.at = "idle"
        /\ \A i \in Jobs : jobst'[i] # "over" => jobst[i] # "over"
        /\ rec' = rec \/ (HasRec /\ rec' # None /\ rec'.intent = rec.intent)
    BY <1>12, EndsEffect
  <2>2. GoodRows /\ IntentMoves /\ (HasRec => rec' # None)
    BY <2>1, SameRows DEF IntentMoves, HasRec
  <2>3. RowFacts'
    BY <2>1, <2>2, RowsStay
  <2>. QED
    BY <2>1, <2>3, RowPointsIdle DEF Working, ExecPoints
<1>13. CASE \E r \in rows : ExpireFile(r)
  <2>1. PICK r \in rows : ExpireFile(r)
    BY <1>13
  <2>2. run'.at = "expired"
    BY <2>1, ExpireFileEffect
  <2>. QED
    BY <2>1, <2>2, RowsExpire, RowPointsIdle DEF Working, ExecPoints
<1>14. CASE ExpireRow
  <2>1. /\ UNCHANGED <<live, ret, temp, rec, item>> /\ rows' \subseteq rows
        /\ run'.at = "ready"
        /\ \A i \in Jobs : jobst'[i] # "over" => jobst[i] # "over"
    BY <1>14, ExpireRowEffect DEF Others
  <2>2. GoodRows /\ IntentMoves
    BY <2>1, SameRows DEF IntentMoves, HasRec
  <2>3. RowFacts'
    BY <2>1, <2>2, RowsStay DEF HasRec
  <2>. QED
    BY <2>1, <2>3, RowPointsIdle DEF Working, ExecPoints
<1>15. CASE EarlierDisplace
  <2>1. /\ UNCHANGED <<live, ret, temp, rec, item, jobst>> /\ run.at = "begin" /\ run'.at = item[J].act
        /\ run'.job = run.job /\ run'.d = run.d /\ (rows' = rows \/ (At(D.disp) /\ NewRow(D.disp, D.dv, 0)))
    BY <1>15, EarlierEffect DEF Others, Goes
  <2>2. run.at \in Working /\ J \in Jobs /\ D.ret = item[J].d.ret /\ item[J].act \in {"put", "retain"}
    BY <2>1, OwnRows, WorkFacts DEF Working, ExecPoints, ItemType
  <2>3. GoodRows /\ IntentMoves
    BY <2>1, <2>2, SameRows, OwnRows DEF IntentMoves, HasRec
  <2>4. RowFacts'
    BY <2>1, <2>3, RowsStay DEF HasRec
  <2>. QED
    BY <2>1, <2>2, <2>4, PointsPlain DEF J, D
<1>16. CASE PutResumed
  <2>1. UNCHANGED <<live, ret, temp, rec, rows, item, jobst>> /\ run.at = "put" /\ run'.job = run.job /\ run'.d = run.d
    BY <1>16, PutResumedEffect DEF Others, Goes
  <2>2. run.at \in Working /\ J \in Jobs /\ D.ret = item[J].d.ret /\ J' = J /\ D' = D
    BY <2>1, OwnRows DEF Working, ExecPoints, J, D
  <2>3. GoodRows /\ IntentMoves
    BY <2>1, SameRows DEF IntentMoves, HasRec
  <2>4. RowFacts'
    BY <2>1, <2>3, RowsStay DEF HasRec
  <2>5. \A s : At(s)' <=> At(s)
    BY <2>1 DEF At
  <2>6. CASE HalfDone /\ Goes("commit") /\ run'.free = (live = None)
    <3>1. At(D.ret)
      BY <2>6 DEF HalfDone, LinkedOld, SameFile
    <3>2. At(D.ret)'
      BY <2>2, <2>5, <3>1
    <3>. QED
      BY <2>1, <2>2, <2>4, <2>6, <3>2 DEF RowPoints, Displacing, Goes
  <2>7. CASE RenamedInto /\ Goes("record")
    <3>1. (D.ret = None \/ At(D.ret)) /\ temp[J] = None /\ live # None /\ live.c = D.tv
      BY <2>7 DEF RenamedInto
    <3>2. (D.ret = None \/ At(D.ret))'
      BY <2>2, <2>5, <3>1
    <3>. QED
      BY <2>1, <2>2, <2>4, <2>7, <3>1, <3>2 DEF RowPoints, Displacing, Goes
  <2>. QED
    BY <1>16, <2>6, <2>7, PutResumedEffect
<1>17. CASE PutAnew
  <2>1. /\ UNCHANGED <<live, ret, rec, rows, item, jobst>> /\ run.at = "put" /\ run'.job = run.job /\ run'.d.ret = D.ret
        /\ temp' = temp \/ (temp'[J] = None /\ \A i \in Jobs \ {J} : temp'[i] = temp[i])
    BY <1>17, PutAnewEffect DEF Others, Goes, D
  <2>2. /\ run.at \in Working /\ J \in Jobs /\ D.ret = item[J].d.ret /\ J' = J /\ D'.ret = D.ret
        /\ Beside(J) /\ Retaining(J)
    BY <2>1, OwnRows DEF Working, ExecPoints, J, D
  <2>3. GoodRows /\ IntentMoves
    BY <2>1, SameRows DEF IntentMoves, HasRec
  <2>4. RowFacts'
    BY <2>1, <2>2, <2>3, RowsStay DEF HasRec
  <2>5. (At(D.ret)' <=> At(D.ret)) /\ (At(item[J].d.ret)' <=> At(D.ret)) /\ ~At(None)'
    BY <2>1, <2>2 DEF At
  <2>6. CASE run'.at \in {"putBack", "finish"}
    BY <2>1, <2>2, <2>4, <2>6, PointsPlain
  <2>7. CASE run'.at \in {"way", "write"}
    <3>1. run'.retx = At(D.ret) /\ (run'.at = "way" => ~HasRec) /\ ~RenamedInto
      BY <1>17, <2>7, PutAnewEffect DEF Goes
    <3>2. At(D.ret) /\ live # None => live = ret[D.ret]
      <4>1. D.done = item[J].d.done /\ D.tv = item[J].d.tv
        BY <2>1, <2>2 DEF Ordered, SameDetail
      <4>. QED
        BY <2>2, <3>1, <4>1 DEF Beside, RenamedInto, LinkedOld, SameFile
    <3>3. run'.at = "way" => D.ret = None
      BY <2>1, <2>2, <3>1 DEF Retaining, Ordered, Placing, IsPut
    <3>4. Unlinked'
      BY <2>1, <2>2, <2>5, <3>2 DEF Unlinked
    <3>. QED
      BY <2>1, <2>2, <2>4, <2>5, <2>7, <3>1, <3>3, <3>4 DEF RowPoints, Displacing, HasRec
  <2>. QED
    BY <1>17, <2>6, <2>7, PutAnewEffect DEF Goes
<1>18. CASE Adopt
  <2>1. /\ UNCHANGED <<live, ret, item, jobst>> /\ temp' = temp /\ run.at = "way"
        /\ rec' # None /\ rec'.intent = None /\ rows' = rows
        /\ run'.job = run.job /\ run'.d = run.d /\ run'.at = "finish"
    BY <1>18, AdoptEffect DEF Others, Goes
  <2>2. run.at \in Working /\ J \in Jobs /\ D.ret = item[J].d.ret
    BY <2>1, OwnRows DEF Working, ExecPoints
  <2>3. GoodRows
    BY <2>1, <2>2, SameRows
  <2>4. IntentMoves /\ (HasRec => rec' # None)
    BY <2>1, <2>2 DEF IntentMoves
  <2>5. RowFacts'
    BY <2>1, <2>2, <2>3, <2>4, RowsStay
  <2>. QED
    BY <2>1, <2>2, <2>5, PointsPlain DEF J, D
<1>19. CASE InTheWay
  <2>1. /\ UNCHANGED <<live, ret, item, jobst>> /\ temp' = temp /\ run.at = "way" /\ rec' = rec
        /\ rows' = rows
        /\ run'.job = run.job /\ run'.d = run.d /\ run'.retx = run.retx /\ run'.at = "displace" /\ run'.next = "write"
    BY <1>19, InTheWayEffect DEF Others, Goes
  <2>2. run.at \in Working /\ J \in Jobs /\ D.ret = item[J].d.ret /\ J' = J /\ D' = D
    BY <2>1, OwnRows DEF Working, ExecPoints, J, D
  <2>3. GoodRows
    BY <2>1, <2>2, SameRows
  <2>4. IntentMoves /\ (HasRec => rec' # None)
    BY <2>1, <2>2 DEF IntentMoves, HasRec
  <2>5. RowFacts'
    BY <2>1, <2>2, <2>3, <2>4, RowsStay
  <2>6. (At(D.ret)' <=> At(D.ret)) /\ (Unlinked' <=> Unlinked)
    BY <2>1, <2>2 DEF At, Unlinked
  <2>. QED
    BY <2>1, <2>2, <2>5, <2>6 DEF RowPoints, Displacing, HasRec
<1>20. CASE Displace
  <2>1. /\ UNCHANGED <<live, ret, temp, rec, jobst>> /\ run.at = "displace" /\ run'.job = run.job /\ Saves(run'.d)
        /\ run'.at = "displaceFS" /\ run'.next = run.next /\ run'.retx = run.retx /\ live # None
        /\ run'.d.ret = D.ret /\ run'.d.rv = D.rv /\ run'.d.rh = D.rh
        /\ (\/ run'.d.disp \in Slots /\ run'.d.disp[1] = J /\ ~At(run'.d.disp) /\ run'.d.dv = live.c
            \/ run'.d = D /\ D.disp # None /\ ~At(D.disp))
        /\ (rows' = rows \/ (At(D.disp) /\ NewRow(D.disp, D.dv, 0)))
    BY <1>20, DisplaceEffect DEF Others
  <2>2. /\ run.at \in Working /\ J \in Jobs /\ item[J] # None /\ D.ret = item[J].d.ret /\ Waiting(J) /\ Beside(J) /\ Retaining(J)
        /\ D.disp = item[J].d.disp /\ D.dv = item[J].d.dv /\ J' = J /\ D' = run'.d
        /\ D.ret # None => D.rv = item[J].d.rv /\ D.rh = item[J].d.rh
    BY <2>1, OwnRows DEF Working, ExecPoints, J, D
  <2>3. GoodRows
    BY <2>1, <2>2, SameRows, OwnRows
  <2>4. /\ item[J].d.ret # None => item[J].d.rh \in {0, item[J].d.rv}
        /\ At(item[J].d.ret) => ret[item[J].d.ret].c = item[J].d.rv
    BY <2>2 DEF RowFacts, Described
  <2>5. D.ret = None /\ ~HasRec
    BY <2>1 DEF RowPoints, Displacing
  <2>6. RowFacts'
    BY <2>1, <2>2, <2>3, <2>4, <2>5, RowsSaved DEF Waiting, Retaining, At
  <2>7. \A s : At(s)' <=> At(s)
    BY <2>1 DEF At
  <2>. QED
    BY <2>1, <2>2, <2>5, <2>6, <2>7 DEF RowPoints, Displacing, HasRec, Saves
<1>21. CASE DisplaceFS
  <2>1. /\ UNCHANGED <<rec, item>> /\ run.at = "displaceFS" /\ run'.at = "displaced" /\ run'.job = run.job /\ run'.d = run.d
        /\ run'.next = run.next /\ run'.retx = run.retx
    BY <1>21, DisplaceFSEffect DEF Others, Goes
  <2>2. J' = J /\ D' = D /\ D.ret = item[J].d.ret /\ D.ret = None /\ ~HasRec /\ run.next = "write" /\ ~run.retx
    BY <2>1 DEF RowPoints, Displacing, J, D, Working, ExecPoints, At
  <2>3. ~At(D.ret)'
    BY <2>2 DEF At
  <2>. QED
    BY <1>21, <2>1, <2>2, <2>3, RowsDisplaceFS DEF RowPoints, Displacing, HasRec
<1>22. CASE Displaced
  <2>1. /\ UNCHANGED <<live, ret, item, jobst>> /\ temp' = temp /\ run.at = "displaced" /\ rec' = rec
        /\ (rows' = rows \/ (At(D.disp) /\ NewRow(D.disp, D.dv, 0)))
        /\ run'.job = run.job /\ run'.d = run.d /\ run'.at = run.next /\ run'.retx = run.retx
    BY <1>22, DisplacedDone DEF Others, Goes
  <2>2. run.at \in Working /\ J \in Jobs /\ D.ret = item[J].d.ret /\ J' = J /\ D' = D
    BY <2>1, OwnRows DEF Working, ExecPoints, J, D
  <2>3. GoodRows
    BY <2>1, <2>2, SameRows, OwnRows
  <2>4. IntentMoves /\ (HasRec => rec' # None)
    BY <2>1, <2>2 DEF IntentMoves, HasRec
  <2>5. RowFacts'
    BY <2>1, <2>2, <2>3, <2>4, RowsStay
  <2>6. (At(D.ret)' <=> At(D.ret)) /\ (Unlinked' <=> Unlinked)
    BY <2>1, <2>2 DEF At, Unlinked
  <2>7. run'.at = "write" /\ D.ret = None /\ Unlinked
    BY <2>1, <2>2 DEF RowPoints, Displacing, Unlinked, At
  <2>. QED
    BY <2>1, <2>2, <2>5, <2>6, <2>7 DEF RowPoints, Displacing, At
<1>23. CASE NameTemp
  <2>1. /\ UNCHANGED <<live, ret, temp, rec, jobst>> /\ run.at = "write" /\ run'.job = run.job /\ Saves(run'.d)
        /\ run'.at = "copy" /\ run'.retx = run.retx /\ run'.d.ret = D.ret /\ run'.d.rv = D.rv /\ run'.d.rh = D.rh
        /\ run'.d.disp = D.disp /\ run'.d.dv = D.dv
        /\ rows' = rows
    BY <1>23, NameTempEffect DEF Others
  <2>2. /\ run.at \in Working /\ J \in Jobs /\ item[J] # None /\ D.ret = item[J].d.ret /\ Waiting(J) /\ Beside(J) /\ Retaining(J)
        /\ D.disp = item[J].d.disp /\ D.dv = item[J].d.dv /\ J' = J /\ D' = run'.d
        /\ D.ret # None => D.rv = item[J].d.rv /\ D.rh = item[J].d.rh
    BY <2>1, OwnRows DEF Working, ExecPoints, J, D
  <2>3. GoodRows
    BY <2>1, <2>2, SameRows
  <2>4. /\ item[J].d.ret # None => item[J].d.rh \in {0, item[J].d.rv}
        /\ At(item[J].d.ret) => ret[item[J].d.ret].c = item[J].d.rv
    BY <2>2 DEF RowFacts, Described
  <2>5. At(D.ret) /\ live # None => live = ret[D.ret]
    BY <2>1, <2>2 DEF RowPoints, Unlinked
  <2>6. RowFacts'
    BY <2>1, <2>2, <2>3, <2>4, <2>5, RowsSaved DEF Waiting, Retaining, At
  <2>7. \A s : At(s)' <=> At(s)
    BY <2>1 DEF At
  <2>8. item'[J].d.ret = D.ret /\ Unlinked'
    BY <2>1, <2>2, <2>5, <2>7 DEF Unlinked, Saves
  <2>. QED
    BY <2>1, <2>2, <2>6, <2>7, <2>8 DEF RowPoints, Displacing
<1>24. CASE OpenTemp
  <2>1. /\ UNCHANGED <<live, ret, rec, rows, item, jobst>> /\ run.at = "copy" /\ run'.job = run.job /\ run'.d = run.d
        /\ run'.retx = run.retx /\ run'.at \in {"putBack", "copying"}
        /\ \A i \in Jobs \ {J} : temp'[i] = temp[i]
    BY <1>24, OpenTempEffect DEF Others, Goes
  <2>2. run.at \in Working /\ J \in Jobs /\ D.ret = item[J].d.ret /\ J' = J /\ D' = D /\ Unlinked
    BY <2>1, OwnRows DEF Working, ExecPoints, J, D, RowPoints
  <2>3. GoodRows /\ IntentMoves
    BY <2>1, SameRows DEF IntentMoves, HasRec
  <2>4. \A i \in Jobs : temp'[i] \in {None, temp[i]} \/ Joined(i)
    BY <2>1, <2>2 DEF Unlinked, Joined
  <2>5. RowFacts'
    BY <2>1, <2>3, <2>4, RowsOn DEF HasRec
  <2>6. (At(D.ret)' <=> At(D.ret)) /\ (Unlinked' <=> Unlinked)
    BY <2>1, <2>2 DEF At, Unlinked
  <2>. QED
    BY <2>1, <2>2, <2>5, <2>6 DEF RowPoints, Displacing
<1>25. CASE FillTemp
  <2>1. /\ UNCHANGED <<live, ret, rec, rows, item, jobst>> /\ run.at = "copying" /\ run'.job = run.job /\ run'.d = run.d
        /\ run'.retx = run.retx /\ run'.at \in {"putBack", "copied"}
        /\ \A i \in Jobs \ {J} : temp'[i] = temp[i]
    BY <1>25, FillTempEffect DEF Others, Goes
  <2>2. run.at \in Working /\ J \in Jobs /\ D.ret = item[J].d.ret /\ J' = J /\ D' = D /\ Unlinked
    BY <2>1, OwnRows DEF Working, ExecPoints, J, D, RowPoints
  <2>3. GoodRows /\ IntentMoves
    BY <2>1, SameRows DEF IntentMoves, HasRec
  <2>4. \A i \in Jobs : temp'[i] \in {None, temp[i]} \/ Joined(i)
    BY <2>1, <2>2 DEF Unlinked, Joined
  <2>5. RowFacts'
    BY <2>1, <2>3, <2>4, RowsOn DEF HasRec
  <2>6. (At(D.ret)' <=> At(D.ret)) /\ (Unlinked' <=> Unlinked)
    BY <2>1, <2>2 DEF At, Unlinked
  <2>. QED
    BY <2>1, <2>2, <2>5, <2>6 DEF RowPoints, Displacing
<1>26. CASE TempDone
  <2>1. /\ UNCHANGED <<live, ret, temp, rec, jobst>> /\ run.at = "copied" /\ run'.job = run.job /\ Saves(run'.d)
        /\ run'.at = "keep" /\ run'.retx = run.retx /\ run'.d.ret = D.ret /\ run'.d.rv = D.rv /\ run'.d.rh = D.rh
        /\ run'.d.disp = D.disp /\ run'.d.dv = D.dv
        /\ rows' = rows
    BY <1>26, TempDoneEffect DEF Others
  <2>2. /\ run.at \in Working /\ J \in Jobs /\ item[J] # None /\ D.ret = item[J].d.ret /\ Waiting(J) /\ Beside(J) /\ Retaining(J)
        /\ D.disp = item[J].d.disp /\ D.dv = item[J].d.dv /\ J' = J /\ D' = run'.d
        /\ D.ret # None => D.rv = item[J].d.rv /\ D.rh = item[J].d.rh
    BY <2>1, OwnRows DEF Working, ExecPoints, J, D
  <2>3. GoodRows
    BY <2>1, <2>2, SameRows
  <2>4. /\ item[J].d.ret # None => item[J].d.rh \in {0, item[J].d.rv}
        /\ At(item[J].d.ret) => ret[item[J].d.ret].c = item[J].d.rv
    BY <2>2 DEF RowFacts, Described
  <2>5. At(D.ret) /\ live # None => live = ret[D.ret]
    BY <2>1, <2>2 DEF RowPoints, Unlinked
  <2>6. RowFacts'
    BY <2>1, <2>2, <2>3, <2>4, <2>5, RowsSaved DEF Waiting, Retaining, At
  <2>7. \A s : At(s)' <=> At(s)
    BY <2>1 DEF At
  <2>8. item'[J].d.ret = D.ret /\ Unlinked'
    BY <2>1, <2>2, <2>5, <2>7 DEF Unlinked, Saves
  <2>. QED
    BY <2>1, <2>2, <2>6, <2>7, <2>8 DEF RowPoints, Displacing
<1>27. CASE Keep
  <2>1. /\ UNCHANGED <<live, ret, temp, rec, rows, item, jobst>> /\ run.at = "keep" /\ run'.job = run.job /\ run'.d = run.d
    BY <1>27, KeepEffect DEF Others
  <2>2. /\ run.at \in Working /\ J \in Jobs /\ D.ret = item[J].d.ret /\ J' = J /\ D' = D /\ Waiting(J)
        /\ Unlinked /\ (run.retx <=> At(D.ret))
    BY <2>1, OwnRows DEF Working, ExecPoints, J, D, RowPoints
  <2>3. GoodRows /\ IntentMoves
    BY <2>1, SameRows DEF IntentMoves, HasRec
  <2>4. RowFacts'
    BY <2>1, <2>3, RowsStay DEF HasRec
  <2>5. At(D.ret)' <=> At(D.ret)
    BY <2>1, <2>2 DEF At
  <2>6. CASE run'.at = "putBack"
    BY <2>1, <2>2, <2>4, <2>6, PointsPlain DEF D
  <2>7. CASE live # None /\ run.retx /\ ~SameFile(D.ret)
    BY <2>2, <2>7 DEF Unlinked, SameFile
  <2>8. CASE run'.at = (IF D.ret = None THEN "choose" ELSE "intent") /\ ~run.retx
    BY <2>1, <2>2, <2>4, <2>5, <2>8 DEF RowPoints, Displacing
  <2>9. CASE run'.at = "commit" /\ run'.free = (live = None) /\ (live = None \/ run.retx)
    <3>1. D.ret = None \/ At(D.ret)
      BY <2>2, <2>9 DEF Waiting
    <3>. QED
      BY <2>1, <2>2, <2>4, <2>5, <2>9, <3>1 DEF RowPoints, Displacing
  <2>. QED
    BY <1>27, <2>6, <2>7, <2>8, <2>9, KeepEffect
<1>28. CASE Choose
  <2>1. /\ UNCHANGED <<live, ret, temp, rec, jobst>> /\ run.at = "choose" /\ run'.job = run.job /\ Saves(run'.d)
        /\ run'.at = "intent" /\ HasRec /\ live # None /\ ~At(run'.d.ret) /\ run'.d.ret # None
        /\ run'.d.rv = live.c /\ run'.d.rh \in {0, live.c} /\ run'.d.disp = D.disp /\ run'.d.dv = D.dv
        /\ rows' = rows
    BY <1>28, ChooseEffect DEF Others
  <2>2. /\ run.at \in Working /\ J \in Jobs /\ item[J] # None /\ D.ret = item[J].d.ret /\ Waiting(J) /\ Beside(J) /\ Retaining(J)
        /\ D.disp = item[J].d.disp /\ D.dv = item[J].d.dv /\ J' = J /\ D' = run'.d
        /\ D.ret # None => D.rv = item[J].d.rv /\ D.rh = item[J].d.rh
    BY <2>1, OwnRows DEF Working, ExecPoints, J, D
  <2>3. GoodRows
    BY <2>1, <2>2, SameRows
  <2>4. /\ item[J].d.ret # None => item[J].d.rh \in {0, item[J].d.rv}
        /\ At(item[J].d.ret) => ret[item[J].d.ret].c = item[J].d.rv
    BY <2>2 DEF RowFacts, Described
  <2>5. D.ret = None
    BY <2>1 DEF RowPoints
  <2>6. RowFacts'
    BY <2>1, <2>2, <2>3, <2>4, <2>5, RowsSaved DEF Waiting, Retaining, At
  <2>7. \A s : At(s)' <=> At(s)
    BY <2>1 DEF At
  <2>. QED
    BY <2>1, <2>2, <2>6, <2>7 DEF RowPoints, Displacing, Saves
<1>29. CASE Intent
  <2>1. /\ UNCHANGED <<live, ret, temp, rows, item, jobst>> /\ run.at = "intent" /\ run'.at = "keepFS" /\ run'.job = run.job
        /\ run'.d = run.d /\ rec' # None /\ rec'.intent = D.ret
    BY <1>29, IntentEffect DEF Others, Goes
  <2>2. /\ run.at \in Working /\ J \in Jobs /\ D.ret = item[J].d.ret /\ J' = J /\ D' = D /\ Open(J)
        /\ \A j \in Jobs : jobst[j] # "over" /\ item[j] # None => j = J
    BY <2>1, OwnRows DEF Working, ExecPoints, J, D
  <2>3. GoodRows /\ IntentMoves
    BY <2>1, <2>2, SameRows DEF IntentMoves
  <2>4. RowFacts'
    BY <2>1, <2>3, RowsStay
  <2>5. At(D.ret)' <=> At(D.ret)
    BY <2>1, <2>2 DEF At
  <2>. QED
    BY <2>1, <2>2, <2>4, <2>5 DEF RowPoints, Displacing
<1>30. CASE KeepFS
  <2>1. RowFacts' /\ ~At(D.ret)
    BY <1>30, RowsKeepFS
  <2>2. /\ item' = item /\ run.at = "keepFS" /\ run'.job = run.job /\ run'.d = run.d
        /\ D.ret \in Slots /\ ret'[D.ret] = live /\ live # None
        /\ live' = (IF world.hardlinks /\ item[J].act = "put" THEN live ELSE None)
        /\ run'.at = (IF item[J].act = "put" THEN "commit" ELSE "retained")
        /\ run'.free = (live' = None)
    BY <1>30, <2>1, KeepFSEffect DEF Others
  <2>3. J' = J /\ D' = D /\ D.ret = item[J].d.ret /\ D.ret # None
    BY <2>2, SyncAssumption DEF RowPoints, J, D, Working, ExecPoints
  <2>4. At(D.ret)'
    BY <2>2, <2>3 DEF At
  <2>. QED
    BY <2>1, <2>2, <2>3, <2>4 DEF RowPoints, Displacing
<1>31. CASE Commit
  <2>1. UNCHANGED <<ret, rec, rows, item, jobst>> /\ run.at = "commit" /\ run'.job = run.job /\ run'.d = run.d
    BY <1>31, CommitEffect DEF Others, Goes
  <2>2. /\ run.at \in Working /\ J \in Jobs /\ D.ret = item[J].d.ret /\ J' = J /\ D' = D /\ D.done
        /\ D.ret = None \/ At(D.ret)
    BY <2>1, OwnRows DEF Working, ExecPoints, J, D, RowPoints, Copying, CopyPoints
  <2>3. CASE run'.at = "putBack" /\ UNCHANGED <<live, temp>>
    <3>1. GoodRows /\ IntentMoves
      BY <2>1, SameRows DEF IntentMoves, HasRec
    <3>2. RowFacts'
      BY <2>1, <2>3, <3>1, RowsStay DEF HasRec
    <3>. QED
      BY <2>1, <2>2, <2>3, <3>2, PointsPlain DEF D
  <2>4. CASE run'.at = "record" /\ ~(run.free /\ live # None) /\ live' = temp[J] /\ temp[J] # None /\ temp'[J] = None
    <3>1. RowFacts'
      BY <1>31, <2>4, RowsCommit
    <3>2. temp[J].c = D.tv
      BY <2>2, <2>4, DetailKnown
    <3>3. (D.ret = None \/ At(D.ret))'
      BY <2>1, <2>2 DEF At
    <3>. QED
      BY <2>1, <2>2, <2>4, <3>1, <3>2, <3>3 DEF RowPoints, Displacing
  <2>. QED
    BY <1>31, <2>3, <2>4, CommitEffect DEF Goes
<1>32. CASE Record
  <2>1. /\ UNCHANGED <<live, ret, item, jobst>> /\ temp' = temp /\ run.at = "record"
        /\ rec' # None /\ rec'.intent = None /\ (rows' = rows \/ (D.ret # None /\ NewRow(D.ret, D.rv, D.rh)))
        /\ run'.job = run.job /\ run'.d = run.d /\ run'.at = "finish"
    BY <1>32, RecordEffect DEF Others, Goes
  <2>2. run.at \in Working /\ J \in Jobs /\ D.ret = item[J].d.ret
    BY <2>1, OwnRows DEF Working, ExecPoints
  <2>3. GoodRows
    BY <2>1, <2>2, SameRows, OwnRows DEF RowPoints
  <2>4. IntentMoves /\ (HasRec => rec' # None)
    BY <2>1, <2>2 DEF IntentMoves
  <2>5. RowFacts'
    BY <2>1, <2>2, <2>3, <2>4, RowsStay
  <2>. QED
    BY <2>1, <2>2, <2>5, PointsPlain DEF J, D
<1>33. CASE Finish \/ ItemFailed
  <2>1. /\ UNCHANGED <<live, ret, rec, rows, jobst>> /\ run.at \in Working /\ run'.at = "ready"
        /\ item'[J] # None /\ item'[J].d = item[J].d /\ item'[J].act = item[J].act /\ item'[J].st # "pending"
        /\ temp' = temp \/ (temp'[J] = None /\ \A i \in Jobs \ {J} : temp'[i] = temp[i])
        /\ \A i \in Jobs \ {J} : item'[i] = item[i]
    BY <1>33, FinishEffect, ItemFailedEffect DEF Others, Goes, Working, ExecPoints
  <2>2. J \in Jobs /\ item[J] # None
    BY <2>1, WorkFacts
  <2>3. GoodRows /\ IntentMoves
    BY <2>1, SameRows DEF IntentMoves, HasRec
  <2>4. RowFacts'
    BY <2>1, <2>2, <2>3, RowsOn DEF HasRec
  <2>. QED
    BY <2>1, <2>4, RowPointsIdle DEF Working, ExecPoints
<1>34. CASE Retain
  <2>1. /\ UNCHANGED <<live, ret, temp, rec, rows, item, jobst>> /\ run.at = "retain" /\ run'.job = run.job /\ run'.d = run.d
        /\ item[J].act = "retain"
    BY <1>34, RetainEffect DEF Others
  <2>2. run.at \in Working /\ J \in Jobs /\ D.ret = item[J].d.ret /\ J' = J /\ D' = D /\ Beside(J)
    BY <2>1, OwnRows DEF Working, ExecPoints, J, D
  <2>3. GoodRows /\ IntentMoves
    BY <2>1, SameRows DEF IntentMoves, HasRec
  <2>4. RowFacts'
    BY <2>1, <2>3, RowsStay DEF HasRec
  <2>5. At(D.ret)' <=> At(D.ret)
    BY <2>1, <2>2 DEF At
  <2>6. CASE run'.at = "finish"
    BY <2>1, <2>2, <2>4, <2>6, PointsPlain DEF D
  <2>7. CASE run'.at = "retained" /\ live = None /\ (run'.kept => At(D.ret))
    BY <2>1, <2>2, <2>4, <2>5, <2>7 DEF RowPoints, Displacing
  <2>8. CASE run'.at = (IF D.ret = None THEN "choose" ELSE "intent") /\ live # None
    <3>1. ~At(D.ret)
      BY <2>1, <2>2, <2>8 DEF Beside
    <3>. QED
      BY <2>1, <2>2, <2>4, <2>5, <2>8, <3>1 DEF RowPoints, Displacing
  <2>. QED
    BY <1>34, <2>6, <2>7, <2>8, RetainEffect
<1>35. CASE Retained
  <2>1. /\ UNCHANGED <<live, ret, temp, item, jobst>> /\ run.at = "retained" /\ run'.at = "finish" /\ run'.job = run.job
        /\ run'.d = run.d /\ rec' = None /\ (rows' = rows \/ (run.kept /\ NewRow(D.ret, D.rv, D.rh)))
    BY <1>35, RetainedEffect DEF Others, Goes
  <2>2. /\ run.at \in Working /\ J \in Jobs /\ D.ret = item[J].d.ret
        /\ \A j \in Jobs : jobst[j] # "over" /\ item[j] # None => j = J
        /\ item[J].act \in {"put", "retain"} /\ item[J].act # "put"
    BY <2>1, OwnRows, WorkFacts DEF Working, ExecPoints, Copying, CopyPoints, IsPut, ItemType
  <2>3. GoodRows /\ IntentMoves
    BY <2>1, <2>2, SameRows, OwnRows DEF RowPoints, IntentMoves
  <2>4. \A j \in Jobs : Open(j) => item[j].act = "retain"
    BY <2>2 DEF Open, Pending
  <2>5. RowFacts'
    BY <2>1, <2>3, <2>4, RowsOn
  <2>. QED
    BY <2>1, <2>2, <2>5, PointsPlain DEF J, D
<1>36. CASE \E how \in {"fail", "fatal", "cancel"} : Fail(how)
  <2>1. /\ UNCHANGED <<live, ret, item, jobst>> /\ temp' = temp /\ run.at \in ExecPoints
        /\ rec' = rec /\ rows' = rows
        /\ run'.job = run.job /\ run'.d = run.d /\ run'.at = "putBack"
    BY <1>36, FailEffect DEF Goes
  <2>2. run.at \in Working /\ J \in Jobs /\ D.ret = item[J].d.ret
    BY <2>1, OwnRows DEF Working, ExecPoints
  <2>3. GoodRows
    BY <2>1, <2>2, SameRows
  <2>4. IntentMoves /\ (HasRec => rec' # None)
    BY <2>1, <2>2 DEF IntentMoves, HasRec
  <2>5. RowFacts'
    BY <2>1, <2>2, <2>3, <2>4, RowsStay
  <2>. QED
    BY <2>1, <2>2, <2>5, PointsPlain DEF J, D
<1>37. CASE PutBackNothing \/ PutBackFails
  <2>1. /\ UNCHANGED <<live, ret, item, jobst>> /\ temp' = temp /\ run.at \in {"putBack", "putBackDB"}
        /\ rec' = rec /\ rows' = rows
        /\ run'.job = run.job /\ run'.d = run.d /\ run'.at = "clean"
    BY <1>37, PutBackGoes DEF Goes
  <2>2. run.at \in Working /\ J \in Jobs /\ D.ret = item[J].d.ret
    BY <2>1, OwnRows DEF Working, ExecPoints
  <2>3. GoodRows
    BY <2>1, <2>2, SameRows
  <2>4. IntentMoves /\ (HasRec => rec' # None)
    BY <2>1, <2>2 DEF IntentMoves, HasRec
  <2>5. RowFacts'
    BY <2>1, <2>2, <2>3, <2>4, RowsStay
  <2>. QED
    BY <2>1, <2>2, <2>5, PointsPlain DEF J, D
<1>38. CASE PutBack
  <2>1. HasRec /\ run.at = "putBack" /\ rec.intent = D.ret
    BY <1>38 DEF PutBack, OwnIntent
  <2>2. /\ run'.at = "putBackDB" /\ UNCHANGED <<temp, rec, rows, item, jobst>> /\ run'.job = run.job /\ run'.d = run.d
        /\ \/ /\ At(rec.intent) /\ live = None /\ live' = ret[rec.intent] /\ rec.intent \in Slots
              /\ ret'[rec.intent] = None /\ \A s \in Slots : s # rec.intent => ret'[s] = ret[s]
           \/ UNCHANGED <<live, ret>>
    BY <1>38, <2>1, SettleFSEffect DEF PutBack, Goes
  <2>3. run.at \in Working /\ J \in Jobs /\ item[J] # None /\ D.ret = item[J].d.ret /\ J' = J /\ D' = D
    BY <2>1, <2>2, OwnRows DEF Working, ExecPoints, J, D
  <2>4. RowFacts'
    <3>1. CASE UNCHANGED <<live, ret>>
      <4>1. GoodRows /\ IntentMoves
        BY <2>2, SameRows DEF IntentMoves, HasRec
      <4>. QED
        BY <2>2, <3>1, <4>1, RowsStay DEF HasRec
    <3>2. CASE /\ At(rec.intent) /\ live = None /\ live' = ret[rec.intent] /\ rec.intent \in Slots
               /\ ret'[rec.intent] = None /\ \A s \in Slots : s # rec.intent => ret'[s] = ret[s]
      BY <2>1, <2>2, <2>3, <3>2, RowsBack
    <3>. QED
      BY <2>2, <3>1, <3>2
  <2>. QED
    BY <2>1, <2>2, <2>3, <2>4 DEF RowPoints, Displacing
<1>39. CASE PutBackRecord
  <2>1. HasRec /\ run.at = "putBackDB" /\ rec.intent = D.ret
    BY <1>39 DEF PutBackRecord, AtPoints, RowPoints
  <2>2. /\ run'.at = "clean" /\ run'.job = run.job /\ run'.d = run.d
        /\ UNCHANGED <<live, ret, temp, item, jobst>> /\ rec' # None /\ rec'.intent = None
        /\ rows' = rows \/ (At(rec.intent) /\ NewRow(rec.intent, ret[rec.intent].c, D.rh))
    BY <1>39, <2>1, SettleDBEffect DEF PutBackRecord, Goes, Others
  <2>3. /\ run.at \in Working /\ J \in Jobs /\ item[J] # None /\ D.ret = item[J].d.ret
        /\ D.ret # None => D.rv = item[J].d.rv
    BY <2>1, OwnRows DEF Working, ExecPoints
  <2>4. At(D.ret) => ret[D.ret].c = D.rv
    BY <2>3 DEF RowFacts, Described, At
  <2>5. GoodRows
    BY <2>1, <2>2, <2>3, <2>4, SameRows, OwnRows
  <2>6. RowFacts'
    BY <2>2, <2>5, RowsStay DEF IntentMoves
  <2>. QED
    BY <2>2, <2>3, <2>6, PointsPlain DEF J, D
<1>40. CASE Salvage \/ Cancelled
  <2>1. /\ UNCHANGED <<live, ret, rec, item>> /\ run.at \in Working /\ run'.at = "idle"
        /\ \A i \in Jobs \ {J} : jobst'[i] = jobst[i]
        /\ temp' = temp \/ (temp'[J] = None /\ \A i \in Jobs \ {J} : temp'[i] = temp[i])
        /\ rows' = rows \/ (At(D.disp) /\ NewRow(D.disp, D.dv, 0))
    BY <1>40, StopsEffect DEF Working, ExecPoints
  <2>2. jobst[J] = "running" /\ J \in Jobs
    BY <2>1, OnlyOne DEF Working, ExecPoints
  <2>3. GoodRows /\ IntentMoves
    BY <2>1, SameRows, OwnRows DEF IntentMoves, HasRec
  <2>4. RowFacts'
    BY <2>1, <2>2, <2>3, RowsStay DEF HasRec
  <2>. QED
    BY <2>1, <2>4, RowPointsIdle DEF Working, ExecPoints
<1>41. CASE UNCHANGED vars
  <2>1. UNCHANGED <<live, ret, temp, rec, rows, item, jobst, run>>
    BY <1>41 DEF vars, disk, base
  <2>2. GoodRows /\ IntentMoves
    BY <2>1, SameRows DEF IntentMoves, HasRec
  <2>3. RowFacts'
    BY <2>1, <2>2, RowsStay DEF HasRec
  <2>4. RowPoints'
    BY <2>1 DEF RowPoints, Unlinked, HasRec, At, J, D
  <2>. QED
    BY <2>3, <2>4
<1>. QED
    BY <1>1, <1>2, <1>3, <1>4, <1>5, <1>6, <1>7, <1>8, <1>9, <1>10, <1>11, <1>12, <1>13, <1>14,
       <1>15, <1>16, <1>17, <1>18, <1>19, <1>20, <1>21, <1>22, <1>23, <1>24, <1>25, <1>26,
       <1>27, <1>28, <1>29, <1>30, <1>31, <1>32, <1>33, <1>34, <1>35, <1>36, <1>37, <1>38,
       <1>39, <1>40, <1>41 DEF Next, Reconcile, Sync, Place, Stop, Other

-----------------------------------------------------------------------------
(* The record of the path.                                                 *)

\* No file moves, and the record stays true.
LEMMA RecOn ==
    ASSUME RecFacts, UNCHANGED <<world, live, ret>>, Present',
           \A i \in Jobs : /\ item'[i] = None <=> item[i] = None
                           /\ item'[i].d = item[i].d /\ item'[i].act = item[i].act
                           /\ item'[i].st = "pending" => item[i].st = "pending"
                           /\ jobst'[i] # "over" => jobst[i] # "over"
                           /\ temp'[i] \in {None, temp[i]},
           \A i \in Jobs : Open(i) /\ Linked(i) => temp'[i] = temp[i] /\ rec'.intent = rec.intent
    PROVE  RecFacts'
<1>1. \A s : At(s)' <=> At(s)
    BY DEF At
<1>2. \A i \in Jobs : (Linked(i)' <=> Linked(i)) /\ (Open(i)' => Open(i)) /\ (Committed(i) => Committed(i)')
    BY <1>1 DEF Linked, Open, Pending, Committed
<1>3. OwnFiles'
    BY <1>1, <1>2 DEF RecFacts, OwnFiles
<1>4. GoesOn'
    BY <1>2 DEF RecFacts, GoesOn
<1>. QED
    BY <1>3, <1>4 DEF RecFacts

\* Nor does anything else change but the state of a job.
LEMMA RecStays ==
    ASSUME RecFacts, UNCHANGED <<world, live, ret, temp, rec, item>>, \A i \in Jobs : jobst'[i] # "over" => jobst[i] # "over"
    PROVE  RecFacts'
<1>1. Present'
    BY DEF RecFacts, Present, HasRec, At
<1>. QED
    BY <1>1, RecOn

\* What the open item in memory says, once more.
LEMMA OwnRecord ==
    ASSUME TypeOK, AtPoints, Ordered, Describing, Recording, run.at \in Working
    PROVE  /\ J \in Jobs /\ item[J] # None /\ Open(J) /\ Pending(J) /\ jobst[J] # "over" /\ NothingOpen
           /\ HasRec => rec.intent \in {None, D.ret}
           /\ run.at \notin {"begin", "put", "commit"} => \A i \in Jobs : Open(i) => ~Linked(i)
           /\ \A i \in Jobs \ {J} : jobst[i] # "over" => item[i] = None /\ (live # None => live.n # i)
<1>1. J \in Jobs /\ item[J] # None /\ Open(J) /\ D.ret = item[J].d.ret
    BY OwnRows
<1>2. \A i \in Jobs : jobst[i] # "over" /\ i # J => item[i] = None
    BY OnlyOne DEF Working, ExecPoints
<1>3. NothingOpen
    BY DEF Recording, RecPoints
<1>4. HasRec => rec.intent \in {None, D.ret}
  <2>1. SUFFICES ASSUME HasRec, rec.intent # None PROVE rec.intent = D.ret
    OBVIOUS
  <2>2. rec.intent \in Slots /\ rec.intent[1] = J
    BY <1>3, <2>1, Shapes DEF NothingOpen, RecType
  <2>. QED
    BY <1>1, <2>1, <2>2 DEF Describing, RowFacts, OwnIntents, Intended, Open
<1>5. run.at \notin {"begin", "put", "commit"} => \A i \in Jobs : Open(i) => ~Linked(i)
    BY <1>1, <1>2 DEF Recording, RecPoints, Open, Pending
<1>6. \A i \in Jobs \ {J} : jobst[i] # "over" => item[i] = None /\ (live # None => live.n # i)
    BY <1>2 DEF Recording, RecFacts, OwnFiles
<1>. QED
    BY <1>1, <1>2, <1>3, <1>4, <1>5, <1>6 DEF Open

\* The item's detail is saved while its file is not at the path.
LEMMA RecSaved ==
    ASSUME TypeOK, AtPoints, Ordered, Describing, Recording, run.at \in Working, UNCHANGED <<world, live, ret, temp, rec, jobst>>,
           NEW e, Saves(e), live # None => live.n # J, ~(At(e.ret) /\ live = ret[e.ret])
    PROVE  RecFacts' /\ ~(At(item'[J].d.ret) /\ live = ret[item'[J].d.ret])
<1>1. J \in Jobs /\ item[J] # None /\ \A i \in Jobs \ {J} : jobst[i] # "over" => item[i] = None /\ (live # None => live.n # i)
    BY OwnRecord
<1>k. PICK k \in Jobs : k = J
    BY <1>1
<1>2. item'[k] # None /\ item'[k].d = e /\ \A i \in Jobs \ {k} : item'[i] = item[i]
    BY <1>k DEF Saves
<1>3. \A s : At(s)' <=> At(s)
    BY DEF At
<1>4. Present'
    BY <1>3 DEF Recording, RecFacts, Present, HasRec
<1>5. OwnFiles'
    BY <1>1, <1>2, <1>3, <1>k DEF Recording, RecFacts, OwnFiles
<1>6. ~Linked(k)' /\ \A i \in Jobs : Open(i)' => i = k
    BY <1>1, <1>2, <1>3, <1>k DEF Linked, Open, Pending
<1>7. GoesOn'
    BY <1>6 DEF GoesOn
<1>. QED
    BY <1>2, <1>k, <1>4, <1>5, <1>7 DEF RecFacts

\* A job that is neither settling nor at its item.
LEMMA RecPointsIdle ==
    ASSUME run'.at \in {"idle", "sweep", "sweepPlaced", "sweepTemp", "settle"}
    PROVE  RecPoints'
BY DEF RecPoints, Working, ExecPoints, Displacing

\* A job that settled, or that stopped its item.
LEMMA RecPointsPlain ==
    ASSUME run'.at \in {"ready", "expired", "begin", "put"}
           \/ (run'.at \in {"retain", "retained", "record", "finish", "putBack", "clean"} /\ ~Linked(J)'),
           NothingOpen'
    PROVE  RecPoints'
BY DEF RecPoints, Working, ExecPoints, Displacing

\* The file of an intent goes back to its path.
LEMMA RecBack ==
    ASSUME TypeOK, TypeOK', AtPoints, Ordered, Describing, Recording, run.at # "idle", HasRec,
           UNCHANGED <<world, temp, rec, item, jobst>>, NEW t \in Slots, t = rec.intent, At(t), live = None,
           live' = ret[t], ret'[t] = None, \A s \in Slots : s # t => ret'[s] = ret[s],
           t[1] # J \/ (item[J] # None /\ item[J].d.ret = t)
    PROVE  RecFacts' /\ ~At(t)' /\ \A i \in Jobs : Open(i) => ~Linked(i)'
<1>1. J \in Jobs /\ \A j \in Jobs : jobst[j] # "over" /\ item[j] # None => j = J
    BY OnlyOne
<1>k. PICK k \in Jobs : k = J
    BY <1>1
<1>2. ~At(t)' /\ t # None /\ live' # None /\ \A s \in Slots \cup {None} : At(s)' => At(s) /\ s # t /\ ret'[s] = ret[s]
    BY SyncAssumption DEF At
<1>3. Present'
  <2>1. rec.st = "present" => ret[t].c = rec.v
    BY DEF Recording, RecFacts, Present
  <2>. QED
    BY <1>2, <2>1 DEF Present, HasRec
<1>4. \A j \in Jobs : jobst[j] # "over" => live'.n # j
    BY DEF Recording, RecFacts, OwnFiles
<1>5. OwnFiles'
    BY <1>2, <1>4 DEF Recording, RecFacts, OwnFiles
<1>6. ASSUME Open(k) PROVE ~Linked(k)'
  <2>1. item[k] # None /\ item[k].d.ret \in Slots \cup {None} /\ Retaining(k)
    BY <1>6, Shapes DEF Open, Pending, DetailType, Describing, RowFacts
  <2>2. At(item[k].d.ret) => t = item[k].d.ret
    BY <1>2, <2>1 DEF Retaining
  <2>. QED
    BY <1>2, <2>1, <2>2 DEF Linked
<1>7. \A i \in Jobs : (Open(i)' <=> Open(i)) /\ (Open(i) => i = k)
    BY <1>1, <1>k DEF Open, Pending
<1>8. GoesOn'
    BY <1>6, <1>7 DEF GoesOn
<1>. QED
    BY <1>2, <1>3, <1>5, <1>6, <1>7, <1>8 DEF RecFacts

\* The intent is cleared, and with it the record of a file that is not there.
LEMMA RecCleared ==
    ASSUME TypeOK, Recording, HasRec, run.at \in {"settleDB", "putBackDB"}, UNCHANGED <<world, live, ret, temp, item, jobst>>,
           rec' # None, rec'.intent = None, rec'.v = rec.v, rec'.st = (IF run.unknown THEN "missing" ELSE rec.st),
           \A i \in Jobs : Open(i) => ~Linked(i)
    PROVE  RecFacts' /\ NothingOpen'
<1>1. ~At(None)'
    BY DEF At
<1>2. rec'.st = "present" => live # None /\ live.c = rec.v
  <2>1. SUFFICES ASSUME rec'.st = "present" PROVE live # None /\ live.c = rec.v
    OBVIOUS
  <2>2. ~run.unknown /\ rec.st = "present"
    BY <2>1
  <2>3. ~At(rec.intent) \/ SameFile(rec.intent)
    BY <2>2 DEF Recording, RecPoints
  <2>. QED
    BY <2>2, <2>3 DEF Recording, RecFacts, Present, SameFile, At
<1>3. Present'
    BY <1>1, <1>2 DEF Present
<1>4. RecFacts'
    BY <1>3, RecOn DEF Recording
<1>. QED
    BY <1>4 DEF NothingOpen

\* Every step keeps the record true, while nobody else touches the path, every file can be moved back
\* and no hardlinked item failed.
LEMMA RecordingKept ==
    ASSUME TypeOK, TypeOK', AtPoints, AtPoints', NewVersionExists, ReplacesLinked, world.inOrder,
           Ordered, Copying, Describing, Recording, [Next]_vars,
           bounds'.meddles = 0, bounds'.stuck = 0, world.hardlinks => bounds'.errors = 0
    PROVE  Recording'
<1>. USE DEF Recording
<1>1. CASE SourceChanges \/ SourceVanishes
  <2>1. UNCHANGED <<world, live, ret, temp, rec, item, jobst, run>>
    BY <1>1, SourceEffect
  <2>2. RecFacts'
    BY <2>1, RecStays
  <2>3. RecPoints'
    BY <2>1 DEF RecPoints, NothingOpen, Linked, SameFile, HasRec, At, J, D
  <2>. QED
    BY <2>2, <2>3
<1>2. CASE Meddle
    BY <1>2, MeddleEffect
<1>3. CASE \E j \in Jobs, k \in {"sync", "verify", "retention"} : Start(j, k)
  <2>0. PICK j \in Jobs, k \in {"sync", "verify", "retention"} : Start(j, k)
    BY <1>3
  <2>1. /\ UNCHANGED <<world, live, ret, temp, rec, item>> /\ run'.at = "sweep"
        /\ jobst[j] \in {"new", "queued"} /\ \A i \in Jobs \ {j} : jobst'[i] = jobst[i]
    BY <2>0, StartEffect
  <2>2. RecFacts'
    BY <2>1, RecStays
  <2>. QED
    BY <2>1, <2>2, RecPointsIdle
<1>4. CASE Crash
  <2>1. /\ UNCHANGED <<world, live, ret, temp, rec, item>> /\ run'.at = "idle" /\ run.at # "idle"
        /\ \A i \in Jobs \ {J} : jobst'[i] = jobst[i]
    BY <1>4, CrashEffect
  <2>2. jobst[J] = "running"
    BY <2>1, OnlyOne
  <2>3. RecFacts'
    BY <2>1, <2>2, RecStays
  <2>. QED
    BY <2>1, <2>3, RecPointsIdle
<1>5. CASE \E i \in Jobs : SweepDisplaced(i) \/ SweepPlaced(i) \/ SweepTemp(i)
  <2>1. PICK i \in Jobs : SweepDisplaced(i) \/ SweepPlaced(i) \/ SweepTemp(i)
    BY <1>5
  <2>2. /\ UNCHANGED <<world, live, ret, item, jobst>> /\ run'.at \in Sweeping /\ run.at \in Sweeping
        /\ i \in run.todo /\ item[i] # None
        /\ temp' = temp \/ (temp'[i] = None /\ \A k \in Jobs \ {i} : temp'[k] = temp[k])
        /\ \/ rec' = rec
           \/ /\ FinishedPlaced(i, item[i].d)
              /\ rec'.st = "present" /\ rec'.v = item[i].d.tv /\ rec'.intent = None /\ rec' # None
    BY <2>1, SweepEffect DEF Others
  <2>3. J \in Jobs /\ i # J /\ \A j \in Jobs : Open(j) => j = J /\ j # i
    BY <2>2, OnlyOne DEF Sweeping, Open, Pending
  <2>4. ASSUME NEW j \in Jobs, Open(j), Linked(j) PROVE rec'.intent = rec.intent
    <3>1. rec.intent = item[j].d.ret /\ item[j].d.ret # None /\ item[j] # None
      BY <2>4 DEF RecFacts, GoesOn, Linked, At, Open, Pending
    <3>2. rec.intent[1] = j
      BY <2>4, <3>1 DEF Ordered, OwnPaths
    <3>3. ~FinishedPlaced(i, item[i].d)
      <4>1. FinishedPlaced(i, item[i].d) => rec.intent = item[i].d.ret /\ item[i].d.ret # None
        BY DEF FinishedPlaced, At
      <4>2. item[i].d.ret # None => item[i].d.ret[1] = i
        BY <2>2 DEF Ordered, OwnPaths
      <4>. QED
        BY <2>3, <2>4, <3>2, <4>1, <4>2
    <3>. QED
      BY <2>2, <3>3
  <2>5. Present'
    <3>1. CASE rec' = rec
      BY <2>2, <3>1 DEF RecFacts, Present, HasRec, At
    <3>2. CASE FinishedPlaced(i, item[i].d) /\ rec'.v = item[i].d.tv /\ rec'.intent = None
      BY <2>2, <3>2 DEF FinishedPlaced, Present, At
    <3>. QED
      BY <2>2, <3>1, <3>2
  <2>6. RecFacts'
    <3>1. \A j \in Jobs : Open(j) => temp'[j] = temp[j]
      BY <2>2, <2>3
    <3>2. \A j \in Jobs : temp'[j] \in {None, temp[j]}
      BY <2>2
    <3>. QED
      BY <2>2, <2>4, <2>5, <3>1, <3>2, RecOn
  <2>. QED
    BY <2>2, <2>6, RecPointsIdle DEF Sweeping
<1>6. CASE SweepEnd \/ SettleNothing
  <2>1. /\ UNCHANGED <<world, live, ret, temp, rec, item, jobst>> /\ run'.job = run.job
        /\ run'.at = "settle" \/ (run'.at = "ready" /\ ~Unsettled)
    BY <1>6, ReconcileGoes DEF Others, Goes
  <2>2. RecFacts'
    BY <2>1, RecStays
  <2>3. run'.at = "ready" => NothingOpen'
    BY <2>1 DEF Unsettled, NothingOpen, HasRec, J
  <2>. QED
    BY <2>1, <2>2, <2>3, RecPointsIdle, RecPointsPlain
<1>7. CASE Settle
  <2>1. HasRec /\ run.at = "settle" /\ rec.intent[1] # J
    BY <1>7 DEF Settle, Unsettled
  <2>2. /\ run'.at = "settleDB" /\ UNCHANGED <<world, temp, rec, item, jobst>> /\ run'.job = run.job
        /\ \/ /\ At(rec.intent) /\ live = None /\ live' = ret[rec.intent] /\ rec.intent \in Slots
              /\ ret'[rec.intent] = None /\ \A s \in Slots : s # rec.intent => ret'[s] = ret[s]
           \/ UNCHANGED <<live, ret>> /\ run'.unknown = (At(rec.intent) /\ ~SameFile(rec.intent))
    BY <1>7, <2>1, SettleFSEffect DEF Settle, Goes
  <2>3. J' = J /\ rec'.intent[1] # J
    BY <2>1, <2>2 DEF J
  <2>4. CASE UNCHANGED <<live, ret>> /\ run'.unknown = (At(rec.intent) /\ ~SameFile(rec.intent))
    <3>1. RecFacts'
      BY <2>2, <2>4, RecStays
    <3>2. ~run'.unknown => (~At(rec.intent) \/ SameFile(rec.intent))'
      BY <2>2, <2>4 DEF At, SameFile
    <3>. QED
      BY <2>2, <2>3, <3>1, <3>2 DEF RecPoints, Working, ExecPoints, Displacing
  <2>5. CASE /\ At(rec.intent) /\ live = None /\ live' = ret[rec.intent] /\ rec.intent \in Slots
             /\ ret'[rec.intent] = None /\ \A s \in Slots : s # rec.intent => ret'[s] = ret[s]
    <3>1. RecFacts'
      BY <2>1, <2>2, <2>5, RecBack
    <3>2. ~At(rec.intent)'
      BY <2>2, <2>5 DEF At
    <3>. QED
      BY <2>2, <2>3, <3>1, <3>2 DEF RecPoints, Working, ExecPoints, Displacing
  <2>. QED
    BY <2>2, <2>4, <2>5
<1>8. CASE SettleRecord
  <2>1. HasRec /\ run.at = "settleDB" /\ rec.intent[1] # J
    BY <1>8 DEF SettleRecord, AtPoints, RecPoints
  <2>2. /\ run'.at = "ready" /\ UNCHANGED <<world, live, ret, temp, item, jobst>>
        /\ rec' # None /\ rec'.intent = None /\ rec'.v = rec.v
        /\ rec'.st = (IF run.unknown THEN "missing" ELSE rec.st)
    BY <1>8, <2>1, SettleDBEffect DEF SettleRecord, Goes, Others
  <2>3. \A i \in Jobs : Open(i) => i = J
    BY <2>1, OnlyOne DEF Open, Pending
  <2>4. ASSUME NEW i \in Jobs, Open(i) PROVE ~Linked(i)
    <3>1. SUFFICES ASSUME Linked(i) PROVE FALSE
      OBVIOUS
    <3>2. rec.intent = item[i].d.ret /\ item[i].d.ret # None /\ item[i] # None
      BY <2>4, <3>1 DEF RecFacts, GoesOn, Linked, At, Open, Pending
    <3>. QED
      BY <2>1, <2>3, <2>4, <3>2 DEF Ordered, OwnPaths
  <2>5. RecFacts' /\ NothingOpen'
    BY <2>1, <2>2, <2>4, RecCleared
  <2>. QED
    BY <2>2, <2>5, RecPointsPlain
<1>9. CASE ReconcileFails
    BY <1>9, ReconcileFailsEffect
<1>10. CASE Plan
  <2>1. /\ UNCHANGED <<world, live, ret, temp, rec, run, jobst>> /\ run.at = "ready" /\ J \in Jobs
        /\ item[J] = None /\ item'[J] # None /\ item'[J].d = NoDetail /\ \A i \in Jobs \ {J} : item'[i] = item[i]
    BY <1>10, PlanEffect DEF Others
  <2>2. PICK k \in Jobs : k = J
    BY <2>1
  <2>a. NoDetail.ret = None /\ ~At(None)'
    BY DEF NoDetail, At
  <2>b. item'[k].d.ret = None
    BY <2>1, <2>2, <2>a
  <2>c. \A s : At(s)' <=> At(s)
    BY <2>1 DEF At
  <2>3. ~At(item[k].d.ret)' /\ \A s : At(s)' <=> At(s)
    BY <2>a, <2>b, <2>c
  <2>4. \A j \in Jobs : (Committed(j)' <=> Committed(j)) \/ j = k
    BY <2>1, <2>2 DEF Committed, At
  <2>5. OwnFiles'
    BY <2>1, <2>2, <2>3, <2>4 DEF RecFacts, OwnFiles
  <2>6. \A j \in Jobs : Open(j)' /\ Linked(j)' => j # k /\ Open(j) /\ Linked(j)
    BY <2>1, <2>2, <2>3 DEF Open, Pending, Linked, At
  <2>7. GoesOn'
    BY <2>1, <2>2, <2>6 DEF RecFacts, GoesOn
  <2>8. Present' /\ NothingOpen'
    BY <2>1, <2>3 DEF RecFacts, Present, NothingOpen, HasRec, J, RecPoints
  <2>. QED
    BY <2>1, <2>5, <2>7, <2>8, RecPointsPlain DEF RecFacts
<1>11. CASE Begin
  <2>1. /\ UNCHANGED <<world, live, ret, temp, rec, item, jobst>> /\ run.at = "ready" /\ run'.at = "begin" /\ run'.job = run.job
    BY <1>11, BeginEffect DEF Others
  <2>2. RecFacts' /\ NothingOpen'
    BY <2>1, RecStays DEF RecPoints, NothingOpen, HasRec, J
  <2>. QED
    BY <2>1, <2>2, RecPointsPlain
<1>12. CASE NothingToDo \/ Verify \/ ExpireEnd
  <2>1. /\ UNCHANGED <<world, live, ret, temp, item>> /\ run'.at = "idle"
        /\ \A i \in Jobs : jobst'[i] # "over" => jobst[i] # "over"
        /\ rec' = rec \/ (rec'.st = "missing" /\ rec'.intent = rec.intent)
    BY <1>12, EndsEffect
  <2>2. Present'
    BY <2>1 DEF RecFacts, Present, HasRec, At
  <2>3. RecFacts'
    BY <2>1, <2>2, RecOn
  <2>. QED
    BY <2>1, <2>3, RecPointsIdle
<1>13. CASE \E r \in rows : ExpireFile(r)
  <2>1. PICK r \in rows : ExpireFile(r)
    BY <1>13
  <2>2. /\ UNCHANGED <<world, live, temp, rec, item, jobst>> /\ run.at = "ready" /\ run'.at = "expired" /\ run'.job = run.job
        /\ kind[J] = "retention" /\ J \in Jobs /\ \A s \in Slots : ret'[s] = None \/ ret'[s] = ret[s]
    BY <2>1, ExpireFileEffect DEF Others
  <2>3. item[J] = None /\ NothingOpen /\ NothingOpen'
    BY <2>2 DEF Ordered, OneUnfinished, RecPoints, NothingOpen, HasRec, J
  <2>4. HasRec => rec.intent = None
    <3>1. SUFFICES ASSUME HasRec, rec.intent # None PROVE FALSE
      OBVIOUS
    <3>2. rec.intent \in Slots /\ rec.intent[1] = J
      BY <2>3, <3>1, Shapes DEF NothingOpen, RecType
    <3>. QED
      BY <2>2, <2>3, <3>1, <3>2 DEF Describing, RowFacts, NothingYet, Intended
  <2>5. Present'
    BY <2>2, <2>4 DEF RecFacts, Present, HasRec, At
  <2>6. \A j \in Jobs : jobst[j] # "over" => item[j] = None
    BY <2>2, <2>3, OnlyOne
  <2>7. \A s \in Slots : At(s)' => At(s) /\ ret'[s] = ret[s]
    BY <2>2 DEF At
  <2>8. OwnFiles'
    BY <2>2, <2>6, <2>7 DEF RecFacts, OwnFiles
  <2>9. GoesOn'
    BY <2>2, <2>6 DEF GoesOn, Open, Pending
  <2>. QED
    BY <2>2, <2>3, <2>5, <2>8, <2>9, RecPointsPlain DEF RecFacts
<1>14. CASE ExpireRow
  <2>1. /\ UNCHANGED <<world, live, ret, temp, rec, item, jobst>> /\ run.at = "expired" /\ run'.at = "ready" /\ run'.job = run.job
    BY <1>14, ExpireRowEffect DEF Others
  <2>2. RecFacts' /\ NothingOpen'
    BY <2>1, RecStays DEF RecPoints, NothingOpen, HasRec, J
  <2>. QED
    BY <2>1, <2>2, RecPointsPlain
<1>15. CASE EarlierDisplace
  <2>1. /\ UNCHANGED <<world, live, ret, temp, rec, item, jobst>> /\ run.at = "begin" /\ run'.at = item[J].act /\ run'.job = run.job
    BY <1>15, EarlierEffect DEF Others, Goes
  <2>2. /\ run.at \in Working /\ J \in Jobs /\ item[J].act \in {"put", "retain"} /\ J' = J /\ Beside(J) /\ NothingOpen
    BY <2>1, OwnRows, OwnRecord, WorkFacts DEF Working, ExecPoints, ItemType, J
  <2>3. RecFacts' /\ NothingOpen'
    BY <2>1, <2>2, RecStays DEF NothingOpen, HasRec
  <2>4. item[J].act = "retain" => ~Linked(J)'
    BY <2>1, <2>2 DEF Beside, Linked, At
  <2>. QED
    BY <2>1, <2>2, <2>3, <2>4, RecPointsPlain
<1>16. CASE PutResumed
  <2>1. /\ UNCHANGED <<world, live, ret, temp, rec, item, jobst>> /\ run.at = "put" /\ run'.job = run.job
    BY <1>16, PutResumedEffect DEF Others, Goes
  <2>2. run.at \in Working /\ J \in Jobs /\ Open(J) /\ D.ret = item[J].d.ret /\ J' = J /\ NothingOpen
    BY <2>1, OwnRows, OwnRecord DEF Working, ExecPoints, J
  <2>3. RecFacts' /\ NothingOpen'
    BY <2>1, <2>2, RecStays DEF NothingOpen, HasRec
  <2>4. CASE HalfDone /\ run'.at = "commit"
    <3>1. HasRec /\ rec.st = "present" => rec.intent # None
      <4>1. CASE live = None
        BY <4>1 DEF RecFacts, Present, At
      <4>2. CASE LinkedOld
        <5>1. Linked(J)
          BY <2>2, <4>2 DEF LinkedOld, SameFile, Linked
        <5>. QED
          BY <2>2, <5>1 DEF RecFacts, GoesOn, Linked, At
      <4>. QED
        BY <2>4, <4>1, <4>2 DEF HalfDone
    <3>. QED
      BY <2>1, <2>2, <2>3, <2>4, <3>1 DEF RecPoints, Displacing, HasRec
  <2>5. CASE RenamedInto /\ run'.at = "record"
    <3>1. ~Linked(J)'
      BY <2>1, <2>2, <2>5 DEF RenamedInto, LinkedOld, SameFile, Linked, At
    <3>. QED
      BY <2>3, <2>5, <3>1, RecPointsPlain
  <2>. QED
    BY <1>16, <2>4, <2>5, PutResumedEffect DEF Goes
<1>17. CASE PutAnew
  <2>1. /\ UNCHANGED <<world, live, ret, rec, item, jobst>> /\ run.at = "put" /\ run'.job = run.job
        /\ run'.at \in {"putBack", "finish", "way", "write"} /\ ~HalfDone /\ ~RenamedInto
        /\ temp' = temp \/ (temp'[J] = None /\ \A i \in Jobs \ {J} : temp'[i] = temp[i])
    BY <1>17, PutAnewEffect DEF Others, Goes
  <2>2. /\ run.at \in Working /\ J \in Jobs /\ item[J] # None /\ Open(J) /\ Pending(J) /\ D.ret = item[J].d.ret /\ J' = J /\ NothingOpen
        /\ Retaining(J) /\ IsPut /\ jobst[J] # "over"
        /\ \A i \in Jobs : jobst[i] # "over" /\ item[i] # None => i = J
    BY <2>1, OwnRows, OwnRecord DEF Working, ExecPoints, J, Ordered, Placing
  <2>3. D.done = item[J].d.done /\ D.temp = item[J].d.temp /\ D.tv = item[J].d.tv
    BY <2>1, <2>2 DEF Ordered, SameDetail
  <2>4. ~Linked(J)
    <3>1. SUFFICES ASSUME Linked(J) PROVE HalfDone
      BY <2>1
    <3>2. D.temp /\ D.done /\ temp[J] # None
      BY <2>2, <2>3, <3>1 DEF RecFacts, GoesOn
    <3>3. LinkedOld /\ D.ret # None
      BY <2>2, <3>1 DEF Linked, LinkedOld, SameFile, At
    <3>4. HasRec
      BY <2>2, <3>3 DEF Retaining, IsPut
    <3>. QED
      BY <3>2, <3>3, <3>4 DEF HalfDone, TempComplete
  <2>5. live # None => live.n # J
    <3>1. SUFFICES ASSUME live # None, live.n = J PROVE RenamedInto
      BY <2>1
    <3>2. Committed(J)
      BY <2>2, <3>1 DEF RecFacts, OwnFiles, Pending
    <3>. QED
      BY <2>2, <2>3, <2>4, <3>1, <3>2 DEF Committed, RenamedInto, LinkedOld, SameFile, Linked
  <2>6. \A i \in Jobs : Open(i) => ~Linked(i)
    BY <2>2, <2>4 DEF Open, Pending
  <2>7. Present' /\ NothingOpen' /\ ~Linked(J)'
    BY <2>1, <2>2, <2>4 DEF RecFacts, Present, NothingOpen, HasRec, At, Linked
  <2>8. \A i \in Jobs : temp'[i] \in {None, temp[i]}
    BY <2>1, <2>2
  <2>9. RecFacts'
    BY <2>1, <2>6, <2>7, <2>8, RecOn
  <2>. QED
    BY <2>1, <2>2, <2>5, <2>7, <2>9 DEF RecPoints, Displacing
<1>18. CASE Adopt
  <2>1. /\ UNCHANGED <<world, live, ret, item, jobst>> /\ temp' = temp /\ run.at = "way" /\ run'.job = run.job
        /\ rec' # None /\ rec'.intent = None /\ live # None /\ rec'.v = live.c /\ run'.at = "finish"
    BY <1>18, AdoptEffect DEF Others, Goes
  <2>2. /\ run.at \in Working /\ J \in Jobs /\ Open(J) /\ D.ret = item[J].d.ret /\ J' = J /\ NothingOpen
        /\ \A i \in Jobs : Open(i) => ~Linked(i)
    BY <2>1, OwnRows, OwnRecord DEF Working, ExecPoints, J
  <2>3. Present'
    BY <2>1, <2>2 DEF Present, At
  <2>4. RecFacts'
    BY <2>1, <2>2, <2>3, RecOn
  <2>5. NothingOpen' /\ ~Linked(J)'
    BY <2>1, <2>2 DEF NothingOpen, Linked, At
  <2>. QED
    BY <2>1, <2>2, <2>4, <2>5 DEF RecPoints, Displacing
<1>19. CASE InTheWay
  <2>1. /\ UNCHANGED <<world, live, ret, item, jobst>> /\ temp' = temp /\ run.at = "way" /\ run'.job = run.job
        /\ rec' = rec /\ run'.at = "displace"
    BY <1>19, InTheWayEffect DEF Others, Goes
  <2>2. /\ run.at \in Working /\ J \in Jobs /\ Open(J) /\ D.ret = item[J].d.ret /\ J' = J /\ NothingOpen
        /\ \A i \in Jobs : Open(i) => ~Linked(i)
    BY <2>1, OwnRows, OwnRecord DEF Working, ExecPoints, J
  <2>3. Present'
    BY <2>1, <2>2 DEF RecFacts, Present, HasRec, At
  <2>4. RecFacts'
    BY <2>1, <2>2, <2>3, RecOn
  <2>5. NothingOpen' /\ ~Linked(J)'
    BY <2>1, <2>2 DEF NothingOpen, HasRec, Linked, At
  <2>. QED
    BY <2>1, <2>2, <2>4, <2>5 DEF RecPoints, Displacing
<1>20. CASE Displace
  <2>1. /\ UNCHANGED <<world, live, ret, temp, rec, jobst>> /\ run.at = "displace" /\ run'.job = run.job /\ Saves(run'.d)
        /\ run'.at = "displaceFS" /\ run'.d.ret = D.ret
    BY <1>20, DisplaceEffect DEF Others
  <2>2. /\ run.at \in Working /\ J \in Jobs /\ Open(J) /\ D.ret = item[J].d.ret /\ J' = J /\ NothingOpen
        /\ ~Linked(J) /\ (live # None => live.n # J)
    BY <2>1, OwnRows, OwnRecord DEF Working, ExecPoints, J, RecPoints, Displacing
  <2>3. ~(At(run'.d.ret) /\ live = ret[run'.d.ret])
    BY <2>1, <2>2 DEF Linked
  <2>4. RecFacts' /\ ~(At(item'[J].d.ret) /\ live = ret[item'[J].d.ret])
    BY <2>1, <2>2, <2>3, RecSaved
  <2>5. NothingOpen' /\ ~Linked(J)'
    BY <2>1, <2>2, <2>4 DEF NothingOpen, HasRec, Linked, At
  <2>. QED
    BY <2>1, <2>2, <2>4, <2>5 DEF RecPoints, Displacing
<1>21. CASE DisplaceFS
  <2>1. /\ UNCHANGED <<world, temp, rec, item, jobst>> /\ run.at = "displaceFS" /\ run'.at = "displaced" /\ run'.job = run.job
        /\ live # None /\ live' = None /\ ret'[D.disp] = live /\ \A s \in Slots : s # D.disp => ret'[s] = ret[s]
    BY <1>21, DisplaceFSEffect DEF Others, Goes
  <2>2. /\ run.at \in Working /\ J \in Jobs /\ J' = J /\ ~HasRec /\ live.n # J
        /\ \A i \in Jobs \ {J} : jobst[i] # "over" => item[i] = None /\ live.n # i
    BY <2>1, OwnRecord DEF Working, ExecPoints, J, RecPoints, Displacing, Describing, RowPoints
  <2>3. Present' /\ NothingOpen'
    BY <2>1, <2>2 DEF Present, NothingOpen, HasRec
  <2>4. \A i \in Jobs : ~Linked(i)'
    BY <2>1 DEF Linked, At
  <2>5. OwnFiles'
    <3>1. \A j \in Jobs : jobst[j] # "over" => live.n # j
      BY <2>1, <2>2
    <3>2. \A s \in Slots : At(s)' => ret'[s] = live \/ (At(s) /\ ret'[s] = ret[s])
      BY <2>1 DEF At
    <3>. QED
      BY <2>1, <3>1, <3>2 DEF RecFacts, OwnFiles
  <2>6. GoesOn' /\ ~Linked(J)'
    BY <2>2, <2>4 DEF GoesOn
  <2>. QED
    BY <2>1, <2>2, <2>3, <2>5, <2>6 DEF RecFacts, RecPoints, Displacing
<1>22. CASE Displaced
  <2>1. /\ UNCHANGED <<world, live, ret, item, jobst>> /\ temp' = temp /\ run.at = "displaced" /\ run'.job = run.job
        /\ rec' = rec /\ run'.at = "write"
    BY <1>22, DisplacedDone DEF Others, Describing, RowPoints, Displacing
  <2>2. /\ run.at \in Working /\ J \in Jobs /\ Open(J) /\ D.ret = item[J].d.ret /\ J' = J /\ NothingOpen
        /\ \A i \in Jobs : Open(i) => ~Linked(i)
    BY <2>1, OwnRows, OwnRecord DEF Working, ExecPoints, J
  <2>3. Present'
    BY <2>1, <2>2 DEF RecFacts, Present, HasRec, At
  <2>4. RecFacts'
    BY <2>1, <2>2, <2>3, RecOn
  <2>5. NothingOpen' /\ ~Linked(J)'
    BY <2>1, <2>2 DEF NothingOpen, HasRec, Linked, At
  <2>. QED
    BY <2>1, <2>2, <2>4, <2>5 DEF RecPoints, Displacing
<1>23. CASE NameTemp
  <2>1. /\ UNCHANGED <<world, live, ret, temp, rec, jobst>> /\ run.at = "write" /\ run'.job = run.job /\ Saves(run'.d)
        /\ run'.at = "copy" /\ run'.d.ret = D.ret
    BY <1>23, NameTempEffect DEF Others
  <2>2. /\ run.at \in Working /\ J \in Jobs /\ Open(J) /\ D.ret = item[J].d.ret /\ J' = J /\ NothingOpen
        /\ ~Linked(J) /\ (live # None => live.n # J)
    BY <2>1, OwnRows, OwnRecord DEF Working, ExecPoints, J, RecPoints, Displacing
  <2>3. ~(At(run'.d.ret) /\ live = ret[run'.d.ret])
    BY <2>1, <2>2 DEF Linked
  <2>4. RecFacts' /\ ~(At(item'[J].d.ret) /\ live = ret[item'[J].d.ret])
    BY <2>1, <2>2, <2>3, RecSaved
  <2>5. NothingOpen' /\ ~Linked(J)'
    BY <2>1, <2>2, <2>4 DEF NothingOpen, HasRec, Linked, At
  <2>. QED
    BY <2>1, <2>2, <2>4, <2>5 DEF RecPoints, Displacing
<1>24. CASE OpenTemp
  <2>1. /\ UNCHANGED <<world, live, ret, rec, item, jobst>> /\ run.at = "copy" /\ run'.job = run.job
        /\ run'.at \in {"putBack", "copying"} /\ \A i \in Jobs \ {J} : temp'[i] = temp[i]
    BY <1>24, OpenTempEffect DEF Others, Goes
  <2>2. /\ run.at \in Working /\ J \in Jobs /\ J' = J /\ NothingOpen /\ ~Linked(J) /\ (live # None => live.n # J)
        /\ \A i \in Jobs : Open(i) => ~Linked(i)
        /\ \A i \in Jobs \ {J} : jobst[i] # "over" => item[i] = None /\ (live # None => live.n # i)
    BY <2>1, OwnRecord DEF Working, ExecPoints, J, RecPoints, Displacing
  <2>3. Present' /\ NothingOpen' /\ ~Linked(J)'
    BY <2>1, <2>2 DEF RecFacts, Present, NothingOpen, HasRec, At, Linked
  <2>4. OwnFiles'
    BY <2>1, <2>2 DEF RecFacts, OwnFiles, At
  <2>5. GoesOn'
    BY <2>1, <2>2 DEF GoesOn, Open, Pending, Linked, At
  <2>. QED
    BY <2>1, <2>2, <2>3, <2>4, <2>5 DEF RecFacts, RecPoints, Displacing
<1>25. CASE FillTemp
  <2>1. /\ UNCHANGED <<world, live, ret, rec, item, jobst>> /\ run.at = "copying" /\ run'.job = run.job
        /\ run'.at \in {"putBack", "copied"} /\ \A i \in Jobs \ {J} : temp'[i] = temp[i]
    BY <1>25, FillTempEffect DEF Others, Goes
  <2>2. /\ run.at \in Working /\ J \in Jobs /\ J' = J /\ NothingOpen /\ ~Linked(J) /\ (live # None => live.n # J)
        /\ \A i \in Jobs : Open(i) => ~Linked(i)
        /\ \A i \in Jobs \ {J} : jobst[i] # "over" => item[i] = None /\ (live # None => live.n # i)
    BY <2>1, OwnRecord DEF Working, ExecPoints, J, RecPoints, Displacing
  <2>3. Present' /\ NothingOpen' /\ ~Linked(J)'
    BY <2>1, <2>2 DEF RecFacts, Present, NothingOpen, HasRec, At, Linked
  <2>4. OwnFiles'
    BY <2>1, <2>2 DEF RecFacts, OwnFiles, At
  <2>5. GoesOn'
    BY <2>1, <2>2 DEF GoesOn, Open, Pending, Linked, At
  <2>. QED
    BY <2>1, <2>2, <2>3, <2>4, <2>5 DEF RecFacts, RecPoints, Displacing
<1>26. CASE TempDone
  <2>1. /\ UNCHANGED <<world, live, ret, temp, rec, jobst>> /\ run.at = "copied" /\ run'.job = run.job /\ Saves(run'.d)
        /\ run'.at = "keep" /\ run'.d.ret = D.ret
    BY <1>26, TempDoneEffect DEF Others
  <2>2. /\ run.at \in Working /\ J \in Jobs /\ Open(J) /\ D.ret = item[J].d.ret /\ J' = J /\ NothingOpen
        /\ ~Linked(J) /\ (live # None => live.n # J)
    BY <2>1, OwnRows, OwnRecord DEF Working, ExecPoints, J, RecPoints, Displacing
  <2>3. ~(At(run'.d.ret) /\ live = ret[run'.d.ret])
    BY <2>1, <2>2 DEF Linked
  <2>4. RecFacts' /\ ~(At(item'[J].d.ret) /\ live = ret[item'[J].d.ret])
    BY <2>1, <2>2, <2>3, RecSaved
  <2>5. NothingOpen' /\ ~Linked(J)'
    BY <2>1, <2>2, <2>4 DEF NothingOpen, HasRec, Linked, At
  <2>. QED
    BY <2>1, <2>2, <2>4, <2>5 DEF RecPoints, Displacing
<1>27. CASE Keep
  <2>1. /\ UNCHANGED <<world, live, ret, temp, rec, item, jobst>> /\ run.at = "keep" /\ run'.job = run.job
        /\ run'.at \in {"putBack", "displace", "choose", "intent", "commit"}
        /\ run'.at = "commit" => live = None \/ SameFile(D.ret)
    BY <1>27, KeepEffect DEF Others
  <2>2. /\ run.at \in Working /\ J \in Jobs /\ D.ret = item[J].d.ret /\ J' = J /\ NothingOpen /\ ~Linked(J)
        /\ live # None => live.n # J
    BY <2>1, OwnRows, OwnRecord DEF Working, ExecPoints, J, RecPoints, Displacing
  <2>3. RecFacts' /\ NothingOpen' /\ ~Linked(J)'
    BY <2>1, <2>2, RecStays DEF NothingOpen, HasRec, Linked, At
  <2>4. run'.at = "commit" => (HasRec /\ rec.st = "present" => rec.intent # None)
    BY <2>1, <2>2 DEF SameFile, Linked, RecFacts, Present, At
  <2>. QED
    BY <2>1, <2>2, <2>3, <2>4 DEF RecPoints, Displacing, HasRec
<1>28. CASE Choose
  <2>1. /\ UNCHANGED <<world, live, ret, temp, rec, jobst>> /\ run.at = "choose" /\ run'.job = run.job /\ Saves(run'.d)
        /\ run'.at = "intent" /\ ~At(run'.d.ret)
    BY <1>28, ChooseEffect DEF Others
  <2>2. /\ run.at \in Working /\ J \in Jobs /\ Open(J) /\ D.ret = item[J].d.ret /\ J' = J /\ NothingOpen
        /\ ~Linked(J) /\ (live # None => live.n # J)
    BY <2>1, OwnRows, OwnRecord DEF Working, ExecPoints, J, RecPoints, Displacing
  <2>3. ~(At(run'.d.ret) /\ live = ret[run'.d.ret])
    BY <2>1
  <2>4. RecFacts' /\ ~(At(item'[J].d.ret) /\ live = ret[item'[J].d.ret])
    BY <2>1, <2>2, <2>3, RecSaved
  <2>5. NothingOpen' /\ ~Linked(J)'
    BY <2>1, <2>2, <2>4 DEF NothingOpen, HasRec, Linked, At
  <2>. QED
    BY <2>1, <2>2, <2>4, <2>5 DEF RecPoints, Displacing
<1>29. CASE Intent
  <2>1. /\ UNCHANGED <<world, live, ret, item, jobst>> /\ temp' = temp /\ run.at = "intent" /\ run'.job = run.job
        /\ rec' # None /\ rec'.st = rec.st /\ rec'.v = rec.v /\ rec'.intent = D.ret /\ HasRec /\ run'.at = "keepFS"
    BY <1>29, IntentEffect DEF Others, Goes
  <2>2. /\ run.at \in Working /\ J \in Jobs /\ Open(J) /\ D.ret = item[J].d.ret /\ J' = J /\ NothingOpen
        /\ \A i \in Jobs : Open(i) => ~Linked(i)
    BY <2>1, OwnRows, OwnRecord DEF Working, ExecPoints, J
  <2>6. ~At(D.ret) /\ ~At(rec.intent) /\ D.ret # None /\ D.ret[1] = J
    BY <2>1, <2>2, OwnRows, OwnRecord DEF Describing, RowPoints, At
  <2>3. Present'
    BY <2>1, <2>2, <2>6 DEF RecFacts, Present, HasRec, At
  <2>4. RecFacts'
    BY <2>1, <2>2, <2>3, RecOn
  <2>5. NothingOpen' /\ ~Linked(J)'
    BY <2>1, <2>2, <2>6 DEF NothingOpen, Linked, At
  <2>. QED
    BY <2>1, <2>2, <2>4, <2>5 DEF RecPoints, Displacing
<1>30. CASE KeepFS
  <2>0. run.at = "keepFS" /\ run.at \in Working /\ ~At(D.ret) /\ D.ret # None /\ rec.intent = D.ret
    BY <1>30, KeepFSEffect DEF Describing, RowPoints, Working, ExecPoints
  <2>1. /\ UNCHANGED <<world, temp, rec, item, jobst>> /\ run'.job = run.job /\ live # None /\ HasRec
        /\ D.ret \in Slots /\ ret'[D.ret] = live /\ \A s \in Slots : s # D.ret => ret'[s] = ret[s]
        /\ live' = (IF world.hardlinks /\ item[J].act = "put" THEN live ELSE None)
        /\ run'.at = (IF item[J].act = "put" THEN "commit" ELSE "retained")
    BY <1>30, <2>0, KeepFSEffect DEF Others
  <2>2. /\ J \in Jobs /\ item[J] # None /\ J' = J /\ D.ret = item[J].d.ret /\ NothingOpen /\ live.n # J
        /\ \A i \in Jobs \ {J} : jobst[i] # "over" => item[i] = None /\ live.n # i
    BY <2>0, <2>1, OwnRows, OwnRecord DEF J, RecPoints
  <2>3. Present' /\ NothingOpen'
    <3>1. rec.st = "present" => live.c = rec.v
      BY <2>0, <2>1 DEF RecFacts, Present
    <3>. QED
      BY <2>0, <2>1, <2>2, <3>1 DEF Present, NothingOpen, HasRec, At
  <2>4. live' # None => item[J].act = "put" /\ world.hardlinks
    BY <2>1
  <2>5. OwnFiles'
    <3>1. \A j \in Jobs : jobst[j] # "over" => live.n # j
      BY <2>1, <2>2
    <3>2. \A s \in Slots : At(s)' => ret'[s] = live \/ (At(s) /\ ret'[s] = ret[s])
      BY <2>1 DEF At
    <3>. QED
      BY <2>1, <3>1, <3>2 DEF RecFacts, OwnFiles
  <2>6. GoesOn'
    <3>1. item[J].act = "put" => temp[J] # None /\ item[J].d.temp /\ item[J].d.done
      BY <2>0, <2>2 DEF NewVersionExists, Copying, CopyFacts, CopyPoints, TempsKnown, Ordered, IsPut
    <3>2. \A i \in Jobs : Open(i)' => i = J
      BY <2>1, <2>2 DEF Open, Pending
    <3>3. \A i \in Jobs : Linked(i)' => live' # None
      BY DEF Linked, At
    <3>. QED
      BY <2>0, <2>1, <2>2, <2>4, <3>1, <3>2, <3>3 DEF GoesOn
  <2>7. item[J].act # "put" => ~Linked(J)'
    BY <2>1, <2>2 DEF Linked, At
  <2>. QED
    BY <2>0, <2>1, <2>2, <2>3, <2>5, <2>6, <2>7 DEF RecFacts, RecPoints, Displacing
<1>31. CASE Commit
  <2>1. UNCHANGED <<world, ret, rec, item, jobst>> /\ run.at = "commit" /\ run'.job = run.job
    BY <1>31, CommitEffect DEF Others, Goes
  <2>2. ~(run.free /\ live # None)
    BY <2>1 DEF Describing, RowPoints
  <2>3. /\ run'.at = "record" /\ live' = temp[J] /\ temp[J] # None /\ temp'[J] = None
        /\ \A i \in Jobs \ {J} : temp'[i] = temp[i]
    BY <1>31, <2>2, CommitEffect DEF Goes
  <2>4. /\ run.at \in Working /\ J \in Jobs /\ item[J] # None /\ J' = J /\ D.ret = item[J].d.ret /\ NothingOpen
        /\ (HasRec => rec.intent \in {None, D.ret}) /\ (D.ret = None \/ At(D.ret)) /\ jobst[J] # "over"
        /\ \A i \in Jobs \ {J} : jobst[i] # "over" => item[i] = None
    BY <2>1, OwnRows, OwnRecord DEF Working, ExecPoints, J, Describing, RowPoints
  <2>5. temp[J].n = J /\ temp[J].c = item[J].d.tv /\ item[J].d.done /\ IsPut
    BY <2>1, <2>3, <2>4 DEF Copying, CopyFacts, CopyPoints, TempsKnown, Ordered, SameDetail, Placing
  <2>6. HasRec /\ rec.st = "present" => At(rec.intent) /\ ret[rec.intent].c = rec.v
    BY <2>1, <2>4 DEF RecPoints, RecFacts, Present
  <2>7. Present' /\ NothingOpen'
    BY <2>1, <2>4, <2>6 DEF Present, NothingOpen, HasRec, At
  <2>8. PICK k \in Jobs : k = J
    BY <2>4
  <2>9. Committed(k)'
    BY <2>1, <2>3, <2>4, <2>5, <2>8 DEF Committed, At
  <2>10. OwnFiles'
    BY <2>1, <2>3, <2>4, <2>5, <2>8, <2>9 DEF RecFacts, OwnFiles, IsPut, At
  <2>11. ~Linked(k)'
    <3>1. item[k].d.ret \in Slots \cup {None}
      BY <2>4, <2>8, RunFields
    <3>. QED
      BY <2>1, <2>3, <2>4, <2>5, <2>8, <3>1 DEF RecFacts, OwnFiles, Linked, At
  <2>12. GoesOn' /\ ~Linked(J)'
    BY <2>1, <2>4, <2>8, <2>11 DEF GoesOn, Open, Pending
  <2>. QED
    BY <2>3, <2>7, <2>10, <2>12, RecPointsPlain DEF RecFacts
<1>32. CASE Record
  <2>1. /\ UNCHANGED <<world, live, ret, item, jobst>> /\ temp' = temp /\ run.at = "record" /\ run'.job = run.job
        /\ rec' # None /\ rec'.intent = None /\ rec'.v = D.tv /\ run'.at = "finish"
    BY <1>32, RecordEffect DEF Others, Goes
  <2>2. /\ run.at \in Working /\ J \in Jobs /\ Open(J) /\ D.ret = item[J].d.ret /\ J' = J /\ NothingOpen
        /\ \A i \in Jobs : Open(i) => ~Linked(i)
    BY <2>1, OwnRows, OwnRecord DEF Working, ExecPoints, J
  <2>3. Present'
    BY <2>1, <2>2 DEF Present, At, Describing, RowPoints
  <2>4. RecFacts'
    BY <2>1, <2>2, <2>3, RecOn
  <2>5. NothingOpen' /\ ~Linked(J)'
    BY <2>1, <2>2 DEF NothingOpen, Linked, At
  <2>. QED
    BY <2>1, <2>2, <2>4, <2>5 DEF RecPoints, Displacing
<1>33. CASE Finish \/ ItemFailed
  <2>1. /\ UNCHANGED <<world, live, ret, rec, jobst>> /\ run.at \in {"finish", "clean"} /\ run'.at = "ready" /\ run'.job = run.job
        /\ item'[J] # None /\ item'[J].d = item[J].d /\ item'[J].act = item[J].act /\ item'[J].st # "pending"
        /\ temp' = temp \/ (temp'[J] = None /\ \A i \in Jobs \ {J} : temp'[i] = temp[i])
        /\ \A i \in Jobs \ {J} : item'[i] = item[i]
    BY <1>33, FinishEffect, ItemFailedEffect DEF Others, Goes
  <2>2. /\ run.at \in Working /\ J \in Jobs /\ item[J] # None /\ NothingOpen /\ \A i \in Jobs : Open(i) => ~Linked(i)
    BY <2>1, OwnRecord DEF Working, ExecPoints
  <2>3. Present' /\ NothingOpen'
    BY <2>1, <2>2 DEF RecFacts, Present, NothingOpen, HasRec, At, J
  <2>4. \A i \in Jobs : temp'[i] \in {None, temp[i]}
    BY <2>1, <2>2
  <2>5. RecFacts'
    BY <2>1, <2>2, <2>3, <2>4, RecOn
  <2>. QED
    BY <2>1, <2>3, <2>5, RecPointsPlain
<1>34. CASE Retain
  <2>1. /\ UNCHANGED <<world, live, ret, temp, rec, item, jobst>> /\ run.at = "retain" /\ run'.job = run.job
        /\ run'.at \in {"finish", "retained", "choose", "intent"} /\ item[J].act = "retain"
    BY <1>34, RetainEffect DEF Others
  <2>2. /\ run.at \in Working /\ J \in Jobs /\ J' = J /\ NothingOpen /\ ~Linked(J) /\ jobst[J] # "over"
    BY <2>1, OwnRecord DEF Working, ExecPoints, J, RecPoints
  <2>3. live # None => live.n # J
    BY <2>1, <2>2 DEF RecFacts, OwnFiles
  <2>4. RecFacts' /\ NothingOpen' /\ ~Linked(J)'
    BY <2>1, <2>2, RecStays DEF NothingOpen, HasRec, Linked, At
  <2>. QED
    BY <2>1, <2>2, <2>3, <2>4 DEF RecPoints, Displacing
<1>35. CASE Retained
  <2>1. /\ UNCHANGED <<world, live, ret, item, jobst>> /\ temp' = temp /\ run.at = "retained" /\ run'.job = run.job
        /\ rec' = None /\ run'.at = "finish"
    BY <1>35, RetainedEffect DEF Others, Goes
  <2>2. /\ run.at \in Working /\ J \in Jobs /\ Open(J) /\ D.ret = item[J].d.ret /\ J' = J /\ NothingOpen
        /\ \A i \in Jobs : Open(i) => ~Linked(i)
    BY <2>1, OwnRows, OwnRecord DEF Working, ExecPoints, J
  <2>3. Present'
    BY <2>1, <2>2 DEF Present, HasRec
  <2>4. RecFacts'
    BY <2>1, <2>2, <2>3, RecOn
  <2>5. NothingOpen' /\ ~Linked(J)'
    BY <2>1, <2>2 DEF NothingOpen, HasRec, Linked, At
  <2>. QED
    BY <2>1, <2>2, <2>4, <2>5 DEF RecPoints, Displacing
<1>36. CASE \E how \in {"fail", "fatal", "cancel"} : Fail(how)
  <2>1. /\ UNCHANGED <<world, live, ret, temp, rec, item, jobst>> /\ run.at \in ExecPoints /\ run'.at = "putBack" /\ run'.job = run.job
        /\ bounds'.errors # 0
    BY <1>36, FailEffect DEF Goes
  <2>2. run.at \in Working /\ J \in Jobs /\ Open(J) /\ J' = J /\ NothingOpen
    BY <2>1, OwnRecord DEF Working, J
  <2>3. ~Linked(J)
    BY <2>1, <2>2 DEF RecFacts, GoesOn
  <2>4. RecFacts' /\ NothingOpen' /\ ~Linked(J)'
    BY <2>1, <2>2, <2>3, RecStays DEF NothingOpen, HasRec, Linked, At
  <2>. QED
    BY <2>1, <2>4, RecPointsPlain
<1>37. CASE PutBackNothing \/ PutBackFails
  <2>1. /\ UNCHANGED <<world, live, ret, temp, rec, item, jobst>> /\ run.at \in {"putBack", "putBackDB"} /\ run'.at = "clean" /\ run'.job = run.job
    BY <1>37, PutBackGoes DEF Goes
  <2>2. run.at \in Working /\ J \in Jobs /\ ~Linked(J) /\ J' = J /\ NothingOpen
    BY <2>1, OwnRecord DEF Working, ExecPoints, J, RecPoints
  <2>3. RecFacts' /\ NothingOpen' /\ ~Linked(J)'
    BY <2>1, <2>2, RecStays DEF NothingOpen, HasRec, Linked, At
  <2>. QED
    BY <2>1, <2>3, RecPointsPlain
<1>38. CASE PutBack
  <2>1. HasRec /\ run.at = "putBack" /\ rec.intent = D.ret
    BY <1>38 DEF PutBack, OwnIntent
  <2>2. /\ run'.at = "putBackDB" /\ UNCHANGED <<world, temp, rec, item, jobst>> /\ run'.job = run.job
        /\ \/ /\ At(rec.intent) /\ live = None /\ live' = ret[rec.intent] /\ rec.intent \in Slots
              /\ ret'[rec.intent] = None /\ \A s \in Slots : s # rec.intent => ret'[s] = ret[s]
           \/ UNCHANGED <<live, ret>> /\ run'.unknown = (At(rec.intent) /\ ~SameFile(rec.intent))
    BY <1>38, <2>1, SettleFSEffect DEF PutBack, Goes
  <2>3. run.at \in Working /\ J \in Jobs /\ item[J] # None /\ D.ret = item[J].d.ret /\ Open(J) /\ ~Linked(J) /\ J' = J /\ NothingOpen
    BY <2>1, <2>2, OwnRows, OwnRecord DEF Working, ExecPoints, J, RecPoints
  <2>4. NothingOpen'
    BY <2>2, <2>3 DEF NothingOpen, HasRec
  <2>5. CASE UNCHANGED <<live, ret>> /\ run'.unknown = (At(rec.intent) /\ ~SameFile(rec.intent))
    <3>1. RecFacts'
      BY <2>2, <2>5, RecStays
    <3>2. ~run'.unknown => (~At(rec.intent) \/ SameFile(rec.intent))'
      BY <2>2, <2>5 DEF At, SameFile
    <3>3. ~Linked(J)'
      BY <2>2, <2>3, <2>5 DEF Linked, At
    <3>. QED
      BY <2>2, <2>4, <3>1, <3>2, <3>3 DEF RecPoints, Displacing
  <2>6. CASE /\ At(rec.intent) /\ live = None /\ live' = ret[rec.intent] /\ rec.intent \in Slots
             /\ ret'[rec.intent] = None /\ \A s \in Slots : s # rec.intent => ret'[s] = ret[s]
    <3>1. RecFacts'
      BY <2>1, <2>2, <2>3, <2>6, RecBack
    <3>2. ~At(rec.intent)' /\ ~Linked(J)'
      BY <2>1, <2>2, <2>3, <2>6 DEF At, Linked
    <3>. QED
      BY <2>2, <2>4, <3>1, <3>2 DEF RecPoints, Displacing
  <2>. QED
    BY <2>2, <2>5, <2>6
<1>39. CASE PutBackRecord
  <2>1. HasRec /\ run.at = "putBackDB"
    BY <1>39 DEF PutBackRecord, AtPoints
  <2>2. /\ run'.at = "clean" /\ run'.job = run.job /\ UNCHANGED <<world, live, ret, temp, item, jobst>>
        /\ rec' # None /\ rec'.intent = None /\ rec'.v = rec.v
        /\ rec'.st = (IF run.unknown THEN "missing" ELSE rec.st)
    BY <1>39, <2>1, SettleDBEffect DEF PutBackRecord, Goes, Others
  <2>3. /\ run.at \in Working /\ J \in Jobs /\ ~Linked(J) /\ J' = J /\ \A i \in Jobs : Open(i) => ~Linked(i)
    BY <2>1, <2>2, OwnRecord DEF Working, ExecPoints, J, RecPoints
  <2>4. RecFacts' /\ NothingOpen'
    BY <2>1, <2>2, <2>3, RecCleared
  <2>5. ~Linked(J)'
    BY <2>2, <2>3 DEF Linked, At
  <2>. QED
    BY <2>2, <2>4, <2>5, RecPointsPlain
<1>40. CASE Salvage \/ Cancelled
  <2>1. /\ UNCHANGED <<world, live, ret, rec, item>> /\ run.at = "clean" /\ run'.at = "idle"
        /\ \A i \in Jobs \ {J} : jobst'[i] = jobst[i]
        /\ temp' = temp \/ (temp'[J] = None /\ \A i \in Jobs \ {J} : temp'[i] = temp[i])
    BY <1>40, StopsEffect
  <2>2. run.at \in Working /\ J \in Jobs /\ jobst[J] # "over" /\ \A i \in Jobs : Open(i) => ~Linked(i)
    BY <2>1, OwnRecord DEF Working, ExecPoints
  <2>3. Present'
    BY <2>1 DEF RecFacts, Present, HasRec, At
  <2>4. \A i \in Jobs : temp'[i] \in {None, temp[i]} /\ (jobst'[i] # "over" => jobst[i] # "over")
    BY <2>1, <2>2
  <2>5. RecFacts'
    BY <2>1, <2>2, <2>3, <2>4, RecOn
  <2>. QED
    BY <2>1, <2>5, RecPointsIdle
<1>41. CASE UNCHANGED vars
  <2>1. UNCHANGED <<world, live, ret, temp, rec, item, jobst, run>>
    BY <1>41 DEF vars, disk, base
  <2>2. RecFacts'
    BY <2>1, RecStays
  <2>3. RecPoints'
    BY <2>1 DEF RecPoints, NothingOpen, Linked, SameFile, HasRec, At, J, D
  <2>. QED
    BY <2>2, <2>3
<1>. QED
    BY <1>1, <1>2, <1>3, <1>4, <1>5, <1>6, <1>7, <1>8, <1>9, <1>10, <1>11, <1>12, <1>13, <1>14,
       <1>15, <1>16, <1>17, <1>18, <1>19, <1>20, <1>21, <1>22, <1>23, <1>24, <1>25, <1>26,
       <1>27, <1>28, <1>29, <1>30, <1>31, <1>32, <1>33, <1>34, <1>35, <1>36, <1>37, <1>38,
       <1>39, <1>40, <1>41 DEF Next, Reconcile, Sync, Place, Stop, Other

-----------------------------------------------------------------------------
(* The theorems.                                                           *)

\* No failed operation, and no change by somebody else, is undone, and the world stays as it is.
LEMMA BoundsGrow ==
    ASSUME TypeOK, [Next]_vars
    PROVE  /\ world' = world
           /\ bounds'.meddles = 0 => bounds.meddles = 0
           /\ bounds'.stuck = 0 => bounds.stuck = 0
           /\ bounds'.errors = 0 => bounds.errors = 0
<1>. DEFINE Grow == /\ bounds'.meddles = 0 => bounds.meddles = 0
                    /\ bounds'.stuck = 0 => bounds.stuck = 0
                    /\ bounds'.errors = 0 => bounds.errors = 0
<1>1. bounds \in [crashes : Nat, errors : Nat, stuck : Nat, meddles : Nat]
    BY DEF TypeOK
<1>2. bounds' = [bounds EXCEPT !.crashes = @ + 1] => Grow
    BY <1>1
<1>3. bounds' = [bounds EXCEPT !.errors = @ + 1] => Grow
    BY <1>1
<1>4. bounds' = [bounds EXCEPT !.stuck = @ + 1] => Grow
    BY <1>1
<1>5. bounds' = [bounds EXCEPT !.meddles = @ + 1] => Grow
    BY <1>1
<1>6. bounds' = bounds => Grow
    OBVIOUS
<1>. HIDE DEF Grow
<1>7. CASE Meddle \/ Crash
    BY <1>2, <1>5, <1>7 DEF Meddle, Crash, Grow
<1>8. CASE Settle \/ PutBack
    BY <1>4, <1>6, <1>8 DEF Settle, PutBack, SettleFS, Grow
<1>9. CASE ReconcileFails \/ PutBackFails \/ \E how \in {"fail", "fatal", "cancel"} : Fail(how)
    BY <1>3, <1>4, <1>9 DEF ReconcileFails, PutBackFails, Fail, Grow
<1>10. CASE Reconcile /\ ~Settle /\ ~ReconcileFails
    BY <1>6, <1>10 DEF Reconcile, SweepDisplaced, SweepPlaced, SweepTemp, SweepEnd, SettleRecord, SettleDB,
       SettleNothing, Grow
<1>11. CASE Sync
    BY <1>6, <1>11 DEF Sync, Plan, Begin, EarlierDisplace, NothingToDo, Grow
<1>12. CASE Place
    BY <1>6, <1>12 DEF Place, PutResumed, PutAnew, Adopt, InTheWay, Displace, DisplaceFS, Displaced, NameTemp,
       OpenTemp, FillTemp, TempDone, Keep, Choose, Intent, KeepFS, Commit, Record, Finish, Grow
<1>13. CASE PutBackRecord \/ PutBackNothing \/ Salvage \/ Cancelled \/ ItemFailed
    BY <1>6, <1>13 DEF PutBackRecord, SettleDB, PutBackNothing, Salvage, Cancelled, ItemFailed, Grow
<1>14. CASE Other
    BY <1>6, <1>14 DEF Other, Verify, ExpireFile, ExpireRow, ExpireEnd, Grow
<1>15. CASE SourceChanges \/ SourceVanishes \/ Retain \/ Retained \/ UNCHANGED vars
    BY <1>6, <1>15 DEF SourceChanges, SourceVanishes, Retain, Retained, vars, Grow
<1>16. CASE \E j \in Jobs, k \in {"sync", "verify", "retention"} : Start(j, k)
    BY <1>6, <1>16 DEF Start, Grow
<1>. QED
    BY <1>7, <1>8, <1>9, <1>10, <1>11, <1>12, <1>13, <1>14, <1>15, <1>16 DEF Next, Stop, Grow

\* Before the first job nothing is at the destination, nor in the database.
LEMMA TruthInit ==
    ASSUME Init
    PROVE  TruthInv
<1>1. /\ run.at = "idle" /\ live = None /\ rec = None /\ rows = {} /\ src = ver
      /\ \A j \in Jobs : item[j] = None /\ temp[j] = None /\ jobst[j] = "new"
      /\ \A s \in Slots : ret[s] = None
    BY DEF Init, Idle
<1>2. /\ ~HasRec
      /\ \A s \in Slots : ~At(s) /\ ~RowAt(s) /\ ~Intended(s)
      /\ \A j \in Jobs : ~Open(j)
    BY <1>1 DEF HasRec, At, RowAt, Intended, Open, Pending
<1>3. Ordered
    BY <1>1 DEF Ordered, OneUnfinished, OwnPaths, Working, ExecPoints, Placing, Displacing
<1>4. Copying
    BY <1>1 DEF Copying, CopyFacts, Whole, TempsKnown, NewEnough, DoneRecorded, CopyPoints, Working, ExecPoints,
       Displacing
<1>5. Describing
  <2>1. RowFacts
    BY <1>1, <1>2 DEF RowFacts, RowsTruthful, NothingYet, Described, OwnIntents
  <2>2. RowPoints
    BY <1>1 DEF RowPoints, Working, ExecPoints, Displacing
  <2>. QED
    BY <2>1, <2>2 DEF Describing
<1>6. Recording
    BY <1>1, <1>2 DEF Recording, RecFacts, Present, OwnFiles, GoesOn, RecPoints, Working, ExecPoints, Displacing
<1>. QED
    BY <1>3, <1>4, <1>5, <1>6 DEF TruthInv

\* Every step keeps the four layers, each under the conditions it is stated for.
LEMMA TruthKept ==
    ASSUME SyncInv, SyncInv', TruthInv, [Next]_vars
    PROVE  TruthInv'
<1>1. /\ TypeOK /\ AtPoints /\ NewVersionExists /\ ReplacesLinked
      /\ TypeOK' /\ AtPoints'
    BY DEF SyncInv
<1>2. /\ world' = world
      /\ bounds'.meddles = 0 => bounds.meddles = 0
      /\ bounds'.stuck = 0 => bounds.stuck = 0
      /\ bounds'.errors = 0 => bounds.errors = 0
    BY <1>1, BoundsGrow
<1>. SUFFICES ASSUME world.inOrder
              PROVE  /\ Ordered' /\ Copying'
                     /\ bounds'.meddles = 0 =>
                            /\ Describing'
                            /\ bounds'.stuck = 0 /\ (world.hardlinks => bounds'.errors = 0) => Recording'
    BY <1>2 DEF TruthInv
<1>3. Ordered /\ Copying
    BY DEF TruthInv
<1>4. Ordered'
    BY <1>1, <1>3, OrderedKept
<1>5. Copying'
    BY <1>1, <1>3, <1>4, CopyingKept
<1>6. ASSUME bounds'.meddles = 0
      PROVE  Describing /\ Describing'
  <2>1. Describing
    BY <1>2, <1>6 DEF TruthInv
  <2>. QED
    BY <1>1, <1>3, <1>6, <2>1, DescribingKept
<1>7. ASSUME bounds'.meddles = 0, bounds'.stuck = 0, world.hardlinks => bounds'.errors = 0
      PROVE  Recording'
  <2>1. Describing /\ Recording
    BY <1>2, <1>7 DEF TruthInv
  <2>. QED
    BY <1>1, <1>3, <1>7, <2>1, RecordingKept
<1>. QED
    BY <1>4, <1>5, <1>6, <1>7

\* While unfinished jobs are resumed before later ones start, the jobs run in order and what is
\* done is recorded; while nobody else touches the path, the rows are true; while also no file was
\* stuck on its way back, and with hardlinks no operation failed, the record is.
THEOREM TruthInvariant == Spec => []TruthInv
<1>1. Init => TruthInv
    BY TruthInit
<1>2. SyncInv /\ SyncInv' /\ TruthInv /\ [Next]_vars => TruthInv'
    BY TruthKept
<1>. QED
    BY <1>1, <1>2, SyncInvariant, PTL DEF Spec

\* What the database says of the destination is true (exec.go place, oldVersion; reconcile.go, "no
\* record says present while its file is in retention"): the record of the path, the rows of the
\* retained files and the items that are done, for any number of jobs, versions and names, whatever
\* crashed or failed in between.
THEOREM DatabaseAlwaysTruthful == Spec => []DatabaseTruthful
<1>1. SyncInv /\ TruthInv => DatabaseTruthful
  <2>. SUFFICES ASSUME SyncInv, TruthInv PROVE DatabaseTruthful
    OBVIOUS
  <2>1. RecordTruthful
    BY DEF RecordTruthful, TruthInv, Recording, RecFacts, Present, At
  <2>2. RowsTruthfulInOrder
    BY DEF RowsTruthfulInOrder, TruthInv, Describing, RowFacts
  <2>3. DoneIsRecorded
    <3>. SUFFICES ASSUME world.inOrder, run.at = "ready", item[J] # None, item[J].st = "done", item[J].act = "put"
                  PROVE  HasRec /\ rec.v >= item[J].v
      BY DEF DoneIsRecorded
    <3>1. J \in Jobs /\ jobst[J] = "running"
      BY DEF TruthInv, Ordered, OneUnfinished
    <3>2. HasRec /\ item[J].v <= rec.v
      BY <3>1 DEF TruthInv, Copying, CopyFacts, DoneRecorded, Recorded
    <3>. QED
      BY <3>2
  <2>. QED
    BY <2>1, <2>2, <2>3 DEF DatabaseTruthful
<1>. QED
    BY <1>1, SyncInvariant, TruthInvariant, PTL
=============================================================================
