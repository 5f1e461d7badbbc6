--------------------------- MODULE SyncItemProofs ---------------------------
(***************************************************************************)
(* Proofs about SyncItem: whatever jobs run, crash, fail and are resumed   *)
(* late, and whatever others do at the path, no file that was ever at the  *)
(* path is lost (NeverLost); and crashes, in any number and anywhere,      *)
(* leave no file in retention that the next job does not record            *)
(* (SettledAfterCrashes).                                                  *)
(***************************************************************************)
EXTENDS SyncItem, TLAPS, FiniteSetTheorems, WellFoundedInduction

Points == ExecPoints \cup {"idle", "sweep", "sweepPlaced", "sweepTemp", "settle", "settleDB", "ready",
                           "expired", "putBack", "putBackDB", "clean"}
RunType == [job : Nat, at : Points, d : DetailType, retx : BOOLEAN, kept : BOOLEAN, free : BOOLEAN,
            unknown : BOOLEAN, stop : {"", "fail", "fatal", "cancel"}, next : {"", "write", "commit"},
            sv : Contents, todo : SUBSET Jobs]

TypeOK ==
    /\ world \in WorldType
    /\ src \in 0..MaxVersion /\ ver \in Versions
    /\ live \in Files \cup {None}
    /\ ret \in [Slots -> Files \cup {None}]
    /\ temp \in [Jobs -> Files \cup {None}]
    /\ rec \in RecType \cup {None}
    /\ rows \subseteq RowType
    /\ item \in [Jobs -> ItemType \cup {None}]
    /\ jobst \in [Jobs -> {"new", "running", "queued", "over"}]
    /\ kind \in [Jobs -> {"sync", "verify", "retention"}]
    /\ run \in RunType
    /\ bounds \in [crashes : Nat, errors : Nat, stuck : Nat, meddles : Nat]

\* What the running job knows at each point of its program.
AtPoints ==
    /\ run.at # "idle" => J \in Jobs
    /\ \A i \in run.todo : item[i] # None
    /\ run.at \in ExecPoints \cup {"putBack", "putBackDB", "clean"} => item[J] # None
    /\ run.at \in {"settleDB", "putBackDB", "choose", "intent", "keepFS", "retained"} => HasRec
    /\ run.at \in {"way", "displace", "displaceFS", "choose", "intent", "keepFS"} => live # None
    /\ run.at = "displaceFS" => D.disp # None
    /\ run.at \in {"displace", "displaceFS", "displaced"} => run.next # ""
    /\ run.at \in {"intent", "keepFS"} => D.ret # None
    /\ run.at = "retain" => item[J].act = "retain"
    /\ run.at = "retained" /\ run.kept => D.ret # None

\* The new version exists until it is renamed into place ...
NewVersionExists ==
    /\ run.at \in {"copying", "copied", "keep", "commit"} => temp[J] # None
    /\ run.at \in {"displace", "displaceFS", "displaced"} /\ run.next = "commit" => temp[J] # None
    /\ run.at \in {"choose", "intent", "keepFS"} /\ item[J].act = "put" => temp[J] # None

\* ... which replaces a file only if that file is in retention too.
ReplacesLinked ==
    run.at = "commit" /\ ~run.free => live # None /\ SameFile(D.ret)

SeenFiles == None \notin seen

SyncInv == TypeOK /\ AtPoints /\ NewVersionExists /\ ReplacesLinked /\ SeenFiles /\ NeverLost

\* What the assumptions say of the constants.
LEMMA Facts ==
    /\ MaxVersion \in Nat \ {0} /\ Contents \subseteq Nat /\ Partial \in Contents
    /\ Foreign \in Contents /\ Versions \subseteq Contents /\ 0..MaxVersion \subseteq Contents
    /\ Jobs \subseteq Nat /\ NoDetail \in DetailType /\ Idle \in RunType
    /\ "" \in Whys
BY SyncAssumption DEF Contents, Partial, Foreign, Versions, NoDetail, DetailType, Idle, RunType,
   Points, Whys, ExecPoints

\* The types hold at first.
LEMMA TypesInit == Init => TypeOK
<1>. SUFFICES ASSUME Init PROVE TypeOK
    OBVIOUS
<1>1. world \in WorldType /\ src \in 0..MaxVersion /\ ver \in Versions
    BY SyncAssumption DEF Init, Versions
<1>. QED
    BY <1>1, Facts DEF Init, TypeOK

\* The fields of the running job.
LEMMA RunFields ==
    ASSUME TypeOK
    PROVE  /\ run.job \in Nat /\ run.at \in Points /\ D \in DetailType
           /\ D.temp \in BOOLEAN /\ D.done \in BOOLEAN /\ D.tv \in Contents
           /\ D.ret \in Slots \cup {None} /\ D.rv \in Contents /\ D.rh \in Contents /\ D.why \in Whys
           /\ D.disp \in Slots \cup {None} /\ D.dv \in Contents
           /\ run.next \in {"", "write", "commit"} /\ run.sv \in Contents /\ run.todo \subseteq Jobs
BY DEF TypeOK, RunType, DetailType, D

\* The points of the program.
LEMMA PointNames ==
    /\ "idle" \in Points /\ "sweep" \in Points /\ "sweepPlaced" \in Points /\ "sweepTemp" \in Points
    /\ "settle" \in Points /\ "settleDB" \in Points /\ "ready" \in Points /\ "expired" \in Points
    /\ "putBack" \in Points /\ "putBackDB" \in Points /\ "clean" \in Points /\ "begin" \in Points
    /\ "put" \in Points /\ "way" \in Points /\ "displace" \in Points /\ "displaceFS" \in Points
    /\ "displaced" \in Points /\ "write" \in Points /\ "copy" \in Points /\ "copying" \in Points
    /\ "copied" \in Points /\ "keep" \in Points /\ "choose" \in Points /\ "intent" \in Points
    /\ "keepFS" \in Points /\ "commit" \in Points /\ "record" \in Points /\ "finish" \in Points
    /\ "retain" \in Points /\ "retained" \in Points
BY DEF Points, ExecPoints

\* The running job goes on at point p, with changes to other fields.
LEMMA RunUpdates ==
    ASSUME run \in RunType, NEW p \in Points
    PROVE  /\ [run EXCEPT !.at = p] \in RunType
           /\ \A e \in DetailType : [run EXCEPT !.at = p, !.d = e] \in RunType
           /\ \A a, b \in BOOLEAN : [run EXCEPT !.at = p, !.kept = a, !.unknown = b] \in RunType
           /\ \A a, b \in BOOLEAN : [run EXCEPT !.at = p, !.kept = a, !.free = b] \in RunType
           /\ \A a, b \in BOOLEAN : [run EXCEPT !.at = p, !.free = a, !.kept = b] \in RunType
           /\ \A a \in BOOLEAN : [run EXCEPT !.at = p, !.kept = a] \in RunType
           /\ \A a \in BOOLEAN : [run EXCEPT !.kept = a, !.at = p] \in RunType
           /\ \A v \in Contents : [run EXCEPT !.at = p, !.sv = v] \in RunType
           /\ \A S \in SUBSET Jobs : [run EXCEPT !.at = p, !.todo = S] \in RunType
           /\ \A q \in {"write", "commit"} : [run EXCEPT !.at = p, !.next = q] \in RunType
           /\ \A how \in {"fail", "fatal", "cancel"} : [run EXCEPT !.at = p, !.stop = how] \in RunType
BY DEF RunType

\* The item of the running job gets the detail e.
LEMMA SaveTyped ==
    ASSUME TypeOK, J \in Jobs, item[J] # None, NEW e \in DetailType, Save(e)
    PROVE  /\ item' \in [Jobs -> ItemType \cup {None}]
           /\ item'[J].act = item[J].act /\ item'[J].st = item[J].st /\ item'[J].d = e
           /\ item'[J] \in ItemType
           /\ \A i \in Jobs \ {J} : item'[i] = item[i]
<1>1. item \in [Jobs -> ItemType \cup {None}] /\ item[J] \in ItemType
    BY DEF TypeOK
<1>2. item'[J] = [item[J] EXCEPT !.d = e] /\ \A i \in Jobs \ {J} : item'[i] = item[i]
    BY <1>1 DEF Save
<1>3. /\ item'[J] \in ItemType /\ item'[J].act = item[J].act /\ item'[J].st = item[J].st
      /\ item'[J].d = e
    BY <1>1, <1>2 DEF ItemType
<1>4. item' \in [Jobs -> ItemType \cup {None}]
    BY <1>1, <1>3 DEF Save
<1>. QED
    BY <1>2, <1>3, <1>4

\* A row of a retained file.
LEMMA RowTyped ==
    ASSUME TypeOK, NEW s \in Slots, NEW v \in Contents, NEW h \in Contents, NEW why \in Whys,
           NEW id \in Nat
    PROVE  WithRow(Row(s, v, h, why, id)) \subseteq RowType
BY DEF TypeOK, WithRow, Row, RowType

\* What recordDisplaced records.
LEMMA DisplacedTyped ==
    ASSUME TypeOK, RecordDisplaced
    PROVE  rows' \subseteq RowType
<1>1. CASE At(D.disp)
  <2>1. D.disp \in Slots /\ D.dv \in Contents /\ 0 \in Contents /\ "displaced" \in Whys /\ 0 \in Nat
    BY <1>1, RunFields, Facts DEF At, Whys, Contents, Partial
  <2>2. WithRow(Row(D.disp, D.dv, 0, "displaced", 0)) \subseteq RowType
    BY <2>1, RowTyped
  <2>. QED
    BY <1>1, <2>2 DEF RecordDisplaced
<1>2. CASE ~At(D.disp)
    BY <1>2 DEF RecordDisplaced, TypeOK
<1>. QED
    BY <1>1, <1>2

\* RetentionTarget finds a free name in the job's directory.
LEMMA TargetFree ==
    ASSUME TypeOK, J \in Jobs, FreeNames # {}
    PROVE  RetentionTarget \in Slots /\ ret[RetentionTarget] = None
<1>1. FreeNames \subseteq Nat
    BY SyncAssumption DEF FreeNames
<1>2. PICK k \in FreeNames : \A i \in FreeNames : ~(<<i, k>> \in OpToRel(<, Nat))
    BY <1>1, NatLessThanWellFounded, WFMin
<1>3. \A i \in FreeNames : ~(i < k)
    BY <1>1, <1>2, Zenon DEF OpToRel
<1>4. \A i \in FreeNames : k <= i
    BY <1>1, <1>3
<1>5. (CHOOSE n \in FreeNames : \A i \in FreeNames : n <= i) \in FreeNames
    BY <1>4
<1>6. PICK n \in FreeNames : n = CHOOSE m \in FreeNames : \A i \in FreeNames : m <= i
    BY <1>5
<1>7. n \in Names /\ ret[<<J, n>>] = None
    BY <1>6 DEF FreeNames
<1>8. RetentionTarget = <<J, n>>
    BY <1>6 DEF RetentionTarget
<1>. QED
    BY <1>7, <1>8 DEF Slots

\* Every step keeps the types.
LEMMA TypesKept ==
    ASSUME TypeOK, AtPoints, NewVersionExists, [Next]_vars
    PROVE  TypeOK'
<1>a. run \in RunType
    BY DEF TypeOK
<1>b. run.at # "idle" => run.job \in Jobs
    BY DEF AtPoints, J
<1>c. ret \in [Slots -> Files \cup {None}] /\ live \in Files \cup {None}
    BY DEF TypeOK
<1>d. temp \in [Jobs -> Files \cup {None}]
    BY DEF TypeOK
<1>e. item \in [Jobs -> ItemType \cup {None}]
    BY DEF TypeOK
<1>f. rec \in RecType \cup {None}
    BY DEF TypeOK
<1>g. bounds \in [crashes : Nat, errors : Nat, stuck : Nat, meddles : Nat]
    BY DEF TypeOK
<1>h. rows \subseteq RowType
    BY DEF TypeOK
<1>i. jobst \in [Jobs -> {"new", "running", "queued", "over"}] /\ kind \in [Jobs -> {"sync", "verify", "retention"}]
    BY DEF TypeOK
<1>j. world \in WorldType /\ src \in 0..MaxVersion /\ ver \in Versions
    BY DEF TypeOK
<1>k. /\ run.at \in ExecPoints \cup {"putBack", "putBackDB", "clean"} => item[run.job] # None
      /\ run.at \in {"settleDB", "putBackDB", "choose", "intent", "keepFS", "retained"} => rec # None
      /\ run.at \in {"way", "displace", "displaceFS", "choose", "intent", "keepFS"} => live # None
      /\ \A i \in run.todo : item[i] # None
    BY DEF AtPoints, J, HasRec
<1>1. CASE SourceChanges
  <2>1. src' \in 0..MaxVersion
    BY <1>1, <1>j, SyncAssumption DEF SourceChanges, WorldType, Versions
  <2>2. ver' \in Versions
    BY <1>1, <1>j, SyncAssumption DEF SourceChanges, WorldType, Versions
  <2>. QED
    BY <1>1, <2>1, <2>2 DEF TypeOK, SourceChanges, disk, base, hist
<1>2. CASE SourceVanishes
  <2>1. src' \in 0..MaxVersion
    BY <1>2, <1>j, SyncAssumption DEF SourceVanishes, WorldType, Versions
  <2>. QED
    BY <1>2, <2>1 DEF TypeOK, SourceVanishes, disk, base, hist
<1>3. CASE Meddle
  <2>1. live' \in Files \cup {None}
    <3>1. [c |-> Foreign, n |-> bounds.meddles] \in Files
      BY <1>g, Facts DEF Files
    <3>. QED
      BY <1>3, <3>1, <1>c DEF Meddle
  <2>2. bounds' \in [crashes : Nat, errors : Nat, stuck : Nat, meddles : Nat]
    BY <1>3, <1>g DEF Meddle
  <2>. QED
    BY <1>3, <2>1, <2>2 DEF TypeOK, Meddle, disk, base, hist
<1>4. CASE Crash
  <2>1. jobst' \in [Jobs -> {"new", "running", "queued", "over"}]
    BY <1>4, <1>b, <1>i DEF Crash, J
  <2>2. run' \in RunType
    BY <1>4, Facts DEF Crash, End
  <2>3. bounds' \in [crashes : Nat, errors : Nat, stuck : Nat, meddles : Nat]
    BY <1>4, <1>g DEF Crash
  <2>. QED
    BY <1>4, <2>1, <2>2, <2>3 DEF TypeOK, Crash, disk, base, hist
<1>5. CASE SweepEnd
  <2>1. run' \in RunType
    BY <1>5, <1>a, PointNames, RunUpdates DEF SweepEnd, Go
  <2>. QED
    BY <1>5, <2>1 DEF TypeOK, SweepEnd, disk, base, hist
<1>6. CASE Settle
  <2>1. live' \in Files \cup {None}
    <3>1. rec.intent \in Slots \cup {None}
      BY <1>6, <1>f DEF Settle, Unsettled, HasRec, RecType
    <3>. QED
      BY <1>6, <3>1, <1>c DEF Settle, SettleFS, At
  <2>2. ret' \in [Slots -> Files \cup {None}]
    BY <1>6, <1>c DEF Settle, SettleFS, At
  <2>3. run' \in RunType
    <3>1. PICK a, b \in BOOLEAN : run' = [run EXCEPT !.at = "settleDB", !.kept = a, !.unknown = b]
      <4>1. At(rec.intent) \in BOOLEAN /\ (At(rec.intent) /\ ~SameFile(rec.intent)) \in BOOLEAN
        BY DEF At
      <4>. QED
        BY <1>6, <4>1 DEF Settle, SettleFS
    <3>2. [run EXCEPT !.at = "settleDB", !.kept = a, !.unknown = b] \in RunType
      BY <1>a, PointNames, RunUpdates
    <3>. QED
      BY <3>1, <3>2
  <2>4. bounds' \in [crashes : Nat, errors : Nat, stuck : Nat, meddles : Nat]
    BY <1>6, <1>g DEF Settle, SettleFS
  <2>. QED
    BY <1>6, <2>1, <2>2, <2>3, <2>4 DEF TypeOK, Settle, SettleFS, disk, base, hist
<1>7. CASE SettleRecord
  <2>1. rec' \in RecType \cup {None}
    BY <1>7, <1>b, <1>f, <1>k, Facts, RunFields DEF SettleRecord, SettleDB, Go, RecType, J, D
  <2>2. rows' \subseteq RowType
    <3>1. rec \in RecType
      BY <1>7, <1>f, <1>k DEF SettleRecord
    <3>2. CASE run.kept /\ At(rec.intent)
      <4>1. rec.intent \in Slots /\ ret[rec.intent] \in Files /\ rec.why \in Whys
        BY <3>1, <3>2, <1>c DEF At, RecType
      <4>2. ret[rec.intent].c \in Contents /\ 0 \in Contents /\ 0 \in Nat
        BY <4>1 DEF Files, Contents, Partial
      <4>3. WithRow(Row(rec.intent, ret[rec.intent].c, 0, rec.why, 0)) \subseteq RowType
        BY <4>1, <4>2, RowTyped
      <4>. QED
        BY <1>7, <3>2, <4>3 DEF SettleRecord, SettleDB
    <3>. QED
      BY <1>7, <3>2, <1>h DEF SettleRecord, SettleDB
  <2>3. run' \in RunType
    BY <1>7, <1>a, PointNames, RunUpdates DEF SettleRecord, SettleDB, Go
  <2>. QED
    BY <1>7, <2>1, <2>2, <2>3 DEF TypeOK, SettleRecord, SettleDB, disk, base, hist
<1>8. CASE SettleNothing
  <2>1. run' \in RunType
    BY <1>8, <1>a, PointNames, RunUpdates DEF SettleNothing, Go
  <2>. QED
    BY <1>8, <2>1 DEF TypeOK, SettleNothing, disk, base, hist
<1>9. CASE ReconcileFails
  <2>1. jobst' \in [Jobs -> {"new", "running", "queued", "over"}]
    BY <1>9, <1>b, <1>i DEF ReconcileFails, Go, End, J
  <2>2. run' \in RunType
    <3>1. {k \in run.todo : \E i \in run.todo : i < k} \in SUBSET Jobs
      BY RunFields
    <3>2. CASE End("over")
      BY <3>2, Facts DEF End
    <3>3. CASE Go("ready")
      BY <3>3, <1>a, PointNames, RunUpdates DEF Go
    <3>4. CASE run' = [run EXCEPT !.at = "sweep", !.todo = {k \in @ : \E i \in @ : i < k}]
      BY <3>1, <3>4, <1>a, PointNames, RunUpdates
    <3>. QED
      BY <1>9, <3>2, <3>3, <3>4 DEF ReconcileFails
  <2>3. bounds' \in [crashes : Nat, errors : Nat, stuck : Nat, meddles : Nat]
    BY <1>9, <1>g DEF ReconcileFails, Go, End
  <2>. QED
    BY <1>9, <2>1, <2>2, <2>3 DEF TypeOK, ReconcileFails, disk, base, hist
<1>10. CASE Plan
  <2>1. item' \in [Jobs -> ItemType \cup {None}]
    <3>1. J \in Jobs
      BY <1>10, <1>b DEF Plan, J
    <3>2. PlanItem \in {"put", "retain"}
      BY <1>10 DEF Plan, PlanItem
    <3>3. (IF HasRec THEN rec.id ELSE 0) \in Nat
      BY <1>f DEF HasRec, RecType
    <3>4. [act |-> PlanItem, st |-> "pending", d |-> NoDetail, v |-> src,
           id |-> IF HasRec THEN rec.id ELSE 0] \in ItemType
      BY <3>2, <3>3, <1>j, Facts DEF ItemType
    <3>. QED
      BY <1>10, <3>1, <3>4, <1>e DEF Plan
  <2>. QED
    BY <1>10, <2>1 DEF TypeOK, Plan, disk, base, hist
<1>11. CASE Begin
  <2>1. run' \in RunType
    <3>1. item[J].d \in DetailType
      BY <1>11, <1>b, <1>e DEF Begin, J, ItemType
    <3>. QED
      BY <1>11, <3>1, <1>a, PointNames, RunUpdates DEF Begin
  <2>. QED
    BY <1>11, <2>1 DEF TypeOK, Begin, disk, base, hist
<1>12. CASE EarlierDisplace
  <2>1. rows' \subseteq RowType
    BY <1>12, DisplacedTyped DEF EarlierDisplace
  <2>2. run' \in RunType
    <3>1. item[J].act \in {"put", "retain"}
      BY <1>12, <1>b, <1>e, <1>k DEF EarlierDisplace, J, ItemType, ExecPoints
    <3>. QED
      BY <1>12, <3>1, <1>a, PointNames, RunUpdates DEF EarlierDisplace, Go
  <2>. QED
    BY <1>12, <2>1, <2>2 DEF TypeOK, EarlierDisplace, disk, base, hist
<1>13. CASE NothingToDo
  <2>1. jobst' \in [Jobs -> {"new", "running", "queued", "over"}]
    BY <1>13, <1>b, <1>i DEF NothingToDo, PlanItem, End, J
  <2>2. run' \in RunType
    BY <1>13, Facts DEF NothingToDo, End
  <2>. QED
    BY <1>13, <2>1, <2>2 DEF TypeOK, NothingToDo, disk, base, hist
<1>14. CASE PutResumed
  <2>1. run' \in RunType
    <3>1. At(D.ret) \in BOOLEAN
      BY DEF At
    <3>2. CASE run' = [run EXCEPT !.at = "commit", !.kept = TRUE, !.free = live = None]
      BY <3>2, <1>a, PointNames, RunUpdates
    <3>3. CASE run' = [run EXCEPT !.at = "record", !.kept = At(D.ret)]
      BY <3>1, <3>3, <1>a, PointNames, RunUpdates
    <3>. QED
      BY <1>14, <3>2, <3>3 DEF PutResumed
  <2>. QED
    BY <1>14, <2>1 DEF TypeOK, PutResumed, disk, base, hist
<1>15. CASE PutAnew
  <2>1. temp' \in [Jobs -> Files \cup {None}]
    BY <1>15, <1>b, <1>d, <1>j DEF PutAnew, StopWith, Files, J
  <2>2. run' \in RunType
    <3>1. ASSUME NEW p \in Points, NEW b \in BOOLEAN
          PROVE  [run EXCEPT !.at = p, !.d.temp = FALSE, !.d.done = FALSE, !.retx = b] \in RunType
      BY <1>a DEF RunType, DetailType
    <3>2. CASE src = 0
      BY <1>15, <3>2, <1>a, PointNames, RunUpdates DEF PutAnew, StopWith
    <3>3. CASE src # 0
      <4>. DEFINE p == IF AlreadyDone THEN "finish" ELSE IF ~HasRec /\ live # None THEN "way" ELSE "write"
      <4>1. p \in Points /\ At(D.ret) \in BOOLEAN
        BY PointNames DEF At
      <4>2. run' = [run EXCEPT !.at = p, !.d.temp = FALSE, !.d.done = FALSE, !.retx = At(D.ret)]
        BY <1>15, <3>3 DEF PutAnew
      <4>. HIDE DEF p
      <4>. QED
        BY <3>1, <4>1, <4>2
    <3>. QED
      BY <3>2, <3>3
  <2>. QED
    BY <1>15, <2>1, <2>2 DEF TypeOK, PutAnew, disk, base, hist
<1>16. CASE Adopt
  <2>1. rec' \in RecType \cup {None}
    <3>1. J \in Jobs /\ J \in Nat
      BY <1>16, <1>b, RunFields DEF Adopt, J
    <3>. QED
      BY <1>16, <3>1, <1>j, Facts DEF Adopt, RecType
  <2>2. run' \in RunType
    BY <1>16, <1>a, PointNames, RunUpdates DEF Adopt, Go
  <2>. QED
    BY <1>16, <2>1, <2>2 DEF TypeOK, Adopt, disk, base, hist
<1>17. CASE InTheWay
  <2>1. run' \in RunType
    BY <1>17, <1>a, PointNames, RunUpdates DEF InTheWay
  <2>. QED
    BY <1>17, <2>1 DEF TypeOK, InTheWay, disk, base, hist
<1>18. CASE Displace
  <2>1. rows' \subseteq RowType
    BY <1>18, DisplacedTyped DEF Displace
  <2>2. item' \in [Jobs -> ItemType \cup {None}]
    <3>. DEFINE e == IF D.disp = None \/ At(D.disp)
                     THEN [D EXCEPT !.disp = RetentionTarget, !.dv = live.c] ELSE D
    <3>1. J \in Jobs /\ item[J] # None /\ live \in Files
      BY <1>18, <1>b, <1>c, <1>k DEF Displace, J, ExecPoints
    <3>2. RetentionTarget \in Slots /\ live.c \in Contents
      BY <1>18, <3>1, TargetFree DEF Displace, Files
    <3>3. e \in DetailType
      BY <3>2, RunFields DEF DetailType
    <3>. HIDE DEF e
    <3>4. Save(e)
      BY <1>18 DEF Displace, e
    <3>. QED
      BY <3>1, <3>3, <3>4, SaveTyped
  <2>3. run' \in RunType
    <3>. DEFINE e == IF D.disp = None \/ At(D.disp)
                     THEN [D EXCEPT !.disp = RetentionTarget, !.dv = live.c] ELSE D
    <3>1. J \in Jobs /\ live \in Files
      BY <1>18, <1>b, <1>c, <1>k DEF Displace, J
    <3>2. RetentionTarget \in Slots /\ live.c \in Contents
      BY <1>18, <3>1, TargetFree DEF Displace, Files
    <3>3. e \in DetailType
      BY <3>2, RunFields DEF DetailType
    <3>. HIDE DEF e
    <3>4. run' = [run EXCEPT !.at = "displaceFS", !.d = e]
      BY <1>18 DEF Displace, e
    <3>. QED
      BY <3>3, <3>4, <1>a, PointNames, RunUpdates
  <2>. QED
    BY <1>18, <2>1, <2>2, <2>3 DEF TypeOK, Displace, disk, base, hist
<1>19. CASE DisplaceFS
  <2>1. live' \in Files \cup {None}
    BY <1>19, <1>c, <1>d DEF DisplaceFS, Go, At
  <2>2. ret' \in [Slots -> Files \cup {None}]
    BY <1>19, <1>c DEF DisplaceFS, Go, At
  <2>3. run' \in RunType
    BY <1>19, <1>a, PointNames, RunUpdates DEF DisplaceFS, Go
  <2>. QED
    BY <1>19, <2>1, <2>2, <2>3 DEF TypeOK, DisplaceFS, disk, base, hist
<1>20. CASE Displaced
  <2>1. rows' \subseteq RowType
    BY <1>20, DisplacedTyped DEF Displaced
  <2>2. run' \in RunType
    <3>1. run.next \in {"write", "commit"}
      BY <1>20, RunFields DEF Displaced, AtPoints
    <3>. QED
      BY <1>20, <3>1, <1>a, PointNames, RunUpdates DEF Displaced
  <2>. QED
    BY <1>20, <2>1, <2>2 DEF TypeOK, Displaced, disk, base, hist
<1>21. CASE NameTemp
  <2>1. item' \in [Jobs -> ItemType \cup {None}]
    <3>1. [D EXCEPT !.temp = TRUE, !.done = FALSE] \in DetailType
      BY RunFields DEF DetailType
    <3>2. J \in Jobs /\ item[J] # None
      BY <1>21, <1>b, <1>k DEF NameTemp, J, ExecPoints
    <3>. QED
      BY <1>21, <3>1, <3>2, SaveTyped DEF NameTemp
  <2>2. run' \in RunType
    <3>1. [D EXCEPT !.temp = TRUE, !.done = FALSE] \in DetailType
      BY RunFields DEF DetailType
    <3>. QED
      BY <1>21, <3>1, <1>a, PointNames, RunUpdates DEF NameTemp
  <2>. QED
    BY <1>21, <2>1, <2>2 DEF TypeOK, NameTemp, disk, base, hist
<1>22. CASE OpenTemp
  <2>1. temp' \in [Jobs -> Files \cup {None}]
    <3>1. J \in Jobs /\ [c |-> Partial, n |-> J] \in Files
      BY <1>22, <1>b, Facts DEF OpenTemp, Files, J
    <3>. QED
      BY <1>22, <3>1, <1>d DEF OpenTemp
  <2>2. run' \in RunType
    <3>1. src \in Contents
      BY <1>j, Facts
    <3>2. CASE src = 0
      BY <1>22, <3>2, <1>a, PointNames, RunUpdates DEF OpenTemp, StopWith
    <3>3. CASE src # 0
      <4>1. [run EXCEPT !.at = "copying", !.sv = src] \in RunType
        BY <3>1, <1>a, PointNames, RunUpdates
      <4>. QED
        BY <1>22, <3>3, <4>1 DEF OpenTemp
    <3>. QED
      BY <3>2, <3>3
  <2>. QED
    BY <1>22, <2>1, <2>2 DEF TypeOK, OpenTemp, disk, base, hist
<1>23. CASE FillTemp
  <2>1. temp' \in [Jobs -> Files \cup {None}]
    <3>1. J \in Jobs /\ temp[J] \in Files
      BY <1>23, <1>b, <1>d DEF FillTemp, J, NewVersionExists
    <3>2. [temp[J] EXCEPT !.c = src] \in Files
      BY <3>1, <1>j, Facts DEF Files
    <3>. QED
      BY <1>23, <3>1, <3>2, <1>d DEF FillTemp
  <2>2. run' \in RunType
    BY <1>23, <1>a, PointNames, RunUpdates DEF FillTemp, Go, StopWith
  <2>. QED
    BY <1>23, <2>1, <2>2 DEF TypeOK, FillTemp, disk, base, hist
<1>24. CASE TempDone
  <2>1. item' \in [Jobs -> ItemType \cup {None}]
    <3>1. [D EXCEPT !.done = TRUE, !.tv = run.sv] \in DetailType
      BY RunFields DEF DetailType
    <3>2. J \in Jobs /\ item[J] # None
      BY <1>24, <1>b, <1>k DEF TempDone, J, ExecPoints
    <3>. QED
      BY <1>24, <3>1, <3>2, SaveTyped DEF TempDone
  <2>2. run' \in RunType
    <3>1. [D EXCEPT !.done = TRUE, !.tv = run.sv] \in DetailType
      BY RunFields DEF DetailType
    <3>. QED
      BY <1>24, <3>1, <1>a, PointNames, RunUpdates DEF TempDone
  <2>. QED
    BY <1>24, <2>1, <2>2 DEF TypeOK, TempDone, disk, base, hist
<1>25. CASE Keep
  <2>1. run' \in RunType
    <3>1. run.retx \in BOOLEAN
      BY <1>a DEF RunType
    <3>2. CASE StopWith("fail")
      BY <3>2, <1>a, PointNames, RunUpdates DEF StopWith
    <3>3. CASE run' = [run EXCEPT !.at = "displace", !.next = "commit"]
      BY <3>3, <1>a, PointNames, RunUpdates
    <3>4. CASE Go(IF D.ret = None THEN "choose" ELSE "intent")
      BY <3>4, <1>a, PointNames, RunUpdates DEF Go
    <3>5. CASE run' = [run EXCEPT !.at = "commit", !.kept = HasRec /\ run.retx, !.free = live = None]
      BY <3>1, <3>5, <1>a, PointNames, RunUpdates DEF HasRec
    <3>. QED
      BY <1>25, <3>2, <3>3, <3>4, <3>5 DEF Keep
  <2>. QED
    BY <1>25, <2>1 DEF TypeOK, Keep, disk, base, hist
<1>26. CASE Choose
  <2>1. item' \in [Jobs -> ItemType \cup {None}]
    <3>. DEFINE e == [D EXCEPT !.ret = RetentionTarget, !.rv = live.c,
                               !.rh = Description.h, !.why = Description.why]
    <3>1. J \in Jobs /\ item[J] # None /\ live \in Files /\ rec \in RecType
      BY <1>26, <1>b, <1>c, <1>f, <1>k DEF Choose, J, ExecPoints
    <3>2. RetentionTarget \in Slots /\ live.c \in Contents
      BY <1>26, <3>1, TargetFree DEF Choose, Files
    <3>3. Description.h \in Contents /\ Description.why \in Whys
      BY <3>1, Facts DEF Description, Whys, RecType, Contents, Partial
    <3>4. e \in DetailType
      BY <3>2, <3>3, RunFields DEF DetailType
    <3>. HIDE DEF e
    <3>5. Save(e)
      BY <1>26 DEF Choose, e
    <3>. QED
      BY <3>1, <3>4, <3>5, SaveTyped
  <2>2. run' \in RunType
    <3>. DEFINE e == [D EXCEPT !.ret = RetentionTarget, !.rv = live.c,
                               !.rh = Description.h, !.why = Description.why]
    <3>1. J \in Jobs /\ item[J] # None /\ live \in Files /\ rec \in RecType
      BY <1>26, <1>b, <1>c, <1>f, <1>k DEF Choose, J, ExecPoints
    <3>2. RetentionTarget \in Slots /\ live.c \in Contents
      BY <1>26, <3>1, TargetFree DEF Choose, Files
    <3>3. Description.h \in Contents /\ Description.why \in Whys
      BY <3>1, Facts DEF Description, Whys, RecType, Contents, Partial
    <3>4. e \in DetailType
      BY <3>2, <3>3, RunFields DEF DetailType
    <3>. HIDE DEF e
    <3>5. run' = [run EXCEPT !.at = "intent", !.d = e]
      BY <1>26 DEF Choose, e
    <3>. QED
      BY <3>4, <3>5, <1>a, PointNames, RunUpdates
  <2>. QED
    BY <1>26, <2>1, <2>2 DEF TypeOK, Choose, disk, base, hist
<1>27. CASE Intent
  <2>1. rec' \in RecType \cup {None}
    BY <1>27, <1>b, <1>f, <1>k, Facts, RunFields DEF Intent, Go, RecType, J, D
  <2>2. run' \in RunType
    BY <1>27, <1>a, PointNames, RunUpdates DEF Intent, Go
  <2>. QED
    BY <1>27, <2>1, <2>2 DEF TypeOK, Intent, disk, base, hist
<1>28. CASE KeepFS
  <2>1. live' \in Files \cup {None}
    BY <1>28, <1>c, <1>d DEF KeepFS, At
  <2>2. ret' \in [Slots -> Files \cup {None}]
    BY <1>28, <1>c DEF KeepFS, At
  <2>3. run' \in RunType
    <3>1. [run EXCEPT !.at = "choose", !.d.ret = None] \in RunType
      BY <1>a DEF RunType, DetailType, Points, ExecPoints
    <3>2. ~At(D.ret) => \E p \in {"commit", "retained"}, b \in BOOLEAN :
                           run' = [run EXCEPT !.at = p, !.kept = TRUE, !.free = b]
      BY <1>28 DEF KeepFS
    <3>3. CASE At(D.ret)
      BY <1>28, <3>1, <3>3 DEF KeepFS
    <3>4. CASE ~At(D.ret)
      <4>1. PICK p \in {"commit", "retained"}, b \in BOOLEAN :
               run' = [run EXCEPT !.at = p, !.kept = TRUE, !.free = b]
        BY <3>2, <3>4
      <4>2. p \in Points
        BY PointNames
      <4>3. [run EXCEPT !.at = p, !.kept = TRUE, !.free = b] \in RunType
        BY <4>2, <1>a, RunUpdates
      <4>. QED
        BY <4>1, <4>3
    <3>. QED
      BY <3>3, <3>4
  <2>. QED
    BY <1>28, <2>1, <2>2, <2>3 DEF TypeOK, KeepFS, disk, base, hist
<1>29. CASE Commit
  <2>1. live' \in Files \cup {None}
    BY <1>29, <1>b, <1>c, <1>d DEF Commit, J
  <2>2. temp' \in [Jobs -> Files \cup {None}]
    BY <1>29, <1>b, <1>d, <1>j DEF Commit, StopWith, Go, Files, J
  <2>3. run' \in RunType
    BY <1>29, <1>a, PointNames, RunUpdates DEF Commit, Go, StopWith
  <2>. QED
    BY <1>29, <2>1, <2>2, <2>3 DEF TypeOK, Commit, disk, base, hist
<1>30. CASE Record
  <2>1. rec' \in RecType \cup {None}
    <3>1. J \in Jobs /\ J \in Nat
      BY <1>30, <1>b, RunFields DEF Record, J
    <3>2. (IF HasRec THEN rec.id ELSE J) \in Nat
      BY <3>1, <1>f DEF HasRec, RecType
    <3>. QED
      BY <1>30, <3>1, <3>2, RunFields, Facts DEF Record, Placed, RecType
  <2>2. rows' \subseteq RowType
    <3>1. CASE run.kept /\ D.ret # None
      <4>1. WithRow(Row(D.ret, D.rv, D.rh, D.why, 0)) \subseteq RowType
        BY <3>1, RunFields, RowTyped
      <4>. QED
        BY <1>30, <3>1, <4>1 DEF Record, Placed
    <3>. QED
      BY <1>30, <3>1, <1>h DEF Record, Placed
  <2>3. run' \in RunType
    BY <1>30, <1>a, PointNames, RunUpdates DEF Record, Go
  <2>. QED
    BY <1>30, <2>1, <2>2, <2>3 DEF TypeOK, Record, disk, base, hist
<1>31. CASE Finish
  <2>1. item' \in [Jobs -> ItemType \cup {None}]
    BY <1>31, <1>b, <1>e, <1>k DEF Finish, Go, ItemType, DetailType, J, D, ExecPoints
  <2>2. run' \in RunType
    BY <1>31, <1>a, PointNames, RunUpdates DEF Finish, Go
  <2>. QED
    BY <1>31, <2>1, <2>2 DEF TypeOK, Finish, disk, base, hist
<1>32. CASE Retain
  <2>1. run' \in RunType
    <3>1. CASE Go("finish")
      BY <3>1, <1>a, PointNames, RunUpdates DEF Go
    <3>2. CASE run' = [run EXCEPT !.at = "retained", !.kept = TRUE]
      BY <3>2, <1>a, PointNames, RunUpdates
    <3>3. CASE run' = [run EXCEPT !.kept = FALSE,
                          !.at = IF live = None THEN "retained"
                                 ELSE IF D.ret = None THEN "choose" ELSE "intent"]
      BY <3>3, <1>a, PointNames, RunUpdates
    <3>. QED
      BY <1>32, <3>1, <3>2, <3>3 DEF Retain
  <2>. QED
    BY <1>32, <2>1 DEF TypeOK, Retain, disk, base, hist
<1>33. CASE Retained
  <2>1. rec' \in RecType \cup {None}
    BY <1>33, <1>b, <1>f, <1>k, Facts, RunFields DEF Retained, Go, RecType, J, D
  <2>2. rows' \subseteq RowType
    <3>1. CASE run.kept
      <4>1. D.ret \in Slots /\ rec.id \in Nat
        BY <1>33, <3>1, <1>f, <1>k, RunFields DEF Retained, RecType, AtPoints
      <4>2. WithRow(Row(D.ret, D.rv, D.rh, D.why, rec.id)) \subseteq RowType
        BY <4>1, RunFields, RowTyped
      <4>. QED
        BY <1>33, <3>1, <4>2 DEF Retained
    <3>. QED
      BY <1>33, <3>1, <1>h DEF Retained
  <2>3. run' \in RunType
    BY <1>33, <1>a, PointNames, RunUpdates DEF Retained, Go
  <2>. QED
    BY <1>33, <2>1, <2>2, <2>3 DEF TypeOK, Retained, disk, base, hist
<1>34. CASE PutBack
  <2>1. live' \in Files \cup {None}
    <3>1. rec.intent \in Slots \cup {None}
      BY <1>34, <1>f DEF PutBack, OwnIntent, HasRec, RecType
    <3>. QED
      BY <1>34, <3>1, <1>c DEF PutBack, SettleFS, At
  <2>2. ret' \in [Slots -> Files \cup {None}]
    BY <1>34, <1>c DEF PutBack, SettleFS, At
  <2>3. run' \in RunType
    <3>1. PICK a, b \in BOOLEAN : run' = [run EXCEPT !.at = "putBackDB", !.kept = a, !.unknown = b]
      <4>1. At(rec.intent) \in BOOLEAN /\ (At(rec.intent) /\ ~SameFile(rec.intent)) \in BOOLEAN
        BY DEF At
      <4>. QED
        BY <1>34, <4>1 DEF PutBack, SettleFS
    <3>2. [run EXCEPT !.at = "putBackDB", !.kept = a, !.unknown = b] \in RunType
      BY <1>a, PointNames, RunUpdates
    <3>. QED
      BY <3>1, <3>2
  <2>4. bounds' \in [crashes : Nat, errors : Nat, stuck : Nat, meddles : Nat]
    BY <1>34, <1>g DEF PutBack, SettleFS
  <2>. QED
    BY <1>34, <2>1, <2>2, <2>3, <2>4 DEF TypeOK, PutBack, SettleFS, disk, base, hist
<1>35. CASE PutBackRecord
  <2>1. rec' \in RecType \cup {None}
    BY <1>35, <1>b, <1>f, <1>k, Facts, RunFields DEF PutBackRecord, SettleDB, Go, RecType, J, D
  <2>2. rows' \subseteq RowType
    <3>1. rec \in RecType
      BY <1>35, <1>f, <1>k DEF PutBackRecord
    <3>2. CASE run.kept /\ At(rec.intent)
      <4>1. rec.intent \in Slots /\ ret[rec.intent] \in Files /\ D.why \in Whys /\ D.rh \in Contents
        BY <3>1, <3>2, <1>c, RunFields DEF At, RecType
      <4>2. ret[rec.intent].c \in Contents /\ 0 \in Contents /\ 0 \in Nat
        BY <4>1 DEF Files, Contents, Partial
      <4>3. WithRow(Row(rec.intent, ret[rec.intent].c, D.rh, D.why, 0)) \subseteq RowType
        BY <4>1, <4>2, RowTyped
      <4>. QED
        BY <1>35, <3>2, <4>3 DEF PutBackRecord, SettleDB
    <3>. QED
      BY <1>35, <3>2, <1>h DEF PutBackRecord, SettleDB
  <2>3. run' \in RunType
    BY <1>35, <1>a, PointNames, RunUpdates DEF PutBackRecord, SettleDB, Go
  <2>. QED
    BY <1>35, <2>1, <2>2, <2>3 DEF TypeOK, PutBackRecord, SettleDB, disk, base, hist
<1>36. CASE PutBackNothing
  <2>1. run' \in RunType
    BY <1>36, <1>a, PointNames, RunUpdates DEF PutBackNothing, Go
  <2>. QED
    BY <1>36, <2>1 DEF TypeOK, PutBackNothing, disk, base, hist
<1>37. CASE PutBackFails
  <2>1. run' \in RunType
    BY <1>37, <1>a, PointNames, RunUpdates DEF PutBackFails, Go
  <2>2. bounds' \in [crashes : Nat, errors : Nat, stuck : Nat, meddles : Nat]
    BY <1>37, <1>g DEF PutBackFails, Go
  <2>. QED
    BY <1>37, <2>1, <2>2 DEF TypeOK, PutBackFails, disk, base, hist
<1>38. CASE Salvage
  <2>1. temp' \in [Jobs -> Files \cup {None}]
    BY <1>38, <1>b, <1>d, <1>j DEF Salvage, RecordDisplaced, End, Files, J
  <2>2. rows' \subseteq RowType
    BY <1>38, DisplacedTyped DEF Salvage
  <2>3. jobst' \in [Jobs -> {"new", "running", "queued", "over"}]
    BY <1>38, <1>b, <1>i DEF Salvage, RecordDisplaced, End, J
  <2>4. run' \in RunType
    BY <1>38, Facts DEF Salvage, End
  <2>. QED
    BY <1>38, <2>1, <2>2, <2>3, <2>4 DEF TypeOK, Salvage, disk, base, hist
<1>39. CASE Cancelled
  <2>1. temp' \in [Jobs -> Files \cup {None}]
    BY <1>39, <1>b, <1>d, <1>j DEF Cancelled, CleanTemp, End, Files, J
  <2>2. jobst' \in [Jobs -> {"new", "running", "queued", "over"}]
    BY <1>39, <1>b, <1>i DEF Cancelled, CleanTemp, End, J
  <2>3. run' \in RunType
    BY <1>39, Facts DEF Cancelled, End
  <2>. QED
    BY <1>39, <2>1, <2>2, <2>3 DEF TypeOK, Cancelled, disk, base, hist
<1>40. CASE ItemFailed
  <2>1. temp' \in [Jobs -> Files \cup {None}]
    BY <1>40, <1>b, <1>d, <1>j DEF ItemFailed, CleanTemp, Go, Files, J
  <2>2. item' \in [Jobs -> ItemType \cup {None}]
    BY <1>40, <1>b, <1>e, <1>k DEF ItemFailed, CleanTemp, Go, ItemType, DetailType, J, D,
                                   ExecPoints
  <2>3. run' \in RunType
    BY <1>40, <1>a, PointNames, RunUpdates DEF ItemFailed, Go
  <2>. QED
    BY <1>40, <2>1, <2>2, <2>3 DEF TypeOK, ItemFailed, disk, base, hist
<1>41. CASE Verify
  <2>1. rec' \in RecType \cup {None}
    BY <1>41, <1>f DEF Verify, RecType, HasRec
  <2>2. jobst' \in [Jobs -> {"new", "running", "queued", "over"}]
    BY <1>41, <1>b, <1>i DEF Verify, End, J
  <2>3. run' \in RunType
    BY <1>41, Facts DEF Verify, End
  <2>. QED
    BY <1>41, <2>1, <2>2, <2>3 DEF TypeOK, Verify, disk, base, hist
<1>42. CASE ExpireRow
  <2>1. rows' \subseteq RowType
    BY <1>42, <1>c, <1>h, RunFields, RowTyped DEF ExpireRow, At, D
  <2>2. run' \in RunType
    BY <1>42, <1>a, Facts, PointNames, RunUpdates DEF ExpireRow
  <2>. QED
    BY <1>42, <2>1, <2>2 DEF TypeOK, ExpireRow, disk, base, hist
<1>43. CASE ExpireEnd
  <2>1. jobst' \in [Jobs -> {"new", "running", "queued", "over"}]
    BY <1>43, <1>b, <1>i DEF ExpireEnd, End, J
  <2>2. run' \in RunType
    BY <1>43, Facts DEF ExpireEnd, End
  <2>. QED
    BY <1>43, <2>1, <2>2 DEF TypeOK, ExpireEnd, disk, base, hist
<1>44. ASSUME NEW j \in Jobs, NEW k \in {"sync", "verify", "retention"}, Start(j, k)
      PROVE  TypeOK'
  <2>1. jobst' \in [Jobs -> {"new", "running", "queued", "over"}]
    BY <1>44, <1>b, <1>i DEF Start, J
  <2>2. kind' \in [Jobs -> {"sync", "verify", "retention"}]
    BY <1>44, <1>i DEF Start
  <2>3. run' \in RunType
    BY <1>44, <1>a, Facts DEF Start, RunType, Points, ExecPoints, At
  <2>. QED
    BY <1>44, <2>1, <2>2, <2>3 DEF TypeOK, Start, disk, base, hist
<1>45. ASSUME NEW i \in Jobs, SweepDisplaced(i)
      PROVE  TypeOK'
  <2>1. rows' \subseteq RowType
    <3>1. item[i] \in ItemType /\ item[i].d \in DetailType
      BY <1>45, <1>e, <1>k DEF SweepDisplaced, ItemType
    <3>2. /\ item[i].d.ret \in Slots \cup {None} /\ item[i].d.disp \in Slots \cup {None}
          /\ item[i].d.rv \in Contents /\ item[i].d.rh \in Contents /\ item[i].d.tv \in Contents
          /\ item[i].d.why \in Whys
      BY <3>1 DEF DetailType
    <3>3. CASE At(item[i].d.disp)
      <4>1. item[i].d.disp \in Slots /\ ret[item[i].d.disp] \in Files
        BY <3>2, <3>3, <1>c DEF At
      <4>2. ret[item[i].d.disp].c \in Contents /\ 0 \in Contents /\ 0 \in Nat /\ "displaced" \in Whys
        BY <4>1 DEF Files, Contents, Partial, Whys
      <4>3. WithRow(Row(item[i].d.disp, ret[item[i].d.disp].c, 0, "displaced", 0)) \subseteq RowType
        BY <4>1, <4>2, RowTyped
      <4>. QED
        BY <1>45, <3>3, <4>3 DEF SweepDisplaced
    <3>. QED
      BY <1>45, <3>3, <1>h DEF SweepDisplaced
  <2>2. run' \in RunType
    BY <1>45, <1>a, PointNames, RunUpdates DEF SweepDisplaced, Go
  <2>. QED
    BY <1>45, <2>1, <2>2 DEF TypeOK, SweepDisplaced, disk, base, hist
<1>46. ASSUME NEW i \in Jobs, SweepPlaced(i)
      PROVE  TypeOK'
  <2>1. rec' \in RecType \cup {None}
    <3>1. item[i] \in ItemType /\ item[i].d \in DetailType
      BY <1>46, <1>e, <1>k DEF SweepPlaced, ItemType
    <3>2. /\ item[i].d.ret \in Slots \cup {None} /\ item[i].d.disp \in Slots \cup {None}
          /\ item[i].d.rv \in Contents /\ item[i].d.rh \in Contents /\ item[i].d.tv \in Contents
          /\ item[i].d.why \in Whys
      BY <3>1 DEF DetailType
    <3>3. (IF HasRec THEN rec.id ELSE i) \in Nat
      BY <1>f, Facts DEF HasRec, RecType
    <3>4. [st |-> "present", v |-> item[i].d.tv, intent |-> None, why |-> "", job |-> i,
           id |-> IF HasRec THEN rec.id ELSE i] \in RecType
      BY <3>2, <3>3, Facts DEF RecType
    <3>. QED
      BY <1>46, <3>4, <1>f DEF SweepPlaced, Placed
  <2>2. rows' \subseteq RowType
    <3>1. item[i] \in ItemType /\ item[i].d \in DetailType
      BY <1>46, <1>e, <1>k DEF SweepPlaced, ItemType
    <3>2. /\ item[i].d.ret \in Slots \cup {None} /\ item[i].d.disp \in Slots \cup {None}
          /\ item[i].d.rv \in Contents /\ item[i].d.rh \in Contents /\ item[i].d.tv \in Contents
          /\ item[i].d.why \in Whys
      BY <3>1 DEF DetailType
    <3>3. CASE FinishedPlaced(i, item[i].d) /\ item[i].d.ret # None
      <4>1. WithRow(Row(item[i].d.ret, item[i].d.rv, item[i].d.rh, item[i].d.why, 0)) \subseteq RowType
        BY <3>2, <3>3, RowTyped
      <4>. QED
        BY <1>46, <3>3, <4>1 DEF SweepPlaced, Placed
    <3>. QED
      BY <1>46, <3>3, <1>h DEF SweepPlaced, Placed
  <2>3. run' \in RunType
    BY <1>46, <1>a, PointNames, RunUpdates DEF SweepPlaced, Go
  <2>. QED
    BY <1>46, <2>1, <2>2, <2>3 DEF TypeOK, SweepPlaced, disk, base, hist
<1>47. ASSUME NEW i \in Jobs, SweepTemp(i)
      PROVE  TypeOK'
  <2>1. temp' \in [Jobs -> Files \cup {None}]
    BY <1>47, <1>b, <1>d, <1>j DEF SweepTemp, Files, J
  <2>2. run' \in RunType
    <3>1. run.todo \ {i} \in SUBSET Jobs
      BY RunFields
    <3>. QED
      BY <1>47, <3>1, <1>a, PointNames, RunUpdates DEF SweepTemp
  <2>. QED
    BY <1>47, <2>1, <2>2 DEF TypeOK, SweepTemp, disk, base, hist
<1>48. ASSUME NEW how \in {"fail", "fatal", "cancel"}, Fail(how)
      PROVE  TypeOK'
  <2>1. run' \in RunType
    BY <1>48, <1>a, PointNames, RunUpdates DEF Fail, StopWith
  <2>2. bounds' \in [crashes : Nat, errors : Nat, stuck : Nat, meddles : Nat]
    BY <1>48, <1>g DEF Fail, StopWith
  <2>. QED
    BY <1>48, <2>1, <2>2 DEF TypeOK, Fail, disk, base, hist
<1>49. ASSUME NEW r \in rows, ExpireFile(r)
      PROVE  TypeOK'
  <2>1. ret' \in [Slots -> Files \cup {None}]
    BY <1>49, <1>c DEF ExpireFile, At
  <2>2. run' \in RunType
    <3>1. [NoDetail EXCEPT !.ret = r.slot] \in DetailType
      BY <1>h, Facts DEF DetailType, RowType
    <3>. QED
      BY <1>49, <3>1, <1>a, PointNames, RunUpdates DEF ExpireFile
  <2>. QED
    BY <1>49, <2>1, <2>2 DEF TypeOK, ExpireFile, disk, base, hist
<1>50. CASE UNCHANGED vars
    BY <1>50 DEF TypeOK, vars, disk, base, hist
<1>. QED
    BY <1>1, <1>2, <1>3, <1>4, <1>5, <1>6, <1>7, <1>8, <1>9, <1>10, <1>11, <1>12, <1>13, <1>14,
       <1>15, <1>16, <1>17, <1>18, <1>19, <1>20, <1>21, <1>22, <1>23, <1>24, <1>25, <1>26,
       <1>27, <1>28, <1>29, <1>30, <1>31, <1>32, <1>33, <1>34, <1>35, <1>36, <1>37, <1>38,
       <1>39, <1>40, <1>41, <1>42, <1>43, <1>44, <1>45, <1>46, <1>47, <1>48, <1>49,
       <1>50 DEF Next, Reconcile, Sync, Place, Stop, Other

-----------------------------------------------------------------------------
(* Control.                                                                *)

Control == AtPoints /\ NewVersionExists /\ ReplacesLinked

\* Points at which nothing is known but the job.
LEMMA CalmPoint ==
    ASSUME run'.at \in {"idle", "sweep", "sweepPlaced", "sweepTemp", "settle", "ready", "expired"},
           run'.at # "idle" => run'.job \in Jobs,
           \A i \in run'.todo : item'[i] # None
    PROVE  Control'
BY DEF Control, AtPoints, NewVersionExists, ReplacesLinked, ExecPoints, J

\* Points at which the job has an item and nothing else is known.
LEMMA ItemPoint ==
    ASSUME run'.at \in {"begin", "put", "write", "copy", "record", "finish", "putBack", "clean"},
           run'.job \in Jobs, item'[run'.job] # None,
           \A i \in run'.todo : item'[i] # None
    PROVE  Control'
BY DEF Control, AtPoints, NewVersionExists, ReplacesLinked, ExecPoints, J

\* The running job moves to point p and keeps the rest.
LEMMA Moved ==
    ASSUME run \in RunType, NEW p, Go(p)
    PROVE  /\ run'.at = p /\ run'.job = run.job /\ run'.d = run.d /\ run'.todo = run.todo
           /\ run'.next = run.next /\ run'.kept = run.kept /\ run'.free = run.free
           /\ run'.retx = run.retx
BY DEF RunType, Go

\* The item stops: what it displaced is put back next.
LEMMA Stopped ==
    ASSUME run \in RunType, NEW how, StopWith(how)
    PROVE  run'.at = "putBack" /\ run'.job = run.job /\ run'.todo = run.todo
BY DEF RunType, StopWith

\* The job ends.
LEMMA Ended ==
    ASSUME NEW st, End(st)
    PROVE  run'.at = "idle" /\ run'.todo = {}
BY DEF End, Idle

\* What is known when the item is executed or stopped.
LEMMA Executing ==
    ASSUME TypeOK, AtPoints, run.at \in ExecPoints \cup {"putBack", "putBackDB", "clean"}
    PROVE  /\ run \in RunType /\ J \in Jobs /\ run.job = J
           /\ item[J] \in ItemType /\ item[J] # None
           /\ \A i \in run.todo : item[i] # None
BY DEF TypeOK, AtPoints, J, ExecPoints

\* What is known at each point, at first.
LEMMA ControlInit == Init => Control
<1>. SUFFICES ASSUME Init PROVE Control
    OBVIOUS
<1>1. run.at = "idle" /\ run.todo = {}
    BY DEF Init, Idle
<1>. QED
    BY <1>1 DEF Control, AtPoints, NewVersionExists, ReplacesLinked, ExecPoints

\* The destination, the records and the job are as they were.
LEMMA ControlFramed ==
    ASSUME Control, UNCHANGED <<live, ret, temp, rec, item, run>>
    PROVE  Control'
BY DEF Control, AtPoints, NewVersionExists, ReplacesLinked, J, D, HasRec, SameFile, At

\* Each step leads to a point at which what the next one needs is known.
LEMMA ControlKept ==
    ASSUME TypeOK, TypeOK', Control, [Next]_vars
    PROVE  Control'
<1>a. run \in RunType
    BY DEF TypeOK
<1>b. AtPoints /\ (run.at # "idle" => run.job \in Jobs) /\ (\A i \in run.todo : item[i] # None)
    BY DEF Control, AtPoints, J
<1>c. run.todo \subseteq Jobs
    BY RunFields
<1>1. CASE SourceChanges
    BY <1>1, ControlFramed DEF SourceChanges, disk, base, hist
<1>2. CASE SourceVanishes
    BY <1>2, ControlFramed DEF SourceVanishes, disk, base, hist
<1>3. CASE Meddle
  <2>1. CASE run.at = "idle"
    <3>1. run' = run /\ item' = item
    BY <1>3 DEF Meddle, base
    <3>. QED
    BY <1>b, <2>1, <3>1, CalmPoint
  <2>2. CASE live = None /\ live' = [c |-> Foreign, n |-> bounds.meddles]
    <3>1. bounds.meddles \in Nat
    BY DEF TypeOK
    <3>2. [c |-> Foreign, n |-> bounds.meddles] \in Files
    BY <3>1, Facts DEF Files
    <3>4. live' # None
    BY <2>2, <3>2, SyncAssumption
    <3>3. UNCHANGED <<ret, temp, rec, item, run>>
    BY <1>3 DEF Meddle, base
    <3>. QED
    BY <2>2, <3>3, <3>4 DEF Control, AtPoints, NewVersionExists, ReplacesLinked, J, D, HasRec
  <2>. QED
    BY <1>3, <2>1, <2>2 DEF Meddle
<1>4. CASE Crash
  <2>1. run'.at = "idle" /\ run'.todo = {}
    BY <1>4, Ended DEF Crash, Idle
  <2>. QED
    BY <2>1, CalmPoint
<1>5. CASE SweepEnd
  <2>1. run'.at = "settle" /\ run'.job = run.job /\ run'.todo = run.todo /\ item' = item
    BY <1>5, <1>a, Moved DEF SweepEnd, base
  <2>2. run.at # "idle"
    BY <1>5 DEF SweepEnd
  <2>. QED
    BY <1>b, <2>1, <2>2, CalmPoint
<1>6. CASE Settle
  <2>1. run'.at = "settleDB" /\ run'.job = run.job /\ run'.todo = run.todo
    BY <1>6, <1>a DEF Settle, SettleFS, RunType
  <2>2. run.at # "idle" /\ rec # None /\ rec' = rec /\ item' = item
    BY <1>6 DEF Settle, SettleFS, base, Unsettled, HasRec
  <2>. QED
    BY <1>b, <2>1, <2>2 DEF Control, AtPoints, NewVersionExists, ReplacesLinked, J, HasRec, ExecPoints
<1>7. CASE SettleRecord
  <2>1. run'.at = "ready" /\ run'.job = run.job /\ run'.todo = run.todo /\ item' = item
    BY <1>7, <1>a, Moved DEF SettleRecord, base, SettleDB
  <2>2. run.at # "idle"
    BY <1>7 DEF SettleRecord
  <2>. QED
    BY <1>b, <2>1, <2>2, CalmPoint
<1>8. CASE SettleNothing
  <2>1. run'.at = "ready" /\ run'.job = run.job /\ run'.todo = run.todo /\ item' = item
    BY <1>8, <1>a, Moved DEF SettleNothing, base
  <2>2. run.at # "idle"
    BY <1>8 DEF SettleNothing
  <2>. QED
    BY <1>b, <2>1, <2>2, CalmPoint
<1>9. CASE ReconcileFails
  <2>1. run.at # "idle" /\ item' = item
    BY <1>9 DEF ReconcileFails
  <2>2. \/ run'.at = "ready" /\ run'.job = run.job /\ run'.todo = run.todo
        \/ run'.at = "sweep" /\ run'.job = run.job /\ run'.todo \subseteq run.todo
        \/ run'.at = "idle" /\ run'.todo = {}
    BY <1>9, <1>a, Moved, Ended DEF ReconcileFails, RunType
  <2>. QED
    BY <1>b, <2>1, <2>2, CalmPoint
<1>10. CASE Plan
  <2>1. run' = run /\ run.at = "ready" /\ run.job \in Jobs
    BY <1>10, <1>b DEF Plan
  <2>2. \A i \in Jobs : item[i] # None => item'[i] = item[i]
    BY <1>10, <2>1 DEF Plan, J, TypeOK
  <2>. QED
    BY <1>b, <1>c, <2>1, <2>2, CalmPoint
<1>11. CASE Begin
  <2>1. run.job \in Jobs /\ item[run.job] # None /\ item' = item
    BY <1>11, <1>b DEF Begin, J, base
  <2>2. run'.at = "begin" /\ run'.job = run.job /\ run'.todo = run.todo
    BY <1>11, <1>a DEF Begin, RunType
  <2>. QED
    BY <1>b, <2>1, <2>2, ItemPoint
<1>12. CASE EarlierDisplace
  <2>1. /\ J \in Jobs /\ run.job = J /\ item[J] \in ItemType /\ item[J] # None
        /\ \A i \in run.todo : item[i] # None
    BY <1>12, <1>b, Executing DEF EarlierDisplace, ExecPoints
  <2>2. run'.at = item[J].act /\ run'.job = run.job /\ run'.todo = run.todo /\ item' = item
    BY <1>12, <1>a, Moved DEF EarlierDisplace
  <2>3. CASE item[J].act = "put"
    BY <2>1, <2>2, <2>3, ItemPoint
  <2>4. CASE item[J].act = "retain"
    BY <2>1, <2>2, <2>4 DEF Control, AtPoints, NewVersionExists, ReplacesLinked, J, ExecPoints
  <2>. QED
    BY <2>1, <2>3, <2>4 DEF ItemType
<1>13. CASE NothingToDo
  <2>1. run'.at = "idle" /\ run'.todo = {}
    BY <1>13, Ended DEF NothingToDo, Idle
  <2>. QED
    BY <2>1, CalmPoint
<1>14. CASE PutResumed
  <2>1. /\ J \in Jobs /\ run.job = J /\ item[J] \in ItemType /\ item[J] # None
        /\ \A i \in run.todo : item[i] # None
    BY <1>14, <1>b, Executing DEF PutResumed, ExecPoints
  <2>2. item' = item /\ live' = live /\ ret' = ret /\ temp' = temp
    BY <1>14 DEF PutResumed, disk, base
  <2>3. CASE HalfDone /\ run' = [run EXCEPT !.at = "commit", !.kept = TRUE, !.free = live = None]
    <3>1. /\ run'.at = "commit" /\ run'.job = J /\ run'.todo = run.todo /\ run'.d = D
          /\ run'.free = (live = None)
    BY <1>a, <2>1, <2>3 DEF RunType, D
    <3>2. temp[J] # None /\ (live # None => SameFile(D.ret))
    BY <2>3 DEF HalfDone, TempComplete, LinkedOld
    <3>. QED
    BY <2>1, <2>2, <3>1, <3>2 DEF Control, AtPoints, NewVersionExists, ReplacesLinked, J, D, SameFile, At
  <2>4. CASE run' = [run EXCEPT !.at = "record", !.kept = At(D.ret)]
    <3>1. run'.at = "record" /\ run'.job = J /\ run'.todo = run.todo
    BY <1>a, <2>1, <2>4 DEF RunType
    <3>. QED
    BY <2>1, <2>2, <3>1, ItemPoint
  <2>. QED
    BY <1>14, <2>3, <2>4 DEF PutResumed
<1>15. CASE PutAnew
  <2>1. /\ J \in Jobs /\ run.job = J /\ item[J] \in ItemType /\ item[J] # None
        /\ \A i \in run.todo : item[i] # None
    BY <1>15, <1>b, Executing DEF PutAnew, ExecPoints
  <2>2. item' = item /\ live' = live /\ rec' = rec
    BY <1>15 DEF PutAnew, base
  <2>3. CASE StopWith("fail")
    <3>1. run'.at = "putBack" /\ run'.job = run.job /\ run'.todo = run.todo
    BY <1>a, <2>3, Stopped
    <3>. QED
    BY <2>1, <2>2, <3>1, ItemPoint
  <2>4. CASE src # 0
    <3>1. /\ run'.job = run.job /\ run'.todo = run.todo
          /\ run'.at \in {"finish", "way", "write"} /\ (run'.at = "way" => live # None)
    BY <1>15, <1>a, <2>4 DEF PutAnew, RunType
    <3>2. CASE run'.at = "way"
    BY <2>1, <2>2, <3>1, <3>2 DEF Control, AtPoints, NewVersionExists, ReplacesLinked, J, ExecPoints
    <3>. QED
    BY <2>1, <2>2, <3>1, <3>2, ItemPoint
  <2>. QED
    BY <1>15, <2>3, <2>4 DEF PutAnew
<1>16. CASE Adopt
  <2>1. /\ J \in Jobs /\ run.job = J /\ item[J] \in ItemType /\ item[J] # None
        /\ \A i \in run.todo : item[i] # None
    BY <1>16, <1>b, Executing DEF Adopt, ExecPoints
  <2>2. run'.at = "finish" /\ run'.job = run.job /\ run'.todo = run.todo /\ item' = item
    BY <1>16, <1>a, Moved DEF Adopt, base
  <2>. QED
    BY <2>1, <2>2, ItemPoint
<1>17. CASE InTheWay
  <2>1. /\ J \in Jobs /\ run.job = J /\ item[J] \in ItemType /\ item[J] # None
        /\ \A i \in run.todo : item[i] # None
    BY <1>17, <1>b, Executing DEF InTheWay, ExecPoints
  <2>2. run'.at = "displace" /\ run'.next = "write" /\ run'.job = run.job /\ run'.todo = run.todo
    BY <1>17, <1>a DEF InTheWay, RunType
  <2>3. live # None /\ live' = live /\ item' = item
    BY <1>17, <1>b DEF InTheWay, AtPoints, disk, base
  <2>. QED
    BY <2>1, <2>2, <2>3 DEF Control, AtPoints, NewVersionExists, ReplacesLinked, J
<1>18. CASE Displace
  <2>1. /\ J \in Jobs /\ run.job = J /\ item[J] \in ItemType /\ item[J] # None
        /\ \A i \in run.todo : item[i] # None
    BY <1>18, <1>b, Executing DEF Displace, ExecPoints
  <2>2. PICK d \in DetailType : Save(d) /\ run' = [run EXCEPT !.at = "displaceFS", !.d = d] /\ d.disp # None
    <3>. DEFINE e == IF D.disp = None \/ At(D.disp)
                     THEN [D EXCEPT !.disp = RetentionTarget, !.dv = live.c] ELSE D
    <3>1. RetentionTarget \in Slots /\ FreeNames # {}
    BY <1>18, <2>1, TargetFree DEF Displace
    <3>2. live.c \in Contents
    BY <1>18, <1>b DEF Displace, AtPoints, TypeOK, Files
    <3>3. e \in DetailType /\ e.disp # None
    BY <3>1, <3>2, RunFields, SyncAssumption DEF DetailType
    <3>4. Save(e) /\ run' = [run EXCEPT !.at = "displaceFS", !.d = e]
    BY <1>18 DEF Displace
    <3>. QED
    BY <3>3, <3>4
  <2>3. /\ run'.at = "displaceFS" /\ run'.job = J /\ run'.d = d /\ d.disp # None /\ run'.todo = run.todo /\ run'.next = run.next
    BY <1>a, <2>1, <2>2 DEF RunType
  <2>4. item'[J].act = item[J].act /\ item'[J] # None /\ \A i \in run.todo : item'[i] # None
    BY <1>c, <2>1, <2>2, SaveTyped, NoneAssumption
  <2>5. /\ live # None /\ run.next # "" /\ (run.next = "commit" => temp[J] # None)
        /\ live' = live /\ temp' = temp
    BY <1>18 DEF Displace, Control, AtPoints, NewVersionExists, disk
  <2>. QED
    BY <2>1, <2>3, <2>4, <2>5 DEF Control, AtPoints, NewVersionExists, ReplacesLinked, J, D
<1>19. CASE DisplaceFS
  <2>1. /\ J \in Jobs /\ run.job = J /\ item[J] \in ItemType /\ item[J] # None
        /\ \A i \in run.todo : item[i] # None
    BY <1>19, <1>b, Executing DEF DisplaceFS, ExecPoints
  <2>2. /\ run'.at = "displaced" /\ run'.job = run.job /\ run'.todo = run.todo
        /\ run'.next = run.next
    BY <1>19, <1>a, Moved DEF DisplaceFS
  <2>3. run.next # "" /\ (run.next = "commit" => temp[J] # None) /\ temp' = temp /\ item' = item
    BY <1>19 DEF DisplaceFS, Control, AtPoints, NewVersionExists, base
  <2>. QED
    BY <2>1, <2>2, <2>3 DEF Control, AtPoints, NewVersionExists, ReplacesLinked, J
<1>20. CASE Displaced
  <2>1. /\ J \in Jobs /\ run.job = J /\ item[J] \in ItemType /\ item[J] # None
        /\ \A i \in run.todo : item[i] # None
    BY <1>20, <1>b, Executing DEF Displaced, ExecPoints
  <2>2. /\ run'.at = run.next /\ run'.free = TRUE /\ run'.job = run.job /\ run'.todo = run.todo
    BY <1>20, <1>a DEF Displaced, RunType
  <2>3. /\ run.next # "" /\ (run.next = "commit" => temp[J] # None) /\ temp' = temp /\ item' = item
        /\ run.next \in {"", "write", "commit"}
    BY <1>20, RunFields DEF Displaced, Control, AtPoints, NewVersionExists, disk
  <2>4. CASE run.next = "write"
    BY <2>1, <2>2, <2>3, <2>4, ItemPoint
  <2>5. CASE run.next = "commit"
    BY <2>1, <2>2, <2>3, <2>5 DEF Control, AtPoints, NewVersionExists, ReplacesLinked, J
  <2>. QED
    BY <2>3, <2>4, <2>5
<1>21. CASE NameTemp
  <2>1. /\ J \in Jobs /\ run.job = J /\ item[J] \in ItemType /\ item[J] # None
        /\ \A i \in run.todo : item[i] # None
    BY <1>21, <1>b, Executing DEF NameTemp, ExecPoints
  <2>2. PICK d \in DetailType : Save(d) /\ run' = [run EXCEPT !.at = "copy", !.d = d]
    <3>1. [D EXCEPT !.temp = TRUE, !.done = FALSE] \in DetailType
    BY RunFields DEF DetailType
    <3>. QED
    BY <1>21, <3>1 DEF NameTemp
  <2>3. /\ run'.at = "copy" /\ run'.job = J /\ run'.d = d /\ run'.todo = run.todo /\ run'.next = run.next
    BY <1>a, <2>1, <2>2 DEF RunType
  <2>4. item'[J].act = item[J].act /\ item'[J] # None /\ \A i \in run.todo : item'[i] # None
    BY <1>c, <2>1, <2>2, SaveTyped, NoneAssumption
  <2>. QED
    BY <2>1, <2>3, <2>4, ItemPoint
<1>22. CASE OpenTemp
  <2>1. /\ J \in Jobs /\ run.job = J /\ item[J] \in ItemType /\ item[J] # None
        /\ \A i \in run.todo : item[i] # None
    BY <1>22, <1>b, Executing DEF OpenTemp, ExecPoints
  <2>2. item' = item
    BY <1>22 DEF OpenTemp, base
  <2>3. CASE StopWith("fail")
    <3>1. run'.at = "putBack" /\ run'.job = run.job /\ run'.todo = run.todo
    BY <1>a, <2>3, Stopped
    <3>. QED
    BY <2>1, <2>2, <3>1, ItemPoint
  <2>4. CASE /\ temp' = [temp EXCEPT ![J] = [c |-> Partial, n |-> J]]
             /\ run' = [run EXCEPT !.at = "copying", !.sv = src]
    <3>1. run'.at = "copying" /\ run'.job = J /\ run'.todo = run.todo
    BY <1>a, <2>1, <2>4 DEF RunType
    <3>2. [c |-> Partial, n |-> J] \in Files
    BY <2>1, Facts DEF Files
    <3>3. temp'[J] # None
    BY <2>1, <2>4, <3>2, SyncAssumption DEF TypeOK
    <3>. QED
    BY <2>1, <2>2, <3>1, <3>3 DEF Control, AtPoints, NewVersionExists, ReplacesLinked, J
  <2>. QED
    BY <1>22, <2>3, <2>4 DEF OpenTemp
<1>23. CASE FillTemp
  <2>1. /\ J \in Jobs /\ run.job = J /\ item[J] \in ItemType /\ item[J] # None
        /\ \A i \in run.todo : item[i] # None
    BY <1>23, <1>b, Executing DEF FillTemp, ExecPoints
  <2>2. item' = item
    BY <1>23 DEF FillTemp, base
  <2>3. CASE StopWith("fail")
    <3>1. run'.at = "putBack" /\ run'.job = run.job /\ run'.todo = run.todo
    BY <1>a, <2>3, Stopped
    <3>. QED
    BY <2>1, <2>2, <3>1, ItemPoint
  <2>4. CASE temp' = [temp EXCEPT ![J].c = src] /\ Go("copied")
    <3>1. run'.at = "copied" /\ run'.job = J /\ run'.todo = run.todo
    BY <1>a, <2>1, <2>4, Moved
    <3>2. temp[J] # None /\ temp \in [Jobs -> Files \cup {None}]
    BY <1>23 DEF FillTemp, Control, NewVersionExists, TypeOK
    <3>5. src \in Contents
    BY Facts DEF TypeOK
    <3>3. [temp[J] EXCEPT !.c = src] \in Files
    BY <2>1, <3>2, <3>5 DEF Files
    <3>4. temp'[J] # None
    BY <2>1, <2>4, <3>2, <3>3, SyncAssumption
    <3>. QED
    BY <2>1, <2>2, <3>1, <3>4 DEF Control, AtPoints, NewVersionExists, ReplacesLinked, J
  <2>. QED
    BY <1>23, <2>3, <2>4 DEF FillTemp
<1>24. CASE TempDone
  <2>1. /\ J \in Jobs /\ run.job = J /\ item[J] \in ItemType /\ item[J] # None
        /\ \A i \in run.todo : item[i] # None
    BY <1>24, <1>b, Executing DEF TempDone, ExecPoints
  <2>2. PICK d \in DetailType : Save(d) /\ run' = [run EXCEPT !.at = "keep", !.d = d]
    <3>1. [D EXCEPT !.done = TRUE, !.tv = run.sv] \in DetailType
    BY RunFields DEF DetailType
    <3>. QED
    BY <1>24, <3>1 DEF TempDone
  <2>3. /\ run'.at = "keep" /\ run'.job = J /\ run'.d = d /\ run'.todo = run.todo /\ run'.next = run.next
    BY <1>a, <2>1, <2>2 DEF RunType
  <2>4. item'[J].act = item[J].act /\ item'[J] # None /\ \A i \in run.todo : item'[i] # None
    BY <1>c, <2>1, <2>2, SaveTyped, NoneAssumption
  <2>5. temp[J] # None /\ temp' = temp
    BY <1>24 DEF TempDone, Control, NewVersionExists, disk
  <2>. QED
    BY <2>1, <2>3, <2>4, <2>5 DEF Control, AtPoints, NewVersionExists, ReplacesLinked, J
<1>25. CASE Keep
  <2>1. /\ J \in Jobs /\ run.job = J /\ item[J] \in ItemType /\ item[J] # None
        /\ \A i \in run.todo : item[i] # None
    BY <1>25, <1>b, Executing DEF Keep, ExecPoints
  <2>2. /\ UNCHANGED <<live, ret, temp, rec, item>> /\ temp[J] # None
    BY <1>25 DEF Keep, disk, base, Control, NewVersionExists
  <2>3. CASE StopWith("fail")
    <3>1. run'.at = "putBack" /\ run'.job = run.job /\ run'.todo = run.todo
    BY <1>a, <2>3, Stopped
    <3>. QED
    BY <2>1, <2>2, <3>1, ItemPoint
  <2>4. CASE live # None /\ run' = [run EXCEPT !.at = "displace", !.next = "commit"]
    <3>1. run'.at = "displace" /\ run'.next = "commit" /\ run'.job = J /\ run'.todo = run.todo
    BY <1>a, <2>1, <2>4 DEF RunType
    <3>. QED
    BY <2>1, <2>2, <2>4, <3>1 DEF Control, AtPoints, NewVersionExists, ReplacesLinked, J
  <2>5. CASE HasRec /\ live # None /\ Go(IF D.ret = None THEN "choose" ELSE "intent")
    <3>1. /\ run'.at = (IF D.ret = None THEN "choose" ELSE "intent") /\ run'.job = J
          /\ run'.todo = run.todo /\ run'.d = D
    BY <1>a, <2>1, <2>5, Moved DEF D
    <3>. QED
    BY <2>1, <2>2, <2>5, <3>1 DEF Control, AtPoints, NewVersionExists, ReplacesLinked, J, D, HasRec
  <2>6. CASE /\ live = None \/ (HasRec /\ run.retx /\ SameFile(D.ret))
             /\ run' = [run EXCEPT !.at = "commit", !.kept = HasRec /\ run.retx, !.free = live = None]
    <3>1. /\ run'.at = "commit" /\ run'.job = J /\ run'.todo = run.todo /\ run'.d = D
          /\ run'.free = (live = None)
    BY <1>a, <2>1, <2>6 DEF RunType, D
    <3>2. live # None => SameFile(D.ret)
    BY <2>6
    <3>. QED
    BY <2>1, <2>2, <3>1, <3>2 DEF Control, AtPoints, NewVersionExists, ReplacesLinked, J, D, SameFile, At
  <2>. QED
    BY <1>25, <2>3, <2>4, <2>5, <2>6 DEF Keep
<1>26. CASE Choose
  <2>1. /\ J \in Jobs /\ run.job = J /\ item[J] \in ItemType /\ item[J] # None
        /\ \A i \in run.todo : item[i] # None
    BY <1>26, <1>b, Executing DEF Choose, ExecPoints
  <2>2. PICK d \in DetailType : Save(d) /\ run' = [run EXCEPT !.at = "intent", !.d = d] /\ d.ret # None
    <3>. DEFINE e == [D EXCEPT !.ret = RetentionTarget, !.rv = live.c,
                               !.rh = Description.h, !.why = Description.why]
    <3>1. RetentionTarget \in Slots /\ FreeNames # {}
    BY <1>26, <2>1, TargetFree DEF Choose
    <3>2. live.c \in Contents /\ rec \in RecType
    BY <1>26, <1>b DEF Choose, AtPoints, TypeOK, Files, HasRec
    <3>3. Description.h \in Contents /\ Description.why \in Whys
    BY <3>2, Facts DEF Description, Whys, Contents, Partial, RecType
    <3>4. e \in DetailType /\ e.ret # None
    BY <3>1, <3>2, <3>3, RunFields, SyncAssumption DEF DetailType
    <3>5. Save(e) /\ run' = [run EXCEPT !.at = "intent", !.d = e]
    BY <1>26 DEF Choose
    <3>. QED
    BY <3>4, <3>5
  <2>3. /\ run'.at = "intent" /\ run'.job = J /\ run'.d = d /\ d.ret # None /\ run'.todo = run.todo /\ run'.next = run.next
    BY <1>a, <2>1, <2>2 DEF RunType
  <2>4. item'[J].act = item[J].act /\ item'[J] # None /\ \A i \in run.todo : item'[i] # None
    BY <1>c, <2>1, <2>2, SaveTyped, NoneAssumption
  <2>5. /\ live # None /\ rec # None /\ (item[J].act = "put" => temp[J] # None)
        /\ live' = live /\ temp' = temp /\ rec' = rec
    BY <1>26 DEF Choose, Control, AtPoints, NewVersionExists, disk, HasRec
  <2>. QED
    BY <2>1, <2>3, <2>4, <2>5 DEF Control, AtPoints, NewVersionExists, ReplacesLinked, J, D, HasRec
<1>27. CASE Intent
  <2>1. /\ J \in Jobs /\ run.job = J /\ item[J] \in ItemType /\ item[J] # None
        /\ \A i \in run.todo : item[i] # None
    BY <1>27, <1>b, Executing DEF Intent, ExecPoints
  <2>2. /\ run'.at = "keepFS" /\ run'.job = J /\ run'.todo = run.todo /\ run'.d = D
    BY <1>27, <1>a, <2>1, Moved DEF Intent, D
  <2>3. /\ live # None /\ D.ret # None /\ (item[J].act = "put" => temp[J] # None) /\ rec \in RecType
        /\ UNCHANGED <<live, temp, item>>
    BY <1>27, <1>b DEF Intent, Control, AtPoints, NewVersionExists, HasRec, TypeOK, disk
  <2>4. rec' # None
    <3>1. D.ret \in Slots \cup {None} /\ D.why \in Whys
    BY RunFields
    <3>2. [rec EXCEPT !.intent = D.ret, !.why = D.why] \in RecType
    BY <2>3, <3>1 DEF RecType
    <3>. QED
    BY <1>27, <3>2, NoneAssumption DEF Intent
  <2>. QED
    BY <2>1, <2>2, <2>3, <2>4 DEF Control, AtPoints, NewVersionExists, ReplacesLinked, J, D, HasRec
<1>28. CASE KeepFS
  <2>1. /\ J \in Jobs /\ run.job = J /\ item[J] \in ItemType /\ item[J] # None
        /\ \A i \in run.todo : item[i] # None
    BY <1>28, <1>b, Executing DEF KeepFS, ExecPoints
  <2>2. /\ live # None /\ D.ret # None /\ HasRec /\ (item[J].act = "put" => temp[J] # None)
        /\ UNCHANGED <<temp, item, rec>>
    BY <1>28, <1>b DEF KeepFS, Control, AtPoints, NewVersionExists, base
  <2>3. CASE At(D.ret)
    <3>1. /\ run'.at = "choose" /\ run'.job = J /\ run'.todo = run.todo /\ live' = live
    BY <1>28, <1>a, <2>1, <2>3 DEF KeepFS, RunType
    <3>. QED
    BY <2>1, <2>2, <3>1 DEF Control, AtPoints, NewVersionExists, ReplacesLinked, J, HasRec
  <2>4. CASE ~At(D.ret)
    <3>1. /\ run'.at = (IF item[J].act = "put" THEN "commit" ELSE "retained") /\ run'.job = J
          /\ run'.todo = run.todo /\ run'.d = D /\ run'.free = (live' = None)
    BY <1>28, <1>a, <2>1, <2>4 DEF KeepFS, RunType, D
    <3>2. D.ret \in Slots
    BY <2>2, RunFields
    <3>3. ret'[D.ret] = live /\ live' \in {live, None}
    BY <1>28, <2>4, <3>2 DEF KeepFS, TypeOK
    <3>4. CASE item[J].act = "put"
    BY <2>1, <2>2, <3>1, <3>2, <3>3, <3>4 DEF Control, AtPoints, NewVersionExists, ReplacesLinked, J, D, SameFile, At
    <3>5. CASE item[J].act # "put"
    BY <2>1, <2>2, <3>1, <3>2, <3>5 DEF Control, AtPoints, NewVersionExists, ReplacesLinked, J, D, HasRec
    <3>. QED
    BY <3>4, <3>5
  <2>. QED
    BY <2>3, <2>4
<1>29. CASE Commit
  <2>1. /\ J \in Jobs /\ run.job = J /\ item[J] \in ItemType /\ item[J] # None
        /\ \A i \in run.todo : item[i] # None
    BY <1>29, <1>b, Executing DEF Commit, ExecPoints
  <2>2. run'.at \in {"putBack", "record"} /\ run'.job = run.job /\ run'.todo = run.todo /\ item' = item
    BY <1>29, <1>a, Moved, Stopped DEF Commit, base
  <2>. QED
    BY <2>1, <2>2, ItemPoint
<1>30. CASE Record
  <2>1. /\ J \in Jobs /\ run.job = J /\ item[J] \in ItemType /\ item[J] # None
        /\ \A i \in run.todo : item[i] # None
    BY <1>30, <1>b, Executing DEF Record, ExecPoints
  <2>2. run'.at = "finish" /\ run'.job = run.job /\ run'.todo = run.todo /\ item' = item
    BY <1>30, <1>a, Moved DEF Record, base
  <2>. QED
    BY <2>1, <2>2, ItemPoint
<1>31. CASE Finish
  <2>1. /\ J \in Jobs /\ run.job = J /\ item[J] \in ItemType /\ item[J] # None
        /\ \A i \in run.todo : item[i] # None
    BY <1>31, <1>b, Executing DEF Finish, ExecPoints
  <2>2. run'.at = "ready" /\ run'.job = run.job /\ run'.todo = run.todo
    BY <1>31, <1>a, Moved DEF Finish
  <2>3. [item[J] EXCEPT !.st = "done"] \in ItemType
    BY <2>1 DEF ItemType
  <2>4. \A i \in run.todo : item'[i] # None
    BY <1>31, <1>c, <2>1, <2>3, NoneAssumption DEF Finish, TypeOK
  <2>. QED
    BY <2>1, <2>2, <2>4, CalmPoint
<1>32. CASE Retain
  <2>1. /\ J \in Jobs /\ run.job = J /\ item[J] \in ItemType /\ item[J] # None
        /\ \A i \in run.todo : item[i] # None
    BY <1>32, <1>b, Executing DEF Retain, ExecPoints
  <2>2. item' = item /\ live' = live /\ rec' = rec /\ item[J].act = "retain"
    BY <1>32, <1>b DEF Retain, disk, base, AtPoints
  <2>3. CASE Go("finish")
    <3>1. run'.at = "finish" /\ run'.job = run.job /\ run'.todo = run.todo
    BY <1>a, <2>3, Moved
    <3>. QED
    BY <2>1, <2>2, <3>1, ItemPoint
  <2>4. CASE Unchanged /\ D.ret # None /\ run' = [run EXCEPT !.at = "retained", !.kept = TRUE]
    <3>1. run'.at = "retained" /\ run'.job = J /\ run'.todo = run.todo /\ run'.d = D
    BY <1>a, <2>1, <2>4 DEF RunType, D
    <3>. QED
    BY <2>1, <2>2, <2>4, <3>1 DEF Control, AtPoints, NewVersionExists, ReplacesLinked, J, D, HasRec, Unchanged
  <2>5. CASE /\ Unchanged
             /\ run' = [run EXCEPT !.kept = FALSE,
                            !.at = IF live = None THEN "retained"
                                   ELSE IF D.ret = None THEN "choose" ELSE "intent"]
    <3>1. /\ run'.at = (IF live = None THEN "retained" ELSE IF D.ret = None THEN "choose" ELSE "intent")
          /\ run'.job = J /\ run'.todo = run.todo /\ run'.d = D /\ ~run'.kept
    BY <1>a, <2>1, <2>5 DEF RunType, D
    <3>2. rec' # None
    BY <2>2, <2>5 DEF HasRec, Unchanged
    <3>3. CASE run'.at = "retained"
    BY <2>1, <2>2, <3>1, <3>2, <3>3 DEF Control, AtPoints, NewVersionExists, ReplacesLinked, J, HasRec
    <3>4. CASE live # None /\ run'.at \in {"choose", "intent"} /\ (run'.at = "intent" => D.ret # None)
    BY <2>1, <2>2, <3>1, <3>2, <3>4 DEF Control, AtPoints, NewVersionExists, ReplacesLinked, J, D, HasRec
    <3>. QED
    BY <3>1, <3>3, <3>4
  <2>. QED
    BY <1>32, <2>3, <2>4, <2>5 DEF Retain
<1>33. CASE Retained
  <2>1. /\ J \in Jobs /\ run.job = J /\ item[J] \in ItemType /\ item[J] # None
        /\ \A i \in run.todo : item[i] # None
    BY <1>33, <1>b, Executing DEF Retained, ExecPoints
  <2>2. run'.at = "finish" /\ run'.job = run.job /\ run'.todo = run.todo /\ item' = item
    BY <1>33, <1>a, Moved DEF Retained, base
  <2>. QED
    BY <2>1, <2>2, ItemPoint
<1>34. CASE PutBack
  <2>1. /\ J \in Jobs /\ run.job = J /\ item[J] \in ItemType /\ item[J] # None
        /\ \A i \in run.todo : item[i] # None
    BY <1>34, <1>b, Executing DEF PutBack, ExecPoints
  <2>2. run'.at = "putBackDB" /\ run'.job = run.job /\ run'.todo = run.todo
    BY <1>34, <1>a DEF PutBack, SettleFS, RunType
  <2>3. rec # None /\ rec' = rec /\ item' = item
    BY <1>34 DEF PutBack, SettleFS, base, OwnIntent, HasRec
  <2>. QED
    BY <2>1, <2>2, <2>3 DEF Control, AtPoints, NewVersionExists, ReplacesLinked, J, HasRec, ExecPoints
<1>35. CASE PutBackRecord
  <2>1. /\ J \in Jobs /\ run.job = J /\ item[J] \in ItemType /\ item[J] # None
        /\ \A i \in run.todo : item[i] # None
    BY <1>35, <1>b, Executing DEF PutBackRecord, ExecPoints
  <2>2. run'.at = "clean" /\ run'.job = run.job /\ run'.todo = run.todo /\ item' = item
    BY <1>35, <1>a, Moved DEF PutBackRecord, base, SettleDB
  <2>. QED
    BY <2>1, <2>2, ItemPoint
<1>36. CASE PutBackNothing
  <2>1. /\ J \in Jobs /\ run.job = J /\ item[J] \in ItemType /\ item[J] # None
        /\ \A i \in run.todo : item[i] # None
    BY <1>36, <1>b, Executing DEF PutBackNothing, ExecPoints
  <2>2. run'.at = "clean" /\ run'.job = run.job /\ run'.todo = run.todo /\ item' = item
    BY <1>36, <1>a, Moved DEF PutBackNothing, base
  <2>. QED
    BY <2>1, <2>2, ItemPoint
<1>37. CASE PutBackFails
  <2>1. /\ J \in Jobs /\ run.job = J /\ item[J] \in ItemType /\ item[J] # None
        /\ \A i \in run.todo : item[i] # None
    BY <1>37, <1>b, Executing DEF PutBackFails, ExecPoints
  <2>2. run'.at = "clean" /\ run'.job = run.job /\ run'.todo = run.todo /\ item' = item
    BY <1>37, <1>a, Moved DEF PutBackFails, base
  <2>. QED
    BY <2>1, <2>2, ItemPoint
<1>38. CASE Salvage
  <2>1. run'.at = "idle" /\ run'.todo = {}
    BY <1>38, Ended DEF Salvage, Idle
  <2>. QED
    BY <2>1, CalmPoint
<1>39. CASE Cancelled
  <2>1. run'.at = "idle" /\ run'.todo = {}
    BY <1>39, Ended DEF Cancelled, Idle
  <2>. QED
    BY <2>1, CalmPoint
<1>40. CASE ItemFailed
  <2>1. /\ J \in Jobs /\ run.job = J /\ item[J] \in ItemType /\ item[J] # None
        /\ \A i \in run.todo : item[i] # None
    BY <1>40, <1>b, Executing DEF ItemFailed, ExecPoints
  <2>2. run'.at = "ready" /\ run'.job = run.job /\ run'.todo = run.todo
    BY <1>40, <1>a, Moved DEF ItemFailed
  <2>3. [item[J] EXCEPT !.st = "failed"] \in ItemType
    BY <2>1 DEF ItemType
  <2>4. \A i \in run.todo : item'[i] # None
    BY <1>40, <1>c, <2>1, <2>3, NoneAssumption DEF ItemFailed, TypeOK
  <2>. QED
    BY <2>1, <2>2, <2>4, CalmPoint
<1>41. CASE Verify
  <2>1. run'.at = "idle" /\ run'.todo = {}
    BY <1>41, Ended DEF Verify, Idle
  <2>. QED
    BY <2>1, CalmPoint
<1>42. CASE ExpireRow
  <2>1. run'.at = "ready" /\ run'.job = run.job /\ run'.todo = run.todo /\ item' = item
    BY <1>42, <1>a DEF ExpireRow, RunType
  <2>2. run.at # "idle"
    BY <1>42 DEF ExpireRow
  <2>. QED
    BY <1>b, <2>1, <2>2, CalmPoint
<1>43. CASE ExpireEnd
  <2>1. run'.at = "idle" /\ run'.todo = {}
    BY <1>43, Ended DEF ExpireEnd, Idle
  <2>. QED
    BY <2>1, CalmPoint
<1>44. ASSUME NEW j \in Jobs, NEW k \in {"sync", "verify", "retention"}, Start(j, k)
      PROVE  Control'
  <2>1. /\ run'.at = "sweep" /\ run'.job = j
        /\ run'.todo \subseteq {i \in Jobs : item[i] # None} /\ item' = item
    BY <1>44 DEF Start, Idle
  <2>. QED
    BY <2>1, CalmPoint
<1>45. ASSUME NEW i \in Jobs, SweepDisplaced(i)
      PROVE  Control'
  <2>1. run'.at = "sweepPlaced" /\ run'.job = run.job /\ run'.todo = run.todo /\ item' = item
    BY <1>45, <1>a, Moved DEF SweepDisplaced
  <2>2. run.at # "idle"
    BY <1>45 DEF SweepDisplaced
  <2>. QED
    BY <1>b, <2>1, <2>2, CalmPoint
<1>46. ASSUME NEW i \in Jobs, SweepPlaced(i)
      PROVE  Control'
  <2>1. run'.at = "sweepTemp" /\ run'.job = run.job /\ run'.todo = run.todo /\ item' = item
    BY <1>46, <1>a, Moved DEF SweepPlaced
  <2>2. run.at # "idle"
    BY <1>46 DEF SweepPlaced
  <2>. QED
    BY <1>b, <2>1, <2>2, CalmPoint
<1>47. ASSUME NEW i \in Jobs, SweepTemp(i)
      PROVE  Control'
  <2>3. run' = [run EXCEPT !.at = "sweep", !.todo = @ \ {i}] /\ item' = item
    BY <1>47 DEF SweepTemp, base
  <2>1. run'.at = "sweep" /\ run'.job = run.job /\ run'.todo \subseteq run.todo /\ item' = item
    BY <1>a, <2>3 DEF RunType
  <2>2. run.at # "idle"
    BY <1>47 DEF SweepTemp
  <2>. QED
    BY <1>b, <2>1, <2>2, CalmPoint
<1>48. ASSUME NEW how \in {"fail", "fatal", "cancel"}, Fail(how)
      PROVE  Control'
  <2>1. /\ J \in Jobs /\ run.job = J /\ item[J] \in ItemType /\ item[J] # None
        /\ \A i \in run.todo : item[i] # None
    BY <1>48, <1>b, Executing DEF Fail, ExecPoints
  <2>2. run'.at = "putBack" /\ run'.job = run.job /\ run'.todo = run.todo /\ item' = item
    BY <1>48, <1>a, Stopped DEF Fail, base
  <2>. QED
    BY <2>1, <2>2, ItemPoint
<1>49. ASSUME NEW r \in rows, ExpireFile(r)
      PROVE  Control'
  <2>1. run'.at = "expired" /\ run'.job = run.job /\ run'.todo = run.todo /\ item' = item
    BY <1>49, <1>a DEF ExpireFile, RunType, base
  <2>2. run.at # "idle"
    BY <1>49 DEF ExpireFile
  <2>. QED
    BY <1>b, <2>1, <2>2, CalmPoint
<1>50. CASE UNCHANGED vars
    BY <1>50, ControlFramed DEF vars, disk, base, hist
<1>. QED
    BY <1>1, <1>2, <1>3, <1>4, <1>5, <1>6, <1>7, <1>8, <1>9, <1>10, <1>11, <1>12, <1>13, <1>14,
       <1>15, <1>16, <1>17, <1>18, <1>19, <1>20, <1>21, <1>22, <1>23, <1>24, <1>25, <1>26,
       <1>27, <1>28, <1>29, <1>30, <1>31, <1>32, <1>33, <1>34, <1>35, <1>36, <1>37, <1>38,
       <1>39, <1>40, <1>41, <1>42, <1>43, <1>44, <1>45, <1>46, <1>47, <1>48, <1>49,
       <1>50 DEF Next, Reconcile, Sync, Place, Stop, Other

-----------------------------------------------------------------------------
(* Nothing is lost.                                                        *)

\* A step that moves the files it touches, or says that they are gone, and shows no other at
\* the path than the one that is there.
LEMMA Moving ==
    ASSUME SeenFiles, NeverLost, gone \subseteq gone', seen' \subseteq seen \cup ({live'} \ {None}),
           live # None => live \in Held(live', ret') \cup gone',
           \A s \in Slots : ret[s] # None => ret[s] \in Held(live', ret') \cup gone'
    PROVE  SeenFiles' /\ NeverLost'
BY DEF SeenFiles, NeverLost, Held

\* Nothing that the versions depend on changed.
LEMMA Still ==
    ASSUME SeenFiles, NeverLost, UNCHANGED <<live, ret, seen, gone>>
    PROVE  SeenFiles' /\ NeverLost'
BY DEF SeenFiles, NeverLost, Held

\* settle puts a retained file back at the path only when that is free.
LEMMA SettleMoves ==
    ASSUME TypeOK, rec \in RecType, SeenFiles, NeverLost, NEW next, SettleFS(next)
    PROVE  SeenFiles' /\ NeverLost'
<1>1. ret \in [Slots -> Files \cup {None}] /\ rec.intent \in Slots \cup {None}
    BY DEF TypeOK, RecType
<1>2. seen' = seen /\ gone' = gone
    BY DEF SettleFS, hist
<1>3. CASE UNCHANGED <<live, ret>>
    BY <1>2, <1>3, Still
<1>4. CASE At(rec.intent) /\ live = None /\ live' = ret[rec.intent] /\ ret' = [ret EXCEPT ![rec.intent] = None]
  <2>1. \A s \in Slots : ret[s] # None => ret[s] \in Held(live', ret')
    BY <1>1, <1>4 DEF Held, At
  <2>. QED
    BY <1>2, <1>4, <2>1, Moving
<1>. QED
    BY <1>3, <1>4 DEF SettleFS

\* No step loses the last copy of a version.
LEMMA LostKept ==
    ASSUME TypeOK, Control, SeenFiles, NeverLost, [Next]_vars
    PROVE  SeenFiles' /\ NeverLost'
<1>a. ret \in [Slots -> Files \cup {None}]
    BY DEF TypeOK
<1>1. CASE SourceChanges
    BY <1>1, Still DEF SourceChanges, disk, hist
<1>2. CASE SourceVanishes
    BY <1>2, Still DEF SourceVanishes, disk, hist
<1>3. CASE Meddle
  <2>1. ret' = ret /\ gone \subseteq gone' /\ seen' \subseteq seen \cup ({live'} \ {None})
    BY <1>3 DEF Meddle
  <2>2. live # None => live \in Held(live', ret') \cup gone'
    BY <1>3 DEF Meddle, Held
  <2>3. \A s \in Slots : ret[s] \in Held(live', ret')
    BY <2>1 DEF Held
  <2>. QED
    BY <2>1, <2>2, <2>3, Moving
<1>4. CASE Crash
    BY <1>4, Still DEF Crash, disk, hist
<1>5. CASE SweepEnd
    BY <1>5, Still DEF SweepEnd, disk, hist
<1>6. CASE Settle
  <2>1. rec \in RecType
    BY <1>6 DEF Settle, Unsettled, HasRec, TypeOK
  <2>. QED
    BY <1>6, <2>1, SettleMoves DEF Settle
<1>7. CASE SettleRecord
    BY <1>7, Still DEF SettleRecord, SettleDB, disk, hist
<1>8. CASE SettleNothing
    BY <1>8, Still DEF SettleNothing, disk, hist
<1>9. CASE ReconcileFails
    BY <1>9, Still DEF ReconcileFails, disk, hist
<1>10. CASE Plan
    BY <1>10, Still DEF Plan, disk, hist
<1>11. CASE Begin
    BY <1>11, Still DEF Begin, disk, hist
<1>12. CASE EarlierDisplace
    BY <1>12, Still DEF EarlierDisplace, disk, hist
<1>13. CASE NothingToDo
    BY <1>13, Still DEF NothingToDo, disk, hist
<1>14. CASE PutResumed
    BY <1>14, Still DEF PutResumed, disk, hist
<1>15. CASE PutAnew
    BY <1>15, Still DEF PutAnew, disk, hist
<1>16. CASE Adopt
    BY <1>16, Still DEF Adopt, disk, hist
<1>17. CASE InTheWay
    BY <1>17, Still DEF InTheWay, disk, hist
<1>18. CASE Displace
    BY <1>18, Still DEF Displace, disk, hist
<1>19. CASE DisplaceFS
  <2>1. D.disp \in Slots /\ ret[D.disp] = None
    BY <1>19, RunFields DEF DisplaceFS, At, Control, AtPoints
  <2>2. ret' = [ret EXCEPT ![D.disp] = live] /\ seen' = seen /\ gone' = gone
    BY <1>19 DEF DisplaceFS, hist
  <2>3. live \in Held(live', ret') /\ \A s \in Slots : ret[s] # None => ret[s] \in Held(live', ret')
    BY <1>a, <2>1, <2>2 DEF Held
  <2>. QED
    BY <2>2, <2>3, Moving
<1>20. CASE Displaced
    BY <1>20, Still DEF Displaced, disk, hist
<1>21. CASE NameTemp
    BY <1>21, Still DEF NameTemp, disk, hist
<1>22. CASE OpenTemp
    BY <1>22, Still DEF OpenTemp, disk, hist
<1>23. CASE FillTemp
    BY <1>23, Still DEF FillTemp, disk, hist
<1>24. CASE TempDone
    BY <1>24, Still DEF TempDone, disk, hist
<1>25. CASE Keep
    BY <1>25, Still DEF Keep, disk, hist
<1>26. CASE Choose
    BY <1>26, Still DEF Choose, disk, hist
<1>27. CASE Intent
    BY <1>27, Still DEF Intent, disk, hist
<1>28. CASE KeepFS
  <2>1. CASE At(D.ret)
    <3>1. UNCHANGED <<live, ret, seen, gone>>
    BY <1>28, <2>1 DEF KeepFS, hist
    <3>. QED
    BY <3>1, Still
  <2>2. CASE ~At(D.ret)
    <3>1. D.ret \in Slots /\ ret[D.ret] = None
    BY <1>28, <2>2, RunFields DEF KeepFS, At, Control, AtPoints
    <3>2. ret' = [ret EXCEPT ![D.ret] = live] /\ seen' = seen /\ gone' = gone
    BY <1>28, <2>2 DEF KeepFS, hist
    <3>3. live \in Held(live', ret') /\ \A s \in Slots : ret[s] # None => ret[s] \in Held(live', ret')
    BY <1>a, <3>1, <3>2 DEF Held
    <3>. QED
    BY <3>2, <3>3, Moving
  <2>. QED
    BY <2>1, <2>2
<1>29. CASE Commit
  <2>1. ret' = ret /\ gone' = gone
    BY <1>29 DEF Commit
  <2>2. CASE run.free /\ live # None
    <3>1. live' = live /\ seen' = seen
    BY <1>29, <2>2 DEF Commit
    <3>. QED
    BY <2>1, <3>1, Still
  <2>3. CASE ~(run.free /\ live # None)
    <3>1. live' = temp[J] /\ seen' = seen \cup {live'} /\ temp[J] # None
    BY <1>29, <2>3 DEF Commit, Control, NewVersionExists
    <3>2. live # None => SameFile(D.ret) /\ D.ret \in Slots
    BY <1>29, <2>3, RunFields DEF Commit, Control, ReplacesLinked, SameFile, At
    <3>3. live # None => live \in Held(live', ret')
    BY <2>1, <3>2 DEF Held, SameFile
    <3>4. \A s \in Slots : ret[s] \in Held(live', ret')
    BY <2>1 DEF Held
    <3>. QED
    BY <2>1, <3>1, <3>3, <3>4, Moving
  <2>. QED
    BY <2>2, <2>3
<1>30. CASE Record
    BY <1>30, Still DEF Record, disk, hist
<1>31. CASE Finish
    BY <1>31, Still DEF Finish, disk, hist
<1>32. CASE Retain
    BY <1>32, Still DEF Retain, disk, hist
<1>33. CASE Retained
    BY <1>33, Still DEF Retained, disk, hist
<1>34. CASE PutBack
  <2>1. rec \in RecType
    BY <1>34 DEF PutBack, OwnIntent, HasRec, TypeOK
  <2>. QED
    BY <1>34, <2>1, SettleMoves DEF PutBack
<1>35. CASE PutBackRecord
    BY <1>35, Still DEF PutBackRecord, SettleDB, disk, hist
<1>36. CASE PutBackNothing
    BY <1>36, Still DEF PutBackNothing, disk, hist
<1>37. CASE PutBackFails
    BY <1>37, Still DEF PutBackFails, disk, hist
<1>38. CASE Salvage
    BY <1>38, Still DEF Salvage, disk, hist
<1>39. CASE Cancelled
    BY <1>39, Still DEF Cancelled, disk, hist
<1>40. CASE ItemFailed
    BY <1>40, Still DEF ItemFailed, disk, hist
<1>41. CASE Verify
    BY <1>41, Still DEF Verify, disk, hist
<1>42. CASE ExpireRow
    BY <1>42, Still DEF ExpireRow, disk, hist
<1>43. CASE ExpireEnd
    BY <1>43, Still DEF ExpireEnd, disk, hist
<1>44. ASSUME NEW j \in Jobs, NEW k \in {"sync", "verify", "retention"}, Start(j, k)
      PROVE  SeenFiles' /\ NeverLost'
    BY <1>44, Still DEF Start, disk, hist
<1>45. ASSUME NEW i \in Jobs, SweepDisplaced(i)
      PROVE  SeenFiles' /\ NeverLost'
    BY <1>45, Still DEF SweepDisplaced, disk, hist
<1>46. ASSUME NEW i \in Jobs, SweepPlaced(i)
      PROVE  SeenFiles' /\ NeverLost'
    BY <1>46, Still DEF SweepPlaced, disk, hist
<1>47. ASSUME NEW i \in Jobs, SweepTemp(i)
      PROVE  SeenFiles' /\ NeverLost'
    BY <1>47, Still DEF SweepTemp, disk, hist
<1>48. ASSUME NEW how \in {"fail", "fatal", "cancel"}, Fail(how)
      PROVE  SeenFiles' /\ NeverLost'
    BY <1>48, Still DEF Fail, disk, hist
<1>49. ASSUME NEW r \in rows, ExpireFile(r)
      PROVE  SeenFiles' /\ NeverLost'
  <2>1. r.slot \in Slots
    BY DEF TypeOK, RowType
  <2>2. ret' = [ret EXCEPT ![r.slot] = None] /\ live' = live /\ seen' = seen
    BY <1>49 DEF ExpireFile
  <2>3. gone' = IF At(r.slot) /\ ret[r.slot] \notin Held(live, ret') THEN gone \cup {ret[r.slot]} ELSE gone
    BY <1>49 DEF ExpireFile
  <2>4. ret[r.slot] # None => ret[r.slot] \in Held(live', ret') \cup gone'
    BY <2>1, <2>2, <2>3, SyncAssumption DEF At
  <2>5. live \in Held(live', ret') /\ \A s \in Slots \ {r.slot} : ret[s] \in Held(live', ret')
    BY <1>a, <2>2 DEF Held
  <2>. QED
    BY <2>2, <2>3, <2>4, <2>5, Moving
<1>50. CASE UNCHANGED vars
    BY <1>50, Still DEF vars, disk, hist
<1>. QED
    BY <1>1, <1>2, <1>3, <1>4, <1>5, <1>6, <1>7, <1>8, <1>9, <1>10, <1>11, <1>12, <1>13, <1>14,
       <1>15, <1>16, <1>17, <1>18, <1>19, <1>20, <1>21, <1>22, <1>23, <1>24, <1>25, <1>26,
       <1>27, <1>28, <1>29, <1>30, <1>31, <1>32, <1>33, <1>34, <1>35, <1>36, <1>37, <1>38,
       <1>39, <1>40, <1>41, <1>42, <1>43, <1>44, <1>45, <1>46, <1>47, <1>48, <1>49,
       <1>50 DEF Next, Reconcile, Sync, Place, Stop, Other

\* The invariant of the jobs on a path holds at every point of every job, whatever crashes,
\* fails or is changed by others.
THEOREM SyncInvariant == Spec => []SyncInv
<1>1. Init => SyncInv
  <2>. SUFFICES ASSUME Init PROVE SyncInv
    OBVIOUS
  <2>1. SeenFiles /\ NeverLost
    BY DEF Init, SeenFiles, NeverLost
  <2>. QED
    BY <2>1, TypesInit, ControlInit DEF SyncInv, Control
<1>2. SyncInv /\ [Next]_vars => SyncInv'
  <2>. SUFFICES ASSUME SyncInv, [Next]_vars PROVE SyncInv'
    OBVIOUS
  <2>1. TypeOK /\ AtPoints /\ NewVersionExists /\ Control /\ SeenFiles /\ NeverLost
    BY DEF SyncInv, Control
  <2>2. TypeOK'
    BY <2>1, TypesKept
  <2>3. Control'
    BY <2>1, <2>2, ControlKept
  <2>4. SeenFiles' /\ NeverLost'
    BY <2>1, LostKept
  <2>. QED
    BY <2>2, <2>3, <2>4 DEF SyncInv, Control
<1>. QED
    BY <1>1, <1>2, PTL DEF Spec

\* No file that was ever at the path is lost (exec.go place, retain; reconcile.go settle,
\* "Nothing is deleted"): for any number of jobs, versions of the source, names in retention,
\* crashes, failures and changes by others.
THEOREM NothingEverLost == Spec => []NeverLost
<1>1. SyncInv => NeverLost
    BY DEF SyncInv
<1>. QED
    BY <1>1, SyncInvariant, PTL

-----------------------------------------------------------------------------
(* Crashes are settled.                                                   *)

\* Nothing failed but the process, and nobody else touched the path.
OnlyCrashes == bounds.errors = 0 /\ bounds.stuck = 0 /\ bounds.meddles = 0

Pending(i) == item[i] # None /\ item[i].st = "pending"
\* A file in retention that no row records, and the one the record's intent names.
Loose(s) == At(s) /\ ~RowAt(s)
Intended(s) == HasRec /\ rec.intent = s

Sweeping == {"sweep", "sweepPlaced", "sweepTemp"}
Working == ExecPoints \cup {"putBack", "putBackDB", "clean"}
Displacing == {"displace", "displaceFS", "displaced"}
Placing == Displacing \cup {"put", "way", "write", "copy", "copying", "copied", "keep", "commit", "record"}

\* An unrecorded file is known to the record's intent, or to the pending item that displaced it.
Accounted ==
    \A s \in Slots : Loose(s) => Intended(s) \/ (Pending(s[1]) /\ item[s[1]].d.disp = s)

\* An intent is the one of its job's item, while that item copies or the file is unrecorded.
IntentKnown ==
    \A s \in Slots : Intended(s) =>
        /\ item[s[1]] # None
        /\ Loose(s) \/ item[s[1]].act = "put" => item[s[1]].d.ret = s

\* An item uses its own job's directory, and displaces a file only to put another.
OwnSlots ==
    \A i \in Jobs : item[i] # None =>
        /\ item[i].d.ret # None => item[i].d.ret[1] = i
        /\ item[i].d.disp # None => item[i].d.disp[1] = i
        /\ item[i].act = "retain" => item[i].d.disp = None

\* While the file an unfinished item retained is unrecorded, the path stays free.
Carried ==
    \A i \in Jobs : Pending(i) /\ item[i].act = "retain" /\ Loose(item[i].d.ret) => live = None

Global == Accounted /\ IntentKnown /\ OwnSlots /\ Carried

\* Once a job swept another job's directory, only the record's intent leaves a file there
\* unrecorded.
SweptSlots ==
    run.at # "idle" =>
        \A s \in Slots : Loose(s) /\ s[1] # J /\ s[1] \notin run.todo => Intended(s)
SweptItem ==
    run.at \in {"sweepPlaced", "sweepTemp"} =>
        \A i \in run.todo : (\A k \in run.todo : i <= k) => ~Loose(item[i].d.disp)
SweptAll == run.at \notin Sweeping => run.todo = {}

Swept == SweptSlots /\ SweptItem /\ SweptAll

\* What the running job knows of what it may have left unrecorded.
NothingOpen == HasRec /\ rec.intent # None => rec.intent[1] = J
SameDisp == Pending(J) /\ D.disp = item[J].d.disp
SameRet == D.ret = item[J].d.ret
IsPut == item[J].act = "put"
DispKnown == Loose(D.disp) => Intended(D.disp)
RetKnown == HasRec /\ At(D.ret) => run.retx
KeptKnown == HasRec /\ Loose(rec.intent) => run.kept

Local ==
    /\ run.at \in Working \cup {"ready", "expired"} => NothingOpen
    /\ run.at \in Working => SameDisp
    /\ run.at \in Working \ {"choose"} => SameRet
    /\ run.at \in Placing => IsPut
    /\ run.at \in Working \ {"begin", "displaced"} => DispKnown
    /\ run.at = "way" \/ (run.at \in Displacing /\ run.next = "write") => ~HasRec
    /\ run.at \in {"write", "copy", "copying", "copied", "keep"} => RetKnown
    /\ run.at \in {"choose", "intent"} => ~Loose(rec.intent)
    /\ run.at = "choose" => (IsPut => rec.intent = None)
    /\ run.at \in {"intent", "keepFS"} => (IsPut => ~At(D.ret))
    /\ run.at \in {"intent", "keepFS"} => ~Loose(D.ret)
    /\ run.at = "keepFS" => rec.intent = D.ret
    /\ run.at \in {"commit", "record", "retained"} => KeptKnown
    /\ run.at \in {"settleDB", "putBackDB"} => (At(rec.intent) => run.kept)
    /\ run.at = "expired" => ~At(D.ret)

Settling == Global /\ Swept /\ Local

SettleInv == OnlyCrashes => Settling

-----------------------------------------------------------------------------
(* What a step may do to the unrecorded files.                             *)

\* No file becomes unrecorded, the intent still names the unrecorded one it named, and no other.
Calm ==
    \A s \in Slots :
        /\ Loose(s)' => Loose(s) /\ (Intended(s)' <=> Intended(s))
        /\ Intended(s)' => Intended(s)

\* What is known at every point about the shape of items and records.
LEMMA Shapes ==
    ASSUME TypeOK
    PROVE  /\ run \in RunType /\ rec \in RecType \cup {None} /\ ret \in [Slots -> Files \cup {None}]
           /\ item \in [Jobs -> ItemType \cup {None}]
           /\ (HasRec => rec \in RecType /\ rec.intent \in Slots \cup {None})
           /\ D.ret \in Slots \cup {None} /\ D.disp \in Slots \cup {None}
           /\ \A i \in Jobs : item[i] # None =>
                  /\ item[i] \in ItemType /\ item[i].d \in DetailType
                  /\ item[i].d.ret \in Slots \cup {None} /\ item[i].d.disp \in Slots \cup {None}
           /\ None \notin Slots /\ ~At(None)
           /\ \A s \in Slots : s[1] \in Jobs
<1>1. run \in RunType /\ rec \in RecType \cup {None} /\ ret \in [Slots -> Files \cup {None}]
      /\ item \in [Jobs -> ItemType \cup {None}]
    BY DEF TypeOK
<1>2. HasRec => rec \in RecType /\ rec.intent \in Slots \cup {None}
    BY <1>1 DEF HasRec, RecType
<1>3. D.ret \in Slots \cup {None} /\ D.disp \in Slots \cup {None}
    BY RunFields
<1>4. \A i \in Jobs : item[i] # None =>
          /\ item[i] \in ItemType /\ item[i].d \in DetailType
          /\ item[i].d.ret \in Slots \cup {None} /\ item[i].d.disp \in Slots \cup {None}
    BY <1>1 DEF ItemType, DetailType
<1>5. None \notin Slots /\ ~At(None)
    BY SyncAssumption DEF At
<1>6. \A s \in Slots : s[1] \in Jobs
    BY DEF Slots
<1>. QED
    BY <1>1, <1>2, <1>3, <1>4, <1>5, <1>6

\* No path but a retained one is unrecorded.
LEMMA LooseSlot ==
    ASSUME TypeOK, NEW s \in Slots \cup {None}, Loose(s)
    PROVE  s \in Slots
BY Shapes DEF Loose, At

\* A step that leaves the retention directories, the rows and the intent alone is calm.
LEMMA CalmFramed ==
    ASSUME ret' = ret, rows' = rows, HasRec' <=> HasRec, HasRec => rec'.intent = rec.intent
    PROVE  Calm
BY DEF Calm, Loose, Intended, At, RowAt, HasRec

\* So is one that adds rows, ...
LEMMA CalmRows ==
    ASSUME ret' = ret, rec' = rec, \A s \in Slots : RowAt(s) => RowAt(s)'
    PROVE  Calm
<1>1. \A s \in Slots : At(s)' <=> At(s)
    BY DEF At
<1>2. \A s \in Slots : Intended(s)' <=> Intended(s)
    BY DEF Intended, HasRec
<1>. QED
    BY <1>1, <1>2 DEF Calm, Loose

\* ... one that clears the intent and records its file, ...
LEMMA CalmCleared ==
    ASSUME TypeOK, ret' = ret, \A s \in Slots : RowAt(s) => RowAt(s)',
           HasRec' => rec'.intent = None,
           \A s \in Slots : Loose(s) /\ Intended(s) => RowAt(s)'
    PROVE  Calm
<1>1. \A s \in Slots : At(s)' <=> At(s)
    BY DEF At
<1>2. \A s \in Slots : ~Intended(s)'
    BY Shapes DEF Intended
<1>3. \A s \in Slots : Loose(s)' => Loose(s)
    BY <1>1 DEF Loose
<1>4. \A s \in Slots : Loose(s)' => ~Intended(s)
    BY <1>3 DEF Loose, Intended
<1>. QED
    BY <1>2, <1>3, <1>4 DEF Calm

\* ... and one that only empties retained paths.
LEMMA CalmEmptied ==
    ASSUME rows' = rows, rec' = rec, \A s \in Slots : At(s)' => At(s)
    PROVE  Calm
<1>1. \A s \in Slots : Intended(s)' <=> Intended(s)
    BY DEF Intended, HasRec
<1>2. \A s \in Slots : RowAt(s)' <=> RowAt(s)
    BY DEF RowAt
<1>. QED
    BY <1>1, <1>2 DEF Calm, Loose

\* The rows after one is recorded.
LEMMA RowRecorded ==
    ASSUME NEW s, NEW v, NEW h, NEW why, NEW id, rows' = WithRow(Row(s, v, h, why, id))
    PROVE  RowAt(s)' /\ \A t : RowAt(t) => RowAt(t)'
<1>1. Row(s, v, h, why, id).slot = s
    BY DEF Row
<1>. QED
    BY <1>1 DEF WithRow, RowAt

\* The rows after recordDisplaced.
LEMMA DisplacedRecorded ==
    ASSUME RecordDisplaced
    PROVE  \A t : (RowAt(t) \/ (At(t) /\ t = D.disp)) => RowAt(t)'
<1>1. CASE At(D.disp)
    BY <1>1, RowRecorded DEF RecordDisplaced
<1>2. CASE ~At(D.disp)
    BY <1>2 DEF RecordDisplaced, RowAt
<1>. QED
    BY <1>1, <1>2

\* A calm step that keeps the items and does not fill the path keeps every file accounted for.
LEMMA GlobalCalm ==
    ASSUME TypeOK, Global, Calm, item' = item, live = None => live' = None
    PROVE  Global'
<1>1. Accounted'
    BY DEF Global, Accounted, Calm, Pending
<1>2. IntentKnown'
    BY DEF Global, IntentKnown, Calm
<1>3. OwnSlots'
    BY DEF Global, OwnSlots
<1>4. Carried'
  <2>. SUFFICES ASSUME NEW i \in Jobs, Pending(i)', item'[i].act = "retain", Loose(item[i].d.ret)'
                PROVE  live' = None
    BY DEF Carried
  <2>1. Pending(i) /\ item[i].act = "retain" /\ item'[i].d.ret = item[i].d.ret
    BY DEF Pending
  <2>2. item[i].d.ret \in Slots
    BY <2>1, Shapes DEF Pending, Loose, At
  <2>3. \A s \in Slots : s = item[i].d.ret => Loose(s)
    BY <2>1 DEF Calm, Loose, At, RowAt
  <2>. QED
    BY <2>1, <2>2, <2>3 DEF Global, Carried
<1>. QED
    BY <1>1, <1>2, <1>3, <1>4 DEF Global

\* The same for a step that fills the path while no unfinished item waits for it.
LEMMA GlobalPath ==
    ASSUME TypeOK, Global, Calm, item' = item,
           \A i \in Jobs : Pending(i) /\ item[i].act = "retain" => ~Loose(item[i].d.ret)'
    PROVE  Global'
<1>1. Accounted'
    BY DEF Global, Accounted, Calm, Pending
<1>2. IntentKnown'
    BY DEF Global, IntentKnown, Calm
<1>3. OwnSlots'
    BY DEF Global, OwnSlots
<1>4. Carried'
    BY DEF Carried, Pending
<1>. QED
    BY <1>1, <1>2, <1>3, <1>4 DEF Global

\* A step that changes job j's item alone, and may add rows.
LEMMA GlobalItem ==
    ASSUME TypeOK, TypeOK', Global, NEW j \in Jobs, item'[j] # None,
           \A i \in Jobs \ {j} : item'[i] = item[i],
           UNCHANGED <<ret, rec, live>>, \A s \in Slots : RowAt(s) => RowAt(s)',
           item'[j].d.ret # None => item'[j].d.ret[1] = j,
           item'[j].d.disp # None => item'[j].d.disp[1] = j,
           item'[j].act = "retain" => item'[j].d.disp = None,
           \A s \in Slots : s[1] = j /\ Loose(s)' =>
               Intended(s) \/ (item'[j].st = "pending" /\ item'[j].d.disp = s),
           \A s \in Slots : s[1] = j /\ Intended(s) /\ (Loose(s)' \/ item'[j].act = "put") =>
               item'[j].d.ret = s,
           item'[j].st = "pending" /\ item'[j].act = "retain" /\ Loose(item[j].d.ret)' => live = None
    PROVE  Global' /\ Calm
<1>1. Calm
    BY CalmRows
<1>2. \A s \in Slots :
          /\ Loose(s)' => Loose(s) /\ (Intended(s)' <=> Intended(s))
          /\ Intended(s)' => Intended(s)
    BY <1>1 DEF Calm
<1>3. \A s \in Slots : s[1] \in Jobs
    BY Shapes
<1>4. Accounted'
  <2>. SUFFICES ASSUME NEW s \in Slots, Loose(s)'
                PROVE  Intended(s)' \/ (Pending(s[1])' /\ item'[s[1]].d.disp = s)
    BY DEF Accounted
  <2>1. CASE s[1] = j
    BY <1>2, <2>1 DEF Pending
  <2>2. CASE s[1] # j
    BY <1>2, <1>3, <2>2 DEF Pending, Global, Accounted
  <2>. QED
    BY <2>1, <2>2
<1>5. IntentKnown'
  <2>. SUFFICES ASSUME NEW s \in Slots, Intended(s)'
                PROVE  /\ item'[s[1]] # None
                       /\ Loose(s)' \/ item'[s[1]].act = "put" => item'[s[1]].d.ret = s
    BY DEF IntentKnown
  <2>1. CASE s[1] = j
    BY <1>2, <2>1
  <2>2. CASE s[1] # j
    BY <1>2, <1>3, <2>2 DEF Global, IntentKnown
  <2>. QED
    BY <2>1, <2>2
<1>6. OwnSlots'
    BY DEF Global, OwnSlots
<1>7. Carried'
  <2>. SUFFICES ASSUME NEW i \in Jobs, Pending(i)', item'[i].act = "retain", Loose(item[i].d.ret)'
                PROVE  live' = None
    BY DEF Carried
  <2>1. CASE i = j
    BY <2>1 DEF Pending
  <2>2. CASE i # j
    <3>1. Pending(i) /\ item[i].act = "retain" /\ item'[i].d.ret = item[i].d.ret
      BY <2>2 DEF Pending
    <3>2. item[i].d.ret \in Slots
      BY <3>1, Shapes DEF Pending, Loose, At
    <3>3. \A s \in Slots : s = item[i].d.ret => Loose(s)
      BY <1>2, <3>1 DEF Loose, At, RowAt
    <3>. QED
      BY <3>1, <3>2, <3>3 DEF Global, Carried
  <2>. QED
    BY <2>1, <2>2
<1>. QED
    BY <1>1, <1>4, <1>5, <1>6, <1>7 DEF Global

\* A step of the same job, past or in its sweep, that fills no path of another job's directory.
LEMMA SweptCalm ==
    ASSUME Swept, run.at # "idle", run'.job = run.job, run'.todo = run.todo,
           run'.at \notin {"sweepPlaced", "sweepTemp"}, run'.at \in Sweeping \/ run.todo = {},
           \A s \in Slots : Loose(s)' /\ s[1] # J => Loose(s) /\ (Intended(s) => Intended(s)')
    PROVE  Swept'
<1>1. SweptSlots'
    BY DEF Swept, SweptSlots, J
<1>2. SweptItem' /\ SweptAll'
    BY DEF SweptItem, SweptAll
<1>. QED
    BY <1>1, <1>2 DEF Swept

\* A calm step outside the sweep.
LEMMA SweptOn ==
    ASSUME Swept, Calm, run.at # "idle", run.at \notin Sweeping, run'.job = run.job,
           run'.todo = run.todo, run'.at \notin Sweeping
    PROVE  Swept'
<1>1. run.todo = {}
    BY DEF Swept, SweptAll
<1>2. run'.at \notin {"sweepPlaced", "sweepTemp"}
    BY DEF Sweeping
<1>3. \A s \in Slots : Loose(s)' /\ s[1] # J => Loose(s) /\ (Intended(s) => Intended(s)')
    BY DEF Calm
<1>. QED
    BY <1>1, <1>2, <1>3, SweptCalm

\* Nothing is asked of a job that does not run.
LEMMA NotRunning ==
    ASSUME run'.at = "idle", run'.todo = {}
    PROVE  Swept' /\ Local'
BY DEF Swept, SweptSlots, SweptItem, SweptAll, Sweeping, Local, Working, ExecPoints, Placing, Displacing

\* Nothing is known of the item before the job is ready.
LEMMA NotReady ==
    ASSUME run'.at \in Sweeping \cup {"settle"}
    PROVE  Local'
BY DEF Sweeping, Local, Working, ExecPoints, Placing, Displacing

\* What the running job knows depends on retention, the records, its item and its detail.
LEMMA LocalFramed ==
    ASSUME UNCHANGED <<ret, rows, rec, item>>, run'.job = run.job,
           run'.d.ret = run.d.ret, run'.d.disp = run.d.disp
    PROVE  /\ NothingOpen' <=> NothingOpen
           /\ SameDisp' <=> SameDisp
           /\ SameRet' <=> SameRet
           /\ IsPut' <=> IsPut
           /\ DispKnown' <=> DispKnown
           /\ HasRec' <=> HasRec
           /\ Loose(rec.intent)' <=> Loose(rec.intent)
           /\ Loose(D.ret)' <=> Loose(D.ret)
           /\ At(rec.intent)' <=> At(rec.intent)
           /\ At(D.ret)' <=> At(D.ret)
           /\ run'.retx = run.retx => (RetKnown' <=> RetKnown)
           /\ run'.kept = run.kept => (KeptKnown' <=> KeptKnown)
           /\ (rec.intent = D.ret)' <=> (rec.intent = D.ret)
           /\ Calm
<1>1. J' = J /\ D'.ret = D.ret /\ D'.disp = D.disp
    BY DEF J, D
<1>2. \A s : (Loose(s)' <=> Loose(s)) /\ (Intended(s)' <=> Intended(s)) /\ (At(s)' <=> At(s))
    BY DEF Loose, At, RowAt, Intended, HasRec
<1>3. HasRec' <=> HasRec
    BY DEF HasRec
<1>4. Calm
    BY <1>2 DEF Calm
<1>5. (NothingOpen' <=> NothingOpen) /\ (SameDisp' <=> SameDisp) /\ (SameRet' <=> SameRet) /\ (IsPut' <=> IsPut)
    BY <1>1, <1>3 DEF NothingOpen, SameDisp, SameRet, IsPut, Pending
<1>6. /\ DispKnown' <=> DispKnown
      /\ Loose(rec.intent)' <=> Loose(rec.intent)
      /\ Loose(D.ret)' <=> Loose(D.ret)
      /\ At(rec.intent)' <=> At(rec.intent)
      /\ At(D.ret)' <=> At(D.ret)
    BY <1>1, <1>2 DEF DispKnown, Loose, At, RowAt, Intended, HasRec
<1>7. /\ run'.retx = run.retx => (RetKnown' <=> RetKnown)
      /\ run'.kept = run.kept => (KeptKnown' <=> KeptKnown)
    BY <1>3, <1>6 DEF RetKnown, KeptKnown
<1>8. (rec.intent = D.ret)' <=> (rec.intent = D.ret)
    BY <1>1
<1>. QED
    BY <1>3, <1>4, <1>5, <1>6, <1>7, <1>8

\* The unrecorded file of an intent, seen by the job whose item left it.
LEMMA OwnIntentKnown ==
    ASSUME TypeOK, Global, NothingOpen, SameRet, HasRec, Loose(rec.intent)
    PROVE  rec.intent \in Slots /\ rec.intent = D.ret
<1>1. rec.intent \in Slots
    BY Shapes, LooseSlot
<1>2. rec.intent[1] = J
    BY <1>1, Shapes DEF NothingOpen
<1>3. item[J].d.ret = rec.intent
    BY <1>1, <1>2 DEF Global, IntentKnown, Intended
<1>. QED
    BY <1>1, <1>3 DEF SameRet

\* The intent of an item that copies is its own retained path.
LEMMA OwnPutIntent ==
    ASSUME TypeOK, Global, NothingOpen, SameRet, IsPut, HasRec, rec.intent # None
    PROVE  rec.intent = D.ret
<1>1. rec.intent \in Slots /\ rec.intent[1] = J
    BY Shapes DEF NothingOpen
<1>. QED
    BY <1>1 DEF Global, IntentKnown, Intended, SameRet, IsPut

-----------------------------------------------------------------------------
(* The steps, one lemma for each group of the model's actions.             *)

\* A step that changes nothing that Settling is about.
LEMMA SettlingFramed ==
    ASSUME Settling, UNCHANGED <<live, ret, rows, rec, item, run>>
    PROVE  Settling'
<1>1. \A s : (Loose(s)' <=> Loose(s)) /\ (Intended(s)' <=> Intended(s)) /\ (At(s)' <=> At(s))
    BY DEF Loose, At, RowAt, Intended, HasRec
<1>2. Global'
    BY <1>1 DEF Settling, Global, Accounted, IntentKnown, OwnSlots, Carried, Pending, Loose, At, RowAt
<1>3. Swept'
    BY <1>1 DEF Settling, Swept, SweptSlots, SweptItem, SweptAll, J, Loose, At, RowAt
<1>4. Local'
  <2>1. run'.at = run.at /\ run'.next = run.next /\ run'.kept = run.kept /\ run'.retx = run.retx
    OBVIOUS
  <2>. QED
    BY <2>1, LocalFramed DEF Settling, Local
<1>. QED
    BY <1>2, <1>3, <1>4 DEF Settling

\* The source, the ends of jobs.
LEMMA SettlingEnds ==
    ASSUME TypeOK, Settling,
           SourceChanges \/ SourceVanishes \/ Crash \/ NothingToDo \/ ExpireEnd \/ Cancelled \/ Verify \/ Salvage
    PROVE  Settling'
<1>1. CASE SourceChanges \/ SourceVanishes
    BY <1>1, SettlingFramed DEF SourceChanges, SourceVanishes, disk, base
<1>2. CASE Crash \/ NothingToDo \/ ExpireEnd \/ Cancelled \/ Verify
  <2>1. run'.at = "idle" /\ run'.todo = {}
    <3>1. run' = Idle
      BY <1>2 DEF Crash, NothingToDo, ExpireEnd, Cancelled, Verify, End
    <3>. QED
      BY <3>1 DEF Idle
  <2>2. ret' = ret /\ rows' = rows /\ item' = item /\ live' = live
    BY <1>2 DEF Crash, NothingToDo, ExpireEnd, Cancelled, Verify, disk
  <2>3. (HasRec' <=> HasRec) /\ (HasRec => rec'.intent = rec.intent)
    <3>1. CASE Verify
      <4>1. CASE rec' = rec
        BY <4>1 DEF HasRec
      <4>2. CASE HasRec /\ rec' = [rec EXCEPT !.st = "missing"]
        <5>1. rec \in RecType
          BY <4>2, Shapes
        <5>2. rec' \in RecType /\ rec'.intent = rec.intent
          BY <4>2, <5>1 DEF RecType
        <5>. QED
          BY <4>2, <5>2, NoneAssumption DEF HasRec
      <4>. QED
        BY <3>1, <4>1, <4>2 DEF Verify
    <3>2. CASE ~Verify
      BY <1>2, <3>2 DEF Crash, NothingToDo, ExpireEnd, Cancelled, HasRec
    <3>. QED
      BY <3>1, <3>2
  <2>4. Calm
    BY <2>2, <2>3, CalmFramed
  <2>5. Global'
    BY <2>2, <2>4, GlobalCalm DEF Settling
  <2>. QED
    BY <2>1, <2>5, NotRunning DEF Settling
<1>3. CASE Salvage
  <2>1. run'.at = "idle" /\ run'.todo = {}
    BY <1>3, Ended DEF Salvage
  <2>2. \A t : RowAt(t) => RowAt(t)'
    BY <1>3, DisplacedRecorded DEF Salvage
  <2>3. ret' = ret /\ rec' = rec /\ item' = item /\ live' = live
    BY <1>3 DEF Salvage
  <2>4. Global'
    BY <2>2, <2>3, CalmRows, GlobalCalm DEF Settling
  <2>. QED
    BY <2>1, <2>4, NotRunning DEF Settling
<1>. QED
    BY <1>1, <1>2, <1>3

\* A job starts: the directories of jobs with a pending item are to be swept; what is unrecorded
\* in the others is what the record's intent names.
LEMMA SettlingStart ==
    ASSUME TypeOK, Settling, NEW j \in Jobs, NEW k, Start(j, k)
    PROVE  Settling'
<1>1. /\ run'.at = "sweep" /\ run'.job = j
      /\ run'.todo = {i \in Jobs \ {j} : /\ \E n \in Names : ret[<<i, n>>] # None
                                         /\ item[i] # None /\ item[i].st = "pending"}
    BY DEF Start, Idle
<1>2. ret' = ret /\ rows' = rows /\ rec' = rec /\ item' = item /\ live' = live
    BY DEF Start, disk
<1>3. Calm
    BY <1>2, CalmFramed DEF HasRec
<1>4. Global'
    BY <1>2, <1>3, GlobalCalm DEF Settling
<1>5. SweptSlots'
  <2>. SUFFICES ASSUME NEW s \in Slots, Loose(s)', s[1] # j, s[1] \notin run'.todo
                PROVE  Intended(s)'
    BY <1>1 DEF SweptSlots, J
  <2>1. Loose(s) /\ (Intended(s)' <=> Intended(s))
    BY <1>3 DEF Calm
  <2>2. PICK i \in Jobs, n \in Names : s = <<i, n>>
    BY DEF Slots
  <2>3. ret[<<i, n>>] # None /\ i # j
    BY <2>1, <2>2 DEF Loose, At
  <2>4. ~Pending(i)
    BY <1>1, <2>2, <2>3 DEF Pending
  <2>. QED
    BY <2>1, <2>2, <2>4 DEF Settling, Global, Accounted
<1>6. SweptItem' /\ SweptAll'
    BY <1>1 DEF SweptItem, SweptAll, Sweeping
<1>7. Local'
    BY <1>1, NotReady DEF Sweeping
<1>. QED
    BY <1>4, <1>5, <1>6, <1>7 DEF Settling, Swept

\* The sweep: each directory's displaced file is recorded before the directory counts as swept.
LEMMA SettlingSweep ==
    ASSUME TypeOK, AtPoints, Settling, NEW i \in Jobs, SweepDisplaced(i) \/ SweepPlaced(i) \/ SweepTemp(i)
    PROVE  Settling'
<1>a. /\ run \in RunType /\ run.todo \subseteq Nat /\ i \in run.todo /\ (\A k \in run.todo : i <= k)
      /\ run.at # "idle" /\ item[i] # None
    BY Shapes, RunFields, SyncAssumption DEF SweepDisplaced, SweepPlaced, SweepTemp, AtPoints
<1>b. \A m \in run.todo : (\A k \in run.todo : m <= k) => m = i
    BY <1>a
<1>c. Swept /\ Global /\ SweptSlots
    BY DEF Settling, Swept
<1>1. CASE SweepDisplaced(i)
  <2>1. /\ run'.at = "sweepPlaced" /\ run'.job = run.job /\ run'.todo = run.todo
        /\ ret' = ret /\ rec' = rec /\ item' = item /\ live' = live
    BY <1>1, <1>a, Moved DEF SweepDisplaced, disk
  <2>2. \A t : (RowAt(t) \/ (At(t) /\ t = item[i].d.disp)) => RowAt(t)'
    <3>1. CASE At(item[i].d.disp)
      BY <1>1, <3>1, RowRecorded DEF SweepDisplaced
    <3>2. CASE ~At(item[i].d.disp)
      BY <1>1, <3>2 DEF SweepDisplaced, RowAt
    <3>. QED
      BY <3>1, <3>2
  <2>3. Calm
    BY <2>1, <2>2, CalmRows
  <2>4. Global'
    BY <1>c, <2>1, <2>3, GlobalCalm
  <2>5. SweptSlots'
    BY <1>a, <1>c, <2>1, <2>3 DEF SweptSlots, Calm, J
  <2>6. SweptItem'
    <3>. SUFFICES ASSUME NEW m \in run.todo, \A k \in run.todo : m <= k
                  PROVE  ~Loose(item[m].d.disp)'
      BY <2>1 DEF SweptItem
    <3>1. m = i
      BY <1>b
    <3>. QED
      BY <2>1, <2>2, <3>1 DEF Loose, At
  <2>7. SweptAll' /\ Local'
    BY <2>1, NotReady DEF SweptAll, Sweeping
  <2>. QED
    BY <2>4, <2>5, <2>6, <2>7 DEF Settling, Swept
<1>2. CASE SweepPlaced(i)
  <2>1. /\ run'.at = "sweepTemp" /\ run'.job = run.job /\ run'.todo = run.todo
        /\ ret' = ret /\ item' = item /\ live' = live
    BY <1>2, <1>a, Moved DEF SweepPlaced, disk
  <2>2. Calm
    <3>1. CASE FinishedPlaced(i, item[i].d)
      <4>1. Placed(item[i].d, TRUE, i) /\ At(item[i].d.ret) /\ HasRec /\ rec.intent = item[i].d.ret
        BY <1>2, <3>1 DEF SweepPlaced, FinishedPlaced
      <4>2. rec'.intent = None
        BY <4>1 DEF Placed
      <4>3. \A t : (RowAt(t) \/ t = rec.intent) => RowAt(t)'
        BY <4>1, RowRecorded DEF Placed, At
      <4>. QED
        BY <2>1, <4>2, <4>3, CalmCleared DEF Intended
    <3>2. CASE ~FinishedPlaced(i, item[i].d)
      BY <1>2, <2>1, <3>2, CalmFramed DEF SweepPlaced, HasRec
    <3>. QED
      BY <3>1, <3>2
  <2>4. Global'
    BY <1>c, <2>1, <2>2, GlobalCalm
  <2>5. SweptSlots'
    BY <1>a, <1>c, <2>1, <2>2 DEF SweptSlots, Calm, J
  <2>6. SweptItem'
    <3>. SUFFICES ASSUME NEW m \in run.todo, \A k \in run.todo : m <= k
                  PROVE  ~Loose(item[m].d.disp)'
      BY <2>1 DEF SweptItem
    <3>1. m = i /\ ~Loose(item[i].d.disp)
      BY <1>2, <1>b, <1>c DEF Swept, SweptItem, SweepPlaced
    <3>2. item[i].d.disp \in Slots \cup {None} /\ ~At(None)
      BY <1>a, Shapes
    <3>3. PICK s \in Slots \cup {None} : s = item[i].d.disp
      BY <3>2
    <3>4. ~Loose(s)'
      BY <2>1, <2>2, <3>1, <3>2, <3>3 DEF Calm, Loose, At
    <3>. QED
      BY <2>1, <3>1, <3>3, <3>4 DEF Loose, At, RowAt
  <2>7. SweptAll' /\ Local'
    BY <2>1, NotReady DEF SweptAll, Sweeping
  <2>. QED
    BY <2>4, <2>5, <2>6, <2>7 DEF Settling, Swept
<1>3. CASE SweepTemp(i)
  <2>1. /\ run'.at = "sweep" /\ run'.job = run.job /\ run'.todo = run.todo \ {i}
        /\ ret' = ret /\ rec' = rec /\ rows' = rows /\ item' = item /\ live' = live
    BY <1>3, <1>a DEF SweepTemp, base, RunType
  <2>2. Calm
    BY <2>1, CalmFramed DEF HasRec
  <2>3. Global'
    BY <1>c, <2>1, <2>2, GlobalCalm
  <2>4. SweptSlots'
    <3>. SUFFICES ASSUME NEW s \in Slots, Loose(s)', s[1] # J, s[1] \notin run.todo \ {i}
                  PROVE  Intended(s)'
      BY <2>1 DEF SweptSlots, J
    <3>1. Loose(s) /\ (Intended(s)' <=> Intended(s))
      BY <2>2 DEF Calm
    <3>2. CASE s[1] = i
      <4>1. ~Loose(item[i].d.disp)
        BY <1>3, <1>a, <1>c DEF Swept, SweptItem, SweepTemp
      <4>. QED
        BY <1>c, <3>1, <3>2, <4>1 DEF Global, Accounted
    <3>3. CASE s[1] # i
      BY <1>a, <1>c, <3>1, <3>3 DEF SweptSlots
    <3>. QED
      BY <3>2, <3>3
  <2>5. SweptItem' /\ SweptAll' /\ Local'
    BY <2>1, NotReady DEF SweptItem, SweptAll, Sweeping
  <2>. QED
    BY <2>3, <2>4, <2>5 DEF Settling, Swept
<1>. QED
    BY <1>1, <1>2, <1>3

\* settle, on the file system.
LEMMA SettleFSCalm ==
    ASSUME TypeOK, Global, HasRec, OnlyCrashes, OnlyCrashes', NEW next, SettleFS(next)
    PROVE  /\ run'.at = next /\ run'.job = run.job /\ run'.d = run.d /\ run'.todo = run.todo
           /\ rec' = rec /\ rows' = rows /\ item' = item
           /\ At(rec.intent)' => run'.kept
           /\ \A s \in Slots : At(s)' => At(s)
           /\ Calm /\ Global'
<1>1. /\ run \in RunType /\ rec.intent \in Slots \cup {None} /\ ret \in [Slots -> Files \cup {None}]
      /\ ~At(None)
    BY Shapes
<1>2. rec' = rec /\ rows' = rows /\ item' = item
    BY DEF SettleFS, base
<1>3. CASE /\ At(rec.intent) /\ live = None
           /\ live' = ret[rec.intent] /\ ret' = [ret EXCEPT ![rec.intent] = None]
           /\ run' = [run EXCEPT !.at = next, !.kept = FALSE, !.unknown = FALSE]
  <2>1. run'.at = next /\ run'.job = run.job /\ run'.d = run.d /\ run'.todo = run.todo
    BY <1>1, <1>3 DEF RunType
  <2>2. rec.intent \in Slots /\ ret'[rec.intent] = None
    BY <1>1, <1>3
  <2>3. ~At(rec.intent)' /\ \A s \in Slots : At(s)' => At(s) /\ s # rec.intent
    BY <1>1, <1>2, <1>3, <2>2 DEF At
  <2>4. Calm
    BY <1>2, <2>3, CalmEmptied
  <2>5. \A i \in Jobs : Pending(i) /\ item[i].act = "retain" => ~Loose(item[i].d.ret)'
    <3>. SUFFICES ASSUME NEW i \in Jobs, Pending(i), item[i].act = "retain", Loose(item[i].d.ret)'
                  PROVE  FALSE
      OBVIOUS
    <3>1. item[i].d.ret \in Slots \cup {None} /\ item[i] # None
      BY Shapes DEF Pending
    <3>2. PICK s \in Slots : s = item[i].d.ret
      BY <1>2, <3>1 DEF Loose, At
    <3>3. Loose(s)'
      BY <1>2, <3>2 DEF Loose, At, RowAt
    <3>4. Loose(s) /\ s # rec.intent
      BY <2>3, <2>4, <3>3 DEF Calm, Loose
    <3>5. item[s[1]].d.disp = s /\ Pending(s[1])
      BY <3>4 DEF Global, Accounted, Intended
    <3>6. s[1] = i
      BY <3>1, <3>2, Shapes DEF Global, OwnSlots
    <3>7. item[i].d.disp = None
      BY <3>1 DEF Global, OwnSlots
    <3>. QED
      BY <3>5, <3>6, <3>7, Shapes
  <2>6. Global'
    BY <1>2, <2>4, <2>5, GlobalPath
  <2>. QED
    BY <1>2, <2>1, <2>3, <2>4, <2>6
<1>4. CASE /\ UNCHANGED <<live, ret>>
           /\ run' = [run EXCEPT !.at = next, !.kept = At(rec.intent),
                                 !.unknown = At(rec.intent) /\ ~SameFile(rec.intent)]
  <2>1. /\ run'.at = next /\ run'.job = run.job /\ run'.d = run.d /\ run'.todo = run.todo
        /\ run'.kept = At(rec.intent)
    BY <1>1, <1>4 DEF RunType
  <2>2. (At(rec.intent)' => At(rec.intent)) /\ \A s \in Slots : At(s)' => At(s)
    BY <1>2, <1>4 DEF At
  <2>3. Calm
    BY <1>2, <2>2, CalmEmptied
  <2>4. Global'
    BY <1>2, <1>4, <2>3, GlobalCalm
  <2>. QED
    BY <1>2, <2>1, <2>2, <2>3, <2>4
<1>5. CASE bounds' = [bounds EXCEPT !.stuck = @ + 1]
  <2>1. bounds'.stuck = bounds.stuck + 1
    BY <1>5 DEF TypeOK
  <2>. QED
    BY <2>1 DEF OnlyCrashes
<1>. QED
    BY <1>3, <1>4, <1>5 DEF SettleFS

\* settle, in the database: the file of the intent is recorded as the intent goes.
LEMMA SettleDBCalm ==
    ASSUME TypeOK, HasRec, At(rec.intent) => run.kept, NEW h, NEW why, NEW next, SettleDB(h, why, next)
    PROVE  /\ run'.at = next /\ run'.job = run.job /\ run'.d = run.d /\ run'.todo = run.todo
           /\ ret' = ret /\ live' = live /\ item' = item
           /\ rec'.intent = None
           /\ \A s : RowAt(s) => RowAt(s)'
           /\ \A s \in Slots : Loose(s)' => ~Intended(s)
           /\ Calm
<1>1. /\ run'.at = next /\ run'.job = run.job /\ run'.d = run.d /\ run'.todo = run.todo
      /\ ret' = ret /\ live' = live /\ item' = item
    BY Moved, Shapes DEF SettleDB, disk
<1>2. rec'.intent = None
  <2>1. rec \in RecType
    BY Shapes
  <2>. QED
    BY <2>1 DEF SettleDB, RecType
<1>3. \A s : (RowAt(s) \/ (At(s) /\ s = rec.intent)) => RowAt(s)'
  <2>1. CASE At(rec.intent)
    BY <2>1, RowRecorded DEF SettleDB
  <2>2. CASE ~At(rec.intent)
    BY <2>2 DEF SettleDB, RowAt
  <2>. QED
    BY <2>1, <2>2
<1>4. Calm
    BY <1>1, <1>2, <1>3, CalmCleared DEF Loose, Intended
<1>5. \A s \in Slots : Loose(s)' => ~Intended(s)
    BY <1>1, <1>3 DEF Loose, Intended, At
<1>. QED
    BY <1>1, <1>2, <1>3, <1>4, <1>5

\* After the sweep, the intent of another job is settled.
LEMMA SettlingSettle ==
    ASSUME TypeOK, AtPoints, Settling, OnlyCrashes, OnlyCrashes',
           SweepEnd \/ Settle \/ SettleRecord \/ SettleNothing
    PROVE  Settling'
<1>a. run \in RunType /\ Swept /\ Global
    BY Shapes DEF Settling
<1>1. CASE SweepEnd
  <2>1. /\ run'.at = "settle" /\ run'.job = run.job /\ run'.todo = run.todo /\ run.todo = {}
        /\ run.at # "idle"
        /\ ret' = ret /\ rec' = rec /\ rows' = rows /\ item' = item /\ live' = live
    BY <1>1, <1>a, Moved DEF SweepEnd, disk, base
  <2>2. Calm
    BY <2>1, CalmFramed DEF HasRec
  <2>3. Global'
    BY <1>a, <2>1, <2>2, GlobalCalm
  <2>4. Swept'
    BY <1>a, <2>1, <2>2, SweptCalm DEF Calm
  <2>. QED
    BY <2>1, <2>3, <2>4, NotReady DEF Settling
<1>2. CASE Settle
  <2>1. HasRec /\ run.at = "settle"
    BY <1>2 DEF Settle, Unsettled
  <2>2. /\ run'.at = "settleDB" /\ run'.job = run.job /\ run'.todo = run.todo
        /\ At(rec.intent)' => run'.kept
        /\ Calm /\ Global'
    BY <1>2, <1>a, <2>1, SettleFSCalm DEF Settle
  <2>3. Swept'
    BY <1>a, <2>1, <2>2, SweptOn DEF Sweeping
  <2>4. Local'
    BY <2>2 DEF Local, Working, ExecPoints, Placing, Displacing
  <2>. QED
    BY <2>2, <2>3, <2>4 DEF Settling
<1>3. CASE SettleRecord
  <2>1. HasRec /\ run.at = "settleDB" /\ (At(rec.intent) => run.kept)
    BY <1>3 DEF SettleRecord, AtPoints, Settling, Local
  <2>2. /\ run'.at = "ready" /\ run'.job = run.job /\ run'.todo = run.todo
        /\ item' = item /\ live' = live /\ rec'.intent = None /\ Calm
    BY <1>3, <2>1, SettleDBCalm DEF SettleRecord
  <2>3. Swept'
    BY <1>a, <2>1, <2>2, SweptOn DEF Sweeping
  <2>4. Global'
    BY <1>a, <2>2, GlobalCalm
  <2>5. Local'
    BY <2>2 DEF Local, Working, ExecPoints, Placing, Displacing, NothingOpen
  <2>. QED
    BY <2>3, <2>4, <2>5 DEF Settling
<1>4. CASE SettleNothing
  <2>1. /\ run.at = "settle" /\ run'.at = "ready" /\ run'.job = run.job /\ run'.todo = run.todo
        /\ ret' = ret /\ rec' = rec /\ rows' = rows /\ item' = item /\ live' = live
    BY <1>4, <1>a, Moved DEF SettleNothing, disk, base
  <2>2. NothingOpen'
    BY <1>4, <2>1 DEF SettleNothing, Unsettled, NothingOpen, HasRec, J
  <2>3. Calm
    BY <2>1, CalmFramed DEF HasRec
  <2>4. Swept'
    BY <1>a, <2>1, <2>3, SweptOn DEF Sweeping
  <2>5. Global'
    BY <1>a, <2>1, <2>3, GlobalCalm
  <2>6. Local'
    BY <2>1, <2>2 DEF Local, Working, ExecPoints, Placing, Displacing
  <2>. QED
    BY <2>4, <2>5, <2>6 DEF Settling
<1>. QED
    BY <1>1, <1>2, <1>3, <1>4

\* A step of a ready or working job that leaves the destination, the rows, the record and the
\* items alone.
LEMMA StepFramed ==
    ASSUME TypeOK, Settling, run.at \in Working \cup {"ready", "expired"},
           UNCHANGED <<live, ret, rows, rec, item>>, run'.job = run.job, run'.todo = run.todo,
           run'.at \in Working \cup {"ready", "expired"}
    PROVE  Global' /\ Swept'
<1>1. Calm
    BY CalmFramed DEF HasRec
<1>2. Global'
    BY <1>1, GlobalCalm DEF Settling
<1>3. Swept'
    BY <1>1, SweptOn DEF Settling, Working, ExecPoints, Sweeping
<1>. QED
    BY <1>2, <1>3

\* What a calm step that keeps the items leaves for the running job to show.
LEMMA StepCalm ==
    ASSUME TypeOK, Settling, run.at \in Working \cup {"ready", "expired"}, Calm, item' = item,
           live = None => live' = None, run'.job = run.job, run'.todo = run.todo,
           run'.at \in Working \cup {"ready", "expired"}
    PROVE  Global' /\ Swept'
<1>1. Global'
    BY GlobalCalm DEF Settling
<1>2. Swept'
    BY SweptOn DEF Settling, Working, ExecPoints, Sweeping
<1>. QED
    BY <1>1, <1>2

\* The job plans its item and begins with it; the retention job expires a row.
LEMMA SettlingReady ==
    ASSUME TypeOK, TypeOK', AtPoints, Settling,
           Plan \/ Begin \/ EarlierDisplace \/ (\E r \in rows : ExpireFile(r)) \/ ExpireRow
    PROVE  Settling'
<1>a. /\ run \in RunType /\ Swept /\ Global /\ Local
      /\ run.at \in Working \cup {"ready", "expired"} /\ J \in Jobs /\ J = run.job /\ NothingOpen
  <2>1. run.at \in {"ready", "begin", "expired"}
    BY DEF Plan, Begin, EarlierDisplace, ExpireFile, ExpireRow
  <2>. QED
    BY <2>1, Shapes DEF Settling, AtPoints, Local, Working, ExecPoints, J
<1>1. CASE Plan
  <2>1. /\ run' = run /\ run.at = "ready" /\ item[J] = None
        /\ ret' = ret /\ rec' = rec /\ rows' = rows /\ live' = live
    BY <1>1 DEF Plan, disk
  <2>p. PICK j \in Jobs : j = J
    BY <1>a
  <2>2. /\ item'[j] # None /\ item'[j].d.ret = None /\ item'[j].d.disp = None
        /\ \A i \in Jobs \ {j} : item'[i] = item[i]
    <3>1. PICK act \in {"put", "retain"}, n \in Nat :
              item' = [item EXCEPT ![j] = [act |-> act, st |-> "pending", d |-> NoDetail, v |-> src, id |-> n]]
      <4>1. PlanItem \in {"put", "retain"}
        BY <1>1 DEF Plan, PlanItem
      <4>2. (IF HasRec THEN rec.id ELSE 0) \in Nat
        BY Shapes DEF HasRec, RecType
      <4>. QED
        BY <1>1, <2>p, <4>1, <4>2 DEF Plan
    <3>2. /\ item'[j] = [act |-> act, st |-> "pending", d |-> NoDetail, v |-> src, id |-> n]
          /\ \A i \in Jobs \ {j} : item'[i] = item[i]
      BY <3>1, Shapes
    <3>3. item'[j] \in ItemType
      <4>1. src \in Contents /\ NoDetail \in DetailType
        BY Facts DEF TypeOK
      <4>2. [act |-> act, st |-> "pending", d |-> NoDetail, v |-> src, id |-> n] \in ItemType
        BY <3>1, <4>1 DEF ItemType
      <4>. QED
        BY <3>2, <4>2
    <3>4. item'[j] # None /\ item'[j].d = NoDetail
      BY <3>2, <3>3, NoneAssumption
    <3>5. NoDetail.ret = None /\ NoDetail.disp = None
      BY DEF NoDetail
    <3>. QED
      BY <3>2, <3>4, <3>5
  <2>3. \A s \in Slots : Loose(s)' => Loose(s)
    BY <2>1 DEF Loose, At, RowAt
  <2>4. \A s \in Slots : s[1] = j => ~Loose(s)
    BY <1>a, <2>1, <2>p DEF Global, Accounted, IntentKnown, Pending
  <2>i. \A s \in Slots : s[1] = j => ~Intended(s)
    BY <1>a, <2>1, <2>p DEF Global, IntentKnown
  <2>5. ~Loose(item[j].d.ret)'
    BY <2>2 DEF Loose, At
  <2>6. \A s \in Slots : RowAt(s) => RowAt(s)'
    BY <2>1 DEF RowAt
  <2>7. Global' /\ Calm
    <3>1. \A s \in Slots : s[1] = j => ~Loose(s)'
      BY <2>3, <2>4
    <3>. QED
      BY <1>a, <2>1, <2>2, <2>5, <2>6, <2>i, <3>1, GlobalItem
  <2>8. Swept'
    BY <1>a, <2>1, <2>7, SweptOn DEF Sweeping
  <2>9. Local'
    <3>1. NothingOpen'
      BY <1>a, <2>1 DEF NothingOpen, HasRec, J
    <3>. QED
      BY <2>1, <3>1 DEF Local, Working, ExecPoints, Placing, Displacing
  <2>. QED
    BY <2>7, <2>8, <2>9 DEF Settling
<1>2. CASE Begin
  <2>1. /\ run.at = "ready" /\ run'.at = "begin" /\ run'.job = run.job /\ run'.todo = run.todo
        /\ run'.d = item[J].d /\ Pending(J)
        /\ ret' = ret /\ rec' = rec /\ rows' = rows /\ item' = item /\ live' = live
    BY <1>2, <1>a DEF Begin, disk, base, Pending, RunType
  <2>2. Global' /\ Swept'
    BY <1>a, <2>1, StepFramed DEF Working, ExecPoints
  <2>3. NothingOpen' /\ SameDisp' /\ SameRet'
    BY <1>a, <2>1 DEF NothingOpen, SameDisp, SameRet, HasRec, J, D, Pending
  <2>4. Local'
    BY <2>1, <2>3 DEF Local, Working, ExecPoints, Placing, Displacing
  <2>. QED
    BY <2>2, <2>4 DEF Settling
<1>3. CASE EarlierDisplace
  <2>1. /\ run.at = "begin" /\ run'.at = item[J].act /\ run'.job = run.job /\ run'.todo = run.todo
        /\ run'.d = run.d
        /\ ret' = ret /\ rec' = rec /\ item' = item /\ live' = live
    BY <1>3, <1>a, Moved DEF EarlierDisplace, disk
  <2>2. \A t : (RowAt(t) \/ (At(t) /\ t = D.disp)) => RowAt(t)'
    BY <1>3, DisplacedRecorded DEF EarlierDisplace
  <2>3. item[J].act \in {"put", "retain"} /\ SameDisp /\ SameRet
    BY <1>a, <2>1, Shapes DEF Local, Working, ExecPoints, SameDisp, Pending, ItemType
  <2>4. Calm
    BY <2>1, <2>2, CalmRows
  <2>5. Global' /\ Swept'
    BY <1>a, <2>1, <2>3, <2>4, StepCalm DEF Working, ExecPoints
  <2>6. NothingOpen' /\ SameDisp' /\ SameRet' /\ (run'.at = "put" => IsPut')
    BY <1>a, <2>1, <2>3 DEF NothingOpen, SameDisp, SameRet, IsPut, HasRec, J, D, Pending
  <2>7. DispKnown'
    BY <2>1, <2>2 DEF DispKnown, Loose, At, D
  <2>8. Local'
    BY <2>1, <2>3, <2>6, <2>7 DEF Local, Working, ExecPoints, Placing, Displacing
  <2>. QED
    BY <2>5, <2>8 DEF Settling
<1>4. CASE \E r \in rows : ExpireFile(r)
  <2>1. PICK r \in rows : ExpireFile(r)
    BY <1>4
  <2>2. /\ run.at = "ready" /\ run'.at = "expired" /\ run'.job = run.job /\ run'.todo = run.todo
        /\ run'.d = [NoDetail EXCEPT !.ret = r.slot]
        /\ ret' = [ret EXCEPT ![r.slot] = None]
        /\ rec' = rec /\ rows' = rows /\ item' = item /\ live' = live
    BY <2>1, <1>a DEF ExpireFile, base, RunType
  <2>3. r.slot \in Slots /\ run'.d.ret = r.slot
    BY <2>2 DEF TypeOK, RowType, NoDetail
  <2>4. ret'[r.slot] = None /\ \A s \in Slots : At(s)' => At(s)
    BY <2>2, <2>3, Shapes DEF At
  <2>5. Calm
    BY <2>2, <2>4, CalmEmptied
  <2>6. Global' /\ Swept'
    BY <1>a, <2>2, <2>5, StepCalm
  <2>7. NothingOpen' /\ ~At(D.ret)'
    BY <1>a, <2>2, <2>3, <2>4 DEF NothingOpen, HasRec, J, D, At
  <2>8. Local'
    BY <2>2, <2>7 DEF Local, Working, ExecPoints, Placing, Displacing
  <2>. QED
    BY <2>6, <2>8 DEF Settling
<1>5. CASE ExpireRow
  <2>1. /\ run.at = "expired" /\ run'.at = "ready" /\ run'.job = run.job /\ run'.todo = run.todo
        /\ rows' = {r \in rows : r.slot # D.ret}
        /\ ret' = ret /\ rec' = rec /\ item' = item /\ live' = live
    BY <1>5, <1>a DEF ExpireRow, disk, RunType
  <2>2. ~At(D.ret)
    BY <1>a, <2>1 DEF Local
  <2>3. \A s \in Slots : At(s) /\ RowAt(s) => RowAt(s)'
    BY <2>1, <2>2 DEF RowAt
  <2>4. Calm
    BY <2>1, <2>3 DEF Calm, Loose, At, Intended, HasRec
  <2>5. Global' /\ Swept'
    BY <1>a, <2>1, <2>4, StepCalm
  <2>6. NothingOpen'
    BY <1>a, <2>1 DEF NothingOpen, HasRec, J
  <2>7. Local'
    BY <2>1, <2>6 DEF Local, Working, ExecPoints, Placing, Displacing
  <2>. QED
    BY <2>5, <2>7 DEF Settling
<1>. QED
    BY <1>1, <1>2, <1>3, <1>4, <1>5

\* place and retain decide what to do next; none of these steps changes what Settling is about.
LEMMA SettlingDecides ==
    ASSUME TypeOK, AtPoints, Settling,
           PutResumed \/ PutAnew \/ InTheWay \/ OpenTemp \/ FillTemp \/ Keep \/ Retain \/ PutBackNothing
    PROVE  Settling'
<1>a. run.at \in {"put", "way", "copy", "copying", "keep", "retain", "putBack"}
    BY DEF PutResumed, PutAnew, InTheWay, OpenTemp, FillTemp, Keep, Retain, PutBackNothing
<1>b. /\ run \in RunType /\ Swept /\ Global /\ Local
      /\ run.at \in Working \cup {"ready", "expired"} /\ J \in Jobs /\ J = run.job
      /\ NothingOpen /\ SameDisp /\ SameRet /\ DispKnown
    BY <1>a, Shapes DEF Settling, AtPoints, Local, Working, ExecPoints, J
<1>c. run.at \in {"put", "way", "copy", "copying", "keep"} => IsPut
    BY <1>b DEF Local, Placing, Displacing
<1>d. UNCHANGED <<live, ret, rows, rec, item>>
    BY DEF PutResumed, PutAnew, InTheWay, OpenTemp, FillTemp, Keep, Retain, PutBackNothing, disk, base
<1>e. D.ret \in Slots \cup {None} /\ D.disp \in Slots \cup {None} /\ None \notin Slots /\ ~At(None) /\ ~Loose(None)
    BY Shapes DEF Loose
<1>f. HasRec /\ Loose(rec.intent) => rec.intent = D.ret /\ Loose(D.ret) /\ At(D.ret)
    BY <1>b, OwnIntentKnown DEF Loose
<1>g. ASSUME run'.job = run.job, run'.todo = run.todo, run'.d.ret = run.d.ret, run'.d.disp = run.d.disp,
             run'.at \in Working
      PROVE  /\ Global' /\ Swept' /\ NothingOpen' /\ SameDisp' /\ SameRet' /\ DispKnown'
             /\ IsPut' <=> IsPut
             /\ HasRec' <=> HasRec
             /\ Loose(rec.intent)' <=> Loose(rec.intent)
             /\ Loose(D.ret)' <=> Loose(D.ret)
             /\ At(D.ret)' <=> At(D.ret)
  <2>1. Global' /\ Swept'
    BY <1>b, <1>d, <1>g, StepFramed
  <2>. QED
    BY <1>b, <1>d, <1>g, <2>1, LocalFramed
<1>h. ASSUME NEW how, StopWith(how)
      PROVE  Settling'
  <2>1. run'.at = "putBack" /\ run'.job = run.job /\ run'.todo = run.todo /\ run'.d = run.d
    BY <1>b, <1>h DEF StopWith, RunType
  <2>2. Global' /\ Swept' /\ NothingOpen' /\ SameDisp' /\ SameRet' /\ DispKnown'
    BY <1>g, <2>1 DEF Working
  <2>3. Local'
    BY <2>1, <2>2 DEF Local, Working, ExecPoints, Placing, Displacing
  <2>. QED
    BY <2>2, <2>3 DEF Settling
<1>1. CASE PutResumed
  <2>1. CASE HalfDone /\ run' = [run EXCEPT !.at = "commit", !.kept = TRUE, !.free = live = None]
    <3>1. /\ run'.at = "commit" /\ run'.job = run.job /\ run'.todo = run.todo /\ run'.d = run.d
          /\ run'.kept = TRUE /\ run.at = "put"
      BY <1>1, <1>b, <2>1 DEF RunType, PutResumed
    <3>2. /\ Global' /\ Swept' /\ NothingOpen' /\ SameDisp' /\ SameRet' /\ DispKnown'
          /\ IsPut' /\ KeptKnown'
      BY <1>c, <1>g, <3>1 DEF Working, ExecPoints, KeptKnown
    <3>3. Local'
      BY <3>1, <3>2 DEF Local, Working, ExecPoints, Placing, Displacing
    <3>. QED
      BY <3>2, <3>3 DEF Settling
  <2>2. CASE run' = [run EXCEPT !.at = "record", !.kept = At(D.ret)]
    <3>1. /\ run'.at = "record" /\ run'.job = run.job /\ run'.todo = run.todo /\ run'.d = run.d
          /\ run'.kept = At(D.ret) /\ run.at = "put"
      BY <1>1, <1>b, <2>2 DEF RunType, PutResumed
    <3>2. /\ Global' /\ Swept' /\ NothingOpen' /\ SameDisp' /\ SameRet' /\ DispKnown'
          /\ IsPut' /\ KeptKnown'
      BY <1>c, <1>f, <1>g, <3>1 DEF Working, ExecPoints, KeptKnown
    <3>3. Local'
      BY <3>1, <3>2 DEF Local, Working, ExecPoints, Placing, Displacing
    <3>. QED
      BY <3>2, <3>3 DEF Settling
  <2>. QED
    BY <1>1, <2>1, <2>2 DEF PutResumed
<1>2. CASE PutAnew
  <2>1. CASE StopWith("fail")
    BY <1>h, <2>1
  <2>2. CASE run' = [run EXCEPT !.at = IF AlreadyDone THEN "finish"
                                       ELSE IF ~HasRec /\ live # None THEN "way" ELSE "write",
                                !.d.temp = FALSE, !.d.done = FALSE, !.retx = At(D.ret)]
    <3>1. /\ run'.job = run.job /\ run'.todo = run.todo /\ run'.retx = At(D.ret) /\ run.at = "put"
          /\ run'.at = IF AlreadyDone THEN "finish"
                       ELSE IF ~HasRec /\ live # None THEN "way" ELSE "write"
      BY <1>2, <1>b, <2>2 DEF RunType, PutAnew
    <3>2. run'.d.ret = run.d.ret /\ run'.d.disp = run.d.disp
      <4>1. run.d \in DetailType
        BY RunFields DEF D
      <4>2. run'.d = [run.d EXCEPT !.temp = FALSE, !.done = FALSE]
        BY <1>b, <2>2 DEF RunType
      <4>. QED
        BY <4>1, <4>2 DEF DetailType
    <3>3. run'.at \in {"finish", "way", "write"} /\ (run'.at = "way" => ~HasRec)
      BY <3>1
    <3>4. /\ Global' /\ Swept' /\ NothingOpen' /\ SameDisp' /\ SameRet' /\ DispKnown'
          /\ IsPut' /\ RetKnown' /\ (run'.at = "way" => ~HasRec')
      BY <1>c, <1>g, <3>1, <3>2, <3>3 DEF Working, ExecPoints, RetKnown
    <3>5. Local'
      BY <3>3, <3>4 DEF Local, Working, ExecPoints, Placing, Displacing
    <3>. QED
      BY <3>4, <3>5 DEF Settling
  <2>. QED
    BY <1>2, <2>1, <2>2 DEF PutAnew
<1>3. CASE InTheWay
  <2>1. /\ run'.at = "displace" /\ run'.job = run.job /\ run'.todo = run.todo /\ run'.d = run.d
        /\ run'.next = "write" /\ run.at = "way"
    BY <1>3, <1>b DEF RunType, InTheWay
  <2>2. ~HasRec
    BY <1>b, <2>1 DEF Local
  <2>3. /\ Global' /\ Swept' /\ NothingOpen' /\ SameDisp' /\ SameRet' /\ DispKnown'
        /\ IsPut' /\ ~HasRec'
    BY <1>c, <1>g, <2>1, <2>2 DEF Working, ExecPoints
  <2>4. Local'
    BY <2>1, <2>3 DEF Local, Working, ExecPoints, Placing, Displacing
  <2>. QED
    BY <2>3, <2>4 DEF Settling
<1>4. CASE OpenTemp
  <2>1. CASE StopWith("fail")
    BY <1>h, <2>1
  <2>2. CASE run' = [run EXCEPT !.at = "copying", !.sv = src]
    <3>1. /\ run'.at = "copying" /\ run'.job = run.job /\ run'.todo = run.todo /\ run'.d = run.d
          /\ run'.retx = run.retx /\ run.at = "copy"
      BY <1>4, <1>b, <2>2 DEF RunType, OpenTemp
    <3>2. RetKnown
      BY <1>b, <3>1 DEF Local
    <3>3. /\ Global' /\ Swept' /\ NothingOpen' /\ SameDisp' /\ SameRet' /\ DispKnown'
          /\ IsPut' /\ RetKnown'
      BY <1>c, <1>g, <3>1, <3>2 DEF Working, ExecPoints, RetKnown
    <3>4. Local'
      BY <3>1, <3>3 DEF Local, Working, ExecPoints, Placing, Displacing
    <3>. QED
      BY <3>3, <3>4 DEF Settling
  <2>. QED
    BY <1>4, <2>1, <2>2 DEF OpenTemp
<1>5. CASE FillTemp
  <2>1. CASE StopWith("fail")
    BY <1>h, <2>1
  <2>2. CASE Go("copied")
    <3>1. /\ run'.at = "copied" /\ run'.job = run.job /\ run'.todo = run.todo /\ run'.d = run.d
          /\ run'.retx = run.retx /\ run.at = "copying"
      BY <1>5, <1>b, <2>2, Moved DEF FillTemp
    <3>2. RetKnown
      BY <1>b, <3>1 DEF Local
    <3>3. /\ Global' /\ Swept' /\ NothingOpen' /\ SameDisp' /\ SameRet' /\ DispKnown'
          /\ IsPut' /\ RetKnown'
      BY <1>c, <1>g, <3>1, <3>2 DEF Working, ExecPoints, RetKnown
    <3>4. Local'
      BY <3>1, <3>3 DEF Local, Working, ExecPoints, Placing, Displacing
    <3>. QED
      BY <3>3, <3>4 DEF Settling
  <2>. QED
    BY <1>5, <2>1, <2>2 DEF FillTemp
<1>6. CASE Keep
  <2>a. run.at = "keep" /\ RetKnown
    BY <1>6, <1>b DEF Keep, Local
  <2>1. CASE StopWith("fail")
    BY <1>h, <2>1
  <2>2. CASE run' = [run EXCEPT !.at = "displace", !.next = "commit"]
    <3>1. /\ run'.at = "displace" /\ run'.job = run.job /\ run'.todo = run.todo /\ run'.d = run.d
          /\ run'.next = "commit"
      BY <1>b, <2>2 DEF RunType
    <3>2. Global' /\ Swept' /\ NothingOpen' /\ SameDisp' /\ SameRet' /\ DispKnown' /\ IsPut'
      BY <1>c, <1>g, <2>a, <3>1 DEF Working, ExecPoints
    <3>3. Local'
      BY <3>1, <3>2 DEF Local, Working, ExecPoints, Placing, Displacing
    <3>. QED
      BY <3>2, <3>3 DEF Settling
  <2>3. CASE HasRec /\ ~run.retx /\ Go(IF D.ret = None THEN "choose" ELSE "intent")
    <3>1. /\ run'.at \in {"choose", "intent"} /\ run'.job = run.job /\ run'.todo = run.todo
          /\ run'.d = run.d
      BY <1>b, <2>3, Moved
    <3>2. ~At(D.ret) /\ ~Loose(D.ret) /\ ~Loose(rec.intent)
      BY <1>f, <2>a, <2>3 DEF RetKnown, Loose
    <3>3. /\ Global' /\ Swept' /\ NothingOpen' /\ SameDisp' /\ SameRet' /\ DispKnown'
          /\ ~Loose(D.ret)' /\ ~Loose(rec.intent)' /\ ~At(D.ret)'
      BY <1>g, <3>1, <3>2 DEF Working, ExecPoints
    <3>4. run'.at = "choose" => rec'.intent = None
      <4>1. run'.at = "choose" => D.ret = None
        BY <1>b, <2>3, Moved
      <4>. QED
        BY <1>b, <1>c, <1>d, <2>3, <2>a, <4>1, OwnPutIntent
    <3>5. Local'
      BY <3>1, <3>3, <3>4 DEF Local, Working, ExecPoints, Placing, Displacing
    <3>. QED
      BY <3>3, <3>5 DEF Settling
  <2>4. CASE run' = [run EXCEPT !.at = "commit", !.kept = HasRec /\ run.retx, !.free = live = None]
    <3>1. /\ run'.at = "commit" /\ run'.job = run.job /\ run'.todo = run.todo /\ run'.d = run.d
          /\ run'.kept = (HasRec /\ run.retx)
      BY <1>b, <2>4 DEF RunType
    <3>2. HasRec /\ Loose(rec.intent) => HasRec /\ run.retx
      BY <1>f, <2>a DEF RetKnown
    <3>3. /\ Global' /\ Swept' /\ NothingOpen' /\ SameDisp' /\ SameRet' /\ DispKnown' /\ IsPut'
          /\ KeptKnown'
      BY <1>c, <1>g, <2>a, <3>1, <3>2 DEF Working, ExecPoints, KeptKnown
    <3>4. Local'
      BY <3>1, <3>3 DEF Local, Working, ExecPoints, Placing, Displacing
    <3>. QED
      BY <3>3, <3>4 DEF Settling
  <2>. QED
    BY <1>6, <2>1, <2>2, <2>3, <2>4 DEF Keep
<1>7. CASE Retain
  <2>1. CASE Go("finish")
    <3>1. run'.at = "finish" /\ run'.job = run.job /\ run'.todo = run.todo /\ run'.d = run.d
      BY <1>b, <2>1, Moved
    <3>2. Global' /\ Swept' /\ NothingOpen' /\ SameDisp' /\ SameRet' /\ DispKnown'
      BY <1>g, <3>1 DEF Working, ExecPoints
    <3>3. Local'
      BY <3>1, <3>2 DEF Local, Working, ExecPoints, Placing, Displacing
    <3>. QED
      BY <3>2, <3>3 DEF Settling
  <2>2. CASE run' = [run EXCEPT !.at = "retained", !.kept = TRUE]
    <3>1. /\ run'.at = "retained" /\ run'.job = run.job /\ run'.todo = run.todo /\ run'.d = run.d
          /\ run'.kept = TRUE
      BY <1>b, <2>2 DEF RunType
    <3>2. Global' /\ Swept' /\ NothingOpen' /\ SameDisp' /\ SameRet' /\ DispKnown' /\ KeptKnown'
      BY <1>g, <3>1 DEF Working, ExecPoints, KeptKnown
    <3>3. Local'
      BY <3>1, <3>2 DEF Local, Working, ExecPoints, Placing, Displacing
    <3>. QED
      BY <3>2, <3>3 DEF Settling
  <2>3. CASE /\ Unchanged /\ ~(D.ret # None /\ live = None /\ At(D.ret))
             /\ run' = [run EXCEPT !.kept = FALSE,
                            !.at = IF live = None THEN "retained"
                                   ELSE IF D.ret = None THEN "choose" ELSE "intent"]
    <3>1. /\ run'.job = run.job /\ run'.todo = run.todo /\ run'.d = run.d
          /\ run'.at = IF live = None THEN "retained" ELSE IF D.ret = None THEN "choose" ELSE "intent"
      BY <1>b, <2>3 DEF RunType
    <3>2. HasRec /\ item[J].act = "retain" /\ Pending(J)
      BY <1>7, <1>b, <2>3 DEF Unchanged, AtPoints, Retain, SameDisp
    <3>3. ~Loose(D.ret)
      <4>1. CASE live = None
        BY <1>e, <2>3, <4>1 DEF Loose, At
      <4>2. CASE live # None
        BY <1>b, <3>2, <4>2 DEF Global, Carried, SameRet
      <4>. QED
        BY <4>1, <4>2
    <3>4. ~Loose(rec.intent)
      BY <1>f, <3>2, <3>3
    <3>5. run'.at \in {"retained", "choose", "intent"}
      BY <3>1
    <3>6. /\ Global' /\ Swept' /\ NothingOpen' /\ SameDisp' /\ SameRet' /\ DispKnown'
          /\ ~Loose(D.ret)' /\ ~Loose(rec.intent)' /\ KeptKnown' /\ ~IsPut'
      BY <1>g, <3>1, <3>2, <3>3, <3>4, <3>5 DEF Working, ExecPoints, KeptKnown, IsPut
    <3>7. Local'
      BY <3>5, <3>6 DEF Local, Working, ExecPoints, Placing, Displacing
    <3>. QED
      BY <3>6, <3>7 DEF Settling
  <2>. QED
    BY <1>7, <2>1, <2>2, <2>3 DEF Retain
<1>8. CASE PutBackNothing
  <2>1. run'.at = "clean" /\ run'.job = run.job /\ run'.todo = run.todo /\ run'.d = run.d
    BY <1>8, <1>b, Moved DEF PutBackNothing
  <2>2. Global' /\ Swept' /\ NothingOpen' /\ SameDisp' /\ SameRet' /\ DispKnown'
    BY <1>g, <2>1 DEF Working
  <2>3. Local'
    BY <2>1, <2>2 DEF Local, Working, ExecPoints, Placing, Displacing
  <2>. QED
    BY <2>2, <2>3 DEF Settling
<1>. QED
    BY <1>1, <1>2, <1>3, <1>4, <1>5, <1>6, <1>7, <1>8

\* The detail is saved.
LEMMA Saved ==
    ASSUME TypeOK, AtPoints, run.at \in Working, NEW e \in DetailType, Save(e), NEW j \in Jobs, j = J
    PROVE  /\ item'[j] # None /\ item'[j].act = item[j].act /\ item'[j].st = item[j].st
           /\ item'[j].d = e
           /\ \A i \in Jobs \ {j} : item'[i] = item[i]
<1>1. J \in Jobs /\ item[J] # None
    BY Executing DEF Working
<1>2. /\ item'[J].act = item[J].act /\ item'[J].st = item[J].st /\ item'[J].d = e
      /\ item'[J] \in ItemType /\ \A i \in Jobs \ {J} : item'[i] = item[i]
    BY <1>1, SaveTyped
<1>. QED
    BY <1>2, NoneAssumption

\* A file of the running job's own directory that no row records.
LEMMA OwnLoose ==
    ASSUME TypeOK, Global, SameDisp, J \in Jobs, NEW s \in Slots, s[1] = J, Loose(s)
    PROVE  /\ Intended(s) \/ D.disp = s
           /\ Intended(s) => item[J].d.ret = s
BY DEF Global, Accounted, IntentKnown, SameDisp

\* The path that the running job's own item intends to use.
LEMMA OwnIntended ==
    ASSUME TypeOK, Global, J \in Jobs, NEW s \in Slots, s[1] = J, Intended(s), item[J].act = "put"
    PROVE  item[J].d.ret = s
BY DEF Global, IntentKnown

\* The item's detail, or its state, is written.
LEMMA SettlingSaves ==
    ASSUME TypeOK, TypeOK', AtPoints, Settling,
           NameTemp \/ TempDone \/ Choose \/ Displace \/ Finish \/ ItemFailed
    PROVE  Settling'
<1>a. run.at \in {"write", "copied", "choose", "displace", "finish", "clean"}
    BY DEF NameTemp, TempDone, Choose, Displace, Finish, ItemFailed
<1>b. /\ run \in RunType /\ Swept /\ Global /\ Local /\ run.at \in Working
      /\ run.at \in Working \cup {"ready", "expired"} /\ J \in Jobs /\ J = run.job
      /\ NothingOpen /\ SameDisp /\ DispKnown /\ item[J] # None /\ item[J].st = "pending"
    BY <1>a, Shapes DEF Settling, AtPoints, Local, Working, ExecPoints, J, SameDisp, Pending
<1>c. run.at \in {"write", "copied", "displace"} => IsPut
    BY <1>b DEF Local, Placing, Displacing
<1>d. run.at # "choose" => SameRet
    BY <1>b DEF Local
<1>e. PICK j \in Jobs : j = J
    BY <1>b
<1>f. /\ item[j].d.ret \in Slots \cup {None} /\ item[j].d.disp \in Slots \cup {None}
      /\ None \notin Slots /\ ~At(None) /\ ~Loose(None)
      /\ D.ret \in Slots \cup {None} /\ D.disp \in Slots \cup {None}
      /\ item[j].act \in {"put", "retain"} /\ D \in DetailType
    BY <1>b, <1>e, Shapes, RunFields DEF Loose, ItemType
<1>g. /\ item[j].d.ret # None => item[j].d.ret[1] = j
      /\ item[j].d.disp # None => item[j].d.disp[1] = j
      /\ item[j].act = "retain" => item[j].d.disp = None
    BY <1>b, <1>e DEF Global, OwnSlots
\* The part of the job's knowledge that does not depend on its item.
<1>h. ASSUME ret' = ret, rows' = rows, rec' = rec, run'.job = run.job,
             run'.d.disp = run.d.disp, run'.at \in Working \cup {"ready"}, run'.todo = run.todo, Calm
      PROVE  NothingOpen' /\ DispKnown' /\ Swept'
  <2>1. NothingOpen' /\ DispKnown'
    BY <1>b, <1>h DEF NothingOpen, DispKnown, Loose, At, RowAt, Intended, HasRec, J, D
  <2>2. Swept'
    BY <1>b, <1>h, SweptOn DEF Working, ExecPoints, Sweeping
  <2>. QED
    BY <2>1, <2>2
<1>1. ASSUME NEW e \in DetailType, e.ret = D.ret, e.disp = D.disp, Save(e),
             run.at \in {"write", "copied"}, run'.job = run.job, run'.d = e, run'.todo = run.todo,
             run'.retx = run.retx, run'.at \in {"copy", "keep"}, UNCHANGED <<live, ret, rows, rec>>
      PROVE  Settling'
  <2>1. /\ item'[j] # None /\ item'[j].act = item[j].act /\ item'[j].st = item[j].st
        /\ item'[j].d = e /\ \A i \in Jobs \ {j} : item'[i] = item[i]
    BY <1>1, <1>b, <1>e, Saved
  <2>2. e.ret = item[j].d.ret /\ e.disp = item[j].d.disp
    BY <1>1, <1>b, <1>d, <1>e DEF SameRet, SameDisp
  <2>3. \A s \in Slots : (Loose(s)' <=> Loose(s)) /\ (RowAt(s) => RowAt(s)')
    BY <1>1 DEF Loose, At, RowAt
  <2>4. \A s \in Slots : s[1] = j /\ Loose(s)' =>
            /\ Intended(s) \/ (item'[j].st = "pending" /\ item'[j].d.disp = s)
            /\ Intended(s) => item'[j].d.ret = s
    BY <1>b, <1>e, <2>1, <2>2, <2>3, OwnLoose DEF SameDisp
  <2>5. item'[j].act # "retain" /\ item[j].act = "put"
    BY <1>1, <1>c, <1>e, <2>1 DEF IsPut
  <2>i. \A s \in Slots : s[1] = j /\ Intended(s) => item'[j].d.ret = s
    BY <1>b, <1>e, <2>1, <2>2, <2>5, OwnIntended
  <2>6. Global' /\ Calm
    BY <1>1, <1>b, <1>g, <2>1, <2>2, <2>3, <2>4, <2>5, <2>i, GlobalItem
  <2>7. NothingOpen' /\ DispKnown' /\ Swept'
    BY <1>1, <1>h, <2>6 DEF Working, ExecPoints, D
  <2>8. SameDisp' /\ SameRet' /\ IsPut'
    BY <1>1, <1>b, <1>c, <1>e, <2>1 DEF SameDisp, SameRet, IsPut, Pending, J, D
  <2>9. RetKnown'
    <3>1. RetKnown
      BY <1>1, <1>b DEF Local
    <3>. QED
      BY <1>1, <3>1 DEF RetKnown, HasRec, At, D
  <2>10. Local'
    BY <1>1, <2>7, <2>8, <2>9 DEF Local, Working, ExecPoints, Placing, Displacing
  <2>. QED
    BY <2>6, <2>7, <2>10 DEF Settling
<1>2. CASE NameTemp
  <2>1. PICK e \in DetailType : e = [D EXCEPT !.temp = TRUE, !.done = FALSE]
    BY <1>f DEF DetailType
  <2>2. e.ret = D.ret /\ e.disp = D.disp
    BY <1>f, <2>1 DEF DetailType
  <2>3. /\ Save(e) /\ run' = [run EXCEPT !.at = "copy", !.d = e] /\ run.at = "write"
        /\ UNCHANGED <<live, ret, rows, rec>>
    BY <1>2, <2>1 DEF NameTemp, disk
  <2>4. /\ run'.job = run.job /\ run'.d = e /\ run'.todo = run.todo
        /\ run'.retx = run.retx /\ run'.at = "copy"
    BY <1>b, <2>3 DEF RunType
  <2>. QED
    BY <1>1, <2>2, <2>3, <2>4
<1>3. CASE TempDone
  <2>1. PICK e \in DetailType : e = [D EXCEPT !.done = TRUE, !.tv = run.sv]
    BY <1>f, RunFields DEF DetailType
  <2>2. e.ret = D.ret /\ e.disp = D.disp
    BY <1>f, <2>1 DEF DetailType
  <2>3. /\ Save(e) /\ run' = [run EXCEPT !.at = "keep", !.d = e] /\ run.at = "copied"
        /\ UNCHANGED <<live, ret, rows, rec>>
    BY <1>3, <2>1 DEF TempDone, disk
  <2>4. /\ run'.job = run.job /\ run'.d = e /\ run'.todo = run.todo
        /\ run'.retx = run.retx /\ run'.at = "keep"
    BY <1>b, <2>3 DEF RunType
  <2>. QED
    BY <1>1, <2>2, <2>3, <2>4
<1>4. CASE Choose
  <2>a. run.at = "choose" /\ HasRec /\ ~Loose(rec.intent) /\ (IsPut => rec.intent = None)
    BY <1>4, <1>b DEF Choose, AtPoints, Local
  <2>b. PICK t \in Slots : t = RetentionTarget
    BY <1>4, <1>b, TargetFree DEF Choose
  <2>c. ret[t] = None /\ t[1] = j
    BY <1>4, <1>b, <1>e, <2>b, TargetFree DEF Choose, RetentionTarget
  <2>1. PICK e : /\ e = [D EXCEPT !.ret = t, !.rv = live.c, !.rh = Description.h, !.why = Description.why]
                 /\ Save(e) /\ run' = [run EXCEPT !.at = "intent", !.d = e]
    BY <1>4, <2>b DEF Choose
  <2>2. run'.job = run.job /\ run'.d = e /\ run'.todo = run.todo /\ run'.at = "intent"
    BY <1>b, <2>1 DEF RunType
  <2>3. e \in DetailType
    BY <2>2 DEF TypeOK, RunType
  <2>4. e.ret = t /\ e.disp = D.disp
    BY <1>f, <2>1 DEF DetailType
  <2>5. UNCHANGED <<live, ret, rows, rec>>
    BY <1>4 DEF Choose, disk
  <2>6. /\ item'[j] # None /\ item'[j].act = item[j].act /\ item'[j].st = item[j].st
        /\ item'[j].d = e /\ \A i \in Jobs \ {j} : item'[i] = item[i]
    BY <1>b, <1>e, <2>1, <2>3, Saved
  <2>7. \A s \in Slots : (Loose(s)' <=> Loose(s)) /\ (RowAt(s) => RowAt(s)')
    BY <2>5 DEF Loose, At, RowAt
  <2>8. \A s \in Slots : s[1] = j /\ Loose(s)' =>
            /\ item'[j].st = "pending" /\ item'[j].d.disp = s
            /\ ~Intended(s)
    BY <1>b, <1>e, <2>a, <2>4, <2>6, <2>7, OwnLoose DEF Intended
  <2>9. ~Loose(item[j].d.ret)'
    BY <2>c, <2>4, <2>5, <2>6 DEF Loose, At
  <2>10. e.disp = item[j].d.disp
    BY <1>b, <1>e, <2>4 DEF SameDisp
  <2>i. \A s \in Slots : Intended(s) => item'[j].act # "put"
    BY <1>e, <1>f, <2>6, <2>a DEF Intended, IsPut
  <2>11. Global' /\ Calm
    BY <1>b, <1>g, <2>4, <2>5, <2>6, <2>7, <2>8, <2>9, <2>10, <2>c, <2>i, GlobalItem
  <2>12. NothingOpen' /\ DispKnown' /\ Swept'
    BY <1>h, <2>2, <2>4, <2>5, <2>11 DEF Working, ExecPoints, D
  <2>13. SameDisp' /\ SameRet'
    BY <1>b, <1>e, <2>2, <2>6 DEF SameDisp, SameRet, Pending, J, D
  <2>14. ~Loose(rec.intent)' /\ ~Loose(D.ret)' /\ ~At(D.ret)'
    BY <2>2, <2>4, <2>5, <2>a, <2>c DEF Loose, At, RowAt, D
  <2>15. Local'
    BY <2>2, <2>12, <2>13, <2>14 DEF Local, Working, ExecPoints, Placing, Displacing
  <2>. QED
    BY <2>11, <2>12, <2>15 DEF Settling
<1>5. CASE Displace
  <2>a. run.at = "displace" /\ IsPut /\ SameRet
    BY <1>5, <1>c, <1>d DEF Displace
  <2>b. PICK t \in Slots : t = RetentionTarget
    BY <1>5, <1>b, TargetFree DEF Displace
  <2>c. ret[t] = None /\ t[1] = j
    BY <1>5, <1>b, <1>e, <2>b, TargetFree DEF Displace, RetentionTarget
  <2>1. PICK e : /\ e = IF D.disp = None \/ At(D.disp) THEN [D EXCEPT !.disp = t, !.dv = live.c] ELSE D
                 /\ Save(e) /\ run' = [run EXCEPT !.at = "displaceFS", !.d = e]
    BY <1>5, <2>b DEF Displace
  <2>2. /\ run'.job = run.job /\ run'.d = e /\ run'.todo = run.todo /\ run'.at = "displaceFS"
        /\ run'.next = run.next
    BY <1>b, <2>1 DEF RunType
  <2>3. e \in DetailType
    BY <2>2 DEF TypeOK, RunType
  <2>4. e.ret = D.ret /\ (e.disp = t \/ (e.disp = D.disp /\ D.disp # None /\ ~At(D.disp)))
    BY <1>f, <2>1 DEF DetailType
  <2>5. UNCHANGED <<live, ret, rec>>
    BY <1>5 DEF Displace, disk
  <2>6. /\ item'[j] # None /\ item'[j].act = item[j].act /\ item'[j].st = item[j].st
        /\ item'[j].d = e /\ \A i \in Jobs \ {j} : item'[i] = item[i]
    BY <1>b, <1>e, <2>1, <2>3, Saved
  <2>7. \A s : (RowAt(s) \/ (At(s) /\ s = D.disp)) => RowAt(s)'
    BY <1>5, DisplacedRecorded DEF Displace
  <2>8. \A s \in Slots : Loose(s)' => Loose(s) /\ s # D.disp
    BY <2>5, <2>7 DEF Loose, At
  <2>9. \A s \in Slots : s[1] = j /\ Loose(s)' => Intended(s) /\ item'[j].d.ret = s
    BY <1>b, <1>e, <2>a, <2>4, <2>6, <2>8, OwnLoose DEF SameRet
  <2>10. item'[j].act # "retain" /\ e.ret = item[j].d.ret
    BY <1>e, <2>a, <2>4, <2>6 DEF IsPut, SameRet
  <2>11. e.disp # None => e.disp[1] = j
    BY <1>b, <1>e, <1>g, <2>4, <2>c DEF SameDisp
  <2>i. \A s \in Slots : s[1] = j /\ Intended(s) => item'[j].d.ret = s
    BY <1>b, <1>e, <2>6, <2>10, <2>a, OwnIntended DEF IsPut
  <2>12. Global' /\ Calm
    BY <1>b, <1>g, <2>5, <2>6, <2>7, <2>9, <2>10, <2>11, <2>i, GlobalItem
  <2>13. Swept'
    BY <1>b, <2>2, <2>12, SweptOn DEF Working, ExecPoints, Sweeping
  <2>14. NothingOpen' /\ SameDisp' /\ SameRet' /\ IsPut'
    BY <1>b, <1>e, <2>2, <2>5, <2>6, <2>a DEF NothingOpen, SameDisp, SameRet, IsPut, Pending, J, D, HasRec
  <2>15. DispKnown'
    <3>1. ret'[e.disp] = None \/ ~At(e.disp)
      BY <2>4, <2>5, <2>c
    <3>. QED
      BY <2>2, <2>5, <3>1 DEF DispKnown, Loose, At, D
  <2>16. run'.next = "write" => ~HasRec'
    BY <1>b, <2>2, <2>5, <2>a DEF Local, Displacing, HasRec
  <2>17. Local'
    BY <2>2, <2>14, <2>15, <2>16 DEF Local, Working, ExecPoints, Placing, Displacing
  <2>. QED
    BY <2>12, <2>13, <2>17 DEF Settling
<1>6. CASE Finish \/ ItemFailed
  <2>1. PICK st \in {"done", "failed"} : item' = [item EXCEPT ![J].st = st]
    BY <1>6 DEF Finish, ItemFailed
  <2>2. /\ run'.at = "ready" /\ run'.job = run.job /\ run'.todo = run.todo /\ run'.d = run.d
        /\ UNCHANGED <<live, ret, rows, rec>> /\ run.at # "choose"
    BY <1>6, <1>b, Moved DEF Finish, ItemFailed, disk
  <2>3. /\ item'[j] = [item[j] EXCEPT !.st = st] /\ \A i \in Jobs \ {j} : item'[i] = item[i]
    BY <1>e, <2>1, Shapes
  <2>4. item[j] \in ItemType
    BY <1>b, <1>e, Shapes
  <2>5. /\ item'[j].act = item[j].act /\ item'[j].st = st /\ item'[j].d = item[j].d
        /\ item'[j] \in ItemType
    BY <2>1, <2>3, <2>4 DEF ItemType
  <2>6. item'[j] # None
    BY <2>5, NoneAssumption
  <2>7. \A s \in Slots : (Loose(s)' <=> Loose(s)) /\ (RowAt(s) => RowAt(s)')
    BY <2>2 DEF Loose, At, RowAt
  <2>8. \A s \in Slots : s[1] = j /\ Loose(s)' => Intended(s) /\ item'[j].d.ret = s
    BY <1>b, <1>e, <2>5, <2>7, OwnLoose DEF DispKnown
  <2>i. \A s \in Slots : s[1] = j /\ Intended(s) /\ item'[j].act = "put" => item'[j].d.ret = s
    BY <1>b, <1>e, <2>5, OwnIntended
  <2>9. Global' /\ Calm
    BY <1>b, <1>g, <2>1, <2>2, <2>3, <2>5, <2>6, <2>7, <2>8, <2>i, GlobalItem
  <2>10. NothingOpen' /\ Swept'
    BY <1>h, <2>2, <2>9
  <2>11. Local'
    BY <2>2, <2>10 DEF Local, Working, ExecPoints, Placing, Displacing
  <2>. QED
    BY <2>9, <2>10, <2>11 DEF Settling
<1>. QED
    BY <1>2, <1>3, <1>4, <1>5, <1>6

\* A retained path of the running job's own directory is filled with the file at the path.
LEMMA SettlingFills ==
    ASSUME TypeOK, AtPoints, Settling, DisplaceFS \/ KeepFS
    PROVE  Settling'
<1>a. run.at \in {"displaceFS", "keepFS"}
    BY DEF DisplaceFS, KeepFS
<1>b. /\ run \in RunType /\ Swept /\ Global /\ Local /\ run.at \in Working
      /\ run.at \in Working \cup {"ready", "expired"} /\ J \in Jobs /\ J = run.job
      /\ NothingOpen /\ SameDisp /\ SameRet /\ DispKnown
    BY <1>a, Shapes DEF Settling, AtPoints, Local, Working, ExecPoints, J
<1>c. /\ item[J] # None /\ item[J].st = "pending" /\ Pending(J)
      /\ D.ret \in Slots \cup {None} /\ D.disp \in Slots \cup {None}
      /\ ret \in [Slots -> Files \cup {None}] /\ None \notin Slots /\ ~At(None)
      /\ item[J].act \in {"put", "retain"}
    BY <1>b, Shapes DEF SameDisp, Pending, ItemType
\* Slot t of the directory is filled, and the item or the intent knows of it.
<1>1. ASSUME NEW t \in Slots, t[1] = J, ret' = [ret EXCEPT ![t] = live],
             live' = None \/ (live' = live /\ item[J].act = "put"),
             rec' = rec, rows' = rows, item' = item,
             D.disp = t \/ Intended(t), Intended(t) => D.ret = t,
             run'.job = run.job, run'.todo = run.todo, run'.at \in Working
      PROVE  Global' /\ Swept'
  <2>1. \A s \in Slots : (RowAt(s)' <=> RowAt(s)) /\ (Intended(s)' <=> Intended(s))
    BY <1>1 DEF RowAt, Intended, HasRec
  <2>2. \A s \in Slots : s # t /\ Loose(s)' => Loose(s)
    BY <1>1, <1>c, <2>1 DEF Loose, At
  <2>3. Accounted'
    <3>. SUFFICES ASSUME NEW s \in Slots, Loose(s)'
                  PROVE  Intended(s)' \/ (Pending(s[1])' /\ item'[s[1]].d.disp = s)
      BY DEF Accounted
    <3>1. CASE s = t
      BY <1>1, <1>b, <1>c, <2>1, <3>1 DEF Pending, SameDisp
    <3>2. CASE s # t
      BY <1>1, <1>b, <2>1, <2>2, <3>2 DEF Global, Accounted, Pending
    <3>. QED
      BY <3>1, <3>2
  <2>4. IntentKnown'
    <3>. SUFFICES ASSUME NEW s \in Slots, Intended(s)'
                  PROVE  /\ item'[s[1]] # None
                         /\ Loose(s)' \/ item'[s[1]].act = "put" => item'[s[1]].d.ret = s
      BY DEF IntentKnown
    <3>1. CASE s = t
      BY <1>1, <1>b, <1>c, <2>1, <3>1 DEF SameRet
    <3>2. CASE s # t
      BY <1>1, <1>b, <2>1, <2>2, <3>2 DEF Global, IntentKnown
    <3>. QED
      BY <3>1, <3>2
  <2>5. OwnSlots'
    BY <1>1, <1>b DEF Global, OwnSlots
  <2>6. Carried'
    <3>. SUFFICES ASSUME live' = live, item[J].act = "put",
                         NEW i \in Jobs, Pending(i)', item'[i].act = "retain", Loose(item[i].d.ret)'
                  PROVE  live' = None
      BY <1>1 DEF Carried
    <3>1. Pending(i) /\ item[i].act = "retain" /\ item[i] # None /\ i # J
      BY <1>1 DEF Pending
    <3>2. item[i].d.ret \in Slots \cup {None}
      BY <3>1, Shapes
    <3>3. PICK s \in Slots : s = item[i].d.ret
      BY <1>1, <1>c, <3>2 DEF Loose, At
    <3>4. Loose(s)'
      BY <1>1, <3>3 DEF Loose, At, RowAt
    <3>5. s[1] = i
      BY <1>b, <1>c, <3>1, <3>3 DEF Global, OwnSlots
    <3>6. Loose(s)
      BY <1>1, <2>2, <3>1, <3>4, <3>5
    <3>. QED
      BY <1>1, <1>b, <3>1, <3>3, <3>6 DEF Global, Carried
  <2>7. Swept'
    <3>1. run.todo = {} /\ run'.at \notin {"sweepPlaced", "sweepTemp"} /\ run.at # "idle"
      BY <1>1, <1>a, <1>b DEF Swept, SweptAll, Sweeping, Working, ExecPoints
    <3>2. \A s \in Slots : Loose(s)' /\ s[1] # J => Loose(s) /\ (Intended(s) => Intended(s)')
      BY <1>1, <2>1, <2>2
    <3>. QED
      BY <1>1, <1>b, <3>1, <3>2, SweptCalm
  <2>. QED
    BY <2>3, <2>4, <2>5, <2>6, <2>7 DEF Global
<1>2. CASE DisplaceFS
  <2>1. /\ run.at = "displaceFS" /\ run'.at = "displaced" /\ run'.job = run.job /\ run'.todo = run.todo
        /\ run'.d = run.d /\ run'.next = run.next
        /\ ret' = [ret EXCEPT ![D.disp] = live] /\ live' = None
        /\ rec' = rec /\ rows' = rows /\ item' = item
    BY <1>2, <1>b, Moved DEF DisplaceFS, base
  <2>2. IsPut /\ D.disp # None /\ (run.next = "write" => ~HasRec)
    BY <1>b, <2>1 DEF Local, Placing, Displacing, AtPoints
  <2>3. D.disp \in Slots /\ D.disp[1] = J
    BY <1>b, <1>c, <2>2 DEF SameDisp, Global, OwnSlots
  <2>4. Intended(D.disp) => D.ret = D.disp
    BY <1>b, <2>2, <2>3, OwnIntended DEF IsPut, SameRet
  <2>5. PICK t \in Slots : t = D.disp
    BY <2>3
  <2>6. Global' /\ Swept'
    BY <1>1, <2>1, <2>3, <2>4, <2>5 DEF Working, ExecPoints
  <2>7. NothingOpen' /\ SameDisp' /\ SameRet' /\ IsPut'
    BY <1>b, <2>1, <2>2 DEF NothingOpen, SameDisp, SameRet, IsPut, Pending, J, D, HasRec
  <2>8. run'.next = "write" => ~HasRec'
    BY <2>1, <2>2 DEF HasRec
  <2>9. Local'
    BY <2>1, <2>7, <2>8 DEF Local, Working, ExecPoints, Placing, Displacing
  <2>. QED
    BY <2>6, <2>9 DEF Settling
<1>3. CASE KeepFS
  <2>a. /\ run.at = "keepFS" /\ rec' = rec /\ rows' = rows /\ item' = item
        /\ HasRec /\ D.ret # None /\ rec.intent = D.ret /\ ~Loose(D.ret) /\ (IsPut => ~At(D.ret))
    BY <1>3, <1>b DEF KeepFS, base, Local, AtPoints
  <2>1. CASE At(D.ret)
    <3>1. /\ run' = [run EXCEPT !.at = "choose", !.d.ret = None] /\ UNCHANGED <<live, ret>>
      BY <1>3, <2>1 DEF KeepFS
    <3>2. /\ run'.at = "choose" /\ run'.job = run.job /\ run'.todo = run.todo
          /\ run'.d = [run.d EXCEPT !.ret = None]
      BY <1>b, <3>1 DEF RunType
    <3>3. run'.d.disp = run.d.disp
      BY <3>2, RunFields DEF D, DetailType
    <3>4. Global' /\ Swept'
      BY <1>b, <2>a, <3>1, <3>2, StepFramed DEF Working, ExecPoints
    <3>5. NothingOpen' /\ SameDisp' /\ DispKnown' /\ ~IsPut'
      BY <1>b, <2>1, <2>a, <3>1, <3>2, <3>3
         DEF NothingOpen, SameDisp, DispKnown, IsPut, Pending, J, D, HasRec, Loose, At, RowAt, Intended
    <3>6. ~Loose(rec.intent)'
      BY <2>a, <3>1 DEF Loose, At, RowAt
    <3>7. Local'
      BY <3>2, <3>5, <3>6 DEF Local, Working, ExecPoints, Placing, Displacing
    <3>. QED
      BY <3>4, <3>7 DEF Settling
  <2>2. CASE ~At(D.ret)
    <3>1. /\ ret' = [ret EXCEPT ![D.ret] = live]
          /\ live' = IF world.hardlinks /\ item[J].act = "put" THEN live ELSE None
          /\ run' = [run EXCEPT !.at = IF item[J].act = "put" THEN "commit" ELSE "retained",
                                !.kept = TRUE, !.free = live' = None]
      BY <1>3, <2>2 DEF KeepFS
    <3>2. /\ run'.at = IF item[J].act = "put" THEN "commit" ELSE "retained"
          /\ run'.job = run.job /\ run'.todo = run.todo /\ run'.d = run.d /\ run'.kept = TRUE
      BY <1>b, <3>1 DEF RunType
    <3>3. D.ret \in Slots /\ D.ret[1] = J
      BY <1>b, <1>c, <2>a DEF SameRet, Global, OwnSlots
    <3>4. PICK t \in Slots : t = D.ret
      BY <3>3
    <3>5. live' = None \/ (live' = live /\ item[J].act = "put")
      BY <3>1
    <3>6. run'.at \in {"commit", "retained"} /\ (run'.at = "commit" => IsPut)
      BY <3>2 DEF IsPut
    <3>7. Global' /\ Swept'
      BY <1>1, <2>a, <3>1, <3>2, <3>3, <3>4, <3>5, <3>6 DEF Working, ExecPoints, Intended
    <3>8. NothingOpen' /\ SameDisp' /\ SameRet' /\ KeptKnown' /\ (run'.at = "commit" => IsPut')
      BY <1>b, <2>a, <3>2, <3>6
         DEF NothingOpen, SameDisp, SameRet, IsPut, KeptKnown, Pending, J, D, HasRec
    <3>9. DispKnown'
      <4>1. CASE D.disp = t
        BY <2>a, <3>2, <3>4, <4>1 DEF DispKnown, Intended, HasRec, D
      <4>2. CASE D.disp # t
        <5>1. Loose(D.disp)' => Loose(D.disp)
          BY <1>c, <2>a, <3>1, <3>2, <3>4, <4>2 DEF Loose, At, RowAt, D
        <5>2. Intended(D.disp) => Intended(D.disp)'
          BY <2>a, <3>2 DEF Intended, HasRec, D
        <5>. QED
          BY <1>b, <5>1, <5>2 DEF DispKnown
      <4>. QED
        BY <4>1, <4>2
    <3>10. Local'
      BY <3>6, <3>8, <3>9 DEF Local, Working, ExecPoints, Placing, Displacing
    <3>. QED
      BY <3>7, <3>10 DEF Settling
  <2>. QED
    BY <2>1, <2>2
<1>. QED
    BY <1>2, <1>3

\* The temp file is renamed into place; a stopped item's file is put back.
LEMMA SettlingMoves ==
    ASSUME TypeOK, AtPoints, Settling, OnlyCrashes, OnlyCrashes', Commit \/ PutBack
    PROVE  Settling'
<1>a. run.at \in {"commit", "putBack"}
    BY DEF Commit, PutBack
<1>b. /\ run \in RunType /\ Swept /\ Global /\ Local /\ run.at \in Working
      /\ run.at \in Working \cup {"ready", "expired"} /\ J \in Jobs /\ J = run.job
      /\ NothingOpen /\ SameDisp /\ SameRet /\ DispKnown
    BY <1>a, Shapes DEF Settling, AtPoints, Local, Working, ExecPoints, J
<1>1. CASE Commit
  <2>1. run.at = "commit" /\ ret' = ret /\ rec' = rec /\ rows' = rows /\ item' = item /\ IsPut /\ KeptKnown
    BY <1>1, <1>b DEF Commit, base, Local, Placing
  <2>2. /\ run'.at \in {"putBack", "record"} /\ run'.job = run.job /\ run'.todo = run.todo
        /\ run'.d = run.d /\ run'.kept = run.kept
    <3>1. CASE StopWith("fail")
      BY <1>b, <3>1 DEF StopWith, RunType
    <3>2. CASE Go("record")
      BY <1>b, <3>2, Moved
    <3>. QED
      BY <1>1, <3>1, <3>2 DEF Commit
  <2>3. Calm
    BY <2>1, CalmFramed DEF HasRec
  <2>4. \A i \in Jobs : Pending(i) /\ item[i].act = "retain" => ~Loose(item[i].d.ret)'
    <3>. SUFFICES ASSUME NEW i \in Jobs, Pending(i), item[i].act = "retain", Loose(item[i].d.ret)'
                  PROVE  FALSE
      OBVIOUS
    <3>1. item[i] # None /\ item[i].d.ret \in Slots \cup {None} /\ i # J
      BY <2>1, Shapes DEF Pending, IsPut
    <3>2. Loose(item[i].d.ret)
      BY <2>1 DEF Loose, At, RowAt
    <3>3. PICK s \in Slots : s = item[i].d.ret
      BY <3>1, <3>2, LooseSlot
    <3>4. s[1] = i
      BY <1>b, <3>1, <3>3, Shapes DEF Global, OwnSlots
    <3>5. Intended(s)
      BY <1>a, <1>b, <3>1, <3>2, <3>3, <3>4 DEF Swept, SweptSlots, SweptAll, Sweeping
    <3>. QED
      BY <1>b, <3>1, <3>4, <3>5, Shapes DEF NothingOpen, Intended
  <2>5. Global'
    BY <1>b, <2>1, <2>3, <2>4, GlobalPath
  <2>6. Swept'
    BY <1>b, <2>1, <2>2, <2>3, SweptOn DEF Sweeping
  <2>7. NothingOpen' /\ SameDisp' /\ SameRet' /\ IsPut' /\ DispKnown' /\ KeptKnown'
    BY <1>b, <2>1, <2>2, LocalFramed
  <2>8. Local'
    BY <2>2, <2>7 DEF Local, Working, ExecPoints, Placing, Displacing
  <2>. QED
    BY <2>5, <2>6, <2>8 DEF Settling
<1>2. CASE PutBack
  <2>1. HasRec /\ run.at = "putBack"
    BY <1>2 DEF PutBack, OwnIntent
  <2>2. /\ run'.at = "putBackDB" /\ run'.job = run.job /\ run'.d = run.d /\ run'.todo = run.todo
        /\ rec' = rec /\ rows' = rows /\ item' = item
        /\ At(rec.intent)' => run'.kept
        /\ \A s \in Slots : At(s)' => At(s)
        /\ Calm /\ Global'
    BY <1>2, <1>b, <2>1, SettleFSCalm DEF PutBack
  <2>3. Swept'
    BY <1>b, <2>1, <2>2, SweptOn DEF Sweeping
  <2>4. NothingOpen' /\ SameDisp' /\ SameRet'
    BY <1>b, <2>2 DEF NothingOpen, SameDisp, SameRet, Pending, J, D, HasRec
  <2>5. DispKnown'
    <3>1. PICK s \in Slots \cup {None} : s = D.disp
      BY Shapes
    <3>2. CASE s \in Slots
      <4>1. Loose(s)' => Intended(s)'
        BY <1>b, <2>2, <3>1, <3>2 DEF Calm, DispKnown
      <4>. QED
        BY <2>2, <3>1, <4>1 DEF DispKnown, D, Loose, At, RowAt, Intended, HasRec
    <3>3. CASE s = None
      BY <2>2, <3>1, <3>3 DEF DispKnown, D, Loose, At
    <3>. QED
      BY <3>2, <3>3
  <2>6. Local'
    BY <2>2, <2>4, <2>5 DEF Local, Working, ExecPoints, Placing, Displacing
  <2>. QED
    BY <2>2, <2>3, <2>6 DEF Settling
<1>. QED
    BY <1>1, <1>2

\* The record and the rows are written; what the record's intent named is recorded with it.
LEMMA SettlingRecords ==
    ASSUME TypeOK, AtPoints, Settling,
           Adopt \/ Displaced \/ Intent \/ Record \/ Retained \/ PutBackRecord
    PROVE  Settling'
<1>a. run.at \in {"way", "displaced", "intent", "record", "retained", "putBackDB"}
    BY DEF Adopt, Displaced, Intent, Record, Retained, PutBackRecord
<1>b. /\ run \in RunType /\ Swept /\ Global /\ Local /\ run.at \in Working
      /\ run.at \in Working \cup {"ready", "expired"} /\ J \in Jobs /\ J = run.job
      /\ NothingOpen /\ SameDisp /\ SameRet
    BY <1>a, Shapes DEF Settling, AtPoints, Local, Working, ExecPoints, J
<1>c. run.at # "displaced" => DispKnown
    BY <1>a, <1>b DEF Local, Working, ExecPoints
<1>d. HasRec /\ Loose(rec.intent) => rec.intent = D.ret
    BY <1>b, OwnIntentKnown
\* The intent is cleared, and the file it named is recorded.
<1>1. ASSUME NEW p \in {"finish", "clean"}, DispKnown,
             run'.at = p, run'.job = run.job, run'.todo = run.todo, run'.d = run.d,
             ret' = ret, item' = item, live' = live, HasRec' => rec'.intent = None,
             \A s \in Slots : RowAt(s) => RowAt(s)',
             \A s \in Slots : Loose(s) /\ Intended(s) => RowAt(s)'
      PROVE  Settling'
  <2>1. Calm
    BY <1>1, CalmCleared
  <2>2. Global' /\ Swept'
    BY <1>1, <1>b, <2>1, StepCalm DEF Working, ExecPoints
  <2>3. NothingOpen' /\ SameDisp' /\ SameRet'
    BY <1>1, <1>b DEF NothingOpen, SameDisp, SameRet, Pending, J, D
  <2>4. DispKnown'
    <3>1. PICK s \in Slots \cup {None} : s = D.disp
      BY Shapes
    <3>2. CASE s \in Slots
      <4>1. ~Loose(s)'
        BY <1>1, <2>1, <3>1, <3>2 DEF Calm, DispKnown, Loose
      <4>. QED
        BY <1>1, <3>1, <4>1 DEF DispKnown, D, Loose, At, RowAt
    <3>3. CASE s = None
      BY <1>1, <3>1, <3>3 DEF DispKnown, D, Loose, At
    <3>. QED
      BY <3>2, <3>3
  <2>5. Local'
    BY <1>1, <2>3, <2>4 DEF Local, Working, ExecPoints, Placing, Displacing
  <2>. QED
    BY <2>2, <2>5 DEF Settling
<1>2. CASE Adopt
  <2>1. /\ run.at = "way" /\ run'.at = "finish" /\ run'.job = run.job /\ run'.todo = run.todo
        /\ run'.d = run.d /\ ret' = ret /\ rows' = rows /\ item' = item /\ live' = live
        /\ rec'.intent = None
    BY <1>2, <1>b, Moved DEF Adopt, disk
  <2>2. ~HasRec /\ DispKnown
    BY <1>b, <1>c, <2>1 DEF Local
  <2>3. \A s \in Slots : (RowAt(s) => RowAt(s)') /\ ~Intended(s)
    BY <2>1, <2>2 DEF RowAt, Intended
  <2>. QED
    BY <1>1, <2>1, <2>2, <2>3
<1>3. CASE Record
  <2>1. /\ run.at = "record" /\ run'.at = "finish" /\ run'.job = run.job /\ run'.todo = run.todo
        /\ run'.d = run.d /\ ret' = ret /\ item' = item /\ live' = live /\ Placed(D, run.kept, J)
    BY <1>3, <1>b, Moved DEF Record, disk
  <2>2. KeptKnown /\ DispKnown /\ rec'.intent = None
    BY <1>b, <1>c, <2>1 DEF Local, Placed
  <2>3. \A s : (RowAt(s) \/ (run.kept /\ D.ret # None /\ s = D.ret)) => RowAt(s)'
    <3>1. CASE run.kept /\ D.ret # None
      BY <2>1, <3>1, RowRecorded DEF Placed
    <3>2. CASE ~(run.kept /\ D.ret # None)
      BY <2>1, <3>2 DEF Placed, RowAt
    <3>. QED
      BY <3>1, <3>2
  <2>4. \A s \in Slots : Loose(s) /\ Intended(s) => RowAt(s)'
    BY <1>d, <2>2, <2>3, Shapes DEF KeptKnown, Intended
  <2>. QED
    BY <1>1, <2>1, <2>2, <2>3, <2>4
<1>4. CASE Retained
  <2>1. /\ run.at = "retained" /\ run'.at = "finish" /\ run'.job = run.job /\ run'.todo = run.todo
        /\ run'.d = run.d /\ ret' = ret /\ item' = item /\ live' = live /\ rec' = None
        /\ rows' = IF run.kept THEN WithRow(Row(D.ret, D.rv, D.rh, D.why, rec.id)) ELSE rows
    BY <1>4, <1>b, Moved DEF Retained, disk
  <2>2. KeptKnown /\ DispKnown /\ ~HasRec'
    BY <1>b, <1>c, <2>1 DEF Local, HasRec
  <2>3. \A s : (RowAt(s) \/ (run.kept /\ s = D.ret)) => RowAt(s)'
    <3>1. CASE run.kept
      BY <2>1, <3>1, RowRecorded
    <3>2. CASE ~run.kept
      BY <2>1, <3>2 DEF RowAt
    <3>. QED
      BY <3>1, <3>2
  <2>4. \A s \in Slots : Loose(s) /\ Intended(s) => RowAt(s)'
    BY <1>d, <2>2, <2>3 DEF KeptKnown, Intended
  <2>. QED
    BY <1>1, <2>1, <2>2, <2>3, <2>4
<1>5. CASE PutBackRecord
  <2>1. HasRec /\ run.at = "putBackDB" /\ (At(rec.intent) => run.kept)
    BY <1>5, <1>b DEF PutBackRecord, AtPoints, Local
  <2>2. /\ run'.at = "clean" /\ run'.job = run.job /\ run'.d = run.d /\ run'.todo = run.todo
        /\ ret' = ret /\ live' = live /\ item' = item /\ rec'.intent = None
        /\ \A s : RowAt(s) => RowAt(s)'
        /\ \A s \in Slots : Loose(s)' => ~Intended(s)
    BY <1>5, <2>1, SettleDBCalm DEF PutBackRecord
  <2>3. \A s \in Slots : Loose(s) /\ Intended(s) => RowAt(s)'
    BY <2>2 DEF Loose, At
  <2>. QED
    BY <1>1, <1>c, <2>1, <2>2, <2>3
<1>6. CASE Displaced
  <2>1. /\ run.at = "displaced" /\ run'.at = run.next /\ run'.job = run.job /\ run'.todo = run.todo
        /\ run'.d = run.d /\ run'.kept = (run.next = "commit")
        /\ ret' = ret /\ rec' = rec /\ item' = item /\ live' = live
    BY <1>6, <1>b DEF Displaced, disk, RunType
  <2>2. \A t : (RowAt(t) \/ (At(t) /\ t = D.disp)) => RowAt(t)'
    BY <1>6, DisplacedRecorded DEF Displaced
  <2>3. run.next \in {"write", "commit"} /\ IsPut /\ (run.next = "write" => ~HasRec)
    BY <1>b, <2>1, RunFields DEF Local, Placing, Displacing, AtPoints
  <2>4. Calm
    BY <2>1, <2>2, CalmRows
  <2>5. Global' /\ Swept'
    BY <1>b, <2>1, <2>3, <2>4, StepCalm DEF Working, ExecPoints
  <2>6. NothingOpen' /\ SameDisp' /\ SameRet' /\ IsPut'
    BY <1>b, <2>1, <2>3 DEF NothingOpen, SameDisp, SameRet, IsPut, HasRec, J, D, Pending
  <2>7. DispKnown'
    BY <2>1, <2>2 DEF DispKnown, Loose, At, D
  <2>8. (run.next = "write" => RetKnown') /\ (run.next = "commit" => KeptKnown')
    BY <2>1, <2>3 DEF RetKnown, KeptKnown, HasRec
  <2>9. Local'
    BY <2>1, <2>3, <2>6, <2>7, <2>8 DEF Local, Working, ExecPoints, Placing, Displacing
  <2>. QED
    BY <2>5, <2>9 DEF Settling
<1>7. CASE Intent
  <2>1. /\ run.at = "intent" /\ run'.at = "keepFS" /\ run'.job = run.job /\ run'.todo = run.todo
        /\ run'.d = run.d /\ rec' = [rec EXCEPT !.intent = D.ret, !.why = D.why]
        /\ ret' = ret /\ rows' = rows /\ item' = item /\ live' = live
    BY <1>7, <1>b, Moved DEF Intent, disk
  <2>2. /\ HasRec /\ ~Loose(rec.intent) /\ ~Loose(D.ret) /\ (IsPut => ~At(D.ret)) /\ DispKnown
        /\ D.ret # None
    BY <1>b, <1>c, <2>1 DEF Local, AtPoints
  <2>3. rec \in RecType /\ D.ret \in Slots /\ D.why \in Whys
    BY <2>2, Shapes, RunFields
  <2>4. rec' \in RecType /\ rec'.intent = D.ret
    BY <2>1, <2>3 DEF RecType
  <2>5. HasRec'
    BY <2>4, NoneAssumption DEF HasRec
  <2>6. \A s : (Loose(s)' <=> Loose(s)) /\ (At(s)' <=> At(s))
    BY <2>1 DEF Loose, At, RowAt
  <2>7. \A s : Intended(s)' <=> s = D.ret
    BY <2>4, <2>5 DEF Intended
  <2>8. \A s : Loose(s) => ~Intended(s) /\ ~Intended(s)'
    BY <2>2, <2>7 DEF Intended
  <2>9. D.ret[1] = J /\ item[J] # None /\ item[J].d.ret = D.ret
    BY <1>b, <2>2 DEF SameRet, SameDisp, Pending, Global, OwnSlots
  <2>10. Accounted'
    BY <1>b, <2>1, <2>6, <2>8 DEF Global, Accounted, Pending
  <2>11. IntentKnown'
    BY <2>1, <2>7, <2>9 DEF IntentKnown
  <2>12. OwnSlots'
    BY <1>b, <2>1 DEF Global, OwnSlots
  <2>13. Carried'
    BY <1>b, <2>1 DEF Global, Carried, Pending, Loose, At, RowAt
  <2>14. Swept'
    <3>1. run.todo = {} /\ run.at # "idle"
      BY <1>b, <2>1 DEF Swept, SweptAll, Sweeping
    <3>2. \A s \in Slots : Loose(s)' /\ s[1] # J => Loose(s) /\ (Intended(s) => Intended(s)')
      BY <2>6, <2>8
    <3>. QED
      BY <1>b, <2>1, <3>1, <3>2, SweptCalm
  <2>15. NothingOpen' /\ SameDisp' /\ SameRet' /\ (rec.intent = D.ret)'
    BY <1>b, <2>1, <2>4, <2>9 DEF NothingOpen, SameDisp, SameRet, Pending, J, D
  <2>16. DispKnown'
    BY <2>1, <2>2, <2>8 DEF DispKnown, Loose, At, RowAt, D
  <2>17. ~Loose(D.ret)' /\ (IsPut' => ~At(D.ret)')
    BY <1>b, <2>1, <2>2 DEF IsPut, Loose, At, RowAt, D, J
  <2>18. Local'
    BY <2>1, <2>15, <2>16, <2>17 DEF Local, Working, ExecPoints, Placing, Displacing
  <2>. QED
    BY <2>10, <2>11, <2>12, <2>13, <2>14, <2>18 DEF Settling, Global
<1>. QED
    BY <1>2, <1>3, <1>4, <1>5, <1>6, <1>7

\* No operation that failed, and no change by somebody else, is undone.
LEMMA StaysDisturbed ==
    ASSUME TypeOK, [Next]_vars, OnlyCrashes'
    PROVE  /\ OnlyCrashes
           /\ ~Meddle /\ ~ReconcileFails /\ ~PutBackFails /\ \A how : ~Fail(how)
<1>1. bounds \in [crashes : Nat, errors : Nat, stuck : Nat, meddles : Nat]
    BY DEF TypeOK
<1>2. ~Meddle /\ ~ReconcileFails /\ ~PutBackFails /\ \A how : ~Fail(how)
    BY <1>1 DEF OnlyCrashes, Meddle, ReconcileFails, PutBackFails, Fail
<1>. SUFFICES OnlyCrashes
    BY <1>2
<1>3. CASE bounds' = bounds
    BY <1>3 DEF OnlyCrashes
<1>4. CASE Crash
    BY <1>1, <1>4 DEF OnlyCrashes, Crash
<1>5. CASE Settle \/ PutBack
    BY <1>1, <1>5 DEF OnlyCrashes, Settle, PutBack, SettleFS
<1>6. CASE Reconcile /\ ~Settle /\ ~ReconcileFails
    BY <1>3, <1>6 DEF Reconcile, SweepDisplaced, SweepPlaced, SweepTemp, SweepEnd, SettleRecord, SettleDB,
       SettleNothing
<1>7. CASE Sync
    BY <1>3, <1>7 DEF Sync, Plan, Begin, EarlierDisplace, NothingToDo
<1>8. CASE Place
    BY <1>3, <1>8 DEF Place, PutResumed, PutAnew, Adopt, InTheWay, Displace, DisplaceFS, Displaced, NameTemp,
       OpenTemp, FillTemp, TempDone, Keep, Choose, Intent, KeepFS, Commit, Record, Finish
<1>9. CASE Stop /\ ~PutBack /\ ~PutBackFails /\ \A how : ~Fail(how)
    BY <1>3, <1>9 DEF Stop, PutBackRecord, SettleDB, PutBackNothing, Salvage, Cancelled, ItemFailed
<1>10. CASE Other
    BY <1>3, <1>10 DEF Other, Verify, ExpireFile, ExpireRow, ExpireEnd
<1>11. CASE SourceChanges \/ SourceVanishes \/ Retain \/ Retained \/ UNCHANGED vars
    BY <1>3, <1>11 DEF SourceChanges, SourceVanishes, Retain, Retained, vars
<1>12. CASE \E j \in Jobs, k \in {"sync", "verify", "retention"} : Start(j, k)
    BY <1>3, <1>12 DEF Start
<1>. QED
    BY <1>2, <1>4, <1>5, <1>6, <1>7, <1>8, <1>9, <1>10, <1>11, <1>12 DEF Next

\* Every step keeps the unrecorded files accounted for.
LEMMA SettlingKept ==
    ASSUME TypeOK, TypeOK', AtPoints, SettleInv, [Next]_vars
    PROVE  SettleInv'
<1>. SUFFICES ASSUME OnlyCrashes' PROVE Settling'
    BY DEF SettleInv
<1>1. /\ OnlyCrashes /\ Settling
      /\ ~Meddle /\ ~ReconcileFails /\ ~PutBackFails /\ \A how : ~Fail(how)
    BY StaysDisturbed DEF SettleInv
<1>2. CASE SourceChanges \/ SourceVanishes \/ Crash \/ NothingToDo \/ ExpireEnd \/ Cancelled \/ Verify \/ Salvage
    BY <1>1, <1>2, SettlingEnds
<1>3. CASE \E j \in Jobs, k \in {"sync", "verify", "retention"} : Start(j, k)
    BY <1>1, <1>3, SettlingStart
<1>4. CASE \E i \in Jobs : SweepDisplaced(i) \/ SweepPlaced(i) \/ SweepTemp(i)
    BY <1>1, <1>4, SettlingSweep
<1>5. CASE SweepEnd \/ Settle \/ SettleRecord \/ SettleNothing
    BY <1>1, <1>5, SettlingSettle
<1>6. CASE Plan \/ Begin \/ EarlierDisplace \/ (\E r \in rows : ExpireFile(r)) \/ ExpireRow
    BY <1>1, <1>6, SettlingReady
<1>7. CASE PutResumed \/ PutAnew \/ InTheWay \/ OpenTemp \/ FillTemp \/ Keep \/ Retain \/ PutBackNothing
    BY <1>1, <1>7, SettlingDecides
<1>8. CASE NameTemp \/ TempDone \/ Choose \/ Displace \/ Finish \/ ItemFailed
    BY <1>1, <1>8, SettlingSaves
<1>9. CASE DisplaceFS \/ KeepFS
    BY <1>1, <1>9, SettlingFills
<1>10. CASE Commit \/ PutBack
    BY <1>1, <1>10, SettlingMoves
<1>11. CASE Adopt \/ Displaced \/ Intent \/ Record \/ Retained \/ PutBackRecord
    BY <1>1, <1>11, SettlingRecords
<1>12. CASE UNCHANGED vars
    BY <1>1, <1>12, SettlingFramed DEF vars, disk, base
<1>. QED
    BY <1>1, <1>2, <1>3, <1>4, <1>5, <1>6, <1>7, <1>8, <1>9, <1>10, <1>11, <1>12
       DEF Next, Reconcile, Sync, Place, Stop, Other

\* At every moment until an operation fails or somebody else touches the path, every unrecorded
\* file in retention is known to the record's intent or to the pending item that displaced it.
THEOREM SettleInvariant == Spec => []SettleInv
<1>1. Init => SettleInv
  <2>. SUFFICES ASSUME Init PROVE Settling
    BY DEF SettleInv
  <2>1. \A s \in Slots : ~At(s)
    BY DEF Init, At
  <2>2. /\ run.at = "idle" /\ run.todo = {} /\ live = None /\ rec = None
        /\ \A j \in Jobs : item[j] = None
    BY DEF Init, Idle
  <2>3. Global
    BY <2>1, <2>2 DEF Global, Accounted, IntentKnown, OwnSlots, Carried, Loose, Intended, HasRec
  <2>4. Swept
    BY <2>2 DEF Swept, SweptSlots, SweptItem, SweptAll
  <2>5. Local
    BY <2>2 DEF Local, Working, ExecPoints, Placing, Displacing
  <2>. QED
    BY <2>3, <2>4, <2>5 DEF Settling
<1>2. SyncInv /\ SyncInv' /\ SettleInv /\ [Next]_vars => SettleInv'
    BY SettlingKept DEF SyncInv
<1>. QED
    BY <1>1, <1>2, SyncInvariant, PTL DEF Spec

\* Once a job reconciled, every file in the retention directories of other jobs is recorded
\* (reconcile.go, "nothing stays unrecorded in retention"), after any number of crashes anywhere,
\* for any number of jobs, versions and names, with and without hardlinks and in any order of
\* resumed jobs, while no operation failed and nobody else touched the path.
THEOREM CrashesAlwaysSettled == Spec => []SettledAfterCrashes
<1>1. SyncInv /\ SettleInv => SettledAfterCrashes
  <2>. SUFFICES ASSUME SyncInv, SettleInv, run.at = "ready", OnlyCrashes,
                       NEW s \in Slots, At(s), s[1] # J, ~RowAt(s)
                PROVE  FALSE
    BY DEF SettledAfterCrashes, OnlyCrashes
  <2>1. Settling /\ Swept /\ Local /\ TypeOK
    BY DEF SettleInv, Settling, SyncInv
  <2>2. Intended(s)
    BY <2>1 DEF Swept, SweptSlots, SweptAll, Sweeping, Loose
  <2>3. NothingOpen
    BY <2>1 DEF Local
  <2>. QED
    BY <2>1, <2>2, <2>3, Shapes DEF NothingOpen, Intended
<1>. QED
    BY <1>1, SyncInvariant, SettleInvariant, PTL

=============================================================================
