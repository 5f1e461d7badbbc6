-------------------------- MODULE JobRequestsProofs --------------------------
(***************************************************************************)
(* Proofs about JobRequests: no request is lost (Promise) and the window   *)
(* cuts of replaced syncs reach the plan of the sync that replaced them    *)
(* (CutsCarried), for any menu of requests and schedules.                  *)
(***************************************************************************)
EXTENDS JobRequests, TLAPS, FiniteSetTheorems, WellFoundedInduction

Live(j) == row[j].st \in {"queued", "running"}

TypeOK ==
    /\ menu \in Menus
    /\ row \in [Jobs -> RowType \cup {None}]
    /\ cuts \in [Jobs -> 0..MaxCuts]
    /\ sched.at \in {"idle", "enqueue", "supersede"}
    /\ sched.at # "idle" => sched.spec \in menu.fires
    /\ sched.at = "supersede" => sched.keep \in Jobs /\ sched.spec.type = "sync"
    /\ sched = [at |-> sched.at, spec |-> sched.spec, keep |-> sched.keep]
    /\ owed \in [Jobs -> SUBSET Specs]
    /\ missed \in [Jobs -> SUBSET Specs]
    /\ before \in [Jobs -> 0..MaxCuts]

\* A job that has not ended covers every request it stands for.
OwedCovered ==
    \A j \in Rows : Live(j) /\ ~row[j].spec.dry =>
        /\ \A s \in owed[j] : Does(row[j].spec, s)
        /\ missed[j] \subseteq owed[j]

\* A plan that will be executed, or was, misses nothing.
PlanWhole ==
    \A j \in Rows :
        /\ ~row[j].started => ~row[j].planned
        /\ row[j].st = "running" => row[j].started
        /\ row[j].st = "completed" => row[j].planned
        /\ /\ ~row[j].spec.dry /\ row[j].planned
           /\ \/ row[j].st \in {"running", "completed"}
              \/ row[j].st = "queued" /\ ResumesStoredPlan(row[j].spec.type)
           => missed[j] = {}

\* An id without a row has no history.
FreshIds == \A j \in Jobs \ Rows : owed[j] = {} /\ missed[j] = {} /\ before[j] = 0

\* The scheduled sync that is about to replace others has no plan yet.
KeepUnplanned ==
    sched.at = "supersede" =>
        /\ sched.keep \in Rows
        /\ ~row[sched.keep].planned
        /\ row[sched.keep].spec = sched.spec

\* The cuts a job has to carry are those of some sync it replaced.
CutsReachable ==
    /\ \A j \in Rows : row[j].by # 0 => row[j].st = "cancelled"
    /\ \A j \in Rows : Live(j) =>
          before[j] = 0 \/ \E k \in Rows : row[k].by = j /\ cuts[k] >= before[j]

RequestInv ==
    /\ TypeOK /\ OwedCovered /\ PlanWhole /\ FreshIds /\ KeepUnplanned /\ CutsReachable
    /\ CutsCarried

-----------------------------------------------------------------------------
(* Operators.                                                              *)

\* A nonempty set of naturals has a least member: the first row id of a query.
LEMMA MinOfMember ==
    ASSUME NEW S, S \subseteq Nat, S # {}
    PROVE  MinOf(S) \in S
<1>1. PICK i \in S : \A j \in S : ~(<<j, i>> \in OpToRel(<, Nat))
    BY NatLessThanWellFounded, WFMin
<1>2. \A j \in S : ~(j < i)
    BY <1>1, Zenon DEF OpToRel
<1>3. \A j \in S : i <= j
    BY <1>2
<1>. QED
    BY <1>3 DEF MinOf

\* A nonempty bounded set of naturals has a greatest member.
LEMMA MaxOfMember ==
    ASSUME NEW n \in Nat, NEW S, S \subseteq 0..n, S # {}
    PROVE  MaxOf(S) \in S /\ \A i \in S : i <= MaxOf(S)
<1>. DEFINE T == {m \in Nat : n - m \in S}
<1>1. T \subseteq Nat /\ T # {}
  <2>1. PICK i \in S : TRUE
    OBVIOUS
  <2>2. n - i \in T
    BY <2>1
  <2>. QED
    BY <2>2
<1>2. PICK m \in T : \A k \in T : ~(<<k, m>> \in OpToRel(<, Nat))
    BY <1>1, NatLessThanWellFounded, WFMin
<1>3. \A k \in T : ~(k < m)
    BY <1>2, Zenon DEF OpToRel
<1>4. \A i \in S : i <= n - m
  <2>. SUFFICES ASSUME NEW i \in S PROVE i <= n - m
    OBVIOUS
  <2>1. n - i \in T
    OBVIOUS
  <2>2. ~(n - i < m)
    BY <2>1, <1>3
  <2>. QED
    BY <2>2, <1>1
<1>. QED
    BY <1>2, <1>4 DEF MaxOf

\* canonicalPaths drops no file: each path is inside one of those it keeps.
LEMMA CanonicalCovers ==
    ASSUME NEW T, T \subseteq Targets, NEW t \in T
    PROVE  \E u \in Canonical(T) : Under[t] \subseteq Under[u]
<1>. DEFINE Above(u) == {v \in T : Under[u] \subseteq Under[v]}
            C == {Above(u) : u \in Above(t)}
<1>1. IsFiniteSet(T)
    BY TargetAssumption, FS_Subset
<1>2. C \subseteq FiniteSubsetsOf(T) /\ C # {}
  <2>1. \A u : Above(u) \subseteq T /\ IsFiniteSet(Above(u))
    BY <1>1, FS_Subset, Zenon
  <2>2. Above(t) \in C
    OBVIOUS
  <2>. QED
    BY <2>1, <2>2, Zenon DEF FiniteSubsetsOf
<1>3. PICK c \in C : \A d \in C : ~(<<d, c>> \in StrictSubsetOrdering(T))
    BY <1>2, FS_StrictSubsetOrderingWellFounded, WFMin
<1>4. PICK u \in Above(t) : c = Above(u)
    BY <1>3
<1>5. ASSUME NEW v \in T, v # u, Under[u] \subseteq Under[v]
      PROVE  FALSE
  <2>1. Above(v) \in C /\ Above(v) \subseteq Above(u)
    BY <1>5, <1>4
  <2>2. u \in Above(u) /\ u \notin Above(v)
    <3>1. ~(Under[v] \subseteq Under[u])
      <4>. SUFFICES ASSUME Under[v] \subseteq Under[u] PROVE FALSE
        OBVIOUS
      <4>1. Under[v] = Under[u]
        BY <1>5
      <4>. QED
        BY <4>1, <1>4, <1>5, TargetAssumption
    <3>. QED
      BY <3>1, <1>4
  <2>. QED
    BY <2>1, <2>2, <1>3, <1>4, <1>2 DEF StrictSubsetOrdering
<1>. QED
    BY <1>4, <1>5 DEF Canonical
\* The requests of a run are valid jobs.Spec values.
LEMMA SpecsValid ==
    /\ Specs \subseteq SpecType
    /\ \A s \in Specs : ValidSpec(s)
    /\ \A m \in Menus : m.asks \subseteq Specs /\ m.fires \subseteq Specs
BY RequestAssumption DEF Specs

\* A job merged with a request does what it did before and what the request asks.
LEMMA MergedDoes ==
    ASSUME NEW q \in SpecType, NEW s \in SpecType, Targeted(q), Targeted(s),
           WithoutTargets(q) = WithoutTargets(s)
    PROVE  /\ Merged(q, s) \in SpecType
           /\ Merged(q, s).type = q.type /\ Merged(q, s).dry = q.dry
           /\ Does(Merged(q, s), s)
           /\ \A r \in SpecType : Does(q, r) => Does(Merged(q, s), r)
<1>. DEFINE T == q.targets \cup s.targets
            m == Merged(q, s)
<1>1. T \subseteq Targets /\ Canonical(T) \subseteq T
    BY DEF SpecType, Canonical
<1>2. /\ m \in SpecType
      /\ m.targets \in {{}, Canonical(T)}
      /\ m.type = q.type /\ m.src = q.src /\ m.allow = q.allow /\ m.after = q.after
      /\ m.release = q.release /\ m.dry = q.dry
    BY <1>1 DEF SpecType, Merged
<1>3. /\ s.type = q.type /\ s.src = q.src /\ s.allow = q.allow /\ s.after = q.after
      /\ s.release = q.release /\ s.dry = q.dry
    BY DEF WithoutTargets, SpecType
<1>4. \A t \in T : Under[t] \subseteq FilesOf(m)
  <2>. SUFFICES ASSUME NEW t \in T PROVE Under[t] \subseteq FilesOf(m)
    OBVIOUS
  <2>1. CASE m.targets = {}
    BY <2>1, <1>1 DEF FilesOf, Targeted, Everything
  <2>2. CASE m.targets = Canonical(T) /\ m.targets # {}
    <3>1. PICK u \in Canonical(T) : Under[t] \subseteq Under[u]
      BY <1>1, CanonicalCovers
    <3>. QED
      BY <3>1, <2>2 DEF FilesOf, Targeted
  <2>. QED
    BY <2>1, <2>2, <1>2
<1>5. FilesOf(q) \subseteq FilesOf(m) /\ FilesOf(s) \subseteq FilesOf(m)
    BY <1>4 DEF FilesOf, Targeted
<1>6. SourcesOf(m) = SourcesOf(q) /\ SourcesOf(s) = SourcesOf(q)
    BY <1>2, <1>3 DEF SourcesOf
<1>. HIDE DEF m, T
<1>7. Does(m, s)
    BY <1>2, <1>3, <1>5, <1>6 DEF Does
<1>8. \A r \in SpecType : Does(q, r) => Does(m, r)
    BY <1>2, <1>5, <1>6 DEF Does
<1>. QED
    BY <1>2, <1>7, <1>8 DEF m

\* A queued job whose params cover a targeted request does what it asks.
LEMMA CoveringDoes ==
    ASSUME NEW q \in SpecType, NEW s \in SpecType, ValidSpec(s), Targeted(s),
           s.type \in {"sync", "refresh"}, q.type = s.type, q.dry = s.dry, CoversSpec(q, s)
    PROVE  Does(q, s)
<1>1. s.type = "sync" => s.src # {}
    BY FS_EmptySet DEF ValidSpec, Targeted
<1>2. FilesOf(s) \subseteq FilesOf(q)
    BY DEF FilesOf, CoversSpec, Targeted, Everything, SpecType
<1>3. s.type # "refresh" => SourcesOf(s) \subseteq SourcesOf(q)
    BY <1>1 DEF SourcesOf, CoversSpec, SpecType
<1>. QED
    BY <1>2, <1>3 DEF Does, CoversSpec, ValidSpec, Targeted

\* Every request is done by itself.
LEMMA DoesItself == \A s \in SpecType : Does(s, s)
BY DEF Does

-----------------------------------------------------------------------------
(* Every step preserves the invariant.                                     *)

\* At first nothing is asked for.
LEMMA InitRequests == Init => RequestInv
BY RequestAssumption, NoneAssumption
   DEF Init, RequestInv, TypeOK, OwedCovered, PlanWhole, FreshIds, KeepUnplanned, CutsReachable,
       CutsCarried, Rows, Idle

\* What an answer to a request leaves: a queued job that does the request and all
\* the job stood for, whose plan (if it resumes one) is not made yet.
LEMMA Answered ==
    ASSUME RequestInv, NEW s \in Specs, NEW j \in Jobs, Enqueue(s, j)
    PROVE  /\ row' \in [Jobs -> RowType \cup {None}]
           /\ row'[j] \in RowType /\ row'[j].st = "queued"
           /\ row'[j].spec.type = s.type /\ row'[j].spec.dry = s.dry
           /\ Does(row'[j].spec, s)
           /\ ~s.dry => \A r \in owed[j] : Does(row'[j].spec, r)
           /\ ~s.dry /\ ResumesStoredPlan(s.type) => ~row'[j].planned
           /\ ~Targeted(s) => row'[j].spec = s
           /\ \/ /\ row[j] \in RowType /\ row[j].st = "queued"
                 /\ row[j].spec.dry = s.dry /\ row[j].spec.type = s.type
                 /\ row'[j].started = row[j].started /\ row'[j].planned = row[j].planned
                 /\ row'[j].by = row[j].by
                 /\ ~Targeted(row[j].spec) => row'[j].spec = row[j].spec
              \/ row[j] = None /\ row'[j] = NewRow(s)
           /\ \A i \in Jobs : i # j => row'[i] = row[i]
<1>. DEFINE cands == Candidates(s)
            covering == {c \in cands : CoversSpec(row[c].spec, s)}
            mergeable == {c \in cands : /\ Targeted(row[c].spec)
                                        /\ WithoutTargets(row[c].spec) = WithoutTargets(s)}
            coalesces == ~s.dry /\ Targeted(s)
<1>1. /\ row \in [Jobs -> RowType \cup {None}]
      /\ \A i \in Rows : row[i] \in RowType
      /\ s \in SpecType /\ ValidSpec(s)
      /\ Identical(s) \subseteq Nat /\ cands \subseteq Nat
      /\ owed[j] \subseteq SpecType
  <2>1. Rows \subseteq Jobs /\ Jobs \subseteq Nat
    BY RequestAssumption DEF Rows
  <2>2. Identical(s) \subseteq Rows /\ cands \subseteq Rows
    BY DEF Identical, Candidates, Queued
  <2>. QED
    BY <2>1, <2>2, SpecsValid DEF RequestInv, TypeOK, Rows
<1>2. CASE Identical(s) # {} /\ j = MinOf(Identical(s)) /\ row' = row
  <2>1. j \in Identical(s)
    BY <1>1, <1>2, MinOfMember
  <2>2. j \in Rows /\ row[j].st = "queued" /\ row[j].spec = s
    BY <2>1 DEF Identical, Queued
  <2>3. ~s.dry => \A r \in owed[j] : Does(row[j].spec, r)
    BY <2>2 DEF RequestInv, OwedCovered, Live
  <2>. QED
    BY <1>1, <1>2, <2>1, <2>2, <2>3, DoesItself DEF Identical
<1>3. ASSUME coalesces, NEW c \in cands
      PROVE  /\ c \in Rows /\ row[c] \in RowType /\ row[c].st = "queued"
             /\ ~row[c].spec.dry /\ row[c].spec.type = s.type /\ s.type \in {"sync", "refresh"}
             /\ ~row[c].planned
             /\ \A r \in owed[c] : Does(row[c].spec, r)
    BY <1>1, <1>3 DEF Candidates, Queued, RequestInv, PlanWhole, OwedCovered, Live
<1>4. CASE coalesces /\ covering # {} /\ j = MinOf(covering) /\ row' = row
  <2>1. j \in covering
    BY <1>1, <1>4, MinOfMember
  <2>2. /\ j \in Rows /\ row[j] \in RowType /\ row[j].st = "queued"
        /\ row[j].spec \in SpecType /\ row[j].spec.dry = s.dry /\ row[j].spec.type = s.type
        /\ s.type \in {"sync", "refresh"} /\ ~row[j].planned /\ ~s.dry
        /\ \A r \in owed[j] : Does(row[j].spec, r)
    BY <2>1, <1>1, <1>3, <1>4 DEF RowType, SpecType
  <2>3. Does(row[j].spec, s)
    BY <2>1, <2>2, <1>1, <1>4, CoveringDoes
  <2>. QED
    BY <1>1, <1>4, <2>1, <2>2, <2>3 DEF CoversSpec
<1>5. CASE /\ coalesces /\ mergeable # {} /\ j = MinOf(mergeable)
           /\ row' = [row EXCEPT ![j].spec = Merged(row[j].spec, s)]
  <2>1. j \in mergeable
    BY <1>1, <1>5, MinOfMember
  <2>2. /\ Targeted(row[j].spec) /\ Targeted(s)
        /\ WithoutTargets(row[j].spec) = WithoutTargets(s)
    BY <2>1, <1>5
  <2>3. /\ j \in Rows /\ row[j] \in RowType /\ row[j].st = "queued"
        /\ row[j].spec \in SpecType /\ row[j].spec.dry = s.dry /\ row[j].spec.type = s.type
        /\ s.type \in {"sync", "refresh"} /\ ~row[j].planned /\ ~s.dry
        /\ \A r \in owed[j] : Does(row[j].spec, r)
    BY <2>1, <1>1, <1>3, <1>5 DEF RowType, SpecType
  <2>. DEFINE m == Merged(row[j].spec, s)
  <2>4. /\ m \in SpecType /\ m.type = row[j].spec.type /\ m.dry = row[j].spec.dry
        /\ Does(m, s) /\ \A r \in SpecType : Does(row[j].spec, r) => Does(m, r)
    BY <2>2, <2>3, <1>1, MergedDoes
  <2>5. row'[j] = [row[j] EXCEPT !.spec = m]
    BY <1>5, <1>1
  <2>. HIDE DEF m
  <2>6. /\ row'[j] \in RowType
        /\ row'[j].st = row[j].st /\ row'[j].spec = m /\ row'[j].started = row[j].started
        /\ row'[j].planned = row[j].planned /\ row'[j].by = row[j].by
    BY <2>4, <2>5, <2>3 DEF RowType
  <2>7. row' \in [Jobs -> RowType \cup {None}] /\ \A i \in Jobs : i # j => row'[i] = row[i]
    BY <2>6, <1>1, <1>5
  <2>. QED
    BY <2>3, <2>7, <2>6, <2>4, <2>2, <1>1
<1>6. CASE j \notin Rows /\ row' = [row EXCEPT ![j] = NewRow(s)]
  <2>1. NewRow(s) \in RowType /\ row[j] = None /\ owed[j] = {}
    BY <1>1, <1>6, RequestAssumption DEF NewRow, RowType, Rows, RequestInv, FreshIds
  <2>. QED
    BY <2>1, <1>1, <1>6, DoesItself DEF NewRow
<1>. QED
    BY <1>2, <1>4, <1>5, <1>6 DEF Enqueue

\* The parts of the invariant that the scheduler's own state is not in.
RowsInv ==
    /\ row \in [Jobs -> RowType \cup {None}]
    /\ owed \in [Jobs -> SUBSET Specs] /\ missed \in [Jobs -> SUBSET Specs]
    /\ OwedCovered /\ PlanWhole /\ FreshIds /\ CutsReachable /\ CutsCarried

\* What enqueueing does to the rows: a new one, or a covering or merged one.
LEMMA EnqueueRows ==
    ASSUME RequestInv, NEW s \in Specs, NEW j \in Jobs, Enqueue(s, j), UNCHANGED <<cuts, before>>
    PROVE  RowsInv' /\ j \in Rows'
<1>1. /\ row \in [Jobs -> RowType \cup {None}]
      /\ owed \in [Jobs -> SUBSET Specs] /\ missed \in [Jobs -> SUBSET Specs]
      /\ before \in [Jobs -> 0..MaxCuts] /\ cuts \in [Jobs -> 0..MaxCuts]
    BY DEF RequestInv, TypeOK
<1>2. /\ owed' = [owed EXCEPT ![j] = @ \cup {s}]
      /\ missed' = [missed EXCEPT ![j] = @ \cup {s}]
    BY DEF Enqueue
<1>3. j \in Rows' /\ Rows \subseteq Rows' /\ Rows' \subseteq Rows \cup {j}
    BY Answered, NoneAssumption, <1>1 DEF Rows
<1>4. \A i \in Jobs \ {j} : row'[i] = row[i] /\ owed'[i] = owed[i] /\ missed'[i] = missed[i]
    BY Answered, <1>1, <1>2
<1>5. owed'[j] = owed[j] \cup {s} /\ missed'[j] = missed[j] \cup {s}
    BY <1>1, <1>2
<1>6. /\ row' \in [Jobs -> RowType \cup {None}]
      /\ owed' \in [Jobs -> SUBSET Specs] /\ missed' \in [Jobs -> SUBSET Specs]
    BY Answered, <1>1, <1>2
<1>7. \/ /\ j \in Rows /\ row[j].st = "queued"
          /\ row'[j].started = row[j].started /\ row'[j].planned = row[j].planned
          /\ row'[j].by = row[j].by
       \/ /\ j \notin Rows /\ ~row'[j].started /\ ~row'[j].planned /\ row'[j].by = 0
  <2>1. CASE row[j] = None /\ row'[j] = NewRow(s)
    <3>1. ~NewRow(s).started /\ ~NewRow(s).planned /\ NewRow(s).by = 0
      BY DEF NewRow
    <3>. QED
      BY <2>1, <3>1 DEF Rows
  <2>2. CASE row[j] \in RowType
    BY <2>2, NoneAssumption, Answered DEF Rows, NewRow
  <2>. QED
    BY <2>1, <2>2, Answered
<1>8. OwedCovered'
  <2>. SUFFICES ASSUME NEW i \in Rows', (Live(i) /\ ~row[i].spec.dry)'
                PROVE  (\A r \in owed'[i] : Does(row'[i].spec, r)) /\ missed'[i] \subseteq owed'[i]
    BY DEF OwedCovered
  <2>1. CASE i # j
    BY <2>1, <1>3, <1>4 DEF RequestInv, OwedCovered, Live, Rows
  <2>2. CASE i = j
    <3>1. missed[j] \subseteq owed[j]
      BY <2>2, Answered, NoneAssumption DEF RequestInv, OwedCovered, FreshIds, Live, Rows
    <3>. QED
      BY <2>2, <3>1, <1>5, Answered
  <2>. QED
    BY <2>1, <2>2
<1>9. PlanWhole'
  <2>1. \A i \in Rows' : i # j =>
          /\ ~row'[i].started => ~row'[i].planned
          /\ row'[i].st = "running" => row'[i].started
          /\ row'[i].st = "completed" => row'[i].planned
          /\ /\ ~row'[i].spec.dry /\ row'[i].planned
             /\ \/ row'[i].st \in {"running", "completed"}
                \/ row'[i].st = "queued" /\ ResumesStoredPlan(row'[i].spec.type)
             => missed'[i] = {}
    BY <1>3, <1>4 DEF RequestInv, PlanWhole, Rows
  <2>2. ~row'[j].started => ~row'[j].planned
    BY <1>7 DEF RequestInv, PlanWhole
  <2>3. ~row'[j].spec.dry /\ ResumesStoredPlan(row'[j].spec.type) => ~row'[j].planned
    BY Answered
  <2>4. row'[j].st = "queued"
    BY Answered
  <2>. QED
    BY <2>1, <2>2, <2>3, <2>4 DEF PlanWhole
<1>10. FreshIds'
    BY <1>3, <1>4 DEF FreshIds, RequestInv, Rows
<1>11. CutsReachable'
  <2>1. \A i \in Rows : row'[i].by = row[i].by
    BY <1>4, Answered DEF Rows
  <2>2. \A i \in Rows' : row'[i].by # 0 => row'[i].st = "cancelled"
    <3>1. row'[j].by = 0
      BY <1>7 DEF RequestInv, CutsReachable
    <3>. QED
      BY <3>1, <1>3, <1>4 DEF RequestInv, CutsReachable, Rows
  <2>3. ASSUME NEW i \in Rows', Live(i)'
        PROVE  before[i] = 0 \/ \E k \in Rows : row[k].by = i /\ cuts[k] >= before[i]
    BY <2>3, <1>3, <1>4, Answered, NoneAssumption
       DEF RequestInv, CutsReachable, FreshIds, Live, Rows
  <2>. QED
    BY <2>1, <2>2, <2>3, <1>3 DEF CutsReachable
<1>12. CutsCarried'
  <2>1. ASSUME NEW i \in Rows', row'[i].planned PROVE i \in Rows /\ row[i].planned
    BY <2>1, <1>3, <1>4, <1>7 DEF Rows
  <2>. QED
    BY <2>1 DEF CutsCarried, RequestInv
<1>. QED
    BY <1>3, <1>6, <1>8, <1>9, <1>10, <1>11, <1>12 DEF RowsInv

\* A request of a user or a schedule keeps the invariant.
LEMMA AskKeeps ==
    ASSUME RequestInv, NEW s \in menu.asks, Ask(s)
    PROVE  RequestInv'
<1>1. s \in Specs
    BY SpecsValid DEF RequestInv, TypeOK
<1>2. PICK j \in Jobs : Enqueue(s, j) /\ UNCHANGED <<menu, cuts, sched, before>>
    BY DEF Ask
<1>3. RowsInv' /\ j \in Rows'
    BY <1>1, <1>2, EnqueueRows
<1>4. TypeOK'
    BY <1>2, <1>3 DEF RequestInv, TypeOK, RowsInv
<1>5. KeepUnplanned'
  <2>. SUFFICES ASSUME sched.at = "supersede"
                PROVE  /\ sched.keep \in Rows'
                       /\ ~row'[sched.keep].planned
                       /\ row'[sched.keep].spec = sched.spec
    BY <1>2 DEF KeepUnplanned
  <2>1. /\ sched.keep \in Rows /\ ~row[sched.keep].planned
        /\ row[sched.keep].spec = sched.spec
        /\ sched.keep \in Jobs /\ sched.spec \in menu.fires /\ menu \in Menus
    BY DEF RequestInv, KeepUnplanned, TypeOK
  <2>2. ~Targeted(sched.spec)
    BY <2>1, ScheduleAssumption DEF Targeted
  <2>3. CASE sched.keep # j
    BY <2>1, <2>3, <1>1, <1>2, Answered DEF Rows
  <2>4. CASE sched.keep = j
    <3>1. row[j] # None
      BY <2>1, <2>4 DEF Rows
    <3>. QED
      BY <2>1, <2>2, <2>4, <3>1, <1>1, <1>2, <1>3, Answered
  <2>. QED
    BY <2>3, <2>4
<1>. QED
    BY <1>3, <1>4, <1>5 DEF RequestInv, RowsInv

\* The scheduler enqueues.
LEMMA FireEnqueueKeeps ==
    ASSUME RequestInv, FireEnqueue
    PROVE  RequestInv'
<1>1. sched.spec \in menu.fires /\ menu \in Menus /\ sched.at = "enqueue"
    BY DEF FireEnqueue, RequestInv, TypeOK
<1>2. PICK s \in Specs : s = sched.spec
    BY <1>1, SpecsValid
<1>3. PICK j \in Jobs :
        /\ Enqueue(s, j)
        /\ sched' = IF s.type = "sync" THEN [sched EXCEPT !.at = "supersede", !.keep = j] ELSE Idle
        /\ UNCHANGED <<menu, cuts, before>>
    BY <1>2 DEF FireEnqueue
<1>4. RowsInv' /\ j \in Rows'
    BY <1>3, EnqueueRows
<1>5. CASE s.type = "sync"
  <2>1. sched' = [at |-> "supersede", spec |-> s, keep |-> j]
    BY <1>2, <1>3, <1>5 DEF RequestInv, TypeOK
  <2>2. TypeOK'
    BY <1>1, <1>2, <1>3, <1>4, <1>5, <2>1 DEF RequestInv, TypeOK, RowsInv
  <2>3. ~s.dry /\ ~Targeted(s) /\ ResumesStoredPlan(s.type)
    BY <1>1, <1>2, <1>5, ScheduleAssumption DEF Targeted, ResumesStoredPlan
  <2>4. ~row'[j].planned /\ row'[j].spec = s
    BY <2>3, <1>3, Answered
  <2>5. KeepUnplanned'
    BY <2>1, <2>4, <1>4 DEF KeepUnplanned
  <2>. QED
    BY <2>2, <2>5, <1>4 DEF RequestInv, RowsInv
<1>6. CASE s.type # "sync"
    BY <1>3, <1>4, <1>6 DEF RequestInv, RowsInv, TypeOK, KeepUnplanned, Idle
<1>. QED
    BY <1>5, <1>6

\* The scheduler looks for a job to supersede.
LEMMA FireCheckKeeps ==
    ASSUME RequestInv, NEW s \in menu.fires, FireCheck(s)
    PROVE  RequestInv'
BY DEF FireCheck, RequestInv, TypeOK, OwedCovered, PlanWhole, FreshIds, KeepUnplanned,
       CutsReachable, CutsCarried, Rows, Live

\* The process ends between the steps of the scheduler.
LEMMA FireLostKeeps ==
    ASSUME RequestInv, FireLost
    PROVE  RequestInv'
BY DEF FireLost, RequestInv, TypeOK, OwedCovered, PlanWhole, FreshIds, KeepUnplanned,
       CutsReachable, CutsCarried, Rows, Live, Idle

\* Nothing happens.
LEMMA StutterKeeps ==
    ASSUME RequestInv, UNCHANGED vars
    PROVE  RequestInv'
BY DEF vars, RequestInv, TypeOK, OwedCovered, PlanWhole, FreshIds, KeepUnplanned,
       CutsReachable, CutsCarried, Rows, Live

\* A step of the life of one row: it changes that row only and keeps its id, spec
\* and links.
RowStep(j, st, started, planned, deferrals) ==
    /\ row[j] \in RowType /\ row'[j] \in RowType
    /\ row' \in [Jobs -> RowType \cup {None}]
    /\ \A i \in Jobs \ {j} : row'[i] = row[i]
    /\ row'[j].spec = row[j].spec /\ row'[j].by = row[j].by
    /\ row'[j].st = st
    /\ row'[j].started <=> started
    /\ row'[j].planned <=> planned
    /\ row'[j].deferrals = deferrals
    /\ Rows' = Rows

\* A step of one row: what it leaves to prove of the others.
LEMMA RowStepMade ==
    ASSUME RequestInv, NEW j \in Rows,
           NEW st \in {"queued", "running", "completed", "failed", "cancelled"},
           NEW started \in BOOLEAN, NEW planned \in BOOLEAN, NEW deferrals \in 0..MaxDeferrals,
           row' = [row EXCEPT ![j] = [@ EXCEPT !.st = st, !.started = started,
                                               !.planned = planned, !.deferrals = deferrals]]
    PROVE  RowStep(j, st, started, planned, deferrals)
<1>1. j \in Jobs /\ row[j] \in RowType /\ row \in [Jobs -> RowType \cup {None}]
    BY DEF RequestInv, TypeOK, Rows
<1>2. row'[j] = [row[j] EXCEPT !.st = st, !.started = started, !.planned = planned,
                               !.deferrals = deferrals]
    BY <1>1
<1>3. /\ row'[j] \in RowType /\ row'[j].spec = row[j].spec /\ row'[j].by = row[j].by
      /\ row'[j].st = st /\ (row'[j].started <=> started) /\ (row'[j].planned <=> planned)
      /\ row'[j].deferrals = deferrals
    BY <1>1, <1>2 DEF RowType
<1>4. row' \in [Jobs -> RowType \cup {None}] /\ \A i \in Jobs \ {j} : row'[i] = row[i]
    BY <1>1, <1>3
<1>5. Rows' = Rows
    BY <1>1, <1>3, <1>4, NoneAssumption DEF Rows
<1>. QED
    BY <1>1, <1>3, <1>4, <1>5 DEF RowStep

\* A job begins.
LEMMA BeginKeeps ==
    ASSUME RequestInv, NEW j \in Jobs, Begin(j)
    PROVE  RequestInv'
<1>. DEFINE planned == row[j].planned /\ ResumesStoredPlan(row[j].spec.type)
<1>1. j \in Rows /\ row[j] \in RowType /\ row[j].st = "queued"
    BY DEF Begin, Queued, RequestInv, TypeOK, Rows
<1>2. RowStep(j, "running", TRUE, planned, row[j].deferrals)
  <2>1. planned \in BOOLEAN /\ row[j].deferrals \in 0..MaxDeferrals
    BY <1>1 DEF RowType
  <2>2. row' = [row EXCEPT ![j] = [@ EXCEPT !.st = "running", !.started = TRUE,
                                            !.planned = planned, !.deferrals = row[j].deferrals]]
    BY <1>1 DEF Begin, RowType, RequestInv, TypeOK
  <2>. HIDE DEF planned
  <2>. QED
    BY <1>1, <2>1, <2>2, RowStepMade
<1>3. UNCHANGED <<menu, cuts, sched, owed, missed, before>>
    BY DEF Begin
<1>4. TypeOK'
    BY <1>2, <1>3 DEF RequestInv, TypeOK, RowStep
<1>5. OwedCovered'
    BY <1>1, <1>2, <1>3 DEF RequestInv, OwedCovered, RowStep, Live, Rows
<1>6. PlanWhole'
    BY <1>1, <1>2, <1>3 DEF RequestInv, PlanWhole, RowStep, Rows
<1>7. FreshIds' /\ KeepUnplanned'
    BY <1>1, <1>2, <1>3 DEF RequestInv, FreshIds, KeepUnplanned, RowStep, Rows
<1>8. CutsReachable'
    BY <1>1, <1>2, <1>3 DEF RequestInv, CutsReachable, RowStep, Live, Rows
<1>9. CutsCarried'
    BY <1>1, <1>2, <1>3 DEF RequestInv, CutsCarried, RowStep, Rows
<1>. QED
    BY <1>4, <1>5, <1>6, <1>7, <1>8, <1>9 DEF RequestInv

\* A job is queued again.
LEMMA RequeueKeeps ==
    ASSUME RequestInv, NEW j \in Jobs, Requeue(j)
    PROVE  RequestInv'
<1>1. j \in Rows /\ row[j] \in RowType /\ row[j].st = "running"
    BY DEF Requeue, Queued, Running, RequestInv, TypeOK, Rows
<1>2. RowStep(j, "queued", row[j].started, row[j].planned, row[j].deferrals)
  <2>1. row[j].started \in BOOLEAN /\ row[j].planned \in BOOLEAN /\ row[j].deferrals \in 0..MaxDeferrals
    BY <1>1 DEF RowType
  <2>2. row' = [row EXCEPT ![j] = [@ EXCEPT !.st = "queued", !.started = row[j].started,
                                            !.planned = row[j].planned, !.deferrals = row[j].deferrals]]
    BY <1>1 DEF Requeue, RowType, RequestInv, TypeOK
  <2>. QED
    BY <1>1, <2>1, <2>2, RowStepMade
<1>3. UNCHANGED <<menu, cuts, sched, owed, missed, before>>
    BY DEF Requeue
<1>4. TypeOK'
    BY <1>1, <1>2, <1>3 DEF RequestInv, TypeOK, RowStep
<1>5. OwedCovered'
    BY <1>1, <1>2, <1>3 DEF RequestInv, OwedCovered, RowStep, Live, Rows
<1>6. PlanWhole'
    BY <1>1, <1>2, <1>3 DEF RequestInv, PlanWhole, RowStep, Rows
<1>7. FreshIds' /\ KeepUnplanned'
    BY <1>1, <1>2, <1>3 DEF RequestInv, TypeOK, FreshIds, KeepUnplanned, RowStep, Rows
<1>8. CutsReachable'
    BY <1>1, <1>2, <1>3 DEF RequestInv, CutsReachable, RowStep, Live, Rows
<1>9. CutsCarried'
    BY <1>1, <1>2, <1>3 DEF RequestInv, TypeOK, CutsCarried, RowStep, Rows
<1>. QED
    BY <1>4, <1>5, <1>6, <1>7, <1>8, <1>9 DEF RequestInv

\* A job is cancelled.
LEMMA CancelKeeps ==
    ASSUME RequestInv, NEW j \in Jobs, Cancel(j)
    PROVE  RequestInv'
<1>1. j \in Rows /\ row[j] \in RowType /\ row[j].st = "queued"
    BY DEF Cancel, Queued, Running, RequestInv, TypeOK, Rows
<1>2. RowStep(j, "cancelled", row[j].started, row[j].planned, row[j].deferrals)
  <2>1. row[j].started \in BOOLEAN /\ row[j].planned \in BOOLEAN /\ row[j].deferrals \in 0..MaxDeferrals
    BY <1>1 DEF RowType
  <2>2. row' = [row EXCEPT ![j] = [@ EXCEPT !.st = "cancelled", !.started = row[j].started,
                                            !.planned = row[j].planned, !.deferrals = row[j].deferrals]]
    BY <1>1 DEF Cancel, RowType, RequestInv, TypeOK
  <2>. QED
    BY <1>1, <2>1, <2>2, RowStepMade
<1>3. /\ UNCHANGED <<menu, cuts, sched, before>>
      /\ owed' = [owed EXCEPT ![j] = {}] /\ missed' = [missed EXCEPT ![j] = {}]
    BY DEF Cancel
<1>4. TypeOK'
    BY <1>1, <1>2, <1>3 DEF RequestInv, TypeOK, RowStep
<1>5. OwedCovered'
    BY <1>1, <1>2, <1>3 DEF RequestInv, OwedCovered, RowStep, Live, Rows
<1>6. PlanWhole'
    BY <1>1, <1>2, <1>3 DEF RequestInv, PlanWhole, RowStep, Rows
<1>7. FreshIds' /\ KeepUnplanned'
    BY <1>1, <1>2, <1>3 DEF RequestInv, TypeOK, FreshIds, KeepUnplanned, RowStep, Rows
<1>8. CutsReachable'
    BY <1>1, <1>2, <1>3 DEF RequestInv, CutsReachable, RowStep, Live, Rows
<1>9. CutsCarried'
    BY <1>1, <1>2, <1>3 DEF RequestInv, TypeOK, CutsCarried, RowStep, Rows
<1>. QED
    BY <1>4, <1>5, <1>6, <1>7, <1>8, <1>9 DEF RequestInv

\* A job ends.
LEMMA FinishKeeps ==
    ASSUME RequestInv, NEW j \in Jobs, Finish(j)
    PROVE  RequestInv'
<1>0. PICK st \in {"completed", "failed", "cancelled"} :
        /\ st = "completed" => row[j].planned
        /\ row' = [row EXCEPT ![j].st = st]
        /\ missed' = [missed EXCEPT ![j] = IF st = "completed" THEN @ ELSE {}]
    BY DEF Finish
<1>1. j \in Rows /\ row[j] \in RowType /\ row[j].st = "running"
    BY DEF Finish, Queued, Running, RequestInv, TypeOK, Rows
<1>2. RowStep(j, st, row[j].started, row[j].planned, row[j].deferrals)
  <2>1. row[j].started \in BOOLEAN /\ row[j].planned \in BOOLEAN /\ row[j].deferrals \in 0..MaxDeferrals
    BY <1>1 DEF RowType
  <2>2. row' = [row EXCEPT ![j] = [@ EXCEPT !.st = st, !.started = row[j].started,
                                            !.planned = row[j].planned, !.deferrals = row[j].deferrals]]
    BY <1>0, <1>1 DEF RowType, RequestInv, TypeOK
  <2>3. st \in {"queued", "running", "completed", "failed", "cancelled"}
    OBVIOUS
  <2>. QED
    BY <1>1, <2>1, <2>2, <2>3, RowStepMade
<1>3. /\ UNCHANGED <<menu, cuts, sched, before>>
      /\ owed' = [owed EXCEPT ![j] = {}]
    BY DEF Finish
<1>4. TypeOK'
    BY <1>1, <1>2, <1>3, <1>0 DEF RequestInv, TypeOK, RowStep
<1>5. OwedCovered'
    BY <1>1, <1>2, <1>3, <1>0 DEF RequestInv, OwedCovered, RowStep, Live, Rows
<1>6. PlanWhole'
    BY <1>1, <1>2, <1>3, <1>0 DEF RequestInv, PlanWhole, RowStep, Rows
<1>7. FreshIds' /\ KeepUnplanned'
    BY <1>1, <1>2, <1>3, <1>0 DEF RequestInv, TypeOK, FreshIds, KeepUnplanned, RowStep, Rows
<1>8. CutsReachable'
    BY <1>1, <1>2, <1>3, <1>0 DEF RequestInv, CutsReachable, RowStep, Live, Rows
<1>9. CutsCarried'
    BY <1>1, <1>2, <1>3, <1>0 DEF RequestInv, TypeOK, CutsCarried, RowStep, Rows
<1>. QED
    BY <1>4, <1>5, <1>6, <1>7, <1>8, <1>9 DEF RequestInv

\* A job plans: what it stands for is fixed.
LEMMA PlanKeeps ==
    ASSUME RequestInv, NEW j \in Jobs, Plan(j)
    PROVE  RequestInv'
<1>1. j \in Rows /\ row[j] \in RowType /\ row[j].st = "running"
    BY DEF Plan, Queued, Running, RequestInv, TypeOK, Rows
<1>2. RowStep(j, "running", row[j].started, TRUE, row[j].deferrals)
  <2>1. row[j].started \in BOOLEAN /\ TRUE \in BOOLEAN /\ row[j].deferrals \in 0..MaxDeferrals
    BY <1>1 DEF RowType
  <2>2. row' = [row EXCEPT ![j] = [@ EXCEPT !.st = "running", !.started = row[j].started,
                                            !.planned = TRUE, !.deferrals = row[j].deferrals]]
    BY <1>1 DEF Plan, RowType, RequestInv, TypeOK
  <2>. QED
    BY <1>1, <2>1, <2>2, RowStepMade
<1>3. /\ UNCHANGED <<menu, sched, owed, before>>
      /\ missed' = [missed EXCEPT ![j] = {s \in @ : ~Does(row[j].spec, s)}]
      /\ cuts' = [cuts EXCEPT ![j] = CarryWindowCuts(j)]
    BY DEF Plan
<1>10. /\ CarryWindowCuts(j) \in 0..MaxCuts
       /\ \A k \in Rows : row[k].by = j => cuts[k] <= CarryWindowCuts(j)
  <2>. DEFINE C == {0} \cup {cuts[i] : i \in {k \in Rows : row[k].by = j}}
  <2>1. C \subseteq 0..MaxCuts /\ C # {} /\ MaxCuts \in Nat
    BY RequestAssumption DEF RequestInv, TypeOK, Rows
  <2>2. MaxOf(C) \in C /\ \A i \in C : i <= MaxOf(C)
    BY <2>1, MaxOfMember
  <2>. QED
    BY <2>1, <2>2 DEF CarryWindowCuts
<1>11. sched.at = "supersede" => sched.keep # j
    BY DEF Plan, InTime
<1>12. cuts'[j] = CarryWindowCuts(j) /\ \A i \in Jobs \ {j} : cuts'[i] = cuts[i]
    BY <1>3 DEF RequestInv, TypeOK
<1>13. ~row[j].spec.dry => missed'[j] = {}
    BY <1>1, <1>3 DEF RequestInv, TypeOK, OwedCovered, Live
<1>4. TypeOK'
    BY <1>1, <1>2, <1>3, <1>10, <1>11, <1>12, <1>13 DEF RequestInv, TypeOK, RowStep
<1>5. OwedCovered'
    BY <1>1, <1>2, <1>3, <1>10, <1>11, <1>12, <1>13 DEF RequestInv, OwedCovered, RowStep, Live, Rows
<1>14. \A i \in Jobs \ {j} : missed'[i] = missed[i]
    BY <1>3 DEF RequestInv, TypeOK
<1>6. PlanWhole'
  <2>1. row[j].started
    BY <1>1 DEF RequestInv, PlanWhole
  <2>. QED
    BY <1>1, <1>2, <1>13, <1>14, <2>1 DEF RequestInv, PlanWhole, RowStep, Rows
<1>7. FreshIds' /\ KeepUnplanned'
    BY <1>1, <1>2, <1>3, <1>10, <1>11, <1>12, <1>13 DEF RequestInv, TypeOK, FreshIds, KeepUnplanned, RowStep, Rows
<1>8. CutsReachable'
  <2>1. row[j].by = 0 /\ \A i \in Rows : i # 0
    BY <1>1, RequestAssumption DEF RequestInv, CutsReachable, Rows
  <2>2. \A i \in Rows : row[i].by # 0 => cuts'[i] = cuts[i]
    BY <2>1, <1>12 DEF Rows
  <2>3. \A i \in Rows : row'[i].by = row[i].by
    BY <1>2 DEF RowStep, Rows
  <2>4. \A i \in Rows : row'[i].st = row[i].st
    BY <1>1, <1>2 DEF RowStep, Rows
  <2>. QED
    BY <1>2, <1>3, <2>1, <2>2, <2>3, <2>4 DEF RequestInv, CutsReachable, RowStep, Live
<1>9. CutsCarried'
  <2>1. before[j] <= CarryWindowCuts(j)
    <3>1. /\ \A i \in Jobs : before[i] \in Nat /\ cuts[i] \in Nat
          /\ before[j] = 0 \/ \E k \in Rows : row[k].by = j /\ cuts[k] >= before[j]
      BY <1>1, RequestAssumption DEF RequestInv, TypeOK, CutsReachable, Live
    <3>. QED
      BY <1>10, <3>1, RequestAssumption DEF Rows
  <2>2. cuts'[j] >= before'[j]
    BY <2>1, <1>3, <1>10, <1>12, RequestAssumption DEF RequestInv, TypeOK
  <2>. QED
    BY <2>2, <1>2, <1>3, <1>12 DEF RequestInv, CutsCarried, RowStep, Rows
<1>. QED
    BY <1>4, <1>5, <1>6, <1>7, <1>8, <1>9 DEF RequestInv

\* A job is deferred to its window.
LEMMA DeferKeeps ==
    ASSUME RequestInv, NEW j \in Jobs, Defer(j)
    PROVE  RequestInv'
<1>1. j \in Rows /\ row[j] \in RowType /\ row[j].st = "running"
    BY DEF Defer, Queued, Running, RequestInv, TypeOK, Rows
<1>10. PICK cut \in {0, 1} :
          /\ cut = 1 => row[j].planned /\ cuts[j] < MaxCuts
          /\ cuts' = [cuts EXCEPT ![j] = @ + cut]
    BY DEF Defer
<1>. DEFINE D == {row[j].deferrals + 1} \cup {row[i].deferrals : i \in {k \in Rows : row[k].by = j}}
<1>11. MaxOf(D) \in 0..MaxDeferrals
  <2>1. \A i \in Rows : row[i] \in RowType
    BY DEF RequestInv, TypeOK, Rows
  <2>2. D \subseteq 0..MaxDeferrals /\ D # {} /\ MaxDeferrals \in Nat
    BY <1>1, <2>1, RequestAssumption DEF RowType, Defer
  <2>. QED
    BY <2>2, MaxOfMember
<1>2. RowStep(j, "queued", row[j].started, row[j].planned, MaxOf(D))
  <2>1. row[j].started \in BOOLEAN /\ row[j].planned \in BOOLEAN
    BY <1>1 DEF RowType
  <2>2. row' = [row EXCEPT ![j] = [@ EXCEPT !.st = "queued", !.started = row[j].started,
                                            !.planned = row[j].planned, !.deferrals = MaxOf(D)]]
    BY <1>1 DEF Defer, RowType, RequestInv, TypeOK
  <2>. QED
    BY <1>1, <1>11, <2>1, <2>2, RowStepMade
<1>3. UNCHANGED <<menu, sched, owed, missed, before>>
    BY DEF Defer
<1>12. cuts' \in [Jobs -> 0..MaxCuts] /\ \A i \in Jobs : cuts'[i] >= cuts[i]
    BY <1>10, RequestAssumption DEF RequestInv, TypeOK
<1>4. TypeOK'
    BY <1>1, <1>2, <1>3, <1>12 DEF RequestInv, TypeOK, RowStep
<1>5. OwedCovered'
    BY <1>1, <1>2, <1>3, <1>12 DEF RequestInv, OwedCovered, RowStep, Live, Rows
<1>6. PlanWhole'
    BY <1>1, <1>2, <1>3, <1>12 DEF RequestInv, PlanWhole, RowStep, Rows
<1>7. FreshIds' /\ KeepUnplanned'
    BY <1>1, <1>2, <1>3, <1>12 DEF RequestInv, TypeOK, FreshIds, KeepUnplanned, RowStep, Rows
<1>8. CutsReachable'
  <2>1. \A i \in Rows : row'[i].by = row[i].by /\ (row'[i].st = "cancelled" <=> row[i].st = "cancelled")
    BY <1>1, <1>2 DEF RowStep, Rows
  <2>2. \A i \in Rows : Live(i)' => Live(i)
    BY <1>1, <1>2 DEF RowStep, Rows, Live
  <2>3. \A i, k \in Jobs : cuts[k] >= before[i] => cuts'[k] >= before'[i]
    BY <1>3, <1>12, RequestAssumption DEF RequestInv, TypeOK
  <2>4. \A i \in Rows : Live(i) =>
           before[i] = 0 \/ \E k \in Rows : row[k].by = i /\ cuts[k] >= before[i]
    BY DEF RequestInv, CutsReachable
  <2>5. \A i \in Rows : row[i].by # 0 => row[i].st = "cancelled"
    BY DEF RequestInv, CutsReachable
  <2>6. ASSUME NEW i \in Rows, Live(i)'
        PROVE  before'[i] = 0 \/ \E k \in Rows : row'[k].by = i /\ cuts'[k] >= before'[i]
    BY <2>1, <2>2, <2>3, <2>4, <2>6, <1>3 DEF Rows
  <2>. QED
    BY <2>1, <2>5, <2>6, <1>2 DEF CutsReachable, RowStep
<1>9. CutsCarried'
    BY <1>1, <1>2, <1>3, <1>12 DEF RequestInv, TypeOK, CutsCarried, RowStep, Rows
<1>. QED
    BY <1>4, <1>5, <1>6, <1>7, <1>8, <1>9 DEF RequestInv

\* A deferred job is superseded, and its requests handed over.
LEMMA FireSupersedeKeeps ==
    ASSUME RequestInv, FireSupersede
    PROVE  RequestInv'
<1>. DEFINE S == Superseded
            moved == UNION {owed[j] : j \in S}
<1>1. PICK k \in Jobs : k = sched.keep
    BY DEF RequestInv, TypeOK, FireSupersede
<1>2. PICK p \in Specs : p = sched.spec
    BY SpecsValid DEF RequestInv, TypeOK, FireSupersede
<1>3. /\ k \in Rows /\ ~row[k].planned /\ row[k].spec = p /\ p.type = "sync"
      /\ ~p.dry /\ ~Targeted(p) /\ p \in SpecType
    BY <1>1, <1>2, ScheduleAssumption, SpecsValid
       DEF RequestInv, TypeOK, KeepUnplanned, FireSupersede, Targeted
<1>4. \A j \in S : /\ j \in Rows /\ j # k /\ j \in Jobs /\ row[j] \in RowType
                   /\ row[j].st = "queued" /\ ~row[j].spec.dry /\ row[j].spec.type = "sync"
                   /\ CoversSources(p.src, row[j].spec.src) /\ (row[j].spec.allow => p.allow)
                   /\ ~row[j].spec.release
    BY <1>1, <1>2 DEF Superseded, Queued, Supersedes, RequestInv, TypeOK, Rows
<1>. HIDE DEF S
<1>5. /\ row' = [j \in Jobs |->
                   IF j \in S THEN [row[j] EXCEPT !.st = "cancelled", !.by = k]
                   ELSE IF j \in Rows /\ row[j].by \in S THEN [row[j] EXCEPT !.by = k]
                   ELSE row[j]]
      /\ owed' = [j \in Jobs |-> IF j \in S THEN {} ELSE IF j = k THEN owed[j] \cup moved ELSE owed[j]]
      /\ missed' = [j \in Jobs |-> IF j \in S THEN {}
                                   ELSE IF j = k THEN missed[j] \cup moved ELSE missed[j]]
      /\ sched' = Idle
      /\ UNCHANGED <<menu, cuts>>
    BY <1>1 DEF FireSupersede, HandOver, S
<1>6. before' = [before EXCEPT ![k] = MaxOf({before[k]} \cup {cuts[j] : j \in S} \cup {before[j] : j \in S})]
    BY <1>1 DEF FireSupersede, HandOver, S, RequestInv, TypeOK
<1>7. \A j \in Rows :
         /\ row'[j] \in RowType
         /\ row'[j].spec = row[j].spec
         /\ row'[j].started = row[j].started /\ row'[j].planned = row[j].planned
         /\ row'[j].st = (IF j \in S THEN "cancelled" ELSE row[j].st)
         /\ row'[j].by = (IF j \in S \/ row[j].by \in S THEN k ELSE row[j].by)
    BY <1>5 DEF RowType, RequestInv, TypeOK, Rows
<1>8. /\ row' \in [Jobs -> RowType \cup {None}]
      /\ Rows' = Rows
      /\ \A j \in Jobs \ Rows : row'[j] = row[j] /\ row[j] = None
  <2>1. \A j \in Jobs \ Rows : row'[j] = row[j] /\ row[j] = None
    BY <1>4, <1>5 DEF Rows
  <2>. QED
    BY <1>5, <1>7, <2>1, NoneAssumption DEF Rows
<1>9. /\ owed \in [Jobs -> SUBSET Specs] /\ missed \in [Jobs -> SUBSET Specs]
      /\ cuts \in [Jobs -> 0..MaxCuts] /\ before \in [Jobs -> 0..MaxCuts]
      /\ MaxCuts \in Nat
    BY RequestAssumption DEF RequestInv, TypeOK
<1>10. moved \subseteq Specs
    BY <1>4, <1>9
<1>11. \A r \in moved : Does(p, r)
  <2>. SUFFICES ASSUME NEW j \in S, NEW r \in owed[j] PROVE Does(p, r)
    OBVIOUS
  <2>1. Does(row[j].spec, r) /\ row[j].spec \in SpecType
    BY <1>4 DEF RequestInv, OwedCovered, Live, RowType
  <2>2. SourcesOf(row[j].spec) \subseteq SourcesOf(p)
    BY <1>3, <1>4, <2>1 DEF SourcesOf, CoversSources, SpecType
  <2>3. FilesOf(row[j].spec) \subseteq FilesOf(p)
    BY <1>3, <2>1 DEF FilesOf, Targeted, Everything, SpecType
  <2>4. r \in SpecType /\ ValidSpec(r)
    BY <1>4, <1>9, SpecsValid
  <2>5. p.type = row[j].spec.type /\ p.dry = row[j].spec.dry
    BY <1>3, <1>4, <2>1 DEF SpecType
  <2>. QED
    BY <1>3, <1>4, <2>1, <2>2, <2>3, <2>4, <2>5 DEF Does, ValidSpec
<1>. HIDE DEF moved
<1>12. /\ before' \in [Jobs -> 0..MaxCuts]
       /\ \A j \in Jobs \ {k} : before'[j] = before[j]
       /\ before'[k] \in {before[k]} \cup {cuts[j] : j \in S} \cup {before[j] : j \in S}
  <2>. DEFINE B == {before[k]} \cup {cuts[j] : j \in S} \cup {before[j] : j \in S}
  <2>1. B \subseteq 0..MaxCuts /\ B # {}
    BY <1>4, <1>9
  <2>2. MaxOf(B) \in B
    BY <1>9, <2>1, MaxOfMember
  <2>. QED
    BY <1>6, <1>9, <2>1, <2>2
<1>13. TypeOK'
    BY <1>5, <1>8, <1>9, <1>10, <1>12 DEF TypeOK, Idle, RequestInv
<1>14. OwedCovered'
  <2>. SUFFICES ASSUME NEW j \in Rows, (Live(j) /\ ~row[j].spec.dry)'
                PROVE  (\A r \in owed'[j] : Does(row'[j].spec, r)) /\ missed'[j] \subseteq owed'[j]
    BY <1>8 DEF OwedCovered
  <2>1. j \notin S /\ Live(j) /\ ~row[j].spec.dry /\ row'[j].spec = row[j].spec
    BY <1>7 DEF Live
  <2>2. (\A r \in owed[j] : Does(row[j].spec, r)) /\ missed[j] \subseteq owed[j]
    BY <2>1 DEF RequestInv, OwedCovered
  <2>3. CASE j = k
    BY <1>3, <1>5, <1>11, <2>1, <2>2, <2>3
  <2>4. CASE j # k
    BY <1>5, <2>1, <2>2, <2>4 DEF Rows
  <2>. QED
    BY <2>3, <2>4
<1>15. PlanWhole'
  <2>1. \A j \in Rows : j # k => missed'[j] \subseteq missed[j]
    BY <1>5 DEF Rows
  <2>. QED
    BY <1>3, <1>7, <1>8, <2>1 DEF RequestInv, PlanWhole
<1>16. FreshIds' /\ KeepUnplanned'
    BY <1>3, <1>4, <1>5, <1>8, <1>12 DEF RequestInv, FreshIds, KeepUnplanned, Idle
<1>17. CutsReachable'
  <2>1. \A j \in Rows : row'[j].by # 0 => row'[j].st = "cancelled"
    BY <1>4, <1>7, RequestAssumption DEF RequestInv, CutsReachable, Rows
  <2>2. \A j \in Rows : Live(j) =>
           before[j] = 0 \/ \E i \in Rows : row[i].by = j /\ cuts[i] >= before[j]
    BY DEF RequestInv, CutsReachable
  <2>3. ASSUME NEW j \in Rows, Live(j)'
        PROVE  before'[j] = 0 \/ \E i \in Rows : row'[i].by = j /\ cuts'[i] >= before'[j]
    <3>1. Live(j) /\ j \notin S
      BY <1>7, <2>3 DEF Live
    <3>2. CASE j # k
      <4>1. \A i \in Rows : row[i].by = j => row'[i].by = j
        <5>. SUFFICES ASSUME NEW i \in Rows, row[i].by = j PROVE row'[i].by = j
          OBVIOUS
        <5>1. j # 0
          BY RequestAssumption DEF Rows
        <5>2. i \notin S
          BY <1>4, <5>1 DEF RequestInv, CutsReachable
        <5>. QED
          BY <1>7, <5>2, <3>1
      <4>. QED
        BY <4>1, <2>2, <3>1, <3>2, <1>5, <1>12 DEF Rows
    <3>3. CASE j = k
      <4>1. \A i \in Rows : row[i].by = k \/ row[i].by \in S \/ i \in S => row'[i].by = k
        BY <1>7
      <4>2. CASE before'[k] = before[k]
        BY <4>1, <4>2, <2>2, <3>1, <3>3, <1>5
      <4>3. CASE \E i \in S : before'[k] = cuts[i]
        <5>1. PICK i \in S : before'[k] = cuts[i]
          BY <4>3
        <5>2. i \in Rows /\ row'[i].by = k /\ cuts' = cuts /\ cuts[i] \in 0..MaxCuts
          BY <5>1, <4>1, <1>4, <1>5, <1>9
        <5>3. cuts'[i] >= before'[k]
          BY <5>1, <5>2
        <5>. QED
          BY <5>2, <5>3, <3>3
      <4>4. CASE \E i \in S : before'[k] = before[i]
        <5>1. PICK i \in S : before'[k] = before[i]
          BY <4>4
        <5>2. i \in Rows /\ Live(i)
          BY <1>4 DEF Live
        <5>3. before[i] = 0 \/ \E w \in Rows : row[w].by = i /\ cuts[w] >= before[i]
          BY <5>2, <2>2
        <5>4. \A w \in Rows : row[w].by = i => row'[w].by = k
          BY <4>1, <5>1
        <5>. QED
          BY <5>1, <5>3, <5>4, <3>3, <1>5
      <4>. QED
        BY <4>2, <4>3, <4>4, <1>12
    <3>. QED
      BY <3>2, <3>3
  <2>. QED
    BY <2>1, <2>3, <1>8 DEF CutsReachable
<1>18. CutsCarried'
    BY <1>3, <1>5, <1>7, <1>8, <1>12 DEF RequestInv, CutsCarried, Rows
<1>. QED
    BY <1>13, <1>14, <1>15, <1>16, <1>17, <1>18 DEF RequestInv

-----------------------------------------------------------------------------

\* Every state satisfies the invariant.
THEOREM RequestsHold == Spec => []RequestInv
<1>1. RequestInv /\ [Next]_vars => RequestInv'
    BY AskKeeps, FireCheckKeeps, FireEnqueueKeeps, FireSupersedeKeeps, FireLostKeeps, BeginKeeps,
       PlanKeeps, FinishKeeps, CancelKeeps, RequeueKeeps, DeferKeeps, StutterKeeps DEF Next
<1>. QED
    BY <1>1, InitRequests, PTL DEF Spec

\* The promise of Enqueue, for any requests and schedules: a completed job planned
\* after, and with params that cover, every request that was answered with it or with
\* a sync it superseded.
THEOREM NoRequestLost == Spec => []Promise
<1>1. RequestInv => Promise
    BY DEF RequestInv, PlanWhole, Promise
<1>. QED
    BY <1>1, RequestsHold, PTL

\* The window cuts of superseded syncs reach the plan of the sync that stands for
\* them, through any chain of schedule fires.
THEOREM CutsReachPlans == Spec => []CutsCarried
<1>1. RequestInv => CutsCarried
    BY DEF RequestInv
<1>. QED
    BY <1>1, RequestsHold, PTL
=============================================================================
