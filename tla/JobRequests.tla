----------------------------- MODULE JobRequests -----------------------------
(***************************************************************************)
(* What a request to run a job is answered with: the enqueue dedupe, the   *)
(* coalescing of targeted requests, deferrals, and scheduled syncs that    *)
(* supersede deferred ones (internal/jobqueue: store.go, coalesce.go,      *)
(* defer.go, items.go, scheduler.go).                                      *)
(*                                                                         *)
(* All requests are for one destination (syncs, verifies, retentions) and  *)
(* one integration (refreshes); the queries never look across them. A      *)
(* request is answered with a job; the job does the request's work if it   *)
(* plans after the request, with params that cover it. What the manager    *)
(* does with a row (JobQueue) is reduced to the row's transitions.         *)
(***************************************************************************)
EXTENDS Integers, FiniteSets

CONSTANTS
    Jobs,           \* row ids
    Menus,          \* settings: the specs asked for, those schedules fire, a bound on rows
    Sources,        \* sources of the destination
    Targets,        \* values of Params.Paths and Params.ArrItemIDs
    Under,          \* the files or items below each target
    MaxTargets,     \* jobs.MaxTargetPaths, jobs.MaxTargetItems
    MaxDeferrals,   \* bound: deferrals of one job explored
    MaxCuts,        \* bound: window cuts of one file explored
    None            \* no row

SpecType == [type : {"sync", "verify", "retention", "refresh"}, src : SUBSET Sources,
             targets : SUBSET Targets, allow : BOOLEAN, after : BOOLEAN, release : BOOLEAN,
             dry : BOOLEAN]

\* The canonical jobs.Spec values that callers and schedules ask for.
Specs == UNION {m.asks \cup m.fires : m \in Menus}

\* normalizeSpec and what it calls refuse the others (destinations, integrations
\* and the fields of releases are not told apart).
ValidSpec(s) ==
    /\ s.type \notin {"sync", "refresh"} => s.targets = {}
    /\ s.release => s.type = "sync"
    /\ s.after => s.type = "refresh"
    /\ Cardinality(s.targets) <= MaxTargets
    /\ s.type = "sync" /\ s.targets # {} => Cardinality(s.src) = 1 /\ ~s.release
    /\ s.after => s.targets # {}

ASSUME RequestAssumption ==
    /\ Jobs \subseteq Nat \ {0} /\ IsFiniteSet(Jobs)
    /\ Menus \subseteq [asks : SUBSET SpecType, fires : SUBSET SpecType, rows : Jobs]
    /\ MaxTargets \in Nat \ {0} /\ MaxDeferrals \in Nat /\ MaxCuts \in Nat
    /\ \A s \in Specs : ValidSpec(s)

\* The Params of a schedule name a destination or an integration and nothing else.
ASSUME ScheduleAssumption ==
    \A m \in Menus : \A s \in m.fires : s.targets = {} /\ ~s.dry

\* No two targets are the same path.
ASSUME TargetAssumption ==
    /\ IsFiniteSet(Targets)
    /\ \A t, u \in Targets : Under[t] = Under[u] => t = u

\* A row of the jobs table.
RowType == [st : {"queued", "running", "completed", "failed", "cancelled"}, spec : SpecType,
            started : BOOLEAN, planned : BOOLEAN, deferrals : 0..MaxDeferrals, by : Jobs \cup {0}]

ASSUME NoneAssumption == None \notin RowType

VARIABLES
    menu,    \* the setting, chosen once
    row,     \* the jobs table
    cuts,    \* windowCuts of a large file on the job's pending items
    sched,   \* the scheduler goroutine: [at, spec, keep]
    owed,    \* history: the requests each unfinished job stands for
    missed,  \* history: those its plan does not (yet) include
    before   \* history: the window cuts of the syncs it replaced

vars == <<menu, row, cuts, sched, owed, missed, before>>

Idle == [at |-> "idle", spec |-> None, keep |-> 0]

Init ==
    /\ menu \in Menus
    /\ row = [j \in Jobs |-> None]
    /\ cuts = [j \in Jobs |-> 0]
    /\ sched = Idle
    /\ owed = [j \in Jobs |-> {}]
    /\ missed = [j \in Jobs |-> {}]
    /\ before = [j \in Jobs |-> 0]

Rows == {j \in Jobs : row[j] # None}
Queued == {j \in Rows : row[j].st = "queued"}
Running == {j \in Rows : row[j].st = "running"}
\* deferredCond; a not_before is only ever set together with deferrals + 1.
Deferred(j) == row[j].deferrals > 0

MinOf(S) == CHOOSE i \in S : \A j \in S : i <= j
MaxOf(S) == CHOOSE i \in S : \A j \in S : i >= j

-----------------------------------------------------------------------------
(* Enqueue: Store.createJob, one transaction.                              *)

Targeted(p) == p.targets # {}
WithoutTargets(p) == [p EXCEPT !.targets = {}]

\* Types whose resumed job executes its stored plan.
ResumesStoredPlan(t) == t \in {"sync", "verify", "retention"}

\* Mutant: a re-queued job whose plan is complete answers an identical request.
MutIdentical(s) == {j \in Queued : row[j].spec = s /\ ~Deferred(j)}

\* The queued jobs an identical request may be answered with.
Identical(s) ==
    {j \in Queued : /\ row[j].spec = s
                    /\ ~(~s.dry /\ ResumesStoredPlan(s.type)) \/ ~row[j].planned
                    /\ ~Deferred(j)}

\* The queued jobs a targeted request may be coalesced with.
Candidates(s) ==
    {j \in Queued : /\ ~row[j].started /\ ~row[j].spec.dry /\ ~Deferred(j)
                    /\ row[j].spec.type = s.type /\ s.type \in {"sync", "refresh"}}

CoversSpec(q, s) ==
    /\ ~Targeted(q)
    /\ s.allow => q.allow
    /\ s.type = "sync" => q.src = {} \/ s.src \subseteq q.src
    /\ s.type = "refresh" => (s.after => q.after)

\* canonicalPaths: no path inside another listed one. (Items have no ancestors.)
Canonical(T) == {t \in T : ~\E u \in T : u # t /\ Under[t] \subseteq Under[u]}

\* mergeInto: beyond the limit the job becomes untargeted.
Merged(q, s) ==
    LET T == Canonical(q.targets \cup s.targets)
    IN  [q EXCEPT !.targets = IF Cardinality(T) > MaxTargets THEN {} ELSE T]

NewRow(s) == [st |-> "queued", spec |-> s, started |-> FALSE, planned |-> FALSE,
              deferrals |-> 0, by |-> 0]

\* One call of Enqueue(s) that is answered with job j.
Enqueue(s, j) ==
    LET cands == Candidates(s)
        covering == {c \in cands : CoversSpec(row[c].spec, s)}
        mergeable == {c \in cands : /\ Targeted(row[c].spec)
                                    /\ WithoutTargets(row[c].spec) = WithoutTargets(s)}
        coalesces == ~s.dry /\ Targeted(s)
    IN
    /\ IF Identical(s) # {} THEN
          /\ j = MinOf(Identical(s))
          /\ row' = row
       ELSE IF coalesces /\ covering # {} THEN
          /\ j = MinOf(covering)
          /\ row' = row
       ELSE IF coalesces /\ mergeable # {} THEN
          /\ j = MinOf(mergeable)
          /\ row' = [row EXCEPT ![j].spec = Merged(row[j].spec, s)]
       ELSE
          /\ j \notin Rows /\ j <= menu.rows /\ \A i \in Jobs : i < j => i \in Rows
          /\ row' = [row EXCEPT ![j] = NewRow(s)]
    /\ owed' = [owed EXCEPT ![j] = @ \cup {s}]
    /\ missed' = [missed EXCEPT ![j] = @ \cup {s}]

Ask(s) ==
    /\ \E j \in Jobs : Enqueue(s, j)
    /\ UNCHANGED <<menu, cuts, sched, before>>

-----------------------------------------------------------------------------
(* The life of a row.                                                      *)

\* The sources and the files or items a job with params p works on.
SourcesOf(p) == IF p.src = {} THEN Sources ELSE p.src
Everything == UNION {Under[t] : t \in Targets}
FilesOf(p) == IF Targeted(p) THEN UNION {Under[t] : t \in p.targets} ELSE Everything

\* What it means that a job with params p does what s asks for. (A refresh reads an
\* integration, whatever its source ids.)
Does(p, s) ==
    /\ p.type = s.type /\ p.dry = s.dry
    /\ s.type # "refresh" => SourcesOf(s) \subseteq SourcesOf(p)
    /\ FilesOf(s) \subseteq FilesOf(p)
    /\ (s.allow => p.allow) /\ (s.after => p.after) /\ (s.release => p.release)

SameKey(t, u) == (t = "refresh") <=> (u = "refresh")

\* markRunning. A refresh starts over; the other types resume a complete plan.
Begin(j) ==
    /\ j \in Queued
    /\ \A i \in Running : ~SameKey(row[i].spec.type, row[j].spec.type)
    /\ row' = [row EXCEPT ![j].st = "running", ![j].started = TRUE,
                          ![j].planned = @ /\ ResumesStoredPlan(row[j].spec.type)]
    /\ UNCHANGED <<menu, cuts, sched, owed, missed, before>>

\* A timing assumption: a job plans after it scanned its sources, long after the
\* scheduler, which queued it, made the transaction that follows at once.
InTime(j) == ~(sched.at = "supersede" /\ sched.keep = j)

\* carryWindowCuts: the most cuts of the file among the syncs that j superseded.
CarryWindowCuts(j) == MaxOf({0} \cup {cuts[i] : i \in {k \in Rows : row[k].by = j}})

\* Mutant: the plan does not look at the items of the superseded jobs.
MutPlan(j) ==
    /\ j \in Running /\ ~row[j].planned /\ InTime(j)
    /\ row' = [row EXCEPT ![j].planned = TRUE]
    /\ missed' = [missed EXCEPT ![j] = {s \in @ : ~Does(row[j].spec, s)}]
    /\ UNCHANGED <<menu, cuts, sched, owed, before>>

\* AddItems with final = true, after a scan: planned_at, and carryWindowCuts.
Plan(j) ==
    /\ j \in Running /\ ~row[j].planned /\ InTime(j)
    /\ row' = [row EXCEPT ![j].planned = TRUE]
    /\ missed' = [missed EXCEPT ![j] = {s \in @ : ~Does(row[j].spec, s)}]
    /\ cuts' = [cuts EXCEPT ![j] = CarryWindowCuts(j)]
    /\ UNCHANGED <<menu, sched, owed, before>>

\* finishJob.
Finish(j) ==
    /\ j \in Running
    /\ \E st \in {"completed", "failed", "cancelled"} :
          /\ st = "completed" => row[j].planned
          /\ row' = [row EXCEPT ![j].st = st]
          /\ missed' = [missed EXCEPT ![j] = IF st = "completed" THEN @ ELSE {}]
    /\ owed' = [owed EXCEPT ![j] = {}]
    /\ UNCHANGED <<menu, cuts, sched, before>>

\* cancelQueued.
Cancel(j) ==
    /\ j \in Queued
    /\ row' = [row EXCEPT ![j].st = "cancelled"]
    /\ owed' = [owed EXCEPT ![j] = {}]
    /\ missed' = [missed EXCEPT ![j] = {}]
    /\ UNCHANGED <<menu, cuts, sched, before>>

\* requeue, or recoverCrashed at the next start.
Requeue(j) ==
    /\ j \in Running
    /\ row' = [row EXCEPT ![j].st = "queued"]
    /\ UNCHANGED <<menu, cuts, sched, owed, missed, before>>

\* deferJob at the end of a window, which may have cut the upload of the file.
Defer(j) ==
    /\ j \in Running /\ row[j].deferrals < MaxDeferrals
    /\ row' = [row EXCEPT ![j].st = "queued",
                  ![j].deferrals = MaxOf({@ + 1} \cup {row[i].deferrals : i \in {k \in Rows : row[k].by = j}})]
    /\ \E cut \in {0, 1} :
          /\ cut = 1 => row[j].planned /\ cuts[j] < MaxCuts
          /\ cuts' = [cuts EXCEPT ![j] = @ + cut]
    /\ UNCHANGED <<menu, sched, owed, missed, before>>

-----------------------------------------------------------------------------
(* The scheduler: Scheduler.fire.                                          *)

CoversSources(have, want) == have = {} \/ (want # {} /\ want \subseteq have)

HasDeferred(t) == \E j \in Queued : ~row[j].spec.dry /\ row[j].spec.type = t /\ Deferred(j)

HasRunning(s) ==
    \E j \in Running :
        /\ ~row[j].spec.dry /\ row[j].spec.type = s.type
        /\ IF s.type \in {"sync", "verify"}
             THEN ~Targeted(row[j].spec) /\ CoversSources(row[j].spec.src, s.src)
             ELSE row[j].spec = s

\* fire, up to the enqueue: the run is skipped, or the job is asked for next.
FireCheck(s) ==
    /\ sched.at = "idle"
    /\ ~(s.type \in {"verify", "retention"} /\ HasDeferred(s.type))
    /\ ~HasRunning(s)
    /\ sched' = [at |-> "enqueue", spec |-> s, keep |-> 0]
    /\ UNCHANGED <<menu, row, cuts, owed, missed, before>>

FireEnqueue ==
    /\ sched.at = "enqueue"
    /\ \E j \in Jobs :
          /\ Enqueue(sched.spec, j)
          /\ sched' = IF sched.spec.type = "sync" THEN [sched EXCEPT !.at = "supersede", !.keep = j]
                                                  ELSE Idle
    /\ UNCHANGED <<menu, cuts, before>>

\* What a scheduled sync with params p may replace.
Supersedes(p, j) ==
    /\ CoversSources(p.src, row[j].spec.src)
    /\ row[j].spec.allow => p.allow
    /\ ~row[j].spec.release

Superseded ==
    {j \in Queued \ {sched.keep} : /\ ~row[j].spec.dry /\ row[j].spec.type = "sync" /\ Deferred(j)
                                   /\ Supersedes(sched.spec, j)}

\* The new sync stands for what the replaced ones stood for, none of it planned.
HandOver ==
    LET S == Superseded  k == sched.keep  moved == UNION {owed[j] : j \in S}
    IN  /\ owed' = [j \in Jobs |-> IF j \in S THEN {} ELSE IF j = k THEN owed[j] \cup moved ELSE owed[j]]
        /\ missed' = [j \in Jobs |-> IF j \in S THEN {}
                                     ELSE IF j = k THEN missed[j] \cup moved ELSE missed[j]]
        /\ before' = [before EXCEPT ![k] = MaxOf({@} \cup {cuts[j] : j \in S} \cup {before[j] : j \in S})]


\* supersedeDeferredSyncs, one transaction.
FireSupersede ==
    /\ sched.at = "supersede"
    /\ row' = [j \in Jobs |->
                 IF j \in Superseded THEN [row[j] EXCEPT !.st = "cancelled", !.by = sched.keep]
                 ELSE IF j \in Rows /\ row[j].by \in Superseded THEN [row[j] EXCEPT !.by = sched.keep]
                 ELSE row[j]]
    /\ HandOver
    /\ sched' = Idle
    /\ UNCHANGED <<menu, cuts>>

\* The process ends between two steps of a fire (and comes back).
FireLost ==
    /\ sched.at # "idle"
    /\ sched' = Idle
    /\ UNCHANGED <<menu, row, cuts, owed, missed, before>>

-----------------------------------------------------------------------------

Next ==
    \/ \E s \in menu.asks : Ask(s)
    \/ \E s \in menu.fires : FireCheck(s)
    \/ FireEnqueue \/ FireSupersede \/ FireLost
    \/ \E j \in Jobs : Begin(j) \/ Plan(j) \/ Finish(j) \/ Cancel(j) \/ Requeue(j) \/ Defer(j)

Spec == Init /\ [][Next]_vars

-----------------------------------------------------------------------------
(* Properties.                                                             *)

\* The promise of Enqueue: when the job a request was answered with (or the sync
\* that superseded that job) completes, its plan was made after the request and
\* covers it. No merge, dedupe, resumed plan or supersede loses a request.
Promise ==
    \A j \in Rows : row[j].st = "completed" /\ ~row[j].spec.dry => missed[j] = {}

\* A plan starts from the window cuts of every sync its job replaced, however
\* many schedule fires ago, so a file that never fits a window is given up.
CutsCarried ==
    \A j \in Rows : row[j].planned => cuts[j] >= before[j]

=============================================================================
