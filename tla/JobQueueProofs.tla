---------------------------- MODULE JobQueueProofs ----------------------------
(***************************************************************************)
(* Proofs about JobQueue for every set of jobs, keys, pools and bounds:    *)
(* its types and locks; then, on the lock invariant, that the job manager  *)
(* implements JobLife and that what it counts is right: the slots in use,  *)
(* the rows that run, the runners of a job.                                *)
(***************************************************************************)
EXTENDS JobQueue, TLAPS, FiniteSetTheorems

-----------------------------------------------------------------------------
(* Type correctness.                                                       *)

\* The initial state of New has the right types.
LEMMA InitType == Init => TypeOK
  BY JobsAssumption, PoolsAssumption, BoundsAssumption, KeysAssumption
     DEF Init, TypeOK, IdleCanceller, Status, RunPC, Verdicts, Final

\* Every step of the dispatcher keeps the types.
LEMMA DispatchType == TypeOK /\ Dispatch => TypeOK'
  <1> SUFFICES ASSUME TypeOK, Dispatch PROVE TypeOK'
      OBVIOUS
  <1> USE JobsAssumption, PoolsAssumption, BoundsAssumption, KeysAssumption
  <1> USE DEF TypeOK, db, memory, disp, run, bounds, hist, Status, RunPC, Final
  <1>1. CASE PassStart
      BY <1>1 DEF PassStart, Snapshot, QueuedRows
  <1>2. CASE PassEnd
      BY <1>2 DEF PassEnd
  <1>3. CASE \E j \in Jobs : VisitSkip(j)
      BY <1>3 DEF VisitSkip
  <1>4. CASE \E j \in Jobs : VisitUnrunnable(j)
      BY <1>4 DEF VisitUnrunnable
  <1>5. CASE \E j \in Jobs : VisitNeeds(j)
      BY <1>5 DEF VisitNeeds
  <1>6. CASE NeedsSkip
      BY <1>6 DEF NeedsSkip
  <1>7. CASE Take
      BY <1>7 DEF Take
  <1>8. CASE MarkRunning
      BY <1>8 DEF MarkRunning
  <1>9. CASE MarkLost
      BY <1>9 DEF MarkLost, Forget, DropContext, Verdicts
  <1>10. CASE MarkFails
      BY <1>10 DEF MarkFails, Forget, DropContext, Verdicts
  <1> QED
      BY <1>1, <1>2, <1>3, <1>4, <1>5, <1>6, <1>7, <1>8, <1>9, <1>10 DEF Dispatch

\* finish always decides for a known verdict.
LEMMA VerdictType == \A o \in Outcomes, c \in {"none", "user", "shutdown"} :
                        Verdict(o, c) \in Verdicts \ {"none"}
  BY DEF Verdict, Outcomes, Verdicts, Final

\* Every step of a job's goroutine keeps the types.
LEMMA ExecuteType == ASSUME TypeOK, NEW j \in Jobs, Execute(j) \/ WindowOpens(j) PROVE TypeOK'
  <1> USE JobsAssumption, PoolsAssumption, BoundsAssumption, KeysAssumption
  <1> USE DEF TypeOK, db, memory, disp, run, bounds, hist, Status, RunPC, Final, Verdicts
  <1>1. CASE Invoke(j)
      <2> Verdict("error", cause[j]) \in Verdicts
          BY VerdictType DEF Outcomes
      <2> QED BY <1>1 DEF Invoke
  <1>2. CASE Return(j)
      <2> PICK o \in Outcomes : verdict' = [verdict EXCEPT ![j] = Verdict(o, cause[j])]
          BY <1>2 DEF Return
      <2> Verdict(o, cause[j]) \in Verdicts
          BY VerdictType
      <2> QED BY <1>2 DEF Return
  <1>3. CASE WriteResult(j)
      <2>1. CASE status[j] = "running"
          <3> StatusAfter(verdict[j]) \in Status
              BY DEF StatusAfter
          <3>1. status' \in [Jobs -> Status]
              BY <1>3, <2>1 DEF WriteResult
          <3>2. deferrals' \in [Jobs -> Nat]
              BY <1>3, <2>1 DEF WriteResult
          <3>3. waiting' \in {waiting, waiting \cup {j}}
              BY <1>3, <2>1 DEF WriteResult
          <3> QED BY <1>3, <2>1, <3>1, <3>2, <3>3 DEF WriteResult
      <2>2. CASE status[j] # "running"
          BY <1>3, <2>2 DEF WriteResult
      <2> QED BY <2>1, <2>2
  <1>4. CASE WriteFails(j)
      BY <1>4 DEF WriteFails
  <1>5. CASE Discard(j)
      BY <1>5 DEF Discard, DropContext
  <1>6. CASE Release(j)
      BY <1>6 DEF Release, Forget, DropContext
  <1>7. CASE FireHooks(j)
      BY <1>7 DEF FireHooks
  <1>8. CASE WindowOpens(j)
      BY <1>8 DEF WindowOpens
  <1> QED
      BY <1>1, <1>2, <1>3, <1>4, <1>5, <1>6, <1>7, <1>8 DEF Execute

\* Every API call keeps the types.
LEMMA APIType == TypeOK /\ API => TypeOK'
  <1> SUFFICES ASSUME TypeOK, API PROVE TypeOK'
      OBVIOUS
  <1> USE JobsAssumption, KeysAssumption
  <1> USE DEF TypeOK, db, memory, disp, run, bounds, hist, Status, Final, IdleCanceller
  <1>1. CASE \E j \in Jobs : Enqueue(j)
      BY <1>1 DEF Enqueue
  <1>2. CASE \E j \in Jobs : CancelCall(j)
      BY <1>2 DEF CancelCall
  <1>3. CASE CancelHit
      BY <1>3 DEF CancelHit, SetCause
  <1>4. CASE CancelMiss
      BY <1>4 DEF CancelMiss
  <1>5. CASE CancelQueued
      BY <1>5 DEF CancelQueued
  <1>6. CASE CancelRefused
      BY <1>6 DEF CancelRefused
  <1>7. CASE \E h \in Holders, k \in Keys : HoldKeys(h, k) \/ ReleaseHold(h, k)
      <2> PICK h \in Holders, k \in Keys : HoldKeys(h, k) \/ ReleaseHold(h, k)
          BY <1>7
      <2>1. CASE HoldKeys(h, k)
          BY <2>1 DEF HoldKeys
      <2>2. CASE ReleaseHold(h, k)
          BY <2>2 DEF ReleaseHold
      <2> QED BY <2>1, <2>2
  <1>8. CASE \E n \in WorkerCounts : SetWorkers(n)
      BY <1>8 DEF SetWorkers
  <1> QED
      BY <1>1, <1>2, <1>3, <1>4, <1>5, <1>6, <1>7, <1>8 DEF API

\* Shutdown, crash and recovery keep the types.
LEMMA ProcessType == TypeOK /\ Process => TypeOK'
  <1> SUFFICES ASSUME TypeOK, Process PROVE TypeOK'
      OBVIOUS
  <1> USE JobsAssumption, PoolsAssumption, BoundsAssumption, KeysAssumption
  <1> USE DEF TypeOK, db, memory, disp, run, bounds, hist, Status, RunPC, Final, Verdicts
  <1>1. CASE Stop
      BY <1>1 DEF Stop
  <1>2. CASE CancelRunning
      BY <1>2 DEF CancelRunning
  <1>3. CASE GraceOver
      BY <1>3 DEF GraceOver
  <1>4. CASE Exit \/ Crash
      <2> Lose
          BY <1>4 DEF Exit, Crash
      <2>1. pc' \in [Jobs -> RunPC] /\ verdict' \in [Jobs -> Verdicts]
          BY DEF Lose
      <2> QED BY <2>1 DEF Lose, IdleCanceller
  <1>5. CASE Boot
      BY <1>5 DEF Boot
  <1>6. CASE Start
      <2>1. attempt' \in [Jobs -> 1..MaxAttempts]
          BY <1>6 DEF Start, CrashedTooOften
      <2>2. status' \in [Jobs -> Status]
          BY <1>6 DEF Start
      <2>3. hookDue' \subseteq Jobs
          BY <1>6 DEF Start
      <2> QED BY <1>6, <2>1, <2>2, <2>3 DEF Start
  <1>7. CASE \E j \in Jobs : Abandon(j)
      BY <1>7 DEF Abandon, Forget
  <1> QED
      BY <1>1, <1>2, <1>3, <1>4, <1>5, <1>6, <1>7 DEF Process

\* No step takes a variable of the manager out of its type; in particular the
\* attempt counter of a row never passes MaxAttempts.
THEOREM TypeCorrect == Spec => []TypeOK
  <1>1. TypeOK /\ [Next]_vars => TypeOK'
      <2> SUFFICES ASSUME TypeOK, [Next]_vars PROVE TypeOK'
          OBVIOUS
      <2>1. CASE UNCHANGED vars
          BY <2>1 DEF TypeOK, vars, db, memory, disp, run, bounds, hist
      <2> QED
          BY <2>1, DispatchType, ExecuteType, APIType, ProcessType DEF Next
  <1> QED
      BY InitType, <1>1, PTL DEF Spec

-----------------------------------------------------------------------------
(* Locks: what each active job holds, and who can be running.              *)

\* The dispatcher is idle before Start and once Stop has waited for it.
DispatcherIdle == mgr \in {"down", "new", "draining", "expired"} => dpc = "idle"

\* Runners are disowned only after the grace period, when nothing starts any more.
AbandonedLate == abandoned # {} => mgr = "expired"

\* A process that is not started runs nothing.
NothingActive == mgr \in {"down", "new"} => active = {}

\* The job being marked running has no goroutine yet.
Fresh == dpc = "mark" => pc[cur] = "none"

\* KeyExclusion for every goroutine that is alive, not only in its runner.
Exclusive ==
    \A i, j \in Jobs : i # j /\ pc[i] # "none" /\ pc[j] # "none" => KeysOf[i] \cap KeysOf[j] = {}

LockInv ==
    /\ TypeOK /\ KeysAccounted /\ DispatcherIdle /\ AbandonedLate /\ NothingActive
    /\ Fresh /\ Exclusive /\ RunnerHasRow

\* The lock invariant holds at first.
LEMMA InitLocks == Init => LockInv
  BY InitType, JobsAssumption, KeysAssumption DEF Init, TypeOK, LockInv, KeysAccounted, DispatcherIdle, AbandonedLate, NothingActive,
     Fresh, Exclusive, RunnerHasRow, Unfinished

\* A step of the dispatcher (dispatch, start) keeps it.
LEMMA DispatchLocks == ASSUME LockInv, Dispatch PROVE LockInv'
  <1> TypeOK'
      BY DispatchType DEF LockInv
  <1> USE JobsAssumption, KeysAssumption
  <1> USE DEF LockInv, TypeOK, KeysAccounted, DispatcherIdle, AbandonedLate, NothingActive,
          Fresh, Exclusive, RunnerHasRow, Unfinished, db, memory, disp, run
  <1>1. CASE PassStart
      BY <1>1 DEF PassStart
  <1>2. CASE PassEnd
      BY <1>2 DEF PassEnd
  <1>3. CASE \E j \in Jobs : VisitSkip(j)
      BY <1>3 DEF VisitSkip
  <1>4. CASE \E j \in Jobs : VisitUnrunnable(j)
      BY <1>4 DEF VisitUnrunnable
  <1>5. CASE \E j \in Jobs : VisitNeeds(j)
      BY <1>5 DEF VisitNeeds
  <1>6. CASE NeedsSkip
      BY <1>6 DEF NeedsSkip
  <1>7. CASE Take
      <2>1. cur \in Jobs /\ cur' = cur /\ pc' = pc /\ abandoned' = abandoned /\ abandoned = {}
          BY <1>7 DEF Take
      <2>2. KeysAccounted'
          <3>1. \A k \in Keys : keys'[k] = IF k \in KeysOf[cur] THEN cur ELSE keys[k]
              BY <1>7 DEF Take
          <3>2. \A k \in KeysOf[cur] : k \in Keys /\ keys[k] = NoHolder
              BY <1>7, <2>1 DEF Take, KeysHeld
          <3>3. active' = active \cup {cur} /\ dpc' = "mark"
              BY <1>7 DEF Take
          <3>4. \A j \in active' : j \in Jobs /\ \A k \in KeysOf[j] : k \in Keys
              BY <2>1, <3>3
          <3> QED BY <2>1, <3>1, <3>2, <3>3, <3>4, <1>7 DEF Take
      <2>3. Fresh'
          BY <1>7, <2>1 DEF Take
      <2>4. DispatcherIdle' /\ AbandonedLate' /\ NothingActive'
          BY <1>7, <2>1 DEF Take
      <2>5. Exclusive' /\ RunnerHasRow'
          BY <1>7, <2>1 DEF Take
      <2> QED BY <2>2, <2>3, <2>4, <2>5
  <1>8. CASE MarkRunning
      BY <1>8 DEF MarkRunning
  <1>9. CASE MarkLost
      BY <1>9 DEF MarkLost, Forget, DropContext
  <1>10. CASE MarkFails
      BY <1>10 DEF MarkFails, Forget, DropContext
  <1> QED
      BY <1>1, <1>2, <1>3, <1>4, <1>5, <1>6, <1>7, <1>8, <1>9, <1>10 DEF Dispatch

\* A step of a job's goroutine (execute, finish, deferJob) keeps it.
LEMMA ExecuteLocks == ASSUME LockInv, NEW j \in Jobs, Execute(j) \/ WindowOpens(j) PROVE LockInv'
  <1> TypeOK'
      BY ExecuteType DEF LockInv
  <1> USE JobsAssumption, KeysAssumption
  <1> USE DEF LockInv, TypeOK, KeysAccounted, DispatcherIdle, AbandonedLate, NothingActive,
          Fresh, Exclusive, RunnerHasRow, Unfinished, db, memory, disp, run
  <1>1. CASE Invoke(j)
      <2>1. pc' = [pc EXCEPT ![j] = "running"] \/ pc' = [pc EXCEPT ![j] = "returned"]
          BY <1>1 DEF Invoke
      <2>2. \A i \in Jobs : (pc'[i] = "none") <=> (pc[i] = "none")
          BY <1>1, <2>1 DEF Invoke
      <2>3. KeysAccounted'
          <3> DEFINE Alive(i) == (pc[i] # "none" /\ i \notin abandoned) \/ (dpc = "mark" /\ cur = i)
          <3>1. UNCHANGED <<active, keys, abandoned, dpc, cur>>
              BY <1>1 DEF Invoke
          <3>2. \A i \in Jobs : Alive(i)' <=> Alive(i)
              BY <2>2, <3>1
          <3>3. active = {i \in Jobs : Alive(i)}
              OBVIOUS
          <3> HIDE DEF Alive
          <3>4. active' = {i \in Jobs : Alive(i)'}
              BY <3>1, <3>2, <3>3
          <3> QED BY <3>1, <3>4 DEF Alive
      <2>4. DispatcherIdle' /\ AbandonedLate' /\ NothingActive' /\ Fresh'
          BY <1>1, <2>2 DEF Invoke
      <2>5. Exclusive'
          BY <1>1, <2>2 DEF Invoke
      <2>6. RunnerHasRow'
          BY <1>1, <2>1 DEF Invoke
      <2> QED BY <2>3, <2>4, <2>5, <2>6
  <1>2. CASE Return(j)
      BY <1>2 DEF Return
  <1>3. CASE WriteResult(j)
      BY <1>3 DEF WriteResult, StatusAfter
  <1>4. CASE WriteFails(j)
      BY <1>4 DEF WriteFails
  <1>5. CASE Discard(j)
      BY <1>5 DEF Discard, DropContext
  <1>6. CASE Release(j)
      BY <1>6 DEF Release, Forget, DropContext
  <1>7. CASE FireHooks(j)
      BY <1>7 DEF FireHooks
  <1>8. CASE WindowOpens(j)
      BY <1>8 DEF WindowOpens
  <1> QED
      BY <1>1, <1>2, <1>3, <1>4, <1>5, <1>6, <1>7, <1>8 DEF Execute

\* Enqueue, Cancel and the holders of keys keep it.
LEMMA APILocks == ASSUME LockInv, API PROVE LockInv'
  <1> TypeOK'
      BY APIType DEF LockInv
  <1> USE JobsAssumption, KeysAssumption
  <1> USE DEF LockInv, TypeOK, KeysAccounted, DispatcherIdle, AbandonedLate, NothingActive,
          Fresh, Exclusive, RunnerHasRow, Unfinished, db, memory, disp, run
  <1>1. CASE \E j \in Jobs : Enqueue(j)
      BY <1>1 DEF Enqueue
  <1>2. CASE \E j \in Jobs : CancelCall(j)
      BY <1>2 DEF CancelCall
  <1>3. CASE CancelHit
      BY <1>3 DEF CancelHit, SetCause
  <1>4. CASE CancelMiss
      BY <1>4 DEF CancelMiss
  <1>5. CASE CancelQueued
      BY <1>5 DEF CancelQueued
  <1>6. CASE CancelRefused
      BY <1>6 DEF CancelRefused
  <1>7. CASE \E h \in Holders, k \in Keys : HoldKeys(h, k)
      BY <1>7 DEF HoldKeys
  <1>8. CASE \E h \in Holders, k \in Keys : ReleaseHold(h, k)
      BY <1>8 DEF ReleaseHold
  <1>9. CASE \E n \in WorkerCounts : SetWorkers(n)
      BY <1>9 DEF SetWorkers
  <1> QED
      BY <1>1, <1>2, <1>3, <1>4, <1>5, <1>6, <1>7, <1>8, <1>9 DEF API

\* Start, Stop and the end of the process keep it.
LEMMA ProcessLocks == ASSUME LockInv, Process PROVE LockInv'
  <1> TypeOK'
      BY ProcessType DEF LockInv
  <1> USE JobsAssumption, KeysAssumption
  <1> USE DEF LockInv, TypeOK, KeysAccounted, DispatcherIdle, AbandonedLate, NothingActive,
          Fresh, Exclusive, RunnerHasRow, Unfinished, db, memory, disp, run
  <1>1. CASE Stop
      BY <1>1 DEF Stop
  <1>2. CASE CancelRunning
      BY <1>2 DEF CancelRunning
  <1>3. CASE GraceOver
      BY <1>3 DEF GraceOver
  <1>4. CASE Exit \/ Crash
      <2> Lose
          BY <1>4 DEF Exit, Crash
      <2>1. /\ active' = {} /\ abandoned' = {} /\ dpc' = "idle" /\ mgr' = "down"
            /\ \A j \in Jobs : pc'[j] = "none"
            /\ \A k \in Keys : keys'[k] = NoHolder
          BY DEF Lose
      <2>2. KeysAccounted'
          <3>1. {j \in Jobs : (pc'[j] # "none" /\ j \notin abandoned') \/ (dpc' = "mark" /\ cur' = j)} = {}
              BY <2>1
          <3>2. \A k \in Keys : keys'[k] \notin Jobs
              BY <2>1
          <3> QED BY <2>1, <3>1, <3>2
      <2>3. DispatcherIdle' /\ AbandonedLate' /\ NothingActive' /\ Fresh'
          BY <2>1
      <2>4. Exclusive' /\ RunnerHasRow'
          BY <2>1
      <2> QED BY <2>2, <2>3, <2>4
  <1>5. CASE Boot
      BY <1>5 DEF Boot
  <1>6. CASE Start
      BY <1>6 DEF Start, CrashedTooOften
  <1>7. CASE \E j \in Jobs : Abandon(j)
      BY <1>7 DEF Abandon, Forget
  <1> QED
      BY <1>1, <1>2, <1>3, <1>4, <1>5, <1>6, <1>7 DEF Process

\* The lock invariant holds in every reachable state.
LEMMA LocksHold == Spec => []LockInv
  <1>1. LockInv /\ [Next]_vars => LockInv'
      <2> SUFFICES ASSUME LockInv, [Next]_vars PROVE LockInv'
          OBVIOUS
      <2>1. CASE UNCHANGED vars
          BY <2>1 DEF LockInv, TypeOK, KeysAccounted, DispatcherIdle, AbandonedLate, NothingActive,
             Fresh, Exclusive, RunnerHasRow, vars, db, memory, disp, run, bounds, hist
      <2> QED
          BY <2>1, DispatchLocks, ExecuteLocks, APILocks, ProcessLocks DEF Next
  <1> QED
      BY InitLocks, <1>1, PTL DEF Spec

\* Two jobs that share a lock key never run at the same time, disowned
\* stragglers included.
THEOREM KeysExclude == Spec => []KeyExclusion
  <1>1. LockInv => KeyExclusion
      BY DEF LockInv, Exclusive, KeyExclusion
  <1> QED
      BY LocksHold, <1>1, PTL

\* Every path out of a job gives back its entry and its keys.
THEOREM NothingLeaks == Spec => []KeysAccounted
  <1>1. LockInv => KeysAccounted
      BY DEF LockInv
  <1> QED
      BY LocksHold, <1>1, PTL

\* A key held by the unlock endpoint keeps every job that needs it out.
THEOREM HoldsExclude == Spec => []HoldExcludes
  <1>1. LockInv => HoldExcludes
      BY KeysAssumption DEF LockInv, TypeOK, KeysAccounted, HoldExcludes
  <1> QED
      BY LocksHold, <1>1, PTL

\* The runner of a job only works while the job's row says running.
THEOREM RunnersHaveRows == Spec => []RunnerHasRow
  <1>1. LockInv => RunnerHasRow
      BY DEF LockInv
  <1> QED
      BY LocksHold, <1>1, PTL

-----------------------------------------------------------------------------
(* What is due and what is done for a job that ends.                       *)

\* A disowned runner's result is never written.
Disowned == \A j \in abandoned : pc[j] # "written"

\* Hooks are due for a job that ended and were not called for it yet.
DueOnce == \A j \in hookDue : status[j] \in Final /\ hooked[j] = 0

\* A goroutine that stored a final state owes the hooks, and nobody else does.
OwesHooks ==
    \A j \in Jobs : pc[j] = "written" /\ verdict[j] \in Final =>
        status[j] \in Final /\ hooked[j] = 0 /\ j \notin hookDue

\* Hooks were called only for jobs that ended.
HookedEnded == \A j \in Jobs : status[j] \notin Final => hooked[j] = 0

LifeInv == LockInv /\ Disowned /\ DueOnce /\ OwesHooks /\ HookedEnded

\* What is due and done, at first.
LEMMA InitLife == Init => LifeInv
  <1> SUFFICES ASSUME Init PROVE LifeInv
      OBVIOUS
  <1>1. LockInv
      BY InitLocks
  <1>2. Disowned /\ DueOnce /\ OwesHooks /\ HookedEnded
      BY DEF Init, Disowned, DueOnce, OwesHooks, HookedEnded
  <1> QED BY <1>1, <1>2 DEF LifeInv

\* A step of the dispatcher keeps it.
LEMMA DispatchLife == ASSUME LifeInv, Dispatch PROVE LifeInv'
  <1> LockInv'
      BY DispatchLocks DEF LifeInv
  <1> USE JobsAssumption
  <1> USE DEF LifeInv, LockInv, TypeOK, KeysAccounted, DispatcherIdle, AbandonedLate, Fresh, Disowned, DueOnce,
          OwesHooks, HookedEnded, Final, db, memory, disp, run, hist
  <1>1. CASE PassStart
      BY <1>1 DEF PassStart
  <1>2. CASE PassEnd
      BY <1>2 DEF PassEnd
  <1>3. CASE \E j \in Jobs : VisitSkip(j)
      BY <1>3 DEF VisitSkip
  <1>4. CASE \E j \in Jobs : VisitUnrunnable(j)
      BY <1>4 DEF VisitUnrunnable
  <1>5. CASE \E j \in Jobs : VisitNeeds(j)
      BY <1>5 DEF VisitNeeds
  <1>6. CASE NeedsSkip
      BY <1>6 DEF NeedsSkip
  <1>7. CASE Take
      BY <1>7 DEF Take
  <1>8. CASE MarkRunning
      BY <1>8 DEF MarkRunning
  <1>9. CASE MarkLost
      BY <1>9 DEF MarkLost, DropContext
  <1>10. CASE MarkFails
      BY <1>10 DEF MarkFails, DropContext
  <1> QED
      BY <1>1, <1>2, <1>3, <1>4, <1>5, <1>6, <1>7, <1>8, <1>9, <1>10 DEF Dispatch

\* A step of a job's goroutine keeps it: a final state is stored once, then the hooks are due.
LEMMA ExecuteLife == ASSUME LifeInv, NEW j \in Jobs, Execute(j) \/ WindowOpens(j) PROVE LifeInv'
  <1> LockInv'
      BY ExecuteLocks DEF LifeInv
  <1> USE JobsAssumption
  <1> USE DEF LifeInv, LockInv, TypeOK, Disowned, DueOnce, OwesHooks, HookedEnded, Final,
          db, memory, disp, run, hist
  <1>1. CASE Invoke(j)
      BY <1>1 DEF Invoke
  <1>2. CASE Return(j)
      BY <1>2 DEF Return
  <1>3. CASE WriteResult(j)
      BY <1>3 DEF WriteResult, StatusAfter
  <1>4. CASE WriteFails(j)
      BY <1>4 DEF WriteFails
  <1>5. CASE Discard(j)
      BY <1>5 DEF Discard, DropContext
  <1>6. CASE Release(j)
      BY <1>6 DEF Release, DropContext
  <1>7. CASE FireHooks(j)
      BY <1>7 DEF FireHooks
  <1>8. CASE WindowOpens(j)
      BY <1>8 DEF WindowOpens
  <1> QED
      BY <1>1, <1>2, <1>3, <1>4, <1>5, <1>6, <1>7, <1>8 DEF Execute

\* Enqueue, Cancel and the holders of keys keep it.
LEMMA APILife == ASSUME LifeInv, API PROVE LifeInv'
  <1> LockInv'
      BY APILocks DEF LifeInv
  <1> USE JobsAssumption
  <1> USE DEF LifeInv, LockInv, TypeOK, Disowned, DueOnce, OwesHooks, HookedEnded, Final,
          db, memory, disp, run, hist
  <1>1. CASE \E j \in Jobs : Enqueue(j)
      BY <1>1 DEF Enqueue
  <1>2. CASE \E j \in Jobs : CancelCall(j)
      BY <1>2 DEF CancelCall
  <1>3. CASE CancelHit
      BY <1>3 DEF CancelHit
  <1>4. CASE CancelMiss
      BY <1>4 DEF CancelMiss
  <1>5. CASE CancelQueued
      BY <1>5 DEF CancelQueued
  <1>6. CASE CancelRefused
      BY <1>6 DEF CancelRefused
  <1>7. CASE \E h \in Holders, k \in Keys : HoldKeys(h, k)
      BY <1>7 DEF HoldKeys
  <1>8. CASE \E h \in Holders, k \in Keys : ReleaseHold(h, k)
      BY <1>8 DEF ReleaseHold
  <1>9. CASE \E n \in WorkerCounts : SetWorkers(n)
      BY <1>9 DEF SetWorkers
  <1> QED
      BY <1>1, <1>2, <1>3, <1>4, <1>5, <1>6, <1>7, <1>8, <1>9 DEF API

\* Start, Stop and the end of the process keep it.
LEMMA ProcessLife == ASSUME LifeInv, Process PROVE LifeInv'
  <1> LockInv'
      BY ProcessLocks DEF LifeInv
  <1> USE JobsAssumption
  <1> USE DEF LifeInv, LockInv, TypeOK, Disowned, DueOnce, OwesHooks, HookedEnded, Final, Unfinished,
          db, memory, disp, run, hist
  <1>1. CASE Stop
      BY <1>1 DEF Stop
  <1>2. CASE CancelRunning
      BY <1>2 DEF CancelRunning
  <1>3. CASE GraceOver
      BY <1>3 DEF GraceOver
  <1>4. CASE Exit \/ Crash
      BY <1>4 DEF Exit, Crash, Lose
  <1>5. CASE Boot
      BY <1>5 DEF Boot
  <1>6. CASE Start
      BY <1>6 DEF Start, CrashedTooOften
  <1>7. CASE \E j \in Jobs : Abandon(j)
      BY <1>7 DEF Abandon
  <1> QED
      BY <1>1, <1>2, <1>3, <1>4, <1>5, <1>6, <1>7 DEF Process

\* The life invariant holds in every reachable state.
LEMMA LifeHolds == Spec => []LifeInv
  <1>1. LifeInv /\ [Next]_vars => LifeInv'
      <2> SUFFICES ASSUME LifeInv, [Next]_vars PROVE LifeInv'
          OBVIOUS
      <2>1. CASE UNCHANGED vars
          BY <2>1 DEF LifeInv, LockInv, TypeOK, KeysAccounted, DispatcherIdle, AbandonedLate, NothingActive,
             Fresh, Exclusive, RunnerHasRow, Disowned, DueOnce, OwesHooks, HookedEnded,
             vars, db, memory, disp, run, bounds, hist
      <2> QED
          BY <2>1, DispatchLife, ExecuteLife, APILife, ProcessLife DEF Next
  <1> QED
      BY InitLife, <1>1, PTL DEF Spec

-----------------------------------------------------------------------------
(* The refinement.                                                         *)

\* The runners at work, as JobLife sees them.
AtWork == {j \in Jobs \ abandoned : pc[j] \in Unfinished}

\* A step that leaves the rows, the runners at work and the hooks alone.
LEMMA Stutters ==
    ASSUME UNCHANGED <<status, attempt, hooked>>, AtWork' = AtWork PROVE UNCHANGED Life!vars
  BY DEF Life!vars, AtWork

\* Every step of the dispatcher starts a job, drops one, or is not visible.
LEMMA DispatchLives == ASSUME LifeInv, Dispatch PROVE [Life!Next]_(Life!vars)
  <1> USE JobsAssumption
  <1> USE DEF LifeInv, LockInv, TypeOK, KeysAccounted, DispatcherIdle, AbandonedLate, Fresh,
          AtWork, Unfinished, db, memory, disp, run, hist
  <1>1. CASE PassStart \/ PassEnd \/ (\E j \in Jobs : VisitSkip(j) \/ VisitNeeds(j)) \/ NeedsSkip \/ Take \/ MarkLost \/ MarkFails
      <2>1. UNCHANGED <<status, attempt, hooked>> /\ AtWork' = AtWork
          BY <1>1 DEF PassStart, PassEnd, VisitSkip, VisitNeeds, NeedsSkip, Take, MarkLost, MarkFails
      <2> QED BY <2>1, Stutters
  <1>2. ASSUME NEW j \in Jobs, VisitUnrunnable(j) PROVE [Life!Next]_(Life!vars)
      <2>1. UNCHANGED <<attempt, hooked>> /\ AtWork' = AtWork
          BY <1>2 DEF VisitUnrunnable
      <2>2. CASE status[j] = "queued"
          <3>1. status' = [status EXCEPT ![j] = "failed"]
              BY <1>2, <2>2 DEF VisitUnrunnable
          <3>2. Life!Dropped(j)
              BY <2>1, <2>2, <3>1 DEF Life!Dropped, Life!Moves
          <3> QED BY <3>2 DEF Life!Next
      <2>3. CASE status[j] # "queued"
          BY <1>2, <2>1, <2>3, Stutters DEF VisitUnrunnable
      <2> QED BY <2>2, <2>3
  <1>3. CASE MarkRunning
      <2>1. PICK j \in Jobs : j = cur
          BY <1>3 DEF MarkRunning
      <2>2. abandoned = {} /\ pc[j] = "none"
          BY <1>3, <2>1 DEF MarkRunning
      <2>3. AtWork' = AtWork \cup {j} /\ j \notin AtWork
          BY <1>3, <2>1, <2>2 DEF MarkRunning
      <2>4. Life!Begins(j)
          BY <1>3, <2>1, <2>2, <2>3 DEF MarkRunning, Life!Begins, Life!Moves
      <2> QED BY <2>4 DEF Life!Next
  <1> QED
      BY <1>1, <1>2, <1>3 DEF Dispatch

\* A job's goroutine ends the job, leaves it, calls its hooks, or is not visible.
LEMMA ExecuteLives == ASSUME LifeInv, NEW j \in Jobs, Execute(j) \/ WindowOpens(j) PROVE [Life!Next]_(Life!vars)
  <1> USE JobsAssumption
  <1> USE DEF LifeInv, LockInv, TypeOK, RunnerHasRow, AtWork, Unfinished, db, memory, disp, run, hist
  <1>1. CASE Invoke(j) \/ Return(j) \/ Discard(j) \/ Release(j) \/ WindowOpens(j)
      <2>1. UNCHANGED <<status, attempt, hooked>>
          BY <1>1 DEF Invoke, Return, Discard, Release, WindowOpens
      <2>2. abandoned' = abandoned
          BY <1>1 DEF Invoke, Return, Discard, Release, WindowOpens
      <2>3. \A i \in Jobs \ abandoned : pc'[i] \in Unfinished <=> pc[i] \in Unfinished
          <3>1. CASE Invoke(j) \/ Return(j)
              BY <3>1 DEF Invoke, Return
          <3>2. CASE Discard(j) \/ Release(j) \/ WindowOpens(j)
              BY <3>2 DEF Discard, Release, WindowOpens
          <3> QED BY <1>1, <3>1, <3>2
      <2>4. AtWork' = AtWork
          BY <2>2, <2>3
      <2> QED BY <2>1, <2>4, Stutters
  <1>2. CASE WriteResult(j)
      <2>1. j \in AtWork /\ status[j] = "running"
          BY <1>2 DEF WriteResult
      <2>2. AtWork' = AtWork \ {j}
          BY <1>2 DEF WriteResult
      <2>3. StatusAfter(verdict[j]) \in Final \cup {"queued"}
          BY DEF StatusAfter
      <2>4. Life!Ends(j)
          BY <1>2, <2>1, <2>2, <2>3 DEF WriteResult, Final, Life!Ends, Life!Ended, Life!Moves
      <2> QED BY <2>4 DEF Life!Next
  <1>3. CASE WriteFails(j)
      <2>1. j \in AtWork /\ AtWork' = AtWork \ {j}
          BY <1>3 DEF WriteFails
      <2>2. Life!Leaves(j)
          BY <1>3, <2>1 DEF WriteFails, Life!Leaves
      <2> QED BY <2>2 DEF Life!Next
  <1>4. CASE FireHooks(j)
      <2>1. status[j] \in Life!Ended /\ hooked[j] = 0
          BY <1>4 DEF FireHooks, DueOnce, Final, Life!Ended
      <2>2. hooked' = [hooked EXCEPT ![j] = 1] /\ UNCHANGED <<status, attempt>> /\ AtWork' = AtWork
          BY <1>4, <2>1 DEF FireHooks
      <2>3. Life!Tells(j)
          BY <2>1, <2>2 DEF Life!Tells
      <2> QED BY <2>3 DEF Life!Next
  <1> QED
      BY <1>1, <1>2, <1>3, <1>4 DEF Execute

\* An API call submits a job, drops a queued one, or is not visible.
LEMMA APILives == ASSUME LifeInv, API PROVE [Life!Next]_(Life!vars)
  <1> USE JobsAssumption
  <1> USE DEF LifeInv, LockInv, TypeOK, AtWork, db, memory, disp, run, hist
  <1>1. ASSUME NEW j \in Jobs, Enqueue(j) PROVE [Life!Next]_(Life!vars)
      <2>1. Life!Submitted(j)
          BY <1>1 DEF Enqueue, Life!Submitted, Life!Moves
      <2> QED BY <2>1 DEF Life!Next
  <1>2. CASE CancelQueued
      <2> DEFINE j == canceller.job
      <2>1. CASE status[j] = "queued"
          <3>1. j \in Jobs
              BY <1>2 DEF CancelQueued
          <3>2. Life!Dropped(j)
              BY <1>2, <2>1 DEF CancelQueued, Life!Dropped, Life!Moves
          <3> QED BY <3>1, <3>2 DEF Life!Next
      <2>2. CASE status[j] # "queued"
          <3>1. UNCHANGED <<status, attempt, hooked>> /\ AtWork' = AtWork
              BY <1>2, <2>2 DEF CancelQueued
          <3> QED BY <3>1, Stutters
      <2> QED BY <2>1, <2>2
  <1>3. CASE CancelHit \/ CancelMiss \/ CancelRefused \/ (\E j \in Jobs : CancelCall(j))
      <2>1. UNCHANGED <<status, attempt, hooked>> /\ AtWork' = AtWork
          BY <1>3 DEF CancelHit, CancelMiss, CancelRefused, CancelCall
      <2> QED BY <2>1, Stutters
  <1>4. CASE (\E h \in Holders, k \in Keys : HoldKeys(h, k) \/ ReleaseHold(h, k)) \/ (\E n \in WorkerCounts : SetWorkers(n))
      <2>1. UNCHANGED <<status, attempt, hooked>> /\ AtWork' = AtWork
          BY <1>4 DEF HoldKeys, ReleaseHold, SetWorkers
      <2> QED BY <2>1, Stutters
  <1> QED
      BY <1>1, <1>2, <1>3, <1>4 DEF API

\* The end of a process, recovery and disowning are steps of JobLife.
LEMMA ProcessLives == ASSUME LifeInv, Process PROVE [Life!Next]_(Life!vars)
  <1> USE JobsAssumption, BoundsAssumption
  <1> USE DEF LifeInv, LockInv, TypeOK, KeysAccounted, DispatcherIdle, AbandonedLate, NothingActive, RunnerHasRow,
          AtWork, Unfinished, db, memory, disp, run, hist
  <1>1. CASE Stop \/ CancelRunning \/ GraceOver \/ Boot
      <2>1. UNCHANGED <<status, attempt, hooked>> /\ AtWork' = AtWork
          BY <1>1 DEF Stop, CancelRunning, GraceOver, Boot
      <2> QED BY <2>1, Stutters
  <1>2. CASE Exit \/ Crash
      <2>1. Lose
          BY <1>2 DEF Exit, Crash
      <2>2. AtWork' = {} /\ UNCHANGED <<status, attempt, hooked>>
          BY <2>1 DEF Lose
      <2>3. Life!ProcessEnds
          BY <2>2 DEF Life!ProcessEnds
      <2> QED BY <2>3 DEF Life!Next
  <1>3. CASE Start
      <2>1. active = {} /\ abandoned = {} /\ dpc = "idle"
          BY <1>3 DEF Start
      <2>2. AtWork = {} /\ AtWork' = {} /\ hooked' = hooked
          BY <1>3, <2>1 DEF Start
      <2>3. \A j \in Jobs : CrashedTooOften(j) <=> status[j] = "running" /\ ~(attempt[j] < MaxAttempts)
          BY DEF CrashedTooOften
      <2>4. status' = [j \in Jobs |-> IF status[j] # "running" THEN status[j]
                                     ELSE IF attempt[j] < MaxAttempts THEN "queued" ELSE "failed"]
          BY <1>3, <2>3 DEF Start
      <2>5. attempt' = [j \in Jobs |-> IF status[j] = "running" /\ attempt[j] < MaxAttempts
                                      THEN attempt[j] + 1 ELSE attempt[j]]
          BY <1>3, <2>3 DEF Start
      <2>6. Life!Recovers
          BY <2>2, <2>4, <2>5 DEF Life!Recovers
      <2> QED BY <2>6 DEF Life!Next
  <1>4. ASSUME NEW j \in Jobs, Abandon(j) PROVE [Life!Next]_(Life!vars)
      <2>1. j \in AtWork /\ status[j] = "running"
          BY <1>4 DEF Abandon
      <2>2. AtWork' = AtWork \ {j}
          BY <1>4 DEF Abandon
      <2>3. UNCHANGED <<attempt, hooked>>
          BY <1>4 DEF Abandon
      <2>4. CASE status' = status
          <3>1. Life!Leaves(j)
              BY <2>1, <2>2, <2>3, <2>4 DEF Life!Leaves
          <3> QED BY <3>1 DEF Life!Next
      <2>5. CASE status' = [status EXCEPT ![j] = IF @ = "running" THEN "queued" ELSE @]
          <3>1. status' = [status EXCEPT ![j] = "queued"]
              BY <2>1, <2>5
          <3>2. Life!Ends(j)
              BY <2>1, <2>2, <2>3, <3>1 DEF Life!Ends, Life!Moves
          <3> QED BY <3>2 DEF Life!Next
      <2> QED BY <1>4, <2>4, <2>5 DEF Abandon
  <1> QED
      BY <1>1, <1>2, <1>3, <1>4 DEF Process

\* The manager implements JobLife: a row starts with one runner and only that
\* runner's result, or its disowning, moves it on; a final status stays; the
\* hooks are called at most once, after the end; only recovery uses up attempts.
THEOREM ManagerImplementsLife == Spec => Lives
  <1>1. Init => Life!Init
      BY DEF Init, Life!Init, Unfinished
  <1>2. LifeInv /\ [Next]_vars => [Life!Next]_(Life!vars)
      <2> SUFFICES ASSUME LifeInv, [Next]_vars PROVE [Life!Next]_(Life!vars)
          OBVIOUS
      <2>1. CASE UNCHANGED vars
          BY <2>1 DEF vars, db, run, hist, Life!vars
      <2> QED
          BY <2>1, DispatchLives, ExecuteLives, APILives, ProcessLives DEF Next
  <1> QED
      BY <1>1, <1>2, LifeHolds, PTL DEF Spec, Lives, Life!Spec

-----------------------------------------------------------------------------
(* Second runners, stuck rows and slots.                                   *)

\* A job gets a goroutine only while it has none: not while a deferred or a
\* disowned runner of it is still there.
THEOREM OneRunnerPerJob == Spec => NoSecondRunner
  <1>1. LockInv /\ [Next]_vars =>
          [\A j \in Jobs : pc'[j] = "started" /\ pc[j] # "started" => pc[j] = "none"]_vars
      <2> SUFFICES ASSUME LockInv, Next, NEW j \in Jobs, pc'[j] = "started", pc[j] # "started"
                   PROVE  pc[j] = "none"
          OBVIOUS
      <2> USE DEF LockInv, TypeOK, Fresh, db, memory, disp, run, hist
      <2>1. CASE Dispatch
          BY <2>1 DEF Dispatch, PassStart, PassEnd, VisitSkip, VisitUnrunnable, VisitNeeds, NeedsSkip, Take,
             MarkRunning, MarkLost, MarkFails
      <2>2. CASE \E i \in Jobs : Execute(i) \/ WindowOpens(i)
          BY <2>2 DEF Execute, Invoke, Return, WriteResult, WriteFails, Discard, Release, FireHooks, WindowOpens
      <2>3. CASE API
          BY <2>3 DEF API, Enqueue, CancelCall, CancelHit, CancelMiss, CancelQueued, CancelRefused, HoldKeys,
             ReleaseHold, SetWorkers
      <2>4. CASE Process
          BY <2>4 DEF Process, Stop, CancelRunning, GraceOver, Exit, Crash, Lose, Boot, Start, Abandon
      <2> QED
          BY <2>1, <2>2, <2>3, <2>4 DEF Next
  <1> QED
      BY <1>1, LocksHold, PTL DEF Spec, NoSecondRunner

\* While no write fails, a row that says running has a runner: no step leaves a
\* row stuck in running until the next start, and a graceful shutdown none at all.
THEOREM NoRowStuck == Spec => []RowHasRunner
  <1>1. Init => RowHasRunner
      BY DEF Init, RowHasRunner
  <1>2. LockInv /\ LockInv' /\ RowHasRunner /\ [Next]_vars => RowHasRunner'
      <2> SUFFICES ASSUME LockInv, LockInv', RowHasRunner, [Next]_vars PROVE RowHasRunner'
          OBVIOUS
      <2> USE JobsAssumption
      <2> USE DEF LockInv, TypeOK, KeysAccounted, DispatcherIdle, AbandonedLate, Fresh, RunnerHasRow, RowHasRunner,
              Unfinished, db, memory, disp, run, bounds, hist
      <2>1. CASE PassStart \/ PassEnd \/ (\E j \in Jobs : VisitSkip(j) \/ VisitNeeds(j)) \/ NeedsSkip
                 \/ Take \/ MarkLost \/ MarkFails
          BY <2>1 DEF PassStart, PassEnd, VisitSkip, VisitNeeds, NeedsSkip, Take, MarkLost, MarkFails
      <2>2. ASSUME NEW j \in Jobs, VisitUnrunnable(j) PROVE RowHasRunner'
          <3>1. \A i \in Jobs : status'[i] = "running" => status[i] = "running"
              BY <2>2 DEF VisitUnrunnable
          <3> QED BY <2>2, <3>1 DEF VisitUnrunnable
      <2>3. CASE MarkRunning
          BY <2>3 DEF MarkRunning
      <2>4. ASSUME NEW j \in Jobs, Execute(j) \/ WindowOpens(j) PROVE RowHasRunner'
          <3>1. CASE Invoke(j) \/ Return(j)
              BY <3>1 DEF Invoke, Return
          <3>2. CASE WriteResult(j)
              BY <3>2 DEF WriteResult, StatusAfter, Final
          <3>3. CASE WriteFails(j) \/ Discard(j) \/ Release(j) \/ FireHooks(j) \/ WindowOpens(j)
              BY <3>3 DEF WriteFails, Discard, Release, FireHooks, WindowOpens
          <3> QED BY <2>4, <3>1, <3>2, <3>3 DEF Execute
      <2>5. CASE API
          BY <2>5 DEF API, Enqueue, CancelCall, CancelHit, CancelMiss, CancelQueued, CancelRefused, HoldKeys,
             ReleaseHold, SetWorkers
      <2>6. CASE Stop \/ CancelRunning \/ GraceOver \/ Exit \/ Crash \/ Boot
          BY <2>6 DEF Stop, CancelRunning, GraceOver, Exit, Crash, Lose, Boot
      <2>7. CASE Start
          BY <2>7 DEF Start
      <2>8. ASSUME NEW j \in Jobs, Abandon(j) PROVE RowHasRunner'
          <3> SUFFICES ASSUME faults' = 0 PROVE RowHasRunner'
              OBVIOUS
          <3>1. faults = 0 /\ status' = [status EXCEPT ![j] = IF @ = "running" THEN "queued" ELSE @]
              BY <2>8 DEF Abandon
          <3>2. \A i \in Jobs : status'[i] = "running" => i # j /\ status[i] = "running"
              BY <3>1
          <3> QED BY <2>8, <3>1, <3>2 DEF Abandon
      <2>9. CASE UNCHANGED vars
          BY <2>9 DEF vars
      <2> QED
          BY <2>1, <2>2, <2>3, <2>4, <2>5, <2>6, <2>7, <2>8, <2>9 DEF Next, Dispatch, Process
  <1> QED
      BY <1>1, <1>2, LocksHold, PTL DEF Spec

\* The active jobs that need a pool.
Users(p) == {j \in active : p \in NeedsOf[j]}

\* They are finitely many.
LEMMA UsersFinite == ASSUME TypeOK, NEW p \in Pools PROVE IsFiniteSet(Users(p)) /\ Cardinality(Users(p)) \in Nat
  <1>1. Users(p) \in SUBSET Jobs
      BY DEF TypeOK, Users
  <1>2. IsFiniteSet(Users(p))
      BY <1>1, JobsAssumption, FS_Subset
  <1> QED BY <1>2, FS_CardinalityType

\* Taking a job's slots counts it in each pool it needs, and stays within the limit.
LEMMA TakeSlots == ASSUME TypeOK, SlotsAccounted, Take PROVE SlotsAccounted'
  <1> USE JobsAssumption, PoolsAssumption
  <1> SUFFICES ASSUME NEW p \in Pools
               PROVE  slots'[p] = Cardinality(Users(p)') /\ slots'[p] <= Limit[p]
      BY DEF SlotsAccounted, Users
  <1>1. cur \in Jobs /\ cur \notin active /\ active' = active \cup {cur}
      BY DEF Take, TypeOK
  <1>2. slots[p] = Cardinality(Users(p)) /\ slots[p] <= Limit[p] /\ slots[p] \in Nat /\ Limit[p] \in Nat
      BY DEF SlotsAccounted, TypeOK, Users
  <1>3. CASE p \in NeedsOf[cur]
      <2>1. Users(p)' = Users(p) \cup {cur} /\ cur \notin Users(p)
          BY <1>1, <1>3 DEF Users
      <2>2. Cardinality(Users(p)') = Cardinality(Users(p)) + 1
          BY <2>1, UsersFinite, FS_AddElement
      <2>3. slots'[p] = slots[p] + 1 /\ slots[p] < Limit[p]
          BY <1>1, <1>3 DEF Take, SlotsFree
      <2> QED BY <1>2, <2>2, <2>3
  <1>4. CASE p \notin NeedsOf[cur]
      <2>1. Users(p)' = Users(p)
          BY <1>1, <1>4 DEF Users
      <2>2. slots'[p] = slots[p]
          BY <1>1, <1>4 DEF Take
      <2> QED BY <1>2, <2>1, <2>2
  <1> QED BY <1>3, <1>4

\* Manager.forget gives back exactly what the job it drops has taken.
LEMMA ForgetSlots == ASSUME TypeOK, SlotsAccounted, NEW j \in Jobs, j \in active, Forget(j) PROVE SlotsAccounted'
  <1> USE JobsAssumption, PoolsAssumption
  <1> SUFFICES ASSUME NEW p \in Pools
               PROVE  slots'[p] = Cardinality(Users(p)') /\ slots'[p] <= Limit[p]
      BY DEF SlotsAccounted, Users
  <1>1. slots[p] = Cardinality(Users(p)) /\ slots[p] <= Limit[p] /\ slots[p] \in Nat /\ Limit[p] \in Nat
      BY DEF SlotsAccounted, TypeOK, Users
  <1>2. active' = active \ {j}
      BY DEF Forget
  <1>3. CASE p \in NeedsOf[j]
      <2>1. Users(p)' = Users(p) \ {j} /\ j \in Users(p)
          BY <1>2, <1>3 DEF Users
      <2>2. Cardinality(Users(p)') = Cardinality(Users(p)) - 1
          BY <2>1, UsersFinite, FS_RemoveElement
      <2>3. Cardinality(Users(p)) # 0
          BY <2>1, UsersFinite, FS_EmptySet
      <2>4. slots'[p] = slots[p] - 1
          BY <1>1, <1>3, <2>3 DEF Forget
      <2> QED BY <1>1, <2>2, <2>4
  <1>4. CASE p \notin NeedsOf[j]
      <2>1. Users(p)' = Users(p)
          BY <1>2, <1>4 DEF Users
      <2>2. slots'[p] = slots[p]
          BY <1>4 DEF Forget
      <2> QED BY <1>1, <2>1, <2>2
  <1> QED BY <1>3, <1>4

\* On every path out of a job its slots are given back, once: the counter of a
\* pool is the number of active jobs that need it, and never passes the limit.
THEOREM SlotsNeverLeak == Spec => []SlotsAccounted
  <1>1. Init => SlotsAccounted
      <2> SUFFICES ASSUME Init, NEW p \in Pools
                   PROVE  slots[p] = Cardinality(Users(p)) /\ slots[p] <= Limit[p]
          BY DEF SlotsAccounted, Users
      <2>1. Users(p) = {} /\ slots[p] = 0
          BY DEF Init, Users
      <2> QED BY <2>1, FS_EmptySet, PoolsAssumption
  <1>2. LifeInv /\ SlotsAccounted /\ [Next]_vars => SlotsAccounted'
      <2> SUFFICES ASSUME LifeInv, SlotsAccounted, [Next]_vars PROVE SlotsAccounted'
          OBVIOUS
      <2>0. TypeOK
          BY DEF LifeInv, LockInv
      <2>1. ASSUME UNCHANGED <<active, slots>> PROVE SlotsAccounted'
          BY <2>1 DEF SlotsAccounted
      <2>2. CASE Take
          BY <2>0, <2>2, TakeSlots
      <2>3. CASE MarkLost \/ MarkFails
          <3>1. PICK j \in Jobs : j = cur
              BY <2>3, JobsAssumption DEF MarkLost, MarkFails, LifeInv, LockInv, TypeOK
          <3>2. j \in active /\ Forget(j)
              BY <2>3, <3>1 DEF MarkLost, MarkFails, LifeInv, LockInv, KeysAccounted, Forget
          <3> QED BY <2>0, <3>2, ForgetSlots
      <2>4. ASSUME NEW j \in Jobs, Release(j) \/ Abandon(j) PROVE SlotsAccounted'
          <3>1. j \in active
              BY <2>4 DEF Release, Abandon, LifeInv, LockInv, KeysAccounted, Disowned
          <3> QED BY <2>0, <2>4, <3>1, ForgetSlots DEF Release, Abandon
      <2>5. CASE Exit \/ Crash
          <3> SUFFICES ASSUME NEW p \in Pools
                       PROVE  slots'[p] = Cardinality(Users(p)') /\ slots'[p] <= Limit[p]
              BY DEF SlotsAccounted, Users
          <3>1. Users(p)' = {} /\ slots'[p] = 0
              BY <2>5 DEF Exit, Crash, Lose, Users
          <3> QED BY <3>1, FS_EmptySet, PoolsAssumption
      <2>6. CASE PassStart \/ PassEnd \/ (\E j \in Jobs : VisitSkip(j) \/ VisitUnrunnable(j) \/ VisitNeeds(j))
                 \/ NeedsSkip \/ MarkRunning
          BY <2>1, <2>6 DEF PassStart, PassEnd, VisitSkip, VisitUnrunnable, VisitNeeds, NeedsSkip, MarkRunning, memory
      <2>7. ASSUME NEW j \in Jobs, Invoke(j) \/ Return(j) \/ WriteResult(j) \/ WriteFails(j) \/ Discard(j)
                                   \/ FireHooks(j) \/ WindowOpens(j)
            PROVE  SlotsAccounted'
          BY <2>1, <2>7 DEF Invoke, Return, WriteResult, WriteFails, Discard, FireHooks, WindowOpens, memory
      <2>8. CASE API
          BY <2>1, <2>8 DEF API, Enqueue, CancelCall, CancelHit, CancelMiss, CancelQueued, CancelRefused, HoldKeys,
             ReleaseHold, SetWorkers, memory
      <2>9. CASE Stop \/ CancelRunning \/ GraceOver \/ Boot \/ Start \/ UNCHANGED vars
          BY <2>1, <2>9 DEF Stop, CancelRunning, GraceOver, Boot, Start, vars, memory
      <2> QED
          BY <2>2, <2>3, <2>4, <2>5, <2>6, <2>7, <2>8, <2>9 DEF Next, Dispatch, Execute, Process
  <1> QED
      BY <1>1, <1>2, LifeHolds, PTL DEF Spec

=============================================================================
