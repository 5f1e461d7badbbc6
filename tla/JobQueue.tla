------------------------------- MODULE JobQueue -------------------------------
(***************************************************************************)
(* The job manager of internal/jobqueue: the persistent queue (the jobs    *)
(* table), the dispatcher goroutine, one goroutine per running job, the    *)
(* API calls that cancel jobs and hold lock keys, graceful shutdown, and   *)
(* crash recovery at the next start.                                       *)
(*                                                                         *)
(* A step is one critical section of the manager's mutex, one database     *)
(* transaction, or one runner return: the code releases the mutex around   *)
(* every database call, so all other goroutines run between two steps.     *)
(*                                                                         *)
(* Abstractions: job parameters are the lock keys and slot pools they      *)
(* imply (LockKeys and Needs read only the type, the destination and the   *)
(* integration, which no merge changes); completed_with_warnings is        *)
(* completed; a not_before is either still ahead or not; wake-ups of the   *)
(* dispatcher are not counted, because it also polls every 10 seconds.     *)
(***************************************************************************)
EXTENDS Integers, FiniteSets

CONSTANTS
    Jobs,           \* ids the jobs table can hand out
    Keys,           \* lock keys: "dest:1", "source:2", ...
    KeysOf,         \* LockKeys of each job
    Pools,          \* slot pools (Options.Slots)
    Limit,          \* SlotPool.Limit
    NeedsOf,        \* pools whose Needs says yes for the job
    RefreshJobs,    \* jobs of type refresh: they run in their own pool
    Unrunnable,     \* by restarts so far: the jobs whose type has no registered runner
    WorkerCounts,   \* values of the setting jobs.workers
    RefreshWorkers, \* Options.RefreshWorkers
    MaxAttempts,    \* Options.MaxAttempts
    QueuedScan,     \* queuedScan: queued rows one dispatch pass reads
    Holders,        \* concurrent HoldKeys callers
    NoHolder,       \* "key is free"
    NoJob,          \* "no job"
    MaxRestarts,    \* bound: process ends (crash or shutdown) explored
    MaxFaults,      \* bound: failing database writes explored
    MaxDeferrals    \* bound: deferrals of one job explored

ASSUME JobsAssumption == Jobs \subseteq Nat /\ IsFiniteSet(Jobs) /\ NoJob \notin Jobs
ASSUME KeysAssumption ==
    /\ KeysOf \in [Jobs -> SUBSET Keys]
    /\ NoHolder \notin Jobs
    /\ NoHolder \notin Holders
    /\ Jobs \cap Holders = {}
ASSUME PoolsAssumption ==
    /\ NeedsOf \in [Jobs -> SUBSET Pools]
    /\ Limit \in [Pools -> Nat \ {0}]
    /\ WorkerCounts \subseteq Nat \ {0}
    /\ RefreshWorkers \in Nat \ {0}
    /\ RefreshJobs \subseteq Jobs
ASSUME BoundsAssumption ==
    /\ MaxAttempts \in Nat \ {0}
    /\ QueuedScan \in Nat \ {0}
    /\ MaxRestarts \in Nat
    /\ MaxFaults \in Nat
    /\ MaxDeferrals \in Nat

VARIABLES
    \* ---- the jobs table (survives the process) ----
    status,     \* jobs.status; "absent" before the row exists
    attempt,    \* jobs.attempt
    waiting,    \* jobs whose not_before is set and still ahead
    deferrals,  \* jobs.deferrals
    \* ---- the Manager (lost with the process) ----
    mgr,        \* lifecycle of the process and of Manager.state
    workers,    \* Manager.workers
    active,     \* domain of Manager.running
    keys,       \* Manager.keys: the holder of each key
    slots,      \* Manager.slots: slots in use per pool
    \* ---- the dispatcher goroutine ----
    dpc,        \* where dispatch is
    todo,       \* rows of the queue snapshot not visited yet
    cur,        \* the row it is starting
    \* ---- one goroutine per job (execute), and its activeJob ----
    pc,         \* where execute is
    cause,      \* context.Cause of the job's context
    verdict,    \* what finish decided to write
    abandoned,  \* activeJob.abandoned
    hookDue,    \* jobs whose OnFinish goroutine has not called the hooks yet
    \* ---- one API caller of Cancel ----
    canceller,  \* [at, job]: where Manager.Cancel is
    \* ---- bounds and history ----
    restarts,   \* process ends so far
    faults,     \* failed writes so far
    hooked,     \* history: OnFinish calls per job
    acked       \* history: jobs a Cancel call returned success for

db == <<status, attempt, waiting, deferrals>>
memory == <<mgr, workers, active, keys, slots>>
disp == <<dpc, todo, cur>>
run == <<pc, cause, verdict, abandoned, hookDue>>
bounds == <<restarts, faults>>
hist == <<hooked, acked>>
vars == <<db, memory, disp, run, canceller, bounds, hist>>

Final == {"completed", "failed", "cancelled"}
Status == {"absent", "queued", "running"} \cup Final
Verdicts == Final \cup {"none", "defer", "requeue"}
Outcomes == {"ok", "error", "panic", "deferred", "badDeferred"}
RunPC == {"none", "started", "running", "returned", "written"}
\* Goroutine states in which finish has not yet taken finMu for its write.
Unfinished == {"started", "running", "returned"}
IdleCanceller == [at |-> "idle", job |-> NoJob]

Init ==
    /\ status = [j \in Jobs |-> "absent"]
    /\ attempt = [j \in Jobs |-> 1]
    /\ waiting = {}
    /\ deferrals = [j \in Jobs |-> 0]
    /\ mgr = "new"
    /\ workers \in WorkerCounts
    /\ active = {}
    /\ keys = [k \in Keys |-> NoHolder]
    /\ slots = [p \in Pools |-> 0]
    /\ dpc = "idle" /\ todo = {} /\ cur = NoJob
    /\ pc = [j \in Jobs |-> "none"]
    /\ cause = [j \in Jobs |-> "none"]
    /\ verdict = [j \in Jobs |-> "none"]
    /\ abandoned = {}
    /\ hookDue = {}
    /\ canceller = IdleCanceller
    /\ restarts = 0 /\ faults = 0
    /\ hooked = [j \in Jobs |-> 0]
    /\ acked = {}

Up == mgr # "down"

-----------------------------------------------------------------------------
(* The queue and the settings.                                             *)

\* Enqueue, insert branch of Store.createJob: SQLite gives the row the next
\* id. (The branches that return an existing job change no status.)
Enqueue(j) ==
    /\ Up
    /\ status[j] = "absent"
    /\ \A i \in Jobs : i < j => status[i] # "absent"
    /\ status' = [status EXCEPT ![j] = "queued"]
    /\ UNCHANGED <<attempt, waiting, deferrals, memory, disp, run, canceller, bounds, hist>>

\* The clock passes a deferred job's not_before.
WindowOpens(j) ==
    /\ j \in waiting
    /\ waiting' = waiting \ {j}
    /\ UNCHANGED <<status, attempt, deferrals, memory, disp, run, canceller, bounds, hist>>

SetWorkers(n) ==
    /\ Up
    /\ workers' = n
    /\ UNCHANGED <<db, mgr, active, keys, slots, disp, run, canceller, bounds, hist>>

-----------------------------------------------------------------------------
(* The dispatcher.                                                         *)

GeneralFull == Cardinality(active \ RefreshJobs) >= workers
RefreshFull == Cardinality(active \cap RefreshJobs) >= RefreshWorkers
AllFull == GeneralFull /\ RefreshFull
OwnFull(j) == IF j \in RefreshJobs THEN RefreshFull ELSE GeneralFull

\* Mutant: a job with several keys is blocked only when all of them are held.
MutKeysHeld(j) == KeysOf[j] # {} /\ \A k \in KeysOf[j] : keys[k] # NoHolder

KeysHeld(j) == \E k \in KeysOf[j] : keys[k] # NoHolder
SlotsFree(j) == \A p \in NeedsOf[j] : slots[p] < Limit[p]

\* The oldest QueuedScan queued rows: SELECT ... ORDER BY queued_at, id LIMIT.
QueuedRows == {j \in Jobs : status[j] = "queued"}
Snapshot == {j \in QueuedRows : Cardinality({i \in QueuedRows : i < j}) < QueuedScan}


\* A pass: on a kick, the poll tick, or the earliest not_before.
PassStart ==
    /\ mgr = "started" /\ dpc = "idle"
    /\ ~AllFull
    /\ dpc' = "scan"
    /\ todo' = Snapshot \ waiting
    /\ UNCHANGED <<db, memory, cur, run, canceller, bounds, hist>>

Oldest(j) == j \in todo /\ \A i \in todo : j <= i

\* End of the pass: no row left, every worker busy, or the manager stopping.
PassEnd ==
    /\ dpc \in {"scan", "needs"}
    /\ (dpc = "scan" /\ todo = {}) \/ AllFull \/ mgr # "started"
    /\ dpc' = "idle" /\ todo' = {} /\ cur' = NoJob
    /\ UNCHANGED <<db, memory, run, canceller, bounds, hist>>

\* First look at a row, under the mutex; it is released again for Needs.
VisitSkip(j) ==
    /\ dpc = "scan" /\ Oldest(j)
    /\ ~AllFull /\ mgr = "started"
    /\ \/ j \in active
       \/ OwnFull(j)
       \/ j \notin Unrunnable[restarts] /\ KeysHeld(j)
    /\ todo' = todo \ {j}
    /\ UNCHANGED <<db, memory, dpc, cur, run, canceller, bounds, hist>>

\* failUnrunnable: finishQueued(failed) if the row is still queued.
VisitUnrunnable(j) ==
    /\ dpc = "scan" /\ Oldest(j)
    /\ ~AllFull /\ mgr = "started"
    /\ j \notin active /\ ~OwnFull(j) /\ j \in Unrunnable[restarts]
    /\ todo' = todo \ {j}
    /\ status' = [status EXCEPT ![j] = IF @ = "queued" THEN "failed" ELSE @]
    /\ waiting' = IF status[j] = "queued" THEN waiting \ {j} ELSE waiting
    /\ hookDue' = IF status[j] = "queued" THEN hookDue \cup {j} ELSE hookDue
    /\ UNCHANGED <<attempt, deferrals, memory, dpc, cur, pc, cause, verdict, abandoned,
                   canceller, bounds, hist>>

VisitNeeds(j) ==
    /\ dpc = "scan" /\ Oldest(j)
    /\ ~AllFull /\ mgr = "started"
    /\ j \notin active /\ ~OwnFull(j) /\ j \notin Unrunnable[restarts] /\ ~KeysHeld(j)
    /\ todo' = todo \ {j}
    /\ cur' = j
    /\ dpc' = "needs"
    /\ UNCHANGED <<db, memory, run, canceller, bounds, hist>>

\* Needs failed, or the second look under the mutex finds the row not startable.
NeedsSkip ==
    /\ dpc = "needs"
    /\ \/ faults < MaxFaults /\ faults' = faults + 1
       \/ /\ ~AllFull /\ mgr = "started"
          /\ cur \in active \/ OwnFull(cur) \/ KeysHeld(cur) \/ ~SlotsFree(cur)
          /\ faults' = faults
    /\ dpc' = "scan" /\ cur' = NoJob
    /\ UNCHANGED <<db, memory, todo, run, canceller, restarts, hist>>

\* Mutant: the keys are not looked at again after the mutex was released.
MutTake ==
    /\ dpc = "needs"
    /\ ~AllFull /\ mgr = "started"
    /\ cur \notin active /\ ~OwnFull(cur) /\ SlotsFree(cur)
    /\ active' = active \cup {cur}
    /\ keys' = [k \in Keys |-> IF k \in KeysOf[cur] /\ keys[k] = NoHolder THEN cur ELSE keys[k]]
    /\ slots' = [p \in Pools |-> IF p \in NeedsOf[cur] THEN slots[p] + 1 ELSE slots[p]]
    /\ dpc' = "mark"
    /\ UNCHANGED <<db, mgr, workers, todo, cur, run, canceller, bounds, hist>>

\* Second look: register the activeJob, its keys and its slots.
Take ==
    /\ dpc = "needs"
    /\ ~AllFull /\ mgr = "started"
    /\ cur \notin active /\ ~OwnFull(cur) /\ ~KeysHeld(cur) /\ SlotsFree(cur)
    /\ active' = active \cup {cur}
    /\ keys' = [k \in Keys |-> IF k \in KeysOf[cur] THEN cur ELSE keys[k]]
    /\ slots' = [p \in Pools |-> IF p \in NeedsOf[cur] THEN slots[p] + 1 ELSE slots[p]]
    /\ dpc' = "mark"
    /\ UNCHANGED <<db, mgr, workers, todo, cur, run, canceller, bounds, hist>>

\* Mutant: the keys stay behind.
MutForgetKeys(j) ==
    /\ active' = active \ {j}
    /\ keys' = keys
    /\ slots' = [p \in Pools |-> IF p \in NeedsOf[j] /\ slots[p] > 0 THEN slots[p] - 1 ELSE slots[p]]

\* Mutant: the slots stay behind.
MutForgetSlots(j) ==
    /\ active' = active \ {j}
    /\ keys' = [k \in Keys |-> IF k \in KeysOf[j] /\ keys[k] = j THEN NoHolder ELSE keys[k]]
    /\ slots' = slots

\* Manager.forget: drop the activeJob and free the keys and slots it holds.
Forget(j) ==
    /\ active' = active \ {j}
    /\ keys' = [k \in Keys |-> IF k \in KeysOf[j] /\ keys[k] = j THEN NoHolder ELSE keys[k]]
    /\ slots' = [p \in Pools |-> IF p \in NeedsOf[j] /\ slots[p] > 0 THEN slots[p] - 1 ELSE slots[p]]

\* The activeJob and its context are garbage once nothing refers to them.
DropContext(j) ==
    /\ cause' = [cause EXCEPT ![j] = "none"]
    /\ verdict' = [verdict EXCEPT ![j] = "none"]

\* markRunning: the row is still queued, so execute starts.
MarkRunning ==
    /\ dpc = "mark"
    /\ status[cur] = "queued"
    /\ status' = [status EXCEPT ![cur] = "running"]
    /\ waiting' = waiting \ {cur}
    /\ pc' = [pc EXCEPT ![cur] = "started"]
    /\ dpc' = "scan" /\ cur' = NoJob
    /\ UNCHANGED <<attempt, deferrals, memory, todo, cause, verdict, abandoned, hookDue,
                   canceller, bounds, hist>>

\* Mutant: markRunning's "no longer queued" is ignored and execute starts.
MutMarkLost ==
    /\ dpc = "mark"
    /\ status[cur] # "queued"
    /\ pc' = [pc EXCEPT ![cur] = "started"]
    /\ dpc' = "scan" /\ cur' = NoJob
    /\ UNCHANGED <<db, memory, todo, cause, verdict, abandoned, hookDue, canceller, bounds, hist>>

\* markRunning: no row (cancelled meanwhile): release, next row.
MarkLost ==
    /\ dpc = "mark"
    /\ status[cur] # "queued"
    /\ Forget(cur) /\ DropContext(cur)
    /\ dpc' = "scan" /\ cur' = NoJob
    /\ UNCHANGED <<db, mgr, workers, todo, pc, abandoned, hookDue, canceller, bounds, hist>>

\* markRunning fails: a failing disk, or Stop cancelled the loop's context.
MarkFails ==
    /\ dpc = "mark"
    /\ \/ mgr # "started" /\ faults' = faults
       \/ faults < MaxFaults /\ faults' = faults + 1
    /\ Forget(cur) /\ DropContext(cur)
    /\ dpc' = "idle" /\ todo' = {} /\ cur' = NoJob
    /\ UNCHANGED <<db, mgr, workers, pc, abandoned, hookDue, canceller, restarts, hist>>

-----------------------------------------------------------------------------
(* execute: the goroutine of a running job.                                *)

\* The decision at the top of finish, from the outcome and the context's cause.
Verdict(o, c) ==
    CASE o = "panic"       -> "failed"
      [] o = "ok"          -> "completed"
      [] c = "user"        -> "cancelled"
      [] o = "deferred"    -> "defer"
      [] o = "badDeferred" -> "failed"
      [] c = "shutdown"    -> "requeue"
      [] OTHER             -> "failed"

\* invoke: a context cancelled before the start never reaches the runner.
Invoke(j) ==
    /\ pc[j] = "started"
    /\ IF cause[j] = "none"
         THEN /\ pc' = [pc EXCEPT ![j] = "running"]
              /\ UNCHANGED verdict
         ELSE /\ pc' = [pc EXCEPT ![j] = "returned"]
              /\ verdict' = [verdict EXCEPT ![j] = Verdict("error", cause[j])]
    /\ UNCHANGED <<db, memory, disp, cause, abandoned, hookDue, canceller, bounds, hist>>

\* The runner returns (it may ignore a cancellation) and finish reads the cause.
Return(j) ==
    /\ pc[j] = "running"
    /\ \E o \in Outcomes :
          /\ o = "deferred" => deferrals[j] < MaxDeferrals
          /\ verdict' = [verdict EXCEPT ![j] = Verdict(o, cause[j])]
    /\ pc' = [pc EXCEPT ![j] = "returned"]
    /\ UNCHANGED <<db, memory, disp, cause, abandoned, hookDue, canceller, bounds, hist>>

\* What the conditional UPDATE of finishJob, deferJob or requeue stores.
StatusAfter(v) == IF v \in Final THEN v ELSE "queued"

\* Mutant: keys, slots and the running entry are released by the write, before
\* the goroutine is through.
MutWriteResult(j) ==
    /\ pc[j] = "returned" /\ j \notin abandoned
    /\ pc' = [pc EXCEPT ![j] = "written"]
    /\ status' = [status EXCEPT ![j] = StatusAfter(verdict[j])]
    /\ waiting' = IF verdict[j] = "defer" THEN waiting \cup {j} ELSE waiting
    /\ deferrals' = [deferrals EXCEPT ![j] = IF verdict[j] = "defer" THEN @ + 1 ELSE @]
    /\ Forget(j)
    /\ UNCHANGED <<attempt, mgr, workers, disp, cause, verdict, abandoned, hookDue,
                   canceller, bounds, hist>>

\* finish, deferJob, requeueInterrupted: the write under finMu.
WriteResult(j) ==
    /\ pc[j] = "returned" /\ j \notin abandoned
    /\ pc' = [pc EXCEPT ![j] = "written"]
    /\ IF status[j] = "running"
         THEN /\ status' = [status EXCEPT ![j] = StatusAfter(verdict[j])]
              /\ waiting' = IF verdict[j] = "defer" THEN waiting \cup {j} ELSE waiting
              /\ deferrals' = [deferrals EXCEPT ![j] = IF verdict[j] = "defer" THEN @ + 1 ELSE @]
              /\ UNCHANGED verdict
         ELSE /\ verdict' = [verdict EXCEPT ![j] = "none"]
              /\ UNCHANGED <<status, waiting, deferrals>>
    /\ UNCHANGED <<attempt, memory, disp, cause, abandoned, hookDue, canceller, bounds, hist>>

\* The write fails: the row stays running until the next start.
WriteFails(j) ==
    /\ pc[j] = "returned" /\ j \notin abandoned
    /\ faults < MaxFaults /\ faults' = faults + 1
    /\ pc' = [pc EXCEPT ![j] = "written"]
    /\ verdict' = [verdict EXCEPT ![j] = "none"]
    /\ UNCHANGED <<db, memory, disp, cause, abandoned, hookDue, canceller, restarts, hist>>

\* The late result of an abandoned job is discarded.
Discard(j) ==
    /\ pc[j] = "returned" /\ j \in abandoned
    /\ pc' = [pc EXCEPT ![j] = "none"]
    /\ DropContext(j)
    /\ UNCHANGED <<db, memory, disp, abandoned, hookDue, canceller, bounds, hist>>

\* release, then fireHooks when a final state was committed.
Release(j) ==
    /\ pc[j] = "written"
    /\ Forget(j) /\ DropContext(j)
    /\ pc' = [pc EXCEPT ![j] = "none"]
    /\ hookDue' = IF verdict[j] \in Final THEN hookDue \cup {j} ELSE hookDue
    /\ UNCHANGED <<db, mgr, workers, disp, abandoned, canceller, bounds, hist>>

\* The goroutine of fireHooks calls the OnFinish hooks.
FireHooks(j) ==
    /\ j \in hookDue
    /\ hookDue' = hookDue \ {j}
    /\ hooked' = [hooked EXCEPT ![j] = @ + 1]
    /\ UNCHANGED <<db, memory, disp, pc, cause, verdict, abandoned, canceller, bounds, acked>>

-----------------------------------------------------------------------------
(* Cancel and HoldKeys: API callers.                                       *)

\* aj.cancel(c): the first cause of a context wins.
SetCause(j, c) == cause' = [cause EXCEPT ![j] = IF @ = "none" THEN c ELSE @]

\* Mutant: Cancel fires the hooks of a running job itself.
MutCancelHit ==
    /\ canceller.at \in {"first", "again"}
    /\ canceller.job \in active
    /\ SetCause(canceller.job, "user")
    /\ hookDue' = hookDue \cup {canceller.job}
    /\ acked' = acked \cup {canceller.job}
    /\ canceller' = IdleCanceller
    /\ UNCHANGED <<db, memory, disp, pc, verdict, abandoned, bounds, hooked>>

\* cancelRunning found an activeJob: the caller is told the job is cancelled.
CancelHit ==
    /\ canceller.at \in {"first", "again"}
    /\ canceller.job \in active
    /\ SetCause(canceller.job, "user")
    /\ acked' = acked \cup {canceller.job}
    /\ canceller' = IdleCanceller
    /\ UNCHANGED <<db, memory, disp, pc, verdict, abandoned, hookDue, bounds, hooked>>

CancelCall(j) ==
    /\ Up
    /\ canceller.at = "idle" /\ status[j] # "absent"
    /\ canceller' = [at |-> "first", job |-> j]
    /\ UNCHANGED <<db, memory, disp, run, bounds, hist>>

CancelMiss ==
    /\ canceller.at = "first" /\ canceller.job \notin active
    /\ canceller' = [canceller EXCEPT !.at = "queued"]
    /\ UNCHANGED <<db, memory, disp, run, bounds, hist>>

\* Store.cancelQueued: UPDATE ... WHERE status = 'queued'.
CancelQueued ==
    LET j == canceller.job IN
    /\ canceller.at = "queued"
    /\ IF status[j] = "queued"
         THEN /\ status' = [status EXCEPT ![j] = "cancelled"]
              /\ waiting' = waiting \ {j}
              /\ hookDue' = hookDue \cup {j}
              /\ acked' = acked \cup {j}
              /\ canceller' = IdleCanceller
         ELSE /\ canceller' = [canceller EXCEPT !.at = "again"]
              /\ UNCHANGED <<status, waiting, hookDue, acked>>
    /\ UNCHANGED <<attempt, deferrals, memory, disp, pc, cause, verdict, abandoned, bounds, hooked>>

\* ErrNotActive.
CancelRefused ==
    /\ canceller.at = "again" /\ canceller.job \notin active
    /\ canceller' = IdleCanceller
    /\ UNCHANGED <<db, memory, disp, run, bounds, hist>>

\* HoldKeys, called by the unlock endpoint with its destination's key.
HoldKeys(h, k) ==
    /\ Up
    /\ keys[k] = NoHolder
    /\ \A k2 \in Keys : keys[k2] # h
    /\ keys' = [keys EXCEPT ![k] = h]
    /\ UNCHANGED <<db, mgr, workers, active, slots, disp, run, canceller, bounds, hist>>

ReleaseHold(h, k) ==
    /\ keys[k] = h
    /\ keys' = [keys EXCEPT ![k] = NoHolder]
    /\ UNCHANGED <<db, mgr, workers, active, slots, disp, run, canceller, bounds, hist>>

-----------------------------------------------------------------------------
(* Shutdown, crash and recovery.                                           *)

\* Stop: state = stopped; the dispatcher ends its pass.
Stop ==
    /\ mgr = "started" /\ restarts < MaxRestarts
    /\ mgr' = "stopping"
    /\ UNCHANGED <<db, workers, active, keys, slots, disp, run, canceller, bounds, hist>>

\* The loop has ended: cancel every running job, then wait for the grace period.
CancelRunning ==
    /\ mgr = "stopping" /\ dpc = "idle"
    /\ mgr' = "draining"
    /\ cause' = [j \in Jobs |-> IF j \in active /\ cause[j] = "none" THEN "shutdown" ELSE cause[j]]
    /\ UNCHANGED <<db, workers, active, keys, slots, disp, pc, verdict, abandoned, hookDue,
                   canceller, bounds, hist>>

GraceOver ==
    /\ mgr = "draining"
    /\ mgr' = "expired"
    /\ UNCHANGED <<db, workers, active, keys, slots, disp, run, canceller, bounds, hist>>

\* Mutant: the straggler's row is not re-queued.
MutAbandon(j) ==
    /\ mgr = "expired" /\ j \in active /\ pc[j] \in Unfinished
    /\ abandoned' = abandoned \cup {j}
    /\ Forget(j)
    /\ UNCHANGED <<db, mgr, workers, disp, pc, cause, verdict, hookDue, canceller, bounds, hist>>

\* abandon: re-queue a straggler and disown its runner.
Abandon(j) ==
    /\ mgr = "expired" /\ j \in active /\ pc[j] \in Unfinished
    /\ abandoned' = abandoned \cup {j}
    /\ \/ /\ status' = [status EXCEPT ![j] = IF @ = "running" THEN "queued" ELSE @]
          /\ faults' = faults
       \/ /\ faults < MaxFaults /\ faults' = faults + 1
          /\ status' = status
    /\ Forget(j)
    /\ UNCHANGED <<attempt, waiting, deferrals, mgr, workers, disp, pc, cause, verdict, hookDue,
                   canceller, restarts, hist>>

\* The memory of a process that is gone.
Lose ==
    /\ mgr' = "down"
    /\ active' = {}
    /\ keys' = [k \in Keys |-> NoHolder]
    /\ slots' = [p \in Pools |-> 0]
    /\ dpc' = "idle" /\ todo' = {} /\ cur' = NoJob
    /\ pc' = [j \in Jobs |-> "none"]
    /\ cause' = [j \in Jobs |-> "none"]
    /\ verdict' = [j \in Jobs |-> "none"]
    /\ abandoned' = {}
    /\ hookDue' = {}
    /\ canceller' = IdleCanceller
    /\ restarts' = restarts + 1
    /\ UNCHANGED <<db, workers, faults, hooked, acked>>

\* Mutant: Stop waits for the runners after the grace period too.
MutExit ==
    /\ mgr \in {"draining", "expired"} /\ \A j \in Jobs : pc[j] = "none"
    /\ Lose

\* Stop returns (all jobs ended and their hooks ran, or the grace period is
\* over and every straggler was abandoned), and main exits.
Exit ==
    /\ \/ mgr = "draining" /\ (\A j \in Jobs : pc[j] = "none") /\ hookDue = {}
       \/ mgr = "expired" /\ \A j \in active : pc[j] \notin Unfinished
    /\ Lose

Crash ==
    /\ mgr # "down" /\ restarts < MaxRestarts
    /\ Lose

Boot ==
    /\ mgr = "down"
    /\ mgr' = "new"
    /\ UNCHANGED <<db, workers, active, keys, slots, disp, run, canceller, bounds, hist>>


CrashedTooOften(j) == status[j] = "running" /\ attempt[j] + 1 > MaxAttempts

\* Mutant: recovery fails the worn-out jobs but re-queues none.
MutStart ==
    /\ mgr = "new"
    /\ mgr' = "started"
    /\ status' = [j \in Jobs |-> IF CrashedTooOften(j) THEN "failed" ELSE status[j]]
    /\ hookDue' = hookDue \cup {j \in Jobs : CrashedTooOften(j)}
    /\ UNCHANGED <<attempt, waiting, deferrals, workers, active, keys, slots, disp, pc, cause,
                   verdict, abandoned, canceller, bounds, hist>>

\* Start: recoverCrashed in one transaction, the hooks of the failed jobs, then
\* the dispatcher.
Start ==
    /\ mgr = "new"
    /\ mgr' = "started"
    /\ status' = [j \in Jobs |-> IF CrashedTooOften(j) THEN "failed"
                                 ELSE IF status[j] = "running" THEN "queued" ELSE status[j]]
    /\ attempt' = [j \in Jobs |-> IF status[j] = "running" /\ ~CrashedTooOften(j)
                                  THEN attempt[j] + 1 ELSE attempt[j]]
    /\ hookDue' = hookDue \cup {j \in Jobs : CrashedTooOften(j)}
    /\ UNCHANGED <<waiting, deferrals, workers, active, keys, slots, disp, pc, cause, verdict,
                   abandoned, canceller, bounds, hist>>

-----------------------------------------------------------------------------

Dispatch ==
    \/ PassStart \/ PassEnd
    \/ \E j \in Jobs : VisitSkip(j) \/ VisitUnrunnable(j) \/ VisitNeeds(j)
    \/ NeedsSkip \/ Take \/ MarkRunning \/ MarkLost \/ MarkFails

Execute(j) ==
    \/ Invoke(j) \/ Return(j) \/ WriteResult(j) \/ WriteFails(j)
    \/ Discard(j) \/ Release(j) \/ FireHooks(j)

API ==
    \/ \E j \in Jobs : Enqueue(j) \/ CancelCall(j)
    \/ CancelHit \/ CancelMiss \/ CancelQueued \/ CancelRefused
    \/ \E h \in Holders, k \in Keys : HoldKeys(h, k) \/ ReleaseHold(h, k)
    \/ \E n \in WorkerCounts : SetWorkers(n)

Process ==
    \/ Stop \/ CancelRunning \/ GraceOver \/ Exit \/ Crash \/ Boot \/ Start
    \/ \E j \in Jobs : Abandon(j)

Next ==
    \/ Dispatch
    \/ \E j \in Jobs : Execute(j) \/ WindowOpens(j)
    \/ API
    \/ Process

Spec == Init /\ [][Next]_vars

\* Fairness: the dispatcher loop polls, goroutines are scheduled, timers fire,
\* Stop runs to its end, and the service is started again after it ended.
ProcessFairness ==
    /\ WF_vars(Dispatch)
    /\ WF_vars(CancelRunning) /\ WF_vars(GraceOver) /\ WF_vars(Exit)
    /\ WF_vars(Boot) /\ WF_vars(Start)
    /\ \A j \in Jobs : WF_vars(Abandon(j))

\* Fairness of the jobs: runners return, windows open, API calls complete.
JobFairness ==
    /\ \A j \in Jobs : WF_vars(Execute(j)) /\ WF_vars(WindowOpens(j))
    /\ WF_vars(CancelHit \/ CancelMiss \/ CancelQueued \/ CancelRefused)

\* Runners may hang for ever here.
StopSpec == Spec /\ ProcessFairness

-----------------------------------------------------------------------------
(* Properties.                                                             *)

\* Types of the table, of the manager's maps and of the goroutines.
TypeOK ==
    /\ status \in [Jobs -> Status]
    /\ attempt \in [Jobs -> 1..MaxAttempts]
    /\ waiting \subseteq Jobs
    /\ deferrals \in [Jobs -> Nat]
    /\ mgr \in {"down", "new", "started", "stopping", "draining", "expired"}
    /\ workers \in WorkerCounts
    /\ active \subseteq Jobs
    /\ keys \in [Keys -> Jobs \cup Holders \cup {NoHolder}]
    /\ slots \in [Pools -> Nat]
    /\ dpc \in {"idle", "scan", "needs", "mark"}
    /\ todo \subseteq Jobs
    /\ cur \in Jobs \cup {NoJob}
    /\ (cur = NoJob) <=> (dpc \in {"idle", "scan"})
    /\ pc \in [Jobs -> RunPC]
    /\ cause \in [Jobs -> {"none", "user", "shutdown"}]
    /\ verdict \in [Jobs -> Verdicts]
    /\ abandoned \subseteq Jobs
    /\ hookDue \subseteq Jobs
    /\ canceller \in [at : {"idle", "first", "queued", "again"}, job : Jobs \cup {NoJob}]
    /\ (canceller.job = NoJob) <=> (canceller.at = "idle")
    /\ restarts \in Nat /\ faults \in Nat
    /\ hooked \in [Jobs -> Nat]
    /\ acked \subseteq Jobs

\* Two jobs that share a lock key never run at the same time, not even when one
\* of them is a straggler that Stop disowned and whose keys were freed.
KeyExclusion ==
    \A i, j \in Jobs : i # j /\ pc[i] = "running" /\ pc[j] = "running" => KeysOf[i] \cap KeysOf[j] = {}

\* While the unlock endpoint holds a key, no job that needs it runs (a disowned
\* straggler of a process that is exiting excepted).
HoldExcludes ==
    \A j \in Jobs \ abandoned : pc[j] # "none" => \A k \in KeysOf[j] : keys[k] \notin Holders

\* Nothing leaks on any path out of a job (finish, failed or lost start,
\* abandonment): the active jobs are the one being started and those whose
\* goroutine is alive and not disowned, and they hold exactly their keys.
KeysAccounted ==
    /\ active = {j \in Jobs : (pc[j] # "none" /\ j \notin abandoned) \/ (dpc = "mark" /\ cur = j)}
    /\ \A k \in Keys : keys[k] \in Jobs => keys[k] \in active /\ k \in KeysOf[keys[k]]
    /\ \A j \in active : \A k \in KeysOf[j] : keys[k] = j

\* No slot leaks, through any of the paths that release a job: the counter of a
\* pool is the number of active jobs that need it, and never passes the limit.
SlotsAccounted ==
    \A p \in Pools :
        /\ slots[p] = Cardinality({j \in active : p \in NeedsOf[j]})
        /\ slots[p] <= Limit[p]

\* The row of a job whose runner is at work (and not disowned) says running:
\* a job cancelled or superseded in the table is never executed.
RunnerHasRow ==
    \A j \in Jobs \ abandoned : pc[j] \in Unfinished => status[j] = "running"

\* While writes succeed, a running row has a runner: nothing is stuck running
\* until the next start, and a graceful shutdown leaves no row running (so it
\* never costs a job an attempt).
RowHasRunner ==
    faults = 0 /\ mgr \notin {"down", "new"} =>
        \A j \in Jobs : status[j] = "running" => pc[j] \in Unfinished /\ j \notin abandoned

\* The life of a job as its clients see it: the rows, the runners that work on
\* them (not the disowned ones) and the hook calls.
Life == INSTANCE JobLife WITH
            row <- status, tries <- attempt, told <- hooked,
            at <- {j \in Jobs \ abandoned : pc[j] \in Unfinished}

\* The manager implements JobLife: a row starts with one runner and only that
\* runner's result, or its disowning, moves it on; a final status never changes
\* again, whatever late writers do; the hooks are called at most once and after
\* the end; only recovery uses up attempts, and a job that used them up fails.
Lives == Life!Spec

\* A second runner of the same job never starts while an earlier one (deferred
\* and not yet released, or disowned) is still there.
NoSecondRunner ==
    [][\A j \in Jobs : pc'[j] = "started" /\ pc[j] # "started" => pc[j] = "none"]_vars

\* Cancel's contract: once a Cancel call succeeded, the job's runner is not
\* called any more.
CancelSticks ==
    [][\A j \in acked : pc'[j] = "running" => pc[j] = "running"]_vars

\* If runners return, windows open and API calls complete, every queued job ends in
\* a final state, across restarts and deferrals, and its hooks run, unless a process
\* ended in between.
EventuallyFinal ==
    JobFairness =>
        \A j \in Jobs : status[j] = "queued" ~> status[j] \in Final /\ (hooked[j] = 1 \/ restarts > 0)

\* Stop returns even when runners hang.
StopReturns == mgr = "stopping" ~> mgr = "down"

=============================================================================
