----------------------------- MODULE Schedules -----------------------------
(***************************************************************************)
(* The backup schedules of an integration, from its settings to a job      *)
(* (internal/jobqueue/scheduler.go, schedules.go, internal/api/schedules.go*)
(* and backuptargets.go). A save of the integration mirrors its backup     *)
(* targets into schedules; a schedule edited on System -> Tasks is written *)
(* back into its target; deleting a destination or the integration drops   *)
(* both. Every change is followed by Reload, which reads the table and     *)
(* then replaces the scheduler's entries. The loop sleeps until the        *)
(* soonest entry and fires what is due. Requests interleave and their      *)
(* calls of the database fail; the clock is set forward and back; the      *)
(* process is killed at any step.                                          *)
(*                                                                         *)
(* What a fire does in the job store is in JobRequests. A schedule is      *)
(* known by its destination (one integration, one job type).               *)
(***************************************************************************)
EXTENDS Integers, FiniteSets, Sequences, SequencesExt

CONSTANTS
    Dests, Requests,  \* destinations; API requests in flight at once
    MaxSleep,         \* maxSleep
    Crons,            \* cron expressions: the times they fire at
    Worlds, None

VARIABLES
    world, used,
    clock,            \* the wall clock
    rows,             \* the schedules table: [id, cron, on, last] by destination, or None
    conf,             \* destinations; the integration's backup targets [d, cron, on], None without one
    sched,            \* the scheduler: entries [id, cron, next] by destination, lastFired by id, whether
                      \* it runs, its timer (None without one), the reload signal, fires to make
    reloading,        \* the request that holds reloadMu, with the list it read, or None
    req,              \* the requests: [at, ...]
    late,             \* how long an entry has been due (in time that passed, not by the clock)
    jobs,             \* the jobs queued: [id, d, at, mark]
    missed            \* history: the table changed and no reload followed; the settings changed, or
                      \* the schedules went, and no mirroring followed

vars == <<world, used, clock, rows, conf, sched, reloading, req, late, jobs, missed>>

Resting == [at |-> "idle"]
Empty == [d \in Dests |-> None]
Off == [up |-> FALSE, entries |-> Empty, lastFired |-> [i \in 1..world.ids |-> 0], timer |-> None, signal |-> FALSE, fire |-> {}]

Init ==
    /\ world \in Worlds
    /\ used = [saves |-> 0, edits |-> 0, deletes |-> 0, crashes |-> 0, jumps |-> 0, skips |-> 0, ticks |-> 0, errors |-> 0]
    /\ clock = 1 /\ rows = Empty /\ conf = [dests |-> Dests, targets |-> <<>>]
    /\ sched = Off /\ reloading = None /\ req = [r \in Requests |-> Resting]
    /\ late = [d \in Dests |-> 0] /\ jobs = {} /\ missed = [reload |-> FALSE, sync |-> FALSE]

Use(what) == used[what] < world[what] /\ used' = [used EXCEPT ![what] = @ + 1]
Idle == \A r \in Requests : req[r].at = "idle"
Start(r, rec) == req[r].at = "idle" /\ sched.up /\ (world.serial => Idle) /\ req' = [req EXCEPT ![r] = rec]
Go(r, p) == req' = [req EXCEPT ![r].at = p]
End(r) == req' = [req EXCEPT ![r] = Resting]

-----------------------------------------------------------------------------
(* The schedules table.                                                    *)

\* A new row's id is one more than the largest: ids of deleted rows come back.
Have(R) == {d \in Dests : R[d] # None}
NewId(R) == 1 + (IF Have(R) = {} THEN 0 ELSE CHOOSE i \in {R[d].id : d \in Have(R)} : \A d \in Have(R) : i >= R[d].id)

\* INSERT ... ON CONFLICT DO UPDATE: an existing row keeps its id and last run.
Upsert(R, t) ==
    [R EXCEPT ![t.d] = IF @ = None THEN [id |-> NewId(R), cron |-> t.cron, on |-> t.on, last |-> 0]
                       ELSE [@ EXCEPT !.cron = t.cron, !.on = t.on]]
\* A target without a cron expression is for manual backups.
BackupSchedules(ts) == SelectSeq(ts, LAMBDA t : t.cron # None)
Wanted(ts) == {BackupSchedules(ts)[i].d : i \in 1..Len(BackupSchedules(ts))}
MutSyncSchedules(ts) == FoldLeft(Upsert, rows, BackupSchedules(ts))
SyncSchedules(ts) ==
    FoldLeft(Upsert, [d \in Dests |-> IF d \in Wanted(ts) THEN rows[d] ELSE None], BackupSchedules(ts))
DeleteSchedulesFor(D) == [d \in Dests |-> IF d \in D THEN None ELSE rows[d]]
UpdateSchedule(e) == [rows EXCEPT ![e.d].cron = e.cron, ![e.d].on = e.on]

-----------------------------------------------------------------------------
(* The scheduler.                                                          *)

\* The times an expression fires at go on forever; the bound is the last one a run reaches.
NextTime(c, t) == CHOOSE n \in Crons[c] : n > t /\ \A m \in Crons[c] : m > t => m >= n
Latest(S) == CHOOSE n \in S : \A m \in S : n >= m
Soonest(S) == CHOOSE n \in S : \A m \in S : n <= m

Set == {d \in Dests : sched.entries[d] # None}
Same(row) == {d \in Set : sched.entries[d].id = row.id /\ sched.entries[d].cron = row.cron}
\* A schedule whose expression is unchanged keeps its next run; a new or changed one starts from
\* now, but never from before the last time it fired. Schedules are known by their ids.
Entry(row) ==
    [id |-> row.id, cron |-> row.cron,
     next |-> IF Same(row) # {} THEN sched.entries[CHOOSE d \in Same(row) : TRUE].next
              ELSE NextTime(row.cron, Latest({clock, sched.lastFired[row.id], row.last}))]
Applied(list) == [d \in Dests |-> IF list[d] = None \/ ~list[d].on THEN None ELSE Entry(list[d])]

\* Where a request goes on.
Onward(r) == IF req[r].then = "end" THEN End(r) ELSE Go(r, req[r].then)
\* Reload: reloadMu is held from the read to the apply. A failing read is logged: the entries
\* stay, and the request goes on.
ReloadRead(r) ==
    /\ req[r].at = "reload" /\ reloading = None
    /\ reloading' = [by |-> r, list |-> rows] /\ missed' = [missed EXCEPT !.reload = FALSE]
    /\ UNCHANGED <<world, used, clock, rows, conf, sched, req, late, jobs>>
ReloadFails(r) ==
    /\ req[r].at = "reload" /\ reloading = None /\ Use("errors")
    /\ Onward(r) /\ missed' = [missed EXCEPT !.reload = TRUE]
    /\ UNCHANGED <<world, clock, rows, conf, sched, reloading, late, jobs>>
\* An entry that stays is as late as it was.
LateOf(e) == {late[d] : d \in {c \in Set : e # None /\ sched.entries[c].id = e.id /\ sched.entries[c].next = e.next}} \cup {0}
ReloadApply(r) ==
    /\ req[r].at = "reload" /\ reloading # None /\ reloading.by = r
    /\ reloading' = None
    /\ sched' = [sched EXCEPT !.entries = Applied(reloading.list), !.signal = TRUE]
    /\ late' = [d \in Dests |-> Latest(LateOf(sched'.entries[d]))]
    /\ Onward(r)
    /\ UNCHANGED <<world, used, clock, rows, conf, jobs, missed>>

Least(a, b) == IF a < b THEN a ELSE b
Sleep(S) == LET s == Least(Soonest({sched.entries[d].next : d \in S}) - clock, MaxSleep) IN IF s < 0 THEN 0 ELSE s
\* The loop takes the reload signal, or has fired, and sleeps until the soonest run.
Arm ==
    /\ sched.up /\ sched.fire = {} /\ (sched.signal \/ sched.timer = None) /\ (Set # {} \/ sched.signal)
    /\ sched' = [sched EXCEPT !.signal = FALSE, !.timer = IF Set = {} THEN None ELSE Sleep(Set)]
    /\ UNCHANGED <<world, used, clock, rows, conf, reloading, req, late, jobs, missed>>
\* The timer: everything due is consumed once and advanced from now.
FireDue ==
    /\ sched.up /\ sched.timer = 0 /\ sched.fire = {}
    /\ LET due == {d \in Set : sched.entries[d].next <= clock}
           fired(i) == {sched.entries[d].next : d \in {e \in due : sched.entries[e].id = i}}
       IN  /\ sched' = [sched EXCEPT !.timer = None,
                  !.fire = {[id |-> sched.entries[d].id, d |-> d, at |-> sched.entries[d].next] : d \in due},
                  !.lastFired = [i \in DOMAIN @ |-> IF fired(i) = {} THEN @[i] ELSE Latest(fired(i))],
                  !.entries = [d \in Dests |-> IF d \in due THEN [@[d] EXCEPT !.next = NextTime(sched.entries[d].cron, clock)] ELSE @[d]]]
           /\ late' = [d \in Dests |-> IF d \in due THEN 0 ELSE late[d]]
    /\ UNCHANGED <<world, used, clock, rows, conf, reloading, req, jobs, missed>>

\* They fire in the order of their times, then of their ids; the same job may still run.
First(f) == \A g \in sched.fire : f.at < g.at \/ (f.at = g.at /\ f.id <= g.id)
Running == \E j \in jobs : j.mark = None
Fire ==
    /\ ~Running /\ \E f \in sched.fire : First(f)
        /\ jobs' = jobs \cup {[id |-> f.id, d |-> f.d, at |-> f.at, mark |-> None, n |-> Cardinality(jobs)]}
    /\ UNCHANGED <<world, used, clock, rows, conf, sched, reloading, req, late, missed>>
FireSkipped ==
    /\ ~Running /\ Use("skips") /\ \E f \in sched.fire : First(f) /\ sched' = [sched EXCEPT !.fire = @ \ {f}]
    /\ UNCHANGED <<world, clock, rows, conf, reloading, req, late, jobs, missed>>
MarkRun ==
    /\ \E j \in jobs, f \in sched.fire :
          /\ j.mark = None /\ f.at = j.at /\ f.id = j.id
          /\ jobs' = (jobs \ {j}) \cup {[j EXCEPT !.mark = clock]}
          /\ rows' = [d \in Dests |-> IF rows[d] # None /\ rows[d].id = j.id THEN [rows[d] EXCEPT !.last = clock] ELSE rows[d]]
          /\ sched' = [sched EXCEPT !.fire = @ \ {f}]
    /\ UNCHANGED <<world, used, clock, conf, reloading, req, late, missed>>

-----------------------------------------------------------------------------
(* Requests.                                                               *)

\* PUT /integrations/{id}: the targets form, or the single form, which keeps the other targets.
Merge(old, t) == <<t>> \o SelectSeq(SubSeq(old, 2, Len(old)), LAMBDA o : o.d # t.d)
CheckTargets(ts) == \A i \in 1..Len(ts) : ts[i].d \in conf.dests
SaveTargets(r) ==
    /\ conf.targets # None /\ Use("saves")
    /\ \E ts \in world.forms :
          /\ CheckTargets(ts)
          /\ conf' = [conf EXCEPT !.targets = ts]
          /\ Start(r, [at |-> "sync", with |-> ts])
    /\ UNCHANGED <<world, clock, rows, sched, reloading, late, jobs, missed>>
SaveSingle(r) ==
    /\ conf.targets # None /\ conf.targets # <<>> /\ Use("saves")
    /\ \E t \in world.singles :
          /\ CheckTargets(Merge(conf.targets, t))
          /\ conf' = [conf EXCEPT !.targets = Merge(conf.targets, t)]
          /\ Start(r, [at |-> "sync", with |-> Merge(conf.targets, t)])
    /\ UNCHANGED <<world, clock, rows, sched, reloading, late, jobs, missed>>
\* syncBackupSchedules, with the settings as the request has them. When it fails the settings are
\* saved and the schedules are not (errScheduleSync).
Sync(r) ==
    /\ req[r].at \in {"sync", "putback"}
    /\ \/ /\ rows' = SyncSchedules(req[r].with) /\ missed' = [missed EXCEPT !.sync = FALSE] /\ UNCHANGED used
          /\ req' = [req EXCEPT ![r] = [at |-> "reload", then |-> "end"]]
       \/ /\ Use("errors") /\ End(r) /\ UNCHANGED rows
          /\ missed' = [missed EXCEPT !.sync = TRUE, !.reload = @ \/ req[r].at = "putback"]
    /\ UNCHANGED <<world, clock, conf, sched, reloading, late, jobs>>

\* PUT /schedules/{id}: the row, Reload, then its target in the settings (read, then written).
EditSchedule(r) ==
    /\ Use("edits")
    /\ \E e \in [d : Have(rows), cron : DOMAIN Crons, on : BOOLEAN] :
          /\ rows' = UpdateSchedule(e)
          /\ Start(r, [at |-> "reload", then |-> "overlay", edit |-> e])
    /\ UNCHANGED <<world, clock, conf, sched, reloading, late, jobs, missed>>
OverlayTargets(ts, e) == [i \in 1..Len(ts) |-> IF ts[i].d = e.d THEN e ELSE ts[i]]
ReadTargets(r) ==
    /\ req[r].at = "overlay"
    /\ IF conf.targets = None THEN End(r)
       ELSE req' = [req EXCEPT ![r] = [at |-> "store", with |-> OverlayTargets(conf.targets, req[r].edit)]]
    /\ UNCHANGED <<world, used, clock, rows, conf, sched, reloading, late, jobs, missed>>
\* A target whose destination is gone is refused: the edit stays in the row only.
SaveTargetSchedule(r) ==
    /\ req[r].at = "store" /\ End(r)
    /\ conf' = IF conf.targets # None /\ CheckTargets(req[r].with)
               THEN [conf EXCEPT !.targets = req[r].with] ELSE conf
    /\ UNCHANGED <<world, used, clock, rows, sched, reloading, late, jobs, missed>>

\* DELETE /destinations/{id}: the row; its schedules; its targets, and their mirror.
DeleteDestination(r) ==
    /\ Use("deletes")
    /\ \E d \in conf.dests : conf' = [conf EXCEPT !.dests = @ \ {d}] /\ Start(r, [at |-> "schedules", d |-> d])
    /\ UNCHANGED <<world, clock, rows, sched, reloading, late, jobs, missed>>
DropSchedules(r) ==
    /\ req[r].at = "schedules"
    /\ \/ /\ rows' = DeleteSchedulesFor({req[r].d}) /\ UNCHANGED <<used, missed>>
          /\ req' = [req EXCEPT ![r] = [at |-> IF rows[req[r].d] = None THEN "targets" ELSE "reload", then |-> "targets", d |-> req[r].d]]
       \/ Use("errors") /\ End(r) /\ missed' = [missed EXCEPT !.sync = TRUE] /\ UNCHANGED rows
    /\ UNCHANGED <<world, clock, conf, sched, reloading, late, jobs>>
WithoutTarget(ts, d) == SelectSeq(ts, LAMBDA t : t.d # d)
RemoveBackupTargets(r) ==
    /\ req[r].at = "targets"
    /\ LET ts == IF conf.targets = None THEN <<>> ELSE conf.targets
           left == WithoutTarget(ts, req[r].d)
       IN  \/ left = ts /\ End(r) /\ UNCHANGED <<used, conf, missed>>
           \/ /\ left # ts /\ conf' = [conf EXCEPT !.targets = left] /\ UNCHANGED <<used, missed>>
              /\ req' = [req EXCEPT ![r] = [at |-> "sync", with |-> left]]
           \/ Use("errors") /\ End(r) /\ missed' = [missed EXCEPT !.sync = TRUE] /\ UNCHANGED conf
    /\ UNCHANGED <<world, clock, rows, sched, reloading, late, jobs>>
\* DELETE /integrations/{id}: the integration is read, its schedules go, then the row.
DeleteIntegration(r) ==
    /\ conf.targets # None /\ Use("deletes") /\ Start(r, [at |-> "purge", with |-> conf.targets])
    /\ UNCHANGED <<world, clock, rows, conf, sched, reloading, late, jobs, missed>>
Purge(r) ==
    /\ req[r].at = "purge" /\ rows' = DeleteSchedulesFor(Dests)
    /\ req' = [req EXCEPT ![r] = [at |-> "gone", some |-> Have(rows) # {}, with |-> req[r].with]]
    /\ UNCHANGED <<world, used, clock, conf, sched, reloading, late, jobs, missed>>
\* The schedules of a Plex server that was not deleted are put back; an *arr's are not, and
\* nothing is reloaded.
PutBack(r) ==
    IF req[r].some /\ world.type = "plex"
    THEN req' = [req EXCEPT ![r] = [at |-> "putback", with |-> req[r].with]] /\ UNCHANGED missed
    ELSE End(r) /\ missed' = IF req[r].some THEN [reload |-> TRUE, sync |-> TRUE] ELSE missed
\* The row is gone already when a second request deletes it.
DeleteRow(r) ==
    /\ req[r].at = "gone"
    /\ \/ /\ conf.targets # None /\ conf' = [conf EXCEPT !.targets = None] /\ UNCHANGED <<used, missed>>
          /\ IF req[r].some THEN req' = [req EXCEPT ![r] = [at |-> "reload", then |-> "end"]] ELSE End(r)
       \/ conf.targets = None /\ PutBack(r) /\ UNCHANGED <<used, conf>>
       \/ conf.targets # None /\ Use("errors") /\ PutBack(r) /\ UNCHANGED conf
    /\ UNCHANGED <<world, clock, rows, sched, reloading, late, jobs>>

-----------------------------------------------------------------------------
(* The process and the clock.                                              *)

Referenced == IF conf.targets = None THEN {} ELSE conf.dests
PruneOrphanSchedules == DeleteSchedulesFor(Dests \ Referenced)
\* Start: orphans are pruned, the schedules loaded, the loop started.
StartUp ==
    /\ ~sched.up
    /\ rows' = PruneOrphanSchedules
    /\ sched' = [Off EXCEPT !.up = TRUE, !.signal = TRUE,
          !.entries = [d \in Dests |-> IF rows'[d] = None \/ ~rows'[d].on THEN None
                                       ELSE [id |-> rows'[d].id, cron |-> rows'[d].cron,
                                             next |-> NextTime(rows'[d].cron, Latest({clock, rows'[d].last}))]]]
    /\ missed' = [missed EXCEPT !.reload = FALSE]
    /\ UNCHANGED <<world, used, clock, conf, reloading, req, late, jobs>>
Crash ==
    /\ sched.up /\ Use("crashes")
    /\ sched' = Off /\ reloading' = None /\ req' = [r \in Requests |-> Resting]
    /\ late' = [d \in Dests |-> 0] /\ jobs' = {IF j.mark = None THEN [j EXCEPT !.mark = 0] ELSE j : j \in jobs}
    /\ UNCHANGED <<world, clock, rows, conf, missed>>

\* Time passes: not beyond an elapsed timer, nor past a loop or scheduler at work.
Ready == sched.up /\ ~sched.signal /\ sched.fire = {} /\ (IF Set = {} THEN TRUE ELSE sched.timer # None /\ sched.timer > 0)
Tick ==
    /\ Ready /\ Use("ticks") /\ clock' = clock + 1
    /\ sched' = IF sched.timer = None THEN sched ELSE [sched EXCEPT !.timer = @ - 1]
    /\ late' = [d \in Dests |-> IF sched.entries[d] # None /\ sched.entries[d].next <= clock THEN late[d] + 1 ELSE 0]
    /\ UNCHANGED <<world, rows, conf, reloading, req, jobs, missed>>
\* The clock is set, or the machine slept: timers do not notice.
SetClock ==
    /\ Use("jumps") /\ \E t \in world.sets : t # clock /\ clock' = t
    /\ UNCHANGED <<world, rows, conf, sched, reloading, req, late, jobs, missed>>

Next ==
    \/ \E r \in Requests :
          \/ SaveTargets(r) \/ SaveSingle(r) \/ Sync(r) \/ EditSchedule(r) \/ ReadTargets(r) \/ SaveTargetSchedule(r)
          \/ DeleteDestination(r) \/ DropSchedules(r) \/ RemoveBackupTargets(r) \/ DeleteIntegration(r) \/ Purge(r) \/ DeleteRow(r)
          \/ ReloadRead(r) \/ ReloadFails(r) \/ ReloadApply(r)
    \/ Arm \/ FireDue \/ Fire \/ FireSkipped \/ MarkRun
    \/ StartUp \/ Crash \/ Tick \/ SetClock

Spec == Init /\ [][Next]_vars

-----------------------------------------------------------------------------
(* Properties.                                                             *)

\* No schedule queues two jobs for one scheduled time, through reloads, edits, restarts and a
\* clock set back, unless a run in between was not recorded at its time: the process was killed
\* before MarkRun, or the clock was already behind.
FiresOnce ==
    \A j, k \in jobs : j.n < k.n /\ j.id = k.id /\ j.d = k.d /\ j.at = k.at =>
        \E l \in jobs : l.id = j.id /\ l.n \in j.n..k.n /\ l.mark # None /\ l.mark < l.at

\* When no request is in flight the scheduler has exactly the enabled schedules of the table,
\* unless since the last reload one failed, or a delete of the integration did after its schedules
\* went and they were not put back.
EntriesCurrent ==
    sched.up /\ Idle /\ ~missed.reload =>
        \A d \in Dests :
            IF rows[d] = None \/ ~rows[d].on THEN sched.entries[d] = None
            ELSE sched.entries[d] # None /\ sched.entries[d].id = rows[d].id /\ sched.entries[d].cron = rows[d].cron

\* However the clock is set, a run that is due waits for at most maxSleep.
PromptFires == \A d \in Dests : late[d] <= MaxSleep

\* With one request at a time and no crash, the schedules are what the settings say, unless the
\* last mirroring failed, or an *arr was not deleted: a schedule edited on its own is not undone by
\* a later save that does not name it, and a Plex server that was not deleted has its schedules.
Mirrored ==
    world.serial /\ used.crashes = 0 /\ Idle /\ ~missed.sync =>
        LET ts == IF conf.targets = None THEN <<>> ELSE BackupSchedules(conf.targets)
        IN  /\ Have(rows) = Wanted(ts)
            /\ \A i \in 1..Len(ts) : rows[ts[i].d].cron = ts[i].cron /\ rows[ts[i].d].on = ts[i].on
=============================================================================
