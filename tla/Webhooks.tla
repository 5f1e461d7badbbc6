------------------------------ MODULE Webhooks ------------------------------
(***************************************************************************)
(* Webhook events of one *arr integration, from the intake to the refresh  *)
(* jobs they become (internal/webhooks: intake.go, parse.go, store.go,     *)
(* processor.go). An event is stored, handed to the processor's loop,      *)
(* scheduled by its class, flushed into a refresh job and marked; a        *)
(* cancelled refresh re-arms its events. The process ends anywhere.        *)
(*                                                                         *)
(* Jobs are reduced to what the processor sees of them: a queued refresh   *)
(* that has not started absorbs items (JobRequests), a running one reads   *)
(* the *arr after it began, and the OnFinish hooks of a cancelled one run  *)
(* after its row says so (JobQueue).                                       *)
(***************************************************************************)
EXTENDS Integers, FiniteSets, Sequences, SequencesExt

CONSTANTS
    Events,             \* bound: webhook_events ids, 1..n
    Items,              \* *arr item ids
    Jobs,               \* bound: refresh job ids, 1..n
    Worlds,             \* what may happen: bodies (what the *arr sends: app, type, upgrade,
                        \* files, item); how many faults, stops and cancels; disables;
                        \* rows (Store.maxRows)
    Quiet, Cap, DeleteDelay, UpgradeHold, RetryDelay,
    MaxTargetItems,     \* jobs.MaxTargetItems
    MaxEnqueueAttempts, \* maxEnqueueAttempts
    LoadPage,           \* loadPage
    LastArrival,        \* bound: events arrive until then
    MaxTime,            \* bound: stands for every later time
    None

ASSUME WebhookAssumption ==
    /\ Events \subseteq Nat \ {0} /\ Items \subseteq Nat \ {0} /\ Jobs \subseteq Nat \ {0}
    /\ IsFiniteSet(Events) /\ IsFiniteSet(Items) /\ IsFiniteSet(Jobs)
    /\ \A d \in {Quiet, Cap, DeleteDelay, UpgradeHold, RetryDelay} : d \in Nat \ {0}
    /\ \A n \in {MaxTargetItems, MaxEnqueueAttempts, LoadPage} : n \in Nat \ {0}
    /\ LastArrival \in Nat /\ MaxTime >= LastArrival + DeleteDelay
    /\ MaxTime \in Nat /\ MaxTime >= LastArrival + UpgradeHold /\ MaxTime >= LastArrival + Cap

Classes == {"change", "download", "delete", "upgrade_delete", "test", "ignored"}
BodyType == [app : {"radarr", "sonarr", "lidarr"}, type : STRING, upgrade : BOOLEAN, files : BOOLEAN,
             item : Items \cup {0}]
WorldType == [bodies : Seq(BodyType), faults : Nat, stops : Nat, cancels : Nat, disables : BOOLEAN,
              rows : Nat, faulty : BOOLEAN]
EventType == [class : Classes, at : Nat, item : Items \cup {0}]
ItemType == [first : Nat, due : Nat, del : Nat, hold : Nat, retry : Nat, attempts : Nat, events : SUBSET Events]
JobType == [st : {"queued", "running", "completed", "failed", "cancelled"}, started : BOOLEAN, items : SUBSET Items]

ASSUME WorldAssumption == Worlds \subseteq WorldType
ASSUME NoneAssumption == None \notin EventType /\ None \notin ItemType /\ None \notin JobType

VARIABLES
    now,                    \* the clock (0: the zero time)
    what,                   \* the events received: class, item, receivedAt
    st, by,                 \* webhook_events: what became of each event, and its job_id
    job,                    \* the refresh jobs
    enabled,                \* the integration exists and is enabled
    proc, after,            \* the processor, and how far Start has read
    inbox, known, items,    \* its events: handed over, counted, scheduled per item
    fl,                     \* the step of the loop in progress
    told, hookDue, pushing, \* handovers under way: by the intake, by the hooks
    saw, lapse,             \* history: events a job read after; a failed re-arm
    world                   \* what may still happen

db == <<what, st, by, job, enabled>>
memory == <<inbox, known, items>>
handover == <<told, hookDue, pushing>>
hist == <<saw, lapse>>
vars == <<now, db, proc, after, memory, fl, handover, hist, world>>

NoFlush == [at |-> "idle", batch |-> <<>>, failed |-> {}, keys |-> {}, now |-> 0, chunk |-> {}, job |-> 0]

Init ==
    /\ now = 1
    /\ what = [e \in Events |-> None]
    /\ st = [e \in Events |-> "absent"] /\ by = [e \in Events |-> 0]
    /\ job = [j \in Jobs |-> None]
    /\ enabled = TRUE
    /\ proc = "down" /\ after = 0
    /\ inbox = <<>> /\ known = {} /\ items = [i \in Items |-> None]
    /\ fl = NoFlush
    /\ told = {} /\ hookDue = {} /\ pushing = [j \in Jobs |-> {}]
    /\ saw = [j \in Jobs |-> {}] /\ lapse = FALSE
    /\ world \in Worlds

Up == proc # "down"
Received == {e \in Events : what[e] # None}
Unprocessed == {e \in Events : st[e] = "unprocessed"}
\* A database or other operation fails.
Fault ==
    /\ world.faults > 0
    /\ world' = [world EXCEPT !.faults = @ - 1, !.faulty = TRUE]

-----------------------------------------------------------------------------
(* The intake.                                                             *)

\* classify: how an event is scheduled, from its type and two of its fields.
FileDelete == [radarr |-> {"MovieFileDelete"}, sonarr |-> {"EpisodeFileDelete"}, lidarr |-> {}]
ItemDelete == [radarr |-> {"MovieDelete"}, sonarr |-> {"SeriesDelete"},
               lidarr |-> {"AlbumDelete", "ArtistDelete"}]
ItemChange == [radarr |-> {"Rename", "MovieAdded"}, sonarr |-> {"Rename", "SeriesAdd"},
               lidarr |-> {"Rename", "Retag", "ArtistAdd"}]

Classify(k) ==
    CASE k.type = "Test" -> "test"
      [] k.type = "Download" -> "download"
      [] k.type \in FileDelete[k.app] -> IF k.upgrade THEN "upgrade_delete" ELSE "change"
      [] k.type \in ItemDelete[k.app] -> IF k.files THEN "delete" ELSE "change"
      [] k.type \in ItemChange[k.app] -> "change"
      [] OTHER -> "ignored"

Schedules(class) == class \in {"change", "download", "delete", "upgrade_delete"}

\* Serve, up to Insert, of an accepted call; a refused one (rate, backlog, slots, body)
\* changes nothing, and what it was refused by may have changed since it was checked. A
\* test or an event that nothing acts on is stored as processed. Item 0: the body names none.
Receive(e) ==
    LET body == world.bodies[e]
        class == Classify(body)
    IN  /\ Up /\ proc # "stopped" /\ enabled /\ now <= LastArrival
        /\ e \notin Received /\ (\A k \in Events : k < e => k \in Received) /\ e <= Len(world.bodies)
        /\ what' = [what EXCEPT ![e] = [class |-> class, at |-> now,
                                        item |-> IF Schedules(class) THEN body.item ELSE 0]]
        /\ st' = [st EXCEPT ![e] = IF Schedules(class) THEN "unprocessed" ELSE class]
        /\ told' = told \cup {e}
        /\ UNCHANGED <<now, by, job, enabled, proc, after, memory, fl, hookDue, pushing, hist, world>>

\* The events E by their ids, as the store lists them.
InOrder(E) == {s \in [1..Cardinality(E) -> E] : ToSet(s) = E /\ \A a, b \in DOMAIN s : a < b => s[a] < s[b]}

\* push: an event in the backlog already is not taken twice.
Push(E) ==
    /\ known' = known \cup E
    /\ \E s \in InOrder(E \ known) : inbox' = inbox \o s

\* Processor.Notify
Notify(e) ==
    /\ e \in told
    /\ told' = told \ {e}
    /\ IF Schedules(what[e].class) THEN Push({e}) ELSE UNCHANGED <<known, inbox>>
    /\ UNCHANGED <<now, db, proc, after, items, fl, hookDue, pushing, hist, world>>

-----------------------------------------------------------------------------
(* The loop: step takes the new events, schedules them and flushes.        *)

Later(a, b) == IF b > a THEN b ELSE a
Earlier(a, b) == IF b < a THEN b ELSE a

\* A time d after t; every time from MaxTime on is the same.
In(t, d) == Earlier(t + d, MaxTime)

NewItem(t) == [first |-> t, due |-> 0, del |-> 0, hold |-> 0, retry |-> 0, attempts |-> 0, events |-> {}]

\* The times an event sets: a change or download its quiet window, capped from the
\* first event; a delete its delay; an upgrade's delete a hold, which its Download ends.
Scheduled(it, w) ==
    LET releases == w.class = "download" /\ it.hold # 0
        first == IF releases THEN w.at ELSE it.first
    IN  CASE w.class \in {"change", "download"} ->
               [it EXCEPT !.first = first, !.hold = IF releases THEN 0 ELSE @,
                          !.due = Later(@, Earlier(In(w.at, Quiet), In(first, Cap)))]
          [] w.class = "delete" -> [it EXCEPT !.del = Later(@, In(w.at, DeleteDelay))]
          [] w.class = "upgrade_delete" -> [it EXCEPT !.hold = Later(@, In(w.at, UpgradeHold))]

DueAt(it) == Later(Later(it.due, it.del), Later(it.hold, it.retry))

\* Mutant: an item of the same integration goes with any flush.
MutJoins(it, t) == it.retry <= t /\ it.due <= In(t, Quiet)

\* An item that only waits for its quiet window may go with a flush at t.
Joins(it, t) == it.del = 0 /\ it.hold = 0 /\ it.retry <= t /\ it.due <= In(t, Quiet)

\* markFailed: the events leave the backlog even when the write fails.
MarkFailed(E) ==
    /\ \/ st' = [e \in Events |-> IF e \in E /\ st[e] = "unprocessed" THEN "failed" ELSE st[e]] /\ world' = world
       \/ E # {} /\ Fault /\ st' = st
    /\ known' = known \ E

\* step: what came in is taken ...
Step ==
    /\ proc = "loop" /\ fl.at = "idle"
    /\ inbox # <<>> \/ \E i \in Items : items[i] # None /\ DueAt(items[i]) <= now
    /\ fl' = [NoFlush EXCEPT !.at = "add", !.batch = inbox, !.now = now]
    /\ inbox' = <<>>
    /\ UNCHANGED <<now, db, proc, after, known, items, handover, hist, world>>

\* ... and added, one event after the other (one that names no item cannot be) ...
Add ==
    /\ fl.at = "add" /\ fl.batch # <<>>
    /\ LET e == Head(fl.batch)
           w == what[e]
           it == IF items[w.item] = None THEN NewItem(w.at) ELSE items[w.item]
       IN  IF w.item = 0 THEN
               /\ fl' = [fl EXCEPT !.batch = Tail(@), !.failed = @ \cup {e}]
               /\ items' = items
           ELSE
               /\ fl' = [fl EXCEPT !.batch = Tail(@)]
               /\ items' = [items EXCEPT ![w.item] = [Scheduled(it, w) EXCEPT !.events = @ \cup {e}]]
    /\ UNCHANGED <<now, db, proc, after, inbox, known, handover, hist, world>>

\* ... until the items to flush now are known: once one is due, those that may join it too.
Added ==
    /\ fl.at = "add" /\ fl.batch = <<>>
    /\ LET due == {i \in Items : items[i] # None /\ DueAt(items[i]) <= fl.now}
           joining == {i \in Items : items[i] # None /\ Joins(items[i], fl.now)}
       IN  fl' = IF due = {} THEN NoFlush
                 ELSE [fl EXCEPT !.at = "check", !.failed = {}, !.keys = due \cup joining]
    /\ MarkFailed(fl.failed)
    /\ UNCHANGED <<now, what, by, job, enabled, proc, after, inbox, items, handover, hist>>

EventsOf(K) == UNION {items[i].events : i \in K}
Drop(K) == [i \in Items |-> IF i \in K THEN None ELSE items[i]]
Retry(K) == [i \in Items |-> IF i \in K THEN [items[i] EXCEPT !.retry = In(fl.now, RetryDelay)] ELSE items[i]]

\* The next chunk, or the end of the flush.
NextChunk ==
    LET rest == fl.keys \ fl.chunk
    IN  fl' = IF rest = {} THEN NoFlush ELSE [fl EXCEPT !.at = "enqueue", !.keys = rest, !.chunk = {}, !.job = 0]

\* flush: is the integration still there? If not its events fail.
Check ==
    /\ fl.at = "check"
    /\ \/ /\ enabled
          /\ fl' = [fl EXCEPT !.at = "enqueue"]
          /\ UNCHANGED <<st, items, known, world>>
       \/ /\ ~enabled
          /\ items' = Drop(fl.keys) /\ fl' = NoFlush
          /\ MarkFailed(EventsOf(fl.keys))
       \/ /\ Fault
          /\ items' = Retry(fl.keys) /\ fl' = NoFlush
          /\ UNCHANGED <<st, known>>
    /\ UNCHANGED <<now, what, by, job, enabled, proc, after, inbox, handover, hist>>

Chunk == {i \in fl.keys : Cardinality({k \in fl.keys : k < i}) < MaxTargetItems}

\* Enqueue of a refresh of the items K, answered with job j: the oldest queued one
\* that never started takes them in, untargeted (all items) beyond the limit.
Enqueue(K, j) ==
    LET open == {i \in Jobs : job[i] # None /\ job[i].st = "queued" /\ ~job[i].started}
        merged == job[j].items \cup K
    IN  IF open # {} THEN
            /\ j \in open /\ \A i \in open : j <= i
            /\ job' = [job EXCEPT ![j].items = IF Cardinality(merged) > MaxTargetItems THEN Items ELSE merged]
        ELSE
            /\ job[j] = None /\ \A i \in Jobs : i < j => job[i] # None
            /\ job' = [job EXCEPT ![j] = [st |-> "queued", started |-> FALSE, items |-> K]]

\* flushChunk: the refresh is queued ...
FlushEnqueue ==
    /\ fl.at = "enqueue"
    /\ \E j \in Jobs :
          /\ Enqueue(Chunk, j)
          /\ fl' = [fl EXCEPT !.at = "mark", !.chunk = Chunk, !.job = j]
    /\ UNCHANGED <<now, what, st, by, enabled, proc, after, memory, handover, hist, world>>


GivesUp(it) == it.attempts >= MaxEnqueueAttempts

\* ... or cannot be, a few times; then the events fail (that write may fail as well).
EnqueueFails ==
    /\ fl.at = "enqueue" /\ world.faults > 0
    /\ LET tried == [i \in Items |-> IF i \in Chunk THEN [Retry(Chunk)[i] EXCEPT !.attempts = @ + 1] ELSE items[i]]
           lost == {i \in Chunk : GivesUp(tried[i])}
           E == EventsOf(lost)
       IN  /\ items' = [i \in Items |-> IF i \in lost THEN None ELSE tried[i]]
           /\ \/ /\ st' = [e \in Events |-> IF e \in E /\ st[e] = "unprocessed" THEN "failed" ELSE st[e]]
                 /\ Fault
              \/ /\ E # {} /\ world.faults > 1 /\ st' = st
                 /\ world' = [world EXCEPT !.faults = @ - 2, !.faulty = TRUE]
           /\ known' = known \ E
           /\ fl' = IF fl.keys = Chunk THEN NoFlush ELSE [fl EXCEPT !.keys = @ \ Chunk]
    /\ UNCHANGED <<now, what, by, job, enabled, proc, after, inbox, handover, hist>>

\* Mutant: a refresh that was cancelled meanwhile is not noticed.
MutMarkable(j) == TRUE

\* MarkProcessed refuses a job that is cancelled already.
Markable(j) == job[j].st # "cancelled"

\* Its events are marked, or retried ...
FlushMark ==
    /\ fl.at = "mark"
    /\ LET E == EventsOf(fl.chunk) \cap Unprocessed
       IN  \/ /\ Markable(fl.job)
              /\ st' = [e \in Events |-> IF e \in E THEN "queued" ELSE st[e]]
              /\ by' = [e \in Events |-> IF e \in E THEN fl.job ELSE by[e]]
              /\ fl' = [fl EXCEPT !.at = "forget"]
              /\ UNCHANGED <<items, world>>
           \/ /\ IF Markable(fl.job) THEN Fault ELSE world' = world
              /\ items' = Retry(fl.chunk)
              /\ NextChunk
              /\ UNCHANGED <<st, by>>
    /\ UNCHANGED <<now, what, job, enabled, proc, after, inbox, known, handover, hist>>


\* ... and leave the processor.
FlushForget ==
    /\ fl.at = "forget"
    /\ items' = Drop(fl.chunk)
    /\ known' = known \ EventsOf(fl.chunk)
    /\ NextChunk
    /\ UNCHANGED <<now, db, proc, after, inbox, handover, hist, world>>

-----------------------------------------------------------------------------
(* The refresh jobs, and the hook of a cancelled one.                      *)

\* The job reads the *arr after it began: what happened before, it sees.
Begin(j) ==
    /\ proc \notin {"down", "stopped"} /\ job[j] # None /\ job[j].st = "queued"
    /\ job' = [job EXCEPT ![j].st = "running", ![j].started = TRUE]
    /\ saw' = [saw EXCEPT ![j] = Received]
    /\ UNCHANGED <<now, what, st, by, enabled, proc, after, memory, fl, handover, lapse, world>>

EndJob(j) ==
    /\ Up /\ job[j] # None /\ job[j].st = "running"
    /\ \E s \in {"completed", "failed"} : job' = [job EXCEPT ![j].st = s]
    /\ UNCHANGED <<now, what, st, by, enabled, proc, after, memory, fl, handover, hist, world>>

CancelJob(j) ==
    /\ Up /\ job[j] # None /\ job[j].st \in {"queued", "running"} /\ world.cancels > 0
    /\ world' = [world EXCEPT !.cancels = @ - 1]
    /\ job' = [job EXCEPT ![j].st = "cancelled"]
    /\ hookDue' = hookDue \cup {j}
    /\ UNCHANGED <<now, what, st, by, enabled, proc, after, memory, fl, told, pushing, hist>>

Carries(j) == {e \in Events : st[e] = "queued" /\ by[e] = j}
Unmark(E) ==
    /\ st' = [e \in Events |-> IF e \in E THEN "unprocessed" ELSE st[e]]
    /\ by' = [e \in Events |-> IF e \in E THEN 0 ELSE by[e]]

\* OnJobFinish: the events of the cancelled refresh become unprocessed ...
HookRearm(j) ==
    /\ j \in hookDue
    /\ hookDue' = hookDue \ {j}
    /\ \/ /\ Unmark(Carries(j))
          /\ pushing' = [pushing EXCEPT ![j] = Carries(j)]
          /\ UNCHANGED <<lapse, world>>
       \/ /\ Fault /\ lapse' = TRUE
          /\ UNCHANGED <<st, by, pushing>>
    /\ UNCHANGED <<now, what, job, enabled, proc, after, memory, fl, told, saw>>

\* ... and are handed to the loop again.
HookPush(j) ==
    /\ pushing[j] # {}
    /\ Push(pushing[j])
    /\ pushing' = [pushing EXCEPT ![j] = {}]
    /\ UNCHANGED <<now, db, proc, after, items, fl, told, hookDue, hist, world>>

-----------------------------------------------------------------------------
(* Start, Stop, prune, and the end of the process.                         *)

\* The oldest rows beyond the limit are deleted, processed or not (the limits of age and
\* of payload bytes delete the oldest rows too, and stand for the same).
Pruned == [e \in Events |-> IF Cardinality({k \in Events : k > e /\ st[k] # "absent"}) >= world.rows
                            THEN "absent" ELSE st[e]]

\* The HTTP server runs before the processor is started.
Boot ==
    /\ proc = "down"
    /\ proc' = "prune" /\ after' = 0
    /\ UNCHANGED <<now, db, memory, fl, handover, hist, world>>

StartPrune ==
    /\ proc = "prune"
    /\ \/ st' = Pruned /\ world' = world
       \/ Fault /\ st' = st
    /\ proc' = "rearm"
    /\ UNCHANGED <<now, what, by, job, enabled, after, memory, fl, handover, hist>>

\* rearmCancelled; its failure is only a warning.
StartRearm ==
    /\ proc = "rearm"
    /\ \/ /\ Unmark(UNION {Carries(j) : j \in {i \in Jobs : job[i] # None /\ job[i].st = "cancelled"}})
          /\ lapse' = FALSE /\ world' = world
       \/ Fault /\ lapse' = TRUE /\ UNCHANGED <<st, by>>
    /\ proc' = "load"
    /\ UNCHANGED <<now, what, job, enabled, after, memory, fl, handover, saw>>

\* A page of the unprocessed events; after the last one the loop starts.
StartLoad ==
    /\ proc = "load"
    /\ LET left == {e \in Unprocessed : e > after}
           page == {e \in left : Cardinality({k \in left : k < e}) < LoadPage}
       IN  /\ Push(page)
           /\ IF Cardinality(page) < LoadPage THEN proc' = "loop" /\ after' = 0
                                              ELSE proc' = proc /\ after' = Max(page)
    /\ UNCHANGED <<now, db, items, fl, handover, hist, world>>

\* The prune timer, and the prune that begins a step.
LoopPrune ==
    /\ proc = "loop" /\ fl.at = "idle" /\ Pruned # st
    /\ st' = Pruned
    /\ UNCHANGED <<now, what, by, job, enabled, proc, after, memory, fl, handover, hist, world>>

\* The process ends: everything in memory is lost, running jobs are queued again.
Lose ==
    /\ proc' = "down" /\ after' = 0
    /\ inbox' = <<>> /\ known' = {} /\ items' = [i \in Items |-> None]
    /\ fl' = NoFlush
    /\ told' = {} /\ hookDue' = {} /\ pushing' = [j \in Jobs |-> {}]
    /\ job' = [j \in Jobs |-> IF job[j] # None /\ job[j].st = "running" THEN [job[j] EXCEPT !.st = "queued"] ELSE job[j]]
    /\ UNCHANGED <<now, what, st, by, enabled, hist>>

Crash ==
    /\ Up /\ world.stops > 0
    /\ world' = [world EXCEPT !.stops = @ - 1]
    /\ Lose

\* Stop: the loop ends between two steps.
Stop ==
    /\ proc = "loop" /\ fl.at = "idle" /\ world.stops > 0
    /\ world' = [world EXCEPT !.stops = @ - 1]
    /\ proc' = "stopped"
    /\ UNCHANGED <<now, db, after, memory, fl, handover, hist>>

Exit == proc = "stopped" /\ world' = world /\ Lose

Disable ==
    /\ Up /\ enabled /\ world.disables
    /\ enabled' = FALSE
    /\ UNCHANGED <<now, what, st, by, job, proc, after, memory, fl, handover, hist, world>>

\* Bound: no time passes while the loop flushes (it flushes at the time of its step).
Tick ==
    /\ now < MaxTime /\ fl.at = "idle"
    /\ now' = now + 1
    /\ UNCHANGED <<db, proc, after, memory, fl, handover, hist, world>>

-----------------------------------------------------------------------------

Loop == Step \/ Add \/ Added \/ Check \/ FlushEnqueue \/ EnqueueFails \/ FlushMark \/ FlushForget
Starting == Boot \/ StartPrune \/ StartRearm \/ StartLoad
Ending == Crash \/ Stop \/ Exit
JobSteps == \E j \in Jobs : Begin(j) \/ EndJob(j) \/ CancelJob(j) \/ HookRearm(j) \/ HookPush(j)

Next ==
    \/ \E e \in Events : Receive(e) \/ Notify(e)
    \/ Loop \/ JobSteps \/ Starting \/ LoopPrune \/ Ending \/ Disable \/ Tick

Spec == Init /\ [][Next]_vars

-----------------------------------------------------------------------------
(* Properties.                                                             *)

\* What "queued" promises: the refresh an event is marked with covers its item; once
\* it completed, it read the *arr after the event came; and if it was cancelled, its
\* events are about to be re-armed (by the hook, or at the next start).
Carried ==
    \A e \in Events : st[e] = "queued" =>
        LET j == job[by[e]]
        IN  /\ what[e].item \in j.items
            /\ j.st = "completed" => e \in saw[by[e]]
            /\ j.st = "cancelled" => by[e] \in hookDue \/ proc \in {"down", "prune", "rearm"} \/ lapse

\* No refresh is queued for an item before the folder of a deleted item is gone
\* (DeleteDelay), nor between an upgrade's delete and its Download (UpgradeHold):
\* whatever else is flushed, re-armed or read again after a restart.
DelaysRespected ==
    [][fl.at = "enqueue" /\ fl'.at = "mark" =>
         \A e \in EventsOf(fl'.chunk) :
            /\ what[e].class = "delete" => now >= what[e].at + DeleteDelay
            /\ what[e].class = "upgrade_delete" =>
                  \/ now >= what[e].at + UpgradeHold
                  \/ \E d \in EventsOf(fl'.chunk) : what[d].item = what[e].item /\ what[d].class = "download"]_vars

\* The backlog (known, what the intake refuses new events by) is exactly what the loop
\* still has to do, the inbox, what a step took from it and the scheduled items: whatever is retried, dropped or
\* handed over twice, nothing stays in it for ever and nothing is due that it misses.
BacklogExact == known = ToSet(inbox) \cup ToSet(fl.batch) \cup fl.failed \cup EventsOf({i \in Items : items[i] # None})

\* No event is forgotten: while the loop runs, every unprocessed event is in its
\* backlog or being handed over (processor.go OnJobFinish: "their items are flushed
\* anew"), unless a write failed.
NoneForgotten ==
    proc = "loop" /\ ~world.faulty =>
        \A e \in Unprocessed : e \in known \cup told \cup UNION {pushing[j] : j \in Jobs}

\* No event is lost on its way: what is queued is carried by a refresh that covers it, and what
\* is not is exactly what the loop still has to do.
EventsKept == Carried /\ BacklogExact
=============================================================================
