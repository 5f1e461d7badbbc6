------------------------------ MODULE ArrBackup ------------------------------
(***************************************************************************)
(* A backup of an *arr (internal/arrbackup): the job reuses a scheduled    *)
(* backup of the *arr or asks it for a new one with a command it records,  *)
(* polls and follows across crashes and shutdowns; it fetches the zip into *)
(* staging, verifies it and stores it as a version. The *arr makes and     *)
(* removes backups, restarts and forgets commands at any time. How a       *)
(* version directory is written, recovered and pruned is in Versions.      *)
(***************************************************************************)
EXTENDS Integers, FiniteSets, TLC

CONSTANTS
    MaxAge,         \* backup.maxScheduledAgeDays
    Slack,          \* commandQueuedSlack
    MaxPollErrors,  \* maxPollErrors
    Retries,        \* FolderRetries
    Attempts,       \* attempts the job manager gives a job
    Worlds, None

VARIABLES
    world, used,    \* bounds of this behaviour and what is used of them
    clock,
    app,            \* the *arr: commands, backups, whether it answers
    job,            \* the job: its row, its attempt's state, its one item
    staging,        \* the zip staged by the job: holds keys and passwords
    rows,           \* snapshots rows: the backup copied and its integrity
    hist            \* history: commands of the job and why they do not count; outcomes

vars == <<world, used, clock, app, job, staging, rows, hist>>

Use(what) == used[what] < world[what] /\ used' = [used EXCEPT ![what] = @ + 1]

NewJob(n) == [id |-> n, st |-> "queued", queued |-> clock, attempt |-> 1, pc |-> "prepare", item |-> 0,
              resume |-> 0, cmd |-> 0, stopped |-> FALSE, list |-> <<>>, choice |-> None, errs |-> 0]

Init ==
    /\ world \in Worlds
    /\ used = [jobs |-> 0, ticks |-> 0, stops |-> 0, made |-> 0, faults |-> 0, restarts |-> 0]
    /\ clock = 2
    /\ app = [cmds |-> <<>>, backups |-> world.backups]
    /\ job = [NewJob(0) EXCEPT !.st = "none"]
    /\ staging = None /\ rows = {}
    /\ hist = [sent |-> {}, void |-> {}, stale |-> FALSE]

-----------------------------------------------------------------------------
(* The *arr (external).                                                    *)

Ended(st) == st \in {"completed", "failed", "orphaned"}
Running(c) == app.cmds[c].st = "started"
NextId(f) == Cardinality(DOMAIN f) + 1
Fresh(type, size, good) == [type |-> type, time |-> clock, size |-> size, good |-> good, gone |-> FALSE]
AppOnly == UNCHANGED <<world, clock, job, staging, rows>>

\* A queued command starts: the zip it writes is listed while it grows.
CommandStarts ==
    \E c \in DOMAIN app.cmds :
        /\ app.cmds[c].st = "queued"
        /\ app' = [cmds |-> [app.cmds EXCEPT ![c].st = "started", ![c].zip = NextId(app.backups)],
                   backups |-> (NextId(app.backups) :> Fresh("manual", 1, FALSE)) @@ app.backups]
        /\ AppOnly /\ UNCHANGED <<used, hist>>

CommandEnds ==
    \E c \in DOMAIN app.cmds :
        /\ Running(c)
        /\ \/ /\ app' = [cmds |-> [app.cmds EXCEPT ![c].st = "completed"],
                         backups |-> [app.backups EXCEPT ![app.cmds[c].zip].size = 2, ![app.cmds[c].zip].good = TRUE]]
              /\ UNCHANGED used
           \/ Use("faults") /\ app' = [app EXCEPT !.cmds[c].st = "failed"]
        /\ AppOnly /\ UNCHANGED hist

\* A restart orphans what runs, and may trim the commands that ended.
Restart ==
    /\ Use("restarts")
    /\ \E trimmed \in SUBSET {c \in DOMAIN app.cmds : Ended(app.cmds[c].st)} :
          app' = [app EXCEPT !.cmds = [c \in DOMAIN app.cmds |->
                     IF c \in trimmed THEN [app.cmds[c] EXCEPT !.st = "unknown"]
                     ELSE IF Ended(app.cmds[c].st) THEN app.cmds[c] ELSE [app.cmds[c] EXCEPT !.st = "orphaned"]]]
    /\ AppOnly
    /\ hist' = [hist EXCEPT !.void = @ \cup {c \in hist.sent : app'.cmds[c].st \in {"orphaned", "unknown"}}]

\* The *arr's own scheduled backup, sound or not, or the removal of an old one.
ScheduledBackup ==
    /\ Use("made")
    /\ \/ \E good \in BOOLEAN : app' = [app EXCEPT !.backups = (NextId(app.backups) :> Fresh("scheduled", 2, good)) @@ @]
       \/ \E b \in DOMAIN app.backups : /\ app.backups[b].type = "scheduled" /\ ~app.backups[b].gone
                                        /\ app' = [app EXCEPT !.backups[b].gone = TRUE]
    /\ AppOnly /\ UNCHANGED hist

Tick == Use("ticks") /\ clock' = clock + 1 /\ UNCHANGED <<world, app, job, staging, rows, hist>>

-----------------------------------------------------------------------------
(* The job manager's side: queue, crash, shutdown, cancel.                 *)

Enqueue ==
    /\ job.st \notin {"queued", "running"} /\ Use("jobs")
    /\ job' = NewJob(job.id + 1)
    /\ hist' = [hist EXCEPT !.sent = {}, !.void = {}]
    /\ UNCHANGED <<world, clock, app, staging, rows>>

StartJob ==
    /\ job.st = "queued" /\ job' = [job EXCEPT !.st = "running"]
    /\ UNCHANGED <<world, used, clock, app, staging, rows, hist>>

\* A resumed attempt keeps the job's row and its item.
NextAttempt == [NewJob(job.id) EXCEPT !.queued = job.queued, !.attempt = job.attempt + 1, !.item = job.item]

\* Commands no item names: the next attempt cannot follow them.
Unrecorded == {c \in hist.sent : c # job.item}

\* OnJobFinish removes the staging of a job that ended.
OnJobFinish(s) == None

\* The process is killed: the job runs again, or fails for good when it used its attempts.
Crash ==
    /\ job.st = "running" /\ Use("stops")
    /\ IF job.attempt < Attempts THEN job' = NextAttempt /\ UNCHANGED staging
       ELSE job' = [job EXCEPT !.st = "failed"] /\ staging' = OnJobFinish(staging)
    /\ hist' = [hist EXCEPT !.void = @ \cup Unrecorded]
    /\ UNCHANGED <<world, clock, app, rows>>

\* A shutdown cancels the attempt, whose Run removes its staging, and queues the job again; a
\* user's cancel ends it.
Cancelled ==
    /\ job.st = "running" /\ Use("stops")
    /\ \/ job.attempt < Attempts /\ job' = NextAttempt
       \/ job' = [job EXCEPT !.st = "cancelled"]
    /\ staging' = None
    /\ hist' = [hist EXCEPT !.void = @ \cup Unrecorded]
    /\ UNCHANGED <<world, clock, app, rows>>

-----------------------------------------------------------------------------
(* The attempt.                                                            *)

At(pc) == job.st = "running" /\ job.pc = pc
Goto(j, pc) == job' = [j EXCEPT !.pc = pc]
Own(r) == r.job = job.id

\* Run returns: the staging directory is removed with it.
Ends(j, st) == job' = [j EXCEPT !.st = st] /\ staging' = None
Fails == Ends(job, "failed") /\ UNCHANGED <<rows, hist>>
Unavailable == Use("faults") /\ Fails /\ UNCHANGED <<world, clock, app>>
Quiet == UNCHANGED <<world, used, clock, app>>

MutInterruptedCommand == 0
\* interruptedCommand: the command an earlier attempt recorded.
InterruptedCommand == IF job.attempt > 1 THEN job.item ELSE 0

\* The start of a backup: staging of an earlier attempt goes; a version an earlier attempt
\* completed is the result; the recorded command is read, then the items are deleted.
Prepare ==
    /\ At("prepare") /\ Quiet
    /\ \/ /\ \E r \in rows : Own(r) /\ Ends(job, IF r.ok THEN "completed" ELSE "failed")
          /\ UNCHANGED <<rows, hist>>
       \/ /\ ~\E r \in rows : Own(r)
          /\ staging' = None
          /\ Goto([job EXCEPT !.resume = InterruptedCommand, !.item = 0], "list")
          /\ UNCHANGED <<rows, hist>>

\* newestValid: the newest listed backup of a type that is not older than since.
Newest(list, type, since) ==
    LET S == {b \in DOMAIN list : list[b].type = type /\ list[b].time >= since}
    IN IF S = {} THEN None ELSE CHOOSE b \in S : \A c \in S : list[c].time < list[b].time \/ (list[c].time = list[b].time /\ c <= b)

\* freshScheduled
FreshScheduled(list) ==
    LET b == Newest(list, "scheduled", 0)
    IN IF b = None THEN None ELSE IF clock - list[b].time >= MaxAge THEN None ELSE b

Listing == [b \in {c \in DOMAIN app.backups : ~app.backups[c].gone} |-> app.backups[b]]
Chosen(j, b) == Goto([j EXCEPT !.choice = [b |-> b, size |-> j.list[b].size]], "fetch")

\* choose: a fresh scheduled backup that did not fail verification before, copied already or
\* not; else what an earlier attempt asked for; else a new backup.
Choose ==
    /\ At("list") /\ Quiet
    /\ LET list == Listing
           b == FreshScheduled(list)
           bad == \E r \in rows : r.b = b /\ ~r.ok
           copied == \E r \in rows : r.b = b /\ r.ok
           j == [job EXCEPT !.list = list]
       IN IF b # None /\ ~bad
          THEN IF copied THEN Ends(j, "completed") ELSE Chosen(j, b) /\ UNCHANGED staging
          ELSE /\ Goto(j, IF job.attempt = 1 THEN "post" ELSE IF job.resume # 0 THEN "resume" ELSE "manual")
               /\ UNCHANGED staging
    /\ UNCHANGED <<rows, hist>>

\* The manual backup made since the job was queued, from the list read before.
UseManual ==
    /\ At("manual") /\ Quiet
    /\ LET b == Newest(job.list, "manual", job.queued - Slack)
       IN IF b # None THEN Chosen(job, b) ELSE Goto(job, "post")
    /\ UNCHANGED <<staging, rows, hist>>

\* resumeCommand: follow it, unless the *arr does not know it or stopped it.
ResumeCommand ==
    /\ At("resume") /\ Quiet
    /\ LET st == app.cmds[job.resume].st
       IN Goto(IF st \in {"unknown", "orphaned"} THEN job ELSE [job EXCEPT !.cmd = job.resume, !.item = job.resume],
               IF st = "unknown" THEN "manual" ELSE IF st = "orphaned" THEN "post" ELSE "wait")
    /\ UNCHANGED <<staging, rows, hist>>

\* createBackup: the command is sent; its answer may be lost.
StartBackup ==
    /\ At("post")
    /\ LET c == NextId(app.cmds) IN
       /\ app' = [app EXCEPT !.cmds = (c :> [st |-> "queued", zip |-> 0, queued |-> clock]) @@ @]
       /\ hist' = [hist EXCEPT !.sent = @ \cup {c}]
       /\ \/ Goto([job EXCEPT !.cmd = c], "save") /\ UNCHANGED <<used, staging>>
          \/ Use("faults") /\ Ends(job, "failed")
    /\ UNCHANGED <<world, clock, rows>>

\* saveCommand: a pending item names the command; a failure is a warning.
SaveCommand ==
    /\ At("save")
    /\ \/ Goto([job EXCEPT !.item = job.cmd], "wait") /\ UNCHANGED used
       \/ Use("faults") /\ Goto(job, "wait")
    /\ UNCHANGED <<world, clock, app, staging, rows, hist>>

\* waitBackup: poll until the command ended; a few failed polls in a row end the wait, as does
\* the time limit (a poll that never ends).
Poll ==
    /\ At("wait")
    /\ LET st == app.cmds[job.cmd].st IN
       \/ st = "completed" /\ Goto([job EXCEPT !.errs = 0], "find") /\ UNCHANGED <<used, staging>>
       \/ st \in {"failed", "orphaned", "unknown"} /\ Ends(job, "failed") /\ UNCHANGED used
       \/ /\ Use("faults")
          /\ \/ Ends(job, "failed")
             \/ job.errs + 1 < MaxPollErrors /\ job' = [job EXCEPT !.errs = @ + 1] /\ UNCHANGED staging
    /\ UNCHANGED <<world, clock, app, rows, hist>>

\* The newest manual backup since the command was queued; its item goes.
FindBackup ==
    /\ At("find") /\ Quiet
    /\ LET list == Listing
           b == Newest(list, "manual", app.cmds[job.cmd].queued - Slack)
       IN IF b # None THEN Chosen([job EXCEPT !.list = list, !.item = 0], b) /\ UNCHANGED staging
          ELSE IF job.errs < Retries THEN job' = [job EXCEPT !.errs = @ + 1] /\ UNCHANGED staging
          ELSE Ends(job, "failed")
    /\ UNCHANGED <<rows, hist>>

\* fetchBackup: the staged zip has the size the *arr reported, or the job fails; a file of the
\* Backups folder that is still smaller is looked at again.
Fetch ==
    /\ At("fetch") /\ Quiet
    /\ LET b == app.backups[job.choice.b] IN
       IF ~b.gone /\ b.size = job.choice.size
       THEN staging' = [b |-> job.choice.b, good |-> b.good] /\ Goto(job, "verify")
       ELSE Ends(job, "failed")
    /\ UNCHANGED <<rows, hist>>

\* VerifyZip: the zip is whole, has its entries, and the database passes quick_check.
VerifyZip(s) == s.good

\* The version is written and recorded with its integrity; only an ok one is a success.
Record ==
    /\ At("verify") /\ Quiet
    /\ LET ok == VerifyZip(staging)
           b == app.backups[staging.b]
       IN /\ rows' = rows \cup {[job |-> job.id, b |-> staging.b, ok |-> ok]}
          /\ Ends(job, IF ok THEN "completed" ELSE "failed")
          /\ hist' = [hist EXCEPT !.stale = @ \/ (ok /\ ~(/\ staging.good
                                                         /\ \/ b.time >= job.queued - Slack
                                                            \/ b.type = "scheduled" /\ b.time > job.queued - MaxAge))]

\* The *arr or the Backups folder does not answer.
NoAnswer == job.st = "running" /\ job.pc \in {"list", "resume", "find", "fetch"} /\ Unavailable

Next ==
    \/ CommandStarts \/ CommandEnds \/ Restart \/ ScheduledBackup \/ Tick
    \/ Enqueue \/ StartJob \/ Crash \/ Cancelled
    \/ Prepare \/ Choose \/ UseManual \/ ResumeCommand \/ StartBackup \/ SaveCommand \/ Poll \/ FindBackup \/ Fetch \/ Record \/ NoAnswer

Spec == Init /\ [][Next]_vars

-----------------------------------------------------------------------------
\* A job asks the *arr for a second backup only when the first command does not count any more:
\* the *arr stopped or forgot it, or the attempt was stopped while no item named it. A crash
\* or a shutdown while the command is recorded never leads to another manual backup, which the
\* *arr would keep for good.
AskedOnce == Cardinality(hist.sent \ hist.void) <= 1

\* A job that completes by copying stores a sound backup that was made since the job was queued
\* or is a scheduled one younger than the configured age: never a manual backup of an earlier
\* time or a zip the *arr was still writing, whatever attempt chose it.
SuccessIsFresh == ~hist.stale

\* Once a job has ended, no staged zip with the *arr's keys and passwords is left, also when
\* the job was failed for good after its last attempt crashed.
StagingGone == job.st \in {"completed", "failed", "cancelled"} => staging = None
==============================================================================
