------------------------------- MODULE JobLife -------------------------------
(***************************************************************************)
(* What the job queue promises to whoever queues a job, without the        *)
(* dispatcher, the keys, the pools and the goroutines that bring it about: *)
(* the life of a row, the runners at work on rows, and the calls of the    *)
(* OnFinish hooks. JobQueue implements it (JobQueue!Lives).                *)
(***************************************************************************)
EXTENDS Naturals

CONSTANTS
    Jobs,       \* the jobs
    MaxAttempts \* how many process ends a running job survives

VARIABLES
    row,        \* the row of each job
    tries,      \* process ends the row of each job survived while it ran, plus one
    at,         \* jobs a runner of this process works on
    told        \* how often the hooks of each job were called

vars == <<row, tries, at, told>>

Ended == {"completed", "failed", "cancelled"}

Init ==
    /\ row = [j \in Jobs |-> "absent"]
    /\ tries = [j \in Jobs |-> 1]
    /\ at = {}
    /\ told = [j \in Jobs |-> 0]

Moves(j, s) == row' = [row EXCEPT ![j] = s]

Submitted(j) ==
    /\ row[j] = "absent" /\ Moves(j, "queued")
    /\ UNCHANGED <<tries, at, told>>

\* A row starts to run with a runner of its own.
Begins(j) ==
    /\ row[j] = "queued" /\ j \notin at /\ Moves(j, "running")
    /\ at' = at \cup {j}
    /\ UNCHANGED <<tries, told>>

\* A queued job ends without a runner: cancelled, superseded, or unrunnable.
Dropped(j) ==
    /\ row[j] = "queued" /\ \E s \in {"cancelled", "failed"} : Moves(j, s)
    /\ UNCHANGED <<tries, at, told>>

\* The runner of a running row ends it or gives it back to the queue, and is
\* through (or disowned).
Ends(j) ==
    /\ row[j] = "running" /\ j \in at /\ \E s \in Ended \cup {"queued"} : Moves(j, s)
    /\ at' = at \ {j}
    /\ UNCHANGED <<tries, told>>

\* A runner ends and its result is not stored.
Leaves(j) ==
    /\ j \in at
    /\ at' = at \ {j}
    /\ UNCHANGED <<row, tries, told>>

\* The hooks are called: once, after the end of the job.
Tells(j) ==
    /\ row[j] \in Ended /\ told[j] = 0
    /\ told' = [told EXCEPT ![j] = 1]
    /\ UNCHANGED <<row, tries, at>>

\* The process ends with all its runners.
ProcessEnds ==
    /\ at' = {}
    /\ UNCHANGED <<row, tries, told>>

\* The next process finds rows that run without a runner: it queues them
\* again, or fails the ones that had their attempts.
Recovers ==
    /\ at = {}
    /\ row' = [j \in Jobs |-> IF row[j] # "running" THEN row[j]
                              ELSE IF tries[j] < MaxAttempts THEN "queued" ELSE "failed"]
    /\ tries' = [j \in Jobs |-> IF row[j] = "running" /\ tries[j] < MaxAttempts
                                THEN tries[j] + 1 ELSE tries[j]]
    /\ UNCHANGED <<at, told>>

Next ==
    \/ \E j \in Jobs : Submitted(j) \/ Begins(j) \/ Dropped(j) \/ Ends(j) \/ Leaves(j) \/ Tells(j)
    \/ ProcessEnds
    \/ Recovers

Spec == Init /\ [][Next]_vars
=============================================================================
