----------------------------- MODULE ResticLocks -----------------------------
(***************************************************************************)
(* The exclusive commands on a restic repository and the locks in their    *)
(* way (internal/engines/restic: children.go, GuardedUnlock in             *)
(* commands.go, driver.go; internal/enginerun: resticCheck in verify.go,   *)
(* pruneIfDue and releaseLock in restic_retention.go, state.go).           *)
(*                                                                         *)
(* A check or a prune takes an exclusive lock and is refused by any other. *)
(* restic itself calls a lock stale whose host name is its own and whose   *)
(* PID it does not know, so a container with the same host name is at      *)
(* risk; GuardedUnlock decides from the lock's time, the PIDs of this      *)
(* process's children and the file of the children of earlier processes.   *)
(* The process is killed at any step, others take, refresh and leave locks *)
(* at any time.                                                            *)
(***************************************************************************)
EXTENDS Integers, FiniteSets, FiniteSetsExt, TLC

CONSTANTS
    Children,       \* bound: restic children of this host, by PID, in the order they start
    Others,         \* live restic processes elsewhere; SameHost of them have our host name
    SameHost,
    LiveLockAge,    \* a lock not refreshed for this long belongs to nobody
        Subsets,        \* the parts of a read-data check, 1..t
    Worlds, None

VARIABLES
    world, used,    \* bounds of this behaviour and what is used of them
    now, start,     \* time; when this process started
    lock, live,     \* time of each process's lock (0: none); the processes that run
    spans,          \* ownChildren: pid -> [start, end] (end 0: running)
    file, earlier,  \* children.json; the records of earlier processes read from it
    st,             \* engine_state: [next, pending, due]
    run,            \* the running job: [kind, at, pid, seen, stopped, prune]
    hist            \* history: [robbed, lost, stuck, unchecked]

vars == <<world, used, now, start, lock, live, spans, file, earlier, st, run, hist>>

Procs == Children \cup Others
Idle == [kind |-> None, at |-> "idle", pid |-> 0, seen |-> {}, stopped |-> FALSE, prune |-> FALSE]
Use(what) == used[what] < world[what] /\ used' = [used EXCEPT ![what] = @ + 1]
T == Cardinality(Subsets)

Init ==
    /\ world \in Worlds
    /\ used = [kills |-> 0, stops |-> 0, late |-> 0, jobs |-> 0, others |-> 0]
    /\ now = 1 /\ start = 1
    /\ lock = [p \in Procs |-> 0] /\ live = {}
    /\ spans = <<>> /\ file = {} /\ earlier = {}
    /\ st = [next |-> 1, pending |-> FALSE, due |-> TRUE]
    /\ run = Idle
    /\ hist = [robbed |-> {}, lost |-> {}, stuck |-> FALSE, unchecked |-> FALSE]

-----------------------------------------------------------------------------
(* Time, and restic elsewhere: it refreshes its lock before it is stale.   *)

Tick ==
    /\ now < world.ticks
    /\ \A p \in live : lock[p] # 0 => now + 1 - lock[p] < LiveLockAge
    /\ now' = now + 1
    /\ \E due \in {st.due, TRUE} : st' = [st EXCEPT !.due = due]
    /\ UNCHANGED <<world, used, start, lock, live, spans, file, earlier, run, hist>>

OtherStarts ==
    /\ Use("others")
    /\ \E o \in world.who \ live :
          lock[o] = 0 /\ live' = live \cup {o} /\ lock' = [lock EXCEPT ![o] = now]
    /\ UNCHANGED <<world, now, start, spans, file, earlier, st, run, hist>>

Refreshes ==
    /\ \E p \in live : lock[p] \in 1..(now - 1) /\ lock' = [lock EXCEPT ![p] = now]
    /\ UNCHANGED <<world, used, now, start, live, spans, file, earlier, st, run, hist>>

\* It ends, and its lock goes with it, or it is killed.
OtherEnds ==
    /\ \E o \in Others \cap live, left \in BOOLEAN :
          live' = live \ {o} /\ lock' = IF left THEN lock ELSE [lock EXCEPT ![o] = 0]
    /\ UNCHANGED <<world, used, now, start, spans, file, earlier, st, run, hist>>

-----------------------------------------------------------------------------
(* The children of this process and of earlier ones.                       *)

EndOr(r, t) == IF r.end = 0 THEN t ELSE r.end

\* saveLocked: records whose run ended before the horizon go.
Saved(recs) == {r \in recs : r.end # 0 => r.end >= now - LiveLockAge}

\* trackChildren, noteChildStart: the child is found while it runs.
Note(p) ==
    /\ spans' = (p :> [start |-> now, end |-> 0]) @@ spans
    /\ file' = Saved(file \cup {[pid |-> p, start |-> now, end |-> 0, own |-> TRUE]})

\* The end of the run, in memory and in the file (noteChildEnd).
Ended(p) ==
    /\ spans' = [c \in DOMAIN spans |-> IF c = p /\ spans[c].end = 0 THEN [spans[c] EXCEPT !.end = now] ELSE spans[c]]
    /\ file' = IF p \notin DOMAIN spans THEN file
               ELSE Saved({IF r.pid = p /\ r.end = 0 THEN [r EXCEPT !.end = now] ELSE r : r \in file})

\* leftByOwnChild: the PID of a child that ended, a time within its run.
LeftByOwnChild(p, t) == p \in DOMAIN spans /\ spans[p].end # 0 /\ t \in spans[p].start .. spans[p].end

\* leftByEarlierProcess: a run without an end lasted at most until this process started.
LeftByEarlierProcess(p, t) ==
    /\ t <= start
    /\ \E r \in earlier : r.pid = p /\ t \in r.start .. Min({EndOr(r, start), start})

\* The process is killed with its child and started again later. The records of the
\* file are the earlier processes'; one without an end is saved with the time it was
\* read (childFileLocked, saveLocked; the first use reads it).
Kill ==
    /\ Use("kills")
    /\ live' = live \cap Others
    /\ start' = now
    /\ spans' = <<>>
    /\ earlier' = {[r EXCEPT !.own = FALSE] : r \in file}
    /\ file' = {[r EXCEPT !.own = FALSE, !.end = EndOr(r, now)] : r \in file}
    /\ run' = Idle
    /\ UNCHANGED <<world, now, lock, st, hist>>

-----------------------------------------------------------------------------
(* Jobs: a verify's check, a retention's prune and check; the unlock       *)
(* endpoint. Each asks GuardedUnlock first.                                *)

Begin ==
    /\ run.at = "idle" /\ Use("jobs")
    /\ \E k \in {"verify", "retention", "endpoint"} :
          /\ k = "retention" => st.due \/ st.pending
          /\ run' = [Idle EXCEPT !.kind = k, !.at = "inspect", !.prune = (k = "retention" /\ st.due)]
    /\ UNCHANGED <<world, now, start, lock, live, spans, file, earlier, st, hist>>

Locks == {p \in Procs : lock[p] # 0}

\* inspectLocks: the locks with this host name that no child explains.
Foreign ==
    {p \in Locks \cap (Children \cup SameHost) :
        /\ ~(p \in Children /\ p \in live)
        /\ ~LeftByOwnChild(p, lock[p]) /\ ~LeftByEarlierProcess(p, lock[p])}
MutRecent == {p \in Foreign : lock[p] > start}
Recent == {p \in Foreign : now - lock[p] < LiveLockAge}

\* The end of a job or of releaseLock, whose failure is only logged.
Over(stuck) ==
    /\ run' = Idle
    /\ hist' = [hist EXCEPT !.stuck = stuck]
Stuck == \A p \in Foreign : p \in Children \ hist.lost

\* A lock later than the start of this process refuses the unlock, a recent one makes
\* a job wait and the endpoint give up.
Refused == \E p \in Foreign : lock[p] > start
Inspect ==
    /\ run.at = "inspect"
    /\ CASE Refused -> Over(Stuck)
         [] ~Refused /\ Recent # {} /\ run.kind = "endpoint" -> Over(Stuck)
         [] ~Refused /\ Recent # {} /\ run.kind # "endpoint" -> hist' = [hist EXCEPT !.stuck = Stuck] /\ run' = [run EXCEPT !.at = "wait"]
         [] OTHER -> hist' = hist /\ run' = [run EXCEPT !.at = "unlock", !.seen = Locks]
    /\ UNCHANGED <<world, used, now, start, lock, live, spans, file, earlier, st>>

\* The wait is over when the lock that becomes stale last is LiveLockAge old.
Waited ==
    /\ run.at = "wait" /\ Recent = {}
    /\ run' = [run EXCEPT !.at = "inspect"]
    /\ hist' = [hist EXCEPT !.stuck = FALSE]
    /\ UNCHANGED <<world, used, now, start, lock, live, spans, file, earlier, st>>

\* restic unlock: its own staleness rule.
Unlock ==
    /\ run.at = "unlock"
    /\ LET stale == {p \in Locks : (p \in Children \cup SameHost /\ ~(p \in Children /\ p \in live)) \/ now - lock[p] >= LiveLockAge}
       IN /\ lock' = [p \in Procs |-> IF p \in stale THEN 0 ELSE lock[p]]
          /\ hist' = [hist EXCEPT !.robbed = @ \cup (stale \cap live \cap run.seen)]
    /\ run' = IF run.stopped \/ run.kind = "endpoint" THEN Idle ELSE [run EXCEPT !.at = "start"]
    /\ UNCHANGED <<world, used, now, start, live, spans, file, earlier, st>>

\* run: the command starts; its child is found before it takes its lock, or too late.
Start ==
    /\ run.at = "start"
    /\ \E p \in Children :
          /\ \A c \in Children : c < p <=> (lock[c] # 0 \/ c \in DOMAIN spans \/ c \in hist.lost \/ \E r \in file \cup earlier : r.pid = c)
          /\ live' = live \cup {p}
          /\ run' = [run EXCEPT !.at = "running", !.pid = p]
          /\ \/ Note(p) /\ UNCHANGED <<used, hist>>
             \/ Use("late") /\ hist' = [hist EXCEPT !.lost = @ \cup {p}] /\ UNCHANGED <<spans, file>>
    /\ UNCHANGED <<world, now, start, lock, earlier, st>>

\* It takes the exclusive lock, or another lock refuses it for all of --retry-lock
\* (exit 11, which releaseLock leaves alone).
TakeLock ==
    /\ run.at = "running" /\ lock[run.pid] = 0
    /\ IF Locks = {}
         THEN /\ lock' = [lock EXCEPT ![run.pid] = now]
              /\ UNCHANGED <<live, spans, file, run>>
         ELSE /\ live' = live \ {run.pid} /\ Ended(run.pid)
              /\ run' = Idle /\ lock' = lock
    /\ UNCHANGED <<world, used, now, start, earlier, st, hist>>

\* The command ends well. A prune is noted with the check that must follow it, a check
\* advances the subset a verify reads next (updateState).
CommandDone ==
    /\ run.at = "running" /\ lock[run.pid] # 0
    /\ lock' = [lock EXCEPT ![run.pid] = 0] /\ live' = live \ {run.pid} /\ Ended(run.pid)
    /\ run' = [run EXCEPT !.at = "state"]
    /\ hist' = [hist EXCEPT !.unchecked = run.prune]
    /\ UNCHANGED <<world, used, now, start, earlier, st>>

\* resticCheck's subset: n rotates 1..t.
Subset(n) == (n % T) + 1
UpdateState ==
    /\ run.at = "state"
    /\ IF run.prune
         THEN st' = [st EXCEPT !.due = FALSE, !.pending = TRUE] /\ run' = [run EXCEPT !.at = "inspect", !.prune = FALSE] /\ hist' = hist
         ELSE /\ st' = [st EXCEPT !.pending = IF run.kind = "retention" THEN FALSE ELSE @, !.next = IF run.kind = "verify" THEN Subset(@) ELSE @]
              /\ hist' = hist /\ run' = Idle
    /\ UNCHANGED <<world, used, now, start, lock, live, spans, file, earlier>>

\* The window's end, a cancel or a time budget stops it; its lock may stay, and a
\* guarded unlock follows (releaseLock).
CommandStopped ==
    /\ run.at = "running" /\ lock[run.pid] # 0 /\ Use("stops")
    /\ \E left \in BOOLEAN : lock' = IF left THEN lock ELSE [lock EXCEPT ![run.pid] = 0]
    /\ live' = live \ {run.pid} /\ Ended(run.pid)
    /\ run' = [run EXCEPT !.at = "inspect", !.stopped = TRUE]
    /\ UNCHANGED <<world, now, start, earlier, st, hist>>

Next ==
    \/ Tick \/ OtherStarts \/ Refreshes \/ OtherEnds \/ Kill
    \/ Begin \/ Inspect \/ Waited \/ Unlock \/ Start \/ TakeLock \/ CommandDone \/ UpdateState \/ CommandStopped

Spec == Init /\ [][Next]_vars

-----------------------------------------------------------------------------
(* Properties.                                                             *)

\* The guarded unlock never removes a lock it saw of a live restic process, also not
\* that of a container with the same host name (GuardedUnlock, section 6.7).
LiveLockKept == hist.robbed = {}

\* What a stopped command or a killed process left never refuses nor delays the next
\* exclusive command, unless its child was not found in time (children.go).
LeftoversPass == ~hist.stuck

\* A prune that was not checked yet is followed by a check, or by another prune that
\* is: also after the window's end, a refused lock or a kill (S24).
PruneIsChecked == hist.unchecked => st.pending \/ st.due
=============================================================================
