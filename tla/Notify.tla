------------------------------- MODULE Notify -------------------------------
(***************************************************************************)
(* Notifications of finished jobs (internal/notify: dispatcher.go,         *)
(* warning.go, apprise.go, store.go's subscribers). A limited job, one of  *)
(* a refresh, a manifest export or a follow-up sync, tells of a problem    *)
(* once per quiet interval and never of a success. The finish hooks of     *)
(* jobs run out of order, the clock may be set back, sends fail before or  *)
(* after the request went out, the queue is bounded, and the dispatcher is *)
(* closed at any time. One key (integration or destination) is modelled:   *)
(* keys share nothing but the queue.                                       *)
(***************************************************************************)
EXTENDS Integers, Sequences, FiniteSets, Functions, TLC

CONSTANTS
    Quiet, Slack,       \* quietInterval and clockSlack
    QueueSize, Workers,
    Worlds, None

VARIABLES
    world, used,        \* bounds of this behaviour and what is used of them
    clock,              \* the wall clock
    hooks,              \* finished jobs whose hook has not run
    admitted,           \* messages whose hook is past admit and not at the queue
    notified,           \* the slots: message type -> [at, scope, id]
    lastSlot,
    queue, sending,     \* messages that wait, and those of the workers
    closed,             \* "open", "closed" or "cancelled"
    hist                \* history: [sent, failed, held, ended, over], over: slots replaced before
                        \* their message was sent or dropped

vars == <<world, used, clock, hooks, admitted, notified, lastSlot, queue, sending, closed, hist>>

Types == {"warning", "failure"}
Use(what) == used[what] < world[what] /\ used' = [used EXCEPT ![what] = @ + 1]

Init ==
    /\ world \in Worlds
    /\ used = [jobs |-> 0, backs |-> 0, fails |-> 0, closes |-> 0, warns |-> 0]
    /\ clock = Quiet /\ hooks = {} /\ admitted = {} /\ notified = <<>> /\ lastSlot = 0
    /\ queue = <<>> /\ sending = {} /\ closed = "open"
    /\ hist = [sent |-> {}, failed |-> {}, held |-> {}, ended |-> {}, over |-> {}]

-----------------------------------------------------------------------------
(* The jobs.                                                               *)

\* eventFor: what a finished job tells; a limited one never of a success.
Event(j) ==
    CASE j.status = "failed" -> "failure"
      [] j.status = "warnings" /\ ~j.dry -> "warning"
      [] j.status = "completed" /\ ~j.dry /\ ~j.limited -> "success"
      [] OTHER -> None

\* covers: an empty scope is the whole of it.
Covers(s, o) == s = {} \/ (o # {} /\ o \subseteq s)

\* Hooks run moments after a job finishes: none is older than the slack.
Tick ==
    /\ clock < world.until
    /\ \A j \in hooks \cup admitted : clock + 1 - j.at <= Slack
    /\ clock' = clock + 1
    /\ UNCHANGED <<world, used, hooks, admitted, notified, lastSlot, queue, sending, closed, hist>>

\* The clock is set back by a number of ticks.
SetBack ==
    /\ Use("backs")
    /\ \E n \in 1..clock : clock' = clock - n
    /\ UNCHANGED <<world, hooks, admitted, notified, lastSlot, queue, sending, closed, hist>>

JobFinishes ==
    /\ Use("jobs")
    /\ \E j \in world.kinds : hooks' = hooks \cup {[j EXCEPT !.at = clock, !.id = used.jobs + 1]}
    /\ UNCHANGED <<world, clock, admitted, notified, lastSlot, queue, sending, closed, hist>>

-----------------------------------------------------------------------------
(* admit and release: the limits, under limitMu.                           *)

\* A job more than the slack before a slot's was finished on a clock set back: the slot
\* is measured on the new clock.
Moved(s, at) == IF s.at - at > Slack /\ s.at - at < Quiet THEN [s EXCEPT !.at = at] ELSE s

\* A clean job ends the problems it covers that did not finish after it.
Ends(j, s) == j.status = "completed" /\ ~j.dry /\ j.at >= s.at /\ Covers(j.scope, s.scope)

Slots(j) ==
    LET moved == [t \in DOMAIN notified |-> Moved(notified[t], j.at)]
    IN  [t \in {u \in DOMAIN moved : ~Ends(j, moved[u])} |-> moved[t]]

Near(a, b) == a - b < Quiet /\ b - a < Quiet

\* release: the slot this message took, unless a later job or a clean one changed it.
MutReleased(slots, res) ==
    IF res = None \/ res.had = None THEN slots ELSE [slots EXCEPT ![res.type] = res.had]
Released(slots, res) ==
    IF res = None \/ res.type \notin DOMAIN slots \/ slots[res.type].id # res.id THEN slots
    ELSE IF res.had # None THEN [slots EXCEPT ![res.type] = res.had]
    ELSE [t \in DOMAIN slots \ {res.type} |-> slots[t]]

Failed(h, m) == [h EXCEPT !.failed = @ \cup {m.slot}]

\* Handle begins with admit: what is clean ends problems, what was told lately is held back, and
\* what is admitted takes its slot.
Flying(slot) == \E m \in admitted \cup Range(queue) \cup sending : m.slot = slot
Admit ==
    /\ \E j \in hooks :
       /\ hooks' = hooks \ {j}
       /\ LET slots == Slots(j)
              type == Event(j)
              ended == IF j.status = "completed" /\ ~j.dry THEN {[at |-> j.at, scope |-> j.scope]} ELSE {}
              quiet == type # None /\ j.limited /\ ~j.held /\ type \in DOMAIN slots /\ Near(j.at, slots[type].at)
              takes == type # None /\ j.limited /\ ~j.held /\ ~quiet
              res == IF ~takes THEN None
                     ELSE [type |-> type, id |-> lastSlot + 1, had |-> IF type \in DOMAIN slots THEN slots[type] ELSE None]
          IN  /\ lastSlot' = IF takes THEN lastSlot + 1 ELSE lastSlot
              /\ notified' = IF ~takes THEN slots
                             ELSE (type :> [at |-> j.at, scope |-> j.scope, id |-> lastSlot + 1]) @@ slots
              /\ admitted' = IF type = None \/ quiet THEN admitted
                             ELSE admitted \cup {[type |-> type, at |-> j.at, slot |-> IF takes THEN lastSlot + 1 ELSE 0, res |-> res, scope |-> j.scope, id |-> j.id]}
              /\ hist' = [hist EXCEPT !.ended = @ \cup ended,
                                      !.over = IF takes /\ res.had # None /\ Flying(res.had.id) THEN @ \cup {res.had.id} ELSE @,
                                      !.held = IF quiet THEN @ \cup {[by |-> slots[type].id, at |-> j.at, type |-> type, flying |-> Flying(slots[type].id)]} ELSE @]
    /\ UNCHANGED <<world, used, clock, queue, sending, closed>>

\* Then the queue: a dispatcher that is closed or a full queue drops the message and gives its slot
\* back.
Handle ==
    /\ \E m \in admitted :
       /\ admitted' = admitted \ {m}
       /\ IF closed = "open" /\ Len(queue) < QueueSize
          THEN queue' = Append(queue, m) /\ UNCHANGED <<notified, hist>>
          ELSE notified' = Released(notified, m.res) /\ hist' = Failed(hist, m) /\ UNCHANGED queue
    /\ UNCHANGED <<world, used, clock, hooks, lastSlot, sending, closed>>

\* Warn: a warning of no job, under no limit.
Warn ==
    /\ Use("warns")
    /\ queue' = IF closed = "open" /\ Len(queue) < QueueSize
                THEN Append(queue, [type |-> "warning", at |-> clock, slot |-> 0, res |-> None, scope |-> {}, id |-> 0]) ELSE queue
    /\ UNCHANGED <<world, clock, hooks, admitted, notified, lastSlot, sending, closed, hist>>

-----------------------------------------------------------------------------
(* The workers.                                                            *)

\* worker: after the cancellation the rest is dropped.
WorkerTakes ==
    /\ queue # <<>> /\ Cardinality(sending) < Workers
    /\ queue' = Tail(queue)
    /\ LET m == Head(queue)
       IN  IF closed = "cancelled"
           THEN /\ notified' = Released(notified, m.res)
                /\ hist' = Failed(hist, m)
                /\ UNCHANGED sending
           ELSE sending' = sending \cup {m} /\ UNCHANGED <<notified, hist>>
    /\ UNCHANGED <<world, used, clock, hooks, admitted, lastSlot, closed>>

\* post: what one request comes to. A server error and a refused connection are known not
\* to have arrived; one answer says some services got it; without an answer it may have.
Answers == {"sent", "rejected", "partly", "server", "refused", "silent"}
Retried(a) == a \in {"server", "refused", "silent"}
MaySent(a) == a \in {"partly", "silent"}

\* Client.Send: one retry; a request that may have arrived stays so.
Send(a, b) == a = "sent" \/ MaySent(a) \/ (Retried(a) /\ (b = "sent" \/ MaySent(b)))
Arrives(a) == a \in {"sent", "partly", "silent"}
\* What a send that is not answered well comes to: as the client takes it, and whether it may have
\* arrived.
Outcomes == {<<Send(a, b), Arrives(a) \/ (Retried(a) /\ Arrives(b))>> : a \in Answers \ {"sent"}, b \in Answers}

Told(m) == [slot |-> m.slot, at |-> m.at, type |-> m.type, scope |-> m.scope]

\* process: the subscribed targets, one after the other; the slot goes back only when the
\* message can have reached none of them.
Process ==
    /\ \E m \in sending :
       /\ sending' = sending \ {m}
       /\ \/ /\ notified' = notified
             /\ hist' = [hist EXCEPT !.sent = IF m.slot = 0 THEN @ ELSE @ \cup {Told(m)}]
             /\ UNCHANGED used
          \/ /\ Use("fails")
             /\ \E o \in Outcomes :
                   /\ notified' = IF o[1] THEN notified ELSE Released(notified, m.res)
                   /\ hist' = IF o[2] THEN [hist EXCEPT !.sent = IF m.slot = 0 THEN @ ELSE @ \cup {Told(m)}]
                              ELSE Failed(hist, m)
          \/ \* nobody subscribed to it
             /\ Use("fails")
             /\ notified' = Released(notified, m.res)
             /\ hist' = Failed(hist, m)
    /\ UNCHANGED <<world, clock, hooks, admitted, lastSlot, queue, closed>>

\* Close: no new messages; when its deadline passes the rest is dropped.
Close ==
    /\ \/ closed = "open" /\ Use("closes") /\ closed' = "closed"
       \/ closed = "closed" /\ closed' = "cancelled" /\ UNCHANGED used
    /\ UNCHANGED <<world, clock, hooks, admitted, notified, lastSlot, queue, sending, hist>>

Next ==
    \/ Tick \/ SetBack \/ JobFinishes \/ Admit \/ Handle \/ Warn \/ WorkerTakes \/ Process \/ Close

Spec == Init /\ [][Next]_vars

-----------------------------------------------------------------------------

\* A problem is held back only because of a message of the same type within the interval
\* that was or may have been sent, or was on its way when it was held back: never because of
\* one that failed, was dropped or had no subscriber (admit, release, process). Excepted is a
\* message that was still on its way when, the interval being over or the clock set back, another
\* one took its slot: the release of that one restores the slot, whatever became of the message.
HeldBackWasTold ==
    \A h \in hist.held : h.flying \/ h.by \notin hist.failed \/ h.by \in hist.over

\* A lasting problem is told once per interval: of two messages that may have arrived for
\* one type, a clean job that covers the first finished in between, or the interval passed,
\* on a clock that was not set back
\* (admit; release of an earlier message never reopens the slot of a later one).
ToldOnce ==
    \A x, y \in hist.sent :
        used.backs = 0 /\ x.type = y.type /\ x.slot < y.slot /\ Near(x.at, y.at) =>
            \E c \in hist.ended :
                c.at >= x.at /\ (c.scope = {} \/ (x.scope # {} /\ x.scope \subseteq c.scope))
=============================================================================
