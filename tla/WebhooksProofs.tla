--------------------------- MODULE WebhooksProofs ---------------------------
(***************************************************************************)
(* Proofs about Webhooks: no event is lost between the intake and the      *)
(* refresh that covers it (EventsKept), and no refresh is queued before    *)
(* the delays of the events it covers have passed (DelaysRespected).       *)
(***************************************************************************)
EXTENDS Webhooks, TLAPS, FiniteSetTheorems

-----------------------------------------------------------------------------
(* Sequences of events, and the sets of their elements.                    *)

\* Nothing is in the empty sequence.
LEMMA NoElements == ToSet(<<>>) = {}
BY DEF ToSet

\* What is appended is what is added.
LEMMA ElementsOfConcat ==
    ASSUME NEW S, NEW s \in Seq(S), NEW t \in Seq(S)
    PROVE  s \o t \in Seq(S) /\ ToSet(s \o t) = ToSet(s) \cup ToSet(t)
<1>1. /\ s \o t \in Seq(S) /\ Len(s \o t) = Len(s) + Len(t)
      /\ \A i \in 1..Len(s) + Len(t) : (s \o t)[i] = IF i <= Len(s) THEN s[i] ELSE t[i - Len(s)]
    OBVIOUS
<1>2. \A i \in 1..Len(s) : i \in 1..Len(s) + Len(t) /\ (s \o t)[i] = s[i]
    BY <1>1
<1>3. \A i \in 1..Len(t) : Len(s) + i \in 1..Len(s) + Len(t) /\ (s \o t)[Len(s) + i] = t[i]
    BY <1>1
<1>4. ASSUME NEW x \in ToSet(s \o t)
      PROVE  x \in ToSet(s) \cup ToSet(t)
  <2>1. PICK i \in 1..Len(s) + Len(t) : x = (s \o t)[i]
    BY <1>1, <1>4 DEF ToSet
  <2>2. CASE i <= Len(s)
    BY <1>1, <2>1, <2>2 DEF ToSet
  <2>3. CASE i > Len(s)
    <3>1. i - Len(s) \in 1..Len(t) /\ x = t[i - Len(s)]
    BY <1>1, <2>1, <2>3
    <3>. QED
    BY <3>1 DEF ToSet
  <2>. QED
    BY <2>2, <2>3
<1>5. ASSUME NEW x \in ToSet(s)
      PROVE  x \in ToSet(s \o t)
  <2>1. PICK i \in 1..Len(s) : x = s[i]
    BY <1>5 DEF ToSet
  <2>. QED
    BY <1>1, <1>2, <2>1 DEF ToSet
<1>6. ASSUME NEW x \in ToSet(t)
      PROVE  x \in ToSet(s \o t)
  <2>1. PICK i \in 1..Len(t) : x = t[i]
    BY <1>6 DEF ToSet
  <2>2. PICK k \in 1..Len(s \o t) : x = (s \o t)[k]
    BY <1>1, <1>3, <2>1
  <2>3. DOMAIN (s \o t) = 1..Len(s \o t)
    BY <1>1
  <2>. QED
    BY <2>2, <2>3, Zenon DEF ToSet
<1>. QED
    BY <1>1, <1>4, <1>5, <1>6

\* A sequence is its head and its tail.
LEMMA ElementsOfTail ==
    ASSUME NEW S, NEW s \in Seq(S), s # <<>>
    PROVE  Head(s) \in S /\ Tail(s) \in Seq(S) /\ ToSet(s) = {Head(s)} \cup ToSet(Tail(s))
<1>1. /\ Head(s) = s[1] /\ Len(s) \in Nat \ {0} /\ Tail(s) \in Seq(S) /\ Len(Tail(s)) = Len(s) - 1
      /\ \A i \in 1..Len(s) - 1 : Tail(s)[i] = s[i + 1]
    OBVIOUS
<1>2. ASSUME NEW x \in ToSet(s)
      PROVE  x \in {Head(s)} \cup ToSet(Tail(s))
  <2>1. PICK i \in 1..Len(s) : x = s[i]
    BY <1>2 DEF ToSet
  <2>2. CASE i > 1
    <3>1. PICK k \in 1..Len(Tail(s)) : x = Tail(s)[k]
      <4>1. i - 1 \in 1..Len(Tail(s)) /\ x = Tail(s)[i - 1]
        BY <1>1, <2>1, <2>2
      <4>. QED
        BY <4>1
    <3>2. DOMAIN Tail(s) = 1..Len(Tail(s))
    BY <1>1
    <3>3. x \in ToSet(Tail(s))
    BY <3>1, <3>2, Zenon DEF ToSet
    <3>. QED
    BY <3>3
  <2>. QED
    BY <1>1, <2>1, <2>2
<1>3. {Head(s)} \cup ToSet(Tail(s)) \subseteq ToSet(s)
    BY <1>1 DEF ToSet
<1>. QED
    BY <1>1, <1>2, <1>3

\* The events of a set, in order, are a sequence of them.
LEMMA OrderedEvents ==
    ASSUME NEW E, E \subseteq Events, NEW s \in InOrder(E)
    PROVE  s \in Seq(Events) /\ ToSet(s) = E
<1>1. IsFiniteSet(E) /\ Cardinality(E) \in Nat
    BY WebhookAssumption, FS_Subset, FS_CardinalityType
<1>2. s \in [1..Cardinality(E) -> E] /\ ToSet(s) = E
    BY DEF InOrder
<1>. QED
    BY <1>1, <1>2

-----------------------------------------------------------------------------
(* The inductive invariant.                                                *)

Points == {"idle", "add", "check", "enqueue", "mark", "forget"}
Flushing == {"check", "enqueue", "mark", "forget"}
FlushType == [at : Points, batch : Seq(Events), failed : SUBSET Events, keys : SUBSET Items, now : Nat,
              chunk : SUBSET Items, job : Nat]

TypeOK ==
    /\ now \in Nat
    /\ what \in [Events -> EventType \cup {None}]
    /\ st \in [Events -> {"absent", "unprocessed", "queued", "failed", "test", "ignored"}]
    /\ by \in [Events -> Nat]
    /\ job \in [Jobs -> JobType \cup {None}]
    /\ inbox \in Seq(Events) /\ known \subseteq Events
    /\ items \in [Items -> ItemType \cup {None}]
    /\ fl \in FlushType
    /\ told \subseteq Events /\ hookDue \subseteq Jobs /\ pushing \in [Jobs -> SUBSET Events]
    /\ saw \in [Jobs -> SUBSET Events] /\ lapse \in BOOLEAN
    /\ world \in WorldType

\* The events that are scheduled: what the loop may have.
Acted == {e \in Events : what[e] # None /\ Schedules(what[e].class)}

\* Where events may be: only those that came and that something acts on are handed over.
Arrivals ==
    /\ \A e \in Received : what[e].at <= LastArrival
    /\ \A e \in Events : st[e] \in {"unprocessed", "queued"} => e \in Acted
    /\ told \subseteq Received
    /\ known \subseteq Acted
    /\ \A j \in Jobs : pushing[j] \subseteq Acted

Held(e) == \E i \in Items : items[i] # None /\ e \in items[i].events

Backlog == \A e \in Events : e \in known <=> e \in ToSet(inbox) \/ e \in ToSet(fl.batch) \/ e \in fl.failed \/ Held(e)

\* What waits in the inbox is nowhere else: a flush that drops its items drops none of it.
HeldOnce == \A e \in ToSet(inbox) : e \notin ToSet(fl.batch) /\ e \notin fl.failed /\ ~Held(e)

\* An item's events are its own, and it waits for each of them.
Waits ==
    \A i \in Items : items[i] # None =>
        \A e \in items[i].events :
            /\ what[e].item = i
            /\ what[e].class = "delete" => items[i].del >= what[e].at + DeleteDelay
            /\ what[e].class = "upgrade_delete" =>
                  \/ items[i].hold >= what[e].at + UpgradeHold
                  \/ \E d \in items[i].events : what[d].class = "download"

\* The step in progress.
InStep ==
    /\ fl.now <= now
    /\ fl.at = "idle" => fl = NoFlush
    /\ \A e \in fl.failed : what[e].item = 0
    /\ fl.at \in Flushing =>
          /\ fl.batch = <<>> /\ fl.failed = {}
          /\ \A i \in fl.keys : items[i] # None /\ items[i].del <= fl.now /\ items[i].hold <= fl.now
    /\ fl.at \in {"mark", "forget"} =>
          /\ fl.chunk \subseteq fl.keys
          /\ fl.job \in Jobs /\ job[fl.job] # None
          /\ fl.chunk \subseteq job[fl.job].items
          /\ job[fl.job].started => \A i \in fl.chunk : items[i].events \subseteq saw[fl.job]

\* A job that ran has started: it takes in no more items.
RanStarted == \A j \in Jobs : job[j] # None /\ job[j].st \in {"running", "completed", "failed"} => job[j].started

\* What "queued" promises, with what keeps it: the job read the *arr when it started.
Promised ==
    \A e \in Events : st[e] = "queued" =>
        /\ by[e] \in Jobs /\ job[by[e]] # None
        /\ what[e].item \in job[by[e]].items
        /\ job[by[e]].started => e \in saw[by[e]]
        /\ job[by[e]].st = "cancelled" => by[e] \in hookDue \/ proc \in {"down", "prune", "rearm"} \/ lapse

Inv == TypeOK /\ Arrivals /\ Backlog /\ HeldOnce /\ Waits /\ InStep /\ RanStarted /\ Promised

-----------------------------------------------------------------------------
(* What the operations do.                                                 *)

\* push adds what is not in the backlog yet.
LEMMA Pushed ==
    ASSUME TypeOK, NEW E, E \subseteq Events, Push(E)
    PROVE  /\ inbox' \in Seq(Events) /\ ToSet(inbox') = ToSet(inbox) \cup (E \ known)
           /\ known' = known \cup E
<1>1. PICK s \in InOrder(E \ known) : inbox' = inbox \o s
    BY DEF Push
<1>2. s \in Seq(Events) /\ ToSet(s) = E \ known
    BY <1>1, OrderedEvents
<1>3. inbox \in Seq(Events)
    BY DEF TypeOK
<1>. QED
    BY <1>1, <1>2, <1>3, ElementsOfConcat DEF Push

\* A fault changes only how many may follow.
LEMMA Faulted ==
    ASSUME world \in WorldType, Fault
    PROVE  world' \in WorldType
<1>1. world.faults \in Nat /\ world.faults > 0
    BY DEF Fault, WorldType
<1>2. world' = [world EXCEPT !.faults = world.faults - 1, !.faulty = TRUE]
    BY DEF Fault
<1>3. world.faults - 1 \in Nat
    BY <1>1
<1>. QED
    BY <1>2, <1>3 DEF WorldType

\* A new item is an item without events.
LEMMA NewItemType ==
    ASSUME NEW t \in Nat
    PROVE  NewItem(t) \in ItemType /\ NewItem(t).events = {}
BY DEF NewItem, ItemType

\* Until MaxTime, a time is not rounded.
LEMMA Rounded ==
    ASSUME NEW t \in Nat, NEW d \in Nat
    PROVE  In(t, d) \in Nat /\ (t + d <= MaxTime => In(t, d) = t + d)
BY WebhookAssumption DEF In, Earlier

\* Scheduling an event only adds to the times the item waits for, but for the Download that ends a hold.
LEMMA ScheduledItem ==
    ASSUME NEW it \in ItemType, NEW w \in EventType, Schedules(w.class)
    PROVE  /\ Scheduled(it, w) \in ItemType /\ Scheduled(it, w).events = it.events
           /\ Scheduled(it, w).del >= it.del
           /\ w.class = "download" \/ Scheduled(it, w).hold >= it.hold
           /\ w.class = "delete" => Scheduled(it, w).del >= In(w.at, DeleteDelay)
           /\ w.class = "upgrade_delete" => Scheduled(it, w).hold >= In(w.at, UpgradeHold)
<1>0. w.at \in Nat /\ w.class \in Classes
    BY DEF EventType
<1>1. /\ it.first \in Nat /\ it.due \in Nat /\ it.del \in Nat /\ it.hold \in Nat
    BY DEF ItemType
<1>2. /\ \A t \in Nat : In(t, Quiet) \in Nat /\ In(t, Cap) \in Nat /\ In(t, DeleteDelay) \in Nat
                         /\ In(t, UpgradeHold) \in Nat
    BY WebhookAssumption, Rounded
<1>3. \A a, b \in Nat : /\ Later(a, b) \in Nat /\ Later(a, b) >= a /\ Later(a, b) >= b
                        /\ Earlier(a, b) \in Nat
    BY DEF Later, Earlier
<1>4. CASE w.class = "delete"
  <2>1. Scheduled(it, w) = [it EXCEPT !.del = Later(it.del, In(w.at, DeleteDelay))]
    BY <1>4 DEF Scheduled
  <2>. QED
    BY <1>0, <1>1, <1>2, <1>3, <1>4, <2>1 DEF ItemType
<1>5. CASE w.class = "upgrade_delete"
  <2>1. Scheduled(it, w) = [it EXCEPT !.hold = Later(it.hold, In(w.at, UpgradeHold))]
    BY <1>5 DEF Scheduled
  <2>. QED
    BY <1>0, <1>1, <1>2, <1>3, <1>5, <2>1 DEF ItemType
<1>6. CASE w.class = "change"
  <2>1. Scheduled(it, w) = [it EXCEPT !.first = it.first, !.hold = it.hold,
                                      !.due = Later(it.due, Earlier(In(w.at, Quiet), In(it.first, Cap)))]
    BY <1>6 DEF Scheduled
  <2>2. Later(it.due, Earlier(In(w.at, Quiet), In(it.first, Cap))) \in Nat
    BY <1>0, <1>1, <1>2, <1>3
  <2>3. Scheduled(it, w) = [it EXCEPT !.due = Later(it.due, Earlier(In(w.at, Quiet), In(it.first, Cap)))]
    BY <2>1 DEF ItemType
  <2>4. /\ Scheduled(it, w) \in ItemType /\ Scheduled(it, w).events = it.events
        /\ Scheduled(it, w).del = it.del /\ Scheduled(it, w).hold = it.hold
    BY <1>1, <2>2, <2>3 DEF ItemType
  <2>. QED
    BY <1>1, <1>6, <2>4
<1>7. CASE w.class = "download"
  <2>1. PICK f \in Nat, h \in Nat :
           Scheduled(it, w) = [it EXCEPT !.first = f, !.hold = h,
                                         !.due = Later(it.due, Earlier(In(w.at, Quiet), In(f, Cap)))]
    <3>1. CASE it.hold = 0
    BY <1>0, <1>1, <1>7, <3>1 DEF Scheduled
    <3>2. CASE it.hold # 0
    BY <1>0, <1>1, <1>7, <3>2 DEF Scheduled
    <3>. QED
    BY <3>1, <3>2
  <2>2. Later(it.due, Earlier(In(w.at, Quiet), In(f, Cap))) \in Nat
    BY <1>0, <1>1, <1>2, <1>3, <2>1
  <2>3. Scheduled(it, w) \in ItemType /\ Scheduled(it, w).events = it.events /\ Scheduled(it, w).del = it.del
    BY <1>1, <2>1, <2>2 DEF ItemType
  <2>. QED
    BY <1>1, <1>7, <2>3
<1>. QED
    BY <1>4, <1>5, <1>6, <1>7 DEF Schedules

\* The items of L are gone; the others wait for what they waited for.
Spared(L) ==
    /\ items' \in [Items -> ItemType \cup {None}]
    /\ \A i \in L : items'[i] = None
    /\ \A i \in Items \ L :
          /\ items'[i] = None <=> items[i] = None
          /\ items[i] # None => /\ items'[i].events = items[i].events
                                /\ items'[i].del = items[i].del /\ items'[i].hold = items[i].hold

\* The step goes on with fewer items, or ends.
Shrinks ==
    /\ fl' \in FlushType /\ fl'.at \in {"idle"} \cup Flushing
    /\ fl'.at = "idle" => fl' = NoFlush
    /\ fl'.batch = <<>> /\ fl'.failed = {} /\ fl'.keys \subseteq fl.keys
    /\ fl'.at # "idle" => fl'.now = fl.now

\* A step of the flush loses only the events of the items it drops.
Loses(L) ==
    /\ L \subseteq fl.keys /\ Spared(L) /\ known' = known \ EventsOf(L) /\ inbox' = inbox
    /\ Shrinks /\ fl'.keys \cap L = {}
    /\ now' = now /\ what' = what

\* The end of a step is a state of the flush.
LEMMA EndsFlush ==
    ASSUME fl' = NoFlush
    PROVE  Shrinks /\ fl'.keys = {} /\ fl'.at = "idle"
BY DEF Shrinks, NoFlush, FlushType, Points

\* What is not changed is spared.
LEMMA SparesAll ==
    ASSUME TypeOK, items' = items
    PROVE  Spared({})
BY DEF TypeOK, Spared

\* No event is of no item.
LEMMA NoEventsOf == EventsOf({}) = {}
BY DEF EventsOf

\* The events of a set of items.
LEMMA InEventsOf ==
    ASSUME NEW K, NEW e
    PROVE  e \in EventsOf(K) <=> \E i \in K : e \in items[i].events
BY Zenon DEF EventsOf

\* retry postpones items and keeps what they wait for.
LEMMA RetryKeeps ==
    ASSUME TypeOK, NEW K, K \subseteq Items, \A i \in K : items[i] # None, items' = Retry(K)
    PROVE  Spared({})
<1>1. In(fl.now, RetryDelay) \in Nat
    BY WebhookAssumption, Rounded DEF TypeOK, FlushType
<1>2. ASSUME NEW i \in Items
      PROVE  /\ items'[i] \in ItemType \cup {None}
             /\ items'[i] = None <=> items[i] = None
             /\ items[i] # None => /\ items'[i].events = items[i].events
                                   /\ items'[i].del = items[i].del /\ items'[i].hold = items[i].hold
  <2>1. CASE i \in K
    <3>1. items[i] \in ItemType /\ items[i] # None
    BY <2>1 DEF TypeOK
    <3>2. items'[i] = [items[i] EXCEPT !.retry = In(fl.now, RetryDelay)]
    BY <2>1 DEF Retry
    <3>3. items'[i] \in ItemType /\ items'[i].events = items[i].events
          /\ items'[i].del = items[i].del /\ items'[i].hold = items[i].hold
    BY <1>1, <3>1, <3>2 DEF ItemType
    <3>. QED
    BY <3>1, <3>3, NoneAssumption
  <2>2. CASE i \notin K
    BY <2>2 DEF Retry, TypeOK
  <2>. QED
    BY <2>1, <2>2
<1>3. items' = [i \in Items |-> items'[i]]
    BY DEF Retry
<1>. QED
    BY <1>2, <1>3 DEF Spared

\* Dropped items are gone.
LEMMA DropKeeps ==
    ASSUME TypeOK, NEW K, K \subseteq Items, items' = Drop(K)
    PROVE  Spared(K)
<1>1. ASSUME NEW i \in Items
      PROVE  /\ items'[i] \in ItemType \cup {None}
             /\ i \in K => items'[i] = None
             /\ i \notin K => items'[i] = items[i]
    BY DEF Drop, TypeOK
<1>2. items' = [i \in Items |-> items'[i]]
    BY DEF Drop
<1>. QED
    BY <1>1, <1>2 DEF Spared

\* The next chunk leaves the items of this one.
LEMMA NextChunkKeeps ==
    ASSUME TypeOK, InStep, fl.at \in Flushing, NextChunk
    PROVE  /\ Shrinks /\ fl'.keys = fl.keys \ fl.chunk
           /\ fl'.at \in {"idle", "enqueue"}
<1>1. fl \in FlushType /\ fl.batch = <<>> /\ fl.failed = {}
    BY DEF TypeOK, InStep
<1>2. CASE fl.keys \ fl.chunk = {}
    BY <1>2, EndsFlush DEF NextChunk
<1>3. CASE fl.keys \ fl.chunk # {}
  <2>1. fl' = [fl EXCEPT !.at = "enqueue", !.keys = fl.keys \ fl.chunk, !.chunk = {}, !.job = 0]
    BY <1>3 DEF NextChunk
  <2>. QED
    BY <1>1, <2>1 DEF FlushType, Points, Flushing, Shrinks
<1>. QED
    BY <1>2, <1>3

\* flush: the items are kept, dropped or postponed.
LEMMA CheckLoses ==
    ASSUME TypeOK, InStep, Check
    PROVE  /\ \E L \in SUBSET Items : Loses(L)
           /\ fl'.at \in {"idle", "enqueue"}
<1>0. /\ fl.at = "check" /\ fl \in FlushType /\ fl.batch = <<>> /\ fl.failed = {} /\ fl.keys \subseteq Items
      /\ \A i \in fl.keys : items[i] # None
      /\ inbox' = inbox /\ now' = now /\ what' = what
    BY DEF TypeOK, InStep, Flushing, Check, FlushType
<1>1. CASE fl' = [fl EXCEPT !.at = "enqueue"] /\ UNCHANGED <<st, items, known, world>>
  <2>1. Shrinks /\ fl'.keys = fl.keys /\ fl'.at = "enqueue"
    BY <1>0, <1>1 DEF FlushType, Points, Flushing, Shrinks
  <2>2. Spared({}) /\ known' = known \ EventsOf({})
    BY <1>1, SparesAll, NoEventsOf
  <2>3. Loses({})
    BY <1>0, <2>1, <2>2 DEF Loses
  <2>. QED
    BY <2>1, <2>3
<1>2. CASE items' = Drop(fl.keys) /\ fl' = NoFlush /\ MarkFailed(EventsOf(fl.keys))
  <2>1. Shrinks /\ fl'.keys = {} /\ fl'.at = "idle"
    BY <1>2, EndsFlush
  <2>2. Spared(fl.keys) /\ known' = known \ EventsOf(fl.keys)
    BY <1>0, <1>2, DropKeeps DEF MarkFailed
  <2>3. Loses(fl.keys)
    BY <1>0, <2>1, <2>2 DEF Loses
  <2>. QED
    BY <1>0, <2>1, <2>3
<1>3. CASE items' = Retry(fl.keys) /\ fl' = NoFlush /\ known' = known
  <2>1. Shrinks /\ fl'.keys = {} /\ fl'.at = "idle"
    BY <1>3, EndsFlush
  <2>2. Spared({}) /\ known' = known \ EventsOf({})
    BY <1>0, <1>3, RetryKeeps, NoEventsOf
  <2>3. Loses({})
    BY <1>0, <2>1, <2>2 DEF Loses
  <2>. QED
    BY <2>1, <2>3
<1>. QED
    BY <1>1, <1>2, <1>3 DEF Check

\* flushChunk: queueing changes no item ...
LEMMA EnqueueLoses ==
    ASSUME TypeOK, InStep, FlushEnqueue
    PROVE  Loses({})
<1>0. /\ fl.at = "enqueue" /\ fl \in FlushType /\ fl.batch = <<>> /\ fl.failed = {}
      /\ inbox' = inbox /\ now' = now /\ what' = what /\ items' = items /\ known' = known
    BY DEF TypeOK, InStep, Flushing, FlushEnqueue, memory
<1>1. PICK j \in Jobs : fl' = [fl EXCEPT !.at = "mark", !.chunk = Chunk, !.job = j]
    BY DEF FlushEnqueue
<1>2. Chunk \subseteq fl.keys /\ fl.keys \subseteq Items /\ j \in Nat
    BY <1>0, WebhookAssumption DEF Chunk, FlushType
<1>3. Shrinks /\ fl'.keys = fl.keys
  <2>. HIDE DEF Chunk
  <2>. QED
    BY <1>0, <1>1, <1>2 DEF FlushType, Points, Flushing, Shrinks
<1>4. Spared({}) /\ known' = known \ EventsOf({})
    BY <1>0, SparesAll, NoEventsOf
<1>. QED
    BY <1>0, <1>3, <1>4 DEF Loses

\* ... and failing to drops the items that were tried too often.
LEMMA EnqueueFailsLoses ==
    ASSUME TypeOK, InStep, EnqueueFails
    PROVE  /\ \E L \in SUBSET Items : Loses(L)
           /\ fl'.at \in {"idle", "enqueue"}
<1>0. /\ fl.at = "enqueue" /\ fl \in FlushType /\ fl.batch = <<>> /\ fl.failed = {} /\ fl.keys \subseteq Items
      /\ \A i \in fl.keys : items[i] # None
      /\ inbox' = inbox /\ now' = now /\ what' = what
    BY DEF TypeOK, InStep, Flushing, EnqueueFails, FlushType
<1>1. Chunk \subseteq fl.keys
    BY DEF Chunk
<1>. DEFINE K == Chunk
            tried == [i \in Items |-> IF i \in K THEN [Retry(K)[i] EXCEPT !.attempts = @ + 1] ELSE items[i]]
            L == {i \in K : GivesUp(tried[i])}
<1>2. /\ items' = [i \in Items |-> IF i \in L THEN None ELSE tried[i]]
      /\ known' = known \ EventsOf(L)
      /\ fl' = IF fl.keys = K THEN NoFlush ELSE [fl EXCEPT !.keys = fl.keys \ K]
    BY DEF EnqueueFails
<1>3. K \subseteq fl.keys /\ L \subseteq K
    BY <1>1
<1>4. In(fl.now, RetryDelay) \in Nat
    BY <1>0, WebhookAssumption, Rounded DEF FlushType
<1>5. ASSUME NEW i \in K
      PROVE  /\ tried[i] \in ItemType /\ tried[i] # None /\ tried[i].events = items[i].events
             /\ tried[i].del = items[i].del /\ tried[i].hold = items[i].hold
  <2>1. i \in Items /\ items[i] \in ItemType /\ items[i] # None
    BY <1>0, <1>3 DEF TypeOK
  <2>2. Retry(K)[i] = [items[i] EXCEPT !.retry = In(fl.now, RetryDelay)]
    BY <2>1 DEF Retry
  <2>3. /\ Retry(K)[i] \in ItemType /\ Retry(K)[i].events = items[i].events
        /\ Retry(K)[i].del = items[i].del /\ Retry(K)[i].hold = items[i].hold
    BY <1>4, <2>1, <2>2 DEF ItemType
  <2>4. tried[i] = [Retry(K)[i] EXCEPT !.attempts = @ + 1]
    BY <2>1
  <2>5. /\ tried[i] \in ItemType /\ tried[i].events = Retry(K)[i].events
        /\ tried[i].del = Retry(K)[i].del /\ tried[i].hold = Retry(K)[i].hold
    <3>1. PICK r \in ItemType : r = Retry(K)[i]
    BY <2>3
    <3>2. tried[i] = [r EXCEPT !.attempts = r.attempts + 1]
    BY <2>4, <3>1
    <3>. HIDE DEF tried
    <3>3. /\ tried[i] \in ItemType /\ tried[i].events = r.events
          /\ tried[i].del = r.del /\ tried[i].hold = r.hold
    BY <3>1, <3>2 DEF ItemType
    <3>. QED
    BY <3>1, <3>3
  <2>. HIDE DEF tried
  <2>. QED
    BY <2>3, <2>5, NoneAssumption
<1>6. \A i \in Items \ K : tried[i] = items[i]
    OBVIOUS
<1>7. Spared(L)
  <2>. HIDE DEF tried, L, K
  <2>1. \A i \in Items : items[i] \in ItemType \cup {None}
    BY DEF TypeOK
  <2>2. \A i \in Items : tried[i] \in ItemType \cup {None}
    BY <1>5, <1>6, <2>1
  <2>3. items' \in [Items -> ItemType \cup {None}]
    BY <1>2, <2>2
  <2>4. \A i \in L : items'[i] = None
    BY <1>0, <1>2, <1>3
  <2>5. \A i \in Items \ L : items'[i] = tried[i]
    BY <1>2
  <2>6. \A i \in Items \ L : i \in K => items[i] # None
    BY <1>0, <1>3
  <2>. QED
    BY <1>5, <1>6, <2>3, <2>4, <2>5, <2>6 DEF Spared
<1>8. Shrinks /\ fl'.keys = fl.keys \ K /\ fl'.at \in {"idle", "enqueue"}
  <2>. HIDE DEF tried, L, K
  <2>1. CASE fl.keys = K
    BY <1>2, <2>1, EndsFlush
  <2>2. CASE fl.keys # K
    <3>1. fl' = [fl EXCEPT !.keys = fl.keys \ K]
    BY <1>2, <2>2
    <3>. QED
    BY <1>0, <3>1 DEF FlushType, Points, Flushing, Shrinks
  <2>. QED
    BY <2>1, <2>2
<1>9. Loses(L) /\ L \in SUBSET Items
  <2>. HIDE DEF tried, L, K
  <2>. QED
    BY <1>0, <1>2, <1>3, <1>7, <1>8 DEF Loses
<1>. QED
    BY <1>8, <1>9

\* Marking the events changes no item, or postpones the chunk's.
LEMMA MarkLoses ==
    ASSUME TypeOK, InStep, FlushMark
    PROVE  /\ Loses({})
           /\ \/ /\ fl' = [fl EXCEPT !.at = "forget"] /\ items' = items
              \/ fl'.at \in {"idle", "enqueue"}
<1>0. /\ fl.at = "mark" /\ fl \in FlushType /\ fl.batch = <<>> /\ fl.failed = {} /\ fl.keys \subseteq Items
      /\ \A i \in fl.keys : items[i] # None
      /\ fl.chunk \subseteq fl.keys
      /\ inbox' = inbox /\ now' = now /\ what' = what /\ known' = known
    BY DEF TypeOK, InStep, Flushing, FlushMark, FlushType
<1>1. CASE fl' = [fl EXCEPT !.at = "forget"] /\ items' = items
  <2>1. Shrinks /\ fl'.keys = fl.keys
    BY <1>0, <1>1 DEF FlushType, Points, Flushing, Shrinks
  <2>2. Spared({}) /\ known' = known \ EventsOf({})
    BY <1>0, <1>1, SparesAll, NoEventsOf
  <2>. QED
    BY <1>0, <1>1, <2>1, <2>2 DEF Loses
<1>2. CASE items' = Retry(fl.chunk) /\ NextChunk
  <2>1. Shrinks /\ fl'.at \in {"idle", "enqueue"}
    BY <1>0, <1>2, NextChunkKeeps DEF Flushing
  <2>2. Spared({}) /\ known' = known \ EventsOf({})
    BY <1>0, <1>2, RetryKeeps, NoEventsOf
  <2>. QED
    BY <1>0, <2>1, <2>2 DEF Loses
<1>. QED
    BY <1>1, <1>2 DEF FlushMark

\* Marked items leave the processor.
LEMMA ForgetLoses ==
    ASSUME TypeOK, InStep, FlushForget
    PROVE  Loses(fl.chunk) /\ fl'.at \in {"idle", "enqueue"}
<1>0. /\ fl.at = "forget" /\ fl \in FlushType /\ fl.keys \subseteq Items /\ fl.chunk \subseteq fl.keys
      /\ inbox' = inbox /\ now' = now /\ what' = what /\ known' = known \ EventsOf(fl.chunk)
      /\ items' = Drop(fl.chunk) /\ NextChunk
    BY DEF TypeOK, InStep, Flushing, FlushForget, FlushType, db
<1>1. Shrinks /\ fl'.keys = fl.keys \ fl.chunk /\ fl'.at \in {"idle", "enqueue"}
    BY <1>0, NextChunkKeeps DEF Flushing
<1>2. Spared(fl.chunk)
    BY <1>0, DropKeeps
<1>. QED
    BY <1>0, <1>1, <1>2 DEF Loses

\* The first event of the batch is one that something acts on.
LEMMA FirstOfBatch ==
    ASSUME TypeOK, Arrivals, Backlog, Add
    PROVE  /\ Head(fl.batch) \in Acted /\ Tail(fl.batch) \in Seq(Events)
           /\ ToSet(fl.batch) = {Head(fl.batch)} \cup ToSet(Tail(fl.batch))
           /\ what[Head(fl.batch)] \in EventType /\ Schedules(what[Head(fl.batch)].class)
<1>1. fl.batch \in Seq(Events) /\ fl.batch # <<>>
    BY DEF TypeOK, FlushType, Add
<1>2. /\ Head(fl.batch) \in Events /\ Tail(fl.batch) \in Seq(Events)
      /\ ToSet(fl.batch) = {Head(fl.batch)} \cup ToSet(Tail(fl.batch))
    BY <1>1, ElementsOfTail
<1>3. Head(fl.batch) \in known
    BY <1>2 DEF Backlog
<1>4. Head(fl.batch) \in Acted
    BY <1>3 DEF Arrivals
<1>. QED
    BY <1>2, <1>4 DEF Acted, TypeOK

\* add, of an event that names no item ...
AddsNothing(e) ==
    /\ what[e].item = 0 /\ items' = items
    /\ fl' = [fl EXCEPT !.batch = Tail(fl.batch), !.failed = fl.failed \cup {e}]

\* ... and of one that does: the item waits for it, and for what it waited for before.
AddsTo(i, e) ==
    /\ i \in Items /\ what[e].item = i
    /\ fl' = [fl EXCEPT !.batch = Tail(fl.batch)]
    /\ items' \in [Items -> ItemType \cup {None}] /\ items'[i] # None
    /\ \A k \in Items \ {i} : items'[k] = items[k]
    /\ items'[i].events = {e} \cup (IF items[i] = None THEN {} ELSE items[i].events)
    /\ items[i] # None => items'[i].del >= items[i].del
    /\ items[i] # None => what[e].class = "download" \/ items'[i].hold >= items[i].hold
    /\ what[e].class = "delete" => items'[i].del >= what[e].at + DeleteDelay
    /\ what[e].class = "upgrade_delete" => items'[i].hold >= what[e].at + UpgradeHold

\* add does one or the other.
LEMMA AddDoes ==
    ASSUME TypeOK, Arrivals, Backlog, Add
    PROVE  AddsNothing(Head(fl.batch)) \/ \E i \in Items : AddsTo(i, Head(fl.batch))
<1>. DEFINE e == Head(fl.batch)
            i == what[e].item
            old == IF items[i] = None THEN NewItem(what[e].at) ELSE items[i]
            new == [Scheduled(old, what[e]) EXCEPT !.events = @ \cup {e}]
<1>1. e \in Acted /\ e \in Events /\ what[e] \in EventType /\ Schedules(what[e].class) /\ e \in Received
    BY FirstOfBatch DEF Acted, Received
<1>2. what[e].at \in Nat /\ i \in Items \cup {0} /\ what[e].at <= LastArrival
    BY <1>1 DEF EventType, Arrivals
<1>3. CASE i = 0
    BY <1>3 DEF Add, AddsNothing
<1>4. CASE i # 0
  <2>1. i \in Items
    BY <1>2, <1>4
  <2>2. fl' = [fl EXCEPT !.batch = Tail(fl.batch)] /\ items' = [items EXCEPT ![i] = new]
    BY <1>4 DEF Add
  <2>3. old \in ItemType /\ old.events = (IF items[i] = None THEN {} ELSE items[i].events)
    BY <1>2, <2>1, NewItemType DEF TypeOK
  <2>4. /\ Scheduled(old, what[e]) \in ItemType /\ Scheduled(old, what[e]).events = old.events
        /\ Scheduled(old, what[e]).del >= old.del
        /\ what[e].class = "download" \/ Scheduled(old, what[e]).hold >= old.hold
        /\ what[e].class = "delete" => Scheduled(old, what[e]).del >= In(what[e].at, DeleteDelay)
        /\ what[e].class = "upgrade_delete" => Scheduled(old, what[e]).hold >= In(what[e].at, UpgradeHold)
    <3>. HIDE DEF old, e
    <3>. QED
    BY <1>1, <2>3, ScheduledItem
  <2>5. /\ new \in ItemType /\ new.events = old.events \cup {e}
        /\ new.del = Scheduled(old, what[e]).del /\ new.hold = Scheduled(old, what[e]).hold
    <3>1. PICK r \in ItemType : r = Scheduled(old, what[e])
    BY <2>4
    <3>2. new = [r EXCEPT !.events = r.events \cup {e}] /\ r.events = old.events
    BY <2>4, <3>1
    <3>. HIDE DEF new, old, e
    <3>3. new \in ItemType /\ new.events = r.events \cup {e} /\ new.del = r.del /\ new.hold = r.hold
    BY <1>1, <3>1, <3>2 DEF ItemType
    <3>. QED
    BY <3>1, <3>2, <3>3
  <2>6. /\ In(what[e].at, DeleteDelay) = what[e].at + DeleteDelay
        /\ In(what[e].at, UpgradeHold) = what[e].at + UpgradeHold
    <3>1. /\ what[e].at + DeleteDelay <= MaxTime /\ what[e].at + UpgradeHold <= MaxTime
          /\ DeleteDelay \in Nat /\ UpgradeHold \in Nat
      <4>. HIDE DEF e
      <4>. QED
        BY <1>2, WebhookAssumption
    <3>. HIDE DEF e
    <3>. QED
    BY <1>2, <3>1, Rounded
  <2>7. items[i] # None => old = items[i]
    OBVIOUS
  <2>8. /\ items' \in [Items -> ItemType \cup {None}] /\ items'[i] = new
        /\ \A k \in Items \ {i} : items'[k] = items[k]
    <3>. HIDE DEF new, old, i, e
    <3>. QED
    BY <2>1, <2>2, <2>5 DEF TypeOK
  <2>9. new # None
    <3>. HIDE DEF new
    <3>. QED
    BY <2>5, NoneAssumption
  <2>10. AddsTo(i, e)
    <3>. HIDE DEF new, old, i
    <3>1. what[e].item = i
    BY DEF i
    <3>. HIDE DEF e
    <3>. QED
    BY <2>1, <2>2, <2>3, <2>4, <2>5, <2>6, <2>7, <2>8, <2>9, <3>1 DEF AddsTo
  <2>. QED
    BY <2>1, <2>10
<1>. QED
    BY <1>3, <1>4

\* After add the rest of the batch is left, and the step goes on.
LEMMA AddGoesOn ==
    ASSUME TypeOK, Arrivals, Backlog, Add
    PROVE  /\ fl' \in FlushType /\ fl'.at = "add" /\ fl'.batch = Tail(fl.batch) /\ fl'.now = fl.now
           /\ fl'.failed = fl.failed \/ fl'.failed = fl.failed \cup {Head(fl.batch)}
<1>1. /\ fl.at = "add" /\ fl \in FlushType /\ Tail(fl.batch) \in Seq(Events) /\ Head(fl.batch) \in Events
    BY FirstOfBatch DEF Add, TypeOK, Acted
<1>2. PICK F \in {fl.failed, fl.failed \cup {Head(fl.batch)}} :
         fl' = [fl EXCEPT !.batch = Tail(fl.batch), !.failed = F]
  <2>1. CASE AddsNothing(Head(fl.batch))
    BY <2>1 DEF AddsNothing
  <2>2. ASSUME NEW i \in Items, AddsTo(i, Head(fl.batch))
        PROVE  fl' = [fl EXCEPT !.batch = Tail(fl.batch), !.failed = fl.failed]
    BY <1>1, <2>2 DEF AddsTo, FlushType
  <2>. QED
    BY <2>1, <2>2, AddDoes
<1>3. F \in SUBSET Events
    BY <1>1, <1>2 DEF FlushType
<1>. QED
    BY <1>1, <1>2, <1>3 DEF FlushType

\* The batch is done: the step flushes, or ends.
LEMMA AddedGoesOn ==
    ASSUME TypeOK, Added
    PROVE  /\ fl' \in FlushType /\ fl'.at \in {"idle", "check"}
           /\ fl'.at = "idle" => fl' = NoFlush
           /\ fl'.batch = <<>> /\ fl'.failed = {}
           /\ fl'.at = "check" => /\ fl'.now = fl.now
                                  /\ \A i \in fl'.keys : /\ items[i] # None
                                                         /\ DueAt(items[i]) <= fl.now \/ Joins(items[i], fl.now)
<1>. DEFINE due == {i \in Items : items[i] # None /\ DueAt(items[i]) <= fl.now}
            joining == {i \in Items : items[i] # None /\ Joins(items[i], fl.now)}
<1>1. fl.at = "add" /\ fl.batch = <<>> /\ fl \in FlushType
    BY DEF Added, TypeOK
<1>2. fl' = IF due = {} THEN NoFlush ELSE [fl EXCEPT !.at = "check", !.failed = {}, !.keys = due \cup joining]
    BY DEF Added
<1>3. CASE due = {}
  <2>. HIDE DEF due, joining
  <2>. QED
    BY <1>2, <1>3 DEF NoFlush, FlushType, Points
<1>4. CASE due # {}
  <2>1. fl' = [fl EXCEPT !.at = "check", !.failed = {}, !.keys = due \cup joining]
    BY <1>2, <1>4
  <2>2. due \cup joining \in SUBSET Items
    OBVIOUS
  <2>3. /\ fl' \in FlushType /\ fl'.at = "check" /\ fl'.now = fl.now /\ fl'.failed = {} /\ fl'.batch = <<>>
        /\ fl'.keys = due \cup joining
    <3>. HIDE DEF due, joining
    <3>. QED
    BY <1>1, <2>1, <2>2 DEF FlushType, Points
  <2>. QED
    BY <2>3
<1>. QED
    BY <1>3, <1>4

-----------------------------------------------------------------------------
(* Every step keeps the invariant, part by part.                           *)

\* Marking events failed keeps the types.
LEMMA MarkFailedType ==
    ASSUME TypeOK, NEW E, MarkFailed(E)
    PROVE  /\ st' \in [Events -> {"absent", "unprocessed", "queued", "failed", "test", "ignored"}]
           /\ world' \in WorldType /\ known' \subseteq Events
<1>1. world' = world \/ Fault
    BY DEF MarkFailed
<1>2. world' \in WorldType
    BY <1>1, Faulted DEF TypeOK
<1>. QED
    BY <1>2 DEF MarkFailed, TypeOK

\* Every step keeps the types.
LEMMA TypeStep == Inv /\ [Next]_vars => TypeOK'
<1>. SUFFICES ASSUME Inv, [Next]_vars PROVE TypeOK'
    OBVIOUS
<1>a. TypeOK /\ Arrivals /\ Backlog /\ HeldOnce /\ Waits /\ InStep /\ RanStarted /\ Promised
    BY DEF Inv
<1>0. CASE UNCHANGED vars
    BY <1>a, <1>0 DEF TypeOK, vars, db, memory, handover, hist
<1>1. ASSUME NEW e \in Events, Receive(e)
      PROVE  TypeOK'
  <2>. DEFINE class == Classify(world.bodies[e])
  <2>1. class \in Classes /\ ~Schedules(class) => class \in {"test", "ignored"}
    BY DEF Classify, Classes, Schedules
  <2>2. class \in Classes
    BY DEF Classify, Classes
  <2>3. world.bodies[e].item \in Items \cup {0}
    <3>1. world.bodies \in Seq(BodyType) /\ e \in 1..Len(world.bodies)
    BY <1>a, <1>1, WebhookAssumption DEF Receive, TypeOK, WorldType
    <3>2. world.bodies[e] \in BodyType
    BY <3>1
    <3>. QED
    BY <3>2 DEF BodyType
  <2>. HIDE DEF class
  <2>4. PICK w \in EventType : what' = [what EXCEPT ![e] = w]
    <3>1. [class |-> class, at |-> now, item |-> IF Schedules(class) THEN world.bodies[e].item ELSE 0] \in EventType
    BY <1>a, <2>2, <2>3 DEF EventType, TypeOK
    <3>. QED
    BY <1>1, <3>1 DEF Receive, class
  <2>5. st' = [st EXCEPT ![e] = IF Schedules(class) THEN "unprocessed" ELSE class]
    BY <1>1 DEF Receive, class
  <2>6. what' \in [Events -> EventType \cup {None}]
    BY <1>a, <2>4 DEF TypeOK
  <2>7. st' \in [Events -> {"absent", "unprocessed", "queued", "failed", "test", "ignored"}]
    BY <1>a, <2>1, <2>2, <2>5 DEF TypeOK
  <2>8. UNCHANGED <<now, by, job, inbox, known, items, fl, hookDue, pushing, saw, lapse, world>> /\ told' \subseteq Events
    BY <1>a, <1>1 DEF Receive, memory, hist, TypeOK
  <2>. QED
    BY <1>a, <2>6, <2>7, <2>8 DEF TypeOK
<1>2. ASSUME NEW e \in Events, Notify(e)
      PROVE  TypeOK'
  <2>1. /\ UNCHANGED <<now, what, st, by, job, items, fl, hookDue, pushing, saw, lapse, world>> /\ told' \subseteq Events
        /\ Push({e}) \/ UNCHANGED <<known, inbox>>
    BY <1>a, <1>2 DEF Notify, db, hist, TypeOK
  <2>2. inbox' \in Seq(Events) /\ known' \subseteq Events
    BY <1>a, <2>1, Pushed DEF TypeOK
  <2>. QED
    BY <1>a, <2>1, <2>2 DEF TypeOK
<1>3. CASE Step
  <2>1. /\ UNCHANGED <<now, what, st, by, job, known, items, told, hookDue, pushing, saw, lapse, world>>
        /\ inbox' = <<>> /\ fl' = [NoFlush EXCEPT !.at = "add", !.batch = inbox, !.now = now]
    BY <1>3 DEF Step, db, handover, hist
  <2>2. fl' \in FlushType
    BY <1>a, <2>1 DEF FlushType, NoFlush, Points, TypeOK
  <2>. QED
    BY <1>a, <2>1, <2>2 DEF TypeOK
<1>4. CASE Add
  <2>1. UNCHANGED <<now, what, st, by, job, known, inbox, told, hookDue, pushing, saw, lapse, world>>
    BY <1>4 DEF Add, db, handover, hist
  <2>2. items' \in [Items -> ItemType \cup {None}]
    BY <1>4, <1>a, AddDoes DEF AddsNothing, AddsTo, TypeOK
  <2>3. fl' \in FlushType
    BY <1>4, <1>a, AddGoesOn
  <2>. QED
    BY <1>a, <2>1, <2>2, <2>3 DEF TypeOK
<1>5. CASE Added
  <2>1. UNCHANGED <<now, what, by, job, items, inbox, told, hookDue, pushing, saw, lapse>> /\ MarkFailed(fl.failed)
    BY <1>5 DEF Added, handover, hist
  <2>2. fl' \in FlushType
    BY <1>5, <1>a, AddedGoesOn
  <2>. QED
    BY <1>a, <2>1, <2>2, MarkFailedType DEF TypeOK
<1>6. CASE Check
  <2>1. UNCHANGED <<now, what, by, job, inbox, told, hookDue, pushing, saw, lapse>>
    BY <1>6 DEF Check, handover, hist
  <2>2. /\ st' \in [Events -> {"absent", "unprocessed", "queued", "failed", "test", "ignored"}]
        /\ world' \in WorldType
    <3>1. UNCHANGED <<st, world>> \/ MarkFailed(EventsOf(fl.keys)) \/ (Fault /\ st' = st)
    BY <1>6 DEF Check
    <3>. QED
    BY <1>a, <3>1, MarkFailedType, Faulted DEF TypeOK
  <2>3. fl' \in FlushType /\ items' \in [Items -> ItemType \cup {None}] /\ known' \subseteq Events
    BY <1>6, <1>a, CheckLoses DEF Loses, Spared, Shrinks, TypeOK
  <2>. QED
    BY <1>a, <2>1, <2>2, <2>3 DEF TypeOK
<1>7. CASE FlushEnqueue
  <2>1. UNCHANGED <<now, what, st, by, known, items, inbox, told, hookDue, pushing, saw, lapse, world>>
    BY <1>7 DEF FlushEnqueue, memory, handover, hist
  <2>2. fl' \in FlushType
    BY <1>7, <1>a, EnqueueLoses DEF Loses, Shrinks
  <2>3. PICK j \in Jobs : Enqueue(Chunk, j)
    BY <1>7 DEF FlushEnqueue
  <2>4. Chunk \subseteq Items
    BY <1>a DEF Chunk, TypeOK, FlushType
  <2>5. job' \in [Jobs -> JobType \cup {None}]
    <3>. HIDE DEF Chunk
    <3>1. CASE job[j] # None /\ \E K \in SUBSET Items : job' = [job EXCEPT ![j].items = K]
      <4>1. job[j] \in JobType
        BY <1>a, <3>1 DEF TypeOK
      <4>2. PICK K \in SUBSET Items : job' = [job EXCEPT ![j] = [job[j] EXCEPT !.items = K]]
        BY <3>1
      <4>3. [job[j] EXCEPT !.items = K] \in JobType
        BY <4>1, <4>2 DEF JobType
      <4>. QED
        BY <1>a, <4>2, <4>3 DEF TypeOK
    <3>2. CASE job' = [job EXCEPT ![j] = [st |-> "queued", started |-> FALSE, items |-> Chunk]]
      <4>1. [st |-> "queued", started |-> FALSE, items |-> Chunk] \in JobType
        BY <2>4 DEF JobType
      <4>. QED
        BY <1>a, <3>2, <4>1 DEF TypeOK
    <3>3. job[j] # None => job[j].items \subseteq Items
    BY <1>a DEF TypeOK, JobType
    <3>. QED
    BY <2>3, <2>4, <3>1, <3>2, <3>3 DEF Enqueue
  <2>. QED
    BY <1>a, <2>1, <2>2, <2>5 DEF TypeOK
<1>8. CASE EnqueueFails
  <2>1. UNCHANGED <<now, what, by, job, inbox, told, hookDue, pushing, saw, lapse>>
    BY <1>8 DEF EnqueueFails, handover, hist
  <2>2. st' \in [Events -> {"absent", "unprocessed", "queued", "failed", "test", "ignored"}]
    <3>1. st' = st \/ \E E : st' = [e \in Events |-> IF e \in E /\ st[e] = "unprocessed" THEN "failed" ELSE st[e]]
    BY <1>8 DEF EnqueueFails
    <3>. QED
    BY <1>a, <3>1 DEF TypeOK
  <2>3. world' \in WorldType
    <3>1. Fault \/ (world.faults > 1 /\ world' = [world EXCEPT !.faults = world.faults - 2, !.faulty = TRUE])
    BY <1>8 DEF EnqueueFails
    <3>2. world \in WorldType /\ world.faults \in Nat
    BY <1>a DEF TypeOK, WorldType
    <3>3. CASE world.faults > 1 /\ world' = [world EXCEPT !.faults = world.faults - 2, !.faulty = TRUE]
      <4>1. world.faults - 2 \in Nat
        BY <3>2, <3>3
      <4>. QED
        BY <3>2, <3>3, <4>1 DEF WorldType
    <3>. QED
    BY <3>1, <3>2, <3>3, Faulted
  <2>4. fl' \in FlushType /\ items' \in [Items -> ItemType \cup {None}] /\ known' \subseteq Events
    BY <1>8, <1>a, EnqueueFailsLoses DEF Loses, Spared, Shrinks, TypeOK
  <2>. QED
    BY <1>a, <2>1, <2>2, <2>3, <2>4 DEF TypeOK
<1>9. CASE FlushMark
  <2>1. UNCHANGED <<now, what, job, known, inbox, told, hookDue, pushing, saw, lapse>>
    BY <1>9 DEF FlushMark, handover, hist
  <2>2. fl' \in FlushType /\ items' \in [Items -> ItemType \cup {None}]
    BY <1>9, <1>a, MarkLoses DEF Loses, Spared, Shrinks
  <2>3. world' = world \/ Fault
    BY <1>9 DEF FlushMark
  <2>4. fl.job \in Nat
    BY <1>a DEF TypeOK, FlushType
  <2>5. /\ st' \in [Events -> {"absent", "unprocessed", "queued", "failed", "test", "ignored"}]
        /\ by' \in [Events -> Nat]
    <3>1. UNCHANGED <<st, by>>
          \/ \E E : /\ st' = [e \in Events |-> IF e \in E THEN "queued" ELSE st[e]]
                    /\ by' = [e \in Events |-> IF e \in E THEN fl.job ELSE by[e]]
    BY <1>9 DEF FlushMark
    <3>. QED
    BY <1>a, <2>4, <3>1 DEF TypeOK
  <2>. QED
    BY <1>a, <2>1, <2>2, <2>3, <2>5, Faulted DEF TypeOK
<1>10. CASE FlushForget
  <2>1. UNCHANGED <<now, what, st, by, job, inbox, told, hookDue, pushing, saw, lapse, world>>
    BY <1>10 DEF FlushForget, db, handover, hist
  <2>2. fl' \in FlushType /\ items' \in [Items -> ItemType \cup {None}] /\ known' \subseteq Events
    BY <1>10, <1>a, ForgetLoses DEF Loses, Spared, Shrinks, TypeOK
  <2>. QED
    BY <1>a, <2>1, <2>2 DEF TypeOK
<1>11. ASSUME NEW j \in Jobs, Begin(j) \/ EndJob(j) \/ CancelJob(j)
       PROVE  TypeOK'
  <2>1. UNCHANGED <<now, what, st, by, known, items, inbox, fl, told, pushing, lapse>>
    BY <1>11 DEF Begin, EndJob, CancelJob, memory, handover, hist
  <2>2. job[j] \in JobType
    BY <1>a, <1>11 DEF TypeOK, Begin, EndJob, CancelJob
  <2>3. PICK s \in {"running", "completed", "failed", "cancelled"}, b \in BOOLEAN :
          job' = [job EXCEPT ![j] = [job[j] EXCEPT !.st = s, !.started = b]]
    <3>1. CASE Begin(j)
    BY <3>1, <1>a DEF Begin, TypeOK
    <3>2. ASSUME NEW s \in {"completed", "failed", "cancelled"}, job' = [job EXCEPT ![j].st = s]
          PROVE  job' = [job EXCEPT ![j] = [job[j] EXCEPT !.st = s, !.started = job[j].started]]
    BY <2>2, <3>2 DEF JobType
    <3>3. job[j].started \in BOOLEAN
    BY <2>2 DEF JobType
    <3>. QED
    BY <1>11, <3>1, <3>2, <3>3 DEF EndJob, CancelJob
  <2>4. job' \in [Jobs -> JobType \cup {None}]
    <3>1. [job[j] EXCEPT !.st = s, !.started = b] \in JobType
    BY <2>2, <2>3 DEF JobType
    <3>. QED
    BY <1>a, <2>3, <3>1 DEF TypeOK
  <2>5. saw' \in [Jobs -> SUBSET Events]
    <3>1. saw' = saw \/ saw' = [saw EXCEPT ![j] = Received]
    BY <1>11 DEF Begin, EndJob, CancelJob, hist
    <3>2. Received \in SUBSET Events
    BY DEF Received
    <3>. HIDE DEF Received
    <3>. QED
    BY <1>a, <3>1, <3>2 DEF TypeOK
  <2>6. hookDue' \subseteq Jobs
    BY <1>a, <1>11 DEF Begin, EndJob, CancelJob, handover, TypeOK
  <2>7. world' \in WorldType
    <3>1. CASE CancelJob(j)
      <4>1. world' = [world EXCEPT !.cancels = world.cancels - 1] /\ world.cancels > 0
        BY <3>1 DEF CancelJob
      <4>2. world \in WorldType /\ world.cancels \in Nat
        BY <1>a DEF TypeOK, WorldType
      <4>3. world.cancels - 1 \in Nat
        BY <4>1, <4>2
      <4>. QED
        BY <4>1, <4>2, <4>3 DEF WorldType
    <3>. QED
    BY <1>a, <1>11, <3>1 DEF Begin, EndJob, TypeOK
  <2>. QED
    BY <1>a, <2>1, <2>4, <2>5, <2>6, <2>7 DEF TypeOK
<1>12. ASSUME NEW j \in Jobs, HookRearm(j)
       PROVE  TypeOK'
  <2>1. UNCHANGED <<now, what, job, known, items, inbox, fl, told, saw>> /\ hookDue' \subseteq Jobs
    BY <1>a, <1>12 DEF HookRearm, memory, TypeOK
  <2>2. world' = world \/ Fault
    BY <1>12 DEF HookRearm
  <2>3. Carries(j) \subseteq Events
    BY DEF Carries
  <2>4. /\ st' \in [Events -> {"absent", "unprocessed", "queued", "failed", "test", "ignored"}]
        /\ by' \in [Events -> Nat] /\ pushing' \in [Jobs -> SUBSET Events] /\ lapse' \in BOOLEAN
    <3>. HIDE DEF Carries
    <3>1. CASE Unmark(Carries(j)) /\ pushing' = [pushing EXCEPT ![j] = Carries(j)] /\ lapse' = lapse
    BY <1>a, <2>3, <3>1 DEF Unmark, TypeOK
    <3>. QED
    BY <1>a, <1>12, <3>1 DEF HookRearm, TypeOK
  <2>. QED
    BY <1>a, <2>1, <2>2, <2>4, Faulted DEF TypeOK
<1>13. ASSUME NEW j \in Jobs, HookPush(j)
       PROVE  TypeOK'
  <2>1. /\ UNCHANGED <<now, what, st, by, job, items, fl, told, hookDue, saw, lapse, world>>
        /\ pushing' = [pushing EXCEPT ![j] = {}] /\ Push(pushing[j]) /\ pushing[j] \subseteq Events
    BY <1>a, <1>13 DEF HookPush, db, hist, TypeOK
  <2>2. inbox' \in Seq(Events) /\ known' \subseteq Events
    BY <1>a, <2>1, Pushed DEF TypeOK
  <2>. QED
    BY <1>a, <2>1, <2>2 DEF TypeOK
<1>14. CASE Boot \/ Disable
    BY <1>a, <1>14 DEF Boot, Disable, db, memory, handover, hist, TypeOK
<1>15. CASE StartPrune \/ LoopPrune
  <2>1. UNCHANGED <<now, what, by, job, known, items, inbox, fl, told, hookDue, pushing, saw, lapse>>
    BY <1>15 DEF StartPrune, LoopPrune, memory, handover, hist
  <2>2. (world' = world \/ Fault) /\ (st' = st \/ st' = Pruned)
    BY <1>15 DEF StartPrune, LoopPrune
  <2>3. st' \in [Events -> {"absent", "unprocessed", "queued", "failed", "test", "ignored"}]
    BY <1>a, <2>2 DEF Pruned, TypeOK
  <2>. QED
    BY <1>a, <2>1, <2>2, <2>3, Faulted DEF TypeOK
<1>16. CASE StartRearm
  <2>1. UNCHANGED <<now, what, job, known, items, inbox, fl, told, hookDue, pushing, saw>> /\ lapse' \in BOOLEAN
    BY <1>16 DEF StartRearm, memory, handover
  <2>2. (world' = world \/ Fault) /\ (UNCHANGED <<st, by>> \/ \E E : Unmark(E))
    BY <1>16 DEF StartRearm
  <2>3. /\ st' \in [Events -> {"absent", "unprocessed", "queued", "failed", "test", "ignored"}]
        /\ by' \in [Events -> Nat]
    BY <1>a, <2>2 DEF Unmark, TypeOK
  <2>. QED
    BY <1>a, <2>1, <2>2, <2>3, Faulted DEF TypeOK
<1>17. CASE StartLoad
  <2>1. UNCHANGED <<now, what, st, by, job, items, fl, told, hookDue, pushing, saw, lapse, world>>
    BY <1>17 DEF StartLoad, db, handover, hist
  <2>2. PICK E \in SUBSET Events : Push(E)
    BY <1>17 DEF StartLoad, Unprocessed
  <2>3. inbox' \in Seq(Events) /\ known' \subseteq Events
    BY <1>a, <2>2, Pushed DEF TypeOK
  <2>. QED
    BY <1>a, <2>1, <2>3 DEF TypeOK
<1>18. CASE Crash \/ Exit
  <2>1. Lose /\ (world' = world \/ (world.stops > 0 /\ world' = [world EXCEPT !.stops = world.stops - 1]))
    BY <1>18 DEF Crash, Exit
  <2>2. world' \in WorldType
    <3>1. world \in WorldType /\ world.stops \in Nat
    BY <1>a DEF TypeOK, WorldType
    <3>2. CASE world.stops > 0 /\ world' = [world EXCEPT !.stops = world.stops - 1]
      <4>1. world.stops - 1 \in Nat
        BY <3>1, <3>2
      <4>. QED
        BY <3>1, <3>2, <4>1 DEF WorldType
    <3>. QED
    BY <2>1, <3>1, <3>2
  <2>3. /\ UNCHANGED <<now, what, st, by, saw, lapse>> /\ inbox' = <<>> /\ known' = {} /\ items' = [i \in Items |-> None]
        /\ fl' = NoFlush /\ told' = {} /\ hookDue' = {} /\ pushing' = [j \in Jobs |-> {}]
    BY <2>1 DEF Lose, hist
  <2>4. job' \in [Jobs -> JobType \cup {None}]
    <3>1. ASSUME NEW j \in Jobs
          PROVE  (IF job[j] # None /\ job[j].st = "running" THEN [job[j] EXCEPT !.st = "queued"] ELSE job[j])
                     \in JobType \cup {None}
    BY <1>a DEF TypeOK, JobType
    <3>. QED
    BY <2>1, <3>1 DEF Lose
  <2>5. fl' \in FlushType
    BY <2>3 DEF NoFlush, FlushType, Points
  <2>. QED
    BY <1>a, <2>2, <2>3, <2>4, <2>5 DEF TypeOK
<1>19. CASE Stop
  <2>1. /\ UNCHANGED <<now, what, st, by, job, known, items, inbox, fl, told, hookDue, pushing, saw, lapse>>
        /\ world.stops > 0 /\ world' = [world EXCEPT !.stops = world.stops - 1]
    BY <1>19 DEF Stop, db, memory, handover, hist
  <2>2. world' \in WorldType
    <3>1. world \in WorldType /\ world.stops \in Nat
    BY <1>a DEF TypeOK, WorldType
    <3>2. world.stops - 1 \in Nat
    BY <2>1, <3>1
    <3>. QED
    BY <2>1, <3>1, <3>2 DEF WorldType
  <2>. QED
    BY <1>a, <2>1, <2>2 DEF TypeOK
<1>20. CASE Tick
    BY <1>a, <1>20 DEF Tick, db, memory, handover, hist, TypeOK
<1>. QED
    BY <1>0, <1>1, <1>2, <1>3, <1>4, <1>5, <1>6, <1>7, <1>8, <1>9, <1>10, <1>11, <1>12, <1>13, <1>14, <1>15, <1>16,
       <1>17, <1>18, <1>19, <1>20 DEF Next, Loop, JobSteps, Starting, Ending

\* Every step keeps where events may be.
LEMMA ArrivalsStep == Inv /\ [Next]_vars => Arrivals'
<1>. SUFFICES ASSUME Inv, [Next]_vars PROVE Arrivals'
    OBVIOUS
<1>a. TypeOK /\ Arrivals /\ Backlog /\ HeldOnce /\ Waits /\ InStep /\ RanStarted /\ Promised
    BY DEF Inv
<1>b. /\ Acted \subseteq Received
      /\ \A e \in Received : what[e].at <= LastArrival
      /\ \A e \in Events : st[e] \in {"unprocessed", "queued"} => e \in Acted
      /\ told \subseteq Received
      /\ known \subseteq Acted
      /\ \A j \in Jobs : pushing[j] \subseteq Acted
    BY <1>a DEF Arrivals, Acted, Received
\* The events stay as they came: nothing new may be anywhere else.
<1>c. ASSUME what' = what,
             \A e \in Events : st'[e] \in {"unprocessed", "queued"} => e \in Acted,
             told' \subseteq told, known' \subseteq Acted,
             \A j \in Jobs : pushing'[j] \subseteq Acted
      PROVE  Arrivals'
  <2>1. Acted' = Acted /\ Received' = Received
    BY <1>c DEF Acted, Received
  <2>. QED
    BY <1>b, <1>c, <2>1 DEF Arrivals
<1>d. ASSUME what' = what, told' \subseteq told, known' \subseteq known,
             \A e \in Events : st'[e] \in {"unprocessed", "queued"} => e \in Acted,
             pushing' = pushing
      PROVE  Arrivals'
    BY <1>b, <1>c, <1>d
<1>e. ASSUME UNCHANGED <<what, st, told, known, pushing>>
      PROVE  Arrivals'
    BY <1>b, <1>d, <1>e
<1>f. ASSUME NEW E, st' = [e \in Events |-> IF e \in E /\ st[e] = "unprocessed" THEN "failed" ELSE st[e]]
      PROVE  \A e \in Events : st'[e] \in {"unprocessed", "queued"} => e \in Acted
    BY <1>b, <1>f
<1>1. ASSUME NEW e \in Events, Receive(e)
      PROVE  Arrivals'
  <2>. DEFINE class == Classify(world.bodies[e])
  <2>1. PICK w \in EventType : w.at = now /\ w.class = class /\ what' = [what EXCEPT ![e] = w]
    <3>1. [class |-> class, at |-> now, item |-> IF Schedules(class) THEN world.bodies[e].item ELSE 0] \in EventType
      <4>1. class \in Classes
        BY DEF Classify, Classes
      <4>2. world.bodies \in Seq(BodyType) /\ e \in 1..Len(world.bodies)
        BY <1>a, <1>1, WebhookAssumption DEF Receive, TypeOK, WorldType
      <4>3. world.bodies[e] \in BodyType
        BY <4>2
      <4>. HIDE DEF class
      <4>. QED
        BY <1>a, <4>1, <4>3 DEF EventType, BodyType, TypeOK
    <3>. HIDE DEF class
    <3>. QED
    BY <1>1, <3>1 DEF Receive, class
  <2>. HIDE DEF class
  <2>2. /\ now <= LastArrival /\ what[e] = None
        /\ st' = [st EXCEPT ![e] = IF Schedules(class) THEN "unprocessed" ELSE class]
        /\ told' = told \cup {e} /\ known' = known /\ pushing' = pushing
    BY <1>1 DEF Receive, class, Received, memory
  <2>3. /\ what'[e] = w /\ \A k \in Events \ {e} : what'[k] = what[k]
    BY <1>a, <2>1 DEF TypeOK
  <2>4. Received' = Received \cup {e} /\ e \notin Received
    BY <2>2, <2>3, NoneAssumption DEF Received
  <2>5. Acted \subseteq Acted'
    BY <2>2, <2>3 DEF Acted
  <2>6. Schedules(class) => e \in Acted'
    BY <2>1, <2>3, NoneAssumption DEF Acted
  <2>7. \A k \in Received' : what'[k].at <= LastArrival
    BY <1>b, <2>1, <2>2, <2>3, <2>4
  <2>8. \A k \in Events : st'[k] \in {"unprocessed", "queued"} => k \in Acted'
    <3>1. Schedules(class) \/ class \in {"test", "ignored"}
    BY DEF class, Classify, Schedules
    <3>. QED
    BY <1>a, <1>b, <2>2, <2>5, <2>6, <3>1 DEF TypeOK
  <2>. QED
    BY <1>b, <2>2, <2>4, <2>5, <2>7, <2>8 DEF Arrivals
<1>2. ASSUME NEW e \in Events, Notify(e)
      PROVE  Arrivals'
  <2>1. /\ UNCHANGED <<what, st, pushing>> /\ told' \subseteq told /\ e \in Received
        /\ (Schedules(what[e].class) /\ known' = known \cup {e}) \/ known' = known
    BY <1>b, <1>2 DEF Notify, Push, db
  <2>2. Schedules(what[e].class) => e \in Acted
    BY <2>1 DEF Received, Acted
  <2>. QED
    BY <1>b, <1>c, <2>1, <2>2
<1>3. CASE Step \/ Add \/ FlushEnqueue
    BY <1>e, <1>3 DEF Step, Add, FlushEnqueue, db, memory, handover
<1>4. CASE Added
    BY <1>d, <1>f, <1>b, <1>4 DEF Added, MarkFailed, handover
<1>5. CASE Check
  <2>1. UNCHANGED <<what, told, pushing>>
    BY <1>5 DEF Check, handover
  <2>2. UNCHANGED <<st, known>> \/ MarkFailed(EventsOf(fl.keys))
    BY <1>5 DEF Check
  <2>. QED
    BY <1>b, <1>d, <1>f, <2>1, <2>2 DEF MarkFailed
<1>6. CASE EnqueueFails
  <2>1. UNCHANGED <<what, told, pushing>>
    BY <1>6 DEF EnqueueFails, handover
  <2>2. /\ known' \subseteq known
        /\ st' = st \/ \E E : st' = [e \in Events |-> IF e \in E /\ st[e] = "unprocessed" THEN "failed" ELSE st[e]]
    BY <1>6 DEF EnqueueFails
  <2>. QED
    BY <1>b, <1>d, <1>f, <2>1, <2>2
<1>7. CASE FlushMark
  <2>1. UNCHANGED <<what, told, pushing, known>>
    BY <1>7 DEF FlushMark, handover
  <2>2. st' = st \/ \E E \in SUBSET Unprocessed : st' = [e \in Events |-> IF e \in E THEN "queued" ELSE st[e]]
    BY <1>7 DEF FlushMark
  <2>3. \A e \in Events : st'[e] \in {"unprocessed", "queued"} => e \in Acted
    BY <1>b, <2>2 DEF Unprocessed
  <2>. QED
    BY <1>d, <2>1, <2>3
<1>8. CASE FlushForget
    BY <1>b, <1>d, <1>8 DEF FlushForget, db, handover
<1>9. ASSUME NEW j \in Jobs, Begin(j) \/ EndJob(j) \/ CancelJob(j)
      PROVE  Arrivals'
    BY <1>e, <1>9 DEF Begin, EndJob, CancelJob, memory, handover
<1>10. ASSUME NEW j \in Jobs, HookRearm(j)
       PROVE  Arrivals'
  <2>1. UNCHANGED <<what, told, known>>
    BY <1>10 DEF HookRearm, memory
  <2>2. Carries(j) \subseteq Acted
    BY <1>b DEF Carries
  <2>3. CASE Unmark(Carries(j)) /\ pushing' = [pushing EXCEPT ![j] = Carries(j)]
    <3>. HIDE DEF Carries
    <3>1. \A e \in Events : st'[e] \in {"unprocessed", "queued"} => e \in Acted
    BY <1>b, <2>2, <2>3 DEF Unmark
    <3>2. \A i \in Jobs : pushing'[i] \subseteq Acted
    BY <1>a, <1>b, <2>2, <2>3 DEF TypeOK
    <3>. QED
    BY <1>b, <1>c, <2>1, <3>1, <3>2
  <2>4. CASE UNCHANGED <<st, pushing>>
    BY <1>e, <2>1, <2>4
  <2>. QED
    BY <1>10, <2>3, <2>4 DEF HookRearm
<1>11. ASSUME NEW j \in Jobs, HookPush(j)
       PROVE  Arrivals'
  <2>1. /\ UNCHANGED <<what, st, told>> /\ known' = known \cup pushing[j]
        /\ pushing' = [pushing EXCEPT ![j] = {}]
    BY <1>11 DEF HookPush, Push, db
  <2>2. \A i \in Jobs : pushing'[i] \subseteq Acted
    BY <1>a, <1>b, <2>1 DEF TypeOK
  <2>. QED
    BY <1>b, <1>c, <2>1, <2>2
<1>12. CASE Boot \/ Disable \/ Stop \/ Tick
    BY <1>e, <1>12 DEF Boot, Disable, Stop, Tick, db, memory, handover
<1>13. CASE StartPrune \/ LoopPrune
  <2>1. UNCHANGED <<what, told, pushing, known>> /\ (st' = st \/ st' = Pruned)
    BY <1>13 DEF StartPrune, LoopPrune, memory, handover
  <2>2. \A e \in Events : st'[e] \in {"unprocessed", "queued"} => e \in Acted
    BY <1>b, <2>1 DEF Pruned
  <2>. QED
    BY <1>d, <2>1, <2>2
<1>14. CASE StartRearm
  <2>1. UNCHANGED <<what, told, pushing, known>>
    BY <1>14 DEF StartRearm, memory, handover
  <2>2. st' = st \/ \E E \in SUBSET Acted : Unmark(E)
    <3>1. \A j : Carries(j) \subseteq Acted
    BY <1>b DEF Carries
    <3>. HIDE DEF Carries
    <3>2. UNION {Carries(j) : j \in {i \in Jobs : job[i] # None /\ job[i].st = "cancelled"}} \subseteq Acted
    BY <3>1
    <3>. QED
    BY <1>14, <3>2 DEF StartRearm
  <2>3. \A e \in Events : st'[e] \in {"unprocessed", "queued"} => e \in Acted
    BY <1>b, <2>2 DEF Unmark
  <2>. QED
    BY <1>d, <2>1, <2>3
<1>15. CASE StartLoad
  <2>1. UNCHANGED <<what, st, told, pushing>>
    BY <1>15 DEF StartLoad, db, handover
  <2>2. PICK E \in SUBSET Unprocessed : Push(E)
    BY <1>15 DEF StartLoad
  <2>3. Unprocessed \subseteq Acted
    BY <1>b DEF Unprocessed
  <2>. QED
    BY <1>b, <1>c, <2>1, <2>2, <2>3 DEF Push
<1>16. CASE Crash \/ Exit
  <2>1. /\ UNCHANGED <<what, st>> /\ told' = {} /\ known' = {} /\ pushing' = [j \in Jobs |-> {}]
    BY <1>16 DEF Crash, Exit, Lose
  <2>. QED
    BY <1>b, <1>c, <2>1
<1>17. CASE UNCHANGED vars
    BY <1>e, <1>17 DEF vars, db, memory, handover
<1>. QED
    BY <1>1, <1>2, <1>3, <1>4, <1>5, <1>6, <1>7, <1>8, <1>9, <1>10, <1>11, <1>12, <1>13, <1>14, <1>15, <1>16,
       <1>17 DEF Next, Loop, JobSteps, Starting, Ending

\* The steps of the flush, by what they lose.
LEMMA FlushLoses ==
    ASSUME TypeOK, InStep, Check \/ FlushEnqueue \/ EnqueueFails \/ FlushMark \/ FlushForget
    PROVE  \E L \in SUBSET Items : Loses(L)
<1>1. FlushForget => fl.chunk \in SUBSET Items
    BY DEF TypeOK, FlushType
<1>. QED
    BY <1>1, CheckLoses, EnqueueLoses, EnqueueFailsLoses, MarkLoses, ForgetLoses

\* A step of the flush is taken by a flush.
LEMMA FlushesNow ==
    ASSUME InStep, Check \/ FlushEnqueue \/ EnqueueFails \/ FlushMark \/ FlushForget
    PROVE  /\ fl.at \in Flushing /\ fl.batch = <<>> /\ fl.failed = {} /\ fl.now <= now
           /\ \A i \in fl.keys : items[i] # None /\ items[i].del <= fl.now /\ items[i].hold <= fl.now
BY DEF Check, FlushEnqueue, EnqueueFails, FlushMark, FlushForget, Flushing, InStep

\* What the items hold after a step of the flush.
LEMMA HeldAfter ==
    ASSUME TypeOK, NEW L \in SUBSET Items, Spared(L), NEW e
    PROVE  Held(e)' <=> \E i \in Items \ L : items[i] # None /\ e \in items[i].events
BY DEF Spared, Held

\* Every step keeps the backlog exact, and what waits in the inbox nowhere else.
LEMMA BacklogStep == Inv /\ [Next]_vars => Backlog' /\ HeldOnce'
<1>. SUFFICES ASSUME Inv, [Next]_vars PROVE Backlog' /\ HeldOnce'
    OBVIOUS
<1>a. TypeOK /\ Arrivals /\ Backlog /\ HeldOnce /\ Waits /\ InStep /\ RanStarted /\ Promised
    BY DEF Inv
<1>b. /\ \A e \in Events : e \in known <=> e \in ToSet(inbox) \/ e \in ToSet(fl.batch) \/ e \in fl.failed \/ Held(e)
      /\ \A e \in ToSet(inbox) : e \notin ToSet(fl.batch) /\ e \notin fl.failed /\ ~Held(e)
      /\ ToSet(inbox) \subseteq Events
    BY <1>a DEF Backlog, HeldOnce, TypeOK, ToSet
<1>c. ASSUME known' = known, inbox' = inbox, items' = items, fl'.batch = fl.batch, fl'.failed = fl.failed
      PROVE  Backlog' /\ HeldOnce'
  <2>1. \A e : Held(e)' <=> Held(e)
    BY <1>c DEF Held
  <2>. QED
    BY <1>b, <1>c, <2>1 DEF Backlog, HeldOnce
<1>d. ASSUME NEW E \in SUBSET Events, Push(E), items' = items, fl' = fl
      PROVE  Backlog' /\ HeldOnce'
  <2>1. ToSet(inbox') = ToSet(inbox) \cup (E \ known) /\ known' = known \cup E
    BY <1>a, <1>d, Pushed
  <2>2. \A e : Held(e)' <=> Held(e)
    BY <1>d DEF Held
  <2>. QED
    BY <1>b, <1>d, <2>1, <2>2 DEF Backlog, HeldOnce
<1>1. ASSUME NEW e \in Events, Receive(e)
      PROVE  Backlog' /\ HeldOnce'
    BY <1>c, <1>1 DEF Receive, memory
<1>2. ASSUME NEW e \in Events, Notify(e)
      PROVE  Backlog' /\ HeldOnce'
    BY <1>c, <1>d, <1>2 DEF Notify
<1>3. CASE Step
  <2>1. /\ fl.at = "idle" /\ inbox' = <<>> /\ items' = items /\ known' = known
        /\ fl' = [NoFlush EXCEPT !.at = "add", !.batch = inbox, !.now = now]
    BY <1>3 DEF Step
  <2>2. fl.batch = <<>> /\ fl.failed = {} /\ fl'.batch = inbox /\ fl'.failed = {}
    BY <1>a, <2>1 DEF InStep, NoFlush
  <2>3. \A e : Held(e)' <=> Held(e)
    BY <2>1 DEF Held
  <2>4. ToSet(inbox') = {} /\ ToSet(fl.batch) = {} /\ ToSet(fl'.batch) = ToSet(inbox)
    BY <2>1, <2>2, NoElements
  <2>. QED
    BY <1>b, <2>1, <2>2, <2>3, <2>4 DEF Backlog, HeldOnce
<1>4. CASE Add
  <2>. DEFINE e == Head(fl.batch)
  <2>1. /\ e \in Events /\ ToSet(fl.batch) = {e} \cup ToSet(fl'.batch)
        /\ inbox' = inbox /\ known' = known
    BY <1>4, <1>a, FirstOfBatch, AddGoesOn DEF Add, Acted
  <2>2. CASE AddsNothing(e)
    <3>1. items' = items /\ fl'.failed = fl.failed \cup {e}
      BY <1>a, <2>2 DEF AddsNothing, TypeOK, FlushType
    <3>2. \A k : Held(k)' <=> Held(k)
      BY <3>1 DEF Held
    <3>. HIDE DEF e
    <3>. QED
      BY <1>b, <2>1, <3>1, <3>2 DEF Backlog, HeldOnce
  <2>3. ASSUME NEW i \in Items, AddsTo(i, e)
        PROVE  Backlog' /\ HeldOnce'
    <3>1. fl'.failed = fl.failed
      BY <1>a, <2>3 DEF AddsTo, TypeOK, FlushType
    <3>. HIDE DEF e
    <3>2. \A k : Held(k)' <=> k = e \/ Held(k)
      <4>1. /\ items'[i] # None
            /\ items'[i].events = {e} \cup (IF items[i] = None THEN {} ELSE items[i].events)
            /\ \A n \in Items \ {i} : items'[n] = items[n]
        BY <2>3 DEF AddsTo
      <4>. QED
        BY <2>3, <4>1 DEF Held
    <3>. QED
      BY <1>b, <2>1, <3>1, <3>2 DEF Backlog, HeldOnce
  <2>. QED
    BY <1>4, <1>a, <2>2, <2>3, AddDoes
<1>5. CASE Added
  <2>1. /\ inbox' = inbox /\ items' = items /\ known' = known \ fl.failed
        /\ fl.batch = <<>> /\ fl'.batch = <<>> /\ fl'.failed = {}
    BY <1>5, <1>a, AddedGoesOn DEF Added, MarkFailed
  <2>2. \A e : Held(e)' <=> Held(e)
    BY <2>1 DEF Held
  <2>3. ASSUME NEW e \in fl.failed, Held(e)
        PROVE  FALSE
    <3>1. PICK i \in Items : items[i] # None /\ e \in items[i].events
      BY <2>3 DEF Held
    <3>2. what[e].item = i /\ what[e].item = 0
      BY <1>a, <3>1 DEF Waits, InStep
    <3>. QED
      BY <3>2, WebhookAssumption
  <2>. QED
    BY <1>b, <2>1, <2>2, <2>3, NoElements DEF Backlog, HeldOnce
<1>6. CASE Check \/ FlushEnqueue \/ EnqueueFails \/ FlushMark \/ FlushForget
  <2>1. PICK L \in SUBSET Items : Loses(L)
    BY <1>6, <1>a, FlushLoses
  <2>2. /\ fl.batch = <<>> /\ fl.failed = {} /\ \A i \in fl.keys : items[i] # None
    BY <1>6, <1>a, FlushesNow
  <2>3. /\ L \subseteq fl.keys /\ known' = known \ EventsOf(L) /\ inbox' = inbox
        /\ fl'.batch = <<>> /\ fl'.failed = {} /\ Spared(L)
    BY <2>1 DEF Loses, Shrinks
  <2>4. \A e : Held(e)' <=> \E i \in Items \ L : items[i] # None /\ e \in items[i].events
    BY <1>a, <2>3, HeldAfter
  <2>5. \A e : e \in EventsOf(L) => Held(e)
    BY <2>2, <2>3, InEventsOf DEF Held
  <2>6. ASSUME NEW e, e \in EventsOf(L), Held(e)'
        PROVE  FALSE
    <3>1. PICK k \in L : e \in items[k].events
      BY <2>6, InEventsOf
    <3>2. PICK i \in Items \ L : items[i] # None /\ e \in items[i].events
      BY <2>4, <2>6
    <3>3. what[e].item = k /\ what[e].item = i
      BY <1>a, <2>2, <2>3, <3>1, <3>2 DEF Waits
    <3>. QED
      BY <3>1, <3>2, <3>3
  <2>7. \A e : Held(e) /\ e \notin EventsOf(L) => Held(e)'
    BY <2>4, InEventsOf DEF Held
  <2>8. \A e : Held(e)' => Held(e)
    BY <2>4 DEF Held
  <2>. HIDE DEF Held
  <2>. QED
    BY <1>b, <2>2, <2>3, <2>5, <2>6, <2>7, <2>8, NoElements DEF Backlog, HeldOnce
<1>7. ASSUME NEW j \in Jobs, Begin(j) \/ EndJob(j) \/ CancelJob(j) \/ HookRearm(j)
      PROVE  Backlog' /\ HeldOnce'
    BY <1>c, <1>7 DEF Begin, EndJob, CancelJob, HookRearm, memory
<1>8. ASSUME NEW j \in Jobs, HookPush(j)
      PROVE  Backlog' /\ HeldOnce'
    BY <1>a, <1>d, <1>8 DEF HookPush, TypeOK
<1>9. CASE StartLoad
  <2>1. PICK E \in SUBSET Events : Push(E)
    BY <1>9 DEF StartLoad, Unprocessed
  <2>. QED
    BY <1>d, <1>9, <2>1 DEF StartLoad
<1>10. CASE Boot \/ Disable \/ Stop \/ Tick \/ StartPrune \/ StartRearm \/ LoopPrune
    BY <1>c, <1>10 DEF Boot, Disable, Stop, Tick, StartPrune, StartRearm, LoopPrune, memory
<1>11. CASE Crash \/ Exit
  <2>1. inbox' = <<>> /\ known' = {} /\ fl' = NoFlush /\ items' = [i \in Items |-> None]
    BY <1>11 DEF Crash, Exit, Lose
  <2>2. \A e : ~Held(e)'
    BY <2>1 DEF Held
  <2>3. fl'.batch = <<>> /\ fl'.failed = {}
    BY <2>1 DEF NoFlush
  <2>. QED
    BY <2>1, <2>2, <2>3, NoElements DEF Backlog, HeldOnce
<1>12. CASE UNCHANGED vars
    BY <1>c, <1>12 DEF vars, memory
<1>. QED
    BY <1>1, <1>2, <1>3, <1>4, <1>5, <1>6, <1>7, <1>8, <1>9, <1>10, <1>11, <1>12
    DEF Next, Loop, JobSteps, Starting, Ending

\* Every step keeps what the items wait for.
LEMMA WaitsStep == Inv /\ [Next]_vars => Waits'
<1>. SUFFICES ASSUME Inv, [Next]_vars PROVE Waits'
    OBVIOUS
<1>a. TypeOK /\ Arrivals /\ Backlog /\ HeldOnce /\ Waits /\ InStep /\ RanStarted /\ Promised
    BY DEF Inv
<1>b. \A i \in Items : items[i] # None => items[i].events \subseteq Received
  <2>1. \A i \in Items : items[i] # None => items[i].events \subseteq Events
    BY <1>a DEF TypeOK, ItemType
  <2>2. \A i \in Items : items[i] # None => items[i].events \subseteq known
    BY <1>a, <2>1 DEF Backlog, Held
  <2>. QED
    BY <1>a, <2>2 DEF Arrivals, Acted, Received
<1>c. ASSUME NEW L \in SUBSET Items, Spared(L), what' = what
      PROVE  Waits'
  <2>. SUFFICES ASSUME NEW i \in Items, items'[i] # None
                PROVE  \A e \in items'[i].events :
                          /\ what'[e].item = i
                          /\ what'[e].class = "delete" => items'[i].del >= what'[e].at + DeleteDelay
                          /\ what'[e].class = "upgrade_delete" =>
                                \/ items'[i].hold >= what'[e].at + UpgradeHold
                                \/ \E d \in items'[i].events : what'[d].class = "download"
    BY DEF Waits
  <2>1. /\ items[i] # None /\ items'[i].events = items[i].events
        /\ items'[i].del = items[i].del /\ items'[i].hold = items[i].hold
    BY <1>c DEF Spared
  <2>. QED
    BY <1>a, <1>c, <2>1 DEF Waits
<1>d. ASSUME items' = items, what' = what
      PROVE  Waits'
    BY <1>a, <1>d DEF Waits
<1>1. ASSUME NEW e \in Events, Receive(e)
      PROVE  Waits'
  <2>1. items' = items /\ \A k \in Received : what'[k] = what[k]
    BY <1>a, <1>1 DEF Receive, memory, Received, TypeOK
  <2>. QED
    BY <1>a, <1>b, <2>1 DEF Waits
<1>2. CASE Add
  <2>. DEFINE e == Head(fl.batch)
  <2>1. what' = what /\ e \in Received /\ what[e] \in EventType
    BY <1>2, <1>a, FirstOfBatch DEF Add, db, Acted, Received
  <2>2. CASE AddsNothing(e)
    BY <1>d, <2>1, <2>2 DEF AddsNothing
  <2>3. ASSUME NEW i \in Items, AddsTo(i, e)
        PROVE  Waits'
    <3>. HIDE DEF e
    <3>1. /\ what[e].item = i /\ items'[i] # None
          /\ \A k \in Items \ {i} : items'[k] = items[k]
          /\ items'[i].events = {e} \cup (IF items[i] = None THEN {} ELSE items[i].events)
          /\ items[i] # None => items'[i].del >= items[i].del
          /\ items[i] # None => what[e].class = "download" \/ items'[i].hold >= items[i].hold
          /\ what[e].class = "delete" => items'[i].del >= what[e].at + DeleteDelay
          /\ what[e].class = "upgrade_delete" => items'[i].hold >= what[e].at + UpgradeHold
          /\ items'[i] \in ItemType
      BY <2>3 DEF AddsTo
    <3>2. items'[i].del \in Nat /\ items'[i].hold \in Nat
      BY <3>1 DEF ItemType
    <3>3. ASSUME NEW k \in items'[i].events
          PROVE  /\ what[k].item = i
                 /\ what[k].class = "delete" => items'[i].del >= what[k].at + DeleteDelay
                 /\ what[k].class = "upgrade_delete" =>
                       \/ items'[i].hold >= what[k].at + UpgradeHold
                       \/ \E d \in items'[i].events : what[d].class = "download"
      <4>1. CASE k = e
        BY <3>1, <4>1
      <4>2. CASE k # e
        <5>1. items[i] # None /\ k \in items[i].events
          BY <3>1, <3>3, <4>2
        <5>2. items[i] \in ItemType /\ k \in Received
          BY <1>a, <1>b, <5>1 DEF TypeOK
        <5>3. items[i].del \in Nat /\ items[i].hold \in Nat /\ what[k].at \in Nat
          BY <1>a, <5>2 DEF ItemType, TypeOK, Received, EventType
        <5>4. /\ what[k].item = i
              /\ what[k].class = "delete" => items[i].del >= what[k].at + DeleteDelay
              /\ what[k].class = "upgrade_delete" =>
                    \/ items[i].hold >= what[k].at + UpgradeHold
                    \/ \E d \in items[i].events : what[d].class = "download"
          BY <1>a, <5>1 DEF Waits
        <5>5. items[i].events \subseteq items'[i].events /\ e \in items'[i].events
          BY <3>1, <5>1
        <5>6. DeleteDelay \in Nat /\ UpgradeHold \in Nat
          BY WebhookAssumption
        <5>. QED
          BY <3>1, <3>2, <5>1, <5>3, <5>4, <5>5, <5>6
      <4>. QED
        BY <4>1, <4>2
    <3>. QED
      BY <1>a, <2>1, <3>1, <3>3 DEF Waits
  <2>. QED
    BY <1>2, <1>a, <2>2, <2>3, AddDoes
<1>3. CASE Check \/ FlushEnqueue \/ EnqueueFails \/ FlushMark \/ FlushForget
    BY <1>3, <1>a, <1>c, FlushLoses DEF Loses
<1>4. CASE Crash \/ Exit
  <2>1. items' = [i \in Items |-> None]
    BY <1>4 DEF Crash, Exit, Lose
  <2>. QED
    BY <2>1 DEF Waits
<1>5. CASE Step \/ Added \/ StartLoad \/ Boot \/ Disable \/ Stop \/ Tick \/ StartPrune \/ StartRearm \/ LoopPrune
    BY <1>d, <1>5 DEF Step, Added, StartLoad, Boot, Disable, Stop, Tick, StartPrune, StartRearm, LoopPrune, db, memory
<1>6. ASSUME NEW j \in Jobs, Begin(j) \/ EndJob(j) \/ CancelJob(j) \/ HookRearm(j) \/ HookPush(j)
      PROVE  Waits'
    BY <1>d, <1>6 DEF Begin, EndJob, CancelJob, HookRearm, HookPush, db, memory
<1>7. ASSUME NEW e \in Events, Notify(e)
      PROVE  Waits'
    BY <1>d, <1>7 DEF Notify, db
<1>8. CASE UNCHANGED vars
    BY <1>d, <1>8 DEF vars, db, memory
<1>. QED
    BY <1>1, <1>2, <1>3, <1>4, <1>5, <1>6, <1>7, <1>8 DEF Next, Loop, JobSteps, Starting, Ending

\* What the items hold has been received.
LEMMA HeldReceived ==
    ASSUME TypeOK, Arrivals, Backlog, NEW i \in Items, items[i] # None
    PROVE  items[i].events \subseteq Received /\ items[i].events \subseteq Acted
<1>1. items[i].events \subseteq Events
    BY DEF TypeOK, ItemType
<1>2. items[i].events \subseteq known
    BY <1>1 DEF Backlog, Held
<1>. QED
    BY <1>2 DEF Arrivals, Acted, Received

\* A job that is queued again, ended or cancelled is the same job.
LEMMA JobsEnd ==
    ASSUME TypeOK, NEW j \in Jobs, Begin(j) \/ EndJob(j) \/ CancelJob(j)
    PROVE  /\ job[j] # None
           /\ \A k \in Jobs : /\ job'[k] = None <=> job[k] = None
                              /\ k # j => job'[k] = job[k]
                              /\ job[k] # None => job'[k].items = job[k].items
           /\ ~Begin(j) => job'[j].started = job[j].started
<1>1. job[j] \in JobType /\ job[j] # None
    BY DEF TypeOK, Begin, EndJob, CancelJob
<1>2. PICK s \in {"running", "completed", "failed", "cancelled"}, b \in BOOLEAN :
         /\ job' = [job EXCEPT ![j] = [job[j] EXCEPT !.st = s, !.started = b]]
         /\ ~Begin(j) => b = job[j].started
  <2>1. CASE Begin(j)
    BY <2>1 DEF Begin, TypeOK
  <2>2. ASSUME NEW s \in {"completed", "failed", "cancelled"}, job' = [job EXCEPT ![j].st = s]
        PROVE  job' = [job EXCEPT ![j] = [job[j] EXCEPT !.st = s, !.started = job[j].started]]
    BY <1>1, <2>2 DEF JobType
  <2>3. job[j].started \in BOOLEAN
    BY <1>1 DEF JobType
  <2>. QED
    BY <2>1, <2>2, <2>3 DEF EndJob, CancelJob
<1>3. PICK r : r = [job[j] EXCEPT !.st = s, !.started = b]
    OBVIOUS
<1>4. r \in JobType /\ r.items = job[j].items /\ r.started = b
    BY <1>1, <1>2, <1>3 DEF JobType
<1>5. r # None
    BY <1>4, NoneAssumption
<1>6. /\ job'[j] = r /\ \A k \in Jobs \ {j} : job'[k] = job[k]
    BY <1>2, <1>3 DEF TypeOK
<1>. QED
    BY <1>1, <1>2, <1>4, <1>5, <1>6

\* After Enqueue the job it answers with is queued, has not started and covers the items.
LEMMA EnqueueCovers ==
    ASSUME TypeOK, NEW K \in SUBSET Items, NEW j \in Jobs, Enqueue(K, j)
    PROVE  /\ job'[j] # None /\ K \subseteq job'[j].items /\ job'[j].started = FALSE /\ job'[j].st = "queued"
           /\ \A k \in Jobs : /\ k # j => job'[k] = job[k]
                              /\ job[k] # None => /\ job'[k] # None /\ job[k].items \subseteq job'[k].items
                                                  /\ job'[k].started = job[k].started /\ job'[k].st = job[k].st
<1>1. ASSUME job[j] # None, job[j].st = "queued", ~job[j].started, NEW M \in SUBSET Items,
             job[j].items \cup K \subseteq M, job' = [job EXCEPT ![j].items = M]
      PROVE  /\ job'[j] # None /\ K \subseteq job'[j].items /\ job'[j].started = FALSE /\ job'[j].st = "queued"
             /\ job[j].items \subseteq job'[j].items
             /\ \A k \in Jobs \ {j} : job'[k] = job[k]
             /\ job'[j].started = job[j].started
  <2>1. job[j] \in JobType
    BY <1>1 DEF TypeOK
  <2>2. /\ job'[j] = [job[j] EXCEPT !.items = M] /\ \A k \in Jobs \ {j} : job'[k] = job[k]
    BY <1>1 DEF TypeOK
  <2>3. job'[j] \in JobType /\ job'[j].items = M /\ job'[j].started = job[j].started /\ job'[j].st = job[j].st
    BY <1>1, <2>1, <2>2 DEF JobType
  <2>4. job[j].started \in BOOLEAN
    BY <2>1 DEF JobType
  <2>. QED
    BY <1>1, <2>2, <2>3, <2>4, NoneAssumption
<1>2. CASE job[j] = None /\ job' = [job EXCEPT ![j] = [st |-> "queued", started |-> FALSE, items |-> K]]
  <2>1. /\ job'[j] = [st |-> "queued", started |-> FALSE, items |-> K]
        /\ \A k \in Jobs \ {j} : job'[k] = job[k]
    BY <1>2 DEF TypeOK
  <2>2. job'[j] \in JobType
    BY <2>1 DEF JobType
  <2>3. job'[j].items = K /\ job'[j].started = FALSE /\ job'[j].st = "queued"
    BY <2>1
  <2>4. job'[j] # None
    BY <2>2, NoneAssumption
  <2>. QED
    BY <1>2, <2>1, <2>3, <2>4
<1>3. job[j] # None => job[j].items \subseteq Items
    BY DEF TypeOK, JobType
<1>4. \/ /\ job[j] # None /\ job[j].st = "queued" /\ ~job[j].started
         /\ \E M \in SUBSET Items : job[j].items \cup K \subseteq M /\ job' = [job EXCEPT ![j].items = M]
      \/ job[j] = None /\ job' = [job EXCEPT ![j] = [st |-> "queued", started |-> FALSE, items |-> K]]
    BY <1>3 DEF Enqueue
<1>. QED
    BY <1>1, <1>2, <1>4

\* Every step of the loop keeps what it relies on.
LEMMA InStepStep == Inv /\ [Next]_vars => InStep'
<1>. SUFFICES ASSUME Inv, [Next]_vars PROVE InStep'
    OBVIOUS
<1>a. TypeOK /\ Arrivals /\ Backlog /\ HeldOnce /\ Waits /\ InStep /\ RanStarted /\ Promised
    BY DEF Inv
<1>b. /\ fl.now <= now /\ fl.now \in Nat /\ now \in Nat
      /\ fl.keys \subseteq Items
      /\ fl.failed \subseteq Received
      /\ \A i \in fl.keys : fl.at \in Flushing => items[i] # None /\ items[i].events \subseteq Received
  <2>1. fl.failed \subseteq Received
    BY <1>a DEF TypeOK, FlushType, Backlog, Arrivals, Acted, Received
  <2>2. fl.keys \subseteq Items /\ fl.now \in Nat /\ now \in Nat
    BY <1>a DEF TypeOK, FlushType
  <2>. QED
    BY <1>a, <2>1, <2>2, HeldReceived DEF InStep
<1>c. ASSUME UNCHANGED <<fl, items, job, saw>>, now' \in Nat, now <= now',
             \A e \in Received : what'[e] = what[e]
      PROVE  InStep'
  <2>1. fl.now <= now'
    BY <1>b, <1>c
  <2>2. \A e \in fl.failed : what'[e].item = 0
    BY <1>a, <1>b, <1>c DEF InStep
  <2>. QED
    BY <1>a, <1>c, <2>1, <2>2 DEF InStep
<1>1. ASSUME NEW e \in Events, Receive(e)
      PROVE  InStep'
  <2>1. UNCHANGED <<fl, items, job, saw, now>> /\ \A k \in Received : what'[k] = what[k]
    BY <1>a, <1>1 DEF Receive, memory, hist, Received, TypeOK
  <2>. QED
    BY <1>b, <1>c, <2>1
<1>2. ASSUME NEW e \in Events, Notify(e)
      PROVE  InStep'
    BY <1>b, <1>c, <1>2 DEF Notify, db, hist
<1>3. CASE Step
  <2>1. fl' = [NoFlush EXCEPT !.at = "add", !.batch = inbox, !.now = now] /\ now' = now
    BY <1>3 DEF Step
  <2>2. fl'.at = "add" /\ fl'.failed = {} /\ fl'.now = now
    BY <2>1 DEF NoFlush
  <2>. QED
    BY <1>b, <2>1, <2>2 DEF InStep, Flushing
<1>4. CASE Add
  <2>. DEFINE e == Head(fl.batch)
  <2>1. fl'.at = "add" /\ fl'.now = fl.now /\ what' = what /\ now' = now
    BY <1>4, <1>a, AddGoesOn DEF Add, db
  <2>2. \A k \in fl'.failed : what[k].item = 0
    <3>1. CASE AddsNothing(e)
      BY <1>a, <3>1 DEF AddsNothing, InStep, TypeOK, FlushType
    <3>2. ASSUME NEW i \in Items, AddsTo(i, e)
          PROVE  fl'.failed = fl.failed
      BY <1>a, <3>2 DEF AddsTo, TypeOK, FlushType
    <3>. QED
      BY <1>4, <1>a, <3>1, <3>2, AddDoes DEF InStep
  <2>. QED
    BY <1>b, <2>1, <2>2 DEF InStep, Flushing
<1>5. CASE Added
  <2>1. /\ fl' \in FlushType /\ fl'.at \in {"idle", "check"} /\ (fl'.at = "idle" => fl' = NoFlush)
        /\ fl'.batch = <<>> /\ fl'.failed = {}
        /\ fl'.at = "check" => /\ fl'.now = fl.now
                               /\ \A i \in fl'.keys : /\ items[i] # None
                                                      /\ DueAt(items[i]) <= fl.now \/ Joins(items[i], fl.now)
        /\ items' = items /\ now' = now
    BY <1>5, <1>a, AddedGoesOn DEF Added
  <2>2. ASSUME NEW i \in Items, items[i] # None, DueAt(items[i]) <= fl.now \/ Joins(items[i], fl.now)
        PROVE  items[i].del <= fl.now /\ items[i].hold <= fl.now
    <3>1. /\ items[i].due \in Nat /\ items[i].del \in Nat /\ items[i].hold \in Nat /\ items[i].retry \in Nat
      BY <1>a, <2>2 DEF TypeOK, ItemType
    <3>2. CASE Joins(items[i], fl.now)
      BY <1>b, <3>2 DEF Joins
    <3>3. CASE DueAt(items[i]) <= fl.now
      BY <1>b, <3>1, <3>3 DEF DueAt, Later
    <3>. QED
      BY <2>2, <3>2, <3>3
  <2>3. fl'.keys \subseteq Items
    BY <2>1 DEF FlushType
  <2>4. CASE fl'.at = "idle"
    BY <1>b, <2>1, <2>4 DEF InStep, Flushing, NoFlush
  <2>5. CASE fl'.at = "check"
    BY <1>b, <2>1, <2>2, <2>3, <2>5 DEF InStep, Flushing
  <2>. QED
    BY <2>1, <2>4, <2>5
\* A flush that goes on, not at a chunk, keeps the items it will flush.
<1>d. ASSUME NEW L \in SUBSET Items, Loses(L), Check \/ FlushEnqueue \/ EnqueueFails \/ FlushMark \/ FlushForget
      PROVE  /\ fl'.now <= now' /\ (fl'.at = "idle" => fl' = NoFlush)
             /\ fl'.batch = <<>> /\ fl'.failed = {}
             /\ \A i \in fl'.keys : items'[i] # None /\ items'[i].del <= fl'.now /\ items'[i].hold <= fl'.now
  <2>1. /\ \A i \in fl.keys : items[i] # None /\ items[i].del <= fl.now /\ items[i].hold <= fl.now
    BY <1>a, <1>d, FlushesNow
  <2>2. /\ fl'.at = "idle" => fl' = NoFlush
        /\ fl'.batch = <<>> /\ fl'.failed = {} /\ fl'.keys \subseteq fl.keys /\ fl'.keys \cap L = {}
        /\ fl'.at # "idle" => fl'.now = fl.now
        /\ Spared(L) /\ now' = now
    BY <1>d DEF Loses, Shrinks
  <2>3. CASE fl'.at = "idle"
    BY <1>b, <2>2, <2>3 DEF NoFlush
  <2>4. CASE fl'.at # "idle"
    <3>1. \A i \in fl'.keys : i \in Items \ L /\ i \in fl.keys
      BY <1>b, <2>2
    <3>2. \A i \in fl'.keys : items'[i] # None /\ items'[i].del = items[i].del /\ items'[i].hold = items[i].hold
      BY <2>1, <2>2, <3>1 DEF Spared
    <3>. QED
      BY <1>b, <2>1, <2>2, <2>4, <3>1, <3>2
  <2>. QED
    BY <2>3, <2>4
<1>6. CASE Check \/ EnqueueFails \/ FlushForget
  <2>1. PICK L \in SUBSET Items : Loses(L)
    BY <1>6, <1>a, FlushLoses
  <2>2. fl'.at \in {"idle", "enqueue"}
    BY <1>6, <1>a, CheckLoses, EnqueueFailsLoses, ForgetLoses
  <2>. QED
    BY <1>6, <1>d, <2>1, <2>2 DEF InStep
<1>7. CASE FlushEnqueue
  <2>1. Loses({})
    BY <1>7, <1>a, EnqueueLoses
  <2>2. PICK j \in Jobs : Enqueue(Chunk, j) /\ fl' = [fl EXCEPT !.at = "mark", !.chunk = Chunk, !.job = j]
    BY <1>7 DEF FlushEnqueue
  <2>3. Chunk \subseteq fl.keys /\ Chunk \in SUBSET Items
    BY <1>b DEF Chunk
  <2>. HIDE DEF Chunk
  <2>4. job'[j] # None /\ Chunk \subseteq job'[j].items /\ job'[j].started = FALSE
    BY <1>a, <2>2, <2>3, EnqueueCovers
  <2>5. fl'.at = "mark" /\ fl'.chunk = Chunk /\ fl'.job = j /\ fl'.keys = fl.keys
    BY <1>a, <2>2 DEF TypeOK, FlushType
  <2>. QED
    BY <1>7, <1>d, <2>1, <2>2, <2>3, <2>4, <2>5 DEF InStep
<1>8. CASE FlushMark
  <2>1. Loses({})
    BY <1>8, <1>a, MarkLoses
  <2>2. CASE fl' = [fl EXCEPT !.at = "forget"] /\ items' = items
    <3>1. /\ fl'.at = "forget" /\ fl'.keys = fl.keys /\ fl'.chunk = fl.chunk /\ fl'.job = fl.job
          /\ UNCHANGED <<job, saw, items>>
      BY <1>a, <1>8, <2>2 DEF TypeOK, FlushType, FlushMark, hist
    <3>2. /\ fl.chunk \subseteq fl.keys
          /\ fl.job \in Jobs /\ job[fl.job] # None
          /\ fl.chunk \subseteq job[fl.job].items
          /\ job[fl.job].started => \A i \in fl.chunk : items[i].events \subseteq saw[fl.job]
      BY <1>a, <1>8 DEF InStep, FlushMark
    <3>. QED
      BY <1>8, <1>d, <2>1, <3>1, <3>2 DEF InStep
  <2>3. CASE fl'.at \in {"idle", "enqueue"}
    BY <1>8, <1>d, <2>1, <2>3 DEF InStep
  <2>. QED
    BY <1>8, <1>a, <2>2, <2>3, MarkLoses
<1>9. ASSUME NEW j \in Jobs, Begin(j) \/ EndJob(j) \/ CancelJob(j)
      PROVE  InStep'
  <2>1. UNCHANGED <<fl, items, what, now>>
    BY <1>9 DEF Begin, EndJob, CancelJob, memory
  <2>2. /\ \A k \in Jobs : /\ job'[k] = None <=> job[k] = None
                           /\ k # j => job'[k] = job[k]
                           /\ job[k] # None => job'[k].items = job[k].items
        /\ ~Begin(j) => job'[j].started = job[j].started
    BY <1>a, <1>9, JobsEnd
  <2>3. /\ Begin(j) => saw' = [saw EXCEPT ![j] = Received]
        /\ ~Begin(j) => saw' = saw
    BY <1>9 DEF Begin, EndJob, CancelJob, hist
  <2>4. ASSUME fl.at \in {"mark", "forget"}
        PROVE  /\ fl.chunk \subseteq fl.keys /\ fl.job \in Jobs /\ job'[fl.job] # None
               /\ fl.chunk \subseteq job'[fl.job].items
               /\ job'[fl.job].started => \A i \in fl.chunk : items[i].events \subseteq saw'[fl.job]
    <3>1. /\ fl.chunk \subseteq fl.keys /\ fl.job \in Jobs /\ job[fl.job] # None
          /\ fl.chunk \subseteq job[fl.job].items
          /\ job[fl.job].started => \A i \in fl.chunk : items[i].events \subseteq saw[fl.job]
      BY <1>a, <2>4 DEF InStep
    <3>2. \A i \in fl.chunk : items[i].events \subseteq Received
      BY <1>b, <2>4, <3>1 DEF Flushing
    <3>3. fl.job = j /\ Begin(j) => saw'[fl.job] = Received
      BY <1>a, <2>3 DEF TypeOK
    <3>4. fl.job # j \/ ~Begin(j) => saw'[fl.job] = saw[fl.job] /\ job'[fl.job].started = job[fl.job].started
      BY <1>a, <2>2, <2>3, <3>1 DEF TypeOK
    <3>. QED
      BY <2>2, <3>1, <3>2, <3>3, <3>4
  <2>. QED
    BY <1>a, <2>1, <2>4 DEF InStep
<1>10. ASSUME NEW j \in Jobs, HookRearm(j) \/ HookPush(j)
       PROVE  InStep'
    BY <1>b, <1>c, <1>10 DEF HookRearm, HookPush, db, memory, hist
<1>11. CASE StartLoad \/ Boot \/ Disable \/ Stop \/ StartPrune \/ StartRearm \/ LoopPrune
    BY <1>b, <1>c, <1>11 DEF StartLoad, Boot, Disable, Stop, StartPrune, StartRearm, LoopPrune, db, memory, hist
<1>12. CASE Tick
    BY <1>b, <1>c, <1>12 DEF Tick, db, memory, hist
<1>13. CASE Crash \/ Exit
  <2>1. fl' = NoFlush /\ now' = now
    BY <1>13 DEF Crash, Exit, Lose
  <2>2. fl'.at = "idle" /\ fl'.now = 0 /\ fl'.failed = {}
    BY <2>1 DEF NoFlush
  <2>. QED
    BY <1>b, <2>1, <2>2 DEF InStep, Flushing
<1>14. CASE UNCHANGED vars
    BY <1>b, <1>c, <1>14 DEF vars, db, memory, hist
<1>. QED
    BY <1>1, <1>2, <1>3, <1>4, <1>5, <1>6, <1>7, <1>8, <1>9, <1>10, <1>11, <1>12, <1>13, <1>14
    DEF Next, Loop, JobSteps, Starting, Ending

\* Every step keeps what "queued" promises.
LEMMA PromisedStep == Inv /\ [Next]_vars => RanStarted' /\ Promised'
<1>. SUFFICES ASSUME Inv, [Next]_vars PROVE RanStarted' /\ Promised'
    OBVIOUS
<1>a. TypeOK /\ Arrivals /\ Backlog /\ HeldOnce /\ Waits /\ InStep /\ RanStarted /\ Promised
    BY DEF Inv
<1>b. /\ \A e \in Events : st[e] = "queued" => e \in Received
      /\ \A e \in Events : st[e] = "queued" =>
           /\ by[e] \in Jobs /\ job[by[e]] # None
           /\ what[e].item \in job[by[e]].items
           /\ job[by[e]].started => e \in saw[by[e]]
           /\ job[by[e]].st = "cancelled" => by[e] \in hookDue \/ proc \in {"down", "prune", "rearm"} \/ lapse
    BY <1>a DEF Promised, Arrivals, Acted, Received
\* No job changes, and no event is queued with another one.
<1>c. ASSUME UNCHANGED <<job, saw>>,
             \A e \in Events : st'[e] = "queued" => st[e] = "queued" /\ by'[e] = by[e] /\ what'[e] = what[e],
             hookDue \subseteq hookDue',
             proc' \in {"down", "prune", "rearm"} \/ proc' = proc, lapse' = lapse
      PROVE  RanStarted' /\ Promised'
    BY <1>a, <1>b, <1>c DEF RanStarted, Promised
<1>d. ASSUME UNCHANGED <<job, saw, st, by, what, hookDue, lapse>>,
             proc' \in {"down", "prune", "rearm"} \/ proc \notin {"down", "prune", "rearm"}
             \/ \A e \in Events : st[e] = "queued" /\ job[by[e]].st = "cancelled" => by[e] \in hookDue \/ lapse
      PROVE  RanStarted' /\ Promised'
    BY <1>a, <1>b, <1>d DEF RanStarted, Promised
<1>1. ASSUME NEW e \in Events, Receive(e)
      PROVE  RanStarted' /\ Promised'
  <2>1. /\ UNCHANGED <<job, saw, by, hookDue, proc, lapse>> /\ e \notin Received
        /\ \A k \in Events \ {e} : st'[k] = st[k] /\ what'[k] = what[k]
        /\ st'[e] # "queued"
    <3>1. UNCHANGED <<job, saw, by, hookDue, proc, lapse>> /\ e \notin Received
      BY <1>1 DEF Receive, hist
    <3>2. \A k \in Events \ {e} : st'[k] = st[k] /\ what'[k] = what[k]
      BY <1>a, <1>1 DEF Receive, TypeOK
    <3>3. st'[e] # "queued"
      <4>1. st'[e] = "unprocessed" \/ st'[e] = Classify(world.bodies[e])
        BY <1>a, <1>1 DEF Receive, TypeOK
      <4>2. Classify(world.bodies[e]) # "queued"
        BY DEF Classify
      <4>. QED
        BY <4>1, <4>2
    <3>. QED
      BY <3>1, <3>2, <3>3
  <2>. QED
    BY <1>c, <2>1
<1>2. ASSUME NEW e \in Events, Notify(e)
      PROVE  RanStarted' /\ Promised'
    BY <1>c, <1>2 DEF Notify, db, hist
<1>3. CASE Step \/ Add \/ FlushForget \/ Disable \/ Tick
    BY <1>c, <1>3 DEF Step, Add, FlushForget, Disable, Tick, db, handover, hist
<1>4. CASE Added \/ Check \/ EnqueueFails
  <2>1. UNCHANGED <<job, saw, by, what, hookDue, proc, lapse>>
    BY <1>4 DEF Added, Check, EnqueueFails, handover, hist
  <2>2. st' = st \/ \E E : st' = [e \in Events |-> IF e \in E /\ st[e] = "unprocessed" THEN "failed" ELSE st[e]]
    BY <1>4 DEF Added, Check, EnqueueFails, MarkFailed
  <2>3. \A e \in Events : st'[e] = "queued" => st[e] = "queued"
    BY <2>2
  <2>. QED
    BY <1>c, <2>1, <2>3
<1>5. CASE FlushEnqueue
  <2>1. UNCHANGED <<saw, st, by, what, hookDue, proc, lapse>>
    BY <1>5 DEF FlushEnqueue, handover, hist
  <2>2. PICK j \in Jobs : Enqueue(Chunk, j)
    BY <1>5 DEF FlushEnqueue
  <2>3. Chunk \in SUBSET Items
    BY <1>a DEF Chunk, TypeOK, FlushType
  <2>4. /\ job'[j] # None /\ job'[j].started = FALSE /\ job'[j].st = "queued"
        /\ \A k \in Jobs : /\ k # j => job'[k] = job[k]
                           /\ job[k] # None => /\ job'[k] # None /\ job[k].items \subseteq job'[k].items
                                               /\ job'[k].started = job[k].started /\ job'[k].st = job[k].st
    <3>. HIDE DEF Chunk
    <3>. QED
      BY <1>a, <2>2, <2>3, EnqueueCovers
  <2>5. RanStarted'
    BY <1>a, <2>4 DEF RanStarted
  <2>6. Promised'
    BY <1>b, <2>1, <2>4 DEF Promised
  <2>. QED
    BY <2>5, <2>6
<1>6. CASE FlushMark
  <2>1. UNCHANGED <<job, saw, what, hookDue, proc, lapse>>
    BY <1>6 DEF FlushMark, handover, hist
  <2>2. CASE UNCHANGED <<st, by>>
    BY <1>c, <2>1, <2>2
  <2>3. CASE /\ Markable(fl.job)
             /\ \E E \in SUBSET EventsOf(fl.chunk) :
                   /\ st' = [e \in Events |-> IF e \in E THEN "queued" ELSE st[e]]
                   /\ by' = [e \in Events |-> IF e \in E THEN fl.job ELSE by[e]]
    <3>1. PICK E \in SUBSET EventsOf(fl.chunk) :
             /\ st' = [e \in Events |-> IF e \in E THEN "queued" ELSE st[e]]
             /\ by' = [e \in Events |-> IF e \in E THEN fl.job ELSE by[e]]
      BY <2>3
    <3>2. /\ fl.chunk \subseteq fl.keys /\ fl.keys \subseteq Items /\ fl.job \in Jobs /\ job[fl.job] # None
          /\ fl.chunk \subseteq job[fl.job].items
          /\ job[fl.job].started => \A i \in fl.chunk : items[i].events \subseteq saw[fl.job]
          /\ \A i \in fl.keys : items[i] # None
      BY <1>a, <1>6 DEF InStep, FlushMark, Flushing, TypeOK, FlushType
    <3>3. job[fl.job].st # "cancelled"
      BY <2>3 DEF Markable
    <3>4. ASSUME NEW e \in E
          PROVE  /\ what[e].item \in job[fl.job].items
                 /\ job[fl.job].started => e \in saw[fl.job]
      <4>1. PICK i \in fl.chunk : e \in items[i].events
        BY <3>1, <3>4, InEventsOf
      <4>2. what[e].item = i
        BY <1>a, <3>2, <4>1 DEF Waits
      <4>. QED
        BY <3>2, <4>1, <4>2
    <3>5. \A e \in Events : st'[e] = "queued" =>
             (e \in E /\ by'[e] = fl.job) \/ (st[e] = "queued" /\ by'[e] = by[e])
      BY <3>1
    <3>6. Promised'
      BY <1>b, <2>1, <3>2, <3>3, <3>4, <3>5 DEF Promised
    <3>. QED
      BY <1>a, <2>1, <3>6 DEF RanStarted
  <2>. QED
    BY <1>6, <2>2, <2>3 DEF FlushMark
<1>7. ASSUME NEW j \in Jobs, Begin(j) \/ EndJob(j) \/ CancelJob(j)
      PROVE  RanStarted' /\ Promised'
  <2>1. UNCHANGED <<st, by, what, proc, lapse>> /\ hookDue \subseteq hookDue'
    BY <1>7 DEF Begin, EndJob, CancelJob, hist, handover
  <2>2. /\ job[j] # None
        /\ \A k \in Jobs : /\ job'[k] = None <=> job[k] = None
                           /\ k # j => job'[k] = job[k]
                           /\ job[k] # None => job'[k].items = job[k].items
        /\ ~Begin(j) => job'[j].started = job[j].started
    BY <1>a, <1>7, JobsEnd
  <2>3. /\ Begin(j) => saw' = [saw EXCEPT ![j] = Received]
        /\ ~Begin(j) => saw' = saw
    BY <1>7 DEF Begin, EndJob, CancelJob, hist
  <2>4. job[j] \in JobType
    BY <1>a, <2>2 DEF TypeOK
  <2>5. /\ Begin(j) => job'[j].started = TRUE /\ job'[j].st = "running"
        /\ EndJob(j) => job[j].st = "running" /\ job'[j].st \in {"completed", "failed"}
        /\ CancelJob(j) => job'[j].st = "cancelled" /\ j \in hookDue'
    BY <1>a, <2>4 DEF Begin, EndJob, CancelJob, TypeOK, JobType
  <2>6. RanStarted'
    <3>1. job'[j].st \in {"running", "completed", "failed"} => job'[j].started
      BY <1>7, <1>a, <2>2, <2>5 DEF RanStarted
    <3>. QED
      BY <1>a, <2>2, <3>1 DEF RanStarted
  <2>7. \A e \in Received : saw'[j] = saw[j] \/ e \in saw'[j]
    BY <1>a, <2>3 DEF TypeOK
  <2>8. \A k \in Jobs \ {j} : saw'[k] = saw[k]
    BY <1>a, <2>3 DEF TypeOK
  <2>9. ASSUME NEW e \in Events, st[e] = "queued"
        PROVE  /\ by[e] \in Jobs /\ job'[by[e]] # None
               /\ what[e].item \in job'[by[e]].items
               /\ job'[by[e]].started => e \in saw'[by[e]]
               /\ job'[by[e]].st = "cancelled" => by[e] \in hookDue' \/ proc \in {"down", "prune", "rearm"} \/ lapse
    <3>1. by[e] \in Jobs /\ job'[by[e]] # None /\ what[e].item \in job'[by[e]].items
      BY <1>b, <2>2, <2>9
    <3>2. job'[by[e]].started => e \in saw'[by[e]]
      <4>1. CASE by[e] = j /\ Begin(j)
        BY <1>a, <1>b, <2>3, <2>9, <4>1 DEF TypeOK
      <4>2. CASE by[e] # j \/ ~Begin(j)
        BY <1>a, <1>b, <2>2, <2>3, <2>9, <4>2 DEF TypeOK
      <4>. QED
        BY <4>1, <4>2
    <3>3. job'[by[e]].st = "cancelled" => by[e] \in hookDue' \/ proc \in {"down", "prune", "rearm"} \/ lapse
      <4>1. CASE by[e] = j
        BY <1>7, <2>5, <4>1
      <4>2. CASE by[e] # j
        BY <1>b, <2>1, <2>2, <2>9, <4>2
      <4>. QED
        BY <4>1, <4>2
    <3>. QED
      BY <3>1, <3>2, <3>3
  <2>. QED
    BY <2>1, <2>6, <2>9 DEF Promised
<1>8. ASSUME NEW j \in Jobs, HookRearm(j)
      PROVE  RanStarted' /\ Promised'
  <2>1. UNCHANGED <<job, saw, what, proc>> /\ hookDue' = hookDue \ {j}
    BY <1>8 DEF HookRearm
  <2>2. CASE Unmark(Carries(j)) /\ lapse' = lapse
    <3>1. \A e \in Events : st'[e] = "queued" => st[e] = "queued" /\ by'[e] = by[e] /\ by[e] # j
      BY <2>2 DEF Unmark, Carries
    <3>2. Promised'
      BY <1>b, <2>1, <2>2, <3>1 DEF Promised
    <3>. QED
      BY <1>a, <2>1, <3>2 DEF RanStarted
  <2>3. CASE lapse' = TRUE /\ UNCHANGED <<st, by>>
    BY <1>a, <1>b, <2>1, <2>3 DEF Promised, RanStarted
  <2>. QED
    BY <1>8, <2>2, <2>3 DEF HookRearm
<1>9. ASSUME NEW j \in Jobs, HookPush(j)
      PROVE  RanStarted' /\ Promised'
    BY <1>c, <1>9 DEF HookPush, db, hist
<1>10. CASE Boot
    BY <1>c, <1>10 DEF Boot, db, hist, handover
<1>11. CASE StartPrune \/ LoopPrune
  <2>1. /\ UNCHANGED <<job, saw, by, what, hookDue, lapse>> /\ (st' = st \/ st' = Pruned)
        /\ proc' \in {"down", "prune", "rearm"} \/ proc' = proc
    BY <1>11 DEF StartPrune, LoopPrune, hist, handover
  <2>2. \A e \in Events : st'[e] = "queued" => st[e] = "queued"
    BY <2>1 DEF Pruned
  <2>. QED
    BY <1>c, <2>1, <2>2
<1>12. CASE StartRearm
  <2>1. UNCHANGED <<job, saw, what, hookDue>>
    BY <1>12 DEF StartRearm, handover
  <2>. DEFINE C == {i \in Jobs : job[i] # None /\ job[i].st = "cancelled"}
  <2>2. CASE Unmark(UNION {Carries(j) : j \in C}) /\ lapse' = FALSE
    <3>1. \A e \in Events : st'[e] = "queued" =>
             st[e] = "queued" /\ by'[e] = by[e] /\ e \notin UNION {Carries(j) : j \in C}
      <4>. HIDE DEF C
      <4>. QED
        BY <2>2 DEF Unmark
    <3>2. ASSUME NEW e \in Events, st'[e] = "queued"
          PROVE  job[by[e]].st # "cancelled"
      <4>2. e \in Carries(by[e])
        BY <3>1, <3>2 DEF Carries
      <4>3. by[e] \notin C
        BY <3>1, <3>2, <4>2
      <4>. QED
        BY <1>b, <3>1, <3>2, <4>3
    <3>3. Promised'
      BY <1>b, <2>1, <3>1, <3>2 DEF Promised
    <3>. QED
      BY <1>a, <2>1, <3>3 DEF RanStarted
  <2>3. CASE lapse' = TRUE /\ UNCHANGED <<st, by>>
    BY <1>a, <1>b, <2>1, <2>3 DEF Promised, RanStarted
  <2>. QED
    BY <1>12, <2>2, <2>3 DEF StartRearm
<1>13. CASE StartLoad \/ Stop
    BY <1>d, <1>13 DEF StartLoad, Stop, db, handover, hist
<1>14. CASE Crash \/ Exit
  <2>1. /\ UNCHANGED <<saw, st, by, what, lapse>> /\ proc' = "down"
        /\ job' = [j \in Jobs |-> IF job[j] # None /\ job[j].st = "running" THEN [job[j] EXCEPT !.st = "queued"] ELSE job[j]]
    BY <1>14 DEF Crash, Exit, Lose, hist
  <2>2. ASSUME NEW j \in Jobs
        PROVE  /\ job'[j] = None <=> job[j] = None
               /\ job[j] # None => /\ job'[j].items = job[j].items /\ job'[j].started = job[j].started
                                   /\ job'[j].st \in {job[j].st, "queued"}
    <3>1. CASE job[j] # None /\ job[j].st = "running"
      <4>1. job[j] \in JobType
        BY <1>a, <3>1 DEF TypeOK
      <4>2. job'[j] = [job[j] EXCEPT !.st = "queued"]
        BY <2>1, <3>1
      <4>3. job'[j] \in JobType /\ job'[j].items = job[j].items /\ job'[j].started = job[j].started /\ job'[j].st = "queued"
        BY <4>1, <4>2 DEF JobType
      <4>. QED
        BY <3>1, <4>3, NoneAssumption
    <3>2. CASE ~(job[j] # None /\ job[j].st = "running")
      BY <2>1, <3>2
    <3>. QED
      BY <3>1, <3>2
  <2>3. RanStarted'
    BY <1>a, <2>2 DEF RanStarted
  <2>4. Promised'
    BY <1>b, <2>1, <2>2 DEF Promised
  <2>. QED
    BY <2>3, <2>4
<1>15. CASE UNCHANGED vars
    BY <1>c, <1>15 DEF vars, db, handover, hist
<1>. QED
    BY <1>1, <1>2, <1>3, <1>4, <1>5, <1>6, <1>7, <1>8, <1>9, <1>10, <1>11, <1>12, <1>13, <1>14, <1>15
    DEF Next, Loop, JobSteps, Starting, Ending

-----------------------------------------------------------------------------
(* The theorems.                                                           *)

\* The processor starts with nothing to do.
LEMMA InitInv == Init => Inv
<1>. SUFFICES ASSUME Init PROVE Inv
    OBVIOUS
<1>1. fl \in FlushType /\ fl = NoFlush /\ fl.at = "idle" /\ fl.batch = <<>> /\ fl.failed = {} /\ fl.now = 0
    BY DEF Init, NoFlush, FlushType, Points
<1>2. TypeOK
  <2>1. /\ now \in Nat /\ what \in [Events -> EventType \cup {None}] /\ by \in [Events -> Nat]
        /\ st \in [Events -> {"absent", "unprocessed", "queued", "failed", "test", "ignored"}]
    BY DEF Init
  <2>2. /\ job \in [Jobs -> JobType \cup {None}] /\ items \in [Items -> ItemType \cup {None}]
        /\ pushing \in [Jobs -> SUBSET Events] /\ saw \in [Jobs -> SUBSET Events]
    BY DEF Init
  <2>3. /\ inbox \in Seq(Events) /\ known \subseteq Events /\ told \subseteq Events /\ hookDue \subseteq Jobs
    <3>1. inbox = <<>> /\ known = {} /\ told = {} /\ hookDue = {}
      BY DEF Init
    <3>. QED
      BY <3>1
  <2>5. lapse \in BOOLEAN
    BY Zenon DEF Init
  <2>4. world \in WorldType
    BY WorldAssumption DEF Init
  <2>. QED
    BY <1>1, <2>1, <2>2, <2>3, <2>4, <2>5 DEF TypeOK
<1>3. Arrivals
    BY DEF Init, Arrivals, Received, Acted
<1>4. \A e : ~Held(e)
    BY DEF Init, Held
<1>5. Backlog /\ HeldOnce
    BY <1>1, <1>4, NoElements DEF Init, Backlog, HeldOnce
<1>6. Waits /\ RanStarted /\ Promised
    BY DEF Init, Waits, RanStarted, Promised
<1>7. InStep
    BY <1>1 DEF Init, InStep, Flushing
<1>. QED
    BY <1>2, <1>3, <1>5, <1>6, <1>7 DEF Inv

\* The inductive invariant holds in every behaviour of the intake, the processor, its hooks and the jobs.
THEOREM WebhookInvariant == Spec => []Inv
<1>1. Inv /\ [Next]_vars => Inv'
    BY TypeStep, ArrivalsStep, BacklogStep, WaitsStep, InStepStep, PromisedStep DEF Inv
<1>. QED
    BY <1>1, InitInv, PTL DEF Spec

\* The invariant is what EventsKept says, and why.
LEMMA InvKeepsEvents == Inv => EventsKept
<1>. SUFFICES ASSUME Inv PROVE Carried /\ BacklogExact
    BY DEF EventsKept
<1>a. TypeOK /\ Backlog /\ RanStarted /\ Promised
    BY DEF Inv
<1>1. Carried
  <2>. SUFFICES ASSUME NEW e \in Events, st[e] = "queued"
                PROVE  /\ what[e].item \in job[by[e]].items
                       /\ job[by[e]].st = "completed" => e \in saw[by[e]]
                       /\ job[by[e]].st = "cancelled" => by[e] \in hookDue \/ proc \in {"down", "prune", "rearm"} \/ lapse
    BY DEF Carried
  <2>1. /\ by[e] \in Jobs /\ job[by[e]] # None
        /\ what[e].item \in job[by[e]].items
        /\ job[by[e]].started => e \in saw[by[e]]
        /\ job[by[e]].st = "cancelled" => by[e] \in hookDue \/ proc \in {"down", "prune", "rearm"} \/ lapse
    BY <1>a DEF Promised
  <2>2. job[by[e]].st = "completed" => job[by[e]].started
    BY <1>a, <2>1 DEF RanStarted
  <2>. QED
    BY <2>1, <2>2
<1>2. BacklogExact
  <2>. DEFINE H == {i \in Items : items[i] # None}
  <2>1. \A e : e \in EventsOf(H) <=> Held(e)
    BY InEventsOf DEF Held
  <2>2. /\ known \subseteq Events /\ ToSet(inbox) \subseteq Events /\ ToSet(fl.batch) \subseteq Events
        /\ fl.failed \subseteq Events
    BY <1>a DEF TypeOK, FlushType, ToSet
  <2>3. \A e : Held(e) => e \in Events
    BY <1>a DEF TypeOK, ItemType, Held
  <2>4. \A e \in Events : e \in known <=> e \in ToSet(inbox) \/ e \in ToSet(fl.batch) \/ e \in fl.failed \/ Held(e)
    BY <1>a DEF Backlog
  <2>. HIDE DEF H
  <2>5. known = ToSet(inbox) \cup ToSet(fl.batch) \cup fl.failed \cup EventsOf(H)
    BY <2>1, <2>2, <2>3, <2>4
  <2>. QED
    BY <2>5 DEF BacklogExact, H
<1>. QED
    BY <1>1, <1>2

\* No event is lost on its way (processor.go, store.go): whatever the interleaving of the intake, the loop,
\* the jobs and the hooks of cancelled ones, and whenever the process ends, an event marked as queued is
\* carried by a refresh that covers it and reads the *arr after it came, or is about to be re-armed; and
\* the backlog is exactly what the loop still has to do.
THEOREM NoEventLost == Spec => []EventsKept
BY WebhookInvariant, InvKeepsEvents, PTL

\* No refresh is queued for an item before the delay of a delete, or the hold of an upgrade's delete, has
\* passed or its Download came (processor.go: add, joins, flush): not by joining another item's flush, nor
\* after a restart, a retry or a re-arm.
THEOREM DelaysAlwaysRespected == Spec => DelaysRespected
<1>. DEFINE Respected ==
         fl.at = "enqueue" /\ fl'.at = "mark" =>
           \A e \in EventsOf(fl'.chunk) :
              /\ what[e].class = "delete" => now >= what[e].at + DeleteDelay
              /\ what[e].class = "upgrade_delete" =>
                    \/ now >= what[e].at + UpgradeHold
                    \/ \E d \in EventsOf(fl'.chunk) : what[d].item = what[e].item /\ what[d].class = "download"
<1>1. Inv /\ [Next]_vars => [Respected]_vars
  <2>. SUFFICES ASSUME Inv, [Next]_vars, fl.at = "enqueue", fl'.at = "mark", NEW e \in EventsOf(fl'.chunk)
                PROVE  /\ what[e].class = "delete" => now >= what[e].at + DeleteDelay
                       /\ what[e].class = "upgrade_delete" =>
                             \/ now >= what[e].at + UpgradeHold
                             \/ \E d \in EventsOf(fl'.chunk) : what[d].item = what[e].item /\ what[d].class = "download"
    OBVIOUS
  <2>a. TypeOK /\ Arrivals /\ Backlog /\ Waits /\ InStep
    BY DEF Inv
  <2>b. Inv'
    BY TypeStep, ArrivalsStep, BacklogStep, WaitsStep, InStepStep, PromisedStep DEF Inv
  <2>1. FlushEnqueue
    <3>1. fl' # fl
      OBVIOUS
    <3>2. ~(Check \/ EnqueueFails \/ FlushMark \/ FlushForget)
      BY <2>a, EnqueueFailsLoses DEF Check, FlushMark, FlushForget
    <3>3. ~(Step \/ Add \/ Added \/ Crash \/ Exit)
      BY DEF Step, Add, Added, Crash, Exit, Lose, NoFlush
    <3>4. \A k \in Events : ~Receive(k) /\ ~Notify(k)
      BY <3>1 DEF Receive, Notify
    <3>5. \A j \in Jobs : ~Begin(j) /\ ~EndJob(j) /\ ~CancelJob(j) /\ ~HookRearm(j) /\ ~HookPush(j)
      BY <3>1 DEF Begin, EndJob, CancelJob, HookRearm, HookPush
    <3>6. ~(Boot \/ StartPrune \/ StartRearm \/ StartLoad \/ LoopPrune \/ Stop \/ Disable \/ Tick)
      BY <3>1 DEF Boot, StartPrune, StartRearm, StartLoad, LoopPrune, Stop, Disable, Tick
    <3>7. ~UNCHANGED vars
      BY <3>1 DEF vars
    <3>. QED
      BY <3>2, <3>3, <3>4, <3>5, <3>6, <3>7 DEF Next, Loop, JobSteps, Starting, Ending
  <2>2. items' = items /\ what' = what /\ fl'.chunk \subseteq fl.keys
    <3>1. items' = items /\ what' = what /\ Loses({})
      BY <2>1, <2>a, EnqueueLoses DEF FlushEnqueue, memory
    <3>2. fl'.chunk \subseteq fl'.keys
      BY <2>b DEF Inv, InStep
    <3>. QED
      BY <3>1, <3>2 DEF Loses, Shrinks
  <2>3. PICK i \in fl'.chunk : e \in items[i].events
    BY InEventsOf
  <2>4. /\ i \in Items /\ items[i] # None /\ items[i].del <= fl.now /\ items[i].hold <= fl.now /\ fl.now <= now
    BY <2>a, <2>2, <2>3 DEF InStep, Flushing, TypeOK, FlushType
  <2>5. /\ items[i].del \in Nat /\ items[i].hold \in Nat /\ fl.now \in Nat /\ now \in Nat
    BY <2>a, <2>4 DEF TypeOK, FlushType, ItemType
  <2>6. e \in Received /\ what[e] \in EventType /\ what[e].at \in Nat
    <3>1. e \in Received
      BY <2>a, <2>3, <2>4, HeldReceived
    <3>. QED
      BY <2>a, <3>1 DEF Received, TypeOK, EventType
  <2>7. /\ what[e].item = i
        /\ what[e].class = "delete" => items[i].del >= what[e].at + DeleteDelay
        /\ what[e].class = "upgrade_delete" =>
              \/ items[i].hold >= what[e].at + UpgradeHold
              \/ \E d \in items[i].events : what[d].class = "download"
    BY <2>a, <2>3, <2>4 DEF Waits
  <2>8. \A d \in items[i].events : d \in EventsOf(fl'.chunk) /\ what[d].item = i
    BY <2>a, <2>3, <2>4, InEventsOf DEF Waits
  <2>9. DeleteDelay \in Nat /\ UpgradeHold \in Nat
    BY WebhookAssumption
  <2>. QED
    BY <2>4, <2>5, <2>6, <2>7, <2>8, <2>9
<1>. QED
    BY <1>1, WebhookInvariant, PTL DEF Spec, DelaysRespected
=============================================================================
