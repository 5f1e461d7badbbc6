--------------------------- MODULE SyncRunsProofs ---------------------------
(***************************************************************************)
(* Proofs about SyncRuns: a release takes only what its user confirmed,    *)
(* and a sync keeps its promises about upgrades, space, expected files and *)
(* the change guard.                                                       *)
(***************************************************************************)
EXTENDS SyncRuns, FiniteSetTheorems, TLAPS

JobShape ==
    job = [kind |-> job.kind, allow |-> job.allow, st |-> job.st, attempt |-> job.attempt, planned |-> job.planned,
           items |-> job.items, live |-> job.live, of |-> job.of]
RunShape ==
    run = [at |-> run.at, linked |-> run.linked, waits |-> run.waits, rev |-> run.rev, nonfull |-> run.nonfull,
           cur |-> run.cur, ed |-> run.ed, warns |-> run.warns, allowed |-> run.allowed, want |-> run.want,
           dec |-> run.dec]
HistShape == hist = [released |-> hist.released, uncovered |-> hist.uncovered, starved |-> hist.starved,
                    steady |-> hist.steady]
ItemShape(i) ==
    i = [n |-> i.n, act |-> i.act, v |-> i.v, old |-> i.old, prim |-> i.prim, unknown |-> i.unknown, rev |-> i.rev,
         st |-> i.st]
ClockShape == clock = [now |-> clock.now, since |-> clock.since]
Shapes == JobShape /\ RunShape /\ HistShape

\* A release that is planned is of a record the preview showed, under the preview's revision.
Confirmed(i, of) == i.act = "release" => <<i.n, i.v>> \in of.recs /\ i.rev = of.rev
ItemsConfirmed == \A i \in job.items : ItemShape(i) /\ i.n \in Names /\ (~Preview => Confirmed(i, job.of))
AllowedShown == run.allowed \subseteq job.of.recs
\* A preview runs no item.
OnlyShows == Preview => run.at \notin {"space", "hold", "links", "items"}

\* A file that is full, though the decisions a release has read say skip, is so since they were read.
DecisionsOk(dec) ==
    /\ dec.at \in Nat /\ dec.at <= clock.now
    /\ \A n \in Names : dec.tier[n] = "skip" /\ Full(n) => clock.since[n] >= dec.at
TimesOk ==
    /\ ClockShape /\ clock.now \in Nat /\ clock.since \in [Names -> Nat] /\ CacheAge \in Nat
    /\ rules = [rev |-> rules.rev, tier |-> rules.tier] /\ DOMAIN rules.tier = Names
    /\ run.dec # None => DecisionsOk(run.dec)

ReleaseInv == Shapes /\ ItemsConfirmed /\ AllowedShown /\ OnlyShows /\ TimesOk /\ OnlyConfirmed

\* An item whose state changes stays what it is.
LEMMA Restated ==
    ASSUME NEW i, ItemShape(i), NEW st
    PROVE  /\ ItemShape([i EXCEPT !.st = st]) /\ [i EXCEPT !.st = st].n = i.n
           /\ \A of : Confirmed(i, of) => Confirmed([i EXCEPT !.st = st], of)
<1>. DEFINE j == [i EXCEPT !.st = st]
<1>1. j = [n |-> i.n, act |-> i.act, v |-> i.v, old |-> i.old, prim |-> i.prim, unknown |-> i.unknown, rev |-> i.rev,
          st |-> st]
    BY DEF ItemShape
<1>. QED
    BY <1>1 DEF ItemShape, Confirmed

\* The parts of the run and the job that a step which only goes on leaves alone.
LEMMA GoEffect ==
    ASSUME RunShape, NEW p, Go(p)
    PROVE  RunShape' /\ run'.at = p /\ run'.allowed = run.allowed /\ run'.dec = run.dec
BY DEF RunShape, Go

\* The items of a job that only ends one of them.
LEMMA EndsEffect ==
    ASSUME JobShape, ItemsConfirmed, NEW i \in job.items, NEW st,
           job' = [job EXCEPT !.items = (@ \ {i}) \cup {[i EXCEPT !.st = st]}]
    PROVE  JobShape' /\ ItemsConfirmed' /\ job'.kind = job.kind /\ job'.of = job.of
<1>1. JobShape' /\ job'.kind = job.kind /\ job'.of = job.of /\ job'.items = (job.items \ {i}) \cup {[i EXCEPT !.st = st]}
    BY DEF JobShape
<1>2. ItemShape([i EXCEPT !.st = st]) /\ [i EXCEPT !.st = st].n \in Names /\ (~Preview => Confirmed([i EXCEPT !.st = st], job.of))
    BY Restated DEF ItemsConfirmed
<1>. QED
    BY <1>1, <1>2 DEF ItemsConfirmed, Preview

\* Every planned item is one of a kind, and a release is one the preview showed.
LEMMA PlannedEffect ==
    ASSUME AllowedShown, NEW i \in Planned
    PROVE  ItemShape(i) /\ i.n \in Names /\ (~Preview => Confirmed(i, job.of))
<1>1. \A n, act, v, prim : LET k == Item(n, act, v, prim) IN
          ItemShape(k) /\ k.n = n /\ k.act = act /\ k.v = v /\ k.rev = rules.rev
    BY DEF Item, ItemShape
<1>2. CASE i \in Content
    BY <1>1, <1>2 DEF Content, Confirmed, Scope
<1>3. CASE \E n \in Vanished : i = Item(n, "retain", dest.live[n], n)
    BY <1>1, <1>3 DEF Confirmed, Vanished, Scope
<1>4. CASE \E n \in Released : i = Item(n, "release", dest.live[n], n)
  <2>1. PICK n \in Released : i = Item(n, "release", dest.live[n], n)
    BY <1>4
  <2>2. ~Preview => <<n, dest.live[n]>> \in job.of.recs /\ rules.rev = job.of.rev
    BY <2>1 DEF Released, MayRelease, AllowedShown
  <2>3. ItemShape(i) /\ i.n = n /\ n \in Names /\ i.v = dest.live[n] /\ i.rev = rules.rev
    BY <1>1, <2>1 DEF Released, Scope
  <2>. QED
    BY <2>2, <2>3 DEF Confirmed
<1>. QED
    BY <1>2, <1>3, <1>4 DEF Planned

\* The guard holds items, it does not change what they do.
LEMMA GuardedEffect ==
    ASSUME AllowedShown, NEW j \in Guarded(Planned, Live)
    PROVE  ItemShape(j) /\ j.n \in Names /\ (~Preview => Confirmed(j, job.of))
<1>1. j \in Planned \/ \E i \in Planned : j = [i EXCEPT !.st = "held"]
    BY DEF Guarded
<1>2. CASE j \in Planned
    BY <1>2, PlannedEffect
<1>3. CASE \E i \in Planned : j = [i EXCEPT !.st = "held"]
  <2>1. PICK i \in Planned : j = [i EXCEPT !.st = "held"]
    BY <1>3
  <2>2. ItemShape(i) /\ i.n \in Names /\ (~Preview => Confirmed(i, job.of))
    BY <2>1, PlannedEffect
  <2>. QED
    BY <2>1, <2>2, Restated
<1>. QED
    BY <1>1, <1>2, <1>3

\* The decisions of a release stay those it has read, or are dropped.
LEMMA TimesKept ==
    ASSUME TimesOk, UNCHANGED <<rules, clock>>, run'.dec = run.dec \/ run'.dec = None
    PROVE  TimesOk'
<1>1. \A n : Full(n)' = Full(n)
    BY DEF Full
<1>2. \A dec : DecisionsOk(dec)' = DecisionsOk(dec)
    BY <1>1 DEF DecisionsOk
<1>. QED
    BY <1>2 DEF TimesOk, ClockShape

\* A tier changes: a file that becomes full is so since now.
LEMMA TierChanges ==
    ASSUME TimesOk, UNCHANGED run, NEW n \in Names, NEW t, clock' = Since(n, t),
           rules' = [rules EXCEPT !.tier[n] = t] \/ rules' = [rules EXCEPT !.rev = @ + 1, !.tier[n] = t]
    PROVE  TimesOk'
<1>0. /\ clock = [now |-> clock.now, since |-> clock.since] /\ clock.now \in Nat /\ clock.since \in [Names -> Nat]
      /\ rules = [rev |-> rules.rev, tier |-> rules.tier] /\ DOMAIN rules.tier = Names
    BY DEF TimesOk, ClockShape
<1>1. /\ rules' = [rev |-> rules'.rev, tier |-> rules'.tier] /\ DOMAIN rules'.tier = Names
      /\ rules'.tier[n] = t /\ \A m \in Names : m # n => rules'.tier[m] = rules.tier[m]
    BY <1>0
<1>2. /\ ClockShape' /\ clock'.now = clock.now /\ clock'.since \in [Names -> Nat]
      /\ \A m \in Names : m # n => clock'.since[m] = clock.since[m]
      /\ IF ~Full(n) /\ t # "skip" THEN clock'.since[n] = clock.now ELSE clock'.since[n] = clock.since[n]
    BY <1>0 DEF Since, ClockShape
<1>3. ASSUME NEW dec, DecisionsOk(dec)
      PROVE  DecisionsOk(dec)'
  <2>1. ASSUME NEW m \in Names, dec.tier[m] = "skip", Full(m)'
        PROVE  clock'.since[m] >= dec.at
    <3>1. CASE m # n
      <4>1. Full(m)
        BY <1>1, <2>1, <3>1 DEF Full
      <4>. QED
        BY <1>2, <1>3, <2>1, <3>1, <4>1 DEF DecisionsOk
    <3>2. CASE m = n /\ Full(n)
      BY <1>2, <1>3, <2>1, <3>2 DEF DecisionsOk
    <3>3. CASE m = n /\ ~Full(n)
      <4>1. t # "skip"
        BY <1>1, <2>1, <3>3 DEF Full
      <4>2. clock'.since[m] = clock.now /\ dec.at \in Nat /\ dec.at <= clock.now
        BY <1>2, <1>3, <3>3, <4>1 DEF DecisionsOk
      <4>. QED
        BY <1>0, <4>2
    <3>. QED
      BY <3>1, <3>2, <3>3
  <2>. QED
    BY <1>2, <1>3, <2>1 DEF DecisionsOk
<1>. QED
    BY <1>0, <1>1, <1>2, <1>3 DEF TimesOk

LEMMA TickKept ==
    ASSUME TimesOk, UNCHANGED <<run, rules>>, clock' = [clock EXCEPT !.now = @ + 1]
    PROVE  TimesOk'
<1>1. ClockShape' /\ clock'.now = clock.now + 1 /\ clock'.since = clock.since /\ clock.now \in Nat
    BY DEF TimesOk, ClockShape
<1>2. \A n : Full(n)' = Full(n)
    BY DEF Full
<1>3. \A dec : DecisionsOk(dec) => DecisionsOk(dec)'
    BY <1>1, <1>2 DEF DecisionsOk
<1>. QED
    BY <1>1, <1>3 DEF TimesOk

\* The decisions a release goes by are young enough, and right but for what changed since.
LEMMA DecisionsYoung ==
    ASSUME TimesOk
    PROVE  /\ DecisionsOk(ExecDecisions) /\ clock.now - ExecDecisions.at <= CacheAge
           /\ clock.now \in Nat /\ CacheAge \in Nat /\ clock.since \in [Names -> Nat]
<1>0. clock.now \in Nat /\ CacheAge \in Nat /\ clock.since \in [Names -> Nat]
    BY DEF TimesOk
<1>1. DecisionsOk(Decisions) /\ Decisions.at = clock.now
  <2>1. \A n \in Names : Decisions.tier[n] = "skip" => ~Full(n)
    BY DEF Decisions, Full
  <2>2. Decisions.at = clock.now
    BY DEF Decisions
  <2>. QED
    BY <1>0, <2>1, <2>2 DEF DecisionsOk
<1>2. CASE ExecDecisions = Decisions
    BY <1>0, <1>1, <1>2
<1>3. CASE ExecDecisions = run.dec /\ run.dec # None /\ ~(clock.now - run.dec.at > CacheAge)
  <2>1. DecisionsOk(run.dec)
    BY <1>3 DEF TimesOk
  <2>2. run.dec.at \in Nat
    BY <2>1 DEF DecisionsOk
  <2>. QED
    BY <1>0, <1>3, <2>1, <2>2
<1>. QED
    BY <1>0, <1>2, <1>3 DEF ExecDecisions

\* A step that changes neither the items nor the releases made, and does not begin to run a
\* preview's items.
LEMMA CalmBut ==
    ASSUME ReleaseInv, TimesOk', JobShape', RunShape', HistShape', hist'.released = hist.released,
           job'.kind = job.kind, job'.of = job.of, job'.items = job.items, run'.allowed \subseteq job.of.recs,
           Preview => run'.at \notin {"space", "hold", "links", "items"}
    PROVE  ReleaseInv'
<1>1. ItemsConfirmed'
    BY DEF ReleaseInv, ItemsConfirmed, Preview
<1>. QED
    BY <1>1 DEF ReleaseInv, Shapes, AllowedShown, OnlyShows, OnlyConfirmed, Preview

LEMMA Calm ==
    ASSUME ReleaseInv, TimesOk', JobShape', RunShape', UNCHANGED hist, job'.kind = job.kind, job'.of = job.of,
           job'.items = job.items, run'.allowed \subseteq job.of.recs,
           Preview => run'.at \notin {"space", "hold", "links", "items"}
    PROVE  ReleaseInv'
<1>1. HistShape' /\ hist'.released = hist.released
    BY DEF ReleaseInv, Shapes, HistShape
<1>. QED
    BY <1>1, CalmBut

\* Every step keeps what is planned, and what was released, to what was confirmed.
LEMMA ReleaseKept ==
    ASSUME ReleaseInv, [Next]_vars
    PROVE  ReleaseInv'
<1>0. /\ JobShape /\ RunShape /\ HistShape /\ ItemsConfirmed /\ AllowedShown /\ OnlyShows /\ TimesOk /\ OnlyConfirmed
      /\ run.allowed \subseteq job.of.recs /\ (Preview => run.at \notin {"space", "hold", "links", "items"})
    BY DEF ReleaseInv, Shapes, AllowedShown, OnlyShows
<1>i. Idle = [at |-> "idle", linked |-> FALSE, waits |-> Waits, rev |-> 0, nonfull |-> {}, cur |-> None, ed |-> 0,
              warns |-> 0, allowed |-> {}, want |-> NoFiles, dec |-> None]
    BY DEF Idle
<1>t. ASSUME UNCHANGED <<rules, clock>>, run'.dec = run.dec \/ run'.dec = None
      PROVE  TimesOk'
    BY <1>0, <1>t, TimesKept
<1>1. CASE Begin
  <2>1. RunShape' /\ run'.at = "open" /\ run'.allowed = {}
    BY <1>1, <1>i DEF Begin, RunShape
  <2>t. TimesOk'
    BY <1>1, <1>i, <1>t DEF Begin, Same
  <2>h. HistShape' /\ hist'.released = hist.released
    BY <1>0, <1>1 DEF Begin, HistShape
  <2>2. CASE job' = [job EXCEPT !.st = "running"]
    <3>1. JobShape' /\ job'.kind = job.kind /\ job'.of = job.of /\ job'.items = job.items
      BY <1>0, <2>2 DEF JobShape
    <3>. QED
      BY <2>1, <2>t, <2>h, <3>1, CalmBut
  <2>3. CASE \E k, a : job' = [NoJob EXCEPT !.kind = k, !.allow = a, !.st = "running", !.of = shown]
    <3>1. JobShape' /\ job'.items = {}
      BY <2>3 DEF JobShape, NoJob
    <3>2. ItemsConfirmed' /\ AllowedShown' /\ OnlyShows'
      BY <2>1, <3>1 DEF ItemsConfirmed, AllowedShown, OnlyShows
    <3>3. HistShape' /\ OnlyConfirmed'
      BY <1>0, <2>h DEF OnlyConfirmed
    <3>. QED
      BY <2>1, <2>t, <3>1, <3>2, <3>3 DEF ReleaseInv, Shapes
  <2>. QED
    BY <1>1, <2>2, <2>3 DEF Begin
<1>2. CASE Open
  <2>1. /\ JobShape' /\ job'.kind = job.kind /\ job'.of = job.of /\ job'.items = job.items /\ UNCHANGED hist
        /\ Go("prepare") \/ run' = Idle
    BY <1>0, <1>2 DEF Open, JobShape, Same
  <2>2. RunShape' /\ run'.at \in {"prepare", "idle"} /\ run'.allowed \subseteq job.of.recs
    BY <1>0, <1>i, <2>1, GoEffect DEF RunShape
  <2>3. TimesOk'
    BY <1>0, <1>2, <1>i, <1>t, <2>1, GoEffect DEF Open, Same
  <2>. QED
    BY <2>1, <2>2, <2>3, Calm
<1>3. CASE Prepare
  <2>1. /\ UNCHANGED hist /\ JobShape' /\ job'.kind = job.kind /\ job'.of = job.of
        /\ job'.items = job.items \/ job'.items = {}
    BY <1>0, <1>3 DEF Prepare, JobShape, Same
  <2>2. /\ RunShape' /\ run'.allowed \subseteq job.of.recs
        /\ run'.at \in {AfterPlan, "scan"} /\ run'.dec = run.dec
    BY <1>0, <1>3 DEF Prepare, RunShape
  <2>t. TimesOk'
    BY <1>3, <1>t, <2>2 DEF Prepare, Same
  <2>3. Preview => run'.at \notin {"space", "hold", "links", "items"}
    BY <2>2 DEF AfterPlan
  <2>4. ItemsConfirmed'
    BY <1>0, <2>1 DEF ItemsConfirmed, Preview
  <2>. QED
    BY <1>0, <2>1, <2>2, <2>t, <2>3, <2>4 DEF ReleaseInv, Shapes, HistShape, AllowedShown, OnlyShows, OnlyConfirmed, Preview
<1>4. CASE Scan \/ Rescan
  <2>1. UNCHANGED <<hist, rules, clock>> /\ (Dropped \/ (UNCHANGED job /\ \E c : Checked(c)))
    BY <1>4 DEF Scan, Rescan, Same
  <2>2. CASE Dropped
    <3>1. /\ JobShape' /\ job'.kind = job.kind /\ job'.of = job.of /\ job'.items = job.items
          /\ RunShape' /\ run'.allowed = run.allowed /\ run'.at = AfterPlan /\ run'.dec = run.dec
      BY <1>0, <2>2 DEF Dropped, JobShape, RunShape
    <3>t. TimesOk'
      BY <1>t, <2>1, <3>1
    <3>. QED
      BY <1>0, <2>1, <3>1, <3>t, Calm DEF AfterPlan
  <2>3. CASE UNCHANGED job /\ \E c : Checked(c)
    <3>1. RunShape' /\ run'.allowed = run.allowed /\ run'.at \in {"wait", "plan"} /\ run'.dec = run.dec
      BY <1>0, <2>3 DEF Checked, RunShape
    <3>2. JobShape'
      BY <1>0, <2>3 DEF JobShape
    <3>t. TimesOk'
      BY <1>t, <2>1, <3>1
    <3>. QED
      BY <1>0, <2>1, <2>3, <3>1, <3>2, <3>t, Calm
  <2>. QED
    BY <2>1, <2>2, <2>3
<1>5. CASE Plan
  <2>1. /\ UNCHANGED hist /\ JobShape' /\ job'.kind = job.kind /\ job'.of = job.of
        /\ job'.items = Guarded(Planned, Live)
        /\ RunShape' /\ run'.allowed = run.allowed /\ run'.at = AfterPlan /\ run'.dec = run.dec
    BY <1>0, <1>5 DEF Plan, JobShape, RunShape, Same
  <2>t. TimesOk'
    BY <1>5, <1>t, <2>1 DEF Plan, Same
  <2>2. ItemsConfirmed'
    BY <1>0, <2>1, GuardedEffect DEF ItemsConfirmed, Preview
  <2>3. Preview => run'.at \notin {"space", "hold", "links", "items"}
    BY <2>1 DEF AfterPlan
  <2>. QED
    BY <1>0, <2>1, <2>2, <2>3, <2>t DEF ReleaseInv, Shapes, HistShape, AllowedShown, OnlyShows, OnlyConfirmed, Preview
<1>6. CASE CheckSpace \/ ItemsEnd
  <2>1. UNCHANGED <<job, hist>> /\ (\E p : run' = [run EXCEPT !.at = p]) /\ run.at \in {"space", "items"}
    BY <1>6 DEF CheckSpace, ItemsEnd, Same, Go
  <2>2. RunShape' /\ run'.allowed = run.allowed /\ run'.dec = run.dec
    BY <1>0, <2>1 DEF RunShape
  <2>3. JobShape'
    BY <1>0, <2>1 DEF JobShape
  <2>4. TimesOk'
    BY <1>6, <1>t, <2>2 DEF CheckSpace, ItemsEnd, Same
  <2>. QED
    BY <1>0, <2>1, <2>2, <2>3, <2>4, Calm
<1>7. CASE HoldCopy \/ HoldLink
  <2>1. /\ UNCHANGED hist /\ run.at \in {"hold", "links"}
        /\ UNCHANGED run \/ \E p : Go(p)
        /\ UNCHANGED job \/ \E i \in job.items : job' = Held(i)
    BY <1>7 DEF HoldCopy, HoldLink, Same, UnknownCopies, LinksOfHeld, PendingItems
  <2>2. JobShape' /\ ItemsConfirmed' /\ job'.kind = job.kind /\ job'.of = job.of
    BY <1>0, <2>1, EndsEffect DEF Held, JobShape, ItemsConfirmed, Preview
  <2>3. RunShape' /\ run'.allowed = run.allowed /\ run'.dec = run.dec
    BY <1>0, <2>1, GoEffect DEF RunShape
  <2>4. TimesOk'
    BY <1>7, <1>t, <2>3 DEF HoldCopy, HoldLink, Same
  <2>. QED
    BY <1>0, <2>1, <2>2, <2>3, <2>4 DEF ReleaseInv, Shapes, HistShape, AllowedShown, OnlyShows, OnlyConfirmed, Preview
<1>8. CASE SkipUnlinked \/ RunContent \/ RunRetain
  <2>1. /\ \E i \in job.items, st \in {"skipped", "done", "failed", "held"} : Ends(i, st)
        /\ run.at = "items"
    BY <1>8 DEF SkipUnlinked, RunContent, RunRetain, NextContent, PendingItems
  <2>2. UNCHANGED run \/ run' = [run EXCEPT !.warns = @ + 1]
    BY <1>8 DEF SkipUnlinked, RunContent, RunRetain, Same
  <2>3. RunShape' /\ run'.allowed = run.allowed /\ run'.at = run.at /\ run'.dec = run.dec
    BY <1>0, <2>2 DEF RunShape
  <2>t. TimesOk'
    BY <1>8, <1>t, <2>3 DEF SkipUnlinked, RunContent, RunRetain, Same
  <2>4. HistShape' /\ hist'.released = hist.released
    BY <1>0, <1>8 DEF SkipUnlinked, RunContent, RunRetain, Same, HistShape
  <2>5. JobShape' /\ ItemsConfirmed' /\ job'.kind = job.kind /\ job'.of = job.of
    BY <1>0, <2>1, EndsEffect DEF Ends
  <2>. QED
    BY <1>0, <2>1, <2>3, <2>t, <2>4, <2>5 DEF ReleaseInv, Shapes, AllowedShown, OnlyShows, OnlyConfirmed, Preview
<1>9. CASE ReadUncovered
  <2>1. /\ UNCHANGED <<job, rules, clock>> /\ RunShape' /\ run'.allowed = run.allowed /\ run'.at = run.at /\ run'.dec = run.dec
        /\ HistShape' /\ hist'.released = hist.released
    BY <1>0, <1>9 DEF ReadUncovered, RunShape, HistShape, Same
  <2>2. JobShape' /\ TimesOk'
    BY <1>0, <1>t, <2>1 DEF JobShape
  <2>. QED
    BY <1>0, <2>1, <2>2, CalmBut
<1>10. CASE RunRelease
  <2>1. PICK i \in PendingItems({"release"}) :
          /\ run' = IF RevisionStands(i) THEN [run EXCEPT !.dec = ExecDecisions] ELSE run
          /\ \/ CheckRelease(i) /\ Ends(i, "done") /\ hist' = [hist EXCEPT !.released = @ \cup {Gone(i)}]
             \/ Ends(i, "skipped") /\ UNCHANGED hist
    BY <1>10 DEF RunRelease
  <2>2. run.at = "items" /\ UNCHANGED <<rules, clock>> /\ i \in job.items /\ i.act = "release"
    BY <1>10, <2>1 DEF RunRelease, PendingItems, Same
  <2>3. JobShape' /\ ItemsConfirmed' /\ job'.kind = job.kind /\ job'.of = job.of
    BY <1>0, <2>1, <2>2, EndsEffect DEF Ends
  <2>4. <<i.n, i.v>> \in job.of.recs /\ i.rev = job.of.rev
    BY <1>0, <2>2 DEF ItemsConfirmed, Confirmed
  <2>5. /\ RunShape' /\ run'.at = run.at /\ run'.allowed = run.allowed
        /\ run'.dec = run.dec \/ run'.dec = ExecDecisions
    BY <1>0, <2>1 DEF RunShape
  <2>6. TimesOk'
    <3>1. CASE run'.dec = run.dec
      BY <1>t, <2>2, <3>1
    <3>2. CASE run'.dec = ExecDecisions
      <4>1. \A n : Full(n)' = Full(n)
        BY <2>2 DEF Full
      <4>2. \A dec : DecisionsOk(dec)' = DecisionsOk(dec)
        BY <2>2, <4>1 DEF DecisionsOk
      <4>3. DecisionsOk(ExecDecisions)
        BY <1>0, DecisionsYoung
      <4>. QED
        BY <1>0, <2>2, <3>2, <4>2, <4>3 DEF TimesOk, ClockShape
    <3>. QED
      BY <2>5, <3>1, <3>2
  <2>7. HistShape' /\ OnlyConfirmed'
    <3>1. CASE UNCHANGED hist
      BY <1>0, <3>1 DEF HistShape, OnlyConfirmed
    <3>2. CASE CheckRelease(i) /\ hist' = [hist EXCEPT !.released = @ \cup {Gone(i)}]
      <4>. DEFINE x == Gone(i)
      <4>1. HistShape' /\ hist'.released = hist.released \cup {x}
        BY <1>0, <3>2 DEF HistShape
      <4>2. x.rec = <<i.n, i.v>> /\ x.rev = rules.rev /\ x.of = job.of /\ x.full = Full(i.n) /\ x.age = clock.now - clock.since[i.n]
        BY DEF Gone
      <4>3. i.n \in Names /\ rules.rev = i.rev /\ (Full(i.n) => clock.since[i.n] >= ExecDecisions.at)
        <5>1. ExecDecisions.tier[i.n] = "skip" /\ rules.rev = i.rev
          BY <3>2 DEF CheckRelease, RevisionStands
        <5>2. i.n \in Names
          BY <2>2, <1>0 DEF ItemsConfirmed
        <5>. QED
          BY <1>0, <5>1, <5>2, DecisionsYoung DEF DecisionsOk
      <4>4. Full(i.n) => clock.now - clock.since[i.n] <= CacheAge
        <5>1. ExecDecisions.at \in Nat /\ clock.since[i.n] \in Nat
          BY <1>0, <4>3, DecisionsYoung DEF DecisionsOk
        <5>. QED
          BY <1>0, <4>3, <5>1, DecisionsYoung
      <4>5. x.rec \in x.of.recs /\ x.rev = x.of.rev /\ (x.full => x.age <= CacheAge)
        BY <2>4, <4>2, <4>3, <4>4
      <4>. HIDE DEF x
      <4>. QED
        BY <1>0, <4>1, <4>5 DEF OnlyConfirmed
    <3>. QED
      BY <2>1, <3>1, <3>2
  <2>8. AllowedShown' /\ OnlyShows'
    BY <1>0, <2>2, <2>3, <2>5 DEF AllowedShown, OnlyShows, Preview
  <2>. QED
    BY <2>3, <2>5, <2>6, <2>7, <2>8 DEF ReleaseInv, Shapes
<1>11. CASE End \/ Fail \/ Crash \/ Fatal
  <2>1. /\ run' = Idle
        /\ JobShape' /\ job'.kind = job.kind /\ job'.of = job.of /\ job'.items = job.items
    BY <1>0, <1>11 DEF End, Fail, Crash, Fatal, JobShape
  <2>h. HistShape' /\ hist'.released = hist.released
    BY <1>0, <1>11 DEF End, Fail, Crash, Fatal, HistShape, Same
  <2>2. RunShape' /\ run'.at = "idle" /\ run'.allowed = {} /\ run'.dec = None
    BY <1>i, <2>1 DEF RunShape
  <2>3. TimesOk'
    BY <1>11, <1>t, <2>2 DEF End, Fail, Crash, Fatal, Same
  <2>. QED
    BY <2>1, <2>2, <2>3, <2>h, CalmBut
<1>12. CASE Write \/ Show \/ SetRules \/ SetFacts \/ Tick \/ EditSource \/ OtherScan \/ UNCHANGED vars
  <2>1. UNCHANGED <<job, run>>
    BY <1>12 DEF Write, Show, SetRules, SetFacts, Tick, EditSource, OtherScan, vars
  <2>2. HistShape' /\ hist'.released = hist.released
    BY <1>0, <1>12 DEF Write, Show, SetRules, SetFacts, Tick, EditSource, OtherScan, vars, HistShape
  <2>3. CASE Write \/ Show \/ EditSource \/ OtherScan \/ UNCHANGED vars
    <3>1. UNCHANGED <<rules, clock>>
      BY <2>3 DEF Write, Show, EditSource, OtherScan, vars
    <3>2. TimesOk'
      BY <1>t, <2>1, <3>1
    <3>. QED
      BY <1>0, <2>1, <2>2, <3>2, CalmBut DEF JobShape, RunShape
  <2>4. CASE SetRules \/ SetFacts
    <3>1. \E n \in Names : \E t :
             /\ clock' = Since(n, t)
             /\ rules' = [rules EXCEPT !.tier[n] = t] \/ rules' = [rules EXCEPT !.rev = @ + 1, !.tier[n] = t]
      BY <2>4 DEF SetRules, SetFacts
    <3>2. TimesOk'
      BY <1>0, <2>1, <3>1, TierChanges
    <3>. QED
      BY <1>0, <2>1, <2>2, <3>2, CalmBut DEF JobShape, RunShape
  <2>5. CASE Tick
    <3>1. TimesOk'
      BY <1>0, <2>1, <2>5, TickKept DEF Tick
    <3>. QED
      BY <1>0, <2>1, <2>2, <3>1, CalmBut DEF JobShape, RunShape
  <2>. QED
    BY <1>12, <2>3, <2>4, <2>5
<1>. QED
    BY <1>1, <1>2, <1>3, <1>4, <1>5, <1>6, <1>7, <1>8, <1>9, <1>10, <1>11, <1>12 DEF Next

\* A release takes only records its user saw in the preview, under the rule revision the user
\* confirmed, and never a file that has been full for longer than a release uses the decisions it
\* has read (prepareRelease, keep, checkRelease): whatever rules and facts say, is edited, scanned
\* or copied meanwhile and however often the job is resumed, for any number of files, jobs, edits,
\* crashes and errors and any CacheAge.
THEOREM ReleasesConfirmed == Spec => []OnlyConfirmed
<1>1. Init => ReleaseInv
  <2>1. ASSUME Init
        PROVE  Shapes /\ ItemsConfirmed /\ AllowedShown /\ OnlyShows /\ OnlyConfirmed
    BY <2>1 DEF Init, Shapes, JobShape, RunShape, HistShape, ItemsConfirmed, AllowedShown, OnlyShows,
       OnlyConfirmed, NoJob, Idle
  <2>2. ASSUME Init
        PROVE  TimesOk
    <3>1. CacheAge \in Nat /\ DOMAIN world.tier = Names
      BY <2>2, WorldsAssumption DEF Init
    <3>2. run.dec = None
      BY <2>2 DEF Init, Idle
    <3>. QED
      BY <2>2, <3>1, <3>2 DEF Init, TimesOk, ClockShape, NoFiles
  <2>. QED
    BY <2>1, <2>2 DEF ReleaseInv
<1>2. ReleaseInv /\ [Next]_vars => ReleaseInv'
    BY ReleaseKept
<1>3. ReleaseInv => OnlyConfirmed
    BY DEF ReleaseInv
<1>. QED
    BY <1>1, <1>2, <1>3, PTL DEF Spec

-----------------------------------------------------------------------------
(* The promises of a sync.                                                 *)

DestShape == dest = [live |-> dest.live, kept |-> dest.kept, free |-> dest.free]
IsContent(i) == i.act \in ContentActs
\* An item of a plan: a content item brings a version of a name that the plan did not find skipped.
ItemOk(i) ==
    /\ ItemShape(i) /\ i.n \in Names /\ i.v \in Nat
    /\ IsContent(i) => i.v # 0 /\ i.n \notin run.nonfull
    /\ i.old \in Nat /\ (i.act = "update" => i.old # 0) /\ (i.st = "pending" => dest.live[i.n] = i.old)
OneEach == \A i, k \in job.items : i.n = k.n => i = k
ItemsOk == IsFiniteSet(job.items) /\ (\A i \in job.items : ItemOk(i)) /\ OneEach
BaseInv ==
    /\ Shapes /\ DestShape /\ ItemsOk
    /\ world \in Worlds /\ cat \in [Names -> Nat] /\ disk \in [arr : [Names -> Nat], view : [Names -> Nat]]
    /\ dest.live \in [Names -> Nat] /\ dest.free \in Nat /\ run.warns \in Nat /\ job.live \in Nat

\* What the attempt reads as not backed up holds every content of the job that is missed.
Missing(c) == IsContent(c) /\ c.st # "done" /\ c.n \in hist.steady /\ cat[c.n] = c.v /\ ~BackedUp(c.n)
UpgradeInv ==
    /\ hist.uncovered = {}
    /\ run.cur # None => run.at \in {"items", "end"} /\ \A c \in job.items : Missing(c) => c.n \in run.cur

\* The pending copies fit, or no copy of unknown tier was made, nor will be.
NoUnknownDone == \A i \in job.items : i.unknown /\ i.act = "copy" => i.st # "done"
SpaceInv ==
    /\ Bytes <= dest.free \/ NoUnknownDone
    /\ run.at \in {"links", "items"} => Bytes <= dest.free \/ UnknownCopies = {}
    /\ hist.starved # {} => NoUnknownDone /\ run.at = "idle" /\ job.st # "queued"

\* The guard: what it stops is held, and no update that was done put a truncated version.
GuardInv ==
    /\ ~job.allow => \A i \in job.items :
          /\ Stopped(i, job.items, job.live) => i.st = "held"
          /\ i.act = "update" /\ i.st = "done" => ~Shrinks(dest.live[i.n], i.old)
    /\ RetainsBesideContent

\* A file the *arr expects, seen by the scan and not skipped by the rules, is backed up or has an
\* item that did not succeed.
Wanted(n) == n \in Scope /\ n \notin run.nonfull /\ run.want[n] # 0
Left(i) == i.st \in {"pending", "failed", "held"}
Covered(n, v, items) == v = run.want[n] \/ \E i \in items : i.n = n /\ (Left(i) \/ (i.st = "done" /\ v # 0))
Running == {"space", "hold", "links", "items", "end"}
MissInv ==
    /\ run.at \in {"idle", "open", "prepare", "scan", "wait"} => run.want = NoFiles
    /\ run.at = "plan" /\ Targeted /\ run.warns = 0 => \A n \in Scope : run.want[n] # 0 => cat[n] = run.want[n]
    /\ run.at \in Running /\ Targeted /\ run.warns = 0 =>
          /\ \A i \in job.items : Wanted(i.n) => IsContent(i) /\ i.v = run.want[i.n]
          /\ \A n \in Names : Wanted(n) => Covered(n, dest.live[n], job.items)
    /\ run.at = "end" /\ Targeted => \A i \in job.items : IsContent(i) => i.st # "pending"

PromiseInv == BaseInv /\ UpgradeInv /\ SpaceInv /\ GuardInv /\ MissInv

-----------------------------------------------------------------------------
(* An item ends: one that is pending gets another state.                   *)

Ending(i, st) ==
    /\ i \in job.items /\ i.st = "pending" /\ st \in {"done", "failed", "skipped", "held"}
    /\ job' = [job EXCEPT !.items = (@ \ {i}) \cup {[i EXCEPT !.st = st]}]
\* j is i in state st.
EndedAs(i, j, st) ==
    /\ ItemShape(j) /\ j.n = i.n /\ j.act = i.act /\ j.v = i.v /\ j.old = i.old /\ j.prim = i.prim
    /\ j.unknown = i.unknown /\ j.rev = i.rev
    /\ j.st = st /\ j # i
SameJob ==
    /\ JobShape' /\ job'.kind = job.kind /\ job'.allow = job.allow /\ job'.st = job.st /\ job'.live = job.live
    /\ job'.of = job.of

LEMMA EndingEffect ==
    ASSUME JobShape, NEW i, ItemShape(i), NEW st, Ending(i, st)
    PROVE  \E j : job'.items = (job.items \ {i}) \cup {j} /\ EndedAs(i, j, st) /\ SameJob
<1>. DEFINE j == [i EXCEPT !.st = st]
<1>1. j = [n |-> i.n, act |-> i.act, v |-> i.v, old |-> i.old, prim |-> i.prim, unknown |-> i.unknown, rev |-> i.rev,
          st |-> st]
    BY DEF ItemShape
<1>2. EndedAs(i, j, st)
    BY <1>1 DEF EndedAs, ItemShape, Ending
<1>3. job'.items = (job.items \ {i}) \cup {j} /\ SameJob
    BY DEF Ending, JobShape, SameJob
<1>. QED
    BY <1>2, <1>3

\* The items stay what they are.
LEMMA EndingItems ==
    ASSUME ItemsOk, NEW i \in job.items, NEW j, NEW st, EndedAs(i, j, st), st # "pending",
           job'.items = (job.items \ {i}) \cup {j}, run'.nonfull = run.nonfull,
           \A n \in Names : n # i.n => dest'.live[n] = dest.live[n]
    PROVE  ItemsOk'
<1>0. IsFiniteSet(job.items \ {i})
    BY FS_RemoveElement DEF ItemsOk
<1>1. IsFiniteSet(job'.items)
    BY <1>0, FS_AddElement
<1>2. ASSUME NEW k \in job.items, k # i
      PROVE  ItemOk(k)'
  <2>1. ItemOk(k) /\ k.n # i.n
    BY <1>2 DEF ItemsOk, OneEach
  <2>2. dest'.live[k.n] = dest.live[k.n]
    BY <2>1 DEF ItemOk
  <2>. QED
    BY <2>1, <2>2 DEF ItemOk, ItemShape, IsContent, ContentActs
<1>3. ItemOk(j)'
  <2>1. ItemOk(i)
    BY DEF ItemsOk
  <2>. QED
    BY <2>1 DEF EndedAs, ItemOk, ItemShape, IsContent, ContentActs
<1>4. OneEach'
    BY DEF ItemsOk, OneEach, EndedAs
<1>. QED
    BY <1>1, <1>2, <1>3, <1>4 DEF ItemsOk

\* What an item is for the guard does not depend on the state.
SameToGuard(i, j) ==
    /\ Change(j) = Change(i) /\ Shrink(j) = Shrink(i)
    /\ \A k : After(j, k) = After(i, k) /\ After(k, j) = After(k, i)

LEMMA EndedSame ==
    ASSUME NEW i, NEW j, NEW st, EndedAs(i, j, st)
    PROVE  SameToGuard(i, j)
BY DEF EndedAs, SameToGuard, Change, Shrink, After

LEMMA GuardStatic ==
    ASSUME UNCHANGED world
    PROVE  /\ \A i : Change(i)' = Change(i) /\ Shrink(i)' = Shrink(i) /\ IsContent(i)' = IsContent(i)
           /\ \A i, p : After(i, p)' = After(i, p)
           /\ \A a, b : Shrinks(a, b)' = Shrinks(a, b)
           /\ \A a, b : Within(a, b)' = Within(a, b)
BY DEF Change, Shrink, Shrinks, After, Within, IsContent, ContentActs

\* An item that ends leaves the number of changes.
LEMMA EndingChanges ==
    ASSUME ItemsOk, NEW i \in job.items, NEW j, NEW st, EndedAs(i, j, st), NEW items, items = (job.items \ {i}) \cup {j}
    PROVE  Cardinality({k \in items : Change(k)}) = Cardinality({k \in job.items : Change(k)})
<1>. DEFINE S == {k \in job.items : Change(k)}
            T == {k \in items : Change(k)}
<1>0. Change(j) = Change(i)
    BY EndedSame DEF SameToGuard
<1>1. j \notin job.items
    BY DEF ItemsOk, OneEach, EndedAs
<1>2. CASE ~Change(i)
  <2>1. S = T
    BY <1>0, <1>2
  <2>. QED
    BY <2>1
<1>3. CASE Change(i)
  <2>1. T = (S \ {i}) \cup {j} /\ i \in S /\ j \notin S \ {i}
    BY <1>0, <1>1, <1>3
  <2>2. IsFiniteSet(S)
    BY FS_Subset DEF ItemsOk
  <2>. HIDE DEF S, T
  <2>3. IsFiniteSet(S \ {i}) /\ Cardinality(S \ {i}) = Cardinality(S) - 1
    BY <2>1, <2>2, FS_RemoveElement
  <2>4. Cardinality(T) = Cardinality(S \ {i}) + 1
    BY <2>1, <2>3, FS_AddElement
  <2>5. Cardinality(S) \in Nat
    BY <2>2, FS_CardinalityType
  <2>6. Cardinality(T) = Cardinality(S)
    BY <2>3, <2>4, <2>5
  <2>. QED
    BY <2>6 DEF S, T
<1>. QED
    BY <1>2, <1>3

\* The guard's word stands: what it stops stays held.
LEMMA EndingGuard ==
    ASSUME ItemsOk, GuardInv, NEW i \in job.items, i.st = "pending", NEW j, NEW st, EndedAs(i, j, st),
           job'.items = (job.items \ {i}) \cup {j}, job'.kind = job.kind, job'.allow = job.allow, job'.live = job.live,
           UNCHANGED world,
           \A n \in Names : n # i.n => dest'.live[n] = dest.live[n],
           ~job.allow /\ i.act = "update" /\ st = "done" => ~Shrinks(dest'.live[i.n], i.old)
    PROVE  GuardInv'
<1>. DEFINE new == job'.items
<1>0. SameToGuard(i, j) /\ IsContent(j) = IsContent(i)
    BY EndedSame DEF EndedAs, IsContent
<1>s. \A k : (Stopped(k, job.items, job.live))' = Stopped(k, new, job.live)
    BY DEF Stopped, Suspect, Limited, Within, Change, Shrink, Shrinks, After
<1>1. Limited(new, job.live) = Limited(job.items, job.live)
    BY EndingChanges DEF Limited
<1>2. \A k : Suspect(k, new, job.live) = Suspect(k, job.items, job.live)
    BY <1>1 DEF Suspect
<1>3. Suspect(j, new, job.live) = Suspect(i, job.items, job.live)
    BY <1>0, <1>2 DEF Suspect, SameToGuard
<1>4. ASSUME NEW k, NEW m, \A p : After(k, p) = After(m, p), Suspect(k, new, job.live) = Suspect(m, job.items, job.live)
      PROVE  Stopped(k, new, job.live) => Stopped(m, job.items, job.live)
  <2>. SUFFICES ASSUME NEW p \in new, After(k, p), Suspect(p, new, job.live)
                PROVE  \E q \in job.items : After(m, q) /\ Suspect(q, job.items, job.live)
    BY <1>4 DEF Stopped
  <2>1. CASE p \in job.items
    BY <1>2, <1>4, <2>1
  <2>2. CASE p = j
    BY <1>0, <1>3, <1>4, <2>2 DEF SameToGuard
  <2>. QED
    BY <2>1, <2>2
<1>5. ASSUME ~job.allow, NEW k \in new
      PROVE  /\ Stopped(k, new, job.live) => k.st = "held"
             /\ k.act = "update" /\ k.st = "done" => ~Shrinks(dest'.live[k.n], k.old)
  <2>1. CASE k = j
    <3>1. ~Stopped(i, job.items, job.live)
      BY <1>5 DEF GuardInv
    <3>2. ~Stopped(j, new, job.live)
      BY <1>0, <1>3, <1>4, <3>1 DEF SameToGuard
    <3>. QED
      BY <1>5, <2>1, <3>2 DEF EndedAs
  <2>2. CASE k \in job.items /\ k # i
    <3>1. Stopped(k, new, job.live) => Stopped(k, job.items, job.live)
      BY <1>2, <1>4
    <3>2. k.n \in Names /\ k.n # i.n
      BY <2>2 DEF ItemsOk, ItemOk, OneEach
    <3>. QED
      BY <1>5, <2>2, <3>1, <3>2 DEF GuardInv
  <2>. QED
    BY <2>1, <2>2
<1>6. RetainsBesideContent'
  <2>. SUFFICES ASSUME Targeted', NEW k \in job'.items, k.act = "retain"
                PROVE  \E c \in job'.items : c.act \in ContentActs /\ Folder[c.n] = Folder[k.n]
    BY DEF RetainsBesideContent, ContentActs
  <2>1. PICK m \in job.items : m.act = "retain" /\ m.n = k.n
    BY DEF EndedAs
  <2>2. PICK c \in job.items : c.act \in ContentActs /\ Folder[c.n] = Folder[m.n]
    BY <2>1 DEF GuardInv, RetainsBesideContent, Targeted
  <2>3. CASE c = i
    BY <1>0, <2>1, <2>2, <2>3 DEF EndedAs
  <2>4. CASE c # i
    BY <2>1, <2>2, <2>4
  <2>. QED
    BY <2>3, <2>4
<1>. QED
    BY <1>s, <1>5, <1>6, GuardStatic DEF GuardInv

\* What the attempt read as not backed up still holds all that is missed.
LEMMA EndingUpgrade ==
    ASSUME ItemsOk, UpgradeInv, NEW i \in job.items, i.st = "pending", NEW j, NEW st, EndedAs(i, j, st),
           job'.items = (job.items \ {i}) \cup {j},
           run'.cur = run.cur, run'.at = run.at, UNCHANGED cat, hist'.steady = hist.steady, hist'.uncovered = hist.uncovered,
           \A n \in Names : cat[n] # 0 /\ BackedUp(n) => BackedUp(n)'
    PROVE  UpgradeInv'
<1>0. \A c \in job.items : c.n \in Names /\ (IsContent(c) => c.v # 0)
    BY DEF ItemsOk, ItemOk
<1>1. \A c \in job.items : Missing(c)' => Missing(c)
    BY <1>0 DEF Missing, IsContent, ContentActs
<1>2. Missing(j)' => Missing(i)
    BY <1>0 DEF Missing, EndedAs, IsContent, ContentActs
<1>3. run'.cur # None => \A c \in job'.items : Missing(c)' => c.n \in run'.cur
    BY <1>1, <1>2 DEF UpgradeInv, EndedAs
<1>. QED
    BY <1>3 DEF UpgradeInv

\* A wanted file is backed up, or keeps an item that did not succeed.
LEMMA EndingMiss ==
    ASSUME MissInv, NEW i \in job.items, i.st = "pending", NEW j, NEW st, EndedAs(i, j, st),
           job'.items = (job.items \ {i}) \cup {j}, job'.kind = job.kind, UNCHANGED cat,
           run'.at = run.at, run.at \in {"hold", "links", "items"}, run'.nonfull = run.nonfull, run'.want = run.want,
           run'.warns = 0 => run.warns = 0,
           \A n \in Names : n # i.n => dest'.live[n] = dest.live[n],
           IsContent(i) => \/ st \in {"failed", "held"}
                           \/ st = "done" /\ (i.n \in Names => dest'.live[i.n] # 0)
                           \/ run'.warns # 0
    PROVE  MissInv'
<1>1. Scope' = Scope /\ Targeted' = Targeted /\ \A n : Wanted(n)' = Wanted(n)
    BY DEF Scope, Targeted, Wanted
<1>2. ASSUME Targeted, run'.warns = 0
      PROVE  /\ \A k \in job'.items : Wanted(k.n) => IsContent(k) /\ k.v = run.want[k.n]
             /\ \A n \in Names : Wanted(n) => Covered(n, dest'.live[n], job'.items)
  <2>1. /\ \A k \in job.items : Wanted(k.n) => IsContent(k) /\ k.v = run.want[k.n]
        /\ \A n \in Names : Wanted(n) => Covered(n, dest.live[n], job.items)
    BY <1>2 DEF MissInv, Running
  <2>2. ASSUME NEW n \in Names, Wanted(n)
        PROVE  Covered(n, dest'.live[n], job'.items)
    <3>1. CASE n # i.n
      <4>1. dest'.live[n] = dest.live[n]
        BY <3>1
      <4>. QED
        BY <2>1, <2>2, <3>1, <4>1 DEF Covered
    <3>2. CASE n = i.n
      <4>1. IsContent(i) /\ i.v = run.want[n]
        BY <2>1, <2>2, <3>2
      <4>. QED
        BY <1>2, <3>2, <4>1 DEF EndedAs, Left, Covered
    <3>. QED
      BY <3>1, <3>2
  <2>3. \A k \in job'.items : Wanted(k.n) => IsContent(k) /\ k.v = run.want[k.n]
    BY <2>1 DEF EndedAs, IsContent
  <2>. QED
    BY <2>2, <2>3
<1>3. /\ \A k : IsContent(k)' = IsContent(k) /\ Left(k)' = Left(k)
      /\ \A n, v : Covered(n, v, job'.items) => Covered(n, v, job.items)' 
    BY DEF IsContent, Left, ContentActs, Covered
<1>. QED
    BY <1>1, <1>2, <1>3 DEF MissInv, Running

\* The pending copies after an item ended.
LEMMA EndingBytes ==
    ASSUME ItemsOk, NEW i \in job.items, i.st = "pending", NEW j, NEW st, EndedAs(i, j, st), st # "pending",
           job'.items = (job.items \ {i}) \cup {j}
    PROVE  /\ UnknownCopies' = UnknownCopies \ {i}
           /\ Bytes \in Nat /\ Bytes' \in Nat
           /\ Bytes' = IF i.act \in {"copy", "update"} THEN Bytes - 1 ELSE Bytes
<1>. DEFINE P == PendingItems({"copy", "update"})
<1>1. P' = P \ {i} /\ (i \in P <=> i.act \in {"copy", "update"})
    BY DEF PendingItems, EndedAs
<1>2. IsFiniteSet(P)
    BY FS_Subset DEF PendingItems, ItemsOk
<1>3. IsFiniteSet(P \ {i}) /\ Cardinality(P \ {i}) = IF i \in P THEN Cardinality(P) - 1 ELSE Cardinality(P)
    BY <1>2, FS_RemoveElement
<1>4. Cardinality(P) \in Nat /\ Cardinality(P \ {i}) \in Nat
    BY <1>2, <1>3, FS_CardinalityType
<1>5. UnknownCopies' = UnknownCopies \ {i}
    BY DEF UnknownCopies, PendingItems, EndedAs
<1>6. Bytes = Cardinality(P) /\ Bytes' = Cardinality(P \ {i})
    BY <1>1 DEF Bytes
<1>. QED
    BY <1>1, <1>3, <1>4, <1>5, <1>6

\* The pending copies still fit, or no copy of unknown tier is made.
LEMMA EndingSpace ==
    ASSUME ItemsOk, SpaceInv, dest.free \in Nat, dest'.free \in Nat,
           NEW i \in job.items, i.st = "pending", NEW j, NEW st, EndedAs(i, j, st), st # "pending",
           job'.items = (job.items \ {i}) \cup {j},
           run'.at = run.at, run.at \in {"hold", "links", "items"}, hist'.starved = hist.starved,
           \/ dest'.free = dest.free /\ (st # "done" \/ i.act # "copy")
           \/ run.at = "items" /\ i.act \in {"copy", "update"} /\ dest'.free \in {dest.free, dest.free - 1}
           \/ i.act = "link" /\ Bytes = 0
    PROVE  SpaceInv'
<1>1. /\ UnknownCopies' \subseteq UnknownCopies
      /\ Bytes \in Nat /\ Bytes' \in Nat
      /\ Bytes' = IF i.act \in {"copy", "update"} THEN Bytes - 1 ELSE Bytes
    BY EndingBytes
<1>2. hist'.starved = {}
    BY DEF SpaceInv
<1>3. NoUnknownDone /\ ~(st = "done" /\ i.act = "copy" /\ i.unknown) => NoUnknownDone'
    BY DEF NoUnknownDone, EndedAs
<1>4. CASE i.act = "link" /\ Bytes = 0
  <2>1. Bytes' = 0 /\ Bytes' <= dest'.free
    BY <1>1, <1>4
  <2>. QED
    BY <1>2, <2>1 DEF SpaceInv
<1>5. CASE dest'.free = dest.free /\ (st # "done" \/ i.act # "copy")
  <2>1. Bytes <= dest.free => Bytes' <= dest'.free
    BY <1>1, <1>5
  <2>. QED
    BY <1>1, <1>2, <1>3, <1>5, <2>1 DEF SpaceInv
<1>6. CASE run.at = "items" /\ i.act \in {"copy", "update"} /\ dest'.free \in {dest.free, dest.free - 1}
  <2>1. Bytes <= dest.free => Bytes' <= dest'.free
    BY <1>1, <1>6
  <2>2. CASE Bytes <= dest.free
    BY <1>2, <2>1, <2>2 DEF SpaceInv
  <2>3. CASE ~(Bytes <= dest.free)
    <3>1. NoUnknownDone /\ UnknownCopies = {}
      BY <1>6, <2>3 DEF SpaceInv
    <3>2. ~(i.act = "copy" /\ i.unknown)
      BY <3>1 DEF UnknownCopies, PendingItems
    <3>. QED
      BY <1>1, <1>2, <1>3, <3>1, <3>2 DEF SpaceInv
  <2>. QED
    BY <2>2, <2>3
<1>. QED
    BY <1>4, <1>5, <1>6

-----------------------------------------------------------------------------
(* The plan.                                                               *)

\* What a planned item is.
PlannedAs(k) ==
    /\ ItemShape(k) /\ k.n \in Scope /\ k.old = dest.live[k.n] /\ (k.act = "update" => k.old # 0)
    /\ \/ IsContent(k) /\ cat[k.n] # 0 /\ k.v = cat[k.n] /\ Full(k.n)
       \/ /\ k.act = "retain" /\ cat[k.n] = 0 /\ k.v = dest.live[k.n]
          /\ Targeted => \E c \in Content : Folder[c.n] = Folder[k.n]
       \/ k.act = "release" /\ cat[k.n] # 0 /\ k.v = dest.live[k.n] /\ ~Full(k.n)

LEMMA PlannedItem ==
    ASSUME NEW k \in Planned
    PROVE  PlannedAs(k) /\ k.st = "pending" /\ (k \in Content => IsContent(k))
<1>1. \A n, act, v, prim : LET m == Item(n, act, v, prim) IN
          ItemShape(m) /\ m.n = n /\ m.act = act /\ m.v = v /\ m.st = "pending" /\ m.old = dest.live[n]
    BY DEF Item, ItemShape
<1>2. CASE k \in Content
  <2>1. PICK n, act, prim :
          /\ n \in Scope /\ act \in ContentActs /\ k = Item(n, act, cat[n], prim) /\ cat[n] # 0 /\ Full(n)
          /\ act = "update" => dest.live[n] # 0
    BY <1>2 DEF Content, ContentActs
  <2>. QED
    BY <1>1, <2>1 DEF PlannedAs, IsContent
<1>3. CASE \E n \in Vanished : k = Item(n, "retain", dest.live[n], n)
  <2>1. PICK n \in Vanished : k = Item(n, "retain", dest.live[n], n)
    BY <1>3
  <2>2. ItemShape(k) /\ k.n = n /\ k.act = "retain" /\ k.v = dest.live[n] /\ k.st = "pending" /\ k.old = k.v
    BY <1>1, <2>1
  <2>3. n \in Scope /\ cat[n] = 0 /\ (Targeted => \E c \in Content : Folder[c.n] = Folder[n])
    BY <2>1 DEF Vanished
  <2>4. k \notin Content
    BY <1>1, <2>2 DEF Content
  <2>. QED
    BY <2>2, <2>3, <2>4 DEF PlannedAs
<1>4. CASE \E n \in Released : k = Item(n, "release", dest.live[n], n)
  <2>1. PICK n \in Released : k = Item(n, "release", dest.live[n], n)
    BY <1>4
  <2>2. ItemShape(k) /\ k.n = n /\ k.act = "release" /\ k.v = dest.live[n] /\ k.st = "pending" /\ k.old = k.v
    BY <1>1, <2>1
  <2>3. n \in Scope /\ cat[n] # 0 /\ ~Full(n)
    BY <2>1 DEF Released
  <2>4. k \notin Content
    BY <1>1, <2>2 DEF Content
  <2>. QED
    BY <2>2, <2>3, <2>4 DEF PlannedAs
<1>. QED
    BY <1>2, <1>3, <1>4 DEF Planned

\* A plan has one item of a name.
LEMMA PlannedOnce ==
    ASSUME NEW i \in Planned, NEW k \in Planned, i.n = k.n
    PROVE  i = k
<1>. DEFINE Put(n) == Item(n, IF dest.live[n] = 0 THEN "copy" ELSE "update", cat[n], n)
            Lnk(n) == Item(n, "link", cat[n], Primary(n))
            OneOf(x) == LET n == x.n IN
                \/ cat[n] # 0 /\ Full(n) /\ Twin(n) /\ Full(Primary(n)) /\ x = Lnk(n)
                \/ cat[n] # 0 /\ Full(n) /\ ~(Twin(n) /\ Full(Primary(n))) /\ x = Put(n)
                \/ cat[n] = 0 /\ x = Item(n, "retain", dest.live[n], n)
                \/ cat[n] # 0 /\ ~Full(n) /\ x = Item(n, "release", dest.live[n], n)
<1>1. \A n, act, v, prim : Item(n, act, v, prim).n = n
    BY DEF Item
<1>2. ASSUME NEW x \in Planned
      PROVE  OneOf(x)
  <2>1. CASE x \in Content
    BY <1>1, <2>1 DEF Content
  <2>2. CASE \E n \in Vanished : x = Item(n, "retain", dest.live[n], n)
    BY <1>1, <2>2 DEF Vanished
  <2>3. CASE \E n \in Released : x = Item(n, "release", dest.live[n], n)
    BY <1>1, <2>3 DEF Released
  <2>. QED
    BY <2>1, <2>2, <2>3 DEF Planned
<1>3. OneOf(i) /\ OneOf(k)
    BY <1>2
<1>. HIDE DEF Put, Lnk
<1>. QED
    BY <1>3

\* A file of the scope that is not backed up as catalogued, and not skipped, has content planned.
LEMMA PlannedContent ==
    ASSUME NEW n \in Scope, cat[n] # 0, Full(n), dest.live[n] # cat[n]
    PROVE  \E k \in Content : k.n = n
<1>1. \A act, v, prim : Item(n, act, v, prim).n = n
    BY DEF Item
<1>. QED
    BY <1>1 DEF Content

\* k is m, held by the guard or not.
Similar(k, m) ==
    /\ ItemShape(k) /\ k.n = m.n /\ k.act = m.act /\ k.v = m.v /\ k.st \in {"pending", "held"}
    /\ SameToGuard(m, k) /\ k.old = m.old
HeldAs(m) == [m EXCEPT !.st = "held"]

LEMMA HeldSimilar ==
    ASSUME NEW m \in Planned
    PROVE  Similar(m, m) /\ Similar(HeldAs(m), m) /\ HeldAs(m).st = "held"
<1>1. ItemShape(m) /\ m.st = "pending"
    BY PlannedItem DEF PlannedAs
<1>. DEFINE h == HeldAs(m)
<1>2. h = [n |-> m.n, act |-> m.act, v |-> m.v, old |-> m.old, prim |-> m.prim, unknown |-> m.unknown, rev |-> m.rev,
           st |-> "held"]
    BY <1>1 DEF ItemShape, HeldAs
<1>3. /\ ItemShape(h) /\ h.n = m.n /\ h.act = m.act /\ h.v = m.v /\ h.st = "held" /\ h.old = m.old /\ h.prim = m.prim
      /\ h.unknown = m.unknown
    BY <1>2 DEF ItemShape
<1>. HIDE DEF h
<1>4. SameToGuard(m, h) /\ SameToGuard(m, m)
    BY <1>3 DEF SameToGuard, Change, Shrink, After
<1>. QED
    BY <1>1, <1>3, <1>4 DEF Similar, h

\* What the guard makes of a planned item.
AsGuarded(m) ==
    IF ~job.allow /\ Stopped(m, Planned, Live) THEN HeldAs(m) ELSE m

LEMMA GuardedAs == Guarded(Planned, Live) = {AsGuarded(m) : m \in Planned}
<1>1. CASE job.allow
    BY <1>1 DEF Guarded, AsGuarded
<1>2. CASE ~job.allow
    BY <1>2 DEF Guarded, AsGuarded, HeldAs
<1>. QED
    BY <1>1, <1>2

LEMMA GuardedItems ==
    /\ \A m \in Planned : AsGuarded(m) \in Guarded(Planned, Live) /\ Similar(AsGuarded(m), m)
    /\ \A k \in Guarded(Planned, Live) : \E m \in Planned : Similar(k, m) /\ k = AsGuarded(m)
BY GuardedAs, HeldSimilar DEF AsGuarded

\* The values of a function at finitely many arguments are finitely many.
LEMMA ImageFinite ==
    ASSUME NEW S, IsFiniteSet(S), NEW f
    PROVE  IsFiniteSet({f[x] : x \in S})
<1>. DEFINE T == {f[x] : x \in S}
            g == [x \in S |-> f[x]]
<1>1. g \in Surjection(S, T)
    BY DEF Surjection
<1>. HIDE DEF T, g
<1>2. IsFiniteSet(T)
    BY <1>1, FS_Surjection
<1>. QED
    BY <1>2 DEF T

\* A plan has finitely many items.
LEMMA PlannedFinite ==
    IsFiniteSet(Planned) /\ IsFiniteSet(Guarded(Planned, Live))
<1>0. IsFiniteSet(Names) /\ \A S : S \subseteq Names => IsFiniteSet(S)
    BY WorldsAssumption, FS_Subset
<1>. DEFINE fl == [n \in Names |-> Item(n, "link", cat[n], Primary(n))]
            fc == [n \in Names |-> Item(n, IF dest.live[n] = 0 THEN "copy" ELSE "update", cat[n], n)]
            fr == [n \in Names |-> Item(n, "retain", dest.live[n], n)]
            fs == [n \in Names |-> Item(n, "release", dest.live[n], n)]
            A == {m \in Scope : cat[m] # 0 /\ Full(m) /\ dest.live[m] # cat[m] /\ Twin(m) /\ Full(Primary(m))}
            B == {m \in Scope : cat[m] # 0 /\ Full(m) /\ dest.live[m] # cat[m] /\ ~(Twin(m) /\ Full(Primary(m)))}
<1>1. A \subseteq Names /\ B \subseteq Names /\ Vanished \subseteq Names /\ Released \subseteq Names
    BY DEF Scope, Vanished, Released
<1>2. /\ IsFiniteSet({fl[n] : n \in A}) /\ IsFiniteSet({fc[n] : n \in B})
      /\ IsFiniteSet({fr[n] : n \in Vanished}) /\ IsFiniteSet({fs[n] : n \in Released})
  <2>1. IsFiniteSet(A) /\ IsFiniteSet(B) /\ IsFiniteSet(Vanished) /\ IsFiniteSet(Released)
    BY <1>0, <1>1
  <2>. HIDE DEF A, B, fl, fc, fr, fs
  <2>. QED
    BY <2>1, ImageFinite
<1>3. Content = {fl[n] : n \in A} \cup {fc[n] : n \in B}
  <2>1. {fl[n] : n \in A} = {Item(n, "link", cat[n], Primary(n)) : n \in A}
    BY <1>1
  <2>2. {fc[n] : n \in B} = {Item(n, IF dest.live[n] = 0 THEN "copy" ELSE "update", cat[n], n) : n \in B}
    BY <1>1
  <2>. QED
    BY <2>1, <2>2 DEF Content
<1>4. Planned = Content \cup {fr[n] : n \in Vanished} \cup {fs[n] : n \in Released}
  <2>1. {fr[n] : n \in Vanished} = {Item(n, "retain", dest.live[n], n) : n \in Vanished}
    BY <1>1
  <2>2. {fs[n] : n \in Released} = {Item(n, "release", dest.live[n], n) : n \in Released}
    BY <1>1
  <2>. QED
    BY <2>1, <2>2 DEF Planned
<1>5. IsFiniteSet(Planned)
  <2>. HIDE DEF A, B, fl, fc, fr, fs
  <2>1. IsFiniteSet(Content)
    BY <1>2, <1>3, FS_Union
  <2>2. IsFiniteSet(Content \cup {fr[n] : n \in Vanished})
    BY <1>2, <2>1, FS_Union
  <2>. QED
    BY <1>2, <1>4, <2>2, FS_Union
<1>6. IsFiniteSet(Guarded(Planned, Live))
  <2>. DEFINE g == [m \in Planned |-> AsGuarded(m)]
  <2>1. {g[m] : m \in Planned} = Guarded(Planned, Live)
    BY GuardedAs
  <2>2. IsFiniteSet({g[i] : i \in Planned})
    <3>. HIDE DEF g
    <3>. QED
      BY <1>5, ImageFinite
  <2>. QED
    BY <2>1, <2>2
<1>. QED
    BY <1>5, <1>6

\* One item of a name, guarded or not.
LEMMA GuardedOnce ==
    ASSUME NEW k1 \in Guarded(Planned, Live), NEW k2 \in Guarded(Planned, Live), k1.n = k2.n
    PROVE  k1 = k2
<1>1. PICK m1 \in Planned : Similar(k1, m1) /\ k1 = AsGuarded(m1)
    BY GuardedItems
<1>2. PICK m2 \in Planned : Similar(k2, m2) /\ k2 = AsGuarded(m2)
    BY GuardedItems
<1>3. m1.n = m2.n
    BY <1>1, <1>2 DEF Similar
<1>4. m1 = m2
    BY <1>3, PlannedOnce
<1>. QED
    BY <1>1, <1>2, <1>4

\* The guard counts as many changes in the plan as it leaves in it.
LEMMA GuardedCount ==
    Cardinality({k \in Guarded(Planned, Live) : Change(k)}) = Cardinality({m \in Planned : Change(m)})
<1>. DEFINE S == {m \in Planned : Change(m)}
            T == {k \in Guarded(Planned, Live) : Change(k)}
            g == [m \in S |-> AsGuarded(m)]
<1>0. IsFiniteSet(S) /\ IsFiniteSet(T)
    BY PlannedFinite, FS_Subset
<1>1. \A m \in S : g[m] \in T
    BY GuardedItems DEF Similar, SameToGuard
<1>2. \A m1, m2 \in S : g[m1] = g[m2] => m1 = m2
  <2>1. ASSUME NEW m1 \in S, NEW m2 \in S, g[m1] = g[m2]
        PROVE  m1 = m2
    <3>1. g[m1].n = m1.n /\ g[m2].n = m2.n
      BY GuardedItems DEF Similar
    <3>2. m1.n = m2.n
      BY <2>1, <3>1
    <3>. QED
      BY <3>2, PlannedOnce
  <2>. QED
    BY <2>1
<1>3. \A k \in T : \E m \in S : g[m] = k
    BY GuardedItems DEF Similar, SameToGuard
<1>4. g \in Bijection(S, T)
  <2>1. g \in [S -> T]
    BY <1>1
  <2>. HIDE DEF g, S, T
  <2>. QED
    BY <1>2, <1>3, <2>1 DEF Bijection, Injection, Surjection, IsInjective
<1>. HIDE DEF S, T, g
<1>5. Cardinality(S) = Cardinality(T)
    BY <1>0, <1>4, FS_Bijection DEF ExistsBijection
<1>. QED
    BY <1>5 DEF S, T

\* What the guard would stop in what it left is held.
LEMMA GuardedStopped ==
    ASSUME ~job.allow, NEW k \in Guarded(Planned, Live), Stopped(k, Guarded(Planned, Live), Live)
    PROVE  k.st = "held"
<1>. DEFINE G == Guarded(Planned, Live)
<1>1. PICK m \in Planned : Similar(k, m) /\ k = AsGuarded(m)
    BY GuardedItems
<1>2. Limited(G, Live) = Limited(Planned, Live)
    BY GuardedCount DEF Limited
<1>3. ASSUME NEW a, NEW b, Similar(a, b), Suspect(a, G, Live)
      PROVE  Suspect(b, Planned, Live)
    BY <1>2, <1>3 DEF Suspect, Similar, SameToGuard
<1>4. Stopped(m, Planned, Live)
  <2>1. CASE Suspect(k, G, Live)
    BY <1>1, <1>3, <2>1 DEF Stopped
  <2>2. CASE \E p \in G : After(k, p) /\ Suspect(p, G, Live)
    <3>1. PICK p \in G : After(k, p) /\ Suspect(p, G, Live)
      BY <2>2
    <3>2. PICK q \in Planned : Similar(p, q)
      BY GuardedItems
    <3>3. After(m, q) /\ Suspect(q, Planned, Live)
      BY <1>1, <1>3, <3>1, <3>2 DEF Similar, SameToGuard
    <3>. QED
      BY <3>3 DEF Stopped
  <2>. QED
    BY <2>1, <2>2 DEF Stopped
<1>. QED
    BY <1>1, <1>4, HeldSimilar DEF AsGuarded

\* A new plan: what it promises of upgrades, space, the guard and expected files.
LEMMA PlanKept ==
    ASSUME BaseInv, UpgradeInv, SpaceInv, GuardInv, MissInv, Plan
    PROVE  PromiseInv'
<1>0. /\ JobShape /\ RunShape /\ HistShape /\ DestShape
      /\ world \in Worlds /\ cat \in [Names -> Nat] /\ disk \in [arr : [Names -> Nat], view : [Names -> Nat]]
      /\ dest.live \in [Names -> Nat] /\ dest.free \in Nat /\ run.warns \in Nat
    BY DEF BaseInv, Shapes
<1>1. /\ UNCHANGED <<world, used, disk, cat, dest, rules, source, shown, hist>>
      /\ JobShape' /\ job'.items = Guarded(Planned, Live) /\ job'.kind = job.kind /\ job'.st = job.st
      /\ job'.allow = job.allow /\ job'.live = Live
      /\ RunShape' /\ run'.at = AfterPlan /\ run'.nonfull = {n \in Scope : cat[n] # 0 /\ ~Full(n)}
      /\ run'.cur = run.cur /\ run'.warns = run.warns /\ run'.want = run.want
    BY <1>0 DEF Plan, Same, JobShape, RunShape
<1>2. run.at = "plan" /\ run.cur = None /\ hist.starved = {} /\ hist.uncovered = {}
    BY DEF Plan, UpgradeInv, SpaceInv
<1>3. Scope \subseteq Names
    BY DEF Scope
<1>4. \A k \in Guarded(Planned, Live) : \E m \in Planned : Similar(k, m) /\ PlannedAs(m)
    BY GuardedItems, PlannedItem
<1>5. BaseInv'
  <2>1. ASSUME NEW k \in Guarded(Planned, Live)
        PROVE  ItemOk(k)'
    <3>1. PICK m \in Planned : Similar(k, m) /\ PlannedAs(m)
      BY <1>4
    <3>2. k.n \in Names /\ k.v \in Nat
      BY <1>0, <1>3, <3>1 DEF Similar, PlannedAs
    <3>3. IsContent(k) => k.v # 0 /\ Full(k.n)
      BY <3>1 DEF Similar, PlannedAs, IsContent, ContentActs
    <3>4. ItemShape(k)
      BY <3>1 DEF Similar
    <3>5. IsContent(k)' = IsContent(k)
      BY DEF IsContent, ContentActs
    <3>6. k.old = dest.live[k.n] /\ k.old \in Nat /\ (k.act = "update" => k.old # 0)
      BY <1>0, <3>1, <3>2 DEF Similar, PlannedAs
    <3>. QED
      BY <1>1, <3>2, <3>3, <3>4, <3>5, <3>6 DEF ItemOk, ItemShape
  <2>2. OneEach'
    BY <1>1, GuardedOnce DEF OneEach
  <2>3. ItemsOk'
    BY <1>1, <2>1, <2>2, PlannedFinite DEF ItemsOk
  <2>4. Live \in Nat
    <3>1. IsFiniteSet({n \in Names : cat[n] # 0})
      BY WorldsAssumption, FS_Subset
    <3>. QED
      BY <3>1, FS_CardinalityType DEF Live
  <2>. QED
    BY <1>0, <1>1, <2>3, <2>4 DEF BaseInv, Shapes, HistShape, DestShape
<1>6. UpgradeInv'
    BY <1>1, <1>2 DEF UpgradeInv
<1>7. SpaceInv'
  <2>1. NoUnknownDone'
    BY <1>1, <1>4 DEF NoUnknownDone, Similar
  <2>2. run'.at \notin {"links", "items"}
    BY <1>1 DEF AfterPlan
  <2>. QED
    BY <1>1, <1>2, <2>1, <2>2 DEF SpaceInv
<1>8. GuardInv'
  <2>1. ASSUME Targeted, NEW k \in Guarded(Planned, Live), k.act = "retain"
        PROVE  \E c \in Guarded(Planned, Live) : c.act \in ContentActs /\ Folder[c.n] = Folder[k.n]
    <3>1. PICK m \in Planned : Similar(k, m) /\ PlannedAs(m)
      BY <1>4
    <3>2. m.act = "retain" /\ m.n = k.n
      BY <2>1, <3>1 DEF Similar
    <3>3. PICK c \in Content : Folder[c.n] = Folder[m.n]
      BY <2>1, <3>1, <3>2 DEF PlannedAs, IsContent, ContentActs
    <3>4. c \in Planned
      BY DEF Planned
    <3>5. IsContent(c)
      BY <3>4, PlannedItem
    <3>6. PICK d \in Guarded(Planned, Live) : Similar(d, c)
      BY <3>4, GuardedItems
    <3>. QED
      BY <3>2, <3>3, <3>5, <3>6 DEF Similar, IsContent
  <2>2. RetainsBesideContent'
    BY <1>1, <2>1 DEF RetainsBesideContent, Targeted, ContentActs
  <2>3. \A k : (Stopped(k, job.items, job.live))' = Stopped(k, Guarded(Planned, Live), Live)
    BY <1>1 DEF Stopped, Suspect, Limited, Within, Change, Shrink, Shrinks, After
  <2>4. \A k \in Guarded(Planned, Live) : k.st # "done"
    BY <1>4 DEF Similar
  <2>. QED
    BY <1>1, <2>2, <2>3, <2>4, GuardedStopped DEF GuardInv
<1>9. MissInv'
  <2>1. Scope' = Scope /\ Targeted' = Targeted /\ (Targeted => run'.at = "space")
    BY <1>1 DEF Scope, Targeted, AfterPlan, Preview
  <2>2. run'.at \in {"space", "end"}
    BY <1>1 DEF AfterPlan
  <2>3. ASSUME Targeted, run.warns = 0, NEW n \in Names, Wanted(n)'
        PROVE  n \in Scope /\ cat[n] = run.want[n] /\ cat[n] # 0 /\ Full(n)
    <3>1. n \in Scope /\ n \notin run'.nonfull /\ run.want[n] # 0
      BY <1>1, <2>1, <2>3 DEF Wanted
    <3>2. cat[n] = run.want[n]
      BY <1>2, <2>3, <3>1 DEF MissInv
    <3>. QED
      BY <1>1, <3>1, <3>2
  <2>4. ASSUME Targeted, run.warns = 0, NEW k \in Guarded(Planned, Live), Wanted(k.n)'
        PROVE  IsContent(k) /\ k.v = run.want[k.n]
    <3>1. PICK m \in Planned : Similar(k, m) /\ PlannedAs(m)
      BY <1>4
    <3>2. m.n = k.n /\ m.act = k.act /\ m.v = k.v /\ k.n \in Names
      BY <1>3, <3>1 DEF Similar, PlannedAs
    <3>3. cat[k.n] = run.want[k.n] /\ cat[k.n] # 0 /\ Full(k.n)
      BY <2>3, <2>4, <3>2
    <3>. QED
      BY <3>1, <3>2, <3>3 DEF PlannedAs, IsContent
  <2>5. ASSUME Targeted, run.warns = 0, NEW n \in Names, Wanted(n)', dest.live[n] # run.want[n]
        PROVE  \E k \in Guarded(Planned, Live) : k.n = n /\ Left(k)
    <3>1. n \in Scope /\ cat[n] = run.want[n] /\ cat[n] # 0 /\ Full(n)
      BY <2>3, <2>5
    <3>2. PICK c \in Content : c.n = n
      BY <2>5, <3>1, PlannedContent
    <3>3. PICK k \in Guarded(Planned, Live) : Similar(k, c)
      BY <3>2, GuardedItems DEF Planned
    <3>. QED
      BY <3>2, <3>3 DEF Similar, Left
  <2>6. \A k : IsContent(k)' = IsContent(k) /\ Left(k)' = Left(k)
    BY DEF IsContent, ContentActs, Left
  <2>7. ASSUME Targeted, run.warns = 0, NEW n \in Names, Wanted(n)'
        PROVE  Covered(n, dest.live[n], job.items)'
    BY <1>1, <2>5, <2>6, <2>7 DEF Covered
  <2>. QED
    BY <1>1, <2>1, <2>2, <2>4, <2>6, <2>7 DEF MissInv
<1>. QED
    BY <1>5, <1>6, <1>7, <1>8, <1>9 DEF PromiseInv

-----------------------------------------------------------------------------
(* Steps that end no item.                                                 *)

\* The guard is about the items, the destination and the job's permission.
LEMMA GuardUnmoved ==
    ASSUME GuardInv, UNCHANGED <<world, dest>>, job'.items = job.items, job'.kind = job.kind, job'.allow = job.allow,
           job'.live = job.live
    PROVE  GuardInv'
<1>1. \A k : (Stopped(k, job.items, job.live))' = Stopped(k, job.items, job.live)
    BY DEF Stopped, Suspect, Limited, Within, Change, Shrink, Shrinks, After
<1>2. RetainsBesideContent'
    BY DEF GuardInv, RetainsBesideContent, Targeted, ContentActs
<1>. QED
    BY <1>1, <1>2, GuardStatic DEF GuardInv

\* The attempt goes on or ends, with the items and the destination as they are.
LEMMA RunMoves ==
    ASSUME BaseInv, UpgradeInv, SpaceInv, GuardInv, JobShape', RunShape', HistShape', UNCHANGED <<world, dest>>,
           cat' \in [Names -> Nat], disk' \in [arr : [Names -> Nat], view : [Names -> Nat]],
           job'.items = job.items, job'.kind = job.kind, job'.allow = job.allow, job'.live = job.live,
           run'.warns \in Nat, hist'.uncovered = hist.uncovered,
           run'.nonfull = run.nonfull \/ run'.nonfull = {},
           \/ run'.cur = None
           \/ UNCHANGED cat /\ run'.cur = run.cur /\ hist'.steady = hist.steady /\ run'.at \in {"items", "end"},
           run'.at \in {"links", "items"} => Bytes <= dest.free \/ UnknownCopies = {},
           hist'.starved # {} => NoUnknownDone /\ run'.at = "idle" /\ job'.st # "queued"
    PROVE  BaseInv' /\ UpgradeInv' /\ SpaceInv' /\ GuardInv'
<1>1. BaseInv'
  <2>1. ItemsOk'
    BY DEF BaseInv, ItemsOk, ItemOk, ItemShape, IsContent, ContentActs, OneEach
  <2>. QED
    BY <2>1 DEF BaseInv, Shapes, DestShape
<1>2. UpgradeInv'
  <2>1. CASE run'.cur = None
    BY <2>1 DEF UpgradeInv
  <2>2. CASE UNCHANGED cat /\ run'.cur = run.cur /\ hist'.steady = hist.steady /\ run'.at \in {"items", "end"}
    <3>1. \A c : Missing(c)' = Missing(c)
      BY <2>2 DEF Missing, BackedUp, IsContent, ContentActs
    <3>. QED
      BY <2>2, <3>1 DEF UpgradeInv
  <2>. QED
    BY <2>1, <2>2
<1>3. SpaceInv'
  <2>1. Bytes' = Bytes /\ UnknownCopies' = UnknownCopies /\ NoUnknownDone' = NoUnknownDone
    BY DEF Bytes, UnknownCopies, NoUnknownDone, PendingItems
  <2>. QED
    BY <2>1 DEF SpaceInv
<1>4. GuardInv'
    BY GuardUnmoved
<1>. QED
    BY <1>1, <1>2, <1>3, <1>4

\* A job without items promises nothing yet.
LEMMA NoItems ==
    ASSUME BaseInv, UpgradeInv, JobShape', RunShape', HistShape', UNCHANGED <<world, dest, cat, disk>>,
           job'.items = {}, job'.live \in Nat, run'.warns \in Nat, run'.cur = None, run'.at \in {"open", "scan"},
           hist'.uncovered = hist.uncovered, hist'.starved = {}
    PROVE  BaseInv' /\ UpgradeInv' /\ SpaceInv' /\ GuardInv'
<1>1. BaseInv'
  <2>1. ItemsOk'
    BY FS_EmptySet DEF ItemsOk, OneEach
  <2>. QED
    BY <2>1 DEF BaseInv, Shapes, DestShape
<1>2. UpgradeInv' /\ SpaceInv'
    BY DEF UpgradeInv, SpaceInv, NoUnknownDone
<1>3. GuardInv'
    BY DEF GuardInv, RetainsBesideContent
<1>. QED
    BY <1>1, <1>2, <1>3

\* Before the plan nothing is wanted.
LEMMA NothingWanted ==
    ASSUME run'.want = NoFiles, run'.at # "plan", run'.at = "end" => ~Targeted'
    PROVE  MissInv'
<1>1. \A n \in Names : ~Wanted(n)'
    BY DEF Wanted, NoFiles
<1>2. \A i \in job'.items : Wanted(i.n)' => i.n \in Names
    BY DEF Wanted, Scope
<1>. QED
    BY <1>1, <1>2 DEF MissInv

\* The attempt goes on from its plan.
LEMMA StillWanted ==
    ASSUME MissInv, run.at \in Running, run'.at \in Running \cup {"fail"}, UNCHANGED dest,
           job'.items = job.items, job'.kind = job.kind,
           run'.want = run.want, run'.nonfull = run.nonfull, run'.warns = run.warns,
           run'.at = "end" /\ Targeted => \A i \in job.items : IsContent(i) => i.st # "pending"
    PROVE  MissInv'
<1>1. Scope' = Scope /\ Targeted' = Targeted /\ \A n : Wanted(n)' = Wanted(n)
    BY DEF Scope, Targeted, Wanted
<1>2. \A k : IsContent(k)' = IsContent(k) /\ Left(k)' = Left(k)
    BY DEF IsContent, ContentActs, Left
<1>3. \A n : Covered(n, dest.live[n], job.items)' = Covered(n, dest.live[n], job.items)
    BY <1>2 DEF Covered
<1>. QED
    BY <1>1, <1>2, <1>3 DEF MissInv, Running

\* The scan: what the *arr expects is catalogued, or is a warning.
LEMMA ScanKept ==
    ASSUME BaseInv, UpgradeInv, SpaceInv, GuardInv, MissInv, Scan \/ Rescan
    PROVE  PromiseInv'
<1>0. /\ JobShape /\ RunShape /\ HistShape /\ cat \in [Names -> Nat] /\ run.warns \in Nat
      /\ disk \in [arr : [Names -> Nat], view : [Names -> Nat]]
    BY DEF BaseInv, Shapes
<1>1. run.at \in {"scan", "wait"} /\ run.want = NoFiles /\ run.cur = None
    BY DEF Scan, Rescan, MissInv, UpgradeInv
<1>2. hist.starved = {} /\ UNCHANGED <<world, disk, rules, dest, hist>> /\ HistShape'
    BY <1>0, <1>1 DEF Scan, Rescan, Same, SpaceInv, HistShape
<1>3. CASE Dropped
  <2>1. /\ JobShape' /\ job'.items = job.items /\ job'.kind = job.kind /\ job'.allow = job.allow /\ job'.live = job.live
        /\ UNCHANGED cat
        /\ RunShape' /\ run'.at = AfterPlan /\ run'.nonfull = run.nonfull /\ run'.cur = run.cur
        /\ run'.warns = run.warns /\ run'.want = run.want
    BY <1>0, <1>3 DEF Dropped, JobShape, RunShape
  <2>2. run'.at \notin {"links", "items", "plan"} /\ (run'.at = "end" => ~Targeted')
    BY <2>1 DEF AfterPlan, Targeted, Preview
  <2>3. MissInv'
    BY <1>1, <2>1, <2>2, NothingWanted
  <2>. QED
    BY <1>0, <1>1, <1>2, <2>1, <2>2, <2>3, RunMoves DEF PromiseInv
<1>4. CASE cat' = Scanned /\ Checked(cat') /\ UNCHANGED job
  <2>1. cat' \in [Names -> Nat]
    BY <1>0, <1>4 DEF Scanned
  <2>2. JobShape' /\ Scope' = Scope /\ Targeted' = Targeted
    BY <1>0, <1>4 DEF JobShape, Scope, Targeted
  <2>. DEFINE E == Expected(cat')
  <2>3. IsFiniteSet(E) /\ Cardinality(E) \in Nat /\ (Cardinality(E) = 0 => E = {})
    <3>1. E \subseteq Names
      BY DEF Expected, Scope
    <3>2. IsFiniteSet(E)
      BY <3>1, WorldsAssumption, FS_Subset
    <3>. HIDE DEF E
    <3>. QED
      BY <3>2, FS_CardinalityType, FS_EmptySet
  <2>4. CASE /\ Targeted /\ Pending(cat') # {} /\ run.waits > 0
             /\ run' = [run EXCEPT !.at = "wait", !.waits = @ - 1, !.ed = source.ed]
    <3>1. /\ RunShape' /\ run'.at = "wait" /\ run'.nonfull = run.nonfull /\ run'.cur = run.cur
          /\ run'.warns = run.warns /\ run'.want = run.want
      BY <1>0, <2>4 DEF RunShape
    <3>2. MissInv'
      BY <1>1, <3>1, NothingWanted
    <3>. QED
      BY <1>0, <1>1, <1>2, <1>4, <2>1, <2>2, <3>1, <3>2, RunMoves DEF PromiseInv
  <2>5. CASE run' = [run EXCEPT !.at = "plan", !.ed = source.ed, !.want = IF Targeted THEN disk.arr ELSE NoFiles,
                                !.warns = @ + IF Targeted THEN Cardinality(Expected(cat')) ELSE 0]
    <3>1. /\ RunShape' /\ run'.at = "plan" /\ run'.nonfull = run.nonfull /\ run'.cur = run.cur
          /\ run'.want = IF Targeted THEN disk.arr ELSE NoFiles
          /\ run'.warns = run.warns + IF Targeted THEN Cardinality(E) ELSE 0
      BY <1>0, <2>5 DEF RunShape
    <3>. HIDE DEF E
    <3>2. run'.warns \in Nat /\ (Targeted /\ run'.warns = 0 => E = {})
      BY <1>0, <2>3, <3>1
    <3>3. ASSUME Targeted, run'.warns = 0, NEW n \in Scope, run'.want[n] # 0
          PROVE  cat'[n] = run'.want[n]
      BY <3>1, <3>2, <3>3 DEF E, Expected
    <3>4. MissInv'
      BY <2>2, <3>1, <3>3 DEF MissInv, Running
    <3>. QED
      BY <1>0, <1>1, <1>2, <1>4, <2>1, <2>2, <3>1, <3>2, <3>4, RunMoves DEF PromiseInv
  <2>. QED
    BY <1>4, <2>4, <2>5 DEF Checked
<1>. QED
    BY <1>3, <1>4 DEF Scan, Rescan

-----------------------------------------------------------------------------
(* Steps that end an item.                                                 *)

\* What every such step leaves as it is, and what it must respect.
LEMMA EndingKept ==
    ASSUME BaseInv, UpgradeInv, SpaceInv, GuardInv, MissInv, NEW i, NEW st, Ending(i, st),
           RunShape', HistShape', DestShape', UNCHANGED <<world, cat, disk>>,
           dest'.live \in [Names -> Nat], dest'.free \in Nat, run'.warns \in Nat,
           run.at \in {"hold", "links", "items"}, run'.at = run.at, run'.nonfull = run.nonfull, run'.want = run.want,
           run'.cur = run.cur, run'.warns = 0 => run.warns = 0,
           hist'.uncovered = hist.uncovered, hist'.steady = hist.steady, hist'.starved = hist.starved,
           \A n \in Names : n # i.n => dest'.live[n] = dest.live[n],
           \A n \in Names : cat[n] # 0 /\ BackedUp(n) => BackedUp(n)',
           IsContent(i) => \/ st \in {"failed", "held"}
                           \/ st = "done" /\ dest'.live[i.n] # 0
                           \/ run'.warns # 0,
           ~job.allow /\ i.act = "update" /\ st = "done" => ~Shrinks(dest'.live[i.n], i.old),
           \/ dest'.free = dest.free /\ (st # "done" \/ i.act # "copy")
           \/ run.at = "items" /\ i.act \in {"copy", "update"} /\ dest'.free \in {dest.free, dest.free - 1}
           \/ i.act = "link" /\ Bytes = 0
    PROVE  PromiseInv'
<1>1. JobShape /\ ItemsOk /\ ItemShape(i) /\ i \in job.items /\ i.st = "pending" /\ st # "pending" /\ dest.free \in Nat
    BY DEF BaseInv, Shapes, ItemsOk, ItemOk, Ending
<1>2. PICK j : job'.items = (job.items \ {i}) \cup {j} /\ EndedAs(i, j, st) /\ SameJob
    BY <1>1, EndingEffect
<1>3. ItemsOk'
    BY <1>1, <1>2, EndingItems
<1>4. BaseInv'
    BY <1>2, <1>3 DEF BaseInv, Shapes, SameJob
<1>5. UpgradeInv'
    BY <1>1, <1>2, EndingUpgrade
<1>6. SpaceInv'
    BY <1>1, <1>2, EndingSpace
<1>7. GuardInv'
    BY <1>1, <1>2, EndingGuard DEF SameJob
<1>8. MissInv'
    BY <1>1, <1>2, EndingMiss DEF SameJob
<1>. QED
    BY <1>4, <1>5, <1>6, <1>7, <1>8 DEF PromiseInv

\* The attempt stays as it is, but for the decisions its releases read.
SameRun ==
    /\ RunShape' /\ run'.at = run.at /\ run'.nonfull = run.nonfull /\ run'.want = run.want /\ run'.cur = run.cur
    /\ run'.warns = run.warns
LEMMA RunUnchanged ==
    ASSUME BaseInv, UNCHANGED run
    PROVE  SameRun
BY DEF BaseInv, Shapes, SameRun, RunShape

\* An item ends and the destination stays as it is.
LEMMA EndingOnly ==
    ASSUME BaseInv, UpgradeInv, SpaceInv, GuardInv, MissInv, NEW i, NEW st, Ending(i, st),
           UNCHANGED <<world, cat, disk, dest, hist>>, run.at \in {"hold", "links", "items"}, st # "done",
           \/ SameRun /\ (IsContent(i) => st # "skipped")
           \/ run' = [run EXCEPT !.warns = @ + 1]
    PROVE  PromiseInv'
<1>1. HistShape' /\ DestShape' /\ dest'.live \in [Names -> Nat] /\ dest'.free \in Nat
    BY DEF BaseInv, Shapes, HistShape, DestShape
<1>2. \A n : BackedUp(n)' = BackedUp(n)
    BY DEF BackedUp
<1>3. st \in {"failed", "skipped", "held"}
    BY DEF Ending
<1>4. /\ RunShape' /\ run'.at = run.at /\ run'.nonfull = run.nonfull /\ run'.want = run.want /\ run'.cur = run.cur
      /\ run'.warns \in Nat /\ (run'.warns = 0 => run.warns = 0)
      /\ IsContent(i) => st \in {"failed", "held"} \/ run'.warns # 0
  <2>1. RunShape /\ run.warns \in Nat
    BY DEF BaseInv, Shapes
  <2>2. CASE SameRun /\ (IsContent(i) => st # "skipped")
    BY <1>3, <2>1, <2>2 DEF SameRun
  <2>3. CASE run' = [run EXCEPT !.warns = @ + 1]
    <3>1. RunShape' /\ run'.at = run.at /\ run'.nonfull = run.nonfull /\ run'.want = run.want /\ run'.cur = run.cur
          /\ run'.warns = run.warns + 1
      BY <2>1, <2>3 DEF RunShape
    <3>. QED
      BY <2>1, <3>1
  <2>. QED
    BY <2>2, <2>3
<1>. QED
    BY <1>1, <1>2, <1>3, <1>4, EndingKept

LEMMA HoldKept ==
    ASSUME BaseInv, UpgradeInv, SpaceInv, GuardInv, MissInv, HoldCopy \/ HoldLink
    PROVE  PromiseInv'
<1>0. JobShape /\ RunShape /\ HistShape /\ run.warns \in Nat /\ run.at \in {"hold", "links"}
    BY DEF BaseInv, Shapes, HoldCopy, HoldLink
<1>1. UNCHANGED <<world, cat, disk, dest, hist>>
    BY DEF HoldCopy, HoldLink, Same
<1>2. CASE (\E i \in job.items : i.st = "pending" /\ job' = Held(i)) /\ UNCHANGED run
  <2>1. PICK i \in job.items : i.st = "pending" /\ job' = Held(i)
    BY <1>2
  <2>2. Ending(i, "held")
    BY <2>1 DEF Ending, Held
  <2>. QED
    BY <1>0, <1>1, <1>2, <2>2, EndingOnly, RunUnchanged
<1>3. CASE /\ Go("links") \/ Go("items")
           /\ UNCHANGED job /\ (Bytes <= dest.free \/ UnknownCopies = {})
  <2>1. /\ RunShape' /\ run'.at \in {"links", "items"} /\ run'.nonfull = run.nonfull /\ run'.cur = run.cur
        /\ run'.warns = run.warns /\ run'.want = run.want
    BY <1>0, <1>3 DEF RunShape, Go
  <2>2. JobShape' /\ HistShape' /\ run.cur = None /\ hist.starved = {}
    BY <1>0, <1>1, <1>3 DEF JobShape, HistShape, UpgradeInv, SpaceInv
  <2>3. MissInv'
    BY <1>0, <1>1, <1>3, <2>1, StillWanted DEF Running
  <2>4. cat \in [Names -> Nat] /\ disk \in [arr : [Names -> Nat], view : [Names -> Nat]]
    BY DEF BaseInv
  <2>. QED
    BY <1>0, <1>1, <1>3, <2>1, <2>2, <2>3, <2>4, RunMoves DEF PromiseInv
<1>4. UnknownCopies \cup LinksOfHeld \subseteq {i \in job.items : i.st = "pending"}
    BY DEF UnknownCopies, LinksOfHeld, PendingItems
<1>5. HoldLink => Bytes <= dest.free \/ UnknownCopies = {}
    BY DEF HoldLink, SpaceInv
<1>. QED
    BY <1>2, <1>3, <1>4, <1>5 DEF HoldCopy, HoldLink

\* A content item runs.
LEMMA ContentKept ==
    ASSUME BaseInv, UpgradeInv, SpaceInv, GuardInv, MissInv, RunContent
    PROVE  PromiseInv'
<1>0. /\ DestShape /\ dest.live \in [Names -> Nat] /\ dest.free \in Nat /\ RunShape /\ HistShape /\ run.warns \in Nat
    BY DEF BaseInv, Shapes
<1>1. PICK i \in NextContent :
        \/ disk.view[i.n] # 0 /\ ~Truncated(i) /\ CostOf(i) <= dest.free /\ dest' = Bring(i) /\ Ends(i, "done")
        \/ (Ends(i, "failed") \/ Ends(i, "held")) /\ UNCHANGED dest
    BY DEF RunContent
<1>2. UNCHANGED <<world, cat, disk, run, hist>> /\ run.at = "items"
    BY DEF RunContent, Same
<1>3. /\ i \in job.items /\ i.st = "pending" /\ IsContent(i)
      /\ i.act \in {"copy", "update"} \/ (i.act = "link" /\ PendingItems({"copy", "update"}) = {})
    BY DEF NextContent, PendingItems, IsContent, ContentActs
<1>4. CASE (Ends(i, "failed") \/ Ends(i, "held")) /\ UNCHANGED dest
  <2>1. Ending(i, "failed") \/ Ending(i, "held")
    BY <1>3, <1>4 DEF Ending, Ends
  <2>. QED
    BY <1>2, <1>4, <2>1, EndingOnly, RunUnchanged
<1>5. CASE disk.view[i.n] # 0 /\ ~Truncated(i) /\ CostOf(i) <= dest.free /\ dest' = Bring(i) /\ Ends(i, "done")
  <2>. DEFINE new == disk.view[i.n]
  <2>1. Ending(i, "done")
    BY <1>3, <1>5 DEF Ending, Ends
  <2>2. i.n \in Names /\ new \in Nat /\ new # 0
    BY <1>3, <1>5 DEF BaseInv, ItemsOk, ItemOk
  <2>3. /\ DestShape' /\ dest'.live = [dest.live EXCEPT ![i.n] = new] /\ dest'.free = dest.free - CostOf(i)
        /\ dest'.kept = IF dest.live[i.n] \in {0, new} THEN dest.kept ELSE dest.kept \cup {<<i.n, dest.live[i.n]>>}
    BY <1>0, <1>5 DEF Bring, DestShape
  <2>4. CostOf(i) \in {0, 1}
    BY DEF CostOf
  <2>5. dest'.free \in Nat
    BY <1>0, <1>5, <2>3, <2>4
  <2>6. dest'.live \in [Names -> Nat] /\ dest'.live[i.n] = new /\ \A n \in Names : n # i.n => dest'.live[n] = dest.live[n]
    BY <1>0, <2>2, <2>3
  <2>7. \A n \in Names : cat[n] # 0 /\ BackedUp(n) => BackedUp(n)'
    <3>. SUFFICES ASSUME NEW n \in Names, cat[n] # 0, BackedUp(n)
                  PROVE  dest'.live[n] = cat[n] \/ <<n, cat[n]>> \in dest'.kept
      BY <1>2 DEF BackedUp
    <3>1. CASE n # i.n
      BY <2>3, <2>6, <3>1 DEF BackedUp
    <3>2. CASE n = i.n
      BY <2>3, <2>6, <3>2 DEF BackedUp
    <3>. QED
      BY <3>1, <3>2
  <2>8. i.act = "link" => Bytes = 0
    BY <1>3, FS_EmptySet DEF Bytes
  <2>9. \/ i.act \in {"copy", "update"} /\ dest'.free \in {dest.free, dest.free - 1}
        \/ i.act = "link" /\ Bytes = 0
    BY <1>0, <1>3, <2>3, <2>4, <2>8
  <2>10. RunShape' /\ HistShape'
    BY <1>0, <1>2 DEF RunShape, HistShape
  <2>11. ASSUME ~job.allow, i.act = "update"
         PROVE  ~Shrinks(new, i.old)
    <3>1. i.old # 0 /\ ~Hardlinks(i) /\ i.old \in Nat /\ dest.live[i.n] = i.old
      BY <1>3, <2>11 DEF BaseInv, ItemsOk, ItemOk, Hardlinks
    <3>2. CASE dest.live[i.n] = new
      BY <3>1, <3>2 DEF Shrinks
    <3>3. CASE dest.live[i.n] # new
      BY <1>5, <2>11, <3>1, <3>3 DEF Truncated, Copies
    <3>. QED
      BY <3>2, <3>3
  <2>. QED
    BY <1>0, <1>2, <2>1, <2>2, <2>3, <2>5, <2>6, <2>7, <2>9, <2>10, <2>11, EndingKept
<1>. QED
    BY <1>1, <1>4, <1>5

\* A record goes to retention.
LEMMA RetentionKept ==
    ASSUME BaseInv, UpgradeInv, SpaceInv, GuardInv, MissInv, NEW i \in job.items, i.st = "pending",
           i.act \in {"retain", "release"}, run.at = "items", dest.live[i.n] = i.v, dest' = ToRetention(i), Ends(i, "done"),
           UNCHANGED <<world, cat, disk>>, SameRun, HistShape',
           hist'.uncovered = hist.uncovered, hist'.steady = hist.steady, hist'.starved = hist.starved
    PROVE  PromiseInv'
<1>0. /\ DestShape /\ dest.live \in [Names -> Nat] /\ dest.free \in Nat /\ RunShape /\ run.warns \in Nat
    BY DEF BaseInv, Shapes
<1>1. Ending(i, "done")
    BY DEF Ending, Ends
<1>2. i.n \in Names /\ ~IsContent(i)
    BY DEF BaseInv, ItemsOk, ItemOk, IsContent, ContentActs
<1>3. /\ DestShape' /\ dest'.live = [dest.live EXCEPT ![i.n] = 0] /\ dest'.free = dest.free
      /\ dest'.kept = dest.kept \cup {<<i.n, i.v>>}
    BY <1>0 DEF ToRetention, DestShape
<1>4. dest'.live \in [Names -> Nat] /\ \A n \in Names : n # i.n => dest'.live[n] = dest.live[n]
    BY <1>0, <1>2, <1>3
<1>5. \A n \in Names : cat[n] # 0 /\ BackedUp(n) => BackedUp(n)'
  <2>. SUFFICES ASSUME NEW n \in Names, BackedUp(n)
                PROVE  dest'.live[n] = cat[n] \/ <<n, cat[n]>> \in dest'.kept
    BY DEF BackedUp
  <2>1. CASE n # i.n
    BY <1>3, <1>4, <2>1 DEF BackedUp
  <2>2. CASE n = i.n
    BY <1>3, <2>2 DEF BackedUp
  <2>. QED
    BY <2>1, <2>2
<1>6. RunShape' /\ SameRun
    BY DEF SameRun
<1>7. dest'.free = dest.free /\ i.act # "copy"
    BY <1>3
<1>. QED
    BY <1>0, <1>1, <1>2, <1>3, <1>4, <1>5, <1>6, <1>7, EndingKept DEF SameRun

\* A retain runs, beside nothing the attempt read as not backed up.
LEMMA RetainKept ==
    ASSUME BaseInv, UpgradeInv, SpaceInv, GuardInv, MissInv, RunRetain
    PROVE  PromiseInv'
<1>0. UNCHANGED <<world, cat, disk>> /\ SameRun /\ run.at = "items" /\ run.cur # None /\ HistShape
    BY RunUnchanged DEF RunRetain, Same, BaseInv, Shapes
<1>1. PICK i \in PendingItems({"retain"}) :
        \/ (Ends(i, "skipped") \/ Ends(i, "failed")) /\ UNCHANGED <<dest, hist>>
        \/ /\ dest.live[i.n] = i.v /\ \A m \in run.cur : Folder[m] # Folder[i.n]
           /\ dest' = ToRetention(i) /\ Ends(i, "done")
           /\ hist' = [hist EXCEPT !.uncovered = @ \cup {c.n : c \in Missed(i)}]
    BY DEF RunRetain
<1>2. i \in job.items /\ i.st = "pending" /\ i.act = "retain" /\ ~IsContent(i)
    BY DEF PendingItems, IsContent, ContentActs
<1>3. CASE (Ends(i, "skipped") \/ Ends(i, "failed")) /\ UNCHANGED <<dest, hist>>
  <2>1. Ending(i, "skipped") \/ Ending(i, "failed")
    BY <1>2, <1>3 DEF Ending, Ends
  <2>. QED
    BY <1>0, <1>2, <1>3, <2>1, EndingOnly
<1>4. CASE /\ dest.live[i.n] = i.v /\ \A m \in run.cur : Folder[m] # Folder[i.n]
           /\ dest' = ToRetention(i) /\ Ends(i, "done")
           /\ hist' = [hist EXCEPT !.uncovered = @ \cup {c.n : c \in Missed(i)}]
  <2>1. ASSUME NEW c \in Missed(i)
        PROVE  FALSE
    <3>1. c \in job.items /\ Missing(c) /\ Folder[c.n] = Folder[i.n]
      BY <2>1 DEF Missed, Missing, IsContent
    <3>2. c.n \in run.cur
      BY <1>0, <3>1 DEF UpgradeInv
    <3>. QED
      BY <1>4, <3>1, <3>2
  <2>2. /\ HistShape' /\ hist'.uncovered = hist.uncovered \cup {c.n : c \in Missed(i)}
        /\ hist'.steady = hist.steady /\ hist'.starved = hist.starved
    BY <1>0, <1>4 DEF HistShape
  <2>3. hist'.uncovered = hist.uncovered
    BY <2>1, <2>2
  <2>. QED
    BY <1>0, <1>2, <1>4, <2>2, <2>3, RetentionKept
<1>. QED
    BY <1>1, <1>3, <1>4

LEMMA ReleaseStepKept ==
    ASSUME BaseInv, UpgradeInv, SpaceInv, GuardInv, MissInv, RunRelease
    PROVE  PromiseInv'
<1>0. UNCHANGED <<world, cat, disk>> /\ run.at = "items" /\ HistShape /\ RunShape
    BY DEF RunRelease, Same, BaseInv, Shapes
<1>1. PICK i \in PendingItems({"release"}) :
        /\ run' = IF RevisionStands(i) THEN [run EXCEPT !.dec = ExecDecisions] ELSE run
        /\ \/ Ends(i, "skipped") /\ UNCHANGED <<dest, hist>>
           \/ /\ dest.live[i.n] = i.v /\ dest' = ToRetention(i) /\ Ends(i, "done")
              /\ hist' = [hist EXCEPT !.released = @ \cup {Gone(i)}]
    BY DEF RunRelease, CheckRelease, RevisionStands
<1>2. i \in job.items /\ i.st = "pending" /\ i.act = "release" /\ ~IsContent(i)
    BY DEF PendingItems, IsContent, ContentActs
<1>3. SameRun
    BY <1>0, <1>1 DEF SameRun, RunShape
<1>4. CASE Ends(i, "skipped") /\ UNCHANGED <<dest, hist>>
  <2>1. Ending(i, "skipped")
    BY <1>2, <1>4 DEF Ending, Ends
  <2>. QED
    BY <1>0, <1>2, <1>3, <1>4, <2>1, EndingOnly
<1>5. CASE /\ dest.live[i.n] = i.v /\ dest' = ToRetention(i) /\ Ends(i, "done")
           /\ hist' = [hist EXCEPT !.released = @ \cup {Gone(i)}]
  <2>1. HistShape' /\ hist'.uncovered = hist.uncovered /\ hist'.steady = hist.steady /\ hist'.starved = hist.starved
    BY <1>0, <1>5 DEF HistShape
  <2>. QED
    BY <1>0, <1>2, <1>3, <1>5, <2>1, RetentionKept
<1>. QED
    BY <1>1, <1>4, <1>5

LEMMA SkipKept ==
    ASSUME BaseInv, UpgradeInv, SpaceInv, GuardInv, MissInv, SkipUnlinked
    PROVE  PromiseInv'
<1>1. PICK i \in job.items : i.st = "pending" /\ Ends(i, "skipped")
    BY DEF SkipUnlinked, PendingItems
<1>2. Ending(i, "skipped")
    BY <1>1 DEF Ending, Ends
<1>3. UNCHANGED <<world, cat, disk, dest, hist>> /\ run.at = "items" /\ run' = [run EXCEPT !.warns = @ + 1]
    BY DEF SkipUnlinked, Same
<1>. QED
    BY <1>2, <1>3, EndingOnly

-----------------------------------------------------------------------------
(* All steps.                                                              *)

\* Every step keeps the promises.
LEMMA PromiseKept ==
    ASSUME PromiseInv, [Next]_vars
    PROVE  PromiseInv'
<1>0. /\ BaseInv /\ UpgradeInv /\ SpaceInv /\ GuardInv /\ MissInv /\ JobShape /\ RunShape /\ HistShape
      /\ cat \in [Names -> Nat] /\ disk \in [arr : [Names -> Nat], view : [Names -> Nat]] /\ run.warns \in Nat
    BY DEF PromiseInv, BaseInv, Shapes
<1>i. Idle = [at |-> "idle", linked |-> FALSE, waits |-> Waits, rev |-> 0, nonfull |-> {}, cur |-> None, ed |-> 0,
              warns |-> 0, allowed |-> {}, want |-> NoFiles, dec |-> None]
    BY DEF Idle
<1>1. CASE Begin
  <2>1. /\ RunShape' /\ run'.at = "open" /\ run'.nonfull = {} /\ run'.cur = None /\ run'.warns = 0 /\ run'.want = NoFiles
        /\ UNCHANGED <<world, disk, cat, dest>>
    BY <1>1, <1>i DEF Begin, RunShape, Same
  <2>2. MissInv'
    BY <2>1, NothingWanted
  <2>3. CASE job.st = "queued" /\ job' = [job EXCEPT !.st = "running"] /\ UNCHANGED <<used, hist>>
    <3>1. /\ JobShape' /\ HistShape' /\ job'.items = job.items /\ job'.kind = job.kind
          /\ job'.allow = job.allow /\ job'.live = job.live
      BY <1>0, <2>3 DEF JobShape, HistShape
    <3>2. hist'.starved = {}
      BY <1>0, <2>3 DEF SpaceInv
    <3>. QED
      BY <1>0, <2>1, <2>2, <2>3, <3>1, <3>2, RunMoves DEF PromiseInv
  <2>4. CASE /\ hist' = [hist EXCEPT !.starved = {}]
             /\ \E k \in world.kinds, a \in world.allow :
                   job' = [NoJob EXCEPT !.kind = k, !.allow = a, !.st = "running", !.of = shown]
    <3>1. JobShape' /\ job'.items = {} /\ job'.live = 0
      BY <2>4 DEF JobShape, NoJob
    <3>2. HistShape' /\ hist'.starved = {} /\ hist'.uncovered = hist.uncovered
      BY <1>0, <2>4 DEF HistShape
    <3>. QED
      BY <1>0, <2>1, <2>2, <3>1, <3>2, NoItems DEF PromiseInv
  <2>. QED
    BY <1>1, <2>3, <2>4 DEF Begin
<1>2. CASE Open
  <2>1. /\ JobShape' /\ job'.items = job.items /\ job'.kind = job.kind /\ job'.allow = job.allow /\ job'.live = job.live
        /\ UNCHANGED <<world, disk, cat, dest, hist>>
        /\ run.at = "open" /\ (Go("prepare") \/ run' = Idle)
    BY <1>0, <1>2 DEF Open, JobShape, Same
  <2>2. run.want = NoFiles /\ run.cur = None /\ hist.starved = {} /\ HistShape'
    BY <1>0, <2>1 DEF MissInv, UpgradeInv, SpaceInv, HistShape
  <2>3. /\ RunShape' /\ run'.at \in {"prepare", "idle"} /\ run'.nonfull \in {run.nonfull, {}} /\ run'.cur = None
        /\ run'.warns \in Nat /\ run'.want = NoFiles
    BY <1>0, <1>i, <2>1, <2>2 DEF RunShape, Go
  <2>4. MissInv'
    BY <2>3, NothingWanted
  <2>. QED
    BY <1>0, <2>1, <2>2, <2>3, <2>4, RunMoves DEF PromiseInv
<1>3. CASE Prepare
  <2>1. /\ UNCHANGED <<world, disk, cat, dest, hist>> /\ run.at = "prepare"
        /\ JobShape' /\ job'.kind = job.kind /\ job'.allow = job.allow /\ job'.live = job.live /\ job'.live \in Nat
    BY <1>0, <1>3 DEF Prepare, Same, JobShape, BaseInv
  <2>2. run.want = NoFiles /\ run.cur = None /\ hist.starved = {} /\ HistShape'
    BY <1>0, <2>1 DEF MissInv, UpgradeInv, SpaceInv, HistShape
  <2>3. /\ RunShape' /\ run'.nonfull = run.nonfull /\ run'.cur = None /\ run'.warns = run.warns /\ run'.want = NoFiles
        /\ \/ run'.at = AfterPlan /\ job'.items = job.items
           \/ run'.at = "scan" /\ job'.items = {}
    BY <1>0, <1>3, <2>2 DEF Prepare, RunShape, JobShape
  <2>4. AfterPlan \in {"end", "space"} /\ (AfterPlan = "end" => ~Targeted')
    BY <2>1 DEF AfterPlan, Targeted, Preview
  <2>5. MissInv'
    BY <2>3, <2>4, NothingWanted
  <2>6. CASE run'.at = AfterPlan /\ job'.items = job.items
    BY <1>0, <2>1, <2>2, <2>3, <2>4, <2>5, <2>6, RunMoves DEF PromiseInv
  <2>7. CASE run'.at = "scan" /\ job'.items = {}
    BY <1>0, <2>1, <2>2, <2>3, <2>5, <2>7, NoItems DEF PromiseInv
  <2>. QED
    BY <2>3, <2>6, <2>7
<1>4. CASE Scan \/ Rescan
    BY <1>0, <1>4, ScanKept
<1>5. CASE Plan
    BY <1>0, <1>5, PlanKept
<1>6. CASE CheckSpace
  <2>1. /\ UNCHANGED <<world, disk, cat, dest, hist, job>> /\ run.at = "space"
        /\ \/ Go("links") \/ Go("items") \/ Go("hold") \/ Go("fail")
        /\ Go("links") \/ Go("items") => Bytes <= dest.free \/ UnknownCopies = {}
    <3>1. UNCHANGED <<world, disk, cat, dest, hist, job>> /\ run.at = "space"
      BY <1>6 DEF CheckSpace, Same
    <3>2. \A p, q : Go(p) /\ Go(q) => p = q
      BY <1>0 DEF Go, RunShape
    <3>3. \/ Bytes <= dest.free /\ (Go("links") \/ Go("items"))
          \/ Go("hold") \/ Go("fail")
          \/ UnknownCopies = {} /\ Go("links")
      BY <1>6 DEF CheckSpace
    <3>. QED
      BY <3>1, <3>2, <3>3
  <2>2. JobShape' /\ HistShape' /\ run.cur = None /\ hist.starved = {}
    BY <1>0, <2>1 DEF JobShape, HistShape, UpgradeInv, SpaceInv
  <2>3. /\ RunShape' /\ run'.at \in {"links", "items", "hold", "fail"} /\ run'.nonfull = run.nonfull /\ run'.cur = run.cur
        /\ run'.warns = run.warns /\ run'.want = run.want
        /\ run'.at \in {"links", "items"} => Bytes <= dest.free \/ UnknownCopies = {}
    BY <1>0, <2>1 DEF RunShape, Go
  <2>4. MissInv'
    BY <1>0, <2>1, <2>3, StillWanted DEF Running
  <2>. QED
    BY <1>0, <2>1, <2>2, <2>3, <2>4, RunMoves DEF PromiseInv
<1>7. CASE HoldCopy \/ HoldLink
    BY <1>0, <1>7, HoldKept
<1>8. CASE SkipUnlinked \/ RunContent \/ RunRetain \/ RunRelease
    BY <1>0, <1>8, SkipKept, ContentKept, RetainKept, ReleaseStepKept
<1>9. CASE ReadUncovered
  <2>1. UNCHANGED <<world, disk, cat, dest, job>> /\ run.at = "items" /\ run.cur = None
    BY <1>9 DEF ReadUncovered, Same
  <2>2. /\ RunShape' /\ run'.at = "items" /\ run'.nonfull = run.nonfull /\ run'.warns = run.warns /\ run'.want = run.want
        /\ run'.cur = Uncovered
    BY <1>0, <1>9, <2>1 DEF ReadUncovered, RunShape
  <2>3. JobShape' /\ HistShape' /\ hist'.starved = hist.starved /\ hist'.uncovered = hist.uncovered /\ hist.starved = {}
    BY <1>0, <1>9, <2>1 DEF ReadUncovered, JobShape, HistShape, SpaceInv
  <2>4. MissInv'
    BY <1>0, <2>1, <2>2, StillWanted DEF Running
  <2>5. ASSUME NEW c \in job.items, Missing(c)'
        PROVE  c.n \in Uncovered
    <3>1. ItemOk(c) /\ IsContent(c) /\ cat[c.n] = c.v /\ ~BackedUp(c.n)
      BY <1>0, <2>1, <2>5 DEF BaseInv, ItemsOk, Missing, IsContent, ContentActs, BackedUp
    <3>. QED
      BY <3>1 DEF ItemOk, Uncovered
  <2>6. UpgradeInv'
    BY <1>0, <2>1, <2>2, <2>3, <2>5 DEF UpgradeInv
  <2>7. BaseInv'
    <3>1. ItemsOk'
      BY <1>0, <2>1, <2>2 DEF BaseInv, ItemsOk, ItemOk, ItemShape, IsContent, ContentActs, OneEach
    <3>. QED
      BY <1>0, <2>1, <2>2, <2>3, <3>1 DEF BaseInv, Shapes, DestShape
  <2>8. SpaceInv'
    BY <1>0, <2>1, <2>2, <2>3 DEF SpaceInv, Bytes, UnknownCopies, NoUnknownDone, PendingItems
  <2>9. GuardInv'
    BY <1>0, <2>1, GuardUnmoved
  <2>. QED
    BY <2>4, <2>6, <2>7, <2>8, <2>9 DEF PromiseInv
<1>10. CASE ItemsEnd
  <2>1. UNCHANGED <<world, disk, cat, dest, hist, job>> /\ run.at = "items" /\ PendingItems(ContentActs \cup {"retain", "release"}) = {}
    BY <1>10 DEF ItemsEnd, Same
  <2>2. /\ RunShape' /\ run'.at = "end" /\ run'.nonfull = run.nonfull /\ run'.cur = run.cur
        /\ run'.warns = run.warns /\ run'.want = run.want
    BY <1>0, <1>10 DEF ItemsEnd, Go, RunShape
  <2>3. \A k \in job.items : IsContent(k) => k.st # "pending"
    BY <2>1 DEF PendingItems, IsContent
  <2>4. MissInv'
    BY <1>0, <2>1, <2>2, <2>3, StillWanted DEF Running
  <2>5. JobShape' /\ HistShape' /\ hist.starved = {}
    BY <1>0, <2>1 DEF JobShape, HistShape, SpaceInv
  <2>. QED
    BY <1>0, <2>1, <2>2, <2>4, <2>5, RunMoves DEF PromiseInv
<1>11. CASE End \/ Fail \/ Crash
  <2>1. /\ UNCHANGED <<world, disk, cat, dest, hist>> /\ run' = Idle /\ run.at # "idle"
        /\ JobShape' /\ job'.items = job.items /\ job'.kind = job.kind /\ job'.allow = job.allow /\ job'.live = job.live
    BY <1>0, <1>11 DEF End, Fail, Crash, Same, JobShape
  <2>2. HistShape' /\ hist.starved = {}
    BY <1>0, <2>1 DEF HistShape, SpaceInv
  <2>3. RunShape' /\ run'.at = "idle" /\ run'.nonfull = {} /\ run'.cur = None /\ run'.warns = 0 /\ run'.want = NoFiles
    BY <1>i, <2>1 DEF RunShape
  <2>4. MissInv'
    BY <2>3, NothingWanted
  <2>. QED
    BY <1>0, <2>1, <2>2, <2>3, <2>4, RunMoves DEF PromiseInv
<1>12. CASE Fatal
  <2>1. /\ UNCHANGED <<world, disk, cat, dest>> /\ run' = Idle /\ run.at = "items"
        /\ JobShape' /\ job'.items = job.items /\ job'.kind = job.kind /\ job'.allow = job.allow /\ job'.live = job.live
        /\ job'.st = "failed"
    BY <1>0, <1>12 DEF Fatal, Same, JobShape
  <2>2. hist.starved = {}
    BY <1>0, <2>1 DEF SpaceInv
  <2>3. RunShape' /\ run'.at = "idle" /\ run'.nonfull = {} /\ run'.cur = None /\ run'.warns = 0 /\ run'.want = NoFiles
    BY <1>i, <2>1 DEF RunShape
  <2>4. MissInv'
    BY <2>3, NothingWanted
  <2>5. HistShape' /\ hist'.uncovered = hist.uncovered
    BY <1>0, <1>12 DEF Fatal, HistShape
  <2>6. hist'.starved # {} => NoUnknownDone
    <3>1. CASE UNCHANGED hist
      BY <2>2, <3>1
    <3>2. CASE \E i \in NextContent :
                 /\ CostOf(i) > dest.free
                 /\ hist' = [hist EXCEPT !.starved = IF i.act # "link" /\ ~i.unknown THEN @ \cup {i.n} ELSE @]
      <4>1. PICK i \in NextContent :
                 /\ CostOf(i) > dest.free
                 /\ hist' = [hist EXCEPT !.starved = IF i.act # "link" /\ ~i.unknown THEN @ \cup {i.n} ELSE @]
        BY <3>2
      <4>2. hist'.starved # {} => i.act # "link"
        BY <1>0, <2>2, <4>1 DEF HistShape
      <4>3. CASE i.act # "link"
        <5>. DEFINE P == PendingItems({"copy", "update"})
        <5>1. i \in P
          BY <4>1, <4>3 DEF NextContent, PendingItems
        <5>2. IsFiniteSet(P)
          BY <1>0, FS_Subset DEF BaseInv, ItemsOk, PendingItems
        <5>3. Cardinality(P) \in Nat /\ Cardinality(P) # 0
          BY <5>1, <5>2, FS_CardinalityType, FS_EmptySet
        <5>4. CostOf(i) \in {0, 1} /\ dest.free \in Nat
          BY <1>0 DEF CostOf, BaseInv
        <5>5. Bytes = Cardinality(P)
          BY DEF Bytes
        <5>6. ~(Bytes <= dest.free)
          <6>. HIDE DEF P
          <6>. QED
            BY <4>1, <5>3, <5>4, <5>5
        <5>. QED
          BY <1>0, <5>6 DEF SpaceInv
      <4>. QED
        BY <4>2, <4>3
    <3>. QED
      BY <1>12, <3>1, <3>2 DEF Fatal
  <2>. QED
    BY <1>0, <2>1, <2>3, <2>4, <2>5, <2>6, RunMoves DEF PromiseInv
<1>13. CASE Write \/ Show \/ SetRules \/ SetFacts \/ Tick \/ EditSource \/ UNCHANGED vars
  <2>1. UNCHANGED <<world, cat, dest, job, run, hist>>
    BY <1>13 DEF Write, Show, SetRules, SetFacts, Tick, EditSource, vars
  <2>2. disk' \in [arr : [Names -> Nat], view : [Names -> Nat]]
    <3>1. disk = [arr |-> disk.arr, view |-> disk.view] /\ disk.arr \in [Names -> Nat] /\ disk.view \in [Names -> Nat]
      BY <1>0
    <3>2. CASE Write
      <4>1. PICK n \in Names, v \in {0, 2} : disk' = [disk EXCEPT !.arr[n] = v] \/ disk' = [disk EXCEPT !.arr[n] = v, !.view[n] = v]
        BY <3>2 DEF Write
      <4>2. disk'.arr = [disk.arr EXCEPT ![n] = v] /\ disk'.view \in {disk.view, [disk.view EXCEPT ![n] = v]}
            /\ disk' = [arr |-> disk'.arr, view |-> disk'.view]
        BY <3>1, <4>1
      <4>. QED
        BY <3>1, <4>2
    <3>3. CASE Show
      <4>1. PICK n \in Names : disk' = [disk EXCEPT !.view[n] = disk.arr[n]]
        BY <3>3 DEF Show
      <4>2. disk'.arr = disk.arr /\ disk'.view = [disk.view EXCEPT ![n] = disk.arr[n]]
            /\ disk' = [arr |-> disk'.arr, view |-> disk'.view]
        BY <3>1, <4>1
      <4>. QED
        BY <3>1, <4>2
    <3>4. CASE SetRules \/ SetFacts \/ Tick \/ EditSource \/ UNCHANGED vars
      BY <1>0, <3>4 DEF SetRules, SetFacts, Tick, EditSource, vars
    <3>. QED
      BY <1>13, <3>2, <3>3, <3>4
  <2>3. BaseInv'
    <3>1. ItemsOk'
      BY <1>0, <2>1 DEF BaseInv, ItemsOk, ItemOk, ItemShape, IsContent, ContentActs, OneEach
    <3>. QED
      BY <1>0, <2>1, <2>2, <3>1 DEF BaseInv, Shapes, JobShape, RunShape, HistShape, DestShape
  <2>4. UpgradeInv'
    BY <1>0, <2>1 DEF UpgradeInv, Missing, BackedUp, IsContent, ContentActs
  <2>5. SpaceInv'
    BY <1>0, <2>1 DEF SpaceInv, Bytes, UnknownCopies, NoUnknownDone, PendingItems
  <2>6. GuardInv'
    BY <1>0, <2>1, GuardUnmoved
  <2>7. MissInv'
    BY <1>0, <2>1 DEF MissInv, Wanted, Scope, Targeted, Left, Covered, IsContent, ContentActs, Running, NoFiles
  <2>. QED
    BY <2>3, <2>4, <2>5, <2>6, <2>7 DEF PromiseInv
<1>14. CASE OtherScan
  <2>1. UNCHANGED <<world, disk, dest, job, run>> /\ run.at \notin {"scan", "plan"} /\ cat' = disk.view
    BY <1>14 DEF OtherScan, LockFree
  <2>2. /\ HistShape' /\ hist'.uncovered = hist.uncovered /\ hist'.starved = hist.starved
        /\ hist'.steady = {n \in hist.steady : cat'[n] = cat[n]}
    BY <1>0, <1>14 DEF OtherScan, HistShape
  <2>3. BaseInv'
    <3>1. ItemsOk'
      BY <1>0, <2>1 DEF BaseInv, ItemsOk, ItemOk, ItemShape, IsContent, ContentActs, OneEach
    <3>. QED
      BY <1>0, <2>1, <2>2, <3>1 DEF BaseInv, Shapes, JobShape, RunShape, DestShape
  <2>4. UpgradeInv'
    <3>1. \A c : Missing(c)' => Missing(c)
      BY <2>1, <2>2 DEF Missing, BackedUp, IsContent, ContentActs
    <3>. QED
      BY <1>0, <2>1, <2>2, <3>1 DEF UpgradeInv
  <2>5. SpaceInv'
    BY <1>0, <2>1, <2>2 DEF SpaceInv, Bytes, UnknownCopies, NoUnknownDone, PendingItems
  <2>6. GuardInv'
    BY <1>0, <2>1, GuardUnmoved
  <2>7. MissInv'
    <3>1. Scope' = Scope /\ Targeted' = Targeted /\ \A n : Wanted(n)' = Wanted(n)
      BY <2>1 DEF Scope, Targeted, Wanted
    <3>2. \A k : IsContent(k)' = IsContent(k) /\ Left(k)' = Left(k)
      BY DEF IsContent, ContentActs, Left
    <3>3. \A n : Covered(n, dest.live[n], job.items)' = Covered(n, dest.live[n], job.items)
      BY <2>1, <3>2 DEF Covered
    <3>. QED
      BY <1>0, <2>1, <3>1, <3>2, <3>3 DEF MissInv
  <2>. QED
    BY <2>3, <2>4, <2>5, <2>6, <2>7 DEF PromiseInv
<1>. QED
    BY <1>1, <1>2, <1>3, <1>4, <1>5, <1>6, <1>7, <1>8, <1>9, <1>10, <1>11, <1>12, <1>13, <1>14 DEF Next

LEMMA PromiseInit ==
    Init => PromiseInv
<1>. SUFFICES ASSUME Init
              PROVE  PromiseInv
    OBVIOUS
<1>1. /\ world \in Worlds /\ disk = [arr |-> world.arr, view |-> world.view] /\ cat = world.live
      /\ dest = [live |-> world.live, kept |-> {}, free |-> world.free] /\ job = NoJob /\ run = Idle
      /\ hist = [released |-> {}, uncovered |-> {}, starved |-> {}, steady |-> Names]
    BY DEF Init
<1>2. /\ world.arr \in [Names -> Nat] /\ world.view \in [Names -> Nat] /\ world.live \in [Names -> Nat]
      /\ world.free \in Nat /\ world.max \in Nat
    BY <1>1, WorldsAssumption
<1>3. JobShape /\ job.items = {} /\ job.live = 0 /\ RunShape /\ run.at = "idle" /\ run.cur = None /\ run.warns = 0 /\ run.want = NoFiles
    BY <1>1 DEF JobShape, NoJob, RunShape, Idle
<1>4. BaseInv
    BY <1>1, <1>2, <1>3, FS_EmptySet DEF BaseInv, Shapes, HistShape, DestShape, ItemsOk, OneEach
<1>5. UpgradeInv /\ SpaceInv /\ GuardInv
    BY <1>1, <1>3 DEF UpgradeInv, SpaceInv, NoUnknownDone, GuardInv, RetainsBesideContent
<1>6. MissInv
    BY <1>3 DEF MissInv, Running
<1>. QED
    BY <1>4, <1>5, <1>6 DEF PromiseInv

\* The promises follow from the invariant.
LEMMA PromiseMeans ==
    ASSUME PromiseInv
    PROVE  SyncPromises
<1>0. /\ BaseInv /\ ItemsOk /\ IsFiniteSet(job.items) /\ run.warns \in Nat /\ job.live \in Nat
      /\ world.max \in Nat /\ world.pct \in Nat /\ world.least \in Nat
    BY WorldsAssumption DEF PromiseInv, BaseInv, ItemsOk
<1>1. UpgradeCovered /\ DecidedFirst /\ RetainsBesideContent
    BY DEF PromiseInv, UpgradeInv, SpaceInv, GuardInv, UpgradeCovered, DecidedFirst, NoUnknownDone
<1>2. ChangesBounded
  <2>. SUFFICES ASSUME ~job.allow
                PROVE  /\ Within(Cardinality({i \in job.items : i.st = "done" /\ Change(i)}), job.live)
                       /\ \A i \in job.items : i.st = "done" =>
                             /\ ~Stopped(i, job.items, job.live)
                             /\ i.act = "update" => ~Shrinks(dest.live[i.n], i.old)
    BY DEF ChangesBounded
  <2>. DEFINE D == {i \in job.items : i.st = "done" /\ Change(i)}
              S == {i \in job.items : Change(i)}
  <2>1. \A i \in job.items : i.st = "done" =>
          ~Stopped(i, job.items, job.live) /\ (i.act = "update" => ~Shrinks(dest.live[i.n], i.old))
    BY DEF PromiseInv, GuardInv
  <2>2. IsFiniteSet(S) /\ D \in SUBSET S
    BY <1>0, FS_Subset
  <2>3. Cardinality(D) <= Cardinality(S) /\ Cardinality(D) \in Nat /\ Cardinality(S) \in Nat
    <3>1. IsFiniteSet(D) /\ Cardinality(D) <= Cardinality(S)
      BY <2>2, FS_Subset
    <3>. HIDE DEF D, S
    <3>. QED
      BY <2>2, <3>1, FS_CardinalityType
  <2>4. world.pct * job.live \in Nat
    BY <1>0
  <2>5. CASE D # {}
    <3>1. Within(Cardinality(S), job.live)
      BY <2>1, <2>5 DEF Stopped, Suspect, Limited
    <3>2. Within(Cardinality(D), job.live)
      <4>. DEFINE d == Cardinality(D)
                  s == Cardinality(S)
                  P == world.pct * job.live
      <4>1. (s * 100 <= P \/ s <= world.least) /\ s <= world.max
        BY <3>1 DEF Within
      <4>2. d <= s /\ d \in Nat /\ s \in Nat /\ P \in Nat
        BY <2>3, <2>4
      <4>3. (d * 100 <= P \/ d <= world.least) /\ d <= world.max
        <5>. HIDE DEF d, s, P
        <5>. QED
          BY <1>0, <4>1, <4>2
      <4>. QED
        BY <4>3 DEF Within
    <3>. QED
      BY <2>1, <3>2
  <2>6. CASE D = {}
    <3>1. Within(0, job.live)
      BY <1>0, <2>4 DEF Within
    <3>2. Cardinality(D) = 0
      BY <2>6, FS_EmptySet
    <3>. QED
      BY <2>1, <3>1, <3>2
  <2>. QED
    BY <2>5, <2>6
<1>3. NoSilentMiss
  <2>. SUFFICES ASSUME run.at = "end", Targeted, Warnings = 0, NEW n \in Scope, n \notin run.nonfull, run.want[n] # 0
                PROVE  /\ dest.live[n] # 0
                       /\ dest.live[n] = run.want[n] \/ \E i \in job.items : i.n = n /\ i.v = run.want[n] /\ i.st = "done"
    BY DEF NoSilentMiss
  <2>. DEFINE F == {i \in job.items : i.st \in {"failed", "held"}}
  <2>1. IsFiniteSet(F)
    BY <1>0, FS_Subset
  <2>2. Cardinality(F) \in Nat /\ (Cardinality(F) = 0 => F = {}) /\ Warnings = run.warns + Cardinality(F)
    <3>1. Warnings = run.warns + Cardinality(F)
      BY DEF Warnings
    <3>. HIDE DEF F
    <3>. QED
      BY <2>1, <3>1, FS_CardinalityType, FS_EmptySet
  <2>3. run.warns = 0 /\ F = {}
    <3>. HIDE DEF F
    <3>. QED
      BY <1>0, <2>2
  <2>4. n \in Names /\ Wanted(n)
    BY DEF Scope, Wanted
  <2>5. /\ \A i \in job.items : Wanted(i.n) => IsContent(i) /\ i.v = run.want[i.n]
        /\ Covered(n, dest.live[n], job.items)
        /\ \A i \in job.items : IsContent(i) => i.st # "pending"
    BY <2>3, <2>4 DEF PromiseInv, MissInv, Running
  <2>6. \A i \in job.items : i.n = n => ~Left(i) /\ i.v = run.want[n]
    BY <2>3, <2>4, <2>5 DEF Left
  <2>. QED
    BY <2>5, <2>6 DEF Covered
<1>. QED
    BY <1>1, <1>2, <1>3 DEF SyncPromises

\* The promises of a sync hold for any number of files, jobs, edits, crashes, errors and scans by
\* others: an upgrade's old version stays until the new one is backed up (notBackedUp), copies of
\* unknown tier take no space of decided ones (checkFreeSpace, recheckUnknownHold), a webhook's
\* sync without a warning missed no expected file (checkExpected), a sync that does not allow
\* changes makes no more of them than the limit, does nothing the guard stops or that depends on it
\* (applyGuard) and updates nothing to a truncated version (place), and a targeted sync retains
\* only beside content it plans.
THEOREM PromisesAlwaysKept == Spec => []SyncPromises
<1>1. Init => PromiseInv
    BY PromiseInit
<1>2. PromiseInv /\ [Next]_vars => PromiseInv'
    BY PromiseKept
<1>3. PromiseInv => SyncPromises
    BY PromiseMeans
<1>. QED
    BY <1>1, <1>2, <1>3, PTL DEF Spec
=============================================================================
