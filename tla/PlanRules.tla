----------------------------- MODULE PlanRules -----------------------------
(***************************************************************************)
(* What a sync plans for one source: sourcePlanner of internal/syncer      *)
(* (plan.go, tiers.go, guards.go), shared by every engine. Pure operators  *)
(* over a planner's input                                                  *)
(*   in.files    live catalog files by name: version, hardlink group (0:   *)
(*               none), whether the tier is full, whether the *arr         *)
(*               replaced it in place with equal size and mtime            *)
(*   in.recs     live records by name: state, version, the name of the     *)
(*               primary it links to (0: none)                             *)
(*   in.dir      the folder of each name                                   *)
(*   in.targeted a targeted sync (D14), in.updateKept (D29, restic)        *)
(*   in.size     bytes of each version                                     *)
(*   in.there    what is at the destination without a record, by name      *)
(*   in.adopt    whether such a file of the right size and mtime is adopted*)
(*   in.release  names a confirmed release may release                     *)
(*   in.guard    the mass-change limits, in.allowChanges                     *)
(* Names are numbers in path order. A version stands for size, mtime and   *)
(* head/tail hash. An item is                                              *)
(*   [act, rel, rec, from, why, v, change, shrink, after]                  *)
(* where rec is the record it is about, from the other name (of a move,    *)
(* promote or link), after the item whose hold holds it too.               *)
(***************************************************************************)
EXTENDS Integers, FiniteSets, FiniteSetsExt

NoItem == <<"none", 0>>
Item(act, rel, rec, from, why, v) ==
    [act |-> act, rel |-> rel, rec |-> rec, from |-> from, why |-> why, v |-> v,
     change |-> FALSE, shrink |-> FALSE, after |-> NoItem, unknown |-> FALSE]
Key(it) == <<it.act, it.rel>>

HasRec(in, n) == n \in DOMAIN in.recs
State(in, n) == IF HasRec(in, n) THEN in.recs[n].st ELSE "none"
Full(in, n) == in.files[n].full

\* replacedInPlace: a present record under an *arr file added after the copy,
\* whose head and tail differ.
ReplacedInPlace(in, n) == State(in, n) = "present" /\ in.files[n].replaced

Unchanged(in, n) ==
    /\ State(in, n) \notin {"none", "missing"}
    /\ in.recs[n].v = in.files[n].v
    /\ ~(Full(in, n) /\ ReplacedInPlace(in, n))

\* keptChanged (D29).
KeptChanged(in, n) ==
    in.updateKept /\ ~Full(in, n) /\ ~Unchanged(in, n) /\ State(in, n) \in {"present", "linked"}

\* The names of one hardlink group; a group with one name in the source is no group.
Group(in, n) ==
    IF in.files[n].grp = 0 THEN {n} ELSE {m \in DOMAIN in.files : in.files[m].grp = in.files[n].grp}

Vanished(in) == DOMAIN in.recs \ DOMAIN in.files

Rank(S, n) == Cardinality({m \in S : m < n})

\* pairMoves: a new name, or the first name of a group none of whose names is
\* recorded, takes the first vanished record of its version not taken yet.
MayMove(in, n) ==
    /\ ~HasRec(in, n)
    /\ n = Min(Group(in, n))
    /\ \A m \in Group(in, n) : ~HasRec(in, m)

PairMoves(in) ==
    LET news(v) == {n \in DOMAIN in.files : MayMove(in, n) /\ in.files[n].v = v}
        olds(v) == {n \in Vanished(in) : State(in, n) \in {"present", "linked"} /\ in.recs[n].v = v}
    IN {<<n, o>> \in (DOMAIN in.files) \X Vanished(in) :
            LET v == in.files[n].v
            IN n \in news(v) /\ o \in olds(v) /\ Rank(news(v), n) = Rank(olds(v), o)}

Moves(in, n) == \E o \in Vanished(in) : <<n, o>> \in PairMoves(in)
MoveFrom(in, n) == CHOOSE o \in Vanished(in) : <<n, o>> \in PairMoves(in)
MovedAway(in, o) == \E n \in DOMAIN in.files : <<n, o>> \in PairMoves(in)

\* D14: the folders a targeted sync brings something new to.
Fresh(in) ==
    {in.dir[n] : n \in {m \in DOMAIN in.files :
        Moves(in, m) \/ (Full(in, m) /\ ~Unchanged(in, m))}}

\* surviving: the dependents of a record whose source file still has the content.
Surviving(in, r) ==
    {d \in DOMAIN in.recs :
        /\ in.recs[d].link = r /\ State(in, d) \in {"linked", "link_recorded"}
        /\ d \in DOMAIN in.files /\ Unchanged(in, d)}

PickTarget(in, S) ==
    LET real == {d \in S : State(in, d) = "linked"} IN Min(IF real # {} THEN real ELSE S)

\* The vanished records the plan acts on; the others wait for a full sync.
PlannedVanished(in) ==
    {o \in Vanished(in) : ~MovedAway(in, o) /\ (in.targeted => in.dir[o] \in Fresh(in))}

Retain(in, o) == [Item("retain", o, o, 0, "vanished", in.recs[o].v) EXCEPT !.change = TRUE]
Promote(in, v, t, why) == Item("promote", t, v, v, why, in.recs[v].v)

\* planVanished: a content other names still need goes to one of them first.
Inherited(in, o) == State(in, o) \notin {"link_recorded", "missing"} /\ Surviving(in, o) # {}

VanishedItems(in) ==
    UNION {IF ~Inherited(in, o) THEN {Retain(in, o)}
           ELSE LET t == PickTarget(in, Surviving(in, o))
                    p == Promote(in, o, t, "retain")
                IN IF State(in, t) = "linked"
                     THEN {Retain(in, o), [p EXCEPT !.after = <<"retain", o>>]}
                     ELSE {[p EXCEPT !.change = TRUE]}
           : o \in PlannedVanished(in)}

\* A changed primary whose unchanged dependents need its old content.
Outgrown(in) ==
    {n \in DOMAIN in.files :
        /\ State(in, n) = "present" /\ ~Unchanged(in, n)
        /\ Full(in, n) \/ KeptChanged(in, n)
        /\ Surviving(in, n) # {}}

PromoteTargets(in) ==
    {PickTarget(in, Surviving(in, o)) : o \in {p \in PlannedVanished(in) : Inherited(in, p)} \cup Outgrown(in)}

\* Names whose content went with a missing primary and that need a copy of their
\* own; and kept ones that get none (LostLinks).
Restored(in, n, d) == Full(in, n) /\ in.files[n].v = in.recs[d].v
MissingPrimaries(in) == {n \in DOMAIN in.files : State(in, n) = "missing"}
OrphanLinks(in) ==
    UNION {{d \in Surviving(in, n) : Full(in, d) /\ State(in, d) = "link_recorded" /\ ~Restored(in, n, d)}
           : n \in MissingPrimaries(in)}
NeedRepair(in) ==
    OrphanLinks(in)
    \cup UNION {Surviving(in, o) : o \in {p \in PlannedVanished(in) : State(in, p) = "missing"}}
LostLinks(in, r) ==
    IF r \in MissingPrimaries(in) /\ Full(in, r)
      THEN {d \in Surviving(in, r) : ~Full(in, d) /\ State(in, d) = "link_recorded" /\ ~Restored(in, r, d)}
      ELSE {}

\* Hardlinks of a missing primary are linked again.
Relink(in) ==
    UNION {{d \in Surviving(in, n) : State(in, d) = "linked"} : n \in {m \in MissingPrimaries(in) : Full(in, m)}}

\* choosePrimary: the first name of the first class that has one.
ChoosePrimary(in, G) ==
    LET classes == << {m \in G : State(in, m) = "present" /\ Unchanged(in, m)},
                      {m \in G : m \in PromoteTargets(in)},
                      {m \in G : State(in, m) \in {"present", "missing"}},
                      {m \in G : Moves(in, m)},
                      G >>
    IN Min(classes[Min({k \in 1..5 : classes[k] # {}})])

Shrinks(in, new, old) ==
    LET a == in.size[new] b == in.size[old] IN a < b /\ (a = 0 \/ a * 2 < b)

Update(in, n) ==
    [Item("update", n, n, 0, "changed", in.files[n].v)
        EXCEPT !.change = TRUE, !.shrink = Shrinks(in, in.files[n].v, in.recs[n].v)]
Repair(in, n) ==
    [Item("copy", n, n, 0, "repair", in.files[n].v)
        EXCEPT !.shrink = Shrinks(in, in.files[n].v, in.recs[n].v), !.unknown = in.files[n].unknown]
Move(in, n) == Item("move", n, MoveFrom(in, n), MoveFrom(in, n), "renamed", in.files[n].v)
Link(in, n, p) ==
    LET it == Item("link", n, IF HasRec(in, n) THEN n ELSE 0, p, "hardlink", in.files[n].v)
    IN IF State(in, n) \in {"none", "missing"} THEN it
       ELSE [it EXCEPT !.change = n \notin Relink(in), !.shrink = Shrinks(in, in.files[n].v, in.recs[n].v)]

\* newFile: adopt what is there, or copy (an unrecorded file is displaced).
Adoptable(in, n) == in.adopt /\ in.there[n] = in.files[n].v
NewFile(in, n) ==
    IF Adoptable(in, n) THEN Item("adopt", n, 0, 0, "adopt", in.files[n].v)
    ELSE [Item("copy", n, 0, 0, "new", in.files[n].v)
            EXCEPT !.change = in.files[n].unknown, !.unknown = in.files[n].unknown]

\* keep: a file that is not full keeps its record; a release retains it.
Keep(in, n) ==
    IF State(in, n) # "missing" /\ n \in in.release
      THEN {[Item("retain", n, n, 0, "released", in.recs[n].v) EXCEPT !.change = TRUE]}
      ELSE {}

\* What a live file gets: at most one item.
FileItem(in, n) ==
    LET prim == ChoosePrimary(in, Group(in, n)) IN
    CASE ~Full(in, n) /\ ~KeptChanged(in, n) ->
            IF HasRec(in, n) THEN Keep(in, n) ELSE IF Moves(in, n) THEN {Move(in, n)} ELSE {}
      [] ~HasRec(in, n) ->
            {IF Moves(in, n) THEN Move(in, n) ELSE IF prim # n THEN Link(in, n, prim) ELSE NewFile(in, n)}
      [] n \in NeedRepair(in) -> {Repair(in, n)}
      [] n \in Relink(in) \/ State(in, n) = "missing" ->
            {IF prim # n THEN Link(in, n, prim) ELSE Repair(in, n)}
      [] Unchanged(in, n) -> {}
      [] OTHER -> {IF prim # n THEN Link(in, n, prim) ELSE Update(in, n)}

\* plan: the items, with what each one waits for.
Items(in) ==
    LET files == UNION {FileItem(in, n) : n \in DOMAIN in.files}
        of(n) == {Key(it) : it \in {i \in files : i.rel = n /\ i.act \in {"copy", "update", "move", "adopt"}}}
        put(n) == IF of(n) = {} THEN NoItem ELSE CHOOSE k \in of(n) : TRUE
        linked == {IF it.act = "link" THEN [it EXCEPT !.after = put(it.from)] ELSE it : it \in files}
        mine(n) == CHOOSE it \in files : it.rel = n /\ it.act \in {"update", "link"}
        promotes == {[Promote(in, n, PickTarget(in, Surviving(in, n)), "update") EXCEPT !.after = Key(mine(n))]
                        : n \in Outgrown(in)}
    IN linked \cup VanishedItems(in) \cup promotes

\* The order of execution (S6: new before old), releases last, recorded-only links
\* before the content they record (sortReleases).
Phase(in, it) ==
    CASE it.act = "promote" -> 1
      [] it.act = "move"    -> 2
      [] it.act \in {"copy", "update", "adopt"} -> IF it.rel \in OrphanLinks(in) THEN 3 ELSE 4
      [] it.act = "link"    -> 5
      [] it.act = "retain" /\ it.why = "vanished" -> 6
      [] OTHER -> CASE State(in, it.rel) = "link_recorded" -> 7
                    [] State(in, it.rel) = "linked" -> 8
                    [] OTHER -> 9

-----------------------------------------------------------------------------
(* applyGuard: the mass-change guard (S10b).                               *)

Changes(items) == Cardinality({it \in items : it.change})

\* g: the settings (percent, files) and the least number of changes it holds.
Limited(items, liveFiles, g) ==
    LET n == Changes(items)
    IN (n * 100 > g.percent * liveFiles /\ n > g.least) \/ n > g.files

\* Items held with the ones they depend on (a promote, its link, that link's copy).
HeldWith(items, H) == H \cup {it \in items : \E h \in H : it.after = Key(h)}

Held(items, liveFiles, g, allowChanges) ==
    LET first == {it \in items : it.shrink \/ (it.change /\ Limited(items, liveFiles, g))}
    IN IF allowChanges THEN {} ELSE HeldWith(items, HeldWith(items, HeldWith(items, first)))
=============================================================================
