-------------------------------- MODULE Tiers --------------------------------
(***************************************************************************)
(* The tier engine (internal/tiers): from what the index knows of a file   *)
(* (load.go, indexprovider.go) and the rules (store.go) to the tier of the *)
(* file at a destination (evaluate.go, engine.go). Every integration's     *)
(* cache can be stale, incomplete or gone. `truth' is what the apps would  *)
(* say, `know' what Bunkarr can see of it, so a decision made from `know'  *)
(* can be compared with the one a complete index would give.               *)
(* The library is one media file, its sidecar and perhaps a hardlink of it *)
(* outside the *arr's root folders. Rules are edited by several browsers at once.  *)
(***************************************************************************)
EXTENDS Integers, Sequences, FiniteSets, FiniteSetsExt, TLC

CONSTANTS Worlds, Editors, Dests, None

VARIABLES
    world, used,    \* bounds of this behaviour and what is used of them
    truth,          \* what the apps hold of the media file
    know,           \* what the index can see of it
    rules,          \* tier_rules, in priority order
    revision,       \* settings: tiers.revision
    dests,          \* destinations
    drafts,         \* editor -> the rules it loaded and their revision
    hist            \* history: [granted, unseen]

vars == <<world, used, truth, know, rules, revision, dests, drafts, hist>>

FilesOf(t) == {"film", "sub"} \cup (IF t.linked THEN {"link"} ELSE {})
Seerrs == {"s1", "s2"}
Protection(tier) == CASE tier = "full" -> 3 [] tier = "manifest" -> 2 [] tier = "skip" -> 1

W == Worlds[world]
Use(what) == used[what] < W[what] /\ used' = [used EXCEPT ![what] = @ + 1]

\* The index that sees everything there is to see.
Complete(t) ==
    [arr |-> TRUE, view |-> "row", mapped |-> TRUE, deleted |-> FALSE, plex |-> TRUE, holds |-> TRUE, same |-> TRUE,
     churn |-> FALSE, taut |-> TRUE, history |-> TRUE, plays |-> t.plays, last |-> t.last,
     seerr |-> [s \in Seerrs |-> TRUE], maint |-> TRUE, excluded |-> TRUE]

Init ==
    /\ world \in DOMAIN Worlds
    /\ used = [outages |-> 0, edits |-> 0, removals |-> 0]
    /\ truth \in W.truths
    /\ \E v \in W.views : know = v @@ Complete(truth)
    /\ know.plays <= truth.plays
    /\ rules \in W.rules
    /\ revision = 0 /\ dests = Dests
    /\ drafts = [e \in Editors |-> None]
    /\ hist = [granted |-> rules, unseen |-> FALSE]

-----------------------------------------------------------------------------
(* The facts of a file: t is the truth, k what is seen of it.              *)

Unknown == [state |-> "unknown", byFolder |-> FALSE]

\* exactArr: the *arr row at the file's path.
ExactArr(t, k) ==
    IF k.view \in {"two", "size", "gone"} \/ ~k.arr THEN Unknown
    ELSE [state |-> "item", byFolder |-> FALSE]

\* folderArr: the item whose folder holds the file; a file in a root folder, or of a deleted or
\* unmapped *arr, is unknown; unmanaged needs every cache fresh and mapped.
FolderArr(t, k, inItem) ==
    IF inItem /\ k.mapped /\ ~k.deleted THEN (IF k.arr THEN [state |-> "item", byFolder |-> TRUE] ELSE Unknown)
    ELSE IF (inItem /\ k.deleted) \/ ~k.arr \/ ~k.mapped THEN Unknown
    ELSE [state |-> "unmanaged", byFolder |-> FALSE]

\* A file with a row: the film, unless its *arr is gone or has not imported it.
HasRow(t, k) == t.managed /\ ~k.deleted /\ k.mapped /\ k.view # "new"

ArrFacts(t, k, f) ==
    CASE f = "link" -> FolderArr(t, k, FALSE)
      [] HasRow(t, k) -> ExactArr(t, k)
      [] OTHER -> FolderArr(t, k, t.managed)

\* mediaFileOf: the sidecar follows a file the *arr knows.
Follows(t, k, f) == f = "sub" /\ HasRow(t, k)

\* linkedPlex: the cache and the index of the Plex server it is linked to, of the same server.
LinkedPlex(fresh, k) == fresh /\ k.plex /\ k.same

\* fileItems: only the film is a Plex item.
InPlex(k, f) == f = "film" /\ k.holds

\* plexFacts: the section of the file's item, else the one whose location contains it.
PlexFacts(t, k, f) == IF ~k.plex THEN None ELSE [section |-> t.section]

\* guidPlays: a re-added item has no row of its own key; its guid's plays are its own unless
\* another live item shares the guid.
GuidPlays(t, k) == IF t.shared /\ k.plays > 0 THEN None ELSE k.plays

\* watchFacts
Watched(k, plays) == IF plays = None THEN None ELSE [plays |-> plays, last |-> k.last, lower |-> ~k.history]
WatchFacts(t, k, f) ==
    IF ~LinkedPlex(k.taut, k) \/ ~InPlex(k, f) THEN None
    ELSE Watched(k, IF k.churn THEN GuidPlays(t, k) ELSE k.plays)

\* seerrOne: matched by the *arr item's ids, else by the Plex key; a series' request counts by
\* the file's season, and where that is not known only a request of every season does.
Requested(t, season, all) ==
    LET hits == {r \in all : r.all \/ ~t.tv \/ (season /\ r.season)} IN
    IF hits # {} THEN [requested |-> "true", users |-> {r.user : r \in hits}]
    ELSE [requested |-> IF t.tv /\ ~season /\ all # {} THEN "unknown" ELSE "false", users |-> {}]
SeerrFrom(t, k, f, s, arr, plex) ==
    IF ~k.seerr[s] \/ (arr.state # "item" /\ ~plex) THEN [requested |-> "unknown", users |-> {}]
    ELSE Requested(t, plex \/ (arr.state = "item" /\ ~arr.byFolder /\ f = "film"), t.requests[s])
SeerrOne(t, k, f, s) == SeerrFrom(t, k, f, s, ArrFacts(t, k, f), k.plex /\ k.same /\ InPlex(k, f))

\* combineRequests: the requests of several Seerr servers together.
CombineRequests(list) ==
    [requested |-> CASE \E r \in list : r.requested = "true" -> "true"
                     [] \E r \in list : r.requested = "unknown" -> "unknown"
                     [] OTHER -> "false",
     users |-> UNION {r.users : r \in list}]
RequestFacts(t, k, f) == CombineRequests({SeerrOne(t, k, f, s) : s \in W.seerrs})

\* maintainerrOne: a row of the file's Plex item; undecided while its exclusions are not known.
MaintainerrFacts(t, k, f) ==
    IF \/ ~LinkedPlex(k.maint, k)
       \/ ~InPlex(k, f) /\ (ArrFacts(t, k, f).state # "item" \/ t.tv)
       \/ t.pending /\ ~k.excluded
    THEN "unknown" ELSE IF t.pending /\ InPlex(k, f) THEN "true" ELSE "false"

-----------------------------------------------------------------------------
(* Conditions and rules.                                                   *)

Result(b) == IF b THEN "true" ELSE "false"
Not(r) == CASE r = "true" -> "false" [] r = "false" -> "true" [] OTHER -> "unknown"
Negated(c, r) == IF c.neg THEN Not(r) ELSE r

ArrResult(t, a, c) ==
    CASE a.state = "unknown" -> "unknown"
      [] c.field = "managed" -> Result((a.state = "item") = ~c.neg)
      [] a.state = "unmanaged" -> IF c.field = "genre" THEN "unknown" ELSE Negated(c, "false")
      [] OTHER -> Negated(c, Result(c.v \in t.tags))
EvalArr(t, k, f, c) == ArrResult(t, ArrFacts(t, k, f), c)

PlexResult(p, c) == IF p = None THEN "unknown" ELSE Negated(c, Result(p.section = c.v))
EvalPlex(t, k, f, c) == PlexResult(PlexFacts(t, k, f), c)

SeerrResult(q, c) ==
    CASE q.requested = "unknown" -> "unknown"
      [] c.field = "requested" -> Negated(c, q.requested)
      [] OTHER -> Negated(c, Result(c.v \in q.users))
EvalSeerr(t, k, f, c) == SeerrResult(RequestFacts(t, k, f), c)

\* evalTautulli: a lower bound proves only that there were at least as many plays.
Compare(op, n, v) == CASE op = "gte" -> n >= v [] op = "lt" -> n < v [] op = "eq" -> n = v
Dated(op, last) == CASE op = "never" -> FALSE [] op = "older" -> last = "old" [] OTHER -> last = "recent"
MutWatchResult(w, c) ==
    CASE w = None -> "unknown"
      [] c.field = "plays" -> Result(Compare(c.op, w.plays, c.v))
      [] w.last = None -> Result(c.op # "newer")
      [] OTHER -> Result(Dated(c.op, w.last))
WatchResult(w, c) ==
    CASE w = None -> "unknown"
      [] c.field = "plays" ->
            IF w.lower /\ (c.op # "gte" \/ ~Compare(c.op, w.plays, c.v)) THEN "unknown"
            ELSE Result(Compare(c.op, w.plays, c.v))
      [] w.lower -> IF c.op = "newer" /\ w.last = "recent" THEN "true" ELSE "unknown"
      [] w.last = None /\ w.plays = 0 -> Result(c.op # "newer")
      [] w.last = None -> IF c.op = "never" THEN "false" ELSE "unknown"
      [] OTHER -> Result(Dated(c.op, w.last))
EvalTautulli(t, k, f, c) == WatchResult(WatchFacts(t, k, f), c)

EvalMaintainerr(t, k, f, c) == Negated(c, MaintainerrFacts(t, k, f))

\* evalCatalog: a file's size is always known; sidecars are small.
EvalCatalog(f, c) == Negated(c, Result(c.v = (IF f = "sub" THEN "small" ELSE "big")))

EvalCondition(t, k, f, c) ==
    CASE c.field \in {"tag", "managed", "genre"} -> EvalArr(t, k, f, c)
      [] c.field = "section" -> EvalPlex(t, k, f, c)
      [] c.field \in {"requested", "requestedBy"} -> EvalSeerr(t, k, f, c)
      [] c.field \in {"plays", "last"} -> EvalTautulli(t, k, f, c)
      [] c.field = "pending" -> EvalMaintainerr(t, k, f, c)
      [] c.field = "size" -> EvalCatalog(f, c)

Combined(r, res) ==
    CASE r.conds = {} -> "true"
      [] r.match = "any" -> IF "true" \in res THEN "true" ELSE IF res = {"false"} THEN "false" ELSE "unknown"
      [] OTHER -> IF "false" \in res THEN "false" ELSE IF res = {"true"} THEN "true" ELSE "unknown"
EvalRule(t, k, f, r) == Combined(r, {EvalCondition(t, k, f, c) : c \in r.conds})

\* Rule.AppliesAt: no list is every destination, an empty one is none.
AppliesAt(r, d) == r.dests = None \/ d \in r.dests

\* Decide: the first rule that is true, or an unknown one before it that protects more; full
\* when none is true.
Best(rs, first, maybe) ==
    LET most == {i \in maybe : Protection(rs[i].action) > Protection(rs[first].action)} IN
    IF most = {} THEN rs[first].action
    ELSE rs[CHOOSE i \in most : \A j \in most : Protection(rs[i].action) >= Protection(rs[j].action)].action
Picked(rs, res) ==
    LET true == {i \in DOMAIN res : res[i] = "true"} IN
    IF true = {} THEN "full" ELSE Best(rs, Min(true), {i \in DOMAIN res : res[i] = "unknown" /\ i < Min(true)})
Decide(t, k, f, rs, d) ==
    Picked(rs, [i \in {j \in DOMAIN rs : rs[j].enabled /\ AppliesAt(rs[j], d)} |-> EvalRule(t, k, f, rs[i])])

\* decideFiles: the names of a hardlink group take the most protective decision, and a sidecar
\* its media file's.
Unified(t, own, follows) ==
    [f \in DOMAIN own |->
        IF f = "sub" /\ ~follows THEN own["sub"]
        ELSE IF t.linked /\ Protection(own["link"]) > Protection(own["film"]) THEN own["link"] ELSE own["film"]]
DecideFiles(t, k, rs, d) ==
    Unified(t, [f \in FilesOf(t) |-> Decide(t, k, f, rs, d)], Follows(t, k, "sub"))

-----------------------------------------------------------------------------
(* What Bunkarr can see changes.                                           *)

\* A cache is not refreshed for longer than its staleAfter, or is complete again.
GoesStale ==
    /\ Use("outages")
    /\ \/ know' = [know EXCEPT !.arr = FALSE]
       \/ know' = [know EXCEPT !.plex = FALSE]
       \/ know' = [know EXCEPT !.taut = FALSE]
       \/ know' = [know EXCEPT !.maint = FALSE]
       \/ \E s \in Seerrs : know' = [know EXCEPT !.seerr[s] = FALSE]
    /\ UNCHANGED <<world, truth, rules, revision, dests, drafts, hist>>

\* The linked Plex index is rebuilt from another server.
PlexRebuilt ==
    /\ Use("outages") /\ know' = [know EXCEPT !.same = FALSE]
    /\ UNCHANGED <<world, truth, rules, revision, dests, drafts, hist>>

\* RememberDeletedArr: a deleted *arr's folders stay unknown until the user confirms.
DeleteArr ==
    /\ Use("outages") /\ ~know.deleted /\ know' = [know EXCEPT !.deleted = TRUE]
    /\ UNCHANGED <<world, truth, rules, revision, dests, drafts, hist>>

\* ConfirmDeletedArr: the files are not managed any more.
ConfirmDeletedArr ==
    /\ know.deleted /\ know' = [know EXCEPT !.deleted = FALSE]
    /\ truth' = [truth EXCEPT !.managed = FALSE]
    /\ UNCHANGED <<world, used, rules, revision, dests, drafts, hist>>

Refreshed ==
    /\ ~know.arr \/ ~know.plex \/ ~know.taut \/ ~know.maint \/ \E s \in Seerrs : ~know.seerr[s]
    /\ know' = [know EXCEPT !.arr = TRUE, !.plex = TRUE, !.taut = TRUE, !.maint = TRUE, !.same = TRUE,
                            !.seerr = [s \in Seerrs |-> TRUE]]
    /\ UNCHANGED <<world, used, truth, rules, revision, dests, drafts, hist>>

-----------------------------------------------------------------------------
(* The rules are edited.                                                   *)

Load(e) ==
    /\ W.edits > 0 /\ drafts[e] # [rules |-> rules, base |-> revision]
    /\ drafts' = [drafts EXCEPT ![e] = [rules |-> rules, base |-> revision]]
    /\ UNCHANGED <<world, used, truth, know, rules, revision, dests, hist>>

\* What an editor makes of the rules it loaded: reorder, drop or add one, or change where it applies.
Edited(rs) ==
    {[i \in DOMAIN rs |-> rs[Len(rs) + 1 - i]]}
    \cup {[i \in 1..(Len(rs) - 1) |-> rs[i]] : x \in IF rs = <<>> THEN {} ELSE {1}}
    \cup {[rs EXCEPT ![i].dests = ds] : i \in DOMAIN rs, ds \in ((SUBSET dests) \ {{}}) \cup {None}}
    \cup {Append(rs, r) : r \in IF Len(rs) < 2 THEN {W.extra} ELSE {}}

\* Replace, under the write transaction: the base revision must be the current one, and every
\* destination must exist.
Accepted(e, new) ==
    /\ drafts[e].base = revision
    /\ \A i \in DOMAIN new : new[i].dests # None => new[i].dests \subseteq dests

Replace(e) ==
    /\ drafts[e] # None /\ Use("edits")
    /\ \E new \in Edited(drafts[e].rules) :
        /\ \/ /\ Accepted(e, new)
              /\ rules' = new /\ revision' = revision + 1
              /\ hist' = [granted |-> new, unseen |-> hist.unseen \/ drafts[e].base # revision]
           \/ ~Accepted(e, new) /\ UNCHANGED <<rules, revision, hist>>
        /\ drafts' = [drafts EXCEPT ![e] = None]
    /\ UNCHANGED <<world, truth, know, dests>>

\* RemoveDestination: a deleted destination leaves every list; an emptied list stays empty.
Without(r, d) == [r EXCEPT !.dests = IF @ = None THEN None ELSE @ \ {d}]
RemoveDestination ==
    /\ Use("removals")
    /\ \E d \in dests : /\ Cardinality(dests) > 1
                        /\ dests' = dests \ {d}
                        /\ rules' = [i \in DOMAIN rules |-> Without(rules[i], d)]
    /\ UNCHANGED <<world, truth, know, revision, drafts, hist>>

Next ==
    \/ GoesStale \/ PlexRebuilt \/ DeleteArr \/ ConfirmDeletedArr \/ Refreshed
    \/ \E e \in Editors : Load(e) \/ Replace(e)
    \/ RemoveDestination

Spec == Init /\ [][Next]_vars

-----------------------------------------------------------------------------
(* Properties.                                                             *)

\* Unknown never lowers protection: whatever caches are stale, incomplete or gone, no file is
\* decided less protective than by an index that sees everything (Decide, evalTautulli,
\* combineRequests, folderArr). A sidecar is compared while the *arr knows its media file: it
\* follows only such a file.
UnknownNeverDemotes ==
    \A d \in dests, f \in {x \in FilesOf(truth) : x = "sub" => Follows(truth, know, x) = truth.managed} :
        Protection(DecideFiles(truth, know, rules, d)[f])
            >= Protection(DecideFiles(truth, Complete(truth), rules, d)[f])

\* The rules are those the last accepted save sent, made by an editor that had seen the rules it
\* replaced, and a rule applies nowhere that save did not say, whichever destinations were
\* deleted since (Replace, RemoveDestination).
RulesAsSaved ==
    /\ ~hist.unseen
    /\ Len(rules) = Len(hist.granted)
    /\ \A i \in DOMAIN rules, d \in Dests :
          /\ AppliesAt(rules[i], d) => AppliesAt(hist.granted[i], d)
          /\ rules[i].conds = hist.granted[i].conds
==============================================================================
