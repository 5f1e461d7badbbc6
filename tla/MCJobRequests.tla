---------------------------- MODULE MCJobRequests ----------------------------
(***************************************************************************)
(* Instances of JobRequests: syncs of two sources with nested paths, and   *)
(* refreshes of items.                                                     *)
(***************************************************************************)
EXTENDS JobRequests

CONSTANTS s1, s2

S(type, src, targets, allow, after, release, dry) ==
    [type |-> type, src |-> src, targets |-> targets, allow |-> allow, after |-> after,
     release |-> release, dry |-> dry]

\* "d" is a folder with the files "a" and "b"; "c" is a file next to it.
mcTargets == {"a", "b", "c", "d"}
mcUnder == [t \in mcTargets |-> IF t = "d" THEN {"a", "b"} ELSE {t}]

syncAll == S("sync", {}, {}, FALSE, FALSE, FALSE, FALSE)
sync1 == S("sync", {s1}, {}, FALSE, FALSE, FALSE, FALSE)
syncAllow == S("sync", {}, {}, TRUE, FALSE, FALSE, FALSE)
syncA == S("sync", {s1}, {"a"}, FALSE, FALSE, FALSE, FALSE)
syncC == S("sync", {s1}, {"c"}, FALSE, FALSE, FALSE, FALSE)
syncD == S("sync", {s1}, {"d"}, FALSE, FALSE, FALSE, FALSE)
syncAAllow == S("sync", {s1}, {"a"}, TRUE, FALSE, FALSE, FALSE)
refreshAll == S("refresh", {}, {}, FALSE, FALSE, FALSE, FALSE)
refreshA == S("refresh", {}, {"a"}, FALSE, TRUE, FALSE, FALSE)
refreshC == S("refresh", {}, {"c"}, FALSE, TRUE, FALSE, FALSE)
refreshB == S("refresh", {}, {"b"}, FALSE, FALSE, FALSE, FALSE)
verifyAll == S("verify", {}, {}, FALSE, FALSE, FALSE, FALSE)
verifyDry == S("verify", {}, {}, FALSE, FALSE, FALSE, TRUE)

\* Whole and targeted syncs; refreshes, verifies and their schedules; and whole
\* syncs under a schedule, three in a row.
mcMenus ==
    {[asks |-> {syncAll, syncA, syncC, syncD, syncAAllow}, fires |-> {}, rows |-> 2],
     [asks |-> {refreshAll, refreshA, refreshB, refreshC, verifyAll, verifyDry},
      fires |-> {refreshAll, verifyAll}, rows |-> 2],
     [asks |-> {syncAll, sync1, syncAllow}, fires |-> {syncAll}, rows |-> 3]}
=============================================================================
