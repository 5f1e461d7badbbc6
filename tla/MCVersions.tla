---------------------------- MODULE MCVersions ----------------------------
(***************************************************************************)
(* Instances of Versions. Ticks 0 and 1 are one day and one week; a world  *)
(* is given to each runner with ends of the process, with failing          *)
(* operations and with changes by others, in the combinations that fit.    *)
(***************************************************************************)
EXTENDS Versions

World(kind, keeps, jobs, ticks, changes, crashes, errors, meddles) ==
    [kind |-> kind, keeps |-> keeps, jobs |-> jobs, ticks |-> ticks, changes |-> changes,
     crashes |-> crashes, errors |-> errors, meddles |-> meddles]

Kinds == {"plex", "arr", "manifest"}
One == {<<1, 0>>}
Two == {<<1, 0>>, <<2, 0>>}

MCWorlds ==
    \* An end of the process and a failing operation.
    {World(k, One, 2, 2, 1, 1, 1, 0) : k \in Kinds}
    \* Other retention settings between an interrupted prune and the next one.
    \cup {World("plex", Two, 3, 2, 0, 1, 0, 0), World("manifest", Two, 3, 1, 1, 1, 0, 0)}
    \* Versions that somebody else damages or deletes.
    \cup {World(k, One, 3, 1, 1, 0, 0, 1) : k \in {"arr", "manifest"}}
    \cup {World(k, One, 2, 1, 0, 1, 1, 1) : k \in Kinds}
    \* Versions of one second: a name left by an unfinished prune is used again.
    \cup {World("plex", One, 4, 0, 0, 0, 2, 0), World("manifest", One, 4, 0, 3, 0, 1, 0)}

Symmetry == Permutations(Contents)
=============================================================================
