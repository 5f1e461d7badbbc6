----------------------------- MODULE MCSyncItem -----------------------------
(***************************************************************************)
(* The settings in which TLC checks SyncItem.                              *)
(***************************************************************************)
EXTENDS SyncItem

mcJobs == {1, 2, 3}
mcNames == {1, 2}

Quiet == [hardlinks |-> TRUE, inOrder |-> TRUE, versions |-> 3, crashes |-> 2, errors |-> 0,
          stuck |-> 0, meddles |-> 0]

mcWorlds ==
    {Quiet,
     \* without hardlinks the path is empty between two renames
     [Quiet EXCEPT !.hardlinks = FALSE, !.versions = 2, !.crashes = 1, !.errors = 1],
     \* an item fails, and so does settling what it left
     [Quiet EXCEPT !.versions = 2, !.crashes = 1, !.errors = 1, !.stuck = 1],
     \* others change the path, and jobs are resumed late
     [Quiet EXCEPT !.inOrder = FALSE, !.versions = 2, !.crashes = 1, !.meddles = 2]}
=============================================================================
