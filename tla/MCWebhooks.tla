----------------------------- MODULE MCWebhooks -----------------------------
(***************************************************************************)
(* Instances of Webhooks. Each world is two events of a movie library and  *)
(* the trouble they meet.                                                  *)
(***************************************************************************)
EXTENDS Webhooks

Body(type, item, flag) == [app |-> "radarr", type |-> type, item |-> item, upgrade |-> flag, files |-> flag]
UpgradeDelete(i) == Body("MovieFileDelete", i, TRUE)
Download(i) == Body("Download", i, FALSE)
MovieDelete(i) == Body("MovieDelete", i, TRUE)
Rename(i) == Body("Rename", i, FALSE)

World(bodies, faults, stops, cancels, disables) ==
    [bodies |-> bodies, faults |-> faults, stops |-> stops, cancels |-> cancels,
     disables |-> disables, rows |-> 2, faulty |-> FALSE]

mcEvents == 1..2
mcItems == 1..2
mcJobs == 1..3

Upgrade == <<UpgradeDelete(1), Download(1)>>

mcWorlds ==
    {World(Upgrade, 0, 1, 1, FALSE), World(Upgrade, 2, 0, 0, FALSE),
     World(<<MovieDelete(1), Rename(2)>>, 0, 0, 1, FALSE),
     World(<<UpgradeDelete(1), Rename(2)>>, 0, 1, 0, TRUE),
     World(<<Body("Test", 0, FALSE), Rename(0)>>, 1, 1, 0, FALSE),
     [World(<<Rename(1), Rename(2)>>, 0, 1, 0, FALSE) EXCEPT !.rows = 1]}

\* A refresh is cancelled while its events are marked.
mcRearm == {World(<<Rename(1)>>, 0, 0, 1, FALSE)}
=============================================================================
