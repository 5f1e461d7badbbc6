---------------------------- MODULE MCMediaIndex ----------------------------
(***************************************************************************)
(* Settings of MediaIndex: a movie that moves, is replaced or deleted and  *)
(* one that stays, folders in one source, in two and in none, and the      *)
(* requests of schedules, of webhooks and of their overflow.               *)
(***************************************************************************)
EXTENDS MediaIndex
CONSTANTS a, b, f1, f2, f3, s1, s2

MCItems == {a, b}
MCFolders == {f1, f2, f3}
At(folder, file) == [there |-> TRUE, folder |-> folder, file |-> file]
Full == [mode |-> "full", ids |-> {}, dry |-> FALSE, allow |-> FALSE]
Webhook(ids) == [mode |-> "targeted", ids |-> ids, dry |-> FALSE, allow |-> FALSE]
Refresh(ids) == [mode |-> "items", ids |-> ids, dry |-> FALSE, allow |-> FALSE]
Overflow == [Full EXCEPT !.mode = "overflow"]
Dest(on, sources) == [enabled |-> on, onChange |-> on, sources |-> sources]

Base == [start |-> [u \in URLs |-> [i \in Items |-> IF i = a THEN At(f1, 1) ELSE At(f3, IF u = 0 THEN 0 ELSE 2)]],
         indexed |-> TRUE, perItem |-> FALSE,
         rootOf |-> [f \in Folders |-> IF f = f2 THEN "r2" ELSE "r1"],
         place |-> [f \in Folders |-> IF f = f1 THEN {[src |-> s1, root |-> FALSE]}
                                      ELSE IF f = f2 THEN {[src |-> s1, root |-> FALSE], [src |-> s2, root |-> TRUE]} ELSE {}],
         rootPlace |-> {s1, s2}, missing |-> {}, on |-> {s1, s2}, dests |-> {Dest(TRUE, {s1, s2}), Dest(FALSE, {s1})},
         requests |-> {Full}, jobs |-> 2, changes |-> 1, crashes |-> 0, errors |-> 0, cancels |-> 0, urls |-> 0,
         deads |-> 0, clock |-> {0}]

MCWorlds == {
    [Base EXCEPT !.requests = {Full, Webhook({a})}, !.crashes = 2, !.errors = 1],
    [Base EXCEPT !.requests = {Full, Webhook({a})}, !.cancels = 1, !.errors = 1, !.missing = {f2}],
    [Base EXCEPT !.requests = {Full, Overflow}, !.crashes = 2],
    [Base EXCEPT !.requests = {Full, Overflow}, !.crashes = 1, !.cancels = 1],
    [Base EXCEPT !.requests = {Full, Overflow}, !.errors = 2, !.on = {s1}, !.changes = 1],
    [Base EXCEPT !.requests = {Full, Webhook({a, b})}, !.perItem = TRUE, !.changes = 2, !.deads = 2],
    [Base EXCEPT !.requests = {Full, [Full EXCEPT !.allow = TRUE], [Full EXCEPT !.dry = TRUE]}, !.changes = 2, !.deads = 1, !.clock = {0, 6}],
    [Base EXCEPT !.requests = {Webhook({a, b})}, !.urls = 1, !.deads = 1, !.indexed = FALSE],
    [Base EXCEPT !.requests = {Full, Webhook({a})}, !.urls = 1, !.errors = 1, !.changes = 1],
    [Base EXCEPT !.requests = {Full, Webhook({a}), Refresh({a})}, !.crashes = 1]
  }
=============================================================================
