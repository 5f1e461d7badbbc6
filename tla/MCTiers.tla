------------------------------- MODULE MCTiers -------------------------------
(* Two Seerr servers, one of which may be stale, and a rule about who       *)
(* requested an item.                                                       *)
EXTENDS Tiers

Condition == [field |-> "requestedBy", op |-> "in", v |-> "u2", neg |-> FALSE]
Rule(cs, a) == [conds |-> cs, match |-> "all", action |-> a, dests |-> None, enabled |-> TRUE]

Truth(tv, first, second) ==
    [managed |-> TRUE, linked |-> FALSE, tags |-> {}, section |-> "movies", plays |-> 0, last |-> None, shared |-> FALSE,
     tv |-> tv, requests |-> ("s1" :> first @@ "s2" :> second), pending |-> FALSE]
Request(u) == [user |-> u, all |-> TRUE, season |-> TRUE]

MCWorlds == [user |->
    [truths |-> {Truth(tv, a, b) : tv \in BOOLEAN, a \in {{}, {Request("u1")}}, b \in {{}, {Request("u2")}}},
     views |-> {[view |-> "row"]}, rules |-> {<<Rule({Condition}, "full"), Rule({}, "skip")>>}, seerrs |-> Seerrs,
     outages |-> 1, edits |-> 0, removals |-> 0, extra |-> Rule({}, "skip")]]
==============================================================================
