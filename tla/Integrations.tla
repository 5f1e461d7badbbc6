---------------------------- MODULE Integrations ----------------------------
(***************************************************************************)
(* The saved integrations (internal/integrations/integrations.go,          *)
(* webhookkeys.go, normalize.go): a row has a URL, a token that is only    *)
(* for that URL, and, for an *arr, a webhook key. A write commits the row  *)
(* and then updates two things in memory, under registryMu: the redaction  *)
(* registry (internal/logging/logging.go), which keeps every stored secret *)
(* and the ones released last out of the logs, and the map the webhook     *)
(* routes check keys against. Meanwhile jobs and requests read a row, ask  *)
(* for its token and send it. The process is killed and starts again.      *)
(***************************************************************************)
EXTENDS Integers, FiniteSets, Sequences, SequencesExt

CONSTANTS
    Ids, Urls, Tokens,  \* row ids (reused), URLs, what users have as tokens
    Clients,            \* requests and jobs
    MaxReleased,        \* maxReleased
    Worlds, None

VARIABLES
    world, used,
    up,                 \* the process has started
    rows,               \* [type, url, key, hook] by id, or None
    registry,           \* [owned: by owner, pinned, released: oldest first, n: releases made]
    hooks,              \* webhookKeys: the key by id, or None
    client,             \* [at, ...]
    told, sent          \* <<url, token>>: as saved by users, as sent

vars == <<world, used, up, rows, registry, hooks, client, told, sent>>

Waiting == [at |-> "idle"]
Owners == Ids \X {"key", "hook"}
NoSecrets == [owned |-> [o \in Owners |-> None], pinned |-> {}, released |-> <<>>, n |-> 0]

Init ==
    /\ world \in Worlds
    /\ used = [writes |-> 0, reads |-> 0, errors |-> 0, crashes |-> 0, pins |-> 0]
    /\ up = FALSE /\ rows = world.rows
    /\ registry = NoSecrets /\ hooks = [i \in Ids |-> None]
    /\ client = [c \in Clients |-> Waiting]
    /\ told = {<<world.rows[i].url, world.rows[i].key>> : i \in {j \in Ids : world.rows[j] # None}}
    /\ sent = {}

Use(what) == used[what] < world[what] /\ used' = [used EXCEPT ![what] = @ + 1]
Have == {i \in Ids : rows[i] # None}
\* Webhook keys are random: no two are equal, nor a key of before.
NewHook == <<"hook", used.writes, used.errors, used.crashes>>

-----------------------------------------------------------------------------
(* The redaction registry.                                                 *)

Held(G) == G.pinned \cup {G.owned[o] : o \in Owners}
Redacted(G) == Held(G) \cup ToSet(G.released)
Drop(s, v) == SelectSeq(s, LAMBDA x : x # v)
\* Beyond maxReleased the oldest are dropped, down to half.
Trim(s) == IF Len(s) > MaxReleased THEN SubSeq(s, Len(s) - MaxReleased \div 2 + 1, Len(s)) ELSE s
\* SetSecrets: the new value is held before the old one is released.
SetSecret(G, o, v) ==
    LET old == G.owned[o]
        held == [G EXCEPT !.owned[o] = v, !.released = Drop(@, v)]
    IN  IF old = None \/ old \in Held(held) THEN held
        ELSE [held EXCEPT !.released = Trim(Append(@, old)), !.n = @ + 1]
\* RegisterSecret: a PlexOnlineToken found in Preferences.xml is held for good.
RegisterSecret ==
    /\ up /\ Use("pins")
    /\ \E t \in Tokens : registry' = [registry EXCEPT !.pinned = @ \cup {t}, !.released = Drop(@, t)]
    /\ UNCHANGED <<world, up, rows, hooks, client, told, sent>>

-----------------------------------------------------------------------------
(* Writes: registryMu is held from the commit to the registry's update.    *)

MutUnlocked == TRUE
Unlocked == \A c \in Clients : client[c].at # "hold"
Commit(c, i, row, sets) ==
    /\ up /\ client[c].at = "idle" /\ Unlocked /\ Use("writes")
    /\ rows' = [rows EXCEPT ![i] = row]
    /\ client' = [client EXCEPT ![c] = [at |-> "hold", id |-> i, sets |-> sets]]
    /\ UNCHANGED <<world, up, registry, hooks, sent>>
NewRow(type, u, t) == [type |-> type, url |-> u, key |-> t, hook |-> IF type = "arr" THEN NewHook ELSE None]

Create(c) ==
    \E i \in Ids \ Have, type \in world.types, u \in Urls, t \in Tokens \cup {None} :
        /\ LET row == NewRow(type, u, t)
           IN  Commit(c, i, row, IF row.hook = None THEN <<<<"key", t>>>> ELSE <<<<"key", t>>, <<"hook", row.hook>>>>)
        /\ told' = told \cup {<<u, t>>}
\* A stored token stays only while the URL does: another URL needs the token again, or none.
Update(c) ==
    \E i \in Have, u \in Urls, t \in Tokens \cup {None, "keep"} :
        /\ t = "keep" => u = rows[i].url \/ rows[i].key = None
        /\ Commit(c, i, [rows[i] EXCEPT !.url = u, !.key = IF t = "keep" THEN @ ELSE t], IF t = "keep" THEN <<>> ELSE <<<<"key", t>>>>)
        /\ told' = IF t = "keep" THEN told ELSE told \cup {<<u, t>>}
Delete(c) == \E i \in Have : Commit(c, i, None, <<<<"key", None>>, <<"hook", None>>>>) /\ UNCHANGED told
\* A new webhook key; WebhookKey gives one to a row that has none.
RotateWebhookKey(c) ==
    \E i \in Have :
        /\ rows[i].type = "arr"
        /\ Commit(c, i, [rows[i] EXCEPT !.hook = NewHook], <<<<"hook", NewHook>>>>) /\ UNCHANGED told

HoldWebhookKey(i, key) == [hooks EXCEPT ![i] = key]
\* Then the registry and the key map follow.
Hold(c) ==
    /\ client[c].at = "hold"
    /\ LET i == client[c].id
           sets == client[c].sets
           hook == SelectSeq(sets, LAMBDA s : s[1] = "hook")
       IN  /\ registry' = FoldLeft(LAMBDA G, s : SetSecret(G, <<i, s[1]>>, s[2]), registry, sets)
           /\ hooks' = IF hook = <<>> THEN hooks ELSE HoldWebhookKey(i, hook[1][2])
    /\ client' = [client EXCEPT ![c] = Waiting]
    /\ UNCHANGED <<world, used, up, rows, told, sent>>

-----------------------------------------------------------------------------
(* Uses of a token.                                                        *)

\* A job or request reads a row (or a test form names a URL), and later asks for the token of
\* that URL: the row's URL and token are read together.
Get(c) ==
    /\ up /\ client[c].at = "idle" /\ Use("reads")
    /\ \E i \in Have : \E u \in {rows[i].url} \cup world.typed : client' = [client EXCEPT ![c] = [at |-> "read", id |-> i, url |-> u]]
    /\ UNCHANGED <<world, up, rows, registry, hooks, told, sent>>
Matches(i, u) == rows[i] # None /\ rows[i].url = u
TokenFor(c) ==
    /\ client[c].at = "read"
    /\ client' = [client EXCEPT ![c] = IF Matches(@.id, @.url)
                                       THEN [at |-> "send", url |-> @.url, key |-> rows[@.id].key, n |-> registry.n] ELSE Waiting]
    /\ UNCHANGED <<world, used, up, rows, registry, hooks, told, sent>>
Send(c) ==
    /\ client[c].at = "send"
    /\ sent' = IF client[c].key = None THEN sent ELSE sent \cup {<<client[c].url, client[c].key>>}
    /\ client' = [client EXCEPT ![c] = Waiting]
    /\ UNCHANGED <<world, used, up, rows, registry, hooks, told>>

-----------------------------------------------------------------------------
(* Start.                                                                  *)

\* NormalizeStored gives the *arr rows of before their webhook key (a failure is logged), then
\* RegisterSecrets loads every stored secret and the key map.
Normalized(i) ==
    IF rows[i] = None \/ rows[i].type # "arr" \/ rows[i].hook # None THEN rows[i]
    ELSE [rows[i] EXCEPT !.hook = <<"first", i>>]
StartUp ==
    /\ ~up /\ up' = TRUE
    /\ \/ UNCHANGED used /\ rows' = [i \in Ids |-> Normalized(i)]
       \/ Use("errors") /\ UNCHANGED rows
    /\ registry' = [NoSecrets EXCEPT !.owned = [o \in Owners |->
          IF rows'[o[1]] = None THEN None ELSE IF o[2] = "key" THEN rows'[o[1]].key ELSE rows'[o[1]].hook]]
    /\ hooks' = [i \in Ids |-> IF rows'[i] = None THEN None ELSE rows'[i].hook]
    /\ UNCHANGED <<world, client, told, sent>>
Crash ==
    /\ up /\ Use("crashes") /\ up' = FALSE
    /\ registry' = NoSecrets /\ hooks' = [i \in Ids |-> None] /\ client' = [c \in Clients |-> Waiting]
    /\ UNCHANGED <<world, rows, told, sent>>

Next ==
    \/ \E c \in Clients : Create(c) \/ Update(c) \/ Delete(c) \/ RotateWebhookKey(c) \/ Hold(c) \/ Get(c) \/ TokenFor(c) \/ Send(c)
    \/ RegisterSecret \/ StartUp \/ Crash

Spec == Init /\ [][Next]_vars

-----------------------------------------------------------------------------
(* Properties.                                                             *)

\* A token is only ever sent to a URL its user saved it with, whatever was saved, deleted and
\* created again between reading the row and asking for its token.
TokenBound == sent \subseteq told

\* When no write is between its commit and its update of the registry, every stored secret is
\* held there, and one that a job still uses is not logged unless half of maxReleased others
\* were released since it was read.
SecretsHeld ==
    up /\ (\A c \in Clients : client[c].at # "hold") =>
        /\ \A i \in Have : rows[i].key \in Held(registry) \cup {None} /\ rows[i].hook \in Held(registry) \cup {None}
        /\ \A c \in Clients :
              client[c].at = "send" /\ client[c].key # None /\ registry.n - client[c].n <= MaxReleased \div 2 =>
                  client[c].key \in Redacted(registry)

\* The webhook routes accept exactly the stored keys: one that was replaced or deleted stopped
\* working when the request that did it ended.
HooksExact ==
    up /\ (\A c \in Clients : client[c].at # "hold") =>
        \A i \in Ids : hooks[i] = IF rows[i] = None THEN None ELSE rows[i].hook
=============================================================================
