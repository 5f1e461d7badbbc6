----------------------------- MODULE Destinations -----------------------------
(***************************************************************************)
(* Creating, finishing, changing and deleting a destination, and the       *)
(* custody of the secret that opens it (internal/destinations: create.go,  *)
(* engine.go, destinations.go, kit.go, marker.go, open.go, encryption.go,  *)
(* credentials.go; the Create of engines/rclone and engines/restic;        *)
(* api/destinations.go).                                                   *)
(*                                                                         *)
(* A create runs under createMu, so there is one; an engine destination is *)
(* a pending row before its repository or marker exists, and the row keeps *)
(* the only copy of a generated secret. Calls at the storage fail, a       *)
(* marker write that failed may have landed, the process is killed at any  *)
(* step. Updates, deletes, kit exports and jobs run at the same time. A    *)
(* secret is a number, 0 for plain storage.                                *)
(***************************************************************************)
EXTENDS Integers, FiniteSets, FiniteSetsExt, TLC

CONSTANTS
    Places, Inside,     \* locations; pairs <<p, q>>: p is inside q
    Disks,              \* what may be found at a place
    Worlds              \* one engine each, crypt or plain

VARIABLES
    world, used,        \* bounds of this behaviour and what is used of them
    disk,               \* Disks -> [id, secret, data]: the marker or repository on it
    mounted,            \* Places -> Disks
    rows, seq,          \* the destinations table, and its sqlite_sequence
    fresh,              \* the last generated marker id or secret
    op,                 \* the create in progress
    calls,              \* updates, confirmations and deletes between their read and their write
    run,                \* a running job
    hist                \* history: [held: secrets the user has, lost: ..., set: field values last stored]

vars == <<world, used, disk, mounted, rows, seq, fresh, op, calls, run, hist>>

Blank == [id |-> 0, secret |-> 0, data |-> {}]
NoOp == [at |-> "idle"]
NoRun == [id |-> 0]
Fields == {"login", "key"}
Use(what) == used[what] < world[what] /\ used' = [used EXCEPT ![what] = @ + 1]

Init ==
    /\ world \in Worlds
    /\ used = [creates |-> 0, fails |-> 0, kills |-> 0, mounts |-> 0, calls |-> 0, jobs |-> 0, typed |-> 0]
    /\ disk = [d \in Disks |-> Blank]
    /\ mounted = world.mounted
    /\ rows = <<>> /\ seq = 0 /\ fresh = 0
    /\ op = NoOp /\ calls = {} /\ run = NoRun
    /\ hist = [held |-> {}, lost |-> {}, set |-> <<>>]

-----------------------------------------------------------------------------
(* The rows.                                                               *)

Pending(r) == r.marker = 0
At(p) == disk[mounted[p]]

\* overlaps, location.overlapsWith: equal, or one inside the other.
Overlaps(p, q) == p = q \/ <<p, q>> \in Inside \/ <<q, p>> \in Inside

\* Blocked, gate: no job for a create that did not finish, a disabled destination, or a
\* secret whose custody was never confirmed.
Blocked(r) == Pending(r) \/ (r.secret # 0 /\ ~r.confirmed)
Gate(r) == ~Blocked(r) /\ r.enabled

\* insertPending chooses it in the transaction: AUTOINCREMENT's next value, never one of a deleted row.
NewId == Max({seq} \cup DOMAIN rows) + 1

Insert(id, r) == rows' = (id :> r) @@ rows /\ seq' = id
Remove(id) == rows' = [i \in DOMAIN rows \ {id} |-> rows[i]]

\* readMarker, CatConfig with a secret: what is there, nothing, or what the secret cannot open.
Sees(p, secret) ==
    CASE At(p).id = 0 -> "missing"
      [] At(p).secret = secret -> "present"
      [] OTHER -> "unreadable"

\* CheckIdentity, check: the marker is there and is the row's.
Identity(r) == Sees(r.place, r.secret) = "present" /\ At(r.place).id = r.marker

-----------------------------------------------------------------------------
(* Create: what is asked, and the checks before anything is written.       *)

\* planEncryption: filecopy and plain rclone have no secret; a secret is typed, or
\* generated unless the create attaches.
PlanSecrets(engine, attach) ==
    IF engine = "filecopy" \/ (engine = "rclone" /\ world.plain) THEN {[secret |-> 0, user |-> FALSE]}
    ELSE {[secret |-> s, user |-> TRUE] : s \in hist.held}
         \cup (IF attach THEN {} ELSE {[secret |-> fresh + 1, user |-> u] : u \in {FALSE} \cup (IF used.typed < world.typed THEN {TRUE} ELSE {})})

\* checkLocalRepository, checkRemoteOverlap: the pending row of this place and engine is resumed.
Resumable(p, engine) == {i \in DOMAIN rows : Pending(rows[i]) /\ rows[i].place = p /\ rows[i].engine = engine}
Taken(p) == \E i \in DOMAIN rows : Overlaps(p, rows[i].place)

NewRow(engine, p, plan) ==
    [place |-> p, engine |-> engine, marker |-> 0, secret |-> plan.secret, user |-> plan.user,
     exported |-> FALSE, confirmed |-> FALSE, enabled |-> FALSE, creds |-> [f \in Fields |-> 0]]

\* A filecopy create reads the marker; one that is there needs attach and no row of its own.
\* An engine create resumes, or goes on to its pending row.
BeginCreate ==
    /\ op = NoOp
    /\ Use("creates")
    /\ \E p \in world.places, attach \in BOOLEAN, engine \in {world.engine} :
       /\ \E plan \in PlanSecrets(engine, attach) :
          /\ fresh' = Max({fresh, plan.secret})
          /\ hist' = IF plan.user THEN [hist EXCEPT !.held = @ \cup {plan.secret}] ELSE hist
          /\ LET q == [at |-> "insert", id |-> 0, engine |-> engine, place |-> p, attach |-> attach, plan |-> plan,
                       marker |-> 0, init |-> FALSE, resume |-> FALSE, disk |-> mounted[p]]
                 pend == Resumable(p, engine)
             IN  \/ /\ engine = "filecopy" /\ ~Taken(p)
                    /\ \/ At(p).id = 0 /\ op' = [q EXCEPT !.at = "mark"]
                       \/ /\ At(p).id # 0 /\ attach
                          /\ \A i \in DOMAIN rows : rows[i].marker # At(p).id
                          /\ op' = [q EXCEPT !.marker = At(p).id]
                 \/ /\ engine # "filecopy" /\ pend = {} /\ ~Taken(p)
                    /\ op' = q
                 \/ /\ engine # "filecopy" /\ pend # {}
                    /\ \E i \in pend :
                       /\ (rows[i].secret = 0) = (plan.secret = 0)
                       /\ plan.user => plan.secret = rows[i].secret
                       /\ op' = [q EXCEPT !.at = "look", !.id = i, !.resume = TRUE,
                                          !.plan = [secret |-> rows[i].secret, user |-> rows[i].user]]
    /\ UNCHANGED <<world, disk, mounted, rows, seq, calls, run>>

-----------------------------------------------------------------------------
(* A filecopy create: the marker, then the row.                            *)

\* writeMarker never replaces a marker.
WriteMarker ==
    /\ op.at = "mark"
    /\ \/ /\ disk[op.disk].id = 0
          /\ fresh' = fresh + 1
          /\ disk' = [disk EXCEPT ![op.disk] = [@ EXCEPT !.id = fresh + 1, !.secret = 0]]
          /\ op' = [op EXCEPT !.at = "insert", !.marker = fresh + 1, !.init = TRUE]
          /\ UNCHANGED used
       \/ /\ \/ disk[op.disk].id # 0 /\ UNCHANGED used
             \/ Use("fails")
          /\ op' = NoOp
          /\ UNCHANGED <<disk, fresh>>
    /\ UNCHANGED <<world, mounted, rows, seq, calls, run, hist>>

\* The marker this call wrote goes again when the row cannot be stored (removeMarkerIfOurs).
InsertFilecopy ==
    /\ op.at = "insert" /\ op.engine = "filecopy"
    /\ \/ /\ \A i \in DOMAIN rows : rows[i].marker # op.marker
          /\ Insert(NewId, [NewRow("filecopy", op.place, op.plan) EXCEPT !.marker = op.marker, !.enabled = TRUE])
          /\ UNCHANGED <<used, disk>>
       \/ /\ Use("fails")
          /\ disk' = IF op.init /\ disk[op.disk].id = op.marker THEN [disk EXCEPT ![op.disk] = [@ EXCEPT !.id = 0]] ELSE disk
          /\ UNCHANGED <<rows, seq>>
    /\ op' = NoOp
    /\ UNCHANGED <<world, mounted, fresh, calls, run, hist>>

-----------------------------------------------------------------------------
(* An engine create: the pending row with its secret, the engine, the end. *)

InsertPending ==
    /\ op.at = "insert" /\ op.engine # "filecopy"
    /\ \/ /\ Insert(NewId, NewRow(op.engine, op.place, op.plan))
          /\ op' = [op EXCEPT !.at = "look", !.id = NewId]
          /\ UNCHANGED used
       \/ Use("fails") /\ op' = NoOp /\ UNCHANGED <<rows, seq>>
    /\ UNCHANGED <<world, disk, mounted, fresh, calls, run, hist>>

\* createEngine after a failed Create, resumeCreate after one: a repository that was
\* initialized or a marker that may be there keeps the pending row, and so does a resume.
MutFailed(o, left) == [o EXCEPT !.at = IF o.resume THEN "idle" ELSE "drop"]
Failed(o, left) == [o EXCEPT !.at = IF o.resume \/ o.init \/ left THEN "idle" ELSE "drop"]
End(o) == IF o.at = "idle" THEN NoOp ELSE o

\* Driver.Create, the look before anything is written. A resume attaches first and creates
\* where there is nothing.
Look ==
    /\ op.at = "look"
    /\ LET seen == Sees(op.place, op.plan.secret)
           attach == op.attach \/ op.resume
       IN  \/ /\ UNCHANGED used
              /\ op' = CASE seen = "present" /\ attach -> [op EXCEPT !.at = "finish", !.marker = At(op.place).id]
                         [] seen = "missing" /\ ~op.attach -> [op EXCEPT !.at = "make", !.disk = mounted[op.place]]
                         [] OTHER -> End(Failed(op, FALSE))
           \/ Use("fails") /\ op' = End(Failed(op, FALSE))
    /\ UNCHANGED <<world, disk, mounted, rows, seq, fresh, calls, run, hist>>

\* restic init, rcat of the marker. An rcat that failed can have landed; Create then removes
\* the marker it finds with its id (dropFailedMarker), or says that it may be there.
Make ==
    /\ op.at = "make"
    /\ fresh' = fresh + 1
    /\ LET there == [disk EXCEPT ![op.disk] = [@ EXCEPT !.id = fresh + 1, !.secret = op.plan.secret]]
       IN  \/ /\ disk[op.disk].id = 0
              /\ disk' = there
              /\ op' = [op EXCEPT !.at = "readback", !.marker = fresh + 1, !.init = op.engine = "restic"]
              /\ UNCHANGED used
           \/ /\ Use("fails")
              /\ \/ op' = End(Failed(op, FALSE)) /\ UNCHANGED disk
                 \/ /\ op.engine = "rclone"
                    /\ disk[op.disk].id = 0
                    /\ \/ op' = End(Failed(op, FALSE)) /\ UNCHANGED disk
                       \/ op' = End(Failed(op, TRUE)) /\ disk' = there
    /\ UNCHANGED <<world, mounted, rows, seq, calls, run, hist>>

\* The new repository or marker is read back; a marker that is not is removed, if it can be.
ReadBack ==
    /\ op.at = "readback"
    /\ \/ op' = [op EXCEPT !.at = "finish"] /\ UNCHANGED <<used, disk>>
       \/ /\ Use("fails")
          /\ \/ /\ op.engine = "rclone"
                /\ disk' = [disk EXCEPT ![op.disk] = Blank]
                /\ op' = End(Failed(op, FALSE))
             \/ op' = End(Failed(op, TRUE)) /\ UNCHANGED disk
    /\ UNCHANGED <<world, mounted, rows, seq, fresh, calls, run, hist>>

\* finishCreate: the row must still be pending and the marker no other row's. An attach
\* confirms the kit: the secret the user gave opened it. What fails after a marker was
\* written removes the marker before the row (dropCreatedMarker).
FinishCreate ==
    /\ op.at = "finish"
    /\ LET ours == op.id \in DOMAIN rows /\ Pending(rows[op.id])
           free == \A i \in DOMAIN rows : rows[i].marker # op.marker
       IN  \/ /\ ours /\ free
              /\ rows' = [rows EXCEPT ![op.id] = [@ EXCEPT !.marker = op.marker, !.enabled = TRUE, !.confirmed = @ \/ op.attach]]
              /\ op' = NoOp
              /\ UNCHANGED <<used, disk>>
           \/ /\ \/ ~(ours /\ free) /\ UNCHANGED used
                 \/ Use("fails")
              /\ \/ /\ op.resume \/ op.init \/ op.attach
                    /\ op' = End(Failed(op, FALSE))
                    /\ UNCHANGED disk
                 \/ /\ ~(op.resume \/ op.init \/ op.attach)
                    /\ \/ disk' = [disk EXCEPT ![op.disk] = IF @.id = op.marker THEN Blank ELSE @]
                          /\ op' = End(Failed(op, FALSE))
                       \/ op' = End(Failed(op, TRUE)) /\ UNCHANGED disk
              /\ UNCHANGED rows
    /\ UNCHANGED <<world, mounted, seq, fresh, calls, run, hist>>

\* dropPending: only a row that is still pending.
DropPending ==
    /\ op.at = "drop"
    /\ IF op.id \in DOMAIN rows /\ Pending(rows[op.id]) THEN Remove(op.id) ELSE UNCHANGED rows
    /\ op' = NoOp
    /\ UNCHANGED <<world, used, disk, mounted, seq, fresh, calls, run, hist>>

-----------------------------------------------------------------------------
(* The recovery kit, updates and deletes: a read, then a write.            *)

\* RecoveryKit: the user has the secret from now on; kit_exported_at is stored.
RecoveryKit ==
    /\ \E i \in DOMAIN rows :
          /\ rows[i].secret # 0 /\ ~rows[i].exported
          /\ hist' = [hist EXCEPT !.held = @ \cup {rows[i].secret}]
          /\ rows' = [rows EXCEPT ![i].exported = TRUE]
    /\ UNCHANGED <<world, used, disk, mounted, seq, fresh, op, calls, run>>

\* ConfirmKit: the kit's check code, or the secret its user typed.
ConfirmKit ==
    /\ Use("calls")
    /\ \E i \in DOMAIN rows :
          /\ rows[i].secret \in hist.held
          /\ calls' = calls \cup {[what |-> "confirm", id |-> i, new |-> <<>>, sure |-> FALSE, seen |-> <<>>]}
    /\ UNCHANGED <<world, disk, mounted, rows, seq, fresh, op, run, hist>>

\* Update, testUpdate: the new fields over the stored ones must pass the identity check;
\* then they wait for the transaction.
UpdateTest ==
    /\ Use("calls")
    /\ \E i \in DOMAIN rows, f \in Fields :
          /\ rows[i].engine # "filecopy" /\ ~Pending(rows[i]) /\ Identity(rows[i])
          /\ calls' = calls \cup {[what |-> "update", id |-> i, new |-> f :> used.calls + 1, sure |-> FALSE, seen |-> rows[i].creds]}
    /\ UNCHANGED <<world, disk, mounted, rows, seq, fresh, op, run, hist>>

\* deleteDestination: no active job, then the transaction.
DeleteAsk ==
    /\ Use("calls")
    /\ \E i \in DOMAIN rows, sure \in BOOLEAN :
          /\ run.id # i
          /\ calls' = calls \cup {[what |-> "delete", id |-> i, new |-> <<>>, sure |-> sure, seen |-> <<>>]}
    /\ UNCHANGED <<world, disk, mounted, rows, seq, fresh, op, run, hist>>

\* mergeCredentialsTx: over the fields stored now, not those the test read.
Merge(stored, seen, new) == new @@ stored

\* Delete in its transaction: an unconfirmed secret needs the user's word.
MayDelete(r, sure) == r.secret # 0 /\ ~r.confirmed => sure

CallWrites ==
    /\ \E c \in calls :
       /\ calls' = calls \ {c}
       /\ IF c.id \notin DOMAIN rows THEN UNCHANGED <<rows, hist>>
          ELSE LET r == rows[c.id] IN
             \/ /\ c.what = "confirm"
                /\ rows' = [rows EXCEPT ![c.id].confirmed = TRUE]
                /\ UNCHANGED hist
             \/ /\ c.what = "update"
                /\ rows' = [rows EXCEPT ![c.id].creds = Merge(r.creds, c.seen, c.new)]
                /\ hist' = [hist EXCEPT !.set = [f \in {<<c.id, g>> : g \in DOMAIN c.new} |-> c.new[f[2]]] @@ @]
             \/ /\ c.what = "delete"
                /\ IF MayDelete(r, c.sure)
                   THEN Remove(c.id) /\ hist' = [hist EXCEPT !.lost = @ \cup {r.secret}]
                   ELSE UNCHANGED <<rows, hist>>
    /\ UNCHANGED <<world, used, disk, mounted, seq, fresh, op, run>>

-----------------------------------------------------------------------------
(* Jobs, disks and the process.                                            *)

\* A job reads its destination once (SecretsFor: location and secret of one row).
JobStart ==
    /\ run = NoRun
    /\ Use("jobs")
    /\ \E i \in DOMAIN rows : Gate(rows[i]) /\ run' = [id |-> i, row |-> rows[i]]
    /\ UNCHANGED <<world, disk, mounted, rows, seq, fresh, op, calls, hist>>

\* It writes where the identity check passes (Open, Recheck, CheckIdentity), and ends.
JobWrites ==
    /\ run # NoRun
    /\ disk' = IF Identity(run.row) THEN [disk EXCEPT ![mounted[run.row.place]].data = @ \cup {run.row.secret}] ELSE disk
    /\ run' = NoRun
    /\ UNCHANGED <<world, used, mounted, rows, seq, fresh, op, calls, hist>>

\* Another disk is mounted at a place, between a create's steps never.
Remount ==
    /\ op = NoOp
    /\ Use("mounts")
    /\ \E p \in world.places, d \in Disks : d # mounted[p] /\ mounted' = [mounted EXCEPT ![p] = d]
    /\ UNCHANGED <<world, disk, rows, seq, fresh, op, calls, run, hist>>

Kill ==
    /\ Use("kills")
    /\ op' = NoOp /\ calls' = {} /\ run' = NoRun
    /\ UNCHANGED <<world, disk, mounted, rows, seq, fresh, hist>>

Next ==
    \/ BeginCreate \/ WriteMarker \/ InsertFilecopy \/ InsertPending \/ Look \/ Make \/ ReadBack
    \/ FinishCreate \/ DropPending \/ RecoveryKit \/ ConfirmKit \/ UpdateTest \/ DeleteAsk \/ CallWrites
    \/ JobStart \/ JobWrites \/ Remount \/ Kill

Spec == Init /\ [][Next]_vars

-----------------------------------------------------------------------------

\* What a job wrote is encrypted with a secret its user has: no confirmation, attach or
\* resumed create lets a job write under a secret that only a row holds, and a row that is
\* deleted never gives its id, and so its confirmation, to another (Blocked, finishCreate,
\* insertPending).
DataReadable == \A d \in Disks : disk[d].data \subseteq {0} \cup hist.held

\* A repository or crypt marker at a place is always opened by a secret of a row, by one the
\* user has, or was given up by the user's own delete: a create that fails or is killed at
\* any step never leaves one behind that blocks its place for good (createEngine,
\* dropCreatedMarker, dropPending, resumeCreate).
NeverOrphaned ==
    \A d \in Disks : disk[d].id # 0 =>
        disk[d].secret \in {0} \cup hist.held \cup hist.lost \cup {rows[i].secret : i \in DOMAIN rows}

\* Each credential field is the one stored last for it: updates tested at the same time keep
\* each other's fields (Update, mergeCredentialsTx).
CredentialsKept ==
    \A x \in DOMAIN hist.set : x[1] \in DOMAIN rows => rows[x[1]].creds[x[2]] = hist.set[x]
=============================================================================
