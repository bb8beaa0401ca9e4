------------------------- MODULE FoundationMigration -------------------------
(***************************************************************************)
(* The command that migrates memories to the foundation schema, and takes  *)
(* the migration back: scripts/memory-foundation-migration-runner.ts and   *)
(* core/migrations/memory-foundation-migration.ts, over services/qdrant.ts.*)
(*                                                                         *)
(* `apply` copies the slot database and the payloads of all points, writes *)
(* the payloads that lack something point by point and records what it did *)
(* in migration_state; `rollback` puts the copy of the database back,      *)
(* deletes the payload keys the copy of the points knows and sets them     *)
(* again.  `plan` and `verify` only read.                                  *)
(*                                                                         *)
(* The requests do not ask Qdrant to wait: an update is accepted first and *)
(* applied later, in the order of acceptance, and a scroll may come before *)
(* it.  A request that times out has been accepted or never will be, and   *)
(* the client may send it again.  The operator runs one command at a time, *)
(* and the next one when Qdrant has applied what it had accepted; nothing  *)
(* else writes the points.                                                 *)
(*                                                                         *)
(* A payload has for each key no value (None), the point's own value, an   *)
(* old one that the schema does not accept, or the one a migration writes. *)
(***************************************************************************)
EXTENDS Integers, Sequences, FiniteSets

CONSTANTS
    Points,
    Keys,
    Required,       \* the keys that the foundation schema fills in
    Payloads,       \* the payloads a point may start with
    None,
    MaxCommands,    \* bound on commands
    MaxFaults       \* bound on crashes, refused requests and lost answers

ASSUME NoneAssumption == None \notin {"own", "old", "new"}
ASSUME RequiredAssumption == Required \subseteq Keys
ASSUME PayloadsAssumption == Payloads \subseteq [Keys -> {None, "own", "old", "new"}]
ASSUME BoundsAssumption == MaxCommands \in Nat /\ MaxFaults \in Nat

VARIABLES
    points,         \* Qdrant: point -> payload
    queue,          \* Qdrant: the updates it has accepted and not applied
    row,            \* the slot database: the migration's row in migration_state
    copies,         \* files: each copy of the slot database, by its row
    snapshots,      \* files: each copy of the points
    job,            \* what the command that runs executes
    original,       \* history: the payloads the points started with
    restored,       \* history: the snapshot a rollback has ended with, until the next command
    cut,            \* history: a rollback has begun to delete and not ended
    commands, faults

qdrant == <<points, queue>>
files == <<copies, snapshots>>
history == <<original, restored, cut>>
vars == <<qdrant, row, files, job, history, commands, faults>>

Payload == [Keys -> {None, "own", "old", "new"}]
Own(payload) == {k \in Keys : payload[k] # None}

NoRow == [status |-> "none", snapshot |-> 0]
NoJob == [pc |-> "idle", seen |-> NoRow, scan |-> <<>>, snapshot |-> 0, todo |-> {},
          cut |-> FALSE]

Init ==
    /\ points \in [Points -> Payloads]
    /\ original = points
    /\ queue = <<>> /\ row = NoRow /\ copies = <<>> /\ snapshots = <<>>
    /\ job = NoJob /\ restored = 0 /\ cut = FALSE
    /\ commands = 0 /\ faults = 0

At(pc) == job.pc = pc
Goto(pc) == job' = [job EXCEPT !.pc = pc]
Fault == faults < MaxFaults /\ faults' = faults + 1

-----------------------------------------------------------------------------
(***************************************************************************)
(* Qdrant.                                                                 *)
(***************************************************************************)
SetUpdate(p, payload) == [on |-> {p}, keys |-> Own(payload), payload |-> payload]
DeleteUpdate(ps, keys) == [on |-> ps, keys |-> keys, payload |-> [k \in Keys |-> None]]

\* The next accepted update: it leaves the keys alone that it does not name.
Settle ==
    /\ queue # <<>>
    /\ LET u == Head(queue) IN
         points' = [p \in Points |-> [k \in Keys |->
                      IF p \in u.on /\ k \in u.keys THEN u.payload[k] ELSE points[p][k]]]
    /\ queue' = Tail(queue)
    /\ UNCHANGED <<row, files, job, history, commands, faults>>

\* A request is accepted; one whose answer is late is sent again and accepted twice.
Send(u) ==
    \/ queue' = Append(queue, u) /\ UNCHANGED faults
    \/ Fault /\ queue' = Append(Append(queue, u), u)

-----------------------------------------------------------------------------
(***************************************************************************)
(* What every command begins with.                                         *)
(***************************************************************************)
\* The points are scrolled, then the row is read.
Start(mode) ==
    /\ At("idle") /\ queue = <<>> /\ commands < MaxCommands
    /\ commands' = commands + 1
    /\ restored' = 0
    /\ job' = [NoJob EXCEPT !.pc = mode, !.seen = row, !.scan = points]
    /\ UNCHANGED <<qdrant, row, files, original, cut, faults>>

\* buildSemanticPayloadPatch
Patch(payload) ==
    [k \in Keys |-> IF k \in Required /\ payload[k] \in {None, "old"} THEN "new" ELSE payload[k]]

\* planSemanticPayloadMigration: the points whose patch changes something.
Pending == {p \in Points : Patch(job.scan[p]) # job.scan[p]}

(***************************************************************************)
(* apply                                                                   *)
(***************************************************************************)
CopyDatabase ==
    /\ At("apply")
    /\ copies' = Append(copies, row)
    /\ Goto("snapshot")
    /\ UNCHANGED <<qdrant, row, snapshots, history, commands, faults>>

Snapshot ==
    /\ At("snapshot")
    /\ snapshots' = Append(snapshots, job.scan)
    /\ job' = [job EXCEPT !.pc = "patch", !.snapshot = Len(snapshots) + 1, !.todo = Pending]
    /\ UNCHANGED <<qdrant, row, copies, history, commands, faults>>

\* One request per point: the whole payload as it was scrolled, with the patch.
SetPatch ==
    /\ At("patch")
    /\ \E p \in job.todo :
          /\ Send(SetUpdate(p, Patch(job.scan[p])))
          /\ job' = [job EXCEPT !.todo = @ \ {p}]
    /\ UNCHANGED <<points, row, files, history, commands>>

RecordApplied ==
    /\ At("patch") /\ job.todo = {}
    /\ row' = [status |-> "migrated", snapshot |-> job.snapshot]
    /\ job' = NoJob
    /\ UNCHANGED <<qdrant, files, history, commands, faults>>

-----------------------------------------------------------------------------
(***************************************************************************)
(* rollback                                                                *)
(***************************************************************************)
\* The copy replaces the file of a database that is open; which of the two a later reader
\* sees is SQLite's.  The notes of the row read before say which points to restore.
RestoreDatabase ==
    /\ At("rollback")
    /\ \E i \in 1..Len(copies) : row' \in {copies[i], row}
    /\ job' = [job EXCEPT !.snapshot = job.seen.snapshot,
                          !.pc = IF job.seen.snapshot = 0 THEN "record" ELSE "delete"]
    /\ UNCHANGED <<qdrant, files, history, commands, faults>>

\* Every key that some point of the snapshot has.
ManagedKeys(snapshot) == UNION {Own(snapshot[p]) : p \in Points}

DeleteKeys ==
    LET keys == ManagedKeys(snapshots[job.snapshot]) IN
    /\ At("delete")
    /\ job' = [job EXCEPT !.pc = "scroll", !.cut = cut]
    /\ cut' = TRUE
    /\ IF keys = {} THEN UNCHANGED <<queue, faults>> ELSE Send(DeleteUpdate(Points, keys))
    /\ UNCHANGED <<points, row, files, original, restored, commands>>

\* Wrong: only the points that are not as they were.
RestoreDiffering == {p \in Points : points[p] # snapshots[job.snapshot][p]}

\* All of them, whatever the scroll has found.
Restored == Points

\* The points are scrolled again, perhaps before Qdrant has deleted the keys.
ScrollAgain ==
    /\ At("scroll")
    /\ job' = [job EXCEPT !.pc = "restore", !.scan = points, !.todo = Restored]
    /\ UNCHANGED <<qdrant, row, files, history, commands, faults>>

\* Wrong: what the scroll found has precedence.
MergedUnder(p) ==
    LET kept == snapshots[job.snapshot][p] IN
    [k \in Keys |-> IF job.scan[p][k] # None THEN job.scan[p][k] ELSE kept[k]]

\* What the scroll found, under what the snapshot has.
Merged(p) ==
    LET kept == snapshots[job.snapshot][p] IN
    [k \in Keys |-> IF kept[k] # None THEN kept[k] ELSE job.scan[p][k]]

SetRestored ==
    /\ At("restore")
    /\ \E p \in job.todo :
          /\ Send(SetUpdate(p, Merged(p)))
          /\ job' = [job EXCEPT !.todo = @ \ {p}]
    /\ UNCHANGED <<points, row, files, history, commands>>

\* The new row carries the path of the snapshot on, for a rollback that follows.
RecordRolledBack ==
    /\ \/ At("restore") /\ job.todo = {} /\ cut' = job.cut /\ restored' = job.snapshot
       \/ At("record") /\ UNCHANGED <<cut, restored>>
    /\ row' = [status |-> "rolled_back", snapshot |-> job.snapshot]
    /\ job' = NoJob
    /\ UNCHANGED <<qdrant, files, original, commands, faults>>

-----------------------------------------------------------------------------
\* The command dies, or a request or a file-system call throws.
Fail ==
    /\ ~At("idle") /\ Fault
    /\ job' = NoJob
    /\ UNCHANGED <<qdrant, row, files, history, commands>>

Next ==
    \/ Settle
    \/ Start("apply")
    \/ copies # <<>> /\ Start("rollback")
    \/ CopyDatabase \/ Snapshot \/ SetPatch \/ RecordApplied
    \/ RestoreDatabase \/ DeleteKeys \/ ScrollAgain \/ SetRestored \/ RecordRolledBack
    \/ Fail

Spec == Init /\ [][Next]_vars

-----------------------------------------------------------------------------
(***************************************************************************)
(* Properties.                                                             *)
(***************************************************************************)
Rows == [status : {"none", "migrated", "rolled_back"}, snapshot : Nat]
Updates == [on : SUBSET Points, keys : SUBSET Keys, payload : Payload]
Pcs == {"idle", "apply", "snapshot", "patch", "rollback", "delete", "scroll", "restore", "record"}

\* The variables have their types.
TypeOK ==
    /\ points \in [Points -> Payload] /\ original \in [Points -> Payload]
    /\ queue \in Seq(Updates)
    /\ row \in Rows /\ copies \in Seq(Rows)
    /\ snapshots \in Seq([Points -> Payload])
    /\ job \in [pc : Pcs, seen : Rows, scan : [Points -> Payload] \cup {<<>>}, snapshot : Nat,
                todo : SUBSET Points, cut : BOOLEAN]
    /\ job.pc \in {"apply", "snapshot", "patch", "restore"} => job.scan \in [Points -> Payload]
    /\ restored \in Nat /\ cut \in BOOLEAN

\* A command never looks for a snapshot that is not there: neither the row nor a copy of it names
\* one before it is written (memory-foundation-migration-runner.ts, the order of apply).
SnapshotsExist ==
    /\ row.snapshot <= Len(snapshots) /\ job.seen.snapshot <= Len(snapshots)
    /\ job.snapshot <= Len(snapshots) /\ restored <= Len(snapshots)
    /\ \A i \in 1..Len(copies) : copies[i].snapshot <= Len(snapshots)
    /\ job.pc \in {"delete", "scroll", "restore"} => job.snapshot # 0

(***************************************************************************)
(* However migrations and rollbacks follow each other, wherever they fail  *)
(* and whatever requests are sent twice, what a point had of its own is    *)
(* there when Qdrant has applied everything: unless a rollback was cut     *)
(* short after its delete, nothing is lost.                                *)
(***************************************************************************)
OwnValuesKept ==
    queue = <<>> /\ ~cut =>
        \A p \in Points, k \in Keys : original[p][k] = "own" => points[p][k] = "own"

(***************************************************************************)
(* A rollback that ended without a failure has put back, when Qdrant has   *)
(* applied everything, each value that the snapshot of the recorded        *)
(* migration has, those of the old schema included, although it may have   *)
(* scrolled the points before its own delete was applied.                  *)
(***************************************************************************)
RollbackRestores ==
    queue = <<>> /\ restored # 0 =>
        \A p \in Points : \A k \in Own(snapshots[restored][p]) :
            points[p][k] = snapshots[restored][p][k]
=============================================================================
