---------------------- MODULE FoundationMigrationProofs ----------------------
(***************************************************************************)
(* Theorems about FoundationMigration, for any points, keys, payloads and  *)
(* bounds: what a point has of its own survives every sequence of          *)
(* migrations and rollbacks in which no rollback is cut short, and a       *)
(* rollback that ends restores what its snapshot has.                      *)
(*                                                                         *)
(* Both are about the moment when Qdrant has applied what it accepted; the *)
(* invariant is about what it will have for a key then, which the last     *)
(* update in the queue that names the key decides.                         *)
(***************************************************************************)
EXTENDS FoundationMigration, SequenceTheorems, TLAPS

Names(u, p, k) == p \in u.on /\ k \in u.keys

\* When Qdrant has applied the updates of q, key k of point p is v.
Due(q, p, k, v) ==
    \E i \in 0..Len(q) :
        /\ IF i = 0 THEN points[p][k] = v ELSE Names(q[i], p, k) /\ q[i].payload[k] = v
        /\ \A j \in (i + 1)..Len(q) : Names(q[j], p, k) => q[j].payload[k] = v

\* No rollback has been cut short; the one that runs may have deleted keys it is going to set.
Intact == IF job.pc \in {"scroll", "restore"} THEN ~job.cut ELSE ~cut

\* What a point has of its own is in every snapshot, in what an apply has scrolled, and, but for
\* the points a rollback has still to restore, due in Qdrant.
OwnIsDue ==
    Intact => \A p \in Points, k \in Keys : original[p][k] = "own" =>
        /\ \A i \in 1..Len(snapshots) : snapshots[i][p][k] = "own"
        /\ job.pc \in {"apply", "snapshot", "patch"} => job.scan[p][k] = "own"
        /\ job.pc = "restore" /\ p \notin job.todo => Due(queue, p, k, "own")
        /\ job.pc \notin {"scroll", "restore"} => Due(queue, p, k, "own")

\* What a rollback has restored so far, or has restored when it ended, is due.
RestoredIsDue ==
    /\ job.pc = "restore" =>
         \A p \in Points \ job.todo : \A k \in Own(snapshots[job.snapshot][p]) :
             Due(queue, p, k, snapshots[job.snapshot][p][k])
    /\ restored # 0 =>
         /\ job.pc = "idle"
         /\ \A p \in Points : \A k \in Own(snapshots[restored][p]) :
                Due(queue, p, k, snapshots[restored][p][k])

DeletesAreCut == job.pc \in {"scroll", "restore"} => cut

IInv == TypeOK /\ SnapshotsExist /\ DeletesAreCut /\ OwnIsDue /\ RestoredIsDue

-----------------------------------------------------------------------------
(***************************************************************************)
(* What is due, when updates are accepted and applied.                     *)
(***************************************************************************)
LEMMA AppendKeepsDue ==
    ASSUME NEW q \in Seq(Updates), NEW u \in Updates, NEW p \in Points, NEW k \in Keys, NEW v,
           Due(q, p, k, v), Names(u, p, k) => u.payload[k] = v
    PROVE  Due(Append(q, u), p, k, v)
<1> DEFINE r == Append(q, u)
<1>1. /\ Len(r) = Len(q) + 1 /\ Len(q) \in Nat /\ r[Len(q) + 1] = u
      /\ \A i \in 1..Len(q) : r[i] = q[i]
  BY AppendProperties
<1>2. PICK i \in 0..Len(q) :
        /\ IF i = 0 THEN points[p][k] = v ELSE Names(q[i], p, k) /\ q[i].payload[k] = v
        /\ \A j \in (i + 1)..Len(q) : Names(q[j], p, k) => q[j].payload[k] = v
  BY DEF Due
<1> HIDE DEF r
<1>3. IF i = 0 THEN points[p][k] = v ELSE Names(r[i], p, k) /\ r[i].payload[k] = v
  BY <1>1, <1>2
<1>4. ASSUME NEW j \in (i + 1)..Len(r), Names(r[j], p, k) PROVE r[j].payload[k] = v
  <2>1. CASE j = Len(q) + 1
    BY <1>1, <1>4, <2>1
  <2>2. CASE j # Len(q) + 1
    <3>1. j \in (i + 1)..Len(q) /\ j \in 1..Len(q)
      BY <1>1, <1>2, <2>2
    <3> QED BY <1>1, <1>2, <1>4, <3>1
  <2> QED BY <2>1, <2>2
<1>5. i \in 0..Len(r)
  BY <1>1
<1>6. Due(r, p, k, v)
  BY <1>3, <1>4, <1>5 DEF Due
<1> QED BY <1>6 DEF r

LEMMA AppendMakesDue ==
    ASSUME NEW q \in Seq(Updates), NEW u \in Updates, NEW p \in Points, NEW k \in Keys, NEW v,
           Names(u, p, k), u.payload[k] = v
    PROVE  Due(Append(q, u), p, k, v)
<1> DEFINE r == Append(q, u)
<1>1. Len(r) = Len(q) + 1 /\ Len(q) \in Nat /\ r[Len(q) + 1] = u
  BY AppendProperties
<1> HIDE DEF r
<1>2. Len(r) \in 0..Len(r) /\ Len(r) # 0 /\ r[Len(r)] = u
  BY <1>1
<1>3. \A j \in (Len(r) + 1)..Len(r) : Names(r[j], p, k) => r[j].payload[k] = v
  BY <1>1
<1>4. Due(r, p, k, v)
  BY <1>2, <1>3 DEF Due
<1> QED BY <1>4 DEF r

\* Sending an update once or twice leaves the points alone.
LEMMA SendKeepsDue ==
    ASSUME TypeOK, NEW u \in Updates, Send(u), UNCHANGED points,
           NEW p \in Points, NEW k \in Keys, NEW v,
           Due(queue, p, k, v), Names(u, p, k) => u.payload[k] = v
    PROVE  Due(queue, p, k, v)'
<1>1. queue \in Seq(Updates)
  BY DEF TypeOK
<1>2. Due(Append(queue, u), p, k, v) /\ Append(queue, u) \in Seq(Updates)
  BY <1>1, AppendKeepsDue, AppendProperties
<1>3. Due(Append(Append(queue, u), u), p, k, v)
  BY <1>2, AppendKeepsDue
<1>4. Due(queue', p, k, v)
  BY <1>2, <1>3 DEF Send
<1> QED BY <1>4 DEF Due

LEMMA SendMakesDue ==
    ASSUME TypeOK, NEW u \in Updates, Send(u), UNCHANGED points,
           NEW p \in Points, NEW k \in Keys, NEW v,
           Names(u, p, k), u.payload[k] = v
    PROVE  Due(queue, p, k, v)'
<1>1. queue \in Seq(Updates)
  BY DEF TypeOK
<1>2. Due(Append(queue, u), p, k, v) /\ Append(queue, u) \in Seq(Updates)
  BY <1>1, AppendMakesDue, AppendProperties
<1>3. Due(Append(Append(queue, u), u), p, k, v)
  BY <1>2, AppendMakesDue
<1>4. Due(queue', p, k, v)
  BY <1>2, <1>3 DEF Send
<1> QED BY <1>4 DEF Due

LEMMA SendKeepsType ==
    ASSUME TypeOK, NEW u \in Updates, Send(u)
    PROVE  queue' \in Seq(Updates) /\ faults' \in {faults, faults + 1}
<1>1. queue \in Seq(Updates)
  BY DEF TypeOK
<1>2. Append(queue, u) \in Seq(Updates)
  BY <1>1, AppendProperties
<1>3. Append(Append(queue, u), u) \in Seq(Updates)
  BY <1>2, AppendProperties
<1> QED BY <1>2, <1>3 DEF Send, Fault

\* Nothing is pending: what is due is there.
LEMMA NothingPending ==
    ASSUME queue = <<>>, NEW p, NEW k, NEW v
    PROVE  Due(queue, p, k, v) <=> points[p][k] = v
BY DEF Due

\* Applying the next update brings every key nearer to what is due.
LEMMA SettleKeepsDue ==
    ASSUME TypeOK, Settle, NEW p \in Points, NEW k \in Keys, NEW v, Due(queue, p, k, v)
    PROVE  Due(queue, p, k, v)'
<1>1. queue \in Seq(Updates) /\ queue # <<>> /\ queue' = Tail(queue)
  BY DEF TypeOK, Settle
<1>2. /\ Len(queue) \in Nat /\ Len(queue) >= 1
      /\ queue' \in Seq(Updates) /\ Len(queue') = Len(queue) - 1
      /\ \A i \in 1..Len(queue') : queue'[i] = queue[i + 1]
      /\ Head(queue) = queue[1]
  BY <1>1, HeadTailProperties, EmptySeq
<1>3. points'[p][k] = IF Names(queue[1], p, k) THEN queue[1].payload[k] ELSE points[p][k]
  BY <1>2 DEF Settle, Names
<1>4. PICK i \in 0..Len(queue) :
        /\ IF i = 0 THEN points[p][k] = v ELSE Names(queue[i], p, k) /\ queue[i].payload[k] = v
        /\ \A j \in (i + 1)..Len(queue) : Names(queue[j], p, k) => queue[j].payload[k] = v
  BY DEF Due
<1>5. CASE i \in {0, 1}
  <2>1. points'[p][k] = v
    <3>1. CASE i = 0
      <4>1. 1 \in (i + 1)..Len(queue)
        BY <1>2, <3>1
      <4> QED BY <1>3, <1>4, <3>1, <4>1
    <3>2. CASE i = 1
      BY <1>3, <1>4, <3>2
    <3> QED BY <1>5, <3>1, <3>2
  <2>2. ASSUME NEW j \in 1..Len(queue'), Names(queue'[j], p, k) PROVE queue'[j].payload[k] = v
    <3>1. j + 1 \in (i + 1)..Len(queue)
      BY <1>2, <1>5
    <3> QED BY <1>2, <1>4, <2>2, <3>1
  <2>3. 0 \in 0..Len(queue') /\ 0 + 1 = 1
    BY <1>2
  <2> QED BY <2>1, <2>2, <2>3 DEF Due
<1>6. CASE i \notin {0, 1}
  <2> DEFINE n == i - 1
  <2>1. n \in 0..Len(queue') /\ n # 0 /\ n \in 1..Len(queue') /\ n + 1 = i
    BY <1>2, <1>4, <1>6
  <2>2. Names(queue'[n], p, k) /\ queue'[n].payload[k] = v
    BY <1>2, <1>4, <1>6, <2>1
  <2>3. ASSUME NEW j \in (n + 1)..Len(queue'), Names(queue'[j], p, k)
        PROVE  queue'[j].payload[k] = v
    <3>1. j + 1 \in (i + 1)..Len(queue) /\ j \in 1..Len(queue')
      BY <1>2, <2>1
    <3> QED BY <1>2, <1>4, <2>3, <3>1
  <2> HIDE DEF n
  <2> QED BY <2>1, <2>2, <2>3 DEF Due
<1> QED BY <1>5, <1>6

\* What nobody touches stays due.
LEMMA UnchangedKeepsDue ==
    ASSUME UNCHANGED qdrant, NEW p, NEW k, NEW v
    PROVE  Due(queue, p, k, v)' <=> Due(queue, p, k, v)
BY DEF qdrant, Due

LEMMA UpdateTypes ==
    ASSUME NEW payload \in Payload, NEW p \in Points, NEW ks \in SUBSET Keys
    PROVE  SetUpdate(p, payload) \in Updates /\ DeleteUpdate(Points, ks) \in Updates
BY DEF SetUpdate, DeleteUpdate, Updates, Payload, Own

\* An update of one point sets the keys its payload has, and names no other point.
LEMMA SetUpdateNames ==
    ASSUME NEW payload \in Payload, NEW p \in Points, NEW q \in Points, NEW k \in Keys
    PROVE  /\ Names(SetUpdate(p, payload), q, k) <=> q = p /\ payload[k] # None
           /\ SetUpdate(p, payload).payload[k] = payload[k]
BY DEF Names, SetUpdate, Own

\* A patch fills in and replaces; it never takes a value of the point's own.
LEMMA PatchKeepsOwn ==
    ASSUME NEW payload \in Payload
    PROVE  /\ Patch(payload) \in Payload
           /\ \A k \in Keys : payload[k] = "own" => Patch(payload)[k] = "own"
BY NoneAssumption DEF Patch, Payload

-----------------------------------------------------------------------------
LEMMA InitIInv == Init => IInv
<1> SUFFICES ASSUME Init PROVE IInv
  OBVIOUS
<1>1. points \in [Points -> Payload]
  BY PayloadsAssumption DEF Init, Payload
<1>2. Len(snapshots) = 0 /\ Len(copies) = 0
  BY EmptySeq DEF Init
<1>3. TypeOK
  BY <1>1, EmptySeq DEF Init, TypeOK, NoJob, NoRow, Rows, Pcs
<1>4. SnapshotsExist
  BY <1>2 DEF Init, SnapshotsExist, NoJob, NoRow
<1>5. OwnIsDue
  BY <1>2, NothingPending DEF Init, OwnIsDue, NoJob
<1>6. DeletesAreCut /\ RestoredIsDue
  BY DEF Init, DeletesAreCut, RestoredIsDue, NoJob
<1> QED BY <1>3, <1>4, <1>5, <1>6 DEF IInv

LEMMA SettleKeeps ==
    ASSUME IInv, Settle
    PROVE  IInv'
<1>1. UNCHANGED <<row, copies, snapshots, job, original, restored, cut>>
  BY DEF Settle, files, history
<1>2. queue \in Seq(Updates) /\ queue # <<>> /\ queue' = Tail(queue)
  BY DEF IInv, TypeOK, Settle
<1>3. queue' \in Seq(Updates) /\ Head(queue) \in Updates
  BY <1>2, HeadTailProperties
<1>4. points' \in [Points -> Payload]
  BY <1>3 DEF IInv, TypeOK, Settle, Updates, Payload
<1>5. TypeOK'
  BY <1>1, <1>3, <1>4 DEF IInv, TypeOK
<1>6. SnapshotsExist' /\ DeletesAreCut'
  BY <1>1 DEF IInv, SnapshotsExist, DeletesAreCut
<1>7. \A p \in Points, k \in Keys : \A v : Due(queue, p, k, v) => Due(queue, p, k, v)'
  BY SettleKeepsDue DEF IInv
<1>8. OwnIsDue'
  BY <1>1, <1>7 DEF IInv, OwnIsDue, Intact
<1>9. RestoredIsDue'
  BY <1>1, <1>7 DEF IInv, RestoredIsDue, Own
<1> QED BY <1>5, <1>6, <1>8, <1>9 DEF IInv

LEMMA StartKeeps ==
    ASSUME IInv, NEW mode \in {"apply", "rollback"}, Start(mode)
    PROVE  IInv'
<1>1. /\ job.pc = "idle" /\ queue = <<>> /\ restored' = 0
      /\ job' = [pc |-> mode, seen |-> row, scan |-> points, snapshot |-> 0, todo |-> {},
                 cut |-> FALSE]
      /\ UNCHANGED <<points, queue, row, copies, snapshots, original, cut>>
  BY DEF Start, At, NoJob, qdrant, files
<1>2. TypeOK'
  BY <1>1 DEF IInv, TypeOK, Pcs
<1>3. SnapshotsExist'
  BY <1>1 DEF IInv, TypeOK, SnapshotsExist
<1>4. DeletesAreCut' /\ RestoredIsDue'
  BY <1>1 DEF DeletesAreCut, RestoredIsDue
<1>5. \A p \in Points, k \in Keys :
        /\ Due(queue, p, k, "own") <=> points[p][k] = "own"
        /\ Due(queue, p, k, "own")' <=> Due(queue, p, k, "own")
  BY <1>1, NothingPending, UnchangedKeepsDue DEF qdrant
<1>6. OwnIsDue'
  BY <1>1, <1>5 DEF IInv, OwnIsDue, Intact
<1> QED BY <1>2, <1>3, <1>4, <1>6 DEF IInv

LEMMA CopyDatabaseKeeps ==
    ASSUME IInv, CopyDatabase
    PROVE  IInv'
<1>1. /\ job.pc = "apply" /\ job' = [job EXCEPT !.pc = "snapshot"]
      /\ copies' = Append(copies, row)
      /\ UNCHANGED <<points, queue, row, snapshots, original, restored, cut>>
  BY DEF CopyDatabase, At, Goto, qdrant, history
<1>2. /\ copies' \in Seq(Rows) /\ Len(copies') = Len(copies) + 1 /\ Len(copies) \in Nat
      /\ copies'[Len(copies) + 1] = row /\ \A i \in 1..Len(copies) : copies'[i] = copies[i]
  BY <1>1, AppendProperties DEF IInv, TypeOK
<1>3. TypeOK'
  BY <1>1, <1>2 DEF IInv, TypeOK, Pcs
<1>4. SnapshotsExist'
  <2>1. ASSUME NEW i \in 1..Len(copies') PROVE copies'[i].snapshot <= Len(snapshots)
    BY <1>2 DEF IInv, SnapshotsExist
  <2> QED BY <1>1, <2>1 DEF IInv, TypeOK, SnapshotsExist
<1>5. DeletesAreCut' /\ RestoredIsDue'
  BY <1>1 DEF IInv, TypeOK, DeletesAreCut, RestoredIsDue
<1>6. \A p \in Points, k \in Keys : Due(queue, p, k, "own")' <=> Due(queue, p, k, "own")
  BY <1>1, UnchangedKeepsDue DEF qdrant
<1>7. OwnIsDue'
  BY <1>1, <1>6 DEF IInv, TypeOK, OwnIsDue, Intact
<1> QED BY <1>3, <1>4, <1>5, <1>7 DEF IInv

LEMMA SnapshotKeeps ==
    ASSUME IInv, Snapshot
    PROVE  IInv'
<1>1. /\ job.pc = "snapshot" /\ snapshots' = Append(snapshots, job.scan)
      /\ job' = [job EXCEPT !.pc = "patch", !.snapshot = Len(snapshots) + 1, !.todo = Pending]
      /\ UNCHANGED <<points, queue, row, copies, original, restored, cut>>
  BY DEF Snapshot, At, qdrant, history
<1>2. job.scan \in [Points -> Payload] /\ Pending \subseteq Points
  BY <1>1 DEF IInv, TypeOK, Pending
<1>3. /\ snapshots' \in Seq([Points -> Payload]) /\ Len(snapshots') = Len(snapshots) + 1
      /\ Len(snapshots) \in Nat /\ snapshots'[Len(snapshots) + 1] = job.scan
      /\ \A i \in 1..Len(snapshots) : snapshots'[i] = snapshots[i]
  BY <1>1, <1>2, AppendProperties DEF IInv, TypeOK
<1>4. /\ job'.pc = "patch" /\ job'.snapshot = Len(snapshots) + 1 /\ job'.todo = Pending
      /\ job'.seen = job.seen /\ job'.scan = job.scan /\ job'.cut = job.cut
  BY <1>1 DEF IInv, TypeOK
<1>5. TypeOK'
  <2>1. job' \in [pc : Pcs, seen : Rows, scan : [Points -> Payload] \cup {<<>>}, snapshot : Nat,
                  todo : SUBSET Points, cut : BOOLEAN]
    <3>1. job' = [pc |-> "patch", seen |-> job.seen, scan |-> job.scan,
                  snapshot |-> Len(snapshots) + 1, todo |-> Pending, cut |-> job.cut]
      BY <1>1 DEF IInv, TypeOK
    <3> QED BY <1>2, <1>3, <3>1 DEF IInv, TypeOK, Pcs
  <2> QED BY <1>1, <1>2, <1>3, <1>4, <2>1 DEF IInv, TypeOK
<1>6. SnapshotsExist'
  <2>1. /\ row.snapshot \in Nat /\ job.seen.snapshot \in Nat /\ restored \in Nat
        /\ \A i \in 1..Len(copies) : copies[i].snapshot \in Nat
    <3>1. row \in Rows /\ job.seen \in Rows /\ restored \in Nat /\ copies \in Seq(Rows)
      BY DEF IInv, TypeOK
    <3>2. \A i \in 1..Len(copies) : copies[i] \in Rows
      BY <3>1
    <3> QED BY <3>1, <3>2 DEF Rows
  <2>2. row'.snapshot <= Len(snapshots') /\ job'.seen.snapshot <= Len(snapshots')
    BY <1>1, <1>3, <1>4, <2>1 DEF IInv, SnapshotsExist
  <2>3. job'.snapshot <= Len(snapshots') /\ restored' <= Len(snapshots')
    BY <1>1, <1>3, <1>4, <2>1 DEF IInv, SnapshotsExist
  <2>4. \A i \in 1..Len(copies') : copies'[i].snapshot <= Len(snapshots')
    BY <1>1, <1>3, <2>1 DEF IInv, SnapshotsExist
  <2> QED BY <1>4, <2>2, <2>3, <2>4 DEF SnapshotsExist
<1>7. restored = 0
  BY <1>1 DEF IInv, RestoredIsDue
<1>8. DeletesAreCut' /\ RestoredIsDue'
  BY <1>1, <1>4, <1>7 DEF DeletesAreCut, RestoredIsDue
<1>9. \A p \in Points, k \in Keys : Due(queue, p, k, "own")' <=> Due(queue, p, k, "own")
  BY <1>1, UnchangedKeepsDue DEF qdrant
<1>10. OwnIsDue'
  <2> SUFFICES ASSUME Intact', NEW p \in Points, NEW k \in Keys, original[p][k] = "own"
               PROVE  /\ \A i \in 1..Len(snapshots') : snapshots'[i][p][k] = "own"
                      /\ job.scan[p][k] = "own" /\ Due(queue, p, k, "own")
    BY <1>1, <1>4, <1>9 DEF OwnIsDue
  <2>1. Intact
    BY <1>1, <1>4 DEF Intact
  <2>2. /\ \A i \in 1..Len(snapshots) : snapshots[i][p][k] = "own"
        /\ job.scan[p][k] = "own" /\ Due(queue, p, k, "own")
    BY <1>1, <2>1 DEF IInv, OwnIsDue
  <2>3. ASSUME NEW i \in 1..Len(snapshots') PROVE snapshots'[i][p][k] = "own"
    BY <1>3, <2>2
  <2> QED BY <2>2, <2>3
<1> QED BY <1>5, <1>6, <1>8, <1>10 DEF IInv

LEMMA SetPatchKeeps ==
    ASSUME IInv, SetPatch
    PROVE  IInv'
<1>1. PICK q \in job.todo :
        /\ Send(SetUpdate(q, Patch(job.scan[q])))
        /\ job' = [job EXCEPT !.todo = @ \ {q}]
  BY DEF SetPatch
<1>2. /\ job.pc = "patch"
      /\ UNCHANGED <<points, row, copies, snapshots, original, restored, cut>>
  BY DEF SetPatch, At, files, history
<1>3. q \in Points /\ job.scan \in [Points -> Payload] /\ Patch(job.scan[q]) \in Payload
  BY <1>1, <1>2, PatchKeepsOwn DEF IInv, TypeOK
<1>4. SetUpdate(q, Patch(job.scan[q])) \in Updates
  BY <1>3, UpdateTypes
<1>5. /\ job'.pc = "patch" /\ job'.scan = job.scan /\ job'.seen = job.seen /\ job'.cut = job.cut
      /\ job'.snapshot = job.snapshot
      /\ job' \in [pc : Pcs, seen : Rows, scan : [Points -> Payload] \cup {<<>>}, snapshot : Nat,
                   todo : SUBSET Points, cut : BOOLEAN]
  BY <1>1, <1>2 DEF IInv, TypeOK
<1>6. queue' \in Seq(Updates)
  BY <1>1, <1>4, SendKeepsType DEF IInv
<1>7. TypeOK'
  BY <1>2, <1>3, <1>5, <1>6 DEF IInv, TypeOK
<1>8. SnapshotsExist'
  BY <1>2, <1>5 DEF IInv, SnapshotsExist
<1>9. restored = 0
  BY <1>2 DEF IInv, RestoredIsDue
<1>10. DeletesAreCut' /\ RestoredIsDue'
  BY <1>2, <1>5, <1>9 DEF DeletesAreCut, RestoredIsDue
<1>11. OwnIsDue'
  <2> SUFFICES ASSUME Intact', NEW p \in Points, NEW k \in Keys, original[p][k] = "own"
               PROVE  /\ \A i \in 1..Len(snapshots) : snapshots[i][p][k] = "own"
                      /\ job.scan[p][k] = "own" /\ Due(queue, p, k, "own")'
    BY <1>2, <1>5 DEF OwnIsDue
  <2>1. Intact
    BY <1>2, <1>5 DEF Intact
  <2>2. /\ \A i \in 1..Len(snapshots) : snapshots[i][p][k] = "own"
        /\ job.scan[p][k] = "own" /\ Due(queue, p, k, "own")
    BY <1>2, <2>1 DEF IInv, OwnIsDue
  <2>3. Names(SetUpdate(q, Patch(job.scan[q])), p, k)
          => SetUpdate(q, Patch(job.scan[q])).payload[k] = "own"
    BY <1>3, <2>2, SetUpdateNames, PatchKeepsOwn
  <2>4. Due(queue, p, k, "own")'
    BY <1>1, <1>2, <1>4, <2>2, <2>3, SendKeepsDue DEF IInv
  <2> QED BY <2>2, <2>4
<1> QED BY <1>7, <1>8, <1>10, <1>11 DEF IInv

LEMMA RecordAppliedKeeps ==
    ASSUME IInv, RecordApplied
    PROVE  IInv'
<1>1. /\ job.pc = "patch" /\ job' = NoJob
      /\ row' = [status |-> "migrated", snapshot |-> job.snapshot]
      /\ UNCHANGED <<points, queue, copies, snapshots, original, restored, cut>>
  BY DEF RecordApplied, At, qdrant, files, history
<1>2. job'.pc = "idle" /\ job'.seen = NoRow /\ job'.snapshot = 0
  BY <1>1 DEF NoJob
<1>3. TypeOK'
  BY <1>1 DEF IInv, TypeOK, NoJob, NoRow, Rows, Pcs
<1>4. SnapshotsExist'
  BY <1>1, <1>2 DEF IInv, TypeOK, SnapshotsExist, NoRow
<1>5. restored = 0
  BY <1>1 DEF IInv, RestoredIsDue
<1>6. DeletesAreCut' /\ RestoredIsDue'
  BY <1>1, <1>2, <1>5 DEF DeletesAreCut, RestoredIsDue
<1>7. \A p \in Points, k \in Keys : Due(queue, p, k, "own")' <=> Due(queue, p, k, "own")
  BY <1>1, UnchangedKeepsDue DEF qdrant
<1>8. OwnIsDue'
  BY <1>1, <1>2, <1>7 DEF IInv, OwnIsDue, Intact
<1> QED BY <1>3, <1>4, <1>6, <1>8 DEF IInv

LEMMA RestoreDatabaseKeeps ==
    ASSUME IInv, RestoreDatabase
    PROVE  IInv'
<1>1. /\ job.pc = "rollback" /\ \E i \in 1..Len(copies) : row' \in {copies[i], row}
      /\ job' = [job EXCEPT !.snapshot = job.seen.snapshot,
                            !.pc = IF job.seen.snapshot = 0 THEN "record" ELSE "delete"]
      /\ UNCHANGED <<points, queue, copies, snapshots, original, restored, cut>>
  BY DEF RestoreDatabase, At, qdrant, files, history
<1>2. row' \in Rows /\ row'.snapshot <= Len(snapshots)
  BY <1>1 DEF IInv, TypeOK, SnapshotsExist
<1>3. /\ job'.seen = job.seen /\ job'.scan = job.scan /\ job'.snapshot = job.seen.snapshot
      /\ job'.pc \in {"record", "delete"} /\ (job'.pc = "delete" => job'.snapshot # 0)
  BY <1>1 DEF IInv, TypeOK
<1>4. job' \in [pc : Pcs, seen : Rows, scan : [Points -> Payload] \cup {<<>>}, snapshot : Nat,
                todo : SUBSET Points, cut : BOOLEAN]
  <2>1. job' = [pc |-> job'.pc, seen |-> job.seen, scan |-> job.scan,
                snapshot |-> job.seen.snapshot, todo |-> job.todo, cut |-> job.cut]
    BY <1>1 DEF IInv, TypeOK
  <2> QED BY <1>3, <2>1 DEF IInv, TypeOK, Rows, Pcs
<1>5. TypeOK'
  BY <1>1, <1>2, <1>3, <1>4 DEF IInv, TypeOK
<1>6. SnapshotsExist'
  BY <1>1, <1>2, <1>3 DEF IInv, SnapshotsExist
<1>7. restored = 0
  BY <1>1 DEF IInv, RestoredIsDue
<1>8. DeletesAreCut' /\ RestoredIsDue'
  BY <1>1, <1>3, <1>7 DEF DeletesAreCut, RestoredIsDue
<1>9. \A p \in Points, k \in Keys : Due(queue, p, k, "own")' <=> Due(queue, p, k, "own")
  BY <1>1, UnchangedKeepsDue DEF qdrant
<1>10. OwnIsDue'
  BY <1>1, <1>3, <1>9 DEF IInv, OwnIsDue, Intact
<1> QED BY <1>5, <1>6, <1>8, <1>10 DEF IInv

LEMMA DeleteKeysKeeps ==
    ASSUME IInv, DeleteKeys
    PROVE  IInv'
<1> DEFINE keys == ManagedKeys(snapshots[job.snapshot])
<1>1. /\ job.pc = "delete" /\ job' = [job EXCEPT !.pc = "scroll", !.cut = cut] /\ cut' = TRUE
      /\ UNCHANGED queue \/ Send(DeleteUpdate(Points, keys))
      /\ UNCHANGED <<points, row, copies, snapshots, original, restored>>
  BY DEF DeleteKeys, At, files
<1>2. keys \in SUBSET Keys
  BY DEF ManagedKeys, Own
<1> HIDE DEF keys
<1>3. DeleteUpdate(Points, keys) \in Updates
  BY <1>2 DEF DeleteUpdate, Updates, Payload
<1>4. queue' \in Seq(Updates)
  BY <1>1, <1>3, SendKeepsType DEF IInv, TypeOK
<1>5. /\ job'.pc = "scroll" /\ job'.seen = job.seen /\ job'.snapshot = job.snapshot
      /\ job'.cut = cut
  BY <1>1 DEF IInv, TypeOK
<1>6. job' \in [pc : Pcs, seen : Rows, scan : [Points -> Payload] \cup {<<>>}, snapshot : Nat,
                todo : SUBSET Points, cut : BOOLEAN]
  <2>1. job' = [pc |-> "scroll", seen |-> job.seen, scan |-> job.scan,
                snapshot |-> job.snapshot, todo |-> job.todo, cut |-> cut]
    BY <1>1 DEF IInv, TypeOK
  <2> QED BY <2>1 DEF IInv, TypeOK, Pcs
<1>7. TypeOK'
  BY <1>1, <1>4, <1>5, <1>6 DEF IInv, TypeOK
<1>8. SnapshotsExist'
  BY <1>1, <1>5 DEF IInv, SnapshotsExist
<1>9. restored = 0
  BY <1>1 DEF IInv, RestoredIsDue
<1>10. DeletesAreCut' /\ RestoredIsDue'
  BY <1>1, <1>5, <1>9 DEF DeletesAreCut, RestoredIsDue
<1>11. OwnIsDue'
  BY <1>1, <1>5 DEF IInv, OwnIsDue, Intact
<1> QED BY <1>7, <1>8, <1>10, <1>11 DEF IInv

LEMMA ScrollAgainKeeps ==
    ASSUME IInv, ScrollAgain
    PROVE  IInv'
<1>1. /\ job.pc = "scroll"
      /\ job' = [job EXCEPT !.pc = "restore", !.scan = points, !.todo = Points]
      /\ UNCHANGED <<points, queue, row, copies, snapshots, original, restored, cut>>
  BY DEF ScrollAgain, Restored, At, qdrant, files, history
<1>2. /\ job'.pc = "restore" /\ job'.scan = points /\ job'.todo = Points
      /\ job'.seen = job.seen /\ job'.snapshot = job.snapshot /\ job'.cut = job.cut
  BY <1>1 DEF IInv, TypeOK
<1>3. job' \in [pc : Pcs, seen : Rows, scan : [Points -> Payload] \cup {<<>>}, snapshot : Nat,
                todo : SUBSET Points, cut : BOOLEAN]
  <2>1. job' = [pc |-> "restore", seen |-> job.seen, scan |-> points,
                snapshot |-> job.snapshot, todo |-> Points, cut |-> job.cut]
    BY <1>1 DEF IInv, TypeOK
  <2> QED BY <2>1 DEF IInv, TypeOK, Pcs
<1>4. TypeOK'
  BY <1>1, <1>2, <1>3 DEF IInv, TypeOK
<1>5. SnapshotsExist'
  BY <1>1, <1>2 DEF IInv, SnapshotsExist
<1>6. restored = 0
  BY <1>1 DEF IInv, RestoredIsDue
<1>7. DeletesAreCut'
  BY <1>1, <1>2 DEF IInv, DeletesAreCut
<1>8. RestoredIsDue'
  BY <1>1, <1>2, <1>6 DEF RestoredIsDue
<1>9. OwnIsDue'
  BY <1>1, <1>2 DEF IInv, OwnIsDue, Intact
<1> QED BY <1>4, <1>5, <1>7, <1>8, <1>9 DEF IInv

LEMMA SetRestoredKeeps ==
    ASSUME IInv, SetRestored
    PROVE  IInv'
<1>1. PICK q \in job.todo :
        Send(SetUpdate(q, Merged(q))) /\ job' = [job EXCEPT !.todo = @ \ {q}]
  BY DEF SetRestored
<1>2. /\ job.pc = "restore"
      /\ UNCHANGED <<points, row, copies, snapshots, original, restored, cut>>
  BY DEF SetRestored, At, files, history
<1>3. /\ q \in Points /\ job.scan \in [Points -> Payload] /\ job.snapshot \in 1..Len(snapshots)
      /\ snapshots[job.snapshot] \in [Points -> Payload]
  BY <1>1, <1>2 DEF IInv, TypeOK, SnapshotsExist
<1>4. /\ Merged(q) \in Payload
      /\ \A k \in Keys : snapshots[job.snapshot][q][k] # None
                           => Merged(q)[k] = snapshots[job.snapshot][q][k]
  BY <1>3 DEF Merged, Payload
<1>5. SetUpdate(q, Merged(q)) \in Updates /\ queue' \in Seq(Updates)
  BY <1>1, <1>3, <1>4, UpdateTypes, SendKeepsType DEF IInv
<1>6. /\ job'.pc = "restore" /\ job'.seen = job.seen /\ job'.cut = job.cut
      /\ job'.snapshot = job.snapshot /\ job'.todo = job.todo \ {q} /\ job'.scan = job.scan
      /\ job' \in [pc : Pcs, seen : Rows, scan : [Points -> Payload] \cup {<<>>}, snapshot : Nat,
                   todo : SUBSET Points, cut : BOOLEAN]
  BY <1>1, <1>2 DEF IInv, TypeOK
<1>7. TypeOK'
  BY <1>2, <1>3, <1>5, <1>6 DEF IInv, TypeOK
<1>8. SnapshotsExist' /\ DeletesAreCut'
  BY <1>2, <1>6 DEF IInv, SnapshotsExist, DeletesAreCut
<1>9. restored = 0
  BY <1>2 DEF IInv, RestoredIsDue
<1>10. ASSUME NEW p \in Points \ job'.todo, NEW k \in Keys, NEW v,
              v = snapshots[job.snapshot][p][k], v # None, p # q => Due(queue, p, k, v)
       PROVE  Due(queue, p, k, v)'
  <2>1. CASE p = q
    <3>1. Names(SetUpdate(q, Merged(q)), p, k) /\ SetUpdate(q, Merged(q)).payload[k] = v
      BY <1>3, <1>4, <1>10, <2>1, SetUpdateNames
    <3> QED BY <1>1, <1>2, <1>3, <1>5, <2>1, <3>1, SendMakesDue DEF IInv
  <2>2. CASE p # q
    <3>1. ~Names(SetUpdate(q, Merged(q)), p, k) /\ Due(queue, p, k, v)
      BY <1>3, <1>4, <1>10, <2>2, SetUpdateNames
    <3> QED BY <1>1, <1>2, <1>5, <3>1, SendKeepsDue DEF IInv
  <2> QED BY <2>1, <2>2
<1>11. RestoredIsDue'
  <2> SUFFICES ASSUME NEW p \in Points \ job'.todo, NEW k \in Own(snapshots[job.snapshot][p])
               PROVE  Due(queue, p, k, snapshots[job.snapshot][p][k])'
    BY <1>2, <1>6, <1>9 DEF RestoredIsDue, Own
  <2>1. PICK v : v = snapshots[job.snapshot][p][k]
    OBVIOUS
  <2>2. v # None /\ k \in Keys
    BY <2>1 DEF Own
  <2>3. p # q => Due(queue, p, k, v)
    BY <1>2, <1>6, <2>1, <2>2 DEF IInv, RestoredIsDue, Own
  <2>4. Due(queue, p, k, v)'
    BY <1>10, <2>1, <2>2, <2>3
  <2> QED BY <1>2, <1>6, <2>1, <2>4
<1>12. OwnIsDue'
  <2> SUFFICES ASSUME Intact', NEW p \in Points, NEW k \in Keys, original[p][k] = "own"
               PROVE  /\ \A i \in 1..Len(snapshots) : snapshots[i][p][k] = "own"
                      /\ p \notin job'.todo => Due(queue, p, k, "own")'
    BY <1>2, <1>6 DEF OwnIsDue
  <2>1. Intact
    BY <1>2, <1>6 DEF Intact
  <2>2. /\ \A i \in 1..Len(snapshots) : snapshots[i][p][k] = "own"
        /\ p \notin job.todo => Due(queue, p, k, "own")
    BY <1>2, <2>1 DEF IInv, OwnIsDue
  <2>3. snapshots[job.snapshot][p][k] = "own" /\ snapshots'[job'.snapshot][p][k] = "own"
    BY <1>2, <1>3, <1>6, <2>2
  <2>4. ASSUME p \notin job'.todo PROVE Due(queue, p, k, "own")'
    BY <1>6, <1>10, <2>2, <2>3, <2>4, NoneAssumption
  <2> QED BY <2>2, <2>4
<1> QED BY <1>7, <1>8, <1>11, <1>12 DEF IInv

LEMMA RecordRolledBackKeeps ==
    ASSUME IInv, RecordRolledBack
    PROVE  IInv'
<1>1. /\ job' = NoJob /\ row' = [status |-> "rolled_back", snapshot |-> job.snapshot]
      /\ UNCHANGED <<points, queue, copies, snapshots, original>>
  BY DEF RecordRolledBack, qdrant, files
<1>2. \/ /\ job.pc = "restore" /\ job.todo = {} /\ cut' = job.cut /\ restored' = job.snapshot
      \/ job.pc = "record" /\ UNCHANGED <<cut, restored>>
  BY DEF RecordRolledBack, At
<1>3. job'.pc = "idle" /\ job'.seen = NoRow /\ job'.snapshot = 0
  BY <1>1 DEF NoJob
<1>4. /\ restored' \in Nat /\ restored' <= Len(snapshots)
      /\ job.snapshot \in Nat /\ job.snapshot <= Len(snapshots)
  BY <1>2 DEF IInv, TypeOK, SnapshotsExist
<1>5. cut' \in BOOLEAN
  BY <1>2 DEF IInv, TypeOK
<1>6. TypeOK'
  <2>1. job' \in [pc : Pcs, seen : Rows, scan : [Points -> Payload] \cup {<<>>}, snapshot : Nat,
                  todo : SUBSET Points, cut : BOOLEAN]
    BY <1>1 DEF NoJob, NoRow, Rows, Pcs
  <2> QED BY <1>1, <1>3, <1>4, <1>5, <2>1 DEF IInv, TypeOK, Rows
<1>7. SnapshotsExist'
  BY <1>1, <1>3, <1>4 DEF IInv, SnapshotsExist, NoRow
<1>8. DeletesAreCut'
  BY <1>3 DEF DeletesAreCut
<1>9. \A p \in Points, k \in Keys : \A v : Due(queue, p, k, v)' <=> Due(queue, p, k, v)
  BY <1>1, UnchangedKeepsDue DEF qdrant
<1>10. RestoredIsDue'
  <2>1. CASE job.pc = "record"
    <3>1. restored' = 0
      BY <1>2, <2>1 DEF IInv, RestoredIsDue
    <3> QED BY <1>3, <3>1 DEF RestoredIsDue
  <2>2. CASE job.pc = "restore"
    <3>1. \A p \in Points : \A k \in Own(snapshots[job.snapshot][p]) :
             Due(queue, p, k, snapshots[job.snapshot][p][k])
      BY <1>2, <2>2 DEF IInv, RestoredIsDue
    <3>2. restored' = job.snapshot
      BY <1>2, <2>2
    <3>3. \A p \in Points : \A k \in Own(snapshots'[restored'][p]) :
             Due(queue, p, k, snapshots[restored][p][k])'
      BY <1>1, <1>9, <3>1, <3>2 DEF Own
    <3> QED BY <1>3, <3>3 DEF RestoredIsDue, Own
  <2> QED BY <1>2, <2>1, <2>2
<1>11. OwnIsDue'
  BY <1>1, <1>2, <1>3, <1>9 DEF IInv, OwnIsDue, Intact, DeletesAreCut
<1> QED BY <1>6, <1>7, <1>8, <1>10, <1>11 DEF IInv

LEMMA FailKeeps ==
    ASSUME IInv, Fail
    PROVE  IInv'
<1>1. /\ job.pc # "idle" /\ job' = NoJob
      /\ UNCHANGED <<points, queue, row, copies, snapshots, original, restored, cut>>
  BY DEF Fail, At, qdrant, files, history
<1>2. job'.pc = "idle" /\ job'.seen = NoRow /\ job'.snapshot = 0
  BY <1>1 DEF NoJob
<1>3. TypeOK'
  BY <1>1 DEF IInv, TypeOK, NoJob, NoRow, Rows, Pcs
<1>4. SnapshotsExist'
  BY <1>1, <1>2 DEF IInv, TypeOK, SnapshotsExist, NoRow
<1>5. restored = 0
  BY <1>1 DEF IInv, RestoredIsDue
<1>6. DeletesAreCut' /\ RestoredIsDue'
  BY <1>1, <1>2, <1>5 DEF DeletesAreCut, RestoredIsDue
<1>7. \A p \in Points, k \in Keys : Due(queue, p, k, "own")' <=> Due(queue, p, k, "own")
  BY <1>1, UnchangedKeepsDue DEF qdrant
<1>8. OwnIsDue'
  BY <1>1, <1>2, <1>7 DEF IInv, OwnIsDue, Intact, DeletesAreCut
<1> QED BY <1>3, <1>4, <1>6, <1>8 DEF IInv

-----------------------------------------------------------------------------
LEMMA NextKeeps == IInv /\ [Next]_vars => IInv'
<1> SUFFICES ASSUME IInv, [Next]_vars PROVE IInv'
  OBVIOUS
<1>1. CASE UNCHANGED vars
  <2>1. UNCHANGED <<points, queue, row, copies, snapshots, job, original, restored, cut>>
    BY <1>1 DEF vars, qdrant, files, history
  <2>2. \A p, k, v : Due(queue, p, k, v)' <=> Due(queue, p, k, v)
    BY <2>1, UnchangedKeepsDue DEF qdrant
  <2>3. TypeOK' /\ SnapshotsExist' /\ DeletesAreCut'
    BY <2>1 DEF IInv, TypeOK, SnapshotsExist, DeletesAreCut
  <2>4. OwnIsDue' /\ RestoredIsDue'
    BY <2>1, <2>2 DEF IInv, OwnIsDue, RestoredIsDue, Intact, Own
  <2> QED BY <2>3, <2>4 DEF IInv
<1>2. CASE Settle
  BY <1>2, SettleKeeps
<1>3. CASE Start("apply") \/ Start("rollback")
  BY <1>3, StartKeeps
<1>4. CASE CopyDatabase \/ Snapshot \/ SetPatch \/ RecordApplied
  BY <1>4, CopyDatabaseKeeps, SnapshotKeeps, SetPatchKeeps, RecordAppliedKeeps
<1>5. CASE RestoreDatabase \/ DeleteKeys \/ ScrollAgain \/ SetRestored \/ RecordRolledBack
  BY <1>5, RestoreDatabaseKeeps, DeleteKeysKeeps, ScrollAgainKeeps, SetRestoredKeeps,
     RecordRolledBackKeeps
<1>6. CASE Fail
  BY <1>6, FailKeeps
<1> QED BY <1>1, <1>2, <1>3, <1>4, <1>5, <1>6 DEF Next

LEMMA SpecKeepsIInv == Spec => []IInv
BY InitIInv, NextKeeps, PTL DEF Spec

\* The variables keep their types, for all points, keys, payloads and bounds.
THEOREM TypeCorrect == Spec => []TypeOK
BY SpecKeepsIInv, PTL DEF IInv

\* A rollback finds the snapshot that the row names, even the row of a restored copy: every file
\* is written before the row that names it.
THEOREM SnapshotsAreThere == Spec => []SnapshotsExist
BY SpecKeepsIInv, PTL DEF IInv

\* What a point had of its own outlives every series of migrations and rollbacks, whatever fails
\* and whatever is sent twice, unless a rollback was cut short after its delete.
THEOREM NothingOwnIsLost == Spec => []OwnValuesKept
<1>1. IInv => OwnValuesKept
  <2> SUFFICES ASSUME IInv, queue = <<>>, ~cut, NEW p \in Points, NEW k \in Keys,
                      original[p][k] = "own"
               PROVE  points[p][k] = "own"
    BY DEF OwnValuesKept
  <2>1. Intact /\ job.pc \notin {"scroll", "restore"}
    BY DEF IInv, Intact, DeletesAreCut
  <2>2. Due(queue, p, k, "own")
    BY <2>1 DEF IInv, OwnIsDue
  <2> QED BY <2>2, NothingPending
<1> QED BY <1>1, SpecKeepsIInv, PTL

\* A rollback that ended has put back what its snapshot has, although it may have scrolled the
\* points before Qdrant deleted their keys.
THEOREM RollbacksRestore == Spec => []RollbackRestores
<1>1. IInv => RollbackRestores
  BY NothingPending DEF IInv, RestoredIsDue, RollbackRestores
<1> QED BY <1>1, SpecKeepsIInv, PTL

=============================================================================
