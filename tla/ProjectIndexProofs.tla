------------------------- MODULE ProjectIndexProofs -------------------------
(***************************************************************************)
(* Theorems about ProjectIndex, for any sets of projects, files, contents, *)
(* blocks and any bounds: first for any number of processes, then, from    *)
(* StatusInv on, for one process that uses the database, however often it  *)
(* fails.  With two, the statements of their handlers interleave.          *)
(***************************************************************************)
EXTENDS ProjectIndex, TLAPS

(***************************************************************************)
(* Type correctness.                                                       *)
(***************************************************************************)

LEMMA FillType ==
    ASSUME NEW old \in [Blocks -> Contents \cup {None}], NEW c \in Sums
    PROVE  Insert(old, c) \in [Blocks -> Contents \cup {None}]
BY UnreadAssumption DEF Insert, Cut, Sums

LEMMA NoWorkType == NoWork \in Work /\ NoPaths \in Snapshots
BY DEF NoWork, Work, Pcs, NoPaths, Snapshots

LEMMA InitType == Init => TypeOK
<1> SUFFICES ASSUME Init PROVE TypeOK
  OBVIOUS
<1>2. NoBlocks \in [Blocks -> Contents \cup {None}]
  BY DEF NoBlocks
<1>3. NoRow \in Row
  BY DEF NoRow, Row
<1>5. <<>> \in Seq(Job)
  OBVIOUS
<1> QED
  BY <1>2, <1>3, <1>5, NoWorkType, BoundsAssumption DEF Init, TypeOK, Lifecycles

LEMMA StartReindexType ==
    ASSUME TypeOK, NEW w \in Procs, NEW p \in Projects, NEW snap \in Snapshots,
           NEW full \in BOOLEAN, NEW late \in SUBSET Files,
           StartReindex(w, p, snap, full, late)
    PROVE  /\ work' \in [Procs -> Work]
           /\ runs' \subseteq Run /\ nextRun' \in Nat
           /\ UNCHANGED <<lifecycle, named, rooted, watch, files, blocks, edges>>
<1>1. Changed(p, snap) \subseteq Files /\ Dropped(p, snap) \subseteq Files
  BY DEF Changed, Dropped, Paths
<1>2. [id |-> nextRun, proj |-> p, state |-> "indexing"] \in Run
  BY DEF TypeOK, Run
<1>3. [pc |-> "next", op |-> "reindex", proj |-> p, run |-> nextRun, snap |-> snap,
       full |-> full, todo |-> Changed(p, snap),
       gone |-> IF full THEN Dropped(p, snap) ELSE {},
       late |-> late, file |-> None] \in Work
  BY <1>1 DEF Work, TypeOK, Pcs, ReindexPcs
<1> QED
  BY <1>2, <1>3 DEF StartReindex, AddRun, TypeOK

LEMMA TombedType == \A row \in Row : Tombed(row) \in Row
BY DEF Tombed, Row

\* The helpers an action of a run goes through.
LEMMA StaleType ==
    ASSUME TypeOK, NEW p \in Projects, NEW f \in Files
    PROVE  Stale(p, f) \in [Projects -> [Files -> [Blocks -> Contents \cup {None}]]]
BY DEF TypeOK, Stale, NoBlocks

LEMMA RelateType ==
    ASSUME TypeOK, NEW p \in Projects, NEW f \in Files, NEW c \in Sums
    PROVE  Relate(p, f, c) \in [Projects -> [Files -> Contents \cup {None}]]
BY DEF TypeOK, Relate, Sums

LEMMA SetRunType ==
    ASSUME TypeOK, NEW id, NEW state \in {"indexed", "error"}
    PROVE  SetRun(id, state) \subseteq Run
<1>1. ASSUME NEW r \in Run PROVE [r EXCEPT !.state = state] \in Run
  BY DEF Run
<1> QED
  BY <1>1 DEF TypeOK, SetRun

LEMMA ReactivatedType ==
    ASSUME TypeOK, NEW p \in Projects
    PROVE  Reactivated(p) \in Lifecycles
BY DEF TypeOK, Reactivated, Lifecycles

\* What the pc of a worker says of its other fields.
BusyOK ==
    \A w \in Procs :
        /\ work[w].pc # "idle" => work[w].proj \in Projects
        /\ work[w].pc \in {"stale", "insert"} => work[w].file \in work[w].todo
        /\ work[w].pc \in {"tombed", "lateTombed"} => work[w].file \in work[w].gone
        /\ work[w].todo \subseteq Paths(work[w].snap)
        /\ work[w].pc \in {"unalias", "settle"} => work[w].op \in {"detached", "disabled"}
        /\ work[w].pc \in RemovalPcs => work[w].op \in {"deindex", "detached", "disabled"}

Typed == TypeOK /\ BusyOK

LEMMA ReindexStepType ==
    ASSUME Typed, NEW w \in Procs, ReindexStep(w), UNCHANGED <<tree, jobs, counters>>
    PROVE  Typed'
<1> USE DEF Typed, TypeOK, BusyOK, counters
<1>0. work[w] \in Work
  OBVIOUS
<1>1. ASSUME NEW f \in Files, UpsertFile(w, f) PROVE Typed'
  <2>1. /\ f \in Paths(work[w].snap) /\ work[w].snap[f] \in Sums \cup {None}
        /\ work[w].proj \in Projects
    BY <1>0, <1>1 DEF UpsertFile, Work, Snapshots
  <2>2. files' \in [Projects -> [Files -> Row]]
    BY <1>1, <2>1 DEF UpsertFile, Row
  <2>3. work' \in [Procs -> Work]
    <3>1. [work[w] EXCEPT !.pc = "stale", !.file = f] \in Work
      <4> HIDE DEF Typed, TypeOK, BusyOK
      <4> QED BY <1>0 DEF Work, Pcs, ReindexPcs
    <3>2. work' = [work EXCEPT ![w] = [work[w] EXCEPT !.pc = "stale", !.file = f]]
      BY <1>1 DEF UpsertFile
    <3>3. work \in [Procs -> Work]
      OBVIOUS
    <3> QED BY <3>1, <3>2, <3>3
  <2>4. TypeOK'
    BY <1>1, <2>2, <2>3 DEF UpsertFile
  <2>5. BusyOK'
    BY <1>0, <1>1, <2>1 DEF UpsertFile, RemovalPcs
  <2> QED
    BY <2>4, <2>5
<1>2. ASSUME NEW f \in Files, TombFile(w, f) PROVE Typed'
  <2>1. work[w].proj \in Projects /\ work[w].pc \in {"next", "late"}
    BY <1>0, <1>2 DEF TombFile
  <2>2. files' \in [Projects -> [Files -> Row]]
    BY <1>2, <2>1, TombedType DEF TombFile
  <2>3. work' \in [Procs -> Work]
    BY ZenonT(60), <1>0, <1>2 DEF TombFile, Work, Pcs, ReindexPcs, LatePcs
  <2>4. TypeOK'
    BY <1>2, <2>2, <2>3 DEF TombFile
  <2>5. BusyOK'
    BY <1>0, <1>2, <2>1 DEF TombFile, RemovalPcs
  <2> QED
    BY <2>4, <2>5
<1>3. CASE StaleBlocks(w)
  BY ZenonT(60), <1>0, <1>3, StaleType DEF StaleBlocks, Work, Pcs, ReindexPcs, RemovalPcs
<1>4. CASE InsertBlocks(w)
  <2>1. /\ work[w].file \in Files /\ work[w].proj \in Projects
        /\ work[w].snap[work[w].file] \in Sums
    BY <1>0, <1>4 DEF InsertBlocks, Work, Snapshots, Paths
  <2>2. blocks' \in [Projects -> [Files -> [Blocks -> Contents \cup {None}]]]
    BY ZenonT(60), <1>4, <2>1, FillType DEF InsertBlocks
  <2>3. edges' \in [Projects -> [Files -> Contents \cup {None}]]
    BY <1>4, <2>1, RelateType DEF InsertBlocks
  <2>4. work' \in [Procs -> Work]
    <3>1. work'[w] \in Work
      BY <1>0, <1>4 DEF InsertBlocks, Work, Pcs, ReindexPcs
    <3> QED
      BY <3>1, <1>4 DEF InsertBlocks
  <2>5. TypeOK'
    BY <1>4, <2>2, <2>3, <2>4 DEF InsertBlocks
  <2>6. BusyOK'
    <3>1. /\ \A v \in Procs : v # w => work'[v] = work[v]
          /\ work'[w].pc = "next" /\ work'[w].proj = work[w].proj
          /\ work'[w].snap = work[w].snap /\ work'[w].todo \subseteq work[w].todo
      BY <1>0, <1>4 DEF InsertBlocks, Work
    <3>2. /\ work[w].proj \in Projects
          /\ work[w].todo \subseteq Paths(work[w].snap)
      BY <1>4 DEF InsertBlocks
    <3>3. work'[w].todo \subseteq Paths(work'[w].snap)
      BY <3>1, <3>2
    <3>4. ASSUME NEW v \in Procs
          PROVE  /\ work'[v].pc # "idle" => work'[v].proj \in Projects
                 /\ work'[v].pc \in {"stale", "insert"} => work'[v].file \in work'[v].todo
                 /\ work'[v].pc \in {"tombed", "lateTombed"} => work'[v].file \in work'[v].gone
                 /\ work'[v].todo \subseteq Paths(work'[v].snap)
                 /\ work'[v].pc \in {"unalias", "settle"} => work'[v].op \in {"detached", "disabled"}
                 /\ work'[v].pc \in RemovalPcs => work'[v].op \in {"deindex", "detached", "disabled"}
      <4>1. CASE v = w
        BY <3>1, <3>2, <3>3, <4>1 DEF RemovalPcs
      <4>2. CASE v # w
        BY <3>1, <4>2
      <4> QED
        BY <4>1, <4>2
    <3> QED
      BY <3>4 DEF Paths
  <2> QED
    BY <2>5, <2>6
<1>5. CASE TombBlocks(w)
  <2>1. work[w].file \in Files /\ work[w].proj \in Projects
    BY <1>0, <1>5 DEF TombBlocks, Work
  <2>2. work' \in [Procs -> Work]
    <3>1. work'[w] \in Work
      BY <1>0, <1>5 DEF TombBlocks, Work, Pcs, ReindexPcs, LatePcs
    <3> QED
      BY <3>1, <1>5 DEF TombBlocks
  <2>3. TypeOK'
    BY <1>5, <2>1, <2>2, StaleType DEF TombBlocks
  <2>4. BusyOK'
    BY SMTT(30), <1>0, <1>5 DEF TombBlocks, RemovalPcs
  <2> QED
    BY <2>3, <2>4
<1>6. CASE WriteWatch(w)
  BY ZenonT(60), <1>0, <1>6 DEF WriteWatch, Work, Pcs, ReindexPcs, RemovalPcs
<1>7. CASE Activate(w)
  BY ZenonT(60), <1>0, <1>7, ReactivatedType DEF Activate, Work, Pcs, ReindexPcs, RemovalPcs
<1>8. CASE FinishRun(w)
  BY ZenonT(60), <1>0, <1>8, SetRunType DEF FinishRun, Work, Pcs, ReindexPcs, RemovalPcs
<1>9. CASE Reactivate(w)
  BY ZenonT(60), <1>0, <1>9, ReactivatedType DEF Reactivate, Work, Pcs, LatePcs, RemovalPcs
<1>10. CASE EndReindex(w)
  BY <1>0, <1>10, NoWorkType DEF EndReindex, db, NoWork, Paths, NoPaths, RemovalPcs
<1> QED
  BY <1>1, <1>2, <1>3, <1>4, <1>5, <1>6, <1>7, <1>8, <1>9, <1>10 DEF ReindexStep

LEMMA RemovalStepType ==
    ASSUME Typed, NEW w \in Procs, RemovalStep(w), UNCHANGED <<tree, jobs, counters>>
    PROVE  Typed'
<1> USE DEF Typed, TypeOK, BusyOK, counters
<1>0. work[w] \in Work /\ NoWork \in Work
  BY NoWorkType
<1>1. CASE DeindexFiles(w)
  <2>1. work[w].proj \in Projects
    BY <1>0, <1>1 DEF DeindexFiles
  <2>2. files' \in [Projects -> [Files -> Row]]
    BY <1>1, <2>1, TombedType DEF DeindexFiles
  <2> QED
    <3>1. work' \in [Procs -> Work]
      BY <1>0, <1>1 DEF DeindexFiles, Work, Pcs, RemovalPcs
    <3>2. TypeOK'
      BY <1>1, <2>2, <3>1 DEF DeindexFiles
    <3>3. BusyOK'
      BY <1>0, <1>1 DEF DeindexFiles, RemovalPcs
    <3> QED
      BY <3>2, <3>3
<1>2. CASE DeindexBlocks(w)
  <2>1. work[w].proj \in Projects /\ NoBlocks \in [Blocks -> Contents \cup {None}]
    BY <1>0, <1>2 DEF DeindexBlocks, NoBlocks
  <2>2. blocks' \in [Projects -> [Files -> [Blocks -> Contents \cup {None}]]]
    BY <1>2, <2>1 DEF DeindexBlocks
  <2> QED
    <3>1. work' \in [Procs -> Work]
      BY <1>0, <1>2 DEF DeindexBlocks, Work, Pcs, RemovalPcs
    <3>2. TypeOK'
      BY <1>2, <2>2, <3>1 DEF DeindexBlocks
    <3>3. BusyOK'
      BY <1>0, <1>2 DEF DeindexBlocks, RemovalPcs
    <3> QED
      BY <3>2, <3>3
<1>3. CASE DeindexProject(w)
  <2>1. work[w].proj \in Projects
    BY <1>0, <1>3 DEF DeindexProject
  <2>2. lifecycle' \in [Projects -> Lifecycles]
    BY <1>3, <2>1 DEF DeindexProject, SetLifecycle, Lifecycles
  <2>3. runs' \subseteq Run /\ nextRun' \in Nat
    BY <1>3, <2>1 DEF DeindexProject, AddRun, Run
  <2>4. work' \in [Procs -> Work]
    BY <1>0, <1>3 DEF DeindexProject, Work, Pcs, RemovalPcs
  <2>5. TypeOK'
    BY <1>3, <2>2, <2>3, <2>4 DEF DeindexProject
  <2>6. BusyOK'
    BY <1>0, <1>3 DEF DeindexProject, NoWork, Paths, NoPaths, RemovalPcs
  <2> QED
    BY <2>5, <2>6
<1>4. CASE Unalias(w)
  <2>1. work[w].op \in {"detached", "disabled"} /\ work[w].proj \in Projects
    BY <1>0, <1>4 DEF Unalias
  <2>2. work' \in [Procs -> Work]
    BY <1>0, <1>4 DEF Unalias, Work, Pcs, RemovalPcs
  <2>3. TypeOK'
    BY <1>4, <2>1, <2>2 DEF Unalias
  <2>4. BusyOK'
    BY <1>0, <1>4, <2>1 DEF Unalias, RemovalPcs
  <2> QED
    BY <2>3, <2>4
<1>5. CASE Settle(w)
  <2>1. work[w].proj \in Projects /\ work[w].op \in Lifecycles
    BY <1>0, <1>5 DEF Settle, Lifecycles
  <2>2. lifecycle' \in [Projects -> Lifecycles] /\ rooted' \in [Projects -> BOOLEAN]
    BY <1>5, <2>1 DEF Settle, SetLifecycle
  <2>3. TypeOK'
    BY <1>0, <1>5, <2>2 DEF Settle
  <2>4. BusyOK'
    BY <1>0, <1>5 DEF Settle, NoWork, Paths, NoPaths, RemovalPcs
  <2> QED
    BY <2>3, <2>4
<1>6. CASE Purge(w)
  <2>1. work[w].proj \in Projects /\ NoRow \in Row
        /\ NoBlocks \in [Blocks -> Contents \cup {None}]
    BY <1>0, <1>6 DEF Purge, NoRow, Row, NoBlocks
  <2>2. /\ lifecycle' \in [Projects -> Lifecycles] /\ named' \in [Projects -> BOOLEAN]
        /\ rooted' \in [Projects -> BOOLEAN] /\ watch' \in [Projects -> Snapshots]
    BY <1>6, <2>1, NoWorkType DEF Purge, Lifecycles
  <2>3. /\ files' \in [Projects -> [Files -> Row]]
        /\ blocks' \in [Projects -> [Files -> [Blocks -> Contents \cup {None}]]]
        /\ runs' \subseteq Run
    BY <1>6, <2>1 DEF Purge
  <2>4. TypeOK'
    BY <1>0, <1>6, <2>2, <2>3 DEF Purge
  <2>5. BusyOK'
    BY <1>0, <1>6 DEF Purge, NoWork, Paths, NoPaths, RemovalPcs
  <2> QED
    BY <2>4, <2>5
<1> QED
  BY <1>1, <1>2, <1>3, <1>4, <1>5, <1>6 DEF RemovalStep

\* A handler that starts leaves every other worker alone and takes an idle one.
LEMMA StartReindexTyped ==
    ASSUME Typed, NEW w \in Procs, NEW p \in Projects, NEW snap \in Snapshots,
           NEW full \in BOOLEAN, NEW late \in SUBSET Files,
           StartReindex(w, p, snap, full, late), jobs' \in [Procs -> Seq(Job)],
           UNCHANGED <<tree, edits, faults>>, requests' \in 0..MaxRequests
    PROVE  Typed'
<1>1. /\ work' \in [Procs -> Work] /\ runs' \subseteq Run /\ nextRun' \in Nat
      /\ UNCHANGED <<lifecycle, named, rooted, watch, files, blocks, edges>>
  BY StartReindexType DEF Typed
<1>2. TypeOK'
  BY <1>1 DEF Typed, TypeOK
<1>3. BusyOK'
  BY DEF Typed, TypeOK, BusyOK, StartReindex, Changed, Paths, RemovalPcs
<1> QED
  BY <1>2, <1>3 DEF Typed

LEMMA ReadTreeType ==
    ASSUME TypeOK, NEW p \in Projects, NEW S \in SUBSET Files
    PROVE  ReadTree(p, S) \in Snapshots /\ tree[p] \in Snapshots
BY DEF TypeOK, ReadTree, Snapshots, Sums

LEMMA RequestType ==
    ASSUME Typed, NEW w \in Procs, Request(w)
    PROVE  Typed'
<1>1. /\ requests' \in 0..MaxRequests /\ UNCHANGED <<tree, edits, faults>>
      /\ work[w].pc = "idle"
  BY BoundsAssumption DEF Request, Typed, TypeOK, Idle
<1>2. PICK p \in Projects :
         \/ \E root \in BOOLEAN : Register(w, p, root)
         \/ \E S \in SUBSET Files, full \in BOOLEAN :
              TriggerIndex(w, p, S, full) \/ ReindexDiff(w, p, S, full)
         \/ TrustedEvent(w, p)
         \/ \E S \in SUBSET Files, rev \in Unreads : CommitEvent(w, p, S, rev)
         \/ /\ \/ \E op \in {"deindex", "detached", "disabled"} : StartRemoval(w, p, op)
               \/ StartPurge(w, p)
            /\ UNCHANGED jobs
  BY DEF Request
<1>3. ASSUME NEW root \in BOOLEAN, Register(w, p, root) PROVE Typed'
  BY <1>1, <1>3 DEF Register, Typed, TypeOK, BusyOK, Lifecycles
<1>4. ASSUME NEW S \in SUBSET Files, NEW full \in BOOLEAN, TriggerIndex(w, p, S, full)
      PROVE  Typed'
  <2>1. [proj |-> p, snap |-> ReadTree(p, S), full |-> full] \in Job
    BY ReadTreeType DEF Typed, Job
  <2>2. jobs' \in [Procs -> Seq(Job)]
    BY <1>4, <2>1 DEF TriggerIndex, Typed, TypeOK
  <2> QED
    BY <1>1, <1>4, <2>2 DEF TriggerIndex, Typed, TypeOK, BusyOK, db
<1>5. ASSUME NEW S \in SUBSET Files, NEW full \in BOOLEAN, ReindexDiff(w, p, S, full)
      PROVE  Typed'
  <2>1. ReadTree(p, S) \in Snapshots /\ {} \in SUBSET Files /\ jobs' \in [Procs -> Seq(Job)]
    BY <1>5, ReadTreeType DEF Typed, TypeOK, ReindexDiff
  <2>2. StartReindex(w, p, ReadTree(p, S), full, {})
    BY <1>5 DEF ReindexDiff
  <2> QED
    BY <1>1, <2>1, <2>2, StartReindexTyped
<1>6. ASSUME TrustedEvent(w, p) PROVE Typed'
  <2>1. tree[p] \in Snapshots /\ {} \in SUBSET Files /\ jobs' \in [Procs -> Seq(Job)]
        /\ TRUE \in BOOLEAN
    BY <1>6, ReadTreeType DEF Typed, TypeOK, TrustedEvent
  <2>2. StartReindex(w, p, tree[p], TRUE, {})
    BY <1>6 DEF TrustedEvent
  <2> QED
    BY <1>1, <2>1, <2>2, StartReindexTyped
<1>7. ASSUME NEW S \in SUBSET Files, NEW rev \in Unreads, CommitEvent(w, p, S, rev) PROVE Typed'
  <2> DEFINE snap == [f \in Files |-> IF f \notin S THEN None
                                      ELSE IF tree[p][f] = None THEN rev ELSE tree[p][f]]
             late == S \ Paths(tree[p])
  <2>1. snap \in Snapshots /\ late \in SUBSET Files /\ jobs' \in [Procs -> Seq(Job)]
    BY <1>7 DEF Typed, TypeOK, CommitEvent, Snapshots, Sums
  <2>2. StartReindex(w, p, snap, FALSE, late)
    BY <1>7 DEF CommitEvent
  <2> HIDE DEF snap, late
  <2> QED
    BY <1>1, <2>1, <2>2, StartReindexTyped
<1>8. ASSUME NEW op \in {"deindex", "detached", "disabled"}, StartRemoval(w, p, op), UNCHANGED jobs
      PROVE  Typed'
  <2>1. work' \in [Procs -> Work]
    BY <1>8, NoWorkType DEF StartRemoval, Typed, TypeOK, Work, Pcs, RemovalPcs, NoWork
  <2>2. TypeOK'
    BY <1>1, <1>8, <2>1 DEF StartRemoval, Typed, TypeOK, db
  <2>3. BusyOK'
    BY <1>8 DEF StartRemoval, Typed, TypeOK, BusyOK, NoWork, Paths, NoPaths, RemovalPcs
  <2> QED
    BY <2>2, <2>3 DEF Typed
<1>9. ASSUME StartPurge(w, p), UNCHANGED jobs PROVE Typed'
  <2>1. work' \in [Procs -> Work]
    BY <1>9, NoWorkType DEF StartPurge, Typed, TypeOK, Work, Pcs, NoWork
  <2>2. TypeOK'
    BY <1>1, <1>9, <2>1 DEF StartPurge, Typed, TypeOK, db
  <2>3. BusyOK'
    BY <1>9 DEF StartPurge, Typed, TypeOK, BusyOK, NoWork, Paths, NoPaths, RemovalPcs
  <2> QED
    BY <2>2, <2>3 DEF Typed
<1> QED
  BY <1>2, <1>3, <1>4, <1>5, <1>6, <1>7, <1>8, <1>9

LEMMA RunJobType ==
    ASSUME Typed, NEW w \in Procs, RunJob(w)
    PROVE  Typed'
<1> DEFINE j == Head(jobs[w])
<1>1. jobs[w] \in Seq(Job) /\ jobs[w] # <<>>
  BY DEF RunJob, Typed, TypeOK
<1>2. j \in Job /\ Tail(jobs[w]) \in Seq(Job)
  BY <1>1
<1>3. jobs' \in [Procs -> Seq(Job)]
  BY <1>2 DEF RunJob, Typed, TypeOK
<1>4. /\ j.proj \in Projects /\ JobPaths(j) \in Snapshots /\ j.full \in BOOLEAN
      /\ {} \in SUBSET Files
  BY <1>2, NoWorkType, ReadTreeType DEF Job, JobPaths, Typed
<1>5. UNCHANGED <<tree, edits, faults>> /\ requests' \in 0..MaxRequests
  BY DEF RunJob, counters, Typed, TypeOK
<1>6. CASE StartReindex(w, j.proj, JobPaths(j), j.full, {})
  <2> HIDE DEF j
  <2> QED
    BY <1>3, <1>4, <1>5, <1>6, StartReindexTyped
<1>7. CASE UNCHANGED <<db, work>>
  BY <1>3, <1>5, <1>7 DEF Typed, TypeOK, BusyOK, db
<1> QED
  BY <1>6, <1>7 DEF RunJob

LEMMA FaultType ==
    ASSUME Typed, NEW w \in Procs, Throw(w) \/ Crash(w)
    PROVE  Typed'
<1>1. /\ UNCHANGED <<lifecycle, named, rooted, watch, files, blocks, edges, nextRun,
                     tree, requests, edits>>
      /\ faults' \in 0..MaxFaults
  BY BoundsAssumption DEF Throw, Crash, Typed, TypeOK, db
<1>0. work' = [work EXCEPT ![w] = NoWork] /\ work \in [Procs -> Work]
  BY DEF Throw, Crash, Typed, TypeOK
<1>2. work' \in [Procs -> Work] /\ jobs' \in [Procs -> Seq(Job)]
  <2>1. work' \in [Procs -> Work]
    BY <1>0, NoWorkType
  <2>2. <<>> \in Seq(Job) /\ jobs \in [Procs -> Seq(Job)]
    BY DEF Typed, TypeOK
  <2>3. jobs' = jobs \/ jobs' = [jobs EXCEPT ![w] = <<>>]
    BY DEF Throw, Crash
  <2> QED
    BY <2>1, <2>2, <2>3
<1>3. runs' \subseteq Run
  BY SetRunType DEF Throw, Crash, Typed, TypeOK, db
<1>4. BusyOK'
  BY <1>0 DEF Typed, BusyOK, NoWork, Paths, NoPaths, RemovalPcs
<1> QED
  BY <1>1, <1>2, <1>3, <1>4 DEF Typed, TypeOK

LEMMA EditType ==
    ASSUME Typed, EditSome
    PROVE  Typed'
BY BoundsAssumption DEF EditSome, Edit, Typed, TypeOK, BusyOK, db

LEMMA TypedStep == Typed /\ [Next]_vars => Typed'
<1> SUFFICES ASSUME Typed, [Next]_vars PROVE Typed'
  OBVIOUS
<1>1. ASSUME NEW w \in Procs, Step(w) PROVE Typed'
  BY <1>1, ReindexStepType, RemovalStepType DEF Step
<1>2. CASE UNCHANGED vars
  BY <1>2 DEF vars, db, counters, Typed, TypeOK, BusyOK
<1> QED
  BY <1>1, <1>2, RequestType, RunJobType, FaultType, EditType DEF Next

LEMMA TypedInit == Init => Typed
<1> SUFFICES ASSUME Init PROVE Typed
  OBVIOUS
<1>1. BusyOK
  BY DEF Init, BusyOK, NoWork, Paths, NoPaths, RemovalPcs
<1> QED
  BY <1>1, InitType DEF Typed

(***************************************************************************)
(* Every reachable state has the types of TypeOK, and a busy worker works  *)
(* on a project, on a path it has still to do, in an operation its pc      *)
(* belongs to.                                                             *)
(***************************************************************************)
THEOREM TypeCorrect == Spec => []Typed
BY TypedInit, TypedStep, PTL DEF Spec

\* In particular every variable keeps its type, whatever fails and however the processes interleave.
THEOREM TypesHold == Spec => []TypeOK
<1>1. Typed => TypeOK
  BY DEF Typed
<1> QED
  BY <1>1, TypeCorrect, PTL

-----------------------------------------------------------------------------
(***************************************************************************)
(* No run revives a project that was detached, unregistered or purged,     *)
(* whatever the number of processes and however they interleave and fail:  *)
(* the status is read and written by one UPDATE, never read first.         *)
(***************************************************************************)
LEMMA ActiveStep ==
    ASSUME Typed, [Next]_vars, NEW p \in Projects, lifecycle'[p] = "active"
    PROVE  lifecycle[p] \in {"active", "absent", "deindexed"}
<1>0. lifecycle \in [Projects -> Lifecycles] /\ work \in [Procs -> Work]
  BY DEF Typed, TypeOK
<1>1. ASSUME NEW w \in Procs, ReindexStep(w)
      PROVE  lifecycle[p] \in {"active", "absent", "deindexed"}
  <2>1. lifecycle' = lifecycle
        \/ lifecycle' = [lifecycle EXCEPT ![work[w].proj] = Reactivated(work[w].proj)]
    BY <1>1 DEF ReindexStep, UpsertFile, TombFile, StaleBlocks, InsertBlocks, TombBlocks,
                WriteWatch, Activate, FinishRun, Reactivate, EndReindex, db
  <2> QED
    BY <1>0, <2>1 DEF Reactivated
<1>2. ASSUME NEW w \in Procs, RemovalStep(w)
      PROVE  lifecycle[p] = "active"
  <2>1. \/ lifecycle' = lifecycle
        \/ SetLifecycle(work[w].proj, "deindexed")
        \/ work[w].pc = "settle" /\ SetLifecycle(work[w].proj, work[w].op)
        \/ lifecycle' = [lifecycle EXCEPT ![work[w].proj] = "absent"]
    BY <1>2 DEF RemovalStep, DeindexFiles, DeindexBlocks, DeindexProject, Unalias, Settle, Purge
  <2>2. work[w].pc = "settle" => work[w].op \in {"detached", "disabled"}
    BY DEF Typed, BusyOK
  <2> QED
    BY <1>0, <2>1, <2>2 DEF SetLifecycle
<1>3. ASSUME NEW w \in Procs, Request(w)
      PROVE  lifecycle[p] \in {"active", "absent", "deindexed"}
  <2>1. \/ lifecycle' = lifecycle
        \/ \E q \in Projects :
             lifecycle' = [lifecycle EXCEPT ![q] = IF @ = "absent" THEN "active" ELSE @]
    BY ZenonT(60), <1>3 DEF Request, Register, TriggerIndex, ReindexDiff, TrustedEvent, CommitEvent,
                StartReindex, StartRemoval, StartPurge, db
  <2> QED
    BY <1>0, <2>1
<1>4. ASSUME NEW w \in Procs, RunJob(w) \/ Throw(w) \/ Crash(w) PROVE lifecycle' = lifecycle
  BY <1>4 DEF RunJob, Throw, Crash, StartReindex, db
<1>5. CASE EditSome \/ UNCHANGED vars
  BY <1>5 DEF EditSome, Edit, vars, db
<1> QED
  BY <1>1, <1>2, <1>3, <1>4, <1>5 DEF Next, Step

\* Whatever processes interleave and fail, a project becomes active only when its row is created or from
\* deindexed: a run that overlaps a removal of the project does not undo it.
THEOREM RevivalOnlyFromDeindexed == Spec => ActiveOnlyFromDeindexed
<1>1. Typed /\ [Next]_vars
        => [\A p \in Projects : lifecycle'[p] = "active" =>
               lifecycle[p] \in {"active", "absent", "deindexed"}]_vars
  BY ActiveStep
<1> QED
  BY <1>1, TypeCorrect, PTL DEF Spec, ActiveOnlyFromDeindexed

-----------------------------------------------------------------------------
(***************************************************************************)
(* The lifecycle statuses a removal relies on between its statements.      *)
(***************************************************************************)
StatusInv(w) ==
    LET p == work[w].proj IN
    /\ work[w].pc \in {"deindexFiles", "deindexBlocks", "deindexProject"} => Registered(p)
    /\ work[w].pc \in {"unalias", "settle"} => lifecycle[p] = "deindexed"
    /\ work[w].pc = "purge" => lifecycle[p] = "disabled"

\* A live row of content c has the blocks of c.
Backed(p, f, c) == files[p][f] = [sum |-> c, active |-> TRUE] => blocks[p][f] = Fill(c)

(***************************************************************************)
(* What a run in progress has established: the paths still to do differ    *)
(* from the watch snapshot, the others are backed, so the snapshot it      *)
(* writes at the end is honest; and a path whose blocks it is about to     *)
(* write or drop has its row already.                                      *)
(***************************************************************************)
RunInv(w) ==
    LET p == work[w].proj
        snap == work[w].snap
        file == work[w].file IN
    /\ work[w].pc \in {"next", "stale", "insert", "tombed"} =>
         /\ \A f \in work[w].todo : watch[p][f] # snap[f]
         /\ \A f \in Paths(snap) \ work[w].todo : Backed(p, f, snap[f])
    /\ work[w].pc \in {"stale", "insert"} =>
         files[p][file] = [sum |-> snap[file], active |-> TRUE]
    /\ work[w].pc = "insert" => blocks[p][file] = NoBlocks
    /\ work[w].pc = "tombed" => work[w].todo = {}
    /\ work[w].pc \in {"tombed", "lateTombed"} => ~files[p][file].active
    /\ work[w].pc = "deindexBlocks" => \A f \in Files : ~files[p][f].active

HonestInv(w) == WatchHonest /\ RunInv(w)

-----------------------------------------------------------------------------
LEMMA StatusInit == ASSUME NEW w \in Procs, Init PROVE StatusInv(w) /\ Lifecycle!Init
BY DEF Init, StatusInv, NoWork, Lifecycle!Init

LEMMA KnownStatus ==
    ASSUME Typed, NEW p \in Projects, Registered(p)
    PROVE  lifecycle[p] \in Lifecycle!Known
BY DEF Typed, TypeOK, Registered, Lifecycles, Lifecycle!Known

LEMMA StatusStep ==
    ASSUME NEW w, Procs = {w}, Typed, StatusInv(w), [Next]_vars
    PROVE  StatusInv(w)' /\ [Lifecycle!Next]_lifecycle
<1>0. /\ w \in Procs /\ work \in [Procs -> Work] /\ lifecycle \in [Projects -> Lifecycles]
      /\ work[w].pc # "idle" => work[w].proj \in Projects
  BY DEF Typed, TypeOK, BusyOK
<1>1. CASE ReindexStep(w)
  <2>1. StatusInv(w)'
    <3>1. work'[w].pc \in ReindexPcs \cup LatePcs \cup {"idle"}
      <4>1. ASSUME NEW f \in Files, UpsertFile(w, f) \/ TombFile(w, f) PROVE <3>1
        BY <1>0, <4>1 DEF UpsertFile, TombFile, ReindexPcs, LatePcs, Work
      <4>2. CASE StaleBlocks(w) \/ InsertBlocks(w) \/ TombBlocks(w)
        BY <1>0, <4>2 DEF StaleBlocks, InsertBlocks, TombBlocks, ReindexPcs, LatePcs, Work
      <4>3. CASE WriteWatch(w) \/ Activate(w) \/ FinishRun(w) \/ Reactivate(w) \/ EndReindex(w)
        BY <1>0, <4>3 DEF WriteWatch, Activate, FinishRun, Reactivate, EndReindex, NoWork,
                          ReindexPcs, LatePcs, Work
      <4> QED
        BY <1>1, <4>1, <4>2, <4>3 DEF ReindexStep
    <3> QED
      BY <3>1 DEF StatusInv, ReindexPcs, LatePcs
  <2>2. \/ lifecycle' = lifecycle
        \/ /\ work[w].pc \in {"activate", "reactivate"}
           /\ lifecycle' = [lifecycle EXCEPT ![work[w].proj] = Reactivated(work[w].proj)]
    BY <1>1 DEF ReindexStep, UpsertFile, TombFile, StaleBlocks, InsertBlocks, TombBlocks,
                WriteWatch, Activate, FinishRun, Reactivate, EndReindex, db
  <2>3. CASE /\ lifecycle' = [lifecycle EXCEPT ![work[w].proj] = "active"]
             /\ lifecycle[work[w].proj] = "deindexed" /\ work[w].proj \in Projects
    BY <2>1, <2>3 DEF Lifecycle!Next, Lifecycle!Reindex, Lifecycle!Move
  <2> QED
    BY <1>0, <2>1, <2>2, <2>3 DEF Reactivated
<1>2. CASE RemovalStep(w)
  <2>1. CASE DeindexFiles(w) \/ DeindexBlocks(w) \/ Unalias(w)
    <3>1. CASE DeindexFiles(w)
      BY <1>0, <3>1 DEF DeindexFiles, StatusInv, Registered
    <3>2. CASE DeindexBlocks(w)
      BY <1>0, <3>2 DEF DeindexBlocks, StatusInv, Registered
    <3>3. CASE Unalias(w)
      BY <1>0, <3>3 DEF Unalias, StatusInv
    <3> QED
      BY <2>1, <3>1, <3>2, <3>3
  <2>2. CASE DeindexProject(w)
    <3>1. Registered(work[w].proj) /\ work[w].proj \in Projects
      BY <1>0, <2>2 DEF DeindexProject, StatusInv
    <3>2. lifecycle' = [lifecycle EXCEPT ![work[w].proj] = "deindexed"]
      BY <2>2, <3>1 DEF DeindexProject, SetLifecycle, Registered
    <3>3. Lifecycle!Next
      BY <3>1, <3>2, KnownStatus DEF Lifecycle!Next, Lifecycle!Deindex, Lifecycle!Move
    <3>4. StatusInv(w)'
      BY <1>0, <2>2, <3>1, <3>2 DEF DeindexProject, StatusInv, NoWork
    <3> QED
      BY <3>3, <3>4
  <2>3. CASE Settle(w)
    <3>1. /\ work[w].proj \in Projects /\ lifecycle[work[w].proj] = "deindexed"
          /\ work[w].op \in {"detached", "disabled"}
      BY <1>0, <2>3 DEF Settle, StatusInv, Typed, BusyOK
    <3>2. lifecycle' = [lifecycle EXCEPT ![work[w].proj] = work[w].op]
      BY <2>3, <3>1 DEF Settle, SetLifecycle
    <3>3. Lifecycle!Next
      BY <3>1, <3>2 DEF Lifecycle!Next, Lifecycle!Withdraw, Lifecycle!Move
    <3>4. StatusInv(w)'
      BY <1>0, <2>3 DEF Settle, StatusInv, NoWork
    <3> QED
      BY <3>3, <3>4
  <2>4. CASE Purge(w)
    <3>1. /\ work[w].proj \in Projects /\ lifecycle[work[w].proj] = "disabled"
          /\ lifecycle' = [lifecycle EXCEPT ![work[w].proj] = "absent"]
      BY <1>0, <2>4 DEF Purge, StatusInv
    <3>2. Lifecycle!Next
      BY <3>1 DEF Lifecycle!Next, Lifecycle!Purge, Lifecycle!Move
    <3>3. StatusInv(w)'
      BY <1>0, <2>4 DEF Purge, StatusInv, NoWork
    <3> QED
      BY <3>2, <3>3
  <2> QED
    BY <1>2, <2>1, <2>2, <2>3, <2>4 DEF RemovalStep
<1>3. CASE Request(w)
  <2>1. work[w].pc = "idle"
    BY <1>3 DEF Request, Idle
  <2>2. PICK p \in Projects :
         \/ \E root \in BOOLEAN : Register(w, p, root)
         \/ \E S \in SUBSET Files, full \in BOOLEAN :
              TriggerIndex(w, p, S, full) \/ ReindexDiff(w, p, S, full)
         \/ TrustedEvent(w, p)
         \/ \E S \in SUBSET Files, rev \in Unreads : CommitEvent(w, p, S, rev)
         \/ \E op \in {"deindex", "detached", "disabled"} : StartRemoval(w, p, op)
         \/ StartPurge(w, p)
    BY <1>3 DEF Request
  <2>3. ASSUME NEW root \in BOOLEAN, Register(w, p, root)
        PROVE  StatusInv(w)' /\ [Lifecycle!Next]_lifecycle
    <3>1. StatusInv(w)'
      BY <2>1, <2>3 DEF Register, StatusInv
    <3>2. CASE lifecycle[p] = "absent"
      <4>1. lifecycle' = [lifecycle EXCEPT ![p] = "active"]
        BY <2>3, <3>2 DEF Register
      <4> QED
        BY <3>1, <3>2, <4>1 DEF Lifecycle!Next, Lifecycle!Create, Lifecycle!Move
    <3>3. CASE lifecycle[p] # "absent"
      BY <1>0, <2>3, <3>1, <3>3 DEF Register
    <3> QED
      BY <3>2, <3>3
  <2>4. ASSUME NEW snap, NEW full, NEW late, StartReindex(w, p, snap, full, late)
        PROVE  StatusInv(w)' /\ [Lifecycle!Next]_lifecycle
    BY <1>0, <2>4 DEF StartReindex, StatusInv
  <2>5. ASSUME NEW S, NEW full, TriggerIndex(w, p, S, full)
        PROVE  StatusInv(w)' /\ [Lifecycle!Next]_lifecycle
    BY <2>1, <2>5 DEF TriggerIndex, StatusInv, db
  <2>6. ASSUME NEW op \in {"deindex", "detached", "disabled"}, StartRemoval(w, p, op)
        PROVE  StatusInv(w)' /\ [Lifecycle!Next]_lifecycle
    BY <1>0, <2>6 DEF StartRemoval, StatusInv, NoWork, Registered, db
  <2>7. ASSUME StartPurge(w, p) PROVE StatusInv(w)' /\ [Lifecycle!Next]_lifecycle
    BY <1>0, <2>7 DEF StartPurge, StatusInv, NoWork, db
  <2> QED
    BY <2>2, <2>3, <2>4, <2>5, <2>6, <2>7 DEF ReindexDiff, TrustedEvent, CommitEvent
<1>4. CASE RunJob(w)
  <2>1. ASSUME NEW p, NEW snap, NEW full, NEW late, StartReindex(w, p, snap, full, late)
        PROVE  StatusInv(w)' /\ lifecycle' = lifecycle
    BY <1>0, <2>1 DEF StartReindex, StatusInv
  <2> QED
    BY <1>4, <2>1 DEF RunJob, StatusInv, db, Registered
<1>5. CASE Throw(w) \/ Crash(w)
  BY <1>0, <1>5 DEF Throw, Crash, StatusInv, NoWork, db
<1>6. CASE EditSome \/ UNCHANGED vars
  BY <1>6 DEF EditSome, Edit, StatusInv, Registered, vars, db
<1> QED
  BY <1>1, <1>2, <1>3, <1>4, <1>5, <1>6 DEF Next, Step

(***************************************************************************)
(* With one process the index implements the lifecycle: whatever fails and *)
(* whenever, detached and disabled are entered from deindexed only and a   *)
(* project disappears from disabled only.                                  *)
(***************************************************************************)
THEOREM LifecycleImplemented ==
    ASSUME NEW w, Procs = {w}
    PROVE  Spec => ImplementsLifecycle
<1>1. Init => StatusInv(w) /\ Lifecycle!Init
  BY StatusInit
<1>2. Typed /\ StatusInv(w) /\ [Next]_vars => StatusInv(w)' /\ [Lifecycle!Next]_lifecycle
  BY StatusStep
<1> QED
  BY <1>1, <1>2, TypeCorrect, PTL DEF Spec, ImplementsLifecycle, Lifecycle!Spec

-----------------------------------------------------------------------------
\* What the helpers compute, by their definitions.
LEMMA FillFacts ==
    /\ \A c : Insert(NoBlocks, c) = Fill(c)
    /\ \A row \in Row : Tombed(row).active = FALSE /\ Tombed(row).sum = row.sum
BY DEF Fill, Tombed, Row

LEMMA HonestInit == ASSUME NEW w \in Procs, Init PROVE HonestInv(w)
BY DEF Init, HonestInv, WatchHonest, RunInv, NoWork, NoPaths

\* A run starts from an honest snapshot: what it skips is backed.
LEMMA HonestStart ==
    ASSUME NEW w \in Procs, Typed, HonestInv(w), NEW p \in Projects, NEW snap \in Snapshots,
           NEW full, NEW late, StartReindex(w, p, snap, full, late)
    PROVE  HonestInv(w)'
<1>1. /\ work'[w].pc = "next" /\ work'[w].proj = p /\ work'[w].snap = snap
      /\ work'[w].todo = Changed(p, snap)
      /\ UNCHANGED <<watch, files, blocks>>
  BY DEF StartReindex, Typed, TypeOK
<1>2. WatchHonest'
  BY <1>1 DEF HonestInv, WatchHonest
<1>3. \A f \in Changed(p, snap) : watch[p][f] # snap[f]
  BY DEF Changed
<1>4. ASSUME NEW f \in Paths(snap) \ Changed(p, snap) PROVE Backed(p, f, snap[f])
  <2>1. f \in Files /\ watch[p][f] = snap[f] /\ snap[f] # None
    BY <1>4 DEF Changed, Paths
  <2> QED
    BY <2>1 DEF HonestInv, WatchHonest, Backed
<1> QED
  BY <1>1, <1>2, <1>3, <1>4 DEF HonestInv, RunInv, Backed

\* A step that leaves rows, blocks and watch alone, and ends or starts no run.
LEMMA HonestElsewhere ==
    ASSUME NEW w \in Procs, Typed, HonestInv(w), UNCHANGED <<watch, files, blocks>>,
           \/ work'[w] = work[w]
           \/ work'[w].pc \notin {"next", "stale", "insert", "tombed", "lateTombed",
                                  "deindexBlocks"}
    PROVE  HonestInv(w)'
BY DEF HonestInv, WatchHonest, RunInv, Backed

LEMMA HonestRun ==
    ASSUME NEW w \in Procs, Typed, HonestInv(w), ReindexStep(w)
    PROVE  HonestInv(w)'
<1> DEFINE p == work[w].proj
           snap == work[w].snap
           file == work[w].file
<1>0. /\ work \in [Procs -> Work] /\ work[w] \in Work /\ NoWork \in Work
      /\ files \in [Projects -> [Files -> Row]]
      /\ blocks \in [Projects -> [Files -> [Blocks -> Contents \cup {None}]]]
      /\ watch \in [Projects -> Snapshots] /\ snap \in Snapshots
      /\ work[w].pc # "idle" => p \in Projects
  BY NoWorkType DEF Typed, TypeOK, BusyOK, Work
<1>w. /\ \A q \in Projects, f \in Files :
           watch[q][f] # None => Backed(q, f, watch[q][f])
      /\ (\A q \in Projects, f \in Files : watch[q][f] # None => Backed(q, f, watch[q][f]))'
           => WatchHonest'
  BY DEF HonestInv, WatchHonest, Backed
<1>1. ASSUME NEW f \in Files, UpsertFile(w, f) PROVE HonestInv(w)'
  <2>1. /\ work[w].pc = "next" /\ f \in work[w].todo /\ p \in Projects
        /\ watch[p][f] # snap[f]
        /\ \A g \in work[w].todo : watch[p][g] # snap[g]
        /\ \A g \in Paths(snap) \ work[w].todo : Backed(p, g, snap[g])
    BY <1>0, <1>1 DEF UpsertFile, HonestInv, RunInv
  <2>2. /\ files' = [files EXCEPT ![p][f] = [sum |-> snap[f], active |-> TRUE]]
        /\ UNCHANGED <<watch, blocks>>
        /\ work'[w].pc = "stale" /\ work'[w].file = f /\ work'[w].proj = p
        /\ work'[w].snap = snap /\ work'[w].todo = work[w].todo
    BY <1>0, <1>1 DEF UpsertFile, Work
  <2>3. \A q \in Projects, g \in Files :
          files'[q][g] = IF q = p /\ g = f THEN [sum |-> snap[f], active |-> TRUE] ELSE files[q][g]
    BY <1>0, <2>1, <2>2
  <2>4. WatchHonest'
    BY <1>w, <2>1, <2>2, <2>3 DEF Backed
  <2>5. RunInv(w)'
    <3>1. \A g \in Paths(snap) \ work[w].todo : Backed(p, g, snap[g])'
      BY <2>1, <2>2, <2>3 DEF Backed, Paths
    <3> QED
      BY <2>1, <2>2, <2>3, <3>1 DEF RunInv, Backed
  <2> QED
    BY <2>4, <2>5 DEF HonestInv
<1>2. ASSUME NEW f \in Files, TombFile(w, f) PROVE HonestInv(w)'
  <2>1. /\ p \in Projects /\ work[w].pc \in {"next", "late"}
        /\ work[w].pc = "next" => work[w].todo = {}
    BY <1>0, <1>2 DEF TombFile
  <2>2. /\ files' = [files EXCEPT ![p][f] = Tombed(@)] /\ UNCHANGED <<watch, blocks>>
        /\ work'[w].pc = IF work[w].pc = "late" THEN "lateTombed" ELSE "tombed"
        /\ work'[w].file = f /\ work'[w].proj = p
        /\ work'[w].snap = snap /\ work'[w].todo = work[w].todo
    BY <1>0, <1>2 DEF TombFile, Work
  <2>3. \A q \in Projects, g \in Files :
          files'[q][g] = IF q = p /\ g = f THEN Tombed(files[p][f]) ELSE files[q][g]
    BY <1>0, <2>1, <2>2
  <2>4. \A c : \A q \in Projects, g \in Files : Backed(q, g, c) => Backed(q, g, c)'
    BY <1>0, <2>1, <2>2, <2>3, FillFacts DEF Backed
  <2>5. ~files'[p][f].active
    BY <1>0, <2>1, <2>3, FillFacts
  <2>6. WatchHonest'
    BY <1>w, <2>2, <2>4
  <2>7. RunInv(w)'
    BY <2>1, <2>2, <2>4, <2>5 DEF HonestInv, RunInv, Paths
  <2> QED
    BY <2>6, <2>7 DEF HonestInv
<1>3. CASE StaleBlocks(w)
  <2>1. /\ work[w].pc = "stale" /\ p \in Projects /\ file \in work[w].todo /\ file \in Files
        /\ files[p][file] = [sum |-> snap[file], active |-> TRUE]
        /\ \A g \in work[w].todo : watch[p][g] # snap[g]
        /\ \A g \in Paths(snap) \ work[w].todo : Backed(p, g, snap[g])
    BY <1>0, <1>3 DEF StaleBlocks, HonestInv, RunInv, Typed, BusyOK, Paths
  <2>2. /\ blocks' = [blocks EXCEPT ![p][file] = NoBlocks] /\ UNCHANGED <<watch, files>>
        /\ work'[w].pc = "insert" /\ work'[w].file = file /\ work'[w].proj = p
        /\ work'[w].snap = snap /\ work'[w].todo = work[w].todo
    BY <1>0, <1>3 DEF StaleBlocks, Stale, Work
  <2>3. \A q \in Projects, g \in Files :
          blocks'[q][g] = IF q = p /\ g = file THEN NoBlocks ELSE blocks[q][g]
    BY <1>0, <2>1, <2>2
  <2>4. WatchHonest'
    BY <1>w, <2>1, <2>2, <2>3 DEF Backed
  <2>5. RunInv(w)'
    <3>1. \A g \in Paths(snap) \ work[w].todo : Backed(p, g, snap[g])'
      BY <2>1, <2>2, <2>3 DEF Backed, Paths
    <3> QED
      BY <2>1, <2>2, <2>3, <3>1 DEF RunInv, Backed
  <2> QED
    BY <2>4, <2>5 DEF HonestInv
<1>4. CASE InsertBlocks(w)
  <2>1. /\ work[w].pc = "insert" /\ p \in Projects /\ file \in work[w].todo /\ file \in Files
        /\ files[p][file] = [sum |-> snap[file], active |-> TRUE]
        /\ blocks[p][file] = NoBlocks
        /\ \A g \in work[w].todo : watch[p][g] # snap[g]
        /\ \A g \in Paths(snap) \ work[w].todo : Backed(p, g, snap[g])
    BY <1>0, <1>4 DEF InsertBlocks, HonestInv, RunInv, Typed, BusyOK, Paths
  <2>2. /\ blocks' = [blocks EXCEPT ![p][file] = Insert(@, snap[file])]
        /\ UNCHANGED <<watch, files>>
        /\ work'[w].pc = "next" /\ work'[w].proj = p
        /\ work'[w].snap = snap /\ work'[w].todo = work[w].todo \ {file}
    BY <1>0, <1>4 DEF InsertBlocks, Work
  <2>3. \A q \in Projects, g \in Files :
          blocks'[q][g] = IF q = p /\ g = file THEN Fill(snap[file]) ELSE blocks[q][g]
    BY <1>0, <2>1, <2>2, FillFacts
  <2>4. WatchHonest'
    BY <1>w, <2>1, <2>2, <2>3 DEF Backed
  <2>5. RunInv(w)'
    <3>1. ASSUME NEW g \in Paths(snap) \ (work[w].todo \ {file}) PROVE Backed(p, g, snap[g])'
      BY <2>1, <2>2, <2>3, <3>1 DEF Backed, Paths
    <3> QED
      BY <2>1, <2>2, <3>1 DEF RunInv, Backed
  <2> QED
    BY <2>4, <2>5 DEF HonestInv
<1>5. CASE TombBlocks(w)
  <2>1. /\ work[w].pc \in {"tombed", "lateTombed"} /\ p \in Projects /\ file \in Files
        /\ ~files[p][file].active
        /\ work[w].pc = "tombed" => /\ work[w].todo = {}
                                    /\ \A g \in Paths(snap) : Backed(p, g, snap[g])
    BY <1>0, <1>5 DEF TombBlocks, HonestInv, RunInv, Typed, BusyOK, Work
  <2>2. /\ blocks' = [blocks EXCEPT ![p][file] = NoBlocks] /\ UNCHANGED <<watch, files>>
        /\ work'[w].pc = IF work[w].pc = "lateTombed" THEN "late" ELSE "next"
        /\ work'[w].proj = p /\ work'[w].snap = snap /\ work'[w].todo = work[w].todo
    BY <1>0, <1>5 DEF TombBlocks, Stale, Work
  <2>3. \A q \in Projects, g \in Files :
          blocks'[q][g] = IF q = p /\ g = file THEN NoBlocks ELSE blocks[q][g]
    BY <1>0, <2>1, <2>2
  <2>4. \A c : \A q \in Projects, g \in Files : Backed(q, g, c) => Backed(q, g, c)'
    BY <2>1, <2>2, <2>3 DEF Backed
  <2>5. WatchHonest'
    BY <1>w, <2>2, <2>4
  <2>6. RunInv(w)'
    BY <2>1, <2>2, <2>4 DEF RunInv, Paths
  <2> QED
    BY <2>5, <2>6 DEF HonestInv
<1>6. CASE WriteWatch(w)
  <2>1. /\ work[w].pc = "next" /\ p \in Projects /\ work[w].todo = {}
        /\ \A g \in Paths(snap) : Backed(p, g, snap[g])
    BY <1>0, <1>6 DEF WriteWatch, Remaining, HonestInv, RunInv
  <2>2. /\ watch' = [watch EXCEPT ![p] = snap] /\ UNCHANGED <<files, blocks>>
        /\ work'[w].pc = "activate"
    BY <1>0, <1>6 DEF WriteWatch, Work
  <2>3. WatchHonest'
    BY <1>0, <1>w, <2>1, <2>2 DEF Backed, Paths
  <2> QED
    BY <2>2, <2>3 DEF HonestInv, RunInv
<1>7. CASE Activate(w) \/ FinishRun(w) \/ Reactivate(w) \/ EndReindex(w)
  <2>1. /\ UNCHANGED <<watch, files, blocks>>
        /\ work'[w].pc \in {"finish", "reactivate", "late", "idle"}
    BY <1>0, <1>7 DEF Activate, FinishRun, Reactivate, EndReindex, db, NoWork, Work
  <2> QED
    BY <2>1, HonestElsewhere
<1> QED
  BY <1>1, <1>2, <1>3, <1>4, <1>5, <1>6, <1>7 DEF ReindexStep

LEMMA HonestRemoval ==
    ASSUME NEW w \in Procs, Typed, HonestInv(w), RemovalStep(w)
    PROVE  HonestInv(w)'
<1> DEFINE p == work[w].proj
<1>0. /\ work \in [Procs -> Work] /\ work[w] \in Work
      /\ files \in [Projects -> [Files -> Row]]
      /\ blocks \in [Projects -> [Files -> [Blocks -> Contents \cup {None}]]]
      /\ watch \in [Projects -> Snapshots]
      /\ work[w].pc # "idle" => p \in Projects
  BY DEF Typed, TypeOK, BusyOK
<1>1. CASE DeindexFiles(w)
  <2>1. p \in Projects
    BY <1>0, <1>1 DEF DeindexFiles
  <2>2. /\ files' = [files EXCEPT ![p] = [f \in Files |-> Tombed(@[f])]]
        /\ UNCHANGED <<watch, blocks>>
        /\ work'[w].pc = "deindexBlocks" /\ work'[w].proj = p
    BY <1>0, <1>1 DEF DeindexFiles, Work
  <2>3. \A q \in Projects, g \in Files :
          files'[q][g] = IF q = p THEN Tombed(files[p][g]) ELSE files[q][g]
    BY <1>0, <2>1, <2>2
  <2>4. \A g \in Files : ~files'[p][g].active
    BY <1>0, <2>1, <2>3, FillFacts
  <2>5. WatchHonest'
    BY <2>2, <2>3, <2>4 DEF HonestInv, WatchHonest
  <2> QED
    BY <2>2, <2>4, <2>5 DEF HonestInv, RunInv
<1>2. CASE DeindexBlocks(w)
  <2>1. p \in Projects /\ \A g \in Files : ~files[p][g].active
    BY <1>0, <1>2 DEF DeindexBlocks, HonestInv, RunInv
  <2>2. /\ blocks' = [blocks EXCEPT ![p] = [f \in Files |-> NoBlocks]]
        /\ UNCHANGED <<watch, files>> /\ work'[w].pc = "deindexProject"
    BY <1>0, <1>2 DEF DeindexBlocks, Work
  <2>3. WatchHonest'
    <3>1. \A c : \A g \in Files : files[p][g] # [sum |-> c, active |-> TRUE]
      BY <2>1
    <3>2. \A q \in Projects : q # p => blocks'[q] = blocks[q]
      BY <1>0, <2>2
    <3> QED
      BY <2>2, <3>1, <3>2 DEF HonestInv, WatchHonest
  <2> QED
    BY <2>2, <2>3 DEF HonestInv, RunInv
<1>3. CASE DeindexProject(w) \/ Unalias(w) \/ Settle(w)
  <2>1. UNCHANGED <<watch, files, blocks>> /\ work'[w].pc \in {"unalias", "settle", "idle"}
    BY <1>0, <1>3 DEF DeindexProject, Unalias, Settle, NoWork, Work
  <2> QED
    BY <2>1, HonestElsewhere
<1>4. CASE Purge(w)
  <2>1. p \in Projects
    BY <1>0, <1>4 DEF Purge
  <2>2. \A q \in Projects :
          /\ watch'[q] = IF q = p THEN NoPaths ELSE watch[q]
          /\ q # p => files'[q] = files[q] /\ blocks'[q] = blocks[q]
    BY <1>0, <1>4 DEF Purge
  <2>3. WatchHonest'
    BY <2>1, <2>2 DEF HonestInv, WatchHonest, NoPaths
  <2>4. work'[w].pc = "idle"
    BY <1>0, <1>4 DEF Purge, NoWork
  <2> QED
    BY <2>3, <2>4 DEF HonestInv, RunInv
<1> QED
  BY <1>1, <1>2, <1>3, <1>4 DEF RemovalStep

LEMMA HonestRequest ==
    ASSUME NEW w \in Procs, Typed, HonestInv(w), Request(w)
    PROVE  HonestInv(w)'
<1>1. work[w].pc = "idle" /\ work \in [Procs -> Work]
  BY DEF Request, Idle, Typed, TypeOK
<1>2. PICK p \in Projects :
         \/ \E root \in BOOLEAN : Register(w, p, root)
         \/ \E S \in SUBSET Files, full \in BOOLEAN :
              TriggerIndex(w, p, S, full) \/ ReindexDiff(w, p, S, full)
         \/ TrustedEvent(w, p)
         \/ \E S \in SUBSET Files, rev \in Unreads : CommitEvent(w, p, S, rev)
         \/ \E op \in {"deindex", "detached", "disabled"} : StartRemoval(w, p, op)
         \/ StartPurge(w, p)
  BY DEF Request
<1>3. ASSUME NEW root \in BOOLEAN, Register(w, p, root) PROVE HonestInv(w)'
  BY <1>3, HonestElsewhere DEF Register
<1>4. ASSUME NEW S \in SUBSET Files, NEW full \in BOOLEAN, TriggerIndex(w, p, S, full)
      PROVE  HonestInv(w)'
  BY <1>4, HonestElsewhere DEF TriggerIndex, db
<1>5. ASSUME NEW S \in SUBSET Files, NEW full \in BOOLEAN, ReindexDiff(w, p, S, full)
      PROVE  HonestInv(w)'
  <2>1. ReadTree(p, S) \in Snapshots
    BY ReadTreeType DEF Typed
  <2> QED
    BY <1>5, <2>1, HonestStart DEF ReindexDiff
<1>6. ASSUME TrustedEvent(w, p) PROVE HonestInv(w)'
  <2>1. tree[p] \in Snapshots
    BY ReadTreeType DEF Typed
  <2> QED
    BY <1>6, <2>1, HonestStart DEF TrustedEvent
<1>7. ASSUME NEW S \in SUBSET Files, NEW rev \in Unreads, CommitEvent(w, p, S, rev) PROVE HonestInv(w)'
  <2> DEFINE snap == [f \in Files |-> IF f \notin S THEN None
                                      ELSE IF tree[p][f] = None THEN rev ELSE tree[p][f]]
  <2>1. snap \in Snapshots
    BY DEF Typed, TypeOK, Snapshots, Sums
  <2>2. StartReindex(w, p, snap, FALSE, S \ Paths(tree[p]))
    BY <1>7 DEF CommitEvent
  <2> HIDE DEF snap
  <2> QED
    BY <2>1, <2>2, HonestStart
<1>8. ASSUME NEW op \in {"deindex", "detached", "disabled"}, StartRemoval(w, p, op)
      PROVE  HonestInv(w)'
  <2>1. UNCHANGED <<watch, files, blocks>> /\ work'[w].pc \in {"unalias", "deindexFiles"}
    BY <1>1, <1>8 DEF StartRemoval, NoWork, db
  <2> QED
    BY <2>1, HonestElsewhere
<1>9. ASSUME StartPurge(w, p) PROVE HonestInv(w)'
  <2>1. UNCHANGED <<watch, files, blocks>> /\ work'[w].pc = "purge"
    BY <1>1, <1>9 DEF StartPurge, NoWork, db
  <2> QED
    BY <2>1, HonestElsewhere
<1> QED
  BY <1>2, <1>3, <1>4, <1>5, <1>6, <1>7, <1>8, <1>9

LEMMA HonestJob ==
    ASSUME NEW w \in Procs, Typed, HonestInv(w), RunJob(w)
    PROVE  HonestInv(w)'
<1> DEFINE j == Head(jobs[w])
<1>1. jobs[w] \in Seq(Job) /\ jobs[w] # <<>>
  BY DEF RunJob, Typed, TypeOK
<1>2. j \in Job
  BY <1>1
<1>3. j.proj \in Projects /\ JobPaths(j) \in Snapshots
  BY <1>2, NoWorkType, ReadTreeType DEF Job, JobPaths, Typed
<1>4. CASE StartReindex(w, j.proj, JobPaths(j), j.full, {})
  <2> HIDE DEF j
  <2> QED
    BY <1>3, <1>4, HonestStart
<1>5. CASE UNCHANGED <<db, work>>
  BY <1>5, HonestElsewhere DEF db
<1> QED
  BY <1>4, <1>5 DEF RunJob

LEMMA HonestStep ==
    ASSUME NEW w, Procs = {w}, Typed, HonestInv(w), [Next]_vars
    PROVE  HonestInv(w)'
<1>0. w \in Procs /\ work \in [Procs -> Work]
  BY DEF Typed, TypeOK
<1>1. CASE Step(w)
  BY <1>0, <1>1, HonestRun, HonestRemoval DEF Step
<1>2. CASE Throw(w) \/ Crash(w)
  <2>1. UNCHANGED <<watch, files, blocks>> /\ work'[w].pc = "idle"
    BY <1>0, <1>2 DEF Throw, Crash, NoWork, db
  <2> QED
    BY <1>0, <2>1, HonestElsewhere
<1>3. CASE EditSome \/ UNCHANGED vars
  <2>1. UNCHANGED <<watch, files, blocks, work>>
    BY <1>3 DEF EditSome, Edit, vars, db
  <2> QED
    BY <1>0, <2>1, HonestElsewhere
<1> QED
  BY <1>0, <1>1, <1>2, <1>3, HonestRequest, HonestJob DEF Next

(***************************************************************************)
(* With one process, however it fails, a live row that agrees with the     *)
(* watch snapshot has exactly the blocks of its content: a run may skip    *)
(* what the snapshot says is unchanged and live.                           *)
(***************************************************************************)
THEOREM WatchIsHonest ==
    ASSUME NEW w, Procs = {w}
    PROVE  Spec => []WatchHonest
<1>1. Init => HonestInv(w)
  BY HonestInit
<1>2. Typed /\ HonestInv(w) /\ [Next]_vars => HonestInv(w)'
  BY HonestStep
<1>3. HonestInv(w) => WatchHonest
  BY DEF HonestInv
<1> QED
  BY <1>1, <1>2, <1>3, TypeCorrect, PTL DEF Spec

-----------------------------------------------------------------------------
(***************************************************************************)
(* With one process and no failure so far, row and blocks of a path agree, *)
(* but for the path, or the project, a statement has changed the rows of   *)
(* and the next one will change the blocks of.                             *)
(***************************************************************************)
Agrees(p, f) == blocks[p][f] = IF files[p][f].active THEN Fill(files[p][f].sum) ELSE NoBlocks

InHand(w, p, f) ==
    /\ work[w].proj = p
    /\ \/ work[w].pc \in {"stale", "insert", "tombed", "lateTombed"} /\ work[w].file = f
       \/ work[w].pc = "deindexBlocks"

AgreeInv(w) == faults = 0 => \A p \in Projects, f \in Files : InHand(w, p, f) \/ Agrees(p, f)

(***************************************************************************)
(* With one process, a project without a row has nothing, and a handler    *)
(* works on a project that has one.                                        *)
(***************************************************************************)
OrphanInv(w) == NoOrphans /\ (work[w].pc # "idle" => Registered(work[w].proj))

(***************************************************************************)
(* In the deployment of SyncSpec, with one process.  Of a project nobody   *)
(* works on, the watch snapshot is exactly what the index shows.  A run    *)
(* moves from the old snapshot to its own: the paths it has been through   *)
(* show its content, and a live path it was not given is one it will drop. *)
(***************************************************************************)
Shown(p) ==
    \A f \in Files : /\ watch[p][f] # None => Indexed(p, f, watch[p][f])
                     /\ files[p][f].active => watch[p][f] # None

SyncRun(w) ==
    LET p == work[w].proj
        snap == work[w].snap IN
    /\ \A f \in Paths(snap) \ work[w].todo : Indexed(p, f, snap[f])
    /\ \A f \in Files : files[p][f].active /\ snap[f] = None => f \in work[w].gone
    /\ work[w].gone \cap Paths(snap) = {}

SyncInv(w) ==
    /\ \A i \in 1..Len(jobs[w]) : jobs[w][i].full
    /\ work[w].pc \in {"idle", "late"} \cup ReindexPcs
    /\ work[w].pc # "idle" => work[w].full /\ work[w].late = {}
    /\ work[w].pc = "late" => work[w].gone = {}
    /\ \A p \in Projects :
          work[w].proj # p \/ work[w].pc \in {"idle", "activate", "finish", "reactivate", "late"} => Shown(p)
    /\ work[w].pc \in {"next", "stale", "insert", "tombed"} => SyncRun(w)
    /\ work[w].pc \in {"activate", "finish", "reactivate"} => watch[work[w].proj] = work[w].snap

-----------------------------------------------------------------------------
(***************************************************************************)
(* What the statements of a run do, path by path.                          *)
(***************************************************************************)
\* Statements of one run.
SameRun(w) ==
    /\ work'[w].proj = work[w].proj /\ work'[w].snap = work[w].snap
    /\ work'[w].full = work[w].full /\ work'[w].late = work[w].late

LEMMA WorkFacts ==
    ASSUME Typed, NEW w \in Procs
    PROVE  /\ work \in [Procs -> Work] /\ work[w] \in Work
           /\ files \in [Projects -> [Files -> Row]] /\ watch \in [Projects -> Snapshots]
           /\ blocks \in [Projects -> [Files -> [Blocks -> Contents \cup {None}]]]
           /\ lifecycle \in [Projects -> Lifecycles]
           /\ work[w].pc # "idle" => work[w].proj \in Projects
           /\ work[w].pc \in {"stale", "insert"} =>
                work[w].file \in work[w].todo /\ work[w].file \in Paths(work[w].snap) /\ work[w].file \in Files
           /\ work[w].pc \in {"tombed", "lateTombed"} => work[w].file \in work[w].gone /\ work[w].file \in Files
BY DEF Typed, TypeOK, BusyOK, Work, Paths

LEMMA UpsertFileDoes ==
    ASSUME Typed, NEW w \in Procs, NEW f \in Files, UpsertFile(w, f)
    PROVE  /\ work[w].pc = "next" /\ f \in work[w].todo /\ work[w].proj \in Projects
           /\ SameRun(w) /\ work'[w].pc = "stale" /\ work'[w].file = f
           /\ work'[w].todo = work[w].todo /\ work'[w].gone = work[w].gone
           /\ \A q \in Projects, g \in Files : files'[q][g] =
                IF q = work[w].proj /\ g = f THEN [sum |-> work[w].snap[f], active |-> TRUE] ELSE files[q][g]
           /\ UNCHANGED <<lifecycle, named, rooted, watch, blocks, runs>>
<1>1. work[w].pc = "next" /\ f \in work[w].todo
  BY DEF UpsertFile
<1>2. work' = [work EXCEPT ![w].pc = "stale", ![w].file = f]
  BY DEF UpsertFile
<1>3. SameRun(w) /\ work'[w].pc = "stale" /\ work'[w].file = f
      /\ work'[w].todo = work[w].todo /\ work'[w].gone = work[w].gone
  BY <1>2, WorkFacts DEF Work, SameRun
<1> QED
  BY <1>1, <1>3, WorkFacts DEF UpsertFile

LEMMA TombFileDoes ==
    ASSUME Typed, NEW w \in Procs, NEW f \in Files, TombFile(w, f)
    PROVE  /\ \/ work[w].pc = "next" /\ work[w].todo = {} /\ work'[w].pc = "tombed"
              \/ work[w].pc = "late" /\ work'[w].pc = "lateTombed"
           /\ f \in work[w].gone /\ work[w].proj \in Projects
           /\ SameRun(w) /\ work'[w].file = f
           /\ work'[w].todo = work[w].todo /\ work'[w].gone = work[w].gone
           /\ \A q \in Projects, g \in Files :
                files'[q][g] = IF q = work[w].proj /\ g = f THEN Tombed(files[q][g]) ELSE files[q][g]
           /\ UNCHANGED <<lifecycle, named, rooted, watch, blocks, runs>>
<1>1. \/ work[w].pc = "next" /\ work[w].todo = {} /\ work' = [work EXCEPT ![w].pc = "tombed", ![w].file = f]
      \/ work[w].pc = "late" /\ work' = [work EXCEPT ![w].pc = "lateTombed", ![w].file = f]
  BY WorkFacts DEF TombFile
<1>2. SameRun(w) /\ work'[w].file = f /\ work'[w].todo = work[w].todo /\ work'[w].gone = work[w].gone
  BY <1>1, WorkFacts DEF Work, SameRun
<1>3. \/ work[w].pc = "next" /\ work[w].todo = {} /\ work'[w].pc = "tombed"
      \/ work[w].pc = "late" /\ work'[w].pc = "lateTombed"
  BY <1>1, WorkFacts DEF Work
<1>4. f \in work[w].gone /\ files' = [files EXCEPT ![work[w].proj][f] = Tombed(@)] /\ work[w].proj \in Projects
  BY <1>3, WorkFacts DEF TombFile
<1> QED
  BY <1>2, <1>3, <1>4, WorkFacts DEF TombFile

LEMMA StaleBlocksDoes ==
    ASSUME Typed, NEW w \in Procs, StaleBlocks(w)
    PROVE  /\ work[w].pc = "stale" /\ work[w].proj \in Projects
           /\ SameRun(w) /\ work'[w].pc = "insert" /\ work'[w].file = work[w].file
           /\ work'[w].todo = work[w].todo /\ work'[w].gone = work[w].gone
           /\ \A q \in Projects, g \in Files : blocks'[q][g] =
                IF q = work[w].proj /\ g = work[w].file THEN NoBlocks ELSE blocks[q][g]
           /\ UNCHANGED <<lifecycle, named, rooted, watch, files, runs>>
<1>1. work[w].pc = "stale" /\ work' = [work EXCEPT ![w].pc = "insert"]
      /\ blocks' = [blocks EXCEPT ![work[w].proj][work[w].file] = NoBlocks]
  BY DEF StaleBlocks, Stale
<1>2. SameRun(w) /\ work'[w].pc = "insert" /\ work'[w].file = work[w].file
      /\ work'[w].todo = work[w].todo /\ work'[w].gone = work[w].gone
  BY <1>1, WorkFacts DEF Work, SameRun
<1> QED
  BY <1>1, <1>2, WorkFacts DEF StaleBlocks

LEMMA InsertBlocksDoes ==
    ASSUME Typed, NEW w \in Procs, InsertBlocks(w)
    PROVE  /\ work[w].pc = "insert" /\ work[w].proj \in Projects
           /\ SameRun(w) /\ work'[w].pc = "next" /\ work'[w].todo = work[w].todo \ {work[w].file}
           /\ work'[w].gone = work[w].gone
           /\ \A q \in Projects, g \in Files : blocks'[q][g] =
                IF q = work[w].proj /\ g = work[w].file
                THEN Insert(blocks[q][g], work[w].snap[g]) ELSE blocks[q][g]
           /\ UNCHANGED <<lifecycle, named, rooted, watch, files, runs>>
<1> DEFINE f == work[w].file
<1>1. /\ work[w].pc = "insert"
      /\ work' = [work EXCEPT ![w].pc = "next", ![w].todo = @ \ {f}, ![w].file = None]
      /\ blocks' = [blocks EXCEPT ![work[w].proj][f] = Insert(@, work[w].snap[f])]
  BY DEF InsertBlocks
<1>2. SameRun(w) /\ work'[w].pc = "next" /\ work'[w].todo = work[w].todo \ {f} /\ work'[w].gone = work[w].gone
  BY <1>1, WorkFacts DEF Work, SameRun
<1> QED
  <2>1. work[w].proj \in Projects /\ f \in Files
    BY <1>1, WorkFacts
  <2>2. \A q \in Projects, g \in Files : blocks'[q][g] =
           IF q = work[w].proj /\ g = f THEN Insert(blocks[q][g], work[w].snap[f]) ELSE blocks[q][g]
    BY <1>1, <2>1, WorkFacts
  <2>3. UNCHANGED <<lifecycle, named, rooted, watch, files, runs>>
    BY DEF InsertBlocks
  <2>4. work[w].pc = "insert"
    BY <1>1
  <2> QED
    BY <1>2, <2>1, <2>2, <2>3, <2>4

LEMMA TombBlocksDoes ==
    ASSUME Typed, NEW w \in Procs, TombBlocks(w)
    PROVE  /\ \/ work[w].pc = "tombed" /\ work'[w].pc = "next"
              \/ work[w].pc = "lateTombed" /\ work'[w].pc = "late"
           /\ work[w].proj \in Projects
           /\ SameRun(w) /\ work'[w].todo = work[w].todo /\ work'[w].gone = work[w].gone \ {work[w].file}
           /\ \A q \in Projects, g \in Files : blocks'[q][g] =
                IF q = work[w].proj /\ g = work[w].file THEN NoBlocks ELSE blocks[q][g]
           /\ UNCHANGED <<lifecycle, named, rooted, watch, files, runs>>
<1> DEFINE f == work[w].file
<1>1. /\ \/ work[w].pc = "tombed"
            /\ work' = [work EXCEPT ![w].pc = "next", ![w].gone = @ \ {f}, ![w].file = None]
         \/ work[w].pc = "lateTombed"
            /\ work' = [work EXCEPT ![w].pc = "late", ![w].gone = @ \ {f}, ![w].file = None]
      /\ blocks' = [blocks EXCEPT ![work[w].proj][f] = NoBlocks]
  BY WorkFacts DEF TombBlocks, Stale
<1>2. /\ SameRun(w) /\ work'[w].todo = work[w].todo /\ work'[w].gone = work[w].gone \ {f}
  BY <1>1, WorkFacts DEF Work, SameRun
<1>3. \/ work[w].pc = "tombed" /\ work'[w].pc = "next"
      \/ work[w].pc = "lateTombed" /\ work'[w].pc = "late"
  BY <1>1, WorkFacts DEF Work
<1> QED
  BY <1>1, <1>2, <1>3, WorkFacts DEF TombBlocks

LEMMA WriteWatchDoes ==
    ASSUME Typed, NEW w \in Procs, WriteWatch(w)
    PROVE  /\ work[w].pc = "next" /\ work[w].todo = {} /\ work[w].gone = {} /\ work[w].proj \in Projects
           /\ SameRun(w) /\ work'[w].pc = "activate"
           /\ \A q \in Projects : watch'[q] = IF q = work[w].proj THEN work[w].snap ELSE watch[q]
           /\ UNCHANGED <<lifecycle, named, rooted, files, blocks, runs>>
BY WorkFacts DEF WriteWatch, Remaining, SameRun, Work

\* The statements of a run that touch neither rows, blocks nor the watch snapshot.
LEMMA RunEndDoes ==
    ASSUME Typed, NEW w \in Procs, Activate(w) \/ FinishRun(w) \/ Reactivate(w) \/ EndReindex(w)
    PROVE  /\ work[w].proj \in Projects
           /\ \/ work[w].pc = "late" /\ work'[w] = NoWork
              \/ work[w].pc = "activate" /\ SameRun(w) /\ work'[w].pc = "finish"
              \/ work[w].pc = "finish" /\ SameRun(w) /\ work'[w].pc = "reactivate"
              \/ work[w].pc = "reactivate" /\ SameRun(w) /\ work'[w].pc = "late"
                   /\ work'[w].gone = work[w].late
           /\ \A q \in Projects : lifecycle'[q] = lifecycle[q] \/ (lifecycle'[q] = "active" /\ lifecycle[q] = "deindexed")
           /\ runs' = runs \/ \E id : runs' = SetRun(id, "indexed")
           /\ UNCHANGED <<named, rooted, watch, files, blocks>>
<1>2. CASE Activate(w)
  <2>1. work[w].pc = "activate" /\ SameRun(w) /\ work'[w].pc = "finish"
    BY <1>2, WorkFacts DEF Activate, SameRun, Work
  <2> QED
    BY <1>2, <2>1, WorkFacts DEF Activate, Reactivated
<1>3. CASE FinishRun(w)
  <2>1. work[w].pc = "finish" /\ SameRun(w) /\ work'[w].pc = "reactivate"
    BY <1>3, WorkFacts DEF FinishRun, SameRun, Work
  <2> QED
    BY <1>3, <2>1, WorkFacts DEF FinishRun
<1>4. CASE Reactivate(w)
  <2>1. work[w].pc = "reactivate" /\ SameRun(w) /\ work'[w].pc = "late" /\ work'[w].gone = work[w].late
    BY <1>4, WorkFacts DEF Reactivate, SameRun, Work
  <2> QED
    BY <1>4, <2>1, WorkFacts DEF Reactivate, Reactivated
<1>5. CASE EndReindex(w)
  BY <1>5, WorkFacts DEF EndReindex, db
<1> QED
  BY <1>2, <1>3, <1>4, <1>5

\* A request or a job only ever starts something, and registers.
LEMMA RequestLeaves ==
    ASSUME NEW w \in Procs, Request(w) \/ RunJob(w)
    PROVE  UNCHANGED <<watch, files, blocks, faults>> /\ work[w].pc = "idle"
<1>1. ASSUME NEW p, NEW snap, NEW full, NEW late, StartReindex(w, p, snap, full, late)
      PROVE  UNCHANGED <<watch, files, blocks>>
  BY <1>1 DEF StartReindex
<1>2. CASE Request(w)
  BY <1>1, <1>2 DEF Request, Register, TriggerIndex, ReindexDiff, TrustedEvent, CommitEvent,
                    StartRemoval, StartPurge, db, Idle
<1>3. CASE RunJob(w)
  BY <1>1, <1>3 DEF RunJob, db, counters, Idle
<1> QED
  BY <1>2, <1>3

-----------------------------------------------------------------------------
LEMMA AgreeInit == ASSUME NEW w \in Procs, Init PROVE AgreeInv(w)
BY DEF Init, AgreeInv, Agrees, NoRow

\* A step that leaves rows and blocks alone, and takes no path in hand or lets one go.
LEMMA AgreeElsewhere ==
    ASSUME NEW w \in Procs, AgreeInv(w), Typed, UNCHANGED <<files, blocks>>, faults' = faults,
           \/ work'[w] = work[w]
           \/ work[w].pc \notin {"stale", "insert", "tombed", "lateTombed", "deindexBlocks"}
    PROVE  AgreeInv(w)'
BY DEF AgreeInv, InHand, Agrees

LEMMA AgreeRun ==
    ASSUME NEW w \in Procs, Typed, HonestInv(w), AgreeInv(w), ReindexStep(w), faults' = faults
    PROVE  AgreeInv(w)'
<1> SUFFICES ASSUME faults = 0, NEW p \in Projects, NEW f \in Files, ~InHand(w, p, f)'
             PROVE  Agrees(p, f)'
  BY DEF AgreeInv
<1>0. (InHand(w, p, f) \/ Agrees(p, f)) /\ RunInv(w)
  BY DEF AgreeInv, HonestInv
<1>1. ASSUME NEW g \in Files, UpsertFile(w, g) PROVE Agrees(p, f)'
  <2>0. /\ work[w].pc = "next" /\ SameRun(w) /\ work'[w].pc = "stale" /\ work'[w].file = g /\ blocks' = blocks
        /\ \A q \in Projects, h \in Files : files'[q][h] =
                IF q = work[w].proj /\ h = g THEN [sum |-> work[w].snap[g], active |-> TRUE] ELSE files[q][h]
    <3>1. work[w].pc = "next" /\ SameRun(w) /\ blocks' = blocks
      BY <1>1, UpsertFileDoes
    <3>2. work'[w].pc = "stale" /\ work'[w].file = g
      BY <1>1, UpsertFileDoes
    <3>3. \A q \in Projects, h \in Files : files'[q][h] =
                IF q = work[w].proj /\ h = g THEN [sum |-> work[w].snap[g], active |-> TRUE] ELSE files[q][h]
      BY <1>1, UpsertFileDoes
    <3> QED
      BY <3>1, <3>2, <3>3
  <2>1. ~(p = work[w].proj /\ f = g)
    BY <2>0 DEF InHand, SameRun
  <2>2. files'[p][f] = files[p][f] /\ blocks' = blocks /\ work[w].pc = "next"
    BY <2>0, <2>1
  <2> QED
    BY <1>0, <2>2 DEF InHand, Agrees
<1>2. ASSUME NEW g \in Files, TombFile(w, g) PROVE Agrees(p, f)'
  BY <1>0, <1>2, TombFileDoes DEF InHand, Agrees, SameRun
<1>3. CASE StaleBlocks(w)
  BY <1>0, <1>3, StaleBlocksDoes DEF InHand, Agrees, SameRun
<1>4. CASE InsertBlocks(w)
  <2>1. CASE p = work[w].proj /\ f = work[w].file
    <3>1. files'[p][f] = [sum |-> work[w].snap[f], active |-> TRUE] /\ blocks[p][f] = NoBlocks
          /\ blocks'[p][f] = Insert(NoBlocks, work[w].snap[f])
      BY <1>0, <1>4, <2>1, InsertBlocksDoes DEF RunInv
    <3> QED BY <3>1, FillFacts DEF Agrees
  <2>2. CASE ~(p = work[w].proj /\ f = work[w].file)
    BY <1>0, <1>4, <2>2, InsertBlocksDoes DEF InHand, Agrees
  <2> QED BY <2>1, <2>2
<1>5. CASE TombBlocks(w)
  <2>1. CASE p = work[w].proj /\ f = work[w].file
    BY <1>0, <1>5, <2>1, TombBlocksDoes DEF RunInv, Agrees
  <2>2. CASE ~(p = work[w].proj /\ f = work[w].file)
    BY <1>0, <1>5, <2>2, TombBlocksDoes DEF InHand, Agrees
  <2> QED BY <2>1, <2>2
<1>6. CASE WriteWatch(w)
  BY <1>0, <1>6, WriteWatchDoes DEF InHand, Agrees
<1>7. CASE Activate(w) \/ FinishRun(w) \/ Reactivate(w) \/ EndReindex(w)
  BY <1>0, <1>7, RunEndDoes DEF InHand, Agrees
<1> QED
  BY <1>1, <1>2, <1>3, <1>4, <1>5, <1>6, <1>7 DEF ReindexStep

LEMMA AgreeRemoval ==
    ASSUME NEW w \in Procs, Typed, HonestInv(w), AgreeInv(w), RemovalStep(w), faults' = faults
    PROVE  AgreeInv(w)'
<1> DEFINE p == work[w].proj
<1>0. /\ work \in [Procs -> Work] /\ work[w] \in Work /\ RunInv(w)
      /\ files \in [Projects -> [Files -> Row]]
      /\ blocks \in [Projects -> [Files -> [Blocks -> Contents \cup {None}]]]
      /\ work[w].pc # "idle" => p \in Projects
  BY DEF Typed, TypeOK, BusyOK, HonestInv
<1>1. CASE DeindexFiles(w)
  <2>1. /\ p \in Projects /\ work[w].pc = "deindexFiles" /\ work'[w].pc = "deindexBlocks" /\ work'[w].proj = p
        /\ \A q \in Projects \ {p} : files'[q] = files[q]
        /\ blocks' = blocks
    BY <1>0, <1>1 DEF DeindexFiles, Work
  <2> QED
    BY <2>1 DEF AgreeInv, InHand, Agrees
<1>2. CASE DeindexBlocks(w)
  <2>1. /\ p \in Projects /\ work[w].pc = "deindexBlocks" /\ work'[w].pc = "deindexProject"
        /\ \A q \in Projects : blocks'[q] = IF q = p THEN [f \in Files |-> NoBlocks] ELSE blocks[q]
        /\ files' = files
    BY <1>0, <1>2 DEF DeindexBlocks, Work
  <2>2. \A f \in Files : ~files[p][f].active
    BY <1>0, <2>1 DEF RunInv
  <2> QED
    BY <2>1, <2>2 DEF AgreeInv, InHand, Agrees
<1>3. CASE DeindexProject(w) \/ Unalias(w) \/ Settle(w)
  BY <1>3, AgreeElsewhere DEF DeindexProject, Unalias, Settle
<1>4. CASE Purge(w)
  <2>1. /\ p \in Projects /\ work[w].pc = "purge"
        /\ \A q \in Projects : /\ files'[q] = IF q = p THEN [f \in Files |-> NoRow] ELSE files[q]
                               /\ blocks'[q] = IF q = p THEN [f \in Files |-> NoBlocks] ELSE blocks[q]
    BY <1>0, <1>4 DEF Purge
  <2> QED
    BY <2>1 DEF AgreeInv, InHand, Agrees, NoRow
<1> QED
  BY <1>1, <1>2, <1>3, <1>4 DEF RemovalStep

LEMMA AgreeStep ==
    ASSUME NEW w, Procs = {w}, Typed, HonestInv(w), AgreeInv(w), [Next]_vars
    PROVE  AgreeInv(w)'
<1>0. w \in Procs /\ work \in [Procs -> Work] /\ faults \in Nat
  BY DEF Typed, TypeOK
<1>1. CASE Step(w)
  BY <1>0, <1>1, AgreeRun, AgreeRemoval DEF Step, counters
<1>2. CASE Throw(w) \/ Crash(w)
  <2>1. faults' # 0
    BY <1>0, <1>2 DEF Throw, Crash
  <2> QED
    BY <2>1 DEF AgreeInv
<1>3. CASE EditSome \/ UNCHANGED vars
  <2>1. UNCHANGED <<files, blocks, work, faults>>
    BY <1>3 DEF EditSome, Edit, vars, db, counters
  <2> QED
    BY <1>0, <2>1, AgreeElsewhere
<1>4. CASE Request(w) \/ RunJob(w)
  <2>1. UNCHANGED <<files, blocks, faults>> /\ work[w].pc = "idle"
    BY <1>4, RequestLeaves
  <2> QED
    BY <1>0, <2>1, AgreeElsewhere
<1> QED
  BY <1>0, <1>1, <1>2, <1>3, <1>4 DEF Next

(***************************************************************************)
(* With one process and no failure, whatever ran before, a path of a       *)
(* project nobody works on has exactly the blocks of the content its row   *)
(* records, and none if the row is a tombstone.                            *)
(***************************************************************************)
THEOREM IndexIsConsistent ==
    ASSUME NEW w, Procs = {w}
    PROVE  Spec => []IndexConsistent
<1>1. Init => HonestInv(w) /\ AgreeInv(w)
  BY HonestInit, AgreeInit
<1>2. Typed /\ HonestInv(w) /\ AgreeInv(w) /\ [Next]_vars => HonestInv(w)' /\ AgreeInv(w)'
  BY HonestStep, AgreeStep
<1>3. AgreeInv(w) => IndexConsistent
  BY DEF AgreeInv, InHand, Agrees, IndexConsistent, Quiet
<1> QED
  BY <1>1, <1>2, <1>3, TypeCorrect, PTL DEF Spec

-----------------------------------------------------------------------------
\* What a project without a row has.
Blank(p) ==
    /\ ~named[p] /\ ~rooted[p] /\ watch[p] = NoPaths
    /\ files[p] = [f \in Files |-> NoRow]
    /\ blocks[p] = [f \in Files |-> NoBlocks]
    /\ \A r \in runs : r.proj # p

LEMMA OrphanInit == ASSUME NEW w \in Procs, Init PROVE OrphanInv(w)
BY DEF Init, OrphanInv, NoOrphans, NoWork

\* A step that gives nothing to a project without a row, and does not take the row of the one worked on.
LEMMA OrphanKept ==
    ASSUME NEW w \in Procs, OrphanInv(w),
           ASSUME NEW p \in Projects, lifecycle'[p] = "absent" PROVE Blank(p)',
           work'[w].pc # "idle" => lifecycle'[work'[w].proj] # "absent"
    PROVE  OrphanInv(w)'
BY DEF OrphanInv, NoOrphans, Blank, Registered

\* The runs of a project are marked, never given away.
LEMMA SetRunProj ==
    ASSUME TypeOK, NEW id, NEW state \in {"indexed", "error"}, NEW p, \A r \in runs : r.proj # p
    PROVE  \A r \in SetRun(id, state) : r.proj # p
BY DEF TypeOK, Run, SetRun

LEMMA OrphanRun ==
    ASSUME NEW w \in Procs, Typed, OrphanInv(w), ReindexStep(w)
    PROVE  OrphanInv(w)'
<1> DEFINE o == work[w].proj
<1>0. /\ TypeOK /\ \A p \in Projects : lifecycle[p] = "absent" => Blank(p)
      /\ work[w].pc # "idle" => lifecycle[o] # "absent"
      /\ files \in [Projects -> [Files -> Row]] /\ watch \in [Projects -> Snapshots]
      /\ blocks \in [Projects -> [Files -> [Blocks -> Contents \cup {None}]]]
  BY DEF Typed, TypeOK, OrphanInv, NoOrphans, Blank, Registered
<1>1. /\ work[w].pc # "idle" /\ o \in Projects
      /\ work'[w].pc # "idle" => work'[w].proj = o
      /\ \A p \in Projects : lifecycle'[p] = lifecycle[p] \/ (lifecycle'[p] = "active" /\ lifecycle[p] = "deindexed")
      /\ UNCHANGED <<named, rooted>>
      /\ runs' = runs \/ \E id : runs' = SetRun(id, "indexed")
      /\ \A p \in Projects \ {o} : files'[p] = files[p] /\ blocks'[p] = blocks[p] /\ watch'[p] = watch[p]
  <2>1. ASSUME NEW f \in Files, UpsertFile(w, f) PROVE <1>1
    BY <1>0, <2>1, UpsertFileDoes DEF SameRun, UpsertFile
  <2>2. ASSUME NEW f \in Files, TombFile(w, f) PROVE <1>1
    BY <1>0, <2>2, TombFileDoes DEF SameRun, TombFile
  <2>3. CASE StaleBlocks(w)
    BY <1>0, <2>3, StaleBlocksDoes DEF SameRun, StaleBlocks, Stale
  <2>4. CASE InsertBlocks(w)
    BY <1>0, <2>4, InsertBlocksDoes DEF SameRun, InsertBlocks
  <2>5. CASE TombBlocks(w)
    BY <1>0, <2>5, TombBlocksDoes DEF SameRun, TombBlocks, Stale
  <2>6. CASE WriteWatch(w)
    BY <1>0, <2>6, WriteWatchDoes DEF SameRun
  <2>7. CASE Activate(w) \/ FinishRun(w) \/ Reactivate(w) \/ EndReindex(w)
    <3>1. work[w].pc # "idle" /\ o \in Projects /\ (work'[w].pc # "idle" => work'[w].proj = o)
      BY <2>7, RunEndDoes DEF SameRun, NoWork
    <3> QED
      BY <2>7, <3>1, RunEndDoes
  <2> QED
    BY <2>1, <2>2, <2>3, <2>4, <2>5, <2>6, <2>7 DEF ReindexStep
<1>2. lifecycle'[o] # "absent"
  BY <1>0, <1>1
<1>3. ASSUME NEW p \in Projects, lifecycle'[p] = "absent" PROVE Blank(p)'
  <2>1. lifecycle[p] = "absent" /\ Blank(p) /\ p # o
    BY <1>0, <1>1, <1>2, <1>3
  <2>2. \A r \in runs' : r.proj # p
    <3>1. CASE runs' = runs
      BY <2>1, <3>1 DEF Blank
    <3>2. ASSUME NEW id, runs' = SetRun(id, "indexed") PROVE <2>2
      <4>1. \A r \in runs : r.proj # p
        BY <2>1 DEF Blank
      <4> QED
        BY <1>0, <3>2, <4>1, SetRunProj
    <3> QED
      BY <1>1, <3>1, <3>2
  <2> QED
    BY <1>1, <2>1, <2>2 DEF Blank
<1> QED
  BY <1>1, <1>2, <1>3, OrphanKept

LEMMA OrphanRemoval ==
    ASSUME NEW w \in Procs, Typed, StatusInv(w), OrphanInv(w), RemovalStep(w)
    PROVE  OrphanInv(w)'
<1> DEFINE o == work[w].proj
<1>0. /\ \A p \in Projects : lifecycle[p] = "absent" => Blank(p)
      /\ work[w].pc # "idle" => lifecycle[o] # "absent" /\ o \in Projects
      /\ lifecycle \in [Projects -> Lifecycles] /\ work \in [Procs -> Work] /\ work[w] \in Work
      /\ named \in [Projects -> BOOLEAN] /\ rooted \in [Projects -> BOOLEAN]
      /\ files \in [Projects -> [Files -> Row]] /\ watch \in [Projects -> Snapshots]
      /\ blocks \in [Projects -> [Files -> [Blocks -> Contents \cup {None}]]]
      /\ work[w].pc \in RemovalPcs => work[w].op \in {"deindex", "detached", "disabled"}
      /\ work[w].pc \in {"unalias", "settle"} => work[w].op \in {"detached", "disabled"}
  BY DEF Typed, TypeOK, BusyOK, OrphanInv, NoOrphans, Blank, Registered
<1>1. CASE DeindexFiles(w) \/ DeindexBlocks(w) \/ Unalias(w)
  <2>1. /\ work[w].pc # "idle" /\ work'[w].proj = o
        /\ lifecycle' = lifecycle /\ UNCHANGED <<rooted, watch, runs>>
        /\ \A p \in Projects \ {o} : /\ files'[p] = files[p] /\ blocks'[p] = blocks[p]
                                     /\ named'[p] = named[p]
    <3>1. CASE DeindexFiles(w)
      BY <1>0, <3>1 DEF DeindexFiles, Work
    <3>2. CASE DeindexBlocks(w)
      BY <1>0, <3>2 DEF DeindexBlocks, Work
    <3>3. CASE Unalias(w)
      BY <1>0, <3>3 DEF Unalias, Work
    <3> QED BY <1>1, <3>1, <3>2, <3>3
  <2>2. ASSUME NEW p \in Projects, lifecycle'[p] = "absent" PROVE Blank(p)'
    <3>1. p # o /\ Blank(p)
      BY <1>0, <2>1, <2>2
    <3> QED
      BY <2>1, <3>1 DEF Blank
  <2> QED
    BY <1>0, <2>1, <2>2, OrphanKept
<1>2. CASE DeindexProject(w)
  <2>1. /\ work[w].pc = "deindexProject" /\ o \in Projects /\ lifecycle[o] # "absent"
        /\ lifecycle' = [lifecycle EXCEPT ![o] = "deindexed"]
        /\ work'[w].pc # "idle" => work'[w].proj = o
        /\ UNCHANGED <<named, rooted, watch, files, blocks>>
        /\ runs' = runs \cup {[id |-> nextRun, proj |-> o, state |-> "indexed"]}
    BY <1>0, <1>2 DEF DeindexProject, SetLifecycle, AddRun, NoWork, Work
  <2>2. ASSUME NEW p \in Projects, lifecycle'[p] = "absent" PROVE Blank(p)'
    <3>1. p # o /\ Blank(p)
      BY <1>0, <2>1, <2>2
    <3> QED
      BY <2>1, <3>1 DEF Blank
  <2> QED
    BY <1>0, <2>1, <2>2, OrphanKept
<1>3. CASE Settle(w)
  <2>1. /\ work[w].pc = "settle" /\ o \in Projects /\ lifecycle[o] # "absent" /\ work[w].op # "absent"
        /\ lifecycle' = [lifecycle EXCEPT ![o] = work[w].op] /\ work'[w].pc = "idle"
        /\ rooted' = [rooted EXCEPT ![o] = FALSE]
        /\ UNCHANGED <<named, watch, files, blocks, runs>>
    BY <1>0, <1>3 DEF Settle, SetLifecycle, NoWork
  <2>2. ASSUME NEW p \in Projects, lifecycle'[p] = "absent" PROVE Blank(p)'
    <3>1. p # o /\ Blank(p)
      BY <1>0, <2>1, <2>2
    <3> QED
      BY <1>0, <2>1, <3>1 DEF Blank
  <2> QED
    BY <1>0, <2>1, <2>2, OrphanKept
<1>4. CASE Purge(w)
  <2>1. /\ o \in Projects /\ work'[w].pc = "idle"
        /\ \A p \in Projects :
             /\ lifecycle'[p] = IF p = o THEN "absent" ELSE lifecycle[p]
             /\ named'[p] = IF p = o THEN FALSE ELSE named[p]
             /\ rooted'[p] = IF p = o THEN FALSE ELSE rooted[p]
             /\ watch'[p] = IF p = o THEN NoPaths ELSE watch[p]
             /\ files'[p] = IF p = o THEN [f \in Files |-> NoRow] ELSE files[p]
             /\ blocks'[p] = IF p = o THEN [f \in Files |-> NoBlocks] ELSE blocks[p]
        /\ runs' = {r \in runs : r.proj # o}
    BY <1>0, <1>4 DEF Purge, NoWork
  <2>2. ASSUME NEW p \in Projects, lifecycle'[p] = "absent" PROVE Blank(p)'
    <3>1. CASE p = o
      BY <2>1, <3>1 DEF Blank
    <3>2. CASE p # o
      <4>1. Blank(p)
        BY <1>0, <2>1, <2>2, <3>2
      <4> QED
        BY <2>1, <3>2, <4>1 DEF Blank
    <3> QED
      BY <3>1, <3>2
  <2> QED
    BY <2>1, <2>2, OrphanKept
<1> QED
  BY <1>1, <1>2, <1>3, <1>4 DEF RemovalStep

LEMMA OrphanStart ==
    ASSUME NEW w \in Procs, Typed, OrphanInv(w), NEW p \in Projects, NEW snap, NEW full, NEW late,
           StartReindex(w, p, snap, full, late)
    PROVE  OrphanInv(w)'
<1>1. /\ lifecycle[p] # "absent" /\ work'[w].proj = p
      /\ UNCHANGED <<lifecycle, named, rooted, watch, files, blocks>>
      /\ runs' = runs \cup {[id |-> nextRun, proj |-> p, state |-> "indexing"]}
  BY DEF StartReindex, AddRun, Registered, Typed, TypeOK
<1>2. ASSUME NEW q \in Projects, lifecycle'[q] = "absent" PROVE Blank(q)'
  <2>1. Blank(q) /\ q # p
    BY <1>1, <1>2 DEF OrphanInv, NoOrphans, Blank
  <2> QED
    BY <1>1, <2>1 DEF Blank
<1> QED
  BY <1>1, <1>2, OrphanKept

LEMMA OrphanStep ==
    ASSUME NEW w, Procs = {w}, Typed, StatusInv(w), OrphanInv(w), [Next]_vars
    PROVE  OrphanInv(w)'
<1>0. /\ w \in Procs /\ work \in [Procs -> Work] /\ TypeOK
      /\ \A p \in Projects : lifecycle[p] = "absent" => Blank(p)
  BY DEF Typed, TypeOK, OrphanInv, NoOrphans, Blank
<1>1. CASE Step(w)
  BY <1>0, <1>1, OrphanRun, OrphanRemoval DEF Step
<1>2. CASE Throw(w) \/ Crash(w)
  <2>1. /\ UNCHANGED <<lifecycle, named, rooted, watch, files, blocks>> /\ work'[w].pc = "idle"
        /\ runs' = runs \/ runs' = SetRun(work[w].run, "error")
    BY <1>0, <1>2 DEF Throw, Crash, NoWork, db
  <2>2. ASSUME NEW p \in Projects, lifecycle'[p] = "absent" PROVE Blank(p)'
    <3>1. Blank(p)
      BY <1>0, <2>1, <2>2
    <3>2. \A r \in runs : r.proj # p
      BY <3>1 DEF Blank
    <3>3. \A r \in SetRun(work[w].run, "error") : r.proj # p
      BY <1>0, <3>2, SetRunProj
    <3> QED
      BY <2>1, <3>1, <3>2, <3>3 DEF Blank
  <2> QED
    BY <1>0, <2>1, <2>2, OrphanKept
<1>3. ASSUME UNCHANGED <<lifecycle, named, rooted, watch, files, blocks, runs>>,
             work'[w] = work[w] \/ (work'[w].proj \in Projects /\ lifecycle[work'[w].proj] # "absent")
      PROVE  OrphanInv(w)'
  BY <1>3 DEF OrphanInv, NoOrphans, Registered
<1>4. CASE EditSome \/ UNCHANGED vars
  BY <1>3, <1>4 DEF EditSome, Edit, vars, db
<1>5. CASE RunJob(w)
  <2>1. jobs[w] \in Seq(Job) /\ jobs[w] # <<>>
    BY <1>0, <1>5 DEF RunJob, TypeOK
  <2> DEFINE j == Head(jobs[w])
  <2>2. j.proj \in Projects
    <3>1. j \in Job
      BY <2>1
    <3> QED
      BY <3>1 DEF Job
  <2>3. StartReindex(w, j.proj, JobPaths(j), j.full, {}) \/ UNCHANGED <<db, work>>
    BY <1>5 DEF RunJob
  <2>4. CASE StartReindex(w, j.proj, JobPaths(j), j.full, {})
    <3> HIDE DEF j
    <3> QED
      BY <1>0, <2>2, <2>4, OrphanStart
  <2>5. CASE UNCHANGED <<db, work>>
    BY <1>3, <2>5 DEF db
  <2> QED
    BY <2>3, <2>4, <2>5
<1>6. CASE Request(w)
  <2>1. PICK p \in Projects :
         \/ \E root \in BOOLEAN : Register(w, p, root)
         \/ \E S \in SUBSET Files, full \in BOOLEAN :
              TriggerIndex(w, p, S, full) \/ ReindexDiff(w, p, S, full)
         \/ TrustedEvent(w, p)
         \/ \E S \in SUBSET Files, rev \in Unreads : CommitEvent(w, p, S, rev)
         \/ \E op \in {"deindex", "detached", "disabled"} : StartRemoval(w, p, op)
         \/ StartPurge(w, p)
    BY <1>6 DEF Request
  <2>2. ASSUME NEW root \in BOOLEAN, Register(w, p, root) PROVE OrphanInv(w)'
    <3>1. /\ work[w].pc = "idle" /\ work' = work
          /\ \A q \in Projects : lifecycle'[q] = IF q = p /\ lifecycle[q] = "absent" THEN "active" ELSE lifecycle[q]
          /\ \A q \in Projects \ {p} : named'[q] = named[q] /\ rooted'[q] = rooted[q]
          /\ UNCHANGED <<watch, files, blocks, runs>>
      BY <1>0, <1>6, <2>2 DEF Register, Request, Idle, TypeOK
    <3>2. ASSUME NEW q \in Projects, lifecycle'[q] = "absent" PROVE Blank(q)'
      <4>1. Blank(q) /\ q # p
        BY <1>0, <3>1, <3>2
      <4> QED
        BY <3>1, <4>1 DEF Blank
    <3> QED
      BY <1>0, <3>1, <3>2, OrphanKept
  <2>3. ASSUME NEW S, NEW full, TriggerIndex(w, p, S, full) PROVE OrphanInv(w)'
    BY <1>3, <2>3 DEF TriggerIndex, db
  <2>4. ASSUME NEW snap, NEW full, NEW late, StartReindex(w, p, snap, full, late) PROVE OrphanInv(w)'
    BY <1>0, <2>4, OrphanStart
  <2>5. ASSUME NEW op \in {"deindex", "detached", "disabled"}, StartRemoval(w, p, op) PROVE OrphanInv(w)'
    <3>1. work'[w].proj = p /\ lifecycle[p] # "absent" /\ UNCHANGED db
      BY <1>0, <2>5 DEF StartRemoval, NoWork, Registered
    <3> QED
      BY <1>3, <3>1 DEF db
  <2>6. ASSUME StartPurge(w, p) PROVE OrphanInv(w)'
    <3>1. work'[w].proj = p /\ lifecycle[p] # "absent" /\ UNCHANGED db
      BY <1>0, <2>6 DEF StartPurge, NoWork
    <3> QED
      BY <1>3, <3>1 DEF db
  <2> QED
    BY <2>1, <2>2, <2>3, <2>4, <2>5, <2>6 DEF ReindexDiff, TrustedEvent, CommitEvent
<1> QED
  BY <1>1, <1>2, <1>4, <1>5, <1>6, <1>0 DEF Next

(***************************************************************************)
(* With one process, however it fails and whatever jobs and events were on *)
(* their way, a project without a row in `projects` has nothing in any     *)
(* table of the index: an id purged and registered again starts afresh.    *)
(***************************************************************************)
THEOREM NothingIsOrphaned ==
    ASSUME NEW w, Procs = {w}
    PROVE  Spec => []NoOrphans
<1>1. Init => StatusInv(w) /\ OrphanInv(w)
  BY StatusInit, OrphanInit
<1>2. Typed /\ StatusInv(w) /\ OrphanInv(w) /\ [Next]_vars => StatusInv(w)' /\ OrphanInv(w)'
  BY StatusStep, OrphanStep
<1>3. OrphanInv(w) => NoOrphans
  BY DEF OrphanInv
<1> QED
  BY <1>1, <1>2, <1>3, TypeCorrect, PTL DEF Spec

-----------------------------------------------------------------------------
(***************************************************************************)
(* The deployment of SyncSpec.  Its steps are steps of Next.               *)
(***************************************************************************)
LEMMA SyncIsNext == SyncNext => Next
<1>1. ASSUME NEW w \in Procs, SyncRequest(w) PROVE Request(w)
  <2>1. /\ Idle(w) /\ requests < MaxRequests /\ requests' = requests + 1 /\ UNCHANGED <<tree, edits, faults>>
    BY <1>1 DEF SyncRequest
  <2>2. PICK p \in Projects : Register(w, p, TRUE) \/ TriggerIndex(w, p, {}, TRUE) \/ TrustedEvent(w, p)
    BY <1>1 DEF SyncRequest
  <2>3. \/ \E root \in BOOLEAN : Register(w, p, root)
        \/ \E S \in SUBSET Files, full \in BOOLEAN : TriggerIndex(w, p, S, full) \/ ReindexDiff(w, p, S, full)
        \/ TrustedEvent(w, p)
    <3>1. CASE Register(w, p, TRUE)
      BY <3>1
    <3>2. CASE TriggerIndex(w, p, {}, TRUE)
      <4>1. {} \in SUBSET Files /\ TRUE \in BOOLEAN
        OBVIOUS
      <4> QED BY <3>2, <4>1
    <3> QED BY <2>2, <3>1, <3>2
  <2> QED
    BY <2>1, <2>3 DEF Request
<1> QED
  BY <1>1 DEF SyncNext, Next

LEMMA SyncInit == ASSUME NEW w \in Procs, Init PROVE SyncInv(w)
BY DEF Init, SyncInv, NoWork, Shown, NoPaths, NoRow, SyncRun

\* A step that leaves the index and the run alone.
LEMMA SyncElsewhere ==
    ASSUME NEW w \in Procs, SyncInv(w), UNCHANGED <<watch, files, blocks>>, work'[w] = work[w],
           \A i \in 1..Len(jobs'[w]) : jobs'[w][i].full
    PROVE  SyncInv(w)'
BY DEF SyncInv, Shown, Indexed, SyncRun

\* What the run has skipped is what the snapshot and the index agree on.
LEMMA SyncStart ==
    ASSUME NEW w \in Procs, Typed, SyncInv(w), work[w].pc = "idle", NEW p \in Projects,
           NEW snap \in Snapshots, StartReindex(w, p, snap, TRUE, {}),
           \A i \in 1..Len(jobs'[w]) : jobs'[w][i].full
    PROVE  SyncInv(w)'
<1>1. /\ work'[w].pc = "next" /\ work'[w].proj = p /\ work'[w].snap = snap /\ work'[w].full = TRUE
      /\ work'[w].late = {} /\ work'[w].todo = Changed(p, snap) /\ work'[w].gone = Dropped(p, snap)
      /\ UNCHANGED <<watch, files, blocks>>
  BY DEF StartReindex, Typed, TypeOK
<1>2. \A q \in Projects : Shown(q) /\ Shown(q)'
  BY <1>1 DEF SyncInv, Shown, Indexed
<1>3. ASSUME NEW f \in Paths(snap) \ Changed(p, snap) PROVE Indexed(p, f, snap[f])
  <2>1. f \in Files /\ watch[p][f] = snap[f] /\ watch[p][f] # None
    BY <1>3 DEF Paths, Changed
  <2> QED
    BY <1>2, <2>1 DEF Shown
<1>4. \A f \in Files : files[p][f].active /\ snap[f] = None => f \in Dropped(p, snap)
  BY <1>2 DEF Shown, Dropped, Paths
<1>5. Dropped(p, snap) \cap Paths(snap) = {}
  BY DEF Dropped, Paths
<1>6. SyncRun(w)'
  BY <1>1, <1>3, <1>4, <1>5 DEF SyncRun, Indexed
<1> QED
  BY <1>1, <1>2, <1>6 DEF SyncInv, ReindexPcs

\* The new state's SyncRun, said of the run as it was.
LEMMA SyncRunKept ==
    ASSUME NEW w \in Procs, SyncRun(w), SameRun(w), work'[w].gone \subseteq work[w].gone,
           \A g \in Paths(work[w].snap) \ work'[w].todo :
              /\ files'[work[w].proj][g] = [sum |-> work[w].snap[g], active |-> TRUE]
              /\ blocks'[work[w].proj][g] = Fill(work[w].snap[g]),
           \A g \in Files : files'[work[w].proj][g].active /\ work[w].snap[g] = None => g \in work'[w].gone
    PROVE  SyncRun(w)'
BY DEF SyncRun, SameRun, Indexed

LEMMA SyncReindex ==
    ASSUME NEW w \in Procs, Typed, HonestInv(w), SyncInv(w), ReindexStep(w), UNCHANGED jobs
    PROVE  SyncInv(w)'
<1> DEFINE p == work[w].proj
           snap == work[w].snap
           file == work[w].file
<1>0. /\ RunInv(w) /\ SyncInv(w)
      /\ files \in [Projects -> [Files -> Row]]
      /\ snap \in Snapshots
  BY WorkFacts DEF HonestInv, Work
<1>r. work[w].pc \in {"next", "stale", "insert", "tombed"} =>
        /\ SyncRun(w)
        /\ \A g \in Paths(snap) \ work[w].todo :
              g \in Files /\ files[p][g] = [sum |-> snap[g], active |-> TRUE] /\ blocks[p][g] = Fill(snap[g])
        /\ \A g \in Files : files[p][g].active /\ snap[g] = None => g \in work[w].gone
        /\ work[w].gone \cap Paths(snap) = {}
  BY DEF SyncInv, SyncRun, Indexed, Paths
<1>j. \A i \in 1..Len(jobs'[w]) : jobs'[w][i].full
  BY DEF SyncInv
\* Of the other projects nothing changes.
<1>o. ASSUME work[w].pc # "idle", UNCHANGED watch,
             \A q \in Projects \ {p}, g \in Files : files'[q][g] = files[q][g] /\ blocks'[q][g] = blocks[q][g]
      PROVE  \A q \in Projects \ {p} : Shown(q)'
  BY <1>o DEF SyncInv, Shown, Indexed
<1>1. ASSUME NEW f \in Files, UpsertFile(w, f) PROVE SyncInv(w)'
  <2>1. /\ work[w].pc = "next" /\ f \in work[w].todo
        /\ SameRun(w) /\ work'[w].pc = "stale"
        /\ work'[w].todo = work[w].todo /\ work'[w].gone = work[w].gone
    BY <1>1, UpsertFileDoes
  <2>2. \A q \in Projects, g \in Files : files'[q][g] =
                IF q = work[w].proj /\ g = f THEN [sum |-> work[w].snap[f], active |-> TRUE] ELSE files[q][g]
    BY <1>1, UpsertFileDoes
  <2>3. UNCHANGED <<watch, blocks>> /\ p \in Projects /\ f \in Paths(snap)
    BY <1>1, UpsertFileDoes DEF Typed, BusyOK
  <2>4. SyncRun(w)'
    <3>1. \A g \in Paths(snap) \ work[w].todo : g \in Files /\ g # f
      BY <2>1 DEF Paths
    <3>2. \A g \in Paths(snap) \ work[w].todo : files'[p][g] = files[p][g] /\ blocks'[p][g] = blocks[p][g]
      BY <2>2, <2>3, <3>1
    <3>3. ASSUME NEW g \in Files, files'[p][g].active, snap[g] = None PROVE g \in work[w].gone
      <4>1. g # f
        BY <2>3, <3>3 DEF Paths
      <4> QED
        BY <1>r, <2>1, <2>2, <2>3, <3>3, <4>1
    <3> QED
      BY <1>r, <2>1, <3>2, <3>3, SyncRunKept
  <2>5. \A q \in Projects \ {p} : Shown(q)'
    BY <1>o, <2>1, <2>2, <2>3
  <2> QED
    BY <1>0, <1>j, <2>1, <2>4, <2>5 DEF SyncInv, SameRun, ReindexPcs
<1>2. ASSUME NEW f \in Files, TombFile(w, f) PROVE SyncInv(w)'
  <2>1. /\ work[w].pc \in {"next", "late"} /\ f \in work[w].gone /\ p \in Projects
    BY <1>2, TombFileDoes
  <2>2. work[w].pc = "next"
    BY <1>0, <2>1 DEF SyncInv
  <2>3. /\ SameRun(w) /\ work'[w].pc = "tombed" /\ work'[w].todo = work[w].todo /\ work'[w].gone = work[w].gone
        /\ UNCHANGED <<watch, blocks>>
    BY <1>2, <2>2, TombFileDoes
  <2>4. \A q \in Projects, g \in Files :
                files'[q][g] = IF q = work[w].proj /\ g = f THEN Tombed(files[q][g]) ELSE files[q][g]
    BY <1>2, TombFileDoes
  <2>5. SyncRun(w)'
    <3>1. \A g \in Paths(snap) \ work[w].todo : g \in Files /\ g # f
      BY <1>r, <2>1, <2>2
    <3>2. \A g \in Paths(snap) \ work[w].todo : files'[p][g] = files[p][g] /\ blocks'[p][g] = blocks[p][g]
      BY <2>1, <2>3, <2>4, <3>1
    <3>3. \A g \in Files : files'[p][g].active => files[p][g].active
      BY <1>0, <2>1, <2>4, FillFacts
    <3>4. \A g \in Files : files'[p][g].active /\ snap[g] = None => g \in work[w].gone
      BY <1>r, <2>2, <3>3
    <3> QED
      BY <1>r, <2>2, <2>3, <3>2, <3>4, SyncRunKept
  <2>6. \A q \in Projects \ {p} : Shown(q)'
    BY <1>o, <2>2, <2>3, <2>4
  <2> QED
    BY <1>0, <1>j, <2>2, <2>3, <2>5, <2>6 DEF SyncInv, SameRun, ReindexPcs
<1>3. CASE StaleBlocks(w)
  <2>1. /\ work[w].pc = "stale" /\ p \in Projects /\ SameRun(w) /\ work'[w].pc = "insert"
        /\ work'[w].todo = work[w].todo /\ work'[w].gone = work[w].gone /\ UNCHANGED <<watch, files>>
        /\ file \in work[w].todo
    BY <1>3, StaleBlocksDoes, WorkFacts
  <2>2. \A q \in Projects, g \in Files : blocks'[q][g] =
                IF q = work[w].proj /\ g = work[w].file THEN NoBlocks ELSE blocks[q][g]
    BY <1>3, StaleBlocksDoes
  <2>3. SyncRun(w)'
    <3>1. \A g \in Paths(snap) \ work[w].todo : g \in Files /\ g # file
      BY <2>1 DEF Paths
    <3>2. \A g \in Paths(snap) \ work[w].todo : files'[p][g] = files[p][g] /\ blocks'[p][g] = blocks[p][g]
      BY <2>1, <2>2, <3>1
    <3>3. \A g \in Files : files'[p][g] = files[p][g]
      BY <2>1
    <3> QED
      BY <1>r, <2>1, <3>2, <3>3, SyncRunKept
  <2>4. \A q \in Projects \ {p} : Shown(q)'
    BY <1>o, <2>1, <2>2
  <2> QED
    BY <1>0, <1>j, <2>1, <2>3, <2>4 DEF SyncInv, SameRun, ReindexPcs
<1>4. CASE InsertBlocks(w)
  <2>1. /\ work[w].pc = "insert" /\ p \in Projects /\ SameRun(w) /\ work'[w].pc = "next"
        /\ work'[w].todo = work[w].todo \ {file} /\ work'[w].gone = work[w].gone /\ UNCHANGED <<watch, files>>
    BY <1>4, InsertBlocksDoes
  <2>2. \A q \in Projects, g \in Files : blocks'[q][g] =
                IF q = work[w].proj /\ g = work[w].file THEN Insert(blocks[q][g], work[w].snap[g]) ELSE blocks[q][g]
    BY <1>4, InsertBlocksDoes
  <2>3. /\ files[p][file] = [sum |-> snap[file], active |-> TRUE] /\ blocks[p][file] = NoBlocks
        /\ file \in Files
    BY <1>0, <2>1, WorkFacts DEF RunInv
  <2>4. files'[p][file] = [sum |-> snap[file], active |-> TRUE] /\ blocks'[p][file] = Fill(snap[file])
    BY <2>1, <2>2, <2>3, FillFacts
  <2>5. SyncRun(w)'
    <3>1. \A g \in Paths(snap) \ (work[w].todo \ {file}) : g \in Files
      BY DEF Paths
    <3>2. ASSUME NEW g \in Paths(snap) \ (work[w].todo \ {file})
          PROVE  files'[p][g] = [sum |-> snap[g], active |-> TRUE] /\ blocks'[p][g] = Fill(snap[g])
      <4>1. CASE g = file
        BY <2>4, <4>1
      <4>2. CASE g # file
        <5>1. g \in Paths(snap) \ work[w].todo /\ g \in Files
          BY <3>1, <4>2
        <5>2. files'[p][g] = files[p][g] /\ blocks'[p][g] = blocks[p][g]
          BY <2>1, <2>2, <4>2, <5>1
        <5> QED
          BY <1>r, <2>1, <5>1, <5>2
      <4> QED
        BY <4>1, <4>2
    <3>3. \A g \in Files : files'[p][g] = files[p][g]
      BY <2>1
    <3> QED
      BY <1>r, <2>1, <3>2, <3>3, SyncRunKept
  <2>6. \A q \in Projects \ {p} : Shown(q)'
    BY <1>o, <2>1, <2>2
  <2> QED
    BY <1>0, <1>j, <2>1, <2>5, <2>6 DEF SyncInv, SameRun, ReindexPcs
<1>5. CASE TombBlocks(w)
  <2>1. work[w].pc = "tombed" /\ file \in work[w].gone /\ file \in Files
    BY <1>0, <1>5, TombBlocksDoes, WorkFacts DEF SyncInv, ReindexPcs
  <2>2. /\ p \in Projects /\ SameRun(w) /\ work'[w].pc = "next"
        /\ work'[w].todo = work[w].todo /\ work'[w].gone = work[w].gone \ {file} /\ UNCHANGED <<watch, files>>
    BY <1>5, <2>1, TombBlocksDoes
  <2>3. \A q \in Projects, g \in Files : blocks'[q][g] =
                IF q = work[w].proj /\ g = work[w].file THEN NoBlocks ELSE blocks[q][g]
    BY <1>5, TombBlocksDoes
  <2>4. ~files[p][file].active
    BY <1>0, <2>1 DEF RunInv
  <2>5. SyncRun(w)'
    <3>1. \A g \in Paths(snap) \ work[w].todo : g \in Files /\ g # file
      BY <1>r, <2>1
    <3>2. \A g \in Paths(snap) \ work[w].todo : files'[p][g] = files[p][g] /\ blocks'[p][g] = blocks[p][g]
      BY <2>2, <2>3, <3>1
    <3>3. \A g \in Files : files'[p][g].active /\ snap[g] = None => g \in work[w].gone \ {file}
      BY <1>r, <2>1, <2>2, <2>4
    <3> QED
      BY <1>r, <2>1, <2>2, <3>2, <3>3, SyncRunKept
  <2>6. \A q \in Projects \ {p} : Shown(q)'
    BY <1>o, <2>1, <2>2, <2>3
  <2> QED
    BY <1>0, <1>j, <2>1, <2>2, <2>5, <2>6 DEF SyncInv, SameRun, ReindexPcs
<1>6. CASE WriteWatch(w)
  <2>1. /\ work[w].pc = "next" /\ work[w].todo = {} /\ work[w].gone = {} /\ p \in Projects
        /\ SameRun(w) /\ work'[w].pc = "activate"
        /\ \A q \in Projects : watch'[q] = IF q = work[w].proj THEN work[w].snap ELSE watch[q]
        /\ UNCHANGED <<files, blocks>>
    BY <1>6, WriteWatchDoes
  <2>2. Shown(p)'
    <3>1. \A f \in Files : snap[f] # None =>
             files[p][f] = [sum |-> snap[f], active |-> TRUE] /\ blocks[p][f] = Fill(snap[f])
      BY <1>r, <2>1 DEF Paths
    <3>2. \A f \in Files : files[p][f].active => snap[f] # None
      BY <1>r, <2>1
    <3>3. watch'[p] = snap /\ files'[p] = files[p] /\ blocks'[p] = blocks[p] /\ work'[w].proj = p
      BY <2>1 DEF SameRun
    <3> QED
      BY <3>1, <3>2, <3>3 DEF Shown, Indexed
  <2>3. \A q \in Projects \ {p} : Shown(q)'
    BY <1>0, <2>1 DEF SyncInv, Shown, Indexed
  <2> QED
    BY <1>0, <1>j, <2>1, <2>2, <2>3 DEF SyncInv, SameRun, ReindexPcs
<1>7. CASE Activate(w) \/ FinishRun(w) \/ Reactivate(w) \/ EndReindex(w)
  <2>1. /\ \/ work[w].pc = "late" /\ work'[w] = NoWork
           \/ work[w].pc = "activate" /\ SameRun(w) /\ work'[w].pc = "finish"
           \/ work[w].pc = "finish" /\ SameRun(w) /\ work'[w].pc = "reactivate"
           \/ work[w].pc = "reactivate" /\ SameRun(w) /\ work'[w].pc = "late"
                /\ work'[w].gone = work[w].late
        /\ UNCHANGED <<watch, files, blocks>>
    BY <1>7, RunEndDoes
  <2>2. \A q \in Projects : Shown(q)'
    BY <1>0, <2>1 DEF SyncInv, Shown, Indexed
  <2> QED
    BY <1>0, <1>j, <2>1, <2>2 DEF SyncInv, SameRun, ReindexPcs, NoWork
<1> QED
  BY <1>1, <1>2, <1>3, <1>4, <1>5, <1>6, <1>7 DEF ReindexStep

LEMMA SyncStep ==
    ASSUME NEW w, Procs = {w}, Typed, HonestInv(w), SyncInv(w), [SyncNext]_vars
    PROVE  SyncInv(w)'
<1>0. w \in Procs /\ jobs[w] \in Seq(Job) /\ jobs \in [Procs -> Seq(Job)]
  BY DEF Typed, TypeOK
<1>j. \A i \in 1..Len(jobs[w]) : jobs[w][i].full
  BY DEF SyncInv
<1>1. CASE EditSome \/ UNCHANGED vars
  <2>1. UNCHANGED <<watch, files, blocks, work, jobs>>
    BY <1>1 DEF EditSome, Edit, vars, db
  <2> QED
    BY <1>0, <1>j, <2>1, SyncElsewhere
<1>2. CASE Step(w)
  <2>1. work[w].pc \in {"idle", "late"} \cup ReindexPcs
    BY DEF SyncInv
  <2>2. ~RemovalStep(w)
    BY <2>1 DEF RemovalStep, DeindexFiles, DeindexBlocks, DeindexProject, Unalias, Settle, Purge, ReindexPcs
  <2> QED
    BY <1>0, <1>2, <2>2, SyncReindex DEF Step
<1>3. CASE SyncRequest(w)
  <2>1. PICK p \in Projects : Register(w, p, TRUE) \/ TriggerIndex(w, p, {}, TRUE) \/ TrustedEvent(w, p)
    BY <1>3 DEF SyncRequest
  <2>2. CASE Register(w, p, TRUE)
    BY <1>0, <1>j, <2>2, SyncElsewhere DEF Register
  <2>3. CASE TriggerIndex(w, p, {}, TRUE)
    <3>1. UNCHANGED <<watch, files, blocks, work>>
      BY <2>3 DEF TriggerIndex, db
    <3>2. jobs'[w] = Append(jobs[w], [proj |-> p, snap |-> ReadTree(p, {}), full |-> TRUE])
      BY <1>0, <2>3 DEF TriggerIndex
    <3>3. \A i \in 1..Len(jobs'[w]) : jobs'[w][i].full
      BY <1>0, <1>j, <3>2
    <3> QED
      BY <1>0, <3>1, <3>3, SyncElsewhere
  <2>4. CASE TrustedEvent(w, p)
    <3>1. tree[p] \in Snapshots
      BY ReadTreeType DEF Typed
    <3>2. StartReindex(w, p, tree[p], TRUE, {}) /\ jobs' = jobs /\ work[w].pc = "idle"
      BY <1>3, <2>4 DEF TrustedEvent, SyncRequest, Idle
    <3> QED
      BY <1>0, <1>j, <3>1, <3>2, SyncStart
  <2> QED
    BY <2>1, <2>2, <2>3, <2>4
<1>4. CASE RunJob(w)
  <2> DEFINE j == Head(jobs[w])
  <2>1. jobs[w] # <<>> /\ work[w].pc = "idle" /\ jobs'[w] = Tail(jobs[w])
    BY <1>0, <1>4 DEF RunJob, Idle
  <2>0. j = jobs[w][1] /\ 1 \in 1..Len(jobs[w])
    BY <1>0, <2>1
  <2>2. j \in Job /\ j.full = TRUE
    <3>1. j \in Job /\ j.full
      BY <1>0, <1>j, <2>0
    <3> QED
      BY <3>1 DEF Job
  <2>3. \A i \in 1..Len(jobs'[w]) : jobs'[w][i].full
    BY <1>0, <1>j, <2>1
  <2>4. j.proj \in Projects /\ JobPaths(j) \in Snapshots
    BY <2>2, NoWorkType, ReadTreeType DEF Job, JobPaths, Typed
  <2>5. CASE StartReindex(w, j.proj, JobPaths(j), j.full, {})
    <3> HIDE DEF j
    <3> QED
      BY <1>0, <2>1, <2>2, <2>3, <2>4, <2>5, SyncStart
  <2>6. CASE UNCHANGED <<db, work>>
    BY <1>0, <2>3, <2>6, SyncElsewhere DEF db
  <2> QED
    BY <1>4, <2>5, <2>6 DEF RunJob
<1> QED
  BY <1>0, <1>1, <1>2, <1>3, <1>4 DEF SyncNext

LEMMA SyncInvariant ==
    ASSUME NEW w, Procs = {w}
    PROVE  SyncSpec => []SyncInv(w)
<1>1. Init => Typed /\ HonestInv(w) /\ SyncInv(w)
  BY TypedInit, HonestInit, SyncInit
<1>2. Typed /\ HonestInv(w) /\ SyncInv(w) /\ [SyncNext]_vars => Typed' /\ HonestInv(w)' /\ SyncInv(w)'
  <2>1. [SyncNext]_vars => [Next]_vars
    BY SyncIsNext
  <2> QED
    BY <2>1, TypedStep, HonestStep, SyncStep
<1> QED
  BY <1>1, <1>2, PTL DEF SyncSpec

(***************************************************************************)
(* In a deployment where every run is a full snapshot, of a project nobody *)
(* works on every live path is in the watch snapshot: the run that finds   *)
(* the file gone will tombstone it.                                        *)
(***************************************************************************)
THEOREM LivePathsAreTracked ==
    ASSUME NEW w, Procs = {w}
    PROVE  SyncSpec => []Tracked
<1>1. SyncInv(w) => Tracked
  BY DEF SyncInv, Shown, Tracked, Quiet
<1> QED
  BY <1>1, SyncInvariant, PTL

(***************************************************************************)
(* In that deployment a run that has ended has left exactly its content    *)
(* for every path it was given, also for those it skipped as unchanged.    *)
(***************************************************************************)
THEOREM RunsIndexTheirPaths ==
    ASSUME NEW w, Procs = {w}
    PROVE  SyncSpec => []RunIndexesItsPaths
<1>1. Typed /\ SyncInv(w) => RunIndexesItsPaths
  <2> SUFFICES ASSUME Typed, SyncInv(w), work[w].pc = "reactivate", NEW f \in Paths(work[w].snap)
               PROVE  Indexed(work[w].proj, f, work[w].snap[f])
    BY DEF RunIndexesItsPaths
  <2>1. work[w].proj \in Projects /\ watch[work[w].proj] = work[w].snap /\ Shown(work[w].proj)
    BY DEF SyncInv, Typed, BusyOK
  <2> QED
    BY <2>1 DEF Shown, Paths
<1>2. SyncSpec => Spec
  BY SyncIsNext, PTL DEF SyncSpec, Spec
<1> QED
  BY <1>1, <1>2, SyncInvariant, TypeCorrect, PTL
=============================================================================
