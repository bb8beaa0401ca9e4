---------------------------- MODULE ProjectIndex ----------------------------
(***************************************************************************)
(* The project index of SlotDB (src/src/db/slot-db.ts) as the project      *)
(* handlers of DefaultMemoryUseCasePort drive it.                          *)
(*                                                                         *)
(* Several processes (the gateway plugin, the MCP server and one `asm      *)
(* project-event` per git hook) open the same SQLite file.  Inside one     *)
(* process a handler is synchronous; between processes every statement     *)
(* commits on its own, for reindexProjectByDiff, deindexProject,           *)
(* detachProject and unregisterProject open no transaction.  So a handler  *)
(* is a worker record whose pc names its next statement, and a crash or a  *)
(* thrown error leaves the statements already run in the database.         *)
(*                                                                         *)
(* Data is reduced to what the properties tell apart.  A file's content is *)
(* its checksum; chunk_registry and symbol_registry are one table of       *)
(* blocks, keyed (as buildChunkId and buildSymbolId key them) by project,  *)
(* file and place in the file, never by content.                           *)
(***************************************************************************)
EXTENDS Naturals, Sequences, FiniteSets

CONSTANTS
    Projects,       \* project ids of one scope
    Files,          \* relative paths
    Contents,       \* readable contents, standing for their sha1 checksums
    Unreads,        \* the checksums "event:<path>:<rev>" of a file that cannot be read, one per revision
    Blocks,         \* places in a file that extractSemanticBlocks can report
    BlocksOf,       \* the places each content has
    None,           \* no row, no key, no file
    Procs,          \* processes that share the database
    MaxRequests,    \* bound on handler calls
    MaxEdits,       \* bound on edits of the working tree
    MaxFaults       \* bound on crashes and thrown errors

ASSUME NoneAssumption == None \notin Contents \cup Unreads \cup Files \cup Projects
ASSUME UnreadAssumption == Unreads \cap Contents = {}
ASSUME BlocksOfAssumption == BlocksOf \in [Contents -> SUBSET Blocks]
ASSUME BoundsAssumption == MaxRequests \in Nat /\ MaxEdits \in Nat /\ MaxFaults \in Nat

VARIABLES
    lifecycle,      \* projects.lifecycle_status, "absent" when there is no row
    named,          \* whether project_aliases holds an alias of the project
    rooted,         \* whether projects.repo_root is set
    watch,          \* project_index_watch_state.last_checksum_snapshot
    files,          \* file_index_state: checksum and active flag of each path
    blocks,         \* the active rows of chunk_registry and symbol_registry
    edges,          \* the content whose code-graph relations cite the path as their evidence
    runs,           \* index_runs
    nextRun,        \* source of run ids (randomUUID)
    tree,           \* the working tree of each project, as `git ls-files` and readFile see it
    jobs,           \* the reindex jobs each process has handed to setTimeout
    work,           \* what each process is executing
    requests, edits, faults   \* what the bounds count

db == <<lifecycle, named, rooted, watch, files, blocks, edges, runs, nextRun>>
counters == <<requests, edits, faults>>
vars == <<db, tree, jobs, work, counters>>

Sums == Contents \cup Unreads
Lifecycles == {"absent", "active", "deindexed", "detached", "disabled"}
Snapshots == [Files -> Sums \cup {None}]
NoPaths == [f \in Files |-> None]
Paths(snap) == {f \in Files : snap[f] # None}

(***************************************************************************)
(* The blocks a content is cut into; content that cannot be read has none. *)
(***************************************************************************)
Cut(c) == IF c \in Unreads THEN {} ELSE BlocksOf[c]
NoBlocks == [b \in Blocks |-> None]

Insert(old, c) == [b \in Blocks |-> IF b \in Cut(c) THEN c ELSE old[b]]

Fill(c) == Insert(NoBlocks, c)

Job == [proj : Projects, snap : Snapshots, full : BOOLEAN]
Row == [sum : Sums \cup {None}, active : BOOLEAN]
NoRow == [sum |-> None, active |-> FALSE]
Tombed(row) == [row EXCEPT !.active = FALSE]
Run == [id : Nat, proj : Projects, state : {"indexing", "indexed", "error"}]

ReindexPcs == {"next", "stale", "insert", "tombed", "activate", "finish", "reactivate"}
LatePcs == {"late", "lateTombed"}
RemovalPcs == {"deindexFiles", "deindexBlocks", "deindexProject", "unalias", "settle"}
Pcs == {"idle", "purge"} \cup ReindexPcs \cup LatePcs \cup RemovalPcs

Work == [pc : Pcs, op : {"none", "reindex", "deindex", "detached", "disabled", "purge"},
         proj : Projects \cup {None}, run : Nat, snap : Snapshots, full : BOOLEAN,
         todo : SUBSET Files, gone : SUBSET Files, late : SUBSET Files,
         file : Files \cup {None}]

NoWork == [pc |-> "idle", op |-> "none", proj |-> None, run |-> 0, snap |-> NoPaths,
           full |-> FALSE, todo |-> {}, gone |-> {}, late |-> {}, file |-> None]

Idle(w) == work[w].pc = "idle"

TypeOK ==
    /\ lifecycle \in [Projects -> Lifecycles]
    /\ named \in [Projects -> BOOLEAN]
    /\ rooted \in [Projects -> BOOLEAN]
    /\ watch \in [Projects -> Snapshots]
    /\ files \in [Projects -> [Files -> Row]]
    /\ blocks \in [Projects -> [Files -> [Blocks -> Contents \cup {None}]]]
    /\ edges \in [Projects -> [Files -> Contents \cup {None}]]
    /\ runs \subseteq Run
    /\ nextRun \in Nat
    /\ tree \in [Projects -> [Files -> Contents \cup {None}]]
    /\ jobs \in [Procs -> Seq(Job)]
    /\ work \in [Procs -> Work]
    /\ requests \in 0..MaxRequests /\ edits \in 0..MaxEdits /\ faults \in 0..MaxFaults

Init ==
    /\ lifecycle = [p \in Projects |-> "absent"]
    /\ named = [p \in Projects |-> FALSE]
    /\ rooted = [p \in Projects |-> FALSE]
    /\ watch = [p \in Projects |-> NoPaths]
    /\ files = [p \in Projects |-> [f \in Files |-> NoRow]]
    /\ blocks = [p \in Projects |-> [f \in Files |-> NoBlocks]]
    /\ edges = [p \in Projects |-> [f \in Files |-> None]]
    /\ runs = {}
    /\ nextRun = 1
    /\ tree \in [Projects -> [Files -> Contents \cup {None}]]
    /\ jobs = [w \in Procs |-> <<>>]
    /\ work = [w \in Procs |-> NoWork]
    /\ requests = 0 /\ edits = 0 /\ faults = 0

-----------------------------------------------------------------------------
(***************************************************************************)
(* What a run does is settled when it starts: the paths whose checksum     *)
(* differs from the watch snapshot, and, for a full snapshot only, the     *)
(* paths of the watch snapshot that the run was not given.                 *)
(***************************************************************************)
\* Wrong: a path seen before is taken for unchanged.
ChangedIfNew(p, snap) == {f \in Paths(snap) : watch[p][f] = None}

Changed(p, snap) == {f \in Paths(snap) : watch[p][f] # snap[f]}

\* Wrong: a full snapshot drops nothing.
DroppedNothing(p, snap) == {}

Dropped(p, snap) == {f \in Paths(watch[p]) : snap[f] = None}

AddRun(p, state) ==
    /\ runs' = runs \cup {[id |-> nextRun, proj |-> p, state |-> state]}
    /\ nextRun' = nextRun + 1

SetRun(id, state) == {IF r.id = id THEN [r EXCEPT !.state = state] ELSE r : r \in runs}

\* Wrong: nobody looks the project up.
RegisteredUnchecked(p) == TRUE

\* getProjectById finds a row
Registered(p) == lifecycle[p] # "absent"

(***************************************************************************)
(* What the index loses with a path and gains with a content.  The graph   *)
(* is populated for readable content only; the relations it replaces are   *)
(* found by the path alone, so those of the same path in another project   *)
(* of the scope go as well.                                                *)
(***************************************************************************)
\* Wrong: the rows of earlier blocks stay.
StaleNothing(p, f) == blocks

Stale(p, f) == [blocks EXCEPT ![p][f] = NoBlocks]

Relate(p, f, c) ==
    IF c \in Unreads THEN edges
    ELSE [q \in Projects |-> [edges[q] EXCEPT ![f] = IF q = p THEN c ELSE None]]

(***************************************************************************)
(* reindexProjectByDiff, up to and with insertIndexRun.  `late` holds the  *)
(* paths handleProjectIndexEvent marks deleted after the run.              *)
(***************************************************************************)
StartReindex(w, p, snap, full, late) ==
    /\ Registered(p)
    /\ work' = [work EXCEPT ![w] =
                  [pc |-> "next", op |-> "reindex", proj |-> p, run |-> nextRun, snap |-> snap,
                   full |-> full, todo |-> Changed(p, snap),
                   gone |-> IF full THEN Dropped(p, snap) ELSE {},
                   late |-> late, file |-> None]]
    /\ AddRun(p, "indexing")
    /\ UNCHANGED <<lifecycle, named, rooted, watch, files, blocks, edges>>

\* upsertFileIndexState of the next changed path
UpsertFile(w, f) ==
    /\ work[w].pc = "next" /\ f \in work[w].todo
    /\ LET p == work[w].proj IN
         files' = [files EXCEPT ![p][f] = [sum |-> work[w].snap[f], active |-> TRUE]]
    /\ work' = [work EXCEPT ![w].pc = "stale", ![w].file = f]
    /\ UNCHANGED <<lifecycle, named, rooted, watch, blocks, edges, runs, nextRun>>

\* markProjectChunksByFileDeleted and markProjectSymbolsByFileDeleted of that path
StaleBlocks(w) ==
    /\ work[w].pc = "stale"
    /\ blocks' = Stale(work[w].proj, work[w].file)
    /\ work' = [work EXCEPT ![w].pc = "insert"]
    /\ UNCHANGED <<lifecycle, named, rooted, watch, files, edges, runs, nextRun>>

\* upsertChunkRegistry, upsertSymbolRegistry and populateUniversalCodeGraphForFile
InsertBlocks(w) ==
    /\ work[w].pc = "insert"
    /\ LET f == work[w].file IN
         /\ blocks' = [blocks EXCEPT ![work[w].proj][f] = Insert(@, work[w].snap[f])]
         /\ edges' = Relate(work[w].proj, f, work[w].snap[f])
         /\ work' = [work EXCEPT ![w].pc = "next", ![w].todo = @ \ {f}, ![w].file = None]
    /\ UNCHANGED <<lifecycle, named, rooted, watch, files, runs, nextRun>>

\* markFileIndexStateDeleted, of a path the run dropped or of one the event deleted
TombFile(w, f) ==
    /\ \/ work[w].pc = "next" /\ work[w].todo = {}
       \/ work[w].pc = "late"
    /\ f \in work[w].gone
    /\ files' = [files EXCEPT ![work[w].proj][f] = Tombed(@)]
    /\ work' = [work EXCEPT ![w].pc = IF @ = "late" THEN "lateTombed" ELSE "tombed",
                            ![w].file = f]
    /\ UNCHANGED <<lifecycle, named, rooted, watch, blocks, edges, runs, nextRun>>

TombBlocks(w) ==
    /\ work[w].pc \in {"tombed", "lateTombed"}
    /\ LET f == work[w].file IN
         /\ blocks' = Stale(work[w].proj, f)
         /\ work' = [work EXCEPT ![w].pc = IF @ = "lateTombed" THEN "late" ELSE "next",
                                 ![w].gone = @ \ {f}, ![w].file = None]
    /\ UNCHANGED <<lifecycle, named, rooted, watch, files, edges, runs, nextRun>>

\* Wrong: the changed paths need not be through.
RemainingDropped(w) == work[w].gone

\* The paths of the two loops that are still to do.
Remaining(w) == work[w].todo \cup work[w].gone

\* upsertProjectIndexWatchState: the snapshot becomes exactly the paths of this run
WriteWatch(w) ==
    /\ work[w].pc = "next" /\ Remaining(w) = {}
    /\ watch' = [watch EXCEPT ![work[w].proj] = work[w].snap]
    /\ work' = [work EXCEPT ![w].pc = "activate"]
    /\ UNCHANGED <<lifecycle, named, rooted, files, blocks, edges, runs, nextRun>>

\* UPDATE projects SET lifecycle_status = 'active' ... AND lifecycle_status = 'deindexed'
Reactivated(p) == IF lifecycle[p] = "deindexed" THEN "active" ELSE lifecycle[p]

\* the first of the two identical UPDATEs
Activate(w) ==
    /\ work[w].pc = "activate"
    /\ lifecycle' = [lifecycle EXCEPT ![work[w].proj] = Reactivated(work[w].proj)]
    /\ work' = [work EXCEPT ![w].pc = "finish"]
    /\ UNCHANGED <<named, rooted, watch, files, blocks, edges, runs, nextRun>>

\* finishIndexRun
FinishRun(w) ==
    /\ work[w].pc = "finish"
    /\ runs' = SetRun(work[w].run, "indexed")
    /\ work' = [work EXCEPT ![w].pc = "reactivate"]
    /\ UNCHANGED <<lifecycle, named, rooted, watch, files, blocks, edges, nextRun>>

\* the second UPDATE; the event handler then turns to the deleted paths
Reactivate(w) ==
    /\ work[w].pc = "reactivate"
    /\ lifecycle' = [lifecycle EXCEPT ![work[w].proj] = Reactivated(work[w].proj)]
    /\ work' = [work EXCEPT ![w].pc = "late", ![w].gone = work[w].late]
    /\ UNCHANGED <<named, rooted, watch, files, blocks, edges, runs, nextRun>>

EndReindex(w) ==
    /\ work[w].pc = "late" /\ work[w].gone = {}
    /\ work' = [work EXCEPT ![w] = NoWork]
    /\ UNCHANGED db

ReindexStep(w) ==
    \/ \E f \in Files : UpsertFile(w, f) \/ TombFile(w, f)
    \/ StaleBlocks(w) \/ InsertBlocks(w) \/ TombBlocks(w)
    \/ WriteWatch(w) \/ Activate(w) \/ FinishRun(w) \/ Reactivate(w) \/ EndReindex(w)

-----------------------------------------------------------------------------
(***************************************************************************)
(* deindexProject, and detachProject and unregisterProject, which deindex  *)
(* first unless the project already is.  op is "deindex" or the lifecycle  *)
(* status the handler ends in.                                             *)
(***************************************************************************)
StartRemoval(w, p, op) ==
    /\ Registered(p)
    /\ work' = [work EXCEPT ![w] =
                  [NoWork EXCEPT !.op = op, !.proj = p,
                     !.pc = IF op # "deindex" /\ lifecycle[p] = "deindexed"
                              THEN "unalias" ELSE "deindexFiles"]]
    /\ UNCHANGED db

DeindexFiles(w) ==
    /\ work[w].pc = "deindexFiles"
    /\ files' = [files EXCEPT ![work[w].proj] =
                   [f \in Files |-> Tombed(@[f])]]
    /\ work' = [work EXCEPT ![w].pc = "deindexBlocks"]
    /\ UNCHANGED <<lifecycle, named, rooted, watch, blocks, edges, runs, nextRun>>

DeindexBlocks(w) ==
    /\ work[w].pc = "deindexBlocks"
    /\ blocks' = [blocks EXCEPT ![work[w].proj] = [f \in Files |-> NoBlocks]]
    /\ work' = [work EXCEPT ![w].pc = "deindexProject"]
    /\ UNCHANGED <<lifecycle, named, rooted, watch, files, edges, runs, nextRun>>

\* An UPDATE of projects touches nothing once the row is purged.
SetLifecycle(p, status) ==
    lifecycle' = [lifecycle EXCEPT ![p] = IF @ = "absent" THEN @ ELSE status]

\* the lifecycle UPDATE and the audit row deindexProject adds to index_runs
DeindexProject(w) ==
    /\ work[w].pc = "deindexProject"
    /\ SetLifecycle(work[w].proj, "deindexed")
    /\ AddRun(work[w].proj, "indexed")
    /\ work' = [work EXCEPT ![w] = IF work[w].op = "deindex" THEN NoWork
                                   ELSE [work[w] EXCEPT !.pc = "unalias"]]
    /\ UNCHANGED <<named, rooted, watch, files, blocks, edges>>

\* DELETE FROM project_aliases
Unalias(w) ==
    /\ work[w].pc = "unalias"
    /\ named' = [named EXCEPT ![work[w].proj] = FALSE]
    /\ work' = [work EXCEPT ![w].pc = "settle"]
    /\ UNCHANGED <<lifecycle, rooted, watch, files, blocks, edges, runs, nextRun>>

\* UPDATE projects SET lifecycle_status = 'detached' | 'disabled', repo_root = NULL, ...
Settle(w) ==
    /\ work[w].pc = "settle"
    /\ SetLifecycle(work[w].proj, work[w].op)
    /\ rooted' = [rooted EXCEPT ![work[w].proj] = FALSE]
    /\ work' = [work EXCEPT ![w] = NoWork]
    /\ UNCHANGED <<named, watch, files, blocks, edges, runs, nextRun>>

\* Wrong: any registered project may be purged.
StartPurgeAny(w, p) ==
    /\ Registered(p)
    /\ work' = [work EXCEPT ![w] = [NoWork EXCEPT !.op = "purge", !.proj = p, !.pc = "purge"]]
    /\ UNCHANGED db

(***************************************************************************)
(* purgeProject: the guard of purgePreviewProject, then one transaction.   *)
(***************************************************************************)
StartPurge(w, p) ==
    /\ lifecycle[p] = "disabled"
    /\ work' = [work EXCEPT ![w] = [NoWork EXCEPT !.op = "purge", !.proj = p, !.pc = "purge"]]
    /\ UNCHANGED db

Purge(w) ==
    /\ work[w].pc = "purge"
    /\ LET p == work[w].proj IN
         /\ lifecycle' = [lifecycle EXCEPT ![p] = "absent"]
         /\ named' = [named EXCEPT ![p] = FALSE]
         /\ rooted' = [rooted EXCEPT ![p] = FALSE]
         /\ watch' = [watch EXCEPT ![p] = NoPaths]
         /\ files' = [files EXCEPT ![p] = [f \in Files |-> NoRow]]
         /\ blocks' = [blocks EXCEPT ![p] = [f \in Files |-> NoBlocks]]
         /\ runs' = {r \in runs : r.proj # p}
    /\ work' = [work EXCEPT ![w] = NoWork]
    /\ UNCHANGED <<edges, nextRun>>

RemovalStep(w) ==
    \/ DeindexFiles(w) \/ DeindexBlocks(w) \/ DeindexProject(w)
    \/ Unalias(w) \/ Settle(w) \/ Purge(w)

-----------------------------------------------------------------------------
(***************************************************************************)
(* The handlers.  A handler that throws on its first check changes nothing *)
(* and is no action.                                                       *)
(***************************************************************************)

(***************************************************************************)
(* registerProject as the index sees it: a new row is active, an existing  *)
(* row keeps its lifecycle_status and gains the alias and, if one is       *)
(* given, the repo_root.                                                   *)
(***************************************************************************)
Register(w, p, root) ==
    /\ lifecycle' = [lifecycle EXCEPT ![p] = IF @ = "absent" THEN "active" ELSE @]
    /\ named' = [named EXCEPT ![p] = TRUE]
    /\ rooted' = [rooted EXCEPT ![p] = @ \/ root]
    /\ UNCHANGED <<watch, files, blocks, edges, runs, nextRun, work, jobs>>

\* A snapshot of some paths of the working tree, as a caller or a handler reads it.
ReadTree(p, S) == [f \in Files |-> IF f \in S THEN tree[p][f] ELSE None]

\* handleProjectTriggerIndex: the paths given are read now and indexed by a later job
TriggerIndex(w, p, S, full) ==
    /\ Registered(p)
    /\ S \subseteq Paths(tree[p])
    /\ jobs' = [jobs EXCEPT ![w] =
                  Append(@, [proj |-> p, snap |-> ReadTree(p, S), full |-> full])]
    /\ UNCHANGED <<db, work>>

\* handleProjectReindexDiff with the paths S of the tree
ReindexDiff(w, p, S, full) ==
    /\ S \subseteq Paths(tree[p])
    /\ StartReindex(w, p, ReadTree(p, S), full, {})
    /\ UNCHANGED jobs

(***************************************************************************)
(* handleProjectIndexEvent.  The listener script sends every tracked file  *)
(* of a clean, pushed default branch as a trusted full snapshot; otherwise *)
(* the paths of the commit (none after a merge or a rewrite), the deleted  *)
(* ones among them, which cannot be read, also as deletions.               *)
(***************************************************************************)
TrustedEvent(w, p) ==
    /\ rooted[p]
    /\ StartReindex(w, p, tree[p], TRUE, {})
    /\ UNCHANGED jobs

CommitEvent(w, p, S, rev) ==
    /\ rooted[p]
    /\ StartReindex(w, p,
         [f \in Files |-> IF f \notin S THEN None
                          ELSE IF tree[p][f] = None THEN rev ELSE tree[p][f]],
         FALSE, S \ Paths(tree[p]))
    /\ UNCHANGED jobs

Request(w) ==
    /\ Idle(w) /\ requests < MaxRequests
    /\ requests' = requests + 1
    /\ UNCHANGED <<tree, edits, faults>>
    /\ \E p \in Projects :
         \/ \E root \in BOOLEAN : Register(w, p, root)
         \/ \E S \in SUBSET Files, full \in BOOLEAN :
              TriggerIndex(w, p, S, full) \/ ReindexDiff(w, p, S, full)
         \/ TrustedEvent(w, p)
         \/ \E S \in SUBSET Files, rev \in Unreads : CommitEvent(w, p, S, rev)
         \/ /\ \/ \E op \in {"deindex", "detached", "disabled"} : StartRemoval(w, p, op)
               \/ StartPurge(w, p)
            /\ UNCHANGED jobs

(***************************************************************************)
(* The setTimeout callback of scheduleProjectReindexJob.  A job without    *)
(* paths takes the tracked files of the repository, read now; with nothing *)
(* to index, or no project left to index, it ends without a trace.         *)
(***************************************************************************)
\* Wrong: the tracked files are not collected.
JobPathsGiven(j) == j.snap

JobPaths(j) == IF j.snap # NoPaths THEN j.snap
               ELSE IF rooted[j.proj] THEN tree[j.proj] ELSE NoPaths

RunJob(w) ==
    /\ Idle(w) /\ jobs[w] # <<>>
    /\ jobs' = [jobs EXCEPT ![w] = Tail(@)]
    /\ LET j == Head(jobs[w]) IN
         IF JobPaths(j) = NoPaths \/ ~Registered(j.proj)
           THEN UNCHANGED <<db, work>>
           ELSE StartReindex(w, j.proj, JobPaths(j), j.full, {})
    /\ UNCHANGED <<tree, counters>>

Step(w) ==
    /\ ReindexStep(w) \/ RemovalStep(w)
    /\ UNCHANGED <<tree, jobs, counters>>

\* A statement throws (a locked database, a full disk): the catch of reindexProjectByDiff
\* records the error, every other handler just stops.
Throw(w) ==
    /\ ~Idle(w) /\ faults < MaxFaults
    /\ faults' = faults + 1
    /\ work' = [work EXCEPT ![w] = NoWork]
    /\ runs' = IF work[w].pc \in ReindexPcs THEN SetRun(work[w].run, "error") ELSE runs
    /\ UNCHANGED <<lifecycle, named, rooted, watch, files, blocks, edges, nextRun,
                   tree, jobs, requests, edits>>

\* A process dies and starts again: its handler and its timers are gone.
Crash(w) ==
    /\ ~Idle(w) \/ jobs[w] # <<>>
    /\ faults < MaxFaults
    /\ faults' = faults + 1
    /\ work' = [work EXCEPT ![w] = NoWork]
    /\ jobs' = [jobs EXCEPT ![w] = <<>>]
    /\ UNCHANGED <<db, tree, requests, edits>>

\* Someone edits, adds or removes a file of the repository.
Edit(p, f, c) ==
    /\ edits < MaxEdits /\ tree[p][f] # c
    /\ edits' = edits + 1
    /\ tree' = [tree EXCEPT ![p][f] = c]
    /\ UNCHANGED <<db, jobs, work, requests, faults>>

EditSome == \E p \in Projects, f \in Files, c \in Contents \cup {None} : Edit(p, f, c)

Next ==
    \/ \E w \in Procs : Request(w) \/ RunJob(w) \/ Step(w) \/ Throw(w) \/ Crash(w)
    \/ EditSome

\* A synchronous handler runs to its end, and the event loop fires its timers.
Fairness == \A w \in Procs : WF_vars(Step(w) \/ RunJob(w))

Spec == Init /\ [][Next]_vars
FairSpec == Spec /\ Fairness

(***************************************************************************)
(* The deployment whose only index traffic is bootstrap jobs without paths *)
(* and trusted events: every run carries the whole working tree.           *)
(***************************************************************************)
SyncRequest(w) ==
    /\ Idle(w) /\ requests < MaxRequests
    /\ requests' = requests + 1
    /\ UNCHANGED <<tree, edits, faults>>
    /\ \E p \in Projects :
         Register(w, p, TRUE) \/ TriggerIndex(w, p, {}, TRUE) \/ TrustedEvent(w, p)

SyncNext == EditSome \/ \E w \in Procs : SyncRequest(w) \/ RunJob(w) \/ Step(w)

SyncSpec == Init /\ [][SyncNext]_vars /\ Fairness

-----------------------------------------------------------------------------
(***************************************************************************)
(* Properties.                                                             *)
(***************************************************************************)
Quiet(p) == \A w \in Procs : work[w].proj # p

\* The row and the blocks of a path, as a finished run over content c leaves them.
Indexed(p, f, c) == files[p][f] = [sum |-> c, active |-> TRUE] /\ blocks[p][f] = Fill(c)

(***************************************************************************)
(* With one process and no failure, whatever sequence of reindexes, events,*)
(* jobs and removals ran before, a path the index shows as live has        *)
(* exactly the blocks of the content its row records (none left over from  *)
(* an earlier content, none missing), and a tombstoned path has none.      *)
(***************************************************************************)
IndexConsistent ==
    faults = 0 => \A p \in Projects : Quiet(p) => \A f \in Files :
        blocks[p][f] = IF files[p][f].active THEN Fill(files[p][f].sum) ELSE NoBlocks

(***************************************************************************)
(* With one process, crashes and thrown errors included, a live path whose *)
(* row agrees with the watch snapshot has exactly the blocks of that       *)
(* content.  This is what makes a repeated run safe: whatever a broken run *)
(* left half done, the next run over the same content sees as changed.     *)
(***************************************************************************)
WatchHonest ==
    \A p \in Projects, f \in Files :
        /\ watch[p][f] # None
        /\ files[p][f] = [sum |-> watch[p][f], active |-> TRUE]
        => blocks[p][f] = Fill(watch[p][f])

(***************************************************************************)
(* With one process, failures included, a project without a row in         *)
(* `projects` has no alias, watch snapshot, file row, block or run, so an  *)
(* id that is purged and registered again starts from nothing, whatever    *)
(* jobs or git events were still on their way.                             *)
(***************************************************************************)
NoOrphans ==
    \A p \in Projects : lifecycle[p] = "absent" =>
        /\ ~named[p] /\ ~rooted[p] /\ watch[p] = NoPaths
        /\ files[p] = [f \in Files |-> NoRow]
        /\ blocks[p] = [f \in Files |-> NoBlocks]
        /\ \A r \in runs : r.proj # p

(***************************************************************************)
(* One process moves a project through exactly the statuses                *)
(* ProjectLifecycle promises, wherever it fails: detached and disabled are *)
(* entered from deindexed only, absent from disabled only.                 *)
(***************************************************************************)
Lifecycle == INSTANCE ProjectLifecycle WITH Projects <- Projects, lifecycle <- lifecycle
ImplementsLifecycle == Lifecycle!Spec

(***************************************************************************)
(* When every run is a full snapshot, a live path is in the watch          *)
(* snapshot, so the run that misses it will tombstone it.                  *)
(***************************************************************************)
Tracked ==
    \A p \in Projects : Quiet(p) => \A f \in Files :
        files[p][f].active => watch[p][f] # None

(***************************************************************************)
(* However many processes interleave and fail, a project becomes active    *)
(* only by a registration that creates its row or from `deindexed`: a run  *)
(* that overlaps a detach or an unregister does not undo it.               *)
(***************************************************************************)
ActiveOnlyFromDeindexed ==
    [][\A p \in Projects : lifecycle'[p] = "active" =>
          lifecycle[p] \in {"active", "absent", "deindexed"}]_vars

(***************************************************************************)
(* When every run is a full snapshot of the tree, a run that has ended     *)
(* without an error left exactly its content for every path it was given,  *)
(* those it skipped as unchanged included.                                 *)
(***************************************************************************)
RunIndexesItsPaths ==
    \A w \in Procs : work[w].pc = "reactivate" =>
        \A f \in Paths(work[w].snap) : Indexed(work[w].proj, f, work[w].snap[f])

\* The index of p shows the working tree and nothing else.
ShowsTree(p) ==
    \A f \in Files :
        IF tree[p][f] = None THEN ~files[p][f].active /\ blocks[p][f] = NoBlocks
                             ELSE Indexed(p, f, tree[p][f])

\* A run over the whole of the working tree is asked for: a job that has yet to read it.
Asked(p) ==
    \E w \in Procs : \E i \in 1..Len(jobs[w]) :
        jobs[w][i] = [proj |-> p, snap |-> NoPaths, full |-> TRUE]

(***************************************************************************)
(* In that deployment, once the working tree has stopped changing, is not  *)
(* empty and a bootstrap is queued, the index comes to show exactly that   *)
(* tree.                                                                   *)
(***************************************************************************)
Converges ==
    \A p \in Projects :
        (edits = MaxEdits /\ tree[p] # NoPaths /\ rooted[p] /\ Asked(p)) ~> ShowsTree(p)

-----------------------------------------------------------------------------
(***************************************************************************)
(* What the documents, messages and tests of the repository say and the    *)
(* code does not do.                                                       *)
(***************************************************************************)

(***************************************************************************)
(* The messages and tests of deindexing: retrieval is disabled until       *)
(* reindex, and a reindex re-enables it.  A run that made the project      *)
(* active has to have content to retrieve for the paths it was given.      *)
(***************************************************************************)
ReindexRestoresContent ==
    \A w \in Procs : work[w].pc = "reactivate" /\ lifecycle[work[w].proj] = "active" =>
        \A f \in Paths(work[w].snap) : files[work[w].proj][f].active
=============================================================================
