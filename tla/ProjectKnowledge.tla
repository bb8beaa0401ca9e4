--------------------------- MODULE ProjectKnowledge ---------------------------
(***************************************************************************)
(* What an agent is told about a project: the task registry, the lineage   *)
(* of a task, hybrid search, the change overlay, feature packs and the     *)
(* developer query that puts them together (db/slot-db.ts and              *)
(* core/usecases/default-memory-usecase-port.ts).                          *)
(*                                                                         *)
(* A question is a series of SELECTs and no transaction holds them         *)
(* together, so a process that indexes, deindexes, purges or moves a task  *)
(* works between any two of them.  work[w].pc is the next statement of the *)
(* process w.  ProjectIndex has the indexing in full; here a writer        *)
(* changes the rows in the order it does there.                            *)
(*                                                                         *)
(* Scores are hundredths.  A query is what matching makes of its text: the *)
(* files, symbols and tasks whose text contains it.  A query in part       *)
(* contained in a text, the ranking and the limits are left out (the       *)
(* limits exceed these instances), and so are the filters by module and    *)
(* language, which a developer query does not set.                         *)
(***************************************************************************)
EXTENDS Integers, FiniteSets, Sequences, SequencesExt

CONSTANTS
    Readers,        \* processes that ask
    Writers,        \* processes that index and keep tasks
    Projects,
    Files,          \* every file has one chunk
    Docs,           \* the files under docs/, without symbols; the others are under src/
    ReviewFiles,    \* files whose symbol's name speaks of reviews or decisions
    Tasks,
    ReviewTasks,    \* tasks whose title speaks of reviews or decisions
    Keys,           \* tracker issue keys
    Cards,          \* the payloads of task_registry_upsert
    Queries,        \* the questions: see AskedOf
    Starts,         \* the databases an instance starts with: see StartOf
    None,
    MaxQueries,     \* bound on questions
    MaxWrites       \* bound on calls of writers

ASSUME FilesAssumption == Docs \subseteq Files /\ ReviewFiles \subseteq Files \ Docs
ASSUME ReviewAssumption == ReviewTasks \subseteq Tasks
ASSUME BoundsAssumption == MaxQueries \in Nat /\ MaxWrites \in Nat

Plans == {"lineage", "search", "overlay", "pack",
          "locate_symbol", "locate_file", "feature_lookup", "change_lookup"}
Features == {None, "review", "other"}

\* A question: its plan; code and ident, whether the query looks like code and like an
\* identifier; what its text matches; the paths its prefix hint allows; the selector;
\* trace, whether the parents of its task matter.
AskedOf == [plan : Plans, code : BOOLEAN, ident : BOOLEAN, files : SUBSET Files,
            symbols : SUBSET Files, tasks : SUBSET Tasks, under : SUBSET Files,
            task : Tasks \cup {None}, key : Keys \cup {None}, titled : SUBSET Tasks,
            trace : BOOLEAN, feature : Features]
CardOf == [project : Projects, parent : Tasks \cup {None}, related : SUBSET Tasks,
           files : SUBSET Files, symbols : SUBSET Files, key : Keys \cup {None}]

\* A database that no process is changing: a detached or a disabled project may have been
\* indexed again, a deindexed one has nothing active.
Statuses == {"absent", "active", "deindexed", "detached", "disabled"}
StartOf == [lifecycle : [Projects -> Statuses], files : [Projects -> SUBSET Files],
            tasks : [Tasks -> Cards \cup {None}]]
Quiet(s) ==
    /\ \A p \in Projects : s.lifecycle[p] \in {"absent", "deindexed"} => s.files[p] = {}
    /\ \A t \in Tasks : s.tasks[t] # None => s.lifecycle[s.tasks[t].project] # "absent"

ASSUME QueriesAssumption == Queries \subseteq AskedOf
ASSUME CardsAssumption == Cards \subseteq CardOf
ASSUME StartsAssumption == Starts \subseteq StartOf /\ \A s \in Starts : Quiet(s)

VARIABLES
    lifecycle,      \* project -> its status, "absent" without a row
    files,          \* project -> the files whose row is active
    chunks,         \* project -> the files whose chunk is active
    symbols,        \* project -> the files whose symbol is active
    tasks,          \* task -> its row, or None
    touched,        \* task -> when its row was written
    work,           \* what each process executes
    seen,           \* history: reader -> what its project was like since it asked
    asked, writes

rows == <<files, chunks, symbols>>
registry == <<tasks, touched>>
vars == <<lifecycle, rows, registry, work, seen, asked, writes>>

Procs == Readers \cup Writers
Disabled == {"deindexed", "detached", "disabled", "purged"}

NoQuery == [plan |-> "search", code |-> FALSE, ident |-> FALSE, files |-> {}, symbols |-> {},
            tasks |-> {}, under |-> {}, task |-> None, key |-> None, titled |-> {}, trace |-> FALSE,
            feature |-> None]
NoLineage == [focus |-> None, chain |-> <<>>, related |-> {}, files |-> {}, symbols |-> {}, keys |-> {}]

\* part: what the lineage is for.  hits, found: the files and tasks the search returned.
NoWork == [pc |-> "idle", project |-> None, ask |-> NoQuery, part |-> "search", again |-> FALSE,
           lineage |-> NoLineage, cursor |-> None, hits |-> {}, named |-> {}, found |-> {},
           first |-> [task |-> None, key |-> None], changed |-> {}, pack |-> {},
           open |-> FALSE, overlay |-> "none", script |-> <<>>]

\* gone: the project was absent; ever: files with a row that was active; bare: no file row
\* was active; calm: no writer did anything.
NoView == [gone |-> FALSE, ever |-> {}, bare |-> FALSE, calm |-> TRUE]
Views == [gone : BOOLEAN, ever : SUBSET Files, bare : BOOLEAN, calm : BOOLEAN]

\* The statements of a writer, the next statement of a process, and all of its locals.
Statements ==
    [on : {"files", "chunks"}, put : SUBSET Files, drop : SUBSET Files]
    \cup [on : {"symbols"}, put : SUBSET (Files \ Docs), drop : SUBSET Files]
    \cup [on : {"status"}, from : SUBSET Statuses, to : Statuses]
    \cup [on : {"task"}, task : Tasks, card : Cards]
Pcs == {"idle", "writing", "resolve", "gate", "lineage", "focus", "walk", "files", "symbols",
        "chunks", "tasks", "found", "pack", "snapshot", "packed", "changed", "related",
        "done", "failed"}
Lineages == [focus : Tasks \cup {None}, chain : Seq(Tasks), related : SUBSET Tasks,
             files : SUBSET Files, symbols : SUBSET Files, keys : SUBSET Keys]
Work == [pc : Pcs, project : Projects \cup {None}, ask : AskedOf, part : {"search", "overlay"},
         again : BOOLEAN, lineage : Lineages, cursor : Tasks \cup {None},
         hits : SUBSET Files, named : SUBSET Files, found : SUBSET Tasks,
         first : [task : Tasks \cup {None}, key : Keys \cup {None}],
         changed : SUBSET Files, pack : SUBSET Files, open : BOOLEAN,
         overlay : {"none", "unresolved", "ok"}, script : Seq(Statements)]

At(w, pc) == work[w].pc = pc
Goto(w, pc) == work' = [work EXCEPT ![w].pc = pc]
Known(p) == lifecycle[p] # "absent"
Asking(r) == work[r].pc \notin {"idle", "done", "failed"}
Writing == \E w \in Writers : work[w].pc # "idle"

Init ==
    /\ \E s \in Starts :
          /\ lifecycle = s.lifecycle
          /\ files = s.files /\ chunks = s.files
          /\ symbols = [p \in Projects |-> s.files[p] \ Docs]
          /\ tasks = s.tasks
    /\ touched = [t \in Tasks |-> 0]
    /\ work = [w \in Procs |-> NoWork]
    /\ seen = [r \in Readers |-> NoView]
    /\ asked = 0 /\ writes = 0

-----------------------------------------------------------------------------
(***************************************************************************)
(* The writers.  A call is a script of statements on the rows of its       *)
(* project; a purge is a transaction.                                      *)
(***************************************************************************)
Puts(table, fs) == [on |-> table, put |-> fs, drop |-> {}]
Drops(table, fs) == [on |-> table, put |-> {}, drop |-> fs]
Becomes(from, to) == [on |-> "status", from |-> from, to |-> to]
Row(t, c) == [on |-> "task", task |-> t, card |-> c]

\* reindexProjectByDiff of a changed file and of a deleted one
IndexScript(f) ==
    <<Puts("files", {f}), Drops("chunks", {f}), Drops("symbols", {f}),
      Puts("chunks", {f}), Puts("symbols", {f} \ Docs), Becomes({"deindexed"}, "active")>>
DeleteScript(f) ==
    <<Drops("files", {f}), Drops("chunks", {f}), Drops("symbols", {f}),
      Becomes({"deindexed"}, "active")>>

\* deindexProject, and detachProject and unregisterProject, which deindex first
DeindexScript ==
    <<Drops("files", Files), Drops("chunks", Files), Drops("symbols", Files),
      Becomes(Statuses, "deindexed")>>
SettleScript(p, status) ==
    (IF lifecycle[p] = "deindexed" THEN <<>> ELSE DeindexScript)
        \o <<Becomes(Statuses, status)>>

Scripts(p) ==
    UNION {{IndexScript(f) : f \in Files}, {DeleteScript(f) : f \in Files},
           {DeindexScript, SettleScript(p, "detached"), SettleScript(p, "disabled")},
           \* upsertTaskRegistryRecord: the row replaces the one with its id in any project
           {<<Row(t, c)>> : t \in Tasks, c \in {d \in Cards : d.project = p}}}

\* What the askers of a project could have seen of it after a step.
Noticed ==
    seen' = [r \in Readers |->
        IF ~Asking(r) THEN seen[r]
        ELSE LET p == work[r].project IN
             [gone |-> seen[r].gone \/ lifecycle'[p] = "absent",
              ever |-> seen[r].ever \cup files'[p] \cup chunks'[p] \cup symbols'[p],
              bare |-> seen[r].bare \/ files'[p] = {},
              calm |-> FALSE]]

Begin(w, p, script) ==
    /\ At(w, "idle") /\ writes < MaxWrites /\ Known(p)
    /\ writes' = writes + 1
    /\ work' = [work EXCEPT ![w].pc = "writing", ![w].project = p, ![w].script = script]
    /\ UNCHANGED <<lifecycle, rows, registry, asked>> /\ Noticed

Statement(w) ==
    LET p == work[w].project
        s == Head(work[w].script)
        Applied(table, name) ==
            [table EXCEPT ![p] = IF s.on = name THEN (@ \ s.drop) \cup s.put ELSE @]
    IN
    /\ At(w, "writing") /\ work[w].script # <<>>
    /\ lifecycle' = IF s.on = "status" /\ Known(p) /\ lifecycle[p] \in s.from
                    THEN [lifecycle EXCEPT ![p] = s.to] ELSE lifecycle
    /\ files' = Applied(files, "files")
    /\ chunks' = Applied(chunks, "chunks")
    /\ symbols' = Applied(symbols, "symbols")
    /\ IF s.on = "task"
       THEN /\ tasks' = [tasks EXCEPT ![s.task] = s.card]
            /\ touched' = [touched EXCEPT ![s.task] = writes]
       ELSE UNCHANGED registry
    /\ work' = [work EXCEPT ![w].script = Tail(@)]
    /\ UNCHANGED <<asked, writes>> /\ Noticed

Finish(w) ==
    /\ At(w, "writing") /\ work[w].script = <<>>
    /\ work' = [work EXCEPT ![w] = NoWork]
    /\ UNCHANGED <<lifecycle, rows, registry, asked, writes>> /\ Noticed

\* registerProject: a status that is there stays.
Register(w, p) ==
    /\ At(w, "idle") /\ writes < MaxWrites /\ ~Known(p)
    /\ writes' = writes + 1
    /\ lifecycle' = [lifecycle EXCEPT ![p] = "active"]
    /\ UNCHANGED <<rows, registry, work, asked>> /\ Noticed

\* What is left of the task registry after purgeProject.
Unpurged(p) == [t \in Tasks |-> IF tasks[t] # None /\ tasks[t].project = p THEN None ELSE tasks[t]]

Purge(w, p) ==
    /\ At(w, "idle") /\ writes < MaxWrites /\ lifecycle[p] = "disabled"
    /\ writes' = writes + 1
    /\ lifecycle' = [lifecycle EXCEPT ![p] = "absent"]
    /\ files' = [files EXCEPT ![p] = {}]
    /\ chunks' = [chunks EXCEPT ![p] = {}]
    /\ symbols' = [symbols EXCEPT ![p] = {}]
    /\ tasks' = Unpurged(p)
    /\ UNCHANGED <<touched, work, asked>> /\ Noticed

-----------------------------------------------------------------------------
(***************************************************************************)
(* getTaskLineageContext: a step of every reader but the feature pack's.   *)
(***************************************************************************)
\* The search names its selector, an overlay the first task and key the search found.
Selected(r) ==
    LET q == work[r].ask IN
    IF work[r].part = "search" \/ q.plan = "overlay"
    THEN [task |-> q.task, key |-> q.key, titled |-> q.titled]
    ELSE [task |-> IF q.task # None THEN q.task ELSE work[r].first.task,
          key |-> IF q.key # None THEN q.key ELSE work[r].first.key,
          titled |-> {}]

Selects(s) == s.task # None \/ s.key # None \/ s.titled # {}

\* A question ends, with an answer or with an error.
Ends(r, outcome) == work' = [work EXCEPT ![r].pc = outcome]

\* A developer query catches what its overlay throws, the tool passes it on.
Throws(r) ==
    IF work[r].part = "overlay" /\ work[r].ask.plan # "overlay"
    THEN work' = [work EXCEPT ![r].pc = "done", ![r].overlay = "none"]
    ELSE Ends(r, "failed")

OfProject(p) == {t \in Tasks : tasks[t] # None /\ tasks[t].project = p}
Newest(ts) == {t \in ts : \A u \in ts : touched[u] <= touched[t]}

\* By id within the project, else by tracker key, else by title.
Focus(r) ==
    LET s == Selected(r)
        here == OfProject(work[r].project)
        keyed == IF s.key = None THEN {} ELSE {t \in here : tasks[t].key = s.key}
    IN  IF s.task \in here THEN {s.task}
        ELSE IF keyed # {} THEN Newest(keyed)
        ELSE Newest(here \cap s.titled)

\* Wrong: an unresolved selector is an error like any other.
UnresolvedThrows(r) == Ends(r, "failed")

\* What an unresolved selector means to the one who asked for the lineage.
Unresolved(r) ==
    CASE work[r].ask.plan = "lineage" -> Ends(r, "failed")
      [] work[r].part = "search" -> Goto(r, "files")
      [] OTHER -> work' = [work EXCEPT ![r].pc = "done", ![r].overlay = "unresolved"]

LineageProject(r) ==
    /\ At(r, "lineage")
    /\ IF Known(work[r].project) THEN Goto(r, "focus") ELSE Throws(r)

\* Wrong: no key is a key too.
WithAnyKey(lineage, ts) ==
    [lineage EXCEPT !.files = @ \cup UNION {tasks[t].files : t \in ts},
                    !.symbols = @ \cup UNION {tasks[t].symbols : t \in ts},
                    !.keys = @ \cup {tasks[t].key : t \in ts}]

\* What the lineage gathers of a task: its files, its symbols, its key.
With(lineage, ts) ==
    [lineage EXCEPT !.files = @ \cup UNION {tasks[t].files : t \in ts},
                    !.symbols = @ \cup UNION {tasks[t].symbols : t \in ts},
                    !.keys = @ \cup ({tasks[t].key : t \in ts} \ {None})]

\* include_parent_chain: an overlay always has the parents.
Climbs(r) == work[r].part = "overlay" \/ work[r].ask.trace

FindFocus(r) ==
    /\ At(r, "focus")
    /\ IF Focus(r) = {} THEN Unresolved(r)
       ELSE \E t \in Focus(r) :
              work' = [work EXCEPT ![r].pc = "walk",
                          ![r].cursor = IF Climbs(r) THEN tasks[t].parent ELSE None,
                          ![r].lineage = With([NoLineage EXCEPT !.focus = t,
                                                  !.related = tasks[t].related], {t})]

\* Wrong: the guard has the focus' parent only.
GuardedOnce(r, t) == work[r].lineage.chain # <<>> /\ work[r].lineage.chain[1] = t

\* The parents that the walk has been at.
Guarded(r, t) == t \in ToSet(work[r].lineage.chain)

WalkUp(r) ==
    LET t == work[r].cursor IN
    /\ At(r, "walk") /\ t # None
    /\ IF Guarded(r, t) \/ tasks[t] = None
       THEN work' = [work EXCEPT ![r].cursor = None]
       ELSE work' = [work EXCEPT ![r].cursor = tasks[t].parent,
                        ![r].lineage = [With(work[r].lineage, {t}) EXCEPT !.chain = Append(@, t)]]

\* The related tasks that exist, of any project; what the lineage was for goes on.
Relate(r) ==
    LET there == {t \in work[r].lineage.related : tasks[t] # None} IN
    /\ At(r, "walk") /\ work[r].cursor = None
    /\ work' = [work EXCEPT ![r].lineage = [With(@, there) EXCEPT !.related = there],
                   ![r].pc = CASE work[r].ask.plan = "lineage" -> "done"
                               [] work[r].part = "search" -> "files"
                               [] OTHER -> "changed"]

-----------------------------------------------------------------------------
(***************************************************************************)
(* handleProjectDeveloperQuery and the tools it is made of.                *)
(***************************************************************************)
Ask(r, p, q) ==
    /\ At(r, "idle") /\ asked < MaxQueries
    /\ q.plan \in {"lineage", "overlay"} => Selects(q)
    /\ asked' = asked + 1
    /\ work' = [work EXCEPT ![r] =
                  [NoWork EXCEPT !.project = p, !.ask = q,
                      !.part = IF q.plan = "overlay" THEN "overlay" ELSE "search",
                      !.pc = CASE q.plan \in {"lineage", "overlay"} -> "lineage"
                               [] q.plan = "search" -> "gate"
                               [] q.plan = "pack" -> "pack"
                               [] OTHER -> "resolve"]]
    /\ seen' = [seen EXCEPT ![r] = [gone |-> ~Known(p), bare |-> files[p] = {}, calm |-> ~Writing,
                                    ever |-> files[p] \cup chunks[p] \cup symbols[p]]]
    /\ UNCHANGED <<lifecycle, rows, registry, writes>>

\* resolveProjectRef
ResolveProject(r) ==
    /\ At(r, "resolve")
    /\ IF Known(work[r].project) THEN Goto(r, "gate") ELSE Ends(r, "failed")

\* Only a change lookup gives its search a task context, and not the second time.
HasContext(r) ==
    /\ ~work[r].again
    /\ work[r].ask.plan \in {"search", "change_lookup"}
    /\ Selects(Selected(r))

Gate(r) ==
    LET p == work[r].project IN
    /\ At(r, "gate")
    /\ IF ~Known(p) THEN Ends(r, "failed")
       ELSE work' = [work EXCEPT ![r].open = lifecycle[p] \notin Disabled,
                        ![r].pc = CASE lifecycle[p] \in Disabled -> "found"
                                    [] HasContext(r) -> "lineage"
                                    [] OTHER -> "files"]

Cutoff == 8
If(condition, score) == IF condition THEN score ELSE 0

FileScore(q, lineage, f) ==
      If(f \in q.files, 55 + 25)
    + If(f \in lineage.files, 35)
    + (IF q.code THEN (IF f \in Docs THEN -18 ELSE 14) ELSE If(f \in Docs, 5))
    + If(q.ident, -12)

SymbolScore(q, lineage, f) ==
      If(f \in q.files \cup q.symbols, 62 + 35)
    + If(f \in lineage.symbols, 30)
    + If(f \in lineage.files, 12)
    + If(q.code /\ f \notin Docs, 8)
    + If(q.ident, 18)

\* Wrong: an identifier makes no difference to a chunk.
ChunkScorePlain(q, lineage, named, f) ==
      If(f \in q.files \/ f \in q.symbols \cap named, 60 + 40)
    + If(f \in lineage.files, 15)
    + If(q.code, IF f \in Docs THEN -14 ELSE 10)

\* A chunk has the name of its symbol if the row of the symbol was there before.
ChunkScore(q, lineage, named, f) ==
      If(f \in q.files \/ f \in q.symbols \cap named, 60 + 40)
    + If(f \in lineage.files, 15)
    + If(q.code, IF f \in Docs THEN -14 ELSE 10)
    + If(q.ident, 12)

TaskScore(q, lineage, t) ==
    LET parents == ToSet(lineage.chain)
        row == tasks[t]
    IN  If(t \in q.tasks \/ row.files \cap q.files # {} \/ row.symbols \cap q.symbols # {}, 58 + 25)
      + If(t \in {lineage.focus} \cup parents \cup lineage.related, 28)
      + If(row.key \in lineage.keys, 28)
      + If(t = lineage.focus, 35)
      + If(t \in parents, 20)
      + If(t \in lineage.related, 20)

\* The rows of one table: those the prefix hint allows and the score lets through.
Hits(r, table, score) ==
    {f \in table[work[r].project] \cap work[r].ask.under : score[f] > Cutoff}

ReadFiles(r) ==
    LET score == [f \in Files |-> FileScore(work[r].ask, work[r].lineage, f)] IN
    /\ At(r, "files")
    /\ work' = [work EXCEPT ![r].pc = "symbols", ![r].hits = Hits(r, files, score)]

ReadSymbols(r) ==
    LET score == [f \in Files |-> SymbolScore(work[r].ask, work[r].lineage, f)] IN
    /\ At(r, "symbols")
    /\ work' = [work EXCEPT ![r].pc = "chunks", ![r].hits = @ \cup Hits(r, symbols, score),
                   ![r].named = symbols[work[r].project]]

ReadChunks(r) ==
    LET score == [f \in Files |-> ChunkScore(work[r].ask, work[r].lineage, work[r].named, f)] IN
    /\ At(r, "chunks")
    /\ work' = [work EXCEPT ![r].pc = "tasks", ![r].hits = @ \cup Hits(r, chunks, score)]

\* The first of the ranked tasks, and of those with a key: pickOverlaySelectorFromLocate.
ReadTasks(r) ==
    LET Score(t) == TaskScore(work[r].ask, work[r].lineage, t)
        found == {t \in OfProject(work[r].project) : Score(t) > Cutoff}
        keyed == {t \in found : tasks[t].key # None}
        Best(ts) == {t \in ts : \A u \in ts : Score(u) <= Score(t)}
    IN
    /\ At(r, "tasks")
    /\ \E t \in IF found = {} THEN {None} ELSE Best(found),
          k \in IF keyed = {} THEN {None} ELSE {tasks[u].key : u \in Best(keyed)} :
          work' = [work EXCEPT ![r].pc = "found", ![r].found = found,
                      ![r].first = [task |-> t, key |-> k]]

\* attach_overlay, and a selector to follow.
ToOverlay(r) ==
    LET q == work[r].ask  first == work[r].first IN
    /\ q.plan = "change_lookup"
    /\ {q.task, q.key, first.task, first.key} # {None}

\* The search is over: it is tried again without the task, or the rest of the plan follows.
EndSearch(r) ==
    LET q == work[r].ask IN
    /\ At(r, "found")
    /\ CASE q.plan = "change_lookup" /\ ~work[r].again /\ work[r].hits \cup work[r].found = {} ->
               work' = [work EXCEPT ![r].pc = "gate", ![r].again = TRUE, ![r].lineage = NoLineage]
         [] q.plan = "search" -> Ends(r, "done")
         [] q.plan \in {"feature_lookup", "change_lookup"} /\ q.feature # None -> Goto(r, "pack")
         [] OTHER -> Goto(r, "packed")

\* handleProjectFeaturePackGenerate; a developer query does without the pack that throws.
WithoutPack(r) == IF work[r].ask.plan = "pack" THEN Ends(r, "failed") ELSE Goto(r, "packed")

ResolvePack(r) ==
    /\ At(r, "pack")
    /\ IF Known(work[r].project) THEN Goto(r, "snapshot") ELSE WithoutPack(r)

\* The pack about reviews wants a task or a symbol that speaks of them.
Snapshot(r) ==
    LET p == work[r].project
        evidence == OfProject(p) \cap ReviewTasks # {} \/ symbols[p] \cap ReviewFiles # {}
    IN
    /\ At(r, "snapshot")
    /\ IF Known(p) /\ (work[r].ask.feature = "review" => evidence)
       THEN work' = [work EXCEPT ![r].pc = "packed", ![r].pack = files[p]]
       ELSE WithoutPack(r)

EndPack(r) ==
    /\ At(r, "packed")
    /\ IF ToOverlay(r)
       THEN work' = [work EXCEPT ![r].pc = "lineage", ![r].part = "overlay"]
       ELSE Ends(r, "done")

\* Wrong: the overlay shows the files of the lineage as they are.
ChangedRaw(r) == work[r].lineage.files

\* queryProjectChangeOverlay: the lineage's files that are active, or all of them if none is.
Changed(r) ==
    LET active == files[work[r].project] IN
    IF active = {} THEN work[r].lineage.files ELSE work[r].lineage.files \cap active

ReadChanged(r) ==
    /\ At(r, "changed")
    /\ work' = [work EXCEPT ![r].pc = "related", ![r].changed = Changed(r), ![r].overlay = "ok"]

\* The symbols the tasks name and those of the changed files, with their paths.  The packs
\* the overlay compares itself to add no file.
ReadRelated(r) ==
    LET active == symbols[work[r].project] IN
    /\ At(r, "related")
    /\ work' = [work EXCEPT ![r].pc = "done",
                   ![r].changed = @ \cup (active \cap (work[r].lineage.symbols \cup @))]

Return(r) ==
    /\ work[r].pc \in {"done", "failed"}
    /\ work' = [work EXCEPT ![r] = NoWork]

Read(r) ==
    /\ \/ ResolveProject(r) \/ Gate(r) \/ LineageProject(r) \/ FindFocus(r) \/ WalkUp(r) \/ Relate(r)
       \/ ReadFiles(r) \/ ReadSymbols(r) \/ ReadChunks(r) \/ ReadTasks(r) \/ EndSearch(r)
       \/ ResolvePack(r) \/ Snapshot(r) \/ EndPack(r) \/ ReadChanged(r) \/ ReadRelated(r) \/ Return(r)
    /\ UNCHANGED <<lifecycle, rows, registry, seen, asked, writes>>

Next ==
    \/ \E r \in Readers : Read(r) \/ \E p \in Projects, q \in Queries : Ask(r, p, q)
    \/ \E w \in Writers :
          \/ Statement(w) \/ Finish(w)
          \/ \E p \in Projects :
                \/ Register(w, p) \/ Purge(w, p)
                \/ \E script \in Scripts(p) : Begin(w, p, script)

Spec == Init /\ [][Next]_vars

-----------------------------------------------------------------------------
(***************************************************************************)
(* Properties.                                                             *)
(***************************************************************************)
\* The variables have their types.
TypeOK ==
    /\ lifecycle \in [Projects -> Statuses]
    /\ files \in [Projects -> SUBSET Files] /\ chunks \in [Projects -> SUBSET Files]
    /\ symbols \in [Projects -> SUBSET (Files \ Docs)]
    /\ tasks \in [Tasks -> CardOf \cup {None}] /\ touched \in [Tasks -> Nat]
    /\ work \in [Procs -> Work] /\ seen \in [Readers -> Views]
    /\ asked \in 0..MaxQueries /\ writes \in 0..MaxWrites

\* The walk from a task to its parents stops in every registry, one whose parents run in a
\* circle and one whose parents are changed while it walks: no task is in the chain twice.
\* (The focus may be in it once: the guard does not have it.)
ChainHasNoRepeats == \A r \in Readers : IsInjective(work[r].lineage.chain)

\* A question fails only if its project was absent for a moment since it was asked, or if it
\* asked for the lineage of a task that nothing selects, or for a pack without evidence: an
\* unresolved task, an overlay or a pack that throws never takes the search with it.
FailsOnlyWhenGone ==
    \A r \in Readers : At(r, "failed") =>
        \/ seen[r].gone
        \/ work[r].ask.plan = "lineage" /\ work[r].lineage.focus = None
        \/ work[r].ask.plan = "pack" /\ work[r].ask.feature = "review"

\* What an answer shows was in the index while it was put together: no file whose rows were
\* all gone when the question came, in whatever order its SELECTs and the statements of a
\* reindex meet, unless the project for a moment had no active file at all.
ShownWasActive ==
    \A r \in Readers :
        \/ work[r].hits \cup work[r].changed \cup work[r].pack \subseteq seen[r].ever
        \/ seen[r].bare /\ work[r].hits \cup work[r].pack \subseteq seen[r].ever

\* A file that the tasks of the resolved lineage touched is among the results whatever the
\* query looks like, if its chunk is indexed and nobody writes meanwhile: the penalties for
\* identifiers and for documents never outweigh the bonus of the lineage in every table.
\* For one writer: two that race may leave a chunk without the row of its file.
LineageFilesFound ==
    \A r \in Readers :
        At(r, "found") /\ work[r].open /\ seen[r].calm /\ work[r].lineage.focus # None =>
            work[r].lineage.files \cap chunks[work[r].project] \cap work[r].ask.under
                \subseteq work[r].hits
=============================================================================
