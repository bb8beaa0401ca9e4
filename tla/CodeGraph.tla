------------------------------ MODULE CodeGraph ------------------------------
(***************************************************************************)
(* The graph of GraphDB (src/src/db/graph-db.ts): the code graph that      *)
(* populateUniversalCodeGraphForFile draws for every file reindexed, and   *)
(* the entities and relationships agents draw by tool.  Both live in two   *)
(* tables of slots.db, which all scopes and all processes share; every     *)
(* statement commits on its own.                                           *)
(*                                                                         *)
(* What is drawn for a file is computed from its content alone, so it is a *)
(* script of statements here, in the order the populator runs them.  A     *)
(* content is what extractSemanticBlocks and the regular expressions find  *)
(* in it: its symbols, each with what its text calls, routes, schedules,   *)
(* emits and consumes; its imports; and what the whole text routes,        *)
(* schedules, emits and consumes.                                          *)
(***************************************************************************)
EXTENDS Naturals, Sequences, SequencesExt, Functions

CONSTANTS
    Scopes,         \* pairs of user and agent
    Projects,       \* project ids
    ScopeOf,        \* the scope each project is registered in
    Files,          \* relative paths
    Contents,       \* what the populator finds in a file, see above
    ModuleOf,       \* the module the reindex request gives each file, or None
    HandNames,      \* entities agents create
    Links,          \* the triples agents name in tool calls
    Runs,           \* what is indexed: triples of project, path and content
    Procs,          \* processes that share the database
    None,
    MaxIndexes, MaxCalls, MaxFaults   \* bounds on files indexed, on tool calls that write, on crashes

ASSUME ScopeOfAssumption == ScopeOf \in [Projects -> Scopes]
ASSUME RunsAssumption == Runs \subseteq Projects \X Files \X Contents
ASSUME NoneAssumption == None \notin Scopes \cup Projects \cup Files
\* Symbols, imports and imported names come in the order of the text; a text holds finitely many things.
ASSUME ContentsAssumption == \A c \in Contents :
    /\ c.symbols \in Seq(Range(c.symbols)) /\ \A s \in Range(c.symbols) : IsFiniteSet(s.calls)
    /\ c.imports \in Seq(Range(c.imports)) /\ \A i \in Range(c.imports) : i.names \in Seq(Range(i.names))
    /\ \A what \in {"routes", "jobs", "emits", "consumes"} : IsFiniteSet(c[what])

VARIABLES
    entity,         \* table entities: the scope of each id there is
    rel,            \* table relationships: scope, adapter and evidence path of each triple there is
    work,           \* what each process is executing
    last,           \* history: the project and content a path of a scope was last indexed with
    drawn,          \* history: how that run went: "never", "alone" (by one run), "whole" (to its end),
                    \* "mixed" (by overlapping runs), "cut" (a tool call took relations away or over)
    indexes, calls, faults

vars == <<entity, rel, work, last, drawn, indexes, calls, faults>>

(***************************************************************************)
(* Node ids: the strings the populator builds, as tuples.  A dependency    *)
(* (`module_dep:` and `symbol_dep:`) carries no project.                   *)
(***************************************************************************)
FileNode(p, f) == <<"file", p, f, None>>
ModuleNode(p, m) == <<"module", p, None, m>>
SymbolNode(p, f, n) == <<"symbol", p, f, n>>
ImportedNode(p, f, n) == <<"imported", p, f, n>>
DependencyNode(spec) == <<"module_dep", None, None, spec>>
DependencySymbolNode(spec, n) == <<"symbol_dep", None, spec, n>>
RouteNode(p, r) == <<"route", p, None, r>>
JobNode(p, f, j) == <<"job", p, f, j>>
EventNode(p, e) == <<"event", p, None, e>>
HandNode(n) == <<"hand", None, None, n>>

Owned(p, f, id) == id[1] \in {"file", "symbol"} /\ id[2] = p /\ id[3] = f

NodeOp(id) == [op |-> "node", id |-> id]
RelOp(from, type, to) == [op |-> "rel", id |-> <<from, type, to>>]

Each(seq, Op(_)) == FlattenSeq([i \in DOMAIN seq |-> Op(seq[i])])
InSomeOrder(S) == SetToSeq(S)

(***************************************************************************)
(* The sections of the script, in the order of the populator.              *)
(***************************************************************************)
DrawFile(p, f) ==
    IF ModuleOf[f] = None THEN <<NodeOp(FileNode(p, f))>>
    ELSE <<NodeOp(FileNode(p, f)), NodeOp(ModuleNode(p, ModuleOf[f])),
           RelOp(ModuleNode(p, ModuleOf[f]), "defines", FileNode(p, f))>>

DrawSymbols(p, f, c) == Each(c.symbols, LAMBDA s :
    <<NodeOp(SymbolNode(p, f, s.name)), RelOp(FileNode(p, f), "defines", SymbolNode(p, f, s.name))>>)

\* The node an import statement leads to, and the node of a name it binds.
Imported(p, i) == IF i.path # None THEN FileNode(p, i.path) ELSE DependencyNode(i.spec)
Bound(p, i, n) == IF i.path # None THEN ImportedNode(p, i.path, n) ELSE DependencySymbolNode(i.spec, n)

DrawImports(p, f, c) == Each(c.imports, LAMBDA i :
    <<NodeOp(Imported(p, i)),
      RelOp(FileNode(p, f), "imports", Imported(p, i)),
      RelOp(FileNode(p, f), "depends_on", Imported(p, i))>>
    \o Each(i.names, LAMBDA n :
        <<NodeOp(Bound(p, i, n)), RelOp(Imported(p, i), "defines", Bound(p, i, n))>>))

\* A name of the file itself hides an imported one.
Callees(p, f, c, n) ==
    IF \E s \in Range(c.symbols) : s.name = n THEN {SymbolNode(p, f, n)}
    ELSE {Bound(p, i, n) : i \in {j \in Range(c.imports) : n \in Range(j.names)}}

DrawCalls(p, f, c) == Each(c.symbols, LAMBDA s :
    LET targets == (UNION {Callees(p, f, c, n) : n \in s.calls}) \ {SymbolNode(p, f, s.name)}
    IN Each(InSomeOrder(targets), LAMBDA t : <<RelOp(SymbolNode(p, f, s.name), "calls", t)>>))

\* Routes, jobs and events hang on the symbols whose text has them, on the file if none has.
Holders(p, f, c, what, x) == {SymbolNode(p, f, s.name) : s \in {t \in Range(c.symbols) : x \in t[what]}}
Owners(p, f, c, what, x) ==
    IF Holders(p, f, c, what, x) = {} THEN {FileNode(p, f)} ELSE Holders(p, f, c, what, x)

Draw(node, type, owners) ==
    <<NodeOp(node)>> \o Each(InSomeOrder(owners), LAMBDA o : <<RelOp(o, type, node)>>)

DrawRoutes(p, f, c) == Each(InSomeOrder(c.routes), LAMBDA r :
    Draw(RouteNode(p, r), "routes_to", Owners(p, f, c, "routes", r)))
DrawJobs(p, f, c) == Each(InSomeOrder(c.jobs), LAMBDA j :
    Draw(JobNode(p, f, j), "scheduled_as", Owners(p, f, c, "jobs", j)))

\* The fallback to the file is taken when no symbol emits or consumes the event, not one of the two.
EventOwners(p, f, c, mode, e) ==
    IF Holders(p, f, c, "emits", e) \cup Holders(p, f, c, "consumes", e) = {} THEN {FileNode(p, f)}
    ELSE Holders(p, f, c, mode, e)
DrawEvents(p, f, c) ==
    Each(InSomeOrder(c.emits), LAMBDA e : Draw(EventNode(p, e), "emits", EventOwners(p, f, c, "emits", e)))
    \o Each(InSomeOrder(c.consumes), LAMBDA e :
        Draw(EventNode(p, e), "consumes", EventOwners(p, f, c, "consumes", e)))

Script(p, f, c) ==
    DrawFile(p, f) \o DrawSymbols(p, f, c) \o DrawImports(p, f, c) \o DrawCalls(p, f, c)
    \o DrawRoutes(p, f, c) \o DrawJobs(p, f, c) \o DrawEvents(p, f, c)

ScriptOf == [run \in Runs |-> Script(run[1], run[2], run[3])]
Relations == [run \in Runs |-> {op.id : op \in {o \in Range(ScriptOf[run]) : o.op = "rel"}}]

\* The types deleteCodeAwareRelationshipsByEvidencePath deletes: `emits` and `consumes` stay.
Deletable == {"defines", "imports", "calls", "routes_to", "scheduled_as", "depends_on"}

(***************************************************************************)
(* State.  An upsert of a node is a SELECT and, at a later statement, the  *)
(* INSERT or UPDATE it calls for; `absent` says the SELECT saw none.       *)
(***************************************************************************)
Idle == [kind |-> "idle"]
Working(w) == work[w].kind # "idle"
Busy(w, s, f) == work[w].kind = "index" /\ work[w].pc = "draw" /\ work[w].scope = s /\ work[w].path = f

Init ==
    /\ entity = <<>>
    /\ rel = <<>>
    /\ work = [w \in Procs |-> Idle]
    /\ last = [s \in Scopes |-> [f \in Files |-> None]]
    /\ drawn = [s \in Scopes |-> [f \in Files |-> "never"]]
    /\ indexes = 0 /\ calls = 0 /\ faults = 0

Put(table, id, row) == [k \in DOMAIN table \cup {id} |-> IF k = id THEN row ELSE table[k]]

Seen(s, id) == id \in DOMAIN entity /\ entity[id] = s
Done(w) == [work EXCEPT ![w].todo = Tail(@), ![w].absent = FALSE]
Do(w, op) == Working(w) /\ work[w].pc = "draw" /\ work[w].todo # <<>> /\ Head(work[w].todo).op = op
Here(w) == Head(work[w].todo).id

(***************************************************************************)
(* populateUniversalCodeGraphForFile, for one file of a reindex.           *)
(***************************************************************************)
Reindex(w, run) ==
    /\ ~Working(w) /\ indexes < MaxIndexes
    /\ indexes' = indexes + 1
    /\ work' = [work EXCEPT ![w] = [kind |-> "index", scope |-> ScopeOf[run[1]], run |-> run,
                    path |-> run[2], pc |-> "wipe", todo |-> ScriptOf[run], absent |-> FALSE]]
    /\ UNCHANGED <<entity, rel, last, drawn, calls, faults>>

\* Wrong: the relations deleted are those that start at the file's node.
WipesOwn(s, f, k) == rel[k].scope = s /\ k[1][1] = "file" /\ k[1][3] = f /\ k[2] \in Deletable

\* Wrong: the relations deleted are all that touch a node of the path.
WipesTouching(s, f, k) == rel[k].scope = s /\ k[2] \in Deletable /\ f \in {k[1][3], k[3][3]}

\* Wrong: what an agent or a tool drew on the path's nodes goes too.
WipesHand(s, f, k) == rel[k].scope = s /\ k[2] \in Deletable /\ rel[k].path \in {f, None}

Wipes(s, f, k) == rel[k].scope = s /\ k[2] \in Deletable /\ rel[k].path = f

Wipe(w) ==
    /\ Working(w) /\ work[w].pc = "wipe"
    /\ LET s == work[w].scope
           f == work[w].path
       IN /\ rel' = Restrict(rel, {k \in DOMAIN rel : ~Wipes(s, f, k)})
          /\ last' = [last EXCEPT ![s][f] = work[w].run]
          /\ drawn' = [drawn EXCEPT ![s][f] =
                IF \E v \in Procs \ {w} : Busy(v, s, f) THEN "mixed" ELSE "alone"]
    /\ work' = [work EXCEPT ![w].pc = "draw"]
    /\ UNCHANGED <<entity, indexes, calls, faults>>

Select(w) ==
    /\ Do(w, "node") /\ ~work[w].absent
    /\ IF Seen(work[w].scope, Here(w)) THEN work' = Done(w)   \* the UPDATE changes name, type and properties
       ELSE work' = [work EXCEPT ![w].absent = TRUE]
    /\ UNCHANGED <<entity, rel, last, drawn, indexes, calls, faults>>

Stop(w) == work' = [work EXCEPT ![w] = Idle]

\* The id is the primary key of all scopes: a row of another scope, or of a faster process, makes the INSERT throw.
Insert(w) ==
    /\ Do(w, "node") /\ work[w].absent
    /\ IF Here(w) \in DOMAIN entity THEN Stop(w) /\ UNCHANGED entity
       ELSE entity' = Put(entity, Here(w), work[w].scope) /\ work' = Done(w)
    /\ UNCHANGED <<rel, last, drawn, indexes, calls, faults>>

\* INSERT ... ON CONFLICT: the row of the triple keeps its id and its scope, and takes the rest.
Written(s, k, by, path) ==
    Put(rel, k, [scope |-> IF k \in DOMAIN rel THEN rel[k].scope ELSE s, by |-> by, path |-> path])

\* History: a tool call took a relation of the index away or over.
Cut(k) ==
    IF k \in DOMAIN rel /\ rel[k].by = "index" /\ drawn[rel[k].scope][rel[k].path] \in {"alone", "whole"}
    THEN [drawn EXCEPT ![rel[k].scope][rel[k].path] = "cut"]
    ELSE drawn

\* Only graph.code.upsert looks whether the two ends are there.
Relate(w) ==
    /\ Do(w, "rel")
    /\ LET k == Here(w)
           s == work[w].scope
       IN IF work[w].kind = "upsert" /\ ~(Seen(s, k[1]) /\ Seen(s, k[3]))
          THEN Stop(w) /\ UNCHANGED <<rel, drawn>>
          ELSE /\ rel' = Written(s, k, IF work[w].kind = "index" THEN "index" ELSE "agent", work[w].path)
               /\ drawn' = IF work[w].kind = "index" THEN drawn ELSE Cut(k)
               /\ work' = Done(w)
    /\ UNCHANGED <<entity, last, indexes, calls, faults>>

Finish(w) ==
    /\ Working(w) /\ work[w].pc = "draw" /\ work[w].todo = <<>>
    /\ drawn' = IF work[w].kind = "index" /\ drawn[work[w].scope][work[w].path] = "alone"
                THEN [drawn EXCEPT ![work[w].scope][work[w].path] = "whole"] ELSE drawn
    /\ Stop(w)
    /\ UNCHANGED <<entity, rel, last, indexes, calls, faults>>

(***************************************************************************)
(* Tool calls.                                                             *)
(***************************************************************************)
\* graph.code.upsert: nodes first, then a relation whose ends must be there by then; the evidence named is the
\* source's file.
UpsertCode(w, s, nodes, k) ==
    /\ ~Working(w) /\ calls < MaxCalls
    /\ calls' = calls + 1
    /\ work' = [work EXCEPT ![w] = [kind |-> "upsert", scope |-> s, path |-> k[1][3], pc |-> "draw",
                    todo |-> Each(nodes, LAMBDA id : <<NodeOp(id)>>) \o <<RelOp(k[1], k[2], k[3])>>,
                    absent |-> FALSE]]
    /\ UNCHANGED <<entity, rel, last, drawn, indexes, faults>>

\* graph.entity.set without an id: a fresh random id.
CreateEntity(s, n) ==
    /\ calls < MaxCalls /\ HandNode(n) \notin DOMAIN entity
    /\ calls' = calls + 1
    /\ entity' = Put(entity, HandNode(n), s)
    /\ UNCHANGED <<rel, work, last, drawn, indexes, faults>>

\* Wrong: the ends are looked up in any scope.
EndsAnywhere(s, k) == {k[1], k[3]} \subseteq DOMAIN entity

Ends(s, k) == Seen(s, k[1]) /\ Seen(s, k[3])

AddRelation(s, k) ==
    /\ calls < MaxCalls /\ Ends(s, k)
    /\ calls' = calls + 1
    /\ rel' = Written(s, k, "tool", None)
    /\ drawn' = Cut(k)
    /\ UNCHANGED <<entity, work, last, indexes, faults>>

RemoveRelation(s, k) ==
    /\ calls < MaxCalls /\ k \in DOMAIN rel /\ rel[k].scope = s
    /\ calls' = calls + 1
    /\ rel' = Restrict(rel, DOMAIN rel \ {k})
    /\ drawn' = Cut(k)
    /\ UNCHANGED <<entity, work, last, indexes, faults>>

Crash(w) ==
    /\ Working(w) /\ faults < MaxFaults
    /\ faults' = faults + 1
    /\ Stop(w)
    /\ UNCHANGED <<entity, rel, last, drawn, indexes, calls>>

Next ==
    \/ \E w \in Procs :
        \/ \E run \in Runs : Reindex(w, run)
        \/ Wipe(w) \/ Select(w) \/ Insert(w) \/ Relate(w) \/ Finish(w) \/ Crash(w)
        \/ \E s \in Scopes, k \in Links : \E nodes \in {<<k[1]>>, <<k[1], k[3]>>} :
            UpsertCode(w, s, nodes, k)
    \/ \E s \in Scopes :
        \/ \E n \in HandNames : CreateEntity(s, n)
        \/ \E k \in Links : AddRelation(s, k) \/ RemoveRelation(s, k)

Spec == Init /\ [][Next]_vars

(***************************************************************************)
(* traverseGraph and traverseCodeGraph: level by level from one node,      *)
(* `depth` levels, the start being the first.                              *)
(***************************************************************************)
Universal(k) == rel[k].by # "tool"
Touching(s, n, coded) == {k \in DOMAIN rel : rel[k].scope = s /\ n \in {k[1], k[3]} /\ (coded => Universal(k))}
Across(s, n, coded) == {k[1] : k \in Touching(s, n, coded)} \cup {k[3] : k \in Touching(s, n, coded)}

\* Wrong: a node counts as visited when it is put on the next level.
LevelsEager(s, start, depth, coded) ==
    LET at[i \in 0..depth] ==
            IF i = 0 THEN [level |-> {start}, visited |-> {}]
            ELSE LET prev == at[i - 1]
                     fresh == prev.level \ prev.visited
                     next == UNION {Across(s, n, coded) : n \in {m \in fresh : Seen(s, m)}}
                 IN [level |-> next \ fresh, visited |-> prev.visited \cup fresh \cup next]
    IN at[depth]

Levels(s, start, depth, coded) ==
    LET at[i \in 0..depth] ==
            IF i = 0 THEN [level |-> {start}, visited |-> {}]
            ELSE LET prev == at[i - 1]
                     fresh == prev.level \ prev.visited
                 IN [level |-> UNION {Across(s, n, coded) : n \in {m \in fresh : Seen(s, m)}},
                     visited |-> prev.visited \cup fresh]
    IN at[depth]

Traverse(s, start, depth, coded) == {n \in Levels(s, start, depth, coded).visited : Seen(s, n)}

(***************************************************************************)
(* Properties.                                                             *)
(***************************************************************************)
Quiet == \A w \in Procs : ~Working(w)

\* Both ends of every relation are entities of the relation's own scope, whichever of the indexer,
\* graph.code.upsert and graph.rel.add drew it and whatever stopped half-way (upsert order in
\* code-graph-populator.ts, end checks in handleGraphRelAdd and handleGraphCodeUpsert).
EndsInScope == \A k \in DOMAIN rel : Seen(rel[k].scope, k[1]) /\ Seen(rel[k].scope, k[3])

\* Unless runs over one path overlapped, no relation that an older content of the path drew is left
\* of the six types the populator deletes before it draws, not even after a run that stopped half-way.
StaleGone ==
    \A k \in DOMAIN rel :
        rel[k].by = "index" /\ k[2] \in Deletable /\ drawn[rel[k].scope][rel[k].path] # "mixed"
            => k \in Relations[last[rel[k].scope][rel[k].path]]

\* What belongs to the file alone: relations that start at it or its symbols.  The names a file imports
\* from itself hang on its node like those other files import from it, and go with any of them.
Own(p, f, k) == Owned(p, f, k[1]) /\ ~(k[2] = "defines" /\ k[3][1] = "imported")

\* A run that ended, alone and untouched by tools, has every relation that belongs to the file: the
\* deletions for other files of the scope take none of them away.
OwnRelationsKept ==
    \A s \in Scopes, f \in Files : drawn[s][f] = "whole" =>
        {k \in Relations[last[s][f]] : Own(last[s][f][1], f, k)} \subseteq DOMAIN rel

\* What an agent drew with graph.rel.add stays until a tool call removes it: the deletion by evidence
\* path passes over it although its type may be one of the six.
ToolRelationsKept ==
    [][\A k \in DOMAIN rel : rel[k].by = "tool" /\ k \notin DOMAIN rel' => calls' = calls + 1]_vars

\* Reach(...)[d] are the entities fewer than d relations away.
Reach(s, start, depth, coded) ==
    LET within[i \in 1..depth] ==
            IF i = 1 THEN {start} \cap {n \in DOMAIN entity : entity[n] = s}
            ELSE LET nearer == within[i - 1] IN nearer \cup UNION {Across(s, n, coded) : n \in nearer}
    IN within

\* A traversal of depth d, of graph.code.chain or of all relations, returns exactly the entities fewer
\* than d relations away, however the relations wind.
TraversalIsBall ==
    Quiet => \A s \in Scopes, start \in DOMAIN entity, depth \in 1..3, coded \in BOOLEAN :
        Traverse(s, start, depth, coded) = Reach(s, start, depth, coded)[depth]
=============================================================================
