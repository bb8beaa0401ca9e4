-------------------------- MODULE ProjectRegistry --------------------------
(***************************************************************************)
(* The project registry: projects, aliases, tracker mappings, registration *)
(* states and migration states of db/slot-db.ts, and the commands of       *)
(* core/usecases/default-memory-usecase-port.ts that write them:           *)
(* registration with its repository resolution, tracker links, removal and *)
(* the legacy backfill.                                                    *)
(*                                                                         *)
(* A command is synchronous inside its process; the plugin, the MCP server *)
(* and the CLI are processes of their own on one database, and only a      *)
(* purge opens a transaction.  A process's pc is its next SQL statement.   *)
(* A statement may throw and a process may stop before any of them; the    *)
(* statements made so far stay.                                            *)
(*                                                                         *)
(* An alias is a normalised one, a remote a canonical one.  The working    *)
(* directory is not inside a repository.  The index of a project and what  *)
(* deindexing does to it are in ProjectIndex.                              *)
(***************************************************************************)
EXTENDS Integers, FiniteSets

CONSTANTS
    Procs,          \* processes
    Ids,            \* project ids
    Aliases,        \* project aliases
    Remotes,        \* remotes, whose clones all want one directory
    Preferred,      \* that directory
    ConflictDir,    \* remote -> its directory when the preferred one is taken
    OtherRoots,     \* other repository roots
    Named,          \* roots and remotes, or None, that calls name together
    LeafOf,         \* root -> the alias its last component gives
    NameOf,         \* remote -> the alias its repository name gives
    Tasked,         \* projects whose tasks have tracker keys
    None,
    MaxCalls,       \* bound on commands
    MaxFaults       \* bound on crashes and statements that throw

Dirs == {Preferred} \cup {ConflictDir[u] : u \in Remotes}
Roots == Dirs \cup OtherRoots

ASSUME NoneAssumption ==
    None \notin Ids /\ None \notin Aliases /\ None \notin Remotes /\ None \notin Roots
ASSUME DirsAssumption ==
    /\ ConflictDir \in [Remotes -> Dirs]
    /\ \A u \in Remotes : ConflictDir[u] # Preferred
    /\ \A u, v \in Remotes : u # v => ConflictDir[u] # ConflictDir[v]
ASSUME NamesAssumption == LeafOf \in [Roots -> Aliases] /\ NameOf \in [Remotes -> Aliases]
ASSUME NamedAssumption == Named \subseteq (Roots \cup {None}) \X (Remotes \cup {None})
ASSUME BoundsAssumption == Tasked \subseteq Ids /\ MaxCalls \in Nat /\ MaxFaults \in Nat

VARIABLES
    projects,       \* id -> its row: name, root, remote, status ("absent": no row)
    aliases,        \* alias -> its row: id, owner (None: no row), primary
    rows,           \* rows of aliases made so far: a new one gets a new id
    mappings,       \* id -> its jira mapping: "none", "linked" or "inferred"
    states,         \* id -> its registration status and validation status
    migrated,       \* ids with a migration_state row
    dirs,           \* clone directory -> the remote cloned there
    work,           \* what each process executes
    raced,          \* history: ids purged while another process was registering them
    lent,           \* history: aliases a call took that was allowed to
    byHand,         \* history: a call has given a project another root, or its remote without looking
    calls, faults   \* what the bounds count

tables == <<projects, aliases, rows, mappings, states, migrated>>
history == <<raced, lent, byHand>>
bounds == <<calls, faults>>
vars == <<tables, dirs, work, history, bounds>>

Absent == [name |-> None, root |-> None, remote |-> None, status |-> "absent"]
NoAlias == [id |-> 0, owner |-> None, primary |-> FALSE]
NoState == [status |-> "none", validation |-> "none"]

NoWork == [pc |-> "idle", id |-> None, alias |-> None, root |-> None, remote |-> None,
           target |-> None, reuse |-> FALSE, allow |-> FALSE, found |-> FALSE, row |-> 0,
           kind |-> "none", todo |-> {}, names |-> {}]

Pcs == {"idle", "resolve", "alias", "root", "row", "write", "own", "assign", "state", "jira",
        "unalias", "unmap", "clear", "draft", "pick", "infer", "map", "mark", "migrate"}

Init ==
    /\ projects = [p \in Ids |-> Absent]
    /\ aliases = [a \in Aliases |-> NoAlias]
    /\ rows = 0
    /\ mappings = [p \in Ids |-> "none"]
    /\ states = [p \in Ids |-> NoState]
    /\ migrated = {}
    /\ dirs = [d \in Dirs |-> None]
    /\ work = [w \in Procs |-> NoWork]
    /\ raced = {} /\ lent = {} /\ byHand = FALSE
    /\ calls = 0 /\ faults = 0

Exists(p) == projects[p].status # "absent"
OwnedBy(p) == {a \in Aliases : aliases[a].owner = p}
At(w, pc) == work[w].pc = pc
Goto(w, pc) == work' = [work EXCEPT ![w].pc = pc]
Leave(w) == work' = [work EXCEPT ![w] = NoWork]

Begin(w, r) ==
    /\ At(w, "idle") /\ calls < MaxCalls
    /\ calls' = calls + 1
    /\ work' = [work EXCEPT ![w] = r]
    /\ UNCHANGED <<dirs, history, faults>>

-----------------------------------------------------------------------------
(***************************************************************************)
(* project.register and project.register_command (and the confirmed        *)
(* onboarding of Telegram, which calls it).  A call that names no project  *)
(* takes a random id, one that has no row.  A call that names the root     *)
(* itself may name any remote with it: project.register looks for none,    *)
(* project.register_command only when it has to find the root.             *)
(***************************************************************************)
Register(w, p, a, root, u, allow) ==
    /\ Begin(w, [NoWork EXCEPT !.pc = "alias", !.kind = "register", !.id = p, !.alias = a,
                               !.root = root, !.remote = u, !.allow = allow])
    /\ UNCHANGED tables

RegisterCommand(w, p, a, u) ==
    /\ Begin(w, [NoWork EXCEPT !.pc = "resolve", !.kind = "command", !.id = p,
                               !.alias = a, !.remote = u])
    /\ UNCHANGED tables

\* findRegisteredProjectByRemote
KnownRoots(u) == {projects[p].root : p \in {q \in Ids : Exists(q) /\ projects[q].remote = u}}

\* cloneOrReuseRepo: the directory, and whether git clones into it.  A second conflict finds its
\* own clone in the directory, and git refuses to clone into it.
CloneTarget(u) ==
    IF dirs[Preferred] \in {None, u}
      THEN [dir |-> Preferred, refused |-> FALSE]
      ELSE [dir |-> ConflictDir[u], refused |-> dirs[ConflictDir[u]] # None]

\* resolveRepoForRegistration
Resolve(w) ==
    LET u == work[w].remote IN
    /\ At(w, "resolve")
    /\ \/ \E root \in KnownRoots(u) :
            /\ root # None
            /\ work' = [work EXCEPT ![w].pc = "alias", ![w].root = root, ![w].reuse = TRUE]
            /\ UNCHANGED dirs
       \/ /\ KnownRoots(u) = {} \/ None \in KnownRoots(u)
          /\ IF CloneTarget(u).refused
               THEN Leave(w) /\ UNCHANGED dirs
               ELSE /\ dirs' = [dirs EXCEPT ![CloneTarget(u).dir] = u]
                    /\ work' = [work EXCEPT ![w].pc = "alias", ![w].root = CloneTarget(u).dir]
    /\ UNCHANGED <<tables, history, bounds>>

\* getProjectByAlias joins the project: an alias without one is not found.
CheckAlias(w) ==
    LET owner == aliases[work[w].alias].owner IN
    /\ At(w, "alias")
    /\ IF owner \in Ids /\ Exists(owner) /\ owner # work[w].id /\ ~work[w].allow
         THEN Leave(w)
         ELSE Goto(w, "root")
    /\ UNCHANGED <<tables, dirs, history, bounds>>

\* The project a registration writes: the one that has the root, if the root is to be reused.
Targets(w) ==
    LET same == {p \in Ids : Exists(p) /\ projects[p].root = work[w].root} IN
      IF work[w].reuse /\ same # {} THEN same ELSE {work[w].id}

FindRoot(w) ==
    /\ At(w, "root")
    /\ \E p \in Targets(w) : work' = [work EXCEPT ![w].pc = "row", ![w].target = p]
    /\ UNCHANGED <<tables, dirs, history, bounds>>

ReadRow(w) ==
    /\ At(w, "row")
    /\ work' = [work EXCEPT ![w].pc = "write", ![w].found = Exists(work[w].target)]
    /\ UNCHANGED <<tables, dirs, history, bounds>>

Given(x, y) == IF x = None THEN y ELSE x

\* The row a registration leaves: an update keeps the root and the remote it is not given.
Row(w) ==
    LET old == projects[work[w].target] IN
      IF work[w].found
        THEN [old EXCEPT !.name = work[w].alias, !.root = Given(work[w].root, old.root),
                         !.remote = Given(work[w].remote, old.remote)]
        ELSE [name |-> work[w].alias, root |-> work[w].root, remote |-> work[w].remote,
              status |-> "active"]

\* Wrong: no index guards the root, and two calls that found it free both take it.
RejectedByKey(w, row) == ~work[w].found /\ Exists(work[w].target)

\* idx_projects_scope_repo_root, and the primary key
Rejected(w, row) ==
    \/ row.root # None /\ \E p \in Ids \ {work[w].target} : Exists(p) /\ projects[p].root = row.root
    \/ ~work[w].found /\ Exists(work[w].target)

\* An update of a row that is gone changes nothing.
WriteRow(w) ==
    /\ At(w, "write")
    /\ IF work[w].found /\ ~Exists(work[w].target)
         THEN Goto(w, "own") /\ UNCHANGED projects
         ELSE IF Rejected(w, Row(w))
           THEN Leave(w) /\ UNCHANGED projects
           ELSE /\ projects' = [projects EXCEPT ![work[w].target] = Row(w)]
                /\ Goto(w, "own")
    /\ byHand' = \/ byHand
                 \/ \E p \in Ids : projects[p].root \notin {None, projects'[p].root}
                 \/ work[w].kind = "register" /\ \E p \in Ids : projects[p].remote # projects'[p].remote
    /\ UNCHANGED <<aliases, rows, mappings, states, migrated, dirs, raced, lent, bounds>>

\* Wrong: the alias was checked against the requested project, which is enough.
OwnUnchecked(w) ==
    /\ At(w, "own")
    /\ work' = [work EXCEPT ![w].pc = "assign", ![w].row = aliases[work[w].alias].id]
    /\ UNCHANGED <<tables, dirs, history, bounds>>

\* upsertProjectAlias reads the alias again, now for the target.
CheckOwner(w) ==
    LET owner == aliases[work[w].alias].owner IN
    /\ At(w, "own")
    /\ IF owner \notin {None, work[w].target} /\ ~work[w].allow
         THEN Leave(w)
         ELSE work' = [work EXCEPT ![w].pc = "assign", ![w].row = aliases[work[w].alias].id]
    /\ UNCHANGED <<tables, dirs, history, bounds>>

\* It updates the row with the id it has read, if that is still there, or inserts one:
\* UNIQUE(project_alias).
AssignAlias(w) ==
    LET a == work[w].alias
        old == work[w].row
        id == IF old = 0 THEN rows + 1 ELSE old
    IN
    /\ At(w, "assign")
    /\ IF old = 0 /\ aliases[a].id # 0
         THEN Leave(w) /\ UNCHANGED <<aliases, rows>>
         ELSE /\ aliases' = IF aliases[a].id # old THEN aliases
                            ELSE [aliases EXCEPT ![a] = [id |-> id, owner |-> work[w].target,
                                                        primary |-> work[w].kind # "backfill"]]
              /\ rows' = IF old = 0 THEN id ELSE rows
              /\ Goto(w, IF work[w].kind = "backfill" THEN "infer" ELSE "state")
    /\ lent' = IF work[w].allow THEN lent \cup {a} ELSE lent
    /\ UNCHANGED <<projects, mappings, states, migrated, dirs, raced, byHand, bounds>>

\* upsertProjectRegistrationState, if the project is there; then the alias must be.  A
\* register_command may name a jira tracker.
RecordState(w) ==
    LET p == work[w].target IN
    /\ At(w, "state")
    /\ states' = IF Exists(p)
                   THEN [states EXCEPT ![p] = [status |-> "registered", validation |-> "ok"]]
                   ELSE states
    /\ \/ Leave(w)
       \/ /\ Exists(p) /\ aliases[work[w].alias].owner # None /\ work[w].kind = "command"
          /\ Goto(w, "jira")
    /\ UNCHANGED <<projects, aliases, rows, mappings, migrated, dirs, history, bounds>>

\* validateJiraTrackerFields throws on a bad key when all the rest is written.
LinkJira(w) ==
    /\ At(w, "jira")
    /\ \/ mappings' = [mappings EXCEPT ![work[w].target] = "linked"]
       \/ work[w].kind = "command" /\ UNCHANGED mappings
    /\ Leave(w)
    /\ UNCHANGED <<projects, aliases, rows, states, migrated, dirs, history, bounds>>

-----------------------------------------------------------------------------
(***************************************************************************)
(* project.link_tracker, for a project that is registered, and             *)
(* project.set_tracker_mapping, which looks at no project.  Both overwrite *)
(* the mapping with what they are given.                                   *)
(***************************************************************************)
LinkTracker(w, p) ==
    /\ Exists(p)
    /\ Begin(w, [NoWork EXCEPT !.pc = "jira", !.target = p])
    /\ UNCHANGED tables

SetTrackerMapping(w, p) ==
    /\ Begin(w, NoWork)
    /\ mappings' = [mappings EXCEPT ![p] = "linked"]
    /\ UNCHANGED <<projects, aliases, rows, states, migrated>>

\* project.set_registration_state looks at no project either.
SetRegistrationState(w, p, status, validation) ==
    /\ Begin(w, NoWork)
    /\ states' = [states EXCEPT ![p] = [status |-> status, validation |-> validation]]
    /\ UNCHANGED <<projects, aliases, rows, mappings, migrated>>

-----------------------------------------------------------------------------
(***************************************************************************)
(* Removal.  detachProject and unregisterProject deindex the project first *)
(* (ProjectIndex) unless it is deindexed, then make one statement after    *)
(* another.  A purge is one transaction, of a disabled project only.       *)
(***************************************************************************)
Remove(w, p, kind) ==
    /\ Exists(p)
    /\ Begin(w, [NoWork EXCEPT !.pc = "unalias", !.target = p, !.kind = kind])
    /\ projects' = [projects EXCEPT ![p].status = "deindexed"]
    /\ UNCHANGED <<aliases, rows, mappings, states, migrated>>

Without(p) == [a \in Aliases |-> IF aliases[a].owner = p THEN NoAlias ELSE aliases[a]]

DropAliases(w) ==
    /\ At(w, "unalias")
    /\ aliases' = Without(work[w].target)
    /\ Goto(w, "unmap")
    /\ UNCHANGED <<projects, rows, mappings, states, migrated, dirs, history, bounds>>

DropMappings(w) ==
    /\ At(w, "unmap")
    /\ mappings' = [mappings EXCEPT ![work[w].target] = "none"]
    /\ Goto(w, "clear")
    /\ UNCHANGED <<projects, aliases, rows, states, migrated, dirs, history, bounds>>

ClearRow(w) ==
    LET p == work[w].target
        status == IF work[w].kind = "detach" THEN "detached" ELSE "disabled" IN
    /\ At(w, "clear")
    /\ projects' = IF Exists(p)
                     THEN [projects EXCEPT ![p] = [@ EXCEPT !.root = None, !.remote = None,
                                                            !.status = status]]
                     ELSE projects
    /\ IF work[w].kind = "detach" THEN Leave(w) ELSE Goto(w, "draft")
    /\ UNCHANGED <<aliases, rows, mappings, states, migrated, dirs, history, bounds>>

\* The registration state is written whether or not the project still has a row.
MarkDraft(w) ==
    /\ At(w, "draft")
    /\ states' = [states EXCEPT ![work[w].target] = [status |-> "draft", validation |-> "warn"]]
    /\ Leave(w)
    /\ UNCHANGED <<projects, aliases, rows, mappings, migrated, dirs, history, bounds>>

Busy(p) ==
    \E v \in Procs : p \in {work[v].id, work[v].target} \cup {row.id : row \in work[v].todo}

\* Wrong: the purge leaves the aliases of the project.
PurgeKeepsAliases(w, p) ==
    /\ projects[p].status = "disabled"
    /\ Begin(w, NoWork)
    /\ projects' = [projects EXCEPT ![p] = Absent]
    /\ mappings' = [mappings EXCEPT ![p] = "none"]
    /\ states' = [states EXCEPT ![p] = NoState]
    /\ UNCHANGED <<aliases, rows, migrated>>

\* purgeProject; the migration state stays.
Purge(w, p) ==
    /\ projects[p].status = "disabled"
    /\ At(w, "idle") /\ calls < MaxCalls
    /\ calls' = calls + 1
    /\ projects' = [projects EXCEPT ![p] = Absent]
    /\ aliases' = Without(p)
    /\ mappings' = [mappings EXCEPT ![p] = "none"]
    /\ states' = [states EXCEPT ![p] = NoState]
    /\ raced' = IF Busy(p) THEN raced \cup {p} ELSE raced
    /\ UNCHANGED <<rows, migrated, dirs, work, lent, byHand, faults>>

-----------------------------------------------------------------------------
(***************************************************************************)
(* project.legacy_backfill in mode apply: listProjects takes a snapshot,   *)
(* then each project gets the aliases, the jira mapping, the registration  *)
(* state and the migration state that are inferred.  An alias of another   *)
(* project throws, and ends the whole batch.                               *)
(***************************************************************************)
\* inferBackfillAliases
Inferred(p) ==
    ({LeafOf[r] : r \in {projects[p].root} \ {None}}
        \cup {NameOf[u] : u \in {projects[p].remote} \ {None}}) \ OwnedBy(p)

Backfill(w) ==
    /\ Begin(w, [NoWork EXCEPT !.pc = "pick", !.kind = "backfill",
                     !.todo = {[id |-> p, names |-> Inferred(p)] : p \in {q \in Ids : Exists(q)}}])
    /\ UNCHANGED tables

PickProject(w) ==
    /\ At(w, "pick")
    /\ \/ \E row \in work[w].todo :
            /\ work' = [work EXCEPT ![w].pc = "infer", ![w].target = row.id,
                                    ![w].names = row.names, ![w].todo = @ \ {row}]
       \/ /\ work[w].todo = {}
          /\ Leave(w)
    /\ UNCHANGED <<tables, dirs, history, bounds>>

\* upsertProjectAlias (CheckOwner, AssignAlias) for each of them, not primary and not allowed to
\* take one.
InferAlias(w) ==
    /\ At(w, "infer")
    /\ \/ \E a \in work[w].names :
            work' = [work EXCEPT ![w].pc = "own", ![w].alias = a, ![w].names = @ \ {a}]
       \/ work[w].names = {} /\ Goto(w, "map")
    /\ UNCHANGED <<tables, dirs, history, bounds>>

InferMapping(w) ==
    /\ At(w, "map")
    /\ mappings' = IF work[w].target \in Tasked
                     THEN [mappings EXCEPT ![work[w].target] = "inferred"] ELSE mappings
    /\ Goto(w, "mark")
    /\ UNCHANGED <<projects, aliases, rows, states, migrated, dirs, history, bounds>>

\* "registered" stands for "validated", its form with a tracker, too.
Complete == [status |-> "registered", validation |-> "ok"]

\* shouldUpdateRegistration; the alias falls back on the name, so nothing is ever missing.
MarkState(w) ==
    LET p == work[w].target IN
    /\ At(w, "mark")
    /\ states' = IF states[p].status \in {"none", "draft"} \/ states[p].validation # "ok"
                   THEN [states EXCEPT ![p] = Complete] ELSE states
    /\ Goto(w, "migrate")
    /\ UNCHANGED <<projects, aliases, rows, mappings, migrated, dirs, history, bounds>>

\* upsertMigrationState
MarkMigrated(w) ==
    /\ At(w, "migrate")
    /\ migrated' = migrated \cup {work[w].target}
    /\ Goto(w, "pick")
    /\ UNCHANGED <<projects, aliases, rows, mappings, states, dirs, history, bounds>>

-----------------------------------------------------------------------------
\* A statement throws, or the process stops.
Fail(w) ==
    /\ ~At(w, "idle") /\ faults < MaxFaults
    /\ faults' = faults + 1
    /\ Leave(w)
    /\ UNCHANGED <<tables, dirs, history, calls>>

Step(w) ==
    \/ Resolve(w) \/ CheckAlias(w) \/ FindRoot(w) \/ ReadRow(w) \/ WriteRow(w)
    \/ CheckOwner(w) \/ AssignAlias(w) \/ RecordState(w) \/ LinkJira(w)
    \/ DropAliases(w) \/ DropMappings(w) \/ ClearRow(w) \/ MarkDraft(w)
    \/ PickProject(w) \/ InferAlias(w) \/ InferMapping(w) \/ MarkState(w) \/ MarkMigrated(w)

Call(w) ==
    \/ Backfill(w)
    \/ \E p \in Ids :
         \/ LinkTracker(w, p) \/ SetTrackerMapping(w, p) \/ Purge(w, p)
         \/ \E validation \in {"ok", "error"} : SetRegistrationState(w, p, "blocked", validation)
         \/ \E kind \in {"detach", "unregister"} : Remove(w, p, kind)
         \/ \E a \in Aliases :
              \/ \E n \in Named, allow \in BOOLEAN : Register(w, p, a, n[1], n[2], allow)
              \/ \E u \in Remotes : RegisterCommand(w, p, a, u)

Next == \E w \in Procs : Call(w) \/ Step(w) \/ Fail(w)

Spec == Init /\ [][Next]_vars

-----------------------------------------------------------------------------
States == [status : {"none", "draft", "registered", "blocked"},
           validation : {"none", "ok", "warn", "error"}]

Kinds == {"none", "register", "command", "backfill", "detach", "unregister"}
ProjectRows == [name : Aliases \cup {None}, root : Roots \cup {None}, remote : Remotes \cup {None},
                status : {"absent", "active", "deindexed", "detached", "disabled"}]
AliasRows == [id : Nat, owner : Ids \cup {None}, primary : BOOLEAN]
Executing == [pc : Pcs, id : Ids \cup {None}, alias : Aliases \cup {None}, root : Roots \cup {None},
              remote : Remotes \cup {None}, target : Ids \cup {None}, reuse : BOOLEAN,
              allow : BOOLEAN, found : BOOLEAN, row : Nat, kind : Kinds,
              todo : SUBSET [id : Ids, names : SUBSET Aliases], names : SUBSET Aliases]

\* Every row and every step of a command is one the code can write or be in.
TypeOK ==
    /\ projects \in [Ids -> ProjectRows] /\ aliases \in [Aliases -> AliasRows] /\ rows \in Nat
    /\ mappings \in [Ids -> {"none", "linked", "inferred"}] /\ states \in [Ids -> States]
    /\ migrated \subseteq Ids /\ raced \subseteq Ids /\ lent \subseteq Aliases /\ byHand \in BOOLEAN
    /\ dirs \in [Dirs -> Remotes \cup {None}] /\ work \in [Procs -> Executing]
    /\ calls \in Nat /\ faults \in Nat

\* Two projects never have one root, and one without a row has none.
OneProjectPerRoot ==
    /\ \A p, q \in Ids : projects[p].root = projects[q].root => p = q \/ projects[p].root = None
    /\ \A p \in Ids : ~Exists(p) => projects[p] = Absent

\* An alias leads to a project that has a row.  getProjectByAlias joins the two, so an alias that
\* outlives its project is taken and yet resolves to nothing.  It can only happen to a project that
\* was purged while another process was registering or filling it.
AliasesBacked ==
    \A a \in Aliases : aliases[a].owner \in {None} \cup raced \cup {p \in Ids : Exists(p)}

\* Two projects never claim one remote, whatever the order in which two processes resolve, clone
\* and write: the second finds the first, or its clone, or is refused.  Only a call that names a
\* remote itself, or gives a project another root, undoes this.
OneProjectPerRemote ==
    \A p, q \in Ids :
        p # q /\ projects[p].remote = projects[q].remote => projects[p].remote = None \/ byHand

\* An alias leaves one project for another only by a call that was allowed to take it, or on its
\* way back from one: the check of the alias is made against the project the call names, the write
\* against the one that has the repository, and in between the alias may come and go.
AliasMovesByIntent ==
    [][\A a \in Aliases :
          LET p == aliases[a].owner  q == aliases'[a].owner IN
            p # q /\ {p, q} \subseteq Ids => a \in lent']_vars
=============================================================================
