------------------------ MODULE ProjectRegistryProofs ------------------------
(***************************************************************************)
(* Theorems about ProjectRegistry, for any number of processes, projects,  *)
(* aliases and remotes and any interleaving of their statements: no alias  *)
(* outlives its project unnoticed, no two projects have one root or one    *)
(* remote, and an alias changes hands on purpose only.                     *)
(***************************************************************************)
EXTENDS ProjectRegistry, TLAPS

Backed(p) == p \in raced \/ Exists(p)

\* An alias row has an id and an owner, and no id that is still to be given.
RowsNumbered ==
    \A a \in Aliases : /\ aliases[a].id <= rows
                       /\ aliases[a].id = 0 <=> aliases[a].owner = None

\* A remote has one clone: the preferred directory, or else its own beside it.
OneClone ==
    \A u \in Remotes, d \in Dirs : dirs[d] = u =>
        d = Preferred \/ (d = ConflictDir[u] /\ dirs[Preferred] \notin {None, u})

Cloned(root, u) == root \in Dirs /\ dirs[root] = u

\* A project with a remote has the remote's clone for its root, until a call sets one by hand.
RootsAreClones ==
    ~byHand => \A p \in Ids : projects[p].remote # None => Cloned(projects[p].root, projects[p].remote)

\* What a process carries from statement to statement: it knows what it works on;
Carries(k) ==
    /\ k.pc \in {"resolve", "alias", "root"} => k.id \in Ids /\ k.alias \in Aliases
    /\ k.pc = "resolve" => k.remote \in Remotes
    /\ k.pc \in {"row", "write", "own", "assign", "state"} => k.target \in Ids /\ k.alias \in Aliases
    /\ k.pc \in {"jira", "unalias", "unmap", "clear", "draft", "infer", "map", "mark", "migrate"} =>
         k.target \in Ids

\* the directory it has resolved is the remote's;
Resolved(k) ==
    ~byHand /\ k.pc \in {"alias", "root", "row", "write"} /\ k.kind # "register" /\ k.remote # None =>
        Cloned(k.root, k.remote)

\* the project it gives an alias to has a row, or had one until it was purged meanwhile;
GivesToBacked(k) ==
    /\ k.pc \in {"own", "assign", "infer"} => Backed(k.target)
    /\ k.pc = "write" /\ k.found => Backed(k.target)
    /\ \A row \in k.todo : Backed(row.id)

\* and the alias row it has read is its own, or was lent, if it is still there.
ReadsOwn(k) ==
    /\ k.row <= rows
    /\ k.pc = "assign" /\ k.row # 0 /\ ~k.allow /\ aliases[k.alias].id = k.row =>
         aliases[k.alias].owner = k.target \/ k.alias \in lent

WorkOK(k) == Carries(k) /\ Resolved(k) /\ GivesToBacked(k) /\ ReadsOwn(k)

TablesOK == RowsNumbered /\ OneProjectPerRoot /\ OneClone /\ RootsAreClones /\ AliasesBacked

IInv == TypeOK /\ TablesOK /\ \A w \in Procs : WorkOK(work[w])

-----------------------------------------------------------------------------
LEMMA NoWorkOK == NoWork \in Executing /\ (rows \in Nat => WorkOK(NoWork))
BY DEF NoWork, Executing, Pcs, Kinds, WorkOK, Carries, Resolved, GivesToBacked, ReadsOwn

LEMMA InitIInv == Init => IInv
<1> SUFFICES ASSUME Init PROVE IInv
  OBVIOUS
<1>1. TypeOK
  BY NoWorkOK DEF Init, TypeOK, Absent, NoAlias, NoState, ProjectRows, AliasRows, States
<1>2. TablesOK
  BY NoneAssumption DEF Init, TablesOK, RowsNumbered, OneProjectPerRoot, OneClone, RootsAreClones,
     AliasesBacked, Exists, Absent, NoAlias
<1>3. \A w \in Procs : WorkOK(work[w])
  BY NoWorkOK DEF Init
<1> QED BY <1>1, <1>2, <1>3 DEF IInv

\* A statement that reads, or writes a table no other table depends on, keeps the invariant if
\* what its process carries is in order.
LEMMA WorkKeeps ==
    ASSUME IInv, NEW w \in Procs,
           UNCHANGED <<projects, aliases, rows, dirs, raced, lent, byHand>>,
           mappings' \in [Ids -> {"none", "linked", "inferred"}], states' \in [Ids -> States],
           migrated' \subseteq Ids, calls' \in Nat, faults' \in Nat,
           work' \in [Procs -> Executing], \A v \in Procs \ {w} : work'[v] = work[v],
           WorkOK(work'[w])
    PROVE  IInv'
<1>1. TypeOK'
  BY DEF IInv, TypeOK
<1>2. TablesOK'
  BY DEF IInv, TablesOK, RowsNumbered, OneProjectPerRoot, OneClone, Cloned, RootsAreClones,
         AliasesBacked, Exists
<1>3. \A k : WorkOK(k) => WorkOK(k)'
  BY DEF WorkOK, Carries, Resolved, Cloned, GivesToBacked, Backed, Exists, ReadsOwn
<1>4. ASSUME NEW v \in Procs PROVE WorkOK(work[v])'
  <2>1. WorkOK(work'[v])
    BY DEF IInv
  <2>2. PICK k : k = work'[v]
    OBVIOUS
  <2>3. WorkOK(k)'
    BY <1>3, <2>1, <2>2
  <2> QED BY <2>2, <2>3 DEF WorkOK, Carries, Resolved, Cloned, GivesToBacked, Backed, Exists, ReadsOwn
<1> QED BY <1>1, <1>2, <1>4 DEF IInv

\* So does one that ends the command.
LEMMA LeaveKeeps ==
    ASSUME IInv, NEW w \in Procs, Leave(w),
           UNCHANGED <<projects, aliases, rows, dirs, raced, lent, byHand>>,
           mappings' \in [Ids -> {"none", "linked", "inferred"}], states' \in [Ids -> States],
           migrated' \subseteq Ids, calls' \in Nat, faults' \in Nat
    PROVE  IInv'
<1>1. work' = [work EXCEPT ![w] = NoWork] /\ work \in [Procs -> Executing] /\ rows \in Nat
  BY DEF Leave, IInv, TypeOK
<1>2. /\ work' \in [Procs -> Executing] /\ work'[w] = NoWork
      /\ \A v \in Procs \ {w} : work'[v] = work[v]
  BY <1>1, NoWorkOK
<1> QED BY <1>1, <1>2, NoWorkOK, WorkKeeps

\* A step of which only the next statement is to be remembered.
LEMMA StepsOn ==
    ASSUME NEW k \in Executing, NEW pc \in Pcs
    PROVE  LET r == [k EXCEPT !.pc = pc] IN
             /\ r \in Executing /\ r.pc = pc
             /\ r.id = k.id /\ r.alias = k.alias /\ r.root = k.root /\ r.remote = k.remote
             /\ r.target = k.target /\ r.allow = k.allow /\ r.found = k.found /\ r.row = k.row
             /\ r.todo = k.todo /\ r.names = k.names /\ r.kind = k.kind
BY DEF Executing

LEMMA GotoKeeps ==
    ASSUME IInv, NEW w \in Procs, NEW pc \in Pcs, Goto(w, pc),
           \/ pc = "root" /\ work[w].pc = "alias"
           \/ pc = "pick"
           \/ pc \in {"jira", "unmap", "clear", "draft", "map", "mark", "migrate"}
              /\ work[w].target \in Ids,
           UNCHANGED <<projects, aliases, rows, dirs, raced, lent, byHand>>,
           mappings' \in [Ids -> {"none", "linked", "inferred"}], states' \in [Ids -> States],
           migrated' \subseteq Ids, calls' \in Nat, faults' \in Nat
    PROVE  IInv'
<1>1. work \in [Procs -> Executing] /\ work' = [work EXCEPT ![w].pc = pc]
  BY DEF Goto, IInv, TypeOK
<1>2. work'[w] = [work[w] EXCEPT !.pc = pc] /\ \A v \in Procs \ {w} : work'[v] = work[v]
  BY <1>1
<1>3. work' \in [Procs -> Executing]
  BY <1>1, StepsOn
<1> DEFINE r == [work[w] EXCEPT !.pc = pc]
<1>4. work[w] \in Executing /\ WorkOK(work[w])
  BY DEF IInv, TypeOK
<1>5. /\ r.pc = pc /\ r.id = work[w].id /\ r.alias = work[w].alias /\ r.root = work[w].root
      /\ r.remote = work[w].remote /\ r.target = work[w].target /\ r.row = work[w].row
      /\ r.todo = work[w].todo /\ r.kind = work[w].kind
  BY <1>4, StepsOn
<1> HIDE DEF r
<1>6. WorkOK(r)
  BY <1>4, <1>5 DEF WorkOK, Carries, Resolved, GivesToBacked, ReadsOwn
<1>7. WorkOK(work'[w])
  BY <1>2, <1>6 DEF r
<1> QED BY <1>2, <1>3, <1>7, WorkKeeps

\* A command begins: nothing is read yet.
LEMMA BeginKeeps ==
    ASSUME IInv, NEW w \in Procs, NEW r \in Executing, Begin(w, r), WorkOK(r),
           UNCHANGED <<projects, aliases, rows>>,
           mappings' \in [Ids -> {"none", "linked", "inferred"}], states' \in [Ids -> States],
           migrated' \subseteq Ids
    PROVE  IInv'
<1>1. /\ work' = [work EXCEPT ![w] = r] /\ calls' = calls + 1
      /\ UNCHANGED <<dirs, raced, lent, byHand, faults>>
  BY DEF Begin, history
<1>2. /\ work' \in [Procs -> Executing] /\ work'[w] = r
      /\ \A v \in Procs \ {w} : work'[v] = work[v]
  BY <1>1 DEF IInv, TypeOK
<1>3. calls' \in Nat /\ faults' \in Nat
  BY <1>1 DEF IInv, TypeOK
<1> QED BY <1>1, <1>2, <1>3, WorkKeeps

LEMMA RegisterKeeps ==
    ASSUME IInv, NEW w \in Procs, NEW p \in Ids, NEW a \in Aliases,
           \/ \E n \in Named, allow \in BOOLEAN : Register(w, p, a, n[1], n[2], allow)
           \/ \E u \in Remotes : RegisterCommand(w, p, a, u)
    PROVE  IInv'
<1>1. UNCHANGED <<projects, aliases, rows, mappings, states, migrated>>
  BY DEF Register, RegisterCommand, tables
<1>2. /\ mappings' \in [Ids -> {"none", "linked", "inferred"}] /\ states' \in [Ids -> States]
      /\ migrated' \subseteq Ids /\ rows \in Nat
  BY <1>1 DEF IInv, TypeOK
<1>3. ASSUME NEW n \in Named, NEW allow \in BOOLEAN, Register(w, p, a, n[1], n[2], allow)
      PROVE  IInv'
  <2> DEFINE r == [NoWork EXCEPT !.pc = "alias", !.kind = "register", !.id = p, !.alias = a,
                                 !.root = n[1], !.remote = n[2], !.allow = allow]
  <2>1. Begin(w, r)
    BY <1>3 DEF Register
  <2>2. r \in Executing
    <3>1. n[1] \in Roots \cup {None} /\ n[2] \in Remotes \cup {None}
      BY NamedAssumption
    <3> QED BY <3>1, NoWorkOK DEF Executing, Pcs, Kinds
  <2>3. /\ r.pc = "alias" /\ r.id = p /\ r.alias = a /\ r.kind = "register" /\ r.row = 0
        /\ r.todo = {}
    BY DEF NoWork
  <2>4. WorkOK(r)
    BY <1>2, <2>3 DEF WorkOK, Carries, Resolved, GivesToBacked, ReadsOwn
  <2> HIDE DEF r
  <2> QED BY <1>1, <1>2, <2>1, <2>2, <2>4, BeginKeeps
<1>4. ASSUME NEW u \in Remotes, RegisterCommand(w, p, a, u) PROVE IInv'
  <2> DEFINE r == [NoWork EXCEPT !.pc = "resolve", !.kind = "command", !.id = p,
                                 !.alias = a, !.remote = u]
  <2>1. Begin(w, r)
    BY <1>4 DEF RegisterCommand
  <2>2. r \in Executing
    BY NoWorkOK DEF Executing, Pcs, Kinds
  <2>3. /\ r.pc = "resolve" /\ r.id = p /\ r.alias = a /\ r.remote = u /\ r.row = 0
        /\ r.todo = {}
    BY DEF NoWork
  <2>4. WorkOK(r)
    BY <1>2, <2>3 DEF WorkOK, Carries, Resolved, GivesToBacked, ReadsOwn
  <2> HIDE DEF r
  <2> QED BY <1>1, <1>2, <2>1, <2>2, <2>4, BeginKeeps
<1> QED BY <1>3, <1>4

\* The commands that set one row and look at nothing, and the one that links a tracker.
LEMMA SettersKeep ==
    ASSUME IInv, NEW w \in Procs, NEW p \in Ids,
           \/ LinkTracker(w, p) \/ SetTrackerMapping(w, p)
           \/ \E validation \in {"ok", "error"} : SetRegistrationState(w, p, "blocked", validation)
    PROVE  IInv'
<1>1. UNCHANGED <<projects, aliases, rows, migrated>>
  BY DEF LinkTracker, SetTrackerMapping, SetRegistrationState, tables
<1>2. /\ mappings' \in [Ids -> {"none", "linked", "inferred"}] /\ migrated' \subseteq Ids
      /\ rows \in Nat
  BY <1>1 DEF IInv, TypeOK, LinkTracker, SetTrackerMapping, SetRegistrationState, tables
<1>3. states' \in [Ids -> States]
  <2>1. CASE UNCHANGED states
    BY <2>1 DEF IInv, TypeOK
  <2>2. CASE \E validation \in {"ok", "error"} : SetRegistrationState(w, p, "blocked", validation)
    BY <2>2 DEF IInv, TypeOK, SetRegistrationState, States
  <2> QED BY <2>1, <2>2 DEF LinkTracker, SetTrackerMapping, tables
<1>4. CASE LinkTracker(w, p)
  <2> DEFINE r == [NoWork EXCEPT !.pc = "jira", !.target = p]
  <2>1. Begin(w, r)
    BY <1>4 DEF LinkTracker
  <2>2. r \in Executing
    BY NoWorkOK DEF Executing, Pcs
  <2>3. r.pc = "jira" /\ r.target = p /\ r.row = 0 /\ r.todo = {}
    BY DEF NoWork
  <2>4. WorkOK(r)
    BY <1>2, <2>3 DEF WorkOK, Carries, Resolved, GivesToBacked, ReadsOwn
  <2> HIDE DEF r
  <2> QED BY <1>1, <1>2, <1>3, <2>1, <2>2, <2>4, BeginKeeps
<1>5. CASE Begin(w, NoWork)
  BY <1>1, <1>2, <1>3, <1>5, NoWorkOK, BeginKeeps
<1> QED BY <1>4, <1>5 DEF SetTrackerMapping, SetRegistrationState

LEMMA BackfillKeeps ==
    ASSUME IInv, NEW w \in Procs, Backfill(w)
    PROVE  IInv'
<1> DEFINE all == {[id |-> p, names |-> Inferred(p)] : p \in {q \in Ids : Exists(q)}}
           r == [NoWork EXCEPT !.pc = "pick", !.kind = "backfill", !.todo = all]
<1>1. UNCHANGED <<projects, aliases, rows, mappings, states, migrated>>
  BY DEF Backfill, tables
<1>2. /\ mappings' \in [Ids -> {"none", "linked", "inferred"}] /\ states' \in [Ids -> States]
      /\ migrated' \subseteq Ids /\ rows \in Nat
  BY <1>1 DEF IInv, TypeOK
<1>3. \A p \in Ids : projects[p].root \in Roots \cup {None} /\ projects[p].remote \in Remotes \cup {None}
  BY DEF IInv, TypeOK, ProjectRows
<1>4. \A p \in Ids : Inferred(p) \subseteq Aliases
  BY <1>3, NamesAssumption DEF Inferred
<1>5. all \subseteq [id : Ids, names : SUBSET Aliases]
  BY <1>4
<1>6. \A row \in all : Exists(row.id)
  OBVIOUS
<1>7. Begin(w, r)
  BY DEF Backfill
<1> HIDE DEF all
<1>8. r \in Executing
  <2>1. "pick" \in Pcs /\ "backfill" \in Kinds /\ NoWork \in Executing
    BY NoWorkOK DEF Pcs, Kinds
  <2> QED BY <1>5, <2>1 DEF Executing
<1>9. r.pc = "pick" /\ r.row = 0 /\ r.todo = all
  BY DEF NoWork
<1>10. WorkOK(r)
  BY <1>2, <1>6, <1>9 DEF WorkOK, Carries, Resolved, GivesToBacked, Backed, ReadsOwn
<1> HIDE DEF r
<1> QED BY <1>1, <1>2, <1>7, <1>8, <1>10, BeginKeeps

-----------------------------------------------------------------------------
LEMMA CheckAliasKeeps ==
    ASSUME IInv, NEW w \in Procs, CheckAlias(w)
    PROVE  IInv'
<1>1. /\ work[w].pc = "alias"
      /\ Leave(w) \/ Goto(w, "root")
      /\ UNCHANGED <<projects, aliases, rows, mappings, states, migrated, dirs, raced, lent, byHand,
                     calls, faults>>
  BY DEF CheckAlias, At, tables, history, bounds
<1>2. CASE Leave(w)
  BY <1>1, <1>2, LeaveKeeps DEF IInv, TypeOK
<1>3. CASE Goto(w, "root")
  <2>1. "root" \in Pcs
    BY DEF Pcs
  <2> QED BY <1>1, <1>3, <2>1, GotoKeeps DEF IInv, TypeOK
<1> QED BY <1>1, <1>2, <1>3

LEMMA FindRootKeeps ==
    ASSUME IInv, NEW w \in Procs, FindRoot(w)
    PROVE  IInv'
<1>1. PICK p \in Targets(w) : work' = [work EXCEPT ![w].pc = "row", ![w].target = p]
  BY DEF FindRoot
<1>2. /\ work[w].pc = "root"
      /\ UNCHANGED <<projects, aliases, rows, mappings, states, migrated, dirs, raced, lent, byHand,
                     calls, faults>>
  BY DEF FindRoot, At, tables, history, bounds
<1>3. work[w] \in Executing /\ WorkOK(work[w]) /\ work[w].id \in Ids
  BY <1>2 DEF IInv, TypeOK, WorkOK, Carries
<1>4. p \in Ids
  BY <1>3 DEF Targets
<1>5. work'[w] = [work[w] EXCEPT !.pc = "row", !.target = p] /\ work \in [Procs -> Executing]
      /\ \A v \in Procs \ {w} : work'[v] = work[v]
  BY <1>1 DEF IInv, TypeOK
<1>6. /\ work'[w].pc = "row" /\ work'[w].target = p /\ work'[w].row = work[w].row
      /\ work'[w].remote = work[w].remote /\ work'[w].root = work[w].root
      /\ work'[w].todo = work[w].todo /\ work'[w].alias = work[w].alias
      /\ work'[w].kind = work[w].kind /\ work'[w] \in Executing
  <2>1. "row" \in Pcs
    BY DEF Pcs
  <2>2. [work[w] EXCEPT !.pc = "row", !.target = p] \in Executing
    BY <1>3, <1>4, <2>1 DEF Executing
  <2> QED BY <1>3, <1>5, <2>2 DEF Executing
<1>7. work' \in [Procs -> Executing]
  BY <1>1, <1>5, <1>6
<1>8. WorkOK(work'[w])
  BY <1>2, <1>3, <1>4, <1>6 DEF WorkOK, Carries, Resolved, GivesToBacked, ReadsOwn
<1> QED BY <1>2, <1>5, <1>7, <1>8, WorkKeeps DEF IInv, TypeOK

LEMMA ReadRowKeeps ==
    ASSUME IInv, NEW w \in Procs, ReadRow(w)
    PROVE  IInv'
<1>1. /\ work' = [work EXCEPT ![w].pc = "write", ![w].found = Exists(work[w].target)]
      /\ work[w].pc = "row"
      /\ UNCHANGED <<projects, aliases, rows, mappings, states, migrated, dirs, raced, lent, byHand,
                     calls, faults>>
  BY DEF ReadRow, At, tables, history, bounds
<1>2. work[w] \in Executing /\ WorkOK(work[w]) /\ work \in [Procs -> Executing]
  BY DEF IInv, TypeOK
<1> DEFINE r == [work[w] EXCEPT !.pc = "write", !.found = Exists(work[w].target)]
<1>3. work'[w] = r /\ \A v \in Procs \ {w} : work'[v] = work[v]
  BY <1>1, <1>2
<1>4. /\ r.pc = "write" /\ r.id = work[w].id /\ r.alias = work[w].alias /\ r.root = work[w].root
      /\ r.remote = work[w].remote /\ r.target = work[w].target /\ r.row = work[w].row
      /\ r.todo = work[w].todo /\ r.found = Exists(work[w].target) /\ r.kind = work[w].kind
  BY <1>2 DEF Executing
<1>5. r \in Executing
  <2>1. Exists(work[w].target) \in BOOLEAN
    BY DEF Exists
  <2> QED BY <1>2, <2>1 DEF Executing, Pcs
<1> HIDE DEF r
<1>6. Carries(r) /\ Resolved(r) /\ ReadsOwn(r)
  BY <1>1, <1>2, <1>4 DEF WorkOK, Carries, Resolved, ReadsOwn
<1>7. GivesToBacked(r)
  BY <1>1, <1>2, <1>4 DEF WorkOK, GivesToBacked, Backed
<1>8. WorkOK(work'[w]) /\ work' \in [Procs -> Executing]
  BY <1>1, <1>2, <1>3, <1>5, <1>6, <1>7 DEF WorkOK
<1> QED BY <1>1, <1>3, <1>8, WorkKeeps DEF IInv, TypeOK

LEMMA CheckOwnerKeeps ==
    ASSUME IInv, NEW w \in Procs, CheckOwner(w)
    PROVE  IInv'
<1>1. /\ work[w].pc = "own"
      /\ UNCHANGED <<projects, aliases, rows, mappings, states, migrated, dirs, raced, lent, byHand,
                     calls, faults>>
  BY DEF CheckOwner, At, tables, history, bounds
<1>2. CASE Leave(w)
  BY <1>1, <1>2, LeaveKeeps DEF IInv, TypeOK
<1>3. CASE ~Leave(w)
  <2> DEFINE id == aliases[work[w].alias].id
             r == [work[w] EXCEPT !.pc = "assign", !.row = id]
  <2>1. /\ aliases[work[w].alias].owner \in {None, work[w].target} \/ work[w].allow
        /\ work' = [work EXCEPT ![w].pc = "assign", ![w].row = id]
    BY <1>3 DEF CheckOwner
  <2>2. /\ work[w] \in Executing /\ WorkOK(work[w]) /\ work \in [Procs -> Executing]
        /\ work[w].alias \in Aliases
    BY <1>1 DEF IInv, TypeOK, WorkOK, Carries
  <2>3. id \in Nat /\ id <= rows /\ (id = 0 <=> aliases[work[w].alias].owner = None)
    BY <2>2 DEF IInv, TypeOK, TablesOK, RowsNumbered, AliasRows
  <2> HIDE DEF id
  <2>4. work'[w] = r /\ \A v \in Procs \ {w} : work'[v] = work[v]
    BY <2>1, <2>2
  <2>5. /\ r.pc = "assign" /\ r.alias = work[w].alias /\ r.target = work[w].target
        /\ r.remote = work[w].remote /\ r.row = id /\ r.todo = work[w].todo
        /\ r.allow = work[w].allow /\ r \in Executing
    BY <2>2, <2>3 DEF Executing, Pcs
  <2> HIDE DEF r
  <2>6. Carries(r) /\ Resolved(r) /\ GivesToBacked(r)
    BY <1>1, <2>2, <2>5 DEF WorkOK, Carries, Resolved, GivesToBacked
  <2>7. ReadsOwn(r)
    BY <2>1, <2>3, <2>5 DEF ReadsOwn
  <2>8. WorkOK(work'[w]) /\ work' \in [Procs -> Executing]
    BY <2>1, <2>2, <2>4, <2>5, <2>6, <2>7 DEF WorkOK
  <2> QED BY <1>1, <2>4, <2>8, WorkKeeps DEF IInv, TypeOK
<1> QED BY <1>2, <1>3

\* What is written beside projects and aliases.
LEMMA RecordsKeep ==
    ASSUME IInv, NEW w \in Procs,
           \/ RecordState(w) \/ LinkJira(w) \/ DropMappings(w) \/ MarkDraft(w)
           \/ InferMapping(w) \/ MarkState(w) \/ MarkMigrated(w) \/ Fail(w)
    PROVE  IInv'
<1>1. UNCHANGED <<projects, aliases, rows, dirs, raced, lent, byHand>>
  BY DEF RecordState, LinkJira, DropMappings, MarkDraft, InferMapping, MarkState, MarkMigrated,
         Fail, tables, history
<1>2. calls' \in Nat /\ faults' \in Nat
  BY DEF RecordState, LinkJira, DropMappings, MarkDraft, InferMapping, MarkState, MarkMigrated,
         Fail, bounds, IInv, TypeOK
<1>3. Carries(work[w])
  BY DEF IInv, WorkOK
<1>4. mappings' \in [Ids -> {"none", "linked", "inferred"}]
  BY DEF RecordState, LinkJira, DropMappings, MarkDraft, InferMapping, MarkState, MarkMigrated,
         Fail, tables, IInv, TypeOK
<1>5. states' \in [Ids -> States]
  <2>1. CASE RecordState(w)
    BY <2>1 DEF RecordState, IInv, TypeOK, States
  <2>2. CASE MarkDraft(w)
    BY <2>2 DEF MarkDraft, IInv, TypeOK, States
  <2>3. CASE MarkState(w)
    BY <2>3 DEF MarkState, Complete, IInv, TypeOK, States
  <2>4. CASE UNCHANGED states
    BY <2>4 DEF IInv, TypeOK
  <2> QED BY <2>1, <2>2, <2>3, <2>4 DEF LinkJira, DropMappings, InferMapping, MarkMigrated, Fail, tables
<1>6. migrated' \subseteq Ids
  BY <1>3 DEF RecordState, LinkJira, DropMappings, MarkDraft, InferMapping, MarkState, MarkMigrated,
         Fail, tables, At, Carries, IInv, TypeOK
<1>7. \/ Leave(w)
      \/ \E pc \in {"jira", "clear", "mark", "migrate"} : Goto(w, pc) /\ work[w].target \in Ids
      \/ Goto(w, "pick")
  BY <1>3 DEF RecordState, LinkJira, DropMappings, MarkDraft, InferMapping, MarkState, MarkMigrated,
         Fail, At, Carries
<1>8. {"jira", "clear", "mark", "migrate", "pick"} \subseteq Pcs
  BY DEF Pcs
<1> QED BY <1>1, <1>2, <1>4, <1>5, <1>6, <1>7, <1>8, LeaveKeeps, GotoKeeps

LEMMA PickProjectKeeps ==
    ASSUME IInv, NEW w \in Procs, PickProject(w)
    PROVE  IInv'
<1>1. /\ work[w].pc = "pick"
      /\ UNCHANGED <<projects, aliases, rows, mappings, states, migrated, dirs, raced, lent, byHand,
                     calls, faults>>
  BY DEF PickProject, At, tables, history, bounds
<1>2. CASE Leave(w)
  BY <1>1, <1>2, LeaveKeeps DEF IInv, TypeOK
<1>3. CASE ~Leave(w)
  <2>1. PICK row \in work[w].todo :
          work' = [work EXCEPT ![w].pc = "infer", ![w].target = row.id,
                               ![w].names = row.names, ![w].todo = @ \ {row}]
    BY <1>3 DEF PickProject
  <2>2. work[w] \in Executing /\ WorkOK(work[w]) /\ work \in [Procs -> Executing]
    BY DEF IInv, TypeOK
  <2>3. row.id \in Ids /\ row.names \subseteq Aliases /\ Backed(row.id)
    BY <2>2 DEF Executing, WorkOK, GivesToBacked
  <2> DEFINE r == [work[w] EXCEPT !.pc = "infer", !.target = row.id,
                                  !.names = row.names, !.todo = @ \ {row}]
  <2>4. work'[w] = r /\ \A v \in Procs \ {w} : work'[v] = work[v]
    BY <2>1, <2>2
  <2>5. /\ r.pc = "infer" /\ r.target = row.id /\ r.remote = work[w].remote
        /\ r.row = work[w].row /\ r.todo = work[w].todo \ {row} /\ r \in Executing
    BY <2>2, <2>3 DEF Executing, Pcs
  <2> HIDE DEF r
  <2>6. Carries(r) /\ Resolved(r) /\ GivesToBacked(r) /\ ReadsOwn(r)
    BY <2>2, <2>3, <2>5 DEF WorkOK, Carries, Resolved, GivesToBacked, ReadsOwn
  <2>7. WorkOK(work'[w]) /\ work' \in [Procs -> Executing]
    BY <2>1, <2>2, <2>4, <2>5, <2>6 DEF WorkOK
  <2> QED BY <1>1, <2>4, <2>7, WorkKeeps DEF IInv, TypeOK
<1> QED BY <1>2, <1>3

LEMMA InferAliasKeeps ==
    ASSUME IInv, NEW w \in Procs, InferAlias(w)
    PROVE  IInv'
<1>1. /\ work[w].pc = "infer"
      /\ UNCHANGED <<projects, aliases, rows, mappings, states, migrated, dirs, raced, lent, byHand,
                     calls, faults>>
  BY DEF InferAlias, At, tables, history, bounds
<1>2. work[w] \in Executing /\ WorkOK(work[w]) /\ work \in [Procs -> Executing]
  BY DEF IInv, TypeOK
<1>3. work[w].target \in Ids
  BY <1>1, <1>2 DEF WorkOK, Carries
<1>4. CASE Goto(w, "map")
  BY <1>1, <1>3, <1>4, GotoKeeps DEF IInv, TypeOK, Pcs
<1>5. CASE ~Goto(w, "map")
  <2>1. PICK a \in work[w].names :
          work' = [work EXCEPT ![w].pc = "own", ![w].alias = a, ![w].names = @ \ {a}]
    BY <1>5 DEF InferAlias
  <2>2. a \in Aliases
    BY <1>2 DEF Executing
  <2> DEFINE r == [work[w] EXCEPT !.pc = "own", !.alias = a, !.names = @ \ {a}]
  <2>3. work'[w] = r /\ \A v \in Procs \ {w} : work'[v] = work[v]
    BY <2>1, <1>2
  <2>4. /\ r.pc = "own" /\ r.target = work[w].target /\ r.remote = work[w].remote /\ r.alias = a
        /\ r.row = work[w].row /\ r.todo = work[w].todo /\ r \in Executing
    BY <1>2, <2>2 DEF Executing, Pcs
  <2> HIDE DEF r
  <2>5. Carries(r) /\ Resolved(r) /\ GivesToBacked(r) /\ ReadsOwn(r)
    BY <1>1, <1>2, <1>3, <2>2, <2>4 DEF WorkOK, Carries, Resolved, GivesToBacked, ReadsOwn
  <2>6. WorkOK(work'[w]) /\ work' \in [Procs -> Executing]
    BY <1>2, <2>1, <2>3, <2>4, <2>5 DEF WorkOK
  <2> QED BY <1>1, <2>3, <2>6, WorkKeeps DEF IInv, TypeOK
<1> QED BY <1>4, <1>5

-----------------------------------------------------------------------------
\* Statements of one process that do not take away what another one carries: clones stay, what is
\* backed stays so, and a row that is still there has its owner or was lent.
LEMMA OthersUndisturbed ==
    ASSUME IInv, NEW k \in Executing, WorkOK(k),
           byHand => byHand', lent \subseteq lent', rows' \in Nat, rows <= rows',
           \A d \in Dirs : dirs[d] # None => dirs'[d] = dirs[d],
           \A p \in Ids : Backed(p) /\ (p = k.target \/ \E row \in k.todo : row.id = p) => Backed(p)',
           \A a \in Aliases :
              \/ aliases'[a].id = 0 \/ aliases'[a].id > rows
              \/ /\ aliases'[a].id = aliases[a].id
                 /\ aliases'[a].owner = aliases[a].owner \/ a \in lent'
    PROVE  WorkOK(k)'
<1>1. Carries(k)'
  BY DEF WorkOK, Carries
<1>2. Resolved(k)'
  BY DEF WorkOK, Resolved, Cloned
<1>3. GivesToBacked(k)'
  <2>1. k.pc \in {"own", "assign", "infer", "write"} => k.target \in Ids
    BY DEF WorkOK, Carries
  <2>2. \A row \in k.todo : row.id \in Ids
    BY DEF Executing
  <2> QED BY <2>1, <2>2 DEF WorkOK, GivesToBacked
<1>4. ReadsOwn(k)'
  <2>1. k.row \in Nat /\ rows \in Nat /\ k.row <= rows
    BY DEF Executing, IInv, TypeOK, WorkOK, ReadsOwn
  <2>2. k.row <= rows'
    BY <2>1
  <2>3. ASSUME k.pc = "assign", k.row # 0, ~k.allow, aliases'[k.alias].id = k.row
        PROVE  aliases'[k.alias].owner = k.target \/ k.alias \in lent'
    <3>1. k.alias \in Aliases
      BY <2>3 DEF WorkOK, Carries
    <3>2. /\ aliases'[k.alias].id = aliases[k.alias].id
          /\ aliases'[k.alias].owner = aliases[k.alias].owner \/ k.alias \in lent'
      BY <2>1, <2>3, <3>1
    <3> QED BY <2>3, <3>1, <3>2 DEF WorkOK, ReadsOwn
  <2> QED BY <2>2, <2>3 DEF ReadsOwn
<1> QED BY <1>1, <1>2, <1>3, <1>4 DEF WorkOK

\* So a step that keeps the types, the tables and what its own process carries keeps the
\* invariant.
LEMMA StepKeeps ==
    ASSUME IInv, TypeOK', TablesOK', NEW w \in Procs, WorkOK(work[w])',
           \A v \in Procs \ {w} : work'[v] = work[v],
           byHand => byHand', lent \subseteq lent', rows <= rows',
           \A d \in Dirs : dirs[d] # None => dirs'[d] = dirs[d],
           \A p \in Ids : Backed(p) => Backed(p)',
           \A a \in Aliases :
              \/ aliases'[a].id = 0 \/ aliases'[a].id > rows
              \/ /\ aliases'[a].id = aliases[a].id
                 /\ aliases'[a].owner = aliases[a].owner \/ a \in lent'
    PROVE  IInv'
<1>1. ASSUME NEW v \in Procs \ {w} PROVE WorkOK(work[v])'
  <2>1. PICK k : k = work[v]
    OBVIOUS
  <2>2. k \in Executing /\ WorkOK(k) /\ rows' \in Nat
    BY <2>1 DEF IInv, TypeOK
  <2>3. WorkOK(k)'
    BY <2>2, OthersUndisturbed
  <2>4. k = work'[v]
    BY <2>1
  <2> QED BY <2>3, <2>4 DEF WorkOK, Carries, Resolved, Cloned, GivesToBacked, Backed, Exists, ReadsOwn
<1> QED BY <1>1 DEF IInv

\* The clone that a registration takes, and what it leaves to the others.
LEMMA ResolveKeeps ==
    ASSUME IInv, NEW w \in Procs, Resolve(w)
    PROVE  IInv'
<1> DEFINE u == work[w].remote
<1>1. /\ work[w].pc = "resolve"
      /\ UNCHANGED <<projects, aliases, rows, mappings, states, migrated, raced, lent, byHand,
                     calls, faults>>
  BY DEF Resolve, At, tables, history, bounds
<1>2. /\ work[w] \in Executing /\ WorkOK(work[w]) /\ work \in [Procs -> Executing]
      /\ u \in Remotes /\ u # None /\ work[w].id \in Ids /\ work[w].alias \in Aliases
  BY <1>1, NoneAssumption DEF IInv, TypeOK, WorkOK, Carries
<1>3. ASSUME NEW r \in Executing, r.pc = "alias", r.id = work[w].id, r.alias = work[w].alias,
             r.remote = u, r.row = work[w].row, r.todo = work[w].todo,
             ~byHand => r.root \in Dirs /\ dirs'[r.root] = u, work'[w] = r
      PROVE  WorkOK(work[w])'
  <2> HIDE DEF u
  <2>1. Carries(work[w])' /\ Resolved(work[w])'
    BY <1>1, <1>2, <1>3 DEF Carries, Resolved, Cloned
  <2>2. GivesToBacked(work[w])' /\ ReadsOwn(work[w])'
    BY <1>1, <1>2, <1>3 DEF WorkOK, GivesToBacked, Backed, Exists, ReadsOwn
  <2> QED BY <2>1, <2>2 DEF WorkOK
<1>4. CASE Leave(w) /\ UNCHANGED dirs
  BY <1>1, <1>4, LeaveKeeps DEF IInv, TypeOK
<1>5. CASE /\ UNCHANGED dirs
           /\ \E root \in KnownRoots(u) \ {None} :
                 work' = [work EXCEPT ![w].pc = "alias", ![w].root = root, ![w].reuse = TRUE]
  <2>1. PICK p \in Ids : /\ projects[p].remote = u /\ projects[p].root # None
                         /\ work' = [work EXCEPT ![w].pc = "alias", ![w].root = projects[p].root,
                                                 ![w].reuse = TRUE]
    BY <1>5 DEF KnownRoots
  <2> DEFINE root == projects[p].root
             r == [work[w] EXCEPT !.pc = "alias", !.root = root, !.reuse = TRUE]
  <2>2. root \in Roots /\ (~byHand => root \in Dirs /\ dirs'[root] = u)
    BY <1>2, <1>5, <2>1 DEF IInv, TypeOK, ProjectRows, TablesOK, RootsAreClones, Cloned
  <2> HIDE DEF root
  <2>3. work'[w] = r /\ \A v \in Procs \ {w} : work'[v] = work[v]
    BY <1>2, <2>1 DEF root
  <2>4. /\ r.pc = "alias" /\ r.id = work[w].id /\ r.alias = work[w].alias /\ r.root = root
        /\ r.remote = u /\ r.row = work[w].row /\ r.todo = work[w].todo /\ r \in Executing
    BY <1>2, <2>2 DEF Executing, Pcs
  <2> HIDE DEF r, u
  <2>5. work' \in [Procs -> Executing]
    BY <1>2, <2>1, <2>3, <2>4
  <2>6. WorkOK(work[w])'
    BY <1>3, <2>2, <2>3, <2>4
  <2>7. WorkOK(work'[w])
    BY <1>1, <1>5, <2>6 DEF WorkOK, Carries, Resolved, Cloned, GivesToBacked, Backed, Exists, ReadsOwn
  <2> QED BY <1>1, <1>5, <2>3, <2>5, <2>7, WorkKeeps DEF IInv, TypeOK
<1>6. CASE /\ ~CloneTarget(u).refused
           /\ dirs' = [dirs EXCEPT ![CloneTarget(u).dir] = u]
           /\ work' = [work EXCEPT ![w].pc = "alias", ![w].root = CloneTarget(u).dir]
  <2> DEFINE root == CloneTarget(u).dir
             r == [work[w] EXCEPT !.pc = "alias", !.root = root]
  <2>1. dirs \in [Dirs -> Remotes \cup {None}] /\ Preferred \in Dirs
    BY DEF IInv, TypeOK, Dirs
  <2>2. /\ root \in Dirs /\ dirs[root] \in {None, u}
        /\ root = Preferred \/ (root = ConflictDir[u] /\ dirs[Preferred] \notin {None, u})
    BY <1>2, <1>6, <2>1, DirsAssumption DEF CloneTarget
  <2> HIDE DEF root
  <2>3. dirs' = [dirs EXCEPT ![root] = u]
    BY <1>6 DEF root
  <2>4. /\ dirs' \in [Dirs -> Remotes \cup {None}] /\ dirs'[root] = u
        /\ \A d \in Dirs : dirs[d] # None => dirs'[d] = dirs[d]
    BY <1>2, <2>1, <2>2, <2>3
  <2>5. work'[w] = r /\ \A v \in Procs \ {w} : work'[v] = work[v]
    BY <1>2, <1>6 DEF root
  <2>6. /\ r.pc = "alias" /\ r.id = work[w].id /\ r.alias = work[w].alias /\ r.root = root
        /\ r.remote = u /\ r.row = work[w].row /\ r.todo = work[w].todo /\ r \in Executing
    BY <1>2, <2>2 DEF Executing, Pcs, Roots
  <2> HIDE DEF r
  <2>7. work' \in [Procs -> Executing]
    BY <1>2, <1>6, <2>5, <2>6 DEF root
  <2>8. TypeOK'
    BY <1>1, <2>4, <2>7 DEF IInv, TypeOK
  <2>9. WorkOK(work[w])'
    BY <1>3, <2>2, <2>4, <2>5, <2>6
  <2> HIDE DEF u
  <2>10. OneClone'
    <3> SUFFICES ASSUME NEW v \in Remotes, NEW d \in Dirs, dirs'[d] = v
                 PROVE  d = Preferred \/ (d = ConflictDir[v] /\ dirs'[Preferred] \notin {None, v})
      BY DEF OneClone
    <3>1. CASE d = root
      BY <1>2, <2>1, <2>2, <2>3, <2>4, <3>1, DirsAssumption
    <3>2. CASE d # root
      BY <2>1, <2>2, <2>3, <2>4, <3>2 DEF IInv, TablesOK, OneClone
    <3> QED BY <3>1, <3>2
  <2>11. RootsAreClones'
    <3>1. \A p \in Ids : projects[p].remote \in Remotes \cup {None}
      BY DEF IInv, TypeOK, ProjectRows
    <3> QED BY <1>1, <2>4, <3>1, NoneAssumption DEF IInv, TablesOK, RootsAreClones, Cloned
  <2>12. TablesOK'
    BY <1>1, <2>10, <2>11 DEF IInv, TablesOK, RowsNumbered, OneProjectPerRoot, AliasesBacked, Exists
  <2>13. /\ rows <= rows' /\ \A p \in Ids : Backed(p) => Backed(p)'
         /\ \A a \in Aliases : aliases'[a].id = aliases[a].id /\ aliases'[a].owner = aliases[a].owner
    BY <1>1 DEF Backed, Exists, IInv, TypeOK
  <2> QED BY <1>1, <2>4, <2>5, <2>8, <2>9, <2>12, <2>13, StepKeeps
<1> QED BY <1>4, <1>5, <1>6 DEF Resolve

\* The row: the index on the root, and the clone that goes with the remote.
LEMMA WriteRowKeeps ==
    ASSUME IInv, NEW w \in Procs, WriteRow(w)
    PROVE  IInv'
<1>0. PICK k, row : k = work[w] /\ row = Row(w)
  OBVIOUS
<1> DEFINE p == k.target
<1>1. /\ k = work[w] /\ row = Row(w) /\ k.pc = "write"
      /\ UNCHANGED <<aliases, rows, mappings, states, migrated, dirs, raced, lent, calls, faults>>
  BY <1>0 DEF WriteRow, At, bounds
<1>2. /\ k \in Executing /\ WorkOK(k) /\ work \in [Procs -> Executing]
      /\ p \in Ids /\ k.alias \in Aliases
  BY <1>1 DEF IInv, TypeOK, WorkOK, Carries
<1>3. byHand' = \/ byHand
                \/ \E q \in Ids : projects[q].root \notin {None, projects'[q].root}
                \/ k.kind = "register" /\ \E q \in Ids : projects[q].remote # projects'[q].remote
  BY <1>1 DEF WriteRow
<1>4. ASSUME Goto(w, "own")
      PROVE  /\ work'[w] = [k EXCEPT !.pc = "own"] /\ work' \in [Procs -> Executing]
             /\ \A v \in Procs \ {w} : work'[v] = work[v]
             /\ work'[w].pc = "own" /\ work'[w].target = p /\ work'[w].alias = k.alias
             /\ work'[w].row = k.row /\ work'[w].todo = k.todo
  <2>1. "own" \in Pcs /\ work' = [work EXCEPT ![w].pc = "own"]
    BY <1>4 DEF Goto, Pcs
  <2> QED BY <1>1, <1>2, <2>1, StepsOn
<1>5. CASE Leave(w) /\ UNCHANGED projects
  BY <1>1, <1>3, <1>5, LeaveKeeps DEF IInv, TypeOK
<1>6. CASE k.found /\ Goto(w, "own") /\ UNCHANGED projects
  <2>1. Backed(p) /\ (\A todo \in k.todo : Backed(todo.id)) /\ k.row <= rows
    BY <1>1, <1>2, <1>6 DEF WorkOK, GivesToBacked, ReadsOwn
  <2>2. WorkOK(work'[w])
    BY <1>2, <1>4, <1>6, <2>1 DEF WorkOK, Carries, Resolved, GivesToBacked, ReadsOwn
  <2> QED BY <1>1, <1>3, <1>4, <1>6, <2>2, WorkKeeps DEF IInv, TypeOK
<1>7. CASE /\ ~(k.found /\ ~Exists(p)) /\ ~Rejected(w, row)
           /\ projects' = [projects EXCEPT ![p] = row] /\ Goto(w, "own")
  <2>1. projects \in [Ids -> ProjectRows] /\ k.root \in Roots \cup {None}
        /\ k.remote \in Remotes \cup {None}
    BY <1>2 DEF IInv, TypeOK, Executing
  <2>2. /\ row.root = IF k.found THEN Given(k.root, projects[p].root) ELSE k.root
        /\ row.remote = IF k.found THEN Given(k.remote, projects[p].remote) ELSE k.remote
        /\ row.status = IF k.found THEN projects[p].status ELSE "active"
        /\ row \in ProjectRows
    <3>1. row = IF k.found
                THEN [projects[p] EXCEPT !.name = k.alias, !.root = Given(k.root, projects[p].root),
                                         !.remote = Given(k.remote, projects[p].remote)]
                ELSE [name |-> k.alias, root |-> k.root, remote |-> k.remote, status |-> "active"]
      BY <1>1 DEF Row
    <3>2. projects[p] \in ProjectRows
      BY <1>2, <2>1
    <3>3. /\ Given(k.root, projects[p].root) \in Roots \cup {None}
          /\ Given(k.remote, projects[p].remote) \in Remotes \cup {None}
      BY <2>1, <3>2 DEF Given, ProjectRows
    <3> HIDE DEF p
    <3>4. CASE k.found
      BY <1>2, <3>1, <3>2, <3>3, <3>4 DEF ProjectRows
    <3>5. CASE ~k.found
      BY <1>2, <2>1, <3>1, <3>5 DEF ProjectRows
    <3> QED BY <3>4, <3>5
  <2>3. row.root = None \/ \A q \in Ids \ {p} : ~Exists(q) \/ projects[q].root # row.root
    BY <1>1, <1>7 DEF Rejected
  <2>4. row.status # "absent"
    BY <1>7, <2>2 DEF Exists
  <2> HIDE DEF p
  <2>5. projects'[p] = row /\ \A q \in Ids \ {p} : projects'[q] = projects[q]
    BY <1>2, <1>7, <2>1
  <2>6. TypeOK'
    BY <1>1, <1>3, <1>4, <1>7, <2>1, <2>2 DEF IInv, TypeOK
  <2>7. \A q \in Ids : Exists(q) => Exists(q)'
    BY <2>4, <2>5 DEF Exists
  <2>8. Exists(p)'
    BY <2>4, <2>5 DEF Exists
  <2>9. OneProjectPerRoot'
    BY <1>2, <2>3, <2>4, <2>5 DEF IInv, TablesOK, OneProjectPerRoot, Exists, Absent
  <2>10. RootsAreClones'
    <3> SUFFICES ASSUME ~byHand', NEW q \in Ids, projects'[q].remote # None
                 PROVE  Cloned(projects'[q].root, projects'[q].remote)
      BY <1>1 DEF RootsAreClones, Cloned
    <3>1. /\ ~byHand /\ projects[q].root \in {None, projects'[q].root}
          /\ k.kind = "register" => projects[q].remote = projects'[q].remote
      BY <1>3
    <3>2. projects[q].remote # None => Cloned(projects[q].root, projects[q].remote)
      BY <3>1 DEF IInv, TablesOK, RootsAreClones
    <3>3. CASE q # p
      BY <2>5, <3>2, <3>3
    <3>4. CASE q = p /\ projects'[q].remote = projects[q].remote
      <4>1. projects[q].root # None
        BY <3>2, <3>4, NoneAssumption DEF Cloned, Roots
      <4> QED BY <3>1, <3>2, <3>4, <4>1
    <3>5. CASE q = p /\ projects'[q].remote # projects[q].remote
      <4>1. k.remote # None /\ k.kind # "register"
        BY <2>2, <2>5, <3>1, <3>5 DEF Given
      <4>2. Cloned(k.root, k.remote)
        BY <1>1, <1>2, <3>1, <4>1 DEF WorkOK, Resolved
      <4>3. k.root # None
        BY <4>2, NoneAssumption DEF Cloned, Roots
      <4> QED BY <2>2, <2>5, <3>5, <4>1, <4>2, <4>3 DEF Given
    <3> QED BY <3>3, <3>4, <3>5
  <2>11. TablesOK'
    BY <1>1, <2>7, <2>9, <2>10 DEF IInv, TablesOK, RowsNumbered, OneClone, AliasesBacked
  <2>12. \A q \in Ids : Backed(q) => Backed(q)'
    BY <1>1, <2>7 DEF Backed
  <2>13. WorkOK(work[w])'
    <3>1. Carries(work[w])' /\ Resolved(work[w])'
      BY <1>2, <1>4, <1>7 DEF Carries, Resolved
    <3>2. \A todo \in k.todo : todo.id \in Ids
      BY <1>2 DEF Executing
    <3>3. GivesToBacked(work[w])'
      BY <1>2, <1>4, <1>7, <2>8, <2>12, <3>2 DEF WorkOK, GivesToBacked, Backed
    <3>4. ReadsOwn(work[w])'
      BY <1>1, <1>2, <1>4, <1>7 DEF WorkOK, ReadsOwn
    <3> QED BY <3>1, <3>3, <3>4 DEF WorkOK
  <2>14. rows <= rows'
    BY <1>1 DEF IInv, TypeOK
  <2> QED BY <1>1, <1>3, <1>4, <1>7, <2>6, <2>11, <2>12, <2>13, <2>14, StepKeeps
<1> QED BY <1>1, <1>5, <1>6, <1>7 DEF WriteRow

\* The alias is written over the row that was read, or over none.
LEMMA AssignAliasKeeps ==
    ASSUME IInv, NEW w \in Procs, AssignAlias(w)
    PROVE  IInv'
<1>1. PICK k : k = work[w]
  OBVIOUS
<1> DEFINE a == k.alias
           p == k.target
           old == k.row
           id == IF old = 0 THEN rows + 1 ELSE old
           row == [id |-> id, owner |-> p, primary |-> k.kind # "backfill"]
<1>2. /\ k.pc = "assign"
      /\ UNCHANGED <<projects, mappings, states, migrated, dirs, raced, byHand, calls, faults>>
      /\ lent' = IF k.allow THEN lent \cup {a} ELSE lent
  BY <1>1 DEF AssignAlias, At, bounds
<1>3. /\ k \in Executing /\ WorkOK(k) /\ work \in [Procs -> Executing] /\ p \in Ids /\ a \in Aliases
      /\ aliases \in [Aliases -> AliasRows] /\ rows \in Nat /\ old \in Nat /\ old <= rows
  BY <1>1, <1>2 DEF IInv, TypeOK, WorkOK, Carries, ReadsOwn, Executing
<1>4. \/ /\ Leave(w) /\ UNCHANGED <<aliases, rows>>
      \/ /\ Goto(w, "state") \/ Goto(w, "infer")
         /\ rows' = IF old = 0 THEN id ELSE rows
         /\ aliases' = IF aliases[a].id # old THEN aliases ELSE [aliases EXCEPT ![a] = row]
         /\ old = 0 => aliases[a].id = 0
  BY <1>1 DEF AssignAlias
<1>5. /\ work' \in [Procs -> Executing] /\ \A v \in Procs \ {w} : work'[v] = work[v]
      /\ \/ work'[w] = NoWork
         \/ /\ work'[w].pc \in {"state", "infer"} /\ work'[w].target = p /\ work'[w].alias = a
            /\ work'[w].row = old /\ work'[w].todo = k.todo
  <2>1. CASE Leave(w)
    BY <1>3, <2>1, NoWorkOK DEF Leave
  <2>2. CASE Goto(w, "state")
    <3>1. "state" \in Pcs /\ work' = [work EXCEPT ![w].pc = "state"]
      BY <2>2 DEF Goto, Pcs
    <3> QED BY <1>1, <1>3, <3>1, StepsOn
  <2>3. CASE Goto(w, "infer")
    <3>1. "infer" \in Pcs /\ work' = [work EXCEPT ![w].pc = "infer"]
      BY <2>3 DEF Goto, Pcs
    <3> QED BY <1>1, <1>3, <3>1, StepsOn
  <2> QED BY <1>4, <2>1, <2>2, <2>3
<1> HIDE DEF row
<1>6. rows' \in Nat /\ rows <= rows'
  BY <1>3, <1>4
<1>7. CASE UNCHANGED aliases
  <2>1. TypeOK'
    BY <1>2, <1>3, <1>5, <1>6, <1>7 DEF IInv, TypeOK
  <2>2. RowsNumbered'
    BY <1>3, <1>6, <1>7 DEF IInv, TablesOK, RowsNumbered, AliasRows
  <2>3. TablesOK'
    BY <1>2, <1>7, <2>2
    DEF IInv, TablesOK, OneProjectPerRoot, OneClone, Cloned, RootsAreClones, AliasesBacked, Exists
  <2>4. WorkOK(work[w])'
    BY <1>2, <1>3, <1>5, <1>6
    DEF WorkOK, Carries, Resolved, GivesToBacked, Backed, Exists, ReadsOwn, NoWork
  <2>5. \A q \in Ids : Backed(q) => Backed(q)'
    BY <1>2 DEF Backed, Exists
  <2> QED BY <1>2, <1>5, <1>6, <1>7, <2>1, <2>3, <2>4, <2>5, StepKeeps
<1>8. CASE /\ aliases[a].id = old /\ aliases' = [aliases EXCEPT ![a] = row]
           /\ rows' = IF old = 0 THEN id ELSE rows
  <2>1. /\ row \in AliasRows /\ row.id = id /\ row.owner = p /\ id \in Nat /\ id <= rows' /\ id # 0
        /\ old = 0 => id > rows
        /\ old # 0 => id = old
    BY <1>3, <1>8 DEF AliasRows, row
  <2> HIDE DEF id
  <2>2. aliases'[a] = row /\ \A b \in Aliases \ {a} : aliases'[b] = aliases[b]
    BY <1>3, <1>8
  <2>3. TypeOK'
    BY <1>2, <1>3, <1>5, <1>6, <1>8, <2>1 DEF IInv, TypeOK
  <2>4. RowsNumbered'
    <3>1. \A b \in Aliases : aliases[b].id \in Nat
      BY <1>3 DEF AliasRows
    <3>2. \A b \in Aliases \ {a} : /\ aliases'[b].id <= rows'
                                   /\ aliases'[b].id = 0 <=> aliases'[b].owner = None
      BY <1>3, <1>6, <2>2, <3>1 DEF IInv, TablesOK, RowsNumbered
    <3>3. aliases'[a].id <= rows' /\ aliases'[a].id # 0 /\ aliases'[a].owner # None
      BY <1>3, <2>1, <2>2, NoneAssumption
    <3> QED BY <3>2, <3>3 DEF RowsNumbered
  <2>5. Backed(p) /\ \A q \in Ids : Backed(q) <=> Backed(q)'
    BY <1>2, <1>3 DEF WorkOK, GivesToBacked, Backed, Exists
  <2>6. AliasesBacked'
    BY <1>2, <1>3, <2>1, <2>2, <2>5 DEF IInv, TablesOK, AliasesBacked, Backed, Exists
  <2>7. TablesOK'
    BY <1>2, <2>4, <2>6
    DEF IInv, TablesOK, OneProjectPerRoot, OneClone, Cloned, RootsAreClones, Exists
  <2>8. WorkOK(work[w])'
    BY <1>2, <1>3, <1>5, <1>6
    DEF WorkOK, Carries, Resolved, GivesToBacked, Backed, Exists, ReadsOwn, NoWork
  <2>9. old # 0 => aliases[a].owner = p \/ a \in lent'
    BY <1>2, <1>3, <1>8 DEF WorkOK, ReadsOwn
  <2>10. \A b \in Aliases :
            \/ aliases'[b].id = 0 \/ aliases'[b].id > rows
            \/ /\ aliases'[b].id = aliases[b].id
               /\ aliases'[b].owner = aliases[b].owner \/ b \in lent'
    BY <1>8, <2>1, <2>2, <2>9
  <2> QED BY <1>2, <1>5, <1>6, <2>3, <2>5, <2>7, <2>8, <2>10, StepKeeps
<1> QED BY <1>4, <1>7, <1>8

-----------------------------------------------------------------------------
(***************************************************************************)
(* Removal.                                                                *)
(***************************************************************************)
\* A row that changes its status, and may lose its root and its remote.
LEMMA RowLosesRoot ==
    ASSUME IInv, NEW p \in Ids, Exists(p), NEW r \in ProjectRows, r.status # "absent",
           UNCHANGED <<aliases, rows, dirs, raced, byHand>>, projects' = [projects EXCEPT ![p] = r],
           r.root \in {None, projects[p].root}, r.remote \in {None, projects[p].remote},
           r.remote # None => r.root = projects[p].root
    PROVE  TablesOK' /\ \A q \in Ids : Backed(q) <=> Backed(q)'
<1>1. projects'[p] = r /\ \A q \in Ids \ {p} : projects'[q] = projects[q]
  BY DEF IInv, TypeOK
<1>2. \A q \in Ids : Exists(q) <=> Exists(q)'
  BY <1>1 DEF Exists
<1>3. OneProjectPerRoot'
  BY <1>1 DEF IInv, TablesOK, OneProjectPerRoot, Exists
<1>4. RootsAreClones'
  BY <1>1 DEF IInv, TablesOK, RootsAreClones, Cloned
<1> QED BY <1>2, <1>3, <1>4 DEF IInv, TablesOK, RowsNumbered, OneClone, AliasesBacked, Backed

LEMMA RemoveKeeps ==
    ASSUME IInv, NEW w \in Procs, NEW p \in Ids, NEW kind \in {"detach", "unregister"},
           Remove(w, p, kind)
    PROVE  IInv'
<1> DEFINE r == [NoWork EXCEPT !.pc = "unalias", !.target = p, !.kind = kind]
           row == [projects[p] EXCEPT !.status = "deindexed"]
<1>1. /\ work' = [work EXCEPT ![w] = r] /\ calls' = calls + 1 /\ Exists(p)
      /\ UNCHANGED <<aliases, rows, mappings, states, migrated, dirs, raced, lent, byHand, faults>>
      /\ projects' = [projects EXCEPT ![p].status = "deindexed"]
  BY DEF Remove, Begin, history
<1>2. /\ row \in ProjectRows /\ row.status # "absent" /\ row.root = projects[p].root
      /\ row.remote = projects[p].remote /\ projects' = [projects EXCEPT ![p] = row]
  BY <1>1 DEF IInv, TypeOK, ProjectRows
<1> HIDE DEF row
<1>3. TablesOK' /\ \A q \in Ids : Backed(q) <=> Backed(q)'
  BY <1>1, <1>2, RowLosesRoot
<1>4. r \in Executing /\ r.pc = "unalias" /\ r.target = p /\ r.row = 0 /\ r.todo = {}
  BY NoWorkOK DEF Executing, Pcs, Kinds, NoWork
<1> HIDE DEF r
<1>5. work' \in [Procs -> Executing] /\ work'[w] = r /\ \A v \in Procs \ {w} : work'[v] = work[v]
  BY <1>1, <1>4 DEF IInv, TypeOK
<1>6. TypeOK'
  BY <1>1, <1>2, <1>5 DEF IInv, TypeOK
<1>7. WorkOK(work[w])'
  BY <1>4, <1>5, <1>6 DEF WorkOK, Carries, Resolved, GivesToBacked, ReadsOwn, TypeOK
<1>8. rows <= rows'
  BY <1>1 DEF IInv, TypeOK
<1> QED BY <1>1, <1>3, <1>5, <1>6, <1>7, <1>8, StepKeeps

LEMMA ClearRowKeeps ==
    ASSUME IInv, NEW w \in Procs, ClearRow(w)
    PROVE  IInv'
<1>1. PICK k : k = work[w]
  OBVIOUS
<1> DEFINE p == k.target
           status == IF k.kind = "detach" THEN "detached" ELSE "disabled"
           row == [projects[p] EXCEPT !.root = None, !.remote = None, !.status = status]
<1>2. /\ k.pc = "clear"
      /\ UNCHANGED <<aliases, rows, mappings, states, migrated, dirs, raced, lent, byHand, calls, faults>>
      /\ Leave(w) \/ Goto(w, "draft")
      /\ projects' = IF Exists(p)
                       THEN [projects EXCEPT ![p] = row]
                       ELSE projects
  BY <1>1 DEF ClearRow, At, history, bounds
<1>3. /\ k \in Executing /\ WorkOK(k) /\ p \in Ids /\ work \in [Procs -> Executing]
      /\ projects \in [Ids -> ProjectRows]
  BY <1>1, <1>2 DEF IInv, TypeOK, WorkOK, Carries
<1>4. CASE UNCHANGED projects
  <2>1. "draft" \in Pcs
    BY DEF Pcs
  <2> QED BY <1>1, <1>2, <1>3, <1>4, <2>1, LeaveKeeps, GotoKeeps DEF IInv, TypeOK
<1>5. CASE Exists(p)
  <2>1. projects' = [projects EXCEPT ![p] = row]
    BY <1>2, <1>5
  <2>2. status \in {"detached", "disabled"} /\ projects[p] \in ProjectRows
    BY <1>3
  <2> HIDE DEF status
  <2>3. row \in ProjectRows /\ row.status # "absent" /\ row.root = None /\ row.remote = None
    BY <2>2 DEF ProjectRows
  <2> HIDE DEF row
  <2>4. TablesOK' /\ \A q \in Ids : Backed(q) <=> Backed(q)'
    BY <1>2, <1>3, <1>5, <2>3, <2>1, RowLosesRoot
  <2>5. /\ work' \in [Procs -> Executing] /\ \A v \in Procs \ {w} : work'[v] = work[v]
        /\ \/ work'[w] = NoWork
           \/ work'[w].pc = "draft" /\ work'[w].target = p /\ work'[w].row = k.row /\ work'[w].todo = k.todo
    <3>1. CASE Leave(w)
      BY <1>3, <3>1, NoWorkOK DEF Leave
    <3>2. CASE Goto(w, "draft")
      <4>1. "draft" \in Pcs /\ work' = [work EXCEPT ![w].pc = "draft"]
        BY <3>2 DEF Goto, Pcs
      <4> QED BY <1>1, <1>3, <4>1, StepsOn
    <3> QED BY <1>2, <3>1, <3>2
  <2>6. TypeOK'
    BY <1>2, <1>3, <2>3, <2>5, <2>1 DEF IInv, TypeOK
  <2>7. WorkOK(work[w])'
    <3>1. \A row1 \in k.todo : row1.id \in Ids
      BY <1>3 DEF Executing
    <3> QED BY <1>2, <1>3, <2>4, <2>5, <2>6, <3>1
        DEF WorkOK, Carries, Resolved, GivesToBacked, ReadsOwn, NoWork, TypeOK
  <2>8. rows <= rows'
    BY <1>2 DEF IInv, TypeOK
  <2> QED BY <1>2, <2>4, <2>5, <2>6, <2>7, <2>8, StepKeeps
<1> QED BY <1>2, <1>4, <1>5

LEMMA WithoutKeeps ==
    ASSUME IInv, NEW p \in Ids, aliases' = Without(p), UNCHANGED rows
    PROVE  /\ aliases' \in [Aliases -> AliasRows] /\ RowsNumbered'
           /\ \A a \in Aliases : aliases'[a] = aliases[a] \/ aliases'[a] = NoAlias
           /\ \A a \in Aliases : aliases'[a].owner \in {aliases[a].owner, None} \ {p}
<1>1. \A a \in Aliases : aliases'[a] = IF aliases[a].owner = p THEN NoAlias ELSE aliases[a]
  BY DEF Without
<1>2. NoAlias \in AliasRows /\ aliases \in [Aliases -> AliasRows] /\ rows \in Nat
  BY DEF NoAlias, AliasRows, IInv, TypeOK
<1>3. aliases' \in [Aliases -> AliasRows]
  BY <1>2 DEF Without
<1>4. RowsNumbered'
  BY <1>1, <1>2 DEF RowsNumbered, NoAlias, IInv, TablesOK
<1> QED BY <1>1, <1>3, <1>4, NoneAssumption DEF NoAlias

LEMMA DropAliasesKeeps ==
    ASSUME IInv, NEW w \in Procs, DropAliases(w)
    PROVE  IInv'
<1>1. PICK k : k = work[w]
  OBVIOUS
<1> DEFINE p == k.target
<1>2. /\ k.pc = "unalias" /\ Goto(w, "unmap") /\ aliases' = Without(p)
      /\ UNCHANGED <<projects, rows, mappings, states, migrated, dirs, raced, lent, byHand, calls, faults>>
  BY <1>1 DEF DropAliases, At, history, bounds
<1>3. k \in Executing /\ WorkOK(k) /\ p \in Ids /\ work \in [Procs -> Executing] /\ rows <= rows'
  BY <1>1, <1>2 DEF IInv, TypeOK, WorkOK, Carries
<1>4. /\ aliases' \in [Aliases -> AliasRows] /\ RowsNumbered'
      /\ \A a \in Aliases : aliases'[a] = aliases[a] \/ aliases'[a] = NoAlias
      /\ \A a \in Aliases : aliases'[a].owner \in {aliases[a].owner, None} \ {p}
  BY <1>2, <1>3, WithoutKeeps
<1>5. /\ work' \in [Procs -> Executing] /\ \A v \in Procs \ {w} : work'[v] = work[v]
      /\ work'[w].pc = "unmap" /\ work'[w].target = p /\ work'[w].row = k.row /\ work'[w].todo = k.todo
  <2>1. "unmap" \in Pcs /\ work' = [work EXCEPT ![w].pc = "unmap"]
    BY <1>2 DEF Goto, Pcs
  <2> QED BY <1>1, <1>3, <2>1, StepsOn
<1>6. TypeOK'
  BY <1>2, <1>4, <1>5 DEF IInv, TypeOK
<1>7. AliasesBacked'
  BY <1>2, <1>4 DEF IInv, TablesOK, AliasesBacked, Exists
<1>8. TablesOK'
  BY <1>2, <1>4, <1>7 DEF IInv, TablesOK, OneProjectPerRoot, OneClone, Cloned, RootsAreClones, Exists
<1>9. WorkOK(work[w])'
  BY <1>2, <1>3, <1>5 DEF WorkOK, Carries, Resolved, GivesToBacked, Backed, Exists, ReadsOwn
<1>10. \A q \in Ids : Backed(q) => Backed(q)'
  BY <1>2 DEF Backed, Exists
<1>11. \A a \in Aliases : \/ aliases'[a].id = 0
                          \/ aliases'[a].id = aliases[a].id /\ aliases'[a].owner = aliases[a].owner
  BY <1>4 DEF NoAlias
<1> QED BY <1>2, <1>3, <1>5, <1>6, <1>8, <1>9, <1>10, <1>11, StepKeeps

\* A purge takes a row away that another process may count on: then it is raced.
LEMMA PurgeKeeps ==
    ASSUME IInv, NEW w \in Procs, NEW p \in Ids, Purge(w, p)
    PROVE  IInv'
<1>1. /\ projects' = [projects EXCEPT ![p] = Absent] /\ aliases' = Without(p)
      /\ mappings' = [mappings EXCEPT ![p] = "none"] /\ states' = [states EXCEPT ![p] = NoState]
      /\ raced' = IF Busy(p) THEN raced \cup {p} ELSE raced
      /\ calls' = calls + 1
      /\ UNCHANGED <<rows, migrated, dirs, work, lent, byHand, faults>>
  BY DEF Purge
<1>2. /\ aliases' \in [Aliases -> AliasRows] /\ RowsNumbered'
      /\ \A a \in Aliases : aliases'[a] = aliases[a] \/ aliases'[a] = NoAlias
      /\ \A a \in Aliases : aliases'[a].owner \in {aliases[a].owner, None} \ {p}
  BY <1>1, WithoutKeeps
<1>3. projects'[p] = Absent /\ \A q \in Ids \ {p} : projects'[q] = projects[q]
  BY <1>1 DEF IInv, TypeOK
<1>4. TypeOK'
  <2>1. Absent \in ProjectRows /\ NoState \in States
    BY DEF Absent, ProjectRows, NoState, States
  <2> QED BY <1>1, <1>2, <2>1 DEF IInv, TypeOK
<1>5. OneProjectPerRoot'
  BY <1>3 DEF IInv, TablesOK, OneProjectPerRoot, Exists, Absent
<1>6. RootsAreClones'
  BY <1>1, <1>3 DEF IInv, TablesOK, RootsAreClones, Cloned, Absent
<1>7. AliasesBacked'
  <2> SUFFICES ASSUME NEW a \in Aliases, aliases'[a].owner # None
               PROVE  aliases'[a].owner \in raced' \cup {q \in Ids : Exists(q)'}
    BY DEF AliasesBacked
  <2>1. PICK q : q = aliases[a].owner
    OBVIOUS
  <2>2. aliases'[a].owner = q /\ q # p /\ q \in raced \cup {r \in Ids : Exists(r)}
    BY <1>2, <2>1 DEF IInv, TablesOK, AliasesBacked
  <2> QED BY <1>1, <1>3, <2>2 DEF Exists
<1>8. TablesOK'
  BY <1>1, <1>2, <1>5, <1>6, <1>7 DEF IInv, TablesOK, OneClone
<1>9. ASSUME NEW v \in Procs PROVE WorkOK(work[v])'
  <2>1. PICK k : k = work[v]
    OBVIOUS
  <2>2. k \in Executing /\ WorkOK(k) /\ rows' \in Nat /\ rows <= rows'
    BY <1>1, <2>1 DEF IInv, TypeOK
  <2>3. ASSUME NEW q \in Ids, Backed(q), q = k.target \/ \E row \in k.todo : row.id = q
        PROVE  Backed(q)'
    <3>1. q = p => Busy(p)
      BY <2>1, <2>3 DEF Busy
    <3> QED BY <1>1, <1>3, <2>3, <3>1 DEF Backed, Exists
  <2>4. \A a \in Aliases : \/ aliases'[a].id = 0
                           \/ aliases'[a].id = aliases[a].id /\ aliases'[a].owner = aliases[a].owner
    BY <1>2 DEF NoAlias
  <2>5. WorkOK(k)'
    BY <1>1, <2>2, <2>3, <2>4, OthersUndisturbed
  <2>6. k = work'[v]
    BY <1>1, <2>1
  <2> QED BY <2>5, <2>6 DEF WorkOK, Carries, Resolved, Cloned, GivesToBacked, Backed, Exists, ReadsOwn
<1> QED BY <1>4, <1>8, <1>9 DEF IInv

-----------------------------------------------------------------------------
LEMMA NextKeeps == IInv /\ [Next]_vars => IInv'
<1> SUFFICES ASSUME IInv, [Next]_vars PROVE IInv'
  OBVIOUS
<1>1. CASE UNCHANGED vars
  BY <1>1 DEF vars, tables, history, bounds, IInv, TypeOK, TablesOK, RowsNumbered, OneProjectPerRoot,
     OneClone, Cloned, RootsAreClones, AliasesBacked, Exists, WorkOK, Carries, Resolved,
     GivesToBacked, Backed, ReadsOwn
<1>2. ASSUME NEW w \in Procs, Call(w) PROVE IInv'
  BY <1>2, RegisterKeeps, SettersKeep, RemoveKeeps, PurgeKeeps, BackfillKeeps DEF Call
<1>3. ASSUME NEW w \in Procs, Step(w) PROVE IInv'
  BY <1>3, ResolveKeeps, CheckAliasKeeps, FindRootKeeps, ReadRowKeeps, WriteRowKeeps,
     CheckOwnerKeeps, AssignAliasKeeps, RecordsKeep, DropAliasesKeeps, ClearRowKeeps,
     PickProjectKeeps, InferAliasKeeps DEF Step
<1>4. ASSUME NEW w \in Procs, Fail(w) PROVE IInv'
  BY <1>4, RecordsKeep
<1> QED BY <1>1, <1>2, <1>3, <1>4 DEF Next

LEMMA Inductive == Spec => []IInv
BY InitIInv, NextKeeps, PTL DEF Spec

-----------------------------------------------------------------------------
\* Whatever the processes interleave, every row and every step of a command is one the code can
\* write or be in; without this the statements of the invariant would say nothing.
THEOREM TypeCorrect == Spec => []TypeOK
<1>1. IInv => TypeOK
  BY DEF IInv
<1> QED BY <1>1, Inductive, PTL

\* idx_projects_scope_repo_root keeps two projects from one root, although a registration looks
\* for the root a statement before it writes it (registerProject of slot-db.ts).
THEOREM OneRoot == Spec => []OneProjectPerRoot
<1>1. IInv => OneProjectPerRoot
  BY DEF IInv, TablesOK
<1> QED BY <1>1, Inductive, PTL

\* An alias outlives its project only when purgeProject took the row away while another process was
\* registering or filling that very project.
THEOREM AliasesAreBacked == Spec => []AliasesBacked
<1>1. IInv => AliasesBacked
  BY DEF IInv, TablesOK
<1> QED BY <1>1, Inductive, PTL

\* Two processes that run project.register_command for one remote at once end in one project, as
\* long as no call has set a root or a remote by hand: the clone of a remote is in one directory,
\* and a directory is the root of one project.
THEOREM OneRemote == Spec => []OneProjectPerRemote
<1>1. IInv => OneProjectPerRemote
  <2> SUFFICES ASSUME IInv, NEW p \in Ids, NEW q \in Ids, p # q, ~byHand,
                      projects[p].remote = projects[q].remote, projects[p].remote # None
               PROVE  FALSE
    BY DEF OneProjectPerRemote
  <2> DEFINE u == projects[p].remote
  <2>1. u \in Remotes
    BY DEF IInv, TypeOK, ProjectRows
  <2>2. Cloned(projects[p].root, u) /\ Cloned(projects[q].root, u)
    BY DEF IInv, TablesOK, RootsAreClones
  <2>3. projects[p].root = projects[q].root
    BY <2>1, <2>2 DEF IInv, TablesOK, OneClone, Cloned
  <2> QED BY <2>2, <2>3, NoneAssumption DEF IInv, TablesOK, OneProjectPerRoot, Cloned, Roots
<1> QED BY <1>1, Inductive, PTL

\* An alias goes from one project to another only by a call that was allowed to take it: what
\* upsertProjectAlias has read of the alias is its own row, or a row that somebody was allowed to
\* move in between, or gone.
THEOREM AliasesMoveByIntent == Spec => AliasMovesByIntent
<1> DEFINE Moves(a) == LET p == aliases[a].owner  q == aliases'[a].owner IN
                          p # q /\ {p, q} \subseteq Ids => a \in lent'
<1>1. ASSUME IInv, [Next]_vars, NEW a \in Aliases PROVE Moves(a)
  <2>1. CASE UNCHANGED aliases
    BY <2>1
  <2>2. ASSUME NEW w \in Procs, AssignAlias(w) PROVE Moves(a)
    <3>1. PICK k : k = work[w]
      OBVIOUS
    <3> DEFINE id == IF k.row = 0 THEN rows + 1 ELSE k.row
               row == [id |-> id, owner |-> k.target, primary |-> k.kind # "backfill"]
    <3>2. k.pc = "assign" /\ WorkOK(k) /\ lent' = IF k.allow THEN lent \cup {k.alias} ELSE lent
      BY <1>1, <2>2, <3>1 DEF AssignAlias, At, IInv
    <3>3. \/ UNCHANGED aliases
          \/ aliases[k.alias].id = k.row /\ aliases' = [aliases EXCEPT ![k.alias] = row]
      BY <2>2, <3>1 DEF AssignAlias
    <3>4. row.owner = k.target /\ aliases \in [Aliases -> AliasRows]
      BY <1>1 DEF IInv, TypeOK
    <3> HIDE DEF row
    <3>5. CASE UNCHANGED aliases
      BY <3>5
    <3>6. CASE ~UNCHANGED aliases
      <4>1. CASE a = k.alias
        <5>1. /\ aliases[a].id = k.row /\ aliases'[a].owner = k.target
              /\ aliases[a].id = 0 <=> aliases[a].owner = None
          BY <1>1, <3>6, <3>3, <3>4, <4>1 DEF IInv, TablesOK, RowsNumbered
        <5>2. CASE k.row = 0
          BY <5>1, <5>2, NoneAssumption
        <5>3. CASE k.row # 0
          BY <3>2, <4>1, <5>1, <5>3 DEF WorkOK, ReadsOwn
        <5> QED BY <5>2, <5>3
      <4>2. CASE a # k.alias
        BY <3>6, <3>3, <3>4, <4>2
      <4> QED BY <4>1, <4>2
    <3> QED BY <3>5, <3>6
  <2>3. ASSUME NEW p, aliases' = Without(p) PROVE Moves(a)
    BY <2>3, NoneAssumption DEF Without, NoAlias
  <2>4. ASSUME NEW w \in Procs, Call(w) PROVE UNCHANGED aliases \/ \E p : aliases' = Without(p)
    BY <2>4 DEF Call, Backfill, LinkTracker, SetTrackerMapping, Purge, SetRegistrationState, Remove,
                Register, RegisterCommand, tables
  <2>5. ASSUME NEW w \in Procs, Step(w), ~AssignAlias(w)
        PROVE  UNCHANGED aliases \/ \E p : aliases' = Without(p)
    BY <2>5 DEF Step, Resolve, CheckAlias, FindRoot, ReadRow, WriteRow, CheckOwner, RecordState,
                LinkJira, DropAliases, DropMappings, ClearRow, MarkDraft, PickProject, InferAlias,
                InferMapping, MarkState, MarkMigrated, tables
  <2>6. ASSUME NEW w \in Procs, Fail(w) PROVE UNCHANGED aliases
    BY <2>6 DEF Fail, tables
  <2>7. CASE UNCHANGED vars
    BY <2>1, <2>7 DEF vars, tables
  <2> QED BY <1>1, <2>1, <2>2, <2>3, <2>4, <2>5, <2>6, <2>7 DEF Next
<1>2. IInv /\ [Next]_vars => [\A a \in Aliases : Moves(a)]_vars
  BY <1>1
<1> QED BY <1>2, Inductive, PTL DEF Spec, AliasMovesByIntent

=============================================================================
