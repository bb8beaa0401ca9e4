------------------------------ MODULE SlotStore ------------------------------
(***************************************************************************)
(* The slots table of SlotDB (src/src/db/slot-db.ts), as the slot handlers *)
(* of DefaultMemoryUseCasePort and the hooks use it.                       *)
(*                                                                         *)
(* Every process (gateway plugin, MCP server, CLI) has its own connection  *)
(* and each statement commits on its own: a set is a SELECT by key and     *)
(* then an UPDATE by id or an INSERT, a read is the sweep of what has      *)
(* expired and then the SELECT.  A worker's pc is its next statement.      *)
(* A handler takes milliseconds and `now` counts days, so time passes      *)
(* between handlers only.                                                  *)
(***************************************************************************)
EXTENDS Naturals, Sequences, FiniteSets

CONSTANTS
    Scopes,         \* (scope_user_id, scope_agent_id): private, team and public identities
    Keys, Values,
    Categories,
    Infer,          \* inferCategory: the category the prefix of a key stands for
    Days,           \* getSlotTTL of the categories that the sweep goes through
    Project,        \* the category `project`
    Volatile,       \* the project keys that expire whatever wrote them
    Internal,       \* the keys LIKE '_autocapture%'
    Readings,       \* the sequences of scopes a handler reads: one, or all in order
    Named,          \* the categories a caller may name, None for none
    Leases,         \* the expires_at auto-capture may give, in days from now
    None,
    Procs,
    Forever,        \* the time no expires_at stands for
    MaxTime,        \* bound on the days that pass
    MaxSets         \* bound on sets

ASSUME CategoryAssumption ==
    /\ Infer \in [Keys -> Categories] /\ Project \in Categories
    /\ DOMAIN Days \subseteq Categories /\ Project \in DOMAIN Days
    /\ \A c \in DOMAIN Days : Days[c] \in Nat
ASSUME ReadingAssumption == Readings \subseteq Seq(Scopes) \ {<<>>}
ASSUME NamedAssumption == Named \subseteq Categories \cup {None}
ASSUME NoneAssumption == None \notin Categories /\ None \notin [val : Values, ver : Nat, until : Nat]
ASSUME TimeAssumption == MaxTime \in Nat /\ Forever \in Nat /\ MaxTime < Forever
ASSUME BoundsAssumption == MaxSets \in Nat /\ Leases \subseteq Nat

VARIABLES
    rows,           \* the slots table
    nextId,         \* source of row ids (randomUUID)
    now,
    work,           \* what each process is executing
    raced,          \* whether some statement changed a slot another process was about to write
    sets            \* what MaxSets bounds

vars == <<rows, nextId, now, work, raced, sets>>

Row == [id : Nat, scope : Scopes, key : Keys, cat : Categories, val : Values,
        auto : BOOLEAN, ver : Nat \ {0}, upd : Nat, exp : Nat]

NoWork == [pc |-> "idle"]
SetWork == [pc : {"write"}, scope : Scopes, key : Keys, cat : Categories, val : Values,
            auto : BOOLEAN, keep : BOOLEAN, exp : Nat, old : SUBSET Row]
ReadWork == [pc : {"sweep", "read"}, todo : Seq(Scopes)]

Idle == \A p \in Procs : work[p].pc = "idle"

\* Wrong: the rows of the category are looked at only.
RowsInferred(s, k) == {r \in rows : r.scope = s /\ r.key = k /\ r.cat = Infer[k]}

\* The rows SELECT ... AND key = ? finds.
RowsIn(R, s, k) == {r \in R : r.scope = s /\ r.key = k}
RowsOf(s, k) == RowsIn(rows, s, k)

-----------------------------------------------------------------------------
(***************************************************************************)
(* cleanExpired: a row is over when its expires_at has passed, and, for    *)
(* what auto-capture wrote and for volatile project keys, when it has not  *)
(* been written for the days of its category.                              *)
(***************************************************************************)
\* Wrong: whoever wrote the row.
TimedWhoever(r) == r.cat \in DOMAIN Days /\ r.key \notin Internal

Timed(r) ==
    \/ r.auto /\ r.cat \in DOMAIN Days /\ r.key \notin Internal
    \/ r.cat = Project /\ r.key \in Volatile

Over(r) == r.exp < now \/ (Timed(r) /\ r.upd + Days[r.cat] < now)

\* Does this statement of p change a slot another process has read and is about to write?
Watch(p) ==
    raced' = (raced \/ \E q \in Procs \ {p} :
                 /\ work[q].pc = "write"
                 /\ RowsIn(rows', work[q].scope, work[q].key)
                     # RowsIn(rows, work[q].scope, work[q].key))

(***************************************************************************)
(* set: the SELECT of the slot, whatever its category.  A set without a    *)
(* category takes the inferred one; one without an expires_at keeps the    *)
(* one that is there.                                                      *)
(***************************************************************************)
Select(p, s, k, v, cat, auto, lease) ==
    /\ work[p].pc = "idle" /\ sets < MaxSets
    /\ sets' = sets + 1
    /\ \E old \in {{}} \cup {{r} : r \in RowsOf(s, k)} :
         /\ old = {} => RowsOf(s, k) = {}
         /\ work' = [work EXCEPT ![p] =
              [pc |-> "write", scope |-> s, key |-> k, val |-> v, auto |-> auto,
               cat |-> IF cat = None THEN Infer[k] ELSE cat,
               keep |-> lease = None, exp |-> IF lease = None THEN Forever ELSE now + lease,
               old |-> old]]
    /\ UNCHANGED <<rows, nextId, now, raced>>

\* Wrong: the version is not counted.
UpdatedSame(w, r) ==
    [r EXCEPT !.val = w.val, !.cat = w.cat, !.auto = w.auto, !.upd = now,
              !.exp = IF w.keep THEN @ ELSE w.exp]

\* The columns of the UPDATE, from the row that was read.
Updated(w, r) ==
    [r EXCEPT !.val = w.val, !.cat = w.cat, !.auto = w.auto, !.ver = @ + 1, !.upd = now,
              !.exp = IF w.keep THEN @ ELSE w.exp]

Inserted(w) ==
    [id |-> nextId, scope |-> w.scope, key |-> w.key, cat |-> w.cat, val |-> w.val,
     auto |-> w.auto, ver |-> 1, upd |-> now, exp |-> w.exp]

\* UNIQUE(scope_user_id, scope_agent_id, category, key) against the other rows
Clash(r) ==
    \E x \in rows : x.id # r.id /\ x.scope = r.scope /\ x.key = r.key /\ x.cat = r.cat

(***************************************************************************)
(* The UPDATE by id, which changes nothing if the row has gone, or the     *)
(* INSERT.  A statement that would break the UNIQUE constraint throws.     *)
(***************************************************************************)
Write(p) ==
    LET w == work[p] IN
    /\ w.pc = "write"
    /\ \/ /\ w.old = {}
          /\ IF Clash(Inserted(w))
               THEN UNCHANGED <<rows, nextId>>
               ELSE rows' = rows \cup {Inserted(w)} /\ nextId' = nextId + 1
       \/ /\ \E r \in w.old :
               rows' = IF Clash(Updated(w, r)) THEN rows
                       ELSE {IF x.id = r.id THEN Updated(w, r) ELSE x : x \in rows}
          /\ UNCHANGED nextId
    /\ work' = [work EXCEPT ![p] = NoWork]
    /\ Watch(p)
    /\ UNCHANGED <<now, sets>>

\* delete: one statement
Delete(p, s, k) ==
    /\ work[p].pc = "idle"
    /\ rows' = rows \ RowsOf(s, k)
    /\ Watch(p)
    /\ UNCHANGED <<nextId, now, work, sets>>

(***************************************************************************)
(* get, list and getCurrentState: a scope is swept and then selected from; *)
(* scope "all" goes through the scopes one after the other.                *)
(***************************************************************************)
Read(p, todo) ==
    /\ work[p].pc = "idle"
    /\ work' = [work EXCEPT ![p] = [pc |-> "sweep", todo |-> todo]]
    /\ UNCHANGED <<rows, nextId, now, raced, sets>>

\* Wrong: an auto-captured row with an expires_at is left to it.
SweptByDate(s) == {r \in rows : r.scope = s /\ (IF r.exp < Forever THEN r.exp < now ELSE Over(r))}

\* What the DELETEs of cleanExpired take, each by a condition on the row alone.
Swept(s) == {r \in rows : r.scope = s /\ Over(r)}

Sweep(p) ==
    /\ work[p].pc = "sweep"
    /\ rows' = rows \ Swept(Head(work[p].todo))
    /\ work' = [work EXCEPT ![p].pc = "read"]
    /\ Watch(p)
    /\ UNCHANGED <<nextId, now, sets>>

Answer(p) ==
    /\ work[p].pc = "read"
    /\ work' = [work EXCEPT ![p] = IF Len(work[p].todo) = 1 THEN NoWork
                                   ELSE [pc |-> "sweep", todo |-> Tail(work[p].todo)]]
    /\ UNCHANGED <<rows, nextId, now, raced, sets>>

\* A process dies between two statements.
Stop(p) ==
    /\ work[p].pc # "idle"
    /\ work' = [work EXCEPT ![p] = NoWork]
    /\ UNCHANGED <<rows, nextId, now, raced, sets>>

Tick ==
    /\ Idle /\ now < MaxTime
    /\ now' = now + 1
    /\ UNCHANGED <<rows, nextId, work, raced, sets>>

Init ==
    /\ rows = {} /\ nextId = 1 /\ now = 0
    /\ work = [p \in Procs |-> NoWork]
    /\ raced = FALSE /\ sets = 0

Next ==
    \/ \E p \in Procs :
         \/ \E s \in Scopes, k \in Keys :
              \/ Delete(p, s, k)
              \/ \E v \in Values, cat \in Named :
                   \/ Select(p, s, k, v, cat, FALSE, None)
                   \/ \E lease \in Leases \cup {None} : Select(p, s, k, v, cat, TRUE, lease)
         \/ Write(p)
         \/ \E todo \in Readings : Read(p, todo)
         \/ Sweep(p) \/ Answer(p) \/ Stop(p)
    \/ Tick

Spec == Init /\ [][Next]_vars

-----------------------------------------------------------------------------
(***************************************************************************)
(* Properties.                                                             *)
(***************************************************************************)
TypeOK ==
    /\ rows \subseteq Row /\ nextId \in Nat /\ now \in 0..MaxTime
    /\ work \in [Procs -> {NoWork} \cup SetWork \cup ReadWork]
    /\ \A p \in Procs : work[p].pc \in {"sweep", "read"} => work[p].todo # <<>>
    /\ raced \in BOOLEAN /\ sets \in 0..MaxSets

(***************************************************************************)
(* A key is in a scope once, whatever categories its sets were given, so   *)
(* that get by key, list by category and the current state agree.  (Two    *)
(* sets that race give a key two rows if their categories differ: the      *)
(* UNIQUE constraint is per category.)                                     *)
(***************************************************************************)
OneRowPerKey ==
    ~raced => \A r1, r2 \in rows : r1.scope = r2.scope /\ r1.key = r2.key => r1 = r2

(***************************************************************************)
(* What a read selects is not over: no set that completes between its      *)
(* sweep and its SELECT brings an expired slot back.                       *)
(***************************************************************************)
NothingOverIsRead ==
    ~raced => \A p \in Procs : work[p].pc = "read" =>
        \A r \in rows : r.scope = Head(work[p].todo) => ~Over(r)

(***************************************************************************)
(* A slot without an expires_at that a person or a tool wrote, under a key *)
(* that is not volatile, and the internal slots of auto-capture (the hash  *)
(* that keeps it from capturing twice), go by a delete only.               *)
(***************************************************************************)
Stays(r) == r.exp = Forever /\ (~r.auto \/ r.key \in Internal)
            /\ ~(r.cat = Project /\ r.key \in Volatile)

LastingSlotsStay ==
    [][\A r \in rows : Stays(r) =>
          \/ \E x \in rows' : x.id = r.id
          \/ \E p \in Procs : Delete(p, r.scope, r.key)]_vars

(***************************************************************************)
(* As long as no two processes race for a slot, the store is the SlotMap:  *)
(* last write wins, versions count writes, and a slot is there from its    *)
(* write until it is deleted or its lease is over.                         *)
(***************************************************************************)
Until(r) ==
    LET timed == IF Timed(r) THEN r.upd + Days[r.cat] ELSE Forever IN
      IF r.exp < timed THEN r.exp ELSE timed

Slot(s, k) ==
    IF RowsOf(s, k) = {} THEN None
    ELSE LET r == CHOOSE r \in RowsOf(s, k) : TRUE IN
           [val |-> r.val, ver |-> r.ver, until |-> Until(r)]

Slots == [s \in Scopes |-> [k \in Keys |-> Slot(s, k)]]

Map == INSTANCE SlotMap WITH slots <- Slots
ImplementsSlotMap == Map!Init /\ [][raced' \/ UNCHANGED <<rows, now>> \/ Map!Next]_vars
=============================================================================
