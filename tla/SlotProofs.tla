------------------------------ MODULE SlotProofs ------------------------------
(***************************************************************************)
(* Theorems about the slots and about the hook that fills them.            *)
(*                                                                         *)
(* SlotStore, for any scopes, keys, categories, leases and processes: what *)
(* the slots table promises as long as no two processes race for a slot,   *)
(* and what it promises when they do.                                      *)
(*                                                                         *)
(* AutoCapture, for any sessions, agents, texts and number of handlers,    *)
(* wherever the process switches, throws or stops: the lock of the hook,   *)
(* the hash that keeps a turn from being captured twice, the order in      *)
(* which the focus is written and what a summarised day has.               *)
(***************************************************************************)
EXTENDS SlotStore, AutoCapture, SequenceTheorems, TLAPS

-----------------------------------------------------------------------------
(***************************************************************************)
(* SlotStore.                                                              *)
(***************************************************************************)
\* Ids are given once.
Ids ==
    /\ \A r \in rows : r.id < nextId
    /\ \A r1, r2 \in rows : r1.id = r2.id => r1 = r2

\* A set has an expires_at that is still to come.
Leased == \A p \in Procs : work[p].pc = "write" => work[p].exp >= now

Once == \A r1, r2 \in rows : r1.scope = r2.scope /\ r1.key = r2.key => r1 = r2

\* What a set has read is what the table holds.
Read1(p) == work[p].pc = "write" => work[p].old = RowsOf(work[p].scope, work[p].key)

NoneOver(p) == work[p].pc = "read" => \A r \in rows : r.scope = Head(work[p].todo) => ~Over(r)

Calm == Once /\ \A p \in Procs : Read1(p) /\ NoneOver(p)

StoreInv == TypeOK /\ Ids /\ Leased /\ (~raced => Calm)

-----------------------------------------------------------------------------
LEMMA UpdatedType ==
    ASSUME TypeOK, NEW p \in Procs, work[p] \in SetWork, NEW r \in Row
    PROVE  LET w == work[p]
               new == Updated(w, r) IN
           /\ new \in Row
           /\ new.id = r.id /\ new.scope = r.scope /\ new.key = r.key
           /\ new.val = w.val /\ new.ver = r.ver + 1 /\ new.upd = now /\ new.cat = w.cat
           /\ new.exp = IF w.keep THEN r.exp ELSE w.exp
<1> DEFINE w == work[p]
           e == IF w.keep THEN r.exp ELSE w.exp
<1>1. /\ w.cat \in Categories /\ w.val \in Values /\ w.auto \in BOOLEAN
      /\ w.exp \in Nat /\ w.keep \in BOOLEAN /\ now \in Nat
  BY TimeAssumption DEF SetWork, TypeOK
<1>2. e \in Nat
  BY <1>1 DEF Row
<1>3. Updated(w, r) = [r EXCEPT !.val = w.val, !.cat = w.cat, !.auto = w.auto, !.ver = r.ver + 1,
                                !.upd = now, !.exp = e]
  BY DEF Updated
<1> HIDE DEF e, w
<1>4. r.ver + 1 \in Nat \ {0}
  BY DEF Row
<1>5. Updated(w, r) \in Row
  BY <1>1, <1>2, <1>3, <1>4 DEF Row
<1>6. /\ Updated(w, r).id = r.id /\ Updated(w, r).scope = r.scope /\ Updated(w, r).key = r.key
      /\ Updated(w, r).val = w.val /\ Updated(w, r).ver = r.ver + 1 /\ Updated(w, r).upd = now
      /\ Updated(w, r).cat = w.cat /\ Updated(w, r).exp = e
  BY <1>3 DEF Row
<1> QED BY <1>5, <1>6 DEF e, w

LEMMA InsertedType ==
    ASSUME TypeOK, NEW p \in Procs, work[p] \in SetWork
    PROVE  LET w == work[p]
               new == Inserted(w) IN
           /\ new \in Row
           /\ new.id = nextId /\ new.scope = w.scope /\ new.key = w.key
           /\ new.val = w.val /\ new.ver = 1 /\ new.upd = now /\ new.exp = w.exp
<1> DEFINE w == work[p]
<1>1. /\ w.cat \in Categories /\ w.val \in Values /\ w.auto \in BOOLEAN
      /\ w.exp \in Nat /\ now \in Nat /\ nextId \in Nat /\ w.scope \in Scopes /\ w.key \in Keys
  BY TimeAssumption DEF SetWork, TypeOK
<1> HIDE DEF w
<1> QED BY <1>1 DEF Inserted, Row, w

\* What pc says of the rest of a worker.
LEMMA WorkKinds ==
    ASSUME TypeOK, NEW p \in Procs
    PROVE  /\ work[p].pc = "write" => work[p] \in SetWork
           /\ work[p].pc \in {"sweep", "read"} =>
                work[p] \in ReadWork /\ work[p].todo \in Seq(Scopes) /\ work[p].todo # <<>>
           /\ work[p].pc \in {"idle", "write", "sweep", "read"}
BY DEF TypeOK, NoWork, SetWork, ReadWork

LEMMA TypeStep == TypeOK /\ [Next]_vars => TypeOK'
<1> SUFFICES ASSUME TypeOK, [Next]_vars PROVE TypeOK'
  OBVIOUS
<1> USE CategoryAssumption, ReadingAssumption, NamedAssumption, TimeAssumption, BoundsAssumption
<1>1. ASSUME NEW p \in Procs, NEW s \in Scopes, NEW k \in Keys, Delete(p, s, k) PROVE TypeOK'
  BY <1>1 DEF Delete, Watch, TypeOK
<1>2. ASSUME NEW p \in Procs, NEW s \in Scopes, NEW k \in Keys, NEW v \in Values,
             NEW cat \in Named, NEW auto \in BOOLEAN, NEW lease \in Leases \cup {None},
             Select(p, s, k, v, cat, auto, lease)
      PROVE  TypeOK'
  <2> DEFINE c == IF cat = None THEN Infer[k] ELSE cat
             e == IF lease = None THEN Forever ELSE now + lease
  <2>1. c \in Categories
    OBVIOUS
  <2>2. e \in Nat
    BY DEF TypeOK
  <2>3. PICK old \in {{}} \cup {{r} : r \in RowsOf(s, k)} :
          work' = [work EXCEPT ![p] =
              [pc |-> "write", scope |-> s, key |-> k, val |-> v, auto |-> auto,
               cat |-> c, keep |-> lease = None, exp |-> e, old |-> old]]
    BY <1>2 DEF Select
  <2>4. old \in SUBSET Row
    BY DEF RowsOf, RowsIn, TypeOK
  <2>5. (lease = None) \in BOOLEAN
    OBVIOUS
  <2> DEFINE new == [pc |-> "write", scope |-> s, key |-> k, val |-> v, auto |-> auto,
                     cat |-> c, keep |-> lease = None, exp |-> e, old |-> old]
  <2> HIDE DEF c, e
  <2>6. new \in SetWork /\ new.pc = "write"
    BY <2>1, <2>2, <2>4, <2>5 DEF SetWork
  <2> HIDE DEF new
  <2>7. work' = [work EXCEPT ![p] = new]
    BY <2>3 DEF new
  <2> QED
    BY <1>2, <2>6, <2>7 DEF Select, TypeOK
<1>3. ASSUME NEW p \in Procs, Write(p) PROVE TypeOK'
  <2>1. work[p] \in SetWork
    BY <1>3, WorkKinds DEF Write
  <2>2. rows' \subseteq Row /\ nextId' \in Nat
    <3>1. CASE rows' = rows \cup {Inserted(work[p])} /\ nextId' = nextId + 1
      BY <3>1, <2>1, InsertedType DEF TypeOK
    <3>2. CASE UNCHANGED <<rows, nextId>>
      BY <3>2 DEF TypeOK
    <3>3. ASSUME NEW r \in work[p].old,
                 rows' = {IF x.id = r.id THEN Updated(work[p], r) ELSE x : x \in rows},
                 UNCHANGED nextId
          PROVE rows' \subseteq Row /\ nextId' \in Nat
      <4>1. r \in Row
        BY <2>1 DEF SetWork
      <4>2. Updated(work[p], r) \in Row
        BY <4>1, <2>1, UpdatedType
      <4> QED BY <3>3, <4>2 DEF TypeOK
    <3> QED BY <1>3, <3>1, <3>2, <3>3 DEF Write
  <2> QED BY <1>3, <2>2 DEF Write, Watch, TypeOK, NoWork
<1>4. ASSUME NEW p \in Procs, NEW todo \in Readings, Read(p, todo) PROVE TypeOK'
  <2> DEFINE new == [pc |-> "sweep", todo |-> todo]
  <2>1. new \in ReadWork /\ new.todo # <<>> /\ todo \in Seq(Scopes)
    BY DEF ReadWork
  <2>2. work' = [work EXCEPT ![p] = new]
    BY <1>4 DEF Read
  <2> HIDE DEF new
  <2> QED BY <1>4, <2>1, <2>2 DEF Read, TypeOK
<1>5. ASSUME NEW p \in Procs, Sweep(p) PROVE TypeOK'
  <2>1. work[p] \in ReadWork /\ work[p].todo # <<>>
    BY <1>5, WorkKinds DEF Sweep
  <2>2. [work[p] EXCEPT !.pc = "read"] \in ReadWork /\ [work[p] EXCEPT !.pc = "read"].todo # <<>>
    BY <2>1 DEF ReadWork
  <2>3. work' = [work EXCEPT ![p] = [work[p] EXCEPT !.pc = "read"]]
    BY <1>5 DEF Sweep
  <2> QED BY <1>5, <2>2, <2>3 DEF Sweep, Swept, Watch, TypeOK
<1>6. ASSUME NEW p \in Procs, Answer(p) PROVE TypeOK'
  <2>1. work[p].todo \in Seq(Scopes) /\ work[p].todo # <<>>
    BY <1>6, WorkKinds DEF Answer
  <2>2. CASE Len(work[p].todo) = 1
    BY <1>6, <2>2 DEF Answer, TypeOK, NoWork
  <2>3. CASE Len(work[p].todo) # 1
    <3> DEFINE new == [pc |-> "sweep", todo |-> Tail(work[p].todo)]
    <3>1. Tail(work[p].todo) \in Seq(Scopes) /\ Tail(work[p].todo) # <<>>
      <4>1. Len(Tail(work[p].todo)) = Len(work[p].todo) - 1
            /\ Tail(work[p].todo) \in Seq(Scopes)
        BY <2>1, HeadTailProperties
      <4>2. Len(work[p].todo) \in Nat /\ Len(work[p].todo) # 0
        BY <2>1, EmptySeq
      <4>3. Len(Tail(work[p].todo)) # 0
        BY <4>1, <4>2, <2>3
      <4>4. Len(<<>>) = 0
        BY EmptySeq
      <4>5. Tail(work[p].todo) # <<>>
        BY <4>3, <4>4, Zenon
      <4> QED BY <4>1, <4>5
    <3>2. new \in ReadWork /\ new.todo # <<>>
      BY <3>1 DEF ReadWork
    <3>3. work' = [work EXCEPT ![p] = new]
      BY <1>6, <2>3 DEF Answer
    <3> HIDE DEF new
    <3> QED BY <1>6, <3>2, <3>3 DEF Answer, TypeOK
  <2> QED BY <2>2, <2>3
<1>7. ASSUME NEW p \in Procs, Stop(p) PROVE TypeOK'
  BY <1>7 DEF Stop, TypeOK, NoWork
<1>8. CASE Tick
  BY <1>8 DEF Tick, TypeOK
<1>9. CASE UNCHANGED vars
  BY <1>9 DEF vars, TypeOK
<1> QED
  BY <1>1, <1>2, <1>3, <1>4, <1>5, <1>6, <1>7, <1>8, <1>9 DEF Next

-----------------------------------------------------------------------------
(***************************************************************************)
(* The sweep and the lease of SlotMap agree on what is over.               *)
(***************************************************************************)
LEMMA DaysNat == ASSUME NEW r \in Row, Timed(r) PROVE Days[r.cat] \in Nat
BY CategoryAssumption DEF Timed, Row

LEMMA UntilNat == ASSUME NEW r \in Row PROVE Until(r) \in Nat
BY DaysNat, TimeAssumption DEF Until, Row

LEMMA OverIsUntil ==
    ASSUME TypeOK, NEW r \in Row PROVE Over(r) <=> Until(r) < now
<1>1. now \in Nat /\ now <= MaxTime /\ Forever \in Nat /\ MaxTime \in Nat /\ MaxTime < Forever
  BY TimeAssumption DEF TypeOK
<1>2. r.exp \in Nat /\ r.upd \in Nat
  BY DEF Row
<1>3. CASE Timed(r)
  BY <1>1, <1>2, <1>3, DaysNat DEF Over, Until
<1>4. CASE ~Timed(r)
  BY <1>1, <1>2, <1>4 DEF Over, Until
<1> QED BY <1>3, <1>4

\* A row that is written now with an expires_at to come is not over.
LEMMA NewIsNotOver ==
    ASSUME TypeOK, NEW r \in Row, r.upd = now, r.exp >= now PROVE ~Over(r)
<1>1. now \in Nat /\ r.exp \in Nat
  BY TimeAssumption DEF TypeOK, Row
<1> QED BY <1>1, DaysNat DEF Over

(***************************************************************************)
(* A write that nobody raced: the row of the slot becomes the new one, and *)
(* the UNIQUE constraint is not met.                                       *)
(***************************************************************************)
LEMMA NotRaced ==
    ASSUME NEW p \in Procs, Watch(p), TypeOK, ~raced'
    PROVE  /\ ~raced
           /\ \A q \in Procs \ {p} : work[q].pc = "write" =>
                RowsIn(rows', work[q].scope, work[q].key)
                  = RowsIn(rows, work[q].scope, work[q].key)
BY DEF Watch, TypeOK

LEMMA WriteUnraced ==
    ASSUME StoreInv, NEW p \in Procs, Write(p), ~raced
    PROVE  LET w == work[p] IN
           \E new \in Row :
              /\ new.scope = w.scope /\ new.key = w.key /\ new.val = w.val /\ new.upd = now
              /\ rows' = (rows \ RowsOf(w.scope, w.key)) \cup {new}
              /\ \/ /\ RowsOf(w.scope, w.key) = {} /\ new.ver = 1 /\ new.exp >= now
                 \/ \E r \in rows :
                      /\ RowsOf(w.scope, w.key) = {r}
                      /\ new.ver = r.ver + 1
                      /\ new.exp >= now \/ new.exp = r.exp
<1> DEFINE w == work[p]
<1>1. w \in SetWork /\ w.old = RowsOf(w.scope, w.key) /\ w.exp >= now
  BY WorkKinds DEF Write, StoreInv, Calm, Read1, Leased
<1>2. Once /\ TypeOK /\ rows \subseteq Row
  BY DEF StoreInv, Calm, TypeOK
<1>3. CASE w.old = {}
  <2>1. PICK new \in Row : /\ new = Inserted(w) /\ new.scope = w.scope /\ new.key = w.key
                           /\ new.val = w.val /\ new.ver = 1 /\ new.upd = now /\ new.exp = w.exp
    BY <1>1, <1>2, InsertedType
  <2>2. ~Clash(new)
    BY <1>1, <1>3, <2>1 DEF Clash, RowsOf, RowsIn
  <2>3. rows' = rows \cup {new}
    BY <1>3, <2>1, <2>2 DEF Write
  <2> QED BY <1>1, <1>3, <2>1, <2>3
<1>4. ASSUME NEW r \in w.old PROVE w.old = {r} /\ r \in rows
  BY <1>1, <1>2 DEF Once, RowsOf, RowsIn
<1>5. CASE w.old # {}
  <2>1. PICK r \in w.old : rows' = IF Clash(Updated(w, r)) THEN rows
                             ELSE {IF x.id = r.id THEN Updated(w, r) ELSE x : x \in rows}
    BY <1>5 DEF Write
  <2>2. w.old = {r} /\ r \in rows /\ r \in Row /\ r.scope = w.scope /\ r.key = w.key
    BY <1>1, <1>2, <1>4 DEF RowsOf, RowsIn
  <2>3. PICK new \in Row : /\ new = Updated(w, r) /\ new.id = r.id /\ new.scope = r.scope
                           /\ new.key = r.key /\ new.val = w.val /\ new.ver = r.ver + 1
                           /\ new.upd = now /\ new.exp = (IF w.keep THEN r.exp ELSE w.exp)
    BY <1>1, <1>2, <2>2, UpdatedType
  <2>4. ~Clash(new)
    BY <1>1, <2>2, <2>3 DEF Clash, RowsOf, RowsIn
  <2>5. rows' = {IF x.id = r.id THEN new ELSE x : x \in rows}
    BY <2>1, <2>3, <2>4
  <2>6. \A x \in rows : x.id = r.id <=> x = r
    BY <2>2 DEF StoreInv, Ids
  <2>7. rows' = (rows \ {r}) \cup {new}
    BY <2>2, <2>5, <2>6
  <2>8. new.exp >= now \/ new.exp = r.exp
    BY <1>1, <2>3
  <2> QED BY <1>1, <2>2, <2>3, <2>7, <2>8
<1> QED BY <1>3, <1>5

-----------------------------------------------------------------------------
LEMMA IdsStep ==
    ASSUME TypeOK, Ids, [Next]_vars PROVE Ids'
<1>1. ASSUME NEW p \in Procs, NEW s \in Scopes, NEW k \in Keys, Delete(p, s, k) PROVE Ids'
  BY <1>1 DEF Delete, Ids
<1>2. ASSUME NEW p \in Procs, Write(p) PROVE Ids'
  <2>1. work[p] \in SetWork /\ rows \subseteq Row /\ nextId \in Nat
    BY <1>2, WorkKinds DEF Write, TypeOK
  <2>2. CASE rows' = rows \cup {Inserted(work[p])} /\ nextId' = nextId + 1
    <3>1. Inserted(work[p]).id = nextId
      BY <2>1, InsertedType
    <3>2. \A r \in rows : r.id \in Nat /\ r.id < nextId
      BY <2>1 DEF Ids, Row
    <3> QED BY <2>1, <2>2, <3>1, <3>2 DEF Ids
  <2>3. CASE UNCHANGED <<rows, nextId>>
    BY <2>3 DEF Ids
  <2>4. ASSUME NEW r \in work[p].old, UNCHANGED nextId,
               rows' = {IF x.id = r.id THEN Updated(work[p], r) ELSE x : x \in rows}
        PROVE  Ids'
    <3>1. r \in Row
      BY <2>1 DEF SetWork
    <3>2. Updated(work[p], r).id = r.id
      BY <2>1, <3>1, UpdatedType
    <3>3. \A x \in rows' : \E y \in rows : y.id = x.id /\ (x = y \/ x = Updated(work[p], r))
                                         /\ (x.id = r.id => x = Updated(work[p], r))
      BY <2>4, <3>2
    <3> QED BY <2>4, <3>2, <3>3 DEF Ids
  <2> QED BY <1>2, <2>2, <2>3, <2>4 DEF Write
<1>3. ASSUME NEW p \in Procs, Sweep(p) PROVE Ids'
  BY <1>3 DEF Sweep, Ids
<1>4. CASE UNCHANGED <<rows, nextId>>
  BY <1>4 DEF Ids
<1> QED
  BY <1>1, <1>2, <1>3, <1>4 DEF Next, Select, Read, Answer, Stop, Tick, vars

LEMMA LeasedStep ==
    ASSUME TypeOK, Leased, [Next]_vars PROVE Leased'
<1> USE DEF Leased
<1>1. ASSUME NEW p \in Procs, NEW s \in Scopes, NEW k \in Keys, NEW v \in Values,
             NEW cat \in Named, NEW auto \in BOOLEAN, NEW lease \in Leases \cup {None},
             Select(p, s, k, v, cat, auto, lease)
      PROVE  Leased'
  <2> DEFINE e == IF lease = None THEN Forever ELSE now + lease
  <2>1. e \in Nat /\ e >= now
    BY TimeAssumption, BoundsAssumption DEF TypeOK
  <2>2. \A q \in Procs : work'[q] = work[q] \/ work'[q].exp = e
    BY <1>1 DEF Select, TypeOK
  <2>3. now' = now
    BY <1>1 DEF Select
  <2> QED BY <2>1, <2>2, <2>3
<1>2. CASE Tick
  BY <1>2 DEF Tick, Idle
<1>3. ASSUME now' = now,
             \A q \in Procs : work'[q] = work[q] \/ work'[q].pc # "write"
      PROVE  Leased'
  BY <1>3
<1>4. ASSUME NEW p \in Procs, NEW s \in Scopes, NEW k \in Keys, Delete(p, s, k) PROVE Leased'
  BY <1>3, <1>4 DEF Delete
<1>5. ASSUME NEW p \in Procs, Write(p) \/ Stop(p) PROVE Leased'
  BY <1>3, <1>5 DEF Write, Stop, NoWork, TypeOK
<1>6. ASSUME NEW p \in Procs, NEW todo \in Readings, Read(p, todo) PROVE Leased'
  BY <1>3, <1>6 DEF Read, TypeOK
<1>7. ASSUME NEW p \in Procs, Sweep(p) PROVE Leased'
  <2>1. work[p] \in ReadWork
    BY <1>7, WorkKinds DEF Sweep
  <2>2. [work[p] EXCEPT !.pc = "read"].pc = "read"
    BY <2>1 DEF ReadWork
  <2>3. work' = [work EXCEPT ![p] = [work[p] EXCEPT !.pc = "read"]] /\ now' = now
    BY <1>7 DEF Sweep
  <2> QED BY <1>3, <2>2, <2>3 DEF TypeOK
<1>8. ASSUME NEW p \in Procs, Answer(p) PROVE Leased'
  <2>1. work'[p].pc # "write"
    BY <1>8 DEF Answer, TypeOK, NoWork
  <2> QED BY <1>3, <1>8, <2>1 DEF Answer, TypeOK
<1>9. CASE UNCHANGED vars
  BY <1>3, <1>9 DEF vars
<1> QED
  BY <1>1, <1>2, <1>4, <1>5, <1>6, <1>7, <1>8, <1>9 DEF Next

LEMMA CalmStep ==
    ASSUME StoreInv, [Next]_vars, ~raced', TypeOK' PROVE Calm'
<1> USE DEF Calm
<1>0. TypeOK /\ rows \subseteq Row
  BY DEF StoreInv, TypeOK
<1>1. ASSUME NEW p \in Procs, NEW s \in Scopes, NEW k \in Keys, Delete(p, s, k) PROVE Calm'
  <2>1. ~raced /\ Calm
    BY <1>0, <1>1, NotRaced DEF Delete, StoreInv
  <2>2. Once'
    BY <1>1, <2>1 DEF Delete, Once
  <2>3. \A q \in Procs : Read1(q)'
    BY <1>0, <1>1, <2>1, NotRaced DEF Delete, Read1, RowsOf
  <2>4. \A q \in Procs : NoneOver(q)'
    BY <1>1, <2>1 DEF Delete, NoneOver, Over, Timed
  <2> QED BY <2>2, <2>3, <2>4
<1>2. ASSUME NEW p \in Procs, NEW s \in Scopes, NEW k \in Keys, NEW v \in Values,
             NEW cat \in Named, NEW auto \in BOOLEAN, NEW lease \in Leases \cup {None},
             Select(p, s, k, v, cat, auto, lease)
      PROVE  Calm'
  <2>1. Calm /\ rows' = rows /\ now' = now
    BY <1>2 DEF Select, StoreInv
  <2>2. PICK old \in {{}} \cup {{r} : r \in RowsOf(s, k)} :
          /\ old = {} => RowsOf(s, k) = {}
          /\ \A q \in Procs : work'[q] = work[q] \/
               (work'[q].pc = "write" /\ work'[q].scope = s /\ work'[q].key = k /\ work'[q].old = old)
    BY <1>0, <1>2 DEF Select, TypeOK
  <2>3. old = RowsOf(s, k)
    BY <2>1, <2>2 DEF Once, RowsOf, RowsIn
  <2>4. \A q \in Procs : Read1(q)'
    BY <2>1, <2>2, <2>3 DEF Read1, RowsOf
  <2>5. \A q \in Procs : NoneOver(q)'
    BY <2>1, <2>2 DEF NoneOver, Over, Timed
  <2> QED BY <2>1, <2>4, <2>5 DEF Once
<1>3. ASSUME NEW p \in Procs, Write(p) PROVE Calm'
  <2>1. ~raced /\ Calm /\ now' = now /\ work' = [work EXCEPT ![p] = NoWork]
    BY <1>0, <1>3, NotRaced DEF Write, StoreInv
  <2> DEFINE w == work[p]
  <2>2. PICK new \in Row :
          /\ new.scope = w.scope /\ new.key = w.key /\ new.val = w.val /\ new.upd = now
          /\ rows' = (rows \ RowsOf(w.scope, w.key)) \cup {new}
          /\ \/ /\ RowsOf(w.scope, w.key) = {} /\ new.ver = 1 /\ new.exp >= now
             \/ \E r \in rows :
                  /\ RowsOf(w.scope, w.key) = {r}
                  /\ new.ver = r.ver + 1
                  /\ new.exp >= now \/ new.exp = r.exp
    BY <1>3, <2>1, WriteUnraced
  <2>3. Once'
    BY <2>1, <2>2 DEF Once, RowsOf, RowsIn
  <2>4. \A q \in Procs : Read1(q)'
    <3>1. Read1(p)'
      BY <1>0, <2>1 DEF Read1, NoWork, TypeOK
    <3>2. ASSUME NEW q \in Procs \ {p} PROVE Read1(q)'
      BY <1>0, <1>3, <2>1, NotRaced DEF Write, Read1, RowsOf, TypeOK
    <3> QED BY <3>1, <3>2
  <2>5. ASSUME NEW q \in Procs, work'[q].pc = "read", NEW r \in rows', r.scope = Head(work'[q].todo)
        PROVE  ~Over(r)'
    <3>1. q # p /\ work'[q] = work[q]
      BY <1>0, <2>1, <2>5 DEF NoWork, TypeOK
    <3>2. CASE r \in rows
      BY <2>1, <2>5, <3>1, <3>2 DEF NoneOver, Over, Timed
    <3>3. CASE r = new
      <4>1. new.exp >= now
        <5>1. CASE RowsOf(w.scope, w.key) = {}
          BY <2>2, <5>1
        <5>2. ASSUME NEW x \in rows, RowsOf(w.scope, w.key) = {x}, new.exp = x.exp
              PROVE  new.exp >= now
          <6>1. x.scope = Head(work[q].todo)
            BY <2>2, <2>5, <3>1, <3>3, <5>2 DEF RowsOf, RowsIn
          <6>2. ~Over(x)
            BY <2>1, <2>5, <3>1, <6>1 DEF NoneOver
          <6>3. x.exp \in Nat /\ now \in Nat
            BY <1>0, TimeAssumption DEF Row, TypeOK
          <6> QED BY <5>2, <6>2, <6>3 DEF Over
        <5> QED BY <2>2, <5>1, <5>2
      <4>2. ~Over(new)
        BY <1>0, <2>2, <4>1, NewIsNotOver
      <4> QED BY <2>1, <3>3, <4>2 DEF Over, Timed
    <3> QED BY <2>2, <2>5, <3>2, <3>3
  <2> QED BY <2>3, <2>4, <2>5 DEF NoneOver
<1>4. ASSUME NEW p \in Procs, NEW todo \in Readings, Read(p, todo) PROVE Calm'
  <2>1. Calm /\ rows' = rows /\ now' = now
    BY <1>4 DEF Read, StoreInv
  <2>2. \A q \in Procs : work'[q] = work[q] \/ work'[q].pc = "sweep"
    BY <1>0, <1>4 DEF Read, TypeOK
  <2> QED BY <2>1, <2>2 DEF Once, Read1, NoneOver, RowsOf, Over, Timed
<1>5. ASSUME NEW p \in Procs, Sweep(p) PROVE Calm'
  <2>1. ~raced /\ Calm /\ now' = now
    BY <1>0, <1>5, NotRaced DEF Sweep, StoreInv
  <2>2. rows' = rows \ Swept(Head(work[p].todo)) /\ work[p] \in ReadWork
    BY <1>0, <1>5, WorkKinds DEF Sweep
  <2>3. /\ \A q \in Procs \ {p} : work'[q] = work[q]
        /\ work'[p].pc = "read" /\ work'[p].todo = work[p].todo
    BY <1>0, <1>5, <2>2 DEF Sweep, TypeOK, ReadWork
  <2>4. Once'
    BY <2>1, <2>2 DEF Once
  <2>5. \A q \in Procs : Read1(q)'
    <3>1. Read1(p)'
      BY <2>3 DEF Read1
    <3>2. ASSUME NEW q \in Procs \ {p}, work[q].pc = "write" PROVE Read1(q)'
      <4>1. Watch(p) /\ work'[q] = work[q] /\ work[q].old = RowsOf(work[q].scope, work[q].key)
        BY <1>5, <2>1, <2>3, <3>2 DEF Sweep, Read1
      <4>2. RowsIn(rows', work[q].scope, work[q].key) = RowsIn(rows, work[q].scope, work[q].key)
        BY <1>0, <3>2, <4>1, NotRaced
      <4> QED BY <4>1, <4>2 DEF Read1, RowsOf
    <3>3. ASSUME NEW q \in Procs \ {p}, work[q].pc # "write" PROVE Read1(q)'
      BY <2>3, <3>3 DEF Read1
    <3> QED BY <3>1, <3>2, <3>3
  <2>6. \A q \in Procs : NoneOver(q)'
    BY <2>1, <2>2, <2>3 DEF NoneOver, Swept, Over, Timed
  <2> QED BY <2>4, <2>5, <2>6
<1>6. ASSUME NEW p \in Procs, Answer(p) \/ Stop(p) PROVE Calm'
  <2>1. Calm /\ rows' = rows /\ now' = now
    BY <1>6 DEF Answer, Stop, StoreInv
  <2>2. \A q \in Procs : work'[q] = work[q] \/ work'[q].pc \in {"idle", "sweep"}
    BY <1>0, <1>6 DEF Answer, Stop, TypeOK, NoWork
  <2> QED BY <2>1, <2>2 DEF Once, Read1, NoneOver, RowsOf, Over, Timed
<1>7. CASE Tick
  <2>1. Calm /\ rows' = rows /\ work' = work /\ Idle
    BY <1>7 DEF Tick, StoreInv
  <2> QED BY <2>1 DEF Once, Read1, NoneOver, RowsOf, Idle
<1>8. CASE UNCHANGED vars
  BY <1>8 DEF vars, StoreInv, Once, Read1, NoneOver, RowsOf, Over, Timed
<1> QED
  BY <1>1, <1>2, <1>3, <1>4, <1>5, <1>6, <1>7, <1>8 DEF Next

-----------------------------------------------------------------------------
LEMMA Starts == Init => StoreInv /\ raced = FALSE
<1> SUFFICES ASSUME Init PROVE StoreInv /\ raced = FALSE
  OBVIOUS
<1>1. \A p \in Procs : work[p] = NoWork /\ work[p].pc = "idle"
  BY DEF Init, NoWork
<1>2. TypeOK
  <2>1. work \in [Procs -> {NoWork} \cup SetWork \cup ReadWork]
    BY DEF Init
  <2>2. 0 \in 0..MaxTime /\ 0 \in 0..MaxSets
    BY TimeAssumption, BoundsAssumption
  <2>3. \A p \in Procs : work[p].pc \in {"sweep", "read"} => work[p].todo # <<>>
    BY <1>1
  <2> QED BY <2>1, <2>2, <2>3 DEF TypeOK, Init
<1>3. Ids /\ Leased /\ Calm
  BY <1>1 DEF Init, Ids, Leased, Calm, Once, Read1, NoneOver
<1> QED BY <1>2, <1>3 DEF Init, StoreInv

LEMMA RacedStays == ASSUME TypeOK, [Next]_vars, ~raced' PROVE ~raced
BY DEF Next, Delete, Select, Write, Read, Sweep, Answer, Stop, Tick, Watch, vars, TypeOK

\* The inductive invariant of the store.
LEMMA StoreInductive == StoreInv /\ [Next]_vars => StoreInv'
<1> SUFFICES ASSUME StoreInv, [Next]_vars PROVE StoreInv'
  OBVIOUS
<1>1. TypeOK'
  BY TypeStep DEF StoreInv
<1>2. Ids' /\ Leased'
  BY IdsStep, LeasedStep DEF StoreInv
<1>3. ASSUME ~raced' PROVE Calm'
  BY <1>1, <1>3, CalmStep
<1> QED BY <1>1, <1>2, <1>3 DEF StoreInv

LEMMA StoreInvariance == Spec => []StoreInv
<1>1. Init => StoreInv
  BY Starts
<1> QED BY <1>1, StoreInductive, PTL DEF Spec

(***************************************************************************)
(* The variables have their types.                                         *)
(***************************************************************************)
THEOREM TypesAreKept == Spec => []TypeOK
<1>1. StoreInv => TypeOK
  BY DEF StoreInv
<1> QED BY <1>1, StoreInvariance, PTL

(***************************************************************************)
(* While no two processes race for a slot, a key is in a scope once,       *)
(* whatever categories its sets are given: set updates the row it has read *)
(* and gives it the category (slot-db.ts, set).                            *)
(***************************************************************************)
THEOREM KeysAreOnce == Spec => []OneRowPerKey
<1>1. StoreInv => OneRowPerKey
  BY DEF StoreInv, Calm, Once, OneRowPerKey
<1> QED BY <1>1, StoreInvariance, PTL

(***************************************************************************)
(* While no two processes race for a slot, a read that has swept its scope *)
(* selects nothing that is over, whatever other processes do in between.   *)
(***************************************************************************)
THEOREM ReadsAreFresh == Spec => []NothingOverIsRead
<1>1. StoreInv => NothingOverIsRead
  BY DEF StoreInv, Calm, NoneOver, NothingOverIsRead
<1> QED BY <1>1, StoreInvariance, PTL

-----------------------------------------------------------------------------
(***************************************************************************)
(* What a sweep may not take: it takes what is over.                       *)
(***************************************************************************)
LEMMA StaysIsNotOver == ASSUME TypeOK, NEW r \in Row, Stays(r) PROVE ~Over(r)
<1>1. now \in Nat /\ Forever \in Nat /\ Forever > now
  BY TimeAssumption DEF TypeOK
<1>2. ~Timed(r)
  BY Zenon DEF Stays, Timed
<1>3. r.exp = Forever
  BY Zenon DEF Stays
<1>4. ~(r.exp < now)
  BY <1>1, <1>3
<1> QED BY <1>2, <1>4 DEF Over

LEMMA LastingStep ==
    ASSUME TypeOK, [Next]_vars, NEW r \in rows, Stays(r)
    PROVE  \/ \E x \in rows' : x.id = r.id
           \/ \E p \in Procs : Delete(p, r.scope, r.key)
<1>0. r \in Row
  BY DEF TypeOK
<1>1. ASSUME NEW p \in Procs, NEW s \in Scopes, NEW k \in Keys, Delete(p, s, k)
      PROVE  (\E x \in rows' : x.id = r.id) \/ Delete(p, r.scope, r.key)
  <2>1. CASE r \in RowsOf(s, k)
    BY <1>1, <2>1 DEF RowsOf, RowsIn
  <2>2. CASE r \notin RowsOf(s, k)
    BY <1>1, <2>2 DEF Delete
  <2> QED BY <2>1, <2>2
<1>2. ASSUME NEW p \in Procs, Write(p) PROVE \E x \in rows' : x.id = r.id
  <2>1. work[p] \in SetWork
    BY <1>2, WorkKinds DEF Write
  <2>2. CASE rows \subseteq rows'
    BY <2>2
  <2>3. ASSUME NEW y \in work[p].old,
               rows' = {IF x.id = y.id THEN Updated(work[p], y) ELSE x : x \in rows}
        PROVE  \E x \in rows' : x.id = r.id
    <3>1. y \in Row
      BY <2>1 DEF SetWork
    <3>2. Updated(work[p], y).id = y.id
      BY <2>1, <3>1, UpdatedType
    <3> QED BY <2>3, <3>2
  <2> QED BY <1>2, <2>2, <2>3 DEF Write
<1>3. ASSUME NEW p \in Procs, Sweep(p) PROVE \E x \in rows' : x.id = r.id
  <2>1. r \notin Swept(Head(work[p].todo))
    BY <1>0, StaysIsNotOver DEF Swept
  <2> QED BY <1>3, <2>1 DEF Sweep
<1>4. CASE rows' = rows
  BY <1>4
<1> QED
  BY <1>1, <1>2, <1>3, <1>4 DEF Next, Select, Read, Answer, Stop, Tick, vars

(***************************************************************************)
(* Races or not, a lasting slot goes by a delete of its key only: neither  *)
(* a set nor the sweep of any process takes it.                            *)
(***************************************************************************)
THEOREM LastingStay == Spec => LastingSlotsStay
<1>1. TypeOK /\ [Next]_vars =>
        [\A r \in rows : Stays(r) =>
           \/ \E x \in rows' : x.id = r.id
           \/ \E p \in Procs : Delete(p, r.scope, r.key)]_vars
  BY LastingStep
<1> QED BY <1>1, TypesAreKept, PTL DEF Spec, LastingSlotsStay

-----------------------------------------------------------------------------
(***************************************************************************)
(* The refinement of SlotMap.                                              *)
(***************************************************************************)
SlotIn(R, s, k) ==
    IF RowsIn(R, s, k) = {} THEN None
    ELSE LET r == CHOOSE r \in RowsIn(R, s, k) : TRUE IN
           [val |-> r.val, ver |-> r.ver, until |-> Until(r)]

SlotsIn(R) == [s \in Scopes |-> [k \in Keys |-> SlotIn(R, s, k)]]

LEMMA SlotsAreIn == Slots = SlotsIn(rows) /\ Slots' = SlotsIn(rows')
BY DEF Slots, SlotsIn, Slot, SlotIn, RowsOf

LEMMA NoSlot ==
    ASSUME NEW R, NEW s, NEW k, RowsIn(R, s, k) = {} PROVE SlotIn(R, s, k) = None
BY DEF SlotIn

LEMMA OneSlot ==
    ASSUME NEW R, NEW s, NEW k, NEW r \in Row, RowsIn(R, s, k) = {r}
    PROVE  /\ SlotIn(R, s, k) # None
           /\ SlotIn(R, s, k).val = r.val /\ SlotIn(R, s, k).ver = r.ver
           /\ SlotIn(R, s, k).until = Until(r)
<1> DEFINE rec == [val |-> r.val, ver |-> r.ver, until |-> Until(r)]
<1>1. (CHOOSE x \in {r} : TRUE) = r
  OBVIOUS
<1>2. SlotIn(R, s, k) = rec
  BY <1>1 DEF SlotIn
<1>3. rec \in [val : Values, ver : Nat, until : Nat]
  BY UntilNat DEF Row
<1>4. rec # None
  BY <1>3, NoneAssumption
<1> QED BY <1>2, <1>4

\* A step that changes one slot.
LEMMA SameSlots ==
    ASSUME NEW s \in Scopes, NEW k \in Keys,
           \A t \in Scopes, l \in Keys :
             t # s \/ l # k => RowsIn(rows', t, l) = RowsIn(rows, t, l)
    PROVE  Slots' = [Slots EXCEPT ![s][k] = SlotIn(rows', s, k)]
<1>1. \A t \in Scopes, l \in Keys : t # s \/ l # k => SlotIn(rows', t, l) = SlotIn(rows, t, l)
  BY DEF SlotIn
<1>2. \A t \in Scopes \ {s} :
        [l \in Keys |-> SlotIn(rows', t, l)] = [l \in Keys |-> SlotIn(rows, t, l)]
  BY <1>1
<1>3. [l \in Keys |-> SlotIn(rows', s, l)]
        = [[l \in Keys |-> SlotIn(rows, s, l)] EXCEPT ![k] = SlotIn(rows', s, k)]
  BY <1>1
<1> QED BY <1>2, <1>3, SlotsAreIn DEF SlotsIn

LEMMA PutStep ==
    ASSUME StoreInv, NEW p \in Procs, Write(p), ~raced, now' = now
    PROVE  \E s \in Scopes, k \in Keys, v \in Values : Map!Put(s, k, v)
<1> DEFINE w == work[p]
           old == RowsOf(w.scope, w.key)
<1>1. w \in SetWork /\ TypeOK /\ rows \subseteq Row
  BY WorkKinds DEF Write, StoreInv, TypeOK
<1>2. w.scope \in Scopes /\ w.key \in Keys /\ w.val \in Values
  BY <1>1 DEF SetWork
<1>3. PICK new \in Row :
        /\ new.scope = w.scope /\ new.key = w.key /\ new.val = w.val /\ new.upd = now
        /\ rows' = (rows \ old) \cup {new}
        /\ \/ old = {} /\ new.ver = 1 /\ new.exp >= now
           \/ \E r \in rows : old = {r} /\ new.ver = r.ver + 1 /\ (new.exp >= now \/ new.exp = r.exp)
  BY WriteUnraced
<1> DEFINE slot == SlotIn(rows', w.scope, w.key)
           was == SlotIn(rows, w.scope, w.key)
<1>4. RowsIn(rows', w.scope, w.key) = {new} /\ RowsIn(rows, w.scope, w.key) = old
  BY <1>3 DEF RowsOf, RowsIn
<1>5. \A t \in Scopes, l \in Keys :
        t # w.scope \/ l # w.key => RowsIn(rows', t, l) = RowsIn(rows, t, l)
  BY <1>3 DEF RowsOf, RowsIn
<1>6. slot # None /\ slot.val = w.val /\ slot.ver = new.ver /\ slot.until = Until(new)
  <2>1. RowsIn(rows', w.scope, w.key) = {new} /\ new.val = w.val
    BY <1>3, <1>4
  <2> QED BY <2>1, OneSlot
<1>7. /\ Slots = SlotsIn(rows) /\ Slots' = SlotsIn(rows')
      /\ Slots[w.scope][w.key] = was /\ Slots'[w.scope][w.key] = slot
  BY <1>2, SlotsAreIn DEF SlotsIn
<1>8. Slots' = [Slots EXCEPT ![w.scope][w.key] = slot]
  BY <1>2, <1>5, SameSlots
<1>9. new.exp >= now => Until(new) >= now
  <2>1. ASSUME new.exp >= now PROVE ~(Until(new) < now)
    BY <1>1, <1>3, <2>1, NewIsNotOver, OverIsUntil
  <2>2. Until(new) \in Nat /\ now \in Nat
    BY <1>1, UntilNat DEF TypeOK
  <2> QED BY <2>1, <2>2
<1>10. /\ slot.ver = IF was = None THEN 1 ELSE was.ver + 1
       /\ slot.until >= now \/ (was # None /\ was.until < now)
  <2>1. CASE old = {} /\ new.ver = 1 /\ new.exp >= now
    BY <1>4, <1>6, <1>9, <2>1, NoSlot
  <2>2. ASSUME NEW r \in rows, old = {r}, new.ver = r.ver + 1, new.exp >= now \/ new.exp = r.exp
        PROVE  <1>10!1 /\ <1>10!2
    <3>1. was # None /\ was.ver = r.ver /\ was.until = Until(r)
      BY <1>1, <1>4, <2>2, OneSlot
    <3>2. ASSUME ~(new.exp >= now) PROVE Until(r) < now
      <4>1. r.exp \in Nat /\ now \in Nat /\ r \in Row
        BY <1>1 DEF Row, TypeOK
      <4>2. r.exp < now
        BY <2>2, <3>2, <4>1
      <4>3. Over(r)
        BY <4>2 DEF Over
      <4> QED BY <1>1, <4>1, <4>3, OverIsUntil
    <3> QED BY <1>6, <1>9, <2>2, <3>1, <3>2
  <2> QED BY <1>3, <2>1, <2>2
<1> HIDE DEF slot, was, old
<1>11. Map!Put(w.scope, w.key, w.val)
  BY <1>6, <1>7, <1>8, <1>10 DEF Map!Put, Map!Lapsed
<1> QED BY <1>2, <1>11

LEMMA DropStep ==
    ASSUME NEW p \in Procs, NEW s \in Scopes, NEW k \in Keys, Delete(p, s, k)
    PROVE  Map!Drop(s, k)
<1>1. RowsIn(rows', s, k) = {}
  BY DEF Delete, RowsOf, RowsIn
<1>2. \A t \in Scopes, l \in Keys : t # s \/ l # k => RowsIn(rows', t, l) = RowsIn(rows, t, l)
  BY DEF Delete, RowsOf, RowsIn
<1>3. SlotIn(rows', s, k) = None
  BY <1>1, NoSlot
<1>4. Slots' = [Slots EXCEPT ![s][k] = SlotIn(rows', s, k)]
  BY <1>2, SameSlots
<1>5. Slots' = [Slots EXCEPT ![s][k] = None]
  BY <1>3, <1>4
<1> QED BY <1>5 DEF Map!Drop, Delete

LEMMA CleanStep ==
    ASSUME StoreInv, ~raced, NEW p \in Procs, Sweep(p)
    PROVE  \E s \in Scopes : Map!Clean(s)
<1> DEFINE s == Head(work[p].todo)
<1>1. TypeOK /\ rows \subseteq Row /\ Once /\ work[p].todo \in Seq(Scopes) /\ work[p].todo # <<>>
  BY WorkKinds DEF Sweep, StoreInv, TypeOK, Calm
<1>2. s \in Scopes
  BY <1>1, HeadTailProperties
<1>3. rows' = rows \ Swept(s) /\ now' = now
  BY DEF Sweep
<1> HIDE DEF s
<1>4. \A t \in Scopes \ {s}, k \in Keys : RowsIn(rows', t, k) = RowsIn(rows, t, k)
  BY <1>3 DEF Swept, RowsIn
<1>5. \A t \in Scopes \ {s}, k \in Keys : SlotIn(rows', t, k) = SlotIn(rows, t, k)
  BY <1>4 DEF SlotIn
<1>6. ASSUME NEW k \in Keys
      PROVE  SlotIn(rows', s, k) = IF SlotIn(rows, s, k) # None /\ SlotIn(rows, s, k).until < now
                                     THEN None ELSE SlotIn(rows, s, k)
  <2>1. CASE RowsIn(rows, s, k) = {}
    <3>1. RowsIn(rows', s, k) = {}
      BY <1>3, <2>1 DEF RowsIn
    <3> QED BY <2>1, <3>1, NoSlot
  <2>2. ASSUME NEW r \in RowsIn(rows, s, k) PROVE <1>6!2
    <3>1. r \in rows /\ r \in Row /\ RowsIn(rows, s, k) = {r} /\ r.scope = s
      BY <1>1, <2>2 DEF Once, RowsIn
    <3>2. SlotIn(rows, s, k) # None /\ SlotIn(rows, s, k).until = Until(r)
      BY <3>1, OneSlot
    <3>3. CASE Over(r)
      <4>1. RowsIn(rows', s, k) = {}
        BY <1>3, <3>1, <3>3 DEF RowsIn, Swept
      <4>2. Until(r) < now
        BY <1>1, <3>1, <3>3, OverIsUntil
      <4> QED BY <3>2, <4>1, <4>2, NoSlot
    <3>4. CASE ~Over(r)
      <4>1. RowsIn(rows', s, k) = RowsIn(rows, s, k)
        BY <1>3, <3>1, <3>4 DEF RowsIn, Swept
      <4>2. ~(Until(r) < now)
        BY <1>1, <3>1, <3>4, OverIsUntil
      <4> QED BY <3>2, <4>1, <4>2 DEF SlotIn
    <3> QED BY <3>3, <3>4
  <2> QED BY <2>1, <2>2
<1>7. Slots = SlotsIn(rows) /\ Slots' = SlotsIn(rows')
  BY SlotsAreIn
<1>8. Slots' = [Slots EXCEPT ![s] = [k \in Keys |-> IF Map!Lapsed(s, k) THEN None ELSE @[k]]]
  BY <1>2, <1>5, <1>6, <1>7 DEF SlotsIn, Map!Lapsed
<1> QED BY <1>2, <1>3, <1>8 DEF Map!Clean

LEMMA MapStep ==
    ASSUME StoreInv, [Next]_vars PROVE raced' \/ UNCHANGED <<rows, now>> \/ Map!Next
<1> SUFFICES ASSUME ~raced' PROVE UNCHANGED <<rows, now>> \/ Map!Next
  OBVIOUS
<1>0. ~raced
  BY RacedStays DEF StoreInv
<1>1. ASSUME NEW p \in Procs, NEW s \in Scopes, NEW k \in Keys, Delete(p, s, k) PROVE Map!Next
  BY <1>1, DropStep DEF Map!Next
<1>2. ASSUME NEW p \in Procs, Write(p) PROVE Map!Next
  <2>1. now' = now
    BY <1>2 DEF Write
  <2> QED BY <1>0, <1>2, <2>1, PutStep DEF Map!Next
<1>3. ASSUME NEW p \in Procs, Sweep(p) PROVE Map!Next
  BY <1>0, <1>3, CleanStep DEF Map!Next
<1>4. CASE Tick
  <2>1. Slots' = Slots
    BY <1>4, SlotsAreIn DEF Tick
  <2> QED BY <1>4, <2>1 DEF Tick, Map!Tick, Map!Next
<1> QED
  BY <1>1, <1>2, <1>3, <1>4 DEF Next, Select, Read, Answer, Stop, vars

(***************************************************************************)
(* As long as no two processes race for a slot, the table with its SELECT- *)
(* then-write sets and its sweeps implements the leased map.               *)
(***************************************************************************)
THEOREM StoreIsMap == Spec => ImplementsSlotMap
<1>1. Init => Map!Init
  BY NoSlot, SlotsAreIn DEF Init, Map!Init, SlotsIn, RowsIn
<1>2. StoreInv /\ [Next]_vars => [raced' \/ UNCHANGED <<rows, now>> \/ Map!Next]_vars
  BY MapStep
<1> QED BY <1>1, <1>2, StoreInvariance, PTL DEF Spec, ImplementsSlotMap

-----------------------------------------------------------------------------
(***************************************************************************)
(* AutoCapture.                                                            *)
(***************************************************************************)
\* A handler that works has a turn, and it is of an event that has happened.
Turns ==
    \A h \in Hooks : hooks[h].pc # "idle" =>
        /\ hooks[h].session \in Sessions /\ hooks[h].text \in Texts
        /\ hooks[h].event \in 1..events

\* So has the tool.
Called == tool.pc = "apply" => tool.agent \in Agents /\ tool.text \in Texts

\* No focus is of an event to come, and one that a handler may still overwrite is of an earlier
\* event than the handler's.
Ordered ==
    \A a \in Agents :
        /\ focus[a].event <= events
        /\ \A h \in Hooks : hooks[h].pc \in {"hash", "extract"} => focus[a].event < hooks[h].event

\* A handler about to save the hash of its turn has made the turn's update.
Made ==
    \A h \in Hooks : hooks[h].pc = "save" /\ ExtractsFocus(hooks[h].text) =>
        <<Agent(h), hooks[h].text>> \in applied

\* A handler about to write the page of a summary has written its slot.
Slotted == \A h \in Hooks : hooks[h].pc = "wiki" => hooks[h].now \in summaries[Agent(h)]

CaptureInv ==
    /\ CaptureTypeOK /\ OneCapture /\ Turns /\ Called /\ Ordered
    /\ Made /\ HashHonest /\ Slotted /\ DayIsBacked

-----------------------------------------------------------------------------
LEMMA InitCaptureInv == CaptureInit => CaptureInv
<1> SUFFICES ASSUME CaptureInit PROVE CaptureInv
  OBVIOUS
<1>1. \A h \in Hooks : hooks[h] = NoJob
  BY DEF CaptureInit
<1>2. CaptureTypeOK
  BY DEF CaptureInit, CaptureTypeOK, NoJob, HookPcs
<1>3. OneCapture
  BY <1>1 DEF CaptureInit, OneCapture, Busy, NoJob
<1>4. Turns /\ Called /\ Made /\ Slotted
  BY <1>1 DEF Turns, Called, Made, Slotted, NoJob, CaptureInit
<1>5. Ordered
  BY <1>1 DEF Ordered, NoJob, CaptureInit
<1>6. HashHonest /\ DayIsBacked
  BY TextAssumption DEF HashHonest, DayIsBacked, CaptureInit
<1> QED BY <1>2, <1>3, <1>4, <1>5, <1>6 DEF CaptureInv

\* The agent of a turn that is being captured is one of the agents.
LEMMA TurnHasAgent ==
    ASSUME Turns, NEW h \in Hooks, hooks[h].pc # "idle"
    PROVE  Agent(h) \in Agents /\ hooks[h].text \in Texts
BY AgentAssumption DEF Turns, Agent

\* A handler that only moves on, within its capture, disturbs neither its turn nor the lock.
LEMMA MovesOn ==
    ASSUME CaptureInv, NEW h \in Hooks, NEW pc \in HookPcs, hooks[h].pc # "idle", pc # "idle",
           Goto(h, pc), UNCHANGED <<isCapturing, tool, events>>
    PROVE  /\ hooks' \in [Hooks -> [pc : HookPcs, session : Sessions \cup {NoText},
                                   text : Texts \cup {NoText}, ending : BOOLEAN,
                                   event : Nat, now : Nat]]
           /\ OneCapture' /\ Turns' /\ Called'
           /\ \A g \in Hooks : /\ Agent(g)' = Agent(g) /\ hooks'[g].text = hooks[g].text
                               /\ hooks'[g].event = hooks[g].event /\ hooks'[g].now = hooks[g].now
                               /\ hooks'[g].pc = IF g = h THEN pc ELSE hooks[g].pc
<1>1. hooks \in [Hooks -> [pc : HookPcs, session : Sessions \cup {NoText},
                           text : Texts \cup {NoText}, ending : BOOLEAN, event : Nat, now : Nat]]
  BY DEF CaptureInv, CaptureTypeOK
<1>2. hooks' = [hooks EXCEPT ![h].pc = pc]
  BY DEF Goto
<1>3. /\ hooks' \in [Hooks -> [pc : HookPcs, session : Sessions \cup {NoText},
                               text : Texts \cup {NoText}, ending : BOOLEAN, event : Nat, now : Nat]]
      /\ \A g \in Hooks : /\ hooks'[g].session = hooks[g].session
                          /\ hooks'[g].text = hooks[g].text
                          /\ hooks'[g].event = hooks[g].event /\ hooks'[g].now = hooks[g].now
                          /\ hooks'[g].pc = IF g = h THEN pc ELSE hooks[g].pc
  BY <1>1, <1>2
<1>4. \A g \in Hooks : hooks'[g].pc = "idle" <=> hooks[g].pc = "idle"
  BY <1>3
<1>5. OneCapture' /\ Turns' /\ Called'
  BY <1>3, <1>4 DEF CaptureInv, OneCapture, Busy, Turns, Called
<1> QED BY <1>3, <1>5 DEF Agent

\* Where a capture ends, its handler lets go of the lock, and nobody else has it.
LEMMA LetsGo ==
    ASSUME CaptureInv, NEW h \in Hooks, hooks[h].pc # "idle", Return(h), UNCHANGED <<tool, events>>
    PROVE  /\ hooks' \in [Hooks -> [pc : HookPcs, session : Sessions \cup {NoText},
                                   text : Texts \cup {NoText}, ending : BOOLEAN,
                                   event : Nat, now : Nat]]
           /\ isCapturing' = FALSE
           /\ OneCapture' /\ Turns' /\ Called'
           /\ \A g \in Hooks : hooks'[g].pc = "idle"
<1>1. hooks \in [Hooks -> [pc : HookPcs, session : Sessions \cup {NoText},
                           text : Texts \cup {NoText}, ending : BOOLEAN, event : Nat, now : Nat]]
  BY DEF CaptureInv, CaptureTypeOK
<1>2. \A g \in Hooks : g # h => hooks[g].pc = "idle"
  BY DEF CaptureInv, OneCapture, Busy
<1>3. hooks' = [hooks EXCEPT ![h] = NoJob] /\ isCapturing' = FALSE
  BY DEF Return
<1>4. /\ hooks' \in [Hooks -> [pc : HookPcs, session : Sessions \cup {NoText},
                               text : Texts \cup {NoText}, ending : BOOLEAN, event : Nat, now : Nat]]
      /\ \A g \in Hooks : hooks'[g].pc = "idle"
  BY <1>1, <1>2, <1>3 DEF NoJob, HookPcs
<1>5. OneCapture' /\ Turns' /\ Called'
  BY <1>3, <1>4 DEF CaptureInv, OneCapture, Busy, Turns, Called
<1> QED BY <1>3, <1>4, <1>5

-----------------------------------------------------------------------------
LEMMA TakeKeeps ==
    ASSUME CaptureInv, NEW h \in Hooks, NEW s \in Sessions, NEW t \in Texts, NEW ending \in BOOLEAN,
           Enter(h, s, t, ending)
    PROVE  CaptureInv'
<1> USE DEF CaptureInv
<1>1. /\ hooks[h].pc = "idle" /\ ~isCapturing /\ isCapturing' = TRUE /\ events' = events + 1
      /\ UNCHANGED <<tool, focus, hash, living, summaries, pages, applied, missed, lastMid, boot,
                     actions, since, day, faults>>
  BY DEF Enter, Take, Fresh, At, slots, history
<1>2. hooks' = [hooks EXCEPT ![h] = [pc |-> "hash", session |-> s, text |-> t,
                                     ending |-> ending, event |-> events + 1, now |-> 0]]
  BY DEF Enter, Take
<1>3. CaptureTypeOK'
  BY <1>1, <1>2 DEF CaptureTypeOK, HookPcs
<1>4. \A g \in Hooks : hooks[g].pc = "idle"
  BY <1>1 DEF OneCapture, Busy
<1>5. /\ hooks'[h].pc = "hash" /\ hooks'[h].session = s /\ hooks'[h].text = t
      /\ hooks'[h].event = events + 1
      /\ \A g \in Hooks : g # h => hooks'[g].pc = "idle"
  BY <1>2, <1>4 DEF CaptureTypeOK
<1>6. OneCapture'
  BY <1>1, <1>5 DEF OneCapture, Busy
<1>7. Turns' /\ Called'
  BY <1>1, <1>5 DEF Turns, Called, CaptureTypeOK
<1>8. Ordered'
  BY <1>1, <1>5 DEF Ordered, CaptureTypeOK
<1>9. Made' /\ Slotted'
  BY <1>5 DEF Made, Slotted
<1>10. HashHonest' /\ DayIsBacked'
  BY <1>1 DEF HashHonest, DayIsBacked
<1> QED BY <1>3, <1>6, <1>7, <1>8, <1>9, <1>10

\* A turn that comes while another is captured, a call of the tool, the clock.
LEMMA OthersKeep ==
    ASSUME CaptureInv,
           \/ \E h \in Hooks : Drop(h)
           \/ \E a \in Agents, t \in Texts : ToolReads(a, t)
           \/ NextDay
    PROVE  CaptureInv'
<1> USE DEF CaptureInv
<1>1. /\ events' \in {events, events + 1} /\ day' \in {day, day + 1}
      /\ UNCHANGED <<isCapturing, hooks, focus, hash, living, summaries, pages, applied, missed,
                     lastMid, boot, actions, since, faults>>
  BY DEF Drop, ToolReads, NextDay, process, slots, history
<1>2. \/ tool' = tool
      \/ \E a \in Agents, t \in Texts : tool' = [pc |-> "apply", agent |-> a, text |-> t]
  BY DEF Drop, ToolReads, NextDay, process
<1>3. CaptureTypeOK'
  BY <1>1, <1>2 DEF CaptureTypeOK
<1>4. Called'
  BY <1>2 DEF Called
<1>5. OneCapture' /\ Made' /\ HashHonest' /\ Slotted' /\ DayIsBacked'
  BY <1>1 DEF OneCapture, Busy, Made, Agent, HashHonest, Slotted, DayIsBacked
<1>6. Turns' /\ Ordered'
  BY <1>1 DEF Turns, Ordered, CaptureTypeOK
<1> QED BY <1>3, <1>4, <1>5, <1>6

-----------------------------------------------------------------------------
LEMMA CompareHashKeeps ==
    ASSUME CaptureInv, NEW h \in Hooks, CompareHash(h)
    PROVE  CaptureInv'
<1>1. /\ hooks[h].pc = "hash"
      /\ UNCHANGED <<tool, focus, hash, living, summaries, pages, applied, missed, lastMid, boot,
                     actions, since, day, events, faults>>
  BY DEF CompareHash, At, slots, history, counts
<1>2. HashHonest' /\ DayIsBacked'
  BY <1>1 DEF CaptureInv, HashHonest, DayIsBacked
<1>3. CASE Return(h)
  <2>1. /\ hooks' \in [Hooks -> [pc : HookPcs, session : Sessions \cup {NoText},
                                 text : Texts \cup {NoText}, ending : BOOLEAN,
                                 event : Nat, now : Nat]]
        /\ isCapturing' = FALSE /\ OneCapture' /\ Turns' /\ Called'
        /\ \A g \in Hooks : hooks'[g].pc = "idle"
    BY <1>1, <1>3, LetsGo
  <2>2. CaptureTypeOK'
    BY <1>1, <2>1 DEF CaptureInv, CaptureTypeOK
  <2>3. Ordered' /\ Made' /\ Slotted'
    BY <1>1, <2>1 DEF CaptureInv, Ordered, Made, Slotted
  <2> QED BY <1>2, <2>1, <2>2, <2>3 DEF CaptureInv
<1>4. CASE Goto(h, "extract") /\ UNCHANGED isCapturing
  <2>1. /\ hooks' \in [Hooks -> [pc : HookPcs, session : Sessions \cup {NoText},
                                 text : Texts \cup {NoText}, ending : BOOLEAN,
                                 event : Nat, now : Nat]]
        /\ OneCapture' /\ Turns' /\ Called'
        /\ \A g \in Hooks : /\ Agent(g)' = Agent(g) /\ hooks'[g].text = hooks[g].text
                            /\ hooks'[g].event = hooks[g].event /\ hooks'[g].now = hooks[g].now
                            /\ hooks'[g].pc = IF g = h THEN "extract" ELSE hooks[g].pc
    BY <1>1, <1>4, MovesOn DEF HookPcs
  <2>2. CaptureTypeOK'
    BY <1>1, <1>4, <2>1 DEF CaptureInv, CaptureTypeOK
  <2>3. Ordered' /\ Made' /\ Slotted'
    BY <1>1, <2>1 DEF CaptureInv, Ordered, Made, Slotted
  <2> QED BY <1>2, <2>1, <2>2, <2>3 DEF CaptureInv
<1> QED BY <1>3, <1>4 DEF CompareHash

LEMMA ApplyKeeps ==
    ASSUME CaptureInv, NEW h \in Hooks, Apply(h)
    PROVE  CaptureInv'
<1>1. /\ hooks[h].pc = "extract" /\ Goto(h, "save")
      /\ UNCHANGED <<isCapturing, tool, hash, living, summaries, pages, missed, lastMid, boot,
                     actions, since, day, events>>
  BY DEF Apply, At
<1>2. /\ hooks' \in [Hooks -> [pc : HookPcs, session : Sessions \cup {NoText},
                               text : Texts \cup {NoText}, ending : BOOLEAN,
                               event : Nat, now : Nat]]
      /\ OneCapture' /\ Turns' /\ Called'
      /\ \A g \in Hooks : /\ Agent(g)' = Agent(g) /\ hooks'[g].text = hooks[g].text
                          /\ hooks'[g].event = hooks[g].event /\ hooks'[g].now = hooks[g].now
                          /\ hooks'[g].pc = IF g = h THEN "save" ELSE hooks[g].pc
  BY <1>1, MovesOn DEF HookPcs
<1>3. Agent(h) \in Agents /\ hooks[h].text \in Texts /\ hooks[h].event \in 1..events
  BY <1>1, TurnHasAgent DEF CaptureInv, Turns
<1>4. /\ applied' = IF ExtractsFocus(hooks[h].text) THEN applied \cup {<<Agent(h), hooks[h].text>>}
                    ELSE applied
      /\ faults' \in {faults, faults + 1}
      /\ \/ focus' = focus
         \/ focus' = [focus EXCEPT ![Agent(h)] = [text |-> hooks[h].text, event |-> hooks[h].event]]
  BY DEF Apply, Throws
<1>5. CaptureTypeOK'
  <2>1. focus' \in [Agents -> [text : Texts \cup {NoText}, event : Nat]]
    BY <1>3, <1>4 DEF CaptureInv, CaptureTypeOK
  <2>2. applied' \subseteq Agents \X Texts
    BY <1>3, <1>4 DEF CaptureInv, CaptureTypeOK
  <2>3. faults' \in Nat
    BY <1>4 DEF CaptureInv, CaptureTypeOK
  <2> QED BY <1>1, <1>2, <2>1, <2>2, <2>3 DEF CaptureInv, CaptureTypeOK
<1>6. \A a \in Agents : focus'[a].event <= events
  BY <1>3, <1>4 DEF CaptureInv, Ordered, CaptureTypeOK
<1>7. \A g \in Hooks : hooks'[g].pc \notin {"hash", "extract"}
  BY <1>1, <1>2 DEF CaptureInv, OneCapture, Busy
<1>8. Ordered'
  BY <1>1, <1>6, <1>7 DEF Ordered
<1>9. Made'
  <2> SUFFICES ASSUME NEW g \in Hooks, hooks'[g].pc = "save", ExtractsFocus(hooks'[g].text)
               PROVE  <<Agent(g), hooks[g].text>> \in applied'
    BY <1>2 DEF Made
  <2>1. g = h
    BY <1>1, <1>2 DEF CaptureInv, OneCapture, Busy
  <2> QED BY <1>2, <1>4, <2>1
<1>10. HashHonest'
  BY <1>1, <1>4 DEF CaptureInv, HashHonest
<1>11. Slotted' /\ DayIsBacked'
  BY <1>1, <1>2 DEF CaptureInv, Slotted, DayIsBacked
<1> QED BY <1>2, <1>5, <1>8, <1>9, <1>10, <1>11 DEF CaptureInv

LEMMA SaveHashKeeps ==
    ASSUME CaptureInv, NEW h \in Hooks, SaveHash(h)
    PROVE  CaptureInv'
<1>1. /\ hooks[h].pc = "save" /\ Goto(h, "short")
      /\ hash' = [hash EXCEPT ![Agent(h)] = hooks[h].text]
      /\ actions' = actions + 1 /\ since' = since + 1
      /\ UNCHANGED <<isCapturing, tool, focus, living, summaries, pages, applied, missed, lastMid,
                     boot, day, events, faults>>
  BY DEF SaveHash, At, counts
<1>2. /\ hooks' \in [Hooks -> [pc : HookPcs, session : Sessions \cup {NoText},
                               text : Texts \cup {NoText}, ending : BOOLEAN,
                               event : Nat, now : Nat]]
      /\ OneCapture' /\ Turns' /\ Called'
      /\ \A g \in Hooks : /\ Agent(g)' = Agent(g) /\ hooks'[g].text = hooks[g].text
                          /\ hooks'[g].event = hooks[g].event /\ hooks'[g].now = hooks[g].now
                          /\ hooks'[g].pc = IF g = h THEN "short" ELSE hooks[g].pc
  BY <1>1, MovesOn DEF HookPcs
<1>3. Agent(h) \in Agents /\ hooks[h].text \in Texts
  BY <1>1, TurnHasAgent DEF CaptureInv
<1>4. CaptureTypeOK'
  BY <1>1, <1>2, <1>3 DEF CaptureInv, CaptureTypeOK
<1>5. Ordered' /\ Made' /\ Slotted' /\ DayIsBacked'
  BY <1>1, <1>2 DEF CaptureInv, Ordered, Made, Slotted, DayIsBacked
<1>6. HashHonest'
  <2> SUFFICES ASSUME NEW a \in Agents, NEW t \in Texts, hash'[a] = t, ExtractsFocus(t)
               PROVE  <<a, t>> \in applied
    BY <1>1 DEF HashHonest
  <2>1. CASE a = Agent(h)
    <3>1. t = hooks[h].text
      BY <1>1, <1>3, <2>1 DEF CaptureInv, CaptureTypeOK
    <3> QED BY <1>1, <2>1, <3>1 DEF CaptureInv, Made
  <2>2. CASE a # Agent(h)
    BY <1>1, <2>2 DEF CaptureInv, CaptureTypeOK, HashHonest
  <2> QED BY <2>1, <2>2
<1> QED BY <1>2, <1>4, <1>5, <1>6 DEF CaptureInv

LEMMA ShortTermKeeps ==
    ASSUME CaptureInv, NEW h \in Hooks, ShortTerm(h)
    PROVE  CaptureInv'
<1>1. /\ hooks[h].pc = "short" /\ Goto(h, "mid")
      /\ UNCHANGED <<isCapturing, tool, focus, hash, summaries, pages, applied, lastMid, boot,
                     actions, day, events>>
  BY DEF ShortTerm, At
<1>2. /\ hooks' \in [Hooks -> [pc : HookPcs, session : Sessions \cup {NoText},
                               text : Texts \cup {NoText}, ending : BOOLEAN,
                               event : Nat, now : Nat]]
      /\ OneCapture' /\ Turns' /\ Called'
      /\ \A g \in Hooks : /\ Agent(g)' = Agent(g) /\ hooks'[g].text = hooks[g].text
                          /\ hooks'[g].event = hooks[g].event /\ hooks'[g].now = hooks[g].now
                          /\ hooks'[g].pc = IF g = h THEN "mid" ELSE hooks[g].pc
  BY <1>1, MovesOn DEF HookPcs
<1>3. Agent(h) \in Agents /\ hooks[h].text \in Texts
  BY <1>1, TurnHasAgent DEF CaptureInv
<1>4. /\ living' = living \/ living' = [living EXCEPT ![Agent(h)] = hooks[h].text]
      /\ since' \in {since, 0} /\ missed' \in {missed, missed + 1} /\ faults' \in {faults, faults + 1}
  BY DEF ShortTerm, Throws
<1>5. CaptureTypeOK'
  BY <1>1, <1>2, <1>3, <1>4 DEF CaptureInv, CaptureTypeOK
<1>6. Ordered' /\ Made' /\ HashHonest' /\ Slotted' /\ DayIsBacked'
  BY <1>1, <1>2 DEF CaptureInv, Ordered, Made, HashHonest, Slotted, DayIsBacked
<1> QED BY <1>2, <1>5, <1>6 DEF CaptureInv

\* The slot of the summary is written, and the day kept for its page.
LEMMA MidTermKeeps ==
    ASSUME CaptureInv, NEW h \in Hooks, MidTerm(h)
    PROVE  CaptureInv'
<1>1. /\ hooks[h].pc = "mid" /\ faults' \in {faults, faults + 1}
      /\ UNCHANGED <<isCapturing, tool, focus, hash, living, pages, applied, missed, lastMid, boot,
                     actions, since, day, events>>
  BY DEF MidTerm, At, Throws, history
<1>2. hooks \in [Hooks -> [pc : HookPcs, session : Sessions \cup {NoText}, text : Texts \cup {NoText},
                           ending : BOOLEAN, event : Nat, now : Nat]] /\ day \in Nat
  BY DEF CaptureInv, CaptureTypeOK
<1>3. Agent(h) \in Agents
  BY <1>1, TurnHasAgent DEF CaptureInv
<1>4. CASE /\ summaries' = [summaries EXCEPT ![Agent(h)] = @ \cup {day}]
           /\ hooks' = [hooks EXCEPT ![h].pc = "wiki", ![h].now = day]
  <2>1. hooks' \in [Hooks -> [pc : HookPcs, session : Sessions \cup {NoText},
                              text : Texts \cup {NoText}, ending : BOOLEAN, event : Nat, now : Nat]]
    <3>1. [hooks[h] EXCEPT !.pc = "wiki", !.now = day]
            \in [pc : HookPcs, session : Sessions \cup {NoText}, text : Texts \cup {NoText},
                 ending : BOOLEAN, event : Nat, now : Nat]
      BY <1>2 DEF HookPcs
    <3>2. hooks' = [hooks EXCEPT ![h] = [hooks[h] EXCEPT !.pc = "wiki", !.now = day]]
      BY <1>2, <1>4
    <3> QED BY <1>2, <3>1, <3>2
  <2>2. \A g \in Hooks : /\ hooks'[g].session = hooks[g].session /\ hooks'[g].text = hooks[g].text
                         /\ hooks'[g].event = hooks[g].event
                         /\ hooks'[g].pc = IF g = h THEN "wiki" ELSE hooks[g].pc
                         /\ hooks'[g].now = IF g = h THEN day ELSE hooks[g].now
    BY <1>2, <1>4
  <2>3. \A g \in Hooks : (hooks'[g].pc = "idle" <=> hooks[g].pc = "idle") /\ Agent(g)' = Agent(g)
    BY <1>1, <2>2 DEF Agent
  <2>4. OneCapture' /\ Turns' /\ Called'
    BY <1>1, <2>2, <2>3 DEF CaptureInv, OneCapture, Busy, Turns, Called
  <2>5. CaptureTypeOK'
    BY <1>1, <1>2, <1>3, <1>4, <2>1 DEF CaptureInv, CaptureTypeOK
  <2>6. Ordered' /\ Made' /\ HashHonest'
    BY <1>1, <2>2, <2>3 DEF CaptureInv, Ordered, Made, HashHonest
  <2>7. \A a \in Agents : summaries[a] \subseteq summaries'[a]
    BY <1>3, <1>4 DEF CaptureInv, CaptureTypeOK
  <2>8. DayIsBacked'
    BY <1>1, <2>7 DEF CaptureInv, DayIsBacked
  <2>9. Slotted'
    <3> SUFFICES ASSUME NEW g \in Hooks, hooks'[g].pc = "wiki"
                 PROVE  hooks'[g].now \in summaries'[Agent(g)]
      BY <2>3 DEF Slotted
    <3>1. g = h
      BY <1>1, <2>2 DEF CaptureInv, OneCapture, Busy
    <3> QED BY <1>3, <1>4, <2>2, <3>1 DEF CaptureInv, CaptureTypeOK
  <2> QED BY <2>4, <2>5, <2>6, <2>8, <2>9 DEF CaptureInv
<1>5. CASE Goto(h, "pattern") /\ UNCHANGED summaries
  <2>1. /\ hooks' \in [Hooks -> [pc : HookPcs, session : Sessions \cup {NoText},
                                 text : Texts \cup {NoText}, ending : BOOLEAN,
                                 event : Nat, now : Nat]]
        /\ OneCapture' /\ Turns' /\ Called'
        /\ \A g \in Hooks : /\ Agent(g)' = Agent(g) /\ hooks'[g].text = hooks[g].text
                            /\ hooks'[g].event = hooks[g].event /\ hooks'[g].now = hooks[g].now
                            /\ hooks'[g].pc = IF g = h THEN "pattern" ELSE hooks[g].pc
    BY <1>1, <1>5, MovesOn DEF HookPcs
  <2>2. CaptureTypeOK'
    BY <1>1, <1>5, <2>1 DEF CaptureInv, CaptureTypeOK
  <2>3. Ordered' /\ Made' /\ HashHonest' /\ Slotted' /\ DayIsBacked'
    BY <1>1, <1>5, <2>1 DEF CaptureInv, Ordered, Made, HashHonest, Slotted, DayIsBacked
  <2> QED BY <2>1, <2>2, <2>3 DEF CaptureInv
<1> QED BY <1>4, <1>5 DEF MidTerm

LEMMA MidTermWikiKeeps ==
    ASSUME CaptureInv, NEW h \in Hooks, MidTermWiki(h)
    PROVE  CaptureInv'
<1>1. /\ hooks[h].pc = "wiki" /\ Goto(h, "pattern") /\ faults' \in {faults, faults + 1}
      /\ UNCHANGED <<isCapturing, tool, focus, hash, living, summaries, applied, missed, boot,
                     actions, since, day, events>>
  BY DEF MidTermWiki, At, Throws, history
<1>2. /\ hooks' \in [Hooks -> [pc : HookPcs, session : Sessions \cup {NoText},
                               text : Texts \cup {NoText}, ending : BOOLEAN,
                               event : Nat, now : Nat]]
      /\ OneCapture' /\ Turns' /\ Called'
      /\ \A g \in Hooks : /\ Agent(g)' = Agent(g) /\ hooks'[g].text = hooks[g].text
                          /\ hooks'[g].event = hooks[g].event /\ hooks'[g].now = hooks[g].now
                          /\ hooks'[g].pc = IF g = h THEN "pattern" ELSE hooks[g].pc
  BY <1>1, MovesOn DEF HookPcs
<1>3. Agent(h) \in Agents /\ hooks[h].now \in Nat /\ hooks[h].now \in summaries[Agent(h)]
  BY <1>1, TurnHasAgent DEF CaptureInv, CaptureTypeOK, Slotted
<1>4. \/ pages' = pages /\ lastMid' = lastMid
      \/ pages' = pages \cup {<<Agent(h), hooks[h].now>>} /\ lastMid' = hooks[h].now
  BY DEF MidTermWiki
<1>5. CaptureTypeOK'
  BY <1>1, <1>2, <1>3, <1>4 DEF CaptureInv, CaptureTypeOK
<1>6. DayIsBacked'
  BY <1>1, <1>3, <1>4 DEF CaptureInv, DayIsBacked
<1>7. Ordered' /\ Made' /\ HashHonest' /\ Slotted'
  BY <1>1, <1>2 DEF CaptureInv, Ordered, Made, HashHonest, Slotted
<1> QED BY <1>2, <1>5, <1>6, <1>7 DEF CaptureInv

LEMMA LongTermKeeps ==
    ASSUME CaptureInv, NEW h \in Hooks, LongTerm(h)
    PROVE  CaptureInv'
<1>1. /\ hooks[h].pc = "pattern" /\ Goto(h, "release") /\ faults' \in {faults, faults + 1}
      /\ pages' = pages \/ pages' = pages \cup {<<Agent(h), hooks[h].text>>}
      /\ UNCHANGED <<isCapturing, tool, focus, hash, living, summaries, applied, missed, lastMid,
                     boot, actions, since, day, events>>
  BY DEF LongTerm, At, Throws, history
<1>2. /\ hooks' \in [Hooks -> [pc : HookPcs, session : Sessions \cup {NoText},
                               text : Texts \cup {NoText}, ending : BOOLEAN,
                               event : Nat, now : Nat]]
      /\ OneCapture' /\ Turns' /\ Called'
      /\ \A g \in Hooks : /\ Agent(g)' = Agent(g) /\ hooks'[g].text = hooks[g].text
                          /\ hooks'[g].event = hooks[g].event /\ hooks'[g].now = hooks[g].now
                          /\ hooks'[g].pc = IF g = h THEN "release" ELSE hooks[g].pc
  BY <1>1, MovesOn DEF HookPcs
<1>3. Agent(h) \in Agents /\ hooks[h].text \in Texts
  BY <1>1, TurnHasAgent DEF CaptureInv
<1>4. CaptureTypeOK'
  BY <1>1, <1>2, <1>3 DEF CaptureInv, CaptureTypeOK
<1>5. DayIsBacked'
  BY <1>1 DEF CaptureInv, DayIsBacked
<1>6. Ordered' /\ Made' /\ HashHonest' /\ Slotted'
  BY <1>1, <1>2 DEF CaptureInv, Ordered, Made, HashHonest, Slotted
<1> QED BY <1>2, <1>4, <1>5, <1>6 DEF CaptureInv

LEMMA ReleaseKeeps ==
    ASSUME CaptureInv, NEW h \in Hooks, Release(h) \/ HookThrows(h)
    PROVE  CaptureInv'
<1>1. /\ hooks[h].pc # "idle" /\ Return(h) /\ faults' \in {faults, faults + 1}
      /\ UNCHANGED <<tool, focus, hash, living, summaries, pages, applied, missed, lastMid,
                     boot, actions, since, day, events>>
  BY DEF Release, HookThrows, At, Throws, slots, history, counts
<1>2. /\ hooks' \in [Hooks -> [pc : HookPcs, session : Sessions \cup {NoText},
                               text : Texts \cup {NoText}, ending : BOOLEAN,
                               event : Nat, now : Nat]]
      /\ isCapturing' = FALSE /\ OneCapture' /\ Turns' /\ Called'
      /\ \A g \in Hooks : hooks'[g].pc = "idle"
  BY <1>1, LetsGo
<1>3. faults' \in Nat
  BY <1>1 DEF CaptureInv, CaptureTypeOK
<1>4. CaptureTypeOK'
  <2>1. /\ UNCHANGED <<tool, focus, hash, living, summaries, pages, applied, missed, lastMid,
                       boot, actions, since, day, events>>
        /\ isCapturing' \in BOOLEAN
    BY <1>1, <1>2
  <2> QED BY <1>2, <1>3, <2>1 DEF CaptureInv, CaptureTypeOK
<1>5. Ordered' /\ Made' /\ HashHonest' /\ Slotted' /\ DayIsBacked'
  BY <1>1, <1>2 DEF CaptureInv, Ordered, Made, HashHonest, Slotted, DayIsBacked
<1> QED BY <1>2, <1>4, <1>5 DEF CaptureInv

-----------------------------------------------------------------------------
LEMMA ToolAppliesKeeps ==
    ASSUME CaptureInv, NEW useLLM \in BOOLEAN, ToolApplies(useLLM)
    PROVE  CaptureInv'
<1> USE DEF CaptureInv
<1>1. /\ tool.pc = "apply" /\ faults' \in {faults, faults + 1}
      /\ tool' = [pc |-> "idle", agent |-> NoText, text |-> NoText]
      /\ UNCHANGED <<isCapturing, hooks, hash, living, summaries, pages, applied, missed, lastMid,
                     boot, actions, since, day, events>>
  BY DEF ToolApplies, Throws, history
<1>2. \/ focus' = focus
      \/ focus' = [focus EXCEPT ![tool.agent] = [text |-> tool.text, event |-> 0]]
  BY DEF ToolApplies
<1>3. tool.agent \in Agents /\ tool.text \in Texts
  BY <1>1 DEF Called
<1>4. /\ focus' \in [Agents -> [text : Texts \cup {NoText}, event : Nat]]
      /\ \A a \in Agents : focus'[a] = focus[a] \/ focus'[a].event = 0
  BY <1>2, <1>3 DEF CaptureTypeOK
<1>5. CaptureTypeOK'
  BY <1>1, <1>4 DEF CaptureTypeOK
<1>6. Ordered'
  BY <1>1, <1>4 DEF Ordered, Turns, CaptureTypeOK
<1>7. OneCapture' /\ Turns' /\ Called' /\ Made' /\ HashHonest' /\ Slotted' /\ DayIsBacked'
  BY <1>1 DEF OneCapture, Busy, Turns, Called, Made, Agent, HashHonest, Slotted, DayIsBacked
<1> QED BY <1>5, <1>6, <1>7

LEMMA OtherWritesKeeps ==
    ASSUME CaptureInv, NEW a \in Agents, OtherWrites(a)
    PROVE  CaptureInv'
<1> USE DEF CaptureInv
<1>1. /\ faults' = faults + 1
      /\ UNCHANGED <<isCapturing, hooks, tool, summaries, pages, applied, missed, lastMid,
                     boot, actions, since, day, events>>
  BY DEF OtherWrites, Throws, process, history
<1>2. /\ focus' \in {focus, [focus EXCEPT ![a] = [text |-> NoText, event |-> 0]]}
      /\ hash' \in {hash, [hash EXCEPT ![a] = NoText]}
      /\ living' \in {living, [living EXCEPT ![a] = NoText]}
  BY DEF OtherWrites
<1>3. /\ focus' \in [Agents -> [text : Texts \cup {NoText}, event : Nat]]
      /\ \A b \in Agents : focus'[b] = focus[b] \/ focus'[b].event = 0
  BY <1>2 DEF CaptureTypeOK
<1>4. /\ hash' \in [Agents -> Texts \cup {NoText}]
      /\ \A b \in Agents : hash'[b] = hash[b] \/ hash'[b] = NoText
  BY <1>2 DEF CaptureTypeOK
<1>5. living' \in [Agents -> Texts \cup {NoText}]
  BY <1>2 DEF CaptureTypeOK
<1>6. CaptureTypeOK'
  BY <1>1, <1>3, <1>4, <1>5 DEF CaptureTypeOK
<1>7. Ordered'
  BY <1>1, <1>3 DEF Ordered, Turns, CaptureTypeOK
<1>8. HashHonest'
  <2> SUFFICES ASSUME NEW b \in Agents, NEW t \in Texts, hash'[b] = t, ExtractsFocus(t)
               PROVE  <<b, t>> \in applied
    BY <1>1 DEF HashHonest, ExtractsFocus
  <2>1. hash[b] = t
    BY <1>4, TextAssumption
  <2> QED BY <2>1 DEF HashHonest
<1>9. OneCapture' /\ Turns' /\ Called' /\ Made' /\ Slotted' /\ DayIsBacked'
  BY <1>1 DEF OneCapture, Busy, Turns, Called, Made, Agent, Slotted, DayIsBacked
<1> QED BY <1>6, <1>7, <1>8, <1>9

LEMMA CrashKeeps ==
    ASSUME CaptureInv, Crash
    PROVE  CaptureInv'
<1> USE DEF CaptureInv
<1>1. /\ isCapturing' = FALSE /\ hooks' = [h \in Hooks |-> NoJob]
      /\ tool' = [pc |-> "idle", agent |-> NoText, text |-> NoText]
      /\ actions' = 0 /\ since' = 0 /\ lastMid' = day /\ boot' = day /\ missed' = 0
      /\ faults' = faults + 1
      /\ UNCHANGED <<focus, hash, living, summaries, pages, applied, day, events>>
  BY DEF Crash, Throws, slots
<1>2. /\ hooks' \in [Hooks -> [pc : HookPcs, session : Sessions \cup {NoText},
                               text : Texts \cup {NoText}, ending : BOOLEAN,
                               event : Nat, now : Nat]]
      /\ \A h \in Hooks : hooks'[h].pc = "idle"
  BY <1>1 DEF NoJob, HookPcs
<1>3. CaptureTypeOK'
  <2>1. isCapturing' \in BOOLEAN
    BY <1>1
  <2> QED BY <1>1, <1>2, <2>1 DEF CaptureTypeOK
<1>4. OneCapture' /\ Turns' /\ Called' /\ Made' /\ Slotted'
  BY <1>1, <1>2 DEF OneCapture, Busy, Turns, Called, Made, Slotted
<1>5. Ordered'
  BY <1>1, <1>2 DEF Ordered
<1>6. HashHonest' /\ DayIsBacked'
  BY <1>1 DEF HashHonest, DayIsBacked
<1> QED BY <1>3, <1>4, <1>5, <1>6

-----------------------------------------------------------------------------
LEMMA NextKeeps == CaptureInv /\ [CaptureNext]_captureVars => CaptureInv'
<1> SUFFICES ASSUME CaptureInv, [CaptureNext]_captureVars PROVE CaptureInv'
  OBVIOUS
<1>1. CASE UNCHANGED captureVars
  BY <1>1 DEF CaptureInv, CaptureTypeOK, OneCapture, Busy, Turns, Called, Ordered, Made, Agent,
              HashHonest, Slotted, DayIsBacked, captureVars, process, slots, history, counts
<1>2. ASSUME NEW h \in Hooks, HookStep(h) PROVE CaptureInv'
  BY <1>2, CompareHashKeeps, ApplyKeeps, SaveHashKeeps, ShortTermKeeps, MidTermKeeps,
     MidTermWikiKeeps, LongTermKeeps, ReleaseKeeps DEF HookStep
<1>3. ASSUME NEW h \in Hooks, Drop(h) PROVE CaptureInv'
  BY <1>3, OthersKeep
<1>4. ASSUME NEW h \in Hooks, HookThrows(h) PROVE CaptureInv'
  BY <1>4, ReleaseKeeps
<1>5. ASSUME NEW h \in Hooks, NEW s \in Sessions, NEW t \in Texts, NEW ending \in BOOLEAN,
             Enter(h, s, t, ending)
      PROVE  CaptureInv'
  BY <1>5, TakeKeeps
<1>6. ASSUME NEW a \in Agents, NEW t \in Texts, ToolReads(a, t) PROVE CaptureInv'
  BY <1>6, OthersKeep
<1>7. ASSUME NEW useLLM \in BOOLEAN, ToolApplies(useLLM) PROVE CaptureInv'
  BY <1>7, ToolAppliesKeeps
<1>8. ASSUME NEW a \in Agents, OtherWrites(a) PROVE CaptureInv'
  BY <1>8, OtherWritesKeeps
<1>9. CASE NextDay
  BY <1>9, OthersKeep
<1>10. CASE Crash
  BY <1>10, CrashKeeps
<1>11. CASE \E h \in Hooks : Drop(h) \/ HookStep(h) \/ HookThrows(h)
  BY <1>2, <1>3, <1>4, <1>11
<1>12. CASE \E h \in Hooks, s \in Sessions, t \in Texts, ending \in BOOLEAN : Enter(h, s, t, ending)
  BY <1>5, <1>12
<1>13. CASE (\E a \in Agents, t \in Texts : ToolReads(a, t)) \/ \E a \in Agents : OtherWrites(a)
  BY <1>6, <1>8, <1>13
<1>14. CASE \E useLLM \in BOOLEAN : ToolApplies(useLLM)
  BY <1>7, <1>14
<1> QED BY <1>1, <1>9, <1>10, <1>11, <1>12, <1>13, <1>14 DEF CaptureNext

LEMMA SpecKeepsCaptureInv == CaptureSpec => []CaptureInv
BY InitCaptureInv, NextKeeps, PTL DEF CaptureSpec

\* Every variable keeps its type, whatever the interleaving, the faults and the constants.
THEOREM TypeCorrect == CaptureSpec => []CaptureTypeOK
BY SpecKeepsCaptureInv, PTL DEF CaptureInv

\* The lock works: across every await, throw, early return and restart at most one handler is
\* past it, and it is held exactly while one is.
THEOREM OneAtATime == CaptureSpec => []OneCapture
BY SpecKeepsCaptureInv, PTL DEF CaptureInv

\* A stored hash vouches for the turn's update: the hash is saved after the update is made.
THEOREM HashIsHonest == CaptureSpec => []HashHonest
BY SpecKeepsCaptureInv, PTL DEF CaptureInv

\* A day that counts as summarised has both its slot and its page.
THEOREM SummarisedDaysBacked == CaptureSpec => []DayIsBacked
BY SpecKeepsCaptureInv, PTL DEF CaptureInv

\* What a step may do to the focus: a handler writes the text of its own turn, which is later
\* than the one it finds; everyone else writes without an event.
LEMMA StepMovesFocus ==
    ASSUME CaptureInv, CaptureNext, NEW a \in Agents, focus'[a].event # 0, focus'[a] # focus[a]
    PROVE  focus'[a].event > focus[a].event
<1>1. PICK h \in Hooks : Apply(h)
  <2>1. ASSUME NEW h \in Hooks, Drop(h) \/ HookThrows(h) PROVE FALSE
    BY <2>1 DEF Drop, HookThrows, slots
  <2>2. ASSUME NEW h \in Hooks, HookStep(h), ~Apply(h) PROVE FALSE
    BY <2>2 DEF HookStep, CompareHash, SaveHash, ShortTerm, MidTerm, MidTermWiki, LongTerm,
                Release, slots
  <2>3. ASSUME NEW h \in Hooks, NEW s \in Sessions, NEW t \in Texts, NEW ending \in BOOLEAN,
               Enter(h, s, t, ending)
        PROVE  FALSE
    BY <2>3 DEF Enter, Take, slots
  <2>4. ASSUME NEW b \in Agents, NEW t \in Texts, ToolReads(b, t) PROVE FALSE
    BY <2>4 DEF ToolReads, slots
  <2>5. ASSUME NEW useLLM \in BOOLEAN, ToolApplies(useLLM) PROVE FALSE
    BY <2>5 DEF ToolApplies, CaptureInv, CaptureTypeOK
  <2>6. ASSUME NEW b \in Agents, OtherWrites(b) PROVE FALSE
    BY <2>6 DEF OtherWrites, CaptureInv, CaptureTypeOK
  <2>7. ~NextDay /\ ~Crash
    BY DEF NextDay, Crash, slots
  <2> QED BY <2>1, <2>2, <2>3, <2>4, <2>5, <2>6, <2>7 DEF CaptureNext
<1>2. /\ hooks[h].pc = "extract"
      /\ focus' = [focus EXCEPT ![Agent(h)] = [text |-> hooks[h].text, event |-> hooks[h].event]]
  BY <1>1 DEF Apply, At
<1>3. a = Agent(h) /\ focus'[a].event = hooks[h].event
  BY <1>2 DEF CaptureInv, CaptureTypeOK
<1>4. focus[a].event < hooks[h].event /\ hooks[h].event \in Nat /\ focus[a].event \in Nat
  BY <1>2 DEF CaptureInv, Ordered, CaptureTypeOK
<1> QED BY <1>3, <1>4

\* Whatever is captured late, the focus of an agent goes from an earlier turn to a later one.
THEOREM FocusOnlyForward == CaptureSpec => FocusMovesForward
<1>1. CaptureInv /\ [CaptureNext]_captureVars =>
        [\A a \in Agents : focus'[a].event # 0 /\ focus'[a] # focus[a]
                             => focus'[a].event > focus[a].event]_captureVars
  BY StepMovesFocus DEF captureVars
<1> QED BY <1>1, SpecKeepsCaptureInv, PTL DEF CaptureSpec, FocusMovesForward

-----------------------------------------------------------------------------
(***************************************************************************)
(* How far the living state is behind: three captured turns only while a   *)
(* handler is about to write it.                                           *)
(***************************************************************************)
Behind ==
    /\ since <= 3 + missed
    /\ (\A h \in Hooks : hooks[h].pc # "short") => since <= 2 + missed

LEMMA BehindKept ==
    ASSUME Behind, UNCHANGED <<since, missed>>,
           \A h \in Hooks : hooks[h].pc = "short" => hooks'[h].pc = "short"
    PROVE  Behind'
BY DEF Behind

LEMMA StepKeepsBehind ==
    ASSUME CaptureInv, CaptureInv', Behind, [CaptureNext]_captureVars
    PROVE  Behind'
<1>1. /\ since \in Nat /\ missed \in Nat /\ since' \in Nat /\ missed' \in Nat
      /\ hooks \in [Hooks -> [pc : HookPcs, session : Sessions \cup {NoText},
                              text : Texts \cup {NoText}, ending : BOOLEAN, event : Nat, now : Nat]]
  BY DEF CaptureInv, CaptureTypeOK
<1>2. ASSUME NEW h \in Hooks, hooks[h].pc \notin {"idle", "short"}
      PROVE  \A g \in Hooks : hooks[g].pc # "short"
  BY <1>2 DEF CaptureInv, OneCapture, Busy
<1>3. ASSUME NEW h \in Hooks, hooks[h].pc \notin {"idle", "short"}, UNCHANGED <<since, missed>>
      PROVE  Behind'
  BY <1>2, <1>3 DEF Behind
<1>4. ASSUME UNCHANGED <<hooks, since, missed>> PROVE Behind'
  BY <1>4 DEF Behind
<1>5. CASE UNCHANGED captureVars
  BY <1>4, <1>5 DEF captureVars, process, history
<1>6. ASSUME NEW h \in Hooks, SaveHash(h) PROVE Behind'
  <2>1. hooks[h].pc = "save" /\ since' = since + 1 /\ missed' = missed
    BY <1>6 DEF SaveHash, At
  <2>2. since <= 2 + missed
    BY <1>2, <2>1 DEF Behind
  <2>3. \E g \in Hooks : hooks'[g].pc = "short"
    <3>1. hooks'[h].pc = "short"
      BY <1>1, <1>6 DEF SaveHash, Goto
    <3> QED BY <3>1
  <2> QED BY <1>1, <2>1, <2>2, <2>3 DEF Behind
<1>7. ASSUME NEW h \in Hooks, ShortTerm(h) PROVE Behind'
  <2>1. hooks[h].pc = "short" /\ since <= 3 + missed
    BY <1>7 DEF ShortTerm, At, Behind
  <2>2. \/ since' = 0
        \/ since' = since /\ missed' = missed + 1
        \/ since' = since /\ missed' = missed /\ ~(since >= 3)
    BY <1>7 DEF ShortTerm, Summarises
  <2>3. since \in Nat /\ missed \in Nat /\ since' \in Nat /\ missed' \in Nat
    BY <1>1
  <2>4. since' <= 2 + missed' /\ since' <= 3 + missed'
    <3>0. \A n \in Nat : 0 <= 2 + n /\ 0 <= 3 + n
      OBVIOUS
    <3>1. CASE since' = 0
      <4>1. 0 <= 2 + missed' /\ 0 <= 3 + missed'
        BY <2>3, <3>0
      <4> QED BY <3>1, <4>1
    <3>2. CASE since' = since /\ missed' = missed + 1
      BY <2>1, <2>3, <3>2
    <3>3. CASE since' = since /\ missed' = missed /\ ~(since >= 3)
      BY <2>3, <3>3
    <3> QED BY <2>2, <3>1, <3>2, <3>3
  <2> QED BY <2>4 DEF Behind
<1>8. ASSUME NEW h \in Hooks,
             \/ CompareHash(h) \/ Apply(h) \/ MidTerm(h) \/ MidTermWiki(h) \/ LongTerm(h)
             \/ Release(h) \/ HookThrows(h)
      PROVE  Behind'
  <2>1. hooks[h].pc \notin {"idle", "short"} /\ UNCHANGED <<since, missed>>
    BY <1>8 DEF CompareHash, Apply, MidTerm, MidTermWiki, LongTerm, Release, HookThrows, At, history
  <2> QED BY <1>3, <2>1
<1>9. ASSUME NEW h \in Hooks, NEW s \in Sessions, NEW t \in Texts, NEW ending \in BOOLEAN,
             Enter(h, s, t, ending)
      PROVE  Behind'
  <2>1. \A g \in Hooks : hooks[g].pc # "short"
    BY <1>9 DEF Enter, CaptureInv, OneCapture, Busy
  <2>2. UNCHANGED <<since, missed>>
    BY <1>9 DEF Enter, Take, history
  <2> QED BY <2>1, <2>2 DEF Behind
<1>10. ASSUME \/ \E h \in Hooks : Drop(h)
              \/ \E a \in Agents, t \in Texts : ToolReads(a, t)
              \/ \E useLLM \in BOOLEAN : ToolApplies(useLLM)
              \/ \E a \in Agents : OtherWrites(a)
              \/ NextDay
       PROVE  Behind'
  <2>1. UNCHANGED <<hooks, since, missed>>
    BY <1>10 DEF Drop, ToolReads, ToolApplies, OtherWrites, NextDay, process, history
  <2> QED BY <1>4, <2>1
<1>11. CASE Crash
  <2>1. since' = 0 /\ missed' = 0
    BY <1>11 DEF Crash
  <2> QED BY <2>1 DEF Behind
<1> QED BY <1>5, <1>6, <1>7, <1>8, <1>9, <1>10, <1>11 DEF CaptureNext, HookStep

\* Whoever throws, is dropped or is refused, at most two captured turns of the process are
\* missing in the living state, besides the writes of it that threw.
THEOREM LivingIsRecent == CaptureSpec => []LivingRecent
<1>1. CaptureInit => Behind
  BY DEF CaptureInit, Behind, NoJob
<1>2. CaptureInv /\ CaptureInv' /\ Behind /\ [CaptureNext]_captureVars => Behind'
  BY StepKeepsBehind
<1>3. Behind => LivingRecent
  BY DEF Behind, LivingRecent
<1> QED BY <1>1, <1>2, <1>3, SpecKeepsCaptureInv, PTL DEF CaptureSpec
=============================================================================
