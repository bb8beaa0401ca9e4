--------------------------- MODULE QmdStoreProofs ---------------------------
(***************************************************************************)
(* Theorems about QmdStore for any number of captures, crashes and failed  *)
(* calls and any constants: first for any number of writers, then, from    *)
(* Within on, for one, where the end of one writer's longer content cannot *)
(* stay behind another's shorter one.                                      *)
(***************************************************************************)
EXTENDS QmdStore, SequenceTheorems, WellFoundedInduction, TLAPS

Index == UNION {[S -> Nat] : S \in SUBSET Path}
Shards == UNION {[S -> Seq(Entry)] : S \in SUBSET Path}

Work == [pc : Pcs, page : Pages \cup {None}, id : Ids \cup {None}, at : Nat,
         layers : Seq(Layers), todo : Seq(Layers), entry : Entry \cup {None}, latest : Nat,
         path : Path \cup {None}, body : Seq(Entry), index : Index,
         fd : {"none", "tmp", "catalog"}]

Typed ==
    /\ files \in Shards
    /\ catalog \in [exists : BOOLEAN, index : Index]
    /\ tmp \in [exists : BOOLEAN, index : Index]
    /\ work \in [Writers -> Work]
    /\ acked \subseteq [page : Pages, id : Ids, at : Nat, layers : SUBSET Layers]
    /\ captures \in 0..MaxCaptures /\ crashes \in 0..MaxCrashes /\ torn \in 0..MaxTorn

(***************************************************************************)
(* What a writer has established at each step: a capture in progress has a *)
(* page, a text and a layer to write; its entry belongs in that layer; the *)
(* content it writes belongs in its shard; and the shard it puts in the    *)
(* catalog is there.                                                       *)
(***************************************************************************)
Writing == {"open", "fill", "index", "tmp", "write", "rename"}

Belongs(p, body) == p.layer # "briefings" => \A i \in DOMAIN body : body[i].id \in Ids

WriterOK(w) ==
    LET c == work[w] IN
    /\ c.pc # "idle" => c.page \in Pages /\ c.id \in Ids /\ c.todo # <<>>
    /\ c.pc \notin {"idle", "ensure"} =>
         c.entry \in Entry /\ (Layer(w) # "briefings" => c.entry.id \in Ids)
    /\ c.pc \in Writing => c.path \in Path /\ Belongs(c.path, c.body)
    /\ c.pc \in Writing \ {"open"} => c.path \in DOMAIN files
    /\ DOMAIN c.index \subseteq DOMAIN files

(***************************************************************************)
(* The store: what a shard has belongs in it, no catalog names a shard     *)
(* that is not there, and shards are numbered up to some number.           *)
(***************************************************************************)
StoreOK ==
    /\ \A p \in DOMAIN files : Belongs(p, files[p])
    /\ DOMAIN catalog.index \subseteq DOMAIN files
    /\ DOMAIN tmp.index \subseteq DOMAIN files
    /\ \E n \in Nat : \A p \in DOMAIN files : p.seq <= n

IInv == Typed /\ StoreOK /\ \A w \in Writers : WriterOK(w)

-----------------------------------------------------------------------------
(***************************************************************************)
(* Facts about the operators.                                              *)
(***************************************************************************)
LEMMA IndexFacts ==
    ASSUME NEW f \in Index
    PROVE  /\ DOMAIN f \subseteq Path
           /\ \A p \in DOMAIN f : f[p] \in Nat
BY DEF Index

LEMMA ShardFacts ==
    ASSUME NEW f \in Shards
    PROVE  /\ DOMAIN f \subseteq Path
           /\ \A p \in DOMAIN f : f[p] \in Seq(Entry)
BY DEF Shards

LEMMA PutIndex ==
    ASSUME NEW f \in Index, NEW path \in Path, NEW x \in Nat
    PROVE  Put(f, path, x) \in Index /\ DOMAIN Put(f, path, x) = DOMAIN f \cup {path}
<1>1. DOMAIN f \subseteq Path /\ \A p \in DOMAIN f : f[p] \in Nat
  BY IndexFacts
<1>2. Put(f, path, x) \in [DOMAIN f \cup {path} -> Nat]
  BY <1>1 DEF Put
<1>3. DOMAIN f \cup {path} \in SUBSET Path
  BY <1>1
<1> QED
  BY <1>2, <1>3 DEF Index

LEMMA PutShard ==
    ASSUME NEW f \in Shards, NEW path \in Path, NEW x \in Seq(Entry)
    PROVE  /\ Put(f, path, x) \in Shards
           /\ DOMAIN Put(f, path, x) = DOMAIN f \cup {path}
           /\ Put(f, path, x)[path] = x
           /\ \A p \in DOMAIN f : p # path => Put(f, path, x)[p] = f[p]
<1>1. DOMAIN f \subseteq Path /\ \A p \in DOMAIN f : f[p] \in Seq(Entry)
  BY ShardFacts
<1>2. Put(f, path, x) \in [DOMAIN f \cup {path} -> Seq(Entry)]
  BY <1>1 DEF Put
<1>3. DOMAIN f \cup {path} \in SUBSET Path
  BY <1>1
<1>4. Put(f, path, x) \in Shards
  BY <1>2, <1>3 DEF Shards
<1> QED
  BY <1>2, <1>4 DEF Put

LEMMA NoPathsFacts == NoPaths \in Index /\ NoPaths \in Shards /\ DOMAIN NoPaths = {}
<1>1. NoPaths \in [{} -> Nat] /\ NoPaths \in [{} -> Seq(Entry)] /\ DOMAIN NoPaths = {}
  BY DEF NoPaths
<1>2. {} \in SUBSET Path
  OBVIOUS
<1> QED
  BY <1>1, <1>2 DEF Index, Shards

(***************************************************************************)
(* A bounded set of numbers has a greatest element.                        *)
(***************************************************************************)
LEMMA Greatest ==
    ASSUME NEW S, S \subseteq Nat, S # {}, NEW n \in Nat, \A m \in S : m <= n
    PROVE  \E x \in S : \A m \in S : m <= x
<1> DEFINE T == {n - m : m \in S}
<1>1. T \subseteq Nat /\ T # {}
  <2>1. ASSUME NEW m \in S PROVE n - m \in Nat
    <3>1. m \in Nat /\ m <= n
      OBVIOUS
    <3> QED
      BY <3>1
  <2>2. PICK m \in S : TRUE
    OBVIOUS
  <2>3. n - m \in T
    BY <2>2
  <2>4. T \subseteq Nat
    BY <2>1
  <2> QED
    BY <2>3, <2>4
<1>2. PICK t \in T : \A y \in T : <<y, t>> \notin OpToRel(<, Nat)
  <2> HIDE DEF T
  <2> QED
    BY <1>1, WFMin, NatLessThanWellFounded, Zenon
<1>3. \A y \in T : ~(y < t)
  <2> HIDE DEF T
  <2> QED
    BY <1>1, <1>2, Zenon DEF OpToRel
<1>4. PICK x \in S : t = n - x
  BY <1>2
<1>5. ASSUME NEW m \in S PROVE m <= x
  <2>1. n - m \in T
    OBVIOUS
  <2>2. ~(n - m < n - x)
    BY <2>1, <1>3, <1>4
  <2> QED
    BY <2>2
<1> QED
  BY <1>5

\* The number of the last shard of a page that the catalog names, 0 if it names none.
IsLatest(layer, page, n) ==
    /\ \A p \in ShardsOf(layer, page) : p.seq <= n
    /\ n = 0 \/ \E p \in ShardsOf(layer, page) : p.seq = n

LEMMA LatestSeqType ==
    ASSUME Typed, StoreOK, NEW layer \in Layers, NEW page \in Pages
    PROVE  LatestSeq(layer, page) \in Nat /\ IsLatest(layer, page, LatestSeq(layer, page))
<1> DEFINE S == {p.seq : p \in ShardsOf(layer, page)}
<1>1. catalog.index \in Index
  BY DEF Typed
<1>2. ShardsOf(layer, page) \subseteq Path /\ ShardsOf(layer, page) \subseteq DOMAIN files
  BY <1>1, IndexFacts DEF ShardsOf, StoreOK
<1>3. S \subseteq Nat
  BY <1>2 DEF Path
<1>4. PICK n \in Nat : \A p \in DOMAIN files : p.seq <= n
  BY DEF StoreOK
<1>5. \A m \in S : m <= n
  BY <1>2, <1>4
<1>6. CASE S = {}
  BY <1>6 DEF LatestSeq, IsLatest
<1>7. CASE S # {}
  <2>1. \E x \in S : \A m \in S : m <= x
    <3> HIDE DEF S
    <3> QED
      BY <1>3, <1>4, <1>5, <1>7, Greatest
  <2> DEFINE last == CHOOSE x \in S : \A m \in S : m <= x
  <2>2. last \in S /\ \A m \in S : m <= last
    <3> HIDE DEF S
    <3> QED
      BY <2>1
  <2>3. LatestSeq(layer, page) = last
    BY <1>7, Zenon DEF LatestSeq
  <2> HIDE DEF last
  <2>4. (\A p \in ShardsOf(layer, page) : p.seq <= last) /\ \E p \in ShardsOf(layer, page) : p.seq = last
    BY <2>2
  <2> HIDE DEF S
  <2> QED
    BY <2>2, <2>3, <2>4, <1>3 DEF IsLatest
<1> QED
  BY <1>6, <1>7

(***************************************************************************)
(* Adding an entry gives a content the shard may have, if it passes no     *)
(* limit or only replaces an entry.                                        *)
(***************************************************************************)
LEMMA UpsertFacts ==
    ASSUME NEW body \in Seq(Entry), NEW e \in Entry
    PROVE  /\ Upsert(body, e) \in Seq(Entry)
           /\ \/ Len(Upsert(body, e)) = Len(body)
              \/ Upsert(body, e) = Append(body, e) /\ \A i \in DOMAIN body : body[i].id # e.id
           /\ \A i \in DOMAIN body : Upsert(body, e)[i].id = body[i].id
           /\ \A i \in DOMAIN Upsert(body, e) : Upsert(body, e)[i] = e \/ (i \in DOMAIN body /\ Upsert(body, e)[i] = body[i])
<1>1. CASE \E i \in DOMAIN body : body[i].id = e.id
  <2>1. Upsert(body, e) = [i \in DOMAIN body |-> IF body[i].id = e.id THEN e ELSE body[i]]
    BY <1>1 DEF Upsert
  <2>2. Upsert(body, e) \in Seq(Entry) /\ Len(Upsert(body, e)) = Len(body)
    BY <2>1
  <2> QED
    BY <2>1, <2>2
<1>2. CASE ~(\E i \in DOMAIN body : body[i].id = e.id)
  BY <1>2 DEF Upsert
<1> QED
  BY <1>1, <1>2

LEMMA ContentBelongs ==
    ASSUME NEW p \in Path, NEW body \in Seq(Entry), NEW e \in Entry, Belongs(p, body),
           p.layer # "briefings" => e.id \in Ids,
           NEW next, next = IF p.layer = "raw" THEN Append(body, e) ELSE Upsert(body, e)
    PROVE  next \in Seq(Entry) /\ Belongs(p, next)
<1>1. next \in Seq(Entry)
  BY UpsertFacts
<1>2. CASE p.layer = "raw"
  <2>1. \A i \in DOMAIN next : next[i] = e \/ (i \in DOMAIN body /\ next[i] = body[i])
    BY <1>2
  <2> QED
    BY <1>1, <2>1 DEF Belongs
<1>3. CASE p.layer # "raw"
  <2>1. next = Upsert(body, e)
    BY <1>3
  <2>2. \A i \in DOMAIN next : next[i] = e \/ (i \in DOMAIN body /\ next[i] = body[i])
    <3>1. \A i \in DOMAIN Upsert(body, e) :
            Upsert(body, e)[i] = e \/ (i \in DOMAIN body /\ Upsert(body, e)[i] = body[i])
      BY UpsertFacts
    <3> QED
      BY <2>1, <3>1
  <2> QED
    BY <1>1, <2>2 DEF Belongs
<1> QED
  BY <1>2, <1>3

LEMMA EmptyFacts == << >> \in Seq(Entry) /\ Len(<< >>) = 0 /\ DOMAIN << >> = {}
OBVIOUS

\* The rest of an older content, after the new one.
LEMMA RestBelongs ==
    ASSUME NEW p \in Path, NEW body \in Seq(Entry), NEW old \in Seq(Entry),
           Belongs(p, body), Belongs(p, old), NEW k \in 1..Len(old) + 1
    PROVE  /\ body \o SubSeq(old, k, Len(old)) \in Seq(Entry)
           /\ Belongs(p, body \o SubSeq(old, k, Len(old)))
<1> DEFINE rest == SubSeq(old, k, Len(old))
           all == body \o rest
<1>1. /\ rest \in Seq(Entry) /\ \A i \in DOMAIN rest : \E j \in DOMAIN old : rest[i] = old[j]
  <2>1. rest \in Seq(Entry) /\ Len(rest) = Len(old) - k + 1
        /\ \A i \in 1..Len(rest) : rest[i] = old[k + i - 1] /\ k + i - 1 \in 1..Len(old)
    OBVIOUS
  <2> QED
    BY <2>1
<1> HIDE DEF rest
<1>2. /\ all \in Seq(Entry)
      /\ \A i \in DOMAIN all : (\E j \in DOMAIN body : all[i] = body[j]) \/ (\E j \in DOMAIN rest : all[i] = rest[j])
  <2>1. /\ all \in Seq(Entry) /\ Len(all) = Len(body) + Len(rest)
        /\ \A i \in 1..Len(body) : all[i] = body[i]
        /\ \A i \in Len(body) + 1..Len(all) : all[i] = rest[i - Len(body)]
    BY <1>1
  <2> HIDE DEF all
  <2>2. /\ DOMAIN all = 1..Len(all) /\ DOMAIN body = 1..Len(body) /\ DOMAIN rest = 1..Len(rest)
        /\ Len(body) \in Nat /\ Len(rest) \in Nat
    BY <1>1, <2>1
  <2>3. ASSUME NEW i \in DOMAIN all
        PROVE (\E j \in DOMAIN body : all[i] = body[j]) \/ (\E j \in DOMAIN rest : all[i] = rest[j])
    <3>1. CASE i <= Len(body)
      BY <2>1, <2>2, <3>1
    <3>2. CASE i > Len(body)
      <4>1. i - Len(body) \in DOMAIN rest /\ all[i] = rest[i - Len(body)]
        BY <2>1, <2>2, <3>2
      <4> QED
        BY <4>1
    <3> QED
      BY <2>2, <3>1, <3>2
  <2> QED
    BY <2>1, <2>3
<1> HIDE DEF all
<1>3. Belongs(p, all)
  BY <1>1, <1>2 DEF Belongs
<1> QED
  BY <1>2, <1>3 DEF all, rest

(***************************************************************************)
(* The entry of a layer: a text or a briefing of texts.                    *)
(***************************************************************************)
LEMMA EntryForType ==
    ASSUME Typed, StoreOK, NEW w \in Writers, WriterOK(w), work[w].pc # "idle"
    PROVE  EntryFor(w) \in Entry /\ (Layer(w) # "briefings" => EntryFor(w).id \in Ids)
<1>1. work[w].page \in Pages /\ work[w].id \in Ids /\ work[w].at \in Nat
  BY DEF Typed, Work, WriterOK
<1>2. CASE Layer(w) # "briefings"
  BY <1>1, <1>2 DEF EntryFor, Entry
<1>3. CASE Layer(w) = "briefings"
  <2>1. files \in Shards /\ catalog.index \in Index
    BY DEF Typed
  <2>2. ASSUME NEW e \in Visible("live", work[w].page) PROVE e.id \in Ids
    <3>1. PICK p \in DOMAIN files : p.layer = "live" /\ e \in Range(files[p])
      BY DEF Visible, ShardsOf
    <3>2. Belongs(p, files[p])
      BY DEF StoreOK
    <3> QED
      BY <3>1, <3>2 DEF Belongs, Range
  <2>3. Top(Visible("live", work[w].page)) \subseteq Visible("live", work[w].page)
    BY DEF Top
  <2>4. {e.id : e \in Top(Visible("live", work[w].page))} \in SUBSET Ids
    BY <2>2, <2>3
  <2> QED
    BY <1>1, <1>3, <2>4 DEF EntryFor, Entry
<1> QED
  BY <1>2, <1>3

LEMMA LayersOf ==
    ASSUME NEW state \in States
    PROVE  Writes(state) \in Seq(Layers) /\ Writes(state) # << >>
<1>1. CASE state = "raw"
  BY <1>1 DEF Writes, Layers
<1>2. CASE state \in {"distilled", "promoted"}
  <2>1. Writes(state) = <<"raw", "live", "briefings">>
    BY <1>2 DEF Writes
  <2> QED
    BY <2>1 DEF Layers
<1>3. CASE state = "deprecated"
  <2>1. Writes(state) = <<"raw">>
    BY <1>3 DEF Writes
  <2> QED
    BY <2>1 DEF Layers
<1> QED
  BY <1>1, <1>2, <1>3 DEF States

LEMMA LayerType ==
    ASSUME Typed, NEW w \in Writers, WriterOK(w), work[w].pc # "idle"
    PROVE  Layer(w) \in Layers
BY DEF Typed, Work, WriterOK, Layer

-----------------------------------------------------------------------------
(***************************************************************************)
(* The invariant is inductive.                                             *)
(***************************************************************************)
\* The shards stay while others are added: what an idle step of a writer keeps.
LEMMA OtherWriter ==
    ASSUME NEW v \in Writers, WriterOK(v), DOMAIN files \subseteq DOMAIN files',
           work'[v].pc = work[v].pc, work'[v].page = work[v].page, work'[v].id = work[v].id,
           work'[v].todo = work[v].todo, work'[v].entry = work[v].entry,
           work'[v].path = work[v].path, work'[v].body = work[v].body,
           work'[v].index = work[v].index
    PROVE  WriterOK(v)'
BY DEF WriterOK, Layer

LEMMA StoreUnchanged ==
    ASSUME StoreOK, files' = files, DOMAIN catalog'.index \subseteq DOMAIN files,
           DOMAIN tmp'.index \subseteq DOMAIN files
    PROVE  StoreOK'
BY DEF StoreOK

LEMMA NoWorkType == NoWork \in Work
<1>1. NoPaths \in Index
  BY NoPathsFacts
<1> QED
  BY <1>1 DEF NoWork, Work, Pcs

LEMMA InitInv == Init => IInv
<1> SUFFICES ASSUME Init PROVE IInv
  OBVIOUS
<1> USE NoPathsFacts
<1>1. Typed
  <2>1. work \in [Writers -> Work]
    BY NoWorkType DEF Init
  <2>2. captures \in 0..MaxCaptures /\ crashes \in 0..MaxCrashes /\ torn \in 0..MaxTorn
    BY BoundsAssumption DEF Init
  <2> QED
    BY <2>1, <2>2 DEF Init, Typed
<1>2. StoreOK
  BY DEF Init, StoreOK
<1>3. \A w \in Writers : WriterOK(w)
  BY DEF Init, WriterOK, NoWork, Writing
<1> QED
  BY <1>1, <1>2, <1>3 DEF IInv

\* A step of w that leaves the others alone and takes no shard away.
LEMMA Assemble ==
    ASSUME IInv, NEW w \in Writers, Typed', StoreOK', WriterOK(w)',
           DOMAIN files \subseteq DOMAIN files',
           \A v \in Writers : v # w => work'[v] = work[v]
    PROVE  IInv'
<1>1. ASSUME NEW v \in Writers PROVE WriterOK(v)'
  <2>1. CASE v = w
    BY <2>1
  <2>2. CASE v # w
    BY <2>2, OtherWriter DEF IInv
  <2> QED
    BY <2>1, <2>2
<1> QED
  BY <1>1 DEF IInv

LEMMA CaptureInv ==
    ASSUME IInv, NEW w \in Writers, NEW page \in Pages, NEW id \in Ids, NEW state \in States,
           Capture(w, page, id, state)
    PROVE  IInv'
<1> DEFINE c == [NoWork EXCEPT !.pc = "ensure", !.page = page, !.id = id, !.at = captures + 1,
                               !.layers = Writes(state), !.todo = Writes(state)]
<1>1. /\ work' = [work EXCEPT ![w] = c] /\ captures' = captures + 1 /\ captures < MaxCaptures
      /\ UNCHANGED <<files, catalog, tmp, acked, crashes, torn>>
  BY DEF Capture
<1>2. Typed /\ StoreOK /\ captures \in Nat /\ captures' \in 0..MaxCaptures
  BY <1>1, BoundsAssumption DEF IInv, Typed
<1>3. /\ c \in Work
      /\ c.pc = "ensure" /\ c.page = page /\ c.id = id /\ c.todo = Writes(state)
      /\ c.index = NoPaths
  <2>1. Writes(state) \in Seq(Layers)
    BY LayersOf
  <2>2. c \in Work
    <3> DEFINE c1 == [NoWork EXCEPT !.pc = "ensure", !.page = page, !.id = id]
               c2 == [c1 EXCEPT !.at = captures + 1]
               c3 == [c2 EXCEPT !.layers = Writes(state)]
               c4 == [c3 EXCEPT !.todo = Writes(state)]
    <3>1. captures + 1 \in Nat
      BY <1>2
    <3>2. c1 \in Work
      BY NoWorkType DEF Work, Pcs
    <3>3. c2 \in Work
      <4> HIDE DEF c1
      <4> QED
        BY <3>1, <3>2 DEF Work
    <3>4. c3 \in Work
      <4> HIDE DEF c2
      <4> QED
        BY <2>1, <3>3 DEF Work
    <3>5. c4 \in Work
      <4> HIDE DEF c3
      <4> QED
        BY <2>1, <3>4 DEF Work
    <3> QED
      BY <3>5, Zenon
  <2>3. /\ c.pc = "ensure" /\ c.page = page /\ c.id = id /\ c.todo = Writes(state)
        /\ c.index = NoPaths
    BY DEF NoWork
  <2> QED
    BY <2>2, <2>3
<1> HIDE DEF c
<1>4. Typed'
  BY <1>1, <1>2, <1>3 DEF Typed
<1>5. StoreOK'
  BY <1>1, <1>2 DEF StoreOK
<1>6. work'[w] = c
  BY <1>1, <1>2 DEF Typed
<1>7. WriterOK(w)'
  BY <1>3, <1>6, LayersOf, NoPathsFacts DEF WriterOK, Writing
<1>8. \A v \in Writers : v # w => work'[v] = work[v]
  BY <1>1, <1>2 DEF Typed
<1> QED
  BY <1>1, <1>4, <1>5, <1>7, <1>8, Assemble

(***************************************************************************)
(* The steps that only change what the writer has read: its record, of     *)
(* which c is the next value.                                              *)
(***************************************************************************)
LEMMA ReadInv ==
    ASSUME IInv, NEW w \in Writers, NEW c \in Work, work' = [work EXCEPT ![w] = c],
           UNCHANGED <<files, acked, captures, crashes, torn>>,
           catalog' \in [exists : BOOLEAN, index : Index],
           tmp' \in [exists : BOOLEAN, index : Index],
           DOMAIN catalog'.index \subseteq DOMAIN files,
           DOMAIN tmp'.index \subseteq DOMAIN files,
           work'[w] = c => WriterOK(w)'
    PROVE  IInv'
<1>1. Typed /\ StoreOK
  BY DEF IInv
<1>2. Typed'
  BY <1>1 DEF Typed
<1>3. StoreOK'
  BY <1>1, StoreUnchanged
<1>4. work'[w] = c /\ \A v \in Writers : v # w => work'[v] = work[v]
  BY <1>1 DEF Typed
<1> QED
  BY <1>2, <1>3, <1>4, Assemble

LEMMA EnsureInv == ASSUME IInv, NEW w \in Writers, Ensure(w) PROVE IInv'
<1> DEFINE c == [work[w] EXCEPT !.pc = IF catalog.exists THEN "latest" ELSE "init",
                                !.entry = EntryFor(w)]
<1>1. /\ Typed /\ StoreOK /\ WriterOK(w) /\ work[w].pc = "ensure"
      /\ UNCHANGED <<files, catalog, tmp, acked, captures, crashes, torn>>
  BY DEF IInv, Ensure
<1>2. work[w] \in Work /\ EntryFor(w) \in Entry /\ (Layer(w) # "briefings" => EntryFor(w).id \in Ids)
  BY <1>1, EntryForType DEF Typed
<1>3. work' = [work EXCEPT ![w] = c]
  BY <1>1 DEF Ensure
<1>4. /\ c \in Work /\ c.pc \in {"latest", "init"} /\ c.entry = EntryFor(w)
      /\ c.page = work[w].page /\ c.id = work[w].id /\ c.todo = work[w].todo
      /\ c.index = work[w].index
  BY <1>2 DEF Work, Pcs
<1> HIDE DEF c
<1>5. ASSUME work'[w] = c PROVE WriterOK(w)'
  BY <1>1, <1>2, <1>4, <1>5 DEF WriterOK, Writing, Layer
<1> QED
  BY <1>1, <1>3, <1>4, <1>5, ReadInv DEF Typed, StoreOK

LEMMA InitCatalogInv == ASSUME IInv, NEW w \in Writers, InitCatalog(w) PROVE IInv'
<1> DEFINE c == [work[w] EXCEPT !.pc = "latest"]
<1>1. /\ Typed /\ StoreOK /\ WriterOK(w) /\ work[w].pc = "init"
      /\ UNCHANGED <<files, tmp, acked, captures, crashes, torn>>
      /\ catalog' = [exists |-> TRUE, index |-> NoPaths]
  BY DEF IInv, InitCatalog
<1>2. work[w] \in Work
  BY <1>1 DEF Typed
<1>3. work' = [work EXCEPT ![w] = c]
  BY DEF InitCatalog, Goto
<1>4. /\ c \in Work /\ c.pc = "latest" /\ c.entry = work[w].entry
      /\ c.page = work[w].page /\ c.id = work[w].id /\ c.todo = work[w].todo
      /\ c.index = work[w].index
  BY <1>2 DEF Work, Pcs
<1> HIDE DEF c
<1>5. ASSUME work'[w] = c PROVE WriterOK(w)'
  BY <1>1, <1>2, <1>4, <1>5 DEF WriterOK, Writing, Layer
<1> QED
  BY <1>1, <1>3, <1>4, <1>5, ReadInv, NoPathsFacts DEF Typed, StoreOK

LEMMA ReadLatestInv == ASSUME IInv, NEW w \in Writers, ReadLatest(w) PROVE IInv'
<1> DEFINE c == [work[w] EXCEPT !.pc = "body", !.latest = LatestSeq(Layer(w), work[w].page)]
<1>1. /\ Typed /\ StoreOK /\ WriterOK(w) /\ work[w].pc = "latest"
      /\ UNCHANGED <<files, catalog, tmp, acked, captures, crashes, torn>>
  BY DEF IInv, ReadLatest
<1>2. work[w] \in Work /\ work[w].page \in Pages /\ Layer(w) \in Layers
  BY <1>1, LayerType DEF Typed, WriterOK
<1>3. work' = [work EXCEPT ![w] = c]
  BY <1>1 DEF ReadLatest
<1>4. /\ c \in Work /\ c.pc = "body" /\ c.entry = work[w].entry
      /\ c.page = work[w].page /\ c.id = work[w].id /\ c.todo = work[w].todo
      /\ c.index = work[w].index
  BY <1>1, <1>2, LatestSeqType DEF Work, Pcs
<1> HIDE DEF c
<1>5. ASSUME work'[w] = c PROVE WriterOK(w)'
  BY <1>1, <1>2, <1>4, <1>5 DEF WriterOK, Writing, Layer
<1> QED
  BY <1>1, <1>3, <1>4, <1>5, ReadInv DEF Typed, StoreOK

(***************************************************************************)
(* The content a writer makes: what the latest shard holds and the entry,  *)
(* or the entry alone in the next shard.                                   *)
(***************************************************************************)
LEMMA HeldType ==
    ASSUME Typed, StoreOK, NEW w \in Writers
    PROVE  /\ Held(w) \in Seq(Entry) /\ Belongs(Shard(w, work[w].latest), Held(w))
           /\ \/ Held(w) = << >>
              \/ Shard(w, work[w].latest) \in DOMAIN files /\ Held(w) = files[Shard(w, work[w].latest)]
<1>1. files \in Shards
  BY DEF Typed
<1>2. CASE Shard(w, work[w].latest) \in DOMAIN files
  BY <1>1, <1>2, ShardFacts DEF Held, StoreOK
<1>3. CASE Shard(w, work[w].latest) \notin DOMAIN files
  BY <1>3, EmptyFacts DEF Held, Belongs
<1> QED
  BY <1>2, <1>3

Content(w) == IF Layer(w) = "raw" THEN Append(Held(w), work[w].entry)
                                  ELSE Upsert(Held(w), work[w].entry)

LEMMA ReadBodyFacts ==
    ASSUME IInv, NEW w \in Writers, ReadBody(w)
    PROVE  \E n \in Nat :
             /\ Shard(w, n) \in Path /\ Shard(w, n).layer = Layer(w)
             /\ \E body \in {<<work[w].entry>>, Content(w)} :
                  /\ work' = [work EXCEPT ![w] = [work[w] EXCEPT !.pc = "open", !.path = Shard(w, n),
                                                                 !.body = body]]
                  /\ body # <<work[w].entry>> =>
                       /\ n = work[w].latest
                       /\ Len(body) = Len(Held(w)) \/ ~Exceeds(body)
<1> DEFINE e == work[w].entry
           next == Content(w)
           over == ~(Len(next) = Len(Held(w))) /\ Exceeds(next)
           n == work[w].latest + IF over THEN 1 ELSE 0
           body == IF over THEN <<e>> ELSE next
<1>1. Typed /\ WriterOK(w) /\ work[w].pc = "body"
  BY DEF IInv, ReadBody
<1>2. work[w].latest \in Nat /\ work[w].page \in Pages /\ Layer(w) \in Layers
  BY <1>1, LayerType DEF Typed, WriterOK, Work
<1>3. n \in Nat /\ Shard(w, n) \in Path /\ Shard(w, n).layer = Layer(w)
  BY <1>2 DEF Shard, Path
<1>4. work' = [work EXCEPT ![w] = [work[w] EXCEPT !.pc = "open", !.path = Shard(w, n), !.body = body]]
  BY DEF ReadBody, Content
<1>5. body \in {<<e>>, next}
  OBVIOUS
<1>6. body # <<e>> => n = work[w].latest /\ (Len(body) = Len(Held(w)) \/ ~Exceeds(body))
  BY <1>2
<1> HIDE DEF n, body, next
<1> QED
  BY <1>3, <1>4, <1>5, <1>6 DEF next

LEMMA ReadBodyInv == ASSUME IInv, NEW w \in Writers, ReadBody(w) PROVE IInv'
<1>1. /\ Typed /\ StoreOK /\ WriterOK(w) /\ work[w].pc = "body"
      /\ UNCHANGED <<files, catalog, tmp, acked, captures, crashes, torn>>
  BY DEF IInv, ReadBody
<1> DEFINE e == work[w].entry
<1>2. work[w] \in Work /\ e \in Entry /\ (Layer(w) # "briefings" => e.id \in Ids)
  BY <1>1 DEF Typed, WriterOK
<1>3. PICK n \in Nat :
        /\ Shard(w, n) \in Path /\ Shard(w, n).layer = Layer(w)
        /\ \E body \in {<<e>>, Content(w)} :
             /\ work' = [work EXCEPT ![w] = [work[w] EXCEPT !.pc = "open", !.path = Shard(w, n),
                                                            !.body = body]]
             /\ body # <<e>> => n = work[w].latest /\ (Len(body) = Len(Held(w)) \/ ~Exceeds(body))
  BY ReadBodyFacts
<1>4. PICK body \in {<<e>>, Content(w)} :
        /\ work' = [work EXCEPT ![w] = [work[w] EXCEPT !.pc = "open", !.path = Shard(w, n),
                                                       !.body = body]]
        /\ body # <<e>> => n = work[w].latest
  BY <1>3
<1>5. body \in Seq(Entry) /\ Belongs(Shard(w, n), body)
  <2>1. CASE body = <<e>>
    BY <1>2, <1>3, <2>1 DEF Belongs
  <2>2. CASE body # <<e>>
    <3>1. n = work[w].latest /\ body = Content(w)
      BY <1>4, <2>2
    <3>2. Held(w) \in Seq(Entry) /\ Belongs(Shard(w, n), Held(w))
      BY <1>1, <3>1, HeldType
    <3>3. body = IF Shard(w, n).layer = "raw" THEN Append(Held(w), e) ELSE Upsert(Held(w), e)
      BY <1>3, <3>1 DEF Content
    <3> QED
      BY <1>2, <1>3, <3>2, <3>3, ContentBelongs
  <2> QED
    BY <2>1, <2>2
<1> DEFINE c == [work[w] EXCEPT !.pc = "open", !.path = Shard(w, n), !.body = body]
<1>6. /\ c \in Work /\ c.pc = "open" /\ c.entry = e
      /\ c.page = work[w].page /\ c.id = work[w].id /\ c.todo = work[w].todo
      /\ c.index = work[w].index /\ c.path = Shard(w, n) /\ c.body = body
  BY <1>2, <1>3, <1>5 DEF Work, Pcs
<1>7. work' = [work EXCEPT ![w] = c]
  BY <1>4
<1> HIDE DEF c
<1>8. ASSUME work'[w] = c PROVE WriterOK(w)'
  BY <1>1, <1>2, <1>3, <1>5, <1>6, <1>8 DEF WriterOK, Writing, Layer
<1> QED
  BY <1>1, <1>6, <1>7, <1>8, ReadInv DEF Typed, StoreOK

(***************************************************************************)
(* A step that writes a shard: x, which fits it.                           *)
(***************************************************************************)
LEMMA ShardInv ==
    ASSUME IInv, NEW w \in Writers, NEW x \in Seq(Entry), Belongs(work[w].path, x),
           work[w].pc \in {"open", "fill"}, NEW pc \in {"fill", "index"},
           files' = Put(files, work[w].path, x), Goto(w, pc),
           UNCHANGED <<catalog, tmp, acked, captures, crashes, torn>>
    PROVE  IInv'
<1> DEFINE c == [work[w] EXCEPT !.pc = pc]
           path == work[w].path
<1>1. /\ Typed /\ StoreOK /\ WriterOK(w) /\ work[w] \in Work /\ files \in Shards
      /\ path \in Path
  BY DEF IInv, Typed, WriterOK, Writing
<1>2. /\ c \in Work /\ c.pc = pc /\ c.entry = work[w].entry
      /\ c.page = work[w].page /\ c.id = work[w].id /\ c.todo = work[w].todo
      /\ c.index = work[w].index /\ c.path = path /\ c.body = work[w].body
  BY <1>1 DEF Work, Pcs
<1>3. work' = [work EXCEPT ![w] = c]
  BY DEF Goto
<1>4. work'[w] = c /\ \A v \in Writers : v # w => work'[v] = work[v]
  BY <1>1, <1>3 DEF Typed
<1> HIDE DEF c
<1>5. /\ files' \in Shards /\ DOMAIN files' = DOMAIN files \cup {path} /\ files'[path] = x
      /\ \A p \in DOMAIN files : p # path => files'[p] = files[p]
  <2> HIDE DEF path
  <2>1. files' = Put(files, path, x)
    BY DEF path
  <2>2. /\ Put(files, path, x) \in Shards
        /\ DOMAIN Put(files, path, x) = DOMAIN files \cup {path}
        /\ Put(files, path, x)[path] = x
        /\ \A p \in DOMAIN files : p # path => Put(files, path, x)[p] = files[p]
    BY <1>1, PutShard
  <2> QED
    BY <2>1, <2>2
<1>6. Typed'
  BY <1>1, <1>2, <1>3, <1>5 DEF Typed
<1>7. StoreOK'
  <2>1. \A p \in DOMAIN files' : Belongs(p, files'[p])
    BY <1>1, <1>5 DEF StoreOK
  <2>2. \E n \in Nat : \A p \in DOMAIN files' : p.seq <= n
    <3>1. PICK n \in Nat : \A p \in DOMAIN files : p.seq <= n
      BY <1>1 DEF StoreOK
    <3>2. path.seq \in Nat /\ \A p \in DOMAIN files : p.seq \in Nat
      BY <1>1, ShardFacts DEF Path
    <3>3. n + path.seq \in Nat /\ \A p \in DOMAIN files' : p.seq <= n + path.seq
      BY <1>5, <3>1, <3>2
    <3> QED
      BY <3>3
  <2> QED
    BY <1>1, <1>5, <2>1, <2>2 DEF StoreOK
<1>8. WriterOK(w)'
  BY <1>1, <1>2, <1>4, <1>5 DEF WriterOK, Writing, Layer
<1> QED
  BY <1>4, <1>5, <1>6, <1>7, <1>8, Assemble

LEMMA OpenShardInv == ASSUME IInv, NEW w \in Writers, OpenShard(w) PROVE IInv'
<1>1. << >> \in Seq(Entry) /\ Belongs(work[w].path, << >>)
  BY EmptyFacts DEF Belongs
<1> QED
  BY <1>1, ShardInv DEF OpenShard, AbsPath

LEMMA FillShardInv == ASSUME IInv, NEW w \in Writers, FillShard(w) PROVE IInv'
<1> DEFINE path == work[w].path
           old == files[path]
<1>1. /\ work[w].pc = "fill" /\ path \in Path /\ path \in DOMAIN files /\ old \in Seq(Entry)
      /\ work[w].body \in Seq(Entry) /\ Belongs(path, work[w].body) /\ Belongs(path, old)
  BY ShardFacts DEF FillShard, IInv, Typed, StoreOK, Work, WriterOK, Writing
<1>2. PICK k \in 1..Len(old) + 1 :
        files' = Put(files, path, work[w].body \o SubSeq(old, k, Len(old)))
  BY DEF FillShard, AbsPath
<1>3. /\ work[w].body \o SubSeq(old, k, Len(old)) \in Seq(Entry)
      /\ Belongs(path, work[w].body \o SubSeq(old, k, Len(old)))
  <2> HIDE DEF path, old
  <2> QED
    BY <1>1, RestBelongs
<1> QED
  BY <1>1, <1>2, <1>3, ShardInv DEF FillShard

LEMMA IndexShardInv == ASSUME IInv, NEW w \in Writers, IndexShard(w) PROVE IInv'
<1> DEFINE index == Put(catalog.index, work[w].path, EntryCount(w))
           c == [work[w] EXCEPT !.pc = "tmp", !.index = index]
<1>1. /\ Typed /\ StoreOK /\ WriterOK(w) /\ work[w].pc = "index"
      /\ UNCHANGED <<files, catalog, tmp, acked, captures, crashes, torn>>
  BY DEF IInv, IndexShard
<1>2. /\ work[w] \in Work /\ work[w].path \in Path /\ work[w].path \in DOMAIN files
      /\ catalog.index \in Index /\ EntryCount(w) \in Nat
  BY <1>1 DEF Typed, WriterOK, Writing, Work, EntryCount
<1>3. index \in Index /\ DOMAIN index \subseteq DOMAIN files
  <2>1. index \in Index /\ DOMAIN index = DOMAIN catalog.index \cup {work[w].path}
    BY <1>2, PutIndex
  <2> HIDE DEF index
  <2> QED
    BY <1>1, <1>2, <2>1 DEF StoreOK
<1>4. work' = [work EXCEPT ![w] = c]
  BY <1>1 DEF IndexShard
<1> HIDE DEF index
<1>5. /\ c \in Work /\ c.pc = "tmp" /\ c.entry = work[w].entry
      /\ c.page = work[w].page /\ c.id = work[w].id /\ c.todo = work[w].todo
      /\ c.index = index /\ c.path = work[w].path /\ c.body = work[w].body
  BY <1>2, <1>3 DEF Work, Pcs
<1> HIDE DEF c
<1>6. ASSUME work'[w] = c PROVE WriterOK(w)'
  BY <1>1, <1>2, <1>3, <1>5, <1>6 DEF WriterOK, Writing, Layer
<1> QED
  BY <1>1, <1>4, <1>5, <1>6, ReadInv DEF Typed, StoreOK

LEMMA OpenTmpInv == ASSUME IInv, NEW w \in Writers, OpenTmp(w) PROVE IInv'
<1> DEFINE c == [work[w] EXCEPT !.pc = "write", !.fd = "tmp"]
<1>1. /\ Typed /\ StoreOK /\ WriterOK(w) /\ work[w].pc = "tmp"
      /\ UNCHANGED <<files, catalog, acked, captures, crashes, torn>>
      /\ tmp' = [exists |-> TRUE, index |-> NoPaths]
  BY DEF IInv, OpenTmp
<1>2. work[w] \in Work
  BY <1>1 DEF Typed
<1>3. work' = [work EXCEPT ![w] = c]
  BY <1>1 DEF OpenTmp
<1>4. /\ c \in Work /\ c.pc = "write" /\ c.entry = work[w].entry
      /\ c.page = work[w].page /\ c.id = work[w].id /\ c.todo = work[w].todo
      /\ c.index = work[w].index /\ c.path = work[w].path /\ c.body = work[w].body
  BY <1>2 DEF Work, Pcs
<1> HIDE DEF c
<1>5. ASSUME work'[w] = c PROVE WriterOK(w)'
  BY <1>1, <1>2, <1>4, <1>5 DEF WriterOK, Writing, Layer
<1> QED
  BY <1>1, <1>3, <1>4, <1>5, ReadInv, NoPathsFacts DEF Typed, StoreOK

LEMMA WriteTmpInv == ASSUME IInv, NEW w \in Writers, WriteTmp(w) PROVE IInv'
<1> DEFINE c == [work[w] EXCEPT !.pc = "rename", !.fd = "none"]
<1>1. /\ Typed /\ StoreOK /\ WriterOK(w) /\ work[w].pc = "write"
      /\ UNCHANGED <<files, acked, captures, crashes, torn>>
  BY DEF IInv, WriteTmp
<1>2. work[w] \in Work /\ work[w].index \in Index /\ DOMAIN work[w].index \subseteq DOMAIN files
  BY <1>1 DEF Typed, Work, WriterOK
<1>3. work' = [work EXCEPT ![w] = c]
  BY <1>1 DEF WriteTmp
<1>4. /\ c \in Work /\ c.pc = "rename" /\ c.entry = work[w].entry
      /\ c.page = work[w].page /\ c.id = work[w].id /\ c.todo = work[w].todo
      /\ c.index = work[w].index /\ c.path = work[w].path /\ c.body = work[w].body
  BY <1>2 DEF Work, Pcs
<1> HIDE DEF c
<1>5. ASSUME work'[w] = c PROVE WriterOK(w)'
  BY <1>1, <1>2, <1>4, <1>5 DEF WriterOK, Writing, Layer
<1>6. /\ catalog \in [exists : BOOLEAN, index : Index] /\ DOMAIN catalog.index \subseteq DOMAIN files
      /\ tmp \in [exists : BOOLEAN, index : Index] /\ DOMAIN tmp.index \subseteq DOMAIN files
  BY <1>1 DEF Typed, StoreOK
<1>7. ASSUME NEW old, NEW index \in Overlaid(old, work[w].index)
      PROVE  index \in Index /\ DOMAIN index \subseteq DOMAIN files
  BY <1>2, <1>7, NoPathsFacts DEF Overlaid
<1>8. /\ catalog' \in [exists : BOOLEAN, index : Index]
      /\ DOMAIN catalog'.index \subseteq DOMAIN files
  BY <1>6, <1>7 DEF WriteTmp
<1>9. /\ tmp' \in [exists : BOOLEAN, index : Index]
      /\ DOMAIN tmp'.index \subseteq DOMAIN files
  BY <1>6, <1>7 DEF WriteTmp
<1> QED
  BY <1>1, <1>3, <1>4, <1>5, <1>8, <1>9, ReadInv

LEMMA TailFacts ==
    ASSUME NEW S, NEW s \in Seq(S), s # << >>
    PROVE  Tail(s) \in Seq(S) /\ (Len(s) # 1 => Tail(s) # << >>)
<1>1. Tail(s) \in Seq(S) /\ Len(Tail(s)) = Len(s) - 1
  BY HeadTailProperties, Zenon
<1>2. ASSUME NEW t \in Seq(S), NEW n \in Nat, Len(t) = n - 1, n # 1 PROVE t # << >>
  BY <1>2, EmptySeq
<1>3. Len(s) \in Nat
  OBVIOUS
<1> QED
  BY <1>1, <1>2, <1>3

(***************************************************************************)
(* The rename changes the descriptors of all writers.                      *)
(***************************************************************************)
LEMMA RenameInv == ASSUME IInv, NEW w \in Writers, Rename(w) PROVE IInv'
<1>1. /\ Typed /\ StoreOK /\ work[w].pc = "rename"
      /\ UNCHANGED <<files, captures, crashes, torn>> /\ \A v \in Writers : WriterOK(v)
      /\ \A v \in Writers : work[v] \in Work
  BY DEF IInv, Rename, Typed
<1>2. CASE tmp.exists
  <2> DEFINE d(v) == [work[v] EXCEPT !.fd = Renamed(@)]
             c == [work[w] EXCEPT !.pc = "ensure", !.todo = Tail(@)]
  <2>1. /\ catalog' = tmp /\ tmp' = [exists |-> FALSE, index |-> NoPaths]
        /\ work' = [v \in Writers |->
                      IF v # w THEN d(v) ELSE IF Len(work[w].todo) = 1 THEN NoWork ELSE c]
        /\ acked' = IF Len(work[w].todo) > 1 THEN acked
                    ELSE acked \cup {[page |-> work[w].page, id |-> work[w].id, at |-> work[w].at,
                                      layers |-> Range(work[w].layers)]}
    BY <1>2 DEF Rename
  <2>2. ASSUME NEW v \in Writers
        PROVE  /\ d(v) \in Work /\ d(v).pc = work[v].pc /\ d(v).page = work[v].page
               /\ d(v).id = work[v].id /\ d(v).todo = work[v].todo /\ d(v).entry = work[v].entry
               /\ d(v).path = work[v].path /\ d(v).body = work[v].body
               /\ d(v).index = work[v].index
    <3>1. Renamed(work[v].fd) \in {"none", "tmp", "catalog"}
      BY <1>1 DEF Work, Renamed
    <3> QED
      BY <1>1, <3>1 DEF Work
  <2>3. work[w].todo \in Seq(Layers) /\ work[w].todo # << >>
    BY <1>1 DEF Work, WriterOK
  <2>4. /\ Len(work[w].todo) # 1 => Tail(work[w].todo) # << >>
        /\ Tail(work[w].todo) \in Seq(Layers)
    BY <2>3, TailFacts
  <2>5. /\ c \in Work /\ c.pc = "ensure" /\ c.page = work[w].page /\ c.id = work[w].id
        /\ c.todo = Tail(work[w].todo) /\ c.index = work[w].index
    BY ZenonT(60), <1>1, <2>4 DEF Work, Pcs
  <2> HIDE DEF d, c
  <2>6. work' \in [Writers -> Work]
    BY <2>1, <2>2, <2>5, NoWorkType
  <2>7. acked' \subseteq [page : Pages, id : Ids, at : Nat, layers : SUBSET Layers]
    <3>1. work[w].page \in Pages /\ work[w].id \in Ids /\ work[w].at \in Nat
      BY <1>1 DEF WriterOK, Work
    <3>2. Range(work[w].layers) \in SUBSET Layers
      BY <1>1 DEF Work, Range
    <3> QED
      BY <1>1, <2>1, <3>1, <3>2 DEF Typed
  <2>8. Typed'
    BY <1>1, <2>1, <2>6, <2>7, NoPathsFacts DEF Typed
  <2>9. StoreOK'
    BY <1>1, <2>1, NoPathsFacts DEF StoreOK
  <2>10. ASSUME NEW v \in Writers PROVE WriterOK(v)'
    <3>1. CASE v # w
      <4>1. work'[v] = d(v)
        BY <2>1, <3>1
      <4> QED
        BY <1>1, <2>2, <4>1, OtherWriter
    <3>2. CASE v = w /\ Len(work[w].todo) = 1
      <4>1. work'[v] = NoWork
        BY <2>1, <3>2
      <4> QED
        BY <4>1, NoPathsFacts DEF WriterOK, NoWork, Writing
    <3>3. CASE v = w /\ Len(work[w].todo) # 1
      <4>1. work'[v] = c
        BY <2>1, <3>3
      <4> QED
        BY <1>1, <2>4, <2>5, <3>3, <4>1 DEF WriterOK, Writing
    <3> QED
      BY <3>1, <3>2, <3>3
  <2> QED
    BY <2>8, <2>9, <2>10 DEF IInv
<1>3. CASE ~tmp.exists
  <2>1. work' = [work EXCEPT ![w] = NoWork] /\ UNCHANGED <<catalog, tmp, acked>>
    BY <1>3 DEF Rename
  <2>2. ASSUME work'[w] = NoWork PROVE WriterOK(w)'
    BY <2>2, NoPathsFacts DEF WriterOK, NoWork, Writing
  <2> QED
    BY <1>1, <2>1, <2>2, NoWorkType, ReadInv DEF Typed, StoreOK
<1> QED
  BY <1>2, <1>3

LEMMA FailInv == ASSUME IInv, NEW w \in Writers, Fail(w) PROVE IInv'
<1>1. /\ Typed /\ StoreOK /\ work' = [work EXCEPT ![w] = NoWork]
      /\ UNCHANGED <<files, catalog, tmp, acked, captures>>
  BY DEF IInv, Fail
<1>2. crashes' \in 0..MaxCrashes /\ torn' \in 0..MaxTorn
  BY <1>1, BoundsAssumption DEF Fail, Typed
<1>3. Typed'
  BY <1>1, <1>2, NoWorkType DEF Typed
<1>4. StoreOK'
  BY <1>1 DEF StoreOK
<1>5. work'[w] = NoWork /\ \A v \in Writers : v # w => work'[v] = work[v]
  BY <1>1 DEF Typed
<1>6. WriterOK(w)'
  BY <1>5, NoPathsFacts DEF WriterOK, NoWork, Writing
<1> QED
  BY <1>1, <1>3, <1>4, <1>5, <1>6, Assemble

LEMMA StepInv == ASSUME IInv, [Next]_vars PROVE IInv'
<1>1. CASE UNCHANGED vars
  BY <1>1 DEF vars, IInv, Typed, StoreOK, WriterOK, Layer
<1>2. ASSUME NEW w \in Writers, NEW page \in Pages, NEW id \in Ids, NEW state \in States,
             Capture(w, page, id, state)
      PROVE  IInv'
  BY <1>2, CaptureInv
<1>3. ASSUME NEW w \in Writers, Step(w) PROVE IInv'
  BY <1>3, EnsureInv, InitCatalogInv, ReadLatestInv, ReadBodyInv, OpenShardInv, FillShardInv,
     IndexShardInv, OpenTmpInv, WriteTmpInv, RenameInv DEF Step
<1>4. ASSUME NEW w \in Writers, Fail(w) PROVE IInv'
  BY <1>4, FailInv
<1> QED
  BY <1>1, <1>2, <1>3, <1>4 DEF Next

-----------------------------------------------------------------------------
(***************************************************************************)
(* The results.                                                            *)
(***************************************************************************)
THEOREM Invariance == Spec => []IInv
<1>1. Init => IInv
  BY InitInv
<1>2. IInv /\ [Next]_vars => IInv'
  BY StepInv
<1> QED
  BY <1>1, <1>2, PTL DEF Spec

(***************************************************************************)
(* The state keeps its types; a briefing quotes texts, never briefings.    *)
(***************************************************************************)
THEOREM TypeCorrect == Spec => []TypeOK
<1>1. IInv => TypeOK
  <2> SUFFICES ASSUME IInv PROVE TypeOK
    OBVIOUS
  <2>1. Typed
    BY DEF IInv
  <2>2. ASSUME NEW f \in Index PROVE IsIndex(f)
    BY IndexFacts DEF IsIndex
  <2>3. DOMAIN files \subseteq Path /\ \A p \in DOMAIN files : files[p] \in Seq(Entry)
    BY <2>1, ShardFacts DEF Typed
  <2>4. \A w \in Writers : work[w] \in Work
    BY <2>1 DEF Typed
  <2>5. \A w \in Writers : IsIndex(work[w].index)
    BY <2>2, <2>4 DEF Work
  <2>6. /\ IsIndex(catalog.index) /\ IsIndex(tmp.index)
        /\ {catalog.exists, tmp.exists} \subseteq BOOLEAN
    BY <2>1, <2>2 DEF Typed
  <2> QED
    BY <2>1, <2>3, <2>4, <2>5, <2>6 DEF Typed, TypeOK, Work
<1> QED
  BY <1>1, Invariance, PTL

(***************************************************************************)
(* However writers overlap and wherever they fail, the catalog never names *)
(* a shard that was not written.                                           *)
(***************************************************************************)
THEOREM CatalogIsBacked == Spec => []CatalogBacked
<1>1. IInv => CatalogBacked
  BY DEF IInv, StoreOK, CatalogBacked
<1> QED
  BY <1>1, Invariance, PTL

-----------------------------------------------------------------------------
Within(p, body) ==
    /\ Len(body) <= MaxEntries
    /\ (\E i \in DOMAIN body : body[i].id \in Heavy) => Len(body) = 1
    /\ p.layer # "raw" => \A i, j \in DOMAIN body : body[i].id = body[j].id => i = j

(***************************************************************************)
(* Every shard, and the content about to be written, is within the limits; *)
(* a shard that is being filled is empty.                                  *)
(***************************************************************************)
SInv(w) ==
    /\ \A p \in DOMAIN files : Within(p, files[p])
    /\ work[w].pc \in {"open", "fill"} => Within(work[w].path, work[w].body)
    /\ work[w].pc = "fill" => files[work[w].path] = << >>

-----------------------------------------------------------------------------
(***************************************************************************)
(* Adding an entry keeps a content within the limits, if it passes none or *)
(* only replaces an entry.                                                 *)
(***************************************************************************)
LEMMA ContentWithin ==
    ASSUME NEW p \in Path, NEW body \in Seq(Entry), NEW e \in Entry, Within(p, body),
           NEW next, next = IF p.layer = "raw" THEN Append(body, e) ELSE Upsert(body, e),
           Len(next) = Len(body) \/ ~Exceeds(next)
    PROVE  Within(p, next)
<1>1. next \in Seq(Entry)
  BY UpsertFacts
<1>2. CASE Len(next) = Len(body)
  <2>1. p.layer # "raw" /\ next = Upsert(body, e)
    BY <1>2
  <2>2. DOMAIN next = DOMAIN body /\ \A i \in DOMAIN body : next[i].id = body[i].id
    <3>1. DOMAIN next = DOMAIN body
      BY <1>1, <1>2
    <3>2. \A i \in DOMAIN body : Upsert(body, e)[i].id = body[i].id
      BY UpsertFacts
    <3> QED
      BY <2>1, <3>1, <3>2
  <2>3. /\ (\E i \in DOMAIN next : next[i].id \in Heavy) => Len(next) = 1
        /\ Len(next) <= MaxEntries
    BY <1>2, <2>2 DEF Within
  <2>4. \A i, j \in DOMAIN next : next[i].id = next[j].id => i = j
    BY <2>1, <2>2 DEF Within
  <2> QED
    BY <2>3, <2>4 DEF Within
<1>3. CASE Len(next) # Len(body)
  <2>1. next = Append(body, e) /\ (p.layer # "raw" => \A i \in DOMAIN body : body[i].id # e.id)
    <3>1. \/ Len(Upsert(body, e)) = Len(body)
          \/ Upsert(body, e) = Append(body, e) /\ \A i \in DOMAIN body : body[i].id # e.id
      BY ZenonT(60), UpsertFacts
    <3>2. CASE p.layer = "raw"
      BY <3>2
    <3>3. CASE p.layer # "raw"
      <4>1. next = Upsert(body, e)
        BY <3>3
      <4> QED BY <1>3, <3>1, <4>1
    <3> QED BY <3>2, <3>3
  <2>2. /\ Len(next) = Len(body) + 1 /\ next[Len(next)] = e
        /\ \A i \in DOMAIN next : i # Len(next) => i \in DOMAIN body /\ next[i] = body[i]
    BY <2>1
  <2>3. Len(next) <= MaxEntries /\ \A i \in DOMAIN next : next[i].id \notin Heavy
    BY <1>1, <1>3, LimitAssumption DEF Exceeds, Range
  <2>4. ASSUME p.layer # "raw", NEW i \in DOMAIN next, NEW j \in DOMAIN next, next[i].id = next[j].id
        PROVE  i = j
    BY <2>1, <2>2, <2>4 DEF Within
  <2> QED
    BY <2>3, <2>4 DEF Within
<1> QED
  BY <1>2, <1>3

LEMMA EntryWithin == ASSUME NEW p, NEW e \in Entry PROVE Within(p, <<e>>)
BY LimitAssumption DEF Within

LEMMA EmptyWithin == ASSUME NEW p PROVE Within(p, << >>)
BY EmptyFacts, LimitAssumption DEF Within

LEMMA SInit == ASSUME NEW w \in Writers, Init PROVE SInv(w)
BY NoPathsFacts DEF Init, SInv, NoWork

\* A shard becomes x, which is within the limits.
LEMMA PutWithin ==
    ASSUME files \in Shards, \A p \in DOMAIN files : Within(p, files[p]),
           NEW path \in Path, NEW x \in Seq(Entry), Within(path, x), files' = Put(files, path, x)
    PROVE  files'[path] = x /\ \A p \in DOMAIN files' : Within(p, files'[p])
<1>1. /\ DOMAIN files' = DOMAIN files \cup {path} /\ files'[path] = x
      /\ \A p \in DOMAIN files : p # path => files'[p] = files[p]
  BY PutShard
<1> QED
  BY <1>1

LEMMA SReadBody ==
    ASSUME NEW w \in Writers, IInv, SInv(w), ReadBody(w) PROVE SInv(w)'
<1> DEFINE e == work[w].entry
<1>1. /\ Typed /\ StoreOK /\ e \in Entry /\ files' = files /\ work \in [Writers -> Work]
  BY DEF IInv, Typed, WriterOK, ReadBody
<1>2. PICK n \in Nat :
        /\ Shard(w, n) \in Path /\ Shard(w, n).layer = Layer(w)
        /\ \E body \in {<<e>>, Content(w)} :
             /\ work' = [work EXCEPT ![w] = [work[w] EXCEPT !.pc = "open", !.path = Shard(w, n),
                                                            !.body = body]]
             /\ body # <<e>> => n = work[w].latest /\ (Len(body) = Len(Held(w)) \/ ~Exceeds(body))
  BY ReadBodyFacts
<1>3. PICK body \in {<<e>>, Content(w)} :
        /\ work' = [work EXCEPT ![w] = [work[w] EXCEPT !.pc = "open", !.path = Shard(w, n),
                                                       !.body = body]]
        /\ body # <<e>> => n = work[w].latest /\ (Len(body) = Len(Held(w)) \/ ~Exceeds(body))
  BY <1>2
<1>4. Within(Shard(w, n), body)
  <2>1. CASE body = <<e>>
    BY <1>1, <2>1, EntryWithin
  <2>2. CASE body # <<e>>
    <3>1. n = work[w].latest /\ body = Content(w) /\ (Len(body) = Len(Held(w)) \/ ~Exceeds(body))
      BY <1>3, <2>2
    <3>2. Held(w) \in Seq(Entry) /\ Within(Shard(w, n), Held(w))
      BY <1>1, <3>1, HeldType, EmptyWithin DEF SInv
    <3>3. body = IF Shard(w, n).layer = "raw" THEN Append(Held(w), e) ELSE Upsert(Held(w), e)
      BY <1>2, <3>1 DEF Content
    <3> QED
      BY <1>1, <1>2, <3>1, <3>2, <3>3, ContentWithin
  <2> QED
    BY <2>1, <2>2
<1>5. work'[w].pc = "open" /\ work'[w].path = Shard(w, n) /\ work'[w].body = body
  BY <1>1, <1>3 DEF Work
<1> QED
  BY <1>1, <1>4, <1>5 DEF SInv

LEMMA SOpenShard ==
    ASSUME NEW w \in Writers, IInv, SInv(w), OpenShard(w) PROVE SInv(w)'
<1>1. /\ files \in Shards /\ work \in [Writers -> Work] /\ work[w].path \in Path
      /\ Within(work[w].path, work[w].body)
  BY DEF IInv, Typed, WriterOK, Writing, OpenShard, SInv
<1>2. files' = Put(files, work[w].path, << >>) /\ work' = [work EXCEPT ![w].pc = "fill"]
  BY DEF OpenShard, AbsPath, Goto
<1>3. files'[work[w].path] = << >> /\ \A p \in DOMAIN files' : Within(p, files'[p])
  BY <1>1, <1>2, EmptyFacts, EmptyWithin, PutWithin DEF SInv
<1>4. work'[w].pc = "fill" /\ work'[w].path = work[w].path /\ work'[w].body = work[w].body
  BY <1>1, <1>2 DEF Work
<1> QED
  BY <1>1, <1>3, <1>4 DEF SInv

LEMMA SFillShard ==
    ASSUME NEW w \in Writers, IInv, SInv(w), FillShard(w) PROVE SInv(w)'
<1> DEFINE path == work[w].path
           body == work[w].body
<1>1. /\ files \in Shards /\ work \in [Writers -> Work] /\ path \in Path /\ body \in Seq(Entry)
      /\ Within(path, body) /\ files[path] = << >>
  BY DEF IInv, Typed, Work, WriterOK, Writing, FillShard, SInv
<1>2. PICK k \in 1..Len(files[path]) + 1 :
        files' = Put(files, path, body \o SubSeq(files[path], k, Len(files[path])))
  BY DEF FillShard, AbsPath
<1>3. k = 1 /\ SubSeq(files[path], k, Len(files[path])) = << >>
  <2>1. k = 1
    BY <1>1, <1>2, EmptyFacts
  <2>2. SubSeq(<< >>, 1, 0) = << >>
    OBVIOUS
  <2> QED
    BY <1>1, <2>1, <2>2, EmptyFacts
<1>4. body \o << >> = body
  BY <1>1, ConcatEmptySeq
<1>5. files' = Put(files, path, body)
  BY <1>2, <1>3, <1>4
<1> HIDE DEF path, body
<1>6. \A p \in DOMAIN files' : Within(p, files'[p])
  BY <1>1, <1>5, PutWithin DEF SInv
<1>7. work'[w].pc = "index"
  BY <1>1 DEF FillShard, Goto, Work
<1> QED
  BY <1>6, <1>7 DEF SInv

LEMMA SStep ==
    ASSUME NEW w, Writers = {w}, IInv, SInv(w), [Next]_vars PROVE SInv(w)'
<1>0. w \in Writers /\ work \in [Writers -> Work]
  BY DEF IInv, Typed
<1>1. ASSUME files' = files, work'[w].pc \notin {"open", "fill"} PROVE SInv(w)'
  BY <1>1 DEF SInv
<1>2. CASE UNCHANGED vars
  BY <1>2 DEF vars, SInv
<1>3. CASE \E page \in Pages, id \in Ids, state \in States : Capture(w, page, id, state)
  BY <1>0, <1>1, <1>3 DEF Capture, NoWork
<1>4. CASE Ensure(w)
  BY <1>0, <1>1, <1>4 DEF Ensure, Work
<1>5. CASE InitCatalog(w)
  BY <1>0, <1>1, <1>5 DEF InitCatalog, Goto, Work
<1>6. CASE ReadLatest(w)
  BY <1>0, <1>1, <1>6 DEF ReadLatest, Work
<1>7. CASE IndexShard(w)
  BY <1>0, <1>1, <1>7 DEF IndexShard, Work
<1>8. CASE OpenTmp(w)
  BY <1>0, <1>1, <1>8 DEF OpenTmp, Work
<1>9. CASE WriteTmp(w)
  BY <1>0, <1>1, <1>9 DEF WriteTmp, Work
<1>10. CASE Rename(w)
  <2>1. files' = files /\ work'[w] \in {NoWork, [work[w] EXCEPT !.pc = "ensure", !.todo = Tail(@)]}
    BY <1>0, <1>10 DEF Rename
  <2>2. work'[w].pc \in {"idle", "ensure"}
    <3>1. NoWork.pc = "idle"
      BY DEF NoWork
    <3>2. [work[w] EXCEPT !.pc = "ensure", !.todo = Tail(@)].pc = "ensure"
      BY <1>0 DEF Work
    <3> QED
      BY <2>1, <3>1, <3>2
  <2> QED
    BY <1>1, <2>1, <2>2
<1>11. CASE Fail(w)
  BY <1>0, <1>1, <1>11 DEF Fail, NoWork
<1> QED
  BY <1>0, <1>2, <1>3, <1>4, <1>5, <1>6, <1>7, <1>8, <1>9, <1>10, <1>11,
     SReadBody, SOpenShard, SFillShard DEF Next, Step

-----------------------------------------------------------------------------
(***************************************************************************)
(* The results.                                                            *)
(***************************************************************************)
LEMMA SInvariance == ASSUME NEW w, Writers = {w} PROVE Spec => []SInv(w)
<1>1. Init => SInv(w)
  BY SInit
<1>2. IInv /\ SInv(w) /\ [Next]_vars => SInv(w)'
  BY SStep
<1> QED
  BY <1>1, <1>2, Invariance, PTL DEF Spec

(***************************************************************************)
(* With one writer no shard passes the limits, except by one text that     *)
(* does so on its own, wherever captures fail.                             *)
(***************************************************************************)
THEOREM LimitsAreKept == ASSUME NEW w, Writers = {w} PROVE Spec => []LimitsKept
<1>1. SInv(w) => LimitsKept
  <2> SUFFICES ASSUME SInv(w), NEW p \in DOMAIN files
               PROVE  /\ Len(files[p]) <= MaxEntries
                      /\ (\E e \in Range(files[p]) : e.id \in Heavy) => Len(files[p]) = 1
    BY DEF LimitsKept
  <2>1. Within(p, files[p])
    BY DEF SInv
  <2> QED
    BY <2>1 DEF Within, Range
<1> QED
  BY <1>1, SInvariance, PTL

(***************************************************************************)
(* Nor is a text twice in one shard of drafts, live entries or briefings.  *)
(***************************************************************************)
THEOREM IdsAreOnce == ASSUME NEW w, Writers = {w} PROVE Spec => []OncePerShard
<1>1. SInv(w) => OncePerShard
  BY DEF SInv, OncePerShard, Within
<1> QED
  BY <1>1, SInvariance, PTL

-----------------------------------------------------------------------------
(***************************************************************************)
(* What each step of a writer does to its own record.                      *)
(***************************************************************************)
SameJob(c, d) ==
    /\ c.page = d.page /\ c.id = d.id /\ c.at = d.at
    /\ c.layers = d.layers /\ c.todo = d.todo

SameShard(c, d) == SameJob(c, d) /\ c.entry = d.entry /\ c.path = d.path /\ c.body = d.body

LEMMA CaptureDoes ==
    ASSUME IInv, NEW w \in Writers, NEW page \in Pages, NEW id \in Ids, NEW state \in States,
           Capture(w, page, id, state)
    PROVE  /\ work[w].pc = "idle" /\ work'[w].pc = "ensure"
           /\ work'[w].page = page /\ work'[w].id = id /\ work'[w].at = captures'
           /\ work'[w].layers = Writes(state) /\ work'[w].todo = Writes(state)
           /\ captures' = captures + 1
           /\ UNCHANGED <<files, catalog, tmp, acked, crashes, torn>>
<1>1. work \in [Writers -> Work]
  BY DEF IInv, Typed
<1>2. work'[w] = [NoWork EXCEPT !.pc = "ensure", !.page = page, !.id = id, !.at = captures + 1,
                                !.layers = Writes(state), !.todo = Writes(state)]
  BY <1>1 DEF Capture
<1>3. /\ work'[w].pc = "ensure" /\ work'[w].page = page /\ work'[w].id = id
      /\ work'[w].at = captures + 1
      /\ work'[w].layers = Writes(state) /\ work'[w].todo = Writes(state)
  <2> DEFINE c1 == [NoWork EXCEPT !.pc = "ensure", !.page = page, !.id = id]
             c2 == [c1 EXCEPT !.at = captures + 1, !.layers = Writes(state), !.todo = Writes(state)]
  <2>1. /\ c1.pc = "ensure" /\ c1.page = page /\ c1.id = id /\ DOMAIN c1 = DOMAIN NoWork
        /\ {"at", "layers", "todo"} \subseteq DOMAIN NoWork
    BY DEF NoWork
  <2>2. c2 = work'[w]
    BY <1>2
  <2> HIDE DEF c1
  <2>3. /\ c2.pc = c1.pc /\ c2.page = c1.page /\ c2.id = c1.id /\ c2.at = captures + 1
        /\ c2.layers = Writes(state) /\ c2.todo = Writes(state)
    BY <2>1
  <2> QED
    BY <2>1, <2>2, <2>3
<1> QED
  BY <1>3 DEF Capture

LEMMA EnsureDoes ==
    ASSUME IInv, NEW w \in Writers, Ensure(w)
    PROVE  /\ work[w].pc = "ensure"
           /\ work'[w].pc = IF catalog.exists THEN "latest" ELSE "init"
           /\ work'[w].entry = EntryFor(w) /\ SameJob(work[w], work'[w])
           /\ UNCHANGED <<files, catalog, tmp, acked, captures, crashes, torn>>
<1>1. work \in [Writers -> Work] /\ work[w] \in Work
  BY DEF IInv, Typed
<1>2. work'[w] = [work[w] EXCEPT !.pc = IF catalog.exists THEN "latest" ELSE "init",
                                 !.entry = EntryFor(w)]
  BY <1>1 DEF Ensure
<1> QED
  BY <1>1, <1>2 DEF Ensure, Work, SameJob

LEMMA InitCatalogDoes ==
    ASSUME IInv, NEW w \in Writers, InitCatalog(w)
    PROVE  /\ work[w].pc = "init" /\ work'[w].pc = "latest" /\ SameShard(work[w], work'[w])
           /\ catalog' = [exists |-> TRUE, index |-> NoPaths]
           /\ UNCHANGED <<files, tmp, acked, captures, crashes, torn>>
<1>1. work \in [Writers -> Work] /\ work[w] \in Work
  BY DEF IInv, Typed
<1> QED
  BY <1>1 DEF InitCatalog, Goto, Work, SameShard, SameJob

LEMMA ReadLatestDoes ==
    ASSUME IInv, NEW w \in Writers, ReadLatest(w)
    PROVE  /\ work[w].pc = "latest" /\ work'[w].pc = "body" /\ SameShard(work[w], work'[w])
           /\ work'[w].latest = LatestSeq(Layer(w), work[w].page)
           /\ UNCHANGED <<files, catalog, tmp, acked, captures, crashes, torn>>
<1>1. work \in [Writers -> Work] /\ work[w] \in Work
  BY DEF IInv, Typed
<1> QED
  BY <1>1 DEF ReadLatest, Work, SameShard, SameJob

\* The entry goes into the shard that is held, or the next one on its own.
LEMMA ReadBodyDoes ==
    ASSUME IInv, NEW w \in Writers, ReadBody(w)
    PROVE  /\ work[w].pc = "body" /\ work'[w].pc = "open" /\ SameJob(work[w], work'[w])
           /\ work'[w].entry = work[w].entry
           /\ \/ /\ work'[w].path = Shard(w, work[w].latest) /\ work'[w].body = Content(w)
              \/ /\ work'[w].path = Shard(w, work[w].latest + 1) /\ work'[w].body = <<work[w].entry>>
                 /\ ~(Len(Content(w)) = Len(Held(w))) /\ Exceeds(Content(w))
           /\ UNCHANGED <<files, catalog, tmp, acked, captures, crashes, torn>>
<1> DEFINE e == work[w].entry
           next == Content(w)
           over == ~(Len(next) = Len(Held(w))) /\ Exceeds(next)
           n == work[w].latest + IF over THEN 1 ELSE 0
           body == IF over THEN <<e>> ELSE next
<1>1. work \in [Writers -> Work] /\ work[w] \in Work
  BY DEF IInv, Typed
<1>2. work' = [work EXCEPT ![w].pc = "open", ![w].path = Shard(w, n), ![w].body = body]
  BY DEF ReadBody, Content
<1>3. \/ n = work[w].latest /\ body = next
      \/ n = work[w].latest + 1 /\ body = <<e>> /\ over
  BY <1>1 DEF Work
<1> HIDE DEF n, body
<1>4. /\ work'[w].pc = "open" /\ work'[w].path = Shard(w, n) /\ work'[w].body = body
      /\ SameJob(work[w], work'[w]) /\ work'[w].entry = e
  BY <1>1, <1>2 DEF Work, SameJob
<1>5. /\ work[w].pc = "body"
      /\ UNCHANGED <<files, catalog, tmp, acked, captures, crashes, torn>>
  BY DEF ReadBody
<1> HIDE DEF e, next
<1> QED
  BY <1>3, <1>4, <1>5 DEF e, next

LEMMA OpenShardDoes ==
    ASSUME IInv, NEW w \in Writers, OpenShard(w)
    PROVE  /\ work[w].pc = "open" /\ work'[w].pc = "fill" /\ SameShard(work[w], work'[w])
           /\ files' = Put(files, work[w].path, << >>)
           /\ UNCHANGED <<catalog, tmp, acked, captures, crashes, torn>>
<1>1. work \in [Writers -> Work] /\ work[w] \in Work
  BY DEF IInv, Typed
<1> QED
  BY <1>1 DEF OpenShard, AbsPath, Goto, Work, SameShard, SameJob

\* With one writer nothing is left of what the shard had before.
LEMMA FillShardDoes ==
    ASSUME IInv, NEW w \in Writers, SInv(w), FillShard(w)
    PROVE  /\ work[w].pc = "fill" /\ work'[w].pc = "index" /\ SameShard(work[w], work'[w])
           /\ files' = Put(files, work[w].path, work[w].body)
           /\ UNCHANGED <<catalog, tmp, acked, captures, crashes, torn>>
<1>1. work \in [Writers -> Work] /\ work[w] \in Work /\ files[work[w].path] = << >>
  BY DEF IInv, Typed, SInv, FillShard
<1>2. PICK k \in 1..Len(<< >>) + 1 :
        files' = Put(files, work[w].path, work[w].body \o SubSeq(<< >>, k, Len(<< >>)))
  BY <1>1 DEF FillShard, AbsPath
<1>3. k = 1 /\ SubSeq(<< >>, 1, 0) = << >>
  BY <1>2, EmptyFacts
<1>4. work[w].body \o << >> = work[w].body
  BY <1>1, ConcatEmptySeq DEF Work
<1>5. files' = Put(files, work[w].path, work[w].body)
  BY <1>2, <1>3, <1>4, EmptyFacts
<1> QED
  BY <1>1, <1>5 DEF FillShard, Goto, Work, SameShard, SameJob

LEMMA IndexShardDoes ==
    ASSUME IInv, NEW w \in Writers, IndexShard(w)
    PROVE  /\ work[w].pc = "index" /\ work'[w].pc = "tmp" /\ SameShard(work[w], work'[w])
           /\ work'[w].index = Put(catalog.index, work[w].path, Len(work[w].body))
           /\ UNCHANGED <<files, catalog, tmp, acked, captures, crashes, torn>>
<1>1. work \in [Writers -> Work] /\ work[w] \in Work
  BY DEF IInv, Typed
<1> QED
  BY <1>1 DEF IndexShard, EntryCount, Work, SameShard, SameJob

LEMMA OpenTmpDoes ==
    ASSUME IInv, NEW w \in Writers, OpenTmp(w)
    PROVE  /\ work[w].pc = "tmp" /\ work'[w].pc = "write" /\ SameShard(work[w], work'[w])
           /\ work'[w].index = work[w].index /\ work'[w].fd = "tmp"
           /\ tmp' = [exists |-> TRUE, index |-> NoPaths]
           /\ UNCHANGED <<files, catalog, acked, captures, crashes, torn>>
<1>1. work \in [Writers -> Work] /\ work[w] \in Work
  BY DEF IInv, Typed
<1> QED
  BY <1>1 DEF OpenTmp, Work, SameShard, SameJob

LEMMA WriteTmpDoes ==
    ASSUME IInv, NEW w \in Writers, WriteTmp(w), work[w].fd = "tmp",
           tmp = [exists |-> TRUE, index |-> NoPaths]
    PROVE  /\ work[w].pc = "write" /\ work'[w].pc = "rename" /\ SameShard(work[w], work'[w])
           /\ work'[w].index = work[w].index
           /\ tmp' = [exists |-> TRUE, index |-> work[w].index]
           /\ UNCHANGED <<files, catalog, acked, captures, crashes, torn>>
<1>1. work \in [Writers -> Work] /\ work[w] \in Work
  BY DEF IInv, Typed
<1>2. Overlaid(tmp.index, work[w].index) = {work[w].index}
  BY NoPathsFacts DEF Overlaid
<1>3. tmp' = [exists |-> TRUE, index |-> work[w].index] /\ UNCHANGED catalog
  BY <1>2 DEF WriteTmp
<1> QED
  BY <1>1, <1>3 DEF WriteTmp, Work, SameShard, SameJob

LEMMA RenameDoes ==
    ASSUME IInv, NEW w \in Writers, Rename(w), tmp.exists
    PROVE  /\ work[w].pc = "rename" /\ catalog' = tmp
           /\ \/ /\ Len(work[w].todo) = 1 /\ work'[w] = NoWork
                 /\ acked' = acked \cup {[page |-> work[w].page, id |-> work[w].id, at |-> work[w].at,
                                          layers |-> Range(work[w].layers)]}
              \/ /\ Len(work[w].todo) # 1 /\ acked' = acked /\ work'[w].pc = "ensure"
                 /\ work'[w].page = work[w].page /\ work'[w].id = work[w].id
                 /\ work'[w].at = work[w].at /\ work'[w].layers = work[w].layers
                 /\ work'[w].todo = Tail(work[w].todo)
           /\ UNCHANGED <<files, captures, crashes, torn>>
<1>1. /\ work \in [Writers -> Work] /\ work[w] \in Work /\ work[w].pc = "rename"
      /\ work[w].todo \in Seq(Layers) /\ work[w].todo # << >>
  BY DEF IInv, Typed, Work, WriterOK, Rename
<1>2. Len(work[w].todo) = 1 \/ Len(work[w].todo) > 1
  <2>1. Len(work[w].todo) \in Nat /\ Len(work[w].todo) # 0
    BY <1>1, EmptySeq
  <2>2. \A n \in Nat : n # 0 => n = 1 \/ n > 1
    OBVIOUS
  <2> QED
    BY <2>1, <2>2
<1>3. /\ catalog' = tmp /\ UNCHANGED <<files, captures, crashes, torn>>
      /\ work'[w] = IF Len(work[w].todo) = 1 THEN NoWork
                    ELSE [work[w] EXCEPT !.pc = "ensure", !.todo = Tail(@)]
      /\ acked' = IF Len(work[w].todo) > 1 THEN acked
                  ELSE acked \cup {[page |-> work[w].page, id |-> work[w].id, at |-> work[w].at,
                                    layers |-> Range(work[w].layers)]}
  BY DEF Rename
<1>4. CASE Len(work[w].todo) = 1
  BY <1>1, <1>3, <1>4
<1>5. CASE Len(work[w].todo) > 1
  <2>0. Len(work[w].todo) # 1
    <3>1. ASSUME NEW n, n = 1 PROVE ~(n > 1)
      BY <3>1
    <3> QED
      BY <1>5, <3>1
  <2>1. work'[w] = [work[w] EXCEPT !.pc = "ensure", !.todo = Tail(@)]
    BY <1>3, <2>0
  <2>2. /\ work'[w].pc = "ensure"
        /\ work'[w].page = work[w].page /\ work'[w].id = work[w].id
        /\ work'[w].at = work[w].at /\ work'[w].layers = work[w].layers
        /\ work'[w].todo = Tail(work[w].todo)
    BY <1>1, <2>1 DEF Work
  <2> QED
    BY <1>1, <1>3, <1>5, <2>0, <2>2
<1> QED
  BY <1>2, <1>4, <1>5

LEMMA FailDoes ==
    ASSUME IInv, NEW w \in Writers, Fail(w)
    PROVE  /\ work[w].pc # "idle" /\ work'[w] = NoWork /\ work'[w].pc = "idle"
           /\ crashes' + torn' # 0
           /\ work[w].pc = "fill" => torn' # 0
           /\ work[w].pc # "fill" => torn' = torn
           /\ UNCHANGED <<files, catalog, tmp, acked, captures>>
<1>1. work \in [Writers -> Work] /\ crashes \in Nat /\ torn \in Nat
  BY BoundsAssumption DEF IInv, Typed
<1>2. work'[w] = NoWork
  BY <1>1 DEF Fail
<1> QED
  BY <1>1, <1>2 DEF Fail, NoWork

LEMMA OneSteps ==
    ASSUME NEW w, Writers = {w}, [Next]_vars
    PROVE  \/ UNCHANGED vars
           \/ \E page \in Pages, id \in Ids, state \in States : Capture(w, page, id, state)
           \/ Step(w) \/ Fail(w)
BY DEF Next

-----------------------------------------------------------------------------
(***************************************************************************)
(* One writer and the catalog: there are no shards before there is a       *)
(* catalog, what the writer found in it still holds when it replaces it,   *)
(* and the temporary file is its own.                                      *)
(***************************************************************************)
CatalogOK(w) ==
    LET c == work[w] IN
    /\ ~catalog.exists => DOMAIN files = {}
    /\ c.pc = "init" => ~catalog.exists
    /\ c.pc \notin {"idle", "ensure", "init"} => catalog.exists
    /\ c.pc \in {"tmp", "write", "rename"} => c.index = Put(catalog.index, c.path, Len(c.body))
    /\ c.pc = "write" => c.fd = "tmp" /\ tmp = [exists |-> TRUE, index |-> NoPaths]
    /\ c.pc = "rename" => tmp = [exists |-> TRUE, index |-> c.index]

LEMMA CatalogInit == ASSUME NEW w \in Writers, Init PROVE CatalogOK(w)
BY NoPathsFacts DEF Init, CatalogOK, NoWork

LEMMA CatalogStep ==
    ASSUME NEW w, Writers = {w}, IInv, SInv(w), CatalogOK(w), [Next]_vars
    PROVE  CatalogOK(w)'
<1>0. w \in Writers
  OBVIOUS
<1>1. CASE UNCHANGED vars
  BY <1>1 DEF vars, CatalogOK
<1>2. CASE \E page \in Pages, id \in Ids, state \in States : Capture(w, page, id, state)
  BY <1>0, <1>2, CaptureDoes DEF CatalogOK
<1>3. CASE Ensure(w)
  BY <1>0, <1>3, EnsureDoes DEF CatalogOK
<1>4. CASE InitCatalog(w)
  BY <1>0, <1>4, InitCatalogDoes DEF CatalogOK
<1>5. CASE ReadLatest(w)
  BY <1>0, <1>5, ReadLatestDoes DEF CatalogOK
<1>6. CASE ReadBody(w)
  BY <1>0, <1>6, ReadBodyDoes DEF CatalogOK
<1>7. CASE OpenShard(w)
  BY <1>0, <1>7, OpenShardDoes DEF CatalogOK
<1>8. CASE FillShard(w)
  BY <1>0, <1>8, FillShardDoes DEF CatalogOK
<1>9. CASE IndexShard(w)
  BY <1>0, <1>9, IndexShardDoes DEF CatalogOK, SameShard
<1>10. CASE OpenTmp(w)
  BY <1>0, <1>10, OpenTmpDoes DEF CatalogOK, SameShard
<1>11. CASE WriteTmp(w)
  <2>1. work[w].fd = "tmp" /\ tmp = [exists |-> TRUE, index |-> NoPaths]
    BY <1>11 DEF CatalogOK, WriteTmp
  <2> QED
    BY <1>0, <1>11, <2>1, WriteTmpDoes DEF CatalogOK, SameShard
<1>12. CASE Rename(w)
  <2>1. tmp.exists /\ catalog.exists
    BY <1>12 DEF CatalogOK, Rename
  <2>2. catalog' = tmp /\ files' = files /\ work'[w].pc \in {"idle", "ensure"}
    BY <1>0, <1>12, <2>1, RenameDoes DEF NoWork
  <2> QED
    BY <2>1, <2>2 DEF CatalogOK
<1>13. CASE Fail(w)
  BY <1>0, <1>13, FailDoes DEF CatalogOK
<1> QED
  BY <1>1, <1>2, <1>3, <1>4, <1>5, <1>6, <1>7, <1>8, <1>9, <1>10, <1>11, <1>12, <1>13, OneSteps
     DEF Step

-----------------------------------------------------------------------------
(***************************************************************************)
(* One writer and its shard: the capture is the last one, the content is   *)
(* of the page and layer, holds the entry and nothing newer, and is in the *)
(* shard once that is filled.                                              *)
(***************************************************************************)
Filled == {"index", "tmp", "write", "rename"}

Aged(body) == \A i \in DOMAIN body : body[i].at <= captures

ShardOK(w) ==
    LET c == work[w] IN
    /\ \A p \in DOMAIN files : Aged(files[p])
    /\ c.pc # "idle" => c.at = captures
    /\ c.pc = "body" => IsLatest(Layer(w), c.page, c.latest)
    /\ c.pc \notin {"idle", "ensure"} =>
         c.entry.at = c.at /\ c.entry.id = IF Layer(w) = "briefings" THEN BriefingId ELSE c.id
    /\ c.pc \in Writing =>
         /\ c.path.layer = Layer(w) /\ c.path.page = c.page
         /\ (\E j \in DOMAIN c.body : c.body[j] = c.entry) /\ Aged(c.body)
    /\ c.pc \in Filled => files[c.path] = c.body

LEMMA ContentFacts ==
    ASSUME Typed, StoreOK, NEW w \in Writers, work[w].entry \in Entry
    PROVE  /\ Content(w) \in Seq(Entry) /\ \E j \in DOMAIN Content(w) : Content(w)[j] = work[w].entry
           /\ \A j \in DOMAIN Content(w) :
                \/ Content(w)[j] = work[w].entry
                \/ j \in DOMAIN Held(w) /\ Content(w)[j] = Held(w)[j]
           /\ \A i \in DOMAIN Held(w) : i \in DOMAIN Content(w) /\
                \/ Content(w)[i] = Held(w)[i]
                \/ /\ Layer(w) # "raw" /\ Content(w)[i] = work[w].entry
                   /\ Held(w)[i].id = work[w].entry.id
<1> DEFINE e == work[w].entry
           held == Held(w)
<1>1. held \in Seq(Entry) /\ e \in Entry
  BY HeldType
<1>2. CASE Layer(w) = "raw" \/ ~(\E i \in DOMAIN held : held[i].id = e.id)
  <2>1. Content(w) = Append(held, e)
    BY <1>2 DEF Content, Upsert
  <2> HIDE DEF e, held
  <2>2. /\ Append(held, e) \in Seq(Entry) /\ Len(held) + 1 \in DOMAIN Append(held, e)
        /\ Append(held, e)[Len(held) + 1] = e
        /\ \A i \in DOMAIN held : i \in DOMAIN Append(held, e) /\ Append(held, e)[i] = held[i]
        /\ \A j \in DOMAIN Append(held, e) : j \in DOMAIN held \/ j = Len(held) + 1
    BY <1>1
  <2> QED
    BY <2>1, <2>2 DEF e, held
<1>3. CASE Layer(w) # "raw" /\ \E i \in DOMAIN held : held[i].id = e.id
  <2> DEFINE next == [i \in DOMAIN held |-> IF held[i].id = e.id THEN e ELSE held[i]]
  <2>1. Content(w) = next
    BY <1>3 DEF Content, Upsert
  <2> HIDE DEF e, held
  <2>2. next \in Seq(Entry) /\ DOMAIN next = DOMAIN held
    BY <1>1
  <2>3. \A i \in DOMAIN held : next[i] = held[i] \/ (next[i] = e /\ held[i].id = e.id)
    OBVIOUS
  <2>4. \E j \in DOMAIN next : next[j] = e
    BY <1>3 DEF e, held
  <2> HIDE DEF next
  <2> QED
    BY <1>3, <2>1, <2>2, <2>3, <2>4 DEF e, held
<1> QED
  BY <1>2, <1>3

LEMMA ShardOKInit == ASSUME NEW w \in Writers, Init PROVE ShardOK(w)
BY NoPathsFacts DEF Init, ShardOK, NoWork, Writing, Filled

\* A step that writes one shard.
LEMMA PutFiles ==
    ASSUME files \in Shards, NEW path \in Path, NEW x \in Seq(Entry), files' = Put(files, path, x)
    PROVE  /\ DOMAIN files' = DOMAIN files \cup {path} /\ files'[path] = x
           /\ \A p \in DOMAIN files : p # path => files'[p] = files[p]
BY PutShard

\* A step that leaves the shards and goes on with the same entry and content.
LEMMA ShardKept ==
    ASSUME NEW w \in Writers, ShardOK(w), files' = files, captures' = captures,
           SameShard(work[w], work'[w]), work[w].pc \notin {"idle", "ensure"},
           work'[w].pc \notin {"body", "idle"},
           work'[w].pc \in Writing => work[w].pc \in Writing,
           work'[w].pc \in Filled => work[w].pc \in Filled
    PROVE  ShardOK(w)'
BY DEF ShardOK, SameShard, SameJob, Layer, Aged

LEMMA ShardStep ==
    ASSUME NEW w, Writers = {w}, IInv, SInv(w), CatalogOK(w), ShardOK(w), [Next]_vars
    PROVE  ShardOK(w)'
<1>0. /\ w \in Writers /\ Typed /\ StoreOK /\ WriterOK(w) /\ captures \in Nat
      /\ files \in Shards /\ work[w] \in Work
  BY BoundsAssumption DEF IInv, Typed
<1>1. CASE UNCHANGED vars
  BY <1>1 DEF vars, ShardOK, Layer, IsLatest, ShardsOf, Aged
<1>2. CASE \E page \in Pages, id \in Ids, state \in States : Capture(w, page, id, state)
  <2>1. /\ work'[w].pc = "ensure" /\ work'[w].at = captures' /\ captures' = captures + 1
        /\ files' = files
    BY <1>0, <1>2, CaptureDoes
  <2>2. (\A p \in DOMAIN files : Aged(files[p]))'
    <3>1. ASSUME NEW p \in DOMAIN files, NEW i \in DOMAIN files[p]
          PROVE  files[p][i].at <= captures + 1
      <4>1. files[p] \in Seq(Entry) /\ files[p][i].at <= captures
        BY <1>0, ShardFacts DEF ShardOK, Aged
      <4>2. files[p][i] \in Entry
        BY <4>1
      <4>3. files[p][i].at \in Nat
        BY <4>2 DEF Entry
      <4> QED
        BY <1>0, <4>1, <4>3
    <3> QED
      BY <2>1, <3>1 DEF Aged
  <2> QED
    BY <2>1, <2>2 DEF ShardOK, Writing, Filled
<1>3. CASE Ensure(w)
  <2>1. /\ work[w].pc = "ensure" /\ work'[w].pc \in {"latest", "init"} /\ SameJob(work[w], work'[w])
        /\ work'[w].entry = EntryFor(w) /\ files' = files /\ captures' = captures
    BY <1>0, <1>3, EnsureDoes
  <2>2. /\ EntryFor(w).at = work[w].at
        /\ EntryFor(w).id = IF Layer(w) = "briefings" THEN BriefingId ELSE work[w].id
    BY DEF EntryFor
  <2> QED
    BY <2>1, <2>2 DEF ShardOK, SameJob, Layer, Writing, Filled, Aged
<1>4. CASE InitCatalog(w)
  BY <1>0, <1>4, InitCatalogDoes, ShardKept DEF Writing, Filled
<1>5. CASE ReadLatest(w)
  <2>1. /\ work[w].pc = "latest" /\ work'[w].pc = "body" /\ SameShard(work[w], work'[w])
        /\ work'[w].latest = LatestSeq(Layer(w), work[w].page)
        /\ UNCHANGED <<files, catalog, captures>>
    BY <1>0, <1>5, ReadLatestDoes
  <2>2. IsLatest(Layer(w), work[w].page, work'[w].latest)
    BY <1>0, <2>1, LayerType, LatestSeqType DEF WriterOK
  <2>3. ASSUME NEW n PROVE IsLatest(Layer(w), work[w].page, n) => IsLatest(Layer(w), work[w].page, n)'
    BY <2>1 DEF IsLatest, ShardsOf, SameShard, SameJob, Layer
  <2>4. IsLatest(Layer(w), work[w].page, work[w].latest)'
    BY <2>1, <2>2 DEF IsLatest, ShardsOf, SameShard, SameJob, Layer
  <2> QED
    BY <2>1, <2>4 DEF ShardOK, SameShard, SameJob, Layer, Writing, Filled, Aged
<1>6. CASE ReadBody(w)
  <2>1. /\ work[w].pc = "body" /\ work'[w].pc = "open" /\ SameJob(work[w], work'[w])
        /\ work'[w].entry = work[w].entry /\ UNCHANGED <<files, captures>>
        /\ \/ work'[w].path = Shard(w, work[w].latest) /\ work'[w].body = Content(w)
           \/ /\ work'[w].path = Shard(w, work[w].latest + 1)
              /\ work'[w].body = <<work[w].entry>>
    BY <1>0, <1>6, ReadBodyDoes
  <2>2. work[w].entry \in Entry /\ work[w].entry.at = captures
    BY <1>0, <2>1 DEF WriterOK, ShardOK
  <2>3. work'[w].path.layer = Layer(w) /\ work'[w].path.page = work[w].page
    BY <2>1 DEF Shard
  <2>4. Aged(Held(w))
    BY <1>0, HeldType, EmptyFacts DEF Aged, ShardOK
  <2>5. Aged(Content(w))
    BY <1>0, <2>2, <2>4, ContentFacts DEF Aged
  <2>6. (\E j \in DOMAIN work'[w].body : work'[w].body[j] = work[w].entry) /\ Aged(work'[w].body)
    <3>1. CASE work'[w].body = Content(w)
      BY <1>0, <2>2, <2>5, <3>1, ContentFacts
    <3>2. CASE work'[w].body = <<work[w].entry>>
      <4>1. 1 \in DOMAIN <<work[w].entry>> /\ \A i \in DOMAIN <<work[w].entry>> : i = 1
        OBVIOUS
      <4> QED
        BY <1>0, <2>2, <3>2, <4>1 DEF Aged
    <3> QED
      BY <2>1, <3>1, <3>2
  <2> QED
    BY <2>1, <2>3, <2>6 DEF ShardOK, SameJob, Layer, Writing, Filled, Aged
<1>7. CASE OpenShard(w)
  <2>1. /\ work[w].pc = "open" /\ work'[w].pc = "fill" /\ SameShard(work[w], work'[w])
        /\ files' = Put(files, work[w].path, << >>) /\ captures' = captures
    BY <1>0, <1>7, OpenShardDoes
  <2>2. \A p \in DOMAIN files' : Aged(files'[p])
    <3>1. work[w].path \in Path
      BY <1>0, <2>1 DEF WriterOK, Writing
    <3>2. /\ DOMAIN files' = DOMAIN files \cup {work[w].path} /\ files'[work[w].path] = << >>
          /\ \A p \in DOMAIN files : p # work[w].path => files'[p] = files[p]
      BY <1>0, <2>1, <3>1, EmptyFacts, PutFiles
    <3> QED
      BY <3>2, EmptyFacts DEF ShardOK, Aged
  <2> QED
    BY <2>1, <2>2 DEF ShardOK, SameShard, SameJob, Layer, Writing, Filled, Aged
<1>8. CASE FillShard(w)
  <2>1. /\ work[w].pc = "fill" /\ work'[w].pc = "index" /\ SameShard(work[w], work'[w])
        /\ files' = Put(files, work[w].path, work[w].body) /\ captures' = captures
    BY <1>0, <1>8, FillShardDoes
  <2>2. /\ work[w].path \in Path /\ work[w].body \in Seq(Entry)
    BY <1>0, <2>1 DEF WriterOK, Writing, Work
  <2>3. /\ DOMAIN files' = DOMAIN files \cup {work[w].path} /\ files'[work[w].path] = work[w].body
        /\ \A p \in DOMAIN files : p # work[w].path => files'[p] = files[p]
    BY <1>0, <2>1, <2>2, PutFiles
  <2>4. \A p \in DOMAIN files' : Aged(files'[p])
    BY <2>1, <2>3 DEF ShardOK, Aged, Writing
  <2> QED
    BY <2>1, <2>3, <2>4 DEF ShardOK, SameShard, SameJob, Layer, Writing, Filled, Aged
<1>9. CASE IndexShard(w)
  BY <1>0, <1>9, IndexShardDoes, ShardKept DEF Writing, Filled
<1>10. CASE OpenTmp(w)
  BY <1>0, <1>10, OpenTmpDoes, ShardKept DEF Writing, Filled
<1>11. CASE WriteTmp(w)
  <2>1. work[w].fd = "tmp" /\ tmp = [exists |-> TRUE, index |-> NoPaths]
    BY <1>11 DEF CatalogOK, WriteTmp
  <2> QED
    BY <1>0, <1>11, <2>1, WriteTmpDoes, ShardKept DEF Writing, Filled
<1>12. CASE Rename(w)
  <2>1. tmp.exists
    BY <1>12 DEF CatalogOK, Rename
  <2>2. /\ files' = files /\ captures' = captures /\ work[w].pc = "rename"
        /\ \/ work'[w].pc = "idle"
           \/ work'[w].pc = "ensure" /\ work'[w].at = work[w].at
    BY <1>0, <1>12, <2>1, RenameDoes DEF NoWork
  <2> QED
    BY <2>2 DEF ShardOK, Writing, Filled, Aged
<1>13. CASE Fail(w)
  BY <1>0, <1>13, FailDoes DEF ShardOK, Writing, Filled, Aged
<1> QED
  BY <1>1, <1>2, <1>3, <1>4, <1>5, <1>6, <1>7, <1>8, <1>9, <1>10, <1>11, <1>12, <1>13, OneSteps
     DEF Step

-----------------------------------------------------------------------------
(***************************************************************************)
(* One writer and no failure: the catalog names every shard, with its      *)
(* length, but for the one that is being written.                          *)
(***************************************************************************)
One(w) == IInv /\ SInv(w) /\ CatalogOK(w) /\ ShardOK(w)

Pending(w) == IF work[w].pc \in Filled \cup {"fill"} THEN {work[w].path} ELSE {}

ExactOK(w) ==
    crashes + torn = 0 =>
        /\ DOMAIN files = DOMAIN catalog.index \cup Pending(w)
        /\ \A p \in DOMAIN files \ Pending(w) : catalog.index[p] = Len(files[p])

LEMMA OneInit == ASSUME NEW w \in Writers, Init PROVE One(w)
BY InitInv, SInit, CatalogInit, ShardOKInit DEF One

LEMMA OneStep == ASSUME NEW w, Writers = {w}, One(w), [Next]_vars PROVE One(w)'
BY StepInv, SStep, CatalogStep, ShardStep DEF One

LEMMA ExactInit == ASSUME NEW w \in Writers, Init PROVE ExactOK(w)
BY NoPathsFacts DEF Init, ExactOK, Pending, NoWork, Filled

\* The content of the shard is on the disk when the catalog is replaced.
LEMMA RenameCatalog ==
    ASSUME NEW w \in Writers, One(w), Rename(w)
    PROVE  /\ tmp.exists /\ work[w].path \in DOMAIN files /\ work[w].path \in Path
           /\ files[work[w].path] = work[w].body
           /\ DOMAIN catalog'.index = DOMAIN catalog.index \cup {work[w].path}
           /\ catalog'.index[work[w].path] = Len(work[w].body)
           /\ \A p \in DOMAIN catalog.index : p # work[w].path => catalog'.index[p] = catalog.index[p]
<1>1. work[w].pc = "rename" /\ IInv /\ WriterOK(w) /\ catalog.index \in Index
  BY DEF Rename, One, IInv, Typed
<1>2. tmp.exists /\ tmp.index = Put(catalog.index, work[w].path, Len(work[w].body))
  BY <1>1 DEF One, CatalogOK
<1>3. catalog' = tmp
  BY <1>1, <1>2, RenameDoes
<1>4. work[w].path \in DOMAIN files /\ work[w].path \in Path /\ files[work[w].path] = work[w].body
  BY <1>1 DEF One, ShardOK, Filled, WriterOK, Writing
<1>5. catalog'.index = [p \in DOMAIN catalog.index \cup {work[w].path} |->
                          IF p = work[w].path THEN Len(work[w].body) ELSE catalog.index[p]]
  BY <1>2, <1>3 DEF Put
<1> QED
  BY <1>2, <1>4, <1>5

LEMMA ExactStep ==
    ASSUME NEW w, Writers = {w}, One(w), ExactOK(w), [Next]_vars
    PROVE  ExactOK(w)'
<1>0. /\ w \in Writers /\ IInv /\ SInv(w) /\ CatalogOK(w) /\ ShardOK(w)
      /\ files \in Shards /\ work[w] \in Work /\ WriterOK(w)
  BY DEF One, IInv, Typed
<1>1. ASSUME UNCHANGED <<files, catalog, crashes, torn>>, Pending(w)' = Pending(w) PROVE ExactOK(w)'
  BY <1>1 DEF ExactOK
<1>2. CASE UNCHANGED vars
  BY <1>1, <1>2 DEF vars, Pending
<1>3. CASE \E page \in Pages, id \in Ids, state \in States : Capture(w, page, id, state)
  BY <1>0, <1>1, <1>3, CaptureDoes DEF Pending, Filled
<1>4. CASE Ensure(w)
  BY <1>0, <1>1, <1>4, EnsureDoes DEF Pending, Filled
<1>5. CASE InitCatalog(w)
  <2>1. /\ work[w].pc = "init" /\ work'[w].pc = "latest" /\ DOMAIN files = {} /\ files' = files
        /\ catalog'.index = NoPaths
    BY <1>0, <1>5, InitCatalogDoes DEF CatalogOK
  <2> QED
    BY <2>1, NoPathsFacts DEF ExactOK, Pending, Filled
<1>6. CASE ReadLatest(w)
  BY <1>0, <1>1, <1>6, ReadLatestDoes DEF Pending, Filled
<1>7. CASE ReadBody(w)
  BY <1>0, <1>1, <1>7, ReadBodyDoes DEF Pending, Filled
<1>8. CASE OpenShard(w)
  <2>1. /\ work[w].pc = "open" /\ work'[w].pc = "fill" /\ work'[w].path = work[w].path
        /\ files' = Put(files, work[w].path, << >>) /\ UNCHANGED <<catalog, crashes, torn>>
    BY <1>0, <1>8, OpenShardDoes DEF SameShard
  <2>2. work[w].path \in Path
    BY <1>0, <2>1 DEF WriterOK, Writing
  <2>3. /\ DOMAIN files' = DOMAIN files \cup {work[w].path}
        /\ \A p \in DOMAIN files : p # work[w].path => files'[p] = files[p]
    BY <1>0, <2>1, <2>2, EmptyFacts, PutFiles
  <2> QED
    BY <2>1, <2>3 DEF ExactOK, Pending, Filled
<1>9. CASE FillShard(w)
  <2>1. /\ work[w].pc = "fill" /\ work'[w].pc = "index" /\ work'[w].path = work[w].path
        /\ files' = Put(files, work[w].path, work[w].body) /\ UNCHANGED <<catalog, crashes, torn>>
    BY <1>0, <1>9, FillShardDoes DEF SameShard
  <2>2. /\ work[w].path \in Path /\ work[w].path \in DOMAIN files /\ work[w].body \in Seq(Entry)
    BY <1>0, <2>1 DEF WriterOK, Writing, Work
  <2>3. /\ DOMAIN files' = DOMAIN files \cup {work[w].path}
        /\ \A p \in DOMAIN files : p # work[w].path => files'[p] = files[p]
    BY <1>0, <2>1, <2>2, PutFiles
  <2> QED
    BY <2>1, <2>2, <2>3 DEF ExactOK, Pending, Filled
<1>10. CASE IndexShard(w)
  BY <1>0, <1>1, <1>10, IndexShardDoes DEF Pending, Filled, SameShard
<1>11. CASE OpenTmp(w)
  BY <1>0, <1>1, <1>11, OpenTmpDoes DEF Pending, Filled, SameShard
<1>12. CASE WriteTmp(w)
  <2>1. work[w].fd = "tmp" /\ tmp = [exists |-> TRUE, index |-> NoPaths]
    BY <1>0, <1>12 DEF CatalogOK, WriteTmp
  <2> QED
    BY <1>0, <1>1, <1>12, <2>1, WriteTmpDoes DEF Pending, Filled, SameShard
<1>13. CASE Rename(w)
  <2>1. /\ tmp.exists /\ files[work[w].path] = work[w].body
        /\ DOMAIN catalog'.index = DOMAIN catalog.index \cup {work[w].path}
        /\ catalog'.index[work[w].path] = Len(work[w].body)
        /\ \A p \in DOMAIN catalog.index : p # work[w].path => catalog'.index[p] = catalog.index[p]
    BY <1>0, <1>13, RenameCatalog
  <2>2. /\ work[w].pc = "rename" /\ work'[w].pc \in {"idle", "ensure"}
        /\ UNCHANGED <<files, crashes, torn>>
    BY <1>0, <1>13, <2>1, RenameDoes DEF NoWork
  <2> QED
    BY <2>1, <2>2 DEF ExactOK, Pending, Filled
<1>14. CASE Fail(w)
  BY <1>0, <1>14, FailDoes DEF ExactOK
<1> QED
  BY <1>2, <1>3, <1>4, <1>5, <1>6, <1>7, <1>8, <1>9, <1>10, <1>11, <1>12, <1>13, <1>14, OneSteps
     DEF Step

-----------------------------------------------------------------------------
(***************************************************************************)
(* One writer whose failures leave no shard truncated: what the catalog    *)
(* lets a reader find, or will once the writer has filled its shard, is    *)
(* never lost, only replaced by what is newer.                             *)
(***************************************************************************)
Shown(w, p) == IF work[w].pc = "fill" /\ p = work[w].path THEN work[w].body ELSE files[p]

Fresh(layer, e, id, at) == e.id = id /\ IF layer = "raw" THEN e.at = at ELSE e.at >= at

Covers(layer, old, new) ==
    \A i \in DOMAIN old : \E j \in DOMAIN new : Fresh(layer, new[j], old[i].id, old[i].at)

Tells(w, layer, page, id, at) ==
    \E p \in ShardsOf(layer, page) : \E j \in DOMAIN Shown(w, p) : Fresh(layer, Shown(w, p)[j], id, at)

\* Told of each layer: those of a finished capture, and those another has done with.
Lasting(w, layers, page, id, at) == \A layer \in layers \ {"briefings"} : Tells(w, layer, page, id, at)

AckOK(w) ==
    LET c == work[w] IN
    torn = 0 =>
        /\ \A k \in acked : "raw" \in k.layers /\ Lasting(w, k.layers, k.page, k.id, k.at)
        /\ c.pc # "idle" =>
             "raw" \in Range(c.layers) /\ Lasting(w, Range(c.layers) \ Range(c.todo), c.page, c.id, c.at)
        /\ c.pc = "open" /\ c.path \in DOMAIN catalog.index => Covers(c.path.layer, files[c.path], c.body)

Grows(w) ==
    /\ DOMAIN catalog.index \subseteq DOMAIN catalog'.index
    /\ \A p \in DOMAIN catalog.index : Covers(p.layer, Shown(w, p), Shown(w, p)')

LEMMA CoversItself == ASSUME NEW layer, NEW x \in Seq(Entry) PROVE Covers(layer, x, x)
<1>1. ASSUME NEW i \in DOMAIN x PROVE x[i].at \in Nat
  <2>1. x[i] \in Entry
    OBVIOUS
  <2> QED
    BY <2>1 DEF Entry
<1> QED
  BY <1>1 DEF Covers, Fresh

LEMMA ShownType ==
    ASSUME NEW w \in Writers, IInv, NEW p \in DOMAIN catalog.index
    PROVE  Shown(w, p) \in Seq(Entry)
<1>1. /\ files \in Shards /\ work[w] \in Work /\ p \in DOMAIN files
  BY DEF IInv, Typed, StoreOK
<1> QED
  BY <1>1, ShardFacts DEF Shown, Work

LEMMA TellsGrows ==
    ASSUME NEW w \in Writers, IInv, IInv', Grows(w), NEW layer, NEW page, NEW id, NEW at \in Nat,
           Tells(w, layer, page, id, at)
    PROVE  Tells(w, layer, page, id, at)'
<1>1. PICK p \in DOMAIN catalog.index : p.layer = layer /\ p.page = page /\
        \E j \in DOMAIN Shown(w, p) : Fresh(layer, Shown(w, p)[j], id, at)
  BY DEF Tells, ShardsOf
<1>2. PICK i \in DOMAIN Shown(w, p) : Fresh(layer, Shown(w, p)[i], id, at)
  BY <1>1
<1>3. PICK j \in DOMAIN Shown(w, p)' : Fresh(layer, Shown(w, p)'[j], Shown(w, p)[i].id, Shown(w, p)[i].at)
  BY <1>1, <1>2 DEF Grows, Covers
<1>4. p \in DOMAIN catalog'.index
  BY DEF Grows
<1>5. Shown(w, p) \in Seq(Entry) /\ Shown(w, p)' \in Seq(Entry)
  <2>1. files' \in Shards /\ work'[w] \in Work /\ p \in DOMAIN files'
    BY <1>4 DEF IInv, Typed, StoreOK
  <2>2. \A x \in DOMAIN files' : files'[x] \in Seq(Entry)
    BY <2>1, ShardFacts
  <2>3. Shown(w, p)' \in Seq(Entry)
    BY <2>1, <2>2 DEF Shown, Work
  <2> QED
    BY <2>3, ShownType
<1>6. Shown(w, p)[i].at \in Nat /\ Shown(w, p)'[j].at \in Nat
  <2>1. Shown(w, p)[i] \in Entry /\ Shown(w, p)'[j] \in Entry
    BY <1>5
  <2> QED
    BY <2>1 DEF Entry
<1>7. Fresh(layer, Shown(w, p)'[j], id, at)
  BY <1>2, <1>3, <1>6 DEF Fresh
<1> QED
  BY <1>1, <1>3, <1>4, <1>7 DEF Tells, ShardsOf

LEMMA AckInit == ASSUME NEW w \in Writers, Init PROVE AckOK(w)
BY NoPathsFacts DEF Init, AckOK, NoWork

\* The next content of a shard covers what the shard has.
LEMMA ContentCovers ==
    ASSUME NEW w \in Writers, One(w), work[w].pc = "body"
    PROVE  Covers(Layer(w), Held(w), Content(w))
<1>1. /\ Typed /\ StoreOK /\ work[w].entry \in Entry /\ work[w].entry.at = captures
      /\ captures \in Nat
  BY BoundsAssumption DEF One, IInv, Typed, WriterOK, ShardOK
<1>2. Held(w) \in Seq(Entry) /\ Aged(Held(w))
  BY <1>1, HeldType, EmptyFacts DEF Aged, One, ShardOK
<1>3. ASSUME NEW i \in DOMAIN Held(w)
      PROVE  i \in DOMAIN Content(w) /\ Fresh(Layer(w), Content(w)[i], Held(w)[i].id, Held(w)[i].at)
  <2>1. Held(w)[i] \in Entry
    BY <1>2
  <2>2. Held(w)[i].at \in Nat /\ Held(w)[i].at <= captures
    BY <1>2, <2>1 DEF Entry, Aged
  <2>3. /\ i \in DOMAIN Content(w)
        /\ \/ Content(w)[i] = Held(w)[i]
           \/ /\ Layer(w) # "raw" /\ Content(w)[i] = work[w].entry
              /\ Held(w)[i].id = work[w].entry.id
    BY <1>1, ContentFacts
  <2> QED
    BY <1>1, <2>2, <2>3 DEF Fresh
<1> QED
  BY <1>3 DEF Covers

LEMMA GrowsStep ==
    ASSUME NEW w, Writers = {w}, One(w), AckOK(w), torn = 0, [Next]_vars, torn' = 0
    PROVE  Grows(w)
<1>0. /\ w \in Writers /\ IInv /\ SInv(w) /\ CatalogOK(w) /\ ShardOK(w)
      /\ files \in Shards /\ work[w] \in Work /\ WriterOK(w)
      /\ DOMAIN catalog.index \subseteq DOMAIN files
  BY DEF One, IInv, Typed, StoreOK
<1>1. ASSUME catalog' = catalog, \A p \in DOMAIN catalog.index : Shown(w, p)' = Shown(w, p)
      PROVE  Grows(w)
  BY <1>0, <1>1, ShownType, CoversItself DEF Grows
<1>2. ASSUME catalog' = catalog, files' = files, work[w].pc # "fill", work'[w].pc # "fill"
      PROVE  Grows(w)
  BY <1>1, <1>2 DEF Shown
<1>3. CASE UNCHANGED vars
  BY <1>1, <1>3 DEF vars, Shown
<1>4. CASE \E page \in Pages, id \in Ids, state \in States : Capture(w, page, id, state)
  BY <1>0, <1>2, <1>4, CaptureDoes
<1>5. CASE Ensure(w)
  BY <1>0, <1>2, <1>5, EnsureDoes
<1>6. CASE InitCatalog(w)
  <2>1. DOMAIN catalog.index = {}
    BY <1>0, <1>6, InitCatalogDoes DEF CatalogOK
  <2> QED
    BY <2>1 DEF Grows
<1>7. CASE ReadLatest(w)
  BY <1>0, <1>2, <1>7, ReadLatestDoes
<1>8. CASE ReadBody(w)
  BY <1>0, <1>2, <1>8, ReadBodyDoes
<1>9. CASE OpenShard(w)
  <2>1. /\ work[w].pc = "open" /\ work'[w].pc = "fill" /\ work'[w].path = work[w].path
        /\ work'[w].body = work[w].body
        /\ files' = Put(files, work[w].path, << >>) /\ catalog' = catalog
    BY <1>0, <1>9, OpenShardDoes DEF SameShard
  <2>2. work[w].path \in Path
    BY <1>0, <2>1 DEF WriterOK, Writing
  <2>3. \A p \in DOMAIN files : p # work[w].path => files'[p] = files[p]
    BY <1>0, <2>1, <2>2, EmptyFacts, PutFiles
  <2>4. ASSUME NEW p \in DOMAIN catalog.index PROVE Covers(p.layer, Shown(w, p), Shown(w, p)')
    <3>1. CASE p = work[w].path
      <4>1. Shown(w, p) = files[p] /\ Shown(w, p)' = work[w].body
        BY <2>1, <3>1 DEF Shown
      <4> QED
        BY <2>1, <2>4, <3>1, <4>1 DEF AckOK
    <3>2. CASE p # work[w].path
      <4>1. Shown(w, p)' = Shown(w, p)
        BY <1>0, <2>1, <2>3, <3>2 DEF Shown
      <4> QED
        BY <1>0, <4>1, ShownType, CoversItself
    <3> QED
      BY <3>1, <3>2
  <2> QED
    BY <2>1, <2>4 DEF Grows
<1>10. CASE FillShard(w)
  <2>1. /\ work[w].pc = "fill" /\ work'[w].pc = "index"
        /\ files' = Put(files, work[w].path, work[w].body) /\ catalog' = catalog
    BY <1>0, <1>10, FillShardDoes
  <2>2. /\ work[w].path \in Path /\ work[w].body \in Seq(Entry)
    BY <1>0, <2>1 DEF WriterOK, Writing, Work
  <2>3. /\ files'[work[w].path] = work[w].body
        /\ \A p \in DOMAIN files : p # work[w].path => files'[p] = files[p]
    BY <1>0, <2>1, <2>2, PutFiles
  <2>4. \A p \in DOMAIN catalog.index : Shown(w, p)' = Shown(w, p)
    BY <1>0, <2>1, <2>3 DEF Shown
  <2> QED
    BY <1>1, <2>1, <2>4
<1>11. CASE IndexShard(w)
  BY <1>0, <1>2, <1>11, IndexShardDoes
<1>12. CASE OpenTmp(w)
  BY <1>0, <1>2, <1>12, OpenTmpDoes
<1>13. CASE WriteTmp(w)
  <2>1. work[w].fd = "tmp" /\ tmp = [exists |-> TRUE, index |-> NoPaths]
    BY <1>0, <1>13 DEF CatalogOK, WriteTmp
  <2> QED
    BY <1>0, <1>2, <1>13, <2>1, WriteTmpDoes
<1>14. CASE Rename(w)
  <2>1. tmp.exists /\ DOMAIN catalog'.index = DOMAIN catalog.index \cup {work[w].path}
    BY <1>0, <1>14, RenameCatalog
  <2>2. work[w].pc = "rename" /\ work'[w].pc \in {"idle", "ensure"} /\ files' = files
    BY <1>0, <1>14, <2>1, RenameDoes DEF NoWork
  <2>3. ASSUME NEW p \in DOMAIN catalog.index PROVE Shown(w, p)' = Shown(w, p)
    BY <2>2 DEF Shown
  <2> QED
    BY <1>0, <2>1, <2>3, ShownType, CoversItself DEF Grows
<1>15. CASE Fail(w)
  BY <1>0, <1>2, <1>15, FailDoes
<1> QED
  BY <1>3, <1>4, <1>5, <1>6, <1>7, <1>8, <1>9, <1>10, <1>11, <1>12, <1>13, <1>14, <1>15, OneSteps
     DEF Step

\* Every capture writes the raw layer.
LEMMA RawIsWritten == ASSUME NEW state \in States PROVE "raw" \in Range(Writes(state))
<1>1. Writes(state) # << >> /\ Writes(state)[1] = "raw" /\ 1 \in DOMAIN Writes(state)
  BY DEF Writes, States
<1> QED
  BY <1>1 DEF Range

LEMMA RangeOfTail ==
    ASSUME NEW S, NEW s \in Seq(S), s # << >>
    PROVE  \A x \in Range(s) : x = Head(s) \/ (Len(s) # 1 /\ x \in Range(Tail(s)))
<1> SUFFICES ASSUME NEW i \in DOMAIN s, s[i] # Head(s) PROVE Len(s) # 1 /\ s[i] \in Range(Tail(s))
  BY DEF Range
<1>1. i \in 1..Len(s) /\ i # 1 /\ Len(s) \in Nat
  OBVIOUS
<1>2. Tail(s) \in Seq(S) /\ Len(Tail(s)) = Len(s) - 1 /\ \A j \in 1..Len(Tail(s)) : Tail(s)[j] = s[j + 1]
  OBVIOUS
<1>3. i - 1 \in DOMAIN Tail(s) /\ Tail(s)[i - 1] = s[i]
  BY <1>1, <1>2
<1> QED
  BY <1>1, <1>3 DEF Range

LEMMA AckStep ==
    ASSUME NEW w, Writers = {w}, One(w), One(w)', AckOK(w), [Next]_vars
    PROVE  AckOK(w)'
<1>0. /\ w \in Writers /\ IInv /\ IInv' /\ SInv(w) /\ CatalogOK(w) /\ ShardOK(w)
      /\ files \in Shards /\ work[w] \in Work /\ WriterOK(w) /\ Typed /\ StoreOK
  BY DEF One, IInv, Typed
<1> SUFFICES ASSUME torn' = 0 PROVE AckOK(w)'
  BY DEF AckOK
<1>1. torn = 0 /\ ~(Fail(w) /\ work[w].pc = "fill")
  <2>1. CASE Fail(w)
    BY <1>0, <2>1, FailDoes
  <2>2. CASE ~Fail(w)
    <3>1. torn' = torn
      BY <2>2, OneSteps DEF vars, Step, Capture, Ensure, InitCatalog, ReadLatest, ReadBody,
         OpenShard, FillShard, IndexShard, OpenTmp, WriteTmp, Rename
    <3> QED
      BY <2>2, <3>1
  <2> QED
    BY <2>1, <2>2
<1>2. Grows(w)
  BY <1>1, GrowsStep
<1>3. ASSUME NEW layers, NEW page, NEW id, NEW at \in Nat, Lasting(w, layers, page, id, at)
      PROVE  \A layer \in layers \ {"briefings"} : Tells(w, layer, page, id, at)'
  BY <1>0, <1>2, <1>3, TellsGrows DEF Lasting
<1>4. \A k \in acked : "raw" \in k.layers
        /\ \A layer \in k.layers \ {"briefings"} : Tells(w, layer, k.page, k.id, k.at)'
  <2>1. \A k \in acked : k.at \in Nat
    BY <1>0 DEF Typed
  <2> QED
    BY <1>1, <1>3, <2>1 DEF AckOK
<1>5. PICK pg, txt, at : at \in Nat /\ pg = work[w].page /\ txt = work[w].id /\ at = work[w].at
  <2>1. work[w].at \in Nat
    BY <1>0 DEF Work
  <2> QED
    BY <2>1
<1>6. ASSUME acked' = acked, work'[w].pc = "idle" PROVE AckOK(w)'
  BY <1>4, <1>6 DEF AckOK, Lasting
<1>7. ASSUME acked' = acked, work[w].pc # "idle", SameJob(work[w], work'[w]),
             work'[w].pc = "open" /\ work'[w].path \in DOMAIN catalog'.index =>
               Covers(work'[w].path.layer, files'[work'[w].path], work'[w].body)
      PROVE  AckOK(w)'
  <2>1. /\ "raw" \in Range(work[w].layers)
        /\ \A layer \in (Range(work[w].layers) \ Range(work[w].todo)) \ {"briefings"} :
             Tells(w, layer, pg, txt, at)'
    BY <1>1, <1>3, <1>5, <1>7 DEF AckOK
  <2>2. /\ work'[w].page = pg /\ work'[w].id = txt /\ work'[w].at = at
        /\ work'[w].layers = work[w].layers /\ work'[w].todo = work[w].todo
    BY <1>5, <1>7 DEF SameJob
  <2> QED
    BY <1>4, <1>7, <2>1, <2>2 DEF AckOK, Lasting
<1>8. CASE UNCHANGED vars
  BY <1>8, <1>0, <1>1 DEF vars, AckOK, Lasting, Tells, ShardsOf, Shown
<1>9. CASE \E page \in Pages, id \in Ids, state \in States : Capture(w, page, id, state)
  <2>1. PICK page \in Pages, id \in Ids, state \in States : Capture(w, page, id, state)
    BY <1>9
  <2>2. /\ work'[w].pc = "ensure" /\ work'[w].layers = Writes(state)
        /\ work'[w].todo = Writes(state) /\ acked' = acked
    BY <1>0, <2>1, CaptureDoes
  <2> QED
    BY <1>4, <2>2, RawIsWritten DEF AckOK, Lasting
<1>10. CASE Ensure(w)
  BY <1>0, <1>7, <1>10, EnsureDoes
<1>11. CASE InitCatalog(w)
  BY <1>0, <1>7, <1>11, InitCatalogDoes DEF SameShard
<1>12. CASE ReadLatest(w)
  BY <1>0, <1>7, <1>12, ReadLatestDoes DEF SameShard
<1>13. CASE ReadBody(w)
  <2>1. /\ work[w].pc = "body" /\ work'[w].pc = "open" /\ SameJob(work[w], work'[w])
        /\ UNCHANGED <<files, catalog, acked>>
        /\ \/ work'[w].path = Shard(w, work[w].latest) /\ work'[w].body = Content(w)
           \/ work'[w].path = Shard(w, work[w].latest + 1)
    BY <1>0, <1>13, ReadBodyDoes
  <2>2. ASSUME work'[w].path \in DOMAIN catalog.index
        PROVE  Covers(work'[w].path.layer, files[work'[w].path], work'[w].body)
    <3>1. work'[w].path.layer = Layer(w) /\ work'[w].path.page = work[w].page
      BY <2>1 DEF Shard
    <3>2. work'[w].path \in ShardsOf(Layer(w), work[w].page) /\ work[w].latest \in Nat
      BY <1>0, <2>2, <3>1 DEF ShardsOf, Work
    <3>3. work'[w].path.seq <= work[w].latest
      BY <1>0, <2>1, <3>2 DEF ShardOK, IsLatest
    <3>4. work'[w].path = Shard(w, work[w].latest) /\ work'[w].body = Content(w)
      BY <2>1, <3>2, <3>3 DEF Shard
    <3>5. Held(w) = files[work'[w].path]
      BY <1>0, <2>2, <3>4 DEF Held, StoreOK
    <3> QED
      BY <1>0, <2>1, <3>1, <3>4, <3>5, ContentCovers
  <2> QED
    BY <1>7, <2>1, <2>2
<1>14. CASE OpenShard(w)
  BY <1>0, <1>7, <1>14, OpenShardDoes DEF SameShard
<1>15. CASE FillShard(w)
  BY <1>0, <1>7, <1>15, FillShardDoes DEF SameShard
<1>16. CASE IndexShard(w)
  BY <1>0, <1>7, <1>16, IndexShardDoes DEF SameShard
<1>17. CASE OpenTmp(w)
  BY <1>0, <1>7, <1>17, OpenTmpDoes DEF SameShard
<1>18. CASE WriteTmp(w)
  <2>1. work[w].fd = "tmp" /\ tmp = [exists |-> TRUE, index |-> NoPaths]
    BY <1>0, <1>18 DEF CatalogOK, WriteTmp
  <2> QED
    BY <1>0, <1>7, <1>18, <2>1, WriteTmpDoes DEF SameShard
<1>19. CASE Rename(w)
  <2>1. /\ tmp.exists /\ work[w].path \in DOMAIN files /\ files[work[w].path] = work[w].body
        /\ DOMAIN catalog'.index = DOMAIN catalog.index \cup {work[w].path}
    BY <1>0, <1>19, RenameCatalog
  <2>2. work[w].pc = "rename" /\ files' = files /\ work'[w].pc \in {"idle", "ensure"}
    BY <1>0, <1>19, <2>1, RenameDoes DEF NoWork
  <2>3. PICK layer : layer = Layer(w)
    OBVIOUS
  <2>4. layer # "briefings" => Tells(w, layer, pg, txt, at)'
    <3> SUFFICES ASSUME layer # "briefings" PROVE Tells(w, layer, pg, txt, at)'
      OBVIOUS
    <3> DEFINE p == work[w].path
    <3>1. p.layer = layer /\ p.page = pg /\ p \in DOMAIN catalog'.index
      BY <1>0, <1>5, <2>1, <2>2, <2>3 DEF ShardOK, Writing
    <3>2. PICK j \in DOMAIN work[w].body : work[w].body[j] = work[w].entry
      BY <1>0, <2>2 DEF ShardOK, Writing
    <3>3. Fresh(layer, work[w].body[j], txt, at)
      BY <1>0, <1>5, <2>2, <2>3, <3>2 DEF ShardOK, Fresh
    <3>4. \E x \in DOMAIN catalog'.index : x.layer = layer /\ x.page = pg /\ x = p
      BY <3>1
    <3>5. PICK x \in DOMAIN catalog'.index : x.layer = layer /\ x.page = pg /\ x = p
      BY <3>4
    <3>6. Shown(w, x)' = work[w].body
      BY <2>1, <2>2, <3>5 DEF Shown
    <3> QED
      BY <3>2, <3>3, <3>5, <3>6 DEF Tells, ShardsOf
  <2>5. ASSUME NEW l \in Range(work[w].layers) \ {"briefings"}, l \notin Range(work[w].todo) \/ l = layer
        PROVE  Tells(w, l, pg, txt, at)'
    BY <1>1, <1>3, <1>5, <2>2, <2>4, <2>5 DEF AckOK
  <2>6. \A l \in Range(work[w].todo) :
          l = layer \/ (Len(work[w].todo) # 1 /\ l \in Range(Tail(work[w].todo)))
    <3>1. work[w].todo \in Seq(Layers) /\ work[w].todo # << >>
      BY <1>0, <2>2 DEF Work, WriterOK
    <3> QED
      BY <2>3, <3>1, RangeOfTail DEF Layer
  <2>7. "raw" \in Range(work[w].layers)
    BY <1>1, <2>2 DEF AckOK
  <2>8. CASE Len(work[w].todo) = 1 /\ work'[w] = NoWork
    <3>1. acked' = acked \cup {[page |-> pg, id |-> txt, at |-> at, layers |-> Range(work[w].layers)]}
      BY <1>0, <1>5, <1>19, <2>1, <2>8, RenameDoes
    <3> QED
      BY <1>4, <2>5, <2>6, <2>7, <2>8, <3>1 DEF AckOK, Lasting, NoWork
  <2>9. CASE Len(work[w].todo) # 1 /\ work'[w].todo = Tail(work[w].todo)
    <3>1. /\ acked' = acked /\ work'[w].pc = "ensure" /\ work'[w].page = pg /\ work'[w].id = txt
          /\ work'[w].at = at /\ work'[w].layers = work[w].layers
      BY <1>0, <1>5, <1>19, <2>1, <2>9, RenameDoes
    <3> QED
      BY <1>4, <2>5, <2>6, <2>7, <2>9, <3>1 DEF AckOK, Lasting
  <2> QED
    BY <1>0, <1>19, <2>1, <2>8, <2>9, RenameDoes
<1>20. CASE Fail(w)
  BY <1>0, <1>6, <1>20, FailDoes
<1> QED
  BY <1>8, <1>9, <1>10, <1>11, <1>12, <1>13, <1>14, <1>15, <1>16, <1>17, <1>18, <1>19, <1>20, OneSteps
     DEF Step

-----------------------------------------------------------------------------
(***************************************************************************)
(* One writer and no failure: a page has one briefing, in its first shard; *)
(* and it is of the live entries, but while a capture that adds to these   *)
(* is on its way from them to the briefing.                                *)
(***************************************************************************)
Abouts(briefings) == {e.about : e \in briefings}

Quoted(live) == {e.id : e \in Top(live)}

Exempt(w, page) ==
    /\ work[w].pc # "idle" /\ work[w].page = page
    /\ work[w].todo \in {<<"live", "briefings">>, <<"briefings">>}

Scripts == {<<"raw", "drafts">>, <<"drafts">>, <<"raw">>, <<"raw", "live", "briefings">>,
            <<"live", "briefings">>, <<"briefings">>}

BriefOK(w) ==
    LET c == work[w] IN
    crashes + torn = 0 =>
        /\ c.pc # "idle" => c.todo \in Scripts
        /\ \A p \in DOMAIN files : p.layer = "briefings" =>
             /\ p.seq = 0
             /\ (c.pc # "fill" \/ p # c.path) => Len(files[p]) = 1 /\ files[p][1].id = BriefingId
        /\ c.pc \in Writing /\ Layer(w) = "briefings" => c.path.seq = 0 /\ c.body = <<c.entry>>
        /\ c.pc # "idle" /\ Layer(w) = "briefings" => Visible("live", c.page) # {}
        /\ c.pc \notin {"idle", "ensure"} /\ Layer(w) = "briefings" =>
             c.entry.about = Quoted(Visible("live", c.page))
        /\ \A page \in Pages : ~Exempt(w, page) => Briefed(page)

LEMMA BriefedIs ==
    ASSUME NEW page
    PROVE  Briefed(page) <=>
             Abouts(Visible("briefings", page)) =
               IF Visible("live", page) = {} THEN {} ELSE {Quoted(Visible("live", page))}
BY DEF Briefed, Abouts, Quoted, Top

LEMMA BriefedKept ==
    ASSUME NEW page, Visible("briefings", page)' = Visible("briefings", page),
           Visible("live", page)' = Visible("live", page), Briefed(page)
    PROVE  Briefed(page)'
<1>1. Abouts(Visible("briefings", page)) =
        IF Visible("live", page) = {} THEN {} ELSE {Quoted(Visible("live", page))}
  BY BriefedIs
<1>2. Abouts(Visible("briefings", page)') =
        IF Visible("live", page)' = {} THEN {} ELSE {Quoted(Visible("live", page)')}
  BY <1>1
<1> QED
  BY <1>2 DEF Briefed, Abouts, Quoted, Top

\* What a reader finds on a page is of the shards of the page.
LEMMA VisibleKept ==
    ASSUME IInv, IInv', NEW layer, NEW page,
           \A p \in DOMAIN files' : p.layer = layer /\ p.page = page =>
             /\ p \in DOMAIN catalog'.index <=> p \in DOMAIN catalog.index
             /\ p \in DOMAIN catalog.index => files'[p] = files[p],
           DOMAIN files \subseteq DOMAIN files'
    PROVE  Visible(layer, page)' = Visible(layer, page)
<1>1. DOMAIN catalog.index \subseteq DOMAIN files /\ DOMAIN catalog'.index \subseteq DOMAIN files'
  BY DEF IInv, StoreOK
<1> DEFINE S == {p \in DOMAIN catalog.index : p.layer = layer /\ p.page = page}
           T == {p \in DOMAIN catalog'.index : p.layer = layer /\ p.page = page}
<1>2. S = T /\ \A p \in S : p \in DOMAIN files /\ p \in DOMAIN files' /\ files'[p] = files[p]
  BY <1>1
<1>3. Visible(layer, page) = UNION {Range(files[p]) : p \in S \cap DOMAIN files}
  BY DEF Visible, ShardsOf
<1>4. Visible(layer, page)' = UNION {Range(files'[p]) : p \in T \cap DOMAIN files'}
  BY DEF Visible, ShardsOf
<1> HIDE DEF S, T
<1> QED
  BY <1>2, <1>3, <1>4

LEMMA BriefInit == ASSUME NEW w \in Writers, Init PROVE BriefOK(w)
<1>1. /\ DOMAIN files = {} /\ work[w].pc = "idle" /\ DOMAIN catalog.index = {}
  BY NoPathsFacts DEF Init, NoWork
<1>2. ASSUME NEW page, NEW layer PROVE Visible(layer, page) = {}
  BY <1>1 DEF Visible
<1>3. ASSUME NEW page PROVE Briefed(page)
  <2>1. Visible("live", page) = {} /\ Visible("briefings", page) = {} /\ Abouts({}) = {}
    BY <1>2 DEF Abouts
  <2> QED
    BY <2>1, BriefedIs
<1> QED
  BY <1>1, <1>3 DEF BriefOK, Writing

LEMMA WritesScripts == ASSUME NEW state \in States PROVE Writes(state) \in Scripts /\ Head(Writes(state)) = "raw"
BY DEF States, Writes, Scripts

\* The next content of the briefing's shard is the new briefing.
LEMMA BriefingContent ==
    ASSUME NEW w \in Writers, One(w), BriefOK(w), crashes + torn = 0, work[w].pc = "body",
           Layer(w) = "briefings"
    PROVE  /\ work[w].latest = 0 /\ Content(w) = <<work[w].entry>> /\ ~Exceeds(Content(w))
<1> DEFINE e == work[w].entry
<1>1. /\ Typed /\ StoreOK /\ e \in Entry /\ e.id = BriefingId
      /\ IsLatest("briefings", work[w].page, work[w].latest)
  BY DEF One, IInv, WriterOK, ShardOK
<1>2. \A p \in DOMAIN files : p.layer = "briefings" =>
        p.seq = 0 /\ Len(files[p]) = 1 /\ files[p][1].id = BriefingId
  BY DEF BriefOK
<1>3. work[w].latest = 0
  BY <1>1, <1>2 DEF IsLatest, ShardsOf, StoreOK
<1>4. Held(w) = << >> \/ (Len(Held(w)) = 1 /\ Held(w)[1].id = BriefingId)
  BY <1>1, <1>2, HeldType DEF Shard
<1>5. Held(w) \in Seq(Entry)
  BY <1>1, HeldType
<1> DEFINE held == Held(w)
<1>6. Content(w) = Upsert(held, e)
  BY DEF Content
<1> HIDE DEF e, held
<1>7. Upsert(held, e) = <<e>>
  <2>1. CASE held = << >>
    <3>1. ~\E i \in DOMAIN held : held[i].id = e.id
      BY <2>1, EmptyFacts
    <3> QED
      BY <2>1, <3>1 DEF Upsert
  <2>2. CASE Len(held) = 1 /\ held[1].id = e.id
    <3>1. DOMAIN held = {1} /\ 1 \in DOMAIN held
      BY <1>5, <2>2 DEF held
    <3>2. Upsert(held, e) = [i \in {1} |-> e]
      BY <2>2, <3>1 DEF Upsert
    <3>3. <<e>> = [i \in {1} |-> e]
      OBVIOUS
    <3> QED
      BY <3>2, <3>3
  <2> QED
    BY <1>1, <1>4, <2>1, <2>2 DEF held, e
<1>8. ~Exceeds(<<e>>)
  <2>1. Len(<<e>>) = 1 /\ \A x \in Range(<<e>>) : x = e
    BY DEF Range
  <2>2. e.id \notin Heavy
    BY <1>1, HeavyAssumption DEF e
  <2> QED
    BY <2>1, <2>2, LimitAssumption DEF Exceeds
<1> QED
  BY <1>3, <1>6, <1>7, <1>8 DEF e

(***************************************************************************)
(* The parts of BriefOK after a step, where the page stands for itself.    *)
(***************************************************************************)
LEMMA BriefFrom ==
    ASSUME NEW w, NEW pg, work'[w].page = pg,
           work'[w].pc # "idle" => work'[w].todo \in Scripts,
           \A p \in DOMAIN files' : p.layer = "briefings" =>
             /\ p.seq = 0
             /\ (work'[w].pc # "fill" \/ p # work'[w].path) =>
                  Len(files'[p]) = 1 /\ files'[p][1].id = BriefingId,
           work'[w].pc \in Writing /\ Layer(w)' = "briefings" =>
             work'[w].path.seq = 0 /\ work'[w].body = <<work'[w].entry>>,
           work'[w].pc # "idle" /\ Layer(w)' = "briefings" =>
             /\ Visible("live", pg)' # {}
             /\ work'[w].pc # "ensure" => work'[w].entry.about = Quoted(Visible("live", pg)'),
           \A page \in Pages : ~Exempt(w, page)' => Briefed(page)'
    PROVE  BriefOK(w)'
BY DEF BriefOK, Quoted, Top

\* A step that leaves the store, and goes on with the same job and entry.
LEMMA BriefKept ==
    ASSUME NEW w, Writers = {w}, IInv, IInv', BriefOK(w), crashes + torn = 0, files' = files,
           DOMAIN catalog'.index = DOMAIN catalog.index,
           SameShard(work[w], work'[w]), work[w].pc \notin {"idle", "ensure", "fill"},
           work'[w].pc \notin {"idle", "fill"},
           work'[w].pc \in Writing => work[w].pc \in Writing
    PROVE  BriefOK(w)'
<1>1. \A layer, page : Visible(layer, page)' = Visible(layer, page)
  BY VisibleKept
<1>2. ASSUME NEW page \in Pages, Briefed(page) PROVE Briefed(page)'
  BY <1>1, <1>2, BriefedKept
<1>3. PICK pg : pg = work[w].page
  OBVIOUS
<1>4. /\ work'[w].page = pg /\ work'[w].todo = work[w].todo /\ work'[w].entry = work[w].entry
      /\ work'[w].path = work[w].path /\ work'[w].body = work[w].body
  BY <1>3 DEF SameShard, SameJob
<1>5. Visible("live", pg)' = Visible("live", pg)
  BY <1>1
<1>6. ASSUME NEW page \in Pages, ~Exempt(w, page)' PROVE ~Exempt(w, page)
  BY <1>3, <1>4, <1>6 DEF Exempt
<1>7. \A page \in Pages : ~Exempt(w, page)' => Briefed(page)'
  BY <1>2, <1>6 DEF BriefOK
<1>8. Layer(w)' = Layer(w)
  BY <1>4 DEF Layer
<1>9. work'[w].pc # "idle" /\ Layer(w) = "briefings" =>
        /\ Visible("live", pg)' # {}
        /\ work'[w].pc # "ensure" => work'[w].entry.about = Quoted(Visible("live", pg)')
  BY <1>3, <1>4, <1>5 DEF BriefOK
<1>10. /\ work'[w].todo \in Scripts
       /\ \A p \in DOMAIN files' : p.layer = "briefings" =>
            p.seq = 0 /\ Len(files'[p]) = 1 /\ files'[p][1].id = BriefingId
       /\ work'[w].pc \in Writing /\ Layer(w)' = "briefings" =>
            work'[w].path.seq = 0 /\ work'[w].body = <<work'[w].entry>>
  BY <1>4, <1>8 DEF BriefOK
<1> QED
  BY <1>4, <1>7, <1>8, <1>9, <1>10, BriefFrom

\* A step that writes a shard disturbs only the page and layer of the shard.
LEMMA BriefShard ==
    ASSUME NEW w, Writers = {w}, One(w), IInv', BriefOK(w), crashes + torn = 0, catalog' = catalog,
           SameShard(work[w], work'[w]), NEW x \in Seq(Entry),
           files' = Put(files, work[w].path, x),
           \/ work[w].pc = "open" /\ work'[w].pc = "fill"
           \/ work[w].pc = "fill" /\ work'[w].pc = "index" /\ x = work[w].body
    PROVE  BriefOK(w)'
<1>0. /\ IInv /\ WriterOK(w) /\ ShardOK(w) /\ files \in Shards /\ work[w].path \in Path
      /\ work[w].pc \in Writing
  BY DEF One, IInv, Typed, WriterOK, Writing
<1>1. /\ DOMAIN files' = DOMAIN files \cup {work[w].path} /\ files'[work[w].path] = x
      /\ \A p \in DOMAIN files : p # work[w].path => files'[p] = files[p]
  BY <1>0, PutFiles
<1>2. PICK pg : pg = work[w].page
  OBVIOUS
<1>3. /\ work'[w].page = pg /\ work'[w].todo = work[w].todo /\ work'[w].entry = work[w].entry
      /\ work'[w].path = work[w].path /\ work'[w].body = work[w].body /\ Layer(w)' = Layer(w)
  BY <1>2 DEF SameShard, SameJob, Layer
<1>4. work[w].path.layer = Layer(w) /\ work[w].path.page = pg
  BY <1>0, <1>2 DEF ShardOK
<1>5. ASSUME NEW layer, NEW page, layer # Layer(w) \/ page # pg
      PROVE  Visible(layer, page)' = Visible(layer, page)
  <2>1. \A p \in DOMAIN files' : p.layer = layer /\ p.page = page =>
          /\ p \in DOMAIN catalog'.index <=> p \in DOMAIN catalog.index
          /\ p \in DOMAIN catalog.index => files'[p] = files[p]
    BY <1>0, <1>1, <1>4, <1>5 DEF IInv, StoreOK
  <2> QED
    BY <1>0, <1>1, <2>1, VisibleKept
<1>6. work[w].todo \in Scripts /\ work[w].pc # "idle" /\ Layer(w) = Head(work[w].todo)
  BY DEF BriefOK, Layer
<1>7. Layer(w) \in {"live", "briefings"} => work[w].todo \in {<<"live", "briefings">>, <<"briefings">>}
  BY <1>6 DEF Scripts
<1>8. ASSUME NEW page \in Pages, ~Exempt(w, page)' PROVE Briefed(page)'
  <2>1. ~Exempt(w, page)
    BY <1>2, <1>3, <1>6, <1>8 DEF Exempt
  <2>2. Briefed(page)
    BY <2>1 DEF BriefOK
  <2>3. page # pg \/ Layer(w) \notin {"live", "briefings"}
    BY <1>2, <1>6, <1>7, <2>1 DEF Exempt
  <2>4. /\ Visible("briefings", page)' = Visible("briefings", page)
        /\ Visible("live", page)' = Visible("live", page)
    BY <1>5, <2>3
  <2> QED
    BY <2>2, <2>4, BriefedKept
<1>9. Layer(w) = "briefings" =>
        /\ Visible("live", pg)' # {}
        /\ work'[w].entry.about = Quoted(Visible("live", pg)')
  <2> SUFFICES ASSUME Layer(w) = "briefings"
               PROVE  Visible("live", pg)' # {} /\ work[w].entry.about = Quoted(Visible("live", pg)')
    BY <1>3
  <2>1. Visible("live", pg)' = Visible("live", pg)
    BY <1>5
  <2>2. Visible("live", pg) # {} /\ work[w].entry.about = Quoted(Visible("live", pg))
    BY <1>2, <1>6 DEF BriefOK
  <2> QED
    BY <2>1, <2>2
<1>10. Layer(w) = "briefings" => work[w].path.seq = 0 /\ work[w].body = <<work[w].entry>>
  BY <1>0 DEF BriefOK
<1>11. ASSUME NEW p \in DOMAIN files', p.layer = "briefings"
       PROVE  /\ p.seq = 0
              /\ (work'[w].pc # "fill" \/ p # work'[w].path) =>
                   Len(files'[p]) = 1 /\ files'[p][1].id = BriefingId
  <2>1. CASE p # work[w].path
    BY <1>1, <1>11, <2>1 DEF BriefOK
  <2>2. CASE p = work[w].path
    <3>1. p.seq = 0 /\ work[w].body = <<work[w].entry>> /\ Layer(w) = "briefings"
      BY <1>4, <1>10, <1>11, <2>2
    <3>2. work[w].entry.id = BriefingId
      BY <1>0, <3>1 DEF ShardOK, Writing
    <3>3. Len(<<work[w].entry>>) = 1 /\ <<work[w].entry>>[1] = work[w].entry
      OBVIOUS
    <3> QED
      BY <1>1, <1>3, <2>2, <3>1, <3>2, <3>3
  <2> QED
    BY <2>1, <2>2
<1> QED
  BY <1>3, <1>6, <1>8, <1>9, <1>10, <1>11, BriefFrom

\* A layer is done with: the next one follows, or the capture has returned.
LEMMA BriefRename ==
    ASSUME NEW w, Writers = {w}, One(w), IInv', BriefOK(w), crashes + torn = 0, Rename(w)
    PROVE  BriefOK(w)'
<1>0. /\ w \in Writers /\ IInv /\ WriterOK(w) /\ ShardOK(w) /\ files \in Shards /\ work[w].pc = "rename"
      /\ DOMAIN files \subseteq Path
  BY ShardFacts DEF One, IInv, Typed, Rename
<1>1. /\ tmp.exists /\ work[w].path \in DOMAIN files /\ files[work[w].path] = work[w].body
      /\ DOMAIN catalog'.index = DOMAIN catalog.index \cup {work[w].path}
  BY <1>0, RenameCatalog
<1>2. /\ files' = files
      /\ \/ Len(work[w].todo) = 1 /\ work'[w] = NoWork
         \/ /\ Len(work[w].todo) # 1 /\ work'[w].pc = "ensure" /\ work'[w].page = work[w].page
            /\ work'[w].todo = Tail(work[w].todo)
  BY <1>0, <1>1, RenameDoes
<1>3. work'[w].pc \in {"idle", "ensure"}
  BY <1>2 DEF NoWork
<1>4. PICK pg : pg = work[w].page
  OBVIOUS
<1>5. PICK path, body : path = work[w].path /\ body = work[w].body
  OBVIOUS
<1>6. /\ path \in Path /\ path.layer = Layer(w) /\ path.page = pg /\ path \in DOMAIN files
      /\ files[path] = body /\ DOMAIN catalog'.index = DOMAIN catalog.index \cup {path}
      /\ (\E j \in DOMAIN body : body[j] = work[w].entry)
      /\ (Layer(w) = "briefings" => body = <<work[w].entry>> /\ path.seq = 0)
  BY <1>0, <1>1, <1>4, <1>5 DEF ShardOK, Writing, BriefOK
<1>7. ASSUME NEW layer, NEW page, layer # Layer(w) \/ page # pg
      PROVE  Visible(layer, page)' = Visible(layer, page)
  <2>1. \A p \in DOMAIN files' : p.layer = layer /\ p.page = page =>
          /\ p \in DOMAIN catalog'.index <=> p \in DOMAIN catalog.index
          /\ p \in DOMAIN catalog.index => files'[p] = files[p]
    BY <1>2, <1>6, <1>7
  <2> QED
    BY <1>0, <1>2, <2>1, VisibleKept
<1>8. work[w].todo \in Scripts /\ Layer(w) = Head(work[w].todo)
  BY <1>0 DEF BriefOK, Layer
<1>9. ASSUME NEW page \in Pages, ~Exempt(w, page), Layer(w) \notin {"live", "briefings"} \/ page # pg
      PROVE  Briefed(page)'
  <2>1. Briefed(page)
    BY <1>9 DEF BriefOK
  <2>2. /\ Visible("briefings", page)' = Visible("briefings", page)
        /\ Visible("live", page)' = Visible("live", page)
    BY <1>7, <1>9
  <2> QED
    BY <2>1, <2>2, BriefedKept
<1>10. \A p \in DOMAIN files' : p.layer = "briefings" =>
         p.seq = 0 /\ Len(files'[p]) = 1 /\ files'[p][1].id = BriefingId
  BY <1>0, <1>2 DEF BriefOK
<1>11. CASE work[w].todo = <<"briefings">>
  <2>1. Layer(w) = "briefings" /\ Len(work[w].todo) = 1 /\ work'[w] = NoWork
    BY <1>2, <1>8, <1>11
  <2>2. Visible("live", pg)' = Visible("live", pg)
    BY <1>7, <2>1
  <2>3. Visible("live", pg) # {} /\ work[w].entry.about = Quoted(Visible("live", pg))
    BY <1>0, <1>4, <2>1 DEF BriefOK
  <2>4. Visible("briefings", pg)' = {work[w].entry}
    <3> DEFINE S == {p \in DOMAIN catalog'.index : p.layer = "briefings" /\ p.page = pg}
    <3>1. Visible("briefings", pg)' = UNION {Range(files'[p]) : p \in S \cap DOMAIN files'}
      BY DEF Visible, ShardsOf
    <3>2. ASSUME NEW p \in S PROVE p = path
      <4>1. p \in DOMAIN files /\ p \in Path /\ p.layer = "briefings" /\ p.page = pg
        BY <1>0, <1>6 DEF IInv, StoreOK
      <4>2. p.seq = 0
        BY <4>1 DEF BriefOK
      <4> QED
        BY <1>6, <2>1, <4>1, <4>2 DEF Path
    <3>3. S \cap DOMAIN files' = {path}
      BY <1>2, <1>6, <2>1, <3>2
    <3> HIDE DEF S
    <3>4. Visible("briefings", pg)' = Range(files'[path])
      BY <3>1, <3>3
    <3>5. files'[path] = <<work[w].entry>> /\ Range(<<work[w].entry>>) = {work[w].entry}
      BY <1>2, <1>6, <2>1 DEF Range
    <3> QED
      BY <3>4, <3>5
  <2>5. Abouts(Visible("briefings", pg)') =
          IF Visible("live", pg)' = {} THEN {} ELSE {Quoted(Visible("live", pg)')}
    <3>1. Abouts({work[w].entry}) = {work[w].entry.about}
      BY DEF Abouts
    <3> QED
      BY <2>2, <2>3, <2>4, <3>1
  <2>6. Briefed(pg)'
    BY <2>5 DEF Briefed, Abouts, Quoted, Top
  <2>7. \A page \in Pages : Briefed(page)'
    <3>1. ASSUME NEW page \in Pages, page # pg PROVE ~Exempt(w, page)
      BY <1>4, <3>1 DEF Exempt
    <3> QED
      BY <1>9, <2>6, <3>1
  <2>8. work'[w].pc = "idle" /\ work'[w].page = None
    BY <2>1 DEF NoWork
  <2> QED
    BY <1>10, <2>7, <2>8, BriefFrom DEF Writing
<1>12. CASE work[w].todo = <<"live", "briefings">>
  <2>1. /\ Layer(w) = "live" /\ Len(work[w].todo) # 1 /\ Tail(work[w].todo) = <<"briefings">>
    BY <1>8, <1>12
  <2>2. /\ work'[w].pc = "ensure" /\ work'[w].page = pg /\ work'[w].todo = <<"briefings">>
    BY <1>2, <1>4, <2>1
  <2>3. Visible("live", pg)' # {}
    <3>1. path \in {p \in DOMAIN catalog'.index : p.layer = "live" /\ p.page = pg} \cap DOMAIN files'
      BY <1>2, <1>6, <2>1
    <3>2. Range(files'[path]) # {}
      BY <1>2, <1>6 DEF Range
    <3> QED
      BY <3>1, <3>2 DEF Visible, ShardsOf
  <2>4. ASSUME NEW page \in Pages, ~Exempt(w, page)' PROVE Briefed(page)'
    <3>1. page # pg
      BY <2>2, <2>4 DEF Exempt
    <3>2. ~Exempt(w, page)
      BY <1>4, <3>1 DEF Exempt
    <3> QED
      BY <1>9, <3>1, <3>2
  <2> QED
    BY <1>10, <2>2, <2>3, <2>4, BriefFrom DEF Writing, Scripts
<1>13. CASE work[w].todo \notin {<<"live", "briefings">>, <<"briefings">>}
  <2>1. Layer(w) \notin {"live", "briefings"} /\ \A page \in Pages : ~Exempt(w, page)
    BY <1>8, <1>13 DEF Exempt, Scripts
  <2>2. \A page \in Pages : Briefed(page)'
    BY <1>9, <2>1
  <2>3. work'[w].pc # "idle" => work'[w].todo \in Scripts /\ Layer(w)' # "briefings"
    <3> SUFFICES ASSUME work'[w].pc # "idle"
                 PROVE  work'[w].todo \in Scripts /\ Head(work'[w].todo) # "briefings"
      BY DEF Layer
    <3>1. Len(work[w].todo) # 1 /\ work'[w].todo = Tail(work[w].todo)
      BY <1>2 DEF NoWork
    <3>2. work[w].todo \in {<<"raw", "drafts">>, <<"raw", "live", "briefings">>}
      BY <1>8, <1>13, <3>1 DEF Scripts
    <3>3. CASE work[w].todo = <<"raw", "drafts">>
      <4>1. Tail(<<"raw", "drafts">>) = <<"drafts">>
        OBVIOUS
      <4> QED
        BY <3>1, <3>3, <4>1 DEF Scripts
    <3>4. CASE work[w].todo = <<"raw", "live", "briefings">>
      <4>1. Tail(<<"raw", "live", "briefings">>) = <<"live", "briefings">>
        OBVIOUS
      <4> QED
        BY <3>1, <3>4, <4>1 DEF Scripts
    <3> QED
      BY <3>2, <3>3, <3>4
  <2>4. PICK pq : pq = work'[w].page
    OBVIOUS
  <2>5. work'[w].pc = "idle" \/ Layer(w)' # "briefings"
    BY <2>3
  <2> QED
    BY <1>3, <1>10, <2>2, <2>3, <2>4, <2>5, BriefFrom DEF Writing
<1> QED
  BY <1>11, <1>12, <1>13

LEMMA BriefStep ==
    ASSUME NEW w, Writers = {w}, One(w), One(w)', BriefOK(w), [Next]_vars
    PROVE  BriefOK(w)'
<1> SUFFICES ASSUME (crashes + torn = 0)' PROVE BriefOK(w)'
  BY DEF BriefOK
<1>0. /\ w \in Writers /\ IInv /\ IInv' /\ SInv(w) /\ CatalogOK(w) /\ ShardOK(w)
      /\ files \in Shards /\ work[w] \in Work /\ WriterOK(w)
  BY DEF One, IInv, Typed
<1>1. crashes + torn = 0
  <2>1. ~Fail(w)
    BY <1>0, FailDoes
  <2>2. crashes' = crashes /\ torn' = torn
    BY <2>1, OneSteps DEF vars, Step, Capture, Ensure, InitCatalog, ReadLatest, ReadBody,
       OpenShard, FillShard, IndexShard, OpenTmp, WriteTmp, Rename
  <2> QED
    BY <2>2
<1>2. PICK pg : pg = work[w].page
  OBVIOUS
<1>3. ASSUME files' = files, DOMAIN catalog'.index = DOMAIN catalog.index,
             NEW page \in Pages, ~Exempt(w, page)
      PROVE  Briefed(page)'
  <2>1. /\ Visible("briefings", page)' = Visible("briefings", page)
        /\ Visible("live", page)' = Visible("live", page)
    BY <1>0, <1>3, VisibleKept
  <2>2. Briefed(page)
    BY <1>1, <1>3 DEF BriefOK
  <2> QED
    BY <2>1, <2>2, BriefedKept
<1>4. CASE UNCHANGED vars
  <2>1. /\ work' = work /\ files' = files /\ catalog' = catalog
    BY <1>4 DEF vars
  <2>2. Visible("live", pg)' = Visible("live", pg)
    BY <1>0, <2>1, VisibleKept
  <2>3. \A page \in Pages : ~Exempt(w, page)' => Briefed(page)'
    BY <1>3, <2>1 DEF Exempt
  <2>4. work[w].pc # "idle" /\ Layer(w) = "briefings" =>
          /\ Visible("live", pg)' # {}
          /\ work[w].pc # "ensure" => work[w].entry.about = Quoted(Visible("live", pg)')
    BY <1>1, <1>2, <2>2 DEF BriefOK
  <2>5. Layer(w)' = Layer(w) /\ work'[w].page = pg
    BY <1>2, <2>1 DEF Layer
  <2>6. /\ work'[w].pc # "idle" => work'[w].todo \in Scripts
        /\ \A p \in DOMAIN files' : p.layer = "briefings" =>
             /\ p.seq = 0
             /\ (work'[w].pc # "fill" \/ p # work'[w].path) =>
                  Len(files'[p]) = 1 /\ files'[p][1].id = BriefingId
        /\ work'[w].pc \in Writing /\ Layer(w)' = "briefings" =>
             work'[w].path.seq = 0 /\ work'[w].body = <<work'[w].entry>>
    BY <1>1, <2>1, <2>5 DEF BriefOK
  <2> QED
    BY <2>1, <2>3, <2>4, <2>5, <2>6, BriefFrom
<1>5. CASE \E page \in Pages, id \in Ids, state \in States : Capture(w, page, id, state)
  <2>1. PICK page \in Pages, id \in Ids, state \in States : Capture(w, page, id, state)
    BY <1>5
  <2>2. /\ work[w].pc = "idle" /\ work'[w].pc = "ensure" /\ work'[w].page = page
        /\ work'[w].todo = Writes(state) /\ files' = files /\ catalog' = catalog
    BY <1>0, <2>1, CaptureDoes
  <2>3. work'[w].todo \in Scripts /\ Layer(w)' # "briefings"
    BY <2>2, WritesScripts DEF Layer
  <2>4. \A x \in Pages : ~Exempt(w, x)' => Briefed(x)'
    BY <1>3, <2>2 DEF Exempt
  <2>5. \A p \in DOMAIN files' : p.layer = "briefings" =>
          p.seq = 0 /\ Len(files'[p]) = 1 /\ files'[p][1].id = BriefingId
    BY <1>1, <2>2 DEF BriefOK
  <2> QED
    BY <2>2, <2>3, <2>4, <2>5, BriefFrom DEF Writing
<1>6. CASE Ensure(w)
  <2>1. /\ work[w].pc = "ensure" /\ work'[w].pc \in {"latest", "init"} /\ SameJob(work[w], work'[w])
        /\ work'[w].entry = EntryFor(w) /\ files' = files /\ catalog' = catalog
    BY <1>0, <1>6, EnsureDoes
  <2>2. work'[w].page = pg /\ work'[w].todo = work[w].todo /\ Layer(w)' = Layer(w)
    BY <1>2, <2>1 DEF SameJob, Layer
  <2>3. Visible("live", pg)' = Visible("live", pg)
    BY <1>0, <2>1, VisibleKept
  <2>4. Layer(w) = "briefings" =>
          Visible("live", pg)' # {} /\ work'[w].entry.about = Quoted(Visible("live", pg)')
    BY <1>1, <1>2, <2>1, <2>3 DEF BriefOK, EntryFor, Quoted
  <2>5. \A page \in Pages : ~Exempt(w, page)' => Briefed(page)'
    BY <1>2, <1>3, <2>1, <2>2 DEF Exempt
  <2>6. \A p \in DOMAIN files' : p.layer = "briefings" =>
          p.seq = 0 /\ Len(files'[p]) = 1 /\ files'[p][1].id = BriefingId
    BY <1>1, <2>1 DEF BriefOK
  <2>7. work'[w].todo \in Scripts
    BY <1>1, <2>1, <2>2 DEF BriefOK
  <2> QED
    BY <2>1, <2>2, <2>4, <2>5, <2>6, <2>7, BriefFrom DEF Writing
<1>7. CASE InitCatalog(w)
  <2>1. DOMAIN catalog'.index = DOMAIN catalog.index
    <3>1. DOMAIN catalog.index \subseteq DOMAIN files /\ DOMAIN files = {}
      BY <1>0, <1>7 DEF CatalogOK, IInv, StoreOK, InitCatalog
    <3>2. catalog'.index = NoPaths
      BY <1>0, <1>7, InitCatalogDoes
    <3> QED
      BY <3>1, <3>2, NoPathsFacts
  <2> QED
    BY <1>0, <1>1, <1>7, <2>1, InitCatalogDoes, BriefKept DEF Writing
<1>8. CASE ReadLatest(w)
  BY <1>0, <1>1, <1>8, ReadLatestDoes, BriefKept DEF Writing
<1>9. CASE ReadBody(w)
  <2>1. /\ work[w].pc = "body" /\ work'[w].pc = "open" /\ SameJob(work[w], work'[w])
        /\ work'[w].entry = work[w].entry /\ files' = files /\ catalog' = catalog
        /\ \/ work'[w].path = Shard(w, work[w].latest) /\ work'[w].body = Content(w)
           \/ Exceeds(Content(w))
    BY <1>0, <1>9, ReadBodyDoes
  <2>2. /\ work'[w].page = pg /\ work'[w].todo = work[w].todo /\ Layer(w)' = Layer(w)
    BY <1>2, <2>1 DEF SameJob, Layer
  <2>3. Layer(w) = "briefings" => work'[w].path.seq = 0 /\ work'[w].body = <<work'[w].entry>>
    BY <1>0, <1>1, <2>1, BriefingContent DEF Shard
  <2>4. Visible("live", pg)' = Visible("live", pg)
    BY <1>0, <2>1, VisibleKept
  <2>5. Layer(w) = "briefings" =>
          Visible("live", pg)' # {} /\ work'[w].entry.about = Quoted(Visible("live", pg)')
    BY <1>1, <1>2, <2>1, <2>4 DEF BriefOK
  <2>6. \A page \in Pages : ~Exempt(w, page)' => Briefed(page)'
    BY <1>2, <1>3, <2>1, <2>2 DEF Exempt
  <2>7. /\ \A p \in DOMAIN files' : p.layer = "briefings" =>
             p.seq = 0 /\ Len(files'[p]) = 1 /\ files'[p][1].id = BriefingId
        /\ work'[w].todo \in Scripts
    BY <1>1, <2>1, <2>2 DEF BriefOK
  <2> QED
    BY <2>2, <2>3, <2>5, <2>6, <2>7, BriefFrom
<1>10. CASE OpenShard(w)
  BY <1>0, <1>1, <1>10, OpenShardDoes, EmptyFacts, BriefShard
<1>11. CASE FillShard(w)
  BY <1>0, <1>1, <1>11, FillShardDoes, BriefShard DEF Work
<1>12. CASE IndexShard(w)
  BY <1>0, <1>1, <1>12, IndexShardDoes, BriefKept DEF Writing
<1>13. CASE OpenTmp(w)
  BY <1>0, <1>1, <1>13, OpenTmpDoes, BriefKept DEF Writing
<1>14. CASE WriteTmp(w)
  <2>1. work[w].fd = "tmp" /\ tmp = [exists |-> TRUE, index |-> NoPaths]
    BY <1>0, <1>14 DEF CatalogOK, WriteTmp
  <2> QED
    BY <1>0, <1>1, <1>14, <2>1, WriteTmpDoes, BriefKept DEF Writing
<1>15. CASE Rename(w)
  BY <1>0, <1>1, <1>15, BriefRename
<1>16. CASE Fail(w)
  BY <1>0, <1>16, FailDoes
<1> QED
  BY <1>4, <1>5, <1>6, <1>7, <1>8, <1>9, <1>10, <1>11, <1>12, <1>13, <1>14, <1>15, <1>16, OneSteps
     DEF Step

-----------------------------------------------------------------------------
(***************************************************************************)
(* The results for what a reader finds.                                    *)
(***************************************************************************)
LEMMA OneInvariance == ASSUME NEW w, Writers = {w} PROVE Spec => []One(w)
<1>1. Init => One(w)
  BY OneInit
<1>2. One(w) /\ [Next]_vars => One(w)'
  BY OneStep
<1> QED
  BY <1>1, <1>2, PTL DEF Spec

(***************************************************************************)
(* With one writer and no failure the catalog names, between captures,     *)
(* every shard there is, with its number of entries (CatalogExact).        *)
(***************************************************************************)
THEOREM CatalogIsExact == ASSUME NEW w, Writers = {w} PROVE Spec => []CatalogExact
<1>1. Init => ExactOK(w)
  BY ExactInit
<1>2. One(w) /\ ExactOK(w) /\ [Next]_vars => ExactOK(w)'
  BY ExactStep
<1>3. ExactOK(w) => CatalogExact
  BY DEF ExactOK, CatalogExact, Idle, Pending, Filled
<1> QED
  BY <1>1, <1>2, <1>3, OneInvariance, PTL DEF Spec

(***************************************************************************)
(* With one writer a capture that has returned stays for a reader to find, *)
(* wherever later captures fail, unless one of them leaves a shard         *)
(* truncated (AckedKept).                                                  *)
(***************************************************************************)
THEOREM AckedStay == ASSUME NEW w, Writers = {w} PROVE Spec => []AckedKept
<1>1. Init => AckOK(w)
  BY AckInit
<1>2. One(w) /\ One(w)' /\ AckOK(w) /\ [Next]_vars => AckOK(w)'
  BY AckStep
<1>3. One(w) /\ AckOK(w) => AckedKept
  <2> SUFFICES ASSUME One(w), AckOK(w), torn = 0, Idle, NEW k \in acked
               PROVE  /\ \E e \in Visible("raw", k.page) : e.id = k.id /\ e.at = k.at
                      /\ \A layer \in k.layers \cap {"drafts", "live"} : Kept(layer, k)
    BY DEF AckedKept
  <2>1. work[w].pc = "idle" /\ StoreOK
    BY DEF Idle, One, IInv
  <2>2. ASSUME NEW layer \in k.layers, layer # "briefings"
        PROVE  \E e \in Visible(layer, k.page) : Fresh(layer, e, k.id, k.at)
    <3>1. PICK p \in ShardsOf(layer, k.page) : \E j \in DOMAIN files[p] : Fresh(layer, files[p][j], k.id, k.at)
      BY <2>1, <2>2 DEF AckOK, Lasting, Tells, Shown
    <3>2. p \in DOMAIN files
      BY <2>1 DEF ShardsOf, StoreOK
    <3> QED
      BY <3>1, <3>2 DEF Visible, Range
  <2>3. "raw" \in k.layers
    BY DEF AckOK
  <2> QED
    BY <2>2, <2>3 DEF Fresh, Kept
<1> QED
  BY <1>1, <1>2, <1>3, OneInvariance, PTL DEF Spec

(***************************************************************************)
(* With one writer and no failure, between captures a page's one briefing  *)
(* quotes the newest live entries of the page (BriefingFresh).             *)
(***************************************************************************)
THEOREM BriefingsAreFresh == ASSUME NEW w, Writers = {w} PROVE Spec => []BriefingFresh
<1>1. Init => BriefOK(w)
  BY BriefInit
<1>2. One(w) /\ One(w)' /\ BriefOK(w) /\ [Next]_vars => BriefOK(w)'
  BY BriefStep
<1>3. BriefOK(w) => BriefingFresh
  BY DEF BriefOK, BriefingFresh, Idle, Exempt
<1> QED
  BY <1>1, <1>2, <1>3, OneInvariance, PTL DEF Spec
=============================================================================
