------------------------ MODULE ProjectKnowledgeProofs ------------------------
(***************************************************************************)
(* Theorems about ProjectKnowledge, for any processes, projects, files,    *)
(* tasks and questions, and wherever the statements of the writers come    *)
(* between the SELECTs of a question: how a walk to the parents ends, how  *)
(* a question fails, what an answer shows and what a lineage finds.        *)
(*                                                                         *)
(* Each statement of a question has a lemma that says what it does to the  *)
(* locals of who asks (ReadMoves puts them together), so have the steps    *)
(* of the writers (WriterMoves).  The invariants rest on Typed and on      *)
(* Noted, which says what the history has of a question's project.         *)
(***************************************************************************)
EXTENDS ProjectKnowledge, FiniteSetTheorems, SequenceTheorems, TLAPS

\* A process that does something does it to a project.
Placed == \A w \in Procs : ~At(w, "idle") => work[w].project \in Projects

\* A question goes on.
Onward(s, t) ==
    /\ s.pc \notin {"idle", "writing", "done", "failed"} /\ t.pc \notin {"idle", "writing"}
    /\ t.project = s.project /\ t.ask = s.ask

SameAnswer(s, t) == t.hits = s.hits /\ t.changed = s.changed /\ t.pack = s.pack

Moved(r) == work' = [work EXCEPT ![r] = work'[r]] /\ work'[r] \in Work

-----------------------------------------------------------------------------
LEMMA CardFields ==
    ASSUME TypeOK, NEW t \in Tasks, tasks[t] # None
    PROVE  /\ tasks[t].project \in Projects /\ tasks[t].parent \in Tasks \cup {None}
           /\ tasks[t].related \in SUBSET Tasks /\ tasks[t].files \in SUBSET Files
           /\ tasks[t].symbols \in SUBSET Files /\ tasks[t].key \in Keys \cup {None}
BY DEF TypeOK, CardOf

LEMMA WithType ==
    ASSUME TypeOK, NEW l \in Lineages, NEW ts \in SUBSET Tasks, \A t \in ts : tasks[t] # None
    PROVE  /\ With(l, ts) \in Lineages
           /\ With(l, ts).focus = l.focus /\ With(l, ts).chain = l.chain
           /\ With(l, ts).related = l.related
<1> DEFINE fs == l.files \cup UNION {tasks[t].files : t \in ts}
           ss == l.symbols \cup UNION {tasks[t].symbols : t \in ts}
           ks == l.keys \cup ({tasks[t].key : t \in ts} \ {None})
<1>1. fs \in SUBSET Files
  BY CardFields DEF Lineages
<1>2. ss \in SUBSET Files
  BY CardFields DEF Lineages
<1>3. ks \in SUBSET Keys
  BY CardFields DEF Lineages
<1>4. With(l, ts) = [l EXCEPT !.files = fs, !.symbols = ss, !.keys = ks]
  BY DEF With
<1> HIDE DEF fs, ss, ks
<1> QED BY <1>1, <1>2, <1>3, <1>4 DEF Lineages

LEMMA NothingTypes ==
    /\ NoQuery \in AskedOf /\ NoLineage \in Lineages /\ NoWork \in Work /\ NoView \in Views
<1>1. NoQuery \in AskedOf
  BY DEF NoQuery, AskedOf, Plans, Features
<1>2. <<>> \in Seq(Tasks) /\ <<>> \in Seq(Statements)
  BY EmptySeq
<1>3. NoLineage \in Lineages
  BY <1>2 DEF NoLineage, Lineages
<1>4. NoView \in Views
  BY DEF NoView, Views
<1>5. NoWork \in Work
  BY <1>1, <1>2, <1>3 DEF NoWork, Work, Pcs
<1> QED BY <1>1, <1>3, <1>4, <1>5

LEMMA Locals ==
    ASSUME TypeOK, NEW w \in Procs
    PROVE  work[w] \in Work /\ work[w].lineage \in Lineages /\ work[w].ask \in AskedOf
BY DEF TypeOK, Work


(***************************************************************************)
(* What a step of a question does to the locals of who asks.               *)
(***************************************************************************)
LEMMA Sets ==
    ASSUME work \in [Procs -> Work], NEW r \in Procs, NEW t \in Work, work' = [work EXCEPT ![r] = t]
    PROVE  work'[r] = t /\ Moved(r)
BY DEF Moved

LEMMA Goes ==
    ASSUME TypeOK, NEW r \in Readers, NEW pc \in Pcs, Goto(r, pc)
    PROVE  LET t == work'[r] IN
           /\ Moved(r) /\ SameAnswer(work[r], t)
           /\ t.pc = pc /\ t.project = work[r].project /\ t.ask = work[r].ask
           /\ t.lineage = work[r].lineage
<1> DEFINE s == work[r]
           t == [s EXCEPT !.pc = pc]
<1>1. work \in [Procs -> Work] /\ r \in Procs /\ s \in Work
  BY DEF TypeOK, Procs
<1>2. work' = [work EXCEPT ![r] = t]
  BY DEF Goto
<1>3. t \in Work /\ SameAnswer(s, t) /\ t.pc = pc /\ t.project = s.project /\ t.ask = s.ask
      /\ t.lineage = s.lineage
  BY <1>1 DEF Work, SameAnswer
<1> HIDE DEF t
<1>4. work'[r] = t /\ Moved(r)
  BY <1>1, <1>2, <1>3, Sets
<1> QED BY <1>3, <1>4

LEMMA ResolveProjectStep ==
    ASSUME TypeOK, NEW r \in Readers, ResolveProject(r)
    PROVE  LET s == work[r]  t == work'[r] IN
           /\ Moved(r) /\ Onward(s, t) /\ SameAnswer(s, t) /\ t.lineage = s.lineage
           /\ t.pc = "gate" \/ (t.pc = "failed" /\ ~Known(s.project))
<1>1. At(r, "resolve") /\ (Goto(r, "gate") \/ (Goto(r, "failed") /\ ~Known(work[r].project)))
  BY DEF ResolveProject, Goto, Ends
<1> QED BY <1>1, Goes DEF Pcs, Onward, At

LEMMA GateStep ==
    ASSUME TypeOK, NEW r \in Readers, Gate(r)
    PROVE  LET s == work[r]  t == work'[r] IN
           /\ Moved(r) /\ Onward(s, t) /\ SameAnswer(s, t) /\ t.lineage = s.lineage
           /\ \/ t.pc = "failed" /\ ~Known(s.project)
              \/ t.pc = "found" /\ ~t.open
              \/ t.pc = "lineage" /\ s.ask.plan # "lineage"
              \/ t.pc = "files"
<1> DEFINE s == work[r]
           p == s.project
           pc == CASE lifecycle[p] \in Disabled -> "found"
                   [] HasContext(r) -> "lineage"
                   [] OTHER -> "files"
           open == lifecycle[p] \notin Disabled
           t == [s EXCEPT !.open = open, !.pc = pc]
<1>1. work \in [Procs -> Work] /\ r \in Procs /\ s \in Work /\ s.pc = "gate"
  BY DEF TypeOK, Procs, Gate, At
<1>2. CASE ~Known(p)
  <2>1. Goto(r, "failed")
    BY <1>2 DEF Gate, Goto, Ends
  <2> QED BY <1>1, <1>2, <2>1, Goes DEF Pcs, Onward
<1>3. CASE Known(p)
  <2>1. work' = [work EXCEPT ![r] = t]
    BY <1>3 DEF Gate
  <2>2. /\ pc \in {"found", "lineage", "files"} /\ open \in BOOLEAN
        /\ pc = "found" => ~open
        /\ pc = "lineage" => s.ask.plan # "lineage"
    BY DEF HasContext
  <2> HIDE DEF pc, open
  <2>3. t \in Work
    BY <1>1, <2>2 DEF Work, Pcs
  <2>4. t.pc = pc /\ t.open = open /\ SameAnswer(s, t) /\ t.lineage = s.lineage
        /\ t.project = s.project /\ t.ask = s.ask
    BY <1>1 DEF Work, SameAnswer
  <2> HIDE DEF t
  <2>5. work'[r] = t /\ Moved(r)
    BY <1>1, <2>1, <2>3, Sets
  <2> QED BY <1>1, <2>2, <2>4, <2>5 DEF Onward
<1> QED BY <1>2, <1>3

\* What Throws does.
LEMMA ThrowsStep ==
    ASSUME TypeOK, NEW r \in Readers, Throws(r)
    PROVE  LET s == work[r]  t == work'[r] IN
           /\ Moved(r) /\ SameAnswer(s, t) /\ t.lineage = s.lineage
           /\ t.project = s.project /\ t.ask = s.ask /\ t.pc \in {"done", "failed"}
<1> DEFINE s == work[r]
           t == [s EXCEPT !.pc = "done", !.overlay = "none"]
<1>1. work \in [Procs -> Work] /\ r \in Procs /\ s \in Work
  BY DEF TypeOK, Procs
<1>2. CASE Goto(r, "failed")
  BY <1>2, Goes DEF Pcs
<1>3. CASE ~Goto(r, "failed")
  <2>1. work' = [work EXCEPT ![r] = t]
    BY <1>3 DEF Throws, Goto, Ends
  <2>2. t \in Work
    BY <1>1 DEF Work, Pcs
  <2>3. t.pc = "done" /\ SameAnswer(s, t) /\ t.lineage = s.lineage
        /\ t.project = s.project /\ t.ask = s.ask
    BY <1>1 DEF Work, SameAnswer
  <2> HIDE DEF t
  <2> QED BY <1>1, <2>1, <2>2, <2>3, Sets
<1> QED BY <1>2, <1>3

LEMMA LineageProjectStep ==
    ASSUME TypeOK, NEW r \in Readers, LineageProject(r)
    PROVE  LET s == work[r]  t == work'[r] IN
           /\ Moved(r) /\ Onward(s, t) /\ SameAnswer(s, t) /\ t.lineage = s.lineage
           /\ \/ s.pc = "lineage" /\ t.pc = "focus"
              \/ t.pc = "done"
              \/ t.pc = "failed" /\ ~Known(s.project)
<1>1. At(r, "lineage") /\ (Goto(r, "focus") \/ (Throws(r) /\ ~Known(work[r].project)))
  BY DEF LineageProject
<1> QED BY <1>1, Goes, ThrowsStep DEF Pcs, Onward, At

LEMMA UnresolvedStep ==
    ASSUME TypeOK, NEW r \in Readers, Unresolved(r), At(r, "focus")
    PROVE  LET s == work[r]  t == work'[r] IN
           /\ Moved(r) /\ Onward(s, t) /\ SameAnswer(s, t) /\ t.lineage = s.lineage
           /\ \/ t.pc = "failed" /\ s.ask.plan = "lineage"
              \/ t.pc \in {"files", "done"}
<1> DEFINE s == work[r]
           t == [s EXCEPT !.pc = "done", !.overlay = "unresolved"]
<1>1. work \in [Procs -> Work] /\ r \in Procs /\ s \in Work /\ s.pc = "focus"
  BY DEF TypeOK, Procs, At
<1>2. CASE Goto(r, "failed") /\ s.ask.plan = "lineage"
  BY <1>1, <1>2, Goes DEF Pcs, Onward
<1>3. CASE Goto(r, "files")
  BY <1>1, <1>3, Goes DEF Pcs, Onward
<1>4. CASE work' = [work EXCEPT ![r] = t]
  <2>1. t \in Work
    BY <1>1 DEF Work, Pcs
  <2>2. t.pc = "done" /\ SameAnswer(s, t) /\ t.lineage = s.lineage
        /\ t.project = s.project /\ t.ask = s.ask
    BY <1>1 DEF Work, SameAnswer
  <2> HIDE DEF t
  <2> QED BY <1>1, <1>4, <2>1, <2>2, Sets DEF Onward
<1>5. \/ Goto(r, "failed") /\ s.ask.plan = "lineage"
      \/ Goto(r, "files")
      \/ work' = [work EXCEPT ![r] = t]
  BY DEF Unresolved, Ends, Goto
<1> QED BY <1>2, <1>3, <1>4, <1>5

LEMMA FocusExists ==
    ASSUME TypeOK, NEW r \in Readers, NEW t \in Focus(r)
    PROVE  t \in Tasks /\ tasks[t] # None
<1>1. \A ts : Newest(ts) \subseteq ts
  BY DEF Newest
<1>2. \A p : OfProject(p) \subseteq {u \in Tasks : tasks[u] # None}
  BY DEF OfProject
<1> DEFINE s == Selected(r)
           here == OfProject(work[r].project)
           keyed == IF s.key = None THEN {} ELSE {u \in here : tasks[u].key = s.key}
<1>3. t \in here
  <2>1. Focus(r) = IF s.task \in here THEN {s.task}
                   ELSE IF keyed # {} THEN Newest(keyed) ELSE Newest(here \cap s.titled)
    BY DEF Focus
  <2>2. keyed \subseteq here
    OBVIOUS
  <2> HIDE DEF keyed, here, s
  <2> QED BY <1>1, <2>1, <2>2
<1> QED BY <1>2, <1>3

LEMMA FindFocusStep ==
    ASSUME TypeOK, NEW r \in Readers, FindFocus(r)
    PROVE  LET s == work[r]  t == work'[r] IN
           /\ Moved(r) /\ Onward(s, t) /\ SameAnswer(s, t)
           /\ \/ t.pc = "failed" /\ s.ask.plan = "lineage" /\ t.lineage = s.lineage
              \/ t.pc \in {"files", "done"} /\ t.lineage = s.lineage
              \/ t.pc = "walk" /\ t.lineage.chain = <<>>
<1> DEFINE s == work[r]
<1>1. work \in [Procs -> Work] /\ r \in Procs /\ s \in Work /\ s.pc = "focus"
  BY DEF TypeOK, Procs, FindFocus, At
<1>2. CASE Focus(r) = {}
  BY <1>1, <1>2, UnresolvedStep DEF FindFocus
<1>3. CASE Focus(r) # {}
  <2>1. PICK u \in Focus(r) :
          work' = [work EXCEPT ![r].pc = "walk",
                          ![r].cursor = IF Climbs(r) THEN tasks[u].parent ELSE None,
                          ![r].lineage = With([NoLineage EXCEPT !.focus = u,
                                                  !.related = tasks[u].related], {u})]
    BY <1>3 DEF FindFocus
  <2>2. u \in Tasks /\ tasks[u] # None
    BY FocusExists
  <2> DEFINE n == [NoLineage EXCEPT !.focus = u, !.related = tasks[u].related]
             l == With(n, {u})
             c == IF Climbs(r) THEN tasks[u].parent ELSE None
             t == [s EXCEPT !.pc = "walk", !.cursor = c, !.lineage = l]
  <2>3. n \in Lineages /\ n.chain = <<>>
    BY <2>2, CardFields, NothingTypes DEF Lineages, NoLineage
  <2>4. work' = [work EXCEPT ![r] = t]
    BY <2>1
  <2> HIDE DEF n
  <2>5. l \in Lineages /\ l.chain = <<>>
    BY <2>2, <2>3, WithType
  <2>6. c \in Tasks \cup {None}
    BY <2>2, CardFields
  <2> HIDE DEF l, c
  <2>7. t \in Work
    BY <1>1, <2>5, <2>6 DEF Work, Pcs
  <2>8. t.pc = "walk" /\ SameAnswer(s, t) /\ t.lineage = l /\ t.project = s.project /\ t.ask = s.ask
    BY <1>1 DEF Work, SameAnswer
  <2> HIDE DEF t
  <2> QED BY <1>1, <2>4, <2>5, <2>7, <2>8, Sets DEF Onward
<1> QED BY <1>2, <1>3

LEMMA WalkUpStep ==
    ASSUME TypeOK, NEW r \in Readers, WalkUp(r)
    PROVE  LET s == work[r]  t == work'[r] IN
           /\ Moved(r) /\ Onward(s, t) /\ SameAnswer(s, t) /\ t.pc = "walk"
           /\ \/ t.lineage.chain = s.lineage.chain
              \/ \E u \in Tasks : /\ ~Guarded(r, u)
                                  /\ t.lineage.chain = Append(s.lineage.chain, u)
<1> DEFINE s == work[r]
           u == s.cursor
<1>1. work \in [Procs -> Work] /\ r \in Procs /\ s \in Work /\ s.pc = "walk"
      /\ s.lineage \in Lineages /\ u \in Tasks
  BY Locals DEF TypeOK, Procs, WalkUp, At, Work
<1>2. CASE Guarded(r, u) \/ tasks[u] = None
  <2> DEFINE t == [s EXCEPT !.cursor = None]
  <2>1. work' = [work EXCEPT ![r] = t]
    BY <1>2 DEF WalkUp
  <2>2. t \in Work
    BY <1>1 DEF Work
  <2>3. t.pc = "walk" /\ SameAnswer(s, t) /\ t.lineage = s.lineage
        /\ t.project = s.project /\ t.ask = s.ask
    BY <1>1 DEF Work, SameAnswer
  <2> HIDE DEF t
  <2> QED BY <1>1, <2>1, <2>2, <2>3, Sets DEF Onward
<1>3. CASE ~(Guarded(r, u) \/ tasks[u] = None)
  <2> DEFINE m == With(s.lineage, {u})
             l == [m EXCEPT !.chain = Append(@, u)]
             c == tasks[u].parent
             t == [s EXCEPT !.cursor = c, !.lineage = l]
  <2>1. work' = [work EXCEPT ![r] = t]
    BY <1>1, <1>3 DEF WalkUp, Work
  <2>2. m \in Lineages /\ m.chain = s.lineage.chain
    BY <1>1, <1>3, WithType
  <2>3. m.chain \in Seq(Tasks) /\ Append(m.chain, u) \in Seq(Tasks)
    BY <1>1, <2>2, AppendProperties DEF Lineages
  <2> HIDE DEF m
  <2>4. l \in Lineages /\ l.chain = Append(s.lineage.chain, u)
    BY <2>2, <2>3 DEF Lineages
  <2>5. c \in Tasks \cup {None}
    BY <1>1, <1>3, CardFields
  <2> HIDE DEF l, c
  <2>6. t \in Work
    BY <1>1, <2>4, <2>5 DEF Work
  <2>7. t.pc = "walk" /\ SameAnswer(s, t) /\ t.lineage = l /\ t.project = s.project /\ t.ask = s.ask
    BY <1>1 DEF Work, SameAnswer
  <2> HIDE DEF t
  <2> QED BY <1>1, <1>3, <2>1, <2>4, <2>6, <2>7, Sets DEF Onward
<1> QED BY <1>2, <1>3

LEMMA RelateStep ==
    ASSUME TypeOK, NEW r \in Readers, Relate(r)
    PROVE  LET s == work[r]  t == work'[r] IN
           /\ Moved(r) /\ Onward(s, t) /\ SameAnswer(s, t) /\ t.pc \in {"done", "files", "changed"}
           /\ t.lineage.chain = s.lineage.chain
<1> DEFINE s == work[r]
           there == {u \in s.lineage.related : tasks[u] # None}
           m == With(s.lineage, there)
           l == [m EXCEPT !.related = there]
           pc == CASE s.ask.plan = "lineage" -> "done"
                   [] s.part = "search" -> "files"
                   [] OTHER -> "changed"
           t == [s EXCEPT !.lineage = l, !.pc = pc]
<1>1. work \in [Procs -> Work] /\ r \in Procs /\ s \in Work /\ s.pc = "walk" /\ s.lineage \in Lineages
  BY Locals DEF TypeOK, Procs, Relate, At
<1>2. work' = [work EXCEPT ![r] = t]
  BY <1>1 DEF Relate, Work
<1>3. there \in SUBSET Tasks
  BY <1>1 DEF Lineages
<1>4. m \in Lineages /\ m.chain = s.lineage.chain
  BY <1>1, <1>3, WithType
<1>5. pc \in {"done", "files", "changed"}
  OBVIOUS
<1> HIDE DEF there, m, pc
<1>6. l \in Lineages /\ l.chain = s.lineage.chain
  BY <1>3, <1>4 DEF Lineages
<1> HIDE DEF l
<1>7. t \in Work
  BY <1>1, <1>5, <1>6 DEF Work, Pcs
<1>8. t.pc = pc /\ SameAnswer(s, t) /\ t.lineage = l /\ t.project = s.project /\ t.ask = s.ask
  BY <1>1 DEF Work, SameAnswer
<1> HIDE DEF t
<1> QED BY <1>1, <1>2, <1>5, <1>6, <1>7, <1>8, Sets DEF Onward

LEMMA ReadFilesStep ==
    ASSUME TypeOK, NEW r \in Readers, ReadFiles(r)
    PROVE  LET s == work[r]  t == work'[r] IN
           /\ Moved(r) /\ Onward(s, t) /\ s.pc = "files" /\ t.pc = "symbols" /\ t.lineage = s.lineage
           /\ t.changed = s.changed /\ t.pack = s.pack
           /\ t.hits = Hits(r, files, [f \in Files |-> FileScore(s.ask, s.lineage, f)])
<1> DEFINE s == work[r]
           h == Hits(r, files, [f \in Files |-> FileScore(s.ask, s.lineage, f)])
           t == [s EXCEPT !.pc = "symbols", !.hits = h]
<1>1. work \in [Procs -> Work] /\ r \in Procs /\ s \in Work /\ s.pc = "files"
  BY DEF TypeOK, Procs, ReadFiles, At
<1>2. work' = [work EXCEPT ![r] = t]
  BY DEF ReadFiles
<1>3. h \in SUBSET Files
  BY <1>1 DEF Hits, Work, AskedOf
<1> HIDE DEF h
<1>4. t \in Work
  BY <1>1, <1>3 DEF Work, Pcs
<1>5. t.pc = "symbols" /\ t.hits = h /\ t.lineage = s.lineage /\ t.changed = s.changed
      /\ t.pack = s.pack /\ t.project = s.project /\ t.ask = s.ask
  BY <1>1 DEF Work
<1> HIDE DEF t
<1>6. work'[r] = t /\ Moved(r)
  BY <1>1, <1>2, <1>4, Sets
<1> QED BY <1>1, <1>5, <1>6 DEF Onward, h

LEMMA ReadSymbolsStep ==
    ASSUME TypeOK, Placed, NEW r \in Readers, ReadSymbols(r)
    PROVE  LET s == work[r]  t == work'[r] IN
           /\ Moved(r) /\ Onward(s, t) /\ s.pc = "symbols" /\ t.pc = "chunks" /\ t.lineage = s.lineage
           /\ t.changed = s.changed /\ t.pack = s.pack
           /\ s.hits \subseteq t.hits /\ t.hits \subseteq s.hits \cup symbols[s.project]
<1> DEFINE s == work[r]
           h == Hits(r, symbols, [f \in Files |-> SymbolScore(s.ask, s.lineage, f)])
           t == [s EXCEPT !.pc = "chunks", !.hits = s.hits \cup h, !.named = symbols[s.project]]
<1>1. work \in [Procs -> Work] /\ r \in Procs /\ s \in Work /\ s.pc = "symbols"
  BY DEF TypeOK, Procs, ReadSymbols, At
<1>2. work' = [work EXCEPT ![r] = t]
  BY <1>1 DEF ReadSymbols, Work
<1>3. h \in SUBSET Files /\ h \subseteq symbols[s.project]
  BY <1>1 DEF Hits, Work, AskedOf
<1>4. symbols[s.project] \in SUBSET Files
  BY <1>1 DEF Placed, At, TypeOK
<1> HIDE DEF h
<1>5. t \in Work
  BY <1>1, <1>3, <1>4 DEF Work, Pcs
<1>6. t.pc = "chunks" /\ t.hits = s.hits \cup h /\ t.lineage = s.lineage /\ t.changed = s.changed
      /\ t.pack = s.pack /\ t.project = s.project /\ t.ask = s.ask
  BY <1>1 DEF Work
<1> HIDE DEF t
<1>7. work'[r] = t /\ Moved(r)
  BY <1>1, <1>2, <1>5, Sets
<1> QED BY <1>1, <1>3, <1>6, <1>7 DEF Onward

LEMMA ReadChunksStep ==
    ASSUME TypeOK, NEW r \in Readers, ReadChunks(r)
    PROVE  LET s == work[r]  t == work'[r] IN
           /\ Moved(r) /\ Onward(s, t) /\ s.pc = "chunks" /\ t.pc = "tasks" /\ t.lineage = s.lineage
           /\ t.changed = s.changed /\ t.pack = s.pack /\ t.named = s.named
           /\ t.hits = s.hits \cup
                Hits(r, chunks, [f \in Files |-> ChunkScore(s.ask, s.lineage, s.named, f)])
<1> DEFINE s == work[r]
           h == Hits(r, chunks, [f \in Files |-> ChunkScore(s.ask, s.lineage, s.named, f)])
           t == [s EXCEPT !.pc = "tasks", !.hits = s.hits \cup h]
<1>1. work \in [Procs -> Work] /\ r \in Procs /\ s \in Work /\ s.pc = "chunks"
  BY DEF TypeOK, Procs, ReadChunks, At
<1>2. work' = [work EXCEPT ![r] = t]
  BY <1>1 DEF ReadChunks, Work
<1>3. h \in SUBSET Files
  BY <1>1 DEF Hits, Work, AskedOf
<1> HIDE DEF h
<1>4. t \in Work
  BY <1>1, <1>3 DEF Work, Pcs
<1>5. t.pc = "tasks" /\ t.hits = s.hits \cup h /\ t.lineage = s.lineage /\ t.changed = s.changed
      /\ t.pack = s.pack /\ t.project = s.project /\ t.ask = s.ask /\ t.named = s.named
  BY <1>1 DEF Work
<1> HIDE DEF t
<1>6. work'[r] = t /\ Moved(r)
  BY <1>1, <1>2, <1>4, Sets
<1> QED BY <1>1, <1>5, <1>6 DEF Onward, h

LEMMA ReadTasksStep ==
    ASSUME TypeOK, NEW r \in Readers, ReadTasks(r)
    PROVE  LET s == work[r]  t == work'[r] IN
           /\ Moved(r) /\ Onward(s, t) /\ SameAnswer(s, t) /\ s.pc = "tasks" /\ t.pc = "found"
           /\ t.lineage = s.lineage /\ t.named = s.named
<1> DEFINE s == work[r]
           Score(t) == TaskScore(s.ask, s.lineage, t)
           found == {t \in OfProject(s.project) : Score(t) > Cutoff}
           keyed == {t \in found : tasks[t].key # None}
           Best(ts) == {t \in ts : \A u \in ts : Score(u) <= Score(t)}
<1>1. work \in [Procs -> Work] /\ r \in Procs /\ s \in Work /\ s.pc = "tasks"
  BY DEF TypeOK, Procs, ReadTasks, At
<1>2. PICK b \in IF found = {} THEN {None} ELSE Best(found),
           k \in IF keyed = {} THEN {None} ELSE {tasks[u].key : u \in Best(keyed)} :
          work' = [work EXCEPT ![r].pc = "found", ![r].found = found,
                      ![r].first = [task |-> b, key |-> k]]
  BY DEF ReadTasks
<1>3. found \in SUBSET Tasks /\ \A u \in found : tasks[u] # None
  BY DEF OfProject
<1>4. b \in Tasks \cup {None}
  BY <1>2, <1>3
<1>5. k \in Keys \cup {None}
  <2>1. \A u \in found : tasks[u].key \in Keys \cup {None}
    BY <1>3, CardFields
  <2>2. Best(keyed) \subseteq found
    OBVIOUS
  <2> HIDE DEF found, keyed, Best
  <2> QED BY <1>2, <2>1, <2>2
<1> HIDE DEF found, keyed, Best, Score
<1> DEFINE p == [task |-> b, key |-> k]
           t == [s EXCEPT !.pc = "found", !.found = found, !.first = p]
<1>6. work' = [work EXCEPT ![r] = t]
  BY <1>2
<1>7. p \in [task : Tasks \cup {None}, key : Keys \cup {None}]
  BY <1>4, <1>5
<1> HIDE DEF p
<1>8. t \in Work
  BY <1>1, <1>3, <1>7 DEF Work, Pcs
<1>9. t.pc = "found" /\ SameAnswer(s, t) /\ t.lineage = s.lineage
      /\ t.project = s.project /\ t.ask = s.ask /\ t.named = s.named
  BY <1>1 DEF Work, SameAnswer
<1> HIDE DEF t
<1>10. work'[r] = t /\ Moved(r)
  BY <1>1, <1>6, <1>8, Sets
<1> QED BY <1>1, <1>9, <1>10 DEF Onward

LEMMA EndSearchStep ==
    ASSUME TypeOK, NEW r \in Readers, EndSearch(r)
    PROVE  LET s == work[r]  t == work'[r] IN
           /\ Moved(r) /\ Onward(s, t) /\ SameAnswer(s, t)
           /\ \/ t.pc = "gate" /\ t.lineage.chain = <<>>
              \/ t.pc \in {"done", "pack", "packed"} /\ t.lineage = s.lineage
<1> DEFINE s == work[r]
           t == [s EXCEPT !.pc = "gate", !.again = TRUE, !.lineage = NoLineage]
<1>1. work \in [Procs -> Work] /\ r \in Procs /\ s \in Work /\ s.pc = "found"
  BY DEF TypeOK, Procs, EndSearch, At
<1>2. CASE work' = [work EXCEPT ![r] = t]
  <2>1. t \in Work
    BY <1>1, NothingTypes DEF Work, Pcs
  <2>2. t.pc = "gate" /\ SameAnswer(s, t) /\ t.lineage = NoLineage
        /\ t.project = s.project /\ t.ask = s.ask
    BY <1>1 DEF Work, SameAnswer
  <2>3. NoLineage.chain = <<>>
    BY DEF NoLineage
  <2> HIDE DEF t
  <2> QED BY <1>1, <1>2, <2>1, <2>2, <2>3, Sets DEF Onward
<1>3. CASE Goto(r, "done") \/ Goto(r, "pack") \/ Goto(r, "packed")
  BY <1>1, <1>3, Goes DEF Pcs, Onward
<1> QED BY <1>2, <1>3 DEF EndSearch, Ends, Goto

LEMMA ResolvePackStep ==
    ASSUME TypeOK, NEW r \in Readers, ResolvePack(r)
    PROVE  LET s == work[r]  t == work'[r] IN
           /\ Moved(r) /\ Onward(s, t) /\ SameAnswer(s, t) /\ t.lineage = s.lineage
           /\ t.pc \in {"snapshot", "packed"} \/ (t.pc = "failed" /\ ~Known(s.project))
<1>1. At(r, "pack") /\ (\/ Goto(r, "snapshot") \/ Goto(r, "packed")
                        \/ (Goto(r, "failed") /\ ~Known(work[r].project)))
  BY DEF ResolvePack, WithoutPack, Ends, Goto
<1> QED BY <1>1, Goes DEF Pcs, Onward, At

LEMMA SnapshotStep ==
    ASSUME TypeOK, Placed, NEW r \in Readers, Snapshot(r)
    PROVE  LET s == work[r]  t == work'[r] IN
           /\ Moved(r) /\ Onward(s, t) /\ t.hits = s.hits /\ t.changed = s.changed
           /\ t.lineage = s.lineage /\ t.pack \in {s.pack, files[s.project]}
           /\ \/ t.pc = "packed"
              \/ /\ t.pc = "failed"
                 /\ ~Known(s.project) \/ (s.ask.plan = "pack" /\ s.ask.feature = "review")
<1> DEFINE s == work[r]
           t == [s EXCEPT !.pc = "packed", !.pack = files[s.project]]
<1>1. work \in [Procs -> Work] /\ r \in Procs /\ s \in Work /\ s.pc = "snapshot"
  BY DEF TypeOK, Procs, Snapshot, At
<1>2. CASE work' = [work EXCEPT ![r] = t]
  <2>1. files[s.project] \in SUBSET Files
    BY <1>1 DEF Placed, At, TypeOK
  <2>2. t \in Work
    BY <1>1, <2>1 DEF Work, Pcs
  <2>3. t.pc = "packed" /\ t.hits = s.hits /\ t.changed = s.changed /\ t.lineage = s.lineage
        /\ t.pack = files[s.project] /\ t.project = s.project /\ t.ask = s.ask
    BY <1>1 DEF Work
  <2> HIDE DEF t
  <2> QED BY <1>1, <1>2, <2>2, <2>3, Sets DEF Onward
<1>3. CASE Goto(r, "packed")
  BY <1>1, <1>3, Goes DEF Pcs, Onward, SameAnswer
<1>4. CASE Goto(r, "failed") /\ (~Known(s.project) \/ (s.ask.plan = "pack" /\ s.ask.feature = "review"))
  BY <1>1, <1>4, Goes DEF Pcs, Onward, SameAnswer
<1> QED BY <1>2, <1>3, <1>4 DEF Snapshot, WithoutPack, Ends, Goto

LEMMA EndPackStep ==
    ASSUME TypeOK, NEW r \in Readers, EndPack(r)
    PROVE  LET s == work[r]  t == work'[r] IN
           /\ Moved(r) /\ Onward(s, t) /\ SameAnswer(s, t) /\ t.lineage = s.lineage
           /\ t.pc = "done" \/ (t.pc = "lineage" /\ s.ask.plan = "change_lookup")
<1> DEFINE s == work[r]
           t == [s EXCEPT !.pc = "lineage", !.part = "overlay"]
<1>1. work \in [Procs -> Work] /\ r \in Procs /\ s \in Work /\ s.pc = "packed"
  BY DEF TypeOK, Procs, EndPack, At
<1>2. CASE ToOverlay(r)
  <2>1. work' = [work EXCEPT ![r] = t] /\ s.ask.plan = "change_lookup"
    BY <1>2 DEF EndPack, ToOverlay
  <2>2. t \in Work
    BY <1>1 DEF Work, Pcs
  <2>3. t.pc = "lineage" /\ SameAnswer(s, t) /\ t.lineage = s.lineage
        /\ t.project = s.project /\ t.ask = s.ask
    BY <1>1 DEF Work, SameAnswer
  <2> HIDE DEF t
  <2> QED BY <1>1, <2>1, <2>2, <2>3, Sets DEF Onward
<1>3. CASE ~ToOverlay(r)
  <2>1. Goto(r, "done")
    BY <1>3 DEF EndPack, Ends, Goto
  <2> QED BY <1>1, <2>1, Goes DEF Pcs, Onward
<1> QED BY <1>2, <1>3

LEMMA ReadChangedStep ==
    ASSUME TypeOK, NEW r \in Readers, ReadChanged(r)
    PROVE  LET s == work[r]  t == work'[r] IN
           /\ Moved(r) /\ Onward(s, t) /\ t.hits = s.hits /\ t.pack = s.pack /\ t.lineage = s.lineage
           /\ t.pc = "related" /\ (files[s.project] = {} \/ t.changed \subseteq files[s.project])
<1> DEFINE s == work[r]
           c == Changed(r)
           t == [s EXCEPT !.pc = "related", !.changed = c, !.overlay = "ok"]
<1>1. work \in [Procs -> Work] /\ r \in Procs /\ s \in Work /\ s.pc = "changed" /\ s.lineage \in Lineages
  BY Locals DEF TypeOK, Procs, ReadChanged, At
<1>2. work' = [work EXCEPT ![r] = t]
  BY DEF ReadChanged
<1>3. c \in SUBSET Files /\ (files[s.project] = {} \/ c \subseteq files[s.project])
  BY <1>1 DEF Changed, Lineages
<1> HIDE DEF c
<1>4. t \in Work
  BY <1>1, <1>3 DEF Work, Pcs
<1>5. t.pc = "related" /\ t.hits = s.hits /\ t.pack = s.pack /\ t.lineage = s.lineage
      /\ t.changed = c /\ t.project = s.project /\ t.ask = s.ask
  BY <1>1 DEF Work
<1> HIDE DEF t
<1>6. work'[r] = t /\ Moved(r)
  BY <1>1, <1>2, <1>4, Sets
<1> QED BY <1>1, <1>3, <1>5, <1>6 DEF Onward

LEMMA ReadRelatedStep ==
    ASSUME TypeOK, NEW r \in Readers, ReadRelated(r)
    PROVE  LET s == work[r]  t == work'[r] IN
           /\ Moved(r) /\ Onward(s, t) /\ t.hits = s.hits /\ t.pack = s.pack /\ t.lineage = s.lineage
           /\ t.pc = "done" /\ t.changed \subseteq s.changed \cup symbols[s.project]
<1> DEFINE s == work[r]
           active == symbols[s.project]
           c == s.changed \cup (active \cap (s.lineage.symbols \cup s.changed))
           t == [s EXCEPT !.pc = "done", !.changed = c]
<1>1. work \in [Procs -> Work] /\ r \in Procs /\ s \in Work /\ s.pc = "related" /\ s.lineage \in Lineages
  BY Locals DEF TypeOK, Procs, ReadRelated, At
<1>2. work' = [work EXCEPT ![r] = t]
  BY <1>1 DEF ReadRelated, Work
<1>3. c \in SUBSET Files /\ c \subseteq s.changed \cup active
  BY <1>1 DEF Work, Lineages
<1> HIDE DEF c
<1>4. t \in Work
  BY <1>1, <1>3 DEF Work, Pcs
<1>5. t.pc = "done" /\ t.hits = s.hits /\ t.pack = s.pack /\ t.lineage = s.lineage
      /\ t.changed = c /\ t.project = s.project /\ t.ask = s.ask
  BY <1>1 DEF Work
<1> HIDE DEF t
<1>6. work'[r] = t /\ Moved(r)
  BY <1>1, <1>2, <1>4, Sets
<1> QED BY <1>1, <1>3, <1>5, <1>6 DEF Onward

LEMMA ReturnStep ==
    ASSUME TypeOK, NEW r \in Readers, Return(r)
    PROVE  Moved(r) /\ work'[r] = NoWork /\ work[r].pc \in {"done", "failed"}
BY NothingTypes, Sets DEF Return, TypeOK, Procs

LEMMA ReadMoves ==
    ASSUME TypeOK, Placed, NEW r \in Readers, Read(r)
    PROVE  /\ Moved(r)
           /\ \/ Return(r) /\ work'[r] = NoWork /\ work[r].pc \in {"done", "failed"}
              \/ Onward(work[r], work'[r])
<1>1. CASE ResolveProject(r) \/ Gate(r) \/ LineageProject(r) \/ FindFocus(r) \/ WalkUp(r)
  BY <1>1, ResolveProjectStep, GateStep, LineageProjectStep, FindFocusStep, WalkUpStep
<1>2. CASE Relate(r) \/ ReadFiles(r) \/ ReadSymbols(r) \/ ReadChunks(r) \/ ReadTasks(r)
  BY <1>2, RelateStep, ReadFilesStep, ReadSymbolsStep, ReadChunksStep, ReadTasksStep
<1>3. CASE EndSearch(r) \/ ResolvePack(r) \/ Snapshot(r) \/ EndPack(r)
  BY <1>3, EndSearchStep, ResolvePackStep, SnapshotStep, EndPackStep
<1>4. CASE ReadChanged(r) \/ ReadRelated(r) \/ Return(r)
  BY <1>4, ReadChangedStep, ReadRelatedStep, ReturnStep
<1> QED BY <1>1, <1>2, <1>3, <1>4 DEF Read

-----------------------------------------------------------------------------
(***************************************************************************)
(* The statements of the writers.                                          *)
(***************************************************************************)
LEMMA StatementTypes ==
    /\ \A fs \in SUBSET Files, table \in {"files", "chunks", "symbols"} :
          Drops(table, fs) \in Statements
    /\ \A fs \in SUBSET Files, table \in {"files", "chunks"} : Puts(table, fs) \in Statements
    /\ \A fs \in SUBSET (Files \ Docs) : Puts("symbols", fs) \in Statements
    /\ \A from \in SUBSET Statuses, to \in Statuses : Becomes(from, to) \in Statements
    /\ \A t \in Tasks, c \in Cards : Row(t, c) \in Statements
<1>1. \A fs \in SUBSET Files, table \in {"files", "chunks", "symbols"} :
          Drops(table, fs) \in Statements
  BY DEF Drops, Statements
<1>2. \A fs \in SUBSET Files, table \in {"files", "chunks"} : Puts(table, fs) \in Statements
  BY DEF Puts, Statements
<1>3. \A fs \in SUBSET (Files \ Docs) : Puts("symbols", fs) \in Statements
  BY DEF Puts, Statements
<1>4. \A from \in SUBSET Statuses, to \in Statuses : Becomes(from, to) \in Statements
  BY DEF Becomes, Statements
<1>5. \A t \in Tasks, c \in Cards : Row(t, c) \in Statements
  BY DEF Row, Statements
<1> QED BY <1>1, <1>2, <1>3, <1>4, <1>5

\* A detach and an unregister, written out.
Deindexing(status) == <<Drops("files", Files), Drops("chunks", Files), Drops("symbols", Files),
                        Becomes(Statuses, "deindexed"), Becomes(Statuses, status)>>

LEMMA AppendToFour ==
    ASSUME NEW S, NEW a1 \in S, NEW a2 \in S, NEW a3 \in S, NEW a4 \in S, NEW a5 \in S
    PROVE  <<a1, a2, a3, a4>> \o <<a5>> = <<a1, a2, a3, a4, a5>>
<1> DEFINE s == <<a1, a2, a3, a4>>
           t == <<a5>>
           u == <<a1, a2, a3, a4, a5>>
           c == s \o t
<1>1. s \in Seq(S) /\ t \in Seq(S) /\ u \in Seq(S) /\ Len(s) = 4 /\ Len(t) = 1 /\ Len(u) = 5
  OBVIOUS
<1>2. c \in Seq(S) /\ Len(c) = 5 /\ \A i \in 1..5 : c[i] = IF i <= 4 THEN s[i] ELSE t[i-4]
  BY <1>1, ConcatProperties
<1>3. c[1] = u[1] /\ c[2] = u[2] /\ c[3] = u[3] /\ c[4] = u[4] /\ c[5] = u[5]
  BY <1>2
<1> HIDE DEF s, t, u, c
<1>4. \A i \in 1..5 : c[i] = u[i]
  BY <1>3
<1>5. Len(c) = Len(u) /\ \A i \in 1..Len(c) : c[i] = u[i]
  BY <1>1, <1>2, <1>4
<1>6. c = u
  BY <1>1, <1>2, <1>5, SeqEqual
<1> QED BY <1>6 DEF c, s, t, u

LEMMA SettleIs ==
    ASSUME NEW p, NEW status \in Statuses
    PROVE  SettleScript(p, status) \in {<<Becomes(Statuses, status)>>, Deindexing(status)}
<1> DEFINE b == Becomes(Statuses, status)
<1>1. <<>> \o <<b>> = <<b>>
  OBVIOUS
<1>2. /\ Drops("files", Files) \in Statements /\ Drops("chunks", Files) \in Statements
      /\ Drops("symbols", Files) \in Statements /\ b \in Statements
      /\ Becomes(Statuses, "deindexed") \in Statements
  BY StatementTypes DEF Statuses
<1>3. DeindexScript \o <<b>> = Deindexing(status)
  BY <1>2, AppendToFour DEF DeindexScript, Deindexing
<1>4. SettleScript(p, status) \in {<<>> \o <<b>>, DeindexScript \o <<b>>}
  BY Zenon DEF SettleScript
<1> QED BY <1>1, <1>3, <1>4, Zenon

\* Every script is one of these.
LEMMA ScriptKinds ==
    ASSUME NEW p \in Projects, NEW script \in Scripts(p)
    PROVE  \/ \E f \in Files : script \in {IndexScript(f), DeleteScript(f)}
           \/ script = DeindexScript
           \/ \E status \in {"detached", "disabled"} :
                 script \in {<<Becomes(Statuses, status)>>, Deindexing(status)}
           \/ \E t \in Tasks, c \in Cards : script = <<Row(t, c)>>
BY SettleIs DEF Scripts, Statuses

LEMMA ScriptTypes ==
    ASSUME NEW p \in Projects, NEW script \in Scripts(p)
    PROVE  script \in Seq(Statements)
<1>1. \A f \in Files : IndexScript(f) \in Seq(Statements)
  <2> TAKE f \in Files
  <2>1. /\ Puts("files", {f}) \in Statements /\ Drops("chunks", {f}) \in Statements
        /\ Drops("symbols", {f}) \in Statements /\ Puts("chunks", {f}) \in Statements
        /\ Puts("symbols", {f} \ Docs) \in Statements
        /\ Becomes({"deindexed"}, "active") \in Statements
    BY StatementTypes DEF Statuses
  <2> QED BY <2>1 DEF IndexScript
<1>2. \A f \in Files : DeleteScript(f) \in Seq(Statements)
  <2> TAKE f \in Files
  <2>1. /\ Drops("files", {f}) \in Statements /\ Drops("chunks", {f}) \in Statements
        /\ Drops("symbols", {f}) \in Statements
        /\ Becomes({"deindexed"}, "active") \in Statements
    BY StatementTypes DEF Statuses
  <2> QED BY <2>1 DEF DeleteScript
<1>3. /\ Drops("files", Files) \in Statements /\ Drops("chunks", Files) \in Statements
      /\ Drops("symbols", Files) \in Statements
      /\ \A status \in Statuses : Becomes(Statuses, status) \in Statements
  BY StatementTypes
<1>4. DeindexScript \in Seq(Statements)
  BY <1>3 DEF DeindexScript, Statuses
<1>5. \A status \in {"detached", "disabled"} :
        <<Becomes(Statuses, status)>> \in Seq(Statements) /\ Deindexing(status) \in Seq(Statements)
  BY <1>3 DEF Deindexing, Statuses
<1>6. \A t \in Tasks, c \in Cards : <<Row(t, c)>> \in Seq(Statements)
  BY StatementTypes
<1> QED BY <1>1, <1>2, <1>4, <1>5, <1>6, ScriptKinds

\* A statement and what is left of its script.
LEMMA NextStatement ==
    ASSUME TypeOK, NEW w \in Writers, work[w].script # <<>>
    PROVE  Head(work[w].script) \in Statements /\ Tail(work[w].script) \in Seq(Statements)
<1>1. work[w].script \in Seq(Statements)
  BY DEF TypeOK, Procs, Work
<1> QED BY <1>1, HeadTailProperties

\* What the steps of a writer do to the locals of the processes.
WriterStep(w) ==
    \/ Statement(w) \/ Finish(w)
    \/ \E p \in Projects :
          \/ Register(w, p) \/ Purge(w, p)
          \/ \E script \in Scripts(p) : Begin(w, p, script)

LEMMA BeginStep ==
    ASSUME TypeOK, NEW w \in Writers, NEW p \in Projects, NEW script \in Scripts(p), Begin(w, p, script)
    PROVE  LET s == work[w]  t == work'[w] IN
           /\ Moved(w) /\ SameAnswer(s, t) /\ t.lineage = s.lineage
           /\ t.pc = "writing" /\ t.project = p /\ t.script = script
<1> DEFINE s == work[w]
           t == [s EXCEPT !.pc = "writing", !.project = p, !.script = script]
<1>1. work \in [Procs -> Work] /\ w \in Procs /\ s \in Work
  BY DEF TypeOK, Procs
<1>2. work' = [work EXCEPT ![w] = t]
  BY DEF Begin
<1>3. script \in Seq(Statements)
  BY ScriptTypes
<1>4. t \in Work
  BY <1>1, <1>3 DEF Work, Pcs
<1>5. SameAnswer(s, t) /\ t.lineage = s.lineage /\ t.pc = "writing" /\ t.project = p
      /\ t.script = script
  BY <1>1 DEF Work, SameAnswer
<1> HIDE DEF t
<1> QED BY <1>1, <1>2, <1>4, <1>5, Sets

LEMMA StatementStep ==
    ASSUME TypeOK, NEW w \in Writers, Statement(w)
    PROVE  LET s == work[w]  t == work'[w] IN
           /\ Moved(w) /\ SameAnswer(s, t) /\ t.lineage = s.lineage /\ s.pc = "writing"
           /\ t.pc = "writing" /\ t.project = s.project /\ t.script = Tail(s.script)
<1> DEFINE s == work[w]
           t == [s EXCEPT !.script = Tail(s.script)]
<1>1. work \in [Procs -> Work] /\ w \in Procs /\ s \in Work /\ s.pc = "writing"
  BY DEF TypeOK, Procs, Statement, At
<1>2. work' = [work EXCEPT ![w] = t]
  BY DEF Statement
<1>3. Tail(s.script) \in Seq(Statements)
  BY NextStatement DEF Statement
<1>4. t \in Work
  BY <1>1, <1>3 DEF Work
<1>5. SameAnswer(s, t) /\ t.lineage = s.lineage /\ t.pc = "writing" /\ t.project = s.project
      /\ t.script = Tail(s.script)
  BY <1>1 DEF Work, SameAnswer
<1> HIDE DEF t
<1> QED BY <1>1, <1>2, <1>4, <1>5, Sets

LEMMA FinishStep ==
    ASSUME TypeOK, NEW w \in Writers, Finish(w)
    PROVE  Moved(w) /\ work'[w] = NoWork /\ work[w].pc = "writing" /\ work[w].script = <<>>
BY NothingTypes, Sets DEF Finish, TypeOK, Procs, At

LEMMA WriterMoves ==
    ASSUME TypeOK, NEW w \in Writers, WriterStep(w)
    PROVE  /\ Noticed
           /\ work' \in [Procs -> Work]
           /\ \A v \in Procs :
                 \/ work'[v] = work[v]
                 \/ work'[v] = NoWork
                 \/ /\ work'[v].pc = "writing" /\ work[v].pc \in {"idle", "writing"}
                    /\ SameAnswer(work[v], work'[v]) /\ work'[v].lineage = work[v].lineage
                    /\ \/ work'[v].project \in Projects
                       \/ work[v].pc = "writing" /\ work'[v].project = work[v].project
<1>1. work \in [Procs -> Work] /\ w \in Procs
  BY DEF TypeOK, Procs
<1>2. CASE \E p \in Projects : \E script \in Scripts(p) : Begin(w, p, script)
  <2>0. PICK p \in Projects : \E script \in Scripts(p) : Begin(w, p, script)
    BY <1>2
  <2>1. PICK script \in Scripts(p) : Begin(w, p, script)
    BY <2>0
  <2>2. Noticed /\ work[w].pc = "idle"
    BY <2>1 DEF Begin, At
  <2>3. /\ Moved(w) /\ SameAnswer(work[w], work'[w]) /\ work'[w].lineage = work[w].lineage
        /\ work'[w].pc = "writing" /\ work'[w].project = p
    BY <2>1, BeginStep
  <2> QED BY <1>1, <2>2, <2>3 DEF Moved
<1>3. CASE Statement(w)
  BY <1>1, <1>3, StatementStep DEF Statement, Moved
<1>4. CASE Finish(w)
  BY <1>1, <1>4, FinishStep DEF Finish, Moved
<1>5. CASE \E p \in Projects : Register(w, p) \/ Purge(w, p)
  BY <1>1, <1>5 DEF Register, Purge
<1> QED BY <1>2, <1>3, <1>4, <1>5 DEF WriterStep

-----------------------------------------------------------------------------
(***************************************************************************)
(* Types.                                                                  *)
(***************************************************************************)
Rows ==
    /\ lifecycle \in [Projects -> Statuses]
    /\ files \in [Projects -> SUBSET Files] /\ chunks \in [Projects -> SUBSET Files]
    /\ symbols \in [Projects -> SUBSET (Files \ Docs)]
    /\ tasks \in [Tasks -> CardOf \cup {None}] /\ touched \in [Tasks -> Nat]

LEMMA StatementRows ==
    ASSUME TypeOK, Placed, NEW w \in Writers, Statement(w)
    PROVE  Rows'
<1> DEFINE p == work[w].project
           s == Head(work[w].script)
<1>1. s \in Statements
  BY NextStatement DEF Statement
<1>2. p \in Projects
  BY DEF Statement, At, Placed, Procs
<1>3. lifecycle' \in [Projects -> Statuses]
  <2>1. s.on = "status" => s.to \in Statuses
    BY <1>1 DEF Statements
  <2>2. lifecycle' \in {lifecycle, [lifecycle EXCEPT ![p] = s.to]} /\ (s.on # "status" => lifecycle' = lifecycle)
    BY DEF Statement
  <2> HIDE DEF s, p
  <2> QED BY <1>2, <2>1, <2>2 DEF TypeOK
<1>4. files' \in [Projects -> SUBSET Files] /\ chunks' \in [Projects -> SUBSET Files]
  <2>1. s.on \in {"files", "chunks"} => s.put \in SUBSET Files
    BY <1>1 DEF Statements
  <2>2. /\ files' = [files EXCEPT ![p] = IF s.on = "files" THEN (@ \ s.drop) \cup s.put ELSE @]
        /\ chunks' = [chunks EXCEPT ![p] = IF s.on = "chunks" THEN (@ \ s.drop) \cup s.put ELSE @]
    BY DEF Statement
  <2> HIDE DEF s, p
  <2> QED BY <1>2, <2>1, <2>2 DEF TypeOK
<1>5. symbols' \in [Projects -> SUBSET (Files \ Docs)]
  <2>1. s.on = "symbols" => s.put \in SUBSET (Files \ Docs)
    BY <1>1 DEF Statements
  <2>2. symbols' = [symbols EXCEPT ![p] = IF s.on = "symbols" THEN (@ \ s.drop) \cup s.put ELSE @]
    BY DEF Statement
  <2> HIDE DEF s, p
  <2> QED BY <1>2, <2>1, <2>2 DEF TypeOK
<1>6. tasks' \in [Tasks -> CardOf \cup {None}] /\ touched' \in [Tasks -> Nat]
  <2>1. s.on = "task" => s.task \in Tasks /\ s.card \in CardOf
    BY <1>1, CardsAssumption DEF Statements
  <2>2. IF s.on = "task"
        THEN tasks' = [tasks EXCEPT ![s.task] = s.card] /\ touched' = [touched EXCEPT ![s.task] = writes]
        ELSE tasks' = tasks /\ touched' = touched
    BY DEF Statement, registry
  <2>3. writes \in Nat
    BY DEF TypeOK
  <2> HIDE DEF s, p
  <2> QED BY <2>1, <2>2, <2>3 DEF TypeOK
<1> QED BY <1>3, <1>4, <1>5, <1>6 DEF Rows

LEMMA WriterRows ==
    ASSUME TypeOK, Placed, NEW w \in Writers, WriterStep(w)
    PROVE  Rows' /\ writes' \in 0..MaxWrites /\ asked' = asked
<1>0. Rows /\ writes \in 0..MaxWrites /\ MaxWrites \in Nat
  BY BoundsAssumption DEF TypeOK, Rows
<1>1. CASE Statement(w)
  <2>1. writes' = writes /\ asked' = asked
    BY <1>1 DEF Statement
  <2> QED BY <1>0, <1>1, <2>1, StatementRows
<1>2. CASE Finish(w)
  BY <1>0, <1>2 DEF Finish, Rows, rows, registry
<1>3. CASE \E p \in Projects : Register(w, p)
  <2>1. PICK p \in Projects : Register(w, p)
    BY <1>3
  <2> QED BY <1>0, <2>1 DEF Register, Rows, rows, registry, Statuses
<1>4. CASE \E p \in Projects : Purge(w, p)
  <2>1. PICK p \in Projects : Purge(w, p)
    BY <1>4
  <2>2. Unpurged(p) \in [Tasks -> CardOf \cup {None}]
    BY <1>0 DEF Unpurged, Rows
  <2> QED BY <1>0, <2>1, <2>2 DEF Purge, Rows, Statuses
<1>5. CASE \E p \in Projects : \E script \in Scripts(p) : Begin(w, p, script)
  BY <1>0, <1>5 DEF Begin, Rows, rows, registry
<1> QED BY <1>1, <1>2, <1>3, <1>4, <1>5 DEF WriterStep

LEMMA NoticedTypes ==
    ASSUME TypeOK, Placed, Rows', Noticed
    PROVE  seen' \in [Readers -> Views]
<1> SUFFICES ASSUME NEW r \in Readers PROVE seen'[r] \in Views
  BY DEF Noticed
<1>1. CASE ~Asking(r)
  <2>1. seen'[r] = seen[r]
    BY <1>1 DEF Noticed
  <2> QED BY <2>1 DEF TypeOK
<1>2. CASE Asking(r)
  <2> DEFINE p == work[r].project
             gone == seen[r].gone \/ lifecycle'[p] = "absent"
             ever == seen[r].ever \cup files'[p] \cup chunks'[p] \cup symbols'[p]
             bare == seen[r].bare \/ files'[p] = {}
  <2>1. seen'[r] = [gone |-> gone, ever |-> ever, bare |-> bare, calm |-> FALSE]
    BY <1>2 DEF Noticed
  <2>2. p \in Projects
    BY <1>2 DEF Asking, Placed, At, Procs
  <2>3. seen[r].ever \in SUBSET Files
    BY DEF TypeOK, Views
  <2>4. ever \in SUBSET Files
    BY <2>2, <2>3 DEF Rows
  <2>5. gone \in BOOLEAN /\ bare \in BOOLEAN
    OBVIOUS
  <2> HIDE DEF gone, ever, bare
  <2> QED BY <2>1, <2>4, <2>5 DEF Views
<1> QED BY <1>1, <1>2

\* The locals of a question that has just come.
LEMMA AskStep ==
    ASSUME TypeOK, NEW r \in Readers, NEW p \in Projects, NEW q \in Queries, Ask(r, p, q)
    PROVE  LET s == work[r]  t == work'[r] IN
           /\ Moved(r) /\ s.pc = "idle" /\ t.pc \in {"lineage", "gate", "pack", "resolve"}
           /\ t.project = p /\ t.ask = q
           /\ t.lineage = NoLineage /\ t.hits = {} /\ t.changed = {} /\ t.pack = {}
<1> DEFINE part == IF q.plan = "overlay" THEN "overlay" ELSE "search"
           pc == CASE q.plan \in {"lineage", "overlay"} -> "lineage"
                   [] q.plan = "search" -> "gate"
                   [] q.plan = "pack" -> "pack"
                   [] OTHER -> "resolve"
           t == [NoWork EXCEPT !.project = p, !.ask = q, !.part = part, !.pc = pc]
<1>1. work \in [Procs -> Work] /\ r \in Procs /\ work[r].pc = "idle"
  BY DEF TypeOK, Procs, Ask, At
<1>2. work' = [work EXCEPT ![r] = t]
  BY DEF Ask
<1>3. q \in AskedOf
  BY QueriesAssumption
<1>4. part \in {"search", "overlay"} /\ pc \in {"lineage", "gate", "pack", "resolve"}
  OBVIOUS
<1> HIDE DEF part, pc
<1>5. t \in Work
  BY <1>3, <1>4, NothingTypes DEF Work, Pcs
<1>6. /\ t.pc = pc /\ t.project = p /\ t.ask = q
      /\ t.lineage = NoLineage /\ t.hits = {} /\ t.changed = {} /\ t.pack = {}
  BY DEF NoWork
<1> HIDE DEF t
<1> QED BY <1>1, <1>2, <1>4, <1>5, <1>6, Sets

LEMMA AskView ==
    ASSUME TypeOK, NEW r \in Readers, NEW p \in Projects, NEW q \in Queries, Ask(r, p, q)
    PROVE  /\ seen' \in [Readers -> Views] /\ \A v \in Readers \ {r} : seen'[v] = seen[v]
           /\ seen'[r].gone = ~Known(p) /\ seen'[r].bare = (files[p] = {})
           /\ seen'[r].calm = ~Writing /\ seen'[r].ever = files[p] \cup chunks[p] \cup symbols[p]
<1> DEFINE gone == ~Known(p)
           bare == files[p] = {}
           calm == ~Writing
           ever == files[p] \cup chunks[p] \cup symbols[p]
           v == [gone |-> gone, bare |-> bare, calm |-> calm, ever |-> ever]
<1>1. seen' = [seen EXCEPT ![r] = v] /\ seen \in [Readers -> Views]
  BY DEF Ask, TypeOK
<1>2. ever \in SUBSET Files /\ gone \in BOOLEAN /\ bare \in BOOLEAN /\ calm \in BOOLEAN
  BY DEF TypeOK, Known, Writing
<1> HIDE DEF gone, bare, calm, ever
<1>3. v \in Views /\ v.gone = gone /\ v.bare = bare /\ v.calm = calm /\ v.ever = ever
  BY <1>2 DEF Views
<1> HIDE DEF v
<1>4. seen'[r] = v /\ seen' \in [Readers -> Views] /\ \A u \in Readers \ {r} : seen'[u] = seen[u]
  BY <1>1, <1>3
<1> QED BY <1>3, <1>4 DEF gone, bare, calm, ever

Typed == TypeOK /\ Placed

LEMMA InitTyped == Init => Typed
<1> SUFFICES ASSUME Init PROVE Typed
  OBVIOUS
<1>1. PICK s \in Starts :
          /\ lifecycle = s.lifecycle
          /\ files = s.files /\ chunks = s.files
          /\ symbols = [p \in Projects |-> s.files[p] \ Docs]
          /\ tasks = s.tasks
  BY DEF Init
<1>2. /\ s.lifecycle \in [Projects -> Statuses] /\ s.files \in [Projects -> SUBSET Files]
      /\ s.tasks \in [Tasks -> Cards \cup {None}]
  BY StartsAssumption DEF StartOf
<1>3. Rows
  BY <1>1, <1>2, CardsAssumption DEF Rows, Init
<1>4. work \in [Procs -> Work] /\ seen \in [Readers -> Views]
  BY NothingTypes DEF Init
<1>5. asked \in 0..MaxQueries /\ writes \in 0..MaxWrites
  BY BoundsAssumption DEF Init
<1>6. Placed
  BY DEF Init, Placed, At, NoWork
<1> QED BY <1>3, <1>4, <1>5, <1>6 DEF Typed, TypeOK, Rows

LEMMA NextKinds ==
    ASSUME Next
    PROVE  \/ \E r \in Readers : Read(r)
           \/ \E r \in Readers, p \in Projects, q \in Queries : Ask(r, p, q)
           \/ \E w \in Writers : WriterStep(w)
BY DEF Next, WriterStep

LEMMA NextTyped == Typed /\ [Next]_vars => Typed'
<1> SUFFICES ASSUME TypeOK, Placed, [Next]_vars PROVE TypeOK' /\ Placed'
  BY DEF Typed
<1>0. Rows /\ work \in [Procs -> Work] /\ seen \in [Readers -> Views]
      /\ asked \in 0..MaxQueries /\ writes \in 0..MaxWrites /\ MaxQueries \in Nat
  BY BoundsAssumption DEF TypeOK, Rows
<1>1. ASSUME NEW r \in Readers, Read(r) PROVE TypeOK' /\ Placed'
  <2>1. work' \in [Procs -> Work]
    BY <1>0, <1>1, ReadMoves DEF Moved
  <2>2. UNCHANGED <<lifecycle, rows, registry, seen, asked, writes>>
    BY <1>1 DEF Read
  <2>3. TypeOK'
    BY <1>0, <2>1, <2>2 DEF TypeOK, Rows, rows, registry
  <2>4. Placed'
    <3>1. \A w \in Procs \ {r} : work'[w] = work[w]
      BY <1>0, <1>1, ReadMoves DEF Moved
    <3>2. work'[r] = NoWork \/ (work[r].pc # "idle" /\ work'[r].project = work[r].project)
      BY <1>1, ReadMoves DEF Onward
    <3>3. NoWork.pc = "idle"
      BY DEF NoWork
    <3> QED BY <3>1, <3>2, <3>3 DEF Placed, At
  <2> QED BY <2>3, <2>4
<1>2. ASSUME NEW r \in Readers, NEW p \in Projects, NEW q \in Queries, Ask(r, p, q)
      PROVE  TypeOK' /\ Placed'
  <2>1. work' \in [Procs -> Work] /\ work'[r].project = p /\ \A w \in Procs \ {r} : work'[w] = work[w]
    BY <1>0, <1>2, AskStep DEF Moved
  <2>2. seen' \in [Readers -> Views]
    BY <1>2, AskView
  <2>3. UNCHANGED <<lifecycle, rows, registry, writes>> /\ asked' \in 0..MaxQueries
    BY <1>0, <1>2 DEF Ask
  <2>4. TypeOK'
    BY <1>0, <2>1, <2>2, <2>3 DEF TypeOK, Rows, rows, registry
  <2> QED BY <2>1, <2>4 DEF Placed, At
<1>3. ASSUME NEW w \in Writers, WriterStep(w) PROVE TypeOK' /\ Placed'
  <2>1. Rows' /\ writes' \in 0..MaxWrites /\ asked' = asked
    BY <1>3, WriterRows
  <2>2. work' \in [Procs -> Work] /\ Noticed
    BY <1>3, WriterMoves
  <2>3. seen' \in [Readers -> Views]
    BY <2>1, <2>2, NoticedTypes
  <2>4. TypeOK'
    BY <1>0, <2>1, <2>2, <2>3 DEF TypeOK, Rows
  <2>5. Placed'
    <3>1. NoWork.pc = "idle"
      BY DEF NoWork
    <3> SUFFICES ASSUME NEW v \in Procs, work'[v].pc # "idle" PROVE work'[v].project \in Projects
      BY DEF Placed, At
    <3>2. \/ work'[v] = work[v]
          \/ work'[v].project \in Projects
          \/ work[v].pc = "writing" /\ work'[v].project = work[v].project
      BY <1>3, <3>1, WriterMoves
    <3> QED BY <3>2 DEF Placed, At
  <2> QED BY <2>4, <2>5
<1>4. CASE UNCHANGED vars
  BY <1>0, <1>4 DEF TypeOK, Placed, At, vars, Rows, rows, registry
<1> QED BY <1>1, <1>2, <1>3, <1>4, NextKinds

-----------------------------------------------------------------------------
(***************************************************************************)
(* What the history notes.                                                 *)
(***************************************************************************)
\* A question is being answered.
Answering(r) == work[r].pc \notin {"idle", "writing", "done", "failed"}

\* What a question may still read of its project is in its history.
NotedFor(r) ==
    LET p == work[r].project IN
    /\ ~Known(p) => seen[r].gone
    /\ files[p] \cup chunks[p] \cup symbols[p] \subseteq seen[r].ever
    /\ files[p] = {} => seen[r].bare
    /\ seen[r].calm => \A w \in Writers : ~At(w, "writing")

Noted == \A r \in Readers : Answering(r) => NotedFor(r)

\* The history of a reader only grows.
LEMMA HistoryGrows ==
    ASSUME Typed, NEW r \in Readers, NEW w \in Writers, WriterStep(w)
    PROVE  /\ seen[r].gone => seen'[r].gone
           /\ seen[r].ever \subseteq seen'[r].ever
           /\ seen[r].bare => seen'[r].bare
<1>1. Noticed
  BY WriterMoves DEF Typed
<1>2. CASE ~Asking(r)
  BY <1>1, <1>2 DEF Noticed
<1>3. CASE Asking(r)
  BY <1>1, <1>3 DEF Noticed
<1> QED BY <1>2, <1>3

\* What a writer does is noted for every question that is being answered, and leaves it alone.
LEMMA WriterNoted ==
    ASSUME Typed, NEW r \in Readers, Answering(r)', NEW w \in Writers, WriterStep(w)
    PROVE  work'[r] = work[r] /\ Answering(r) /\ NotedFor(r)' /\ ~seen'[r].calm
<1>1. Noticed
  BY WriterMoves DEF Typed
<1>2. work'[r] = work[r]
  <2>1. r \in Procs /\ NoWork.pc = "idle"
    BY DEF Procs, NoWork
  <2> QED BY <2>1, WriterMoves DEF Typed, Answering
<1>3. Answering(r) /\ Asking(r)
  BY <1>2 DEF Answering, Asking
<1> DEFINE p == work[r].project
<1>4. /\ lifecycle'[p] = "absent" => seen'[r].gone
      /\ files'[p] \cup chunks'[p] \cup symbols'[p] \subseteq seen'[r].ever
      /\ files'[p] = {} => seen'[r].bare
      /\ ~seen'[r].calm
  BY <1>1, <1>3 DEF Noticed
<1> QED BY <1>2, <1>3, <1>4 DEF NotedFor, Known

LEMMA InitNoted == Init => Noted
BY DEF Init, Noted, Answering, NoWork, Procs

LEMMA NextNoted == Typed /\ Noted /\ [Next]_vars => Noted'
<1> SUFFICES ASSUME Typed, Noted, [Next]_vars, NEW r \in Readers, Answering(r)' PROVE NotedFor(r)'
  BY DEF Noted
<1>0. work \in [Procs -> Work] /\ r \in Procs /\ Writers \subseteq Procs /\ NoWork.pc = "idle"
  BY DEF Typed, TypeOK, Procs, NoWork
<1>1. ASSUME NEW v \in Readers, Read(v) PROVE NotedFor(r)'
  <2>1. UNCHANGED <<lifecycle, files, chunks, symbols, seen>>
    BY <1>1 DEF Read, rows
  <2>2. \A u \in Procs \ {v} : work'[u] = work[u]
    BY <1>0, <1>1, ReadMoves DEF Typed, Moved
  <2>3. work'[v].pc # "writing" /\ (Answering(v)' => Answering(v) /\ work'[v].project = work[v].project)
    BY <1>0, <1>1, ReadMoves DEF Typed, Onward, Answering
  <2>4. NotedFor(r) /\ work'[r].project = work[r].project
    BY <1>0, <2>2, <2>3 DEF Noted, Answering
  <2> QED BY <1>0, <2>1, <2>2, <2>3, <2>4 DEF NotedFor, At, Known
<1>2. ASSUME NEW v \in Readers, NEW p \in Projects, NEW q \in Queries, Ask(v, p, q) PROVE NotedFor(r)'
  <2>1. UNCHANGED <<lifecycle, files, chunks, symbols>>
    BY <1>2 DEF Ask, rows
  <2>2. /\ \A u \in Procs \ {v} : work'[u] = work[u]
        /\ work'[v].pc # "writing" /\ work'[v].project = p
    BY <1>0, <1>2, AskStep DEF Typed, Moved
  <2>3. CASE r = v
    <3>1. /\ seen'[r].gone = ~Known(p) /\ seen'[r].bare = (files[p] = {})
          /\ seen'[r].calm = ~Writing /\ seen'[r].ever = files[p] \cup chunks[p] \cup symbols[p]
      BY <1>2, <2>3, AskView DEF Typed
    <3>2. ~Writing => \A w \in Writers : work'[w].pc # "writing"
      BY <1>0, <2>2 DEF Writing
    <3> QED BY <2>1, <2>2, <2>3, <3>1, <3>2 DEF NotedFor, At, Known
  <2>4. CASE r # v
    <3>1. seen'[r] = seen[r] /\ work'[r] = work[r]
      BY <1>0, <1>2, <2>2, <2>4, AskView DEF Typed
    <3>2. NotedFor(r)
      BY <3>1 DEF Noted, Answering
    <3> QED BY <1>0, <2>1, <2>2, <3>1, <3>2 DEF NotedFor, At, Known
  <2> QED BY <2>3, <2>4
<1>3. ASSUME NEW w \in Writers, WriterStep(w) PROVE NotedFor(r)'
  BY <1>3, WriterNoted
<1>4. CASE UNCHANGED vars
  BY <1>4 DEF Noted, NotedFor, Answering, At, Known, vars, rows
<1> QED BY <1>1, <1>2, <1>3, <1>4, NextKinds

-----------------------------------------------------------------------------
(***************************************************************************)
(* The chain of parents.                                                   *)
(***************************************************************************)
LEMMA InitChain == Init => ChainHasNoRepeats
BY DEF Init, ChainHasNoRepeats, NoWork, NoLineage, Procs, IsInjective

LEMMA AppendKeepsInjective ==
    ASSUME NEW c \in Seq(Tasks), IsInjective(c), NEW t \in Tasks, t \notin ToSet(c)
    PROVE  IsInjective(Append(c, t))
<1>1. /\ Len(c) \in Nat /\ Len(Append(c, t)) = Len(c) + 1 /\ Append(c, t)[Len(c) + 1] = t
      /\ \A i \in 1..Len(c) : Append(c, t)[i] = c[i] /\ c[i] # t
      /\ DOMAIN c = 1..Len(c) /\ DOMAIN Append(c, t) = 1..(Len(c) + 1)
  BY AppendProperties DEF ToSet
<1> QED BY <1>1 DEF IsInjective

LEMMA NextChain == Typed /\ ChainHasNoRepeats /\ [Next]_vars => ChainHasNoRepeats'
<1> SUFFICES ASSUME Typed, ChainHasNoRepeats, [Next]_vars, NEW r \in Readers
             PROVE  IsInjective(work'[r].lineage.chain)
  BY DEF ChainHasNoRepeats
<1>0. /\ work \in [Procs -> Work] /\ r \in Procs /\ IsInjective(work[r].lineage.chain)
      /\ NoWork.lineage.chain = <<>> /\ NoLineage.chain = <<>> /\ IsInjective(<<>>)
  BY DEF Typed, TypeOK, Procs, ChainHasNoRepeats, NoWork, NoLineage, IsInjective
<1>1. ASSUME NEW v \in Readers, Read(v) PROVE IsInjective(work'[r].lineage.chain)
  <2>1. CASE r # v
    BY <1>0, <1>1, <2>1, ReadMoves DEF Typed, Moved
  <2>2. CASE r = v /\ WalkUp(r)
    <3>1. work[r].lineage.chain \in Seq(Tasks)
      BY <1>0, Locals DEF Typed, Lineages
    <3> QED BY <1>0, <2>2, <3>1, WalkUpStep, AppendKeepsInjective DEF Typed, Guarded
  <2>3. CASE r = v /\ (FindFocus(r) \/ EndSearch(r) \/ Relate(r) \/ Return(r))
    BY <1>0, <2>3, FindFocusStep, EndSearchStep, RelateStep, ReturnStep DEF Typed
  <2>4. CASE r = v /\ (ResolveProject(r) \/ Gate(r) \/ LineageProject(r) \/ ReadFiles(r) \/ ReadSymbols(r))
    BY <1>0, <2>4, ResolveProjectStep, GateStep, LineageProjectStep, ReadFilesStep, ReadSymbolsStep
       DEF Typed
  <2>5. CASE r = v /\ (\/ ReadChunks(r) \/ ReadTasks(r) \/ ResolvePack(r) \/ Snapshot(r) \/ EndPack(r)
                       \/ ReadChanged(r) \/ ReadRelated(r))
    BY <1>0, <2>5, ReadChunksStep, ReadTasksStep, ResolvePackStep, SnapshotStep, EndPackStep,
       ReadChangedStep, ReadRelatedStep DEF Typed
  <2> QED BY <1>1, <2>1, <2>2, <2>3, <2>4, <2>5 DEF Read
<1>2. ASSUME NEW v \in Readers, NEW p \in Projects, NEW q \in Queries, Ask(v, p, q)
      PROVE  IsInjective(work'[r].lineage.chain)
  BY <1>0, <1>2, AskStep DEF Typed, Moved
<1>3. ASSUME NEW w \in Writers, WriterStep(w) PROVE IsInjective(work'[r].lineage.chain)
  BY <1>0, <1>3, WriterMoves DEF Typed
<1>4. CASE UNCHANGED vars
  BY <1>0, <1>4 DEF vars
<1> QED BY <1>1, <1>2, <1>3, <1>4, NextKinds

-----------------------------------------------------------------------------
(***************************************************************************)
(* How a question fails.                                                   *)
(***************************************************************************)
\* Who looks for the focus of a lineage has none.
Unfocused ==
    \A r \in Readers :
        work[r].pc \in {"lineage", "focus"} /\ work[r].ask.plan = "lineage" =>
            work[r].lineage.focus = None

Excused(r) ==
    \/ seen[r].gone
    \/ work[r].ask.plan = "lineage" /\ work[r].lineage.focus = None
    \/ work[r].ask.plan = "pack" /\ work[r].ask.feature = "review"

LEMMA InitFails == Init => Unfocused /\ FailsOnlyWhenGone
BY DEF Init, Unfocused, FailsOnlyWhenGone, At, NoWork, Procs

LEMMA NextFails ==
    Typed /\ Noted /\ Unfocused /\ FailsOnlyWhenGone /\ [Next]_vars => Unfocused' /\ FailsOnlyWhenGone'
<1> SUFFICES ASSUME Typed, Noted, Unfocused, FailsOnlyWhenGone, [Next]_vars, NEW r \in Readers
             PROVE  /\ work'[r].pc \in {"lineage", "focus"} /\ work'[r].ask.plan = "lineage" =>
                          work'[r].lineage.focus = None
                    /\ work'[r].pc = "failed" => Excused(r)'
  BY DEF Unfocused, FailsOnlyWhenGone, Excused, At
<1> DEFINE Goal == /\ work'[r].pc \in {"lineage", "focus"} /\ work'[r].ask.plan = "lineage" =>
                          work'[r].lineage.focus = None
                   /\ work'[r].pc = "failed" => Excused(r)'
<1>0. /\ work \in [Procs -> Work] /\ r \in Procs /\ NoWork.pc = "idle" /\ NoLineage.focus = None
      /\ work[r].pc \in {"lineage", "focus"} /\ work[r].ask.plan = "lineage" =>
            work[r].lineage.focus = None
      /\ work[r].pc = "failed" => Excused(r)
      /\ Answering(r) /\ ~Known(work[r].project) => seen[r].gone
  BY DEF Typed, TypeOK, Procs, NoWork, NoLineage, Unfocused, FailsOnlyWhenGone, Excused, At, Noted, NotedFor
<1>1. ASSUME NEW v \in Readers, Read(v) PROVE Goal
  <2>0. seen' = seen
    BY <1>1 DEF Read
  <2>1. CASE r # v
    <3>1. work'[r] = work[r]
      BY <1>0, <1>1, <2>1, ReadMoves DEF Typed, Moved
    <3> QED BY <1>0, <2>0, <3>1 DEF Excused
  <2>2. CASE r = v /\ Return(r)
    BY <1>0, <2>2, ReturnStep DEF Typed
  <2> DEFINE s == work[r]
             t == work'[r]
  <2>3. CASE r = v /\ ~Return(r)
    <3>1. t.project = s.project /\ t.ask = s.ask /\ Answering(r)
      BY <1>1, <2>3, ReadMoves DEF Typed, Onward, Answering
    <3>2. \/ t.pc \notin {"lineage", "focus", "failed"}
          \/ t.pc = "lineage" /\ s.ask.plan # "lineage"
          \/ t.pc = "focus" /\ s.pc = "lineage" /\ t.lineage = s.lineage
          \/ t.pc = "failed" /\ ~Known(s.project)
          \/ t.pc = "failed" /\ s.pc = "focus" /\ s.ask.plan = "lineage" /\ t.lineage = s.lineage
          \/ t.pc = "failed" /\ s.ask.plan = "pack" /\ s.ask.feature = "review"
      <4>1. CASE ResolveProject(r) \/ Gate(r) \/ LineageProject(r)
        BY <4>1, ResolveProjectStep, GateStep, LineageProjectStep DEF Typed
      <4>2. CASE FindFocus(r)
        BY <4>2, FindFocusStep DEF Typed, FindFocus, At
      <4>3. CASE WalkUp(r) \/ Relate(r) \/ ReadFiles(r) \/ ReadSymbols(r) \/ ReadChunks(r)
        BY <4>3, WalkUpStep, RelateStep, ReadFilesStep, ReadSymbolsStep, ReadChunksStep DEF Typed
      <4>4. CASE ReadTasks(r) \/ EndSearch(r) \/ ResolvePack(r) \/ Snapshot(r)
        BY <4>4, ReadTasksStep, EndSearchStep, ResolvePackStep, SnapshotStep DEF Typed
      <4>5. CASE EndPack(r) \/ ReadChanged(r) \/ ReadRelated(r)
        BY <4>5, EndPackStep, ReadChangedStep, ReadRelatedStep DEF Typed
      <4> QED BY <1>1, <2>3, <4>1, <4>2, <4>3, <4>4, <4>5 DEF Read
    <3> QED BY <1>0, <2>0, <3>1, <3>2 DEF Excused
  <2> QED BY <2>1, <2>2, <2>3
<1>2. ASSUME NEW v \in Readers, NEW p \in Projects, NEW q \in Queries, Ask(v, p, q) PROVE Goal
  <2>1. CASE r = v
    <3>1. work'[r].lineage.focus = None /\ work'[r].pc # "failed"
      BY <1>0, <1>2, <2>1, AskStep DEF Typed
    <3> QED BY <3>1
  <2>2. CASE r # v
    <3>1. work'[r] = work[r] /\ seen'[r] = seen[r]
      BY <1>0, <1>2, <2>2, AskStep, AskView DEF Typed, Moved
    <3> QED BY <1>0, <3>1 DEF Excused
  <2> QED BY <2>1, <2>2
<1>3. ASSUME NEW w \in Writers, WriterStep(w) PROVE Goal
  <2>1. work'[r] = work[r] \/ work'[r].pc \in {"idle", "writing"}
    BY <1>0, <1>3, WriterMoves DEF Typed
  <2>2. seen[r].gone => seen'[r].gone
    BY <1>3, HistoryGrows
  <2> QED BY <1>0, <2>1, <2>2 DEF Excused
<1>4. CASE UNCHANGED vars
  BY <1>0, <1>4 DEF vars, Excused
<1> QED BY <1>1, <1>2, <1>3, <1>4, NextKinds

-----------------------------------------------------------------------------
(***************************************************************************)
(* What an answer shows.                                                   *)
(***************************************************************************)
LEMMA InitShown == Init => ShownWasActive
BY DEF Init, ShownWasActive, NoWork, NoView, Procs

\* What a SELECT adds to an answer was in a row of the project.
LEMMA ReadShows ==
    ASSUME Typed, NEW r \in Readers, Read(r), ~Return(r)
    PROVE  LET s == work[r]
               t == work'[r]
               here == files[s.project] \cup chunks[s.project] \cup symbols[s.project]
           IN  /\ t.hits \subseteq s.hits \cup here
               /\ t.pack \subseteq s.pack \cup here
               /\ t.changed \subseteq s.changed \cup here \/ files[s.project] = {}
<1> DEFINE s == work[r]
           t == work'[r]
           p == s.project
           here == files[p] \cup chunks[p] \cup symbols[p]
<1>1. CASE \/ ResolveProject(r) \/ Gate(r) \/ LineageProject(r) \/ FindFocus(r) \/ WalkUp(r) \/ Relate(r)
           \/ ReadTasks(r) \/ EndSearch(r) \/ ResolvePack(r) \/ EndPack(r)
  <2>1. SameAnswer(s, t)
    BY <1>1, ResolveProjectStep, GateStep, LineageProjectStep, FindFocusStep, WalkUpStep, RelateStep,
       ReadTasksStep, EndSearchStep, ResolvePackStep, EndPackStep DEF Typed
  <2> QED BY <2>1 DEF SameAnswer
<1>2. CASE ReadFiles(r) \/ ReadChunks(r)
  <2>1. \A table, score : Hits(r, table, score) \subseteq table[p]
    BY DEF Hits
  <2>2. /\ t.hits \subseteq files[p] \/ t.hits \subseteq s.hits \cup chunks[p]
        /\ t.changed = s.changed /\ t.pack = s.pack
    BY <1>2, <2>1, ReadFilesStep, ReadChunksStep DEF Typed
  <2> QED BY <2>2
<1>3. CASE ReadSymbols(r) \/ Snapshot(r)
  BY <1>3, ReadSymbolsStep, SnapshotStep DEF Typed
<1>4. CASE ReadChanged(r) \/ ReadRelated(r)
  BY <1>4, ReadChangedStep, ReadRelatedStep DEF Typed
<1> QED BY <1>1, <1>2, <1>3, <1>4 DEF Read

LEMMA NextShown == Typed /\ Noted /\ ShownWasActive /\ [Next]_vars => ShownWasActive'
<1> SUFFICES ASSUME Typed, Noted, ShownWasActive, [Next]_vars, NEW r \in Readers
             PROVE  LET t == work'[r] IN
                    /\ t.hits \cup t.pack \subseteq seen'[r].ever
                    /\ t.changed \subseteq seen'[r].ever \/ seen'[r].bare
  BY DEF ShownWasActive
<1> DEFINE s == work[r]
           t == work'[r]
           Goal == /\ t.hits \cup t.pack \subseteq seen'[r].ever
                   /\ t.changed \subseteq seen'[r].ever \/ seen'[r].bare
<1>0. /\ work \in [Procs -> Work] /\ r \in Procs
      /\ NoWork.hits = {} /\ NoWork.changed = {} /\ NoWork.pack = {}
      /\ s.hits \cup s.pack \subseteq seen[r].ever
      /\ s.changed \subseteq seen[r].ever \/ seen[r].bare
  BY DEF Typed, TypeOK, Procs, NoWork, ShownWasActive
<1>1. ASSUME NEW v \in Readers, Read(v) PROVE Goal
  <2>0. seen' = seen
    BY <1>1 DEF Read
  <2>1. CASE r # v
    <3>1. t = s
      BY <1>0, <1>1, <2>1, ReadMoves DEF Typed, Moved
    <3> QED BY <1>0, <2>0, <3>1
  <2>2. CASE r = v /\ Return(r)
    BY <1>0, <2>0, <2>2, ReturnStep DEF Typed
  <2>3. CASE r = v /\ ~Return(r)
    <3>1. Answering(r)
      BY <1>1, <2>3, ReadMoves DEF Typed, Onward, Answering
    <3> DEFINE p == s.project
    <3>2. /\ files[p] \cup chunks[p] \cup symbols[p] \subseteq seen[r].ever
          /\ files[p] = {} => seen[r].bare
      BY <3>1 DEF Noted, NotedFor
    <3>3. LET here == files[p] \cup chunks[p] \cup symbols[p] IN
          /\ t.hits \subseteq s.hits \cup here
          /\ t.pack \subseteq s.pack \cup here
          /\ t.changed \subseteq s.changed \cup here \/ files[p] = {}
      BY <1>1, <2>3, ReadShows
    <3> QED BY <1>0, <2>0, <3>2, <3>3
  <2> QED BY <2>1, <2>2, <2>3
<1>2. ASSUME NEW v \in Readers, NEW p \in Projects, NEW q \in Queries, Ask(v, p, q) PROVE Goal
  <2>1. CASE r = v
    BY <1>2, <2>1, AskStep DEF Typed
  <2>2. CASE r # v
    <3>1. t = s /\ seen'[r] = seen[r]
      BY <1>0, <1>2, <2>2, AskStep, AskView DEF Typed, Moved
    <3> QED BY <1>0, <3>1
  <2> QED BY <2>1, <2>2
<1>3. ASSUME NEW w \in Writers, WriterStep(w) PROVE Goal
  <2>1. t = s \/ t = NoWork \/ SameAnswer(s, t)
    BY <1>0, <1>3, WriterMoves DEF Typed
  <2>2. seen[r].ever \subseteq seen'[r].ever /\ (seen[r].bare => seen'[r].bare)
    BY <1>3, HistoryGrows
  <2> QED BY <1>0, <2>1, <2>2 DEF SameAnswer
<1>4. CASE UNCHANGED vars
  BY <1>0, <1>4 DEF vars
<1> QED BY <1>1, <1>2, <1>3, <1>4, NextKinds

-----------------------------------------------------------------------------
(***************************************************************************)
(* The results of a search.                                                *)
(***************************************************************************)
\* The table of files has been read, the table of chunks has.
PassedFiles(r) == work[r].pc \in {"symbols", "chunks", "tasks"} \/ (At(r, "found") /\ work[r].open)
PassedChunks(r) == At(r, "tasks") \/ (At(r, "found") /\ work[r].open)

\* What the tables that have been read let through is among the results.
FilesKept(r) ==
    \A f \in files[work[r].project] \cap work[r].ask.under :
        FileScore(work[r].ask, work[r].lineage, f) > Cutoff => f \in work[r].hits
ChunksKept(r) ==
    \A f \in chunks[work[r].project] \cap work[r].ask.under :
        ChunkScore(work[r].ask, work[r].lineage, work[r].named, f) > Cutoff => f \in work[r].hits
Kept ==
    \A r \in Readers : seen[r].calm =>
        (PassedFiles(r) => FilesKept(r)) /\ (PassedChunks(r) => ChunksKept(r))

LEMMA InitKept == Init => Kept
BY DEF Init, Kept, PassedFiles, PassedChunks, At, NoWork, Procs

LEMMA ReadKeeps ==
    ASSUME Typed, Kept, NEW r \in Readers, Read(r), seen'[r].calm
    PROVE  (PassedFiles(r)' => FilesKept(r)') /\ (PassedChunks(r)' => ChunksKept(r)')
<1> DEFINE s == work[r]
           t == work'[r]
           p == s.project
<1>1. /\ UNCHANGED <<files, chunks>>
      /\ (PassedFiles(r) => FilesKept(r)) /\ (PassedChunks(r) => ChunksKept(r))
  BY DEF Read, rows, Kept
<1>2. CASE ReadFiles(r)
  <2>1. /\ t.pc = "symbols" /\ t.lineage = s.lineage /\ t.ask = s.ask /\ t.project = p
        /\ t.hits = Hits(r, files, [f \in Files |-> FileScore(s.ask, s.lineage, f)])
    BY <1>2, ReadFilesStep DEF Typed, Onward
  <2>2. p \in Projects /\ files[p] \subseteq Files
    BY <1>2 DEF ReadFiles, At, Typed, Placed, TypeOK, Procs
  <2>3. \A f \in files[p] \cap s.ask.under : FileScore(s.ask, s.lineage, f) > Cutoff => f \in t.hits
    BY <2>1, <2>2 DEF Hits
  <2> QED BY <1>1, <2>1, <2>3 DEF PassedChunks, FilesKept, At
<1>3. CASE ReadSymbols(r)
  <2>1. /\ s.pc = "symbols" /\ t.pc = "chunks" /\ t.lineage = s.lineage /\ t.ask = s.ask /\ t.project = p
        /\ s.hits \subseteq t.hits
    BY <1>3, ReadSymbolsStep DEF Typed, Onward
  <2>2. FilesKept(r)
    BY <1>1, <2>1 DEF PassedFiles
  <2> QED BY <1>1, <2>1, <2>2 DEF PassedChunks, FilesKept, At
<1>4. CASE ReadChunks(r)
  <2>1. /\ s.pc = "chunks" /\ t.pc = "tasks" /\ t.lineage = s.lineage /\ t.ask = s.ask /\ t.project = p
        /\ t.named = s.named
        /\ t.hits = s.hits \cup
             Hits(r, chunks, [f \in Files |-> ChunkScore(s.ask, s.lineage, s.named, f)])
    BY <1>4, ReadChunksStep DEF Typed, Onward
  <2>2. p \in Projects /\ chunks[p] \subseteq Files
    BY <1>4 DEF ReadChunks, At, Typed, Placed, TypeOK, Procs
  <2>3. \A f \in chunks[p] \cap s.ask.under :
           ChunkScore(s.ask, s.lineage, s.named, f) > Cutoff => f \in t.hits
    BY <2>1, <2>2 DEF Hits
  <2>4. FilesKept(r) /\ s.hits \subseteq t.hits
    BY <1>1, <2>1 DEF PassedFiles
  <2> QED BY <1>1, <2>1, <2>3, <2>4 DEF FilesKept, ChunksKept
<1>5. CASE ReadTasks(r)
  <2>1. /\ s.pc = "tasks" /\ t.lineage = s.lineage /\ t.ask = s.ask /\ t.project = p
        /\ t.named = s.named /\ t.hits = s.hits
    BY <1>5, ReadTasksStep DEF Typed, Onward, SameAnswer
  <2>2. FilesKept(r) /\ ChunksKept(r)
    BY <1>1, <2>1 DEF PassedFiles, PassedChunks, At
  <2> QED BY <1>1, <2>1, <2>2 DEF FilesKept, ChunksKept
<1>6. CASE ~(ReadFiles(r) \/ ReadSymbols(r) \/ ReadChunks(r) \/ ReadTasks(r))
  <2>1. t.pc \notin {"symbols", "chunks", "tasks", "found"} \/ (t.pc = "found" /\ ~t.open)
    <3>1. CASE ResolveProject(r) \/ Gate(r) \/ LineageProject(r) \/ FindFocus(r)
      BY <3>1, ResolveProjectStep, GateStep, LineageProjectStep, FindFocusStep DEF Typed
    <3>2. CASE WalkUp(r) \/ Relate(r) \/ EndSearch(r) \/ ResolvePack(r) \/ Snapshot(r)
      BY <3>2, WalkUpStep, RelateStep, EndSearchStep, ResolvePackStep, SnapshotStep DEF Typed
    <3>3. CASE EndPack(r) \/ ReadChanged(r) \/ ReadRelated(r) \/ Return(r)
      BY <3>3, EndPackStep, ReadChangedStep, ReadRelatedStep, ReturnStep DEF Typed, NoWork
    <3> QED BY <1>6, <3>1, <3>2, <3>3 DEF Read
  <2> QED BY <2>1 DEF PassedFiles, PassedChunks, At
<1> QED BY <1>2, <1>3, <1>4, <1>5, <1>6

LEMMA NextKept == Typed /\ Kept /\ [Next]_vars => Kept'
<1> SUFFICES ASSUME Typed, Kept, [Next]_vars, NEW r \in Readers, seen'[r].calm
             PROVE  (PassedFiles(r)' => FilesKept(r)') /\ (PassedChunks(r)' => ChunksKept(r)')
  BY DEF Kept
<1> DEFINE Goal == (PassedFiles(r)' => FilesKept(r)') /\ (PassedChunks(r)' => ChunksKept(r)')
<1>0. work \in [Procs -> Work] /\ r \in Procs
  BY DEF Typed, TypeOK, Procs
<1>1. ASSUME work'[r] = work[r], seen'[r] = seen[r], UNCHANGED <<files, chunks>> PROVE Goal
  BY <1>1 DEF Kept, PassedFiles, PassedChunks, FilesKept, ChunksKept, At
<1>2. ASSUME NEW v \in Readers, Read(v) PROVE Goal
  <2>1. CASE r = v
    BY <1>2, <2>1, ReadKeeps
  <2>2. CASE r # v
    <3>1. work'[r] = work[r] /\ seen' = seen /\ UNCHANGED <<files, chunks>>
      BY <1>0, <1>2, <2>2, ReadMoves DEF Typed, Moved, Read, rows
    <3> QED BY <1>1, <3>1
  <2> QED BY <2>1, <2>2
<1>3. ASSUME NEW v \in Readers, NEW p \in Projects, NEW q \in Queries, Ask(v, p, q) PROVE Goal
  <2>1. CASE r = v
    <3>1. work'[r].pc \in {"lineage", "gate", "pack", "resolve"}
      BY <1>3, <2>1, AskStep DEF Typed
    <3> QED BY <3>1 DEF PassedFiles, PassedChunks, At
  <2>2. CASE r # v
    <3>1. UNCHANGED <<files, chunks>>
      BY <1>3 DEF Ask, rows
    <3>2. work'[r] = work[r] /\ seen'[r] = seen[r]
      BY <1>0, <1>3, <2>2, AskStep, AskView DEF Typed, Moved
    <3> QED BY <1>1, <3>1, <3>2
  <2> QED BY <2>1, <2>2
<1>4. ASSUME NEW w \in Writers, WriterStep(w) PROVE Goal
  <2>1. ASSUME Answering(r)' PROVE FALSE
    BY <1>4, <2>1, WriterNoted
  <2> QED BY <2>1 DEF Answering, PassedFiles, PassedChunks, At
<1>5. CASE UNCHANGED vars
  BY <1>1, <1>5 DEF vars, rows
<1> QED BY <1>2, <1>3, <1>4, <1>5, NextKinds

\* The bonus of the lineage: a file of it is let through by the table of files, or by the
\* table of chunks; by the latter unless it is a document and the query looks like code and
\* not like an identifier.
LEMMA BonusOutweighs ==
    ASSUME NEW q \in AskedOf, NEW l \in Lineages, NEW named, NEW f \in l.files
    PROVE  /\ FileScore(q, l, f) > Cutoff \/ ChunkScore(q, l, named, f) > Cutoff
           /\ ChunkScore(q, l, named, f) > Cutoff \/ (f \in Docs /\ q.code /\ ~q.ident)
<1>1. q.code \in BOOLEAN /\ q.ident \in BOOLEAN
  BY DEF AskedOf
<1>2. CASE f \in Docs /\ q.code /\ ~q.ident
  BY <1>2 DEF FileScore, If, Cutoff
<1>3. CASE ~(f \in Docs /\ q.code /\ ~q.ident)
  BY <1>1, <1>3 DEF ChunkScore, If, Cutoff
<1> QED BY <1>2, <1>3

-----------------------------------------------------------------------------
(***************************************************************************)
(* The rows of a project with one writer.                                  *)
(***************************************************************************)
Putting(s, table, f) == s.on = table /\ f \in s.put
Dropping(s, table, f) == s.on = table /\ f \in s.drop

\* A script that deletes a row of a file deletes its chunk later and inserts none.
Orderly(script) ==
    \A f \in Files, i \in 1..Len(script) : Dropping(script[i], "files", f) =>
        /\ \E j \in 1..Len(script) : j > i /\ Dropping(script[j], "chunks", f)
        /\ \A j \in 1..Len(script) : ~Putting(script[j], "chunks", f)

\* A chunk without the row of its file is about to be deleted, and a chunk is inserted when
\* the row of its file is there.
Backed(p, script) ==
    \A f \in Files :
        /\ f \in chunks[p] \ files[p] => \E i \in 1..Len(script) : Dropping(script[i], "chunks", f)
        /\ \A i \in 1..Len(script) : Putting(script[i], "chunks", f) =>
              f \in files[p] \/ \E j \in 1..(i-1) : Putting(script[j], "files", f)

ScriptOf(w, p) == IF At(w, "writing") /\ work[w].project = p THEN work[w].script ELSE <<>>
Tidy == \A w \in Writers, p \in Projects : Orderly(ScriptOf(w, p)) /\ Backed(p, ScriptOf(w, p))

LEMMA NothingLeft ==
    ASSUME NEW p
    PROVE  Orderly(<<>>) /\ (Backed(p, <<>>) <=> \A f \in Files : f \in chunks[p] => f \in files[p])
BY DEF Orderly, Backed

LEMMA InitTidy == Init => Tidy
<1> SUFFICES ASSUME Init, NEW w \in Writers, NEW p \in Projects
             PROVE  Orderly(ScriptOf(w, p)) /\ Backed(p, ScriptOf(w, p))
  BY DEF Tidy
<1>1. ScriptOf(w, p) = <<>>
  BY DEF Init, ScriptOf, At, NoWork, Procs
<1>2. chunks = files
  BY DEF Init
<1> QED BY <1>1, <1>2, NothingLeft

\* The scripts of every call are orderly, and right for a project in order.
LEMMA ScriptsAreOrderly ==
    ASSUME NEW p \in Projects, NEW script \in Scripts(p), chunks[p] \subseteq files[p]
    PROVE  Orderly(script) /\ Backed(p, script)
<1>1. CASE \E f \in Files : script = IndexScript(f)
  <2>1. PICK f \in Files : script = IndexScript(f)
    BY <1>1
  <2>2. /\ Len(script) = 6 /\ script[1] = Puts("files", {f}) /\ script[2] = Drops("chunks", {f})
        /\ script[3] = Drops("symbols", {f}) /\ script[4] = Puts("chunks", {f})
        /\ script[5] = Puts("symbols", {f} \ Docs) /\ script[6] = Becomes({"deindexed"}, "active")
    BY <2>1 DEF IndexScript
  <2>3. \A g \in Files, i \in 1..6 : ~Dropping(script[i], "files", g)
    BY <2>2 DEF Dropping, Puts, Drops, Becomes
  <2>4. \A g \in Files, i \in 1..6 : Putting(script[i], "chunks", g) => i = 4 /\ g = f
    BY <2>2 DEF Putting, Puts, Drops, Becomes
  <2>5. Putting(script[1], "files", f)
    BY <2>2 DEF Putting, Puts
  <2> QED BY <2>2, <2>3, <2>4, <2>5 DEF Orderly, Backed
<1>2. CASE \E f \in Files : script = DeleteScript(f)
  <2>1. PICK f \in Files : script = DeleteScript(f)
    BY <1>2
  <2>2. /\ Len(script) = 4 /\ script[1] = Drops("files", {f}) /\ script[2] = Drops("chunks", {f})
        /\ script[3] = Drops("symbols", {f}) /\ script[4] = Becomes({"deindexed"}, "active")
    BY <2>1 DEF DeleteScript
  <2>3. \A g \in Files, i \in 1..4 : Dropping(script[i], "files", g) => i = 1 /\ g = f
    BY <2>2 DEF Dropping, Drops, Becomes
  <2>4. \A g \in Files, i \in 1..4 : ~Putting(script[i], "chunks", g)
    BY <2>2 DEF Putting, Drops, Becomes
  <2>5. Dropping(script[2], "chunks", f)
    BY <2>2 DEF Dropping, Drops
  <2> QED BY <2>2, <2>3, <2>4, <2>5 DEF Orderly, Backed
<1>3. CASE script = DeindexScript \/ \E status \in {"detached", "disabled"} : script = Deindexing(status)
  <2>1. /\ Len(script) \in {4, 5} /\ script[1] = Drops("files", Files)
        /\ script[2] = Drops("chunks", Files) /\ script[3] = Drops("symbols", Files)
        /\ \A i \in 4..Len(script) : script[i].on = "status"
    BY <1>3 DEF DeindexScript, Deindexing, Becomes
  <2>2. \A i \in 1..Len(script) :
           \/ i = 1 /\ script[i].on = "files" /\ script[i].put = {}
           \/ i = 2 /\ script[i].on = "chunks" /\ script[i].put = {}
           \/ i > 2 /\ script[i].on \in {"symbols", "status"}
    <3> TAKE i \in 1..Len(script)
    <3>1. i = 1 \/ i = 2 \/ i = 3 \/ i \in 4..Len(script)
      BY <2>1
    <3> QED BY <2>1, <3>1 DEF Drops
  <2>3. \A g \in Files, i \in 1..Len(script) : Dropping(script[i], "files", g) => i = 1
    BY <2>2 DEF Dropping
  <2>4. \A g \in Files, i \in 1..Len(script) : ~Putting(script[i], "chunks", g)
    BY <2>2 DEF Putting
  <2>5. \A g \in Files : Dropping(script[2], "chunks", g)
    BY <2>1 DEF Dropping, Drops
  <2> QED BY <2>1, <2>3, <2>4, <2>5 DEF Orderly, Backed
<1>4. CASE \/ \E status \in {"detached", "disabled"} : script = <<Becomes(Statuses, status)>>
           \/ \E t \in Tasks, c \in Cards : script = <<Row(t, c)>>
  <2>1. Len(script) = 1 /\ script[1].on \in {"status", "task"}
    BY <1>4 DEF Becomes, Row
  <2> QED BY <2>1 DEF Orderly, Backed, Dropping, Putting
<1> QED BY <1>1, <1>2, <1>3, <1>4, ScriptKinds

\* A statement leaves an orderly script.
LEMMA StatementTidies ==
    ASSUME Typed, NEW w \in Writers, Statement(w),
           Orderly(work[w].script), Backed(work[w].project, work[w].script)
    PROVE  (Orderly(work[w].script) /\ Backed(work[w].project, work[w].script))'
<1> DEFINE p == work[w].project
           script == work[w].script
           s == Head(script)
           rest == Tail(script)
<1>1. /\ script \in Seq(Statements) /\ script # <<>> /\ p \in Projects /\ work'[w].script = rest
      /\ work'[w].project = p
  BY StatementStep DEF Statement, At, Typed, TypeOK, Placed, Procs, Work
<1>2. /\ s = script[1] /\ Len(script) \in Nat \ {0} /\ Len(rest) = Len(script) - 1
      /\ \A i \in 1..Len(rest) : rest[i] = script[i+1]
  BY <1>1
<1>3. /\ files' = [files EXCEPT ![p] = IF s.on = "files" THEN (@ \ s.drop) \cup s.put ELSE @]
      /\ chunks' = [chunks EXCEPT ![p] = IF s.on = "chunks" THEN (@ \ s.drop) \cup s.put ELSE @]
  BY DEF Statement
<1>4. \A f : /\ f \in files'[p] <=> (f \in files[p] /\ ~Dropping(s, "files", f)) \/ Putting(s, "files", f)
             /\ f \in chunks'[p] <=> (f \in chunks[p] /\ ~Dropping(s, "chunks", f)) \/ Putting(s, "chunks", f)
  BY <1>1, <1>3 DEF Typed, TypeOK, Dropping, Putting
<1> HIDE DEF p, script, s, rest
<1>5. Orderly(rest)
  <2> SUFFICES ASSUME NEW f \in Files, NEW i \in 1..Len(rest), Dropping(rest[i], "files", f)
               PROVE  /\ \E j \in 1..Len(rest) : j > i /\ Dropping(rest[j], "chunks", f)
                      /\ \A j \in 1..Len(rest) : ~Putting(rest[j], "chunks", f)
    BY DEF Orderly
  <2>1. i + 1 \in 1..Len(script) /\ Dropping(script[i+1], "files", f)
    BY <1>2
  <2>2. PICK j \in 1..Len(script) : j > i + 1 /\ Dropping(script[j], "chunks", f)
    BY <2>1 DEF Orderly, script
  <2>3. j - 1 \in 1..Len(rest) /\ j - 1 > i /\ Dropping(rest[j-1], "chunks", f)
    BY <1>2, <2>2
  <2>4. \A k \in 1..Len(script) : ~Putting(script[k], "chunks", f)
    BY <2>1 DEF Orderly, script
  <2>5. \A k \in 1..Len(rest) : k + 1 \in 1..Len(script) /\ rest[k] = script[k+1]
    BY <1>2
  <2> QED BY <2>3, <2>4, <2>5
<1>6. ASSUME NEW f \in Files, f \in chunks'[p], f \notin files'[p]
      PROVE  \E i \in 1..Len(rest) : Dropping(rest[i], "chunks", f)
  <2>1. CASE \E i \in 2..Len(script) : Dropping(script[i], "chunks", f)
    <3>1. PICK i \in 2..Len(script) : Dropping(script[i], "chunks", f)
      BY <2>1
    <3>2. i - 1 \in 1..Len(rest) /\ rest[i-1] = script[i]
      BY <1>2
    <3> QED BY <3>1, <3>2
  <2>2. CASE f \in files[p]
    <3>1. 1 \in 1..Len(script) /\ Dropping(script[1], "files", f)
      BY <1>2, <1>4, <1>6, <2>2
    <3>2. \E j \in 1..Len(script) : j > 1 /\ Dropping(script[j], "chunks", f)
      BY <3>1 DEF Orderly, script
    <3> QED BY <1>2, <2>1, <3>2
  <2>3. CASE f \notin files[p] /\ ~Dropping(script[1], "chunks", f)
    <3>1. ~Putting(script[1], "chunks", f)
      <4>1. Putting(script[1], "chunks", f) =>
                f \in files[p] \/ \E j \in 1..(1-1) : Putting(script[j], "files", f)
        BY <1>2 DEF Backed, script, p
      <4> QED BY <2>3, <4>1
    <3>2. f \in chunks[p]
      BY <1>2, <1>4, <1>6, <3>1
    <3>3. PICK i \in 1..Len(script) : Dropping(script[i], "chunks", f)
      BY <2>3, <3>2 DEF Backed, script, p
    <3> QED BY <1>2, <2>1, <2>3, <3>3
  <2>4. CASE f \notin files[p] /\ Dropping(script[1], "chunks", f)
    <3>1. Putting(script[1], "chunks", f)
      BY <1>2, <1>4, <1>6, <2>4
    <3>2. Putting(script[1], "chunks", f) =>
              f \in files[p] \/ \E j \in 1..(1-1) : Putting(script[j], "files", f)
      BY <1>2 DEF Backed, script, p
    <3> QED BY <2>4, <3>1, <3>2
  <2> QED BY <2>2, <2>3, <2>4
<1>7. ASSUME NEW f \in Files, NEW i \in 1..Len(rest), Putting(rest[i], "chunks", f)
      PROVE  f \in files'[p] \/ \E j \in 1..(i-1) : Putting(rest[j], "files", f)
  <2>1. i + 1 \in 1..Len(script) /\ Putting(script[i+1], "chunks", f)
    BY <1>2, <1>7
  <2>2. ~Dropping(script[1], "files", f)
    BY <1>2, <2>1 DEF Orderly, script
  <2>3. f \in files[p] \/ \E j \in 1..(i+1-1) : Putting(script[j], "files", f)
    BY <2>1 DEF Backed, script, p
  <2>4. CASE f \in files[p] \/ Putting(script[1], "files", f)
    BY <1>2, <1>4, <2>2, <2>4
  <2>5. CASE \E j \in 2..i : Putting(script[j], "files", f)
    <3>1. PICK j \in 2..i : Putting(script[j], "files", f)
      BY <2>5
    <3>2. j - 1 \in 1..(i-1) /\ rest[j-1] = script[j]
      BY <1>2
    <3> QED BY <3>1, <3>2
  <2> QED BY <2>3, <2>4, <2>5
<1>8. Backed(work[w].project, work[w].script)'
  BY <1>1, <1>6, <1>7 DEF Backed
<1> QED BY <1>1, <1>5, <1>8

\* With one writer the rows stay in order, whatever it does and between any two statements.
LEMMA NextTidy ==
    ASSUME NEW u, Writers = {u}
    PROVE  Typed /\ Tidy /\ [Next]_vars => Tidy'
<1> SUFFICES ASSUME Typed, Tidy, [Next]_vars, NEW w \in Writers, NEW p \in Projects
             PROVE  Orderly(ScriptOf(w, p))' /\ Backed(p, ScriptOf(w, p))'
  BY DEF Tidy
<1> DEFINE Goal == Orderly(ScriptOf(w, p))' /\ Backed(p, ScriptOf(w, p))'
<1>0. /\ work \in [Procs -> Work] /\ w \in Procs
      /\ Orderly(ScriptOf(w, p)) /\ Backed(p, ScriptOf(w, p))
  BY DEF Typed, TypeOK, Procs, Tidy
<1>1. ASSUME ScriptOf(w, p)' = ScriptOf(w, p), files'[p] = files[p], chunks'[p] = chunks[p] PROVE Goal
  BY <1>0, <1>1 DEF Orderly, Backed
<1>2. ASSUME NEW r \in Readers, Read(r) PROVE Goal
  <2>1. UNCHANGED <<files, chunks>>
    BY <1>2 DEF Read, rows
  <2>2. CASE r = w
    <3>1. work[r].pc # "writing" /\ work'[r].pc # "writing"
      BY <1>2, ReadMoves DEF Typed, Onward, NoWork
    <3> QED BY <1>1, <2>1, <2>2, <3>1 DEF ScriptOf, At
  <2>3. CASE r # w
    <3>1. work'[w] = work[w]
      BY <1>0, <1>2, <2>3, ReadMoves DEF Typed, Moved
    <3> QED BY <1>1, <2>1, <3>1 DEF ScriptOf, At
  <2> QED BY <2>2, <2>3
<1>3. ASSUME NEW r \in Readers, NEW o \in Projects, NEW q \in Queries, Ask(r, o, q) PROVE Goal
  <2>1. UNCHANGED <<files, chunks>>
    BY <1>3 DEF Ask, rows
  <2>2. CASE r = w
    <3>1. work[r].pc # "writing" /\ work'[r].pc # "writing"
      BY <1>3, AskStep DEF Typed
    <3> QED BY <1>1, <2>1, <2>2, <3>1 DEF ScriptOf, At
  <2>3. CASE r # w
    <3>1. work'[w] = work[w]
      BY <1>0, <1>3, <2>3, AskStep DEF Typed, Moved
    <3> QED BY <1>1, <2>1, <3>1 DEF ScriptOf, At
  <2> QED BY <2>2, <2>3
<1>4. ASSUME NEW v \in Writers, WriterStep(v) PROVE Goal
  <2>0. WriterStep(w)
    BY <1>4
  <2>1. CASE Statement(w)
    <3>1. work[w].pc = "writing" /\ work'[w].pc = "writing" /\ work'[w].project = work[w].project
      BY <2>1, StatementStep DEF Typed
    <3>2. CASE work[w].project = p
      <4>1. Orderly(work[w].script) /\ Backed(work[w].project, work[w].script)
        BY <1>0, <3>1, <3>2 DEF ScriptOf, At
      <4>2. Orderly(work'[w].script) /\ Backed(work[w].project, work[w].script)'
        BY <2>1, <4>1, StatementTidies
      <4>3. ScriptOf(w, p)' = work'[w].script
        BY <3>1, <3>2 DEF ScriptOf, At
      <4> QED BY <3>1, <3>2, <4>2, <4>3 DEF Backed
    <3>3. CASE work[w].project # p
      <4>1. files'[p] = files[p] /\ chunks'[p] = chunks[p]
        BY <2>1, <3>3 DEF Statement, Typed, TypeOK
      <4> QED BY <1>1, <3>1, <3>3, <4>1 DEF ScriptOf, At
    <3> QED BY <3>2, <3>3
  <2>2. CASE Finish(w)
    <3>1. UNCHANGED <<files, chunks>>
      BY <2>2 DEF Finish, rows
    <3>2. work[w].script = <<>> /\ work'[w].pc # "writing"
      BY <2>2, FinishStep DEF Typed, NoWork
    <3> QED BY <1>1, <3>1, <3>2 DEF ScriptOf, At
  <2>3. CASE \E o \in Projects : Register(w, o) \/ Purge(w, o)
    <3>1. PICK o \in Projects : Register(w, o) \/ Purge(w, o)
      BY <2>3
    <3>2. work' = work
      BY <3>1 DEF Register, Purge
    <3>3. ScriptOf(w, p)' = ScriptOf(w, p)
      BY <3>2 DEF ScriptOf, At
    <3>4. CASE files'[p] = files[p] /\ chunks'[p] = chunks[p]
      BY <1>1, <3>3, <3>4
    <3>5. CASE Purge(w, o) /\ o = p
      <4>1. ScriptOf(w, p) = <<>> /\ chunks'[p] = {}
        BY <3>5 DEF Purge, At, ScriptOf, Typed, TypeOK
      <4> QED BY <3>3, <4>1 DEF Orderly, Backed
    <3> QED BY <3>1, <3>4, <3>5 DEF Register, Purge, rows, Typed, TypeOK
  <2>4. CASE \E o \in Projects : \E script \in Scripts(o) : Begin(w, o, script)
    <3>1. PICK o \in Projects : \E script \in Scripts(o) : Begin(w, o, script)
      BY <2>4
    <3>2. PICK script \in Scripts(o) : Begin(w, o, script)
      BY <3>1
    <3>3. /\ work[w].pc = "idle" /\ UNCHANGED <<files, chunks>>
          /\ work'[w].pc = "writing" /\ work'[w].project = o /\ work'[w].script = script
      <4>1. work[w].pc = "idle" /\ UNCHANGED <<files, chunks>>
        BY <3>2 DEF Begin, At, rows
      <4>2. work'[w].pc = "writing" /\ work'[w].project = o /\ work'[w].script = script
        BY <3>2, BeginStep DEF Typed
      <4> QED BY <4>1, <4>2
    <3>4. ScriptOf(w, p) = <<>>
      BY <3>3 DEF ScriptOf, At
    <3>5. CASE o = p
      <4>1. chunks[p] \subseteq files[p]
        BY <1>0, <3>4, NothingLeft DEF Typed, TypeOK
      <4>2. Orderly(script) /\ Backed(p, script)
        BY <3>5, <4>1, ScriptsAreOrderly
      <4> QED BY <3>3, <3>5, <4>2 DEF ScriptOf, At, Orderly, Backed
    <3>6. CASE o # p
      BY <1>1, <3>3, <3>4, <3>6 DEF ScriptOf, At
    <3> QED BY <3>5, <3>6
  <2> QED BY <2>0, <2>1, <2>2, <2>3, <2>4 DEF WriterStep
<1>5. CASE UNCHANGED vars
  BY <1>1, <1>5 DEF vars, rows, ScriptOf, At
<1> QED BY <1>2, <1>3, <1>4, <1>5, NextKinds

\* A project that nobody writes to is in order.
LEMMA QuietIsTidy ==
    ASSUME Typed, Tidy, NEW w \in Writers, ~At(w, "writing"), NEW p \in Projects
    PROVE  chunks[p] \subseteq files[p]
<1>1. ScriptOf(w, p) = <<>>
  BY DEF ScriptOf
<1>2. Backed(p, <<>>)
  BY <1>1 DEF Tidy
<1> QED BY <1>2, NothingLeft DEF Typed, TypeOK

-----------------------------------------------------------------------------
\* What the tables let through of a lineage.
LEMMA KeptOfLineage ==
    ASSUME Typed, Kept, NEW r \in Readers, At(r, "found"), work[r].open, seen[r].calm,
           NEW f \in work[r].lineage.files, f \in chunks[work[r].project], f \in work[r].ask.under
    PROVE  \/ f \in work[r].hits
           \/ f \notin files[work[r].project] /\ f \in Docs /\ work[r].ask.code /\ ~work[r].ask.ident
<1>1. FilesKept(r) /\ ChunksKept(r)
  BY DEF Kept, PassedFiles, PassedChunks
<1>2. work[r].ask \in AskedOf /\ work[r].lineage \in Lineages
  BY Locals DEF Typed, Procs
<1> DEFINE q == work[r].ask
           l == work[r].lineage
<1>3. CASE ChunkScore(q, l, work[r].named, f) > Cutoff
  BY <1>1, <1>3 DEF ChunksKept
<1>4. CASE ~(ChunkScore(q, l, work[r].named, f) > Cutoff)
  <2>1. FileScore(q, l, f) > Cutoff
    BY <1>2, <1>4, BonusOutweighs
  <2>2. f \in files[work[r].project] => f \in work[r].hits
    BY <1>1, <2>1 DEF FilesKept
  <2>3. f \in Docs /\ q.code /\ ~q.ident
    BY <1>2, <1>4, BonusOutweighs
  <2> QED BY <2>2, <2>3
<1> QED BY <1>3, <1>4

\* What is left out of a search while nobody writes, with any number of writers: of a lineage's
\* files at most documents whose chunk has lost the row of its file, and those when the query
\* looks like code and not like an identifier.
OnlyStrayDocsMissed ==
    \A r \in Readers :
        At(r, "found") /\ work[r].open /\ seen[r].calm =>
            \A f \in work[r].lineage.files \cap chunks[work[r].project] \cap work[r].ask.under :
                \/ f \in work[r].hits
                \/ f \in Docs \ files[work[r].project] /\ work[r].ask.code /\ ~work[r].ask.ident

LEMMA KeptFinds == Typed /\ Kept => OnlyStrayDocsMissed
BY KeptOfLineage DEF OnlyStrayDocsMissed

LEMMA TidyFinds ==
    ASSUME NEW u, Writers = {u}
    PROVE  Typed /\ Noted /\ Kept /\ Tidy => LineageFilesFound
<1> SUFFICES ASSUME Typed, Noted, Kept, Tidy, NEW r \in Readers,
                    At(r, "found"), work[r].open, seen[r].calm,
                    NEW f \in work[r].lineage.files, f \in chunks[work[r].project],
                    f \in work[r].ask.under
             PROVE  f \in work[r].hits
  BY DEF LineageFilesFound
<1>1. work[r].project \in Projects
  BY DEF Typed, Placed, Procs, At
<1>2. NotedFor(r)
  BY DEF Noted, Answering, At
<1>3. f \in files[work[r].project]
  BY <1>1, <1>2, QuietIsTidy DEF NotedFor
<1> QED BY <1>3, KeptOfLineage

-----------------------------------------------------------------------------
(***************************************************************************)
(* The theorems.                                                           *)
(***************************************************************************)
\* The variables have their types, the locals of a question and the statements that are left
\* to a writer among them, for any sets of processes, projects, files and tasks.
THEOREM TypesHold == Spec => []TypeOK
<1>1. Spec => []Typed
  BY InitTyped, NextTyped, PTL DEF Spec
<1>2. Typed => TypeOK
  BY DEF Typed
<1> QED BY <1>1, <1>2, PTL

LEMMA TypedAndNoted == Spec => [](Typed /\ Noted)
BY InitTyped, NextTyped, InitNoted, NextNoted, PTL DEF Spec

\* getTaskLineageContext never has a task among the parents twice, in any registry and while
\* other processes change the parents between its SELECTs.
THEOREM ParentsAreOnce == Spec => []ChainHasNoRepeats
BY InitTyped, NextTyped, InitChain, NextChain, PTL DEF Spec

\* The walk to the parents is bounded: it never has more parents than the registry has tasks.
THEOREM WalkIsBounded ==
    ASSUME IsFiniteSet(Tasks)
    PROVE  Spec => [](\A r \in Readers : Len(work[r].lineage.chain) <= Cardinality(Tasks))
<1>1. ASSUME Typed, ChainHasNoRepeats, NEW r \in Readers
      PROVE  Len(work[r].lineage.chain) <= Cardinality(Tasks)
  <2> DEFINE c == work[r].lineage.chain
             S == 1..Len(c)
  <2>1. c \in Seq(Tasks) /\ IsInjective(c)
    BY <1>1, Locals DEF Typed, Procs, Lineages, ChainHasNoRepeats
  <2>2. Len(c) \in Nat /\ DOMAIN c = S /\ c \in [S -> Tasks]
    BY <2>1
  <2> HIDE DEF c
  <2>3. c \in Injection(S, Tasks)
    BY <2>1, <2>2 DEF Injection, IsInjective
  <2>4. Cardinality(S) <= Cardinality(Tasks)
    BY <2>3, FS_Injection
  <2>5. Cardinality(S) = Len(c)
    BY <2>2, FS_Interval
  <2> QED BY <2>4, <2>5 DEF c
<1>2. Typed /\ ChainHasNoRepeats => \A r \in Readers : Len(work[r].lineage.chain) <= Cardinality(Tasks)
  BY <1>1
<1>3. Spec => []Typed
  BY InitTyped, NextTyped, PTL DEF Spec
<1> QED BY <1>2, <1>3, ParentsAreOnce, PTL

\* A question fails only for its project, its selector or its pack: what getTaskLineageContext,
\* the overlay and the pack throw never takes a search with it, wherever a purge comes between.
THEOREM FailuresAreExcused == Spec => []FailsOnlyWhenGone
<1>1. Init => Unfocused /\ FailsOnlyWhenGone
  BY InitFails
<1>2. Spec => [](Unfocused /\ FailsOnlyWhenGone)
  BY <1>1, NextFails, TypedAndNoted, PTL DEF Spec
<1> QED BY <1>2, PTL

\* What an answer shows was in the index while it was put together, in whatever order its
\* SELECTs and the statements of any number of writers meet.
THEOREM AnswersWereActive == Spec => []ShownWasActive
BY InitShown, NextShown, TypedAndNoted, PTL DEF Spec

\* While nobody writes, a search with a lineage finds every file of it whose chunk is indexed,
\* whatever the query looks like, unless an earlier race of two writers left the chunk without
\* the row of its file.
THEOREM LineageIsFoundButStrays == Spec => []OnlyStrayDocsMissed
BY InitKept, NextKept, TypedAndNoted, KeptFinds, PTL DEF Spec

\* With one writer there are no such rows, and a search finds the files of the lineage.
THEOREM LineageIsFound ==
    ASSUME NEW CONSTANT u, Writers = {u}
    PROVE  Spec => []LineageFilesFound
<1>1. Typed /\ Tidy /\ [Next]_vars => Tidy'
  BY NextTidy
<1>2. Typed /\ Noted /\ Kept /\ Tidy => LineageFilesFound
  BY TidyFinds
<1> QED BY <1>1, <1>2, InitTidy, InitKept, NextKept, TypedAndNoted, PTL DEF Spec
=============================================================================
