-------------------------- MODULE WikiMemoryProofs --------------------------
(***************************************************************************)
(* Theorems about WikiMemory, for any pages, texts, backends, processes,   *)
(* bounds and failures.  Those that need one process that captures, or a   *)
(* deployment that keeps its memory where it is, say so.                   *)
(***************************************************************************)
EXTENDS WikiMemory, FiniteSetTheorems, TLAPS

Entries == [Texts -> 0..MaxCaptures]

Pcs == {"idle", "qraw", "qpage", "qbrief", "read", "page", "brief", "raw", "index", "log",
        "pick", "put"}

Work == [pc : Pcs, page : Pages \cup {None}, text : Texts \cup {None},
         layer : Layers \cup {"none"}, at : 0..MaxCaptures, held : Entries,
         todo : SUBSET (Layers \X Pages)]

\* A call has a page, a text and a time when its step needs them.
CallOK(r) ==
    /\ r.pc \notin {"idle", "pick", "put"} =>
          /\ r.page \in Pages /\ r.text \in Texts /\ r.at > 0
          /\ r.layer \in {"drafts", "live", "none"}
    /\ r.pc = "put" => r.page \in Pages /\ r.layer \in Layers
    /\ r.pc \in {"qpage", "page"} => r.layer # "none"
    /\ r.pc \in {"qbrief", "brief"} => r.layer = "live"

\* What the files hold, and what a call does.
StoreTypes ==
    /\ backend \in {"md", "dual", "qmd"}
    /\ qmd \in [Pages -> [Layers -> Entries]]
    /\ md \in [Pages -> [Layers -> Entries]]
    /\ hints \in [Pages -> [Layers -> SUBSET Texts]]
    /\ exists \subseteq Layers \X Pages /\ index \subseteq Pages
    /\ captures \in 0..MaxCaptures
    /\ surface \in {"unknown", "running", "exact"}
    /\ acked \subseteq [page : Pages, text : Texts, layer : {"drafts", "live", "none"}]

Calls == work \in [Procs -> Work] /\ \A w \in Procs : CallOK(work[w])

\* A page that has no file has no entries.
Absent == \A p \in Pages, l \in Layers : <<l, p>> \notin exists => md[p][l] = NoEntries

Types == StoreTypes /\ Calls /\ Absent

USE BoundsAssumption, CutoversAssumption

LEMMA NoEntriesType == NoEntries \in Entries /\ Of(NoEntries) = {}
    BY DEF NoEntries, Entries, Of

LEMMA NoWorkType == NoWork \in Work /\ CallOK(NoWork)
    BY NoEntriesType DEF NoWork, Work, Pcs, CallOK

\* A step to another pc leaves the rest of the call, and the other calls, as they are.
LEMMA Moved ==
    ASSUME work \in [Procs -> Work], NEW w \in Procs, NEW q \in Pcs, Goto(w, q)
    PROVE  /\ work' \in [Procs -> Work]
           /\ \A v \in Procs : v # w => work'[v] = work[v]
           /\ work'[w].pc = q
           /\ work'[w].page = work[w].page /\ work'[w].text = work[w].text
           /\ work'[w].layer = work[w].layer /\ work'[w].at = work[w].at
           /\ work'[w].held = work[w].held /\ work'[w].todo = work[w].todo
    BY DEF Goto, Work

LEMMA LayersOfStates ==
    ASSUME NEW state \in States
    PROVE  LayerFor(state) \in {"drafts", "live", "none"}
    BY DEF LayerFor, States

\* Entries keep their type.
LEMMA UpsertType ==
    ASSUME NEW e \in Entries, NEW t \in Texts, NEW n \in 0..MaxCaptures
    PROVE  /\ Upsert(e, t, n) \in Entries
           /\ Upsert(e, t, n)[t] = n
           /\ \A u \in Texts : u # t => Upsert(e, t, n)[u] = e[u]
    BY DEF Upsert, Entries

LEMMA QuotingType ==
    ASSUME NEW e \in Entries
    PROVE  Quoting(e) \in Entries /\ Of(Quoting(e)) = Top(e)
<1>1. Top(e) \subseteq Of(e)
    BY DEF Top
<1> QED
    BY <1>1 DEF Quoting, Entries, Of

\* One entry list of a table is replaced.
LEMMA PutType ==
    ASSUME NEW m \in [Pages -> [Layers -> Entries]], NEW p \in Pages, NEW l \in Layers,
           NEW e \in Entries
    PROVE  LET n == [m EXCEPT ![p][l] = e]
           IN /\ n \in [Pages -> [Layers -> Entries]]
              /\ n[p][l] = e
              /\ \A q \in Pages, k \in Layers : <<q, k>> # <<p, l>> => n[q][k] = m[q][k]
    OBVIOUS

(***************************************************************************)
(* What each step does, place by place.                                    *)
(***************************************************************************)
Others(w) == work' \in [Procs -> Work] /\ \A v \in Procs : v # w => work'[v] = work[v]

Same(w) ==
    /\ work'[w].page = work[w].page /\ work'[w].text = work[w].text
    /\ work'[w].layer = work[w].layer /\ work'[w].at = work[w].at
    /\ work'[w].held = work[w].held /\ work'[w].todo = work[w].todo

\* Table n is table m but for the entries e at a page and layer.
Puts(m, n, p, l, e) ==
    /\ n \in [Pages -> [Layers -> Entries]]
    /\ n[p][l] = e
    /\ \A q \in Pages, k \in Layers : <<q, k>> # <<p, l>> => n[q][k] = m[q][k]

Ready(w, pc) ==
    /\ w \in Procs /\ work[w].pc = pc
    /\ work[w].page \in Pages /\ work[w].text \in Texts /\ work[w].at \in 1..MaxCaptures
    /\ work[w].layer \in {"drafts", "live", "none"}

LEMMA IsReady ==
    ASSUME Types, NEW w \in Procs, NEW pc, work[w].pc = pc, pc \notin {"idle", "pick", "put"}
    PROVE  Ready(w, pc)
    BY DEF Types, Calls, CallOK, Ready, Work

LEMMA CaptureDoes ==
    ASSUME Types, NEW w \in Procs, NEW p \in Pages, NEW t \in Texts, NEW state \in States,
           Capture(w, p, t, state)
    PROVE  /\ work[w].pc = "idle" /\ Others(w)
           /\ work'[w].pc = IF Canonical THEN "qraw" ELSE "read"
           /\ work'[w].page = p /\ work'[w].text = t /\ work'[w].at \in 1..MaxCaptures
           /\ work'[w].layer \in {"drafts", "live", "none"}
           /\ captures' \in 0..MaxCaptures /\ surface' = "unknown"
           /\ UNCHANGED <<backend, store, pages, acked, torn, reads, crashes>>
<1> PICK pc, l, n : pc = (IF Canonical THEN "qraw" ELSE "read") /\ l = LayerFor(state)
                    /\ n = captures + 1
    OBVIOUS
<1> DEFINE r == [pc |-> pc, page |-> p, text |-> t, layer |-> l, at |-> n,
                 held |-> NoEntries, todo |-> {}]
<1>1. pc \in Pcs /\ l \in {"drafts", "live", "none"}
    BY LayersOfStates DEF Pcs
<1>2. n \in 1..MaxCaptures /\ work \in [Procs -> Work]
    BY DEF Capture, Types, StoreTypes, Calls
<1>3. r \in Work
    BY <1>1, <1>2, NoEntriesType DEF Work, Layers
<1>4. work' = [work EXCEPT ![w] = r]
    BY DEF Capture
<1>5. work'[w] = r /\ Others(w)
    <2> HIDE DEF r
    <2> QED  BY <1>2, <1>3, <1>4 DEF Others
<1>6. /\ work[w].pc = "idle" /\ captures' = n /\ surface' = "unknown"
      /\ UNCHANGED <<backend, store, pages, acked, torn, reads, crashes>>
    BY DEF Capture, At
<1> QED
    BY <1>1, <1>2, <1>5, <1>6

LEMMA QmdRawDoes ==
    ASSUME Types, NEW w \in Procs, QmdRaw(w)
    PROVE  /\ Ready(w, "qraw") /\ Others(w) /\ Same(w)
           /\ work'[w].pc = IF work[w].layer = "none" THEN "log" ELSE "qpage"
           /\ Puts(qmd, qmd', work[w].page, "raw",
                   Upsert(qmd[work[w].page]["raw"], work[w].text, work[w].at))
           /\ hints' \in [Pages -> [Layers -> SUBSET Texts]]
           /\ UNCHANGED <<backend, pages, acked, surface, torn, bounds>>
<1>1. Ready(w, "qraw")
    BY IsReady DEF QmdRaw, At
<1>2. Others(w) /\ Same(w) /\ work'[w].pc = IF work[w].layer = "none" THEN "log" ELSE "qpage"
    <2> PICK q : q = IF work[w].layer = "none" THEN "log" ELSE "qpage"
        OBVIOUS
    <2>1. q \in Pcs /\ Goto(w, q) /\ work \in [Procs -> Work]
        BY DEF QmdRaw, Pcs, Types, Calls
    <2> QED
        BY <2>1, Moved DEF Others, Same
<1>3. Puts(qmd, qmd', work[w].page, "raw",
           Upsert(qmd[work[w].page]["raw"], work[w].text, work[w].at))
    <2> PICK p, e : p = work[w].page /\ e = Upsert(qmd[p]["raw"], work[w].text, work[w].at)
        OBVIOUS
    <2>1. p \in Pages /\ e \in Entries /\ "raw" \in Layers
        BY <1>1, UpsertType DEF Ready, Types, StoreTypes, Layers
    <2>2. qmd' = [qmd EXCEPT ![p]["raw"] = e] /\ qmd \in [Pages -> [Layers -> Entries]]
        BY DEF QmdRaw, Enters, Types, StoreTypes
    <2> QED
        BY <2>1, <2>2, PutType DEF Puts
<1>4. hints' \in [Pages -> [Layers -> SUBSET Texts]]
    BY <1>1 DEF QmdRaw, Enters, Types, StoreTypes, Ready, Layers
<1> QED
    BY <1>1, <1>2, <1>3, <1>4 DEF QmdRaw

LEMMA QmdPageDoes ==
    ASSUME Types, NEW w \in Procs, QmdPage(w)
    PROVE  /\ Ready(w, "qpage") /\ Others(w) /\ Same(w)
           /\ work[w].layer \in {"drafts", "live"}
           /\ work'[w].pc = IF work[w].layer = "live" THEN "qbrief" ELSE "read"
           /\ Puts(qmd, qmd', work[w].page, work[w].layer,
                   Upsert(qmd[work[w].page][work[w].layer], work[w].text, work[w].at))
           /\ hints' \in [Pages -> [Layers -> SUBSET Texts]]
           /\ UNCHANGED <<backend, pages, acked, surface, torn, bounds>>
<1>1. Ready(w, "qpage") /\ work[w].layer \in {"drafts", "live"}
    <2>1. Ready(w, "qpage")
        BY IsReady DEF QmdPage, At
    <2>2. work[w].layer # "none"
        BY <2>1 DEF Types, Calls, CallOK, Ready
    <2> QED
        BY <2>1, <2>2 DEF Ready
<1>2. Others(w) /\ Same(w) /\ work'[w].pc = IF work[w].layer = "live" THEN "qbrief" ELSE "read"
    <2> PICK q : q = IF work[w].layer = "live" THEN "qbrief" ELSE "read"
        OBVIOUS
    <2>1. q \in Pcs /\ Goto(w, q) /\ work \in [Procs -> Work]
        BY DEF QmdPage, Pcs, Types, Calls
    <2> QED
        BY <2>1, Moved DEF Others, Same
<1>3. Puts(qmd, qmd', work[w].page, work[w].layer,
           Upsert(qmd[work[w].page][work[w].layer], work[w].text, work[w].at))
    <2> PICK p, l, e : p = work[w].page /\ l = work[w].layer
                       /\ e = Upsert(qmd[p][l], work[w].text, work[w].at)
        OBVIOUS
    <2>1. p \in Pages /\ l \in Layers
        BY <1>1 DEF Ready, Layers
    <2>2. e \in Entries
        BY <1>1, <2>1, UpsertType DEF Ready, Types, StoreTypes
    <2>3. qmd' = [qmd EXCEPT ![p][l] = e] /\ qmd \in [Pages -> [Layers -> Entries]]
        BY DEF QmdPage, Enters, Types, StoreTypes
    <2> QED
        BY <2>1, <2>2, <2>3, PutType DEF Puts
<1>4. hints' \in [Pages -> [Layers -> SUBSET Texts]]
    BY <1>1 DEF QmdPage, Enters, Types, StoreTypes, Ready, Layers
<1> QED
    BY <1>1, <1>2, <1>3, <1>4 DEF QmdPage

LEMMA QmdBriefDoes ==
    ASSUME Types, NEW w \in Procs, QmdBrief(w)
    PROVE  /\ Ready(w, "qbrief") /\ Others(w) /\ Same(w)
           /\ work'[w].pc = "read"
           /\ Puts(qmd, qmd', work[w].page, "briefings", Quoting(qmd[work[w].page]["live"]))
           /\ hints' \in [Pages -> [Layers -> SUBSET Texts]]
           /\ UNCHANGED <<backend, pages, acked, surface, torn, bounds>>
<1>1. Ready(w, "qbrief")
    BY IsReady DEF QmdBrief, At
<1>2. Others(w) /\ Same(w) /\ work'[w].pc = "read"
    BY Moved DEF QmdBrief, Pcs, Types, Calls, Others, Same
<1> PICK p, e : p = work[w].page /\ e = Quoting(qmd[p]["live"])
    OBVIOUS
<1>3. p \in Pages /\ e \in Entries /\ Of(e) \subseteq Texts
    BY <1>1, QuotingType DEF Ready, Types, StoreTypes, Layers, Of
<1>4. Puts(qmd, qmd', p, "briefings", e)
    <2>1. qmd' = [qmd EXCEPT ![p]["briefings"] = e] /\ qmd \in [Pages -> [Layers -> Entries]]
        BY DEF QmdBrief, Types, StoreTypes
    <2>2. "briefings" \in Layers
        BY DEF Layers
    <2> QED
        BY <2>1, <2>2, <1>3, PutType DEF Puts
<1>5. hints' \in [Pages -> [Layers -> SUBSET Texts]]
    <2>1. hints' = [hints EXCEPT ![p]["briefings"] = Of(e)]
        BY DEF QmdBrief
    <2> QED
        BY <1>3, <2>1 DEF Types, StoreTypes, Layers
<1> QED
    BY <1>1, <1>2, <1>4, <1>5 DEF QmdBrief

LEMMA ReadPageDoes ==
    ASSUME Types, NEW w \in Procs, ReadPage(w)
    PROVE  /\ Ready(w, "read") /\ Others(w)
           /\ work'[w].page = work[w].page /\ work'[w].text = work[w].text
           /\ work'[w].layer = work[w].layer /\ work'[w].at = work[w].at
           /\ \/ work[w].layer = "none" /\ work'[w].pc = "raw"
              \/ /\ work[w].layer \in {"drafts", "live"} /\ work'[w].pc = "page"
                 /\ work'[w].held = md[work[w].page][work[w].layer]
           /\ UNCHANGED <<backend, store, pages, acked, surface, torn, bounds>>
<1>1. Ready(w, "read") /\ work \in [Procs -> Work]
    BY IsReady DEF ReadPage, At, Types, Calls
<1>2. UNCHANGED <<backend, store, pages, acked, surface, torn, bounds>>
    BY DEF ReadPage
<1>3. CASE work[w].layer = "none"
    <2>1. Goto(w, "raw") /\ "raw" \in Pcs
        BY <1>3 DEF ReadPage, Goto, Pcs
    <2> QED
        BY <1>1, <1>2, <1>3, <2>1, Moved DEF Others
<1>4. CASE work[w].layer # "none"
    <2> PICK h : h = md[work[w].page][work[w].layer]
        OBVIOUS
    <2>1. h \in Entries
        BY <1>1, <1>4 DEF Types, StoreTypes, Ready, Layers
    <2>2. work' = [work EXCEPT ![w].pc = "page", ![w].held = h]
        BY <1>4 DEF ReadPage
    <2>3. ASSUME NEW s \in Work, NEW q \in Pcs
          PROVE  LET n == [s EXCEPT !.pc = q, !.held = h]
                 IN  /\ n \in Work /\ n.pc = q /\ n.held = h
                     /\ n.page = s.page /\ n.text = s.text /\ n.layer = s.layer /\ n.at = s.at
        BY <2>1 DEF Work
    <2> DEFINE r == [work[w] EXCEPT !.pc = "page", !.held = h]
    <2>4. work[w] \in Work /\ "page" \in Pcs /\ work' = [work EXCEPT ![w] = r]
        BY <1>1, <2>2 DEF Pcs
    <2>5. /\ r \in Work /\ r.pc = "page" /\ r.held = h
          /\ r.page = work[w].page /\ r.text = work[w].text
          /\ r.layer = work[w].layer /\ r.at = work[w].at
        <3>1. work[w] \in Work /\ "page" \in Pcs
            BY <2>4
        <3> QED
            BY <2>3, <3>1
    <2>6. work'[w] = r /\ Others(w)
        <3> HIDE DEF r
        <3> QED  BY <1>1, <2>4, <2>5 DEF Others
    <2> HIDE DEF r
    <2> QED
        BY <1>1, <1>2, <1>4, <2>5, <2>6 DEF Ready
<1> QED
    BY <1>3, <1>4

LEMMA AfterPagesFacts ==
    /\ AfterPages \in Pcs
    /\ backend = "md" => AfterPages = "raw"
    /\ backend # "md" => AfterPages = "index"
    BY DEF AfterPages, Canonical, Pcs

LEMMA WritePageDoes ==
    ASSUME Types, NEW w \in Procs, WritePage(w)
    PROVE  /\ Ready(w, "page") /\ Others(w) /\ Same(w)
           /\ work[w].layer \in {"drafts", "live"} /\ work[w].held \in Entries
           /\ work'[w].pc = IF work[w].layer = "live" THEN "brief" ELSE AfterPages
           /\ Puts(md, md', work[w].page, work[w].layer,
                   Upsert(work[w].held, work[w].text, work[w].at))
           /\ exists' = exists \cup {<<work[w].layer, work[w].page>>}
           /\ UNCHANGED <<backend, store, index, acked, surface, torn, bounds>>
<1>1. Ready(w, "page") /\ work[w].layer \in {"drafts", "live"} /\ work[w].held \in Entries
    <2>1. Ready(w, "page")
        BY IsReady DEF WritePage, At
    <2>2. work[w].layer # "none" /\ work[w].held \in Entries
        BY <2>1 DEF Types, Calls, CallOK, Ready, Work
    <2> QED
        BY <2>1, <2>2 DEF Ready
<1>2. /\ Others(w) /\ Same(w)
      /\ work'[w].pc = IF work[w].layer = "live" THEN "brief" ELSE AfterPages
    <2> PICK q : q = IF work[w].layer = "live" THEN "brief" ELSE AfterPages
        OBVIOUS
    <2>1. q \in Pcs /\ Goto(w, q) /\ work \in [Procs -> Work]
        BY AfterPagesFacts DEF WritePage, Pcs, Types, Calls
    <2> QED
        BY <2>1, Moved DEF Others, Same
<1>3. Puts(md, md', work[w].page, work[w].layer,
           Upsert(work[w].held, work[w].text, work[w].at))
    <2> PICK p, l, e : p = work[w].page /\ l = work[w].layer
                       /\ e = Upsert(work[w].held, work[w].text, work[w].at)
        OBVIOUS
    <2>1. p \in Pages /\ l \in Layers
        BY <1>1 DEF Ready, Layers
    <2>2. e \in Entries
        BY <1>1, UpsertType DEF Ready
    <2>3. md' = [md EXCEPT ![p][l] = e] /\ md \in [Pages -> [Layers -> Entries]]
        BY DEF WritePage, Types, StoreTypes
    <2> QED
        BY <2>1, <2>2, <2>3, PutType DEF Puts
<1> QED
    BY <1>1, <1>2, <1>3 DEF WritePage

LEMMA WriteBriefDoes ==
    ASSUME Types, NEW w \in Procs, WriteBrief(w)
    PROVE  /\ Ready(w, "brief") /\ Others(w) /\ Same(w)
           /\ work'[w].pc = AfterPages
           /\ Puts(md, md', work[w].page, "briefings",
                   Quoting(IF Canonical THEN qmd[work[w].page]["live"] ELSE md[work[w].page]["live"]))
           /\ exists' = exists \cup {<<"briefings", work[w].page>>}
           /\ UNCHANGED <<backend, store, index, acked, surface, torn, bounds>>
<1>1. Ready(w, "brief")
    BY IsReady DEF WriteBrief, At
<1>2. Others(w) /\ Same(w) /\ work'[w].pc = AfterPages
    <2> PICK q : q = AfterPages
        OBVIOUS
    <2>1. q \in Pcs /\ Goto(w, q) /\ work \in [Procs -> Work]
        BY AfterPagesFacts DEF WriteBrief, Types, Calls
    <2> QED
        BY <2>1, Moved DEF Others, Same
<1> PICK p, h, e : p = work[w].page /\ h = (IF Canonical THEN qmd[p]["live"] ELSE md[p]["live"])
                   /\ e = Quoting(h)
    OBVIOUS
<1>3. p \in Pages /\ e \in Entries
    <2>1. p \in Pages /\ h \in Entries
        BY <1>1 DEF Ready, Types, StoreTypes, Layers
    <2> QED
        BY <2>1, QuotingType
<1>4. Puts(md, md', p, "briefings", e)
    <2>1. md' = [md EXCEPT ![p]["briefings"] = e] /\ md \in [Pages -> [Layers -> Entries]]
        BY DEF WriteBrief, Types, StoreTypes
    <2>2. "briefings" \in Layers
        BY DEF Layers
    <2> QED
        BY <2>1, <2>2, <1>3, PutType DEF Puts
<1> QED
    BY <1>1, <1>2, <1>4 DEF WriteBrief

LEMMA AppendRawDoes ==
    ASSUME Types, NEW w \in Procs, AppendRaw(w)
    PROVE  /\ Ready(w, "raw") /\ Others(w) /\ Same(w)
           /\ work'[w].pc = "index"
           /\ \/ UNCHANGED <<md, exists>>
              \/ /\ exists' = exists \cup {<<"raw", work[w].page>>}
                 /\ Puts(md, md', work[w].page, "raw",
                         Upsert(md[work[w].page]["raw"], work[w].text, work[w].at))
           /\ UNCHANGED <<backend, store, index, acked, surface, torn, bounds>>
<1>1. Ready(w, "raw")
    BY IsReady DEF AppendRaw, At
<1>2. Others(w) /\ Same(w) /\ work'[w].pc = "index"
    BY Moved DEF AppendRaw, Pcs, Types, Calls, Others, Same
<1>3. CASE Canonical
    BY <1>1, <1>2, <1>3 DEF AppendRaw
<1>4. CASE ~Canonical
    <2> PICK p, e : p = work[w].page /\ e = Upsert(md[p]["raw"], work[w].text, work[w].at)
        OBVIOUS
    <2>1. p \in Pages /\ e \in Entries /\ "raw" \in Layers
        BY <1>1, UpsertType DEF Ready, Types, StoreTypes, Layers
    <2>2. md' = [md EXCEPT ![p]["raw"] = e] /\ md \in [Pages -> [Layers -> Entries]]
        BY <1>4 DEF AppendRaw, Types, StoreTypes
    <2>3. Puts(md, md', p, "raw", e)
        BY <2>1, <2>2, PutType DEF Puts
    <2> QED
        BY <1>1, <1>2, <1>4, <2>3 DEF AppendRaw
<1> QED
    BY <1>3, <1>4

LEMMA RefreshIndexDoes ==
    ASSUME Types, NEW w \in Procs, RefreshIndex(w)
    PROVE  /\ Ready(w, "index") /\ Others(w) /\ Same(w)
           /\ work'[w].pc = "log"
           /\ index' \subseteq Pages /\ index \subseteq index'
           /\ work[w].layer = "live" => work[w].page \in index'
           /\ UNCHANGED <<backend, store, md, exists, acked, surface, torn, bounds>>
<1>1. Ready(w, "index")
    BY IsReady DEF RefreshIndex, At
<1>2. Others(w) /\ Same(w) /\ work'[w].pc = "log"
    BY Moved DEF RefreshIndex, Pcs, Types, Calls, Others, Same
<1> QED
    BY <1>1, <1>2 DEF RefreshIndex, Ready, Types, StoreTypes

\* A call that ends.
LEMMA Ended ==
    ASSUME Types, NEW w \in Procs, work' = [work EXCEPT ![w] = NoWork]
    PROVE  Others(w) /\ work'[w].pc = "idle"
<1>1. work'[w] = NoWork /\ Others(w)
    BY NoWorkType DEF Types, Calls, Others
<1> QED
    BY <1>1 DEF NoWork

LEMMA ReturnDoes ==
    ASSUME Types, NEW w \in Procs, Return(w)
    PROVE  /\ Ready(w, "log") /\ Others(w) /\ work'[w].pc = "idle"
           /\ acked' = acked \cup {[page |-> work[w].page, text |-> work[w].text,
                                    layer |-> work[w].layer]}
           /\ UNCHANGED <<backend, store, pages, surface, torn, bounds>>
<1>1. Ready(w, "log")
    BY IsReady DEF Return, At
<1> QED
    BY <1>1, Ended DEF Return

LEMMA ProjectDoes ==
    ASSUME Types, NEW w \in Procs, NEW more \in SUBSET {"drafts"},
           Project(w, {"live", "briefings"} \cup more)
    PROVE  /\ work[w].pc = "idle" /\ Others(w) /\ backend # "md"
           /\ work'[w].pc = "pick" /\ work'[w].layer = "none"
           /\ \A l \in {"live", "briefings"}, p \in Pages :
                 Of(qmd[p][l]) # {} => <<l, p>> \in work'[w].todo
           /\ surface' = IF Idle THEN "running" ELSE surface
           /\ UNCHANGED <<backend, store, pages, acked, torn, captures, crashes>>
<1> PICK todo : todo = {x \in ({"live", "briefings"} \cup more) \X Pages : Of(qmd[x[2]][x[1]]) # {}}
    OBVIOUS
<1>1. todo \subseteq Layers \X Pages
    BY DEF Layers
<1>2. work' = [work EXCEPT ![w] = [NoWork EXCEPT !.pc = "pick", !.todo = todo]]
    BY DEF Project
<1> DEFINE r == [NoWork EXCEPT !.pc = "pick", !.todo = todo]
<1>3. ASSUME NEW s \in Work, NEW q \in Pcs
      PROVE  LET n == [s EXCEPT !.pc = q, !.todo = todo]
             IN  n \in Work /\ n.pc = q /\ n.todo = todo /\ n.layer = s.layer
    BY <1>1 DEF Work
<1>4. r \in Work /\ r.pc = "pick" /\ r.todo = todo /\ r.layer = "none"
    <2>1. NoWork \in Work /\ "pick" \in Pcs /\ NoWork.layer = "none"
        BY NoWorkType DEF Pcs, NoWork
    <2> QED
        BY <2>1, <1>3
<1>5. work'[w] = r /\ Others(w)
    <2>1. work' = [work EXCEPT ![w] = r] /\ work \in [Procs -> Work]
        BY <1>2 DEF Types, Calls
    <2> HIDE DEF r
    <2> QED  BY <2>1, <1>4 DEF Others
<1>6. \A l \in {"live", "briefings"}, p \in Pages : Of(qmd[p][l]) # {} => <<l, p>> \in todo
    OBVIOUS
<1>7. work'[w].pc = "pick" /\ work'[w].layer = "none" /\ work'[w].todo = todo
    BY <1>4, <1>5
<1> QED
    BY <1>5, <1>6, <1>7 DEF Project, At, Canonical

\* Pick begins a page, or ends the projection.
LEMMA PickDoes ==
    ASSUME Types, NEW w \in Procs, Pick(w)
    PROVE  /\ work[w].pc = "pick" /\ Others(w)
           /\ \/ /\ work'[w].pc = "put"
                 /\ work'[w].page \in Pages /\ work'[w].layer \in Layers
                 /\ work'[w].todo = work[w].todo \ {<<work'[w].layer, work'[w].page>>}
                 /\ work'[w].held = qmd[work'[w].page][work'[w].layer]
                 /\ UNCHANGED surface
              \/ /\ work'[w].pc = "idle" /\ work[w].todo = {}
                 /\ surface' = IF surface = "running" THEN "exact" ELSE surface
           /\ UNCHANGED <<backend, store, pages, acked, torn, bounds>>
<1>1. work[w].pc = "pick" /\ UNCHANGED <<backend, store, pages, acked, torn, bounds>>
    BY DEF Pick, At
<1>2. ASSUME NEW x \in work[w].todo,
             work' = [work EXCEPT ![w].pc = "put", ![w].layer = x[1], ![w].page = x[2],
                                  ![w].todo = @ \ {x}, ![w].held = qmd[x[2]][x[1]]],
             UNCHANGED surface
      PROVE  /\ Others(w) /\ work'[w].pc = "put"
             /\ work'[w].page \in Pages /\ work'[w].layer \in Layers
             /\ work'[w].todo = work[w].todo \ {<<work'[w].layer, work'[w].page>>}
             /\ work'[w].held = qmd[work'[w].page][work'[w].layer]
    <2> PICK l, p, h, todo : l = x[1] /\ p = x[2] /\ h = qmd[p][l] /\ todo = work[w].todo \ {x}
        OBVIOUS
    <2>1. work[w] \in Work /\ work[w].todo \subseteq Layers \X Pages
        BY DEF Types, Calls, Work
    <2>2. x = <<l, p>> /\ l \in Layers /\ p \in Pages /\ h \in Entries /\ todo \subseteq Layers \X Pages
        BY <2>1 DEF Types, StoreTypes
    <2>3. work' = [work EXCEPT ![w].pc = "put", ![w].layer = l, ![w].page = p,
                               ![w].todo = todo, ![w].held = h]
        BY <1>2
    <2> PICK s : s = work[w]
        OBVIOUS
    <2> DEFINE r == [pc |-> "put", page |-> p, text |-> s.text, layer |-> l, at |-> s.at,
                     held |-> h, todo |-> todo]
    <2>4. work'[w] = r /\ Others(w)
        <3>1. r \in Work
            BY <2>1, <2>2 DEF Work, Pcs
        <3>2. work' = [work EXCEPT ![w] = r]
            BY <2>1, <2>3 DEF Types, Calls, Work
        <3> HIDE DEF r
        <3> QED  BY <3>1, <3>2 DEF Others, Types, Calls
    <2>5. /\ work'[w].pc = "put" /\ work'[w].page = p /\ work'[w].layer = l
          /\ work'[w].todo = todo /\ work'[w].held = h
        BY <2>4
    <2> HIDE DEF r
    <2> QED
        BY <2>2, <2>4, <2>5
<1>3. ASSUME work[w].todo = {}, work' = [work EXCEPT ![w] = NoWork]
      PROVE  Others(w) /\ work'[w].pc = "idle"
    BY <1>3, Ended
<1> QED
    BY <1>1, <1>2, <1>3 DEF Pick

LEMMA PutDoes ==
    ASSUME Types, NEW w \in Procs, Put(w)
    PROVE  /\ work[w].pc = "put" /\ Others(w) /\ Same(w) /\ work'[w].pc = "pick"
           /\ work[w].page \in Pages /\ work[w].layer \in Layers /\ work[w].held \in Entries
           /\ Puts(md, md', work[w].page, work[w].layer, work[w].held)
           /\ exists' = exists \cup {<<work[w].layer, work[w].page>>}
           /\ index' \subseteq Pages /\ index \subseteq index'
           /\ UNCHANGED <<backend, store, acked, surface, torn, bounds>>
<1>1. /\ work[w].pc = "put"
      /\ work[w].page \in Pages /\ work[w].layer \in Layers /\ work[w].held \in Entries
    BY DEF Put, At, Types, Calls, CallOK, Work
<1>2. Others(w) /\ Same(w) /\ work'[w].pc = "pick"
    BY Moved DEF Put, Pcs, Types, Calls, Others, Same
<1>3. md \in [Pages -> [Layers -> Entries]] /\ index \subseteq Pages
    BY DEF Types, StoreTypes
<1> PICK p, l, h : p = work[w].page /\ l = work[w].layer /\ h = work[w].held
    OBVIOUS
<1>4. ASSUME ~NeedsRefresh(w)
      PROVE  md[p][l] = h /\ <<l, p>> \in exists
    BY <1>4 DEF NeedsRefresh
<1>5. CASE UNCHANGED pages /\ ~NeedsRefresh(w)
    <2>1. Puts(md, md', p, l, h) /\ exists' = exists \cup {<<l, p>>} /\ index' = index
        BY <1>3, <1>4, <1>5 DEF pages, Puts
    <2> QED
        BY <1>1, <1>2, <1>3, <2>1 DEF Put
<1>6. CASE /\ md' = [md EXCEPT ![p][l] = IF NeedsRefresh(w) THEN h ELSE @]
           /\ exists' = exists \cup {<<l, p>>}
           /\ index' = IF l = "live" THEN index \cup {p} ELSE index
    <2>1. md' = [md EXCEPT ![p][l] = h]
        BY <1>1, <1>3, <1>4, <1>6
    <2>2. Puts(md, md', p, l, h)
        BY <1>1, <1>3, <2>1, PutType DEF Puts
    <2> QED
        BY <1>1, <1>2, <1>3, <1>6, <2>2 DEF Put
<1> QED
    BY <1>5, <1>6 DEF Put

\* A call that is cut short; its page may be left empty.
LEMMA FailDoes ==
    ASSUME Types, NEW w \in Procs, Fail(w)
    PROVE  /\ work[w].pc # "idle" /\ Others(w) /\ work'[w].pc = "idle"
           /\ surface' = "unknown" /\ crashes' = crashes + 1
           /\ \/ UNCHANGED <<md, torn>>
              \/ /\ torn' /\ md' \in [Pages -> [Layers -> Entries]]
                 /\ \A p \in Pages, l \in Layers : md'[p][l] \in {md[p][l], NoEntries}
           /\ UNCHANGED <<backend, store, exists, index, acked, captures, reads>>
<1>1. /\ work[w].pc # "idle" /\ surface' = "unknown" /\ crashes' = crashes + 1
      /\ UNCHANGED <<backend, store, exists, index, acked, captures, reads>>
    BY DEF Fail, At
<1>2. Others(w) /\ work'[w].pc = "idle"
    BY Ended DEF Fail
<1> PICK p, l : p = work[w].page /\ l = IF work[w].pc = "brief" THEN "briefings" ELSE work[w].layer
    OBVIOUS
<1>3. ASSUME md' = [md EXCEPT ![p][l] = NoEntries], work[w].pc \in {"page", "brief", "put"}
      PROVE  /\ md' \in [Pages -> [Layers -> Entries]]
             /\ \A q \in Pages, k \in Layers : md'[q][k] \in {md[q][k], NoEntries}
    <2>1. p \in Pages /\ l \in Layers
        BY <1>3 DEF Types, Calls, CallOK, Layers
    <2>2. Puts(md, md', p, l, NoEntries)
        BY <1>3, <2>1, NoEntriesType, PutType DEF Puts, Types, StoreTypes
    <2> QED
        BY <2>2 DEF Puts
<1>4. UNCHANGED <<md, torn>> \/ (torn' /\ md' = [md EXCEPT ![p][l] = NoEntries]
                                  /\ work[w].pc \in {"page", "brief", "put"})
    BY DEF Fail
<1> QED
    BY <1>1, <1>2, <1>3, <1>4

(***************************************************************************)
(* Types.                                                                  *)
(***************************************************************************)
LEMMA CallsKept ==
    ASSUME Types, NEW w \in Procs, Others(w), CallOK(work'[w])
    PROVE  Calls'
    BY DEF Types, Calls, Others

LEMMA AbsentKept ==
    ASSUME Types, UNCHANGED <<md, exists>>
    PROVE  Absent'
    BY DEF Types, Absent

\* The entries of a page are written together with its file.
LEMMA AbsentAfterPut ==
    ASSUME Types, NEW p, NEW l, NEW e, Puts(md, md', p, l, e), exists' = exists \cup {<<l, p>>}
    PROVE  Absent'
    BY DEF Types, Absent, Puts

\* A step that writes a page.
LEMMA StoreKept ==
    ASSUME Types, NEW p \in Pages, NEW l \in Layers, NEW e, Puts(md, md', p, l, e),
           exists' = exists \cup {<<l, p>>}, index' \subseteq Pages,
           UNCHANGED <<backend, qmd, hints, captures, surface, acked>>
    PROVE  StoreTypes'
<1>1. md' \in [Pages -> [Layers -> Entries]]
    BY DEF Puts
<1>2. exists' \subseteq Layers \X Pages
    BY DEF Types, StoreTypes
<1> QED
    BY <1>1, <1>2 DEF Types, StoreTypes

LEMMA StepTypes ==
    ASSUME Types, NEW w \in Procs, Step(w) \/ Fail(w)
    PROVE  Types'
<1> USE DEF store, pages, bounds
<1>1. CASE QmdRaw(w)
    <2>1. CallOK(work'[w])
        BY <1>1, QmdRawDoes DEF CallOK, Ready, Same
    <2>2. StoreTypes' /\ UNCHANGED <<md, exists>>
        BY <1>1, QmdRawDoes DEF Types, StoreTypes, Puts
    <2> QED
        BY <1>1, <2>1, <2>2, QmdRawDoes, CallsKept, AbsentKept DEF Types
<1>2. CASE QmdPage(w)
    <2>1. CallOK(work'[w])
        BY <1>2, QmdPageDoes DEF CallOK, Ready, Same
    <2>2. StoreTypes' /\ UNCHANGED <<md, exists>>
        BY <1>2, QmdPageDoes DEF Types, StoreTypes, Puts
    <2> QED
        BY <1>2, <2>1, <2>2, QmdPageDoes, CallsKept, AbsentKept DEF Types
<1>3. CASE QmdBrief(w)
    <2>1. CallOK(work'[w])
        BY <1>3, QmdBriefDoes DEF CallOK, Ready, Same
    <2>2. StoreTypes' /\ UNCHANGED <<md, exists>>
        BY <1>3, QmdBriefDoes DEF Types, StoreTypes, Puts
    <2> QED
        BY <1>3, <2>1, <2>2, QmdBriefDoes, CallsKept, AbsentKept DEF Types
<1>4. CASE ReadPage(w)
    <2>1. CallOK(work'[w])
        BY <1>4, ReadPageDoes DEF CallOK, Ready
    <2>2. StoreTypes' /\ UNCHANGED <<md, exists>>
        BY <1>4, ReadPageDoes DEF Types, StoreTypes
    <2> QED
        BY <1>4, <2>1, <2>2, ReadPageDoes, CallsKept, AbsentKept DEF Types
<1>5. CASE WritePage(w)
    <2>1. CallOK(work'[w])
        BY <1>5, WritePageDoes, AfterPagesFacts DEF CallOK, Ready, Same, AfterPages
    <2>2. StoreTypes'
        <3>1. work[w].page \in Pages /\ work[w].layer \in Layers /\ index' \subseteq Pages
            BY <1>5, WritePageDoes DEF Ready, Layers, Types, StoreTypes
        <3> QED
            BY <1>5, <3>1, WritePageDoes, StoreKept
    <2>3. Absent'
        BY <1>5, WritePageDoes, AbsentAfterPut
    <2> QED
        BY <1>5, <2>1, <2>2, <2>3, WritePageDoes, CallsKept DEF Types
<1>6. CASE WriteBrief(w)
    <2>1. CallOK(work'[w])
        BY <1>6, WriteBriefDoes DEF CallOK, Ready, Same, AfterPages
    <2>2. StoreTypes'
        <3>1. work[w].page \in Pages /\ "briefings" \in Layers /\ index' \subseteq Pages
            BY <1>6, WriteBriefDoes DEF Ready, Layers, Types, StoreTypes
        <3> QED
            BY <1>6, <3>1, WriteBriefDoes, StoreKept
    <2>3. Absent'
        BY <1>6, WriteBriefDoes, AbsentAfterPut
    <2> QED
        BY <1>6, <2>1, <2>2, <2>3, WriteBriefDoes, CallsKept DEF Types
<1>7. CASE AppendRaw(w)
    <2>1. CallOK(work'[w])
        BY <1>7, AppendRawDoes DEF CallOK, Ready, Same
    <2>2. StoreTypes'
        <3>1. work[w].page \in Pages /\ "raw" \in Layers /\ index' \subseteq Pages
            BY <1>7, AppendRawDoes DEF Ready, Layers, Types, StoreTypes
        <3>2. CASE UNCHANGED <<md, exists>>
            BY <1>7, <3>2, AppendRawDoes DEF Types, StoreTypes
        <3>3. CASE ~UNCHANGED <<md, exists>>
            BY <1>7, <3>1, <3>3, AppendRawDoes, StoreKept
        <3> QED
            BY <3>2, <3>3
    <2>3. Absent'
        BY <1>7, AppendRawDoes, AbsentAfterPut, AbsentKept
    <2> QED
        BY <1>7, <2>1, <2>2, <2>3, AppendRawDoes, CallsKept DEF Types
<1>8. CASE RefreshIndex(w)
    <2>1. CallOK(work'[w])
        BY <1>8, RefreshIndexDoes DEF CallOK, Ready, Same
    <2>2. StoreTypes' /\ UNCHANGED <<md, exists>>
        BY <1>8, RefreshIndexDoes DEF Types, StoreTypes
    <2> QED
        BY <1>8, <2>1, <2>2, RefreshIndexDoes, CallsKept, AbsentKept DEF Types
<1>9. CASE Return(w)
    <2>1. CallOK(work'[w])
        BY <1>9, ReturnDoes DEF CallOK
    <2>2. StoreTypes' /\ UNCHANGED <<md, exists>>
        BY <1>9, ReturnDoes DEF Types, StoreTypes, Ready
    <2> QED
        BY <1>9, <2>1, <2>2, ReturnDoes, CallsKept, AbsentKept DEF Types
<1>10. CASE Pick(w)
    <2>1. CallOK(work'[w])
        BY <1>10, PickDoes DEF CallOK
    <2>2. StoreTypes' /\ UNCHANGED <<md, exists>>
        BY <1>10, PickDoes DEF Types, StoreTypes
    <2> QED
        BY <1>10, <2>1, <2>2, PickDoes, CallsKept, AbsentKept DEF Types
<1>11. CASE Put(w)
    <2>1. CallOK(work'[w])
        BY <1>11, PutDoes DEF CallOK
    <2>2. StoreTypes'
        BY <1>11, PutDoes, StoreKept
    <2>3. Absent'
        BY <1>11, PutDoes, AbsentAfterPut
    <2> QED
        BY <1>11, <2>1, <2>2, <2>3, PutDoes, CallsKept DEF Types
<1>12. CASE Fail(w)
    <2>1. CallOK(work'[w])
        BY <1>12, FailDoes DEF CallOK
    <2>2. StoreTypes'
        BY <1>12, FailDoes DEF Types, StoreTypes
    <2>3. Absent'
        BY <1>12, FailDoes DEF Types, Absent
    <2> QED
        BY <1>12, <2>1, <2>2, <2>3, FailDoes, CallsKept DEF Types
<1> QED
    BY <1>1, <1>2, <1>3, <1>4, <1>5, <1>6, <1>7, <1>8, <1>9, <1>10, <1>11, <1>12 DEF Step

LEMMA TypesKept == Types /\ [Next]_vars => Types'
<1> SUFFICES ASSUME Types, [Next]_vars PROVE Types'
    OBVIOUS
<1> USE DEF store, pages, bounds
<1>1. ASSUME NEW w \in Writers, NEW p \in Pages, NEW t \in Texts, NEW state \in States,
             Capture(w, p, t, state)
      PROVE  Types'
    <2>0. w \in Procs
        BY DEF Procs
    <2>1. CallOK(work'[w])
        BY <1>1, <2>0, CaptureDoes DEF CallOK
    <2>2. StoreTypes' /\ UNCHANGED <<md, exists>>
        BY <1>1, <2>0, CaptureDoes DEF Types, StoreTypes
    <2>3. Others(w)
        BY <1>1, <2>0, CaptureDoes
    <2> QED
        BY <2>0, <2>1, <2>2, <2>3, CallsKept, AbsentKept DEF Types
<1>2. ASSUME NEW w \in Readers, NEW more \in SUBSET {"drafts"},
             Project(w, {"live", "briefings"} \cup more)
      PROVE  Types'
    <2>0. w \in Procs
        BY DEF Procs
    <2>1. CallOK(work'[w])
        BY <1>2, <2>0, ProjectDoes DEF CallOK
    <2>2. StoreTypes' /\ UNCHANGED <<md, exists>>
        BY <1>2, <2>0, ProjectDoes DEF Types, StoreTypes
    <2>3. Others(w)
        BY <1>2, <2>0, ProjectDoes
    <2> QED
        BY <2>0, <2>1, <2>2, <2>3, CallsKept, AbsentKept DEF Types
<1>3. ASSUME NEW change \in Cutovers, CutOver(change[1], change[2])
      PROVE  Types'
    BY <1>3 DEF CutOver, Types, StoreTypes, Calls, Absent
<1>4. CASE UNCHANGED vars
    BY <1>4 DEF vars, Types, StoreTypes, Calls, Absent
<1> QED
    BY <1>1, <1>2, <1>3, <1>4, StepTypes DEF Next

LEMMA TypesInit == Init => Types
<1> SUFFICES ASSUME Init PROVE Types
    OBVIOUS
<1>1. StoreTypes
    BY BackendsAssumption, NoEntriesType DEF Init, StoreTypes
<1>2. Calls
    BY NoWorkType DEF Init, Calls
<1>3. Absent
    BY DEF Init, Absent
<1> QED
    BY <1>1, <1>2, <1>3 DEF Types

LEMMA TypesAlways == Spec => []Types
    BY TypesInit, TypesKept, PTL DEF Spec

LEMMA TypesGiveTypeOK == Types => TypeOK
<1> SUFFICES ASSUME Types PROVE TypeOK
    OBVIOUS
<1>1. \A w \in Procs : work[w].layer \in Layers \cup {"none"}
    BY DEF Types, Calls, Work
<1>2. \A p \in Pages, l \in Layers : <<l, p>> \notin exists => Of(md[p][l]) = {}
    BY NoEntriesType DEF Types, Absent
<1>3. acked \subseteq [page : Pages, text : Texts, layer : Layers \cup {"none"}]
    BY DEF Types, StoreTypes, Layers
<1> QED
    BY <1>1, <1>2, <1>3 DEF TypeOK, Types, StoreTypes, Entries

\* Every page, layer and step of a call is one the code knows, and a page without a file has no
\* entries, however captures, projections and failures overlap.
THEOREM TypesHold == Spec => []TypeOK
    BY TypesAlways, TypesGiveTypeOK, PTL

(***************************************************************************)
(* The index.                                                              *)
(***************************************************************************)
\* A capture that has only the log to write has its page in the index.
IndexInv ==
    /\ IndexNamesLive
    /\ \A w \in Procs : work[w].pc = "log" /\ work[w].layer = "live" => work[w].page \in index

LEMMA IndexKeptInStep ==
    ASSUME Types, IndexInv, NEW w \in Procs, Step(w) \/ Fail(w)
    PROVE  IndexInv'
<1> USE DEF store, pages, bounds
<1>1. CASE QmdRaw(w)
    BY <1>1, QmdRawDoes DEF IndexInv, IndexNamesLive, Others, Same, Ready, AfterPages
<1>2. CASE QmdPage(w)
    BY <1>2, QmdPageDoes DEF IndexInv, IndexNamesLive, Others, Same, Ready, AfterPages
<1>3. CASE QmdBrief(w)
    BY <1>3, QmdBriefDoes DEF IndexInv, IndexNamesLive, Others, Same, Ready, AfterPages
<1>4. CASE ReadPage(w)
    BY <1>4, ReadPageDoes DEF IndexInv, IndexNamesLive, Others, Same, Ready, AfterPages
<1>5. CASE WritePage(w)
    BY <1>5, WritePageDoes DEF IndexInv, IndexNamesLive, Others, Same, Ready, AfterPages
<1>6. CASE WriteBrief(w)
    BY <1>6, WriteBriefDoes DEF IndexInv, IndexNamesLive, Others, Same, Ready, AfterPages
<1>7. CASE AppendRaw(w)
    BY <1>7, AppendRawDoes DEF IndexInv, IndexNamesLive, Others, Same, Ready, AfterPages
<1>8. CASE RefreshIndex(w)
    BY <1>8, RefreshIndexDoes DEF IndexInv, IndexNamesLive, Others, Same, Ready, AfterPages
<1>9. CASE Return(w)
    BY <1>9, ReturnDoes DEF IndexInv, IndexNamesLive, Others, Same, Ready, AfterPages
<1>10. CASE Pick(w)
    BY <1>10, PickDoes DEF IndexInv, IndexNamesLive, Others, Same, Ready, AfterPages
<1>11. CASE Put(w)
    BY <1>11, PutDoes DEF IndexInv, IndexNamesLive, Others, Same, Ready, AfterPages
<1>12. CASE Fail(w)
    BY <1>12, FailDoes DEF IndexInv, IndexNamesLive, Others, Same, Ready, AfterPages
<1> QED
    BY <1>1, <1>2, <1>3, <1>4, <1>5, <1>6, <1>7, <1>8, <1>9, <1>10, <1>11, <1>12 DEF Step

LEMMA IndexKept == Types /\ IndexInv /\ [Next]_vars => IndexInv'
<1> SUFFICES ASSUME Types, IndexInv, [Next]_vars PROVE IndexInv'
    OBVIOUS
<1> USE DEF store, pages, bounds
<1>1. ASSUME NEW w \in Writers, NEW p \in Pages, NEW t \in Texts, NEW state \in States,
             Capture(w, p, t, state)
      PROVE  IndexInv'
    <2>1. w \in Procs
        BY DEF Procs
    <2> QED
        BY <1>1, <2>1, CaptureDoes DEF IndexInv, IndexNamesLive, Others
<1>2. ASSUME NEW w \in Readers, NEW more \in SUBSET {"drafts"},
             Project(w, {"live", "briefings"} \cup more)
      PROVE  IndexInv'
    <2>1. w \in Procs
        BY DEF Procs
    <2> QED
        BY <1>2, <2>1, ProjectDoes DEF IndexInv, IndexNamesLive, Others
<1>3. ASSUME NEW change \in Cutovers, CutOver(change[1], change[2])
      PROVE  IndexInv'
    BY <1>3 DEF CutOver, IndexInv, IndexNamesLive, Others
<1>4. CASE UNCHANGED vars
    BY <1>4 DEF vars, IndexInv, IndexNamesLive, Others
<1> QED
    BY <1>1, <1>2, <1>3, <1>4, IndexKeptInStep DEF Next

\* The page of a live capture that has returned is in index.md, however captures overlap and
\* wherever they fail.
THEOREM LivePagesAreIndexed == Spec => []IndexNamesLive
<1>1. Init => IndexInv
    BY DEF Init, IndexInv, IndexNamesLive, NoWork
<1>2. IndexInv => IndexNamesLive
    BY DEF IndexInv
<1> QED
    BY <1>1, <1>2, TypesAlways, IndexKept, PTL DEF Spec

(***************************************************************************)
(* What was acknowledged.                                                  *)
(***************************************************************************)
\* A deployment that keeps its memory in QMD goes on to do so.
CutoversKeepQmd == Cutovers \subseteq {"dual", "qmd"} \X {"dual", "qmd"}

Entered == {"qbrief", "read", "page", "brief", "raw", "index", "log"}
Written == {"brief", "raw", "index", "log"}

\* With QMD, a text is in the layer of its capture from the write on.
QmdInv ==
    backend # "md" =>
        /\ \A a \in acked : a.layer # "none" => qmd[a.page][a.layer][a.text] > 0
        /\ \A w \in Procs : work[w].pc \in Entered /\ work[w].layer # "none" =>
              qmd[work[w].page][work[w].layer][work[w].text] > 0

\* An entry that is written leaves those that are there.
LEMMA UpsertGrows ==
    ASSUME NEW e \in Entries, NEW u \in Texts, NEW n \in 1..MaxCaptures, NEW t \in Texts
    PROVE  e[t] > 0 \/ t = u => Upsert(e, u, n)[t] > 0
    BY DEF Upsert, Entries

\* Entries of raw, drafts and live are there for good.
LEMMA QmdGrows ==
    ASSUME Types, NEW w \in Procs, Step(w) \/ Fail(w),
           NEW p \in Pages, NEW l \in {"raw", "drafts", "live"}, NEW t \in Texts, qmd[p][l][t] > 0
    PROVE  qmd'[p][l][t] > 0
<1> USE DEF store, pages, bounds
<1>0. l \in Layers /\ qmd[p][l] \in Entries
    BY DEF Types, StoreTypes, Layers
<1>1. CASE QmdRaw(w)
    <2>1. CASE p = work[w].page /\ l = "raw"
        BY <1>1, <1>0, <2>1, QmdRawDoes, UpsertGrows DEF Puts, Ready
    <2>2. CASE ~(p = work[w].page /\ l = "raw")
        BY <1>1, <1>0, <2>2, QmdRawDoes DEF Puts
    <2> QED
        BY <2>1, <2>2
<1>2. CASE QmdPage(w)
    <2>1. CASE p = work[w].page /\ l = work[w].layer
        BY <1>2, <1>0, <2>1, QmdPageDoes, UpsertGrows DEF Puts, Ready
    <2>2. CASE ~(p = work[w].page /\ l = work[w].layer)
        BY <1>2, <1>0, <2>2, QmdPageDoes DEF Puts
    <2> QED
        BY <2>1, <2>2
<1>3. CASE QmdBrief(w)
    BY <1>3, <1>0, QmdBriefDoes DEF Puts
<1>4. CASE ReadPage(w)
    BY <1>4, ReadPageDoes DEF store
<1>5. CASE WritePage(w)
    BY <1>5, WritePageDoes DEF store
<1>6. CASE WriteBrief(w)
    BY <1>6, WriteBriefDoes DEF store
<1>7. CASE AppendRaw(w)
    BY <1>7, AppendRawDoes DEF store
<1>8. CASE RefreshIndex(w)
    BY <1>8, RefreshIndexDoes DEF store
<1>9. CASE Return(w)
    BY <1>9, ReturnDoes DEF store
<1>10. CASE Pick(w)
    BY <1>10, PickDoes DEF store
<1>11. CASE Put(w)
    BY <1>11, PutDoes DEF store
<1>12. CASE Fail(w)
    BY <1>12, FailDoes DEF store
<1> QED
    BY <1>1, <1>2, <1>3, <1>4, <1>5, <1>6, <1>7, <1>8, <1>9, <1>10, <1>11, <1>12 DEF Step

LEMMA StepFrame ==
    ASSUME Types, NEW w \in Procs, Step(w) \/ Fail(w)
    PROVE  backend' = backend /\ Others(w)
<1> USE DEF store, pages, bounds
<1>1. CASE QmdRaw(w)
    BY <1>1, QmdRawDoes DEF store
<1>2. CASE QmdPage(w)
    BY <1>2, QmdPageDoes DEF store
<1>3. CASE QmdBrief(w)
    BY <1>3, QmdBriefDoes DEF store
<1>4. CASE ReadPage(w)
    BY <1>4, ReadPageDoes DEF store
<1>5. CASE WritePage(w)
    BY <1>5, WritePageDoes DEF store
<1>6. CASE WriteBrief(w)
    BY <1>6, WriteBriefDoes DEF store
<1>7. CASE AppendRaw(w)
    BY <1>7, AppendRawDoes DEF store
<1>8. CASE RefreshIndex(w)
    BY <1>8, RefreshIndexDoes DEF store
<1>9. CASE Return(w)
    BY <1>9, ReturnDoes DEF store
<1>10. CASE Pick(w)
    BY <1>10, PickDoes DEF store
<1>11. CASE Put(w)
    BY <1>11, PutDoes DEF store
<1>12. CASE Fail(w)
    BY <1>12, FailDoes DEF store
<1> QED
    BY <1>1, <1>2, <1>3, <1>4, <1>5, <1>6, <1>7, <1>8, <1>9, <1>10, <1>11, <1>12 DEF Step

LEMMA QmdKeptInStep ==
    ASSUME Types, QmdInv, NEW w \in Procs, Step(w) \/ Fail(w)
    PROVE  QmdInv'
<1> USE DEF store, pages, bounds
<1> SUFFICES ASSUME backend # "md" PROVE QmdInv'
    BY StepFrame DEF QmdInv
<1> DEFINE Has(q, r) == q[r.page][r.layer][r.text] > 0
<1>a. ASSUME NEW a \in acked, a.layer # "none"
      PROVE  Has(qmd', a)
    <2>1. a.page \in Pages /\ a.text \in Texts /\ a.layer \in {"raw", "drafts", "live"} /\ Has(qmd, a)
        BY <1>a DEF Types, StoreTypes, QmdInv
    <2> QED
        BY <2>1, QmdGrows
<1>b. ASSUME NEW v \in Procs, work[v].pc \in Entered, work[v].layer # "none"
      PROVE  Has(qmd', work[v])
    <2>1. /\ work[v].page \in Pages /\ work[v].text \in Texts
          /\ work[v].layer \in {"raw", "drafts", "live"} /\ Has(qmd, work[v])
        BY <1>b DEF Types, Calls, CallOK, QmdInv, Entered
    <2> QED
        BY <2>1, QmdGrows
<1>c. (work'[w].pc \in Entered /\ work'[w].layer # "none") => Has(qmd', work'[w])
    <2>1. CASE QmdRaw(w)
        BY <2>1, QmdRawDoes DEF Same, Entered
    <2>2. CASE QmdPage(w)
        <3>1. Has(qmd', work[w])
            <4>1. /\ qmd'[work[w].page][work[w].layer]
                        = Upsert(qmd[work[w].page][work[w].layer], work[w].text, work[w].at)
                  /\ work[w].text \in Texts /\ work[w].at \in 1..MaxCaptures
                BY <2>2, QmdPageDoes DEF Puts, Ready
            <4>2. qmd[work[w].page][work[w].layer] \in Entries
                BY <2>2, QmdPageDoes DEF Ready, Types, StoreTypes, Layers
            <4> QED
                BY <4>1, <4>2, UpsertGrows
        <3> QED
            BY <2>2, <3>1, QmdPageDoes DEF Same
    <2>3. CASE QmdBrief(w)
        BY <2>3, <1>b, QmdBriefDoes DEF Same, Ready, Entered, AfterPages
    <2>4. CASE ReadPage(w)
        BY <2>4, <1>b, ReadPageDoes DEF Ready, Entered
    <2>5. CASE WritePage(w)
        BY <2>5, <1>b, WritePageDoes DEF Same, Ready, Entered, AfterPages
    <2>6. CASE WriteBrief(w)
        BY <2>6, <1>b, WriteBriefDoes DEF Same, Ready, Entered, AfterPages
    <2>7. CASE AppendRaw(w)
        BY <2>7, <1>b, AppendRawDoes DEF Same, Ready, Entered, AfterPages
    <2>8. CASE RefreshIndex(w)
        BY <2>8, <1>b, RefreshIndexDoes DEF Same, Ready, Entered, AfterPages
    <2>9. CASE Return(w)
        BY <2>9, ReturnDoes DEF Entered
    <2>10. CASE Pick(w)
        BY <2>10, PickDoes DEF Entered
    <2>11. CASE Put(w)
        BY <2>11, PutDoes DEF Entered
    <2>12. CASE Fail(w)
        BY <2>12, FailDoes DEF Entered
    <2> QED
        BY <2>1, <2>2, <2>3, <2>4, <2>5, <2>6, <2>7, <2>8, <2>9, <2>10, <2>11, <2>12 DEF Step
<1>d. ASSUME NEW a \in acked', a.layer # "none"
      PROVE  Has(qmd', a)
    <2>1. CASE a \in acked
        BY <1>a, <1>d, <2>1
    <2>2. CASE a \notin acked
        <3>1. Return(w)
            BY <2>2, QmdRawDoes, QmdPageDoes, QmdBriefDoes, ReadPageDoes, WritePageDoes, WriteBriefDoes,
               AppendRawDoes, RefreshIndexDoes, PickDoes, PutDoes, FailDoes DEF Step
        <3>2. a = [page |-> work[w].page, text |-> work[w].text, layer |-> work[w].layer]
            BY <2>2, <3>1, ReturnDoes
        <3>3. work[w].pc \in Entered
            BY <3>1, ReturnDoes DEF Ready, Entered
        <3>4. a.page = work[w].page /\ a.text = work[w].text /\ a.layer = work[w].layer
            BY <3>2
        <3> QED
            BY <1>b, <1>d, <3>3, <3>4
    <2> QED
        BY <2>1, <2>2
<1> QED
    BY <1>b, <1>c, <1>d, StepFrame DEF QmdInv, Others

LEMMA QmdKept == Types /\ QmdInv /\ CutoversKeepQmd /\ [Next]_vars => QmdInv'
<1> SUFFICES ASSUME Types, QmdInv, CutoversKeepQmd, [Next]_vars PROVE QmdInv'
    OBVIOUS
<1> USE DEF store, pages, bounds
<1>1. ASSUME NEW w \in Writers, NEW p \in Pages, NEW t \in Texts, NEW state \in States,
             Capture(w, p, t, state)
      PROVE  QmdInv'
    <2>1. w \in Procs
        BY DEF Procs
    <2> QED
        BY <1>1, <2>1, CaptureDoes DEF QmdInv, Others, Entered, Canonical
<1>2. ASSUME NEW w \in Readers, NEW more \in SUBSET {"drafts"},
             Project(w, {"live", "briefings"} \cup more)
      PROVE  QmdInv'
    <2>1. w \in Procs
        BY DEF Procs
    <2> QED
        BY <1>2, <2>1, ProjectDoes DEF QmdInv, Others, Entered, Canonical
<1>3. ASSUME NEW change \in Cutovers, CutOver(change[1], change[2])
      PROVE  QmdInv'
    BY <1>3 DEF CutOver, QmdInv, Others, Entered, Canonical, CutoversKeepQmd
<1>4. CASE UNCHANGED vars
    BY <1>4 DEF vars, QmdInv, Others, Entered, Canonical
<1> QED
    BY <1>1, <1>2, <1>3, <1>4, QmdKeptInStep DEF Next

(***************************************************************************)
(* A deployment on markdown: nothing but captures runs, and with one       *)
(* process that captures, nobody writes a page it has read.                *)
(***************************************************************************)
MdQuiet ==
    backend = "md" =>
        /\ surface = "unknown"
        /\ \A v \in Procs : work[v].pc \notin {"qraw", "qpage", "qbrief", "pick", "put"}

\* Readers do not capture.
ReadersRead == \A v \in Procs : v \notin Writers => work[v].pc \in {"idle", "pick", "put"}

\* The pages hold what was acknowledged and what a capture has written; what it has read of its
\* page is what the page holds.
PagesHold(w) ==
    (backend = "md" /\ ~torn) =>
        /\ \A a \in acked : a.layer # "none" => md[a.page][a.layer][a.text] > 0
        /\ (work[w].pc \in Written /\ work[w].layer # "none") =>
              md[work[w].page][work[w].layer][work[w].text] > 0
        /\ work[w].pc = "page" => work[w].held = md[work[w].page][work[w].layer]

MdInv == MdQuiet /\ ReadersRead

LEMMA MdKeptInStep ==
    ASSUME Types, MdInv, NEW w \in Procs, Step(w) \/ Fail(w)
    PROVE  MdInv'
<1> USE DEF store, pages, bounds
<1>1. CASE QmdRaw(w)
    BY <1>1, QmdRawDoes DEF MdInv, MdQuiet, ReadersRead, Others, Ready, AfterPages
<1>2. CASE QmdPage(w)
    BY <1>2, QmdPageDoes DEF MdInv, MdQuiet, ReadersRead, Others, Ready, AfterPages
<1>3. CASE QmdBrief(w)
    BY <1>3, QmdBriefDoes DEF MdInv, MdQuiet, ReadersRead, Others, Ready, AfterPages
<1>4. CASE ReadPage(w)
    BY <1>4, ReadPageDoes DEF MdInv, MdQuiet, ReadersRead, Others, Ready, AfterPages
<1>5. CASE WritePage(w)
    BY <1>5, WritePageDoes DEF MdInv, MdQuiet, ReadersRead, Others, Ready, AfterPages
<1>6. CASE WriteBrief(w)
    BY <1>6, WriteBriefDoes DEF MdInv, MdQuiet, ReadersRead, Others, Ready, AfterPages
<1>7. CASE AppendRaw(w)
    BY <1>7, AppendRawDoes DEF MdInv, MdQuiet, ReadersRead, Others, Ready, AfterPages
<1>8. CASE RefreshIndex(w)
    BY <1>8, RefreshIndexDoes DEF MdInv, MdQuiet, ReadersRead, Others, Ready, AfterPages
<1>9. CASE Return(w)
    BY <1>9, ReturnDoes DEF MdInv, MdQuiet, ReadersRead, Others, Ready, AfterPages
<1>10. CASE Pick(w)
    BY <1>10, PickDoes DEF MdInv, MdQuiet, ReadersRead, Others, Ready, AfterPages
<1>11. CASE Put(w)
    BY <1>11, PutDoes DEF MdInv, MdQuiet, ReadersRead, Others, Ready, AfterPages
<1>12. CASE Fail(w)
    BY <1>12, FailDoes DEF MdInv, MdQuiet, ReadersRead, Others, Ready, AfterPages
<1> QED
    BY <1>1, <1>2, <1>3, <1>4, <1>5, <1>6, <1>7, <1>8, <1>9, <1>10, <1>11, <1>12 DEF Step

LEMMA MdKept == Types /\ MdInv /\ CutoversKeepQmd /\ [Next]_vars => MdInv'
<1> SUFFICES ASSUME Types, MdInv, CutoversKeepQmd, [Next]_vars PROVE MdInv'
    OBVIOUS
<1> USE DEF store, pages, bounds
<1>1. ASSUME NEW w \in Writers, NEW p \in Pages, NEW t \in Texts, NEW state \in States,
             Capture(w, p, t, state)
      PROVE  MdInv'
    <2>1. w \in Procs
        BY DEF Procs
    <2> QED
        BY <1>1, <2>1, CaptureDoes DEF MdInv, MdQuiet, ReadersRead, Others, Canonical
<1>2. ASSUME NEW w \in Readers, NEW more \in SUBSET {"drafts"},
             Project(w, {"live", "briefings"} \cup more)
      PROVE  MdInv'
    <2>1. w \in Procs
        BY DEF Procs
    <2> QED
        BY <1>2, <2>1, ProjectDoes DEF MdInv, MdQuiet, ReadersRead, Others, Canonical
<1>3. ASSUME NEW change \in Cutovers, CutOver(change[1], change[2])
      PROVE  MdInv'
    BY <1>3 DEF CutOver, MdInv, MdQuiet, ReadersRead, Others, Canonical, CutoversKeepQmd
<1>4. CASE UNCHANGED vars
    BY <1>4 DEF vars, MdInv, MdQuiet, ReadersRead, Others, Canonical
<1> QED
    BY <1>1, <1>2, <1>3, <1>4, MdKeptInStep DEF Next

LEMMA PagesKeptInStep ==
    ASSUME Types, MdInv, NEW w \in Procs, Writers = {w}, PagesHold(w),
           NEW v \in Procs, Step(v) \/ Fail(v)
    PROVE  PagesHold(w)'
<1> USE DEF store, pages, bounds
<1> SUFFICES ASSUME backend = "md", ~torn' PROVE PagesHold(w)'
    BY StepFrame DEF PagesHold
<1>1. v = w
    <2>1. work[v].pc # "idle"
        BY QmdRawDoes, QmdPageDoes, QmdBriefDoes, ReadPageDoes, WritePageDoes, WriteBriefDoes,
           AppendRawDoes, RefreshIndexDoes, ReturnDoes, PickDoes, PutDoes, FailDoes DEF Step, Ready
    <2> QED
        BY <2>1 DEF MdInv, MdQuiet, ReadersRead
<1>2. ~torn /\ (Fail(w) => md' = md)
    BY <1>1, QmdRawDoes, QmdPageDoes, QmdBriefDoes, ReadPageDoes, WritePageDoes, WriteBriefDoes,
       AppendRawDoes, RefreshIndexDoes, ReturnDoes, PickDoes, PutDoes, FailDoes DEF Step
<1> DEFINE Has(m, r) == m[r.page][r.layer][r.text] > 0
<1>3. ASSUME NEW p \in Pages, NEW l \in {"drafts", "live"}, NEW t \in Texts, md[p][l][t] > 0
      PROVE  md'[p][l][t] > 0
    <2>1. CASE WritePage(w)
        <3>1. work[w].held = md[work[w].page][work[w].layer]
            BY <1>2, <2>1, WritePageDoes DEF PagesHold, Ready
        <3>2. CASE p = work[w].page /\ l = work[w].layer
            <4>1. md'[p][l] = Upsert(work[w].held, work[w].text, work[w].at)
                BY <2>1, <3>2, WritePageDoes DEF Puts
            <4>2. /\ work[w].held \in Entries /\ work[w].text \in Texts /\ work[w].at \in 1..MaxCaptures
                  /\ work[w].held[t] > 0
                BY <1>3, <2>1, <3>1, <3>2, WritePageDoes DEF Ready
            <4> QED
                BY <4>1, <4>2, UpsertGrows
        <3>3. CASE ~(p = work[w].page /\ l = work[w].layer)
            BY <1>3, <2>1, <3>3, WritePageDoes DEF Puts, Layers
        <3> QED
            BY <3>2, <3>3
    <2>2. CASE ~WritePage(w)
        <3>1. ~Put(w)
            BY PutDoes DEF MdInv, MdQuiet
        <3>2. l \in Layers /\ l # "briefings" /\ l # "raw"
            BY DEF Layers
        <3>3. CASE WriteBrief(w)
            BY <1>3, <3>2, <3>3, WriteBriefDoes DEF Puts
        <3>4. CASE AppendRaw(w)
            BY <1>3, <3>2, <3>4, AppendRawDoes DEF Puts
        <3>5. CASE ~WriteBrief(w) /\ ~AppendRaw(w)
            BY <1>1, <1>2, <1>3, <2>2, <3>1, <3>5, QmdRawDoes, QmdPageDoes, QmdBriefDoes, ReadPageDoes,
               RefreshIndexDoes, ReturnDoes, PickDoes DEF Step
        <3> QED
            BY <3>3, <3>4, <3>5
    <2> QED
        BY <2>1, <2>2
<1>a. ASSUME NEW a \in acked, a.layer # "none"
      PROVE  Has(md', a)
    <2>1. a.page \in Pages /\ a.text \in Texts /\ a.layer \in {"drafts", "live"} /\ Has(md, a)
        BY <1>a, <1>2 DEF Types, StoreTypes, PagesHold
    <2> QED
        BY <2>1, <1>3
<1>b. ASSUME work[w].pc \in Written, work[w].layer # "none"
      PROVE  Has(md', work[w])
    <2>1. /\ work[w].page \in Pages /\ work[w].text \in Texts
          /\ work[w].layer \in {"drafts", "live"} /\ Has(md, work[w])
        BY <1>b, <1>2 DEF Types, Calls, CallOK, PagesHold, Written
    <2> QED
        BY <2>1, <1>3
<1>c. /\ (work'[w].pc \in Written /\ work'[w].layer # "none") => Has(md', work'[w])
      /\ work'[w].pc = "page" => work'[w].held = md'[work'[w].page][work'[w].layer]
    <2>1. CASE QmdRaw(w)
        BY <2>1, QmdRawDoes DEF Ready, Same, Written, AfterPages
    <2>2. CASE QmdPage(w)
        BY <2>2, QmdPageDoes DEF Ready, Same, Written, AfterPages
    <2>3. CASE QmdBrief(w)
        BY <2>3, QmdBriefDoes DEF Ready, Same, Written, AfterPages
    <2>4. CASE ReadPage(w)
        BY <2>4, ReadPageDoes DEF Ready, Same, Written, AfterPages
    <2>5. CASE WritePage(w)
        <3>1. /\ md'[work[w].page][work[w].layer] = Upsert(work[w].held, work[w].text, work[w].at)
              /\ work[w].held \in Entries /\ work[w].text \in Texts /\ work[w].at \in 1..MaxCaptures
            BY <2>5, WritePageDoes DEF Puts, Ready
        <3>2. Has(md', work[w])
            BY <3>1, UpsertGrows
        <3> QED
            BY <2>5, <3>2, WritePageDoes DEF Same, AfterPages
    <2>6. CASE WriteBrief(w)
        BY <2>6, WriteBriefDoes, <1>b DEF Ready, Same, Written, AfterPages
    <2>7. CASE AppendRaw(w)
        BY <2>7, AppendRawDoes, <1>b DEF Ready, Same, Written, AfterPages
    <2>8. CASE RefreshIndex(w)
        BY <2>8, RefreshIndexDoes, <1>b DEF Ready, Same, Written, AfterPages
    <2>9. CASE Return(w)
        BY <2>9, ReturnDoes DEF Ready, Same, Written, AfterPages
    <2>10. CASE Pick(w)
        BY <2>10, PickDoes DEF Ready, Same, Written, AfterPages
    <2>11. CASE Put(w)
        BY <2>11, PutDoes DEF Ready, Same, Written, AfterPages
    <2>12. CASE Fail(w)
        BY <2>12, FailDoes DEF Ready, Same, Written, AfterPages
    <2> QED
        BY <1>1, <2>1, <2>2, <2>3, <2>4, <2>5, <2>6, <2>7, <2>8, <2>9, <2>10, <2>11, <2>12 DEF Step
<1>d. ASSUME NEW a \in acked', a.layer # "none"
      PROVE  Has(md', a)
    <2>1. CASE a \in acked
        BY <1>a, <1>d, <2>1
    <2>2. CASE a \notin acked
        <3>1. Return(w)
            BY <1>1, <2>2, QmdRawDoes, QmdPageDoes, QmdBriefDoes, ReadPageDoes, WritePageDoes, WriteBriefDoes,
               AppendRawDoes, RefreshIndexDoes, PickDoes, PutDoes, FailDoes DEF Step
        <3>2. a = [page |-> work[w].page, text |-> work[w].text, layer |-> work[w].layer]
            BY <2>2, <3>1, ReturnDoes
        <3>3. work[w].pc \in Written
            BY <3>1, ReturnDoes DEF Ready, Written
        <3>4. a.page = work[w].page /\ a.text = work[w].text /\ a.layer = work[w].layer
            BY <3>2
        <3> QED
            BY <1>b, <1>d, <3>3, <3>4
    <2> QED
        BY <2>1, <2>2
<1> QED
    BY <1>c, <1>d DEF PagesHold

LEMMA PagesKept ==
    ASSUME Types, MdInv, NEW w, Writers = {w}, PagesHold(w), CutoversKeepQmd, [Next]_vars
    PROVE  PagesHold(w)'
<1> USE DEF store, pages, bounds
<1>0. w \in Procs
    BY DEF Procs
<1>1. ASSUME NEW p \in Pages, NEW t \in Texts, NEW state \in States, Capture(w, p, t, state)
      PROVE  PagesHold(w)'
    BY <1>0, <1>1, CaptureDoes DEF PagesHold, Written
<1>2. ASSUME NEW v \in Readers, NEW more \in SUBSET {"drafts"},
             Project(v, {"live", "briefings"} \cup more)
      PROVE  PagesHold(w)'
    <2>1. v \in Procs
        BY DEF Procs
    <2> QED
        BY <1>2, <2>1, ProjectDoes DEF PagesHold
<1>3. ASSUME NEW change \in Cutovers, CutOver(change[1], change[2])
      PROVE  PagesHold(w)'
    BY <1>3 DEF CutOver, CutoversKeepQmd, PagesHold
<1>4. CASE UNCHANGED vars
    BY <1>4 DEF vars, PagesHold
<1> QED
    BY <1>0, <1>1, <1>2, <1>3, <1>4, PagesKeptInStep DEF Next

LEMMA AckedIsFound ==
    ASSUME Types, QmdInv, NEW w, PagesHold(w)
    PROVE  AckedFound
<1> SUFFICES ASSUME backend # "qmd", ~torn, NEW a \in acked, a.layer # "none"
             PROVE  Finds(a.page, a.text, Asked(a.layer))
    BY DEF AckedFound
<1>1. a.layer \in Asked(a.layer)
    BY DEF Asked
<1>2. FoundInPages(a.page, a.text, Asked(a.layer))
    <2>1. CASE backend = "md"
        <3>1. md[a.page][a.layer][a.text] > 0
            BY <2>1 DEF PagesHold
        <3> QED
            BY <1>1, <2>1, <3>1 DEF FoundInPages, Canonical
    <2>2. CASE backend # "md"
        <3>1. qmd[a.page][a.layer][a.text] > 0
            BY <2>2 DEF QmdInv
        <3>2. a.text \in Of(qmd[a.page][a.layer])
            BY <3>1 DEF Of, Types, StoreTypes
        <3> QED
            BY <1>1, <2>2, <3>1, <3>2 DEF FoundInPages, Canonical
    <2> QED
        BY <2>1, <2>2
<1> QED
    BY <1>2 DEF Finds

\* With one process that captures, in a deployment that keeps its memory where it is, a capture that
\* has returned is found by a search that asks for its layer, whatever is captured after it, however
\* readers rewrite the pages meanwhile and wherever later captures fail, unless a failed write left
\* a page truncated.
THEOREM AcknowledgedIsFound ==
    ASSUME NEW w, Writers = {w}, CutoversKeepQmd
    PROVE  Spec => []AckedFound
<1> DEFINE I == QmdInv /\ MdInv /\ PagesHold(w)
<1>1. Init => I
    <2> SUFFICES ASSUME Init PROVE I
        OBVIOUS
    <2>1. /\ acked = {} /\ surface = "unknown" /\ w \in Procs
          /\ \A v \in Procs : work[v].pc = "idle"
        BY DEF Init, NoWork, Procs
    <2>2. QmdInv /\ MdInv
        BY <2>1 DEF QmdInv, MdInv, MdQuiet, ReadersRead, Entered
    <2> QED
        BY <2>1, <2>2 DEF PagesHold, Written
<1>2. Types /\ I /\ [Next]_vars => I'
    BY QmdKept, MdKept, PagesKept
<1>3. Types /\ I => AckedFound
    BY AckedIsFound
<1> HIDE DEF I
<1> QED
    BY <1>1, <1>2, <1>3, TypesAlways, PTL DEF Spec

(***************************************************************************)
(* The surface that readers see.                                           *)
(***************************************************************************)
Surface == {"live", "briefings"}

Right(p, l) == Of(qmd[p][l]) # {} => md[p][l] = qmd[p][l]

\* While a projection runs alone nobody writes QMD; what it has still to do or to write is all that
\* may differ from QMD, and another reader writes nothing else.
Alone(v) ==
    /\ work[v].pc \in {"idle", "pick", "put"}
    /\ work[v].pc = "put" => work[v].held = qmd[work[v].page][work[v].layer]

Progress(v) ==
    \A p \in Pages, l \in Surface :
        \/ Right(p, l)
        \/ <<l, p>> \in work[v].todo
        \/ work[v].pc = "put" /\ work[v].layer = l /\ work[v].page = p

RepairInv ==
    /\ SurfaceRepaired
    /\ surface # "unknown" => \A v \in Procs : Alone(v)
    /\ surface = "running" => \A v \in Procs : work[v].pc # "idle" => Progress(v)

LEMMA RepairKeptInStep ==
    ASSUME Types, RepairInv, NEW w \in Procs, Step(w) \/ Fail(w)
    PROVE  RepairInv'
<1> USE DEF store, pages, bounds
<1>1. CASE QmdRaw(w)
    BY <1>1, QmdRawDoes DEF RepairInv, Alone, Ready, SurfaceRepaired
<1>2. CASE QmdPage(w)
    BY <1>2, QmdPageDoes DEF RepairInv, Alone, Ready, SurfaceRepaired
<1>3. CASE QmdBrief(w)
    BY <1>3, QmdBriefDoes DEF RepairInv, Alone, Ready, SurfaceRepaired
<1>4. CASE ReadPage(w)
    BY <1>4, ReadPageDoes DEF RepairInv, Alone, Ready, SurfaceRepaired
<1>5. CASE WritePage(w)
    BY <1>5, WritePageDoes DEF RepairInv, Alone, Ready, SurfaceRepaired
<1>6. CASE WriteBrief(w)
    BY <1>6, WriteBriefDoes DEF RepairInv, Alone, Ready, SurfaceRepaired
<1>7. CASE AppendRaw(w)
    BY <1>7, AppendRawDoes DEF RepairInv, Alone, Ready, SurfaceRepaired
<1>8. CASE RefreshIndex(w)
    BY <1>8, RefreshIndexDoes DEF RepairInv, Alone, Ready, SurfaceRepaired
<1>9. CASE Return(w)
    BY <1>9, ReturnDoes DEF RepairInv, Alone, Ready, SurfaceRepaired
<1>10. CASE Pick(w)
    <2>0. /\ Others(w) /\ work[w].pc = "pick" /\ UNCHANGED <<qmd, md>>
          /\ surface # "unknown" <=> surface' # "unknown"
        BY <1>10, PickDoes DEF Types, StoreTypes
    <2>a. \A p \in Pages, l \in Surface : Right(p, l)' <=> Right(p, l)
        BY <2>0 DEF Right
    <2>1. surface' # "unknown" => \A v \in Procs : Alone(v)'
        BY <1>10, <2>0, PickDoes DEF RepairInv, Alone, Others
    <2>2. ASSUME surface' = "running", NEW v \in Procs, work'[v].pc # "idle" PROVE Progress(v)'
        <3>1. surface = "running"
            BY <1>10, <2>2, PickDoes
        <3>2. CASE v # w
            <4>1. work'[v] = work[v] /\ Progress(v)
                BY <2>0, <2>2, <3>1, <3>2 DEF Others, RepairInv
            <4> QED
                BY <2>a, <4>1 DEF Progress
        <3>3. CASE v = w
            <4>1. Progress(w) /\ work[w].pc = "pick"
                BY <2>0, <3>1 DEF RepairInv
            <4>2. work'[w].pc = "put" /\ work'[w].todo = work[w].todo \ {<<work'[w].layer, work'[w].page>>}
                BY <1>10, <2>2, <3>3, PickDoes
            <4> QED
                BY <2>a, <3>3, <4>1, <4>2 DEF Progress
        <3> QED
            BY <3>2, <3>3
    <2>3. SurfaceRepaired'
        <3>1. CASE surface' = "exact" /\ surface = "running"
            <4>1. work[w].todo = {} /\ Progress(w)
                BY <1>10, <2>0, <3>1, PickDoes DEF RepairInv
            <4>2. \A p \in Pages, l \in Surface : Right(p, l)
                BY <2>0, <4>1 DEF Progress
            <4> QED
                BY <2>a, <4>2 DEF SurfaceRepaired, Surface, Right
        <3>2. CASE ~(surface' = "exact" /\ surface = "running")
            BY <1>10, <2>0, <3>2, PickDoes DEF RepairInv, SurfaceRepaired
        <3> QED
            BY <3>1, <3>2
    <2> QED
        BY <2>1, <2>2, <2>3 DEF RepairInv
<1>11. CASE Put(w)
    <2>0. /\ Others(w) /\ Same(w) /\ work[w].pc = "put" /\ work'[w].pc = "pick"
          /\ UNCHANGED <<qmd, surface>>
          /\ Puts(md, md', work[w].page, work[w].layer, work[w].held)
        BY <1>11, PutDoes
    <2> SUFFICES ASSUME surface # "unknown" PROVE RepairInv'
        BY <2>0 DEF RepairInv, SurfaceRepaired
    <2>1. \A v \in Procs : Alone(v)'
        BY <2>0 DEF RepairInv, Alone, Others
    <2>2. work[w].held = qmd[work[w].page][work[w].layer]
        BY <2>0 DEF RepairInv, Alone
    <2>3. ASSUME NEW p \in Pages, NEW l \in Surface
          PROVE  Right(p, l) \/ (work[w].layer = l /\ work[w].page = p) => Right(p, l)'
        <3>1. CASE work[w].layer = l /\ work[w].page = p
            BY <2>0, <2>2, <3>1 DEF Right, Puts
        <3>2. CASE ~(work[w].layer = l /\ work[w].page = p)
            BY <2>0, <3>2 DEF Right, Puts, Surface, Layers
        <3> QED
            BY <3>1, <3>2
    <2>4. ASSUME surface = "running", NEW v \in Procs, work'[v].pc # "idle" PROVE Progress(v)'
        <3>1. CASE v # w
            <4>1. work'[v] = work[v] /\ Progress(v)
                BY <2>0, <2>4, <3>1 DEF Others, RepairInv
            <4> QED
                BY <2>3, <4>1 DEF Progress
        <3>2. CASE v = w
            <4>1. Progress(w) /\ work'[w].todo = work[w].todo
                BY <2>0, <2>4 DEF RepairInv, Same
            <4> QED
                BY <2>3, <3>2, <4>1 DEF Progress
        <3> QED
            BY <3>1, <3>2
    <2>5. SurfaceRepaired'
        BY <2>0, <2>3 DEF RepairInv, SurfaceRepaired, Surface, Right
    <2> QED
        BY <2>0, <2>1, <2>4, <2>5 DEF RepairInv
<1>12. CASE Fail(w)
    BY <1>12, FailDoes DEF RepairInv, SurfaceRepaired
<1> QED
    BY <1>1, <1>2, <1>3, <1>4, <1>5, <1>6, <1>7, <1>8, <1>9, <1>10, <1>11, <1>12 DEF Step

LEMMA RepairKept == Types /\ RepairInv /\ [Next]_vars => RepairInv'
<1> SUFFICES ASSUME Types, RepairInv, [Next]_vars PROVE RepairInv'
    OBVIOUS
<1> USE DEF store, pages, bounds
<1>1. ASSUME NEW w \in Writers, NEW p \in Pages, NEW t \in Texts, NEW state \in States,
             Capture(w, p, t, state)
      PROVE  RepairInv'
    <2>1. w \in Procs
        BY DEF Procs
    <2> QED
        BY <1>1, <2>1, CaptureDoes DEF RepairInv, SurfaceRepaired, Alone, Progress, Right, Others
<1>2. ASSUME NEW w \in Readers, NEW more \in SUBSET {"drafts"},
             Project(w, {"live", "briefings"} \cup more)
      PROVE  RepairInv'
    <2>1. w \in Procs
        BY DEF Procs
    <2> QED
        <3>0. /\ Others(w) /\ work[w].pc = "idle" /\ work'[w].pc = "pick" /\ UNCHANGED <<qmd, md>>
              /\ surface' = IF Idle THEN "running" ELSE surface
              /\ \A l \in Surface, p \in Pages : Of(qmd[p][l]) # {} => <<l, p>> \in work'[w].todo
            BY <1>2, <2>1, ProjectDoes DEF Surface
        <3>1. Progress(w)'
            BY <3>0 DEF Progress, Right
        <3>2. surface' # "unknown" => \A v \in Procs : Alone(v)'
            BY <3>0 DEF RepairInv, Alone, Others, Idle
        <3>3. ASSUME surface' = "running", NEW v \in Procs, work'[v].pc # "idle", v # w PROVE Progress(v)'
            <4>1. ~Idle /\ surface = "running" /\ work'[v] = work[v]
                BY <3>0, <3>3 DEF Others, Idle
            <4>2. Progress(v)
                BY <3>3, <4>1 DEF RepairInv
            <4>3. \A p \in Pages, l \in Surface : Right(p, l)' <=> Right(p, l)
                BY <3>0 DEF Right
            <4> QED
                BY <4>1, <4>2, <4>3 DEF Progress
        <3>4. SurfaceRepaired'
            BY <3>0 DEF RepairInv, SurfaceRepaired, Idle
        <3> QED
            BY <3>1, <3>2, <3>3, <3>4 DEF RepairInv
<1>3. ASSUME NEW change \in Cutovers, CutOver(change[1], change[2])
      PROVE  RepairInv'
    BY <1>3 DEF CutOver, RepairInv, SurfaceRepaired, Alone, Progress, Right, Others
<1>4. CASE UNCHANGED vars
    BY <1>4 DEF vars, RepairInv, SurfaceRepaired, Alone, Progress, Right, Others
<1> QED
    BY <1>1, <1>2, <1>3, <1>4, RepairKeptInStep DEF Next

\* A projection that ran alone to its end leaves each page as QMD has it, for any number of readers
\* and writers, and whatever overlaps, failures and truncated pages there were before.
THEOREM ProjectionsRepair == Spec => []SurfaceRepaired
<1>1. Init => RepairInv
    BY DEF Init, RepairInv, SurfaceRepaired
<1>2. RepairInv => SurfaceRepaired
    BY DEF RepairInv
<1> QED
    BY <1>1, <1>2, TypesAlways, RepairKept, PTL DEF Spec

(***************************************************************************)
(* Briefings.                                                              *)
(***************************************************************************)
LEMMA LeastNumber ==
    ASSUME NEW S \in SUBSET Nat, S # {}
    PROVE  \E n \in S : \A m \in S : n <= m
<1> DEFINE R == {x \in Nat \X Nat : x[1] < x[2]}
<1>1. IsWellFoundedOn(R, Nat)
    BY NatLessThanWellFounded DEF OpToRel
<1>2. PICK n \in S : \A m \in S : <<m, n>> \notin R
    BY <1>1, WFMin
<1>3. ASSUME NEW m \in S PROVE n <= m
    <2>1. m \in Nat /\ n \in Nat /\ ~(m < n)
        BY <1>2
    <2> QED
        BY <2>1
<1> QED
    BY <1>3

\* A page with entries has a newest one.
LEMMA TopOfSome ==
    ASSUME NEW e \in Entries, Of(e) # {}
    PROVE  Top(e) # {}
<1> DEFINE S == {MaxCaptures - e[t] : t \in Of(e)}
<1>1. S \in SUBSET Nat /\ S # {}
    <2>1. ASSUME NEW t \in Of(e) PROVE MaxCaptures - e[t] \in Nat
        <3>1. e[t] \in 0..MaxCaptures
            BY DEF Of, Entries
        <3> QED
            BY <3>1
    <2> QED
        BY <2>1
<1>2. PICK n \in S : \A m \in S : n <= m
    <2> HIDE DEF S
    <2> QED
        BY <1>1, LeastNumber
<1>3. PICK t \in Of(e) : n = MaxCaptures - e[t]
    OBVIOUS
<1>4. \A u \in Of(e) : ~(e[u] > e[t])
    <2> SUFFICES ASSUME NEW u \in Of(e) PROVE ~(e[u] > e[t])
        OBVIOUS
    <2>1. n <= MaxCaptures - e[u]
        BY <1>2
    <2>2. e[u] \in 0..MaxCaptures /\ e[t] \in 0..MaxCaptures
        BY DEF Of, Entries
    <2> QED
        BY <1>3, <2>1, <2>2
<1>5. {u \in Of(e) : e[u] > e[t]} = {}
    BY <1>4
<1>6. Cardinality({u \in Of(e) : e[u] > e[t]}) = 0
    BY <1>5, FS_EmptySet
<1> QED
    BY <1>6 DEF Top

LEMMA QuotingFacts ==
    ASSUME NEW e \in Entries
    PROVE  /\ Quoting(e) \in Entries /\ Of(Quoting(e)) = Top(e)
           /\ Of(e) = {} <=> Of(Quoting(e)) = {}
<1>1. Top(e) \subseteq Of(e)
    BY DEF Top
<1> QED
    BY <1>1, QuotingType, TopOfSome

\* With QMD, a page that has no live entries there has neither live entries nor a briefing
\* anywhere.
LiveFirst ==
    backend # "md" =>
        /\ \A p \in Pages : Of(qmd[p]["live"]) = {} =>
              \A l \in Surface : Of(qmd[p][l]) = {} /\ Of(md[p][l]) = {}
        /\ \A v \in Procs : work[v].pc = "put" /\ work[v].layer \in Surface /\ Of(work[v].held) # {} =>
              Of(qmd[work[v].page]["live"]) # {}

\* A page keeps having live entries.
LEMMA LiveStays ==
    ASSUME Types, NEW w \in Procs, Step(w) \/ Fail(w), NEW p \in Pages, Of(qmd[p]["live"]) # {}
    PROVE  Of(qmd'[p]["live"]) # {}
<1>1. PICK t \in Texts : qmd[p]["live"][t] > 0
    BY DEF Of
<1>2. qmd'[p]["live"][t] > 0
    BY <1>1, QmdGrows
<1> QED
    BY <1>2 DEF Of

LEMMA LiveFirstKeptInStep ==
    ASSUME Types, QmdInv, LiveFirst, NEW w \in Procs, Step(w) \/ Fail(w)
    PROVE  LiveFirst'
<1> USE DEF store, pages, bounds
<1> SUFFICES ASSUME backend # "md" PROVE LiveFirst'
    BY StepFrame DEF LiveFirst
<1>a. \A p \in Pages : Of(qmd'[p]["live"]) = {} => Of(qmd[p]["live"]) = {}
    BY LiveStays
<1>b. \A p \in Pages, l \in Surface : Of(qmd[p]["live"]) = {} => Of(qmd[p][l]) = {} /\ Of(md[p][l]) = {}
    BY DEF LiveFirst
<1>c. ASSUME NEW p \in Pages, NEW l \in Surface, Of(qmd'[p]["live"]) = {}
      PROVE  Of(qmd'[p][l]) = {} /\ Of(md'[p][l]) = {}
    <2>0. Of(qmd[p]["live"]) = {} /\ Of(qmd[p][l]) = {} /\ Of(md[p][l]) = {} /\ l \in Layers
        BY <1>a, <1>b, <1>c DEF Surface, Layers
    <2>1. CASE QmdRaw(w)
        BY <2>1, <2>0, QmdRawDoes DEF Puts, Surface
    <2>2. CASE QmdPage(w)
        <3>1. CASE work[w].page = p /\ work[w].layer = l
            <4>1. /\ qmd'[p]["live"] = Upsert(qmd[p]["live"], work[w].text, work[w].at)
                  /\ work[w].text \in Texts /\ work[w].at \in 1..MaxCaptures
                BY <2>2, <3>1, QmdPageDoes DEF Puts, Ready, Surface
            <4>2. qmd[p]["live"] \in Entries
                BY DEF Types, StoreTypes, Layers
            <4>3. qmd'[p]["live"][work[w].text] > 0
                BY <4>1, <4>2, UpsertGrows
            <4> QED
                BY <1>c, <4>1, <4>3 DEF Of
        <3>2. CASE ~(work[w].page = p /\ work[w].layer = l)
            BY <2>2, <2>0, <3>2, QmdPageDoes DEF Puts
        <3> QED
            BY <3>1, <3>2
    <2>3. CASE QmdBrief(w)
        <3>1. CASE work[w].page = p /\ l = "briefings"
            <4>1. qmd'[p][l] = Quoting(qmd[p]["live"]) /\ md' = md
                BY <2>3, <3>1, QmdBriefDoes DEF Puts
            <4>2. qmd[p]["live"] \in Entries
                BY DEF Types, StoreTypes, Layers
            <4> QED
                BY <2>0, <4>1, <4>2, QuotingFacts
        <3>2. CASE ~(work[w].page = p /\ l = "briefings")
            BY <2>3, <2>0, <3>2, QmdBriefDoes DEF Puts
        <3> QED
            BY <3>1, <3>2
    <2>4. CASE ReadPage(w)
        BY <2>4, ReadPageDoes, <2>0 DEF store
    <2>5. CASE WritePage(w)
        <3>1. CASE work[w].page = p /\ work[w].layer = l
            <4>1. work[w].pc \in Entered /\ work[w].layer = "live" /\ work[w].text \in Texts
                BY <2>5, <3>1, WritePageDoes DEF Ready, Entered, Surface
            <4>2. qmd[p]["live"][work[w].text] > 0
                BY <3>1, <4>1 DEF QmdInv
            <4> QED
                BY <2>0, <4>1, <4>2 DEF Of
        <3>2. CASE ~(work[w].page = p /\ work[w].layer = l)
            <4>1. md'[p][l] = md[p][l] /\ qmd' = qmd
                BY <2>5, <2>0, <3>2, WritePageDoes DEF Puts
            <4> QED
                BY <2>0, <4>1
        <3> QED
            BY <3>1, <3>2
    <2>6. CASE WriteBrief(w)
        <3>1. CASE work[w].page = p /\ l = "briefings"
            <4>1. md'[p][l] = Quoting(qmd[p]["live"]) /\ qmd' = qmd
                BY <2>6, <3>1, WriteBriefDoes DEF Puts, Canonical
            <4>2. qmd[p]["live"] \in Entries
                BY DEF Types, StoreTypes, Layers
            <4> QED
                BY <2>0, <4>1, <4>2, QuotingFacts
        <3>2. CASE ~(work[w].page = p /\ l = "briefings")
            BY <2>6, <2>0, <3>2, WriteBriefDoes DEF Puts
        <3> QED
            BY <3>1, <3>2
    <2>7. CASE AppendRaw(w)
        BY <2>7, <2>0, AppendRawDoes DEF Puts, Surface
    <2>8. CASE RefreshIndex(w)
        BY <2>8, RefreshIndexDoes, <2>0 DEF store
    <2>9. CASE Return(w)
        BY <2>9, ReturnDoes, <2>0 DEF store
    <2>10. CASE Pick(w)
        BY <2>10, PickDoes, <2>0 DEF store
    <2>11. CASE Put(w)
        <3>1. CASE work[w].page = p /\ work[w].layer = l
            <4>1. Of(work[w].held) = {}
                BY <2>11, <2>0, <3>1, PutDoes DEF LiveFirst
            <4> QED
                BY <2>11, <2>0, <3>1, <4>1, PutDoes DEF Puts
        <3>2. CASE ~(work[w].page = p /\ work[w].layer = l)
            <4>1. md'[p][l] = md[p][l] /\ qmd' = qmd
                BY <2>11, <2>0, <3>2, PutDoes DEF Puts
            <4> QED
                BY <2>0, <4>1
        <3> QED
            BY <3>1, <3>2
    <2>12. CASE Fail(w)
        BY <2>12, <2>0, FailDoes, NoEntriesType
    <2> QED
        BY <2>1, <2>2, <2>3, <2>4, <2>5, <2>6, <2>7, <2>8, <2>9, <2>10, <2>11, <2>12 DEF Step
<1>d. ASSUME NEW v \in Procs, work'[v].pc = "put", work'[v].layer \in Surface, Of(work'[v].held) # {}
      PROVE  Of(qmd'[work'[v].page]["live"]) # {}
    <2>1. CASE work'[v] = work[v]
        <3>1. work[v].page \in Pages
            BY <1>d, <2>1 DEF Types, Calls, CallOK
        <3> QED
            BY <1>d, <2>1, <3>1, LiveStays DEF LiveFirst
    <2>2. CASE work'[v] # work[v]
        <3>1. v = w
            BY <2>2, StepFrame DEF Others
        <3>2. Pick(w)
            BY <1>d, <3>1, QmdRawDoes, QmdPageDoes, QmdBriefDoes, ReadPageDoes, WritePageDoes, WriteBriefDoes,
               AppendRawDoes, RefreshIndexDoes, ReturnDoes, PutDoes, FailDoes DEF Step, AfterPages
        <3>3. /\ work'[w].held = qmd[work'[w].page][work'[w].layer] /\ work'[w].page \in Pages
              /\ qmd' = qmd
            BY <1>d, <3>1, <3>2, PickDoes
        <3> QED
            BY <1>b, <1>d, <3>1, <3>3
    <2> QED
        BY <2>1, <2>2
<1> QED
    BY <1>c, <1>d DEF LiveFirst

LEMMA LiveFirstKept == Types /\ QmdInv /\ LiveFirst /\ CutoversKeepQmd /\ [Next]_vars => LiveFirst'
<1> SUFFICES ASSUME Types, QmdInv, LiveFirst, CutoversKeepQmd, [Next]_vars PROVE LiveFirst'
    OBVIOUS
<1> USE DEF store, pages, bounds
<1>1. ASSUME NEW w \in Writers, NEW p \in Pages, NEW t \in Texts, NEW state \in States,
             Capture(w, p, t, state)
      PROVE  LiveFirst'
    <2>1. w \in Procs
        BY DEF Procs
    <2> QED
        <3>1. /\ work'[w].pc \in {"qraw", "read"} /\ Others(w)
              /\ UNCHANGED <<backend, qmd, md>>
            BY <1>1, <2>1, CaptureDoes
        <3> QED
            BY <3>1 DEF LiveFirst, Others
<1>2. ASSUME NEW w \in Readers, NEW more \in SUBSET {"drafts"},
             Project(w, {"live", "briefings"} \cup more)
      PROVE  LiveFirst'
    <2>1. w \in Procs
        BY DEF Procs
    <2> QED
        BY <1>2, <2>1, ProjectDoes DEF LiveFirst, Others, Canonical
<1>3. ASSUME NEW change \in Cutovers, CutOver(change[1], change[2])
      PROVE  LiveFirst'
    BY <1>3 DEF CutOver, LiveFirst, Others, Canonical, CutoversKeepQmd
<1>4. CASE UNCHANGED vars
    BY <1>4 DEF vars, LiveFirst, Others, Canonical
<1> QED
    BY <1>1, <1>2, <1>3, <1>4, LiveFirstKeptInStep DEF Next

\* While nothing has failed, a briefing quotes the live entries, or is about to.
Quoted(table, pc) ==
    \A p \in Pages :
        \/ table[p]["briefings"] = Quoting(table[p]["live"])
        \/ \E v \in Procs : work[v].pc = pc /\ work[v].page = p

QuoteInv ==
    /\ crashes \in Nat
    /\ (crashes = 0 /\ backend # "md") => Quoted(qmd, "qbrief")
    /\ (crashes = 0 /\ backend = "md") => Quoted(md, "brief")

LEMMA QuoteKeptInStep ==
    ASSUME Types, MdInv, QuoteInv, NEW w \in Procs, Step(w) \/ Fail(w)
    PROVE  QuoteInv'
<1> USE DEF store, pages, bounds
<1>1. CASE Fail(w)
    BY <1>1, FailDoes DEF QuoteInv
<1>2. CASE Step(w)
    <2>0. crashes' = crashes
        BY <1>2, QmdRawDoes, QmdPageDoes, QmdBriefDoes, ReadPageDoes, WritePageDoes, WriteBriefDoes,
           AppendRawDoes, RefreshIndexDoes, ReturnDoes, PickDoes, PutDoes DEF Step
    <2>1. ASSUME backend # "md", Quoted(qmd, "qbrief"), NEW p \in Pages
          PROVE  \/ qmd'[p]["briefings"] = Quoting(qmd'[p]["live"])
                 \/ \E v \in Procs : work'[v].pc = "qbrief" /\ work'[v].page = p
        <3>1. CASE QmdBrief(w)
            <4>1. CASE work[w].page = p
                BY <3>1, <4>1, QmdBriefDoes DEF Puts, Layers, Ready
            <4>2. CASE work[w].page # p
                BY <2>1, <3>1, <4>2, QmdBriefDoes DEF Puts, Layers, Quoted, Others
            <4> QED
                BY <4>1, <4>2
        <3>2. CASE QmdPage(w)
            <4>1. CASE work[w].page = p /\ work[w].layer = "live"
                BY <3>2, <4>1, QmdPageDoes DEF Same
            <4>2. CASE ~(work[w].page = p /\ work[w].layer = "live")
                <5>1. qmd'[p]["briefings"] = qmd[p]["briefings"] /\ qmd'[p]["live"] = qmd[p]["live"]
                    BY <3>2, <4>2, QmdPageDoes DEF Puts, Layers
                <5>2. work[w].pc # "qbrief"
                    BY <3>2, QmdPageDoes DEF Ready
                <5> QED
                    BY <2>1, <5>1, <5>2, StepFrame DEF Quoted, Others
            <4> QED
                BY <4>1, <4>2
        <3>3. CASE ~QmdBrief(w) /\ ~QmdPage(w)
            <4>1. work[w].pc # "qbrief"
                BY <1>2, <3>3, QmdRawDoes, ReadPageDoes, WritePageDoes, WriteBriefDoes,
                   AppendRawDoes, RefreshIndexDoes, ReturnDoes, PickDoes, PutDoes DEF Step, Ready
            <4>2. qmd'[p]["briefings"] = qmd[p]["briefings"] /\ qmd'[p]["live"] = qmd[p]["live"]
                <5>1. CASE QmdRaw(w)
                    BY <5>1, QmdRawDoes DEF Puts, Layers
                <5>2. CASE ~QmdRaw(w)
                    BY <1>2, <3>3, <5>2, ReadPageDoes, WritePageDoes, WriteBriefDoes,
                       AppendRawDoes, RefreshIndexDoes, ReturnDoes, PickDoes, PutDoes DEF Step
                <5> QED
                    BY <5>1, <5>2
            <4> QED
                BY <2>1, <4>1, <4>2, StepFrame DEF Quoted, Others
        <3> QED
            BY <3>1, <3>2, <3>3
    <2>2. ASSUME backend = "md", Quoted(md, "brief"), NEW p \in Pages
          PROVE  \/ md'[p]["briefings"] = Quoting(md'[p]["live"])
                 \/ \E v \in Procs : work'[v].pc = "brief" /\ work'[v].page = p
        <3>0. ~Put(w)
            BY <2>2, PutDoes DEF MdInv, MdQuiet
        <3>1. CASE WriteBrief(w)
            <4>1. CASE work[w].page = p
                <5>1. /\ md'[p]["briefings"] = Quoting(md[p]["live"])
                      /\ md'[p]["live"] = md[p]["live"]
                    BY <2>2, <3>1, <4>1, WriteBriefDoes DEF Puts, Layers, Ready, Canonical
                <5> QED
                    BY <5>1
            <4>2. CASE work[w].page # p
                BY <2>2, <3>1, <4>2, WriteBriefDoes DEF Puts, Layers, Quoted, Others
            <4> QED
                BY <4>1, <4>2
        <3>2. CASE WritePage(w)
            <4>1. CASE work[w].page = p /\ work[w].layer = "live"
                BY <3>2, <4>1, WritePageDoes DEF Same
            <4>2. CASE ~(work[w].page = p /\ work[w].layer = "live")
                <5>1. md'[p]["briefings"] = md[p]["briefings"] /\ md'[p]["live"] = md[p]["live"]
                    BY <3>2, <4>2, WritePageDoes DEF Puts, Layers
                <5>2. work[w].pc # "brief"
                    BY <3>2, WritePageDoes DEF Ready
                <5> QED
                    BY <2>2, <5>1, <5>2, StepFrame DEF Quoted, Others
            <4> QED
                BY <4>1, <4>2
        <3>3. CASE ~WriteBrief(w) /\ ~WritePage(w)
            <4>1. work[w].pc # "brief"
                BY <1>2, <3>0, <3>3, QmdRawDoes, QmdPageDoes, QmdBriefDoes, ReadPageDoes,
                   AppendRawDoes, RefreshIndexDoes, ReturnDoes, PickDoes DEF Step, Ready
            <4>2. md'[p]["briefings"] = md[p]["briefings"] /\ md'[p]["live"] = md[p]["live"]
                <5>1. CASE AppendRaw(w)
                    BY <5>1, AppendRawDoes DEF Puts, Layers
                <5>2. CASE ~AppendRaw(w)
                    BY <1>2, <3>0, <3>3, <5>2, QmdRawDoes, QmdPageDoes, QmdBriefDoes, ReadPageDoes,
                       RefreshIndexDoes, ReturnDoes, PickDoes DEF Step
                <5> QED
                    BY <5>1, <5>2
            <4> QED
                BY <2>2, <4>1, <4>2, StepFrame DEF Quoted, Others
        <3> QED
            BY <3>1, <3>2, <3>3
    <2>3. backend' = backend
        BY StepFrame
    <2>4. crashes' = 0 /\ backend' # "md" => Quoted(qmd, "qbrief")'
        BY <2>0, <2>1, <2>3 DEF QuoteInv, Quoted
    <2>5. crashes' = 0 /\ backend' = "md" => Quoted(md, "brief")'
        BY <2>0, <2>2, <2>3 DEF QuoteInv, Quoted
    <2> QED
        BY <2>0, <2>4, <2>5 DEF QuoteInv
<1> QED
    BY <1>1, <1>2

LEMMA QuoteKept == Types /\ MdInv /\ QuoteInv /\ CutoversKeepQmd /\ [Next]_vars => QuoteInv'
<1> SUFFICES ASSUME Types, MdInv, QuoteInv, CutoversKeepQmd, [Next]_vars PROVE QuoteInv'
    OBVIOUS
<1> USE DEF store, pages, bounds
<1>1. ASSUME NEW w \in Writers, NEW p \in Pages, NEW t \in Texts, NEW state \in States,
             Capture(w, p, t, state)
      PROVE  QuoteInv'
    <2>1. w \in Procs
        BY DEF Procs
    <2> QED
        BY <1>1, <2>1, CaptureDoes DEF QuoteInv, Quoted, Others, Idle
<1>2. ASSUME NEW w \in Readers, NEW more \in SUBSET {"drafts"},
             Project(w, {"live", "briefings"} \cup more)
      PROVE  QuoteInv'
    <2>1. w \in Procs
        BY DEF Procs
    <2> QED
        <3>1. /\ work[w].pc = "idle" /\ Others(w) /\ UNCHANGED <<backend, qmd, md, crashes>>
            BY <1>2, <2>1, ProjectDoes
        <3>2. \A v \in Procs : work[v].pc # "idle" => work'[v] = work[v]
            BY <3>1 DEF Others
        <3> QED
            BY <3>1, <3>2 DEF QuoteInv, Quoted
<1>3. ASSUME NEW change \in Cutovers, CutOver(change[1], change[2])
      PROVE  QuoteInv'
    BY <1>3 DEF CutOver, QuoteInv, Quoted, Others, Idle, CutoversKeepQmd
<1>4. CASE UNCHANGED vars
    BY <1>4 DEF vars, QuoteInv, Quoted, Others, Idle
<1> QED
    BY <1>1, <1>2, <1>3, <1>4, QuoteKeptInStep DEF Next

LEMMA BriefingIsNewest ==
    ASSUME Types, RepairInv, LiveFirst, QuoteInv
    PROVE  BriefingNewest
<1> SUFFICES ASSUME Idle, crashes = 0, backend = "md" \/ surface = "exact", NEW p \in Pages
             PROVE  Of(md[p]["briefings"]) = Top(md[p]["live"])
    BY DEF BriefingNewest
<1>0. qmd[p]["live"] \in Entries /\ md[p]["live"] \in Entries
    BY DEF Types, StoreTypes, Layers
<1>1. CASE backend = "md"
    <2>1. md[p]["briefings"] = Quoting(md[p]["live"])
        BY <1>1 DEF QuoteInv, Quoted, Idle
    <2> QED
        BY <1>0, <2>1, QuotingFacts
<1>2. CASE backend # "md"
    <2>1. qmd[p]["briefings"] = Quoting(qmd[p]["live"])
        BY <1>2 DEF QuoteInv, Quoted, Idle
    <2>2. CASE Of(qmd[p]["live"]) = {}
        <3>1. Of(md[p]["live"]) = {} /\ Of(md[p]["briefings"]) = {}
            BY <1>2, <2>2 DEF LiveFirst, Surface
        <3> QED
            BY <3>1 DEF Top
    <2>3. CASE Of(qmd[p]["live"]) # {}
        <3>1. Of(qmd[p]["briefings"]) # {}
            BY <1>0, <2>1, <2>3, QuotingFacts
        <3>2. md[p]["live"] = qmd[p]["live"] /\ md[p]["briefings"] = qmd[p]["briefings"]
            BY <1>2, <2>3, <3>1 DEF RepairInv, SurfaceRepaired
        <3> QED
            BY <1>0, <2>1, <3>2, QuotingFacts
    <2> QED
        BY <2>2, <2>3
<1> QED
    BY <1>1, <1>2

\* When nothing runs and nothing has failed, the briefing page of a page quotes its newest live
\* entries; with QMD, once a projection that ran alone has ended what captures and readers that
\* overlapped have made of the pages.
THEOREM BriefingsAreNewest ==
    ASSUME CutoversKeepQmd
    PROVE  Spec => []BriefingNewest
<1> DEFINE I == QmdInv /\ MdInv /\ RepairInv /\ LiveFirst /\ QuoteInv
<1>1. Init => I
    <2> SUFFICES ASSUME Init PROVE I
        OBVIOUS
    <2>1. /\ acked = {} /\ surface = "unknown" /\ crashes = 0
          /\ \A v \in Procs : work[v].pc = "idle"
          /\ \A p \in Pages, l \in Layers : qmd[p][l] = NoEntries /\ md[p][l] = NoEntries
        BY DEF Init, NoWork
    <2>2. QmdInv /\ MdInv /\ RepairInv
        BY <2>1 DEF QmdInv, MdInv, MdQuiet, ReadersRead, Entered, RepairInv, Alone, SurfaceRepaired
    <2>3. LiveFirst
        BY <2>1, NoEntriesType DEF LiveFirst, Surface, Layers
    <2>4. Quoting(NoEntries) = NoEntries
        BY DEF Quoting, Top, Of, NoEntries
    <2>5. QuoteInv
        BY <2>1, <2>4 DEF QuoteInv, Quoted, Layers
    <2> QED
        BY <2>2, <2>3, <2>5
<1>2. Types /\ I /\ [Next]_vars => I'
    BY QmdKept, MdKept, RepairKept, LiveFirstKept, QuoteKept
<1>3. Types /\ I => BriefingNewest
    BY BriefingIsNewest
<1> HIDE DEF I
<1> QED
    BY <1>1, <1>2, <1>3, TypesAlways, PTL DEF Spec

=============================================================================
