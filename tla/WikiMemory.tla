----------------------------- MODULE WikiMemory -----------------------------
(***************************************************************************)
(* The wiki of semantic memory: writeWikiMemoryCapture, searchWikiMemory   *)
(* and the projection materializeMarkdownWorkingSurfaceFromQmd of          *)
(* core/usecases/semantic-memory-usecase.ts.                               *)
(*                                                                         *)
(* The backend is an environment variable.  With md the markdown pages are *)
(* the memory; with qmd and dual_read_qmd_first ("dual") the QMD store is, *)
(* a capture writes the pages besides, and a reader rewrites from QMD      *)
(* those it finds different.  A process changes its backend by a restart.  *)
(*                                                                         *)
(* A capture and a projection are synchronous; processes share the files   *)
(* and nothing locks them.  A pc is the next write.  A write to QMD is one *)
(* step (QmdStore has its shards and its catalog), a page is read and then *)
(* rewritten in place.  A page is what namespace, user, session and agent  *)
(* make of a path; texts share no word of three letters, so a query is the *)
(* text it looks for.  The five lines of a briefing are short.             *)
(***************************************************************************)
EXTENDS Integers, FiniteSets

CONSTANTS
    Pages,
    Texts,
    Writers,        \* processes that capture
    Readers,        \* processes that search and build working sets
    Backends,       \* the backends a deployment starts with
    Cutovers,       \* <<old, new>>: the changes of backend its operator makes
    TopEntries,     \* entries a briefing quotes
    None,
    MaxCaptures,    \* bound on captures
    MaxReads,       \* bound on projections
    MaxCrashes      \* bound on crashes and failed writes

ASSUME BackendsAssumption == Backends \subseteq {"md", "dual", "qmd"}
ASSUME CutoversAssumption == Cutovers \subseteq {"md", "dual", "qmd"} \X {"md", "dual", "qmd"}
ASSUME BoundsAssumption == TopEntries \in Nat \ {0} /\ MaxCaptures \in Nat

VARIABLES
    backend,
    qmd,            \* page -> layer -> text -> the time of its entry (0: it has none)
    hints,          \* page -> layer -> the texts whose words the catalog hints at
    md,             \* the same of the markdown pages
    exists,         \* layers and pages whose markdown file exists
    index,          \* pages that index.md names
    work,           \* what each process executes
    acked,          \* the captures that have returned
    surface,        \* history: "running" while a projection runs alone, "exact" from its end on
    torn,           \* history: a write has left a page truncated
    captures, reads, crashes

store == <<qmd, hints>>
pages == <<md, exists, index>>
bounds == <<captures, reads, crashes>>
vars == <<backend, store, pages, work, acked, surface, torn, bounds>>

Layers == {"raw", "drafts", "live", "briefings"}
States == {"raw", "draft", "distilled", "promoted", "deprecated"}
Procs == Writers \cup Readers

NoEntries == [t \in Texts |-> 0]
Of(entries) == {t \in Texts : entries[t] > 0}

NoWork == [pc |-> "idle", page |-> None, text |-> None, layer |-> "none", at |-> 0,
           held |-> NoEntries, todo |-> {}]

Init ==
    /\ backend \in Backends
    /\ qmd = [p \in Pages |-> [l \in Layers |-> NoEntries]]
    /\ hints = [p \in Pages |-> [l \in Layers |-> {}]]
    /\ md = qmd
    /\ exists = {} /\ index = {}
    /\ work = [w \in Procs |-> NoWork]
    /\ acked = {} /\ surface = "unknown" /\ torn = FALSE
    /\ captures = 0 /\ reads = 0 /\ crashes = 0

Idle == \A w \in Procs : work[w].pc = "idle"
At(w, pc) == work[w].pc = pc
Goto(w, pc) == work' = [work EXCEPT ![w].pc = pc]

\* supportsQmdWrite
Canonical == backend # "md"

\* Wrong: a promotion state is a layer.
LayerForName(state) == state

\* The layer beside raw that a promotion state chooses.
LayerFor(state) ==
    CASE state \in {"raw", "draft"} -> "drafts"
      [] state \in {"distilled", "promoted"} -> "live"
      [] state = "deprecated" -> "none"

\* Wrong: the page holds the text that was written last.
UpsertAlone(entries, t, at) == [NoEntries EXCEPT ![t] = at]

\* upsertWikiMemoryEntry
Upsert(entries, t, at) == [entries EXCEPT ![t] = at]

\* The newest entries of a page: compareEntriesDeterministically, and the first of them.
Top(entries) ==
    {t \in Of(entries) : Cardinality({u \in Of(entries) : entries[u] > entries[t]}) < TopEntries}

\* A briefing as a layer: the texts it quotes, with their times.
Quoting(entries) == [t \in Texts |-> IF t \in Top(entries) THEN entries[t] ELSE 0]

-----------------------------------------------------------------------------
(***************************************************************************)
(* writeWikiMemoryCapture.                                                 *)
(***************************************************************************)
Capture(w, p, t, state) ==
    /\ At(w, "idle") /\ captures < MaxCaptures
    /\ captures' = captures + 1
    /\ surface' = "unknown"
    /\ work' = [work EXCEPT ![w] =
                  [pc |-> IF Canonical THEN "qraw" ELSE "read", page |-> p, text |-> t,
                   layer |-> LayerFor(state), at |-> captures + 1, held |-> NoEntries, todo |-> {}]]
    /\ UNCHANGED <<backend, store, pages, acked, torn, reads, crashes>>

\* A write of the text to a layer of QMD replaces what its catalog entry hints at.
Enters(w, layer) ==
    LET r == work[w] IN
    /\ qmd' = [qmd EXCEPT ![r.page][layer] = Upsert(@, r.text, r.at)]
    /\ hints' = [hints EXCEPT ![r.page][layer] = {r.text}]

QmdRaw(w) ==
    /\ At(w, "qraw")
    /\ Enters(w, "raw")
    /\ Goto(w, IF work[w].layer = "none" THEN "log" ELSE "qpage")
    /\ UNCHANGED <<backend, pages, acked, surface, torn, bounds>>

QmdPage(w) ==
    /\ At(w, "qpage")
    /\ Enters(w, work[w].layer)
    /\ Goto(w, IF work[w].layer = "live" THEN "qbrief" ELSE "read")
    /\ UNCHANGED <<backend, pages, acked, surface, torn, bounds>>

\* The briefing quotes the live entries as they are by now.
QmdBrief(w) ==
    LET p == work[w].page  quoted == Quoting(qmd[p]["live"]) IN
    /\ At(w, "qbrief")
    /\ qmd' = [qmd EXCEPT ![p]["briefings"] = quoted]
    /\ hints' = [hints EXCEPT ![p]["briefings"] = Of(quoted)]
    /\ Goto(w, "read")
    /\ UNCHANGED <<backend, pages, acked, surface, torn, bounds>>

\* The page is read; a deprecated text has none.
ReadPage(w) ==
    /\ At(w, "read")
    /\ work' = IF work[w].layer = "none" THEN [work EXCEPT ![w].pc = "raw"]
               ELSE [work EXCEPT ![w].pc = "page", ![w].held = md[work[w].page][work[w].layer]]
    /\ UNCHANGED <<backend, store, pages, acked, surface, torn, bounds>>

AfterPages == IF Canonical THEN "index" ELSE "raw"

\* and written again with the entry in it.
WritePage(w) ==
    LET r == work[w] IN
    /\ At(w, "page")
    /\ md' = [md EXCEPT ![r.page][r.layer] = Upsert(r.held, r.text, r.at)]
    /\ exists' = exists \cup {<<r.layer, r.page>>}
    /\ Goto(w, IF r.layer = "live" THEN "brief" ELSE AfterPages)
    /\ UNCHANGED <<backend, store, index, acked, surface, torn, bounds>>

\* Wrong: the briefing is made of the page as it was read.
WriteBriefBefore(w) ==
    LET p == work[w].page IN
    /\ At(w, "brief")
    /\ md' = [md EXCEPT ![p]["briefings"] =
                Quoting(IF Canonical THEN qmd[p]["live"] ELSE work[w].held)]
    /\ exists' = exists \cup {<<"briefings", p>>}
    /\ Goto(w, AfterPages)
    /\ UNCHANGED <<backend, store, index, acked, surface, torn, bounds>>

\* The briefing page quotes QMD, or the live page as it is by now.
WriteBrief(w) ==
    LET p == work[w].page IN
    /\ At(w, "brief")
    /\ md' = [md EXCEPT ![p]["briefings"] =
                Quoting(IF Canonical THEN qmd[p]["live"] ELSE md[p]["live"])]
    /\ exists' = exists \cup {<<"briefings", p>>}
    /\ Goto(w, AfterPages)
    /\ UNCHANGED <<backend, store, index, acked, surface, torn, bounds>>

\* Only the md backend has a raw page; it is appended to.
AppendRaw(w) ==
    LET r == work[w] IN
    /\ At(w, "raw")
    /\ IF Canonical THEN UNCHANGED <<md, exists>>
       ELSE /\ md' = [md EXCEPT ![r.page]["raw"] = Upsert(@, r.text, r.at)]
            /\ exists' = exists \cup {<<"raw", r.page>>}
    /\ Goto(w, "index")
    /\ UNCHANGED <<backend, store, index, acked, surface, torn, bounds>>

\* Wrong: a page that has been created before is taken to be in the index.
RefreshIndexOnce(w) ==
    /\ At(w, "index")
    /\ index' = IF work[w].layer = "live" /\ Of(work[w].held) = {}
                  THEN index \cup {work[w].page} ELSE index
    /\ Goto(w, "log")
    /\ UNCHANGED <<backend, store, md, exists, acked, surface, torn, bounds>>

\* refreshWikiIndex
RefreshIndex(w) ==
    /\ At(w, "index")
    /\ index' = IF work[w].layer = "live" THEN index \cup {work[w].page} ELSE index
    /\ Goto(w, "log")
    /\ UNCHANGED <<backend, store, md, exists, acked, surface, torn, bounds>>

\* appendWikiLog, and the capture returns.
Return(w) ==
    LET r == work[w] IN
    /\ At(w, "log")
    /\ acked' = acked \cup {[page |-> r.page, text |-> r.text, layer |-> r.layer]}
    /\ work' = [work EXCEPT ![w] = NoWork]
    /\ UNCHANGED <<backend, store, pages, surface, torn, bounds>>

-----------------------------------------------------------------------------
(***************************************************************************)
(* materializeMarkdownWorkingSurfaceFromQmd, which a working set starts    *)
(* with, and a search that found nothing in QMD: each page of the layers   *)
(* that are asked for, one after the other.                                *)
(***************************************************************************)
Project(w, layers) ==
    /\ At(w, "idle") /\ Canonical /\ reads < MaxReads
    /\ reads' = reads + 1
    /\ surface' = IF Idle THEN "running" ELSE surface
    /\ work' = [work EXCEPT ![w] =
                  [NoWork EXCEPT !.pc = "pick",
                      !.todo = {x \in layers \X Pages : Of(qmd[x[2]][x[1]]) # {}}]]
    /\ UNCHANGED <<backend, store, pages, acked, torn, captures, crashes>>

Pick(w) ==
    /\ At(w, "pick")
    /\ \/ \E x \in work[w].todo :
            /\ work' = [work EXCEPT ![w].pc = "put", ![w].layer = x[1], ![w].page = x[2],
                                    ![w].todo = @ \ {x}, ![w].held = qmd[x[2]][x[1]]]
            /\ UNCHANGED surface
       \/ /\ work[w].todo = {}
          /\ work' = [work EXCEPT ![w] = NoWork]
          /\ surface' = IF surface = "running" THEN "exact" ELSE surface
    /\ UNCHANGED <<backend, store, pages, acked, torn, bounds>>

\* Wrong: a page that is there, and that is no older than QMD, is taken to say what QMD says.
NeedsRefreshMissing(w) == <<work[w].layer, work[w].page>> \notin exists

\* needsQmdProjectionRefresh compares the page with what it should be.  A page that captures have
\* written twice repeats its heading, and may be written again although its entries are right.
NeedsRefresh(w) ==
    LET r == work[w] IN <<r.layer, r.page>> \notin exists \/ md[r.page][r.layer] # r.held

Put(w) ==
    LET r == work[w] IN
    /\ At(w, "put")
    /\ \/ /\ md' = [md EXCEPT ![r.page][r.layer] = IF NeedsRefresh(w) THEN r.held ELSE @]
          /\ exists' = exists \cup {<<r.layer, r.page>>}
          /\ index' = IF r.layer = "live" THEN index \cup {r.page} ELSE index
       \/ ~NeedsRefresh(w) /\ UNCHANGED pages
    /\ Goto(w, "pick")
    /\ UNCHANGED <<backend, store, acked, surface, torn, bounds>>

-----------------------------------------------------------------------------
\* The process dies, or a write fails and the call throws; a write may leave its page truncated.
Fail(w) ==
    LET r == work[w]  page == IF r.pc = "brief" THEN "briefings" ELSE r.layer IN
    /\ ~At(w, "idle") /\ crashes < MaxCrashes
    /\ crashes' = crashes + 1
    /\ \/ UNCHANGED <<md, torn>>
       \/ /\ r.pc \in {"page", "brief", "put"}
          /\ md' = [md EXCEPT ![r.page][page] = NoEntries]
          /\ torn' = TRUE
    /\ work' = [work EXCEPT ![w] = NoWork]
    /\ surface' = "unknown"
    /\ UNCHANGED <<backend, store, exists, index, acked, captures, reads>>

\* The operator changes the environment of all processes and restarts them.
CutOver(old, new) ==
    /\ Idle /\ backend = old
    /\ backend' = new
    /\ surface' = "unknown"
    /\ UNCHANGED <<store, pages, work, acked, torn, bounds>>

Step(w) ==
    \/ QmdRaw(w) \/ QmdPage(w) \/ QmdBrief(w) \/ ReadPage(w) \/ WritePage(w) \/ WriteBrief(w)
    \/ AppendRaw(w) \/ RefreshIndex(w) \/ Return(w) \/ Pick(w) \/ Put(w)

Next ==
    \/ \E w \in Writers, p \in Pages, t \in Texts, state \in States : Capture(w, p, t, state)
    \/ \E w \in Readers, more \in SUBSET {"drafts"} : Project(w, {"live", "briefings"} \cup more)
    \/ \E w \in Procs : Step(w) \/ Fail(w)
    \/ \E change \in Cutovers : CutOver(change[1], change[2])

Spec == Init /\ [][Next]_vars

-----------------------------------------------------------------------------
(***************************************************************************)
(* What a search finds: searchQmdMemory reads the shards whose catalog     *)
(* entry hints at the query; the pages are read when it found nothing and  *)
(* the backend is not qmd, after a projection if QMD has the page.         *)
(***************************************************************************)
FoundInQmd(p, t, layers) == \E l \in layers : t \in hints[p][l] /\ qmd[p][l][t] > 0

FoundInPages(p, t, layers) ==
    \E l \in layers : IF Canonical /\ Of(qmd[p][l]) # {} THEN qmd[p][l][t] > 0 ELSE md[p][l][t] > 0

Finds(p, t, layers) ==
    \/ Canonical /\ FoundInQmd(p, t, layers)
    \/ backend # "qmd" /\ FoundInPages(p, t, layers)

Asked(layer) == {"briefings", "live"} \cup ({layer} \ {"none"})

\* Every page, layer and step of a call is one the code knows.
TypeOK ==
    /\ backend \in {"md", "dual", "qmd"}
    /\ {qmd, md} \subseteq [Pages -> [Layers -> [Texts -> 0..MaxCaptures]]]
    /\ hints \in [Pages -> [Layers -> SUBSET Texts]]
    /\ exists \subseteq Layers \X Pages /\ index \subseteq Pages
    /\ \A w \in Procs : work[w].layer \in Layers \cup {"none"}
    /\ acked \subseteq [page : Pages, text : Texts, layer : Layers \cup {"none"}]
    /\ surface \in {"unknown", "running", "exact"}
    /\ \A p \in Pages, l \in Layers : <<l, p>> \notin exists => Of(md[p][l]) = {}

\* A capture that has returned is found by a search for its text that asks for its layer, whatever
\* is captured, projected or interrupted after it, unless an interrupted write leaves a page
\* truncated.  It says nothing of the backend qmd: there the catalog hints at the last text of a
\* shard only, and no page is read instead.
AckedFound ==
    (backend # "qmd" /\ ~torn) =>
        \A a \in acked : a.layer # "none" => Finds(a.page, a.text, Asked(a.layer))

\* A projection that ran alone to its end leaves each page as QMD has it, whatever interrupted
\* captures, truncated pages and readers that overlapped with captures had made of it.
SurfaceRepaired ==
    surface = "exact" =>
        \A p \in Pages, l \in {"live", "briefings"} :
            Of(qmd[p][l]) # {} => md[p][l] = qmd[p][l]

\* When nothing runs and nothing has failed, the briefing page of a page quotes its newest live
\* entries; with QMD, once a projection has ended the overlaps of captures and readers.
BriefingNewest ==
    (Idle /\ crashes = 0 /\ (backend = "md" \/ surface = "exact")) =>
        \A p \in Pages : Of(md[p]["briefings"]) = Top(md[p]["live"])

\* The page of a live capture that has returned is in index.md, although an earlier capture may
\* have made the page and failed before the index.
IndexNamesLive == \A a \in acked : a.layer = "live" => a.page \in index
=============================================================================
