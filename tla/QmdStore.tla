------------------------------ MODULE QmdStore ------------------------------
(***************************************************************************)
(* The QMD memory store: writeWikiMemoryCapture's writes to it             *)
(* (core/usecases/semantic-memory-usecase.ts), the shards of qmd-store.ts  *)
(* and the catalog of qmd-catalog.ts that says which shards there are.     *)
(*                                                                         *)
(* A capture is synchronous, so inside a process captures do not overlap;  *)
(* the gateway plugin, the MCP server and the CLI are processes of their   *)
(* own on the same directory, and nothing locks it.  A writer's pc is its  *)
(* next file-system call.  A shard is rewritten in place (truncated, then  *)
(* filled); the catalog is written to catalog.json.tmp, one name for all,  *)
(* and renamed, so a writer may still hold a descriptor of a file another  *)
(* one has renamed.                                                        *)
(*                                                                         *)
(* A text is its id (the id is a hash of namespace and text).  The month   *)
(* that buckets raw and draft shards does not change; pages have different *)
(* paths.  A catalog that does not parse is read as an empty one, and is   *)
(* modelled as one.                                                        *)
(***************************************************************************)
EXTENDS Integers, Sequences, FiniteSets, Functions

CONSTANTS
    Pages,          \* page keys, with their namespace
    Ids,            \* texts that are captured
    Heavy,          \* the texts that pass maxBytesPerShard on their own
    BriefingId,     \* the id of a page's briefing
    None,           \* no path
    Writers,        \* processes
    MaxEntries,     \* maxEntriesPerShard
    TopEntries,     \* entries a briefing quotes
    MaxCaptures,    \* bound on captures
    MaxCrashes,     \* bound on crashes and failed calls between two writes
    MaxTorn         \* bound on crashes and failed calls that leave a shard truncated

ASSUME HeavyAssumption == Heavy \subseteq Ids /\ BriefingId \notin Ids
ASSUME LimitAssumption == MaxEntries \in Nat \ {0} /\ TopEntries \in Nat \ {0}
ASSUME BoundsAssumption == MaxCaptures \in Nat /\ MaxCrashes \in Nat /\ MaxTorn \in Nat

VARIABLES
    files,          \* the shards: path -> entries
    catalog,        \* catalog.json: whether it exists, and path -> entry_count
    tmp,            \* catalog.json.tmp
    work,           \* what each writer is executing
    acked,          \* the captures that have returned to their caller
    captures, crashes, torn    \* what the bounds count

vars == <<files, catalog, tmp, work, acked, captures, crashes, torn>>

Layers == {"raw", "drafts", "live", "briefings"}
States == {"raw", "distilled", "promoted", "deprecated"}
Path == [layer : Layers, page : Pages, seq : Nat]
Entry == [id : Ids \cup {BriefingId}, at : Nat, about : SUBSET Ids]

Put(f, path, x) == [p \in DOMAIN f \cup {path} |-> IF p = path THEN x ELSE f[p]]
NoPaths == [p \in {} |-> 0]

Pcs == {"idle", "ensure", "init", "latest", "body", "open", "fill",
        "index", "tmp", "write", "rename"}

NoWork == [pc |-> "idle", page |-> None, id |-> None, at |-> 0, layers |-> <<>>,
           todo |-> <<>>, entry |-> None, latest |-> 0, path |-> None, body |-> <<>>,
           index |-> NoPaths, fd |-> "none"]

(***************************************************************************)
(* The writes of a capture, by its promotion state.                        *)
(***************************************************************************)
Writes(state) ==
    CASE state = "raw" -> <<"raw", "drafts">>
      [] state \in {"distilled", "promoted"} -> <<"raw", "live", "briefings">>
      [] state = "deprecated" -> <<"raw">>

Layer(w) == Head(work[w].todo)

Init ==
    /\ files = NoPaths
    /\ catalog = [exists |-> FALSE, index |-> NoPaths]
    /\ tmp = [exists |-> FALSE, index |-> NoPaths]
    /\ work = [w \in Writers |-> NoWork]
    /\ acked = {}
    /\ captures = 0 /\ crashes = 0 /\ torn = 0

-----------------------------------------------------------------------------
(***************************************************************************)
(* What a reader finds: the entries of the shards the catalog names.       *)
(***************************************************************************)
ShardsOf(layer, page) ==
    {p \in DOMAIN catalog.index : p.layer = layer /\ p.page = page}

Visible(layer, page) ==
    UNION {Range(files[p]) : p \in ShardsOf(layer, page) \cap DOMAIN files}

\* Wrong: sorted by age.
TopOldest(E) == {e \in E : Cardinality({x \in E : x.at < e.at}) < TopEntries}

\* The newest entries, which are what a briefing quotes.
Top(E) == {e \in E : Cardinality({x \in E : x.at > e.at}) < TopEntries}

\* Wrong: sorted the other way.
LatestSeqFirst(layer, page) ==
    LET S == {p.seq : p \in ShardsOf(layer, page)} IN
      IF S = {} THEN 0 ELSE CHOOSE n \in S : \A m \in S : n <= m

LatestSeq(layer, page) ==
    LET S == {p.seq : p \in ShardsOf(layer, page)} IN
      IF S = {} THEN 0 ELSE CHOOSE n \in S : \A m \in S : m <= n

\* upsertEntryBlock
Upsert(body, e) ==
    IF \E i \in DOMAIN body : body[i].id = e.id
      THEN [i \in DOMAIN body |-> IF body[i].id = e.id THEN e ELSE body[i]]
      ELSE Append(body, e)

\* Wrong: the limit is checked before the entry is added.
ExceedsLate(body) == Len(body) > MaxEntries + 1 \/ \E e \in Range(body) : e.id \in Heavy

Exceeds(body) == Len(body) > MaxEntries \/ \E e \in Range(body) : e.id \in Heavy

-----------------------------------------------------------------------------
(***************************************************************************)
(* writeWikiMemoryCapture, and writeQmdMemoryEntry once for each layer.    *)
(***************************************************************************)
Goto(w, pc) == work' = [work EXCEPT ![w].pc = pc]

Capture(w, page, id, state) ==
    /\ work[w].pc = "idle" /\ captures < MaxCaptures
    /\ captures' = captures + 1
    /\ work' = [work EXCEPT ![w] =
                  [NoWork EXCEPT !.pc = "ensure", !.page = page, !.id = id, !.at = captures + 1,
                                 !.layers = Writes(state), !.todo = Writes(state)]]
    /\ UNCHANGED <<files, catalog, tmp, acked, crashes, torn>>

\* The entry of a layer: the text, or the briefing of what the live page shows by now.
EntryFor(w) ==
    IF Layer(w) = "briefings"
      THEN [id |-> BriefingId, at |-> work[w].at,
            about |-> {e.id : e \in Top(Visible("live", work[w].page))}]
      ELSE [id |-> work[w].id, at |-> work[w].at, about |-> {work[w].id}]

\* ensureWikiQmdBootstrap: is there a catalog?
Ensure(w) ==
    /\ work[w].pc = "ensure"
    /\ work' = [work EXCEPT ![w].pc = IF catalog.exists THEN "latest" ELSE "init",
                            ![w].entry = EntryFor(w)]
    /\ UNCHANGED <<files, catalog, tmp, acked, captures, crashes, torn>>

\* ensureQmdCatalog writes DEFAULT_CATALOG, by now perhaps over another writer's catalog
InitCatalog(w) ==
    /\ work[w].pc = "init"
    /\ catalog' = [exists |-> TRUE, index |-> NoPaths]
    /\ Goto(w, "latest")
    /\ UNCHANGED <<files, tmp, acked, captures, crashes, torn>>

\* the catalog is read for the latest shard of the page
ReadLatest(w) ==
    /\ work[w].pc = "latest"
    /\ work' = [work EXCEPT ![w].pc = "body",
                            ![w].latest = LatestSeq(Layer(w), work[w].page)]
    /\ UNCHANGED <<files, catalog, tmp, acked, captures, crashes, torn>>

(***************************************************************************)
(* The latest shard is read, its next content made, and if that is past a  *)
(* limit the entry goes to the next shard instead, on its own.             *)
(***************************************************************************)
Shard(w, seq) == [layer |-> Layer(w), page |-> work[w].page, seq |-> seq]

Held(w) == LET p == Shard(w, work[w].latest) IN IF p \in DOMAIN files THEN files[p] ELSE <<>>

ReadBody(w) ==
    /\ work[w].pc = "body"
    /\ LET e == work[w].entry
           next == IF Layer(w) = "raw" THEN Append(Held(w), e) ELSE Upsert(Held(w), e)
           updated == Len(next) = Len(Held(w))
           over == ~updated /\ Exceeds(next)
       IN work' = [work EXCEPT
                     ![w].pc = "open",
                     ![w].path = Shard(w, work[w].latest + IF over THEN 1 ELSE 0),
                     ![w].body = IF over THEN <<e>> ELSE next]
    /\ UNCHANGED <<files, catalog, tmp, acked, captures, crashes, torn>>

\* Wrong: the path is not computed again when the shard rolls over.
AbsPathStale(w) == Shard(w, work[w].latest)

AbsPath(w) == work[w].path

\* writeFileSync of the shard truncates it, and then writes it
OpenShard(w) ==
    /\ work[w].pc = "open"
    /\ files' = Put(files, AbsPath(w), <<>>)
    /\ Goto(w, "fill")
    /\ UNCHANGED <<catalog, tmp, acked, captures, crashes, torn>>

\* over what another writer may have put there since: what that was longer by stays
FillShard(w) ==
    /\ work[w].pc = "fill"
    /\ LET old == files[AbsPath(w)] IN
         \E k \in 1..Len(old) + 1 :
             files' = Put(files, AbsPath(w), work[w].body \o SubSeq(old, k, Len(old)))
    /\ Goto(w, "index")
    /\ UNCHANGED <<catalog, tmp, acked, captures, crashes, torn>>

\* Wrong: the count is the one before the entry was added.
EntryCountBefore(w) == Len(work[w].body) - 1

EntryCount(w) == Len(work[w].body)

\* upsertQmdCatalogEntry reads the catalog again and makes the next one
IndexShard(w) ==
    /\ work[w].pc = "index"
    /\ work' = [work EXCEPT ![w].pc = "tmp",
                            ![w].index = Put(catalog.index, work[w].path, EntryCount(w))]
    /\ UNCHANGED <<files, catalog, tmp, acked, captures, crashes, torn>>

\* writeQmdCatalog: the temporary file is truncated,
OpenTmp(w) ==
    /\ work[w].pc = "tmp"
    /\ tmp' = [exists |-> TRUE, index |-> NoPaths]
    /\ work' = [work EXCEPT ![w].pc = "write", ![w].fd = "tmp"]
    /\ UNCHANGED <<files, catalog, acked, captures, crashes, torn>>

\* Over a longer catalog, the next one is followed by the rest of it, and does not parse.
Overlaid(old, index) == IF DOMAIN old = {} THEN {index} ELSE {index, NoPaths}

\* and filled, wherever the file is by now
WriteTmp(w) ==
    /\ work[w].pc = "write"
    /\ \/ /\ work[w].fd = "tmp" /\ UNCHANGED catalog
          /\ \E index \in Overlaid(tmp.index, work[w].index) :
                 tmp' = [tmp EXCEPT !.index = index]
       \/ /\ work[w].fd = "catalog" /\ UNCHANGED tmp
          /\ \E index \in Overlaid(catalog.index, work[w].index) :
                 catalog' = [catalog EXCEPT !.index = index]
       \/ work[w].fd = "none" /\ UNCHANGED <<tmp, catalog>>
    /\ work' = [work EXCEPT ![w].pc = "rename", ![w].fd = "none"]
    /\ UNCHANGED <<files, acked, captures, crashes, torn>>

\* What a writer's descriptor refers to once the temporary file is the catalog.
Renamed(fd) == CASE fd = "tmp" -> "catalog" [] fd = "catalog" -> "none" [] fd = "none" -> "none"

(***************************************************************************)
(* renameSync, which throws if another writer has renamed the file first:  *)
(* then the capture is over.  Otherwise the next layer follows, or the     *)
(* capture returns.                                                        *)
(***************************************************************************)
Rename(w) ==
    /\ work[w].pc = "rename"
    /\ IF tmp.exists
         THEN /\ catalog' = tmp
              /\ tmp' = [exists |-> FALSE, index |-> NoPaths]
              /\ work' = [v \in Writers |->
                            IF v # w THEN [work[v] EXCEPT !.fd = Renamed(@)]
                            ELSE IF Len(work[w].todo) = 1 THEN NoWork
                            ELSE [work[w] EXCEPT !.pc = "ensure", !.todo = Tail(@)]]
              /\ acked' = IF Len(work[w].todo) > 1 THEN acked
                          ELSE acked \cup {[page |-> work[w].page, id |-> work[w].id, at |-> work[w].at,
                                            layers |-> Range(work[w].layers)]}
         ELSE /\ work' = [work EXCEPT ![w] = NoWork]
              /\ UNCHANGED <<catalog, tmp, acked>>
    /\ UNCHANGED <<files, captures, crashes, torn>>

(***************************************************************************)
(* The process dies, or a call fails and the capture throws.               *)
(***************************************************************************)
Fail(w) ==
    /\ work[w].pc # "idle"
    /\ IF work[w].pc = "fill"
         THEN torn < MaxTorn /\ torn' = torn + 1 /\ UNCHANGED crashes
         ELSE crashes < MaxCrashes /\ crashes' = crashes + 1 /\ UNCHANGED torn
    /\ work' = [work EXCEPT ![w] = NoWork]
    /\ UNCHANGED <<files, catalog, tmp, acked, captures>>

Step(w) ==
    \/ Ensure(w) \/ InitCatalog(w) \/ ReadLatest(w) \/ ReadBody(w)
    \/ OpenShard(w) \/ FillShard(w) \/ IndexShard(w)
    \/ OpenTmp(w) \/ WriteTmp(w) \/ Rename(w)

Next ==
    \E w \in Writers :
        \/ \E page \in Pages, id \in Ids, state \in States : Capture(w, page, id, state)
        \/ Step(w) \/ Fail(w)

Spec == Init /\ [][Next]_vars

-----------------------------------------------------------------------------
(***************************************************************************)
(* Properties.                                                             *)
(***************************************************************************)
Idle == \A w \in Writers : work[w].pc = "idle"

IsIndex(f) == DOMAIN f \subseteq Path /\ \A p \in DOMAIN f : f[p] \in Nat

TypeOK ==
    /\ DOMAIN files \subseteq Path /\ \A p \in DOMAIN files : files[p] \in Seq(Entry)
    /\ IsIndex(catalog.index) /\ IsIndex(tmp.index)
    /\ {catalog.exists, tmp.exists} \subseteq BOOLEAN
    /\ \A w \in Writers :
         /\ work[w].pc \in Pcs /\ work[w].layers \in Seq(Layers) /\ work[w].todo \in Seq(Layers)
         /\ work[w].entry \in Entry \cup {None} /\ work[w].path \in Path \cup {None}
         /\ work[w].latest \in Nat /\ work[w].body \in Seq(Entry) /\ IsIndex(work[w].index)
         /\ work[w].fd \in {"none", "tmp", "catalog"}
    /\ acked \subseteq [page : Pages, id : Ids, at : Nat, layers : SUBSET Layers]
    /\ captures \in 0..MaxCaptures /\ crashes \in 0..MaxCrashes /\ torn \in 0..MaxTorn

(***************************************************************************)
(* The catalog never names a shard that is not there, however many writers *)
(* overlap and fail.                                                       *)
(***************************************************************************)
CatalogBacked == DOMAIN catalog.index \subseteq DOMAIN files

(***************************************************************************)
(* With one writer and no failure, between captures the catalog names      *)
(* every shard there is, with the number of entries it holds.              *)
(***************************************************************************)
CatalogExact ==
    (Idle /\ crashes + torn = 0) =>
        /\ DOMAIN catalog.index = DOMAIN files
        /\ \A p \in DOMAIN files : catalog.index[p] = Len(files[p])

(***************************************************************************)
(* A capture that has returned stays: its raw entry, and an entry of its   *)
(* text in the layer its promotion state chose, no older than the capture, *)
(* are among those a reader finds, whatever is captured after it and       *)
(* wherever later captures fail, unless one leaves a shard truncated.      *)
(***************************************************************************)
Kept(layer, a) == \E e \in Visible(layer, a.page) : e.id = a.id /\ e.at >= a.at

AckedKept ==
    (torn = 0 /\ Idle) => \A a \in acked :
        /\ \E e \in Visible("raw", a.page) : e.id = a.id /\ e.at = a.at
        /\ \A layer \in a.layers \cap {"drafts", "live"} : Kept(layer, a)

(***************************************************************************)
(* With one writer no shard passes the limits, except by a single text     *)
(* that passes them on its own, wherever captures fail.                    *)
(***************************************************************************)
LimitsKept ==
    \A p \in DOMAIN files :
        /\ Len(files[p]) <= MaxEntries
        /\ (\E e \in Range(files[p]) : e.id \in Heavy) => Len(files[p]) = 1

(***************************************************************************)
(* With one writer a shard of a layer that upserts has an id once,         *)
(* wherever captures fail.                                                 *)
(***************************************************************************)
OncePerShard ==
    \A p \in DOMAIN files : p.layer # "raw" =>
        \A i, j \in DOMAIN files[p] : files[p][i].id = files[p][j].id => i = j

(***************************************************************************)
(* With one writer and no failure, between captures a page has one         *)
(* briefing if it has live entries, and it quotes the newest of them,      *)
(* those of earlier shards included.                                       *)
(***************************************************************************)
Briefed(page) ==
    LET live == Visible("live", page) IN
      {e.about : e \in Visible("briefings", page)} =
      IF live = {} THEN {} ELSE {{e.id : e \in {x \in live :
          Cardinality({y \in live : y.at > x.at}) < TopEntries}}}

BriefingFresh == (Idle /\ crashes + torn = 0) => \A page \in Pages : Briefed(page)
=============================================================================
