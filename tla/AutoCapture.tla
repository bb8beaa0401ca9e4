---------------------------- MODULE AutoCapture ----------------------------
(***************************************************************************)
(* Auto capture: the agent_end hook and the memory_auto_capture tool of    *)
(* hooks/auto-capture.ts, the extraction they await                        *)
(* (services/llm-extractor.ts) and the apply step                          *)
(* (core/usecases/distill-apply-usecase.ts).                               *)
(*                                                                         *)
(* The hook's handlers and the tool's run in one process, which switches   *)
(* between them at an await only; its pc is its next database or file      *)
(* call.  Another process may write the same slots at any time, and the    *)
(* process may stop between two calls.  A call may throw.                  *)
(*                                                                         *)
(* normalizeUserId maps every session to the user `default`, so the slots  *)
(* are per agent, whatever the session: the text of a turn stands for its  *)
(* hash, its focus line and its summaries.  Trader, Actionable and         *)
(* Important say which patterns a text matches.                            *)
(***************************************************************************)
EXTENDS Integers, Sequences, FiniteSets

CONSTANTS
    Sessions,       \* session keys
    Agents,         \* agents
    AgentOf,        \* the agent of a session
    Texts,          \* the texts of turns
    Trader,         \* those classified as a trader's
    Actionable,     \* those with an actionable signal
    Important,      \* those with an important pattern
    NoText,           \* no text
    NHooks,         \* handlers of agent_end that may be in flight
    UseLLM,         \* cfg.useLLM
    SummarizeEvery, \* cfg.summarizeEveryActions
    MaxEvents,      \* bound on events and tool calls
    MaxFaults,      \* bound on crashes, calls that throw and writes by others
    MaxDays         \* bound on the clock

ASSUME AgentAssumption == AgentOf \in [Sessions -> Agents]
ASSUME TextAssumption ==
    Trader \subseteq Texts /\ Actionable \subseteq Texts /\ Important \subseteq Texts
        /\ NoText \notin Texts /\ UseLLM \in BOOLEAN
ASSUME EveryAssumption == SummarizeEvery \in Nat \ {0}
ASSUME CaptureBoundsAssumption ==
    NHooks \in Nat /\ MaxEvents \in Nat /\ MaxFaults \in Nat /\ MaxDays \in Nat

VARIABLES
    isCapturing,    \* the lock of the hook
    hooks,          \* what each handler is executing
    tool,           \* what the tool is executing
    actions,        \* actionCounter
    since,          \* actionsSinceLastCapture
    lastMid,        \* lastMidTermCaptureAt, in days
    focus,          \* slot project.current_focus: the text, and the event that wrote it
    hash,           \* slot _autocapture_hash
    living,         \* slot project_living_state
    summaries,      \* slots session.<date>.summary: the days an agent has one for
    pages,          \* captures in the wiki: <<agent, day or text>>
    day,            \* the clock
    boot,           \* the day the process started
    applied,        \* history: <<agent, text>> whose focus was written, or whose write threw
    missed,         \* history: the living states whose write threw
    events, faults  \* what the bounds count

process == <<isCapturing, hooks, tool, actions, since, lastMid, boot>>
slots == <<focus, hash, living, summaries, pages>>
history == <<applied, missed>>
counts == <<day, events, faults>>
captureVars == <<process, slots, history, counts>>

Hooks == 1..NHooks

NoJob == [pc |-> "idle", session |-> NoText, text |-> NoText, ending |-> FALSE, event |-> 0, now |-> 0]

HookPcs == {"idle", "hash", "extract", "save", "short", "mid", "wiki", "pattern", "release"}

\* The pcs at which a handler waits and another may run.
Awaiting == {"idle", "extract", "pattern", "release", "apply"}

CaptureInit ==
    /\ isCapturing = FALSE
    /\ hooks = [h \in Hooks |-> NoJob]
    /\ tool = [pc |-> "idle", agent |-> NoText, text |-> NoText]
    /\ actions = 0 /\ since = 0 /\ lastMid = 0 /\ boot = 0 /\ day = 0
    /\ focus = [a \in Agents |-> [text |-> NoText, event |-> 0]]
    /\ hash = [a \in Agents |-> NoText]
    /\ living = [a \in Agents |-> NoText]
    /\ summaries = [a \in Agents |-> {}]
    /\ pages = {}
    /\ applied = {} /\ missed = 0
    /\ events = 0 /\ faults = 0

-----------------------------------------------------------------------------
(***************************************************************************)
(* The extraction.  extractFacts hands the continuation a contract that    *)
(* holds one update, of the focus, when the language model is on and the   *)
(* text has a signal; without a contract the result is the empty one of    *)
(* isolatedFailureResult.  No other update, removal or memory is made, so  *)
(* neither a task transition nor a duplicate volatile key ever occurs.     *)
(***************************************************************************)
Contract(useLLM, t) == useLLM /\ t \in Actionable

\* runContinuationNativeDistill, for the hook: what a contract has is what is applied.
ExtractsFocus(t) == Contract(UseLLM, t)

\* The tool is thread 0.
Threads == Hooks \cup {0}
PcOf(w) == IF w = 0 THEN tool.pc ELSE hooks[w].pc

\* The process has one thread.
Runs(w) == \A v \in Threads \ {w} : PcOf(v) \in Awaiting

At(h, pc) == hooks[h].pc = pc /\ Runs(h)

\* The next handler: they are numbered in the order in which they are taken.
Fresh(h) == At(h, "idle") /\ \A g \in Hooks : g < h => hooks[g].pc # "idle"
Goto(h, pc) == hooks' = [hooks EXCEPT ![h].pc = pc]
Agent(h) == AgentOf[hooks[h].session]

\* finally
Return(h) == hooks' = [hooks EXCEPT ![h] = NoJob] /\ isCapturing' = FALSE

Throws == faults < MaxFaults /\ faults' = faults + 1

-----------------------------------------------------------------------------
\* A turn that ends while another is captured is not captured, then or later.
Drop(h) ==
    /\ Fresh(h) /\ isCapturing /\ events < MaxEvents
    /\ events' = events + 1
    /\ UNCHANGED <<process, slots, history, day, faults>>

Take(h, s, t, ending) ==
    /\ Fresh(h) /\ events < MaxEvents
    /\ isCapturing' = TRUE
    /\ events' = events + 1
    /\ hooks' = [hooks EXCEPT ![h] = [pc |-> "hash", session |-> s, text |-> t, ending |-> ending,
                                       event |-> events + 1, now |-> 0]]
    /\ UNCHANGED <<tool, actions, since, lastMid, boot, slots, history, day, faults>>

\* Wrong: nobody looks at the lock.
EnterUnlocked(h, s, t, ending) == Take(h, s, t, ending)

\* A turn ends.  One of a heartbeat, marked as not to be captured, or without a meaningful
\* line returns before it has read or written anything, and is left out.
Enter(h, s, t, ending) == ~isCapturing /\ Take(h, s, t, ending)

Passed(h) == hash[Agent(h)] = hooks[h].text \/ hooks[h].text \in Trader

\* Wrong: an unchanged turn returns without releasing the lock.
HashKeepsLock(h) ==
    /\ At(h, "hash")
    /\ IF Passed(h) THEN hooks' = [hooks EXCEPT ![h] = NoJob] ELSE Goto(h, "extract")
    /\ UNCHANGED <<isCapturing, tool, actions, since, lastMid, boot, slots, history, counts>>

\* Wrong: the hash is saved where it is compared.
HashSavedEarly(h) ==
    /\ At(h, "hash")
    /\ IF Passed(h)
         THEN Return(h) /\ UNCHANGED hash
         ELSE /\ Goto(h, "extract") /\ UNCHANGED isCapturing
              /\ hash' = [hash EXCEPT ![Agent(h)] = hooks[h].text]
    /\ UNCHANGED <<tool, actions, since, lastMid, boot, focus, living, summaries, pages,
                   history, counts>>

\* An unchanged turn and a trader's return; any other is extracted, over an await.
CompareHash(h) ==
    /\ At(h, "hash")
    /\ IF Passed(h) THEN Return(h) ELSE Goto(h, "extract") /\ UNCHANGED isCapturing
    /\ UNCHANGED <<tool, actions, since, lastMid, boot, slots, history, counts>>

\* DistillApplyUseCase.execute: an update that throws is logged and passed over.
Apply(h) ==
    /\ At(h, "extract")
    /\ Goto(h, "save")
    /\ IF ExtractsFocus(hooks[h].text)
         THEN /\ applied' = applied \cup {<<Agent(h), hooks[h].text>>}
              /\ \/ /\ focus' = [focus EXCEPT ![Agent(h)] =
                                   [text |-> hooks[h].text, event |-> hooks[h].event]]
                    /\ UNCHANGED faults
                 \/ Throws /\ UNCHANGED focus
         ELSE UNCHANGED <<focus, faults, applied>>
    /\ UNCHANGED <<isCapturing, tool, actions, since, lastMid, boot, hash, living, summaries,
                   pages, missed, day, events>>

SaveHash(h) ==
    /\ At(h, "save")
    /\ hash' = [hash EXCEPT ![Agent(h)] = hooks[h].text]
    /\ actions' = actions + 1 /\ since' = since + 1
    /\ Goto(h, "short")
    /\ UNCHANGED <<isCapturing, tool, lastMid, boot, focus, living, summaries, pages, applied,
                   missed, counts>>

\* Wrong: it also refuses three.
SummarisesLate == (actions % SummarizeEvery = 0 \/ since >= 3) /\ since > 3

\* Every summarizeEvery actions or after three, but captureShortTermState refuses fewer.
Summarises == (actions % SummarizeEvery = 0 \/ since >= 3) /\ since >= 3

ShortTerm(h) ==
    /\ At(h, "short")
    /\ IF Summarises
         THEN \/ /\ living' = [living EXCEPT ![Agent(h)] = hooks[h].text]
                 /\ since' = 0
                 /\ UNCHANGED <<faults, missed>>
              \/ Throws /\ missed' = missed + 1 /\ UNCHANGED <<living, since>>
         ELSE UNCHANGED <<living, since, faults, missed>>
    /\ Goto(h, "mid")
    /\ UNCHANGED <<isCapturing, tool, actions, lastMid, boot, focus, hash, summaries, pages,
                   applied, day, events>>

\* captureMidTermSummary: the slot, when the session ends or a day has passed.
MidTerm(h) ==
    /\ At(h, "mid")
    /\ IF hooks[h].ending \/ day - lastMid >= 1
         THEN \/ /\ summaries' = [summaries EXCEPT ![Agent(h)] = @ \cup {day}]
                 /\ hooks' = [hooks EXCEPT ![h].pc = "wiki", ![h].now = day]
                 /\ UNCHANGED faults
              \/ Throws /\ Goto(h, "pattern") /\ UNCHANGED summaries
         ELSE Goto(h, "pattern") /\ UNCHANGED <<summaries, faults>>
    /\ UNCHANGED <<isCapturing, tool, actions, since, lastMid, boot, focus, hash, living, pages,
                   history, day, events>>

\* storeSemanticMemory of the summary; then the day counts as summarised.
MidTermWiki(h) ==
    /\ At(h, "wiki")
    /\ \/ /\ pages' = pages \cup {<<Agent(h), hooks[h].now>>}
          /\ lastMid' = hooks[h].now
          /\ UNCHANGED faults
       \/ Throws /\ UNCHANGED <<pages, lastMid>>
    /\ Goto(h, "pattern")
    /\ UNCHANGED <<isCapturing, tool, actions, since, boot, focus, hash, living, summaries,
                   history, day, events>>

\* captureLongTermPattern
LongTerm(h) ==
    /\ At(h, "pattern")
    /\ \/ /\ pages' = IF hooks[h].text \in Important
                       THEN pages \cup {<<Agent(h), hooks[h].text>>} ELSE pages
          /\ UNCHANGED faults
       \/ hooks[h].text \in Important /\ Throws /\ UNCHANGED pages
    /\ Goto(h, "release")
    /\ UNCHANGED <<isCapturing, tool, actions, since, lastMid, boot, focus, hash, living,
                   summaries, history, day, events>>

Release(h) ==
    /\ At(h, "release")
    /\ Return(h)
    /\ UNCHANGED <<tool, actions, since, lastMid, boot, slots, history, counts>>

\* A read or the write of the hash throws: the outer catch, and finally.
HookThrows(h) ==
    /\ hooks[h].pc \in {"hash", "save"} /\ Runs(h)
    /\ Throws
    /\ Return(h)
    /\ UNCHANGED <<tool, actions, since, lastMid, boot, slots, history, day, events>>

-----------------------------------------------------------------------------
(***************************************************************************)
(* The tool, which takes no lock and compares no hash; the other           *)
(* processes; the clock; a crash.                                          *)
(***************************************************************************)
ToolReads(a, t) ==
    /\ tool.pc = "idle" /\ Runs(0) /\ events < MaxEvents
    /\ events' = events + 1
    /\ tool' = [pc |-> "apply", agent |-> a, text |-> t]
    /\ UNCHANGED <<isCapturing, hooks, actions, since, lastMid, boot, slots, history, day, faults>>

\* use_llm of the call overrides the configuration.
ToolApplies(useLLM) ==
    /\ tool.pc = "apply" /\ Runs(0)
    /\ IF Contract(useLLM, tool.text)
         THEN \/ /\ focus' = [focus EXCEPT ![tool.agent] =
                                [text |-> tool.text, event |-> 0]]
                 /\ UNCHANGED faults
              \/ Throws /\ UNCHANGED focus
         ELSE UNCHANGED <<focus, faults>>
    /\ tool' = [pc |-> "idle", agent |-> NoText, text |-> NoText]
    /\ UNCHANGED <<isCapturing, hooks, actions, since, lastMid, boot, hash, living, summaries,
                   pages, history, day, events>>

\* memory_slot_set or memory_slot_delete in any process, and the sweep of old slots.
OtherWrites(a) ==
    /\ Throws
    /\ \/ /\ focus' = [focus EXCEPT ![a] = [text |-> NoText, event |-> 0]]
          /\ UNCHANGED <<hash, living>>
       \/ hash' = [hash EXCEPT ![a] = NoText] /\ UNCHANGED <<focus, living>>
       \/ living' = [living EXCEPT ![a] = NoText] /\ UNCHANGED <<focus, hash>>
    /\ UNCHANGED <<process, summaries, pages, history, day, events>>

NextDay ==
    /\ day < MaxDays /\ day' = day + 1
    /\ UNCHANGED <<process, slots, history, events, faults>>

\* The process stops and starts again: the hook is registered anew.
Crash ==
    /\ Throws
    /\ isCapturing' = FALSE
    /\ hooks' = [h \in Hooks |-> NoJob]
    /\ tool' = [pc |-> "idle", agent |-> NoText, text |-> NoText]
    /\ actions' = 0 /\ since' = 0 /\ lastMid' = day /\ boot' = day
    /\ missed' = 0
    /\ UNCHANGED <<slots, applied, day, events>>

HookStep(h) ==
    \/ CompareHash(h) \/ Apply(h) \/ SaveHash(h) \/ ShortTerm(h) \/ MidTerm(h)
    \/ MidTermWiki(h) \/ LongTerm(h) \/ Release(h)

CaptureNext ==
    \/ \E h \in Hooks : Drop(h) \/ HookStep(h) \/ HookThrows(h)
    \/ \E h \in Hooks, s \in Sessions, t \in Texts, ending \in BOOLEAN : Enter(h, s, t, ending)
    \/ \E a \in Agents, t \in Texts : ToolReads(a, t)
    \/ \E useLLM \in BOOLEAN : ToolApplies(useLLM)
    \/ \E a \in Agents : OtherWrites(a)
    \/ NextDay
    \/ Crash

\* The event loop takes up every task that waits.
Fairness ==
    /\ \A h \in Hooks : WF_captureVars(HookStep(h))
    /\ WF_captureVars(\E useLLM \in BOOLEAN : ToolApplies(useLLM))

CaptureSpec == CaptureInit /\ [][CaptureNext]_captureVars /\ Fairness

-----------------------------------------------------------------------------
(***************************************************************************)
(* Properties.                                                             *)
(***************************************************************************)
\* Every variable holds a value of the kind the code gives it.
CaptureTypeOK ==
    /\ isCapturing \in BOOLEAN
    /\ hooks \in [Hooks -> [pc : HookPcs, session : Sessions \cup {NoText}, text : Texts \cup {NoText},
                             ending : BOOLEAN, event : Nat, now : Nat]]
    /\ tool \in [pc : {"idle", "apply"}, agent : Agents \cup {NoText}, text : Texts \cup {NoText}]
    /\ actions \in Nat /\ since \in Nat /\ lastMid \in Nat /\ boot \in Nat /\ day \in Nat
    /\ focus \in [Agents -> [text : Texts \cup {NoText}, event : Nat]]
    /\ hash \in [Agents -> Texts \cup {NoText}]
    /\ living \in [Agents -> Texts \cup {NoText}]
    /\ summaries \in [Agents -> SUBSET Nat]
    /\ pages \subseteq Agents \X (Texts \cup Nat)
    /\ applied \subseteq Agents \X Texts
    /\ missed \in Nat /\ events \in Nat /\ faults \in Nat

Busy == {h \in Hooks : hooks[h].pc # "idle"}

\* At most one handler is past the lock, across every await, and the lock is held just as
\* long as one is (auto-capture.ts, isCapturing and its finally).
OneCapture ==
    /\ \A g, h \in Busy : g = h
    /\ isCapturing <=> Busy # {}

\* A turn whose hash is stored has had its update made, or has seen the update itself
\* throw: no crash lies between them that would drop the update and keep the hash.
HashHonest ==
    \A a \in Agents : \A t \in Texts : hash[a] = t /\ ExtractsFocus(t) => <<a, t>> \in applied

\* The living state is at most two captured turns of the process behind, unless its write threw.
LivingRecent == (\A h \in Hooks : hooks[h].pc # "short") => since <= 2 + missed

\* A day the process counts as summarised, and will not summarise again of itself, has both
\* the slot and the page of some agent.
DayIsBacked ==
    lastMid # boot => \E a \in Agents : lastMid \in summaries[a] /\ <<a, lastMid>> \in pages

\* A handler never overwrites the focus a later turn has left.
FocusMovesForward ==
    [][\A a \in Agents : focus'[a].event # 0 /\ focus'[a] # focus[a]
                           => focus'[a].event > focus[a].event]_captureVars

\* Whatever throws or returns, the lock is released: a turn can be captured again.
LockReleased == isCapturing ~> ~isCapturing
=============================================================================
