----------------------------- MODULE AgentLoop -----------------------------
(***************************************************************************)
(* The bounded investigation loop of agent/loop.py, the toolbox it drives  *)
(* (agent/tools.py) and the token budget it is charged against             *)
(* (agent/budget.py).                                                      *)
(*                                                                         *)
(* The model on the other side of the provider is the environment: every   *)
(* turn it may ask for any batch of tool calls, answer in any way, cost    *)
(* any amount of Costs, or fail.  What the loop, the toolbox and the       *)
(* budget do with that is what is specified.                               *)
(*                                                                         *)
(* pc says where InvestigationLoop.run stands: about to call the model     *)
(* ("converse"), dispatching the calls of one turn ("dispatch"), about to  *)
(* take the closing turn ("converge"), about to write the metrics          *)
(* ("record"), finished ("done"), or left by a ProviderError ("failed").   *)
(***************************************************************************)
EXTENDS Integers, Sequences, FiniteSets

CONSTANTS
  Templates,      \* template ids of the incident
  Events,         \* log event ids of the incident
  TemplateOf,     \* TemplateOf[e] is the template event e was assigned to
  Rank,           \* Rank[t] is the place of t by anomaly score, 1 the highest
  DigestLimit,    \* how many templates the digest shows (DIGEST_LIMIT)
  MaxNamed,       \* how many unopened templates one nudge names
  Signal,         \* templates the anomaly scoring recorded as signal
  Chronic,        \* templates active for most of the incident's span
  MaxToolCalls,   \* pipeline.max_agent_tool_calls
  MaxNudges,      \* pipeline.coverage_nudges
  HistorySteps,   \* pipeline.tool_result_history_steps, 0 disables compaction
  Budgeted,       \* is there a pipeline.max_total_tokens at all
  Ceiling,        \* its value
  InitialSpent,   \* tokens the budget may have been charged before the loop
  Costs,          \* total tokens one model turn may cost
  Stops,          \* why a turn without tool calls may have stopped
  BatchSizes,     \* how many tool calls one model turn may carry
  Bulk,           \* may a tool result be longer than ELIDE_MIN_LINES
  SqlAliases,     \* may run_sql return numbers that are not event ids as "id"
  InitialNotes    \* the notes tables a run may find when it starts

StopReasons == {"end_turn", "max_tokens", "refusal"}

Kinds == {"opening", "calls", "results", "answer", "question", "reminder", "closing"}

Message == [kind : Kinds, bulky : BOOLEAN, elided : BOOLEAN]

Note == [step : Nat, tids : SUBSET Templates, eids : SUBSET Events,
         role : {"prior", "finding", "accounting", "closing"}]

LogRow == [step : Nat, tool : {"reader", "write_note"}, ok : BOOLEAN,
           ids : SUBSET Events]

ASSUME LoopAssumption ==
  /\ TemplateOf \in [Events -> Templates]
  /\ Rank \in [Templates -> Nat]
  /\ Signal \subseteq Templates
  /\ Chronic \subseteq Templates
  /\ DigestLimit \in Nat
  /\ MaxNamed \in Nat
  /\ MaxToolCalls \in Nat \ {0}
  /\ MaxNudges \in Nat
  /\ HistorySteps \in Nat
  /\ Budgeted \in BOOLEAN
  /\ Ceiling \in Nat \ {0}
  /\ InitialSpent \subseteq Nat
  /\ Costs \subseteq Nat
  /\ Stops \subseteq StopReasons
  /\ BatchSizes \subseteq Nat \ {0}
  /\ Bulk \subseteq BOOLEAN
  /\ SqlAliases \in BOOLEAN
  /\ InitialNotes \subseteq Seq([step : Nat, tids : SUBSET Templates,
                                 eids : SUBSET Events, role : {"prior"}])

VARIABLES
  pc,
  spent,          \* TokenBudget.spent
  last,           \* total tokens of the last turn
  grew,           \* history: did some turn cost more than the one before it
  steps,          \* InvestigationResult.steps
  toolCalls,      \* InvestigationResult.tool_calls
  batch,          \* calls in the turn being dispatched
  pending,        \* of which not dispatched yet
  bulky,          \* did a result of this batch exceed ELIDE_MIN_LINES
  toolStep,       \* ToolBox.step
  seen,           \* ToolBox._seen_events
  shown,          \* ToolBox._shown_templates
  nudged,         \* ToolBox.nudged_templates
  notes,          \* scratchpad_notes, in insertion order
  log,            \* rows of query_log this run wrote; ids is a history field
  messages,       \* the conversation re-sent on every turn
  compactions,
  coverageNudges,
  silentNudges,
  limit,          \* InvestigationResult.budget_limit, "none" for None
  stop,           \* InvestigationResult.stop_reason
  outcome         \* the recorded INVESTIGATE_OUTCOME, "none" before _record

budgetVars == <<spent, last, grew>>
batchVars  == <<batch, pending, bulky>>
toolVars   == <<toolStep, seen, shown, log>>
talkVars   == <<messages, compactions>>
nudgeVars  == <<nudged, coverageNudges, silentNudges>>
vars == <<pc, budgetVars, steps, toolCalls, batchVars, toolVars, notes,
          talkVars, nudgeVars, limit, stop, outcome>>

-----------------------------------------------------------------------------
(* The token budget.                                                        *)

\* TokenBudget.loop_limit: the ceiling less the 15% kept for later stages.
LoopLimit == (Ceiling * 85) \div 100

\* TokenBudget.loop_should_stop: would two more turns like this one, the next
\* search step and the closing turn, cross the loop's share.
LoopShouldStop(now, turn) == Budgeted /\ now + 2 * turn > LoopLimit

\* TokenBudget.exhausted, on which BudgetedProvider refuses a call.
Exhausted == Budgeted /\ spent >= Ceiling

\* BudgetedProvider.converse charges the turn it has just been given.
Charge(c) ==
  /\ spent' = IF Budgeted THEN spent + c ELSE spent
  /\ last' = c
  /\ grew' = (grew \/ (steps > 0 /\ c > last))

-----------------------------------------------------------------------------
(* What has been cited, and what a conclusion may be sent back for.         *)

\* Templates cited by any note, whoever wrote it.
Cited == UNION {notes[i].tids : i \in DOMAIN notes}

\* A bug: the chronic split is applied to the wrong half.
UnexplainedChronic == {t \in Signal : t \notin Cited /\ t \in Chronic}

\* unexplained_signal_templates, the acute half: signal no note cites.
Unexplained == {t \in Signal : t \notin Cited /\ t \notin Chronic}

\* Digest templates never opened and never cited, before the cut.
Unopened == {t \in Templates : /\ Rank[t] <= DigestLimit
                               /\ t \notin shown
                               /\ t \notin Cited}

\* _unopened_digest_templates: the MaxNamed highest ranked of those.
UnopenedNamed ==
  {t \in Unopened : Cardinality({u \in Unopened : Rank[u] < Rank[t]}) < MaxNamed}

\* What _nudge would name now: nothing once its allowance is used, the acute
\* signal first, unopened digest templates failing that.
NudgeTargets ==
  IF coverageNudges >= MaxNudges THEN {}
  ELSE IF Unexplained # {} THEN Unexplained ELSE UnopenedNamed

\* NOTE_ROLE as ToolBox._write_note stamps it.
RoleOf(t) == IF t # {} /\ t \subseteq nudged THEN "accounting" ELSE "finding"

\* A bug: any id of the incident is accepted, read or not.
AcceptedIfExisting(t, e) == t # {} \/ e # {}

\* write_note accepts a note that cites something (_evidence_arg) and no
\* event the toolbox has not been returned.
Accepted(t, e) == (t # {} \/ e # {}) /\ e \subseteq seen

-----------------------------------------------------------------------------
(* The conversation.                                                        *)

Say(kind) == [kind |-> kind, bulky |-> FALSE, elided |-> FALSE]

Carrying(ms) == {i \in DOMAIN ms : ms[i].kind = "results"}

\* A bug: the recent window is counted from the wrong end.
StaleFromFront(ms) ==
  IF HistorySteps = 0 THEN {}
  ELSE {i \in Carrying(ms) :
          Cardinality({j \in Carrying(ms) : j < i}) >= HistorySteps}

\* Tool-result messages outside the window _compact leaves alone.
Stale(ms) ==
  IF HistorySteps = 0 THEN {}
  ELSE {i \in Carrying(ms) :
          Cardinality({j \in Carrying(ms) : j > i}) >= HistorySteps}

\* A bug: as many of the oldest messages as there are stale ones are dropped.
CompactByDropping(ms) ==
  LET k == Cardinality(Stale(ms))
  IN  [i \in 1..(Len(ms) - k) |-> ms[i + k]]

\* _compact in place: stale results keep their first line (_summarise), unless
\* they are short or were summarised before.
Compact(ms) ==
  [i \in DOMAIN ms |-> IF i \in Stale(ms) /\ ms[i].bulky
                       THEN [ms[i] EXCEPT !.elided = TRUE] ELSE ms[i]]

\* What _compact returns: messages it changed, not ones changed earlier.
Compacted(ms) == Cardinality({i \in Stale(ms) : ms[i].bulky /\ ~ms[i].elided})

\* A bug: the reminder waits for the whole tool-call budget to be used.
ReminderDueLate(calls) ==
  silentNudges = 0 /\ notes = <<>> /\ calls > MaxToolCalls

\* _ask_for_something_written: once, to a run whose scratchpad has no note,
\* past 0.6 of its calls or of its share of the tokens.
ReminderDue(calls) ==
  /\ silentNudges = 0
  /\ notes = <<>>
  /\ \/ 10 * calls >= 6 * MaxToolCalls
     \/ Budgeted /\ 10 * spent >= 6 * LoopLimit

\* Which budget ends the search after a batch, the tool-call cap asked first.
LimitHit(calls) ==
  IF calls >= MaxToolCalls THEN "tool_calls"
  ELSE IF LoopShouldStop(spent, last) THEN "tokens" ELSE "none"

-----------------------------------------------------------------------------
Init ==
  /\ pc = "converse"
  /\ spent \in InitialSpent /\ last = 0 /\ grew = FALSE
  /\ steps = 0 /\ toolCalls = 0
  /\ batch = 0 /\ pending = 0 /\ bulky = FALSE
  /\ toolStep = 0 /\ seen = {} /\ shown = {} /\ nudged = {}
  /\ notes \in InitialNotes
  /\ log = <<>>
  /\ messages = <<Say("opening")>>
  /\ compactions = 0
  /\ coverageNudges = 0 /\ silentNudges = 0
  /\ limit = "none" /\ stop = "end_turn" /\ outcome = "none"

\* The budget refuses the next turn; the loop ends with the notes it has.  Only
\* a budget that was spent when the loop got it refuses here: between turns the
\* loop's share is not used up, and the share is less than the ceiling.
CeilingRefusesTurn ==
  /\ pc = "converse"
  /\ Exhausted
  /\ limit' = "tokens"
  /\ stop' = "token_ceiling"
  /\ pc' = "record"
  /\ UNCHANGED <<budgetVars, steps, toolCalls, batchVars, toolVars, notes,
                 talkVars, nudgeVars, outcome>>

\* Any other ProviderError leaves run() without recording anything.
ProviderFails ==
  /\ pc \in {"converse", "converge"}
  /\ ~Exhausted
  /\ pc' = "failed"
  /\ UNCHANGED <<budgetVars, steps, toolCalls, batchVars, toolVars, notes,
                 talkVars, nudgeVars, limit, stop, outcome>>

\* A turn that asks for n tools: it is appended, then its calls dispatched.
ModelCallsTools(c, n) ==
  /\ pc = "converse"
  /\ ~Exhausted
  /\ Charge(c)
  /\ steps' = steps + 1
  /\ stop' = "tool_use"
  /\ messages' = Append(messages, Say("calls"))
  /\ batch' = n /\ pending' = n /\ bulky' = FALSE
  /\ pc' = "dispatch"
  /\ UNCHANGED <<toolCalls, toolVars, notes, compactions, nudgeVars, limit, outcome>>

\* A turn without tool calls that _nudge sends back for more searching.  The
\* share is asked after the turn has been charged.
AnswerSentBack(c, s) ==
  /\ pc = "converse"
  /\ ~Exhausted
  /\ Charge(c)
  /\ ~LoopShouldStop(spent', c)
  /\ NudgeTargets # {}
  /\ steps' = steps + 1
  /\ stop' = s
  /\ nudged' = nudged \cup NudgeTargets
  /\ coverageNudges' = coverageNudges + 1
  /\ messages' = messages \o <<Say("answer"), Say("question")>>
  /\ UNCHANGED <<pc, toolCalls, batchVars, toolVars, notes, compactions,
                 silentNudges, limit, outcome>>

\* A turn without tool calls that stands: nothing to ask, no nudge left, or
\* no room left in the loop's share to ask it.
AnswerStands(c, s) ==
  /\ pc = "converse"
  /\ ~Exhausted
  /\ Charge(c)
  /\ LoopShouldStop(spent', c) \/ NudgeTargets = {}
  /\ steps' = steps + 1
  /\ stop' = s
  /\ pc' = "record"
  /\ UNCHANGED <<toolCalls, batchVars, toolVars, notes, talkVars, nudgeVars,
                 limit, outcome>>

\* Every dispatch takes the next step number and leaves one query_log row
\* (_finish), whatever came of the call.
Logged(tool, ok, ids) ==
  /\ pc = "dispatch"
  /\ pending > 0
  /\ pending' = pending - 1
  /\ toolStep' = toolStep + 1
  /\ log' = Append(log, [step |-> toolStep + 1, tool |-> tool, ok |-> ok, ids |-> ids])
  /\ UNCHANGED <<pc, budgetVars, steps, toolCalls, batch, talkVars, nudgeVars,
                 limit, stop, outcome>>

\* get_slice: the rows S it returns are ids and templates the model has read.
GetSlice(S, b) ==
  /\ Logged("reader", TRUE, S)
  /\ seen' = seen \cup S
  /\ shown' = shown \cup {TemplateOf[e] : e \in S}
  /\ bulky' = (bulky \/ b)
  /\ UNCHANGED notes

\* run_sql over log_events with an "id" column: every integer under that name
\* enters the seen set, and template_id values, when selected, the shown set.
\* With real = FALSE the column is an alias for something else.
RunSqlWithIds(S, real, withTemplates, b) ==
  /\ real \/ SqlAliases
  /\ Logged("reader", TRUE, IF real THEN S ELSE {})
  /\ seen' = seen \cup S
  /\ shown' = IF withTemplates THEN shown \cup {TemplateOf[e] : e \in S} ELSE shown
  /\ bulky' = (bulky \/ b)
  /\ UNCHANGED notes

\* query_templates, read_notes, and a run_sql whose rows carry no event id.
ReadOther(b) ==
  /\ Logged("reader", TRUE, {})
  /\ bulky' = (bulky \/ b)
  /\ UNCHANGED <<seen, shown, notes>>

\* A bug: the note takes the step of the call before.
NoteStepStale == toolStep

\* The step dispatch has just moved to, which the note is stored under.
NoteStep == toolStep + 1

\* write_note: stored at the dispatch's step under the role the box stamps.
WriteNote(t, e) ==
  /\ Accepted(t, e)
  /\ Logged("write_note", TRUE, {})
  /\ notes' = Append(notes, [step |-> NoteStep, tids |-> t, eids |-> e,
                             role |-> RoleOf(t)])
  /\ UNCHANGED <<seen, shown, bulky>>

\* An unknown tool, unusable arguments, a refused query, a refused note: an
\* error the model reads, and a logged call all the same.
CallRefused(tool) ==
  /\ Logged(tool, FALSE, {})
  /\ UNCHANGED <<seen, shown, notes, bulky>>

Dispatch ==
  \/ \E S \in SUBSET Events, b \in Bulk : GetSlice(S, b)
  \/ \E S \in SUBSET Events, real \in BOOLEAN, w \in BOOLEAN, b \in Bulk :
       RunSqlWithIds(S, real, w, b)
  \/ \E b \in Bulk : ReadOther(b)
  \/ \E t \in SUBSET Templates, e \in SUBSET Events : WriteNote(t, e)
  \/ \E tool \in {"reader", "write_note"} : CallRefused(tool)

\* All results of a batch go back in one user message; old ones are compacted,
\* the silent reminder is due or not, and a budget may end the search.
ResultsReturned ==
  /\ pc = "dispatch"
  /\ pending = 0
  /\ LET calls == toolCalls + batch
         all == Append(messages, [kind |-> "results", bulky |-> bulky, elided |-> FALSE])
         reminder == IF ReminderDue(calls) THEN <<Say("reminder")>> ELSE <<>>
         closing == IF LimitHit(calls) # "none" THEN <<Say("closing")>> ELSE <<>>
     IN /\ toolCalls' = calls
        /\ messages' = Compact(all) \o reminder \o closing
        /\ compactions' = compactions + Compacted(all)
        /\ silentNudges' = silentNudges + Len(reminder)
        /\ limit' = LimitHit(calls)
        /\ pc' = IF LimitHit(calls) = "none" THEN "converse" ELSE "converge"
  /\ UNCHANGED <<budgetVars, steps, batchVars, toolVars, notes, nudged,
                 coverageNudges, stop, outcome>>

\* _converge: the one turn taken without tools.  Its text, if any, is stored
\* as a note numbered by the turn count and citing nothing.
ClosingTurn(c, text) ==
  /\ pc = "converge"
  /\ ~Exhausted
  /\ Charge(c)
  /\ steps' = steps + 1
  /\ stop' = "budget_exhausted"
  /\ notes' = IF text
              THEN Append(notes, [step |-> steps + 1, tids |-> {}, eids |-> {},
                                  role |-> "closing"])
              ELSE notes
  /\ pc' = "record"
  /\ UNCHANGED <<toolCalls, batchVars, toolVars, talkVars, nudgeVars, limit, outcome>>

\* A bug: the refused closing turn is asked for again.
ClosingTurnRetried ==
  /\ pc = "converge"
  /\ Exhausted
  /\ stop' = "token_ceiling"
  /\ UNCHANGED <<pc, budgetVars, steps, toolCalls, batchVars, toolVars, notes,
                 talkVars, nudgeVars, limit, outcome>>

\* _converge refused by the ceiling.
ClosingTurnRefused ==
  /\ pc = "converge"
  /\ Exhausted
  /\ stop' = "token_ceiling"
  /\ pc' = "record"
  /\ UNCHANGED <<budgetVars, steps, toolCalls, batchVars, toolVars, notes,
                 talkVars, nudgeVars, limit, outcome>>

\* A bug: the outcome looks only at whether notes were written.
OutcomeByNotes == IF notes # <<>> THEN "converged" ELSE "no_conclusion"

\* The INVESTIGATE_OUTCOME _record writes.
Outcome == IF limit # "none" THEN "budget_limited"
           ELSE IF notes # <<>> THEN "converged" ELSE "no_conclusion"

Record ==
  /\ pc = "record"
  /\ outcome' = Outcome
  /\ pc' = "done"
  /\ UNCHANGED <<budgetVars, steps, toolCalls, batchVars, toolVars, notes,
                 talkVars, nudgeVars, limit, stop>>

\* run() has returned or raised.
Finished == pc \in {"done", "failed"} /\ UNCHANGED vars

LoopStep ==
  \/ CeilingRefusesTurn
  \/ ProviderFails
  \/ \E c \in Costs, n \in BatchSizes : ModelCallsTools(c, n)
  \/ \E c \in Costs, s \in Stops : AnswerSentBack(c, s)
  \/ \E c \in Costs, s \in Stops : AnswerStands(c, s)
  \/ Dispatch
  \/ ResultsReturned
  \/ \E c \in Costs, text \in BOOLEAN : ClosingTurn(c, text)
  \/ ClosingTurnRefused
  \/ Record

Next == LoopStep \/ Finished

\* Every call of the loop returns: provider requests time out and are retried
\* a bounded number of times (llm/retry.py), the tools are local.
Spec == Init /\ [][Next]_vars /\ WF_vars(LoopStep)
-----------------------------------------------------------------------------
(* Properties.                                                              *)

\* Every variable holds a value of the kind the code keeps there.
TypeOK ==
  /\ pc \in {"converse", "dispatch", "converge", "record", "done", "failed"}
  /\ spent \in Nat /\ last \in Nat /\ grew \in BOOLEAN
  /\ steps \in Nat /\ toolCalls \in Nat
  /\ batch \in Nat /\ pending \in 0..batch /\ bulky \in BOOLEAN
  /\ toolStep \in Nat
  /\ seen \subseteq Events /\ shown \subseteq Templates /\ nudged \subseteq Templates
  /\ notes \in Seq(Note)
  /\ log \in Seq(LogRow)
  /\ messages \in Seq(Message)
  /\ compactions \in Nat
  /\ coverageNudges \in 0..MaxNudges
  /\ silentNudges \in 0..1
  /\ limit \in {"none", "tool_calls", "tokens"}
  /\ stop \in StopReasons \cup {"tool_use", "token_ceiling", "budget_exhausted"}
  /\ outcome \in {"none", "budget_limited", "converged", "no_conclusion"}

\* The notes write_note stored in this run.
ToolNotes == {i \in DOMAIN notes : notes[i].role \in {"finding", "accounting"}}

\* A note's citation can be retraced: every event it cites was returned, as a
\* row of its own, by a call that query_log holds at an earlier step.  This is
\* the audit trail tools.py and loop.py promise ("logged before the model sees
\* the result", cited ids "actually been shown").
EvidenceIsAudited ==
  \A i \in ToolNotes : \A e \in notes[i].eids :
    \E j \in DOMAIN log : log[j].step < notes[i].step /\ e \in log[j].ids

\* A note lines up with the one logged write_note call that stored it, and no
\* call stored two (the point of keeping one step counter in ToolBox).
NotesTraceToTheirCall ==
  /\ \A i \in ToolNotes :
       \E j \in DOMAIN log : /\ log[j].step = notes[i].step
                             /\ log[j].tool = "write_note" /\ log[j].ok
  /\ \A i, k \in ToolNotes : i # k => notes[i].step # notes[k].step

\* When a run ends on the model's own conclusion, within its budgets, every
\* acute signal template no note cites was named to the model first (_nudge).
EveryIgnoredSignalWasAsked ==
  (pc = "done" /\ limit = "none" /\ MaxNudges > 0 /\ ~(Budgeted /\ spent + 2 * last > LoopLimit))
    => \A t \in Signal \ Chronic : t \in nudged \/ \E i \in DOMAIN notes : t \in notes[i].tids

\* A run a budget stopped is never recorded as finished, and one that stopped
\* by itself is never recorded as limited (the module docstring's "bounded,
\* and says when the bound bit").
BudgetStopsAreSaid ==
  pc = "done" => ((outcome = "budget_limited") <=>
                  (toolCalls >= MaxToolCalls \/ stop \in {"token_ceiling", "budget_exhausted"}))

\* If no turn costs more than the one before it, the loop, its nudges and its
\* closing turn stay inside the loop's share, so the 15% reserve reaches the
\* stages after it; a run of at most two turns is the exception.
ReserveKept == (Budgeted /\ ~grew) => (spent <= LoopLimit \/ steps <= 2)

\* When no turn carries more than four tenths of the calls, a run that reaches
\* its tool-call cap with nothing written was reminded while it still had a turn
\* with tools to write one.
RemindedInTime ==
  (pc = "converge" /\ limit = "tool_calls" /\ notes = <<>>) =>
    \E i, j \in DOMAIN messages :
      i < j /\ messages[i].kind = "reminder" /\ messages[j].kind = "calls"

\* Every assistant message with tool calls is answered by the message after
\* it, and tool results only ever answer one: what providers require of a
\* replayed conversation.
CallsAnswered ==
  \A i \in DOMAIN messages :
    /\ messages[i].kind = "calls" =>
         \/ i = Len(messages) /\ pc = "dispatch"
         \/ i < Len(messages) /\ messages[i + 1].kind = "results"
    /\ messages[i].kind = "results" => i > 1 /\ messages[i - 1].kind = "calls"

\* Compaction elides exactly the bulky results older than the recent window,
\* never one inside it, and reports as many messages as it changed.
CompactionSound ==
  LET Later(i) == {j \in DOMAIN messages : j > i /\ messages[j].kind = "results"}
      Elided == {i \in DOMAIN messages : messages[i].elided}
  IN /\ \A i \in DOMAIN messages :
          messages[i].elided <=>
            /\ messages[i].kind = "results" /\ messages[i].bulky
            /\ HistorySteps > 0 /\ Cardinality(Later(i)) >= HistorySteps
     /\ compactions = Cardinality(Elided)

\* Every investigation ends, whatever the model answers.
Terminates == <>(pc \in {"done", "failed"})
=============================================================================
