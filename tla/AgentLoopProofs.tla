-------------------------- MODULE AgentLoopProofs --------------------------
(* What TLAPS proves about AgentLoop for every number of templates, events, *)
(* tool calls and tokens.                                                   *)
EXTENDS AgentLoop, FiniteSetTheorems, SequenceTheorems, TLAPS

-----------------------------------------------------------------------------
(* Lemmas about the operators the loop is built from.                       *)

\* A conversation line is a message.
LEMMA SayType == ASSUME NEW k \in Kinds PROVE Say(k) \in Message
  BY DEF Say, Message, Kinds

\* Compaction rewrites messages in place: the conversation keeps its length
\* and stays a conversation.
LEMMA CompactType ==
  ASSUME NEW ms \in Seq(Message)
  PROVE  Compact(ms) \in Seq(Message) /\ Len(Compact(ms)) = Len(ms)
<1>1. \A i \in 1..Len(ms) : ms[i] \in Message
  OBVIOUS
<1>2. \A i \in 1..Len(ms) : [ms[i] EXCEPT !.elided = TRUE] \in Message
  BY <1>1 DEF Message
<1>3. Compact(ms) = [i \in 1..Len(ms) |-> IF i \in Stale(ms) /\ ms[i].bulky
                                          THEN [ms[i] EXCEPT !.elided = TRUE] ELSE ms[i]]
  BY DEF Compact
<1>4. Compact(ms) \in [1..Len(ms) -> Message]
  BY <1>1, <1>2, <1>3
<1>5. Len(ms) \in Nat
  OBVIOUS
<1> QED BY <1>4, <1>5, SeqDef, LenProperties

\* The number of messages a compaction changes is a number.
LEMMA CompactedType ==
  ASSUME NEW ms \in Seq(Message) PROVE Compacted(ms) \in Nat
<1> DEFINE S == {i \in Stale(ms) : ms[i].bulky /\ ~ms[i].elided}
<1>1. S \subseteq 1..Len(ms)
  BY DEF Stale, Carrying
<1>2. IsFiniteSet(S)
  BY <1>1, FS_Interval, FS_Subset
<1> QED BY <1>2, FS_CardinalityType DEF Compacted

\* A nudge names templates, and none once its allowance is used.
LEMMA NudgeTargetsType ==
  /\ NudgeTargets \subseteq Templates
  /\ coverageNudges >= MaxNudges => NudgeTargets = {}
  BY LoopAssumption DEF NudgeTargets, Unexplained, UnopenedNamed, Unopened

\* The loop's share is a whole number of tokens.
LEMMA LoopLimitType == LoopLimit \in Nat
  BY LoopAssumption DEF LoopLimit

-----------------------------------------------------------------------------
(* Type correctness.                                                        *)

LEMMA InitType == Init => TypeOK
<1> SUFFICES ASSUME Init PROVE TypeOK
  OBVIOUS
<1>1. notes \in Seq(Note)
  <2> DEFINE Prior == [step : Nat, tids : SUBSET Templates,
                       eids : SUBSET Events, role : {"prior"}]
  <2>1. notes \in Seq(Prior)
    BY LoopAssumption DEF Init
  <2>2. Prior \subseteq Note
    BY DEF Note
  <2> HIDE DEF Prior
  <2> QED BY <2>1, <2>2, SeqMonotonic
<1>2. messages \in Seq(Message)
  BY SayType DEF Init, Kinds
<1>3. log \in Seq(LogRow)
  BY DEF Init
<1>4. coverageNudges \in 0..MaxNudges
  BY LoopAssumption DEF Init
<1>5. /\ pc = "converse" /\ spent \in Nat /\ last = 0 /\ grew = FALSE /\ steps = 0
      /\ toolCalls = 0 /\ batch = 0 /\ pending = 0 /\ bulky = FALSE /\ toolStep = 0
      /\ seen = {} /\ shown = {} /\ nudged = {} /\ compactions = 0
      /\ silentNudges = 0 /\ limit = "none" /\ stop = "end_turn" /\ outcome = "none"
  BY LoopAssumption DEF Init
<1>6. grew \in BOOLEAN /\ bulky \in BOOLEAN
  BY <1>5, Zenon
<1> QED BY <1>1, <1>2, <1>3, <1>4, <1>5, <1>6 DEF TypeOK, StopReasons

\* What a dispatch does to everything but the sets the toolbox keeps.
LEMMA LoggedType ==
  ASSUME TypeOK, NEW tool \in {"reader", "write_note"},
         NEW ok \in BOOLEAN, NEW ids \in SUBSET Events, Logged(tool, ok, ids),
         seen' \subseteq Events, shown' \subseteq Templates,
         bulky' \in BOOLEAN, notes' \in Seq(Note)
  PROVE  TypeOK'
<1>1. [step |-> toolStep + 1, tool |-> tool, ok |-> ok, ids |-> ids] \in LogRow
  BY DEF TypeOK, LogRow
<1>2. log' \in Seq(LogRow)
  BY <1>1, AppendProperties DEF Logged, TypeOK
<1>3. pending' \in 0..batch' /\ batch' \in Nat /\ toolStep' \in Nat
  BY DEF Logged, TypeOK
<1> QED BY <1>2, <1>3
        DEF Logged, TypeOK, budgetVars, talkVars, nudgeVars

LEMMA StepType == TypeOK /\ [Next]_vars => TypeOK'
<1> SUFFICES ASSUME TypeOK, [Next]_vars PROVE TypeOK'
  OBVIOUS
<1> USE DEF budgetVars, batchVars, toolVars, talkVars, nudgeVars
<1>1. CASE CeilingRefusesTurn
  BY <1>1 DEF CeilingRefusesTurn, TypeOK
<1>2. CASE ProviderFails
  BY <1>2 DEF ProviderFails, TypeOK
<1>3. ASSUME NEW c \in Costs, NEW n \in BatchSizes, ModelCallsTools(c, n) PROVE TypeOK'
  <2>1. messages' \in Seq(Message)
    BY <1>3, SayType, AppendProperties DEF ModelCallsTools, TypeOK, Kinds
  <2>2. batch' \in Nat /\ pending' \in 0..batch'
    BY <1>3, LoopAssumption DEF ModelCallsTools
  <2>3. spent' \in Nat /\ last' \in Nat /\ grew' \in BOOLEAN
    BY <1>3, LoopAssumption DEF ModelCallsTools, Charge, TypeOK
  <2>4. steps' \in Nat
    BY <1>3 DEF ModelCallsTools, TypeOK
  <2>6. bulky' \in BOOLEAN
    BY <1>3, Zenon DEF ModelCallsTools
  <2>5. /\ pc' = "dispatch" /\ stop' = "tool_use"
        /\ UNCHANGED <<toolCalls, toolStep, seen, shown, log, notes, compactions,
                       nudged, coverageNudges, silentNudges, limit, outcome>>
    BY <1>3 DEF ModelCallsTools
  <2> QED BY <2>1, <2>2, <2>3, <2>4, <2>6, <2>5 DEF TypeOK
<1>4. ASSUME NEW c \in Costs, NEW s \in Stops, AnswerSentBack(c, s) PROVE TypeOK'
  <2>1. messages' \in Seq(Message)
    BY <1>4, SayType DEF AnswerSentBack, TypeOK, Kinds
  <2>2. coverageNudges' \in 0..MaxNudges /\ nudged' \subseteq Templates
    BY <1>4, NudgeTargetsType, LoopAssumption DEF AnswerSentBack, TypeOK
  <2> QED BY <1>4, <2>1, <2>2, LoopAssumption DEF AnswerSentBack, Charge, TypeOK
<1>5. ASSUME NEW c \in Costs, NEW s \in Stops, AnswerStands(c, s) PROVE TypeOK'
  BY <1>5, LoopAssumption DEF AnswerStands, Charge, TypeOK
<1>6. CASE Dispatch
  <2>0. /\ TRUE \in BOOLEAN /\ {} \in SUBSET Events
        /\ "reader" \in {"reader", "write_note"} /\ "write_note" \in {"reader", "write_note"}
    OBVIOUS
  <2>1. \A b \in Bulk : (bulky \/ b) \in BOOLEAN
    OBVIOUS
  <2>2. \A S \in SUBSET Events : {TemplateOf[e] : e \in S} \subseteq Templates
    BY LoopAssumption
  <2>3. ASSUME NEW S \in SUBSET Events, NEW b \in Bulk, GetSlice(S, b) PROVE TypeOK'
    BY <2>1, <2>2, <2>3, LoggedType DEF GetSlice, TypeOK
  <2>4. ASSUME NEW S \in SUBSET Events, NEW real \in BOOLEAN, NEW w \in BOOLEAN,
               NEW b \in Bulk, RunSqlWithIds(S, real, w, b)
        PROVE TypeOK'
    <3>1. seen' \subseteq Events /\ shown' \subseteq Templates /\ notes' \in Seq(Note)
      BY <2>2, <2>4 DEF RunSqlWithIds, TypeOK
    <3>2. bulky' \in BOOLEAN
      BY <2>1, <2>4 DEF RunSqlWithIds
    <3>3. CASE real
      BY <2>4, <3>1, <3>2, <3>3, LoggedType DEF RunSqlWithIds
    <3>4. CASE ~real
      <4>1. Logged("reader", TRUE, {})
        BY <2>4, <3>4 DEF RunSqlWithIds
      <4> QED BY <3>1, <3>2, <4>1, <2>0, LoggedType, Zenon
    <3> QED BY <3>3, <3>4
  <2>5. ASSUME NEW b \in Bulk, ReadOther(b) PROVE TypeOK'
    <3>1. seen' \subseteq Events /\ shown' \subseteq Templates /\ notes' \in Seq(Note)
      BY <2>5 DEF ReadOther, TypeOK
    <3>2. bulky' \in BOOLEAN
      BY <2>1, <2>5 DEF ReadOther
    <3>3. Logged("reader", TRUE, {})
      BY <2>5 DEF ReadOther
    <3> QED BY <3>1, <3>2, <3>3, <2>0, LoggedType, Zenon
  <2>6. ASSUME NEW t \in SUBSET Templates, NEW e \in SUBSET Events, WriteNote(t, e)
        PROVE TypeOK'
    <3>1. [step |-> NoteStep, tids |-> t, eids |-> e, role |-> RoleOf(t)] \in Note
      BY DEF NoteStep, RoleOf, TypeOK, Note
    <3>2. notes' \in Seq(Note)
      BY <2>6, <3>1, AppendProperties DEF WriteNote, TypeOK
    <3>3. seen' \subseteq Events /\ shown' \subseteq Templates /\ bulky' \in BOOLEAN
      BY <2>6 DEF WriteNote, TypeOK
    <3>4. Logged("write_note", TRUE, {})
      BY <2>6 DEF WriteNote
    <3> QED BY <3>2, <3>3, <3>4, <2>0, LoggedType, Zenon
  <2>7. ASSUME NEW tool \in {"reader", "write_note"}, CallRefused(tool) PROVE TypeOK'
    BY <2>7, LoggedType DEF CallRefused, TypeOK
  <2> QED BY <1>6, <2>3, <2>4, <2>5, <2>6, <2>7 DEF Dispatch
<1>7. CASE ResultsReturned
  <2> DEFINE all == Append(messages, [kind |-> "results", bulky |-> bulky, elided |-> FALSE])
             calls == toolCalls + batch
             reminder == IF ReminderDue(calls) THEN <<Say("reminder")>> ELSE <<>>
             closing == IF LimitHit(calls) # "none" THEN <<Say("closing")>> ELSE <<>>
  <2>1. all \in Seq(Message)
    BY DEF TypeOK, Message, Kinds
  <2>2. reminder \in Seq(Message) /\ closing \in Seq(Message)
    BY SayType DEF Kinds
  <2>3. Len(reminder) = IF ReminderDue(calls) THEN 1 ELSE 0
    OBVIOUS
  <2>4. messages' = Compact(all) \o reminder \o closing
    BY <1>7 DEF ResultsReturned
  <2>5. messages' \in Seq(Message)
    <3>1. Compact(all) \in Seq(Message)
      BY <2>1, CompactType
    <3> HIDE DEF all, reminder, closing
    <3> QED BY <2>2, <2>4, <3>1, ConcatProperties
  <2>6. silentNudges' \in 0..1
    <3>1. silentNudges' = silentNudges + Len(reminder)
      BY <1>7 DEF ResultsReturned
    <3>2. ReminderDue(calls) => silentNudges = 0
      BY DEF ReminderDue
    <3> HIDE DEF reminder
    <3> QED BY <2>3, <3>1, <3>2 DEF TypeOK
  <2>7. compactions' \in Nat
    <3>1. compactions' = compactions + Compacted(all)
      BY <1>7 DEF ResultsReturned
    <3>2. Compacted(all) \in Nat
      BY <2>1, CompactedType
    <3> HIDE DEF all
    <3> QED BY <3>1, <3>2 DEF TypeOK
  <2> HIDE DEF all, reminder, closing
  <2> QED BY <1>7, <2>5, <2>6, <2>7 DEF ResultsReturned, LimitHit, TypeOK
<1>8. ASSUME NEW c \in Costs, NEW text \in BOOLEAN, ClosingTurn(c, text) PROVE TypeOK'
  <2>1. notes' \in Seq(Note)
    <3>1. [step |-> steps + 1, tids |-> {}, eids |-> {}, role |-> "closing"] \in Note
      BY DEF TypeOK, Note
    <3> QED BY <1>8, <3>1, AppendProperties DEF ClosingTurn, TypeOK
  <2> QED BY <1>8, <2>1, LoopAssumption DEF ClosingTurn, Charge, TypeOK
<1>9. CASE ClosingTurnRefused
  BY <1>9 DEF ClosingTurnRefused, TypeOK
<1>10. CASE Record
  BY <1>10 DEF Record, Outcome, TypeOK
<1>11. CASE Finished \/ UNCHANGED vars
  BY <1>11 DEF Finished, vars, TypeOK
<1> QED BY <1>1, <1>2, <1>3, <1>4, <1>5, <1>6, <1>7, <1>8, <1>9, <1>10, <1>11
        DEF Next, LoopStep

\* Every variable of the loop, the toolbox and the budget keeps its type in
\* every reachable state.
THEOREM TypeCorrect == Spec => []TypeOK
<1>1. Init => TypeOK
  BY InitType
<1>2. TypeOK /\ [Next]_vars => TypeOK'
  BY StepType
<1> QED BY <1>1, <1>2, PTL DEF Spec

-----------------------------------------------------------------------------
(* The token budget.                                                        *)

\* What the loop's share still has room for, as long as no turn has cost more
\* than the one before it: two more turns between turns (the test
\* TokenBudget.loop_should_stop makes), one more while tools are dispatched or
\* the closing turn is due, none at the end.
ReserveInv ==
  (Budgeted /\ ~grew) =>
    /\ pc = "converse" /\ steps > 0 => spent + 2 * last <= LoopLimit
    /\ pc \in {"dispatch", "converge"} => steps = 1 \/ spent + last <= LoopLimit
    /\ ReserveKept

\* The arithmetic of one turn: it costs no more than the last one did.
LEMMA TurnFitsTheRoom ==
  ASSUME TypeOK, ReserveInv, NEW c \in Costs, Charge(c), Budgeted, ~grew',
         pc \in {"converse", "converge"}
  PROVE  /\ ~grew
         /\ pc = "converse" /\ steps > 0 => spent' + last' <= LoopLimit
         /\ pc = "converge" /\ steps > 1 => spent' <= LoopLimit
<1>1. ~grew /\ (steps > 0 => c <= last)
  <2>1. ~grew /\ (steps > 0 => ~(c > last))
    BY Zenon DEF Charge
  <2>2. c \in Nat /\ last \in Nat
    BY LoopAssumption DEF TypeOK
  <2> QED BY <2>1, <2>2
<1>2. spent' = spent + c /\ last' = c
  BY DEF Charge
<1> QED BY <1>1, <1>2, LoopLimitType, LoopAssumption DEF ReserveInv, TypeOK

LEMMA ReserveStep == TypeOK /\ ReserveInv /\ [Next]_vars => ReserveInv'
<1> SUFFICES ASSUME TypeOK, ReserveInv, [Next]_vars, Budgeted, ~grew'
             PROVE  /\ pc' = "converse" /\ steps' > 0 => spent' + 2 * last' <= LoopLimit
                    /\ pc' \in {"dispatch", "converge"} =>
                         steps' = 1 \/ spent' + last' <= LoopLimit
                    /\ spent' <= LoopLimit \/ steps' <= 2
  BY DEF ReserveInv, ReserveKept, LoopLimit
<1> USE LoopLimitType DEF budgetVars, batchVars, toolVars, talkVars, nudgeVars
<1>1. CASE UNCHANGED <<pc, spent, last, grew, steps>>
  BY <1>1 DEF ReserveInv, ReserveKept
<1>2. CASE UNCHANGED <<spent, last, grew, steps>> /\ pc' \in {"record", "done", "failed"}
  BY <1>2 DEF ReserveInv, ReserveKept
<1>3. ASSUME NEW c \in Costs, NEW n \in BatchSizes, ModelCallsTools(c, n)
      PROVE  /\ pc' = "dispatch" /\ (steps' = 1 \/ spent' + last' <= LoopLimit)
             /\ spent' <= LoopLimit \/ steps' <= 2
  <2>1. pc = "converse" /\ pc' = "dispatch" /\ steps' = steps + 1 /\ Charge(c)
    BY <1>3 DEF ModelCallsTools
  <2>2. steps > 0 => spent' + last' <= LoopLimit
    BY <2>1, TurnFitsTheRoom
  <2> QED BY <2>1, <2>2, LoopAssumption DEF Charge, TypeOK
<1>4. ASSUME NEW c \in Costs, NEW s \in Stops, AnswerSentBack(c, s)
      PROVE  /\ pc' = "converse" /\ spent' + 2 * last' <= LoopLimit
             /\ spent' <= LoopLimit \/ steps' <= 2
  BY <1>4, LoopAssumption DEF AnswerSentBack, Charge, LoopShouldStop, TypeOK
<1>5. ASSUME NEW c \in Costs, NEW s \in Stops, AnswerStands(c, s)
      PROVE  pc' = "record" /\ (spent' <= LoopLimit \/ steps' <= 2)
  <2>1. pc = "converse" /\ pc' = "record" /\ steps' = steps + 1 /\ Charge(c)
    BY <1>5 DEF AnswerStands
  <2>2. steps > 0 => spent' + last' <= LoopLimit
    BY <2>1, TurnFitsTheRoom
  <2> QED BY <2>1, <2>2, LoopAssumption DEF Charge, TypeOK
<1>6. CASE ResultsReturned
  <2>1. UNCHANGED <<spent, last, grew, steps>> /\ pc = "dispatch"
    BY <1>6 DEF ResultsReturned
  <2>2. pc' = "converse" => ~LoopShouldStop(spent, last)
    BY <1>6 DEF ResultsReturned, LimitHit
  <2>3. pc' = "converse" => spent + 2 * last <= LoopLimit
    BY <2>2 DEF LoopShouldStop, TypeOK
  <2> QED BY <2>1, <2>3 DEF ReserveInv, ReserveKept, TypeOK
<1>7. ASSUME NEW c \in Costs, NEW text \in BOOLEAN, ClosingTurn(c, text)
      PROVE  pc' = "record" /\ (spent' <= LoopLimit \/ steps' <= 2)
  <2>1. pc = "converge" /\ pc' = "record" /\ steps' = steps + 1 /\ Charge(c)
    BY <1>7 DEF ClosingTurn
  <2>2. steps > 1 => spent' <= LoopLimit
    BY <2>1, TurnFitsTheRoom
  <2> QED BY <2>1, <2>2 DEF TypeOK
<1> QED
  BY <1>1, <1>2, <1>3, <1>4, <1>5, <1>6, <1>7
  DEF Next, LoopStep, Finished, vars, Dispatch, GetSlice, RunSqlWithIds, ReadOther,
      WriteNote, CallRefused, Logged, CeilingRefusesTurn, ProviderFails,
      ClosingTurnRefused, Record

\* With turns that do not grow, a loop of more than two turns leaves the stages
\* after it the 15% reserve, nudges and closing turn included.
THEOREM ReserveIsKept == Spec => []ReserveKept
<1>1. Init => ReserveInv
  BY LoopLimitType DEF Init, ReserveInv, ReserveKept
<1>2. ReserveInv => ReserveKept
  BY LoopLimitType DEF ReserveInv, ReserveKept
<1> QED BY <1>1, <1>2, ReserveStep, TypeCorrect, PTL DEF Spec

\* A loop that starts on an unspent budget is never refused the turn it asks
\* for next: whenever it comes to converse it is still inside its share, which
\* is less than the ceiling.  Of the two refusals run() handles only that of
\* the closing turn can happen to it (the comment on the other one expects it
\* of a step that "cost far more than the one before it").
THEOREM FreshLoopIsNotRefused ==
  ASSUME InitialSpent = {0}
  PROVE  Spec => [](pc = "converse" => ~Exhausted)
<1> DEFINE Room == pc = "converse" /\ Budgeted => spent <= LoopLimit
<1>1. Init => Room
  BY LoopLimitType DEF Init
<1>2. TypeOK /\ Room => (pc = "converse" => ~Exhausted)
  <2>1. LoopLimit < Ceiling
    BY LoopAssumption DEF LoopLimit
  <2> QED BY <2>1, LoopLimitType, LoopAssumption DEF Exhausted, TypeOK
<1>3. TypeOK /\ Room /\ [Next]_vars => Room'
  <2> SUFFICES ASSUME TypeOK, Room, [Next]_vars, pc' = "converse", Budgeted
               PROVE  spent' <= LoopLimit'
    OBVIOUS
  <2>1. LoopLimit' = LoopLimit
    BY DEF LoopLimit
  <2>2. CASE pc = "converse" /\ UNCHANGED spent
    BY <2>1, <2>2
  <2>3. ASSUME NEW c \in Costs, NEW s \in Stops, AnswerSentBack(c, s)
        PROVE  spent' <= LoopLimit
    BY <2>3, LoopAssumption, LoopLimitType DEF AnswerSentBack, Charge, LoopShouldStop, TypeOK
  <2>4. CASE ResultsReturned
    <3>1. spent' = spent /\ ~LoopShouldStop(spent, last)
      BY <2>4 DEF ResultsReturned, LimitHit, budgetVars
    <3>2. spent + 2 * last <= LoopLimit
      BY <3>1, LoopLimitType DEF LoopShouldStop, TypeOK
    <3> QED BY <2>1, <3>1, <3>2, LoopLimitType DEF TypeOK
  <2> QED
    BY <2>1, <2>2, <2>3, <2>4
    DEF Next, LoopStep, Finished, vars, budgetVars, Dispatch, CeilingRefusesTurn,
        ProviderFails, ModelCallsTools, AnswerStands, GetSlice, RunSqlWithIds,
        ReadOther, WriteNote, CallRefused, Logged, ClosingTurn, ClosingTurnRefused, Record
<1> QED BY <1>1, <1>2, <1>3, TypeCorrect, PTL DEF Spec

-----------------------------------------------------------------------------
(* The audit trail.                                                         *)

\* Everything the toolbox counts as read came from a call already logged, and
\* no logged step lies ahead of the step counter.
AuditInv ==
  /\ \A j \in DOMAIN log : log[j].step <= toolStep
  /\ \A e \in seen : \E j \in DOMAIN log : e \in log[j].ids
  /\ EvidenceIsAudited

\* A call adds a row after those there were, at the step it has taken.
LEMMA LoggedExtends ==
  ASSUME TypeOK, NEW tool \in {"reader", "write_note"},
         NEW ok, NEW ids, Logged(tool, ok, ids)
  PROVE  /\ DOMAIN log' = 1..(Len(log) + 1) /\ DOMAIN log = 1..Len(log)
         /\ Len(log) \in Nat
         /\ \A j \in 1..Len(log) : log'[j] = log[j]
         /\ log'[Len(log) + 1].step = toolStep + 1
         /\ log'[Len(log) + 1].ids = ids
         /\ toolStep' = toolStep + 1
         /\ \A j \in 1..Len(log) : log[j].step \in Nat
<1>1. \A j \in 1..Len(log) : log[j] \in LogRow
  BY DEF TypeOK
<1>2. \A j \in 1..Len(log) : log[j].step \in Nat
  BY <1>1 DEF LogRow
<1> QED BY <1>2 DEF Logged, TypeOK

\* A call that returns rows and stores no note keeps the audit trail: what it
\* adds to the seen set is in the row it logs.
LEMMA ReaderKeepsAudit ==
  ASSUME TypeOK, AuditInv, NEW tool \in {"reader", "write_note"},
         NEW ok, NEW ids, Logged(tool, ok, ids),
         seen' \subseteq seen \cup ids, UNCHANGED notes
  PROVE  AuditInv'
<1>0. /\ DOMAIN log' = 1..(Len(log) + 1) /\ DOMAIN log = 1..Len(log)
      /\ Len(log) \in Nat
      /\ \A j \in 1..Len(log) : log'[j] = log[j] /\ log[j].step \in Nat
      /\ log'[Len(log) + 1].step = toolStep + 1
      /\ log'[Len(log) + 1].ids = ids
      /\ toolStep' = toolStep + 1
  BY LoggedExtends, Zenon
<1> USE <1>0
<1>1. \A j \in DOMAIN log' : log'[j].step <= toolStep'
  BY DEF AuditInv, TypeOK
<1>2. \A e \in seen' : \E j \in DOMAIN log' : e \in log'[j].ids
  <2> TAKE e \in seen'
  <2>1. CASE e \in ids
    <3> WITNESS Len(log) + 1 \in DOMAIN log'
    <3> QED BY <2>1
  <2>2. CASE e \in seen
    <3>1. PICK j \in DOMAIN log : e \in log[j].ids
      BY <2>2 DEF AuditInv
    <3> WITNESS j \in DOMAIN log'
    <3> QED BY <3>1
  <2> QED BY <2>1, <2>2
<1>3. EvidenceIsAudited'
  <2> SUFFICES ASSUME NEW i \in ToolNotes, NEW e \in notes[i].eids
               PROVE  \E j \in DOMAIN log' : log'[j].step < notes[i].step /\ e \in log'[j].ids
    BY DEF EvidenceIsAudited, ToolNotes
  <2>1. PICK j \in DOMAIN log : log[j].step < notes[i].step /\ e \in log[j].ids
    BY DEF AuditInv, EvidenceIsAudited
  <2> WITNESS j \in DOMAIN log'
  <2> QED BY <2>1
<1> QED BY <1>1, <1>2, <1>3 DEF AuditInv

\* A note accepted now cites only ids of rows logged before its own step.
LEMMA NoteKeepsAudit ==
  ASSUME TypeOK, AuditInv, NEW t \in SUBSET Templates, NEW e \in SUBSET Events,
         WriteNote(t, e)
  PROVE  AuditInv'
<1>0. /\ DOMAIN log' = 1..(Len(log) + 1) /\ DOMAIN log = 1..Len(log)
      /\ Len(log) \in Nat
      /\ \A j \in 1..Len(log) : log'[j] = log[j] /\ log[j].step \in Nat
      /\ log'[Len(log) + 1].step = toolStep + 1
      /\ toolStep' = toolStep + 1
  <2>1. Logged("write_note", TRUE, {})
    BY DEF WriteNote
  <2>2. "write_note" \in {"reader", "write_note"}
    OBVIOUS
  <2> QED BY <2>1, <2>2, LoggedExtends, Zenon
<1> USE <1>0
<1>1. \A j \in DOMAIN log' : log'[j].step <= toolStep'
  BY DEF AuditInv, TypeOK
<1>2. \A d \in seen : \E j \in DOMAIN log' : d \in log'[j].ids /\ log'[j].step <= toolStep
  <2> TAKE d \in seen
  <2>1. PICK j \in DOMAIN log : d \in log[j].ids
    BY DEF AuditInv
  <2> WITNESS j \in DOMAIN log'
  <2> QED BY <2>1 DEF AuditInv
<1>3. EvidenceIsAudited'
  <2> SUFFICES ASSUME NEW i \in ToolNotes', NEW d \in notes'[i].eids
               PROVE  \E j \in DOMAIN log' : log'[j].step < notes'[i].step /\ d \in log'[j].ids
    BY DEF EvidenceIsAudited, ToolNotes
  <2>1. /\ DOMAIN notes' = 1..(Len(notes) + 1) /\ DOMAIN notes = 1..Len(notes)
        /\ \A k \in 1..Len(notes) : notes'[k] = notes[k]
        /\ notes'[Len(notes) + 1].eids = e
        /\ notes'[Len(notes) + 1].step = toolStep + 1
    BY DEF WriteNote, NoteStep, TypeOK
  <2>2. CASE i = Len(notes) + 1
    <3>1. PICK j \in DOMAIN log' : d \in log'[j].ids /\ log'[j].step <= toolStep
      BY <1>2, <2>1, <2>2 DEF WriteNote, Accepted
    <3>2. log'[j].step \in Nat
      BY DEF TypeOK
    <3> QED BY <2>1, <2>2, <3>1, <3>2 DEF TypeOK
  <2>3. CASE i # Len(notes) + 1
    <3>1. i \in ToolNotes /\ notes'[i] = notes[i]
      BY <2>1, <2>3 DEF ToolNotes, TypeOK
    <3>2. PICK j \in DOMAIN log : log[j].step < notes[i].step /\ d \in log[j].ids
      BY <3>1 DEF AuditInv, EvidenceIsAudited
    <3> QED BY <3>1, <3>2
  <2> QED BY <2>2, <2>3
<1> QED BY <1>1, <1>2, <1>3 DEF AuditInv, WriteNote

LEMMA AuditStep == SqlAliases = FALSE /\ TypeOK /\ AuditInv /\ [Next]_vars => AuditInv'
<1> SUFFICES ASSUME SqlAliases = FALSE, TypeOK, AuditInv, [Next]_vars PROVE AuditInv'
  OBVIOUS
<1>0. /\ TRUE \in BOOLEAN /\ FALSE \in BOOLEAN
      /\ "reader" \in {"reader", "write_note"}
  OBVIOUS
<1>1. CASE UNCHANGED <<toolStep, seen, log, notes>>
  BY <1>1 DEF AuditInv, EvidenceIsAudited, ToolNotes
<1>2. ASSUME NEW S \in SUBSET Events, NEW b \in Bulk, GetSlice(S, b) PROVE AuditInv'
  BY <1>0, <1>2, ReaderKeepsAudit DEF GetSlice
<1>3. ASSUME NEW S \in SUBSET Events, NEW real \in BOOLEAN, NEW w \in BOOLEAN,
             NEW b \in Bulk, RunSqlWithIds(S, real, w, b)
      PROVE AuditInv'
  <2>1. Logged("reader", TRUE, S) /\ seen' \subseteq seen \cup S /\ UNCHANGED notes
    BY <1>3 DEF RunSqlWithIds
  <2> QED BY <1>0, <2>1, ReaderKeepsAudit
<1>4. ASSUME NEW b \in Bulk, ReadOther(b) PROVE AuditInv'
  <2>1. Logged("reader", TRUE, {}) /\ seen' \subseteq seen \cup {} /\ UNCHANGED notes
    BY <1>4 DEF ReadOther
  <2> QED BY <1>0, <2>1, ReaderKeepsAudit, Zenon
<1>5. ASSUME NEW tool \in {"reader", "write_note"}, CallRefused(tool) PROVE AuditInv'
  <2>1. Logged(tool, FALSE, {}) /\ seen' \subseteq seen \cup {} /\ UNCHANGED notes
    BY <1>5 DEF CallRefused
  <2> QED BY <2>1, ReaderKeepsAudit, Zenon
<1>6. ASSUME NEW t \in SUBSET Templates, NEW e \in SUBSET Events, WriteNote(t, e)
      PROVE AuditInv'
  BY <1>6, NoteKeepsAudit
<1>7. ASSUME NEW c \in Costs, NEW text \in BOOLEAN, ClosingTurn(c, text) PROVE AuditInv'
  <2>1. UNCHANGED <<toolStep, seen, log>>
    BY <1>7 DEF ClosingTurn, toolVars
  <2>2. \A i \in ToolNotes' : i \in ToolNotes /\ notes'[i] = notes[i]
    BY <1>7 DEF ClosingTurn, ToolNotes, TypeOK
  <2> QED BY <2>1, <2>2 DEF AuditInv, EvidenceIsAudited
<1> QED
  BY <1>1, <1>2, <1>3, <1>4, <1>5, <1>6, <1>7
  DEF Next, LoopStep, Finished, vars, toolVars, Dispatch, ResultsReturned,
      CeilingRefusesTurn, ProviderFails, ModelCallsTools, AnswerSentBack,
      AnswerStands, ClosingTurnRefused, Record

\* The notes of a run that a resume finds are marked as such.
LEMMA NoToolNotesAtStart == Init => ToolNotes = {}
<1> SUFFICES ASSUME Init PROVE ToolNotes = {}
  OBVIOUS
<1> DEFINE Prior == [step : Nat, tids : SUBSET Templates,
                     eids : SUBSET Events, role : {"prior"}]
<1>1. notes \in Seq(Prior)
  BY LoopAssumption DEF Init
<1>2. \A n \in Prior : n.role = "prior"
  OBVIOUS
<1> HIDE DEF Prior
<1>3. \A i \in DOMAIN notes : notes[i].role = "prior"
  BY <1>1, <1>2
<1> QED BY <1>3 DEF ToolNotes

\* When run_sql's "id" columns hold event ids, as the toolbox takes them to,
\* every event a note of this run cites was returned by a call logged before it.
THEOREM CitationsAreAudited ==
  ASSUME SqlAliases = FALSE PROVE Spec => []EvidenceIsAudited
<1>1. Init => AuditInv
  <2> SUFFICES ASSUME Init PROVE AuditInv
    OBVIOUS
  <2> QED BY NoToolNotesAtStart DEF Init, AuditInv, EvidenceIsAudited
<1>2. AuditInv => EvidenceIsAudited
  BY DEF AuditInv
<1>3. TypeOK /\ AuditInv /\ [Next]_vars => AuditInv'
  BY AuditStep
<1> QED BY <1>1, <1>2, <1>3, TypeCorrect, PTL DEF Spec

-----------------------------------------------------------------------------
(* How a run ends, and what it was asked first.                             *)

\* While the loop searches no budget has stopped it; once one has, either the
\* calls are used up or the closing or refused turn says so.
LimitInv ==
  /\ pc \in {"converse", "dispatch"} =>
       /\ limit = "none" /\ toolCalls < MaxToolCalls
       /\ stop \notin {"token_ceiling", "budget_exhausted"}
  /\ pc = "converge" => limit # "none"
  /\ pc \in {"record", "done"} =>
       (limit # "none" <=>
          (toolCalls >= MaxToolCalls \/ stop \in {"token_ceiling", "budget_exhausted"}))
  /\ BudgetStopsAreSaid
  /\ pc = "done" => (outcome = "budget_limited" <=> limit # "none")

LEMMA LimitStep == TypeOK /\ LimitInv /\ [Next]_vars => LimitInv'
<1> SUFFICES ASSUME TypeOK, LimitInv, [Next]_vars PROVE LimitInv'
  OBVIOUS
<1> USE DEF budgetVars, batchVars, toolVars, talkVars, nudgeVars
<1>1. CASE UNCHANGED <<pc, toolCalls, limit, stop, outcome>>
  BY <1>1 DEF LimitInv, BudgetStopsAreSaid
<1>2. CASE CeilingRefusesTurn
  BY <1>2 DEF CeilingRefusesTurn, LimitInv, BudgetStopsAreSaid
<1>3. CASE ProviderFails
  BY <1>3 DEF ProviderFails, LimitInv, BudgetStopsAreSaid
<1>4. ASSUME NEW c \in Costs, NEW n \in BatchSizes, ModelCallsTools(c, n) PROVE LimitInv'
  BY <1>4 DEF ModelCallsTools, LimitInv, BudgetStopsAreSaid
<1>5. ASSUME NEW c \in Costs, NEW s \in Stops, AnswerSentBack(c, s) PROVE LimitInv'
  BY <1>5, LoopAssumption DEF AnswerSentBack, LimitInv, BudgetStopsAreSaid, StopReasons
<1>6. ASSUME NEW c \in Costs, NEW s \in Stops, AnswerStands(c, s) PROVE LimitInv'
  BY <1>6, LoopAssumption DEF AnswerStands, LimitInv, BudgetStopsAreSaid, StopReasons, TypeOK
<1>7. CASE ResultsReturned
  <2>1. /\ pc = "dispatch" /\ toolCalls' = toolCalls + batch
        /\ limit' = LimitHit(toolCalls')
        /\ pc' = IF limit' = "none" THEN "converse" ELSE "converge"
        /\ UNCHANGED <<stop, outcome>>
    BY <1>7 DEF ResultsReturned
  <2>2. limit' = "none" => toolCalls' < MaxToolCalls
    BY <2>1, LoopAssumption DEF LimitHit, TypeOK
  <2> QED BY <2>1, <2>2 DEF LimitInv, BudgetStopsAreSaid
<1>8. ASSUME NEW c \in Costs, NEW text \in BOOLEAN, ClosingTurn(c, text) PROVE LimitInv'
  BY <1>8 DEF ClosingTurn, LimitInv, BudgetStopsAreSaid
<1>9. CASE ClosingTurnRefused
  BY <1>9 DEF ClosingTurnRefused, LimitInv, BudgetStopsAreSaid
<1>10. CASE Record
  BY <1>10 DEF Record, Outcome, LimitInv, BudgetStopsAreSaid
<1> QED
  BY <1>1, <1>2, <1>3, <1>4, <1>5, <1>6, <1>7, <1>8, <1>9, <1>10
  DEF Next, LoopStep, Finished, vars, Dispatch, GetSlice, RunSqlWithIds, ReadOther,
      WriteNote, CallRefused, Logged

\* A run is recorded as budget_limited exactly when a budget stopped it.
THEOREM BudgetStopsSaid == Spec => []BudgetStopsAreSaid
<1>1. Init => LimitInv
  BY LoopAssumption DEF Init, LimitInv, BudgetStopsAreSaid
<1>2. LimitInv => BudgetStopsAreSaid
  BY DEF LimitInv
<1> QED BY <1>1, <1>2, LimitStep, TypeCorrect, PTL DEF Spec

\* Every acute signal template has been named to the model or cited.
AcuteAccounted ==
  \A t \in Signal \ Chronic : t \in nudged \/ \E i \in DOMAIN notes : t \in notes[i].tids

\* One nudge is enough for that to hold from then on, whatever the scratchpad
\* gains later; without one, an answer within the share stands only if it does.
AskedInv ==
  /\ coverageNudges > 0 => AcuteAccounted
  /\ pc = "converge" => limit # "none"
  /\ ((pc \in {"record", "done"} /\ limit = "none" /\ MaxNudges > 0
       /\ ~(Budgeted /\ spent + 2 * last > LoopLimit)) => AcuteAccounted)

\* Templates named stay named, notes stay written.
LEMMA AccountedIsStable ==
  ASSUME AcuteAccounted, nudged \subseteq nudged',
         \A i \in DOMAIN notes : i \in DOMAIN notes' /\ notes'[i] = notes[i]
  PROVE  AcuteAccounted'
<1> SUFFICES ASSUME NEW t \in Signal \ Chronic
             PROVE  t \in nudged' \/ \E i \in DOMAIN notes' : t \in notes'[i].tids
  BY DEF AcuteAccounted
<1>1. CASE t \in nudged
  BY <1>1
<1>2. ASSUME NEW i \in DOMAIN notes, t \in notes[i].tids
      PROVE  \E k \in DOMAIN notes' : t \in notes'[k].tids
  BY <1>2
<1> QED BY <1>1, <1>2 DEF AcuteAccounted

\* Nothing left to name, with allowance left, means every acute template is
\* cited; naming what is left accounts for the rest.
LEMMA NothingLeftUnexplained ==
  ASSUME NEW N, Unexplained \subseteq N
  PROVE  \A t \in Signal \ Chronic : t \in N \/ \E i \in DOMAIN notes : t \in notes[i].tids
<1> SUFFICES ASSUME NEW t \in Signal \ Chronic, t \notin N
             PROVE  \E i \in DOMAIN notes : t \in notes[i].tids
  OBVIOUS
<1>1. t \in Cited
  BY DEF Unexplained
<1> QED BY <1>1 DEF Cited

LEMMA AppendKeepsNotes ==
  ASSUME TypeOK, NEW n, notes' = Append(notes, n)
  PROVE  \A i \in DOMAIN notes : i \in DOMAIN notes' /\ notes'[i] = notes[i]
  BY DEF TypeOK

LEMMA AskedStep == TypeOK /\ AskedInv /\ [Next]_vars => AskedInv'
<1> SUFFICES ASSUME TypeOK, AskedInv, [Next]_vars PROVE AskedInv'
  OBVIOUS
<1> USE DEF budgetVars, batchVars, toolVars, talkVars, nudgeVars
<1>1. CASE UNCHANGED <<pc, spent, last, notes, nudged, coverageNudges, limit>>
  BY <1>1 DEF AskedInv, AcuteAccounted
<1>2. CASE /\ UNCHANGED <<notes, nudged, coverageNudges>>
           /\ pc' \in {"record", "failed"} /\ (pc' = "record" => limit' # "none")
  BY <1>2 DEF AskedInv, AcuteAccounted
<1>3. ASSUME NEW c \in Costs, NEW n \in BatchSizes, ModelCallsTools(c, n) PROVE AskedInv'
  BY <1>3 DEF ModelCallsTools, AskedInv, AcuteAccounted
<1>4. ASSUME NEW c \in Costs, NEW s \in Stops, AnswerSentBack(c, s) PROVE AskedInv'
  <2>1. Unexplained \subseteq nudged'
    BY <1>4 DEF AnswerSentBack, NudgeTargets
  <2>2. UNCHANGED notes /\ pc' = "converse"
    BY <1>4 DEF AnswerSentBack
  <2>3. AcuteAccounted'
    BY <2>1, <2>2, NothingLeftUnexplained DEF AcuteAccounted
  <2> QED BY <2>2, <2>3 DEF AskedInv
<1>5. ASSUME NEW c \in Costs, NEW s \in Stops, AnswerStands(c, s) PROVE AskedInv'
  <2>1. /\ UNCHANGED <<notes, nudged, coverageNudges, limit>> /\ pc' = "record"
        /\ LoopShouldStop(spent', last') \/ NudgeTargets = {}
    BY <1>5 DEF AnswerStands, Charge
  <2>2. AcuteAccounted' <=> AcuteAccounted
    BY <2>1 DEF AcuteAccounted
  <2>3. CASE LoopShouldStop(spent', last')
    BY <2>1, <2>2, <2>3 DEF AskedInv, LoopShouldStop
  <2>4. CASE NudgeTargets = {} /\ coverageNudges >= MaxNudges
    <3>1. MaxNudges > 0 => coverageNudges > 0
      BY <2>4, LoopAssumption DEF TypeOK
    <3> QED BY <2>1, <2>2, <3>1 DEF AskedInv
  <2>5. CASE NudgeTargets = {} /\ ~(coverageNudges >= MaxNudges)
    <3>1. Unexplained \subseteq nudged
      BY <2>5 DEF NudgeTargets
    <3>2. AcuteAccounted
      BY <3>1, NothingLeftUnexplained DEF AcuteAccounted
    <3> QED BY <2>1, <2>2, <3>2 DEF AskedInv
  <2> QED BY <2>1, <2>3, <2>4, <2>5
<1>6. ASSUME NEW t \in SUBSET Templates, NEW e \in SUBSET Events, WriteNote(t, e)
      PROVE AskedInv'
  <2>1. \A i \in DOMAIN notes : i \in DOMAIN notes' /\ notes'[i] = notes[i]
    BY <1>6, AppendKeepsNotes DEF WriteNote
  <2>2. UNCHANGED <<nudged, coverageNudges>> /\ pc' = "dispatch"
    BY <1>6 DEF WriteNote, Logged
  <2>3. AcuteAccounted => AcuteAccounted'
    BY <2>1, <2>2, AccountedIsStable
  <2> QED BY <2>2, <2>3 DEF AskedInv
<1>7. CASE ResultsReturned
  <2>1. /\ UNCHANGED <<notes, nudged, coverageNudges>>
        /\ pc' \in {"converse", "converge"} /\ (pc' = "converge" => limit' # "none")
    BY <1>7 DEF ResultsReturned
  <2> QED BY <2>1 DEF AskedInv, AcuteAccounted
<1>8. ASSUME NEW c \in Costs, NEW text \in BOOLEAN, ClosingTurn(c, text) PROVE AskedInv'
  <2>1. \A i \in DOMAIN notes : i \in DOMAIN notes' /\ notes'[i] = notes[i]
    BY <1>8, AppendKeepsNotes DEF ClosingTurn
  <2>2. UNCHANGED <<nudged, coverageNudges, limit>> /\ pc = "converge" /\ pc' = "record"
    BY <1>8 DEF ClosingTurn
  <2>3. AcuteAccounted => AcuteAccounted'
    BY <2>1, <2>2, AccountedIsStable
  <2> QED BY <2>2, <2>3 DEF AskedInv
<1>9. CASE Record
  BY <1>9 DEF Record, AskedInv, AcuteAccounted
<1> QED
  BY <1>1, <1>2, <1>3, <1>4, <1>5, <1>6, <1>7, <1>8, <1>9
  DEF Next, LoopStep, Finished, vars, Dispatch, GetSlice, RunSqlWithIds, ReadOther,
      CallRefused, Logged, CeilingRefusesTurn, ProviderFails, ClosingTurnRefused, AskedInv

\* A run that ends on the model's own answer, with room left in its budget to
\* ask, has named every acute signal template the notes do not cite.
THEOREM IgnoredSignalWasAsked == Spec => []EveryIgnoredSignalWasAsked
<1>1. Init => AskedInv
  BY DEF Init, AskedInv
<1>2. AskedInv => EveryIgnoredSignalWasAsked
  BY DEF AskedInv, EveryIgnoredSignalWasAsked, AcuteAccounted
<1> QED BY <1>1, <1>2, AskedStep, TypeCorrect, PTL DEF Spec

-----------------------------------------------------------------------------
(* One step counter for the notes and the query log.                        *)

\* Row j of the log is of call j, and the notes of this run have steps that
\* were taken, each by an accepted write_note of its own.
StepInv ==
  /\ Len(log) = toolStep
  /\ \A j \in DOMAIN log : log[j].step = j
  /\ \A i \in ToolNotes : notes[i].step \in 1..toolStep
  /\ NotesTraceToTheirCall

\* A call that stores no note moves the counter and leaves the notes.
LEMMA CallKeepsSteps ==
  ASSUME TypeOK, StepInv, NEW tool \in {"reader", "write_note"},
         NEW ok, NEW ids, Logged(tool, ok, ids), UNCHANGED notes
  PROVE  StepInv'
<1>1. /\ DOMAIN log' = 1..(Len(log) + 1) /\ DOMAIN log = 1..Len(log)
      /\ Len(log) \in Nat
      /\ \A j \in 1..Len(log) : log'[j] = log[j]
      /\ log'[Len(log) + 1].step = toolStep + 1
      /\ toolStep' = toolStep + 1
  BY LoggedExtends, Zenon
<1>2. Len(log') = Len(log) + 1
  BY DEF Logged, TypeOK
<1>3. ToolNotes' = ToolNotes
  BY DEF ToolNotes
<1>4. \A j \in DOMAIN log' : log'[j].step = j
  BY <1>1 DEF StepInv
<1>5. \A i \in ToolNotes' : notes'[i].step \in 1..toolStep'
  BY <1>1, <1>3 DEF StepInv
<1>6. NotesTraceToTheirCall'
  BY <1>1, <1>3 DEF StepInv, NotesTraceToTheirCall
<1> QED BY <1>1, <1>2, <1>4, <1>5, <1>6 DEF StepInv

\* A note is stored under the step of the row its own call leaves.
LEMMA NoteKeepsSteps ==
  ASSUME TypeOK, StepInv, NEW t \in SUBSET Templates, NEW e \in SUBSET Events,
         WriteNote(t, e)
  PROVE  StepInv'
<1> DEFINE n == Len(notes)
           k == Len(log)
<1>1. Logged("write_note", TRUE, {})
  BY DEF WriteNote
<1>2. /\ DOMAIN log' = 1..(k + 1) /\ DOMAIN log = 1..k /\ k \in Nat
      /\ \A j \in 1..k : log'[j] = log[j]
      /\ log'[k + 1].step = toolStep + 1
      /\ toolStep' = toolStep + 1
  <2>1. "write_note" \in {"reader", "write_note"}
    OBVIOUS
  <2> QED BY <1>1, <2>1, LoggedExtends, Zenon
<1>3. log'[k + 1].tool = "write_note" /\ log'[k + 1].ok /\ Len(log') = k + 1
  BY <1>1 DEF Logged, TypeOK
<1>4. /\ DOMAIN notes' = 1..(n + 1) /\ DOMAIN notes = 1..n /\ n \in Nat
      /\ \A i \in 1..n : notes'[i] = notes[i]
      /\ notes'[n + 1].step = toolStep + 1
  BY DEF WriteNote, NoteStep, TypeOK
<1>5. \A i \in ToolNotes' : i = n + 1 \/ (i \in ToolNotes /\ notes'[i] = notes[i])
  BY <1>4 DEF ToolNotes
<1>6. toolStep = k
  BY DEF StepInv
<1> HIDE DEF n, k
<1>7. \A j \in DOMAIN log' : log'[j].step = j
  BY <1>2, <1>6 DEF StepInv
<1>8. \A i \in ToolNotes' : notes'[i].step \in 1..toolStep'
  BY <1>2, <1>4, <1>5, <1>6 DEF StepInv
<1>9. NotesTraceToTheirCall'
  <2>1. ASSUME NEW i \in ToolNotes'
        PROVE  \E j \in DOMAIN log' : /\ log'[j].step = notes'[i].step
                                      /\ log'[j].tool = "write_note" /\ log'[j].ok
    <3>1. CASE i = n + 1
      <4>1. k + 1 \in DOMAIN log'
        BY <1>2
      <4> QED BY <3>1, <4>1, <1>2, <1>3, <1>4
    <3>2. CASE i \in ToolNotes /\ notes'[i] = notes[i]
      BY <3>2, <1>2 DEF StepInv, NotesTraceToTheirCall
    <3> QED BY <3>1, <3>2, <1>5
  <2>2. ASSUME NEW i \in ToolNotes', NEW j \in ToolNotes', i # j
        PROVE  notes'[i].step # notes'[j].step
    <3>1. \A h \in ToolNotes : notes[h].step \in 1..k
      BY <1>6 DEF StepInv
    <3>2. notes'[n + 1].step \notin 1..k
      BY <1>2, <1>4, <1>6
    <3> QED BY <2>2, <3>1, <3>2, <1>5 DEF StepInv, NotesTraceToTheirCall
  <2> QED BY <2>1, <2>2 DEF NotesTraceToTheirCall
<1> QED BY <1>2, <1>3, <1>6, <1>7, <1>8, <1>9 DEF StepInv

LEMMA StepsStep == TypeOK /\ StepInv /\ [Next]_vars => StepInv'
<1> SUFFICES ASSUME TypeOK, StepInv, [Next]_vars PROVE StepInv'
  OBVIOUS
<1>1. CASE UNCHANGED <<toolStep, log, notes>>
  BY <1>1 DEF StepInv, NotesTraceToTheirCall, ToolNotes
<1>2. ASSUME NEW tool \in {"reader", "write_note"}, NEW ok, NEW ids,
             Logged(tool, ok, ids), UNCHANGED notes
      PROVE  StepInv'
  BY <1>2, CallKeepsSteps
<1>3. ASSUME NEW t \in SUBSET Templates, NEW e \in SUBSET Events, WriteNote(t, e)
      PROVE  StepInv'
  BY <1>3, NoteKeepsSteps
<1>4. ASSUME NEW c \in Costs, NEW text \in BOOLEAN, ClosingTurn(c, text) PROVE StepInv'
  <2>1. UNCHANGED <<toolStep, log>>
    BY <1>4 DEF ClosingTurn, toolVars
  <2>2. /\ \A i \in ToolNotes' : i \in ToolNotes /\ notes'[i] = notes[i]
    BY <1>4 DEF ClosingTurn, ToolNotes, TypeOK
  <2> QED BY <2>1, <2>2 DEF StepInv, NotesTraceToTheirCall
<1>5. CASE Dispatch
  <2>1. "reader" \in {"reader", "write_note"}
    OBVIOUS
  <2> QED BY <1>5, <2>1, <1>2, <1>3, Zenon
          DEF Dispatch, GetSlice, RunSqlWithIds, ReadOther, CallRefused
<1> QED
  BY <1>1, <1>4, <1>5
  DEF Next, LoopStep, Finished, vars, toolVars, ResultsReturned, CeilingRefusesTurn,
      ProviderFails, ModelCallsTools, AnswerSentBack, AnswerStands, ClosingTurnRefused, Record

\* Whatever the model calls and in whatever batches, every note of this run
\* lines up with one accepted write_note row, and no two with the same one.
THEOREM NotesTraceToCalls == Spec => []NotesTraceToTheirCall
<1>1. Init => StepInv
  BY NoToolNotesAtStart DEF Init, StepInv, NotesTraceToTheirCall
<1>2. StepInv => NotesTraceToTheirCall
  BY DEF StepInv
<1> QED BY <1>1, <1>2, StepsStep, TypeCorrect, PTL DEF Spec

-----------------------------------------------------------------------------
(* The conversation.                                                        *)

\* What a message appended to the conversation leaves.
LEMMA AppendedMessage ==
  ASSUME NEW ms \in Seq(Message), NEW m \in Message
  PROVE  LET new == Append(ms, m)
         IN  /\ Len(ms) \in Nat /\ DOMAIN ms = 1..Len(ms)
             /\ Len(new) = Len(ms) + 1 /\ DOMAIN new = 1..(Len(ms) + 1)
             /\ \A i \in 1..Len(ms) : new[i] = ms[i]
             /\ new[Len(ms) + 1] = m
  OBVIOUS

\* Compaction changes nothing of a message but whether it was summarised, and
\* that of the bulky results outside the window.
LEMMA CompactedMessages ==
  ASSUME NEW ms \in Seq(Message)
  PROVE  \A i \in 1..Len(ms) :
           /\ Compact(ms)[i].kind = ms[i].kind
           /\ Compact(ms)[i].bulky = ms[i].bulky
           /\ Compact(ms)[i].elided = (ms[i].elided \/ (i \in Stale(ms) /\ ms[i].bulky))
<1>1. (\A i \in 1..Len(ms) : ms[i] \in Message) /\ DOMAIN ms = 1..Len(ms)
  OBVIOUS
<1>2. \A i \in DOMAIN ms :
        Compact(ms)[i] = IF i \in Stale(ms) /\ ms[i].bulky
                         THEN [ms[i] EXCEPT !.elided = TRUE] ELSE ms[i]
  BY Zenon DEF Compact
<1> QED BY <1>1, <1>2 DEF Message

\* The conversation after a batch: what there was and the results, compacted,
\* and then at most a reminder and the closing question.
Results == [kind |-> "results", bulky |-> bulky, elided |-> FALSE]

LEMMA ReturnedConversation ==
  ASSUME TypeOK, ResultsReturned
  PROVE  LET n == Len(messages)
             all == Append(messages, Results)
         IN  /\ n \in Nat /\ DOMAIN messages = 1..n
             /\ all \in Seq(Message) /\ Len(all) = n + 1
             /\ \A i \in 1..n : all[i] = messages[i]
             /\ all[n + 1] = Results
             /\ Len(messages') \in Nat /\ Len(messages') >= n + 1
             /\ DOMAIN messages' = 1..Len(messages')
             /\ \A i \in 1..(n + 1) :
                  /\ messages'[i].kind = all[i].kind
                  /\ messages'[i].bulky = all[i].bulky
                  /\ messages'[i].elided = (all[i].elided \/ (i \in Stale(all) /\ all[i].bulky))
             /\ \A i \in (n + 2)..Len(messages') :
                  messages'[i].kind \in {"reminder", "closing"} /\ ~messages'[i].elided
             /\ silentNudges' > silentNudges =>
                  \E i \in DOMAIN messages' : messages'[i].kind = "reminder"
             /\ silentNudges' = IF ReminderDue(toolCalls + batch) THEN silentNudges + 1
                                ELSE silentNudges
<1> DEFINE n == Len(messages)
           all == Append(messages, Results)
           calls == toolCalls + batch
           reminder == IF ReminderDue(calls) THEN <<Say("reminder")>> ELSE <<>>
           closing == IF LimitHit(calls) # "none" THEN <<Say("closing")>> ELSE <<>>
           tail == reminder \o closing
<1>1. Results \in Message /\ messages \in Seq(Message)
  BY DEF TypeOK, Message, Kinds, Results
<1>2. /\ n \in Nat /\ DOMAIN messages = 1..n /\ all \in Seq(Message) /\ Len(all) = n + 1
      /\ \A i \in 1..n : all[i] = messages[i]
      /\ all[n + 1] = Results
  BY <1>1, AppendedMessage
<1>3. messages' = Compact(all) \o reminder \o closing
      /\ silentNudges' = silentNudges + Len(reminder)
  BY DEF ResultsReturned, Results
<1>4. /\ reminder \in Seq(Message) /\ closing \in Seq(Message)
      /\ Len(reminder) = IF ReminderDue(calls) THEN 1 ELSE 0
      /\ \A i \in 1..Len(reminder) : reminder[i] = Say("reminder")
      /\ \A i \in 1..Len(closing) : closing[i] = Say("closing")
  BY SayType DEF Kinds
<1>5. Compact(all) \in Seq(Message) /\ Len(Compact(all)) = n + 1
  BY <1>2, CompactType
<1>6. /\ Say("reminder").kind = "reminder" /\ Say("closing").kind = "closing"
      /\ ~Say("reminder").elided /\ ~Say("closing").elided
  BY DEF Say
<1> HIDE DEF n, all, reminder, closing
<1>7. /\ tail \in Seq(Message) /\ Len(tail) \in Nat /\ Len(tail) = Len(reminder) + Len(closing)
      /\ Len(closing) \in Nat
      /\ \A i \in 1..Len(tail) : tail[i] \in {Say("reminder"), Say("closing")}
      /\ \A i \in 1..Len(reminder) : tail[i] = Say("reminder")
  <2>1. Len(closing) \in Nat /\ Len(reminder) \in Nat
    BY <1>4, LenProperties
  <2>2. /\ tail \in Seq(Message) /\ Len(tail) = Len(reminder) + Len(closing)
        /\ \A i \in 1..(Len(reminder) + Len(closing)) :
             tail[i] = IF i <= Len(reminder) THEN reminder[i] ELSE closing[i - Len(reminder)]
    BY <1>4, ConcatProperties
  <2> HIDE DEF tail
  <2>3. \A i \in 1..Len(reminder) : tail[i] = Say("reminder")
    BY <1>4, <2>1, <2>2
  <2>4. ASSUME NEW i \in 1..Len(tail) PROVE tail[i] \in {Say("reminder"), Say("closing")}
    <3>1. CASE i <= Len(reminder)
      BY <3>1, <2>1, <2>3
    <3>2. CASE ~(i <= Len(reminder))
      <4>1. i - Len(reminder) \in 1..Len(closing)
        BY <3>2, <2>1, <2>2
      <4> QED BY <3>2, <4>1, <1>4, <2>2
    <3> QED BY <3>1, <3>2
  <2> QED BY <2>1, <2>2, <2>3, <2>4
<1>8. messages' = Compact(all) \o tail
  BY <1>3, <1>4, <1>5, ConcatAssociative
<1> HIDE DEF tail
<1>9. /\ Len(messages') = n + 1 + Len(tail)
      /\ DOMAIN messages' = 1..Len(messages')
      /\ \A i \in 1..(n + 1) : messages'[i] = Compact(all)[i]
      /\ \A i \in 1..Len(tail) : messages'[n + 1 + i] = tail[i]
  <2> DEFINE c == Compact(all)
             new == c \o tail
  <2>1. c \in Seq(Message) /\ Len(c) = n + 1
    BY <1>5
  <2> HIDE DEF c
  <2>2. /\ new \in Seq(Message)
        /\ Len(new) = Len(c) + Len(tail)
        /\ \A i \in 1..(Len(c) + Len(tail)) :
             new[i] = IF i <= Len(c) THEN c[i] ELSE tail[i - Len(c)]
    BY <1>7, <2>1, ConcatProperties
  <2>3. messages' = new
    BY <1>8 DEF c
  <2> HIDE DEF new
  <2>4. Len(new) = n + 1 + Len(tail) /\ DOMAIN new = 1..Len(new)
    BY <2>1, <2>2
  <2>5. \A i \in 1..(n + 1) : new[i] = c[i]
    BY <1>2, <1>7, <2>1, <2>2
  <2>6. ASSUME NEW i \in 1..Len(tail) PROVE new[n + 1 + i] = tail[i]
    <3> DEFINE k == n + 1 + i
    <3>1. k \in 1..(Len(c) + Len(tail)) /\ ~(k <= Len(c)) /\ k - Len(c) = i
      BY <1>2, <1>7, <2>1
    <3> HIDE DEF k
    <3>2. new[k] = tail[i]
      BY <2>2, <3>1
    <3> QED BY <3>2 DEF k
  <2> QED BY <2>3, <2>4, <2>5, <2>6 DEF c
<1>10. \A i \in (n + 2)..Len(messages') :
         messages'[i].kind \in {"reminder", "closing"} /\ ~messages'[i].elided
  <2> TAKE i \in (n + 2)..Len(messages')
  <2>1. i - (n + 1) \in 1..Len(tail) /\ n + 1 + (i - (n + 1)) = i
    BY <1>2, <1>7, <1>9
  <2>2. messages'[i] = tail[i - (n + 1)]
    BY <1>9, <2>1
  <2> QED BY <1>6, <1>7, <2>1, <2>2
<1>11. silentNudges' > silentNudges => \E i \in DOMAIN messages' : messages'[i].kind = "reminder"
  <2> HAVE silentNudges' > silentNudges
  <2>1. Len(reminder) = 1
    BY <1>3, <1>4 DEF TypeOK
  <2>2. 1 \in 1..Len(tail) /\ tail[1] = Say("reminder")
    <3>1. 1 \in 1..Len(reminder)
      BY <2>1
    <3>2. tail[1] = Say("reminder")
      BY <1>7, <3>1
    <3>3. Len(tail) = 1 + Len(closing)
      BY <1>7, <2>1
    <3> QED BY <1>7, <3>2, <3>3
  <2>3. messages'[n + 1 + 1] = Say("reminder") /\ n + 1 + 1 \in DOMAIN messages'
    BY <1>2, <1>7, <1>9, <2>2
  <2> QED BY <1>6, <2>3
<1>12. silentNudges' = IF ReminderDue(calls) THEN silentNudges + 1 ELSE silentNudges
  BY <1>3, <1>4 DEF TypeOK
<1>13. \A i \in 1..(n + 1) :
         /\ messages'[i].kind = all[i].kind
         /\ messages'[i].bulky = all[i].bulky
         /\ messages'[i].elided = (all[i].elided \/ (i \in Stale(all) /\ all[i].bulky))
  BY <1>2, <1>9, CompactedMessages
<1> QED BY <1>2, <1>7, <1>9, <1>10, <1>11, <1>12, <1>13 DEF n, all

\* CallsAnswered of any conversation; the last message may be waiting.
Answered(ms, waiting) ==
  \A i \in DOMAIN ms :
    /\ ms[i].kind = "calls" => \/ i = Len(ms) /\ waiting
                               \/ i < Len(ms) /\ ms[i + 1].kind = "results"
    /\ ms[i].kind = "results" => i > 1 /\ ms[i - 1].kind = "calls"

\* The last message asks for tools exactly while its calls are dispatched.
AnsweredInv ==
  /\ Len(messages) > 0
  /\ pc = "dispatch" => messages[Len(messages)].kind = "calls"
  /\ CallsAnswered

LEMMA NoneWaiting ==
  ASSUME AnsweredInv, pc # "dispatch" PROVE Answered(messages, FALSE)
  BY DEF AnsweredInv, CallsAnswered, Answered

\* A message that carries no results, in a conversation where none waits.
LEMMA PlainMessageKeepsAnswers ==
  ASSUME NEW ms \in Seq(Message), Len(ms) > 0, Answered(ms, FALSE),
         NEW k \in Kinds \ {"results"}
  PROVE  LET new == Append(ms, Say(k))
         IN  /\ new \in Seq(Message) /\ Len(new) = Len(ms) + 1 /\ Len(new) > 0
             /\ new[Len(new)].kind = k
             /\ Answered(new, k = "calls")
<1> DEFINE new == Append(ms, Say(k))
           n == Len(ms)
<1>1. Say(k) \in Message /\ Say(k).kind = k
  BY DEF Say, Message
<1>2. /\ n \in Nat /\ DOMAIN ms = 1..n /\ Len(new) = n + 1 /\ DOMAIN new = 1..(n + 1)
      /\ \A i \in 1..n : new[i] = ms[i]
      /\ new[n + 1] = Say(k) /\ new \in Seq(Message)
  BY <1>1, AppendedMessage, AppendProperties
<1>3. n > 0
  OBVIOUS
<1> HIDE DEF new
<1>4. ASSUME NEW i \in DOMAIN new
      PROVE  /\ new[i].kind = "calls" =>
                  \/ i = Len(new) /\ k = "calls"
                  \/ i < Len(new) /\ new[i + 1].kind = "results"
             /\ new[i].kind = "results" => i > 1 /\ new[i - 1].kind = "calls"
  <2>1. CASE i = n + 1
    BY <2>1, <1>1, <1>2
  <2>2. CASE i \in 1..n
    <3>1. /\ ms[i].kind = "calls" => i < n /\ ms[i + 1].kind = "results"
          /\ ms[i].kind = "results" => i > 1 /\ ms[i - 1].kind = "calls"
      BY <2>2, <1>2 DEF Answered
    <3> HIDE DEF n
    <3>2. i < n => i + 1 \in 1..n
      BY <2>2, <1>2
    <3>3. i > 1 => i - 1 \in 1..n
      BY <2>2, <1>2
    <3> QED BY <2>2, <3>1, <3>2, <3>3, <1>2
  <2> QED BY <2>1, <2>2, <1>2
<1> HIDE DEF n
<1>5. Answered(new, k = "calls")
  BY <1>4 DEF Answered
<1>6. Len(new) > 0 /\ new[Len(new)].kind = k
  BY <1>1, <1>2, <1>3
<1> QED BY <1>2, <1>5, <1>6 DEF n, new

\* The results of a batch answer the calls that are the last message.
LEMMA ResultsAnswer ==
  ASSUME TypeOK, AnsweredInv, ResultsReturned PROVE AnsweredInv'
<1> DEFINE n == Len(messages)
           all == Append(messages, Results)
<1>1. /\ n \in Nat /\ DOMAIN messages = 1..n
      /\ \A i \in 1..n : all[i] = messages[i]
      /\ all[n + 1] = Results
      /\ Len(messages') \in Nat /\ Len(messages') >= n + 1
      /\ DOMAIN messages' = 1..Len(messages')
      /\ \A i \in 1..(n + 1) : messages'[i].kind = all[i].kind
      /\ \A i \in (n + 2)..Len(messages') : messages'[i].kind \in {"reminder", "closing"}
  BY ReturnedConversation
<1>2. messages[n].kind = "calls" /\ n > 0 /\ pc' # "dispatch" /\ pc = "dispatch"
  BY DEF AnsweredInv, ResultsReturned
<1>3. \A i \in 1..n : /\ messages[i].kind = "calls" => i = n \/ (i < n /\ messages[i + 1].kind = "results")
                      /\ messages[i].kind = "results" => i > 1 /\ messages[i - 1].kind = "calls"
  BY <1>1 DEF AnsweredInv, CallsAnswered
<1>4. Results.kind = "results"
  BY DEF Results
<1> HIDE DEF n, all
<1>5. \A i \in 1..n : messages'[i].kind = messages[i].kind
  BY <1>1
<1>6. messages'[n + 1].kind = "results"
  BY <1>1, <1>4
<1>7. ASSUME NEW i \in 1..Len(messages')
      PROVE  /\ messages'[i].kind = "calls" =>
                  i < Len(messages') /\ messages'[i + 1].kind = "results"
             /\ messages'[i].kind = "results" => i > 1 /\ messages'[i - 1].kind = "calls"
  <2>1. CASE i \in 1..n
    <3>1. i < n => i + 1 \in 1..n
      BY <2>1, <1>1
    <3>2. i > 1 => i - 1 \in 1..n
      BY <2>1, <1>1
    <3>3. i < Len(messages')
      BY <2>1, <1>1
    <3> QED BY <2>1, <3>1, <3>2, <3>3, <1>3, <1>5, <1>6
  <2>2. CASE i = n + 1
    <3>1. i - 1 = n /\ n \in 1..n /\ i > 1
      BY <2>2, <1>1, <1>2
    <3> QED BY <2>2, <3>1, <1>2, <1>5, <1>6
  <2>3. CASE i \in (n + 2)..Len(messages')
    BY <2>3, <1>1
  <2> QED BY <2>1, <2>2, <2>3, <1>1
<1> QED BY <1>1, <1>2, <1>7 DEF AnsweredInv, CallsAnswered

LEMMA AnsweredStep == TypeOK /\ AnsweredInv /\ [Next]_vars => AnsweredInv'
<1> SUFFICES ASSUME TypeOK, AnsweredInv, [Next]_vars PROVE AnsweredInv'
  OBVIOUS
<1> USE DEF talkVars
<1>1. CASE UNCHANGED <<pc, messages>>
  BY <1>1 DEF AnsweredInv, CallsAnswered
<1>2. CASE UNCHANGED messages /\ pc # "dispatch" /\ pc' # "dispatch"
  BY <1>2 DEF AnsweredInv, CallsAnswered
<1>3. messages \in Seq(Message) /\ Len(messages) > 0
  BY DEF TypeOK, AnsweredInv
<1>4. ASSUME NEW c \in Costs, NEW n \in BatchSizes, ModelCallsTools(c, n) PROVE AnsweredInv'
  <2>1. pc = "converse" /\ pc' = "dispatch" /\ messages' = Append(messages, Say("calls"))
    BY <1>4 DEF ModelCallsTools
  <2>2. "calls" \in Kinds \ {"results"}
    BY DEF Kinds
  <2>3. /\ Len(messages') > 0 /\ messages'[Len(messages')].kind = "calls"
        /\ Answered(messages', "calls" = "calls")
    BY <1>3, <2>1, <2>2, NoneWaiting, PlainMessageKeepsAnswers
  <2> QED BY <2>1, <2>3 DEF AnsweredInv, CallsAnswered, Answered
<1>5. ASSUME NEW c \in Costs, NEW s \in Stops, AnswerSentBack(c, s) PROVE AnsweredInv'
  <2> DEFINE first == Append(messages, Say("answer"))
  <2>1. /\ pc = "converse" /\ pc' = "converse"
        /\ messages' = messages \o <<Say("answer"), Say("question")>>
    BY <1>5 DEF AnswerSentBack
  <2>2. "answer" \in Kinds \ {"results"} /\ "question" \in Kinds \ {"results"}
    BY DEF Kinds
  <2>3. messages' = Append(first, Say("question"))
    <3>1. Say("answer") \in Message /\ Say("question") \in Message
      BY <2>2, SayType
    <3> QED BY <1>3, <2>1, <3>1
  <2>4. first \in Seq(Message) /\ Len(first) > 0 /\ Answered(first, "answer" = "calls")
    BY <1>3, <2>1, <2>2, NoneWaiting, PlainMessageKeepsAnswers
  <2> HIDE DEF first
  <2>5. Answered(first, FALSE)
    BY <2>4 DEF Answered
  <2>6. Len(messages') > 0 /\ Answered(messages', "question" = "calls")
    BY <2>2, <2>3, <2>4, <2>5, PlainMessageKeepsAnswers
  <2> QED BY <2>1, <2>6 DEF AnsweredInv, CallsAnswered, Answered
<1>6. CASE ResultsReturned
  BY <1>6, ResultsAnswer
<1> QED
  BY <1>1, <1>2, <1>4, <1>5, <1>6
  DEF Next, LoopStep, Finished, vars, Dispatch, GetSlice, RunSqlWithIds, ReadOther, WriteNote,
      CallRefused, Logged, CeilingRefusesTurn, ProviderFails, AnswerStands, ClosingTurn,
      ClosingTurnRefused, Record

LEMMA AnsweredAlways == Spec => []AnsweredInv
<1>1. Init => AnsweredInv
  <2> SUFFICES ASSUME Init PROVE AnsweredInv
    OBVIOUS
  <2>1. messages = <<Say("opening")>> /\ pc = "converse"
    BY DEF Init
  <2>2. Len(messages) = 1 /\ DOMAIN messages = {1} /\ messages[1].kind = "opening"
    BY <2>1 DEF Say
  <2> QED BY <2>1, <2>2 DEF AnsweredInv, CallsAnswered
<1> QED BY <1>1, AnsweredStep, TypeCorrect, PTL DEF Spec

\* Nudges, reminders, closing questions and compactions notwithstanding, every
\* batch of calls is answered by the message after it and by nothing else.
THEOREM ConversationIsWellFormed == Spec => []CallsAnswered
<1>1. AnsweredInv => CallsAnswered
  BY DEF AnsweredInv
<1> QED BY <1>1, AnsweredAlways, PTL

-----------------------------------------------------------------------------
(* The reminder.                                                            *)

\* No turn asks for more than four tenths of the calls a run has: what is left
\* of them at six tenths, where the reminder falls due.
SmallBatches == \A n \in BatchSizes : 10 * n <= 4 * MaxToolCalls

\* Results come back short of six tenths of the calls, or with notes written,
\* or the reminder is in the conversation.
RemindedInv ==
  /\ silentNudges = 0 /\ notes = <<>> => 10 * toolCalls < 6 * MaxToolCalls
  /\ silentNudges > 0 => \E i \in DOMAIN messages : messages[i].kind = "reminder"
  /\ pc = "dispatch" => batch \in BatchSizes
  /\ RemindedInTime

\* A conversation that only grows keeps its reminder.
LEMMA ReminderStays ==
  ASSUME NEW ms \in Seq(Message), NEW more \in Seq(Message),
         \E i \in DOMAIN ms : ms[i].kind = "reminder"
  PROVE  \E i \in DOMAIN (ms \o more) : (ms \o more)[i].kind = "reminder"
<1>1. PICK i \in DOMAIN ms : ms[i].kind = "reminder"
  OBVIOUS
<1>2. i \in 1..Len(ms) /\ Len(ms) \in Nat /\ Len(more) \in Nat
  OBVIOUS
<1>3. i \in DOMAIN (ms \o more) /\ (ms \o more)[i] = ms[i]
  BY <1>2, ConcatProperties
<1> QED BY <1>1, <1>3

\* The batch that uses up the calls did not take them past six tenths by
\* itself, so that the reminder came before it.
LEMMA ResultsComeReminded ==
  ASSUME SmallBatches, TypeOK, AnsweredInv, RemindedInv, ResultsReturned
  PROVE  RemindedInv'
<1> DEFINE n == Len(messages)
           all == Append(messages, Results)
           calls == toolCalls + batch
<1>1. /\ n \in Nat /\ DOMAIN messages = 1..n
      /\ \A i \in 1..n : all[i] = messages[i]
      /\ Len(messages') \in Nat /\ Len(messages') >= n + 1
      /\ DOMAIN messages' = 1..Len(messages')
      /\ \A i \in 1..(n + 1) : messages'[i].kind = all[i].kind
      /\ silentNudges' > silentNudges =>
           \E i \in DOMAIN messages' : messages'[i].kind = "reminder"
      /\ silentNudges' = IF ReminderDue(calls) THEN silentNudges + 1 ELSE silentNudges
  BY ReturnedConversation
<1>2. /\ pc = "dispatch" /\ pc' # "dispatch" /\ notes' = notes
      /\ toolCalls' = calls /\ limit' = LimitHit(calls)
  BY DEF ResultsReturned
<1>3. messages[n].kind = "calls" /\ n > 0
  BY <1>2 DEF AnsweredInv
<1> HIDE DEF n, all
<1>4. \A i \in 1..n : messages'[i].kind = messages[i].kind /\ i \in DOMAIN messages'
  BY <1>1
<1>5. silentNudges' = 0 /\ notes' = <<>> => 10 * toolCalls' < 6 * MaxToolCalls'
  <2> HAVE silentNudges' = 0 /\ notes' = <<>>
  <2>1. silentNudges = 0 /\ ~ReminderDue(calls)
    BY <1>1 DEF TypeOK
  <2>2. ~(10 * calls >= 6 * MaxToolCalls)
    BY <1>2, <2>1 DEF ReminderDue
  <2> QED BY <1>2, <2>2, LoopAssumption DEF TypeOK
<1>6. silentNudges' > 0 => \E i \in DOMAIN messages' : messages'[i].kind = "reminder"
  <2>1. CASE silentNudges' > silentNudges
    BY <1>1, <2>1
  <2>2. CASE silentNudges' = silentNudges /\ silentNudges > 0
    <3>1. PICK i \in 1..n : messages[i].kind = "reminder"
      BY <1>1, <2>2 DEF RemindedInv
    <3> QED BY <1>4, <3>1
  <2> QED BY <1>1, <2>1, <2>2 DEF TypeOK
<1>7. RemindedInTime'
  <2> SUFFICES ASSUME limit' = "tool_calls", notes' = <<>>
               PROVE  \E i, j \in DOMAIN messages' :
                        i < j /\ messages'[i].kind = "reminder" /\ messages'[j].kind = "calls"
    BY DEF RemindedInTime
  <2>1. calls >= MaxToolCalls
    BY <1>2 DEF LimitHit
  <2>2. silentNudges > 0
    <3>1. batch \in Nat /\ 10 * batch <= 4 * MaxToolCalls
      BY <1>2, LoopAssumption DEF RemindedInv, SmallBatches
    <3>2. ~(10 * toolCalls < 6 * MaxToolCalls)
      BY <2>1, <3>1, LoopAssumption DEF TypeOK
    <3> QED BY <1>2, <3>2 DEF RemindedInv, TypeOK
  <2>3. PICK i \in 1..n : messages[i].kind = "reminder"
    BY <1>1, <2>2 DEF RemindedInv
  <2>4. n \in 1..n /\ i < n
    BY <1>1, <1>3, <2>3
  <2>5. messages'[i].kind = "reminder" /\ messages'[n].kind = "calls"
        /\ i \in DOMAIN messages' /\ n \in DOMAIN messages'
    BY <1>3, <1>4, <2>3, <2>4
  <2> QED BY <2>4, <2>5
<1> QED BY <1>2, <1>5, <1>6, <1>7 DEF RemindedInv

LEMMA RemindedStep ==
  SmallBatches /\ TypeOK /\ AnsweredInv /\ RemindedInv /\ [Next]_vars => RemindedInv'
<1> SUFFICES ASSUME SmallBatches, TypeOK, AnsweredInv, RemindedInv, [Next]_vars
             PROVE  RemindedInv'
  OBVIOUS
<1> USE DEF talkVars, nudgeVars, batchVars
<1>1. CASE UNCHANGED <<pc, toolCalls, batch, notes, messages, silentNudges, limit>>
  BY <1>1 DEF RemindedInv, RemindedInTime
<1>2. CASE /\ UNCHANGED <<toolCalls, batch, notes, messages, silentNudges>>
           /\ pc' \notin {"dispatch", "converge"}
  BY <1>2 DEF RemindedInv, RemindedInTime
<1>3. ASSUME NEW c \in Costs, NEW n \in BatchSizes, ModelCallsTools(c, n) PROVE RemindedInv'
  <2>1. /\ UNCHANGED <<toolCalls, notes, silentNudges>> /\ batch' = n /\ pc' = "dispatch"
        /\ messages' = Append(messages, Say("calls"))
    BY <1>3 DEF ModelCallsTools
  <2>2. Say("calls") \in Message /\ messages \in Seq(Message)
    BY SayType DEF Kinds, TypeOK
  <2>3. messages' = messages \o <<Say("calls")>> /\ <<Say("calls")>> \in Seq(Message)
    BY <2>1, <2>2
  <2> QED BY <2>1, <2>2, <2>3, ReminderStays DEF RemindedInv, RemindedInTime
<1>4. ASSUME NEW c \in Costs, NEW s \in Stops, AnswerSentBack(c, s) PROVE RemindedInv'
  <2>1. /\ UNCHANGED <<toolCalls, batch, notes, silentNudges>> /\ pc' = "converse"
        /\ messages' = messages \o <<Say("answer"), Say("question")>>
    BY <1>4 DEF AnswerSentBack
  <2>2. messages \in Seq(Message) /\ <<Say("answer"), Say("question")>> \in Seq(Message)
    BY SayType DEF Kinds, TypeOK
  <2> QED BY <2>1, <2>2, ReminderStays DEF RemindedInv, RemindedInTime
<1>5. ASSUME NEW t \in SUBSET Templates, NEW e \in SUBSET Events, WriteNote(t, e)
      PROVE RemindedInv'
  <2>1. UNCHANGED <<pc, toolCalls, batch, messages, silentNudges, limit>>
    BY <1>5 DEF WriteNote, Logged
  <2>2. notes' # <<>>
    BY <1>5 DEF WriteNote, TypeOK
  <2> QED BY <2>1, <2>2 DEF RemindedInv, RemindedInTime
<1>6. CASE ResultsReturned
  BY <1>6, ResultsComeReminded
<1>7. ASSUME NEW c \in Costs, NEW text \in BOOLEAN, ClosingTurn(c, text) PROVE RemindedInv'
  <2>1. UNCHANGED <<toolCalls, batch, messages, silentNudges>> /\ pc' = "record"
    BY <1>7 DEF ClosingTurn
  <2>2. notes' = <<>> => notes = <<>>
    <3>1. CASE text
      <4> DEFINE said == [step |-> steps + 1, tids |-> {}, eids |-> {}, role |-> "closing"]
      <4>1. notes' = Append(notes, said)
        BY <1>7, <3>1 DEF ClosingTurn
      <4>2. said \in Note /\ notes \in Seq(Note)
        BY DEF Note, TypeOK
      <4> HIDE DEF said
      <4>3. Len(notes') = Len(notes) + 1 /\ Len(notes) \in Nat
        BY <4>1, <4>2
      <4> QED BY <4>3
    <3>2. CASE ~text
      BY <1>7, <3>2 DEF ClosingTurn
    <3> QED BY <3>1, <3>2
  <2> QED BY <2>1, <2>2 DEF RemindedInv, RemindedInTime
<1> QED
  BY <1>1, <1>2, <1>3, <1>4, <1>5, <1>6, <1>7
  DEF Next, LoopStep, Finished, vars, Dispatch, GetSlice, RunSqlWithIds, ReadOther,
      CallRefused, Logged, CeilingRefusesTurn, ProviderFails, AnswerStands,
      ClosingTurnRefused, Record

\* When no turn carries more than four tenths of the calls, a run that uses them
\* all without a note was reminded at a turn that could still write one.
THEOREM SilenceIsReminded ==
  ASSUME SmallBatches PROVE Spec => []RemindedInTime
<1>1. Init => RemindedInv
  BY LoopAssumption DEF Init, RemindedInv, RemindedInTime
<1>2. RemindedInv => RemindedInTime
  BY DEF RemindedInv
<1>3. TypeOK /\ AnsweredInv /\ RemindedInv /\ [Next]_vars => RemindedInv'
  BY RemindedStep
<1> QED BY <1>1, <1>2, <1>3, AnsweredAlways, TypeCorrect, PTL DEF Spec
-----------------------------------------------------------------------------
(* Compaction.  CompactionSound is inductive as it stands: a message that is *)
(* no result moves no result into or out of the recent window, and results   *)
(* only ever leave it, each counted once.                                    *)

\* The results after message i, and the messages summarised so far.
LaterResults(ms, i) == {j \in DOMAIN ms : j > i /\ ms[j].kind = "results"}
ElidedIn(ms) == {i \in DOMAIN ms : ms[i].elided}

\* Message i of ms is summarised when, and only when, it should be.
ElidedRightly(ms, i) ==
  ms[i].elided <=> /\ ms[i].kind = "results" /\ ms[i].bulky
                   /\ HistorySteps > 0 /\ Cardinality(LaterResults(ms, i)) >= HistorySteps

LEMMA CompactionByMessage ==
  CompactionSound <=> /\ \A i \in DOMAIN messages : ElidedRightly(messages, i)
                      /\ compactions = Cardinality(ElidedIn(messages))
  BY DEF CompactionSound, ElidedRightly, LaterResults, ElidedIn

\* Places in a conversation can be counted.
LEMMA PlacesAreFinite ==
  ASSUME NEW ms \in Seq(Message), NEW S \in SUBSET DOMAIN ms
  PROVE  IsFiniteSet(S) /\ Cardinality(S) \in Nat
<1>1. DOMAIN ms = 1..Len(ms) /\ Len(ms) \in Nat
  OBVIOUS
<1>2. IsFiniteSet(DOMAIN ms)
  BY <1>1, FS_Interval
<1> QED BY <1>2, FS_Subset, FS_CardinalityType

\* Messages that carry no results leave every result where it was.
LEMMA PlainMessagesKeepWindow ==
  ASSUME TypeOK, CompactionSound, NEW more \in Seq(Message),
         \A i \in 1..Len(more) : more[i].kind # "results" /\ ~more[i].elided,
         messages' = messages \o more, compactions' = compactions
  PROVE  CompactionSound'
<1> DEFINE n == Len(messages)
           all == messages \o more
<1>1. messages \in Seq(Message) /\ n \in Nat /\ DOMAIN messages = 1..n /\ Len(more) \in Nat
  BY DEF TypeOK
<1>2. all \in Seq(Message) /\ Len(all) = n + Len(more) /\ DOMAIN all = 1..(n + Len(more))
  BY <1>1, ConcatProperties
<1>3. /\ \A i \in 1..n : all[i] = messages[i]
      /\ \A i \in DOMAIN all : i \notin 1..n => i - n \in 1..Len(more) /\ all[i] = more[i - n]
  BY <1>1, <1>2, ConcatProperties
<1> HIDE DEF n, all
<1>4. \A i \in DOMAIN all : i \notin 1..n => all[i].kind # "results" /\ ~all[i].elided
  BY <1>3
<1>5. 1..n \subseteq DOMAIN all
  BY <1>1, <1>2
<1>6. \A i \in 1..n : LaterResults(all, i) = LaterResults(messages, i)
  BY <1>1, <1>3, <1>4, <1>5 DEF LaterResults
<1>7. \A i \in DOMAIN all : ElidedRightly(all, i)
  <2> TAKE i \in DOMAIN all
  <2>1. CASE i \in 1..n
    <3>1. ElidedRightly(messages, i)
      BY <2>1, <1>1, CompactionByMessage
    <3> QED BY <2>1, <3>1, <1>3, <1>6 DEF ElidedRightly
  <2>2. CASE i \notin 1..n
    BY <2>2, <1>4 DEF ElidedRightly
  <2> QED BY <2>1, <2>2
<1>8. ElidedIn(all) = ElidedIn(messages)
  BY <1>1, <1>3, <1>4, <1>5 DEF ElidedIn
<1>9. compactions = Cardinality(ElidedIn(messages))
  BY CompactionByMessage
<1>10. messages' = all
  BY DEF all
<1>11. /\ \A i \in DOMAIN messages' : ElidedRightly(messages', i)
       /\ compactions' = Cardinality(ElidedIn(messages'))
  BY <1>7, <1>8, <1>9, <1>10
<1> QED BY <1>11 DEF CompactionSound, ElidedRightly, LaterResults, ElidedIn

\* The results of a batch move the window by one, and what leaves it is
\* summarised and counted.
LEMMA ResultsMoveWindow ==
  ASSUME TypeOK, CompactionSound, ResultsReturned PROVE CompactionSound'
<1> DEFINE n == Len(messages)
           all == Append(messages, Results)
           new == messages'
           fresh == {i \in Stale(all) : all[i].bulky /\ ~all[i].elided}
<1>1. /\ n \in Nat /\ DOMAIN messages = 1..n
      /\ all \in Seq(Message) /\ Len(all) = n + 1
      /\ \A i \in 1..n : all[i] = messages[i]
      /\ all[n + 1] = Results
      /\ Len(new) \in Nat /\ Len(new) >= n + 1
      /\ DOMAIN new = 1..Len(new)
      /\ \A i \in 1..(n + 1) :
           /\ new[i].kind = all[i].kind
           /\ new[i].bulky = all[i].bulky
           /\ new[i].elided = (all[i].elided \/ (i \in Stale(all) /\ all[i].bulky))
      /\ \A i \in (n + 2)..Len(new) :
           new[i].kind \in {"reminder", "closing"} /\ ~new[i].elided
  BY ReturnedConversation
<1>2. compactions' = compactions + Cardinality(fresh)
  BY DEF ResultsReturned, Results, Compacted
<1>3. messages \in Seq(Message) /\ ~Results.elided /\ DOMAIN all = 1..(n + 1)
  BY <1>1 DEF TypeOK, Results
<1>4. \A i \in DOMAIN messages : ElidedRightly(messages, i)
  BY CompactionByMessage
<1>5. compactions = Cardinality(ElidedIn(messages))
  BY CompactionByMessage
<1> HIDE DEF n, all, new
<1>6. \A i \in DOMAIN new : i \notin 1..(n + 1) => new[i].kind # "results" /\ ~new[i].elided
  <2> TAKE i \in DOMAIN new
  <2> HAVE i \notin 1..(n + 1)
  <2>1. i \in (n + 2)..Len(new)
    BY <1>1
  <2> QED BY <2>1, <1>1
<1>7. 1..(n + 1) \subseteq DOMAIN new /\ 1..n \subseteq 1..(n + 1)
  BY <1>1
<1>8. Carrying(all) = {j \in 1..(n + 1) : all[j].kind = "results"}
  BY <1>3 DEF Carrying
<1>9. \A i \in 1..(n + 1) : LaterResults(new, i) = {j \in Carrying(all) : j > i}
  BY <1>1, <1>6, <1>7, <1>8 DEF LaterResults
<1>10. \A i \in 1..(n + 1) :
         i \in Stale(all) <=> /\ all[i].kind = "results" /\ HistorySteps > 0
                              /\ Cardinality(LaterResults(new, i)) >= HistorySteps
  <2> TAKE i \in 1..(n + 1)
  <2>1. LaterResults(new, i) = {j \in Carrying(all) : j > i}
    BY <1>9
  <2>2. i \in Carrying(all) <=> all[i].kind = "results"
    BY <1>8
  <2>3. CASE HistorySteps = 0
    BY <2>3 DEF Stale
  <2>4. CASE HistorySteps # 0
    <3>1. Stale(all) = {k \in Carrying(all) :
                          Cardinality({j \in Carrying(all) : j > k}) >= HistorySteps}
      BY <2>4 DEF Stale
    <3>2. HistorySteps > 0
      BY <2>4, LoopAssumption
    <3> QED BY ONLY <2>1, <2>2, <3>1, <3>2
  <2> QED BY <2>3, <2>4
<1>11. \A i \in 1..n : messages[i].elided => i \in Stale(all) /\ messages[i].bulky
  <2> TAKE i \in 1..n
  <2> HAVE messages[i].elided
  <2>1. /\ messages[i].kind = "results" /\ messages[i].bulky
        /\ HistorySteps > 0 /\ Cardinality(LaterResults(messages, i)) >= HistorySteps
    BY <1>1, <1>4 DEF ElidedRightly
  <2>2. LaterResults(messages, i) \subseteq LaterResults(new, i)
    BY <1>1, <1>7, <1>8, <1>9 DEF LaterResults
  <2>3. LaterResults(new, i) \subseteq DOMAIN all
    BY <1>3, <1>7, <1>8, <1>9
  <2>4. /\ IsFiniteSet(LaterResults(new, i)) /\ Cardinality(LaterResults(new, i)) \in Nat
    BY <2>3, <1>1, PlacesAreFinite
  <2>5. Cardinality(LaterResults(messages, i)) <= Cardinality(LaterResults(new, i))
        /\ Cardinality(LaterResults(messages, i)) \in Nat
    BY <2>2, <2>4, FS_Subset, FS_CardinalityType
  <2>6. Cardinality(LaterResults(new, i)) >= HistorySteps
    BY <2>1, <2>4, <2>5, LoopAssumption
  <2>7. i \in 1..(n + 1) /\ all[i].kind = "results"
    BY <2>1, <1>1, <1>7
  <2> QED BY <2>1, <2>6, <2>7, <1>10
<1>12. \A i \in 1..(n + 1) : all[i].elided => i \in Stale(all) /\ all[i].bulky
  <2> TAKE i \in 1..(n + 1)
  <2>1. CASE i \in 1..n
    BY <2>1, <1>1, <1>11
  <2>2. CASE i = n + 1
    BY <2>2, <1>1, <1>3
  <2> QED BY <2>1, <2>2, <1>1
<1>13. \A i \in 1..(n + 1) : all[i].elided \in BOOLEAN /\ all[i].bulky \in BOOLEAN
  <2>1. \A i \in 1..(n + 1) : all[i] \in Message
    BY <1>1
  <2> QED BY <2>1 DEF Message
<1>14. \A i \in 1..(n + 1) : new[i].elided = (i \in Stale(all) /\ all[i].bulky)
  BY <1>1, <1>12, <1>13
<1>15. ASSUME NEW i \in DOMAIN new PROVE ElidedRightly(new, i)
  <2>1. CASE i \in 1..(n + 1)
    <3>1. new[i].kind = all[i].kind /\ new[i].bulky = all[i].bulky
      BY <2>1, <1>1
    <3>2. new[i].elided = (i \in Stale(all) /\ all[i].bulky)
      BY <2>1, <1>14
    <3>3. i \in Stale(all) <=> /\ all[i].kind = "results" /\ HistorySteps > 0
                               /\ Cardinality(LaterResults(new, i)) >= HistorySteps
      BY <2>1, <1>10
    <3> QED BY <3>1, <3>2, <3>3 DEF ElidedRightly
  <2>2. CASE i \notin 1..(n + 1)
    BY <2>2, <1>6 DEF ElidedRightly
  <2> QED BY <2>1, <2>2
<1>16. fresh \subseteq 1..(n + 1)
  BY <1>8 DEF Stale
<1>17. ElidedIn(new) = ElidedIn(messages) \cup fresh
  <2>1. ElidedIn(messages) = {i \in 1..(n + 1) : all[i].elided}
    BY <1>1, <1>3, <1>7 DEF ElidedIn
  <2>2. ElidedIn(new) = {i \in 1..(n + 1) : i \in Stale(all) /\ all[i].bulky}
    BY <1>6, <1>7, <1>14 DEF ElidedIn
  <2> QED BY <2>1, <2>2, <1>12, <1>16
<1>18. ElidedIn(messages) \cap fresh = {}
  BY <1>1 DEF ElidedIn
<1>19. /\ IsFiniteSet(ElidedIn(messages)) /\ Cardinality(ElidedIn(messages)) \in Nat
  BY <1>3, PlacesAreFinite DEF ElidedIn
<1>20. IsFiniteSet(fresh) /\ Cardinality(fresh) \in Nat
  BY <1>1, <1>3, <1>16, PlacesAreFinite
<1> HIDE DEF fresh
<1>21. Cardinality(ElidedIn(new)) =
         Cardinality(ElidedIn(messages)) + Cardinality(fresh) - Cardinality({})
  BY <1>17, <1>18, <1>19, <1>20, FS_Union
<1>22. compactions' = Cardinality(ElidedIn(new))
  BY <1>2, <1>5, <1>19, <1>20, <1>21, FS_EmptySet
<1> QED BY <1>15, <1>22 DEF new, CompactionSound, ElidedRightly, LaterResults, ElidedIn

LEMMA CompactionStep == TypeOK /\ CompactionSound /\ [Next]_vars => CompactionSound'
<1> SUFFICES ASSUME TypeOK, CompactionSound, [Next]_vars PROVE CompactionSound'
  OBVIOUS
<1> USE DEF talkVars
<1>1. CASE UNCHANGED <<messages, compactions>>
  BY <1>1 DEF CompactionSound
<1>2. ASSUME NEW c \in Costs, NEW n \in BatchSizes, ModelCallsTools(c, n) PROVE CompactionSound'
  <2>1. /\ messages' = Append(messages, Say("calls")) /\ compactions' = compactions
        /\ messages \in Seq(Message)
    BY <1>2 DEF ModelCallsTools, TypeOK
  <2>2. /\ Say("calls") \in Message /\ Say("calls").kind # "results" /\ ~Say("calls").elided
    BY SayType DEF Kinds, Say
  <2>3. messages' = messages \o <<Say("calls")>> /\ <<Say("calls")>> \in Seq(Message)
        /\ \A i \in 1..Len(<<Say("calls")>>) : <<Say("calls")>>[i] = Say("calls")
    BY <2>1, <2>2
  <2> QED BY <2>1, <2>2, <2>3, PlainMessagesKeepWindow
<1>3. ASSUME NEW c \in Costs, NEW s \in Stops, AnswerSentBack(c, s) PROVE CompactionSound'
  <2> DEFINE more == <<Say("answer"), Say("question")>>
  <2>1. messages' = messages \o more /\ compactions' = compactions
    BY <1>3 DEF AnswerSentBack
  <2>2. /\ Say("answer") \in Message /\ Say("answer").kind # "results" /\ ~Say("answer").elided
        /\ Say("question") \in Message /\ Say("question").kind # "results"
        /\ ~Say("question").elided
    BY SayType DEF Kinds, Say
  <2>3. more \in Seq(Message) /\ \A i \in 1..Len(more) : more[i].kind # "results" /\ ~more[i].elided
    BY <2>2
  <2> HIDE DEF more
  <2> QED BY <2>1, <2>3, PlainMessagesKeepWindow
<1>4. CASE ResultsReturned
  BY <1>4, ResultsMoveWindow
<1> QED
  BY <1>1, <1>2, <1>3, <1>4
  DEF Next, LoopStep, Finished, vars, Dispatch, GetSlice, RunSqlWithIds, ReadOther, WriteNote,
      CallRefused, Logged, CeilingRefusesTurn, ProviderFails, AnswerStands,
      ClosingTurn, ClosingTurnRefused, Record

\* Compaction only ever summarises results older than the recent window, keeps
\* every recent one whole, and reports exactly the messages it changed.
THEOREM CompactionIsSound == Spec => []CompactionSound
<1>1. Init => CompactionSound
  <2> SUFFICES ASSUME Init PROVE CompactionSound
    OBVIOUS
  <2>1. messages = <<Say("opening")>> /\ compactions = 0
    BY DEF Init
  <2>2. ~Say("opening").elided /\ Say("opening").kind # "results"
    BY DEF Say
  <2>3. DOMAIN messages = {1} /\ messages[1] = Say("opening")
    BY <2>1
  <2>4. ElidedIn(messages) = {}
    BY <2>2, <2>3 DEF ElidedIn
  <2> QED BY <2>1, <2>2, <2>3, <2>4, FS_EmptySet, CompactionByMessage DEF ElidedRightly
<1>2. TypeOK /\ CompactionSound /\ [Next]_vars => CompactionSound'
  BY CompactionStep
<1> QED BY <1>1, <1>2, TypeCorrect, PTL DEF Spec
=============================================================================
