-------------------------- MODULE InvestigationRun --------------------------
(***************************************************************************)
(* The attempts made to investigate one scratchpad: `investigate` with its *)
(* --resume and --restart (cli.py, and the MCP tool), run_investigation    *)
(* (agent/runner.py), run_synthesis (agent/synthesis.py) and               *)
(* run_adversarial_check with its rebuttal (agent/adversarial.py), all     *)
(* charged to one TokenBudget.                                             *)
(*                                                                         *)
(* What the scratchpad keeps outlives the process: notes, the query log,   *)
(* the critique and the metrics are each committed on their own, and the   *)
(* process may die between any two commits.  The search itself is the      *)
(* subject of AgentLoop and appears here as any number of turns that may   *)
(* write notes.                                                            *)
(*                                                                         *)
(* pc: "idle" before the first attempt; "forget", "build", "search",       *)
(* "synthesise", "synthesised", "critique", "rebut", "save", "saved",      *)
(* "finish" within one; "done", "failed" (an exception left it), "dead"    *)
(* (the process died) after it.                                            *)
(***************************************************************************)
EXTENDS Integers, Sequences, FiniteSets

CONSTANTS
  Ids,             \* template and event ids notes may cite
  MaxAttempts,     \* bound: attempts made on the scratchpad
  MaxTurns,        \* bound: turns of one search (pipeline.max_agent_tool_calls)
  RebuttalCalls,   \* pipeline.rebuttal_tool_calls
  Budgeted,        \* is there a pipeline.max_total_tokens
  Ceiling,         \* its value
  Costs,           \* total tokens one model call may cost
  MaxCrashes,      \* bound: how often the process may die
  Malformed        \* may a reply hold values its parsing raises on

Names == {"investigate", "synthesis", "synthesis_failed", "adversarial",
          "adversarial_failed", "budget", "refused_stages"}

Stages == {"investigate", "synthesis", "adversarial"}

Commands == {"plain", "resume", "restart"}

LoopOutcomes == {"converged", "budget_limited", "no_conclusion"}

UnusableConclusions == {"unreadable", "empty", "no_usable_citations"}

Answers == {"objections_answered", "objections_conceded", "objections_open"}

Verdicts == {"nothing_to_check", "unreadable_critique", "no_objections",
             "objections_unevidenced", "rebuttal_refused"} \cup Answers

Outcomes == LoopOutcomes \cup UnusableConclusions \cup Verdicts
            \cup {"none", "written", "nothing_to_synthesise"}

Note == [by : 1..MaxAttempts, kind : {"finding", "closing", "conclusion"},
         step : Nat, cites : SUBSET Ids]

NoCritique == [by |-> 0, outcome |-> "none", read |-> 0]

ASSUME RunAssumption ==
  /\ MaxAttempts \in Nat /\ MaxTurns \in Nat
  /\ RebuttalCalls \in Nat
  /\ Budgeted \in BOOLEAN
  /\ Ceiling \in Nat \ {0}
  /\ Costs \subseteq Nat
  /\ MaxCrashes \in Nat
  /\ Malformed \in BOOLEAN

VARIABLES
  notes,         \* scratchpad_notes, in insertion order
  trail,         \* the attempts whose calls query_log holds
  critique,      \* adversarial_summary and adversarial_objections
  stamp,         \* stamp[m]: the attempt that recorded metric m, 0 if absent
  outcomes,      \* outcomes[s]: the outcome metric of stage s
  saidSpent,     \* BUDGET_SPENT_TOKENS
  saidRefused,   \* BUDGET_REFUSED_STAGES
  pc,
  attempt,
  synthesising,  \* is a synthesis model configured
  checking,      \* is the adversarial pass asked for
  turns,         \* turns, or tool calls of the rebuttal, taken so far
  spent, last,   \* TokenBudget.spent, and the cost of the last call
  refused,       \* run_investigation's list of refused stages
  found,         \* AdversarialResult.outcome of the pass under way
  read,          \* how many notes that pass was shown
  crashes

durable == <<notes, trail, critique, stamp, outcomes, saidSpent, saidRefused>>
options == <<attempt, synthesising, checking>>
spending == <<spent, last>>
pass == <<found, read>>
vars == <<durable, pc, options, turns, spending, refused, pass, crashes>>

-----------------------------------------------------------------------------

\* TokenBudget.exhausted: BudgetedProvider raises TokenCeilingReached.
Exhausted == Budgeted /\ spent >= Ceiling

\* BudgetedProvider.converse makes the call and charges it.
Charge(c) ==
  /\ ~Exhausted
  /\ spent' = IF Budgeted THEN spent + c ELSE spent
  /\ last' = c

\* db.record: one metric, upserted.
Stamped(m) == [stamp EXCEPT ![m] = attempt]

\* Ids any note of the scratchpad cites.
Gathered == UNION {notes[i].cites : i \in DOMAIN notes}
-----------------------------------------------------------------------------
Init ==
  /\ notes = <<>> /\ trail = {} /\ critique = NoCritique
  /\ stamp = [m \in Names |-> 0]
  /\ outcomes = [s \in Stages |-> "none"]
  /\ saidSpent = 0 /\ saidRefused = {}
  /\ pc = "idle" /\ attempt = 0
  /\ synthesising = FALSE /\ checking = FALSE
  /\ turns = 0 /\ spent = 0 /\ last = 0
  /\ refused = {} /\ found = "none" /\ read = 0
  /\ crashes = 0

\* clear_investigation, for --restart.
Cleared(cmd) ==
  IF cmd = "restart"
  THEN notes' = <<>> /\ trail' = {} /\ critique' = NoCritique
  ELSE UNCHANGED <<notes, trail, critique>>

\* investigate_command, up to the call of run_investigation: notes of an
\* earlier attempt refuse a plain one, and --restart clears the scratchpad.
Start(cmd, synth, check) ==
  /\ pc \in {"idle", "done", "failed", "dead"}
  /\ attempt < MaxAttempts
  /\ cmd = "plain" => notes = <<>>
  /\ Cleared(cmd)
  /\ attempt' = attempt + 1
  /\ synthesising' = synth /\ checking' = check
  /\ pc' = "forget"
  /\ UNCHANGED <<stamp, outcomes, saidSpent, saidRefused, turns,
                 spending, refused, pass, crashes>>

\* A bug: the metrics to clear are a list, and the list misses one.
ForgetStagesByList ==
  /\ pc = "forget"
  /\ stamp' = [m \in Names |-> IF m = "refused_stages" THEN stamp[m] ELSE 0]
  /\ outcomes' = [s \in Stages |-> "none"]
  /\ saidSpent' = 0
  /\ pc' = "build"
  /\ UNCHANGED <<notes, trail, critique, saidRefused, options, turns,
                 spending, refused, pass, crashes>>

\* forget_stages(INVESTIGATION_STAGES).
ForgetStages ==
  /\ pc = "forget"
  /\ stamp' = [m \in Names |-> 0]
  /\ outcomes' = [s \in Stages |-> "none"]
  /\ saidSpent' = 0 /\ saidRefused' = {}
  /\ pc' = "build"
  /\ UNCHANGED <<notes, trail, critique, options, turns, spending,
                 refused, pass, crashes>>

\* The budget, every provider, the loop and its toolbox are built.
BuildProviders ==
  /\ pc = "build"
  /\ spent' = 0 /\ last' = 0 /\ refused' = {}
  /\ turns' = 0 /\ found' = "none" /\ read' = 0
  /\ pc' = "search"
  /\ UNCHANGED <<durable, options, crashes>>

\* MissingCredentialError from build_provider.
CredentialMissing ==
  /\ pc = "build"
  /\ pc' = "failed"
  /\ UNCHANGED <<durable, options, turns, spending, refused, pass, crashes>>

\* A turn of the search that reads.
SearchReads(c) ==
  /\ pc = "search" /\ turns < MaxTurns
  /\ Charge(c)
  /\ turns' = turns + 1
  /\ trail' = trail \cup {attempt}
  /\ UNCHANGED <<notes, critique, stamp, outcomes, saidSpent, saidRefused, pc,
                 options, refused, pass, crashes>>

\* A turn of the search that writes a note.
SearchWrites(c, t) ==
  /\ pc = "search" /\ turns < MaxTurns
  /\ Charge(c)
  /\ turns' = turns + 1
  /\ trail' = trail \cup {attempt}
  /\ notes' = Append(notes, [by |-> attempt, kind |-> "finding",
                             step |-> turns + 1, cites |-> t])
  /\ UNCHANGED <<critique, stamp, outcomes, saidSpent, saidRefused, pc,
                 options, refused, pass, crashes>>

\* The metrics of the finished search (InvestigationLoop._record).
SearchRecorded(o) ==
  /\ stamp' = Stamped("investigate")
  /\ outcomes' = [outcomes EXCEPT !["investigate"] = o]
  /\ pc' = "synthesise"
  /\ UNCHANGED <<trail, critique, saidSpent, saidRefused, options, turns, pass, crashes>>

\* The model's own conclusion ends the search.
SearchConcludes(c) ==
  /\ pc = "search"
  /\ Charge(c)
  /\ SearchRecorded(IF notes = <<>> THEN "no_conclusion" ELSE "converged")
  /\ UNCHANGED <<notes, refused>>

\* A budget ends it, after a closing turn whose text, if any, is kept as a
\* note that cites nothing.
SearchLimited(c, text) ==
  /\ pc = "search" /\ turns > 0
  /\ Charge(c)
  /\ SearchRecorded("budget_limited")
  /\ notes' = IF text THEN Append(notes, [by |-> attempt, kind |-> "closing",
                                         step |-> turns + 1, cites |-> {}])
              ELSE notes
  /\ UNCHANGED refused

\* The ceiling ends it: stop_reason "token_ceiling".
SearchRefused ==
  /\ pc = "search"
  /\ Exhausted
  /\ SearchRecorded("budget_limited")
  /\ refused' = refused \cup {"investigate"}
  /\ UNCHANGED <<notes, spending>>

\* Any other ProviderError of the search fails the run.
SearchFails ==
  /\ pc = "search"
  /\ ~Exhausted
  /\ pc' = "failed"
  /\ UNCHANGED <<durable, options, turns, spending, refused, pass, crashes>>

-----------------------------------------------------------------------------
(* run_synthesis.                                                           *)

SynthesisRecorded(o) ==
  /\ stamp' = Stamped("synthesis")
  /\ outcomes' = [outcomes EXCEPT !["synthesis"] = o]
  /\ pc' = "critique"
  /\ UNCHANGED <<trail, critique, saidSpent, saidRefused, options, turns,
                 refused, pass, crashes>>

NoSynthesis ==
  /\ pc = "synthesise"
  /\ ~synthesising
  /\ pc' = "critique"
  /\ UNCHANGED <<durable, options, turns, spending, refused, pass, crashes>>

\* Without notes no call is made.
NothingToSynthesise ==
  /\ pc = "synthesise"
  /\ synthesising /\ notes = <<>>
  /\ SynthesisRecorded("nothing_to_synthesise")
  /\ UNCHANGED <<notes, spending>>

AskSynthesis == pc = "synthesise" /\ synthesising /\ notes # <<>>

\* A bug: a refused synthesis is asked for again.
SynthesisRefusedRetried ==
  /\ AskSynthesis
  /\ Exhausted
  /\ refused' = refused \cup {"synthesis"}
  /\ UNCHANGED <<durable, pc, options, turns, spending, pass, crashes>>

\* TokenCeilingReached: the notes stand, the refusal is kept for the end.
SynthesisRefused ==
  /\ AskSynthesis
  /\ Exhausted
  /\ refused' = refused \cup {"synthesis"}
  /\ pc' = "critique"
  /\ UNCHANGED <<durable, options, turns, spending, pass, crashes>>

\* ProviderError: the notes stand, the failure is a metric.
SynthesisFails ==
  /\ AskSynthesis
  /\ ~Exhausted
  /\ stamp' = Stamped("synthesis_failed")
  /\ pc' = "critique"
  /\ UNCHANGED <<notes, trail, critique, outcomes, saidSpent, saidRefused,
                 options, turns, spending, refused, pass, crashes>>

\* A reply without JSON, a conclusion, or a citation some note had.
SynthesisUnusable(c, o) ==
  /\ AskSynthesis
  /\ Charge(c)
  /\ SynthesisRecorded(o)
  /\ UNCHANGED notes

\* int() on an id it cannot read: the ValueError is nobody's to catch.
SynthesisMalformed(c) ==
  /\ AskSynthesis
  /\ Malformed
  /\ Charge(c)
  /\ pc' = "failed"
  /\ UNCHANGED <<durable, options, turns, refused, pass, crashes>>

\* A bug: a conclusion may cite what no note had.
UsableAsNamed(named) == named

\* The ids a conclusion keeps of those it names.
Usable(named) == named \cap Gathered

\* A bug: the conclusion is numbered after the search just made.
IsConclusionStepOfSearch(k) == k = turns + 1

\* max(note.step for note in notes) + 1, where a conclusion is stored.
IsConclusionStep(k) == /\ \E i \in DOMAIN notes : k = notes[i].step + 1
                       /\ \A i \in DOMAIN notes : notes[i].step < k

\* write_note commits the conclusion.
SynthesisWrites(c, named) ==
  /\ AskSynthesis
  /\ Charge(c)
  /\ Usable(named) # {}
  /\ \E k \in {turns + 1} \cup {notes[i].step + 1 : i \in DOMAIN notes} :
       /\ IsConclusionStep(k)
       /\ notes' = Append(notes, [by |-> attempt, kind |-> "conclusion",
                                  step |-> k, cites |-> Usable(named)])
  /\ pc' = "synthesised"
  /\ UNCHANGED <<trail, critique, stamp, outcomes, saidSpent, saidRefused,
                 options, turns, refused, pass, crashes>>

\* The metrics of a synthesis that wrote.
SynthesisDone ==
  /\ pc = "synthesised"
  /\ SynthesisRecorded("written")
  /\ UNCHANGED <<notes, spending>>

-----------------------------------------------------------------------------
(* run_adversarial_check.                                                   *)

NoCheck ==
  /\ pc = "critique"
  /\ ~checking
  /\ pc' = "finish"
  /\ UNCHANGED <<durable, options, turns, spending, refused, pass, crashes>>

\* The pass has its verdict, over the notes it read.
Found(o, n) ==
  /\ found' = o
  /\ read' = n
  /\ pc' = "save"
  /\ UNCHANGED <<durable, options, turns, refused, crashes>>

NothingToCheck ==
  /\ pc = "critique"
  /\ checking /\ notes = <<>>
  /\ Found("nothing_to_check", 0)
  /\ UNCHANGED spending

AskCritique == pc = "critique" /\ checking /\ notes # <<>>

\* A bug: the critique is shown what the search wrote, not the conclusion.
ShownToCritiqueBeforeSynthesis ==
  Cardinality({i \in DOMAIN notes : notes[i].kind # "conclusion"})

\* _evidence_bundle: the notes as the scratchpad has them now.
ShownToCritique == Len(notes)

CritiqueRefused ==
  /\ AskCritique
  /\ Exhausted
  /\ refused' = refused \cup {"adversarial"}
  /\ pc' = "finish"
  /\ UNCHANGED <<durable, options, turns, spending, pass, crashes>>

\* An objection or an answer the parsing raises on: the pass dies unrecorded.
CheckMalformed(c) ==
  /\ AskCritique \/ pc = "rebut"
  /\ Malformed
  /\ Charge(c)
  /\ pc' = "failed"
  /\ UNCHANGED <<durable, options, turns, refused, pass, crashes>>

\* A reply that cannot be read, or raises nothing with evidence.
CritiqueStands(c, o) ==
  /\ AskCritique
  /\ Charge(c)
  /\ Found(o, ShownToCritique)

\* Objections that cite evidence go to the rebuttal.
CritiqueObjects(c) ==
  /\ AskCritique
  /\ Charge(c)
  /\ read' = ShownToCritique
  /\ turns' = 0
  /\ pc' = "rebut"
  /\ UNCHANGED <<durable, options, refused, found, crashes>>

\* ProviderError of the critique, or of the rebuttal: what was objected is
\* lost with the exception.
CheckFails ==
  /\ AskCritique \/ pc = "rebut"
  /\ ~Exhausted
  /\ stamp' = Stamped("adversarial_failed")
  /\ pc' = "finish"
  /\ UNCHANGED <<notes, trail, critique, outcomes, saidSpent, saidRefused,
                 options, turns, spending, refused, pass, crashes>>

\* The rebuttal asks for n readers; tools are offered while calls are left.
RebuttalReads(c, n) ==
  /\ pc = "rebut"
  /\ turns < RebuttalCalls
  /\ Charge(c)
  /\ turns' = turns + n
  /\ trail' = trail \cup {attempt}
  /\ UNCHANGED <<notes, critique, stamp, outcomes, saidSpent, saidRefused, pc,
                 options, refused, pass, crashes>>

RebuttalAnswers(c, o) ==
  /\ pc = "rebut"
  /\ Charge(c)
  /\ Found(o, read)

\* _RebuttalRefused: recorded, then raised.
RebuttalRefused ==
  /\ pc = "rebut"
  /\ Exhausted
  /\ Found("rebuttal_refused", read)
  /\ UNCHANGED spending

\* _record, first half: save_adversarial replaces whatever was there.
SaveCritique ==
  /\ pc = "save"
  /\ critique' = [by |-> attempt, outcome |-> found, read |-> read]
  /\ pc' = "saved"
  /\ UNCHANGED <<notes, trail, stamp, outcomes, saidSpent, saidRefused, options,
                 turns, spending, refused, pass, crashes>>

\* _record, second half: the metrics; a refused rebuttal is then raised.
RecordCritique ==
  /\ pc = "saved"
  /\ stamp' = Stamped("adversarial")
  /\ outcomes' = [outcomes EXCEPT !["adversarial"] = found]
  /\ refused' = IF found = "rebuttal_refused" THEN refused \cup {"adversarial"}
                ELSE refused
  /\ pc' = "finish"
  /\ UNCHANGED <<notes, trail, critique, saidSpent, saidRefused, options, turns,
                 spending, pass, crashes>>
-----------------------------------------------------------------------------
\* The budget's metrics, when there is one, and the return.
Finish ==
  /\ pc = "finish"
  /\ IF Budgeted
     THEN /\ stamp' = [stamp EXCEPT !["budget"] = attempt,
                                    !["refused_stages"] = IF refused = {} THEN @ ELSE attempt]
          /\ saidSpent' = spent
          /\ saidRefused' = IF refused = {} THEN saidRefused ELSE refused
     ELSE UNCHANGED <<stamp, saidSpent, saidRefused>>
  /\ pc' = "done"
  /\ UNCHANGED <<notes, trail, critique, outcomes, options, turns, spending,
                 refused, pass, crashes>>

\* The process dies: what it had committed stays, what it held is gone.
Crash ==
  /\ crashes < MaxCrashes
  /\ pc \notin {"idle", "done", "failed", "dead"}
  /\ crashes' = crashes + 1
  /\ turns' = 0 /\ spent' = 0 /\ last' = 0
  /\ refused' = {} /\ found' = "none" /\ read' = 0
  /\ pc' = "dead"
  /\ UNCHANGED <<durable, options>>

Settled ==
  /\ pc \in {"idle", "done", "failed", "dead"}
  /\ UNCHANGED vars

Search(c) ==
  \/ SearchReads(c)
  \/ \E t \in SUBSET Ids \ {{}} : SearchWrites(c, t)
  \/ SearchConcludes(c)
  \/ \E text \in BOOLEAN : SearchLimited(c, text)

Synthesis(c) ==
  \/ \E o \in UnusableConclusions : SynthesisUnusable(c, o)
  \/ SynthesisMalformed(c)
  \/ \E named \in SUBSET Ids : SynthesisWrites(c, named)

Check(c) ==
  \/ \E o \in {"unreadable_critique", "no_objections", "objections_unevidenced"} :
       CritiqueStands(c, o)
  \/ CheckMalformed(c) \/ CritiqueObjects(c)
  \/ \E n \in 1..2 : RebuttalReads(c, n)
  \/ \E o \in Answers : RebuttalAnswers(c, o)

RunStep ==
  \/ ForgetStages \/ BuildProviders \/ CredentialMissing
  \/ SearchRefused \/ SearchFails
  \/ NoSynthesis \/ NothingToSynthesise \/ SynthesisRefused \/ SynthesisFails
  \/ SynthesisDone
  \/ NoCheck \/ NothingToCheck \/ CritiqueRefused \/ CheckFails
  \/ RebuttalRefused \/ SaveCritique \/ RecordCritique
  \/ \E c \in Costs : Search(c) \/ Synthesis(c) \/ Check(c)
  \/ Finish

Next ==
  \/ RunStep
  \/ \E cmd \in Commands, synth, check \in BOOLEAN : Start(cmd, synth, check)
  \/ Crash
  \/ Settled

\* A model call returns or raises (llm/retry.py bounds its retries), and all
\* else is local: an attempt goes on as long as its process lives.
Spec == Init /\ [][Next]_vars /\ WF_vars(RunStep)
-----------------------------------------------------------------------------
(* Properties.                                                              *)

\* Every variable holds a value of the kind the code keeps there.
TypeOK ==
  /\ notes \in Seq(Note)
  /\ trail \subseteq 1..MaxAttempts
  /\ critique \in [by : 0..MaxAttempts, outcome : Outcomes, read : Nat]
  /\ stamp \in [Names -> 0..MaxAttempts]
  /\ outcomes \in [Stages -> Outcomes]
  /\ saidSpent \in Nat /\ saidRefused \subseteq Stages
  /\ pc \in {"idle", "forget", "build", "search", "synthesise", "synthesised",
            "critique", "rebut", "save", "saved", "finish", "done", "failed", "dead"}
  /\ attempt \in 0..MaxAttempts
  /\ pc # "idle" => attempt \in 1..MaxAttempts
  /\ synthesising \in BOOLEAN /\ checking \in BOOLEAN
  /\ turns \in Nat /\ spent \in Nat /\ last \in Nat
  /\ refused \subseteq Stages
  /\ found \in Outcomes /\ read \in Nat
  /\ crashes \in 0..MaxCrashes

Findings == {i \in DOMAIN notes : notes[i].kind = "finding"}

\* A conclusion rests on evidence, and only on evidence some search gathered,
\* however many attempts and earlier conclusions lie between (synthesis.py:
\* "It cannot introduce evidence").
EvidenceIsGathered ==
  \A i \in DOMAIN notes : notes[i].kind = "conclusion" =>
    /\ notes[i].cites # {}
    /\ notes[i].cites \subseteq UNION {notes[j].cites : j \in Findings}

\* A conclusion said to be written is the last note in the scratchpad's order
\* by step, over the notes of every attempt it was drawn from.
ConclusionIsLast ==
  (stamp["synthesis"] = attempt /\ outcomes["synthesis"] = "written") =>
    LET n == Len(notes)
    IN  /\ n > 0 /\ notes[n].kind = "conclusion" /\ notes[n].by = attempt
        /\ \A i \in 1..(n - 1) : notes[i].step < notes[n].step

\* What the scratchpad's metrics say of an investigation they say of this
\* attempt: none is inherited (runner.py: "a report must not warn about a
\* refusal that belonged to the run before").
MetricsAreOfThisAttempt ==
  pc \notin {"idle", "forget", "dead"} =>
    /\ \A m \in Names : stamp[m] \in {0, attempt}
    /\ saidRefused # {} => stamp["refused_stages"] = attempt

\* A finished run says of every stage what became of it: an outcome, a
\* failure or a refusal for one that was asked for, nothing for one that was
\* not.  No stage's absence passes as success.
Said(s) == \/ outcomes[s] # "none"
           \/ s = "synthesis" /\ stamp["synthesis_failed"] # 0
           \/ s = "adversarial" /\ stamp["adversarial_failed"] # 0
           \/ s \in saidRefused

EveryStageIsSaid ==
  pc = "done" => /\ Said("investigate")
                 /\ Said("synthesis") <=> synthesising
                 /\ Said("adversarial") <=> checking

\* All stages' providers share one ceiling: it is passed by at most the one
\* call in flight when it was reached, whichever stage made it.
OvershootIsOneCall == Budgeted => (spent = 0 \/ spent - last < Ceiling)

\* A verdict in the metrics is backed by the critique this attempt saved,
\* which read every note there is, the synthesised conclusion among them.
VerdictIsBacked ==
  (attempt > 0 /\ stamp["adversarial"] = attempt) =>
    critique = [by |-> attempt, outcome |-> outcomes["adversarial"], read |-> Len(notes)]

\* An attempt whose process lives comes to an end.
EveryAttemptEnds == (pc = "forget") ~> (pc \in {"done", "failed", "dead"})

-----------------------------------------------------------------------------
(* What the repository says and the code does not do.                       *)

\* Once the search is recorded, no later stage fails the run
\* (test_runner_degradation.py: "costs its stage, not the run").
LaterStagesNeverFailTheRun == pc = "failed" => stamp["investigate"] # attempt
=============================================================================
