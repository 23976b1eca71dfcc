------------------------------ MODULE Rebuttal ------------------------------
(***************************************************************************)
(* The short debate of agent/adversarial.py: a critique raises objections, *)
(* the investigation may read rows and then answers them by id, and what   *)
(* both said is paired and stored (_rebut, _outcome, _paired_objections,   *)
(* _answered_ids, _record).  InvestigationRun places it among the stages;  *)
(* here its content is kept.                                               *)
(*                                                                         *)
(* Objection i carries the id "o<i>" the code hands out, i here.  Answers  *)
(* come back in any number and order, name any id, one that was never      *)
(* handed out, or none.                                                    *)
(***************************************************************************)
EXTENDS Integers, Sequences, FiniteSets

CONSTANTS
  Events,         \* log events a reader may return and an answer may cite
  MaxObjections,  \* bound: objections of one critique
  MaxAnswers,     \* bound: responses in one reply
  RebuttalCalls,  \* pipeline.rebuttal_tool_calls
  MaxBatch        \* bound: tool calls in one turn

NoId == 0                        \* a response without an objection_id
StrayId == MaxObjections + 1     \* an id that was never handed out

Objection == [severity : {"high", "medium"}, evidenced : BOOLEAN]
Answer == [id : NoId..StrayId, conceded : BOOLEAN, cites : SUBSET Events]

ASSUME RebuttalAssumption ==
  /\ MaxObjections \in Nat /\ MaxAnswers \in Nat
  /\ RebuttalCalls \in Nat /\ MaxBatch \in Nat

VARIABLES
  pc,           \* "critique", "rebut", "record", "done"
  objections,   \* AdversarialResult.objections
  calls,        \* tool_calls_made
  seen,         \* the rebuttal toolbox's seen_events
  answers,      \* AdversarialResult.rebuttals
  reply,        \* reply[i]: the stored row of objection i, its response
  strays,       \* the rows of unmatched responses
  outcome,      \* AdversarialResult.outcome
  alarm         \* ADVERSARIAL_UNREBUTTED_HIGH_SEVERITY

vars == <<pc, objections, calls, seen, answers, reply, strays, outcome, alarm>>

\* No response drawn: NULL in the row.
Silence == [id |-> NoId, conceded |-> FALSE, cites |-> {}]

Evidenced == {i \in DOMAIN objections : objections[i].evidenced}

\* A bug: the answer at an objection's place in the list is taken for its own.
RepliesByPosition(i) == {k \in DOMAIN answers : k = i}

\* Responses that quote id i back.
Replies(i) == {k \in DOMAIN answers : answers[k].id = i}

\* The one the dict of _paired_objections keeps for id i: the last.
Kept(i) == {answers[k] : k \in {k \in Replies(i) : \A j \in Replies(i) : j <= k}}

\* An answer cites only what the rebuttal was shown.
Shown(cites) == cites \cap seen

\* _answered_ids, from the other side: objections no response names.
Unanswered == {i \in DOMAIN objections : Replies(i) = {}}

\* _outcome.
Outcome ==
  IF objections = <<>> THEN "no_objections"
  ELSE IF Evidenced = {} THEN "objections_unevidenced"
  ELSE IF \E k \in DOMAIN answers : answers[k].conceded THEN "objections_conceded"
  ELSE IF answers # <<>> THEN "objections_answered" ELSE "objections_open"
-----------------------------------------------------------------------------
Init ==
  /\ pc = "critique"
  /\ objections = <<>> /\ calls = 0 /\ seen = {} /\ answers = <<>>
  /\ reply = <<>> /\ strays = {}
  /\ outcome = "not_run" /\ alarm = 0

\* The critique's objections; only evidenced ones are worth a rebuttal.
Object(os) ==
  /\ pc = "critique"
  /\ objections' = os
  /\ pc' = IF \E i \in DOMAIN os : os[i].evidenced THEN "rebut" ELSE "record"
  /\ UNCHANGED <<calls, seen, answers, reply, strays, outcome, alarm>>

\* Readers are offered until the calls are used up, and a turn that may ask
\* may ask for several.
Read(n, S) ==
  /\ pc = "rebut"
  /\ calls < RebuttalCalls
  /\ calls' = calls + n
  /\ seen' = seen \cup S
  /\ UNCHANGED <<pc, objections, answers, reply, strays, outcome, alarm>>

\* The reply without tools, or once they are gone: its responses, or nothing
\* if it cannot be read.
Respond(as) ==
  /\ pc = "rebut"
  /\ answers' = [k \in DOMAIN as |-> [as[k] EXCEPT !.cites = Shown(as[k].cites)]]
  /\ pc' = "record"
  /\ UNCHANGED <<objections, calls, seen, reply, strays, outcome, alarm>>

\* _record: objections and responses are paired and stored, with the count
\* of those that went unanswered.
Record ==
  /\ pc = "record"
  /\ reply' = [i \in DOMAIN objections |->
                 IF Replies(i) = {} THEN Silence ELSE CHOOSE a \in Kept(i) : TRUE]
  /\ strays' = UNION {Kept(i) : i \in (1..StrayId) \ DOMAIN objections}
  /\ outcome' = Outcome
  /\ alarm' = Cardinality({i \in Unanswered : /\ objections[i].severity = "high"
                                             /\ objections[i].evidenced})
  /\ pc' = "done"
  /\ UNCHANGED <<objections, calls, seen, answers>>

Done == pc = "done" /\ UNCHANGED vars

Next ==
  \/ \E n \in 0..MaxObjections : \E os \in [1..n -> Objection] : Object(os)
  \/ \E n \in 1..MaxBatch, S \in SUBSET Events : Read(n, S)
  \/ \E n \in 0..MaxAnswers : \E as \in [1..n -> Answer] : Respond(as)
  \/ Record
  \/ Done

Spec == Init /\ [][Next]_vars
-----------------------------------------------------------------------------
(* Properties.                                                              *)

\* Every variable holds a value of the kind the code keeps there.
TypeOK ==
  /\ pc \in {"critique", "rebut", "record", "done"}
  /\ objections \in Seq(Objection)
  /\ calls \in Nat
  /\ seen \subseteq Events
  /\ answers \in Seq(Answer)
  /\ reply \in Seq(Answer) /\ strays \subseteq Answer
  /\ outcome \in {"not_run", "no_objections", "objections_unevidenced",
                  "objections_conceded", "objections_answered", "objections_open"}
  /\ alarm \in Nat

\* A stored response is one given to that very objection: no objection shows
\* a concession, or rows, it never drew ("an admission the investigation
\* never made").
ResponsesAreOwn ==
  pc = "done" => \A i \in DOMAIN objections :
    reply[i] # Silence => /\ reply[i].id = i
                          /\ \E k \in DOMAIN answers : answers[k] = reply[i]

\* Rows an answer is stored with were shown to the rebuttal.
AnswersCiteShown ==
  /\ \A i \in DOMAIN reply : reply[i].cites \subseteq seen
  /\ \A a \in strays : a.cites \subseteq seen

\* The count behind the report's warning is the number of stored rows a reader
\* sees without a response, of those that were evidenced and severe.
AlarmMatchesRows ==
  pc = "done" =>
    alarm = Cardinality({i \in DOMAIN objections : /\ reply[i] = Silence
                                                   /\ objections[i].severity = "high"
                                                   /\ objections[i].evidenced})

\* "objections_answered" is never said over a stored concession, and neither
\* "conceded" nor "answered" over a debate that drew no response.
OutcomeMatchesRows ==
  /\ outcome = "objections_answered" =>
       ~\E a \in {reply[i] : i \in DOMAIN reply} \cup strays : a.conceded
  /\ outcome = "objections_open" =>
       \A a \in {reply[i] : i \in DOMAIN reply} \cup strays : a = Silence
=============================================================================
