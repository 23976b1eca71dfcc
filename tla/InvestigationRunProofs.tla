----------------------- MODULE InvestigationRunProofs -----------------------
(* What TLAPS proves about InvestigationRun for any number of attempts, any *)
(* ceiling and any costs.                                                   *)
EXTENDS InvestigationRun, SequenceTheorems, TLAPS

-----------------------------------------------------------------------------
(* Type correctness.                                                        *)

LEMMA InitType == Init => TypeOK
<1> SUFFICES ASSUME Init PROVE TypeOK
  OBVIOUS
<1>1. NoCritique \in [by : 0..MaxAttempts, outcome : Outcomes, read : Nat]
  BY RunAssumption DEF NoCritique, Outcomes
<1>2. /\ stamp \in [Names -> 0..MaxAttempts]
      /\ outcomes \in [Stages -> Outcomes]
      /\ found \in Outcomes
  BY RunAssumption DEF Init, Outcomes
<1>3. synthesising \in BOOLEAN /\ checking \in BOOLEAN
  BY Zenon DEF Init
<1>4. notes \in Seq(Note)
  BY DEF Init
<1> QED BY <1>1, <1>2, <1>3, <1>4, RunAssumption DEF Init, TypeOK

\* A charged call leaves numbers.
LEMMA ChargeType ==
  ASSUME TypeOK, NEW c \in Costs, Charge(c)
  PROVE  spent' \in Nat /\ last' \in Nat
  BY RunAssumption DEF TypeOK, Charge

\* A metric recorded in an attempt is stamped with it.
LEMMA StampedType ==
  ASSUME TypeOK, pc # "idle", NEW m \in Names
  PROVE  Stamped(m) \in [Names -> 0..MaxAttempts]
  BY DEF TypeOK, Stamped

\* A note appended to the scratchpad.
LEMMA NoteType ==
  ASSUME TypeOK, pc # "idle", NEW kind \in {"finding", "closing", "conclusion"},
         NEW k \in Nat, NEW t \in SUBSET Ids
  PROVE  Append(notes, [by |-> attempt, kind |-> kind, step |-> k, cites |-> t]) \in Seq(Note)
<1>1. [by |-> attempt, kind |-> kind, step |-> k, cites |-> t] \in Note
  BY DEF TypeOK, Note
<1> QED BY <1>1, AppendProperties DEF TypeOK

\* A conclusion is stored at a number.
LEMMA StepOfConclusion ==
  ASSUME TypeOK
  PROVE  {turns + 1} \cup {notes[i].step + 1 : i \in DOMAIN notes} \subseteq Nat
<1>1. \A i \in DOMAIN notes : notes[i] \in Note
  BY DEF TypeOK
<1>2. \A i \in DOMAIN notes : notes[i].step \in Nat
  BY <1>1 DEF Note
<1>3. turns \in Nat
  BY DEF TypeOK
<1> QED BY <1>2, <1>3

\* What the end of the search does to everything but notes, tokens, refusals.
LEMMA SearchRecordedType ==
  ASSUME TypeOK, pc = "search", NEW o \in LoopOutcomes, SearchRecorded(o),
         notes' \in Seq(Note), spent' \in Nat, last' \in Nat, refused' \subseteq Stages
  PROVE  TypeOK'
<1>1. stamp' \in [Names -> 0..MaxAttempts]
  BY StampedType DEF SearchRecorded, Names
<1>2. outcomes' \in [Stages -> Outcomes]
  BY DEF SearchRecorded, TypeOK, Outcomes, Stages
<1> QED BY <1>1, <1>2 DEF SearchRecorded, TypeOK, options, pass

LEMMA SynthesisRecordedType ==
  ASSUME TypeOK, pc # "idle", NEW o \in Outcomes, SynthesisRecorded(o),
         notes' \in Seq(Note), spent' \in Nat, last' \in Nat
  PROVE  TypeOK'
<1>1. stamp' \in [Names -> 0..MaxAttempts]
  BY StampedType DEF SynthesisRecorded, Names
<1>2. outcomes' \in [Stages -> Outcomes]
  BY DEF SynthesisRecorded, TypeOK, Stages
<1> QED BY <1>1, <1>2 DEF SynthesisRecorded, TypeOK, options, pass

LEMMA FoundType ==
  ASSUME TypeOK, pc # "idle", NEW o \in Outcomes, NEW n \in Nat, Found(o, n),
         spent' \in Nat, last' \in Nat
  PROVE  TypeOK'
  BY DEF Found, TypeOK, options, durable

LEMMA StepType == TypeOK /\ [Next]_vars => TypeOK'
<1> SUFFICES ASSUME TypeOK, [Next]_vars PROVE TypeOK'
  OBVIOUS
<1> USE DEF durable, options, spending, pass
<1>1. ASSUME NEW cmd \in Commands, NEW synth \in BOOLEAN, NEW check \in BOOLEAN,
             Start(cmd, synth, check)
      PROVE  TypeOK'
  <2>1. notes' \in Seq(Note) /\ trail' \subseteq 1..MaxAttempts
        /\ critique' \in [by : 0..MaxAttempts, outcome : Outcomes, read : Nat]
    <3>1. NoCritique \in [by : 0..MaxAttempts, outcome : Outcomes, read : Nat]
      BY RunAssumption DEF NoCritique, Outcomes
    <3>2. CASE cmd = "restart"
      BY <1>1, <3>1, <3>2 DEF Start, Cleared
    <3>3. CASE cmd # "restart"
      BY <1>1, <3>3 DEF Start, Cleared, TypeOK
    <3> QED BY <3>2, <3>3
  <2>2. attempt' \in 1..MaxAttempts /\ attempt' = attempt + 1 /\ pc' = "forget"
    BY <1>1, RunAssumption DEF Start, TypeOK
  <2>3. synthesising' \in BOOLEAN /\ checking' \in BOOLEAN
    BY <1>1, Zenon DEF Start
  <2> QED BY <1>1, <2>1, <2>2, <2>3 DEF Start, TypeOK
<1>2. CASE ForgetStages
  BY <1>2, RunAssumption DEF ForgetStages, TypeOK, Outcomes
<1>3. CASE BuildProviders
  BY <1>3 DEF BuildProviders, TypeOK, Outcomes
<1>4. CASE CredentialMissing
  BY <1>4 DEF CredentialMissing, TypeOK
<1>5. ASSUME NEW c \in Costs, SearchReads(c) PROVE TypeOK'
  <2>1. spent' \in Nat /\ last' \in Nat /\ trail' \subseteq 1..MaxAttempts
    BY <1>5, ChargeType DEF SearchReads, TypeOK
  <2> QED BY <1>5, <2>1 DEF SearchReads, TypeOK
<1>6. ASSUME NEW c \in Costs, NEW t \in SUBSET Ids, SearchWrites(c, t) PROVE TypeOK'
  <2>1. spent' \in Nat /\ last' \in Nat /\ trail' \subseteq 1..MaxAttempts
    BY <1>6, ChargeType DEF SearchWrites, TypeOK
  <2>2. notes' \in Seq(Note)
    BY <1>6, NoteType DEF SearchWrites, TypeOK
  <2> QED BY <1>6, <2>1, <2>2 DEF SearchWrites, TypeOK
<1>7. ASSUME NEW c \in Costs, SearchConcludes(c) PROVE TypeOK'
  BY <1>7, ChargeType, SearchRecordedType DEF SearchConcludes, LoopOutcomes, TypeOK
<1>8. ASSUME NEW c \in Costs, NEW text \in BOOLEAN, SearchLimited(c, text) PROVE TypeOK'
  <2>1. notes' \in Seq(Note)
    BY <1>8, NoteType DEF SearchLimited, TypeOK
  <2> QED BY <1>8, <2>1, ChargeType, SearchRecordedType DEF SearchLimited, LoopOutcomes, TypeOK
<1>9. CASE SearchRefused
  <2>1. refused' \subseteq Stages
    BY <1>9 DEF SearchRefused, TypeOK, Stages
  <2> QED BY <1>9, <2>1, SearchRecordedType DEF SearchRefused, LoopOutcomes, TypeOK
<1>10. CASE SearchFails
  BY <1>10 DEF SearchFails, TypeOK
<1>11. CASE NoSynthesis
  BY <1>11 DEF NoSynthesis, TypeOK
<1>12. CASE NothingToSynthesise
  BY <1>12, SynthesisRecordedType DEF NothingToSynthesise, Outcomes, TypeOK
<1>13. CASE SynthesisRefused
  BY <1>13 DEF SynthesisRefused, AskSynthesis, TypeOK, Stages
<1>14. CASE SynthesisFails
  BY <1>14, StampedType DEF SynthesisFails, AskSynthesis, TypeOK, Names
<1>15. ASSUME NEW c \in Costs, NEW o \in UnusableConclusions, SynthesisUnusable(c, o)
       PROVE  TypeOK'
  BY <1>15, ChargeType, SynthesisRecordedType
     DEF SynthesisUnusable, AskSynthesis, UnusableConclusions, Outcomes, TypeOK
<1>16. ASSUME NEW c \in Costs, SynthesisMalformed(c) PROVE TypeOK'
  BY <1>16, ChargeType DEF SynthesisMalformed, AskSynthesis, TypeOK
<1>17. ASSUME NEW c \in Costs, NEW named \in SUBSET Ids, SynthesisWrites(c, named)
       PROVE  TypeOK'
  <2>1. PICK k \in {turns + 1} \cup {notes[i].step + 1 : i \in DOMAIN notes} :
          notes' = Append(notes, [by |-> attempt, kind |-> "conclusion",
                                  step |-> k, cites |-> Usable(named)])
    BY <1>17 DEF SynthesisWrites
  <2>2. k \in Nat
    BY StepOfConclusion
  <2>3. notes' \in Seq(Note)
    BY <1>17, <2>1, <2>2, NoteType DEF SynthesisWrites, AskSynthesis, Usable
  <2>4. spent' \in Nat /\ last' \in Nat
    BY <1>17, ChargeType DEF SynthesisWrites
  <2> QED BY <1>17, <2>3, <2>4 DEF SynthesisWrites, AskSynthesis, TypeOK
<1>18. CASE SynthesisDone
  BY <1>18, SynthesisRecordedType DEF SynthesisDone, Outcomes, TypeOK
<1>19. CASE NoCheck
  BY <1>19 DEF NoCheck, TypeOK
<1>20. CASE NothingToCheck
  BY <1>20, FoundType DEF NothingToCheck, Outcomes, Verdicts, TypeOK
<1>21. CASE CritiqueRefused
  BY <1>21 DEF CritiqueRefused, AskCritique, TypeOK, Stages
<1>22. ASSUME NEW c \in Costs, CheckMalformed(c) PROVE TypeOK'
  BY <1>22, ChargeType DEF CheckMalformed, AskCritique, TypeOK
<1>23. Len(notes) \in Nat
  BY DEF TypeOK
<1>24. ASSUME NEW c \in Costs, CritiqueObjects(c) PROVE TypeOK'
  BY <1>23, <1>24, ChargeType DEF CritiqueObjects, AskCritique, ShownToCritique, TypeOK
<1>25. ASSUME NEW c \in Costs,
              NEW o \in {"unreadable_critique", "no_objections", "objections_unevidenced"},
              CritiqueStands(c, o)
       PROVE  TypeOK'
  BY <1>23, <1>25, ChargeType, FoundType
     DEF CritiqueStands, AskCritique, ShownToCritique, Outcomes, Verdicts
<1>26. CASE CheckFails
  BY <1>26, StampedType DEF CheckFails, AskCritique, TypeOK, Names
<1>27. ASSUME NEW c \in Costs, NEW n \in 1..2, RebuttalReads(c, n) PROVE TypeOK'
  <2>1. spent' \in Nat /\ last' \in Nat /\ trail' \subseteq 1..MaxAttempts /\ turns' \in Nat
    BY <1>27, ChargeType DEF RebuttalReads, TypeOK
  <2> QED BY <1>27, <2>1 DEF RebuttalReads, TypeOK
<1>28. ASSUME NEW c \in Costs, NEW o \in Answers, RebuttalAnswers(c, o) PROVE TypeOK'
  BY <1>28, ChargeType, FoundType DEF RebuttalAnswers, Outcomes, Verdicts, TypeOK
<1>29. CASE RebuttalRefused
  BY <1>29, FoundType DEF RebuttalRefused, Outcomes, Verdicts, TypeOK
<1>30. CASE SaveCritique
  BY <1>30 DEF SaveCritique, TypeOK
<1>31. CASE RecordCritique
  <2>1. stamp' \in [Names -> 0..MaxAttempts] /\ outcomes' \in [Stages -> Outcomes]
    BY <1>31, StampedType DEF RecordCritique, TypeOK, Names, Stages
  <2>2. refused' \subseteq Stages
    BY <1>31 DEF RecordCritique, TypeOK, Stages
  <2> QED BY <1>31, <2>1, <2>2 DEF RecordCritique, TypeOK
<1>32. CASE Finish
  <2>1. stamp' \in [Names -> 0..MaxAttempts]
    BY <1>32, RunAssumption DEF Finish, TypeOK, Names
  <2>2. saidSpent' \in Nat /\ saidRefused' \subseteq Stages
    BY <1>32, RunAssumption DEF Finish, TypeOK
  <2> QED BY <1>32, <2>1, <2>2 DEF Finish, TypeOK
<1>33. CASE Crash
  BY <1>33, RunAssumption DEF Crash, TypeOK, Outcomes
<1>34. CASE Settled \/ UNCHANGED vars
  BY <1>34 DEF Settled, vars, TypeOK
<1> QED BY <1>1, <1>2, <1>3, <1>4, <1>5, <1>6, <1>7, <1>8, <1>9, <1>10, <1>11,
           <1>12, <1>13, <1>14, <1>15, <1>16, <1>17, <1>18, <1>19, <1>20, <1>21,
           <1>22, <1>24, <1>25, <1>26, <1>27, <1>28, <1>29, <1>30, <1>31, <1>32,
           <1>33, <1>34
        DEF Next, RunStep, Search, Synthesis, Check

\* Every variable always holds a value of the kind the code keeps there.
THEOREM TypeCorrect == Spec => []TypeOK
  BY InitType, StepType, PTL DEF Spec
-----------------------------------------------------------------------------
(* The ceiling.                                                             *)

\* All stages share one ceiling: it is passed by at most the one call that was
\* in flight when it was reached.
THEOREM OvershootBounded == Spec => []OvershootIsOneCall
<1>1. Init => OvershootIsOneCall
  BY DEF Init, OvershootIsOneCall
<1>2. TypeOK /\ OvershootIsOneCall /\ [Next]_vars => OvershootIsOneCall'
  <2> SUFFICES ASSUME TypeOK, OvershootIsOneCall, [Next]_vars PROVE OvershootIsOneCall'
    OBVIOUS
  <2>1. CASE UNCHANGED spending
    BY <2>1 DEF spending, OvershootIsOneCall
  <2>2. CASE spent' = 0
    BY <2>2 DEF OvershootIsOneCall
  <2>3. ASSUME NEW c \in Costs, Charge(c) PROVE OvershootIsOneCall'
    BY <2>3, RunAssumption DEF Charge, Exhausted, OvershootIsOneCall, TypeOK
  <2>4. UNCHANGED spending \/ spent' = 0 \/ \E c \in Costs : Charge(c)
    BY DEF Next, RunStep, Search, Synthesis, Check, Settled, vars, spending, Start,
           ForgetStages, BuildProviders, CredentialMissing, SearchReads, SearchWrites,
           SearchConcludes, SearchLimited, SearchRefused, SearchFails, NoSynthesis,
           NothingToSynthesise, SynthesisRefused, SynthesisFails, SynthesisUnusable,
           SynthesisMalformed, SynthesisWrites, SynthesisDone, NoCheck, NothingToCheck,
           CritiqueRefused, CheckMalformed, CritiqueStands, CritiqueObjects, CheckFails,
           RebuttalReads, RebuttalAnswers, RebuttalRefused, SaveCritique, RecordCritique,
           Finish, Crash
  <2> QED BY <2>1, <2>2, <2>3, <2>4
<1> QED BY <1>1, <1>2, TypeCorrect, PTL DEF Spec

-----------------------------------------------------------------------------
(* What becomes of the notes.                                               *)

\* A note is added, none is changed, or --restart deletes them all.
NotesStep ==
  \/ UNCHANGED notes
  \/ notes' = <<>>
  \/ \E kind \in {"finding", "closing", "conclusion"}, k \in Nat, t \in SUBSET Ids :
       /\ attempt' = attempt
       /\ notes' = Append(notes, [by |-> attempt, kind |-> kind, step |-> k, cites |-> t])
       /\ kind = "conclusion" => t # {} /\ t \subseteq Gathered
       /\ kind = "closing" => t = {}

LEMMA StepsOfNotes == TypeOK /\ [Next]_vars => NotesStep
<1> SUFFICES ASSUME TypeOK, [Next]_vars PROVE NotesStep
  OBVIOUS
<1>1. ASSUME NEW cmd \in Commands, NEW synth \in BOOLEAN, NEW check \in BOOLEAN,
             Start(cmd, synth, check)
      PROVE  NotesStep
  BY <1>1 DEF Start, Cleared, NotesStep
<1>2. ASSUME NEW c \in Costs, NEW t \in SUBSET Ids, SearchWrites(c, t) PROVE NotesStep
  <2>1. turns + 1 \in Nat
    BY DEF TypeOK
  <2> QED BY <1>2, <2>1 DEF SearchWrites, NotesStep, options
<1>3. ASSUME NEW c \in Costs, NEW text \in BOOLEAN, SearchLimited(c, text) PROVE NotesStep
  <2>1. turns + 1 \in Nat
    BY DEF TypeOK
  <2>2. attempt' = attempt
    BY <1>3 DEF SearchLimited, SearchRecorded, options
  <2> QED BY <1>3, <2>1, <2>2 DEF SearchLimited, NotesStep
<1>4. ASSUME NEW c \in Costs, NEW named \in SUBSET Ids, SynthesisWrites(c, named)
      PROVE  NotesStep
  <2>1. PICK k \in Nat :
          notes' = Append(notes, [by |-> attempt, kind |-> "conclusion",
                                  step |-> k, cites |-> Usable(named)])
    BY <1>4, StepOfConclusion DEF SynthesisWrites
  <2>2. Usable(named) \in SUBSET Ids /\ Usable(named) \subseteq Gathered
    BY DEF Usable
  <2> QED BY <1>4, <2>1, <2>2 DEF SynthesisWrites, NotesStep, options
<1>5. CASE RunStep /\ UNCHANGED notes
  BY <1>5 DEF NotesStep
<1>6. CASE Crash \/ Settled \/ UNCHANGED vars
  BY <1>6 DEF Crash, Settled, durable, vars, NotesStep
<1>7. RunStep => \/ UNCHANGED notes
                 \/ \E c \in Costs, t \in SUBSET Ids : SearchWrites(c, t)
                 \/ \E c \in Costs, text \in BOOLEAN : SearchLimited(c, text)
                 \/ \E c \in Costs, named \in SUBSET Ids : SynthesisWrites(c, named)
  BY DEF RunStep, Search, Synthesis, Check, durable,
         ForgetStages, BuildProviders, CredentialMissing, SearchReads,
         SearchConcludes, SearchRefused, SearchFails, NoSynthesis,
         NothingToSynthesise, SynthesisRefused, SynthesisFails, SynthesisUnusable,
         SynthesisMalformed, SynthesisDone, NoCheck, NothingToCheck, Found,
         CritiqueRefused, CheckMalformed, CritiqueStands, CritiqueObjects, CheckFails,
         RebuttalReads, RebuttalAnswers, RebuttalRefused, SaveCritique, RecordCritique,
         Finish
<1> QED BY <1>1, <1>2, <1>3, <1>4, <1>5, <1>6, <1>7 DEF Next

\* Everything cited by anything was cited by a finding first.
GatheredInv ==
  /\ EvidenceIsGathered
  /\ Gathered \subseteq UNION {notes[j].cites : j \in Findings}

\* However many attempts and conclusions lie between, a conclusion cites only
\* what some search's note cited.
THEOREM ConclusionsCiteFindings == Spec => []EvidenceIsGathered
<1>1. Init => GatheredInv
  BY DEF Init, GatheredInv, EvidenceIsGathered, Gathered
<1>2. TypeOK /\ GatheredInv /\ NotesStep => GatheredInv'
  <2> SUFFICES ASSUME TypeOK, GatheredInv, NotesStep PROVE GatheredInv'
    OBVIOUS
  <2>1. CASE UNCHANGED notes
    BY <2>1 DEF GatheredInv, EvidenceIsGathered, Gathered, Findings
  <2>2. CASE notes' = <<>>
    BY <2>2 DEF GatheredInv, EvidenceIsGathered, Gathered, Findings
  <2>3. ASSUME NEW kind \in {"finding", "closing", "conclusion"},
               NEW k \in Nat, NEW t \in SUBSET Ids,
               notes' = Append(notes, [by |-> attempt, kind |-> kind, step |-> k, cites |-> t]),
               kind = "conclusion" => t # {} /\ t \subseteq Gathered,
               kind = "closing" => t = {}
        PROVE  GatheredInv'
    <3> DEFINE r == [by |-> attempt, kind |-> kind, step |-> k, cites |-> t]
               F == UNION {notes[j].cites : j \in Findings}
               n == Len(notes) + 1
    <3>1. /\ n \in Nat /\ DOMAIN notes = 1..Len(notes) /\ DOMAIN notes' = 1..n
          /\ notes'[n] = r /\ \A i \in 1..Len(notes) : notes'[i] = notes[i]
      BY <2>3, AppendProperties DEF TypeOK
    <3>2. Findings' = IF kind = "finding" THEN Findings \cup {n} ELSE Findings
      BY <3>1 DEF Findings
    <3>3. F \subseteq F' /\ (kind = "finding" => t \subseteq F')
      BY <3>1, <3>2 DEF Findings
    <3>4. t \subseteq F'
      BY <2>3, <3>3 DEF GatheredInv
    <3>5. Gathered' \subseteq F'
      BY <3>1, <3>3, <3>4 DEF GatheredInv, Gathered
    <3>6. EvidenceIsGathered'
      <4> SUFFICES ASSUME NEW i \in DOMAIN notes', notes'[i].kind = "conclusion"
                   PROVE  notes'[i].cites # {} /\ notes'[i].cites \subseteq F'
        BY DEF EvidenceIsGathered
      <4>1. CASE i = n
        <5>1. notes'[i].kind = kind /\ notes'[i].cites = t
          BY <3>1, <4>1
        <5>2. t # {}
          BY <2>3, <5>1
        <5> QED BY <3>4, <5>1, <5>2
      <4>2. CASE i # n
        <5>1. i \in DOMAIN notes /\ notes'[i] = notes[i]
          BY <3>1, <4>2
        <5>2. notes[i].cites # {} /\ notes[i].cites \subseteq F
          BY <5>1 DEF GatheredInv, EvidenceIsGathered
        <5> QED BY <3>3, <5>1, <5>2
      <4> QED BY <4>1, <4>2
    <3> QED BY <3>5, <3>6 DEF GatheredInv
  <2> QED BY <2>1, <2>2, <2>3 DEF NotesStep
<1> QED BY <1>1, <1>2, StepsOfNotes, TypeCorrect, PTL DEF Spec, GatheredInv

-----------------------------------------------------------------------------
(* What the metrics say.                                                    *)

LEMMA MetricsStep == TypeOK /\ MetricsAreOfThisAttempt /\ [Next]_vars => MetricsAreOfThisAttempt'
<1> SUFFICES ASSUME TypeOK, MetricsAreOfThisAttempt, [Next]_vars PROVE MetricsAreOfThisAttempt'
  OBVIOUS
<1> USE DEF durable, options, spending, pass,
            TypeOK, MetricsAreOfThisAttempt, Stamped, Names
<1>1. ASSUME NEW cmd \in Commands, NEW synth \in BOOLEAN, NEW check \in BOOLEAN,
             Start(cmd, synth, check)
      PROVE  MetricsAreOfThisAttempt'
  BY <1>1 DEF Start, Cleared, NoCritique
<1>2. CASE ForgetStages
  BY <1>2 DEF ForgetStages
<1>3. CASE BuildProviders
  BY <1>3 DEF BuildProviders
<1>4. CASE CredentialMissing
  BY <1>4 DEF CredentialMissing
<1>5. ASSUME NEW c \in Costs, SearchReads(c)
      PROVE  MetricsAreOfThisAttempt'
  BY <1>5 DEF SearchReads
<1>6. ASSUME NEW c \in Costs, NEW t \in SUBSET Ids, SearchWrites(c, t)
      PROVE  MetricsAreOfThisAttempt'
  BY <1>6 DEF SearchWrites
<1>7. ASSUME NEW c \in Costs, SearchConcludes(c)
      PROVE  MetricsAreOfThisAttempt'
  BY <1>7 DEF SearchConcludes, SearchRecorded
<1>8. ASSUME NEW c \in Costs, NEW text \in BOOLEAN, SearchLimited(c, text)
      PROVE  MetricsAreOfThisAttempt'
  BY <1>8 DEF SearchLimited, SearchRecorded
<1>9. CASE SearchRefused
  BY <1>9 DEF SearchRefused, SearchRecorded
<1>10. CASE SearchFails
  BY <1>10 DEF SearchFails
<1>11. CASE NoSynthesis
  BY <1>11 DEF NoSynthesis
<1>12. CASE NothingToSynthesise
  BY <1>12 DEF NothingToSynthesise, SynthesisRecorded
<1>13. CASE SynthesisRefused
  BY <1>13 DEF SynthesisRefused, AskSynthesis
<1>14. CASE SynthesisFails
  BY <1>14 DEF SynthesisFails, AskSynthesis
<1>15. ASSUME NEW c \in Costs, NEW o \in UnusableConclusions, SynthesisUnusable(c, o)
       PROVE  MetricsAreOfThisAttempt'
  BY <1>15 DEF SynthesisUnusable, AskSynthesis, SynthesisRecorded, UnusableConclusions
<1>16. ASSUME NEW c \in Costs, SynthesisMalformed(c)
      PROVE  MetricsAreOfThisAttempt'
  BY <1>16 DEF SynthesisMalformed, AskSynthesis
<1>17. ASSUME NEW c \in Costs, NEW named \in SUBSET Ids, SynthesisWrites(c, named)
       PROVE  MetricsAreOfThisAttempt'
  BY <1>17 DEF SynthesisWrites, AskSynthesis
<1>18. CASE SynthesisDone
  BY <1>18 DEF SynthesisDone, SynthesisRecorded
<1>19. CASE NoCheck
  BY <1>19 DEF NoCheck
<1>20. CASE NothingToCheck
  BY <1>20 DEF NothingToCheck, Found
<1>21. CASE CritiqueRefused
  BY <1>21 DEF CritiqueRefused, AskCritique
<1>22. ASSUME NEW c \in Costs, CheckMalformed(c)
      PROVE  MetricsAreOfThisAttempt'
  BY <1>22 DEF CheckMalformed, AskCritique
<1>23. ASSUME NEW c \in Costs, CritiqueObjects(c)
      PROVE  MetricsAreOfThisAttempt'
  BY <1>23 DEF CritiqueObjects, AskCritique, ShownToCritique
<1>24. ASSUME NEW c \in Costs,
              NEW o \in {"unreadable_critique", "no_objections", "objections_unevidenced"},
              CritiqueStands(c, o)
       PROVE  MetricsAreOfThisAttempt'
  BY <1>24 DEF CritiqueStands, AskCritique, ShownToCritique, Found
<1>25. CASE CheckFails
  BY <1>25 DEF CheckFails, AskCritique
<1>26. ASSUME NEW c \in Costs, NEW n \in 1..2, RebuttalReads(c, n)
      PROVE  MetricsAreOfThisAttempt'
  BY <1>26 DEF RebuttalReads
<1>27. ASSUME NEW c \in Costs, NEW o \in Answers, RebuttalAnswers(c, o)
      PROVE  MetricsAreOfThisAttempt'
  BY <1>27 DEF RebuttalAnswers, Found, Answers
<1>28. CASE RebuttalRefused
  BY <1>28 DEF RebuttalRefused, Found
<1>29. CASE SaveCritique
  BY <1>29 DEF SaveCritique
<1>30. CASE RecordCritique
  BY <1>30 DEF RecordCritique
<1>31. CASE Finish
  BY <1>31 DEF Finish
<1>32. CASE Crash
  BY <1>32 DEF Crash
<1>33. CASE Settled \/ UNCHANGED vars
  BY <1>33 DEF Settled, vars
<1> HIDE DEF durable, options, spending, pass,
            TypeOK, MetricsAreOfThisAttempt, Stamped, Names
<1> QED BY <1>1, <1>2, <1>3, <1>4, <1>5, <1>6, <1>7, <1>8, <1>9, <1>10,
           <1>11, <1>12, <1>13, <1>14, <1>15, <1>16, <1>17, <1>18, <1>19, <1>20, <1>21,
           <1>22, <1>23, <1>24, <1>25, <1>26, <1>27, <1>28, <1>29, <1>30, <1>31, <1>32,
           <1>33
        DEF Next, RunStep, Search, Synthesis, Check

\* No metric of an investigation is inherited from an earlier attempt.
THEOREM MetricsAreOwn == Spec => []MetricsAreOfThisAttempt
<1>1. Init => MetricsAreOfThisAttempt
  BY DEF Init, MetricsAreOfThisAttempt
<1> QED BY <1>1, MetricsStep, TypeCorrect, PTL DEF Spec

\* A critique from the call that raised it to the metrics that report it: no
\* verdict of this attempt is on record before, and its notes stay as read.
VerdictInv ==
  /\ VerdictIsBacked
  /\ stamp["adversarial"] <= attempt
  /\ pc = "forget" => stamp["adversarial"] < attempt
  /\ pc \in {"build", "search", "synthesise", "synthesised", "critique", "rebut",
            "save", "saved"} => stamp["adversarial"] = 0
  /\ pc \in {"rebut", "save", "saved"} => read = Len(notes)
  /\ pc = "saved" => critique = [by |-> attempt, outcome |-> found, read |-> read]

LEMMA VerdictStep == TypeOK /\ VerdictInv /\ [Next]_vars => VerdictInv'
<1> SUFFICES ASSUME TypeOK, VerdictInv, [Next]_vars PROVE VerdictInv'
  OBVIOUS
<1> USE DEF durable, options, spending, pass,
            TypeOK, VerdictInv, VerdictIsBacked, Stamped, Names, Stages
<1>1. ASSUME NEW cmd \in Commands, NEW synth \in BOOLEAN, NEW check \in BOOLEAN,
             Start(cmd, synth, check)
      PROVE  VerdictInv'
  BY <1>1 DEF Start, Cleared, NoCritique
<1>2. CASE ForgetStages
  BY <1>2 DEF ForgetStages
<1>3. CASE BuildProviders
  BY <1>3 DEF BuildProviders
<1>4. CASE CredentialMissing
  BY <1>4 DEF CredentialMissing
<1>5. ASSUME NEW c \in Costs, SearchReads(c)
      PROVE  VerdictInv'
  BY <1>5 DEF SearchReads
<1>6. ASSUME NEW c \in Costs, NEW t \in SUBSET Ids, SearchWrites(c, t)
      PROVE  VerdictInv'
  BY <1>6 DEF SearchWrites
<1>7. ASSUME NEW c \in Costs, SearchConcludes(c)
      PROVE  VerdictInv'
  BY <1>7 DEF SearchConcludes, SearchRecorded
<1>8. ASSUME NEW c \in Costs, NEW text \in BOOLEAN, SearchLimited(c, text)
      PROVE  VerdictInv'
  BY <1>8 DEF SearchLimited, SearchRecorded
<1>9. CASE SearchRefused
  BY <1>9 DEF SearchRefused, SearchRecorded
<1>10. CASE SearchFails
  BY <1>10 DEF SearchFails
<1>11. CASE NoSynthesis
  BY <1>11 DEF NoSynthesis
<1>12. CASE NothingToSynthesise
  BY <1>12 DEF NothingToSynthesise, SynthesisRecorded
<1>13. CASE SynthesisRefused
  BY <1>13 DEF SynthesisRefused, AskSynthesis
<1>14. CASE SynthesisFails
  BY <1>14 DEF SynthesisFails, AskSynthesis
<1>15. ASSUME NEW c \in Costs, NEW o \in UnusableConclusions, SynthesisUnusable(c, o)
       PROVE  VerdictInv'
  BY <1>15 DEF SynthesisUnusable, AskSynthesis, SynthesisRecorded, UnusableConclusions
<1>16. ASSUME NEW c \in Costs, SynthesisMalformed(c)
      PROVE  VerdictInv'
  BY <1>16 DEF SynthesisMalformed, AskSynthesis
<1>17. ASSUME NEW c \in Costs, NEW named \in SUBSET Ids, SynthesisWrites(c, named)
       PROVE  VerdictInv'
  BY <1>17 DEF SynthesisWrites, AskSynthesis
<1>18. CASE SynthesisDone
  BY <1>18 DEF SynthesisDone, SynthesisRecorded
<1>19. CASE NoCheck
  BY <1>19 DEF NoCheck
<1>20. CASE NothingToCheck
  BY <1>20 DEF NothingToCheck, Found
<1>21. CASE CritiqueRefused
  BY <1>21 DEF CritiqueRefused, AskCritique
<1>22. ASSUME NEW c \in Costs, CheckMalformed(c)
      PROVE  VerdictInv'
  BY <1>22 DEF CheckMalformed, AskCritique
<1>23. ASSUME NEW c \in Costs, CritiqueObjects(c)
      PROVE  VerdictInv'
  BY <1>23 DEF CritiqueObjects, AskCritique, ShownToCritique
<1>24. ASSUME NEW c \in Costs,
              NEW o \in {"unreadable_critique", "no_objections", "objections_unevidenced"},
              CritiqueStands(c, o)
       PROVE  VerdictInv'
  BY <1>24 DEF CritiqueStands, AskCritique, ShownToCritique, Found
<1>25. CASE CheckFails
  BY <1>25 DEF CheckFails, AskCritique
<1>26. ASSUME NEW c \in Costs, NEW n \in 1..2, RebuttalReads(c, n)
      PROVE  VerdictInv'
  BY <1>26 DEF RebuttalReads
<1>27. ASSUME NEW c \in Costs, NEW o \in Answers, RebuttalAnswers(c, o)
      PROVE  VerdictInv'
  BY <1>27 DEF RebuttalAnswers, Found, Answers
<1>28. CASE RebuttalRefused
  BY <1>28 DEF RebuttalRefused, Found
<1>29. CASE SaveCritique
  BY <1>29 DEF SaveCritique
<1>30. CASE RecordCritique
  BY <1>30 DEF RecordCritique
<1>31. CASE Finish
  BY <1>31 DEF Finish
<1>32. CASE Crash
  BY <1>32 DEF Crash
<1>33. CASE Settled \/ UNCHANGED vars
  BY <1>33 DEF Settled, vars
<1> HIDE DEF durable, options, spending, pass,
            TypeOK, VerdictInv, VerdictIsBacked, Stamped, Names, Stages
<1> QED BY <1>1, <1>2, <1>3, <1>4, <1>5, <1>6, <1>7, <1>8, <1>9, <1>10,
           <1>11, <1>12, <1>13, <1>14, <1>15, <1>16, <1>17, <1>18, <1>19, <1>20, <1>21,
           <1>22, <1>23, <1>24, <1>25, <1>26, <1>27, <1>28, <1>29, <1>30, <1>31, <1>32,
           <1>33
        DEF Next, RunStep, Search, Synthesis, Check

\* A verdict in the metrics is backed by a critique of the same attempt that
\* read every note, the conclusion among them, whenever the process died.
THEOREM VerdictsAreBacked == Spec => []VerdictIsBacked
<1>1. Init => VerdictInv
  BY DEF Init, VerdictInv, VerdictIsBacked, Names
<1> QED BY <1>1, VerdictStep, TypeCorrect, PTL DEF Spec, VerdictInv

\* What the run knows of a stage, and will have said at its end.
Told(s) == \/ outcomes[s] # "none"
           \/ s = "synthesis" /\ stamp["synthesis_failed"] # 0
           \/ s = "adversarial" /\ stamp["adversarial_failed"] # 0
           \/ s \in refused

\* Stage by stage, what is told is what was asked for.
SaidInv ==
  /\ EveryStageIsSaid
  /\ ~Budgeted => refused = {}
  /\ pc = "saved" /\ found = "rebuttal_refused" => Budgeted
  /\ pc = "save" /\ found = "rebuttal_refused" => Budgeted
  /\ pc \in {"save", "saved"} => found # "none"
  /\ pc \in {"build", "search", "synthesise", "synthesised", "critique", "rebut",
            "save", "saved", "finish"} => saidRefused = {}
  /\ pc = "build" => /\ outcomes["synthesis"] = "none" /\ outcomes["adversarial"] = "none"
                     /\ stamp["synthesis_failed"] = 0 /\ stamp["adversarial_failed"] = 0
  /\ pc \in {"search", "synthesise", "synthesised"} => ~Told("synthesis")
  /\ pc \in {"search", "synthesise", "synthesised", "critique", "rebut", "save", "saved"}
       => ~Told("adversarial")
  /\ pc = "synthesised" => synthesising
  /\ pc \in {"rebut", "save", "saved"} => checking
  /\ pc \in {"synthesise", "synthesised", "critique", "rebut", "save", "saved", "finish"}
       => Told("investigate")
  /\ pc \in {"critique", "rebut", "save", "saved", "finish"}
       => (Told("synthesis") <=> synthesising)
  /\ pc = "finish" => (Told("adversarial") <=> checking)

LEMMA SaidStep == TypeOK /\ SaidInv /\ [Next]_vars => SaidInv'
<1> SUFFICES ASSUME TypeOK, SaidInv, [Next]_vars PROVE SaidInv'
  OBVIOUS
<1> USE DEF durable, options, spending, pass,
            TypeOK, SaidInv, EveryStageIsSaid, Said, Told, Stamped, Names, Stages
<1>1. ASSUME NEW cmd \in Commands, NEW synth \in BOOLEAN, NEW check \in BOOLEAN,
             Start(cmd, synth, check)
      PROVE  SaidInv'
  BY <1>1 DEF Start, Cleared, NoCritique
<1>2. CASE ForgetStages
  BY <1>2 DEF ForgetStages
<1>3. CASE BuildProviders
  BY <1>3 DEF BuildProviders
<1>4. CASE CredentialMissing
  BY <1>4 DEF CredentialMissing
<1>5. ASSUME NEW c \in Costs, SearchReads(c)
      PROVE  SaidInv'
  BY <1>5 DEF SearchReads
<1>6. ASSUME NEW c \in Costs, NEW t \in SUBSET Ids, SearchWrites(c, t)
      PROVE  SaidInv'
  BY <1>6 DEF SearchWrites
<1>7. ASSUME NEW c \in Costs, SearchConcludes(c)
      PROVE  SaidInv'
  BY <1>7 DEF SearchConcludes, SearchRecorded
<1>8. ASSUME NEW c \in Costs, NEW text \in BOOLEAN, SearchLimited(c, text)
      PROVE  SaidInv'
  BY <1>8 DEF SearchLimited, SearchRecorded
<1>9. CASE SearchRefused
  BY <1>9 DEF SearchRefused, SearchRecorded, Exhausted
<1>10. CASE SearchFails
  BY <1>10 DEF SearchFails
<1>11. CASE NoSynthesis
  BY <1>11 DEF NoSynthesis
<1>12. CASE NothingToSynthesise
  BY <1>12 DEF NothingToSynthesise, SynthesisRecorded
<1>13. CASE SynthesisRefused
  BY <1>13 DEF SynthesisRefused, AskSynthesis, Exhausted
<1>14. CASE SynthesisFails
  BY <1>14 DEF SynthesisFails, AskSynthesis
<1>15. ASSUME NEW c \in Costs, NEW o \in UnusableConclusions, SynthesisUnusable(c, o)
       PROVE  SaidInv'
  BY <1>15 DEF SynthesisUnusable, AskSynthesis, SynthesisRecorded, UnusableConclusions
<1>16. ASSUME NEW c \in Costs, SynthesisMalformed(c)
      PROVE  SaidInv'
  BY <1>16 DEF SynthesisMalformed, AskSynthesis
<1>17. ASSUME NEW c \in Costs, NEW named \in SUBSET Ids, SynthesisWrites(c, named)
       PROVE  SaidInv'
  BY <1>17 DEF SynthesisWrites, AskSynthesis
<1>18. CASE SynthesisDone
  BY <1>18 DEF SynthesisDone, SynthesisRecorded
<1>19. CASE NoCheck
  BY <1>19 DEF NoCheck
<1>20. CASE NothingToCheck
  BY <1>20 DEF NothingToCheck, Found
<1>21. CASE CritiqueRefused
  BY <1>21 DEF CritiqueRefused, AskCritique, Exhausted
<1>22. ASSUME NEW c \in Costs, CheckMalformed(c)
      PROVE  SaidInv'
  BY <1>22 DEF CheckMalformed, AskCritique
<1>23. ASSUME NEW c \in Costs, CritiqueObjects(c)
      PROVE  SaidInv'
  BY <1>23 DEF CritiqueObjects, AskCritique, ShownToCritique
<1>24. ASSUME NEW c \in Costs,
              NEW o \in {"unreadable_critique", "no_objections", "objections_unevidenced"},
              CritiqueStands(c, o)
       PROVE  SaidInv'
  BY <1>24 DEF CritiqueStands, AskCritique, ShownToCritique, Found
<1>25. CASE CheckFails
  BY <1>25 DEF CheckFails, AskCritique
<1>26. ASSUME NEW c \in Costs, NEW n \in 1..2, RebuttalReads(c, n)
      PROVE  SaidInv'
  BY <1>26 DEF RebuttalReads
<1>27. ASSUME NEW c \in Costs, NEW o \in Answers, RebuttalAnswers(c, o)
      PROVE  SaidInv'
  BY <1>27 DEF RebuttalAnswers, Found, Answers
<1>28. CASE RebuttalRefused
  BY <1>28 DEF RebuttalRefused, Found, Exhausted
<1>29. CASE SaveCritique
  BY <1>29 DEF SaveCritique
<1>30. CASE RecordCritique
  BY <1>30 DEF RecordCritique
<1>31. CASE Finish
  BY <1>31 DEF Finish
<1>32. CASE Crash
  BY <1>32 DEF Crash
<1>33. CASE Settled \/ UNCHANGED vars
  <2>1. UNCHANGED <<outcomes, stamp, refused, pc, found, saidRefused, synthesising, checking>>
    BY <1>33 DEF Settled, vars
  <2> QED BY <2>1
<1> HIDE DEF durable, options, spending, pass,
             TypeOK, SaidInv, EveryStageIsSaid, Said, Told, Stamped, Names, Stages
<1> QED BY <1>1, <1>2, <1>3, <1>4, <1>5, <1>6, <1>7, <1>8, <1>9, <1>10,
           <1>11, <1>12, <1>13, <1>14, <1>15, <1>16, <1>17, <1>18, <1>19, <1>20, <1>21,
           <1>22, <1>23, <1>24, <1>25, <1>26, <1>27, <1>28, <1>29, <1>30, <1>31, <1>32,
           <1>33
        DEF Next, RunStep, Search, Synthesis, Check

\* A finished run says of every stage what became of it.
THEOREM StagesAreSaid == Spec => []EveryStageIsSaid
<1>1. Init => SaidInv
  BY DEF Init, SaidInv, EveryStageIsSaid
<1>2. SaidInv => EveryStageIsSaid
  BY DEF SaidInv
<1> QED BY <1>1, <1>2, SaidStep, TypeCorrect, PTL DEF Spec

-----------------------------------------------------------------------------
(* What may fail a run.                                                     *)

\* Nothing is on record of a search before it ends, and a failed run is one
\* whose search did not.
FailureInv ==
  /\ LaterStagesNeverFailTheRun
  /\ pc \in {"build", "search"} => stamp["investigate"] = 0

\* If replies hold only what their parsing reads, no stage after the search
\* fails the run, whichever calls are refused or raise.
THEOREM OnlyTheSearchFailsTheRun ==
  ASSUME Malformed = FALSE
  PROVE  Spec => []LaterStagesNeverFailTheRun
<1>1. Init => FailureInv
  BY DEF Init, FailureInv, LaterStagesNeverFailTheRun
<1>2. TypeOK /\ FailureInv /\ [Next]_vars => FailureInv'
  <2> SUFFICES ASSUME TypeOK, FailureInv, [Next]_vars PROVE FailureInv'
    OBVIOUS
  <2> USE DEF durable, options, FailureInv, LaterStagesNeverFailTheRun
  <2>1. CASE pc' \notin {"build", "search", "failed"}
    BY <2>1
  <2>2. CASE UNCHANGED <<pc, stamp, attempt>>
    BY <2>2
  <2>3. CASE ForgetStages
    BY <2>3 DEF ForgetStages, Names
  <2>4. CASE BuildProviders
    BY <2>4 DEF BuildProviders
  <2>5. CASE CredentialMissing
    BY <2>5 DEF CredentialMissing, TypeOK
  <2>6. CASE SearchFails
    BY <2>6 DEF SearchFails, TypeOK
  <2>7. ASSUME NEW c \in Costs, SynthesisMalformed(c) \/ CheckMalformed(c) PROVE FALSE
    BY <2>7 DEF SynthesisMalformed, CheckMalformed
  <2>8. \/ pc' \notin {"build", "search", "failed"}
        \/ UNCHANGED <<pc, stamp, attempt>>
        \/ ForgetStages \/ BuildProviders \/ CredentialMissing \/ SearchFails
    BY <2>7 DEF Next, RunStep, Search, Synthesis, Check, Settled, vars, Start,
           SearchReads, SearchWrites,
           SearchConcludes, SearchLimited, SearchRefused, SearchRecorded, NoSynthesis,
           NothingToSynthesise, SynthesisRefused, SynthesisFails, SynthesisUnusable,
           SynthesisRecorded, SynthesisWrites, SynthesisDone, NoCheck, NothingToCheck,
           CritiqueRefused, CritiqueStands, CritiqueObjects, CheckFails, Found,
           RebuttalReads, RebuttalAnswers, RebuttalRefused, SaveCritique, RecordCritique,
           Finish, Crash
  <2> QED BY <2>1, <2>2, <2>3, <2>4, <2>5, <2>6, <2>8
<1> QED BY <1>1, <1>2, TypeCorrect, PTL DEF Spec, FailureInv

-----------------------------------------------------------------------------
(* The conclusion.                                                          *)

\* The last note is this attempt's conclusion, and by its step too.
Concluded ==
  LET n == Len(notes)
  IN  /\ n > 0 /\ notes[n].kind = "conclusion" /\ notes[n].by = attempt
      /\ \A i \in 1..(n - 1) : notes[i].step < notes[n].step

\* Nothing is on record of a synthesis before it ends, and no note is written between its
\* conclusion and its record, nor after.
ConclusionInv ==
  /\ ConclusionIsLast
  /\ stamp["synthesis"] <= attempt
  /\ pc = "forget" => stamp["synthesis"] < attempt
  /\ pc \in {"build", "search", "synthesise", "synthesised"} => outcomes["synthesis"] = "none"
  /\ pc = "synthesised" => Concluded

\* A conclusion is stored after every note.
LEMMA ConclusionStored ==
  ASSUME TypeOK, NEW c \in Costs, NEW named \in SUBSET Ids, SynthesisWrites(c, named)
  PROVE  Concluded'
<1>1. PICK k \in {turns + 1} \cup {notes[i].step + 1 : i \in DOMAIN notes} :
        /\ IsConclusionStep(k)
        /\ notes' = Append(notes, [by |-> attempt, kind |-> "conclusion",
                                   step |-> k, cites |-> Usable(named)])
  BY DEF SynthesisWrites
<1> DEFINE stored == [by |-> attempt, kind |-> "conclusion", step |-> k, cites |-> Usable(named)]
           n == Len(notes)
<1>2. notes \in Seq(Note) /\ n \in Nat /\ DOMAIN notes = 1 .. n
  BY DEF TypeOK
<1>3. stored \in Note
  <2>1. k \in Nat /\ attempt \in 1 .. MaxAttempts /\ Usable(named) \subseteq Ids
    BY StepOfConclusion DEF SynthesisWrites, AskSynthesis, TypeOK, Usable
  <2> QED BY <2>1 DEF Note
<1>4. stored.kind = "conclusion" /\ stored.by = attempt /\ stored.step = k
  OBVIOUS
<1> HIDE DEF stored
<1>5. /\ Len(notes') = n + 1 /\ notes'[n + 1] = stored
      /\ \A i \in 1 .. n : notes'[i] = notes[i]
  BY <1>1, <1>2, <1>3, AppendProperties DEF stored
<1>6. \A i \in 1 .. n : notes[i].step < k
  BY <1>1, <1>2 DEF IsConclusionStep
<1>7. attempt' = attempt
  BY DEF SynthesisWrites, options
<1> HIDE DEF n
<1>8. (n + 1) - 1 = n /\ n + 1 > 0
  BY <1>2
<1>9. \A i \in 1 .. n : notes'[i].step < notes'[n + 1].step
  BY <1>4, <1>5, <1>6
<1> QED BY <1>4, <1>5, <1>7, <1>8, <1>9 DEF Concluded

\* A step that leaves the notes and what is on record of the synthesis.
ConclusionKept ==
  /\ UNCHANGED <<notes, attempt, outcomes["synthesis"]>>
  /\ stamp'["synthesis"] = stamp["synthesis"]
  /\ pc' # "forget" /\ pc' # "synthesised"
  /\ pc' \in {"build", "search", "synthesise"} => pc \in {"build", "search", "synthesise"}

LEMMA ConclusionStep == TypeOK /\ ConclusionInv /\ [Next]_vars => ConclusionInv'
<1> SUFFICES ASSUME TypeOK, ConclusionInv, [Next]_vars PROVE ConclusionInv'
  OBVIOUS
<1> USE DEF durable, options, spending, pass, Stamped, Names, Stages
<1>0. /\ DOMAIN stamp = Names /\ DOMAIN outcomes = Stages
      /\ stamp["synthesis"] \in Nat /\ attempt \in Nat
  BY DEF TypeOK
<1>1. CASE ConclusionKept \/ UNCHANGED vars
  <2>1. UNCHANGED <<notes, attempt>> /\ outcomes'["synthesis"] = outcomes["synthesis"]
        /\ stamp'["synthesis"] = stamp["synthesis"]
    BY <1>1 DEF ConclusionKept, vars
  <2>2. Concluded' <=> Concluded
    BY <2>1 DEF Concluded
  <2>3. ConclusionIsLast'
    BY <2>1, <2>2 DEF ConclusionIsLast, ConclusionInv, Concluded
  <2> QED BY <1>1, <2>1, <2>2, <2>3 DEF ConclusionKept, vars, ConclusionInv
<1>2. ASSUME NEW cmd \in Commands, NEW synth \in BOOLEAN, NEW check \in BOOLEAN,
             Start(cmd, synth, check)
      PROVE  ConclusionInv'
  <2>1. attempt' = attempt + 1 /\ stamp' = stamp /\ pc' = "forget"
    BY <1>2 DEF Start
  <2>2. stamp'["synthesis"] < attempt'
    BY <2>1, <1>0 DEF ConclusionInv
  <2> QED BY <1>0, <2>1, <2>2 DEF ConclusionInv, ConclusionIsLast
<1>3. CASE ForgetStages
  <2>1. stamp'["synthesis"] = 0 /\ outcomes'["synthesis"] = "none" /\ attempt' = attempt
        /\ pc' = "build"
    BY <1>3 DEF ForgetStages
  <2> QED BY <1>0, <2>1 DEF ConclusionInv, ConclusionIsLast
<1>4. CASE /\ pc = "search" /\ pc' \in {"search", "synthesise"} /\ attempt' = attempt
           /\ stamp'["synthesis"] = stamp["synthesis"]
           /\ outcomes'["synthesis"] = outcomes["synthesis"]
  BY <1>4 DEF ConclusionInv, ConclusionIsLast
<1>5. ASSUME NEW c \in Costs, NEW named \in SUBSET Ids, SynthesisWrites(c, named)
      PROVE  ConclusionInv'
  <2>1. pc = "synthesise" /\ pc' = "synthesised" /\ UNCHANGED <<stamp, outcomes, attempt>>
    BY <1>5 DEF SynthesisWrites, AskSynthesis
  <2>2. outcomes'["synthesis"] = "none" /\ stamp'["synthesis"] <= attempt'
    BY <2>1 DEF ConclusionInv
  <2> QED BY <1>5, <2>1, <2>2, ConclusionStored DEF ConclusionInv, ConclusionIsLast
<1>6. ASSUME NEW o \in Outcomes, SynthesisRecorded(o), notes' = notes,
             o = "written" => Concluded
      PROVE  ConclusionInv'
  <2>1. /\ stamp'["synthesis"] = attempt /\ outcomes'["synthesis"] = o /\ attempt' = attempt
        /\ pc' = "critique"
    BY <1>0, <1>6 DEF SynthesisRecorded
  <2>2. Concluded' <=> Concluded
    BY <1>6, <2>1 DEF Concluded
  <2>3. ConclusionIsLast'
    BY <1>6, <2>1, <2>2 DEF ConclusionIsLast, Concluded
  <2> QED BY <1>0, <2>1, <2>3 DEF ConclusionInv
<1>7. ASSUME NEW c \in Costs, Search(c) PROVE ConclusionInv'
  <2>1. /\ pc = "search" /\ pc' \in {"search", "synthesise"} /\ attempt' = attempt
        /\ stamp'["synthesis"] = stamp["synthesis"]
        /\ outcomes'["synthesis"] = outcomes["synthesis"]
    BY <1>0, <1>7
       DEF Search, SearchReads, SearchWrites, SearchConcludes, SearchLimited, SearchRecorded
  <2> QED BY <2>1, <1>4
<1>8. ASSUME NEW c \in Costs, Synthesis(c) PROVE ConclusionInv'
  <2>1. CASE \E o \in UnusableConclusions : SynthesisUnusable(c, o)
    BY <2>1, <1>6 DEF SynthesisUnusable, UnusableConclusions, Outcomes
  <2>2. CASE SynthesisMalformed(c)
    <3>1. ConclusionKept
      BY <2>2 DEF SynthesisMalformed, ConclusionKept
    <3> QED BY <3>1, <1>1
  <2> QED BY <2>1, <2>2, <1>5, <1>8 DEF Synthesis
<1>9. ASSUME NEW c \in Costs, Check(c) PROVE ConclusionKept
  BY <1>9 DEF Check, CritiqueStands, CheckMalformed, CritiqueObjects, RebuttalReads,
              RebuttalAnswers, Found, ConclusionKept
<1>10. CASE SearchRefused
  <2>1. /\ pc = "search" /\ pc' \in {"search", "synthesise"} /\ attempt' = attempt
        /\ stamp'["synthesis"] = stamp["synthesis"]
        /\ outcomes'["synthesis"] = outcomes["synthesis"]
    BY <1>0, <1>10 DEF SearchRefused, SearchRecorded
  <2> QED BY <2>1, <1>4
<1>11. CASE NothingToSynthesise
  BY <1>11, <1>6 DEF NothingToSynthesise, Outcomes
<1>12. CASE SynthesisDone
  BY <1>12, <1>6 DEF SynthesisDone, Outcomes, ConclusionInv
<1>13. CASE \/ BuildProviders \/ CredentialMissing \/ SearchFails \/ NoSynthesis
            \/ SynthesisRefused \/ SynthesisFails \/ NoCheck \/ NothingToCheck
  <2>1. ConclusionKept
    BY <1>0, <1>13 DEF BuildProviders, CredentialMissing, SearchFails, NoSynthesis, SynthesisRefused,
           SynthesisFails, AskSynthesis, NoCheck, NothingToCheck, Found, ConclusionKept
  <2> QED BY <2>1, <1>1
<1>14. CASE \/ CritiqueRefused \/ CheckFails \/ RebuttalRefused \/ SaveCritique
            \/ RecordCritique \/ Finish \/ Crash
  <2>1. ConclusionKept
    BY <1>0, <1>14 DEF CritiqueRefused, CheckFails, RebuttalRefused, SaveCritique, RecordCritique,
           Finish, Crash, Found, ConclusionKept
  <2> QED BY <2>1, <1>1
<1> QED BY <1>1, <1>2, <1>3, <1>7, <1>8, <1>9, <1>10, <1>11, <1>12, <1>13, <1>14
        DEF Next, RunStep, Settled

\* A conclusion said to be written is the last of the scratchpad's notes and its step exceeds
\* every other's, for any number of attempts on the scratchpad, restarts and deaths.
THEOREM ConclusionsComeLast == Spec => []ConclusionIsLast
<1>1. Init => ConclusionInv
  BY DEF Init, ConclusionInv, ConclusionIsLast, Stages, Names
<1>2. ConclusionInv => ConclusionIsLast
  BY DEF ConclusionInv
<1> QED BY <1>1, <1>2, ConclusionStep, TypeCorrect, PTL DEF Spec
=============================================================================
