--------------------------- MODULE RebuttalProofs ---------------------------
(***************************************************************************)
(* What TLAPS proves about Rebuttal: for any number of objections, of      *)
(* answers and of readers' calls, and any set of events.                   *)
(***************************************************************************)
EXTENDS Rebuttal, WellFoundedInduction, FiniteSetTheorems, SequenceTheorems, TLAPS

-----------------------------------------------------------------------------
(* Lemmas about what is kept of the answers.                                *)

\* A kept answer is one of those given, to the id it is kept for.
LEMMA KeptIsGiven ==
  ASSUME NEW i, NEW a \in Kept(i)
  PROVE  a.id = i /\ \E k \in DOMAIN answers : answers[k] = a
  BY DEF Kept, Replies

\* What is kept is an answer like those given.
LEMMA KeptIsAnswer ==
  ASSUME answers \in Seq(Answer), NEW i
  PROVE  Kept(i) \subseteq Answer
<1>1. \A k \in DOMAIN answers : answers[k] \in Answer
  OBVIOUS
<1> QED BY <1>1 DEF Kept, Replies

\* A set of places in a list that is not empty has a last one: the places from
\* k on are fewest where k is the last.
LEMMA LastPlace ==
  ASSUME NEW n \in Nat, NEW S \in SUBSET (1..n), S # {}
  PROVE  \E k \in S : \A j \in S : j <= k
<1> DEFINE From(k) == {j \in S : k <= j}
           Rests == {From(k) : k \in S}
<1>0. S \subseteq Nat
  OBVIOUS
<1>1. IsFiniteSet(S)
  <2>1. IsFiniteSet(1..n)
    BY FS_Interval
  <2> QED BY <2>1, FS_Subset
<1>2. Rests \subseteq FiniteSubsetsOf(S) /\ Rests # {}
  <2>1. Rests \subseteq SUBSET S /\ Rests # {}
    OBVIOUS
  <2>2. FiniteSubsetsOf(S) = SUBSET S
    BY <1>1, FS_FiniteSubsetsOfFinite
  <2> QED BY <2>1, <2>2
<1>3. PICK R \in Rests : \A Q \in Rests : ~ (<<Q, R>> \in StrictSubsetOrdering(S))
  <2> HIDE DEF Rests
  <2> QED BY <1>2, FS_StrictSubsetOrderingWellFounded, WFMin
<1>4. PICK k \in S : R = From(k)
  BY <1>3
<1>5. \A j \in S : j <= k
  <2> SUFFICES ASSUME NEW j \in S, j > k PROVE FALSE
    BY <1>0
  <2>1. From(j) \subseteq From(k) /\ k \in From(k) /\ k \notin From(j)
    <3>1. j \in Nat /\ k \in Nat
      BY <1>0
    <3>2. ASSUME NEW x \in S, j <= x PROVE k <= x
      BY <1>0, <3>1, <3>2
    <3>3. ASSUME NEW x \in From(j) PROVE x \in From(k)
      BY <3>2, <3>3
    <3>4. k \in From(k) /\ ~ (j <= k)
      BY <3>1
    <3> QED BY <3>3, <3>4
  <2>2. From(j) \in SUBSET S /\ From(k) \in SUBSET S /\ From(j) \in Rests
    OBVIOUS
  <2>3. <<From(j), From(k)>> \in StrictSubsetOrdering(S)
    <3> HIDE DEF From
    <3> QED BY <2>1, <2>2 DEF StrictSubsetOrdering
  <2> QED BY <1>3, <1>4, <2>2, <2>3
<1> QED BY <1>5

\* An id some response names has a response that is kept.
LEMMA KeptExists ==
  ASSUME answers \in Seq(Answer), NEW i, Replies(i) # {}
  PROVE  Kept(i) # {}
<1>1. Replies(i) \in SUBSET (1..Len(answers)) /\ Len(answers) \in Nat
  BY DEF Replies
<1> QED BY <1>1, LastPlace DEF Kept

-----------------------------------------------------------------------------
(* The types.                                                               *)

\* Every variable holds a value of the kind the code keeps there.
THEOREM TypeCorrect == Spec => []TypeOK
<1> USE RebuttalAssumption DEF Objection, Answer, NoId, StrayId
<1>1. Init => TypeOK
  BY DEF Init, TypeOK
<1>2. TypeOK /\ [Next]_vars => TypeOK'
  <2> SUFFICES ASSUME TypeOK, [Next]_vars PROVE TypeOK'
    OBVIOUS
  <2>1. ASSUME NEW n \in 0..MaxObjections, NEW os \in [1..n -> Objection], Object(os)
        PROVE  TypeOK'
    <3>1. os \in Seq(Objection)
      <4>1. n \in Nat
        OBVIOUS
      <4> HIDE DEF Objection
      <4> QED BY <4>1, SeqDef
    <3> QED BY <2>1, <3>1 DEF TypeOK, Object
  <2>2. ASSUME NEW n \in 1..MaxBatch, NEW S \in SUBSET Events, Read(n, S)
        PROVE  TypeOK'
    BY <2>2 DEF TypeOK, Read
  <2>3. ASSUME NEW n \in 0..MaxAnswers, NEW as \in [1..n -> Answer], Respond(as)
        PROVE  TypeOK'
    <3> DEFINE shown == [k \in DOMAIN as |-> [as[k] EXCEPT !.cites = Shown(as[k].cites)]]
    <3>1. shown \in [1..n -> Answer]
      BY DEF Shown
    <3>2. shown \in Seq(Answer)
      <4>1. n \in Nat
        OBVIOUS
      <4> HIDE DEF Answer, shown
      <4> QED BY <3>1, <4>1, SeqDef
    <3> QED BY <2>3, <3>2 DEF TypeOK, Respond
  <2>4. CASE Record
    <3>1. reply' \in Seq(Answer)
      <4>1. objections \in Seq(Objection) /\ Len(objections) \in Nat
        BY DEF TypeOK
      <4>2. Silence \in Answer
        BY DEF Silence
      <4>3. ASSUME NEW i \in 1..Len(objections), Replies(i) # {}
            PROVE  (CHOOSE a \in Kept(i) : TRUE) \in Answer
        <5>1. answers \in Seq(Answer)
          BY DEF TypeOK
        <5>2. Kept(i) # {} /\ Kept(i) \subseteq Answer
          <6> HIDE DEF Answer
          <6> QED BY <4>3, <5>1, KeptExists, KeptIsAnswer
        <5> HIDE DEF Answer
        <5> QED BY <5>2
      <4>4. reply' \in [1..Len(objections) -> Answer]
        <5> HIDE DEF Answer
        <5> QED BY <2>4, <4>1, <4>2, <4>3 DEF Record
      <4> HIDE DEF Answer
      <4> QED BY <4>1, <4>4, SeqDef
    <3>2. strays' \subseteq Answer
      <4>1. answers \in Seq(Answer)
        BY DEF TypeOK
      <4>2. \A i : Kept(i) \subseteq Answer
        <5> HIDE DEF Answer
        <5> QED BY <4>1, KeptIsAnswer
      <4> HIDE DEF Answer
      <4> QED BY <2>4, <4>2 DEF Record
    <3>3. alarm' \in Nat
      <4> DEFINE A == {i \in Unanswered : /\ objections[i].severity = "high"
                                          /\ objections[i].evidenced}
      <4>1. A \in SUBSET (1..Len(objections)) /\ Len(objections) \in Nat
        BY DEF Unanswered, TypeOK
      <4>2. IsFiniteSet(1..Len(objections))
        BY <4>1, FS_Interval
      <4>3. IsFiniteSet(A)
        BY <4>1, <4>2, FS_Subset
      <4>4. Cardinality(A) \in Nat
        BY <4>3, FS_CardinalityType
      <4> QED BY <2>4, <4>4 DEF Record
    <3>4. /\ pc' = "done" /\ objections' = objections /\ calls' = calls
          /\ seen' = seen /\ answers' = answers /\ outcome' = Outcome
      BY <2>4 DEF Record
    <3>5. Outcome \in {"no_objections", "objections_unevidenced",
                       "objections_conceded", "objections_answered", "objections_open"}
      BY DEF Outcome
    <3> HIDE DEF Answer, Objection
    <3> QED BY <3>1, <3>2, <3>3, <3>4, <3>5 DEF TypeOK
  <2>5. CASE Done \/ UNCHANGED vars
    BY <2>5 DEF Done, vars, TypeOK
  <2> QED BY <2>1, <2>2, <2>3, <2>4, <2>5 DEF Next
<1> QED BY <1>1, <1>2, PTL DEF Spec


-----------------------------------------------------------------------------
(* What is stored, and the reading that stands behind it.                   *)

\* The inductive invariant: answers cite what was shown, nothing is stored
\* before the end, and what is stored then is paired, counted and summed up
\* from the very answers given.
StoredInv ==
  /\ \A k \in DOMAIN answers : answers[k].cites \subseteq seen
  /\ pc # "done" => reply = <<>> /\ strays = {} /\ outcome = "not_run"
  /\ pc = "done" =>
       /\ DOMAIN reply = DOMAIN objections
       /\ \A i \in DOMAIN objections :
            IF Replies(i) = {} THEN reply[i] = Silence ELSE reply[i] \in Kept(i)
       /\ \A a \in strays : \E i : a \in Kept(i)
       /\ outcome = Outcome
       /\ alarm = Cardinality({i \in Unanswered : /\ objections[i].severity = "high"
                                                 /\ objections[i].evidenced})

\* Every step keeps StoredInv.
LEMMA StoredStep == TypeOK /\ StoredInv /\ [Next]_vars => StoredInv'
<1> SUFFICES ASSUME TypeOK, StoredInv, [Next]_vars PROVE StoredInv'
  OBVIOUS
<1>1. ASSUME NEW n \in 0..MaxObjections, NEW os \in [1..n -> Objection], Object(os)
      PROVE  StoredInv'
  BY <1>1 DEF Object, StoredInv
<1>2. ASSUME NEW n \in 1..MaxBatch, NEW S \in SUBSET Events, Read(n, S)
      PROVE  StoredInv'
  BY <1>2 DEF Read, StoredInv
<1>3. ASSUME NEW n \in 0..MaxAnswers, NEW as \in [1..n -> Answer], Respond(as)
      PROVE  StoredInv'
  <2>1. \A k \in DOMAIN answers' : answers'[k].cites \subseteq seen'
    BY <1>3 DEF Respond, Shown, Answer
  <2> QED BY <1>3, <2>1 DEF Respond, StoredInv
<1>4. CASE Record
  <2>1. pc' = "done" /\ UNCHANGED <<objections, answers, seen>>
    BY <1>4 DEF Record
  <2>2. DOMAIN reply' = DOMAIN objections
    BY <1>4 DEF Record
  <2>3. ASSUME NEW i \in DOMAIN objections
        PROVE  IF Replies(i) = {} THEN reply'[i] = Silence ELSE reply'[i] \in Kept(i)
    <3>1. Replies(i) # {} => Kept(i) # {}
      BY KeptExists DEF TypeOK
    <3> QED BY <1>4, <3>1 DEF Record
  <2>4. \A a \in strays' : \E i : a \in Kept(i)
    BY <1>4 DEF Record
  <2>5. /\ outcome' = Outcome
        /\ alarm' = Cardinality({i \in Unanswered : /\ objections[i].severity = "high"
                                                    /\ objections[i].evidenced})
    BY <1>4 DEF Record
  <2>6. Outcome' = Outcome /\ Unanswered' = Unanswered
    BY <2>1 DEF Outcome, Unanswered, Evidenced, Replies
  <2>7. \A i : Replies(i)' = Replies(i) /\ Kept(i)' = Kept(i)
    BY <2>1 DEF Replies, Kept
  <2> QED BY <2>1, <2>2, <2>3, <2>4, <2>5, <2>6, <2>7 DEF StoredInv
<1>5. CASE Done \/ UNCHANGED vars
  <2>1. UNCHANGED <<pc, objections, seen, answers, reply, strays, outcome, alarm>>
    BY <1>5 DEF Done, vars
  <2>2. Outcome' = Outcome /\ Unanswered' = Unanswered
    BY <2>1 DEF Outcome, Unanswered, Evidenced, Replies
  <2>3. \A i : Replies(i)' = Replies(i) /\ Kept(i)' = Kept(i)
    BY <2>1 DEF Replies, Kept
  <2> QED BY <2>1, <2>2, <2>3 DEF StoredInv
<1> QED BY <1>1, <1>2, <1>3, <1>4, <1>5 DEF Next

\* StoredInv holds in every state.
THEOREM Stored == Spec => [](TypeOK /\ StoredInv)
<1>1. Init => StoredInv
  BY DEF Init, StoredInv
<1> QED BY <1>1, TypeCorrect, StoredStep, PTL DEF Spec

-----------------------------------------------------------------------------
(* The properties that follow.                                              *)

\* A stored response is one given to that very objection.
THEOREM ResponsesBelong == Spec => []ResponsesAreOwn
<1>1. TypeOK /\ StoredInv => ResponsesAreOwn
  <2> SUFFICES ASSUME StoredInv, pc = "done", NEW i \in DOMAIN objections,
                      reply[i] # Silence
               PROVE  reply[i].id = i /\ \E k \in DOMAIN answers : answers[k] = reply[i]
    BY DEF ResponsesAreOwn
  <2>1. reply[i] \in Kept(i)
    BY DEF StoredInv
  <2> QED BY <2>1, KeptIsGiven
<1> QED BY <1>1, Stored, PTL

\* Rows an answer is stored with were shown to the rebuttal.
THEOREM CitationsWereShown == Spec => []AnswersCiteShown
<1>1. TypeOK /\ StoredInv => AnswersCiteShown
  <2> SUFFICES ASSUME TypeOK, StoredInv PROVE AnswersCiteShown
    OBVIOUS
  <2>1. ASSUME NEW i, NEW a \in Kept(i) PROVE a.cites \subseteq seen
    BY <2>1, KeptIsGiven DEF StoredInv
  <2>2. Silence.cites = {}
    BY DEF Silence
  <2>3. CASE pc = "done"
    <3>1. \A i \in DOMAIN reply : reply[i] = Silence \/ reply[i] \in Kept(i)
      BY <2>3 DEF StoredInv
    <3>2. \A a \in strays : \E i : a \in Kept(i)
      BY <2>3 DEF StoredInv
    <3> QED BY <2>1, <2>2, <3>1, <3>2 DEF AnswersCiteShown
  <2>4. CASE pc # "done"
    BY <2>4 DEF StoredInv, AnswersCiteShown
  <2> QED BY <2>3, <2>4
<1> QED BY <1>1, Stored, PTL

\* The count behind the warning is the number of rows shown unanswered.
THEOREM AlarmIsExact == Spec => []AlarmMatchesRows
<1>1. TypeOK /\ StoredInv => AlarmMatchesRows
  <2> SUFFICES ASSUME TypeOK, StoredInv, pc = "done" PROVE AlarmMatchesRows
    BY DEF AlarmMatchesRows
  <2>1. ASSUME NEW i \in DOMAIN objections
        PROVE  reply[i] = Silence <=> Replies(i) = {}
    <3>1. i \in Nat \ {0}
      BY DEF TypeOK
    <3>2. \A a \in Kept(i) : a.id = i
      BY KeptIsGiven
    <3>3. Silence.id = 0
      BY DEF Silence, NoId
    <3> QED BY <3>1, <3>2, <3>3 DEF StoredInv
  <2>2. {i \in Unanswered : objections[i].severity = "high" /\ objections[i].evidenced}
        = {i \in DOMAIN objections : /\ reply[i] = Silence
                                     /\ objections[i].severity = "high"
                                     /\ objections[i].evidenced}
    BY <2>1 DEF Unanswered
  <2> QED BY <2>2 DEF AlarmMatchesRows, StoredInv
<1> QED BY <1>1, Stored, PTL

\* The outcome of the debate is what its stored rows say.
THEOREM OutcomeIsShown == Spec => []OutcomeMatchesRows
<1>1. TypeOK /\ StoredInv => OutcomeMatchesRows
  <2> SUFFICES ASSUME TypeOK, StoredInv PROVE OutcomeMatchesRows
    OBVIOUS
  <2> DEFINE Rows == {reply[i] : i \in DOMAIN reply} \cup strays
  <2>1. CASE pc # "done"
    BY <2>1 DEF StoredInv, OutcomeMatchesRows
  <2>2. CASE pc = "done"
    <3>1. \A a \in Rows : a = Silence \/ \E i : a \in Kept(i)
      BY <2>2 DEF StoredInv
    <3>2. \A a \in Rows : a = Silence \/ \E k \in DOMAIN answers : answers[k] = a
      BY <3>1, KeptIsGiven
    <3>3. ASSUME outcome = "objections_answered", NEW a \in Rows PROVE ~a.conceded
      <4>1. \A k \in DOMAIN answers : ~answers[k].conceded
        BY <2>2, <3>3 DEF StoredInv, Outcome
      <4> QED BY <3>2, <4>1 DEF Silence
    <3>4. ASSUME outcome = "objections_open", NEW a \in Rows PROVE a = Silence
      <4>1. answers = <<>>
        BY <2>2, <3>4 DEF StoredInv, Outcome
      <4> QED BY <3>2, <4>1
    <3> QED BY <3>3, <3>4 DEF OutcomeMatchesRows
  <2> QED BY <2>1, <2>2
<1> QED BY <1>1, Stored, PTL
=============================================================================
