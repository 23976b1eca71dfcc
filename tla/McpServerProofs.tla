-------------------------- MODULE McpServerProofs --------------------------
(* What TLAPS proves about McpServer for any number of requests, incidents  *)
(* and crashes, and about Migrations, the way a call opens the scratchpad   *)
(* of its incident, for any scripts, connections and crashes.               *)
EXTENDS McpServer, Schema, TLAPS

-----------------------------------------------------------------------------
(* Type correctness.                                                        *)

LEMMA InitType == Init => TypeOK
<1> SUFFICES ASSUME Init PROVE TypeOK
  OBVIOUS
<1>1. /\ pc \in [Calls -> {"idle"}] /\ tool \in [Calls -> {"read"}]
      /\ conn \in [Calls -> {0}] /\ blank \in [Calls -> BOOLEAN]
  BY DEF Init
<1>2. made \in [Incidents -> Nat] /\ file \in [Incidents -> Nat]
      /\ \A i \in Incidents : file[i] <= made[i]
  BY DEF Init
<1>3. migrated \subseteq Incidents \X Nat
  BY DEF Init
<1> QED BY <1>1, <1>2, <1>3, ServerAssumption
        DEF Init, TypeOK, Tools, Ended, Connected

LEMMA StepType ==
  ASSUME TypeOK, NEW c \in Calls, Step(c) PROVE TypeOK'
<1> USE DEF lockVars, diskVars, callVars, Goto, Over, Ended, Connected, Tools
<1>1. CASE Reject(c) \/ EnterGuard(c) \/ RefuseBusy(c) \/ Claim(c)
  BY <1>1 DEF Reject, EnterGuard, RefuseBusy, Claim, TypeOK
<1>2. CASE WorkRaises(c) \/ ExistsCheck(c) \/ NoIncident(c) \/ MigrationCollides(c)
           \/ WorkReturns(c)
  BY <1>2 DEF WorkRaises, ExistsCheck, NoIncident, MigrationCollides, WorkReturns, TypeOK
<1>3. CASE IngestUnlinks(c)
  BY <1>3 DEF IngestUnlinks, TypeOK
<1>4. CASE Connect(c)
  BY <1>4 DEF Connect, TypeOK
<1>5. CASE Migrate(c)
  BY <1>5 DEF Migrate, TypeOK
<1>6. ASSUME NEW restart \in BOOLEAN, Investigate(c, restart) PROVE TypeOK'
  BY <1>6 DEF Investigate, TypeOK
<1>7. CASE WriteNote(c)
  BY <1>7 DEF WriteNote, TypeOK
<1>8. CASE ReenterGuard(c) \/ Release(c)
  BY <1>8 DEF ReenterGuard, Release, TypeOK
<1> QED BY <1>1, <1>2, <1>3, <1>4, <1>5, <1>6, <1>7, <1>8 DEF Step

LEMMA NextType == TypeOK /\ [Next]_vars => TypeOK'
<1> SUFFICES ASSUME TypeOK, [Next]_vars PROVE TypeOK'
  OBVIOUS
<1> USE DEF lockVars, diskVars, callVars, Ended, Connected, Tools
<1>1. ASSUME NEW c \in Calls, NEW t \in Tools, Request(c, t) PROVE TypeOK'
  BY <1>1 DEF Request, Goto, TypeOK
<1>2. ASSUME NEW c \in Calls, Step(c) PROVE TypeOK'
  BY <1>2, StepType
<1>3. CASE Crash
  BY <1>3, ServerAssumption DEF Crash, TypeOK
<1>4. CASE Quiet \/ UNCHANGED vars
  BY <1>4 DEF Quiet, vars, TypeOK
<1> QED BY <1>1, <1>2, <1>3, <1>4 DEF Next

\* Every variable of the server keeps its type, and a path never leads to a
\* scratchpad that was not made.
THEOREM TypeCorrect == Spec => []TypeOK
<1> QED BY InitType, NextType, PTL DEF Spec

-----------------------------------------------------------------------------
(* One writer per incident.                                                 *)

\* The guard has one call inside it, the one whose pc says so.
GuardInv ==
  \A c \in Calls : pc[c] \in {"guarded", "leaving"} => guard = c

\* A writer outside the locks' two blocks is one that was admitted, and only
\* writers pass through them.
WritersOnly ==
  \A c \in Calls : pc[c] \in {"enter", "guarded", "leave", "leaving"} => tool[c] \in WriterTools

LockInv == TypeOK /\ GuardInv /\ WritersOnly /\ OneWriter

\* A step that leaves the locks alone, and every call's claim where it is,
\* leaves OneWriter as it was.
LEMMA SameClaims ==
  ASSUME OneWriter, UNCHANGED <<inc, held>>, \A d \in Calls : Admitted(d)' <=> Admitted(d)
  PROVE  OneWriter'
  BY DEF OneWriter

LEMMA LockStep == LockInv /\ [Next]_vars => LockInv'
<1> SUFFICES ASSUME LockInv, [Next]_vars PROVE LockInv'
  OBVIOUS
<1>0. TypeOK'
  BY NextType DEF LockInv
<1> USE DEF lockVars, diskVars, callVars
<1>1. ASSUME NEW c \in Calls, NEW t \in Tools, Request(c, t) PROVE LockInv'
  <2>1. \A d \in Calls : Admitted(d)' <=> Admitted(d)
    BY <1>1 DEF Request, Goto, Admitted, LockInv, TypeOK, Tools, WriterTools
  <2>2. GuardInv' /\ WritersOnly'
    BY <1>1 DEF Request, Goto, GuardInv, WritersOnly, LockInv, TypeOK, Tools
  <2> QED BY <1>0, <1>1, <2>1, <2>2, SameClaims DEF Request, LockInv
<1>2. ASSUME NEW c \in Calls, Reject(c) \/ EnterGuard(c) \/ RefuseBusy(c) PROVE LockInv'
  <2>1. \A d \in Calls : Admitted(d)' <=> Admitted(d)
    BY <1>2 DEF Reject, EnterGuard, RefuseBusy, Goto, Admitted, LockInv, TypeOK
  <2>2. GuardInv' /\ WritersOnly'
    BY <1>2, ServerAssumption
    DEF Reject, EnterGuard, RefuseBusy, Goto, GuardInv, WritersOnly, LockInv, TypeOK
  <2> QED BY <1>0, <1>2, <2>1, <2>2, SameClaims DEF Reject, EnterGuard, RefuseBusy, LockInv
<1>3. ASSUME NEW c \in Calls, Claim(c) PROVE LockInv'
  <2>1. ~Admitted(c) /\ Admitted(c)' /\ \A d \in Calls \ {c} : Admitted(d)' <=> Admitted(d)
    BY <1>3 DEF Claim, Goto, Admitted, WritersOnly, LockInv, TypeOK
  <2>2. held' = held \cup {inc[c]} /\ inc[c] \notin held /\ UNCHANGED inc
    BY <1>3 DEF Claim
  <2>3. \A d \in Calls : Admitted(d) => inc[d] \in held
    BY DEF LockInv, OneWriter
  <2>4. OneWriter'
    BY <2>1, <2>2, <2>3 DEF LockInv, OneWriter
  <2>5. GuardInv' /\ WritersOnly'
    BY <1>3 DEF Claim, Goto, GuardInv, WritersOnly, LockInv, TypeOK
  <2> QED BY <1>0, <2>4, <2>5 DEF LockInv
<1>4. ASSUME NEW c \in Calls,
             \/ WorkRaises(c) \/ IngestUnlinks(c) \/ ExistsCheck(c) \/ NoIncident(c)
             \/ Connect(c) \/ Migrate(c) \/ MigrationCollides(c) \/ WriteNote(c)
             \/ WorkReturns(c) \/ \E restart \in BOOLEAN : Investigate(c, restart)
      PROVE LockInv'
  <2> USE DEF WorkRaises, IngestUnlinks, ExistsCheck, NoIncident, Connect, Migrate,
              MigrationCollides, WriteNote, WorkReturns, Investigate, Goto, Over
  <2>1. UNCHANGED <<tool, inc, guard, held>>
    BY <1>4
  <2>2. \A d \in Calls \ {c} : pc'[d] = pc[d]
    BY <1>4 DEF LockInv, TypeOK
  <2>3. /\ pc[c] \in {"work", "found", "connected", "open", "writing"}
        /\ pc'[c] \in {"work", "found", "connected", "open", "writing", "leave", "done"}
        /\ pc'[c] = "leave" => tool[c] # "read"
        /\ pc'[c] = "done" => tool[c] = "read"
    BY <1>4 DEF LockInv, TypeOK
  <2> HIDE DEF WorkRaises, IngestUnlinks, ExistsCheck, NoIncident, Connect, Migrate,
              MigrationCollides, WriteNote, WorkReturns, Investigate, Goto, Over
  <2>4. tool[c] \in Tools
    BY DEF LockInv, TypeOK
  <2>5. \A d \in Calls : Admitted(d)' <=> Admitted(d)
    BY <2>1, <2>2, <2>3, <2>4 DEF Admitted, WriterTools, Tools
  <2>6. GuardInv' /\ WritersOnly'
    BY <2>1, <2>2, <2>3, <2>4 DEF GuardInv, WritersOnly, LockInv, Tools
  <2> QED BY <1>0, <2>1, <2>5, <2>6, SameClaims DEF LockInv
<1>5. ASSUME NEW c \in Calls, ReenterGuard(c) PROVE LockInv'
  <2>1. \A d \in Calls : Admitted(d)' <=> Admitted(d)
    BY <1>5 DEF ReenterGuard, Goto, Admitted, LockInv, TypeOK
  <2>2. GuardInv' /\ WritersOnly'
    BY <1>5, ServerAssumption DEF ReenterGuard, Goto, GuardInv, WritersOnly, LockInv, TypeOK
  <2> QED BY <1>0, <1>5, <2>1, <2>2, SameClaims DEF ReenterGuard, LockInv
<1>6. ASSUME NEW c \in Calls, Release(c) PROVE LockInv'
  <2>1. Admitted(c) /\ ~Admitted(c)' /\ \A d \in Calls \ {c} : Admitted(d)' <=> Admitted(d)
    BY <1>6 DEF Release, Goto, Admitted, WritersOnly, LockInv, TypeOK
  <2>2. held' = held \ {inc[c]} /\ UNCHANGED inc
    BY <1>6 DEF Release
  <2>3. \A d \in Calls \ {c} : Admitted(d) => inc[d] # inc[c]
    BY <2>1 DEF LockInv, OneWriter
  <2>4. OneWriter'
    BY <2>1, <2>2, <2>3 DEF LockInv, OneWriter
  <2>5. GuardInv' /\ WritersOnly'
    BY <1>6 DEF Release, Goto, GuardInv, WritersOnly, LockInv, TypeOK
  <2> QED BY <1>0, <2>4, <2>5 DEF LockInv
<1>7. CASE Crash
  <2>1. \A c \in Calls : pc'[c] \in Ended \cup {"idle"}
    BY <1>7 DEF Crash, LockInv, TypeOK, Ended
  <2>2. \A c \in Calls : ~Admitted(c)'
    BY <2>1 DEF Admitted, Ended
  <2>3. held' = {}
    BY <1>7 DEF Crash
  <2>4. OneWriter'
    BY <2>2, <2>3 DEF OneWriter
  <2>5. GuardInv' /\ WritersOnly'
    BY <2>1 DEF GuardInv, WritersOnly, Ended
  <2> QED BY <1>0, <2>4, <2>5 DEF LockInv
<1>8. CASE Quiet \/ UNCHANGED vars
  BY <1>0, <1>8 DEF Quiet, vars, LockInv, GuardInv, WritersOnly, OneWriter, Admitted
<1> QED BY <1>1, <1>2, <1>3, <1>4, <1>5, <1>6, <1>7, <1>8 DEF Next, Step

LEMMA LockInit == Init => LockInv
<1>1. Init => TypeOK
  BY InitType
<1>2. Init => \A c \in Calls : pc[c] = "idle"
  BY DEF Init
<1>3. Init => GuardInv /\ WritersOnly
  BY <1>2 DEF GuardInv, WritersOnly
<1>4. Init => \A c \in Calls : ~Admitted(c)
  BY <1>2 DEF Admitted
<1>5. Init => OneWriter
  BY <1>4 DEF Init, OneWriter
<1> QED BY <1>1, <1>3, <1>5 DEF LockInv

LEMMA LockInvariant == Spec => []LockInv
<1> QED BY LockInit, LockStep, PTL DEF Spec

\* At most one call writes to an incident at any time, and the held incidents
\* are exactly those some call writes to, however calls interleave or raise.
THEOREM OneWriterAtATime == Spec => []OneWriter
<1>1. LockInv => OneWriter
  BY DEF LockInv
<1> QED BY <1>1, LockInvariant, PTL

-----------------------------------------------------------------------------
(* What the lock protects: the scratchpad and the record in it.             *)

\* Calls that use a scratchpad are connected to one, an investigation that
\* writes is a writer and the only author of what it finds there.
RecordInv ==
  /\ WriterKeepsItsScratchpad
  /\ OneAuthorPerRecord
  /\ \A c \in Calls : pc[c] = "writing" =>
       /\ tool[c] = "investigate"
       /\ \A a \in authors : (a[1] = inc[c] /\ a[2] = conn[c]) => a[3] = c

LEMMA RecordStep == LockInv /\ LockInv' /\ RecordInv /\ [Next]_vars => RecordInv'
<1> SUFFICES ASSUME LockInv, LockInv', RecordInv, [Next]_vars PROVE RecordInv'
  OBVIOUS
<1> USE DEF lockVars, diskVars, callVars, Goto, Over, Connected
<1>0. TypeOK /\ TypeOK'
  BY DEF LockInv
<1>a. \A c, d \in Calls : (Admitted(c) /\ Admitted(d) /\ inc[c] = inc[d]) => c = d
  BY DEF LockInv, OneWriter
<1>1. ASSUME UNCHANGED <<inc, file, conn, authors>>,
             \A c \in Calls : pc'[c] \in Connected => pc[c] \in Connected /\ tool'[c] = tool[c],
             \A c \in Calls : pc'[c] = "writing" => pc[c] = "writing"
      PROVE  RecordInv'
  BY <1>1 DEF RecordInv, WriterKeepsItsScratchpad, OneAuthorPerRecord, Admitted, WriterTools
<1>2. ASSUME NEW c \in Calls, NEW t \in Tools, Request(c, t) PROVE RecordInv'
  BY <1>0, <1>1, <1>2 DEF Request, TypeOK
<1>3. ASSUME NEW c \in Calls,
             \/ Reject(c) \/ EnterGuard(c) \/ RefuseBusy(c) \/ Claim(c) \/ WorkRaises(c)
             \/ ExistsCheck(c) \/ NoIncident(c) \/ Migrate(c) \/ MigrationCollides(c)
             \/ WorkReturns(c) \/ ReenterGuard(c) \/ Release(c)
      PROVE  RecordInv'
  BY <1>0, <1>1, <1>3
  DEF Reject, EnterGuard, RefuseBusy, Claim, WorkRaises, ExistsCheck, NoIncident, Migrate,
      MigrationCollides, WorkReturns, ReenterGuard, Release, TypeOK
<1>4. ASSUME NEW c \in Calls, IngestUnlinks(c) PROVE RecordInv'
  <2>1. Admitted(c) /\ pc'[c] = "found" /\ UNCHANGED <<tool, inc, conn, authors>>
        /\ file' = [file EXCEPT ![inc[c]] = 0]
        /\ \A d \in Calls \ {c} : pc'[d] = pc[d]
    BY <1>0, <1>4 DEF IngestUnlinks, Admitted, WriterTools, TypeOK
  <2>2. \A d \in Calls \ {c} : Admitted(d) => inc[d] # inc[c] /\ file'[inc[d]] = file[inc[d]]
    BY <1>0, <1>a, <2>1 DEF TypeOK
  <2>3. \A d \in Calls \ {c} : Admitted(d)' => Admitted(d)
    BY <2>1 DEF Admitted
  <2> QED BY <2>1, <2>2, <2>3 DEF RecordInv, WriterKeepsItsScratchpad, OneAuthorPerRecord
<1>5. ASSUME NEW c \in Calls, Connect(c) PROVE RecordInv'
  <2>1. /\ UNCHANGED <<tool, inc, authors>> /\ pc'[c] = "connected"
        /\ conn'[c] = file'[inc[c]]
        /\ \A d \in Calls \ {c} : pc'[d] = pc[d] /\ conn'[d] = conn[d]
        /\ \A i \in Incidents : file[i] # 0 => file'[i] = file[i]
    BY <1>0, <1>5 DEF Connect, TypeOK
  <2>2. \A d \in Calls \ {c} : (Admitted(d)' /\ pc'[d] \in Connected) => conn'[d] = file'[inc'[d]]
    BY <1>0, <2>1 DEF RecordInv, WriterKeepsItsScratchpad, Admitted, TypeOK
  <2>3. WriterKeepsItsScratchpad'
    BY <2>1, <2>2 DEF WriterKeepsItsScratchpad
  <2> QED BY <2>1, <2>3 DEF RecordInv, OneAuthorPerRecord
<1>6. ASSUME NEW c \in Calls, NEW restart \in BOOLEAN, Investigate(c, restart) PROVE RecordInv'
  <2>1. /\ UNCHANGED <<tool, inc, conn, file>> /\ pc[c] = "open" /\ pc'[c] = "writing"
        /\ tool[c] = "investigate" /\ authors' \subseteq authors
        /\ \A d \in Calls \ {c} : pc'[d] = pc[d]
    BY <1>0, <1>6 DEF Investigate, TypeOK
  <2>2. \A a \in authors' : ~(a[1] = inc[c] /\ a[2] = conn[c])
    <3>1. CASE restart
      BY <1>6, <3>1 DEF Investigate
    <3>2. CASE ~restart
      <4>1. Authors(inc[c], conn[c]) = {} /\ authors' = authors
        BY <1>6, <3>2 DEF Investigate
      <4>2. \A a \in authors : a[3] \in Calls /\ a = <<a[1], a[2], a[3]>>
        BY <1>0 DEF TypeOK
      <4> QED BY <4>1, <4>2 DEF Authors
    <3> QED BY <3>1, <3>2
  <2>3. WriterKeepsItsScratchpad'
    BY <2>1 DEF RecordInv, WriterKeepsItsScratchpad, Admitted
  <2> QED BY <2>1, <2>2, <2>3 DEF RecordInv, OneAuthorPerRecord
<1>7. ASSUME NEW c \in Calls, WriteNote(c) PROVE RecordInv'
  <2>1. /\ UNCHANGED <<pc, tool, inc, conn, file>> /\ pc[c] = "writing"
        /\ authors' = authors \cup {<<inc[c], conn[c], c>>}
    BY <1>7 DEF WriteNote
  <2>2. Admitted(c)
    BY <2>1 DEF RecordInv, Admitted, WriterTools
  <2>3. \A d \in Calls : (pc[d] = "writing" /\ inc[d] = inc[c]) => d = c
    BY <1>a, <2>2 DEF RecordInv, Admitted, WriterTools
  <2>4. WriterKeepsItsScratchpad'
    BY <2>1 DEF RecordInv, WriterKeepsItsScratchpad, Admitted
  <2> QED BY <2>1, <2>3, <2>4 DEF RecordInv, OneAuthorPerRecord
<1>8. CASE Crash
  <2>1. UNCHANGED <<tool, inc, conn, file, authors>>
        /\ \A c \in Calls : pc'[c] \in Ended \cup {"idle"}
    BY <1>0, <1>8 DEF Crash, TypeOK, Ended
  <2> QED BY <1>1, <2>1 DEF Ended
<1>9. CASE Quiet \/ UNCHANGED vars
  BY <1>1, <1>9 DEF Quiet, vars
<1> QED BY <1>2, <1>3, <1>4, <1>5, <1>6, <1>7, <1>8, <1>9 DEF Next, Step

LEMMA RecordInvariant == Spec => []RecordInv
<1>1. Init => RecordInv
  BY DEF Init, RecordInv, WriterKeepsItsScratchpad, OneAuthorPerRecord, Connected
<1> QED BY <1>1, RecordStep, LockInvariant, PTL DEF Spec

\* No ingest replaces a scratchpad under a call that writes to it.
THEOREM ScratchpadIsKept == Spec => []WriterKeepsItsScratchpad
<1>1. RecordInv => WriterKeepsItsScratchpad
  BY DEF RecordInv
<1> QED BY <1>1, RecordInvariant, PTL

\* Two investigations never write into one record.
THEOREM RecordHasOneAuthor == Spec => []OneAuthorPerRecord
<1>1. RecordInv => OneAuthorPerRecord
  BY DEF RecordInv
<1> QED BY <1>1, RecordInvariant, PTL

-----------------------------------------------------------------------------
(* The server implements OneWriterPerIncident.                              *)

\* The two variables of the promise, as McpServer's state shows them.
Writers == [i \in Incidents |-> {c \in Calls : Admitted(c) /\ inc[c] = i}]
VerdictOf(c) == IF Admitted(c) THEN "admitted"
                ELSE IF pc[c] = "busy" THEN "refused"
                ELSE IF pc[c] = "done" /\ tool[c] # "read" THEN "ended"
                ELSE "unasked"
Verdict == [c \in Calls |-> VerdictOf(c)]

\* Steps that admit, refuse and end nobody stutter.
LEMMA Stutters ==
  ASSUME UNCHANGED inc, \A c \in Calls : Admitted(c)' <=> Admitted(c),
         \A c \in Calls : VerdictOf(c)' = VerdictOf(c)
  PROVE  UNCHANGED <<Writers, Verdict>>
  BY DEF Writers, Verdict

LEMMA PromiseStep ==
  LockInv /\ LockInv' /\ [Next]_vars => [Promise!Next]_<<Writers, Verdict>>
<1> SUFFICES ASSUME LockInv, LockInv', [Next]_vars
             PROVE  Promise!Next \/ UNCHANGED <<Writers, Verdict>>
  OBVIOUS
<1> USE DEF lockVars, diskVars, callVars, Goto, Over
<1>0. /\ TypeOK /\ TypeOK' /\ WritersOnly /\ GuardInv
      /\ \A c, d \in Calls : (Admitted(c) /\ Admitted(d) /\ inc[c] = inc[d]) => c = d
      /\ held = {inc[c] : c \in {d \in Calls : Admitted(d)}}
  BY DEF LockInv, OneWriter
<1>1. ASSUME NEW c \in Calls, NEW t \in Tools, Request(c, t)
      PROVE  UNCHANGED <<Writers, Verdict>>
  <2>1. /\ UNCHANGED inc /\ pc[c] = "idle" /\ pc'[c] \in {"work", "enter"}
        /\ pc'[c] = "work" => tool'[c] = "read"
        /\ \A d \in Calls \ {c} : pc'[d] = pc[d] /\ tool'[d] = tool[d]
    BY <1>0, <1>1 DEF Request, TypeOK
  <2> QED BY <2>1, Stutters DEF Admitted, VerdictOf, WriterTools
<1>2. ASSUME NEW c \in Calls, Reject(c) \/ EnterGuard(c) \/ ReenterGuard(c)
      PROVE  UNCHANGED <<Writers, Verdict>>
  <2>1. /\ UNCHANGED <<tool, inc>>
        /\ <<pc[c], pc'[c]>> \in {<<"enter", "rejected">>, <<"enter", "guarded">>,
                                   <<"leave", "leaving">>}
        /\ \A d \in Calls \ {c} : pc'[d] = pc[d]
    BY <1>0, <1>2 DEF Reject, EnterGuard, ReenterGuard, TypeOK
  <2> QED BY <2>1, Stutters DEF Admitted, VerdictOf
<1>3. ASSUME NEW c \in Calls,
             \/ WorkRaises(c) \/ IngestUnlinks(c) \/ ExistsCheck(c) \/ NoIncident(c)
             \/ Connect(c) \/ Migrate(c) \/ MigrationCollides(c) \/ WriteNote(c)
             \/ WorkReturns(c) \/ \E restart \in BOOLEAN : Investigate(c, restart)
      PROVE  UNCHANGED <<Writers, Verdict>>
  <2>1. /\ UNCHANGED <<tool, inc>>
        /\ \A d \in Calls \ {c} : pc'[d] = pc[d]
        /\ pc[c] \in {"work", "found", "connected", "open", "writing"}
        /\ pc'[c] \in {"work", "found", "connected", "open", "writing", "leave", "done"}
        /\ pc'[c] = "leave" => tool[c] # "read"
        /\ pc'[c] = "done" => tool[c] = "read"
    BY <1>0, <1>3
    DEF WorkRaises, IngestUnlinks, ExistsCheck, NoIncident, Connect, Migrate,
        MigrationCollides, WriteNote, WorkReturns, Investigate, TypeOK
  <2>2. tool[c] \in Tools
    BY <1>0 DEF TypeOK
  <2> QED BY <2>1, <2>2, Stutters DEF Admitted, VerdictOf, WriterTools, Tools
<1>4. ASSUME NEW c \in Calls, NEW i \in Incidents, i = inc[c], Claim(c)
      PROVE  Promise!Admit(c, i)
  <2>1. /\ ~Admitted(c) /\ Admitted(c)' /\ UNCHANGED <<tool, inc>> /\ inc[c] \notin held
        /\ pc[c] = "guarded" /\ \A d \in Calls \ {c} : pc'[d] = pc[d]
    BY <1>0, <1>4 DEF Claim, Admitted, WritersOnly, TypeOK
  <2>2. Writers[i] = {}
    BY <1>0, <1>4, <2>1 DEF Writers, TypeOK
  <2>3. Verdict[c] = "unasked"
    BY <2>1 DEF Verdict, VerdictOf
  <2>4. Writers' = [Writers EXCEPT ![i] = {c}]
    <3>1. \A d \in Calls : Admitted(d)' <=> (Admitted(d) \/ d = c)
      BY <2>1 DEF Admitted
    <3>2. \A d \in Calls : Admitted(d) => inc[d] # i
      BY <1>4, <2>2 DEF Writers
    <3> QED BY <1>4, <2>1, <3>1, <3>2 DEF Writers
  <2>5. Verdict' = [Verdict EXCEPT ![c] = "admitted"]
    BY <2>1 DEF Verdict, VerdictOf, Admitted
  <2> QED BY <2>2, <2>3, <2>4, <2>5 DEF Promise!Admit, Writers, Verdict, VerdictOf
<1>5. ASSUME NEW c \in Calls, NEW i \in Incidents, i = inc[c], RefuseBusy(c)
      PROVE  Promise!Refuse(c, i)
  <2>1. /\ ~Admitted(c) /\ ~Admitted(c)' /\ UNCHANGED <<tool, inc>> /\ inc[c] \in held
        /\ pc[c] = "guarded" /\ pc'[c] = "busy" /\ \A d \in Calls \ {c} : pc'[d] = pc[d]
    BY <1>0, <1>5 DEF RefuseBusy, Admitted, TypeOK
  <2>2. Writers[i] # {}
    BY <1>0, <1>5, <2>1 DEF Writers, TypeOK
  <2>3. Verdict[c] = "unasked"
    BY <2>1 DEF Verdict, VerdictOf
  <2>4. Writers' = Writers
    BY <2>1 DEF Writers, Admitted
  <2>5. Verdict' = [Verdict EXCEPT ![c] = "refused"]
    BY <2>1 DEF Verdict, VerdictOf, Admitted
  <2> QED BY <2>2, <2>3, <2>4, <2>5 DEF Promise!Refuse, Writers, Verdict, VerdictOf
<1>6. ASSUME NEW c \in Calls, NEW i \in Incidents, i = inc[c], Release(c)
      PROVE  Promise!End(c, i)
  <2>1. /\ Admitted(c) /\ ~Admitted(c)' /\ UNCHANGED <<tool, inc>> /\ tool[c] # "read"
        /\ pc'[c] = "done" /\ \A d \in Calls \ {c} : pc'[d] = pc[d]
    BY <1>0, <1>6 DEF Release, Admitted, WritersOnly, WriterTools, TypeOK
  <2>2. Writers[i] = {c}
    BY <1>0, <1>6, <2>1 DEF Writers, TypeOK
  <2>3. Writers' = [Writers EXCEPT ![i] = {}]
    <3>1. \A d \in Calls : Admitted(d)' <=> (Admitted(d) /\ d # c)
      BY <2>1 DEF Admitted
    <3>2. \A d \in Calls : (Admitted(d) /\ inc[d] = inc[c]) => d = c
      BY <1>0, <2>1
    <3> QED BY <1>6, <2>1, <3>1, <3>2 DEF Writers
  <2>4. Verdict' = [Verdict EXCEPT ![c] = "ended"]
    BY <2>1 DEF Verdict, VerdictOf, Admitted
  <2> QED BY <2>2, <2>3, <2>4 DEF Promise!End, Writers, Verdict, VerdictOf
<1>7. CASE Crash
  <2>1. /\ UNCHANGED <<tool, inc>>
        /\ pc' = [c \in Calls |-> IF pc[c] \in Ended \cup {"idle"} THEN pc[c]
                                  ELSE IF Admitted(c) THEN "done" ELSE "dropped"]
    BY <1>7 DEF Crash
  <2>2. \A c \in Calls : ~Admitted(c)'
    BY <2>1 DEF Admitted, Ended
  <2>3. Writers' = [i \in Incidents |-> {}]
    BY <2>2 DEF Writers
  <2>4. \A c \in Calls : VerdictOf(c)' = IF VerdictOf(c) = "admitted" THEN "ended" ELSE VerdictOf(c)
    BY <1>0, <2>1, <2>2 DEF VerdictOf, Admitted, Ended, WriterTools, TypeOK
  <2>5. Verdict' = [c \in Calls |-> IF Verdict[c] = "admitted" THEN "ended" ELSE Verdict[c]]
    BY <2>4 DEF Verdict
  <2> QED BY <2>3, <2>5 DEF Promise!Next, Promise!Crash, Writers, Verdict, VerdictOf
<1>8. CASE Quiet \/ UNCHANGED vars
  BY <1>8, Stutters DEF Quiet, vars, Admitted, VerdictOf
<1>9. \A c \in Calls : inc[c] \in Incidents
  BY <1>0 DEF TypeOK
<1>10. ASSUME NEW c \in Calls, Claim(c) \/ RefuseBusy(c) \/ Release(c) PROVE Promise!Next
  <2>1. PICK i \in Incidents : i = inc[c]
    BY <1>9
  <2>2. Promise!Admit(c, i) \/ Promise!Refuse(c, i) \/ Promise!End(c, i)
    BY <1>4, <1>5, <1>6, <1>10, <2>1
  <2> QED BY <2>2, Zenon DEF Promise!Next
<1> QED BY <1>1, <1>2, <1>3, <1>7, <1>8, <1>10 DEF Next, Step

\* Admissions, refusals and ends follow OneWriterPerIncident: no request is
\* refused unless its incident is being written, and none waits for another.
THEOREM ServerKeepsPromise == Spec => ImplementsPromise
<1>1. Init => Promise!Init
  <2> SUFFICES ASSUME Init PROVE Promise!Init
    OBVIOUS
  <2>1. \A c \in Calls : pc[c] = "idle" /\ ~Admitted(c)
    BY DEF Init, Admitted
  <2> QED BY <2>1 DEF Promise!Init
<1>2. LockInv /\ LockInv' /\ [Next]_vars => [Promise!Next]_<<Writers, Verdict>>
  BY PromiseStep
<1> QED BY <1>1, <1>2, LockInvariant, PTL DEF Spec, ImplementsPromise, Promise!Spec,
                                             Writers, Verdict, VerdictOf

-----------------------------------------------------------------------------
(* The scratchpad a call opens.                                             *)
(*                                                                          *)
(* McpServer's Migrate takes the migrations of one connection in one step;  *)
(* Migrations models them statement by statement, on one file that any      *)
(* number of connections open at a time.                                    *)

CONSTANT MaxDeaths

VARIABLES recorded, now, at, applied, pending, writer, deaths

Db == INSTANCE Migrations WITH crashes <- deaths, MaxCrashes <- MaxDeaths

LEMMA ScriptsType ==
  ASSUME Db!MigrationAssumption
  PROVE  /\ Len(Scripts) \in Nat
         /\ \A v \in Db!Versions : Len(Scripts[v]) \in Nat
<1>1. \A v \in Db!Versions : Scripts[v] \in Seq([does : Db!Doings, what : STRING])
  BY DEF Db!MigrationAssumption, Db!Versions
<1> QED BY <1>1 DEF Db!MigrationAssumption

-----------------------------------------------------------------------------
(* Type correctness.                                                        *)

LEMMA RowsAreStatements ==
  ASSUME NEW n
  PROVE  \A s : s \in Db!Rows(n) <=> \E v \in 1..n : \E k \in Db!Statements(v) : s = <<v, k>>
  BY DEF Db!Rows

LEMMA DbInitType ==
  ASSUME Db!MigrationAssumption
  PROVE  Db!Init => Db!TypeOK
<1> SUFFICES ASSUME Db!Init PROVE Db!TypeOK
  OBVIOUS
<1>1. PICK n \in 0..Len(Scripts) : recorded = 1..n /\ schema = Db!LeftBy(n)
  BY DEF Db!Init
<1>2. recorded \subseteq Db!Versions
  BY <1>1, ScriptsType DEF Db!Versions
<1>3. schema \subseteq Db!Rows(n)
  BY <1>1 DEF Db!LeftBy
<1>4. schema \subseteq Db!Rows(Len(Scripts))
  BY <1>1, <1>2, <1>3, RowsAreStatements DEF Db!Versions
<1> QED BY <1>2, <1>4 DEF Db!MigrationAssumption, Db!Init, Db!TypeOK

LEMMA DbStepType ==
  ASSUME Db!MigrationAssumption
  PROVE  Db!TypeOK /\ [Db!Next]_Db!vars => Db!TypeOK'
<1> SUFFICES ASSUME Db!TypeOK, [Db!Next]_Db!vars PROVE Db!TypeOK'
  OBVIOUS
<1> USE DEF Db!Goto, Db!Commit
<1>1. ASSUME NEW o \in Openers, Db!Step(o) PROVE Db!TypeOK'
  <2>1. CASE Db!Connect(o) \/ Db!ReadApplied(o)
    BY <2>1 DEF Db!Connect, Db!ReadApplied, Db!TypeOK
  <2>2. CASE Db!StartScript(o)
    BY <2>2 DEF Db!StartScript, Db!Todo, Db!TypeOK
  <2>6. CASE Db!FinishMigrations(o)
    BY <2>6 DEF Db!FinishMigrations, Db!TypeOK
  <2>3. CASE Db!RunStatement(o)
    <3>1. now[o] \in Db!Versions /\ at[o] \in Db!Statements(now[o])
      BY <2>3 DEF Db!RunStatement, Db!TypeOK
    <3>2. schema' \subseteq schema \cup {<<now[o], at[o]>>}
      BY <2>3 DEF Db!RunStatement, Db!After
    <3>5. <<now[o], at[o]>> \in Db!Rows(Len(Scripts))
      BY <3>1, RowsAreStatements DEF Db!Versions
    <3>3. schema' \subseteq Db!Rows(Len(Scripts))
      BY <3>2, <3>5 DEF Db!TypeOK
    <3>4. at' \in [Openers -> Nat]
      BY <2>3 DEF Db!RunStatement, Db!TypeOK
    <3> QED BY <2>3, <3>3, <3>4 DEF Db!RunStatement, Db!Statements, Db!TypeOK
  <2>4. CASE Db!StatementFails(o) \/ Db!ScriptEnds(o) \/ Db!RecordFails(o) \/ Db!LockTimesOut(o)
    BY <2>4 DEF Db!StatementFails, Db!ScriptEnds, Db!RecordFails, Db!LockTimesOut, Db!TypeOK
  <2>5. CASE Db!Record(o)
    BY <2>5 DEF Db!Record, Db!TypeOK
  <2> QED BY <1>1, <2>1, <2>2, <2>3, <2>4, <2>5, <2>6 DEF Db!Step
<1>2. ASSUME NEW o \in Openers, Db!Crash(o) PROVE Db!TypeOK'
  BY <1>2 DEF Db!MigrationAssumption, Db!Crash, Db!TypeOK
<1>3. CASE Db!Settled \/ UNCHANGED Db!vars
  BY <1>3 DEF Db!Settled, Db!vars, Db!TypeOK
<1> QED BY <1>1, <1>2, <1>3 DEF Db!Next

LEMMA DbType ==
  ASSUME Db!MigrationAssumption
  PROVE  Db!Spec => []Db!TypeOK
<1> QED BY DbInitType, DbStepType, PTL DEF Db!Spec

-----------------------------------------------------------------------------
(* The order of the versions.                                               *)

\* A connection that runs or records a script has everything before it
\* recorded; between scripts, all but the row it has pending itself.
OrderInv ==
  /\ Db!RecordedInOrder
  /\ \A o \in Openers :
       /\ applied[o] \subseteq recorded
       /\ stage[o] \in {"script", "record"} => 1..(now[o] - 1) \subseteq recorded
       /\ stage[o] = "next" => 1..now[o] \subseteq recorded \cup pending[o]
       /\ \A v \in pending[o] : stage[o] = "next" /\ 1..(v - 1) \subseteq recorded

LEMMA VersionsAreNumbers ==
  ASSUME Db!MigrationAssumption
  PROVE  Db!Versions \subseteq Nat /\ \A v \in Db!Versions : 1..v \subseteq Db!Versions
  BY ScriptsType DEF Db!Versions

LEMMA NowIsNumber ==
  ASSUME Db!MigrationAssumption
  PROVE  Db!TypeOK => \A o \in Openers : now[o] \in Nat
<1> SUFFICES ASSUME Db!TypeOK, NEW o \in Openers PROVE now[o] \in Nat
  OBVIOUS
<1>1. now[o] \in Db!Versions \cup {0}
  BY DEF Db!TypeOK
<1>2. CASE now[o] \in Db!Versions
  BY <1>2, VersionsAreNumbers, Zenon
<1>3. CASE now[o] = 0
  BY <1>3
<1> QED BY <1>1, <1>2, <1>3

LEMMA OrderInit ==
  ASSUME Db!MigrationAssumption
  PROVE  Db!Init => OrderInv
<1> SUFFICES ASSUME Db!Init PROVE OrderInv
  OBVIOUS
<1>1. PICK n \in 0..Len(Scripts) : recorded = 1..n /\ schema = Db!LeftBy(n)
  BY DEF Db!Init
<1>2. n \in Nat
  BY ScriptsType
<1>3. \A s \in schema : s[1] \in 1..n
  BY <1>1, RowsAreStatements DEF Db!LeftBy
<1> QED BY <1>1, <1>2, <1>3 DEF Db!Init, OrderInv, Db!RecordedInOrder

\* Committing what a connection has pending keeps the recorded versions a
\* beginning of the list.
LEMMA CommitKeepsOrder ==
  ASSUME Db!MigrationAssumption, Db!TypeOK, OrderInv, NEW o \in Openers,
      recorded' = recorded \cup pending[o]
  PROVE  \A v \in recorded' : 1..v \subseteq recorded'
<1> SUFFICES ASSUME NEW v \in pending[o] PROVE 1..v \subseteq recorded'
  BY DEF OrderInv, Db!RecordedInOrder
<1>1. v \in Nat /\ 1..(v - 1) \subseteq recorded
  BY VersionsAreNumbers DEF OrderInv, Db!TypeOK
<1> QED BY <1>1

LEMMA OrderStep ==
  ASSUME Db!MigrationAssumption
  PROVE  Db!TypeOK /\ OrderInv /\ [Db!Next]_Db!vars => OrderInv'
<1> SUFFICES ASSUME Db!TypeOK, OrderInv, [Db!Next]_Db!vars PROVE OrderInv'
  OBVIOUS
<1> USE DEF Db!Goto
<1>1. ASSUME NEW o \in Openers,
             Db!Connect(o) \/ Db!StatementFails(o) \/ Db!ScriptEnds(o) \/ Db!RecordFails(o)
                 \/ Db!LockTimesOut(o)
      PROVE  OrderInv'
  BY <1>1 DEF Db!Connect, Db!StatementFails, Db!ScriptEnds, Db!RecordFails, Db!LockTimesOut,
              Db!TypeOK, OrderInv, Db!RecordedInOrder
<1>2. ASSUME NEW o \in Openers, Db!ReadApplied(o) PROVE OrderInv'
  BY <1>2 DEF Db!ReadApplied, Db!TypeOK, OrderInv, Db!RecordedInOrder
<1>3. ASSUME NEW o \in Openers, Db!StartScript(o) PROVE OrderInv'
  <2>1. PICK v \in Db!Todo(o) : (\A u \in Db!Todo(o) : v <= u) /\ now' = [now EXCEPT ![o] = v]
    BY <1>3 DEF Db!StartScript
  <2>2. recorded' = recorded \cup pending[o] /\ stage[o] = "next"
        /\ pending' = [pending EXCEPT ![o] = {}] /\ stage' = [stage EXCEPT ![o] = "script"]
        /\ UNCHANGED <<schema, applied>>
    BY <1>3 DEF Db!StartScript, Db!Commit
  <2>3. \A u \in 1..(v - 1) : u \in recorded'
    <3> TAKE u \in 1..(v - 1)
    <3>1. u \in Db!Versions /\ v \in Db!Versions
      BY VersionsAreNumbers DEF Db!Todo
    <3>2. CASE u <= now[o]
      <4>1. u \in Nat /\ u >= 1 /\ now[o] \in Nat
        BY NowIsNumber
      <4>2. u \in 1..now[o]
        BY <3>2, <4>1
      <4> QED BY <2>2, <4>2 DEF OrderInv
    <3>3. CASE u > now[o]
      <4>1. u \notin Db!Todo(o)
        BY <2>1, <3>1, VersionsAreNumbers
      <4> QED BY <2>2, <3>1, <3>3, <4>1 DEF Db!Todo, OrderInv
    <3>4. u \in Nat
      OBVIOUS
    <3>5. now[o] \in Nat
      BY NowIsNumber
    <3> QED BY <3>2, <3>3, <3>4, <3>5
  <2>4. Db!RecordedInOrder'
    BY <2>2, CommitKeepsOrder DEF Db!RecordedInOrder, OrderInv
  <2> QED BY <2>1, <2>2, <2>3, <2>4 DEF OrderInv, Db!TypeOK
<1>4. ASSUME NEW o \in Openers, Db!RunStatement(o) PROVE OrderInv'
  <2>1. schema' \subseteq schema \cup {<<now[o], at[o]>>}
    BY <1>4 DEF Db!RunStatement, Db!After
  <2>2. stage[o] = "script" /\ UNCHANGED <<recorded, stage, now, applied, pending>>
    BY <1>4 DEF Db!RunStatement
  <2>3. \A s \in schema' : 1..(s[1] - 1) \subseteq recorded
    BY <2>1, <2>2 DEF OrderInv, Db!RecordedInOrder
  <2> QED BY <2>2, <2>3 DEF OrderInv, Db!RecordedInOrder
<1>5. ASSUME NEW o \in Openers, Db!Record(o) PROVE OrderInv'
  <2>1. now[o] \in Nat
    BY <1>5, VersionsAreNumbers DEF Db!Record, Db!TypeOK
  <2>2. \A u \in 1..now[o] : u \in recorded \cup {now[o]}
    BY <1>5, <2>1 DEF Db!Record, OrderInv
  <2> QED BY <1>5, <2>1, <2>2 DEF Db!Record, Db!TypeOK, OrderInv, Db!RecordedInOrder
<1>6. ASSUME NEW o \in Openers, Db!FinishMigrations(o) PROVE OrderInv'
  <2>1. recorded' = recorded \cup pending[o]
        /\ pending' = [pending EXCEPT ![o] = {}] /\ stage' = [stage EXCEPT ![o] = "open"]
        /\ UNCHANGED <<schema, applied, now>>
    BY <1>6 DEF Db!FinishMigrations, Db!Commit
  <2>2. Db!RecordedInOrder'
    BY <2>1, CommitKeepsOrder DEF Db!RecordedInOrder, OrderInv
  <2> QED BY <2>1, <2>2 DEF OrderInv, Db!TypeOK
<1>7. ASSUME NEW o \in Openers, Db!Crash(o) PROVE OrderInv'
  BY <1>7 DEF Db!Crash, Db!TypeOK, OrderInv, Db!RecordedInOrder
<1>8. CASE Db!Settled \/ UNCHANGED Db!vars
  BY <1>8 DEF Db!Settled, Db!vars, OrderInv, Db!RecordedInOrder
<1> QED BY <1>1, <1>2, <1>3, <1>4, <1>5, <1>6, <1>7, <1>8 DEF Db!Next, Db!Step

\* Versions are recorded in order, and nothing of a script is in effect before
\* all earlier scripts are recorded, with any number of connections and crashes.
THEOREM VersionsInOrder ==
  ASSUME Db!MigrationAssumption
  PROVE  Db!Spec => []Db!RecordedInOrder
<1>1. OrderInv => Db!RecordedInOrder
  BY DEF OrderInv
<1> QED BY <1>1, OrderInit, OrderStep, DbType, PTL DEF Db!Spec

-----------------------------------------------------------------------------
(* What is recorded is done.                                                *)

\* What a script has made for good so far is in effect, and so is everything
\* a row, committed or pending, stands for.
DoneInv ==
  /\ Db!RecordedIsDone
  /\ Db!OpenIsComplete
  /\ \A o \in Openers :
       /\ \A v \in pending[o] : Db!Done(v)
       /\ stage[o] = "script" =>
            \A k \in Db!Lasting(now[o]) : k < at[o] => <<now[o], k>> \in schema
       /\ stage[o] = "record" => Db!Done(now[o])

\* A statement that runs leaves in effect what lasts, even if it is a DROP
\* that ran before, and is in effect itself if what it makes lasts.
LEMMA LastingStays ==
  ASSUME Db!MigrationAssumption, Db!TypeOK, NEW v \in Db!Versions, NEW k \in Db!Statements(v),
         schema' = Db!After(v, k)
  PROVE  /\ \A u \in Db!Versions : \A j \in Db!Lasting(u) :
              <<u, j>> \in schema => <<u, j>> \in schema'
         /\ k \in Db!Lasting(v) => <<v, k>> \in schema'
<1> DEFINE what == Scripts[v][k].what
<1>1. CASE Scripts[v][k].does = "drop"
  <2>1. schema' = {s \in schema : Scripts[s[1]][s[2]].what # what}
    BY <1>1 DEF Db!After
  <2>2. Db!Drops(v, k, what)
    BY <1>1 DEF Db!Drops
  <2>3. \A u \in Db!Versions : \A j \in Db!Lasting(u) : Scripts[u][j].what # what
    BY <2>2 DEF Db!Lasting
  <2> QED BY <2>1, <2>3
<1>2. CASE Scripts[v][k].does # "drop" /\ ~Db!There(what)
  BY <1>2 DEF Db!After
<1>3. CASE Scripts[v][k].does # "drop" /\ Db!There(what)
  <2>1. schema' = schema
    BY <1>3 DEF Db!After
  <2>2. PICK s \in schema : Scripts[s[1]][s[2]].what = what
    BY <1>3 DEF Db!There
  <2>3. PICK u \in Db!Versions : \E j \in Db!Statements(u) : s = <<u, j>>
    BY RowsAreStatements DEF Db!TypeOK, Db!Versions
  <2>4. PICK j \in Db!Statements(u) : s = <<u, j>>
    BY <2>3
  <2>5. k \in Db!Lasting(v) => <<v, k>> = <<u, j>>
    BY <2>2, <2>4 DEF Db!MigrationAssumption, Db!MadeOnce
  <2> QED BY <2>1, <2>4, <2>5
<1> QED BY <1>1, <1>2, <1>3

LEMMA DoneInit == Db!Init => DoneInv
<1> SUFFICES ASSUME Db!Init PROVE DoneInv
  OBVIOUS
<1>1. PICK n \in 0..Len(Scripts) : recorded = 1..n /\ schema = Db!LeftBy(n)
  BY DEF Db!Init
<1>2. \A v \in 1..n : \A k \in Db!Lasting(v) : <<v, k>> \in Db!LeftBy(n)
  <2> TAKE v \in 1..n
  <2> TAKE k \in Db!Lasting(v)
  <2>1. k \in Db!Statements(v)
    BY DEF Db!Lasting
  <2>2. \A u \in 1..n : \A j \in Db!Statements(u) : ~Db!Drops(u, j, Scripts[v][k].what)
    BY <1>1 DEF Db!Lasting, Db!Versions
  <2> QED BY <2>1, <2>2, RowsAreStatements DEF Db!LeftBy
<1>3. Db!RecordedIsDone
  BY <1>1, <1>2 DEF Db!RecordedIsDone, Db!Done
<1> QED BY <1>3 DEF Db!Init, DoneInv, Db!OpenIsComplete

LEMMA DoneStep ==
  ASSUME Db!MigrationAssumption
  PROVE  Db!TypeOK /\ OrderInv /\ DoneInv /\ [Db!Next]_Db!vars => DoneInv'
<1> SUFFICES ASSUME Db!TypeOK, OrderInv, DoneInv, [Db!Next]_Db!vars PROVE DoneInv'
  OBVIOUS
<1> USE DEF Db!Goto
<1>1. ASSUME NEW o \in Openers,
             \/ Db!Connect(o) \/ Db!ReadApplied(o) \/ Db!StatementFails(o) \/ Db!RecordFails(o)
             \/ Db!LockTimesOut(o) \/ Db!Crash(o)
      PROVE  DoneInv'
  BY <1>1 DEF Db!Connect, Db!ReadApplied, Db!StatementFails, Db!RecordFails, Db!LockTimesOut,
              Db!Crash,
              Db!TypeOK, DoneInv, Db!RecordedIsDone, Db!OpenIsComplete, Db!Done, Db!Statements
<1>2. ASSUME NEW o \in Openers, Db!StartScript(o) PROVE DoneInv'
  <2>1. /\ recorded' = recorded \cup pending[o] /\ pending' = [pending EXCEPT ![o] = {}]
        /\ stage' = [stage EXCEPT ![o] = "script"] /\ at' = [at EXCEPT ![o] = 1]
        /\ UNCHANGED schema /\ \A p \in Openers \ {o} : now'[p] = now[p]
    BY <1>2 DEF Db!StartScript, Db!Commit, Db!TypeOK
  <2>2. Db!RecordedIsDone'
    BY <2>1 DEF DoneInv, Db!RecordedIsDone, Db!Done, Db!Statements
  <2>3. \A k \in Db!Lasting(now'[o]) : ~(k < at'[o])
    BY <2>1 DEF Db!Lasting, Db!Statements, Db!TypeOK
  <2> QED BY <2>1, <2>2, <2>3 DEF DoneInv, Db!OpenIsComplete, Db!Done, Db!Statements, Db!TypeOK
<1>3. ASSUME NEW o \in Openers, Db!RunStatement(o) PROVE DoneInv'
  <2>1. /\ schema' = Db!After(now[o], at[o]) /\ at' = [at EXCEPT ![o] = @ + 1]
        /\ UNCHANGED <<recorded, stage, now, pending>>
        /\ now[o] \in Db!Versions /\ at[o] \in Db!Statements(now[o])
    BY <1>3 DEF Db!RunStatement, Db!TypeOK
  <2>2. \A k \in Db!Lasting(now[o]) : k < at[o] + 1 => k < at[o] \/ k = at[o]
    BY DEF Db!Lasting, Db!Statements, Db!TypeOK
  <2>3. /\ \A u \in Db!Versions : \A j \in Db!Lasting(u) :
             <<u, j>> \in schema => <<u, j>> \in schema'
        /\ at[o] \in Db!Lasting(now[o]) => <<now[o], at[o]>> \in schema'
    BY <2>1, LastingStays
  <2>4. \A p \in Openers : stage[p] = "script" => now[p] \in Db!Versions
    BY DEF Db!TypeOK
  <2>5. \A p \in Openers : stage'[p] = "script" =>
          \A k \in Db!Lasting(now'[p]) : k < at'[p] => <<now'[p], k>> \in schema'
    BY <2>1, <2>2, <2>3, <2>4 DEF DoneInv, Db!TypeOK
  <2>6. \A v \in Db!Versions : Db!Done(v) => Db!Done(v)'
    BY <2>3 DEF Db!Done, Db!Lasting, Db!Statements
  <2>7. /\ recorded \subseteq Db!Versions
        /\ \A p \in Openers : pending[p] \subseteq Db!Versions
        /\ \A p \in Openers : stage[p] = "record" => now[p] \in Db!Versions
    BY DEF Db!TypeOK
  <2>8. Db!RecordedIsDone' /\ Db!OpenIsComplete'
    BY <2>1, <2>6, <2>7 DEF DoneInv, Db!RecordedIsDone, Db!OpenIsComplete, Db!Versions
  <2> QED BY <2>1, <2>5, <2>6, <2>7, <2>8 DEF DoneInv
<1>4. ASSUME NEW o \in Openers, Db!ScriptEnds(o) PROVE DoneInv'
  <2>1. Db!Done(now[o])
    <3>1. stage[o] = "script" /\ at[o] = Len(Scripts[now[o]]) + 1 /\ now[o] \in Db!Versions
      BY <1>4 DEF Db!ScriptEnds, Db!TypeOK
    <3>2. \A k \in Db!Lasting(now[o]) : k < at[o]
      BY <3>1, ScriptsType DEF Db!Lasting, Db!Statements
    <3> QED BY <3>1, <3>2 DEF DoneInv, Db!Done
  <2> QED BY <1>4, <2>1
          DEF Db!ScriptEnds, Db!TypeOK, DoneInv, Db!RecordedIsDone, Db!OpenIsComplete, Db!Done,
              Db!Statements
<1>5. ASSUME NEW o \in Openers, Db!Record(o) PROVE DoneInv'
  BY <1>5 DEF Db!Record, Db!TypeOK, DoneInv, Db!RecordedIsDone, Db!OpenIsComplete, Db!Done,
              Db!Statements
<1>6. ASSUME NEW o \in Openers, Db!FinishMigrations(o) PROVE DoneInv'
  <2>1. /\ recorded' = recorded \cup pending[o] /\ pending' = [pending EXCEPT ![o] = {}]
        /\ stage' = [stage EXCEPT ![o] = "open"] /\ stage[o] = "next" /\ Db!Todo(o) = {}
        /\ UNCHANGED <<schema, now, at>>
    BY <1>6 DEF Db!FinishMigrations, Db!Commit
  <2>2. \A v \in recorded \cup pending[o] : Db!Done(v)
    BY DEF DoneInv, Db!RecordedIsDone
  <2>3. \A v \in Db!Versions : v \in recorded \cup pending[o]
    <3> TAKE v \in Db!Versions
    <3>1. v \in Nat /\ v >= 1 /\ now[o] \in Nat
      BY ScriptsType DEF Db!TypeOK, Db!Versions
    <3>2. CASE v <= now[o]
      <4>1. v \in 1..now[o]
        BY <3>1, <3>2
      <4> QED BY <2>1, <4>1 DEF OrderInv
    <3>3. CASE v > now[o]
      BY <2>1, <3>3 DEF Db!Todo, OrderInv
    <3> QED BY <3>1, <3>2, <3>3
  <2>4. Db!RecordedIsDone' /\ Db!OpenIsComplete'
    BY <2>1, <2>2, <2>3 DEF DoneInv, Db!RecordedIsDone, Db!OpenIsComplete, Db!Done, Db!Statements
  <2> QED BY <2>1, <2>4 DEF DoneInv, Db!Done, Db!Statements, Db!TypeOK
<1>7. CASE Db!Settled \/ UNCHANGED Db!vars
  BY <1>7 DEF Db!Settled, Db!vars, DoneInv, Db!RecordedIsDone, Db!OpenIsComplete, Db!Done,
              Db!Statements
<1> QED BY <1>1, <1>2, <1>3, <1>4, <1>5, <1>6, <1>7 DEF Db!Next, Db!Step

LEMMA DoneInvariant ==
  ASSUME Db!MigrationAssumption
  PROVE  Db!Spec => []DoneInv
<1> QED BY DoneInit, DoneStep, OrderInit, OrderStep, DbType, PTL DEF Db!Spec

\* No interrupted or concurrent migration is ever recorded half done: what it
\* makes for good is there.
THEOREM RecordedMeansDone ==
  ASSUME Db!MigrationAssumption
  PROVE  Db!Spec => []Db!RecordedIsDone
<1>1. DoneInv => Db!RecordedIsDone
  BY DEF DoneInv
<1> QED BY <1>1, DoneInvariant, PTL

\* A connection that opens a scratchpad finds every table, every column and
\* every index there that no script replaces, also after another connection
\* ran scripts again that were recorded behind its back.
THEOREM OpenMeansComplete ==
  ASSUME Db!MigrationAssumption
  PROVE  Db!Spec => []OpenIsComplete
<1>1. DoneInv => OpenIsComplete
  BY DEF DoneInv, Db!OpenIsComplete, OpenIsComplete, Db!Done, Done, Db!Statements, Statements,
         Db!Lasting, Lasting, Db!Drops, Drops, Db!Versions, Versions
<1> QED BY <1>1, DoneInvariant, PTL
=============================================================================
