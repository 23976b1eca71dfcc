------------------------ MODULE OneWriterPerIncident ------------------------
(***************************************************************************)
(* What _IncidentLocks of mcp_server.py promises its callers: "one writer  *)
(* per incident at a time, refused rather than queued".  A call is refused *)
(* only while another one really works on its incident, and nobody waits   *)
(* for anybody.  McpServer implements this.                                *)
(***************************************************************************)
CONSTANTS Calls, Incidents

VARIABLES
  writers,   \* writers[i]: the calls at work on incident i
  verdict    \* verdict[c]: what became of call c's request to write

Init ==
  /\ writers = [i \in Incidents |-> {}]
  /\ verdict = [c \in Calls |-> "unasked"]

Admit(c, i) ==
  /\ verdict[c] = "unasked"
  /\ writers[i] = {}
  /\ writers' = [writers EXCEPT ![i] = {c}]
  /\ verdict' = [verdict EXCEPT ![c] = "admitted"]

Refuse(c, i) ==
  /\ verdict[c] = "unasked"
  /\ writers[i] # {}
  /\ verdict' = [verdict EXCEPT ![c] = "refused"]
  /\ UNCHANGED writers

End(c, i) ==
  /\ writers[i] = {c}
  /\ writers' = [writers EXCEPT ![i] = {}]
  /\ verdict' = [verdict EXCEPT ![c] = "ended"]

\* The server process dies: every call at work ends, nothing stays claimed.
Crash ==
  /\ writers' = [i \in Incidents |-> {}]
  /\ verdict' = [c \in Calls |-> IF verdict[c] = "admitted" THEN "ended" ELSE verdict[c]]

Next ==
  \/ \E c \in Calls, i \in Incidents : Admit(c, i) \/ Refuse(c, i) \/ End(c, i)
  \/ Crash

Spec == Init /\ [][Next]_<<writers, verdict>>
=============================================================================
