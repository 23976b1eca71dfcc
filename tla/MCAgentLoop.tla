---------------------------- MODULE MCAgentLoop ----------------------------
(* Small instances of AgentLoop: two templates, one event of each, and the  *)
(* constants that differ between runs left to the .cfg files.               *)
EXTENDS AgentLoop, TLC

CONSTANTS e1, e2, t1, t2

MCTemplateOf == (e1 :> t1) @@ (e2 :> t2)
MCOneTemplateOf == (e1 :> t1)
MCRank == (t1 :> 1) @@ (t2 :> 2)
MCOneRank == (t1 :> 1)
MCNoEvents == [e \in {} |-> t1]

\* A first run, and a run that resumes over the note of an earlier one.
MCPrior == [step |-> 2, tids |-> {t1}, eids |-> {e1}, role |-> "prior"]
MCFresh == {<<>>}
MCFreshOrResumed == {<<>>, <<MCPrior>>}
=============================================================================
