--------------------------- MODULE BatchContract ---------------------------
(***************************************************************************)
(* What the turn loop may assume of `execute_tool_calls`                   *)
(* (src/src/agent/agent_loop/tools.rs): the sets of calls one batch may    *)
(* come back with results for.  AgentLoop takes a batch in one step with   *)
(* this operator; ToolBatch states it as a specification and ToolDispatch  *)
(* is shown to implement that specification.                               *)
(***************************************************************************)

\* A batch answers every call, or, once the run is cancelled, the ones the
\* dispatcher had taken up; the first call is always taken up.
Answerable(calls, cancelled) ==
  {done \in SUBSET calls : /\ calls # {} => done # {}
                           /\ ~cancelled => done = calls}

============================================================================
