---------------------------- MODULE ToolDispatch ----------------------------
(***************************************************************************)
(* The dispatch of one batch of tool calls: `execute_tool_calls` and the   *)
(* functions under it in src/src/agent/agent_loop/tools.rs, with the       *)
(* retry rule of tool_retry.rs, the spinner set of inflight.rs and the     *)
(* count of open prompts of src/src/human_wait.rs.                         *)
(*                                                                         *)
(* Calls are numbered in source order.  Each goes through                  *)
(*                                                                         *)
(*   idle -> started -> queued -> running <-> asking                       *)
(*              |                  |   ^                                   *)
(*              |                  v   | (retry)                           *)
(*              |               executed <- backoff                        *)
(*              v                  |                                       *)
(*          finalized <------------+      finalized -> ended               *)
(*                                                                         *)
(* In a sequential batch the loop over the calls takes each one all the    *)
(* way and emits its result message before it turns to the next.  In a     *)
(* parallel batch the loop only prepares; the prepared calls are futures   *)
(* that are first polled by `join_all`, in which they interleave at their  *)
(* awaits, and the result messages follow when all of them are done.       *)
(*                                                                         *)
(* Besides the dispatcher there act the tools (they return, or prompt the  *)
(* user, or never return), the person answering prompts, the user's cancel *)
(* and the abort of the run's task, which drops every future of the batch  *)
(* where it stands.  Telemetry (repair and retry statistics, the           *)
(* file-touch tracker, dropped progress updates), the notes put before a   *)
(* result and the arming of the escalation model for the next request are  *)
(* left out.                                                               *)
(***************************************************************************)
EXTENDS Naturals, Sequences, FiniteSets

CONSTANTS
  N,              \* calls in the batch
  MAX_ATTEMPTS,   \* tool_retry::MAX_ATTEMPTS
  MaxPrompts      \* bound: prompts one call may open

ASSUME DispatchAssumption ==
  /\ N \in Nat \ {0}                    \* the loop dispatches no empty batch
  /\ MAX_ATTEMPTS \in Nat \ {0}
  /\ MaxPrompts \in Nat

Calls == 1..N

\* What the dispatcher reads of a tool: `reads` is Operation::Read, `other`
\* an operation it knows nothing of (MCP, plugin, network), `mutates` an
\* edit or a shell command, registered with ToolExecutionMode::Sequential.
Kinds == {"reads", "other", "mutates"}

VARIABLES
  kind, tool_execution,    \* the tools of the batch; config.tool_execution
  pc,                      \* loop | join | emit | returned | dropped
  current,                 \* the call the loop has taken up last
  stage, attempt,          \* of each call
  outcome,                 \* how its last attempt ended
  executions,              \* times `tool.execute` has been polled
  prompts,                 \* prompts it has opened
  inflight,                \* InflightSet
  OUTSTANDING,             \* open prompts, process-wide
  cancelled,
  starts, ends,            \* ToolExecutionStart and -End events of each call
  recorded,                \* order the verifier was fed in
  messages                 \* tool-result messages, in the order emitted

batch == <<kind, tool_execution>>
events == <<starts, ends, messages>>
vars == <<batch, pc, current, stage, attempt, outcome, executions, prompts,
          inflight, OUTSTANDING, cancelled, events, recorded>>

----------------------------------------------------------------------------

\* Mutant: only the first tool of the batch is asked for its mode.
has_sequential_first == kind[1] = "mutates"

has_sequential == \E c \in Calls : kind[c] = "mutates"

Sequential == tool_execution = "sequential" \/ has_sequential

is_retry_safe(c) == kind[c] = "reads"

\* Mutant: retry on the class of the error alone.
should_retry_any_tool(c, result) ==
  result = "transient" /\ attempt[c] < MAX_ATTEMPTS

\* Only a transient error of a pure read, within the attempt budget.  The
\* texts of an aborted and of a cut call are in no retryable class.
should_retry(c, result) ==
  /\ result = "transient"
  /\ attempt[c] < MAX_ATTEMPTS
  /\ is_retry_safe(c)

anyone_waiting == OUTSTANDING > 0

\* The futures the runtime may poll: the one the sequential loop awaits, or
\* those `join_all` drives.
Polled(c) ==
  \/ pc = "loop" /\ Sequential /\ c = current
  \/ pc = "join"

Init ==
  /\ kind \in [Calls -> Kinds]
  /\ tool_execution \in {"parallel", "sequential"}
  /\ pc = "loop" /\ current = 1
  /\ stage = [c \in Calls |-> "idle"]
  /\ attempt = [c \in Calls |-> 1]
  /\ outcome = [c \in Calls |-> "none"]
  /\ executions = [c \in Calls |-> 0]
  /\ prompts = [c \in Calls |-> 0]
  /\ inflight = {} /\ OUTSTANDING = 0
  /\ cancelled = FALSE
  /\ starts = [c \in Calls |-> 0] /\ ends = [c \in Calls |-> 0]
  /\ recorded = <<>> /\ messages = <<>>

----------------------------------------------------------------------------
(* The loop over the calls.                                                *)

EmitStart ==
  /\ pc = "loop" /\ stage[current] = "idle"
  /\ stage' = [stage EXCEPT ![current] = "started"]
  /\ starts' = [starts EXCEPT ![current] = @ + 1]
  /\ UNCHANGED <<batch, pc, current, attempt, outcome, executions, prompts,
                 inflight, OUTSTANDING, cancelled, ends, messages, recorded>>

\* prepare_tool_call: unknown tool, arguments beyond repair, a call the hook
\* blocked, or a cancel seen after the hook.
PrepareImmediate ==
  /\ pc = "loop" /\ stage[current] = "started"
  /\ stage' = [stage EXCEPT ![current] = "finalized"]
  /\ outcome' = [outcome EXCEPT ![current] = "refused"]
  /\ UNCHANGED <<batch, pc, current, attempt, executions, prompts, inflight,
                 OUTSTANDING, cancelled, events, recorded>>

PreparePrepared ==
  /\ pc = "loop" /\ stage[current] = "started" /\ ~cancelled
  /\ stage' = [stage EXCEPT ![current] = "queued"]
  /\ UNCHANGED <<batch, pc, current, attempt, outcome, executions, prompts,
                 inflight, OUTSTANDING, cancelled, events, recorded>>

\* The parallel loop goes on once a call is an entry: an immediate outcome
\* has its end event already, a prepared one is a future nobody has polled.
NextPrepare ==
  /\ pc = "loop" /\ ~Sequential /\ stage[current] \in {"queued", "ended"}
  /\ IF current = N \/ cancelled
       THEN pc' = "join" /\ UNCHANGED current
       ELSE pc' = "loop" /\ current' = current + 1
  /\ UNCHANGED <<batch, stage, attempt, outcome, executions, prompts, inflight,
                 OUTSTANDING, cancelled, events, recorded>>

----------------------------------------------------------------------------
(* One prepared call: execute_prepared_tool_call_with_retry around         *)
(* execute_prepared_tool_call, whose select! prefers the cancel over the   *)
(* tool and the tool over the deadline.                                    *)

\* One attempt begins with a poll of the biased select!: a cancel already
\* raised wins and the tool is never polled.
BeginAttempt(c) ==
  IF cancelled
    THEN /\ stage' = [stage EXCEPT ![c] = "executed"]
         /\ outcome' = [outcome EXCEPT ![c] = "aborted"]
         /\ UNCHANGED executions
    ELSE /\ stage' = [stage EXCEPT ![c] = "running"]
         /\ executions' = [executions EXCEPT ![c] = @ + 1]
         /\ UNCHANGED outcome

StartCall(c) ==
  /\ Polled(c) /\ stage[c] = "queued"
  /\ inflight' = inflight \cup {c}
  /\ BeginAttempt(c)
  /\ UNCHANGED <<batch, pc, current, attempt, prompts, OUTSTANDING, cancelled,
                 events, recorded>>

\* The tool opens a prompt and waits for the answer inside `execute`.
Ask(c) ==
  /\ stage[c] = "running" /\ prompts[c] < MaxPrompts
  /\ stage' = [stage EXCEPT ![c] = "asking"]
  /\ prompts' = [prompts EXCEPT ![c] = @ + 1]
  /\ OUTSTANDING' = OUTSTANDING + 1
  /\ UNCHANGED <<batch, pc, current, attempt, outcome, executions, inflight,
                 cancelled, events, recorded>>

Answer(c) ==
  /\ stage[c] = "asking"
  /\ stage' = [stage EXCEPT ![c] = "running"]
  /\ OUTSTANDING' = OUTSTANDING - 1
  /\ UNCHANGED <<batch, pc, current, attempt, outcome, executions, prompts,
                 inflight, cancelled, events, recorded>>

ToolReturns(c) ==
  /\ stage[c] = "running" /\ ~cancelled
  /\ \E result \in {"ok", "transient", "failed"} :
       /\ outcome' = [outcome EXCEPT ![c] = result]
       /\ stage' = [stage EXCEPT ![c] = IF should_retry(c, result)
                                          THEN "backoff" ELSE "executed"]
  /\ UNCHANGED <<batch, pc, current, attempt, executions, prompts, inflight,
                 OUTSTANDING, cancelled, events, recorded>>

\* Mutant: a drop releases a prompt whether or not one is open.
Release_always(c) == OUTSTANDING' = OUTSTANDING - 1

\* Mutant: the count of open prompts is not released by a drop.
Release_never(c) == OUTSTANDING' = OUTSTANDING

\* The tool's future is dropped, and with it the HumanWait it may hold.
Release(c) == OUTSTANDING' = IF stage[c] = "asking" THEN OUTSTANDING - 1
                                                    ELSE OUTSTANDING

\* The select! returns without the tool.
StopCall(c, how) ==
  /\ stage' = [stage EXCEPT ![c] = "executed"]
  /\ outcome' = [outcome EXCEPT ![c] = how]
  /\ Release(c)
  /\ UNCHANGED <<batch, pc, current, attempt, executions, prompts, inflight,
                 cancelled, events, recorded>>

Executing(c) == stage[c] \in {"running", "asking"}

\* Mutant: a prompt is not raced against the signal.
CancelWins_not_while_asking(c) ==
  stage[c] = "running" /\ cancelled /\ StopCall(c, "aborted")

CancelWins(c) == Executing(c) /\ cancelled /\ StopCall(c, "aborted")

\* Mutant: the budget counts the time a person takes.
WatchdogFires_blind(c) ==
  Executing(c) /\ ~cancelled /\ StopCall(c, "cut")

\* Mutant: the deadline is armed for the first attempt only.
WatchdogFires_once(c) ==
  /\ Executing(c) /\ ~cancelled /\ ~anyone_waiting /\ attempt[c] = 1
  /\ StopCall(c, "cut")

\* The budget expires.  While any prompt is open, this call's or another's,
\* it is armed again instead.
WatchdogFires(c) ==
  Executing(c) /\ ~cancelled /\ ~anyone_waiting /\ StopCall(c, "cut")

\* The backoff races the signal, which is polled first.
BackoffElapses(c) ==
  /\ stage[c] = "backoff" /\ ~cancelled
  /\ attempt' = [attempt EXCEPT ![c] = @ + 1]
  /\ BeginAttempt(c)
  /\ UNCHANGED <<batch, pc, current, prompts, inflight, OUTSTANDING, cancelled,
                 events, recorded>>

BackoffCancelled(c) ==
  /\ stage[c] = "backoff" /\ cancelled
  /\ stage' = [stage EXCEPT ![c] = "executed"]
  /\ UNCHANGED <<batch, pc, current, attempt, outcome, executions, prompts,
                 inflight, OUTSTANDING, cancelled, events, recorded>>

\* finalize_executed_tool_call: the hook, then the verifier is told.  The
\* sequential loop's guard goes out of scope with this block.
FinalizeCall(c) ==
  /\ stage[c] = "executed"
  /\ stage' = [stage EXCEPT ![c] = "finalized"]
  /\ recorded' = Append(recorded, c)
  /\ inflight' = IF Sequential THEN inflight \ {c} ELSE inflight
  /\ UNCHANGED <<batch, pc, current, attempt, outcome, executions, prompts,
                 OUTSTANDING, cancelled, events>>

----------------------------------------------------------------------------
(* Ends and results.                                                       *)

\* Mutant: the guard of a parallel call outlives its future.
EmitEnd_leaks(c) ==
  /\ (pc = "loop" /\ c = current) \/ pc = "join"
  /\ stage[c] = "finalized"
  /\ stage' = [stage EXCEPT ![c] = "ended"]
  /\ ends' = [ends EXCEPT ![c] = @ + 1]
  /\ UNCHANGED <<batch, pc, current, attempt, outcome, executions, prompts,
                 inflight, OUTSTANDING, cancelled, starts, messages, recorded>>

\* The end event; a parallel call's guard is dropped right after it.
EmitEnd(c) ==
  /\ (pc = "loop" /\ c = current) \/ pc = "join"
  /\ stage[c] = "finalized"
  /\ stage' = [stage EXCEPT ![c] = "ended"]
  /\ ends' = [ends EXCEPT ![c] = @ + 1]
  /\ inflight' = inflight \ {c}
  /\ UNCHANGED <<batch, pc, current, attempt, outcome, executions, prompts,
                 OUTSTANDING, cancelled, starts, messages, recorded>>

\* Mutant: the signal is honoured before the result is pushed.
EmitResultInLoop_early_break ==
  /\ pc = "loop" /\ Sequential /\ stage[current] = "ended"
  /\ messages' = IF cancelled THEN messages ELSE Append(messages, current)
  /\ IF current = N \/ cancelled
       THEN pc' = "returned" /\ UNCHANGED current
       ELSE pc' = "loop" /\ current' = current + 1
  /\ UNCHANGED <<batch, stage, attempt, outcome, executions, prompts, inflight,
                 OUTSTANDING, cancelled, starts, ends, recorded>>

\* The sequential loop emits the result and honours the signal.
EmitResultInLoop ==
  /\ pc = "loop" /\ Sequential /\ stage[current] = "ended"
  /\ messages' = Append(messages, current)
  /\ IF current = N \/ cancelled
       THEN pc' = "returned" /\ UNCHANGED current
       ELSE pc' = "loop" /\ current' = current + 1
  /\ UNCHANGED <<batch, stage, attempt, outcome, executions, prompts, inflight,
                 OUTSTANDING, cancelled, starts, ends, recorded>>

\* Mutant: the join returns with the first future that resolves.
JoinAll_any ==
  /\ pc = "join"
  /\ \E c \in 1..current : stage[c] = "ended"
  /\ pc' = "emit"
  /\ UNCHANGED <<batch, current, stage, attempt, outcome, executions, prompts,
                 inflight, OUTSTANDING, cancelled, events, recorded>>

JoinAll ==
  /\ pc = "join"
  /\ \A c \in 1..current : stage[c] = "ended"
  /\ pc' = "emit"
  /\ UNCHANGED <<batch, current, stage, attempt, outcome, executions, prompts,
                 inflight, OUTSTANDING, cancelled, events, recorded>>

\* join_all keeps the order of its input: results follow in source order.
EmitResultAfterJoin ==
  /\ pc = "emit"
  /\ messages' = Append(messages, Len(messages) + 1)
  /\ pc' = IF Len(messages) + 1 = current THEN "returned" ELSE "emit"
  /\ UNCHANGED <<batch, current, stage, attempt, outcome, executions, prompts,
                 inflight, OUTSTANDING, cancelled, starts, ends, recorded>>

----------------------------------------------------------------------------
(* The user's cancel, and the end of the task that runs the batch.         *)

Cancel ==
  /\ ~cancelled
  /\ cancelled' = TRUE
  /\ UNCHANGED <<batch, pc, current, stage, attempt, outcome, executions,
                 prompts, inflight, OUTSTANDING, events, recorded>>

\* A call's future holds its InflightGuard from its first poll on.
HoldsGuard(c) ==
  \/ stage[c] \in {"running", "asking", "backoff", "executed"}
  \/ stage[c] = "finalized" /\ outcome[c] # "refused" /\ ~Sequential

Asking == {c \in Calls : stage[c] = "asking"}

\* The run's task is aborted, or a tool's panic unwinds it: every future is
\* dropped, and the guards they hold run.
DropBatch ==
  /\ pc \notin {"returned", "dropped"}
  /\ pc' = "dropped"
  /\ inflight' = {c \in inflight : ~HoldsGuard(c)}
  /\ OUTSTANDING' = OUTSTANDING - Cardinality(Asking)
  /\ stage' = [c \in Calls |-> IF stage[c] \in {"idle", "ended"} THEN stage[c]
                                                                 ELSE "dropped"]
  /\ UNCHANGED <<batch, current, attempt, outcome, executions, prompts,
                 cancelled, events, recorded>>

Over == pc \in {"returned", "dropped"}

Finished == Over /\ UNCHANGED vars

Dispatch ==
  \/ EmitStart \/ PrepareImmediate \/ PreparePrepared \/ NextPrepare
  \/ EmitResultInLoop \/ JoinAll \/ EmitResultAfterJoin
  \/ \E c \in Calls :
       \/ StartCall(c) \/ CancelWins(c) \/ WatchdogFires(c)
       \/ BackoffElapses(c) \/ BackoffCancelled(c)
       \/ FinalizeCall(c) \/ EmitEnd(c)

World == Cancel \/ DropBatch
           \/ \E c \in Calls : Ask(c) \/ Answer(c) \/ ToolReturns(c)

Next == Dispatch \/ World \/ Finished

\* The runtime polls a task that is ready, and timers and the hook around a
\* call expire or return.  Nothing is assumed of tools and people: a tool
\* may hang, a prompt may stay open.
Spec == Init /\ [][Next]_vars /\ WF_vars(Dispatch)

----------------------------------------------------------------------------
(* Properties.                                                             *)

Stages == {"idle", "started", "queued", "running", "asking", "backoff",
           "executed", "finalized", "ended", "dropped"}

Outcomes == {"none", "refused", "ok", "transient", "failed", "aborted", "cut"}

\* The dispatcher's variables keep their types; in particular the count of
\* open prompts, an unsigned counter in the code, never wraps below zero.
TypeOK ==
  /\ kind \in [Calls -> Kinds]
  /\ tool_execution \in {"parallel", "sequential"}
  /\ pc \in {"loop", "join", "emit", "returned", "dropped"}
  /\ current \in Calls
  /\ stage \in [Calls -> Stages] /\ outcome \in [Calls -> Outcomes]
  /\ attempt \in [Calls -> Nat] /\ executions \in [Calls -> Nat]
  /\ prompts \in [Calls -> Nat]
  /\ inflight \in SUBSET Calls /\ OUTSTANDING \in Nat
  /\ cancelled \in BOOLEAN
  /\ starts \in [Calls -> Nat] /\ ends \in [Calls -> Nat]
  /\ recorded \in Seq(Calls) /\ messages \in Seq(Calls)

\* Every ToolExecutionStart is followed by exactly one ToolExecutionEnd
\* before the batch returns, whichever way the call went: refused by the
\* preflight, retried, aborted or cut.  A batch torn down may leave a start
\* without its end, never the other way round.
EventsPair ==
  /\ \A c \in Calls : ends[c] <= starts[c] /\ starts[c] <= 1
  /\ pc = "returned" => ends = starts

\* The spinner set holds a call only between its two events and is empty
\* once the futures are gone, also when a cancel or the abort of the task
\* dropped them half way (inflight.rs promises it for every exit path).
SpinnersStop ==
  /\ \A c \in inflight : starts[c] = 1 /\ ends[c] = 0
  /\ pc \in {"emit", "returned", "dropped"} => inflight = {}

\* The process-wide count of open prompts is the number of calls that wait
\* for a person, through answers, cancels and dropped futures: a count that
\* leaks would disarm every later watchdog of the process.
PromptsCounted == OUTSTANDING = Cardinality(Asking)

\* Running a tool twice needs a pure read: a call whose tool may have an
\* effect is executed at most once, whatever timed out around it, and a read
\* at most MAX_ATTEMPTS times.
NoEffectTwice ==
  \A c \in Calls : /\ executions[c] <= MAX_ATTEMPTS
                   /\ ~is_retry_safe(c) => executions[c] <= 1

\* A batch with an edit or a shell command in it feeds the verifier gate in
\* source order: a test recorded before the edit it ran after would read as
\* stale, and the other way round as green.
VerifierInOrder ==
  (\E c \in Calls : kind[c] = "mutates") =>
     \A i, j \in 1..Len(recorded) : i < j => recorded[i] < recorded[j]

\* The watchdog never cuts a call that is waiting for a person's answer.
PeopleAreNotCut ==
  [][\A c \in Calls : stage[c] = "asking" => outcome'[c] # "cut"]_vars

\* The dispatch of a batch, sequential or parallel, is one step of the turn
\* loop: it answers the calls in source order, all of them unless the run
\* was cancelled, the first of them in any case.
Batch == INSTANCE ToolBatch WITH
  phase <- IF Over THEN pc ELSE "open",
  results <- IF pc = "returned" THEN messages ELSE <<>>

ImplementsBatch == Batch!BatchSpec

\* A cancel ends the batch although a tool hangs and a prompt is never
\* answered: every await of a call is raced against the signal.
CancelEndsBatch == cancelled ~> Over

\* A tool that never returns cannot hold the batch: once no prompt is open
\* any more, the watchdog cuts what is still running.
HungToolsAreCut == <>[](~anyone_waiting) => <>Over

============================================================================
