----------------------------- MODULE AgentLoop -----------------------------
(***************************************************************************)
(* The turn loop of one agent run: `run_loop` in                           *)
(* src/src/agent/agent_loop/run.rs.                                        *)
(*                                                                         *)
(* One behaviour is one run.  The program counter follows the code:        *)
(*                                                                         *)
(*   start -> outer -> head -> request -> stream -> dispatch -> exec       *)
(*              ^        ^                   |          |        |         *)
(*              |        +--- hooks <------ settle <----+--------+         *)
(*              +------------ boundary <------+            -> ended        *)
(*                                                                         *)
(* `head` is the test of the inner while loop, `settle` the bottom half of *)
(* an iteration (boundary nudge, TurnEnd, post-usage decision), `hooks`    *)
(* the hooks and the steering poll, `boundary` the code after the inner    *)
(* loop.  Three other actors run beside the loop: the user's keyboard,     *)
(* which fills the steering queue, and the two forwarder tasks that raise  *)
(* the interject and the cancel flag of the AbortSignal.                   *)
(*                                                                         *)
(* Of the transcript only the last assistant turn is kept: the tool calls  *)
(* it carries, how many results each of them has, and whether a message of *)
(* another role was put between a call and its result.                     *)
(***************************************************************************)
EXTENDS Naturals, Sequences, FiniteSets, BatchContract

CONSTANTS
  Calls,                      \* tool-call ids one assistant turn may carry
  MaxTurns,                   \* config.max_turns
  MAX_TRANSIENT_RECOVERIES,
  MAX_CONSECUTIVE_COMPACTION_FAILURES,
  GuardMode,                  \* config.publish_guard_mode
  GateBudget,                 \* re-drives the finalization gates can order
  MaxHooks,                   \* bound: follow-ups the host hook delivers
  MaxSteers                   \* bound: messages the user types in a run

ASSUME LoopAssumption ==
  /\ MaxTurns \in Nat \ {0}
  /\ MAX_TRANSIENT_RECOVERIES \in Nat
  /\ MAX_CONSECUTIVE_COMPACTION_FAILURES \in Nat
  /\ GuardMode \in {"off", "advisory", "blocking"}
  /\ GateBudget \in Nat
  /\ MaxHooks \in Nat
  /\ MaxSteers \in Nat

VARIABLES
  pc,
  has_more_tool_calls, recovery_pending, turn_self_corrected,
  folded_this_turn, compaction_recorded_this_iter,
  turns_taken, transient_recoveries, thinking_tripped,
  compaction_failures,
  pending_messages,   \* 0 is a follow-up, n > 0 the n-th message typed
  tool_calls,         \* calls of this turn still to be dispatched
  blocked,            \* calls of this turn the publish guard suppressed
  asked,              \* calls recorded on the last assistant message
  answers,            \* results in the context for each of them
  intruded,           \* a message sits between a call and its result
  queue, typed,       \* the user's steering queue; messages typed so far
  interjected, cancelled,
  hooks, gates,       \* follow-ups taken from the host hook and the gates
  why,                \* how the run ended
  delivered,          \* history: typed messages that reached the context
  failures_before     \* history: compaction_failures when this round began

control  == <<has_more_tool_calls, recovery_pending, turn_self_corrected>>
compact  == <<folded_this_turn, compaction_recorded_this_iter,
              compaction_failures, failures_before>>
counters == <<turns_taken, transient_recoveries, thinking_tripped>>
batch    == <<tool_calls, blocked>>
context  == <<asked, answers, intruded>>
steering == <<pending_messages, queue, typed, delivered>>
signal   == <<interjected, cancelled>>
ending   == <<hooks, gates, why>>

vars == <<pc, control, compact, counters, batch, context, steering, signal,
          ending>>

PcValues == {"start", "outer", "head", "request", "stream", "dispatch",
             "exec", "settle", "hooks", "boundary", "ended"}

Typed(seq) == {seq[i] : i \in 1..Len(seq)} \ {0}
Unanswered == {c \in asked : answers[c] = 0}

Init ==
  /\ pc = "start"
  /\ has_more_tool_calls = TRUE /\ recovery_pending = FALSE
  /\ turn_self_corrected = FALSE
  /\ folded_this_turn = FALSE /\ compaction_recorded_this_iter = FALSE
  /\ turns_taken = 0 /\ transient_recoveries = 0 /\ thinking_tripped = FALSE
  /\ compaction_failures = 0 /\ failures_before = 0
  /\ pending_messages = <<>> /\ queue = <<>> /\ typed = 0 /\ delivered = {}
  /\ tool_calls = {} /\ blocked = {} /\ asked = {}
  /\ answers = [c \in Calls |-> 0] /\ intruded = FALSE
  /\ interjected = FALSE /\ cancelled = FALSE
  /\ hooks = 0 /\ gates = 0 /\ why = "running"

----------------------------------------------------------------------------
(* The actors beside the loop.                                             *)

\* The UI pushes a typed line onto the shared interjection queue.
UserTypes ==
  /\ pc # "ended" /\ typed < MaxSteers
  /\ typed' = typed + 1
  /\ queue' = Append(queue, typed + 1)
  /\ UNCHANGED <<pc, control, compact, counters, batch, context, signal,
                 ending, pending_messages, delivered>>

\* into_agent_runner's forwarder: the first interject raises the flag.
Interject ==
  /\ pc # "ended" /\ ~interjected
  /\ interjected' = TRUE
  /\ UNCHANGED <<pc, control, compact, counters, batch, context, steering,
                 ending, cancelled>>

\* into_agent_runner's forwarder: the first cancel raises the flag.
Cancel ==
  /\ pc # "ended" /\ ~cancelled
  /\ cancelled' = TRUE
  /\ UNCHANGED <<pc, control, compact, counters, batch, context, steering,
                 ending, interjected>>

----------------------------------------------------------------------------
(* The head of an iteration.                                               *)

\* poll_steering before the first turn: drains the whole queue.
InitialPoll ==
  /\ pc = "start"
  /\ pending_messages' = queue
  /\ queue' = <<>>
  /\ pc' = "outer"
  /\ UNCHANGED <<control, compact, counters, batch, context, signal, ending,
                 typed, delivered>>

\* The top of 'outer: per-turn state is fresh.
BeginTurn ==
  /\ pc = "outer"
  /\ turn_self_corrected' = FALSE
  /\ folded_this_turn' = FALSE
  /\ has_more_tool_calls' = TRUE
  /\ recovery_pending' = FALSE
  /\ pc' = "head"
  /\ UNCHANGED <<counters, batch, context, steering, signal, ending,
                 compaction_recorded_this_iter, compaction_failures,
                 failures_before>>

\* What a compaction pass may report: an open breaker skips the summarizer.
PassOutcomes ==
  IF compaction_failures >= MAX_CONSECUTIVE_COMPACTION_FAILURES
    THEN {"Skipped"}
    ELSE {"Succeeded", "Failed", "Skipped"}

\* Mutant: a failed pass counts down.
record_compaction_outcome_down(failures, outcome) ==
  [Succeeded |-> 0, Failed |-> failures - 1, Skipped |-> failures][outcome]

record_compaction_outcome(failures, outcome) ==
  [Succeeded |-> 0, Failed |-> failures + 1, Skipped |-> failures][outcome]

\* Mutant: the loop test forgets the pending messages.
MoreWork_calls_only == has_more_tool_calls \/ recovery_pending

MoreWork ==
  has_more_tool_calls \/ pending_messages # <<>> \/ recovery_pending

\* One round begins: the turn-start fold (when the estimate is over the
\* threshold and nothing folded yet this turn), then the pending messages
\* enter the context and the request is ready.
Iterate ==
  /\ pc = "head" /\ MoreWork
  /\ recovery_pending' = FALSE
  /\ failures_before' = compaction_failures
  /\ \/ /\ ~folded_this_turn
        /\ \E outcome \in PassOutcomes :
             compaction_failures' =
               record_compaction_outcome(compaction_failures, outcome)
        /\ folded_this_turn' = TRUE
        /\ compaction_recorded_this_iter' = TRUE
     \/ /\ compaction_recorded_this_iter' = FALSE
        /\ UNCHANGED <<folded_this_turn, compaction_failures>>
  /\ delivered' = delivered \cup Typed(pending_messages)
  /\ intruded' = (intruded \/ (pending_messages # <<>> /\ Unanswered # {}))
  /\ pending_messages' = <<>>
  /\ pc' = "request"
  /\ UNCHANGED <<counters, batch, signal, ending, has_more_tool_calls,
                 turn_self_corrected, asked, answers, queue,
                 typed>>

LeaveInner ==
  /\ pc = "head" /\ ~MoreWork
  /\ pc' = "boundary"
  /\ UNCHANGED <<control, compact, counters, batch, context, steering,
                 signal, ending>>

----------------------------------------------------------------------------
(* The model call.                                                         *)

Finish(reason) ==
  /\ pc' = "ended"
  /\ why' = reason
  /\ UNCHANGED <<hooks, gates>>

\* The stream layer looks at the cancel flag before it sends the request.
OpenStream ==
  /\ pc = "request" /\ ~cancelled
  /\ pc' = "stream"
  /\ UNCHANGED <<control, compact, counters, batch, context, steering, signal,
                 ending>>

\* The stream reports StopReason::Error for a cancelled signal, before it
\* sends or while it streams: the run ends.
StreamAborted ==
  /\ pc \in {"request", "stream"} /\ cancelled
  /\ Finish("error")
  /\ UNCHANGED <<control, compact, counters, batch, context, steering, signal>>

\* A non-transient error, or a transient one past the recovery budget.
StreamFailed ==
  /\ pc = "stream"
  /\ Finish("error")
  /\ UNCHANGED <<control, compact, counters, batch, context, steering, signal>>

\* An assistant message with no tool call is the newest message.
NoCalls ==
  /\ asked' = {} /\ answers' = [c \in Calls |-> 0] /\ intruded' = FALSE

\* Mutant: the recoveries are not counted.
StreamRecovered_uncounted ==
  /\ pc = "stream"
  /\ transient_recoveries < MAX_TRANSIENT_RECOVERIES
  /\ has_more_tool_calls' = FALSE
  /\ recovery_pending' = TRUE
  /\ NoCalls
  /\ pc' = "head"
  /\ UNCHANGED <<compact, batch, steering, signal, ending, counters,
                 turn_self_corrected>>

\* A Network or RateLimit error after content: the partial stays (its tool
\* calls stripped), a nudge follows, and the round is repeated uncounted.
StreamRecovered ==
  /\ pc = "stream"
  /\ transient_recoveries < MAX_TRANSIENT_RECOVERIES
  /\ transient_recoveries' = transient_recoveries + 1
  /\ has_more_tool_calls' = FALSE
  /\ recovery_pending' = TRUE
  /\ NoCalls
  /\ pc' = "head"
  /\ UNCHANGED <<compact, batch, steering, signal, ending,
                 turn_self_corrected, turns_taken, thinking_tripped>>

\* The one-shot runaway-reasoning breaker: the trace was cut at its budget
\* before any tool call, so thinking is forced off and the round repeated.
StreamOverthought ==
  /\ pc = "stream" /\ ~thinking_tripped
  /\ transient_recoveries' = 0
  /\ thinking_tripped' = TRUE
  /\ has_more_tool_calls' = FALSE
  /\ recovery_pending' = TRUE
  /\ NoCalls
  /\ pc' = "head"
  /\ UNCHANGED <<compact, batch, steering, signal, ending,
                 turn_self_corrected, turns_taken>>

\* The assistant message arrives.  Calls written as text are lifted out of
\* it, given fresh ids, and recorded on the message they came from.
StreamAnswered ==
  /\ pc = "stream"
  /\ \E native \in SUBSET Calls : \E promoted \in SUBSET (Calls \ native) :
       /\ asked' = native \cup promoted
       /\ tool_calls' = native \cup promoted
  /\ answers' = [c \in Calls |-> 0] /\ intruded' = FALSE
  /\ blocked' = {}
  /\ transient_recoveries' = 0
  /\ pc' = "dispatch"
  /\ UNCHANGED <<control, compact, steering, signal, ending, turns_taken,
                 thinking_tripped>>

----------------------------------------------------------------------------
(* The tool calls of the turn.                                             *)

\* Mutant: ids without a result stay without one.
backfill_missing_tool_results_none(res) == res

\* backfill_missing_tool_results: one error result per id with none.
backfill_missing_tool_results(res) ==
  [c \in Calls |-> IF c \in asked /\ res[c] = 0 THEN 1 ELSE res[c]]

Answer(res, some) == [c \in Calls |-> IF c \in some THEN res[c] + 1 ELSE res[c]]

\* A turn that asked for nothing.
DispatchNothing ==
  /\ pc = "dispatch" /\ tool_calls = {}
  /\ has_more_tool_calls' = FALSE
  /\ pc' = "settle"
  /\ UNCHANGED <<compact, counters, batch, context, steering, signal, ending,
                 recovery_pending, turn_self_corrected>>

\* The storm breaker suppressed every call, the first time this turn: each
\* call is answered with the guard text and the model gets one more round.
StormCorrects ==
  /\ pc = "dispatch" /\ tool_calls # {} /\ ~turn_self_corrected
  /\ turn_self_corrected' = TRUE
  /\ has_more_tool_calls' = TRUE
  /\ answers' = backfill_missing_tool_results(Answer(answers, tool_calls))
  /\ tool_calls' = {}
  /\ pc' = "settle"
  /\ UNCHANGED <<compact, counters, steering, signal, ending, blocked, asked,
                 intruded, recovery_pending>>

\* Every call suppressed again: the calls are answered by the backfill and
\* the turn ends with the loop's own account of why it gave up.
StormGivesUp ==
  /\ pc = "dispatch" /\ tool_calls # {} /\ turn_self_corrected
  /\ has_more_tool_calls' = FALSE
  /\ answers' = backfill_missing_tool_results(answers)
  /\ tool_calls' = {}
  /\ pc' = "settle"
  /\ UNCHANGED <<compact, counters, steering, signal, ending, blocked, asked,
                 intruded, recovery_pending, turn_self_corrected>>

\* Mutant: the blocking guard writes its warning into the context too.
DispatchSurvivors_warns ==
  /\ pc = "dispatch"
  /\ \E surviving \in (SUBSET tool_calls) \ {{}} :
       \E hits \in IF GuardMode = "off" THEN {{}} ELSE SUBSET surviving :
         /\ blocked' = (IF GuardMode = "blocking" THEN hits ELSE {})
         /\ tool_calls' = surviving \ blocked'
         /\ intruded' = (intruded \/ (hits # {} /\ Unanswered # {}))
  /\ has_more_tool_calls' = FALSE
  /\ pc' = "exec"
  /\ UNCHANGED <<compact, counters, steering, signal, ending, asked, answers,
                 recovery_pending, turn_self_corrected>>

\* Some calls survive the storm breaker.  The publish guard holds back the
\* ones that would discard verified work (blocking) or puts a warning into
\* the context and lets them run (advisory).
DispatchSurvivors ==
  /\ pc = "dispatch"
  /\ \E surviving \in (SUBSET tool_calls) \ {{}} :
       \E hits \in IF GuardMode = "off" THEN {{}} ELSE SUBSET surviving :
         /\ blocked' = (IF GuardMode = "blocking" THEN hits ELSE {})
         /\ tool_calls' = surviving \ blocked'
         /\ intruded' = (intruded \/ (GuardMode = "advisory" /\ hits # {}
                                        /\ Unanswered # {}))
  /\ has_more_tool_calls' = FALSE
  /\ pc' = "exec"
  /\ UNCHANGED <<compact, counters, steering, signal, ending, asked, answers,
                 recovery_pending, turn_self_corrected>>

\* The batch runs, in one step of this module (ToolDispatch has the steps
\* and implements the contract): every call gets a result, or, once the run
\* is cancelled, only those the batch reached.  A batch
\* whose every result asks for it ends the turn.  Refused calls and calls
\* without a result are then answered.
ExecuteBatch ==
  /\ pc = "exec"
  /\ \E done \in Answerable(tool_calls, cancelled) :
       answers' = backfill_missing_tool_results(
                    Answer(Answer(answers, done), blocked))
  /\ \E terminate \in BOOLEAN :
       has_more_tool_calls' = (tool_calls # {} /\ ~terminate)
  /\ tool_calls' = {} /\ blocked' = {}
  /\ pc' = "settle"
  /\ UNCHANGED <<compact, counters, steering, signal, ending, asked, intruded,
                 recovery_pending, turn_self_corrected>>

----------------------------------------------------------------------------
(* The bottom of an iteration.  A boundary nudge may be appended here; the *)
(* calls are all answered by now, so it leaves no trace in this model.     *)

\* Below the thresholds, or the turn has folded already.
UsageFine ==
  /\ pc = "settle"
  /\ pc' = "hooks"
  /\ UNCHANGED <<control, compact, counters, batch, context, steering, signal,
                 ending>>

\* The 75% tier: fold once per turn, unless the snip freed enough.
UsageFold ==
  /\ pc = "settle" /\ ~folded_this_turn
  /\ folded_this_turn' = TRUE
  /\ \E outcome \in PassOutcomes :
       compaction_failures' =
         IF compaction_recorded_this_iter THEN compaction_failures
         ELSE record_compaction_outcome(compaction_failures, outcome)
  /\ pc' = "hooks"
  /\ UNCHANGED <<control, counters, batch, context, steering, signal, ending,
                 compaction_recorded_this_iter, failures_before>>

\* Mutant: the forced end of a turn ignores the turn cap.
UsageForcesTurnEnd_uncapped ==
  /\ pc = "settle"
  /\ \E outcome \in PassOutcomes :
       compaction_failures' =
         IF compaction_recorded_this_iter THEN compaction_failures
         ELSE record_compaction_outcome(compaction_failures, outcome)
  /\ turns_taken' = turns_taken + 1
  /\ \E made_room \in BOOLEAN :
       pc' = IF made_room THEN "outer" ELSE "boundary"
  /\ UNCHANGED <<control, batch, context, steering, signal, ending,
                 transient_recoveries, thinking_tripped, folded_this_turn,
                 compaction_recorded_this_iter, failures_before>>

\* Mutant: one round may give the breaker two strikes.
UsageForcesTurnEnd_double_counts ==
  /\ pc = "settle"
  /\ \E outcome \in PassOutcomes :
       compaction_failures' =
         record_compaction_outcome(compaction_failures, outcome)
  /\ turns_taken' = turns_taken + 1
  /\ \E made_room \in BOOLEAN :
       pc' = IF made_room /\ turns_taken' < MaxTurns THEN "outer"
             ELSE "boundary"
  /\ UNCHANGED <<control, batch, context, steering, signal, ending,
                 transient_recoveries, thinking_tripped, folded_this_turn,
                 compaction_recorded_this_iter, failures_before>>

\* The 80% tier: compact (or, when the overhead alone is over the line,
\* only prune), then end the turn.  With room made and turns left the next
\* turn starts at once; otherwise the inner loop is left.
UsageForcesTurnEnd ==
  /\ pc = "settle"
  /\ \E outcome \in PassOutcomes :
       compaction_failures' =
         IF compaction_recorded_this_iter THEN compaction_failures
         ELSE record_compaction_outcome(compaction_failures, outcome)
  /\ turns_taken' = turns_taken + 1
  /\ \E made_room \in BOOLEAN :
       pc' = IF made_room /\ turns_taken' < MaxTurns THEN "outer"
             ELSE "boundary"
  /\ UNCHANGED <<control, batch, context, steering, signal, ending,
                 transient_recoveries, thinking_tripped, folded_this_turn,
                 compaction_recorded_this_iter, failures_before>>

\* should_stop_after_turn asks the run to end.
StopAfterTurn ==
  /\ pc = "hooks"
  /\ Finish("stop_hook")
  /\ UNCHANGED <<control, compact, counters, batch, context, steering, signal>>

\* The steering poll, the turn cap, the interjection check, in that order.
PollSteering ==
  /\ pc = "hooks"
  /\ pending_messages' = queue
  /\ queue' = <<>>
  /\ turns_taken' = (IF queue # <<>> THEN 0 ELSE turns_taken) + 1
  /\ IF turns_taken' >= MaxTurns
       THEN pc' = "ended" /\ why' = "cap"
       ELSE pc' = (IF interjected THEN "boundary" ELSE "head") /\ why' = why
  /\ UNCHANGED <<control, compact, batch, context, signal, typed, delivered,
                 transient_recoveries, thinking_tripped, hooks, gates>>

----------------------------------------------------------------------------
(* After the inner loop.                                                   *)

StopInterjected ==
  /\ pc = "boundary" /\ interjected
  /\ Finish("interjected")
  /\ UNCHANGED <<control, compact, counters, batch, context, steering, signal>>

\* poll_finalization_follow_up returns messages: the run goes round again.
HookFollowUp ==
  /\ pc = "boundary" /\ ~interjected /\ hooks < MaxHooks
  /\ hooks' = hooks + 1
  /\ pending_messages' = <<0>>
  /\ pc' = "outer"
  /\ UNCHANGED <<control, compact, counters, batch, context, signal, queue,
                 typed, delivered, gates, why>>

GateFollowUp ==
  /\ pc = "boundary" /\ ~interjected /\ gates < GateBudget
  /\ gates' = gates + 1
  /\ pending_messages' = <<0>>
  /\ pc' = "outer"
  /\ UNCHANGED <<control, compact, counters, batch, context, signal, queue,
                 typed, delivered, hooks, why>>

Finalize ==
  /\ pc = "boundary" /\ ~interjected
  /\ Finish("finished")
  /\ UNCHANGED <<control, compact, counters, batch, context, steering, signal>>

Terminated == pc = "ended" /\ UNCHANGED vars

----------------------------------------------------------------------------
LoopStep ==
  \/ InitialPoll \/ BeginTurn \/ Iterate \/ LeaveInner
  \/ OpenStream \/ StreamAborted \/ StreamFailed \/ StreamRecovered
  \/ StreamOverthought \/ StreamAnswered
  \/ DispatchNothing \/ StormCorrects \/ StormGivesUp \/ DispatchSurvivors
  \/ ExecuteBatch \/ UsageFine \/ UsageFold \/ UsageForcesTurnEnd
  \/ StopAfterTurn \/ PollSteering
  \/ StopInterjected \/ HookFollowUp \/ GateFollowUp \/ Finalize

Environment == UserTypes \/ Interject \/ Cancel

Next == LoopStep \/ Environment \/ Terminated

\* The loop is one task the runtime keeps polling.  Every await it makes is
\* bounded by a timeout or waits for the user's answer to a prompt, which is
\* taken to come.
Spec == Init /\ [][Next]_vars /\ WF_vars(LoopStep)

----------------------------------------------------------------------------
(* Properties.                                                             *)

FlagsOK ==
  /\ has_more_tool_calls \in BOOLEAN /\ recovery_pending \in BOOLEAN
  /\ turn_self_corrected \in BOOLEAN /\ folded_this_turn \in BOOLEAN
  /\ compaction_recorded_this_iter \in BOOLEAN
  /\ thinking_tripped \in BOOLEAN
  /\ intruded \in BOOLEAN
  /\ interjected \in BOOLEAN /\ cancelled \in BOOLEAN

DataOK ==
  /\ pc \in PcValues
  /\ turns_taken \in Nat /\ transient_recoveries \in Nat
  /\ compaction_failures \in Nat /\ failures_before \in Nat
  /\ pending_messages \in Seq(Nat) /\ queue \in Seq(Nat)
  /\ typed \in Nat /\ delivered \in SUBSET Nat
  /\ tool_calls \in SUBSET Calls /\ blocked \in SUBSET Calls
  /\ asked \in SUBSET Calls /\ answers \in [Calls -> Nat]
  /\ hooks \in Nat /\ gates \in Nat
  /\ why \in {"running", "error", "stop_hook", "cap", "interjected",
              "finished"}

\* The loop's variables keep their types: its counters never go negative,
\* its batch and its transcript name calls of the turn only.
TypeOK == FlagsOK /\ DataOK

Requesting == pc \in {"request", "stream"}

\* Whenever a request is made every tool call of the last assistant turn has
\* exactly one result and no result lacks its call, through storm
\* suppression, publish-guard refusals and a batch cut short by a cancel: the
\* provider rejects the history otherwise.
CallsAnsweredOnce ==
  Requesting => \A c \in Calls : answers[c] = (IF c \in asked THEN 1 ELSE 0)

\* Whenever a request is made nothing stands between a tool call and its
\* result: "an assistant message with 'tool_calls' must be followed by tool
\* messages responding to each 'tool_call_id'".  run_loop keeps this in the
\* publish-guard modes "off" and "blocking"; in "advisory" the guard writes
\* its warning between the two.
ResultsFollowCalls == Requesting => ~intruded

\* The turn cap is a cost ceiling on what the run does without the user: the
\* turns since the last steering message stay within max_turns plus one for
\* each follow-up that re-opened a finished run.
TurnBudget ==
  /\ turns_taken <= MaxTurns + hooks + gates
  /\ Requesting => turns_taken < MaxTurns + hooks + gates

\* The summarizer's circuit breaker gets at most one strike per round, even
\* in a round that compacts at its start and again at its end.
OneStrikePerRound == compaction_failures <= failures_before + 1

\* A run that ends by its own decision has shown the model every message it
\* took off the user's queue.
FinishedRunsDropNoSteering ==
  why = "finished" => 1..typed = delivered \cup Typed(queue)

\* Storms, transient errors, compaction, follow-ups and steering can each
\* send the loop round again, but the run always ends.
Termination == <>(pc = "ended")

----------------------------------------------------------------------------
(* What comments of the code say of the loop, and the code does not do.    *)

\* Drained messages "get injected MID-RUN at turn boundaries, becoming user
\* turns": a message taken off the queue is waiting to be injected or was.
NoSteeringLost ==
  pc = "ended" => 1..typed = delivered \cup Typed(queue)
=============================================================================
