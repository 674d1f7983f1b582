------------------------- MODULE ToolDispatchProofs -------------------------
(***************************************************************************)
(* Proofs about the dispatch of a batch, for any number of calls, any      *)
(* attempt budget and any number of prompts.                               *)
(*                                                                         *)
(* The inductive invariant says where each call can be while the loop over *)
(* the calls stands at `current` (Placed), which ties the events, the      *)
(* guards, the attempts, the verifier's order and the result messages to   *)
(* the stages of the calls.                                                *)
(***************************************************************************)
EXTENDS ToolDispatch, TLAPS, FiniteSetTheorems

Fresh == {"idle", "started", "queued"}
Inside == {"running", "asking", "backoff", "executed"}

\* The types, but for the count of open prompts and the result messages.
TypeCore ==
  /\ kind \in [Calls -> Kinds]
  /\ tool_execution \in {"parallel", "sequential"}
  /\ pc \in {"loop", "join", "emit", "returned", "dropped"}
  /\ current \in Calls
  /\ stage \in [Calls -> Stages] /\ outcome \in [Calls -> Outcomes]
  /\ attempt \in [Calls -> Nat] /\ executions \in [Calls -> Nat]
  /\ prompts \in [Calls -> Nat]
  /\ inflight \in SUBSET Calls
  /\ cancelled \in BOOLEAN
  /\ starts \in [Calls -> Nat] /\ ends \in [Calls -> Nat]
  /\ recorded \in Seq(Calls)

\* Where call c stands, given the place of the dispatcher.
Placed(c) ==
  /\ c > current => stage[c] = "idle"
  /\ pc = "loop" /\ c < current =>
       stage[c] = "ended" \/ (~Sequential /\ stage[c] = "queued")
  /\ pc = "loop" /\ ~Sequential =>
       stage[c] \in Fresh \cup {"finalized", "ended"}
  /\ pc = "join" /\ c <= current => stage[c] \notin {"idle", "started"}
  /\ pc \in {"emit", "returned"} /\ c <= current => stage[c] = "ended"
  /\ pc = "dropped" => stage[c] \in {"idle", "ended", "dropped"}
  /\ pc # "dropped" => stage[c] # "dropped"

\* The preflight's own verdict is the only `refused`, and it is final.
Verdict(c) ==
  /\ stage[c] \in Fresh => outcome[c] = "none"
  /\ stage[c] \in Inside => outcome[c] # "refused"
  /\ pc = "loop" /\ ~Sequential /\ stage[c] = "finalized" => outcome[c] = "refused"

PlaceInv ==
  /\ pc \in {"join", "emit"} => ~Sequential
  /\ pc \in {"join", "emit", "returned"} => current = N \/ cancelled
  /\ \A c \in Calls : Placed(c) /\ Verdict(c)

\* Each event is tied to the stage that emits it.
EventInv ==
  \A c \in Calls : /\ starts[c] = IF stage[c] = "idle" THEN 0 ELSE 1
                   /\ ends[c] = IF stage[c] = "ended" THEN 1 ELSE 0

----------------------------------------------------------------------------

\* A counter of one call is a counter after one more.
LEMMA Bump ==
  ASSUME NEW f \in [Calls -> Nat], NEW d \in Calls
  PROVE  [f EXCEPT ![d] = f[d] + 1] \in [Calls -> Nat]
  OBVIOUS

\* The calls after the one taken up are calls of the batch.
LEMMA Advance == ASSUME current \in Calls, current # N PROVE current + 1 \in Calls
  BY DispatchAssumption DEF Calls

\* The first call is one.
LEMMA FirstCall == 1 \in Calls
  BY DispatchAssumption DEF Calls

\* The way a batch is dispatched is settled when it starts.
LEMMA ModeFixed ==
  ASSUME Next \/ UNCHANGED vars
  PROVE  /\ UNCHANGED <<kind, tool_execution>>
         /\ Sequential' <=> Sequential
<1>1. UNCHANGED batch
  BY DEF Next, Dispatch, World, Finished, vars, EmitStart, PrepareImmediate,
     PreparePrepared, NextPrepare, EmitResultInLoop, JoinAll, EmitResultAfterJoin,
     StartCall, Polled, BeginAttempt, CancelWins, StopCall, Release, Executing,
     WatchdogFires, BackoffElapses, BackoffCancelled, FinalizeCall, EmitEnd, Ask,
     Answer, ToolReturns, should_retry, is_retry_safe, Cancel, DropBatch
<1> QED
  BY <1>1 DEF batch, Sequential, has_sequential

\* The types hold initially.
LEMMA InitCore == Init => TypeCore
<1> SUFFICES ASSUME Init PROVE TypeCore
  OBVIOUS
<1>1. recorded \in Seq(Calls)
  BY DEF Init
<1> QED
  BY <1>1, FirstCall DEF Init, TypeCore, Stages, Outcomes

\* The types are kept by every step.
LEMMA StepCore == ASSUME TypeCore, Next \/ UNCHANGED vars PROVE TypeCore'
<1> USE DEF TypeCore, Stages, Outcomes, batch, events
<1>1. CASE EmitStart
  BY <1>1 DEF EmitStart
<1>2. CASE PrepareImmediate
  BY <1>2 DEF PrepareImmediate
<1>3. CASE PreparePrepared
  BY <1>3 DEF PreparePrepared
<1>4. CASE NextPrepare
  BY <1>4, Advance DEF NextPrepare
<1>5. CASE EmitResultInLoop
  BY <1>5, Advance DEF EmitResultInLoop
<1>6. CASE JoinAll
  BY <1>6 DEF JoinAll
<1>7. CASE EmitResultAfterJoin
  BY <1>7 DEF EmitResultAfterJoin
<1>8. ASSUME NEW d \in Calls, StartCall(d) PROVE TypeCore'
  <2>1. CASE cancelled
    BY <1>8, <2>1 DEF StartCall, BeginAttempt
  <2>2. CASE ~cancelled
    <3>1. executions' = [executions EXCEPT ![d] = executions[d] + 1]
      BY <1>8, <2>2 DEF StartCall, BeginAttempt
    <3>2. executions' \in [Calls -> Nat]
      BY <3>1, Bump
    <3> QED
      BY <1>8, <2>2, <3>2 DEF StartCall, BeginAttempt
  <2> QED
    BY <2>1, <2>2
<1>9. ASSUME NEW d \in Calls, CancelWins(d) PROVE TypeCore'
  BY <1>9 DEF CancelWins, StopCall, Release, Executing
<1>10. ASSUME NEW d \in Calls, WatchdogFires(d) PROVE TypeCore'
  BY <1>10 DEF WatchdogFires, StopCall, Release, Executing
<1>11. ASSUME NEW d \in Calls, BackoffElapses(d) PROVE TypeCore'
  <2>1. CASE cancelled
    BY <1>11, <2>1, Bump DEF BackoffElapses, BeginAttempt
  <2>2. CASE ~cancelled
    <3>1. executions' = [executions EXCEPT ![d] = executions[d] + 1]
      BY <1>11, <2>2 DEF BackoffElapses, BeginAttempt
    <3>2. executions' \in [Calls -> Nat]
      BY <3>1, Bump
    <3> QED
      BY <1>11, <2>2, <3>2, Bump DEF BackoffElapses, BeginAttempt
  <2> QED
    BY <2>1, <2>2
<1>12. ASSUME NEW d \in Calls, BackoffCancelled(d) PROVE TypeCore'
  BY <1>12 DEF BackoffCancelled
<1>13. ASSUME NEW d \in Calls, FinalizeCall(d) PROVE TypeCore'
  <2>1. stage' \in [Calls -> Stages] /\ inflight' \in SUBSET Calls
    BY <1>13 DEF FinalizeCall
  <2>2. recorded' \in Seq(Calls)
    BY <1>13 DEF FinalizeCall
  <2> QED
    BY <1>13, <2>1, <2>2 DEF FinalizeCall
<1>14. ASSUME NEW d \in Calls, EmitEnd(d) PROVE TypeCore'
  <2>1. stage' \in [Calls -> Stages] /\ inflight' \in SUBSET Calls
    BY <1>14 DEF EmitEnd
  <2>2. ends' \in [Calls -> Nat]
    BY <1>14, Bump DEF EmitEnd
  <2> QED
    BY <1>14, <2>1, <2>2 DEF EmitEnd
<1>15. ASSUME NEW d \in Calls, Ask(d) PROVE TypeCore'
  <2>1. prompts' \in [Calls -> Nat]
    BY <1>15, Bump DEF Ask
  <2> QED
    BY <1>15, <2>1 DEF Ask
<1>16. ASSUME NEW d \in Calls, Answer(d) PROVE TypeCore'
  BY <1>16 DEF Answer
<1>17. ASSUME NEW d \in Calls, ToolReturns(d) PROVE TypeCore'
  BY <1>17 DEF ToolReturns, should_retry, is_retry_safe
<1>18. CASE Cancel
  BY <1>18 DEF Cancel
<1>19. CASE DropBatch
  BY <1>19 DEF DropBatch
<1>20. CASE UNCHANGED vars
  BY <1>20 DEF vars
<1> QED
  BY <1>1, <1>2, <1>3, <1>4, <1>5, <1>6, <1>7, <1>8, <1>9, <1>10, <1>11, <1>12,
     <1>13, <1>14, <1>15, <1>16, <1>17, <1>18, <1>19, <1>20 DEF Next, Dispatch,
     World, Finished

\* Calls are numbers up to N.
LEMMA CallNumbers == Calls \subseteq Nat /\ \A c \in Calls : 1 <= c /\ c <= N
  BY DispatchAssumption DEF Calls

\* The places hold initially.
LEMMA InitPlace == Init => PlaceInv
<1> SUFFICES ASSUME Init PROVE PlaceInv
  OBVIOUS
<1>1. ASSUME NEW c \in Calls PROVE Placed(c) /\ Verdict(c)
  BY <1>1, CallNumbers DEF Init, Placed, Verdict, Fresh, Inside
<1> QED
  BY <1>1 DEF Init, PlaceInv

\* What the first poll of an attempt does to each call: only d moves, to its
\* tool or, when the cancel was raised already, past it.
LEMMA AttemptBegins ==
  ASSUME TypeCore, NEW c \in Calls, NEW d \in Calls, BeginAttempt(d)
  PROVE  /\ c # d => /\ stage'[c] = stage[c] /\ outcome'[c] = outcome[c]
                     /\ executions'[c] = executions[c]
         /\ c = d => \/ /\ stage'[c] = "executed" /\ outcome'[c] = "aborted"
                        /\ executions'[c] = executions[c]
                     \/ /\ stage'[c] = "running" /\ outcome'[c] = outcome[c]
                        /\ executions'[c] = executions[c] + 1
<1>1. CASE cancelled
  BY <1>1 DEF TypeCore, BeginAttempt
<1>2. CASE ~cancelled
  BY <1>2 DEF TypeCore, BeginAttempt
<1> QED
  BY <1>1, <1>2

\* The places are kept by every step.
LEMMA StepPlace ==
  ASSUME TypeCore, PlaceInv, Next \/ UNCHANGED vars PROVE PlaceInv'
<1> SUFFICES ASSUME NEW c \in Calls
             PROVE  /\ pc' \in {"join", "emit"} => ~Sequential'
                    /\ pc' \in {"join", "emit", "returned"} => current' = N \/ cancelled'
                    /\ Placed(c)' /\ Verdict(c)'
  BY FirstCall DEF PlaceInv
<1> DEFINE Goal == /\ pc' \in {"join", "emit"} => ~Sequential'
                   /\ pc' \in {"join", "emit", "returned"} => current' = N \/ cancelled'
                   /\ Placed(c)' /\ Verdict(c)'
<1> USE ModeFixed, CallNumbers DEF TypeCore, PlaceInv, Placed, Verdict, Fresh,
      Inside, Stages, Outcomes, batch, events
<1>1. CASE EmitStart
  BY <1>1 DEF EmitStart
<1>2. CASE PrepareImmediate
  BY <1>2 DEF PrepareImmediate
<1>3. CASE PreparePrepared
  BY <1>3 DEF PreparePrepared
<1>4. CASE NextPrepare
  BY <1>4 DEF NextPrepare
<1>5. CASE EmitResultInLoop
  BY <1>5 DEF EmitResultInLoop
<1>6. CASE JoinAll
  BY <1>6 DEF JoinAll
<1>7. CASE EmitResultAfterJoin
  BY <1>7 DEF EmitResultAfterJoin
<1>8. ASSUME NEW d \in Calls, StartCall(d) PROVE Goal
  <2>1. /\ stage[d] = "queued" /\ UNCHANGED <<pc, current, cancelled>>
        /\ pc = "join" \/ (pc = "loop" /\ Sequential /\ d = current)
    BY <1>8 DEF StartCall, Polled
  <2>2. BeginAttempt(d)
    BY <1>8 DEF StartCall
  <2>3. Sequential' = Sequential
    BY <1>8 DEF StartCall, Sequential, has_sequential
  <2>4. CASE c # d
    BY <2>1, <2>2, <2>3, <2>4, AttemptBegins
  <2>5. CASE c = d
    BY <2>1, <2>2, <2>3, <2>5, AttemptBegins
  <2> QED
    BY <2>4, <2>5
<1>9. ASSUME NEW d \in Calls, CancelWins(d) PROVE Goal
  BY <1>9 DEF CancelWins, StopCall, Release, Executing
<1>10. ASSUME NEW d \in Calls, WatchdogFires(d) PROVE Goal
  BY <1>10 DEF WatchdogFires, StopCall, Release, Executing
<1>11. ASSUME NEW d \in Calls, BackoffElapses(d) PROVE Goal
  <2>1. stage[d] = "backoff" /\ UNCHANGED <<pc, current, cancelled>>
    BY <1>11 DEF BackoffElapses
  <2>2. BeginAttempt(d)
    BY <1>11 DEF BackoffElapses
  <2>3. Sequential' = Sequential
    BY <1>11 DEF BackoffElapses, Sequential, has_sequential
  <2>4. CASE c # d
    BY <2>1, <2>2, <2>3, <2>4, AttemptBegins
  <2>5. CASE c = d
    BY <2>1, <2>2, <2>3, <2>5, AttemptBegins
  <2> QED
    BY <2>4, <2>5
<1>12. ASSUME NEW d \in Calls, BackoffCancelled(d) PROVE Goal
  BY <1>12 DEF BackoffCancelled
<1>13. ASSUME NEW d \in Calls, FinalizeCall(d) PROVE Goal
  BY <1>13 DEF FinalizeCall
<1>14. ASSUME NEW d \in Calls, EmitEnd(d) PROVE Goal
  BY <1>14 DEF EmitEnd
<1>15. ASSUME NEW d \in Calls, Ask(d) PROVE Goal
  BY <1>15 DEF Ask
<1>16. ASSUME NEW d \in Calls, Answer(d) PROVE Goal
  BY <1>16 DEF Answer
<1>17. ASSUME NEW d \in Calls, ToolReturns(d) PROVE Goal
  <2>1. stage[d] = "running" /\ UNCHANGED <<pc, current, cancelled>>
    BY <1>17 DEF ToolReturns
  <2>2. PICK result \in {"ok", "transient", "failed"}, next \in {"backoff", "executed"} :
          /\ outcome' = [outcome EXCEPT ![d] = result]
          /\ stage' = [stage EXCEPT ![d] = next]
    BY <1>17 DEF ToolReturns
  <2>3. Sequential' = Sequential
    BY <1>17 DEF ToolReturns, Sequential, has_sequential
  <2>4. CASE c # d
    BY <2>1, <2>2, <2>3, <2>4
  <2>5. CASE c = d
    BY <2>1, <2>2, <2>3, <2>5
  <2> QED
    BY <2>4, <2>5
<1>18. CASE Cancel
  BY <1>18 DEF Cancel
<1>19. CASE DropBatch
  BY <1>19 DEF DropBatch
<1>20. CASE UNCHANGED vars
  BY <1>20 DEF vars
<1> QED
  BY <1>1, <1>2, <1>3, <1>4, <1>5, <1>6, <1>7, <1>8, <1>9, <1>10, <1>11, <1>12,
     <1>13, <1>14, <1>15, <1>16, <1>17, <1>18, <1>19, <1>20 DEF Next, Dispatch,
     World, Finished

----------------------------------------------------------------------------

\* The events hold initially.
LEMMA InitEvents == Init => EventInv
  BY DEF Init, EventInv

\* The events are kept by every step.
LEMMA StepEvents ==
  ASSUME TypeCore, PlaceInv, EventInv, Next \/ UNCHANGED vars PROVE EventInv'
<1> SUFFICES ASSUME NEW c \in Calls
             PROVE  /\ starts'[c] = IF stage'[c] = "idle" THEN 0 ELSE 1
                    /\ ends'[c] = IF stage'[c] = "ended" THEN 1 ELSE 0
  BY DEF EventInv
<1> DEFINE Goal == /\ starts'[c] = IF stage'[c] = "idle" THEN 0 ELSE 1
                   /\ ends'[c] = IF stage'[c] = "ended" THEN 1 ELSE 0
<1> USE DEF TypeCore, EventInv, Stages, batch, events
<1>1. CASE EmitStart
  BY <1>1 DEF EmitStart
<1>2. CASE PrepareImmediate
  BY <1>2 DEF PrepareImmediate
<1>3. CASE PreparePrepared
  BY <1>3 DEF PreparePrepared
<1>4. CASE NextPrepare
  BY <1>4 DEF NextPrepare
<1>5. CASE EmitResultInLoop
  BY <1>5 DEF EmitResultInLoop
<1>6. CASE JoinAll
  BY <1>6 DEF JoinAll
<1>7. CASE EmitResultAfterJoin
  BY <1>7 DEF EmitResultAfterJoin
<1>8. ASSUME NEW d \in Calls, StartCall(d) PROVE Goal
  BY <1>8 DEF StartCall, Polled, BeginAttempt
<1>9. ASSUME NEW d \in Calls, CancelWins(d) PROVE Goal
  BY <1>9 DEF CancelWins, StopCall, Release, Executing
<1>10. ASSUME NEW d \in Calls, WatchdogFires(d) PROVE Goal
  BY <1>10 DEF WatchdogFires, StopCall, Release, Executing
<1>11. ASSUME NEW d \in Calls, BackoffElapses(d) PROVE Goal
  BY <1>11 DEF BackoffElapses, BeginAttempt
<1>12. ASSUME NEW d \in Calls, BackoffCancelled(d) PROVE Goal
  BY <1>12 DEF BackoffCancelled
<1>13. ASSUME NEW d \in Calls, FinalizeCall(d) PROVE Goal
  BY <1>13 DEF FinalizeCall
<1>14. ASSUME NEW d \in Calls, EmitEnd(d) PROVE Goal
  BY <1>14 DEF EmitEnd
<1>15. ASSUME NEW d \in Calls, Ask(d) PROVE Goal
  BY <1>15 DEF Ask
<1>16. ASSUME NEW d \in Calls, Answer(d) PROVE Goal
  BY <1>16 DEF Answer
<1>17. ASSUME NEW d \in Calls, ToolReturns(d) PROVE Goal
  BY <1>17 DEF ToolReturns, should_retry, is_retry_safe
<1>18. CASE Cancel
  BY <1>18 DEF Cancel
<1>19. CASE DropBatch
  BY <1>19 DEF DropBatch
<1>20. CASE UNCHANGED vars
  BY <1>20 DEF vars
<1> QED
  BY <1>1, <1>2, <1>3, <1>4, <1>5, <1>6, <1>7, <1>8, <1>9, <1>10, <1>11, <1>12,
     <1>13, <1>14, <1>15, <1>16, <1>17, <1>18, <1>19, <1>20 DEF Next, Dispatch,
     World, Finished

\* A call is in the spinner set exactly while its future holds the guard.
GuardInv == inflight = {c \in Calls : HoldsGuard(c)}

\* The guards hold initially.
LEMMA InitGuards == Init => GuardInv
  BY DEF Init, GuardInv, HoldsGuard

\* The guards are kept by every step.
LEMMA StepGuards ==
  ASSUME TypeCore, PlaceInv, GuardInv, Next \/ UNCHANGED vars PROVE GuardInv'
<1> SUFFICES ASSUME NEW c \in Calls
             PROVE  c \in inflight' <=> HoldsGuard(c)'
  BY StepCore DEF GuardInv, TypeCore
<1> DEFINE Goal == c \in inflight' <=> HoldsGuard(c)'
<1>0. /\ c \in inflight <=> HoldsGuard(c)
      /\ Placed(c) /\ Verdict(c) /\ \A e \in Calls : Placed(e) /\ Verdict(e)
  BY DEF GuardInv, PlaceInv
<1> USE <1>0, ModeFixed DEF TypeCore, HoldsGuard, Placed, Verdict, Fresh, Inside,
      Stages, Outcomes, batch, events
<1>1. CASE EmitStart
  BY <1>1 DEF EmitStart
<1>2. CASE PrepareImmediate
  BY <1>2 DEF PrepareImmediate
<1>3. CASE PreparePrepared
  BY <1>3 DEF PreparePrepared
<1>4. CASE NextPrepare
  BY <1>4 DEF NextPrepare
<1>5. CASE EmitResultInLoop
  BY <1>5 DEF EmitResultInLoop
<1>6. CASE JoinAll
  BY <1>6 DEF JoinAll
<1>7. CASE EmitResultAfterJoin
  BY <1>7 DEF EmitResultAfterJoin
<1>8. ASSUME NEW d \in Calls, StartCall(d) PROVE Goal
  <2>1. BeginAttempt(d) /\ inflight' = inflight \cup {d} /\ stage[d] = "queued"
    BY <1>8 DEF StartCall
  <2>2. Sequential' = Sequential /\ pc' = pc
    BY <1>8 DEF StartCall, Sequential, has_sequential
  <2>3. CASE c # d
    BY <2>1, <2>2, <2>3, AttemptBegins
  <2>4. CASE c = d
    BY <2>1, <2>2, <2>4, AttemptBegins
  <2> QED
    BY <2>3, <2>4
<1>9. ASSUME NEW d \in Calls, CancelWins(d) PROVE Goal
  BY <1>9 DEF CancelWins, StopCall, Release, Executing
<1>10. ASSUME NEW d \in Calls, WatchdogFires(d) PROVE Goal
  BY <1>10 DEF WatchdogFires, StopCall, Release, Executing
<1>11. ASSUME NEW d \in Calls, BackoffElapses(d) PROVE Goal
  <2>1. BeginAttempt(d) /\ inflight' = inflight /\ stage[d] = "backoff"
    BY <1>11 DEF BackoffElapses
  <2>2. Sequential' = Sequential /\ pc' = pc
    BY <1>11 DEF BackoffElapses, Sequential, has_sequential
  <2>3. CASE c # d
    BY <2>1, <2>2, <2>3, AttemptBegins
  <2>4. CASE c = d
    BY <2>1, <2>2, <2>4, AttemptBegins
  <2> QED
    BY <2>3, <2>4
<1>12. ASSUME NEW d \in Calls, BackoffCancelled(d) PROVE Goal
  BY <1>12 DEF BackoffCancelled
<1>13. ASSUME NEW d \in Calls, FinalizeCall(d) PROVE Goal
  BY <1>13 DEF FinalizeCall
<1>14. ASSUME NEW d \in Calls, EmitEnd(d) PROVE Goal
  BY <1>14 DEF EmitEnd
<1>15. ASSUME NEW d \in Calls, Ask(d) PROVE Goal
  BY <1>15 DEF Ask
<1>16. ASSUME NEW d \in Calls, Answer(d) PROVE Goal
  BY <1>16 DEF Answer
<1>17. ASSUME NEW d \in Calls, ToolReturns(d) PROVE Goal
  BY <1>17 DEF ToolReturns, should_retry, is_retry_safe
<1>18. CASE Cancel
  BY <1>18 DEF Cancel
<1>19. CASE DropBatch
  BY <1>19 DEF DropBatch
<1>20. CASE UNCHANGED vars
  BY <1>20 DEF vars
<1> QED
  BY <1>1, <1>2, <1>3, <1>4, <1>5, <1>6, <1>7, <1>8, <1>9, <1>10, <1>11, <1>12,
     <1>13, <1>14, <1>15, <1>16, <1>17, <1>18, <1>19, <1>20 DEF Next, Dispatch,
     World, Finished

----------------------------------------------------------------------------

\* The calls that ask are finitely many.
LEMMA AskingFinite == IsFiniteSet(Asking) /\ Asking \subseteq Calls
<1>1. IsFiniteSet(Calls)
  BY DispatchAssumption, FS_Interval DEF Calls
<1> QED
  BY <1>1, FS_Subset DEF Asking

\* No prompt is open initially.
LEMMA InitPrompts == Init => PromptsCounted
<1> SUFFICES ASSUME Init PROVE PromptsCounted
  OBVIOUS
<1>1. Asking = {}
  BY DEF Init, Asking
<1> QED
  BY <1>1, FS_EmptySet DEF Init, PromptsCounted

\* A call that asks no more leaves the count.
LEMMA LeaveAsking ==
  ASSUME NEW d \in Calls, stage[d] = "asking", Asking' = Asking \ {d}, PromptsCounted
  PROVE  Cardinality(Asking') = OUTSTANDING - 1
<1>1. d \in Asking
  BY DEF Asking
<1>2. Cardinality(Asking \ {d}) = Cardinality(Asking) - 1
  BY <1>1, AskingFinite, FS_RemoveElement
<1> QED
  BY <1>2 DEF PromptsCounted

\* A future that is dropped while it asks, or not, keeps the count.
LEMMA ReleaseCounts ==
  ASSUME TypeCore, PromptsCounted, NEW d \in Calls, NEW how \in Outcomes,
         Executing(d), StopCall(d, how)
  PROVE  PromptsCounted'
<1>1. CASE stage[d] = "asking"
  <2>1. Asking' = Asking \ {d}
    BY <1>1 DEF StopCall, Asking, TypeCore
  <2> QED
    BY <1>1, <2>1, LeaveAsking DEF StopCall, Release, PromptsCounted
<1>2. CASE stage[d] # "asking"
  <2>1. Asking' = Asking
    BY <1>2 DEF StopCall, Asking, TypeCore
  <2> QED
    BY <1>2, <2>1 DEF StopCall, Release, PromptsCounted
<1> QED
  BY <1>1, <1>2

\* The count of open prompts is kept by every step.
LEMMA StepPrompts ==
  ASSUME TypeCore, PlaceInv, PromptsCounted, Next \/ UNCHANGED vars PROVE PromptsCounted'
<1> SUFFICES ASSUME ~ (\E d \in Calls : CancelWins(d) \/ WatchdogFires(d) \/ Ask(d) \/ Answer(d)),
                    ~ DropBatch
             PROVE  PromptsCounted'
  <2>1. ASSUME NEW d \in Calls, CancelWins(d) PROVE PromptsCounted'
    BY <2>1, ReleaseCounts DEF CancelWins, Outcomes
  <2>2. ASSUME NEW d \in Calls, WatchdogFires(d) PROVE PromptsCounted'
    BY <2>2, ReleaseCounts DEF WatchdogFires, Outcomes
  <2>3. ASSUME NEW d \in Calls, Ask(d) PROVE PromptsCounted'
    <3>1. Asking' = Asking \cup {d} /\ d \notin Asking
      BY <2>3 DEF Ask, Asking, TypeCore
    <3> QED
      BY <2>3, <3>1, AskingFinite, FS_AddElement DEF Ask, PromptsCounted
  <2>4. ASSUME NEW d \in Calls, Answer(d) PROVE PromptsCounted'
    <3>1. Asking' = Asking \ {d}
      BY <2>4 DEF Answer, Asking, TypeCore
    <3> QED
      BY <2>4, <3>1, LeaveAsking DEF Answer, PromptsCounted
  <2>5. CASE DropBatch
    <3>1. Asking' = {}
      BY <2>5 DEF DropBatch, Asking, TypeCore
    <3>2. OUTSTANDING' = 0
      BY <2>5, AskingFinite, FS_CardinalityType DEF DropBatch, PromptsCounted
    <3> QED
      BY <3>1, <3>2, FS_EmptySet DEF PromptsCounted
  <2> QED
    BY <2>1, <2>2, <2>3, <2>4, <2>5
<1> SUFFICES Asking' = Asking /\ OUTSTANDING' = OUTSTANDING
  BY DEF PromptsCounted
<1> DEFINE Goal == Asking' = Asking /\ OUTSTANDING' = OUTSTANDING
<1> USE DEF TypeCore, Asking, batch, events
<1>1. CASE EmitStart
  BY <1>1 DEF EmitStart
<1>2. CASE PrepareImmediate
  BY <1>2 DEF PrepareImmediate
<1>3. CASE PreparePrepared
  BY <1>3 DEF PreparePrepared
<1>4. CASE NextPrepare
  BY <1>4 DEF NextPrepare
<1>5. CASE EmitResultInLoop
  BY <1>5 DEF EmitResultInLoop
<1>6. CASE JoinAll
  BY <1>6 DEF JoinAll
<1>7. CASE EmitResultAfterJoin
  BY <1>7 DEF EmitResultAfterJoin
<1>8. ASSUME NEW d \in Calls, StartCall(d) PROVE Goal
  BY <1>8 DEF StartCall, Polled, BeginAttempt
<1>9. ASSUME NEW d \in Calls, CancelWins(d) PROVE Goal
  BY <1>9 DEF CancelWins, StopCall, Release, Executing
<1>10. ASSUME NEW d \in Calls, WatchdogFires(d) PROVE Goal
  BY <1>10 DEF WatchdogFires, StopCall, Release, Executing
<1>11. ASSUME NEW d \in Calls, BackoffElapses(d) PROVE Goal
  BY <1>11 DEF BackoffElapses, BeginAttempt
<1>12. ASSUME NEW d \in Calls, BackoffCancelled(d) PROVE Goal
  BY <1>12 DEF BackoffCancelled
<1>13. ASSUME NEW d \in Calls, FinalizeCall(d) PROVE Goal
  BY <1>13 DEF FinalizeCall
<1>14. ASSUME NEW d \in Calls, EmitEnd(d) PROVE Goal
  BY <1>14 DEF EmitEnd
<1>15. ASSUME NEW d \in Calls, Ask(d) PROVE Goal
  BY <1>15 DEF Ask
<1>16. ASSUME NEW d \in Calls, Answer(d) PROVE Goal
  BY <1>16 DEF Answer
<1>17. ASSUME NEW d \in Calls, ToolReturns(d) PROVE Goal
  BY <1>17 DEF ToolReturns, should_retry, is_retry_safe
<1>18. CASE Cancel
  BY <1>18 DEF Cancel
<1>19. CASE DropBatch
  BY <1>19 DEF DropBatch
<1>20. CASE UNCHANGED vars
  BY <1>20 DEF vars
<1> QED
  BY <1>1, <1>2, <1>3, <1>4, <1>5, <1>6, <1>7, <1>8, <1>9, <1>10, <1>11, <1>12,
     <1>13, <1>14, <1>15, <1>16, <1>17, <1>18, <1>19, <1>20 DEF Next, Dispatch,
     World, Finished

----------------------------------------------------------------------------

\* How often the tool of call c was run, against the attempts counted.
Attempted(c) ==
  /\ executions[c] <= attempt[c]
  /\ 1 <= attempt[c] /\ attempt[c] <= MAX_ATTEMPTS
  /\ ~is_retry_safe(c) => attempt[c] = 1
  /\ stage[c] \in Fresh => executions[c] < attempt[c]
  /\ stage[c] = "backoff" => is_retry_safe(c) /\ attempt[c] < MAX_ATTEMPTS

AttemptInv == \A c \in Calls : Attempted(c)

\* The attempts hold initially.
LEMMA InitAttempts == Init => AttemptInv
  BY DispatchAssumption DEF Init, AttemptInv, Attempted, Fresh

\* The attempts are kept by every step.
LEMMA StepAttempts ==
  ASSUME TypeCore, AttemptInv, Next \/ UNCHANGED vars PROVE AttemptInv'
<1> SUFFICES ASSUME NEW c \in Calls PROVE Attempted(c)'
  BY DEF AttemptInv
<1> DEFINE Goal == Attempted(c)'
<1>0. Attempted(c) /\ \A e \in Calls : Attempted(e)
  BY DEF AttemptInv
<1> USE <1>0, DispatchAssumption, ModeFixed DEF TypeCore, Attempted, is_retry_safe,
      Fresh, Stages, batch, events
<1>1. CASE EmitStart
  BY <1>1 DEF EmitStart
<1>2. CASE PrepareImmediate
  BY <1>2 DEF PrepareImmediate
<1>3. CASE PreparePrepared
  BY <1>3 DEF PreparePrepared
<1>4. CASE NextPrepare
  BY <1>4 DEF NextPrepare
<1>5. CASE EmitResultInLoop
  BY <1>5 DEF EmitResultInLoop
<1>6. CASE JoinAll
  BY <1>6 DEF JoinAll
<1>7. CASE EmitResultAfterJoin
  BY <1>7 DEF EmitResultAfterJoin
<1>8. ASSUME NEW d \in Calls, StartCall(d) PROVE Goal
  <2>1. BeginAttempt(d) /\ stage[d] = "queued" /\ UNCHANGED <<attempt, kind>>
    BY <1>8 DEF StartCall
  <2>2. CASE c # d
    BY <2>1, <2>2, AttemptBegins
  <2>3. CASE c = d
    <3>1. /\ stage'[c] \in {"executed", "running"}
          /\ executions'[c] = executions[c] \/ executions'[c] = executions[c] + 1
      BY <2>1, <2>3, AttemptBegins
    <3>2. /\ executions[c] \in Nat /\ attempt[c] \in Nat /\ attempt'[c] = attempt[c]
          /\ executions[c] < attempt[c] /\ attempt[c] <= MAX_ATTEMPTS
      BY <2>1, <2>3
    <3> QED
      BY <2>1, <2>3, <3>1, <3>2
  <2> QED
    BY <2>2, <2>3
<1>9. ASSUME NEW d \in Calls, CancelWins(d) PROVE Goal
  BY <1>9 DEF CancelWins, StopCall, Release, Executing
<1>10. ASSUME NEW d \in Calls, WatchdogFires(d) PROVE Goal
  BY <1>10 DEF WatchdogFires, StopCall, Release, Executing
<1>11. ASSUME NEW d \in Calls, BackoffElapses(d) PROVE Goal
  <2>1. /\ BeginAttempt(d) /\ stage[d] = "backoff" /\ UNCHANGED kind
        /\ attempt' = [attempt EXCEPT ![d] = attempt[d] + 1]
    BY <1>11 DEF BackoffElapses
  <2>2. CASE c # d
    BY <2>1, <2>2, AttemptBegins
  <2>3. CASE c = d
    <3>1. /\ stage'[c] \in {"executed", "running"}
          /\ executions'[c] = executions[c] \/ executions'[c] = executions[c] + 1
      BY <2>1, <2>3, AttemptBegins
    <3>2. /\ executions[c] \in Nat /\ attempt[c] \in Nat /\ attempt'[c] = attempt[c] + 1
          /\ executions[c] <= attempt[c] /\ attempt[c] < MAX_ATTEMPTS /\ kind[c] = "reads"
      BY <2>1, <2>3
    <3> QED
      BY <2>1, <2>3, <3>1, <3>2
  <2> QED
    BY <2>2, <2>3
<1>12. ASSUME NEW d \in Calls, BackoffCancelled(d) PROVE Goal
  BY <1>12 DEF BackoffCancelled
<1>13. ASSUME NEW d \in Calls, FinalizeCall(d) PROVE Goal
  BY <1>13 DEF FinalizeCall
<1>14. ASSUME NEW d \in Calls, EmitEnd(d) PROVE Goal
  BY <1>14 DEF EmitEnd
<1>15. ASSUME NEW d \in Calls, Ask(d) PROVE Goal
  BY <1>15 DEF Ask
<1>16. ASSUME NEW d \in Calls, Answer(d) PROVE Goal
  BY <1>16 DEF Answer
<1>17. ASSUME NEW d \in Calls, ToolReturns(d) PROVE Goal
  BY <1>17 DEF ToolReturns, should_retry, is_retry_safe
<1>18. CASE Cancel
  BY <1>18 DEF Cancel
<1>19. CASE DropBatch
  BY <1>19 DEF DropBatch
<1>20. CASE UNCHANGED vars
  BY <1>20 DEF vars
<1> QED
  BY <1>1, <1>2, <1>3, <1>4, <1>5, <1>6, <1>7, <1>8, <1>9, <1>10, <1>11, <1>12,
     <1>13, <1>14, <1>15, <1>16, <1>17, <1>18, <1>19, <1>20 DEF Next, Dispatch,
     World, Finished

\* A call that is still to return has not been cut.
CutInv ==
  \A c \in Calls : stage[c] \in Fresh \cup {"running", "asking", "backoff"} => outcome[c] # "cut"

\* No call is cut initially.
LEMMA InitCut == Init => CutInv
  BY DEF Init, CutInv

\* Cut calls stay cut.
LEMMA StepCut == ASSUME TypeCore, CutInv, Next \/ UNCHANGED vars PROVE CutInv'
<1> SUFFICES ASSUME NEW c \in Calls, stage'[c] \in Fresh \cup {"running", "asking", "backoff"}
             PROVE  outcome'[c] # "cut"
  BY DEF CutInv
<1> DEFINE Goal == outcome'[c] # "cut"
<1> USE DEF TypeCore, CutInv, Fresh, Stages, Outcomes, batch, events
<1>1. CASE EmitStart
  BY <1>1 DEF EmitStart
<1>2. CASE PrepareImmediate
  BY <1>2 DEF PrepareImmediate
<1>3. CASE PreparePrepared
  BY <1>3 DEF PreparePrepared
<1>4. CASE NextPrepare
  BY <1>4 DEF NextPrepare
<1>5. CASE EmitResultInLoop
  BY <1>5 DEF EmitResultInLoop
<1>6. CASE JoinAll
  BY <1>6 DEF JoinAll
<1>7. CASE EmitResultAfterJoin
  BY <1>7 DEF EmitResultAfterJoin
<1>8. ASSUME NEW d \in Calls, StartCall(d) PROVE Goal
  BY <1>8 DEF StartCall, Polled, BeginAttempt
<1>9. ASSUME NEW d \in Calls, CancelWins(d) PROVE Goal
  BY <1>9 DEF CancelWins, StopCall, Release, Executing
<1>10. ASSUME NEW d \in Calls, WatchdogFires(d) PROVE Goal
  BY <1>10 DEF WatchdogFires, StopCall, Release, Executing
<1>11. ASSUME NEW d \in Calls, BackoffElapses(d) PROVE Goal
  BY <1>11 DEF BackoffElapses, BeginAttempt
<1>12. ASSUME NEW d \in Calls, BackoffCancelled(d) PROVE Goal
  BY <1>12 DEF BackoffCancelled
<1>13. ASSUME NEW d \in Calls, FinalizeCall(d) PROVE Goal
  BY <1>13 DEF FinalizeCall
<1>14. ASSUME NEW d \in Calls, EmitEnd(d) PROVE Goal
  BY <1>14 DEF EmitEnd
<1>15. ASSUME NEW d \in Calls, Ask(d) PROVE Goal
  BY <1>15 DEF Ask
<1>16. ASSUME NEW d \in Calls, Answer(d) PROVE Goal
  BY <1>16 DEF Answer
<1>17. ASSUME NEW d \in Calls, ToolReturns(d) PROVE Goal
  BY <1>17 DEF ToolReturns, should_retry, is_retry_safe
<1>18. CASE Cancel
  BY <1>18 DEF Cancel
<1>19. CASE DropBatch
  BY <1>19 DEF DropBatch
<1>20. CASE UNCHANGED vars
  BY <1>20 DEF vars
<1> QED
  BY <1>1, <1>2, <1>3, <1>4, <1>5, <1>6, <1>7, <1>8, <1>9, <1>10, <1>11, <1>12,
     <1>13, <1>14, <1>15, <1>16, <1>17, <1>18, <1>19, <1>20 DEF Next, Dispatch,
     World, Finished

----------------------------------------------------------------------------

\* In a sequential batch the verifier has been fed the calls below the one
\* the loop stands at, and that one at most once, last.
OrderInv ==
  Sequential =>
    /\ \A i \in 1..Len(recorded) :
         /\ recorded[i] <= current
         /\ pc = "loop" /\ stage[current] \in Fresh \cup Inside => recorded[i] < current
    /\ \A i, j \in 1..Len(recorded) : i < j => recorded[i] < recorded[j]

\* The order holds initially.
LEMMA InitOrder == Init => OrderInv
  BY DEF Init, OrderInv

\* The order is kept by every step.
LEMMA StepOrder ==
  ASSUME TypeCore, PlaceInv, OrderInv, Next \/ UNCHANGED vars PROVE OrderInv'
<1> SUFFICES ASSUME Sequential, Sequential' PROVE OrderInv'
  BY ModeFixed DEF OrderInv
<1> DEFINE Goal == OrderInv'
<1>31. \A i \in 1..Len(recorded) : recorded[i] \in Calls
  BY DEF TypeCore
<1>0. /\ \A i \in 1..Len(recorded) : recorded[i] \in Nat
      /\ current \in Nat /\ Len(recorded) \in Nat
  <2>1. current \in Nat /\ \A c \in Calls : c \in Nat
    BY CallNumbers DEF TypeCore
  <2>2. Len(recorded) \in Nat
    BY DEF TypeCore
  <2> QED
    BY <1>31, <2>1, <2>2
<1> USE <1>0 DEF OrderInv, TypeCore, Fresh, Inside, Stages, batch, events
<1>1. CASE EmitStart
  BY <1>1 DEF EmitStart
<1>2. CASE PrepareImmediate
  BY <1>2 DEF PrepareImmediate
<1>3. CASE PreparePrepared
  BY <1>3 DEF PreparePrepared
<1>4. CASE NextPrepare
  BY <1>4 DEF NextPrepare
<1>5. CASE EmitResultInLoop
  BY <1>5 DEF EmitResultInLoop
<1>6. CASE JoinAll
  BY <1>6 DEF JoinAll
<1>7. CASE EmitResultAfterJoin
  BY <1>7 DEF EmitResultAfterJoin
<1>8. ASSUME NEW d \in Calls, StartCall(d) PROVE Goal
  BY <1>8 DEF StartCall, Polled, BeginAttempt
<1>9. ASSUME NEW d \in Calls, CancelWins(d) PROVE Goal
  BY <1>9 DEF CancelWins, StopCall, Release, Executing
<1>10. ASSUME NEW d \in Calls, WatchdogFires(d) PROVE Goal
  BY <1>10 DEF WatchdogFires, StopCall, Release, Executing
<1>11. ASSUME NEW d \in Calls, BackoffElapses(d) PROVE Goal
  BY <1>11 DEF BackoffElapses, BeginAttempt
<1>12. ASSUME NEW d \in Calls, BackoffCancelled(d) PROVE Goal
  BY <1>12 DEF BackoffCancelled
<1>13. ASSUME NEW d \in Calls, FinalizeCall(d) PROVE Goal
  <2>0. d \in Nat /\ Placed(d) /\ stage[d] = "executed" /\ pc \notin {"join", "emit"}
    BY <1>13, CallNumbers DEF FinalizeCall, PlaceInv
  <2>1. d = current /\ pc = "loop"
    BY <2>0 DEF Placed
  <2>2. /\ Len(recorded') = Len(recorded) + 1 /\ recorded'[Len(recorded) + 1] = d
        /\ \A k \in 1..Len(recorded) : recorded'[k] = recorded[k]
    BY <1>13 DEF FinalizeCall
  <2> QED
    BY <1>13, <2>1, <2>2 DEF FinalizeCall
<1>14. ASSUME NEW d \in Calls, EmitEnd(d) PROVE Goal
  BY <1>14 DEF EmitEnd
<1>15. ASSUME NEW d \in Calls, Ask(d) PROVE Goal
  BY <1>15 DEF Ask
<1>16. ASSUME NEW d \in Calls, Answer(d) PROVE Goal
  BY <1>16 DEF Answer
<1>17. ASSUME NEW d \in Calls, ToolReturns(d) PROVE Goal
  BY <1>17 DEF ToolReturns, should_retry, is_retry_safe
<1>18. CASE Cancel
  BY <1>18 DEF Cancel
<1>19. CASE DropBatch
  BY <1>19 DEF DropBatch
<1>20. CASE UNCHANGED vars
  BY <1>20 DEF vars
<1> QED
  BY <1>1, <1>2, <1>3, <1>4, <1>5, <1>6, <1>7, <1>8, <1>9, <1>10, <1>11, <1>12,
     <1>13, <1>14, <1>15, <1>16, <1>17, <1>18, <1>19, <1>20 DEF Next, Dispatch,
     World, Finished

\* The result messages are the first calls in source order, and their
\* number is tied to the place of the dispatcher.
MessageInv ==
  /\ messages \in Seq(Calls)
  /\ \A i \in 1..Len(messages) : messages[i] = i
  /\ Len(messages) <= current
  /\ pc = "loop" /\ Sequential => Len(messages) = current - 1
  /\ pc \in {"loop", "join"} /\ ~Sequential => Len(messages) = 0
  /\ pc = "emit" => Len(messages) < current
  /\ pc = "returned" => Len(messages) = current

\* The messages hold initially.
LEMMA InitMessages == Init => MessageInv
<1> SUFFICES ASSUME Init PROVE MessageInv
  OBVIOUS
<1>1. messages \in Seq(Calls) /\ Len(messages) = 0
  BY DEF Init
<1> QED
  BY <1>1 DEF Init, MessageInv

\* One more result, in source order.
LEMMA NextMessage ==
  ASSUME MessageInv, Len(messages) + 1 \in Calls,
         messages' = Append(messages, Len(messages) + 1)
  PROVE  /\ messages' \in Seq(Calls) /\ Len(messages') = Len(messages) + 1
         /\ \A i \in 1..Len(messages') : messages'[i] = i
  BY DEF MessageInv

\* The messages are kept by every step.
LEMMA StepMessages ==
  ASSUME TypeCore, PlaceInv, MessageInv, Next \/ UNCHANGED vars PROVE MessageInv'
<1> DEFINE Goal == MessageInv'
<1>0. current \in Nat /\ 1 <= current /\ current <= N /\ Len(messages) \in Nat
  BY CallNumbers DEF TypeCore, MessageInv
<1> USE <1>0, ModeFixed DEF MessageInv, TypeCore, batch, events
<1>1. CASE EmitStart
  BY <1>1 DEF EmitStart
<1>2. CASE PrepareImmediate
  BY <1>2 DEF PrepareImmediate
<1>3. CASE PreparePrepared
  BY <1>3 DEF PreparePrepared
<1>4. CASE NextPrepare
  BY <1>4 DEF NextPrepare
<1>5. CASE EmitResultInLoop
  <2>1. Len(messages) + 1 = current
    BY <1>5 DEF EmitResultInLoop
  <2>2. messages' = Append(messages, Len(messages) + 1) /\ Len(messages) + 1 \in Calls
    BY <1>5, <2>1 DEF EmitResultInLoop
  <2> HIDE DEF MessageInv
  <2>3. /\ messages' \in Seq(Calls) /\ Len(messages') = current
        /\ \A j \in 1..Len(messages') : messages'[j] = j
    BY <2>1, <2>2, NextMessage
  <2> QED
    BY <1>5, <2>3 DEF EmitResultInLoop, MessageInv
<1>6. CASE JoinAll
  BY <1>6 DEF JoinAll, PlaceInv
<1>7. CASE EmitResultAfterJoin
  <2>1. Len(messages) < current /\ ~Sequential
    BY <1>7 DEF EmitResultAfterJoin, PlaceInv
  <2>2. messages' = Append(messages, Len(messages) + 1) /\ Len(messages) + 1 \in Calls
    BY <1>7, <2>1, DispatchAssumption DEF EmitResultAfterJoin, Calls
  <2> HIDE DEF MessageInv
  <2>3. /\ messages' \in Seq(Calls) /\ Len(messages') = Len(messages) + 1
        /\ \A j \in 1..Len(messages') : messages'[j] = j
    BY <2>2, NextMessage
  <2> QED
    BY <1>7, <2>1, <2>3 DEF EmitResultAfterJoin, MessageInv
<1>8. ASSUME NEW d \in Calls, StartCall(d) PROVE Goal
  BY <1>8 DEF StartCall, Polled, BeginAttempt
<1>9. ASSUME NEW d \in Calls, CancelWins(d) PROVE Goal
  BY <1>9 DEF CancelWins, StopCall, Release, Executing
<1>10. ASSUME NEW d \in Calls, WatchdogFires(d) PROVE Goal
  BY <1>10 DEF WatchdogFires, StopCall, Release, Executing
<1>11. ASSUME NEW d \in Calls, BackoffElapses(d) PROVE Goal
  BY <1>11 DEF BackoffElapses, BeginAttempt
<1>12. ASSUME NEW d \in Calls, BackoffCancelled(d) PROVE Goal
  BY <1>12 DEF BackoffCancelled
<1>13. ASSUME NEW d \in Calls, FinalizeCall(d) PROVE Goal
  BY <1>13 DEF FinalizeCall
<1>14. ASSUME NEW d \in Calls, EmitEnd(d) PROVE Goal
  BY <1>14 DEF EmitEnd
<1>15. ASSUME NEW d \in Calls, Ask(d) PROVE Goal
  BY <1>15 DEF Ask
<1>16. ASSUME NEW d \in Calls, Answer(d) PROVE Goal
  BY <1>16 DEF Answer
<1>17. ASSUME NEW d \in Calls, ToolReturns(d) PROVE Goal
  BY <1>17 DEF ToolReturns, should_retry, is_retry_safe
<1>18. CASE Cancel
  BY <1>18 DEF Cancel
<1>19. CASE DropBatch
  BY <1>19 DEF DropBatch
<1>20. CASE UNCHANGED vars
  BY <1>20 DEF vars
<1> QED
  BY <1>1, <1>2, <1>3, <1>4, <1>5, <1>6, <1>7, <1>8, <1>9, <1>10, <1>11, <1>12,
     <1>13, <1>14, <1>15, <1>16, <1>17, <1>18, <1>19, <1>20 DEF Next, Dispatch,
     World, Finished

----------------------------------------------------------------------------
(* Theorems.                                                               *)

Inv == /\ TypeCore /\ PlaceInv /\ EventInv /\ GuardInv /\ PromptsCounted
       /\ AttemptInv /\ CutInv /\ OrderInv /\ MessageInv

\* The inductive invariant of the dispatcher.
LEMMA Invariance == Spec => []Inv
<1>1. Init => Inv
  BY InitCore, InitPlace, InitEvents, InitGuards, InitPrompts, InitAttempts, InitCut,
     InitOrder,
     InitMessages DEF Inv
<1>2. Inv /\ [Next]_vars => Inv'
  BY StepCore, StepPlace, StepEvents, StepGuards, StepPrompts, StepAttempts, StepCut,
     StepOrder,
     StepMessages DEF Inv
<1> QED
  BY <1>1, <1>2, PTL DEF Spec

\* The dispatcher's variables keep their types, the unsigned count of open
\* prompts included.
THEOREM TypeCorrect == Spec => []TypeOK
<1>1. Inv => TypeOK
  <2> SUFFICES ASSUME Inv PROVE TypeOK
    OBVIOUS
  <2>1. OUTSTANDING \in Nat
    BY AskingFinite, FS_CardinalityType DEF Inv, PromptsCounted
  <2> QED
    BY <2>1 DEF Inv, TypeCore, MessageInv, TypeOK
<1> QED
  BY <1>1, Invariance, PTL

\* Every start event is followed by exactly one end event before the batch
\* returns.
THEOREM StartsAreEnded == Spec => []EventsPair
<1>1. Inv => EventsPair
  <2> SUFFICES ASSUME Inv PROVE EventsPair
    OBVIOUS
  <2>1. ASSUME NEW c \in Calls
        PROVE  /\ ends[c] <= starts[c] /\ starts[c] <= 1
               /\ pc = "returned" => ends[c] = starts[c]
    <3>1. c \in Nat /\ current \in Nat /\ Placed(c)
      BY CallNumbers DEF Inv, TypeCore, PlaceInv
    <3> QED
      BY <3>1 DEF Inv, EventInv, Placed
  <2> QED
    BY <2>1 DEF EventsPair, Inv, TypeCore
<1> QED
  BY <1>1, Invariance, PTL

\* The spinner set is empty whenever the futures are gone.
THEOREM SpinnersEnd == Spec => []SpinnersStop
<1>1. Inv => SpinnersStop
  <2> SUFFICES ASSUME Inv PROVE SpinnersStop
    OBVIOUS
  <2>1. ASSUME NEW c \in Calls, HoldsGuard(c)
        PROVE  /\ starts[c] = 1 /\ ends[c] = 0
               /\ pc \notin {"emit", "returned", "dropped"}
    <3>1. c \in Nat /\ current \in Nat /\ Placed(c)
      BY CallNumbers DEF Inv, TypeCore, PlaceInv
    <3> QED
      BY <2>1, <3>1 DEF Inv, EventInv, Placed, HoldsGuard
  <2> QED
    BY <2>1 DEF SpinnersStop, Inv, GuardInv
<1> QED
  BY <1>1, Invariance, PTL

\* The count of open prompts is the number of calls waiting for a person.
THEOREM PromptsAreCounted == Spec => []PromptsCounted
<1>1. Inv => PromptsCounted
  BY DEF Inv
<1> QED
  BY <1>1, Invariance, PTL

\* A tool that is not a pure read is executed at most once, a read at most
\* MAX_ATTEMPTS times.
THEOREM EffectsHappenOnce == Spec => []NoEffectTwice
<1>1. Inv => NoEffectTwice
  <2> SUFFICES ASSUME Inv, NEW c \in Calls
               PROVE  /\ executions[c] <= MAX_ATTEMPTS
                      /\ ~is_retry_safe(c) => executions[c] <= 1
    BY DEF NoEffectTwice
  <2> QED
    BY DispatchAssumption DEF Inv, TypeCore, AttemptInv, Attempted
<1> QED
  BY <1>1, Invariance, PTL

\* A batch with an effect in it feeds the verifier in source order.
THEOREM VerifierIsFedInOrder == Spec => []VerifierInOrder
<1>1. Inv => VerifierInOrder
  BY DEF Inv, OrderInv, VerifierInOrder, Sequential, has_sequential
<1> QED
  BY <1>1, Invariance, PTL

\* No step of the watchdog cuts a call that waits for a person.
THEOREM PeopleHaveTime == Spec => PeopleAreNotCut
<1>1. Inv /\ [Next]_vars => [\A c \in Calls : stage[c] = "asking" => outcome'[c] # "cut"]_vars
  <2> SUFFICES ASSUME Inv, Next, NEW c \in Calls, stage[c] = "asking"
               PROVE  outcome'[c] # "cut"
    OBVIOUS
  <2> DEFINE Goal == outcome'[c] # "cut"
  <2>0. outcome[c] # "cut" /\ outcome \in [Calls -> Outcomes] /\ stage \in [Calls -> Stages]
    BY DEF Inv, CutInv, TypeCore
  <2>31. anyone_waiting
    <3>1. c \in Asking
      BY DEF Asking
    <3>2. Cardinality(Asking) # 0 /\ Cardinality(Asking) \in Nat
      BY <3>1, AskingFinite, FS_EmptySet, FS_CardinalityType
    <3> QED
      BY <3>2 DEF Inv, PromptsCounted, anyone_waiting
  <2> USE <2>0, <2>31 DEF batch, events, Outcomes
  <2>1. CASE EmitStart
    BY <2>1 DEF EmitStart
  <2>2. CASE PrepareImmediate
    BY <2>2 DEF PrepareImmediate
  <2>3. CASE PreparePrepared
    BY <2>3 DEF PreparePrepared
  <2>4. CASE NextPrepare
    BY <2>4 DEF NextPrepare
  <2>5. CASE EmitResultInLoop
    BY <2>5 DEF EmitResultInLoop
  <2>6. CASE JoinAll
    BY <2>6 DEF JoinAll
  <2>7. CASE EmitResultAfterJoin
    BY <2>7 DEF EmitResultAfterJoin
  <2>8. ASSUME NEW d \in Calls, StartCall(d) PROVE Goal
    BY <2>8 DEF StartCall, Polled, BeginAttempt
  <2>9. ASSUME NEW d \in Calls, CancelWins(d) PROVE Goal
    BY <2>9 DEF CancelWins, StopCall, Release, Executing
  <2>10. ASSUME NEW d \in Calls, WatchdogFires(d) PROVE Goal
    BY <2>10 DEF WatchdogFires, StopCall, Release, Executing
  <2>11. ASSUME NEW d \in Calls, BackoffElapses(d) PROVE Goal
    BY <2>11 DEF BackoffElapses, BeginAttempt
  <2>12. ASSUME NEW d \in Calls, BackoffCancelled(d) PROVE Goal
    BY <2>12 DEF BackoffCancelled
  <2>13. ASSUME NEW d \in Calls, FinalizeCall(d) PROVE Goal
    BY <2>13 DEF FinalizeCall
  <2>14. ASSUME NEW d \in Calls, EmitEnd(d) PROVE Goal
    BY <2>14 DEF EmitEnd
  <2>15. ASSUME NEW d \in Calls, Ask(d) PROVE Goal
    BY <2>15 DEF Ask
  <2>16. ASSUME NEW d \in Calls, Answer(d) PROVE Goal
    BY <2>16 DEF Answer
  <2>17. ASSUME NEW d \in Calls, ToolReturns(d) PROVE Goal
    BY <2>17 DEF ToolReturns, should_retry, is_retry_safe
  <2>18. CASE Cancel
    BY <2>18 DEF Cancel
  <2>19. CASE DropBatch
    BY <2>19 DEF DropBatch
  <2>20. CASE UNCHANGED vars
    BY <2>20 DEF vars
  <2> QED
    BY <2>1, <2>2, <2>3, <2>4, <2>5, <2>6, <2>7, <2>8, <2>9, <2>10, <2>11, <2>12,
       <2>13, <2>14, <2>15, <2>16, <2>17, <2>18, <2>19, <2>20 DEF Next, Dispatch,
       World, Finished
<1> QED
  BY <1>1, Invariance, PTL DEF Spec, PeopleAreNotCut

\* What a batch returns is in source order, and everything unless cancelled.
LEMMA ReturnedInOrder ==
  ASSUME NEW k \in Calls, NEW returned \in Seq(Calls), Len(returned) = k,
         \A i \in 1..k : returned[i] = i,
         NEW stopped, k = N \/ stopped
  PROVE  /\ k \in 0..N /\ returned = Batch!InSourceOrder(k)
         /\ 1..k \in Batch!Answerable(1..N, stopped)
<1>1. k \in Nat /\ 1 <= k /\ k <= N /\ N \in Nat
  BY CallNumbers, DispatchAssumption
<1>2. returned = Batch!InSourceOrder(k)
  BY <1>1 DEF Batch!InSourceOrder
<1>3. 1..k \subseteq 1..N /\ 1 \in 1..k
  BY <1>1
<1> QED
  BY <1>1, <1>2, <1>3 DEF Batch!Answerable

\* The dispatcher implements the batch the turn loop relies on: whatever the
\* interleaving, one step answers the calls in source order.
THEOREM DispatchImplementsBatch == Spec => ImplementsBatch
<1>1. Init => Batch!BatchInit
  BY DEF Init, Batch!BatchInit, Over
<1>2. Inv /\ Inv' /\ [Next]_vars => [Batch!BatchNext]_(Batch!batchVars)
  <2> SUFFICES ASSUME Inv, Inv', Next \/ UNCHANGED vars
               PROVE  Batch!BatchNext \/ UNCHANGED Batch!batchVars
    OBVIOUS
  <2> DEFINE Goal == Batch!BatchNext \/ UNCHANGED Batch!batchVars
  <2>31. ASSUME pc' = pc, cancelled' = cancelled, pc = "returned" => messages' = messages
         PROVE  Goal
    BY <2>31 DEF Batch!batchVars, Over
  <2>32. ASSUME ~Over, ~Over', cancelled' = cancelled
         PROVE  Goal
    BY <2>32 DEF Batch!batchVars, Over
  <2>33. ASSUME ~Over, pc' = "returned", UNCHANGED cancelled
         PROVE  Goal
    <3>1. /\ current' \in 0..N /\ messages' = Batch!InSourceOrder(current')
          /\ 1..current' \in Batch!Answerable(1..N, cancelled)
      <4>1. /\ current' \in Calls /\ messages' \in Seq(Calls) /\ Len(messages') = current'
            /\ \A i \in 1..current' : messages'[i] = i
            /\ current' = N \/ cancelled
        BY <2>33 DEF Inv, TypeCore, MessageInv, PlaceInv
      <4> QED
        BY <4>1, ReturnedInOrder
    <3> QED
      BY <2>33, <3>1 DEF Batch!BatchNext, Batch!ReturnResults, Over
  <2> USE DEF batch, events, Goal
  <2>1. CASE EmitStart
    BY <2>1, <2>31 DEF EmitStart
  <2>2. CASE PrepareImmediate
    BY <2>2, <2>31 DEF PrepareImmediate
  <2>3. CASE PreparePrepared
    BY <2>3, <2>31 DEF PreparePrepared
  <2>4. CASE NextPrepare
    BY <2>4, <2>32 DEF NextPrepare, Over
  <2>5. CASE EmitResultInLoop
    BY <2>5, <2>32, <2>33 DEF EmitResultInLoop, Over
  <2>6. CASE JoinAll
    BY <2>6, <2>32 DEF JoinAll, Over
  <2>7. CASE EmitResultAfterJoin
    BY <2>7, <2>32, <2>33 DEF EmitResultAfterJoin, Over
  <2>8. ASSUME NEW d \in Calls, StartCall(d) PROVE Goal
    BY <2>8, <2>31 DEF StartCall, Polled, BeginAttempt
  <2>9. ASSUME NEW d \in Calls, CancelWins(d) PROVE Goal
    BY <2>9, <2>31 DEF CancelWins, StopCall, Release, Executing
  <2>10. ASSUME NEW d \in Calls, WatchdogFires(d) PROVE Goal
    BY <2>10, <2>31 DEF WatchdogFires, StopCall, Release, Executing
  <2>11. ASSUME NEW d \in Calls, BackoffElapses(d) PROVE Goal
    BY <2>11, <2>31 DEF BackoffElapses, BeginAttempt
  <2>12. ASSUME NEW d \in Calls, BackoffCancelled(d) PROVE Goal
    BY <2>12, <2>31 DEF BackoffCancelled
  <2>13. ASSUME NEW d \in Calls, FinalizeCall(d) PROVE Goal
    BY <2>13, <2>31 DEF FinalizeCall
  <2>14. ASSUME NEW d \in Calls, EmitEnd(d) PROVE Goal
    BY <2>14, <2>31 DEF EmitEnd
  <2>15. ASSUME NEW d \in Calls, Ask(d) PROVE Goal
    BY <2>15, <2>31 DEF Ask
  <2>16. ASSUME NEW d \in Calls, Answer(d) PROVE Goal
    BY <2>16, <2>31 DEF Answer
  <2>17. ASSUME NEW d \in Calls, ToolReturns(d) PROVE Goal
    BY <2>17, <2>31 DEF ToolReturns, should_retry, is_retry_safe
  <2>18. CASE Cancel
    BY <2>18 DEF Cancel, Over, Batch!BatchNext, Batch!CancelRun
  <2>19. CASE DropBatch
    BY <2>19 DEF DropBatch, Over, Batch!BatchNext, Batch!TearDown
  <2>20. CASE UNCHANGED vars
    BY <2>20, <2>31 DEF vars
  <2> QED
    BY <2>1, <2>2, <2>3, <2>4, <2>5, <2>6, <2>7, <2>8, <2>9, <2>10, <2>11, <2>12,
       <2>13, <2>14, <2>15, <2>16, <2>17, <2>18, <2>19, <2>20 DEF Next, Dispatch,
       World, Finished
<1> QED
  BY <1>1, <1>2, Invariance, PTL DEF Spec, ImplementsBatch, Batch!BatchSpec

----------------------------------------------------------------------------
(* How far a batch has to go.                                              *)

StageRank(s) ==
  CASE s = "idle" -> 9 [] s = "started" -> 8 [] s = "queued" -> 7
    [] s = "asking" -> 6 [] s = "running" -> 5 [] s = "backoff" -> 4
    [] s = "executed" -> 3 [] s = "finalized" -> 2 [] s = "ended" -> 1
    [] s = "dropped" -> 0

\* What call c has before it: a prompt answered or an attempt made takes it
\* back a stage and is paid for with one that is left.
CallLeft(c) ==
  2 * (MaxPrompts - prompts[c]) + 2 * (MAX_ATTEMPTS - attempt[c])
    + StageRank(stage[c])

PlaceRank(p) ==
  CASE p = "loop" -> 4 [] p = "join" -> 3 [] p = "emit" -> 2
    [] p = "returned" -> 1 [] p = "dropped" -> 0

\* What the dispatcher has before it, the one cancel it can be sent included.
DispatcherLeft ==
  PlaceRank(pc) + (N - current) + (N - Len(messages))
    + (IF cancelled THEN 0 ELSE 1)

\* Every step brings the dispatcher or a call on, and sets none back.
BatchGoesDown ==
  [][/\ DispatcherLeft' <= DispatcherLeft
     /\ \A c \in Calls : CallLeft(c)' <= CallLeft(c)
     /\ \/ DispatcherLeft' < DispatcherLeft
        \/ \E c \in Calls : CallLeft(c)' < CallLeft(c)]_vars

\* The bounds the counters start from.
BatchBounded ==
  /\ DispatcherLeft \in 0..(2 * N + 4)
  /\ \A c \in Calls :
       CallLeft(c) \in 0..(2 * MaxPrompts + 2 * MAX_ATTEMPTS + 7)

\* The guards of the dispatcher's own steps: what the runtime can go on with
\* without a tool or a person.
DispatchReady ==
  \/ pc = "loop" /\ stage[current] \in {"idle", "started", "queued",
                                        "finalized", "ended"}
  \/ pc = "join" /\ \A c \in 1..current : stage[c] = "ended"
  \/ pc = "emit"
  \/ \E c \in Calls :
       \/ pc = "join" /\ stage[c] \in {"queued", "finalized"}
       \/ Executing(c) /\ (cancelled \/ ~anyone_waiting)
       \/ stage[c] \in {"backoff", "executed"}

\* A batch that is not over and has nothing to go on with waits for a person,
\* and nobody has cancelled it.
HeldByPeople ==
  ~Over /\ ~DispatchReady => ~cancelled /\ \E c \in Calls : stage[c] = "asking"

\* The ranks are numbers, and fall along a call's way and the dispatcher's.
LEMMA Ranks ==
  /\ \A s \in Stages : StageRank(s) \in Nat /\ StageRank(s) <= 9
  /\ \A p \in {"loop", "join", "emit", "returned", "dropped"} :
       PlaceRank(p) \in Nat /\ PlaceRank(p) <= 4
  /\ StageRank("idle") = 9 /\ StageRank("started") = 8
  /\ StageRank("queued") = 7 /\ StageRank("asking") = 6
  /\ StageRank("running") = 5 /\ StageRank("backoff") = 4
  /\ StageRank("executed") = 3 /\ StageRank("finalized") = 2
  /\ StageRank("ended") = 1 /\ StageRank("dropped") = 0
  /\ PlaceRank("loop") = 4 /\ PlaceRank("join") = 3 /\ PlaceRank("emit") = 2
  /\ PlaceRank("returned") = 1 /\ PlaceRank("dropped") = 0
BY DEF StageRank, PlaceRank, Stages

\* The counters of a call are numbers.
LEMMA CallCounters ==
  ASSUME Inv, NEW c \in Calls
  PROVE  /\ prompts[c] \in Nat /\ attempt[c] \in Nat /\ stage[c] \in Stages
         /\ StageRank(stage[c]) \in Nat /\ StageRank(stage[c]) <= 9
<1>1. prompts[c] \in Nat /\ attempt[c] \in Nat /\ stage[c] \in Stages
  BY DEF Inv, TypeCore
<1> QED
  BY <1>1, Ranks

\* So are those of the dispatcher.
LEMMA DispatcherCounters ==
  ASSUME Inv
  PROVE  /\ current \in Nat /\ 1 <= current /\ current <= N
         /\ Len(messages) \in Nat /\ Len(messages) <= current
         /\ PlaceRank(pc) \in Nat /\ PlaceRank(pc) <= 4
<1>1. current \in Nat /\ 1 <= current /\ current <= N
  BY CallNumbers DEF Inv, TypeCore
<1>2. Len(messages) \in Nat /\ Len(messages) <= current
  BY DEF Inv, MessageInv
<1>3. pc \in {"loop", "join", "emit", "returned", "dropped"}
  BY DEF Inv, TypeCore
<1> QED
  BY <1>1, <1>2, <1>3, Ranks

\* No call opens more prompts than the bound lets it.
PromptInv == \A c \in Calls : prompts[c] <= MaxPrompts

\* The prompts are bounded throughout.
LEMMA PromptsBounded == Spec => []PromptInv
<1>1. Init => PromptInv
  BY DispatchAssumption DEF Init, PromptInv
<1>2. Inv /\ PromptInv /\ [Next]_vars => PromptInv'
  <2> SUFFICES ASSUME Inv, PromptInv, [Next]_vars PROVE PromptInv'
    OBVIOUS
  <2>1. CASE UNCHANGED prompts
    BY <2>1 DEF PromptInv
  <2>2. ASSUME NEW d \in Calls, Ask(d) PROVE PromptInv'
    BY <2>2, DispatchAssumption DEF Ask, PromptInv, Inv, TypeCore
  <2> QED
    BY <2>1, <2>2 DEF Next, Dispatch, World, Finished, vars, EmitStart,
       PrepareImmediate, PreparePrepared, NextPrepare, EmitResultInLoop, JoinAll,
       EmitResultAfterJoin, StartCall, CancelWins, StopCall, WatchdogFires,
       BackoffElapses, BackoffCancelled, FinalizeCall, EmitEnd, Answer,
       ToolReturns, Cancel, DropBatch
<1> QED
  BY <1>1, <1>2, Invariance, PTL DEF Spec

\* What a call has before it is a number within the bound.
LEMMA CallLeftBounded ==
  ASSUME Inv, PromptInv, NEW c \in Calls
  PROVE  CallLeft(c) \in 0..(2 * MaxPrompts + 2 * MAX_ATTEMPTS + 7)
<1>1. prompts[c] <= MaxPrompts /\ 1 <= attempt[c] /\ attempt[c] <= MAX_ATTEMPTS
  BY DEF Inv, AttemptInv, Attempted, PromptInv
<1> QED
  BY <1>1, CallCounters, DispatchAssumption DEF CallLeft

\* So is what the dispatcher has before it.
LEMMA DispatcherLeftBounded ==
  ASSUME Inv
  PROVE  DispatcherLeft \in 0..(2 * N + 4)
BY DispatcherCounters, DispatchAssumption DEF DispatcherLeft

\* The bound holds in every state.
LEMMA BatchIsBounded == Spec => []BatchBounded
<1>1. Inv /\ PromptInv => BatchBounded
  BY CallLeftBounded, DispatcherLeftBounded DEF BatchBounded
<1> QED
  BY <1>1, Invariance, PromptsBounded, PTL

\* One step on of one call: its stage, with an attempt or a prompt spent.
CallMoves(d) ==
  /\ \A c \in Calls : CallLeft(c)' <= CallLeft(c)
  /\ CallLeft(d)' < CallLeft(d)

\* The sum that CallLeft is, before and after a stage taken, with p prompts
\* and a attempts spent on the way.
LEMMA Spent ==
  ASSUME NEW P \in Nat, NEW A \in Nat, NEW x \in Nat, NEW y \in Nat,
         NEW r \in Nat, NEW s \in Nat, NEW p \in {0, 1}, NEW a \in {0, 1},
         s < r + 2 * p + 2 * a
  PROVE  2 * (P - (x + p)) + 2 * (A - (y + a)) + s
           < 2 * (P - x) + 2 * (A - y) + r
OBVIOUS

\* A call of which nothing changes.
LEMMA CallStands ==
  ASSUME Inv, NEW c \in Calls, prompts'[c] = prompts[c],
         attempt'[c] = attempt[c], stage'[c] = stage[c]
  PROVE  CallLeft(c)' <= CallLeft(c)
<1>1. CallLeft(c)' = CallLeft(c)
  BY DEF CallLeft
<1>2. CallLeft(c) \in Int
  BY CallCounters, DispatchAssumption DEF CallLeft
<1> QED
  BY <1>1, <1>2

\* A step that changes the stage of d, and spends on the way.
LEMMA MoveDown ==
  ASSUME Inv, NEW d \in Calls, NEW s \in Stages, NEW p \in {0, 1}, NEW a \in {0, 1},
         stage' = [stage EXCEPT ![d] = s],
         prompts' = [prompts EXCEPT ![d] = prompts[d] + p],
         attempt' = [attempt EXCEPT ![d] = attempt[d] + a],
         StageRank(s) < StageRank(stage[d]) + 2 * p + 2 * a
  PROVE  CallMoves(d)
<1>0. /\ stage \in [Calls -> Stages] /\ prompts \in [Calls -> Nat]
      /\ attempt \in [Calls -> Nat]
  BY DEF Inv, TypeCore
<1>1. ASSUME NEW c \in Calls, c # d PROVE CallLeft(c)' <= CallLeft(c)
  BY <1>0, <1>1, CallStands
<1>2. /\ prompts'[d] = prompts[d] + p /\ attempt'[d] = attempt[d] + a
      /\ stage'[d] = s
  BY <1>0
<1>3. CallLeft(d)' = 2 * (MaxPrompts - (prompts[d] + p))
                       + 2 * (MAX_ATTEMPTS - (attempt[d] + a)) + StageRank(s)
  BY <1>2 DEF CallLeft
<1>4. StageRank(s) \in Nat
  BY Ranks
<1>5. CallLeft(d)' < CallLeft(d)
  BY <1>3, <1>4, Spent, CallCounters, DispatchAssumption DEF CallLeft
<1>6. CallLeft(d) \in Int /\ CallLeft(d)' \in Int
  BY <1>3, <1>4, CallCounters, DispatchAssumption DEF CallLeft
<1>7. CallLeft(d)' <= CallLeft(d)
  BY <1>5, <1>6
<1> QED
  BY <1>1, <1>5, <1>7 DEF CallMoves

\* Nothing of the dispatcher changes.
LEMMA DispatcherStands ==
  ASSUME Inv, UNCHANGED <<pc, current, messages, cancelled>>
  PROVE  DispatcherLeft' <= DispatcherLeft
BY DispatcherCounters, DispatchAssumption DEF DispatcherLeft

\* A call taken to another stage keeps its counters when it spends nothing.
LEMMA StageMoves ==
  ASSUME Inv, NEW d \in Calls, NEW s \in Stages,
         stage' = [stage EXCEPT ![d] = s], UNCHANGED <<prompts, attempt>>,
         StageRank(s) < StageRank(stage[d])
  PROVE  CallMoves(d)
<1>1. /\ prompts' = [prompts EXCEPT ![d] = prompts[d] + 0]
      /\ attempt' = [attempt EXCEPT ![d] = attempt[d] + 0]
  BY DEF Inv, TypeCore
<1>2. StageRank(s) < StageRank(stage[d]) + 2 * 0 + 2 * 0
  BY Ranks, CallCounters
<1> QED
  BY <1>1, <1>2, MoveDown

\* What every step does to what is left.
Sinks ==
  /\ DispatcherLeft' <= DispatcherLeft
  /\ \A c \in Calls : CallLeft(c)' <= CallLeft(c)
  /\ \/ DispatcherLeft' < DispatcherLeft
     \/ \E c \in Calls : CallLeft(c)' < CallLeft(c)

\* The sum that DispatcherLeft is, before and after such a step.
LEMMA Gained ==
  ASSUME NEW M \in Nat, NEW a \in Nat, NEW b \in Nat, NEW i \in Nat, NEW j \in Nat,
         NEW k \in Nat, NEW l \in Nat, NEW x \in Nat, a + k + i < b + l + j
  PROVE  /\ a + (M - j) + (M - l) + x < b + (M - i) + (M - k) + x
         /\ a + (M - j) + (M - l) + x <= b + (M - i) + (M - k) + x
OBVIOUS

\* The dispatcher goes to place p, takes up call n, has emitted m results.
LEMMA DispatcherFalls ==
  ASSUME Inv, NEW p \in {"loop", "join", "emit", "returned", "dropped"},
         NEW n \in Nat, NEW m \in Nat,
         pc' = p, current' = n, Len(messages') = m, cancelled' = cancelled,
         PlaceRank(p) + Len(messages) + current < PlaceRank(pc) + m + n
  PROVE  DispatcherLeft' < DispatcherLeft /\ DispatcherLeft' <= DispatcherLeft
<1>1. PlaceRank(p) \in Nat /\ N \in Nat
  BY Ranks, DispatchAssumption
<1> DEFINE x == IF cancelled THEN 0 ELSE 1
<1>2. x \in Nat
  OBVIOUS
<1>3. /\ DispatcherLeft' = PlaceRank(p) + (N - n) + (N - m) + x
      /\ DispatcherLeft = PlaceRank(pc) + (N - current) + (N - Len(messages)) + x
  BY DEF DispatcherLeft
<1> HIDE DEF x
<1> QED
  BY <1>1, <1>2, <1>3, DispatcherCounters, Gained

\* A step of the dispatcher that leaves the calls alone.
LEMMA DispatcherMoves ==
  ASSUME Inv, UNCHANGED <<stage, prompts, attempt>>,
         NEW p \in {"loop", "join", "emit", "returned", "dropped"},
         NEW n \in Nat, NEW m \in Nat,
         pc' = p, current' = n, Len(messages') = m, cancelled' = cancelled,
         PlaceRank(p) + Len(messages) + current < PlaceRank(pc) + m + n
  PROVE  Sinks
<1>1. DispatcherLeft' < DispatcherLeft /\ DispatcherLeft' <= DispatcherLeft
  BY DispatcherFalls
<1>2. ASSUME NEW c \in Calls PROVE CallLeft(c)' <= CallLeft(c)
  BY CallStands
<1> QED
  BY <1>1, <1>2 DEF Sinks

\* A step of one call.
LEMMA CallSinks ==
  ASSUME Inv, NEW d \in Calls, CallMoves(d),
         UNCHANGED <<pc, current, messages, cancelled>>
  PROVE  Sinks
BY DispatcherStands DEF CallMoves, Sinks

\* A step of one call that spends nothing.
LEMMA StageSinks ==
  ASSUME Inv, NEW d \in Calls, NEW s \in Stages,
         stage' = [stage EXCEPT ![d] = s], UNCHANGED <<prompts, attempt>>,
         UNCHANGED <<pc, current, messages, cancelled>>,
         StageRank(s) < StageRank(stage[d])
  PROVE  Sinks
<1>1. CallMoves(d)
  BY StageMoves
<1> QED
  BY <1>1, CallSinks

\* An attempt begun, from a stage from which the ranks fall.
LEMMA BeginMoves ==
  ASSUME Inv, NEW d \in Calls, BeginAttempt(d), UNCHANGED prompts, NEW a \in {0, 1},
         attempt' = [attempt EXCEPT ![d] = attempt[d] + a],
         5 < StageRank(stage[d]) + 2 * a
  PROVE  CallMoves(d)
<1>1. PICK s \in {"running", "executed"} : stage' = [stage EXCEPT ![d] = s]
  BY DEF BeginAttempt
<1>2. s \in Stages /\ StageRank(s) \in Nat /\ StageRank(s) <= 5
  BY Ranks DEF Stages
<1>3. prompts' = [prompts EXCEPT ![d] = prompts[d] + 0]
  BY DEF Inv, TypeCore
<1>4. StageRank(s) < StageRank(stage[d]) + 2 * 0 + 2 * a
  BY <1>2, CallCounters
<1> QED
  BY <1>1, <1>2, <1>3, <1>4, MoveDown

\* Every step of the batch lowers what is left of it.
LEMMA StepSinks == ASSUME Inv, Next PROVE Sinks \/ UNCHANGED vars
<1> USE DEF batch, events
<1>0. /\ {"started", "finalized", "queued", "running", "asking", "backoff",
          "executed", "ended"} \subseteq Stages
      /\ current \in Calls
  BY DEF Stages, Inv, TypeCore
<1>1. CASE EmitStart
  <2>1. StageRank("started") < StageRank(stage[current])
    BY <1>1, Ranks DEF EmitStart
  <2> QED
    BY <1>0, <1>1, <2>1, StageSinks DEF EmitStart
<1>2. CASE PrepareImmediate
  <2>1. StageRank("finalized") < StageRank(stage[current])
    BY <1>2, Ranks DEF PrepareImmediate
  <2> QED
    BY <1>0, <1>2, <2>1, StageSinks DEF PrepareImmediate
<1>3. CASE PreparePrepared
  <2>1. StageRank("queued") < StageRank(stage[current])
    BY <1>3, Ranks DEF PreparePrepared
  <2> QED
    BY <1>0, <1>3, <2>1, StageSinks DEF PreparePrepared
<1>4. CASE NextPrepare
  <2>1. CASE current = N \/ cancelled
    <3>1. pc = "loop" /\ pc' = "join" /\ UNCHANGED <<current, messages, cancelled>>
      BY <1>4, <2>1 DEF NextPrepare
    <3>2. PlaceRank("join") + Len(messages) + current
            < PlaceRank(pc) + Len(messages) + current
      <4>1. PlaceRank("join") = 3 /\ PlaceRank(pc) = 4
        BY <3>1, Ranks
      <4> QED
        BY <4>1, DispatcherCounters
    <3> QED
      BY <1>4, <3>1, <3>2, DispatcherMoves, DispatcherCounters DEF NextPrepare
  <2>2. CASE ~(current = N \/ cancelled)
    <3>1. /\ pc = "loop" /\ pc' = "loop" /\ current' = current + 1
          /\ UNCHANGED <<messages, cancelled>>
      BY <1>4, <2>2 DEF NextPrepare
    <3>2. PlaceRank("loop") + Len(messages) + current
            < PlaceRank(pc) + Len(messages) + (current + 1)
      <4>1. PlaceRank("loop") = 4 /\ PlaceRank(pc) = 4
        BY <3>1, Ranks
      <4> QED
        BY <4>1, DispatcherCounters
    <3>3. current + 1 \in Nat /\ Len(messages) \in Nat
      BY DispatcherCounters
    <3> QED
      BY <1>4, <3>1, <3>2, <3>3, DispatcherMoves DEF NextPrepare
  <2> QED
    BY <2>1, <2>2
<1>5. CASE EmitResultInLoop
  <2>0. Len(messages') = Len(messages) + 1 /\ Len(messages) + 1 \in Nat
    BY <1>5 DEF EmitResultInLoop, Inv, MessageInv
  <2>1. CASE current = N \/ cancelled
    <3>1. pc = "loop" /\ pc' = "returned" /\ UNCHANGED <<current, cancelled>>
      BY <1>5, <2>1 DEF EmitResultInLoop
    <3>2. PlaceRank("returned") + Len(messages) + current
            < PlaceRank(pc) + (Len(messages) + 1) + current
      <4>1. PlaceRank("returned") = 1 /\ PlaceRank(pc) = 4
        BY <3>1, Ranks
      <4> QED
        BY <4>1, DispatcherCounters
    <3> QED
      BY <1>5, <2>0, <3>1, <3>2, DispatcherMoves, DispatcherCounters
         DEF EmitResultInLoop
  <2>2. CASE ~(current = N \/ cancelled)
    <3>1. pc = "loop" /\ pc' = "loop" /\ current' = current + 1 /\ UNCHANGED cancelled
      BY <1>5, <2>2 DEF EmitResultInLoop
    <3>2. PlaceRank("loop") + Len(messages) + current
            < PlaceRank(pc) + (Len(messages) + 1) + (current + 1)
      <4>1. PlaceRank("loop") = 4 /\ PlaceRank(pc) = 4
        BY <3>1, Ranks
      <4> QED
        BY <4>1, DispatcherCounters
    <3>3. current + 1 \in Nat
      BY DispatcherCounters
    <3> QED
      BY <1>5, <2>0, <3>1, <3>2, <3>3, DispatcherMoves DEF EmitResultInLoop
  <2> QED
    BY <2>1, <2>2
<1>6. CASE JoinAll
  <2>1. PlaceRank("emit") + Len(messages) + current
          < PlaceRank(pc) + Len(messages) + current
    BY <1>6, Ranks, DispatcherCounters DEF JoinAll
  <2> QED
    BY <1>6, <2>1, DispatcherMoves, DispatcherCounters DEF JoinAll
<1>7. CASE EmitResultAfterJoin
  <2>1. Len(messages') = Len(messages) + 1 /\ Len(messages) + 1 \in Nat
    BY <1>7 DEF EmitResultAfterJoin, Inv, MessageInv
  <2>2. PICK p \in {"emit", "returned"} : pc' = p
    BY <1>7 DEF EmitResultAfterJoin
  <2>3. PlaceRank(p) + Len(messages) + current
          < PlaceRank(pc) + (Len(messages) + 1) + current
    <3>1. PlaceRank(pc) = 2 /\ PlaceRank(p) \in Nat /\ PlaceRank(p) <= 2
      BY <1>7, Ranks DEF EmitResultAfterJoin
    <3> QED
      BY <3>1, DispatcherCounters
  <2> QED
    BY <1>7, <2>1, <2>2, <2>3, DispatcherMoves, DispatcherCounters
       DEF EmitResultAfterJoin
<1>8. ASSUME NEW d \in Calls, StartCall(d) PROVE Sinks
  <2>1. attempt' = [attempt EXCEPT ![d] = attempt[d] + 0]
    BY <1>8 DEF StartCall, Inv, TypeCore
  <2>2. 5 < StageRank(stage[d]) + 2 * 0
    BY <1>8, Ranks DEF StartCall
  <2>3. CallMoves(d)
    BY <1>8, <2>1, <2>2, BeginMoves DEF StartCall
  <2> QED
    BY <1>8, <2>3, CallSinks DEF StartCall
<1>9. ASSUME NEW d \in Calls, CancelWins(d) \/ WatchdogFires(d) PROVE Sinks
  <2>1. StageRank("executed") < StageRank(stage[d])
    BY <1>9, Ranks DEF CancelWins, WatchdogFires, Executing
  <2>2. CallMoves(d)
    BY <1>0, <1>9, <2>1, StageMoves DEF CancelWins, WatchdogFires, StopCall
  <2> QED
    BY <1>9, <2>2, CallSinks DEF CancelWins, WatchdogFires, StopCall
<1>10. ASSUME NEW d \in Calls, BackoffElapses(d) PROVE Sinks
  <2>1. 5 < StageRank(stage[d]) + 2 * 1
    BY <1>10, Ranks DEF BackoffElapses
  <2>2. CallMoves(d)
    BY <1>10, <2>1, BeginMoves DEF BackoffElapses
  <2> QED
    BY <1>10, <2>2, CallSinks DEF BackoffElapses
<1>11. ASSUME NEW d \in Calls, BackoffCancelled(d) PROVE Sinks
  <2>1. StageRank("executed") < StageRank(stage[d])
    BY <1>11, Ranks DEF BackoffCancelled
  <2> QED
    BY <1>0, <1>11, <2>1, StageSinks DEF BackoffCancelled
<1>12. ASSUME NEW d \in Calls, FinalizeCall(d) PROVE Sinks
  <2>1. StageRank("finalized") < StageRank(stage[d])
    BY <1>12, Ranks DEF FinalizeCall
  <2> QED
    BY <1>0, <1>12, <2>1, StageSinks DEF FinalizeCall
<1>13. ASSUME NEW d \in Calls, EmitEnd(d) PROVE Sinks
  <2>1. StageRank("ended") < StageRank(stage[d])
    BY <1>13, Ranks DEF EmitEnd
  <2> QED
    BY <1>0, <1>13, <2>1, StageSinks DEF EmitEnd
<1>14. ASSUME NEW d \in Calls, Ask(d) PROVE Sinks
  <2>1. attempt' = [attempt EXCEPT ![d] = attempt[d] + 0]
    BY <1>14 DEF Ask, Inv, TypeCore
  <2>2. StageRank("asking") < StageRank(stage[d]) + 2 * 1 + 2 * 0
    BY <1>14, Ranks DEF Ask
  <2>3. CallMoves(d)
    BY <1>0, <1>14, <2>1, <2>2, MoveDown DEF Ask
  <2> QED
    BY <1>14, <2>3, CallSinks DEF Ask
<1>15. ASSUME NEW d \in Calls, Answer(d) PROVE Sinks
  <2>1. StageRank("running") < StageRank(stage[d])
    BY <1>15, Ranks DEF Answer
  <2> QED
    BY <1>0, <1>15, <2>1, StageSinks DEF Answer
<1>16. ASSUME NEW d \in Calls, ToolReturns(d) PROVE Sinks
  <2>1. PICK s \in {"backoff", "executed"} : stage' = [stage EXCEPT ![d] = s]
    BY <1>16 DEF ToolReturns
  <2>2. s \in Stages /\ StageRank(s) < StageRank(stage[d])
    BY <1>0, <1>16, Ranks DEF ToolReturns
  <2>3. CallMoves(d)
    BY <1>16, <2>1, <2>2, StageMoves DEF ToolReturns
  <2> QED
    BY <1>16, <2>3, CallSinks DEF ToolReturns
<1>17. CASE Cancel
  <2>1. DispatcherLeft' < DispatcherLeft /\ DispatcherLeft' <= DispatcherLeft
    BY <1>17, DispatcherCounters, DispatchAssumption DEF Cancel, DispatcherLeft
  <2> QED
    BY <1>17, <2>1, CallStands DEF Cancel, Sinks
<1>18. CASE DropBatch
  <2>1. /\ pc' = "dropped" /\ pc \in {"loop", "join", "emit"}
        /\ UNCHANGED <<current, messages, cancelled, prompts, attempt>>
    BY <1>18 DEF DropBatch, Inv, TypeCore
  <2>2. DispatcherLeft' < DispatcherLeft /\ DispatcherLeft' <= DispatcherLeft
    <3>1. PlaceRank(pc) \in Nat /\ PlaceRank(pc) > 0 /\ PlaceRank("dropped") = 0
      BY <2>1, Ranks
    <3>2. current \in Nat /\ Len(messages) \in Nat
      BY DispatcherCounters
    <3>3. PlaceRank("dropped") + Len(messages) + current
            < PlaceRank(pc) + Len(messages) + current
      BY <3>1, <3>2
    <3> QED
      BY <2>1, <3>2, <3>3, DispatcherFalls
  <2>3. ASSUME NEW c \in Calls PROVE CallLeft(c)' <= CallLeft(c)
    <3>1. CASE stage'[c] = stage[c]
      BY <2>1, <3>1, CallStands
    <3>2. CASE stage'[c] = "dropped"
      BY <2>1, <3>2, Ranks, CallCounters, DispatchAssumption DEF CallLeft
    <3> QED
      BY <1>18, <3>1, <3>2 DEF DropBatch
  <2> QED
    BY <2>2, <2>3 DEF Sinks
<1> QED
  BY <1>1, <1>2, <1>3, <1>4, <1>5, <1>6, <1>7, <1>8, <1>9, <1>10, <1>11, <1>12,
     <1>13, <1>14, <1>15, <1>16, <1>17, <1>18 DEF Next, Dispatch, World, Finished

\* For any number of calls, attempts and prompts: a batch cannot go round in
\* circles.  Retries, prompts, cancels and cuts included, every step brings
\* the dispatcher or one call nearer its end and takes none back, and what
\* each has before it is bounded by its budget of attempts and prompts.
THEOREM BatchRunsOut == Spec => []BatchBounded /\ BatchGoesDown
<1>1. Inv /\ [Next]_vars => [Sinks]_vars
  BY StepSinks
<1>2. [][Sinks]_vars => BatchGoesDown
  BY DEF Sinks, BatchGoesDown
<1> QED
  BY <1>1, <1>2, Invariance, BatchIsBounded, PTL DEF Spec

\* For any number of calls: a batch that is not over and has no step of its
\* own to take waits for a person's answer and has not been cancelled.  No
\* hung tool, no order of cancels, cuts and retries stops it otherwise: every
\* await of the dispatcher is raced against the signal and the deadline, and
\* the deadline is put off by open prompts only.
THEOREM OnlyPeopleHoldABatch == Spec => []HeldByPeople
<1>1. Inv => HeldByPeople
  <2> SUFFICES ASSUME Inv, ~Over, ~DispatchReady
               PROVE  ~cancelled /\ \E c \in Calls : stage[c] = "asking"
    BY DEF HeldByPeople
  <2>1. PICK c \in Calls : stage[c] \in {"running", "asking"}
    <3>1. CASE pc = "loop"
      <4>1. current \in Calls /\ stage[current] \in Stages /\ Placed(current)
        BY DEF Inv, TypeCore, PlaceInv
      <4>2. stage[current] # "dropped"
        BY <3>1, <4>1 DEF Placed
      <4> QED
        BY <3>1, <4>1, <4>2 DEF DispatchReady, Stages
    <3>2. CASE pc = "join"
      <4>1. PICK c \in 1..current : stage[c] # "ended"
        BY <3>2 DEF DispatchReady
      <4>2. c \in Calls /\ c <= current /\ c \in Nat
        BY <4>1, DispatcherCounters, DispatchAssumption DEF Calls
      <4>3. Placed(c) /\ stage[c] \in Stages
        BY <4>2 DEF Inv, TypeCore, PlaceInv
      <4>4. stage[c] \notin {"idle", "started", "dropped"}
        BY <3>2, <4>2, <4>3 DEF Placed
      <4> QED
        BY <3>2, <4>1, <4>2, <4>3, <4>4 DEF DispatchReady, Stages
    <3> QED
      BY <3>1, <3>2 DEF Over, DispatchReady, Inv, TypeCore
  <2>2. ~cancelled /\ anyone_waiting
    BY <2>1 DEF DispatchReady, Executing, Inv, TypeCore
  <2>3. Asking # {}
    BY <2>2, FS_EmptySet DEF anyone_waiting, Inv, PromptsCounted
  <2> QED
    BY <2>2, <2>3 DEF Asking
<1> QED
  BY <1>1, Invariance, PTL

============================================================================
