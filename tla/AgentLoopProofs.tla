-------------------------- MODULE AgentLoopProofs --------------------------
(***************************************************************************)
(* Proofs about the turn loop, for every set of calls, every cap and every *)
(* bound of AgentLoop.  Each invariant has an inductive form here, and one *)
(* lemma shows that every step keeps it.                                   *)
(***************************************************************************)
EXTENDS AgentLoop, Descent, TLAPS

\* The typed messages of a queue are a set of numbers.
LEMMA TypedType ==
  ASSUME NEW s \in Seq(Nat)
  PROVE  Typed(s) \in SUBSET Nat
BY DEF Typed

\* The answers stay a count for every call.
LEMMA AnswerType ==
  ASSUME NEW res \in [Calls -> Nat], NEW some
  PROVE  /\ Answer(res, some) \in [Calls -> Nat]
         /\ backfill_missing_tool_results(res) \in [Calls -> Nat]
BY DEF Answer, backfill_missing_tool_results

\* Every step keeps the flags Boolean.
LEMMA FlagsPreserved ==
  ASSUME FlagsOK, [Next]_vars
  PROVE  FlagsOK'
<1> USE LoopAssumption DEF FlagsOK, control, compact, counters, batch,
     context, steering, signal, ending
<1>1. CASE UserTypes
  BY <1>1 DEF UserTypes
<1>2. CASE Interject
  BY <1>2 DEF Interject
<1>3. CASE Cancel
  BY <1>3 DEF Cancel
<1>4. CASE InitialPoll
  BY <1>4 DEF InitialPoll
<1>5. CASE BeginTurn
  BY <1>5 DEF BeginTurn
<1>6. CASE Iterate
  BY <1>6 DEF Iterate, PassOutcomes, record_compaction_outcome, Typed
<1>7. CASE LeaveInner
  BY <1>7 DEF LeaveInner
<1>8. CASE OpenStream
  BY <1>8 DEF OpenStream
<1>9. CASE StreamAborted
  BY <1>9 DEF StreamAborted, Finish
<1>10. CASE StreamFailed
  BY <1>10 DEF StreamFailed, Finish
<1>11. CASE StreamRecovered
  BY <1>11 DEF StreamRecovered, NoCalls
<1>12. CASE StreamOverthought
  BY <1>12 DEF StreamOverthought, NoCalls
<1>13. CASE StreamAnswered
  BY <1>13 DEF StreamAnswered
<1>14. CASE DispatchNothing
  BY <1>14 DEF DispatchNothing
<1>15. CASE StormCorrects
  BY <1>15 DEF StormCorrects
<1>16. CASE StormGivesUp
  BY <1>16 DEF StormGivesUp
<1>17. CASE DispatchSurvivors
  BY <1>17 DEF DispatchSurvivors
<1>18. CASE ExecuteBatch
  BY <1>18 DEF ExecuteBatch
<1>19. CASE UsageFine
  BY <1>19 DEF UsageFine
<1>20. CASE UsageFold
  BY <1>20 DEF UsageFold, PassOutcomes, record_compaction_outcome
<1>21. CASE UsageForcesTurnEnd
  BY <1>21 DEF UsageForcesTurnEnd, PassOutcomes, record_compaction_outcome
<1>22. CASE StopAfterTurn
  BY <1>22 DEF StopAfterTurn, Finish
<1>23. CASE PollSteering
  BY <1>23 DEF PollSteering
<1>24. CASE StopInterjected
  BY <1>24 DEF StopInterjected, Finish
<1>25. CASE HookFollowUp
  BY <1>25 DEF HookFollowUp
<1>26. CASE GateFollowUp
  BY <1>26 DEF GateFollowUp
<1>27. CASE Finalize
  BY <1>27 DEF Finalize, Finish
<1>28. CASE Terminated
  BY <1>28 DEF Terminated, vars
<1>29. CASE UNCHANGED vars
  BY <1>29 DEF vars
<1> QED
  BY <1>1, <1>2, <1>3, <1>4, <1>5, <1>6, <1>7, <1>8, <1>9, <1>10, <1>11,
     <1>12, <1>13, <1>14, <1>15, <1>16, <1>17, <1>18, <1>19, <1>20, <1>21,
     <1>22, <1>23, <1>24, <1>25, <1>26, <1>27, <1>28, <1>29
     DEF Next, LoopStep, Environment

\* Every step keeps the counters, the queues and the batch well typed.
LEMMA DataPreserved ==
  ASSUME DataOK, [Next]_vars
  PROVE  DataOK'
<1> USE LoopAssumption DEF DataOK, PcValues, control, compact, counters,
     batch, context, steering, signal, ending
<1>1. CASE UserTypes
  BY <1>1 DEF UserTypes
<1>2. CASE Interject
  BY <1>2 DEF Interject
<1>3. CASE Cancel
  BY <1>3 DEF Cancel
<1>4. CASE InitialPoll
  BY <1>4 DEF InitialPoll
<1>5. CASE BeginTurn
  BY <1>5 DEF BeginTurn
<1>6. CASE Iterate
  <2>1. delivered' \in SUBSET Nat
    BY <1>6, TypedType DEF Iterate
  <2>2. compaction_failures' \in Nat
    BY <1>6 DEF Iterate, PassOutcomes, record_compaction_outcome
  <2> QED
    BY <1>6, <2>1, <2>2 DEF Iterate
<1>7. CASE LeaveInner
  BY <1>7 DEF LeaveInner
<1>8. CASE OpenStream
  BY <1>8 DEF OpenStream
<1>9. CASE StreamAborted
  BY <1>9 DEF StreamAborted, Finish
<1>10. CASE StreamFailed
  BY <1>10 DEF StreamFailed, Finish
<1>11. CASE StreamRecovered
  BY <1>11 DEF StreamRecovered, NoCalls
<1>12. CASE StreamOverthought
  BY <1>12 DEF StreamOverthought, NoCalls
<1>13. CASE StreamAnswered
  BY <1>13 DEF StreamAnswered
<1>14. CASE DispatchNothing
  BY <1>14 DEF DispatchNothing
<1>15. CASE StormCorrects
  BY <1>15, AnswerType DEF StormCorrects
<1>16. CASE StormGivesUp
  BY <1>16, AnswerType DEF StormGivesUp
<1>17. CASE DispatchSurvivors
  BY <1>17 DEF DispatchSurvivors
<1>18. CASE ExecuteBatch
  <2>1. PICK done \in SUBSET tool_calls :
          answers' = backfill_missing_tool_results(
                       Answer(Answer(answers, done), blocked))
    BY <1>18 DEF ExecuteBatch, Answerable
  <2>2. answers' \in [Calls -> Nat]
    BY <2>1, AnswerType
  <2> QED
    BY <1>18, <2>2 DEF ExecuteBatch
<1>19. CASE UsageFine
  BY <1>19 DEF UsageFine
<1>20. CASE UsageFold
  BY <1>20 DEF UsageFold, PassOutcomes, record_compaction_outcome
<1>21. CASE UsageForcesTurnEnd
  BY <1>21 DEF UsageForcesTurnEnd, PassOutcomes, record_compaction_outcome
<1>22. CASE StopAfterTurn
  BY <1>22 DEF StopAfterTurn, Finish
<1>23. CASE PollSteering
  BY <1>23 DEF PollSteering
<1>24. CASE StopInterjected
  BY <1>24 DEF StopInterjected, Finish
<1>25. CASE HookFollowUp
  BY <1>25 DEF HookFollowUp
<1>26. CASE GateFollowUp
  BY <1>26 DEF GateFollowUp
<1>27. CASE Finalize
  BY <1>27 DEF Finalize, Finish
<1>28. CASE Terminated
  BY <1>28 DEF Terminated, vars
<1>29. CASE UNCHANGED vars
  BY <1>29 DEF vars
<1> QED
  BY <1>1, <1>2, <1>3, <1>4, <1>5, <1>6, <1>7, <1>8, <1>9, <1>10, <1>11,
     <1>12, <1>13, <1>14, <1>15, <1>16, <1>17, <1>18, <1>19, <1>20, <1>21,
     <1>22, <1>23, <1>24, <1>25, <1>26, <1>27, <1>28, <1>29
     DEF Next, LoopStep, Environment

\* The loop's variables keep their types, whatever the user, the provider
\* and the tools do.
THEOREM TypeCorrect == Spec => []TypeOK
<1>1. Init => TypeOK
  <2>1. Init => FlagsOK
    BY DEF Init, FlagsOK
  <2>2. Init => DataOK
    BY LoopAssumption DEF Init, DataOK, PcValues
  <2> QED
    BY <2>1, <2>2 DEF TypeOK
<1>2. TypeOK /\ [Next]_vars => TypeOK'
  BY FlagsPreserved, DataPreserved DEF TypeOK
<1> QED
  BY <1>1, <1>2, PTL DEF Spec

----------------------------------------------------------------------------
(* The turn budget.                                                        *)

\* Inductive form of TurnBudget: while the run can still make a request it
\* has at least one turn left.
BudgetInv ==
  /\ turns_taken <= MaxTurns + hooks + gates
  /\ pc \notin {"boundary", "ended"} => turns_taken < MaxTurns + hooks + gates

\* Every step keeps the turn budget; PollSteering and UsageForcesTurnEnd
\* are the ones that spend it.
LEMMA BudgetPreserved ==
  ASSUME DataOK, BudgetInv, [Next]_vars
  PROVE  BudgetInv'
<1> USE LoopAssumption DEF BudgetInv, DataOK, PcValues, control, compact,
     counters, batch, context, steering, signal, ending
<1>1. CASE UserTypes
  BY <1>1 DEF UserTypes
<1>2. CASE Interject
  BY <1>2 DEF Interject
<1>3. CASE Cancel
  BY <1>3 DEF Cancel
<1>4. CASE InitialPoll
  BY <1>4 DEF InitialPoll
<1>5. CASE BeginTurn
  BY <1>5 DEF BeginTurn
<1>6. CASE Iterate
  BY <1>6 DEF Iterate, PassOutcomes, record_compaction_outcome, Typed
<1>7. CASE LeaveInner
  BY <1>7 DEF LeaveInner
<1>8. CASE OpenStream
  BY <1>8 DEF OpenStream
<1>9. CASE StreamAborted
  BY <1>9 DEF StreamAborted, Finish
<1>10. CASE StreamFailed
  BY <1>10 DEF StreamFailed, Finish
<1>11. CASE StreamRecovered
  BY <1>11 DEF StreamRecovered, NoCalls
<1>12. CASE StreamOverthought
  BY <1>12 DEF StreamOverthought, NoCalls
<1>13. CASE StreamAnswered
  BY <1>13 DEF StreamAnswered
<1>14. CASE DispatchNothing
  BY <1>14 DEF DispatchNothing
<1>15. CASE StormCorrects
  BY <1>15 DEF StormCorrects
<1>16. CASE StormGivesUp
  BY <1>16 DEF StormGivesUp
<1>17. CASE DispatchSurvivors
  BY <1>17 DEF DispatchSurvivors
<1>18. CASE ExecuteBatch
  BY <1>18 DEF ExecuteBatch
<1>19. CASE UsageFine
  BY <1>19 DEF UsageFine
<1>20. CASE UsageFold
  BY <1>20 DEF UsageFold, PassOutcomes, record_compaction_outcome
<1>21. CASE UsageForcesTurnEnd
  BY <1>21 DEF UsageForcesTurnEnd, PassOutcomes, record_compaction_outcome
<1>22. CASE StopAfterTurn
  BY <1>22 DEF StopAfterTurn, Finish
<1>23. CASE PollSteering
  BY <1>23 DEF PollSteering
<1>24. CASE StopInterjected
  BY <1>24 DEF StopInterjected, Finish
<1>25. CASE HookFollowUp
  BY <1>25 DEF HookFollowUp
<1>26. CASE GateFollowUp
  BY <1>26 DEF GateFollowUp
<1>27. CASE Finalize
  BY <1>27 DEF Finalize, Finish
<1>28. CASE Terminated
  BY <1>28 DEF Terminated, vars
<1>29. CASE UNCHANGED vars
  BY <1>29 DEF vars
<1> QED
  BY <1>1, <1>2, <1>3, <1>4, <1>5, <1>6, <1>7, <1>8, <1>9, <1>10, <1>11,
     <1>12, <1>13, <1>14, <1>15, <1>16, <1>17, <1>18, <1>19, <1>20, <1>21,
     <1>22, <1>23, <1>24, <1>25, <1>26, <1>27, <1>28, <1>29
     DEF Next, LoopStep, Environment

\* For every cap and every number of follow-ups: the turns since the last
\* steering message stay within max_turns plus one for each follow-up that
\* re-opened a finished run.
THEOREM TurnBudgetHolds == Spec => []TurnBudget
<1>1. Init => BudgetInv
  BY LoopAssumption DEF Init, BudgetInv
<1>2. TypeOK /\ BudgetInv /\ [Next]_vars => BudgetInv'
  BY BudgetPreserved DEF TypeOK
<1>3. BudgetInv => TurnBudget
  BY DEF BudgetInv, TurnBudget, Requesting
<1> QED
  BY <1>1, <1>2, <1>3, TypeCorrect, PTL DEF Spec

----------------------------------------------------------------------------
(* The circuit breaker of the summarizer.                                  *)

\* Inductive form of OneStrikePerRound: a round that has recorded nothing
\* has added no strike.
StrikeInv ==
  /\ compaction_failures <= failures_before + 1
  /\ /\ pc \in {"request", "stream", "dispatch", "exec", "settle"}
     /\ ~compaction_recorded_this_iter
     => compaction_failures <= failures_before

\* Every step keeps it; Iterate, UsageFold and UsageForcesTurnEnd run passes.
LEMMA StrikePreserved ==
  ASSUME DataOK, StrikeInv, [Next]_vars
  PROVE  StrikeInv'
<1> USE LoopAssumption DEF StrikeInv, DataOK, PcValues, control, compact,
     counters, batch, context, steering, signal, ending
<1>1. CASE UserTypes
  BY <1>1 DEF UserTypes
<1>2. CASE Interject
  BY <1>2 DEF Interject
<1>3. CASE Cancel
  BY <1>3 DEF Cancel
<1>4. CASE InitialPoll
  BY <1>4 DEF InitialPoll
<1>5. CASE BeginTurn
  BY <1>5 DEF BeginTurn
<1>6. CASE Iterate
  BY <1>6 DEF Iterate, PassOutcomes, record_compaction_outcome, Typed
<1>7. CASE LeaveInner
  BY <1>7 DEF LeaveInner
<1>8. CASE OpenStream
  BY <1>8 DEF OpenStream
<1>9. CASE StreamAborted
  BY <1>9 DEF StreamAborted, Finish
<1>10. CASE StreamFailed
  BY <1>10 DEF StreamFailed, Finish
<1>11. CASE StreamRecovered
  BY <1>11 DEF StreamRecovered, NoCalls
<1>12. CASE StreamOverthought
  BY <1>12 DEF StreamOverthought, NoCalls
<1>13. CASE StreamAnswered
  BY <1>13 DEF StreamAnswered
<1>14. CASE DispatchNothing
  BY <1>14 DEF DispatchNothing
<1>15. CASE StormCorrects
  BY <1>15 DEF StormCorrects
<1>16. CASE StormGivesUp
  BY <1>16 DEF StormGivesUp
<1>17. CASE DispatchSurvivors
  BY <1>17 DEF DispatchSurvivors
<1>18. CASE ExecuteBatch
  BY <1>18 DEF ExecuteBatch
<1>19. CASE UsageFine
  BY <1>19 DEF UsageFine
<1>20. CASE UsageFold
  BY <1>20 DEF UsageFold, PassOutcomes, record_compaction_outcome
<1>21. CASE UsageForcesTurnEnd
  BY <1>21 DEF UsageForcesTurnEnd, PassOutcomes, record_compaction_outcome
<1>22. CASE StopAfterTurn
  BY <1>22 DEF StopAfterTurn, Finish
<1>23. CASE PollSteering
  BY <1>23 DEF PollSteering
<1>24. CASE StopInterjected
  BY <1>24 DEF StopInterjected, Finish
<1>25. CASE HookFollowUp
  BY <1>25 DEF HookFollowUp
<1>26. CASE GateFollowUp
  BY <1>26 DEF GateFollowUp
<1>27. CASE Finalize
  BY <1>27 DEF Finalize, Finish
<1>28. CASE Terminated
  BY <1>28 DEF Terminated, vars
<1>29. CASE UNCHANGED vars
  BY <1>29 DEF vars
<1> QED
  BY <1>1, <1>2, <1>3, <1>4, <1>5, <1>6, <1>7, <1>8, <1>9, <1>10, <1>11,
     <1>12, <1>13, <1>14, <1>15, <1>16, <1>17, <1>18, <1>19, <1>20, <1>21,
     <1>22, <1>23, <1>24, <1>25, <1>26, <1>27, <1>28, <1>29
     DEF Next, LoopStep, Environment

\* For every breaker limit: one round adds at most one strike, though it may
\* compact at its start and again at its end.
THEOREM OneStrikeHolds == Spec => []OneStrikePerRound
<1>1. Init => StrikeInv
  BY DEF Init, StrikeInv
<1>2. TypeOK /\ StrikeInv /\ [Next]_vars => StrikeInv'
  BY StrikePreserved DEF TypeOK
<1>3. StrikeInv => OneStrikePerRound
  BY DEF StrikeInv, OneStrikePerRound
<1> QED
  BY <1>1, <1>2, <1>3, TypeCorrect, PTL DEF Spec

----------------------------------------------------------------------------
(* Tool calls and their results.                                           *)

\* Inductive form of CallsAnsweredOnce: outside the handling of a batch each
\* call has its one result; inside, no call has one yet, and what is to be
\* run and what is refused are distinct calls of the turn.
AnsweredInv ==
  /\ pc \notin {"dispatch", "exec", "ended"}
       => \A c \in Calls : answers[c] = (IF c \in asked THEN 1 ELSE 0)
  /\ pc \in {"dispatch", "exec"}
       => /\ \A c \in Calls : answers[c] = 0
          /\ tool_calls \cap blocked = {}
          /\ tool_calls \cup blocked \subseteq asked
  /\ pc = "dispatch" => tool_calls = asked /\ blocked = {}

\* Every step keeps it: whatever the batch left out, the backfill adds.
LEMMA AnsweredPreserved ==
  ASSUME DataOK, AnsweredInv, [Next]_vars
  PROVE  AnsweredInv'
<1> USE LoopAssumption DEF AnsweredInv, DataOK, PcValues, control, compact,
     counters, batch, context, steering, signal, ending
<1>1. CASE UserTypes
  BY <1>1 DEF UserTypes
<1>2. CASE Interject
  BY <1>2 DEF Interject
<1>3. CASE Cancel
  BY <1>3 DEF Cancel
<1>4. CASE InitialPoll
  BY <1>4 DEF InitialPoll
<1>5. CASE BeginTurn
  BY <1>5 DEF BeginTurn
<1>6. CASE Iterate
  BY <1>6 DEF Iterate, PassOutcomes, record_compaction_outcome, Typed
<1>7. CASE LeaveInner
  BY <1>7 DEF LeaveInner
<1>8. CASE OpenStream
  BY <1>8 DEF OpenStream
<1>9. CASE StreamAborted
  BY <1>9 DEF StreamAborted, Finish
<1>10. CASE StreamFailed
  BY <1>10 DEF StreamFailed, Finish
<1>11. CASE StreamRecovered
  BY <1>11 DEF StreamRecovered, NoCalls
<1>12. CASE StreamOverthought
  BY <1>12 DEF StreamOverthought, NoCalls
<1>13. CASE StreamAnswered
  BY <1>13 DEF StreamAnswered
<1>14. CASE DispatchNothing
  BY <1>14 DEF DispatchNothing
<1>15. CASE StormCorrects
  BY <1>15 DEF StormCorrects, Answer, backfill_missing_tool_results
<1>16. CASE StormGivesUp
  BY <1>16 DEF StormGivesUp, backfill_missing_tool_results
<1>17. CASE DispatchSurvivors
  BY <1>17 DEF DispatchSurvivors
<1>18. CASE ExecuteBatch
  BY <1>18 DEF ExecuteBatch, Answerable, Answer, backfill_missing_tool_results
<1>19. CASE UsageFine
  BY <1>19 DEF UsageFine
<1>20. CASE UsageFold
  BY <1>20 DEF UsageFold, PassOutcomes, record_compaction_outcome
<1>21. CASE UsageForcesTurnEnd
  BY <1>21 DEF UsageForcesTurnEnd, PassOutcomes, record_compaction_outcome
<1>22. CASE StopAfterTurn
  BY <1>22 DEF StopAfterTurn, Finish
<1>23. CASE PollSteering
  BY <1>23 DEF PollSteering
<1>24. CASE StopInterjected
  BY <1>24 DEF StopInterjected, Finish
<1>25. CASE HookFollowUp
  BY <1>25 DEF HookFollowUp
<1>26. CASE GateFollowUp
  BY <1>26 DEF GateFollowUp
<1>27. CASE Finalize
  BY <1>27 DEF Finalize, Finish
<1>28. CASE Terminated
  BY <1>28 DEF Terminated, vars
<1>29. CASE UNCHANGED vars
  BY <1>29 DEF vars
<1> QED
  BY <1>1, <1>2, <1>3, <1>4, <1>5, <1>6, <1>7, <1>8, <1>9, <1>10, <1>11,
     <1>12, <1>13, <1>14, <1>15, <1>16, <1>17, <1>18, <1>19, <1>20, <1>21,
     <1>22, <1>23, <1>24, <1>25, <1>26, <1>27, <1>28, <1>29
     DEF Next, LoopStep, Environment

\* For every set of calls, every guard mode and every cancel: a request never
\* carries a call without its result, or with two.
THEOREM CallsAnsweredHolds == Spec => []CallsAnsweredOnce
<1>1. Init => AnsweredInv
  BY DEF Init, AnsweredInv
<1>2. TypeOK /\ AnsweredInv /\ [Next]_vars => AnsweredInv'
  BY AnsweredPreserved DEF TypeOK
<1>3. AnsweredInv => CallsAnsweredOnce
  BY DEF AnsweredInv, CallsAnsweredOnce, Requesting
<1> QED
  BY <1>1, <1>2, <1>3, TypeCorrect, PTL DEF Spec

\* Outside advisory mode no step puts a message between a call and its
\* result: what Iterate injects finds every call answered.
LEMMA NothingIntrudes ==
  ASSUME DataOK, AnsweredInv, ~intruded, GuardMode # "advisory", [Next]_vars
  PROVE  ~intruded'
<1> USE DEF control, compact, counters, batch, context, steering, signal,
            ending
<1>1. CASE Iterate
  <2>1. Unanswered = {}
    BY <1>1 DEF Iterate, AnsweredInv, Unanswered, DataOK
  <2> QED
    BY <1>1, <2>1 DEF Iterate
<1>2. CASE \/ StreamRecovered \/ StreamOverthought \/ StreamAnswered
  BY <1>2 DEF StreamRecovered, StreamOverthought, StreamAnswered, NoCalls
<1>3. CASE StormCorrects \/ StormGivesUp \/ DispatchNothing
  BY <1>3 DEF StormCorrects, StormGivesUp, DispatchNothing
<1>4. CASE DispatchSurvivors
  BY <1>4 DEF DispatchSurvivors
<1>5. CASE ExecuteBatch
  BY <1>5 DEF ExecuteBatch
<1>6. CASE \/ UserTypes \/ Interject \/ Cancel \/ InitialPoll \/ BeginTurn
           \/ LeaveInner \/ OpenStream
  BY <1>6 DEF UserTypes, Interject, Cancel, InitialPoll, BeginTurn,
              LeaveInner, OpenStream
<1>7. CASE \/ StreamAborted \/ StreamFailed \/ StopAfterTurn
           \/ StopInterjected \/ Finalize
  BY <1>7 DEF StreamAborted, StreamFailed, StopAfterTurn, StopInterjected,
              Finalize
<1>8. CASE UsageFine \/ UsageFold \/ UsageForcesTurnEnd
  BY <1>8 DEF UsageFine, UsageFold, UsageForcesTurnEnd
<1>9. CASE PollSteering \/ HookFollowUp \/ GateFollowUp
  BY <1>9 DEF PollSteering, HookFollowUp, GateFollowUp
<1>10. CASE Terminated \/ UNCHANGED vars
  BY <1>10 DEF Terminated, vars
<1> QED
  BY <1>1, <1>2, <1>3, <1>4, <1>5, <1>6, <1>7, <1>8, <1>9, <1>10
     DEF Next, LoopStep, Environment

\* For every set of calls and every cap: with the publish guard off or
\* blocking, run_loop never makes a request with a message between a tool
\* call and its result.
THEOREM ResultsFollowHolds ==
  ASSUME GuardMode # "advisory"
  PROVE  Spec => []ResultsFollowCalls
<1> DEFINE I == AnsweredInv /\ ~intruded
<1>1. Init => I
  BY DEF Init, AnsweredInv
<1>2. TypeOK /\ I /\ [Next]_vars => I'
  BY AnsweredPreserved, NothingIntrudes DEF TypeOK
<1>3. I => ResultsFollowCalls
  BY DEF ResultsFollowCalls
<1> QED
  BY <1>1, <1>2, <1>3, TypeCorrect, PTL DEF Spec

----------------------------------------------------------------------------
(* The user's steering messages.                                           *)

\* What Typed makes of an empty queue, of a follow-up and of a longer queue.
LEMMA TypedValues ==
  /\ Typed(<<>>) = {}
  /\ Typed(<<0>>) = {}
  /\ \A s \in Seq(Nat) : \A n \in Nat \ {0} :
       Typed(Append(s, n)) = Typed(s) \cup {n}
BY DEF Typed

\* Inductive form of FinishedRunsDropNoSteering: every message typed is in
\* the transcript, in the queue or pending, and nothing is overwritten while
\* it is pending unless the run was interjected.  Only the turn cap and an
\* interjection end a run with messages pending.
SteeringInv ==
  /\ 1..typed = delivered \cup Typed(queue) \cup Typed(pending_messages)
  /\ pc \notin {"outer", "head", "boundary", "ended"} => pending_messages = <<>>
  /\ pc = "boundary" => interjected \/ pending_messages = <<>>
  /\ why \notin {"running", "cap", "interjected"} => pending_messages = <<>>
  /\ pc = "ended" <=> why # "running"

\* Every step keeps it: what a poll drains is pending before it is injected.
LEMMA SteeringPreserved ==
  ASSUME DataOK, SteeringInv, [Next]_vars
  PROVE  SteeringInv'
<1> USE LoopAssumption DEF SteeringInv, DataOK, PcValues, control, compact,
     counters, batch, context, steering, signal, ending
<1>1. CASE UserTypes
  <2>1. Typed(queue') = Typed(queue) \cup {typed + 1}
    BY <1>1, TypedValues DEF UserTypes
  <2>2. 1..typed' = 1..typed \cup {typed + 1}
    BY <1>1 DEF UserTypes
  <2> QED
    BY <1>1, <2>1, <2>2 DEF UserTypes
<1>2. CASE Interject
  BY <1>2 DEF Interject
<1>3. CASE Cancel
  BY <1>3 DEF Cancel
<1>4. CASE InitialPoll
  BY <1>4, TypedValues DEF InitialPoll
<1>5. CASE BeginTurn
  BY <1>5 DEF BeginTurn
<1>6. CASE Iterate
  <2>1. /\ pc' = "request" /\ pending_messages' = <<>>
        /\ delivered' = delivered \cup Typed(pending_messages)
        /\ UNCHANGED <<typed, queue, why>>
        /\ pc = "head"
    BY <1>6 DEF Iterate
  <2> QED
    BY <2>1, TypedValues
<1>7. CASE LeaveInner
  BY <1>7 DEF LeaveInner, MoreWork
<1>8. CASE OpenStream
  BY <1>8 DEF OpenStream
<1>9. CASE StreamAborted
  BY <1>9 DEF StreamAborted, Finish
<1>10. CASE StreamFailed
  BY <1>10 DEF StreamFailed, Finish
<1>11. CASE StreamRecovered
  BY <1>11 DEF StreamRecovered, NoCalls
<1>12. CASE StreamOverthought
  BY <1>12 DEF StreamOverthought, NoCalls
<1>13. CASE StreamAnswered
  BY <1>13 DEF StreamAnswered
<1>14. CASE DispatchNothing
  BY <1>14 DEF DispatchNothing
<1>15. CASE StormCorrects
  BY <1>15 DEF StormCorrects
<1>16. CASE StormGivesUp
  BY <1>16 DEF StormGivesUp
<1>17. CASE DispatchSurvivors
  BY <1>17 DEF DispatchSurvivors
<1>18. CASE ExecuteBatch
  BY <1>18 DEF ExecuteBatch
<1>19. CASE UsageFine
  BY <1>19 DEF UsageFine
<1>20. CASE UsageFold
  BY <1>20 DEF UsageFold, PassOutcomes, record_compaction_outcome
<1>21. CASE UsageForcesTurnEnd
  BY <1>21 DEF UsageForcesTurnEnd, PassOutcomes, record_compaction_outcome
<1>22. CASE StopAfterTurn
  BY <1>22 DEF StopAfterTurn, Finish
<1>23. CASE PollSteering
  <2>1. pending_messages = <<>> /\ why = "running"
    BY <1>23 DEF PollSteering
  <2>2. /\ Typed(pending_messages') = Typed(queue)
        /\ Typed(queue') = {} /\ Typed(pending_messages) = {}
    BY <1>23, <2>1, TypedValues DEF PollSteering
  <2>3. pc' = "boundary" => interjected'
    BY <1>23 DEF PollSteering
  <2> QED
    BY <1>23, <2>1, <2>2, <2>3 DEF PollSteering
<1>24. CASE StopInterjected
  BY <1>24 DEF StopInterjected, Finish
<1>25. CASE HookFollowUp
  BY <1>25, TypedValues DEF HookFollowUp
<1>26. CASE GateFollowUp
  BY <1>26, TypedValues DEF GateFollowUp
<1>27. CASE Finalize
  BY <1>27 DEF Finalize, Finish
<1>28. CASE Terminated
  BY <1>28 DEF Terminated, vars
<1>29. CASE UNCHANGED vars
  BY <1>29 DEF vars
<1> QED
  BY <1>1, <1>2, <1>3, <1>4, <1>5, <1>6, <1>7, <1>8, <1>9, <1>10, <1>11,
     <1>12, <1>13, <1>14, <1>15, <1>16, <1>17, <1>18, <1>19, <1>20, <1>21,
     <1>22, <1>23, <1>24, <1>25, <1>26, <1>27, <1>28, <1>29
     DEF Next, LoopStep, Environment

\* For every number of messages: a run that finishes by its own decision has
\* shown the model each message it took off the user's queue.
THEOREM SteeringKept == Spec => []FinishedRunsDropNoSteering
<1>1. Init => SteeringInv
  BY TypedValues DEF Init, SteeringInv
<1>2. TypeOK /\ SteeringInv /\ [Next]_vars => SteeringInv'
  BY SteeringPreserved DEF TypeOK
<1>3. SteeringInv => FinishedRunsDropNoSteering
  BY TypedValues DEF SteeringInv, FinishedRunsDropNoSteering
<1> QED
  BY <1>1, <1>2, <1>3, TypeCorrect, PTL DEF Spec

\* What a run may lose of the user's typing, on every way it can end: the
\* messages it drained at the poll that hit the turn cap or met an
\* interjection, which are the pending ones.  Errors, the stop hook and a
\* finished run lose nothing.
LossIsPending ==
  pc = "ended" =>
    /\ 1..typed = delivered \cup Typed(queue) \cup Typed(pending_messages)
    /\ why \notin {"cap", "interjected"} =>
         1..typed = delivered \cup Typed(queue)

\* For every number of messages: where NoSteeringLost fails, the lost
\* messages are the batch drained last, and the run was capped or
\* interjected.
THEOREM SteeringLossIsPending == Spec => []LossIsPending
<1>1. Init => SteeringInv
  BY TypedValues DEF Init, SteeringInv
<1>2. TypeOK /\ SteeringInv /\ [Next]_vars => SteeringInv'
  BY SteeringPreserved DEF TypeOK
<1>3. SteeringInv => LossIsPending
  BY TypedValues DEF SteeringInv, LossIsPending
<1> QED
  BY <1>1, <1>2, <1>3, TypeCorrect, PTL DEF Spec

\* The user's messages among the pending ones; a follow-up is none of them.
PendingTyped ==
  IF pending_messages = <<0>> THEN 0 ELSE Len(pending_messages)

\* Inductive form of SteeringOrder: the messages typed so far are cut into
\* three stretches, those in the transcript, those pending, those queued.
OrderInv ==
  LET queued == typed - Len(queue) IN
    /\ PendingTyped <= queued
    /\ delivered = 1..(queued - PendingTyped)
    /\ \A i \in 1..Len(queue) : queue[i] = queued + i
    /\ \A i \in 1..PendingTyped :
         pending_messages[i] = queued - PendingTyped + i

\* The user's messages reach the model in the order they were typed, each of
\* them once, though two polls drain the queue, a follow-up may take the
\* place of what is pending and a recovered stream repeats the round: what
\* the transcript holds is always a prefix of what was typed.
SteeringOrder ==
  /\ \A m \in delivered : 1..m \subseteq delivered
  /\ Typed(pending_messages) \cap delivered = {}
  /\ Typed(queue) \cap (delivered \cup Typed(pending_messages)) = {}

\* The pending messages, unless they are a follow-up, are the stretch before
\* the queue.
LEMMA PendingStretch ==
  ASSUME DataOK, OrderInv, pending_messages # << 0 >>,
         PendingTyped \in 0..(typed - Len(queue))
  PROVE  Typed(pending_messages)
           = (typed - Len(queue) - PendingTyped + 1)..(typed - Len(queue))
<1> DEFINE low == typed - Len(queue) - PendingTyped
<1>1. /\ typed \in Nat /\ Len(queue) \in Nat /\ PendingTyped \in Nat
      /\ Len(pending_messages) = PendingTyped
      /\ low \in Nat /\ low + PendingTyped = typed - Len(queue)
  BY DEF DataOK, PendingTyped
<1>2. \A i \in 1..PendingTyped : pending_messages[i] = low + i
  BY DEF OrderInv
<1> HIDE DEF low
<1>3. \A m \in (low + 1)..(low + PendingTyped) :
        m - low \in 1..PendingTyped /\ m = pending_messages[m - low] /\ m # 0
  BY <1>1, <1>2
<1>4. Typed(pending_messages) = (low + 1)..(low + PendingTyped)
  BY <1>1, <1>2, <1>3 DEF Typed
<1> QED
  BY <1>1, <1>4 DEF low

\* Every step keeps the three stretches.
LEMMA OrderPreserved ==
  ASSUME DataOK, SteeringInv, OrderInv, [Next]_vars
  PROVE  OrderInv'
<1> USE LoopAssumption DEF control, compact, counters, batch, context,
     steering, signal, ending
<1>21. ASSUME UNCHANGED <<typed, queue, delivered, pending_messages>>
       PROVE  OrderInv'
  BY <1>21 DEF OrderInv, PendingTyped
<1>22. ASSUME pending_messages = <<>>, pending_messages' = queue,
              queue' = <<>>, UNCHANGED <<typed, delivered>>
       PROVE  OrderInv'
  <2>1. PendingTyped = 0
    BY <1>22 DEF PendingTyped
  <2>2. typed \in Nat /\ queue \in Seq(Nat) /\ Len(queue) \in Nat
        /\ Len(queue) <= typed
    BY <2>1 DEF DataOK, OrderInv
  <2>3. queue # << 0 >>
    <3>1. ASSUME Len(queue) = 1
          PROVE  queue[1] = typed /\ typed > 0
      BY <2>2, <3>1 DEF OrderInv
    <3>2. queue = << 0 >> => Len(queue) = 1 /\ queue[1] = 0
      OBVIOUS
    <3> QED
      BY <2>2, <3>1, <3>2
  <2>4. PendingTyped' = Len(queue) /\ Len(queue') = 0
    BY <1>22, <2>3 DEF PendingTyped
  <2> QED
    BY <1>22, <2>1, <2>2, <2>4 DEF OrderInv
<1>23. ASSUME pending_messages = <<>>, pending_messages' = << 0 >>,
              UNCHANGED <<typed, queue, delivered>>
       PROVE  OrderInv'
  <2>1. PendingTyped = 0 /\ PendingTyped' = 0
    BY <1>23 DEF PendingTyped
  <2> QED
    BY <1>23, <2>1 DEF OrderInv
<1>1. CASE UserTypes
  <2>1. /\ typed \in Nat /\ queue \in Seq(Nat) /\ Len(queue) \in Nat
        /\ Len(queue') = Len(queue) + 1 /\ typed' = typed + 1
        /\ \A i \in 1..Len(queue) : queue'[i] = queue[i]
        /\ queue'[Len(queue) + 1] = typed + 1
        /\ UNCHANGED <<pending_messages, delivered>>
    BY <1>1 DEF UserTypes, DataOK
  <2>2. PendingTyped' = PendingTyped
    BY <2>1 DEF PendingTyped
  <2>3. typed' - Len(queue') = typed - Len(queue)
    BY <2>1
  <2>4. \A i \in 1..Len(queue') : queue'[i] = typed' - Len(queue') + i
    <3> TAKE i \in 1..Len(queue')
    <3>1. CASE i \in 1..Len(queue)
      BY <2>1, <2>3, <3>1 DEF OrderInv
    <3>2. CASE i = Len(queue) + 1
      BY <2>1, <2>3, <3>2
    <3> QED
      BY <2>1, <3>1, <3>2
  <2> QED
    BY <2>1, <2>2, <2>3, <2>4 DEF OrderInv, PendingTyped
<1>2. CASE InitialPoll \/ PollSteering
  BY <1>2, <1>22 DEF InitialPoll, PollSteering, SteeringInv
<1>3. CASE Iterate
  <2>1. /\ typed \in Nat /\ Len(queue) \in Nat /\ typed - Len(queue) \in Nat
        /\ PendingTyped \in 0..(typed - Len(queue))
    BY DEF DataOK, OrderInv, PendingTyped
  <2>2. Typed(pending_messages)
          = (typed - Len(queue) - PendingTyped + 1)..(typed - Len(queue))
    <3>1. CASE pending_messages = <<0>>
      <4>1. PendingTyped = 0 /\ Typed(pending_messages) = {}
        BY <3>1, TypedValues DEF PendingTyped
      <4> QED
        BY <2>1, <4>1
    <3>2. CASE pending_messages # <<0>>
      BY <2>1, <3>2, PendingStretch
    <3> QED
      BY <3>1, <3>2
  <2>3. /\ delivered' = delivered \cup Typed(pending_messages)
        /\ pending_messages' = <<>> /\ UNCHANGED <<typed, queue>>
    BY <1>3 DEF Iterate
  <2>4. PendingTyped' = 0
    BY <2>3 DEF PendingTyped
  <2>5. delivered' = 1..(typed - Len(queue))
    BY <2>1, <2>2, <2>3 DEF OrderInv
  <2> QED
    BY <2>1, <2>3, <2>4, <2>5 DEF OrderInv
<1>4. CASE HookFollowUp \/ GateFollowUp
  BY <1>4, <1>23 DEF HookFollowUp, GateFollowUp, SteeringInv
<1>5. CASE Interject \/ Cancel \/ BeginTurn \/ LeaveInner \/ OpenStream
  BY <1>5, <1>21 DEF Interject, Cancel, BeginTurn, LeaveInner, OpenStream
<1>6. CASE \/ StreamAborted \/ StreamFailed \/ StreamRecovered
           \/ StreamOverthought \/ StreamAnswered
  BY <1>6, <1>21 DEF StreamAborted, StreamFailed, StreamRecovered,
     StreamOverthought, StreamAnswered
<1>7. CASE \/ DispatchNothing \/ StormCorrects \/ StormGivesUp
           \/ DispatchSurvivors \/ ExecuteBatch
  BY <1>7, <1>21 DEF DispatchNothing, StormCorrects, StormGivesUp,
     DispatchSurvivors, ExecuteBatch
<1>8. CASE UsageFine \/ UsageFold \/ UsageForcesTurnEnd
  BY <1>8, <1>21 DEF UsageFine, UsageFold, UsageForcesTurnEnd
<1>9. CASE StopAfterTurn \/ StopInterjected \/ Finalize
  BY <1>9, <1>21 DEF StopAfterTurn, StopInterjected, Finalize
<1>10. CASE Terminated \/ UNCHANGED vars
  BY <1>10, <1>21 DEF Terminated, vars
<1> QED
  BY <1>1, <1>2, <1>3, <1>4, <1>5, <1>6, <1>7, <1>8, <1>9, <1>10
     DEF Next, LoopStep, Environment

\* For every number of messages and every cap: steering is injected in the
\* order it was typed, and never twice.
THEOREM SteeringStaysInOrder == Spec => []SteeringOrder
<1> DEFINE I == SteeringInv /\ OrderInv
<1>1. Init => I
  BY TypedValues DEF Init, SteeringInv, OrderInv, PendingTyped
<1>2. TypeOK /\ I /\ [Next]_vars => I'
  BY SteeringPreserved, OrderPreserved DEF TypeOK
<1>3. TypeOK /\ OrderInv => SteeringOrder
  <2> SUFFICES ASSUME TypeOK, OrderInv
               PROVE  SteeringOrder
    OBVIOUS
  <2>1. /\ typed \in Nat /\ Len(queue) \in Nat /\ typed - Len(queue) \in Nat
        /\ PendingTyped \in 0..(typed - Len(queue))
    BY DEF TypeOK, DataOK, OrderInv, PendingTyped
  <2>2. \A m \in Typed(queue) : m > typed - Len(queue)
    BY <2>1 DEF OrderInv, Typed
  <2>3. \A m \in Typed(pending_messages) :
          m > typed - Len(queue) - PendingTyped /\ m <= typed - Len(queue)
    <3>1. CASE pending_messages = <<0>>
      BY <3>1, TypedValues
    <3>2. CASE pending_messages # <<0>>
      BY <2>1, <3>2, PendingStretch DEF TypeOK
    <3> QED
      BY <3>1, <3>2
  <2>4. delivered = 1..(typed - Len(queue) - PendingTyped)
    BY DEF OrderInv
  <2>5. \A m \in Typed(pending_messages) \cup Typed(queue) : m \in Nat
    BY TypedType DEF TypeOK, DataOK
  <2> QED
    BY <2>1, <2>2, <2>3, <2>4, <2>5 DEF SteeringOrder
<1> QED
  BY <1>1, <1>2, <1>3, TypeCorrect, PTL DEF Spec

----------------------------------------------------------------------------
(* Termination.  Storms, errors, compaction, follow-ups and steering each  *)
(* send the loop round again; every one of them is paid for.               *)

\* Messages the user has still to type, or the loop still to drain.
MessagesLeft == (MaxSteers - typed) + Len(queue)

FollowUpsLeft == (MaxHooks - hooks) + (GateBudget - gates)

TurnsLeft == MaxTurns + hooks + gates - turns_taken

\* One before the model has answered in this turn of the loop, zero after.
AnswerDue ==
  IF pc \in {"start", "outer", "head", "request", "stream", "boundary"}
    THEN 1 ELSE 0

BreakerLeft == IF thinking_tripped THEN 0 ELSE 1

RecoveriesLeft == MAX_TRANSIENT_RECOVERIES - transient_recoveries

PlaceOf(p) ==
  [start |-> 9, outer |-> 8, head |-> 7, request |-> 6, stream |-> 5,
   dispatch |-> 4, exec |-> 3, settle |-> 2, hooks |-> 1, boundary |-> 1,
   ended |-> 0][p]

PlacesLeft == PlaceOf(pc)

\* What the loop has left, the dearest first: spending one entry may refill
\* the ones to its right and no other.
Left == <<MessagesLeft, FollowUpsLeft, TurnsLeft, AnswerDue, BreakerLeft,
          RecoveriesLeft, PlacesLeft>>

LeftOK == Left \in [1..7 -> Nat]

\* Each place of the loop has its number.
LEMMA Places ==
  /\ PlaceOf("start") = 9 /\ PlaceOf("outer") = 8 /\ PlaceOf("head") = 7
  /\ PlaceOf("request") = 6 /\ PlaceOf("stream") = 5
  /\ PlaceOf("dispatch") = 4 /\ PlaceOf("exec") = 3 /\ PlaceOf("settle") = 2
  /\ PlaceOf("hooks") = 1 /\ PlaceOf("boundary") = 1 /\ PlaceOf("ended") = 0
BY DEF PlaceOf

\* The counters that stand behind it stay within their limits.
LimitsInv ==
  /\ typed <= MaxSteers /\ hooks <= MaxHooks /\ gates <= GateBudget
  /\ transient_recoveries <= MAX_TRANSIENT_RECOVERIES

\* Every step keeps the counters within their limits.
LEMMA LimitsPreserved ==
  ASSUME DataOK, LimitsInv, [Next]_vars
  PROVE  LimitsInv'
<1> USE LoopAssumption DEF LimitsInv, DataOK, control, compact, counters,
     batch, context, steering, signal, ending
<1>1. CASE UserTypes \/ Interject \/ Cancel \/ InitialPoll \/ BeginTurn
  BY <1>1 DEF UserTypes, Interject, Cancel, InitialPoll, BeginTurn
<1>2. CASE Iterate \/ LeaveInner \/ OpenStream
  BY <1>2 DEF Iterate, LeaveInner, OpenStream
<1>3. CASE \/ StreamAborted \/ StreamFailed \/ StreamRecovered
           \/ StreamOverthought \/ StreamAnswered
  BY <1>3 DEF StreamAborted, StreamFailed, StreamRecovered,
              StreamOverthought, StreamAnswered, Finish
<1>4. CASE \/ DispatchNothing \/ StormCorrects \/ StormGivesUp
           \/ DispatchSurvivors \/ ExecuteBatch
  BY <1>4 DEF DispatchNothing, StormCorrects, StormGivesUp,
              DispatchSurvivors, ExecuteBatch
<1>5. CASE UsageFine \/ UsageFold \/ UsageForcesTurnEnd
  BY <1>5 DEF UsageFine, UsageFold, UsageForcesTurnEnd
<1>6. CASE StopAfterTurn \/ PollSteering \/ StopInterjected \/ Finalize
  BY <1>6 DEF StopAfterTurn, PollSteering, StopInterjected, Finalize, Finish
<1>7. CASE HookFollowUp \/ GateFollowUp
  BY <1>7 DEF HookFollowUp, GateFollowUp
<1>8. CASE Terminated \/ UNCHANGED vars
  BY <1>8 DEF Terminated, vars
<1> QED
  BY <1>1, <1>2, <1>3, <1>4, <1>5, <1>6, <1>7, <1>8
     DEF Next, LoopStep, Environment

\* Within the limits, what is left is a tuple of natural numbers.
LEMMA LeftType ==
  ASSUME DataOK, BudgetInv, LimitsInv
  PROVE  /\ LeftOK
         /\ MessagesLeft \in Nat /\ FollowUpsLeft \in Nat /\ TurnsLeft \in Nat
         /\ RecoveriesLeft \in Nat /\ PlacesLeft \in Nat
<1> USE LoopAssumption DEF DataOK, BudgetInv, LimitsInv
<1>1. MessagesLeft \in Nat
  BY DEF MessagesLeft
<1>2. FollowUpsLeft \in Nat
  BY DEF FollowUpsLeft
<1>3. TurnsLeft \in Nat
  BY DEF TurnsLeft
<1>4. RecoveriesLeft \in Nat
  BY DEF RecoveriesLeft
<1>5. PlacesLeft \in Nat
  BY Places DEF PlacesLeft, PcValues
<1>6. AnswerDue \in Nat /\ BreakerLeft \in Nat
  BY DEF AnswerDue, BreakerLeft
<1> QED
  BY <1>1, <1>2, <1>3, <1>4, <1>5, <1>6 DEF LeftOK, Left

\* The entries before the j-th are as they were.
Keeps(j) ==
  /\ j > 1 => MessagesLeft' = MessagesLeft
  /\ j > 2 => FollowUpsLeft' = FollowUpsLeft
  /\ j > 3 => TurnsLeft' = TurnsLeft
  /\ j > 4 => AnswerDue' = AnswerDue
  /\ j > 5 => BreakerLeft' = BreakerLeft
  /\ j > 6 => RecoveriesLeft' = RecoveriesLeft

\* The tuple goes down when an entry does and those before it stay.
LEMMA LeftFalls ==
  ASSUME LeftOK, LeftOK', NEW j \in 1..7, Keeps(j), Left'[j] < Left[j]
  PROVE  <<Left', Left>> \in Lex(7)
<1>1. \A i \in 1..(j-1) : Left'[i] = Left[i]
  <2> TAKE i \in 1..(j-1)
  <2>1. i \in {1, 2, 3, 4, 5, 6}
    OBVIOUS
  <2>2. /\ Left[1] = MessagesLeft /\ Left[2] = FollowUpsLeft
        /\ Left[3] = TurnsLeft /\ Left[4] = AnswerDue
        /\ Left[5] = BreakerLeft /\ Left[6] = RecoveriesLeft
    BY DEF Left
  <2>3. /\ Left'[1] = MessagesLeft' /\ Left'[2] = FollowUpsLeft'
        /\ Left'[3] = TurnsLeft' /\ Left'[4] = AnswerDue'
        /\ Left'[5] = BreakerLeft' /\ Left'[6] = RecoveriesLeft'
    BY DEF Left
  <2> QED
    BY <2>1, <2>2, <2>3 DEF Keeps
<1> QED
  BY <1>1, LexAt DEF LeftOK

\* A step of the loop spends something it has left: a message, a follow-up,
\* a turn, the wait for an answer, the breaker, a recovery, or its place.
LEMMA LoopSpends ==
  ASSUME DataOK, LimitsInv, LeftOK, LeftOK', LoopStep
  PROVE  <<Left', Left>> \in Lex(7)
<1> SUFFICES \E j \in 1..7 : Keeps(j) /\ Left'[j] < Left[j]
  BY LeftFalls
<1> USE LoopAssumption DEF DataOK, control, compact, counters, batch,
     context, steering, signal, ending
<1>21. ASSUME MessagesLeft' < MessagesLeft
       PROVE  Keeps(1) /\ Left'[1] < Left[1]
  BY <1>21 DEF Keeps, Left
<1>22. ASSUME UNCHANGED <<typed, queue>>
       PROVE  MessagesLeft' = MessagesLeft
  BY <1>22 DEF MessagesLeft
<1>23. ASSUME UNCHANGED <<typed, queue>>, FollowUpsLeft' < FollowUpsLeft
       PROVE  Keeps(2) /\ Left'[2] < Left[2]
  BY <1>22, <1>23 DEF Keeps, Left
<1>24. ASSUME UNCHANGED <<typed, queue, hooks, gates>>,
              turns_taken' = turns_taken + 1
       PROVE  Keeps(3) /\ Left'[3] < Left[3]
  BY <1>22, <1>24 DEF Keeps, Left, FollowUpsLeft, TurnsLeft
<1>25. ASSUME UNCHANGED <<typed, queue, hooks, gates, turns_taken>>,
              AnswerDue = 1, AnswerDue' = 0
       PROVE  Keeps(4) /\ Left'[4] < Left[4]
  BY <1>22, <1>25 DEF Keeps, Left, FollowUpsLeft, TurnsLeft
<1>26. ASSUME UNCHANGED <<typed, queue, hooks, gates, turns_taken>>,
              AnswerDue' = AnswerDue, ~thinking_tripped, thinking_tripped'
       PROVE  Keeps(5) /\ Left'[5] < Left[5]
  BY <1>22, <1>26 DEF Keeps, Left, FollowUpsLeft, TurnsLeft, BreakerLeft
<1>27. ASSUME UNCHANGED <<typed, queue, hooks, gates, turns_taken,
                          thinking_tripped>>,
              AnswerDue' = AnswerDue, RecoveriesLeft' < RecoveriesLeft
       PROVE  Keeps(6) /\ Left'[6] < Left[6]
  BY <1>22, <1>27 DEF Keeps, Left, FollowUpsLeft, TurnsLeft, BreakerLeft
<1>28. ASSUME UNCHANGED <<typed, queue, hooks, gates, turns_taken,
                          thinking_tripped, transient_recoveries>>,
              AnswerDue' = AnswerDue, PlacesLeft' < PlacesLeft
       PROVE  Keeps(7) /\ Left'[7] < Left[7]
  BY <1>22, <1>28
     DEF Keeps, Left, FollowUpsLeft, TurnsLeft, BreakerLeft, RecoveriesLeft
<1>29. ASSUME queue # <<>>, queue' = <<>>, UNCHANGED typed
       PROVE  MessagesLeft' < MessagesLeft
  BY <1>29 DEF MessagesLeft, LimitsInv
<1>1. CASE InitialPoll
  <2>1. CASE queue = <<>>
    <3>1. AnswerDue' = AnswerDue /\ PlacesLeft' < PlacesLeft
      BY <1>1, Places DEF InitialPoll, AnswerDue, PlacesLeft
    <3> QED
      BY <1>1, <1>28, <2>1, <3>1 DEF InitialPoll
  <2>2. CASE queue # <<>>
    BY <1>1, <1>21, <1>29, <2>2 DEF InitialPoll
  <2> QED
    BY <2>1, <2>2
<1>2. CASE BeginTurn \/ Iterate \/ LeaveInner \/ OpenStream
  <2>1. AnswerDue' = AnswerDue /\ PlacesLeft' < PlacesLeft
    BY <1>2, Places DEF BeginTurn, Iterate, LeaveInner, OpenStream,
       AnswerDue, PlacesLeft
  <2>2. UNCHANGED <<typed, queue, hooks, gates, turns_taken,
                    thinking_tripped, transient_recoveries>>
    BY <1>2 DEF BeginTurn, Iterate, LeaveInner, OpenStream
  <2> QED
    BY <1>28, <2>1, <2>2
<1>3. CASE StreamAborted \/ StreamFailed \/ StreamAnswered
  <2>1. AnswerDue = 1 /\ AnswerDue' = 0
    BY <1>3 DEF StreamAborted, StreamFailed, StreamAnswered, Finish,
       AnswerDue
  <2>2. UNCHANGED <<typed, queue, hooks, gates, turns_taken>>
    BY <1>3 DEF StreamAborted, StreamFailed, StreamAnswered, Finish
  <2> QED
    BY <1>25, <2>1, <2>2
<1>4. CASE StreamRecovered
  <2>1. AnswerDue' = AnswerDue /\ RecoveriesLeft' < RecoveriesLeft
    BY <1>4 DEF StreamRecovered, AnswerDue, RecoveriesLeft
  <2> QED
    BY <1>4, <1>27, <2>1 DEF StreamRecovered
<1>5. CASE StreamOverthought
  <2>1. AnswerDue' = AnswerDue
    BY <1>5 DEF StreamOverthought, AnswerDue
  <2> QED
    BY <1>5, <1>26, <2>1 DEF StreamOverthought
<1>6. CASE \/ DispatchNothing \/ StormCorrects \/ StormGivesUp
           \/ DispatchSurvivors \/ ExecuteBatch \/ UsageFine \/ UsageFold
           \/ StopAfterTurn
  <2>1. \/ pc = "dispatch" /\ pc' \in {"exec", "settle"}
        \/ pc = "exec" /\ pc' = "settle"
        \/ pc = "settle" /\ pc' = "hooks"
        \/ pc = "hooks" /\ pc' = "ended"
    BY <1>6 DEF DispatchNothing, StormCorrects, StormGivesUp,
       DispatchSurvivors, ExecuteBatch, UsageFine, UsageFold, StopAfterTurn,
       Finish
  <2>2. AnswerDue' = AnswerDue /\ PlacesLeft' < PlacesLeft
    BY <2>1, Places DEF AnswerDue, PlacesLeft
  <2>3. UNCHANGED <<typed, queue, hooks, gates, turns_taken,
                    thinking_tripped, transient_recoveries>>
    BY <1>6 DEF DispatchNothing, StormCorrects, StormGivesUp,
       DispatchSurvivors, ExecuteBatch, UsageFine, UsageFold, StopAfterTurn,
       Finish
  <2> QED
    BY <1>28, <2>2, <2>3
<1>7. CASE UsageForcesTurnEnd
  BY <1>7, <1>24 DEF UsageForcesTurnEnd
<1>8. CASE PollSteering
  <2>1. CASE queue = <<>>
    BY <1>8, <1>24, <2>1 DEF PollSteering
  <2>2. CASE queue # <<>>
    BY <1>8, <1>21, <1>29, <2>2 DEF PollSteering
  <2> QED
    BY <2>1, <2>2
<1>9. CASE StopInterjected \/ Finalize
  <2>1. AnswerDue = 1 /\ AnswerDue' = 0
    BY <1>9 DEF StopInterjected, Finalize, Finish, AnswerDue
  <2> QED
    BY <1>9, <1>25, <2>1 DEF StopInterjected, Finalize, Finish
<1>10. CASE HookFollowUp \/ GateFollowUp
  <2>1. \/ hooks' = hooks + 1 /\ gates' = gates
        \/ gates' = gates + 1 /\ hooks' = hooks
    BY <1>10 DEF HookFollowUp, GateFollowUp
  <2>2. FollowUpsLeft' < FollowUpsLeft
    BY <2>1 DEF FollowUpsLeft
  <2> QED
    BY <1>10, <1>23, <2>2 DEF HookFollowUp, GateFollowUp
<1> QED
  BY <1>1, <1>2, <1>3, <1>4, <1>5, <1>6, <1>7, <1>8, <1>9, <1>10 DEF LoopStep

\* The keyboard and the two forwarders give the loop nothing to do that was
\* not counted.
LEMMA OthersSpendNothing ==
  ASSUME DataOK, LimitsInv, Environment
  PROVE  Left' = Left
<1> USE DEF control, compact, counters, batch, context, steering, signal,
     ending
<1>1. MessagesLeft' = MessagesLeft
  <2>1. CASE UserTypes
    <3>1. Len(queue') = Len(queue) + 1 /\ typed' = typed + 1
      BY <2>1 DEF UserTypes, DataOK
    <3> QED
      BY <3>1, LoopAssumption DEF MessagesLeft, DataOK
  <2>2. CASE Interject \/ Cancel
    BY <2>2 DEF Interject, Cancel, MessagesLeft
  <2> QED
    BY <2>1, <2>2 DEF Environment
<1>2. UNCHANGED <<pc, hooks, gates, turns_taken, thinking_tripped,
                  transient_recoveries>>
  BY DEF Environment, UserTypes, Interject, Cancel
<1> QED
  BY <1>1, <1>2 DEF Left, FollowUpsLeft, TurnsLeft, AnswerDue, BreakerLeft,
     RecoveriesLeft, PlacesLeft

\* For every cap and every bound, run_loop runs out of steps: each step of
\* the loop lowers the same well-founded tuple, and what the user and the
\* forwarders do in between leaves it as it is.  With the fairness of Spec
\* this is why a run ends.
THEOREM LoopRunsOut ==
  /\ IsWellFoundedOn(Lex(7), [1..7 -> Nat])
  /\ Spec => []LeftOK
  /\ Spec => [][LoopStep => <<Left', Left>> \in Lex(7)]_vars
  /\ Spec => [][Environment => Left' = Left]_vars
<1> DEFINE I == BudgetInv /\ LimitsInv
<1>1. Init => I
  BY LoopAssumption DEF Init, BudgetInv, LimitsInv
<1>2. TypeOK /\ I /\ [Next]_vars => I'
  BY BudgetPreserved, LimitsPreserved DEF TypeOK
<1>3. Spec => []I
  BY <1>1, <1>2, TypeCorrect, PTL DEF Spec
<1>4. TypeOK /\ I => LeftOK
  BY LeftType DEF TypeOK
<1>5. TypeOK /\ I /\ LeftOK /\ LeftOK' /\ [Next]_vars
        => [LoopStep => <<Left', Left>> \in Lex(7)]_vars
  BY LoopSpends DEF TypeOK
<1>6. TypeOK /\ I /\ [Next]_vars => [Environment => Left' = Left]_vars
  BY OthersSpendNothing DEF TypeOK
<1>7. Spec => []LeftOK
  BY <1>3, <1>4, TypeCorrect, PTL
<1>8. Spec => [][LoopStep => <<Left', Left>> \in Lex(7)]_vars
  BY <1>3, <1>5, <1>7, TypeCorrect, PTL DEF Spec
<1>9. Spec => [][Environment => Left' = Left]_vars
  BY <1>3, <1>6, TypeCorrect, PTL DEF Spec
<1>10. IsWellFoundedOn(Lex(7), [1..7 -> Nat])
  BY LexIsWellFounded
<1> QED
  BY <1>7, <1>8, <1>9, <1>10

=============================================================================
