----------------------------- MODULE ToolBatch -----------------------------
(***************************************************************************)
(* One dispatched batch of tool calls, seen from the turn loop: the loop   *)
(* hands over N calls and gets their results back in one piece, or is torn *)
(* down while it waits.                                                    *)
(***************************************************************************)
EXTENDS Naturals, Sequences, BatchContract

CONSTANT N      \* calls in the batch, numbered in source order

VARIABLES
  phase,        \* "open" while the loop waits for the batch
  results,      \* the calls answered, in the order of the result messages
  cancelled     \* the run's AbortSignal

batchVars == <<phase, results, cancelled>>

InSourceOrder(k) == [i \in 1..k |-> i]

BatchInit == phase = "open" /\ results = <<>> /\ cancelled = FALSE

CancelRun ==
  /\ cancelled' = TRUE
  /\ UNCHANGED <<phase, results>>

\* The results come back together, in source order, each call at most once.
ReturnResults ==
  /\ phase = "open"
  /\ \E k \in 0..N :
       /\ 1..k \in Answerable(1..N, cancelled)
       /\ results' = InSourceOrder(k)
  /\ phase' = "returned"
  /\ UNCHANGED cancelled

\* The run's task is aborted or unwinds: nothing is returned.
TearDown ==
  /\ phase = "open"
  /\ phase' = "dropped"
  /\ UNCHANGED <<results, cancelled>>

BatchNext == CancelRun \/ ReturnResults \/ TearDown

BatchSpec == BatchInit /\ [][BatchNext]_batchVars

============================================================================
