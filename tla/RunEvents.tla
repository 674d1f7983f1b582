----------------------------- MODULE RunEvents -----------------------------
(***************************************************************************)
(* What one agent run promises its consumer: the AgentEvents of the run in *)
(* the order they enter the event channel.  At most one of them ends the   *)
(* run, only a checkpoint refresh may come after it, a run that dies in    *)
(* silence may speak one last Error, and nothing follows the closing of    *)
(* the channel.                                                            *)
(***************************************************************************)
EXTENDS Naturals, Sequences

VARIABLES
  sent,    \* every event that entered the channel, oldest first
  closed   \* the run's task is gone and with it the last sender

\* The four variants is_terminal names.
Terminal == {"Done", "Error", "Interjected", "ContextOverflow"}

Settled == \E i \in 1..Len(sent) : sent[i] \in Terminal

Init == sent = <<>> /\ closed = FALSE

\* Text, tool calls, notices.
Emit ==
  /\ ~closed /\ ~Settled
  /\ sent' = Append(sent, "Progress")
  /\ UNCHANGED closed

\* The summary of a checkpoint taken during the run.
Refresh ==
  /\ ~closed
  /\ sent' = Append(sent, "Refresh")
  /\ UNCHANGED closed

\* The run says how it ended.
Report ==
  /\ ~closed /\ ~Settled
  /\ \E e \in Terminal : sent' = Append(sent, e)
  /\ UNCHANGED closed

\* The task ends; the epitaph speaks only for a run that has not reported.
Close ==
  /\ ~closed
  /\ closed' = TRUE
  /\ \/ UNCHANGED sent
     \/ ~Settled /\ sent' = Append(sent, "Error")

Next == Emit \/ Refresh \/ Report \/ Close

Spec == Init /\ [][Next]_<<sent, closed>>
=============================================================================
