------------------------------ MODULE RunPipe ------------------------------
(***************************************************************************)
(* One agent run as its consumer sees it: the task that spawn_loop_runner  *)
(* starts.  The loop and the pump share that task, the loop's LoopEvents   *)
(* reach the pump over a bounded channel, the pump turns them into         *)
(* AgentEvents on a second bounded channel, and the RunEpitaph speaks when *)
(* the task is dropped before a terminal event went out.  A detached       *)
(* checkpoint task writes one late LoopEvent through a weak sender.        *)
(*                                                                         *)
(* Tokio's channels are FIFO also in who waits for room: `waiting` holds   *)
(* the messages of blocked senders in the order they queued.               *)
(***************************************************************************)
EXTENDS Naturals, Sequences

CONSTANTS
  InnerCap,       \* capacity of the loop's channel (256 in the code)
  OuterCap,       \* event_channel_capacity
  MaxProgress,    \* bound: LoopEvents the loop emits before it ends
  ConsumerLeaves  \* the consumer may drop its receiver and abort nothing

ASSUME PipeAssumption ==
  /\ InnerCap \in Nat \ {0}
  /\ OuterCap \in Nat \ {0}
  /\ MaxProgress \in Nat
  /\ ConsumerLeaves \in BOOLEAN

VARIABLES
  task,        \* "live", then "dropped"
  loop,        \* "running", then "returned" (its sender is dropped)
  progress,    \* LoopEvents emitted before AgentEnd
  refresh,     \* the checkpoint task: "working", "upgraded", "finished"
  inner,       \* the loop's channel
  waiting,     \* messages of senders that wait for room in it
  pump,        \* "pumping", then "returned"
  held,        \* the AgentEvent the pump is sending; "none" between events
  settled,     \* RunSettled
  sent,        \* every AgentEvent that entered the event channel
  read,        \* how many of them the consumer has taken
  rx,          \* the consumer's receiver: "open" or "dropped"
  aborted      \* the consumer has called JoinHandle::abort

producer == <<loop, progress>>
channel  == <<inner, waiting>>
pumping  == <<pump, held, settled>>
consumer == <<read, rx, aborted>>

vars == <<task, producer, refresh, channel, pumping, sent, consumer>>

Terminal == {"Done", "Error", "Interjected", "ContextOverflow"}

HasRoom == Len(sent) - read < OuterCap
Heard == \E i \in 1..Len(sent) : sent[i] \in Terminal

Init ==
  /\ task = "live" /\ loop = "running" /\ progress = 0
  /\ refresh = "working"
  /\ inner = <<>> /\ waiting = <<>>
  /\ pump = "pumping" /\ held = "none" /\ settled = FALSE
  /\ sent = <<>> /\ read = 0 /\ rx = "open" /\ aborted = FALSE

----------------------------------------------------------------------------
(* The loop's channel.                                                     *)

\* Mutant: a sender never waits.
Send_unbounded(m) == inner' = Append(inner, m) /\ UNCHANGED waiting

\* mpsc::Sender::send: at once when there is room and nobody waits for it,
\* else the sender queues.
Send(m) ==
  IF Len(inner) < InnerCap /\ waiting = <<>>
    THEN inner' = Append(inner, m) /\ UNCHANGED waiting
    ELSE waiting' = Append(waiting, m) /\ UNCHANGED inner

Blocked(ms) == \E i \in 1..Len(waiting) : waiting[i] \in ms

\* Room again: the sender that has waited longest goes first.
WaiterSends ==
  /\ task = "live" /\ waiting # <<>> /\ Len(inner) < InnerCap
  /\ inner' = Append(inner, Head(waiting))
  /\ waiting' = Tail(waiting)
  /\ loop' = IF Head(waiting) = "end" THEN "returned" ELSE loop
  /\ refresh' = IF Head(waiting) = "refresh" THEN "finished" ELSE refresh
  /\ UNCHANGED <<task, progress, pumping, sent, consumer>>

\* run_agent_loop emits an event.
LoopEmits ==
  /\ task = "live" /\ loop = "running" /\ ~Blocked({"progress", "end"})
  /\ progress < MaxProgress
  /\ progress' = progress + 1
  /\ Send("progress")
  /\ UNCHANGED <<task, loop, refresh, pumping, sent, consumer>>

\* Mutant: the loop says AgentEnd and does not return.
LoopEnds_goes_on ==
  /\ task = "live" /\ loop = "running" /\ ~Blocked({"progress", "end"})
  /\ Send("end")
  /\ UNCHANGED <<task, loop, progress, refresh, pumping, sent, consumer>>

\* AgentEnd, its last event, is in: run_agent_loop returns and drops loop_tx.
LoopEnds ==
  /\ task = "live" /\ loop = "running" /\ ~Blocked({"progress", "end"})
  /\ Send("end")
  /\ loop' = IF waiting' = waiting THEN "returned" ELSE loop
  /\ UNCHANGED <<task, progress, refresh, pumping, sent, consumer>>

\* The checkpoint summary is done.  Upgrading the weak sender fails once the
\* run's own sender is gone.
RefreshUpgrades ==
  /\ refresh = "working"
  /\ IF task = "live" /\ loop = "running"
       THEN /\ Send("refresh")
            /\ refresh' = IF waiting' = waiting THEN "finished" ELSE "upgraded"
       ELSE refresh' = "finished" /\ UNCHANGED channel
  /\ UNCHANGED <<task, producer, pumping, sent, consumer>>

----------------------------------------------------------------------------
(* The pump and the end of the task.                                       *)

\* The bridge turns a LoopEvent into an AgentEvent or into nothing; AgentEnd
\* becomes the terminal event that fits the last assistant message.
translate(m) ==
  [progress |-> {"Progress", "none"}, refresh |-> {"Refresh"},
   end |-> Terminal][m]

\* Mutant: a terminal event settles the run before it is delivered.
PumpTakes_settles ==
  /\ task = "live" /\ pump = "pumping" /\ held = "none" /\ inner # <<>>
  /\ inner' = Tail(inner)
  /\ held' \in translate(Head(inner))
  /\ settled' = (settled \/ held' \in Terminal)
  /\ UNCHANGED <<task, producer, refresh, waiting, pump, sent, consumer>>

PumpTakes ==
  /\ task = "live" /\ pump = "pumping" /\ held = "none" /\ inner # <<>>
  /\ inner' = Tail(inner)
  /\ held' \in translate(Head(inner))
  /\ UNCHANGED <<task, producer, refresh, waiting, pump, settled, sent,
                 consumer>>

\* Mutant: delivery does not settle the run.
PumpSends_unsettled ==
  /\ task = "live" /\ pump = "pumping" /\ held # "none"
  /\ rx = "open" /\ HasRoom
  /\ sent' = Append(sent, held)
  /\ held' = "none"
  /\ UNCHANGED <<task, producer, refresh, channel, pump, settled, consumer>>

\* Only a delivered terminal event settles the run.
PumpSends ==
  /\ task = "live" /\ pump = "pumping" /\ held # "none"
  /\ rx = "open" /\ HasRoom
  /\ sent' = Append(sent, held)
  /\ settled' = (settled \/ held \in Terminal)
  /\ held' = "none"
  /\ UNCHANGED <<task, producer, refresh, channel, pump, consumer>>

\* The receiver is gone.  loop_rx stays alive: the task owns it.
PumpGivesUp ==
  /\ task = "live" /\ pump = "pumping" /\ held # "none" /\ rx = "dropped"
  /\ pump' = "returned" /\ held' = "none"
  /\ UNCHANGED <<task, producer, refresh, channel, settled, sent, consumer>>

\* Mutant: the checkpoint task holds a strong sender from its start.
PumpFinishes_strong ==
  /\ task = "live" /\ pump = "pumping" /\ held = "none"
  /\ inner = <<>> /\ waiting = <<>> /\ loop = "returned"
  /\ refresh = "finished"
  /\ pump' = "returned"
  /\ UNCHANGED <<task, producer, refresh, channel, held, settled, sent,
                 consumer>>

\* Every sender of the loop's channel is gone and it is empty.
PumpFinishes ==
  /\ task = "live" /\ pump = "pumping" /\ held = "none"
  /\ inner = <<>> /\ waiting = <<>> /\ loop = "returned"
  /\ pump' = "returned"
  /\ UNCHANGED <<task, producer, refresh, channel, held, settled, sent,
                 consumer>>

\* Mutant: the epitaph speaks whether or not the run has settled.
Epitaph_always ==
  IF rx = "open" /\ HasRoom THEN sent' = Append(sent, "Error")
                            ELSE UNCHANGED sent

\* RunEpitaph::drop: try_send, so a full or a closed channel swallows it.
Epitaph ==
  IF ~settled /\ rx = "open" /\ HasRoom
    THEN sent' = Append(sent, "Error") ELSE UNCHANGED sent

\* The task is dropped, and with it the loop, the pump and the channel
\* between them; a checkpoint still waiting to write gets an error.
Drop ==
  /\ task' = "dropped"
  /\ Epitaph
  /\ loop' = "returned" /\ pump' = "returned" /\ held' = "none"
  /\ inner' = <<>> /\ waiting' = <<>>
  /\ refresh' = IF refresh = "upgraded" THEN "finished" ELSE refresh
  /\ UNCHANGED <<progress, settled, consumer>>

TaskReturns == task = "live" /\ loop = "returned" /\ pump = "returned" /\ Drop

\* A panic anywhere in the run unwinds out of the task.
TaskPanics == task = "live" /\ Drop

\* Mutant: the loop is a task of its own, which the abort does not reach.
TaskAborted_nested ==
  /\ task = "live" /\ aborted /\ pump = "pumping"
  /\ pump' = "returned" /\ held' = "none"
  /\ UNCHANGED <<task, producer, refresh, channel, settled, sent, consumer>>

TaskAborted == task = "live" /\ aborted /\ Drop

----------------------------------------------------------------------------
(* The consumer.                                                           *)

Reads ==
  /\ rx = "open" /\ read < Len(sent)
  /\ read' = read + 1
  /\ UNCHANGED <<task, producer, refresh, channel, pumping, sent, rx, aborted>>

\* A front end tears the run down: after a terminal event, or for Ctrl+C.
TearsDown ==
  /\ rx = "open"
  /\ rx' = "dropped" /\ aborted' = TRUE
  /\ UNCHANGED <<task, producer, refresh, channel, pumping, sent, read>>

\* A consumer that drops the receiver and leaves the task alone.
Leaves ==
  /\ ConsumerLeaves /\ rx = "open"
  /\ rx' = "dropped"
  /\ UNCHANGED <<task, producer, refresh, channel, pumping, sent, read,
                 aborted>>

Rest == task = "dropped" /\ UNCHANGED vars

----------------------------------------------------------------------------
TaskStep ==
  \/ WaiterSends \/ LoopEmits \/ LoopEnds
  \/ PumpTakes \/ PumpSends \/ PumpGivesUp \/ PumpFinishes \/ TaskReturns

Next ==
  \/ TaskStep \/ RefreshUpgrades \/ TaskPanics \/ TaskAborted
  \/ Reads \/ TearsDown \/ Leaves \/ Rest

\* The runtime polls the task and delivers an abort; a front end that holds
\* the receiver reads it.  Nothing obliges the run to end before its work
\* does, the user to interrupt, or a tool to panic.
Spec ==
  /\ Init /\ [][Next]_vars
  /\ WF_vars(TaskStep) /\ WF_vars(TaskAborted) /\ WF_vars(Reads)

----------------------------------------------------------------------------
(* Properties.                                                             *)

\* The channels keep to their capacities and the variables to their types.
TypeOK ==
  /\ task \in {"live", "dropped"} /\ loop \in {"running", "returned"}
  /\ progress \in 0..MaxProgress
  /\ refresh \in {"working", "upgraded", "finished"}
  /\ inner \in Seq({"progress", "end", "refresh"}) /\ Len(inner) <= InnerCap
  /\ waiting \in Seq({"progress", "end", "refresh"}) /\ Len(waiting) <= 2
  /\ pump \in {"pumping", "returned"}
  /\ held \in Terminal \cup {"Progress", "Refresh", "none"}
  /\ settled \in BOOLEAN
  /\ sent \in Seq(Terminal \cup {"Progress", "Refresh"})
  /\ read \in 0..Len(sent) /\ Len(sent) - read <= OuterCap
  /\ rx \in {"open", "dropped"} /\ aborted \in BOOLEAN

\* The consumer is told once how the run ended: the loop's own end, the
\* epitaph of a task that panics or is aborted at any await, and a checkpoint
\* that writes late never add up to two terminal events.
OneEnding ==
  \A i, j \in 1..Len(sent) :
    sent[i] \in Terminal /\ sent[j] \in Terminal => i = j

\* The ending is the last word of the loop: only checkpoint refreshes, which
\* wait for room on their own, may follow it, though two channels buffer the
\* run's output and the loop may be blocked when it ends.
OnlyARefreshIsLate ==
  \A i, j \in 1..Len(sent) :
    sent[i] \in Terminal /\ i < j => sent[j] = "Refresh"

\* A run that ends while its consumer listens has said so, on every path out
\* of the task: only a channel with no room left swallows the epitaph.
NoSilentDeath ==
  [][task' = "dropped" /\ task = "live" /\ rx = "open"
       => Heard' \/ Len(sent) - read = OuterCap]_vars

\* A consumer that goes on listening sees the task end: the loop, the pump
\* and the two bounded channels never wait for each other for ever.
RunEnds == (rx = "open") ~> (task = "dropped" \/ rx = "dropped")

\* A front end that tears a run down gets rid of the task too, even when the
\* pump or the loop is blocked on a full channel.
TornDownRunsEnd == aborted ~> (task = "dropped")

\* The run implements the promise of RunEvents.
Promise == INSTANCE RunEvents WITH closed <- (task = "dropped")
KeepsPromise == Promise!Spec
=============================================================================
