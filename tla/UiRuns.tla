------------------------------- MODULE UiRuns -------------------------------
(***************************************************************************)
(* The interactive front end's run state: the slots a running agent is     *)
(* installed into (agent_rx, agent_abort, is_running), the off-loop phases *)
(* and the shell session that also keep the UI busy, the /loop mode, and   *)
(* the interjection queue that the UI fills and a run drains.              *)
(*                                                                         *)
(* The UI is one select loop on its own thread; runs live on the agent     *)
(* thread.  A run is what RunEvents promises: progress events, at most one *)
(* terminal event, the end of the task.  Run ids are reused once a run's   *)
(* task is gone and the slots do not hold it, so |Runs| bounds only how    *)
(* many torn-down tasks may still be on their way out.                     *)
(*                                                                         *)
(* The select is biased: the event arm is polled before the JoinHandle     *)
(* arm.  `arm` is "join" between the two polls, with the event channel     *)
(* found empty, because the agent thread goes on meanwhile.                *)
(*                                                                         *)
(* Nothing ties is_running to what it stands for: each owner sets and      *)
(* clears the flag itself, and install_into overwrites the slots without a *)
(* look at them.  So the handlers come in two kinds, those that abort what *)
(* the slots hold and those that leave it alone or drop it on the floor.   *)
(***************************************************************************)
EXTENDS Naturals, Sequences, FiniteSets

CONSTANTS
  Runs,       \* ids of runs
  NoRun,      \* an empty slot
  Cap,        \* capacity of a run's event channel
  MaxQueue    \* bound: messages waiting in the interjection queue

ASSUME UiAssumption ==
  /\ NoRun \notin Runs
  /\ Cap \in Nat \ {0}
  /\ MaxQueue \in Nat

VARIABLES
  is_running,
  agent_rx,      \* the run whose events the UI receives
  agent_abort,   \* the run whose task the UI can join or abort
  phases,        \* the off-loop work that is out
  shell,         \* the shell session: "none", "grace" before its box is
                 \* mounted, "box" when the keys go to its terminal
  loose,         \* an interrupt cleared is_running and left the session
  loop_active,   \* /loop is on
  queue,         \* how many messages are in the interjection queue
  arm,           \* "select", or "join" between the two polls of one select
  task,          \* per run: "free", "live", "ended"
  aborted,       \* per run: JoinHandle::abort was called
  told,          \* per run: its terminal event is out
  chan,          \* per run: events the UI has not taken
  endings,       \* history, per run: endings the UI has acted on
  misread,       \* history: a buffered ending was reported as an error
  collided,      \* history: a shell session ended while a run or a phase
                 \* held the UI
  plugins        \* a plugin manager is loaded: its hooks run off the loop

slots == <<is_running, agent_rx, agent_abort, phases>>
run   == <<task, aborted, told, chan>>
mode  == <<shell, loose, loop_active>>
log   == <<endings, misread, collided, plugins>>
vars  == <<slots, queue, arm, run, mode, log>>

Terminal == {"Done", "Error", "Interjected", "ContextOverflow"}

\* One Option each, but the three uses of a compaction share one.
Compactions == {"send", "compress", "retry"}
Phases == {"prompt", "plan", "done", "review", "btw", "wt_merge"} \cup Compactions

Init ==
  /\ is_running = FALSE /\ agent_rx = NoRun /\ agent_abort = NoRun
  /\ phases = {} /\ queue = 0 /\ arm = "select"
  /\ shell = "none" /\ loose = FALSE /\ loop_active = FALSE
  /\ task = [r \in Runs |-> "free"] /\ aborted = [r \in Runs |-> FALSE]
  /\ told = [r \in Runs |-> FALSE] /\ chan = [r \in Runs |-> <<>>]
  /\ endings = [r \in Runs |-> 0] /\ misread = FALSE
  /\ collided = FALSE
  /\ plugins \in BOOLEAN

----------------------------------------------------------------------------
(* The agent thread.  A closed receiver swallows what a run still sends.   *)

Deliver(r, e) ==
  chan' = IF agent_rx = r THEN [chan EXCEPT ![r] = Append(@, e)] ELSE chan

\* Mutant: the channel is unbounded.
HasRoom_always(r) == TRUE

HasRoom(r) == Len(chan[r]) < Cap

RunProgresses(r) ==
  /\ task[r] = "live" /\ ~told[r] /\ HasRoom(r)
  /\ Deliver(r, "Progress")
  /\ UNCHANGED <<slots, queue, arm, task, aborted, told, mode, log>>

RunReports(r) ==
  /\ task[r] = "live" /\ ~told[r] /\ HasRoom(r)
  /\ \E e \in Terminal : Deliver(r, e)
  /\ told' = [told EXCEPT ![r] = TRUE]
  /\ UNCHANGED <<slots, queue, arm, task, aborted, mode, log>>

\* The task returns, panics or is aborted; one that has not reported leaves
\* its epitaph when there is room for it.
RunEnds(r) ==
  /\ task[r] = "live"
  /\ task' = [task EXCEPT ![r] = "ended"]
  /\ IF ~told[r] /\ HasRoom(r)
       THEN Deliver(r, "Error") /\ told' = [told EXCEPT ![r] = TRUE]
       ELSE UNCHANGED <<chan, told>>
  /\ UNCHANGED <<slots, queue, arm, aborted, mode, log>>

\* The steering poll takes the whole queue.  An aborted task still does it
\* when the abort finds it between two awaits, and so does one whose handle
\* was dropped: every run has the same queue.
RunTakesQueue(r) ==
  /\ task[r] = "live" /\ ~told[r] /\ queue > 0
  /\ queue' = 0
  /\ UNCHANGED <<slots, arm, run, mode, log>>

----------------------------------------------------------------------------
(* The slots.                                                              *)

Free(r) == task[r] \in {"free", "ended"} /\ r # agent_abort

\* A fresh run r moved in: spawn_runner, then install_into.  `aborting` says
\* that the handler took and aborted what was there; otherwise the old handle
\* is dropped, which detaches its task, and the old receiver with it.
InstallRun(r, aborting) ==
  /\ Free(r)
  /\ agent_rx' = r /\ agent_abort' = r /\ is_running' = TRUE
  /\ task' = [task EXCEPT ![r] = "live"]
  /\ told' = [told EXCEPT ![r] = FALSE]
  /\ chan' = [x \in Runs |-> IF x \in {r, agent_rx} THEN <<>> ELSE chan[x]]
  /\ aborted' = [x \in Runs |->
       x # r /\ (aborted[x] \/ (aborting /\ x = agent_abort))]
  /\ endings' = [x \in Runs |->
       IF x = r THEN 0
       ELSE IF aborting /\ x = agent_abort THEN endings[x] + 1 ELSE endings[x]]

Install == \E r \in Runs : InstallRun(r, FALSE)

\* Mutant: the old handle is dropped without an abort.
Replace_detached == \E r \in Runs : InstallRun(r, FALSE)

\* The handlers that abort before they install.
Replace == \E r \in Runs : InstallRun(r, TRUE)

\* The run in the slots is aborted and they are emptied; the UI is then busy
\* or not.
Release(busy) ==
  /\ agent_rx' = NoRun /\ agent_abort' = NoRun /\ is_running' = busy
  /\ aborted' = [x \in Runs |-> aborted[x] \/ x = agent_abort]
  /\ endings' = [x \in Runs |-> IF x = agent_abort THEN endings[x] + 1
                                 ELSE endings[x]]
  /\ chan' = [x \in Runs |-> IF x = agent_rx THEN <<>> ELSE chan[x]]
  /\ UNCHANGED <<task, told>>

\* Only the flag: the slots keep what they hold.
Flag(busy) ==
  /\ is_running' = busy
  /\ UNCHANGED <<agent_rx, agent_abort, run, endings>>

\* finalize_idle_turn after a teardown: queued messages become the prompt of
\* a fresh run, else the UI is idle.
DrainOrRest ==
  IF queue > 0 THEN queue' = 0 /\ Replace
               ELSE Release(FALSE) /\ UNCHANGED queue

\* drain_interjections!, and a reviewer's last verdict: the same without a
\* teardown.
DrainInterjections ==
  IF queue > 0 THEN queue' = 0 /\ Install
               ELSE Flag(FALSE) /\ UNCHANGED queue

----------------------------------------------------------------------------
(* What the UI does with an ending; `rest` are the phases still out.       *)

\* finish_done: a plugin follow-up or a /loop iteration takes the next turn;
\* else a plan under way is reviewed, or the queue is drained.  /loop ends
\* here at its last iteration and stays on when a vigil sleeps.
FinishDone(rest) ==
  \/ /\ plugins \/ loop_active
     /\ Replace /\ phases' = rest /\ UNCHANGED <<queue, loop_active>>
  \/ /\ loop_active' \in {loop_active, FALSE}
     /\ \/ Release(TRUE) /\ phases' = rest \cup {"review"} /\ UNCHANGED queue
        \/ DrainOrRest /\ phases' = rest

\* Mutant: the runner stays in its slots while the hook chain is out.
HandleDone_keeps_runner ==
  IF plugins
    THEN /\ is_running' = is_running /\ phases' = phases \cup {"done"}
         /\ endings' = [endings EXCEPT ![agent_rx] = @ + 1]
         /\ chan' = [chan EXCEPT ![agent_rx] = Tail(@)]
         /\ UNCHANGED <<agent_rx, agent_abort, task, aborted, told, queue,
                        loop_active>>
    ELSE FinishDone(phases)

\* handle_done: with plugins the runner is torn down, is_running stays as it
\* is and finish_done waits for the hook chain.
HandleDone ==
  IF plugins THEN /\ Release(is_running) /\ phases' = phases \cup {"done"}
                  /\ UNCHANGED <<queue, loop_active>>
             ELSE FinishDone(phases)

HandleInterjected == DrainOrRest /\ UNCHANGED <<phases, loop_active>>

HandleError ==
  Release(FALSE) /\ queue' = 0 /\ UNCHANGED <<phases, loop_active>>

\* handle_context_overflow: compact off the loop and retry, or give up.
HandleOverflow ==
  /\ \/ /\ Release(is_running) /\ UNCHANGED queue
        /\ phases' = (phases \ Compactions) \cup {"retry"}
     \/ Release(FALSE) /\ queue' = 0 /\ UNCHANGED phases
  /\ UNCHANGED loop_active

Handle(e) ==
  CASE e = "Done"            -> HandleDone
    [] e = "Error"           -> HandleError
    [] e = "Interjected"     -> HandleInterjected
    [] e = "ContextOverflow" -> HandleOverflow

----------------------------------------------------------------------------
(* The select loop.                                                        *)

HasEvent == agent_rx # NoRun /\ chan[agent_rx] # <<>>

Buffered == {chan[agent_rx][i] : i \in 1..Len(chan[agent_rx])}

TakeProgress ==
  /\ arm = "select" /\ HasEvent /\ Head(chan[agent_rx]) = "Progress"
  /\ chan' = [chan EXCEPT ![agent_rx] = Tail(@)]
  /\ UNCHANGED <<slots, queue, arm, task, aborted, told, mode, log>>

TakeEnding ==
  /\ arm = "select" /\ HasEvent /\ Head(chan[agent_rx]) \in Terminal
  /\ Handle(Head(chan[agent_rx]))
  /\ UNCHANGED <<arm, shell, loose, misread, collided, plugins>>

EventArmPends ==
  /\ arm = "select" /\ ~HasEvent /\ agent_abort # NoRun /\ is_running
  /\ arm' = "join"
  /\ UNCHANGED <<slots, queue, run, mode, log>>

\* Mutant: the arm sees the task end and does nothing about it.
BackstopFires_ignores ==
  /\ arm = "join" /\ task[agent_abort] = "ended"
  /\ arm' = "select"
  /\ UNCHANGED <<slots, queue, run, mode, log>>

\* The task ended and never said so: the ending is handled as an error.
BackstopFires ==
  /\ arm = "join" /\ task[agent_abort] = "ended"
  /\ HandleError
  /\ misread' = (misread \/ Buffered \cap (Terminal \ {"Error"}) # {})
  /\ arm' = "select"
  /\ UNCHANGED <<shell, loose, collided, plugins>>

JoinArmPends ==
  /\ arm = "join" /\ task[agent_abort] # "ended"
  /\ arm' = "select"
  /\ UNCHANGED <<slots, queue, run, mode, log>>

----------------------------------------------------------------------------
(* The phases.  Each runs in a task of its own and reports once; a phase   *)
(* whose channel closes without a report is over too.                      *)

\* submit_resolved_prompt: compact first when the context is near its limit.
SubmitPrompt(rest) ==
  \/ Install /\ phases' = rest
  \/ Flag(TRUE) /\ phases' = (rest \ Compactions) \cup {"send"}

PhaseReports(p) ==
  LET rest == phases \ {p} IN
  /\ arm = "select" /\ p \in phases
  /\ \/ p = "done" /\ FinishDone(rest)
     \/ p = "prompt" /\ SubmitPrompt(rest) /\ UNCHANGED <<queue, loop_active>>
     \/ /\ p \in {"send", "plan", "retry", "review"}
        /\ Install /\ phases' = rest /\ UNCHANGED <<queue, loop_active>>
     \/ /\ p \in {"compress", "btw", "wt_merge", "review"}
        /\ DrainInterjections /\ phases' = rest /\ UNCHANGED loop_active
     \/ /\ p = "retry"
        /\ Flag(FALSE) /\ queue' = 0 /\ phases' = rest /\ UNCHANGED loop_active
  /\ UNCHANGED <<arm, shell, loose, misread, collided, plugins>>

\* The arms for Aborted, or for a channel that closed.
PhaseAborts(p) ==
  /\ arm = "select" /\ p \in phases /\ p \in {"prompt", "plan", "done"}
  /\ Flag(FALSE) /\ phases' = phases \ {p}
  /\ UNCHANGED <<queue, arm, mode, misread, collided, plugins>>

----------------------------------------------------------------------------
(* The user.  Once a shell box is mounted its terminal gets every key.     *)

Key == arm = "select" /\ shell # "box"

SubmitIdle ==
  /\ Key /\ ~is_running /\ ~loop_active
  /\ IF plugins THEN Flag(TRUE) /\ phases' = phases \cup {"prompt"}
                ELSE SubmitPrompt(phases)
  /\ UNCHANGED <<queue, arm, mode, misread, collided, plugins>>

\* /plan, /compress, /btw and /wt-merge mark the UI busy and run off the loop.
SlashCommand ==
  /\ Key /\ ~is_running /\ Flag(TRUE)
  /\ \/ \E p \in {"plan", "btw", "wt_merge"} : phases' = phases \cup {p}
     \/ phases' = (phases \ Compactions) \cup {"compress"}
  /\ UNCHANGED <<queue, arm, mode, misread, collided, plugins>>

\* A prompt typed while the UI is busy, or while /loop is on, is queued.
SubmitQueued ==
  /\ Key /\ (is_running \/ loop_active) /\ queue < MaxQueue
  /\ queue' = queue + 1
  /\ UNCHANGED <<slots, arm, run, mode, log>>

\* Alt+X drops the queued messages and leaves the run alone.
DropQueue ==
  /\ Key /\ queue > 0
  /\ queue' = 0
  /\ UNCHANGED <<slots, arm, run, mode, log>>

LoopStart ==
  /\ Key /\ ~is_running
  /\ Install /\ loop_active' = TRUE
  /\ UNCHANGED <<phases, queue, arm, shell, loose, misread, collided, plugins>>

LoopStop ==
  /\ Key /\ ~is_running /\ loop_active
  /\ loop_active' = FALSE
  /\ UNCHANGED <<slots, queue, arm, run, shell, loose, log>>

CtrlC ==
  /\ Key /\ is_running
  /\ Release(FALSE) /\ phases' = {} /\ queue' = 0
  /\ shell' = "none" /\ loose' = FALSE /\ loop_active' = FALSE
  /\ UNCHANGED <<arm, misread, collided, plugins>>

\* Esc interrupts too.  It keeps what is queued, and a shell session that is
\* not mounted yet.
Esc ==
  /\ Key /\ is_running
  /\ Release(FALSE) /\ phases' = {}
  /\ loose' = (shell # "none") /\ loop_active' = FALSE
  /\ UNCHANGED <<queue, arm, shell, misread, collided, plugins>>

----------------------------------------------------------------------------
(* What else starts a run: a shell command (`!cmd`, or `!!cmd` that feeds  *)
(* nothing to the agent), a finished background task, a vigil.             *)

\* A session that an interrupt left behind is overwritten.
StartShell ==
  /\ Key /\ ~is_running /\ ~loop_active
  /\ Flag(TRUE) /\ shell' = "grace" /\ loose' = FALSE
  /\ UNCHANGED <<phases, queue, arm, loop_active, misread, collided, plugins>>

\* The command outlived the grace window, whoever holds the UI by now.
ShellMounts ==
  /\ arm = "select" /\ shell = "grace"
  /\ shell' = "box"
  /\ UNCHANGED <<slots, queue, arm, run, loose, loop_active, log>>

\* Mutant: a command that fed the agent nothing leaves the UI as it is.
ShellExits_forgets_flag ==
  /\ arm = "select" /\ shell # "none"
  /\ \/ Install /\ UNCHANGED queue
     \/ queue > 0 /\ queue' = 0 /\ Install
     \/ queue = 0 /\ Flag(is_running) /\ UNCHANGED queue
  /\ shell' = "none" /\ loose' = FALSE
  /\ collided' = (collided \/ agent_abort # NoRun \/ phases # {})
  /\ UNCHANGED <<phases, arm, loop_active, misread, plugins>>

\* The exit arm tests neither is_running nor the slots: the output of a
\* visible command that was not interrupted starts a run, any other exit
\* drains the queue or clears the flag.
ShellExits ==
  /\ arm = "select" /\ shell # "none"
  /\ (Install /\ UNCHANGED queue) \/ DrainInterjections
  /\ shell' = "none" /\ loose' = FALSE
  /\ collided' = (collided \/ agent_abort # NoRun \/ phases # {})
  /\ UNCHANGED <<phases, arm, loop_active, misread, plugins>>

\* A finished background task or a vigil observance; `/prompt name text` is
\* the same from the keyboard.
Wake ==
  /\ arm = "select" /\ ~is_running
  /\ Install
  /\ UNCHANGED <<phases, queue, arm, mode, misread, collided, plugins>>

----------------------------------------------------------------------------
UiStep ==
  TakeProgress \/ TakeEnding \/ EventArmPends \/ BackstopFires \/ JoinArmPends
PhaseStep == \E p \in Phases : PhaseReports(p) \/ PhaseAborts(p)
User ==
  \/ SubmitIdle \/ SlashCommand \/ SubmitQueued \/ DropQueue
  \/ LoopStart \/ LoopStop \/ CtrlC \/ Esc
  \/ StartShell \/ ShellMounts \/ ShellExits \/ Wake

Next ==
  \/ \E r \in Runs :
       RunProgresses(r) \/ RunReports(r) \/ RunEnds(r) \/ RunTakesQueue(r)
  \/ UiStep \/ PhaseStep \/ User

\* The UI loop is always polled, a phase comes to its end, and a task ends,
\* reported or not (AgentLoop and RunPipe show both).
Spec ==
  /\ Init /\ [][Next]_vars
  /\ WF_vars(UiStep) /\ WF_vars(PhaseStep)
  /\ \A r \in Runs : WF_vars(RunEnds(r))

----------------------------------------------------------------------------
(* Properties.                                                             *)

\* The slots name runs, the phases are those of the code, and a run's channel
\* keeps to its capacity.
TypeOK ==
  /\ is_running \in BOOLEAN
  /\ agent_rx \in Runs \cup {NoRun} /\ agent_abort \in Runs \cup {NoRun}
  /\ phases \subseteq Phases /\ queue \in 0..MaxQueue
  /\ arm \in {"select", "join"} /\ shell \in {"none", "grace", "box"}
  /\ loose \in BOOLEAN /\ loop_active \in BOOLEAN
  /\ task \in [Runs -> {"free", "live", "ended"}]
  /\ aborted \in [Runs -> BOOLEAN] /\ told \in [Runs -> BOOLEAN]
  /\ chan \in [Runs -> Seq(Terminal \cup {"Progress"})]
  /\ \A r \in Runs : Len(chan[r]) <= Cap
  /\ endings \in [Runs -> Nat]
  /\ misread \in BOOLEAN /\ collided \in BOOLEAN /\ plugins \in BOOLEAN

\* The three things a busy UI can be busy with.
HasRun == agent_abort # NoRun
HasPhase == phases # {}
HasShell == shell # "none" /\ ~loose

\* A busy UI is busy with exactly one thing that can still make it idle: a
\* run in the slots, one phase, or a shell session that no interrupt has left
\* behind.  Neither is the prompt line dead with nothing behind it nor do two
\* of them race for the session.  A shell session that ended over a run or a
\* phase, which CollisionsNeedEsc traces to an Esc, is the one thing that
\* breaks this for good; until then it holds with such a session about.
BusyHasOneOwner ==
  ~collided =>
    /\ is_running <=> HasRun \/ HasPhase \/ HasShell
    /\ ~(HasRun /\ HasPhase) /\ ~(HasRun /\ HasShell) /\ ~(HasPhase /\ HasShell)
    /\ \A p, q \in phases : p = q
    /\ agent_rx = agent_abort

\* No task is forgotten: a run that is still going is the one in the slots or
\* has been told to stop.  install_into drops the handle it overwrites, so
\* this is the claim that each of its callers either aborts first or cannot
\* meet a run in the slots; the shell's exit arm is the caller that can.
NoOrphanRun ==
  ~collided =>
    \A r \in Runs : task[r] = "live" => agent_abort = r \/ aborted[r]

\* One ending per run: an event, the backstop and the interrupt never act on
\* the same run twice.
OneEndingPerRun == \A r \in Runs : endings[r] <= 1

\* Whatever the run does, its slot is given up: a task that ends in silence,
\* or behind a full channel, does not keep the UI busy for ever.  After a
\* collision the slot of an idle UI may stay full, because the JoinHandle arm
\* looks only while is_running is set.
RunsAreLetGo ==
  \A r \in Runs : (agent_abort = r) ~> (agent_abort # r \/ collided)

----------------------------------------------------------------------------
(* What comments of the code say, and the code does not do.                *)

\* "every buffered event --- including the terminal one ... --- is delivered
\* first; ... It therefore fires only for an ending nothing else accounted
\* for": no run whose Done is in the channel is handled as an error.
BackstopOnlyForSilence == ~misread

\* The Ctrl+C handler on what happened before it took the shell session: "a
\* prompt typed next submitted immediately ... and ran an agent turn alongside
\* the live shell, and on exit a Visible command still fed its output to the
\* agent despite the interrupt.  Kill the group and tear the session down,
\* exactly as the Esc path does": no turn runs, and no phase, beside a shell.
NoTurnBesideShell == shell # "none" => ~HasRun /\ ~HasPhase
=============================================================================
