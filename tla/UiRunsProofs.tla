---------------------------- MODULE UiRunsProofs ----------------------------
(***************************************************************************)
(* Proofs about the interactive run state, for any number of runs alive,   *)
(* any channel capacity and any queue length.  The invariant has three     *)
(* parts: what the slots say of the tasks whatever happens (RunInv), the   *)
(* types of the rest (SlotInv), and, as long as no shell session has ended *)
(* over a run or a phase, who owns the busy flag and that no task is       *)
(* forgotten (OwnerInv).  Every handler goes through an install, a release *)
(* or a change of the flag alone, and each of these is shown once to keep  *)
(* the invariant when what it is called for is right.                      *)
(***************************************************************************)
EXTENDS UiRuns, TLAPS

Events == Terminal \cup {"Progress"}

RunTypes ==
  /\ agent_rx \in Runs \cup {NoRun} /\ agent_abort \in Runs \cup {NoRun}
  /\ task \in [Runs -> {"free", "live", "ended"}]
  /\ aborted \in [Runs -> BOOLEAN] /\ told \in [Runs -> BOOLEAN]
  /\ chan \in [Runs -> Seq(Events)]
  /\ \A r \in Runs : Len(chan[r]) <= Cap
  /\ endings \in [Runs -> Nat]

\* The run in the slots is one run, and it has not ended for the UI yet.
RunInv ==
  /\ RunTypes
  /\ agent_rx = agent_abort
  /\ OneEndingPerRun
  /\ \A r \in Runs : agent_abort = r => endings[r] = 0

SlotInv ==
  /\ is_running \in BOOLEAN /\ phases \subseteq Phases /\ queue \in 0..MaxQueue
  /\ arm \in {"select", "join"} /\ shell \in {"none", "grace", "box"}
  /\ loose \in BOOLEAN /\ loop_active \in BOOLEAN
  /\ misread \in BOOLEAN /\ collided \in BOOLEAN /\ plugins \in BOOLEAN
  /\ arm = "join" => agent_abort # NoRun

\* The consequents of BusyHasOneOwner and NoOrphanRun.
Sole ==
  /\ is_running <=> HasRun \/ HasPhase \/ HasShell
  /\ ~(HasRun /\ HasPhase) /\ ~(HasRun /\ HasShell) /\ ~(HasPhase /\ HasShell)
  /\ \A p, q \in phases : p = q

Orphanless == \A r \in Runs : task[r] = "live" => agent_abort = r \/ aborted[r]

OwnerInv == ~collided => Sole /\ Orphanless

UiInv == RunInv /\ SlotInv /\ OwnerInv

----------------------------------------------------------------------------
(* The three ways to change the slots.                                     *)

\* install_into, with or without an abort of what it overwrites.  A task is
\* left without an owner only by the install that does not abort.
LEMMA InstallRuns ==
  ASSUME RunInv, NEW r \in Runs, NEW aborting \in BOOLEAN, InstallRun(r, aborting)
  PROVE  /\ RunInv' /\ is_running' = TRUE /\ agent_abort' = r
         /\ Orphanless /\ (aborting \/ agent_abort = NoRun) => Orphanless'
<1> USE UiAssumption DEF RunInv, RunTypes, InstallRun
<1>2. /\ task' \in [Runs -> {"free", "live", "ended"}]
      /\ told' \in [Runs -> BOOLEAN]
  OBVIOUS
<1>3. aborted' \in [Runs -> BOOLEAN]
  BY Zenon
<1>4. chan' \in [Runs -> Seq(Events)] /\ \A x \in Runs : Len(chan'[x]) <= Cap
  OBVIOUS
<1>5. endings' \in [Runs -> Nat]
  OBVIOUS
<1>6. ASSUME Orphanless, aborting \/ agent_abort = NoRun PROVE Orphanless'
  <2> SUFFICES ASSUME NEW x \in Runs, task'[x] = "live"
               PROVE  agent_abort' = x \/ aborted'[x]
    BY DEF Orphanless
  <2>1. CASE x = r
    BY <2>1
  <2>2. CASE x # r
    <3>1. task[x] = "live"
      BY <2>2
    <3>2. aborted'[x] = (x # r /\ (aborted[x] \/ (aborting /\ x = agent_abort)))
      OBVIOUS
    <3>3. agent_abort = x \/ aborted[x]
      BY <1>6, <3>1 DEF Orphanless
    <3> QED
      BY <1>6, <2>2, <3>2, <3>3
  <2> QED
    BY <2>1, <2>2
<1>7. OneEndingPerRun' /\ endings'[r] = 0
  BY DEF OneEndingPerRun
<1> QED
  BY <1>2, <1>3, <1>4, <1>5, <1>6, <1>7

\* Tearing a run down aborts the task it takes out of the slots.
LEMMA ReleaseRuns ==
  ASSUME RunInv, NEW busy, Release(busy)
  PROVE  /\ RunInv' /\ is_running' = busy /\ agent_abort' = NoRun
         /\ Orphanless => Orphanless'
<1> USE UiAssumption DEF RunInv, RunTypes, Release
<1>1. aborted' \in [Runs -> BOOLEAN]
  BY Zenon
<1>2. chan' \in [Runs -> Seq(Events)] /\ \A x \in Runs : Len(chan'[x]) <= Cap
  OBVIOUS
<1>3. endings' \in [Runs -> Nat] /\ OneEndingPerRun'
  BY DEF OneEndingPerRun
<1>4. Orphanless => Orphanless'
  BY DEF Orphanless
<1> QED
  BY <1>1, <1>2, <1>3, <1>4

\* A step that leaves the slots and the tasks alone keeps RunInv.
LEMMA RunsUnchanged ==
  ASSUME RunInv, agent_rx' = agent_rx, agent_abort' = agent_abort,
         UNCHANGED <<task, aborted, told, chan, endings>>
  PROVE  RunInv' /\ (Orphanless => Orphanless')
BY DEF RunInv, RunTypes, Orphanless, OneEndingPerRun

----------------------------------------------------------------------------
(* The handlers.                                                           *)

\* What a handler leaves: the runs in order, and exactly one owner.
Settles ==
  /\ RunInv'
  /\ is_running' \in BOOLEAN /\ phases' \subseteq Phases
  /\ queue' \in 0..MaxQueue
  /\ OwnerInv'

\* What a handler needs for it: no phase and no shell beside a run.
Clear == ~collided' => ~collided /\ phases' = {} /\ ~HasShell'

\* A fresh run moved in owns the busy state alone.
LEMMA InstallSettles ==
  ASSUME UiInv, NEW aborting \in BOOLEAN, \E r \in Runs : InstallRun(r, aborting),
         Clear, ~collided' => aborting \/ ~HasRun,
         phases' \subseteq Phases, queue' \in 0..MaxQueue
  PROVE  Settles
<1>1. PICK r \in Runs : InstallRun(r, aborting)
  OBVIOUS
<1>2. /\ RunInv' /\ is_running' = TRUE /\ agent_abort' = r
      /\ Orphanless /\ (aborting \/ agent_abort = NoRun) => Orphanless'
  BY <1>1, InstallRuns DEF UiInv
<1>3. r # NoRun
  BY UiAssumption
<1>4. ASSUME ~collided' PROVE Sole' /\ Orphanless'
  <2>1. Orphanless' /\ HasRun' /\ phases' = {} /\ ~HasShell'
    BY <1>2, <1>3, <1>4 DEF Clear, HasRun, UiInv, OwnerInv
  <2> QED
    BY <1>2, <2>1 DEF Sole, HasPhase
<1> QED
  BY <1>2, <1>4 DEF Settles, OwnerInv

\* A run let go leaves a phase, or nothing, as the owner.
LEMMA ReleaseSettles ==
  ASSUME UiInv, NEW busy \in BOOLEAN, Release(busy),
         ~collided' => /\ ~collided /\ (busy <=> phases' # {}) /\ ~HasShell'
                       /\ \A p, q \in phases' : p = q,
         phases' \subseteq Phases, queue' \in 0..MaxQueue
  PROVE  Settles
<1>1. /\ RunInv' /\ is_running' = busy /\ agent_abort' = NoRun
      /\ Orphanless => Orphanless'
  BY ReleaseRuns DEF UiInv
<1>2. ASSUME ~collided' PROVE Sole' /\ Orphanless'
  <2>1. Orphanless' /\ ~HasRun' /\ ~HasShell' /\ (is_running' <=> HasPhase')
    BY <1>1, <1>2 DEF HasRun, HasPhase, UiInv, OwnerInv
  <2> QED
    BY <1>2, <2>1 DEF Sole
<1> QED
  BY <1>1, <1>2 DEF Settles, OwnerInv

\* The flag set or cleared with the slots empty.
LEMMA FlagSettles ==
  ASSUME UiInv, NEW busy \in BOOLEAN, Flag(busy),
         ~collided' => /\ ~collided /\ ~HasRun
                       /\ (busy <=> phases' # {} \/ HasShell')
                       /\ ~(phases' # {} /\ HasShell')
                       /\ \A p, q \in phases' : p = q,
         phases' \subseteq Phases, queue' \in 0..MaxQueue
  PROVE  Settles
<1>1. /\ RunInv' /\ is_running' = busy /\ agent_abort' = agent_abort
      /\ Orphanless => Orphanless'
  BY RunsUnchanged DEF UiInv, Flag, run
<1>2. ASSUME ~collided' PROVE Sole' /\ Orphanless'
  <2>1. Orphanless' /\ ~HasRun' /\ (is_running' <=> HasPhase' \/ HasShell')
    BY <1>1, <1>2 DEF HasRun, HasPhase, UiInv, OwnerInv
  <2> QED
    BY <1>2, <2>1 DEF Sole, HasPhase
<1> QED
  BY <1>1, <1>2 DEF Settles, OwnerInv

\* The two drains.  After a teardown nothing is asked of the slots; the macro
\* needs them empty.
LEMMA DrainsSettle ==
  ASSUME UiInv, Clear, phases' \subseteq Phases,
         \/ DrainOrRest
         \/ DrainInterjections /\ (~collided' => ~HasRun)
  PROVE  Settles
<1>1. 0 \in 0..MaxQueue /\ queue \in 0..MaxQueue
  BY UiAssumption DEF UiInv, SlotInv
<1>2. CASE queue > 0 /\ queue' = 0 /\ Replace
  BY <1>1, <1>2, InstallSettles DEF Replace
<1>3. CASE Release(FALSE) /\ UNCHANGED queue
  BY <1>1, <1>3, ReleaseSettles DEF Clear
<1>4. CASE queue > 0 /\ queue' = 0 /\ Install /\ (~collided' => ~HasRun)
  BY <1>1, <1>4, InstallSettles DEF Install
<1>5. CASE Flag(FALSE) /\ UNCHANGED queue /\ (~collided' => ~HasRun)
  BY <1>1, <1>5, FlagSettles DEF Clear
<1> QED
  BY <1>2, <1>3, <1>4, <1>5 DEF DrainOrRest, DrainInterjections

\* finish_done settles the UI, whichever of its ways it takes.
LEMMA FinishDoneSettles ==
  ASSUME UiInv, NEW rest \in SUBSET Phases, FinishDone(rest),
         ~collided => rest = {} /\ ~HasShell,
         UNCHANGED <<shell, loose, collided>>
  PROVE  Settles
<1>1. /\ queue \in 0..MaxQueue /\ "review" \in Phases
      /\ (HasShell' <=> HasShell)
  BY DEF UiInv, SlotInv, Phases, HasShell
<1>2. CASE Replace /\ phases' = rest /\ UNCHANGED queue
  BY <1>1, <1>2, InstallSettles DEF Replace, Clear
<1>3. CASE Release(TRUE) /\ phases' = rest \cup {"review"} /\ UNCHANGED queue
  <2>1. phases' \subseteq Phases /\ phases' # {} /\ queue' \in 0..MaxQueue
    BY <1>1, <1>3
  <2>2. ~collided' => ~HasShell' /\ phases' = {"review"}
    BY <1>1, <1>3
  <2> QED
    BY <1>3, <2>1, <2>2, ReleaseSettles
<1>4. CASE DrainOrRest /\ phases' = rest
  BY <1>1, <1>4, DrainsSettle DEF Clear
<1> QED
  BY <1>2, <1>3, <1>4 DEF FinishDone

\* An ending taken from the event channel: whatever it is, the UI settles.
LEMMA EndingSettles ==
  ASSUME UiInv, agent_rx # NoRun, NEW e \in Terminal, Handle(e),
         UNCHANGED <<shell, loose, collided>>
  PROVE  Settles
<1>1. /\ queue \in 0..MaxQueue /\ 0 \in 0..MaxQueue /\ phases \subseteq Phases
      /\ is_running \in BOOLEAN /\ (HasShell' <=> HasShell)
      /\ ~collided => phases = {} /\ ~HasShell /\ is_running
  BY UiAssumption DEF UiInv, RunInv, SlotInv, OwnerInv, Sole, HasRun, HasPhase,
                      HasShell
<1>2. {"done", "retry"} \subseteq Phases
  BY DEF Phases, Compactions
<1>3. CASE e = "Done"
  <2>1. HandleDone
    BY <1>3 DEF Handle
  <2>2. CASE plugins
    <3>1. /\ Release(is_running) /\ phases' = phases \cup {"done"}
          /\ queue' = queue
      BY <2>1, <2>2 DEF HandleDone
    <3>2. phases' \subseteq Phases /\ phases' # {}
      BY <1>1, <1>2, <3>1
    <3>3. ~collided' => ~HasShell' /\ phases' = {"done"} /\ is_running
      BY <1>1, <3>1
    <3> QED
      BY <1>1, <3>1, <3>2, <3>3, ReleaseSettles
  <2>3. CASE ~plugins
    BY <1>1, <2>1, <2>3, FinishDoneSettles DEF HandleDone
  <2> QED
    BY <2>2, <2>3
<1>4. ASSUME Release(FALSE), queue' = 0, UNCHANGED phases PROVE Settles
  BY <1>1, <1>4, ReleaseSettles
<1>5. CASE e = "Error"
  BY <1>4, <1>5 DEF Handle, HandleError
<1>6. CASE e = "Interjected"
  BY <1>1, <1>6, DrainsSettle DEF Handle, HandleInterjected, Clear
<1>7. CASE e = "ContextOverflow"
  <2>1. HandleOverflow
    BY <1>7 DEF Handle
  <2>2. CASE /\ Release(is_running) /\ UNCHANGED queue
             /\ phases' = (phases \ Compactions) \cup {"retry"}
    <3>1. phases' \subseteq Phases /\ phases' # {}
      BY <1>1, <1>2, <2>2
    <3>2. ~collided' => ~HasShell' /\ phases' = {"retry"} /\ is_running
      BY <1>1, <2>2
    <3> QED
      BY <1>1, <2>2, <3>1, <3>2, ReleaseSettles
  <2> QED
    BY <1>4, <2>1, <2>2 DEF HandleOverflow
<1> QED
  BY <1>3, <1>5, <1>6, <1>7 DEF Terminal

\* Every phase that reports, or is aborted, settles the UI.
LEMMA PhaseSettles ==
  ASSUME UiInv, NEW p \in Phases, PhaseReports(p) \/ PhaseAborts(p)
  PROVE  Settles
<1> DEFINE rest == phases \ {p}
<1>0. p \in phases /\ UNCHANGED <<shell, loose, collided>>
  <2>1. CASE PhaseReports(p)
    BY <2>1, Zenon DEF PhaseReports
  <2>2. CASE PhaseAborts(p)
    BY <2>2 DEF PhaseAborts, mode
  <2> QED
    BY <2>1, <2>2
<1>1. /\ queue \in 0..MaxQueue /\ 0 \in 0..MaxQueue /\ "send" \in Phases
      /\ p \in phases /\ rest \in SUBSET Phases
  BY <1>0, UiAssumption DEF UiInv, SlotInv, Phases, Compactions
<1>2. UNCHANGED <<shell, loose, collided>> /\ (HasShell' <=> HasShell)
  BY <1>0 DEF HasShell
<1>3. ~collided => rest = {} /\ ~HasShell /\ ~HasRun
  BY <1>1 DEF UiInv, OwnerInv, Sole, HasPhase
<1> HIDE DEF rest
<1>4. CASE FinishDone(rest)
  BY <1>1, <1>2, <1>3, <1>4, FinishDoneSettles
<1>5. ASSUME Install, phases' = rest, UNCHANGED queue PROVE Settles
  BY <1>1, <1>2, <1>3, <1>5, InstallSettles DEF Install, Clear
<1>6. CASE SubmitPrompt(rest) /\ UNCHANGED queue
  <2>1. CASE Flag(TRUE) /\ phases' = (rest \ Compactions) \cup {"send"}
    <3>1. phases' \subseteq Phases /\ phases' # {}
      BY <1>1, <2>1
    <3>2. ~collided' => ~HasShell' /\ ~HasRun /\ phases' = {"send"}
      BY <1>2, <1>3, <2>1
    <3> QED
      BY <1>1, <1>2, <1>6, <2>1, <3>1, <3>2, FlagSettles
  <2> QED
    BY <1>5, <1>6, <2>1 DEF SubmitPrompt
<1>7. CASE DrainInterjections /\ phases' = rest
  BY <1>1, <1>2, <1>3, <1>7, DrainsSettle DEF Clear
<1>8. ASSUME Flag(FALSE), phases' = rest, queue' \in {0, queue} PROVE Settles
  BY <1>1, <1>2, <1>3, <1>8, FlagSettles
<1>9. CASE PhaseReports(p)
  BY <1>4, <1>5, <1>6, <1>7, <1>8, <1>9 DEF PhaseReports, rest
<1>10. CASE PhaseAborts(p)
  BY <1>8, <1>10 DEF PhaseAborts, rest
<1> QED
  BY <1>9, <1>10

\* What starts from an idle UI: a prompt, a slash command, /loop, a wake.
LEMMA IdleSettles ==
  ASSUME UiInv, SubmitIdle \/ SlashCommand \/ LoopStart \/ Wake
  PROVE  Settles
<1>1. /\ queue \in 0..MaxQueue /\ phases \subseteq Phases
      /\ {"prompt", "send", "plan", "compress", "btw", "wt_merge"} \subseteq Phases
  BY DEF UiInv, SlotInv, Phases, Compactions
<1>2. /\ ~is_running /\ UNCHANGED <<queue, shell, loose, collided>>
      /\ (HasShell' <=> HasShell)
  <2>1. ~is_running /\ UNCHANGED <<queue, shell, loose, collided>>
    BY DEF SubmitIdle, SlashCommand, LoopStart, Wake, mode
  <2> QED
    BY <2>1 DEF HasShell
<1>3. ~collided => phases = {} /\ ~HasShell /\ ~HasRun
  BY <1>2 DEF UiInv, OwnerInv, Sole, HasPhase
<1>4. ASSUME Install, UNCHANGED phases PROVE Settles
  BY <1>1, <1>2, <1>3, <1>4, InstallSettles DEF Install, Clear
<1>5. ASSUME NEW p \in {"prompt", "send", "plan", "compress", "btw", "wt_merge"},
             NEW keep \in SUBSET phases, Flag(TRUE), phases' = keep \cup {p}
      PROVE  Settles
  <2>1. phases' \subseteq Phases /\ phases' # {}
    BY <1>1, <1>5
  <2>2. ~collided' => ~HasShell' /\ ~HasRun /\ phases' = {p}
    BY <1>2, <1>3, <1>5
  <2> QED
    BY <1>1, <1>2, <1>5, <2>1, <2>2, FlagSettles
<1>6. CASE SubmitIdle
  BY <1>4, <1>5, <1>6 DEF SubmitIdle, SubmitPrompt
<1>7. CASE SlashCommand
  BY <1>5, <1>7 DEF SlashCommand
<1>8. CASE LoopStart \/ Wake
  BY <1>4, <1>8 DEF LoopStart, Wake
<1> QED
  BY <1>6, <1>7, <1>8

\* The interrupts and the shell session.  A session that ends over nothing
\* settles the UI; one that ends over a run or a phase is a collision.
LEMMA ShellSettles ==
  ASSUME UiInv, CtrlC \/ Esc \/ StartShell \/ ShellExits
  PROVE  Settles
<1>1. /\ queue \in 0..MaxQueue /\ 0 \in 0..MaxQueue /\ phases \subseteq Phases
  BY UiAssumption DEF UiInv, SlotInv
<1>2. CASE CtrlC
  <2>1. Release(FALSE) /\ phases' = {} /\ queue' = 0 /\ ~HasShell'
    BY <1>2 DEF CtrlC, HasShell
  <2> QED
    BY <1>1, <1>2, <2>1, ReleaseSettles DEF CtrlC
<1>3. CASE Esc
  <2>1. Release(FALSE) /\ phases' = {} /\ queue' = queue /\ ~HasShell'
    BY <1>3 DEF Esc, HasShell
  <2> QED
    BY <1>1, <1>3, <2>1, ReleaseSettles DEF Esc
<1>4. CASE StartShell
  <2>1. ~is_running /\ Flag(TRUE) /\ HasShell' /\ UNCHANGED <<phases, queue, collided>>
    BY <1>4 DEF StartShell, HasShell
  <2>2. ~collided => phases = {} /\ ~HasRun
    BY <2>1 DEF UiInv, OwnerInv, Sole, HasPhase
  <2> QED
    BY <1>1, <2>1, <2>2, FlagSettles
<1>5. CASE ShellExits
  <2>1. /\ ~HasShell' /\ UNCHANGED phases
        /\ ~collided' => ~collided /\ ~HasRun /\ phases = {}
    BY <1>5 DEF ShellExits, HasShell, HasRun
  <2>2. CASE Install /\ UNCHANGED queue
    BY <1>1, <2>1, <2>2, InstallSettles DEF Install, Clear
  <2>3. CASE DrainInterjections
    BY <1>1, <2>1, <2>3, DrainsSettle DEF Clear
  <2> QED
    BY <1>5, <2>2, <2>3 DEF ShellExits
<1> QED
  BY <1>2, <1>3, <1>4, <1>5

----------------------------------------------------------------------------
(* The agent thread.                                                       *)

\* An event put into a run's channel, when there is room, keeps its bound.
LEMMA DeliverTypes ==
  ASSUME RunInv, NEW r \in Runs, NEW e \in Events, HasRoom(r), Deliver(r, e)
  PROVE  /\ chan' \in [Runs -> Seq(Events)]
         /\ \A x \in Runs : Len(chan'[x]) <= Cap
<1>1. CASE agent_rx = r
  <2>1. /\ chan[r] \in Seq(Events) /\ Len(chan[r]) \in Nat
        /\ Len(chan[r]) + 1 <= Cap
    BY UiAssumption DEF RunInv, RunTypes, HasRoom
  <2>2. /\ Append(chan[r], e) \in Seq(Events)
        /\ Len(Append(chan[r], e)) = Len(chan[r]) + 1
    BY <2>1
  <2>3. chan' = [chan EXCEPT ![r] = Append(chan[r], e)]
    BY <1>1 DEF Deliver
  <2> QED
    BY <2>1, <2>2, <2>3 DEF RunInv, RunTypes
<1>2. CASE agent_rx # r
  BY <1>2 DEF Deliver, RunInv, RunTypes
<1> QED
  BY <1>1, <1>2

\* What a run does on its own thread keeps RunInv, and makes no orphan.
LEMMA RunStepKeeps ==
  ASSUME RunInv, NEW r \in Runs,
         RunProgresses(r) \/ RunReports(r) \/ RunEnds(r) \/ RunTakesQueue(r)
  PROVE  RunInv' /\ (Orphanless => Orphanless')
<1> USE DEF slots, log, run
<1>1. CASE RunProgresses(r)
  <2>1. "Progress" \in Events
    BY DEF Events
  <2> QED
    BY <1>1, <2>1, DeliverTypes
       DEF RunProgresses, RunInv, RunTypes, Orphanless, OneEndingPerRun
<1>2. CASE RunReports(r)
  <2>1. PICK e \in Terminal : Deliver(r, e)
    BY <1>2 DEF RunReports
  <2>2. e \in Events
    BY DEF Events
  <2>3. chan' \in [Runs -> Seq(Events)] /\ \A x \in Runs : Len(chan'[x]) <= Cap
    BY <1>2, <2>1, <2>2, DeliverTypes DEF RunReports
  <2> QED
    BY <1>2, <2>3
       DEF RunReports, RunInv, RunTypes, Orphanless, OneEndingPerRun
<1>3. CASE RunEnds(r)
  <2>1. "Error" \in Events
    BY DEF Events, Terminal
  <2>2. chan' \in [Runs -> Seq(Events)] /\ \A x \in Runs : Len(chan'[x]) <= Cap
    BY <1>3, <2>1, DeliverTypes DEF RunEnds, RunInv, RunTypes
  <2>3. told' \in [Runs -> BOOLEAN]
    BY <1>3 DEF RunEnds, RunInv, RunTypes
  <2> QED
    BY <1>3, <2>2, <2>3
       DEF RunEnds, RunInv, RunTypes, Orphanless, OneEndingPerRun
<1>4. CASE RunTakesQueue(r)
  BY <1>4, RunsUnchanged DEF RunTakesQueue
<1> QED
  BY <1>1, <1>2, <1>3, <1>4

----------------------------------------------------------------------------
(* Theorems.                                                               *)

\* Every step keeps the invariant.
LEMMA UiInvPreserved ==
  ASSUME UiInv, [Next]_vars
  PROVE  UiInv'
<1> USE DEF slots, run, mode, log
<1>1. ASSUME Settles, arm' = "select", shell' \in {"none", "grace", "box"},
             loose' \in BOOLEAN, loop_active' \in BOOLEAN,
             misread' \in BOOLEAN, collided' \in BOOLEAN, plugins' \in BOOLEAN
      PROVE  UiInv'
  BY <1>1 DEF Settles, UiInv, SlotInv
<1>2. /\ shell \in {"none", "grace", "box"}
      /\ loose \in BOOLEAN /\ loop_active \in BOOLEAN
      /\ misread \in BOOLEAN /\ collided \in BOOLEAN /\ plugins \in BOOLEAN
  BY DEF UiInv, SlotInv
<1>20. ASSUME UNCHANGED <<is_running, agent_abort, phases, shell, loose, collided>>,
              Orphanless => Orphanless'
       PROVE  OwnerInv'
  BY <1>20 DEF UiInv, OwnerInv, Sole, HasRun, HasPhase, HasShell
<1>3. ASSUME NEW r \in Runs,
             RunProgresses(r) \/ RunReports(r) \/ RunEnds(r) \/ RunTakesQueue(r)
      PROVE  UiInv'
  <2>1. RunInv' /\ (Orphanless => Orphanless')
    BY <1>3, RunStepKeeps DEF UiInv
  <2>2. UNCHANGED <<is_running, agent_abort, phases, shell, loose, collided>>
    BY <1>3 DEF RunProgresses, RunReports, RunEnds, RunTakesQueue
  <2>3. SlotInv'
    BY <1>3, UiAssumption
       DEF UiInv, SlotInv, RunProgresses, RunReports, RunEnds, RunTakesQueue
  <2> QED
    BY <1>20, <2>1, <2>2, <2>3 DEF UiInv
<1>4. CASE TakeProgress
  <2>1. agent_rx \in Runs /\ chan[agent_rx] # <<>>
    BY <1>4 DEF TakeProgress, HasEvent, UiInv, RunInv, RunTypes
  <2>2. /\ chan[agent_rx] \in Seq(Events) /\ Len(chan[agent_rx]) <= Cap
        /\ Len(Tail(chan[agent_rx])) = Len(chan[agent_rx]) - 1
        /\ Tail(chan[agent_rx]) \in Seq(Events)
    BY <2>1 DEF UiInv, RunInv, RunTypes
  <2>3. chan' \in [Runs -> Seq(Events)] /\ \A x \in Runs : Len(chan'[x]) <= Cap
    BY <1>4, <2>1, <2>2, UiAssumption DEF TakeProgress, UiInv, RunInv, RunTypes
  <2>4. RunInv'
    BY <1>4, <2>3 DEF TakeProgress, UiInv, RunInv, RunTypes, OneEndingPerRun
  <2>5. SlotInv'
    BY <1>4 DEF TakeProgress, UiInv, SlotInv
  <2>6. OwnerInv'
    BY <1>4, <1>20 DEF TakeProgress, Orphanless
  <2> QED
    BY <2>4, <2>5, <2>6 DEF UiInv
<1>5. CASE TakeEnding
  <2>1. UNCHANGED <<shell, loose, misread, collided, plugins>> /\ arm' = "select"
    BY <1>5 DEF TakeEnding
  <2>2. PICK e \in Terminal : Handle(e)
    BY <1>5 DEF TakeEnding
  <2>3. loop_active' \in BOOLEAN
    <3>1. HandleDone \/ HandleError \/ HandleInterjected \/ HandleOverflow
      BY <2>2 DEF Handle, Terminal
    <3> QED
      BY <1>2, <3>1 DEF HandleDone, FinishDone, HandleError, HandleInterjected,
                        HandleOverflow
  <2>4. Settles
    BY <1>5, <2>1, <2>2, EndingSettles DEF TakeEnding, HasEvent
  <2> QED
    BY <1>1, <1>2, <2>1, <2>3, <2>4
<1>6. ASSUME EventArmPends \/ JoinArmPends \/ SubmitQueued \/ DropQueue
               \/ LoopStop
      PROVE  UiInv'
  <2>1. /\ UNCHANGED <<is_running, agent_rx, agent_abort, phases, shell, loose>>
        /\ UNCHANGED <<task, aborted, told, chan, endings, collided>>
    BY <1>6 DEF EventArmPends, JoinArmPends, SubmitQueued, DropQueue, LoopStop
  <2>2. RunInv' /\ (Orphanless => Orphanless')
    BY <2>1, RunsUnchanged DEF UiInv
  <2>3. OwnerInv'
    BY <1>20, <2>1, <2>2
  <2>4. queue' \in 0..MaxQueue
    <3>1. queue \in Nat /\ queue <= MaxQueue /\ MaxQueue \in Nat
      BY UiAssumption DEF UiInv, SlotInv
    <3>2. (queue' = queue + 1 /\ queue < MaxQueue) \/ queue' = 0 \/ queue' = queue
      BY <1>6 DEF EventArmPends, JoinArmPends, SubmitQueued, DropQueue, LoopStop
    <3> QED
      BY <3>1, <3>2
  <2>5. /\ UNCHANGED <<misread, plugins>>
        /\ loop_active' \in {loop_active, FALSE}
        /\ (arm' = arm \/ arm' = "select" \/ (arm' = "join" /\ agent_abort # NoRun))
    BY <1>6 DEF EventArmPends, JoinArmPends, SubmitQueued, DropQueue, LoopStop
  <2>6. SlotInv'
    BY <2>1, <2>4, <2>5 DEF UiInv, SlotInv
  <2> QED
    BY <2>2, <2>3, <2>6 DEF UiInv
<1>7. CASE BackstopFires
  <2>1. /\ HandleError /\ arm' = "select" /\ agent_abort # NoRun
        /\ UNCHANGED <<shell, loose, collided, plugins>>
    BY <1>7 DEF BackstopFires, UiInv, SlotInv
  <2>2. Settles
    <3>1. agent_rx # NoRun /\ "Error" \in Terminal /\ Handle("Error")
      BY <2>1 DEF UiInv, RunInv, Handle, Terminal
    <3> QED
      BY <2>1, <3>1, EndingSettles
  <2>3. misread' \in BOOLEAN /\ loop_active' = loop_active
    BY <1>2, <1>7 DEF BackstopFires, HandleError
  <2> QED
    BY <1>1, <1>2, <2>1, <2>2, <2>3
<1>9. CASE PhaseStep
  <2>0. PICK p \in Phases : PhaseReports(p) \/ PhaseAborts(p)
    BY <1>9 DEF PhaseStep
  <2>1. CASE PhaseReports(p)
    <3>1. /\ arm' = "select"
          /\ UNCHANGED <<shell, loose, misread, collided, plugins>>
      BY <2>1 DEF PhaseReports
    <3>2. loop_active' \in BOOLEAN
      BY <1>2, <2>1 DEF PhaseReports, FinishDone
    <3> QED
      BY <1>1, <1>2, <2>1, <3>1, <3>2, PhaseSettles
  <2>2. CASE PhaseAborts(p)
    <3>1. /\ arm' = "select"
          /\ UNCHANGED <<shell, loose, loop_active, misread, collided, plugins>>
      BY <2>2 DEF PhaseAborts
    <3> QED
      BY <1>1, <1>2, <2>2, <3>1, PhaseSettles
  <2> QED
    BY <2>0, <2>1, <2>2
<1>10. CASE SubmitIdle \/ SlashCommand \/ LoopStart \/ Wake
  <2>1. /\ arm' = "select" /\ loop_active' \in BOOLEAN
        /\ UNCHANGED <<shell, loose, misread, collided, plugins>>
    BY <1>2, <1>10 DEF SubmitIdle, SlashCommand, LoopStart, Wake, Key
  <2> QED
    BY <1>1, <1>2, <1>10, <2>1, IdleSettles
<1>11. CASE CtrlC \/ Esc \/ StartShell \/ ShellExits
  <2>1. /\ arm' = "select" /\ loop_active' \in BOOLEAN /\ loose' \in BOOLEAN
        /\ shell' \in {"none", "grace", "box"} /\ collided' \in BOOLEAN
        /\ UNCHANGED <<misread, plugins>>
    BY <1>2, <1>11 DEF CtrlC, Esc, StartShell, ShellExits, Key
  <2> QED
    BY <1>1, <1>2, <1>11, <2>1, ShellSettles
<1>12. CASE ShellMounts
  <2>1. RunInv' /\ (Orphanless => Orphanless')
    BY <1>12, RunsUnchanged DEF ShellMounts, UiInv
  <2>2. SlotInv'
    BY <1>12 DEF ShellMounts, UiInv, SlotInv
  <2>3. OwnerInv'
    BY <1>12, <2>1 DEF ShellMounts, UiInv, OwnerInv, Sole, HasRun, HasPhase,
                       HasShell
  <2> QED
    BY <2>1, <2>2, <2>3 DEF UiInv
<1>13. CASE UNCHANGED vars
  <2>1. RunInv' /\ (Orphanless => Orphanless')
    BY <1>13, RunsUnchanged DEF vars, UiInv
  <2>2. SlotInv'
    BY <1>13 DEF vars, UiInv, SlotInv
  <2> QED
    BY <1>13, <1>20, <2>1, <2>2 DEF vars, UiInv
<1> QED
  BY <1>3, <1>4, <1>5, <1>6, <1>7, <1>9, <1>10, <1>11, <1>12, <1>13
     DEF Next, UiStep, User

\* The inductive invariant holds throughout.
LEMMA UiInvariant == Spec => []UiInv
<1>1. Init => UiInv
  <2> SUFFICES ASSUME Init PROVE UiInv
    OBVIOUS
  <2>1. RunTypes
    <3>1. chan \in [Runs -> Seq(Events)] /\ \A r \in Runs : Len(chan[r]) <= Cap
      BY UiAssumption DEF Init
    <3> QED
      BY <3>1 DEF Init, RunTypes
  <2>2. RunInv
    BY <2>1 DEF Init, RunInv, OneEndingPerRun
  <2>3. /\ is_running \in BOOLEAN /\ misread \in BOOLEAN /\ loose \in BOOLEAN
        /\ loop_active \in BOOLEAN /\ collided \in BOOLEAN
    BY DEF Init
  <2>4. SlotInv
    BY <2>3, UiAssumption DEF Init, SlotInv
  <2>5. OwnerInv
    BY DEF Init, OwnerInv, Sole, Orphanless, HasRun, HasPhase, HasShell
  <2> QED
    BY <2>2, <2>4, <2>5 DEF UiInv
<1>2. UiInv /\ [Next]_vars => UiInv'
  BY UiInvPreserved
<1> QED
  BY <1>1, <1>2, PTL DEF Spec

\* For any number of runs: the slots, the phases and the channels keep their
\* types, whatever the handlers do.
THEOREM UiTypeCorrect == Spec => []TypeOK
<1>1. UiInv => TypeOK
  BY DEF UiInv, RunInv, RunTypes, SlotInv, TypeOK, Events
<1> QED
  BY <1>1, UiInvariant, PTL

\* For any number of runs: until a shell session ends over a run or a phase,
\* the UI is busy with exactly one run, phase or shell session, through every
\* handler of an ending, every phase, every interrupt and every wake.
THEOREM BusyHasOneOwnerHolds == Spec => []BusyHasOneOwner
<1>1. UiInv => BusyHasOneOwner
  BY DEF UiInv, RunInv, OwnerInv, Sole, BusyHasOneOwner
<1> QED
  BY <1>1, UiInvariant, PTL

\* For any number of runs: until then no task is left without an owner.  The
\* callers of install_into that do not abort first (a prompt, the end of a
\* phase, /loop, a wake, a shell's exit) find the slots empty.
THEOREM NoOrphanRunHolds == Spec => []NoOrphanRun
<1>1. UiInv => NoOrphanRun
  BY DEF UiInv, OwnerInv, Orphanless, NoOrphanRun
<1> QED
  BY <1>1, UiInvariant, PTL

\* How the two can be lost: a shell session's exit arm, the session loose.
CollisionsAreLoose ==
  [][collided' # collided => ShellExits /\ shell # "none" /\ loose]_vars

\* How a session gets loose: Esc, in its grace window.
LooseIsLeft == [][loose' /\ ~loose => Esc /\ shell = "grace"]_vars

\* For any number of runs: the first shell session to end over a run or a
\* phase is one that Esc left behind before its box was mounted; nothing else
\* the user or a run does brings the two together.  With a session that Esc
\* took, as Ctrl+C does, the two invariants above would hold outright.
THEOREM CollisionsNeedEsc == Spec => CollisionsAreLoose /\ LooseIsLeft
<1> USE DEF slots, run, mode, log
<1>1. UiInv /\ [Next]_vars
        => [collided' # collided => ShellExits /\ shell # "none" /\ loose]_vars
  <2> SUFFICES ASSUME UiInv, Next, collided' # collided
               PROVE  ShellExits /\ shell # "none" /\ loose
    OBVIOUS
  <2>1. ShellExits
    BY DEF Next, UiStep, PhaseStep, User, RunProgresses, RunReports, RunEnds,
           RunTakesQueue, TakeProgress, TakeEnding, EventArmPends, BackstopFires,
           JoinArmPends, PhaseReports, PhaseAborts, SubmitIdle, SlashCommand,
           SubmitQueued, DropQueue, LoopStart, LoopStop, CtrlC, Esc, StartShell,
           ShellMounts, Wake
  <2>2. ~collided /\ (HasRun \/ HasPhase) /\ shell # "none"
    BY <2>1 DEF ShellExits, HasRun, HasPhase, UiInv, SlotInv
  <2>3. ~HasShell
    BY <2>2 DEF UiInv, OwnerInv, Sole
  <2> QED
    BY <2>1, <2>2, <2>3 DEF HasShell
<1>2. UiInv /\ [Next]_vars => [loose' /\ ~loose => Esc /\ shell = "grace"]_vars
  <2> SUFFICES ASSUME UiInv, Next, loose', ~loose
               PROVE  Esc /\ shell = "grace"
    OBVIOUS
  <2>1. Esc
    BY DEF Next, UiStep, PhaseStep, User, RunProgresses, RunReports, RunEnds,
           RunTakesQueue, TakeProgress, TakeEnding, EventArmPends, BackstopFires,
           JoinArmPends, PhaseReports, PhaseAborts, SubmitIdle, SlashCommand,
           SubmitQueued, DropQueue, LoopStart, LoopStop, CtrlC, StartShell,
           ShellMounts, ShellExits, Wake
  <2> QED
    BY <2>1 DEF Esc, Key, UiInv, SlotInv
<1>3. /\ [][collided' # collided => ShellExits /\ shell # "none" /\ loose]_vars
           => CollisionsAreLoose
      /\ [][loose' /\ ~loose => Esc /\ shell = "grace"]_vars => LooseIsLeft
  BY DEF CollisionsAreLoose, LooseIsLeft
<1> QED
  BY <1>1, <1>2, <1>3, UiInvariant, PTL DEF Spec

\* For any number of runs: no run is ended twice, though an event, the
\* backstop of the JoinHandle and the user's interrupt can all end it.
THEOREM OneEndingPerRunHolds == Spec => []OneEndingPerRun
<1>1. UiInv => OneEndingPerRun
  BY DEF UiInv, RunInv
<1> QED
  BY <1>1, UiInvariant, PTL

----------------------------------------------------------------------------
(* What an ending leaves unread, and what an idle UI leaves queued.        *)

\* In the channel the UI reads, an ending is the last event, and the run
\* behind it has told.
EndingIsLast ==
  agent_rx # NoRun =>
    \A i \in 1..Len(chan[agent_rx]) :
      chan[agent_rx][i] \in Terminal => i = Len(chan[agent_rx]) /\ told[agent_rx]

\* An event that a run which has not told puts into its channel.
LEMMA DeliverKeepsLast ==
  ASSUME RunInv, EndingIsLast, NEW r \in Runs, NEW e \in Events,
         HasRoom(r), Deliver(r, e), ~told[r], agent_rx' = agent_rx,
         told' \in {told, [told EXCEPT ![r] = TRUE]},
         e \in Terminal => told' = [told EXCEPT ![r] = TRUE]
  PROVE  EndingIsLast'
<1> USE DEF RunInv, RunTypes
<1>1. CASE agent_rx = r
  <2> DEFINE s == chan[r]
             t == Append(s, e)
  <2>1. s \in Seq(Events) /\ Len(s) \in Nat
    OBVIOUS
  <2>2. \A i \in 1..Len(s) : s[i] \notin Terminal
    BY <1>1, UiAssumption DEF EndingIsLast
  <2>3. chan'[r] = t
    BY <1>1 DEF Deliver
  <2>4. /\ Len(t) = Len(s) + 1
        /\ \A i \in 1..Len(t) : i # Len(t) => t[i] \notin Terminal
        /\ t[Len(t)] = e
    BY <2>1, <2>2
  <2>5. e \in Terminal => told'[r]
    OBVIOUS
  <2> HIDE DEF s, t
  <2> QED
    BY <1>1, <2>3, <2>4, <2>5 DEF EndingIsLast
<1>2. CASE agent_rx # r
  <2>1. chan' = chan /\ (agent_rx # NoRun => told'[agent_rx] = told[agent_rx])
    BY <1>2 DEF Deliver
  <2> QED
    BY <2>1 DEF EndingIsLast
<1> QED
  BY <1>1, <1>2

\* What a step of the UI does to the slots.
Reslots ==
  \/ \E r \in Runs, aborting \in BOOLEAN : InstallRun(r, aborting)
  \/ \E busy \in BOOLEAN : Release(busy)
  \/ UNCHANGED <<agent_rx, chan, told>>

\* A fresh run's channel is empty; a released slot reads none.
LEMMA SlotsKeepLast ==
  ASSUME RunInv, EndingIsLast, Reslots
  PROVE  EndingIsLast'
<1>1. ASSUME NEW r \in Runs, NEW aborting \in BOOLEAN, InstallRun(r, aborting)
      PROVE  EndingIsLast'
  <2>1. agent_rx' = r /\ chan'[r] = <<>>
    BY <1>1 DEF InstallRun
  <2> QED
    BY <2>1 DEF EndingIsLast
<1>2. CASE \E busy \in BOOLEAN : Release(busy)
  BY <1>2 DEF Release, EndingIsLast
<1>3. CASE UNCHANGED <<agent_rx, chan, told>>
  BY <1>3 DEF EndingIsLast
<1> QED
  BY <1>1, <1>2, <1>3 DEF Reslots

\* Every step that is not one of the arms' or a run's own goes through an
\* install or a release, or leaves the slots alone.
LEMMA HandlersReslot ==
  ASSUME is_running \in BOOLEAN,
         TakeEnding \/ BackstopFires \/ PhaseStep \/ SubmitIdle
           \/ SlashCommand \/ LoopStart \/ LoopStop \/ CtrlC \/ Esc
           \/ StartShell \/ ShellMounts \/ ShellExits \/ Wake
  PROVE  Reslots
<1>1. ASSUME Install \/ Replace PROVE Reslots
  BY <1>1 DEF Install, Replace, Reslots
<1>2. ASSUME NEW busy \in BOOLEAN, Release(busy) PROVE Reslots
  BY <1>2 DEF Reslots
<1>3. ASSUME NEW busy, Flag(busy) PROVE Reslots
  BY <1>3 DEF Flag, run, Reslots
<1>4. ASSUME DrainOrRest \/ DrainInterjections PROVE Reslots
  BY <1>1, <1>2, <1>3, <1>4 DEF DrainOrRest, DrainInterjections
<1>5. ASSUME NEW rest, FinishDone(rest) PROVE Reslots
  BY <1>1, <1>2, <1>4, <1>5 DEF FinishDone
<1>6. ASSUME NEW rest, SubmitPrompt(rest) PROVE Reslots
  BY <1>1, <1>3, <1>6 DEF SubmitPrompt
<1>7. CASE TakeEnding
  <2>1. PICK e \in Terminal : Handle(e)
    BY <1>7 DEF TakeEnding
  <2>2. HandleDone \/ HandleError \/ HandleInterjected \/ HandleOverflow
    BY <2>1 DEF Handle, Terminal
  <2> QED
    BY <1>2, <1>4, <1>5, <2>2
       DEF HandleDone, HandleError, HandleInterjected, HandleOverflow
<1>8. CASE PhaseStep
  <2>0. PICK p \in Phases : PhaseReports(p) \/ PhaseAborts(p)
    BY <1>8 DEF PhaseStep
  <2>1. CASE PhaseReports(p)
    BY <1>1, <1>3, <1>4, <1>5, <1>6, <2>1 DEF PhaseReports
  <2>2. CASE PhaseAborts(p)
    BY <1>3, <2>2 DEF PhaseAborts
  <2> QED
    BY <2>0, <2>1, <2>2
<1>9. CASE BackstopFires
  BY <1>2, <1>9 DEF BackstopFires, HandleError
<1>10. CASE SubmitIdle \/ SlashCommand \/ LoopStart \/ Wake
  BY <1>1, <1>3, <1>6, <1>10 DEF SubmitIdle, SlashCommand, LoopStart, Wake
<1>11. CASE CtrlC \/ Esc \/ StartShell \/ ShellExits
  BY <1>1, <1>2, <1>3, <1>4, <1>11 DEF CtrlC, Esc, StartShell, ShellExits
<1>12. CASE LoopStop \/ ShellMounts
  BY <1>12 DEF LoopStop, ShellMounts, slots, run, Reslots
<1> QED
  BY <1>7, <1>8, <1>9, <1>10, <1>11, <1>12

\* Every step leaves the ending last.
LEMMA EndingIsLastPreserved ==
  ASSUME UiInv, EndingIsLast, [Next]_vars
  PROVE  EndingIsLast'
<1> USE DEF slots, run, log
<1>0. RunInv
  BY DEF UiInv
<1>1. ASSUME UNCHANGED <<agent_rx, chan, told>>
      PROVE  EndingIsLast'
  BY <1>1 DEF EndingIsLast
<1>2. ASSUME NEW r \in Runs,
             RunProgresses(r) \/ RunReports(r) \/ RunEnds(r) \/ RunTakesQueue(r)
      PROVE  EndingIsLast'
  <2>1. CASE RunProgresses(r)
    <3>1. "Progress" \in Events /\ "Progress" \notin Terminal
      BY DEF Events, Terminal
    <3> QED
      BY <1>0, <2>1, <3>1, DeliverKeepsLast DEF RunProgresses
  <2>2. CASE RunReports(r)
    <3>1. PICK e \in Terminal : Deliver(r, e)
      BY <2>2 DEF RunReports
    <3> QED
      BY <1>0, <2>2, <3>1, DeliverKeepsLast DEF RunReports, Events
  <2>3. CASE RunEnds(r)
    <3>1. "Error" \in Events
      BY DEF Events, Terminal
    <3>2. CASE ~told[r] /\ HasRoom(r)
      BY <1>0, <2>3, <3>1, <3>2, DeliverKeepsLast DEF RunEnds
    <3>3. CASE ~(~told[r] /\ HasRoom(r))
      BY <1>1, <2>3, <3>3 DEF RunEnds
    <3> QED
      BY <3>2, <3>3
  <2>4. CASE RunTakesQueue(r)
    BY <1>1, <2>4 DEF RunTakesQueue
  <2> QED
    BY <1>2, <2>1, <2>2, <2>3, <2>4
<1>3. CASE TakeProgress
  <2> DEFINE s == chan[agent_rx]
  <2>1. agent_rx \in Runs /\ s # <<>> /\ s \in Seq(Events)
    BY <1>0, <1>3 DEF TakeProgress, HasEvent, RunInv, RunTypes
  <2>2. /\ Len(Tail(s)) = Len(s) - 1 /\ Len(s) \in Nat
        /\ \A i \in 1..Len(Tail(s)) : Tail(s)[i] = s[i + 1]
    BY <2>1
  <2>3. /\ chan'[agent_rx] = Tail(s) /\ UNCHANGED <<agent_rx, told>>
    BY <1>0, <1>3, <2>1 DEF TakeProgress, RunInv, RunTypes
  <2>4. \A i \in 1..Len(s) : s[i] \in Terminal => i = Len(s) /\ told[agent_rx]
    BY <2>1, UiAssumption DEF EndingIsLast
  <2> HIDE DEF s
  <2>5. \A i \in 1..Len(Tail(s)) :
          Tail(s)[i] \in Terminal => i = Len(Tail(s)) /\ told[agent_rx]
    BY <2>2, <2>4
  <2> QED
    BY <2>3, <2>5 DEF EndingIsLast
<1>4. CASE EventArmPends \/ JoinArmPends \/ SubmitQueued \/ DropQueue
  BY <1>1, <1>4 DEF EventArmPends, JoinArmPends, SubmitQueued, DropQueue
<1>5. CASE TakeEnding \/ BackstopFires \/ PhaseStep \/ SubmitIdle
             \/ SlashCommand \/ LoopStart \/ LoopStop \/ CtrlC \/ Esc
             \/ StartShell \/ ShellMounts \/ ShellExits \/ Wake
  <2>1. is_running \in BOOLEAN
    BY DEF UiInv, SlotInv
  <2> QED
    BY <1>0, <1>5, <2>1, HandlersReslot, SlotsKeepLast
<1>6. CASE UNCHANGED vars
  BY <1>1, <1>6 DEF vars
<1> QED
  BY <1>2, <1>3, <1>4, <1>5, <1>6 DEF Next, UiStep, User

\* An ending is the last event of the channel the UI reads, at every moment.
LEMMA EndingIsLastHolds == Spec => []EndingIsLast
<1>1. Init => EndingIsLast
  BY DEF Init, EndingIsLast
<1>2. UiInv /\ EndingIsLast /\ [Next]_vars => EndingIsLast'
  BY EndingIsLastPreserved
<1> QED
  BY <1>1, <1>2, UiInvariant, PTL DEF Spec

\* Taking an ending drops the receiver with nothing else in it.
EndingsDropNothing == [][TakeEnding => Len(chan[agent_rx]) = 1]_vars

\* For any capacity: when the UI takes a run's ending and lets its receiver
\* go, no event it would have acted on is left unread in it, so handle_done,
\* handle_error and the others may drop the channel without draining it.  A
\* checkpoint refresh, which may follow an ending and can be lost here, is
\* RunPipe's subject and not an event of this module.
THEOREM EndingDropsNothing == Spec => EndingsDropNothing
<1>1. UiInv /\ EndingIsLast /\ [Next]_vars
        => [TakeEnding => Len(chan[agent_rx]) = 1]_vars
  <2> SUFFICES ASSUME UiInv, EndingIsLast, TakeEnding
               PROVE  Len(chan[agent_rx]) = 1
    OBVIOUS
  <2> DEFINE s == chan[agent_rx]
  <2>1. agent_rx # NoRun /\ s # <<>> /\ s \in Seq(Events) /\ Head(s) \in Terminal
    BY DEF TakeEnding, HasEvent, UiInv, RunInv, RunTypes
  <2>2. Len(s) \in Nat /\ Len(s) >= 1 /\ s[1] = Head(s)
    BY <2>1
  <2>3. \A i \in 1..Len(s) : s[i] \in Terminal => i = Len(s)
    BY <2>1 DEF EndingIsLast
  <2> HIDE DEF s
  <2>4. 1 \in 1..Len(s)
    BY <2>2
  <2>5. Len(s) = 1
    BY <2>1, <2>2, <2>3, <2>4
  <2> QED
    BY <2>5 DEF s
<1> QED
  BY <1>1, UiInvariant, EndingIsLastHolds, PTL DEF Spec, EndingsDropNothing

\* What the backstop can misread: a report that came after its poll of the
\* event channel, from a run that has told.
MisreadsAreLate ==
  [][misread' # misread =>
       /\ BackstopFires /\ task[agent_abort] = "ended" /\ told[agent_abort]
       /\ chan[agent_abort][Len(chan[agent_abort])] \in Terminal \ {"Error"}]_vars

\* For any capacity: the only step that reports a finished run as a failed one
\* is the JoinHandle arm of the select, and only when the run's own report is
\* the last event in the channel: the run told, then ended, after the event
\* arm of the same select had found the channel empty.
THEOREM MisreadOnlyLate == Spec => MisreadsAreLate
<1> DEFINE Late ==
      /\ BackstopFires /\ task[agent_abort] = "ended" /\ told[agent_abort]
      /\ chan[agent_abort][Len(chan[agent_abort])] \in Terminal \ {"Error"}
<1>1. UiInv /\ EndingIsLast /\ [Next]_vars => [misread' # misread => Late]_vars
  <2> SUFFICES ASSUME UiInv, EndingIsLast, Next, misread' # misread
               PROVE  Late
    OBVIOUS
  <2>1. BackstopFires
    BY DEF Next, UiStep, PhaseStep, User, RunProgresses, RunReports, RunEnds,
           RunTakesQueue, TakeProgress, TakeEnding, EventArmPends, JoinArmPends,
           PhaseReports, PhaseAborts, SubmitIdle, SlashCommand, SubmitQueued,
           DropQueue, LoopStart, LoopStop, CtrlC, Esc, StartShell, ShellMounts,
           ShellExits, Wake, log
  <2>2. Buffered \cap (Terminal \ {"Error"}) # {} /\ agent_rx = agent_abort
    BY <2>1 DEF BackstopFires, UiInv, RunInv, SlotInv
  <2>3. PICK i \in 1..Len(chan[agent_rx]) :
          chan[agent_rx][i] \in Terminal \ {"Error"}
    BY <2>2 DEF Buffered
  <2>4. agent_rx # NoRun
    BY <2>1, <2>2 DEF BackstopFires, UiInv, SlotInv
  <2>5. i = Len(chan[agent_rx]) /\ told[agent_rx]
    BY <2>3, <2>4 DEF EndingIsLast
  <2> QED
    BY <2>1, <2>2, <2>3, <2>5 DEF BackstopFires
<1>2. [][misread' # misread => Late]_vars => MisreadsAreLate
  BY DEF MisreadsAreLate
<1> QED
  BY <1>1, <1>2, UiInvariant, EndingIsLastHolds, PTL DEF Spec

\* Who may leave a prompt queued behind an idle UI, by going idle or by
\* queueing it there.
StrandedByThree ==
  [][~is_running' /\ queue' > 0 /\ (is_running \/ queue' > queue)
       => \/ Esc
          \/ \E p \in Phases : PhaseAborts(p)
          \/ SubmitQueued /\ ~is_running /\ loop_active]_vars

\* For any number of runs: prompts come to wait behind an idle UI in three ways
\* only: the user's Esc, which means to keep them; a phase that is aborted or
\* whose channel closes; and a prompt typed while /loop is on and its run has
\* failed, which is queued though nothing is running.  Every other ending, the
\* shell's among them, drains or drops them.
THEOREM StrandedOnlyByAbort == Spec => StrandedByThree
<1> DEFINE Strands == ~is_running' /\ queue' > 0 /\ (is_running \/ queue' > queue)
           Three == \/ Esc
                    \/ \E p \in Phases : PhaseAborts(p)
                    \/ SubmitQueued /\ ~is_running /\ loop_active
<1>1. UiInv /\ [Next]_vars => [Strands => Three]_vars
  <2> SUFFICES ASSUME UiInv, Next, Strands
               PROVE  Three
    OBVIOUS
  <2> USE DEF slots, run
  <2>0. queue \in Nat /\ queue' > 0 /\ ~is_running'
    BY UiAssumption DEF UiInv, SlotInv
  <2>1. ASSUME Install \/ Replace PROVE FALSE
    BY <2>0, <2>1 DEF Install, Replace, InstallRun
  <2>2. ASSUME Release(TRUE) \/ Flag(TRUE) PROVE FALSE
    BY <2>0, <2>2 DEF Release, Flag
  <2>3. ASSUME queue' = 0 PROVE FALSE
    BY <2>0, <2>3
  <2>4. ASSUME DrainOrRest \/ DrainInterjections PROVE FALSE
    BY <2>0, <2>1, <2>4 DEF DrainOrRest, DrainInterjections
  <2>5. ASSUME NEW rest, FinishDone(rest) PROVE FALSE
    BY <2>1, <2>2, <2>4, <2>5 DEF FinishDone
  <2>6. ASSUME is_running' = is_running, queue' = queue PROVE FALSE
    BY <2>0, <2>6
  <2>7. ASSUME TakeEnding PROVE FALSE
    <3>1. PICK e \in Terminal : Handle(e)
      BY <2>7 DEF TakeEnding
    <3>2. HandleDone \/ HandleError \/ HandleInterjected \/ HandleOverflow
      BY <3>1 DEF Handle, Terminal
    <3> QED
      BY <2>3, <2>4, <2>5, <2>6, <3>2
         DEF HandleDone, HandleError, HandleInterjected, HandleOverflow, Release
  <2>8. ASSUME NEW p \in Phases, PhaseReports(p) PROVE FALSE
    BY <2>1, <2>2, <2>3, <2>4, <2>5, <2>8 DEF PhaseReports, SubmitPrompt
  <2>9. ASSUME BackstopFires \/ CtrlC PROVE FALSE
    BY <2>3, <2>9 DEF BackstopFires, HandleError, CtrlC
  <2>10. ASSUME SubmitIdle \/ SlashCommand \/ LoopStart \/ Wake \/ StartShell
         PROVE  FALSE
    BY <2>1, <2>2, <2>10
       DEF SubmitIdle, SubmitPrompt, SlashCommand, LoopStart, Wake, StartShell
  <2>11. ASSUME ShellExits PROVE FALSE
    BY <2>1, <2>4, <2>11 DEF ShellExits
  <2>12. ASSUME NEW r \in Runs,
                RunProgresses(r) \/ RunReports(r) \/ RunEnds(r)
                  \/ RunTakesQueue(r)
         PROVE  FALSE
    BY <2>3, <2>6, <2>12
       DEF RunProgresses, RunReports, RunEnds, RunTakesQueue
  <2>13. ASSUME TakeProgress \/ EventArmPends \/ JoinArmPends \/ DropQueue
                  \/ LoopStop \/ ShellMounts
         PROVE  FALSE
    BY <2>3, <2>6, <2>13
       DEF TakeProgress, EventArmPends, JoinArmPends, DropQueue, LoopStop,
           ShellMounts
  <2>14. ASSUME SubmitQueued PROVE ~is_running /\ loop_active
    BY <2>0, <2>14 DEF SubmitQueued
  <2> HIDE DEF Strands
  <2> QED
    BY <2>7, <2>8, <2>9, <2>10, <2>11, <2>12, <2>13, <2>14
       DEF Next, UiStep, PhaseStep, User
<1>2. [][Strands => Three]_vars => StrandedByThree
  BY DEF StrandedByThree
<1> HIDE DEF Strands, Three
<1> QED
  BY <1>1, <1>2, UiInvariant, PTL DEF Spec

=============================================================================
