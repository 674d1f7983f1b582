# dirge: verification models

dirge is a terminal coding agent written in Rust. A *run* sends a prompt to a
model, executes the tool calls of the answer, and goes round until the model
has nothing more to do and the harness agrees. The models here cover the part of
the program where several actors and many counters meet: the turn loop, the
dispatch of a batch of tool calls, the folding of the context, the gates that
decide whether a run may finish, the task and the channels that carry a run's
events to its front end, and the front end's own bookkeeping of which run it is
waiting for.

Paths below are relative to the repository root; `agent_loop/` stands for
`src/agent/agent_loop/` and `ui/` for `src/ui/`.

## 1. Inventory

### Components that are modelled

| Component | State it keeps | Operations | Talks to |
|---|---|---|---|
| **Turn loop** `agent_loop/run.rs` (`run_loop`), the backfill in `tools.rs` | transcript, `pending_messages`, `turns_taken`, recovery counters, the compaction breaker, batch of tool calls, the flags of the `AbortSignal` | poll steering, fold the context, request, stream, storm breaker, publish guard, execute batch, post-usage tiers, follow-ups | drains the UI's interjection queue; emits `LoopEvent`s; polls the gates |
| **Tool dispatch** `agent_loop/tools.rs` (`execute_tool_calls`), `tool_retry.rs`, `inflight.rs`, `src/human_wait.rs` | per call: attempt, outcome, events; the spinner set, the process-wide count of open prompts | prepare, execute under a biased select, watch, retry, finalize, emit, cancel, drop | called by the turn loop, calls tools and hooks, feeds the verifier gate |
| **Context compaction** `run_compaction_pass_with_focus`, `restore_working_files`, `spawn_incremental_checkpoint` in `run.rs`; `src/agent/compression.rs`, `src/session/compact.rs` | the live message list, the breaker, the checkpoint slot, its epoch and schedule | fast fold over a cached checkpoint, inline fold, file snapshots, background checkpoints | called twice an iteration by the turn loop; detached tasks write the slot |
| **Finalization gates** `poll_finalization_follow_up` in `run.rs`, `gate_state.rs`, `claim_gate.rs`, `source_gate.rs`, `completeness_gate.rs`, `critic.rs`, `goal.rs` | `GateStates`: a counter per gate, the judge's one-shot flag, the fingerprint and the findings of the last review | in fixed order: awaiting-user, hook, deferral, resume, verifier, claim, source, judge, goal, todo, open issues, tracking, completeness | reads the transcript, the working tree, the process-global todo list; a follow-up reopens the turn loop |
| **Verifier gate** `agent_loop/verifier.rs` | `Inner`: edits and checks seen, tiers seen green, nudges spent | `record_outcome`, `status`, `check_before_finalize` | fed by tool execution, asked by the gates and the judges |
| **Run pipe** `agent_loop/integration.rs` (`spawn_loop_runner`), `run_end.rs`, `bridge.rs` | two bounded channels, the settled flag, the weak sender of the detached checkpoint | emit, translate, forward, settle, epitaph, abort | turn loop on one side, any front end on the other |
| **Interactive run state** `ui/mod.rs`, `ui/run_handlers/*`, `agent/runner.rs` | `agent_rx`, `agent_abort`, `is_running`, the off-loop phases, the shell session, the `/loop` mode, the interjection queue | submit, slash commands, `!cmd`, `/loop`, background and vigil wakes, Ctrl+C, Esc, Alt+X, the handlers of the four terminal events, the `JoinHandle` backstop | runs on the agent thread, through their event channel and their join handle |

### Components that are not modelled

The model stream and its retry, storm and failure guards, background tasks and
subagents, the permission engine, provider throttling and token refresh, the
credential file lock, session storage (the durable checkpoint included), the
JSON-RPC/LSP/DAP client, the plugin worker, vigils, the SQLite stores, MCP/ACP
transports, the sandbox, text compression and indexing. `PROJECT.json` gives
the reason for each; section 8 says which are planned.

**C code.** The program is Rust; the repository's few C files belong to other
projects. `grammars/tree-sitter-mojo/src/parser.c` (over 200 000 lines) is a
table that the tree-sitter generator writes from a grammar, `scanner.c` and the
headers beside it are vendored with that grammar, and `wasm-janet/janet_wasm.c`
is a shim with which a demo bundle starts an interpreter. None of it carries
logic of this program, and a module made from a generated table would check the
generator, so none of it is modelled.

### What is hard here

* **Interleaving.** The agent thread and the UI thread share a queue and two
  slots; the user types, interrupts and submits at any moment; the select of
  the UI polls its arms one after the other while the run goes on.
* **Endings.** A run may end by its own decision, by the cap, by a failed
  stream, by a panic in a tool, by an abort at any await. Each path must tell
  the consumer once, and free the slots once.
* **Going round.** Transient errors, storms, compaction, forced turn ends,
  steering and thirteen gates each send the loop round again, with a budget
  each; some reset the counters of others. The gates look at the messages of
  the whole run, so their conditions, once true, stay true.
* **History well-formedness.** Providers reject a tool call without its result.
  Suppressed, refused and cancelled calls all leave holes that one backfill
  must close.
* **Dropped futures.** A cancel, a watchdog and the abort of the task drop a
  call's future at any await; what it counted or showed must be given back.
* **Stale summaries.** A checkpoint is made off the loop, of a list that folds
  and restored snapshots rearrange before it lands.
* **Partial failure.** A judge that times out must neither block the run nor
  count as a verdict; a summarizer that fails must trip a breaker once a round.

`PROJECT.json` lists the hazards at their lines with the properties aimed at
them.

## 2. Modules

| Module | Models | Extends / composes |
|---|---|---|
| `BatchContract` | the sets of calls a batch may answer | |
| `AgentLoop` | `run_loop` and the actors beside it | `BatchContract` |
| `Descent` | the well-founded order the termination arguments use | |
| `AgentLoopProofs` | proofs | `AgentLoop`, `Descent` |
| `ToolBatch` | abstract: what a batch promises the turn loop | `BatchContract` |
| `ToolDispatch` | one batch of tool calls, call by call | `INSTANCE ToolBatch` |
| `ToolDispatchProofs` | proofs, refinement included | `ToolDispatch` |
| `Compaction` | the live context, folds and checkpoints | |
| `CompactionProofs` | proofs | `Compaction` |
| `RunEvents` | abstract: what a run promises its consumer | |
| `RunPipe` | the run's task: loop, pump, epitaph, channels | `INSTANCE RunEvents` |
| `RunPipeProofs` | proofs, refinement included | `RunPipe` |
| `UiRuns` | the front end's slots, phases and handlers | |
| `UiRunsProofs` | proofs | `UiRuns` |
| `VerifierGate` | the verifier's record as pure operators | |
| `FinalizationGates` | the poll of the gates over a whole run | `VerifierGate` |
| `FinalizationProofs` | proofs | `FinalizationGates`, `Descent` |
| `MC*` | instances for TLC | |

The modules lean on each other at these seams:

* `AgentLoop` takes a batch in one step that answers one of the `Answerable`
  sets of calls. `ToolBatch` states the same operator as a specification, and
  `ToolDispatch` is shown to implement it, at every interleaving of the calls.
* `AgentLoop` knows of a fold only whether it succeeded, failed or was skipped;
  `Compaction` opens that box and keeps the list. The loop's own guards around
  it (`folded_this_turn`, the breaker, one record a round) are in both.
* `VerifierGate` reads outcomes as a sequence; `VerifierInOrder` of
  `ToolDispatch` says that sequence is the one the model asked for.
* `AgentLoop` lets the gates order up to `GateBudget` follow-ups.
  `FinalizationGates` opens that box: `FollowUpBudget` says such a bound exists
  and what it is.
* `FinalizationGates` lets the model work between two finalizations and
  assumes it concludes; `Termination` of `AgentLoop` is why.
* `UiRuns` treats a run as what `RunEvents` allows (progress, at most one
  ending, the end of the task, perhaps in silence); `RunPipe` is shown to
  implement `RunEvents`.

### State and actions against the code

**AgentLoop.** `pc` follows the nested loops of `run_loop`: `outer` is the
outer loop's head, `head` the inner `while`, `settle` the post-usage decision
and `boundary` the code after the inner loop. Other variables have the names of
the code. Of the transcript only the last assistant turn is kept: its calls
(`asked`), the number of results of each (`answers`), and whether another
message stands between them (`intruded`). The summarizer succeeds, fails or is
skipped, the storm breaker picks any set of calls, the provider answers with
any set of calls: these are inputs. A cancelled batch leaves any part but its
first call undone (`Answerable`).
Boundary nudges and the refresh of working files are left out: they only add
user messages at places where no call is open. So is `prepare_next_turn`, which
runs at the same places. Its result could replace the whole context
(`run.rs:4287-4288`), but the one constructor of it outside the tests sets
`context: None` (`plugin_hooks.rs:333`), which leaves the thinking level of the
next request.

**ToolDispatch.** `stage[c]` is the await call `c` stands at, `pc` that of the
function around it: `loop` over the calls, `join` (`join_all`), `emit` of the
results. The futures of a parallel batch are created in the loop and first
polled in the join, so before that only the call at `current` moves. The three
arms of the select are `CancelWins`, `ToolReturns` and `WatchdogFires`; that it
is biased is in their guards and in `BeginAttempt`. `DropBatch` is the abort of
the task or a panic in it: it runs the destructors of every live future
(`HoldsGuard`, `Asking`). A tool's kind is what the dispatcher asks of it:
whether it may run beside others and whether it may be repeated.

**Compaction.** A message is a role and the set of original messages it
accounts for; a summary accounts for what its maker was given. `pc = "start"`
is the fold at the head of an iteration, `send` the request, `usage` the
decision after the report. `summarizing` splits the inline pass at its await,
where checkpoints may land. Which tier is taken depends on token counts and is
a choice. A snap returns the set of its one result, so that a cut that does not
exist is the empty set. `restore_working_files` inserts one snapshot for the
code's up to five, which stand in a row.

**RunPipe.** One task holds loop and pump (`tokio::join!`), so an abort or a
panic takes both. A `tokio` channel is a sequence with a capacity and a FIFO of
waiting senders. `sent` is the event channel's whole history, `read` how much
the consumer took. `translate` maps a loop's end to any of the four terminal
events and everything else to `Progress` or `Refresh`.

**UiRuns.** `arm = "join"` is the moment between the two polls of the biased
select, with the event channel found empty. Handlers are split where the code
awaits a phase: `HandleDone` starts the review or the hook phase, `FinishDone`
is what its result does. `plugins` says whether hooks run off the loop.
`is_running` is a flag that each owner sets and clears for itself, so `phases`
and `shell` are kept beside it rather than derived from it. `install_into`
overwrites the slots and aborts nothing (`InstallRun`); `Replace` is a handler
that aborts first, `Install` one that does not, and `Release` and `Flag` are
the same distinction for handlers that start no run. A shell session is in its
`grace` window until its `box` is mounted; only in the window do keys reach the
UI. Ctrl+C takes the session, Esc does not: `loose` is a session Esc has left
behind, and `collided` records that a session ended while a run or a phase
held the UI, which its exit arm does not look at. Under `/loop` a prompt is
queued whether or not a run is going. What a shell prints and reads, the count
of `/loop` iterations (an iteration may always be the last) and quitting are
left out.

**FinalizationGates.** `pc` names the gate to be polled next, because the poll
awaits hooks, judges and git between them. What a scanner or a judge finds in
the final answer is an input; so are the todo list, the issue store and the
modified-files set, which other agents of the process change. What a gate finds
in the transcript is state (`work`). `Trees` are diff fingerprints; a capture
can fail (`NoDiff`). `judge` and `sent` are history; `sent.legacy` is what the
verifier's one-shot nudge said.

## 3. Runs

Distinct states in parentheses. Bounds are named in the modules' `CONSTANTS`.

| Run | Checks |
|---|---|
| `agent_loop` (559 k) | the history is well-formed at every request (`CallsAnsweredOnce`, `ResultsFollowCalls`); the cap (`TurnBudget`), the breaker (`OneStrikePerRound`); a run that finishes by itself drops no message (`FinishedRunsDropNoSteering`); every run ends (`Termination`) |
| `tool_dispatch` (145 k) | events and spinners balance on every exit path (`EventsPair`, `SpinnersStop`), so does the count of open prompts (`PromptsCounted`, `TypeOK`: it is unsigned); no effect happens twice (`NoEffectTwice`); the verifier is fed in order (`VerifierInOrder`); the watchdog spares people (`PeopleAreNotCut`) and cuts hung tools (`HungToolsAreCut`); a cancel ends the batch (`CancelEndsBatch`); the contract of `AgentLoop` is kept (`ImplementsBatch`) |
| `compaction` (2.3 M) | a checkpoint that would be reused matches the list below its boundary (`FreshCheckpoints`); no fold separates a call from its results (`CutsKeepPairs`); what leaves the context went into the summary, the latest earlier summary included (`FoldsCarryOver`); the breaker (`TypeOK`) |
| `run_pipe` (54 k) | one ending (`OneEnding`), nothing of the loop after it (`OnlyARefreshIsLate`), no silent death while there is room (`NoSilentDeath`), `RunEvents` is implemented (`KeepsPromise`), nobody waits for ever (`RunEnds`), a torn-down run stops (`TornDownRunsEnd`) |
| `ui_runs` (253 k) | as long as no shell session has ended over a run or a phase: one owner of the busy state (`BusyHasOneOwner`), no forgotten task (`NoOrphanRun`), every run leaves the slots (`RunsAreLetGo`); always: one ending per run (`OneEndingPerRun`) |
| `finalization_gates` (415 k) | one budget over all gates, one verdict, no review lost to a failure or a stale memo, no answered finding raised twice in a row, control handed back; what the verifier said to a run that ends unverified (`UnverifiedWorkIsChallenged`: the right word for code never checked and for fast-green code, one of two words for red code) |
| `advisory_splits_results`, `steering_lost`, `backstop_misreads`, `shell_left_behind`, `project_gate_not_escalated`, `snapshots_split_pairs` | six statements of comments that the code does not keep, section 7 |

**Why the bounds are enough.** Two calls a turn let one be suppressed, refused
or cut off while the other runs. Three turns with one transient recovery, two
compaction strikes, one hook, one gate and one steering message let each of
them follow each other and let the breaker open. Two calls of any kinds, in
either mode, with one prompt each let a prompt of one call disarm the watchdog
of the other, let a read be retried while its neighbour is cut, and let a
cancel fall before, between and after them; three attempts are the code's.
In `compaction` the head has the code's two messages and the tail one, so that
six messages hold a call with two results, a user turn and two folds, of either
kind and in either order; two thresholds give two checkpoints in flight at
once. The violation run takes the code's tail of five. Channels of capacity two with
six events block the loop, the pump and the late checkpoint in every order, and
the run can be longer than both channels. Two runs are one in the slots and
one still on its way out, aborted or forgotten; ids are reused, so the number of
runs in a behaviour is not bounded, and neither is that of shell sessions. What
a third task would add is only that two are on their way out at once, and the
proofs are for any number. The gates' caps are two where a second time
differs from the first (one for the resume gate, whose nudge is the same each
time, and for the track gate, as in the code), and one work step between finalizations suffices because `work` accumulates.
The thirteen configurations of `MCFinalizationGates` arm gates together whose
budgets or memos interact; unarmed gates pass. The proofs remove these bounds
for the safety properties.

## 4. Fairness

* `AgentLoop`: weak fairness of the loop's steps together. The loop is one task
  a runtime polls; its awaits end by a timeout, or by the user's answer to a
  prompt, which is taken to come. The environment (typing, interrupts) has no
  fairness.
* `ToolDispatch`: weak fairness of the dispatcher's steps together: a ready
  task is polled, timers expire, and the hook around a call returns (the plugin
  worker bounds each evaluation). Nothing is
  assumed of tools, people and cancels. `HungToolsAreCut` therefore speaks of
  batches in which eventually no prompt is open.
* `Compaction`: safety only; that folding does not go on for ever is
  `Termination` of `AgentLoop`.
* `RunPipe`: weak fairness of the task, of the delivery of an abort, and of a
  consumer that holds its receiver and reads. A consumer that leaves without
  an abort is in the model, and no liveness is claimed for it.
* `UiRuns`: weak fairness of the UI's select loop, of a phase (each is a task
  with a result or a dropped sender), and of the end of a task.
* `FinalizationGates`: weak fairness of the poll, which includes that the model
  ends its turn; `AgentLoop`'s cap is the reason. The hook speaks a bounded
  number of times (`MaxHooks`): the code does not bound it, since it delivers
  results of background work, and `HandsBack` is claimed for finitely many.

## 5. Proofs

Checked by TLAPS for every value of the constants that satisfies the named
assumptions (`LoopAssumption`, `DispatchAssumption`, `CompactionAssumption`, `PipeAssumption`, `UiAssumption`,
`VerifierAssumption`, `GatesAssumption`: caps are numbers, capacities are
positive, `NoRun` and `NoDiff` are not a run and not a diff).

| Theorem | Inductive invariant, and why it is needed |
|---|---|
| `TypeCorrect`, `TurnBudgetHolds`, `OneStrikeHolds`, `CallsAnsweredHolds`, `ResultsFollowHolds`, `SteeringKept` (`AgentLoopProofs`) | `BudgetInv`: while a request is still possible a turn is left, which `TurnBudget` does not say of the points between requests. `StrikeInv`: a round that has recorded nothing has added no strike. `AnsweredInv`: inside the handling of a batch no call has a result yet and dispatched and refused calls are disjoint, so the backfill adds exactly one; with it, what a turn injects finds no call open, and `ResultsFollowHolds` needs only that the guard is not advisory. `SteeringInv`: every typed message is delivered, queued or pending, and pending is empty where it would be overwritten. |
| `TypeCorrect`, `StartsAreEnded`, `SpinnersEnd`, `PromptsAreCounted`, `EffectsHappenOnce`, `VerifierIsFedInOrder`, `PeopleHaveTime`, `DispatchImplementsBatch` (`ToolDispatchProofs`) | `PlaceInv` says where each call may stand for a given `pc` and `current`: calls after `current` are untouched, those before it are ended, or queued in a parallel batch, and a loop left early was cancelled. `EventInv` and `GuardInv` tie the events and the spinner set to that stage, `AttemptInv` the executions to the attempts. `OrderInv` keeps what was recorded at or below `current` in a sequential batch, `CutInv` says that a call still under way was not cut, which makes a cut an event of one step. `MessageInv` makes the results the sequence 1, 2, ... at every point; with `PlaceInv`, each step of the dispatch then maps to a step of `BatchSpec` or a stutter. |
| `TypeCorrect`, `CheckpointsAreFresh`, `FoldsKeepPairs`, `FoldsLoseNothing` (`CompactionProofs`) | `EpochInv`: no checkpoint belongs to a later epoch than the loop's, so that a fold leaves none that could be reused. `StageInv`: while a summary is awaited the breaker is closed. The list surgery is proved once: `Retain` keeps the chosen messages in order (`Rank...` lemmas, over the well-founded order of numbers), a safe cut is not at a result, and both folds keep head and tail of a paired list paired and lose no original. |
| `PipeTypeCorrect`, `OneEndingHolds`, `OnlyARefreshIsLateHolds`, `NoSilentDeathHolds`, `PipeImplementsRunEvents` (`RunPipeProofs`) | `PipeInv` follows the loop's end message down the pipe: ahead of it the loop is still running, behind it, in either channel and among the waiting senders, there are only refreshes; and a live task is settled exactly when its ending was delivered. The refinement maps `closed` to the end of the task. |
| `UiTypeCorrect`, `BusyHasOneOwnerHolds`, `NoOrphanRunHolds`, `CollisionsNeedEsc`, `OneEndingPerRunHolds` (`UiRunsProofs`) | `RunInv`, which holds always: the run in the slots has had no ending yet. `OwnerInv`, until a shell session collides: exactly one owner behind the flag, and no orphan. An install that aborts nothing keeps it because the handler that makes it owns the UI itself, so no run can be in the slots; that is the step the shell's exit arm fails for a loose session. `CollisionsNeedEsc` says that a collision is the exit of a loose session and that only Esc in the grace window makes one loose. Every handler goes through `InstallRun`, `Release` or `Flag`, which are shown once to keep their part. |
| `GatesTypeCorrect`, `FollowUpBudgetHolds`, `OneVerdictHolds`, `JudgeNotLostHolds`, `RebuttalStandsHolds`, `UnverifiedWorkIsChallengedHolds` (`FinalizationProofs`) | `BudgetInv`: each follow-up was charged to a counter (`Accounted`) and each counter is within the cap of the run's configuration. `JudgeInv`: what the memo says was reviewed and found, and what must hold of the judge below its place in the poll. `VerifierInv`: below the verifier gate nothing changes what it has seen. `Told`: `fired` stands for a nudge that was sent, and while no check has run it can only have said so. The last theorem assumes that no configuration has a project gate; section 7 has the reason. |

### Why things come to an end

Liveness under fairness cannot be proved here, but the two facts each liveness
property rests on can: that there is always a step, and that there are finitely
many. What remains to TLC is to put them together with the fairness of `Spec`.

| Theorem | Argument |
|---|---|
| `LexIsWellFounded` (`Descent`) | Lexicographic order on tuples of numbers, from the library's theorem on products of well-founded orders. `LexAt` names the place at which a tuple falls. |
| `LoopRunsOut` (for `Termination`) | Each step of the loop lowers the tuple of messages still to be typed or delivered, follow-ups, turns, answers due, strikes of the breaker, recoveries of the stream, and places to go in the round. What a later counter gains (a follow-up re-opens a round, a recovery repeats one) an earlier one has paid for. Typing moves a message from one side of the first counter to the other, so the environment leaves the tuple alone. |
| `GatesRunOut` (for `HandsBack`) | Follow-ups left, steps of work left, place in the poll. That the first is a number is `FollowUpBudget`. |
| `PipeRunsOut` (for `RunEnds`, `TornDownRunsEnd`) | One weighted sum: an event costs more before it is emitted than while its sender waits, more there than in the channel, and so on to the consumer. |
| `OnlyLeavingJams` (for the same) | `TaskReady` lists the guards of the task's steps. With `PumpInv` (the pump returns only for want of a receiver or of work) a live task with none of them open is blocked on a channel whose reader is gone. |
| `BatchRunsOut` (for `CancelEndsBatch`, `HungToolsAreCut`) | One number for each call and one for the dispatcher; no step raises any. A retry or a prompt takes a call back a stage and is paid with an attempt or a prompt. The sum over the calls is left to the reader: a fold over data is out of the prover's reach. |
| `OnlyPeopleHoldABatch` (for the same) | `DispatchReady` lists the guards of the dispatcher's steps; by `PlaceInv` a batch with none of them open has a call inside its tool, by `PromptsCounted` one that is asking. |

### How far the disagreements of section 7 reach

A run shows that a statement fails; these theorems say in which cases only, for
every value of the constants.

| Finding | Theorem | What it says |
|---|---|---|
| 2 | `SteeringLossIsPending`, `SteeringStaysInOrder` | Only what was drained at the last poll of a capped or interjected run is lost; every other message is delivered, in order and once, or still queued. |
| 3 | `MisreadOnlyLate`, `EndingDropsNothing` | Only a run that reported and ended after the event arm of the same select was polled is misread (`EndingIsLast`: an ending is the last event in the channel). Taking an ending loses no other event. |
| 4 | `CollisionsNeedEsc` | Only a session that Esc left in its grace window ends over a run or a phase; until then the busy state has one owner and no task is forgotten. |
| 6 | `OnlyMarkersMisplaceSnapshots` | Only an inline fold with a file tracker and an older marker in its head separates a pair; a first fold, a fast fold and a fold without snapshots never do. |

## 6. Only model-checked

* The liveness properties (`Termination`, `CancelEndsBatch`, `HungToolsAreCut`,
  `RunEnds`, `TornDownRunsEnd`, `RunsAreLetGo`, `HandsBack`): fairness and
  `ENABLED` are out of the prover's reach. `DispatchReady` and `TaskReady` state
  the guards of the actions by hand for that reason. For `RunsAreLetGo` there is
  no measure: the user may start runs for ever.
* That the findings of section 7 do occur: a theorem bounds them, only a run
  exhibits them.
* That `UiRuns`' runs are `RunPipe`'s: both are set against `RunEvents`, `RunPipe`
  by proof, `UiRuns` by construction.

## 7. Where code and comments disagree

Shown by a run:

1. `advisory_splits_results`: the advisory publish guard appends its warning
   after the assistant message with the calls and before their results
   (`run.rs:3622`; the rule is quoted at `tools.rs:1141-1146`).
2. `steering_lost`: the last steering poll drains the queue before the cap and
   the interjection are looked at, and the messages die with the run
   (`run.rs:4347`; `steering.rs:10-12`).
3. `backstop_misreads`: a run that reports and ends between the polls of the
   two select arms is handled as a crash and its ending is dropped
   (`ui/mod.rs:3969`; the comment at 3957-3963).
4. `shell_left_behind`: Esc in the grace window of a `!cmd` clears the busy flag
   and leaves the session (`ui/mod.rs:2277`), so a prompt starts a turn beside
   the live shell, and the exit of the command then installs a run over that
   turn's, whose handle is dropped without an abort (`ui/mod.rs:3425-3502`,
   `agent/runner.rs:53-57`). The comment at 2156-2170 describes this failure,
   repaired for Ctrl+C, and says the Esc path tears the session down.
5. `project_gate_not_escalated`: with a project gate, a weaker full suite that
   is green reports FastGreenOnly but is not escalated (`verifier.rs:623`; the
   module documentation at 43-44).
6. `snapshots_split_pairs`: an inline fold reports where its summary would
   stand in the list before the fold. When an earlier marker was dropped from
   the head, the summary stands one lower, and the file snapshots go behind the
   first message of the tail: between a call and its result (`run.rs:1847`; the
   comment at 1738-1742 describes this failure for the fast path).

Met while modelling, in the models as the code has them, without a run:

* Prompts typed while the UI is busy can stay behind an idle UI, in a queue that
  only a run drains: the plan, prompt and done phases go idle without a drain
  when they abort or close (`ui/mod.rs:4064`, against the comment at
  4432-4435), and under `/loop` a prompt is queued also after its run has
  failed and nothing is going (`ui/mod.rs:2888`). `StrandedOnlyByAbort` proves
  that these two and Esc, which means to keep the queue, are the only ways.
* A forced turn end goes to the next turn before the interjection is looked at
  (`run.rs:4228`), although 4403-4410 says a run observes it.
* After "Run stopped" for a full context a gate may order another request
  (`run.rs:4273`, against 4220-4222).
* `max_turns` is exceeded by the number of follow-ups (`types.rs:759-763` calls
  it a hard cap); `TurnBudget` states the bound that holds.
* When every call of a turn is refused, the run may end before the model has
  read the refusal (`run.rs:3449`, against 3699-3701).
* Summary markers can stack (`compression.rs:1612`, against 1614-1618): an
  inline fold leaves a marker above a user turn, a fast fold then cuts at that
  user turn and puts its own marker in front. The next inline fold carries over
  only the last of the two, so `FoldsCarryOver` speaks of the latest marker.
* A plugin that summarises an inline fold is given the middle only, not the
  marker its summary supersedes (`run.rs:1776`).
* A fold at the start of an iteration does not re-arm the checkpoint schedule,
  which the comment at `run.rs:4175-4176` says a destructive fold does.
* The slot takes whichever checkpoint lands last, which need not be the
  freshest; harmless, since both match the list (`FreshCheckpoints`).
* A consumer that drops the receiver without aborting strands the loop on a
  full channel (`integration.rs:926-931`). No front end in the repository does.
* A refresh may follow the terminal event (`run.rs:1507`), although
  `run_end.rs:1` says that a run's event stream ends with it.
* An interrupted task may drain the shared queue once more before its abort
  lands (`steering.rs:46`).
* The todo gate and the completeness gate can both speak in one run, at
  different finalizations (`run.rs:1246-1248` says they do not).
* The verifier can speak more than once (`run.rs:616-617` says it will not):
  the escalation has a budget of its own.
* Code edited after a green full suite is challenged by no nudge; only the
  judges see the stale status (`verifier.rs:610`).

## 8. Plan

Built in the order of importance: turn loop, run pipe, front end, gates, tool
dispatch, compaction. What is left, and what each would add:

1. `StreamRetry` (`stream.rs`, `retry.rs`): retries of one request, stalls and
   partial answers; `AgentLoop` takes its outcomes as inputs.
2. `RateLimitGate` / `RefreshableToken` / the credential lock: two requests, two
   processes, one refresh.
3. `RpcClient` (`jsonrpc_client.rs`): pending map, late answers, dead server.
4. `BackgroundTasks`, `Vigil`: delivery of a completion exactly once, release of
   the running flag on every ending.
5. `SessionStore` (`fs_atomic.rs`): a crash between the steps of a save, and the
   durable checkpoint, which a late refresh can set back in time
   (`ui/run_handlers/context_compacted.rs:39`).

Left out of the modelled components, and why:

* Tool dispatch: the repair of arguments decides here only whether a call is
  refused; the escalation of the model after failed calls belongs to the next
  request; `side_effect.rs` only counts effects nobody can be sure of.
* Compaction: token counts and the text of summaries. A message that quotes the
  marker phrase is taken for a marker by the code (`compression.rs:1621`); with
  texts abstracted to roles no such message exists in the model.
* Human waits: the dialogs that hold a `HumanWait` are not modelled; a prompt is
  answered, dropped, or stays open.
