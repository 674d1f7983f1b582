----------------------------- MODULE Compaction -----------------------------
(***************************************************************************)
(* The live context of a run and the passes that shrink it:                *)
(* `run_compaction_pass_with_focus`, `restore_working_files` and           *)
(* `spawn_incremental_checkpoint` of src/src/agent/agent_loop/run.rs over  *)
(* the list surgery of src/src/agent/compression.rs.                       *)
(*                                                                         *)
(* One iteration of the turn loop is a possible fold at its start, the     *)
(* messages of one model turn, and the decision taken from the provider's  *)
(* usage report: fold, end the turn with a summary, or go on, in which     *)
(* case a background checkpoint may be spawned.  A checkpoint summarises a *)
(* snapshot of the context off the loop; it lands in a slot the next fold  *)
(* may use in place of an inline call to the summarizer, late, out of      *)
(* order, while the inline summarizer runs, or never.                      *)
(*                                                                         *)
(* A message is its role and the set of original messages it accounts for: *)
(* itself, or what a summary was made from.  Token counts, and with them   *)
(* the choice of the tier, are nondeterministic, pruning and capping       *)
(* shorten tool results in place and are not seen here.  A summarizer is   *)
(* configured: without one every pass only prunes.  Indices into the       *)
(* context count from 0, as in the code; an index is also a cut.           *)
(***************************************************************************)
EXTENDS Naturals, Sequences, FiniteSets

CONSTANTS
  PROTECT_HEAD, PROTECT_TAIL,   \* PROTECT_HEAD_DEFAULT, PROTECT_TAIL_DEFAULT
  MAX_FAILURES,                 \* MAX_CONSECUTIVE_COMPACTION_FAILURES
  Thresholds,                   \* thresholds of the CheckpointSchedule
  MaxResults,                   \* bound: calls in one assistant message
  MaxMessages,                  \* bound: messages pushed
  MaxFolds                      \* bound: destructive folds

ASSUME CompactionAssumption ==
  /\ PROTECT_HEAD \in Nat \ {0} /\ PROTECT_TAIL \in Nat \ {0}
  /\ MAX_FAILURES \in Nat \ {0}
  /\ Thresholds \in Nat
  /\ MaxResults \in Nat \ {0} /\ MaxMessages \in Nat \ {0} /\ MaxFolds \in Nat

VARIABLES
  file_touch_tracker,   \* file snapshots are restored after a fold
  publish_guard,        \* the advisory mode speaks between call and result
  on_compact,           \* a plugin may supply the summary of a fold
  messages,             \* current_context.messages
  pushed,               \* original messages so far
  pc,                   \* start | send | usage | returned
  summarizing,          \* the pass at pc awaits the inline summarizer
  folded_this_turn,
  compaction_recorded_this_iter,
  compaction_failures,
  generation,           \* checkpoint_generation
  slot,                 \* checkpoint_slot: at most one CachedCheckpoint
  tasks,                \* checkpoints being summarized off the loop
  crossed               \* thresholds crossed since the last reset

config == <<file_touch_tracker, publish_guard, on_compact>>
loop == <<folded_this_turn, compaction_recorded_this_iter, compaction_failures>>
checkpoints == <<generation, slot, tasks>>
vars == <<config, messages, pushed, pc, summarizing, loop, checkpoints, crossed>>

Roles == {"user", "text", "call", "result", "marker", "snapshot"}
Originals == 1..MaxMessages
Message == [role : Roles, ids : SUBSET Originals]
CachedCheckpoint ==
  [boundary : Nat, ids : SUBSET Originals, generation : Nat]

\* What the messages of a list account for.
Ids(msgs) == UNION {msgs[i].ids : i \in DOMAIN msgs}

----------------------------------------------------------------------------
(* Cuts.  A snap is the set of its one result, so that no choice operator  *)
(* stands between the code's walk and its statement.                       *)

Indices(msgs, roles) == {i \in 0..Len(msgs) : i < Len(msgs) /\ msgs[i + 1].role \in roles}

user_turns(msgs) == Indices(msgs, {"user"})

\* Mutant: any message is a cut.
safe_cuts_anywhere(msgs) == Indices(msgs, Roles)

\* is_safe_cut: not a tool result.
safe_cuts(msgs) == Indices(msgs, Roles \ {"result"})

\* The smallest cut at or above idx, n when there is none.
snap_forward(cuts, idx, n) ==
  {k \in (cuts \cap (idx..n)) \cup {n} : \A j \in cuts \cap (idx..n) : k <= j}

\* The largest cut at or below idx, 0 when there is none.
snap_backward(cuts, idx) ==
  {k \in (cuts \cap (0..idx)) \cup {0} : \A j \in cuts \cap (0..idx) : j <= k}

\* The window between the protected head and tail, snapped to `cuts`.
Window(msgs, cuts) ==
  {w \in snap_forward(cuts, PROTECT_HEAD, Len(msgs))
           \X snap_backward(cuts, Len(msgs) - PROTECT_TAIL) : w[1] < w[2]}

\* User turns are preferred; a stretch without any is cut between pairs.
compute_compress_window(msgs) ==
  IF Len(msgs) < PROTECT_HEAD + PROTECT_TAIL + 1 THEN {}
  ELSE IF Window(msgs, user_turns(msgs)) # {} THEN Window(msgs, user_turns(msgs))
  ELSE Window(msgs, safe_cuts(msgs))

\* The cut apply_checkpoint_summary folds at, if there is one.
checkpoint_cuts(msgs, boundary) ==
  IF boundary = 0 \/ boundary > Len(msgs) THEN {}
  ELSE IF snap_backward(user_turns(msgs), boundary) # {0}
         THEN snap_backward(user_turns(msgs), boundary)
         ELSE snap_backward(safe_cuts(msgs), boundary) \ {0}

----------------------------------------------------------------------------
(* Folding.                                                                *)

\* The sub-list of msgs at the positions `kept`, in order.
Retain(msgs, kept) ==
  [i \in 1..Cardinality(kept) |->
     msgs[CHOOSE k \in kept : Cardinality(kept \cap (1..k)) = i]]

\* A marker an earlier fold left in the protected head is superseded.
protected_head(msgs, start) ==
  Retain(msgs, {i \in 1..start : msgs[i].role # "marker"})

Marker(covered) == [role |-> "marker", ids |-> covered]

apply_summary(msgs, covered, start, end) ==
  protected_head(msgs, start) \o <<Marker(covered)>>
    \o SubSeq(msgs, end + 1, Len(msgs))

\* Mutant: the summarizer is given the middle only.
find_previous_summary_none(msgs) == {}

\* What the latest marker accounts for.
find_previous_summary(msgs) ==
  UNION {msgs[i].ids : i \in {i \in DOMAIN msgs :
    /\ msgs[i].role = "marker"
    /\ \A j \in DOMAIN msgs : msgs[j].role = "marker" => j <= i}}

Snapshot == [role |-> "snapshot", ids |-> {}]

\* Splices a file snapshot (the code: up to five in a row) after index idx;
\* nothing happens without a tracker, without files or without headroom.
restore_working_files(msgs, idx) ==
  LET at == IF idx + 1 <= Len(msgs) THEN idx + 1 ELSE Len(msgs)
  IN  {msgs} \cup
      {SubSeq(msgs, 1, at) \o <<Snapshot>> \o SubSeq(msgs, at + 1, Len(msgs)) :
         t \in {t \in {TRUE} : file_touch_tracker}}

Init ==
  /\ file_touch_tracker \in BOOLEAN
  /\ publish_guard \in {"off", "advisory"}
  /\ on_compact \in BOOLEAN
  /\ messages = <<[role |-> "user", ids |-> {1}]>> /\ pushed = 1
  /\ pc = "start" /\ summarizing = FALSE
  /\ folded_this_turn = FALSE /\ compaction_recorded_this_iter = FALSE
  /\ compaction_failures = 0
  /\ generation = 0 /\ slot = {} /\ tasks = {}
  /\ crossed = 0

----------------------------------------------------------------------------
(* The messages of a turn.                                                 *)

\* Appends new originals with these roles.
Push(roles) ==
  /\ pushed + Len(roles) <= MaxMessages
  /\ messages' = messages \o [i \in DOMAIN roles |->
                                [role |-> roles[i], ids |-> {pushed + i}]]
  /\ pushed' = pushed + Len(roles)

\* Steering, follow-ups and the memory block before the request; boundary
\* nudges after it.
PushUser ==
  /\ pc \in {"send", "usage"} /\ ~summarizing
  /\ Push(<<"user">>)
  /\ UNCHANGED <<config, pc, summarizing, loop, checkpoints, crossed>>

RespondText ==
  /\ pc = "send"
  /\ Push(<<"text">>)
  /\ pc' = "usage"
  /\ UNCHANGED <<config, summarizing, loop, checkpoints, crossed>>

Results(k) == [i \in 1..k |-> "result"]

\* Every call gets a result in the same iteration (batch, guards, backfill).
RespondCalls ==
  /\ pc = "send"
  /\ \E k \in 1..MaxResults :
       \/ Push(<<"call">> \o Results(k))
       \/ publish_guard = "advisory" /\ Push(<<"call", "user">> \o Results(k))
  /\ pc' = "usage"
  /\ UNCHANGED <<config, summarizing, loop, checkpoints, crossed>>

\* A mid-stream failure: the partial text and a nudge, then the next
\* iteration of the inner loop without a decision.
RespondInterrupted ==
  /\ pc = "send"
  /\ Push(<<"text", "user">>)
  /\ pc' = "start" /\ compaction_recorded_this_iter' = FALSE
  /\ UNCHANGED <<config, summarizing, folded_this_turn, compaction_failures,
                 checkpoints, crossed>>

\* The run ends at a gate, or on an error of the stream.
ReturnRun ==
  /\ pc \in {"send", "usage"} /\ ~summarizing
  /\ pc' = "returned"
  /\ UNCHANGED <<config, messages, pushed, summarizing, loop, checkpoints, crossed>>

----------------------------------------------------------------------------
(* One compaction pass, at the start of an iteration or after the usage    *)
(* report.                                                                 *)

MayFold == ~summarizing /\ (pc = "usage" \/ (pc = "start" /\ ~folded_this_turn))

\* Where the loop goes after the pass at pc, which ended with `outcome`.
\* After the usage report the schedule is re-armed whatever the pass did,
\* and the next iteration may belong to a new turn of the outer loop.
AfterPass(outcome) ==
  /\ compaction_failures' =
       IF compaction_recorded_this_iter \/ outcome = "Skipped"
         THEN compaction_failures
         ELSE IF outcome = "Failed" THEN compaction_failures + 1 ELSE 0
  /\ summarizing' = FALSE
  /\ \/ /\ pc = "start" /\ pc' = "send"
        /\ folded_this_turn' = TRUE /\ compaction_recorded_this_iter' = TRUE
        /\ UNCHANGED crossed
     \/ /\ pc = "usage" /\ pc' = "start"
        /\ folded_this_turn' \in {TRUE, FALSE}
        /\ compaction_recorded_this_iter' = FALSE
        /\ crossed' = 0

\* Mutant: the folds share one epoch.
NewEpoch_same == generation' = generation /\ slot' = {}

\* A destructive fold: what was made for the old indices goes stale.
NewEpoch == generation' = generation + 1 /\ slot' = {}

Folded(msgs, idx) ==
  /\ messages' \in restore_working_files(msgs, idx)
  /\ NewEpoch
  /\ AfterPass("Succeeded")
  /\ UNCHANGED <<config, pushed, tasks>>

\* Mutant: one failure more.
BreakerOpen_late == compaction_failures > MAX_FAILURES

BreakerOpen == compaction_failures >= MAX_FAILURES

reusable == {cp \in slot : cp.generation = generation}

\* Prune only: the breaker is open, nothing can be cut, or the report asked
\* for a fold the snip made unnecessary.
PassSkipped ==
  /\ MayFold
  /\ \/ BreakerOpen
     \/ compute_compress_window(messages) = {}
     \/ pc = "usage"
  /\ AfterPass("Skipped")
  /\ UNCHANGED <<config, messages, pushed, checkpoints>>

\* The fast path; the plugin may replace the summary of what is discarded.
FastFold ==
  /\ MayFold /\ ~BreakerOpen /\ generation < MaxFolds
  /\ \E cp \in reusable : \E cut \in checkpoint_cuts(messages, cp.boundary) :
       \/ Folded(apply_summary(messages, cp.ids, 0, cut), 0)
       \/ on_compact /\ Folded(apply_summary(messages,
                                 Ids(SubSeq(messages, 1, cut)), 0, cut), 0)

\* The inline path, when nothing reusable brings the context low enough.
BeginInline ==
  /\ MayFold /\ ~BreakerOpen /\ generation < MaxFolds
  /\ compute_compress_window(messages) # {}
  /\ summarizing' = TRUE
  /\ UNCHANGED <<config, messages, pushed, pc, loop, checkpoints, crossed>>

\* The plugin sees the middle; the summarizer the previous summary as well.
FinishInline ==
  /\ summarizing
  /\ \E w \in compute_compress_window(messages) :
       LET middle == Ids(SubSeq(messages, w[1] + 1, w[2])) IN
       \/ Folded(apply_summary(messages, middle \cup find_previous_summary(messages),
                               w[1], w[2]), w[1])
       \/ on_compact /\ Folded(apply_summary(messages, middle, w[1], w[2]), w[1])

\* An error, a timeout, or a summary that does not validate.
FailInline ==
  /\ summarizing
  /\ AfterPass("Failed")
  /\ UNCHANGED <<config, messages, pushed, checkpoints>>

\* Below the threshold at the start of an iteration.
NoFoldAtStart ==
  /\ pc = "start" /\ ~summarizing
  /\ pc' = "send"
  /\ UNCHANGED <<config, messages, pushed, summarizing, loop, checkpoints, crossed>>

----------------------------------------------------------------------------
(* The incremental checkpoint.                                             *)

\* No fold after the usage report: the usage crosses thresholds up to
\* `level`, and a new crossing spawns one checkpoint of the context.
NoFoldAfterUsage ==
  /\ pc = "usage" /\ ~summarizing
  /\ \E level \in 0..Thresholds :
       IF level > crossed
         THEN /\ crossed' = level
              /\ tasks' = tasks \cup {[boundary |-> Len(messages), ids |-> Ids(messages),
                                       generation |-> generation]}
         ELSE UNCHANGED <<crossed, tasks>>
  /\ pc' = "start" /\ compaction_recorded_this_iter' = FALSE
  /\ folded_this_turn' \in {folded_this_turn, FALSE}
  /\ UNCHANGED <<config, messages, pushed, summarizing, compaction_failures,
                 generation, slot>>

\* The task writes the slot, whatever it holds.
CheckpointLands(cp) ==
  /\ slot' = {cp} /\ tasks' = tasks \ {cp}
  /\ UNCHANGED <<config, messages, pushed, pc, summarizing, loop, generation, crossed>>

CheckpointFails(cp) ==
  /\ tasks' = tasks \ {cp}
  /\ UNCHANGED <<config, messages, pushed, pc, summarizing, loop, generation, slot,
                 crossed>>

Finished == pc = "returned" /\ UNCHANGED vars

Next ==
  \/ PushUser \/ RespondText \/ RespondCalls \/ RespondInterrupted \/ ReturnRun
  \/ PassSkipped \/ FastFold \/ BeginInline \/ FinishInline \/ FailInline
  \/ NoFoldAtStart \/ NoFoldAfterUsage
  \/ \E cp \in tasks : CheckpointLands(cp) \/ CheckpointFails(cp)
  \/ Finished

Spec == Init /\ [][Next]_vars

----------------------------------------------------------------------------
(* Properties.                                                             *)

\* The context stays a list of messages, and the breaker never counts past
\* the failures it tolerates.
TypeOK ==
  /\ file_touch_tracker \in BOOLEAN /\ on_compact \in BOOLEAN
  /\ publish_guard \in {"off", "advisory"}
  /\ messages \in Seq(Message) /\ pushed \in Originals
  /\ pc \in {"start", "send", "usage", "returned"} /\ summarizing \in BOOLEAN
  /\ folded_this_turn \in BOOLEAN /\ compaction_recorded_this_iter \in BOOLEAN
  /\ compaction_failures \in 0..MAX_FAILURES
  /\ generation \in Nat /\ crossed \in 0..Thresholds
  /\ slot \in SUBSET CachedCheckpoint /\ tasks \in SUBSET CachedCheckpoint

\* A checkpoint the next fold would reuse, landed or still to land, was made
\* from exactly the messages that stand below its boundary now: no fold and
\* no restored snapshot has moved them since.
FreshCheckpoints ==
  \A cp \in slot \cup tasks : cp.generation = generation =>
    /\ cp.boundary <= Len(messages)
    /\ cp.ids = Ids(SubSeq(messages, 1, cp.boundary))

LatestMarker(i) ==
  /\ messages[i].role = "marker"
  /\ \A j \in DOMAIN messages : messages[j].role = "marker" => j <= i

\* Whatever order folds and checkpoints come in, a message that leaves the
\* context is among those the new summary was made from, and so is what the
\* latest summary stood for.  A plugin's summary is excepted from the last:
\* it is not given the marker it supersedes.
FoldsCarryOver ==
  [][\A i \in DOMAIN messages :
       (messages[i].role # "marker" \/ (~on_compact /\ LatestMarker(i)))
         => messages[i].ids \subseteq Ids(messages')]_vars

Paired ==
  \A i \in DOMAIN messages :
    /\ messages[i].role = "call" =>
         i + 1 \in DOMAIN messages /\ messages[i + 1].role = "result"
    /\ messages[i].role = "result" =>
         i - 1 \in DOMAIN messages /\ messages[i - 1].role \in {"call", "result"}

\* No cut of a fold, fast or inline, separates a tool call from its results;
\* a provider refuses a request in which one is.
CutsKeepPairs == ~file_touch_tracker /\ publish_guard = "off" => Paired

\* The restored snapshots go between the summary and the protected tail, so
\* they do not separate a call from its results either.
SnapshotsKeepPairs == publish_guard = "off" => Paired

============================================================================
