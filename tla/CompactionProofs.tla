-------------------------- MODULE CompactionProofs --------------------------
(***************************************************************************)
(* Proofs about the context and its folds, for every size of the protected *)
(* head and tail, every number of messages and every number of folds.      *)
(***************************************************************************)
EXTENDS Compaction, TLAPS, FiniteSetTheorems, WellFoundedInduction

----------------------------------------------------------------------------
(* Retain keeps the chosen positions, each once and in order.              *)

Rank(kept, k) == Cardinality(kept \cap (1..k))

\* The rank of a position is a number, it grows by one at a kept position
\* and not at others.
LEMMA RankSteps ==
  ASSUME NEW kept, NEW k \in Nat
  PROVE  /\ IsFiniteSet(kept \cap (1..k))
         /\ Rank(kept, k) \in Nat
         /\ Rank(kept, 0) = 0
         /\ k + 1 \in kept => Rank(kept, k + 1) = Rank(kept, k) + 1
         /\ k + 1 \notin kept => Rank(kept, k + 1) = Rank(kept, k)
<1>1. IsFiniteSet(1..k)
  BY FS_Interval
<1>2. IsFiniteSet(kept \cap (1..k))
  BY <1>1, FS_Subset, kept \cap (1..k) \in SUBSET (1..k)
<1>3. Rank(kept, k) \in Nat
  BY <1>2, FS_CardinalityType DEF Rank
<1>4. Rank(kept, 0) = 0
  <2>1. kept \cap (1..0) = {}
    OBVIOUS
  <2> QED BY <2>1, FS_EmptySet DEF Rank
<1>5. ASSUME k + 1 \in kept PROVE Rank(kept, k + 1) = Rank(kept, k) + 1
  <2>1. kept \cap (1..(k + 1)) = (kept \cap (1..k)) \cup {k + 1}
    BY <1>5
  <2>2. k + 1 \notin kept \cap (1..k)
    OBVIOUS
  <2>3. Cardinality((kept \cap (1..k)) \cup {k + 1}) = Cardinality(kept \cap (1..k)) + 1
    BY <1>2, <2>2, FS_AddElement
  <2> QED BY <2>1, <2>3 DEF Rank
<1>6. ASSUME k + 1 \notin kept PROVE Rank(kept, k + 1) = Rank(kept, k)
  <2>1. kept \cap (1..(k + 1)) = kept \cap (1..k)
    BY <1>6
  <2> QED BY <2>1 DEF Rank
<1> QED BY <1>2, <1>3, <1>4, <1>5, <1>6

\* Two kept positions have different ranks.
LEMMA RankInjective ==
  ASSUME NEW kept, NEW k \in kept, NEW l \in kept, k \in Nat \ {0}, l \in Nat \ {0},
         Rank(kept, k) = Rank(kept, l)
  PROVE  k = l
<1>1. ASSUME NEW a \in kept, NEW b \in kept, a \in Nat \ {0}, b \in Nat \ {0}, a < b,
             Rank(kept, a) = Rank(kept, b)
      PROVE  FALSE
  <2>1. kept \cap (1..a) \in SUBSET (kept \cap (1..b))
    BY <1>1
  <2>2. IsFiniteSet(kept \cap (1..b))
    BY <1>1, RankSteps
  <2>3. kept \cap (1..b) = kept \cap (1..a)
    BY <1>1, <2>1, <2>2, FS_Subset DEF Rank
  <2>4. b \in kept \cap (1..b) /\ b \notin kept \cap (1..a)
    BY <1>1
  <2> QED BY <2>3, <2>4
<1> QED BY <1>1

\* Every rank is the rank of a kept position.
LEMMA RankOnto ==
  ASSUME NEW n \in Nat, NEW kept \in SUBSET (1..n), NEW i \in 1..Cardinality(kept)
  PROVE  \E k \in kept : Rank(kept, k) = i
<1> DEFINE T == {k \in Nat : Rank(kept, k) >= i}
<1>1. kept \cap (1..n) = kept /\ Rank(kept, n) = Cardinality(kept)
  BY DEF Rank
<1>2. n \in T
  <2>1. Rank(kept, n) \in Nat
    BY RankSteps
  <2> QED BY <1>1, <2>1
<1>3. PICK k \in T : \A y \in T : ~(<<y, k>> \in OpToRel(<, Nat))
  <2>1. T \subseteq Nat /\ T # {}
    BY <1>2
  <2> HIDE DEF T
  <2> QED BY <2>1, WFMin, NatLessThanWellFounded
<1>4. k \in Nat /\ Rank(kept, k) >= i
  BY <1>3
<1>5. \A y \in T : ~(y < k)
  BY <1>3, <1>4 DEF OpToRel
<1>6. k # 0
  BY <1>4, RankSteps, <1>1
<1>7. k - 1 \in Nat /\ (k - 1) + 1 = k
  BY <1>4, <1>6
<1>8. k - 1 \notin T
  BY <1>5, <1>7
<1>9. Rank(kept, k - 1) \in Nat /\ Rank(kept, k) \in Nat
  BY <1>4, <1>7, RankSteps
<1>10. Rank(kept, k - 1) < i
  BY <1>7, <1>8, <1>9, <1>1
<1>11. /\ k \in kept => Rank(kept, k) = Rank(kept, k - 1) + 1
       /\ k \notin kept => Rank(kept, k) = Rank(kept, k - 1)
  <2> DEFINE j == k - 1
  <2>1. j \in Nat /\ j + 1 = k
    BY <1>7
  <2> HIDE DEF j
  <2>2. /\ j + 1 \in kept => Rank(kept, j + 1) = Rank(kept, j) + 1
        /\ j + 1 \notin kept => Rank(kept, j + 1) = Rank(kept, j)
    BY <2>1, RankSteps
  <2>3. /\ k \in kept => Rank(kept, k) = Rank(kept, j) + 1
        /\ k \notin kept => Rank(kept, k) = Rank(kept, j)
    BY <2>1, <2>2, Zenon
  <2> QED
    BY <2>3 DEF j
<1>12. i \in Nat
  BY <1>1
<1> QED BY <1>4, <1>9, <1>10, <1>11, <1>12

Kept(kept, i) == CHOOSE k \in kept : Rank(kept, k) = i

\* Position i of the retained list comes from a kept position of rank i.
LEMMA RetainPositions ==
  ASSUME NEW msgs, NEW n \in Nat, NEW kept \in SUBSET (1..n)
  PROVE  /\ Cardinality(kept) \in Nat
         /\ DOMAIN Retain(msgs, kept) = 1..Cardinality(kept)
         /\ \A i \in 1..Cardinality(kept) :
              /\ Kept(kept, i) \in kept
              /\ Rank(kept, Kept(kept, i)) = i
              /\ Retain(msgs, kept)[i] = msgs[Kept(kept, i)]
         /\ \A k \in kept : /\ Rank(kept, k) \in 1..Cardinality(kept)
                            /\ Kept(kept, Rank(kept, k)) = k
<1>1. IsFiniteSet(kept) /\ Cardinality(kept) \in Nat
  <2>1. IsFiniteSet(1..n)
    BY FS_Interval
  <2> QED BY <2>1, FS_Subset, FS_CardinalityType
<1>2. Retain(msgs, kept) = [i \in 1..Cardinality(kept) |-> msgs[Kept(kept, i)]]
  BY DEF Retain, Kept, Rank
<1>3. ASSUME NEW i \in 1..Cardinality(kept)
      PROVE  Kept(kept, i) \in kept /\ Rank(kept, Kept(kept, i)) = i
  BY RankOnto DEF Kept
<1>4. ASSUME NEW k \in kept
      PROVE  /\ Rank(kept, k) \in 1..Cardinality(kept)
             /\ Kept(kept, Rank(kept, k)) = k
  <2>1. k \in Nat /\ k # 0
    OBVIOUS
  <2>2. Rank(kept, k) \in Nat /\ Rank(kept, k) <= Cardinality(kept)
    <3>1. kept \cap (1..k) \in SUBSET kept
      OBVIOUS
    <3> QED BY <1>1, <2>1, <3>1, RankSteps, FS_Subset DEF Rank
  <2>3. Rank(kept, k) # 0
    <3>1. IsFiniteSet(kept \cap (1..k))
      BY <2>1, RankSteps
    <3>2. k \in kept \cap (1..k)
      BY <2>1
    <3> QED BY <3>1, <3>2, FS_EmptySet DEF Rank
  <2>4. Rank(kept, k) \in 1..Cardinality(kept)
    BY <1>1, <2>2, <2>3
  <2>5. /\ Kept(kept, Rank(kept, k)) \in kept
        /\ Rank(kept, Kept(kept, Rank(kept, k))) = Rank(kept, k)
    BY <1>3, <2>4
  <2>6. Kept(kept, Rank(kept, k)) \in Nat \ {0}
    <3>1. \A x \in kept : x \in Nat \ {0}
      OBVIOUS
    <3> QED BY <2>5, <3>1, Zenon
  <2> QED BY <2>1, <2>4, <2>5, <2>6, RankInjective
<1> QED BY <1>1, <1>2, <1>3, <1>4

----------------------------------------------------------------------------
(* Lists of messages.                                                      *)

\* Appending a list leaves the old positions alone.
LEMMA Concat ==
  ASSUME NEW S, NEW s \in Seq(S), NEW t \in Seq(S)
  PROVE  /\ s \o t \in Seq(S)
         /\ Len(s \o t) = Len(s) + Len(t)
         /\ \A i \in 1..Len(s) : (s \o t)[i] = s[i]
         /\ \A i \in 1..Len(t) : (s \o t)[Len(s) + i] = t[i]
OBVIOUS

\* A stretch of a list.
LEMMA Stretch ==
  ASSUME NEW S, NEW s \in Seq(S), NEW a \in Nat, NEW b \in Nat, a <= b, b <= Len(s)
  PROVE  /\ SubSeq(s, a + 1, b) \in Seq(S)
         /\ Len(SubSeq(s, a + 1, b)) = b - a
         /\ \A i \in 1..(b - a) : SubSeq(s, a + 1, b)[i] = s[a + i]
OBVIOUS

\* Membership in Ids, by position.
LEMMA IdsAt ==
  ASSUME NEW msgs \in Seq(Message)
  PROVE  /\ Ids(msgs) \in SUBSET Originals
         /\ \A x : x \in Ids(msgs) <=> \E i \in 1..Len(msgs) : x \in msgs[i].ids
<1>1. \A i \in 1..Len(msgs) : msgs[i] \in Message
  OBVIOUS
<1>2. \A i \in 1..Len(msgs) : msgs[i].ids \in SUBSET Originals
  BY <1>1 DEF Message
<1>3. DOMAIN msgs = 1..Len(msgs)
  OBVIOUS
<1> QED BY <1>2, <1>3 DEF Ids

\* The messages below an index are the same list in any longer context.
LEMMA PrefixIds ==
  ASSUME NEW s \in Seq(Message), NEW t \in Seq(Message), NEW b \in Nat,
         b <= Len(s), b <= Len(t), \A i \in 1..b : s[i] = t[i]
  PROVE  Ids(SubSeq(s, 1, b)) = Ids(SubSeq(t, 1, b))
<1>1. /\ SubSeq(s, 1, b) \in Seq(Message) /\ SubSeq(t, 1, b) \in Seq(Message)
      /\ Len(SubSeq(s, 1, b)) = b /\ Len(SubSeq(t, 1, b)) = b
      /\ \A i \in 1..b : SubSeq(s, 1, b)[i] = s[i] /\ SubSeq(t, 1, b)[i] = t[i]
  OBVIOUS
<1>2. SubSeq(s, 1, b) = SubSeq(t, 1, b)
  BY <1>1
<1> QED BY <1>2

\* The protected head keeps every message that is not a marker, and keeps
\* neighbours together.
LEMMA HeadFacts ==
  ASSUME NEW msgs \in Seq(Message), NEW start \in Nat, start <= Len(msgs),
         NEW head, head = protected_head(msgs, start)
  PROVE  /\ head \in Seq(Message)
         /\ \A i \in 1..Len(head) : \E k \in 1..start :
              /\ msgs[k].role # "marker" /\ head[i] = msgs[k]
              /\ k + 1 <= start /\ msgs[k + 1].role # "marker" =>
                   i + 1 \in 1..Len(head) /\ head[i + 1] = msgs[k + 1]
              /\ k > 1 /\ msgs[k - 1].role # "marker" =>
                   i - 1 \in 1..Len(head) /\ head[i - 1] = msgs[k - 1]
         /\ \A k \in 1..start : msgs[k].role # "marker" =>
              \E i \in 1..Len(head) : head[i] = msgs[k]
         /\ start = 0 => Len(head) = 0
<1> DEFINE kept == {i \in 1..start : msgs[i].role # "marker"}
           c == Cardinality(kept)
<1>1. kept \in SUBSET (1..start) /\ head = Retain(msgs, kept)
  BY DEF protected_head
<1>2. \A k \in kept : k \in 1..start /\ msgs[k].role # "marker" /\ msgs[k] \in Message
  OBVIOUS
<1>3. \A k \in 1..start : msgs[k].role # "marker" => k \in kept
  OBVIOUS
<1> HIDE DEF kept
<1>4. /\ c \in Nat
      /\ DOMAIN head = 1..c
      /\ \A i \in 1..c :
           /\ Kept(kept, i) \in kept
           /\ Rank(kept, Kept(kept, i)) = i
           /\ head[i] = msgs[Kept(kept, i)]
      /\ \A k \in kept : Rank(kept, k) \in 1..c /\ Kept(kept, Rank(kept, k)) = k
  <2> DEFINE list == Retain(msgs, kept)
  <2>1. /\ c \in Nat
        /\ DOMAIN list = 1..c
        /\ \A i \in 1..c :
             /\ Kept(kept, i) \in kept
             /\ Rank(kept, Kept(kept, i)) = i
             /\ list[i] = msgs[Kept(kept, i)]
        /\ \A k \in kept : Rank(kept, k) \in 1..c /\ Kept(kept, Rank(kept, k)) = k
    BY <1>1, RetainPositions, Zenon
  <2>2. head = list
    BY <1>1
  <2> HIDE DEF list
  <2> QED BY <2>1, <2>2, Zenon
<1>5. head = [i \in 1..c |-> msgs[Kept(kept, i)]]
  BY <1>1 DEF Retain, Kept, Rank
<1> HIDE DEF c
<1>6. head \in Seq(Message) /\ Len(head) = c
  <2>1. \A i \in 1..c : msgs[Kept(kept, i)] \in Message
    BY <1>2, <1>4
  <2> QED BY <1>4, <1>5, <2>1
<1>7. \A k \in kept : Rank(kept, k) \in 1..Len(head) /\ head[Rank(kept, k)] = msgs[k]
  BY <1>4, <1>6
<1>8. ASSUME NEW i \in 1..Len(head)
      PROVE  \E k \in 1..start :
               /\ msgs[k].role # "marker" /\ head[i] = msgs[k]
               /\ k + 1 <= start /\ msgs[k + 1].role # "marker" =>
                    i + 1 \in 1..Len(head) /\ head[i + 1] = msgs[k + 1]
               /\ k > 1 /\ msgs[k - 1].role # "marker" =>
                    i - 1 \in 1..Len(head) /\ head[i - 1] = msgs[k - 1]
  <2>1. PICK k \in kept : Rank(kept, k) = i /\ head[i] = msgs[k]
    BY <1>4, <1>6
  <2>2. k \in 1..start /\ k \in Nat /\ i \in Nat
    BY <1>2, <1>6, <1>4
  <2>3. ASSUME k + 1 <= start, msgs[k + 1].role # "marker"
        PROVE  i + 1 \in 1..Len(head) /\ head[i + 1] = msgs[k + 1]
    <3>1. k + 1 \in kept
      <4>1. k + 1 \in 1..start
        BY <2>2, <2>3
      <4> QED BY <1>3, <2>3, <4>1
    <3>2. Rank(kept, k + 1) = i + 1
      BY <2>1, <2>2, <3>1, RankSteps
    <3> QED BY <1>7, <3>1, <3>2
  <2>4. ASSUME k > 1, msgs[k - 1].role # "marker"
        PROVE  i - 1 \in 1..Len(head) /\ head[i - 1] = msgs[k - 1]
    <3>0. k - 1 \in 1..start /\ k - 1 \in Nat /\ (k - 1) + 1 = k
      BY <2>2, <2>4
    <3>1. k - 1 \in kept
      BY <1>3, <2>4, <3>0
    <3>2. Rank(kept, k - 1) \in Nat /\ Rank(kept, k) = Rank(kept, k - 1) + 1
      BY <3>0, RankSteps
    <3>3. Rank(kept, k - 1) = i - 1
      BY <2>1, <2>2, <3>2
    <3> QED BY <1>7, <3>1, <3>3
  <2>5. msgs[k].role # "marker" /\ head[i] = msgs[k]
    BY <1>2, <2>1
  <2> QED BY <2>2, <2>3, <2>4, <2>5
<1>9. \A k \in 1..start : msgs[k].role # "marker" =>
        \E i \in 1..Len(head) : head[i] = msgs[k]
  BY <1>3, <1>7
<1>10. ASSUME start = 0 PROVE Len(head) = 0
  <2>1. \A i \in 1..Len(head) : FALSE
    BY <1>8, <1>10
  <2> QED BY <1>4, <1>6, <2>1
<1> QED BY <1>6, <1>8, <1>9, <1>10

\* A folded context: the head, the marker, and the list from `end` on.
FoldShape(msgs, covered, end, head, new) ==
  /\ Len(head) \in Nat
  /\ new \in Seq(Message)
  /\ Len(new) = Len(head) + 1 + (Len(msgs) - end)
  /\ \A i \in 1..Len(head) : new[i] = head[i]
  /\ new[Len(head) + 1] = Marker(covered)
  /\ \A j \in 1..(Len(msgs) - end) : new[Len(head) + 1 + j] = msgs[end + j]

\* That is what apply_summary makes.
LEMMA ApplyFacts ==
  ASSUME NEW msgs \in Seq(Message), NEW covered \in SUBSET Originals,
         NEW start \in Nat, NEW end \in Nat, start <= end, end <= Len(msgs)
  PROVE  FoldShape(msgs, covered, end, protected_head(msgs, start),
                   apply_summary(msgs, covered, start, end))
<1> DEFINE head == protected_head(msgs, start)
           h == Len(head)
           new == apply_summary(msgs, covered, start, end)
<1> DEFINE tail == SubSeq(msgs, end + 1, Len(msgs))
<1>1. head \in Seq(Message) /\ h \in Nat
  BY HeadFacts
<1>2. /\ tail \in Seq(Message) /\ Len(tail) = Len(msgs) - end
      /\ \A j \in 1..(Len(msgs) - end) : tail[j] = msgs[end + j]
  BY Stretch
<1>3. Marker(covered) \in Message
  BY DEF Marker, Message, Roles
<1>4. new = head \o <<Marker(covered)>> \o tail
  BY DEF apply_summary
<1>5. <<Marker(covered)>> \in Seq(Message) /\ Len(<<Marker(covered)>>) = 1
      /\ <<Marker(covered)>>[1] = Marker(covered)
  BY <1>3
<1> HIDE DEF head, tail, new
<1> DEFINE first == head \o <<Marker(covered)>>
<1>6. /\ first \in Seq(Message) /\ Len(first) = h + 1
      /\ \A i \in 1..h : first[i] = head[i]
      /\ first[h + 1] = Marker(covered)
  BY <1>1, <1>5, Concat
<1>7. new = first \o tail
  BY <1>4
<1> HIDE DEF first
<1>8. /\ new \in Seq(Message) /\ Len(new) = Len(first) + Len(tail)
      /\ \A i \in 1..Len(first) : new[i] = first[i]
      /\ \A i \in 1..Len(tail) : new[Len(first) + i] = tail[i]
  <2>1. tail \in Seq(Message) /\ first \in Seq(Message)
    BY <1>2, <1>6
  <2>2. /\ first \o tail \in Seq(Message) /\ Len(first \o tail) = Len(first) + Len(tail)
        /\ \A i \in 1..Len(first) : (first \o tail)[i] = first[i]
        /\ \A i \in 1..Len(tail) : (first \o tail)[Len(first) + i] = tail[i]
    BY <2>1
  <2> QED BY <1>7, <2>2, Zenon
<1>9. \A i \in 1..h : new[i] = head[i]
  BY <1>1, <1>6, <1>8
<1>10. new[h + 1] = Marker(covered)
  BY <1>1, <1>6, <1>8
<1>11. \A j \in 1..(Len(msgs) - end) : new[h + 1 + j] = msgs[end + j]
  BY <1>1, <1>2, <1>6, <1>8
<1>12. Len(new) = h + 1 + (Len(msgs) - end)
  BY <1>2, <1>6, <1>8
<1>13. FoldShape(msgs, covered, end, head, new)
  BY <1>1, <1>8, <1>9, <1>10, <1>11, <1>12 DEF FoldShape
<1> QED BY <1>13 DEF head, new

----------------------------------------------------------------------------
(* Cuts.                                                                   *)

\* A cut among the messages with these roles.
LEMMA IndicesAt ==
  ASSUME NEW msgs \in Seq(Message), NEW roles, NEW i \in Indices(msgs, roles)
  PROVE  i \in Nat /\ i < Len(msgs) /\ msgs[i + 1].role \in roles
BY DEF Indices

\* A fold never cuts in front of a result.
SafeCut(msgs, i) == i \in Nat /\ i < Len(msgs) /\ msgs[i + 1].role # "result"

\* Both kinds of cut are safe.
LEMMA CutsAreSafe ==
  ASSUME NEW msgs \in Seq(Message), NEW i \in user_turns(msgs) \cup safe_cuts(msgs)
  PROVE  SafeCut(msgs, i)
<1>1. CASE i \in user_turns(msgs)
  BY <1>1, IndicesAt DEF user_turns, SafeCut
<1>2. CASE i \in safe_cuts(msgs)
  BY <1>2, IndicesAt DEF safe_cuts, SafeCut
<1> QED BY <1>1, <1>2

\* The window of the inline path starts and ends at safe cuts.
LEMMA WindowIsSafe ==
  ASSUME NEW msgs \in Seq(Message), NEW w \in compute_compress_window(msgs)
  PROVE  SafeCut(msgs, w[1]) /\ SafeCut(msgs, w[2]) /\ w[1] < w[2]
<1> USE CompactionAssumption
<1>1. ASSUME NEW cuts, \A i \in cuts : SafeCut(msgs, i), w \in Window(msgs, cuts),
             Len(msgs) >= PROTECT_HEAD + PROTECT_TAIL + 1
      PROVE  SafeCut(msgs, w[1]) /\ SafeCut(msgs, w[2]) /\ w[1] < w[2]
  <2>1. /\ w[1] \in snap_forward(cuts, PROTECT_HEAD, Len(msgs))
        /\ w[2] \in snap_backward(cuts, Len(msgs) - PROTECT_TAIL)
        /\ w[1] < w[2]
    BY <1>1 DEF Window
  <2>2. w[1] \in cuts \/ w[1] = Len(msgs)
    BY <2>1 DEF snap_forward
  <2>3. w[2] \in cuts \/ w[2] = 0
    BY <2>1 DEF snap_backward
  <2>4. w[1] \in Nat /\ w[2] \in Nat /\ w[2] <= Len(msgs)
    BY <1>1, <2>2, <2>3 DEF SafeCut
  <2>5. w[1] \in cuts /\ w[2] \in cuts
    BY <2>1, <2>2, <2>3, <2>4
  <2> QED BY <1>1, <2>1, <2>5
<1>2. Len(msgs) >= PROTECT_HEAD + PROTECT_TAIL + 1
  BY DEF compute_compress_window
<1>3. w \in Window(msgs, user_turns(msgs)) \/ w \in Window(msgs, safe_cuts(msgs))
  BY DEF compute_compress_window
<1> QED BY <1>1, <1>2, <1>3, CutsAreSafe

\* So does the cut of the fast path, which is not above the checkpoint's
\* boundary.
LEMMA CheckpointCutIsSafe ==
  ASSUME NEW msgs \in Seq(Message), NEW boundary \in Nat,
         NEW cut \in checkpoint_cuts(msgs, boundary)
  PROVE  SafeCut(msgs, cut) /\ cut <= boundary /\ boundary <= Len(msgs)
<1> DEFINE U == user_turns(msgs)
           C == safe_cuts(msgs)
<1>1. boundary # 0 /\ boundary <= Len(msgs)
  BY DEF checkpoint_cuts
<1>2. CASE snap_backward(U, boundary) # {0}
  <2>1. cut \in snap_backward(U, boundary)
    BY <1>1, <1>2 DEF checkpoint_cuts
  <2>2. cut \in U /\ cut <= boundary
    <3>1. cut \in U \cap (0..boundary) \/ cut = 0
      BY <2>1 DEF snap_backward
    <3>2. ASSUME cut = 0, cut \notin U PROVE FALSE
      <4>1. \A j \in U \cap (0..boundary) : j <= 0
        BY <2>1, <3>2 DEF snap_backward
      <4>2. U \cap (0..boundary) = {}
        <5>1. \A j \in U \cap (0..boundary) : j = 0
          BY <4>1
        <5> QED BY <3>2, <5>1
      <4>3. snap_backward(U, boundary) = {0}
        BY <4>2 DEF snap_backward
      <4> QED BY <1>2, <4>3
    <3> QED BY <1>1, <3>1, <3>2
  <2> QED BY <1>1, <2>2, CutsAreSafe
<1>3. CASE snap_backward(U, boundary) = {0}
  <2>1. cut \in snap_backward(C, boundary) /\ cut # 0
    BY <1>1, <1>3 DEF checkpoint_cuts
  <2>2. cut \in C /\ cut <= boundary
    BY <2>1 DEF snap_backward
  <2> QED BY <1>1, <2>2, CutsAreSafe
<1> QED BY <1>2, <1>3

----------------------------------------------------------------------------
(* What a fold does to pairs and to the messages accounted for.            *)

\* Paired, of any list.
PairedIn(msgs) ==
  \A i \in 1..Len(msgs) :
    /\ msgs[i].role = "call" => i + 1 \in 1..Len(msgs) /\ msgs[i + 1].role = "result"
    /\ msgs[i].role = "result" =>
         i - 1 \in 1..Len(msgs) /\ msgs[i - 1].role \in {"call", "result"}

\* Cutting in front of anything but a result keeps calls and results
\* together.
LEMMA ApplyKeepsPairs ==
  ASSUME NEW msgs \in Seq(Message), NEW covered \in SUBSET Originals,
         NEW start, NEW end, PairedIn(msgs),
         start = 0 \/ SafeCut(msgs, start), SafeCut(msgs, end), start <= end
  PROVE  PairedIn(apply_summary(msgs, covered, start, end))
<1> DEFINE head == protected_head(msgs, start)
           new == apply_summary(msgs, covered, start, end)
           h == Len(head)
           n == Len(msgs)
<1>1. start \in Nat /\ end \in Nat /\ end < n /\ start <= end /\ n \in Nat
  BY DEF SafeCut
<1>2. /\ h \in Nat
      /\ Len(new) = h + 1 + (n - end)
      /\ \A i \in 1..h : new[i] = head[i]
      /\ new[h + 1] = Marker(covered)
      /\ \A j \in 1..(n - end) : new[h + 1 + j] = msgs[end + j]
  <2>1. start \in Nat /\ end \in Nat /\ start <= end /\ end <= Len(msgs)
    BY <1>1
  <2>2. FoldShape(msgs, covered, end, head, new)
    BY <2>1, ApplyFacts
  <2> HIDE DEF new, head
  <2> QED BY <2>2 DEF FoldShape
<1>3. \A i \in 1..h : \E k \in 1..start :
        /\ msgs[k].role # "marker" /\ head[i] = msgs[k]
        /\ k + 1 <= start /\ msgs[k + 1].role # "marker" =>
             i + 1 \in 1..h /\ head[i + 1] = msgs[k + 1]
        /\ k > 1 /\ msgs[k - 1].role # "marker" =>
             i - 1 \in 1..h /\ head[i - 1] = msgs[k - 1]
  BY <1>1, HeadFacts
<1>4. msgs[end + 1].role # "result" /\ (start # 0 => msgs[start + 1].role # "result")
  BY DEF SafeCut
<1> HIDE DEF head, new, h
<1>5. ASSUME NEW i \in 1..Len(new)
      PROVE  /\ new[i].role = "call" =>
                  i + 1 \in 1..Len(new) /\ new[i + 1].role = "result"
             /\ new[i].role = "result" =>
                  i - 1 \in 1..Len(new) /\ new[i - 1].role \in {"call", "result"}
  <2>1. CASE i \in 1..h
    <3>1. PICK k \in 1..start :
            /\ msgs[k].role # "marker" /\ head[i] = msgs[k]
            /\ k + 1 <= start /\ msgs[k + 1].role # "marker" =>
                 i + 1 \in 1..h /\ head[i + 1] = msgs[k + 1]
            /\ k > 1 /\ msgs[k - 1].role # "marker" =>
                 i - 1 \in 1..h /\ head[i - 1] = msgs[k - 1]
      BY <1>3, <2>1
    <3>2. new[i] = msgs[k] /\ k \in 1..n
      BY <1>1, <1>2, <2>1, <3>1
    <3>3. ASSUME new[i].role = "call"
          PROVE  i + 1 \in 1..Len(new) /\ new[i + 1].role = "result"
      <4>1. k + 1 \in 1..n /\ msgs[k + 1].role = "result"
        BY <3>2, <3>3 DEF PairedIn
      <4>2. k + 1 <= start
        BY <1>1, <1>4, <3>1, <4>1
      <4>3. i + 1 \in 1..h /\ head[i + 1] = msgs[k + 1]
        BY <3>1, <4>1, <4>2
      <4> QED BY <1>1, <1>2, <4>1, <4>3
    <3>4. ASSUME new[i].role = "result"
          PROVE  i - 1 \in 1..Len(new) /\ new[i - 1].role \in {"call", "result"}
      <4>1. k - 1 \in 1..n /\ msgs[k - 1].role \in {"call", "result"}
        BY <3>2, <3>4 DEF PairedIn
      <4>2. k > 1 /\ msgs[k - 1].role # "marker"
        BY <1>1, <3>1, <4>1
      <4>3. i - 1 \in 1..h /\ head[i - 1] = msgs[k - 1]
        BY <3>1, <4>2
      <4> QED BY <1>1, <1>2, <4>1, <4>3
    <3> QED BY <3>3, <3>4
  <2>2. CASE i = h + 1
    <3>1. new[i].role = "marker"
      BY <1>2, <2>2 DEF Marker
    <3> QED BY <3>1
  <2>3. CASE i \notin 1..h /\ i # h + 1
    <3> DEFINE j == i - (h + 1)
    <3>1. j \in 1..(n - end) /\ i = h + 1 + j
      BY <1>1, <1>2, <2>3
    <3> HIDE DEF j
    <3>0. h \in Nat /\ j \in Nat /\ i \in Nat
      BY <1>1, <1>2, <3>1
    <3>2. new[i] = msgs[end + j] /\ end + j \in 1..n
      <4>1. new[h + 1 + j] = msgs[end + j]
        BY <1>2, <3>1, Zenon
      <4> QED BY <1>1, <3>1, <4>1
    <3>3. ASSUME new[i].role = "call"
          PROVE  i + 1 \in 1..Len(new) /\ new[i + 1].role = "result"
      <4>1. (end + j) + 1 \in 1..n /\ msgs[(end + j) + 1].role = "result"
        BY <3>2, <3>3 DEF PairedIn
      <4>2. j + 1 \in 1..(n - end) /\ h + 1 + (j + 1) = i + 1 /\ end + (j + 1) = (end + j) + 1
        BY <1>1, <3>0, <3>1, <4>1
      <4>3. new[h + 1 + (j + 1)] = msgs[end + (j + 1)]
        BY <1>2, <4>2, Zenon
      <4> QED BY <1>1, <1>2, <3>1, <4>1, <4>2, <4>3
    <3>4. ASSUME new[i].role = "result"
          PROVE  i - 1 \in 1..Len(new) /\ new[i - 1].role \in {"call", "result"}
      <4>1. (end + j) - 1 \in 1..n /\ msgs[(end + j) - 1].role \in {"call", "result"}
        BY <3>2, <3>4 DEF PairedIn
      <4>2. j # 1
        BY <1>4, <3>2, <3>4
      <4>3. j - 1 \in 1..(n - end) /\ h + 1 + (j - 1) = i - 1 /\ end + (j - 1) = (end + j) - 1
        BY <1>1, <3>0, <3>1, <4>2
      <4>4. new[h + 1 + (j - 1)] = msgs[end + (j - 1)]
        BY <1>2, <4>3, Zenon
      <4> QED BY <1>1, <1>2, <3>1, <4>1, <4>3, <4>4
    <3> QED BY <3>3, <3>4
  <2> QED BY <2>1, <2>2, <2>3
<1>6. PairedIn(new)
  BY <1>5 DEF PairedIn
<1> QED BY <1>6 DEF new

\* A stretch accounts for what its messages do.
LEMMA StretchIds ==
  ASSUME NEW msgs \in Seq(Message), NEW a \in Nat, NEW b \in Nat, a <= b, b <= Len(msgs)
  PROVE  /\ Ids(SubSeq(msgs, a + 1, b)) \in SUBSET Originals
         /\ \A i \in (a + 1)..b : msgs[i].ids \subseteq Ids(SubSeq(msgs, a + 1, b))
<1> DEFINE s == SubSeq(msgs, a + 1, b)
<1>1. s \in Seq(Message) /\ Len(s) = b - a /\ \A i \in 1..(b - a) : s[i] = msgs[a + i]
  BY Stretch
<1> HIDE DEF s
<1>2. ASSUME NEW i \in (a + 1)..b PROVE msgs[i].ids \subseteq Ids(s)
  <2>1. i - a \in 1..Len(s) /\ i - a \in 1..(b - a) /\ a + (i - a) = i
    BY <1>1
  <2>2. s[i - a] = msgs[i]
    <3>1. s[i - a] = msgs[a + (i - a)]
      BY <1>1, <2>1, Zenon
    <3> QED BY <2>1, <3>1
  <2> QED BY <1>1, <2>1, <2>2, IdsAt
<1>3. Ids(s) \in SUBSET Originals
  BY <1>1, IdsAt
<1> QED BY <1>2, <1>3 DEF s

\* A fold loses what neither stays nor is covered by its summary, only.
LEMMA ApplyKeepsIds ==
  ASSUME NEW msgs \in Seq(Message), NEW covered \in SUBSET Originals,
         NEW start \in Nat, NEW end \in Nat, start <= end, end <= Len(msgs),
         NEW i \in 1..Len(msgs),
         \/ i <= start /\ msgs[i].role # "marker"
         \/ i > end
         \/ msgs[i].ids \subseteq covered
  PROVE  msgs[i].ids \subseteq Ids(apply_summary(msgs, covered, start, end))
<1> DEFINE head == protected_head(msgs, start)
           new == apply_summary(msgs, covered, start, end)
           h == Len(head)
<1>1. FoldShape(msgs, covered, end, head, new)
  BY ApplyFacts
<1>2. \A k \in 1..start : msgs[k].role # "marker" => \E l \in 1..h : head[l] = msgs[k]
  <2>1. start <= Len(msgs)
    OBVIOUS
  <2> QED BY <2>1, HeadFacts
<1> HIDE DEF head, new
<1>3. /\ h \in Nat /\ new \in Seq(Message)
      /\ Len(new) = h + 1 + (Len(msgs) - end)
      /\ \A l \in 1..h : new[l] = head[l]
      /\ new[h + 1] = Marker(covered)
      /\ \A j \in 1..(Len(msgs) - end) : new[h + 1 + j] = msgs[end + j]
  BY <1>1 DEF FoldShape
<1> HIDE DEF h
<1>4. CASE i <= start /\ msgs[i].role # "marker"
  <2>1. PICK l \in 1..h : head[l] = msgs[i]
    BY <1>2, <1>4
  <2>2. l \in 1..Len(new) /\ new[l] = msgs[i]
    BY <1>3, <2>1
  <2> QED BY <1>3, <2>2, IdsAt DEF new
<1>5. CASE i > end
  <2>1. /\ i - end \in 1..(Len(msgs) - end) /\ end + (i - end) = i
        /\ h + 1 + (i - end) \in 1..Len(new)
    BY <1>3, <1>5
  <2>2. new[h + 1 + (i - end)] = msgs[end + (i - end)]
    BY <1>3, <2>1, Zenon
  <2>3. new[h + 1 + (i - end)].ids = msgs[i].ids
    BY <2>1, <2>2
  <2> QED BY <1>3, <2>1, <2>3, IdsAt DEF new
<1>6. CASE msgs[i].ids \subseteq covered
  <2>1. h + 1 \in 1..Len(new) /\ new[h + 1].ids = covered
    BY <1>3 DEF Marker
  <2> QED BY <1>3, <1>6, <2>1, IdsAt DEF new
<1> QED BY <1>4, <1>5, <1>6

\* Restoring snapshots adds messages and removes none.
LEMMA RestoreFacts ==
  ASSUME NEW msgs \in Seq(Message), NEW idx \in Nat,
         NEW out, out \in restore_working_files(msgs, idx)
  PROVE  /\ out \in Seq(Message)
         /\ Ids(msgs) \subseteq Ids(out)
         /\ ~file_touch_tracker => out = msgs
<1>1. CASE out = msgs
  BY <1>1
<1>2. CASE out # msgs
  <2> DEFINE at == IF idx + 1 <= Len(msgs) THEN idx + 1 ELSE Len(msgs)
             a == SubSeq(msgs, 1, at)
             b == SubSeq(msgs, at + 1, Len(msgs))
             m == a \o <<Snapshot>>
  <2>1. out = m \o b /\ file_touch_tracker
    BY <1>2 DEF restore_working_files
  <2>2. at \in Nat /\ at <= Len(msgs)
    OBVIOUS
  <2> HIDE DEF at
  <2>3. a \in Seq(Message) /\ Len(a) = at /\ \A i \in 1..at : a[i] = msgs[i]
    BY <2>2
  <2>4. b \in Seq(Message) /\ Len(b) = Len(msgs) - at
        /\ \A i \in 1..(Len(msgs) - at) : b[i] = msgs[at + i]
    BY <2>2, Stretch
  <2>5. <<Snapshot>> \in Seq(Message) /\ Len(<<Snapshot>>) = 1
    BY DEF Snapshot, Message, Roles
  <2> HIDE DEF a, b
  <2>6. m \in Seq(Message) /\ Len(m) = at + 1 /\ \A i \in 1..at : m[i] = msgs[i]
    BY <2>2, <2>3, <2>5
  <2> HIDE DEF m
  <2>7. /\ out \in Seq(Message) /\ Len(out) = Len(m) + Len(b)
        /\ \A i \in 1..Len(m) : out[i] = m[i]
        /\ \A i \in 1..Len(b) : out[Len(m) + i] = b[i]
    <3>1. m \in Seq(Message) /\ b \in Seq(Message)
      BY <2>4, <2>6
    <3>2. /\ m \o b \in Seq(Message) /\ Len(m \o b) = Len(m) + Len(b)
          /\ \A i \in 1..Len(m) : (m \o b)[i] = m[i]
          /\ \A i \in 1..Len(b) : (m \o b)[Len(m) + i] = b[i]
      BY <3>1
    <3> QED BY <2>1, <3>2, Zenon
  <2>8. ASSUME NEW i \in 1..Len(msgs)
        PROVE  \E j \in 1..Len(out) : out[j] = msgs[i]
    <3>1. CASE i <= at
      BY <2>2, <2>4, <2>6, <2>7, <3>1
    <3>2. CASE i > at
      <4>1. i - at \in 1..(Len(msgs) - at) /\ i - at \in 1..Len(b) /\ at + (i - at) = i
            /\ Len(m) + (i - at) \in 1..Len(out)
        BY <2>2, <2>4, <2>6, <2>7, <3>2
      <4>2. out[Len(m) + (i - at)] = b[i - at]
        BY <2>7, <4>1, Zenon
      <4>3. b[i - at] = msgs[at + (i - at)]
        BY <2>4, <4>1, Zenon
      <4> QED BY <4>1, <4>2, <4>3
    <3> QED BY <2>2, <3>1, <3>2
  <2>9. ASSUME NEW x \in Ids(msgs) PROVE x \in Ids(out)
    <3>1. PICK i \in 1..Len(msgs) : x \in msgs[i].ids
      BY IdsAt
    <3>2. PICK j \in 1..Len(out) : out[j] = msgs[i]
      BY <2>8
    <3> QED BY <2>7, <3>1, <3>2, IdsAt
  <2> QED BY <2>1, <2>7, <2>9
<1> QED BY <1>1, <1>2

----------------------------------------------------------------------------
(* The inductive invariant.                                                *)

\* A pass that awaits the summarizer was begun with the breaker closed.
StageInv == summarizing => pc \in {"start", "usage"} /\ compaction_failures < MAX_FAILURES

\* No checkpoint is from a later epoch.
EpochInv == \A cp \in slot \cup tasks : cp.generation <= generation

Inv == TypeOK /\ StageInv /\ EpochInv /\ FreshCheckpoints /\ CutsKeepPairs

\* Roles a turn may append without leaving a call or a result alone.
WellPaired(roles) ==
  \A i \in 1..Len(roles) :
    /\ roles[i] = "call" => i + 1 \in 1..Len(roles) /\ roles[i + 1] = "result"
    /\ roles[i] = "result" => i - 1 \in 1..Len(roles) /\ roles[i - 1] \in {"call", "result"}

\* What appending originals does.
LEMMA PushFacts ==
  ASSUME TypeOK, NEW roles \in Seq(Roles), Push(roles)
  PROVE  /\ messages' \in Seq(Message)
         /\ pushed' \in Originals
         /\ Len(messages') = Len(messages) + Len(roles)
         /\ \A i \in 1..Len(messages) : messages'[i] = messages[i]
         /\ \A i \in 1..Len(roles) : messages'[Len(messages) + i].role = roles[i]
<1> USE CompactionAssumption
<1> DEFINE new == [i \in DOMAIN roles |-> [role |-> roles[i], ids |-> {pushed + i}]]
<1>1. messages \in Seq(Message) /\ pushed \in 1..MaxMessages
      /\ pushed + Len(roles) <= MaxMessages
      /\ messages' = messages \o new /\ pushed' = pushed + Len(roles)
  BY DEF TypeOK, Push, Originals
<1>2. DOMAIN roles = 1..Len(roles) /\ Len(roles) \in Nat
  OBVIOUS
<1>3. \A i \in 1..Len(roles) : [role |-> roles[i], ids |-> {pushed + i}] \in Message
  <2> SUFFICES ASSUME NEW i \in 1..Len(roles)
               PROVE  [role |-> roles[i], ids |-> {pushed + i}] \in Message
    OBVIOUS
  <2>1. roles[i] \in Roles
    OBVIOUS
  <2>2. pushed + i \in Originals
    BY <1>1, <1>2 DEF Originals
  <2> QED BY <2>1, <2>2 DEF Message
<1>4. new \in Seq(Message) /\ Len(new) = Len(roles)
      /\ \A i \in 1..Len(roles) : new[i].role = roles[i]
  <2>1. new = [i \in 1..Len(roles) |-> [role |-> roles[i], ids |-> {pushed + i}]]
    BY <1>2
  <2>2. \A i \in 1..Len(roles) : new[i] = [role |-> roles[i], ids |-> {pushed + i}]
    BY <2>1
  <2> HIDE DEF new
  <2>3. new \in [1..Len(roles) -> Message]
    BY <1>3, <2>1
  <2>4. new \in Seq(Message) /\ Len(new) = Len(roles)
    BY <1>2, <2>3
  <2>5. ASSUME NEW i \in 1..Len(roles) PROVE new[i].role = roles[i]
    <3>1. new[i] = [role |-> roles[i], ids |-> {pushed + i}]
      BY <2>2
    <3>2. [role |-> roles[i], ids |-> {pushed + i}].role = roles[i]
      OBVIOUS
    <3> QED BY <3>1, <3>2, Zenon
  <2> QED BY <2>4, <2>5, Zenon
<1> HIDE DEF new
<1>5. /\ messages \o new \in Seq(Message) /\ Len(messages \o new) = Len(messages) + Len(new)
      /\ \A i \in 1..Len(messages) : (messages \o new)[i] = messages[i]
      /\ \A i \in 1..Len(new) : (messages \o new)[Len(messages) + i] = new[i]
  <2>1. messages \in Seq(Message) /\ new \in Seq(Message)
    BY <1>1, <1>4
  <2> QED BY <2>1, Concat
<1>6. pushed' \in Originals
  BY <1>1, <1>2 DEF Originals
<1> QED BY <1>1, <1>4, <1>5, <1>6

\* Paired pushes keep a paired context paired.
LEMMA PushKeepsPairs ==
  ASSUME TypeOK, NEW roles \in Seq(Roles), Push(roles), WellPaired(roles), PairedIn(messages)
  PROVE  PairedIn(messages)'
<1> DEFINE n == Len(messages)
           m == Len(roles)
<1>1. /\ messages' \in Seq(Message) /\ Len(messages') = n + m
      /\ \A i \in 1..n : messages'[i] = messages[i]
      /\ \A i \in 1..m : messages'[n + i].role = roles[i]
  BY PushFacts
<1>2. n \in Nat /\ m \in Nat
  BY DEF TypeOK
<1> HIDE DEF n, m
<1>3. ASSUME NEW i \in 1..(n + m)
      PROVE  /\ messages'[i].role = "call" =>
                  i + 1 \in 1..(n + m) /\ messages'[i + 1].role = "result"
             /\ messages'[i].role = "result" =>
                  i - 1 \in 1..(n + m) /\ messages'[i - 1].role \in {"call", "result"}
  <2>1. CASE i <= n
    <3>1. i \in 1..n
      BY <1>2, <2>1
    <3>2. /\ messages[i].role = "call" => i + 1 \in 1..n /\ messages[i + 1].role = "result"
          /\ messages[i].role = "result" =>
               i - 1 \in 1..n /\ messages[i - 1].role \in {"call", "result"}
      BY <3>1 DEF PairedIn, n
    <3> QED BY <1>1, <1>2, <3>1, <3>2
  <2>2. CASE i > n
    <3> DEFINE j == i - n
    <3>1. j \in 1..m /\ i = n + j
      BY <1>2, <2>2
    <3> HIDE DEF j
    <3>2. /\ roles[j] = "call" => j + 1 \in 1..m /\ roles[j + 1] = "result"
          /\ roles[j] = "result" => j - 1 \in 1..m /\ roles[j - 1] \in {"call", "result"}
      BY <3>1 DEF WellPaired, m
    <3>3. messages'[i].role = roles[j]
      BY <1>1, <3>1
    <3>4. ASSUME roles[j] = "call"
          PROVE  i + 1 \in 1..(n + m) /\ messages'[i + 1].role = "result"
      <4>1. messages'[n + (j + 1)].role = roles[j + 1]
        BY <1>1, <3>2, <3>4, Zenon
      <4>2. n + (j + 1) = i + 1
        BY <1>2, <3>1
      <4> QED BY <1>2, <3>1, <3>2, <3>4, <4>1, <4>2
    <3>5. ASSUME roles[j] = "result"
          PROVE  i - 1 \in 1..(n + m) /\ messages'[i - 1].role \in {"call", "result"}
      <4>1. messages'[n + (j - 1)].role = roles[j - 1]
        BY <1>1, <3>2, <3>5, Zenon
      <4>2. n + (j - 1) = i - 1
        BY <1>2, <3>1
      <4> QED BY <1>2, <3>1, <3>2, <3>5, <4>1, <4>2
    <3> QED BY <3>3, <3>4, <3>5
  <2> QED BY <1>2, <2>1, <2>2
<1> QED BY <1>1, <1>3 DEF PairedIn

\* Every message of a turn is a push of a few roles.
TurnStep == PushUser \/ RespondText \/ RespondCalls \/ RespondInterrupted

\* Every turn step appends new originals (the pushes of run_loop) and keeps
\* the pairs of the list.
LEMMA TurnPushes ==
  ASSUME TypeOK, TurnStep
  PROVE  /\ \E roles \in Seq(Roles) :
              Push(roles) /\ (publish_guard = "off" => WellPaired(roles))
         /\ UNCHANGED <<config, summarizing, folded_this_turn, compaction_failures,
                        checkpoints, crossed>>
         /\ pc' \in {"start", "send", "usage"} /\ compaction_recorded_this_iter' \in BOOLEAN
         /\ summarizing => pc = "send"
<1> USE CompactionAssumption
<1>1. CASE PushUser
  <2>1. Push(<<"user">>) /\ <<"user">> \in Seq(Roles) /\ WellPaired(<<"user">>)
    BY <1>1 DEF PushUser, WellPaired, Roles
  <2> QED BY <1>1, <2>1 DEF PushUser, loop, TypeOK
<1>2. CASE RespondText
  <2>1. Push(<<"text">>) /\ <<"text">> \in Seq(Roles) /\ WellPaired(<<"text">>)
    BY <1>2 DEF RespondText, WellPaired, Roles
  <2> QED BY <1>2, <2>1 DEF RespondText, loop, TypeOK
<1>3. CASE RespondInterrupted
  <2>1. Push(<<"text", "user">>) /\ <<"text", "user">> \in Seq(Roles)
        /\ WellPaired(<<"text", "user">>)
    BY <1>3 DEF RespondInterrupted, WellPaired, Roles
  <2> QED BY <1>3, <2>1 DEF RespondInterrupted, loop, TypeOK
<1>4. CASE RespondCalls
  <2>1. PICK k \in 1..MaxResults :
          \/ Push(<<"call">> \o Results(k))
          \/ publish_guard = "advisory" /\ Push(<<"call", "user">> \o Results(k))
    BY <1>4 DEF RespondCalls
  <2>2. /\ Results(k) \in Seq(Roles) /\ Len(Results(k)) = k
        /\ \A i \in 1..k : Results(k)[i] = "result"
    BY DEF Results, Roles
  <2>3. CASE Push(<<"call">> \o Results(k))
    <3> DEFINE r == <<"call">> \o Results(k)
    <3>1. /\ r \in Seq(Roles) /\ Len(r) = k + 1 /\ r[1] = "call"
          /\ \A i \in 2..(k + 1) : r[i] = "result"
      BY <2>2 DEF Roles
    <3> HIDE DEF r
    <3>2. WellPaired(r)
      BY <3>1 DEF WellPaired
    <3> QED BY <1>4, <2>3, <3>1, <3>2 DEF RespondCalls, loop, TypeOK, r
  <2>4. CASE publish_guard = "advisory" /\ Push(<<"call", "user">> \o Results(k))
    <3>1. <<"call", "user">> \o Results(k) \in Seq(Roles)
      BY <2>2 DEF Roles
    <3> QED BY <1>4, <2>4, <3>1 DEF RespondCalls, loop, TypeOK
  <2> QED BY <2>1, <2>3, <2>4
<1> QED BY <1>1, <1>2, <1>3, <1>4 DEF TurnStep

\* The end of a pass keeps the loop's variables in their types.
LEMMA AfterPassFacts ==
  ASSUME TypeOK, NEW outcome, AfterPass(outcome),
         outcome = "Failed" => compaction_failures < MAX_FAILURES
  PROVE  /\ compaction_failures' \in 0..MAX_FAILURES
         /\ summarizing' = FALSE
         /\ pc' \in {"start", "send"}
         /\ folded_this_turn' \in BOOLEAN /\ compaction_recorded_this_iter' \in BOOLEAN
         /\ crossed' \in 0..Thresholds
<1>0. crossed \in 0..Thresholds /\ 0 \in 0..Thresholds
  BY CompactionAssumption DEF TypeOK
<1>1. compaction_failures' \in 0..MAX_FAILURES
  BY CompactionAssumption DEF AfterPass, TypeOK
<1>2. crossed' = crossed \/ crossed' = 0
  BY DEF AfterPass
<1>3. /\ summarizing' = FALSE /\ pc' \in {"start", "send"}
      /\ folded_this_turn' \in BOOLEAN /\ compaction_recorded_this_iter' \in BOOLEAN
  BY DEF AfterPass
<1> QED BY <1>0, <1>1, <1>2, <1>3, Zenon

\* The messages a fold must carry over.
Carried(i) ==
  messages[i].role # "marker" \/ (~on_compact /\ LatestMarker(i))

FoldStep == FastFold \/ FinishInline

\* Both paths fold between safe cuts, and what must be carried over and does
\* not stay is covered by the new summary.  The fast path needs that its
\* checkpoint is fresh.
SafeFold(covered, start, end, idx) ==
  /\ start = 0 \/ SafeCut(messages, start)
  /\ SafeCut(messages, end) /\ start <= end
  /\ Folded(apply_summary(messages, covered, start, end), idx)
  /\ \A i \in 1..Len(messages) : Carried(i) =>
       \/ i <= start /\ messages[i].role # "marker"
       \/ i > end
       \/ messages[i].ids \subseteq covered
  /\ idx = start
  /\ start = 0 \/ /\ FinishInline
                  /\ \E w \in compute_compress_window(messages) : w[1] = start

\* Both folds of the pass, the reused checkpoint and the inline summary, are
\* safe folds of the list as it stands.
LEMMA FoldsAreSafe ==
  ASSUME Inv, FoldStep
  PROVE  \E covered \in SUBSET Originals, start \in Nat, end \in Nat, idx \in Nat :
           SafeFold(covered, start, end, idx)
<1>0. messages \in Seq(Message)
  BY DEF Inv, TypeOK
<1>1. CASE FastFold
  <2>1. PICK cp \in reusable : \E cut \in checkpoint_cuts(messages, cp.boundary) :
          \/ Folded(apply_summary(messages, cp.ids, 0, cut), 0)
          \/ on_compact /\ Folded(apply_summary(messages,
                                    Ids(SubSeq(messages, 1, cut)), 0, cut), 0)
    BY <1>1 DEF FastFold
  <2>2. PICK cut \in checkpoint_cuts(messages, cp.boundary) :
          \/ Folded(apply_summary(messages, cp.ids, 0, cut), 0)
          \/ on_compact /\ Folded(apply_summary(messages,
                                    Ids(SubSeq(messages, 1, cut)), 0, cut), 0)
    BY <2>1
  <2>3. cp \in slot /\ cp.generation = generation /\ cp \in CachedCheckpoint
    BY DEF reusable, Inv, TypeOK
  <2>4. /\ cp.boundary \in Nat /\ cp.ids \in SUBSET Originals
        /\ cp.boundary <= Len(messages)
        /\ cp.ids = Ids(SubSeq(messages, 1, cp.boundary))
    BY <2>3 DEF CachedCheckpoint, Inv, FreshCheckpoints
  <2>5. SafeCut(messages, cut) /\ cut <= cp.boundary
    BY <1>0, <2>4, CheckpointCutIsSafe
  <2>6. cut \in Nat /\ cut <= Len(messages)
    BY <2>5 DEF SafeCut
  <2>7. ASSUME NEW b \in Nat, cut <= b, b <= Len(messages)
        PROVE  /\ Ids(SubSeq(messages, 1, b)) \in SUBSET Originals
               /\ \A i \in 1..cut : messages[i].ids \subseteq Ids(SubSeq(messages, 1, b))
    <3>1. /\ Ids(SubSeq(messages, 0 + 1, b)) \in SUBSET Originals
          /\ \A i \in (0 + 1)..b : messages[i].ids \subseteq Ids(SubSeq(messages, 0 + 1, b))
      <4>1. 0 \in Nat /\ 0 <= b
        BY <2>7
      <4> QED BY <1>0, <2>7, <4>1, StretchIds, Zenon
    <3>2. 0 + 1 = 1 /\ \A i \in 1..cut : i \in 1..b
      BY <2>6, <2>7
    <3> QED BY <3>1, <3>2
  <2>8. ASSUME NEW covered \in SUBSET Originals,
               \A i \in 1..cut : messages[i].ids \subseteq covered,
               Folded(apply_summary(messages, covered, 0, cut), 0)
        PROVE  SafeFold(covered, 0, cut, 0)
    <3>1. \A i \in 1..Len(messages) : i > cut \/ i \in 1..cut
      BY <1>0, <2>6
    <3> QED BY <2>5, <2>6, <2>8, <3>1 DEF SafeFold
  <2>9. CASE Folded(apply_summary(messages, cp.ids, 0, cut), 0)
    <3>1. SafeFold(cp.ids, 0, cut, 0)
      BY <2>4, <2>5, <2>7, <2>8, <2>9
    <3> QED BY <2>4, <2>6, <3>1
  <2>10. CASE Folded(apply_summary(messages, Ids(SubSeq(messages, 1, cut)), 0, cut), 0)
    <3>1. SafeFold(Ids(SubSeq(messages, 1, cut)), 0, cut, 0)
      BY <2>6, <2>7, <2>8, <2>10
    <3> QED BY <2>6, <2>7, <3>1
  <2> QED BY <2>2, <2>9, <2>10
<1>2. CASE FinishInline
  <2>1. PICK w \in compute_compress_window(messages) :
          \/ Folded(apply_summary(messages, Ids(SubSeq(messages, w[1] + 1, w[2]))
                                    \cup find_previous_summary(messages),
                                  w[1], w[2]), w[1])
          \/ on_compact /\ Folded(apply_summary(messages,
                                    Ids(SubSeq(messages, w[1] + 1, w[2])), w[1], w[2]), w[1])
    BY <1>2 DEF FinishInline
  <2> DEFINE a == w[1]
             b == w[2]
             middle == Ids(SubSeq(messages, a + 1, b))
             previous == find_previous_summary(messages)
  <2>2. SafeCut(messages, a) /\ SafeCut(messages, b) /\ a < b
    BY <1>0, WindowIsSafe
  <2> HIDE DEF a, b
  <2>3. a \in Nat /\ b \in Nat /\ a <= b /\ b <= Len(messages)
    BY <2>2 DEF SafeCut
  <2>4. /\ middle \in SUBSET Originals
        /\ \A i \in (a + 1)..b : messages[i].ids \subseteq middle
    BY <1>0, <2>3, StretchIds
  <2>5. previous \in SUBSET Originals
    <3>1. \A i \in DOMAIN messages : messages[i].ids \in SUBSET Originals
      <4>1. \A i \in DOMAIN messages : messages[i] \in Message
        BY <1>0
      <4> QED BY <4>1 DEF Message
    <3> QED BY <3>1 DEF find_previous_summary
  <2>6. \A i \in 1..Len(messages) : LatestMarker(i) => messages[i].ids \subseteq previous
    <3>1. DOMAIN messages = 1..Len(messages)
      BY <1>0
    <3> QED BY <3>1 DEF find_previous_summary, LatestMarker
  <2> HIDE DEF middle, previous
  <2>7. ASSUME NEW covered \in SUBSET Originals, middle \subseteq covered,
               on_compact \/ previous \subseteq covered,
               Folded(apply_summary(messages, covered, a, b), a)
        PROVE  SafeFold(covered, a, b, a)
    <3>1. ASSUME NEW i \in 1..Len(messages), Carried(i)
          PROVE  \/ i <= a /\ messages[i].role # "marker"
                 \/ i > b
                 \/ messages[i].ids \subseteq covered
      <4>1. CASE i <= a
        BY <2>6, <2>7, <3>1, <4>1 DEF Carried
      <4>2. CASE i > a /\ i <= b
        <5>1. i \in (a + 1)..b
          BY <2>3, <4>2
        <5> QED BY <2>4, <2>7, <5>1
      <4> QED BY <2>3, <4>1, <4>2
    <3>2. \E v \in compute_compress_window(messages) : v[1] = a
      BY DEF a
    <3> QED BY <1>2, <2>2, <2>3, <2>7, <3>1, <3>2 DEF SafeFold
  <2>8. CASE Folded(apply_summary(messages, middle \cup previous, a, b), a)
    <3>1. SafeFold(middle \cup previous, a, b, a)
      BY <2>4, <2>5, <2>7, <2>8
    <3> QED BY <2>3, <2>4, <2>5, <3>1
  <2>9. CASE on_compact /\ Folded(apply_summary(messages, middle, a, b), a)
    <3>1. SafeFold(middle, a, b, a)
      BY <2>4, <2>7, <2>9
    <3> QED BY <2>3, <2>4, <3>1
  <2> QED BY <2>1, <2>8, <2>9 DEF a, b, middle, previous
<1> QED BY <1>1, <1>2 DEF FoldStep

\* The state run_loop sets up before its first iteration.
LEMMA Initially == Init => Inv
<1> SUFFICES ASSUME Init PROVE Inv
  OBVIOUS
<1> USE CompactionAssumption
<1> DEFINE first == [role |-> "user", ids |-> {1}]
<1>1. first \in Message /\ first.role = "user"
  BY DEF Message, Roles, Originals
<1>2. messages = <<first>>
  BY DEF Init
<1> HIDE DEF first
<1>3. messages \in Seq(Message) /\ DOMAIN messages = {1} /\ messages[1].role = "user"
  BY <1>1, <1>2
<1>4. TypeOK
  <2>1. /\ pushed \in Originals /\ compaction_failures \in 0..MAX_FAILURES
        /\ generation \in Nat /\ crossed \in 0..Thresholds
    BY DEF Init, Originals
  <2>2. slot \in SUBSET CachedCheckpoint /\ tasks \in SUBSET CachedCheckpoint
    BY DEF Init
  <2>3. /\ file_touch_tracker \in BOOLEAN /\ on_compact \in BOOLEAN
        /\ publish_guard \in {"off", "advisory"}
        /\ pc \in {"start", "send", "usage", "returned"} /\ summarizing \in BOOLEAN
        /\ folded_this_turn \in BOOLEAN /\ compaction_recorded_this_iter \in BOOLEAN
    BY Zenon DEF Init
  <2> QED BY <1>3, <2>1, <2>2, <2>3, Zenon DEF TypeOK
<1>5. StageInv /\ EpochInv /\ FreshCheckpoints
  BY DEF Init, StageInv, EpochInv, FreshCheckpoints
<1>6. CutsKeepPairs
  BY <1>3 DEF CutsKeepPairs, Paired
<1> QED BY <1>4, <1>5, <1>6 DEF Inv

\* The messages of a turn only extend the context.
LEMMA TurnKeepsInv ==
  ASSUME Inv, TurnStep
  PROVE  Inv'
<1>0. TypeOK
  BY DEF Inv
<1>1. /\ UNCHANGED <<config, summarizing, folded_this_turn, compaction_failures,
                     checkpoints, crossed>>
      /\ pc' \in {"start", "send", "usage"} /\ compaction_recorded_this_iter' \in BOOLEAN
      /\ summarizing => pc = "send"
  BY <1>0, TurnPushes
<1>2. PICK roles \in Seq(Roles) :
        Push(roles) /\ (publish_guard = "off" => WellPaired(roles))
  BY <1>0, TurnPushes
<1>3. /\ messages' \in Seq(Message) /\ pushed' \in Originals
      /\ Len(messages') = Len(messages) + Len(roles)
      /\ \A i \in 1..Len(messages) : messages'[i] = messages[i]
  BY <1>0, <1>2, PushFacts
<1>4. messages \in Seq(Message) /\ Len(messages) \in Nat /\ Len(roles) \in Nat
  BY <1>0 DEF TypeOK
<1>5. TypeOK'
  BY <1>0, <1>1, <1>3 DEF TypeOK, config, checkpoints
<1>6. StageInv' /\ EpochInv'
  BY <1>1 DEF Inv, StageInv, EpochInv, checkpoints
<1>7. FreshCheckpoints'
  <2> SUFFICES ASSUME NEW cp \in slot \cup tasks, cp.generation = generation
               PROVE  /\ cp.boundary <= Len(messages')
                      /\ cp.ids = Ids(SubSeq(messages', 1, cp.boundary))
    BY <1>1 DEF FreshCheckpoints, checkpoints
  <2>1. cp.boundary \in Nat
    BY <1>0 DEF TypeOK, CachedCheckpoint
  <2>2. cp.boundary <= Len(messages) /\ cp.ids = Ids(SubSeq(messages, 1, cp.boundary))
    BY DEF Inv, FreshCheckpoints
  <2>3. cp.boundary <= Len(messages') /\ \A i \in 1..cp.boundary : messages[i] = messages'[i]
    BY <1>3, <1>4, <2>1, <2>2
  <2>4. Ids(SubSeq(messages, 1, cp.boundary)) = Ids(SubSeq(messages', 1, cp.boundary))
    BY <1>3, <1>4, <2>1, <2>2, <2>3, PrefixIds
  <2> QED BY <2>2, <2>3, <2>4
<1>8. CutsKeepPairs'
  <2> SUFFICES ASSUME ~file_touch_tracker, publish_guard = "off" PROVE Paired'
    BY <1>1 DEF CutsKeepPairs, config
  <2>1. DOMAIN messages = 1..Len(messages) /\ DOMAIN messages' = 1..Len(messages')
    BY <1>3, <1>4
  <2>2. PairedIn(messages)
    BY <2>1 DEF Inv, CutsKeepPairs, Paired, PairedIn
  <2>3. PairedIn(messages)'
    BY <1>0, <1>2, <2>2, PushKeepsPairs
  <2> QED BY <2>1, <2>3 DEF Paired, PairedIn
<1> QED BY <1>5, <1>6, <1>7, <1>8 DEF Inv

\* A fold starts a new epoch with an empty slot.
LEMMA FoldKeepsInv ==
  ASSUME Inv, FoldStep
  PROVE  Inv'
<1>0. TypeOK /\ messages \in Seq(Message)
  BY DEF Inv, TypeOK
<1>1. PICK covered \in SUBSET Originals, start \in Nat, end \in Nat, idx \in Nat :
        SafeFold(covered, start, end, idx)
  BY FoldsAreSafe
<1> DEFINE new == apply_summary(messages, covered, start, end)
<1>2. /\ start = 0 \/ SafeCut(messages, start)
      /\ SafeCut(messages, end) /\ start <= end /\ end <= Len(messages)
  BY <1>1 DEF SafeFold, SafeCut
<1>3. /\ messages' \in restore_working_files(new, idx)
      /\ generation' = generation + 1 /\ slot' = {}
      /\ AfterPass("Succeeded")
      /\ UNCHANGED <<config, pushed, tasks>>
  BY <1>1 DEF SafeFold, Folded, NewEpoch
<1>4. new \in Seq(Message)
  <2>1. FoldShape(messages, covered, end, protected_head(messages, start), new)
    BY <1>0, <1>2, ApplyFacts
  <2> QED BY <2>1 DEF FoldShape
<1> HIDE DEF new
<1>5. messages' \in Seq(Message) /\ (~file_touch_tracker => messages' = new)
  BY <1>3, <1>4, RestoreFacts
<1>6. /\ compaction_failures' \in 0..MAX_FAILURES
      /\ summarizing' = FALSE
      /\ pc' \in {"start", "send"}
      /\ folded_this_turn' \in BOOLEAN /\ compaction_recorded_this_iter' \in BOOLEAN
      /\ crossed' \in 0..Thresholds
  BY <1>0, <1>3, AfterPassFacts
<1>7. TypeOK'
  <2>1. generation' \in Nat
    BY <1>0, <1>3 DEF TypeOK
  <2>2. /\ UNCHANGED <<file_touch_tracker, publish_guard, on_compact, pushed, tasks>>
        /\ slot' \in SUBSET CachedCheckpoint
    BY <1>3 DEF config
  <2>3. pc' \in {"start", "send", "usage", "returned"} /\ summarizing' \in BOOLEAN
    BY <1>6
  <2> QED BY <1>0, <1>5, <1>6, <2>1, <2>2, <2>3 DEF TypeOK
<1>8. StageInv'
  BY <1>6 DEF StageInv
<1>9. generation \in Nat /\ \A cp \in tasks : cp.generation \in Nat /\ cp.generation <= generation
  BY <1>0 DEF Inv, TypeOK, EpochInv, CachedCheckpoint
<1>10. EpochInv' /\ FreshCheckpoints'
  BY <1>3, <1>9 DEF EpochInv, FreshCheckpoints
<1>11. CutsKeepPairs'
  <2> SUFFICES ASSUME ~file_touch_tracker, publish_guard = "off" PROVE Paired'
    BY <1>3 DEF CutsKeepPairs, config
  <2>1. DOMAIN messages = 1..Len(messages) /\ DOMAIN new = 1..Len(new)
    BY <1>0, <1>4
  <2>2. PairedIn(messages)
    BY <2>1 DEF Inv, CutsKeepPairs, Paired, PairedIn
  <2>3. PairedIn(new)
    BY <1>0, <1>2, <2>2, ApplyKeepsPairs DEF new
  <2> QED BY <1>5, <2>1, <2>3 DEF Paired, PairedIn
<1> QED BY <1>7, <1>8, <1>10, <1>11 DEF Inv

\* A step that leaves the context and the checkpoints alone.
LEMMA LoopKeepsInv ==
  ASSUME Inv, ReturnRun \/ PassSkipped \/ BeginInline \/ FailInline \/ NoFoldAtStart
  PROVE  Inv'
<1> USE CompactionAssumption
<1>0. TypeOK
  BY DEF Inv
<1>1. UNCHANGED <<config, messages, pushed, checkpoints>>
  BY DEF ReturnRun, PassSkipped, BeginInline, FailInline, NoFoldAtStart
<1>2. /\ pc' \in {"start", "send", "usage", "returned"} /\ summarizing' \in BOOLEAN
      /\ folded_this_turn' \in BOOLEAN /\ compaction_recorded_this_iter' \in BOOLEAN
      /\ compaction_failures' \in 0..MAX_FAILURES /\ crossed' \in 0..Thresholds
      /\ summarizing' => pc' \in {"start", "usage"} /\ compaction_failures' < MAX_FAILURES
  <2>1. CASE ReturnRun
    BY <1>0, <2>1 DEF TypeOK, ReturnRun, loop
  <2>2. CASE PassSkipped
    BY <1>0, <2>2, AfterPassFacts DEF PassSkipped
  <2>3. CASE BeginInline
    BY <1>0, <2>3 DEF TypeOK, BeginInline, MayFold, BreakerOpen, loop
  <2>4. CASE FailInline
    BY <1>0, <2>4, AfterPassFacts DEF FailInline, Inv, StageInv
  <2>5. CASE NoFoldAtStart
    BY <1>0, <2>5 DEF TypeOK, NoFoldAtStart, loop
  <2> QED BY <2>1, <2>2, <2>3, <2>4, <2>5
<1>3. TypeOK'
  BY <1>0, <1>1, <1>2 DEF TypeOK, config, checkpoints
<1>4. StageInv'
  BY <1>2 DEF StageInv
<1>5. EpochInv' /\ FreshCheckpoints' /\ CutsKeepPairs'
  BY <1>1 DEF Inv, EpochInv, FreshCheckpoints, CutsKeepPairs, Paired, config, checkpoints
<1> QED BY <1>3, <1>4, <1>5 DEF Inv

\* A checkpoint is spawned from the whole context of its epoch.
LEMMA SpawnKeepsInv ==
  ASSUME Inv, NoFoldAfterUsage
  PROVE  Inv'
<1> DEFINE cp0 == [boundary |-> Len(messages), ids |-> Ids(messages),
                   generation |-> generation]
<1>0. TypeOK /\ messages \in Seq(Message) /\ generation \in Nat
  BY DEF Inv, TypeOK
<1>1. /\ UNCHANGED <<config, messages, pushed, summarizing, compaction_failures,
                     generation, slot>>
      /\ pc' = "start" /\ compaction_recorded_this_iter' = FALSE /\ ~summarizing
      /\ folded_this_turn' \in {folded_this_turn, FALSE}
      /\ tasks' = tasks \/ tasks' = tasks \cup {cp0}
      /\ crossed' = crossed \/ crossed' \in 0..Thresholds
  BY DEF NoFoldAfterUsage
<1>2. Len(messages) \in Nat /\ Ids(messages) \in SUBSET Originals
  BY <1>0, IdsAt
<1>3. cp0 \in CachedCheckpoint
  BY <1>0, <1>2 DEF CachedCheckpoint
<1>4. cp0.boundary = Len(messages) /\ cp0.ids = Ids(messages) /\ cp0.generation = generation
  OBVIOUS
<1> HIDE DEF cp0
<1>5. TypeOK'
  <2>1. tasks' \in SUBSET CachedCheckpoint
    BY <1>0, <1>1, <1>3 DEF TypeOK
  <2> QED BY <1>0, <1>1, <2>1 DEF TypeOK, config
<1>6. StageInv'
  BY <1>1 DEF StageInv
<1>7. EpochInv'
  BY <1>0, <1>1, <1>4 DEF Inv, EpochInv
<1>8. Ids(SubSeq(messages, 1, Len(messages))) = Ids(messages)
  <2>1. SubSeq(messages, 1, Len(messages)) = messages
    BY <1>0
  <2> QED BY <2>1
<1>9. FreshCheckpoints'
  <2> SUFFICES ASSUME NEW cp \in slot \cup tasks \cup {cp0}, cp.generation = generation
               PROVE  /\ cp.boundary <= Len(messages)
                      /\ cp.ids = Ids(SubSeq(messages, 1, cp.boundary))
    BY <1>1 DEF FreshCheckpoints
  <2>1. CASE cp = cp0
    BY <1>2, <1>4, <1>8, <2>1
  <2>2. CASE cp # cp0
    BY <2>2 DEF Inv, FreshCheckpoints
  <2> QED BY <2>1, <2>2
<1>10. CutsKeepPairs'
  BY <1>1 DEF Inv, CutsKeepPairs, Paired, config
<1> QED BY <1>5, <1>6, <1>7, <1>9, <1>10 DEF Inv

\* A checkpoint lands or fails at any moment.
LEMMA CheckpointKeepsInv ==
  ASSUME Inv, NEW cp \in tasks, CheckpointLands(cp) \/ CheckpointFails(cp)
  PROVE  Inv'
<1>1. /\ UNCHANGED <<config, messages, pushed, pc, summarizing, loop, generation, crossed>>
      /\ slot' \cup tasks' \subseteq slot \cup tasks
      /\ slot' \subseteq slot \cup tasks /\ tasks' \subseteq tasks
  BY DEF CheckpointLands, CheckpointFails
<1>2. TypeOK'
  BY <1>1 DEF Inv, TypeOK, config, loop
<1>3. StageInv'
  BY <1>1 DEF Inv, StageInv, loop
<1>4. EpochInv' /\ FreshCheckpoints'
  BY <1>1 DEF Inv, EpochInv, FreshCheckpoints
<1>5. CutsKeepPairs'
  BY <1>1 DEF Inv, CutsKeepPairs, Paired, config
<1> QED BY <1>2, <1>3, <1>4, <1>5 DEF Inv

\* A step that changes no variable keeps the invariant.
LEMMA Stays ==
  ASSUME Inv, UNCHANGED vars
  PROVE  Inv'
<1>1. UNCHANGED <<file_touch_tracker, publish_guard, on_compact, messages, pushed, pc,
                  summarizing, folded_this_turn, compaction_recorded_this_iter,
                  compaction_failures, generation, slot, tasks, crossed>>
  BY DEF vars, config, loop, checkpoints
<1> QED BY <1>1 DEF Inv, TypeOK, StageInv, EpochInv, FreshCheckpoints, CutsKeepPairs, Paired

\* Every step of run_loop and of its detached checkpoints keeps the invariant.
LEMMA Inductive == Inv /\ [Next]_vars => Inv'
<1> SUFFICES ASSUME Inv, [Next]_vars PROVE Inv'
  OBVIOUS
<1>1. CASE TurnStep
  BY <1>1, TurnKeepsInv
<1>2. CASE FoldStep
  BY <1>2, FoldKeepsInv
<1>3. CASE ReturnRun \/ PassSkipped \/ BeginInline \/ FailInline \/ NoFoldAtStart
  BY <1>3, LoopKeepsInv
<1>4. CASE NoFoldAfterUsage
  BY <1>4, SpawnKeepsInv
<1>5. CASE \E cp \in tasks : CheckpointLands(cp) \/ CheckpointFails(cp)
  BY <1>5, CheckpointKeepsInv
<1>6. CASE UNCHANGED vars
  BY <1>6, Stays
<1> QED BY <1>1, <1>2, <1>3, <1>4, <1>5, <1>6 DEF Next, TurnStep, FoldStep, Finished

\* The invariant holds throughout a run.
LEMMA InvHolds == Spec => []Inv
BY Initially, Inductive, PTL DEF Spec

----------------------------------------------------------------------------
(* The theorems.                                                           *)

\* The context stays a list of messages, and the breaker of
\* record_compaction_outcome never counts past its limit.
THEOREM TypeCorrect == Spec => []TypeOK
<1>1. Inv => TypeOK
  BY DEF Inv
<1> QED BY <1>1, InvHolds, PTL

\* However late or out of order the background checkpoints of
\* spawn_incremental_checkpoint land, one the next fold would reuse was made
\* from exactly the messages below its boundary.
THEOREM CheckpointsAreFresh == Spec => []FreshCheckpoints
<1>1. Inv => FreshCheckpoints
  BY DEF Inv
<1> QED BY <1>1, InvHolds, PTL

\* The cuts of compute_compress_window and apply_checkpoint_summary never
\* separate a call from its results, whatever the protected head and tail.
THEOREM FoldsKeepPairs == Spec => []CutsKeepPairs
<1>1. Inv => CutsKeepPairs
  BY DEF Inv
<1> QED BY <1>1, InvHolds, PTL

\* A step keeps every message that must be carried over.
LEMMA StepsCarryOver ==
  ASSUME Inv, [Next]_vars, NEW i \in 1..Len(messages), Carried(i)
  PROVE  messages[i].ids \subseteq Ids(messages')
<1>0. TypeOK /\ messages \in Seq(Message)
  BY DEF Inv, TypeOK
<1>1. CASE TurnStep
  <2>1. PICK roles \in Seq(Roles) : Push(roles)
    BY <1>0, <1>1, TurnPushes
  <2>2. /\ messages' \in Seq(Message)
        /\ Len(messages') = Len(messages) + Len(roles)
        /\ \A j \in 1..Len(messages) : messages'[j] = messages[j]
    BY <1>0, <2>1, PushFacts
  <2>3. i \in 1..Len(messages') /\ messages'[i] = messages[i]
    BY <1>0, <2>2
  <2> QED BY <2>2, <2>3, IdsAt
<1>2. CASE FoldStep
  <2>1. PICK covered \in SUBSET Originals, start \in Nat, end \in Nat, idx \in Nat :
          SafeFold(covered, start, end, idx)
    BY <1>2, FoldsAreSafe
  <2> DEFINE new == apply_summary(messages, covered, start, end)
  <2>2. start <= end /\ end <= Len(messages)
    BY <2>1 DEF SafeFold, SafeCut
  <2>3. messages[i].ids \subseteq Ids(new)
    BY <1>0, <2>1, <2>2, ApplyKeepsIds DEF SafeFold
  <2>4. new \in Seq(Message)
    <3>1. FoldShape(messages, covered, end, protected_head(messages, start), new)
      BY <1>0, <2>2, ApplyFacts
    <3> QED BY <3>1 DEF FoldShape
  <2>5. messages' \in restore_working_files(new, idx)
    BY <2>1 DEF SafeFold, Folded
  <2> HIDE DEF new
  <2>6. Ids(new) \subseteq Ids(messages')
    BY <2>4, <2>5, RestoreFacts
  <2> QED BY <2>3, <2>6
<1>3. CASE messages' = messages
  BY <1>0, <1>3, IdsAt
<1>4. TurnStep \/ FoldStep \/ messages' = messages
  BY DEF Next, TurnStep, FoldStep, ReturnRun, PassSkipped, BeginInline, FailInline,
         NoFoldAtStart, NoFoldAfterUsage, CheckpointLands, CheckpointFails, Finished, vars
<1> QED BY <1>1, <1>2, <1>3, <1>4

\* A message a fold of run_compaction_pass_with_focus takes out of the
\* context, and the latest summary it supersedes, is among what the new
\* summary was made from, the fast path with a late checkpoint included.
THEOREM FoldsLoseNothing == Spec => FoldsCarryOver
<1>1. Inv /\ [Next]_vars =>
        [\A i \in DOMAIN messages :
           (messages[i].role # "marker" \/ (~on_compact /\ LatestMarker(i)))
             => messages[i].ids \subseteq Ids(messages')]_vars
  <2>1. ASSUME Inv, [Next]_vars, NEW i \in DOMAIN messages,
               messages[i].role # "marker" \/ (~on_compact /\ LatestMarker(i))
        PROVE  messages[i].ids \subseteq Ids(messages')
    <3>1. i \in 1..Len(messages)
      BY <2>1 DEF Inv, TypeOK
    <3> QED BY <2>1, <3>1, StepsCarryOver DEF Carried
  <2> QED BY <2>1
<1> QED BY <1>1, InvHolds, PTL DEF Spec, FoldsCarryOver

----------------------------------------------------------------------------
(* Where the restored snapshots can come between a call and its results.   *)

\* A snapshot right after a marker separates no pair.
LEMMA RestoreAfterMarker ==
  ASSUME NEW msgs \in Seq(Message), PairedIn(msgs), NEW idx \in Nat,
         idx + 1 <= Len(msgs), msgs[idx + 1].role = "marker",
         NEW out, out \in restore_working_files(msgs, idx)
  PROVE  PairedIn(out) /\ out \in Seq(Message)
<1> DEFINE n == Len(msgs)
           at == idx + 1
<1>0. n \in Nat /\ at \in Nat /\ 1 <= at /\ at <= n
  OBVIOUS
<1>1. CASE out = msgs
  BY <1>1
<1>2. CASE out # msgs
  <2> DEFINE a == SubSeq(msgs, 1, at)
             b == SubSeq(msgs, at + 1, n)
             m == a \o <<Snapshot>>
  <2>1. out = m \o b
    BY <1>2 DEF restore_working_files
  <2>2. a \in Seq(Message) /\ Len(a) = at /\ \A i \in 1..at : a[i] = msgs[i]
    BY <1>0
  <2>3. b \in Seq(Message) /\ Len(b) = n - at
        /\ \A i \in 1..(n - at) : b[i] = msgs[at + i]
    BY <1>0, Stretch
  <2>4. <<Snapshot>> \in Seq(Message) /\ Len(<<Snapshot>>) = 1
        /\ <<Snapshot>>[1] = Snapshot /\ Snapshot.role = "snapshot"
    BY DEF Snapshot, Message, Roles
  <2> HIDE DEF a, b, n, at
  <2>5. m \in Seq(Message) /\ Len(m) = at + 1 /\ (\A i \in 1..at : m[i] = msgs[i])
        /\ m[at + 1].role = "snapshot"
    BY <1>0, <2>2, <2>4
  <2> HIDE DEF m
  <2>6. /\ out \in Seq(Message) /\ Len(out) = n + 1
        /\ \A i \in 1..(at + 1) : out[i] = m[i]
        /\ \A i \in 1..(n - at) : out[at + 1 + i] = b[i]
    <3>1. m \in Seq(Message) /\ b \in Seq(Message)
      BY <2>3, <2>5
    <3>2. /\ m \o b \in Seq(Message) /\ Len(m \o b) = Len(m) + Len(b)
          /\ \A i \in 1..Len(m) : (m \o b)[i] = m[i]
          /\ \A i \in 1..Len(b) : (m \o b)[Len(m) + i] = b[i]
      BY <3>1
    <3>3. Len(m) + Len(b) = n + 1
      BY <1>0, <2>3, <2>5
    <3> QED BY <2>1, <2>3, <2>5, <3>2, <3>3, Zenon
  <2>7. \A i \in 1..at : out[i] = msgs[i]
    BY <1>0, <2>5, <2>6
  <2>8. out[at + 1].role = "snapshot"
    BY <1>0, <2>5, <2>6
  <2>9. \A k \in (at + 1)..n : out[k + 1] = msgs[k]
    <3> SUFFICES ASSUME NEW k \in (at + 1)..n PROVE out[k + 1] = msgs[k]
      OBVIOUS
    <3>1. k - at \in 1..(n - at) /\ at + 1 + (k - at) = k + 1 /\ at + (k - at) = k
      BY <1>0
    <3>2. out[at + 1 + (k - at)] = b[k - at] /\ b[k - at] = msgs[at + (k - at)]
      BY <2>3, <2>6, <3>1, Zenon
    <3> QED BY <3>1, <3>2
  <2>10. msgs[at].role = "marker"
    BY DEF at
  <2>11. \A i \in 1..n :
           /\ msgs[i].role = "call" => i + 1 \in 1..n /\ msgs[i + 1].role = "result"
           /\ msgs[i].role = "result" =>
                i - 1 \in 1..n /\ msgs[i - 1].role \in {"call", "result"}
    BY DEF PairedIn, n
  <2>12. ASSUME NEW i \in 1..(n + 1)
         PROVE  /\ out[i].role = "call" =>
                     i + 1 \in 1..(n + 1) /\ out[i + 1].role = "result"
                /\ out[i].role = "result" =>
                     i - 1 \in 1..(n + 1) /\ out[i - 1].role \in {"call", "result"}
    <3>1. CASE i < at
      <4>1. i \in 1..n /\ i \in 1..at /\ i + 1 \in 1..at
        BY <1>0, <3>1
      <4>2. out[i] = msgs[i] /\ out[i + 1] = msgs[i + 1]
        BY <2>7, <4>1
      <4>3. out[i].role = "result" => i - 1 \in 1..at /\ out[i - 1] = msgs[i - 1]
        BY <1>0, <2>7, <2>11, <4>1, <4>2
      <4> QED BY <1>0, <2>11, <4>1, <4>2, <4>3
    <3>2. CASE i = at
      <4>1. out[i].role = "marker"
        BY <1>0, <2>7, <2>10, <3>2
      <4> QED BY <4>1
    <3>3. CASE i = at + 1
      BY <2>8, <3>3
    <3>4. CASE i > at + 1
      <4> DEFINE k == i - 1
      <4>1. k \in (at + 1)..n /\ k \in 1..n /\ k + 1 = i /\ k - 1 \in at..n
        BY <1>0, <3>4
      <4>2. out[i] = msgs[k]
        BY <2>9, <4>1
      <4>3. msgs[k].role = "call" => out[i + 1].role = "result" /\ i + 1 \in 1..(n + 1)
        <5> SUFFICES ASSUME msgs[k].role = "call"
                     PROVE  out[i + 1].role = "result" /\ i + 1 \in 1..(n + 1)
          OBVIOUS
        <5>1. k + 1 \in 1..n /\ msgs[k + 1].role = "result"
          BY <2>11, <4>1
        <5>2. i \in (at + 1)..n
          BY <1>0, <4>1, <5>1
        <5>3. out[i + 1] = msgs[i]
          BY <2>9, <5>2
        <5> QED BY <1>0, <4>1, <5>1, <5>2, <5>3
      <4>4. msgs[k].role = "result" => out[i - 1].role \in {"call", "result"}
        <5> SUFFICES ASSUME msgs[k].role = "result"
                     PROVE  out[i - 1].role \in {"call", "result"}
          OBVIOUS
        <5>1. msgs[k - 1].role \in {"call", "result"}
          BY <2>11, <4>1
        <5>2. k - 1 # at
          BY <2>10, <5>1
        <5>3. k - 1 \in (at + 1)..n /\ (k - 1) + 1 = i - 1
          BY <1>0, <4>1, <5>2
        <5>4. out[i - 1] = msgs[k - 1]
          BY <2>9, <5>3
        <5> QED BY <5>1, <5>4
      <4>5. i - 1 \in 1..(n + 1)
        BY <1>0, <4>1
      <4> HIDE DEF k
      <4> QED BY <4>2, <4>3, <4>4, <4>5
    <3> QED BY <1>0, <3>1, <3>2, <3>3, <3>4
  <2> QED BY <2>6, <2>12 DEF PairedIn
<1> QED BY <1>1, <1>2

\* A head without markers is kept as it is, so the new marker stands where
\* the head ended.
LEMMA MarkerPlace ==
  ASSUME NEW msgs \in Seq(Message), NEW covered \in SUBSET Originals,
         NEW start \in Nat, NEW end \in Nat, start <= end, end <= Len(msgs),
         \A i \in 1..start : msgs[i].role # "marker",
         NEW new, new = apply_summary(msgs, covered, start, end)
  PROVE  start + 1 <= Len(new) /\ new[start + 1].role = "marker"
<1> DEFINE head == protected_head(msgs, start)
           kept == {i \in 1..start : msgs[i].role # "marker"}
<1>1. kept = 1..start
  OBVIOUS
<1>2. Cardinality(1..start) = start
  BY FS_Interval
<1>3. DOMAIN head = 1..start
  <2>1. head = Retain(msgs, kept)
    BY DEF protected_head
  <2>2. kept \in SUBSET (1..start)
    OBVIOUS
  <2> HIDE DEF kept, head
  <2>3. DOMAIN Retain(msgs, kept) = 1..Cardinality(kept)
    BY <2>2, RetainPositions
  <2> QED BY <1>1, <1>2, <2>1, <2>3, Zenon
<1>4. Len(head) = start
  <2>1. head \in Seq(Message)
    BY HeadFacts
  <2> HIDE DEF head
  <2> QED BY <1>3, <2>1
<1>5. FoldShape(msgs, covered, end, head, new)
  BY ApplyFacts
<1>6. Marker(covered).role = "marker"
  BY DEF Marker
<1> HIDE DEF head
<1>7. Len(new) = start + 1 + (Len(msgs) - end) /\ new[start + 1] = Marker(covered)
  BY <1>4, <1>5 DEF FoldShape
<1> QED BY <1>6, <1>7

\* The window of the inline path leaves an older marker in its head.
HeadHoldsMarker ==
  \E w \in compute_compress_window(messages) :
    \E i \in 1..w[1] : messages[i].role = "marker"

\* What may separate a call from its results when the advisory mode does not.
PairsBreakBehindMarkers ==
  [][publish_guard = "off" /\ Paired /\ ~Paired'
       => file_touch_tracker /\ FinishInline /\ HeadHoldsMarker]_vars

\* A fold keeps the pairs unless the snapshots are restored by an inline fold
\* whose head holds a marker.
LEMMA FoldsKeepMostPairs ==
  ASSUME Inv, FoldStep, publish_guard = "off", Paired,
         ~(file_touch_tracker /\ FinishInline /\ HeadHoldsMarker)
  PROVE  Paired'
<1>0. messages \in Seq(Message)
  BY DEF Inv, TypeOK
<1>1. PICK covered \in SUBSET Originals, start \in Nat, end \in Nat, idx \in Nat :
        SafeFold(covered, start, end, idx)
  BY FoldsAreSafe
<1> DEFINE new == apply_summary(messages, covered, start, end)
<1>2. /\ start = 0 \/ SafeCut(messages, start)
      /\ SafeCut(messages, end) /\ start <= end /\ end <= Len(messages)
      /\ messages' \in restore_working_files(new, idx) /\ idx = start
      /\ start = 0 \/ /\ FinishInline
                      /\ \E w \in compute_compress_window(messages) : w[1] = start
  BY <1>1 DEF SafeFold, SafeCut, Folded
<1>3. PairedIn(messages)
  <2>1. DOMAIN messages = 1..Len(messages)
    BY <1>0
  <2> QED BY <2>1 DEF Paired, PairedIn
<1>4. PairedIn(new)
  BY <1>0, <1>2, <1>3, ApplyKeepsPairs
<1>5. new \in Seq(Message)
  <2>1. FoldShape(messages, covered, end, protected_head(messages, start), new)
    BY <1>0, <1>2, ApplyFacts
  <2> QED BY <2>1 DEF FoldShape
<1>6. PairedIn(messages)' /\ messages' \in Seq(Message)
  <2>1. CASE ~file_touch_tracker
    <3>1. messages' = new
      <4> HIDE DEF new
      <4> QED BY <1>2, <1>5, <2>1, RestoreFacts
    <3> HIDE DEF new
    <3>2. PairedIn(new) => PairedIn(messages)'
      BY <3>1 DEF PairedIn
    <3> QED BY <1>4, <1>5, <3>1, <3>2
  <2>2. CASE file_touch_tracker
    <3>1. \A i \in 1..start : messages[i].role # "marker"
      <4>1. CASE start = 0
        BY <4>1
      <4>2. CASE start # 0
        BY <1>2, <2>2, <4>2 DEF HeadHoldsMarker
      <4> QED BY <4>1, <4>2
    <3>2. start + 1 <= Len(new) /\ new[start + 1].role = "marker"
      BY <1>0, <1>2, <3>1, MarkerPlace
    <3> HIDE DEF new
    <3>3. \A out : out \in restore_working_files(new, idx)
                     => PairedIn(out) /\ out \in Seq(Message)
      BY <1>2, <1>4, <1>5, <3>2, RestoreAfterMarker
    <3> DEFINE after == messages'
    <3>4. PairedIn(after) /\ after \in Seq(Message)
      <4>1. after \in restore_working_files(new, idx)
        BY <1>2
      <4> HIDE DEF after
      <4> QED BY <3>3, <4>1
    <3> QED BY <3>4 DEF PairedIn
  <2> QED BY <2>1, <2>2
<1>7. DOMAIN messages' = 1..Len(messages')
  BY <1>6
<1> QED BY <1>6, <1>7 DEF Paired, PairedIn

\* For every head, tail and number of folds: with the publish guard off, the
\* only step that can take a call and its results apart is an inline fold
\* that restores file snapshots while an older marker still stands in the
\* protected head.  The first fold of a run, every fold that reuses a
\* checkpoint and every fold without a file tracker keep the pairs.
THEOREM OnlyMarkersMisplaceSnapshots == Spec => PairsBreakBehindMarkers
<1> DEFINE P == publish_guard = "off" /\ Paired /\ ~Paired'
                  => file_touch_tracker /\ FinishInline /\ HeadHoldsMarker
<1>1. Inv /\ [Next]_vars => [P]_vars
  <2> SUFFICES ASSUME Inv, Next, publish_guard = "off", Paired, ~Paired'
               PROVE  file_touch_tracker /\ FinishInline /\ HeadHoldsMarker
    OBVIOUS
  <2>0. messages \in Seq(Message) /\ TypeOK
    BY DEF Inv, TypeOK
  <2>1. CASE TurnStep
    <3>1. PICK roles \in Seq(Roles) : Push(roles) /\ WellPaired(roles)
      BY <2>0, <2>1, TurnPushes
    <3>2. DOMAIN messages = 1..Len(messages)
      BY <2>0
    <3>3. PairedIn(messages)
      BY <3>2 DEF Paired, PairedIn
    <3>4. PairedIn(messages)' /\ messages' \in Seq(Message)
      BY <2>0, <3>1, <3>3, PushKeepsPairs, PushFacts
    <3>5. DOMAIN messages' = 1..Len(messages')
      BY <3>4
    <3> QED BY <3>4, <3>5 DEF Paired, PairedIn
  <2>2. CASE FoldStep
    BY <2>2, FoldsKeepMostPairs
  <2>3. CASE messages' = messages
    BY <2>3 DEF Paired
  <2> QED
    BY <2>1, <2>2, <2>3
       DEF Next, TurnStep, FoldStep, ReturnRun, PassSkipped, BeginInline,
           FailInline, NoFoldAtStart, NoFoldAfterUsage, CheckpointLands,
           CheckpointFails, Finished, vars
<1>2. [][P]_vars => PairsBreakBehindMarkers
  BY DEF PairsBreakBehindMarkers
<1> QED BY <1>1, <1>2, InvHolds, PTL DEF Spec

============================================================================
