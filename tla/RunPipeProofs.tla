--------------------------- MODULE RunPipeProofs ---------------------------
(***************************************************************************)
(* Proofs about one run's task, its two channels and its epitaph, for all  *)
(* capacities and any number of events.  The inductive invariant follows   *)
(* the loop's "end" message down the pipe: ahead of it the loop is still   *)
(* running, behind it there are only checkpoint refreshes.                 *)
(***************************************************************************)
EXTENDS RunPipe, TLAPS

Messages == {"progress", "end", "refresh"}
Events == Terminal \cup {"Progress", "Refresh"}
Late(e) == e \in {"refresh", "Refresh", "none"}

----------------------------------------------------------------------------
(* What the sequence operators do to a channel.                            *)

\* A message at the end of a channel.
LEMMA AppendMessage ==
  ASSUME NEW s \in Seq(Messages), NEW m \in Messages
  PROVE  /\ Append(s, m) \in Seq(Messages)
         /\ Len(Append(s, m)) = Len(s) + 1 /\ Append(s, m) # s
         /\ \A i \in 1..Len(s) : Append(s, m)[i] = s[i]
         /\ Append(s, m)[Len(s) + 1] = m
OBVIOUS

\* An event at the end of the event channel.
LEMMA AppendEvent ==
  ASSUME NEW s \in Seq(Events), NEW e \in Events
  PROVE  /\ Append(s, e) \in Seq(Events)
         /\ Len(Append(s, e)) = Len(s) + 1
         /\ \A i \in 1..Len(s) : Append(s, e)[i] = s[i]
         /\ Append(s, e)[Len(s) + 1] = e
OBVIOUS

\* A message taken from the front of a channel.
LEMMA TakeMessage ==
  ASSUME NEW s \in Seq(Messages), s # <<>>
  PROVE  /\ Head(s) \in Messages /\ Head(s) = s[1] /\ Len(s) \in Nat \ {0}
         /\ Tail(s) \in Seq(Messages) /\ Len(Tail(s)) = Len(s) - 1
         /\ \A i \in 1..Len(s) - 1 : Tail(s)[i] = s[i + 1]
OBVIOUS

----------------------------------------------------------------------------
\* The types and capacities, but for the length of the waiting line.
TypeCore ==
  /\ task \in {"live", "dropped"} /\ loop \in {"running", "returned"}
  /\ progress \in 0..MaxProgress
  /\ refresh \in {"working", "upgraded", "finished"}
  /\ inner \in Seq(Messages) /\ Len(inner) <= InnerCap
  /\ waiting \in Seq(Messages)
  /\ pump \in {"pumping", "returned"}
  /\ held \in Events \cup {"none"}
  /\ settled \in BOOLEAN
  /\ sent \in Seq(Events)
  /\ read \in 0..Len(sent) /\ Len(sent) - read <= OuterCap
  /\ rx \in {"open", "dropped"} /\ aborted \in BOOLEAN

\* Who waits for room: at most the loop and the checkpoint task.
WaitersInv ==
  /\ \A i, j \in 1..Len(waiting) :
       waiting[i] # "refresh" /\ waiting[j] # "refresh" => i = j
  /\ \A i, j \in 1..Len(waiting) :
       waiting[i] = "refresh" /\ waiting[j] = "refresh" => i = j
  /\ refresh # "upgraded" => \A i \in 1..Len(waiting) : waiting[i] # "refresh"
  /\ loop # "running" => \A i \in 1..Len(waiting) : waiting[i] = "refresh"
  /\ task # "live" => inner = <<>> /\ waiting = <<>> /\ held = "none"

AllLate(s) == \A i \in 1..Len(s) : Late(s[i])
HasEnd(s)  == \E i \in 1..Len(s) : s[i] = "end"
EndLast(s) == \A i, j \in 1..Len(s) : s[i] = "end" /\ i < j => Late(s[j])
EndingLast ==
  \A i, j \in 1..Len(sent) : sent[i] \in Terminal /\ i < j => Late(sent[j])

\* Behind the loop's end, wherever it is, there are only refreshes.
EndInv ==
  /\ EndLast(inner) /\ EndLast(waiting) /\ EndingLast
  /\ HasEnd(inner) => AllLate(waiting)
  /\ held \in Terminal \/ Heard => AllLate(inner) /\ AllLate(waiting)
  /\ Heard => Late(held)

\* A loop that has not let go of its end has not been heard of, and delivery
\* is what settles a run.
LoopInv ==
  /\ loop = "running" => ~HasEnd(inner) /\ held \notin Terminal /\ ~Heard
  /\ task = "live" => (settled <=> Heard)

PipeInv == TypeCore /\ WaitersInv /\ EndInv /\ LoopInv

\* A sender that finds room, or waits, keeps the channel within its capacity.
LEMMA SendTypes ==
  ASSUME TypeCore, NEW m \in {"progress", "end", "refresh"}, Send(m)
  PROVE  /\ inner' \in Seq(Messages) /\ Len(inner') <= InnerCap
         /\ waiting' \in Seq(Messages)
<1>1. m \in Messages
  BY DEF Messages
<1>2. CASE Len(inner) < InnerCap /\ waiting = <<>>
  BY <1>1, <1>2, AppendMessage, PipeAssumption DEF TypeCore, Send
<1>3. CASE ~(Len(inner) < InnerCap /\ waiting = <<>>)
  BY <1>1, <1>3, AppendMessage DEF TypeCore, Send
<1> QED
  BY <1>2, <1>3

\* The end of the task keeps the types, with or without an epitaph.
LEMMA DropTypes ==
  ASSUME TypeCore, Drop
  PROVE  TypeCore'
<1> USE PipeAssumption DEF TypeCore, consumer
<1>1. /\ inner' \in Seq(Messages) /\ waiting' \in Seq(Messages)
      /\ Len(inner') = 0
  BY DEF Drop
<1>2. CASE ~settled /\ rx = "open" /\ HasRoom
  <2>1. sent' \in Seq(Events) /\ Len(sent') = Len(sent) + 1
    BY <1>2, AppendEvent DEF Drop, Epitaph, Events, Terminal
  <2> QED
    BY <1>1, <1>2, <2>1 DEF Drop, HasRoom
<1>3. CASE ~(~settled /\ rx = "open" /\ HasRoom)
  BY <1>1, <1>3 DEF Drop, Epitaph
<1> QED
  BY <1>2, <1>3

\* Every step keeps the types and the capacities.
LEMMA TypePreserved ==
  ASSUME TypeCore, [Next]_vars
  PROVE  TypeCore'
<1> USE PipeAssumption
    DEF TypeCore, producer, channel, pumping, consumer
<1>1. CASE WaiterSends
  <2>1. Head(waiting) \in Messages /\ Tail(waiting) \in Seq(Messages)
    BY <1>1, TakeMessage DEF WaiterSends
  <2>2. Append(inner, Head(waiting)) \in Seq(Messages)
        /\ Len(Append(inner, Head(waiting))) = Len(inner) + 1
    BY <2>1, AppendMessage
  <2> QED
    BY <1>1, <2>1, <2>2 DEF WaiterSends
<1>2. CASE LoopEmits
  BY <1>2, SendTypes DEF LoopEmits
<1>3. CASE LoopEnds
  BY <1>3, SendTypes DEF LoopEnds
<1>4. CASE PumpTakes
  <2>1. Head(inner) \in Messages /\ Tail(inner) \in Seq(Messages)
        /\ Len(Tail(inner)) = Len(inner) - 1
    BY <1>4, TakeMessage DEF PumpTakes
  <2>2. translate(Head(inner)) \subseteq Events \cup {"none"}
    BY <2>1 DEF translate, Events, Messages
  <2> QED
    BY <1>4, <2>1, <2>2 DEF PumpTakes
<1>5. CASE PumpSends
  <2>1. sent' \in Seq(Events) /\ Len(sent') = Len(sent) + 1
    BY <1>5, AppendEvent DEF PumpSends
  <2> QED
    BY <1>5, <2>1 DEF PumpSends, HasRoom
<1>6. CASE PumpGivesUp
  BY <1>6 DEF PumpGivesUp
<1>7. CASE PumpFinishes
  BY <1>7 DEF PumpFinishes
<1>8. CASE TaskReturns
  BY <1>8, DropTypes DEF TaskReturns
<1>9. CASE RefreshUpgrades
  BY <1>9, SendTypes DEF RefreshUpgrades
<1>10. CASE TaskPanics
  BY <1>10, DropTypes DEF TaskPanics
<1>11. CASE TaskAborted
  BY <1>11, DropTypes DEF TaskAborted
<1>12. CASE Reads
  BY <1>12 DEF Reads
<1>13. CASE TearsDown
  BY <1>13 DEF TearsDown
<1>14. CASE Leaves
  BY <1>14 DEF Leaves
<1>15. CASE Rest
  BY <1>15 DEF Rest, vars
<1>16. CASE UNCHANGED vars
  BY <1>16 DEF vars
<1> QED
  BY <1>1, <1>2, <1>3, <1>4, <1>5, <1>6, <1>7, <1>8, <1>9, <1>10, <1>11,
     <1>12, <1>13, <1>14, <1>15, <1>16
     DEF Next, TaskStep

\* A message goes to the end of the channel, or of the line for room in it.
LEMMA SendPlaces ==
  ASSUME TypeCore, NEW m \in {"progress", "end", "refresh"}, Send(m)
  PROVE  \/ /\ waiting = <<>> /\ waiting' = waiting
            /\ Len(inner') = Len(inner) + 1
            /\ \A i \in 1..Len(inner) : inner'[i] = inner[i]
            /\ inner'[Len(inner) + 1] = m
         \/ /\ inner' = inner /\ waiting' # waiting
            /\ Len(waiting') = Len(waiting) + 1
            /\ \A i \in 1..Len(waiting) : waiting'[i] = waiting[i]
            /\ waiting'[Len(waiting) + 1] = m
<1>1. m \in Messages
  BY DEF Messages
<1>2. CASE Len(inner) < InnerCap /\ waiting = <<>>
  BY <1>1, <1>2, AppendMessage DEF TypeCore, Send
<1>3. CASE ~(Len(inner) < InnerCap /\ waiting = <<>>)
  <2>1. waiting' = Append(waiting, m) /\ inner' = inner
    BY <1>3 DEF Send
  <2> QED
    BY <1>1, <2>1, AppendMessage DEF TypeCore
<1> QED
  BY <1>2, <1>3

\* Every step keeps at most one message of each sender in the waiting line.
LEMMA WaitersPreserved ==
  ASSUME TypeCore, WaitersInv, [Next]_vars
  PROVE  WaitersInv'
<1> USE PipeAssumption
    DEF WaitersInv, TypeCore, Messages, producer, channel, pumping, consumer
<1>1. CASE WaiterSends
  BY <1>1 DEF WaiterSends
<1>2. CASE LoopEmits
  <2>1. CASE waiting' = waiting
    BY <1>2, <2>1 DEF LoopEmits, Blocked
  <2>2. CASE waiting' # waiting
    <3>1. Send("progress")
      BY <1>2, <2>2 DEF LoopEmits
    <3>2. /\ inner' = inner /\ Len(waiting') = Len(waiting) + 1
          /\ \A i \in 1..Len(waiting) : waiting'[i] = waiting[i]
          /\ waiting'[Len(waiting) + 1] = "progress"
      <4> HIDE DEF TypeCore, WaitersInv, Messages
      <4> QED
        BY <2>2, <3>1, SendPlaces
    <3>3. \A i \in 1..Len(waiting') :
            i \in 1..Len(waiting) \/ i = Len(waiting) + 1
      BY <3>2
    <3>4. \A i \in 1..Len(waiting) : waiting[i] = "refresh"
      BY <1>2, <2>2 DEF LoopEmits, Blocked
    <3>5. refresh' = refresh /\ task' = "live" /\ loop' = "running"
      BY <1>2, <2>2 DEF LoopEmits
    <3> QED
      BY <3>2, <3>3, <3>4, <3>5
  <2> QED
    BY <2>1, <2>2
<1>3. CASE LoopEnds
  <2>1. CASE waiting' = waiting
    BY <1>3, <2>1 DEF LoopEnds, Blocked
  <2>2. CASE waiting' # waiting
    <3>1. Send("end")
      BY <1>3, <2>2 DEF LoopEnds
    <3>2. /\ inner' = inner /\ Len(waiting') = Len(waiting) + 1
          /\ \A i \in 1..Len(waiting) : waiting'[i] = waiting[i]
          /\ waiting'[Len(waiting) + 1] = "end"
      <4> HIDE DEF TypeCore, WaitersInv, Messages
      <4> QED
        BY <2>2, <3>1, SendPlaces
    <3>3. \A i \in 1..Len(waiting') :
            i \in 1..Len(waiting) \/ i = Len(waiting) + 1
      BY <3>2
    <3>4. \A i \in 1..Len(waiting) : waiting[i] = "refresh"
      BY <1>3, <2>2 DEF LoopEnds, Blocked
    <3>5. refresh' = refresh /\ task' = "live" /\ loop' = "running"
      BY <1>3, <2>2 DEF LoopEnds
    <3> QED
      BY <3>2, <3>3, <3>4, <3>5
  <2> QED
    BY <2>1, <2>2
<1>4. CASE PumpTakes
  BY <1>4 DEF PumpTakes, translate
<1>5. CASE PumpSends
  BY <1>5 DEF PumpSends, HasRoom
<1>6. CASE PumpGivesUp
  BY <1>6 DEF PumpGivesUp
<1>7. CASE PumpFinishes
  BY <1>7 DEF PumpFinishes
<1>8. CASE TaskReturns
  BY <1>8 DEF TaskReturns, Drop, Epitaph, HasRoom
<1>9. CASE RefreshUpgrades
  <2>1. CASE waiting' = waiting
    BY <1>9, <2>1 DEF RefreshUpgrades, Blocked
  <2>2. CASE waiting' # waiting
    <3>1. Send("refresh")
      BY <1>9, <2>2 DEF RefreshUpgrades
    <3>2. /\ inner' = inner /\ Len(waiting') = Len(waiting) + 1
          /\ \A i \in 1..Len(waiting) : waiting'[i] = waiting[i]
          /\ waiting'[Len(waiting) + 1] = "refresh"
      <4> HIDE DEF TypeCore, WaitersInv, Messages
      <4> QED
        BY <2>2, <3>1, SendPlaces
    <3>3. \A i \in 1..Len(waiting') :
            i \in 1..Len(waiting) \/ i = Len(waiting) + 1
      BY <3>2
    <3>4. \A i \in 1..Len(waiting) : waiting[i] # "refresh"
      BY <1>9, <2>2 DEF RefreshUpgrades, Blocked
    <3>5. refresh' = "upgraded" /\ task' = "live" /\ loop' = "running"
      BY <1>9, <2>2 DEF RefreshUpgrades
    <3> QED
      BY <3>2, <3>3, <3>4, <3>5
  <2> QED
    BY <2>1, <2>2
<1>10. CASE TaskPanics
  BY <1>10 DEF TaskPanics, Drop, Epitaph, HasRoom
<1>11. CASE TaskAborted
  BY <1>11 DEF TaskAborted, Drop, Epitaph, HasRoom
<1>12. CASE Reads
  BY <1>12 DEF Reads
<1>13. CASE TearsDown
  BY <1>13 DEF TearsDown
<1>14. CASE Leaves
  BY <1>14 DEF Leaves
<1>15. CASE Rest
  BY <1>15 DEF Rest, vars
<1>16. CASE UNCHANGED vars
  BY <1>16 DEF vars
<1> QED
  BY <1>1, <1>2, <1>3, <1>4, <1>5, <1>6, <1>7, <1>8, <1>9, <1>10, <1>11,
     <1>12, <1>13, <1>14, <1>15, <1>16
     DEF Next, TaskStep

----------------------------------------------------------------------------
(* The loop's end on its way to the consumer.                              *)

\* Putting a message at the end of a channel.
LEMMA AppendLate ==
  ASSUME NEW s \in Seq(Messages), NEW m \in Messages
  PROVE  /\ AllLate(Append(s, m)) <=> AllLate(s) /\ Late(m)
         /\ HasEnd(Append(s, m)) <=> HasEnd(s) \/ m = "end"
         /\ EndLast(s) /\ (HasEnd(s) => Late(m)) => EndLast(Append(s, m))
<1>1. /\ Len(Append(s, m)) = Len(s) + 1 /\ Len(s) \in Nat
      /\ \A i \in 1..Len(s) : Append(s, m)[i] = s[i]
      /\ Append(s, m)[Len(s) + 1] = m
  BY AppendMessage
<1>2. \A i \in 1..Len(Append(s, m)) : i \in 1..Len(s) \/ i = Len(s) + 1
  BY <1>1
<1>3. /\ Len(s) + 1 \in 1..Len(Append(s, m))
      /\ 1..Len(s) \subseteq 1..Len(Append(s, m))
  BY <1>1
<1> DEFINE t == Append(s, m)
<1> HIDE DEF t
<1>4. AllLate(t) <=> AllLate(s) /\ Late(m)
  BY <1>1, <1>2, <1>3 DEF AllLate, t
<1>5. HasEnd(t) <=> HasEnd(s) \/ m = "end"
  BY <1>1, <1>2, <1>3 DEF HasEnd, t
<1>6. ASSUME EndLast(s), HasEnd(s) => Late(m)
      PROVE  EndLast(t)
  <2> SUFFICES ASSUME NEW i \in 1..Len(t), NEW j \in 1..Len(t),
                      t[i] = "end", i < j
               PROVE  Late(t[j])
    BY DEF EndLast
  <2>1. i \in 1..Len(s)
    BY <1>1, <1>2 DEF t
  <2>2. CASE j \in 1..Len(s)
    BY <1>1, <1>6, <2>1, <2>2 DEF t, EndLast
  <2>3. CASE j = Len(s) + 1
    BY <1>1, <1>6, <2>1, <2>3 DEF t, HasEnd
  <2> QED
    BY <1>2, <2>2, <2>3 DEF t
<1> QED
  BY <1>4, <1>5, <1>6 DEF t

\* Taking a message from the front of a channel.
LEMMA TakeLate ==
  ASSUME NEW s \in Seq(Messages), s # <<>>
  PROVE  /\ AllLate(s) => AllLate(Tail(s)) /\ Late(Head(s))
         /\ HasEnd(Tail(s)) => HasEnd(s)
         /\ Head(s) = "end" => HasEnd(s)
         /\ EndLast(s) => /\ EndLast(Tail(s))
                          /\ Head(s) = "end" => AllLate(Tail(s))
<1>1. /\ Head(s) = s[1] /\ Len(s) \in Nat \ {0} /\ Len(Tail(s)) = Len(s) - 1
      /\ \A i \in 1..Len(s) - 1 : Tail(s)[i] = s[i + 1]
  BY TakeMessage
<1>2. \A i \in 1..Len(Tail(s)) : i + 1 \in 1..Len(s) /\ Tail(s)[i] = s[i + 1]
  BY <1>1
<1>3. 1 \in 1..Len(s)
  BY <1>1
<1>4. AllLate(s) => AllLate(Tail(s)) /\ Late(Head(s))
  BY <1>1, <1>2, <1>3 DEF AllLate
<1>5. (HasEnd(Tail(s)) => HasEnd(s)) /\ (Head(s) = "end" => HasEnd(s))
  BY <1>1, <1>2, <1>3 DEF HasEnd
<1>6. ASSUME EndLast(s) PROVE EndLast(Tail(s))
  BY <1>1, <1>2, <1>6 DEF EndLast
<1>7. ASSUME EndLast(s), Head(s) = "end" PROVE AllLate(Tail(s))
  <2> SUFFICES ASSUME NEW i \in 1..Len(Tail(s)) PROVE Late(Tail(s)[i])
    BY DEF AllLate
  <2>1. i + 1 \in 1..Len(s) /\ 1 < i + 1 /\ s[1] = "end"
    BY <1>1, <1>2, <1>7
  <2> QED
    BY <1>2, <1>3, <1>7, <2>1 DEF EndLast
<1> QED
  BY <1>4, <1>5, <1>6, <1>7

\* An event that enters the event channel.
LEMMA AppendHeard ==
  ASSUME sent \in Seq(Events), NEW e \in Events, sent' = Append(sent, e)
  PROVE  /\ Heard' <=> Heard \/ e \in Terminal
         /\ EndingLast /\ (Heard => Late(e)) => EndingLast'
<1>1. /\ Len(sent') = Len(sent) + 1 /\ Len(sent) \in Nat
      /\ \A i \in 1..Len(sent) : sent'[i] = sent[i]
      /\ sent'[Len(sent) + 1] = e
  BY AppendEvent
<1>2. \A i \in 1..Len(sent') : i \in 1..Len(sent) \/ i = Len(sent) + 1
  BY <1>1
<1>3. Len(sent) + 1 \in 1..Len(sent') /\ 1..Len(sent) \subseteq 1..Len(sent')
  BY <1>1
<1>4. Heard' <=> Heard \/ e \in Terminal
  BY <1>1, <1>2, <1>3 DEF Heard, Terminal
<1>5. ASSUME EndingLast, Heard => Late(e)
      PROVE  EndingLast'
  <2> SUFFICES ASSUME NEW i \in 1..Len(sent'), NEW j \in 1..Len(sent'),
                      sent'[i] \in Terminal, i < j
               PROVE  Late(sent'[j])
    BY DEF EndingLast, Terminal, Late
  <2>1. i \in 1..Len(sent)
    BY <1>1, <1>2
  <2>2. CASE j \in 1..Len(sent)
    BY <1>1, <1>5, <2>1, <2>2 DEF EndingLast
  <2>3. CASE j = Len(sent) + 1
    BY <1>1, <1>5, <2>1, <2>3 DEF Heard
  <2> QED
    BY <1>2, <2>2, <2>3
<1> QED
  BY <1>4, <1>5

\* A loop that is not waiting for room has nothing in the waiting line.
LEMMA NotBlocked ==
  ASSUME TypeCore, ~Blocked({"progress", "end"})
  PROVE  AllLate(waiting) /\ ~HasEnd(waiting)
<1>1. \A i \in 1..Len(waiting) : waiting[i] \in Messages
  BY DEF TypeCore
<1> QED
  BY <1>1 DEF Blocked, Messages, Late, AllLate, HasEnd

\* A message of the loop or of the checkpoint goes out.
LEMMA SendLate ==
  ASSUME TypeCore, NEW m \in {"progress", "end", "refresh"}, Send(m),
         EndLast(inner), EndLast(waiting),
         HasEnd(inner) => AllLate(waiting),
         HasEnd(inner) \/ HasEnd(waiting) => Late(m)
  PROVE  /\ EndLast(inner') /\ EndLast(waiting')
         /\ HasEnd(inner') => AllLate(waiting')
         /\ AllLate(inner) /\ AllLate(waiting) /\ Late(m)
              => AllLate(inner') /\ AllLate(waiting')
         /\ HasEnd(inner') =>
              HasEnd(inner) \/ (m = "end" /\ waiting' = waiting)
<1>1. m \in Messages
  BY DEF Messages
<1>2. CASE Len(inner) < InnerCap /\ waiting = <<>>
  <2>1. inner' = Append(inner, m) /\ waiting' = waiting
    BY <1>2 DEF Send
  <2>2. AllLate(waiting)
    BY <1>2 DEF AllLate
  <2> QED
    BY <1>1, <2>1, <2>2, AppendLate DEF TypeCore
<1>3. CASE ~(Len(inner) < InnerCap /\ waiting = <<>>)
  <2>1. waiting' = Append(waiting, m) /\ inner' = inner
    BY <1>3 DEF Send
  <2> QED
    BY <1>1, <2>1, AppendLate DEF TypeCore
<1> QED
  BY <1>2, <1>3

\* The end of the task empties the pipe, and speaks only for a run unheard.
LEMMA DropEnds ==
  ASSUME TypeCore, EndInv, LoopInv, task = "live", Drop
  PROVE  EndInv' /\ LoopInv'
<1>1. /\ AllLate(inner') /\ AllLate(waiting')
      /\ EndLast(inner') /\ EndLast(waiting')
      /\ loop' = "returned" /\ task' = "dropped"
      /\ Late(held') /\ held' \notin Terminal
  BY DEF Drop, AllLate, EndLast, Late, Terminal
<1>2. CASE ~settled /\ rx = "open" /\ HasRoom
  <2>1. sent' = Append(sent, "Error") /\ ~Heard
    BY <1>2 DEF Drop, Epitaph, LoopInv
  <2>2. "Error" \in Events
    BY DEF Events, Terminal
  <2>3. EndingLast'
    BY <2>1, <2>2, AppendHeard DEF EndInv, TypeCore
  <2> QED
    BY <1>1, <2>3 DEF EndInv, LoopInv
<1>3. CASE ~(~settled /\ rx = "open" /\ HasRoom)
  <2>1. sent' = sent
    BY <1>3 DEF Drop, Epitaph
  <2> QED
    BY <1>1, <2>1 DEF EndInv, LoopInv, EndingLast
<1> QED
  BY <1>2, <1>3

\* Every step keeps the loop's end the last of its messages, and the loop
\* running until its end is out of its hands.
LEMMA EndPreserved ==
  ASSUME TypeCore, WaitersInv, EndInv, LoopInv, [Next]_vars
  PROVE  EndInv' /\ LoopInv'
<1> USE DEF producer, channel, pumping, consumer
<1>1. CASE WaiterSends
  <2> DEFINE m == Head(waiting)
  <2>1. m \in Messages /\ inner \in Seq(Messages) /\ waiting \in Seq(Messages)
        /\ inner' = Append(inner, m)
        /\ waiting' = Tail(waiting) /\ waiting # <<>>
    BY <1>1, TakeMessage DEF WaiterSends, TypeCore
  <2>2. /\ AllLate(inner') <=> AllLate(inner) /\ Late(m)
        /\ HasEnd(inner') <=> HasEnd(inner) \/ m = "end"
        /\ EndLast(inner) /\ (HasEnd(inner) => Late(m)) => EndLast(inner')
    BY <2>1, AppendLate
  <2>3. /\ AllLate(waiting) => AllLate(waiting') /\ Late(m)
        /\ EndLast(waiting) =>
             EndLast(waiting') /\ (m = "end" => AllLate(waiting'))
    BY <2>1, TakeLate
  <2>4. ~Late("end")
    BY DEF Late
  <2>9. (Heard' <=> Heard) /\ (EndingLast' <=> EndingLast)
    BY <1>1 DEF WaiterSends, Heard, EndingLast
  <2> QED
    BY <1>1, <2>9, <2>2, <2>3, <2>4 DEF WaiterSends, EndInv, LoopInv
<1>2. CASE LoopEmits
  <2>1. /\ ~Blocked({"progress", "end"}) /\ Send("progress")
        /\ loop = "running" /\ task = "live"
    BY <1>2 DEF LoopEmits
  <2>2. AllLate(waiting) /\ ~HasEnd(waiting)
    BY <2>1, NotBlocked
  <2>9. (Heard' <=> Heard) /\ (EndingLast' <=> EndingLast)
    BY <1>2 DEF LoopEmits, Heard, EndingLast
  <2> QED
    BY <1>2, <2>9, <2>1, <2>2, SendLate DEF LoopEmits, EndInv, LoopInv
<1>3. CASE LoopEnds
  <2>1. /\ ~Blocked({"progress", "end"}) /\ Send("end")
        /\ loop = "running" /\ task = "live"
    BY <1>3 DEF LoopEnds
  <2>2. AllLate(waiting) /\ ~HasEnd(waiting)
    BY <2>1, NotBlocked
  <2>9. (Heard' <=> Heard) /\ (EndingLast' <=> EndingLast)
    BY <1>3 DEF LoopEnds, Heard, EndingLast
  <2> QED
    BY <1>3, <2>9, <2>1, <2>2, SendLate DEF LoopEnds, EndInv, LoopInv
<1>4. CASE PumpTakes
  <2>1. inner \in Seq(Messages) /\ inner # <<>> /\ inner' = Tail(inner)
        /\ Head(inner) \in Messages
    BY <1>4, TakeMessage DEF PumpTakes, TypeCore
  <2>2. /\ AllLate(inner) => AllLate(inner') /\ Late(Head(inner))
        /\ HasEnd(inner') => HasEnd(inner)
        /\ Head(inner) = "end" => HasEnd(inner)
        /\ EndLast(inner) =>
             EndLast(inner') /\ (Head(inner) = "end" => AllLate(inner'))
    BY <2>1, TakeLate
  <2>3. /\ held' \in Terminal => Head(inner) = "end"
        /\ Late(Head(inner)) => Late(held')
        /\ Late(Head(inner)) => Head(inner) # "end"
    BY <1>4, <2>1 DEF PumpTakes, translate, Messages, Terminal, Late
  <2>9. (Heard' <=> Heard) /\ (EndingLast' <=> EndingLast)
    BY <1>4 DEF PumpTakes, Heard, EndingLast
  <2> QED
    BY <1>4, <2>9, <2>2, <2>3 DEF PumpTakes, EndInv, LoopInv
<1>5. CASE PumpSends
  <2>1. /\ Heard' <=> Heard \/ held \in Terminal
        /\ EndingLast /\ (Heard => Late(held)) => EndingLast'
    BY <1>5, AppendHeard DEF PumpSends, TypeCore
  <2>2. Late("none") /\ "none" \notin Terminal
    BY DEF Late, Terminal
  <2> QED
    BY <1>5, <2>1, <2>2 DEF PumpSends, EndInv, LoopInv, TypeCore
<1>6. CASE PumpGivesUp
  BY <1>6 DEF EndInv, LoopInv, EndingLast, Heard, Late, Terminal,
       PumpGivesUp
<1>7. CASE PumpFinishes
  BY <1>7 DEF EndInv, LoopInv, EndingLast, Heard, PumpFinishes
<1>8. CASE TaskReturns
  BY <1>8, DropEnds DEF TaskReturns
<1>9. CASE RefreshUpgrades
  <2>9. (Heard' <=> Heard) /\ (EndingLast' <=> EndingLast)
    BY <1>9 DEF RefreshUpgrades, Heard, EndingLast
  <2>1. CASE task = "live" /\ loop = "running"
    BY <1>9, <2>9, <2>1, SendLate DEF RefreshUpgrades, EndInv, LoopInv, Late
  <2>2. CASE ~(task = "live" /\ loop = "running")
    BY <1>9, <2>9, <2>2 DEF RefreshUpgrades, EndInv, LoopInv
  <2> QED
    BY <2>1, <2>2
<1>10. CASE TaskPanics
  BY <1>10, DropEnds DEF TaskPanics
<1>11. CASE TaskAborted
  BY <1>11, DropEnds DEF TaskAborted
<1>12. CASE Reads
  BY <1>12 DEF EndInv, LoopInv, EndingLast, Heard, Reads
<1>13. CASE TearsDown
  BY <1>13 DEF EndInv, LoopInv, EndingLast, Heard, TearsDown
<1>14. CASE Leaves
  BY <1>14 DEF EndInv, LoopInv, EndingLast, Heard, Leaves
<1>15. CASE Rest
  BY <1>15 DEF EndInv, LoopInv, EndingLast, Heard, Rest, vars
<1>16. CASE UNCHANGED vars
  BY <1>16 DEF EndInv, LoopInv, EndingLast, Heard, vars
<1> QED
  BY <1>1, <1>2, <1>3, <1>4, <1>5, <1>6, <1>7, <1>8, <1>9, <1>10, <1>11,
     <1>12, <1>13, <1>14, <1>15, <1>16
     DEF Next, TaskStep

----------------------------------------------------------------------------
(* Theorems.                                                               *)

\* The inductive invariant holds throughout.
LEMMA PipeInvariant == Spec => []PipeInv
<1>1. Init => PipeInv
  <2> SUFFICES ASSUME Init PROVE PipeInv
    OBVIOUS
  <2>1. TypeCore
    <3>1. sent \in Seq(Events) /\ inner \in Seq(Messages)
          /\ waiting \in Seq(Messages)
      BY DEF Init
    <3>2. Len(sent) = 0 /\ Len(inner) = 0 /\ read = 0
      BY DEF Init
    <3>3. settled \in BOOLEAN /\ aborted \in BOOLEAN
      BY DEF Init
    <3> QED
      BY <3>1, <3>2, <3>3, PipeAssumption DEF Init, TypeCore
  <2>2. WaitersInv
    BY DEF Init, WaitersInv
  <2>3. EndInv /\ LoopInv
    BY DEF Init, EndInv, LoopInv, EndLast, EndingLast, HasEnd, AllLate, Heard,
           Late, Terminal
  <2> QED
    BY <2>1, <2>2, <2>3 DEF PipeInv
<1>2. PipeInv /\ [Next]_vars => PipeInv'
  BY TypePreserved, WaitersPreserved, EndPreserved DEF PipeInv
<1> QED
  BY <1>1, <1>2, PTL DEF Spec

\* The loop and the checkpoint task are the only senders that can wait.
LEMMA TwoWaiters ==
  ASSUME TypeCore, WaitersInv
  PROVE  Len(waiting) <= 2
<1>1. Len(waiting) \in Nat
  BY DEF TypeCore
<1>2. ASSUME Len(waiting) > 2 PROVE FALSE
  <2>1. {1, 2, 3} \subseteq 1..Len(waiting)
    BY <1>1, <1>2
  <2>2. CASE waiting[1] = "refresh"
    BY <2>1, <2>2 DEF WaitersInv
  <2>3. CASE waiting[1] # "refresh"
    BY <2>1, <2>3 DEF WaitersInv
  <2> QED
    BY <2>2, <2>3
<1> QED
  BY <1>1, <1>2

\* For all capacities: the channels of a run keep to their capacities, and
\* never more than two senders wait for room.
THEOREM PipeTypeCorrect == Spec => []TypeOK
<1>1. PipeInv => TypeOK
  BY TwoWaiters DEF PipeInv, TypeCore, TypeOK, Messages, Events
<1> QED
  BY <1>1, PipeInvariant, PTL

\* For all capacities and any number of events: RunEpitaph, the pump and the
\* late checkpoint never give the consumer two terminal events.
THEOREM OneEndingHolds == Spec => []OneEnding
<1>1. PipeInv => OneEnding
  <2> SUFFICES ASSUME PipeInv, NEW i \in 1..Len(sent), NEW j \in 1..Len(sent),
                      sent[i] \in Terminal, sent[j] \in Terminal, i # j
               PROVE  FALSE
    BY DEF OneEnding
  <2>1. i < j \/ j < i
    BY DEF PipeInv, TypeCore
  <2>2. Late(sent[i]) \/ Late(sent[j])
    BY <2>1 DEF PipeInv, EndInv, EndingLast
  <2> QED
    BY <2>2 DEF Late, Terminal
<1> QED
  BY <1>1, PipeInvariant, PTL

\* For all capacities: nothing the loop emits follows the ending; only the
\* detached checkpoint's refresh can.
THEOREM OnlyARefreshIsLateHolds == Spec => []OnlyARefreshIsLate
<1>1. PipeInv => OnlyARefreshIsLate
  <2> SUFFICES ASSUME PipeInv, NEW i \in 1..Len(sent), NEW j \in 1..Len(sent),
                      sent[i] \in Terminal, i < j
               PROVE  sent[j] = "Refresh"
    BY DEF OnlyARefreshIsLate
  <2>1. Late(sent[j]) /\ sent[j] \in Events
    BY DEF PipeInv, EndInv, EndingLast, TypeCore
  <2> QED
    BY <2>1 DEF Late, Events, Terminal
<1> QED
  BY <1>1, PipeInvariant, PTL

\* The last step of a task, on every path out of it.
LEMMA DropSpeaks ==
  ASSUME PipeInv, task = "live", Drop, rx = "open", ~Heard'
  PROVE  Len(sent) - read = OuterCap
<1>1. /\ sent \in Seq(Events) /\ "Error" \in Events /\ "Error" \in Terminal
      /\ settled <=> Heard
      /\ Len(sent) \in Nat /\ read \in Nat /\ OuterCap \in Nat
      /\ Len(sent) - read <= OuterCap
  BY PipeAssumption DEF PipeInv, TypeCore, LoopInv, Events, Terminal
<1>2. CASE ~settled /\ HasRoom
  <2>1. sent' = Append(sent, "Error")
    BY <1>2 DEF Drop, Epitaph
  <2>2. Heard'
    BY <1>1, <2>1, AppendHeard
  <2> QED
    BY <2>2
<1>3. CASE settled
  <2>1. sent' = sent
    BY <1>3 DEF Drop, Epitaph
  <2>2. Heard'
    BY <1>1, <1>3, <2>1 DEF Heard
  <2> QED
    BY <2>2
<1>4. CASE ~HasRoom
  BY <1>1, <1>4 DEF HasRoom
<1> QED
  BY <1>1, <1>2, <1>3, <1>4 DEF PipeInv, TypeCore

\* For all capacities: a task that returns, panics or is aborted while its
\* consumer listens has announced an ending, or found no room to.
THEOREM NoSilentDeathHolds == Spec => NoSilentDeath
<1>1. PipeInv /\ [Next]_vars =>
        [task' = "dropped" /\ task = "live" /\ rx = "open"
           => Heard' \/ Len(sent) - read = OuterCap]_vars
  <2> SUFFICES ASSUME PipeInv, [Next]_vars, task' = "dropped", task = "live",
                      rx = "open", ~Heard'
               PROVE  Len(sent) - read = OuterCap
    OBVIOUS
  <2>1. Drop
    BY DEF Next, TaskStep, WaiterSends, LoopEmits, LoopEnds, PumpTakes,
           PumpSends, PumpGivesUp, PumpFinishes, TaskReturns, RefreshUpgrades,
           TaskPanics, TaskAborted, Reads, TearsDown, Leaves, Rest, vars
  <2> QED
    BY <2>1, DropSpeaks
<1> QED
  BY <1>1, PipeInvariant, PTL DEF Spec, NoSilentDeath

\* For all capacities: the task with its two channels, its pump and its
\* epitaph implements the promise of RunEvents to the consumer.
THEOREM PipeImplementsRunEvents == Spec => KeepsPromise
<1>1. Init => Promise!Init
  BY DEF Init, Promise!Init
<1>2. ASSUME PipeInv, [Next]_vars
      PROVE  [Promise!Next]_<<sent, task = "dropped">>
  <2> DEFINE same == sent' = sent /\ task' = task
  <2>0. same => [Promise!Next]_<<sent, task = "dropped">>
    OBVIOUS
  <2>21. (Promise!Settled <=> Heard) /\ Promise!Terminal = Terminal
    BY DEF Promise!Settled, Promise!Terminal, Heard, Terminal
  <2>1. CASE PumpSends
    <3>1. task = "live" /\ task' = "live" /\ held # "none"
          /\ sent' = Append(sent, held) /\ held \in Events
      BY <1>2, <2>1 DEF PumpSends, PipeInv, TypeCore
    <3>2. CASE held = "Progress"
      <4>1. ~Heard
        BY <1>2, <3>2 DEF PipeInv, EndInv, Late
      <4> QED
        BY <2>21, <3>1, <3>2, <4>1 DEF Promise!Next, Promise!Emit
    <3>3. CASE held = "Refresh"
      BY <3>1, <3>3 DEF Promise!Next, Promise!Refresh
    <3>4. CASE held \in Terminal
      <4>1. ~Heard
        BY <1>2, <3>4 DEF PipeInv, EndInv, Late, Terminal
      <4> QED
        BY <2>21, <3>1, <3>4, <4>1 DEF Promise!Next, Promise!Report
    <3> QED
      BY <3>1, <3>2, <3>3, <3>4 DEF Events
  <2>2. CASE Drop /\ task = "live"
    <3>1. task' = "dropped"
      BY <2>2 DEF Drop
    <3>2. sent' = sent \/ (~Heard /\ sent' = Append(sent, "Error"))
      BY <1>2, <2>2 DEF Drop, Epitaph, PipeInv, LoopInv
    <3> QED
      BY <2>2, <2>21, <3>1, <3>2 DEF Promise!Next, Promise!Close
  <2>3. CASE same
    BY <2>0, <2>3
  <2>4. PumpSends \/ (Drop /\ task = "live") \/ same
    BY <1>2 DEF Next, TaskStep, WaiterSends, LoopEmits, LoopEnds, PumpTakes,
           PumpGivesUp, PumpFinishes, TaskReturns, RefreshUpgrades,
           TaskPanics, TaskAborted, Reads, TearsDown, Leaves, Rest, vars
  <2> QED
    BY <2>1, <2>2, <2>3, <2>4
<1> QED
  BY <1>1, <1>2, PipeInvariant, PTL DEF Spec, KeepsPromise, Promise!Spec

----------------------------------------------------------------------------
(* The run comes to its end, and only a consumer that leaves can jam it.   *)

One(b) == IF b THEN 1 ELSE 0

\* The loop has still to say AgentEnd.
EndDue == loop = "running" /\ ~Blocked({"end"})

\* What the run has still to do, in steps: an event of the loop costs five
\* at most, one to emit, one to get room, one to be taken, one to be sent
\* and one to be read.
Total(a, b, c, w, i, d, e, f, g, h) ==
  5 * a + 5 * b + 5 * c + 4 * w + 3 * i + 2 * d + e + 2 * f + g + h

StepsLeft ==
  Total(MaxProgress - progress, One(EndDue), One(refresh = "working"),
        Len(waiting), Len(inner), One(held # "none"), One(pump = "pumping"),
        One(task = "live"), Len(sent) - read, One(rx = "open"))

\* The total is a natural number.
LEMMA TotalType ==
  ASSUME NEW a \in Nat, NEW b \in Nat, NEW c \in Nat, NEW w \in Nat,
         NEW i \in Nat, NEW d \in Nat, NEW e \in Nat, NEW f \in Nat,
         NEW g \in Nat, NEW h \in Nat
  PROVE  Total(a, b, c, w, i, d, e, f, g, h) \in Nat
BY DEF Total

\* Six ways to lower it: an event is emitted, a sender gets room, an event is
\* taken, is sent, the task is dropped, or something else comes to its end.
LEMMA TotalFalls ==
  ASSUME NEW a \in Nat, NEW b \in Nat, NEW c \in Nat, NEW w \in Nat,
         NEW i \in Nat, NEW d \in Nat, NEW e \in Nat, NEW f \in Nat,
         NEW g \in Nat, NEW h \in Nat,
         NEW a1 \in Nat, NEW b1 \in Nat, NEW c1 \in Nat, NEW w1 \in Nat,
         NEW i1 \in Nat, NEW d1 \in Nat, NEW e1 \in Nat, NEW f1 \in Nat,
         NEW g1 \in Nat, NEW h1 \in Nat,
         a1 <= a, b1 <= b, c1 <= c, e1 <= e, f1 <= f, h1 <= h,
         \/ /\ a1 + b1 + c1 < a + b + c /\ d1 <= d /\ g1 <= g
            /\ 4 * w1 + 3 * i1 <= 4 * w + 3 * i + 4
         \/ w1 = w - 1 /\ i1 = i + 1 /\ d1 <= d /\ g1 <= g
         \/ w1 <= w /\ i1 = i - 1 /\ d1 <= d + 1 /\ g1 <= g
         \/ w1 <= w /\ i1 <= i /\ d1 = d - 1 /\ g1 <= g + 1
         \/ w1 <= w /\ i1 <= i /\ d1 <= d /\ f1 < f /\ g1 <= g + 1
         \/ /\ w1 <= w /\ i1 <= i /\ d1 <= d /\ g1 <= g
            /\ e1 + g1 + h1 < e + g + h
  PROVE  Total(a1, b1, c1, w1, i1, d1, e1, f1, g1, h1)
           < Total(a, b, c, w, i, d, e, f, g, h)
BY DEF Total

\* A condition counts for one or for nothing.
LEMMA OneValues ==
  /\ One(TRUE) = 1 /\ One(FALSE) = 0
  /\ \A b \in BOOLEAN : One(b) \in {0, 1}
BY DEF One

\* The steps left are a natural number.
LEMMA StepsLeftType ==
  ASSUME TypeCore
  PROVE  StepsLeft \in Nat
<1>1. /\ MaxProgress - progress \in Nat /\ Len(waiting) \in Nat
      /\ Len(inner) \in Nat /\ Len(sent) - read \in Nat
  BY PipeAssumption DEF TypeCore
<1> DEFINE a == MaxProgress - progress
           b == One(EndDue)
           c == One(refresh = "working")
           d == One(held # "none")
           e == One(pump = "pumping")
           f == One(task = "live")
           g == Len(sent) - read
           h == One(rx = "open")
           l == Len(waiting)
           n == Len(inner)
<1>2. /\ b \in Nat /\ c \in Nat /\ d \in Nat /\ e \in Nat /\ f \in Nat /\ h \in Nat
  BY DEF One
<1>3. StepsLeft = Total(a, b, c, l, n, d, e, f, g, h)
  BY DEF StepsLeft
<1>4. a \in Nat /\ g \in Nat /\ l \in Nat /\ n \in Nat
  BY <1>1
<1> HIDE DEF a, b, c, d, e, f, g, h, l, n
<1>5. Total(a, b, c, l, n, d, e, f, g, h) \in Nat
  BY <1>2, <1>4, TotalType
<1> QED
  BY <1>3, <1>5

\* A message on its way costs three once it is in the channel and four while
\* its sender waits.
LEMMA SendCosts ==
  ASSUME TypeCore, NEW m \in Messages, Send(m)
  PROVE  /\ Len(waiting) \in Nat /\ Len(waiting') \in Nat
         /\ Len(inner) \in Nat /\ Len(inner') \in Nat
         /\ 4 * Len(waiting') + 3 * Len(inner')
              <= 4 * Len(waiting) + 3 * Len(inner) + 4
         /\ m # "end" => (Blocked({"end"})' <=> Blocked({"end"}))
         /\ waiting' # waiting => waiting' = Append(waiting, m)
<1>1. CASE Len(inner) < InnerCap /\ waiting = <<>>
  BY <1>1, AppendMessage DEF TypeCore, Send, Blocked
<1>2. CASE ~(Len(inner) < InnerCap /\ waiting = <<>>)
  <2>1. waiting' = Append(waiting, m) /\ inner' = inner
    BY <1>2 DEF Send
  <2>2. /\ Len(waiting') = Len(waiting) + 1 /\ Len(waiting) \in Nat
        /\ \A i \in 1..Len(waiting) : waiting'[i] = waiting[i]
        /\ waiting'[Len(waiting) + 1] = m
    BY <2>1, AppendMessage DEF TypeCore
  <2>3. m # "end" => (Blocked({"end"})' <=> Blocked({"end"}))
    BY <2>2 DEF Blocked
  <2> QED
    BY <2>1, <2>2, <2>3 DEF TypeCore
<1> QED
  BY <1>1, <1>2

\* Every step of the loop, the pump, the checkpoint task and the consumer
\* brings the run nearer to its end.
LEMMA StepsFall ==
  ASSUME TypeCore, TypeCore', Next, vars' # vars
  PROVE  StepsLeft' < StepsLeft
<1> DEFINE a == MaxProgress - progress
           b == One(EndDue)
           c == One(refresh = "working")
           d == One(held # "none")
           e == One(pump = "pumping")
           f == One(task = "live")
           g == Len(sent) - read
           h == One(rx = "open")
           w == Len(waiting)
           i == Len(inner)
<1>21. a \in Nat /\ g \in Nat /\ w \in Nat /\ i \in Nat
  BY PipeAssumption DEF TypeCore
<1>22. /\ a \in Nat /\ g \in Nat /\ w \in Nat /\ i \in Nat
       /\ a' \in Nat /\ g' \in Nat /\ w' \in Nat /\ i' \in Nat
  <2>1. progress' \in 0..MaxProgress /\ read' \in 0..Len(sent')
    BY DEF TypeCore
  <2>2. sent' \in Seq(Events) /\ inner' \in Seq(Messages)
        /\ waiting' \in Seq(Messages)
    BY DEF TypeCore
  <2>3. Len(sent') \in Nat /\ w' \in Nat /\ i' \in Nat
    BY <2>2
  <2>21. \A m \in Nat : \A n \in 0..m : m - n \in Nat
    OBVIOUS
  <2>4. MaxProgress - progress' \in Nat /\ Len(sent') - read' \in Nat
    BY <2>1, <2>3, <2>21, PipeAssumption
  <2> QED
    BY <1>21, <2>3, <2>4
<1>23. /\ b \in {0, 1} /\ c \in {0, 1} /\ d \in {0, 1} /\ e \in {0, 1}
       /\ f \in {0, 1} /\ h \in {0, 1}
  BY DEF One
<1>24. /\ b' \in {0, 1} /\ c' \in {0, 1} /\ d' \in {0, 1}
       /\ e' \in {0, 1} /\ f' \in {0, 1} /\ h' \in {0, 1}
  BY DEF One
<1>25. /\ StepsLeft = Total(a, b, c, w, i, d, e, f, g, h)
       /\ StepsLeft' = Total(a', b', c', w', i', d', e', f', g', h')
  BY DEF StepsLeft
<1>26. ASSUME a' <= a, b' <= b, c' <= c, e' <= e, f' <= f, h' <= h,
              \/ /\ a' + b' + c' < a + b + c /\ d' <= d /\ g' <= g
                 /\ 4 * w' + 3 * i' <= 4 * w + 3 * i + 4
              \/ w' = w - 1 /\ i' = i + 1 /\ d' <= d /\ g' <= g
              \/ w' <= w /\ i' = i - 1 /\ d' <= d + 1 /\ g' <= g
              \/ w' <= w /\ i' <= i /\ d' = d - 1 /\ g' <= g + 1
              \/ w' <= w /\ i' <= i /\ d' <= d /\ f' < f /\ g' <= g + 1
              \/ /\ w' <= w /\ i' <= i /\ d' <= d /\ g' <= g
                 /\ e' + g' + h' < e + g + h
       PROVE  StepsLeft' < StepsLeft
  <2> HIDE DEF a, b, c, d, e, f, g, h, w, i
  <2>1. /\ b \in Nat /\ c \in Nat /\ d \in Nat /\ e \in Nat
        /\ f \in Nat /\ h \in Nat /\ b' \in Nat /\ c' \in Nat
        /\ d' \in Nat /\ e' \in Nat /\ f' \in Nat /\ h' \in Nat
    BY <1>23, <1>24
  <2> QED
    BY <1>22, <1>25, <1>26, <2>1, TotalFalls
<1>27. ASSUME a' <= a, b' <= b, c' <= c, a' + b' + c' < a + b + c,
              4 * w' + 3 * i' <= 4 * w + 3 * i + 4,
              d' = d, e' = e, f' = f, g' = g, h' = h
       PROVE  StepsLeft' < StepsLeft
  <2> HIDE DEF a, b, c, d, e, f, g, h, w, i
  <2>1. d' <= d /\ e' <= e /\ f' <= f /\ g' <= g /\ h' <= h
    BY <1>27, <1>22, <1>23
  <2> QED
    BY <1>26, <1>27, <2>1
<1> USE DEF producer, channel, pumping, consumer
<1>1. CASE WaiterSends
  <2>1. /\ Len(waiting') = Len(waiting) - 1 /\ Len(inner') = Len(inner) + 1
        /\ Len(waiting) \in Nat /\ Len(inner) \in Nat
        /\ \A k \in 1..Len(waiting) - 1 : waiting'[k] = waiting[k + 1]
        /\ Head(waiting) = waiting[1] /\ Len(waiting) > 0
    BY <1>1, TakeMessage, AppendMessage DEF WaiterSends, TypeCore
  <2>2. w' = w - 1 /\ i' = i + 1
    BY <2>1
  <2>3. EndDue' => EndDue
    <3> SUFFICES ASSUME EndDue' PROVE EndDue
      OBVIOUS
    <3>1. loop' = "running" /\ loop = "running" /\ Head(waiting) # "end"
      BY <1>1 DEF EndDue, WaiterSends
    <3>2. \A k \in 2..Len(waiting) :
            k - 1 \in 1..Len(waiting') /\ waiting'[k - 1] = waiting[k]
      BY <2>1
    <3>3. ~Blocked({"end"})
      BY <2>1, <3>1, <3>2 DEF EndDue, Blocked
    <3> QED
      BY <3>1, <3>3 DEF EndDue
  <2>4. b' <= b
    BY <2>3 DEF One
  <2>5. c' <= c
    BY <1>1 DEF WaiterSends, One, TypeCore
  <2>6. a' = a /\ d' = d /\ e' = e /\ f' = f /\ g' = g /\ h' = h
    BY <1>1 DEF WaiterSends
  <2> HIDE DEF a, b, c, d, e, f, g, h, w, i
  <2> QED
    BY <1>22, <1>23, <1>24, <1>26, <2>2, <2>4, <2>5, <2>6
<1>2. CASE LoopEmits
  <2>1. Send("progress") /\ "progress" \in Messages /\ a' = a - 1
    BY <1>2, PipeAssumption DEF LoopEmits, Messages, TypeCore
  <2>2. 4 * w' + 3 * i' <= 4 * w + 3 * i + 4 /\ b' = b
    BY <1>2, <2>1, SendCosts DEF LoopEmits, EndDue, One
  <2>3. c' = c /\ d' = d /\ e' = e /\ f' = f /\ g' = g /\ h' = h
    BY <1>2 DEF LoopEmits
  <2> HIDE DEF a, b, c, d, e, f, g, h, w, i
  <2>4. a' <= a /\ b' <= b /\ c' <= c /\ a' + b' + c' < a + b + c
    BY <1>22, <1>23, <2>1, <2>2, <2>3
  <2> QED
    BY <1>27, <2>2, <2>3, <2>4
<1>3. CASE LoopEnds
  <2>1. Send("end") /\ "end" \in Messages
    BY <1>3 DEF LoopEnds, Messages
  <2>2. 4 * w' + 3 * i' <= 4 * w + 3 * i + 4
    BY <2>1, SendCosts
  <2>3. EndDue
    BY <1>3 DEF LoopEnds, EndDue, Blocked
  <2>4. ~EndDue'
    <3>1. CASE waiting' = waiting
      BY <1>3, <3>1 DEF LoopEnds, EndDue
    <3>2. CASE waiting' # waiting
      <4>1. waiting' = Append(waiting, "end")
        BY <2>1, <3>2, SendCosts
      <4>2. Len(waiting') = Len(waiting) + 1 /\ Len(waiting) \in Nat
            /\ waiting'[Len(waiting) + 1] = "end"
        BY <2>1, <4>1, AppendMessage DEF TypeCore
      <4> QED
        BY <4>2 DEF EndDue, Blocked
    <3> QED
      BY <3>1, <3>2
  <2>5. b = 1 /\ b' = 0
    BY <2>3, <2>4 DEF One
  <2>6. a' = a /\ c' = c /\ d' = d /\ e' = e /\ f' = f /\ g' = g /\ h' = h
    BY <1>3 DEF LoopEnds
  <2> HIDE DEF a, b, c, d, e, f, g, h, w, i
  <2>7. a' <= a /\ b' <= b /\ c' <= c /\ a' + b' + c' < a + b + c
    BY <1>22, <1>23, <2>5, <2>6
  <2> QED
    BY <1>27, <2>2, <2>6, <2>7
<1>4. CASE RefreshUpgrades
  <2>1. c = 1 /\ c' = 0
    BY <1>4 DEF RefreshUpgrades, One
  <2>2. 4 * w' + 3 * i' <= 4 * w + 3 * i + 4 /\ b' = b
    <3>1. CASE task = "live" /\ loop = "running"
      <4>1. Send("refresh") /\ "refresh" \in Messages
        BY <1>4, <3>1 DEF RefreshUpgrades, Messages
      <4> QED
        BY <1>4, <4>1, SendCosts DEF RefreshUpgrades, EndDue, One
    <3>2. CASE ~(task = "live" /\ loop = "running")
      BY <1>4, <1>22, <3>2 DEF RefreshUpgrades, EndDue, One, Blocked
    <3> QED
      BY <3>1, <3>2
  <2>3. a' = a /\ d' = d /\ e' = e /\ f' = f /\ g' = g /\ h' = h
    BY <1>4 DEF RefreshUpgrades
  <2> HIDE DEF a, b, c, d, e, f, g, h, w, i
  <2>4. a' <= a /\ b' <= b /\ c' <= c /\ a' + b' + c' < a + b + c
    BY <1>22, <1>23, <2>1, <2>2, <2>3
  <2> QED
    BY <1>27, <2>2, <2>3, <2>4
<1>5. CASE PumpTakes
  <2>1. Len(inner') = Len(inner) - 1 /\ Len(inner) \in Nat
        /\ waiting' = waiting
    BY <1>5, TakeMessage DEF PumpTakes, TypeCore
  <2>2. w' = w /\ i' = i - 1
    BY <2>1
  <2>3. /\ a' = a /\ b' = b /\ c' = c /\ e' = e /\ f' = f /\ g' = g
        /\ h' = h
    BY <1>5 DEF PumpTakes, EndDue, Blocked
  <2> HIDE DEF a, b, c, d, e, f, g, h, w, i
  <2> QED
    BY <1>22, <1>23, <1>24, <1>26, <2>2, <2>3
<1>6. CASE PumpSends
  <2>1. Len(sent') = Len(sent) + 1
    BY <1>6, AppendEvent DEF PumpSends, TypeCore
  <2>2. g' = g + 1
    BY <1>6, <2>1 DEF PumpSends, TypeCore
  <2>3. d = 1 /\ d' = 0
    BY <1>6 DEF PumpSends, One
  <2>4. /\ a' = a /\ b' = b /\ c' = c /\ w' = w /\ i' = i /\ e' = e /\ f' = f
        /\ h' = h
    BY <1>6 DEF PumpSends, EndDue, Blocked
  <2> HIDE DEF a, b, c, d, e, f, g, h, w, i
  <2> QED
    BY <1>22, <1>23, <1>24, <1>26, <2>2, <2>3, <2>4
<1>7. CASE PumpGivesUp \/ PumpFinishes
  <2>1. e = 1 /\ e' = 0 /\ d' <= d
    BY <1>7 DEF PumpGivesUp, PumpFinishes, One
  <2>2. /\ a' = a /\ b' = b /\ c' = c /\ w' = w /\ i' = i /\ f' = f /\ g' = g
        /\ h' = h
    BY <1>7 DEF PumpGivesUp, PumpFinishes, EndDue, Blocked
  <2> HIDE DEF a, b, c, d, e, f, g, h, w, i
  <2> QED
    BY <1>22, <1>23, <1>24, <1>26, <2>1, <2>2
<1>8. CASE Drop /\ task = "live"
  <2>1. f = 1 /\ f' = 0
    BY <1>8 DEF Drop, One
  <2>2. b' = 0 /\ d' = 0 /\ e' = 0
    BY <1>8 DEF Drop, EndDue, One
  <2>3. c' <= c
    BY <1>8 DEF Drop, One
  <2>4. w' = 0 /\ i' = 0
    BY <1>8 DEF Drop
  <2>5. g' <= g + 1
    BY <1>8, AppendEvent DEF Drop, Epitaph, TypeCore, Events, Terminal
  <2>6. a' = a /\ h' = h
    BY <1>8 DEF Drop
  <2> HIDE DEF a, b, c, d, e, f, g, h, w, i
  <2>7. /\ a' <= a /\ b' <= b /\ e' <= e /\ f' <= f /\ h' <= h
        /\ w' <= w /\ i' <= i /\ d' <= d /\ f' < f
    BY <1>22, <1>23, <2>1, <2>2, <2>4, <2>6
  <2> QED
    BY <1>26, <2>3, <2>5, <2>7
<1>9. CASE Reads
  <2>1. g' = g - 1
    BY <1>9 DEF Reads, TypeCore
  <2>2. /\ a' = a /\ b' = b /\ c' = c /\ w' = w /\ i' = i /\ d' = d /\ e' = e
        /\ f' = f /\ h' = h
    BY <1>9 DEF Reads, EndDue, Blocked
  <2> HIDE DEF a, b, c, d, e, f, g, h, w, i
  <2> QED
    BY <1>22, <1>23, <1>24, <1>26, <2>1, <2>2
<1>10. CASE TearsDown \/ Leaves
  <2>1. h = 1 /\ h' = 0
    BY <1>10 DEF TearsDown, Leaves, One
  <2>2. /\ a' = a /\ b' = b /\ c' = c /\ w' = w /\ i' = i /\ d' = d /\ e' = e
        /\ f' = f /\ g' = g
    BY <1>10 DEF TearsDown, Leaves, EndDue, Blocked
  <2> HIDE DEF a, b, c, d, e, f, g, h, w, i
  <2> QED
    BY <1>22, <1>23, <1>24, <1>26, <2>1, <2>2
<1> HIDE DEF a, b, c, d, e, f, g, h, w, i
<1> QED
  BY <1>1, <1>2, <1>3, <1>4, <1>5, <1>6, <1>7, <1>8, <1>9, <1>10
     DEF Next, TaskStep, TaskReturns, TaskPanics, TaskAborted, Rest

\* For all capacities: the task, its channels, its late checkpoint and its
\* consumer take at most 5 * MaxProgress + 14 steps between them, so a run
\* whose loop emits finitely many events cannot go on for ever, whoever
\* waits for whom.
THEOREM PipeRunsOut ==
  /\ Init => StepsLeft = 5 * MaxProgress + 14
  /\ Spec => [](StepsLeft \in Nat)
  /\ Spec => [][StepsLeft' < StepsLeft]_vars
<1>1. Init => StepsLeft = 5 * MaxProgress + 14
  <2> SUFFICES ASSUME Init PROVE StepsLeft = 5 * MaxProgress + 14
    OBVIOUS
  <2>1. /\ Len(waiting) = 0 /\ Len(inner) = 0 /\ Len(sent) = 0 /\ EndDue
    BY DEF Init, EndDue, Blocked
  <2>2. /\ One(EndDue) = 1 /\ One(refresh = "working") = 1
        /\ One(held # "none") = 0 /\ One(pump = "pumping") = 1
        /\ One(task = "live") = 1 /\ One(rx = "open") = 1
    BY <2>1 DEF Init, One
  <2>3. MaxProgress - progress = MaxProgress /\ Len(sent) - read = 0
    BY <2>1, PipeAssumption DEF Init
  <2>4. StepsLeft = Total(MaxProgress, 1, 1, 0, 0, 0, 1, 1, 0, 1)
    BY <2>1, <2>2, <2>3 DEF StepsLeft
  <2> QED
    BY <2>4, PipeAssumption DEF Total
<1>2. PipeInv => TypeCore
  BY DEF PipeInv
<1>3. TypeCore => StepsLeft \in Nat
  BY StepsLeftType
<1>4. TypeCore /\ TypeCore' /\ [Next]_vars => [StepsLeft' < StepsLeft]_vars
  BY StepsFall
<1>5. Spec => [](StepsLeft \in Nat)
  BY <1>2, <1>3, PipeInvariant, PTL
<1>6. Spec => [][StepsLeft' < StepsLeft]_vars
  BY <1>2, <1>4, PipeInvariant, PTL DEF Spec
<1> QED
  BY <1>1, <1>5, <1>6

\* The guards of the task's steps: a sender gets room, the loop goes on, the
\* pump takes, sends or gives up, or the run is through.
TaskReady ==
  \/ waiting # <<>> /\ Len(inner) < InnerCap
  \/ loop = "running" /\ ~Blocked({"progress", "end"})
  \/ pump = "pumping" /\ held = "none" /\ inner # <<>>
  \/ pump = "pumping" /\ held # "none" /\ (rx = "dropped" \/ HasRoom)
  \/ /\ pump = "pumping" /\ held = "none" /\ loop = "returned"
     /\ inner = <<>> /\ waiting = <<>>
  \/ loop = "returned" /\ pump = "returned"

\* The task lives, and neither it nor an abort nor the consumer can move it.
Jammed ==
  /\ task = "live" /\ ~TaskReady /\ ~aborted
  /\ ~(rx = "open" /\ read < Len(sent))

\* The consumer has let go of the receiver and not of the task: the pump is
\* gone, and the loop waits for room in a channel that nobody reads.
LeftAlone ==
  /\ ConsumerLeaves /\ rx = "dropped"
  /\ pump = "returned" /\ loop = "running"
  /\ Len(inner) = InnerCap /\ Blocked({"progress", "end"})

\* The pump returns for want of a receiver or for want of work, and the only
\* consumer to drop the receiver without an abort is one that leaves.
PumpInv ==
  /\ task = "live" /\ pump = "returned" => rx = "dropped" \/ loop = "returned"
  /\ rx = "dropped" /\ ~aborted => ConsumerLeaves

\* Every step keeps it.
LEMMA PumpPreserved ==
  ASSUME PumpInv, [Next]_vars
  PROVE  PumpInv'
<1> USE DEF PumpInv, producer, channel, pumping, consumer
<1>1. CASE WaiterSends \/ LoopEmits \/ LoopEnds \/ RefreshUpgrades
  BY <1>1 DEF WaiterSends, LoopEmits, LoopEnds, RefreshUpgrades
<1>2. CASE PumpTakes \/ PumpSends \/ PumpGivesUp \/ PumpFinishes
  BY <1>2 DEF PumpTakes, PumpSends, PumpGivesUp, PumpFinishes
<1>3. CASE TaskReturns \/ TaskPanics \/ TaskAborted
  BY <1>3 DEF TaskReturns, TaskPanics, TaskAborted, Drop
<1>4. CASE Reads \/ TearsDown \/ Leaves
  BY <1>4 DEF Reads, TearsDown, Leaves
<1>5. CASE Rest \/ UNCHANGED vars
  BY <1>5 DEF Rest, vars
<1> QED
  BY <1>1, <1>2, <1>3, <1>4, <1>5 DEF Next, TaskStep

\* For all capacities the loop, the pump and the two bounded channels never
\* wait for each other: a live task that cannot move has lost its consumer,
\* which dropped the receiver and aborted nothing.
THEOREM OnlyLeavingJams == Spec => [](Jammed => LeftAlone)
<1>1. Init => PumpInv
  BY DEF Init, PumpInv
<1>2. PumpInv /\ [Next]_vars => PumpInv'
  BY PumpPreserved
<1>3. PipeInv /\ PumpInv => (Jammed => LeftAlone)
  <2> SUFFICES ASSUME PipeInv, PumpInv, Jammed
               PROVE  LeftAlone
    OBVIOUS
  <2>1. /\ pump \in {"pumping", "returned"} /\ loop \in {"running", "returned"}
        /\ rx \in {"open", "dropped"} /\ Len(inner) \in Nat
        /\ Len(inner) <= InnerCap /\ Len(sent) \in Nat /\ read \in Nat
        /\ inner \in Seq(Messages) /\ waiting \in Seq(Messages)
        /\ InnerCap \in Nat \ {0} /\ OuterCap \in Nat \ {0}
    BY PipeAssumption DEF PipeInv, TypeCore
  <2>2. waiting = <<>> => ~Blocked({"progress", "end"})
    BY DEF Blocked
  <2>3. held = "none" => pump = "returned"
    <3>1. inner = <<>> => Len(inner) < InnerCap
      BY <2>1
    <3> QED
      BY <2>1, <2>2, <3>1 DEF Jammed, TaskReady
  <2>4. held # "none" /\ pump = "pumping" => rx = "open" /\ ~HasRoom
    BY <2>1 DEF Jammed, TaskReady
  <2>5. ~HasRoom => read < Len(sent)
    BY <2>1 DEF HasRoom
  <2>6. pump = "returned"
    BY <2>1, <2>3, <2>4, <2>5 DEF Jammed
  <2>7. loop = "running" /\ Blocked({"progress", "end"})
    BY <2>1, <2>6 DEF Jammed, TaskReady
  <2>8. Len(inner) = InnerCap
    BY <2>1, <2>2, <2>7 DEF Jammed, TaskReady
  <2>9. rx = "dropped" /\ ConsumerLeaves
    BY <2>1, <2>6, <2>7 DEF Jammed, PumpInv
  <2> QED
    BY <2>6, <2>7, <2>8, <2>9 DEF LeftAlone
<1> QED
  BY <1>1, <1>2, <1>3, PipeInvariant, PTL DEF Spec

=============================================================================
