------------------------- MODULE MemoryQueueProofs -------------------------
(***************************************************************************)
(* Proofs about the in-process queue, for any number of messages and of    *)
(* worker loops: no wake-up is missed, and no message is lost or doubled.  *)
(***************************************************************************)
EXTENDS MemoryQueue, FiniteSetTheorems, SequenceTheorems, TLAPS

-----------------------------------------------------------------------------
(* Types                                                                   *)

LEMMA TakenBound ==
    ASSUME ready \in Seq(Message)
    PROVE  /\ Taken \in 0..Len(ready)
           /\ Taken = 0 <=> Len(ready) = 0
           /\ Len(ready) = 0 <=> ready = <<>>
BY MaxMessagesAssumption, EmptySeq DEF Taken

(* What a receive returns and what it leaves.                              *)
LEMMA TakenParts ==
    ASSUME ready \in Seq(Message)
    PROVE  /\ SubSeq(ready, 1, Taken) \in Seq(Message)
           /\ Len(SubSeq(ready, 1, Taken)) = Taken
           /\ \A i \in 1..Taken : SubSeq(ready, 1, Taken)[i] = ready[i]
           /\ SubSeq(ready, Taken + 1, Len(ready)) \in Seq(Message)
           /\ Len(SubSeq(ready, Taken + 1, Len(ready))) = Len(ready) - Taken
           /\ \A i \in 1..(Len(ready) - Taken) :
                SubSeq(ready, Taken + 1, Len(ready))[i] = ready[Taken + i]
<1>1. Taken \in 0..Len(ready) /\ Len(ready) \in Nat
    BY TakenBound
<1> DEFINE n == Taken
<1> HIDE DEF n
<1>2. n \in 0..Len(ready)
    BY <1>1 DEF n
<1>3. \A i \in 1..Len(ready) : ready[i] \in Message
    BY ElementOfSeq
<1>4. \A i \in 1..n : ready[i] \in Message
    BY <1>1, <1>2, <1>3
<1>5. \A i \in (n + 1)..Len(ready) : ready[i] \in Message
    BY <1>1, <1>2, <1>3
<1>6. /\ SubSeq(ready, 1, n) \in Seq(Message)
      /\ Len(SubSeq(ready, 1, n)) = IF 1 <= n THEN n - 1 + 1 ELSE 0
      /\ \A i \in 1..(n - 1 + 1) : SubSeq(ready, 1, n)[i] = ready[1 + i - 1]
    BY <1>2, <1>4, SubSeqProperties
<1>7. /\ SubSeq(ready, n + 1, Len(ready)) \in Seq(Message)
      /\ Len(SubSeq(ready, n + 1, Len(ready)))
            = IF n + 1 <= Len(ready) THEN Len(ready) - (n + 1) + 1 ELSE 0
      /\ \A i \in 1..(Len(ready) - (n + 1) + 1) :
            SubSeq(ready, n + 1, Len(ready))[i] = ready[n + 1 + i - 1]
    BY <1>1, <1>2, <1>5, SubSeqProperties
<1>8. /\ Len(SubSeq(ready, 1, n)) = n
      /\ \A i \in 1..n : SubSeq(ready, 1, n)[i] = ready[i]
    BY <1>2, <1>6
<1>9. /\ Len(SubSeq(ready, n + 1, Len(ready))) = Len(ready) - n
      /\ \A i \in 1..(Len(ready) - n) :
            SubSeq(ready, n + 1, Len(ready))[i] = ready[n + i]
    BY <1>1, <1>2, <1>7
<1> QED BY <1>6, <1>7, <1>8, <1>9 DEF n

(* notify moves at most one thread, from waiting to woken.                 *)
LEMMA NotifiedType ==
    ASSUME NEW p \in [Consumers -> Places], NEW q \in Notified(p)
    PROVE q \in [Consumers -> Places]
BY DEF Notified, Waiting, Places

(* A worker loop at work has a delivery left.                              *)
Working(c) == pc[c] = "working" <=> Len(deliveries[c]) # 0

LEMMA AfterHandlingType ==
    ASSUME TypeOK, NEW c \in Consumers
    PROVE AfterHandling(c) \in [Consumers -> Places]
BY DEF TypeOK, AfterHandling, Places

LEMMA TypeStep ==
    TypeOK /\ (\A c \in Consumers : Working(c)) /\ [Next]_vars
        => TypeOK' /\ (\A c \in Consumers : Working(c))'
<1> SUFFICES ASSUME TypeOK, \A c \in Consumers : Working(c), [Next]_vars
             PROVE TypeOK' /\ (\A c \in Consumers : Working(c))'
    OBVIOUS
<1> USE DEF TypeOK
<1>1. ASSUME NEW m \in Message, Publish(m)
      PROVE TypeOK' /\ (\A c \in Consumers : Working(c))'
    <2>1. pc' \in [Consumers -> Places]
        BY <1>1, NotifiedType DEF Publish
    <2>2. ready' \in Seq(Message)
        BY <1>1 DEF Publish
    <2>3. TypeOK'
        BY <1>1, <2>1, <2>2 DEF Publish
    <2>4. \A c \in Consumers : pc'[c] = "working" <=> pc[c] = "working"
        BY <1>1 DEF Publish, Notified, Waiting
    <2> QED BY <2>3, <2>4, <1>1 DEF Publish, Working
<1>2. ASSUME NEW c \in Consumers, Wait(c) \/ TimeOut(c) \/ Stop(c)
      PROVE TypeOK' /\ (\A d \in Consumers : Working(d))'
    BY <1>2 DEF Wait, TimeOut, Stop, Places, Working
<1>3. ASSUME NEW c \in Consumers, Take(c)
      PROVE TypeOK' /\ (\A d \in Consumers : Working(d))'
    <2>1. Taken \in 0..Len(ready) /\ (Taken = 0 <=> ready = <<>>)
        BY TakenBound
    <2>2. SubSeq(ready, Taken + 1, Len(ready)) \in Seq(Message)
        BY TakenParts
    <2>3. /\ SubSeq(ready, 1, Taken) \in Seq(Message)
          /\ Len(SubSeq(ready, 1, Taken)) = Taken
        BY TakenParts
    <2>4. {ready[i] : i \in 1..Taken} \subseteq Message
        BY <2>1, ElementOfSeq
    <2>5. TypeOK'
        BY <1>3, <2>2, <2>3, <2>4 DEF Take, Places
    <2>6. Len(deliveries'[c]) = 0 <=> ready = <<>>
        BY <1>3, <2>1, <2>3 DEF Take
    <2>7. pc'[c] = "working" <=> ready # <<>>
        BY <1>3 DEF Take
    <2>8. \A d \in Consumers \ {c} : pc'[d] = pc[d] /\ deliveries'[d] = deliveries[d]
        BY <1>3 DEF Take
    <2> QED BY <2>5, <2>6, <2>7, <2>8 DEF Working
<1>4. ASSUME NEW c \in Consumers, Ack(c) \/ Nack(c)
      PROVE TypeOK' /\ (\A d \in Consumers : Working(d))'
    <2>1. pc[c] = "working" /\ deliveries' = [deliveries EXCEPT ![c] = Tail(@)]
        BY <1>4 DEF Ack, Nack, Handled
    <2>2. deliveries[c] \in Seq(Message) /\ deliveries[c] # <<>>
        BY <2>1, EmptySeq DEF Working
    <2>3. /\ Head(deliveries[c]) \in Message /\ Tail(deliveries[c]) \in Seq(Message)
          /\ Len(Tail(deliveries[c])) = Len(deliveries[c]) - 1
        BY <2>2, HeadTailProperties
    <2>11. Len(deliveries[c]) \in Nat
        BY <2>2, LenProperties
    <2>4. pc' = AfterHandling(c) \/ pc' \in Notified(AfterHandling(c))
        BY <1>4 DEF Ack, Nack
    <2>5. pc' \in [Consumers -> Places]
        BY <2>4, AfterHandlingType, NotifiedType
    <2>6. inflight' \in SUBSET Message /\ acked' \in SUBSET Message /\ ready' \in Seq(Message)
        <3>1. Append(ready, Head(deliveries[c])) \in Seq(Message)
            BY <2>3
        <3> QED BY <1>4, <2>3, <3>1 DEF Ack, Nack, Popped, Requeued
    <2>7. deliveries' \in [Consumers -> Seq(Message)]
        BY <2>1, <2>3
    <2>8. published' = published
        BY <1>4 DEF Ack, Nack
    <2>9. \A d \in Consumers : pc'[d] = "working" <=> AfterHandling(c)[d] = "working"
        BY <2>4, AfterHandlingType DEF Notified, Waiting
    <2>10. \A d \in Consumers : Working(d)'
        <3>1. ASSUME NEW d \in Consumers, d # c PROVE Working(d)'
            <4>1. AfterHandling(c)[d] = pc[d] /\ deliveries'[d] = deliveries[d]
                BY <2>1, <3>1 DEF AfterHandling
            <4> QED BY <2>9, <4>1 DEF Working
        <3>2. Working(c)'
            <4>1. deliveries'[c] = Tail(deliveries[c])
                BY <2>1
            <4>2. AfterHandling(c)[c] = IF Len(deliveries[c]) = 1 THEN "start" ELSE "working"
                BY DEF AfterHandling
            <4> QED BY <2>3, <2>9, <2>11, <4>1, <4>2 DEF Working
        <3> QED BY <3>1, <3>2
    <2> QED BY <2>5, <2>6, <2>7, <2>8, <2>10
<1>5. CASE UNCHANGED vars
    BY <1>5 DEF vars, Working
<1> QED
    BY <1>1, <1>2, <1>3, <1>4, <1>5 DEF Next

(* Every variable keeps its type, and a worker loop that works has what it *)
(* works on.                                                               *)
THEOREM TypeCorrect == Spec => []TypeOK
<1>1. Init => TypeOK /\ \A c \in Consumers : Working(c)
    BY EmptySeq DEF Init, TypeOK, Working, Places
<1> QED BY <1>1, TypeStep, PTL DEF Spec

-----------------------------------------------------------------------------
(* Wake-ups                                                                *)

Woken(p) == {c \in Consumers : p[c] = "woken"}

LEMMA WokenFinite ==
    ASSUME NEW p
    PROVE IsFiniteSet(Woken(p)) /\ Cardinality(Woken(p)) \in Nat
<1>1. Woken(p) \in SUBSET Consumers
    BY DEF Woken
<1>2. IsFiniteSet(Woken(p))
    BY <1>1, ConsumersAssumption, FS_Subset
<1> QED BY <1>2, FS_CardinalityType

(* A thread that is woken is one more that is awake.                       *)
LEMMA WakingCounts ==
    ASSUME NEW p \in [Consumers -> Places], NEW c \in Waiting(p),
           NEW q, q = [p EXCEPT ![c] = "woken"]
    PROVE  Cardinality(Woken(q)) = Cardinality(Woken(p)) + 1
<1>1. Woken(q) = Woken(p) \cup {c} /\ c \notin Woken(p)
    BY DEF Waiting, Woken
<1> QED BY <1>1, WokenFinite, FS_AddElement

(* If one is asleep after a notify, another was woken by it.               *)
LEMMA NotifyCounts ==
    ASSUME NEW p \in [Consumers -> Places], NEW q \in Notified(p), Waiting(q) # {}
    PROVE  Waiting(p) # {} /\ Cardinality(Woken(q)) = Cardinality(Woken(p)) + 1
<1>1. Waiting(p) # {}
    BY DEF Notified
<1>2. PICK c \in Waiting(p) : q = [p EXCEPT ![c] = "woken"]
    BY <1>1 DEF Notified
<1> QED BY <1>1, <1>2, WakingCounts

LEMMA HandlingWakesNone ==
    ASSUME TypeOK, NEW c \in Consumers, pc[c] = "working"
    PROVE  /\ Waiting(AfterHandling(c)) = Waiting(pc)
           /\ Woken(AfterHandling(c)) = Woken(pc)
BY DEF TypeOK, AfterHandling, Waiting, Woken

LEMMA WakeUpStep ==
    TypeOK /\ TypeOK' /\ NoMissedWakeUp /\ [Next]_vars => NoMissedWakeUp'
<1> SUFFICES ASSUME TypeOK, TypeOK', NoMissedWakeUp, [Next]_vars, Waiting(pc') # {}
             PROVE  Len(ready') <= Cardinality(Woken(pc'))
    BY DEF NoMissedWakeUp, Woken
<1>1. Waiting(pc) # {} => Len(ready) <= Cardinality(Woken(pc))
    BY DEF NoMissedWakeUp, Woken
<1>2. Cardinality(Woken(pc)) \in Nat /\ Cardinality(Woken(pc')) \in Nat
    BY WokenFinite
<1>3. Len(ready) \in Nat /\ ready \in Seq(Message) /\ pc \in [Consumers -> Places]
    BY LenProperties DEF TypeOK
<1>4. ASSUME NEW m \in Message, Publish(m)
      PROVE Len(ready') <= Cardinality(Woken(pc'))
    <2>1. Len(ready') = Len(ready) + 1
        BY <1>3, <1>4 DEF Publish
    <2>2. Waiting(pc) # {} /\ Cardinality(Woken(pc')) = Cardinality(Woken(pc)) + 1
        BY <1>3, <1>4, NotifyCounts DEF Publish
    <2> QED BY <1>1, <1>2, <1>3, <2>1, <2>2
<1>5. ASSUME NEW c \in Consumers, Wait(c)
      PROVE Len(ready') <= Cardinality(Woken(pc'))
    <2>1. Len(ready') = 0
        BY <1>5, EmptySeq DEF Wait
    <2> QED BY <1>2, <2>1
<1>6. ASSUME NEW c \in Consumers, TimeOut(c)
      PROVE Len(ready') <= Cardinality(Woken(pc'))
    <2>1. c \in Waiting(pc) /\ pc' = [pc EXCEPT ![c] = "woken"] /\ ready' = ready
        BY <1>6 DEF TimeOut, Waiting
    <2>2. Cardinality(Woken(pc')) = Cardinality(Woken(pc)) + 1
        BY <1>3, <2>1, WakingCounts
    <2> QED BY <1>1, <1>2, <1>3, <2>1, <2>2
<1>7. ASSUME NEW c \in Consumers, Take(c)
      PROVE Len(ready') <= Cardinality(Woken(pc'))
    <2>1. /\ Len(ready') = Len(ready) - Taken
          /\ Taken \in 0..Len(ready)
          /\ Taken = 0 <=> Len(ready) = 0
        BY <1>3, <1>7, TakenBound, TakenParts DEF Take
    <2>2. Waiting(pc) # {}
        BY <1>3, <1>7 DEF Take, Waiting
    <2>3. CASE pc[c] = "woken"
        <3>1. Woken(pc') = Woken(pc) \ {c} /\ c \in Woken(pc)
            BY <1>3, <1>7, <2>3 DEF Take, Woken
        <3>2. Cardinality(Woken(pc')) = Cardinality(Woken(pc)) - 1
            BY <3>1, WokenFinite, FS_RemoveElement
        <3> QED BY <1>1, <1>2, <1>3, <2>1, <2>2, <3>2
    <2>4. CASE pc[c] = "start"
        <3>1. Woken(pc') = Woken(pc)
            BY <1>3, <1>7, <2>4 DEF Take, Woken
        <3> QED BY <1>1, <1>2, <1>3, <2>1, <2>2, <3>1
    <2> QED BY <1>7, <2>3, <2>4 DEF Take
<1>8. ASSUME NEW c \in Consumers, Ack(c) \/ Nack(c)
      PROVE Len(ready') <= Cardinality(Woken(pc'))
    <2>1. pc[c] = "working"
        BY <1>8 DEF Ack, Nack
    <2>2. /\ AfterHandling(c) \in [Consumers -> Places]
          /\ Waiting(AfterHandling(c)) = Waiting(pc)
          /\ Woken(AfterHandling(c)) = Woken(pc)
        BY <2>1, HandlingWakesNone, AfterHandlingType
    <2>3. CASE pc' = AfterHandling(c) /\ ready' = ready
        BY <1>1, <2>2, <2>3
    <2>4. CASE pc' \in Notified(AfterHandling(c)) /\ ready' = Requeued(Head(deliveries[c]))
        <3>1. Waiting(pc) # {} /\ Cardinality(Woken(pc')) = Cardinality(Woken(pc)) + 1
            BY <2>2, <2>4, NotifyCounts
        <3>2. Len(ready') = Len(ready) + 1
            BY <1>3, <2>4 DEF Requeued
        <3> QED BY <1>1, <1>2, <1>3, <3>1, <3>2
    <2> QED BY <1>8, <2>3, <2>4 DEF Ack, Nack
<1>9. ASSUME NEW c \in Consumers, Stop(c)
      PROVE Len(ready') <= Cardinality(Woken(pc'))
    <2>1. Waiting(pc') = Waiting(pc) /\ Woken(pc') = Woken(pc) /\ ready' = ready
        BY <1>3, <1>9 DEF Stop, Waiting, Woken
    <2> QED BY <1>1, <2>1
<1>10. CASE UNCHANGED vars
    BY <1>1, <1>10 DEF vars
<1> QED
    BY <1>4, <1>5, <1>6, <1>7, <1>8, <1>9, <1>10 DEF Next

(* receive looks only once after its wait and notify wakes one thread;     *)
(* still no ready message is ever left to threads that all sleep.          *)
THEOREM WakeUpsSuffice == Spec => []NoMissedWakeUp
<1>1. Init => NoMissedWakeUp
    BY DEF Init, NoMissedWakeUp, Waiting
<1> QED BY <1>1, TypeCorrect, WakeUpStep, PTL DEF Spec

-----------------------------------------------------------------------------
(* Where the messages are                                                  *)

Elements(s) == {s[i] : i \in DOMAIN s}

LEMMA AppendedOnce ==
    ASSUME NEW s \in Seq(Message), NEW m \in Message, NoRepeats(s), m \notin Elements(s)
    PROVE  NoRepeats(Append(s, m)) /\ Elements(Append(s, m)) = Elements(s) \cup {m}
<1>1. /\ Len(s) \in Nat /\ DOMAIN s = 1..Len(s)
      /\ DOMAIN Append(s, m) = 1..(Len(s) + 1)
      /\ \A i \in 1..Len(s) : Append(s, m)[i] = s[i]
      /\ Append(s, m)[Len(s) + 1] = m
    BY LenProperties
<1>2. \A i \in 1..(Len(s) + 1) : i \in 1..Len(s) \/ i = Len(s) + 1
    BY <1>1
<1>3. NoRepeats(Append(s, m))
    BY <1>1, <1>2 DEF NoRepeats, Elements
<1>4. Elements(Append(s, m)) = Elements(s) \cup {m}
    <2>1. 1..(Len(s) + 1) = 1..Len(s) \cup {Len(s) + 1}
        BY <1>1
    <2> QED BY <1>1, <2>1 DEF Elements
<1> QED BY <1>3, <1>4

LEMMA TailOnce ==
    ASSUME NEW s \in Seq(Message), s # <<>>, NoRepeats(s)
    PROVE  /\ Head(s) \in Elements(s)
           /\ NoRepeats(Tail(s))
           /\ Elements(Tail(s)) = Elements(s) \ {Head(s)}
<1>1. /\ Len(s) \in Nat \ {0} /\ DOMAIN s = 1..Len(s) /\ Head(s) = s[1]
      /\ DOMAIN Tail(s) = 1..(Len(s) - 1)
      /\ \A i \in 1..(Len(s) - 1) : Tail(s)[i] = s[i + 1]
    BY EmptySeq, LenProperties, HeadTailProperties
<1>2. NoRepeats(Tail(s))
    BY <1>1 DEF NoRepeats
<1>3. ASSUME NEW i \in 1..Len(s), s[i] # s[1] PROVE s[i] \in Elements(Tail(s))
    <2>1. i - 1 \in 1..(Len(s) - 1) /\ Tail(s)[i - 1] = s[i - 1 + 1] /\ i - 1 + 1 = i
        BY <1>1, <1>3
    <2> QED BY <1>1, <2>1 DEF Elements
<1>4. ASSUME NEW i \in 1..(Len(s) - 1)
      PROVE Tail(s)[i] \in Elements(s) /\ Tail(s)[i] # s[1]
    <2>1. i + 1 \in 1..Len(s) /\ i + 1 # 1 /\ 1 \in 1..Len(s)
        BY <1>1
    <2> QED BY <1>1, <2>1 DEF Elements, NoRepeats
<1> QED BY <1>1, <1>2, <1>3, <1>4 DEF Elements

(* What a receive takes and what it leaves share nothing and miss nothing. *)
LEMMA TakenOnce ==
    ASSUME ready \in Seq(Message), NoRepeats(ready)
    PROVE  LET front == SubSeq(ready, 1, Taken)
               rest == SubSeq(ready, Taken + 1, Len(ready))
           IN  /\ NoRepeats(front) /\ NoRepeats(rest)
               /\ Elements(front) = {ready[i] : i \in 1..Taken}
               /\ Elements(rest) = Elements(ready) \ Elements(front)
               /\ Elements(front) \subseteq Elements(ready)
<1> DEFINE front == SubSeq(ready, 1, Taken)
           rest == SubSeq(ready, Taken + 1, Len(ready))
           n == Taken
<1>1. /\ n \in 0..Len(ready) /\ Len(ready) \in Nat /\ DOMAIN ready = 1..Len(ready)
      /\ DOMAIN front = 1..n /\ DOMAIN rest = 1..(Len(ready) - n)
      /\ \A i \in 1..n : front[i] = ready[i]
      /\ \A i \in 1..(Len(ready) - n) : rest[i] = ready[n + i]
    BY TakenBound, TakenParts, LenProperties
<1> HIDE DEF front, rest, n
<1>2. NoRepeats(front)
    BY <1>1 DEF NoRepeats
<1>3. NoRepeats(rest)
    <2> SUFFICES ASSUME NEW i \in DOMAIN rest, NEW j \in DOMAIN rest, rest[i] = rest[j]
                 PROVE  i = j
        BY DEF NoRepeats
    <2>1. i \in 1..(Len(ready) - n) /\ j \in 1..(Len(ready) - n)
        BY <1>1
    <2>2. n + i \in DOMAIN ready /\ n + j \in DOMAIN ready /\ ready[n + i] = ready[n + j]
        BY <1>1, <2>1
    <2>3. n + i = n + j
        BY <2>2 DEF NoRepeats
    <2> QED BY <1>1, <2>1, <2>3
<1>4. Elements(front) = {ready[i] : i \in 1..n} /\ Elements(front) \subseteq Elements(ready)
    <2>1. 1..n \subseteq 1..Len(ready)
        BY <1>1
    <2>2. Elements(front) = {front[i] : i \in 1..n}
        BY <1>1 DEF Elements
    <2>3. Elements(ready) = {ready[i] : i \in 1..Len(ready)}
        BY <1>1 DEF Elements
    <2> QED BY <1>1, <2>1, <2>2, <2>3
<1>5. ASSUME NEW i \in 1..Len(ready), ready[i] \notin Elements(front)
      PROVE ready[i] \in Elements(rest)
    <2>1. i \notin 1..n
        BY <1>1, <1>5 DEF Elements
    <2>2. i - n \in 1..(Len(ready) - n) /\ rest[i - n] = ready[n + (i - n)] /\ n + (i - n) = i
        BY <1>1, <2>1
    <2> QED BY <1>1, <2>2 DEF Elements
<1>6. ASSUME NEW i \in 1..(Len(ready) - n)
      PROVE rest[i] \in Elements(ready) /\ rest[i] \notin Elements(front)
    <2>1. n + i \in 1..Len(ready) /\ \A j \in 1..n : j \in 1..Len(ready) /\ j # n + i
        BY <1>1
    <2> QED BY <1>1, <2>1 DEF Elements, NoRepeats
<1>7. Elements(rest) = Elements(ready) \ Elements(front)
    <2>1. ASSUME NEW x \in Elements(rest) PROVE x \in Elements(ready) \ Elements(front)
        <3>1. PICK i \in 1..(Len(ready) - n) : x = rest[i]
            BY <1>1 DEF Elements
        <3> QED BY <1>6, <3>1
    <2>2. ASSUME NEW x \in Elements(ready) \ Elements(front) PROVE x \in Elements(rest)
        <3>1. PICK i \in 1..Len(ready) : x = ready[i]
            BY <1>1 DEF Elements
        <3> QED BY <1>5, <3>1
    <2> QED BY <2>1, <2>2
<1> QED BY <1>2, <1>3, <1>4, <1>7 DEF front, rest, n

(* EachMessageOnce needs one fact more: what was acknowledged had been     *)
(* published.                                                              *)
Placement == EachMessageOnce /\ acked \subseteq published

LEMMA InHand ==
    /\ Queued = Elements(ready)
    /\ \A c : Held(c) = Elements(deliveries[c])
BY DEF Queued, Held, Elements

LEMMA ReadyAppended ==
    ASSUME TypeOK, Placement, NEW m \in Message, m \notin Queued, ready' = Append(ready, m)
    PROVE  NoRepeats(ready') /\ Queued' = Queued \cup {m}
<1>1. ready \in Seq(Message) /\ NoRepeats(ready) /\ m \notin Elements(ready)
    BY InHand DEF TypeOK, Placement, EachMessageOnce
<1>2. /\ NoRepeats(Append(ready, m))
      /\ Elements(Append(ready, m)) = Elements(ready) \cup {m}
    BY <1>1, AppendedOnce
<1>3. Queued' = Elements(Append(ready, m)) /\ Queued = Elements(ready)
    BY InHand DEF Queued, Elements
<1> QED BY <1>2, <1>3

LEMMA PublishPlacement ==
    ASSUME TypeOK, Placement, NEW m \in Message, Publish(m)
    PROVE  Placement'
<1>1. /\ m \notin published /\ published' = published \cup {m}
      /\ ready' = Append(ready, m)
      /\ UNCHANGED <<inflight, acked, deliveries>>
    BY DEF Publish
<1>2. m \notin Queued /\ m \notin inflight /\ m \notin acked
    BY <1>1 DEF Placement, EachMessageOnce
<1>3. NoRepeats(ready') /\ Queued' = Queued \cup {m}
    BY <1>1, <1>2, ReadyAppended
<1>4. \A c : Held(c)' = Held(c)
    BY <1>1 DEF Held
<1> QED BY <1>1, <1>2, <1>3, <1>4 DEF Placement, EachMessageOnce

LEMMA TakePlacement ==
    ASSUME TypeOK, \A d \in Consumers : Working(d), Placement,
           NEW c \in Consumers, Take(c)
    PROVE  Placement'
<1> DEFINE front == SubSeq(ready, 1, Taken)
           rest == SubSeq(ready, Taken + 1, Len(ready))
<1>1. /\ ready' = rest
      /\ deliveries' = [deliveries EXCEPT ![c] = front]
      /\ inflight' = inflight \cup {ready[i] : i \in 1..Taken}
      /\ UNCHANGED <<published, acked>>
    BY DEF Take
<1>2. /\ NoRepeats(front) /\ NoRepeats(rest)
      /\ Elements(front) = {ready[i] : i \in 1..Taken}
      /\ Elements(rest) = Elements(ready) \ Elements(front)
      /\ Elements(front) \subseteq Elements(ready)
    BY TakenOnce DEF TypeOK, Placement, EachMessageOnce
<1> HIDE DEF front, rest
<1>3. Queued' = Queued \ Elements(front) /\ Elements(front) \subseteq Queued
    BY <1>1, <1>2, InHand DEF Queued, Elements
<1>4. Held(c) = {}
    <2>1. Len(deliveries[c]) = 0 /\ deliveries[c] \in Seq(Message)
        BY DEF Take, Working, TypeOK
    <2> QED BY <2>1, LenProperties DEF Held
<1>5. Held(c)' = Elements(front) /\ deliveries'[c] = front
    BY <1>1 DEF Held, Elements, TypeOK
<1>6. ASSUME NEW d \in Consumers, d # c
      PROVE Held(d)' = Held(d) /\ deliveries'[d] = deliveries[d]
    BY <1>1, <1>6 DEF Held, TypeOK
<1>7. inflight' = inflight \cup Elements(front)
    BY <1>1, <1>2
<1>8. \A d \in Consumers : Held(d) \subseteq inflight
    BY DEF Placement, EachMessageOnce
<1>9. \A d \in Consumers : NoRepeats(deliveries'[d])
    BY <1>2, <1>5, <1>6 DEF Placement, EachMessageOnce
<1>10. \A d, g \in Consumers : d # g => Held(d)' \cap Held(g)' = {}
    BY <1>3, <1>5, <1>6, <1>8 DEF Placement, EachMessageOnce
<1>11. inflight' = UNION {Held(d)' : d \in Consumers}
    BY <1>4, <1>5, <1>6, <1>7 DEF Placement, EachMessageOnce
<1>12. Queued' \cap inflight' = {} /\ Queued' \cup inflight' = published' \ acked'
    BY <1>1, <1>3, <1>7 DEF Placement, EachMessageOnce
<1>13. NoRepeats(ready') /\ acked' \subseteq published'
    BY <1>1, <1>2 DEF Placement
<1> QED BY <1>9, <1>10, <1>11, <1>12, <1>13 DEF Placement, EachMessageOnce

LEMMA HandlePlacement ==
    ASSUME TypeOK, \A d \in Consumers : Working(d), Placement,
           NEW c \in Consumers, Ack(c) \/ Nack(c)
    PROVE  Placement'
<1> DEFINE m == Head(deliveries[c])
<1>1. /\ deliveries' = [deliveries EXCEPT ![c] = Tail(@)] /\ published' = published
      /\ deliveries[c] \in Seq(Message) /\ deliveries[c] # <<>>
    BY EmptySeq DEF Ack, Nack, Handled, Working, TypeOK
<1>2. /\ m \in Elements(deliveries[c])
      /\ NoRepeats(Tail(deliveries[c]))
      /\ Elements(Tail(deliveries[c])) = Elements(deliveries[c]) \ {m}
    BY <1>1, TailOnce DEF Placement, EachMessageOnce
<1>3. m \in Message
    BY <1>1, HeadTailProperties
<1> HIDE DEF m
<1>4. m \in Held(c) /\ Held(c)' = Held(c) \ {m} /\ NoRepeats(deliveries'[c])
    BY <1>1, <1>2 DEF Held, Elements, TypeOK
<1>5. ASSUME NEW d \in Consumers, d # c
      PROVE Held(d)' = Held(d) /\ deliveries'[d] = deliveries[d] /\ m \notin Held(d)
    <2>1. deliveries'[d] = deliveries[d]
        BY <1>1, <1>5 DEF TypeOK
    <2>2. Held(d)' = Held(d)
        BY <2>1 DEF Held
    <2>3. Held(d) \cap Held(c) = {}
        BY <1>5 DEF Placement, EachMessageOnce
    <2> QED BY <1>4, <2>1, <2>2, <2>3
<1>6. m \in inflight /\ inflight' = inflight \ {m}
    BY <1>4 DEF Ack, Nack, Popped, Placement, EachMessageOnce, m
<1>7. \A d \in Consumers : NoRepeats(deliveries'[d])
    BY <1>4, <1>5 DEF Placement, EachMessageOnce
<1>8. \A d, g \in Consumers : d # g => Held(d)' \cap Held(g)' = {}
    BY <1>4, <1>5 DEF Placement, EachMessageOnce
<1>9. inflight' = UNION {Held(d)' : d \in Consumers}
    BY <1>4, <1>5, <1>6 DEF Placement, EachMessageOnce
<1>10. m \in published /\ m \notin acked /\ m \notin Queued
    BY <1>6 DEF Placement, EachMessageOnce
<1>11. CASE Ack(c)
    <2>1. ready' = ready /\ Queued' = Queued /\ acked' = acked \cup {m}
        BY <1>11 DEF Ack, Queued, m
    <2>2. NoRepeats(ready') /\ Queued' \cap inflight' = {}
        BY <1>6, <2>1 DEF Placement, EachMessageOnce
    <2>3. Queued' \cup inflight' = published' \ acked' /\ acked' \subseteq published'
        BY <1>1, <1>6, <1>10, <2>1 DEF Placement, EachMessageOnce
    <2> QED BY <1>7, <1>8, <1>9, <2>2, <2>3 DEF Placement, EachMessageOnce
<1>12. CASE Nack(c)
    <2>1. ready' = Append(ready, m) /\ acked' = acked
        BY <1>6, <1>12 DEF Nack, Requeued, m
    <2>2. NoRepeats(ready') /\ Queued' = Queued \cup {m}
        BY <1>3, <1>10, <2>1, ReadyAppended
    <2>3. Queued' \cap inflight' = {}
        BY <1>6, <2>2 DEF Placement, EachMessageOnce
    <2>4. Queued' \cup inflight' = published' \ acked' /\ acked' \subseteq published'
        BY <1>1, <1>6, <1>10, <2>1, <2>2 DEF Placement, EachMessageOnce
    <2> QED BY <1>7, <1>8, <1>9, <2>2, <2>3, <2>4 DEF Placement, EachMessageOnce
<1> QED BY <1>11, <1>12

LEMMA PlacementStep ==
    TypeOK /\ (\A c \in Consumers : Working(c)) /\ Placement /\ [Next]_vars => Placement'
<1> SUFFICES ASSUME TypeOK, \A c \in Consumers : Working(c), Placement, [Next]_vars
             PROVE Placement'
    OBVIOUS
<1>1. CASE UNCHANGED <<published, ready, inflight, acked, deliveries>>
    <2>1. Queued' = Queued /\ \A c : Held(c)' = Held(c)
        BY <1>1 DEF Queued, Held
    <2>2. ready' = ready /\ inflight' = inflight /\ deliveries' = deliveries
        BY <1>1
    <2>3. published' = published /\ acked' = acked
        BY <1>1
    <2> QED BY <2>1, <2>2, <2>3 DEF Placement, EachMessageOnce
<1>2. CASE \E c \in Consumers : Wait(c) \/ TimeOut(c) \/ Stop(c)
    BY <1>1, <1>2 DEF Wait, TimeOut, Stop
<1>3. CASE UNCHANGED vars
    BY <1>1, <1>3 DEF vars
<1> QED
    BY <1>2, <1>3, PublishPlacement, TakePlacement, HandlePlacement DEF Next

(* Between publish and acknowledgement a message is in one place, and in   *)
(* one worker's hands at most: the queue loses and doubles nothing.        *)
THEOREM NothingLostOrDoubled == Spec => []EachMessageOnce
<1>1. Init => TypeOK /\ (\A c \in Consumers : Working(c)) /\ Placement
    <2> SUFFICES ASSUME Init
                 PROVE  TypeOK /\ (\A c \in Consumers : Working(c)) /\ Placement
        OBVIOUS
    <2>1. TypeOK /\ \A c \in Consumers : Working(c)
        BY EmptySeq DEF Init, TypeOK, Working, Places
    <2>2. DOMAIN ready = {} /\ \A c \in Consumers : DOMAIN deliveries[c] = {}
        BY EmptySeq DEF Init
    <2>3. Queued = {} /\ \A c \in Consumers : Held(c) = {}
        BY <2>2 DEF Queued, Held
    <2>4. NoRepeats(ready) /\ \A c \in Consumers : NoRepeats(deliveries[c])
        BY <2>2 DEF NoRepeats
    <2> QED BY <2>1, <2>3, <2>4 DEF Init, Placement, EachMessageOnce
<1>2. Placement => EachMessageOnce
    BY DEF Placement
<1> QED BY <1>1, <1>2, TypeStep, PlacementStep, PTL DEF Spec
=============================================================================
