--------------------------- MODULE MsgQueue_proofs ---------------------------
(***************************************************************************)
(* The message queue, for every size of the ring, every width of its       *)
(* counters and any number of enqueue calls.  With any number of producers *)
(* a waiting consumer is woken; with one producer the queue is a bounded   *)
(* FIFO queue (with two it loses messages, see MCQueueTwoProducers.cfg).   *)
(*                                                                         *)
(* The argument for one producer: the slots in use are the n slots from    *)
(* Front on, and the producer stands n slots after Front (RingInv), so     *)
(* that the slot it fills is never one the consumer has still to read.     *)
(* What was delivered and what is in the ring form one line of messages    *)
(* in which each stands once, in the order of the enqueue calls (LineInv). *)
(***************************************************************************)
EXTENDS MsgQueue, FiniteSetTheorems, SequenceTheorems, TLAPS

-----------------------------------------------------------------------------
(* Slots of the ring *)

\* The slot i places after slot f.
Place(f, i) == IF f + i < Size THEN f + i ELSE f + i - Size

\* The slots in use, and their number.
Used == {i \in Slots : in_use[i]}

Count == Cardinality(Used)

\* Where the producer's next message goes.
End(p) == IF ppc[p] \in {"cntread", "cntwrite"} THEN After(enq_cnt % Size) ELSE enq_cnt % Size

RingInv(p) ==
    /\ Count \in 0..(Size - 1)
    /\ \A i \in Slots : in_use[Place(Front, i)] <=> i < Count
    /\ End(p) = Place(Front, Count)
    /\ ppc[p] \in {"tail", "next", "data", "use"} => Count < Size - 1
    /\ ppc[p] \in {"next", "data", "use"} => tail[p] = enq_cnt % Size
    /\ ppc[p] = "use" => d[tail[p]] = Current(p)
    /\ ppc[p] = "cntwrite" => cnt[p] = enq_cnt
    /\ cpc \in {"tapread", "deq", "free"} => Count > 0
    /\ cpc = "free" => item = d[head]
    /\ ~threw

\* The messages delivered and then those in the ring, oldest first.
Total == Len(delivered) + Count

Line(j) == IF j <= Len(delivered) THEN delivered[j]
           ELSE d[Place(Front, j - Len(delivered) - 1)]

LineInv(p) ==
    /\ \A j \in 1..Total : /\ Line(j) \in {p} \X (1..made[p])
                           /\ ppc[p] \in {"tail", "next", "data", "use"} => Line(j)[2] < made[p]
    /\ \A i, j \in 1..Total : i < j => Line(i)[2] < Line(j)[2]
    /\ \A m \in accepted : \E j \in 1..Total : Line(j) = m
    /\ ppc[p] \in {"cntread", "cntwrite", "tap"} => \E j \in 1..Total : Line(j) = Current(p)

\* Counters and slots, modulo the size of the ring.
LEMMA Remainder ==
  ASSUME NEW a \in Nat
  PROVE  /\ a % Size \in Slots
         /\ a < Size => a % Size = a
         /\ Size <= a /\ a < Size + Size => a % Size = a - Size
         /\ (a + 1) % Size = After(a % Size)
  <1>1. Size \in Nat \ {0}
    BY SizeAssumption
  <1>2. /\ a % Size \in Slots
        /\ a < Size => a % Size = a
        /\ Size <= a /\ a < Size + Size => a % Size = a - Size
    BY <1>1 DEF Slots
  <1> DEFINE q == a \div Size
             r == a % Size
  <1>3. q \in Nat /\ a = Size * q + r /\ r \in 0..(Size - 1)
    BY <1>1
  <1> HIDE DEF q, r
  <1>4. \A x \in Nat, y \in 0..(Size - 1) : (Size * x + y) % Size = y
    BY <1>1
  <1>5. (a + 1) % Size = (r + 1) % Size
    <2>1. CASE r + 1 < Size
      <3>1. (a + 1) = Size * q + (r + 1) /\ r + 1 \in 0..(Size - 1)
        BY <1>1, <1>3, <2>1
      <3>2. (r + 1) % Size = r + 1
        BY <1>1, <3>1
      <3>3. QED  BY <1>3, <1>4, <3>1, <3>2
    <2>2. CASE r + 1 = Size
      <3>1. a + 1 = Size * (q + 1) + 0 /\ q + 1 \in Nat
        BY <1>1, <1>3, <2>2
      <3>2. (a + 1) % Size = 0
        BY <1>1, <1>4, <3>1
      <3>3. (r + 1) % Size = 0
        BY <1>1, <2>2
      <3>4. QED  BY <3>2, <3>3
    <2>3. QED  BY <1>1, <1>3, <2>1, <2>2
  <1>6. QED  BY <1>2, <1>5 DEF After, r

\* A counter that wraps moves to the next slot.
LEMMA CounterStep ==
  ASSUME NEW c \in 0..(Wrap - 1)
  PROVE  /\ (c + 1) % Wrap \in 0..(Wrap - 1)
         /\ ((c + 1) % Wrap) % Size = After(c % Size)
  <1>1. Wrap \in Nat \ {0} /\ Wrap % Size = 0 /\ c \in Nat
    BY WrapAssumption
  <1>2. (c + 1) % Size = After(c % Size)
    BY <1>1, Remainder
  <1>3. CASE c + 1 < Wrap
    BY <1>1, <1>2, <1>3
  <1>4. CASE c + 1 = Wrap
    <2>1. (c + 1) % Wrap = 0
      BY <1>1, <1>4
    <2>2. 0 % Size = 0
      BY SizeAssumption, Remainder
    <2>3. QED  BY <1>1, <1>2, <1>4, <2>1, <2>2
  <1>5. QED  BY <1>1, <1>3, <1>4

\* Places are a numbering of the slots from any slot on.
LEMMA Places ==
  ASSUME NEW f \in Slots
  PROVE  /\ After(f) \in Slots /\ After(f) # f
         /\ After(f) = IF f + 1 = Size THEN 0 ELSE f + 1
         /\ \A i \in Slots : Place(f, i) \in Slots /\ Place(f, i) = (f + i) % Size
         /\ \A i, j \in Slots : Place(f, i) = Place(f, j) => i = j
         /\ \A s \in Slots : \E i \in Slots : Place(f, i) = s
         /\ \A i \in Slots : i + 1 < Size => /\ Place(After(f), i) = Place(f, i + 1)
                                             /\ After(Place(f, i)) = Place(f, i + 1)
         /\ Place(f, 0) = f
         /\ Place(After(f), Size - 1) = f
         /\ After(Place(f, Size - 1)) = f
  <1>0. Size \in Nat /\ Size > 1 /\ f \in 0..(Size - 1)
    BY SizeAssumption DEF Slots
  <1>a. /\ \A a \in Nat : a < Size => a % Size = a
        /\ \A a \in Nat : Size <= a /\ a < Size + Size => a % Size = a - Size
    BY Remainder
  <1>1. ASSUME NEW s \in Slots PROVE After(s) = IF s + 1 = Size THEN 0 ELSE s + 1
    <2>1. s \in 0..(Size - 1) /\ s + 1 \in Nat
      BY <1>0 DEF Slots
    <2>2. /\ s + 1 < Size => (s + 1) % Size = s + 1
          /\ s + 1 = Size => (s + 1) % Size = 0
      BY <1>0, <1>a, <2>1
    <2>3. QED  BY <1>0, <2>1, <2>2 DEF After
  <1>2. After(f) \in Slots /\ After(f) # f
    BY <1>0, <1>1 DEF Slots
  <1>3. ASSUME NEW i \in Slots
        PROVE  /\ Place(f, i) \in Slots /\ Place(f, i) = (f + i) % Size
               /\ i + 1 < Size => Place(After(f), i) = Place(f, i + 1)
               /\ i + 1 < Size => After(Place(f, i)) = Place(f, i + 1)
    <2>0. i \in 0..(Size - 1) /\ f + i \in Nat
      BY <1>0 DEF Slots
    <2>1. Place(f, i) \in Slots
      BY <1>0, <2>0 DEF Place, Slots
    <2>2. Place(f, i) = (f + i) % Size
      <3> DEFINE a == f + i
      <3>1. a \in Nat /\ (a < Size \/ (Size <= a /\ a < Size + Size))
        BY <1>0, <2>0
      <3>2. Place(f, i) = IF a < Size THEN a ELSE a - Size
        BY <1>0, <2>0 DEF Place
      <3> HIDE DEF a
      <3>3. a % Size = IF a < Size THEN a ELSE a - Size
        BY <1>0, <1>a, <3>1
      <3>4. QED  BY <3>2, <3>3 DEF a
    <2>3. i + 1 < Size => Place(After(f), i) = Place(f, i + 1)
      BY <1>0, <1>1, <2>0 DEF Place
    <2>4. i + 1 < Size => After(Place(f, i)) = Place(f, i + 1)
      BY <1>0, <1>1, <2>0, <2>1 DEF Place
    <2>5. QED  BY <2>1, <2>2, <2>3, <2>4
  <1>4. \A i, j \in Slots : Place(f, i) = Place(f, j) => i = j
    BY <1>0 DEF Place, Slots
  <1>5. ASSUME NEW s \in Slots PROVE \E i \in Slots : Place(f, i) = s
    <2>1. CASE f <= s
      <3>1. s - f \in Slots /\ Place(f, s - f) = s
        BY <1>0, <2>1 DEF Place, Slots
      <3>2. QED  BY <3>1
    <2>2. CASE f > s
      <3>1. s + Size - f \in Slots /\ Place(f, s + Size - f) = s
        BY <1>0, <2>2 DEF Place, Slots
      <3>2. QED  BY <3>1
    <2>3. QED  BY <1>0, <2>1, <2>2 DEF Slots
  <1>6. Place(f, 0) = f
    BY <1>0 DEF Place
  <1>7. Place(After(f), Size - 1) = f
    BY <1>0, <1>1 DEF Place
  <1>8. After(Place(f, Size - 1)) = f
    <2>1. Place(f, Size - 1) = IF f = 0 THEN Size - 1 ELSE f - 1
      BY <1>0 DEF Place
    <2>2. QED  BY <1>0, <1>1, <2>1 DEF Slots
  <1>9. QED  BY <1>1, <1>2, <1>3, <1>4, <1>5, <1>6, <1>7, <1>8

\* The same facts for all slots at once.
LEMMA AllPlaces ==
  /\ \A f \in Slots : After(f) \in Slots /\ After(f) # f
  /\ \A f, i \in Slots : Place(f, i) \in Slots
  /\ \A f, i \in Slots : Place(f, i) = (f + i) % Size
  /\ \A f, i, j \in Slots : Place(f, i) = Place(f, j) => i = j
  /\ \A f, i \in Slots : i + 1 < Size => Place(After(f), i) = Place(f, i + 1)
  /\ \A f, i \in Slots : i + 1 < Size => After(Place(f, i)) = Place(f, i + 1)
  /\ \A f \in Slots : Place(f, 0) = f
  /\ \A f \in Slots : Place(After(f), Size - 1) = f
  /\ \A f \in Slots : After(Place(f, Size - 1)) = f
  <1>1. ASSUME NEW f \in Slots
        PROVE  /\ After(f) \in Slots /\ After(f) # f
               /\ \A i \in Slots : Place(f, i) \in Slots /\ Place(f, i) = (f + i) % Size
               /\ \A i, j \in Slots : Place(f, i) = Place(f, j) => i = j
               /\ \A i \in Slots : i + 1 < Size => /\ Place(After(f), i) = Place(f, i + 1)
                                                   /\ After(Place(f, i)) = Place(f, i + 1)
               /\ Place(f, 0) = f
               /\ Place(After(f), Size - 1) = f
               /\ After(Place(f, Size - 1)) = f
    BY Places
  <1>2. \A f \in Slots : After(f) \in Slots /\ After(f) # f
    BY <1>1
  <1>3. \A f, i \in Slots : Place(f, i) \in Slots
    BY <1>1
  <1>4. \A f, i \in Slots : Place(f, i) = (f + i) % Size
    BY <1>1
  <1>5. \A f, i, j \in Slots : Place(f, i) = Place(f, j) => i = j
    BY <1>1
  <1>6. \A f, i \in Slots : i + 1 < Size => Place(After(f), i) = Place(f, i + 1)
    BY <1>1
  <1>7. \A f, i \in Slots : i + 1 < Size => After(Place(f, i)) = Place(f, i + 1)
    BY <1>1
  <1>8. \A f \in Slots : Place(f, 0) = f
    BY <1>1
  <1>9. \A f \in Slots : Place(After(f), Size - 1) = f
    BY <1>1
  <1>10. \A f \in Slots : After(Place(f, Size - 1)) = f
    BY <1>1
  <1>11. QED  BY <1>2, <1>3, <1>4, <1>5, <1>6, <1>7, <1>8, <1>9, <1>10

-----------------------------------------------------------------------------
(* Any number of producers *)

\* A producer inside enqueue has a message.
QueueType == TypeOK /\ \A p \in Producers : ppc[p] # "idle" => made[p] >= 1

\* The indices that enqueue and dequeue compute are slots of the ring.
LEMMA SlotTypes ==
  ASSUME QueueType
  PROVE  /\ enq_cnt % Size \in Slots /\ head \in Slots /\ Front \in Slots
         /\ \A p \in Producers : ppc[p] # "idle" => Current(p) \in Messages
  <1>1. enq_cnt \in Nat /\ deq_cnt \in Nat
    BY WrapAssumption DEF QueueType, TypeOK
  <1>2. enq_cnt % Size \in Slots /\ head \in Slots
    BY <1>1, Remainder DEF head
  <1>3. Front \in Slots
    BY <1>2, Places DEF Front
  <1>4. ASSUME NEW p \in Producers, ppc[p] # "idle" PROVE Current(p) \in Messages
    BY <1>4, MaxMsgsAssumption DEF QueueType, TypeOK, Current, Messages
  <1>5. QED  BY <1>2, <1>3, <1>4

\* The initial state has the types.
LEMMA QueueTypeInit ==
  Init => QueueType
  <1> SUFFICES ASSUME Init PROVE QueueType
    OBVIOUS
  <1>1. 0 \in Slots /\ 0 \in 0..(Wrap - 1) /\ 0 \in 0..MaxMsgs
    BY SizeAssumption, WrapAssumption, MaxMsgsAssumption DEF Slots
  <1>2. <<>> \in Seq(Messages \cup {NoMessage})
    OBVIOUS
  <1>3. QED  BY <1>1, <1>2 DEF Init, QueueType, TypeOK

\* Every step keeps the types.
LEMMA QueueTypeStep ==
  QueueType /\ [Next]_vars => QueueType'
  <1> SUFFICES ASSUME QueueType, [Next]_vars PROVE QueueType'
    OBVIOUS
  <1> USE DEF ring, producer, consumer
  <1>1. CASE UNCHANGED vars
    BY <1>1 DEF vars, QueueType, TypeOK
  <1>2. ASSUME NEW p \in Producers, q_is_full(p) PROVE QueueType'
    BY <1>2, MaxMsgsAssumption DEF q_is_full, QueueType, TypeOK
  <1>3. ASSUME NEW p \in Producers, EnqTail(p) PROVE QueueType'
    BY <1>3, SlotTypes DEF EnqTail, ProducerGoto, QueueType, TypeOK
  <1>4. ASSUME NEW p \in Producers, EnqNext(p) PROVE QueueType'
    BY <1>4 DEF EnqNext, ProducerGoto, QueueType, TypeOK
  <1>5. ASSUME NEW p \in Producers, EnqData(p) PROVE QueueType'
    <2>1. Current(p) \in Messages
      BY <1>5, SlotTypes DEF EnqData, ProducerGoto
    <2>2. d' \in [Slots -> Messages \cup {NoMessage}]
      BY <1>5, <2>1 DEF EnqData, QueueType, TypeOK
    <2>3. QED  BY <1>5, <2>2 DEF EnqData, ProducerGoto, QueueType, TypeOK
  <1>6. ASSUME NEW p \in Producers, EnqUse(p) PROVE QueueType'
    BY <1>6 DEF EnqUse, ProducerGoto, QueueType, TypeOK
  <1>7. ASSUME NEW p \in Producers, EnqCountRead(p) PROVE QueueType'
    BY <1>7 DEF EnqCountRead, ProducerGoto, QueueType, TypeOK
  <1>8. ASSUME NEW p \in Producers, EnqCountWrite(p) PROVE QueueType'
    <2>1. enq_cnt' \in 0..(Wrap - 1)
      BY <1>8, CounterStep DEF EnqCountWrite, QueueType, TypeOK
    <2>2. QED  BY <1>8, <2>1 DEF EnqCountWrite, ProducerGoto, QueueType, TypeOK
  <1>9. ASSUME NEW p \in Producers, Tap(p) PROVE QueueType'
    <2>1. Current(p) \in Messages
      BY <1>9, SlotTypes DEF Tap, ProducerGoto
    <2>2. QED  BY <1>9, <2>1 DEF Tap, ProducerGoto, QueueType, TypeOK
  <1>10. CASE Poll \/ PollTimeout \/ q_is_empty \/ TapRead
    BY <1>10 DEF Poll, PollTimeout, q_is_empty, TapRead, ConsumerGoto, QueueType, TypeOK
  <1>11. CASE DeqData
    BY <1>11, SlotTypes DEF DeqData, ConsumerGoto, QueueType, TypeOK
  <1>12. CASE DeqFree
    <2>1. delivered' \in Seq(Messages \cup {NoMessage})
      BY <1>12 DEF DeqFree, QueueType, TypeOK
    <2>2. QED  BY <1>12, <2>1, SlotTypes DEF DeqFree, ConsumerGoto, QueueType, TypeOK
  <1>13. CASE DeqCount
    <2>1. deq_cnt' \in 0..(Wrap - 1)
      BY <1>13, CounterStep DEF DeqCount, QueueType, TypeOK
    <2>2. QED  BY <1>13, <2>1 DEF DeqCount, ConsumerGoto, QueueType, TypeOK
  <1>14. QED
    BY <1>1, <1>2, <1>3, <1>4, <1>5, <1>6, <1>7, <1>8, <1>9, <1>10, <1>11, <1>12, <1>13
    DEF Next, Enqueue, Consume

\* Counters stay within their word and slots within the ring (q_enq, q_deq).
THEOREM QueueTypeCorrect ==
  Spec => []TypeOK
  <1>1. Spec => []QueueType
    BY QueueTypeInit, QueueTypeStep, PTL DEF Spec
  <1>2. QueueType => TypeOK
    BY DEF QueueType
  <1>3. QED  BY <1>1, <1>2, PTL

\* A consumer never sleeps in poll() beside a message that nobody will tell
\* it of, with any number of producers: dequeue clears the eventfd before it
\* looks at the ring again, and q_enq publishes before MsgQueue writes.
THEOREM ConsumerIsWoken ==
  Spec => []NoLostWakeup
  <1> DEFINE J == QueueType /\ NoLostWakeup
  <1>1. Init => J
    BY QueueTypeInit, SlotTypes DEF Init, NoLostWakeup
  <1>2. J /\ [Next]_vars => J'
    <2> SUFFICES ASSUME QueueType, NoLostWakeup, [Next]_vars, QueueType' PROVE NoLostWakeup'
      BY QueueTypeStep
    <2> USE DEF ring, producer, consumer
    <2>1. CASE UNCHANGED vars
      BY <2>1 DEF vars, NoLostWakeup, head
    <2>2. ASSUME NEW p \in Producers,
                 q_is_full(p) \/ EnqTail(p) \/ EnqNext(p) \/ EnqData(p)
                 \/ EnqCountRead(p) \/ EnqCountWrite(p)
          PROVE  NoLostWakeup'
      <3>1. UNCHANGED <<in_use, deq_cnt, m_iEventFd, cpc>>
        BY <2>2 DEF q_is_full, EnqTail, EnqNext, EnqData, EnqCountRead, EnqCountWrite
      <3>2. \A x \in Producers : ppc[x] \in {"cntread", "cntwrite", "tap"}
                                  => ppc'[x] \in {"cntread", "cntwrite", "tap"}
        BY <2>2 DEF q_is_full, EnqTail, EnqNext, EnqData, EnqCountRead, EnqCountWrite,
                    ProducerGoto, QueueType, TypeOK
      <3>3. QED  BY <3>1, <3>2 DEF NoLostWakeup, head
    <2>3. ASSUME NEW p \in Producers, EnqUse(p) PROVE NoLostWakeup'
      <3>1. ppc'[p] = "cntread"
        BY <2>3 DEF EnqUse, ProducerGoto, QueueType, TypeOK
      <3>2. QED  BY <3>1 DEF NoLostWakeup
    <2>4. ASSUME NEW p \in Producers, Tap(p) PROVE NoLostWakeup'
      <3>1. m_iEventFd' > 0
        BY <2>4 DEF Tap, QueueType, TypeOK
      <3>2. QED  BY <3>1 DEF NoLostWakeup
    <2>5. CASE Poll \/ PollTimeout \/ TapRead \/ DeqData \/ DeqFree \/ DeqCount
      BY <2>5 DEF Poll, PollTimeout, TapRead, DeqData, DeqFree, DeqCount, ConsumerGoto, NoLostWakeup
    <2>6. CASE q_is_empty
      BY <2>6 DEF q_is_empty, ConsumerGoto, NoLostWakeup, head
    <2>7. QED
      BY <2>1, <2>2, <2>3, <2>4, <2>5, <2>6 DEF Next, Enqueue, Consume
  <1>3. J => NoLostWakeup
    OBVIOUS
  <1>4. QED  BY <1>1, <1>2, <1>3, PTL DEF Spec

-----------------------------------------------------------------------------
(* One producer: the ring *)

\* The slots in use are finitely many; one more or one less changes their
\* number by one.
LEMMA UsedFinite ==
  /\ IsFiniteSet(Slots) /\ IsFiniteSet(Used) /\ Count \in Nat
  /\ \A s : s \notin Used => Cardinality(Used \cup {s}) = Count + 1
  /\ \A s \in Used : Cardinality(Used \ {s}) = Count - 1
  <1>1. IsFiniteSet(Slots)
    BY SizeAssumption, FS_Interval DEF Slots
  <1>2. IsFiniteSet(Used)
    <2>1. Used \in SUBSET Slots
      BY DEF Used
    <2>2. QED  BY <1>1, <2>1, FS_Subset
  <1>3. Count \in Nat
    BY <1>2, FS_CardinalityType DEF Count
  <1>4. \A s : s \notin Used => Cardinality(Used \cup {s}) = Count + 1
    BY <1>2, FS_AddElement DEF Count
  <1>5. \A s \in Used : Cardinality(Used \ {s}) = Count - 1
    BY <1>2, FS_RemoveElement DEF Count
  <1>6. QED  BY <1>1, <1>2, <1>3, <1>4, <1>5

\* The ring is empty at first.
LEMMA RingInit ==
  ASSUME Init, NEW p, Producers = {p}
  PROVE  RingInv(p)
  <1>1. QueueType
    BY QueueTypeInit
  <1>2. Used = {}
    BY DEF Init, Used
  <1>3. Count = 0
    BY <1>2, FS_EmptySet DEF Count
  <1>4. 0 % Size = 0 /\ Size \in Nat /\ Size > 1
    BY SizeAssumption, Remainder
  <1>5. Front = 0 /\ head = 0 /\ End(p) = 0
    BY <1>4 DEF Init, Front, head, End
  <1>6. Place(Front, Count) = 0
    BY <1>3, <1>4, <1>5 DEF Place
  <1>7. \A i \in Slots : Place(Front, i) \in Slots /\ i >= 0 /\ i \in Nat
    <2>1. Front \in Slots
      BY <1>1, SlotTypes
    <2>2. QED  BY <1>4, <2>1, AllPlaces DEF Slots
  <1>8. \A i \in Slots : in_use[Place(Front, i)] <=> i < Count
    BY <1>3, <1>7 DEF Init
  <1>9. Count \in 0..(Size - 1)
    BY <1>3, <1>4
  <1>10. ppc[p] = "idle" /\ cpc = "poll" /\ ~threw
    BY DEF Init
  <1>11. QED  BY <1>5, <1>6, <1>8, <1>9, <1>10 DEF RingInv

\* What RingInv says of the producer's slot.
LEMMA EndFacts ==
  ASSUME QueueType, NEW p \in Producers, RingInv(p)
  PROVE  /\ End(p) \in Slots /\ ~in_use[End(p)] /\ End(p) \notin Used
         /\ Count \in Slots /\ Size \in Nat /\ Size > 1
         /\ in_use[After(End(p))] <=> Count = Size - 1
         /\ Count < Size - 1 => /\ \A i \in Slots : i < Count => Place(Front, i) # End(p)
                                /\ After(End(p)) = Place(Front, Count + 1)
         /\ in_use[Front] <=> Count > 0
  <1>1. Front \in Slots /\ Size \in Nat /\ Size > 1 /\ Count \in Slots /\ Count \in 0..(Size - 1)
    BY SlotTypes, SizeAssumption DEF RingInv, Slots
  <1>2. /\ \A i \in Slots : in_use[Place(Front, i)] <=> i < Count
        /\ End(p) = Place(Front, Count)
    BY DEF RingInv
  <1>3. /\ \A i \in Slots : Place(Front, i) \in Slots
        /\ \A i, j \in Slots : Place(Front, i) = Place(Front, j) => i = j
        /\ \A i \in Slots : i + 1 < Size => After(Place(Front, i)) = Place(Front, i + 1)
        /\ Place(Front, 0) = Front
        /\ After(Place(Front, Size - 1)) = Front
    BY <1>1, AllPlaces
  <1>4. 0 \in Slots /\ (Count + 1 < Size => Count + 1 \in Slots)
    BY <1>1 DEF Slots
  <1>5. in_use[Front] <=> Count > 0
    BY <1>1, <1>2, <1>3, <1>4
  <1>6. End(p) \in Slots /\ ~in_use[End(p)]
    BY <1>1, <1>2, <1>3
  <1>7. CASE Count = Size - 1
    <2>1. After(End(p)) = Front
      BY <1>2, <1>3, <1>7
    <2>2. QED  BY <1>1, <1>5, <1>6, <1>7, <2>1 DEF Used
  <1>8. CASE Count < Size - 1
    <2>1. Count + 1 \in Slots /\ Count + 1 < Size
      BY <1>1, <1>8 DEF Slots
    <2>2. After(End(p)) = Place(Front, Count + 1)
      BY <1>1, <1>2, <1>3, <2>1
    <2>3. ~in_use[Place(Front, Count + 1)]
      BY <1>1, <1>2, <2>1
    <2>4. \A i \in Slots : i < Count => Place(Front, i) # End(p)
      BY <1>1, <1>2, <1>3
    <2>5. QED  BY <1>1, <1>5, <1>6, <1>8, <2>2, <2>3, <2>4 DEF Used
  <1>9. QED  BY <1>1, <1>7, <1>8

\* Every step keeps the ring's counters and flags together.
LEMMA RingStep ==
  ASSUME NEW p, Producers = {p}, QueueType, QueueType', RingInv(p), [Next]_vars
  PROVE  RingInv(p)'
  <1> USE DEF ring, producer, consumer
  <1>0. /\ p \in Producers /\ ppc \in [Producers -> {"idle", "tail", "next", "data", "use",
                                                     "cntread", "cntwrite", "tap"}]
        /\ tail \in [Producers -> Slots] /\ cnt \in [Producers -> 0..(Wrap - 1)]
        /\ d \in [Slots -> Messages \cup {NoMessage}] /\ in_use \in [Slots -> BOOLEAN]
        /\ enq_cnt \in 0..(Wrap - 1) /\ deq_cnt \in 0..(Wrap - 1)
        /\ made \in [Producers -> 0..MaxMsgs]
    BY DEF QueueType, TypeOK
  <1>1. /\ Count \in 0..(Size - 1)
        /\ \A i \in Slots : in_use[Place(Front, i)] <=> i < Count
        /\ End(p) = Place(Front, Count)
        /\ ppc[p] \in {"tail", "next", "data", "use"} => Count < Size - 1
        /\ ppc[p] \in {"next", "data", "use"} => tail[p] = enq_cnt % Size
        /\ ppc[p] = "use" => d[tail[p]] = Current(p)
        /\ ppc[p] = "cntwrite" => cnt[p] = enq_cnt
        /\ cpc \in {"tapread", "deq", "free"} => Count > 0
        /\ cpc = "free" => item = d[head]
        /\ ~threw
    BY DEF RingInv
  <1>2. /\ End(p) \in Slots /\ ~in_use[End(p)] /\ End(p) \notin Used
        /\ Count \in Slots /\ Size \in Nat /\ Size > 1
        /\ in_use[After(End(p))] <=> Count = Size - 1
        /\ Count < Size - 1 => /\ \A i \in Slots : i < Count => Place(Front, i) # End(p)
                               /\ After(End(p)) = Place(Front, Count + 1)
        /\ in_use[Front] <=> Count > 0
    BY <1>0, EndFacts
  <1>3. Front \in Slots /\ head \in Slots /\ enq_cnt % Size \in Slots
    BY SlotTypes
  <1>4. in_use' = in_use => Used' = Used /\ Count' = Count
    BY DEF Used, Count
  <1>5. UNCHANGED <<cpc, deq_cnt>> => Front' = Front /\ head' = head
    BY DEF Front, head
  <1>6. UNCHANGED <<in_use, cpc, deq_cnt>> =>
          /\ Count' \in 0..(Size - 1) /\ Count' = Count /\ Front' = Front
          /\ \A i \in Slots : in_use'[Place(Front, i)'] <=> i < Count'
          /\ Place(Front, Count)' = Place(Front, Count)
    BY <1>1, <1>4, <1>5 DEF Place
  <1>7. CASE UNCHANGED vars
    <2>1. End(p)' = End(p) /\ Current(p)' = Current(p)
      BY <1>7 DEF vars, End, Current
    <2>2. QED  BY <1>1, <1>5, <1>6, <1>7, <2>1 DEF vars, RingInv
  <1>8. CASE q_is_full(p)
    <2>1. /\ UNCHANGED <<d, in_use, enq_cnt, deq_cnt, cpc, threw, item, tail, cnt>>
          /\ ppc[p] = "idle"
          /\ ppc'[p] = IF in_use[After(enq_cnt % Size)] THEN "idle" ELSE "tail"
      BY <1>0, <1>8 DEF q_is_full
    <2>2. End(p)' = End(p) /\ End(p) = enq_cnt % Size
      BY <2>1 DEF End
    <2>3. ppc'[p] = "tail" => Count < Size - 1
      BY <1>1, <1>2, <2>1, <2>2
    <2>4. QED  BY <1>1, <1>5, <1>6, <2>1, <2>2, <2>3 DEF RingInv
  <1>9. CASE EnqTail(p)
    <2>1. /\ UNCHANGED <<d, in_use, enq_cnt, deq_cnt, cpc, threw, item, cnt>>
          /\ ppc[p] = "tail" /\ ppc'[p] = "next" /\ tail'[p] = enq_cnt % Size
      BY <1>0, <1>9 DEF EnqTail, ProducerGoto
    <2>2. End(p)' = End(p)
      BY <2>1 DEF End
    <2>3. QED  BY <1>1, <1>5, <1>6, <2>1, <2>2 DEF RingInv
  <1>10. CASE EnqNext(p)
    <2>1. ppc[p] = "next" /\ tail[p] = End(p)
      BY <1>1, <1>10 DEF EnqNext, ProducerGoto, End
    <2>2. ~in_use[After(tail[p])]
      BY <1>1, <1>2, <2>1
    <2>3. /\ UNCHANGED <<d, in_use, enq_cnt, deq_cnt, cpc, threw, item, tail, cnt>>
          /\ ppc'[p] = "data"
      BY <1>0, <1>10, <2>2 DEF EnqNext, ProducerGoto
    <2>4. End(p)' = End(p)
      BY <2>1, <2>3 DEF End
    <2>5. QED  BY <1>1, <1>5, <1>6, <2>1, <2>3, <2>4 DEF RingInv
  <1>11. CASE EnqData(p)
    <2>1. /\ UNCHANGED <<in_use, enq_cnt, deq_cnt, cpc, threw, item, tail, cnt, made>>
          /\ ppc[p] = "data" /\ ppc'[p] = "use"
          /\ d' = [d EXCEPT ![tail[p]] = Current(p)]
      BY <1>0, <1>11 DEF EnqData, ProducerGoto
    <2>2. End(p)' = End(p) /\ tail[p] = End(p) /\ Current(p)' = Current(p)
      BY <1>1, <2>1 DEF End, Current
    <2>3. d'[tail[p]] = Current(p)
      BY <1>0, <2>1
    <2>4. cpc = "free" => head # tail[p]
      BY <1>1, <1>2, <2>2 DEF Front
    <2>5. cpc = "free" => item = d'[head]
      BY <1>0, <1>1, <1>3, <2>1, <2>4
    <2>6. QED  BY <1>1, <1>5, <1>6, <2>1, <2>2, <2>3, <2>5 DEF RingInv
  <1>12. CASE EnqUse(p)
    <2>1. /\ UNCHANGED <<d, enq_cnt, deq_cnt, cpc, threw, item, tail, cnt, made>>
          /\ ppc[p] = "use" /\ ppc'[p] = "cntread"
          /\ in_use' = [in_use EXCEPT ![tail[p]] = TRUE]
      BY <1>0, <1>12 DEF EnqUse, ProducerGoto
    <2>2. tail[p] = End(p) /\ Count < Size - 1
      BY <1>1, <2>1 DEF End
    <2>3. Used' = Used \cup {End(p)}
      BY <1>0, <1>2, <2>1, <2>2 DEF Used
    <2>4. Count' = Count + 1
      BY <1>2, <2>3, UsedFinite DEF Count
    <2>5. Front' = Front /\ head' = head
      BY <1>5, <2>1
    <2>6. \A i \in Slots : Place(Front, i) \in Slots /\ (Place(Front, i) = End(p) <=> i = Count)
      <3>1. /\ \A i \in Slots : Place(Front, i) \in Slots
            /\ \A i, j \in Slots : Place(Front, i) = Place(Front, j) => i = j
        BY <1>3, AllPlaces
      <3>2. QED  BY <1>1, <1>2, <3>1
    <2>7. \A i \in Slots : in_use'[Place(Front, i)] <=> i < Count + 1
      <3>1. ASSUME NEW i \in Slots PROVE in_use'[Place(Front, i)] <=> i < Count + 1
        <4>1. i \in Nat /\ Count \in Nat
          BY <1>1, <1>2 DEF Slots
        <4>2. CASE i = Count
          BY <1>0, <2>1, <2>2, <2>6, <4>1, <4>2
        <4>3. CASE i # Count
          BY <1>0, <1>1, <2>1, <2>2, <2>6, <4>1, <4>3
        <4>4. QED  BY <4>2, <4>3
      <3>2. QED  BY <3>1
    <2>8. End(p)' = After(End(p))
      BY <2>1 DEF End
    <2>9. End(p)' = Place(Front, Count)'
      BY <1>2, <2>2, <2>4, <2>5, <2>8 DEF Place
    <2>10. \A i \in Slots : in_use'[Place(Front, i)'] <=> i < Count'
      BY <2>4, <2>5, <2>7 DEF Place
    <2>11. Count' \in 0..(Size - 1) /\ Count' > 0
      BY <1>1, <1>2, <2>2, <2>4
    <2>12. QED  BY <1>1, <2>1, <2>5, <2>9, <2>10, <2>11 DEF RingInv
  <1>13. CASE EnqCountRead(p)
    <2>1. /\ UNCHANGED <<d, in_use, enq_cnt, deq_cnt, cpc, threw, item, tail>>
          /\ ppc[p] = "cntread" /\ ppc'[p] = "cntwrite" /\ cnt'[p] = enq_cnt
      BY <1>0, <1>13 DEF EnqCountRead, ProducerGoto
    <2>2. End(p)' = End(p)
      BY <2>1 DEF End
    <2>3. QED  BY <1>1, <1>5, <1>6, <2>1, <2>2 DEF RingInv
  <1>14. CASE EnqCountWrite(p)
    <2>1. /\ UNCHANGED <<d, in_use, deq_cnt, cpc, threw, item, tail, cnt>>
          /\ ppc[p] = "cntwrite" /\ ppc'[p] = "tap" /\ enq_cnt' = (cnt[p] + 1) % Wrap
      BY <1>0, <1>14 DEF EnqCountWrite, ProducerGoto
    <2>2. enq_cnt' % Size = After(enq_cnt % Size)
      BY <1>0, <1>1, <2>1, CounterStep
    <2>3. End(p)' = End(p)
      BY <2>1, <2>2 DEF End
    <2>4. QED  BY <1>1, <1>5, <1>6, <2>1, <2>3 DEF RingInv
  <1>15. CASE Tap(p)
    <2>1. /\ UNCHANGED <<d, in_use, enq_cnt, deq_cnt, cpc, threw, item, tail, cnt>>
          /\ ppc[p] = "tap" /\ ppc'[p] = "idle"
      BY <1>0, <1>15 DEF Tap, ProducerGoto
    <2>2. End(p)' = End(p)
      BY <2>1 DEF End
    <2>3. QED  BY <1>1, <1>5, <1>6, <2>1, <2>2 DEF RingInv
  <1>16. CASE Poll \/ PollTimeout \/ q_is_empty \/ TapRead \/ DeqData
    <2>1. /\ UNCHANGED <<d, in_use, enq_cnt, deq_cnt, threw, ppc, tail, cnt, made>>
          /\ cpc # "count" /\ cpc' # "count"
          /\ cpc' \in {"tapread", "deq", "free"} =>
                cpc \in {"tapread", "deq"} \/ in_use[head]
          /\ cpc' = "free" => item' = d[head]
      BY <1>16 DEF Poll, PollTimeout, q_is_empty, TapRead, DeqData, ConsumerGoto
    <2>2. Front' = Front /\ head' = head /\ Front = head
      BY <2>1 DEF Front, head
    <2>3. End(p)' = End(p) /\ Current(p)' = Current(p)
      BY <2>1 DEF End, Current
    <2>4. cpc' \in {"tapread", "deq", "free"} => Count > 0
      BY <1>1, <1>2, <2>1, <2>2
    <2>5. /\ Count' = Count /\ Place(Front, Count)' = Place(Front, Count)
          /\ \A i \in Slots : in_use'[Place(Front, i)'] <=> i < Count'
      BY <1>1, <1>4, <2>1, <2>2 DEF Place
    <2>6. QED  BY <1>1, <2>1, <2>2, <2>3, <2>4, <2>5 DEF RingInv
  <1>17. CASE DeqFree
    <2>1. /\ UNCHANGED <<d, enq_cnt, deq_cnt, threw, ppc, tail, cnt, made>>
          /\ cpc = "free" /\ cpc' = "count"
          /\ in_use' = [in_use EXCEPT ![head] = FALSE]
      BY <1>17 DEF DeqFree, ConsumerGoto
    <2>2. Front = head /\ Front' = After(Front) /\ head' = head
      BY <2>1 DEF Front, head
    <2>3. End(p)' = End(p) /\ Current(p)' = Current(p)
      BY <2>1 DEF End, Current
    <2>4. Count > 0 /\ Front \in Used
      BY <1>1, <1>2, <1>3, <2>1 DEF Used
    <2>5. Used' = Used \ {Front}
      BY <1>0, <1>3, <2>1, <2>2 DEF Used
    <2>6. Count' = Count - 1
      BY <2>4, <2>5, UsedFinite DEF Count
    <2>7. /\ After(Front) \in Slots
          /\ \A i \in Slots : i + 1 < Size => Place(After(Front), i) = Place(Front, i + 1)
          /\ \A i \in Slots : i + 1 < Size => i + 1 \in Slots /\ Place(Front, i + 1) # Front
          /\ Place(After(Front), Size - 1) = Front
          /\ \A i \in Slots : Place(Front, i) \in Slots
      <3>1. \A i \in Slots : i + 1 < Size => i + 1 \in Slots /\ i + 1 # 0
        BY <1>2 DEF Slots
      <3>2. 0 \in Slots /\ Place(Front, 0) = Front
        BY <1>2, <1>3, AllPlaces DEF Slots
      <3>3. /\ After(Front) \in Slots
            /\ \A i \in Slots : i + 1 < Size => Place(After(Front), i) = Place(Front, i + 1)
            /\ Place(After(Front), Size - 1) = Front
            /\ \A i \in Slots : Place(Front, i) \in Slots
        BY <1>3, AllPlaces
      <3>4. \A i, j \in Slots : Place(Front, i) = Place(Front, j) => i = j
        BY <1>3, AllPlaces
      <3>5. \A i \in Slots : i + 1 < Size => Place(Front, i + 1) # Front
        BY <3>1, <3>2, <3>4
      <3>6. QED  BY <3>1, <3>3, <3>5
    <2>8. ASSUME NEW i \in Slots PROVE in_use'[Place(After(Front), i)] <=> i < Count - 1
      <3>1. i \in Nat /\ Count \in Nat /\ i < Size /\ Count < Size
        BY <1>1, <1>2 DEF Slots
      <3>2. CASE i + 1 < Size
        BY <1>0, <1>1, <2>1, <2>2, <2>7, <3>1, <3>2
      <3>3. CASE i + 1 = Size
        <4>1. i = Size - 1
          BY <1>2, <3>1, <3>3
        <4>2. ~in_use'[Front]
          BY <1>0, <1>3, <2>1, <2>2
        <4>3. QED  BY <1>2, <2>7, <3>1, <4>1, <4>2
      <3>4. QED  BY <1>2, <3>1, <3>2, <3>3
    <2>9. Place(Front, Count)' = End(p)
      <3>1. Count - 1 \in Slots /\ (Count - 1) + 1 < Size /\ (Count - 1) + 1 = Count
        BY <1>1, <1>2, <2>4 DEF Slots
      <3>2. Place(After(Front), Count - 1) = Place(Front, Count)
        BY <2>7, <3>1
      <3>3. QED  BY <1>1, <2>2, <2>6, <3>2 DEF Place
    <2>10. \A i \in Slots : in_use'[Place(Front, i)'] <=> i < Count'
      BY <2>2, <2>6, <2>8 DEF Place
    <2>11. Count' \in 0..(Size - 1) /\ (Count < Size - 1 => Count' < Size - 1)
      BY <1>1, <1>2, <2>4, <2>6
    <2>12. QED  BY <1>1, <2>1, <2>3, <2>9, <2>10, <2>11 DEF RingInv
  <1>18. CASE DeqCount
    <2>1. /\ UNCHANGED <<d, in_use, enq_cnt, threw, ppc, tail, cnt, made>>
          /\ cpc = "count" /\ cpc' = "check" /\ deq_cnt' = (deq_cnt + 1) % Wrap
      BY <1>18 DEF DeqCount, ConsumerGoto
    <2>2. deq_cnt' % Size = After(deq_cnt % Size)
      BY <1>0, <2>1, CounterStep
    <2>3. Front' = Front
      BY <2>1, <2>2 DEF Front, head
    <2>4. End(p)' = End(p) /\ Current(p)' = Current(p)
      BY <2>1 DEF End, Current
    <2>5. /\ Count' = Count /\ Place(Front, Count)' = Place(Front, Count)
          /\ \A i \in Slots : in_use'[Place(Front, i)'] <=> i < Count'
      BY <1>1, <1>4, <2>1, <2>3 DEF Place
    <2>6. QED  BY <1>1, <2>1, <2>4, <2>5 DEF RingInv
  <1>19. QED
    BY <1>7, <1>8, <1>9, <1>10, <1>11, <1>12, <1>13, <1>14, <1>15, <1>16, <1>17, <1>18
    DEF Next, Enqueue, Consume

-----------------------------------------------------------------------------
(* One producer: the queue *)

\* A step leaves the messages in the ring alone, ...
Still ==
    /\ Count' = Count /\ Front' = Front /\ delivered' = delivered
    /\ \A i \in Slots : i < Count => d'[Place(Front, i)] = d[Place(Front, i)]

\* ... adds one behind them, ...
Adds(p) ==
    /\ Count < Size - 1 /\ Count' = Count + 1 /\ Front' = Front
    /\ d' = d /\ d[Place(Front, Count)] = Current(p) /\ delivered' = delivered

\* ... or takes the first one out.
Takes ==
    /\ Count > 0 /\ Count' = Count - 1 /\ Front' = After(Front)
    /\ d' = d /\ delivered' = Append(delivered, d[Front])

\* A step adds one message at the end, takes one at the front, or neither.
LEMMA RingMoves ==
  ASSUME NEW p, Producers = {p}, QueueType, RingInv(p), [Next]_vars
  PROVE  \/ Still /\ ~EnqUse(p)
         \/ Adds(p) /\ EnqUse(p)
         \/ Takes /\ DeqFree
  <1> USE DEF ring, producer, consumer
  <1>0. /\ p \in Producers /\ Front \in Slots /\ head \in Slots
        /\ d \in [Slots -> Messages \cup {NoMessage}] /\ in_use \in [Slots -> BOOLEAN]
        /\ tail \in [Producers -> Slots]
    BY SlotTypes DEF QueueType, TypeOK
  <1>1. /\ Count \in 0..(Size - 1)
        /\ End(p) = Place(Front, Count)
        /\ ppc[p] \in {"tail", "next", "data", "use"} => Count < Size - 1
        /\ ppc[p] \in {"next", "data", "use"} => tail[p] = enq_cnt % Size
        /\ ppc[p] = "use" => d[tail[p]] = Current(p)
        /\ cpc \in {"tapread", "deq", "free"} => Count > 0
        /\ cpc = "free" => item = d[head]
    BY DEF RingInv
  <1>2. /\ End(p) \in Slots /\ End(p) \notin Used
        /\ Count < Size - 1 => \A i \in Slots : i < Count => Place(Front, i) # End(p)
        /\ in_use[Front] <=> Count > 0
    BY <1>0, EndFacts
  <1>3. \A i \in Slots : Place(Front, i) \in Slots
    BY <1>0, AllPlaces
  <1>4. UNCHANGED <<d, in_use, cpc, deq_cnt, delivered>> => Still
    BY DEF Still, Count, Used, Front, head
  <1>5. CASE EnqData(p)
    <2>1. /\ UNCHANGED <<in_use, deq_cnt, cpc, delivered>>
          /\ ppc[p] = "data" /\ d' = [d EXCEPT ![tail[p]] = Current(p)]
      BY <1>5 DEF EnqData, ProducerGoto
    <2>2. tail[p] = End(p) /\ Count < Size - 1
      BY <1>1, <2>1 DEF End
    <2>3. \A i \in Slots : i < Count => d'[Place(Front, i)] = d[Place(Front, i)]
      BY <1>0, <1>2, <1>3, <2>1, <2>2
    <2>4. Count' = Count /\ Front' = Front
      BY <2>1 DEF Count, Used, Front, head
    <2>5. ~EnqUse(p)
      BY <2>1 DEF EnqUse, ProducerGoto
    <2>6. QED  BY <2>1, <2>3, <2>4, <2>5 DEF Still
  <1>6. CASE EnqUse(p)
    <2>1. /\ UNCHANGED <<d, deq_cnt, cpc, delivered>>
          /\ ppc[p] = "use" /\ in_use' = [in_use EXCEPT ![tail[p]] = TRUE]
      BY <1>6 DEF EnqUse, ProducerGoto
    <2>2. tail[p] = End(p) /\ Count < Size - 1
      BY <1>1, <2>1 DEF End
    <2>3. Used' = Used \cup {End(p)}
      BY <1>0, <1>2, <2>1, <2>2 DEF Used
    <2>4. Count' = Count + 1
      BY <1>2, <2>3, UsedFinite DEF Count
    <2>5. Front' = Front
      BY <2>1 DEF Front, head
    <2>6. d[Place(Front, Count)] = Current(p)
      BY <1>1, <2>1, <2>2
    <2>7. QED  BY <1>6, <2>1, <2>2, <2>4, <2>5, <2>6 DEF Adds
  <1>7. CASE DeqFree
    <2>1. /\ UNCHANGED <<d, deq_cnt>> /\ cpc = "free" /\ cpc' = "count"
          /\ in_use' = [in_use EXCEPT ![head] = FALSE]
          /\ delivered' = Append(delivered, item)
      BY <1>7 DEF DeqFree, ConsumerGoto
    <2>2. Front = head /\ Front' = After(Front)
      BY <2>1 DEF Front, head
    <2>3. Count > 0 /\ Front \in Used
      BY <1>0, <1>1, <1>2, <2>1 DEF Used
    <2>4. Used' = Used \ {Front}
      BY <1>0, <2>1, <2>2 DEF Used
    <2>5. Count' = Count - 1
      BY <2>3, <2>4, UsedFinite DEF Count
    <2>6. delivered' = Append(delivered, d[Front])
      BY <1>1, <2>1, <2>2
    <2>7. QED  BY <1>7, <2>1, <2>2, <2>3, <2>5, <2>6 DEF Takes
  <1>8. CASE DeqCount
    <2>1. /\ UNCHANGED <<d, in_use, delivered, ppc>>
          /\ cpc = "count" /\ cpc' = "check" /\ deq_cnt' = (deq_cnt + 1) % Wrap
      BY <1>8 DEF DeqCount, ConsumerGoto
    <2>2. deq_cnt' % Size = After(deq_cnt % Size)
      BY <2>1, CounterStep DEF QueueType, TypeOK
    <2>3. Front' = Front
      BY <2>1, <2>2 DEF Front, head
    <2>4. Count' = Count
      BY <2>1 DEF Count, Used
    <2>5. ~EnqUse(p)
      BY <2>1 DEF EnqUse, ProducerGoto
    <2>6. QED  BY <2>1, <2>3, <2>4, <2>5 DEF Still
  <1>9. CASE Poll \/ PollTimeout \/ q_is_empty \/ TapRead \/ DeqData
    <2>1. UNCHANGED <<d, in_use, deq_cnt, delivered, ppc>> /\ cpc # "count" /\ cpc' # "count"
      BY <1>9 DEF Poll, PollTimeout, q_is_empty, TapRead, DeqData, ConsumerGoto
    <2>2. Front' = Front /\ Count' = Count
      BY <2>1 DEF Front, head, Count, Used
    <2>3. ~EnqUse(p)
      BY <1>0, <2>1 DEF EnqUse, ProducerGoto, QueueType, TypeOK
    <2>4. QED  BY <2>1, <2>2, <2>3 DEF Still
  <1>10. CASE \/ q_is_full(p) \/ EnqTail(p) \/ EnqNext(p) \/ EnqCountRead(p)
              \/ EnqCountWrite(p) \/ Tap(p) \/ UNCHANGED vars
    <2>1. UNCHANGED <<d, in_use, cpc, deq_cnt, delivered>>
      BY <1>10 DEF q_is_full, EnqTail, EnqNext, EnqCountRead, EnqCountWrite, Tap, vars
    <2>2. ASSUME EnqUse(p) PROVE FALSE
      <3>1. in_use'[tail[p]] = TRUE /\ ppc[p] = "use" /\ tail[p] \in Slots
        BY <1>0, <2>2 DEF EnqUse, ProducerGoto
      <3>2. tail[p] = End(p)
        BY <1>1, <3>1 DEF End
      <3>3. QED  BY <1>2, <2>1, <3>1, <3>2 DEF Used
    <2>3. QED  BY <1>4, <2>1, <2>2
  <1>11. QED
    BY <1>5, <1>6, <1>7, <1>8, <1>9, <1>10 DEF Next, Enqueue, Consume

\* The n messages from slot f on.
From(f, n, D) == [i \in 1..n |-> D[Place(f, i - 1)]]

\* The n slots from slot f on, as a sequence.
LEMMA FromFacts ==
  ASSUME NEW M, NEW f \in Slots, NEW n \in 0..(Size - 1), NEW D \in [Slots -> M]
  PROVE  /\ From(f, n, D) \in Seq(M) /\ Len(From(f, n, D)) = n
         /\ \A i \in 1..n : From(f, n, D)[i] = D[Place(f, i - 1)]
         /\ From(f, n, D) = [i \in 1..n |-> D[(f + i - 1) % Size]]
  <1>1. Size \in Nat /\ Size > 1 /\ f \in Nat
    BY SizeAssumption DEF Slots
  <1>2. \A i \in 1..n : /\ i - 1 \in Slots /\ f + (i - 1) = f + i - 1
                        /\ Place(f, i - 1) \in Slots /\ Place(f, i - 1) = (f + (i - 1)) % Size
    <2>1. \A i \in 1..n : i - 1 \in Slots /\ f + (i - 1) = f + i - 1
      BY <1>1 DEF Slots
    <2>2. QED  BY <2>1, AllPlaces
  <1>3. From(f, n, D) \in [1..n -> M]
    BY <1>2 DEF From
  <1>4. From(f, n, D) \in Seq(M) /\ Len(From(f, n, D)) = n
    BY <1>1, <1>3
  <1>5. \A i \in 1..n : D[Place(f, i - 1)] = D[(f + i - 1) % Size]
    BY <1>2
  <1>6. QED  BY <1>4, <1>5 DEF From

\* The producer's line moves by one message at a time.
LEMMA FifoStep ==
  ASSUME NEW p, Producers = {p}, QueueType, QueueType', RingInv(p), RingInv(p)', [Next]_vars
  PROVE  [Fifo!Next]_<<Pending, delivered>>
  <1> DEFINE M == Messages \cup {NoMessage}
  <1>1. /\ p \in Producers /\ Front \in Slots /\ d \in [Slots -> M] /\ Count \in 0..(Size - 1)
        /\ d' \in [Slots -> M] /\ Count' \in 0..(Size - 1) /\ delivered \in Seq(M)
    BY SlotTypes DEF QueueType, TypeOK, RingInv
  <1>2. Front' \in Slots
    <2>1. deq_cnt' \in Nat
      BY WrapAssumption DEF QueueType, TypeOK
    <2>2. deq_cnt' % Size \in Slots
      BY <2>1, Remainder
    <2>3. QED  BY <2>2, AllPlaces DEF Front, head
  <1>3. Pending = From(Front, Count, d)
    <2>1. Pending = [i \in 1..Count |-> d[(Front + i - 1) % Size]]
      BY DEF Pending, Count, Used
    <2>2. QED  BY <1>1, <2>1, FromFacts
  <1>4. Pending' = From(Front', Count', d')
    <2>1. Pending' = [i \in 1..Count' |-> d'[(Front' + i - 1) % Size]]
      BY DEF Pending, Count, Used
    <2>2. QED  BY <1>1, <1>2, <2>1, FromFacts
  <1>5. /\ Pending \in Seq(M) /\ Len(Pending) = Count
        /\ \A i \in 1..Count : Pending[i] = d[Place(Front, i - 1)]
    BY <1>1, <1>3, FromFacts
  <1>6. /\ Pending' \in Seq(M) /\ Len(Pending') = Count'
        /\ \A i \in 1..Count' : Pending'[i] = d'[Place(Front', i - 1)]
    BY <1>1, <1>2, <1>4, FromFacts
  <1>7. \A i \in 1..(Size - 1) : i - 1 \in Slots /\ i \in Slots
    BY SizeAssumption DEF Slots
  <1>8. Count \in Nat /\ Size \in Nat /\ Size > 1 /\ 0 \in Slots
    BY <1>1, SizeAssumption DEF Slots
  <1> HIDE DEF M
  <1>9. CASE Still
    <2>1. \A i \in 1..Count : Pending'[i] = Pending[i]
      BY <1>1, <1>5, <1>6, <1>7, <1>8, <1>9 DEF Still
    <2>2. Pending' = Pending
      BY <1>5, <1>6, <1>9, <2>1, SeqEqual DEF Still
    <2>3. QED  BY <1>9, <2>2 DEF Still
  <1>10. CASE Adds(p) /\ EnqUse(p)
    <2>1. Current(p) \in Messages
      BY <1>1, <1>10, SlotTypes DEF EnqUse, ProducerGoto
    <2>2. Current(p) \in M
      BY <2>1 DEF M
    <2>3. /\ Append(Pending, Current(p)) \in Seq(M)
          /\ Len(Append(Pending, Current(p))) = Count + 1
          /\ \A i \in 1..Count : Append(Pending, Current(p))[i] = Pending[i]
          /\ Append(Pending, Current(p))[Count + 1] = Current(p)
      BY <1>5, <2>2
    <2>4. ASSUME NEW i \in 1..(Count + 1) PROVE Pending'[i] = Append(Pending, Current(p))[i]
      <3>1. Pending'[i] = d[Place(Front, i - 1)]
        BY <1>6, <1>10 DEF Adds
      <3>2. CASE i = Count + 1
        <4>1. i - 1 = Count
          BY <1>8, <3>2
        <4>2. QED  BY <1>10, <2>3, <3>1, <3>2, <4>1 DEF Adds
      <3>3. CASE i \in 1..Count
        BY <1>5, <2>3, <3>1, <3>3
      <3>4. i = Count + 1 \/ i \in 1..Count
        BY <1>8
      <3>5. QED  BY <3>2, <3>3, <3>4
    <2>5. Pending' = Append(Pending, Current(p))
      <3>1. Len(Pending') = Count + 1
        BY <1>6, <1>10 DEF Adds
      <3>2. QED  BY <1>6, <2>3, <2>4, <3>1, SeqEqual
    <2>6. Len(Pending) < Size - 1 /\ delivered' = delivered
      BY <1>5, <1>10 DEF Adds
    <2>7. Fifo!Put(Current(p))
      BY <2>5, <2>6 DEF Fifo!Put
    <2>8. QED  BY <2>1, <2>7 DEF Fifo!Next
  <1>11. CASE Takes
    <2>1. /\ Count > 0 /\ Count' = Count - 1 /\ Front' = After(Front) /\ d' = d
          /\ delivered' = Append(delivered, d[Front])
      BY <1>11 DEF Takes
    <2>2. Pending # <<>>
      BY <1>5, <1>8, <2>1
    <2>3. /\ Tail(Pending) \in Seq(M) /\ Len(Tail(Pending)) = Count - 1
          /\ \A i \in 1..(Count - 1) : Tail(Pending)[i] = Pending[i + 1]
          /\ Head(Pending) = Pending[1]
      <3>1. /\ Tail(Pending) \in Seq(M) /\ Len(Tail(Pending)) = Count - 1
            /\ \A i \in 1..Len(Tail(Pending)) : Tail(Pending)[i] = Pending[i + 1]
        BY <1>5, <2>2, HeadTailProperties
      <3>2. QED  BY <1>5, <2>2, <3>1
    <2>4. Head(Pending) = d[Front]
      <3>1. Pending[1] = d[Place(Front, 0)]
        BY <1>5, <1>8, <2>1
      <3>2. Place(Front, 0) = Front
        BY <1>1, AllPlaces
      <3>3. QED  BY <2>3, <3>1, <3>2
    <2>5. ASSUME NEW i \in 1..(Count - 1) PROVE Pending'[i] = Tail(Pending)[i]
      <3>1. i \in 1..Count' /\ i + 1 \in 1..Count /\ (i - 1) + 1 = i /\ (i + 1) - 1 = i
            /\ i - 1 \in Slots /\ i < Size
        BY <1>1, <1>7, <1>8, <2>1
      <3>2. Pending'[i] = d[Place(After(Front), i - 1)]
        BY <1>6, <2>1, <3>1
      <3>3. Tail(Pending)[i] = d[Place(Front, i)]
        BY <1>5, <2>3, <3>1
      <3>4. Place(After(Front), i - 1) = Place(Front, (i - 1) + 1)
        <4>1. \A x \in Slots : x + 1 < Size => Place(After(Front), x) = Place(Front, x + 1)
          BY <1>1, AllPlaces
        <4>2. QED  BY <3>1, <4>1
      <3>5. QED  BY <3>1, <3>2, <3>3, <3>4
    <2>6. Pending' = Tail(Pending)
      <3>1. Len(Pending') = Count - 1
        BY <1>6, <2>1
      <3>2. QED  BY <1>6, <2>3, <2>5, <3>1, SeqEqual
    <2>7. Fifo!Take
      BY <2>1, <2>2, <2>4, <2>6 DEF Fifo!Take
    <2>8. QED  BY <2>7 DEF Fifo!Next
  <1>12. QED  BY <1>9, <1>10, <1>11, RingMoves

\* MsgQueue::enqueue of a single producer never throws: whatever the consumer
\* does meanwhile, the slot that isFull() found free is free for q_enq.
THEOREM OneProducerNeverThrows ==
  ASSUME NEW p, Producers = {p}
  PROVE  Spec => []NoEnqueueException
  <1> DEFINE J == QueueType /\ RingInv(p)
  <1>1. Init => J
    BY QueueTypeInit, RingInit
  <1>2. J /\ [Next]_vars => J'
    BY QueueTypeStep, RingStep
  <1>3. J => NoEnqueueException
    BY DEF RingInv, NoEnqueueException
  <1>4. QED  BY <1>1, <1>2, <1>3, PTL DEF Spec

\* A MsgQueue with one producer implements a FIFO queue of Size - 1 messages,
\* for every size and through every wrap of the counters.
THEOREM OneProducerIsFifo ==
  ASSUME NEW p, Producers = {p}
  PROVE  Spec => FifoSpec
  <1> DEFINE J == QueueType /\ RingInv(p)
  <1>1. Init => J
    BY QueueTypeInit, RingInit
  <1>2. J /\ [Next]_vars => J'
    BY QueueTypeStep, RingStep
  <1>3. Init => Fifo!Init
    <2> SUFFICES ASSUME Init PROVE Pending = <<>> /\ delivered = <<>>
      BY DEF Fifo!Init
    <2>1. {i \in Slots : in_use[i]} = {}
      BY DEF Init
    <2>2. Cardinality({i \in Slots : in_use[i]}) = 0
      BY <2>1, FS_EmptySet
    <2>3. Pending = [i \in 1..0 |-> d[(Front + i - 1) % Size]]
      BY <2>2 DEF Pending
    <2>4. QED  BY <2>3 DEF Init
  <1>4. J /\ J' /\ [Next]_vars => [Fifo!Next]_<<Pending, delivered>>
    BY FifoStep
  <1>5. QED  BY <1>1, <1>2, <1>3, <1>4, PTL DEF Spec, FifoSpec, Fifo!Spec

-----------------------------------------------------------------------------
(* One producer: no message is lost or delivered twice *)

\* The line of messages only grows at its end.
LEMMA LineMoves ==
  ASSUME NEW p, Producers = {p}, QueueType, QueueType', RingInv(p), [Next]_vars
  PROVE  /\ Total \in Nat
         /\ \/ ~EnqUse(p) /\ Total' = Total /\ \A j \in 1..Total : Line(j)' = Line(j)
            \/ /\ EnqUse(p) /\ Total' = Total + 1
               /\ \A j \in 1..Total : Line(j)' = Line(j)
               /\ \A j : j = Total + 1 => Line(j)' = Current(p)
  <1> DEFINE L == Len(delivered)
             M == Messages \cup {NoMessage}
  <1>1. /\ L \in Nat /\ Count \in Nat /\ Count < Size /\ Size \in Nat /\ Size > 1
        /\ delivered \in Seq(M) /\ Front \in Slots /\ 0 \in Slots /\ d \in [Slots -> M]
    <2>1. delivered \in Seq(M) /\ d \in [Slots -> M] /\ Front \in Slots
      BY SlotTypes DEF QueueType, TypeOK
    <2>2. Size \in Nat /\ Size > 1 /\ Count \in 0..(Size - 1) /\ 0 \in Slots
      BY SizeAssumption DEF RingInv, Slots
    <2>3. QED  BY <2>1, <2>2
  <1>2. Total \in Nat /\ Total = L + Count
    BY <1>1 DEF Total
  <1>3. \A j \in 1..Total : j > L => /\ j - L - 1 \in Slots /\ j - L - 1 < Count
                                     /\ Line(j) = d[Place(Front, j - L - 1)]
    BY <1>1, <1>2 DEF Line, Slots
  <1>4. \A j \in 1..Total : j <= L => Line(j) = delivered[j]
    BY DEF Line
  <1> HIDE DEF M
  <1>5. CASE Still /\ ~EnqUse(p)
    <2>1. Total' = Total /\ Len(delivered') = L
      BY <1>5 DEF Still, Total
    <2>2. ASSUME NEW j \in 1..Total PROVE Line(j)' = Line(j)
      <3>1. CASE j <= L
        BY <1>4, <1>5, <2>1, <3>1 DEF Still, Line
      <3>2. CASE j > L
        <4>1. Line(j)' = d'[Place(Front, j - L - 1)]
          BY <1>1, <1>2, <1>5, <2>1, <3>2 DEF Still, Line, Place
        <4>2. QED  BY <1>3, <1>5, <3>2, <4>1 DEF Still
      <3>3. QED  BY <1>1, <1>2, <3>1, <3>2
    <2>3. QED  BY <1>2, <1>5, <2>1, <2>2
  <1>6. CASE Adds(p) /\ EnqUse(p)
    <2>1. Total' = Total + 1 /\ Len(delivered') = L
      BY <1>1, <1>6 DEF Adds, Total
    <2>2. ASSUME NEW j \in 1..(Total + 1) PROVE Line(j)' = Line(j)
      BY <1>6, <2>1 DEF Adds, Line, Place
    <2>3. ASSUME NEW j, j = Total + 1 PROVE Line(j)' = Current(p)
      <3>1. j \in 1..(Total + 1) /\ ~(j <= L) /\ j - L - 1 = Count
        BY <1>1, <1>2, <2>3
      <3>2. Line(j) = d[Place(Front, j - L - 1)]
        BY <3>1 DEF Line
      <3>3. QED  BY <1>6, <2>2, <3>1, <3>2 DEF Adds
    <2>4. \A j \in 1..Total : Line(j)' = Line(j)
      <3>1. \A j \in 1..Total : j \in 1..(Total + 1)
        BY <1>2
      <3>2. QED  BY <2>2, <3>1
    <2>5. QED  BY <1>2, <1>6, <2>1, <2>3, <2>4
  <1>7. CASE Takes /\ DeqFree
    <2>1. /\ Count > 0 /\ Count' = Count - 1 /\ Front' = After(Front) /\ d' = d
          /\ delivered' = Append(delivered, d[Front])
      BY <1>7 DEF Takes
    <2>2. d[Front] \in M
      BY <1>1
    <2>3. /\ Len(delivered') = L + 1 /\ delivered'[L + 1] = d[Front]
          /\ \A j \in 1..L : delivered'[j] = delivered[j]
      BY <1>1, <2>1, <2>2
    <2>4. Total' = Total
      BY <1>1, <1>2, <2>1, <2>3 DEF Total
    <2>5. ~EnqUse(p)
      <3>1. cpc' = "count" /\ cpc = "free"
        BY <1>7 DEF DeqFree, ConsumerGoto
      <3>2. QED  BY <3>1 DEF EnqUse, consumer
    <2>6. ASSUME NEW j \in 1..Total PROVE Line(j)' = Line(j)
      <3>1. CASE j <= L
        BY <1>1, <1>4, <2>3, <3>1 DEF Line
      <3>2. CASE j = L + 1
        <4>1. Line(j)' = d[Front]
          BY <2>3, <3>2, <1>1 DEF Line
        <4>2. j > L /\ j - L - 1 = 0
          BY <1>1, <3>2
        <4>3. Place(Front, 0) = Front
          BY <1>1, AllPlaces
        <4>4. QED  BY <1>3, <4>1, <4>2, <4>3
      <3>3. CASE j > L + 1
        <4>1. /\ j - (L + 1) - 1 \in Slots /\ (j - (L + 1) - 1) + 1 < Size
              /\ (j - (L + 1) - 1) + 1 = j - L - 1 /\ ~(j <= L + 1) /\ j > L
          BY <1>1, <1>2, <3>3 DEF Slots
        <4>2. Line(j)' = d[Place(After(Front), j - (L + 1) - 1)]
          BY <2>1, <2>3, <4>1 DEF Line, Place
        <4>3. Place(After(Front), j - (L + 1) - 1) = Place(Front, j - L - 1)
          <5>1. \A x \in Slots : x + 1 < Size => Place(After(Front), x) = Place(Front, x + 1)
            BY <1>1, AllPlaces
          <5>2. QED  BY <4>1, <5>1
        <4>4. QED  BY <1>3, <4>1, <4>2, <4>3
      <3>4. QED  BY <1>1, <1>2, <3>1, <3>2, <3>3
    <2>7. QED  BY <1>2, <2>4, <2>5, <2>6
  <1>8. QED  BY <1>5, <1>6, <1>7, RingMoves

\* At first the ring holds nothing that was not dequeued.
LEMMA LineInit ==
  ASSUME Init, NEW p, Producers = {p}
  PROVE  LineInv(p)
  <1>1. Used = {}
    BY DEF Init, Used
  <1>2. Count = 0
    BY <1>1, FS_EmptySet DEF Count
  <1>3. Total = 0
    BY <1>2 DEF Init, Total
  <1>4. ppc[p] = "idle" /\ accepted = {}
    BY DEF Init
  <1>5. QED  BY <1>3, <1>4 DEF LineInv

\* Every step keeps the ring's contents in line with what was sent.
LEMMA LineStep ==
  ASSUME NEW p, Producers = {p}, QueueType, QueueType', RingInv(p), LineInv(p), [Next]_vars
  PROVE  LineInv(p)'
  <1> USE DEF ring, producer, consumer
  <1>0. /\ p \in Producers /\ made \in [Producers -> Nat] /\ made[p] \in Nat /\ made'[p] \in Nat
        /\ ppc \in [Producers -> {"idle", "tail", "next", "data", "use",
                                  "cntread", "cntwrite", "tap"}]
        /\ ppc[p] # "idle" => made[p] >= 1
    BY MaxMsgsAssumption DEF QueueType, TypeOK
  <1>1. /\ \A j \in 1..Total :
              /\ Line(j) \in {p} \X (1..made[p])
              /\ ppc[p] \in {"tail", "next", "data", "use"} => Line(j)[2] < made[p]
        /\ \A i, j \in 1..Total : i < j => Line(i)[2] < Line(j)[2]
        /\ \A m \in accepted : \E j \in 1..Total : Line(j) = m
        /\ ppc[p] \in {"cntread", "cntwrite", "tap"} => \E j \in 1..Total : Line(j) = Current(p)
    BY DEF LineInv
  <1>2. CASE EnqUse(p)
    <2>1. /\ Total \in Nat /\ Total' = Total + 1
          /\ \A j \in 1..Total : Line(j)' = Line(j)
          /\ \A j : j = Total + 1 => Line(j)' = Current(p)
      BY <1>2, LineMoves
    <2>2. /\ ppc[p] = "use" /\ ppc'[p] = "cntread" /\ UNCHANGED <<made, accepted>>
      BY <1>0, <1>2 DEF EnqUse, ProducerGoto
    <2>3. Current(p) \in {p} \X (1..made[p]) /\ Current(p)[2] = made[p] /\ Current(p)' = Current(p)
      BY <1>0, <2>2 DEF Current
    <2>4. \A j \in 1..(Total + 1) : j \in 1..Total \/ j = Total + 1
      BY <2>1
    <2>5. \A j \in 1..(Total + 1) : Line(j)' \in {p} \X (1..made[p])
      BY <1>1, <2>1, <2>3, <2>4
    <2>6. ASSUME NEW i \in 1..(Total + 1), NEW j \in 1..(Total + 1), i < j
          PROVE  (Line(i)')[2] < (Line(j)')[2]
      <3>1. i \in 1..Total
        BY <2>1, <2>6
      <3>2. CASE j \in 1..Total
        BY <1>1, <2>1, <2>6, <3>1, <3>2
      <3>3. CASE j = Total + 1
        <4>1. Line(i)[2] < made[p]
          BY <1>1, <2>2, <3>1
        <4>2. QED  BY <2>1, <2>3, <3>1, <3>3, <4>1
      <3>4. QED  BY <2>4, <3>2, <3>3
    <2>7. \A m \in accepted' : \E j \in 1..(Total + 1) : Line(j)' = m
      BY <1>1, <2>1, <2>2
    <2>8. \E j \in 1..(Total + 1) : Line(j)' = Current(p)'
      <3>1. PICK j \in 1..(Total + 1) : j = Total + 1
        BY <2>1
      <3>2. QED  BY <2>1, <2>3, <3>1
    <2>9. QED  BY <2>1, <2>2, <2>5, <2>6, <2>7, <2>8 DEF LineInv
  <1>3. CASE ~EnqUse(p)
    <2>1. Total \in Nat /\ Total' = Total /\ \A j \in 1..Total : Line(j)' = Line(j)
      BY <1>3, LineMoves
    <2>2. /\ made'[p] >= made[p]
          /\ ppc'[p] \in {"tail", "next", "data", "use"} =>
                ppc[p] \in {"tail", "next", "data", "use"} \/ made'[p] = made[p] + 1
          /\ ppc'[p] \in {"cntread", "cntwrite", "tap"} =>
                ppc[p] \in {"cntread", "cntwrite", "tap"} /\ made'[p] = made[p]
          /\ accepted' \subseteq accepted \cup {Current(p)}
          /\ accepted' # accepted => ppc[p] = "tap"
      <3>1. CASE q_is_full(p)
        BY <1>0, <3>1 DEF q_is_full
      <3>2. CASE EnqTail(p) \/ EnqNext(p) \/ EnqData(p) \/ EnqCountRead(p) \/ EnqCountWrite(p)
        BY <1>0, <3>2 DEF EnqTail, EnqNext, EnqData, EnqCountRead, EnqCountWrite, ProducerGoto
      <3>3. CASE Tap(p)
        BY <1>0, <3>3 DEF Tap, ProducerGoto
      <3>4. CASE Consume \/ PollTimeout \/ UNCHANGED vars
        BY <1>0, <3>4 DEF Consume, Poll, PollTimeout, q_is_empty, TapRead, DeqData, DeqFree,
                          DeqCount, vars
      <3>5. QED  BY <1>3, <3>1, <3>2, <3>3, <3>4 DEF Next, Enqueue
    <2>3. \A j \in 1..Total : /\ Line(j) \in {p} \X (1..made'[p])
                              /\ made'[p] = made[p] + 1 => Line(j)[2] < made'[p]
      <3>1. \A j \in 1..Total : Line(j) = <<Line(j)[1], Line(j)[2]>> /\ Line(j)[1] = p
                                /\ Line(j)[2] \in 1..made[p]
        BY <1>1
      <3>2. \A x \in 1..made[p] : x \in 1..made'[p] /\ (made'[p] = made[p] + 1 => x < made'[p])
        BY <1>0, <2>2
      <3>3. QED  BY <3>1, <3>2
    <2>4. \A j \in 1..Total :
             ppc'[p] \in {"tail", "next", "data", "use"} => Line(j)[2] < made'[p]
      <3>1. \A j \in 1..Total : Line(j)[2] \in Nat
        BY <1>0, <1>1
      <3>2. QED  BY <1>0, <1>1, <2>2, <2>3, <3>1
    <2>5. \A m \in accepted' : \E j \in 1..Total : Line(j) = m
      BY <1>1, <2>2
    <2>6. ppc'[p] \in {"cntread", "cntwrite", "tap"} => \E j \in 1..Total : Line(j) = Current(p)'
      BY <1>1, <2>2 DEF Current
    <2>7. QED  BY <1>1, <2>1, <2>3, <2>4, <2>5, <2>6 DEF LineInv
  <1>4. QED  BY <1>2, <1>3

\* Each message of the line stands in it once.
LEMMA LineKeeps ==
  ASSUME NEW p, Producers = {p}, QueueType, RingInv(p), LineInv(p)
  PROVE  AcceptedIsKept
  <1> DEFINE L == Len(delivered)
             M == Messages \cup {NoMessage}
  <1>1. /\ delivered \in Seq(M) /\ L \in Nat /\ DOMAIN delivered = 1..L
        /\ Front \in Slots /\ head \in Slots /\ p \in Producers
    BY SlotTypes DEF QueueType, TypeOK
  <1>2. /\ Size \in Nat /\ Size > 1 /\ Count \in 0..(Size - 1) /\ Count \in Nat
        /\ Total = L + Count /\ Total \in Nat
    BY <1>1, SizeAssumption DEF RingInv, Total
  <1>3. \A i \in Slots : in_use[Place(Front, i)] <=> i < Count
    BY DEF RingInv
  <1>4. \A i, j \in 1..Total : Line(i) = Line(j) => i = j
    <2>1. /\ \A i, j \in 1..Total : i < j => Line(i)[2] < Line(j)[2]
          /\ \A j \in 1..Total : Line(j)[2] \in Nat
      <3>1. made[p] \in Nat
        BY <1>1, MaxMsgsAssumption DEF QueueType, TypeOK
      <3>2. QED  BY <3>1 DEF LineInv
    <2>2. ASSUME NEW i \in 1..Total, NEW j \in 1..Total, Line(i) = Line(j) PROVE i = j
      <3>1. ~(i < j) /\ ~(j < i)
        BY <2>1, <2>2
      <3>2. QED  BY <1>2, <3>1
    <2>3. QED  BY <2>2
  <1>5. \A s \in Slots : \E i \in Slots : Place(Front, i) = s
    BY <1>1, Places
  <1>6. \A i \in Slots : Place(Front, i) \in Slots
    BY <1>1, AllPlaces
  <1>7. \A i, j \in Slots : Place(Front, i) = Place(Front, j) => i = j
    BY <1>1, AllPlaces
  <1>8. cpc = "count" => ~in_use[head]
    <2>1. SUFFICES ASSUME cpc = "count" PROVE ~in_use[head]
      OBVIOUS
    <2>2. Place(Front, Size - 1) = head
      BY <1>1, <2>1, AllPlaces DEF Front
    <2>3. Size - 1 \in Slots /\ ~(Size - 1 < Count)
      BY <1>2 DEF Slots
    <2>4. QED  BY <1>3, <2>2, <2>3
  <1> HIDE DEF M
  <1>9. SUFFICES ASSUME NEW m \in accepted
                 PROVE  Cardinality({i \in DOMAIN delivered : delivered[i] = m})
                        + Cardinality({i \in Slots : in_use[i] /\ d[i] = m
                                                     /\ ~(cpc = "count" /\ i = head)}) = 1
    BY DEF AcceptedIsKept
  <1> DEFINE A == {i \in DOMAIN delivered : delivered[i] = m}
             B == {i \in Slots : in_use[i] /\ d[i] = m /\ ~(cpc = "count" /\ i = head)}
  <1>10. PICK k \in 1..Total : Line(k) = m
    BY DEF LineInv
  <1>11. \A i \in A : i = k /\ k <= L
    <2>1. ASSUME NEW i \in A PROVE i = k /\ k <= L
      <3>1. i \in 1..Total /\ i <= L /\ delivered[i] = m
        BY <1>1, <1>2
      <3>2. Line(i) = m
        BY <3>1 DEF Line
      <3>3. QED  BY <1>4, <1>10, <3>1, <3>2
    <2>2. QED  BY <2>1
  <1>12. \A s \in B : k > L /\ s = Place(Front, k - L - 1)
    <2>1. ASSUME NEW s \in B PROVE k > L /\ s = Place(Front, k - L - 1)
      <3>1. PICK i \in Slots : Place(Front, i) = s
        BY <1>5
      <3>2. i < Count /\ i \in Nat
        BY <1>2, <1>3, <3>1 DEF Slots
      <3>3. PICK j \in 1..Total : j = L + i + 1
        BY <1>1, <1>2, <3>2
      <3>4. ~(j <= L) /\ j > L /\ j - L - 1 = i
        BY <1>1, <3>2, <3>3
      <3>5. Line(j) = d[Place(Front, j - L - 1)]
        BY <3>4 DEF Line
      <3>6. Line(j) = m
        BY <3>1, <3>4, <3>5
      <3>7. k = j
        BY <1>4, <1>10, <3>6
      <3>8. QED  BY <3>1, <3>4, <3>7
    <2>2. QED  BY <2>1
  <1>13. CASE k <= L
    <2>1. k \in A
      BY <1>1, <1>2, <1>10, <1>13 DEF Line
    <2>2. A = {k}
      BY <1>11, <2>1
    <2>3. B = {}
      BY <1>1, <1>2, <1>12, <1>13
    <2> HIDE DEF A, B
    <2>4. Cardinality(A) = 1 /\ Cardinality(B) = 0
      BY <2>2, <2>3, FS_Singleton, FS_EmptySet
    <2>5. QED  BY <2>4 DEF A, B
  <1>14. CASE k > L
    <2> DEFINE s == Place(Front, k - L - 1)
    <2>1. k - L - 1 \in Slots /\ k - L - 1 < Count /\ ~(k <= L)
      BY <1>1, <1>2, <1>14 DEF Slots
    <2>2. s \in Slots /\ in_use[s] /\ d[s] = m
      BY <1>3, <1>6, <1>10, <2>1 DEF Line
    <2>3. s \in B
      BY <1>8, <2>2
    <2>4. B = {s}
      BY <1>12, <2>3
    <2>5. A = {}
      BY <1>1, <1>2, <1>11, <2>1
    <2> HIDE DEF A, B, s
    <2>6. Cardinality(A) = 0 /\ Cardinality(B) = 1
      BY <2>4, <2>5, FS_Singleton, FS_EmptySet
    <2>7. QED  BY <2>6 DEF A, B
  <1>15. QED  BY <1>1, <1>2, <1>13, <1>14

\* A message for which enqueue returned 0 is in the ring until the consumer
\* has it, and the consumer gets it once.
THEOREM OneProducerKeepsMessages ==
  ASSUME NEW p, Producers = {p}
  PROVE  Spec => []AcceptedIsKept
  <1> DEFINE J == QueueType /\ RingInv(p) /\ LineInv(p)
  <1>1. Init => J
    BY QueueTypeInit, RingInit, LineInit
  <1>2. J /\ [Next]_vars => J'
    BY QueueTypeStep, RingStep, LineStep
  <1>3. J => AcceptedIsKept
    BY LineKeeps
  <1>4. QED  BY <1>1, <1>2, <1>3, PTL DEF Spec
=============================================================================
