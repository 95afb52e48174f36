------------------------------ MODULE MsgQueue ------------------------------
(***************************************************************************)
(* The message queue between the FABRIC and the CASSI threads: PLATFORM    *)
(* .../cxx/io/MsgQueue.h, a ring of THIRDPARTY/q/q.c with an eventfd that  *)
(* wakes the consumer.  Producers run FabricCassiMessageQueue::enqueue,    *)
(* the consumer runs poll() and consumeWorkItems (or cassiPoller and the   *)
(* loop of FabricCassiMessageQueue::run).                                  *)
(*                                                                         *)
(* There is no lock: every access to the ring, its counters and the        *)
(* eventfd is an action of its own, in program order (the build's x86      *)
(* memory model keeps the stores of one thread in order).  The counters    *)
(* are unsigned words that wrap; Wrap stands for 2^32.                     *)
(***************************************************************************)
EXTENDS Naturals, Sequences, FiniteSets

CONSTANTS Producers,  \* threads that enqueue
          Size,       \* q_size, a power of two
          Wrap,       \* modulus of the counters, a multiple of Size
          MaxMsgs     \* bound: enqueue calls per producer

ASSUME SizeAssumption == Size \in Nat /\ Size > 1
ASSUME WrapAssumption == Wrap \in Nat \ {0} /\ Wrap % Size = 0
ASSUME MaxMsgsAssumption == MaxMsgs \in Nat

VARIABLES
    d, in_use,    \* q_msg_s, per slot
    enq_cnt, deq_cnt,
    m_iEventFd,   \* the eventfd's counter
    ppc,          \* where each producer is
    tail,         \* q_enq's local copy of the tail
    cnt,          \* enq_cnt as read by enq_cnt++
    made,         \* enqueue calls per producer
    threw,        \* "Issues with queueing the message."
    accepted,     \* messages for which enqueue returned 0
    cpc,          \* where the consumer is
    item,         \* rtn_m
    delivered     \* messages the consumer got, in order

ring     == <<d, in_use, enq_cnt, deq_cnt>>
producer == <<ppc, tail, cnt, made, threw, accepted>>
consumer == <<cpc, item, delivered>>
vars     == <<ring, m_iEventFd, producer, consumer>>

Slots == 0..(Size - 1)

\* A producer's n-th message.
Messages == Producers \X (1..MaxMsgs)

NoMessage == <<>>

Current(p) == <<p, made[p]>>

After(slot) == (slot + 1) % Size

Init ==
    /\ d = [i \in Slots |-> NoMessage]
    /\ in_use = [i \in Slots |-> FALSE]
    /\ enq_cnt = 0 /\ deq_cnt = 0
    /\ m_iEventFd = 0
    /\ ppc = [p \in Producers |-> "idle"]
    /\ tail = [p \in Producers |-> 0]
    /\ cnt = [p \in Producers |-> 0]
    /\ made = [p \in Producers |-> 0]
    /\ threw = FALSE
    /\ accepted = {}
    /\ cpc = "poll"
    /\ item = NoMessage
    /\ delivered = <<>>

ProducerGoto(p, from, to) == ppc[p] = from /\ ppc' = [ppc EXCEPT ![p] = to]

-----------------------------------------------------------------------------
(* Producers *)

\* Mutant: enqueue does not ask isFull() first.
q_is_fullSkipped(p) ==
    /\ ppc[p] = "idle" /\ made[p] < MaxMsgs
    /\ made' = [made EXCEPT ![p] = @ + 1]
    /\ ppc' = [ppc EXCEPT ![p] = "tail"]
    /\ UNCHANGED <<ring, m_iEventFd, tail, cnt, threw, accepted, consumer>>

\* isFull(): with the next slot in use enqueue returns -1 and the message is
\* the caller's again.
q_is_full(p) ==
    /\ ppc[p] = "idle" /\ made[p] < MaxMsgs
    /\ made' = [made EXCEPT ![p] = @ + 1]
    /\ ppc' = [ppc EXCEPT ![p] =
                  IF in_use[After(enq_cnt % Size)] THEN "idle" ELSE "tail"]
    /\ UNCHANGED <<ring, m_iEventFd, tail, cnt, threw, accepted, consumer>>

\* q_enq reads the tail ...
EnqTail(p) ==
    /\ ProducerGoto(p, "tail", "next")
    /\ tail' = [tail EXCEPT ![p] = enq_cnt % Size]
    /\ UNCHANGED <<ring, m_iEventFd, cnt, made, threw, accepted, consumer>>

\* ... looks at the slot after it (QERR_FULL makes MsgQueue::enqueue throw) ...
EnqNext(p) ==
    /\ IF in_use[After(tail[p])]
       THEN ProducerGoto(p, "next", "idle") /\ threw' = TRUE
       ELSE ProducerGoto(p, "next", "data") /\ UNCHANGED threw
    /\ UNCHANGED <<ring, m_iEventFd, tail, cnt, made, accepted, consumer>>

\* ... stores the message ...
EnqData(p) ==
    /\ ProducerGoto(p, "data", "use")
    /\ d' = [d EXCEPT ![tail[p]] = Current(p)]
    /\ UNCHANGED <<in_use, enq_cnt, deq_cnt, m_iEventFd, tail, cnt, made, threw,
                   accepted, consumer>>

\* ... publishes the slot ...
EnqUse(p) ==
    /\ ProducerGoto(p, "use", "cntread")
    /\ in_use' = [in_use EXCEPT ![tail[p]] = TRUE]
    /\ UNCHANGED <<d, enq_cnt, deq_cnt, m_iEventFd, tail, cnt, made, threw,
                   accepted, consumer>>

\* ... and counts it with a plain increment: a load and a store.
EnqCountRead(p) ==
    /\ ProducerGoto(p, "cntread", "cntwrite")
    /\ cnt' = [cnt EXCEPT ![p] = enq_cnt]
    /\ UNCHANGED <<ring, m_iEventFd, tail, made, threw, accepted, consumer>>

\* Mutant: the increment is lost.
EnqCountWriteLost(p) ==
    /\ ProducerGoto(p, "cntwrite", "tap")
    /\ enq_cnt' = cnt[p]
    /\ UNCHANGED <<d, in_use, deq_cnt, m_iEventFd, tail, cnt, made, threw,
                   accepted, consumer>>

EnqCountWrite(p) ==
    /\ ProducerGoto(p, "cntwrite", "tap")
    /\ enq_cnt' = (cnt[p] + 1) % Wrap
    /\ UNCHANGED <<d, in_use, deq_cnt, m_iEventFd, tail, cnt, made, threw,
                   accepted, consumer>>

\* write(m_iEventFd, 1), and enqueue returns 0.
Tap(p) ==
    /\ ProducerGoto(p, "tap", "idle")
    /\ m_iEventFd' = m_iEventFd + 1
    /\ accepted' = accepted \cup {Current(p)}
    /\ UNCHANGED <<ring, tail, cnt, made, threw, consumer>>

-----------------------------------------------------------------------------
(* The consumer *)

head == deq_cnt % Size

ConsumerGoto(from, to) == cpc = from /\ cpc' = to

\* poll()/epoll_wait(): a readable eventfd starts the consumer ...
Poll ==
    /\ m_iEventFd > 0
    /\ ConsumerGoto("poll", "check")
    /\ UNCHANGED <<ring, m_iEventFd, producer, item, delivered>>

\* ... and CASSI's poller looks at the queue too when its wait times out.
PollTimeout ==
    /\ m_iEventFd = 0
    /\ ConsumerGoto("poll", "check")
    /\ UNCHANGED <<ring, m_iEventFd, producer, item, delivered>>

\* fabricHasWork()/isEmpty() at the top of the loop.
q_is_empty ==
    /\ ConsumerGoto("check", IF in_use[head] THEN "tapread" ELSE "poll")
    /\ UNCHANGED <<ring, m_iEventFd, producer, item, delivered>>

\* MsgQueue::dequeue first reads the eventfd, which sets it to zero.
TapRead ==
    /\ ConsumerGoto("tapread", "deq")
    /\ m_iEventFd' = 0
    /\ UNCHANGED <<ring, producer, item, delivered>>

\* Mutant: the slot is freed before its message is handed out.
DeqDataFrees ==
    /\ ConsumerGoto("deq", "free")
    /\ item' = d[head]
    /\ in_use' = [in_use EXCEPT ![head] = FALSE]
    /\ UNCHANGED <<d, enq_cnt, deq_cnt, m_iEventFd, producer, delivered>>

\* Mutant: one message per wake-up.
DeqCountOne ==
    /\ ConsumerGoto("count", "poll")
    /\ deq_cnt' = (deq_cnt + 1) % Wrap
    /\ UNCHANGED <<d, in_use, enq_cnt, m_iEventFd, producer, item, delivered>>

\* q_deq: the message, then the slot, then the counter.
DeqData ==
    /\ ConsumerGoto("deq", "free")
    /\ item' = d[head]
    /\ UNCHANGED <<ring, m_iEventFd, producer, delivered>>

DeqFree ==
    /\ ConsumerGoto("free", "count")
    /\ in_use' = [in_use EXCEPT ![head] = FALSE]
    /\ delivered' = Append(delivered, item)
    /\ UNCHANGED <<d, enq_cnt, deq_cnt, m_iEventFd, producer, item>>

DeqCount ==
    /\ ConsumerGoto("count", "check")
    /\ deq_cnt' = (deq_cnt + 1) % Wrap
    /\ UNCHANGED <<d, in_use, enq_cnt, m_iEventFd, producer, item, delivered>>

-----------------------------------------------------------------------------
\* The steps of an enqueue that has begun.
Enqueue(p) ==
    \/ EnqTail(p) \/ EnqNext(p) \/ EnqData(p) \/ EnqUse(p)
    \/ EnqCountRead(p) \/ EnqCountWrite(p) \/ Tap(p)

Consume == Poll \/ q_is_empty \/ TapRead \/ DeqData \/ DeqFree \/ DeqCount

Next == Consume \/ PollTimeout \/ \E p \in Producers : q_is_full(p) \/ Enqueue(p)

Spec == Init /\ [][Next]_vars

\* Threads that have something to do are scheduled; nobody has to enqueue, and
\* no wait has to time out.
FairSpec ==
    /\ Spec
    /\ WF_vars(Consume)
    /\ \A p \in Producers : WF_vars(Enqueue(p))

-----------------------------------------------------------------------------
(* Properties *)

\* Types: the counters of the ring (q_enq, q_deq) stay within their word.
TypeOK ==
    /\ d \in [Slots -> Messages \cup {NoMessage}]
    /\ in_use \in [Slots -> BOOLEAN]
    /\ enq_cnt \in 0..(Wrap - 1) /\ deq_cnt \in 0..(Wrap - 1)
    /\ m_iEventFd \in Nat
    /\ ppc \in [Producers -> {"idle", "tail", "next", "data", "use",
                              "cntread", "cntwrite", "tap"}]
    /\ tail \in [Producers -> Slots]
    /\ cnt \in [Producers -> 0..(Wrap - 1)]
    /\ made \in [Producers -> 0..MaxMsgs]
    /\ threw \in BOOLEAN
    /\ accepted \subseteq Messages
    /\ cpc \in {"poll", "check", "tapread", "deq", "free", "count"}
    /\ item \in Messages \cup {NoMessage}
    /\ delivered \in Seq(Messages \cup {NoMessage})

\* The slots in use from the head on, oldest first; after DeqFree the head is
\* already the next slot.
Front == IF cpc = "count" THEN After(head) ELSE head

Pending ==
    LET n == Cardinality({i \in Slots : in_use[i]})
    IN  [i \in 1..n |-> d[(Front + i - 1) % Size]]

\* A MsgQueue with one producer and one consumer is a bounded FIFO queue that
\* holds Size - 1 messages, through every wrap of its counters.
Fifo == INSTANCE MsgFifo WITH queue <- Pending, Capacity <- Size - 1

FifoSpec == Fifo!Spec

\* MsgQueue::enqueue never throws: a slot found free by isFull() is still free
\* when q_enq looks again.
NoEnqueueException == ~threw

\* A consumer that waits is woken: when it sits in poll() with a message in
\* the ring, the eventfd is readable or the producer is still to write it,
\* although every dequeue clears the whole count of the eventfd.
NoLostWakeup ==
    cpc = "poll" /\ in_use[head] =>
        m_iEventFd > 0 \/ \E p \in Producers : ppc[p] \in {"cntread", "cntwrite", "tap"}

\* A message that enqueue accepted is in the ring until it is delivered, and is
\* delivered once.
AcceptedIsKept ==
    \A m \in accepted :
        Cardinality({i \in DOMAIN delivered : delivered[i] = m})
          + Cardinality({i \in Slots : in_use[i] /\ d[i] = m /\ ~(cpc = "count" /\ i = head)}) = 1

\* Every accepted message is delivered, to a consumer that only the eventfd is
\* sure to wake.
AcceptedIsDelivered ==
    \A m \in Producers \X (1..MaxMsgs) :
        m \in accepted ~> \E i \in DOMAIN delivered : delivered[i] = m
=============================================================================
