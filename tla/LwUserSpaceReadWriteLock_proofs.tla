------------------ MODULE LwUserSpaceReadWriteLock_proofs ------------------
(***************************************************************************)
(* The one-word reader/writer lock excludes writers and accounts for its   *)
(* slots, for every finite set of threads and every width of the word.     *)
(*                                                                         *)
(* MutualExclusion is not inductive: that no reader is inside beside a     *)
(* writer follows from the count of slots, so the argument is an           *)
(* arithmetical one.  Inv adds to SlotsAccounted that a writing thread     *)
(* took all MAX slots, that a thread about to compare-and-swap sampled a   *)
(* word with a free slot, and that a thread that gave its slots back holds *)
(* none.  MAX = Cardinality(Readers) + MAX then leaves no reader.          *)
(*                                                                         *)
(* The same invariant leaves no circle of waits (NoCircularWait), and a    *)
(* writer waits only for readers that were past the flag before it         *)
(* (WriterKeepsItsPlace).                                                  *)
(***************************************************************************)
EXTENDS LwUserSpaceReadWriteLock, FiniteSetTheorems, TLAPS

Inv ==
    /\ TypeOK
    /\ SlotsAccounted
    /\ \A t \in Threads :
          /\ pc[t] = "writing" => consumed[t] = MAX
          /\ pc[t] = "w_clear" => consumed[t] = 0
          /\ pc[t] = "r_cas" => sample[t].count < MAX

-----------------------------------------------------------------------------
(* Counting the readers *)

\* The readers are finitely many, so that their number is a natural number.
LEMMA ReadersFinite ==
    /\ IsFiniteSet(Readers)
    /\ Cardinality(Readers) \in Nat
    /\ Cardinality(Readers) = 0 <=> Readers = {}
PROOF
<1>1. Readers \subseteq Threads
  BY DEF Readers
<1>2. IsFiniteSet(Readers)
  BY <1>1, FS_Subset, ThreadsAssumption
<1> QED
  BY <1>2, FS_CardinalityType, FS_EmptySet

\* A thread that enters its read section adds one to the number of readers.
LEMMA ReaderEnters ==
    ASSUME NEW t \in Threads, pc \in [Threads -> PCs], pc[t] # "reading",
           pc' = [pc EXCEPT ![t] = "reading"]
    PROVE  Cardinality(Readers') = Cardinality(Readers) + 1
PROOF
<1>1. Readers' = Readers \cup {t}
  BY DEF Readers
<1>2. t \notin Readers
  BY DEF Readers
<1> QED
  BY <1>1, <1>2, ReadersFinite, FS_AddElement

\* A thread that leaves its read section takes one from the number of readers.
LEMMA ReaderLeaves ==
    ASSUME NEW t \in Threads, pc \in [Threads -> PCs], pc[t] = "reading",
           NEW l \in PCs, l # "reading", pc' = [pc EXCEPT ![t] = l]
    PROVE  Cardinality(Readers') = Cardinality(Readers) - 1
PROOF
<1>1. Readers' = Readers \ {t}
  BY DEF Readers
<1>2. t \in Readers
  BY DEF Readers
<1> QED
  BY <1>1, <1>2, ReadersFinite, FS_RemoveElement

\* Any other move of a thread leaves the set of readers alone.
LEMMA ReadersUnchanged ==
    ASSUME NEW t \in Threads, pc \in [Threads -> PCs], pc[t] # "reading",
           NEW l \in PCs, l # "reading", pc' = [pc EXCEPT ![t] = l]
    PROVE  Readers' = Readers
PROOF
  BY DEF Readers

-----------------------------------------------------------------------------
(* The inductive step, one lemma per group of actions *)

\* The initial word counts no reader and no writer.
LEMMA InitInv == Init => Inv
PROOF
<1> SUFFICES ASSUME Init PROVE Inv
  OBVIOUS
<1>1. TypeOK
  BY MAXAssumption DEF Init, NoSample, TypeOK, Word, PCs, Ops
<1>2. Readers = {} /\ WriteProtocol = {}
  BY DEF Init, Readers, WriteProtocol
<1>3. SlotsAccounted
  BY <1>2, ReadersFinite DEF Init, SlotsAccounted
<1> QED
  BY <1>1, <1>3 DEF Init, Inv

\* Slots are counted with the same natural numbers before and after a step.
LEMMA CountType ==
    ASSUME TypeOK
    PROVE  /\ m_readers.count \in 0..MAX /\ m_readers.requested \in BOOLEAN
           /\ \A t \in Threads : consumed[t] \in 0..MAX
           /\ \A t \in Threads : sample[t].count \in 0..MAX
           /\ \A t \in Threads : sample[t].requested \in BOOLEAN
           /\ m_readers = [count |-> m_readers.count, requested |-> m_readers.requested]
PROOF
  BY DEF TypeOK, Word

\* decReaders neither wraps nor touches the flag when the slots are there.
LEMMA DecReaders ==
    ASSUME TypeOK, NEW n \in Nat, n <= m_readers.count
    PROVE  decReaders(n) = [count |-> m_readers.count - n,
                            requested |-> m_readers.requested]
PROOF
<1>1. m_readers.count \in 0..MAX /\ MAX \in Nat
  BY CountType, MAXAssumption
<1> DEFINE d == m_readers.count - n
<1>2. d \in 0..MAX /\ m_readers.count + (MAX + 1) - n = d + (MAX + 1)
  BY <1>1
<1>3. (d + (MAX + 1)) % (MAX + 1) = d
  BY <1>1, <1>2
<1> QED
  BY <1>2, <1>3, CountType DEF decReaders

\* A compare-and-swap ends the life of its thread's sample and of no other.
LEMMA SampleForgotten ==
    ASSUME TypeOK, NEW t \in Threads, SampleUsed(t)
    PROVE  /\ sample' \in [Threads -> Word]
           /\ \A s \in Threads : s # t => sample'[s] = sample[s]
PROOF
<1>1. NoSample \in Word
  BY MAXAssumption DEF NoSample, Word
<1> QED
  BY <1>1 DEF SampleUsed, TypeOK

\* Every step of a reader keeps Inv.  A reader takes a slot only by a
\* compare-and-swap on the word it sampled, so the count it found is current.
LEMMA ReaderStep ==
    ASSUME Inv, NEW t \in Threads,
           \/ StartRead(t) \/ CheckRequested(t) \/ ConsumeOneSample(t)
           \/ ConsumeOneCas(t) \/ readUnlock(t)
    PROVE  Inv'
PROOF
<1> USE MAXAssumption DEF Inv, Goto
<1>0. pc \in [Threads -> PCs]
  BY DEF TypeOK
<1>1. CASE StartRead(t)
  <2>1. TypeOK'
    BY <1>1 DEF StartRead, TypeOK, PCs, Ops
  <2>2. Readers' = Readers /\ WriteProtocol' = WriteProtocol
    BY <1>0, <1>1 DEF StartRead, Readers, WriteProtocol
  <2> QED
    BY <1>0, <1>1, <2>1, <2>2 DEF StartRead, SlotsAccounted
<1>2. CASE CheckRequested(t)
  <2>1. TypeOK'
    BY <1>2 DEF CheckRequested, TypeOK, PCs
  <2>2. Readers' = Readers /\ WriteProtocol' = WriteProtocol
    BY <1>0, <1>2 DEF CheckRequested, Readers, WriteProtocol
  <2> QED
    BY <1>0, <1>2, <2>1, <2>2 DEF CheckRequested, SlotsAccounted
<1>3. CASE ConsumeOneSample(t)
  <2>1. TypeOK'
    BY <1>3 DEF ConsumeOneSample, Sampled, TypeOK, PCs
  <2>2. Readers' = Readers /\ WriteProtocol' = WriteProtocol
    BY <1>0, <1>3 DEF ConsumeOneSample, Readers, WriteProtocol
  <2>3. sample'[t].count < MAX \/ pc'[t] # "r_cas"
    BY <1>0, <1>3 DEF ConsumeOneSample, Sampled, TypeOK
  <2>4. \A s \in Threads : s # t => sample'[s] = sample[s] /\ pc'[s] = pc[s]
    BY <1>0, <1>3 DEF ConsumeOneSample, Sampled, TypeOK
  <2>5. pc'[t] # "writing" /\ pc'[t] # "w_clear"
    BY <1>0, <1>3 DEF ConsumeOneSample
  <2> QED
    BY <1>3, <2>1, <2>2, <2>3, <2>4, <2>5 DEF ConsumeOneSample, SlotsAccounted
<1>4. CASE ConsumeOneCas(t)
  <2>0. /\ sample' \in [Threads -> Word]
        /\ \A s \in Threads : s # t => sample'[s] = sample[s]
    BY <1>4, SampleForgotten DEF ConsumeOneCas
  <2>1. CASE CasSucceeds(t)
    <3>1. /\ m_readers' = [m_readers EXCEPT !.count = m_readers.count + 1]
          /\ m_readers.count < MAX
          /\ pc[t] = "r_cas" /\ pc' = [pc EXCEPT ![t] = "reading"]
          /\ SampleUsed(t)
          /\ UNCHANGED <<op, consumed>>
      BY <1>4, <2>1 DEF ConsumeOneCas, CasSucceeds
    <3>2. TypeOK'
      <4>1. m_readers' \in Word
        BY <3>1, CountType DEF TypeOK, Word
      <4> QED
        BY <2>0, <3>1, <4>1 DEF TypeOK, PCs
    <3>3. Cardinality(Readers') = Cardinality(Readers) + 1
      BY <1>0, <3>1, ReaderEnters
    <3>4. WriteProtocol' = WriteProtocol
      BY <1>0, <3>1 DEF WriteProtocol
    <3>5. m_readers'.count = m_readers.count + 1 /\ m_readers'.requested = m_readers.requested
      BY <3>1, CountType
    <3>6. SlotsAccounted'
      BY <3>1, <3>3, <3>4, <3>5, CountType, ReadersFinite DEF SlotsAccounted, WriteProtocol
    <3> QED
      BY <1>0, <2>0, <3>1, <3>2, <3>6
  <2>2. CASE ~CasSucceeds(t)
    <3>1. TypeOK'
      BY <1>4, <2>0, <2>2 DEF ConsumeOneCas, TypeOK, PCs
    <3>2. Readers' = Readers /\ WriteProtocol' = WriteProtocol
      BY <1>0, <1>4, <2>2 DEF ConsumeOneCas, Readers, WriteProtocol
    <3> QED
      BY <1>0, <1>4, <2>0, <2>2, <3>1, <3>2 DEF ConsumeOneCas, SlotsAccounted
  <2> QED
    BY <2>1, <2>2
<1>5. CASE readUnlock(t)
  <2>1. t \in Readers
    BY <1>5 DEF readUnlock, Readers
  <2>2. 1 <= m_readers.count
    <3>1. Cardinality(Readers) >= 1
      BY <2>1, ReadersFinite
    <3> QED
      BY <3>1, ReadersFinite, CountType DEF SlotsAccounted, WriteProtocol
  <2>3. m_readers' = [count |-> m_readers.count - 1, requested |-> m_readers.requested]
    BY <1>5, <2>2, DecReaders DEF readUnlock
  <2>4. TypeOK'
    BY <1>5, <2>2, <2>3, CountType DEF readUnlock, TypeOK, Word, PCs
  <2>5. Cardinality(Readers') = Cardinality(Readers) - 1
    BY <1>0, <1>5, ReaderLeaves DEF readUnlock, PCs
  <2>6. WriteProtocol' = WriteProtocol
    BY <1>0, <1>5 DEF readUnlock, WriteProtocol
  <2>7. SlotsAccounted'
    BY <1>5, <2>3, <2>5, <2>6, CountType, ReadersFinite DEF SlotsAccounted, readUnlock, WriteProtocol
  <2> QED
    BY <1>0, <1>5, <2>4, <2>7 DEF readUnlock
<1> QED
  BY <1>1, <1>2, <1>3, <1>4, <1>5

\* The steps of a thread that asks for the write lock and takes the slots.
\* Only the thread that finds the flag clear enters the protocol, so the slots
\* it takes are in the account of one thread.
LEMMA WriterTakes ==
    ASSUME Inv, NEW t \in Threads,
           \/ StartWrite(t) \/ SetWriteRequested(t) \/ ConsumeRemainingSample(t)
           \/ ConsumeRemainingCas(t) \/ CheckConsumed(t)
    PROVE  Inv'
PROOF
<1> USE MAXAssumption DEF Inv, Goto
<1>0. pc \in [Threads -> PCs]
  BY DEF TypeOK
<1>1. CASE StartWrite(t)
  <2>1. TypeOK'
    BY <1>1 DEF StartWrite, TypeOK, PCs, Ops
  <2>2. Readers' = Readers /\ WriteProtocol' = WriteProtocol
    BY <1>0, <1>1 DEF StartWrite, Readers, WriteProtocol
  <2>3. consumed' = consumed
    BY <1>1 DEF StartWrite, SlotsAccounted, WriteProtocol, TypeOK
  <2> QED
    BY <1>0, <1>1, <2>1, <2>2, <2>3 DEF StartWrite, SlotsAccounted
<1>2. CASE SetWriteRequested(t)
  <2>1. CASE m_readers.requested
    <3>1. TypeOK'
      BY <1>2, <2>1 DEF SetWriteRequested, TypeOK, PCs
    <3>2. Readers' = Readers /\ WriteProtocol' = WriteProtocol
      BY <1>0, <1>2, <2>1 DEF SetWriteRequested, Readers, WriteProtocol
    <3> QED
      BY <1>0, <1>2, <2>1, <3>1, <3>2 DEF SetWriteRequested, SlotsAccounted
  <2>2. CASE ~m_readers.requested
    <3>1. /\ m_readers' = [m_readers EXCEPT !.requested = TRUE]
          /\ pc[t] = "w_request" /\ pc' = [pc EXCEPT ![t] = "w_sample"]
          /\ UNCHANGED <<op, sample, consumed>>
      BY <1>2, <2>2 DEF SetWriteRequested
    <3>2. TypeOK'
      BY <3>1 DEF TypeOK, Word, PCs
    <3>3. Readers' = Readers /\ WriteProtocol' = {t} /\ WriteProtocol = {}
      BY <1>0, <2>2, <3>1 DEF Readers, WriteProtocol, SlotsAccounted
    <3>4. m_readers'.count = m_readers.count /\ m_readers'.requested
      BY <3>1, CountType
    <3>5. SlotsAccounted'
      BY <3>1, <3>3, <3>4, CountType, ReadersFinite DEF SlotsAccounted
    <3> QED
      BY <1>0, <3>1, <3>2, <3>5
  <2> QED
    BY <2>1, <2>2
<1>3. CASE ConsumeRemainingSample(t)
  <2>1. TypeOK'
    BY <1>3 DEF ConsumeRemainingSample, Sampled, TypeOK, PCs
  <2>2. Readers' = Readers /\ WriteProtocol' = WriteProtocol
    BY <1>0, <1>3 DEF ConsumeRemainingSample, Readers, WriteProtocol
  <2>3. \A s \in Threads : s # t => sample'[s] = sample[s] /\ pc'[s] = pc[s]
    BY <1>0, <1>3 DEF ConsumeRemainingSample, Sampled, TypeOK
  <2>4. pc'[t] = "w_cas"
    BY <1>0, <1>3 DEF ConsumeRemainingSample
  <2> QED
    BY <1>3, <2>1, <2>2, <2>3, <2>4 DEF ConsumeRemainingSample, SlotsAccounted
<1>4. CASE ConsumeRemainingCas(t)
  <2>0. t \in WriteProtocol /\ Readers' = Readers /\ WriteProtocol' = WriteProtocol
    BY <1>0, <1>4 DEF ConsumeRemainingCas, Readers, WriteProtocol
  <2>3. /\ sample' \in [Threads -> Word]
        /\ \A s \in Threads : s # t => sample'[s] = sample[s]
    BY <1>4, SampleForgotten DEF ConsumeRemainingCas
  <2>1. CASE CasSucceeds(t)
    <3>1. /\ m_readers' = [m_readers EXCEPT !.count = MAX]
          /\ consumed' = [consumed EXCEPT ![t] = @ + (MAX - m_readers.count)]
          /\ pc[t] = "w_cas" /\ pc' = [pc EXCEPT ![t] = "w_check"]
          /\ UNCHANGED op
      BY <1>4, <2>1 DEF ConsumeRemainingCas, CasSucceeds
    <3>2. m_readers.count = Cardinality(Readers) + consumed[t]
      BY <2>0 DEF SlotsAccounted
    <3>3. consumed'[t] = MAX - Cardinality(Readers) /\ consumed'[t] \in 0..MAX
      BY <3>1, <3>2, CountType, ReadersFinite DEF TypeOK
    <3>4. m_readers'.count = MAX /\ m_readers'.requested = m_readers.requested
      BY <3>1, CountType
    <3>5. \A s \in Threads : s # t => consumed'[s] = consumed[s]
      BY <3>1 DEF TypeOK
    <3>6. TypeOK'
      BY <2>3, <3>1, <3>3 DEF TypeOK, Word, PCs
    <3>7. SlotsAccounted'
      BY <2>0, <3>3, <3>4, <3>5, CountType, ReadersFinite DEF SlotsAccounted
    <3>8. \A s \in Threads : s # t => pc'[s] = pc[s] /\ sample'[s] = sample[s]
      BY <1>0, <2>3, <3>1
    <3>9. pc'[t] = "w_check"
      BY <1>0, <3>1
    <3> QED
      BY <3>5, <3>6, <3>7, <3>8, <3>9
  <2>2. CASE ~CasSucceeds(t)
    <3>1. TypeOK'
      BY <1>4, <2>2, <2>3 DEF ConsumeRemainingCas, TypeOK, PCs
    <3> QED
      BY <1>0, <1>4, <2>0, <2>2, <2>3, <3>1 DEF ConsumeRemainingCas, SlotsAccounted
  <2> QED
    BY <2>1, <2>2
<1>5. CASE CheckConsumed(t)
  <2>1. TypeOK'
    BY <1>5 DEF CheckConsumed, TypeOK, PCs
  <2>2. Readers' = Readers /\ WriteProtocol' = WriteProtocol
    BY <1>0, <1>5 DEF CheckConsumed, Readers, WriteProtocol
  <2> QED
    BY <1>0, <1>5, <2>1, <2>2 DEF CheckConsumed, SlotsAccounted
<1> QED
  BY <1>1, <1>2, <1>3, <1>4, <1>5

\* The steps of a thread that ends the write protocol, with or without the
\* lock: it gives back exactly the slots of its account.
LEMMA WriterLeaves ==
    ASSUME Inv, NEW t \in Threads,
           GiveBack(t) \/ ClearWriteRequested(t) \/ writeUnlock(t) \/ demote(t)
    PROVE  Inv'
PROOF
<1> USE MAXAssumption DEF Inv, Goto
<1>0. pc \in [Threads -> PCs] /\ t \in WriteProtocol /\ t \notin Readers
  BY DEF TypeOK, GiveBack, ClearWriteRequested, writeUnlock, demote, WriteProtocol, Readers
<1>1. /\ WriteProtocol = {t}
      /\ m_readers.requested
      /\ m_readers.count = Cardinality(Readers) + consumed[t]
      /\ \A s \in Threads : s # t => consumed[s] = 0
  BY <1>0 DEF SlotsAccounted
<1>2. CASE GiveBack(t)
  <2>1. m_readers' = [count |-> m_readers.count - consumed[t],
                      requested |-> m_readers.requested]
    <3>1. consumed[t] \in Nat /\ consumed[t] <= m_readers.count
      BY <1>1, CountType, ReadersFinite
    <3>2. decReaders(consumed[t]) = [count |-> m_readers.count - consumed[t],
                                     requested |-> m_readers.requested]
      BY <3>1, DecReaders
    <3> QED
      BY <1>2, <3>2 DEF GiveBack
  <2>2. m_readers'.count = Cardinality(Readers) /\ m_readers'.requested
    BY <1>1, <2>1, CountType, ReadersFinite
  <2>3. TypeOK'
    <3>1. m_readers.count - consumed[t] \in 0..MAX
      BY <1>1, CountType, ReadersFinite
    <3> QED
      BY <1>2, <2>1, <3>1, CountType DEF GiveBack, TypeOK, Word, PCs
  <2>4. Readers' = Readers /\ WriteProtocol' = WriteProtocol
    BY <1>0, <1>2 DEF GiveBack, Readers, WriteProtocol
  <2>5. consumed'[t] = 0 /\ \A s \in Threads : s # t => consumed'[s] = consumed[s]
    BY <1>2 DEF GiveBack, TypeOK
  <2>6. SlotsAccounted'
    BY <1>1, <2>2, <2>4, <2>5, ReadersFinite DEF SlotsAccounted
  <2>7. pc'[t] = "w_clear" /\ \A s \in Threads : s # t => pc'[s] = pc[s]
    BY <1>0, <1>2 DEF GiveBack
  <2> QED
    BY <1>2, <2>3, <2>5, <2>6, <2>7 DEF GiveBack
<1>3. CASE ClearWriteRequested(t)
  <2>1. m_readers'.count = m_readers.count /\ ~m_readers'.requested
    BY <1>3, CountType DEF ClearWriteRequested
  <2>2. TypeOK'
    BY <1>3 DEF ClearWriteRequested, TypeOK, Word, PCs
  <2>3. Readers' = Readers /\ WriteProtocol' = {}
    BY <1>0, <1>1, <1>3 DEF ClearWriteRequested, Readers, WriteProtocol
  <2>4. consumed[t] = 0
    BY <1>3 DEF ClearWriteRequested
  <2>5. SlotsAccounted'
    BY <1>1, <1>3, <2>1, <2>3, <2>4, ReadersFinite DEF SlotsAccounted, ClearWriteRequested
  <2> QED
    BY <1>0, <1>3, <2>2, <2>5 DEF ClearWriteRequested
<1>4. CASE writeUnlock(t)
  <2>1. consumed[t] = MAX
    BY <1>4 DEF writeUnlock
  <2>2. Cardinality(Readers) = 0
    BY <1>1, <2>1, CountType, ReadersFinite
  <2>3. m_readers'.count = 0 /\ ~m_readers'.requested
    BY <1>4 DEF writeUnlock, setReaders
  <2>4. TypeOK'
    BY <1>4 DEF writeUnlock, setReaders, TypeOK, Word, PCs
  <2>5. Readers' = Readers /\ WriteProtocol' = {}
    BY <1>0, <1>1, <1>4 DEF writeUnlock, Readers, WriteProtocol
  <2>6. \A s \in Threads : consumed'[s] = 0
    BY <1>1, <1>4 DEF writeUnlock, TypeOK
  <2>7. SlotsAccounted'
    BY <2>2, <2>3, <2>5, <2>6 DEF SlotsAccounted
  <2>8. pc'[t] = "idle" /\ \A s \in Threads : s # t => pc'[s] = pc[s] /\ pc[s] # "writing"
    BY <1>0, <1>1, <1>4 DEF writeUnlock, WriteProtocol
  <2> QED
    BY <1>4, <2>4, <2>6, <2>7, <2>8 DEF writeUnlock
<1>5. CASE demote(t)
  <2>1. consumed[t] = MAX
    BY <1>5 DEF demote
  <2>2. Cardinality(Readers) = 0
    BY <1>1, <2>1, CountType, ReadersFinite
  <2>3. m_readers'.count = 1 /\ ~m_readers'.requested
    BY <1>5 DEF demote, setReaders
  <2>4. TypeOK'
    BY <1>5 DEF demote, setReaders, TypeOK, Word, PCs
  <2>5. Cardinality(Readers') = Cardinality(Readers) + 1
    BY <1>0, <1>5, ReaderEnters DEF demote
  <2>6. WriteProtocol' = {}
    BY <1>0, <1>1, <1>5 DEF demote, WriteProtocol
  <2>7. \A s \in Threads : consumed'[s] = 0
    BY <1>1, <1>5 DEF demote, TypeOK
  <2>8. SlotsAccounted'
    BY <2>2, <2>3, <2>5, <2>6, <2>7 DEF SlotsAccounted
  <2>9. pc'[t] = "reading" /\ \A s \in Threads : s # t => pc'[s] = pc[s] /\ pc[s] # "writing"
    BY <1>0, <1>1, <1>5 DEF demote, WriteProtocol
  <2> QED
    BY <1>5, <2>4, <2>7, <2>8, <2>9 DEF demote
<1> QED
  BY <1>2, <1>3, <1>4, <1>5

-----------------------------------------------------------------------------
(* The theorems *)

\* Inv holds of every reachable state.
THEOREM Invariance == Spec => []Inv
PROOF
<1>1. Init => Inv
  BY InitInv
<1>2. Inv /\ [Next]_vars => Inv'
  <2> SUFFICES ASSUME Inv, [Next]_vars PROVE Inv'
    OBVIOUS
  <2>1. CASE Next
    BY <2>1, ReaderStep, WriterTakes, WriterLeaves DEF Next, ThreadStep, Progress
  <2>2. CASE UNCHANGED vars
    BY <2>2 DEF vars, Inv, TypeOK, SlotsAccounted, Readers, WriteProtocol
  <2> QED
    BY <2>1, <2>2
<1> QED
  BY <1>1, <1>2, PTL DEF Spec

\* The word, the program counters and each thread's samples and account stay
\* in their types; in particular the counter of LwUserSpaceReadWriteLock.h
\* never wraps, and no thread accounts for more than MAX slots.
THEOREM TypeCorrect == Spec => []TypeOK
PROOF
<1>1. Inv => TypeOK
  BY DEF Inv
<1> QED
  BY <1>1, Invariance, PTL

\* No slot is lost and none is released twice, by failed timed and try locks
\* as well (decReaders(consumed) of writeLock(timeout) and tryWriteLock).
THEOREM NoSlotLost == Spec => []SlotsAccounted
PROOF
<1>1. Inv => SlotsAccounted
  BY DEF Inv
<1> QED
  BY <1>1, Invariance, PTL

\* A writer is alone: writeLock() returns only to a thread that holds every
\* slot of the word, demote() and the try locks included.
THEOREM Exclusion == Spec => []MutualExclusion
PROOF
<1>1. Inv => MutualExclusion
  <2> SUFFICES ASSUME Inv, NEW w \in Writers
               PROVE  Readers = {} /\ Writers = {w}
    BY DEF MutualExclusion
  <2>1. w \in Threads /\ w \in WriteProtocol /\ consumed[w] = MAX
    BY DEF Inv, Writers, WriteProtocol
  <2>2. Writers = {w}
    BY <2>1 DEF Inv, SlotsAccounted, Writers, WriteProtocol
  <2>3. Cardinality(Readers) = 0
    BY <2>1, CountType, ReadersFinite, MAXAssumption DEF Inv, SlotsAccounted
  <2> QED
    BY <2>2, <2>3, ReadersFinite
<1> QED
  BY <1>1, Invariance, PTL

-----------------------------------------------------------------------------
(* Readers and writers that wait *)

\* The threads that are past the flag, or were there when it was set.
PastFlag == {t \in Threads : pc[t] \in {"r_sample", "r_cas", "reading"}}

\* While a writer is in the write protocol nobody joins the readers it has to wait
\* for, and it loses no slot before it gives up or unlocks.
WriterNotOvertaken ==
    \A w \in Threads : w \in WriteProtocol /\ w \in WriteProtocol' =>
        /\ PastFlag' \subseteq PastFlag
        /\ consumed'[w] >= consumed[w] \/ pc[w] = "w_giveback"

\* A thread whose spin goes on as the word is now.
Blocked(t) ==
    \/ pc[t] = "r_requested" /\ op[t] = "readLock" /\ m_readers.requested
    \/ pc[t] = "r_sample" /\ op[t] = "readLock" /\ m_readers.count = MAX
    \/ pc[t] = "w_request" /\ op[t] = "writeLock" /\ m_readers.requested
    \/ /\ pc[t] \in {"w_sample", "w_cas", "w_check"} /\ op[t] = "writeLock"
       /\ m_readers.count = MAX /\ consumed[t] # MAX

\* Not everyone inside the lock waits.
SomebodyMoves ==
    (\E t \in Threads : pc[t] # "idle") => \E t \in Threads : pc[t] # "idle" /\ ~Blocked(t)

\* Every wait of the lock is for a reader or for the one writer, and not all are
\* waiting: a word that is full has a reader to leave or a writer that holds all of
\* it, and a flag that is set has a thread in the write protocol.
THEOREM NoCircularWait == Spec => []SomebodyMoves
<1>1. Inv => SomebodyMoves
  <2> SUFFICES ASSUME Inv, NEW t \in Threads, pc[t] # "idle"
               PROVE  \E u \in Threads : pc[u] # "idle" /\ ~Blocked(u)
    BY DEF SomebodyMoves
  <2>1. \A u \in Readers : u \in Threads /\ pc[u] # "idle" /\ ~Blocked(u)
    BY DEF Readers, Blocked
  <2>2. CASE Readers # {}
    BY <2>1, <2>2
  <2>3. CASE Readers = {}
    <3>0. Cardinality(Readers) = 0 /\ MAX \in Nat /\ MAX # 0
      BY <2>3, ReadersFinite, MAXAssumption
    <3>1. CASE WriteProtocol = {}
      <4>1. ~m_readers.requested /\ m_readers.count = 0
        BY <3>0, <3>1 DEF Inv, SlotsAccounted
      <4>2. t \notin WriteProtocol
        BY <3>1
      <4>3. ~Blocked(t)
        BY <3>0, <4>1, <4>2 DEF Blocked, WriteProtocol
      <4>4. QED  BY <4>3
    <3>2. CASE WriteProtocol # {}
      <4>1. PICK w \in Threads : w \in WriteProtocol
        BY <3>2 DEF WriteProtocol
      <4>2. m_readers.count = Cardinality(Readers) + consumed[w] /\ consumed[w] \in 0..MAX
        BY <4>1, CountType DEF Inv, SlotsAccounted
      <4>3. m_readers.count = consumed[w]
        BY <3>0, <4>2
      <4>4. pc[w] # "idle" /\ ~Blocked(w)
        BY <4>1, <4>3 DEF WriteProtocol, Blocked
      <4>5. QED  BY <4>4
    <3>3. QED  BY <3>1, <3>2
  <2>4. QED  BY <2>2, <2>3
<1>2. QED
  BY <1>1, Invariance, PTL

\* A step of thread t moves no other thread and changes no other account.
LEMMA OthersStay ==
    ASSUME TypeOK, NEW t \in Threads, ThreadStep(t)
    PROVE  \A u \in Threads \ {t} : pc'[u] = pc[u] /\ consumed'[u] = consumed[u]
PROOF
  BY DEF TypeOK, ThreadStep, Progress, StartRead, StartWrite, CheckRequested, ConsumeOneSample,
         ConsumeOneCas, SetWriteRequested, ConsumeRemainingSample, ConsumeRemainingCas,
         CheckConsumed, GiveBack, ClearWriteRequested, readUnlock, writeUnlock, demote, Goto

\* A thread comes past the flag only when the flag is clear, or as a writer that
\* demotes itself.
LEMMA FlagPassed ==
    ASSUME TypeOK, NEW t \in Threads, ThreadStep(t), t \notin PastFlag, t \in PastFlag'
    PROVE  ~m_readers.requested \/ (t \in WriteProtocol /\ t \notin WriteProtocol')
PROOF
<1>1. pc \in [Threads -> PCs] /\ pc[t] \notin {"r_sample", "r_cas", "reading"}
      /\ pc'[t] \in {"r_sample", "r_cas", "reading"}
  BY DEF TypeOK, PastFlag
<1>2. CheckRequested(t) \/ demote(t)
  BY <1>1 DEF ThreadStep, Progress, StartRead, StartWrite, CheckRequested, ConsumeOneSample,
         ConsumeOneCas, SetWriteRequested, ConsumeRemainingSample, ConsumeRemainingCas,
         CheckConsumed, GiveBack, ClearWriteRequested, readUnlock, writeUnlock, demote, Goto
<1>3. CASE CheckRequested(t)
  BY <1>1, <1>3 DEF CheckRequested, Goto
<1>4. CASE demote(t)
  BY <1>1, <1>4 DEF demote, Goto, WriteProtocol
<1>5. QED
  BY <1>2, <1>3, <1>4

\* What a thread has taken in writeLock it keeps until it gives up or unlocks.
LEMMA AccountGrows ==
    ASSUME TypeOK, NEW t \in Threads, ThreadStep(t), t \in WriteProtocol, t \in WriteProtocol'
    PROVE  consumed'[t] >= consumed[t] \/ pc[t] = "w_giveback"
PROOF
<1>1. /\ consumed \in [Threads -> 0..MAX] /\ pc \in [Threads -> PCs] /\ MAX \in Nat
      /\ sample[t].count \in 0..MAX /\ consumed[t] \in 0..MAX
  BY CountType, MAXAssumption DEF TypeOK
<1>2. CASE ConsumeRemainingCas(t)
  <2>1. consumed'[t] \in {consumed[t], consumed[t] + (MAX - sample[t].count)}
    BY <1>1, <1>2 DEF ConsumeRemainingCas
  <2>2. consumed[t] + (MAX - sample[t].count) >= consumed[t]
    BY <1>1
  <2>3. QED  BY <1>1, <2>1, <2>2
<1>3. CASE consumed' = consumed
  BY <1>1, <1>3
<1>4. CASE writeUnlock(t) \/ demote(t) \/ StartWrite(t)
  BY <1>1, <1>4 DEF writeUnlock, demote, StartWrite, Goto, WriteProtocol
<1>5. CASE GiveBack(t)
  BY <1>5 DEF GiveBack
<1>6. QED
  BY <1>2, <1>3, <1>4, <1>5 DEF ThreadStep, Progress, StartRead, CheckRequested, ConsumeOneSample,
         ConsumeOneCas, SetWriteRequested, ConsumeRemainingSample, CheckConsumed,
         ClearWriteRequested, readUnlock

\* Once setWriteRequested() has succeeded the writer waits for the readers that were
\* past the flag by then and for no others, although consumeOne() does not look at the
\* flag again; and a slot that it has taken is not taken from it.
THEOREM WriterKeepsItsPlace == Spec => [][WriterNotOvertaken]_vars
<1>1. Inv /\ [Next]_vars => [WriterNotOvertaken]_vars
  <2> SUFFICES ASSUME Inv, NEW t \in Threads, ThreadStep(t),
                      NEW w \in Threads, w \in WriteProtocol, w \in WriteProtocol'
               PROVE  /\ PastFlag' \subseteq PastFlag
                      /\ consumed'[w] >= consumed[w] \/ pc[w] = "w_giveback"
    BY DEF Next, WriterNotOvertaken
  <2>1. TypeOK /\ m_readers.requested /\ \A u \in WriteProtocol : u = w
    BY DEF Inv, SlotsAccounted
  <2>2. \A u \in Threads \ {t} : pc'[u] = pc[u] /\ consumed'[u] = consumed[u]
    BY <2>1, OthersStay
  <2>3. PastFlag' \subseteq PastFlag
    <3>1. t \in PastFlag' => t \in PastFlag
      BY <2>1, FlagPassed
    <3>2. \A u \in Threads \ {t} : u \in PastFlag' => u \in PastFlag
      BY <2>2 DEF PastFlag
    <3>3. PastFlag' \subseteq Threads
      BY DEF PastFlag
    <3>4. QED  BY <3>1, <3>2, <3>3
  <2>4. consumed'[w] >= consumed[w] \/ pc[w] = "w_giveback"
    <3>1. CASE w = t
      BY <2>1, <3>1, AccountGrows
    <3>2. CASE w # t
      <4>1. consumed'[w] = consumed[w] /\ consumed[w] \in Nat
        BY <2>1, <2>2, <3>2, CountType, MAXAssumption
      <4>2. QED  BY <4>1
    <3>3. QED  BY <3>1, <3>2
  <2>5. QED  BY <2>3, <2>4
<1>2. QED
  BY <1>1, Invariance, PTL DEF Spec
=============================================================================
