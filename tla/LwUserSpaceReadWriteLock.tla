---------------------- MODULE LwUserSpaceReadWriteLock ----------------------
(***************************************************************************)
(* The one-word reader/writer spin lock of                                 *)
(* PLATFORM .../util/concurrent/locks/LwUserSpaceReadWriteLock.h.          *)
(*                                                                         *)
(* The lock is a single unsigned word: bit 0 is the "write requested"      *)
(* flag, the bits above it count the read slots in use.  A reader takes    *)
(* one of the MAX slots with a compare-and-swap; a writer first takes the  *)
(* flag and then all the slots, in as many bites as it needs.  Every       *)
(* shared access of the code is one action here: a sample of the word and  *)
(* the compare-and-swap that uses it are two steps, so that any number of  *)
(* steps of other threads fits in between.                                 *)
(***************************************************************************)
EXTENDS Naturals, FiniteSets

CONSTANTS Threads,  \* the threads that share one lock
          MAX       \* read slots of the word (0x7F for the default ubyte)

ASSUME ThreadsAssumption == IsFiniteSet(Threads)
ASSUME MAXAssumption == MAX \in Nat \ {0}

VARIABLES
    m_readers,  \* the word: [count |-> slots in use, requested |-> bit 0]
    pc,         \* where each thread is in the lock's code
    op,         \* the operation a thread is executing
    sample,     \* rawSample: the word as the thread last read it
    consumed    \* slots the thread took inside writeLock

vars == <<m_readers, pc, op, sample, consumed>>

Word == [count : 0..MAX, requested : BOOLEAN]

Ops == {"none", "readLock", "tryReadLock",
        "writeLock", "writeLockTimeout", "tryWriteLock"}

PCs == {"idle", "r_requested", "r_sample", "r_cas", "reading",
        "w_request", "w_sample", "w_cas", "w_check",
        "w_giveback", "w_clear", "writing"}

(***************************************************************************)
(* The word's primitives.  The counter lives above bit 0 in a word of      *)
(* exactly log2(MAX + 1) + 1 bits, so an addition or subtraction wraps     *)
(* modulo MAX + 1 and leaves bit 0 alone.                                  *)
(***************************************************************************)

\* condSet(&m_readers, rawSample, value), as seen by the thread that runs it
CasSucceeds(t) == sample[t] = m_readers

decReaders(n) ==
    [m_readers EXCEPT !.count = (@ + (MAX + 1) - n) % (MAX + 1)]

setReaders(n) == [count |-> n, requested |-> FALSE]

Goto(t, l) == pc' = [pc EXCEPT ![t] = l]

Sampled(t) == sample' = [sample EXCEPT ![t] = m_readers]

\* rawSample goes out of scope after its compare-and-swap.
NoSample == [count |-> 0, requested |-> FALSE]
SampleUsed(t) == sample' = [sample EXCEPT ![t] = NoSample]

Init ==
    /\ m_readers = [count |-> 0, requested |-> FALSE]
    /\ pc = [t \in Threads |-> "idle"]
    /\ op = [t \in Threads |-> "none"]
    /\ sample = [t \in Threads |-> NoSample]
    /\ consumed = [t \in Threads |-> 0]

-----------------------------------------------------------------------------
(* Readers *)

\* A thread enters readLock() or tryReadLock().
StartRead(t) ==
    /\ pc[t] = "idle"
    /\ \E o \in {"readLock", "tryReadLock"} : op' = [op EXCEPT ![t] = o]
    /\ Goto(t, "r_requested")
    /\ UNCHANGED <<m_readers, sample, consumed>>

\* Mutant: the reader does not look at the write-requested flag.
CheckRequestedIgnored(t) ==
    /\ pc[t] = "r_requested"
    /\ Goto(t, "r_sample")
    /\ UNCHANGED <<m_readers, op, sample, consumed>>

\* getWriteRequested(): readLock spins until the flag is clear, tryReadLock
\* returns false at once.
CheckRequested(t) ==
    /\ pc[t] = "r_requested"
    /\ \/ /\ ~m_readers.requested
          /\ Goto(t, "r_sample")
       \/ /\ m_readers.requested
          /\ op[t] = "tryReadLock"
          /\ Goto(t, "idle")
    /\ UNCHANGED <<m_readers, op, sample, consumed>>

\* Mutant: the bound on the slots is off by one.
ConsumeOneSampleFull(t) ==
    /\ pc[t] = "r_sample"
    /\ m_readers.count <= MAX
    /\ Sampled(t)
    /\ Goto(t, "r_cas")
    /\ UNCHANGED <<m_readers, op, consumed>>

\* consumeOne(), first half: the sample; with no slot left readLock samples
\* again (it does not go back to the flag) and tryReadLock fails.
ConsumeOneSample(t) ==
    /\ pc[t] = "r_sample"
    /\ \/ /\ m_readers.count < MAX
          /\ Sampled(t)
          /\ Goto(t, "r_cas")
       \/ /\ m_readers.count = MAX
          /\ op[t] = "tryReadLock"
          /\ Goto(t, "idle")
          /\ UNCHANGED sample
    /\ UNCHANGED <<m_readers, op, consumed>>

\* consumeOne(), second half: the compare-and-swap.
ConsumeOneCas(t) ==
    /\ pc[t] = "r_cas"
    /\ IF CasSucceeds(t)
       THEN /\ m_readers' = [m_readers EXCEPT !.count = sample[t].count + 1]
            /\ Goto(t, "reading")
       ELSE /\ Goto(t, IF op[t] = "tryReadLock" THEN "idle" ELSE "r_sample")
            /\ UNCHANGED m_readers
    /\ SampleUsed(t)
    /\ UNCHANGED <<op, consumed>>

readUnlock(t) ==
    /\ pc[t] = "reading"
    /\ m_readers' = decReaders(1)
    /\ Goto(t, "idle")
    /\ UNCHANGED <<op, sample, consumed>>

-----------------------------------------------------------------------------
(* Writers *)

\* A thread enters writeLock(), writeLock(timeout) or tryWriteLock().
StartWrite(t) ==
    /\ pc[t] = "idle"
    /\ \E o \in {"writeLock", "writeLockTimeout", "tryWriteLock"} :
          op' = [op EXCEPT ![t] = o]
    /\ Goto(t, "w_request")
    /\ consumed' = [consumed EXCEPT ![t] = 0]
    /\ UNCHANGED <<m_readers, sample>>

\* setWriteRequested(): an atomic fetch-and-or that succeeds for the thread
\* that finds the flag clear.  When it fails, tryWriteLock returns false, the
\* timed lock may find its time spent, and both locks spin.
SetWriteRequested(t) ==
    /\ pc[t] = "w_request"
    /\ \/ /\ ~m_readers.requested
          /\ m_readers' = [m_readers EXCEPT !.requested = TRUE]
          /\ Goto(t, "w_sample")
       \/ /\ m_readers.requested
          /\ op[t] \in {"tryWriteLock", "writeLockTimeout"}
          /\ Goto(t, "idle")
          /\ UNCHANGED m_readers
    /\ UNCHANGED <<op, sample, consumed>>

\* consumeRemaining(), first half: the sample.
ConsumeRemainingSample(t) ==
    /\ pc[t] = "w_sample"
    /\ Sampled(t)
    /\ Goto(t, "w_cas")
    /\ UNCHANGED <<m_readers, op, consumed>>

\* consumeRemaining(), second half: RAW_MAX | rawSample fills the counter and
\* keeps the flag; the thread adds to its own account what it filled.
ConsumeRemainingCas(t) ==
    /\ pc[t] = "w_cas"
    /\ IF CasSucceeds(t)
       THEN /\ m_readers' = [m_readers EXCEPT !.count = MAX]
            /\ consumed' = [consumed EXCEPT ![t] = @ + (MAX - sample[t].count)]
       ELSE UNCHANGED <<m_readers, consumed>>
    /\ Goto(t, "w_check")
    /\ SampleUsed(t)
    /\ UNCHANGED op

\* consumed == MAX: the lock is held.  Otherwise writeLock tries again,
\* tryWriteLock gives back what it took, and the timed lock does either.
CheckConsumed(t) ==
    /\ pc[t] = "w_check"
    /\ \/ consumed[t] = MAX /\ Goto(t, "writing")
       \/ /\ consumed[t] # MAX
          /\ op[t] \in {"writeLock", "writeLockTimeout"}
          /\ Goto(t, "w_sample")
       \/ /\ consumed[t] # MAX
          /\ op[t] \in {"writeLockTimeout", "tryWriteLock"}
          /\ Goto(t, "w_giveback")
    /\ UNCHANGED <<m_readers, op, sample, consumed>>

\* Mutant: a failed writer keeps the slots it took.
GiveBackNothing(t) ==
    /\ pc[t] = "w_giveback"
    /\ consumed' = [consumed EXCEPT ![t] = 0]
    /\ Goto(t, "w_clear")
    /\ UNCHANGED <<m_readers, op, sample>>

\* decReaders(consumed) on the failure path.
GiveBack(t) ==
    /\ pc[t] = "w_giveback"
    /\ m_readers' = decReaders(consumed[t])
    /\ consumed' = [consumed EXCEPT ![t] = 0]
    /\ Goto(t, "w_clear")
    /\ UNCHANGED <<op, sample>>

\* clearWriteRequested() on the failure path, then return false.
ClearWriteRequested(t) ==
    /\ pc[t] = "w_clear"
    /\ m_readers' = [m_readers EXCEPT !.requested = FALSE]
    /\ Goto(t, "idle")
    /\ UNCHANGED <<op, sample, consumed>>

writeUnlock(t) ==
    /\ pc[t] = "writing"
    /\ m_readers' = setReaders(0)
    /\ consumed' = [consumed EXCEPT ![t] = 0]
    /\ Goto(t, "idle")
    /\ UNCHANGED <<op, sample>>

\* Mutant: the demoted writer holds no read slot.
demoteWithoutSlot(t) ==
    /\ pc[t] = "writing"
    /\ m_readers' = setReaders(0)
    /\ consumed' = [consumed EXCEPT ![t] = 0]
    /\ Goto(t, "reading")
    /\ UNCHANGED <<op, sample>>

\* demote(): the writer becomes a reader in one store.
demote(t) ==
    /\ pc[t] = "writing"
    /\ m_readers' = setReaders(1)
    /\ consumed' = [consumed EXCEPT ![t] = 0]
    /\ Goto(t, "reading")
    /\ UNCHANGED <<op, sample>>

-----------------------------------------------------------------------------
\* The steps a thread takes once it has called into the lock, and the release
\* that ends its critical section.
Progress(t) ==
    \/ CheckRequested(t) \/ ConsumeOneSample(t) \/ ConsumeOneCas(t)
    \/ SetWriteRequested(t) \/ ConsumeRemainingSample(t)
    \/ ConsumeRemainingCas(t) \/ CheckConsumed(t)
    \/ GiveBack(t) \/ ClearWriteRequested(t)
    \/ readUnlock(t) \/ writeUnlock(t) \/ demote(t)

ThreadStep(t) == StartRead(t) \/ StartWrite(t) \/ Progress(t)

Next == \E t \in Threads : ThreadStep(t)

Spec == Init /\ [][Next]_vars

\* A spinning thread keeps being scheduled, and a critical section ends:
\* every Synchronize/Scoped user of the lock unlocks on every path.
FairSpec == Spec /\ \A t \in Threads : WF_vars(Progress(t))

-----------------------------------------------------------------------------
(* Properties *)

Readers == {t \in Threads : pc[t] = "reading"}

\* The threads between a successful setWriteRequested() and its clearing.
WriteProtocol == {t \in Threads : pc[t] \in {"w_sample", "w_cas", "w_check",
                                   "w_giveback", "w_clear", "writing"}}

Writers == {t \in Threads : pc[t] = "writing"}

\* Types: the word never leaves its width, so that an addition to its counter
\* (consumeOne, consumeRemaining) never carries into another bit.
TypeOK ==
    /\ m_readers \in Word
    /\ pc \in [Threads -> PCs]
    /\ op \in [Threads -> Ops]
    /\ sample \in [Threads -> Word]
    /\ consumed \in [Threads -> 0..MAX]

\* What the lock is for: a writer is alone, whatever mix of timed-out writers,
\* try locks, demotions and stale samples came before (writeLock, readLock).
MutualExclusion ==
    \A w \in Writers : Readers = {} /\ Writers = {w}

\* The word accounts for every slot: what the readers hold plus what the one
\* thread in the write protocol has taken.  A slot leaked by a failed
\* writeLock(timeout) or tryWriteLock would starve writers forever, a slot
\* released twice would let a writer in beside a reader.
SlotsAccounted ==
    /\ \A s, t \in WriteProtocol : s = t
    /\ m_readers.requested <=> WriteProtocol # {}
    /\ \A t \in Threads : t \notin WriteProtocol => consumed[t] = 0
    /\ \A t \in WriteProtocol :
          m_readers.count = Cardinality(Readers) + consumed[t]
    /\ WriteProtocol = {} => m_readers.count = Cardinality(Readers)

\* A thread that won setWriteRequested() inside writeLock() gets the lock: the
\* flag stops new readers and the slots it takes are never given to others.
WriterGetsLock ==
    \A t \in Threads :
        (pc[t] = "w_sample" /\ op[t] = "writeLock") ~> pc[t] = "writing"

=============================================================================
