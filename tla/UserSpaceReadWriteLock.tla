----------------------- MODULE UserSpaceReadWriteLock -----------------------
(***************************************************************************)
(* The spinning reader/writer lock of the engine: PLATFORM                 *)
(* .../util/concurrent/locks/UserSpaceReadWriteLock.h.                     *)
(*                                                                         *)
(* Readers count themselves in m_readers before they look at m_writer; a   *)
(* writer sets m_writer before it looks at the counters, and may enter     *)
(* when every counted reader is a waiting one.  The last reader to leave   *)
(* sets m_writer for a writer that waits (WRITE_WAIT), so that it is not   *)
(* overtaken; m_readersUnlocking and m_writerUnlocking keep that late      *)
(* store from hitting the next owner.  Every get, set, inc, dec and        *)
(* condSet is one atomic access, hence one action; short-circuit           *)
(* conditions read one word per step, the left operand first.              *)
(***************************************************************************)
EXTENDS Naturals, FiniteSets

CONSTANTS Threads,
          Uses,             \* the sets of operations a lock may be used by
          MAX_NEW_READERS

ASSUME ThreadsAssumption == IsFiniteSet(Threads)
ASSUME UsesAssumption ==
    Uses \subseteq SUBSET {"readLock", "tryReadLock", "writeLock", "tryWriteLock"}
ASSUME MaxAssumption == MAX_NEW_READERS \in Nat \ {0}

VARIABLES ops,   \* the operations the threads call on this lock
          lock,  \* the words of the lock
          pc,    \* where each thread is
          op,    \* the operation it is in, or holds the lock by
          seen   \* m_readersWaiting as the writer read it
vars == <<ops, lock, pc, op, seen>>

Init ==
    /\ ops \in Uses
    /\ lock = [m_readers |-> 0, m_readersWaiting |-> 0, m_readersUnlocking |-> 0,
               m_newReaders |-> 0, m_writer |-> FALSE,
               m_writeRequested |-> "WRITE_IDLE", m_writerUnlocking |-> FALSE]
    /\ pc = [t \in Threads |-> "idle"]
    /\ op = [t \in Threads |-> "none"]
    /\ seen = [t \in Threads |-> 0]

Goto(t, from, to) == pc[t] = from /\ pc' = [pc EXCEPT ![t] = to]

\* A step that writes the lock, and one that only reads it.
Write(t, from, new, to) ==
    /\ Goto(t, from, to)
    /\ lock' = new
    /\ op' = [op EXCEPT ![t] = IF to = "idle" THEN "none" ELSE @]
    /\ UNCHANGED <<ops, seen>>

Look(t, from, to) == Write(t, from, lock, to)

Start(t, o, to) ==
    /\ o \in ops
    /\ Goto(t, "idle", to)
    /\ op' = [op EXCEPT ![t] = o]
    /\ UNCHANGED <<ops, lock, seen>>

-----------------------------------------------------------------------------
(* readLock and tryReadLock *)

StartRead(t) == \E o \in {"readLock", "tryReadLock"} : Start(t, o, "gateRequested")

\* While a writer asks for the lock only MAX_NEW_READERS more readers get in:
\* readLock spins, tryReadLock gives up.
GateRequested(t) ==
    Look(t, "gateRequested",
         IF lock.m_writeRequested # "WRITE_IDLE" THEN "gateWriter" ELSE "enter")

GateWriter(t) == Look(t, "gateWriter", IF lock.m_writer THEN "enter" ELSE "gateNew")

\* Mutant: readers that arrive are let in without limit.
GateNewOpen(t) == Look(t, "gateNew", "enter")

GateNew(t) ==
    Look(t, "gateNew",
         IF lock.m_newReaders < MAX_NEW_READERS THEN "enter"
         ELSE IF op[t] = "readLock" THEN "gateRequested" ELSE "idle")

Enter(t) == Write(t, "enter", [lock EXCEPT !.m_readers = @ + 1], "look")

\* A reader that finds a writer counts itself as waiting (once) and spins;
\* tryReadLock takes its count back.
LookWriter(t) ==
    Look(t, "look", IF ~lock.m_writer THEN "noteRequested"
                    ELSE IF op[t] = "readLock" THEN "wait" ELSE "takeBack")

Wait(t) == Write(t, "wait", [lock EXCEPT !.m_readersWaiting = @ + 1], "waiting")

Waited(t) == ~lock.m_writer /\ Look(t, "waiting", "unwait")

Unwait(t) == Write(t, "unwait", [lock EXCEPT !.m_readersWaiting = @ - 1], "noteRequested")

\* The first step of readUnlock's loop.
Unlocking(t, from) ==
    Write(t, from, [lock EXCEPT !.m_readersUnlocking = @ + 1], "checkUnlocking")

\* Mutant: tryReadLock backs out through readUnlock.
TakeBackUnlocks(t) == Unlocking(t, "takeBack")

TakeBack(t) == Write(t, "takeBack", [lock EXCEPT !.m_readers = @ - 1], "idle")

\* A reader that got in while a writer asks is a new reader.  Only whether
\* there are MAX_NEW_READERS of them matters, so the count stops there.
NoteRequested(t) ==
    Look(t, "noteRequested",
         IF lock.m_writeRequested # "WRITE_IDLE" THEN "noteWriter" ELSE "reading")

NoteWriter(t) == Look(t, "noteWriter", IF lock.m_writer THEN "reading" ELSE "noteNew")

NoteNew(t) ==
    Write(t, "noteNew",
          [lock EXCEPT !.m_newReaders = IF @ < MAX_NEW_READERS THEN @ + 1 ELSE @], "reading")

-----------------------------------------------------------------------------
(* readUnlock *)

readUnlock(t) == Unlocking(t, "reading")

\* Wait for a writer's unlock to finish, not counted meanwhile.
CheckUnlocking(t) ==
    Look(t, "checkUnlocking", IF lock.m_writerUnlocking THEN "backOff" ELSE "leave")

BackOff(t) == Write(t, "backOff", [lock EXCEPT !.m_readersUnlocking = @ - 1], "again")

Again(t) == Unlocking(t, "again")

\* The last reader sets m_writer for a waiting writer.
Leave(t) ==
    Write(t, "leave", [lock EXCEPT !.m_readers = @ - 1],
          IF lock.m_readers = 1 THEN "checkRequested" ELSE "unlocked")

CheckRequested(t) ==
    Look(t, "checkRequested",
         IF lock.m_writeRequested = "WRITE_WAIT" THEN "help" ELSE "unlocked")

Help(t) == Write(t, "help", [lock EXCEPT !.m_writer = TRUE], "unlocked")

\* Mutant: readUnlock forgets to say that it is done.
UnlockedNothing(t) == Look(t, "unlocked", "idle")

Unlocked(t) == Write(t, "unlocked", [lock EXCEPT !.m_readersUnlocking = @ - 1], "idle")

-----------------------------------------------------------------------------
(* writeLock and tryWriteLock *)

\* One thread at a time is in the write protocol: writeLock spins until its
\* condSet succeeds, tryWriteLock returns false.
StartWrite(t) ==
    \E o \in {"writeLock", "tryWriteLock"} \cap ops :
        /\ lock.m_writeRequested = "WRITE_IDLE"
        /\ Goto(t, "idle", "readers")
        /\ op' = [op EXCEPT ![t] = o]
        /\ lock' = [lock EXCEPT !.m_writeRequested =
                       IF o = "writeLock" THEN "WRITE_WAIT" ELSE "WRITE_TRY"]
        /\ UNCHANGED <<ops, seen>>

\* Mutant: readers that wait do not count.
ReadersNotWaiting(t) ==
    Look(t, "readers", IF lock.m_readers = lock.m_readersWaiting THEN "setWriter" ELSE "helped")

\* writeLock waits until no reader is counted or one of them set m_writer.
Readers(t) == Look(t, "readers", IF lock.m_readers = 0 THEN "setWriter" ELSE "helped")

Helped(t) ==
    Look(t, "helped", IF lock.m_writer THEN "setWriter"
                      ELSE IF op[t] = "writeLock" THEN "readers" ELSE "giveUp")

GiveUp(t) == Write(t, "giveUp", [lock EXCEPT !.m_writeRequested = "WRITE_IDLE"], "idle")

SetWriter(t) == Write(t, "setWriter", [lock EXCEPT !.m_writer = TRUE], "getFirst")

\* The two reads of get(&first) != get(&second): a writer whose reads agree
\* enters; one that disagrees spins, or gives the lock back.
Compare(t, first, second) ==
    \/ /\ Goto(t, "getFirst", "getSecond")
       /\ seen' = [seen EXCEPT ![t] = first]
       /\ UNCHANGED <<ops, lock, op>>
    \/ /\ Goto(t, "getSecond", IF seen[t] = second
                               THEN IF op[t] = "writeLock" THEN "reset" ELSE "writing"
                               ELSE IF op[t] = "writeLock" THEN "getFirst" ELSE "writeUnlock")
       /\ seen' = [seen EXCEPT ![t] = 0]
       /\ UNCHANGED <<ops, lock, op>>

\* Mutant: the operands are read in the other order.
AllWaitingSwapped(t) == Compare(t, lock.m_readers, lock.m_readersWaiting)

\* All counted readers are waiting ("the get() order matters here").
AllWaiting(t) == Compare(t, lock.m_readersWaiting, lock.m_readers)

Reset(t) == Write(t, "reset", [lock EXCEPT !.m_newReaders = 0], "writing")

-----------------------------------------------------------------------------
(* writeUnlock, called by the owner or by a tryWriteLock that found readers *)

writeUnlock(t) ==
    /\ ~lock.m_writerUnlocking
    /\ \/ Write(t, "writing", [lock EXCEPT !.m_writerUnlocking = TRUE], "whose")
       \/ Write(t, "writeUnlock", [lock EXCEPT !.m_writerUnlocking = TRUE], "whose")

\* Mutant: the unlocking readers are not waited for.
WhoseSkipped(t) == Look(t, "whose", "clearWriter")

Whose(t) ==
    Look(t, "whose",
         IF lock.m_writeRequested = "WRITE_WAIT" THEN "quiet" ELSE "clearWriter")

Quiet(t) == lock.m_readersUnlocking = 0 /\ Look(t, "quiet", "clearWriter")

ClearWriter(t) == Write(t, "clearWriter", [lock EXCEPT !.m_writer = FALSE], "clearRequested")

ClearRequested(t) ==
    Write(t, "clearRequested", [lock EXCEPT !.m_writeRequested = "WRITE_IDLE"], "written")

Written(t) == Write(t, "written", [lock EXCEPT !.m_writerUnlocking = FALSE], "idle")

-----------------------------------------------------------------------------
\* What a thread that is inside an operation, or holds the lock, does next.
Progress(t) ==
    \/ GateRequested(t) \/ GateWriter(t) \/ GateNew(t) \/ Enter(t) \/ LookWriter(t)
    \/ Wait(t) \/ Waited(t) \/ Unwait(t) \/ TakeBack(t)
    \/ NoteRequested(t) \/ NoteWriter(t) \/ NoteNew(t)
    \/ readUnlock(t) \/ CheckUnlocking(t) \/ BackOff(t) \/ Again(t) \/ Leave(t)
    \/ CheckRequested(t) \/ Help(t) \/ Unlocked(t)
    \/ Readers(t) \/ Helped(t) \/ GiveUp(t) \/ SetWriter(t)
    \/ AllWaiting(t) \/ Reset(t)
    \/ writeUnlock(t) \/ Whose(t) \/ Quiet(t) \/ ClearWriter(t) \/ ClearRequested(t)
    \/ Written(t)

Next == \E t \in Threads : StartRead(t) \/ StartWrite(t) \/ Progress(t)

Spec == Init /\ [][Next]_vars

\* Threads run and holders release; nobody has to ask for the lock.
FairSpec == Spec /\ \A t \in Threads : WF_vars(Progress(t))

-----------------------------------------------------------------------------
(* Properties *)

At(labels) == {t \in Threads : pc[t] \in labels}

WriteProtocol ==
    At({"readers", "helped", "giveUp", "setWriter", "getFirst", "getSecond", "reset",
        "writing", "writeUnlock", "whose", "quiet", "clearWriter", "clearRequested"})

Labels ==
    {"idle", "gateRequested", "gateWriter", "gateNew", "enter", "look", "wait", "waiting", "unwait",
     "takeBack", "noteRequested", "noteWriter", "noteNew", "reading", "checkUnlocking", "backOff",
     "again", "leave", "checkRequested", "help", "unlocked", "readers", "helped", "giveUp",
     "setWriter", "getFirst", "getSecond", "reset", "writing", "writeUnlock", "whose", "quiet",
     "clearWriter", "clearRequested", "written"}

\* Types: no counter of the lock leaves the number of its threads, so that no
\* dec() of an unlock path runs below zero.
TypeOK ==
    /\ ops \in Uses
    /\ lock \in [m_readers : 0..Cardinality(Threads),
                 m_readersWaiting : 0..Cardinality(Threads),
                 m_readersUnlocking : 0..Cardinality(Threads),
                 m_newReaders : 0..MAX_NEW_READERS, m_writer : BOOLEAN,
                 m_writeRequested : {"WRITE_IDLE", "WRITE_WAIT", "WRITE_TRY"},
                 m_writerUnlocking : BOOLEAN]
    /\ pc \in [Threads -> Labels]
    /\ op \in [Threads -> {"none", "readLock", "tryReadLock", "writeLock", "tryWriteLock"}]
    /\ seen \in [Threads -> 0..Cardinality(Threads)]

\* A writer is alone, although readers that were let in by an earlier unlock,
\* readers that back out of tryReadLock and the last reader's late store to
\* m_writer all overlap its entry.
MutualExclusion ==
    \A w \in At({"writing"}) : \A t \in Threads \ {w} : pc[t] \notin {"reading", "writing"}

\* The store a last reader makes for a waiting writer never outlives that
\* writer: with no one in the write protocol m_writer is false, so that no
\* reader waits for a writer that does not exist.
WriterFlagOwned == lock.m_writer => WriteProtocol # {}

\* A writer that waits for unlocking readers waits only for readers that are
\* past their own wait for writers: the two waits never chase each other.
NoUnlockChase ==
    At({"quiet"}) # {} => At({"backOff", "again"}) = {}

\* writeLock gets the lock once its request is accepted, however many readers
\* keep coming.  (Not beside tryReadLock: each of its callers is counted in
\* m_readers for a moment, and one may be there whenever the writer looks.)
WriterGetsLock ==
    \A t \in Threads : (pc[t] = "readers" /\ op[t] = "writeLock") ~> pc[t] = "writing"

\* A reader that is counted gets the lock, however many writers compete.
ReaderGetsLock ==
    \A t \in Threads : (pc[t] = "look" /\ op[t] = "readLock") ~> pc[t] = "reading"
=============================================================================
