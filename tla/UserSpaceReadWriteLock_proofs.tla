------------------ MODULE UserSpaceReadWriteLock_proofs ------------------
(***************************************************************************)
(* The spinning reader/writer lock, for every number of threads.  Its      *)
(* counters count threads whatever the lock is used for.  It excludes      *)
(* writers when it is used either with writeLock or with tryWriteLock (for *)
(* the two together see MCUsLockMixed.cfg).                                *)
(*                                                                         *)
(* The argument: a writer compares an older count of waiting readers with  *)
(* the count of all readers.  This is sound because no reader is on its    *)
(* way from waiting to reading while m_writer is set (FreshInv): then the  *)
(* waiting readers only become more, and equal counts leave no reader that *)
(* is not waiting.  For that the late store of the last reader (Help) has  *)
(* to come before its writer is done, which m_readersUnlocking and         *)
(* m_writerUnlocking see to (CleanInv).                                    *)
(*                                                                         *)
(* The counts and the protocol together leave no circle of waits: not all  *)
(* that are inside the lock can be spinning (NoCircularWait).              *)
(***************************************************************************)
EXTENDS UserSpaceReadWriteLock, FiniteSetTheorems, TLAPS

-----------------------------------------------------------------------------
(* Where threads are *)

\* Past the gate of m_writer, until the thread is no longer counted.
Active == {"unwait", "noteRequested", "noteWriter", "noteNew", "reading",
           "checkUnlocking", "backOff", "again", "leave"}

\* In m_readers, in m_readersWaiting, in m_readersUnlocking.
Counted == Active \cup {"look", "wait", "waiting", "takeBack"}
Waiting == {"waiting", "unwait"}
Unlocks == {"checkUnlocking", "backOff", "leave", "checkRequested", "help", "unlocked"}

\* In the write protocol, after SetWriter, and in writeUnlock.
Protocol == {"readers", "helped", "giveUp", "setWriter", "getFirst", "getSecond", "reset",
             "writing", "writeUnlock", "whose", "quiet", "clearWriter", "clearRequested"}
Holds == {"getFirst", "getSecond", "reset", "writing", "writeUnlock", "whose", "quiet",
          "clearWriter"}
Ending == {"whose", "quiet", "clearWriter", "clearRequested", "written"}

Requests == {"WRITE_IDLE", "WRITE_WAIT", "WRITE_TRY"}

LockType ==
    /\ ops \in Uses
    /\ lock \in [m_readers : Nat, m_readersWaiting : Nat, m_readersUnlocking : Nat,
                 m_newReaders : 0..MAX_NEW_READERS, m_writer : BOOLEAN,
                 m_writeRequested : Requests, m_writerUnlocking : BOOLEAN]
    /\ pc \in [Threads -> Labels]
    /\ op \in [Threads -> {"none", "readLock", "tryReadLock", "writeLock", "tryWriteLock"}]
    /\ seen \in [Threads -> 0..Cardinality(Threads)]

CountInv ==
    /\ lock.m_readers = Cardinality(At(Counted))
    /\ lock.m_readersWaiting = Cardinality(At(Waiting))
    /\ lock.m_readersUnlocking = Cardinality(At(Unlocks))

-----------------------------------------------------------------------------
(* Writers *)

\* The lock is not used with writeLock and tryWriteLock together.
NotMixed == ~({"writeLock", "tryWriteLock"} \subseteq ops)

\* One thread is in the write protocol, with its request; one is in writeUnlock.
ProtocolInv ==
    /\ \A t, u \in At(Protocol) : t = u
    /\ \A t, u \in At(Ending) : t = u
    /\ lock.m_writeRequested # "WRITE_IDLE" <=> At(Protocol) # {}
    /\ lock.m_writerUnlocking <=> At(Ending) # {}
    /\ \A t \in At(Protocol) :
          /\ op[t] \in ops
          /\ \/ op[t] = "writeLock" /\ lock.m_writeRequested = "WRITE_WAIT"
             \/ op[t] = "tryWriteLock" /\ lock.m_writeRequested = "WRITE_TRY"
          /\ pc[t] \in {"giveUp", "writeUnlock"} => op[t] = "tryWriteLock"
          /\ pc[t] \in {"reset", "quiet"} => op[t] = "writeLock"

\* m_writer is set while a writer holds the lock, and is not left behind.
FlagInv ==
    /\ At(Holds) # {} => lock.m_writer
    /\ lock.m_writer => At(Protocol) # {} /\ At({"giveUp", "clearRequested"}) = {}
    /\ At({"help"}) # {} => lock.m_writeRequested = "WRITE_WAIT"

\* No late store of a reader once writeLock's unlock has begun to clear.
CleanInv ==
    "tryWriteLock" \notin ops /\ At({"clearWriter", "clearRequested", "written"}) # {} =>
        At({"leave", "checkRequested", "help", "unlocked"}) = {}

\* Readers wait only while m_writer is set, and none has been let go.
Fresh ==
    /\ At({"unwait"}) = {}
    /\ ~lock.m_writer => At({"wait", "waiting"}) = {}

FreshInv ==
    /\ lock.m_writer => Fresh
    /\ At({"help", "setWriter"}) # {} => Fresh
    /\ "tryWriteLock" \notin ops /\ At({"checkRequested"}) # {} => Fresh

AloneInv ==
    /\ \A t \in At({"getSecond"}) : seen[t] <= lock.m_readersWaiting
    /\ At({"reset", "writing"}) # {} => At(Active) = {}
    /\ "tryWriteLock" \notin ops /\ At({"whose", "quiet", "clearWriter"}) # {} => At(Active) = {}

WriterInv == ProtocolInv /\ FlagInv /\ CleanInv /\ FreshInv /\ AloneInv

LockInv == LockType /\ CountInv /\ (NotMixed => WriterInv)

-----------------------------------------------------------------------------
(* Counting threads *)

\* What a move of one thread does to the number of threads at some labels.
Moved(n, m, S, from, to) ==
    m = IF from \in S THEN IF to \in S THEN n ELSE n - 1
        ELSE IF to \in S THEN n + 1 ELSE n

\* How many threads stand at the labels of S.
LEMMA AtFinite ==
  ASSUME NEW S
  PROVE  /\ IsFiniteSet(At(S)) /\ Cardinality(At(S)) \in Nat
         /\ Cardinality(At(S)) <= Cardinality(Threads) /\ Cardinality(Threads) \in Nat
         /\ Cardinality(At(S)) = 0 <=> At(S) = {}
  <1>1. At(S) \in SUBSET Threads
    BY DEF At
  <1>2. /\ IsFiniteSet(At(S)) /\ Cardinality(At(S)) <= Cardinality(Threads)
    BY <1>1, FS_Subset, ThreadsAssumption
  <1>3. Cardinality(At(S)) \in Nat /\ Cardinality(Threads) \in Nat
    BY <1>2, FS_CardinalityType, ThreadsAssumption
  <1>4. Cardinality(At(S)) = 0 <=> At(S) = {}
    BY <1>2, FS_EmptySet
  <1>5. QED  BY <1>2, <1>3, <1>4

\* One thread's move changes that number by at most one.
LEMMA CountMove ==
  ASSUME NEW S, NEW t \in Threads, NEW from, NEW to, pc \in [Threads -> Labels], Goto(t, from, to)
  PROVE  /\ Moved(Cardinality(At(S)), Cardinality(At(S)'), S, from, to)
         /\ from \in S => Cardinality(At(S)) >= 1
         /\ Cardinality(At(S)') \in Nat
  <1>1. pc[t] = from /\ pc' = [pc EXCEPT ![t] = to]
    BY DEF Goto
  <1>2. /\ \A u \in Threads : u # t => pc'[u] = pc[u]
        /\ pc'[t] = to
    BY <1>1
  <1>3. IsFiniteSet(At(S)) /\ Cardinality(At(S)) \in Nat
    BY AtFinite
  <1>4. CASE from \in S /\ to \in S
    <2>1. At(S)' = At(S)
      BY <1>1, <1>2, <1>4 DEF At
    <2>2. t \in At(S)
      BY <1>1, <1>4 DEF At
    <2>3. Cardinality(At(S)) # 0
      BY <2>2, AtFinite
    <2>4. QED  BY <1>3, <1>4, <2>1, <2>3 DEF Moved
  <1>5. CASE from \in S /\ to \notin S
    <2>1. At(S)' = At(S) \ {t}
      BY <1>1, <1>2, <1>5 DEF At
    <2>2. t \in At(S)
      BY <1>1, <1>5 DEF At
    <2>3. Cardinality(At(S)) # 0
      BY <2>2, AtFinite
    <2>4. Cardinality(At(S)') = Cardinality(At(S)) - 1
      BY <1>3, <2>1, <2>2, FS_RemoveElement
    <2>5. QED  BY <1>3, <1>5, <2>3, <2>4 DEF Moved
  <1>6. CASE from \notin S /\ to \in S
    <2>1. At(S)' = At(S) \cup {t}
      BY <1>1, <1>2, <1>6 DEF At
    <2>2. t \notin At(S)
      BY <1>1, <1>6 DEF At
    <2>3. Cardinality(At(S)') = Cardinality(At(S)) + 1
      BY <1>3, <2>1, <2>2, FS_AddElement
    <2>4. QED  BY <1>3, <1>6, <2>3 DEF Moved
  <1>7. CASE from \notin S /\ to \notin S
    <2>1. At(S)' = At(S)
      BY <1>1, <1>2, <1>7 DEF At
    <2>2. QED  BY <1>3, <1>7, <2>1 DEF Moved
  <1>8. QED  BY <1>4, <1>5, <1>6, <1>7

\* A step of thread t that changes the words of the lock to new, which counts
\* as the thread moves.
Counts(new, from, to) ==
    /\ Moved(lock.m_readers, new.m_readers, Counted, from, to)
    /\ Moved(lock.m_readersWaiting, new.m_readersWaiting, Waiting, from, to)
    /\ Moved(lock.m_readersUnlocking, new.m_readersUnlocking, Unlocks, from, to)

\* A step that changes the counters with its thread's place keeps them exact.
LEMMA CountStep ==
  ASSUME LockType, CountInv, NEW t \in Threads, NEW from, NEW to, Goto(t, from, to),
         Counts(lock', from, to)
  PROVE  /\ CountInv'
         /\ lock'.m_readers \in Nat /\ lock'.m_readersWaiting \in Nat
         /\ lock'.m_readersUnlocking \in Nat
  <1>1. pc \in [Threads -> Labels]
    BY DEF LockType
  <1>2. /\ Moved(Cardinality(At(Counted)), Cardinality(At(Counted)'), Counted, from, to)
        /\ Cardinality(At(Counted)') \in Nat
    BY <1>1, CountMove
  <1>3. /\ Moved(Cardinality(At(Waiting)), Cardinality(At(Waiting)'), Waiting, from, to)
        /\ Cardinality(At(Waiting)') \in Nat
    BY <1>1, CountMove
  <1>4. /\ Moved(Cardinality(At(Unlocks)), Cardinality(At(Unlocks)'), Unlocks, from, to)
        /\ Cardinality(At(Unlocks)') \in Nat
    BY <1>1, CountMove
  <1>5. lock'.m_readers = Cardinality(At(Counted)')
    BY <1>2 DEF CountInv, Counts, Moved
  <1>6. lock'.m_readersWaiting = Cardinality(At(Waiting)')
    BY <1>3 DEF CountInv, Counts, Moved
  <1>7. lock'.m_readersUnlocking = Cardinality(At(Unlocks)')
    BY <1>4 DEF CountInv, Counts, Moved
  <1>8. QED  BY <1>2, <1>3, <1>4, <1>5, <1>6, <1>7 DEF CountInv, Counted, Waiting, Unlocks, Active

\* The words of the lock, before it is known that no count is below zero.
Words == [m_readers : Int, m_readersWaiting : Int, m_readersUnlocking : Int,
          m_newReaders : 0..MAX_NEW_READERS, m_writer : BOOLEAN,
          m_writeRequested : Requests, m_writerUnlocking : BOOLEAN]

\* A step that changes neither ops nor another thread's operation.
Moves(t, new, from, to) ==
    /\ Goto(t, from, to) /\ lock' = new /\ ops' = ops
    /\ to \in Labels /\ new \in Words /\ Counts(new, from, to)
    /\ op' \in [Threads -> {"none", "readLock", "tryReadLock", "writeLock", "tryWriteLock"}]
    /\ seen' \in [Threads -> 0..Cardinality(Threads)]

\* The same, with the types.
LEMMA MoveStep ==
  ASSUME LockType, CountInv, NEW t \in Threads, NEW new, NEW from, NEW to, Moves(t, new, from, to)
  PROVE  LockType' /\ CountInv'
  <1>1. Goto(t, from, to) /\ Counts(lock', from, to) /\ lock' \in Words
    BY DEF Moves
  <1>2. /\ CountInv'
        /\ lock'.m_readers \in Nat /\ lock'.m_readersWaiting \in Nat
        /\ lock'.m_readersUnlocking \in Nat
    BY <1>1, CountStep
  <1>3. lock' \in [m_readers : Nat, m_readersWaiting : Nat, m_readersUnlocking : Nat,
                   m_newReaders : 0..MAX_NEW_READERS, m_writer : BOOLEAN,
                   m_writeRequested : Requests, m_writerUnlocking : BOOLEAN]
    BY <1>1, <1>2 DEF Words
  <1>4. pc' \in [Threads -> Labels]
    BY DEF Moves, Goto, LockType
  <1>5. QED  BY <1>2, <1>3, <1>4 DEF Moves, LockType

\* Every step that writes or reads the lock counts as it moves.
LEMMA LookMoves ==
  ASSUME LockType, NEW t \in Threads, NEW from, NEW to, Look(t, from, to), to \in Labels,
         from \in Counted <=> to \in Counted,
         from \in Waiting <=> to \in Waiting,
         from \in Unlocks <=> to \in Unlocks
  PROVE  Moves(t, lock, from, to)
  <1>1. lock \in Words
    BY DEF LockType, Words
  <1>2. Counts(lock, from, to)
    BY DEF Counts, Moved
  <1>3. op' \in [Threads -> {"none", "readLock", "tryReadLock", "writeLock", "tryWriteLock"}]
    BY DEF Look, Write, LockType
  <1>4. QED  BY <1>1, <1>2, <1>3 DEF Moves, Look, Write, LockType

\* A successful compare-and-set that counts its thread.
LEMMA WriteMoves ==
  ASSUME LockType, NEW t \in Threads, NEW new \in Words, NEW from, NEW to,
         Write(t, from, new, to), to \in Labels, Counts(new, from, to)
  PROVE  Moves(t, new, from, to)
  <1>1. op' \in [Threads -> {"none", "readLock", "tryReadLock", "writeLock", "tryWriteLock"}]
    BY DEF Write, LockType
  <1>2. QED  BY <1>1 DEF Moves, Write, LockType

\* The single assignments to the words of the lock.
LEMMA WordFacts ==
  ASSUME LockType
  PROVE  /\ lock \in Words
         /\ \A n \in {-1, 1} :
              /\ [lock EXCEPT !.m_readers = @ + n] \in Words
              /\ [lock EXCEPT !.m_readersWaiting = @ + n] \in Words
              /\ [lock EXCEPT !.m_readersUnlocking = @ + n] \in Words
         /\ \A b \in BOOLEAN : /\ [lock EXCEPT !.m_writer = b] \in Words
                               /\ [lock EXCEPT !.m_writerUnlocking = b] \in Words
         /\ \A r \in Requests : [lock EXCEPT !.m_writeRequested = r] \in Words
         /\ \A n \in 0..MAX_NEW_READERS : [lock EXCEPT !.m_newReaders = n] \in Words
  BY DEF LockType, Words

-----------------------------------------------------------------------------
(* Reader steps *)

\* The words that only writers change, and Help.
SameFlags ==
    /\ lock'.m_writer = lock.m_writer
    /\ lock'.m_writeRequested = lock.m_writeRequested
    /\ lock'.m_writerUnlocking = lock.m_writerUnlocking

\* What every step of a reader keeps to: the words it has looked at before it
\* gets where it goes.
ReaderMove(t, from, to) ==
    /\ Moves(t, lock', from, to)
    /\ from \notin Protocol \cup Ending /\ to \notin Protocol \cup Ending
    /\ seen' = seen
    /\ \A u \in Threads \ {t} : op'[u] = op[u]
    /\ SameFlags
    /\ to = "help" => from = "checkRequested" /\ lock.m_writeRequested = "WRITE_WAIT"
    /\ to \in {"leave", "checkRequested", "help", "unlocked"} =>
          from \in {"leave", "checkRequested", "help"} \/ ~lock.m_writerUnlocking
    /\ to \in Active => from \in Active \/ ~lock.m_writer
    /\ to \in {"wait", "waiting"} => from = "wait" \/ lock.m_writer
    /\ to = "unwait" => from = "waiting" /\ ~lock.m_writer
    /\ to = "checkRequested" => from = "leave" /\ lock.m_readers = 1
    /\ from = "waiting" => to = "unwait"

\* The steps of readers that only look.
LEMMA ReaderLooks ==
  ASSUME LockType, NEW t \in Threads,
         \/ GateRequested(t) \/ GateWriter(t) \/ GateNew(t) \/ LookWriter(t) \/ Waited(t)
         \/ NoteRequested(t) \/ NoteWriter(t) \/ CheckUnlocking(t) \/ CheckRequested(t)
  PROVE  \E from, to : ReaderMove(t, from, to)
  <1> DEFINE Fits(from, to) ==
         /\ Look(t, from, to)
         /\ to \in Labels
         /\ from \in Counted <=> to \in Counted
         /\ from \in Waiting <=> to \in Waiting
         /\ from \in Unlocks <=> to \in Unlocks
         /\ from \notin Protocol \cup Ending /\ to \notin Protocol \cup Ending
         /\ to = "help" => from = "checkRequested" /\ lock.m_writeRequested = "WRITE_WAIT"
         /\ to \in {"leave", "checkRequested", "help", "unlocked"} =>
               from \in {"leave", "checkRequested", "help"} \/ ~lock.m_writerUnlocking
         /\ to \in Active => from \in Active \/ ~lock.m_writer
         /\ to \in {"wait", "waiting"} => from = "wait" \/ lock.m_writer
         /\ to = "unwait" => from = "waiting" /\ ~lock.m_writer
         /\ to # "checkRequested"
         /\ from = "waiting" => to = "unwait"
  <1>1. ASSUME NEW from, NEW to, Fits(from, to)
        PROVE  ReaderMove(t, from, to)
    <2>1. Moves(t, lock, from, to)
      BY <1>1, LookMoves
    <2>2. lock' = lock /\ seen' = seen /\ \A u \in Threads \ {t} : op'[u] = op[u]
      BY <1>1 DEF Look, Write, LockType
    <2>3. QED  BY <1>1, <2>1, <2>2 DEF ReaderMove, SameFlags
  <1>2. SUFFICES \E from, to : Fits(from, to)
    BY <1>1
  <1>3. CASE GateRequested(t)
    <2>1. \E to \in {"gateWriter", "enter"} : Fits("gateRequested", to)
      BY <1>3 DEF GateRequested, Labels, Counted, Active, Waiting, Unlocks, Protocol, Ending
    <2>2. QED  BY <2>1
  <1>4. CASE GateWriter(t)
    <2>1. \E to \in {"gateNew", "enter"} : Fits("gateWriter", to)
      BY <1>4 DEF GateWriter, Labels, Counted, Active, Waiting, Unlocks, Protocol, Ending
    <2>2. QED  BY <2>1
  <1>5. CASE GateNew(t)
    <2>1. \E to \in {"enter", "gateRequested", "idle"} : Fits("gateNew", to)
      BY <1>5 DEF GateNew, Labels, Counted, Active, Waiting, Unlocks, Protocol, Ending
    <2>2. QED  BY <2>1
  <1>6. CASE LookWriter(t)
    <2>1. \E to \in {"noteRequested", "wait", "takeBack"} : Fits("look", to)
      BY <1>6 DEF LookWriter, Labels, Counted, Active, Waiting, Unlocks, Protocol, Ending
    <2>2. QED  BY <2>1
  <1>7. CASE Waited(t)
    <2>1. Fits("waiting", "unwait")
      BY <1>7 DEF Waited, Labels, Counted, Active, Waiting, Unlocks, Protocol, Ending
    <2>2. QED  BY <2>1
  <1>8. CASE NoteRequested(t)
    <2>1. \E to \in {"noteWriter", "reading"} : Fits("noteRequested", to)
      BY <1>8 DEF NoteRequested, Labels, Counted, Active, Waiting, Unlocks, Protocol, Ending
    <2>2. QED  BY <2>1
  <1>9. CASE NoteWriter(t)
    <2>1. \E to \in {"noteNew", "reading"} : Fits("noteWriter", to)
      BY <1>9 DEF NoteWriter, Labels, Counted, Active, Waiting, Unlocks, Protocol, Ending
    <2>2. QED  BY <2>1
  <1>10. CASE CheckUnlocking(t)
    <2>1. \E to \in {"backOff", "leave"} : Fits("checkUnlocking", to)
      BY <1>10 DEF CheckUnlocking, Labels, Counted, Active, Waiting, Unlocks, Protocol, Ending
    <2>2. QED  BY <2>1
  <1>11. CASE CheckRequested(t)
    <2>1. \E to \in {"help", "unlocked"} : Fits("checkRequested", to)
      BY <1>11 DEF CheckRequested, Labels, Counted, Active, Waiting, Unlocks, Protocol, Ending
    <2>2. QED  BY <2>1
  <1>12. QED
    BY <1>3, <1>4, <1>5, <1>6, <1>7, <1>8, <1>9, <1>10, <1>11

\* The steps of readers that count.
LEMMA ReaderWrites ==
  ASSUME LockType, NEW t \in Threads,
         \/ Enter(t) \/ Wait(t) \/ Unwait(t) \/ TakeBack(t) \/ NoteNew(t) \/ readUnlock(t)
         \/ BackOff(t) \/ Again(t) \/ Leave(t) \/ Unlocked(t)
  PROVE  \E from, to : ReaderMove(t, from, to)
  <1> DEFINE Fits(from, to) ==
         /\ Write(t, from, lock', to)
         /\ lock' \in Words /\ SameFlags
         /\ Counts(lock', from, to)
         /\ to \in Labels
         /\ from \notin Protocol \cup Ending /\ to \notin Protocol \cup Ending
         /\ to # "help"
         /\ to \in {"leave", "checkRequested", "help", "unlocked"} =>
               from \in {"leave", "checkRequested", "help"} \/ ~lock.m_writerUnlocking
         /\ to \in Active => from \in Active \/ ~lock.m_writer
         /\ to \in {"wait", "waiting"} => from = "wait" \/ lock.m_writer
         /\ to # "unwait"
         /\ to = "checkRequested" => from = "leave" /\ lock.m_readers = 1
         /\ from = "waiting" => to = "unwait"
  <1>1. ASSUME NEW from, NEW to, Fits(from, to)
        PROVE  ReaderMove(t, from, to)
    <2>1. Moves(t, lock', from, to)
      <3>1. ASSUME NEW new \in Words, new = lock'
            PROVE  Moves(t, new, from, to)
        BY <1>1, <3>1, WriteMoves
      <3>2. QED  BY <1>1, <3>1
    <2>2. seen' = seen /\ \A u \in Threads \ {t} : op'[u] = op[u]
      BY <1>1 DEF Write, LockType
    <2>3. QED  BY <1>1, <2>1, <2>2 DEF ReaderMove
  <1>2. SUFFICES \E from, to : Fits(from, to)
    BY <1>1
  <1>3. lock.m_readers \in Nat /\ lock.m_readersWaiting \in Nat /\ lock.m_readersUnlocking \in Nat
    BY DEF LockType
  <1>4. CASE Enter(t)
    <2>1. lock' = [lock EXCEPT !.m_readers = @ + 1]
      BY <1>4 DEF Enter, Write
    <2>2. lock' \in Words /\ SameFlags
      BY <2>1 DEF LockType, Words, SameFlags
    <2>3. /\ lock'.m_readers = lock.m_readers + 1
          /\ lock'.m_readersWaiting = lock.m_readersWaiting
          /\ lock'.m_readersUnlocking = lock.m_readersUnlocking
      BY <2>1 DEF LockType
    <2>4. Write(t, "enter", lock', "look")
      BY <1>4, <2>1 DEF Enter, Write
    <2>5. Counts(lock', "enter", "look")
      BY <1>3, <2>3 DEF Counts, Moved, Counted, Active, Waiting, Unlocks
    <2>6. Fits("enter", "look")
      BY <2>2, <2>4, <2>5 DEF Labels, Counted, Active, Waiting, Unlocks, Protocol, Ending
    <2>7. QED  BY <2>6
  <1>5. CASE Wait(t)
    <2>1. lock' = [lock EXCEPT !.m_readersWaiting = @ + 1]
      BY <1>5 DEF Wait, Write
    <2>2. lock' \in Words /\ SameFlags
      BY <2>1 DEF LockType, Words, SameFlags
    <2>3. /\ lock'.m_readersWaiting = lock.m_readersWaiting + 1
          /\ lock'.m_readers = lock.m_readers
          /\ lock'.m_readersUnlocking = lock.m_readersUnlocking
      BY <2>1 DEF LockType
    <2>4. Write(t, "wait", lock', "waiting")
      BY <1>5, <2>1 DEF Wait, Write
    <2>5. Counts(lock', "wait", "waiting")
      BY <1>3, <2>3 DEF Counts, Moved, Counted, Active, Waiting, Unlocks
    <2>6. Fits("wait", "waiting")
      BY <2>2, <2>4, <2>5 DEF Labels, Counted, Active, Waiting, Unlocks, Protocol, Ending
    <2>7. QED  BY <2>6
  <1>6. CASE Unwait(t)
    <2>1. lock' = [lock EXCEPT !.m_readersWaiting = @ - 1]
      BY <1>6 DEF Unwait, Write
    <2>2. lock' \in Words /\ SameFlags
      BY <2>1 DEF LockType, Words, SameFlags
    <2>3. /\ lock'.m_readersWaiting = lock.m_readersWaiting - 1
          /\ lock'.m_readers = lock.m_readers
          /\ lock'.m_readersUnlocking = lock.m_readersUnlocking
      BY <2>1 DEF LockType
    <2>4. Write(t, "unwait", lock', "noteRequested")
      BY <1>6, <2>1 DEF Unwait, Write
    <2>5. Counts(lock', "unwait", "noteRequested")
      BY <1>3, <2>3 DEF Counts, Moved, Counted, Active, Waiting, Unlocks
    <2>6. Fits("unwait", "noteRequested")
      BY <2>2, <2>4, <2>5 DEF Labels, Counted, Active, Waiting, Unlocks, Protocol, Ending
    <2>7. QED  BY <2>6
  <1>7. CASE TakeBack(t)
    <2>1. lock' = [lock EXCEPT !.m_readers = @ - 1]
      BY <1>7 DEF TakeBack, Write
    <2>2. lock' \in Words /\ SameFlags
      BY <2>1 DEF LockType, Words, SameFlags
    <2>3. /\ lock'.m_readers = lock.m_readers - 1
          /\ lock'.m_readersWaiting = lock.m_readersWaiting
          /\ lock'.m_readersUnlocking = lock.m_readersUnlocking
      BY <2>1 DEF LockType
    <2>4. Write(t, "takeBack", lock', "idle")
      BY <1>7, <2>1 DEF TakeBack, Write
    <2>5. Counts(lock', "takeBack", "idle")
      BY <1>3, <2>3 DEF Counts, Moved, Counted, Active, Waiting, Unlocks
    <2>6. Fits("takeBack", "idle")
      BY <2>2, <2>4, <2>5 DEF Labels, Counted, Active, Waiting, Unlocks, Protocol, Ending
    <2>7. QED  BY <2>6
  <1>8. CASE readUnlock(t)
    <2>1. lock' = [lock EXCEPT !.m_readersUnlocking = @ + 1]
      BY <1>8 DEF readUnlock, Unlocking, Write
    <2>2. lock' \in Words /\ SameFlags
      BY <2>1 DEF LockType, Words, SameFlags
    <2>3. /\ lock'.m_readersUnlocking = lock.m_readersUnlocking + 1
          /\ lock'.m_readers = lock.m_readers
          /\ lock'.m_readersWaiting = lock.m_readersWaiting
      BY <2>1 DEF LockType
    <2>4. Write(t, "reading", lock', "checkUnlocking")
      BY <1>8, <2>1 DEF readUnlock, Unlocking, Write
    <2>5. Counts(lock', "reading", "checkUnlocking")
      BY <1>3, <2>3 DEF Counts, Moved, Counted, Active, Waiting, Unlocks
    <2>6. Fits("reading", "checkUnlocking")
      BY <2>2, <2>4, <2>5 DEF Labels, Counted, Active, Waiting, Unlocks, Protocol, Ending
    <2>7. QED  BY <2>6
  <1>9. CASE BackOff(t)
    <2>1. lock' = [lock EXCEPT !.m_readersUnlocking = @ - 1]
      BY <1>9 DEF BackOff, Write
    <2>2. lock' \in Words /\ SameFlags
      BY <2>1 DEF LockType, Words, SameFlags
    <2>3. /\ lock'.m_readersUnlocking = lock.m_readersUnlocking - 1
          /\ lock'.m_readers = lock.m_readers
          /\ lock'.m_readersWaiting = lock.m_readersWaiting
      BY <2>1 DEF LockType
    <2>4. Write(t, "backOff", lock', "again")
      BY <1>9, <2>1 DEF BackOff, Write
    <2>5. Counts(lock', "backOff", "again")
      BY <1>3, <2>3 DEF Counts, Moved, Counted, Active, Waiting, Unlocks
    <2>6. Fits("backOff", "again")
      BY <2>2, <2>4, <2>5 DEF Labels, Counted, Active, Waiting, Unlocks, Protocol, Ending
    <2>7. QED  BY <2>6
  <1>10. CASE Again(t)
    <2>1. lock' = [lock EXCEPT !.m_readersUnlocking = @ + 1]
      BY <1>10 DEF Again, Unlocking, Write
    <2>2. lock' \in Words /\ SameFlags
      BY <2>1 DEF LockType, Words, SameFlags
    <2>3. /\ lock'.m_readersUnlocking = lock.m_readersUnlocking + 1
          /\ lock'.m_readers = lock.m_readers
          /\ lock'.m_readersWaiting = lock.m_readersWaiting
      BY <2>1 DEF LockType
    <2>4. Write(t, "again", lock', "checkUnlocking")
      BY <1>10, <2>1 DEF Again, Unlocking, Write
    <2>5. Counts(lock', "again", "checkUnlocking")
      BY <1>3, <2>3 DEF Counts, Moved, Counted, Active, Waiting, Unlocks
    <2>6. Fits("again", "checkUnlocking")
      BY <2>2, <2>4, <2>5 DEF Labels, Counted, Active, Waiting, Unlocks, Protocol, Ending
    <2>7. QED  BY <2>6
  <1>11. CASE Leave(t)
    <2>1. lock' = [lock EXCEPT !.m_readers = @ - 1]
      BY <1>11 DEF Leave, Write
    <2>2. lock' \in Words /\ SameFlags
      BY <2>1 DEF LockType, Words, SameFlags
    <2>3. /\ lock'.m_readers = lock.m_readers - 1
          /\ lock'.m_readersWaiting = lock.m_readersWaiting
          /\ lock'.m_readersUnlocking = lock.m_readersUnlocking
      BY <2>1 DEF LockType
    <2>4. PICK to \in {"checkRequested", "unlocked"} :
             Write(t, "leave", lock', to) /\ (to = "checkRequested" => lock.m_readers = 1)
      BY <1>11, <2>1 DEF Leave, Write
    <2>5. Counts(lock', "leave", to)
      BY <1>3, <2>3 DEF Counts, Moved, Counted, Active, Waiting, Unlocks
    <2>6. Fits("leave", to)
      BY <2>2, <2>4, <2>5 DEF Labels, Counted, Active, Waiting, Unlocks, Protocol, Ending
    <2>7. QED  BY <2>6
  <1>12. CASE Unlocked(t)
    <2>1. lock' = [lock EXCEPT !.m_readersUnlocking = @ - 1]
      BY <1>12 DEF Unlocked, Write
    <2>2. lock' \in Words /\ SameFlags
      BY <2>1 DEF LockType, Words, SameFlags
    <2>3. /\ lock'.m_readersUnlocking = lock.m_readersUnlocking - 1
          /\ lock'.m_readers = lock.m_readers
          /\ lock'.m_readersWaiting = lock.m_readersWaiting
      BY <2>1 DEF LockType
    <2>4. Write(t, "unlocked", lock', "idle")
      BY <1>12, <2>1 DEF Unlocked, Write
    <2>5. Counts(lock', "unlocked", "idle")
      BY <1>3, <2>3 DEF Counts, Moved, Counted, Active, Waiting, Unlocks
    <2>6. Fits("unlocked", "idle")
      BY <2>2, <2>4, <2>5 DEF Labels, Counted, Active, Waiting, Unlocks, Protocol, Ending
    <2>7. QED  BY <2>6
  <1>13. CASE NoteNew(t)
    <2>1. /\ lock' \in Words /\ SameFlags
          /\ lock'.m_readers = lock.m_readers
          /\ lock'.m_readersWaiting = lock.m_readersWaiting
          /\ lock'.m_readersUnlocking = lock.m_readersUnlocking
      BY <1>13, MaxAssumption DEF NoteNew, Write, LockType, Words, SameFlags
    <2>2. Write(t, "noteNew", lock', "reading")
      BY <1>13 DEF NoteNew, Write
    <2>3. Counts(lock', "noteNew", "reading")
      BY <2>1 DEF Counts, Moved, Counted, Active, Waiting, Unlocks
    <2>4. Fits("noteNew", "reading")
      BY <2>1, <2>2, <2>3 DEF Labels, Counted, Active, Waiting, Unlocks, Protocol, Ending
    <2>5. QED  BY <2>4
  <1>14. QED
    BY <1>4, <1>5, <1>6, <1>7, <1>8, <1>9, <1>10, <1>11, <1>12, <1>13

\* readLock starts.
LEMMA ReaderStarts ==
  ASSUME LockType, NEW t \in Threads, StartRead(t)
  PROVE  ReaderMove(t, "idle", "gateRequested")
  <1>1. PICK o \in {"readLock", "tryReadLock"} : Start(t, o, "gateRequested")
    BY DEF StartRead
  <1>2. lock' = lock /\ seen' = seen /\ ops' = ops /\ Goto(t, "idle", "gateRequested")
    BY <1>1 DEF Start
  <1>3. /\ op' \in [Threads -> {"none", "readLock", "tryReadLock", "writeLock", "tryWriteLock"}]
        /\ \A u \in Threads \ {t} : op'[u] = op[u]
    BY <1>1 DEF Start, LockType
  <1>4. lock \in Words /\ Counts(lock, "idle", "gateRequested")
    BY DEF LockType, Words, Counts, Moved, Counted, Active, Waiting, Unlocks
  <1>5. Moves(t, lock', "idle", "gateRequested")
    BY <1>2, <1>3, <1>4 DEF Moves, LockType, Labels
  <1>6. QED
    BY <1>2, <1>3, <1>5 DEF ReaderMove, SameFlags, Active, Protocol, Ending

\* A label that a thread neither leaves nor takes is held as before.
LEMMA AtKept ==
  ASSUME NEW S, NEW t \in Threads, NEW from, NEW to, pc \in [Threads -> Labels],
         Goto(t, from, to), from \in S <=> to \in S
  PROVE  At(S)' = At(S)
  BY DEF At, Goto

\* How a thread may come to some labels: it was there, or this step took it.
LEMMA AtTaken ==
  ASSUME NEW S, NEW t \in Threads, NEW from, NEW to, pc \in [Threads -> Labels],
         Goto(t, from, to)
  PROVE  /\ At(S)' \subseteq At(S) \cup {t}
         /\ to \notin S => At(S)' \subseteq At(S)
         /\ from \in S => t \in At(S)
         /\ to \in S => t \in At(S)'
         /\ to \notin S => t \notin At(S)'
  BY DEF At, Goto

\* No step of a reader disturbs the writer.
LEMMA ReaderKeeps ==
  ASSUME LockType, CountInv, NotMixed, WriterInv,
         NEW t \in Threads, NEW from, NEW to, ReaderMove(t, from, to),
         LockType', CountInv'
  PROVE  WriterInv'
  <1>1. pc \in [Threads -> Labels] /\ Goto(t, from, to) /\ ops' = ops
    BY DEF LockType, ReaderMove, Moves
  <1>2. /\ lock'.m_writer = lock.m_writer
        /\ lock'.m_writeRequested = lock.m_writeRequested
        /\ lock'.m_writerUnlocking = lock.m_writerUnlocking
        /\ seen' = seen /\ \A u \in Threads \ {t} : op'[u] = op[u]
        /\ lock.m_writer \in BOOLEAN /\ lock'.m_writer \in BOOLEAN
    BY DEF ReaderMove, SameFlags, LockType
  <1>3. \A S \in SUBSET (Protocol \cup Ending) : At(S)' = At(S) /\ t \notin At(S)
    <2>1. ASSUME NEW S \in SUBSET (Protocol \cup Ending)
          PROVE  At(S)' = At(S) /\ t \notin At(S)
      <3>1. from \notin S /\ to \notin S
        BY DEF ReaderMove
      <3>2. QED  BY <1>1, <3>1, AtKept DEF At, Goto
    <2>2. QED  BY <2>1
  <1>4. \A u \in Threads \ {t} : pc'[u] = pc[u]
    BY <1>1 DEF Goto
  <1>5. At(Protocol)' = At(Protocol) /\ t \notin At(Protocol)
    BY <1>3
  <1>6. At(Ending)' = At(Ending)
    BY <1>3
  <1>7. At(Holds)' = At(Holds) /\ At({"giveUp", "clearRequested"})' = At({"giveUp", "clearRequested"})
    BY <1>3 DEF Holds, Protocol
  <1>8. /\ At({"clearWriter", "clearRequested", "written"})' = At({"clearWriter", "clearRequested", "written"})
        /\ At({"whose", "quiet", "clearWriter"})' = At({"whose", "quiet", "clearWriter"})
        /\ At({"reset", "writing"})' = At({"reset", "writing"})
        /\ At({"getSecond"})' = At({"getSecond"})
        /\ t \notin At({"getSecond"})
    BY <1>3 DEF Protocol, Ending
  <1>9. ProtocolInv'
    <2>1. ProtocolInv
      BY DEF WriterInv
    <2>2. /\ \A u, v \in At(Protocol)' : u = v
          /\ \A u, v \in At(Ending)' : u = v
          /\ (lock'.m_writeRequested # "WRITE_IDLE") <=> (At(Protocol)' # {})
          /\ lock'.m_writerUnlocking <=> (At(Ending)' # {})
      BY <2>1, <1>2, <1>5, <1>6 DEF ProtocolInv
    <2>3. \A u \in At(Protocol)' :
            /\ op'[u] \in ops'
            /\ \/ op'[u] = "writeLock" /\ lock'.m_writeRequested = "WRITE_WAIT"
               \/ op'[u] = "tryWriteLock" /\ lock'.m_writeRequested = "WRITE_TRY"
            /\ pc'[u] \in {"giveUp", "writeUnlock"} => op'[u] = "tryWriteLock"
            /\ pc'[u] \in {"reset", "quiet"} => op'[u] = "writeLock"
      <3>1. ASSUME NEW u \in At(Protocol)
            PROVE  op'[u] = op[u] /\ pc'[u] = pc[u]
        BY <3>1, <1>2, <1>4, <1>5 DEF At
      <3>2. QED  BY <2>1, <3>1, <1>1, <1>2, <1>5 DEF ProtocolInv
    <2>4. QED  BY <2>2, <2>3 DEF ProtocolInv
  <1>10. FlagInv'
    <2>1. At({"help"})' # {} => lock'.m_writeRequested = "WRITE_WAIT"
      <3>1. to = "help" => lock.m_writeRequested = "WRITE_WAIT"
        BY DEF ReaderMove
      <3>2. to # "help" => At({"help"})' \subseteq At({"help"})
        BY <1>1, AtTaken
      <3>3. QED  BY <1>2, <3>1, <3>2 DEF WriterInv, FlagInv
    <2>2. QED  BY <2>1, <1>2, <1>5, <1>7 DEF WriterInv, FlagInv
  <1>11. CleanInv'
    <2> DEFINE Late == {"leave", "checkRequested", "help", "unlocked"}
               Clear == {"clearWriter", "clearRequested", "written"}
    <2>1. SUFFICES ASSUME "tryWriteLock" \notin ops, At(Clear) # {}
                   PROVE  At(Late)' = {}
      BY <1>1, <1>8 DEF CleanInv
    <2>2. At(Late) = {} /\ lock.m_writerUnlocking
      <3>1. At(Clear) \subseteq At(Ending)
        BY DEF At, Ending
      <3>2. QED  BY <2>1, <3>1 DEF WriterInv, CleanInv, ProtocolInv
    <2>3. to \notin Late
      <3>1. from \notin Late
        BY <2>2, <1>1, AtTaken
      <3>2. QED  BY <2>2, <3>1 DEF ReaderMove
    <2>4. QED  BY <2>2, <2>3, <1>1, AtTaken
  <1>12. Fresh => Fresh'
    <2>1. SUFFICES ASSUME Fresh PROVE Fresh'
      OBVIOUS
    <2>2. from # "unwait" /\ (~lock.m_writer => from \notin {"wait", "waiting"})
      BY <2>1, <1>1, AtTaken DEF Fresh
    <2>3. to # "unwait" /\ (~lock.m_writer => to \notin {"wait", "waiting"})
      BY <2>2 DEF ReaderMove
    <2>4. At({"unwait"})' = {}
      BY <2>1, <2>3, <1>1, AtTaken DEF Fresh
    <2>5. ~lock.m_writer => At({"wait", "waiting"})' = {}
      BY <2>1, <2>3, <1>1, AtTaken DEF Fresh
    <2>6. QED  BY <2>4, <2>5, <1>2 DEF Fresh
  <1>13. FreshInv'
    <2>1. lock'.m_writer => Fresh'
      BY <1>2, <1>12 DEF WriterInv, FreshInv
    <2>2. At({"help", "setWriter"})' # {} => Fresh'
      <3>1. CASE At({"help", "setWriter"}) # {}
        BY <3>1, <1>12 DEF WriterInv, FreshInv
      <3>2. CASE At({"help", "setWriter"}) = {} /\ At({"help", "setWriter"})' # {}
        <4>1. to = "help"
          <5>1. to \in {"help", "setWriter"}
            BY <3>2, <1>1, AtTaken
          <5>2. QED  BY <5>1 DEF ReaderMove, Protocol
        <4>2. from = "checkRequested" /\ lock.m_writeRequested = "WRITE_WAIT"
          BY <4>1 DEF ReaderMove
        <4>3. "writeLock" \in ops
          <5>1. ProtocolInv
            BY DEF WriterInv
          <5>2. PICK w \in At(Protocol) : TRUE
            BY <4>2, <5>1 DEF ProtocolInv
          <5>3. op[w] = "writeLock" /\ op[w] \in ops
            BY <4>2, <5>1, <5>2 DEF ProtocolInv
          <5>4. QED  BY <5>3
        <4>4. "tryWriteLock" \notin ops
          BY <4>3 DEF NotMixed
        <4>5. t \in At({"checkRequested"})
          BY <4>2, <1>1, AtTaken
        <4>6. Fresh
          BY <4>4, <4>5 DEF WriterInv, FreshInv
        <4>7. QED  BY <4>6, <1>12
      <3>3. QED  BY <3>1, <3>2
    <2>3. "tryWriteLock" \notin ops /\ At({"checkRequested"})' # {} => Fresh'
      <3>1. CASE "tryWriteLock" \notin ops /\ At({"checkRequested"}) # {}
        BY <3>1, <1>12 DEF WriterInv, FreshInv
      <3>2. CASE At({"checkRequested"}) = {} /\ At({"checkRequested"})' # {}
        <4>1. to = "checkRequested"
          BY <3>2, <1>1, AtTaken
        <4>2. from = "leave" /\ lock.m_readers = 1
          BY <4>1 DEF ReaderMove
        <4>3. lock'.m_readers = 0
          <5>1. Moved(lock.m_readers, lock'.m_readers, Counted, from, to)
            BY DEF ReaderMove, Moves, Counts
          <5>2. QED  BY <4>1, <4>2, <5>1 DEF Moved, Counted, Active
        <4>4. At(Counted)' = {}
          <5>1. Cardinality(At(Counted)') = 0
            BY <4>3 DEF CountInv
          <5>2. IsFiniteSet(At(Counted)')
            <6>1. At(Counted)' \in SUBSET Threads
              BY DEF At
            <6>2. QED  BY <6>1, FS_Subset, ThreadsAssumption
          <5>3. QED  BY <5>1, <5>2, FS_EmptySet
        <4>5. At({"unwait"})' = {} /\ At({"wait", "waiting"})' = {}
          BY <4>4 DEF At, Counted, Active
        <4>6. QED  BY <4>5 DEF Fresh
      <3>3. QED  BY <3>1, <3>2
    <2>4. QED  BY <2>1, <2>2, <2>3, <1>1 DEF FreshInv
  <1>14. AloneInv'
    <2>1. lock.m_writer => At(Active)' \subseteq At(Active)
      <3>1. SUFFICES ASSUME lock.m_writer PROVE At(Active)' \subseteq At(Active)
        OBVIOUS
      <3>2. to \in Active => from \in Active
        BY <3>1 DEF ReaderMove
      <3>3. QED  BY <3>2, <1>1 DEF At, Goto
    <2>2. /\ At({"reset", "writing"}) \subseteq At(Holds)
          /\ At({"whose", "quiet", "clearWriter"}) \subseteq At(Holds)
          /\ At({"getSecond"}) \subseteq At(Holds)
      BY DEF At, Holds
    <2>3. At(Holds) # {} => lock.m_writer
      BY DEF WriterInv, FlagInv
    <2>4. \A u \in At({"getSecond"})' : seen'[u] <= lock'.m_readersWaiting
      <3>1. SUFFICES ASSUME NEW u \in At({"getSecond"})
                     PROVE  seen[u] <= lock'.m_readersWaiting
        BY <1>2, <1>8
      <3>2. At({"unwait"}) = {}
        BY <2>2, <2>3, <3>1 DEF WriterInv, FreshInv, Fresh
      <3>3. from # "unwait" /\ (from = "waiting" => to \in Waiting)
        <4>1. from # "unwait"
          BY <3>2, <1>1, AtTaken
        <4>2. QED  BY <4>1 DEF ReaderMove, Waiting
      <3>4. lock'.m_readersWaiting >= lock.m_readersWaiting
        <4>1. Moved(lock.m_readersWaiting, lock'.m_readersWaiting, Waiting, from, to)
          BY DEF ReaderMove, Moves, Counts
        <4>2. lock.m_readersWaiting \in Nat
          BY DEF LockType
        <4>3. QED  BY <3>3, <4>1, <4>2 DEF Moved, Waiting
      <3>5. seen[u] <= lock.m_readersWaiting
        BY <3>1 DEF WriterInv, AloneInv
      <3>6. seen[u] \in Nat /\ lock.m_readersWaiting \in Nat /\ lock'.m_readersWaiting \in Nat
        <4>1. u \in Threads /\ Cardinality(Threads) \in Nat
          BY <3>1, AtFinite DEF At
        <4>2. QED  BY <4>1 DEF LockType
      <3>7. QED  BY <3>4, <3>5, <3>6
    <2>5. At({"reset", "writing"})' # {} => At(Active)' = {}
      BY <2>1, <2>2, <2>3, <1>8 DEF WriterInv, AloneInv
    <2>6. "tryWriteLock" \notin ops /\ At({"whose", "quiet", "clearWriter"})' # {} => At(Active)' = {}
      BY <2>1, <2>2, <2>3, <1>8 DEF WriterInv, AloneInv
    <2>7. QED  BY <2>4, <2>5, <2>6, <1>1 DEF AloneInv
  <1>15. QED  BY <1>9, <1>10, <1>11, <1>13, <1>14 DEF WriterInv

\* The late store: it is for a writer that waits, and finds only new waiters.
LEMMA HelpMoves ==
  ASSUME LockType, NEW t \in Threads, Help(t)
  PROVE  Moves(t, lock', "help", "unlocked")
  <1>1. /\ lock' \in Words
        /\ lock'.m_readers = lock.m_readers
        /\ lock'.m_readersWaiting = lock.m_readersWaiting
        /\ lock'.m_readersUnlocking = lock.m_readersUnlocking
    <2>1. lock' = [lock EXCEPT !.m_writer = TRUE]
      BY DEF Help, Write
    <2>2. lock' \in Words
      BY <2>1, WordFacts
    <2>3. QED  BY <2>1, <2>2 DEF LockType
  <1>2. Write(t, "help", lock', "unlocked")
    BY DEF Help, Write
  <1>3. Counts(lock', "help", "unlocked")
    BY <1>1 DEF Counts, Moved, Counted, Active, Waiting, Unlocks
  <1>4. "unlocked" \in Labels
    BY DEF Labels, Unlocks
  <1>5. ASSUME NEW new \in Words, new = lock'
        PROVE  Moves(t, new, "help", "unlocked")
    BY <1>2, <1>3, <1>4, <1>5, WriteMoves
  <1>6. QED  BY <1>1, <1>5

\* A leaving reader that sets m_writer for the waiting writer does not disturb it.
LEMMA HelpKeeps ==
  ASSUME LockType, NotMixed, WriterInv, NEW t \in Threads, Help(t)
  PROVE  WriterInv'
  <1>1. /\ pc \in [Threads -> Labels] /\ Goto(t, "help", "unlocked") /\ ops' = ops /\ seen' = seen
        /\ op' = op
    BY DEF LockType, Help, Write
  <1>2. /\ lock'.m_writer = TRUE
        /\ lock'.m_writeRequested = lock.m_writeRequested
        /\ lock'.m_writerUnlocking = lock.m_writerUnlocking
        /\ lock'.m_readersWaiting = lock.m_readersWaiting
    BY DEF Help, Write, LockType
  <1>3. \A S : "help" \notin S /\ "unlocked" \notin S => At(S)' = At(S)
    BY <1>1, AtKept
  <1>4. t \in At({"help"})
    BY <1>1, AtTaken
  <1>5. lock.m_writeRequested = "WRITE_WAIT" /\ Fresh
    BY <1>4 DEF WriterInv, FlagInv, FreshInv, At
  <1>6. PICK w \in At(Protocol) : op[w] = "writeLock" /\ op[w] \in ops /\ \A u \in At(Protocol) : u = w
    <2>1. PICK w \in At(Protocol) : TRUE
      BY <1>5 DEF WriterInv, ProtocolInv
    <2>2. QED  BY <1>5, <2>1 DEF WriterInv, ProtocolInv
  <1>7. "tryWriteLock" \notin ops
    BY <1>6 DEF NotMixed
  <1>8. At({"giveUp", "clearRequested"}) = {}
    <2>1. SUFFICES ASSUME NEW u \in At({"giveUp", "clearRequested"}) PROVE FALSE
      OBVIOUS
    <2>2. u \in At(Protocol) /\ u = w
      BY <1>6, <2>1 DEF At, Protocol
    <2>3. pc[u] # "giveUp"
      BY <1>6, <2>2 DEF WriterInv, ProtocolInv
    <2>4. pc[u] # "clearRequested"
      <3>1. SUFFICES ASSUME pc[u] = "clearRequested" PROVE FALSE
        OBVIOUS
      <3>2. u \in At({"clearWriter", "clearRequested", "written"})
        BY <2>1, <3>1 DEF At
      <3>3. t \in At({"leave", "checkRequested", "help", "unlocked"})
        BY <1>4 DEF At
      <3>4. QED  BY <1>7, <3>2, <3>3 DEF WriterInv, CleanInv
    <2>5. QED  BY <2>1, <2>3, <2>4 DEF At
  <1>9. /\ At(Protocol)' = At(Protocol) /\ At(Ending)' = At(Ending) /\ At(Holds)' = At(Holds)
        /\ At(Active)' = At(Active)
    BY <1>3 DEF Protocol, Ending, Holds, Active
  <1>10. ProtocolInv'
    <2>1. \A u \in At(Protocol) : pc'[u] = pc[u]
      BY <1>1 DEF At, Goto, Protocol
    <2>2. QED  BY <1>1, <1>2, <1>9, <2>1 DEF WriterInv, ProtocolInv
  <1>11. FlagInv'
    <2>1. At({"giveUp", "clearRequested"})' = {}
      BY <1>3, <1>8
    <2>2. QED  BY <1>2, <1>5, <1>6, <1>9, <2>1 DEF FlagInv
  <1>12. CleanInv'
    <2>1. /\ At({"leave", "checkRequested", "help", "unlocked"})' = At({"leave", "checkRequested", "help", "unlocked"})
          /\ At({"clearWriter", "clearRequested", "written"})' = At({"clearWriter", "clearRequested", "written"})
      BY <1>1, AtKept
    <2>2. QED  BY <1>1, <2>1 DEF WriterInv, CleanInv
  <1>13. FreshInv'
    <2>1. Fresh'
      BY <1>2, <1>3, <1>5 DEF Fresh
    <2>2. QED  BY <2>1 DEF FreshInv
  <1>14. AloneInv'
    <2>1. /\ At({"getSecond"})' = At({"getSecond"})
          /\ At({"reset", "writing"})' = At({"reset", "writing"})
          /\ At({"whose", "quiet", "clearWriter"})' = At({"whose", "quiet", "clearWriter"})
      BY <1>3
    <2>2. QED  BY <1>1, <1>2, <1>9, <2>1 DEF WriterInv, AloneInv
  <1>15. QED  BY <1>10, <1>11, <1>12, <1>13, <1>14 DEF WriterInv

-----------------------------------------------------------------------------
(* Writer steps *)

\* The invariant while t is the thread in the write protocol.
OwnerInv(t) ==
    /\ \A u, v \in At(Ending) : u = v
    /\ lock.m_writerUnlocking <=> At(Ending) # {}
    /\ op[t] \in ops
    /\ \/ op[t] = "writeLock" /\ lock.m_writeRequested = "WRITE_WAIT"
       \/ op[t] = "tryWriteLock" /\ lock.m_writeRequested = "WRITE_TRY"
    /\ pc[t] \in {"giveUp", "writeUnlock"} => op[t] = "tryWriteLock"
    /\ pc[t] \in {"reset", "quiet"} => op[t] = "writeLock"
    /\ pc[t] \in Holds => lock.m_writer
    /\ lock.m_writer => pc[t] \notin {"giveUp", "clearRequested"}
    /\ At({"help"}) # {} => lock.m_writeRequested = "WRITE_WAIT"
    /\ CleanInv
    /\ lock.m_writer => Fresh
    /\ At({"help"}) # {} \/ pc[t] = "setWriter" => Fresh
    /\ "tryWriteLock" \notin ops /\ At({"checkRequested"}) # {} => Fresh
    /\ pc[t] = "getSecond" => seen[t] <= lock.m_readersWaiting
    /\ pc[t] \in {"reset", "writing"} => At(Active) = {}
    /\ "tryWriteLock" \notin ops /\ pc[t] \in {"whose", "quiet", "clearWriter"} => At(Active) = {}

\* A thread in the writer's protocol is alone there.
LEMMA OwnerHas ==
  ASSUME WriterInv, NEW t \in Threads, pc[t] \in Protocol
  PROVE  At(Protocol) = {t} /\ OwnerInv(t)
  <1>1. t \in At(Protocol)
    BY DEF At
  <1>2. At(Protocol) = {t}
    BY <1>1 DEF WriterInv, ProtocolInv
  <1>3. \A S : pc[t] \in S => t \in At(S)
    BY DEF At
  <1>4. /\ \A u, v \in At(Ending) : u = v
        /\ lock.m_writerUnlocking <=> At(Ending) # {}
        /\ op[t] \in ops
        /\ \/ op[t] = "writeLock" /\ lock.m_writeRequested = "WRITE_WAIT"
           \/ op[t] = "tryWriteLock" /\ lock.m_writeRequested = "WRITE_TRY"
        /\ pc[t] \in {"giveUp", "writeUnlock"} => op[t] = "tryWriteLock"
        /\ pc[t] \in {"reset", "quiet"} => op[t] = "writeLock"
    BY <1>1 DEF WriterInv, ProtocolInv
  <1>5. /\ pc[t] \in Holds => lock.m_writer
        /\ lock.m_writer => pc[t] \notin {"giveUp", "clearRequested"}
        /\ At({"help"}) # {} => lock.m_writeRequested = "WRITE_WAIT"
    BY <1>3 DEF WriterInv, FlagInv
  <1>6. /\ lock.m_writer => Fresh
        /\ "tryWriteLock" \notin ops /\ At({"checkRequested"}) # {} => Fresh
    BY DEF WriterInv, FreshInv
  <1>7. At({"help"}) # {} \/ pc[t] = "setWriter" => Fresh
    <2>1. At({"help"}) \subseteq At({"help", "setWriter"})
      BY DEF At
    <2>2. QED  BY <2>1, <1>3 DEF WriterInv, FreshInv
  <1>8. /\ pc[t] = "getSecond" => seen[t] <= lock.m_readersWaiting
        /\ pc[t] \in {"reset", "writing"} => At(Active) = {}
        /\ "tryWriteLock" \notin ops /\ pc[t] \in {"whose", "quiet", "clearWriter"} => At(Active) = {}
    BY <1>3 DEF WriterInv, AloneInv
  <1>9. CleanInv
    BY DEF WriterInv
  <1>10. QED  BY <1>2, <1>4, <1>5, <1>6, <1>7, <1>8, <1>9 DEF OwnerInv

\* A step that leaves one thread in the writer's protocol, where its flags say
\* it is.
LEMMA OwnerKeeps ==
  ASSUME NEW t \in Threads, At(Protocol)' = {t}, OwnerInv(t)'
  PROVE  WriterInv'
  <1>1. t \in At(Protocol)'
    OBVIOUS
  <1>2. \A S \in SUBSET Protocol : \A u \in At(S)' : u = t
    BY DEF At
  <1>3. \A S : At(S)' = {u \in Threads : pc'[u] \in S}
    BY DEF At
  <1>4. ProtocolInv'
    <2>1. lock'.m_writeRequested # "WRITE_IDLE"
      BY DEF OwnerInv
    <2>2. QED  BY <1>1, <2>1 DEF OwnerInv, ProtocolInv
  <1>5. FlagInv'
    <2>1. At(Holds)' # {} => lock'.m_writer
      BY <1>2, <1>3 DEF OwnerInv, Holds, Protocol
    <2>2. lock'.m_writer => At({"giveUp", "clearRequested"})' = {}
      BY <1>2, <1>3 DEF OwnerInv, Protocol
    <2>3. QED  BY <1>1, <2>1, <2>2 DEF OwnerInv, FlagInv
  <1>6. FreshInv'
    <2>1. At({"help", "setWriter"})' # {} => At({"help"})' # {} \/ pc'[t] = "setWriter"
      <3>1. SUFFICES ASSUME NEW u \in At({"help", "setWriter"})'
                     PROVE  At({"help"})' # {} \/ pc'[t] = "setWriter"
        OBVIOUS
      <3>2. CASE pc'[u] = "setWriter"
        <4>1. u \in At({"setWriter"})'
          BY <3>1, <3>2, <1>3
        <4>2. u = t
          BY <4>1, <1>2 DEF Protocol
        <4>3. QED  BY <3>2, <4>2
      <3>3. CASE pc'[u] = "help"
        BY <3>1, <3>3, <1>3
      <3>4. QED  BY <3>1, <3>2, <3>3, <1>3
    <2>2. QED  BY <2>1 DEF OwnerInv, FreshInv
  <1>7. AloneInv'
    <2>1. \A u \in At({"getSecond"})' : seen'[u] <= lock'.m_readersWaiting
      BY <1>2, <1>3 DEF OwnerInv, Protocol
    <2>2. At({"reset", "writing"})' # {} => At(Active)' = {}
      BY <1>2, <1>3 DEF OwnerInv, Protocol
    <2>3. "tryWriteLock" \notin ops' /\ At({"whose", "quiet", "clearWriter"})' # {} => At(Active)' = {}
      BY <1>2, <1>3 DEF OwnerInv, Protocol
    <2>4. QED  BY <2>1, <2>2, <2>3 DEF AloneInv
  <1>8. QED  BY <1>4, <1>5, <1>6, <1>7 DEF OwnerInv, WriterInv

\* What a step of the writer leaves alone: the readers, and the unlock of the
\* writer before it.
LEMMA WriterApart ==
  ASSUME NEW t \in Threads, NEW from, NEW to, pc \in [Threads -> Labels], Goto(t, from, to),
         from \notin Counted \cup Unlocks, to \notin Counted \cup Unlocks
  PROVE  /\ At(Active)' = At(Active) /\ At(Counted)' = At(Counted)
         /\ At({"help"})' = At({"help"})
         /\ At({"checkRequested"})' = At({"checkRequested"})
         /\ At({"unwait"})' = At({"unwait"})
         /\ At({"wait", "waiting"})' = At({"wait", "waiting"})
         /\ At({"leave", "checkRequested", "help", "unlocked"})'
               = At({"leave", "checkRequested", "help", "unlocked"})
         /\ from \notin Ending /\ to \notin Ending =>
               /\ At(Ending)' = At(Ending)
               /\ At({"clearWriter", "clearRequested", "written"})'
                     = At({"clearWriter", "clearRequested", "written"})
  <1>1. \A S \in SUBSET (Counted \cup Unlocks) : At(S)' = At(S)
    BY AtKept
  <1>2. /\ At(Active)' = At(Active) /\ At(Counted)' = At(Counted)
        /\ At({"help"})' = At({"help"})
        /\ At({"checkRequested"})' = At({"checkRequested"})
        /\ At({"unwait"})' = At({"unwait"})
        /\ At({"wait", "waiting"})' = At({"wait", "waiting"})
        /\ At({"leave", "checkRequested", "help", "unlocked"})'
              = At({"leave", "checkRequested", "help", "unlocked"})
    BY <1>1 DEF Counted, Active, Unlocks
  <1>3. \A S \in SUBSET Ending : from \notin Ending /\ to \notin Ending => At(S)' = At(S)
    BY AtKept
  <1>4. QED  BY <1>2, <1>3 DEF Ending

\* A step of the writer that stays in the write protocol.
WriterMove(t, from, to) ==
    /\ Moves(t, lock', from, to)
    /\ from \in Protocol /\ to \in Protocol
    /\ lock'.m_readers = lock.m_readers
    /\ lock'.m_readersWaiting = lock.m_readersWaiting
    /\ lock'.m_readersUnlocking = lock.m_readersUnlocking
    /\ lock'.m_writeRequested = lock.m_writeRequested
    /\ op' = op
    /\ to # "getSecond" => seen' = [seen EXCEPT ![t] = 0] \/ seen' = seen

\* A step within the writer's protocol leaves its thread alone there.
LEMMA WriterPlace ==
  ASSUME LockType, WriterInv, NEW t \in Threads, NEW from, NEW to, WriterMove(t, from, to)
  PROVE  /\ pc[t] = from /\ pc'[t] = to
         /\ OwnerInv(t) /\ At(Protocol)' = {t}
         /\ from \in Ending => At(Ending) = {t}
         /\ from \in Ending /\ to \in Ending => At(Ending)' = {t}
  <1>1. pc \in [Threads -> Labels] /\ Goto(t, from, to) /\ from \in Protocol /\ to \in Protocol
    BY DEF LockType, WriterMove, Moves
  <1>2. pc[t] = from /\ pc'[t] = to /\ \A u \in Threads \ {t} : pc'[u] = pc[u]
    BY <1>1 DEF Goto
  <1>3. At(Protocol) = {t} /\ OwnerInv(t)
    BY <1>1, <1>2, OwnerHas
  <1>4. At(Protocol)' = At(Protocol)
    BY <1>1, AtKept
  <1>5. from \in Ending => At(Ending) = {t}
    BY <1>2, <1>3 DEF OwnerInv, At
  <1>6. from \in Ending /\ to \in Ending => At(Ending)' = At(Ending)
    BY <1>1, AtKept
  <1>7. QED  BY <1>2, <1>3, <1>4, <1>5, <1>6

\* A write of the writer that changes neither the counters nor the request.
LEMMA WriterWrites ==
  ASSUME LockType, NEW t \in Threads, NEW from \in Protocol, NEW to \in Protocol,
         Write(t, from, lock', to), lock' \in Words,
         lock'.m_readers = lock.m_readers,
         lock'.m_readersWaiting = lock.m_readersWaiting,
         lock'.m_readersUnlocking = lock.m_readersUnlocking,
         lock'.m_writeRequested = lock.m_writeRequested
  PROVE  WriterMove(t, from, to) /\ seen' = seen
  <1>1. to \in Labels /\ to # "idle"
    BY DEF Labels, Protocol
  <1>2. Counts(lock', from, to)
    BY DEF Counts, Moved, Counted, Active, Waiting, Unlocks, Protocol
  <1>3. ASSUME NEW new \in Words, new = lock'
        PROVE  Moves(t, new, from, to)
    BY <1>1, <1>2, <1>3, WriteMoves
  <1>4. Moves(t, lock', from, to)
    BY <1>3
  <1>5. op' = op /\ seen' = seen
    BY <1>1 DEF Write, LockType
  <1>6. QED  BY <1>4, <1>5 DEF WriterMove

\* A step of the writer that only reads the word.
LEMMA WriterLooks ==
  ASSUME LockType, NEW t \in Threads, NEW from \in Protocol, NEW to \in Protocol, Look(t, from, to)
  PROVE  WriterMove(t, from, to) /\ seen' = seen /\ lock' = lock
  <1>1. lock' = lock /\ Write(t, from, lock', to)
    BY DEF Look, Write
  <1>2. lock' \in Words
    BY <1>1, WordFacts
  <1>3. QED  BY <1>1, <1>2, WriterWrites

\* The invariant after a step outside writeUnlock, from what the step does to
\* m_writer and to seen.
LEMMA EarlyKeeps ==
  ASSUME LockType, NotMixed, WriterInv, NEW t \in Threads, NEW from, NEW to, WriterMove(t, from, to),
         from \notin Ending, to \notin Ending,
         lock'.m_writer = lock.m_writer \/ (lock'.m_writer = TRUE /\ from = "setWriter"),
         lock'.m_writerUnlocking = lock.m_writerUnlocking,
         to \in Holds => from \in Holds \cup {"setWriter"},
         from = "setWriter" => lock'.m_writer = TRUE,
         to = "giveUp" => from = "helped" /\ ~lock.m_writer /\ op[t] # "writeLock",
         to = "setWriter" => At(Counted) = {} \/ lock.m_writer,
         to = "getSecond" => seen'[t] <= lock.m_readersWaiting,
         to \in {"reset", "writing"} => At(Active) = {},
         to = "reset" => op[t] = "writeLock",
         to = "writeUnlock" => op[t] # "writeLock"
  PROVE  WriterInv'
  <1>1. pc \in [Threads -> Labels] /\ Goto(t, from, to) /\ ops' = ops /\ op' = op
    BY DEF LockType, WriterMove, Moves
  <1>2. /\ from \notin Counted \cup Unlocks /\ to \notin Counted \cup Unlocks
        /\ to \notin {"clearRequested", "whose", "quiet", "clearWriter"}
    BY DEF WriterMove, Protocol, Ending, Counted, Active, Unlocks
  <1>3. /\ At(Active)' = At(Active) /\ At(Counted)' = At(Counted)
        /\ At({"help"})' = At({"help"})
        /\ At({"checkRequested"})' = At({"checkRequested"})
        /\ At({"unwait"})' = At({"unwait"})
        /\ At({"wait", "waiting"})' = At({"wait", "waiting"})
        /\ At({"leave", "checkRequested", "help", "unlocked"})'
              = At({"leave", "checkRequested", "help", "unlocked"})
        /\ At(Ending)' = At(Ending)
        /\ At({"clearWriter", "clearRequested", "written"})'
              = At({"clearWriter", "clearRequested", "written"})
    BY <1>1, <1>2, WriterApart
  <1>4. pc[t] = from /\ pc'[t] = to /\ OwnerInv(t) /\ At(Protocol)' = {t}
    BY WriterPlace
  <1>5. /\ lock'.m_readersWaiting = lock.m_readersWaiting
        /\ lock'.m_writeRequested = lock.m_writeRequested
    BY DEF WriterMove
  <1>6. CleanInv'
    BY <1>1, <1>3 DEF WriterInv, CleanInv
  <1>7. /\ \A u, v \in At(Ending)' : u = v
        /\ lock'.m_writerUnlocking <=> At(Ending)' # {}
    BY <1>3, <1>4 DEF OwnerInv
  <1>8. /\ op'[t] \in ops'
        /\ \/ op'[t] = "writeLock" /\ lock'.m_writeRequested = "WRITE_WAIT"
           \/ op'[t] = "tryWriteLock" /\ lock'.m_writeRequested = "WRITE_TRY"
        /\ pc'[t] \in {"giveUp", "writeUnlock"} => op'[t] = "tryWriteLock"
        /\ pc'[t] \in {"reset", "quiet"} => op'[t] = "writeLock"
    BY <1>1, <1>2, <1>4, <1>5 DEF OwnerInv
  <1>9. /\ pc'[t] \in Holds => lock'.m_writer
        /\ lock'.m_writer => pc'[t] \notin {"giveUp", "clearRequested"}
        /\ At({"help"})' # {} => lock'.m_writeRequested = "WRITE_WAIT"
    <2>1. pc'[t] \in Holds => lock'.m_writer
      BY <1>4 DEF OwnerInv
    <2>2. lock'.m_writer => pc'[t] \notin {"giveUp", "clearRequested"}
      BY <1>2, <1>4
    <2>3. QED  BY <1>3, <1>4, <1>5, <2>1, <2>2 DEF OwnerInv
  <1>10. Fresh => Fresh'
    <2>1. lock.m_writer => lock'.m_writer
      OBVIOUS
    <2>2. QED  BY <1>3, <2>1 DEF Fresh
  <1>11. At(Counted) = {} => Fresh
    BY DEF Fresh, At, Counted, Active
  <1>12. /\ lock'.m_writer => Fresh'
         /\ At({"help"})' # {} \/ pc'[t] = "setWriter" => Fresh'
         /\ "tryWriteLock" \notin ops' /\ At({"checkRequested"})' # {} => Fresh'
    BY <1>1, <1>3, <1>4, <1>10, <1>11 DEF OwnerInv
  <1>13. /\ pc'[t] = "getSecond" => seen'[t] <= lock'.m_readersWaiting
         /\ pc'[t] \in {"reset", "writing"} => At(Active)' = {}
         /\ "tryWriteLock" \notin ops' /\ pc'[t] \in {"whose", "quiet", "clearWriter"} => At(Active)' = {}
    BY <1>2, <1>3, <1>4, <1>5
  <1>14. OwnerInv(t)'
    BY <1>6, <1>7, <1>8, <1>9, <1>12, <1>13 DEF OwnerInv
  <1>15. QED  BY <1>4, <1>14, OwnerKeeps

\* The steps of writeLock and tryWriteLock up to their return.
LEMMA EarlySteps ==
  ASSUME LockType, CountInv, NEW t \in Threads,
         Readers(t) \/ Helped(t) \/ SetWriter(t) \/ AllWaiting(t) \/ Reset(t)
  PROVE  /\ \E from, to : WriterMove(t, from, to)
         /\ NotMixed /\ WriterInv => WriterInv'
  <1>1. CASE Readers(t)
    <2>1. PICK to \in {"setWriter", "helped"} :
             Look(t, "readers", to) /\ (to = "setWriter" => lock.m_readers = 0)
      BY <1>1 DEF Readers
    <2>2. WriterMove(t, "readers", to) /\ lock' = lock
      BY <2>1, WriterLooks DEF Protocol
    <2>3. to = "setWriter" => At(Counted) = {}
      BY <2>1, AtFinite DEF CountInv
    <2>4. ASSUME NotMixed, WriterInv
          PROVE  WriterInv'
      BY <2>2, <2>3, <2>4, EarlyKeeps DEF Ending, Holds
    <2>5. QED  BY <2>2, <2>4
  <1>2. CASE Helped(t)
    <2>1. PICK to \in {"setWriter", "readers", "giveUp"} :
             /\ Look(t, "helped", to)
             /\ to = "setWriter" => lock.m_writer
             /\ to = "giveUp" => ~lock.m_writer /\ op[t] # "writeLock"
      BY <1>2 DEF Helped
    <2>2. WriterMove(t, "helped", to) /\ lock' = lock
      BY <2>1, WriterLooks DEF Protocol
    <2>3. ASSUME NotMixed, WriterInv
          PROVE  WriterInv'
      BY <2>1, <2>2, <2>3, EarlyKeeps DEF Ending, Holds
    <2>4. QED  BY <2>2, <2>3
  <1>3. CASE SetWriter(t)
    <2>1. lock' = [lock EXCEPT !.m_writer = TRUE] /\ Write(t, "setWriter", lock', "getFirst")
      BY <1>3 DEF SetWriter, Write
    <2>2. lock' \in Words
      BY <2>1, WordFacts
    <2>3. /\ lock'.m_readers = lock.m_readers
          /\ lock'.m_readersWaiting = lock.m_readersWaiting
          /\ lock'.m_readersUnlocking = lock.m_readersUnlocking
          /\ lock'.m_writeRequested = lock.m_writeRequested
          /\ lock'.m_writer = TRUE
          /\ lock'.m_writerUnlocking = lock.m_writerUnlocking
      BY <2>1 DEF LockType
    <2>4. WriterMove(t, "setWriter", "getFirst")
      BY <2>1, <2>2, <2>3, WriterWrites DEF Protocol
    <2>5. ASSUME NotMixed, WriterInv
          PROVE  WriterInv'
      BY <2>3, <2>4, <2>5, EarlyKeeps DEF Ending, Holds
    <2>6. QED  BY <2>4, <2>5
  <1>4. CASE Reset(t)
    <2>1. lock' = [lock EXCEPT !.m_newReaders = 0] /\ Write(t, "reset", lock', "writing")
      BY <1>4 DEF Reset, Write
    <2>2. lock' \in Words
      BY <2>1, WordFacts, MaxAssumption
    <2>3. /\ lock'.m_readers = lock.m_readers
          /\ lock'.m_readersWaiting = lock.m_readersWaiting
          /\ lock'.m_readersUnlocking = lock.m_readersUnlocking
          /\ lock'.m_writeRequested = lock.m_writeRequested
          /\ lock'.m_writer = lock.m_writer
          /\ lock'.m_writerUnlocking = lock.m_writerUnlocking
      BY <2>1 DEF LockType
    <2>4. WriterMove(t, "reset", "writing")
      BY <2>1, <2>2, <2>3, WriterWrites DEF Protocol
    <2>5. ASSUME NotMixed, WriterInv
          PROVE  WriterInv'
      <3>1. At(Active) = {}
        BY <2>4, <2>5, WriterPlace DEF OwnerInv
      <3>2. QED  BY <2>3, <2>4, <2>5, <3>1, EarlyKeeps DEF Ending, Holds
    <2>6. QED  BY <2>4, <2>5
  <1>5. CASE AllWaiting(t)
    <2>1. /\ UNCHANGED <<ops, lock, op>>
          /\ \/ /\ Goto(t, "getFirst", "getSecond")
                /\ seen' = [seen EXCEPT ![t] = lock.m_readersWaiting]
             \/ /\ \E to \in {"reset", "writing", "getFirst", "writeUnlock"} :
                     /\ Goto(t, "getSecond", to)
                     /\ to \in {"reset", "writing"} => seen[t] = lock.m_readers
                     /\ to = "reset" => op[t] = "writeLock"
                     /\ to = "writeUnlock" => op[t] # "writeLock"
                /\ seen' = [seen EXCEPT ![t] = 0]
      BY <1>5 DEF AllWaiting, Compare
    <2>2. lock' \in Words /\ lock \in Words
      BY <2>1, WordFacts
    <2>3. lock.m_readersWaiting \in 0..Cardinality(Threads) /\ Cardinality(Threads) \in Nat
      BY AtFinite DEF CountInv
    <2>4. /\ seen' \in [Threads -> 0..Cardinality(Threads)]
          /\ seen \in [Threads -> 0..Cardinality(Threads)]
      BY <2>1, <2>3 DEF LockType
    <2>5. ASSUME NEW from \in Protocol, NEW to \in Protocol, Goto(t, from, to)
          PROVE  Moves(t, lock', from, to)
      <3>1. Counts(lock', from, to)
        BY <2>1 DEF Counts, Moved, Counted, Active, Waiting, Unlocks, Protocol
      <3>2. to \in Labels
        BY DEF Labels, Protocol
      <3>3. QED  BY <2>1, <2>2, <2>4, <2>5, <3>1, <3>2 DEF Moves, LockType
    <2>6. CASE Goto(t, "getFirst", "getSecond") /\ seen' = [seen EXCEPT ![t] = lock.m_readersWaiting]
      <3>1. WriterMove(t, "getFirst", "getSecond")
        BY <2>1, <2>5, <2>6 DEF WriterMove, Protocol
      <3>2. seen'[t] = lock.m_readersWaiting
        BY <2>4, <2>6
      <3>3. seen'[t] <= lock.m_readersWaiting
        BY <2>3, <3>2
      <3>4. ASSUME NotMixed, WriterInv
            PROVE  WriterInv'
        BY <2>1, <3>1, <3>3, <3>4, EarlyKeeps DEF Ending, Holds
      <3>5. QED  BY <3>1, <3>4
    <2>7. ASSUME NEW to \in {"reset", "writing", "getFirst", "writeUnlock"},
                 Goto(t, "getSecond", to),
                 to \in {"reset", "writing"} => seen[t] = lock.m_readers,
                 to = "reset" => op[t] = "writeLock",
                 to = "writeUnlock" => op[t] # "writeLock",
                 seen' = [seen EXCEPT ![t] = 0]
          PROVE  /\ WriterMove(t, "getSecond", to)
                 /\ NotMixed /\ WriterInv => WriterInv'
      <3>1. WriterMove(t, "getSecond", to)
        BY <2>1, <2>5, <2>7 DEF WriterMove, Protocol
      <3>2. ASSUME NotMixed, WriterInv
            PROVE  WriterInv'
        <4>1. OwnerInv(t) /\ pc[t] = "getSecond"
          BY <3>1, <3>2, WriterPlace
        <4>2. At({"unwait"}) = {} /\ seen[t] <= lock.m_readersWaiting
          BY <4>1 DEF OwnerInv, Holds, Fresh
        <4>3. to \in {"reset", "writing"} => At(Active) = {}
          <5>1. SUFFICES ASSUME seen[t] = lock.m_readers PROVE At(Active) = {}
            BY <2>7
          <5>2. At(Waiting) \subseteq At(Counted)
            BY DEF At, Waiting, Counted, Active
          <5>3. IsFiniteSet(At(Counted)) /\ lock.m_readers \in Nat /\ lock.m_readersWaiting \in Nat
            BY AtFinite DEF LockType
          <5>4. /\ Cardinality(At(Waiting)) <= Cardinality(At(Counted))
                /\ Cardinality(At(Waiting)) = Cardinality(At(Counted)) => At(Waiting) = At(Counted)
            BY <5>2, <5>3, FS_Subset
          <5>5. lock.m_readers = Cardinality(At(Counted)) /\ lock.m_readersWaiting = Cardinality(At(Waiting))
            BY DEF CountInv
          <5>6. At(Waiting) = At(Counted)
            BY <5>1, <5>3, <5>4, <5>5, <4>2
          <5>7. QED  BY <4>2, <5>6 DEF At, Waiting, Counted, Active
        <4>4. QED  BY <2>1, <2>7, <3>1, <3>2, <4>3, EarlyKeeps DEF Ending, Holds
      <3>3. QED  BY <3>1, <3>2
    <2>8. QED  BY <2>1, <2>6, <2>7
  <1>6. QED  BY <1>1, <1>2, <1>3, <1>4, <1>5

\* The invariant after a step of writeUnlock that keeps m_writer.
LEMMA EndingKeeps ==
  ASSUME LockType, NotMixed, WriterInv, NEW t \in Threads, NEW from, NEW to, WriterMove(t, from, to),
         to \in Ending, from \in Ending \/ ~lock.m_writerUnlocking,
         lock'.m_writerUnlocking = TRUE,
         to = "clearRequested" <=> from = "clearWriter",
         lock'.m_writer = IF from = "clearWriter" THEN FALSE ELSE lock.m_writer,
         from \in Holds,
         to = "quiet" => lock.m_writeRequested = "WRITE_WAIT",
         from \in {"writing", "whose", "quiet", "clearWriter"} \/ op[t] = "tryWriteLock",
         "tryWriteLock" \notin ops /\ to \in {"clearWriter", "clearRequested"} =>
             At({"leave", "checkRequested", "help", "unlocked"}) = {}
  PROVE  WriterInv'
  <1>1. pc \in [Threads -> Labels] /\ Goto(t, from, to) /\ ops' = ops /\ op' = op
    BY DEF LockType, WriterMove, Moves
  <1>2. /\ from \notin Counted \cup Unlocks /\ to \notin Counted \cup Unlocks
        /\ to \in {"whose", "quiet", "clearWriter", "clearRequested"}
    BY DEF WriterMove, Protocol, Ending, Counted, Active, Unlocks
  <1>3. /\ At(Active)' = At(Active)
        /\ At({"help"})' = At({"help"})
        /\ At({"checkRequested"})' = At({"checkRequested"})
        /\ At({"unwait"})' = At({"unwait"})
        /\ At({"wait", "waiting"})' = At({"wait", "waiting"})
        /\ At({"leave", "checkRequested", "help", "unlocked"})'
              = At({"leave", "checkRequested", "help", "unlocked"})
    BY <1>1, <1>2, WriterApart
  <1>4. /\ pc[t] = from /\ pc'[t] = to /\ OwnerInv(t) /\ At(Protocol)' = {t}
        /\ from \in Ending => At(Ending) = {t}
        /\ from \in Ending /\ to \in Ending => At(Ending)' = {t}
    BY WriterPlace
  <1>5. At(Ending)' = {t}
    <2>1. CASE from \in Ending
      BY <1>4, <2>1
    <2>2. CASE from \notin Ending
      <3>1. At(Ending) = {}
        BY <1>4, <2>2 DEF OwnerInv
      <3>2. QED  BY <1>1, <3>1, AtTaken
    <2>3. QED  BY <2>1, <2>2
  <1>6. /\ lock'.m_readersWaiting = lock.m_readersWaiting
        /\ lock'.m_writeRequested = lock.m_writeRequested
    BY DEF WriterMove
  <1>7. lock.m_writer /\ Fresh
    BY <1>4 DEF OwnerInv
  <1>8. op[t] = "writeLock" => "tryWriteLock" \notin ops
    BY <1>4 DEF OwnerInv, NotMixed
  <1>9. CleanInv'
    <2>1. \A u \in At({"clearWriter", "clearRequested", "written"})' : u = t
      BY <1>5 DEF At, Ending
    <2>2. At({"clearWriter", "clearRequested", "written"})' # {} => to \in {"clearWriter", "clearRequested"}
      BY <1>2, <1>4, <2>1 DEF At
    <2>3. QED  BY <1>1, <1>3, <2>2 DEF CleanInv
  <1>10. /\ \A u, v \in At(Ending)' : u = v
         /\ lock'.m_writerUnlocking <=> At(Ending)' # {}
    BY <1>5
  <1>11. /\ op'[t] \in ops'
         /\ \/ op'[t] = "writeLock" /\ lock'.m_writeRequested = "WRITE_WAIT"
            \/ op'[t] = "tryWriteLock" /\ lock'.m_writeRequested = "WRITE_TRY"
         /\ pc'[t] \in {"giveUp", "writeUnlock"} => op'[t] = "tryWriteLock"
         /\ pc'[t] \in {"reset", "quiet"} => op'[t] = "writeLock"
    BY <1>1, <1>2, <1>4, <1>6 DEF OwnerInv
  <1>12. to = "clearRequested" => At({"help"}) = {} /\ ("tryWriteLock" \notin ops => At({"checkRequested"}) = {})
    <2>1. SUFFICES ASSUME to = "clearRequested"
                   PROVE  At({"help"}) = {} /\ ("tryWriteLock" \notin ops => At({"checkRequested"}) = {})
      OBVIOUS
    <2>2. "tryWriteLock" \notin ops => At({"help"}) = {} /\ At({"checkRequested"}) = {}
      BY <2>1 DEF At
    <2>3. "tryWriteLock" \in ops => At({"help"}) = {}
      BY <1>4, <1>8 DEF OwnerInv
    <2>4. QED  BY <2>2, <2>3
  <1>13. /\ pc'[t] \in Holds => lock'.m_writer
         /\ lock'.m_writer => pc'[t] \notin {"giveUp", "clearRequested"}
         /\ At({"help"})' # {} => lock'.m_writeRequested = "WRITE_WAIT"
    <2>1. pc'[t] \in Holds => lock'.m_writer
      BY <1>4, <1>7 DEF Holds
    <2>2. lock'.m_writer => pc'[t] \notin {"giveUp", "clearRequested"}
      BY <1>2, <1>4
    <2>3. QED  BY <1>3, <1>4, <1>6, <2>1, <2>2 DEF OwnerInv
  <1>14. /\ lock'.m_writer => Fresh'
         /\ At({"help"})' # {} \/ pc'[t] = "setWriter" => Fresh'
         /\ "tryWriteLock" \notin ops' /\ At({"checkRequested"})' # {} => Fresh'
    <2>1. to # "clearRequested" => Fresh'
      BY <1>3, <1>7 DEF Fresh
    <2>2. to = "clearRequested" => ~lock'.m_writer
      OBVIOUS
    <2>3. QED  BY <1>1, <1>2, <1>3, <1>4, <1>12, <2>1, <2>2
  <1>15. /\ pc'[t] = "getSecond" => seen'[t] <= lock'.m_readersWaiting
         /\ pc'[t] \in {"reset", "writing"} => At(Active)' = {}
         /\ "tryWriteLock" \notin ops' /\ pc'[t] \in {"whose", "quiet", "clearWriter"} => At(Active)' = {}
    BY <1>1, <1>2, <1>3, <1>4 DEF OwnerInv
  <1>16. OwnerInv(t)'
    BY <1>9, <1>10, <1>11, <1>13, <1>14, <1>15 DEF OwnerInv
  <1>17. QED  BY <1>4, <1>16, OwnerKeeps

\* The steps of writeUnlock while it is in the write protocol.
LEMMA EndingSteps ==
  ASSUME LockType, CountInv, NEW t \in Threads,
         writeUnlock(t) \/ Whose(t) \/ Quiet(t) \/ ClearWriter(t)
  PROVE  /\ \E from, to : WriterMove(t, from, to)
         /\ NotMixed /\ WriterInv => WriterInv'
  <1>1. CASE writeUnlock(t)
    <2>1. /\ ~lock.m_writerUnlocking /\ lock' = [lock EXCEPT !.m_writerUnlocking = TRUE]
          /\ \E from \in {"writing", "writeUnlock"} : Write(t, from, lock', "whose")
      BY <1>1 DEF writeUnlock, Write
    <2>2. PICK from \in {"writing", "writeUnlock"} : Write(t, from, lock', "whose")
      BY <2>1
    <2>3. lock' \in Words
      BY <2>1, WordFacts
    <2>4. /\ lock'.m_readers = lock.m_readers
          /\ lock'.m_readersWaiting = lock.m_readersWaiting
          /\ lock'.m_readersUnlocking = lock.m_readersUnlocking
          /\ lock'.m_writeRequested = lock.m_writeRequested
          /\ lock'.m_writer = lock.m_writer
          /\ lock'.m_writerUnlocking = TRUE
      BY <2>1 DEF LockType
    <2>5. WriterMove(t, from, "whose")
      BY <2>2, <2>3, <2>4, WriterWrites DEF Protocol
    <2>6. ASSUME NotMixed, WriterInv
          PROVE  WriterInv'
      <3>1. from = "writing" \/ op[t] = "tryWriteLock"
        BY <2>5, <2>6, WriterPlace DEF OwnerInv
      <3>2. QED  BY <2>1, <2>4, <2>5, <2>6, <3>1, EndingKeeps DEF Ending, Holds
    <2>7. QED  BY <2>5, <2>6
  <1>2. CASE Whose(t)
    <2>1. PICK to \in {"quiet", "clearWriter"} :
             Look(t, "whose", to) /\ (to = "quiet" <=> lock.m_writeRequested = "WRITE_WAIT")
      BY <1>2 DEF Whose
    <2>2. WriterMove(t, "whose", to) /\ lock' = lock
      BY <2>1, WriterLooks DEF Protocol
    <2>3. ASSUME NotMixed, WriterInv
          PROVE  WriterInv'
      <3>1. OwnerInv(t) /\ At(Ending) = {t}
        BY <2>2, <2>3, WriterPlace DEF Ending
      <3>2. lock.m_writerUnlocking = TRUE
        BY <3>1 DEF OwnerInv, LockType
      <3>3. "tryWriteLock" \notin ops => to = "quiet"
        BY <2>1, <3>1 DEF OwnerInv
      <3>4. QED  BY <2>1, <2>2, <2>3, <3>2, <3>3, EndingKeeps DEF Ending, Holds
    <2>4. QED  BY <2>2, <2>3
  <1>3. CASE Quiet(t)
    <2>1. Look(t, "quiet", "clearWriter") /\ lock.m_readersUnlocking = 0
      BY <1>3 DEF Quiet
    <2>2. WriterMove(t, "quiet", "clearWriter") /\ lock' = lock
      BY <2>1, WriterLooks DEF Protocol
    <2>3. ASSUME NotMixed, WriterInv
          PROVE  WriterInv'
      <3>1. OwnerInv(t) /\ At(Ending) = {t}
        BY <2>2, <2>3, WriterPlace DEF Ending
      <3>2. lock.m_writerUnlocking = TRUE
        BY <3>1 DEF OwnerInv, LockType
      <3>3. At(Unlocks) = {}
        BY <2>1, AtFinite DEF CountInv
      <3>4. At({"leave", "checkRequested", "help", "unlocked"}) = {}
        BY <3>3 DEF At, Unlocks
      <3>5. QED  BY <2>2, <2>3, <3>2, <3>4, EndingKeeps DEF Ending, Holds
    <2>4. QED  BY <2>2, <2>3
  <1>4. CASE ClearWriter(t)
    <2>1. lock' = [lock EXCEPT !.m_writer = FALSE] /\ Write(t, "clearWriter", lock', "clearRequested")
      BY <1>4 DEF ClearWriter, Write
    <2>2. lock' \in Words
      BY <2>1, WordFacts
    <2>3. /\ lock'.m_readers = lock.m_readers
          /\ lock'.m_readersWaiting = lock.m_readersWaiting
          /\ lock'.m_readersUnlocking = lock.m_readersUnlocking
          /\ lock'.m_writeRequested = lock.m_writeRequested
          /\ lock'.m_writer = FALSE
          /\ lock'.m_writerUnlocking = lock.m_writerUnlocking
      BY <2>1 DEF LockType
    <2>4. WriterMove(t, "clearWriter", "clearRequested")
      BY <2>1, <2>2, <2>3, WriterWrites DEF Protocol
    <2>5. ASSUME NotMixed, WriterInv
          PROVE  WriterInv'
      <3>1. OwnerInv(t) /\ At(Ending) = {t} /\ pc[t] = "clearWriter"
        BY <2>4, <2>5, WriterPlace DEF Ending
      <3>2. lock.m_writerUnlocking = TRUE
        BY <3>1 DEF OwnerInv, LockType
      <3>3. t \in At({"clearWriter", "clearRequested", "written"})
        BY <3>1 DEF At
      <3>4. "tryWriteLock" \notin ops => At({"leave", "checkRequested", "help", "unlocked"}) = {}
        BY <3>1, <3>3 DEF OwnerInv, CleanInv
      <3>5. QED  BY <2>3, <2>4, <2>5, <3>2, <3>4, EndingKeeps DEF Ending, Holds
    <2>6. QED  BY <2>4, <2>5
  <1>5. QED  BY <1>1, <1>2, <1>3, <1>4

\* The invariant while nobody is in the write protocol.
NobodyInv ==
    /\ \A u, v \in At(Ending) : u = v
    /\ lock.m_writerUnlocking <=> At(Ending) # {}
    /\ lock.m_writeRequested = "WRITE_IDLE" /\ ~lock.m_writer
    /\ At({"help"}) = {}
    /\ CleanInv
    /\ "tryWriteLock" \notin ops /\ At({"checkRequested"}) # {} => Fresh

\* While no write is requested nobody is in the writer's protocol.
LEMMA NobodyHas ==
  ASSUME WriterInv, lock.m_writeRequested = "WRITE_IDLE"
  PROVE  At(Protocol) = {} /\ NobodyInv
  BY DEF WriterInv, ProtocolInv, FlagInv, FreshInv, NobodyInv

\* A step that leaves nobody in the writer's protocol.
LEMMA NobodyKeeps ==
  ASSUME At(Protocol)' = {}, NobodyInv'
  PROVE  WriterInv'
  <1>1. \A S \in SUBSET Protocol : At(S)' = {}
    BY DEF At
  <1>2. ProtocolInv'
    BY DEF NobodyInv, ProtocolInv
  <1>3. FlagInv'
    BY <1>1 DEF NobodyInv, FlagInv, Holds, Protocol
  <1>4. FreshInv'
    <2>1. At({"setWriter"})' = {}
      BY <1>1 DEF Protocol
    <2>2. At({"help", "setWriter"})' = {}
      BY <2>1 DEF NobodyInv, At
    <2>3. QED  BY <2>2 DEF NobodyInv, FreshInv
  <1>5. AloneInv'
    <2>1. /\ At({"getSecond"})' = {}
          /\ At({"reset", "writing"})' = {}
          /\ At({"whose", "quiet", "clearWriter"})' = {}
      BY <1>1 DEF Protocol
    <2>2. QED  BY <2>1 DEF AloneInv
  <1>6. QED  BY <1>2, <1>3, <1>4, <1>5 DEF NobodyInv, WriterInv

\* A writer that leaves the write protocol, or comes to it.
Passes(t, from, to) ==
    /\ Moves(t, lock', from, to)
    /\ from \notin Counted \cup Unlocks /\ to \notin Counted \cup Unlocks

\* Steps that enter or leave the writer's protocol change no counter.
LEMMA PassingSteps ==
  ASSUME LockType, NEW t \in Threads,
         StartWrite(t) \/ GiveUp(t) \/ ClearRequested(t) \/ Written(t)
  PROVE  \E from, to : Passes(t, from, to)
  <1>1. ASSUME NEW from, NEW to, Goto(t, from, to), ops' = ops, seen' = seen,
               lock' \in Words, to \in Labels,
               lock'.m_readers = lock.m_readers,
               lock'.m_readersWaiting = lock.m_readersWaiting,
               lock'.m_readersUnlocking = lock.m_readersUnlocking,
               op' \in [Threads -> {"none", "readLock", "tryReadLock", "writeLock", "tryWriteLock"}],
               from \notin Counted \cup Unlocks, to \notin Counted \cup Unlocks
        PROVE  Passes(t, from, to)
    <2>1. Counts(lock', from, to)
      BY <1>1 DEF Counts, Moved, Counted, Active, Waiting, Unlocks
    <2>2. QED  BY <1>1, <2>1 DEF Passes, Moves, LockType
  <1>2. CASE StartWrite(t)
    <2>1. PICK r \in Requests, o \in {"writeLock", "tryWriteLock"} :
             /\ lock' = [lock EXCEPT !.m_writeRequested = r]
             /\ op' = [op EXCEPT ![t] = o]
             /\ Goto(t, "idle", "readers") /\ ops' = ops /\ seen' = seen
      BY <1>2 DEF StartWrite, Requests
    <2>2. lock' \in Words
      BY <2>1, WordFacts
    <2>3. /\ lock'.m_readers = lock.m_readers
          /\ lock'.m_readersWaiting = lock.m_readersWaiting
          /\ lock'.m_readersUnlocking = lock.m_readersUnlocking
          /\ op' \in [Threads -> {"none", "readLock", "tryReadLock", "writeLock", "tryWriteLock"}]
      BY <2>1 DEF LockType
    <2>4. Passes(t, "idle", "readers")
      BY <1>1, <2>1, <2>2, <2>3 DEF Labels, Protocol, Counted, Active, Unlocks
    <2>5. QED  BY <2>4
  <1>3. CASE GiveUp(t)
    <2>1. lock' = [lock EXCEPT !.m_writeRequested = "WRITE_IDLE"] /\ Write(t, "giveUp", lock', "idle")
      BY <1>3 DEF GiveUp, Write
    <2>2. lock' \in Words
      BY <2>1, WordFacts DEF Requests
    <2>3. /\ lock'.m_readers = lock.m_readers
          /\ lock'.m_readersWaiting = lock.m_readersWaiting
          /\ lock'.m_readersUnlocking = lock.m_readersUnlocking
      BY <2>1 DEF LockType
    <2>4. /\ op' \in [Threads -> {"none", "readLock", "tryReadLock", "writeLock", "tryWriteLock"}]
          /\ Goto(t, "giveUp", "idle") /\ ops' = ops /\ seen' = seen
      BY <2>1 DEF Write, LockType
    <2>5. Passes(t, "giveUp", "idle")
      BY <1>1, <2>2, <2>3, <2>4 DEF Labels, Ending, Counted, Active, Unlocks
    <2>6. QED  BY <2>5
  <1>4. CASE ClearRequested(t)
    <2>1. lock' = [lock EXCEPT !.m_writeRequested = "WRITE_IDLE"] /\ Write(t, "clearRequested", lock', "written")
      BY <1>4 DEF ClearRequested, Write
    <2>2. lock' \in Words
      BY <2>1, WordFacts DEF Requests
    <2>3. /\ lock'.m_readers = lock.m_readers
          /\ lock'.m_readersWaiting = lock.m_readersWaiting
          /\ lock'.m_readersUnlocking = lock.m_readersUnlocking
      BY <2>1 DEF LockType
    <2>4. /\ op' \in [Threads -> {"none", "readLock", "tryReadLock", "writeLock", "tryWriteLock"}]
          /\ Goto(t, "clearRequested", "written") /\ ops' = ops /\ seen' = seen
      BY <2>1 DEF Write, LockType
    <2>5. Passes(t, "clearRequested", "written")
      BY <1>1, <2>2, <2>3, <2>4 DEF Labels, Ending, Counted, Active, Unlocks
    <2>6. QED  BY <2>5
  <1>5. CASE Written(t)
    <2>1. lock' = [lock EXCEPT !.m_writerUnlocking = FALSE] /\ Write(t, "written", lock', "idle")
      BY <1>5 DEF Written, Write
    <2>2. lock' \in Words
      BY <2>1, WordFacts DEF Requests
    <2>3. /\ lock'.m_readers = lock.m_readers
          /\ lock'.m_readersWaiting = lock.m_readersWaiting
          /\ lock'.m_readersUnlocking = lock.m_readersUnlocking
      BY <2>1 DEF LockType
    <2>4. /\ op' \in [Threads -> {"none", "readLock", "tryReadLock", "writeLock", "tryWriteLock"}]
          /\ Goto(t, "written", "idle") /\ ops' = ops /\ seen' = seen
      BY <2>1 DEF Write, LockType
    <2>5. Passes(t, "written", "idle")
      BY <1>1, <2>2, <2>3, <2>4 DEF Labels, Ending, Counted, Active, Unlocks
    <2>6. QED  BY <2>5
  <1>6. QED  BY <1>2, <1>3, <1>4, <1>5

\* A request to write that succeeds starts from a word with no request.
LEMMA StartWriteKeeps ==
  ASSUME LockType, NotMixed, WriterInv, NEW t \in Threads, StartWrite(t)
  PROVE  WriterInv'
  <1>1. PICK o \in {"writeLock", "tryWriteLock"} :
           /\ o \in ops /\ lock.m_writeRequested = "WRITE_IDLE"
           /\ Goto(t, "idle", "readers")
           /\ op' = [op EXCEPT ![t] = o]
           /\ lock' = [lock EXCEPT !.m_writeRequested =
                          IF o = "writeLock" THEN "WRITE_WAIT" ELSE "WRITE_TRY"]
           /\ ops' = ops /\ seen' = seen
    BY DEF StartWrite
  <1>2. /\ lock'.m_writer = lock.m_writer
        /\ lock'.m_writerUnlocking = lock.m_writerUnlocking
        /\ lock'.m_writeRequested = IF o = "writeLock" THEN "WRITE_WAIT" ELSE "WRITE_TRY"
        /\ op'[t] = o
    BY <1>1 DEF LockType
  <1>3. pc \in [Threads -> Labels] /\ pc'[t] = "readers"
    BY <1>1 DEF LockType, Goto
  <1>4. /\ At(Active)' = At(Active)
        /\ At({"help"})' = At({"help"})
        /\ At({"checkRequested"})' = At({"checkRequested"})
        /\ At({"unwait"})' = At({"unwait"})
        /\ At({"wait", "waiting"})' = At({"wait", "waiting"})
        /\ At({"leave", "checkRequested", "help", "unlocked"})'
              = At({"leave", "checkRequested", "help", "unlocked"})
        /\ At(Ending)' = At(Ending)
        /\ At({"clearWriter", "clearRequested", "written"})'
              = At({"clearWriter", "clearRequested", "written"})
    <2>1. {"idle", "readers"} \cap (Counted \cup Unlocks \cup Ending) = {}
      BY DEF Counted, Active, Unlocks, Ending
    <2>2. QED  BY <1>1, <1>3, <2>1, WriterApart
  <1>5. At(Protocol) = {} /\ NobodyInv
    BY <1>1, NobodyHas
  <1>6. At(Protocol)' = {t}
    <2>1. "readers" \in Protocol
      BY DEF Protocol
    <2>2. At(Protocol)' \subseteq At(Protocol) \cup {t} /\ t \in At(Protocol)'
      BY <1>1, <1>3, <2>1, AtTaken
    <2>3. QED  BY <1>5, <2>2
  <1>7. CleanInv'
    BY <1>1, <1>4 DEF WriterInv, CleanInv
  <1>8. Fresh => Fresh'
    BY <1>2, <1>4 DEF Fresh
  <1>9. OwnerInv(t)'
    BY <1>1, <1>2, <1>3, <1>4, <1>5, <1>7, <1>8 DEF OwnerInv, NobodyInv, Holds
  <1>10. QED  BY <1>6, <1>9, OwnerKeeps

\* A writer that gives up leaves no flag behind.
LEMMA GiveUpKeeps ==
  ASSUME LockType, NotMixed, WriterInv, NEW t \in Threads, GiveUp(t)
  PROVE  WriterInv'
  <1>1. /\ Goto(t, "giveUp", "idle") /\ ops' = ops
        /\ lock' = [lock EXCEPT !.m_writeRequested = "WRITE_IDLE"]
    BY DEF GiveUp, Write
  <1>2. /\ lock'.m_writer = lock.m_writer
        /\ lock'.m_writerUnlocking = lock.m_writerUnlocking
        /\ lock'.m_writeRequested = "WRITE_IDLE"
    BY <1>1 DEF LockType
  <1>3. pc \in [Threads -> Labels] /\ pc[t] = "giveUp"
    BY <1>1 DEF LockType, Goto
  <1>4. /\ At(Active)' = At(Active)
        /\ At({"help"})' = At({"help"})
        /\ At({"checkRequested"})' = At({"checkRequested"})
        /\ At({"unwait"})' = At({"unwait"})
        /\ At({"wait", "waiting"})' = At({"wait", "waiting"})
        /\ At({"leave", "checkRequested", "help", "unlocked"})'
              = At({"leave", "checkRequested", "help", "unlocked"})
        /\ At(Ending)' = At(Ending)
        /\ At({"clearWriter", "clearRequested", "written"})'
              = At({"clearWriter", "clearRequested", "written"})
    <2>1. {"idle", "giveUp"} \cap (Counted \cup Unlocks \cup Ending) = {}
      BY DEF Counted, Active, Unlocks, Ending
    <2>2. QED  BY <1>1, <1>3, <2>1, WriterApart
  <1>5. At(Protocol) = {t} /\ OwnerInv(t)
    BY <1>3, OwnerHas DEF Protocol
  <1>6. At(Protocol)' = {}
    BY <1>1, <1>3, <1>5, AtTaken DEF Protocol
  <1>7. CleanInv'
    BY <1>1, <1>4 DEF WriterInv, CleanInv
  <1>8. Fresh => Fresh'
    BY <1>2, <1>4 DEF Fresh
  <1>9. ~lock.m_writer /\ At({"help"}) = {}
    BY <1>3, <1>5 DEF OwnerInv
  <1>10. NobodyInv'
    BY <1>1, <1>2, <1>4, <1>5, <1>7, <1>8, <1>9 DEF OwnerInv, NobodyInv
  <1>11. QED  BY <1>6, <1>10, NobodyKeeps

\* The last step of an unlock leaves no flag behind.
LEMMA ClearRequestedKeeps ==
  ASSUME LockType, NotMixed, WriterInv, NEW t \in Threads, ClearRequested(t)
  PROVE  WriterInv'
  <1>1. /\ Goto(t, "clearRequested", "written") /\ ops' = ops
        /\ lock' = [lock EXCEPT !.m_writeRequested = "WRITE_IDLE"]
    BY DEF ClearRequested, Write
  <1>2. /\ lock'.m_writer = lock.m_writer
        /\ lock'.m_writerUnlocking = lock.m_writerUnlocking
        /\ lock'.m_writeRequested = "WRITE_IDLE"
    BY <1>1 DEF LockType
  <1>3. pc \in [Threads -> Labels] /\ pc[t] = "clearRequested"
    BY <1>1 DEF LockType, Goto
  <1>4. /\ At(Active)' = At(Active)
        /\ At({"help"})' = At({"help"})
        /\ At({"checkRequested"})' = At({"checkRequested"})
        /\ At({"unwait"})' = At({"unwait"})
        /\ At({"wait", "waiting"})' = At({"wait", "waiting"})
        /\ At({"leave", "checkRequested", "help", "unlocked"})'
              = At({"leave", "checkRequested", "help", "unlocked"})
    <2>1. {"clearRequested", "written"} \cap (Counted \cup Unlocks) = {}
      BY DEF Counted, Active, Unlocks
    <2>2. QED  BY <1>1, <1>3, <2>1, WriterApart
  <1>5. At(Protocol) = {t} /\ OwnerInv(t)
    BY <1>3, OwnerHas DEF Protocol
  <1>6. At(Protocol)' = {}
    BY <1>1, <1>3, <1>5, AtTaken DEF Protocol
  <1>7. /\ At(Ending)' = At(Ending)
        /\ At({"clearWriter", "clearRequested", "written"})'
              = At({"clearWriter", "clearRequested", "written"})
        /\ t \in At({"clearWriter", "clearRequested", "written"})
    BY <1>1, <1>3, AtKept, AtTaken DEF Ending
  <1>8. CleanInv'
    BY <1>1, <1>4, <1>7 DEF WriterInv, CleanInv
  <1>9. Fresh => Fresh'
    BY <1>2, <1>4 DEF Fresh
  <1>10. "tryWriteLock" \notin ops => At({"help"}) = {}
    <2>1. At({"help"}) \subseteq At({"leave", "checkRequested", "help", "unlocked"})
      BY DEF At
    <2>2. QED  BY <1>7, <2>1 DEF WriterInv, CleanInv
  <1>11. ~lock.m_writer /\ At({"help"}) = {}
    BY <1>3, <1>5, <1>10 DEF OwnerInv, NotMixed
  <1>12. NobodyInv'
    BY <1>1, <1>2, <1>4, <1>5, <1>7, <1>8, <1>9, <1>11 DEF OwnerInv, NobodyInv
  <1>13. QED  BY <1>6, <1>12, NobodyKeeps

\* The end of writeUnlock, when the next writer may be in the protocol.
LEMMA WrittenKeeps ==
  ASSUME LockType, NotMixed, WriterInv, NEW t \in Threads, Written(t)
  PROVE  WriterInv'
  <1>1. /\ Goto(t, "written", "idle") /\ ops' = ops /\ seen' = seen
        /\ lock' = [lock EXCEPT !.m_writerUnlocking = FALSE]
        /\ op' = [op EXCEPT ![t] = "none"]
    BY DEF Written, Write
  <1>2. /\ lock'.m_writer = lock.m_writer
        /\ lock'.m_writerUnlocking = FALSE
        /\ lock'.m_writeRequested = lock.m_writeRequested
        /\ lock'.m_readersWaiting = lock.m_readersWaiting
    BY <1>1 DEF LockType
  <1>3. pc \in [Threads -> Labels] /\ pc[t] = "written"
        /\ op \in [Threads -> {"none", "readLock", "tryReadLock", "writeLock", "tryWriteLock"}]
    BY <1>1 DEF LockType, Goto
  <1>4. /\ At(Active)' = At(Active)
        /\ At({"help"})' = At({"help"})
        /\ At({"checkRequested"})' = At({"checkRequested"})
        /\ At({"unwait"})' = At({"unwait"})
        /\ At({"wait", "waiting"})' = At({"wait", "waiting"})
        /\ At({"leave", "checkRequested", "help", "unlocked"})'
              = At({"leave", "checkRequested", "help", "unlocked"})
    <2>1. {"idle", "written"} \cap (Counted \cup Unlocks) = {}
      BY DEF Counted, Active, Unlocks
    <2>2. QED  BY <1>1, <1>3, <2>1, WriterApart
  <1>5. \A S \in SUBSET Protocol : At(S)' = At(S) /\ t \notin At(S)
    <2>1. ASSUME NEW S \in SUBSET Protocol
          PROVE  At(S)' = At(S) /\ t \notin At(S)
      <3>1. "written" \notin S /\ "idle" \notin S
        BY DEF Protocol
      <3>2. QED  BY <1>1, <1>3, <3>1, AtKept DEF At
    <2>2. QED  BY <2>1
  <1>6. At(Ending) = {t} /\ At(Ending)' = {}
    <2>1. t \in At(Ending)
      BY <1>3 DEF At, Ending
    <2>2. At(Ending) = {t}
      BY <2>1 DEF WriterInv, ProtocolInv
    <2>3. QED  BY <1>1, <1>3, <2>2, AtTaken DEF Ending
  <1>7. ProtocolInv'
    <2>1. At(Protocol)' = At(Protocol)
      BY <1>5
    <2>2. \A u \in At(Protocol) : pc'[u] = pc[u] /\ op'[u] = op[u]
      <3>1. ASSUME NEW u \in At(Protocol)
            PROVE  u \in Threads /\ u # t
        BY <1>5 DEF At
      <3>2. QED  BY <1>1, <1>3, <3>1 DEF Goto
    <2>3. QED  BY <1>1, <1>2, <1>6, <2>1, <2>2 DEF WriterInv, ProtocolInv
  <1>8. FlagInv'
    <2>1. /\ At(Protocol)' = At(Protocol) /\ At(Holds)' = At(Holds)
          /\ At({"giveUp", "clearRequested"})' = At({"giveUp", "clearRequested"})
      BY <1>5 DEF Holds, Protocol
    <2>2. QED  BY <1>2, <1>4, <2>1 DEF WriterInv, FlagInv
  <1>9. CleanInv'
    <2>1. At({"clearWriter", "clearRequested", "written"})' = {}
      BY <1>6 DEF At, Ending
    <2>2. QED  BY <2>1 DEF CleanInv
  <1>10. FreshInv'
    <2>1. Fresh => Fresh'
      BY <1>2, <1>4 DEF Fresh
    <2>2. At({"help", "setWriter"})' = At({"help", "setWriter"})
      BY <1>1, <1>3, AtKept
    <2>3. QED  BY <1>1, <1>2, <1>4, <2>1, <2>2 DEF WriterInv, FreshInv
  <1>11. AloneInv'
    <2>1. /\ At({"getSecond"})' = At({"getSecond"})
          /\ At({"reset", "writing"})' = At({"reset", "writing"})
          /\ At({"whose", "quiet", "clearWriter"})' = At({"whose", "quiet", "clearWriter"})
      BY <1>5 DEF Protocol
    <2>2. QED  BY <1>1, <1>2, <1>4, <2>1 DEF WriterInv, AloneInv
  <1>12. QED  BY <1>7, <1>8, <1>9, <1>10, <1>11 DEF WriterInv

-----------------------------------------------------------------------------
(* The theorems *)

\* Every step keeps the invariant.
LEMMA LockStep ==
  ASSUME LockInv, [Next]_vars
  PROVE  LockInv'
  <1>1. CASE UNCHANGED vars
    BY <1>1 DEF vars, LockInv, LockType, CountInv, NotMixed, WriterInv, ProtocolInv, FlagInv,
                CleanInv, FreshInv, Fresh, AloneInv, At
  <1>2. ASSUME NEW t \in Threads, StartRead(t) \/ StartWrite(t) \/ Progress(t)
        PROVE  LockInv'
    <2>1. LockType /\ CountInv /\ (NotMixed => WriterInv)
      BY DEF LockInv
    <2>2. ASSUME NEW from, NEW to, Moves(t, lock', from, to)
          PROVE  LockType' /\ CountInv' /\ (NotMixed' => NotMixed)
      <3>1. ASSUME NEW new, new = lock'
            PROVE  LockType' /\ CountInv'
        BY <2>1, <2>2, <3>1, MoveStep
      <3>2. QED  BY <2>2, <3>1 DEF Moves, NotMixed
    <2>3. ASSUME \E from, to : ReaderMove(t, from, to)
          PROVE  LockInv'
      <3>1. PICK from, to : ReaderMove(t, from, to)
        BY <2>3
      <3>2. LockType' /\ CountInv' /\ (NotMixed' => NotMixed)
        BY <2>2, <3>1 DEF ReaderMove
      <3>3. QED  BY <2>1, <3>1, <3>2, ReaderKeeps DEF LockInv
    <2>4. CASE StartRead(t)
      BY <2>1, <2>3, <2>4, ReaderStarts
    <2>5. CASE \/ GateRequested(t) \/ GateWriter(t) \/ GateNew(t) \/ LookWriter(t) \/ Waited(t)
               \/ NoteRequested(t) \/ NoteWriter(t) \/ CheckUnlocking(t) \/ CheckRequested(t)
      BY <2>1, <2>3, <2>5, ReaderLooks
    <2>6. CASE \/ Enter(t) \/ Wait(t) \/ Unwait(t) \/ TakeBack(t) \/ NoteNew(t) \/ readUnlock(t)
               \/ BackOff(t) \/ Again(t) \/ Leave(t) \/ Unlocked(t)
      BY <2>1, <2>3, <2>6, ReaderWrites
    <2>7. CASE Help(t)
      <3>1. Moves(t, lock', "help", "unlocked")
        BY <2>1, <2>7, HelpMoves
      <3>2. NotMixed => WriterInv'
        BY <2>1, <2>7, HelpKeeps
      <3>3. QED  BY <2>2, <3>1, <3>2 DEF LockInv
    <2>8. CASE Readers(t) \/ Helped(t) \/ SetWriter(t) \/ AllWaiting(t) \/ Reset(t)
      <3>1. (\E from, to : WriterMove(t, from, to)) /\ (NotMixed /\ WriterInv => WriterInv')
        BY <2>1, <2>8, EarlySteps
      <3>2. LockType' /\ CountInv' /\ (NotMixed' => NotMixed)
        BY <2>2, <3>1 DEF WriterMove
      <3>3. QED  BY <2>1, <3>1, <3>2 DEF LockInv
    <2>9. CASE writeUnlock(t) \/ Whose(t) \/ Quiet(t) \/ ClearWriter(t)
      <3>1. (\E from, to : WriterMove(t, from, to)) /\ (NotMixed /\ WriterInv => WriterInv')
        BY <2>1, <2>9, EndingSteps
      <3>2. LockType' /\ CountInv' /\ (NotMixed' => NotMixed)
        BY <2>2, <3>1 DEF WriterMove
      <3>3. QED  BY <2>1, <3>1, <3>2 DEF LockInv
    <2>10. CASE StartWrite(t) \/ GiveUp(t) \/ ClearRequested(t) \/ Written(t)
      <3>1. \E from, to : Passes(t, from, to)
        BY <2>1, <2>10, PassingSteps
      <3>2. LockType' /\ CountInv' /\ (NotMixed' => NotMixed)
        BY <2>2, <3>1 DEF Passes
      <3>3. NotMixed /\ WriterInv => WriterInv'
        BY <2>1, <2>10, StartWriteKeeps, GiveUpKeeps, ClearRequestedKeeps, WrittenKeeps
      <3>4. QED  BY <2>1, <3>2, <3>3 DEF LockInv
    <2>11. QED
      BY <1>2, <2>4, <2>5, <2>6, <2>7, <2>8, <2>9, <2>10 DEF Progress
  <1>3. QED  BY <1>1, <1>2 DEF Next

\* The initial word satisfies the invariant.
LEMMA LockInit ==
  ASSUME Init
  PROVE  LockInv
  <1>1. LockType
    BY AtFinite, MaxAssumption DEF Init, LockType, Labels, Requests
  <1>2. \A S : "idle" \notin S => At(S) = {}
    BY DEF Init, At
  <1>3. CountInv
    <2>1. At(Counted) = {} /\ At(Waiting) = {} /\ At(Unlocks) = {}
      BY <1>2 DEF Counted, Active, Waiting, Unlocks
    <2>2. QED  BY <2>1, FS_EmptySet DEF Init, CountInv
  <1>4. WriterInv
    <2>1. /\ At(Protocol) = {} /\ At(Ending) = {} /\ At(Holds) = {} /\ At({"help"}) = {}
          /\ At({"help", "setWriter"}) = {} /\ At({"checkRequested"}) = {}
          /\ At({"clearWriter", "clearRequested", "written"}) = {}
          /\ At({"getSecond"}) = {} /\ At({"reset", "writing"}) = {}
          /\ At({"whose", "quiet", "clearWriter"}) = {}
      BY <1>2 DEF Protocol, Ending, Holds
    <2>2. ~lock.m_writer /\ ~lock.m_writerUnlocking /\ lock.m_writeRequested = "WRITE_IDLE"
      BY DEF Init
    <2>3. QED
      BY <2>1, <2>2 DEF WriterInv, ProtocolInv, FlagInv, CleanInv, FreshInv, AloneInv
  <1>5. QED  BY <1>1, <1>3, <1>4 DEF LockInv

\* The inductive invariant: the counters of the lock count threads, whatever it
\* is used for; if writeLock and tryWriteLock are not used together, the writer
\* protocol is kept.
THEOREM LockInvariant == Spec => []LockInv
  <1>1. Init => LockInv
    BY LockInit
  <1>2. LockInv /\ [Next]_vars => LockInv'
    BY LockStep
  <1>3. QED  BY <1>1, <1>2, PTL DEF Spec

\* No counter of the lock leaves 0..Cardinality(Threads): every dec() of
\* readUnlock, tryReadLock and readLock has its inc(), in every use of the lock,
\* writeLock and tryWriteLock together included.
THEOREM LockTypeCorrect == Spec => []TypeOK
  <1>1. LockInv => TypeOK
    <2>1. SUFFICES ASSUME LockInv PROVE TypeOK
      OBVIOUS
    <2>2. LockType /\ CountInv
      BY <2>1 DEF LockInv
    <2>3. /\ lock.m_readers \in 0..Cardinality(Threads)
          /\ lock.m_readersWaiting \in 0..Cardinality(Threads)
          /\ lock.m_readersUnlocking \in 0..Cardinality(Threads)
      BY <2>2, AtFinite DEF CountInv
    <2>4. QED  BY <2>2, <2>3 DEF TypeOK, LockType, Requests
  <1>2. QED  BY <1>1, LockInvariant, PTL

\* A writer is alone, if the lock is used with writeLock or with tryWriteLock and
\* not with both: for every number of threads, readers that back out and readers
\* that leave late included.
THEOREM WriterIsAlone == Spec => [](NotMixed => MutualExclusion)
  <1>1. LockInv => (NotMixed => MutualExclusion)
    <2>1. SUFFICES ASSUME WriterInv, NEW w \in At({"writing"}), NEW t \in Threads \ {w}
                   PROVE  pc[t] \notin {"reading", "writing"}
      BY DEF LockInv, MutualExclusion
    <2>2. At(Active) = {}
      BY <2>1 DEF WriterInv, AloneInv, At
    <2>3. pc[t] # "reading"
      BY <2>1, <2>2 DEF At, Active
    <2>4. pc[t] # "writing"
      BY <2>1 DEF WriterInv, ProtocolInv, At, Protocol
    <2>5. QED  BY <2>3, <2>4
  <1>2. QED  BY <1>1, LockInvariant, PTL

\* m_writer is never left set when nobody is in the write protocol, although the
\* last reader may set it for a writer that has got the lock without its help.
THEOREM WriterFlagHasOwner == Spec => [](NotMixed => WriterFlagOwned)
  <1>1. WriteProtocol = At(Protocol)
    BY DEF WriteProtocol, Protocol
  <1>2. LockInv => (NotMixed => WriterFlagOwned)
    BY <1>1 DEF LockInv, WriterInv, FlagInv, WriterFlagOwned
  <1>3. QED  BY <1>2, LockInvariant, PTL

\* A writer in writeUnlock waits only for readers that do not wait for it.
THEOREM UnlocksDoNotChase == Spec => [](NotMixed => NoUnlockChase)
  <1>1. LockInv => (NotMixed => NoUnlockChase)
    <2>1. SUFFICES ASSUME WriterInv, NotMixed, NEW w \in At({"quiet"})
                   PROVE  At({"backOff", "again"}) = {}
      BY DEF LockInv, NoUnlockChase
    <2>2. w \in Threads /\ pc[w] = "quiet"
      BY DEF At
    <2>3. OwnerInv(w)
      BY <2>1, <2>2, OwnerHas DEF Protocol
    <2>4. At(Active) = {}
      BY <2>1, <2>2, <2>3 DEF OwnerInv, NotMixed
    <2>5. QED  BY <2>4 DEF At, Active
  <1>2. QED  BY <1>1, LockInvariant, PTL

-----------------------------------------------------------------------------
(* The waits of the lock *)

\* A thread whose spin goes on as the lock is now: a reader before the gate of
\* new readers or behind m_writer, a writer before readers that are not all
\* waiting, and the waits of the two unlocks for one another.
Blocked(t) ==
    \/ /\ pc[t] \in {"gateRequested", "gateWriter", "gateNew"} /\ op[t] = "readLock"
       /\ lock.m_writeRequested # "WRITE_IDLE" /\ ~lock.m_writer
       /\ lock.m_newReaders = MAX_NEW_READERS
    \/ pc[t] = "waiting" /\ lock.m_writer
    \/ /\ pc[t] \in {"readers", "helped"} /\ op[t] = "writeLock"
       /\ lock.m_readers # 0 /\ ~lock.m_writer
    \/ /\ pc[t] \in {"getFirst", "getSecond"} /\ op[t] = "writeLock"
       /\ lock.m_readersWaiting # lock.m_readers
    \/ pc[t] \in {"writing", "writeUnlock"} /\ lock.m_writerUnlocking
    \/ pc[t] \in {"checkUnlocking", "backOff", "again"} /\ lock.m_writerUnlocking
    \/ pc[t] = "quiet" /\ lock.m_readersUnlocking # 0

\* Not everyone inside the lock waits.
SomebodyMoves ==
    (\E t \in Threads : pc[t] # "idle") => \E t \in Threads : pc[t] # "idle" /\ ~Blocked(t)

\* The thread that m_writerUnlocking speaks of can go on, unless it is the owner
\* and waits for readers.
LEMMA EndingMoves ==
  ASSUME WriterInv, lock.m_writerUnlocking, At({"quiet"}) = {}
  PROVE  \E t \in Threads : pc[t] # "idle" /\ ~Blocked(t)
  <1>1. PICK e \in Threads : pc[e] \in Ending
    BY DEF WriterInv, ProtocolInv, At
  <1>2. pc[e] \in {"whose", "clearWriter", "clearRequested", "written"}
    BY <1>1 DEF Ending, At
  <1>3. QED  BY <1>2 DEF Blocked

\* With nobody in the write protocol only an unlock holds up another one.
LEMMA NoWriterMoves ==
  ASSUME WriterInv, At(Protocol) = {}, NEW t \in Threads, pc[t] # "idle"
  PROVE  \E u \in Threads : pc[u] # "idle" /\ ~Blocked(u)
  <1>1. lock.m_writeRequested = "WRITE_IDLE" /\ ~lock.m_writer
    BY DEF WriterInv, ProtocolInv, FlagInv
  <1>2. At({"quiet"}) = {}
    BY DEF At, Protocol
  <1>3. CASE lock.m_writerUnlocking
    BY <1>2, <1>3, EndingMoves
  <1>4. CASE ~lock.m_writerUnlocking
    <2>1. pc[t] \notin Protocol
      BY DEF At
    <2>2. ~Blocked(t)
      BY <1>1, <1>4, <2>1 DEF Blocked, Protocol
    <2>3. QED  BY <2>2
  <1>5. QED  BY <1>3, <1>4

\* A writer that waits has a reader, or an unlock, that it waits for and that can
\* go on.
LEMMA WriterWaitsForSomeone ==
  ASSUME LockInv, NotMixed, NEW w \in Threads, pc[w] \in Protocol, Blocked(w)
  PROVE  \E u \in Threads : pc[u] # "idle" /\ ~Blocked(u)
  <1>1. LockType /\ CountInv /\ WriterInv
    BY DEF LockInv
  <1>2. CASE pc[w] = "quiet"
    <2>1. lock.m_readersUnlocking # 0
      BY <1>2 DEF Blocked
    <2>2. At(Unlocks) # {}
      BY <1>1, <2>1, AtFinite DEF CountInv
    <2>3. PICK u \in Threads : pc[u] \in Unlocks
      BY <2>2 DEF At
    <2>4. w \in At(Protocol)
      BY DEF At
    <2>5. "tryWriteLock" \notin ops
      BY <1>1, <1>2, <2>4 DEF WriterInv, ProtocolInv, NotMixed
    <2>6. At(Active) = {}
      BY <1>1, <1>2, <2>5 DEF WriterInv, AloneInv, At
    <2>7. pc[u] \notin {"checkUnlocking", "backOff", "leave"}
      BY <2>6 DEF At, Active
    <2>8. pc[u] \in {"checkRequested", "help", "unlocked"}
      BY <2>3, <2>7 DEF Unlocks
    <2>9. QED  BY <2>8 DEF Blocked
  <1>3. CASE pc[w] # "quiet"
    <2>1. \A u \in Threads : pc[u] \in Protocol => u = w
      BY <1>1 DEF WriterInv, ProtocolInv, At
    <2>2. At({"quiet"}) = {}
      BY <1>3, <2>1 DEF At, Protocol
    <2>3. CASE lock.m_writerUnlocking
      BY <1>1, <2>2, <2>3, EndingMoves
    <2>4. CASE ~lock.m_writerUnlocking
      <3>1. ASSUME NEW u \in Threads, pc[u] \in Counted, pc[u] # "waiting" \/ ~lock.m_writer
            PROVE  pc[u] # "idle" /\ ~Blocked(u)
        <4>1. CASE pc[u] # "waiting"
          BY <2>4, <3>1, <4>1 DEF Blocked, Counted, Active
        <4>2. CASE pc[u] = "waiting"
          BY <3>1, <4>2 DEF Blocked
        <4>3. QED  BY <4>1, <4>2
      <3>2. CASE pc[w] \in {"readers", "helped"}
        <4>1. lock.m_readers # 0 /\ ~lock.m_writer
          BY <3>2 DEF Blocked
        <4>2. At(Counted) # {}
          BY <1>1, <4>1, AtFinite DEF CountInv
        <4>3. PICK u \in Threads : pc[u] \in Counted
          BY <4>2 DEF At
        <4>4. QED  BY <3>1, <4>1, <4>3
      <3>3. CASE pc[w] \in {"getFirst", "getSecond"}
        <4>1. lock.m_readersWaiting # lock.m_readers
          BY <3>3 DEF Blocked
        <4>2. At(Waiting) # At(Counted)
          BY <1>1, <4>1 DEF CountInv
        <4>3. PICK u \in Threads : pc[u] \in Counted /\ pc[u] \notin Waiting
          BY <4>2 DEF At, Waiting, Counted, Active
        <4>4. pc[u] # "waiting"
          BY <4>3 DEF Waiting
        <4>5. QED  BY <3>1, <4>3, <4>4
      <3>4. QED  BY <1>3, <2>4, <3>2, <3>3 DEF Blocked, Protocol
    <2>5. QED  BY <2>3, <2>4
  <1>4. QED  BY <1>2, <1>3

\* The waits of the lock never close to a circle: readers for a writer, the writer
\* for readers that are not waiting, an unlocking reader for an unlocking writer and
\* that one for unlocking readers.  While somebody is inside the lock, somebody in
\* it can go on; this is the safety half of WriterGetsLock and ReaderGetsLock, for
\* every number of threads.
THEOREM NoCircularWait == Spec => [](NotMixed => SomebodyMoves)
  <1>1. LockInv => (NotMixed => SomebodyMoves)
    <2>1. SUFFICES ASSUME LockInv, NotMixed, NEW t \in Threads, pc[t] # "idle"
                   PROVE  \E u \in Threads : pc[u] # "idle" /\ ~Blocked(u)
      BY DEF SomebodyMoves
    <2>2. WriterInv
      BY <2>1 DEF LockInv
    <2>3. CASE At(Protocol) = {}
      BY <2>1, <2>2, <2>3, NoWriterMoves
    <2>4. CASE At(Protocol) # {}
      <3>1. PICK w \in Threads : pc[w] \in Protocol
        BY <2>4 DEF At
      <3>2. pc[w] # "idle"
        BY <3>1 DEF Protocol
      <3>3. QED  BY <2>1, <3>1, <3>2, WriterWaitsForSomeone
    <2>5. QED  BY <2>3, <2>4
  <1>2. QED  BY <1>1, LockInvariant, PTL
=============================================================================
