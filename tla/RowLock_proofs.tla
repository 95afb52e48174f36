---------------------------- MODULE RowLock_proofs ----------------------------
(***************************************************************************)
(* What the row locks promise, for any number of transactions and rows,    *)
(* any use and any limits of the engine.                                   *)
(*                                                                         *)
(* checkCycleLock finds every deadlock (NoSleepingCycle), although each    *)
(* thread walks along the others' m_waitIdentifier while they change.  The *)
(* argument counts nothing: in every set of waiting threads that wait only *)
(* for one another, some thread is still walking inside that set           *)
(* (Watched).  A walk inside such a set cannot leave it, so it can only go *)
(* on or report a deadlock; it cannot end in a sleep.                      *)
(*                                                                         *)
(* Row exclusion and the count of a shared row's readers do not hold of    *)
(* every use: MCRowLockShared.cfg and MCRowLockStale.cfg show how they     *)
(* fail.  They are proved where they do hold: when nobody asks for         *)
(* LOCK_READ, and when transactions commit everything they lock and at     *)
(* most two of them read.                                                  *)
(***************************************************************************)
EXTENDS RowLock, FiniteSetTheorems, TLAPS

-----------------------------------------------------------------------------
(* Deadlocks *)

\* The program counters of a thread that has published whom it waits for, and
\* has not been told to stop waiting.
Waiting == {"walk", "sleep", "asleep"}

PCs == {"idle", "access", "cycle", "walk", "sleep", "asleep", "woken",
        "commit", "rollback", "entries", "signal", "notify"}

WaitType ==
    /\ pc \in [Tx -> PCs]
    /\ alive \in [Tx -> BOOLEAN]
    /\ waitId \in [Tx -> Tx \cup {0}]
    /\ otx \in [Tx -> Tx \cup {0}]
    /\ walk \in [Tx -> [ntx : Tx \cup {0}, iter : Nat]]

\* A transaction in use is one that getTransaction finds; one that waits has
\* published the transaction it is going to sleep on.
WaitPublished ==
    \A t \in Tx :
        /\ pc[t] # "idle" => alive[t]
        /\ pc[t] \in Waiting => otx[t] \in Tx /\ waitId[t] = otx[t]
        /\ pc[t] = "walk" => walk[t].ntx \in Tx

\* A set of waiting threads that wait for one another only.
Closed(S) == \A t \in S : pc[t] \in Waiting /\ otx[t] \in S

\* One of them is still looking for the cycle, and looks at it.
Watched ==
    \A S \in SUBSET Tx :
        S # {} /\ Closed(S) => \E t \in S : pc[t] = "walk" /\ walk[t].ntx \in S

WaitInv == WaitType /\ WaitPublished /\ Watched

\* Identifiers of transactions are not 0, which stands for none.
LEMMA ZeroNotTx == 0 \notin Tx
  BY NAssumption DEF Tx

\* A step after which nobody waits who did not wait before, and in which
\* walkers walk on where they are, leaves every closed set watched.
LEMMA WatchedFrame ==
  ASSUME Watched,
         \A u \in Tx : pc'[u] \in Waiting =>
            /\ pc[u] \in Waiting /\ otx'[u] = otx[u]
            /\ pc[u] = "walk" => pc'[u] = "walk" /\ walk'[u] = walk[u]
  PROVE  Watched'
  <1> SUFFICES ASSUME NEW S \in SUBSET Tx, S # {}, Closed(S)'
               PROVE  \E u \in S : pc'[u] = "walk" /\ walk'[u].ntx \in S
    BY DEF Watched
  <1>1. Closed(S)
    BY DEF Closed
  <1>2. PICK u \in S : pc[u] = "walk" /\ walk[u].ntx \in S
    BY <1>1 DEF Watched
  <1>3. pc'[u] \in Waiting
    BY DEF Closed
  <1>4. pc'[u] = "walk" /\ walk'[u] = walk[u]
    BY <1>2, <1>3
  <1>5. QED  BY <1>2, <1>4

\* Initially nobody waits.
LEMMA WaitInit == Init => WaitInv
  <1> SUFFICES ASSUME Init PROVE WaitInv
    OBVIOUS
  <1>1. WaitType
    BY DEF Init, WaitType, PCs
  <1>2. WaitPublished
    BY DEF Init, WaitPublished, Waiting
  <1>3. Watched
    BY DEF Init, Watched, Closed, Waiting
  <1>4. QED  BY <1>1, <1>2, <1>3 DEF WaitInv

\* CycleStart publishes before it looks: a closed set that it completes is
\* watched by the thread itself.
LEMMA WaitCycleStart ==
  ASSUME WaitInv, NEW t \in Tx, CycleStart(t)
  PROVE  WaitInv'
  <1> USE DEF WaitInv
  <1> DEFINE i == line[req[t].row].id
             o == getTransaction(i)
  <1>1. CASE o = 0
    <2>1. pc' = [pc EXCEPT ![t] = "access"] /\ alive' = alive /\ walk' = walk
          /\ waitId' = [waitId EXCEPT ![t] = 0] /\ otx' = [otx EXCEPT ![t] = 0]
          /\ pc[t] = "cycle"
      BY <1>1 DEF CycleStart, Release
    <2>2. WaitType'
      BY <2>1 DEF WaitType, PCs
    <2>3. WaitPublished'
      BY <2>1 DEF WaitType, WaitPublished, Waiting
    <2>4. Watched'
      BY <2>1, WatchedFrame DEF WaitType, Waiting
    <2>5. QED  BY <2>2, <2>3, <2>4
  <1>2. CASE o # 0
    <2>1. i \in Tx /\ alive[i] /\ o = i
      BY <1>2 DEF getTransaction
    <2>2. pc' = [pc EXCEPT ![t] = "walk"] /\ alive' = alive
          /\ walk' = [walk EXCEPT ![t] = [ntx |-> i, iter |-> 0]]
          /\ waitId' = [waitId EXCEPT ![t] = i] /\ otx' = [otx EXCEPT ![t] = i]
          /\ pc[t] = "cycle"
      BY <1>2, <2>1 DEF CycleStart
    <2>3. WaitType'
      BY <2>1, <2>2 DEF WaitType, PCs
    <2>4. WaitPublished'
      BY <2>1, <2>2 DEF WaitType, WaitPublished, Waiting
    <2>5. Watched'
      <3> SUFFICES ASSUME NEW S \in SUBSET Tx, S # {}, Closed(S)'
                   PROVE  \E u \in S : pc'[u] = "walk" /\ walk'[u].ntx \in S
        BY DEF Watched
      <3>1. CASE t \in S
        BY <3>1, <2>1, <2>2 DEF WaitType, Closed
      <3>2. CASE t \notin S
        <4>1. Closed(S)
          BY <3>2, <2>2 DEF WaitType, Closed
        <4>2. PICK u \in S : pc[u] = "walk" /\ walk[u].ntx \in S
          BY <4>1 DEF Watched
        <4>3. QED  BY <4>2, <3>2, <2>2 DEF WaitType
      <3>3. QED  BY <3>1, <3>2
    <2>6. QED  BY <2>3, <2>4, <2>5
  <1>3. QED  BY <1>1, <1>2

\* A walk inside a closed set stays inside it: whom it reads waits for
\* somebody of the set, who exists.
LEMMA WaitCycleWalk ==
  ASSUME WaitInv, NEW t \in Tx, CycleWalk(t)
  PROVE  WaitInv'
  <1> USE DEF WaitInv
  <1> DEFINE n == walk[t].ntx
             w == waitId[n]
  <1>0. pc[t] = "walk" /\ n \in Tx /\ w \in Tx \cup {0} /\ alive' = alive /\ alive[t]
    BY DEF CycleWalk, WaitType, WaitPublished
  <1>1. CASE walk[t].iter = DEFAULT_TRANSACTION_INFINITE \/ w = t
    <2>1. waitId' = [waitId EXCEPT ![t] = 0] /\ otx' = [otx EXCEPT ![t] = 0]
          /\ walk' = [walk EXCEPT ![t] = [ntx |-> 0, iter |-> 0]]
          /\ (pc' = [pc EXCEPT ![t] = "idle"] \/ pc' = [pc EXCEPT ![t] = "access"])
      BY <1>1 DEF CycleWalk, Deadlocked
    <2>2. WaitType'
      BY <2>1, <1>0 DEF WaitType, PCs
    <2>3. WaitPublished'
      BY <2>1, <1>0 DEF WaitType, WaitPublished, Waiting
    <2>4. Watched'
      BY <2>1, WatchedFrame DEF WaitType, Waiting
    <2>5. QED  BY <2>2, <2>3, <2>4
  <1>2. CASE ~(walk[t].iter = DEFAULT_TRANSACTION_INFINITE \/ w = t)
    <2>1. waitId' = waitId /\ otx' = otx
      BY <1>2 DEF CycleWalk
    \* What the walk reads when it is inside a closed set.
    <2>2. ASSUME NEW S \in SUBSET Tx, Closed(S), n \in S
          PROVE  w \in S /\ w # 0 /\ getTransaction(w) # 0
      <3>1. w \in S /\ pc[w] \in Waiting
        BY <2>2 DEF Closed, WaitPublished
      <3>2. alive[w] /\ w # 0
        BY <3>1, ZeroNotTx DEF WaitPublished, Waiting
      <3>3. QED  BY <3>1, <3>2 DEF getTransaction
    <2>3. CASE w = 0 \/ getTransaction(w) = 0
      <3>1. pc' = [pc EXCEPT ![t] = "sleep"]
            /\ walk' = [walk EXCEPT ![t] = [ntx |-> 0, iter |-> 0]]
        BY <1>2, <2>3 DEF CycleWalk
      <3>2. WaitType'
        BY <2>1, <3>1, <1>0 DEF WaitType, PCs
      <3>3. WaitPublished'
        BY <2>1, <3>1, <1>0 DEF WaitType, WaitPublished, Waiting
      <3>4. Watched'
        <4> SUFFICES ASSUME NEW S \in SUBSET Tx, S # {}, Closed(S)'
                     PROVE  \E u \in S : pc'[u] = "walk" /\ walk'[u].ntx \in S
          BY DEF Watched
        <4>1. Closed(S)
          BY <2>1, <3>1, <1>0 DEF Closed, WaitType, Waiting
        <4>2. PICK u \in S : pc[u] = "walk" /\ walk[u].ntx \in S
          BY <4>1 DEF Watched
        <4>3. u # t
          BY <4>1, <4>2, <2>2, <2>3
        <4>4. QED  BY <4>2, <4>3, <3>1 DEF WaitType
      <3>5. QED  BY <3>2, <3>3, <3>4
    <2>4. CASE ~(w = 0 \/ getTransaction(w) = 0)
      <3>1. pc' = pc /\ walk' = [walk EXCEPT ![t] = [ntx |-> w, iter |-> walk[t].iter + 1]]
        BY <1>2, <2>4 DEF CycleWalk
      <3>2. WaitType'
        BY <2>1, <3>1, <1>0 DEF WaitType
      <3>3. WaitPublished'
        BY <2>1, <3>1, <1>0, <2>4 DEF WaitType, WaitPublished
      <3>4. Watched'
        <4> SUFFICES ASSUME NEW S \in SUBSET Tx, S # {}, Closed(S)'
                     PROVE  \E u \in S : pc'[u] = "walk" /\ walk'[u].ntx \in S
          BY DEF Watched
        <4>1. Closed(S)
          BY <2>1, <3>1 DEF Closed
        <4>2. PICK u \in S : pc[u] = "walk" /\ walk[u].ntx \in S
          BY <4>1 DEF Watched
        <4>3. u = t => w \in S
          BY <4>1, <4>2, <2>2
        <4>4. QED  BY <4>2, <4>3, <3>1 DEF WaitType
      <3>5. QED  BY <3>2, <3>3, <3>4
    <2>5. QED  BY <2>3, <2>4
  <1>3. QED  BY <1>1, <1>2

\* Every other step only lets threads stop waiting, or moves a thread that
\* does not wait, or one that no longer walks.
LEMMA WaitOther ==
  ASSUME WaitInv, NEW t \in Tx,
         \/ \E r \in Rows, lock \in {"LOCK_READ", "LOCK_WRITE", "put"} : checkAccessLock(t, r, lock)
         \/ Sleep(t) \/ Timeout(t) \/ Woken(t)
         \/ commit(t) \/ rollback(t)
         \/ \E r \in Rows : reassign(t, r) \/ CommitEntry(t, r)
         \/ ReadSetCleared(t) \/ signal(t) \/ Notify(t)
         \/ destroy(t) \/ ensureSafeToDestroy(t)
  PROVE  WaitInv'
  <1> USE DEF WaitInv
  <1>1. CASE \E r \in Rows, lock \in {"LOCK_READ", "LOCK_WRITE", "put"} : checkAccessLock(t, r, lock)
    <2>1. PICK r \in Rows, lock \in {"LOCK_READ", "LOCK_WRITE", "put"} : checkAccessLock(t, r, lock)
      BY <1>1
    <2>2. /\ pc[t] \in {"idle", "access"} /\ alive[t]
          /\ pc' = [pc EXCEPT ![t] = "idle"] \/ pc' = [pc EXCEPT ![t] = "cycle"]
          /\ UNCHANGED <<alive, waitId, otx, walk>>
      BY <2>1 DEF checkAccessLock, Accessing, WaitPublished
    <2>3. WaitType'
      BY <2>2 DEF WaitType, PCs
    <2>4. WaitPublished'
      BY <2>2 DEF WaitType, WaitPublished, Waiting
    <2>5. Watched'
      BY <2>2, WatchedFrame DEF WaitType, Waiting
    <2>6. QED  BY <2>3, <2>4, <2>5
  <1>2. CASE Sleep(t)
    <2>1. /\ pc[t] = "sleep" /\ UNCHANGED <<alive, walk>>
          /\ \/ /\ pc' = [pc EXCEPT ![t] = "access"]
                /\ waitId' = [waitId EXCEPT ![t] = 0] /\ otx' = [otx EXCEPT ![t] = 0]
             \/ pc' = [pc EXCEPT ![t] = "asleep"] /\ UNCHANGED <<waitId, otx>>
      BY <1>2 DEF Sleep, Release
    <2>2. WaitType'
      BY <2>1 DEF WaitType, PCs
    <2>3. WaitPublished'
      BY <2>1 DEF WaitType, WaitPublished, Waiting
    <2>4. Watched'
      BY <2>1, WatchedFrame DEF WaitType, Waiting
    <2>5. QED  BY <2>2, <2>3, <2>4
  <1>3. CASE Timeout(t) \/ Woken(t)
    <2>1. /\ pc[t] \in {"asleep", "woken"} /\ UNCHANGED <<alive, walk>>
          /\ pc' = [pc EXCEPT ![t] = "idle"] \/ pc' = [pc EXCEPT ![t] = "access"]
          /\ waitId' = [waitId EXCEPT ![t] = 0] /\ otx' = [otx EXCEPT ![t] = 0]
      BY <1>3 DEF Timeout, Woken, Release
    <2>2. WaitType'
      BY <2>1 DEF WaitType, PCs
    <2>3. WaitPublished'
      BY <2>1 DEF WaitType, WaitPublished, Waiting
    <2>4. Watched'
      BY <2>1, WatchedFrame DEF WaitType, Waiting
    <2>5. QED  BY <2>2, <2>3, <2>4
  <1>4. CASE commit(t) \/ rollback(t) \/ ReadSetCleared(t) \/ signal(t)
    <2>1. /\ pc[t] \in {"idle", "commit", "rollback", "entries", "signal"} /\ alive[t]
          /\ \E next \in {"commit", "rollback", "entries", "signal", "notify"} :
                pc' = [pc EXCEPT ![t] = next]
          /\ UNCHANGED <<alive, waitId, otx, walk>>
      BY <1>4 DEF commit, rollback, End, ReadSetCleared, signal, WaitPublished
    <2>2. WaitType'
      BY <2>1 DEF WaitType, PCs
    <2>3. WaitPublished'
      BY <2>1 DEF WaitType, WaitPublished, Waiting
    <2>4. Watched'
      BY <2>1, WatchedFrame DEF WaitType, Waiting
    <2>5. QED  BY <2>2, <2>3, <2>4
  <1>5. CASE \E r \in Rows : reassign(t, r) \/ CommitEntry(t, r)
    <2>1. UNCHANGED <<pc, alive, waitId, otx, walk>>
      BY <1>5 DEF reassign, CommitEntry
    <2>2. QED  BY <2>1 DEF WaitType, WaitPublished, Watched, Closed
  <1>6. CASE Notify(t) \/ ensureSafeToDestroy(t)
    <2>1. /\ UNCHANGED <<alive, waitId, otx, walk>>
          /\ \A u \in Tx : \/ pc'[u] = pc[u]
                           \/ u = t /\ pc[u] = "notify" /\ pc'[u] = "idle"
                           \/ pc[u] = "asleep" /\ pc'[u] = "woken"
          /\ pc' \in [Tx -> PCs]
      BY <1>6 DEF Notify, ensureSafeToDestroy, WakeAll, Sleepers, WaitType, PCs
    <2>2. WaitType'
      BY <2>1 DEF WaitType
    <2>3. WaitPublished'
      BY <2>1 DEF WaitType, WaitPublished, Waiting
    <2>4. Watched'
      BY <2>1, WatchedFrame DEF Waiting
    <2>5. QED  BY <2>2, <2>3, <2>4
  <1>7. CASE destroy(t)
    <2>1. /\ UNCHANGED <<pc, waitId, otx, walk>>
          /\ pc[t] = "idle" /\ alive' = [alive EXCEPT ![t] = FALSE]
      BY <1>7 DEF destroy
    <2>2. QED  BY <2>1 DEF WaitType, WaitPublished, Watched, Closed
  <1>8. QED  BY <1>1, <1>2, <1>3, <1>4, <1>5, <1>6, <1>7

\* Every step keeps the waits acyclic.
LEMMA WaitStep == WaitInv /\ [Next]_vars => WaitInv'
  <1> SUFFICES ASSUME WaitInv, [Next]_vars PROVE WaitInv'
    OBVIOUS
  <1>1. CASE UNCHANGED vars
    BY <1>1 DEF vars, WaitInv, WaitType, WaitPublished, Watched, Closed
  <1>2. CASE Next
    <2>1. PICK t \in Tx :
            \/ CycleStart(t) \/ CycleWalk(t)
            \/ \/ \E r \in Rows, lock \in {"LOCK_READ", "LOCK_WRITE", "put"} : checkAccessLock(t, r, lock)
               \/ Sleep(t) \/ Timeout(t) \/ Woken(t)
               \/ commit(t) \/ rollback(t)
               \/ \E r \in Rows : reassign(t, r) \/ CommitEntry(t, r)
               \/ ReadSetCleared(t) \/ signal(t) \/ Notify(t)
               \/ destroy(t) \/ ensureSafeToDestroy(t)
      BY <1>2, Zenon DEF Next
    <2>2. QED  BY <2>1, WaitCycleStart, WaitCycleWalk, WaitOther
  <1>3. QED  BY <1>1, <1>2

\* Transactions never all sleep on one another, whatever they do and however
\* many they are: checkCycleLock finds every cycle.
THEOREM SleepersAcyclic == Spec => []NoSleepingCycle
  <1>1. WaitInv => NoSleepingCycle
    <2> SUFFICES ASSUME WaitInv, NEW S \in SUBSET {t \in Tx : pc[t] = "asleep"},
                        S # {}, \A t \in S : otx[t] \in S
                 PROVE  FALSE
      BY DEF NoSleepingCycle
    <2>1. S \in SUBSET Tx /\ Closed(S)
      BY DEF Closed, Waiting
    <2>2. QED  BY <2>1 DEF WaitInv, Watched
  <1>2. QED  BY WaitInit, WaitStep, <1>1, PTL DEF Spec

-----------------------------------------------------------------------------
(* The state of the rows *)

\* Program counters of a thread in the middle of an access.
Asks == {"access", "cycle", "walk", "sleep", "asleep", "woken"}

Requests == [row : Rows \cup {0}, lock : Kinds \cup {"none"}]

Locks == [id : Tx \cup {0}, sequence : Int, share : BOOLEAN]

\* The count of a shared row is an integer here: with three readers it may
\* fall below zero.
RowType ==
    /\ use \in [Tx -> [ops : SUBSET Kinds, runs : Nat]]
    /\ line \in [Rows -> Locks]
    /\ sequence \in [Tx -> Nat]
    /\ readSet \in [Tx -> SUBSET Rows]
    /\ written \in [Tx -> SUBSET Rows]
    /\ todo \in [Tx -> SUBSET Rows]
    /\ waitFlag \in [Tx -> BOOLEAN]
    /\ holds \in [Tx -> [Rows -> {"none", "read", "write"}]]
    /\ req \in [Tx -> Requests]

\* An access under way is one that the transaction is used for.
Asked ==
    \A t \in Tx : pc[t] \in Asks =>
        /\ req[t].row \in Rows
        /\ req[t].lock \in use[t].ops \cap {"LOCK_READ", "LOCK_WRITE", "put"}

RowInv == WaitInv /\ RowType /\ Asked

\* The new owner that reassign finds is a transaction.
LEMMA NewOwnerType ==
  ASSUME NEW t \in Tx, NEW r \in Rows
  PROVE  NewOwner(t, r) \in Tx
  <1> DEFINE other == {u \in Tx \ {t} : alive[u] /\ r \in readSet[u]}
  <1>1. CASE other = {}
    BY <1>1 DEF NewOwner
  <1>2. CASE other # {}
    <2>1. other \subseteq Nat
      BY NAssumption DEF Tx
    <2>2. \E u \in other : \A v \in other : ~ (<<v, u>> \in OpToRel(<, Nat))
      BY <1>2, <2>1, NatLessThanWellFounded, WFMin, Zenon
    <2>3. PICK u \in other : \A v \in other : ~ (<<v, u>> \in OpToRel(<, Nat))
      BY <2>2
    <2>4. \A v \in other : ~(v < u)
      BY <2>1, <2>3 DEF OpToRel
    <2>5. \E x \in other : \A v \in other : x <= v
      BY <2>1, <2>4
    <2>6. (CHOOSE x \in other : \A v \in other : x <= v) \in other
      BY <2>5, Zenon
    <2>7. QED  BY <2>6, <1>2 DEF NewOwner
  <1>3. QED  BY <1>1, <1>2

\* The steps that leave rows and what is known of them alone: the threads'
\* waiting.
Quiet(t) ==
    \/ CycleStart(t) \/ CycleWalk(t) \/ Sleep(t) \/ Timeout(t) \/ Woken(t)
    \/ Notify(t) \/ ensureSafeToDestroy(t)

\* A step that neither takes nor gives up a row.
LEMMA QuietStep ==
  ASSUME RowInv, NEW t \in Tx, Quiet(t)
  PROVE  /\ UNCHANGED <<use, line, sequence, alive, readSet, written, todo, holds>>
         /\ req' \in [Tx -> Requests]
         /\ waitFlag' \in [Tx -> BOOLEAN]
         /\ \A u \in Tx :
              \/ pc'[u] = pc[u] /\ req'[u] = req[u]
              \/ pc[u] \in Asks /\ pc'[u] \in Asks /\ req'[u] = req[u]
              \/ pc[u] \in Asks \cup {"notify"} /\ pc'[u] = "idle"
  <1> USE DEF RowInv, WaitInv, WaitType, RowType, Asks
  <1>0. NoRequest \in Requests
    BY DEF NoRequest, Requests
  <1>1. CASE CycleStart(t)
    BY <1>1 DEF CycleStart, Release
  <1>2. CASE CycleWalk(t)
    <2>1. /\ UNCHANGED <<use, line, sequence, alive, readSet, written, todo, holds, waitFlag>>
          /\ pc[t] = "walk"
      BY <1>2 DEF CycleWalk
    <2>2. CASE Deadlocked(t)
      <3>1. \/ pc' = [pc EXCEPT ![t] = "idle"] /\ req' = [req EXCEPT ![t] = NoRequest]
            \/ pc' = [pc EXCEPT ![t] = "access"] /\ req' = req
        BY <2>2 DEF Deadlocked
      <3>2. req' \in [Tx -> Requests]
        BY <1>0, <3>1
      <3>3. \A u \in Tx :
              \/ pc'[u] = pc[u] /\ req'[u] = req[u]
              \/ pc[u] \in Asks /\ pc'[u] \in Asks /\ req'[u] = req[u]
              \/ pc[u] \in Asks \cup {"notify"} /\ pc'[u] = "idle"
        BY <2>1, <3>1
      <3>4. QED  BY <2>1, <3>2, <3>3
    <2>3. CASE pc' = [pc EXCEPT ![t] = "sleep"] /\ req' = req
      BY <2>1, <2>3
    <2>4. CASE pc' = pc /\ req' = req
      BY <2>1, <2>4
    <2>5. QED  BY <1>2, <2>2, <2>3, <2>4 DEF CycleWalk
  <1>3. CASE Sleep(t)
    <2>1. /\ UNCHANGED <<use, line, sequence, alive, readSet, written, todo, holds, req>>
          /\ pc[t] = "sleep"
          /\ pc' = [pc EXCEPT ![t] = "access"] \/ pc' = [pc EXCEPT ![t] = "asleep"]
          /\ waitFlag' = waitFlag \/ waitFlag' = [waitFlag EXCEPT ![otx[t]] = TRUE]
      BY <1>3 DEF Sleep
    <2>2. waitFlag' \in [Tx -> BOOLEAN]
      BY <2>1
    <2>3. QED  BY <2>1, <2>2
  <1>4. CASE Timeout(t) \/ Woken(t)
    <2>1. /\ UNCHANGED <<use, line, sequence, alive, readSet, written, todo, holds, waitFlag>>
          /\ \/ pc' = [pc EXCEPT ![t] = "idle"] /\ req' = [req EXCEPT ![t] = NoRequest]
             \/ pc' = [pc EXCEPT ![t] = "access"] /\ req' = req
          /\ pc[t] \in {"asleep", "woken"}
      BY <1>4 DEF Timeout, Woken
    <2>2. req' \in [Tx -> Requests]
      BY <1>0, <2>1
    <2>3. \A u \in Tx :
            \/ pc'[u] = pc[u] /\ req'[u] = req[u]
            \/ pc[u] \in Asks /\ pc'[u] \in Asks /\ req'[u] = req[u]
            \/ pc[u] \in Asks \cup {"notify"} /\ pc'[u] = "idle"
      BY <2>1
    <2>4. QED  BY <2>1, <2>2, <2>3
  <1>5. CASE Notify(t) \/ ensureSafeToDestroy(t)
    BY <1>5 DEF Notify, ensureSafeToDestroy, WakeAll, Sleepers
  <1>6. QED  BY <1>1, <1>2, <1>3, <1>4, <1>5 DEF Quiet

\* What checkAccessLock may make of a row.
LEMMA AccessType ==
  ASSUME RowInv, NEW t \in Tx, NEW r \in Rows, NEW lock
  PROVE  /\ Cleaned(line[r], t) \in Locks
         /\ ReadLine(Cleaned(line[r], t), t, r) \in Locks
         /\ Lock(t, sequence[t], FALSE) \in Locks
  <1> USE DEF RowInv, RowType, Locks, Lock
  <1> DEFINE l == Cleaned(line[r], t)
  <1>1. l \in Locks
    BY DEF Cleaned
  <1>2. ReadLine(l, t, r) \in Locks
    <2> HIDE DEF l
    <2> QED  BY <1>1 DEF ReadLine, ReadShared
  <1>3. QED  BY <1>1, <1>2

\* A reader that leaves a row leaves a lock.
LEMMA LeaveType ==
  ASSUME RowInv, NEW t \in Tx, NEW r \in Rows
  PROVE  LeaveRow(line[r], t, r) \in Locks
  <1>1. line[r] \in Locks /\ NewOwner(t, r) \in Tx
    BY NewOwnerType DEF RowInv, RowType
  <1>2. QED  BY <1>1 DEF LeaveRow, Lock, Locks

\* One transaction's claim on one row changes.
LEMMA HoldsType ==
  ASSUME NEW H \in [Tx -> [Rows -> {"none", "read", "write"}]],
         NEW t \in Tx, NEW r \in Rows, NEW h \in {"none", "read", "write"}
  PROVE  /\ [H EXCEPT ![t][r] = h] \in [Tx -> [Rows -> {"none", "read", "write"}]]
         /\ \A u \in Tx, q \in Rows :
               [H EXCEPT ![t][r] = h][u][q] = IF u = t /\ q = r THEN h ELSE H[u][q]
  OBVIOUS

\* The initial state has the types, and no request is under way.
LEMMA RowInit == Init => RowInv
  <1> SUFFICES ASSUME Init PROVE RowInv
    OBVIOUS
  <1>1. RowType
    BY UsesAssumption DEF Init, RowType, Locks, Lock, NoRequest, Requests
  <1>2. Asked
    BY DEF Init, Asked, Asks
  <1>3. QED  BY <1>1, <1>2, WaitInit DEF RowInv

\* Every step keeps the types and the requests under way.
LEMMA RowStep == RowInv /\ [Next]_vars => RowInv'
  <1> SUFFICES ASSUME RowInv, [Next]_vars PROVE RowType' /\ Asked'
    BY WaitStep DEF RowInv
  <1>1. CASE UNCHANGED vars
    BY <1>1 DEF vars, RowInv, RowType, Asked
  <1>2. CASE Next
    <2>1. PICK t \in Tx :
            \/ \E r \in Rows, lock \in {"LOCK_READ", "LOCK_WRITE", "put"} : checkAccessLock(t, r, lock)
            \/ Quiet(t)
            \/ commit(t) \/ rollback(t)
            \/ \E r \in Rows : reassign(t, r) \/ CommitEntry(t, r)
            \/ ReadSetCleared(t) \/ signal(t) \/ destroy(t)
      BY <1>2, Zenon DEF Next, Quiet
    <2>2. CASE Quiet(t)
      <3> USE <2>2, QuietStep
      <3>1. RowType'
        BY DEF RowInv, RowType
      <3>2. Asked'
        BY DEF RowInv, Asked, Asks
      <3>3. QED  BY <3>1, <3>2
    <2>3. CASE \E r \in Rows, lock \in {"LOCK_READ", "LOCK_WRITE", "put"} : checkAccessLock(t, r, lock)
      <3>1. PICK r \in Rows, lock \in {"LOCK_READ", "LOCK_WRITE", "put"} : checkAccessLock(t, r, lock)
        BY <2>3
      <3> DEFINE rq == [row |-> r, lock |-> lock]
      <3>2. /\ \E new \in Locks : line' = [line EXCEPT ![r] = new]
            /\ \E R \in SUBSET Rows : readSet' = [readSet EXCEPT ![t] = R]
            /\ \E W \in SUBSET Rows : written' = [written EXCEPT ![t] = W]
            /\ \E h \in {"none", "read", "write"} : holds' = [holds EXCEPT ![t][r] = h]
        <4>1. line[r] \in Locks /\ readSet[t] \in SUBSET Rows /\ written[t] \in SUBSET Rows
              /\ holds[t][r] \in {"none", "read", "write"}
          BY DEF RowInv, RowType
        <4> HIDE DEF Locks
        <4>2. QED  BY <3>1, <4>1, AccessType DEF checkAccessLock
      <3>3. /\ UNCHANGED <<use, sequence, alive, waitFlag, todo>>
            /\ \/ pc' = [pc EXCEPT ![t] = "idle"] /\ req' = [req EXCEPT ![t] = NoRequest]
               \/ pc' = [pc EXCEPT ![t] = "cycle"] /\ req' = [req EXCEPT ![t] = rq]
        BY <3>1 DEF checkAccessLock
      <3>4. lock \in use[t].ops
        BY <3>1 DEF checkAccessLock, Accessing, RowInv, Asked, Asks
      <3>5. RowType'
        <4>1. rq \in Requests /\ NoRequest \in Requests
          BY DEF NoRequest, Kinds, Requests
        <4>2. PICK h \in {"none", "read", "write"} : holds' = [holds EXCEPT ![t][r] = h]
          BY <3>2
        <4>3. holds' \in [Tx -> [Rows -> {"none", "read", "write"}]]
          BY <4>2, HoldsType DEF RowInv, RowType
        <4>4. req' \in [Tx -> Requests]
          BY <4>1, <3>3 DEF RowInv, RowType
        <4>5. line' \in [Rows -> Locks]
          BY <3>2 DEF RowInv, RowType
        <4>6. readSet' \in [Tx -> SUBSET Rows] /\ written' \in [Tx -> SUBSET Rows]
          BY <3>2 DEF RowInv, RowType
        <4>7. QED  BY <3>3, <4>3, <4>4, <4>5, <4>6 DEF RowInv, RowType
      <3>6. Asked'
        <4> SUFFICES ASSUME NEW u \in Tx, pc'[u] \in Asks
                     PROVE  /\ req'[u].row \in Rows
                            /\ req'[u].lock \in use[u].ops \cap {"LOCK_READ", "LOCK_WRITE", "put"}
          BY <3>3 DEF Asked
        <4>1. CASE u = t
          <5>1. req'[t] = rq
            BY <3>3, <4>1 DEF RowInv, RowType, WaitInv, WaitType, Asks
          <5>2. QED  BY <4>1, <5>1, <3>4
        <4>2. CASE u # t
          <5>1. req'[u] = req[u] /\ pc'[u] = pc[u]
            BY <3>3, <4>2 DEF RowInv, RowType, WaitInv, WaitType
          <5>2. QED  BY <5>1 DEF RowInv, Asked
        <4>3. QED  BY <4>1, <4>2
      <3>7. QED  BY <3>5, <3>6
    <2>4. CASE commit(t) \/ rollback(t) \/ ReadSetCleared(t) \/ signal(t) \/ destroy(t)
      <3>1. /\ UNCHANGED <<use, line, waitFlag, req>>
            /\ \E next \in PCs \ Asks : pc' = [pc EXCEPT ![t] = next]
            /\ sequence' = sequence \/ sequence' = [sequence EXCEPT ![t] = @ + 1]
            /\ todo' = todo \/ todo' = [todo EXCEPT ![t] = readSet[t]]
            /\ readSet' = readSet \/ readSet' = [readSet EXCEPT ![t] = {}]
            /\ written' = written \/ written' = [written EXCEPT ![t] = {}]
            /\ holds' = holds \/ holds' = [holds EXCEPT ![t] = [r \in Rows |-> "none"]]
        <4>1. CASE commit(t) \/ rollback(t)
          BY <4>1 DEF commit, rollback, End, PCs, Asks
        <4>2. CASE ReadSetCleared(t)
          <5>1. written' = written \/ written' = [written EXCEPT ![t] = {}]
            BY <4>2 DEF ReadSetCleared, RowInv, RowType
          <5>2. QED  BY <4>2, <5>1 DEF ReadSetCleared, PCs, Asks
        <4>3. CASE signal(t)
          BY <4>3 DEF signal, PCs, Asks
        <4>4. CASE destroy(t)
          <5>1. pc' = [pc EXCEPT ![t] = "idle"]
            BY <4>4 DEF destroy, RowInv, WaitInv, WaitType
          <5>2. QED  BY <4>4, <5>1 DEF destroy, PCs, Asks
        <4>5. QED  BY <2>4, <4>1, <4>2, <4>3, <4>4
      <3>2. RowType'
        <4>1. holds' \in [Tx -> [Rows -> {"none", "read", "write"}]]
          BY <3>1 DEF RowInv, RowType
        <4>2. sequence' \in [Tx -> Nat]
          <5>1. /\ sequence \in [Tx -> Nat]
                /\ sequence' = sequence \/ sequence' = [sequence EXCEPT ![t] = sequence[t] + 1]
            BY <3>1 DEF RowInv, RowType
          <5>2. QED  BY <5>1
        <4>3. readSet' \in [Tx -> SUBSET Rows] /\ written' \in [Tx -> SUBSET Rows]
          BY <3>1 DEF RowInv, RowType
        <4>4. todo' \in [Tx -> SUBSET Rows]
          BY <3>1 DEF RowInv, RowType
        <4>5. QED  BY <3>1, <4>1, <4>2, <4>3, <4>4 DEF RowInv, RowType
      <3>3. Asked'
        BY <3>1 DEF RowInv, WaitInv, WaitType, Asked
      <3>4. QED  BY <3>2, <3>3
    <2>5. CASE \E r \in Rows : reassign(t, r) \/ CommitEntry(t, r)
      <3>1. PICK r \in Rows : reassign(t, r) \/ CommitEntry(t, r)
        BY <2>5
      <3>2. /\ UNCHANGED <<use, sequence, readSet, req, pc>>
            /\ \E new \in Locks : line' = [line EXCEPT ![r] = new]
            /\ todo' = todo \/ todo' = [todo EXCEPT ![t] = @ \ {r}]
            /\ written' = written \/ written' = [written EXCEPT ![t] = @ \ {r}]
            /\ \E h \in {"none", "read", "write"} : holds' = [holds EXCEPT ![t][r] = h]
            /\ waitFlag' \in [Tx -> BOOLEAN]
        <4>1. holds[t][r] \in {"none", "read", "write"} /\ line[r] \in Locks
          BY DEF RowInv, RowType
        <4>2. CASE reassign(t, r)
          <5>1. LeaveRow(line[r], t, r) \in Locks
            BY LeaveType
          <5> HIDE DEF Locks
          <5>2. QED  BY <4>1, <4>2, <5>1 DEF reassign, RowInv, RowType
        <4>3. CASE CommitEntry(t, r)
          <5>1. Lock(0, 0, line[r].share) \in Locks
            BY <4>1 DEF Lock, Locks
          <5>2. QED  BY <4>1, <4>3, <5>1 DEF CommitEntry, RowInv, RowType
        <4>4. QED  BY <3>1, <4>2, <4>3
      <3>3. RowType'
        <4>1. PICK h \in {"none", "read", "write"} : holds' = [holds EXCEPT ![t][r] = h]
          BY <3>2
        <4>2. holds' \in [Tx -> [Rows -> {"none", "read", "write"}]]
          BY <4>1, HoldsType DEF RowInv, RowType
        <4>3. line' \in [Rows -> Locks]
          BY <3>2 DEF RowInv, RowType
        <4>4. todo' \in [Tx -> SUBSET Rows] /\ written' \in [Tx -> SUBSET Rows]
          <5>1. /\ todo \in [Tx -> SUBSET Rows] /\ written \in [Tx -> SUBSET Rows]
                /\ todo' = todo \/ todo' = [todo EXCEPT ![t] = todo[t] \ {r}]
                /\ written' = written \/ written' = [written EXCEPT ![t] = written[t] \ {r}]
            BY <3>2 DEF RowInv, RowType
          <5>2. QED  BY <5>1
        <4>5. QED  BY <3>2, <4>2, <4>3, <4>4 DEF RowInv, RowType
      <3>4. Asked'
        BY <3>2 DEF RowInv, Asked
      <3>5. QED  BY <3>3, <3>4
    <2>6. QED  BY <2>1, <2>2, <2>3, <2>4, <2>5
  <1>3. QED  BY <1>1, <1>2

-----------------------------------------------------------------------------
(* Row exclusion among writers *)

\* No transaction asks for LOCK_READ.
NoReads == \A t \in Tx : "LOCK_READ" \notin use[t].ops

\* Then no row is ever shared, and a row granted for writing carries its
\* transaction's identifier and present sequence number.
WritersInv ==
    /\ \A t \in Tx : readSet[t] = {} /\ todo[t] = {}
    /\ \A r \in Rows : ~line[r].share
    /\ \A t \in Tx, r \in Rows :
         /\ holds[t][r] # "read"
         /\ holds[t][r] = "write" => line[r].id = t /\ line[r].sequence = sequence[t]

\* A writer is granted a row only when nobody's present sequence number is on
\* it, and puts its own on it.
LEMMA WritersAccess ==
  ASSUME RowInv, NoReads, WritersInv, NEW t \in Tx, NEW r \in Rows,
         NEW lock \in {"LOCK_READ", "LOCK_WRITE", "put"}, checkAccessLock(t, r, lock)
  PROVE  WritersInv'
  <1> DEFINE l == Cleaned(line[r], t)
             new == Lock(t, sequence[t], FALSE)
  <1>1. lock # "LOCK_READ"
    BY DEF checkAccessLock, Accessing, RowInv, Asked, Asks, NoReads
  <1>2. /\ UNCHANGED <<sequence, todo>>
        /\ line' = [line EXCEPT ![r] = IF WriteGranted(l, t) THEN new ELSE l]
        /\ holds' = [holds EXCEPT ![t][r] = IF WriteGranted(l, t) THEN "write" ELSE @]
        /\ readSet' = [readSet EXCEPT ![t] = IF ~WriteGranted(l, t) THEN @
                                             ELSE IF l.share THEN @ \ {r} ELSE @]
    BY <1>1 DEF checkAccessLock, Granted
  <1>3. /\ line \in [Rows -> Locks] /\ sequence \in [Tx -> Nat]
        /\ readSet \in [Tx -> SUBSET Rows]
        /\ holds \in [Tx -> [Rows -> {"none", "read", "write"}]]
    BY DEF RowInv, RowType
  <1>4. l.share = FALSE /\ new.share = FALSE /\ new.id = t /\ new.sequence = sequence[t]
    BY <1>3 DEF Cleaned, Lock, WritersInv, Locks
  \* Where somebody has the row, it is neither cleaned nor granted to another.
  <1>5. \A u \in Tx : holds[u][r] = "write" => l = line[r] /\ l.id = u
    <2> SUFFICES ASSUME NEW u \in Tx, holds[u][r] = "write"
                 PROVE  l = line[r] /\ l.id = u
      OBVIOUS
    <2>1. line[r].id = u /\ line[r].sequence = sequence[u]
      BY DEF WritersInv
    <2>2. QED  BY <2>1 DEF Cleaned
  <1>6. WriteGranted(l, t) => \A u \in Tx : holds[u][r] = "write" => u = t
    BY <1>4, <1>5, ZeroNotTx DEF WriteGranted, lockable
  <1>7. \A u \in Tx : readSet'[u] = {} /\ todo'[u] = {}
    BY <1>2, <1>3 DEF WritersInv
  <1>8. \A q \in Rows : ~line'[q].share
    BY <1>2, <1>3, <1>4 DEF WritersInv
  <1>9. ASSUME NEW u \in Tx, NEW q \in Rows
        PROVE  /\ holds'[u][q] # "read"
               /\ holds'[u][q] = "write" => line'[q].id = u /\ line'[q].sequence = sequence'[u]
    <2>1. CASE q # r
      <3>1. holds'[u][q] = holds[u][q] /\ line'[q] = line[q] /\ sequence' = sequence
        BY <1>2, <1>3, <2>1
      <3>2. QED  BY <3>1 DEF WritersInv
    <2>2. CASE q = r /\ WriteGranted(l, t)
      <3>1. holds'[u][q] = IF u = t THEN "write" ELSE holds[u][r]
        BY <1>2, <1>3, <2>2
      <3>2. line'[q] = new
        BY <1>2, <1>3, <2>2
      <3>3. holds[u][r] # "read" /\ (holds[u][r] = "write" => u = t)
        BY <1>6, <2>2 DEF WritersInv
      <3>4. line'[q].id = t /\ line'[q].sequence = sequence[t] /\ sequence' = sequence
        BY <1>2, <1>4, <3>2
      <3>5. QED  BY <3>1, <3>3, <3>4
    <2>3. CASE q = r /\ ~WriteGranted(l, t)
      <3>1. holds'[u][q] = holds[u][r] /\ line'[q] = l
        BY <1>2, <1>3, <2>3
      <3>2. QED  BY <3>1, <1>2, <1>5, <2>3 DEF WritersInv
    <2>4. QED  BY <2>1, <2>2, <2>3
  <1>10. QED  BY <1>7, <1>8, <1>9 DEF WritersInv

\* What transactions are used for is fixed.
LEMMA UseFixed == ASSUME [Next]_vars PROVE use' = use
  <1>1. CASE UNCHANGED vars
    BY <1>1 DEF vars
  <1>2. ASSUME NEW t \in Tx, NEW r \in Rows, NEW lock, checkAccessLock(t, r, lock)
        PROVE  use' = use
    BY <1>2 DEF checkAccessLock
  <1>3. ASSUME NEW t \in Tx, Quiet(t) PROVE use' = use
    BY <1>3 DEF Quiet, CycleStart, CycleWalk, Sleep, Timeout, Woken, Notify, ensureSafeToDestroy
  <1>4. ASSUME NEW t \in Tx, NEW r \in Rows, reassign(t, r) \/ CommitEntry(t, r)
        PROVE  use' = use
    BY <1>4 DEF reassign, CommitEntry
  <1>5. ASSUME NEW t \in Tx,
               commit(t) \/ rollback(t) \/ ReadSetCleared(t) \/ signal(t) \/ destroy(t)
        PROVE  use' = use
    BY <1>5 DEF commit, rollback, End, ReadSetCleared, signal, destroy
  <1>6. QED  BY <1>1, <1>2, <1>3, <1>4, <1>5 DEF Next, Quiet

\* No row is written at first.
LEMMA WritersInit == Init => WritersInv
  BY DEF Init, WritersInv, Lock

\* Every step keeps writers apart while nobody has read.
LEMMA WritersStep == RowInv /\ (NoReads => WritersInv) /\ [Next]_vars => (NoReads' => WritersInv')
  <1> SUFFICES ASSUME RowInv, NoReads => WritersInv, [Next]_vars, NoReads'
               PROVE  WritersInv'
    OBVIOUS
  <1>1. use' = use
    BY UseFixed
  <1>2. NoReads /\ WritersInv
    BY <1>1 DEF NoReads
  <1>3. CASE UNCHANGED vars
    BY <1>2, <1>3 DEF vars, WritersInv
  <1>4. ASSUME NEW t \in Tx, Quiet(t) PROVE WritersInv'
    BY <1>2, <1>4, QuietStep DEF WritersInv
  <1>5. ASSUME NEW t \in Tx, commit(t) \/ rollback(t) \/ ReadSetCleared(t) PROVE WritersInv'
    <2>1. /\ UNCHANGED <<line, sequence, holds>>
          /\ todo' = todo \/ todo' = [todo EXCEPT ![t] = readSet[t]]
          /\ readSet' = readSet \/ readSet' = [readSet EXCEPT ![t] = {}]
      BY <1>5 DEF commit, rollback, End, ReadSetCleared
    <2>2. readSet \in [Tx -> SUBSET Rows] /\ todo \in [Tx -> SUBSET Rows]
      BY DEF RowInv, RowType
    <2>3. QED  BY <1>2, <2>1, <2>2 DEF WritersInv
  <1>6. ASSUME NEW t \in Tx, signal(t) \/ destroy(t) PROVE WritersInv'
    <2>1. /\ UNCHANGED <<line, readSet, todo>>
          /\ sequence' = [sequence EXCEPT ![t] = @ + 1]
          /\ holds' = [holds EXCEPT ![t] = [r \in Rows |-> "none"]]
      BY <1>6 DEF signal, destroy
    <2>2. /\ sequence \in [Tx -> Nat]
          /\ holds \in [Tx -> [Rows -> {"none", "read", "write"}]]
      BY DEF RowInv, RowType
    <2>3. QED  BY <1>2, <2>1, <2>2 DEF WritersInv
  <1>7. ASSUME NEW t \in Tx, NEW r \in Rows, reassign(t, r) PROVE WritersInv'
    BY <1>2, <1>7 DEF reassign, WritersInv
  <1>8. ASSUME NEW t \in Tx, NEW r \in Rows, CommitEntry(t, r) PROVE WritersInv'
    <2>1. /\ UNCHANGED <<sequence, readSet, todo>>
          /\ line' = [line EXCEPT ![r] = IF line[r].id = t THEN Lock(0, 0, line[r].share) ELSE line[r]]
          /\ holds' = [holds EXCEPT ![t][r] = "none"]
      BY <1>8 DEF CommitEntry
    <2>2. /\ line \in [Rows -> Locks]
          /\ holds \in [Tx -> [Rows -> {"none", "read", "write"}]]
      BY DEF RowInv, RowType
    <2>3. \A u \in Tx, q \in Rows :
             holds'[u][q] = IF u = t /\ q = r THEN "none" ELSE holds[u][q]
      BY <2>1, <2>2, HoldsType
    <2>4. \A q \in Rows :
            /\ ~line'[q].share
            /\ line'[q] = line[q] \/ (q = r /\ line[q].id = t)
      BY <1>2, <2>1, <2>2 DEF WritersInv, Lock
    <2>5. QED  BY <1>2, <2>1, <2>3, <2>4 DEF WritersInv
  <1>9. QED  BY <1>2, <1>3, <1>4, <1>5, <1>6, <1>7, <1>8, WritersAccess DEF Next, Quiet

\* A set with a member and no other has one element.
LEMMA OneElement ==
  ASSUME NEW S, NEW x \in S, \A y \in S : y = x
  PROVE  Cardinality(S) = 1
  <1>1. S = {x}
    OBVIOUS
  <1>2. QED  BY <1>1, FS_Singleton

\* As long as nobody asks for LOCK_READ, a row granted for writing is granted to
\* nobody else: whatever mixture of locking, changing, rolling back and
\* disconnecting the transactions are used for.
THEOREM WritersExclude == Spec => [](NoReads => RowExclusion)
  <1>1. WritersInv => RowExclusion
    <2> SUFFICES ASSUME WritersInv, NEW r \in Rows, Writers(r) # {}
                 PROVE  Cardinality(Writers(r) \cup Readers(r)) = 1
      BY DEF RowExclusion
    <2>1. PICK t \in Tx : holds[t][r] = "write"
      BY DEF Writers
    <2>2. t \in Writers(r) \cup Readers(r)
      BY <2>1 DEF Writers
    <2>3. \A u \in Writers(r) \cup Readers(r) : u = t
      BY <2>1 DEF Writers, Readers, WritersInv
    <2>4. QED  BY <2>2, <2>3, OneElement
  <1>2. QED
    BY RowInit, RowStep, WritersInit, WritersStep, <1>1, PTL DEF Spec

-----------------------------------------------------------------------------
(* Shared rows with at most two readers *)

TwoRead(a, b) == \A t \in Tx : "LOCK_READ" \in use[t].ops => t \in {a, b}

\* At most two transactions ask for LOCK_READ.
AtMostTwoRead == \E a, b \in Tx : TwoRead(a, b)

ReadBy(t) == {r \in Rows : holds[t][r] = "read"}
WrittenBy(t) == {r \in Rows : holds[t][r] = "write"}

\* A row's lock says exactly who has been granted the row.
LineAgrees(r) ==
    /\ line[r].share => /\ line[r].id \in Readers(r)
                        /\ line[r].sequence = Cardinality(Readers(r))
    /\ ~line[r].share => Readers(r) = {}
    /\ ~line[r].share /\ line[r].id # 0 =>
          /\ holds[line[r].id][r] = "write"
          /\ line[r].sequence = sequence[line[r].id]
    /\ \A t \in Tx : holds[t][r] = "write" => line[r].id = t /\ ~line[r].share

LinesAgree == \A r \in Rows : LineAgrees(r)

\* m_readLockSet and the conductor's entries say what the transaction has been
\* granted, except for the read locks that reassign has already left.
SetAgrees(t) ==
    /\ pc[t] \notin {"rollback", "signal"}
    /\ pc[t] = "commit" => todo[t] = ReadBy(t) /\ todo[t] \subseteq readSet[t]
    /\ pc[t] # "commit" => readSet[t] = ReadBy(t)
    /\ pc[t] \in {"entries", "notify"} => readSet[t] = {}
    /\ pc[t] = "notify" => written[t] = {}
    /\ written[t] = WrittenBy(t)
    /\ readSet[t] # {} => alive[t] /\ "LOCK_READ" \in use[t].ops
    /\ written[t] # {} => alive[t]
    /\ pc[t] \in Asks /\ req[t].lock = "LOCK_READ" => holds[t][req[t].row] = "none"

SetsAgree == \A t \in Tx : SetAgrees(t)

\* Who sleeps is on the list of a transaction that will still signal: m_wait of
\* that transaction is set, and it has the row or is on its way to the signal.
WakeAgree ==
    \A t \in Tx : pc[t] = "asleep" =>
        \/ ~alive[otx[t]]
        \/ /\ waitFlag[otx[t]]
           /\ \/ holds[otx[t]][req[t].row] # "none"
              \/ pc[otx[t]] \in {"commit", "entries", "notify"}

SharedInv == LinesAgree /\ SetsAgree /\ WakeAgree

Ending == {"commit", "entries", "notify"}

\* A row that a step does not touch keeps its state.
LEMMA LineFrame ==
  ASSUME RowInv, NEW r \in Rows, LineAgrees(r), line'[r] = line[r],
         \A u \in Tx : /\ holds'[u][r] = holds[u][r]
                       /\ holds[u][r] = "write" => sequence'[u] = sequence[u]
  PROVE  LineAgrees(r)'
  <1>1. Readers(r)' = Readers(r)
    BY DEF Readers
  <1>2. line[r].id \in Tx \cup {0}
    BY DEF RowInv, RowType, Locks
  <1>3. QED  BY <1>1, <1>2 DEF LineAgrees

\* A transaction that is not yet done with its signal keeps the promise to wake
\* those that sleep on it.
LEMMA WakeFrame ==
  ASSUME RowInv, WakeAgree,
         \A u \in Tx : pc'[u] = "asleep" =>
            pc[u] = "asleep" /\ otx'[u] = otx[u] /\ req'[u] = req[u],
         \A o \in Tx :
            \/ ~alive'[o]
            \/ /\ alive[o]
               /\ waitFlag[o] => waitFlag'[o]
               /\ \A r \in Rows : holds[o][r] # "none" \/ pc[o] \in Ending =>
                                  holds'[o][r] # "none" \/ pc'[o] \in Ending
            \/ \A u \in Tx : pc'[u] = "asleep" => otx[u] # o
  PROVE  WakeAgree'
  <1> SUFFICES ASSUME NEW u \in Tx, pc'[u] = "asleep"
               PROVE  \/ ~alive'[otx'[u]]
                      \/ /\ waitFlag'[otx'[u]]
                         /\ \/ holds'[otx'[u]][req'[u].row] # "none"
                            \/ pc'[otx'[u]] \in {"commit", "entries", "notify"}
    BY DEF WakeAgree
  <1>1. /\ pc[u] = "asleep" /\ otx'[u] = otx[u] /\ req'[u] = req[u]
        /\ otx[u] \in Tx /\ req[u].row \in Rows
    BY DEF RowInv, WaitInv, WaitPublished, Waiting, Asked, Asks
  <1>2. \/ ~alive[otx[u]]
        \/ /\ waitFlag[otx[u]]
           /\ holds[otx[u]][req[u].row] # "none" \/ pc[otx[u]] \in Ending
    BY <1>1 DEF WakeAgree, Ending
  <1>3. QED  BY <1>1, <1>2 DEF Ending

\* The readers of a row are a finite set.
LEMMA ReadersFinite ==
  ASSUME NEW r \in Rows
  PROVE  IsFiniteSet(Readers(r)) /\ Cardinality(Readers(r)) \in Nat
  <1>1. IsFiniteSet(Tx)
    BY NAssumption, FS_Interval DEF Tx
  <1>2. IsFiniteSet(Readers(r))
    BY <1>1, FS_Subset DEF Readers
  <1>3. QED  BY <1>2, FS_CardinalityType

\* The three outcomes of checkAccessLock.  No owner of a row has ended, so
\* lockable never has to clean the row first.
Refused(t) ==
    /\ UNCHANGED <<line, readSet, written, holds>>
    /\ pc' = [pc EXCEPT ![t] = "cycle"]

ReadTaken(t, r) ==
    /\ "LOCK_READ" \in use[t].ops /\ holds[t][r] = "none"
    /\ \/ line[r].share /\ line' = [line EXCEPT ![r] = Lock(line[r].id, line[r].sequence + 1, TRUE)]
       \/ /\ ~line[r].share /\ line[r].id = 0
          /\ line' = [line EXCEPT ![r] = Lock(t, 1, TRUE)]
    /\ readSet' = [readSet EXCEPT ![t] = readSet[t] \cup {r}]
    /\ written' = written
    /\ holds' = [holds EXCEPT ![t][r] = "read"]
    /\ pc' = [pc EXCEPT ![t] = "idle"]

WriteTaken(t, r) ==
    /\ \/ ~line[r].share /\ line[r].id \in {0, t} /\ readSet' = readSet
       \/ /\ line[r].share /\ Readers(r) = {t}
          /\ readSet' = [readSet EXCEPT ![t] = readSet[t] \ {r}]
    /\ line' = [line EXCEPT ![r] = Lock(t, sequence[t], FALSE)]
    /\ written' = [written EXCEPT ![t] = written[t] \cup {r}]
    /\ holds' = [holds EXCEPT ![t][r] = "write"]
    /\ pc' = [pc EXCEPT ![t] = "idle"]

\* checkAccessLock refuses, or takes the row for reading or for writing.
LEMMA AccessOutcome ==
  ASSUME RowInv, PutOnly, SharedInv, NEW t \in Tx, NEW r \in Rows,
         NEW lock \in {"LOCK_READ", "LOCK_WRITE", "put"}, checkAccessLock(t, r, lock)
  PROVE  Refused(t) \/ ReadTaken(t, r) \/ WriteTaken(t, r)
  <1> DEFINE l == Cleaned(line[r], t)
  <1>1. /\ line \in [Rows -> Locks] /\ sequence \in [Tx -> Nat]
        /\ readSet \in [Tx -> SUBSET Rows] /\ written \in [Tx -> SUBSET Rows]
        /\ holds \in [Tx -> [Rows -> {"none", "read", "write"}]]
        /\ pc \in [Tx -> PCs] /\ alive \in [Tx -> BOOLEAN]
    BY DEF RowInv, RowType, WaitInv, WaitType
  <1>2. line[r] \in Locks /\ LineAgrees(r)
    BY <1>1 DEF SharedInv, LinesAgree
  <1>3. l = line[r]
    BY <1>2 DEF Cleaned, LineAgrees
  <1>4. /\ pc[t] \in {"idle", "access"}
        /\ lock \in use[t].ops /\ lock # "LOCK_WRITE"
        /\ lock = "LOCK_READ" => holds[t][r] = "none"
    BY DEF checkAccessLock, Accessing, RowInv, Asked, Asks, PutOnly, SharedInv, SetsAgree, SetAgrees
  <1>5. readSet[t] = ReadBy(t)
    BY <1>4 DEF SharedInv, SetsAgree, SetAgrees
  <1>6. CASE ~Granted(l, t, lock)
    BY <1>1, <1>3, <1>6 DEF checkAccessLock, Refused
  <1>7. CASE Granted(l, t, lock) /\ lock = "LOCK_READ"
    <2>1. holds[t][r] = "none" /\ r \notin readSet[t]
      BY <1>4, <1>5, <1>7 DEF ReadBy
    <2>2. line[r].share \/ (~line[r].share /\ line[r].id = 0)
      BY <1>2, <1>3, <1>7, <2>1 DEF Granted, ReadGranted, lockable, LineAgrees
    <2>3. line[r].share => line[r].sequence # 0
      <3>1. line[r].share => Cardinality(Readers(r)) # 0
        BY <1>2, ReadersFinite, FS_EmptySet DEF LineAgrees
      <3>2. QED  BY <3>1, <1>2 DEF LineAgrees
    <2>4. ReadLine(l, t, r) = IF line[r].share THEN Lock(line[r].id, line[r].sequence + 1, TRUE)
                                               ELSE Lock(t, 1, TRUE)
      BY <1>3, <2>1, <2>2, <2>3, ZeroNotTx DEF ReadLine, ReadShared
    <2>5. ReadLine(l, t, r).share
      BY <2>4 DEF Lock
    <2>6. /\ line' = [line EXCEPT ![r] = ReadLine(l, t, r)]
          /\ readSet' = [readSet EXCEPT ![t] = readSet[t] \cup {r}]
          /\ written' = written
          /\ holds' = [holds EXCEPT ![t][r] = "read"]
          /\ pc' = [pc EXCEPT ![t] = "idle"]
      BY <1>1, <1>7, <2>5 DEF checkAccessLock
    <2>7. QED  BY <1>4, <1>7, <2>1, <2>2, <2>4, <2>6 DEF ReadTaken
  <1>8. CASE Granted(l, t, lock) /\ lock # "LOCK_READ"
    <2>1. lock = "put"
      BY <1>4, <1>8
    <2>2. \/ ~line[r].share /\ line[r].id \in {0, t}
          \/ line[r].share /\ Readers(r) = {t}
      <3>1. CASE line[r].share
        <4>1. line[r].id \in Readers(r) /\ line[r].sequence = Cardinality(Readers(r))
          BY <1>2, <3>1 DEF LineAgrees
        <4>2. line[r].id \in Tx /\ alive[line[r].id] /\ line[r].id # 0
          <5>1. line[r].id \in Tx /\ r \in ReadBy(line[r].id)
            BY <4>1 DEF Readers, ReadBy
          <5>2. readSet[line[r].id] # {}
            BY <5>1, <1>1 DEF SharedInv, SetsAgree, SetAgrees
          <5>3. QED  BY <5>1, <5>2, ZeroNotTx DEF SharedInv, SetsAgree, SetAgrees
        <4>3. line[r].sequence # 0
          BY <4>1, ReadersFinite, FS_EmptySet
        <4>4. line[r].sequence = 1 /\ line[r].id = t
          BY <1>3, <1>8, <3>1, <4>2, <4>3 DEF Granted, WriteGranted, lockable
        <4>5. PICK x : Readers(r) = {x}
          BY <4>1, <4>4, ReadersFinite, FS_Singleton
        <4>6. QED  BY <3>1, <4>1, <4>4, <4>5
      <3>2. CASE ~line[r].share
        BY <1>3, <1>8, <3>2 DEF Granted, WriteGranted, lockable
      <3>3. QED  BY <3>1, <3>2
    <2>3. /\ line' = [line EXCEPT ![r] = Lock(t, sequence[t], FALSE)]
          /\ readSet' = [readSet EXCEPT ![t] = IF line[r].share THEN readSet[t] \ {r} ELSE readSet[t]]
          /\ written' = [written EXCEPT ![t] = written[t] \cup {r}]
          /\ holds' = [holds EXCEPT ![t][r] = "write"]
          /\ pc' = [pc EXCEPT ![t] = "idle"]
      BY <1>3, <1>8, <2>1 DEF checkAccessLock
    <2>4. QED  BY <1>1, <2>2, <2>3 DEF WriteTaken
  <1>9. QED  BY <1>6, <1>7, <1>8

\* checkAccessLock keeps the count of readers.
LEMMA SharedAccess ==
  ASSUME RowInv, PutOnly, SharedInv, NEW t \in Tx, NEW r \in Rows,
         NEW lock \in {"LOCK_READ", "LOCK_WRITE", "put"}, checkAccessLock(t, r, lock)
  PROVE  SharedInv'
  <1>1. /\ line \in [Rows -> Locks] /\ sequence \in [Tx -> Nat]
        /\ readSet \in [Tx -> SUBSET Rows] /\ written \in [Tx -> SUBSET Rows]
        /\ holds \in [Tx -> [Rows -> {"none", "read", "write"}]]
        /\ pc \in [Tx -> PCs] /\ alive \in [Tx -> BOOLEAN] /\ req \in [Tx -> Requests]
    BY DEF RowInv, RowType, WaitInv, WaitType
  <1>2. /\ UNCHANGED <<use, sequence, alive, waitFlag, otx, todo>>
        /\ pc[t] \in {"idle", "access"} /\ alive[t]
        /\ lock = "LOCK_READ" => holds[t][r] = "none"
        /\ \/ pc' = [pc EXCEPT ![t] = "idle"] /\ req' = [req EXCEPT ![t] = NoRequest]
           \/ pc' = [pc EXCEPT ![t] = "cycle"]
              /\ req' = [req EXCEPT ![t] = [row |-> r, lock |-> lock]]
    <2>1. pc[t] \in {"idle", "access"} /\ alive[t]
      BY DEF checkAccessLock, Accessing, RowInv, WaitInv, WaitPublished
    <2>2. lock = "LOCK_READ" => holds[t][r] = "none"
      BY DEF checkAccessLock, Accessing, SharedInv, SetsAgree, SetAgrees, Asks
    <2>3. QED  BY <2>1, <2>2 DEF checkAccessLock
  <1>3. /\ \E h \in {"read", "write", holds[t][r]} : holds' = [holds EXCEPT ![t][r] = h]
        /\ \A u \in Tx \ {t} : /\ readSet'[u] = readSet[u] /\ written'[u] = written[u]
                               /\ holds'[u] = holds[u] /\ pc'[u] = pc[u] /\ req'[u] = req[u]
        /\ \A q \in Rows \ {r} : line'[q] = line[q] /\ holds'[t][q] = holds[t][q]
    <2>1. CASE Refused(t)
      BY <1>1, <1>2, <2>1 DEF Refused
    <2>2. CASE ReadTaken(t, r)
      BY <1>1, <1>2, <2>2 DEF ReadTaken
    <2>3. CASE WriteTaken(t, r)
      BY <1>1, <1>2, <2>3 DEF WriteTaken
    <2>4. QED  BY AccessOutcome, <2>1, <2>2, <2>3
  <1>4. LinesAgree'
    <2>1. ASSUME NEW q \in Rows, q # r PROVE LineAgrees(q)'
      <3>1. \A u \in Tx : holds'[u][q] = holds[u][q]
        BY <1>3, <2>1
      <3>2. QED  BY <3>1, <1>2, <1>3, <2>1, LineFrame DEF SharedInv, LinesAgree
    <2>2. LineAgrees(r)'
      <3>0. LineAgrees(r) /\ line[r] \in Locks
        BY <1>1 DEF SharedInv, LinesAgree
      <3>1. CASE Refused(t)
        BY <1>2, <3>0, <3>1, LineFrame DEF Refused
      <3>2. CASE ReadTaken(t, r)
        <4>1. \A u \in Tx : holds'[u][r] = IF u = t THEN "read" ELSE holds[u][r]
          BY <1>1, <3>2 DEF ReadTaken
        <4>2. Readers(r)' = Readers(r) \cup {t} /\ t \notin Readers(r)
          BY <4>1, <3>2 DEF Readers, ReadTaken
        <4>3. Cardinality(Readers(r)') = Cardinality(Readers(r)) + 1
          BY <4>2, ReadersFinite, FS_AddElement
        <4>4. \A u \in Tx : holds'[u][r] # "write"
          <5>1. \A u \in Tx : holds[u][r] = "write" => line[r].id = u /\ ~line[r].share
            BY <3>0 DEF LineAgrees
          <5>2. line[r].share \/ line[r].id = 0
            BY <3>2 DEF ReadTaken
          <5>3. QED  BY <4>1, <5>1, <5>2, ZeroNotTx
        <4>5. line'[r].share /\ line'[r].id \in Readers(r)'
              /\ line'[r].sequence = Cardinality(Readers(r)')
          <5>1. CASE line[r].share
            <6>1. line'[r] = Lock(line[r].id, line[r].sequence + 1, TRUE)
              BY <1>1, <3>2, <5>1 DEF ReadTaken
            <6>2. QED  BY <3>0, <4>2, <4>3, <5>1, <6>1 DEF LineAgrees, Lock
          <5>2. CASE ~line[r].share
            <6>1. line'[r] = Lock(t, 1, TRUE)
              BY <1>1, <3>2, <5>2 DEF ReadTaken
            <6>2. Cardinality(Readers(r)) = 0
              BY <3>0, <5>2, FS_EmptySet DEF LineAgrees
            <6>3. QED  BY <4>2, <4>3, <6>1, <6>2 DEF Lock
          <5>3. QED  BY <5>1, <5>2
        <4>6. QED  BY <4>4, <4>5 DEF LineAgrees
      <3>3. CASE WriteTaken(t, r)
        <4>1. \A u \in Tx : holds'[u][r] = IF u = t THEN "write" ELSE holds[u][r]
          BY <1>1, <3>3 DEF WriteTaken
        <4>2. line'[r].id = t /\ line'[r].sequence = sequence[t] /\ line'[r].share = FALSE
          BY <1>1, <3>3 DEF WriteTaken, Lock
        <4>3. \A u \in Tx \ {t} : holds[u][r] = "none"
          <5> SUFFICES ASSUME NEW u \in Tx \ {t} PROVE holds[u][r] = "none"
            OBVIOUS
          <5>1. u \notin Readers(r)
            BY <3>0, <3>3 DEF WriteTaken, LineAgrees
          <5>2. holds[u][r] # "write"
            BY <3>0, <3>3, ZeroNotTx DEF WriteTaken, LineAgrees
          <5>3. QED  BY <1>1, <5>1, <5>2 DEF Readers
        <4>4. Readers(r)' = {}
          BY <4>1, <4>3 DEF Readers
        <4>5. QED  BY <1>2, <4>1, <4>2, <4>3, <4>4 DEF LineAgrees
      <3>4. QED  BY AccessOutcome, <3>1, <3>2, <3>3
    <2>3. QED  BY <2>1, <2>2 DEF LinesAgree
  <1>5. SetsAgree'
    <2> SUFFICES ASSUME NEW u \in Tx
                 PROVE  /\ pc'[u] \notin {"rollback", "signal"}
                        /\ pc'[u] = "commit" => todo'[u] = ReadBy(u)' /\ todo'[u] \subseteq readSet'[u]
                        /\ pc'[u] # "commit" => readSet'[u] = ReadBy(u)'
                        /\ pc'[u] \in {"entries", "notify"} => readSet'[u] = {}
                        /\ pc'[u] = "notify" => written'[u] = {}
                        /\ written'[u] = WrittenBy(u)'
                        /\ readSet'[u] # {} => alive'[u] /\ "LOCK_READ" \in use'[u].ops
                        /\ written'[u] # {} => alive'[u]
                        /\ pc'[u] \in Asks /\ req'[u].lock = "LOCK_READ" =>
                             holds'[u][req'[u].row] = "none"
      BY DEF SetsAgree, SetAgrees
    <2>0. SetsAgree
      BY DEF SharedInv
    <2>1. CASE u # t
      <3>1. ReadBy(u)' = ReadBy(u) /\ WrittenBy(u)' = WrittenBy(u)
        BY <1>3, <2>1 DEF ReadBy, WrittenBy
      <3>2. readSet'[u] = readSet[u] /\ written'[u] = written[u] /\ holds'[u] = holds[u]
            /\ pc'[u] = pc[u] /\ req'[u] = req[u]
        BY <1>3, <2>1
      <3>3. QED  BY <2>0, <1>2, <3>1, <3>2 DEF SetsAgree, SetAgrees
    <2>2. CASE u = t
      <3>1. pc'[t] \in {"idle", "cycle"} /\ readSet[t] = ReadBy(t) /\ written[t] = WrittenBy(t)
        BY <1>1, <1>2, <2>0 DEF SetsAgree, SetAgrees
      <3>2. CASE Refused(t)
        <4>1. pc'[t] = "cycle" /\ req'[t] = [row |-> r, lock |-> lock]
          BY <1>1, <1>2, <3>2 DEF Refused
        <4>2. ReadBy(t)' = ReadBy(t) /\ WrittenBy(t)' = WrittenBy(t)
          BY <3>2 DEF Refused, ReadBy, WrittenBy
        <4>3. QED  BY <2>0, <2>2, <1>2, <3>1, <3>2, <4>1, <4>2 DEF SetsAgree, SetAgrees, Refused
      <3>3. CASE ReadTaken(t, r)
        <4>1. \A q \in Rows : holds'[t][q] = IF q = r THEN "read" ELSE holds[t][q]
          BY <1>1, <3>3 DEF ReadTaken
        <4>2. pc'[t] = "idle" /\ readSet'[t] = readSet[t] \cup {r} /\ written'[t] = written[t]
              /\ holds[t][r] = "none" /\ "LOCK_READ" \in use[t].ops
          BY <1>1, <3>3 DEF ReadTaken
        <4>3. ReadBy(t)' = ReadBy(t) \cup {r} /\ WrittenBy(t)' = WrittenBy(t)
          BY <4>1, <4>2 DEF ReadBy, WrittenBy
        <4>4. QED  BY <2>2, <1>2, <3>1, <4>2, <4>3 DEF Asks
      <3>4. CASE WriteTaken(t, r)
        <4>0. LineAgrees(r)
          BY DEF SharedInv, LinesAgree
        <4>1. \A q \in Rows : holds'[t][q] = IF q = r THEN "write" ELSE holds[t][q]
          BY <1>1, <3>4 DEF WriteTaken
        <4>2. pc'[t] = "idle" /\ written'[t] = written[t] \cup {r}
          BY <1>1, <3>4 DEF WriteTaken
        <4>3. readSet'[t] = readSet[t] \ {r}
          <5>1. ~line[r].share => r \notin readSet[t]
            BY <4>0, <3>1 DEF LineAgrees, Readers, ReadBy
          <5>2. QED  BY <1>1, <3>4, <5>1 DEF WriteTaken
        <4>4. ReadBy(t)' = ReadBy(t) \ {r} /\ WrittenBy(t)' = WrittenBy(t) \cup {r}
          BY <4>1 DEF ReadBy, WrittenBy
        <4>5. readSet'[t] # {} => alive[t] /\ "LOCK_READ" \in use[t].ops
          BY <2>0, <4>3 DEF SetsAgree, SetAgrees
        <4>6. QED  BY <2>2, <1>2, <3>1, <4>2, <4>3, <4>4, <4>5 DEF Asks
      <3>5. QED  BY AccessOutcome, <3>2, <3>3, <3>4
    <2>3. QED  BY <2>1, <2>2
  <1>6. WakeAgree'
    <2>1. \A u \in Tx : pc'[u] = "asleep" =>
             pc[u] = "asleep" /\ otx'[u] = otx[u] /\ req'[u] = req[u]
      BY <1>1, <1>2, <1>3
    <2>2. \A o \in Tx, q \in Rows : holds[o][q] # "none" => holds'[o][q] # "none"
      BY <1>1, <1>3
    <2>3. \A o \in Tx : pc[o] \in Ending => pc'[o] \in Ending
      BY <1>2, <1>3 DEF Ending
    <2>4. QED  BY <1>2, <2>1, <2>2, <2>3, WakeFrame DEF SharedInv
  <1>7. QED  BY <1>4, <1>5, <1>6 DEF SharedInv

\* A transaction that a step does not touch keeps its sets.
LEMMA SetFrame ==
  ASSUME NEW u \in Tx, SetAgrees(u), use' = use,
         todo'[u] = todo[u], readSet'[u] = readSet[u], written'[u] = written[u],
         alive'[u] = alive[u], \A q \in Rows : holds'[u][q] = holds[u][q],
         req[u].row \in Rows \/ pc[u] \notin Asks,
         \/ pc'[u] = pc[u] /\ req'[u] = req[u]
         \/ pc[u] \in Asks /\ pc'[u] \in Asks /\ req'[u] = req[u]
         \/ pc[u] \in Asks \cup {"notify"} /\ pc'[u] = "idle"
  PROVE  SetAgrees(u)'
  <1>1. ReadBy(u)' = ReadBy(u) /\ WrittenBy(u)' = WrittenBy(u)
    BY DEF ReadBy, WrittenBy
  <1>2. pc'[u] \in Asks => pc[u] \in Asks /\ req'[u] = req[u]
    BY DEF Asks
  <1>3. pc'[u] \in {"commit", "entries", "notify", "rollback", "signal"} => pc'[u] = pc[u]
    BY DEF Asks
  <1>4. pc'[u] # "commit" => pc[u] # "commit"
    BY DEF Asks
  <1>5. QED  BY <1>1, <1>2, <1>3, <1>4 DEF SetAgrees

\* A step that neither takes nor gives up a row keeps the count of readers.
LEMMA SharedQuiet ==
  ASSUME RowInv, PutOnly, SharedInv, NEW t \in Tx, Quiet(t)
  PROVE  SharedInv'
  <1>0. /\ UNCHANGED <<use, line, sequence, alive, readSet, written, todo, holds>>
        /\ \A u \in Tx :
              \/ pc'[u] = pc[u] /\ req'[u] = req[u]
              \/ pc[u] \in Asks /\ pc'[u] \in Asks /\ req'[u] = req[u]
              \/ pc[u] \in Asks \cup {"notify"} /\ pc'[u] = "idle"
    BY QuietStep
  <1>1. LinesAgree'
    BY <1>0, LineFrame DEF SharedInv, LinesAgree
  <1>2. SetsAgree'
    <2> SUFFICES ASSUME NEW u \in Tx PROVE SetAgrees(u)'
      BY DEF SetsAgree
    <2>1. SetAgrees(u) /\ (req[u].row \in Rows \/ pc[u] \notin Asks)
      BY DEF SharedInv, SetsAgree, RowInv, Asked
    <2>2. QED  BY <1>0, <2>1, SetFrame
  <1>3. /\ pc \in [Tx -> PCs] /\ otx \in [Tx -> Tx \cup {0}] /\ alive \in [Tx -> BOOLEAN]
        /\ waitFlag \in [Tx -> BOOLEAN] /\ WakeAgree
    BY DEF RowInv, RowType, WaitInv, WaitType, SharedInv
  <1>4. WakeAgree'
    <2>1. CASE \/ CycleStart(t) \/ CycleWalk(t) \/ Timeout(t) \/ Woken(t) \/ ensureSafeToDestroy(t)
               \/ Sleep(t) /\ line[req[t].row].id # otx[t]
      <3>1. /\ \A u \in Tx : pc'[u] = "asleep" => pc[u] = "asleep" /\ otx'[u] = otx[u]
            /\ waitFlag' = waitFlag
            /\ \A u \in Tx : pc[u] \in Ending => pc'[u] = pc[u]
        <4>1. CASE CycleStart(t)
          BY <1>3, <4>1 DEF CycleStart, Release, Ending
        <4>2. CASE CycleWalk(t)
          <5>1. /\ waitFlag' = waitFlag /\ pc[t] = "walk"
                /\ otx' = otx \/ otx' = [otx EXCEPT ![t] = 0]
                /\ \E p \in {"idle", "access", "sleep", "walk"} : pc' = [pc EXCEPT ![t] = p]
            BY <1>3, <4>2 DEF CycleWalk, Deadlocked
          <5>2. QED  BY <1>3, <5>1 DEF Ending
        <4>3. CASE Timeout(t) \/ Woken(t)
          BY <1>3, <4>3 DEF Timeout, Woken, Release, Ending
        <4>4. CASE ensureSafeToDestroy(t)
          BY <1>3, <4>4 DEF ensureSafeToDestroy, WakeAll, Sleepers, Ending
        <4>5. CASE Sleep(t) /\ line[req[t].row].id # otx[t]
          BY <1>3, <4>5 DEF Sleep, Release, Ending
        <4>6. QED  BY <2>1, <4>1, <4>2, <4>3, <4>4, <4>5
      <3>2. \A u \in Tx : pc'[u] = "asleep" => req'[u] = req[u]
        BY <1>0
      <3>3. QED  BY <1>0, <1>3, <3>1, <3>2, WakeFrame
    <2>2. CASE Sleep(t) /\ line[req[t].row].id = otx[t]
      <3>1. /\ pc[t] = "sleep" /\ UNCHANGED <<otx, req>>
            /\ pc' = [pc EXCEPT ![t] = "asleep"]
            /\ waitFlag' = [waitFlag EXCEPT ![otx[t]] = TRUE]
        BY <2>2 DEF Sleep
      <3>2. otx[t] \in Tx /\ req[t].row \in Rows /\ LineAgrees(req[t].row)
        BY <3>1 DEF RowInv, WaitInv, WaitPublished, Waiting, Asked, Asks, SharedInv, LinesAgree
      <3>3. holds[otx[t]][req[t].row] # "none"
        BY <2>2, <3>2, ZeroNotTx DEF LineAgrees, Readers
      <3> SUFFICES ASSUME NEW u \in Tx, pc'[u] = "asleep"
                   PROVE  \/ ~alive'[otx'[u]]
                          \/ /\ waitFlag'[otx'[u]]
                             /\ \/ holds'[otx'[u]][req'[u].row] # "none"
                                \/ pc'[otx'[u]] \in {"commit", "entries", "notify"}
        BY DEF WakeAgree
      <3>4. CASE u = t
        BY <1>0, <1>3, <3>1, <3>2, <3>3, <3>4
      <3>5. CASE u # t
        <4>1. pc[u] = "asleep" /\ otx[u] \in Tx
          BY <1>3, <3>1, <3>5 DEF RowInv, WaitInv, WaitPublished, Waiting
        <4>2. \/ ~alive[otx[u]]
              \/ /\ waitFlag[otx[u]]
                 /\ \/ holds[otx[u]][req[u].row] # "none"
                    \/ pc[otx[u]] \in {"commit", "entries", "notify"}
          BY <1>3, <4>1 DEF WakeAgree
        <4>3. waitFlag[otx[u]] => waitFlag'[otx[u]]
          BY <1>3, <3>1, <4>1
        <4>4. pc[otx[u]] \in {"commit", "entries", "notify"} => pc'[otx[u]] = pc[otx[u]]
          BY <1>3, <3>1, <4>1
        <4>5. QED  BY <1>0, <3>1, <4>2, <4>3, <4>4
      <3>6. QED  BY <3>4, <3>5
    <2>3. CASE Notify(t)
      <3>1. alive[t] /\ pc[t] = "notify" /\ UNCHANGED <<otx, req>>
        BY <2>3 DEF Notify, RowInv, WaitInv, WaitPublished
      <3>2. /\ \A u \in Tx : pc'[u] = "asleep" => pc[u] = "asleep"
            /\ \A u \in Tx \ {t} : waitFlag'[u] = waitFlag[u] /\ (pc[u] \in Ending => pc'[u] = pc[u])
        BY <1>3, <2>3 DEF Notify, WakeAll, Sleepers, Ending
      <3>3. waitFlag[t] => \A u \in Tx : pc'[u] = "asleep" => otx[u] # t
        BY <1>3, <2>3, <3>1 DEF Notify, WakeAll, Sleepers
      <3>4. ~waitFlag[t] => \A u \in Tx : pc'[u] = "asleep" => otx[u] # t
        BY <1>3, <3>1, <3>2 DEF WakeAgree
      <3>5. QED  BY <1>0, <1>3, <3>1, <3>2, <3>3, <3>4, WakeFrame
    <2>4. QED  BY <2>1, <2>2, <2>3 DEF Quiet
  <1>5. QED  BY <1>1, <1>2, <1>4 DEF SharedInv

\* The start of a commit or a rollback keeps the count of readers.
LEMMA SharedCommit ==
  ASSUME RowInv, PutOnly, SharedInv, NEW t \in Tx, commit(t) \/ rollback(t)
  PROVE  SharedInv'
  <1>1. commit(t)
    BY DEF rollback, PutOnly
  <1>2. /\ pc[t] = "idle" /\ pc' = [pc EXCEPT ![t] = "commit"]
        /\ todo' = [todo EXCEPT ![t] = readSet[t]]
        /\ UNCHANGED <<use, line, sequence, alive, readSet, written, waitFlag, req, otx, holds>>
    BY <1>1 DEF commit, End
  <1>3. pc \in [Tx -> PCs] /\ todo \in [Tx -> SUBSET Rows]
    BY DEF RowInv, RowType, WaitInv, WaitType
  <1>4. LinesAgree'
    BY <1>2, LineFrame DEF SharedInv, LinesAgree
  <1>5. SetsAgree'
    <2> SUFFICES ASSUME NEW u \in Tx PROVE SetAgrees(u)'
      BY DEF SetsAgree
    <2>1. SetAgrees(u) /\ (req[u].row \in Rows \/ pc[u] \notin Asks)
      BY DEF SharedInv, SetsAgree, RowInv, Asked
    <2>2. CASE u = t
      <3>1. ReadBy(t)' = ReadBy(t) /\ WrittenBy(t)' = WrittenBy(t)
        BY <1>2 DEF ReadBy, WrittenBy
      <3>2. pc'[t] = "commit" /\ todo'[t] = readSet[t]
        BY <1>2, <1>3
      <3>3. QED  BY <1>2, <2>1, <2>2, <3>1, <3>2 DEF SetAgrees, Asks
    <2>3. CASE u # t
      BY <1>2, <1>3, <2>1, <2>3, SetFrame
    <2>4. QED  BY <2>2, <2>3
  <1>6. WakeAgree'
    <2>1. /\ \A u \in Tx : pc'[u] = "asleep" => pc[u] = "asleep"
          /\ \A o \in Tx : pc[o] \in Ending => pc'[o] \in Ending
      BY <1>2, <1>3 DEF Ending
    <2>2. QED  BY <1>2, <2>1, WakeFrame DEF SharedInv
  <1>7. QED  BY <1>4, <1>5, <1>6 DEF SharedInv

\* A cleared read set keeps the count of readers.
LEMMA SharedCleared ==
  ASSUME RowInv, PutOnly, SharedInv, NEW t \in Tx, ReadSetCleared(t)
  PROVE  SharedInv'
  <1>1. SetAgrees(t)
    BY DEF SharedInv, SetsAgree
  <1>2. /\ pc[t] = "commit" /\ todo[t] = {} /\ ReadBy(t) = {}
        /\ pc' = [pc EXCEPT ![t] = "entries"]
        /\ readSet' = [readSet EXCEPT ![t] = {}]
        /\ written' = [written EXCEPT ![t] = written[t]]
        /\ UNCHANGED <<use, line, sequence, alive, waitFlag, req, otx, holds, todo>>
    BY <1>1 DEF ReadSetCleared, SetAgrees
  <1>3. /\ pc \in [Tx -> PCs] /\ readSet \in [Tx -> SUBSET Rows]
        /\ written \in [Tx -> SUBSET Rows]
    BY DEF RowInv, RowType, WaitInv, WaitType
  <1>4. LinesAgree'
    BY <1>2, LineFrame DEF SharedInv, LinesAgree
  <1>5. SetsAgree'
    <2> SUFFICES ASSUME NEW u \in Tx PROVE SetAgrees(u)'
      BY DEF SetsAgree
    <2>1. SetAgrees(u) /\ (req[u].row \in Rows \/ pc[u] \notin Asks)
      BY DEF SharedInv, SetsAgree, RowInv, Asked
    <2>2. CASE u = t
      <3>1. ReadBy(t)' = ReadBy(t) /\ WrittenBy(t)' = WrittenBy(t)
        BY <1>2 DEF ReadBy, WrittenBy
      <3>2. pc'[t] = "entries" /\ readSet'[t] = {} /\ written'[t] = written[t]
        BY <1>2, <1>3
      <3>3. QED  BY <1>2, <2>1, <2>2, <3>1, <3>2 DEF SetAgrees, Asks
    <2>3. CASE u # t
      BY <1>2, <1>3, <2>1, <2>3, SetFrame
    <2>4. QED  BY <2>2, <2>3
  <1>6. WakeAgree'
    <2>1. /\ \A u \in Tx : pc'[u] = "asleep" => pc[u] = "asleep"
          /\ \A o \in Tx : pc[o] \in Ending => pc'[o] \in Ending
      BY <1>2, <1>3 DEF Ending
    <2>2. QED  BY <1>2, <2>1, WakeFrame DEF SharedInv
  <1>7. QED  BY <1>4, <1>5, <1>6 DEF SharedInv

\* The end of a transaction gives up its rows one by one and keeps the count
\* of readers.
LEMMA SharedCommitEntry ==
  ASSUME RowInv, PutOnly, SharedInv, NEW t \in Tx, NEW r \in Rows, CommitEntry(t, r)
  PROVE  SharedInv'
  <1>1. /\ line \in [Rows -> Locks] /\ written \in [Tx -> SUBSET Rows]
        /\ holds \in [Tx -> [Rows -> {"none", "read", "write"}]]
        /\ SetAgrees(t) /\ LineAgrees(r)
    BY DEF RowInv, RowType, SharedInv, SetsAgree, LinesAgree
  <1>2. pc[t] = "entries" /\ r \in written[t] /\ holds[t][r] = "write"
    BY <1>1 DEF CommitEntry, SetAgrees, WrittenBy
  <1>3. line[r].id = t /\ ~line[r].share
    BY <1>1, <1>2 DEF LineAgrees
  <1>4. /\ line' = [line EXCEPT ![r] = Lock(0, 0, line[r].share)]
        /\ written' = [written EXCEPT ![t] = written[t] \ {r}]
        /\ holds' = [holds EXCEPT ![t][r] = "none"]
        /\ UNCHANGED <<use, sequence, alive, readSet, waitFlag, pc, req, otx, todo>>
    BY <1>3 DEF CommitEntry
  <1>5. \A u \in Tx, q \in Rows : holds'[u][q] = IF u = t /\ q = r THEN "none" ELSE holds[u][q]
    BY <1>1, <1>4, HoldsType
  <1>6. LinesAgree'
    <2>1. ASSUME NEW q \in Rows, q # r PROVE LineAgrees(q)'
      <3>1. line'[q] = line[q]
        BY <1>1, <1>4, <2>1
      <3>2. QED  BY <1>4, <1>5, <2>1, <3>1, LineFrame DEF SharedInv, LinesAgree
    <2>2. LineAgrees(r)'
      <3>1. line'[r].id = 0 /\ ~line'[r].share
        BY <1>1, <1>3, <1>4 DEF Lock
      <3>2. \A u \in Tx : holds'[u][r] = "none"
        BY <1>1, <1>3, <1>5 DEF LineAgrees, Readers
      <3>3. QED  BY <3>1, <3>2 DEF LineAgrees, Readers
    <2>3. QED  BY <2>1, <2>2 DEF LinesAgree
  <1>7. SetsAgree'
    <2> SUFFICES ASSUME NEW u \in Tx PROVE SetAgrees(u)'
      BY DEF SetsAgree
    <2>1. SetAgrees(u) /\ (req[u].row \in Rows \/ pc[u] \notin Asks)
      BY DEF SharedInv, SetsAgree, RowInv, Asked
    <2>2. CASE u = t
      <3>1. ReadBy(t)' = ReadBy(t) /\ WrittenBy(t)' = WrittenBy(t) \ {r}
        BY <1>2, <1>5 DEF ReadBy, WrittenBy
      <3>2. written'[t] = written[t] \ {r}
        BY <1>1, <1>4
      <3>3. QED  BY <1>1, <1>2, <1>4, <2>2, <3>1, <3>2 DEF SetAgrees, Asks
    <2>3. CASE u # t
      <3>1. written'[u] = written[u]
        BY <1>1, <1>4, <2>3
      <3>2. QED  BY <1>4, <1>5, <2>1, <2>3, <3>1, SetFrame
    <2>4. QED  BY <2>2, <2>3
  <1>8. WakeAgree'
    BY <1>2, <1>4, <1>5, WakeFrame DEF SharedInv, Ending
  <1>9. QED  BY <1>6, <1>7, <1>8 DEF SharedInv

\* A transaction that counts its sequence number on has no rows left.
LEMMA SharedSignal ==
  ASSUME RowInv, PutOnly, SharedInv, NEW t \in Tx, signal(t) \/ destroy(t)
  PROVE  SharedInv'
  <1>1. /\ sequence \in [Tx -> Nat] /\ pc \in [Tx -> PCs] /\ alive \in [Tx -> BOOLEAN]
        /\ holds \in [Tx -> [Rows -> {"none", "read", "write"}]]
        /\ SetAgrees(t)
    BY DEF RowInv, RowType, WaitInv, WaitType, SharedInv, SetsAgree
  <1>2. /\ pc[t] \in {"entries", "idle"} /\ readSet[t] = {} /\ written[t] = {}
        /\ sequence' = [sequence EXCEPT ![t] = @ + 1]
        /\ holds' = [holds EXCEPT ![t] = [q \in Rows |-> "none"]]
        /\ UNCHANGED <<use, line, readSet, written, waitFlag, req, otx, todo>>
        /\ \/ pc[t] = "entries" /\ pc' = [pc EXCEPT ![t] = "notify"] /\ alive' = alive
           \/ pc[t] = "idle" /\ pc' = pc /\ alive' = [alive EXCEPT ![t] = FALSE]
    <2>1. CASE signal(t)
      <3>1. pc[t] = "entries" /\ readSet[t] = {} /\ written[t] = {}
        BY <1>1, <2>1 DEF signal, SetAgrees
      <3>2. QED  BY <2>1, <3>1 DEF signal
    <2>2. CASE destroy(t)
      BY <2>2 DEF destroy
    <2>3. QED  BY <2>1, <2>2
  <1>3. \A q \in Rows : holds[t][q] = "none"
    BY <1>1, <1>2 DEF SetAgrees, ReadBy, WrittenBy
  <1>4. \A u \in Tx, q \in Rows : holds'[u][q] = holds[u][q]
    BY <1>1, <1>2, <1>3
  <1>5. LinesAgree'
    <2> SUFFICES ASSUME NEW q \in Rows PROVE LineAgrees(q)'
      BY DEF LinesAgree
    <2>1. \A u \in Tx : holds[u][q] = "write" => sequence'[u] = sequence[u]
      BY <1>1, <1>2, <1>3
    <2>2. QED  BY <1>2, <1>4, <2>1, LineFrame DEF SharedInv, LinesAgree
  <1>6. SetsAgree'
    <2> SUFFICES ASSUME NEW u \in Tx PROVE SetAgrees(u)'
      BY DEF SetsAgree
    <2>1. SetAgrees(u) /\ (req[u].row \in Rows \/ pc[u] \notin Asks)
      BY DEF SharedInv, SetsAgree, RowInv, Asked
    <2>2. CASE u = t
      <3>1. ReadBy(t)' = {} /\ WrittenBy(t)' = {}
        BY <1>3, <1>4 DEF ReadBy, WrittenBy
      <3>2. pc'[t] \in {"notify", "idle"}
        BY <1>1, <1>2
      <3>3. QED  BY <1>2, <2>2, <3>1, <3>2 DEF SetAgrees, Asks
    <2>3. CASE u # t
      <3>1. pc'[u] = pc[u] /\ alive'[u] = alive[u]
        BY <1>1, <1>2, <2>3
      <3>2. QED  BY <1>2, <1>4, <2>1, <3>1, SetFrame
    <2>4. QED  BY <2>2, <2>3
  <1>7. WakeAgree'
    <2>1. \A u \in Tx : pc'[u] = "asleep" => pc[u] = "asleep"
      BY <1>1, <1>2
    <2>2. \A o \in Tx : \/ ~alive'[o]
                        \/ alive[o] /\ (pc[o] \in Ending => pc'[o] \in Ending)
      BY <1>1, <1>2 DEF Ending
    <2>3. QED  BY <1>2, <1>4, <2>1, <2>2, WakeFrame DEF SharedInv
  <1>8. QED  BY <1>5, <1>6, <1>7 DEF SharedInv

\* A reader that leaves: with two readers at most, the new owner that reassign
\* finds in the read lock sets is the one that still reads the row.
LEMMA SharedReassign ==
  ASSUME RowInv, PutOnly, AtMostTwoRead, SharedInv, NEW t \in Tx, NEW r \in Rows, reassign(t, r)
  PROVE  SharedInv'
  <1>1. /\ line \in [Rows -> Locks] /\ todo \in [Tx -> SUBSET Rows]
        /\ readSet \in [Tx -> SUBSET Rows] /\ waitFlag \in [Tx -> BOOLEAN]
        /\ holds \in [Tx -> [Rows -> {"none", "read", "write"}]]
        /\ SetsAgree /\ SetAgrees(t) /\ LineAgrees(r)
    BY DEF RowInv, RowType, SharedInv, SetsAgree, LinesAgree
  <1>2. pc[t] = "commit" /\ r \in todo[t] /\ holds[t][r] = "read"
    BY <1>1 DEF reassign, SetAgrees, ReadBy
  <1>3. /\ line' = [line EXCEPT ![r] = LeaveRow(line[r], t, r)]
        /\ todo' = [todo EXCEPT ![t] = todo[t] \ {r}]
        /\ holds' = [holds EXCEPT ![t][r] = "none"]
        /\ waitFlag' = [waitFlag EXCEPT ![t] = @ \/ line[r].id = t]
        /\ UNCHANGED <<use, sequence, alive, readSet, written, pc, req, otx>>
    BY <1>2 DEF reassign
  <1>4. \A u \in Tx, q \in Rows : holds'[u][q] = IF u = t /\ q = r THEN "none" ELSE holds[u][q]
    BY <1>1, <1>3, HoldsType
  <1>5. t \in Readers(r) /\ Readers(r)' = Readers(r) \ {t}
    BY <1>2, <1>4 DEF Readers
  <1>6. Cardinality(Readers(r)') = Cardinality(Readers(r)) - 1
    BY <1>5, ReadersFinite, FS_RemoveElement
  <1>7. /\ line[r].share /\ line[r].id \in Readers(r)
        /\ line[r].sequence = Cardinality(Readers(r)) /\ line[r].sequence \in Nat
    BY <1>1, <1>5, ReadersFinite DEF LineAgrees
  \* The one that still reads the row.
  <1>8. ASSUME NEW u \in Readers(r), u # t
        PROVE  NewOwner(t, r) = u
    <2> DEFINE other == {v \in Tx \ {t} : alive[v] /\ r \in readSet[v]}
    <2>1. PICK a \in Tx, b \in Tx : TwoRead(a, b)
      BY DEF AtMostTwoRead
    <2>2. \A v \in Tx : readSet[v] # {} => v \in {a, b} /\ alive[v]
      BY <1>1, <2>1 DEF SetsAgree, SetAgrees, TwoRead
    <2>3. \A v \in Readers(r) : v \in Tx /\ r \in readSet[v]
      BY <1>1 DEF SetsAgree, SetAgrees, Readers, ReadBy
    <2>4. t \in {a, b} /\ u \in {a, b} /\ u \in Tx /\ alive[u] /\ r \in readSet[u]
      BY <1>5, <2>2, <2>3
    <2>5. \A v \in other : v = u
      BY <1>8, <2>2, <2>4
    <2>6. u \in other
      BY <1>8, <2>4
    <2>7. \E x \in other : \A v \in other : x <= v
      BY <2>4, <2>5, <2>6, NAssumption DEF Tx
    <2>8. (CHOOSE x \in other : \A v \in other : x <= v) \in other
      BY <2>7, Zenon
    <2>9. QED  BY <2>5, <2>6, <2>8 DEF NewOwner
  <1>9. LinesAgree'
    <2>1. ASSUME NEW q \in Rows, q # r PROVE LineAgrees(q)'
      <3>1. line'[q] = line[q]
        BY <1>1, <1>3, <2>1
      <3>2. QED  BY <1>3, <1>4, <2>1, <3>1, LineFrame DEF SharedInv, LinesAgree
    <2>2. LineAgrees(r)'
      <3>1. line'[r] = LeaveRow(line[r], t, r)
        BY <1>1, <1>3
      <3>2. \A u \in Tx : holds'[u][r] # "write"
        BY <1>1, <1>4, <1>7 DEF LineAgrees
      <3>3. CASE line[r].id = t /\ line[r].sequence > 1
        <4>1. PICK u \in Readers(r) : u # t
          <5>1. Cardinality(Readers(r)) # 1
            BY <1>7, <3>3
          <5>2. QED  BY <1>5, <5>1, OneElement
        <4>2. line'[r] = Lock(u, line[r].sequence - 1, line[r].share)
          <5>1. NewOwner(t, r) = u
            BY <1>8, <4>1
          <5>2. line[r].sequence \in Nat /\ line[r].sequence > 1 /\ line[r].id = t
            BY <1>7, <3>3
          <5>3. LeaveRow(line[r], t, r) = Lock(NewOwner(t, r), line[r].sequence - 1, line[r].share)
            BY <5>2 DEF LeaveRow, Lock
          <5>4. QED  BY <3>1, <5>1, <5>3
        <4>3. QED  BY <1>5, <1>6, <1>7, <3>2, <4>1, <4>2 DEF LineAgrees, Lock
      <3>4. CASE line[r].id = t /\ line[r].sequence <= 1
        <4>1. line'[r].share = FALSE /\ line'[r].id = 0
          BY <1>7, <3>1, <3>4 DEF LeaveRow, Lock
        <4>2. Cardinality(Readers(r)) # 0
          BY <1>5, ReadersFinite, FS_EmptySet
        <4>3. Cardinality(Readers(r)) = 1
          BY <1>7, <3>4, <4>2
        <4>4. Readers(r)' = {}
          <5>1. PICK x : Readers(r) = {x}
            BY <4>3, ReadersFinite, FS_Singleton
          <5>2. QED  BY <1>5, <5>1
        <4>5. QED  BY <3>2, <4>1, <4>4 DEF LineAgrees
      <3>5. CASE line[r].id # t
        <4>1. line'[r] = [line[r] EXCEPT !.sequence = @ - 1] /\ line[r] \in Locks
          BY <1>1, <3>1, <3>5 DEF LeaveRow
        <4>2. line'[r].share = TRUE /\ line'[r].id = line[r].id
              /\ line'[r].sequence = line[r].sequence - 1
          BY <1>7, <4>1 DEF Locks
        <4>3. line'[r].id \in Readers(r)'
          BY <1>5, <1>7, <3>5, <4>2
        <4>4. line'[r].sequence = Cardinality(Readers(r)')
          BY <1>6, <1>7, <4>2
        <4>5. QED  BY <3>2, <4>2, <4>3, <4>4 DEF LineAgrees
      <3>6. QED  BY <1>7, <3>3, <3>4, <3>5
    <2>3. QED  BY <2>1, <2>2 DEF LinesAgree
  <1>10. SetsAgree'
    <2> SUFFICES ASSUME NEW u \in Tx PROVE SetAgrees(u)'
      BY DEF SetsAgree
    <2>1. SetAgrees(u) /\ (req[u].row \in Rows \/ pc[u] \notin Asks)
      BY DEF SharedInv, SetsAgree, RowInv, Asked
    <2>2. CASE u = t
      <3>1. ReadBy(t)' = ReadBy(t) \ {r} /\ WrittenBy(t)' = WrittenBy(t)
        BY <1>2, <1>4 DEF ReadBy, WrittenBy
      <3>2. todo'[t] = todo[t] \ {r}
        BY <1>1, <1>3
      <3>3. QED  BY <1>1, <1>2, <1>3, <2>2, <3>1, <3>2 DEF SetAgrees, Asks
    <2>3. CASE u # t
      <3>1. todo'[u] = todo[u]
        BY <1>1, <1>3, <2>3
      <3>2. QED  BY <1>3, <1>4, <2>1, <2>3, <3>1, SetFrame
    <2>4. QED  BY <2>2, <2>3
  <1>11. WakeAgree'
    <2>1. \A o \in Tx : waitFlag[o] => waitFlag'[o]
      BY <1>1, <1>3
    <2>2. QED  BY <1>2, <1>3, <1>4, <2>1, WakeFrame DEF SharedInv, Ending
  <1>12. QED  BY <1>9, <1>10, <1>11 DEF SharedInv

\* Nobody reads at first.
LEMMA SharedInit == Init => SharedInv
  <1> SUFFICES ASSUME Init PROVE SharedInv
    OBVIOUS
  <1>1. LinesAgree
    BY DEF Init, LinesAgree, LineAgrees, Readers, Lock
  <1>2. SetsAgree
    BY DEF Init, SetsAgree, SetAgrees, ReadBy, WrittenBy, Asks
  <1>3. WakeAgree
    BY DEF Init, WakeAgree
  <1>4. QED  BY <1>1, <1>2, <1>3 DEF SharedInv

\* Every step keeps the count of readers while at most two read a row.
LEMMA SharedStep ==
  RowInv /\ (PutOnly /\ AtMostTwoRead => SharedInv) /\ [Next]_vars =>
      (PutOnly' /\ AtMostTwoRead' => SharedInv')
  <1> SUFFICES ASSUME RowInv, PutOnly /\ AtMostTwoRead => SharedInv, [Next]_vars,
                      PutOnly', AtMostTwoRead'
               PROVE  SharedInv'
    OBVIOUS
  <1>1. use' = use
    BY UseFixed
  <1>2. PutOnly /\ AtMostTwoRead /\ SharedInv
    BY <1>1 DEF PutOnly, AtMostTwoRead, TwoRead
  <1>3. CASE UNCHANGED vars
    <2>1. LinesAgree'
      BY <1>2, <1>3 DEF vars, SharedInv, LinesAgree, LineAgrees, Readers
    <2>2. SetsAgree'
      BY <1>2, <1>3 DEF vars, SharedInv, SetsAgree, SetAgrees, ReadBy, WrittenBy
    <2>3. WakeAgree'
      BY <1>2, <1>3 DEF vars, SharedInv, WakeAgree
    <2>4. QED  BY <2>1, <2>2, <2>3 DEF SharedInv
  <1>4. CASE Next
    BY <1>2, <1>4, SharedAccess, SharedQuiet, SharedCommit, SharedCleared, SharedCommitEntry,
       SharedSignal, SharedReassign DEF Next, Quiet
  <1>5. QED  BY <1>3, <1>4

\* Where transactions commit everything they lock and at most two of them read,
\* a written row has one user, and a shared row counts its readers and is owned
\* by one of them, for any number of writers and rows.
THEOREM SharedRowsSound ==
  Spec => [](PutOnly /\ AtMostTwoRead => RowExclusion /\ SharedAccounted)
  <1>1. SharedInv => RowExclusion
    <2> SUFFICES ASSUME SharedInv, NEW r \in Rows, Writers(r) # {}
                 PROVE  Cardinality(Writers(r) \cup Readers(r)) = 1
      BY DEF RowExclusion
    <2>0. LineAgrees(r)
      BY DEF SharedInv, LinesAgree
    <2>1. PICK t \in Tx : holds[t][r] = "write"
      BY DEF Writers
    <2>2. t \in Writers(r) \cup Readers(r)
      BY <2>1 DEF Writers
    <2>3. \A u \in Writers(r) \cup Readers(r) : u = t
      BY <2>0, <2>1 DEF Writers, LineAgrees
    <2>4. QED  BY <2>2, <2>3, OneElement
  <1>2. SharedInv => SharedAccounted
    BY DEF SharedInv, LinesAgree, LineAgrees, SharedAccounted
  <1>3. QED
    BY RowInit, RowStep, SharedInit, SharedStep, <1>1, <1>2, PTL DEF Spec

\* In the same use whoever sleeps in checkAccessLock waits for a transaction
\* that holds the row or is about to signal: the row may change hands between
\* the search for cycles and the sleep, and no signal is lost by it.
THEOREM SharedRowsWake ==
  Spec => [](AtMostTwoRead => NoLostWakeup)
  <1>1. SharedInv => NoLostWakeup
    BY DEF SharedInv, WakeAgree, NoLostWakeup
  <1>2. ~PutOnly => NoLostWakeup
    BY DEF NoLostWakeup
  <1>3. QED
    BY RowInit, RowStep, SharedInit, SharedStep, <1>1, <1>2, PTL DEF Spec
=============================================================================
