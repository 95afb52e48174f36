------------------------------- MODULE RowLock -------------------------------
(***************************************************************************)
(* Row locks of the engine: the StoryLock of a row (Information.h), how a   *)
(* transaction takes one and waits for it (checkAccessLock and              *)
(* checkCycleLock in RealTimeMap.cxx), and how a transaction lets go of its *)
(* locks when it ends (commit, rollback, reassign and signal in             *)
(* Transaction.h).                                                          *)
(*                                                                          *)
(* A row that is not shared is locked by the pair (transaction identifier,  *)
(* that transaction's sequence number); a transaction that ends increments  *)
(* its sequence number and so lets go of every such row at once, without    *)
(* touching it.  A shared row counts its readers in the place of the        *)
(* sequence number and names one of them as owner; who waits for the row    *)
(* sleeps on that owner.                                                    *)
(*                                                                          *)
(* One transaction object serves a connection, one transaction after the    *)
(* other, until it is destroyed.  The sections under the StoryLock's own    *)
(* spin lock, and single reads and writes outside it, are the steps.        *)
(***************************************************************************)
EXTENDS Naturals, FiniteSets

CONSTANTS N,          \* transaction objects, identified by 1..N
          Rows,
          Uses,       \* the operations each may be used for, and, as a bound,
                      \* how many transactions it runs
          DEFAULT_TRANSACTION_RETRY,
          DEFAULT_TRANSACTION_INFINITE

Tx == 1..N
Kinds == {"LOCK_READ", "LOCK_WRITE", "put", "rollback", "destroy"}

ASSUME NAssumption == N \in Nat \ {0}
ASSUME RowsAssumption == IsFiniteSet(Rows)
ASSUME UsesAssumption == Uses \subseteq [Tx -> [ops : SUBSET Kinds, runs : Nat]]
ASSUME LimitsAssumption ==
    {DEFAULT_TRANSACTION_RETRY, DEFAULT_TRANSACTION_INFINITE} \subseteq Nat

VARIABLES use,      \* how the objects are used, fixed
          line,     \* the StoryLock of each row
          sequence, \* m_sequence, which s_sequences repeats
          alive,    \* the object is in s_transactions
          readSet,  \* m_readLockSet
          written,  \* rows with an entry in the conductor
          waitId,   \* m_waitIdentifier
          waitFlag, \* m_wait
          retry,    \* m_retry
          pc,       \* where the thread of each transaction is
          req,      \* the access it is making: the row and the lock option
          otx,      \* the transaction it is about to sleep on, or sleeps on
          walk,     \* checkCycleLock: ntx and iter
          todo,     \* reassign: the read locks it has not yet visited
          ends,     \* transactions ended so far
          holds     \* what each transaction was granted and has not given up
vars == <<use, line, sequence, alive, readSet, written, waitId, waitFlag, retry,
          pc, req, otx, walk, todo, ends, holds>>

NoRequest == [row |-> 0, lock |-> "none"]

Lock(i, s, sh) == [id |-> i, sequence |-> s, share |-> sh]

Init ==
    /\ use \in Uses
    /\ line = [r \in Rows |-> Lock(0, 0, FALSE)]
    /\ sequence = [t \in Tx |-> 1]
    /\ alive = [t \in Tx |-> TRUE]
    /\ readSet = [t \in Tx |-> {}]
    /\ written = [t \in Tx |-> {}]
    /\ waitId = [t \in Tx |-> 0]
    /\ waitFlag = [t \in Tx |-> FALSE]
    /\ retry = [t \in Tx |-> 0]
    /\ pc = [t \in Tx |-> "idle"]
    /\ req = [t \in Tx |-> NoRequest]
    /\ otx = [t \in Tx |-> 0]
    /\ walk = [t \in Tx |-> [ntx |-> 0, iter |-> 0]]
    /\ todo = [t \in Tx |-> {}]
    /\ ends = [t \in Tx |-> 0]
    /\ holds = [t \in Tx |-> [r \in Rows |-> "none"]]

-----------------------------------------------------------------------------
(* Taking a lock *)

\* Segments are locked from the look-up of a row to the end of the access or
\* to the moment before the sleep.
SegmentFree(r) ==
    \A t \in Tx : pc[t] \in {"cycle", "walk", "sleep"} => req[t].row # r

\* Transaction::lockable releases, on the way, a row whose owner has ended.
Cleaned(l, t) ==
    IF ~l.share /\ l.id \notin {0, t} /\ l.sequence # sequence[l.id]
    THEN Lock(0, 0, FALSE) ELSE l

lockable(l, t) == ~l.share /\ l.id \in {0, t}

\* LOCK_READ.  A row that nobody owns becomes a shared one; the first reader
\* of a shared row is its owner.  Who already owns the row for writing reads it.
ReadShared(l, t, r) ==
    IF r \in readSet[t] THEN l
    ELSE Lock(IF l.sequence = 0 THEN t ELSE l.id, l.sequence + 1, TRUE)

ReadGranted(l, t) == l.share \/ lockable(l, t)

ReadLine(l, t, r) ==
    IF l.share THEN ReadShared(l, t, r)
    ELSE IF l.id = t THEN l ELSE Lock(t, 1, TRUE)

WriteGrantedAny(l, t) ==   \* mutant: one reader left, whoever it is
    lockable(l, t) \/ (l.share /\ l.sequence <= 1)

\* LOCK_WRITE.  A shared row goes to a writer when it has no reader left, when
\* the writer owns it alone, or when its only reader no longer exists.
WriteGranted(l, t) ==
    \/ lockable(l, t)
    \/ l.share /\ l.sequence = 0
    \/ l.share /\ l.sequence = 1 /\ (l.id = t \/ l.id = 0 \/ ~alive[l.id])

Granted(l, t, lock) ==
    IF lock = "LOCK_READ" THEN ReadGranted(l, t) ELSE WriteGranted(l, t)

\* The client's next access, or the one that it tries again.  An access that
\* repeats what the transaction already holds changes nothing and is left out.
Accessing(t, r, lock) ==
    \/ /\ pc[t] = "idle" /\ alive[t] /\ ends[t] < use[t].runs
       /\ lock \in use[t].ops
       /\ \/ lock = "LOCK_READ" /\ holds[t][r] = "none"
          \/ lock = "LOCK_WRITE" /\ holds[t][r] # "write"
          \/ lock = "put" /\ r \notin written[t]
    \/ pc[t] = "access" /\ req[t] = [row |-> r, lock |-> lock]

\* checkAccessLock up to storyLine.unlock().
checkAccessLock(t, r, lock) ==
    LET l == Cleaned(line[r], t)
        reading == lock = "LOCK_READ"
        new == IF reading THEN ReadLine(l, t, r) ELSE Lock(t, sequence[t], FALSE)
        ok == Granted(l, t, lock)
    IN  /\ Accessing(t, r, lock) /\ SegmentFree(r)
        /\ line' = [line EXCEPT ![r] = IF ok THEN new ELSE l]
        /\ readSet' = [readSet EXCEPT ![t] =
               IF ~ok THEN @ ELSE IF reading /\ new.share THEN @ \cup {r}
               ELSE IF ~reading /\ l.share THEN @ \ {r} ELSE @]
        /\ written' = [written EXCEPT ![t] = IF ok /\ lock = "put" THEN @ \cup {r} ELSE @]
        /\ holds' = [holds EXCEPT ![t][r] =
               IF ~ok THEN @ ELSE IF reading THEN "read" ELSE "write"]
        /\ pc' = [pc EXCEPT ![t] = IF ok THEN "idle" ELSE "cycle"]
        /\ req' = [req EXCEPT ![t] = IF ok THEN NoRequest ELSE [row |-> r, lock |-> lock]]
        /\ UNCHANGED <<use, sequence, alive, waitId, waitFlag, retry, otx, walk, todo, ends>>

\* Transaction::release: what waits no longer has no retries behind it.
Release(t) ==
    /\ waitId' = [waitId EXCEPT ![t] = 0]
    /\ retry' = [retry EXCEPT ![t] = 0]
    /\ otx' = [otx EXCEPT ![t] = 0]

getTransaction(i) == IF i \in Tx /\ alive[i] THEN i ELSE 0

CycleStartSilent(t) ==   \* mutant: does not publish whom it waits for
    LET o == getTransaction(line[req[t].row].id)
    IN  /\ pc[t] = "cycle" /\ o # 0
        /\ otx' = [otx EXCEPT ![t] = o]
        /\ walk' = [walk EXCEPT ![t] = [ntx |-> o, iter |-> 0]]
        /\ pc' = [pc EXCEPT ![t] = "walk"]
        /\ UNCHANGED <<use, line, sequence, alive, readSet, written, waitId, waitFlag,
                       retry, req, todo, ends, holds>>

\* checkCycleLock publishes whom it waits for before it looks at the others.
CycleStart(t) ==
    LET i == line[req[t].row].id
        o == getTransaction(i)
    IN  /\ pc[t] = "cycle"
        /\ IF o = 0
           THEN Release(t) /\ pc' = [pc EXCEPT ![t] = "access"] /\ UNCHANGED walk
           ELSE /\ waitId' = [waitId EXCEPT ![t] = i]
                /\ otx' = [otx EXCEPT ![t] = o]
                /\ walk' = [walk EXCEPT ![t] = [ntx |-> o, iter |-> 0]]
                /\ pc' = [pc EXCEPT ![t] = "walk"]
                /\ UNCHANGED retry
        /\ UNCHANGED <<use, line, sequence, alive, readSet, written, waitFlag, req,
                       todo, ends, holds>>

\* The access is tried again a few times, and then fails with ERR_DEADLOCK.
Deadlocked(t) ==
    /\ waitId' = [waitId EXCEPT ![t] = 0]
    /\ otx' = [otx EXCEPT ![t] = 0]
    /\ walk' = [walk EXCEPT ![t] = [ntx |-> 0, iter |-> 0]]
    /\ IF retry[t] > DEFAULT_TRANSACTION_RETRY
       THEN /\ retry' = [retry EXCEPT ![t] = 0]
            /\ pc' = [pc EXCEPT ![t] = "idle"]
            /\ req' = [req EXCEPT ![t] = NoRequest]
       ELSE /\ retry' = [retry EXCEPT ![t] = @ + 1]
            /\ pc' = [pc EXCEPT ![t] = "access"]
            /\ UNCHANGED req

\* One turn of its loop: from a transaction to the one that it waits for.
CycleWalk(t) ==
    LET n == walk[t].ntx
        w == waitId[n]
    IN  /\ pc[t] = "walk"
        /\ IF walk[t].iter = DEFAULT_TRANSACTION_INFINITE \/ w = t
           THEN Deadlocked(t)
           ELSE /\ IF w = 0 \/ getTransaction(w) = 0
                   THEN /\ pc' = [pc EXCEPT ![t] = "sleep"]
                        /\ walk' = [walk EXCEPT ![t] = [ntx |-> 0, iter |-> 0]]
                   ELSE /\ walk' = [walk EXCEPT ![t] = [ntx |-> w, iter |-> @.iter + 1]]
                        /\ UNCHANGED pc
                /\ UNCHANGED <<waitId, retry, otx, req>>
        /\ UNCHANGED <<use, line, sequence, alive, readSet, written, waitFlag, todo,
                       ends, holds>>

SleepUnchecked(t) ==   \* mutant: the row may have changed hands
    /\ pc[t] = "sleep"
    /\ waitFlag' = [waitFlag EXCEPT ![otx[t]] = TRUE]
    /\ pc' = [pc EXCEPT ![t] = "asleep"]
    /\ UNCHANGED <<use, line, sequence, alive, readSet, written, waitId, retry, otx,
                   req, walk, todo, ends, holds>>

\* Under otx->lock(): the row must still be that transaction's.
Sleep(t) ==
    /\ pc[t] = "sleep"
    /\ IF line[req[t].row].id # otx[t]
       THEN Release(t) /\ pc' = [pc EXCEPT ![t] = "access"] /\ UNCHANGED waitFlag
       ELSE /\ waitFlag' = [waitFlag EXCEPT ![otx[t]] = TRUE]
            /\ pc' = [pc EXCEPT ![t] = "asleep"]
            /\ UNCHANGED <<waitId, retry, otx>>
    /\ UNCHANGED <<use, line, sequence, alive, readSet, written, req, walk, todo,
                   ends, holds>>

\* otx->wait(timeout) gives up: ERR_TIMEOUT.
Timeout(t) ==
    /\ pc[t] = "asleep"
    /\ Release(t)
    /\ pc' = [pc EXCEPT ![t] = "idle"]
    /\ req' = [req EXCEPT ![t] = NoRequest]
    /\ UNCHANGED <<use, line, sequence, alive, readSet, written, waitFlag, walk, todo,
                   ends, holds>>

\* A woken thread clears its own wait before it tries the access again.
Woken(t) ==
    /\ pc[t] = "woken"
    /\ Release(t)
    /\ pc' = [pc EXCEPT ![t] = "access"]
    /\ UNCHANGED <<use, line, sequence, alive, readSet, written, waitFlag, req, walk,
                   todo, ends, holds>>

-----------------------------------------------------------------------------
(* The end of a transaction *)

\* commit(0) and rollback(0); without read locks and entries nothing is dirty
\* and the transaction only signals.
End(t, next) ==
    /\ pc[t] = "idle" /\ alive[t]
    /\ \E r \in Rows : holds[t][r] # "none"
    /\ todo' = [todo EXCEPT ![t] = readSet[t]]
    /\ pc' = [pc EXCEPT ![t] = next]
    /\ UNCHANGED <<use, line, sequence, alive, readSet, written, waitId, waitFlag,
                   retry, req, otx, walk, ends, holds>>

commit(t) == End(t, "commit")
rollback(t) == "rollback" \in use[t].ops /\ End(t, "rollback")

NewOwnerSelf(t, r) ==   \* mutant: the leaving transaction is not skipped
    LET readers == {u \in Tx : alive[u] /\ r \in readSet[u]}
    IN  CHOOSE u \in readers : \A v \in readers : u <= v

\* Transaction::reassign(StoryLock*): the first other transaction that has the
\* row in its read locks becomes the owner.
NewOwner(t, r) ==
    LET other == {u \in Tx \ {t} : alive[u] /\ r \in readSet[u]}
    IN  IF other = {} THEN t ELSE CHOOSE u \in other : \A v \in other : u <= v

\* One turn of Transaction::reassign(): a reader leaves one row.
LeaveRow(l, t, r) ==
    CASE l.id = t /\ l.sequence > 1 -> Lock(NewOwner(t, r), l.sequence - 1, l.share)
      [] l.id = t /\ l.sequence <= 1 -> Lock(0, l.sequence - 1, FALSE)
      [] OTHER -> [l EXCEPT !.sequence = @ - 1]

reassign(t, r) ==
    /\ pc[t] \in {"commit", "rollback"} /\ r \in todo[t]
    /\ waitFlag' = [waitFlag EXCEPT ![t] = @ \/ line[r].id = t]
    /\ line' = [line EXCEPT ![r] = LeaveRow(@, t, r)]
    /\ todo' = [todo EXCEPT ![t] = @ \ {r}]
    /\ holds' = [holds EXCEPT ![t][r] = IF @ = "read" THEN "none" ELSE @]
    /\ UNCHANGED <<use, sequence, alive, readSet, written, waitId, retry, pc, req,
                   otx, walk, ends>>

\* Only after the loop is m_readLockSet emptied.
ReadSetCleared(t) ==
    /\ pc[t] \in {"commit", "rollback"} /\ todo[t] = {}
    /\ readSet' = [readSet EXCEPT ![t] = {}]
    /\ pc' = [pc EXCEPT ![t] = IF pc[t] = "commit" THEN "entries" ELSE "signal"]
    /\ written' = [written EXCEPT ![t] = IF pc[t] = "commit" THEN @ ELSE {}]
    /\ UNCHANGED <<use, line, sequence, alive, waitId, waitFlag, retry, req, otx,
                   walk, todo, ends, holds>>

\* commitCacheMemory: under the segment's lock an entry becomes the committed
\* one and its row is released, unless somebody else already owns it.
CommitEntry(t, r) ==
    /\ pc[t] = "entries" /\ r \in written[t] /\ SegmentFree(r)
    /\ line' = [line EXCEPT ![r] = IF @.id = t THEN Lock(0, 0, @.share) ELSE @]
    /\ written' = [written EXCEPT ![t] = @ \ {r}]
    /\ holds' = [holds EXCEPT ![t][r] = "none"]
    /\ UNCHANGED <<use, sequence, alive, readSet, waitId, waitFlag, retry, pc, req,
                   otx, walk, todo, ends>>

\* signal: the new sequence number lets go of every other row,
signal(t) ==
    /\ \/ pc[t] = "entries" /\ written[t] = {}
       \/ pc[t] = "signal"
    /\ sequence' = [sequence EXCEPT ![t] = @ + 1]
    /\ holds' = [holds EXCEPT ![t] = [r \in Rows |-> "none"]]
    /\ retry' = [retry EXCEPT ![t] = 0]
    /\ pc' = [pc EXCEPT ![t] = "notify"]
    /\ UNCHANGED <<use, line, alive, readSet, written, waitId, waitFlag, req, otx,
                   walk, todo, ends>>

\* the threads that sleep on a transaction,
Sleepers(t) == {u \in Tx : pc[u] = "asleep" /\ otx[u] = t}

WakeAll(t) == [u \in Tx |-> IF u \in Sleepers(t) THEN "woken" ELSE pc[u]]

\* and, under lock(), who sleeps on the transaction is woken.
Notify(t) ==
    /\ pc[t] = "notify"
    /\ pc' = [IF waitFlag[t] THEN WakeAll(t) ELSE pc EXCEPT ![t] = "idle"]
    /\ waitFlag' = [waitFlag EXCEPT ![t] = FALSE]
    /\ ends' = [ends EXCEPT ![t] = @ + 1]
    /\ UNCHANGED <<use, line, sequence, alive, readSet, written, waitId, retry, req,
                   otx, walk, todo, holds>>

\* Transaction::destroy refuses a dirty transaction.  It also counts the
\* sequence number on, and the destructor wakes sleepers until none refers to
\* the object.
destroy(t) ==
    /\ "destroy" \in use[t].ops
    /\ pc[t] = "idle" /\ alive[t] /\ readSet[t] = {} /\ written[t] = {}
    /\ alive' = [alive EXCEPT ![t] = FALSE]
    /\ sequence' = [sequence EXCEPT ![t] = @ + 1]
    /\ holds' = [holds EXCEPT ![t] = [r \in Rows |-> "none"]]
    /\ UNCHANGED <<use, line, readSet, written, waitId, waitFlag, retry, pc, req, otx,
                   walk, todo, ends>>

ensureSafeToDestroy(t) ==
    /\ ~alive[t] /\ Sleepers(t) # {}
    /\ pc' = WakeAll(t)
    /\ UNCHANGED <<use, line, sequence, alive, readSet, written, waitId, waitFlag,
                   retry, req, otx, walk, todo, ends, holds>>

Next == \E t \in Tx :
    \/ \E r \in Rows, lock \in {"LOCK_READ", "LOCK_WRITE", "put"} : checkAccessLock(t, r, lock)
    \/ CycleStart(t) \/ CycleWalk(t)
    \/ Sleep(t) \/ Timeout(t) \/ Woken(t)
    \/ commit(t) \/ rollback(t)
    \/ \E r \in Rows : reassign(t, r) \/ CommitEntry(t, r)
    \/ ReadSetCleared(t) \/ signal(t) \/ Notify(t)
    \/ destroy(t) \/ ensureSafeToDestroy(t)

Spec == Init /\ [][Next]_vars

-----------------------------------------------------------------------------
(* Properties *)

\* The types of the variables; counts of readers never fall below zero.
TypeOK ==
    /\ line \in [Rows -> [id : 0..N, sequence : Nat, share : BOOLEAN]]
    /\ sequence \in [Tx -> Nat] /\ alive \in [Tx -> BOOLEAN]
    /\ readSet \in [Tx -> SUBSET Rows] /\ written \in [Tx -> SUBSET Rows]
    /\ waitId \in [Tx -> 0..N] /\ waitFlag \in [Tx -> BOOLEAN] /\ retry \in [Tx -> Nat]
    /\ pc \in [Tx -> {"idle", "access", "cycle", "walk", "sleep", "asleep", "woken",
                      "commit", "rollback", "entries", "signal", "notify"}]
    /\ req \in [Tx -> [row : Rows \cup {0}, lock : Kinds \cup {"none"}]]
    /\ otx \in [Tx -> 0..N] /\ walk \in [Tx -> [ntx : 0..N, iter : Nat]]
    /\ todo \in [Tx -> SUBSET Rows] /\ ends \in [Tx -> Nat]
    /\ holds \in [Tx -> [Rows -> {"none", "read", "write"}]]

Readers(r) == {t \in Tx : holds[t][r] = "read"}
Writers(r) == {t \in Tx : holds[t][r] = "write"}

\* A row that checkAccessLock granted for writing is granted to nobody else until
\* the transaction that has it ends.
RowExclusion ==
    \A r \in Rows : Writers(r) # {} => Cardinality(Writers(r) \cup Readers(r)) = 1

\* A shared row counts its readers, and its owner, on whom the others sleep, is
\* one of them.
SharedAccounted ==
    \A r \in Rows :
        /\ Readers(r) # {} => line[r].share
        /\ line[r].share => /\ line[r].sequence = Cardinality(Readers(r))
                            /\ Readers(r) # {} => line[r].id \in Readers(r)

\* Transactions never all sleep on one another: checkCycleLock finds every cycle
\* although it reads the others' waits one by one while they change.
NoSleepingCycle ==
    \A S \in SUBSET {t \in Tx : pc[t] = "asleep"} :
        S # {} => \E t \in S : otx[t] \notin S

\* Transactions that commit everything they lock.
PutOnly == \A t \in Tx : use[t].ops \cap {"LOCK_WRITE", "rollback"} = {}

\* Who sleeps will be woken: the transaction it sleeps on still has the row, or
\* has yet to signal.
NoLostWakeup ==
    PutOnly =>
        \A t \in Tx : pc[t] = "asleep" =>
            LET o == otx[t]
            IN  ~alive[o] \/ holds[o][req[t].row] # "none"
                \/ (waitFlag[o] /\ pc[o] \in {"commit", "entries", "notify"})
=============================================================================
