# Deep Fabric: TLA+ models, model checking and proofs

Deep Fabric is a C++ data fabric. A *fabric* process joins other fabrics over
ZeroMQ request/reply sockets, gossips the topology with them, and bridges
application messages to the CASSI thread of a local storage engine. The engine
is a multi-threaded key/value store whose threads meet on spin locks written in
this repository.

This directory models the parts of that system in which the order of steps
decides about correctness: the two reader/writer spin locks, the lock-free
message queue between the fabric thread and the CASSI thread, the request/reply
link between fabrics, the exchange of topologies, the replication of a file over
that link, and, in the engine, the row locks of transactions and the durable
commit of a transaction over several tables with its recovery. TLC checks every model on
small instances; TLAPS proves, for every value of the constants, the safety of
both locks, of the queue, of the link, of the exchange of topologies, of the
replication of files, of the row locks and of durable commits.

Paths below are relative to `src/`:

| short | path |
|---|---|
| `RealtimeFabric.cxx`, `RealtimeFabricMatrix.cxx` | `FABRIC/cxx/src/main/native/cxx/fabric/` |
| `MessageManager.cxx`, `LinkManager.cxx`, `MsgQueue.h` | `PLATFORM/src/main/native/cxx/io/` |
| `LwUserSpaceReadWriteLock.h`, `UserSpaceReadWriteLock.h` | `PLATFORM/src/main/native/cxx/util/concurrent/locks/` |
| `FabricCassiMessageQueue.cxx` | `COMMON/src/main/native/com/deepis/communication/fabricconnector/` |
| `q.c` | `THIRDPARTY/q/` |
| `FileReplication.cxx` | `FABRIC/cxx/src/main/native/cxx/replication/` |
| engine: `core/Transaction.h`, `core/RealTimeMap.cxx`, `core/RealTimeAtomic.h`, `util/MeasuredRandomAccessFile.h`, ... | `ENGINE/service/src/main/native/com/deepis/db/store/relative/` |

## 1. Inventory

### Components, their state and operations

| component | state | operations | hard because | correct when |
|---|---|---|---|---|
| `LwUserSpaceReadWriteLock` | one word: write-requested bit and a count of read slots | `readLock`, `tryReadLock`, `readUnlock`, `writeLock`, `writeLock(timeout)`, `tryWriteLock`, `writeUnlock`, `demote` | every operation samples the word and swaps it later; a writer takes the slots in several bites and may give up half-way | a writer is alone; no slot is lost or released twice; an accepted writer gets in |
| `UserSpaceReadWriteLock` | seven words: readers, waiting readers, unlocking readers, new readers, writer, write request, writer unlocking | `readLock`, `tryReadLock`, `readUnlock`, `writeLock`, `tryWriteLock`, `writeUnlock` | no word is changed together with another; a leaving reader writes the writer's flag for it, perhaps late | a writer is alone; the late store never outlives its writer; nobody starves or deadlocks |
| `MsgQueue` over the `q` ring | slots with an in-use flag, two wrapping counters, an eventfd | `enqueue`, `dequeue`, `isFull`, `isEmpty`, polling | no lock, message and wake-up are two steps on each side | a bounded FIFO queue; no lost wake-up; accepted messages are delivered |
| `MessageManager`, `LinkManager` | per REQ socket: request in progress, bundle position, pending queue, send block; ZeroMQ's own socket states | `sendREQ`, `sendREP`, `unblockREQ`, `readEvent`, `close`, `disconnected`, `flushQ`, `poll`, `send`, monitor events | a REQ socket must alternate send and receive, and callbacks, replies, lost sessions and re-created sockets all touch the flag | the alternation is never broken; bundles stay whole and in order; requests are answered; lost peers come back |
| `RealtimeFabric` | outbound and inbound peers, message ids, bridges | `addPeer`, `delPeer`, JOIN/TOPO/SHIM requests and replies, `disconnect`, `rejoinReq`, `addAdj`, `delAdj`, `consumeWorkItems` | everything is a callback of one thread over an unreliable network | peers that joined are known, those that left are not |
| `RealtimeFabricMatrix` | per server a sequence number and a set of peers | `addAdj`, `delAdj`, `renderAsJSON`, `processJSON` | matrices overtake one another on different paths; fabrics restart with an empty one | old entries never replace newer ones; the exchange comes to rest; neighbours agree |
| `FabricCassiMessageQueue` | two `MsgQueue`s, registered message ids, an API consumer thread | `enqueue`, `dequeue`, `send`, `run`, `addPeerCmd`, `signalPeerChange`, pollers | three threads share two single-producer rings | nothing accepted is lost; every API request is answered |
| `FileReplication` bridge | per transfer: a descriptor at each end, the place in the file; a count of open files | `peerStateChanged`, FILE_TX handshake, bundles of blocks and the request for the next one | each transfer is a chain of messages through two queues and a link that may drop any of them; a fabric that is not joined yet drops its replies; a reconnect starts another one beside it | one bundle is on the way; a file reported complete has all its blocks; a transfer that is answered ends |
| JSON API, message services | pending API requests | parse, dispatch, render | a request outlives the call that made it | every request gets one answer |
| wire encoding | none | encode, decode, flags | byte layout | decode inverts encode |
| `ReentrantUserSpaceLock`, `CountDownLatch`, `FreeList` | owner and depth; count; array and index | lock, unlock; countDown, await; create, destroy | spinning | mutual exclusion; no element handed out twice |
| engine: row locks | per row a `StoryLock`: owner, sequence number or count of readers, shared or not; per transaction its sequence number, read locks, whom it waits for | `checkAccessLock`, `checkCycleLock`, `commit`, `rollback`, `reassign`, `signal`, `destroy` | rows are released by a new sequence number, without being touched; read locks change owners; waits are read without a lock | a writer of a row is alone; shared rows know their readers; nobody sleeps in a circle or past the wake-up |
| engine: durable commits and recovery | a log per table, `deep.trt`, `s_syncCount`, `s_syncFiles` | plan, log of each table, `writeEndTransaction`, `performSynchronizeGlobally`, recovery | commits share one synchronisation; a crash comes between any two writes; each table recovers on its own | what was acknowledged survives; a commit is in all of its tables or in none |
| engine: segments, checkpoints, MVCC | maps, segments, index files, viewpoints, `m_checkptRequestLock` | put, get, checkpoint, purge | writers beside the checkpoint thread; snapshots beside commits | a checkpoint and a snapshot are consistent |
| engine: distributed maps | map facilitators, peers | replicated puts and their answers | operations of several peers interleave | replicas converge |
| store API | none | calls into the engine | type conversions only | |
| ZeroMQ, json-c, `q` | | | vendored | |

### How they interact

```
 application / JSON API                 engine threads
        |                                  |  UserSpaceReadWriteLock,
        v                                  |  LwUserSpaceReadWriteLock
 FabricCassiMessageQueue  <---- CASSI thread
   | CASSI_TO_FABRIC  ^ FABRIC_TO_CASSI        (two MsgQueues)
   v                  |
 RealtimeFabric (one thread: poll, callbacks)
   |  sendREQ / sendREP          ^ readEvent, disconnected
   v                             |
 MessageManager -- LinkManager -- ZeroMQ ==== other fabrics
   (JOIN, TOPO and SHIM requests, topology matrices inside TOPO)
```

The fabric thread polls the sockets and the eventfd of CASSI_TO_FABRIC and runs
one callback at a time. The CASSI thread waits on the eventfd of
FABRIC_TO_CASSI. A third thread, the API consumer, also enqueues on
CASSI_TO_FABRIC. There is no persistence in the fabric: a restarted fabric
begins with empty maps and its configured server id. The `FileReplication`
bridge runs on the CASSI thread, as every bridge does. In the engine every
connection has a thread and a `Transaction` object; they meet on the rows'
`StoryLock`s, on the lock of each segment, and on the static state of
`MeasuredRandomAccessFile` and `RealTimeAtomic`.

`PROJECT.json` lists, under `hazards`, what in this code is hard to test, at the
line where it bites, with the properties below that would catch it.

## 2. Modules

| module | models | composed with |
|---|---|---|
| `LwUserSpaceReadWriteLock` | the one-word lock | |
| `LwUserSpaceReadWriteLock_proofs` | its theorems | extends the lock |
| `UserSpaceReadWriteLock` | the engine's lock | |
| `UserSpaceReadWriteLock_proofs` | its theorems | extends the lock |
| `MsgFifo` | what a `MsgQueue` promises: a bounded FIFO queue | |
| `MsgQueue` | `MsgQueue.h` over `q.c`, its producers and its consumer | instantiates `MsgFifo` |
| `MsgQueue_proofs` | its theorems, with the refinement of `MsgFifo` | extends the queue |
| `FabricLink` | several client fabrics, their REQ sockets, ZeroMQ, the server's REP socket and its CASSI queue | |
| `FabricLink_proofs` | its theorems | extends the link |
| `FabricTopology` | matrices and the messages that carry them, over links reduced to what `FabricLink` establishes | |
| `FabricTopology_proofs` | its theorems | extends the topology |
| `FileReplication` | sender, receiver and its FABRIC_TO_CASSI queue, over a link reduced to what `FabricLink` establishes | |
| `FileReplication_proofs` | its theorems | extends the transfers |
| `RowLock` | row locks, waiting for them, and the end of transactions | |
| `RowLock_proofs` | its theorems | extends the row locks |
| `AtomicCommit` | durable commits over several tables, crashes and recovery | |
| `AtomicCommit_proofs` | its theorems | extends the commits |
| `MC...` | instances for TLC: symmetry sets and the graphs of links | extend the above |

### The locks

Every `get`, `set`, `inc`, `dec`, `condSet` and fetch-and-or of the code is one
atomic access and therefore one action; everything between two accesses is
local to a thread. `pc[t]` says which access a thread makes next.

`LwUserSpaceReadWriteLock` keeps the word as a record of its two fields
(`Word`); `decReaders` wraps at the width of the counter. `consumeOne` and
`consumeRemaining` are a sample and a compare-and-swap; the sample is forgotten
after the swap, as the local variable is. `writeLock(timeout)` may find its time
spent at every test, so its timeout is a nondeterministic choice.

`UserSpaceReadWriteLock` keeps its seven words in the record `lock`. A spin is
a step that is not enabled until its condition holds where the loop reads one
word, and a cycle of steps where it reads two. Three choices matter:

* `get(&m_readersWaiting) != get(&m_readers)` is two reads, the left one first.
  The language leaves the order of the operands open; the source's own comment
  says that it matters, and the compilers the build uses read left to right. The
  mutant `AllWaitingSwapped` shows that the other order breaks `MutualExclusion`.
* `m_newReaders` is only compared with `MAX_NEW_READERS`, so it stops there; the
  abstraction is exact.
* `ops`, chosen in `Init` from `Uses`, is the set of operations that the threads
  call on the lock: some properties hold for one mix of operations and not for
  another (section 5).

### The queue

`MsgQueue` has one action per access to a slot, a counter or the eventfd, in
program order (x86 keeps the stores of a thread in order; `q.c` itself relies
on that). `enq_cnt++` is a load and a store. `Wrap` stands for 2^32 and must be
a multiple of `Size`, as 2^32 is of a power of two. The consumer is
`consumeWorkItems` or the loop of `FabricCassiMessageQueue::run`: it waits,
looks at `isEmpty()`, and takes messages until the ring is empty. `PollTimeout`
is the timed wait of `cassiPoller`, after which CASSI looks although the eventfd
is not readable.

`MsgFifo` has two actions, `Put` and `Take`. The refinement mapping takes the
slots in use from the head on as the queue: a message is put when its slot is
published (`EnqUse`) and taken when its slot is freed (`DeqFree`).

### The link

`FabricLink` has a set of clients, each a fabric with one REQ socket to the same
server. `task[c]` holds what the running callback of `c` has still to pass to
`sendREQ`, so that a callback sends several messages in several steps while the
network and the server move, but no other callback of `c` starts.

| action | code |
|---|---|
| `addPeer`, `delPeer` | `RealtimeFabric::addPeer`, `delPeer` with `MessageManager::close` |
| `SendBundle` | an envelope or bundle command in `consumeWorkItems` |
| `sendREQ` | `MessageManager::sendREQ` with `LinkManager::send` (`LinkSend`) |
| `ReadReply` | `LinkManager::poll`, `MessageManager::readEvent`, the reply callbacks and `unblockREQ` |
| `disconnected` | the monitor event, `MessageManager::disconnected` with `flushQ`, `RealtimeFabric::disconnect` with `delAdj` and `rejoinReq` |
| `RepPart` | the server's `poll`, one part to `processJoinReq`, `processTopoReq` or `processShimReq`, with `sendREP` |
| `CassiDequeue` | the server's CASSI thread |
| `Connect`, `Disconnect`, `Deliver`, `RepRecv` | ZeroMQ (external), from how `LinkManager` configures and uses it: linger 0, automatic reconnection, requests that left the socket are lost with their session, one that has not is kept, and a REP socket that owes a reply accepts no request |

Message bodies are reduced to sender, kind, number and the FIRST and LAST flags.

### The topology

`FabricTopology` keeps every fabric's matrix and, for each link, the queue of
requests of which the first is under way. That is the socket of `FabricLink`
with its parts removed: `OneOutstanding` and `WholeBundles` are what makes the
reduction sound. `AddAdj`, `DelAdj`, `Merged` and `ChangeApplied` are
`addAdj`, `delAdj` and `processJSON` of `RealtimeFabricMatrix.cxx` as functions
on matrices; JSON text is replaced by the matrix it renders. `full` says whether
FABRIC_TO_CASSI may be found full, in which case `signalPeerChange` fails and
`addAdj`/`delAdj` return before they tell the peers. `Restart` is part of
`RestartSpec` only.

### File replication

A transfer is started by every UP of the peer and is numbered by it (the code
uses a random UUID). `out` and `back` are the two directions of the link at the
level that `FabricLink` establishes: whole bundles, in order, one at a time,
lost with their session. The receiver's REP socket reads a bundle message by
message (`processShimReq`), and each may find FABRIC_TO_CASSI full: it is
dropped, and if it was the last of its bundle the socket never replies again
(`owes`). The two fabrics join one another independently: `connected` says that
the receiver is in the sender's `m_pcOutBoundPeers`, `joined` that the sender is
in the receiver's (`processJoinRep`, at any time before or after the UP of the
other). What either sends before that is dropped ("Unknown Outbound Peer ID",
`Sent` and `Replied`). `Disconnect` is a lost session of one or of the other and
loses what is in `out` or in `back`. After a lost session the peer is assumed to be added
again, since a request in flight would otherwise block the rejoin (section 5).

Blocks are their numbers and a file is the sequence of blocks it holds; each
transfer has its own descriptor, and so its own position. `peerStateChanged`
removes the destination before it asks for the transfer, but the call runs on
the sender's machine, and the receiver opens the path with O_CREAT and without
O_TRUNC. `use.shared` says whether both run on one host, as in the repository's
tests. There every UP takes the name away, and what is opened after it is a new
file: `file[k]` is the one made after UP `k`, `inode[x]` the one that the
descriptor of transfer `x` is open on, and `Path` the one the path names.
Otherwise there is one file, number 0, which holds `use.old` old blocks at
first (written 0). `receiver` is the process: it exits when the last open file is
closed (`g_iInstances`), and aborts when the first message of a transfer was
dropped and the second is written without a descriptor. There is no retry, so a
transfer whose session is lost stalls.

### Row locks

| action | code |
|---|---|
| `checkAccessLock` | `RealTimeMap::checkAccessLock` up to `storyLine.unlock()`, with `Transaction::lockable` |
| `CycleStart`, `CycleWalk` | `checkCycleLock`, one turn of its loop a step |
| `Sleep`, `Timeout`, `Woken` | the rest of `checkAccessLock` |
| `commit`, `rollback`, `reassign`, `ReadSetCleared` | the start of `commit(0)` and `rollback(0)`, and `Transaction::reassign`, one row a step |
| `CommitEntry` | `commitCacheMemory`, one entry |
| `signal`, `Notify` | `setDirty(false)` and `signal` |
| `destroy`, `ensureSafeToDestroy` | `Transaction::destroy` and the destructor's loop |

`line[r]` is the `StoryLock`. A row is let go of lazily: the end of a
transaction increments `sequence`, and whoever looks at the row next finds that
the pair no longer agrees. `holds` records what each transaction was granted and
has not given up; only properties and the choice of the next access read it.
Which operations an object is used for, and how many transactions it runs, is
chosen in `Init` from `Uses`. `put` is a lock for writing that leaves an entry
in the conductor.

Consequences of the code that the properties take account of: a row that was
only locked, or rolled back, is released without waking its sleepers unless
`m_wait` was set before `signal`, so `NoLostWakeup` speaks of transactions that
commit what they lock (`PutOnly`), and others may have to wait for the owner's
next end or for the timeout; a reader that wants to write a row shared with
another is told of a deadlock or sleeps on the other; nothing bounds how often
a woken transaction loses the row to others, so no progress property is stated.

### Durable commits

| action | code |
|---|---|
| `plan` | `Transaction::commit` up to `planSynchronizeGlobally` |
| `getTransactionId` | `RealTimeAtomic::getInstance(WRITE)` and `getTransactionId` |
| `commitRealTime` | durable-phase1 of one table: entries written and flushed, `prepareSynchronizeGlobally` |
| `writeEndTransaction` | the identifier into `deep.trt`, with the wrap |
| `perform` | `performSynchronizeGlobally`: the last of the group synchronises all files and wakes the others |
| `return` | durable-phase2 and the return |
| `Crash` | external: the process dies and leaves what was flushed, or the machine dies and leaves what was synchronised and any part of the rest |
| `recover` | `recoverRealTimeProcessLoop` and `recoveryRead` of one table: replay up to the first entry whose identifier should be in `deep.trt` and is not, and truncation there |

A log is the sequence of its commits with their identifiers. `made` and `acked`
record what was asked for and acknowledged. Every table is recovered before
commits begin again; in the program a table that is mounted later would switch
the `RealTimeAtomic` instance back to READ. The waiting in
`performSynchronizeGlobally` is a single `wait()` without a loop; a spurious
wake-up is not modelled.

## 3. Runs

| run | constants | properties | shows |
|---|---|---|---|
| `lw_lock` | 3 threads, 2 slots | `TypeOK`, `MutualExclusion`, `SlotsAccounted`, `WriterGetsLock` | all operations mixed: exclusion, accounting of slots, and no starvation of a thread that set the write-requested bit |
| `us_lock_safety` | 4 threads, writers that all wait or all try | `TypeOK`, `MutualExclusion`, `WriterFlagOwned`, `NoUnlockChase` | exclusion; a late store to `m_writer` never outlives its writer; the unlock waits of readers and writers do not chase each other. Deadlock is checked |
| `us_lock_live` | 3 threads, `readLock` and `writeLock` | `WriterGetsLock`, `ReaderGetsLock` | neither side starves |
| `us_lock_mixed` | 3 threads, all operations | `MutualExclusion` | **violated**, section 5 |
| `link_safety` | 2 clients, a bundle of 3 messages each, 1 topology change and 1 lost connection each, 3 `addPeer` calls, CASSI queue of 2 | `TypeOK`, `NoEFSM`, `PendingOnlyInProgress`, `WholeBundles`, `OneOutstanding`, `BundlesContiguous` | the REQ protocol and the shape of bundles survive lost sessions, overload and a socket that is closed and created again; CASSI gets the messages of a bundle in order and unmixed, without those that a full queue drops (section 5) |
| `link_live` | 2 clients, 1 message and 1 lost connection each, CASSI queue of 1 | `RequestAnswered`, `RejoinsWhenIdle` | a client whose connection holds is answered, whatever happens to the other one; a peer lost while its socket was idle joins again |
| `queue_fifo` | 1 producer, 4 slots, counters modulo 8, 10 messages | `NoEnqueueException`, `NoLostWakeup`, `AcceptedIsKept`, `FifoSpec`, `AcceptedIsDelivered` | the ring implements `MsgFifo` through the wrap of its counters, and the eventfd never leaves a waiting consumer with a message |
| `topology` | 3 fabrics in a ring, 3 `addPeer` calls, 1 lost connection, CASSI queue full or not | `TypeOK`, `OwnEntryIsCurrent`, `OwnerIsNewest`, `EqualSequenceNoChange`, `GossipStops`, `PeersLearn` | sequence numbers order the entries; the exchange stops; neighbours then agree |
| `row_lock` | 3 transactions on 2 rows (two read and write, one writes), or 2 that write, lock without writing, roll back and disconnect, two transactions each | `RowExclusion`, `SharedAccounted`, `NoSleepingCycle`, `NoLostWakeup` | row locks exclude, shared rows are accounted for through every change of owner, cycles are found although the waits are read one by one, and sleepers are woken |
| `row_lock_stale` | 2 transactions, 1 row, `LOCK_READ` and `LOCK_WRITE` | `RowExclusion` | **violated**, section 5 |
| `atomic_commit` | 2 threads, 2 tables, 4 commits, 1 crash of either kind; a `deep.trt` that wraps and one that does not | `AcknowledgedSurvives`, `AllOrNothingAlone`, `CommitReturns` | acknowledged commits survive; cross-table commits that do not overlap are all or nothing when the process dies; no commit is left waiting |
| `file_replication` | up to 3 transfers, bundles of 3, files of 0, 2, 3, 4 and 6 blocks, queues of 1 to 3 bundles, one host or two, nothing or a longer file at the destination, 2 lost sessions | `TypeOK`, `FlowControl`, `ClosedFileIsWhole`, `TransferCompletes` | flow control survives drops and losses; while there is room for a bundle of each transfer a closed file has every block, and is at the path unless a later UP removed it; a transfer whose request finds the receiver joined completes at every length of the file |

Every property of a passing run has a mutant, a definition with a plausible bug
(a missing test, an off-by-one, a lost reset) under which TLC violates it.
The `TypeOK` of `MsgQueue`, `RowLock` and `AtomicCommit` is in no run; it
documents the state and can be added to a configuration's INVARIANTS.

More configurations are kept for running by hand. Each is expected to be
violated, and section 5 says what it shows:

| configuration | module | property |
|---|---|---|
| `MCLinkOverload.cfg` | `MCFabricLink` | `ServerAnswers` |
| `MCLinkRejoinLost.cfg` | `MCFabricLink` | `RejoinsAfterDisconnect` |
| `MCQueueTwoProducers.cfg` | `MCMsgQueue` | `AcceptedIsKept` |
| `MCTopoEqual.cfg` | `MCFabricTopology` | `EqualSequenceNoChange` |
| `MCRowLockShared.cfg` | `MCRowLock` | `RowExclusion` |
| `MCAtomicOverlap.cfg` | `MCAtomicCommit` | `AllOrNothing` |
| `MCAtomicRestart.cfg` | `MCAtomicCommit` | `AcknowledgedSurvives` |
| `MCAtomicRing.cfg` | `MCAtomicCommit` | `AcknowledgedSurvives` |
| `MCFileOverflow.cfg` | `MCFileReplication` | `WholeFile` |
| `MCFileUnlinked.cfg` | `MCFileReplication` | `WholeFile` |
| `MCFileOldTail.cfg` | `MCFileReplication` | `WholeFile` |
| `MCFileUnheard.cfg` | `MCFileReplication` | `AnyTransferCompletes` |

For example `tlc -config MCFileOverflow.cfg MCFileReplication`.

### Bounds

* Locks: the hazards are between two readers and a writer, or between a reader
  and two writers; a thread that has finished starts again, so three or four
  threads cover longer casts. Two slots are the least for which a writer takes
  its slots in more than one bite. One new reader is the least
  `MAX_NEW_READERS`; a larger one lengthens the gate and adds no new test.
* Queue: ten messages pass through four slots more than twice and through the
  wrap of the counters at eight.
* Link: two clients are needed for one REP socket to be shared. A bundle of two
  has a first message that is not the last; one of three has a middle, the only
  one that the full queue may drop while the bundle is answered. With three `addPeer` calls one
  socket is closed and created again while the other client works. A CASSI
  queue of two is filled by one bundle.
* Topology: a ring of three is the smallest graph in which a matrix returns to
  its owner by another way than it left. The third `addPeer` can also be spent
  on a peer that was removed.
* Row locks: two rows are the least for a cycle of waits, three transactions
  the least for a reader that takes a row over from another while a writer
  waits. The uses are limited to at most two readers of a row because with three
  `RowExclusion` fails (section 5). `DEFAULT_TRANSACTION_RETRY` is 0 and
  `DEFAULT_TRANSACTION_INFINITE` 4, above the longest chain of three waits.
* Commits: two threads and two tables are the least for two commits that cross;
  four commits fill and wrap a `deep.trt` of two slots twice.
  Either overlapping cross-table commits or a small `deep.trt` is explored, and
  one crash; the other combinations are the ones of section 5. With the bound
  on commits a waiting one always meets a last one; with three or more threads
  that never pause, `s_syncCount` need not reach zero, and `CommitReturns` says
  nothing about that.
* Files: the sizes are those around one and two bundles. Three transfers need
  two lost sessions. An old file is one block longer than the new one, the least
  that leaves a tail; a shorter one is overwritten.

The bounds are guards on what the environment does (`made`, `opens`, `drops`,
`changes`, `restarts`, `runs`, `ups`, `crashes`); nothing the program does is cut off by them.
Deadlock is not checked where the environment may stop acting and every thread
then waits for it, rightly.

### Fairness

* Locks: a thread inside an operation keeps being scheduled, and a holder
  releases the lock: the engine's scoped users unlock on every path. Nobody is
  obliged to ask for the lock.
* Queue: threads with something to do run. The timeout of a wait is not fair,
  so `AcceptedIsDelivered` rests on the eventfd alone.
* Link: the fabric thread polls for ever and runs what is ready, ZeroMQ
  reconnects and delivers, CASSI takes its messages. `RepRecv` is strongly fair
  because ZeroMQ's fair queueing serves every client in turn, while the REP
  socket keeps becoming busy with others. The application need not send and the
  network need not fail.
* Topology: the fabric threads serve, read replies and handle disconnects.
* Commits: a thread inside `commit` keeps running. Nobody has to commit.
* Files: the threads of both fabrics and the link keep running, a peer that may
  come up does, and the receiver's own JOIN is answered in the end.
  `TransferCompletes` does not rest on the last: it starts where the receiver is
  joined. Nothing has to fail.
* `RowLock` states no fairness and no liveness property.

## 4. Proofs

The theorems hold for every finite set of threads, clients, rows or fabrics and
every value of the other constants; the assumptions they use are the named
ASSUMEs of the modules (sets are finite, counts are numbers, bundles are not
empty, `Wrap` is a multiple of `Size`). Where a property needs a certain use of
the component, because section 5 shows that it fails otherwise, the condition is
part of the theorem.

| module | theorem | states | condition |
|---|---|---|---|
| `LwUserSpaceReadWriteLock_proofs` | `TypeCorrect`, `NoSlotLost`, `Exclusion` | `TypeOK`, `SlotsAccounted`, `MutualExclusion` | |
| | `NoCircularWait`, `WriterKeepsItsPlace` | safety behind `WriterGetsLock` | |
| `UserSpaceReadWriteLock_proofs` | `LockTypeCorrect` | `TypeOK` | |
| | `WriterIsAlone`, `WriterFlagHasOwner`, `UnlocksDoNotChase` | `MutualExclusion`, `WriterFlagOwned`, `NoUnlockChase` | `NotMixed`: not `writeLock` and `tryWriteLock` together |
| | `NoCircularWait` | safety behind `WriterGetsLock`, `ReaderGetsLock` | `NotMixed` |
| `MsgQueue_proofs` | `QueueTypeCorrect`, `ConsumerIsWoken` | `TypeOK`, `NoLostWakeup` | |
| | `OneProducerNeverThrows`, `OneProducerIsFifo`, `OneProducerKeepsMessages` | `NoEnqueueException`, `FifoSpec`, `AcceptedIsKept` | one producer |
| `FabricLink_proofs` | `TypeCorrect`, `AlternationKept`, `NoPendingException` | `TypeOK`, `NoEFSM`, `PendingOnlyInProgress` | |
| | `BundlesStayWhole`, `OneRequestAtATime`, `BundlesArriveInOrder` | `WholeBundles`, `OneOutstanding`, `BundlesContiguous` | |
| | `RequestNotLost`, `JoinIsPending` | safety behind `RequestAnswered`, `RejoinsWhenIdle` | as stated below: the session holds, or the exception of a lost one |
| `FabricTopology_proofs` | `TopologyTypeOK`, `OwnEntryCurrent`, `OwnersNewest`, `SequenceIdentifiesEntry` | `TypeOK`, `OwnEntryIsCurrent`, `OwnerIsNewest`, `EqualSequenceNoChange` | no restart (`Spec`) |
| | `NoPeerForgotten`, `QuietMeansLearned` | safety behind `PeersLearn` and `GossipStops` | no restart; learning needs a CASSI that is not full |
| | `KnowledgeGrows` | action property: no fabric forgets | no restart |
| `FileReplication_proofs` | `FileTypeCorrect`, `FlowControlHolds` | `TypeOK`, `FlowControl` | |
| | `ClosedFilesAreWhole` | `ClosedFileIsWhole` | `Room`, part of the property: the queue holds a bundle of each transfer |
| | `ReceiverNeverAborts` | the receiver never aborts and answers every bundle | `Room` |
| | `TransferNotForgotten` | safety behind `TransferCompletes` | `Room`, the receiver is joined when the request comes, no session lost |
| `RowLock_proofs` | `SleepersAcyclic` | `NoSleepingCycle` | |
| | `WritersExclude` | `RowExclusion` | `NoReads`: nobody asks for `LOCK_READ` |
| | `SharedRowsSound`, `SharedRowsWake` | `RowExclusion`, `SharedAccounted`, `NoLostWakeup` | `PutOnly`, and at most two transactions read (`AtMostTwoRead`) |
| `AtomicCommit_proofs` | `CommitTypeCorrect` | `TypeOK` | |
| | `AcknowledgedSurvive` | `AcknowledgedSurvives` | at most one crash, and `deep.trt` has a slot for every commit (`NotWrapped`) or one thread commits over several tables (`OneCrossTable`) |
| | `AllOrNothingHolds` | `AllOrNothingAlone` | |
| | `NobodyLeftWaiting`, `ReturnsDurable` | safety behind `CommitReturns`; a commit that is about to return is on disk | |

In every module the proof has one lemma per action or group of actions, a lemma
that combines them into "the invariant is inductive", and theorems that follow
from the invariant.

**The one-word lock.** `MutualExclusion` is not inductive: why a
writer meets no reader is a matter of counting. `Inv` adds to `SlotsAccounted`
that a writing thread took all `MAX` slots, that a reader about to swap sampled
a word with a free slot, and that a writer that gave its slots back has none
left. Then `MAX = Cardinality(Readers) + MAX` leaves no reader. The cardinality
lemmas say how a step changes the number of readers. `NoCircularWait` says, of
the spins that go on in the present state (`Blocked`), that not everyone inside
the lock is in one: it needs the same count, since a full word without a reader
belongs to its writer. `WriterKeepsItsPlace` is about steps: after
`setWriteRequested()` nobody joins those past the flag (`PastFlag`), although
`consumeOne` does not look at the flag again, and the slots a writer has taken
are not taken from it.

**The engine's lock.** `CountInv` says of which threads each counter is the
number; it holds for every mix of operations and gives `TypeOK`. A writer
compares an older count of waiting readers with the count of all readers.
`FreshInv` makes that sound: while `m_writer` is set no reader is on its way
from waiting to reading, so that waiting readers only become more and equal
counts leave none that is not waiting. This in turn needs the late store of the
last reader to come before its writer is done (`CleanInv`), which is what
`m_readersUnlocking` and `m_writerUnlocking` are for; `ProtocolInv` has one
thread in the write protocol and one in `writeUnlock`. `NoCircularWait` follows
the lock's waits: readers wait for the thread in the write protocol, that one
for counted readers that are not waiting or for unlocking readers, an unlocking
reader for an unlocking writer; at the end of each chain is a thread that can go
on.

**The queue.** `RingInv` says that the slots in use are `Count` consecutive
slots from `Front` on and that the producer stands right after them, so that
the slot it fills is never one that is still to be read; it survives the wrap of
the counters because `Wrap` is a multiple of `Size`. `LineInv` lines up what was
delivered and what is in the ring: each message stands there once, in the order
of the calls. `OneProducerIsFifo` is the refinement: the initial state maps to
an initial state of `MsgFifo`, `EnqUse` to `Put`, `DeqFree` to `Take` and all
other steps to stuttering.

**The link.** For the request protocol what carries is `InStep`:
MessageManager's `m_bREQInProgress` is set exactly while ZeroMQ's REQ socket is
in its receive state. For the bundles `RequestInv` follows the messages of a
client from the callback to CASSI: what a callback has still to send ends with
the last message of a bundle and goes on with what `sendREQ` has put together
(`ChainInv`); what is on the way and at the server are whole bundles
(`FlightInv`); CASSI's queue breaks off only in the bundle that the REP socket
is reading (`CassiInv`); and of everything that belongs to one request, from the
message in the pipe to the unread reply, one at most is alive (`OutInv`).
`OrderInv` puts these six places in a line and says that numbers rise along it
for each client. Preparing this proof showed that an earlier form of
`BundlesContiguous`, which asked for consecutive numbers, was false for bundles
of more than two messages, as the queue may drop one in the middle; the
property and the run now have bundles of three.
`AliveInv` adds that a request in progress is under way unless its session was
lost, and that a peer that is open and has not joined has its `JOIN_REQ` in its
socket, on the way, or answered. The two together give `RequestNotLost`, which
turns the "at most one" of `OneOutstanding` into "exactly one" while the session
holds, and `JoinIsPending`, whose one exception (a socket that waits for an
answer that was lost with its session) is how a rejoin can fail after a
disconnect (section 5).

**The topology.** A merge copies entries that some matrix already has; only
`addAdj` and `delAdj` make new ones, at the fabric the entry is about.
`TopoInv` adds to the three properties that the owner knows its entry as soon
as anybody does (`OwnerKnows`), in its matrix and in all messages: otherwise the
count that it adopts from a peer would give a second meaning to a number that is
in use. `PeersTold` is inductive with it: every change of a fabric's own entry is
followed, in the same handler, by a request to each of its peers, a merge never takes
the entry back, and requests leave a socket only when they have been answered.
So a joined peer knows its neighbour's present entry or has it on the way, and
knows it once its socket is idle. `NeverForgets` is the action property of the
merge.

**File transfers.** `FlowInv` holds whatever is dropped or lost. Messages of a
transfer are numbered by `Rank`: the request, the blocks, the empty block. Every
message on the way belongs to the bundle that was sent last (`LineOK`), the
receiver's queue has those of a transfer in order with nothing behind the last
of a bundle (`QueueOrder`), and a transfer is in one place: in a bundle that was
sent, with the receiver, or in a reply (`OnePlace`). Numbers of one transfer
therefore differ and lie in a window of `FILE_BUNDLE_SIZE`, and the map from
places to numbers is an injection: that is `FlowControl`. Counting over all
transfers in the same way shows that a queue with `Room` is not full when a
message arrives. `RoomInv` rests on that: no message on the way has a gap before
it (`NothingMissing`), so each block is written at its own offset. Every file is
then a blend of blocks in their place and of old ones, in which each transfer
that has the file open has copied what it has read (`FileOK`), and the empty
block finds all of it copied. The same invariant says which file a descriptor is
open on: the one at the path, unless an UP came after the transfer's own.
Without room it fails (`MCFileOverflow.cfg`). `AskInv` says what the messages on
the way ask of the two ends, in particular that a block finds its file open.
`ProgressInv` adds that a receiver that has ended has closed a file and owes no
reply (`EndsWell`); and that, as long as no session is lost (`Session`), the
request of a transfer the receiver does not know is on the way (`Requested`).
From a state in which such a request meets a receiver that is joined, `GoesOn`
is kept by every step: each message that is taken leads to the next one, and no
reply is dropped. The theorem is therefore of the form "always, if so, then
from there on always".

**Row locks.** `NoSleepingCycle` counts nothing. `Watched` says that in every set
of waiting transactions that wait for one another only, one is still walking
inside the set in `checkCycleLock`; a walk inside such a set cannot leave it, so
it goes on or reports a deadlock, and never ends in a sleep. For exclusion
`LineAgrees` relates a row's `StoryLock` with what was granted: a shared row
counts its readers and belongs to one of them, a row that is not shared carries
its writer's present sequence number. `SetAgrees` does the same for
`m_readLockSet`, where `reassign` removes what is left; with two readers the one
who leaves can only hand the row to the other.

**Durable commits.** `RingInv` says that `deep.trt` is a ring in the order of the
identifiers as long as they come from one thread, so that the one it overwrites
is the least, and recovery takes what is below its least identifier for
complete. `AcknowledgedSurvive` is about two runs of the program. Until the
crash (`FirstRun`) every entry in a log is complete or its commit is open
(`LogDone`), every synchronised entry is complete by the synchronised `deep.trt`
(`SafeDone`), and what has returned is synchronised (`AckedKept`). The step that
matters is the last `perform` of a group: `s_syncCount` counts the threads
between `plan` and `perform`, so at that moment no commit is open. A crash of
the machine may leave any mixture of old and new slots; with one thread they
differ in one slot, with several no slot is used twice (`ManyTrt`). After the
crash (`SecondRun`) recovery meets nothing incomplete before such an entry.
The condition is needed: a second crash may find the new `deep.trt` still empty
(`MCAtomicRestart.cfg`), and with several threads a wrap may overwrite an
identifier that is not the least (`MCAtomicRing.cfg`).
For `AllOrNothingHolds` any number of crashes is allowed. `EntryInv` relates
entries with commits; `WriteInv` says that while identifiers are written an entry
of several tables is complete, open, or older than the file, in which case
recovery drops all of them; `CutClean` that in a log nothing complete comes after
something incomplete, so that cutting a log at the first incomplete entry loses
no complete one; `Whole` that a complete entry has its counterparts in the other
tables, also while some of them are recovered and others are not yet.
`GroupInv` needs no condition and survives every crash: what is not in
`s_syncFiles` is synchronised (`SyncedInv`), so the last `perform` of a group
leaves nothing out (`DurableOnReturn`), and since `s_syncCount` is the number of
commits between `plan` and `perform`, one that finds it above 1 leaves somebody
behind who will wake it (`WakerExists`).

Only model-checked: the liveness properties themselves (`WriterGetsLock` of both
locks, `ReaderGetsLock`, `RequestAnswered`, `RejoinsWhenIdle`,
`AcceptedIsDelivered`, `GossipStops`, `PeersLearn`, `TransferCompletes`,
`CommitReturns`); fairness and ENABLED are beyond the prover. Except for
`GossipStops`, what they ask of every state is proved: that nobody waits for
something that is not there. For `AcceptedIsDelivered` these are
`ConsumerIsWoken` and `OneProducerKeepsMessages`, for the others the theorems
the table lists as safety behind them. That gossip stops is a matter of counting
the changes that are still to be made, and stays with TLC. The inductive
invariants were checked by TLC on small instances before they were
proved.

## 5. Where code and documentation disagree

1. **`UserSpaceReadWriteLock` with `tryWriteLock` and `writeLock` mixed**
   (`us_lock_mixed`). `writeUnlock` waits for readers inside `readUnlock` only in
   WRITE_WAIT mode. A reader paused between counting itself out and reading
   `m_writeRequested` survives a whole `tryWriteLock`/`writeUnlock`, then sees the
   WRITE_WAIT of a later `writeLock` and sets `m_writer` while another reader is
   between "m_writer is false" and `dec(&m_readersWaiting)`. The writer reads
   equal counts and enters beside it. The engine mixes the two operations on
   `m_checkptRequestLock` (`RealTimeMap.cxx:1920`). With only one of the two
   kinds of writers the lock is correct (`us_lock_safety`).
2. **Reading a row on stale credentials** (`row_lock_stale`). `LOCK_READ` of a
   row that carries the reader's own identifier is granted at
   `RealTimeMap.cxx:6952` whatever sequence number it carries, and the number is
   not renewed. A transaction that only locked the row leaves its identifier
   there; the next transaction of the same object "acquires" it, and another
   transaction finds the old sequence number, releases the row and writes it
   beside the reader.

The following are reproduced by the configurations of section 3 that are run by
hand:

3. **A full FABRIC_TO_CASSI queue** (`MCLinkOverload.cfg`). `processShimReq`
   returns without a reply, and the REP socket, which serves every client, is
   stuck; the comment at `RealtimeFabric.cxx:1336` speaks of negative ACKs.
4. **A connection lost with a request in flight** (`MCLinkRejoinLost.cfg`).
   `disconnected` leaves `m_bREQInProgress` set, so the JOIN_REQ of `rejoinReq`
   waits for ever. A peer lost while idle does join again (`link_live`).
5. **Two producers on one ring** (`MCQueueTwoProducers.cfg`). `addPeerCmd` runs on
   the API consumer thread and enqueues on the ring of the CASSI thread; `q` is a
   single-producer queue and an accepted message is overwritten.
6. **Sequence numbers after a restart** (`MCTopoEqual.cfg`). A restarted fabric
   counts from the start while its peers hold its old entry, so that one
   sequence number stands for two lists of peers, against "if equal we can
   assume no change".
7. **Three readers of a row** (`MCRowLockShared.cfg`). `reassign` empties
   `m_readLockSet` only after its loop, so a transaction that has already left a
   row can be made its owner by another one that leaves. Its next transaction is
   then taken for the sole reader and is granted the row for writing beside the
   third reader.
8. **Cross-table commits that overlap** (`MCAtomicOverlap.cfg`). Recovery takes an
   identifier below the least one in `deep.trt` for an old, completed commit. A
   commit that was logged in one table when a later one completed and the
   process died is below that minimum, and is replayed in the one table. When
   the machine dies a commit can be torn without overlap, as nothing orders
   the writing of the logs before that of `deep.trt`.
9. **A second crash** (`MCAtomicRestart.cfg`). The first cross-table commit after
   a start begins a new `deep.trt`. A crash before its identifier is written
   leaves an empty file, whose minimum is 0: every cross-table commit that is
   still in the logs, acknowledged ones included, is taken for incomplete.
10. **The ring of identifiers** (`MCAtomicRing.cfg`). Commits write their
    identifiers when they finish, not in the order of the identifiers. When
    `deep.trt` wraps, an identifier above the minimum may be overwritten, against
    the comment at `RealTimeAtomic.h:88`, "in ascending order", and recovery takes
    a completed commit for an incomplete one.
11. **Two transfers and the size of the queue** (`MCFileOverflow.cfg`). A bundle
    is 10000 messages and the queue holds 16384. After a reconnect two transfers
    may each have a bundle on the way; blocks in the middle of a bundle are
    dropped, its last message is not, and "File RX Complete" is logged for a file
    that misses blocks.
12. **A second UP on one host** (`MCFileUnlinked.cfg`). `remove(cDst)` takes the
    name from the file that the first transfer is still writing. That transfer
    ends with "File RX Complete" while the path names nothing, or the part that
    the second transfer has written; where the receiver's process ends with the
    first file (`g_iInstances`) or the second transfer stalls, it stays so.
13. **A longer file at the destination** (`MCFileOldTail.cfg`). On another host
    nothing removes the destination, and the open at `FileReplication.cxx:636`
    does not empty it: the blocks are written over the beginning and the tail of
    the old file stays.
14. **A reply before the receiver's JOIN** (`MCFileUnheard.cfg`). The sender's
    JOIN may be answered first. Its FILE_TX_REQ then meets a receiver whose
    `m_pcOutBoundPeers` does not have the sender, FILE_TX_REP is dropped with a
    warning (`RealtimeFabric.cxx:1237`), and nothing sends it again: the
    transfer never begins although no session is lost.

Seen while modelling, without a run:

* `WriterGetsLock` of `UserSpaceReadWriteLock` does not hold beside
  `tryReadLock`: each of its callers is counted in `m_readers` for a moment, and
  an unlucky writer may look at just these moments.
* A message that the consumer takes between `q_enq` and the producer's write to
  the eventfd leaves the eventfd readable with an empty ring; `epoll_wait` then
  returns at once until the next message.
* `processJSON` takes over a newer or an unknown entry without setting
  `bChangeApplied`, whose comment says "return true if we applied any change".
  `GossipStops` and `PeersLearn` hold nevertheless.
* The branch of `processBundleCommand` that packs small messages is never
  taken: `MIN_MESSAGE_SIZE` (10) is below `HEADER_SIZE` (16).
* `setFlags` ORs into the flags, its comment says "Overwrites previous flags".
* `addPeerCmd` returns 0 when the queue is full.
* With `DurableSyncInterval` other than 0 `commit` plans a synchronisation and
  does not perform it, so `s_syncCount` never returns to zero.
* The comment at `FileReplication.cxx:258` speaks of a sha1sum; none is sent.

## 6. Not modelled

* JSON parsing and rendering, wire layout, logging, statistics, command lines:
  formatting. The flags of the wire format that decide about control are in the
  models.
* `poll`'s construction of its poll set, native sockets other than the eventfd,
  overload notifications, ownership of buffers.
* ZeroMQ and json-c, except as the environment described above.
* The storage layout of the engine, its segments, index files and checkpoints:
  their state is out of TLC's reach. MVCC viewpoints: `RowLock` has the locks of
  rows and not their versions.
* In `RowLock`: inserts of new rows, savepoint levels, an identifier that is used
  again while the destructor of its last owner still waits.
* In `AtomicCommit`: the layout of entries and value files, streamed and large
  transactions, the offset from which a checkpoint lets recovery start,
  transactions over several databases (which the code commits without
  `deep.trt`).
* In `FileReplication`: the `DEEP_DELUGE_REPLICATE_FILE` build, malformed
  messages, failures of `open` and `stat`.
* The parts marked `not_modelled` in `PROJECT.json`.

The definitions are mapped to a small share of the repository's lines. Most of
these are vendored (ZeroMQ, protobuf, gtest, json-c) or tests; most of the
engine's are templates of one storage layout in several versions. The models
cover the code in which threads, fabrics or crashes interleave.

## 7. Plan

Modelled first, because everything else rests on it: locks, queue, link,
topology; then file replication, row locks and durable commits. Next, in this
order:

1. `FabricBridge`: `FabricCassiMessageQueue` as a whole, composing two
   `MsgQueue`s at the level of `MsgFifo` with registration, dispatch by message
   id, `signalPeerChange`, the API consumer and shutdown; the abstract
   specification is "every API request is answered once".
2. Viewpoints: versions of rows on top of `RowLock`, and what a snapshot sees of
   a commit.
3. `Checkpoint`: commits, the checkpoint thread and recovery around
   `m_checkptRequestLock`, with the lock as an abstract reader/writer lock that
   `UserSpaceReadWriteLock` is to implement.
