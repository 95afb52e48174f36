--------------------------- MODULE FileReplication ---------------------------
(***************************************************************************)
(* The FileReplication bridge: a fabric sends a file to a peer whenever the *)
(* peer comes UP.  FILE_TX_REQ and FILE_TX_REP open the transfer; then      *)
(* bundles of FILE_BLOCK_REQ go one way and a FILE_BLOCK_REP asks for the   *)
(* next bundle.  An empty block ends the file.  The bundles pass the        *)
(* receiver's FABRIC_TO_CASSI queue, which drops what it cannot hold.       *)
(*                                                                          *)
(* Transfers are numbered by the UPs that start them (their UUID).  All of  *)
(* them open the same destination path, each with a descriptor of its own,  *)
(* without emptying what is there.  Where both fabrics run on one host the  *)
(* sender's UP has removed it.  The link is what FabricLink establishes:    *)
(* whole bundles in order, one at a time, lost with their session; a bundle *)
(* whose last message was dropped is never answered, and no other follows   *)
(* it.  Either fabric drops what it sends before its own JOIN is answered.  *)
(***************************************************************************)
EXTENDS Integers, Sequences, FiniteSets, SequencesExt

CONSTANTS FILE_BUNDLE_SIZE,
          Uses,      \* sizes of the file, of one that was at the destination
                     \* before, and of the queue; UPs; both fabrics on one host
          MaxDrops   \* bound: sessions lost

ASSUME BundleAssumption == FILE_BUNDLE_SIZE \in Nat /\ FILE_BUNDLE_SIZE > 1
ASSUME UsesAssumption ==
    Uses \subseteq [blocks : Nat, old : Nat, queueSize : Nat, ups : Nat, shared : BOOLEAN]
ASSUME DropsAssumption == MaxDrops \in Nat

VARIABLES use,       \* fixed
          up,        \* transfers started
          connected, \* the receiver is in the sender's m_pcOutBoundPeers
          joined,    \* the sender is in the receiver's
          drops,
          tx,        \* m_cTxBlock of the sender
          out,       \* sent by its CASSI thread, not yet at the receiver
          arriving,  \* the bundle the receiver's REP socket is reading
          owes,      \* the REP socket never sent its reply
          queue,     \* FABRIC_TO_CASSI of the receiver
          rx,        \* m_cRxBlock of the receiver
          inode,     \* the files its descriptors were opened on
          file,      \* what the files hold that were ever at the destination
          instances, \* its g_iInstances
          receiver,  \* its process
          back       \* on the way to the sender's CASSI thread
vars == <<use, up, connected, joined, drops, tx, out, arriving, owes, queue, rx,
          inode, file, instances, receiver, back>>

sender == <<up, connected, tx>>
receiving == <<joined, rx, inode, file, instances, receiver>>

Transfers == 1..use.ups

\* The file at the destination path: the old one, number 0, or on one host the
\* one that is made once the last UP has removed what was there.
Path == IF use.shared THEN up ELSE 0

\* The length of file k before anything is written into it.
Old(k) == IF k = 0 THEN use.old ELSE 0

Init ==
    /\ use \in Uses
    /\ up = 0 /\ connected = FALSE /\ joined = FALSE /\ drops = 0
    /\ tx = [x \in Transfers |-> [fd |-> "none", next |-> 1]]
    /\ out = <<>> /\ arriving = <<>> /\ owes = FALSE /\ queue = <<>>
    /\ rx = [x \in Transfers |-> [fd |-> "absent", at |-> 0]]
    /\ inode = [x \in Transfers |-> 0]
    /\ file = [k \in 0..use.ups |-> [i \in 1..Old(k) |-> 0]]
    /\ instances = 0 /\ receiver = "running"
    /\ back = <<>>

One(id, x) == [id |-> id, x |-> x, block |-> 0, first |-> TRUE, last |-> TRUE]

\* FabricCassiBridgeCb::send: a bundle reaches the fabric as one item, which
\* drops it when the peer is not UP.
Sent(bundle) == IF connected THEN Append(out, bundle) ELSE out

\* The same at the receiver, for its replies.
Replied(m) == IF joined THEN Append(back, m) ELSE back

-----------------------------------------------------------------------------
(* The sender's CASSI thread *)

\* peerStateChanged(UP) removes the destination where it is on the sender's host
\* (Path), and requestFileReplication.
peerStateChanged ==
    /\ ~connected /\ up < use.ups
    /\ connected' = TRUE
    /\ up' = up + 1
    /\ out' = Append(out, <<One("FILE_TX_REQ", up + 1)>>)
    /\ UNCHANGED <<use, drops, tx, arriving, owes, queue, receiving, back>>

\* The messages of a bundle from block n on: FILE_BUNDLE_SIZE blocks, or those
\* that are left and the empty one.
Bundle(x, n) ==
    LET left == use.blocks + 1 - n
        size == IF left < FILE_BUNDLE_SIZE THEN left + 1 ELSE FILE_BUNDLE_SIZE
    IN  [i \in 1..size |->
            [id |-> "FILE_BLOCK_REQ", x |-> x,
             block |-> IF n + i - 1 > use.blocks THEN 0 ELSE n + i - 1,
             first |-> i = 1, last |-> i = size]]

\* renderFileBlockBundle, with the file open at block n.
renderFileBlockBundle(x, n) ==
    LET bundle == Bundle(x, n)
        eof == Last(bundle).block = 0
    IN  /\ out' = Sent(bundle)
        /\ tx' = [tx EXCEPT ![x] = [fd |-> IF eof THEN "closed" ELSE "open",
                                    next |-> n + FILE_BUNDLE_SIZE]]

\* processFileTxRep opens the file and sends the first bundle.
processFileTxRep ==
    /\ back # <<>> /\ Head(back).id = "FILE_TX_REP"
    /\ renderFileBlockBundle(Head(back).x, 1)
    /\ back' = Tail(back)
    /\ UNCHANGED <<use, up, connected, drops, arriving, owes, queue, receiving>>

\* processFileBlockRep sends the next bundle unless the file is closed.
processFileBlockRep ==
    /\ back # <<>> /\ Head(back).id = "FILE_BLOCK_REP"
    /\ LET x == Head(back).x
       IN  IF tx[x].fd = "closed"
           THEN UNCHANGED <<out, tx>>
           ELSE renderFileBlockBundle(x, tx[x].next)
    /\ back' = Tail(back)
    /\ UNCHANGED <<use, up, connected, drops, arriving, owes, queue, receiving>>

-----------------------------------------------------------------------------
(* The link, and the fabric thread of the receiver *)

\* A session ends, of the sender or of the receiver: what was sent in it and has
\* not arrived is lost, and disconnect takes the peer out of m_pcOutBoundPeers.
Disconnect ==
    /\ drops < MaxDrops
    /\ drops' = drops + 1
    /\ \/ connected /\ connected' = FALSE /\ out' = <<>> /\ UNCHANGED <<joined, back>>
       \/ joined /\ joined' = FALSE /\ back' = <<>> /\ UNCHANGED <<connected, out>>
    /\ UNCHANGED <<use, up, tx, arriving, owes, queue, rx, inode, file, instances, receiver>>

\* The sender answers the receiver's own JOIN, at any time before or after its UP.
processJoinRep ==
    /\ receiver = "running" /\ ~joined
    /\ joined' = TRUE
    /\ UNCHANGED <<use, sender, drops, out, arriving, owes, queue, rx, inode, file,
                   instances, receiver, back>>

RepRecv ==
    /\ receiver = "running" /\ arriving = <<>> /\ ~owes /\ out # <<>>
    /\ arriving' = Head(out) /\ out' = Tail(out)
    /\ UNCHANGED <<use, sender, drops, owes, queue, receiving, back>>

\* Mutant: the queue is not tested.
processShimReqUnbounded ==
    /\ receiver = "running" /\ arriving # <<>>
    /\ arriving' = Tail(arriving)
    /\ queue' = Append(queue, Head(arriving))
    /\ UNCHANGED <<use, sender, drops, out, owes, receiving, back>>

\* processShimReq: a message that finds the queue full is dropped; the reply to
\* the bundle goes out with its last message, unless that one is dropped.
processShimReq ==
    /\ receiver = "running" /\ arriving # <<>>
    /\ arriving' = Tail(arriving)
    /\ IF Len(queue) < use.queueSize
       THEN queue' = Append(queue, Head(arriving)) /\ owes' = owes
       ELSE queue' = queue /\ owes' = Head(arriving).last
    /\ UNCHANGED <<use, sender, drops, out, receiving, back>>

-----------------------------------------------------------------------------
(* The receiver's CASSI thread *)

Message(id) == receiver = "running" /\ queue # <<>> /\ Head(queue).id = id

processFileTxReq ==
    /\ Message("FILE_TX_REQ")
    /\ rx' = [rx EXCEPT ![Head(queue).x].fd = "none"]
    /\ back' = Replied(One("FILE_TX_REP", Head(queue).x))
    /\ queue' = Tail(queue)
    /\ UNCHANGED <<use, sender, joined, drops, out, arriving, owes, inode, file, instances,
                   receiver>>

\* Mutant: the file is opened to append.
WrittenAppended(f, at, b) == Append(f, b)

\* Writing block b into a file at an offset.
Written(f, at, b) == IF at < Len(f) THEN [f EXCEPT ![at + 1] = b] ELSE Append(f, b)

\* Mutant: the first message of a bundle asks for the next one.
AsksForMoreFirst(m) == m.first /\ ~m.last

\* Mutant: no message does.
AsksForMoreNever(m) == FALSE

\* The last message of a bundle asks for the next one.
AsksForMore(m) == m.last /\ ~m.first

\* The transfer is known: its blocks are sent after its FILE_TX_REP.  The first
\* message of all opens the file (O_CREAT without O_TRUNC), the empty one closes it,
\* and the last file that is closed ends the process.  A write without an open file
\* aborts it.
processFileBlockReq ==
    LET m == Head(queue)
        opens == m.first /\ rx[m.x].fd = "none"
        fd == IF opens THEN "open" ELSE rx[m.x].fd
        k == IF opens THEN Path ELSE inode[m.x]
        left == instances + (IF opens THEN 1 ELSE 0) - (IF m.block = 0 THEN 1 ELSE 0)
    IN  /\ Message("FILE_BLOCK_REQ")
        /\ back' = IF AsksForMore(m) THEN Replied(One("FILE_BLOCK_REP", m.x)) ELSE back
        /\ inode' = [inode EXCEPT ![m.x] = k]
        /\ instances' = left
        /\ \/ /\ m.block = 0
              /\ rx' = [rx EXCEPT ![m.x].fd = "closed"]
              /\ receiver' = IF left <= 0 THEN "exited" ELSE receiver
              /\ file' = file
           \/ /\ m.block # 0 /\ fd = "open"
              /\ rx' = [rx EXCEPT ![m.x] = [fd |-> fd, at |-> @.at + 1]]
              /\ file' = [file EXCEPT ![k] = Written(@, rx[m.x].at, m.block)]
              /\ receiver' = receiver
           \/ /\ m.block # 0 /\ fd # "open"
              /\ receiver' = "aborted"
              /\ UNCHANGED <<rx, file>>
        /\ queue' = Tail(queue)
        /\ UNCHANGED <<use, sender, joined, drops, out, arriving, owes>>

-----------------------------------------------------------------------------
Step ==
    \/ peerStateChanged \/ processFileTxRep \/ processFileBlockRep
    \/ RepRecv \/ processShimReq \/ processJoinRep
    \/ processFileTxReq \/ processFileBlockReq

Next == Step \/ Disconnect

Spec == Init /\ [][Next]_vars

\* The threads of both fabrics and the link keep running, and answer a JOIN in the
\* end; nothing has to fail.
FairSpec ==
    /\ Spec
    /\ WF_vars(peerStateChanged) /\ WF_vars(processFileTxRep) /\ WF_vars(processFileBlockRep)
    /\ WF_vars(RepRecv) /\ WF_vars(processShimReq) /\ WF_vars(processJoinRep)
    /\ WF_vars(processFileTxReq) /\ WF_vars(processFileBlockReq)

-----------------------------------------------------------------------------
(* Properties *)

Messages ==
    [id : {"FILE_TX_REQ", "FILE_TX_REP", "FILE_BLOCK_REQ", "FILE_BLOCK_REP"},
     x : Transfers, block : 0..use.blocks, first : BOOLEAN, last : BOOLEAN]

\* Types: the receiver's queue stays within its size, and what it writes are blocks
\* of the file that is sent.
TypeOK ==
    /\ up \in 0..use.ups /\ connected \in BOOLEAN /\ joined \in BOOLEAN /\ owes \in BOOLEAN
    /\ tx \in [Transfers -> [fd : {"none", "open", "closed"}, next : Nat]]
    /\ out \in Seq(Seq(Messages)) /\ arriving \in Seq(Messages) /\ back \in Seq(Messages)
    /\ queue \in Seq(Messages) /\ Len(queue) <= use.queueSize
    /\ rx \in [Transfers -> [fd : {"absent", "none", "open", "closed"}, at : 0..use.blocks]]
    /\ inode \in [Transfers -> 0..use.ups] /\ file \in [0..use.ups -> Seq(0..use.blocks)]
    /\ instances \in Int /\ receiver \in {"running", "exited", "aborted"}

\* Where the blocks of a transfer are, from the receiver's queue back to the
\* sender, and its requests for the next bundle.
Line == <<queue, arriving>> \o out
Blocks(x) ==
    {p \in UNION {{k} \X DOMAIN Line[k] : k \in DOMAIN Line} :
        LET m == Line[p[1]][p[2]] IN m.id = "FILE_BLOCK_REQ" /\ m.x = x}
Requests(x) == {i \in DOMAIN back : back[i].x = x}

\* Whatever is dropped or lost, a transfer has at most one bundle on the way, and
\* none while the request for the next one is: this is all that bounds what the
\* receiver must hold, for the sender does not look at the receiver's queue.
FlowControl ==
    \A x \in Transfers :
        /\ Cardinality(Blocks(x)) <= FILE_BUNDLE_SIZE /\ Cardinality(Requests(x)) <= 1
        /\ Blocks(x) = {} \/ Requests(x) = {}

\* A closed file is the one that was sent, and is what the path names.
WholeFile ==
    (\E x \in Transfers : rx[x].fd = "closed") => file[Path] = [i \in 1..use.blocks |-> i]

\* A queue that holds one bundle of every transfer: 16384 messages and bundles of
\* 10000 leave room for one.
Room == use.queueSize >= use.ups * FILE_BUNDLE_SIZE

\* File k with all blocks written, where a longer old file keeps its tail.
Complete(k) ==
    [i \in 1..(IF Old(k) > use.blocks THEN Old(k) ELSE use.blocks) |->
        IF i <= use.blocks THEN i ELSE 0]

\* "File RX Complete" is true of the blocks: with room for a bundle of each transfer,
\* every block is in its place when the receiver closes the file, although another
\* transfer, begun after a disconnect, writes it at the same time; and what was closed
\* is at the path, unless a later UP on the same host has removed it.  A longer file
\* that was there before keeps its tail, for nothing empties it on another host.
ClosedFileIsWhole ==
    Room => \A x \in Transfers :
        rx[x].fd = "closed" =>
            /\ file[inode[x]] = Complete(inode[x])
            /\ inode[x] = Path \/ (use.shared /\ x < up)

\* A transfer whose request finds the receiver joined to the sender completes when no
\* session is lost: each bundle leads to the request for the next one, up to the empty
\* block, also when the file ends with a bundle.
TransferCompletes ==
    (up > 0 /\ Room /\ joined /\ rx[1].fd = "absent") ~> (drops > 0 \/ rx[1].fd = "closed")

\* The same without the condition: a receiver that is not joined yet drops its reply.
AnyTransferCompletes == (up > 0 /\ Room) ~> (drops > 0 \/ rx[1].fd = "closed")
=============================================================================
