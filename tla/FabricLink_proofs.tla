-------------------------- MODULE FabricLink_proofs --------------------------
(***************************************************************************)
(* The request/reply channel, for any number of clients, any bundle sizes, *)
(* any number of lost connections and re-created sockets.                  *)
(*                                                                         *)
(* MessageManager keeps the strict alternation of ZeroMQ's REQ sockets     *)
(* (NoEFSM) and has no pending messages while it believes the socket free  *)
(* (PendingOnlyInProgress).  Neither is inductive: what carries them is    *)
(* that MessageManager's flag and ZeroMQ's own state machine always agree  *)
(* (InStep), m_bREQInProgress being set exactly while the REQ socket is in *)
(* its receive state.                                                      *)
(*                                                                         *)
(* Bundles wait, travel and arrive whole (WholeBundles), one request of a  *)
(* socket is under way at a time (OneOutstanding), and CASSI gets every    *)
(* client's messages in the order they were sent (BundlesContiguous).      *)
(* These rest on what every message queue holds on the way from the        *)
(* callback that sends a bundle to the CASSI queue of the server.          *)
(*                                                                         *)
(* A request is not lost while its session holds (RequestNotLost), and a   *)
(* fabric that has not joined has its JOIN_REQ or the answer to it on the  *)
(* way, unless the answer was lost with a session (JoinIsPending).  What   *)
(* is inductive (AliveInv) says where the one request, or its answer, is.  *)
(***************************************************************************)
EXTENDS FabricLink, SequenceTheorems, WellFoundedInduction, TLAPS, FiniteSetTheorems

\* MessageManager's flag and the REQ socket's state agree.
InStep == \A c \in Clients : m_bREQInProgress[c] <=> zreq[c] = "recv"

\* Every undelivered DISCONNECTED event stems from a lost connection.
MonitorBound == \A c \in Clients : monitor[c] <= drops[c]

\* The inductive invariant, by the part of the state it is about: the fabric
\* that calls, the socket, the network, the server.
FabricType ==
    /\ open \in [Clients -> BOOLEAN] /\ joined \in [Clients -> BOOLEAN]
    /\ task \in [Clients -> Seq(Msg)]
    /\ made \in [Clients -> 0..MaxMsgs]
    /\ changes \in [Clients -> 0..MaxTopo]
    /\ opens \in 0..MaxOpens
    /\ m_iBundle \in [Clients -> {"FIRST", "MIDDLE"}]

SocketType ==
    /\ m_bREQInProgress \in [Clients -> BOOLEAN]
    /\ m_cQueue \in [Clients -> Seq(Msg)]
    /\ m_pcSendBlk \in [Clients -> Seq(Msg)]
    /\ efsm \in [Clients -> BOOLEAN]
    /\ zreq \in [Clients -> {"send", "recv"}]
    /\ pipe \in [Clients -> Seq(Msg)]

SocketInv == SocketType /\ InStep /\ NoEFSM /\ PendingOnlyInProgress

NetType ==
    /\ up \in [Clients -> BOOLEAN]
    /\ monitor \in [Clients -> Nat]
    /\ drops \in [Clients -> 0..MaxDrops]
    /\ reply \in [Clients -> Seq(Kinds)]

NetInv == NetType /\ MonitorBound

ServerInv ==
    /\ repIn \in [Clients -> Seq(Request)]
    /\ repCur \in RepStates
    /\ repCur.state = "parts" => repCur.parts # <<>>
    /\ m_cFabricToCassi \in Seq(Msg) /\ Len(m_cFabricToCassi) <= QueueCap

Inv == FabricType /\ SocketInv /\ NetInv /\ ServerInv

-----------------------------------------------------------------------------
(* Messages and sequences of messages *)

\* The fabric's own requests are messages.
LEMMA RequestType ==
    ASSUME NEW c \in Clients
    PROVE  JoinReq(c) \in Msg /\ TopoReq(c) \in Msg /\ QueuedTopoReq(c) \in Msg
PROOF
  BY DEF JoinReq, TopoReq, QueuedTopoReq, Message, Msg, Kinds

\* A function on an initial segment of the numbers is a sequence.
LEMMA SeqOfFunction ==
    ASSUME NEW S, NEW n \in Nat, NEW f \in [1..n -> S]
    PROVE  f \in Seq(S)
PROOF
  OBVIOUS

\* The messages of an application bundle are messages.
LEMMA BundleType ==
    ASSUME NEW c \in Clients, NEW n \in Nat, NEW k \in Nat
    PROVE  Bundle(c, n, k) \in Seq(Msg)
PROOF
<1>1. \A i \in 1..k : Message(c, "SHIM_REQ", n + i, i = k) \in Msg
  BY DEF Message, Msg, Kinds
<1>2. Bundle(c, n, k) \in [1..k -> Msg]
  BY <1>1 DEF Bundle
<1> QED
  BY <1>2, SeqOfFunction

\* unblockREQ moves the pending messages up to the first that ends a bundle.
LEMMA BundleLengthWorks ==
    ASSUME NEW q \in Seq(Msg), q # <<>>
    PROVE  /\ BundleLength(q) \in 1..Len(q)
           /\ BundleLength(q) = Len(q) \/ q[BundleLength(q)].last
           /\ \A i \in 1..(BundleLength(q) - 1) : ~q[i].last
PROOF
<1> DEFINE P(n) == n = Len(q) \/ q[n].last
           T == {n \in 1..Len(q) : P(n)}
<1>1. Len(q) \in Nat \ {0}
  BY EmptySeq
<1>2. T \subseteq Nat /\ T # {}
  BY <1>1
<1>3. \E x \in T : \A y \in T : ~(<<y, x>> \in OpToRel(<, Nat))
  BY <1>2, NatLessThanWellFounded, WFMin
<1>4. PICK x \in T : \A y \in T : ~(<<y, x>> \in OpToRel(<, Nat))
  BY <1>3
<1>5. \A y \in T : ~(y < x)
  BY <1>2, <1>4 DEF OpToRel
<1>6. \A i \in 1..(x - 1) : ~q[i].last
  BY <1>1, <1>5
<1>7. \E n \in 1..Len(q) :
        /\ n = Len(q) \/ q[n].last
        /\ \A i \in 1..(n - 1) : ~q[i].last
  BY <1>6
<1> QED
  BY <1>7 DEF BundleLength

\* Marking the requests of a sequence as orphans leaves a sequence of requests.
LEMMA OrphanType ==
    ASSUME NEW s \in Seq(Request)
    PROVE  [i \in DOMAIN s |-> [s[i] EXCEPT !.alive = FALSE]] \in Seq(Request)
PROOF
<1>1. DOMAIN s = 1..Len(s) /\ Len(s) \in Nat /\ s \in [1..Len(s) -> Request]
  BY LenProperties
<1>2. \A i \in 1..Len(s) : [s[i] EXCEPT !.alive = FALSE] \in Request
  BY <1>1 DEF Request
<1> QED
  BY <1>1, <1>2, SeqOfFunction

-----------------------------------------------------------------------------
(* MessageManager's part of a step *)

\* LinkManager::send to a socket that may send succeeds.
LEMMA LinkSendWorks ==
    ASSUME SocketType, NEW c \in Clients, NEW parts \in Seq(Msg),
           LinkSend(c, "send", parts)
    PROVE  /\ zreq' = [zreq EXCEPT ![c] = "recv"]
           /\ efsm' = efsm
           /\ pipe' \in [Clients -> Seq(Msg)]
           /\ m_pcSendBlk' \in [Clients -> Seq(Msg)]
PROOF
<1>1. /\ zreq' = [zreq EXCEPT ![c] = "recv"]
      /\ pipe' = [pipe EXCEPT ![c] = parts]
      /\ m_pcSendBlk' = [m_pcSendBlk EXCEPT ![c] = <<>>]
      /\ UNCHANGED efsm
  BY DEF LinkSend
<1>2. <<>> \in Seq(Msg)
  BY EmptySeq
<1> QED
  BY <1>1, <1>2 DEF SocketType

\* readEvent leaves the socket consistent, whether a pending bundle goes out or
\* none is left.
LEMMA FinishReplyKeeps ==
    ASSUME SocketInv, NEW c \in Clients, NEW sends \in Seq(Msg), FinishReply(c, sends)
    PROVE  SocketInv'
PROOF
<1> DEFINE q == m_cQueue[c] \o sends
<1>0. m_cQueue[c] \in Seq(Msg) /\ q \in Seq(Msg)
  BY ConcatProperties DEF SocketInv, SocketType
<1>1. CASE q # <<>>
  <2> DEFINE n == BundleLength(q)
  <2>1. n \in 1..Len(q) /\ Len(q) \in Nat
    BY <1>0, <1>1, BundleLengthWorks, LenProperties
  <2>2. /\ SubSeq(q, 1, n) \in Seq(Msg)
        /\ SubSeq(q, n + 1, Len(q)) \in Seq(Msg)
    <3>1. \A i \in 1..Len(q) : q[i] \in Msg
      BY <1>0, ElementOfSeq
    <3> HIDE DEF q, n
    <3>2. \A i \in 1..n : q[i] \in Msg
      BY <2>1, <3>1
    <3>3. \A i \in (n + 1)..Len(q) : q[i] \in Msg
      BY <2>1, <3>1
    <3>4. SubSeq(q, 1, n) \in Seq(Msg)
      BY <2>1, <3>2, SubSeqProperties
    <3>5. SubSeq(q, n + 1, Len(q)) \in Seq(Msg)
      BY <2>1, <3>3, SubSeqProperties
    <3> QED
      BY <3>4, <3>5
  <2>3. m_pcSendBlk[c] \o SubSeq(q, 1, n) \in Seq(Msg)
    BY <2>2, ConcatProperties DEF SocketInv, SocketType
  <2>4. /\ LinkSend(c, "send", m_pcSendBlk[c] \o SubSeq(q, 1, n))
        /\ m_cQueue' = [m_cQueue EXCEPT ![c] = SubSeq(q, n + 1, Len(q))]
        /\ m_bREQInProgress' = [m_bREQInProgress EXCEPT ![c] = TRUE]
    BY <1>1 DEF FinishReply, unblockREQ
  <2>5. /\ zreq' = [zreq EXCEPT ![c] = "recv"]
        /\ efsm' = efsm
        /\ pipe' \in [Clients -> Seq(Msg)]
        /\ m_pcSendBlk' \in [Clients -> Seq(Msg)]
    BY <2>3, <2>4, LinkSendWorks DEF SocketInv
  <2> HIDE DEF q, n
  <2>6. SocketType'
    BY <2>2, <2>4, <2>5 DEF SocketInv, SocketType
  <2> QED
    BY <2>4, <2>5, <2>6 DEF SocketInv, SocketType, InStep, NoEFSM, PendingOnlyInProgress
<1>2. CASE q = <<>>
  <2>1. m_cQueue[c] = <<>>
    BY <1>0, <1>2, ConcatEqualIffEmpty
  <2>2. /\ m_bREQInProgress' = [m_bREQInProgress EXCEPT ![c] = FALSE]
        /\ zreq' = [zreq EXCEPT ![c] = "send"]
        /\ UNCHANGED <<m_cQueue, m_pcSendBlk, efsm, pipe>>
    BY <1>2 DEF FinishReply
  <2> QED
    BY <2>1, <2>2 DEF SocketInv, SocketType, InStep, NoEFSM, PendingOnlyInProgress
<1> QED
  BY <1>1, <1>2

\* sendREQ offers the socket a message only while no request is in progress.
LEMMA SendREQKeeps ==
    ASSUME SocketInv, NEW c \in Clients, task \in [Clients -> Seq(Msg)], sendREQ(c)
    PROVE  SocketInv'
PROOF
<1> DEFINE m == Head(task[c])
           e == [m EXCEPT !.first = (m_iBundle[c] = "FIRST")]
<1>0. m \in Msg /\ e \in Msg
  <2>1. m \in Msg
    BY HeadTailProperties DEF sendREQ
  <2> QED
    BY <2>1 DEF Msg
<1>1. /\ Append(m_pcSendBlk[c], e) \in Seq(Msg)
      /\ Append(m_cQueue[c], e) \in Seq(Msg)
  BY <1>0, AppendProperties DEF SocketInv, SocketType
<1>2. CASE m_bREQInProgress[c]
  <2>1. /\ m_cQueue' = [m_cQueue EXCEPT ![c] = Append(@, e)]
        /\ UNCHANGED <<m_bREQInProgress, m_pcSendBlk, efsm, zreq, pipe>>
    BY <1>2 DEF sendREQ
  <2> HIDE DEF e
  <2> QED
    BY <1>1, <1>2, <2>1 DEF SocketInv, SocketType, InStep, NoEFSM, PendingOnlyInProgress
<1>3. CASE ~m_bREQInProgress[c] /\ m.last
  <2>1. /\ LinkSend(c, zreq[c], Append(m_pcSendBlk[c], e))
        /\ m_bREQInProgress' = [m_bREQInProgress EXCEPT ![c] = TRUE]
        /\ UNCHANGED m_cQueue
    BY <1>3 DEF sendREQ
  <2>2. zreq[c] = "send"
    BY <1>3 DEF SocketInv, SocketType, InStep
  <2>3. /\ zreq' = [zreq EXCEPT ![c] = "recv"]
        /\ efsm' = efsm
        /\ pipe' \in [Clients -> Seq(Msg)]
        /\ m_pcSendBlk' \in [Clients -> Seq(Msg)]
    BY <1>1, <2>1, <2>2, LinkSendWorks DEF SocketInv
  <2> QED
    BY <2>1, <2>3 DEF SocketInv, SocketType, InStep, NoEFSM, PendingOnlyInProgress
<1>4. CASE ~m_bREQInProgress[c] /\ ~m.last
  <2>1. /\ m_pcSendBlk' = [m_pcSendBlk EXCEPT ![c] = Append(@, e)]
        /\ UNCHANGED <<m_cQueue, m_bREQInProgress, efsm, zreq, pipe>>
    BY <1>4 DEF sendREQ
  <2> HIDE DEF e
  <2> QED
    BY <1>1, <2>1 DEF SocketInv, SocketType, InStep, NoEFSM, PendingOnlyInProgress
<1> QED
  BY <1>2, <1>3, <1>4

-----------------------------------------------------------------------------
(* The socket, step by step *)

\* A reply is read, whatever its callback sends: the socket stays consistent.
LEMMA ReadReplyKeeps ==
    ASSUME SocketInv, NEW c \in Clients, ReadReply(c)
    PROVE  SocketInv'
PROOF
<1>1. PICK sends \in {<<QueuedTopoReq(c)>>, <<>>} : FinishReply(c, sends)
  BY DEF ReadReply, processJoinRep, processTopoRep, processShimRep
<1>2. QueuedTopoReq(c) \in Msg
  BY RequestType
<1>3. sends \in Seq(Msg)
  <2>1. <<>> \in Seq(Msg)
    BY EmptySeq
  <2>2. <<QueuedTopoReq(c)>> \in Seq(Msg)
    BY <1>2
  <2> QED
    BY <2>1, <2>2
<1> QED
  BY <1>1, <1>3, FinishReplyKeeps

\* A closed socket leaves a fresh socketEvent.
LEMMA CloseKeeps ==
    ASSUME SocketInv, NEW c \in Clients, closeSocket(c)
    PROVE  SocketInv'
PROOF
<1>1. <<>> \in Seq(Msg)
  BY EmptySeq
<1> QED
  BY <1>1 DEF closeSocket, SocketInv, SocketType, InStep, NoEFSM, PendingOnlyInProgress

\* A disconnect empties the pending queue and leaves the flag as it is.
LEMMA DisconnectedKeeps ==
    ASSUME SocketInv, NEW c \in Clients, disconnected(c)
    PROVE  SocketInv'
PROOF
<1>1. <<>> \in Seq(Msg)
  BY EmptySeq
<1>2. /\ m_cQueue' = [m_cQueue EXCEPT ![c] = <<>>]
      /\ UNCHANGED <<m_bREQInProgress, m_pcSendBlk, efsm, zreq, pipe>>
  BY DEF disconnected, flushQ
<1> QED
  BY <1>1, <1>2 DEF SocketInv, SocketType, InStep, NoEFSM, PendingOnlyInProgress

\* The session takes the request out of the pipe.
LEMMA DeliverKeeps ==
    ASSUME SocketInv, NEW c \in Clients, Deliver(c)
    PROVE  SocketInv'
PROOF
<1>1. <<>> \in Seq(Msg)
  BY EmptySeq
<1>2. /\ pipe' = [pipe EXCEPT ![c] = <<>>]
      /\ UNCHANGED <<m_cQueue, m_bREQInProgress, m_pcSendBlk, efsm, zreq>>
  BY DEF Deliver, socket
<1> QED
  BY <1>1, <1>2 DEF SocketInv, SocketType, InStep, NoEFSM, PendingOnlyInProgress

\* Every step keeps the socket consistent.
LEMMA SocketStep ==
    ASSUME FabricType, SocketInv, [Next]_vars
    PROVE  SocketInv'
PROOF
<1> DEFINE Same == UNCHANGED <<m_bREQInProgress, m_cQueue, m_pcSendBlk, efsm, zreq, pipe>>
<1>0. Same => SocketInv'
  BY DEF SocketInv, SocketType, InStep, NoEFSM, PendingOnlyInProgress
<1>1. ASSUME NEW c \in Clients, addPeer(c) PROVE Same
  BY <1>1 DEF addPeer, socket, zmq
<1>2. ASSUME NEW c \in Clients, delPeer(c) PROVE SocketInv'
  BY <1>2, CloseKeeps DEF delPeer
<1>3. ASSUME NEW c \in Clients, SendBundle(c) PROVE Same
  BY <1>3 DEF SendBundle, socket, zmq
<1>4. ASSUME NEW c \in Clients, sendREQ(c) PROVE SocketInv'
  BY <1>4, SendREQKeeps DEF FabricType
<1>5. ASSUME NEW c \in Clients, ReadReply(c) PROVE SocketInv'
  BY <1>5, ReadReplyKeeps
<1>6. ASSUME NEW c \in Clients, disconnected(c) PROVE SocketInv'
  BY <1>6, DisconnectedKeeps
<1>7. ASSUME NEW c \in Clients, Connect(c) PROVE Same
  BY <1>7 DEF Connect, socket
<1>8. ASSUME NEW c \in Clients, Disconnect(c) PROVE Same
  BY <1>8 DEF Disconnect, socket
<1>9. ASSUME NEW c \in Clients, Deliver(c) PROVE SocketInv'
  BY <1>9, DeliverKeeps
<1>10. ASSUME NEW c \in Clients, RepRecv(c) PROVE Same
  BY <1>10 DEF RepRecv, socket, zmq
<1>11. ASSUME RepPart PROVE Same
  BY <1>11 DEF RepPart, socket
<1>12. ASSUME CassiDequeue PROVE Same
  BY <1>12 DEF CassiDequeue, socket, zmq
<1>13. ASSUME UNCHANGED vars PROVE Same
  BY <1>13 DEF vars, socket, zmq
<1> HIDE DEF Same
<1> QED
  BY <1>0, <1>1, <1>2, <1>3, <1>4, <1>5, <1>6, <1>7, <1>8, <1>9, <1>10, <1>11, <1>12, <1>13
     DEF Next

-----------------------------------------------------------------------------
(* The calling fabric, the network and the server, step by step *)

\* Every step keeps the types of the calling fabric's state.
LEMMA FabricStep ==
    ASSUME FabricType, [Next]_vars
    PROVE  FabricType'
PROOF
<1> DEFINE Same == UNCHANGED <<fabric, m_iBundle>>
<1>0. Same => FabricType'
  BY DEF FabricType, fabric
<1>1. ASSUME NEW c \in Clients, addPeer(c) PROVE FabricType'
  <2>1. <<JoinReq(c)>> \in Seq(Msg)
    BY RequestType
  <2>2. opens + 1 \in 0..MaxOpens
    BY <1>1, BoundsAssumption DEF addPeer, FabricType
  <2> QED
    BY <1>1, <2>1, <2>2 DEF addPeer, FabricType, socket
<1>2. ASSUME NEW c \in Clients, delPeer(c) PROVE FabricType'
  BY <1>2 DEF delPeer, closeSocket, FabricType
<1>3. ASSUME NEW c \in Clients, SendBundle(c) PROVE FabricType'
  <2>1. PICK k \in BundleSizes :
            /\ made[c] + k <= MaxMsgs
            /\ task' = [task EXCEPT ![c] = Bundle(c, made[c], k)]
            /\ made' = [made EXCEPT ![c] = @ + k]
    BY <1>3 DEF SendBundle
  <2>2. k \in Nat /\ made[c] \in Nat /\ MaxMsgs \in Nat
    BY BundleSizesAssumption, BoundsAssumption DEF FabricType
  <2>3. made[c] + k \in 0..MaxMsgs
    BY <2>1, <2>2
  <2>4. Bundle(c, made[c], k) \in Seq(Msg)
    BY <2>2, BundleType
  <2>5. UNCHANGED <<open, joined, changes, opens, m_iBundle>>
    BY <1>3 DEF SendBundle, socket
  <2> QED
    BY <2>1, <2>3, <2>4, <2>5 DEF FabricType
<1>4. ASSUME NEW c \in Clients, sendREQ(c) PROVE FabricType'
  <2>1. Tail(task[c]) \in Seq(Msg)
    BY <1>4, HeadTailProperties DEF sendREQ, FabricType
  <2>2. /\ task' = [task EXCEPT ![c] = Tail(@)]
        /\ m_iBundle' = [m_iBundle EXCEPT ![c] = IF Head(task[c]).last THEN "FIRST" ELSE "MIDDLE"]
        /\ UNCHANGED <<open, joined, made, changes, opens>>
    BY <1>4 DEF sendREQ
  <2> QED
    BY <2>1, <2>2 DEF FabricType
<1>5. ASSUME NEW c \in Clients, ReadReply(c) PROVE FabricType'
  <2>1. \/ joined' = [joined EXCEPT ![c] = TRUE]
        \/ UNCHANGED joined
    BY <1>5 DEF ReadReply, processJoinRep, processTopoRep, processShimRep
  <2>2. \/ changes[c] < MaxTopo /\ changes' = [changes EXCEPT ![c] = @ + 1]
        \/ UNCHANGED changes
    BY <1>5 DEF ReadReply, processJoinRep, processTopoRep, processShimRep
  <2>3. UNCHANGED <<open, task, made, opens, m_iBundle>>
    BY <1>5 DEF ReadReply
  <2>4. changes' \in [Clients -> 0..MaxTopo]
    <3>1. changes[c] < MaxTopo => changes[c] + 1 \in 0..MaxTopo
      BY BoundsAssumption DEF FabricType
    <3> QED
      BY <2>2, <3>1 DEF FabricType
  <2> QED
    BY <2>1, <2>3, <2>4 DEF FabricType
<1>6. ASSUME NEW c \in Clients, disconnected(c) PROVE FabricType'
  <2>1. PICK topo \in {<<>>, <<TopoReq(c)>>} :
            task' = [task EXCEPT ![c] = topo \o <<JoinReq(c)>>]
    BY <1>6 DEF disconnected, disconnect, rejoinReq
  <2>2. <<>> \in Seq(Msg)
    BY EmptySeq
  <2>3. <<TopoReq(c)>> \in Seq(Msg) /\ <<JoinReq(c)>> \in Seq(Msg)
    BY RequestType
  <2>4. topo \o <<JoinReq(c)>> \in Seq(Msg)
    BY <2>2, <2>3, ConcatProperties
  <2>5. /\ joined' = [joined EXCEPT ![c] = FALSE]
        /\ UNCHANGED <<open, made, changes, opens, m_iBundle>>
    BY <1>6 DEF disconnected, disconnect
  <2> QED
    BY <2>1, <2>4, <2>5 DEF FabricType
<1>7. ASSUME NEW c \in Clients, Connect(c) PROVE Same
  BY <1>7 DEF Connect, socket
<1>8. ASSUME NEW c \in Clients, Disconnect(c) PROVE Same
  BY <1>8 DEF Disconnect, socket
<1>9. ASSUME NEW c \in Clients, Deliver(c) PROVE Same
  BY <1>9 DEF Deliver, socket
<1>10. ASSUME NEW c \in Clients, RepRecv(c) PROVE Same
  BY <1>10 DEF RepRecv, socket
<1>11. ASSUME RepPart PROVE Same
  BY <1>11 DEF RepPart, socket
<1>12. ASSUME CassiDequeue PROVE Same
  BY <1>12 DEF CassiDequeue, socket
<1>13. ASSUME UNCHANGED vars PROVE Same
  BY <1>13 DEF vars, socket
<1> HIDE DEF Same
<1> QED
  BY <1>0, <1>1, <1>2, <1>3, <1>4, <1>5, <1>6, <1>7, <1>8, <1>9, <1>10, <1>11, <1>12, <1>13
     DEF Next

\* Every step keeps the bounds of the network's state.
LEMMA NetStep ==
    ASSUME NetInv, ServerInv, [Next]_vars
    PROVE  NetInv'
PROOF
<1> DEFINE Same == UNCHANGED <<up, monitor, drops, reply>>
<1>0. Same => NetInv'
  BY DEF NetInv, NetType, MonitorBound
<1>1. <<>> \in Seq(Kinds)
  BY EmptySeq
<1>2. ASSUME NEW c \in Clients, addPeer(c) PROVE Same
  BY <1>2 DEF addPeer, zmq
<1>3. ASSUME NEW c \in Clients, delPeer(c) PROVE NetInv'
  <2>1. /\ up' = [up EXCEPT ![c] = FALSE]
        /\ monitor' = [monitor EXCEPT ![c] = 0]
        /\ reply' = [reply EXCEPT ![c] = <<>>]
        /\ UNCHANGED drops
    BY <1>3 DEF delPeer, closeSocket
  <2> QED
    BY <1>1, <2>1, BoundsAssumption DEF NetInv, NetType, MonitorBound
<1>4. ASSUME NEW c \in Clients, SendBundle(c) PROVE Same
  BY <1>4 DEF SendBundle, zmq
<1>5. ASSUME NEW c \in Clients, sendREQ(c) PROVE Same
  BY <1>5 DEF sendREQ
<1>6. ASSUME NEW c \in Clients, ReadReply(c) PROVE NetInv'
  <2>1. /\ reply[c] # <<>>
        /\ reply' = [reply EXCEPT ![c] = Tail(@)]
        /\ UNCHANGED <<up, monitor, drops>>
    BY <1>6 DEF ReadReply
  <2>2. Tail(reply[c]) \in Seq(Kinds)
    BY <2>1, HeadTailProperties DEF NetInv, NetType
  <2> QED
    BY <2>1, <2>2 DEF NetInv, NetType, MonitorBound
<1>7. ASSUME NEW c \in Clients, disconnected(c) PROVE NetInv'
  <2>1. /\ monitor[c] > 0
        /\ monitor' = [monitor EXCEPT ![c] = @ - 1]
        /\ UNCHANGED <<up, drops, reply>>
    BY <1>7 DEF disconnected, socketMonitorEvent
  <2>2. monitor[c] - 1 \in Nat /\ monitor[c] - 1 <= drops[c]
    BY <2>1, BoundsAssumption DEF NetInv, NetType, MonitorBound
  <2> QED
    BY <2>1, <2>2 DEF NetInv, NetType, MonitorBound
<1>8. ASSUME NEW c \in Clients, Connect(c) PROVE NetInv'
  BY <1>8 DEF Connect, NetInv, NetType, MonitorBound
<1>9. ASSUME NEW c \in Clients, Disconnect(c) PROVE NetInv'
  <2>1. /\ drops[c] < MaxDrops
        /\ up' = [up EXCEPT ![c] = FALSE]
        /\ drops' = [drops EXCEPT ![c] = @ + 1]
        /\ monitor' = [monitor EXCEPT ![c] = @ + 1]
        /\ reply' = [reply EXCEPT ![c] = <<>>]
    BY <1>9 DEF Disconnect
  <2>2. /\ drops[c] + 1 \in 0..MaxDrops
        /\ monitor[c] + 1 \in Nat
        /\ monitor[c] + 1 <= drops[c] + 1
    BY <2>1, BoundsAssumption DEF NetInv, NetType, MonitorBound
  <2> QED
    BY <1>1, <2>1, <2>2 DEF NetInv, NetType, MonitorBound
<1>10. ASSUME NEW c \in Clients, Deliver(c) PROVE Same
  BY <1>10 DEF Deliver
<1>11. ASSUME NEW c \in Clients, RepRecv(c) PROVE Same
  BY <1>11 DEF RepRecv, zmq
<1>12. ASSUME RepPart PROVE NetInv'
  <2> DEFINE m == Head(repCur.parts)
  <2>1. m \in Msg
    BY <1>12, HeadTailProperties DEF RepPart, ServerInv, RepStates
  <2>2. /\ reply' = reply \/ reply' = [reply EXCEPT ![m.from] = Append(@, m.kind)]
        /\ UNCHANGED <<up, monitor, drops>>
    BY <1>12 DEF RepPart, processJoinReq, processTopoReq, processShimReq, Answer
  <2>3. m.from \in Clients /\ m.kind \in Kinds
    BY <2>1 DEF Msg
  <2> HIDE DEF m
  <2>4. Append(reply[m.from], m.kind) \in Seq(Kinds)
    BY <2>3, AppendProperties DEF NetInv, NetType
  <2> QED
    BY <2>2, <2>3, <2>4 DEF NetInv, NetType, MonitorBound
<1>13. ASSUME CassiDequeue PROVE Same
  BY <1>13 DEF CassiDequeue, zmq
<1>14. ASSUME UNCHANGED vars PROVE Same
  BY <1>14 DEF vars, zmq
<1> HIDE DEF Same
<1> QED
  BY <1>0, <1>2, <1>3, <1>4, <1>5, <1>6, <1>7, <1>8, <1>9, <1>10, <1>11, <1>12, <1>13, <1>14
     DEF Next

\* Orphaning a client's requests keeps the server's types.
LEMMA OrphanKeeps ==
    ASSUME ServerInv, NEW c \in Clients, Orphan(c)
    PROVE  /\ repIn' \in [Clients -> Seq(Request)]
           /\ repCur' \in RepStates
           /\ repCur'.state = "parts" => repCur'.parts # <<>>
PROOF
<1>1. repIn[c] \in Seq(Request)
  BY DEF ServerInv
<1> DEFINE dead == [i \in DOMAIN repIn[c] |-> [repIn[c][i] EXCEPT !.alive = FALSE]]
<1>2. dead \in Seq(Request)
  BY <1>1, OrphanType
<1>3. repIn' = [repIn EXCEPT ![c] = dead]
  BY DEF Orphan
<1>4. repCur' = repCur \/ repCur' = [repCur EXCEPT !.alive = FALSE]
  BY DEF Orphan
<1> HIDE DEF dead
<1>5. repIn' \in [Clients -> Seq(Request)]
  BY <1>2, <1>3 DEF ServerInv
<1>6. repCur' \in RepStates /\ (repCur'.state = "parts" => repCur'.parts # <<>>)
  BY <1>4 DEF ServerInv, RepStates
<1> QED
  BY <1>5, <1>6

\* Every step keeps the server's types and the bound of the CASSI queue.
LEMMA ServerStep ==
    ASSUME SocketInv, ServerInv, [Next]_vars
    PROVE  ServerInv'
PROOF
<1> DEFINE Same == UNCHANGED server
<1>0. Same => ServerInv'
  BY DEF ServerInv, server
<1>1. ASSUME NEW c \in Clients, addPeer(c) PROVE Same
  BY <1>1 DEF addPeer
<1>2. ASSUME NEW c \in Clients, delPeer(c) PROVE ServerInv'
  BY <1>2, OrphanKeeps DEF delPeer, closeSocket, ServerInv
<1>3. ASSUME NEW c \in Clients, SendBundle(c) PROVE Same
  BY <1>3 DEF SendBundle
<1>4. ASSUME NEW c \in Clients, sendREQ(c) PROVE Same
  BY <1>4 DEF sendREQ
<1>5. ASSUME NEW c \in Clients, ReadReply(c) PROVE Same
  BY <1>5 DEF ReadReply
<1>6. ASSUME NEW c \in Clients, disconnected(c) PROVE Same
  BY <1>6 DEF disconnected
<1>7. ASSUME NEW c \in Clients, Connect(c) PROVE Same
  BY <1>7 DEF Connect
<1>8. ASSUME NEW c \in Clients, Disconnect(c) PROVE ServerInv'
  <2>1. UNCHANGED m_cFabricToCassi
    BY <1>8 DEF Disconnect
  <2>2. CASE Orphan(c)
    BY <2>1, <2>2, OrphanKeeps DEF ServerInv
  <2>3. CASE repIn' = [repIn EXCEPT ![c] = <<>>] /\ UNCHANGED repCur
    <3>1. <<>> \in Seq(Request)
      BY EmptySeq
    <3> QED
      BY <2>1, <2>3, <3>1 DEF ServerInv
  <2> QED
    BY <1>8, <2>2, <2>3 DEF Disconnect
<1>9. ASSUME NEW c \in Clients, Deliver(c) PROVE ServerInv'
  <2> DEFINE r == [parts |-> pipe[c], alive |-> TRUE]
  <2>1. r \in Request
    BY <1>9 DEF Deliver, Request, SocketInv, SocketType
  <2>2. /\ repIn' = [repIn EXCEPT ![c] = Append(@, r)]
        /\ UNCHANGED <<repCur, m_cFabricToCassi>>
    BY <1>9 DEF Deliver
  <2> HIDE DEF r
  <2>3. Append(repIn[c], r) \in Seq(Request)
    BY <2>1, AppendProperties DEF ServerInv
  <2> QED
    BY <2>2, <2>3 DEF ServerInv
<1>10. ASSUME NEW c \in Clients, RepRecv(c) PROVE ServerInv'
  <2>1. repIn[c] \in Seq(Request) /\ repIn[c] # <<>>
    BY <1>10 DEF RepRecv, ServerInv
  <2>2. Head(repIn[c]) \in Request /\ Tail(repIn[c]) \in Seq(Request)
    BY <2>1, HeadTailProperties
  <2>3. /\ repCur' = [state |-> "parts", parts |-> Head(repIn[c]).parts,
                      alive |-> Head(repIn[c]).alive]
        /\ repIn' = [repIn EXCEPT ![c] = Tail(@)]
        /\ UNCHANGED m_cFabricToCassi
    BY <1>10 DEF RepRecv
  <2>4. repCur' \in RepStates /\ repCur'.parts # <<>>
    BY <2>2, <2>3 DEF Request, RepStates
  <2> QED
    BY <2>2, <2>3, <2>4 DEF ServerInv
<1>11. ASSUME RepPart PROVE ServerInv'
  <2> DEFINE m == Head(repCur.parts)
             rest == Tail(repCur.parts)
  <2>1. repCur.parts \in Seq(Msg) /\ repCur.parts # <<>>
    BY <1>11 DEF RepPart, ServerInv, RepStates
  <2>2. m \in Msg /\ rest \in Seq(Msg)
    BY <2>1, HeadTailProperties
  <2>3. /\ \/ rest # <<>> /\ repCur' = [repCur EXCEPT !.parts = rest]
           \/ repCur' = Idle
           \/ repCur' = [repCur EXCEPT !.state = "reply"]
        /\ \/ UNCHANGED m_cFabricToCassi
           \/ /\ Len(m_cFabricToCassi) < QueueCap
              /\ m_cFabricToCassi' = Append(m_cFabricToCassi, m)
        /\ UNCHANGED repIn
    BY <1>11 DEF RepPart, processJoinReq, processTopoReq, processShimReq, Answer
  <2> HIDE DEF m, rest
  <2>4. repCur' \in RepStates /\ (repCur'.state = "parts" => repCur'.parts # <<>>)
    <3>1. Idle \in RepStates /\ Idle.state # "parts"
      <4>1. <<>> \in Seq(Msg)
        BY EmptySeq
      <4> QED
        BY <4>1 DEF Idle, RepStates
    <3> QED
      BY <2>2, <2>3, <3>1 DEF ServerInv, RepStates
  <2>5. m_cFabricToCassi' \in Seq(Msg) /\ Len(m_cFabricToCassi') <= QueueCap
    <3>1. /\ Append(m_cFabricToCassi, m) \in Seq(Msg)
          /\ Len(Append(m_cFabricToCassi, m)) = Len(m_cFabricToCassi) + 1
          /\ Len(m_cFabricToCassi) \in Nat
      BY <2>2, AppendProperties, LenProperties DEF ServerInv
    <3>2. Len(m_cFabricToCassi) < QueueCap => Len(m_cFabricToCassi) + 1 <= QueueCap
      BY <3>1, BoundsAssumption
    <3> QED
      BY <2>3, <3>1, <3>2 DEF ServerInv
  <2> QED
    BY <2>3, <2>4, <2>5 DEF ServerInv
<1>12. ASSUME CassiDequeue PROVE ServerInv'
  <2>1. /\ Tail(m_cFabricToCassi) \in Seq(Msg)
        /\ Len(Tail(m_cFabricToCassi)) = Len(m_cFabricToCassi) - 1
        /\ Len(m_cFabricToCassi) \in Nat
    BY <1>12, HeadTailProperties, LenProperties DEF CassiDequeue, ServerInv
  <2>2. /\ m_cFabricToCassi' = Tail(m_cFabricToCassi)
        /\ UNCHANGED <<repIn, repCur>>
    BY <1>12 DEF CassiDequeue
  <2>3. Len(m_cFabricToCassi') <= QueueCap
    BY <2>1, <2>2, BoundsAssumption DEF ServerInv
  <2> QED
    BY <2>1, <2>2, <2>3 DEF ServerInv
<1>13. ASSUME UNCHANGED vars PROVE Same
  BY <1>13 DEF vars
<1> HIDE DEF Same
<1> QED
  BY <1>0, <1>1, <1>2, <1>3, <1>4, <1>5, <1>6, <1>7, <1>8, <1>9, <1>10, <1>11, <1>12, <1>13
     DEF Next

-----------------------------------------------------------------------------
(* The theorems *)

\* The initial state satisfies the inductive invariant.
LEMMA InitInv == Init => Inv
PROOF
<1> SUFFICES ASSUME Init PROVE Inv
  OBVIOUS
<1>1. <<>> \in Seq(Msg) /\ <<>> \in Seq(Kinds) /\ <<>> \in Seq(Request) /\ Len(<<>>) = 0
  BY EmptySeq
<1>2. 0 \in 0..MaxMsgs /\ 0 \in 0..MaxTopo /\ 0 \in 0..MaxOpens /\ 0 \in 0..MaxDrops
  BY BoundsAssumption
<1>3. FabricType
  BY <1>1, <1>2 DEF Init, FabricType
<1>4. SocketInv
  BY <1>1 DEF Init, SocketInv, SocketType, InStep, NoEFSM, PendingOnlyInProgress
<1>5. NetInv
  BY <1>1, <1>2 DEF Init, NetInv, NetType, MonitorBound
<1>6. ServerInv
  BY <1>1, BoundsAssumption DEF Init, ServerInv, Idle, RepStates
<1> QED
  BY <1>3, <1>4, <1>5, <1>6 DEF Inv

\* The inductive invariant holds in every state: MessageManager's in-progress
\* flag and ZeroMQ's REQ state machine agree through every callback, lost
\* session and re-created socket.
THEOREM Invariance == Spec => []Inv
PROOF
<1>1. Inv /\ [Next]_vars => Inv'
  BY FabricStep, SocketStep, NetStep, ServerStep DEF Inv
<1> QED
  BY <1>1, InitInv, PTL DEF Spec

\* Type correctness, with the bounds of every counter and of the CASSI queue.
THEOREM TypeCorrect == Spec => []TypeOK
PROOF
<1>1. Inv => TypeOK
  <2> SUFFICES ASSUME Inv PROVE TypeOK
    OBVIOUS
  <2>1. monitor \in [Clients -> 0..MaxDrops]
    BY BoundsAssumption DEF Inv, NetInv, NetType, MonitorBound
  <2> QED
    BY <2>1 DEF Inv, FabricType, SocketInv, SocketType, NetInv, NetType, ServerInv, TypeOK
<1> QED
  BY <1>1, Invariance, PTL

\* LinkManager::send never meets EFSM, for any number of clients, any bundle
\* sizes and any number of lost connections and re-created sockets.
THEOREM AlternationKept == Spec => []NoEFSM
PROOF
<1>1. Inv => NoEFSM
  BY DEF Inv, SocketInv
<1> QED
  BY <1>1, Invariance, PTL

\* sendREQ's "Pending Queue is not empty and no REQ in progress!" is never
\* thrown.
THEOREM NoPendingException == Spec => []PendingOnlyInProgress
PROOF
<1>1. Inv => PendingOnlyInProgress
  BY DEF Inv, SocketInv
<1> QED
  BY <1>1, Invariance, PTL

-----------------------------------------------------------------------------
(***************************************************************************)
(* Bundles.  MessageManager adds a bundle to its send block or its pending *)
(* queue message by message, and sends it in one piece; the server takes   *)
(* it apart again.                                                         *)
(***************************************************************************)

Shim(m) == m.kind = "SHIM_REQ"

\* Messages of c; the fabric's own are bundles of one.
Own(c, s) == \A i \in DOMAIN s : s[i].from = c /\ (~Shim(s[i]) => s[i].last)
OwnSent(c, s) == Own(c, s) /\ \A i \in DOMAIN s : ~Shim(s[i]) => s[i].first

\* Bundles one after the other, the last of them perhaps not complete.
Linked(s) ==
    /\ s # <<>> => s[1].first
    /\ \A i \in 1..(Len(s) - 1) : s[i].last <=> s[i + 1].first

\* What a callback has still to pass to sendREQ, t, with m_iBundle = b: it ends
\* with the last message of a bundle.
TaskOK(c, t, b) ==
    /\ Own(c, t)
    /\ t # <<>> => t[Len(t)].last
    /\ \A i \in 1..(Len(t) - 1) : ~t[i].last => Shim(t[i + 1])
    /\ b = "MIDDLE" => t # <<>> /\ Shim(t[1])

\* What sendREQ has put together, p: its last bundle is complete unless b says
\* that it is in the middle of one.
ChainOK(c, p, b) ==
    /\ OwnSent(c, p) /\ Linked(p)
    /\ b = "MIDDLE" <=> p # <<>> /\ ~p[Len(p)].last

\* Where sendREQ puts the messages of a bundle.
Pending(c) == IF m_bREQInProgress[c] THEN m_cQueue[c] ELSE m_pcSendBlk[c]

\* The send block is in use only while no request is in progress, and never
\* holds a complete bundle.
BlockOK(c) ==
    /\ m_bREQInProgress[c] => m_pcSendBlk[c] = <<>>
    /\ \A i \in DOMAIN m_pcSendBlk[c] : ~m_pcSendBlk[c][i].last

ChainInv ==
    \A c \in Clients :
        /\ TaskOK(c, task[c], m_iBundle[c])
        /\ ChainOK(c, Pending(c), m_iBundle[c])
        /\ BlockOK(c)
        /\ ~open[c] => task[c] = <<>>

\* The end of a bundle, and a bundle.
IsRest(c, s) ==
    /\ s # <<>> /\ OwnSent(c, s) /\ s[Len(s)].last
    /\ \A i \in 1..(Len(s) - 1) : ~s[i].last /\ ~s[i + 1].first

IsBundle(c, s) == IsRest(c, s) /\ s[1].first

\* On the way and at the server there are only whole bundles, and CASSI's queue
\* breaks off only in the bundle that is being read.
PipeOK(c) == pipe[c] # <<>> => IsBundle(c, pipe[c])

RepInOK(c) == \A i \in DOMAIN repIn[c] : IsBundle(c, repIn[c][i].parts)

RepCurOK ==
    IF repCur.state = "recv" THEN repCur = Idle
    ELSE repCur.parts # <<>> /\ IsRest(repCur.parts[1].from, repCur.parts)

FlightInv == (\A c \in Clients : PipeOK(c) /\ RepInOK(c)) /\ RepCurOK

\* The queue q is made of connected bundles, the last of them perhaps open.
CassiChain(q) ==
    /\ \A i \in DOMAIN q : Shim(q[i])
    /\ \A i \in 1..(Len(q) - 1) :
          ~q[i].last => q[i + 1].from = q[i].from /\ ~q[i + 1].first

\* A bundle that q broke off goes on with the request r that is being read.
CassiOpen(q, r) ==
    q # <<>> /\ ~q[Len(q)].last =>
        /\ r.state # "recv" /\ r.parts[1].from = q[Len(q)].from
        /\ r.state = "parts" => ~r.parts[1].first

CassiInv == CassiChain(m_cFabricToCassi) /\ CassiOpen(m_cFabricToCassi, repCur)

-----------------------------------------------------------------------------
(***************************************************************************)
(* One request at a time.  The request of c that will be answered is in    *)
(* one place at most: in the pipe, at the server, being read, or as a      *)
(* reply on its way back.                                                  *)
(***************************************************************************)

Alive(c) == {i \in DOMAIN repIn[c] : repIn[c][i].alive}
Reads(c) == repCur.state # "recv" /\ repCur.alive /\ repCur.parts[1].from = c

OutAt(c) ==
    /\ \A i, j \in Alive(c) : i = j
    /\ Len(reply[c]) <= 1
    /\ ~m_bREQInProgress[c] =>
          pipe[c] = <<>> /\ Alive(c) = {} /\ ~Reads(c) /\ reply[c] = <<>>
    /\ pipe[c] # <<>> => Alive(c) = {} /\ ~Reads(c) /\ reply[c] = <<>>
    /\ Alive(c) # {} => ~Reads(c) /\ reply[c] = <<>>
    /\ Reads(c) => reply[c] = <<>>

OutInv == \A c \in Clients : OutAt(c)

-----------------------------------------------------------------------------
(***************************************************************************)
(* Order.  The application's messages of c are in line: what CASSI has,    *)
(* what the server reads, has and is sent, what waits in the socket and    *)
(* what the callback has still to pass on.                                 *)
(***************************************************************************)

Nums(s) == {s[i].num : i \in {j \in DOMAIN s : Shim(s[j])}}

Rising(s) == \A i, j \in DOMAIN s : i < j /\ Shim(s[i]) /\ Shim(s[j]) => s[i].num < s[j].num

Before(A, B) == \A x \in A, y \in B : x < y

\* The same for CASSI's queue and for the requests the server has.
CassiNums(q, c) == {q[i].num : i \in {j \in DOMAIN q : q[j].from = c}}

CassiRising(q) == \A i, j \in DOMAIN q : i < j /\ q[i].from = q[j].from => q[i].num < q[j].num

RequestNums(t) == UNION {Nums(t[i].parts) : i \in DOMAIN t}

RequestsRising(t) ==
    /\ \A i \in DOMAIN t : Rising(t[i].parts)
    /\ \A i, j \in DOMAIN t : i < j => Before(Nums(t[i].parts), Nums(t[j].parts))

ReadNums(r, c) == IF r.state = "parts" /\ r.parts[1].from = c THEN Nums(r.parts) ELSE {}

Places == 0..5

Line(c) ==
    [p \in Places |->
        CASE p = 0 -> CassiNums(m_cFabricToCassi, c)
          [] p = 1 -> ReadNums(repCur, c)
          [] p = 2 -> RequestNums(repIn[c])
          [] p = 3 -> Nums(pipe[c])
          [] p = 4 -> Nums(Pending(c))
          [] p = 5 -> Nums(task[c])]

InLine(l) == \A p, q \in Places : p < q => Before(l[p], l[q])

OrderAt(c) ==
    /\ InLine(Line(c))
    /\ \A p \in Places : Line(c)[p] \subseteq 0..made[c]
    /\ Rising(task[c]) /\ Rising(Pending(c)) /\ Rising(pipe[c]) /\ RequestsRising(repIn[c])

OrderInv ==
    /\ \A c \in Clients : OrderAt(c)
    /\ Rising(repCur.parts)
    /\ CassiRising(m_cFabricToCassi)

RequestInv == Inv /\ ChainInv /\ FlightInv /\ CassiInv /\ OutInv

BundleInv == RequestInv /\ OrderInv

-----------------------------------------------------------------------------
(* Bundles, message by message *)

\* The fields of a message and their types.
LEMMA MsgFields ==
  ASSUME NEW m \in Msg
  PROVE  /\ m.last \in BOOLEAN /\ m.first \in BOOLEAN /\ m.num \in Nat /\ m.kind \in Kinds
         /\ m.from \in Clients
  BY DEF Msg

\* The rest of a callback's messages after the first.
LEMMA TaskTail ==
  ASSUME NEW c \in Clients, NEW t \in Seq(Msg), t # <<>>, NEW b, TaskOK(c, t, b),
         NEW b2, b2 = IF Head(t).last THEN "FIRST" ELSE "MIDDLE"
  PROVE  TaskOK(c, Tail(t), b2)
  <1> DEFINE u == Tail(t)
  <1>1. /\ u \in Seq(Msg) /\ Len(u) = Len(t) - 1 /\ Len(t) \in Nat /\ Len(t) >= 1
        /\ \A i \in 1..Len(u) : u[i] = t[i + 1]
        /\ Head(t) = t[1] /\ DOMAIN u = 1..Len(u) /\ DOMAIN t = 1..Len(t)
        /\ u = <<>> <=> Len(u) = 0
    <2>1. u \in Seq(Msg) /\ Len(t) \in Nat /\ Len(t) # 0
      BY HeadTailProperties, LenProperties, EmptySeq
    <2>2. Len(u) = Len(t) - 1 /\ \A i \in 1..Len(u) : u[i] = t[i + 1]
      BY <2>1, HeadTailProperties
    <2>3. Head(t) = t[1] /\ DOMAIN u = 1..Len(u) /\ DOMAIN t = 1..Len(t)
      BY <2>1, HeadTailProperties, LenProperties
    <2>4. u = <<>> <=> Len(u) = 0
      BY <2>1, EmptySeq
    <2>5. QED  BY <2>1, <2>2, <2>3, <2>4
  <1> HIDE DEF u
  <1>2. Own(c, u)
    BY <1>1 DEF TaskOK, Own
  <1>3. u # <<>> => u[Len(u)].last
    BY <1>1 DEF TaskOK
  <1>4. \A i \in 1..(Len(u) - 1) : ~u[i].last => Shim(u[i + 1])
    <2>1. SUFFICES ASSUME NEW i \in 1..(Len(u) - 1), ~u[i].last PROVE Shim(u[i + 1])
      OBVIOUS
    <2>2. u[i] = t[i + 1] /\ u[i + 1] = t[(i + 1) + 1] /\ i + 1 \in 1..(Len(t) - 1)
      BY <1>1
    <2>3. QED  BY <2>1, <2>2 DEF TaskOK
  <1>5. b2 = "MIDDLE" => u # <<>> /\ Shim(u[1])
    <2>1. SUFFICES ASSUME b2 = "MIDDLE" PROVE u # <<>> /\ Shim(u[1])
      OBVIOUS
    <2>2. ~t[1].last
      BY <1>1, <2>1
    <2>3. Len(t) # 1
      BY <2>2, <1>1 DEF TaskOK
    <2>4. u # <<>> /\ u[1] = t[1 + 1] /\ 1 \in 1..(Len(t) - 1)
      BY <1>1, <2>3
    <2>5. QED  BY <2>2, <2>4 DEF TaskOK
  <1>6. QED  BY <1>2, <1>3, <1>4, <1>5 DEF TaskOK, u

\* sendREQ adds a message to a chain.
LEMMA ChainAppend ==
  ASSUME NEW c \in Clients, NEW p \in Seq(Msg), NEW b \in {"FIRST", "MIDDLE"}, ChainOK(c, p, b),
         NEW m \in Msg, m.from = c, ~Shim(m) => m.last, b = "MIDDLE" => Shim(m),
         NEW e, e = [m EXCEPT !.first = (b = "FIRST")],
         NEW b2, b2 = IF m.last THEN "FIRST" ELSE "MIDDLE"
  PROVE  /\ Append(p, e) \in Seq(Msg) /\ ChainOK(c, Append(p, e), b2)
         /\ (\A i \in DOMAIN p : ~p[i].last) /\ m.last => IsBundle(c, Append(p, e))
  <1> DEFINE r == Append(p, e)
  <1>1. /\ e \in Msg /\ e.from = c /\ e.last = m.last /\ e.kind = m.kind /\ e.num = m.num
        /\ e.first = (b = "FIRST")
    BY DEF Msg
  <1>2. /\ r \in Seq(Msg) /\ Len(r) = Len(p) + 1 /\ Len(p) \in Nat
        /\ \A i \in 1..Len(p) : r[i] = p[i]
        /\ r[Len(p) + 1] = e /\ r # <<>>
        /\ DOMAIN r = 1..Len(r) /\ DOMAIN p = 1..Len(p)
        /\ p = <<>> <=> Len(p) = 0
    BY <1>1, AppendProperties, LenProperties, EmptySeq
  <1> HIDE DEF r
  <1>3. Shim(e) <=> Shim(m)
    BY <1>1 DEF Shim
  <1>4. OwnSent(c, r)
    <2>1. ASSUME NEW i \in DOMAIN r
          PROVE  r[i].from = c /\ (~Shim(r[i]) => r[i].last /\ r[i].first)
      <3>1. CASE i = Len(p) + 1
        BY <1>1, <1>2, <1>3, <3>1
      <3>2. CASE i \in 1..Len(p)
        BY <1>2, <3>2 DEF ChainOK, OwnSent, Own
      <3>3. QED  BY <1>2, <3>1, <3>2
    <2>2. QED  BY <2>1 DEF OwnSent, Own
  <1>5. b = "FIRST" <=> (p = <<>> \/ p[Len(p)].last)
    BY DEF ChainOK
  <1>6. Linked(r)
    <2>1. r[1].first
      <3>1. CASE p = <<>>
        <4>1. Len(p) = 0
          BY <1>2, <3>1
        <4>2. r[1] = e
          BY <1>2, <4>1
        <4>3. b = "FIRST"
          BY <3>1 DEF ChainOK
        <4>4. QED  BY <1>1, <4>2, <4>3
      <3>2. CASE p # <<>>
        <4>1. r[1] = p[1]
          BY <1>2, <3>2
        <4>2. QED  BY <3>2, <4>1 DEF ChainOK, Linked
      <3>3. QED  BY <3>1, <3>2
    <2>2. ASSUME NEW i \in 1..(Len(r) - 1)
          PROVE  r[i].last <=> r[i + 1].first
      <3>1. CASE i = Len(p)
        <4>1. r[i] = p[Len(p)] /\ r[i + 1] = e /\ p # <<>>
          BY <1>2, <3>1
        <4>2. QED  BY <1>1, <1>5, <4>1
      <3>2. CASE i \in 1..(Len(p) - 1)
        <4>1. r[i] = p[i] /\ r[i + 1] = p[i + 1]
          BY <1>2, <3>2
        <4>2. QED  BY <3>2, <4>1 DEF ChainOK, Linked
      <3>3. QED  BY <1>2, <3>1, <3>2
    <2>3. QED  BY <2>1, <2>2 DEF Linked
  <1>7. r[Len(r)] = e
    BY <1>2
  <1>8. ChainOK(c, r, b2)
    BY <1>1, <1>2, <1>4, <1>6, <1>7 DEF ChainOK
  <1>9. ASSUME \A i \in DOMAIN p : ~p[i].last, m.last
        PROVE  IsBundle(c, r)
    <2>1. r[Len(r)].last
      BY <1>1, <1>7, <1>9
    <2>2. \A i \in 1..(Len(r) - 1) : ~r[i].last /\ ~r[i + 1].first
      <3>1. ASSUME NEW i \in 1..(Len(r) - 1)
            PROVE  ~r[i].last /\ ~r[i + 1].first
        <4>1. ~r[i].last
          BY <1>2, <1>9
        <4>2. QED  BY <4>1, <1>6 DEF Linked
      <3>2. QED  BY <3>1
    <2>3. r[1].first
      BY <1>2, <1>6 DEF Linked
    <2>4. QED  BY <1>2, <1>4, <2>1, <2>2, <2>3 DEF IsBundle, IsRest
  <1>10. QED  BY <1>2, <1>8, <1>9 DEF r

\* The bundle unblockREQ takes, and what it leaves.
LEMMA ChainSplit ==
  ASSUME NEW c \in Clients, NEW q \in Seq(Msg), q # <<>>, ChainOK(c, q, "FIRST"),
         NEW n, n = BundleLength(q)
  PROVE  /\ n \in 1..Len(q)
         /\ SubSeq(q, 1, n) \in Seq(Msg) /\ IsBundle(c, SubSeq(q, 1, n))
         /\ SubSeq(q, n + 1, Len(q)) \in Seq(Msg) /\ ChainOK(c, SubSeq(q, n + 1, Len(q)), "FIRST")
  <1> DEFINE f == SubSeq(q, 1, n)
             g == SubSeq(q, n + 1, Len(q))
  <1>1. Len(q) \in Nat /\ Len(q) >= 1 /\ DOMAIN q = 1..Len(q) /\ \A i \in 1..Len(q) : q[i] \in Msg
    BY LenProperties, EmptySeq, ElementOfSeq
  <1>2. /\ n \in 1..Len(q) /\ (n = Len(q) \/ q[n].last)
        /\ \A i \in 1..(n - 1) : ~q[i].last
    BY BundleLengthWorks
  <1>3. q[Len(q)].last
    BY DEF ChainOK
  <1>4. /\ f \in Seq(Msg) /\ Len(f) = n /\ DOMAIN f = 1..n
        /\ \A i \in 1..n : f[i] = q[i]
    <2>1. \A i \in 1..n : q[i] \in Msg
      BY <1>1, <1>2
    <2>2. QED  BY <1>1, <1>2, <2>1, SubSeqProperties, LenProperties
  <1>5. /\ g \in Seq(Msg) /\ Len(g) = Len(q) - n /\ DOMAIN g = 1..Len(g)
        /\ \A i \in 1..Len(g) : g[i] = q[n + i]
    <2>1. \A i \in (n + 1)..Len(q) : q[i] \in Msg
      BY <1>1, <1>2
    <2>2. g \in Seq(Msg) /\ Len(g) = Len(q) - n
      BY <1>1, <1>2, <2>1, SubSeqProperties
    <2>3. \A i \in 1..Len(g) : g[i] = q[n + i]
      BY <1>1, <1>2, <2>2, SubSeqProperties
    <2>4. QED  BY <2>2, <2>3, LenProperties
  <1> HIDE DEF f, g
  <1>6. IsBundle(c, f)
    <2>1. f # <<>> /\ f[1] = q[1] /\ f[n] = q[n] /\ q[n].last
      BY <1>2, <1>3, <1>4, EmptySeq
    <2>2. f[1].first
      BY <2>1 DEF ChainOK, Linked
    <2>3. OwnSent(c, f)
      BY <1>1, <1>2, <1>4 DEF ChainOK, OwnSent, Own
    <2>4. ASSUME NEW i \in 1..(n - 1)
          PROVE  ~f[i].last /\ ~f[i + 1].first
      <3>1. f[i] = q[i] /\ f[i + 1] = q[i + 1] /\ i \in 1..(Len(q) - 1) /\ ~q[i].last
        BY <1>1, <1>2, <1>4
      <3>2. QED  BY <3>1 DEF ChainOK, Linked
    <2>5. QED  BY <1>4, <2>1, <2>2, <2>3, <2>4 DEF IsBundle, IsRest
  <1>7. ChainOK(c, g, "FIRST")
    <2>1. OwnSent(c, g)
      <3>1. \A i \in DOMAIN g : n + i \in DOMAIN q /\ g[i] = q[n + i]
        BY <1>1, <1>2, <1>5
      <3>2. QED  BY <3>1 DEF ChainOK, OwnSent, Own
    <2>2. g # <<>> => n < Len(q) /\ q[n].last /\ g[1] = q[n + 1] /\ g[Len(g)] = q[Len(q)]
      BY <1>1, <1>2, <1>5, EmptySeq
    <2>3. g # <<>> => g[1].first
      BY <1>1, <1>2, <2>2 DEF ChainOK, Linked
    <2>4. ASSUME NEW i \in 1..(Len(g) - 1)
          PROVE  g[i].last <=> g[i + 1].first
      <3> DEFINE j == n + i
                 k == i + 1
      <3>1. /\ n + k = j + 1 /\ j \in 1..(Len(q) - 1)
            /\ i \in 1..Len(g) /\ k \in 1..Len(g)
        <4>1. n \in 1..Len(q) /\ Len(q) \in Nat /\ Len(g) = Len(q) - n
          BY <1>1, <1>2, <1>5
        <4>2. i \in 1..((Len(q) - n) - 1)
          BY <4>1, <2>4
        <4>3. i \in Nat /\ n \in Nat /\ i >= 1 /\ n >= 1 /\ i + n < Len(q)
          BY <4>1, <4>2
        <4>4. n + (i + 1) = (n + i) + 1
          BY <4>3
        <4>5. n + i \in 1..(Len(q) - 1)
          BY <4>1, <4>3
        <4>6. i + 1 \in 1..(Len(q) - n)
          BY <4>1, <4>3
        <4>7. i \in 1..(Len(q) - n)
          BY <4>1, <4>3
        <4>8. QED  BY <4>1, <4>4, <4>5, <4>6, <4>7
      <3>2. g[i] = q[j] /\ g[k] = q[n + k]
        BY <1>5, <3>1
      <3>a. g[i] = q[j] /\ g[k] = q[j + 1]
        BY <3>1, <3>2
      <3> HIDE DEF j
      <3>3. QED  BY <3>1, <3>a DEF ChainOK, Linked
    <2>5. QED  BY <1>3, <2>1, <2>2, <2>3, <2>4 DEF ChainOK, Linked
  <1>8. QED  BY <1>2, <1>4, <1>5, <1>6, <1>7 DEF f, g

-----------------------------------------------------------------------------
(* What the steps of MessageManager do to a socket *)

\* The sockets of the other clients are left alone.
OnlySocket(c) ==
    \A d \in Clients \ {c} :
        /\ task'[d] = task[d] /\ m_iBundle'[d] = m_iBundle[d]
        /\ m_bREQInProgress'[d] = m_bREQInProgress[d]
        /\ m_cQueue'[d] = m_cQueue[d] /\ m_pcSendBlk'[d] = m_pcSendBlk[d]
        /\ pipe'[d] = pipe[d]

\* A step of c leaves what the sockets of the others hold.
LEMMA OnlySocketKeeps ==
  ASSUME NEW c \in Clients, OnlySocket(c), NEW d \in Clients \ {c}
  PROVE  Pending(d)' = Pending(d) /\ (BlockOK(d) => BlockOK(d)')
  BY DEF OnlySocket, Pending, BlockOK

\* A message is added to what is pending, or what is pending goes out with it.
Adds(c, e) ==
    /\ m_bREQInProgress'[c] = m_bREQInProgress[c] /\ pipe'[c] = pipe[c]
    /\ Pending(c)' = Append(Pending(c), e)

Sends(c, parts, rest) ==
    /\ m_bREQInProgress'[c] = TRUE /\ pipe'[c] = parts
    /\ Pending(c)' = rest

Frees(c) ==
    /\ m_bREQInProgress'[c] = FALSE /\ pipe'[c] = pipe[c]
    /\ Pending(c)' = <<>>

\* What waits in the socket is a sequence of messages.
LEMMA PendingType ==
  ASSUME SocketInv, NEW c \in Clients
  PROVE  Pending(c) \in Seq(Msg)
  BY DEF Pending, SocketInv, SocketType

\* sendREQ adds its message to what waits, or sends what waits with it.
LEMMA SendREQEffect ==
  ASSUME Inv, ChainInv, NEW c \in Clients, sendREQ(c)
  PROVE  /\ OnlySocket(c) /\ BlockOK(c)'
         /\ UNCHANGED <<made, reply, server>>
         /\ \E m \in Msg, e \in Msg :
              /\ task[c] # <<>> /\ m = Head(task[c])
              /\ e = [m EXCEPT !.first = (m_iBundle[c] = "FIRST")]
              /\ task'[c] = Tail(task[c])
              /\ m_iBundle'[c] = IF m.last THEN "FIRST" ELSE "MIDDLE"
              /\ \/ Adds(c, e)
                 \/ ~m_bREQInProgress[c] /\ m.last /\ Sends(c, Append(Pending(c), e), <<>>)
  <1> DEFINE m == Head(task[c])
             e == [m EXCEPT !.first = (m_iBundle[c] = "FIRST")]
  <1>1. /\ task \in [Clients -> Seq(Msg)] /\ m_iBundle \in [Clients -> {"FIRST", "MIDDLE"}]
        /\ SocketType /\ SocketInv
    BY DEF Inv, FabricType, SocketInv
  <1>2. m \in Msg /\ e \in Msg
    <2>1. m \in Msg
      BY <1>1, HeadTailProperties DEF sendREQ
    <2>2. QED  BY <2>1 DEF Msg
  <1>3. /\ task[c] # <<>> /\ task'[c] = Tail(task[c])
        /\ m_iBundle'[c] = IF m.last THEN "FIRST" ELSE "MIDDLE"
        /\ \A d \in Clients \ {c} : task'[d] = task[d] /\ m_iBundle'[d] = m_iBundle[d]
        /\ UNCHANGED <<made, reply, server>>
    BY <1>1 DEF sendREQ
  <1>4. m.last \in BOOLEAN
    BY <1>2, MsgFields
  <1>5. CASE m_bREQInProgress[c]
    <2>1. /\ m_cQueue' = [m_cQueue EXCEPT ![c] = Append(@, e)]
          /\ UNCHANGED <<m_bREQInProgress, m_pcSendBlk, pipe>>
      BY <1>5 DEF sendREQ
    <2> HIDE DEF e, m
    <2>2. m_cQueue'[c] = Append(m_cQueue[c], e) /\ \A d \in Clients \ {c} : m_cQueue'[d] = m_cQueue[d]
      BY <1>1, <2>1 DEF SocketType
    <2>3. OnlySocket(c)
      BY <1>3, <2>1, <2>2 DEF OnlySocket
    <2>4. Adds(c, e) /\ BlockOK(c)'
      BY <1>5, <2>1, <2>2 DEF Adds, Pending, BlockOK, ChainInv
    <2>5. QED  BY <1>2, <1>3, <2>3, <2>4 DEF m, e
  <1>6. CASE ~m_bREQInProgress[c] /\ m.last
    <2>1. zreq[c] = "send"
      BY <1>1, <1>6 DEF SocketInv, SocketType, InStep
    <2>2. /\ pipe' = [pipe EXCEPT ![c] = Append(m_pcSendBlk[c], e)]
          /\ m_pcSendBlk' = [m_pcSendBlk EXCEPT ![c] = <<>>]
          /\ m_bREQInProgress' = [m_bREQInProgress EXCEPT ![c] = TRUE]
          /\ UNCHANGED m_cQueue
      BY <1>6, <2>1 DEF sendREQ, LinkSend
    <2> HIDE DEF e, m
    <2>3. /\ pipe'[c] = Append(m_pcSendBlk[c], e) /\ m_pcSendBlk'[c] = <<>>
          /\ m_bREQInProgress'[c] = TRUE /\ m_cQueue'[c] = m_cQueue[c]
      BY <1>1, <2>2 DEF SocketType
    <2>4. m_cQueue[c] = <<>>
      BY <1>1, <1>6 DEF SocketInv, PendingOnlyInProgress
    <2>5. OnlySocket(c)
      BY <1>1, <1>3, <2>2 DEF OnlySocket, SocketType
    <2>6. BlockOK(c)'
      BY <2>3, EmptySeq DEF BlockOK
    <2>7. Sends(c, Append(Pending(c), e), <<>>)
      BY <1>6, <2>3, <2>4 DEF Sends, Pending
    <2>8. QED  BY <1>2, <1>3, <1>6, <2>5, <2>6, <2>7 DEF m, e
  <1>7. CASE ~m_bREQInProgress[c] /\ ~m.last
    <2>1. /\ m_pcSendBlk' = [m_pcSendBlk EXCEPT ![c] = Append(@, e)]
          /\ UNCHANGED <<m_cQueue, m_bREQInProgress, pipe>>
      BY <1>7 DEF sendREQ
    <2>2. ~e.last
      BY <1>2, <1>7 DEF Msg
    <2> HIDE DEF e, m
    <2>3. /\ m_pcSendBlk'[c] = Append(m_pcSendBlk[c], e)
          /\ \A d \in Clients \ {c} : m_pcSendBlk'[d] = m_pcSendBlk[d]
      BY <1>1, <2>1 DEF SocketType
    <2>4. OnlySocket(c)
      BY <1>3, <2>1, <2>3 DEF OnlySocket
    <2>5. Adds(c, e)
      BY <1>7, <2>1, <2>3 DEF Adds, Pending
    <2>6. BlockOK(c)'
      <3> DEFINE s == m_pcSendBlk[c]
                 r == Append(s, e)
      <3>1. s \in Seq(Msg)
        BY <1>1 DEF SocketType
      <3>2. /\ Len(r) = Len(s) + 1 /\ Len(s) \in Nat
            /\ \A i \in 1..Len(s) : r[i] = s[i]
            /\ r[Len(s) + 1] = e
            /\ DOMAIN r = 1..Len(r) /\ DOMAIN s = 1..Len(s)
        BY <1>2, <3>1, AppendProperties, LenProperties
      <3>3. \A i \in DOMAIN s : ~s[i].last
        BY DEF ChainInv, BlockOK
      <3> HIDE DEF s, r
      <3>4. \A i \in DOMAIN r : ~r[i].last
        BY <2>2, <3>2, <3>3
      <3>5. QED  BY <1>7, <2>1, <2>3, <3>4 DEF BlockOK, r, s
    <2>7. QED  BY <1>2, <1>3, <2>4, <2>5, <2>6 DEF m, e
  <1>8. QED  BY <1>4, <1>5, <1>6, <1>7

\* A reply frees the socket, or the next bundle of its queue goes out.
LEMMA ReadReplyEffect ==
  ASSUME Inv, ChainInv, NEW c \in Clients, ReadReply(c), m_bREQInProgress[c]
  PROVE  /\ OnlySocket(c) /\ BlockOK(c)'
         /\ UNCHANGED <<made, server>>
         /\ task'[c] = <<>> /\ task[c] = <<>> /\ m_iBundle'[c] = m_iBundle[c]
         /\ reply[c] # <<>> /\ reply' = [reply EXCEPT ![c] = Tail(@)]
         /\ \E sends \in {<<>>, <<QueuedTopoReq(c)>>}, q \in Seq(Msg) :
              /\ q = Pending(c) \o sends
              /\ \/ q = <<>> /\ Frees(c)
                 \/ /\ q # <<>>
                    /\ \E n : /\ n = BundleLength(q)
                              /\ Sends(c, SubSeq(q, 1, n), SubSeq(q, n + 1, Len(q)))
  <1>1. PICK sends \in {<<>>, <<QueuedTopoReq(c)>>} : FinishReply(c, sends)
    BY DEF ReadReply, processJoinRep, processTopoRep, processShimRep
  <1>2. sends \in Seq(Msg)
    <2>1. <<>> \in Seq(Msg)
      BY EmptySeq
    <2>2. <<QueuedTopoReq(c)>> \in Seq(Msg)
      BY RequestType
    <2>3. QED  BY <2>1, <2>2
  <1>3. /\ task[c] = <<>> /\ reply[c] # <<>> /\ reply' = [reply EXCEPT ![c] = Tail(@)]
        /\ UNCHANGED <<task, made, m_iBundle, server>>
    BY DEF ReadReply
  <1>4. SocketType /\ Pending(c) = m_cQueue[c] /\ m_pcSendBlk[c] = <<>>
    BY DEF Inv, SocketInv, Pending, ChainInv, BlockOK
  <1> DEFINE q == m_cQueue[c] \o sends
  <1>5. q \in Seq(Msg)
    BY <1>2, <1>4, ConcatProperties DEF SocketType
  <1>6. CASE q = <<>>
    <2>1. /\ m_bREQInProgress' = [m_bREQInProgress EXCEPT ![c] = FALSE]
          /\ UNCHANGED <<m_cQueue, m_pcSendBlk, pipe>>
      BY <1>1, <1>6 DEF FinishReply
    <2>2. Frees(c)
      BY <1>4, <2>1 DEF Frees, Pending, SocketType
    <2>3. OnlySocket(c) /\ BlockOK(c)'
      BY <1>3, <1>4, <2>1, EmptySeq DEF OnlySocket, BlockOK, SocketType
    <2>4. QED  BY <1>3, <1>4, <1>5, <1>6, <2>2, <2>3
  <1>7. CASE q # <<>>
    <2> DEFINE n == BundleLength(q)
               f == SubSeq(q, 1, n)
               g == SubSeq(q, n + 1, Len(q))
    <2>1. f \in Seq(Msg)
      <3>1. n \in 1..Len(q) /\ Len(q) \in Nat /\ \A i \in 1..Len(q) : q[i] \in Msg
        BY <1>5, <1>7, BundleLengthWorks, LenProperties, ElementOfSeq
      <3> HIDE DEF q, n
      <3>2. \A i \in 1..n : q[i] \in Msg
        BY <3>1
      <3>3. QED  BY <3>1, <3>2, SubSeqProperties
    <2>2. m_pcSendBlk[c] \o f = f
      BY <1>4, <2>1, ConcatEmptySeq
    <2>3. /\ pipe' = [pipe EXCEPT ![c] = m_pcSendBlk[c] \o f]
          /\ m_pcSendBlk' = [m_pcSendBlk EXCEPT ![c] = <<>>]
          /\ m_cQueue' = [m_cQueue EXCEPT ![c] = g]
          /\ m_bREQInProgress' = [m_bREQInProgress EXCEPT ![c] = TRUE]
      BY <1>1, <1>7 DEF FinishReply, unblockREQ, LinkSend
    <2> HIDE DEF f, g
    <2>4. /\ pipe'[c] = f /\ m_pcSendBlk'[c] = <<>> /\ m_cQueue'[c] = g
          /\ m_bREQInProgress'[c] = TRUE
      BY <1>4, <2>2, <2>3 DEF SocketType
    <2>5. Sends(c, f, g)
      BY <2>4 DEF Sends, Pending
    <2>6. OnlySocket(c) /\ BlockOK(c)'
      BY <1>3, <1>4, <2>3, <2>4, EmptySeq DEF OnlySocket, BlockOK, SocketType
    <2>7. \E k : k = BundleLength(q) /\ Sends(c, SubSeq(q, 1, k), SubSeq(q, k + 1, Len(q)))
      BY <2>5 DEF f, g
    <2>8. QED  BY <1>3, <1>4, <1>5, <1>7, <2>6, <2>7
  <1>8. QED  BY <1>6, <1>7

-----------------------------------------------------------------------------
(* Chains of bundles are kept *)

\* A queue with nothing in it is a chain of bundles.
LEMMA EmptyChain ==
  ASSUME NEW c \in Clients
  PROVE  TaskOK(c, <<>>, "FIRST") /\ ChainOK(c, <<>>, "FIRST")
  <1>1. DOMAIN <<>> = {} /\ Len(<<>>) = 0
    BY EmptySeq
  <1>2. QED  BY <1>1 DEF TaskOK, ChainOK, Own, OwnSent, Linked

\* The fabric's own requests, as a callback passes them on.
LEMMA OwnTasks ==
  ASSUME NEW c \in Clients
  PROVE  /\ TaskOK(c, <<JoinReq(c)>>, "FIRST")
         /\ TaskOK(c, <<TopoReq(c)>> \o <<JoinReq(c)>>, "FIRST")
  <1>1. /\ JoinReq(c).from = c /\ JoinReq(c).last = TRUE
        /\ TopoReq(c).from = c /\ TopoReq(c).last = TRUE
        /\ JoinReq(c) \in Msg /\ <<TopoReq(c)>> \in Seq(Msg)
    BY RequestType DEF JoinReq, TopoReq, Message
  <1>2. TaskOK(c, <<JoinReq(c)>>, "FIRST")
    BY <1>1 DEF TaskOK, Own
  <1>3. TaskOK(c, <<TopoReq(c)>> \o <<JoinReq(c)>>, "FIRST")
    <2> DEFINE a == TopoReq(c)
               b == JoinReq(c)
               t == Append(<<a>>, b)
    <2> HIDE DEF a, b, t
    <2>1. a \in Msg /\ b \in Msg /\ <<a>> \in Seq(Msg) /\ Len(<<a>>) = 1 /\ <<a>>[1] = a
      BY <1>1, RequestType DEF a, b
    <2>2. t \in Seq(Msg) /\ Len(t) = 2 /\ t[1] = a /\ t[2] = b
      BY <2>1, AppendProperties DEF t
    <2>3. DOMAIN t = 1..2
      BY <2>2, LenProperties
    <2>4. TaskOK(c, t, "FIRST")
      BY <1>1, <2>2, <2>3 DEF TaskOK, Own, a, b
    <2>5. QED  BY <2>1, <2>4, AppendIsConcat DEF a, b, t
  <1>4. QED  BY <1>2, <1>3

\* A bundle of the application, as a callback passes it on.
LEMMA BundleTask ==
  ASSUME NEW c \in Clients, NEW n \in Nat, NEW k \in Nat \ {0}
  PROVE  TaskOK(c, Bundle(c, n, k), "FIRST")
  <1> DEFINE t == Bundle(c, n, k)
  <1>1. t \in Seq(Msg) /\ DOMAIN t = 1..k
    BY BundleType DEF Bundle
  <1>2. Len(t) = k
    BY <1>1, LenProperties
  <1>3. \A i \in 1..k : t[i].from = c /\ t[i].kind = "SHIM_REQ"
    BY DEF Bundle, Message
  <1>3a. k \in 1..k /\ t[k].last
    <2>1. k \in 1..k
      OBVIOUS
    <2>2. t[k] = Message(c, "SHIM_REQ", n + k, k = k)
      BY <2>1 DEF Bundle
    <2>3. (k = k) = TRUE
      OBVIOUS
    <2>4. t[k].last = (k = k)
      BY <2>2 DEF Message
    <2>5. QED  BY <2>1, <2>3, <2>4
  <1> HIDE DEF t
  <1>4. Own(c, t)
    BY <1>1, <1>3 DEF Own, Shim
  <1>5. t[Len(t)].last
    BY <1>2, <1>3a
  <1>6. \A i \in 1..(Len(t) - 1) : Shim(t[i + 1])
    BY <1>2, <1>3 DEF Shim
  <1>7. TaskOK(c, t, "FIRST")
    BY <1>4, <1>5, <1>6 DEF TaskOK
  <1>8. QED  BY <1>7 DEF t

\* The topology request a reply's callback queues is a bundle of its own.
LEMMA ChainConcat ==
  ASSUME NEW c \in Clients, NEW p \in Seq(Msg), ChainOK(c, p, "FIRST"),
         NEW sends \in {<<>>, <<QueuedTopoReq(c)>>}
  PROVE  p \o sends \in Seq(Msg) /\ ChainOK(c, p \o sends, "FIRST")
  <1>1. CASE sends = <<>>
    BY <1>1, ConcatEmptySeq
  <1>2. CASE sends = <<QueuedTopoReq(c)>>
    <2> DEFINE e == QueuedTopoReq(c)
    <2>1. e \in Msg /\ e.from = c /\ e.last = TRUE /\ e.first = TRUE
      BY RequestType DEF QueuedTopoReq, TopoReq, Message
    <2>2. p \o sends = Append(p, e)
      BY <1>2, <2>1, AppendIsConcat
    <2>3. e = [e EXCEPT !.first = ("FIRST" = "FIRST")]
      BY <2>1 DEF Msg
    <2> HIDE DEF e
    <2>4. Append(p, e) \in Seq(Msg) /\ ChainOK(c, Append(p, e), "FIRST")
      BY <2>1, <2>3, ChainAppend
    <2>5. QED  BY <2>2, <2>4
  <1>3. QED  BY <1>1, <1>2

\* One client's part of ChainInv.
ChainAt(c) ==
    /\ TaskOK(c, task[c], m_iBundle[c]) /\ ChainOK(c, Pending(c), m_iBundle[c])
    /\ BlockOK(c)
    /\ ~open[c] => task[c] = <<>>

\* A step of c only has to keep the chain of c.
LEMMA ChainLocal ==
  ASSUME ChainInv, NEW c \in Clients, OnlySocket(c), ChainAt(c)',
         \A d \in Clients \ {c} : open'[d] = open[d]
  PROVE  ChainInv'
  <1>1. ASSUME NEW d \in Clients
        PROVE  ChainAt(d)'
    <2>1. CASE d = c
      BY <2>1
    <2>2. CASE d # c
      <3>1. Pending(d)' = Pending(d) /\ BlockOK(d)'
        BY <2>2, OnlySocketKeeps DEF ChainInv
      <3>2. QED  BY <2>2, <3>1 DEF ChainInv, ChainAt, OnlySocket
    <2>3. QED  BY <2>1, <2>2
  <1>2. QED  BY <1>1 DEF ChainInv, ChainAt

\* sendREQ keeps the chains.
LEMMA ChainSendREQ ==
  ASSUME Inv, ChainInv, NEW c \in Clients, sendREQ(c)
  PROVE  ChainInv'
  <1>1. OnlySocket(c) /\ BlockOK(c)'
    BY SendREQEffect
  <1>2. PICK m \in Msg, e \in Msg :
          /\ task[c] # <<>> /\ m = Head(task[c])
          /\ e = [m EXCEPT !.first = (m_iBundle[c] = "FIRST")]
          /\ task'[c] = Tail(task[c])
          /\ m_iBundle'[c] = IF m.last THEN "FIRST" ELSE "MIDDLE"
          /\ \/ Adds(c, e)
             \/ ~m_bREQInProgress[c] /\ m.last /\ Sends(c, Append(Pending(c), e), <<>>)
    BY SendREQEffect
  <1>3. /\ task[c] \in Seq(Msg) /\ m_iBundle[c] \in {"FIRST", "MIDDLE"}
        /\ Pending(c) \in Seq(Msg)
    BY PendingType DEF Inv, FabricType
  <1>4. TaskOK(c, task[c], m_iBundle[c]) /\ ChainOK(c, Pending(c), m_iBundle[c])
    BY DEF ChainInv
  <1>5. TaskOK(c, task'[c], m_iBundle'[c])
    BY <1>2, <1>3, <1>4, TaskTail
  <1>6. m.from = c /\ (~Shim(m) => m.last) /\ (m_iBundle[c] = "MIDDLE" => Shim(m))
    <2>1. m = task[c][1] /\ 1 \in DOMAIN task[c]
      BY <1>2, <1>3, HeadTailProperties, LenProperties, EmptySeq
    <2>2. QED  BY <1>4, <2>1 DEF TaskOK, Own
  <1>7. ChainOK(c, Append(Pending(c), e), m_iBundle'[c])
    BY <1>2, <1>3, <1>4, <1>6, ChainAppend
  <1>8. ChainOK(c, Pending(c)', m_iBundle'[c])
    <2>1. CASE Adds(c, e)
      BY <1>7, <2>1 DEF Adds
    <2>2. CASE m.last /\ Sends(c, Append(Pending(c), e), <<>>)
      BY <1>2, <2>2, EmptyChain DEF Sends
    <2>3. QED  BY <1>2, <2>1, <2>2
  <1>9. open' = open
    BY DEF sendREQ
  <1>10. ChainAt(c)'
    BY <1>1, <1>2, <1>5, <1>8, <1>9 DEF ChainAt, ChainInv
  <1>11. QED  BY <1>1, <1>9, <1>10, ChainLocal

\* A callback that ends leaves no bundle half built.
LEMMA AtRest ==
  ASSUME Inv, ChainInv, NEW c \in Clients, task[c] = <<>>
  PROVE  m_iBundle[c] = "FIRST" /\ m_pcSendBlk[c] = <<>>
  <1>1. m_iBundle[c] = "FIRST"
    BY DEF Inv, FabricType, ChainInv, TaskOK
  <1>2. m_pcSendBlk[c] = <<>>
    <2>1. CASE m_bREQInProgress[c]
      BY <2>1 DEF ChainInv, BlockOK
    <2>2. CASE ~m_bREQInProgress[c]
      <3> DEFINE s == m_pcSendBlk[c]
      <3>1. s \in Seq(Msg) /\ (s = <<>> \/ s[Len(s)].last) /\ \A i \in DOMAIN s : ~s[i].last
        BY <1>1, <2>2 DEF Inv, SocketInv, SocketType, ChainInv, ChainOK, Pending, BlockOK
      <3>2. s # <<>> => Len(s) \in DOMAIN s
        BY <3>1, LenProperties, EmptySeq
      <3>3. QED  BY <3>1, <3>2
    <2>3. QED  BY <2>1, <2>2
  <1>3. QED  BY <1>1, <1>2

\* readEvent keeps the chains.
LEMMA ChainReadReply ==
  ASSUME Inv, ChainInv, NEW c \in Clients, ReadReply(c), m_bREQInProgress[c]
  PROVE  ChainInv'
  <1>1. /\ OnlySocket(c) /\ BlockOK(c)'
        /\ task'[c] = <<>> /\ task[c] = <<>> /\ m_iBundle'[c] = m_iBundle[c]
    BY ReadReplyEffect
  <1>2. PICK sends \in {<<>>, <<QueuedTopoReq(c)>>}, q \in Seq(Msg) :
          /\ q = Pending(c) \o sends
          /\ \/ q = <<>> /\ Frees(c)
             \/ /\ q # <<>>
                /\ \E n : /\ n = BundleLength(q)
                          /\ Sends(c, SubSeq(q, 1, n), SubSeq(q, n + 1, Len(q)))
    BY ReadReplyEffect
  <1>3. m_iBundle[c] = "FIRST"
    BY <1>1, AtRest
  <1>4. ChainOK(c, q, "FIRST")
    BY <1>2, <1>3, PendingType, ChainConcat DEF ChainInv, Inv
  <1>5. ChainOK(c, Pending(c)', "FIRST")
    <2>1. CASE Frees(c)
      BY <2>1, EmptyChain DEF Frees
    <2>2. ASSUME q # <<>>, NEW n, n = BundleLength(q),
                 Sends(c, SubSeq(q, 1, n), SubSeq(q, n + 1, Len(q)))
          PROVE  ChainOK(c, Pending(c)', "FIRST")
      BY <1>4, <2>2, ChainSplit DEF Sends
    <2>3. QED  BY <1>2, <2>1, <2>2
  <1>6. open' = open
    BY DEF ReadReply
  <1>7. ChainAt(c)'
    BY <1>1, <1>3, <1>5, <1>6, EmptyChain DEF ChainAt, ChainInv
  <1>8. QED  BY <1>1, <1>6, <1>7, ChainLocal

\* Every step keeps the chains.
LEMMA ChainStep ==
  ASSUME Inv, ChainInv, OutInv, [Next]_vars
  PROVE  ChainInv'
  <1> DEFINE Same == UNCHANGED <<open, task, m_iBundle, m_bREQInProgress, m_cQueue, m_pcSendBlk>>
  <1>0. Same => ChainInv'
    BY DEF ChainInv, BlockOK, Pending
  <1>1. ASSUME NEW c \in Clients, addPeer(c) PROVE ChainInv'
    <2>1. /\ ~open[c] /\ open' = [open EXCEPT ![c] = TRUE] /\ task' = [task EXCEPT ![c] = <<JoinReq(c)>>]
          /\ UNCHANGED <<m_iBundle, m_bREQInProgress, m_cQueue, m_pcSendBlk, pipe>>
      BY <1>1 DEF addPeer, socket, zmq
    <2>2. open'[c] = TRUE /\ task'[c] = <<JoinReq(c)>> /\ task[c] = <<>>
      BY <2>1 DEF Inv, FabricType, ChainInv
    <2>3. m_iBundle[c] = "FIRST"
      BY <2>2, AtRest
    <2>4. OnlySocket(c) /\ \A d \in Clients \ {c} : open'[d] = open[d]
      BY <2>1 DEF OnlySocket, Inv, FabricType
    <2>5. ChainAt(c)'
      BY <2>1, <2>2, <2>3, OwnTasks DEF ChainAt, ChainInv, BlockOK, Pending
    <2>6. QED  BY <2>4, <2>5, ChainLocal
  <1>2. ASSUME NEW c \in Clients, delPeer(c) PROVE ChainInv'
    <2>1. /\ task[c] = <<>> /\ task' = task
          /\ open' = [open EXCEPT ![c] = FALSE]
          /\ m_bREQInProgress' = [m_bREQInProgress EXCEPT ![c] = FALSE]
          /\ m_iBundle' = [m_iBundle EXCEPT ![c] = "FIRST"]
          /\ m_cQueue' = [m_cQueue EXCEPT ![c] = <<>>]
          /\ m_pcSendBlk' = [m_pcSendBlk EXCEPT ![c] = <<>>]
          /\ pipe' = [pipe EXCEPT ![c] = <<>>]
      BY <1>2 DEF delPeer, closeSocket
    <2>2. /\ m_bREQInProgress'[c] = FALSE /\ m_iBundle'[c] = "FIRST" /\ m_pcSendBlk'[c] = <<>>
          /\ task'[c] = <<>>
      BY <2>1 DEF Inv, FabricType, SocketInv, SocketType
    <2>3. OnlySocket(c) /\ \A d \in Clients \ {c} : open'[d] = open[d]
      BY <2>1 DEF OnlySocket, Inv, FabricType, SocketInv, SocketType
    <2>4. ChainAt(c)'
      BY <2>2, EmptyChain, EmptySeq DEF ChainAt, BlockOK, Pending
    <2>5. QED  BY <2>3, <2>4, ChainLocal
  <1>3. ASSUME NEW c \in Clients, SendBundle(c) PROVE ChainInv'
    <2>1. PICK k \in BundleSizes : task' = [task EXCEPT ![c] = Bundle(c, made[c], k)]
      BY <1>3 DEF SendBundle
    <2>2. /\ open[c] /\ task[c] = <<>>
          /\ UNCHANGED <<open, m_iBundle, m_bREQInProgress, m_cQueue, m_pcSendBlk, pipe>>
      BY <1>3 DEF SendBundle, socket, zmq
    <2>3. m_iBundle[c] = "FIRST"
      BY <2>2, AtRest
    <2>4. k \in Nat \ {0} /\ made[c] \in Nat
      BY BundleSizesAssumption, BoundsAssumption DEF Inv, FabricType
    <2>5. TaskOK(c, Bundle(c, made[c], k), "FIRST")
      BY <2>4, BundleTask
    <2>6. task'[c] = Bundle(c, made[c], k) /\ \A d \in Clients \ {c} : task'[d] = task[d]
      BY <2>1 DEF Inv, FabricType
    <2>7. OnlySocket(c)
      BY <2>2, <2>6 DEF OnlySocket
    <2>8. ChainAt(c)'
      BY <2>2, <2>3, <2>5, <2>6 DEF ChainAt, ChainInv, BlockOK, Pending
    <2>9. QED  BY <2>2, <2>7, <2>8, ChainLocal
  <1>4. ASSUME NEW c \in Clients, sendREQ(c) PROVE ChainInv'
    BY <1>4, ChainSendREQ
  <1>5. ASSUME NEW c \in Clients, ReadReply(c) PROVE ChainInv'
    <2>1. m_bREQInProgress[c]
      BY <1>5 DEF ReadReply, OutInv, OutAt
    <2>2. QED  BY <1>5, <2>1, ChainReadReply
  <1>6. ASSUME NEW c \in Clients, disconnected(c) PROVE ChainInv'
    <2>1. PICK topo \in {<<>>, <<TopoReq(c)>>} :
              task' = [task EXCEPT ![c] = topo \o <<JoinReq(c)>>]
      BY <1>6 DEF disconnected, disconnect, rejoinReq
    <2>2. /\ open[c] /\ task[c] = <<>> /\ m_cQueue' = [m_cQueue EXCEPT ![c] = <<>>]
          /\ UNCHANGED <<open, m_iBundle, m_bREQInProgress, m_pcSendBlk, pipe>>
      BY <1>6 DEF disconnected, flushQ
    <2>3. m_iBundle[c] = "FIRST" /\ m_pcSendBlk[c] = <<>>
      BY <2>2, AtRest
    <2>5. TaskOK(c, topo \o <<JoinReq(c)>>, "FIRST")
      <3>1. JoinReq(c) \in Msg
        BY RequestType
      <3>2. CASE topo = <<>>
        <4>1. <<JoinReq(c)>> \in Seq(Msg)
          BY <3>1
        <4>2. <<>> \o <<JoinReq(c)>> = <<JoinReq(c)>>
          BY <4>1, ConcatEmptySeq
        <4>3. QED  BY <3>2, <4>2, OwnTasks
      <3>3. CASE topo = <<TopoReq(c)>>
        BY <3>3, OwnTasks
      <3>4. QED  BY <3>2, <3>3
    <2>6. task'[c] = topo \o <<JoinReq(c)>> /\ \A d \in Clients \ {c} : task'[d] = task[d]
      BY <2>1 DEF Inv, FabricType
    <2>7. m_cQueue'[c] = <<>> /\ \A d \in Clients \ {c} : m_cQueue'[d] = m_cQueue[d]
      BY <2>2 DEF Inv, SocketInv, SocketType
    <2>8. OnlySocket(c)
      BY <2>2, <2>6, <2>7 DEF OnlySocket
    <2>9. Pending(c)' = <<>>
      BY <2>2, <2>3, <2>7 DEF Pending
    <2>10. BlockOK(c)'
      BY <2>2, <2>3, EmptySeq DEF BlockOK
    <2>11. ChainAt(c)'
      BY <2>2, <2>3, <2>5, <2>6, <2>9, <2>10, EmptyChain DEF ChainAt
    <2>12. QED  BY <2>2, <2>8, <2>11, ChainLocal
  <1>7. ASSUME NEW c \in Clients, Connect(c) \/ Disconnect(c) \/ Deliver(c) \/ RepRecv(c) PROVE Same
    BY <1>7 DEF Connect, Disconnect, Deliver, RepRecv, fabric, socket
  <1>8. ASSUME RepPart \/ CassiDequeue PROVE Same
    BY <1>8 DEF RepPart, CassiDequeue, fabric, socket
  <1>9. ASSUME UNCHANGED vars PROVE Same
    BY <1>9 DEF vars, fabric, socket
  <1> HIDE DEF Same
  <1>10. QED
    BY <1>0, <1>1, <1>2, <1>3, <1>4, <1>5, <1>6, <1>7, <1>8, <1>9 DEF Next

-----------------------------------------------------------------------------
(* Requests on the way and at the server *)

\* What is left of a request after one part.
LEMMA RestTail ==
  ASSUME NEW c \in Clients, NEW s \in Seq(Msg), IsRest(c, s)
  PROVE  /\ Head(s) \in Msg /\ Head(s) = s[1] /\ s[1].from = c
         /\ ~Shim(s[1]) => s[1].last /\ s[1].first
         /\ Tail(s) \in Seq(Msg)
         /\ Tail(s) = <<>> => s[1].last
         /\ Tail(s) # <<>> =>
              /\ IsRest(c, Tail(s)) /\ Tail(s)[1].from = c
              /\ ~s[1].last /\ ~Tail(s)[1].first
  <1> DEFINE u == Tail(s)
  <1>1. /\ s # <<>> /\ Len(s) \in Nat \ {0} /\ DOMAIN s = 1..Len(s)
        /\ Head(s) \in Msg /\ Head(s) = s[1]
    BY LenProperties, EmptySeq, HeadTailProperties DEF IsRest
  <1>2. u \in Seq(Msg) /\ Len(u) = Len(s) - 1 /\ \A i \in 1..Len(u) : u[i] = s[i + 1]
    BY <1>1, HeadTailProperties
  <1>3. DOMAIN u = 1..Len(u) /\ Len(u) \in Nat
    BY <1>2, LenProperties
  <1>4. 1 \in DOMAIN s
    BY <1>1
  <1>5. s[1].from = c /\ (~Shim(s[1]) => s[1].last /\ s[1].first)
    BY <1>4 DEF IsRest, OwnSent, Own
  <1> HIDE DEF u
  <1>6. u = <<>> => s[1].last
    <2>1. u = <<>> => Len(u) = 0
      BY EmptySeq
    <2>2. Len(u) = Len(s) - 1 /\ Len(s) \in Nat
      BY <1>1, <1>2
    <2>3. Len(u) = 0 => Len(s) = 1
      BY <2>2
    <2>4. s[Len(s)].last
      BY DEF IsRest
    <2>5. QED  BY <2>1, <2>3, <2>4
  <1>7. ASSUME u # <<>>
        PROVE  IsRest(c, u) /\ u[1].from = c /\ ~s[1].last /\ ~u[1].first
    <2>1. Len(u) >= 1
      BY <1>2, <1>3, <1>7, EmptySeq
    <2>2. \A i \in 1..Len(u) : i + 1 \in DOMAIN s /\ u[i] = s[i + 1]
      BY <1>1, <1>2, <1>3
    <2>3. OwnSent(c, u)
      BY <1>3, <2>2 DEF IsRest, OwnSent, Own
    <2>4. u[Len(u)].last
      <3>1. u[Len(u)] = s[Len(s)]
        BY <1>1, <1>2, <1>3, <2>1, <2>2
      <3>2. QED  BY <3>1 DEF IsRest
    <2>5. \A i \in 1..(Len(u) - 1) : ~u[i].last /\ ~u[i + 1].first
      <3> SUFFICES ASSUME NEW i \in 1..(Len(u) - 1) PROVE ~u[i].last /\ ~u[i + 1].first
        OBVIOUS
      <3> DEFINE j == i + 1
      <3>1. j \in 1..(Len(s) - 1) /\ j \in 1..Len(u) /\ i \in 1..Len(u)
        BY <1>1, <1>2, <1>3
      <3>2. u[i] = s[j] /\ u[j] = s[j + 1]
        BY <2>2, <3>1
      <3> HIDE DEF j
      <3>3. ~s[j].last /\ ~s[j + 1].first
        BY <3>1 DEF IsRest
      <3>4. QED  BY <3>2, <3>3 DEF j
    <2>6. 1 \in 1..(Len(s) - 1) /\ u[1] = s[1 + 1] /\ 1 \in DOMAIN u
      BY <1>1, <1>2, <1>3, <2>1
    <2>7. ~s[1].last /\ ~s[1 + 1].first
      BY <2>6 DEF IsRest
    <2>8. u[1].from = c
      BY <2>3, <2>6 DEF OwnSent, Own
    <2>9. QED  BY <1>7, <2>3, <2>4, <2>5, <2>6, <2>7, <2>8 DEF IsRest
  <1>8. QED  BY <1>1, <1>2, <1>5, <1>6, <1>7 DEF u

\* A request of c is marked as nobody's, nothing else.
LEMMA OrphanEffect ==
  ASSUME Inv, NEW c \in Clients, Orphan(c)
  PROVE  /\ \A d \in Clients \ {c} : repIn'[d] = repIn[d]
         /\ DOMAIN repIn'[c] = DOMAIN repIn[c]
         /\ \A i \in DOMAIN repIn[c] : repIn'[c][i].parts = repIn[c][i].parts /\ ~repIn'[c][i].alive
         /\ repCur'.state = repCur.state /\ repCur'.parts = repCur.parts
         /\ repCur'.alive => repCur.alive
         /\ repCur.parts = <<>> => repCur' = repCur
         /\ repCur.parts # <<>> /\ repCur.parts[1].from = c => ~repCur'.alive
  <1>1. repIn \in [Clients -> Seq(Request)] /\ repCur \in RepStates
    BY DEF Inv, ServerInv
  <1>2. \A d \in Clients \ {c} : repIn'[d] = repIn[d]
    BY <1>1 DEF Orphan
  <1>3. repIn'[c] = [i \in DOMAIN repIn[c] |-> [repIn[c][i] EXCEPT !.alive = FALSE]]
    BY <1>1 DEF Orphan
  <1>4. \A i \in DOMAIN repIn[c] : repIn[c][i] \in Request
    BY <1>1, ElementOfSeq, LenProperties
  <1>5. \A i \in DOMAIN repIn[c] : repIn'[c][i] = [repIn[c][i] EXCEPT !.alive = FALSE]
    BY <1>3
  <1>6. \A i \in DOMAIN repIn[c] : repIn'[c][i].parts = repIn[c][i].parts /\ ~repIn'[c][i].alive
    BY <1>4, <1>5 DEF Request
  <1>7. repCur' = IF repCur.parts # <<>> /\ repCur.parts[1].from = c
                  THEN [repCur EXCEPT !.alive = FALSE] ELSE repCur
    BY DEF Orphan
  <1>8. /\ repCur'.state = repCur.state /\ repCur'.parts = repCur.parts
        /\ repCur'.alive => repCur.alive
        /\ repCur.parts = <<>> => repCur' = repCur
        /\ repCur.parts # <<>> /\ repCur.parts[1].from = c => ~repCur'.alive
    BY <1>1, <1>7 DEF RepStates
  <1>9. QED  BY <1>2, <1>3, <1>6, <1>8

\* The callback of one part answers only the last part of a request.
LEMMA RepPartEffect ==
  ASSUME Inv, FlightInv, RepPart
  PROVE  /\ UNCHANGED <<task, made, m_iBundle, m_bREQInProgress, m_cQueue, m_pcSendBlk, pipe, repIn>>
         /\ repCur.state = "parts" /\ repCur.parts \in Seq(Msg) /\ repCur.parts # <<>>
         /\ IsRest(repCur.parts[1].from, repCur.parts) /\ repCur.parts[1].from \in Clients
         /\ \E answered \in BOOLEAN :
              /\ answered => repCur.parts[1].last
              /\ answered /\ Shim(repCur.parts[1]) =>
                    m_cFabricToCassi' = Append(m_cFabricToCassi, repCur.parts[1])
              /\ repCur' = IF Tail(repCur.parts) # <<>> THEN [repCur EXCEPT !.parts = Tail(repCur.parts)]
                           ELSE IF answered THEN Idle
                           ELSE [repCur EXCEPT !.state = "reply"]
              /\ reply' = IF answered /\ repCur.alive
                          THEN [reply EXCEPT ![repCur.parts[1].from] = Append(@, repCur.parts[1].kind)]
                          ELSE reply
         /\ \/ UNCHANGED m_cFabricToCassi
            \/ /\ Shim(repCur.parts[1])
               /\ m_cFabricToCassi' = Append(m_cFabricToCassi, repCur.parts[1])
  <1> DEFINE s == repCur.parts
             m == Head(s)
  <1>1. repCur.state = "parts" /\ s \in Seq(Msg) /\ s # <<>>
    BY DEF RepPart, Inv, ServerInv, RepStates
  <1>2. IsRest(s[1].from, s)
    BY <1>1 DEF FlightInv, RepCurOK
  <1>3. m \in Msg /\ m = s[1]
    BY <1>1, HeadTailProperties
  <1>4. m.from \in Clients
    BY <1>3, MsgFields
  <1>5. ~Shim(m) => m.last
    BY <1>1, <1>2, <1>3, <1>4, RestTail
  <1>6. UNCHANGED <<task, made, m_iBundle, m_bREQInProgress, m_cQueue, m_pcSendBlk, pipe, repIn>>
    BY DEF RepPart, fabric, socket
  <1>7. m.last \in BOOLEAN
    BY <1>3, MsgFields
  <1>8. processJoinReq(m) \/ processTopoReq(m) \/ processShimReq(m)
    BY DEF RepPart
  <1>9. /\ \E answered \in BOOLEAN :
              /\ answered => m.last
              /\ answered /\ Shim(m) => m_cFabricToCassi' = Append(m_cFabricToCassi, m)
              /\ Answer(m, answered)
        /\ \/ UNCHANGED m_cFabricToCassi
           \/ Shim(m) /\ m_cFabricToCassi' = Append(m_cFabricToCassi, m)
    <2> HIDE DEF m
    <2>1. CASE processJoinReq(m) \/ processTopoReq(m)
      BY <1>5, <2>1 DEF processJoinReq, processTopoReq, Shim
    <2>2. CASE processShimReq(m)
      BY <1>7, <2>2 DEF processShimReq, Shim
    <2>3. QED  BY <1>8, <2>1, <2>2
  <1>10. QED  BY <1>1, <1>2, <1>3, <1>4, <1>6, <1>9 DEF Answer

\* What sendREQ or unblockREQ hands to ZeroMQ is a bundle.
LEMMA PipeSendREQ ==
  ASSUME Inv, ChainInv, FlightInv, NEW c \in Clients, sendREQ(c)
  PROVE  \A d \in Clients : PipeOK(d)'
  <1>1. OnlySocket(c)
    BY SendREQEffect
  <1>2. PICK m \in Msg, e \in Msg :
              /\ task[c] # <<>> /\ m = Head(task[c])
              /\ e = [m EXCEPT !.first = (m_iBundle[c] = "FIRST")]
              /\ \/ Adds(c, e)
                 \/ ~m_bREQInProgress[c] /\ m.last /\ Sends(c, Append(Pending(c), e), <<>>)
    BY SendREQEffect
  <1>3. \A d \in Clients \ {c} : PipeOK(d)'
    BY <1>1 DEF OnlySocket, FlightInv, PipeOK
  <1>4. PipeOK(c)'
    <2>1. CASE Adds(c, e)
      BY <2>1 DEF Adds, FlightInv, PipeOK
    <2>2. CASE ~m_bREQInProgress[c] /\ m.last /\ Sends(c, Append(Pending(c), e), <<>>)
      <3> DEFINE p == Pending(c)
                 b == m_iBundle[c]
      <3>1. p \in Seq(Msg) /\ b \in {"FIRST", "MIDDLE"} /\ ChainOK(c, p, b)
        BY PendingType DEF ChainInv, Inv, FabricType
      <3>2. \A i \in DOMAIN p : ~p[i].last
        BY <2>2 DEF ChainInv, BlockOK, Pending
      <3>3. task[c] \in Seq(Msg) /\ TaskOK(c, task[c], b) /\ 1 \in DOMAIN task[c] /\ m = task[c][1]
        BY <1>2, HeadTailProperties, LenProperties, EmptySeq DEF Inv, FabricType, ChainInv
      <3>4. m.from = c /\ (~Shim(m) => m.last) /\ (b = "MIDDLE" => Shim(m))
        BY <3>3 DEF TaskOK, Own
      <3> HIDE DEF p, b
      <3>5. IsBundle(c, Append(p, e))
        BY <1>2, <2>2, <3>1, <3>2, <3>4, ChainAppend DEF b
      <3>6. QED  BY <2>2, <3>5 DEF Sends, PipeOK, p
    <2>3. QED  BY <1>2, <2>1, <2>2
  <1>5. QED  BY <1>3, <1>4

\* What unblockREQ hands to ZeroMQ is a bundle.
LEMMA PipeReadReply ==
  ASSUME Inv, ChainInv, FlightInv, NEW c \in Clients, ReadReply(c), m_bREQInProgress[c]
  PROVE  \A d \in Clients : PipeOK(d)'
  <1>1. OnlySocket(c) /\ task[c] = <<>>
    BY ReadReplyEffect
  <1>2. PICK sends \in {<<>>, <<QueuedTopoReq(c)>>}, q \in Seq(Msg) :
          /\ q = Pending(c) \o sends
          /\ \/ q = <<>> /\ Frees(c)
             \/ /\ q # <<>>
                /\ \E n : /\ n = BundleLength(q)
                          /\ Sends(c, SubSeq(q, 1, n), SubSeq(q, n + 1, Len(q)))
    BY ReadReplyEffect
  <1>3. m_iBundle[c] = "FIRST"
    BY <1>1, AtRest
  <1>4. ChainOK(c, q, "FIRST")
    BY <1>2, <1>3, PendingType, ChainConcat DEF ChainInv, Inv
  <1>5. PipeOK(c)'
    <2>1. CASE Frees(c)
      BY <2>1 DEF Frees, FlightInv, PipeOK
    <2>2. ASSUME q # <<>>, NEW n, n = BundleLength(q),
                 Sends(c, SubSeq(q, 1, n), SubSeq(q, n + 1, Len(q)))
          PROVE  PipeOK(c)'
      BY <1>4, <2>2, ChainSplit DEF Sends, PipeOK
    <2>3. QED  BY <1>2, <2>1, <2>2
  <1>6. \A d \in Clients \ {c} : PipeOK(d)'
    BY <1>1 DEF OnlySocket, FlightInv, PipeOK
  <1>7. QED  BY <1>5, <1>6

\* Every step keeps whole bundles on the way and at the server.
LEMMA FlightStep ==
  ASSUME Inv, ChainInv, FlightInv, OutInv, [Next]_vars
  PROVE  FlightInv'
  <1> DEFINE Pipe == \A c \in Clients : PipeOK(c)
             RepIn == \A c \in Clients : RepInOK(c)
  <1>a. pipe' = pipe => Pipe'
    BY DEF FlightInv, PipeOK
  <1>b. repIn' = repIn => RepIn'
    BY DEF FlightInv, RepInOK
  <1>c. repCur' = repCur => RepCurOK'
    BY DEF FlightInv, RepCurOK
  <1>d. Pipe' /\ RepIn' /\ RepCurOK' => FlightInv'
    BY DEF FlightInv
  <1>e. \A c \in Clients : repIn[c] \in Seq(Request) /\ DOMAIN repIn[c] = 1..Len(repIn[c]) /\ Len(repIn[c]) \in Nat
    BY LenProperties DEF Inv, ServerInv
  <1> HIDE DEF Pipe, RepIn
  <1>1. ASSUME NEW c \in Clients, addPeer(c) \/ SendBundle(c) \/ disconnected(c) \/ Connect(c)
        PROVE  FlightInv'
    <2>1. pipe' = pipe /\ repIn' = repIn /\ repCur' = repCur
      BY <1>1 DEF addPeer, SendBundle, disconnected, Connect, zmq, server
    <2>2. QED  BY <1>a, <1>b, <1>c, <1>d, <2>1
  <1>2. ASSUME NEW c \in Clients, Orphan(c) PROVE RepIn' /\ RepCurOK'
    <2>1. ASSUME NEW d \in Clients PROVE RepInOK(d)'
      BY <1>2, OrphanEffect DEF FlightInv, RepInOK
    <2>2. RepCurOK'
      <3>1. CASE repCur.state = "recv"
        <4>1. repCur.parts = <<>> /\ repCur = Idle
          BY <3>1 DEF FlightInv, RepCurOK, Idle
        <4>2. repCur' = repCur
          BY <1>2, <4>1, OrphanEffect
        <4>3. QED  BY <1>c, <4>2
      <3>2. CASE repCur.state # "recv"
        BY <1>2, <3>2, OrphanEffect DEF FlightInv, RepCurOK
      <3>3. QED  BY <3>1, <3>2
    <2>3. QED  BY <2>1, <2>2 DEF RepIn
  <1>3. ASSUME NEW c \in Clients, delPeer(c) PROVE FlightInv'
    <2>1. pipe' = [pipe EXCEPT ![c] = <<>>] /\ Orphan(c)
      BY <1>3 DEF delPeer, closeSocket
    <2>2. Pipe'
      BY <2>1 DEF FlightInv, PipeOK, Inv, SocketInv, SocketType, Pipe
    <2>3. QED  BY <1>2, <1>d, <2>1, <2>2
  <1>4. ASSUME NEW c \in Clients, sendREQ(c) PROVE FlightInv'
    <2>1. repIn' = repIn /\ repCur' = repCur
      BY <1>4 DEF sendREQ, server
    <2>2. Pipe'
      BY <1>4, PipeSendREQ DEF Pipe
    <2>3. QED  BY <1>b, <1>c, <1>d, <2>1, <2>2
  <1>5. ASSUME NEW c \in Clients, ReadReply(c) PROVE FlightInv'
    <2>1. repIn' = repIn /\ repCur' = repCur
      BY <1>5 DEF ReadReply, server
    <2>2. m_bREQInProgress[c]
      BY <1>5 DEF ReadReply, OutInv, OutAt
    <2>3. Pipe'
      BY <1>5, <2>2, PipeReadReply DEF Pipe
    <2>4. QED  BY <1>b, <1>c, <1>d, <2>1, <2>3
  <1>6. ASSUME NEW c \in Clients, Disconnect(c) PROVE FlightInv'
    <2>1. pipe' = pipe
      BY <1>6 DEF Disconnect
    <2>2. CASE Orphan(c)
      BY <1>2, <1>a, <1>d, <2>1, <2>2
    <2>3. CASE repIn' = [repIn EXCEPT ![c] = <<>>] /\ UNCHANGED repCur
      <3>1. RepIn'
        BY <2>3, EmptySeq DEF FlightInv, RepInOK, RepIn, Inv, ServerInv
      <3>2. QED  BY <1>a, <1>c, <1>d, <2>1, <2>3, <3>1
    <2>4. QED  BY <1>6, <2>2, <2>3 DEF Disconnect
  <1>7. ASSUME NEW c \in Clients, Deliver(c) PROVE FlightInv'
    <2> DEFINE r == [parts |-> pipe[c], alive |-> TRUE]
    <2>1. /\ pipe[c] # <<>> /\ pipe' = [pipe EXCEPT ![c] = <<>>] /\ repCur' = repCur
          /\ repIn' = [repIn EXCEPT ![c] = Append(@, r)]
      BY <1>7 DEF Deliver
    <2>2. Pipe'
      BY <2>1 DEF FlightInv, PipeOK, Inv, SocketInv, SocketType, Pipe
    <2>3. IsBundle(c, r.parts)
      BY <2>1 DEF FlightInv, PipeOK
    <2>4. r \in Request
      BY <2>1 DEF Request, Inv, SocketInv, SocketType
    <2> HIDE DEF r
    <2>5. /\ repIn'[c] = Append(repIn[c], r)
          /\ \A d \in Clients \ {c} : repIn'[d] = repIn[d]
      BY <2>1 DEF Inv, ServerInv
    <2>6. RepInOK(c)'
      <3> DEFINE t == repIn[c]
                 u == Append(t, r)
      <3>1. /\ u \in Seq(Request) /\ Len(u) = Len(t) + 1 /\ u[Len(t) + 1] = r
            /\ \A i \in 1..Len(t) : u[i] = t[i]
        BY <1>e, <2>4, AppendProperties
      <3>2. DOMAIN u = 1..(Len(t) + 1) /\ DOMAIN t = 1..Len(t) /\ Len(t) \in Nat
        BY <1>e, <3>1, LenProperties
      <3>3. \A i \in DOMAIN t : IsBundle(c, t[i].parts)
        BY DEF FlightInv, RepInOK
      <3> HIDE DEF t, u
      <3>4. \A i \in DOMAIN u : i \in DOMAIN t \/ i = Len(t) + 1
        BY <3>2
      <3>5. \A i \in DOMAIN u : IsBundle(c, u[i].parts)
        BY <2>3, <3>1, <3>2, <3>3, <3>4
      <3>6. QED  BY <2>5, <3>5 DEF RepInOK, t, u
    <2>7. \A d \in Clients \ {c} : RepInOK(d)'
      BY <2>5 DEF FlightInv, RepInOK
    <2>8. RepIn'
      BY <2>6, <2>7 DEF RepIn
    <2>9. QED  BY <1>c, <1>d, <2>1, <2>2, <2>8
  <1>8. ASSUME NEW c \in Clients, RepRecv(c) PROVE FlightInv'
    <2> DEFINE t == repIn[c]
    <2>1. /\ t # <<>> /\ repIn' = [repIn EXCEPT ![c] = Tail(t)] /\ pipe' = pipe
          /\ repCur' = [state |-> "parts", parts |-> Head(t).parts, alive |-> Head(t).alive]
      BY <1>8 DEF RepRecv, zmq
    <2>2. t \in Seq(Request) /\ \A i \in DOMAIN t : IsBundle(c, t[i].parts)
      BY <1>e DEF FlightInv, RepInOK
    <2>3. /\ repIn'[c] = Tail(t) /\ \A d \in Clients \ {c} : repIn'[d] = repIn[d]
          /\ repCur'.state = "parts" /\ repCur'.parts = Head(t).parts
      BY <2>1 DEF Inv, ServerInv
    <2> HIDE DEF t
    <2>4. /\ Head(t) = t[1] /\ Tail(t) \in Seq(Request) /\ Len(Tail(t)) = Len(t) - 1
          /\ \A i \in 1..Len(Tail(t)) : Tail(t)[i] = t[i + 1]
      BY <2>1, <2>2, HeadTailProperties
    <2>5. /\ DOMAIN t = 1..Len(t) /\ DOMAIN Tail(t) = 1..Len(Tail(t)) /\ Len(t) \in Nat /\ Len(t) # 0
      BY <2>1, <2>2, <2>4, LenProperties, EmptySeq
    <2>6. \A i \in DOMAIN Tail(t) : i + 1 \in DOMAIN t
      BY <2>4, <2>5
    <2>7. RepInOK(c)'
      BY <2>2, <2>3, <2>4, <2>5, <2>6 DEF RepInOK
    <2>8. \A d \in Clients \ {c} : RepInOK(d)'
      BY <2>3 DEF FlightInv, RepInOK
    <2>9. RepIn'
      BY <2>7, <2>8 DEF RepIn
    <2>10. 1 \in DOMAIN t /\ t[1] \in Request
      BY <2>2, <2>5, ElementOfSeq
    <2>11. IsBundle(c, t[1].parts) /\ t[1].parts \in Seq(Msg)
      BY <2>2, <2>10 DEF Request
    <2>12. t[1].parts # <<>> /\ t[1].parts[1].from = c
      BY <2>11, RestTail DEF IsBundle, IsRest
    <2>13. RepCurOK'
      BY <2>3, <2>4, <2>11, <2>12 DEF RepCurOK, IsBundle
    <2>14. QED  BY <1>a, <1>d, <2>1, <2>9, <2>13
  <1>9. ASSUME RepPart PROVE FlightInv'
    <2> DEFINE s == repCur.parts
    <2>1. /\ pipe' = pipe /\ repIn' = repIn
          /\ repCur.state = "parts" /\ s \in Seq(Msg) /\ s # <<>>
          /\ IsRest(s[1].from, s) /\ s[1].from \in Clients
      BY <1>9, RepPartEffect
    <2>2. PICK answered \in BOOLEAN :
            repCur' = IF Tail(s) # <<>> THEN [repCur EXCEPT !.parts = Tail(s)]
                      ELSE IF answered THEN Idle
                      ELSE [repCur EXCEPT !.state = "reply"]
      BY <1>9, RepPartEffect
    <2>3. Tail(s) # <<>> => IsRest(s[1].from, Tail(s)) /\ Tail(s)[1].from = s[1].from
      BY <2>1, RestTail
    <2>4. repCur \in RepStates
      BY DEF Inv, ServerInv
    <2>5. RepCurOK'
      <3>1. CASE Tail(s) # <<>>
        <4>1. repCur'.state = "parts" /\ repCur'.parts = Tail(s)
          BY <2>1, <2>2, <2>4, <3>1 DEF RepStates
        <4>2. QED  BY <2>3, <3>1, <4>1 DEF RepCurOK
      <3>2. CASE repCur' = Idle
        BY <3>2 DEF RepCurOK, Idle
      <3>3. CASE repCur' = [repCur EXCEPT !.state = "reply"]
        <4>1. repCur'.state = "reply" /\ repCur'.parts = s
          BY <2>4, <3>3 DEF RepStates
        <4>2. QED  BY <2>1, <4>1 DEF RepCurOK
      <3>4. QED  BY <2>2, <3>1, <3>2, <3>3
    <2>6. QED  BY <1>a, <1>b, <1>d, <2>1, <2>5
  <1>10. ASSUME CassiDequeue \/ UNCHANGED vars PROVE FlightInv'
    <2>1. pipe' = pipe /\ repIn' = repIn /\ repCur' = repCur
      BY <1>10 DEF CassiDequeue, vars, zmq, server
    <2>2. QED  BY <1>a, <1>b, <1>c, <1>d, <2>1
  <1>11. QED
    BY <1>1, <1>3, <1>4, <1>5, <1>6, <1>7, <1>8, <1>9, <1>10 DEF Next

-----------------------------------------------------------------------------
(* One request at a time *)

\* The state OutAt(d) reads is as it was.
OutSame(d) ==
    /\ m_bREQInProgress'[d] = m_bREQInProgress[d] /\ pipe'[d] = pipe[d]
    /\ reply'[d] = reply[d] /\ repIn'[d] = repIn[d]

\* A client whose requests do not move keeps its count.
LEMMA OutKept ==
  ASSUME NEW d \in Clients, OutAt(d), OutSame(d), Reads(d)' => Reads(d)
  PROVE  OutAt(d)'
  <1>1. Alive(d)' = Alive(d)
    BY DEF Alive, OutSame
  <1>2. QED  BY <1>1 DEF OutAt, OutSame

\* After a lost session no request of c at the server will be answered.
LEMMA OutOrphan ==
  ASSUME Inv, FlightInv, NEW c \in Clients, Orphan(c)
  PROVE  /\ Alive(c)' = {} /\ ~Reads(c)'
         /\ \A d \in Clients : Reads(d)' => Reads(d)
         /\ \A d \in Clients \ {c} : repIn'[d] = repIn[d]
  <1>1. Alive(c)' = {}
    BY OrphanEffect DEF Alive
  <1>2. repCur.state # "recv" => repCur.parts # <<>>
    BY DEF FlightInv, RepCurOK
  <1>3. \A d \in Clients : Reads(d)' => Reads(d)
    BY OrphanEffect DEF Reads
  <1>4. ~Reads(c)'
    BY <1>2, OrphanEffect DEF Reads
  <1>5. QED  BY <1>1, <1>3, <1>4, OrphanEffect

\* Every step keeps one request at a time.
LEMMA OutStep ==
  ASSUME Inv, ChainInv, FlightInv, OutInv, [Next]_vars
  PROVE  OutInv'
  <1>a. ASSUME \A d \in Clients : OutSame(d), repCur' = repCur PROVE OutInv'
    <2>1. \A d \in Clients : Reads(d)' => Reads(d)
      BY <1>a DEF Reads
    <2>2. QED  BY <1>a, <2>1, OutKept DEF OutInv
  <1>b. ASSUME NEW c \in Clients, OutAt(c)', \A d \in Clients \ {c} : OutSame(d) /\ (Reads(d)' => Reads(d))
        PROVE  OutInv'
    BY <1>b, OutKept DEF OutInv
  <1>c. /\ m_bREQInProgress \in [Clients -> BOOLEAN] /\ pipe \in [Clients -> Seq(Msg)]
        /\ reply \in [Clients -> Seq(Kinds)] /\ repIn \in [Clients -> Seq(Request)]
        /\ repCur \in RepStates
    BY DEF Inv, SocketInv, SocketType, NetInv, NetType, ServerInv
  <1>1. ASSUME NEW c \in Clients, addPeer(c) \/ SendBundle(c) \/ disconnected(c) \/ Connect(c)
        PROVE  OutInv'
    <2>1. UNCHANGED <<m_bREQInProgress, pipe, reply, repIn, repCur>>
      BY <1>1 DEF addPeer, SendBundle, disconnected, Connect, socket, zmq, server
    <2>2. QED  BY <1>a, <2>1 DEF OutSame
  <1>2. ASSUME NEW c \in Clients, delPeer(c) PROVE OutInv'
    <2>1. /\ m_bREQInProgress' = [m_bREQInProgress EXCEPT ![c] = FALSE]
          /\ pipe' = [pipe EXCEPT ![c] = <<>>]
          /\ reply' = [reply EXCEPT ![c] = <<>>]
          /\ Orphan(c)
      BY <1>2 DEF delPeer, closeSocket
    <2>2. /\ Alive(c)' = {} /\ ~Reads(c)'
          /\ \A d \in Clients : Reads(d)' => Reads(d)
          /\ \A d \in Clients \ {c} : repIn'[d] = repIn[d]
      BY <2>1, OutOrphan
    <2>3. pipe'[c] = <<>> /\ reply'[c] = <<>>
      BY <1>c, <2>1
    <2>4. OutAt(c)'
      BY <2>2, <2>3, EmptySeq DEF OutAt
    <2>5. \A d \in Clients \ {c} : OutSame(d)
      BY <1>c, <2>1, <2>2 DEF OutSame
    <2>6. QED  BY <1>b, <2>2, <2>4, <2>5
  <1>3. ASSUME NEW c \in Clients, sendREQ(c) PROVE OutInv'
    <2>1. OnlySocket(c) /\ reply' = reply /\ repIn' = repIn /\ repCur' = repCur
      BY <1>3, SendREQEffect DEF server
    <2>2. \E e : \/ Adds(c, e)
                 \/ ~m_bREQInProgress[c] /\ Sends(c, Append(Pending(c), e), <<>>)
      BY <1>3, SendREQEffect
    <2>3. \A d \in Clients \ {c} : OutSame(d)
      BY <2>1 DEF OnlySocket, OutSame
    <2>4. \A d \in Clients : Reads(d)' <=> Reads(d)
      BY <2>1 DEF Reads
    <2>5. Alive(c)' = Alive(c)
      BY <2>1 DEF Alive
    <2>6. OutAt(c)
      BY DEF OutInv
    <2>7. OutAt(c)'
      BY <2>1, <2>2, <2>4, <2>5, <2>6 DEF Adds, Sends, OutAt
    <2>8. QED  BY <1>b, <2>3, <2>4, <2>7
  <1>4. ASSUME NEW c \in Clients, ReadReply(c) PROVE OutInv'
    <2>0. m_bREQInProgress[c]
      BY <1>4 DEF ReadReply, OutInv, OutAt
    <2>1. /\ OnlySocket(c) /\ repIn' = repIn /\ repCur' = repCur
          /\ reply[c] # <<>> /\ reply' = [reply EXCEPT ![c] = Tail(@)]
      BY <1>4, <2>0, ReadReplyEffect DEF server
    <2>2. \/ Frees(c)
          \/ \E p, r : Sends(c, p, r)
      BY <1>4, <2>0, ReadReplyEffect
    <2>3. \A d \in Clients \ {c} : OutSame(d)
      BY <1>c, <2>1 DEF OnlySocket, OutSame
    <2>4. \A d \in Clients : Reads(d)' <=> Reads(d)
      BY <2>1 DEF Reads
    <2>5. Alive(c)' = Alive(c)
      BY <2>1 DEF Alive
    <2>6. Alive(c) = {} /\ ~Reads(c) /\ pipe[c] = <<>> /\ Len(reply[c]) <= 1
      BY <2>1 DEF OutInv, OutAt
    <2>7. reply'[c] = <<>>
      <3>1. Tail(reply[c]) \in Seq(Kinds) /\ Len(Tail(reply[c])) = Len(reply[c]) - 1
        BY <1>c, <2>1, HeadTailProperties
      <3>2. Len(Tail(reply[c])) = 0
        <4>1. Len(reply[c]) \in Nat /\ Len(reply[c]) # 0
          BY <1>c, <2>1, LenProperties, EmptySeq
        <4> DEFINE n == Len(reply[c])
        <4>2. n \in Nat /\ n # 0 /\ n <= 1 /\ Len(Tail(reply[c])) = n - 1
          BY <2>6, <3>1, <4>1
        <4> HIDE DEF n
        <4>3. n = 1
          BY <4>2
        <4>4. QED  BY <4>2, <4>3
      <3>3. QED  BY <1>c, <2>1, <3>1, <3>2, EmptySeq
    <2>8. OutAt(c)'
      BY <2>2, <2>4, <2>5, <2>6, <2>7, EmptySeq DEF Frees, Sends, OutAt
    <2>9. QED  BY <1>b, <2>3, <2>4, <2>8
  <1>5. ASSUME NEW c \in Clients, Disconnect(c) PROVE OutInv'
    <2>1. /\ UNCHANGED <<m_bREQInProgress, pipe>>
          /\ reply' = [reply EXCEPT ![c] = <<>>]
          /\ \/ Orphan(c)
             \/ repIn' = [repIn EXCEPT ![c] = <<>>] /\ repCur' = repCur
      BY <1>5 DEF Disconnect, socket
    <2>2. /\ Alive(c)' = {}
          /\ \A d \in Clients : Reads(d)' => Reads(d)
          /\ \A d \in Clients \ {c} : repIn'[d] = repIn[d]
      <3>1. CASE Orphan(c)
        BY <3>1, OutOrphan
      <3>2. CASE repIn' = [repIn EXCEPT ![c] = <<>>] /\ repCur' = repCur
        <4>1. Alive(c)' = {}
          BY <1>c, <3>2, EmptySeq DEF Alive
        <4>2. QED  BY <1>c, <3>2, <4>1 DEF Reads
      <3>3. QED  BY <2>1, <3>1, <3>2
    <2>3. reply'[c] = <<>>
      BY <1>c, <2>1
    <2>4. OutAt(c)'
      BY <2>1, <2>2, <2>3, EmptySeq DEF OutAt, OutInv
    <2>5. \A d \in Clients \ {c} : OutSame(d)
      BY <1>c, <2>1, <2>2 DEF OutSame
    <2>6. QED  BY <1>b, <2>2, <2>4, <2>5
  <1>6. ASSUME NEW c \in Clients, Deliver(c) PROVE OutInv'
    <2> DEFINE r == [parts |-> pipe[c], alive |-> TRUE]
               t == repIn[c]
               u == Append(t, r)
    <2>1. /\ pipe[c] # <<>> /\ pipe' = [pipe EXCEPT ![c] = <<>>]
          /\ repCur' = repCur /\ reply' = reply /\ m_bREQInProgress' = m_bREQInProgress
          /\ repIn' = [repIn EXCEPT ![c] = u]
      BY <1>6 DEF Deliver, socket
    <2>2. m_bREQInProgress[c] /\ Alive(c) = {} /\ ~Reads(c) /\ reply[c] = <<>>
      BY <2>1 DEF OutInv, OutAt
    <2>3. r \in Request /\ r.alive /\ t \in Seq(Request)
      BY <1>c, <2>1 DEF Request
    <2>4. \A i \in DOMAIN t : ~t[i].alive
      BY <2>2 DEF Alive
    <2>5. pipe'[c] = <<>> /\ repIn'[c] = u
      BY <1>c, <2>1
    <2>6. \A d \in Clients \ {c} : OutSame(d)
      BY <1>c, <2>1 DEF OutSame
    <2> HIDE DEF r, t
    <2>7. /\ u \in Seq(Request) /\ Len(u) = Len(t) + 1 /\ u[Len(t) + 1] = r
          /\ \A i \in 1..Len(t) : u[i] = t[i]
      BY <2>3, AppendProperties
    <2>8. DOMAIN u = 1..(Len(t) + 1) /\ DOMAIN t = 1..Len(t) /\ Len(t) \in Nat
      BY <2>3, <2>7, LenProperties
    <2> HIDE DEF u
    <2>9. \A i \in DOMAIN u : i \in DOMAIN t \/ i = Len(t) + 1
      BY <2>8
    <2>10. \A i \in DOMAIN u : u[i].alive => i = Len(t) + 1
      BY <2>4, <2>7, <2>8, <2>9
    <2>11. \A i, j \in Alive(c)' : i = j
      BY <2>5, <2>10 DEF Alive
    <2>12. \A d \in Clients : Reads(d)' <=> Reads(d)
      BY <2>1 DEF Reads
    <2>13. OutAt(c)'
      BY <2>1, <2>2, <2>5, <2>11, <2>12, EmptySeq DEF OutAt
    <2>14. QED  BY <1>b, <2>6, <2>12, <2>13
  <1>7. ASSUME NEW c \in Clients, RepRecv(c) PROVE OutInv'
    <2> DEFINE t == repIn[c]
               u == Tail(t)
    <2>1. /\ t # <<>> /\ repIn' = [repIn EXCEPT ![c] = Tail(t)]
          /\ UNCHANGED <<m_bREQInProgress, pipe, reply>>
          /\ repCur' = [state |-> "parts", parts |-> Head(t).parts, alive |-> Head(t).alive]
      BY <1>7 DEF RepRecv, zmq, socket
    <2>2. repIn'[c] = Tail(t) /\ \A d \in Clients \ {c} : OutSame(d)
      BY <1>c, <2>1 DEF OutSame
    <2>3. t \in Seq(Request) /\ RepInOK(c) /\ OutAt(c)
      BY <1>c DEF FlightInv, OutInv
    <2>4. /\ Head(t) = t[1] /\ Head(t) \in Request /\ u \in Seq(Request) /\ Len(u) = Len(t) - 1
          /\ \A i \in 1..Len(u) : u[i] = t[i + 1]
      BY <2>1, <2>3, HeadTailProperties
    <2>5. /\ DOMAIN t = 1..Len(t) /\ DOMAIN u = 1..Len(u) /\ Len(t) \in Nat /\ Len(t) # 0
      BY <2>1, <2>3, <2>4, LenProperties, EmptySeq
    <2>6. 1 \in DOMAIN t
      BY <2>5
    <2>7. IsBundle(c, t[1].parts) /\ t[1].parts \in Seq(Msg)
      BY <2>3, <2>4, <2>6 DEF RepInOK, Request
    <2>8. t[1].parts[1].from = c
      BY <2>7, RestTail DEF IsBundle
    <2>9. repCur'.parts = t[1].parts /\ repCur'.alive = t[1].alive
      BY <2>1, <2>4
    <2>10. \A d \in Clients \ {c} : ~Reads(d)'
      BY <2>8, <2>9 DEF Reads
    <2>11. Reads(c)' => 1 \in Alive(c)
      BY <2>6, <2>9 DEF Reads, Alive
    <2> HIDE DEF u
    <2>12. \A i \in Alive(c)' : i \in Nat \ {0} /\ i + 1 \in Alive(c)
      <3> SUFFICES ASSUME NEW i \in Alive(c)' PROVE i \in Nat \ {0} /\ i + 1 \in Alive(c)
        OBVIOUS
      <3>1. i \in DOMAIN u /\ u[i].alive
        BY <2>2 DEF Alive, u
      <3>2. i \in 1..Len(u)
        BY <2>5, <3>1
      <3>3. u[i] = t[i + 1]
        BY <2>4, <3>2
      <3>4. i \in Nat \ {0} /\ i + 1 \in 1..Len(t)
        BY <2>4, <2>5, <3>2
      <3>5. QED  BY <2>5, <3>1, <3>3, <3>4 DEF Alive
    <2>13. ~Reads(c) /\ \A i, j \in Alive(c) : i = j
      BY <1>7, <2>3 DEF RepRecv, Reads, OutAt
    <2>14. Reads(c)' => Alive(c)' = {}
      <3> SUFFICES ASSUME Reads(c)', NEW i \in Alive(c)' PROVE FALSE
        OBVIOUS
      <3>1. i + 1 = 1 /\ i \in Nat \ {0}
        BY <2>11, <2>12, <2>13
      <3>2. QED  BY <3>1
    <2>15. \A i, j \in Alive(c)' : i = j
      <3> SUFFICES ASSUME NEW i \in Alive(c)', NEW j \in Alive(c)' PROVE i = j
        OBVIOUS
      <3>1. i + 1 = j + 1 /\ i \in Nat /\ j \in Nat
        BY <2>12, <2>13
      <3>2. QED  BY <3>1
    <2>16. (Reads(c)' \/ Alive(c)' # {}) => Alive(c) # {}
      BY <2>11, <2>12
    <2>17. OutAt(c)'
      BY <2>1, <2>3, <2>14, <2>15, <2>16 DEF OutAt
    <2>18. QED  BY <1>b, <2>2, <2>10, <2>17
  <1>8. ASSUME RepPart PROVE OutInv'
    <2> DEFINE s == repCur.parts
    <2>0. PICK c \in Clients : c = s[1].from
      BY <1>8, RepPartEffect
    <2>1. /\ UNCHANGED <<m_bREQInProgress, pipe, repIn>>
          /\ repCur.state = "parts" /\ s \in Seq(Msg) /\ s # <<>>
          /\ IsRest(c, s) /\ c = s[1].from
      BY <1>8, <2>0, RepPartEffect
    <2>2. PICK answered \in BOOLEAN :
              /\ answered => s[1].last
              /\ repCur' = IF Tail(s) # <<>> THEN [repCur EXCEPT !.parts = Tail(s)]
                           ELSE IF answered THEN Idle
                           ELSE [repCur EXCEPT !.state = "reply"]
              /\ reply' = IF answered /\ repCur.alive
                          THEN [reply EXCEPT ![c] = Append(@, s[1].kind)]
                          ELSE reply
      BY <1>8, <2>0, RepPartEffect
    <2>3. Tail(s) # <<>> => Tail(s)[1].from = c /\ ~s[1].last
      BY <2>1, RestTail
    <2>4. s[1] \in Msg
      BY <2>1, RestTail
    <2>5. s[1].kind \in Kinds
      BY <2>4, MsgFields
    <2>6. \A d \in Clients : (Reads(d)' => Reads(d))
      <3>1. CASE Tail(s) # <<>>
        <4>1. repCur'.state = "parts" /\ repCur'.parts = Tail(s) /\ repCur'.alive = repCur.alive
          BY <1>c, <2>1, <2>2, <3>1 DEF RepStates
        <4>2. QED  BY <2>1, <2>3, <3>1, <4>1 DEF Reads
      <3>2. CASE repCur' = Idle
        BY <3>2 DEF Reads, Idle
      <3>3. CASE repCur' = [repCur EXCEPT !.state = "reply"]
        <4>1. repCur'.parts = repCur.parts /\ repCur'.alive = repCur.alive
          BY <1>c, <3>3 DEF RepStates
        <4>2. QED  BY <2>1, <4>1 DEF Reads
      <3>4. QED  BY <2>2, <3>1, <3>2, <3>3
    <2>7. \A d \in Clients \ {c} : OutSame(d)
      BY <1>c, <2>1, <2>2 DEF OutSame
    <2>8. OutAt(c)'
      <3>1. CASE answered /\ repCur.alive
        <4>1. Reads(c) /\ Tail(s) = <<>> /\ OutAt(c)
          BY <2>1, <2>2, <2>3, <3>1 DEF Reads, OutInv
        <4>2. repCur' = Idle
          BY <2>2, <3>1, <4>1
        <4>3. ~Reads(c)'
          BY <4>2 DEF Reads, Idle
        <4>4. reply[c] = <<>> /\ m_bREQInProgress[c] /\ pipe[c] = <<>> /\ Alive(c) = {}
          BY <4>1 DEF OutAt
        <4>5. reply'[c] = Append(<<>>, s[1].kind)
          BY <1>c, <2>1, <2>2, <3>1, <4>4
        <4>6. Len(Append(<<>>, s[1].kind)) = 1
          BY <2>5, EmptySeq, AppendProperties
        <4>7. Alive(c)' = {}
          BY <2>1, <4>4 DEF Alive
        <4>8. QED  BY <2>1, <4>3, <4>4, <4>5, <4>6, <4>7 DEF OutAt
      <3>2. CASE ~(answered /\ repCur.alive)
        <4>1. reply' = reply
          BY <2>2, <3>2
        <4>2. OutSame(c) /\ OutAt(c)
          BY <2>1, <4>1 DEF OutSame, OutInv
        <4>3. QED  BY <2>1, <2>6, <4>2, OutKept
      <3>3. QED  BY <3>1, <3>2
    <2>9. QED  BY <1>b, <2>1, <2>6, <2>7, <2>8
  <1>9. ASSUME CassiDequeue \/ UNCHANGED vars PROVE OutInv'
    <2>1. UNCHANGED <<m_bREQInProgress, pipe, reply, repIn, repCur>>
      BY <1>9 DEF CassiDequeue, vars, socket, zmq, server
    <2>2. QED  BY <1>a, <2>1 DEF OutSame
  <1>10. QED
    BY <1>1, <1>2, <1>3, <1>4, <1>5, <1>6, <1>7, <1>8, <1>9 DEF Next

-----------------------------------------------------------------------------
(* The queue to CASSI *)

\* What CASSI has not taken yet is still a chain when it has taken a message.
LEMMA CassiTail ==
  ASSUME NEW q \in Seq(Msg), q # <<>>, CassiChain(q), NEW r, CassiOpen(q, r)
  PROVE  CassiChain(Tail(q)) /\ CassiOpen(Tail(q), r)
  <1> DEFINE u == Tail(q)
  <1>1. /\ u \in Seq(Msg) /\ Len(u) = Len(q) - 1 /\ \A i \in 1..Len(u) : u[i] = q[i + 1]
    BY HeadTailProperties
  <1>2. /\ DOMAIN u = 1..Len(u) /\ Len(u) \in Nat /\ DOMAIN q = 1..Len(q)
        /\ Len(q) \in Nat \ {0}
    BY <1>1, LenProperties, EmptySeq
  <1> HIDE DEF u
  <1>3. \A i \in 1..Len(u) : i + 1 \in 1..Len(q)
    BY <1>1, <1>2
  <1>4. \A i \in DOMAIN u : Shim(u[i])
    BY <1>1, <1>2, <1>3 DEF CassiChain
  <1>5. \A i \in 1..(Len(u) - 1) :
            ~u[i].last => u[i + 1].from = u[i].from /\ ~u[i + 1].first
    <2> SUFFICES ASSUME NEW i \in 1..(Len(u) - 1), ~u[i].last
                 PROVE  u[i + 1].from = u[i].from /\ ~u[i + 1].first
      OBVIOUS
    <2> DEFINE j == i + 1
    <2>1. j \in 1..(Len(q) - 1) /\ j \in 1..Len(u) /\ i \in 1..Len(u)
      BY <1>1, <1>2
    <2>2. u[i] = q[j] /\ u[j] = q[j + 1]
      BY <1>1, <2>1
    <2> HIDE DEF j
    <2>3. ~q[j].last => q[j + 1].from = q[j].from /\ ~q[j + 1].first
      BY <2>1 DEF CassiChain
    <2>4. QED  BY <2>2, <2>3 DEF j
  <1>6. u # <<>> => u[Len(u)] = q[Len(q)]
    <2> SUFFICES ASSUME u # <<>> PROVE u[Len(u)] = q[Len(q)]
      OBVIOUS
    <2>1. Len(u) # 0
      BY <1>1, EmptySeq
    <2>2. Len(u) \in 1..Len(u) /\ Len(u) + 1 = Len(q)
      <3>1. Len(u) = Len(q) - 1
        BY <1>1
      <3>2. QED  BY <1>2, <2>1, <3>1
    <2>3. QED  BY <1>1, <2>2
  <1>7. QED  BY <1>4, <1>5, <1>6 DEF CassiChain, CassiOpen, u

\* The part that is read joins the queue.
LEMMA CassiAppend ==
  ASSUME NEW q \in Seq(Msg), CassiChain(q), NEW r, CassiOpen(q, r),
         r.state = "parts", NEW m \in Msg, m = r.parts[1], Shim(m)
  PROVE  /\ CassiChain(Append(q, m)) /\ Append(q, m) \in Seq(Msg)
         /\ Append(q, m) # <<>> /\ Append(q, m)[Len(Append(q, m))] = m
  <1> DEFINE u == Append(q, m)
  <1>1. /\ u \in Seq(Msg) /\ Len(u) = Len(q) + 1 /\ u[Len(q) + 1] = m /\ u # <<>>
        /\ \A i \in 1..Len(q) : u[i] = q[i]
    BY AppendProperties
  <1>2. /\ DOMAIN u = 1..Len(u) /\ DOMAIN q = 1..Len(q) /\ Len(q) \in Nat
    BY <1>1, LenProperties
  <1> HIDE DEF u
  <1>3. \A i \in DOMAIN u : i \in 1..Len(q) \/ i = Len(q) + 1
    BY <1>1, <1>2
  <1>4. \A i \in DOMAIN u : Shim(u[i])
    BY <1>1, <1>2, <1>3 DEF CassiChain
  <1>5. \A i \in 1..(Len(u) - 1) :
            ~u[i].last => u[i + 1].from = u[i].from /\ ~u[i + 1].first
    <2> SUFFICES ASSUME NEW i \in 1..(Len(u) - 1), ~u[i].last
                 PROVE  u[i + 1].from = u[i].from /\ ~u[i + 1].first
      OBVIOUS
    <2>0. i \in 1..Len(q) /\ u[i] = q[i]
      BY <1>1, <1>2
    <2>1. CASE i = Len(q)
      <3>1. u[i + 1] = m /\ q # <<>>
        BY <1>1, <2>0, <2>1, EmptySeq
      <3>2. QED  BY <2>0, <2>1, <3>1 DEF CassiOpen
    <2>2. CASE i # Len(q)
      <3> DEFINE k == i + 1
      <3>1. i \in 1..(Len(q) - 1) /\ k \in 1..Len(q)
        <4>1. Len(q) \in Nat /\ i \in 1..Len(q) /\ i # Len(q)
          BY <1>2, <2>0, <2>2
        <4>2. QED  BY <4>1
      <3>2. u[k] = q[k]
        BY <1>1, <3>1
      <3> HIDE DEF k
      <3>3. ~q[i].last => q[k].from = q[i].from /\ ~q[k].first
        BY <3>1 DEF CassiChain, k
      <3>4. QED  BY <2>0, <3>2, <3>3 DEF k
    <2>3. QED  BY <2>1, <2>2
  <1>6. u[Len(u)] = m
    BY <1>1
  <1>7. QED  BY <1>1, <1>4, <1>5, <1>6 DEF CassiChain, u

\* Every step keeps the queue to CASSI connected.
LEMMA CassiStep ==
  ASSUME Inv, FlightInv, CassiInv, [Next]_vars
  PROVE  CassiInv'
  <1> DEFINE q == m_cFabricToCassi
             r == repCur
  <1>0. q \in Seq(Msg) /\ CassiChain(q) /\ CassiOpen(q, r) /\ r \in RepStates
    BY DEF CassiInv, Inv, ServerInv
  <1>a. ASSUME UNCHANGED m_cFabricToCassi, CassiOpen(q, r') PROVE CassiInv'
    BY <1>0, <1>a DEF CassiInv
  <1>b. ASSUME UNCHANGED <<m_cFabricToCassi, repCur>> PROVE CassiInv'
    BY <1>0, <1>b DEF CassiInv
  <1>1. ASSUME NEW c \in Clients,
               \/ addPeer(c) \/ SendBundle(c) \/ sendREQ(c) \/ ReadReply(c) \/ disconnected(c)
               \/ Connect(c) \/ Deliver(c)
        PROVE  CassiInv'
    <2>1. UNCHANGED <<m_cFabricToCassi, repCur>>
      BY <1>1 DEF addPeer, SendBundle, sendREQ, ReadReply, disconnected, Connect, Deliver, server
    <2>2. QED  BY <1>b, <2>1
  <1>2. ASSUME NEW c \in Clients, delPeer(c) \/ Disconnect(c) PROVE CassiInv'
    <2>1. UNCHANGED m_cFabricToCassi /\ (Orphan(c) \/ UNCHANGED repCur)
      BY <1>2 DEF delPeer, closeSocket, Disconnect
    <2>2. CASE Orphan(c)
      <3>1. repCur'.state = repCur.state /\ repCur'.parts = repCur.parts
        BY <2>2, OrphanEffect
      <3>2. CassiOpen(q, r')
        BY <1>0, <3>1 DEF CassiOpen
      <3>3. QED  BY <1>a, <2>1, <3>2
    <2>3. QED  BY <1>b, <2>1, <2>2
  <1>3. ASSUME NEW c \in Clients, RepRecv(c) PROVE CassiInv'
    <2>1. UNCHANGED m_cFabricToCassi /\ repCur.state = "recv"
      BY <1>3 DEF RepRecv
    <2>2. CassiOpen(q, r')
      BY <1>0, <2>1 DEF CassiOpen
    <2>3. QED  BY <1>a, <2>1, <2>2
  <1>4. ASSUME RepPart PROVE CassiInv'
    <2> DEFINE s == r.parts
    <2>0. PICK c \in Clients : c = s[1].from
      BY <1>4, RepPartEffect
    <2>1. /\ r.state = "parts" /\ s \in Seq(Msg) /\ s # <<>>
          /\ IsRest(c, s) /\ c = s[1].from
          /\ \/ UNCHANGED m_cFabricToCassi
             \/ Shim(s[1]) /\ m_cFabricToCassi' = Append(q, s[1])
      BY <1>4, <2>0, RepPartEffect
    <2>2. PICK answered \in BOOLEAN :
              /\ answered => s[1].last
              /\ answered /\ Shim(s[1]) => m_cFabricToCassi' = Append(q, s[1])
              /\ r' = IF Tail(s) # <<>> THEN [r EXCEPT !.parts = Tail(s)]
                      ELSE IF answered THEN Idle
                      ELSE [r EXCEPT !.state = "reply"]
      BY <1>4, <2>0, RepPartEffect
    <2>3. /\ s[1] \in Msg /\ (Tail(s) = <<>> => s[1].last)
          /\ (~Shim(s[1]) => s[1].last /\ s[1].first)
          /\ Tail(s) # <<>> => Tail(s)[1].from = c /\ ~s[1].last /\ ~Tail(s)[1].first
      BY <2>1, RestTail
    <2>4. CASE Tail(s) # <<>>
      <3>1. r'.state = "parts" /\ r'.parts = Tail(s)
        BY <1>0, <2>1, <2>2, <2>4 DEF RepStates
      <3>2. CASE UNCHANGED m_cFabricToCassi
        <4>1. CassiOpen(q, r')
          BY <1>0, <2>1, <2>3, <2>4, <3>1 DEF CassiOpen
        <4>2. QED  BY <1>a, <3>2, <4>1
      <3>3. CASE Shim(s[1]) /\ m_cFabricToCassi' = Append(q, s[1])
        <4> DEFINE u == Append(q, s[1])
        <4>1. CassiChain(u) /\ u # <<>> /\ u[Len(u)] = s[1]
          BY <1>0, <2>1, <2>3, <3>3, CassiAppend
        <4> HIDE DEF u
        <4>2. CassiOpen(u, r')
          BY <2>1, <2>3, <2>4, <3>1, <4>1 DEF CassiOpen
        <4>3. QED  BY <3>3, <4>1, <4>2 DEF u, CassiInv
      <3>4. QED  BY <2>1, <3>2, <3>3
    <2>5. CASE Tail(s) = <<>>
      <3>1. s[1].last
        BY <2>3, <2>5
      <3>2. CASE Shim(s[1]) /\ m_cFabricToCassi' = Append(q, s[1])
        <4> DEFINE u == Append(q, s[1])
        <4>1. CassiChain(u) /\ u # <<>> /\ u[Len(u)] = s[1]
          BY <1>0, <2>1, <2>3, <3>2, CassiAppend
        <4> HIDE DEF u
        <4>2. CassiOpen(u, r')
          BY <3>1, <4>1 DEF CassiOpen
        <4>3. QED  BY <3>2, <4>1, <4>2 DEF u, CassiInv
      <3>3. CASE UNCHANGED m_cFabricToCassi /\ ~(Shim(s[1]) /\ m_cFabricToCassi' = Append(q, s[1]))
        <4>1. CASE answered
          <5>1. s[1].first
            BY <2>2, <2>3, <3>3, <4>1
          <5>2. CassiOpen(q, r')
            BY <1>0, <2>1, <5>1 DEF CassiOpen
          <5>3. QED  BY <1>a, <3>3, <5>2
        <4>2. CASE ~answered
          <5>1. r' = [r EXCEPT !.state = "reply"]
            BY <2>2, <2>5, <4>2
          <5>2. r'.state = "reply" /\ r'.parts = s
            BY <1>0, <5>1 DEF RepStates
          <5>3. CassiOpen(q, r')
            BY <1>0, <2>1, <5>2 DEF CassiOpen
          <5>4. QED  BY <1>a, <3>3, <5>3
        <4>3. QED  BY <4>1, <4>2
      <3>4. QED  BY <2>1, <3>2, <3>3
    <2>6. QED  BY <2>4, <2>5
  <1>5. ASSUME CassiDequeue PROVE CassiInv'
    <2>1. q # <<>> /\ m_cFabricToCassi' = Tail(q) /\ r' = r
      BY <1>5 DEF CassiDequeue
    <2>2. QED  BY <1>0, <2>1, CassiTail DEF CassiInv
  <1>6. ASSUME UNCHANGED vars PROVE CassiInv'
    BY <1>6, <1>b DEF vars, server
  <1>7. QED
    BY <1>1, <1>2, <1>3, <1>4, <1>5, <1>6 DEF Next

-----------------------------------------------------------------------------
(* Requests and bundles: the theorems *)

\* At first there are no requests.
LEMMA InitRequests == Init => RequestInv
  <1> SUFFICES ASSUME Init PROVE RequestInv
    OBVIOUS
  <1>1. Inv
    BY InitInv
  <1>2. /\ \A c \in Clients : task[c] = <<>> /\ m_iBundle[c] = "FIRST" /\ ~m_bREQInProgress[c]
        /\ \A c \in Clients : m_pcSendBlk[c] = <<>> /\ m_cQueue[c] = <<>> /\ pipe[c] = <<>>
        /\ \A c \in Clients : repIn[c] = <<>> /\ reply[c] = <<>>
        /\ repCur = Idle /\ m_cFabricToCassi = <<>>
    BY DEF Init
  <1>3. DOMAIN <<>> = {} /\ Len(<<>>) = 0
    BY EmptySeq
  <1>4. ChainInv
    BY <1>2, <1>3, EmptyChain DEF ChainInv, Pending, BlockOK
  <1>5. FlightInv
    BY <1>2, <1>3 DEF FlightInv, PipeOK, RepInOK, RepCurOK, Idle
  <1>6. CassiInv
    BY <1>2, <1>3 DEF CassiInv, CassiChain, CassiOpen
  <1>7. OutInv
    <2>1. \A c \in Clients : Alive(c) = {} /\ ~Reads(c)
      BY <1>2, <1>3 DEF Alive, Reads, Idle
    <2>2. QED  BY <1>2, <1>3, <2>1 DEF OutInv, OutAt
  <1>8. QED  BY <1>1, <1>4, <1>5, <1>6, <1>7 DEF RequestInv

\* The invariant of requests and bundles holds in every state.
THEOREM RequestInvariant == Spec => []RequestInv
  <1>1. RequestInv /\ [Next]_vars => RequestInv'
    <2> SUFFICES ASSUME RequestInv, [Next]_vars PROVE RequestInv'
      OBVIOUS
    <2>1. Inv /\ ChainInv /\ FlightInv /\ CassiInv /\ OutInv
      BY DEF RequestInv
    <2>2. Inv'
      BY <2>1, FabricStep, SocketStep, NetStep, ServerStep DEF Inv
    <2>3. ChainInv' /\ FlightInv' /\ CassiInv' /\ OutInv'
      BY <2>1, ChainStep, FlightStep, CassiStep, OutStep
    <2>4. QED  BY <2>2, <2>3 DEF RequestInv
  <1>2. QED  BY <1>1, InitRequests, PTL DEF Spec

\* Between callbacks MessageManager's pending queue is a sequence of complete
\* bundles and its send block is empty, for bundles of any size: unblockREQ
\* never runs out of queue before a LAST flag.
THEOREM BundlesStayWhole == Spec => []WholeBundles
  <1>1. RequestInv => WholeBundles
    <2> SUFFICES ASSUME RequestInv, NEW c \in Clients, task[c] = <<>>
                 PROVE  /\ m_pcSendBlk[c] = <<>>
                        /\ m_iBundle[c] = "FIRST"
                        /\ m_cQueue[c] # <<>> =>
                             m_cQueue[c][1].first /\ m_cQueue[c][Len(m_cQueue[c])].last
                        /\ \A i \in 1..(Len(m_cQueue[c]) - 1) :
                              m_cQueue[c][i].last <=> m_cQueue[c][i + 1].first
      BY DEF WholeBundles
    <2>1. m_iBundle[c] = "FIRST" /\ m_pcSendBlk[c] = <<>>
      BY AtRest DEF RequestInv
    <2> DEFINE q == m_cQueue[c]
    <2>2. ChainOK(c, q, "FIRST")
      <3>1. CASE m_bREQInProgress[c]
        BY <2>1, <3>1 DEF RequestInv, ChainInv, Pending
      <3>2. CASE ~m_bREQInProgress[c]
        BY <3>2, EmptyChain DEF RequestInv, Inv, SocketInv, PendingOnlyInProgress
      <3>3. QED  BY <3>1, <3>2
    <2> HIDE DEF q
    <2>3. /\ q # <<>> => q[1].first /\ q[Len(q)].last
          /\ \A i \in 1..(Len(q) - 1) : q[i].last <=> q[i + 1].first
      BY <2>2 DEF ChainOK, Linked
    <2>4. QED  BY <2>1, <2>3 DEF q
  <1>2. QED  BY <1>1, RequestInvariant, PTL

\* At most one request of a socket is under way, and none when MessageManager
\* believes the socket free, through every disconnect and re-created socket.
THEOREM OneRequestAtATime == Spec => []OneOutstanding
  <1>1. RequestInv => OneOutstanding
    <2> SUFFICES ASSUME RequestInv, NEW c \in Clients
                 PROVE  Outstanding(c) <= IF m_bREQInProgress[c] THEN 1 ELSE 0
      BY DEF OneOutstanding
    <2>1. OutAt(c)
      BY DEF RequestInv, OutInv
    <2> DEFINE n == Cardinality(Alive(c))
               w == IF pipe[c] # <<>> THEN 1 ELSE 0
               x == IF Reads(c) THEN 1 ELSE 0
               y == Len(reply[c])
    <2>2. n \in {0, 1} /\ (Alive(c) = {} => n = 0)
      <3>1. CASE Alive(c) = {}
        BY <3>1, FS_EmptySet
      <3>2. CASE Alive(c) # {}
        <4>1. PICK i \in Alive(c) : TRUE
          BY <3>2
        <4>2. Alive(c) = {i}
          BY <2>1, <4>1 DEF OutAt
        <4>3. QED  BY <3>2, <4>2, FS_Singleton
      <3>3. QED  BY <3>1, <3>2
    <2>3. y \in Nat /\ y <= 1 /\ (reply[c] = <<>> => y = 0)
      BY <2>1, LenProperties, EmptySeq DEF OutAt, RequestInv, Inv, NetInv, NetType
    <2>4. Outstanding(c) = w + n + x + y
      BY DEF Outstanding, Alive, Reads
    <2>5. w \in {0, 1} /\ x \in {0, 1}
      OBVIOUS
    <2>6. /\ w = 1 => n = 0 /\ x = 0 /\ y = 0
          /\ n = 1 => x = 0 /\ y = 0
          /\ x = 1 => y = 0
          /\ ~m_bREQInProgress[c] => w = 0 /\ n = 0 /\ x = 0 /\ y = 0
      BY <2>1, <2>2, <2>3 DEF OutAt
    <2> HIDE DEF n, w, x, y
    <2>7. w + n + x + y <= 1
      BY <2>2, <2>3, <2>5, <2>6
    <2>8. ~m_bREQInProgress[c] => w + n + x + y <= 0
      BY <2>6
    <2>9. QED  BY <2>4, <2>7, <2>8
  <1>2. QED  BY <1>1, RequestInvariant, PTL

-----------------------------------------------------------------------------
(* The order of messages, sequence by sequence *)

\* Empty sequences have no numbers.
LEMMA NumsEmpty == Nums(<<>>) = {} /\ Rising(<<>>) /\ RequestNums(<<>>) = {} /\ RequestsRising(<<>>)
  <1>1. DOMAIN <<>> = {}
    BY EmptySeq
  <1>2. QED  BY <1>1 DEF Nums, Rising, RequestNums, RequestsRising

\* A message at the end of a sequence.
LEMMA NumsAppend ==
  ASSUME NEW s \in Seq(Msg), NEW m \in Msg
  PROVE  /\ Shim(m) => Nums(Append(s, m)) = Nums(s) \cup {m.num}
         /\ ~Shim(m) => Nums(Append(s, m)) = Nums(s)
         /\ Rising(s) /\ (Shim(m) => Before(Nums(s), {m.num})) => Rising(Append(s, m))
  <1> DEFINE u == Append(s, m)
             n == Len(s) + 1
  <1>1. /\ u \in Seq(Msg) /\ Len(u) = Len(s) + 1 /\ u[Len(s) + 1] = m
        /\ \A i \in 1..Len(s) : u[i] = s[i]
    BY AppendProperties
  <1>2. DOMAIN u = 1..(Len(s) + 1) /\ DOMAIN s = 1..Len(s) /\ Len(s) \in Nat
    BY <1>1, LenProperties
  <1> HIDE DEF u
  <1>3. /\ n \in DOMAIN u /\ u[n] = m
        /\ \A i \in DOMAIN s : i \in DOMAIN u /\ u[i] = s[i] /\ i < n
        /\ \A i \in DOMAIN u : i \in DOMAIN s \/ i = n
        /\ \A i \in DOMAIN u : i <= n
    BY <1>1, <1>2
  <1>4. \A i, j \in DOMAIN u : i < j => i \in DOMAIN s
    BY <1>2
  <1> HIDE DEF n
  <1>5. \A x : x \in Nums(u) <=> x \in Nums(s) \/ (Shim(m) /\ x = m.num)
    <2> SUFFICES ASSUME NEW x PROVE x \in Nums(u) <=> x \in Nums(s) \/ (Shim(m) /\ x = m.num)
      OBVIOUS
    <2>1. ASSUME x \in Nums(u) PROVE x \in Nums(s) \/ (Shim(m) /\ x = m.num)
      BY <1>3, <2>1 DEF Nums
    <2>2. ASSUME x \in Nums(s) PROVE x \in Nums(u)
      BY <1>3, <2>2 DEF Nums
    <2>3. ASSUME Shim(m), x = m.num PROVE x \in Nums(u)
      BY <1>3, <2>3 DEF Nums
    <2>4. QED  BY <2>1, <2>2, <2>3
  <1>6. ASSUME Rising(s), Shim(m) => Before(Nums(s), {m.num}) PROVE Rising(u)
    <2> SUFFICES ASSUME NEW i \in DOMAIN u, NEW j \in DOMAIN u, i < j, Shim(u[i]), Shim(u[j])
                 PROVE  u[i].num < u[j].num
      BY DEF Rising
    <2>1. i \in DOMAIN s /\ u[i] = s[i]
      BY <1>3, <1>4
    <2>2. CASE j \in DOMAIN s
      BY <1>3, <1>6, <2>1, <2>2 DEF Rising
    <2>3. CASE j = n
      <3>1. u[j] = m /\ Shim(m)
        BY <1>3, <2>3
      <3>2. s[i].num \in Nums(s)
        BY <2>1 DEF Nums
      <3>3. QED  BY <1>6, <2>1, <3>1, <3>2 DEF Before
    <2>4. QED  BY <1>3, <2>2, <2>3
  <1>7. QED  BY <1>5, <1>6 DEF u

\* A sequence without its first message.
LEMMA NumsTail ==
  ASSUME NEW s \in Seq(Msg), s # <<>>
  PROVE  /\ Nums(Tail(s)) \subseteq Nums(s)
         /\ Shim(s[1]) => s[1].num \in Nums(s)
         /\ Rising(s) => Rising(Tail(s)) /\ (Shim(s[1]) => Before({s[1].num}, Nums(Tail(s))))
  <1> DEFINE u == Tail(s)
  <1>1. /\ u \in Seq(Msg) /\ Len(u) = Len(s) - 1 /\ \A i \in 1..Len(u) : u[i] = s[i + 1]
    BY HeadTailProperties
  <1>2. /\ DOMAIN u = 1..Len(u) /\ Len(u) \in Nat /\ DOMAIN s = 1..Len(s)
        /\ Len(s) \in Nat \ {0}
    BY <1>1, LenProperties, EmptySeq
  <1> HIDE DEF u
  <1>3. \A i \in DOMAIN u : i + 1 \in DOMAIN s /\ u[i] = s[i + 1] /\ 1 < i + 1
    BY <1>1, <1>2
  <1>4. 1 \in DOMAIN s
    BY <1>2
  <1>5. Nums(u) \subseteq Nums(s)
    BY <1>3 DEF Nums
  <1>6. Shim(s[1]) => s[1].num \in Nums(s)
    BY <1>4 DEF Nums
  <1>7. \A i, j \in DOMAIN u : i < j => i + 1 < j + 1
    BY <1>2
  <1>8. Rising(s) => Rising(u)
    BY <1>3, <1>7 DEF Rising
  <1>9. Rising(s) /\ Shim(s[1]) => Before({s[1].num}, Nums(u))
    BY <1>3, <1>4 DEF Rising, Nums, Before
  <1>10. QED  BY <1>5, <1>6, <1>8, <1>9 DEF u

\* A sequence cut in two, as unblockREQ cuts its queue.
LEMMA NumsSplit ==
  ASSUME NEW q \in Seq(Msg), NEW n \in 1..Len(q)
  PROVE  /\ Nums(SubSeq(q, 1, n)) \subseteq Nums(q)
         /\ Nums(SubSeq(q, n + 1, Len(q))) \subseteq Nums(q)
         /\ Rising(q) =>
              /\ Rising(SubSeq(q, 1, n)) /\ Rising(SubSeq(q, n + 1, Len(q)))
              /\ Before(Nums(SubSeq(q, 1, n)), Nums(SubSeq(q, n + 1, Len(q))))
  <1> DEFINE f == SubSeq(q, 1, n)
             r == SubSeq(q, n + 1, Len(q))
  <1>0. Len(q) \in Nat /\ n \in Nat /\ n <= Len(q) /\ n >= 1 /\ DOMAIN q = 1..Len(q)
    BY LenProperties
  <1>1. DOMAIN f = 1..n /\ \A i \in 1..n : f[i] = q[i]
    <2>1. \A i \in 1..n : q[i] \in Msg
      BY <1>0, ElementOfSeq
    <2>2. f \in Seq(Msg) /\ Len(f) = n /\ \A i \in 1..n : f[i] = q[1 + i - 1]
      BY <1>0, <2>1, SubSeqProperties
    <2>3. \A i \in 1..n : 1 + i - 1 = i
      BY <1>0
    <2>4. QED  BY <2>2, <2>3, LenProperties
  <1> DEFINE m == Len(q) - n
  <1>2. DOMAIN r = 1..m /\ \A i \in 1..m : r[i] = q[n + i]
    <2>1. \A i \in (n + 1)..Len(q) : q[i] \in Msg
      BY <1>0, ElementOfSeq
    <2>2. /\ r \in Seq(Msg) /\ Len(r) = IF n + 1 <= Len(q) THEN Len(q) - (n + 1) + 1 ELSE 0
          /\ \A i \in 1..(Len(q) - (n + 1) + 1) : r[i] = q[(n + 1) + i - 1]
      BY <1>0, <2>1, SubSeqProperties
    <2>3. Len(r) = m
      <3> DEFINE k == Len(q)
      <3>1. k \in Nat /\ n \in Nat /\ n <= k /\ Len(r) = IF n + 1 <= k THEN k - (n + 1) + 1 ELSE 0
        BY <1>0, <2>2
      <3> HIDE DEF k
      <3>2. Len(r) = k - n
        BY <3>1
      <3>3. QED  BY <3>2 DEF k
    <2>4. Len(q) - (n + 1) + 1 = m /\ \A i \in 1..m : (n + 1) + i - 1 = n + i
      BY <1>0
    <2>5. QED  BY <2>2, <2>3, <2>4, LenProperties
  <1> HIDE DEF f, r
  <1>3. \A i \in DOMAIN f : i \in DOMAIN q /\ f[i] = q[i] /\ i \in 1..n
    BY <1>0, <1>1
  <1>4. \A i \in DOMAIN r : n + i \in DOMAIN q /\ r[i] = q[n + i]
    BY <1>0, <1>2
  <1>5. \A i, j \in DOMAIN r : i < j => n + i < n + j
    BY <1>0, <1>2
  <1>6. \A i \in DOMAIN f, j \in DOMAIN r : i < n + j
    BY <1>0, <1>1, <1>2
  <1>7. Nums(f) \subseteq Nums(q)
    BY <1>3 DEF Nums
  <1>8. Nums(r) \subseteq Nums(q)
    BY <1>4 DEF Nums
  <1>9. Rising(q) => Rising(f)
    BY <1>3 DEF Rising
  <1>10. Rising(q) => Rising(r)
    BY <1>4, <1>5 DEF Rising
  <1>11. Rising(q) => Before(Nums(f), Nums(r))
    <2> SUFFICES ASSUME Rising(q), NEW x \in Nums(f), NEW y \in Nums(r) PROVE x < y
      BY DEF Before
    <2>1. PICK i \in DOMAIN f : Shim(f[i]) /\ x = f[i].num
      BY DEF Nums
    <2>2. PICK j \in DOMAIN r : Shim(r[j]) /\ y = r[j].num
      BY DEF Nums
    <2>3. i \in DOMAIN q /\ n + j \in DOMAIN q /\ f[i] = q[i] /\ r[j] = q[n + j] /\ i < n + j
      BY <1>3, <1>4, <1>6
    <2>4. QED  BY <2>1, <2>2, <2>3 DEF Rising
  <1>12. QED  BY <1>7, <1>8, <1>9, <1>10, <1>11 DEF f, r

\* A bundle is numbered upwards from made + 1.
LEMMA NumsBundle ==
  ASSUME NEW c \in Clients, NEW n \in Nat, NEW k \in Nat \ {0}
  PROVE  Rising(Bundle(c, n, k)) /\ Nums(Bundle(c, n, k)) \subseteq (n + 1)..(n + k)
  <1> DEFINE t == Bundle(c, n, k)
  <1>1. DOMAIN t = 1..k /\ \A i \in 1..k : t[i].num = n + i
    BY DEF Bundle, Message
  <1> HIDE DEF t
  <1>2. Rising(t)
    BY <1>1 DEF Rising
  <1>3. \A i \in 1..k : n + i \in (n + 1)..(n + k)
    OBVIOUS
  <1>4. Nums(t) \subseteq (n + 1)..(n + k)
    BY <1>1, <1>3 DEF Nums
  <1>5. QED  BY <1>2, <1>4 DEF t

\* The fabric's own requests have no number.
LEMMA NumsOwn ==
  ASSUME NEW c \in Clients, NEW topo \in {<<>>, <<TopoReq(c)>>}
  PROVE  /\ Nums(topo \o <<JoinReq(c)>>) = {} /\ Rising(topo \o <<JoinReq(c)>>)
         /\ Nums(<<JoinReq(c)>>) = {} /\ Rising(<<JoinReq(c)>>)
  <1>1. JoinReq(c) \in Msg /\ TopoReq(c) \in Msg
    BY RequestType
  <1>2. ~Shim(JoinReq(c)) /\ ~Shim(TopoReq(c))
    BY DEF Shim, JoinReq, TopoReq, Message
  <1>3. topo \in Seq(Msg)
    <2>1. <<>> \in Seq(Msg)
      BY EmptySeq
    <2>2. <<TopoReq(c)>> \in Seq(Msg)
      BY <1>1
    <2>3. QED  BY <2>1, <2>2
  <1>4. Nums(topo) = {} /\ Rising(topo)
    <2>1. CASE topo = <<>>
      BY <2>1, NumsEmpty
    <2>2. CASE topo = <<TopoReq(c)>>
      <3>1. DOMAIN <<TopoReq(c)>> = {1} /\ <<TopoReq(c)>>[1] = TopoReq(c)
        OBVIOUS
      <3>2. QED  BY <1>2, <2>2, <3>1 DEF Nums, Rising
    <2>3. QED  BY <2>1, <2>2
  <1>5. topo \o <<JoinReq(c)>> = Append(topo, JoinReq(c))
    BY <1>1, <1>3, AppendIsConcat
  <1>6. Nums(<<JoinReq(c)>>) = {} /\ Rising(<<JoinReq(c)>>)
    <2>1. DOMAIN <<JoinReq(c)>> = {1} /\ <<JoinReq(c)>>[1] = JoinReq(c)
      OBVIOUS
    <2>2. QED  BY <1>2, <2>1 DEF Nums, Rising
  <1>7. QED  BY <1>1, <1>2, <1>3, <1>4, <1>5, <1>6, NumsAppend

\* The topology request a reply's callback queues has no number.
LEMMA NumsConcat ==
  ASSUME NEW c \in Clients, NEW p \in Seq(Msg), NEW sends \in {<<>>, <<QueuedTopoReq(c)>>}
  PROVE  Nums(p \o sends) = Nums(p) /\ (Rising(p) => Rising(p \o sends))
  <1>1. CASE sends = <<>>
    BY <1>1, ConcatEmptySeq
  <1>2. CASE sends = <<QueuedTopoReq(c)>>
    <2> DEFINE e == QueuedTopoReq(c)
    <2>1. e \in Msg /\ ~Shim(e)
      BY RequestType DEF QueuedTopoReq, TopoReq, Message, Shim
    <2>2. p \o sends = Append(p, e)
      BY <1>2, <2>1, AppendIsConcat
    <2> HIDE DEF e
    <2>3. QED  BY <2>1, <2>2, NumsAppend
  <1>3. QED  BY <1>1, <1>2

\* CASSI's queue.
LEMMA CassiNumsAppend ==
  ASSUME NEW q \in Seq(Msg), NEW m \in Msg, NEW c \in Clients
  PROVE  /\ m.from = c => CassiNums(Append(q, m), c) \subseteq CassiNums(q, c) \cup {m.num}
         /\ m.from # c => CassiNums(Append(q, m), c) \subseteq CassiNums(q, c)
         /\ CassiRising(q) /\ Before(CassiNums(q, m.from), {m.num}) => CassiRising(Append(q, m))
  <1> DEFINE u == Append(q, m)
             n == Len(q) + 1
  <1>1. /\ u \in Seq(Msg) /\ Len(u) = Len(q) + 1 /\ u[Len(q) + 1] = m
        /\ \A i \in 1..Len(q) : u[i] = q[i]
    BY AppendProperties
  <1>2. DOMAIN u = 1..(Len(q) + 1) /\ DOMAIN q = 1..Len(q) /\ Len(q) \in Nat
    BY <1>1, LenProperties
  <1> HIDE DEF u
  <1>3. /\ n \in DOMAIN u /\ u[n] = m
        /\ \A i \in DOMAIN q : i \in DOMAIN u /\ u[i] = q[i]
        /\ \A i \in DOMAIN u : i \in DOMAIN q \/ i = n
    BY <1>1, <1>2
  <1>4. \A i, j \in DOMAIN u : i < j => i \in DOMAIN q
    BY <1>2
  <1> HIDE DEF n
  <1>5. \A x \in CassiNums(u, c) : x \in CassiNums(q, c) \/ (m.from = c /\ x = m.num)
    BY <1>3 DEF CassiNums
  <1>6. ASSUME CassiRising(q), Before(CassiNums(q, m.from), {m.num}) PROVE CassiRising(u)
    <2> SUFFICES ASSUME NEW i \in DOMAIN u, NEW j \in DOMAIN u, i < j, u[i].from = u[j].from
                 PROVE  u[i].num < u[j].num
      BY DEF CassiRising
    <2>1. i \in DOMAIN q /\ u[i] = q[i]
      BY <1>3, <1>4
    <2>2. CASE j \in DOMAIN q
      BY <1>3, <1>6, <2>1, <2>2 DEF CassiRising
    <2>3. CASE j = n
      <3>1. u[j] = m
        BY <1>3, <2>3
      <3>2. q[i].num \in CassiNums(q, m.from)
        BY <2>1, <3>1 DEF CassiNums
      <3>3. QED  BY <1>6, <2>1, <3>1, <3>2 DEF Before
    <2>4. QED  BY <1>3, <2>2, <2>3
  <1>7. QED  BY <1>5, <1>6 DEF u

\* The CASSI thread takes the first message of its queue.
LEMMA CassiNumsTail ==
  ASSUME NEW q \in Seq(Msg), q # <<>>
  PROVE  /\ \A c \in Clients : CassiNums(Tail(q), c) \subseteq CassiNums(q, c)
         /\ CassiRising(q) => CassiRising(Tail(q))
  <1> DEFINE u == Tail(q)
  <1>1. /\ u \in Seq(Msg) /\ Len(u) = Len(q) - 1 /\ \A i \in 1..Len(u) : u[i] = q[i + 1]
    BY HeadTailProperties
  <1>2. /\ DOMAIN u = 1..Len(u) /\ Len(u) \in Nat /\ DOMAIN q = 1..Len(q)
        /\ Len(q) \in Nat \ {0}
    BY <1>1, LenProperties, EmptySeq
  <1> HIDE DEF u
  <1>3. \A i \in DOMAIN u : i + 1 \in DOMAIN q /\ u[i] = q[i + 1]
    BY <1>1, <1>2
  <1>4. \A i, j \in DOMAIN u : i < j => i + 1 < j + 1
    BY <1>2
  <1>5. \A c \in Clients : CassiNums(u, c) \subseteq CassiNums(q, c)
    BY <1>3 DEF CassiNums
  <1>6. CassiRising(q) => CassiRising(u)
    BY <1>3, <1>4 DEF CassiRising
  <1>7. QED  BY <1>5, <1>6 DEF u

\* The requests of a client at the server.
LEMMA RequestsAppend ==
  ASSUME NEW t \in Seq(Request), NEW r \in Request
  PROVE  /\ RequestNums(Append(t, r)) = RequestNums(t) \cup Nums(r.parts)
         /\ RequestsRising(t) /\ Rising(r.parts) /\ Before(RequestNums(t), Nums(r.parts))
               => RequestsRising(Append(t, r))
  <1> DEFINE u == Append(t, r)
             n == Len(t) + 1
  <1>1. /\ u \in Seq(Request) /\ Len(u) = Len(t) + 1 /\ u[Len(t) + 1] = r
        /\ \A i \in 1..Len(t) : u[i] = t[i]
    BY AppendProperties
  <1>2. DOMAIN u = 1..(Len(t) + 1) /\ DOMAIN t = 1..Len(t) /\ Len(t) \in Nat
    BY <1>1, LenProperties
  <1> HIDE DEF u
  <1>3. /\ n \in DOMAIN u /\ u[n] = r
        /\ \A i \in DOMAIN t : i \in DOMAIN u /\ u[i] = t[i]
        /\ \A i \in DOMAIN u : i \in DOMAIN t \/ i = n
    BY <1>1, <1>2
  <1>4. \A i, j \in DOMAIN u : i < j => i \in DOMAIN t
    BY <1>2
  <1> HIDE DEF n
  <1>5. \A x : x \in RequestNums(u) <=> x \in RequestNums(t) \/ x \in Nums(r.parts)
    <2> SUFFICES ASSUME NEW x PROVE x \in RequestNums(u) <=> x \in RequestNums(t) \/ x \in Nums(r.parts)
      OBVIOUS
    <2>1. ASSUME x \in RequestNums(u) PROVE x \in RequestNums(t) \/ x \in Nums(r.parts)
      BY <1>3, <2>1 DEF RequestNums
    <2>2. ASSUME x \in RequestNums(t) PROVE x \in RequestNums(u)
      BY <1>3, <2>2 DEF RequestNums
    <2>3. ASSUME x \in Nums(r.parts) PROVE x \in RequestNums(u)
      BY <1>3, <2>3 DEF RequestNums
    <2>4. QED  BY <2>1, <2>2, <2>3
  <1>6. ASSUME RequestsRising(t), Rising(r.parts), Before(RequestNums(t), Nums(r.parts))
        PROVE  RequestsRising(u)
    <2>1. \A i \in DOMAIN u : Rising(u[i].parts)
      BY <1>3, <1>6 DEF RequestsRising
    <2>2. ASSUME NEW i \in DOMAIN u, NEW j \in DOMAIN u, i < j
          PROVE  Before(Nums(u[i].parts), Nums(u[j].parts))
      <3>1. i \in DOMAIN t /\ u[i] = t[i]
        BY <1>3, <1>4, <2>2
      <3>2. CASE j \in DOMAIN t
        BY <1>3, <1>6, <2>2, <3>1, <3>2 DEF RequestsRising
      <3>3. CASE j = n
        <4>1. Nums(t[i].parts) \subseteq RequestNums(t)
          BY <3>1 DEF RequestNums
        <4>2. u[j] = r
          BY <1>3, <3>3
        <4>3. QED  BY <1>6, <3>1, <4>1, <4>2 DEF Before
      <3>4. QED  BY <1>3, <3>2, <3>3
    <2>3. QED  BY <2>1, <2>2 DEF RequestsRising
  <1>7. QED  BY <1>5, <1>6 DEF u

\* The REP socket takes the first request of a client.
LEMMA RequestsTail ==
  ASSUME NEW t \in Seq(Request), t # <<>>
  PROVE  /\ RequestNums(Tail(t)) \subseteq RequestNums(t)
         /\ Nums(t[1].parts) \subseteq RequestNums(t)
         /\ RequestsRising(t) =>
              /\ RequestsRising(Tail(t)) /\ Rising(t[1].parts)
              /\ Before(Nums(t[1].parts), RequestNums(Tail(t)))
  <1> DEFINE u == Tail(t)
  <1>1. /\ u \in Seq(Request) /\ Len(u) = Len(t) - 1 /\ \A i \in 1..Len(u) : u[i] = t[i + 1]
    BY HeadTailProperties
  <1>2. /\ DOMAIN u = 1..Len(u) /\ Len(u) \in Nat /\ DOMAIN t = 1..Len(t)
        /\ Len(t) \in Nat \ {0}
    BY <1>1, LenProperties, EmptySeq
  <1> HIDE DEF u
  <1>3. \A i \in DOMAIN u : i + 1 \in DOMAIN t /\ u[i] = t[i + 1] /\ 1 < i + 1
    BY <1>1, <1>2
  <1>4. \A i, j \in DOMAIN u : i < j => i + 1 < j + 1
    BY <1>2
  <1>5. 1 \in DOMAIN t
    BY <1>2
  <1>6. RequestNums(u) \subseteq RequestNums(t)
    BY <1>3 DEF RequestNums
  <1>7. Nums(t[1].parts) \subseteq RequestNums(t)
    BY <1>5 DEF RequestNums
  <1>8. RequestsRising(t) => RequestsRising(u)
    BY <1>3, <1>4 DEF RequestsRising
  <1>9. RequestsRising(t) => Rising(t[1].parts)
    BY <1>5 DEF RequestsRising
  <1>10. RequestsRising(t) => Before(Nums(t[1].parts), RequestNums(u))
    <2> SUFFICES ASSUME RequestsRising(t), NEW x \in Nums(t[1].parts), NEW y \in RequestNums(u)
                 PROVE  x < y
      BY DEF Before
    <2>1. PICK i \in DOMAIN u : y \in Nums(u[i].parts)
      BY DEF RequestNums
    <2>2. Before(Nums(t[1].parts), Nums(t[i + 1].parts)) /\ u[i] = t[i + 1]
      BY <1>3, <1>5, <2>1 DEF RequestsRising
    <2>3. QED  BY <2>1, <2>2 DEF Before
  <1>11. QED  BY <1>6, <1>7, <1>8, <1>9, <1>10 DEF u

-----------------------------------------------------------------------------
(* The order of messages, step by step *)

\* The places of the line.
LEMMA LineAt ==
  ASSUME NEW c \in Clients
  PROVE  /\ Line(c)[0] = CassiNums(m_cFabricToCassi, c) /\ Line(c)[1] = ReadNums(repCur, c)
         /\ Line(c)[2] = RequestNums(repIn[c]) /\ Line(c)[3] = Nums(pipe[c])
         /\ Line(c)[4] = Nums(Pending(c)) /\ Line(c)[5] = Nums(task[c])
  BY DEF Line, Places

\* A line that loses elements is still in line.
LEMMA LineShrinks ==
  ASSUME NEW l, InLine(l), NEW u, \A p \in Places : u[p] \subseteq l[p]
  PROVE  InLine(u)
  BY DEF InLine, Before

\* Elements X of place r move on to place p; what they pass is empty, and they
\* were in front of what stays at r.
LEMMA LineMoves ==
  ASSUME NEW l, InLine(l), NEW u, NEW p \in Places, NEW r \in Places, p < r,
         NEW X, X \subseteq l[r], Before(X, u[r]), u[p] \subseteq l[p] \cup X,
         \A q \in Places \ {p} : u[q] \subseteq l[q],
         \A q \in Places : p < q /\ q < r => u[q] = {}
  PROVE  InLine(u)
  <1> SUFFICES ASSUME NEW a \in Places, NEW b \in Places, a < b, NEW x \in u[a], NEW y \in u[b]
               PROVE  x < y
    BY DEF InLine, Before
  <1>1. CASE x \in l[a] /\ y \in l[b]
    BY <1>1 DEF InLine, Before
  <1>2. CASE x \notin l[a]
    <2>1. a = p /\ x \in X /\ x \in l[r] /\ b # p /\ y \in l[b]
      BY <1>2 DEF Places
    <2>2. CASE b = r
      BY <2>1, <2>2 DEF Before
    <2>3. CASE b # r
      <3>1. r < b
        BY <2>1, <2>3 DEF Places
      <3>2. QED  BY <2>1, <3>1 DEF InLine, Before
    <2>4. QED  BY <2>2, <2>3
  <1>3. CASE y \notin l[b]
    <2>1. b = p /\ y \in l[r] /\ a # p /\ x \in l[a]
      BY <1>3 DEF Places
    <2>2. a < r
      BY <2>1 DEF Places
    <2>3. QED  BY <2>1, <2>2 DEF InLine, Before
  <1>4. QED  BY <1>1, <1>2, <1>3

\* The places of the line after a step.
LEMMA LineNext ==
  ASSUME NEW c \in Clients
  PROVE  /\ Line(c)'[0] = CassiNums(m_cFabricToCassi', c) /\ Line(c)'[1] = ReadNums(repCur', c)
         /\ Line(c)'[2] = RequestNums(repIn'[c]) /\ Line(c)'[3] = Nums(pipe'[c])
         /\ Line(c)'[4] = Nums(Pending(c)') /\ Line(c)'[5] = Nums(task'[c])
  BY DEF Line, Places

RisingAt(c) == Rising(task[c]) /\ Rising(Pending(c)) /\ Rising(pipe[c]) /\ RequestsRising(repIn[c])

\* No place of c's line gains a message.
OrderLess(c) ==
    /\ made'[c] = made[c]
    /\ CassiNums(m_cFabricToCassi', c) \subseteq CassiNums(m_cFabricToCassi, c)
    /\ ReadNums(repCur', c) \subseteq ReadNums(repCur, c)
    /\ RequestNums(repIn'[c]) \subseteq RequestNums(repIn[c])
    /\ Nums(pipe'[c]) \subseteq Nums(pipe[c])
    /\ Nums(Pending(c)') \subseteq Nums(Pending(c))
    /\ Nums(task'[c]) \subseteq Nums(task[c])

\* A line that only loses messages stays in order.
LEMMA OrderShrinks ==
  ASSUME NEW c \in Clients, OrderAt(c), OrderLess(c), RisingAt(c)'
  PROVE  OrderAt(c)'
  <1> DEFINE l == Line(c)
             u == Line(c)'
  <1>1. /\ u[0] \subseteq l[0] /\ u[1] \subseteq l[1] /\ u[2] \subseteq l[2]
        /\ u[3] \subseteq l[3] /\ u[4] \subseteq l[4] /\ u[5] \subseteq l[5]
    BY LineAt, LineNext DEF OrderLess
  <1>2. InLine(l) /\ \A p \in Places : l[p] \subseteq 0..made[c]
    BY DEF OrderAt
  <1> HIDE DEF l, u
  <1>3. \A p \in Places : u[p] \subseteq l[p]
    BY <1>1 DEF Places
  <1>4. InLine(u)
    BY <1>2, <1>3, LineShrinks
  <1>5. \A p \in Places : u[p] \subseteq 0..made'[c]
    BY <1>2, <1>3 DEF OrderLess
  <1>6. QED  BY <1>4, <1>5 DEF OrderAt, RisingAt, u

\* What c's line is made of is as it was, apart from the server's end of it.
OrderSame(c) ==
    /\ pipe'[c] = pipe[c] /\ Pending(c)' = Pending(c) /\ task'[c] = task[c]
    /\ repIn'[c] = repIn[c] /\ made'[c] = made[c]

\* A client whose messages do not move keeps their order.
LEMMA OrderKept ==
  ASSUME NEW c \in Clients, OrderAt(c), OrderSame(c),
         CassiNums(m_cFabricToCassi', c) \subseteq CassiNums(m_cFabricToCassi, c),
         ReadNums(repCur', c) \subseteq ReadNums(repCur, c)
  PROVE  OrderAt(c)'
  <1>1. OrderLess(c)
    BY DEF OrderLess, OrderSame
  <1>2. RisingAt(c)'
    BY DEF OrderAt, OrderSame, RisingAt
  <1>3. QED  BY <1>1, <1>2, OrderShrinks

\* Messages of c move from place r to place p.
LEMMA OrderMoves ==
  ASSUME NEW c \in Clients, OrderAt(c), RisingAt(c)', made'[c] = made[c],
         NEW p \in Places, NEW r \in Places, p < r,
         NEW X, X \subseteq Line(c)[r], Before(X, Line(c)'[r]),
         Line(c)'[p] \subseteq Line(c)[p] \cup X,
         \A q \in Places \ {p} : Line(c)'[q] \subseteq Line(c)[q],
         \A q \in Places : p < q /\ q < r => Line(c)'[q] = {}
  PROVE  OrderAt(c)'
  <1> DEFINE l == Line(c)
             u == Line(c)'
  <1>1. InLine(l) /\ \A q \in Places : l[q] \subseteq 0..made[c]
    BY DEF OrderAt
  <1>a. /\ X \subseteq l[r] /\ Before(X, u[r]) /\ u[p] \subseteq l[p] \cup X
        /\ \A q \in Places \ {p} : u[q] \subseteq l[q]
        /\ \A q \in Places : p < q /\ q < r => u[q] = {}
    OBVIOUS
  <1> HIDE DEF l, u
  <1>2. InLine(u)
    BY <1>1, <1>a, LineMoves
  <1>3. \A q \in Places : u[q] \subseteq 0..made'[c]
    BY <1>1, <1>a
  <1>4. QED  BY <1>2, <1>3 DEF OrderAt, RisingAt, u

\* sendREQ keeps the order: its message passes from the callback to the
\* socket.
LEMMA OrderSendREQ ==
  ASSUME RequestInv, OrderInv, NEW c \in Clients, sendREQ(c)
  PROVE  OrderInv'
  <1>0. Inv /\ ChainInv
    BY DEF RequestInv
  <1>1. OnlySocket(c) /\ made' = made /\ repIn' = repIn /\ repCur' = repCur
        /\ m_cFabricToCassi' = m_cFabricToCassi
    BY <1>0, SendREQEffect DEF server
  <1> DEFINE t == task[c]
             s == Pending(c)
  <1>2. PICK m \in Msg, e \in Msg :
              /\ t # <<>> /\ m = Head(t)
              /\ e = [m EXCEPT !.first = (m_iBundle[c] = "FIRST")]
              /\ task'[c] = Tail(t)
              /\ \/ Adds(c, e)
                 \/ ~m_bREQInProgress[c] /\ Sends(c, Append(s, e), <<>>)
    BY <1>0, SendREQEffect
  <1>3. t \in Seq(Msg) /\ s \in Seq(Msg) /\ OrderAt(c)
    BY <1>0, PendingType DEF Inv, FabricType, OrderInv
  <1>4. m = t[1] /\ e.num = m.num /\ (Shim(e) <=> Shim(m))
    BY <1>2, <1>3, HeadTailProperties DEF Msg, Shim
  <1>5. Rising(t) /\ Rising(s) /\ Rising(pipe[c]) /\ RequestsRising(repIn[c])
    BY <1>3 DEF OrderAt
  <1> DEFINE X == IF Shim(m) THEN {m.num} ELSE {}
             l == Line(c)
             u == Line(c)'
  <1>6. /\ l[4] = Nums(s) /\ l[5] = Nums(t) /\ u[5] = Nums(Tail(t))
        /\ u[3] = Nums(pipe'[c]) /\ u[4] = Nums(Pending(c)')
        /\ u[0] = l[0] /\ u[1] = l[1] /\ u[2] = l[2] /\ l[3] = Nums(pipe[c])
    BY <1>1, <1>2, LineAt, LineNext
  <1>7. X \subseteq l[5] /\ u[5] \subseteq l[5] /\ Rising(Tail(t)) /\ Before(X, u[5])
    BY <1>2, <1>3, <1>4, <1>5, <1>6, NumsTail DEF Before
  <1>8. InLine(l) /\ \A q \in Places : l[q] \subseteq 0..made[c]
    BY <1>3 DEF OrderAt
  <1>9. Before(Nums(s), X)
    <2>1. Before(l[4], l[5])
      BY <1>8 DEF InLine, Places
    <2>2. QED  BY <1>6, <1>7, <2>1 DEF Before
  <1>10. Rising(Append(s, e)) /\ Nums(Append(s, e)) = Nums(s) \cup X
    <2>1. CASE Shim(m)
      <3>1. X = {e.num}
        BY <1>4, <2>1
      <3>2. QED  BY <1>3, <1>4, <1>5, <1>9, <2>1, <3>1, NumsAppend
    <2>2. CASE ~Shim(m)
      <3>1. X = {}
        BY <2>2
      <3>2. QED  BY <1>3, <1>4, <1>5, <2>2, <3>1, NumsAppend
    <2>3. QED  BY <2>1, <2>2
  <1> HIDE DEF t, s, X, l, u
  <1>11. OrderAt(c)'
    <2>1. CASE Adds(c, e)
      <3>1. Pending(c)' = Append(s, e) /\ pipe'[c] = pipe[c]
        BY <2>1 DEF Adds, s
      <3>2. RisingAt(c)'
        BY <1>1, <1>2, <1>5, <1>7, <1>10, <3>1 DEF RisingAt
      <3>3. u[4] = l[4] \cup X /\ u[3] = l[3]
        BY <1>6, <1>10, <3>1
      <3>4. /\ 4 \in Places /\ 5 \in Places
            /\ \A q \in Places \ {4} : u[q] \subseteq l[q]
            /\ \A q \in Places : 4 < q /\ q < 5 => u[q] = {}
        BY <1>6, <1>7, <3>3 DEF Places
      <3>5. InLine(u)
        BY <1>7, <1>8, <3>3, <3>4, LineMoves
      <3>6. \A q \in Places : u[q] \subseteq 0..made'[c]
        BY <1>1, <1>7, <1>8, <3>3, <3>4
      <3>7. QED  BY <3>2, <3>5, <3>6 DEF OrderAt, RisingAt, u
    <2>2. CASE Sends(c, Append(s, e), <<>>)
      <3>1. Pending(c)' = <<>> /\ pipe'[c] = Append(s, e)
        BY <2>2 DEF Sends
      <3>2. RisingAt(c)'
        BY <1>1, <1>2, <1>5, <1>7, <1>10, <3>1, NumsEmpty DEF RisingAt
      <3> DEFINE w == [q \in Places |-> IF q = 4 THEN l[4] \cup X ELSE u[q] \cap l[q]]
      <3>3. /\ w[4] = l[4] \cup X
            /\ \A q \in Places \ {4} : w[q] = u[q] \cap l[q]
        BY DEF Places
      <3>4. /\ 3 \in Places /\ 4 \in Places /\ 5 \in Places
            /\ u[3] = l[4] \cup X /\ u[4] = {}
        BY <1>6, <1>10, <3>1, NumsEmpty DEF Places
      <3> HIDE DEF w
      <3>5. w[5] = u[5] /\ \A q \in Places : 4 < q /\ q < 5 => w[q] = {}
        <4>1. w[5] = u[5] \cap l[5]
          BY <3>3, <3>4
        <4>2. u[5] \cap l[5] = u[5]
          BY <1>7
        <4>3. QED  BY <4>1, <4>2 DEF Places
      <3>6. \A q \in Places \ {4} : w[q] \subseteq l[q]
        BY <3>3
      <3>7. InLine(w)
        BY <1>7, <1>8, <3>3, <3>4, <3>5, <3>6, LineMoves
      <3>8. /\ \A q \in Places \ {3} : u[q] \subseteq w[q]
            /\ \A q \in Places : 3 < q /\ q < 4 => u[q] = {}
        <4>1. w[0] = u[0] /\ w[1] = u[1] /\ w[2] = u[2]
          <5>1. 0 \in Places \ {4} /\ 1 \in Places \ {4} /\ 2 \in Places \ {4}
            BY DEF Places
          <5>2. w[0] = u[0] \cap l[0] /\ w[1] = u[1] \cap l[1] /\ w[2] = u[2] \cap l[2]
            BY <3>3, <5>1
          <5>3. QED  BY <1>6, <5>2
        <4>2. QED  BY <3>4, <3>5, <4>1 DEF Places
      <3>9. InLine(u)
        <4> DEFINE Y == l[4] \cup X
        <4>1. Y \subseteq w[4] /\ Before(Y, u[4]) /\ u[3] \subseteq w[3] \cup Y
          BY <3>3, <3>4 DEF Before
        <4> HIDE DEF Y
        <4>2. 3 < 4
          OBVIOUS
        <4>3. QED  BY <3>4, <3>7, <3>8, <4>1, <4>2, LineMoves
      <3>10. \A q \in Places : u[q] \subseteq 0..made'[c]
        <4>1. /\ u[0] \subseteq l[0] /\ u[1] \subseteq l[1] /\ u[2] \subseteq l[2]
              /\ u[3] \subseteq l[4] \cup l[5] /\ u[4] \subseteq l[4] /\ u[5] \subseteq l[5]
          BY <1>6, <1>7, <3>4
        <4>2. \A q \in 0..5 : l[q] \subseteq 0..made[c]
          BY <1>8 DEF Places
        <4>3. QED  BY <1>1, <4>1, <4>2 DEF Places
      <3>11. QED  BY <3>2, <3>9, <3>10 DEF OrderAt, RisingAt, u
    <2>3. QED  BY <1>2, <2>1, <2>2
  <1>12. \A d \in Clients \ {c} : OrderAt(d)'
    <2> SUFFICES ASSUME NEW d \in Clients \ {c} PROVE OrderAt(d)'
      OBVIOUS
    <2>1. OrderSame(d)
      BY <1>1, OnlySocketKeeps DEF OrderSame, OnlySocket
    <2>2. OrderAt(d)
      BY DEF OrderInv
    <2>3. QED  BY <1>1, <2>1, <2>2, OrderKept
  <1>13. QED  BY <1>1, <1>11, <1>12 DEF OrderInv

\* unblockREQ keeps the order: the first bundle of the queue goes out.
LEMMA OrderReadReply ==
  ASSUME RequestInv, OrderInv, NEW c \in Clients, ReadReply(c)
  PROVE  OrderInv'
  <1>0. Inv /\ ChainInv /\ m_bREQInProgress[c]
    BY DEF RequestInv, ReadReply, OutInv, OutAt
  <1>1. OnlySocket(c) /\ made' = made /\ repIn' = repIn /\ repCur' = repCur
        /\ m_cFabricToCassi' = m_cFabricToCassi /\ task'[c] = task[c]
    BY <1>0, ReadReplyEffect DEF server
  <1> DEFINE s == Pending(c)
  <1>2. PICK sends \in {<<>>, <<QueuedTopoReq(c)>>}, q \in Seq(Msg) :
          /\ q = s \o sends
          /\ \/ q = <<>> /\ Frees(c)
             \/ /\ q # <<>>
                /\ \E n : /\ n = BundleLength(q)
                          /\ Sends(c, SubSeq(q, 1, n), SubSeq(q, n + 1, Len(q)))
    BY <1>0, ReadReplyEffect
  <1>3. s \in Seq(Msg) /\ OrderAt(c)
    BY <1>0, PendingType DEF OrderInv, Inv
  <1>4. Rising(s) /\ Rising(task[c]) /\ RequestsRising(repIn[c]) /\ Rising(pipe[c])
    BY <1>3 DEF OrderAt
  <1>5. Nums(q) = Nums(s) /\ Rising(q)
    BY <1>2, <1>3, <1>4, NumsConcat
  <1>6. OrderAt(c)'
    <2>1. CASE Frees(c)
      <3>1. Pending(c)' = <<>> /\ pipe'[c] = pipe[c]
        BY <2>1 DEF Frees
      <3>2. OrderLess(c)
        BY <1>1, <3>1, NumsEmpty DEF OrderLess
      <3>3. RisingAt(c)'
        BY <1>1, <1>4, <3>1, NumsEmpty DEF RisingAt
      <3>4. QED  BY <1>3, <3>2, <3>3, OrderShrinks
    <2>2. ASSUME q # <<>>, NEW n, n = BundleLength(q),
                 Sends(c, SubSeq(q, 1, n), SubSeq(q, n + 1, Len(q)))
          PROVE  OrderAt(c)'
      <3> DEFINE f == SubSeq(q, 1, n)
                 r == SubSeq(q, n + 1, Len(q))
      <3>1. n \in 1..Len(q)
        BY <2>2, BundleLengthWorks
      <3>2. pipe'[c] = f /\ Pending(c)' = r
        BY <2>2 DEF Sends
      <3> HIDE DEF f, r
      <3>3. /\ Nums(f) \subseteq Nums(q) /\ Nums(r) \subseteq Nums(q)
            /\ Rising(f) /\ Rising(r) /\ Before(Nums(f), Nums(r))
        BY <1>5, <3>1, NumsSplit DEF f, r
      <3>4. RisingAt(c)'
        BY <1>1, <1>4, <3>2, <3>3 DEF RisingAt
      <3> DEFINE l == Line(c)
                 u == Line(c)'
                 X == Nums(f)
      <3>5. /\ u[0] = l[0] /\ u[1] = l[1] /\ u[2] = l[2] /\ u[5] = l[5]
            /\ u[3] = X /\ u[4] = Nums(r) /\ l[4] = Nums(s)
        BY <1>1, <3>2, LineAt, LineNext
      <3> HIDE DEF l, u, X
      <3>6. X \subseteq l[4] /\ Before(X, u[4]) /\ u[3] \subseteq l[3] \cup X
        BY <1>5, <3>3, <3>5 DEF X
      <3>7. /\ 3 \in Places /\ 4 \in Places /\ 3 < 4
            /\ \A p \in Places \ {3} : u[p] \subseteq l[p]
            /\ \A p \in Places : 3 < p /\ p < 4 => u[p] = {}
        BY <1>5, <3>3, <3>5 DEF Places
      <3>8. QED  BY <1>1, <1>3, <3>4, <3>6, <3>7, OrderMoves DEF l, u
    <2>3. QED  BY <1>2, <2>1, <2>2
  <1>7. \A d \in Clients \ {c} : OrderAt(d)'
    <2> SUFFICES ASSUME NEW d \in Clients \ {c} PROVE OrderAt(d)'
      OBVIOUS
    <2>1. OrderSame(d)
      BY <1>1, OnlySocketKeeps DEF OrderSame, OnlySocket
    <2>2. OrderAt(d)
      BY DEF OrderInv
    <2>3. QED  BY <1>1, <2>1, <2>2, OrderKept
  <1>8. QED  BY <1>1, <1>6, <1>7 DEF OrderInv

\* New messages have numbers above all that were made before.
LEMMA OrderSendBundle ==
  ASSUME RequestInv, OrderInv, NEW c \in Clients, SendBundle(c)
  PROVE  OrderInv'
  <1>0. /\ task \in [Clients -> Seq(Msg)] /\ made \in [Clients -> 0..MaxMsgs]
        /\ made[c] \in Nat /\ OrderAt(c)
    BY BoundsAssumption DEF RequestInv, Inv, FabricType, OrderInv
  <1>1. PICK k \in BundleSizes : /\ task' = [task EXCEPT ![c] = Bundle(c, made[c], k)]
                                 /\ made' = [made EXCEPT ![c] = @ + k]
    BY DEF SendBundle
  <1>2. /\ task[c] = <<>>
        /\ UNCHANGED <<m_bREQInProgress, m_cQueue, m_pcSendBlk, pipe, repIn, repCur, m_cFabricToCassi>>
    BY DEF SendBundle, socket, zmq, server
  <1>3. k \in Nat \ {0}
    BY BundleSizesAssumption
  <1> DEFINE n == made[c]
             t == Bundle(c, n, k)
  <1>4. Rising(t) /\ Nums(t) \subseteq (n + 1)..(n + k)
    BY <1>0, <1>3, NumsBundle
  <1>5. task'[c] = t /\ made'[c] = n + k /\ \A d \in Clients \ {c} : task'[d] = task[d] /\ made'[d] = made[d]
    BY <1>0, <1>1
  <1>6. \A d \in Clients : Pending(d)' = Pending(d)
    BY <1>2 DEF Pending
  <1> HIDE DEF t
  <1>7. OrderAt(c)'
    <2> DEFINE l == Line(c)
               u == Line(c)'
    <2>1. /\ u[0] = l[0] /\ u[1] = l[1] /\ u[2] = l[2] /\ u[3] = l[3] /\ u[4] = l[4]
          /\ u[5] = Nums(t)
      BY <1>2, <1>5, <1>6, LineAt, LineNext
    <2>2. InLine(l) /\ \A q \in Places : l[q] \subseteq 0..n
      BY <1>0 DEF OrderAt
    <2> HIDE DEF l, u, n
    <2>3. n \in Nat
      BY <1>0 DEF n
    <2>4. \A q \in Places : q # 5 => u[q] = l[q]
      BY <2>1 DEF Places
    <2>5. InLine(u)
      <3> SUFFICES ASSUME NEW p \in Places, NEW q \in Places, p < q, NEW x \in u[p], NEW y \in u[q]
                   PROVE  x < y
        BY DEF InLine, Before
      <3>1. p # 5 /\ x \in l[p] /\ x \in 0..n
        BY <2>2, <2>4 DEF Places
      <3>2. CASE q = 5
        <4>1. y \in (n + 1)..(n + k)
          BY <1>4, <2>1, <3>2
        <4>2. QED  BY <1>3, <2>3, <3>1, <4>1
      <3>3. CASE q # 5
        BY <2>2, <2>4, <3>1, <3>3 DEF InLine, Before
      <3>4. QED  BY <3>2, <3>3
    <2>6. \A q \in Places : u[q] \subseteq 0..made'[c]
      <3>1. 0..n \subseteq 0..(n + k) /\ (n + 1)..(n + k) \subseteq 0..(n + k)
        BY <1>3, <2>3
      <3>2. made'[c] = n + k
        BY <1>5 DEF n
      <3>3. QED  BY <1>4, <2>1, <2>2, <2>4, <3>1, <3>2
    <2>7. RisingAt(c)'
      BY <1>0, <1>2, <1>4, <1>5, <1>6 DEF RisingAt, OrderAt
    <2>8. QED  BY <2>5, <2>6, <2>7 DEF OrderAt, RisingAt, u
  <1>8. \A d \in Clients \ {c} : OrderAt(d)'
    <2> SUFFICES ASSUME NEW d \in Clients \ {c} PROVE OrderAt(d)'
      OBVIOUS
    <2>1. OrderSame(d)
      BY <1>2, <1>5, <1>6 DEF OrderSame
    <2>2. OrderAt(d)
      BY DEF OrderInv
    <2>3. QED  BY <1>2, <2>1, <2>2, OrderKept
  <1>9. QED  BY <1>2, <1>7, <1>8 DEF OrderInv

\* The session keeps the order: the request comes after those of earlier
\* sessions.
LEMMA OrderDeliver ==
  ASSUME RequestInv, OrderInv, NEW c \in Clients, Deliver(c)
  PROVE  OrderInv'
  <1> DEFINE r == [parts |-> pipe[c], alive |-> TRUE]
  <1>0. /\ pipe \in [Clients -> Seq(Msg)] /\ repIn \in [Clients -> Seq(Request)] /\ OrderAt(c)
    BY DEF RequestInv, Inv, SocketInv, SocketType, ServerInv, OrderInv
  <1>1. /\ pipe[c] # <<>> /\ pipe' = [pipe EXCEPT ![c] = <<>>]
        /\ repIn' = [repIn EXCEPT ![c] = Append(@, r)]
        /\ UNCHANGED <<task, made, m_bREQInProgress, m_cQueue, m_pcSendBlk, repCur, m_cFabricToCassi>>
    BY DEF Deliver, fabric, socket
  <1>2. r \in Request /\ r.parts = pipe[c]
    BY <1>0, <1>1 DEF Request
  <1> HIDE DEF r
  <1>3. /\ pipe'[c] = <<>> /\ repIn'[c] = Append(repIn[c], r)
        /\ \A d \in Clients \ {c} : pipe'[d] = pipe[d] /\ repIn'[d] = repIn[d]
    BY <1>0, <1>1
  <1>4. \A d \in Clients : Pending(d)' = Pending(d)
    BY <1>1 DEF Pending
  <1> DEFINE l == Line(c)
             u == Line(c)'
             X == Nums(pipe[c])
  <1>5. /\ u[0] = l[0] /\ u[1] = l[1] /\ u[4] = l[4] /\ u[5] = l[5]
        /\ u[2] = RequestNums(Append(repIn[c], r)) /\ u[3] = Nums(<<>>)
        /\ l[2] = RequestNums(repIn[c]) /\ l[3] = X
    BY <1>1, <1>3, <1>4, LineAt, LineNext
  <1>6. u[2] = l[2] \cup X /\ u[3] = {}
    BY <1>0, <1>2, <1>5, RequestsAppend, NumsEmpty
  <1>7. Before(l[2], l[3])
    BY <1>0 DEF OrderAt, InLine, Places
  <1>8. RequestsRising(repIn'[c])
    BY <1>0, <1>2, <1>3, <1>5, <1>7, RequestsAppend DEF OrderAt
  <1>9. RisingAt(c)'
    BY <1>0, <1>1, <1>3, <1>4, <1>8, NumsEmpty DEF RisingAt, OrderAt
  <1> HIDE DEF l, u, X
  <1>10. X \subseteq l[3] /\ Before(X, u[3]) /\ u[2] \subseteq l[2] \cup X
    BY <1>5, <1>6 DEF Before
  <1>11. /\ 2 \in Places /\ 3 \in Places /\ 2 < 3
         /\ \A p \in Places \ {2} : u[p] \subseteq l[p]
         /\ \A p \in Places : 2 < p /\ p < 3 => u[p] = {}
    BY <1>5, <1>6 DEF Places
  <1>12. OrderAt(c)'
    BY <1>0, <1>1, <1>9, <1>10, <1>11, OrderMoves DEF l, u
  <1>13. \A d \in Clients \ {c} : OrderAt(d)'
    <2> SUFFICES ASSUME NEW d \in Clients \ {c} PROVE OrderAt(d)'
      OBVIOUS
    <2>1. OrderSame(d)
      BY <1>1, <1>3, <1>4 DEF OrderSame
    <2>2. OrderAt(d)
      BY DEF OrderInv
    <2>3. QED  BY <1>1, <2>1, <2>2, OrderKept
  <1>14. QED  BY <1>1, <1>12, <1>13 DEF OrderInv

\* The REP socket keeps the order: it reads the oldest request of a client.
LEMMA OrderRepRecv ==
  ASSUME RequestInv, OrderInv, NEW c \in Clients, RepRecv(c)
  PROVE  OrderInv'
  <1> DEFINE t == repIn[c]
  <1>0. repIn \in [Clients -> Seq(Request)] /\ t \in Seq(Request) /\ OrderAt(c) /\ RepInOK(c)
    BY DEF RequestInv, Inv, ServerInv, OrderInv, FlightInv
  <1>1. /\ t # <<>> /\ repIn' = [repIn EXCEPT ![c] = Tail(t)]
        /\ repCur' = [state |-> "parts", parts |-> Head(t).parts, alive |-> Head(t).alive]
        /\ UNCHANGED <<task, made, pipe, m_bREQInProgress, m_cQueue, m_pcSendBlk, m_cFabricToCassi>>
    BY DEF RepRecv, fabric, socket, zmq
  <1>2. Head(t) = t[1] /\ 1 \in DOMAIN t /\ t[1] \in Request
    BY <1>0, <1>1, HeadTailProperties, LenProperties, EmptySeq
  <1>3. /\ repIn'[c] = Tail(t) /\ \A d \in Clients \ {c} : repIn'[d] = repIn[d]
        /\ repCur'.state = "parts" /\ repCur'.parts = t[1].parts
    BY <1>0, <1>1, <1>2
  <1>4. t[1].parts[1].from = c
    <2>1. IsBundle(c, t[1].parts) /\ t[1].parts \in Seq(Msg)
      BY <1>0, <1>2 DEF RepInOK, Request
    <2>2. QED  BY <2>1, RestTail DEF IsBundle
  <1>5. \A d \in Clients : Pending(d)' = Pending(d)
    BY <1>1 DEF Pending
  <1> DEFINE l == Line(c)
             u == Line(c)'
             X == Nums(t[1].parts)
  <1>6. RequestsRising(t)
    BY <1>0 DEF OrderAt
  <1>7. /\ RequestNums(Tail(t)) \subseteq RequestNums(t) /\ X \subseteq RequestNums(t)
        /\ RequestsRising(Tail(t)) /\ Rising(t[1].parts) /\ Before(X, RequestNums(Tail(t)))
    BY <1>0, <1>1, <1>6, RequestsTail
  <1>8. ReadNums(repCur', c) = X
    BY <1>3, <1>4 DEF ReadNums
  <1>9. /\ u[0] = l[0] /\ u[3] = l[3] /\ u[4] = l[4] /\ u[5] = l[5]
        /\ u[2] = RequestNums(Tail(t)) /\ l[2] = RequestNums(t) /\ u[1] = X
    BY <1>1, <1>3, <1>5, <1>8, LineAt, LineNext
  <1>10. RisingAt(c)'
    BY <1>0, <1>1, <1>3, <1>5, <1>7 DEF RisingAt, OrderAt
  <1> HIDE DEF l, u, X, t
  <1>11. X \subseteq l[2] /\ Before(X, u[2]) /\ u[1] \subseteq l[1] \cup X
    BY <1>7, <1>9
  <1>12. /\ 1 \in Places /\ 2 \in Places /\ 1 < 2
         /\ \A p \in Places \ {1} : u[p] \subseteq l[p]
         /\ \A p \in Places : 1 < p /\ p < 2 => u[p] = {}
    BY <1>7, <1>9 DEF Places
  <1>13. OrderAt(c)'
    BY <1>0, <1>1, <1>10, <1>11, <1>12, OrderMoves DEF l, u
  <1>14. \A d \in Clients \ {c} : OrderAt(d)'
    <2> SUFFICES ASSUME NEW d \in Clients \ {c} PROVE OrderAt(d)'
      OBVIOUS
    <2>1. OrderSame(d)
      BY <1>1, <1>3, <1>5 DEF OrderSame
    <2>2. OrderAt(d)
      BY DEF OrderInv
    <2>3. ReadNums(repCur', d) = {}
      BY <1>3, <1>4 DEF ReadNums
    <2>4. QED  BY <1>1, <2>1, <2>2, <2>3, OrderKept
  <1>15. QED  BY <1>1, <1>3, <1>7, <1>13, <1>14 DEF OrderInv

\* processShimReq keeps the order: the part comes after what CASSI has of its
\* client.
LEMMA OrderRepPart ==
  ASSUME RequestInv, OrderInv, RepPart
  PROVE  OrderInv'
  <1> DEFINE s == repCur.parts
             q == m_cFabricToCassi
  <1>0. Inv /\ FlightInv /\ repCur \in RepStates /\ q \in Seq(Msg)
    BY DEF RequestInv, Inv, ServerInv
  <1>1. PICK c \in Clients : c = s[1].from
    BY <1>0, RepPartEffect
  <1>2. /\ UNCHANGED <<task, made, m_bREQInProgress, m_cQueue, m_pcSendBlk, pipe, repIn>>
        /\ repCur.state = "parts" /\ s \in Seq(Msg) /\ s # <<>> /\ IsRest(c, s)
        /\ \/ UNCHANGED m_cFabricToCassi
           \/ Shim(s[1]) /\ m_cFabricToCassi' = Append(q, s[1])
    BY <1>0, <1>1, RepPartEffect
  <1>3. PICK answered \in BOOLEAN :
            repCur' = IF Tail(s) # <<>> THEN [repCur EXCEPT !.parts = Tail(s)]
                      ELSE IF answered THEN Idle
                      ELSE [repCur EXCEPT !.state = "reply"]
    BY <1>0, RepPartEffect
  <1>4. s[1] \in Msg /\ (Tail(s) # <<>> => Tail(s)[1].from = c)
    BY <1>2, RestTail
  <1>5. Rising(s) /\ OrderAt(c) /\ CassiRising(q)
    BY DEF OrderInv
  <1>6. /\ Nums(Tail(s)) \subseteq Nums(s) /\ (Shim(s[1]) => s[1].num \in Nums(s))
        /\ Rising(Tail(s)) /\ (Shim(s[1]) => Before({s[1].num}, Nums(Tail(s))))
    BY <1>2, <1>5, NumsTail
  <1>7. /\ ReadNums(repCur', c) \subseteq Nums(Tail(s)) /\ Rising(repCur'.parts)
        /\ \A d \in Clients \ {c} : ReadNums(repCur', d) = {}
    <2>1. CASE Tail(s) # <<>>
      <3>1. repCur'.state = "parts" /\ repCur'.parts = Tail(s)
        BY <1>0, <1>2, <1>3, <2>1 DEF RepStates
      <3>2. QED  BY <1>4, <1>6, <2>1, <3>1 DEF ReadNums
    <2>2. CASE repCur' = Idle
      <3>1. repCur'.state = "recv" /\ repCur'.parts = <<>>
        BY <2>2 DEF Idle
      <3>2. QED  BY <3>1, NumsEmpty DEF ReadNums
    <2>3. CASE repCur' = [repCur EXCEPT !.state = "reply"]
      <3>1. repCur'.state = "reply" /\ repCur'.parts = s
        BY <1>0, <2>3 DEF RepStates
      <3>2. QED  BY <1>5, <3>1 DEF ReadNums
    <2>4. QED  BY <1>3, <2>1, <2>2, <2>3
  <1>8. ReadNums(repCur, c) = Nums(s)
    BY <1>1, <1>2 DEF ReadNums
  <1>9. \A d \in Clients : Pending(d)' = Pending(d) /\ OrderSame(d)
    BY <1>2 DEF Pending, OrderSame
  <1>10. CASE UNCHANGED m_cFabricToCassi
    <2>1. ASSUME NEW d \in Clients PROVE OrderAt(d)'
      <3>1. ReadNums(repCur', d) \subseteq ReadNums(repCur, d)
        BY <1>6, <1>7, <1>8
      <3>2. OrderAt(d)
        BY DEF OrderInv
      <3>3. QED  BY <1>9, <1>10, <3>1, <3>2, OrderKept
    <2>2. QED  BY <1>5, <1>7, <1>10, <2>1 DEF OrderInv
  <1>11. CASE Shim(s[1]) /\ m_cFabricToCassi' = Append(q, s[1])
    <2> DEFINE X == {s[1].num}
               l == Line(c)
               u == Line(c)'
    <2>1. CassiNums(m_cFabricToCassi', c) \subseteq CassiNums(q, c) \cup X
      BY <1>0, <1>1, <1>4, <1>11, CassiNumsAppend
    <2>2. \A d \in Clients \ {c} : CassiNums(m_cFabricToCassi', d) \subseteq CassiNums(q, d)
      BY <1>0, <1>1, <1>4, <1>11, CassiNumsAppend
    <2>3. Before(l[0], l[1])
      BY <1>5 DEF OrderAt, InLine, Places
    <2>4. /\ u[2] = l[2] /\ u[3] = l[3] /\ u[4] = l[4] /\ u[5] = l[5]
          /\ l[0] = CassiNums(q, c) /\ l[1] = Nums(s)
          /\ u[0] = CassiNums(m_cFabricToCassi', c) /\ u[1] = ReadNums(repCur', c)
      BY <1>8, <1>9, LineAt, LineNext DEF OrderSame
    <2>5. CassiRising(m_cFabricToCassi')
      <3>1. Before(CassiNums(q, c), X)
        BY <1>6, <1>11, <2>3, <2>4 DEF Before
      <3>2. QED  BY <1>0, <1>1, <1>4, <1>5, <1>11, <3>1, CassiNumsAppend
    <2>6. RisingAt(c)'
      BY <1>5, <1>9 DEF OrderSame, OrderAt, RisingAt
    <2>7. made'[c] = made[c]
      BY <1>2
    <2> HIDE DEF l, u
    <2>8. X \subseteq l[1] /\ Before(X, u[1]) /\ u[0] \subseteq l[0] \cup X
      BY <1>6, <1>7, <1>11, <2>1, <2>4 DEF Before
    <2> HIDE DEF X
    <2>9. /\ 0 \in Places /\ 1 \in Places /\ 0 < 1
          /\ \A p \in Places \ {0} : u[p] \subseteq l[p]
          /\ \A p \in Places : 0 < p /\ p < 1 => u[p] = {}
      BY <1>6, <1>7, <2>4 DEF Places
    <2>10. OrderAt(c)'
      BY <1>5, <2>6, <2>7, <2>8, <2>9, OrderMoves DEF l, u
    <2>11. \A d \in Clients \ {c} : OrderAt(d)'
      <3> SUFFICES ASSUME NEW d \in Clients \ {c} PROVE OrderAt(d)'
        OBVIOUS
      <3>1. OrderAt(d)
        BY DEF OrderInv
      <3>2. ReadNums(repCur', d) = {}
        BY <1>7
      <3>3. QED  BY <1>9, <2>2, <3>1, <3>2, OrderKept
    <2>12. QED  BY <1>7, <2>5, <2>10, <2>11 DEF OrderInv
  <1>12. QED  BY <1>2, <1>10, <1>11

\* A request marked as nobody's keeps its messages.
LEMMA OrderOrphan ==
  ASSUME Inv, OrderInv, NEW c \in Clients, Orphan(c)
  PROVE  /\ \A d \in Clients : /\ RequestNums(repIn'[d]) = RequestNums(repIn[d])
                               /\ RequestsRising(repIn'[d])
                               /\ ReadNums(repCur', d) = ReadNums(repCur, d)
         /\ repCur'.parts = repCur.parts
  <1>1. /\ \A d \in Clients \ {c} : repIn'[d] = repIn[d]
        /\ DOMAIN repIn'[c] = DOMAIN repIn[c]
        /\ \A i \in DOMAIN repIn[c] : repIn'[c][i].parts = repIn[c][i].parts
        /\ repCur'.state = repCur.state /\ repCur'.parts = repCur.parts
    BY OrphanEffect
  <1>2. \A d \in Clients : ReadNums(repCur', d) = ReadNums(repCur, d)
    BY <1>1 DEF ReadNums
  <1>3. \A d \in Clients : RequestsRising(repIn[d])
    BY DEF OrderInv, OrderAt
  <1>4. RequestNums(repIn'[c]) = RequestNums(repIn[c])
    <2>1. \A x : x \in RequestNums(repIn'[c]) <=> x \in RequestNums(repIn[c])
      BY <1>1 DEF RequestNums
    <2>2. QED  BY <2>1
  <1>5. RequestsRising(repIn'[c])
    <2>1. \A i \in DOMAIN repIn'[c] : Rising(repIn'[c][i].parts)
      BY <1>1, <1>3 DEF RequestsRising
    <2>2. \A i, j \in DOMAIN repIn'[c] :
             i < j => Before(Nums(repIn'[c][i].parts), Nums(repIn'[c][j].parts))
      BY <1>1, <1>3 DEF RequestsRising
    <2>3. QED  BY <2>1, <2>2 DEF RequestsRising
  <1>6. QED  BY <1>1, <1>2, <1>3, <1>4, <1>5

\* A socket is closed, a session dies, or a callback starts over.
LEMMA OrderLoses ==
  ASSUME RequestInv, OrderInv, NEW c \in Clients,
         delPeer(c) \/ Disconnect(c) \/ addPeer(c) \/ disconnected(c)
  PROVE  OrderInv'
  <1>0. Inv /\ ChainInv
    BY DEF RequestInv
  <1>1. /\ task \in [Clients -> Seq(Msg)] /\ pipe \in [Clients -> Seq(Msg)]
        /\ m_cQueue \in [Clients -> Seq(Msg)] /\ m_pcSendBlk \in [Clients -> Seq(Msg)]
        /\ m_bREQInProgress \in [Clients -> BOOLEAN] /\ repIn \in [Clients -> Seq(Request)]
    BY <1>0 DEF Inv, FabricType, SocketInv, SocketType, ServerInv
  <1>2. made' = made /\ m_cFabricToCassi' = m_cFabricToCassi
    BY DEF delPeer, closeSocket, Disconnect, fabric, addPeer, server, disconnected
  <1>3. /\ repCur'.parts = repCur.parts
        /\ \A d \in Clients : ReadNums(repCur', d) = ReadNums(repCur, d)
        /\ \A d \in Clients : /\ RequestNums(repIn'[d]) \subseteq RequestNums(repIn[d])
                              /\ RequestsRising(repIn'[d])
    <2>1. \A d \in Clients : RequestsRising(repIn[d])
      BY DEF OrderInv, OrderAt
    <2>2. CASE Orphan(c)
      BY <1>0, <2>2, OrderOrphan
    <2>3. CASE repIn' = [repIn EXCEPT ![c] = <<>>] /\ repCur' = repCur
      <3>1. repIn'[c] = <<>> /\ \A d \in Clients \ {c} : repIn'[d] = repIn[d]
        BY <1>1, <2>3
      <3>2. QED  BY <2>1, <2>3, <3>1, NumsEmpty
    <2>4. CASE repIn' = repIn /\ repCur' = repCur
      BY <2>1, <2>4
    <2>5. QED  BY <2>2, <2>3, <2>4 DEF delPeer, closeSocket, Disconnect, addPeer, disconnected, server
  <1>4. /\ \A d \in Clients : pipe'[d] = pipe[d] \/ pipe'[d] = <<>>
        /\ \A d \in Clients : Pending(d)' = Pending(d) \/ Pending(d)' = <<>>
        /\ \A d \in Clients : \/ task'[d] = task[d]
                              \/ Nums(task'[d]) = {} /\ Rising(task'[d])
    <2>1. CASE delPeer(c)
      <3>1. /\ m_bREQInProgress' = [m_bREQInProgress EXCEPT ![c] = FALSE]
            /\ m_cQueue' = [m_cQueue EXCEPT ![c] = <<>>]
            /\ m_pcSendBlk' = [m_pcSendBlk EXCEPT ![c] = <<>>]
            /\ pipe' = [pipe EXCEPT ![c] = <<>>] /\ task' = task
        BY <2>1 DEF delPeer, closeSocket
      <3>2. QED  BY <1>1, <3>1 DEF Pending
    <2>2. CASE Disconnect(c)
      <3>1. UNCHANGED <<m_bREQInProgress, m_cQueue, m_pcSendBlk, pipe, task>>
        BY <2>2 DEF Disconnect, fabric, socket
      <3>2. QED  BY <3>1 DEF Pending
    <2>3. CASE addPeer(c)
      <3>1. /\ UNCHANGED <<m_bREQInProgress, m_cQueue, m_pcSendBlk, pipe>>
            /\ task' = [task EXCEPT ![c] = <<JoinReq(c)>>]
        BY <2>3 DEF addPeer, zmq, socket
      <3>2. Nums(<<JoinReq(c)>>) = {} /\ Rising(<<JoinReq(c)>>)
        BY NumsOwn
      <3>3. QED  BY <1>1, <3>1, <3>2 DEF Pending
    <2>4. CASE disconnected(c)
      <3>1. PICK topo \in {<<>>, <<TopoReq(c)>>} :
                task' = [task EXCEPT ![c] = topo \o <<JoinReq(c)>>]
        BY <2>4 DEF disconnected, disconnect, rejoinReq
      <3>2. /\ task[c] = <<>> /\ m_cQueue' = [m_cQueue EXCEPT ![c] = <<>>]
            /\ UNCHANGED <<m_bREQInProgress, m_pcSendBlk, pipe>>
        BY <2>4 DEF disconnected, flushQ
      <3> DEFINE t == topo \o <<JoinReq(c)>>
      <3>3. Nums(t) = {} /\ Rising(t)
        BY NumsOwn
      <3> HIDE DEF t
      <3>4. \A d \in Clients : task'[d] = task[d] \/ task'[d] = t
        BY <1>1, <3>1 DEF t
      <3>5. \A d \in Clients : Pending(d)' = Pending(d) \/ Pending(d)' = <<>>
        BY <1>1, <3>2 DEF Pending
      <3>6. QED  BY <3>2, <3>3, <3>4, <3>5
    <2>5. QED  BY <2>1, <2>2, <2>3, <2>4
  <1>5. ASSUME NEW d \in Clients PROVE OrderAt(d)'
    <2>1. OrderAt(d)
      BY DEF OrderInv
    <2>2. OrderLess(d)
      BY <1>2, <1>3, <1>4, NumsEmpty DEF OrderLess
    <2>3. RisingAt(d)'
      BY <1>3, <1>4, <2>1, NumsEmpty DEF RisingAt, OrderAt
    <2>4. QED  BY <2>1, <2>2, <2>3, OrderShrinks
  <1>6. QED  BY <1>2, <1>3, <1>5 DEF OrderInv

\* Every step keeps the order.
LEMMA OrderStep ==
  ASSUME RequestInv, OrderInv, [Next]_vars
  PROVE  OrderInv'
  <1>1. ASSUME NEW c \in Clients, addPeer(c) \/ delPeer(c) \/ disconnected(c) \/ Disconnect(c)
        PROVE  OrderInv'
    BY <1>1, OrderLoses
  <1>2. ASSUME NEW c \in Clients, SendBundle(c) PROVE OrderInv'
    BY <1>2, OrderSendBundle
  <1>3. ASSUME NEW c \in Clients, sendREQ(c) PROVE OrderInv'
    BY <1>3, OrderSendREQ
  <1>4. ASSUME NEW c \in Clients, ReadReply(c) PROVE OrderInv'
    BY <1>4, OrderReadReply
  <1>5. ASSUME NEW c \in Clients, Deliver(c) PROVE OrderInv'
    BY <1>5, OrderDeliver
  <1>6. ASSUME NEW c \in Clients, RepRecv(c) PROVE OrderInv'
    BY <1>6, OrderRepRecv
  <1>7. ASSUME RepPart PROVE OrderInv'
    BY <1>7, OrderRepPart
  <1>8. ASSUME CassiDequeue \/ UNCHANGED vars \/ \E c \in Clients : Connect(c) PROVE OrderInv'
    <2>1. /\ UNCHANGED <<task, made, m_bREQInProgress, m_cQueue, m_pcSendBlk, pipe, repIn, repCur>>
          /\ \/ UNCHANGED m_cFabricToCassi
             \/ m_cFabricToCassi # <<>> /\ m_cFabricToCassi' = Tail(m_cFabricToCassi)
      BY <1>8 DEF CassiDequeue, vars, Connect, fabric, socket, zmq, server
    <2>2. m_cFabricToCassi \in Seq(Msg) /\ CassiRising(m_cFabricToCassi)
      BY DEF RequestInv, Inv, ServerInv, OrderInv
    <2>3. /\ \A d \in Clients : CassiNums(m_cFabricToCassi', d) \subseteq CassiNums(m_cFabricToCassi, d)
          /\ CassiRising(m_cFabricToCassi')
      BY <2>1, <2>2, CassiNumsTail
    <2>4. \A d \in Clients : OrderSame(d)
      BY <2>1 DEF OrderSame, Pending
    <2>5. \A d \in Clients : OrderAt(d)'
      BY <2>1, <2>3, <2>4, OrderKept DEF OrderInv
    <2>6. QED  BY <2>1, <2>3, <2>5 DEF OrderInv
  <1>9. QED
    BY <1>1, <1>2, <1>3, <1>4, <1>5, <1>6, <1>7, <1>8 DEF Next

\* At first there are no messages.
LEMMA InitOrder == Init => OrderInv
  <1> SUFFICES ASSUME Init PROVE OrderInv
    OBVIOUS
  <1>1. /\ \A c \in Clients : task[c] = <<>> /\ ~m_bREQInProgress[c]
        /\ \A c \in Clients : m_pcSendBlk[c] = <<>> /\ m_cQueue[c] = <<>> /\ pipe[c] = <<>>
        /\ \A c \in Clients : repIn[c] = <<>> /\ reply[c] = <<>>
        /\ repCur = Idle /\ m_cFabricToCassi = <<>>
    BY DEF Init
  <1>2. DOMAIN <<>> = {}
    BY EmptySeq
  <1>3. CassiRising(<<>>) /\ \A c \in Clients : CassiNums(<<>>, c) = {} /\ ReadNums(Idle, c) = {}
    BY <1>2 DEF CassiRising, CassiNums, ReadNums, Idle
  <1>4. ASSUME NEW c \in Clients PROVE OrderAt(c)
    <2> DEFINE l == Line(c)
    <2>1. Pending(c) = <<>>
      BY <1>1 DEF Pending
    <2>2. /\ l[0] = {} /\ l[1] = {} /\ l[2] = {} /\ l[3] = {} /\ l[4] = {} /\ l[5] = {}
      BY <1>1, <1>3, <2>1, NumsEmpty, LineAt
    <2> HIDE DEF l
    <2>3. \A p \in Places : l[p] = {}
      BY <2>2 DEF Places
    <2>4. InLine(l) /\ \A p \in Places : l[p] \subseteq 0..made[c]
      BY <2>3 DEF InLine, Before
    <2>5. QED  BY <1>1, <2>1, <2>4, NumsEmpty DEF OrderAt, l
  <1>5. QED  BY <1>1, <1>3, <1>4, NumsEmpty DEF OrderInv, Idle

\* Bundles, requests and their order, together: the invariant of the channel.
THEOREM BundleInvariant == Spec => []BundleInv
  <1>1. OrderInv /\ RequestInv /\ [Next]_vars => OrderInv'
    BY OrderStep
  <1>2. Spec => []OrderInv
    BY <1>1, InitOrder, RequestInvariant, PTL DEF Spec
  <1>3. RequestInv /\ OrderInv => BundleInv
    BY DEF BundleInv
  <1>4. QED  BY <1>2, <1>3, RequestInvariant, PTL

\* CASSI sees the messages of a bundle next to one another and each client's
\* messages in the order they were sent, for any number of clients that share
\* the REP socket and any bundle sizes.
THEOREM BundlesArriveInOrder == Spec => []BundlesContiguous
  <1>1. BundleInv => BundlesContiguous
    <2> SUFFICES ASSUME BundleInv PROVE BundlesContiguous
      OBVIOUS
    <2> DEFINE q == m_cFabricToCassi
    <2>1. CassiChain(q) /\ CassiRising(q) /\ q \in Seq(Msg)
      BY DEF BundleInv, RequestInv, CassiInv, OrderInv, Inv, ServerInv
    <2>2. DOMAIN q = 1..Len(q)
      BY <2>1, LenProperties
    <2> HIDE DEF q
    <2>3. \A i \in 1..(Len(q) - 1) : ~q[i].last => q[i + 1].from = q[i].from /\ ~q[i + 1].first
      BY <2>1 DEF CassiChain
    <2>4. \A i, j \in 1..Len(q) : i < j /\ q[i].from = q[j].from => q[i].num < q[j].num
      BY <2>1, <2>2 DEF CassiRising
    <2>5. QED  BY <2>3, <2>4 DEF BundlesContiguous, q
  <1>2. QED  BY <1>1, BundleInvariant, PTL

-----------------------------------------------------------------------------
(* A request is not lost while its session holds, and a join is not forgotten *)

\* The request of c, or its answer, is somewhere on its way.
UnderWay(c) == pipe[c] # <<>> \/ Alive(c) # {} \/ Reads(c) \/ reply[c] # <<>>

JoinIn(s) == \E i \in DOMAIN s : s[i].kind = "JOIN_REQ"

\* A JOIN_REQ of c waits to be sent, is at the server, or was answered.
JoinPending(c) ==
    \/ JoinIn(task[c]) \/ JoinIn(Pending(c)) \/ JoinIn(pipe[c])
    \/ \E i \in Alive(c) : JoinIn(repIn[c][i].parts)
    \/ Reads(c) /\ repCur.state = "parts" /\ JoinIn(repCur.parts)
    \/ \E i \in DOMAIN reply[c] : reply[c][i] = "JOIN_REQ"

\* The socket waits for an answer that cannot come.
AnswerLost(c) == m_bREQInProgress[c] /\ ~UnderWay(c)

OpenAt(c) == m_bREQInProgress[c] => open[c]
KeptAt(c) == AnswerLost(c) => drops[c] # 0
JoinAt(c) == open[c] /\ ~joined[c] => JoinPending(c) \/ AnswerLost(c)

AliveAt(c) == OpenAt(c) /\ KeptAt(c) /\ JoinAt(c)

AliveInv == \A c \in Clients : AliveAt(c)

\* A JOIN_REQ stays in a sequence that grows.
LEMMA JoinAppend ==
  ASSUME NEW s \in Seq(Msg), NEW e \in Msg, JoinIn(s) \/ e.kind = "JOIN_REQ"
  PROVE  JoinIn(Append(s, e))
  <1> DEFINE u == Append(s, e)
  <1>1. /\ u \in Seq(Msg) /\ Len(u) = Len(s) + 1 /\ u[Len(s) + 1] = e
        /\ \A i \in 1..Len(s) : u[i] = s[i]
    BY AppendProperties
  <1>2. DOMAIN u = 1..(Len(s) + 1) /\ DOMAIN s = 1..Len(s) /\ Len(s) \in Nat
    BY <1>1, LenProperties
  <1> HIDE DEF u
  <1>3. CASE e.kind = "JOIN_REQ"
    <2>1. Len(s) + 1 \in DOMAIN u /\ u[Len(s) + 1].kind = "JOIN_REQ"
      BY <1>1, <1>2, <1>3
    <2>2. QED  BY <2>1 DEF JoinIn, u
  <1>4. CASE JoinIn(s)
    <2>1. PICK i \in DOMAIN s : s[i].kind = "JOIN_REQ"
      BY <1>4 DEF JoinIn
    <2>2. i \in DOMAIN u /\ u[i].kind = "JOIN_REQ"
      BY <1>1, <1>2, <2>1
    <2>3. QED  BY <2>2 DEF JoinIn, u
  <1>5. QED  BY <1>3, <1>4

\* A JOIN_REQ is the first message or one of the others.
LEMMA JoinTail ==
  ASSUME NEW s \in Seq(Msg), s # <<>>, JoinIn(s)
  PROVE  Head(s).kind = "JOIN_REQ" \/ JoinIn(Tail(s))
  <1> DEFINE u == Tail(s)
  <1>1. /\ Head(s) = s[1] /\ u \in Seq(Msg) /\ Len(u) = Len(s) - 1
        /\ \A i \in 1..Len(u) : u[i] = s[i + 1]
    BY HeadTailProperties
  <1>2. DOMAIN u = 1..Len(u) /\ DOMAIN s = 1..Len(s) /\ Len(s) \in Nat
    BY <1>1, LenProperties
  <1>3. PICK i \in DOMAIN s : s[i].kind = "JOIN_REQ"
    BY DEF JoinIn
  <1>4. CASE i = 1
    BY <1>1, <1>3, <1>4
  <1>5. CASE i # 1
    <2> HIDE DEF u
    <2>1. i - 1 \in 1..Len(u) /\ (i - 1) + 1 = i
      BY <1>1, <1>2, <1>5
    <2>2. i - 1 \in DOMAIN u /\ u[i - 1].kind = "JOIN_REQ"
      BY <1>1, <1>2, <1>3, <2>1
    <2>3. QED  BY <2>2 DEF JoinIn, u
  <1>6. QED  BY <1>4, <1>5

\* unblockREQ takes a JOIN_REQ or leaves it.
LEMMA JoinSplit ==
  ASSUME NEW q \in Seq(Msg), NEW n \in 1..Len(q), JoinIn(q)
  PROVE  JoinIn(SubSeq(q, 1, n)) \/ JoinIn(SubSeq(q, n + 1, Len(q)))
  <1> DEFINE f == SubSeq(q, 1, n)
             g == SubSeq(q, n + 1, Len(q))
  <1>1. Len(q) \in Nat /\ DOMAIN q = 1..Len(q) /\ \A i \in 1..Len(q) : q[i] \in Msg
    BY LenProperties, ElementOfSeq
  <1>2. DOMAIN f = 1..n /\ \A i \in 1..n : f[i] = q[i]
    BY <1>1, SubSeqProperties, LenProperties
  <1>3. DOMAIN g = 1..(Len(q) - n) /\ \A i \in 1..(Len(q) - n) : g[i] = q[n + i]
    BY <1>1, SubSeqProperties, LenProperties
  <1>4. PICK i \in DOMAIN q : q[i].kind = "JOIN_REQ"
    BY DEF JoinIn
  <1> HIDE DEF f, g
  <1>5. CASE i <= n
    <2>1. i \in DOMAIN f /\ f[i].kind = "JOIN_REQ"
      BY <1>1, <1>2, <1>4, <1>5
    <2>2. QED  BY <2>1 DEF JoinIn, f
  <1>6. CASE ~(i <= n)
    <2>1. i - n \in 1..(Len(q) - n) /\ n + (i - n) = i
      BY <1>1, <1>4, <1>6
    <2>2. i - n \in DOMAIN g /\ g[i - n].kind = "JOIN_REQ"
      BY <1>3, <1>4, <2>1
    <2>3. QED  BY <2>2 DEF JoinIn, g
  <1>7. QED  BY <1>5, <1>6

\* A JOIN_REQ in one part of a sequence is in the whole.
LEMMA JoinConcat ==
  ASSUME NEW s \in Seq(Msg), NEW t \in Seq(Msg), JoinIn(s) \/ JoinIn(t)
  PROVE  JoinIn(s \o t)
  <1> DEFINE u == s \o t
  <1>1. /\ u \in Seq(Msg) /\ Len(u) = Len(s) + Len(t)
        /\ \A i \in 1..Len(s) : u[i] = s[i]
        /\ \A i \in 1..Len(t) : u[Len(s) + i] = t[i]
    BY ConcatProperties
  <1>2. /\ DOMAIN u = 1..Len(u) /\ DOMAIN s = 1..Len(s) /\ DOMAIN t = 1..Len(t)
        /\ Len(s) \in Nat /\ Len(t) \in Nat
    BY <1>1, LenProperties
  <1> HIDE DEF u
  <1>3. CASE JoinIn(s)
    <2>1. PICK i \in DOMAIN s : s[i].kind = "JOIN_REQ"
      BY <1>3 DEF JoinIn
    <2>2. i \in DOMAIN u /\ u[i].kind = "JOIN_REQ"
      BY <1>1, <1>2, <2>1
    <2>3. QED  BY <2>2 DEF JoinIn, u
  <1>4. CASE JoinIn(t)
    <2>1. PICK i \in DOMAIN t : t[i].kind = "JOIN_REQ"
      BY <1>4 DEF JoinIn
    <2>2. Len(s) + i \in DOMAIN u
      BY <1>1, <1>2
    <2>3. u[Len(s) + i].kind = "JOIN_REQ"
      BY <1>1, <1>2, <2>1
    <2>4. QED  BY <2>2, <2>3 DEF JoinIn, u
  <1>5. QED  BY <1>3, <1>4

\* The state AliveAt(d) reads is as it was, but for the request being read.
AliveSame(d) ==
    /\ OutSame(d) /\ open'[d] = open[d] /\ joined'[d] = joined[d] /\ drops'[d] = drops[d]
    /\ task'[d] = task[d] /\ m_cQueue'[d] = m_cQueue[d] /\ m_pcSendBlk'[d] = m_pcSendBlk[d]

\* What a step does not touch stays.
LEMMA AliveKept ==
  ASSUME NEW d \in Clients, AliveAt(d), AliveSame(d), Reads(d)' <=> Reads(d),
         Reads(d) => repCur' = repCur
  PROVE  AliveAt(d)'
  <1>1. Alive(d)' = Alive(d) /\ Pending(d)' = Pending(d)
    BY DEF Alive, Pending, AliveSame, OutSame
  <1>2. UnderWay(d)' <=> UnderWay(d)
    BY <1>1 DEF UnderWay, AliveSame, OutSame
  <1>3. AnswerLost(d)' <=> AnswerLost(d)
    BY <1>2 DEF AnswerLost, AliveSame, OutSame
  <1>4. JoinPending(d) => JoinPending(d)'
    <2>1. CASE Reads(d) /\ repCur.state = "parts" /\ JoinIn(repCur.parts)
      BY <2>1 DEF JoinPending
    <2>2. CASE ~(Reads(d) /\ repCur.state = "parts" /\ JoinIn(repCur.parts))
      BY <1>1, <2>2 DEF JoinPending, AliveSame, OutSame
    <2>3. QED  BY <2>1, <2>2
  <1>5. QED  BY <1>3, <1>4 DEF AliveAt, OpenAt, KeptAt, JoinAt, AliveSame, OutSame

\* A step of c that leaves the server alone.
LEMMA AliveLocal ==
  ASSUME AliveInv, NEW c \in Clients, AliveAt(c)', \A d \in Clients \ {c} : AliveSame(d),
         repCur' = repCur
  PROVE  AliveInv'
  <1>1. ASSUME NEW d \in Clients \ {c} PROVE AliveAt(d)'
    <2>1. Reads(d)' <=> Reads(d)
      BY DEF Reads
    <2>2. QED  BY <2>1, AliveKept DEF AliveInv
  <1>2. QED  BY <1>1 DEF AliveInv

\* addPeer asks to join.
LEMMA AliveAddPeer ==
  ASSUME Inv, AliveInv, NEW c \in Clients, addPeer(c)
  PROVE  AliveInv'
  <1>1. /\ ~open[c] /\ open' = [open EXCEPT ![c] = TRUE]
        /\ task' = [task EXCEPT ![c] = <<JoinReq(c)>>]
        /\ UNCHANGED <<joined, drops, m_bREQInProgress, m_cQueue, m_pcSendBlk, pipe, reply, repIn, repCur>>
    BY DEF addPeer, socket, zmq, server
  <1>2. open \in [Clients -> BOOLEAN] /\ task \in [Clients -> Seq(Msg)]
    BY DEF Inv, FabricType
  <1>3. \A d \in Clients \ {c} : AliveSame(d)
    BY <1>1, <1>2 DEF AliveSame, OutSame
  <1>4. ~m_bREQInProgress'[c]
    BY <1>1 DEF AliveInv, AliveAt, OpenAt
  <1>5. JoinIn(<<JoinReq(c)>>) /\ task'[c] = <<JoinReq(c)>>
    <2>1. task'[c] = <<JoinReq(c)>>
      BY <1>1, <1>2
    <2>2. JoinIn(<<JoinReq(c)>>)
      BY DEF JoinIn, JoinReq, Message
    <2>3. QED  BY <2>1, <2>2
  <1>6. AliveAt(c)'
    BY <1>4, <1>5 DEF AliveAt, OpenAt, KeptAt, JoinAt, AnswerLost, JoinPending
  <1>7. QED  BY <1>1, <1>3, <1>6, AliveLocal

\* The bundles of a peer that has joined.
LEMMA AliveSendBundle ==
  ASSUME Inv, AliveInv, NEW c \in Clients, SendBundle(c)
  PROVE  AliveInv'
  <1>1. /\ joined[c] /\ \A d \in Clients \ {c} : task'[d] = task[d]
        /\ UNCHANGED <<open, joined, drops, m_bREQInProgress, m_cQueue, m_pcSendBlk, pipe, reply,
                       repIn, repCur>>
    BY DEF SendBundle, socket, zmq, server, Inv, FabricType
  <1>2. \A d \in Clients \ {c} : AliveSame(d)
    BY <1>1 DEF AliveSame, OutSame
  <1>3. OpenAt(c)' /\ JoinAt(c)'
    BY <1>1 DEF AliveInv, AliveAt, OpenAt, JoinAt
  <1>4. KeptAt(c)'
    <2>1. AnswerLost(c)' => AnswerLost(c)
      BY <1>1 DEF AnswerLost, UnderWay, Alive, Reads
    <2>2. QED  BY <1>1, <2>1 DEF AliveInv, AliveAt, KeptAt
  <1>5. QED  BY <1>1, <1>2, <1>3, <1>4, AliveLocal DEF AliveAt

\* disconnected drops what is pending, a JOIN_REQ too, and asks again.
LEMMA AliveDisconnected ==
  ASSUME Inv, AliveInv, NEW c \in Clients, disconnected(c)
  PROVE  AliveInv'
  <1>1. /\ UNCHANGED <<open, drops, m_bREQInProgress, m_pcSendBlk, pipe, reply, repIn, repCur>>
        /\ m_cQueue' = [m_cQueue EXCEPT ![c] = <<>>]
        /\ joined' = [joined EXCEPT ![c] = FALSE]
    BY DEF disconnected, disconnect, flushQ, server
  <1>2. PICK topo \in {<<>>, <<TopoReq(c)>>} : task' = [task EXCEPT ![c] = topo \o <<JoinReq(c)>>]
    BY DEF disconnected, disconnect, rejoinReq
  <1>3. /\ task \in [Clients -> Seq(Msg)] /\ joined \in [Clients -> BOOLEAN]
        /\ m_cQueue \in [Clients -> Seq(Msg)]
    BY DEF Inv, FabricType, SocketInv, SocketType
  <1>4. \A d \in Clients \ {c} : AliveSame(d)
    BY <1>1, <1>2, <1>3 DEF AliveSame, OutSame
  <1>5. JoinIn(task'[c])
    <2>1. <<JoinReq(c)>> \in Seq(Msg) /\ topo \in Seq(Msg)
      <3>1. <<>> \in Seq(Msg) /\ JoinReq(c) \in Msg /\ TopoReq(c) \in Msg
        BY RequestType, EmptySeq
      <3>2. <<JoinReq(c)>> \in Seq(Msg) /\ <<TopoReq(c)>> \in Seq(Msg)
        BY <3>1
      <3>3. QED  BY <3>1, <3>2
    <2>2. JoinIn(<<JoinReq(c)>>)
      BY DEF JoinIn, JoinReq, Message
    <2>3. JoinIn(topo \o <<JoinReq(c)>>)
      BY <2>1, <2>2, JoinConcat
    <2>4. QED  BY <1>2, <1>3, <2>3
  <1>6. AnswerLost(c)' => AnswerLost(c)
    BY <1>1 DEF AnswerLost, UnderWay, Alive, Reads
  <1>7. AliveAt(c)'
    BY <1>1, <1>5, <1>6 DEF AliveInv, AliveAt, OpenAt, KeptAt, JoinAt, JoinPending
  <1>8. QED  BY <1>1, <1>4, <1>7, AliveLocal

\* sendREQ passes a JOIN_REQ on.
LEMMA AliveSendREQ ==
  ASSUME Inv, ChainInv, OutInv, AliveInv, NEW c \in Clients, sendREQ(c)
  PROVE  AliveInv'
  <1>1. OnlySocket(c) /\ reply' = reply /\ repIn' = repIn /\ repCur' = repCur
    BY SendREQEffect DEF server
  <1>2. UNCHANGED <<open, joined, drops>>
    BY DEF sendREQ
  <1>3. PICK m \in Msg, e \in Msg :
              /\ task[c] # <<>> /\ m = Head(task[c])
              /\ e = [m EXCEPT !.first = (m_iBundle[c] = "FIRST")]
              /\ task'[c] = Tail(task[c])
              /\ \/ Adds(c, e)
                 \/ ~m_bREQInProgress[c] /\ m.last /\ Sends(c, Append(Pending(c), e), <<>>)
    BY SendREQEffect
  <1>4. \A d \in Clients \ {c} : AliveSame(d)
    BY <1>1, <1>2 DEF OnlySocket, AliveSame, OutSame
  <1>5. open[c] /\ task[c] \in Seq(Msg) /\ Pending(c) \in Seq(Msg) /\ e.kind = m.kind
    <2>1. open[c]
      BY <1>3 DEF ChainInv
    <2>2. task[c] \in Seq(Msg) /\ Pending(c) \in Seq(Msg)
      BY PendingType DEF Inv, FabricType
    <2>3. e.kind = m.kind
      BY <1>3 DEF Msg
    <2>4. QED  BY <2>1, <2>2, <2>3
  <1>6. Alive(c)' = Alive(c) /\ (Reads(c)' <=> Reads(c))
    BY <1>1 DEF Alive, Reads
  <1>7. JoinIn(task[c]) => m.kind = "JOIN_REQ" \/ JoinIn(task'[c])
    BY <1>3, <1>5, JoinTail
  <1>8. m.kind = "JOIN_REQ" \/ JoinIn(Pending(c)) => JoinIn(Append(Pending(c), e))
    BY <1>5, JoinAppend
  <1>9. CASE Adds(c, e)
    <2>1. UnderWay(c)' <=> UnderWay(c)
      BY <1>1, <1>6, <1>9 DEF UnderWay, Adds
    <2>2. AnswerLost(c)' <=> AnswerLost(c)
      BY <1>9, <2>1 DEF AnswerLost, Adds
    <2>3. JoinPending(c) => JoinPending(c)'
      BY <1>1, <1>6, <1>7, <1>8, <1>9 DEF JoinPending, Adds
    <2>4. AliveAt(c)'
      BY <1>2, <1>5, <2>2, <2>3 DEF AliveInv, AliveAt, OpenAt, KeptAt, JoinAt
    <2>5. QED  BY <1>1, <1>4, <2>4, AliveLocal
  <1>10. CASE ~m_bREQInProgress[c] /\ Sends(c, Append(Pending(c), e), <<>>)
    <2>1. pipe'[c] = Append(Pending(c), e) /\ pipe'[c] # <<>>
      BY <1>5, <1>10, AppendProperties DEF Sends
    <2>2. UnderWay(c)'
      BY <2>1 DEF UnderWay
    <2>3. ~UnderWay(c) /\ ~JoinIn(<<>>)
      BY <1>10, EmptySeq DEF OutInv, OutAt, UnderWay, JoinIn
    <2>4. JoinPending(c) => JoinIn(task[c]) \/ JoinIn(Pending(c))
      <3>1. pipe[c] = <<>> /\ Alive(c) = {} /\ ~Reads(c) /\ reply[c] = <<>> /\ DOMAIN <<>> = {}
        BY <2>3, EmptySeq DEF UnderWay
      <3>2. QED  BY <2>3, <3>1 DEF JoinPending
    <2>5. JoinPending(c) => JoinPending(c)'
      BY <1>7, <1>8, <2>1, <2>4 DEF JoinPending
    <2>6. ~AnswerLost(c)' /\ ~AnswerLost(c)
      BY <1>10, <2>2 DEF AnswerLost
    <2>7. AliveAt(c)'
      BY <1>2, <1>5, <2>5, <2>6 DEF AliveInv, AliveAt, OpenAt, KeptAt, JoinAt
    <2>8. QED  BY <1>1, <1>4, <2>7, AliveLocal
  <1>11. QED  BY <1>3, <1>9, <1>10

\* The answer to a JOIN_REQ makes the peer a member; any other answer lets the next
\* bundle go.
LEMMA AliveReadReply ==
  ASSUME Inv, ChainInv, OutInv, AliveInv, NEW c \in Clients, ReadReply(c)
  PROVE  AliveInv'
  <1>1. m_bREQInProgress[c] /\ OutAt(c) /\ AliveAt(c)
    BY DEF ReadReply, OutInv, OutAt, AliveInv
  <1>2. /\ OnlySocket(c) /\ repIn' = repIn /\ repCur' = repCur
        /\ task'[c] = <<>> /\ task[c] = <<>>
        /\ reply[c] # <<>> /\ reply' = [reply EXCEPT ![c] = Tail(@)]
    BY <1>1, ReadReplyEffect DEF server
  <1>3. PICK sends \in {<<>>, <<QueuedTopoReq(c)>>}, q \in Seq(Msg) :
          /\ q = Pending(c) \o sends
          /\ \/ q = <<>> /\ Frees(c)
             \/ /\ q # <<>>
                /\ \E n : /\ n = BundleLength(q)
                          /\ Sends(c, SubSeq(q, 1, n), SubSeq(q, n + 1, Len(q)))
    BY <1>1, ReadReplyEffect
  <1>4. /\ joined \in [Clients -> BOOLEAN] /\ reply \in [Clients -> Seq(Kinds)]
        /\ open' = open /\ drops' = drops /\ open[c]
    BY <1>1 DEF ReadReply, Inv, FabricType, NetInv, NetType, AliveAt, OpenAt
  <1>5. /\ \A d \in Clients \ {c} : joined'[d] = joined[d]
        /\ joined[c] => joined'[c]
        /\ Head(reply[c]) = "JOIN_REQ" => joined'[c]
    BY <1>4 DEF ReadReply, processJoinRep, processTopoRep, processShimRep
  <1>6. \A d \in Clients \ {c} : AliveSame(d)
    BY <1>2, <1>4, <1>5 DEF OnlySocket, AliveSame, OutSame
  <1>7. ChainOK(c, q, "FIRST")
    <2>1. m_iBundle[c] = "FIRST"
      BY <1>2, AtRest
    <2>2. QED  BY <1>3, <2>1, PendingType, ChainConcat DEF ChainInv, Inv
  <1>8. JoinIn(Pending(c)) => JoinIn(q)
    <2>1. sends \in Seq(Msg) /\ Pending(c) \in Seq(Msg)
      <3>1. <<>> \in Seq(Msg) /\ QueuedTopoReq(c) \in Msg
        BY RequestType, EmptySeq
      <3>2. <<QueuedTopoReq(c)>> \in Seq(Msg)
        BY <3>1
      <3>3. QED  BY <3>1, <3>2, PendingType DEF Inv
    <2>2. QED  BY <1>3, <2>1, JoinConcat
  <1>9. ~joined'[c] => JoinIn(q)
    <2> SUFFICES ASSUME ~joined'[c] PROVE JoinIn(q)
      OBVIOUS
    <2>1. JoinPending(c)
      BY <1>1, <1>2, <1>4, <1>5 DEF AliveAt, JoinAt, AnswerLost, UnderWay
    <2>2. pipe[c] = <<>> /\ Alive(c) = {} /\ ~Reads(c) /\ Len(reply[c]) <= 1
      BY <1>1, <1>2 DEF OutAt
    <2>3. ~JoinIn(<<>>)
      BY EmptySeq DEF JoinIn
    <2>4. \A i \in DOMAIN reply[c] : reply[c][i] # "JOIN_REQ"
      <3>1. reply[c] \in Seq(Kinds)
        BY <1>4
      <3>2. Len(reply[c]) \in Nat /\ DOMAIN reply[c] = 1..Len(reply[c]) /\ Head(reply[c]) = reply[c][1]
        BY <1>2, <3>1, LenProperties, HeadTailProperties
      <3>3. \A i \in DOMAIN reply[c] : i = 1
        BY <2>2, <3>2
      <3>4. QED  BY <1>5, <3>2, <3>3
    <2>5. JoinIn(Pending(c))
      BY <1>2, <2>1, <2>2, <2>3, <2>4 DEF JoinPending
    <2>6. QED  BY <1>8, <2>5
  <1>10. CASE q = <<>> /\ Frees(c)
    <2>1. joined'[c]
      BY <1>9, <1>10, EmptySeq DEF JoinIn
    <2>2. ~m_bREQInProgress'[c]
      BY <1>10 DEF Frees
    <2>3. AliveAt(c)'
      BY <2>1, <2>2 DEF AliveAt, OpenAt, KeptAt, JoinAt, AnswerLost
    <2>4. QED  BY <1>2, <1>6, <2>3, AliveLocal
  <1>11. ASSUME q # <<>>, NEW n, n = BundleLength(q),
                Sends(c, SubSeq(q, 1, n), SubSeq(q, n + 1, Len(q)))
         PROVE  AliveInv'
    <2>1. n \in 1..Len(q) /\ IsBundle(c, SubSeq(q, 1, n))
      BY <1>7, <1>11, ChainSplit
    <2>2. /\ pipe'[c] = SubSeq(q, 1, n) /\ pipe'[c] # <<>>
          /\ Pending(c)' = SubSeq(q, n + 1, Len(q))
      BY <1>11, <2>1 DEF Sends, IsBundle, IsRest
    <2>3. ~AnswerLost(c)'
      BY <2>2 DEF AnswerLost, UnderWay
    <2>4. ~joined'[c] => JoinPending(c)'
      <3>1. ~joined'[c] => JoinIn(SubSeq(q, 1, n)) \/ JoinIn(SubSeq(q, n + 1, Len(q)))
        BY <1>9, <2>1, JoinSplit
      <3>2. QED  BY <2>2, <3>1 DEF JoinPending
    <2>5. AliveAt(c)'
      BY <1>4, <2>3, <2>4 DEF AliveAt, OpenAt, KeptAt, JoinAt
    <2>6. QED  BY <1>2, <1>6, <2>5, AliveLocal
  <1>12. QED  BY <1>3, <1>10, <1>11

\* A lost session of c is nothing to the request of another client that is read.
LEMMA OrphanOthers ==
  ASSUME NEW c \in Clients, Orphan(c), NEW d \in Clients \ {c}, Reads(d)
  PROVE  repCur' = repCur
  <1>1. repCur' = IF repCur.parts # <<>> /\ repCur.parts[1].from = c
                  THEN [repCur EXCEPT !.alive = FALSE] ELSE repCur
    BY DEF Orphan
  <1>2. QED  BY <1>1 DEF Reads

\* delPeer forgets the peer.
LEMMA AliveDelPeer ==
  ASSUME Inv, FlightInv, AliveInv, NEW c \in Clients, delPeer(c)
  PROVE  AliveInv'
  <1>1. /\ open' = [open EXCEPT ![c] = FALSE] /\ joined' = [joined EXCEPT ![c] = FALSE]
        /\ m_bREQInProgress' = [m_bREQInProgress EXCEPT ![c] = FALSE]
        /\ m_cQueue' = [m_cQueue EXCEPT ![c] = <<>>] /\ m_pcSendBlk' = [m_pcSendBlk EXCEPT ![c] = <<>>]
        /\ pipe' = [pipe EXCEPT ![c] = <<>>] /\ reply' = [reply EXCEPT ![c] = <<>>]
        /\ UNCHANGED <<task, drops>> /\ Orphan(c)
    BY DEF delPeer, closeSocket
  <1>2. /\ open \in [Clients -> BOOLEAN] /\ joined \in [Clients -> BOOLEAN]
        /\ m_bREQInProgress \in [Clients -> BOOLEAN] /\ m_cQueue \in [Clients -> Seq(Msg)]
        /\ m_pcSendBlk \in [Clients -> Seq(Msg)] /\ pipe \in [Clients -> Seq(Msg)]
        /\ reply \in [Clients -> Seq(Kinds)]
    BY DEF Inv, FabricType, SocketInv, SocketType, NetInv, NetType
  <1>3. /\ \A d \in Clients : Reads(d)' => Reads(d)
        /\ \A d \in Clients \ {c} : repIn'[d] = repIn[d]
    BY <1>1, OutOrphan
  <1>4. ASSUME NEW d \in Clients \ {c} PROVE AliveAt(d)'
    <2>1. AliveSame(d)
      BY <1>1, <1>2, <1>3 DEF AliveSame, OutSame
    <2>2. Reads(d) => repCur' = repCur
      BY <1>1, OrphanOthers
    <2>3. Reads(d)' <=> Reads(d)
      BY <1>3, <2>2 DEF Reads
    <2>4. QED  BY <2>1, <2>2, <2>3, AliveKept DEF AliveInv
  <1>5. ~open'[c] /\ ~m_bREQInProgress'[c]
    BY <1>1, <1>2
  <1>6. AliveAt(c)'
    BY <1>5 DEF AliveAt, OpenAt, KeptAt, JoinAt, AnswerLost
  <1>7. QED  BY <1>4, <1>6 DEF AliveInv

\* A session that is lost takes the answer with it, a JOIN_REQ too; then the socket
\* waits for good.
LEMMA AliveDisconnect ==
  ASSUME Inv, FlightInv, OutInv, AliveInv, NEW c \in Clients, Disconnect(c)
  PROVE  AliveInv'
  <1>1. /\ UNCHANGED <<open, joined, task, m_bREQInProgress, m_cQueue, m_pcSendBlk, pipe>>
        /\ reply' = [reply EXCEPT ![c] = <<>>] /\ drops' = [drops EXCEPT ![c] = @ + 1]
        /\ \/ Orphan(c)
           \/ repIn' = [repIn EXCEPT ![c] = <<>>] /\ repCur' = repCur
    BY DEF Disconnect, socket, fabric
  <1>2. /\ reply \in [Clients -> Seq(Kinds)] /\ repIn \in [Clients -> Seq(Request)]
        /\ drops \in [Clients -> 0..MaxDrops] /\ MaxDrops \in Nat
    BY BoundsAssumption DEF Inv, NetInv, NetType, ServerInv
  <1>3. /\ Alive(c)' = {}
        /\ \A d \in Clients : Reads(d)' => Reads(d)
        /\ \A d \in Clients \ {c} : repIn'[d] = repIn[d]
        /\ ~Reads(c)' \/ repCur' = repCur
    <2>1. CASE Orphan(c)
      BY <2>1, OutOrphan
    <2>2. CASE repIn' = [repIn EXCEPT ![c] = <<>>] /\ repCur' = repCur
      <3>1. Alive(c)' = {}
        BY <1>2, <2>2, EmptySeq DEF Alive
      <3>2. QED  BY <1>2, <2>2, <3>1 DEF Reads
    <2>3. QED  BY <1>1, <2>1, <2>2
  <1>4. ASSUME NEW d \in Clients \ {c} PROVE AliveAt(d)'
    <2>1. AliveSame(d)
      BY <1>1, <1>2, <1>3 DEF AliveSame, OutSame
    <2>2. Reads(d) => repCur' = repCur
      BY <1>1, OrphanOthers
    <2>3. Reads(d)' <=> Reads(d)
      BY <1>3, <2>2 DEF Reads
    <2>4. QED  BY <2>1, <2>2, <2>3, AliveKept DEF AliveInv
  <1>5. drops'[c] # 0 /\ reply'[c] = <<>>
    BY <1>1, <1>2
  <1>6. AliveAt(c) /\ OutAt(c)
    BY DEF AliveInv, OutInv
  <1>7. OpenAt(c)' /\ KeptAt(c)'
    BY <1>1, <1>5, <1>6 DEF AliveAt, OpenAt, KeptAt
  <1>8. ASSUME JoinPending(c) \/ AnswerLost(c) PROVE JoinPending(c)' \/ AnswerLost(c)'
    <2>1. CASE JoinIn(task[c]) \/ JoinIn(Pending(c)) \/ JoinIn(pipe[c])
      <3>1. Pending(c)' = Pending(c)
        BY <1>1 DEF Pending
      <3>2. QED  BY <1>1, <2>1, <3>1 DEF JoinPending
    <2>2. CASE Reads(c) /\ repCur.state = "parts" /\ JoinIn(repCur.parts)
      <3>1. CASE Reads(c)'
        BY <1>3, <2>2, <3>1 DEF JoinPending
      <3>2. CASE ~Reads(c)'
        <4>1. m_bREQInProgress[c] /\ pipe[c] = <<>>
          BY <1>6, <2>2 DEF OutAt
        <4>2. QED  BY <1>1, <1>3, <1>5, <3>2, <4>1 DEF AnswerLost, UnderWay
      <3>3. QED  BY <3>1, <3>2
    <2>3. CASE \/ \E i \in Alive(c) : JoinIn(repIn[c][i].parts)
               \/ \E i \in DOMAIN reply[c] : reply[c][i] = "JOIN_REQ"
      <3>1. Alive(c) # {} \/ reply[c] # <<>>
        BY <2>3, EmptySeq
      <3>2. m_bREQInProgress[c] /\ pipe[c] = <<>> /\ ~Reads(c)
        BY <1>6, <3>1 DEF OutAt
      <3>3. QED  BY <1>1, <1>3, <1>5, <3>2 DEF AnswerLost, UnderWay
    <2>4. CASE AnswerLost(c)
      BY <1>1, <1>3, <1>5, <2>4 DEF AnswerLost, UnderWay
    <2>5. QED  BY <1>8, <2>1, <2>2, <2>3, <2>4 DEF JoinPending
  <1>9. JoinAt(c)'
    BY <1>1, <1>6, <1>8 DEF AliveAt, JoinAt
  <1>10. QED  BY <1>4, <1>7, <1>9 DEF AliveInv, AliveAt

\* The request that ZeroMQ delivers will be answered.
LEMMA AliveDeliver ==
  ASSUME Inv, AliveInv, OutInv, NEW c \in Clients, Deliver(c)
  PROVE  AliveInv'
  <1> DEFINE r == [parts |-> pipe[c], alive |-> TRUE]
             t == repIn[c]
             u == Append(t, r)
  <1>1. /\ pipe[c] # <<>> /\ pipe' = [pipe EXCEPT ![c] = <<>>]
        /\ UNCHANGED <<open, joined, task, drops, m_bREQInProgress, m_cQueue, m_pcSendBlk, reply, repCur>>
        /\ repIn' = [repIn EXCEPT ![c] = u]
    BY DEF Deliver, socket, fabric
  <1>2. pipe \in [Clients -> Seq(Msg)] /\ repIn \in [Clients -> Seq(Request)]
    BY DEF Inv, SocketInv, SocketType, ServerInv
  <1>3. \A d \in Clients \ {c} : AliveSame(d)
    BY <1>1, <1>2 DEF AliveSame, OutSame
  <1>4. r \in Request /\ r.alive = TRUE /\ r.parts = pipe[c] /\ t \in Seq(Request)
    BY <1>1, <1>2 DEF Request
  <1>5. repIn'[c] = u /\ Pending(c)' = Pending(c)
    BY <1>1, <1>2 DEF Pending
  <1> HIDE DEF r, t
  <1>6. u \in Seq(Request) /\ Len(u) = Len(t) + 1 /\ u[Len(t) + 1] = r /\ Len(t) \in Nat
    BY <1>4, AppendProperties, LenProperties
  <1>7. DOMAIN u = 1..(Len(t) + 1)
    BY <1>6, LenProperties
  <1> HIDE DEF u
  <1>8. Len(t) + 1 \in Alive(c)' /\ repIn'[c][Len(t) + 1].parts = pipe[c]
    <2>1. Len(t) + 1 \in DOMAIN u /\ u[Len(t) + 1].alive = TRUE
      BY <1>4, <1>6, <1>7
    <2>2. QED  BY <1>4, <1>5, <1>6, <2>1 DEF Alive
  <1>9. UnderWay(c)' /\ UnderWay(c)
    BY <1>1, <1>8 DEF UnderWay
  <1>10. JoinPending(c) => JoinPending(c)'
    <2>1. Alive(c) = {} /\ ~Reads(c) /\ reply[c] = <<>>
      BY <1>1 DEF OutInv, OutAt
    <2>2. JoinPending(c) => JoinIn(task[c]) \/ JoinIn(Pending(c)) \/ JoinIn(pipe[c])
      BY <2>1, EmptySeq DEF JoinPending
    <2>3. JoinIn(pipe[c]) => JoinPending(c)'
      BY <1>8 DEF JoinPending
    <2>4. QED  BY <1>1, <1>5, <2>2, <2>3 DEF JoinPending
  <1>11. AliveAt(c)'
    BY <1>1, <1>9, <1>10 DEF AliveInv, AliveAt, OpenAt, KeptAt, JoinAt, AnswerLost
  <1>12. QED  BY <1>1, <1>3, <1>11, AliveLocal

\* The REP socket turns to a request.
LEMMA AliveRepRecv ==
  ASSUME Inv, FlightInv, OutInv, AliveInv, NEW c \in Clients, RepRecv(c)
  PROVE  AliveInv'
  <1> DEFINE t == repIn[c]
             u == Tail(t)
  <1>1. /\ t # <<>> /\ repIn' = [repIn EXCEPT ![c] = u] /\ repCur.state = "recv"
        /\ UNCHANGED <<open, joined, task, drops, m_bREQInProgress, m_cQueue, m_pcSendBlk, pipe, reply>>
        /\ repCur' = [state |-> "parts", parts |-> Head(t).parts, alive |-> Head(t).alive]
    BY DEF RepRecv, fabric, zmq, socket
  <1>2. repIn \in [Clients -> Seq(Request)]
    BY DEF Inv, ServerInv
  <1>3. t \in Seq(Request) /\ repIn'[c] = u /\ Pending(c)' = Pending(c)
    BY <1>1, <1>2 DEF Pending
  <1>4. /\ Head(t) = t[1] /\ u \in Seq(Request) /\ Len(u) = Len(t) - 1
        /\ \A i \in 1..Len(u) : u[i] = t[i + 1]
    BY <1>1, <1>3, HeadTailProperties
  <1>5. DOMAIN t = 1..Len(t) /\ DOMAIN u = 1..Len(u) /\ Len(t) \in Nat /\ Len(t) # 0
    BY <1>1, <1>3, <1>4, LenProperties, EmptySeq
  <1>6. 1 \in DOMAIN t /\ t[1].parts \in Seq(Msg) /\ t[1].parts[1].from = c
    <2>1. 1 \in DOMAIN t
      BY <1>5
    <2>2. t[1] \in Request
      BY <1>3, <1>5, <2>1, ElementOfSeq
    <2>3. IsBundle(c, t[1].parts)
      BY <2>1 DEF FlightInv, RepInOK
    <2>4. t[1].parts \in Seq(Msg)
      BY <2>2 DEF Request
    <2>5. QED  BY <2>1, <2>3, <2>4, RestTail DEF IsBundle
  <1>7. repCur'.state = "parts" /\ repCur'.parts = t[1].parts /\ repCur'.alive = t[1].alive
    BY <1>1, <1>4
  <1>8. ASSUME NEW d \in Clients \ {c} PROVE AliveAt(d)'
    <2>1. AliveSame(d) /\ ~Reads(d) /\ ~Reads(d)'
      BY <1>1, <1>2, <1>6, <1>7 DEF AliveSame, OutSame, Reads
    <2>2. QED  BY <2>1, AliveKept DEF AliveInv
  <1> HIDE DEF u, t
  <1>9. ASSUME NEW i \in Alive(c)
        PROVE  \/ i = 1 /\ Reads(c)' /\ repCur'.parts = repIn[c][i].parts
               \/ i - 1 \in Alive(c)' /\ repIn'[c][i - 1].parts = repIn[c][i].parts
    <2>1. i \in DOMAIN t /\ t[i].alive
      BY DEF Alive, t
    <2>2. CASE i = 1
      BY <1>6, <1>7, <2>1, <2>2 DEF Reads, t
    <2>3. CASE i # 1
      <3>1. i - 1 \in 1..Len(u) /\ (i - 1) + 1 = i
        BY <1>4, <1>5, <2>1, <2>3
      <3>2. i - 1 \in DOMAIN u /\ u[i - 1] = t[i]
        BY <1>4, <1>5, <3>1
      <3>3. i - 1 \in DOMAIN repIn'[c] /\ repIn'[c][i - 1].alive /\ repIn'[c][i - 1].parts = t[i].parts
        BY <1>3, <2>1, <3>2
      <3>4. QED  BY <3>3 DEF Alive, t
    <2>4. QED  BY <2>2, <2>3
  <1>10. ~Reads(c)
    BY <1>1 DEF Reads
  <1>11. UnderWay(c) => UnderWay(c)'
    BY <1>1, <1>9, <1>10 DEF UnderWay
  <1>12. AnswerLost(c) => AnswerLost(c)'
    <2> SUFFICES ASSUME AnswerLost(c) PROVE AnswerLost(c)'
      OBVIOUS
    <2>1. m_bREQInProgress'[c] /\ pipe'[c] = <<>> /\ reply'[c] = <<>> /\ Alive(c) = {}
      BY <1>1 DEF AnswerLost, UnderWay
    <2>2. \A i \in DOMAIN t : ~t[i].alive
      BY <2>1 DEF Alive, t
    <2>3. ~Reads(c)'
      BY <1>6, <1>7, <2>2 DEF Reads
    <2>4. Alive(c)' = {}
      <3> SUFFICES ASSUME NEW i \in Alive(c)' PROVE FALSE
        OBVIOUS
      <3>1. i \in DOMAIN u /\ u[i].alive
        BY <1>3 DEF Alive
      <3>2. u[i] = t[i + 1] /\ i + 1 \in DOMAIN t
        BY <1>4, <1>5, <3>1
      <3>3. QED  BY <2>2, <3>1, <3>2
    <2>5. QED  BY <2>1, <2>3, <2>4 DEF AnswerLost, UnderWay
  <1>13. JoinPending(c) => JoinPending(c)'
    <2>1. CASE \E i \in Alive(c) : JoinIn(repIn[c][i].parts)
      <3>1. PICK i \in Alive(c) : JoinIn(repIn[c][i].parts)
        BY <2>1
      <3>2. CASE Reads(c)' /\ repCur'.parts = repIn[c][i].parts
        BY <1>7, <3>1, <3>2 DEF JoinPending
      <3>3. CASE i - 1 \in Alive(c)' /\ repIn'[c][i - 1].parts = repIn[c][i].parts
        BY <3>1, <3>3 DEF JoinPending
      <3>4. QED  BY <1>9, <3>1, <3>2, <3>3
    <2>2. CASE ~(\E i \in Alive(c) : JoinIn(repIn[c][i].parts))
      BY <1>1, <1>3, <1>10, <2>2 DEF JoinPending
    <2>3. QED  BY <2>1, <2>2
  <1>14. AliveAt(c)'
    <2>1. AnswerLost(c)' => AnswerLost(c)
      BY <1>1, <1>11 DEF AnswerLost
    <2>2. QED  BY <1>1, <1>12, <1>13, <2>1 DEF AliveInv, AliveAt, OpenAt, KeptAt, JoinAt
  <1>15. QED  BY <1>8, <1>14 DEF AliveInv

\* The server answers a JOIN_REQ; what it does not answer it still owes.
LEMMA AliveRepPart ==
  ASSUME Inv, FlightInv, OutInv, AliveInv, RepPart
  PROVE  AliveInv'
  <1> DEFINE s == repCur.parts
  <1>0. PICK c \in Clients : c = s[1].from
    BY RepPartEffect
  <1>1. /\ UNCHANGED <<m_bREQInProgress, m_cQueue, m_pcSendBlk, pipe, repIn, open, joined, task, drops>>
        /\ repCur.state = "parts" /\ s \in Seq(Msg) /\ s # <<>> /\ IsRest(c, s)
    BY <1>0, RepPartEffect DEF RepPart, fabric
  <1>2. PICK answered \in BOOLEAN :
            /\ s[1].kind = "JOIN_REQ" => answered
            /\ answered => s[1].last
            /\ repCur' = IF Tail(s) # <<>> THEN [repCur EXCEPT !.parts = Tail(s)]
                         ELSE IF answered THEN Idle
                         ELSE [repCur EXCEPT !.state = "reply"]
            /\ reply' = IF answered /\ repCur.alive
                        THEN [reply EXCEPT ![c] = Append(@, s[1].kind)]
                        ELSE reply
    <2> DEFINE m == Head(s)
    <2>1. m = s[1] /\ m \in Msg /\ (~Shim(m) => m.last)
      BY <1>1, RestTail
    <2>2. m.last \in BOOLEAN
      BY <2>1, MsgFields
    <2>3. processJoinReq(m) \/ processTopoReq(m) \/ processShimReq(m)
      BY DEF RepPart
    <2>4. \E answered \in BOOLEAN :
            (m.kind = "JOIN_REQ" => answered) /\ (answered => m.last) /\ Answer(m, answered)
      <3> HIDE DEF m
      <3>1. CASE processJoinReq(m) \/ processTopoReq(m)
        BY <2>1, <3>1 DEF processJoinReq, processTopoReq, Shim
      <3>2. CASE processShimReq(m)
        BY <2>2, <3>2 DEF processShimReq
      <3>3. QED  BY <2>3, <3>1, <3>2
    <2>5. QED  BY <1>0, <2>1, <2>4 DEF Answer
  <1>3. /\ Tail(s) # <<>> => Tail(s)[1].from = c /\ ~s[1].last
        /\ Head(s) = s[1] /\ s[1] \in Msg /\ (s[1].kind = "JOIN_REQ" => s[1].last)
    BY <1>1, RestTail DEF Shim
  <1>4. repCur \in RepStates /\ reply \in [Clients -> Seq(Kinds)]
    BY DEF Inv, ServerInv, NetInv, NetType
  <1>5. \/ /\ Tail(s) # <<>> /\ ~answered /\ reply' = reply /\ repCur'.state = "parts"
           /\ repCur'.parts = Tail(s) /\ repCur'.alive = repCur.alive
        \/ /\ Tail(s) = <<>> /\ answered /\ repCur' = Idle
           /\ reply' = IF repCur.alive THEN [reply EXCEPT ![c] = Append(@, s[1].kind)] ELSE reply
        \/ /\ Tail(s) = <<>> /\ ~answered /\ reply' = reply /\ s[1].kind # "JOIN_REQ"
           /\ repCur'.state = "reply" /\ repCur'.parts = s /\ repCur'.alive = repCur.alive
    BY <1>1, <1>2, <1>3, <1>4 DEF RepStates
  <1>6. ASSUME NEW d \in Clients, d # c \/ ~repCur.alive PROVE AliveAt(d)'
    <2>1. ~Reads(d)
      BY <1>0, <1>6 DEF Reads
    <2>2. ~Reads(d)'
      <3>1. CASE repCur'.parts = Tail(s) /\ Tail(s) # <<>> /\ repCur'.alive = repCur.alive
        <4>1. repCur'.parts[1].from = c
          BY <1>3, <3>1
        <4>2. QED  BY <1>6, <3>1, <4>1 DEF Reads
      <3>2. CASE repCur' = Idle
        BY <3>2 DEF Reads, Idle
      <3>3. CASE repCur'.parts = s /\ repCur'.alive = repCur.alive
        <4>1. repCur'.parts[1].from = c
          BY <1>0, <3>3
        <4>2. QED  BY <1>6, <3>3, <4>1 DEF Reads
      <3>4. QED  BY <1>5, <3>1, <3>2, <3>3
    <2>3. AliveSame(d)
      BY <1>1, <1>4, <1>5, <1>6 DEF AliveSame, OutSame
    <2>4. QED  BY <2>1, <2>2, <2>3, AliveKept DEF AliveInv
  <1>7. ASSUME repCur.alive PROVE AliveAt(c)'
    <2>1. Reads(c) /\ OutAt(c) /\ AliveAt(c)
      BY <1>0, <1>1, <1>7 DEF Reads, OutInv, AliveInv
    <2>2. m_bREQInProgress[c] /\ reply[c] = <<>> /\ pipe[c] = <<>> /\ Alive(c) = {}
      BY <2>1 DEF OutAt
    <2>3. Pending(c)' = Pending(c)
      BY <1>1 DEF Pending
    <2>4. JoinPending(c) => JoinIn(task[c]) \/ JoinIn(Pending(c)) \/ JoinIn(s)
      BY <2>2, EmptySeq DEF JoinPending, JoinIn
    <2>5. UnderWay(c)' /\ (JoinIn(s) => JoinPending(c)')
      <3>1. CASE /\ Tail(s) # <<>> /\ ~answered /\ reply' = reply /\ repCur'.state = "parts"
                 /\ repCur'.parts = Tail(s) /\ repCur'.alive = repCur.alive
        <4>1. Reads(c)'
          BY <1>3, <1>7, <3>1 DEF Reads
        <4>2. JoinIn(s) => JoinIn(Tail(s))
          BY <1>1, <1>3, <3>1, JoinTail
        <4>3. QED  BY <3>1, <4>1, <4>2 DEF UnderWay, JoinPending
      <3>2. CASE /\ Tail(s) = <<>> /\ answered /\ repCur' = Idle
                 /\ reply' = IF repCur.alive THEN [reply EXCEPT ![c] = Append(@, s[1].kind)] ELSE reply
        <4>1. reply'[c] = Append(<<>>, s[1].kind)
          BY <1>4, <1>7, <2>2, <3>2
        <4>2. Append(<<>>, s[1].kind) = <<s[1].kind>>
          OBVIOUS
        <4>3. reply'[c] # <<>> /\ 1 \in DOMAIN reply'[c] /\ reply'[c][1] = s[1].kind
          BY <4>1, <4>2
        <4>4. JoinIn(s) => s[1].kind = "JOIN_REQ"
          <5>1. ~JoinIn(<<>>)
            BY EmptySeq DEF JoinIn
          <5>2. QED  BY <1>1, <1>3, <3>2, <5>1, JoinTail
        <4>5. QED  BY <4>3, <4>4 DEF UnderWay, JoinPending
      <3>3. CASE /\ Tail(s) = <<>> /\ ~answered /\ reply' = reply /\ s[1].kind # "JOIN_REQ"
                 /\ repCur'.state = "reply" /\ repCur'.parts = s /\ repCur'.alive = repCur.alive
        <4>1. Reads(c)'
          BY <1>0, <1>7, <3>3 DEF Reads
        <4>2. ~JoinIn(s)
          <5>1. ~JoinIn(<<>>)
            BY EmptySeq DEF JoinIn
          <5>2. QED  BY <1>1, <1>3, <3>3, <5>1, JoinTail
        <4>3. QED  BY <4>1, <4>2 DEF UnderWay
      <3>4. QED  BY <1>5, <3>1, <3>2, <3>3
    <2>6. UnderWay(c)
      BY <2>1 DEF UnderWay
    <2>7. JoinPending(c) => JoinPending(c)'
      BY <1>1, <2>3, <2>4, <2>5 DEF JoinPending
    <2>8. QED  BY <1>1, <2>1, <2>5, <2>6, <2>7 DEF AliveAt, OpenAt, KeptAt, JoinAt, AnswerLost
  <1>8. QED  BY <1>6, <1>7 DEF AliveInv

\* Every step keeps them.
LEMMA AliveStep ==
  ASSUME Inv, ChainInv, FlightInv, OutInv, AliveInv, [Next]_vars
  PROVE  AliveInv'
  <1>1. ASSUME UNCHANGED <<open, joined, drops, task, socket, pipe, reply, repIn, repCur>>
        PROVE  AliveInv'
    <2>1. ASSUME NEW d \in Clients PROVE AliveAt(d)'
      <3>1. AliveSame(d)
        BY <1>1 DEF AliveSame, OutSame, socket
      <3>2. Reads(d)' <=> Reads(d)
        BY <1>1 DEF Reads
      <3>3. QED  BY <1>1, <3>1, <3>2, AliveKept DEF AliveInv
    <2>2. QED  BY <2>1 DEF AliveInv
  <1>2. ASSUME NEW c \in Clients, Connect(c) PROVE AliveInv'
    BY <1>1, <1>2 DEF Connect, fabric, server
  <1>3. CASE CassiDequeue
    BY <1>1, <1>3 DEF CassiDequeue, fabric, zmq
  <1>4. CASE UNCHANGED vars
    BY <1>1, <1>4 DEF vars, fabric, zmq, server
  <1>5. QED
    BY <1>2, <1>3, <1>4, AliveAddPeer, AliveDelPeer, AliveSendBundle, AliveSendREQ, AliveReadReply,
       AliveDisconnected, AliveDisconnect, AliveDeliver, AliveRepRecv, AliveRepPart DEF Next

\* They hold in every state.
LEMMA AliveAlways == Spec => [](RequestInv /\ AliveInv)
  <1>1. Init => AliveInv
    <2> SUFFICES ASSUME Init, NEW c \in Clients PROVE AliveAt(c)
      BY DEF AliveInv
    <2>1. ~open[c] /\ ~m_bREQInProgress[c]
      BY DEF Init
    <2>2. QED  BY <2>1 DEF AliveAt, OpenAt, KeptAt, JoinAt, AnswerLost
  <1>2. RequestInv /\ AliveInv /\ [Next]_vars => AliveInv'
    BY AliveStep DEF RequestInv
  <1>3. QED  BY <1>1, <1>2, RequestInvariant, PTL DEF Spec

\* One request or none.
LEMMA OutstandingCount ==
  ASSUME RequestInv, NEW c \in Clients
  PROVE  Outstanding(c) = IF UnderWay(c) THEN 1 ELSE 0
  <1>1. OutAt(c)
    BY DEF RequestInv, OutInv
  <1> DEFINE n == Cardinality(Alive(c))
             w == IF pipe[c] # <<>> THEN 1 ELSE 0
             x == IF Reads(c) THEN 1 ELSE 0
             y == Len(reply[c])
  <1>2. n = IF Alive(c) = {} THEN 0 ELSE 1
    <2>1. CASE Alive(c) = {}
      BY <2>1, FS_EmptySet
    <2>2. CASE Alive(c) # {}
      <3>1. PICK i \in Alive(c) : TRUE
        BY <2>2
      <3>2. Alive(c) = {i}
        BY <1>1, <3>1 DEF OutAt
      <3>3. QED  BY <2>2, <3>2, FS_Singleton
    <2>3. QED  BY <2>1, <2>2
  <1>3. y = IF reply[c] = <<>> THEN 0 ELSE 1
    <2>1. y \in Nat /\ y <= 1 /\ (reply[c] = <<>> <=> y = 0)
      BY <1>1, LenProperties, EmptySeq DEF OutAt, RequestInv, Inv, NetInv, NetType
    <2> HIDE DEF y
    <2>2. QED  BY <2>1
  <1>4. Outstanding(c) = w + n + x + y
    BY DEF Outstanding, Alive, Reads
  <1> HIDE DEF n, y
  <1>5. QED  BY <1>1, <1>2, <1>3, <1>4 DEF OutAt, UnderWay

\* A request of a socket that has not lost its session.
RequestHeld ==
    \A c \in Clients :
        m_bREQInProgress[c] /\ drops[c] = 0 => open[c] /\ Outstanding(c) = 1

\* The safety half of RequestAnswered: while MessageManager has a request in progress
\* and the client's session holds, that request, or its answer, is in exactly one
\* place: in the pipe, at the server, being read, or on its way back.  No bundle of
\* another client and no full CASSI queue loses it.
THEOREM RequestNotLost == Spec => []RequestHeld
  <1>1. RequestInv /\ AliveInv => RequestHeld
    <2> SUFFICES ASSUME RequestInv, AliveInv, NEW c \in Clients, m_bREQInProgress[c], drops[c] = 0
                 PROVE  open[c] /\ Outstanding(c) = 1
      BY DEF RequestHeld
    <2>1. open[c] /\ UnderWay(c)
      BY DEF AliveInv, AliveAt, OpenAt, KeptAt, AnswerLost
    <2>2. QED  BY <2>1, OutstandingCount
  <1>2. QED  BY <1>1, AliveAlways, PTL

\* A peer that is not a member asks to be one, or waits for a lost answer.
JoinNotForgotten ==
    \A c \in Clients :
        open[c] /\ ~joined[c] =>
            \/ JoinPending(c)
            \/ m_bREQInProgress[c] /\ Outstanding(c) = 0 /\ drops[c] # 0

\* The safety half of RejoinsWhenIdle: a peer that is open and has not joined has a
\* JOIN_REQ that waits in its socket, is on its way or was answered, through every
\* flushed queue.  The one exception is the socket whose session was lost with a
\* request in progress: m_bREQInProgress then waits for an answer that cannot come,
\* which is how RejoinsAfterDisconnect fails.
THEOREM JoinIsPending == Spec => []JoinNotForgotten
  <1>1. RequestInv /\ AliveInv => JoinNotForgotten
    <2> SUFFICES ASSUME RequestInv, AliveInv, NEW c \in Clients, open[c], ~joined[c], ~JoinPending(c)
                 PROVE  m_bREQInProgress[c] /\ Outstanding(c) = 0 /\ drops[c] # 0
      BY DEF JoinNotForgotten
    <2>1. AnswerLost(c) /\ drops[c] # 0
      BY DEF AliveInv, AliveAt, JoinAt, KeptAt
    <2>2. QED  BY <2>1, OutstandingCount DEF AnswerLost
  <1>2. QED  BY <1>1, AliveAlways, PTL
=============================================================================
