----------------------------- MODULE FabricLink -----------------------------
(***************************************************************************)
(* The request/reply channel between fabrics.  Each client c is a          *)
(* RealtimeFabric with one outgoing REQ socket (MessageManager's           *)
(* socketEvent) to the same server fabric, whose single REP socket serves  *)
(* them all.                                                               *)
(*                                                                         *)
(* ZeroMQ's REQ socket must alternate send and receive, so MessageManager  *)
(* lets one request out at a time and parks the others in m_cQueue.  A     *)
(* request is a bundle: one or more parts, of which the last carries the   *)
(* LAST flag; the server answers on that part.  A fabric runs its          *)
(* callbacks on one thread: task[c] holds what the running callback has    *)
(* still to pass to sendREQ, and no other callback of c starts before it   *)
(* is empty.  ZeroMQ itself (pipes, sessions, the REQ and REP state        *)
(* machines) is modelled from how LinkManager uses it.                     *)
(***************************************************************************)
EXTENDS Naturals, Sequences, FiniteSets

CONSTANTS Clients,      \* fabrics that have the server as a peer
          BundleSizes,  \* how many messages an application bundle may have
          MaxMsgs,      \* bound: application messages per client
          MaxTopo,      \* bound: TOPO_REPs per client that report a change
          MaxDrops,     \* bound: lost connections per client
          MaxOpens,     \* bound: addPeer calls
          QueueCap      \* slots of the server's FABRIC_TO_CASSI queue

ASSUME ClientsAssumption == IsFiniteSet(Clients)
ASSUME BundleSizesAssumption == BundleSizes \subseteq Nat \ {0}
ASSUME BoundsAssumption == {MaxMsgs, MaxTopo, MaxDrops, MaxOpens, QueueCap} \subseteq Nat

VARIABLES
    \* RealtimeFabric, client side
    open,      \* an outBound entry with its REQ socket exists
    joined,    \* outBound.m_iServerId # 0: the peer is in m_pcOutBoundPeers
    task,      \* messages the running callback has still to pass to sendREQ
    made,      \* application messages created so far
    changes,   \* TOPO_REPs that reported a change so far
    opens,     \* addPeer calls so far
    \* MessageManager::socketEvent of the client's REQ socket
    m_bREQInProgress,
    m_iBundle,
    m_cQueue,  \* pending requests
    m_pcSendBlk,
    efsm,      \* LinkManager::send met ZeroMQ's EFSM
    \* ZeroMQ, client side
    zreq,      \* REQ state machine: "send" or "recv"
    pipe,      \* the request ZeroMQ holds and has not yet delivered
    up,        \* the TCP session is established
    monitor,   \* DISCONNECTED events the monitor socket has not delivered
    drops,     \* lost connections so far
    reply,     \* replies on their way to the client
    \* The server
    repIn,     \* requests received by the REP socket and not yet read
    repCur,    \* the request being read, part by part
    m_cFabricToCassi

fabric == <<open, joined, task, made, changes, opens>>
socket == <<m_bREQInProgress, m_iBundle, m_cQueue, m_pcSendBlk, efsm>>
zmq    == <<zreq, pipe, up, monitor, drops, reply>>
server == <<repIn, repCur, m_cFabricToCassi>>
vars   == <<fabric, socket, zmq, server>>

Kinds == {"JOIN_REQ", "TOPO_REQ", "SHIM_REQ"}

\* A message; num numbers the application's messages, 0 for the fabric's own.
Msg == [from : Clients, kind : Kinds, num : Nat, first : BOOLEAN, last : BOOLEAN]

Request == [parts : Seq(Msg) \ {<<>>}, alive : BOOLEAN]

\* repCur: "recv" waits for a request, "parts" reads one, "reply" owes its
\* reply.  A REP socket that owes a reply accepts no request from anyone.
Idle == [state |-> "recv", parts |-> <<>>, alive |-> FALSE]

Message(c, kind, num, last) ==
    [from |-> c, kind |-> kind, num |-> num, first |-> FALSE, last |-> last]

\* encodeJoinReq and the TOPO_REQ writer: single messages, bLast = true.
JoinReq(c) == Message(c, "JOIN_REQ", 0, TRUE)
TopoReq(c) == Message(c, "TOPO_REQ", 0, TRUE)

\* The k messages of a bundle that starts after message n.
Bundle(c, n, k) == [i \in 1..k |-> Message(c, "SHIM_REQ", n + i, i = k)]

Init ==
    /\ open = [c \in Clients |-> FALSE]
    /\ joined = [c \in Clients |-> FALSE]
    /\ task = [c \in Clients |-> <<>>]
    /\ made = [c \in Clients |-> 0]
    /\ changes = [c \in Clients |-> 0]
    /\ opens = 0
    /\ m_bREQInProgress = [c \in Clients |-> FALSE]
    /\ m_iBundle = [c \in Clients |-> "FIRST"]
    /\ m_cQueue = [c \in Clients |-> <<>>]
    /\ m_pcSendBlk = [c \in Clients |-> <<>>]
    /\ efsm = [c \in Clients |-> FALSE]
    /\ zreq = [c \in Clients |-> "send"]
    /\ pipe = [c \in Clients |-> <<>>]
    /\ up = [c \in Clients |-> FALSE]
    /\ monitor = [c \in Clients |-> 0]
    /\ drops = [c \in Clients |-> 0]
    /\ reply = [c \in Clients |-> <<>>]
    /\ repIn = [c \in Clients |-> <<>>]
    /\ repCur = Idle
    /\ m_cFabricToCassi = <<>>

-----------------------------------------------------------------------------
(* MessageManager and LinkManager *)

\* LinkManager::send: all the parts of the block go to the REQ socket as one
\* multi-part message; a socket that waits for a reply (z = "recv") refuses
\* with EFSM, and the part it was offered is gone from the block.
LinkSend(c, z, parts) ==
    IF z = "send"
    THEN /\ zreq' = [zreq EXCEPT ![c] = "recv"]
         /\ pipe' = [pipe EXCEPT ![c] = parts]
         /\ m_pcSendBlk' = [m_pcSendBlk EXCEPT ![c] = <<>>]
         /\ UNCHANGED efsm
    ELSE /\ efsm' = [efsm EXCEPT ![c] = TRUE]
         /\ m_pcSendBlk' = [m_pcSendBlk EXCEPT ![c] = Tail(parts)]
         /\ UNCHANGED <<zreq, pipe>>

\* Mutant: m_iBundle is not reset after the last message of a bundle.
sendREQKeepsBundle(c) ==
    /\ task[c] # <<>>
    /\ LET m == Head(task[c])
           e == [m EXCEPT !.first = (m_iBundle[c] = "FIRST")]
       IN  IF ~m_bREQInProgress[c] /\ m.last
           THEN /\ LinkSend(c, zreq[c], Append(m_pcSendBlk[c], e))
                /\ m_bREQInProgress' = [m_bREQInProgress EXCEPT ![c] = TRUE]
                /\ UNCHANGED m_cQueue
           ELSE /\ IF m_bREQInProgress[c]
                   THEN /\ m_cQueue' = [m_cQueue EXCEPT ![c] = Append(@, e)]
                        /\ UNCHANGED m_pcSendBlk
                   ELSE /\ m_pcSendBlk' = [m_pcSendBlk EXCEPT ![c] = Append(@, e)]
                        /\ UNCHANGED m_cQueue
                /\ UNCHANGED <<m_bREQInProgress, efsm, zreq, pipe>>
    /\ m_iBundle' = [m_iBundle EXCEPT ![c] = "MIDDLE"]
    /\ task' = [task EXCEPT ![c] = Tail(@)]
    /\ UNCHANGED <<open, joined, made, changes, opens, up, monitor, drops, reply, server>>

\* Mutant: messages before the last go to the send block even while a request
\* is in progress.
sendREQBlocksMiddle(c) ==
    /\ task[c] # <<>>
    /\ LET m == Head(task[c])
           e == [m EXCEPT !.first = (m_iBundle[c] = "FIRST")]
       IN  /\ IF m.last /\ ~m_bREQInProgress[c]
              THEN /\ LinkSend(c, zreq[c], Append(m_pcSendBlk[c], e))
                   /\ m_bREQInProgress' = [m_bREQInProgress EXCEPT ![c] = TRUE]
                   /\ UNCHANGED m_cQueue
              ELSE /\ IF m.last
                      THEN /\ m_cQueue' = [m_cQueue EXCEPT ![c] = Append(@, e)]
                           /\ UNCHANGED m_pcSendBlk
                      ELSE /\ m_pcSendBlk' = [m_pcSendBlk EXCEPT ![c] = Append(@, e)]
                           /\ UNCHANGED m_cQueue
                   /\ UNCHANGED <<m_bREQInProgress, efsm, zreq, pipe>>
           /\ m_iBundle' = [m_iBundle EXCEPT ![c] = IF m.last THEN "FIRST" ELSE "MIDDLE"]
    /\ task' = [task EXCEPT ![c] = Tail(@)]
    /\ UNCHANGED <<open, joined, made, changes, opens, up, monitor, drops, reply, server>>

\* MessageManager::sendREQ for the next message of the running callback.  With
\* no request in progress the message joins the send block, which goes out
\* with its last message; otherwise it waits in m_cQueue.
sendREQ(c) ==
    /\ task[c] # <<>>
    /\ LET m == Head(task[c])
           e == [m EXCEPT !.first = (m_iBundle[c] = "FIRST")]
       IN  /\ IF ~m_bREQInProgress[c]
              THEN /\ UNCHANGED m_cQueue
                   /\ IF m.last
                      THEN /\ LinkSend(c, zreq[c], Append(m_pcSendBlk[c], e))
                           /\ m_bREQInProgress' = [m_bREQInProgress EXCEPT ![c] = TRUE]
                      ELSE /\ m_pcSendBlk' = [m_pcSendBlk EXCEPT ![c] = Append(@, e)]
                           /\ UNCHANGED <<m_bREQInProgress, efsm, zreq, pipe>>
              ELSE /\ m_cQueue' = [m_cQueue EXCEPT ![c] = Append(@, e)]
                   /\ UNCHANGED <<m_bREQInProgress, m_pcSendBlk, efsm, zreq, pipe>>
           /\ m_iBundle' = [m_iBundle EXCEPT ![c] = IF m.last THEN "FIRST" ELSE "MIDDLE"]
    /\ task' = [task EXCEPT ![c] = Tail(@)]
    /\ UNCHANGED <<open, joined, made, changes, opens, up, monitor, drops, reply, server>>

\* How many entries unblockREQ moves: up to the first with the LAST flag, or
\* all of them (and the code aborts) when none has it.
BundleLength(q) ==
    CHOOSE n \in 1..Len(q) :
        /\ n = Len(q) \/ q[n].last
        /\ \A i \in 1..(n - 1) : ~q[i].last

\* MessageManager::unblockREQ with pending messages q, after the reply was
\* read (the REQ socket may send again): the next bundle goes out.
unblockREQ(c, q) ==
    LET n == BundleLength(q)
    IN  /\ LinkSend(c, "send", m_pcSendBlk[c] \o SubSeq(q, 1, n))
        /\ m_cQueue' = [m_cQueue EXCEPT ![c] = SubSeq(q, n + 1, Len(q))]
        /\ m_bREQInProgress' = [m_bREQInProgress EXCEPT ![c] = TRUE]

\* Mutant: the pending requests go out but the socket is marked free.
FinishReplyMarksFree(c, sends) ==
    LET q == m_cQueue[c] \o sends
    IN  /\ m_bREQInProgress' = [m_bREQInProgress EXCEPT ![c] = FALSE]
        /\ IF q # <<>>
           THEN LET n == BundleLength(q)
                IN  /\ LinkSend(c, "send", m_pcSendBlk[c] \o SubSeq(q, 1, n))
                    /\ m_cQueue' = [m_cQueue EXCEPT ![c] = SubSeq(q, n + 1, Len(q))]
           ELSE /\ zreq' = [zreq EXCEPT ![c] = "send"]
                /\ UNCHANGED <<m_cQueue, m_pcSendBlk, efsm, pipe>>

\* Mutant: a reply does not unblock the pending requests.
FinishReplyNoUnblock(c, sends) ==
    LET q == m_cQueue[c] \o sends
    IN  /\ m_cQueue' = [m_cQueue EXCEPT ![c] = q]
        /\ m_bREQInProgress' = [m_bREQInProgress EXCEPT ![c] = (q # <<>>)]
        /\ zreq' = [zreq EXCEPT ![c] = "send"]
        /\ UNCHANGED <<m_pcSendBlk, efsm, pipe>>

\* readEvent on the REQ socket after a callback that queued `sends`: with
\* pending requests the next one goes out, with none the socket is free.
FinishReply(c, sends) ==
    LET q == m_cQueue[c] \o sends
    IN  IF q # <<>>
        THEN unblockREQ(c, q)
        ELSE /\ m_bREQInProgress' = [m_bREQInProgress EXCEPT ![c] = FALSE]
             /\ zreq' = [zreq EXCEPT ![c] = "send"]
             /\ UNCHANGED <<m_cQueue, m_pcSendBlk, efsm, pipe>>

\* What a reply's callback does, then readEvent's FinishReply.  The request is
\* still in progress, so sendREQ queues what the callback sends.
QueuedTopoReq(c) == [TopoReq(c) EXCEPT !.first = TRUE]

\* processJoinRep records the server in m_pcOutBoundPeers; its addAdj sends the
\* topology, unless signalPeerChange finds the client's CASSI queue full.
processJoinRep(c) ==
    /\ Head(reply[c]) = "JOIN_REQ"
    /\ joined' = [joined EXCEPT ![c] = TRUE]
    /\ \E sends \in {<<QueuedTopoReq(c)>>, <<>>} : FinishReply(c, sends)
    /\ UNCHANGED changes

\* processTopoRep sends the topology again when the reply changed it.
processTopoRep(c) ==
    /\ Head(reply[c]) = "TOPO_REQ"
    /\ \/ /\ changes[c] < MaxTopo
          /\ changes' = [changes EXCEPT ![c] = @ + 1]
          /\ FinishReply(c, IF joined[c] THEN <<QueuedTopoReq(c)>> ELSE <<>>)
       \/ FinishReply(c, <<>>) /\ UNCHANGED changes
    /\ UNCHANGED joined

\* processShimRep has nothing to do for a positive answer.
processShimRep(c) ==
    /\ Head(reply[c]) = "SHIM_REQ"
    /\ FinishReply(c, <<>>)
    /\ UNCHANGED <<joined, changes>>

\* LinkManager::poll reads a reply, MessageManager::readEvent dispatches it.
ReadReply(c) ==
    /\ open[c] /\ task[c] = <<>> /\ reply[c] # <<>>
    /\ processJoinRep(c) \/ processTopoRep(c) \/ processShimRep(c)
    /\ reply' = [reply EXCEPT ![c] = Tail(@)]
    /\ UNCHANGED <<open, task, made, opens, m_iBundle, up, monitor, drops, server>>

-----------------------------------------------------------------------------
(* RealtimeFabric, client side *)

\* addPeer: a new REQ socket, connecting, and a JOIN_REQ.
addPeer(c) ==
    /\ ~open[c] /\ opens < MaxOpens
    /\ open' = [open EXCEPT ![c] = TRUE]
    /\ opens' = opens + 1
    /\ task' = [task EXCEPT ![c] = <<JoinReq(c)>>]
    /\ UNCHANGED <<joined, made, changes, socket, zmq, server>>

\* A request of c that the server still has will be answered to nobody.
Orphan(c) ==
    /\ repIn' = [repIn EXCEPT ![c] = [i \in DOMAIN @ |-> [@[i] EXCEPT !.alive = FALSE]]]
    /\ repCur' = IF repCur.parts # <<>> /\ repCur.parts[1].from = c
                 THEN [repCur EXCEPT !.alive = FALSE] ELSE repCur

\* MessageManager::close destroys the socket with everything it holds (linger
\* is 0); a later addReqSocket starts from a fresh socketEvent.
closeSocket(c) ==
    /\ m_bREQInProgress' = [m_bREQInProgress EXCEPT ![c] = FALSE]
    /\ m_iBundle' = [m_iBundle EXCEPT ![c] = "FIRST"]
    /\ m_cQueue' = [m_cQueue EXCEPT ![c] = <<>>]
    /\ m_pcSendBlk' = [m_pcSendBlk EXCEPT ![c] = <<>>]
    /\ zreq' = [zreq EXCEPT ![c] = "send"]
    /\ pipe' = [pipe EXCEPT ![c] = <<>>]
    /\ up' = [up EXCEPT ![c] = FALSE]
    /\ monitor' = [monitor EXCEPT ![c] = 0]
    /\ reply' = [reply EXCEPT ![c] = <<>>]
    /\ Orphan(c)
    /\ UNCHANGED <<efsm, drops, m_cFabricToCassi>>

\* delPeer: the peer leaves the maps and its socket is closed.
delPeer(c) ==
    /\ open[c] /\ task[c] = <<>>
    /\ open' = [open EXCEPT ![c] = FALSE]
    /\ joined' = [joined EXCEPT ![c] = FALSE]
    /\ closeSocket(c)
    /\ UNCHANGED <<task, made, changes, opens>>

\* consumeWorkItems: an envelope or a bundle command for a joined peer; each
\* of its messages is passed to sendREQ before the callback returns.
SendBundle(c) ==
    /\ open[c] /\ joined[c] /\ task[c] = <<>>
    /\ \E k \in BundleSizes :
          /\ made[c] + k <= MaxMsgs
          /\ task' = [task EXCEPT ![c] = Bundle(c, made[c], k)]
          /\ made' = [made EXCEPT ![c] = @ + k]
    /\ UNCHANGED <<open, joined, changes, opens, socket, zmq, server>>

\* Every pending request of the socket is dropped; m_bREQInProgress stays.
flushQ(c) == m_cQueue' = [m_cQueue EXCEPT ![c] = <<>>]

\* Mutant: the disconnect is not followed by rejoinReq.
disconnectNoRejoin(c) ==
    /\ task' = [task EXCEPT ![c] = IF joined[c] THEN <<TopoReq(c)>> ELSE <<>>]
    /\ joined' = [joined EXCEPT ![c] = FALSE]

\* rejoinReq: a JOIN_REQ on the socket the peer already has.
rejoinReq(c) == <<JoinReq(c)>>

\* RealtimeFabric::disconnect: delAdj sends the topology to the peers that are
\* still in m_pcOutBoundPeers (unless signalPeerChange fails), then the peer
\* leaves that map, and rejoinReq asks to join again.
disconnect(c) ==
    /\ \E topo \in {<<>>} \cup (IF joined[c] THEN {<<TopoReq(c)>>} ELSE {}) :
          task' = [task EXCEPT ![c] = topo \o rejoinReq(c)]
    /\ joined' = [joined EXCEPT ![c] = FALSE]

\* The monitor socket reports DISCONNECTED.
socketMonitorEvent(c) ==
    /\ monitor[c] > 0
    /\ monitor' = [monitor EXCEPT ![c] = @ - 1]

\* Mutant: the disconnect frees the socket without creating a new one.
disconnectedFrees(c) ==
    /\ open[c] /\ task[c] = <<>>
    /\ socketMonitorEvent(c)
    /\ m_bREQInProgress' = [m_bREQInProgress EXCEPT ![c] = FALSE]
    /\ flushQ(c)
    /\ disconnect(c)
    /\ UNCHANGED <<open, made, changes, opens, m_iBundle,
                   m_pcSendBlk, efsm, zreq, pipe, up, drops, reply, server>>

\* MessageManager::disconnected flushes the pending queue and tells the fabric.
disconnected(c) ==
    /\ open[c] /\ task[c] = <<>>
    /\ socketMonitorEvent(c)
    /\ flushQ(c)
    /\ disconnect(c)
    /\ UNCHANGED <<open, made, changes, opens, m_bREQInProgress, m_iBundle,
                   m_pcSendBlk, efsm, zreq, pipe, up, drops, reply, server>>

-----------------------------------------------------------------------------
(* ZeroMQ between the two fabrics *)

Connect(c) ==
    /\ open[c] /\ ~up[c]
    /\ up' = [up EXCEPT ![c] = TRUE]
    /\ UNCHANGED <<fabric, socket, zreq, pipe, monitor, drops, reply, server>>

\* The session dies: a reply on its way is lost, a request the server has may
\* still be served but its answer is dropped, or is lost too; a request that
\* ZeroMQ still holds waits for the next session.
Disconnect(c) ==
    /\ open[c] /\ up[c] /\ drops[c] < MaxDrops
    /\ up' = [up EXCEPT ![c] = FALSE]
    /\ drops' = [drops EXCEPT ![c] = @ + 1]
    /\ monitor' = [monitor EXCEPT ![c] = @ + 1]
    /\ reply' = [reply EXCEPT ![c] = <<>>]
    /\ \/ Orphan(c)
       \/ /\ repIn[c] # <<>>
          /\ repIn' = [repIn EXCEPT ![c] = <<>>]
          /\ UNCHANGED repCur
    /\ UNCHANGED <<fabric, socket, zreq, pipe, m_cFabricToCassi>>

\* The session delivers the request, all its parts at once.
Deliver(c) ==
    /\ up[c] /\ pipe[c] # <<>>
    /\ pipe' = [pipe EXCEPT ![c] = <<>>]
    /\ repIn' = [repIn EXCEPT ![c] = Append(@, [parts |-> pipe[c], alive |-> TRUE])]
    /\ UNCHANGED <<fabric, socket, zreq, up, monitor, drops, reply, repCur, m_cFabricToCassi>>

-----------------------------------------------------------------------------
(* The server fabric *)

\* The REP socket turns to the next request of some client.
RepRecv(c) ==
    /\ repCur.state = "recv" /\ repIn[c] # <<>>
    /\ repCur' = [state |-> "parts", parts |-> Head(repIn[c]).parts, alive |-> Head(repIn[c]).alive]
    /\ repIn' = [repIn EXCEPT ![c] = Tail(@)]
    /\ UNCHANGED <<fabric, socket, zmq, m_cFabricToCassi>>

\* The callback of one part.  The REP socket turns to the next part, and after
\* the last one owes its client a reply until one is sent.
Answer(m, answered) ==
    LET rest == Tail(repCur.parts)
    IN  /\ repCur' = IF rest # <<>> THEN [repCur EXCEPT !.parts = rest]
                     ELSE IF answered THEN Idle
                     ELSE [repCur EXCEPT !.state = "reply"]
        /\ reply' = IF answered /\ repCur.alive
                    THEN [reply EXCEPT ![m.from] = Append(@, m.kind)]
                    ELSE reply

\* processJoinReq and processTopoReq always answer.
processJoinReq(m) ==
    /\ m.kind = "JOIN_REQ"
    /\ Answer(m, TRUE)
    /\ UNCHANGED m_cFabricToCassi

processTopoReq(m) ==
    /\ m.kind = "TOPO_REQ"
    /\ Answer(m, TRUE)
    /\ UNCHANGED m_cFabricToCassi

\* Mutant: a full queue is not noticed.
processShimReqNoLimit(m) ==
    /\ m.kind = "SHIM_REQ"
    /\ m_cFabricToCassi' = Append(m_cFabricToCassi, m)
    /\ Answer(m, m.last)

\* Mutant: every part is answered, not only the last.
processShimReqAnswersAll(m) ==
    /\ m.kind = "SHIM_REQ"
    /\ m_cFabricToCassi' = Append(m_cFabricToCassi, m)
    /\ Answer(m, TRUE)

\* processShimReq queues the message for CASSI and answers the last part, but
\* a full queue makes it return before the answer.
processShimReq(m) ==
    /\ m.kind = "SHIM_REQ"
    /\ IF Len(m_cFabricToCassi) < QueueCap
       THEN /\ m_cFabricToCassi' = Append(m_cFabricToCassi, m)
            /\ Answer(m, m.last)
       ELSE /\ Answer(m, FALSE)
            /\ UNCHANGED m_cFabricToCassi

\* poll() hands one part to its callback.
RepPart ==
    /\ repCur.state = "parts"
    /\ LET m == Head(repCur.parts)
       IN  processJoinReq(m) \/ processTopoReq(m) \/ processShimReq(m)
    /\ UNCHANGED <<fabric, socket, zreq, pipe, up, monitor, drops, repIn>>

\* The server's CASSI thread takes a message.
CassiDequeue ==
    /\ m_cFabricToCassi # <<>>
    /\ m_cFabricToCassi' = Tail(m_cFabricToCassi)
    /\ UNCHANGED <<fabric, socket, zmq, repIn, repCur>>

-----------------------------------------------------------------------------
Next ==
    \/ \E c \in Clients :
          \/ addPeer(c) \/ delPeer(c) \/ SendBundle(c) \/ sendREQ(c)
          \/ ReadReply(c) \/ disconnected(c)
          \/ Connect(c) \/ Disconnect(c) \/ Deliver(c) \/ RepRecv(c)
    \/ RepPart
    \/ CassiDequeue

Spec == Init /\ [][Next]_vars

\* The fabric thread polls for ever and runs what is ready, ZeroMQ reconnects
\* and delivers, and the CASSI thread drains its queue; nothing obliges the
\* application to send or the network to fail.
Fairness ==
    /\ \A c \in Clients :
          /\ WF_vars(sendREQ(c))
          /\ WF_vars(ReadReply(c))
          /\ WF_vars(disconnected(c))
          /\ WF_vars(Connect(c))
          /\ WF_vars(Deliver(c))
          /\ SF_vars(RepRecv(c))
    /\ WF_vars(RepPart)
    /\ WF_vars(CassiDequeue)

FairSpec == Spec /\ Fairness

-----------------------------------------------------------------------------
(* Properties *)

RepStates == [state : {"recv", "parts", "reply"}, parts : Seq(Msg), alive : BOOLEAN]

\* Types: the FABRIC_TO_CASSI queue keeps to its capacity (processShimReq), and
\* a request that is being read has a part left.
TypeOK ==
    /\ open \in [Clients -> BOOLEAN] /\ joined \in [Clients -> BOOLEAN]
    /\ task \in [Clients -> Seq(Msg)]
    /\ made \in [Clients -> 0..MaxMsgs]
    /\ changes \in [Clients -> 0..MaxTopo]
    /\ opens \in 0..MaxOpens
    /\ m_bREQInProgress \in [Clients -> BOOLEAN]
    /\ m_iBundle \in [Clients -> {"FIRST", "MIDDLE"}]
    /\ m_cQueue \in [Clients -> Seq(Msg)]
    /\ m_pcSendBlk \in [Clients -> Seq(Msg)]
    /\ efsm \in [Clients -> BOOLEAN]
    /\ zreq \in [Clients -> {"send", "recv"}]
    /\ pipe \in [Clients -> Seq(Msg)]
    /\ up \in [Clients -> BOOLEAN]
    /\ monitor \in [Clients -> 0..MaxDrops]
    /\ drops \in [Clients -> 0..MaxDrops]
    /\ reply \in [Clients -> Seq(Kinds)]
    /\ repIn \in [Clients -> Seq(Request)]
    /\ repCur \in RepStates
    /\ repCur.state = "parts" => repCur.parts # <<>>
    /\ m_cFabricToCassi \in Seq(Msg) /\ Len(m_cFabricToCassi) <= QueueCap

\* LinkManager::send never offers a message to a REQ socket that waits for a
\* reply (the EFSM branch, which an EFSM_CAUSES_CRASH build turns into abort),
\* through lost sessions, flushed queues and re-created sockets.
NoEFSM == \A c \in Clients : ~efsm[c]

\* sendREQ's exception "Pending Queue is not empty and no REQ in progress!"
\* is never thrown.
PendingOnlyInProgress ==
    \A c \in Clients : m_cQueue[c] # <<>> => m_bREQInProgress[c]

\* Between callbacks the pending queue is a sequence of complete bundles and no
\* half-built bundle is left in the send block: unblockREQ never runs out of
\* queue before a LAST flag (its abort).
WholeBundles ==
    \A c \in Clients :
        task[c] = <<>> =>
            /\ m_pcSendBlk[c] = <<>>
            /\ m_iBundle[c] = "FIRST"
            /\ m_cQueue[c] # <<>> => m_cQueue[c][1].first /\ m_cQueue[c][Len(m_cQueue[c])].last
            /\ \A i \in 1..(Len(m_cQueue[c]) - 1) :
                  m_cQueue[c][i].last <=> m_cQueue[c][i + 1].first

\* The places where an unanswered request of c, or its answer, can be.
Outstanding(c) ==
    (IF pipe[c] # <<>> THEN 1 ELSE 0)
    + Cardinality({i \in DOMAIN repIn[c] : repIn[c][i].alive})
    + (IF repCur.state # "recv" /\ repCur.alive /\ repCur.parts[1].from = c THEN 1 ELSE 0)
    + Len(reply[c])

\* At most one request of a socket is under way, and none when MessageManager
\* believes the socket free (m_bREQInProgress false).
OneOutstanding ==
    \A c \in Clients : Outstanding(c) <= IF m_bREQInProgress[c] THEN 1 ELSE 0

\* CASSI sees the messages of a bundle next to one another, up to its last one,
\* and a client's messages in the order they were sent, although bundles of
\* several clients share one REP socket and wait in queues that disconnects
\* flush.  (Not every message: processShimReq drops the ones that find the
\* queue full, and a bundle whose last message finds room is answered all the
\* same.)
BundlesContiguous ==
    LET q == m_cFabricToCassi
    IN  /\ \A i \in 1..(Len(q) - 1) :
              ~q[i].last => q[i + 1].from = q[i].from /\ ~q[i + 1].first
        /\ \A i, j \in 1..Len(q) :
              i < j /\ q[i].from = q[j].from => q[i].num < q[j].num

\* The REP socket has read a request to its end and owes a reply that no
\* callback will send: processShimReq found the CASSI queue full.
Overloaded == repCur.state = "reply"

\* Every request is answered, and the next one of the socket goes out, as long
\* as the client's own connection holds; what becomes of the requests of other
\* clients, which share the REP socket and may lose their connections while
\* they are served, makes no difference.
RequestAnswered ==
    \A c \in Clients :
        m_bREQInProgress[c] ~> (~m_bREQInProgress[c] \/ drops[c] > 0 \/ Overloaded)

\* processShimReq answers also when the CASSI queue is full: "We will just post
\* negative ACKS to the queue as this will be the back pressure".
ServerAnswers == Overloaded ~> ~Overloaded

\* A peer lost while no request was in progress joins again (rejoinReq).
RejoinsWhenIdle ==
    \A c \in Clients :
        (monitor[c] > 0 /\ task[c] = <<>> /\ ~m_bREQInProgress[c])
            ~> ((monitor[c] = 0 /\ joined[c]) \/ ~open[c] \/ Overloaded)

\* A peer whose connection was lost joins again: rejoinReq "Sends a REQuest to
\* join the peer. This is done usually after a prior disconnect".
RejoinsAfterDisconnect ==
    \A c \in Clients :
        monitor[c] > 0 ~> ((monitor[c] = 0 /\ joined[c]) \/ ~open[c])
=============================================================================
