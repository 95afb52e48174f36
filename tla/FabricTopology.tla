--------------------------- MODULE FabricTopology ---------------------------
(***************************************************************************)
(* How fabrics learn the topology: RealtimeFabricMatrix.cxx and its users  *)
(* in RealtimeFabric.cxx.                                                  *)
(*                                                                         *)
(* Every fabric keeps a matrix: for each server it has heard of, a         *)
(* sequence number and the peers of that server.  A fabric changes its own *)
(* entry when a peer joins or is lost, counts the sequence number up and   *)
(* sends its whole matrix to its peers (TOPO_REQ); a peer merges what is   *)
(* newer and answers with its own matrix when the sender was behind.       *)
(*                                                                         *)
(* link[<<n, m>>] is n's request socket to m as module FabricLink          *)
(* describes it, with the message bodies that matter here: the queue of    *)
(* requests, of which the first is under way, and what became of it.       *)
(***************************************************************************)
EXTENDS Naturals, Sequences, FiniteSets

CONSTANTS Nodes,        \* the server ids
          Links,        \* pairs <<n, m>>: n may have m as a peer
          MaxOpens,     \* bound: addPeer calls
          MaxDrops,     \* bound: lost connections
          MaxRestarts,  \* bound: restarts of a fabric
          CassiFull     \* whether FABRIC_TO_CASSI is ever full: some of BOOLEAN

ASSUME LinksAssumption == Links \subseteq (Nodes \X Nodes)
ASSUME CassiFullAssumption == CassiFull \subseteq BOOLEAN
ASSUME BoundsAssumption == {MaxOpens, MaxDrops, MaxRestarts} \subseteq Nat

VARIABLES
    m_cTopology,        \* m_cPeersAdjs: [server -> [m_iSequence, m_cPeers]]
    m_pcOutBoundPeers,  \* the peers that have joined
    link,
    full,               \* whether FABRIC_TO_CASSI may be found full
    opens, drops, restarts

vars == <<m_cTopology, m_pcOutBoundPeers, link, full, opens, drops, restarts>>

Entry == [m_iSequence : Nat, m_cPeers : SUBSET Nodes]

IsMatrix(mat) == DOMAIN mat \subseteq Nodes /\ mat \in [DOMAIN mat -> Entry]

EmptyMatrix == [s \in {} |-> {}]

NewEntry == [m_iSequence |-> 0, m_cPeers |-> {}]

JoinReq == [kind |-> "JOIN", matrix |-> EmptyMatrix]
TopoReq(mat) == [kind |-> "TOPO", matrix |-> mat]

\* A request socket: "free", or the state of the first request in the queue:
\* "sent", "replied" (reply holds the answer), or "lost" with its session.
Closed == [open |-> FALSE, queue |-> <<>>, state |-> "free", reply |-> JoinReq, down |-> FALSE]

Init ==
    /\ m_cTopology = [n \in Nodes |-> EmptyMatrix]
    /\ m_pcOutBoundPeers = [n \in Nodes |-> {}]
    /\ link = [l \in Links |-> Closed]
    /\ full \in CassiFull
    /\ opens = 0 /\ drops = 0 /\ restarts = 0

-----------------------------------------------------------------------------
(* RealtimeFabricAdjMatrix *)

Own(me, mat) == IF me \in DOMAIN mat THEN mat[me] ELSE NewEntry

Put(mat, s, e) == [x \in DOMAIN mat \cup {s} |-> IF x = s THEN e ELSE mat[x]]

\* Mutant: addAdj starts the sequence again.
AddAdjRestarts(me, mat, peer) ==
    Put(mat, me, [m_iSequence |-> 1, m_cPeers |-> Own(me, mat).m_cPeers \cup {peer}])

\* RealtimeFabricAdjMatrix::addAdj
AddAdj(me, mat, peer) ==
    Put(mat, me, [m_iSequence |-> Own(me, mat).m_iSequence + 1,
                  m_cPeers |-> Own(me, mat).m_cPeers \cup {peer}])

\* Mutant: delAdj leaves the peer in the entry.
DelAdjKeepsPeer(me, mat, gone) ==
    Put(mat, me, [mat[me] EXCEPT !.m_iSequence = @ + 1])

\* Mutant: delAdj does not count the sequence up.
DelAdjSameSequence(me, mat, gone) ==
    Put(mat, me, [mat[me] EXCEPT !.m_cPeers = @ \ gone])

\* RealtimeFabricAdjMatrix::delAdj, for a fabric with an entry of its own; gone
\* is empty for a peer that had not joined (server id 0).
DelAdj(me, mat, gone) ==
    Put(mat, me, [m_iSequence |-> mat[me].m_iSequence + 1,
                  m_cPeers |-> mat[me].m_cPeers \ gone])

\* Mutant: processJSON takes over only entries it does not have.
MergedMissingOnly(me, mat, in) ==
    [s \in DOMAIN mat \cup DOMAIN in |-> IF s \in DOMAIN mat THEN mat[s] ELSE in[s]]

\* processJSON: entries that are missing or newer are taken over; an entry of
\* its own that is newer than what it has makes the fabric count past it.
Merged(me, mat, in) ==
    [s \in DOMAIN mat \cup DOMAIN in |->
        IF s \notin DOMAIN in THEN mat[s]
        ELSE IF s = me
        THEN IF in[s].m_iSequence > Own(me, mat).m_iSequence
             THEN [Own(me, mat) EXCEPT !.m_iSequence = in[s].m_iSequence + 1]
             ELSE Own(me, mat)
        ELSE IF s \notin DOMAIN mat \/ in[s].m_iSequence > mat[s].m_iSequence
        THEN in[s]
        ELSE mat[s]]

\* Mutant: an entry that is not newer is reported as a change.
ChangeAppliedIfEqual(me, mat, in) ==
    \/ me \in DOMAIN in /\ in[me].m_iSequence # Own(me, mat).m_iSequence
    \/ \E s \in (DOMAIN in \cap DOMAIN mat) \ {me} :
          in[s].m_iSequence <= mat[s].m_iSequence

\* bChangeApplied of processJSON.
ChangeApplied(me, mat, in) ==
    \/ me \in DOMAIN in /\ in[me].m_iSequence # Own(me, mat).m_iSequence
    \/ \E s \in (DOMAIN in \cap DOMAIN mat) \ {me} :
          in[s].m_iSequence < mat[s].m_iSequence

-----------------------------------------------------------------------------
(* MessageManager, for the links L *)

\* sendREQ
Send(L, l, req) ==
    [L EXCEPT ![l].queue = Append(@, req),
              ![l].state = IF @ = "free" THEN "sent" ELSE @]

\* sendOutTopoReq to each of the peers
SendOutTopoReq(L, n, peers, mat) ==
    [l \in Links |-> IF l[1] = n /\ l[2] \in peers
                     THEN Send(L, l, TopoReq(mat))[l] ELSE L[l]]

\* Mutant: the socket is free after every reply.
FinishFree(L, l) ==
    [L EXCEPT ![l].queue = Tail(@), ![l].reply = JoinReq, ![l].state = "free"]

\* readEvent, after the callback of a reply: the next request goes out.
Finish(L, l) ==
    [L EXCEPT ![l].queue = Tail(@),
              ![l].reply = JoinReq,
              ![l].state = IF Len(L[l].queue) = 1 THEN "free" ELSE "sent"]

\* signalPeerChange fails when the CASSI queue is full; addAdj and delAdj then
\* return before they send the topology.
Notified == IF full THEN BOOLEAN ELSE {TRUE}

-----------------------------------------------------------------------------
(* RealtimeFabric *)

\* addPeer: a request socket and a JOIN_REQ.
addPeer(l) ==
    /\ ~link[l].open /\ opens < MaxOpens
    /\ opens' = opens + 1
    /\ link' = Send([link EXCEPT ![l].open = TRUE], l, JoinReq)
    /\ UNCHANGED <<m_cTopology, m_pcOutBoundPeers, full, drops, restarts>>

\* processJoinReq at l[2]: it answers.
processJoinReq(l) ==
    /\ link[l].state = "sent" /\ Head(link[l].queue).kind = "JOIN"
    /\ link' = [link EXCEPT ![l].state = "replied", ![l].reply = JoinReq]
    /\ UNCHANGED <<m_cTopology, m_pcOutBoundPeers, full, opens, drops, restarts>>

\* processTopoReq at l[2]: it merges, and answers with its own matrix when the
\* request was behind, with the request's matrix otherwise.
processTopoReq(l) ==
    LET me == l[2]
        in == Head(link[l].queue).matrix
        new == Merged(me, m_cTopology[me], in)
    IN  /\ link[l].state = "sent" /\ Head(link[l].queue).kind = "TOPO"
        /\ m_cTopology' = [m_cTopology EXCEPT ![me] = new]
        /\ link' = [link EXCEPT ![l].state = "replied",
                       ![l].reply = TopoReq(IF ChangeApplied(me, m_cTopology[me], in)
                                            THEN new ELSE in)]
        /\ UNCHANGED <<m_pcOutBoundPeers, full, opens, drops, restarts>>

\* processJoinRep at l[1]: the peer has joined, addAdj tells everyone.
processJoinRep(l) ==
    LET n == l[1]
        new == AddAdj(n, m_cTopology[n], l[2])
        peers == m_pcOutBoundPeers[n] \cup {l[2]}
    IN  /\ link[l].state = "replied" /\ link[l].reply.kind = "JOIN"
        /\ m_pcOutBoundPeers' = [m_pcOutBoundPeers EXCEPT ![n] = peers]
        /\ m_cTopology' = [m_cTopology EXCEPT ![n] = new]
        /\ \E b \in Notified :
              link' = Finish(IF b THEN SendOutTopoReq(link, n, peers, new) ELSE link, l)
        /\ UNCHANGED <<full, opens, drops, restarts>>

\* processTopoRep at l[1]: it merges the answer and sends its matrix again
\* when processJSON reports a change.
processTopoRep(l) ==
    LET n == l[1]
        in == link[l].reply.matrix
        new == Merged(n, m_cTopology[n], in)
    IN  /\ link[l].state = "replied" /\ link[l].reply.kind = "TOPO"
        /\ m_cTopology' = [m_cTopology EXCEPT ![n] = new]
        /\ link' = Finish(IF ChangeApplied(n, m_cTopology[n], in)
                          THEN SendOutTopoReq(link, n, m_pcOutBoundPeers[n], new)
                          ELSE link, l)
        /\ UNCHANGED <<m_pcOutBoundPeers, full, opens, drops, restarts>>

\* delAdj(l[2]): the matrix after it, and the links L after it told the peers
\* in `tell`; a fabric without an entry of its own has nothing to do.
DelAdjTopology(l) ==
    LET n == l[1]
    IN  IF n \in DOMAIN m_cTopology[n]
        THEN DelAdj(n, m_cTopology[n], {l[2]} \cap m_pcOutBoundPeers[n])
        ELSE m_cTopology[n]

DelAdjLinks(l, L, tell) ==
    LET n == l[1]
    IN  {IF n \in DOMAIN m_cTopology[n] /\ b
         THEN SendOutTopoReq(L, n, tell, DelAdjTopology(l)) ELSE L : b \in Notified}

\* delPeer: the peer leaves the map, the socket is closed, and delAdj tells
\* the peers that are left.
delPeer(l) ==
    LET left == m_pcOutBoundPeers[l[1]] \ {l[2]}
    IN  /\ link[l].open
        /\ m_pcOutBoundPeers' = [m_pcOutBoundPeers EXCEPT ![l[1]] = left]
        /\ m_cTopology' = [m_cTopology EXCEPT ![l[1]] = DelAdjTopology(l)]
        /\ link' \in DelAdjLinks(l, [link EXCEPT ![l] = Closed], left)
        /\ UNCHANGED <<full, opens, drops, restarts>>

\* The sockets of a set of links after their session is lost.  A request that
\* left the socket, or its reply, is lost for good; one that ZeroMQ still
\* holds (kept) waits for the next session.
Broken(S, kept) ==
    [l \in Links |->
        IF l \notin S THEN link[l]
        ELSE [link[l] EXCEPT !.down = TRUE,
                 !.state = IF @ = "free" \/ (@ = "sent" /\ l \in kept) THEN @ ELSE "lost"]]

Lose(l) ==
    /\ link[l].open /\ drops < MaxDrops
    /\ drops' = drops + 1
    /\ \E kept \in SUBSET {l} : link' = Broken({l}, kept)
    /\ UNCHANGED <<m_cTopology, m_pcOutBoundPeers, full, opens, restarts>>

\* disconnect, after MessageManager has flushed the pending requests: delAdj
\* tells the peers, the lost one still among them, the peer leaves the map and
\* rejoinReq sends a JOIN_REQ.
disconnect(l) ==
    LET first == IF link[l].state = "free" THEN <<>> ELSE <<Head(link[l].queue)>>
        flushed == [link EXCEPT ![l].down = FALSE, ![l].queue = first]
    IN  /\ link[l].down
        /\ m_pcOutBoundPeers' = [m_pcOutBoundPeers EXCEPT ![l[1]] = @ \ {l[2]}]
        /\ m_cTopology' = [m_cTopology EXCEPT ![l[1]] = DelAdjTopology(l)]
        /\ \E L \in DelAdjLinks(l, flushed, m_pcOutBoundPeers[l[1]]) :
              link' = Send(L, l, JoinReq)
        /\ UNCHANGED <<full, opens, drops, restarts>>

\* A fabric restarts with its configured server id and an empty matrix; the
\* sessions to it and from it are lost.
Restart(n) ==
    /\ restarts < MaxRestarts
    /\ restarts' = restarts + 1
    /\ m_cTopology' = [m_cTopology EXCEPT ![n] = EmptyMatrix]
    /\ m_pcOutBoundPeers' = [m_pcOutBoundPeers EXCEPT ![n] = {}]
    /\ LET to == {l \in Links : l[2] = n /\ link[l].open}
       IN  \E kept \in SUBSET to :
              link' = [l \in Links |-> IF l[1] = n THEN Closed ELSE Broken(to, kept)[l]]
    /\ UNCHANGED <<full, opens, drops>>

-----------------------------------------------------------------------------
\* What the fabrics do by themselves.
Serve(l) == processJoinReq(l) \/ processTopoReq(l)
ReadReply(l) == processJoinRep(l) \/ processTopoRep(l)

Next ==
    \/ \E l \in Links : addPeer(l) \/ delPeer(l) \/ Serve(l) \/ ReadReply(l)
                        \/ Lose(l) \/ disconnect(l)

Spec == Init /\ [][Next]_vars

\* Fabrics that may also restart.
RestartSpec == Init /\ [][Next \/ \E n \in Nodes : Restart(n)]_vars

\* The fabric threads poll for ever and ZeroMQ serves every client in turn.
FairSpec ==
    /\ Spec
    /\ \A l \in Links :
          WF_vars(Serve(l)) /\ WF_vars(ReadReply(l)) /\ WF_vars(disconnect(l))

-----------------------------------------------------------------------------
(* Properties *)

IsMessage(m) == m.kind \in {"JOIN", "TOPO"} /\ IsMatrix(m.matrix)

IsLink(k) ==
    /\ k.open \in BOOLEAN /\ k.down \in BOOLEAN
    /\ k.state \in {"free", "sent", "replied", "lost"}
    /\ \A i \in DOMAIN k.queue : IsMessage(k.queue[i])
    /\ IsMessage(k.reply)
    /\ (k.state = "free") <=> (k.queue = <<>>)
    /\ ~k.open => k = Closed

\* Types: a request socket is free exactly when it has no request (sendREQ,
\* readEvent), and a closed one holds nothing (delPeer).
TypeOK ==
    /\ \A n \in Nodes : IsMatrix(m_cTopology[n])
    /\ m_pcOutBoundPeers \in [Nodes -> SUBSET Nodes]
    /\ \A l \in Links : IsLink(link[l])
    /\ full \in CassiFull
    /\ opens \in 0..MaxOpens /\ drops \in 0..MaxDrops /\ restarts \in 0..MaxRestarts

\* The matrices that exist somewhere: kept, sent or answered.
Matrices ==
    {m_cTopology[n] : n \in Nodes}
    \cup (UNION {{link[l].queue[i].matrix : i \in DOMAIN link[l].queue} : l \in Links})
    \cup {link[l].reply.matrix : l \in Links}

\* A fabric's own entry is what its outbound map says, at every moment and
\* also after it adopted a sequence number from a peer.
OwnEntryIsCurrent ==
    \A n \in Nodes : Own(n, m_cTopology[n]).m_cPeers = m_pcOutBoundPeers[n]

\* Nobody is ahead of a fabric about that fabric's own peers.
OwnerIsNewest ==
    \A mat \in Matrices : \A s \in DOMAIN mat :
        mat[s].m_iSequence <= Own(s, m_cTopology[s]).m_iSequence

\* The sequence number protocol of RealtimeFabricSparseAdj::equals: "if equal
\* we can assume no change".
EqualSequenceNoChange ==
    \A a, b \in Matrices : \A s \in DOMAIN a \cap DOMAIN b :
        a[s].m_iSequence = b[s].m_iSequence => a[s] = b[s]

\* The fabrics stop talking once nothing changes: merging and answering does
\* not go round for ever.
GossipStops ==
    <>[](\A l \in Links : link[l].queue = <<>> \/ link[l].state = "lost")

\* A peer learns its neighbour's final entry, unless a full CASSI queue kept
\* addAdj or delAdj from sending it.
PeersLearn ==
    \A l \in Links :
        <>[](~full /\ l[2] \in m_pcOutBoundPeers[l[1]] =>
                /\ l[1] \in DOMAIN m_cTopology[l[2]]
                /\ m_cTopology[l[2]][l[1]] = m_cTopology[l[1]][l[1]])
=============================================================================
