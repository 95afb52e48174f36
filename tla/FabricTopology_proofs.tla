------------------------ MODULE FabricTopology_proofs ------------------------
(***************************************************************************)
(* The topology gossip, for any fabrics and links, any number of peers     *)
(* that are added, removed and lost, and as long as no fabric restarts     *)
(* (after a restart the protocol does go wrong, see MCTopoEqual.cfg).      *)
(*                                                                         *)
(* The argument: a merge only copies entries that some matrix already has, *)
(* and only addAdj and delAdj make a new one, at the fabric the entry is   *)
(* about and with a sequence number that no matrix has yet.  For that the  *)
(* owner has to be at least as new as everybody else (OwnerIsNewest), and  *)
(* to know its own entry as soon as anybody does (OwnerKnows): otherwise   *)
(* the count it adopts from a peer would make a second entry of a sequence *)
(* number that is in use.                                                  *)
(*                                                                         *)
(* The last part is the safety half of PeersLearn: what a peer should know *)
(* it knows, or a request that will tell it is on the way (PeersTold).     *)
(***************************************************************************)
EXTENDS FabricTopology, SequenceTheorems, TLAPS

-----------------------------------------------------------------------------
(* Request sockets *)

Matrix == UNION {[D -> Entry] : D \in SUBSET Nodes}

Message == [kind : {"JOIN", "TOPO"}, matrix : Matrix]

Socket == [open : BOOLEAN, queue : Seq(Message), state : {"free", "sent", "replied", "lost"},
           reply : Message, down : BOOLEAN]

\* The sockets L are well formed: free exactly without a request, empty when
\* closed.
Sockets(L) ==
    /\ L \in [Links -> Socket]
    /\ \A l \in Links :
         /\ L[l].state = "free" <=> L[l].queue = <<>>
         /\ ~L[l].open => L[l] = Closed

\* A matrix travels on a socket, in a request or in a reply.
Held(k, mat) ==
    \/ \E i \in 1..Len(k.queue) : k.queue[i].matrix = mat
    \/ k.reply.matrix = mat

\* Types of matrices, messages and closed sockets.
LEMMA MatrixFacts ==
  /\ \A mat : mat \in Matrix <=> IsMatrix(mat)
  /\ EmptyMatrix \in Matrix /\ DOMAIN EmptyMatrix = {}
  /\ JoinReq \in Message /\ JoinReq.matrix = EmptyMatrix /\ JoinReq.kind = "JOIN"
  /\ Closed \in Socket /\ Closed.state = "free" /\ Closed.queue = <<>> /\ ~Closed.open
  /\ \A mat \in Matrix : TopoReq(mat) \in Message /\ TopoReq(mat).matrix = mat
  <1>1. \A mat : mat \in Matrix <=> IsMatrix(mat)
    <2>1. ASSUME NEW mat, mat \in Matrix PROVE IsMatrix(mat)
      BY <2>1 DEF Matrix, IsMatrix
    <2>2. ASSUME NEW mat, IsMatrix(mat) PROVE mat \in Matrix
      BY <2>2 DEF Matrix, IsMatrix
    <2>3. QED  BY <2>1, <2>2
  <1>2. EmptyMatrix \in Matrix /\ DOMAIN EmptyMatrix = {}
    BY DEF EmptyMatrix, Matrix
  <1>3. JoinReq \in Message /\ JoinReq.matrix = EmptyMatrix /\ JoinReq.kind = "JOIN"
    BY <1>2 DEF JoinReq, Message
  <1>4. Closed \in Socket /\ Closed.state = "free" /\ Closed.queue = <<>> /\ ~Closed.open
    BY <1>3 DEF Closed, Socket
  <1>5. \A mat \in Matrix : TopoReq(mat) \in Message /\ TopoReq(mat).matrix = mat
    BY DEF TopoReq, Message
  <1>6. QED  BY <1>1, <1>2, <1>3, <1>4, <1>5

\* sendREQ to an open socket.
LEMMA SendSockets ==
  ASSUME NEW L, Sockets(L), NEW l \in Links, L[l].open, NEW m \in Message
  PROVE  /\ Sockets(Send(L, l, m))
         /\ Send(L, l, m)[l].open
         /\ \A k \in Links : k # l => Send(L, l, m)[k] = L[k]
         /\ \A mat : Held(Send(L, l, m)[l], mat) => Held(L[l], mat) \/ mat = m.matrix
  <1> DEFINE S == Send(L, l, m)
             q == L[l].queue
  <1>1. L[l] \in Socket /\ q \in Seq(Message)
    BY DEF Sockets, Socket
  <1>2. S[l] = [L[l] EXCEPT !.queue = Append(q, m),
                            !.state = IF L[l].state = "free" THEN "sent" ELSE L[l].state]
    BY <1>1 DEF Send, Sockets, Socket
  <1>3. /\ S \in [Links -> Socket]
        /\ \A k \in Links : k # l => S[k] = L[k]
    <2>0. \A Q \in Seq(Message), st \in {"free", "sent", "replied", "lost"} :
             [L[l] EXCEPT !.queue = Q, !.state = st] \in Socket
      BY <1>1 DEF Socket
    <2>1. S[l] \in Socket
      <3>1. Append(q, m) \in Seq(Message)
        BY <1>1
      <3>2. (IF L[l].state = "free" THEN "sent" ELSE L[l].state) \in {"free", "sent", "replied", "lost"}
        BY <1>1 DEF Socket
      <3> HIDE DEF q, S
      <3>3. QED  BY <1>2, <2>0, <3>1, <3>2
    <2>2. S = [L EXCEPT ![l] = S[l]]
      BY <1>1 DEF Send, Sockets
    <2>3. QED  BY <2>1, <2>2 DEF Sockets
  <1>4. /\ S[l].queue = Append(q, m) /\ S[l].reply = L[l].reply
        /\ S[l].open = L[l].open /\ S[l].state # "free"
    BY <1>1, <1>2 DEF Socket
  <1>5. Append(q, m) # <<>> /\ Len(Append(q, m)) = Len(q) + 1
        /\ \A i \in 1..(Len(q) + 1) : Append(q, m)[i] = IF i = Len(q) + 1 THEN m ELSE q[i]
    BY <1>1
  <1>6. Sockets(S)
    BY <1>3, <1>4, <1>5 DEF Sockets
  <1>7. ASSUME NEW mat, Held(S[l], mat) PROVE Held(L[l], mat) \/ mat = m.matrix
    BY <1>1, <1>4, <1>5, <1>7 DEF Held
  <1>8. QED  BY <1>3, <1>4, <1>6, <1>7

\* sendOutTopoReq to peers whose sockets are open.
LEMMA SendOutSockets ==
  ASSUME NEW L, Sockets(L), NEW n \in Nodes, NEW peers, NEW mat \in Matrix,
         \A l \in Links : l[1] = n /\ l[2] \in peers => L[l].open
  PROVE  /\ Sockets(SendOutTopoReq(L, n, peers, mat))
         /\ \A l \in Links : SendOutTopoReq(L, n, peers, mat)[l].open = L[l].open
         /\ \A l \in Links : \A x :
              Held(SendOutTopoReq(L, n, peers, mat)[l], x) => Held(L[l], x) \/ x = mat
         /\ \A l \in Links : L[l].queue # <<>> =>
              /\ SendOutTopoReq(L, n, peers, mat)[l].queue # <<>>
              /\ Head(SendOutTopoReq(L, n, peers, mat)[l].queue) = Head(L[l].queue)
  <1> DEFINE S == SendOutTopoReq(L, n, peers, mat)
             m == TopoReq(mat)
  <1>1. m \in Message /\ m.matrix = mat
    BY MatrixFacts
  <1>2. ASSUME NEW l \in Links
        PROVE  S[l] = L[l] \/ (S[l] = Send(L, l, m)[l] /\ L[l].open)
    BY DEF SendOutTopoReq
  <1>3. ASSUME NEW l \in Links
        PROVE  /\ S[l] \in Socket
               /\ S[l].state = "free" <=> S[l].queue = <<>>
               /\ ~S[l].open => S[l] = Closed
               /\ S[l].open = L[l].open
               /\ \A x : Held(S[l], x) => Held(L[l], x) \/ x = mat
    <2>1. CASE S[l] = L[l]
      BY <2>1 DEF Sockets
    <2>2. CASE S[l] = Send(L, l, m)[l] /\ L[l].open
      <3>1. /\ Sockets(Send(L, l, m)) /\ Send(L, l, m)[l].open
            /\ \A x : Held(Send(L, l, m)[l], x) => Held(L[l], x) \/ x = m.matrix
        BY <1>1, <2>2, SendSockets
      <3>2. /\ Send(L, l, m)[l] \in Socket
            /\ Send(L, l, m)[l].state = "free" <=> Send(L, l, m)[l].queue = <<>>
        BY <3>1 DEF Sockets
      <3>3. L[l].open = TRUE /\ Send(L, l, m)[l].open = TRUE
        BY <2>2, <3>1, <3>2 DEF Sockets, Socket
      <3>4. QED  BY <1>1, <2>2, <3>1, <3>2, <3>3
    <2>3. QED  BY <1>2, <2>1, <2>2
  <1>4. ASSUME NEW l \in Links, L[l].queue # <<>>
        PROVE  S[l].queue # <<>> /\ Head(S[l].queue) = Head(L[l].queue)
    <2>1. L[l].queue \in Seq(Message)
      BY DEF Sockets, Socket
    <2>2. CASE S[l] = L[l]
      BY <1>4, <2>2
    <2>3. CASE S[l] = Send(L, l, m)[l] /\ L[l].open
      <3>1. S[l].queue = Append(L[l].queue, m)
        BY <2>3 DEF Send, Sockets, Socket
      <3>2. QED  BY <1>1, <1>4, <2>1, <3>1
    <2>4. QED  BY <1>2, <2>2, <2>3
  <1>5. S \in [Links -> Socket]
    BY <1>3 DEF SendOutTopoReq
  <1>6. Sockets(S)
    BY <1>3, <1>5 DEF Sockets
  <1> QED  BY <1>3, <1>4, <1>6

\* readEvent after a reply.
LEMMA FinishSockets ==
  ASSUME NEW L, Sockets(L), NEW l \in Links, L[l].state # "free"
  PROVE  /\ Sockets(Finish(L, l))
         /\ \A k \in Links : Finish(L, l)[k].open = L[k].open
         /\ \A k \in Links : \A x : Held(Finish(L, l)[k], x) => Held(L[k], x) \/ x = EmptyMatrix
  <1> DEFINE S == Finish(L, l)
             q == L[l].queue
  <1>1. L[l] \in Socket /\ q \in Seq(Message) /\ q # <<>> /\ L[l].open
    BY MatrixFacts DEF Sockets, Socket
  <1>2. /\ Tail(q) \in Seq(Message) /\ Len(Tail(q)) = Len(q) - 1 /\ Len(q) \in Nat \ {0}
        /\ \A i \in 1..Len(Tail(q)) : Tail(q)[i] = q[i + 1]
        /\ Tail(q) = <<>> <=> Len(q) = 1
    <2>1. /\ Tail(q) \in Seq(Message) /\ Len(Tail(q)) = Len(q) - 1
          /\ \A i \in 1..Len(Tail(q)) : Tail(q)[i] = q[i + 1]
      BY <1>1
    <2>2. Len(q) \in Nat \ {0}
      BY <1>1, EmptySeq
    <2>3. Tail(q) = <<>> <=> Len(Tail(q)) = 0
      BY <2>1, EmptySeq
    <2>4. QED  BY <2>1, <2>2, <2>3
  <1>3. /\ S \in [Links -> Socket]
        /\ \A k \in Links : k # l => S[k] = L[k]
    BY <1>1, <1>2, MatrixFacts DEF Finish, Sockets, Socket
  <1>4. /\ S[l].queue = Tail(q) /\ S[l].reply = JoinReq /\ S[l].open = L[l].open
        /\ S[l].state = IF Len(q) = 1 THEN "free" ELSE "sent"
    BY <1>1 DEF Finish, Sockets, Socket
  <1>5. Sockets(S)
    BY <1>1, <1>2, <1>3, <1>4 DEF Sockets
  <1>6. ASSUME NEW x, Held(S[l], x) PROVE Held(L[l], x) \/ x = EmptyMatrix
    <2>1. CASE S[l].reply.matrix = x
      BY <1>4, <2>1, MatrixFacts
    <2>2. CASE \E i \in 1..Len(S[l].queue) : S[l].queue[i].matrix = x
      <3>1. PICK i \in 1..Len(Tail(q)) : Tail(q)[i].matrix = x
        BY <1>4, <2>2
      <3>2. i + 1 \in 1..Len(q) /\ q[i + 1].matrix = x
        BY <1>2, <3>1
      <3>3. QED  BY <3>2 DEF Held
    <2>3. QED  BY <1>6, <2>1, <2>2 DEF Held
  <1>7. QED  BY <1>3, <1>4, <1>5, <1>6

-----------------------------------------------------------------------------
(* Matrices *)

\* Whoever is described in some matrix knows its own entry.
OwnerKnows == \A mat \in Matrices : \A s \in DOMAIN mat : s \in DOMAIN m_cTopology[s]

History == OwnerKnows /\ OwnerIsNewest /\ EqualSequenceNoChange

\* A joined peer has an open socket.
PeersOpen == \A l \in Links : l[2] \in m_pcOutBoundPeers[l[1]] => link[l].open

TopoType ==
    /\ m_cTopology \in [Nodes -> Matrix]
    /\ m_pcOutBoundPeers \in [Nodes -> SUBSET Nodes]
    /\ Sockets(link)
    /\ full \in CassiFull
    /\ opens \in 0..MaxOpens /\ drops \in 0..MaxDrops /\ restarts \in 0..MaxRestarts

TopoInv == TopoType /\ PeersOpen /\ OwnEntryIsCurrent /\ History

\* The ends of a link.
LEMMA LinkEnds ==
  /\ \A l \in Links : l[1] \in Nodes /\ l[2] \in Nodes
  /\ \A l, k \in Links : l[1] = k[1] /\ l[2] = k[2] => l = k
  BY LinksAssumption

\* Matrices is what fabrics keep and sockets hold.
LEMMA MatricesAre ==
  ASSUME Sockets(link), NEW mat
  PROVE  mat \in Matrices <=>
            (\E n \in Nodes : m_cTopology[n] = mat) \/ (\E l \in Links : Held(link[l], mat))
  <1>1. \A l \in Links : DOMAIN link[l].queue = 1..Len(link[l].queue)
    BY DEF Sockets, Socket
  <1>2. mat \in Matrices <=>
          \/ \E n \in Nodes : m_cTopology[n] = mat
          \/ \E l \in Links : \E i \in DOMAIN link[l].queue : link[l].queue[i].matrix = mat
          \/ \E l \in Links : link[l].reply.matrix = mat
    <2> DEFINE A == {m_cTopology[n] : n \in Nodes}
               B == UNION {{link[l].queue[i].matrix : i \in DOMAIN link[l].queue} : l \in Links}
               C == {link[l].reply.matrix : l \in Links}
    <2>0. Matrices = A \cup B \cup C
      BY DEF Matrices
    <2>1. mat \in A <=> \E n \in Nodes : m_cTopology[n] = mat
      OBVIOUS
    <2>2. mat \in B <=>
            \E l \in Links : \E i \in DOMAIN link[l].queue : link[l].queue[i].matrix = mat
      OBVIOUS
    <2>3. mat \in C <=> \E l \in Links : link[l].reply.matrix = mat
      OBVIOUS
    <2> HIDE DEF A, B, C
    <2>4. mat \in Matrices <=> mat \in A \/ mat \in B \/ mat \in C
      BY <2>0
    <2>5. QED  BY <2>1, <2>2, <2>3, <2>4, Zenon
  <1>3. QED  BY <1>1, <1>2 DEF Held

\* An entry of a matrix.
LEMMA MatrixEntry ==
  ASSUME NEW mat \in Matrix
  PROVE  /\ DOMAIN mat \subseteq Nodes
         /\ \A s \in DOMAIN mat : /\ mat[s] \in Entry /\ mat[s].m_iSequence \in Nat
                                  /\ mat[s].m_cPeers \in SUBSET Nodes
         /\ \A s : Own(s, mat) \in Entry /\ Own(s, mat).m_iSequence \in Nat
  BY DEF Matrix, Entry, Own, NewEntry

\* Whatever a fabric or a message holds is a matrix.
LEMMA MatricesType ==
  ASSUME TopoType
  PROVE  Matrices \subseteq Matrix
  <1> SUFFICES ASSUME NEW mat \in Matrices PROVE mat \in Matrix
    OBVIOUS
  <1>1. CASE \E n \in Nodes : m_cTopology[n] = mat
    BY <1>1 DEF TopoType
  <1>2. CASE \E l \in Links : Held(link[l], mat)
    <2>1. PICK l \in Links : Held(link[l], mat)
      BY <1>2
    <2>2. link[l].queue \in Seq(Message) /\ link[l].reply \in Message
      BY DEF TopoType, Sockets, Socket
    <2>3. \A i \in 1..Len(link[l].queue) : link[l].queue[i] \in Message
      BY <2>2
    <2>4. QED  BY <2>1, <2>2, <2>3 DEF Held, Message
  <1>3. QED  BY <1>1, <1>2, MatricesAre DEF TopoType

\* After a step of fabric n, what exists is what existed and n's new matrix.
LEMMA MatricesStep ==
  ASSUME TopoType, Sockets(link)', NEW n \in Nodes, NEW new,
         m_cTopology' = [m_cTopology EXCEPT ![n] = new],
         \A l \in Links : \A x : Held(link'[l], x) => x \in Matrices \cup {new, EmptyMatrix}
  PROVE  Matrices' \subseteq Matrices \cup {new, EmptyMatrix}
  <1> SUFFICES ASSUME NEW mat \in Matrices' PROVE mat \in Matrices \cup {new, EmptyMatrix}
    OBVIOUS
  <1>1. (\E k \in Nodes : m_cTopology'[k] = mat) \/ (\E l \in Links : Held(link'[l], mat))
    <2>1. \A l \in Links : DOMAIN link'[l].queue = 1..Len(link'[l].queue)
      BY DEF Sockets, Socket
    <2>2. \/ \E k \in Nodes : m_cTopology'[k] = mat
          \/ \E l \in Links : \E i \in DOMAIN link'[l].queue : link'[l].queue[i].matrix = mat
          \/ \E l \in Links : link'[l].reply.matrix = mat
      <3> DEFINE A == {m_cTopology'[k] : k \in Nodes}
                 B == UNION {{link'[l].queue[i].matrix : i \in DOMAIN link'[l].queue} : l \in Links}
                 C == {link'[l].reply.matrix : l \in Links}
      <3>0. Matrices' = A \cup B \cup C
        BY DEF Matrices
      <3>1. mat \in A => \E k \in Nodes : m_cTopology'[k] = mat
        OBVIOUS
      <3>2. mat \in B =>
              \E l \in Links : \E i \in DOMAIN link'[l].queue : link'[l].queue[i].matrix = mat
        OBVIOUS
      <3>3. mat \in C => \E l \in Links : link'[l].reply.matrix = mat
        OBVIOUS
      <3> HIDE DEF A, B, C
      <3>4. mat \in A \/ mat \in B \/ mat \in C
        BY <3>0
      <3>5. QED  BY <3>1, <3>2, <3>3, <3>4, Zenon
    <2>3. QED  BY <2>1, <2>2 DEF Held
  <1>2. \A k \in Nodes : m_cTopology'[k] = new \/ m_cTopology'[k] = m_cTopology[k]
    BY DEF TopoType
  <1>3. \A k \in Nodes : m_cTopology[k] \in Matrices
    BY MatricesAre DEF TopoType
  <1>4. QED  BY <1>1, <1>2, <1>3

\* A step that only copies entries.
LEMMA HistoryCopy ==
  ASSUME TopoType, History, NEW n \in Nodes, NEW new \in Matrix,
         m_cTopology' = [m_cTopology EXCEPT ![n] = new],
         Matrices' \subseteq Matrices \cup {new, EmptyMatrix},
         DOMAIN m_cTopology[n] \subseteq DOMAIN new,
         Own(n, new) = Own(n, m_cTopology[n]),
         \A s \in DOMAIN new : \E mat \in Matrices : s \in DOMAIN mat /\ mat[s] = new[s]
  PROVE  History'
  <1>1. \A x \in Matrices' : \A s \in DOMAIN x :
           \E mat \in Matrices : s \in DOMAIN mat /\ mat[s] = x[s]
    BY MatrixFacts
  <1>2. \A x \in Matrices' : \A s \in DOMAIN x : s \in Nodes
    BY <1>1, MatricesType, MatrixEntry
  <1>3. \A s \in Nodes : /\ DOMAIN m_cTopology[s] \subseteq DOMAIN m_cTopology'[s]
                         /\ Own(s, m_cTopology'[s]) = Own(s, m_cTopology[s])
    BY DEF TopoType
  <1>4. OwnerKnows'
    BY <1>1, <1>2, <1>3 DEF History, OwnerKnows
  <1>5. OwnerIsNewest'
    BY <1>1, <1>2, <1>3 DEF History, OwnerIsNewest
  <1>6. EqualSequenceNoChange'
    <2> SUFFICES ASSUME NEW a \in Matrices', NEW b \in Matrices', NEW s \in DOMAIN a \cap DOMAIN b,
                        a[s].m_iSequence = b[s].m_iSequence
                 PROVE  a[s] = b[s]
      BY DEF EqualSequenceNoChange
    <2>1. PICK a1 \in Matrices : s \in DOMAIN a1 /\ a1[s] = a[s]
      BY <1>1
    <2>2. PICK b1 \in Matrices : s \in DOMAIN b1 /\ b1[s] = b[s]
      BY <1>1
    <2>3. QED  BY <2>1, <2>2 DEF History, EqualSequenceNoChange
  <1>7. QED  BY <1>4, <1>5, <1>6 DEF History

\* A step in which fabric n makes a new entry of its own: nobody has one with
\* that sequence number.
LEMMA HistoryNew ==
  ASSUME TopoType, History, NEW n \in Nodes, NEW e \in Entry, NEW new,
         new = Put(m_cTopology[n], n, e),
         e.m_iSequence = Own(n, m_cTopology[n]).m_iSequence + 1,
         m_cTopology' = [m_cTopology EXCEPT ![n] = new],
         Matrices' \subseteq Matrices \cup {new, EmptyMatrix}
  PROVE  History'
  <1>0. /\ m_cTopology[n] \in Matrices /\ m_cTopology[n] \in Matrix
        /\ DOMAIN new = DOMAIN m_cTopology[n] \cup {n} /\ new[n] = e
        /\ \A s \in DOMAIN m_cTopology[n] : s # n => new[s] = m_cTopology[n][s]
    BY MatricesAre DEF TopoType, Put
  <1>1. \A x \in Matrices' : \A s \in DOMAIN x :
           \/ \E mat \in Matrices : s \in DOMAIN mat /\ mat[s] = x[s]
           \/ s = n /\ x[s] = e
    BY <1>0, MatrixFacts
  <1>2. \A x \in Matrices' : \A s \in DOMAIN x : s \in Nodes
    BY <1>1, MatricesType, MatrixEntry
  <1>3. /\ \A s \in Nodes : DOMAIN m_cTopology[s] \subseteq DOMAIN m_cTopology'[s]
        /\ \A s \in Nodes : s # n => m_cTopology'[s] = m_cTopology[s]
        /\ n \in DOMAIN m_cTopology'[n] /\ Own(n, m_cTopology'[n]) = e
    BY <1>0 DEF TopoType, Own
  <1>4. \A mat \in Matrices : n \in DOMAIN mat =>
           mat[n].m_iSequence \in Nat /\ mat[n].m_iSequence < e.m_iSequence
    <2> SUFFICES ASSUME NEW mat \in Matrices, n \in DOMAIN mat
                 PROVE  mat[n].m_iSequence \in Nat /\ mat[n].m_iSequence < e.m_iSequence
      OBVIOUS
    <2>1. mat[n].m_iSequence \in Nat /\ Own(n, m_cTopology[n]).m_iSequence \in Nat
      BY <1>0, MatricesType, MatrixEntry
    <2>2. mat[n].m_iSequence <= Own(n, m_cTopology[n]).m_iSequence
      BY DEF History, OwnerIsNewest
    <2>3. QED  BY <2>1, <2>2
  <1>5. OwnerKnows'
    BY <1>1, <1>2, <1>3 DEF History, OwnerKnows
  <1>6. OwnerIsNewest'
    <2> SUFFICES ASSUME NEW x \in Matrices', NEW s \in DOMAIN x
                 PROVE  x[s].m_iSequence <= Own(s, m_cTopology'[s]).m_iSequence
      BY DEF OwnerIsNewest
    <2>1. CASE s = n /\ x[s] = e
      <3>1. e.m_iSequence \in Nat
        BY DEF Entry
      <3>2. QED  BY <1>3, <2>1, <3>1
    <2>2. CASE \E mat \in Matrices : s \in DOMAIN mat /\ mat[s] = x[s]
      <3>1. PICK mat \in Matrices : s \in DOMAIN mat /\ mat[s] = x[s]
        BY <2>2
      <3>2. CASE s = n
        <4>1. x[n].m_iSequence < e.m_iSequence /\ x[n].m_iSequence \in Nat /\ e.m_iSequence \in Nat
          BY <1>4, <3>1, <3>2 DEF Entry
        <4>2. QED  BY <1>3, <3>2, <4>1
      <3>3. CASE s # n
        BY <1>2, <1>3, <3>1, <3>3 DEF History, OwnerIsNewest
      <3>4. QED  BY <3>2, <3>3
    <2>3. QED  BY <1>1, <2>1, <2>2
  <1>7. EqualSequenceNoChange'
    <2> SUFFICES ASSUME NEW a \in Matrices', NEW b \in Matrices', NEW s \in DOMAIN a \cap DOMAIN b,
                        a[s].m_iSequence = b[s].m_iSequence
                 PROVE  a[s] = b[s]
      BY DEF EqualSequenceNoChange
    <2>0. e.m_iSequence \in Nat
      BY DEF Entry
    <2>1. CASE s = n /\ (a[s] = e \/ b[s] = e)
      <3>1. \A mat \in Matrices : n \in DOMAIN mat => mat[n].m_iSequence # e.m_iSequence
        BY <1>4, <2>0
      <3>2. QED  BY <1>1, <2>1, <3>1
    <2>2. CASE ~(s = n /\ (a[s] = e \/ b[s] = e))
      <3>1. PICK a1 \in Matrices : s \in DOMAIN a1 /\ a1[s] = a[s]
        BY <1>1, <2>2
      <3>2. PICK b1 \in Matrices : s \in DOMAIN b1 /\ b1[s] = b[s]
        BY <1>1, <2>2
      <3>3. QED  BY <3>1, <3>2 DEF History, EqualSequenceNoChange
    <2>3. QED  BY <2>1, <2>2
  <1>8. QED  BY <1>5, <1>6, <1>7 DEF History

\* processJSON copies: the sequence number it would count past is never there.
LEMMA MergeCopies ==
  ASSUME TopoType, History, NEW n \in Nodes, NEW in \in Matrices, NEW new,
         new = Merged(n, m_cTopology[n], in)
  PROVE  /\ new \in Matrix
         /\ DOMAIN m_cTopology[n] \subseteq DOMAIN new
         /\ Own(n, new) = Own(n, m_cTopology[n])
         /\ \A s \in DOMAIN new : \E mat \in Matrices : s \in DOMAIN mat /\ mat[s] = new[s]
  <1> DEFINE mat == m_cTopology[n]
  <1>1. mat \in Matrices /\ mat \in Matrix /\ in \in Matrix
    BY MatricesAre, MatricesType DEF TopoType
  <1>2. DOMAIN new = DOMAIN mat \cup DOMAIN in
    BY DEF Merged
  <1>3. n \in DOMAIN in => n \in DOMAIN mat
    BY DEF History, OwnerKnows
  <1>4. n \in DOMAIN mat => new[n] = mat[n]
    <2>1. CASE n \in DOMAIN in
      <3>1. in[n].m_iSequence <= Own(n, mat).m_iSequence
        BY <2>1 DEF History, OwnerIsNewest
      <3>2. in[n].m_iSequence \in Nat /\ Own(n, mat).m_iSequence \in Nat
        BY <1>1, <2>1, MatrixEntry
      <3>3. ~(in[n].m_iSequence > Own(n, mat).m_iSequence)
        BY <3>1, <3>2
      <3>4. QED  BY <1>3, <2>1, <3>3 DEF Merged, Own
    <2>2. CASE n \notin DOMAIN in
      BY <2>2 DEF Merged
    <2>3. QED  BY <2>1, <2>2
  <1>5. \A s \in DOMAIN new : \/ s \in DOMAIN mat /\ new[s] = mat[s]
                              \/ s \in DOMAIN in /\ new[s] = in[s]
    <2> SUFFICES ASSUME NEW s \in DOMAIN new, s # n
                 PROVE  \/ s \in DOMAIN mat /\ new[s] = mat[s]
                        \/ s \in DOMAIN in /\ new[s] = in[s]
      BY <1>2, <1>3, <1>4
    <2>1. QED  BY <1>2 DEF Merged
  <1>6. Own(n, new) = Own(n, mat)
    BY <1>2, <1>3, <1>4 DEF Own
  <1>7. new \in Matrix
    <2>1. DOMAIN new \subseteq Nodes
      BY <1>1, <1>2, MatrixEntry
    <2>2. \A s \in DOMAIN new : new[s] \in Entry
      BY <1>1, <1>5, MatrixEntry
    <2>3. new \in [DOMAIN new -> Entry]
      BY <2>2 DEF Merged
    <2>4. QED  BY <2>1, <2>3 DEF Matrix
  <1>8. QED  BY <1>1, <1>2, <1>5, <1>6, <1>7

-----------------------------------------------------------------------------
(* The steps *)

\* The sockets L after the request under way on l is answered with m.
Replied(L, l, m) == [L EXCEPT ![l].state = "replied", ![l].reply = m]

\* A reply that frees a socket, or lets its next request out, keeps the
\* sockets.
LEMMA ReplySockets ==
  ASSUME NEW L, Sockets(L), NEW l \in Links, L[l].state # "free", NEW m \in Message
  PROVE  /\ Sockets(Replied(L, l, m))
         /\ \A k \in Links : Replied(L, l, m)[k].open = L[k].open
         /\ \A k \in Links : \A x : Held(Replied(L, l, m)[k], x) => Held(L[k], x) \/ x = m.matrix
  <1> DEFINE S == Replied(L, l, m)
  <1>1. L[l] \in Socket /\ L[l].queue # <<>> /\ L[l].open = TRUE
    BY MatrixFacts DEF Sockets, Socket
  <1>2. S[l] = [L[l] EXCEPT !.state = "replied", !.reply = m]
    BY <1>1 DEF Sockets, Socket, Replied
  <1>3. /\ S[l] \in Socket /\ S[l].queue = L[l].queue /\ S[l].reply = m
        /\ S[l].open = TRUE /\ S[l].state = "replied"
    <2>1. /\ [L[l] EXCEPT !.state = "replied", !.reply = m] \in Socket
          /\ [L[l] EXCEPT !.state = "replied", !.reply = m].queue = L[l].queue
          /\ [L[l] EXCEPT !.state = "replied", !.reply = m].reply = m
          /\ [L[l] EXCEPT !.state = "replied", !.reply = m].open = L[l].open
          /\ [L[l] EXCEPT !.state = "replied", !.reply = m].state = "replied"
      BY <1>1 DEF Socket
    <2>2. QED  BY <1>1, <1>2, <2>1
  <1>4. S = [L EXCEPT ![l] = S[l]]
    BY DEF Sockets, Replied
  <1> HIDE DEF S
  <1>5. S \in [Links -> Socket] /\ \A k \in Links : k # l => S[k] = L[k]
    BY <1>3, <1>4 DEF Sockets
  <1>6. Sockets(S)
    BY <1>1, <1>3, <1>5 DEF Sockets
  <1>7. ASSUME NEW k \in Links, NEW x, Held(S[k], x) PROVE Held(L[k], x) \/ x = m.matrix
    BY <1>3, <1>5, <1>7 DEF Held
  <1>8. QED  BY <1>1, <1>3, <1>5, <1>6, <1>7 DEF S

\* The owner's entry follows the map of its peers.
LEMMA OwnStep ==
  ASSUME TopoType, OwnEntryIsCurrent, NEW n \in Nodes, NEW new, NEW P,
         m_cTopology' = [m_cTopology EXCEPT ![n] = new],
         m_pcOutBoundPeers' = [m_pcOutBoundPeers EXCEPT ![n] = P],
         Own(n, new).m_cPeers = P
  PROVE  OwnEntryIsCurrent'
  <1>1. \A k \in Nodes : k # n => /\ m_cTopology'[k] = m_cTopology[k]
                                  /\ m_pcOutBoundPeers'[k] = m_pcOutBoundPeers[k]
    BY DEF TopoType
  <1>2. m_cTopology'[n] = new /\ m_pcOutBoundPeers'[n] = P
    BY DEF TopoType
  <1>3. QED  BY <1>1, <1>2 DEF OwnEntryIsCurrent

\* Steps that change no matrix.
LEMMA StillStep ==
  ASSUME TopoInv, UNCHANGED <<m_cTopology, m_pcOutBoundPeers>>, NEW n \in Nodes,
         Sockets(link)',
         \A k \in Links : link[k].open => link'[k].open,
         \A k \in Links : \A x : Held(link'[k], x) => Held(link[k], x) \/ x = EmptyMatrix
  PROVE  PeersOpen' /\ OwnEntryIsCurrent' /\ History'
  <1> DEFINE old == m_cTopology[n]
  <1>0. TopoType /\ History /\ old \in Matrix /\ old \in Matrices
    BY MatricesAre DEF TopoInv, TopoType
  <1>1. PeersOpen'
    BY DEF TopoInv, PeersOpen
  <1>2. OwnEntryIsCurrent'
    BY DEF TopoInv, OwnEntryIsCurrent
  <1>3. m_cTopology' = [m_cTopology EXCEPT ![n] = old]
    BY DEF TopoInv, TopoType
  <1>4. \A k \in Links : \A x : Held(link'[k], x) => x \in Matrices \cup {old, EmptyMatrix}
    BY MatricesAre DEF TopoInv, TopoType
  <1>5. Matrices' \subseteq Matrices \cup {old, EmptyMatrix}
    BY <1>0, <1>3, <1>4, MatricesStep
  <1>6. \A s \in DOMAIN old : \E mat \in Matrices : s \in DOMAIN mat /\ mat[s] = old[s]
    BY <1>0
  <1> HIDE DEF old
  <1>7. History'
    <2>1. DOMAIN m_cTopology[n] \subseteq DOMAIN old /\ Own(n, old) = Own(n, m_cTopology[n])
      BY DEF old
    <2>2. QED  BY <1>0, <1>3, <1>5, <1>6, <2>1, HistoryCopy
  <1>8. QED  BY <1>1, <1>2, <1>7

\* addPeer keeps the invariant.
LEMMA StepAddPeer ==
  ASSUME TopoInv, NEW l \in Links, addPeer(l)
  PROVE  TopoInv'
  <1> DEFINE L == [link EXCEPT ![l].open = TRUE]
  <1>1. /\ ~link[l].open /\ opens < MaxOpens /\ opens' = opens + 1
        /\ link' = Send(L, l, JoinReq)
        /\ UNCHANGED <<m_cTopology, m_pcOutBoundPeers, full, drops, restarts>>
    BY DEF addPeer
  <1>2. Sockets(link) /\ link[l] = Closed /\ l[1] \in Nodes
    BY <1>1, LinkEnds DEF TopoInv, TopoType, Sockets
  <1>3. L[l] = [Closed EXCEPT !.open = TRUE] /\ \A k \in Links : k # l => L[k] = link[k]
    BY <1>2 DEF Sockets
  <1>4. L[l] \in Socket /\ L[l].open /\ L[l].state = "free" /\ L[l].queue = <<>>
        /\ L[l].reply = link[l].reply /\ L[l].queue = link[l].queue
    <2>1. Closed \in Socket /\ Closed.state = "free" /\ Closed.queue = <<>>
      BY MatrixFacts
    <2>2. /\ [Closed EXCEPT !.open = TRUE] \in Socket
          /\ [Closed EXCEPT !.open = TRUE].open
          /\ [Closed EXCEPT !.open = TRUE].state = Closed.state
          /\ [Closed EXCEPT !.open = TRUE].queue = Closed.queue
          /\ [Closed EXCEPT !.open = TRUE].reply = Closed.reply
      BY <2>1 DEF Socket
    <2>3. QED  BY <1>2, <1>3, <2>1, <2>2
  <1>5. L = [link EXCEPT ![l] = L[l]]
    BY <1>2 DEF Sockets
  <1>6. Sockets(L)
    BY <1>2, <1>3, <1>4, <1>5 DEF Sockets
  <1>7. \A k \in Links : \A x : Held(L[k], x) => Held(link[k], x)
    BY <1>3, <1>4 DEF Held
  <1> HIDE DEF L
  <1>8. /\ Sockets(link')
        /\ link'[l].open /\ \A k \in Links : k # l => link'[k] = L[k]
        /\ \A x : Held(link'[l], x) => Held(L[l], x) \/ x = EmptyMatrix
    <2>1. JoinReq \in Message /\ JoinReq.matrix = EmptyMatrix
      BY MatrixFacts
    <2>2. QED  BY <1>1, <1>4, <1>6, <2>1, SendSockets
  <1>9. PeersOpen' /\ OwnEntryIsCurrent' /\ History'
    <2>1. \A k \in Links : link[k].open => link'[k].open
      BY <1>1, <1>3, <1>8
    <2>2. \A k \in Links : \A x : Held(link'[k], x) => Held(link[k], x) \/ x = EmptyMatrix
      BY <1>7, <1>8
    <2>3. QED  BY <1>1, <1>2, <1>8, <2>1, <2>2, StillStep
  <1>10. TopoType'
    BY <1>1, <1>8, BoundsAssumption DEF TopoInv, TopoType
  <1>11. QED  BY <1>9, <1>10 DEF TopoInv

\* processJoinReq keeps the invariant.
LEMMA StepJoinReq ==
  ASSUME TopoInv, NEW l \in Links, processJoinReq(l)
  PROVE  TopoInv'
  <1>1. /\ link[l].state = "sent"
        /\ link' = Replied(link, l, JoinReq)
        /\ UNCHANGED <<m_cTopology, m_pcOutBoundPeers, full, opens, drops, restarts>>
    BY DEF processJoinReq, Replied
  <1>2. /\ Sockets(link')
        /\ \A k \in Links : link'[k].open = link[k].open
        /\ \A k \in Links : \A x : Held(link'[k], x) => Held(link[k], x) \/ x = EmptyMatrix
    <2>1. JoinReq \in Message /\ JoinReq.matrix = EmptyMatrix
      BY MatrixFacts
    <2>2. Sockets(link) /\ link[l].state # "free"
      BY <1>1 DEF TopoInv, TopoType
    <2>3. /\ Sockets(Replied(link, l, JoinReq))
          /\ \A k \in Links : Replied(link, l, JoinReq)[k].open = link[k].open
          /\ \A k \in Links : \A x :
                Held(Replied(link, l, JoinReq)[k], x) => Held(link[k], x) \/ x = JoinReq.matrix
      <3>1. \A m \in Message :
              /\ Sockets(Replied(link, l, m))
              /\ \A k \in Links : Replied(link, l, m)[k].open = link[k].open
              /\ \A k \in Links : \A x :
                    Held(Replied(link, l, m)[k], x) => Held(link[k], x) \/ x = m.matrix
        BY <2>2, ReplySockets
      <3>2. QED  BY <2>1, <3>1
    <2>4. QED  BY <1>1, <2>1, <2>3
  <1>3. PeersOpen' /\ OwnEntryIsCurrent' /\ History'
    BY <1>1, <1>2, StillStep, LinkEnds
  <1>4. TopoType'
    BY <1>1, <1>2 DEF TopoInv, TopoType
  <1>5. QED  BY <1>3, <1>4 DEF TopoInv

\* A lost message keeps the invariant.
LEMMA StepLose ==
  ASSUME TopoInv, NEW l \in Links, Lose(l)
  PROVE  TopoInv'
  <1>1. PICK kept \in SUBSET {l} : link' = Broken({l}, kept)
    BY DEF Lose
  <1>2. /\ link[l].open /\ drops < MaxDrops /\ drops' = drops + 1
        /\ UNCHANGED <<m_cTopology, m_pcOutBoundPeers, full, opens, restarts>>
    BY DEF Lose
  <1>3. Sockets(link) /\ link[l] \in Socket
    BY DEF TopoInv, TopoType, Sockets
  <1> DEFINE st == IF link[l].state = "free" \/ (link[l].state = "sent" /\ l \in kept)
                   THEN link[l].state ELSE "lost"
  <1>4. /\ \A k \in Links : k # l => link'[k] = link[k]
        /\ link'[l] = [link[l] EXCEPT !.down = TRUE, !.state = st]
        /\ link' = [k \in Links |-> link'[k]]
    BY <1>1 DEF Broken
  <1>5. st \in {"free", "sent", "replied", "lost"} /\ (st = "free" <=> link[l].state = "free")
    BY <1>3 DEF Socket
  <1> HIDE DEF st
  <1>6. /\ link'[l] \in Socket /\ link'[l].open = link[l].open /\ link'[l].queue = link[l].queue
        /\ link'[l].reply = link[l].reply /\ link'[l].state = st
    BY <1>3, <1>4, <1>5 DEF Socket
  <1>7. link' \in [Links -> Socket]
    <2>1. \A k \in Links : link'[k] \in Socket
      BY <1>3, <1>4, <1>6 DEF Sockets
    <2>2. QED  BY <1>4, <2>1
  <1>8. Sockets(link')
    <2>1. ASSUME NEW k \in Links
          PROVE  /\ link'[k].state = "free" <=> link'[k].queue = <<>>
                 /\ ~link'[k].open => link'[k] = Closed
      <3>1. CASE k = l
        BY <1>2, <1>3, <1>5, <1>6, <3>1 DEF Sockets
      <3>2. CASE k # l
        BY <1>3, <1>4, <3>2 DEF Sockets
      <3>3. QED  BY <3>1, <3>2
    <2>2. QED  BY <1>7, <2>1 DEF Sockets
  <1>9. PeersOpen' /\ OwnEntryIsCurrent' /\ History'
    <2>1. \A k \in Links : link[k].open => link'[k].open
      BY <1>4, <1>6
    <2>2. \A k \in Links : \A x : Held(link'[k], x) => Held(link[k], x)
      BY <1>4, <1>6 DEF Held
    <2>3. QED  BY <1>2, <1>8, <2>1, <2>2, StillStep, LinkEnds
  <1>10. TopoType'
    BY <1>2, <1>8, BoundsAssumption DEF TopoInv, TopoType
  <1>11. QED  BY <1>9, <1>10 DEF TopoInv

\* processTopoReq keeps the invariant.
LEMMA StepTopoReq ==
  ASSUME TopoInv, NEW l \in Links, processTopoReq(l)
  PROVE  TopoInv'
  <1> DEFINE me == l[2]
             in == Head(link[l].queue).matrix
             new == Merged(me, m_cTopology[me], in)
             ans == IF ChangeApplied(me, m_cTopology[me], in) THEN new ELSE in
  <1>1. /\ link[l].state = "sent"
        /\ m_cTopology' = [m_cTopology EXCEPT ![me] = new]
        /\ link' = Replied(link, l, TopoReq(ans))
        /\ UNCHANGED <<m_pcOutBoundPeers, full, opens, drops, restarts>>
    BY DEF processTopoReq, Replied
  <1>2. /\ TopoType /\ History /\ PeersOpen /\ OwnEntryIsCurrent /\ Sockets(link) /\ me \in Nodes
    BY LinkEnds DEF TopoInv, TopoType
  <1>3. in \in Matrices
    <2>1. link[l].queue \in Seq(Message) /\ link[l].queue # <<>>
      BY <1>1, <1>2 DEF Sockets, Socket
    <2>2. Held(link[l], in)
      <3>1. 1 \in 1..Len(link[l].queue) /\ Head(link[l].queue) = link[l].queue[1]
        BY <2>1, EmptySeq
      <3>2. QED  BY <3>1 DEF Held
    <2>3. QED  BY <1>2, <2>2, MatricesAre
  <1> HIDE DEF in
  <1>4. /\ new \in Matrix
        /\ DOMAIN m_cTopology[me] \subseteq DOMAIN new
        /\ Own(me, new) = Own(me, m_cTopology[me])
        /\ \A s \in DOMAIN new : \E mat \in Matrices : s \in DOMAIN mat /\ mat[s] = new[s]
    BY <1>2, <1>3, MergeCopies
  <1>5. ans \in {new, in} /\ ans \in Matrix
    BY <1>2, <1>3, <1>4, MatricesType
  <1> HIDE DEF new, ans, me
  <1>6. /\ Sockets(link')
        /\ \A k \in Links : link'[k].open = link[k].open
        /\ \A k \in Links : \A x : Held(link'[k], x) => Held(link[k], x) \/ x = ans
    <2>1. TopoReq(ans) \in Message /\ TopoReq(ans).matrix = ans
      BY <1>5, MatrixFacts
    <2>2. Sockets(link) /\ link[l].state # "free"
      BY <1>1, <1>2
    <2>3. QED  BY <1>1, <2>1, <2>2, ReplySockets
  <1>7. \A k \in Links : \A x : Held(link'[k], x) => x \in Matrices \cup {new, EmptyMatrix}
    BY <1>2, <1>3, <1>5, <1>6, MatricesAre
  <1>8. Matrices' \subseteq Matrices \cup {new, EmptyMatrix}
    BY <1>1, <1>2, <1>6, <1>7, MatricesStep
  <1>9. History'
    BY <1>1, <1>2, <1>4, <1>8, HistoryCopy
  <1>10. OwnEntryIsCurrent'
    <2>1. m_pcOutBoundPeers' = [m_pcOutBoundPeers EXCEPT ![me] = m_pcOutBoundPeers[me]]
      BY <1>1, <1>2 DEF TopoType
    <2>2. Own(me, new).m_cPeers = m_pcOutBoundPeers[me]
      BY <1>2, <1>4 DEF OwnEntryIsCurrent
    <2>3. QED  BY <1>1, <1>2, <2>1, <2>2, OwnStep
  <1>11. TopoType'
    BY <1>1, <1>2, <1>4, <1>6 DEF TopoType
  <1>12. PeersOpen'
    BY <1>1, <1>2, <1>6 DEF PeersOpen
  <1>13. QED  BY <1>9, <1>10, <1>11, <1>12 DEF TopoInv

\* A step of fabric n that makes matrix `new` and changes its peers to P.
LEMMA ChangeStep ==
  ASSUME TopoInv, NEW n \in Nodes, NEW new \in Matrix, NEW P \in SUBSET Nodes,
         m_cTopology' = [m_cTopology EXCEPT ![n] = new],
         m_pcOutBoundPeers' = [m_pcOutBoundPeers EXCEPT ![n] = P],
         Own(n, new).m_cPeers = P,
         Sockets(link)',
         \A k \in Links : k[1] # n => (link[k].open => link'[k].open),
         \A k \in Links : k[1] = n /\ k[2] \in P => link'[k].open,
         \A k \in Links : \A x : Held(link'[k], x) => Held(link[k], x) \/ x \in {new, EmptyMatrix},
         UNCHANGED <<full, opens, drops, restarts>>,
         Matrices' \subseteq Matrices \cup {new, EmptyMatrix} => History'
  PROVE  TopoInv'
  <1>1. TopoType /\ PeersOpen /\ OwnEntryIsCurrent
    BY DEF TopoInv
  <1>2. \A k \in Links : \A x : Held(link'[k], x) => x \in Matrices \cup {new, EmptyMatrix}
    BY <1>1, MatricesAre DEF TopoType
  <1>3. Matrices' \subseteq Matrices \cup {new, EmptyMatrix}
    BY <1>1, <1>2, MatricesStep
  <1>4. History'
    BY <1>3
  <1>5. OwnEntryIsCurrent'
    BY <1>1, OwnStep
  <1>6. TopoType'
    BY <1>1 DEF TopoType
  <1>7. PeersOpen'
    <2>1. \A k \in Nodes : m_pcOutBoundPeers'[k] = IF k = n THEN P ELSE m_pcOutBoundPeers[k]
      BY <1>1 DEF TopoType
    <2>2. QED  BY <1>1, <2>1, LinkEnds DEF PeersOpen
  <1>8. QED  BY <1>4, <1>5, <1>6, <1>7 DEF TopoInv

\* An entry that is put into a matrix.
LEMMA PutFacts ==
  ASSUME NEW mat \in Matrix, NEW s \in Nodes, NEW e \in Entry
  PROVE  Put(mat, s, e) \in Matrix /\ Own(s, Put(mat, s, e)) = e
  <1>1. DOMAIN Put(mat, s, e) = DOMAIN mat \cup {s} /\ DOMAIN mat \subseteq Nodes
    BY MatrixEntry DEF Put
  <1>2. \A x \in DOMAIN mat \cup {s} : Put(mat, s, e)[x] \in Entry
    BY MatrixEntry DEF Put
  <1>3. Put(mat, s, e) \in [DOMAIN mat \cup {s} -> Entry]
    BY <1>2 DEF Put
  <1>4. QED  BY <1>1, <1>3 DEF Matrix, Own, Put

\* Fabric n has open sockets to its peers.
OpenTo(L, n, peers) == \A k \in Links : k[1] = n /\ k[2] \in peers => L[k].open

\* readEvent after a reply whose callback sent the topology.
LEMMA ReadSockets ==
  ASSUME NEW L, Sockets(L), NEW l \in Links, L[l].state # "free",
         NEW n \in Nodes, NEW peers, NEW mat \in Matrix,
         OpenTo(L, n, peers)
  PROVE  /\ Sockets(Finish(SendOutTopoReq(L, n, peers, mat), l))
         /\ \A k \in Links : Finish(SendOutTopoReq(L, n, peers, mat), l)[k].open = L[k].open
         /\ \A k \in Links : \A x :
              Held(Finish(SendOutTopoReq(L, n, peers, mat), l)[k], x)
              => Held(L[k], x) \/ x = mat \/ x = EmptyMatrix
  <1> DEFINE T == SendOutTopoReq(L, n, peers, mat)
  <1>1. /\ Sockets(T)
        /\ \A k \in Links : T[k].open = L[k].open
        /\ \A k \in Links : \A x : Held(T[k], x) => Held(L[k], x) \/ x = mat
        /\ \A k \in Links : L[k].queue # <<>> => T[k].queue # <<>>
    BY SendOutSockets DEF OpenTo
  <1> HIDE DEF T
  <1>2. T[l].state # "free"
    BY <1>1 DEF Sockets
  <1>3. /\ Sockets(Finish(T, l))
        /\ \A k \in Links : Finish(T, l)[k].open = T[k].open
        /\ \A k \in Links : \A x : Held(Finish(T, l)[k], x) => Held(T[k], x) \/ x = EmptyMatrix
    BY <1>1, <1>2, FinishSockets
  <1>4. QED  BY <1>1, <1>3 DEF T

\* processJoinRep keeps the invariant.
LEMMA StepJoinRep ==
  ASSUME TopoInv, NEW l \in Links, processJoinRep(l)
  PROVE  TopoInv'
  <1> DEFINE n == l[1]
             old == m_cTopology[n]
             new == AddAdj(n, old, l[2])
             P == m_pcOutBoundPeers[n] \cup {l[2]}
             e == [m_iSequence |-> Own(n, old).m_iSequence + 1,
                   m_cPeers |-> Own(n, old).m_cPeers \cup {l[2]}]
  <1>1. /\ link[l].state = "replied"
        /\ m_pcOutBoundPeers' = [m_pcOutBoundPeers EXCEPT ![n] = P]
        /\ m_cTopology' = [m_cTopology EXCEPT ![n] = new]
        /\ \/ link' = Finish(SendOutTopoReq(link, n, P, new), l)
           \/ link' = Finish(link, l)
        /\ UNCHANGED <<full, opens, drops, restarts>>
    BY DEF processJoinRep
  <1>2. /\ TopoType /\ PeersOpen /\ OwnEntryIsCurrent /\ History /\ Sockets(link)
        /\ n \in Nodes /\ l[2] \in Nodes /\ old \in Matrix
    BY LinkEnds DEF TopoInv, TopoType
  <1>3. link[l].open /\ link[l] \in Socket
    BY <1>1, <1>2, MatrixFacts DEF Sockets
  <1>4. /\ e \in Entry /\ e.m_iSequence = Own(n, old).m_iSequence + 1
        /\ e.m_cPeers = P /\ new = Put(old, n, e)
    <2>1. Own(n, old) \in Entry /\ Own(n, old).m_cPeers = m_pcOutBoundPeers[n]
      BY <1>2, MatrixEntry DEF OwnEntryIsCurrent
    <2>2. QED  BY <1>2, <2>1 DEF Entry, AddAdj
  <1>5. P \in SUBSET Nodes
    BY <1>2 DEF TopoType
  <1> HIDE DEF e
  <1>6. new \in Matrix /\ Own(n, new).m_cPeers = P
    BY <1>2, <1>4, PutFacts
  <1> HIDE DEF new, old
  <1>7. \A k \in Links : k[1] = n /\ k[2] \in P => link[k].open
    BY <1>2, <1>3, LinkEnds DEF PeersOpen
  <1> HIDE DEF n, P
  <1>8. /\ Sockets(link')
        /\ \A k \in Links : link'[k].open = link[k].open
        /\ \A k \in Links : \A x : Held(link'[k], x) => Held(link[k], x) \/ x \in {new, EmptyMatrix}
    <2>1. /\ Sockets(link) /\ n \in Nodes /\ new \in Matrix /\ link[l].state # "free"
          /\ OpenTo(link, n, P)
      BY <1>1, <1>2, <1>6, <1>7 DEF OpenTo
    <2>2. CASE link' = Finish(link, l)
      BY <2>1, <2>2, FinishSockets
    <2>3. CASE link' = Finish(SendOutTopoReq(link, n, P, new), l)
      BY <2>1, <2>3, ReadSockets
    <2>4. QED  BY <1>1, <2>2, <2>3
  <1>9. Matrices' \subseteq Matrices \cup {new, EmptyMatrix} => History'
    BY <1>1, <1>2, <1>4, HistoryNew DEF old
  <1>10. QED  BY <1>1, <1>2, <1>5, <1>6, <1>7, <1>8, <1>9, ChangeStep

\* processTopoRep keeps the invariant.
LEMMA StepTopoRep ==
  ASSUME TopoInv, NEW l \in Links, processTopoRep(l)
  PROVE  TopoInv'
  <1> DEFINE n == l[1]
             old == m_cTopology[n]
             in == link[l].reply.matrix
             new == Merged(n, old, in)
             P == m_pcOutBoundPeers[n]
  <1>1. /\ link[l].state = "replied"
        /\ m_cTopology' = [m_cTopology EXCEPT ![n] = new]
        /\ \/ link' = Finish(SendOutTopoReq(link, n, P, new), l)
           \/ link' = Finish(link, l)
        /\ UNCHANGED <<m_pcOutBoundPeers, full, opens, drops, restarts>>
    BY DEF processTopoRep
  <1>2. /\ TopoType /\ PeersOpen /\ OwnEntryIsCurrent /\ History /\ Sockets(link)
        /\ n \in Nodes /\ old \in Matrix /\ P \in SUBSET Nodes
        /\ m_pcOutBoundPeers' = [m_pcOutBoundPeers EXCEPT ![n] = P]
    BY <1>1, LinkEnds DEF TopoInv, TopoType
  <1>3. in \in Matrices
    BY <1>2, MatricesAre DEF Held
  <1> HIDE DEF in
  <1>4. /\ new \in Matrix
        /\ DOMAIN m_cTopology[n] \subseteq DOMAIN new
        /\ Own(n, new) = Own(n, m_cTopology[n])
        /\ \A s \in DOMAIN new : \E mat \in Matrices : s \in DOMAIN mat /\ mat[s] = new[s]
    BY <1>2, <1>3, MergeCopies
  <1> HIDE DEF new
  <1>5. Own(n, new).m_cPeers = P
    BY <1>2, <1>4 DEF OwnEntryIsCurrent
  <1>7. \A k \in Links : k[1] = n /\ k[2] \in P => link[k].open
    BY <1>2 DEF PeersOpen
  <1> HIDE DEF n, P, old
  <1>8. /\ Sockets(link')
        /\ \A k \in Links : link'[k].open = link[k].open
        /\ \A k \in Links : \A x : Held(link'[k], x) => Held(link[k], x) \/ x \in {new, EmptyMatrix}
    <2>1. /\ Sockets(link) /\ n \in Nodes /\ new \in Matrix /\ link[l].state # "free"
          /\ OpenTo(link, n, P)
      BY <1>1, <1>2, <1>4, <1>7 DEF OpenTo
    <2>2. CASE link' = Finish(link, l)
      BY <2>1, <2>2, FinishSockets
    <2>3. CASE link' = Finish(SendOutTopoReq(link, n, P, new), l)
      <3>1. /\ Sockets(Finish(SendOutTopoReq(link, n, P, new), l))
            /\ \A k \in Links : Finish(SendOutTopoReq(link, n, P, new), l)[k].open = link[k].open
            /\ \A k \in Links : \A x :
                 Held(Finish(SendOutTopoReq(link, n, P, new), l)[k], x)
                 => Held(link[k], x) \/ x = new \/ x = EmptyMatrix
        BY <2>1, ReadSockets
      <3>2. QED  BY <2>3, <3>1
    <2>4. QED  BY <1>1, <2>2, <2>3
  <1>9. Matrices' \subseteq Matrices \cup {new, EmptyMatrix} => History'
    BY <1>1, <1>2, <1>4, HistoryCopy
  <1>10. QED  BY <1>1, <1>2, <1>4, <1>5, <1>7, <1>8, <1>9, ChangeStep

\* delAdj makes a new entry, or does nothing for a fabric without one.
LEMMA DelAdjFacts ==
  ASSUME TopoInv, NEW l \in Links
  PROVE  /\ DelAdjTopology(l) \in Matrix
         /\ Own(l[1], DelAdjTopology(l)).m_cPeers = m_pcOutBoundPeers[l[1]] \ {l[2]}
         /\ /\ m_cTopology' = [m_cTopology EXCEPT ![l[1]] = DelAdjTopology(l)]
            /\ Matrices' \subseteq Matrices \cup {DelAdjTopology(l), EmptyMatrix}
            => History'
  <1> DEFINE n == l[1]
             old == m_cTopology[n]
             new == DelAdjTopology(l)
             gone == {l[2]} \cap m_pcOutBoundPeers[n]
             e == [m_iSequence |-> old[n].m_iSequence + 1, m_cPeers |-> old[n].m_cPeers \ gone]
  <1>1. /\ TopoType /\ OwnEntryIsCurrent /\ History
        /\ n \in Nodes /\ old \in Matrix /\ old \in Matrices
    BY LinkEnds, MatricesAre DEF TopoInv, TopoType
  <1>2. CASE n \in DOMAIN old
    <2>1. old[n] \in Entry /\ Own(n, old) = old[n] /\ old[n].m_cPeers = m_pcOutBoundPeers[n]
      BY <1>1, <1>2, MatrixEntry DEF OwnEntryIsCurrent, Own
    <2>2. /\ e \in Entry /\ e.m_iSequence = Own(n, old).m_iSequence + 1
          /\ e.m_cPeers = m_pcOutBoundPeers[n] \ {l[2]}
      BY <2>1 DEF Entry
    <2>3. new = Put(old, n, e)
      BY <1>2 DEF DelAdjTopology, DelAdj
    <2> HIDE DEF e, new
    <2>4. new \in Matrix /\ Own(n, new) = e
      BY <1>1, <2>2, <2>3, PutFacts
    <2>5. ASSUME m_cTopology' = [m_cTopology EXCEPT ![n] = new],
                 Matrices' \subseteq Matrices \cup {new, EmptyMatrix}
          PROVE  History'
      BY <1>1, <2>2, <2>3, <2>5, HistoryNew
    <2>6. QED  BY <2>2, <2>4, <2>5 DEF new
  <1>3. CASE n \notin DOMAIN old
    <2>1. new = old /\ Own(n, old) = NewEntry
      BY <1>3 DEF DelAdjTopology, Own
    <2>2. m_pcOutBoundPeers[n] = {}
      BY <1>1, <2>1 DEF OwnEntryIsCurrent, NewEntry
    <2> HIDE DEF new, old
    <2>3. ASSUME m_cTopology' = [m_cTopology EXCEPT ![n] = new],
                 Matrices' \subseteq Matrices \cup {new, EmptyMatrix}
          PROVE  History'
      <3>1. /\ DOMAIN m_cTopology[n] \subseteq DOMAIN new
            /\ Own(n, new) = Own(n, m_cTopology[n])
            /\ \A s \in DOMAIN new : \E mat \in Matrices : s \in DOMAIN mat /\ mat[s] = new[s]
        BY <1>1, <2>1 DEF old
      <3>2. new \in Matrix
        BY <1>1, <2>1
      <3>3. QED  BY <1>1, <2>3, <3>1, <3>2, HistoryCopy
    <2>4. new \in Matrix /\ Own(n, new).m_cPeers = m_pcOutBoundPeers[n] \ {l[2]}
      BY <1>1, <2>1, <2>2 DEF NewEntry
    <2>5. QED  BY <2>3, <2>4 DEF new
  <1>4. QED  BY <1>2, <1>3

\* What delAdj makes of the sockets.
LEMMA DelAdjSockets ==
  ASSUME TopoInv, NEW l \in Links, NEW L, Sockets(L), NEW tell, NEW S \in DelAdjLinks(l, L, tell),
         \A k \in Links : k[1] = l[1] /\ k[2] \in tell => L[k].open
  PROVE  /\ Sockets(S)
         /\ \A k \in Links : S[k].open = L[k].open
         /\ \A k \in Links : \A x : Held(S[k], x) => Held(L[k], x) \/ x = DelAdjTopology(l)
  <1>1. S = L \/ S = SendOutTopoReq(L, l[1], tell, DelAdjTopology(l))
    BY DEF DelAdjLinks
  <1>2. DelAdjTopology(l) \in Matrix /\ l[1] \in Nodes
    BY DelAdjFacts, LinkEnds
  <1>3. CASE S = L
    BY <1>3
  <1>4. CASE S = SendOutTopoReq(L, l[1], tell, DelAdjTopology(l))
    BY <1>2, <1>4, SendOutSockets
  <1>5. QED  BY <1>1, <1>3, <1>4

\* delPeer keeps the invariant.
LEMMA StepDelPeer ==
  ASSUME TopoInv, NEW l \in Links, delPeer(l)
  PROVE  TopoInv'
  <1> DEFINE n == l[1]
             new == DelAdjTopology(l)
             left == m_pcOutBoundPeers[n] \ {l[2]}
             L == [link EXCEPT ![l] = Closed]
  <1>1. /\ m_pcOutBoundPeers' = [m_pcOutBoundPeers EXCEPT ![n] = left]
        /\ m_cTopology' = [m_cTopology EXCEPT ![n] = new]
        /\ link' \in DelAdjLinks(l, L, left)
        /\ UNCHANGED <<full, opens, drops, restarts>>
    BY DEF delPeer
  <1>2. /\ TopoType /\ PeersOpen /\ Sockets(link) /\ n \in Nodes /\ left \in SUBSET Nodes
    BY LinkEnds DEF TopoInv, TopoType
  <1>3. new \in Matrix /\ Own(n, new).m_cPeers = left
    BY DelAdjFacts
  <1>4. Matrices' \subseteq Matrices \cup {new, EmptyMatrix} => History'
    BY <1>1, DelAdjFacts
  <1>5. /\ Closed \in Socket /\ Closed.state = "free" /\ Closed.queue = <<>>
        /\ \A x : Held(Closed, x) => x = EmptyMatrix
    <2>1. /\ Closed \in Socket /\ Closed.state = "free" /\ Closed.queue = <<>>
          /\ JoinReq.matrix = EmptyMatrix
      BY MatrixFacts
    <2>2. Closed.reply = JoinReq
      BY DEF Closed
    <2>3. QED  BY <2>1, <2>2 DEF Held
  <1>6. L[l] = Closed /\ \A k \in Links : k # l => L[k] = link[k]
    BY <1>2 DEF Sockets
  <1>7. Sockets(L)
    BY <1>2, <1>5 DEF Sockets
  <1>8. \A k \in Links : k[1] = n /\ k[2] \in left => k # l /\ link[k].open
    BY <1>2 DEF PeersOpen
  <1> HIDE DEF L, left, new
  <1>9. /\ Sockets(link')
        /\ \A k \in Links : link'[k].open = L[k].open
        /\ \A k \in Links : \A x : Held(link'[k], x) => Held(L[k], x) \/ x = new
    <2>1. \A k \in Links : k[1] = l[1] /\ k[2] \in left => L[k].open
      BY <1>6, <1>8
    <2>2. QED  BY <1>1, <1>7, <2>1, DelAdjSockets DEF new
  <1>10. \A k \in Links : k[1] # n => (link[k].open => link'[k].open)
    BY <1>6, <1>9
  <1>11. \A k \in Links : k[1] = n /\ k[2] \in left => link'[k].open
    BY <1>6, <1>8, <1>9
  <1>12. \A k \in Links : \A x : Held(link'[k], x) => Held(link[k], x) \/ x \in {new, EmptyMatrix}
    BY <1>5, <1>6, <1>9
  <1> HIDE DEF n
  <1>13. QED  BY <1>1, <1>2, <1>3, <1>4, <1>9, <1>10, <1>11, <1>12, ChangeStep

\* MessageManager's flush before it calls disconnect.
Flushed(L, l) ==
    [L EXCEPT ![l].down = FALSE,
              ![l].queue = IF L[l].state = "free" THEN <<>> ELSE <<Head(L[l].queue)>>]

\* flushQ keeps the sockets and adds no message.
LEMMA FlushSockets ==
  ASSUME NEW L, Sockets(L), NEW l \in Links, L[l].open
  PROVE  /\ Sockets(Flushed(L, l))
         /\ \A k \in Links : Flushed(L, l)[k].open = L[k].open
         /\ \A k \in Links : \A x : Held(Flushed(L, l)[k], x) => Held(L[k], x)
  <1> DEFINE S == Flushed(L, l)
             q == IF L[l].state = "free" THEN <<>> ELSE <<Head(L[l].queue)>>
  <1>1. /\ L[l] \in Socket /\ L[l].queue \in Seq(Message)
        /\ L[l].state = "free" <=> L[l].queue = <<>>
    BY DEF Sockets, Socket
  <1>2. /\ q \in Seq(Message) /\ (q = <<>> <=> L[l].state = "free")
        /\ \A i \in 1..Len(q) : i \in 1..Len(L[l].queue) /\ q[i] = L[l].queue[i]
    <2>1. CASE L[l].state = "free"
      BY <2>1
    <2>2. CASE L[l].state # "free"
      <3>1. L[l].queue # <<>> /\ Len(L[l].queue) \in Nat /\ Len(L[l].queue) >= 1
        BY <1>1, <2>2, EmptySeq
      <3>2. Head(L[l].queue) = L[l].queue[1] /\ Head(L[l].queue) \in Message
        BY <1>1, <3>1
      <3>3. QED  BY <2>2, <3>1, <3>2
    <2>3. QED  BY <2>1, <2>2
  <1>3. S[l] = [L[l] EXCEPT !.down = FALSE, !.queue = q]
    BY <1>1 DEF Sockets, Socket, Flushed
  <1>4. S = [L EXCEPT ![l] = S[l]]
    BY DEF Sockets, Flushed
  <1> HIDE DEF S, q
  <1>5. /\ S[l] \in Socket /\ S[l].queue = q /\ S[l].reply = L[l].reply
        /\ S[l].open = L[l].open /\ S[l].state = L[l].state
    <2>1. \A Q \in Seq(Message) :
            /\ [L[l] EXCEPT !.down = FALSE, !.queue = Q] \in Socket
            /\ [L[l] EXCEPT !.down = FALSE, !.queue = Q].queue = Q
            /\ [L[l] EXCEPT !.down = FALSE, !.queue = Q].reply = L[l].reply
            /\ [L[l] EXCEPT !.down = FALSE, !.queue = Q].open = L[l].open
            /\ [L[l] EXCEPT !.down = FALSE, !.queue = Q].state = L[l].state
      BY <1>1 DEF Socket
    <2>2. QED  BY <1>2, <1>3, <2>1
  <1>6. S \in [Links -> Socket] /\ \A k \in Links : k # l => S[k] = L[k]
    BY <1>4, <1>5 DEF Sockets
  <1>7. Sockets(S)
    <2>1. S[l].open = TRUE /\ (S[l].state = "free" <=> S[l].queue = <<>>)
      <3>1. L[l].open = TRUE
        BY <1>1 DEF Socket
      <3>2. QED  BY <1>2, <1>5, <3>1
    <2>2. ASSUME NEW k \in Links, k # l
          PROVE  /\ S[k].state = "free" <=> S[k].queue = <<>>
                 /\ ~S[k].open => S[k] = Closed
      BY <1>6, <2>2 DEF Sockets
    <2>3. ASSUME NEW k \in Links
          PROVE  /\ S[k].state = "free" <=> S[k].queue = <<>>
                 /\ ~S[k].open => S[k] = Closed
      <3>1. CASE k = l
        BY <2>1, <3>1
      <3>2. CASE k # l
        BY <2>2, <3>2
      <3>3. QED  BY <3>1, <3>2
    <2>4. QED  BY <1>6, <2>3 DEF Sockets
  <1>8. ASSUME NEW k \in Links, NEW x, Held(S[k], x) PROVE Held(L[k], x)
    BY <1>2, <1>5, <1>6, <1>8 DEF Held
  <1>9. QED  BY <1>5, <1>6, <1>7, <1>8 DEF S

\* disconnect keeps the invariant.
LEMMA StepDisconnect ==
  ASSUME TopoInv, NEW l \in Links, disconnect(l)
  PROVE  TopoInv'
  <1> DEFINE n == l[1]
             new == DelAdjTopology(l)
             P == m_pcOutBoundPeers[n]
             left == P \ {l[2]}
  <1>1. PICK L \in DelAdjLinks(l, Flushed(link, l), P) : link' = Send(L, l, JoinReq)
    BY DEF disconnect, Flushed
  <1>2. /\ TopoType /\ PeersOpen /\ Sockets(link) /\ n \in Nodes /\ left \in SUBSET Nodes
    BY LinkEnds DEF TopoInv, TopoType
  <1>3. /\ link[l].down
        /\ m_pcOutBoundPeers' = [m_pcOutBoundPeers EXCEPT ![n] = left]
        /\ m_cTopology' = [m_cTopology EXCEPT ![n] = new]
        /\ UNCHANGED <<full, opens, drops, restarts>>
    BY DEF disconnect
  <1>4. link[l].open
    <2>1. Closed.down = FALSE
      BY DEF Closed
    <2>2. QED  BY <1>2, <1>3, <2>1 DEF Sockets
  <1>5. new \in Matrix /\ Own(n, new).m_cPeers = left
    BY DelAdjFacts
  <1>6. Matrices' \subseteq Matrices \cup {new, EmptyMatrix} => History'
    BY <1>3, DelAdjFacts
  <1>7. /\ Sockets(Flushed(link, l))
        /\ \A k \in Links : Flushed(link, l)[k].open = link[k].open
        /\ \A k \in Links : \A x : Held(Flushed(link, l)[k], x) => Held(link[k], x)
    BY <1>2, <1>4, FlushSockets
  <1>8. \A k \in Links : k[1] = l[1] /\ k[2] \in P => link[k].open
    BY <1>2 DEF PeersOpen
  <1>9. \A k \in Links : k[1] = n /\ k[2] \in left => link[k].open
    BY <1>8
  <1> HIDE DEF left, new, P
  <1>10. /\ Sockets(L)
         /\ \A k \in Links : L[k].open = link[k].open
         /\ \A k \in Links : \A x : Held(L[k], x) => Held(link[k], x) \/ x = new
    <2>1. \A k \in Links : k[1] = l[1] /\ k[2] \in P => Flushed(link, l)[k].open
      BY <1>7, <1>8
    <2>2. /\ Sockets(L)
          /\ \A k \in Links : L[k].open = Flushed(link, l)[k].open
          /\ \A k \in Links : \A x : Held(L[k], x) => Held(Flushed(link, l)[k], x) \/ x = new
      BY <1>1, <1>7, <2>1, DelAdjSockets DEF new
    <2>3. QED  BY <1>7, <2>2
  <1>11. /\ Sockets(link')
         /\ \A k \in Links : link[k].open => link'[k].open
         /\ \A k \in Links : \A x : Held(link'[k], x) => Held(link[k], x) \/ x \in {new, EmptyMatrix}
    <2>1. JoinReq \in Message /\ JoinReq.matrix = EmptyMatrix
      BY MatrixFacts
    <2>2. /\ Sockets(link') /\ link'[l].open
          /\ \A k \in Links : k # l => link'[k] = L[k]
          /\ \A x : Held(link'[l], x) => Held(L[l], x) \/ x = EmptyMatrix
      <3>1. /\ Sockets(Send(L, l, JoinReq)) /\ Send(L, l, JoinReq)[l].open
            /\ \A k \in Links : k # l => Send(L, l, JoinReq)[k] = L[k]
            /\ \A x : Held(Send(L, l, JoinReq)[l], x) => Held(L[l], x) \/ x = JoinReq.matrix
        <4>1. L[l].open
          BY <1>4, <1>10
        <4>2. Sockets(L)
          BY <1>10
        <4>3. \A m \in Message :
                /\ Sockets(Send(L, l, m)) /\ Send(L, l, m)[l].open
                /\ \A k \in Links : k # l => Send(L, l, m)[k] = L[k]
                /\ \A x : Held(Send(L, l, m)[l], x) => Held(L[l], x) \/ x = m.matrix
          BY <4>1, <4>2, SendSockets
        <4>4. QED  BY <2>1, <4>3
      <3>2. QED  BY <1>1, <2>1, <3>1
    <2>3. QED  BY <1>10, <2>2
  <1>12. /\ \A k \in Links : k[1] # n => (link[k].open => link'[k].open)
         /\ \A k \in Links : k[1] = n /\ k[2] \in left => link'[k].open
    BY <1>9, <1>11
  <1> HIDE DEF n
  <1>13. QED  BY <1>2, <1>3, <1>5, <1>6, <1>11, <1>12, ChangeStep

-----------------------------------------------------------------------------
(* The theorems *)

\* At first no fabric knows anything and no peer is open.
LEMMA TopoInit ==
  Init => TopoInv
  <1> SUFFICES ASSUME Init PROVE TopoInv
    OBVIOUS
  <1>1. /\ EmptyMatrix \in Matrix /\ DOMAIN EmptyMatrix = {} /\ JoinReq.matrix = EmptyMatrix
        /\ Closed \in Socket /\ Closed.state = "free" /\ Closed.queue = <<>>
    BY MatrixFacts
  <1>2. Closed.reply = JoinReq
    BY DEF Closed
  <1>3. TopoType
    <2>1. Sockets(link)
      BY <1>1 DEF Init, Sockets
    <2>2. m_cTopology \in [Nodes -> Matrix]
      BY <1>1 DEF Init
    <2>3. QED  BY <2>1, <2>2, BoundsAssumption DEF Init, TopoType
  <1>4. ASSUME NEW mat \in Matrices PROVE mat = EmptyMatrix
    <2>1. CASE \E n \in Nodes : m_cTopology[n] = mat
      BY <2>1 DEF Init
    <2>2. CASE \E l \in Links : Held(link[l], mat)
      BY <1>1, <1>2, <2>2 DEF Init, Held
    <2>3. QED  BY <1>3, <2>1, <2>2, MatricesAre DEF TopoType
  <1>5. History
    BY <1>1, <1>4 DEF History, OwnerKnows, OwnerIsNewest, EqualSequenceNoChange
  <1>6. OwnEntryIsCurrent
    BY <1>1 DEF Init, OwnEntryIsCurrent, Own, NewEntry
  <1>7. PeersOpen
    BY LinkEnds DEF Init, PeersOpen
  <1>8. QED  BY <1>3, <1>5, <1>6, <1>7 DEF TopoInv

\* Every step keeps the invariant.
LEMMA TopoStep ==
  TopoInv /\ [Next]_vars => TopoInv'
  <1> SUFFICES ASSUME TopoInv, [Next]_vars PROVE TopoInv'
    OBVIOUS
  <1>1. CASE UNCHANGED vars
    <2>1. TopoType' /\ PeersOpen' /\ OwnEntryIsCurrent'
      BY <1>1 DEF vars, TopoInv, TopoType, PeersOpen, OwnEntryIsCurrent, Sockets
    <2>2. Matrices' = Matrices
      BY <1>1 DEF vars, Matrices
    <2>3. History'
      BY <1>1, <2>2 DEF vars, TopoInv, History, OwnerKnows, OwnerIsNewest, EqualSequenceNoChange
    <2>4. QED  BY <2>1, <2>3 DEF TopoInv
  <1>2. ASSUME NEW l \in Links, addPeer(l) PROVE TopoInv'
    BY <1>2, StepAddPeer
  <1>3. ASSUME NEW l \in Links, delPeer(l) PROVE TopoInv'
    BY <1>3, StepDelPeer
  <1>4. ASSUME NEW l \in Links, Serve(l) PROVE TopoInv'
    BY <1>4, StepJoinReq, StepTopoReq DEF Serve
  <1>5. ASSUME NEW l \in Links, ReadReply(l) PROVE TopoInv'
    BY <1>5, StepJoinRep, StepTopoRep DEF ReadReply
  <1>6. ASSUME NEW l \in Links, Lose(l) PROVE TopoInv'
    BY <1>6, StepLose
  <1>7. ASSUME NEW l \in Links, disconnect(l) PROVE TopoInv'
    BY <1>7, StepDisconnect
  <1>8. QED  BY <1>1, <1>2, <1>3, <1>4, <1>5, <1>6, <1>7 DEF Next

\* The inductive invariant of the gossip: the types, sockets to every joined
\* peer (addPeer, delPeer), and the history of the entries.
THEOREM TopologyInvariant ==
  Spec => []TopoInv
  BY TopoInit, TopoStep, PTL DEF Spec

\* Every message holds a matrix, and a request socket is free exactly when it
\* has no request (sendREQ, readEvent, delPeer).
THEOREM TopologyTypeOK ==
  Spec => []TypeOK
  <1>1. TopoInv => TypeOK
    <2> SUFFICES ASSUME TopoInv PROVE TypeOK
      OBVIOUS
    <2>1. \A n \in Nodes : IsMatrix(m_cTopology[n])
      BY MatrixFacts DEF TopoInv, TopoType
    <2>2. ASSUME NEW m \in Message PROVE IsMessage(m)
      <3>1. m.kind \in {"JOIN", "TOPO"} /\ m.matrix \in Matrix
        BY DEF Message
      <3>2. QED  BY <3>1, MatrixFacts DEF IsMessage
    <2>3. ASSUME NEW l \in Links PROVE IsLink(link[l])
      <3>1. /\ link[l] \in Socket
            /\ link[l].state = "free" <=> link[l].queue = <<>>
            /\ ~link[l].open => link[l] = Closed
        BY DEF TopoInv, TopoType, Sockets
      <3>2. /\ link[l].open \in BOOLEAN /\ link[l].down \in BOOLEAN
            /\ link[l].state \in {"free", "sent", "replied", "lost"}
            /\ link[l].reply \in Message /\ link[l].queue \in Seq(Message)
        BY <3>1 DEF Socket
      <3>3. \A i \in DOMAIN link[l].queue : link[l].queue[i] \in Message
        BY <3>2
      <3>4. QED  BY <2>2, <3>1, <3>2, <3>3 DEF IsLink
    <2>4. QED  BY <2>1, <2>3 DEF TopoInv, TopoType, TypeOK
  <1>2. QED  BY <1>1, TopologyInvariant, PTL

\* A fabric's own entry lists exactly the peers that have joined, whatever it
\* merged (addAdj, delAdj, processJSON).
THEOREM OwnEntryCurrent ==
  Spec => []OwnEntryIsCurrent
  <1>1. TopoInv => OwnEntryIsCurrent
    BY DEF TopoInv
  <1>2. QED  BY <1>1, TopologyInvariant, PTL

\* No matrix, kept or under way, is ahead of a fabric about that fabric.
THEOREM OwnersNewest ==
  Spec => []OwnerIsNewest
  <1>1. TopoInv => OwnerIsNewest
    BY DEF TopoInv, History
  <1>2. QED  BY <1>1, TopologyInvariant, PTL

\* What RealtimeFabricSparseAdj::equals relies on: two entries of a server
\* with the same sequence number are the same entry.
THEOREM SequenceIdentifiesEntry ==
  Spec => []EqualSequenceNoChange
  <1>1. TopoInv => EqualSequenceNoChange
    BY DEF TopoInv, History
  <1>2. QED  BY <1>1, TopologyInvariant, PTL

-----------------------------------------------------------------------------
(* What a peer knows *)

\* A request on socket k that its peer has not served yet holds entry e of
\* server s.
Tells(k, s, e) ==
    \E i \in 1..Len(k.queue) :
        /\ i > 1 \/ k.state = "sent"
        /\ k.queue[i].kind = "TOPO"
        /\ s \in DOMAIN k.queue[i].matrix /\ k.queue[i].matrix[s] = e

\* Matrix mat has the entry e of server s.
Knows(mat, s, e) == s \in DOMAIN mat /\ mat[s] = e

\* l[2] has joined and its session is up.
Joined(l) == l[2] \in m_pcOutBoundPeers[l[1]] /\ ~link[l].down

\* The entry that l[1] has of itself.
Current(n) == Own(n, m_cTopology[n])

\* A joined peer is never cut off: as long as its session is up its socket is
\* not stuck, and it knows its neighbour's current entry or a request with
\* that entry is on the way to it, unless FABRIC_TO_CASSI was full and addAdj
\* or delAdj returned before they sent it.
PeersTold ==
    \A l \in Links : Joined(l) =>
        /\ link[l].state # "lost"
        /\ ~full => \/ Knows(m_cTopology[l[2]], l[1], Current(l[1]))
                    \/ Tells(link[l], l[1], Current(l[1]))

\* What a fabric knows of a server is never forgotten and never replaced by an
\* older entry (processJSON, addAdj, delAdj).
NeverForgets ==
    \A n \in Nodes : \A s \in DOMAIN m_cTopology[n] :
        /\ s \in DOMAIN m_cTopology'[n]
        /\ m_cTopology'[n][s].m_iSequence >= m_cTopology[n][s].m_iSequence

\* sendREQ leaves what is under way and adds the request.
LEMMA SendTells ==
  ASSUME NEW L, Sockets(L), NEW l \in Links, NEW m \in Message
  PROVE  /\ Send(L, l, m)[l].down = L[l].down
         /\ Send(L, l, m)[l].state = "lost" => L[l].state = "lost"
         /\ \A s, e : Tells(L[l], s, e) => Tells(Send(L, l, m)[l], s, e)
         /\ \A s, e : m.kind = "TOPO" /\ Knows(m.matrix, s, e) => Tells(Send(L, l, m)[l], s, e)
         /\ \A k \in Links : k # l => Send(L, l, m)[k] = L[k]
  <1> DEFINE S == Send(L, l, m)
             q == L[l].queue
  <1>1. L[l] \in Socket /\ q \in Seq(Message) /\ (L[l].state = "free" <=> q = <<>>)
    BY DEF Sockets, Socket
  <1>2. /\ S[l].queue = Append(q, m) /\ S[l].down = L[l].down
        /\ S[l].state = IF L[l].state = "free" THEN "sent" ELSE L[l].state
        /\ \A k \in Links : k # l => S[k] = L[k]
    BY <1>1 DEF Send, Sockets, Socket
  <1>3. /\ Len(q) \in Nat /\ Len(Append(q, m)) = Len(q) + 1
        /\ \A i \in 1..Len(q) : Append(q, m)[i] = q[i]
        /\ Append(q, m)[Len(q) + 1] = m
    BY <1>1
  <1>4. Len(q) = 0 <=> q = <<>>
    BY <1>1, EmptySeq
  <1> HIDE DEF S, q
  <1>5. ASSUME NEW s, NEW e, Tells(L[l], s, e) PROVE Tells(S[l], s, e)
    <2>1. PICK i \in 1..Len(q) : /\ i > 1 \/ L[l].state = "sent"
                                 /\ q[i].kind = "TOPO" /\ s \in DOMAIN q[i].matrix
                                 /\ q[i].matrix[s] = e
      BY <1>5 DEF Tells, q
    <2>2. i \in 1..Len(S[l].queue) /\ S[l].queue[i] = q[i] /\ (i > 1 \/ S[l].state = "sent")
      BY <1>2, <1>3, <2>1
    <2>3. QED  BY <2>1, <2>2 DEF Tells
  <1>6. ASSUME NEW s, NEW e, m.kind = "TOPO", Knows(m.matrix, s, e) PROVE Tells(S[l], s, e)
    <2>1. /\ Len(q) + 1 \in 1..Len(S[l].queue) /\ S[l].queue[Len(q) + 1] = m
          /\ Len(q) + 1 > 1 \/ S[l].state = "sent"
      BY <1>1, <1>2, <1>3, <1>4
    <2>2. QED  BY <1>6, <2>1 DEF Tells, Knows
  <1>7. QED  BY <1>2, <1>5, <1>6 DEF S

\* sendOutTopoReq puts the matrix on the way to each of the peers.
LEMMA SendOutTells ==
  ASSUME NEW L, Sockets(L), NEW n, NEW peers, NEW mat \in Matrix
  PROVE  \A l \in Links :
         /\ SendOutTopoReq(L, n, peers, mat)[l].down = L[l].down
         /\ SendOutTopoReq(L, n, peers, mat)[l].state = "lost" => L[l].state = "lost"
         /\ \A s, e : Tells(L[l], s, e) => Tells(SendOutTopoReq(L, n, peers, mat)[l], s, e)
         /\ l[1] = n /\ l[2] \in peers =>
              \A s, e : Knows(mat, s, e) => Tells(SendOutTopoReq(L, n, peers, mat)[l], s, e)
         /\ l[1] # n => SendOutTopoReq(L, n, peers, mat)[l] = L[l]
  <1> DEFINE m == TopoReq(mat)
  <1>1. m \in Message /\ m.matrix = mat /\ m.kind = "TOPO"
    BY MatrixFacts DEF TopoReq
  <1> SUFFICES ASSUME NEW l \in Links
               PROVE  /\ SendOutTopoReq(L, n, peers, mat)[l].down = L[l].down
                      /\ SendOutTopoReq(L, n, peers, mat)[l].state = "lost" => L[l].state = "lost"
                      /\ \A s, e : Tells(L[l], s, e) => Tells(SendOutTopoReq(L, n, peers, mat)[l], s, e)
                      /\ l[1] = n /\ l[2] \in peers =>
                          \A s, e : Knows(mat, s, e) => Tells(SendOutTopoReq(L, n, peers, mat)[l], s, e)
                      /\ l[1] # n => SendOutTopoReq(L, n, peers, mat)[l] = L[l]
    OBVIOUS
  <1>2. SendOutTopoReq(L, n, peers, mat)[l] =
           IF l[1] = n /\ l[2] \in peers THEN Send(L, l, m)[l] ELSE L[l]
    BY DEF SendOutTopoReq
  <1> HIDE DEF m
  <1>3. /\ Send(L, l, m)[l].down = L[l].down
        /\ Send(L, l, m)[l].state = "lost" => L[l].state = "lost"
        /\ \A s, e : Tells(L[l], s, e) => Tells(Send(L, l, m)[l], s, e)
        /\ \A s, e : Knows(mat, s, e) => Tells(Send(L, l, m)[l], s, e)
    BY <1>1, SendTells
  <1>4. CASE l[1] = n /\ l[2] \in peers
    BY <1>2, <1>3, <1>4
  <1>5. CASE ~(l[1] = n /\ l[2] \in peers)
    BY <1>2, <1>5
  <1>6. QED  BY <1>4, <1>5

\* readEvent takes the answered request away and lets the next one out.
LEMMA FinishTells ==
  ASSUME NEW L, Sockets(L), NEW l \in Links, L[l].state = "replied"
  PROVE  /\ Finish(L, l)[l].down = L[l].down /\ Finish(L, l)[l].state # "lost"
         /\ \A s, e : Tells(L[l], s, e) => Tells(Finish(L, l)[l], s, e)
         /\ \A k \in Links : k # l => Finish(L, l)[k] = L[k]
  <1> DEFINE S == Finish(L, l)
             q == L[l].queue
  <1>1. L[l] \in Socket /\ q \in Seq(Message) /\ q # <<>>
    BY DEF Sockets, Socket
  <1>2. /\ S[l].queue = Tail(q) /\ S[l].down = L[l].down
        /\ S[l].state = IF Len(q) = 1 THEN "free" ELSE "sent"
        /\ \A k \in Links : k # l => S[k] = L[k]
    BY <1>1 DEF Finish, Sockets, Socket
  <1>3. /\ Len(q) \in Nat /\ Len(Tail(q)) = Len(q) - 1
        /\ \A i \in 1..Len(Tail(q)) : Tail(q)[i] = q[i + 1]
    BY <1>1
  <1> HIDE DEF S, q
  <1>4. ASSUME NEW s, NEW e, Tells(L[l], s, e) PROVE Tells(S[l], s, e)
    <2>1. PICK i \in 1..Len(q) : /\ i > 1 \/ L[l].state = "sent"
                                 /\ q[i].kind = "TOPO" /\ s \in DOMAIN q[i].matrix
                                 /\ q[i].matrix[s] = e
      BY <1>4 DEF Tells, q
    <2>2. i > 1
      BY <2>1
    <2>3. i - 1 \in 1..Len(S[l].queue) /\ S[l].queue[i - 1] = q[i] /\ S[l].state = "sent"
      BY <1>2, <1>3, <2>1, <2>2
    <2>4. QED  BY <2>1, <2>3 DEF Tells
  <1>5. QED  BY <1>2, <1>4 DEF S

\* An answer leaves the requests behind the first one.
LEMMA ReplyTells ==
  ASSUME NEW L, Sockets(L), NEW l \in Links, L[l].state = "sent", NEW m
  PROVE  /\ Replied(L, l, m)[l].down = L[l].down /\ Replied(L, l, m)[l].state # "lost"
         /\ \A s, e : Tells(L[l], s, e) =>
              \/ Tells(Replied(L, l, m)[l], s, e)
              \/ Head(L[l].queue).kind = "TOPO" /\ Knows(Head(L[l].queue).matrix, s, e)
         /\ \A k \in Links : k # l => Replied(L, l, m)[k] = L[k]
  <1> DEFINE S == Replied(L, l, m)
             q == L[l].queue
  <1>1. L[l] \in Socket /\ q \in Seq(Message) /\ q # <<>>
    BY DEF Sockets, Socket
  <1>2. /\ S[l].queue = q /\ S[l].down = L[l].down /\ S[l].state = "replied"
        /\ \A k \in Links : k # l => S[k] = L[k]
    BY <1>1 DEF Replied, Sockets, Socket
  <1>3. Head(q) = q[1] /\ Len(q) \in Nat
    BY <1>1
  <1> HIDE DEF S, q
  <1>4. ASSUME NEW s, NEW e, Tells(L[l], s, e)
        PROVE  Tells(S[l], s, e) \/ (Head(q).kind = "TOPO" /\ Knows(Head(q).matrix, s, e))
    <2>1. PICK i \in 1..Len(q) : /\ q[i].kind = "TOPO" /\ s \in DOMAIN q[i].matrix
                                 /\ q[i].matrix[s] = e
      BY <1>4 DEF Tells, q
    <2>2. CASE i = 1
      BY <1>3, <2>1, <2>2 DEF Knows
    <2>3. CASE i # 1
      <3>1. i > 1 /\ i \in 1..Len(S[l].queue) /\ S[l].queue[i] = q[i]
        BY <1>2, <1>3, <2>1, <2>3
      <3>2. QED  BY <2>1, <3>1 DEF Tells
    <2>4. QED  BY <2>2, <2>3
  <1>5. QED  BY <1>2, <1>4 DEF S, q

\* Merging keeps what is current, and takes it over from the message.
LEMMA MergeKnows ==
  ASSUME TopoType, History, NEW n \in Nodes, NEW in \in Matrices, NEW s \in Nodes, NEW new,
         new = Merged(n, m_cTopology[n], in),
         \/ Knows(m_cTopology[n], s, Current(s))
         \/ Knows(in, s, Current(s))
  PROVE  Knows(new, s, Current(s))
  <1> DEFINE mat == m_cTopology[n]
             c == Current(s)
  <1>1. mat \in Matrices /\ mat \in Matrix /\ in \in Matrix
    BY MatricesAre, MatricesType DEF TopoType
  <1>2. /\ s \in DOMAIN mat => mat[s].m_iSequence <= c.m_iSequence
        /\ s \in DOMAIN in => in[s].m_iSequence <= c.m_iSequence
    BY <1>1 DEF History, OwnerIsNewest, Current
  <1>3. s \in DOMAIN mat /\ s \in DOMAIN in /\ mat[s].m_iSequence = in[s].m_iSequence
        => mat[s] = in[s]
    BY <1>1 DEF History, EqualSequenceNoChange
  <1>4. /\ s \in DOMAIN mat => mat[s].m_iSequence \in Nat
        /\ s \in DOMAIN in => in[s].m_iSequence \in Nat
    BY <1>1, MatrixEntry
  <1>5. s \in DOMAIN new
    BY DEF Knows, Merged
  <1>6. CASE s = n
    <2>1. n \in DOMAIN m_cTopology[n]
      BY <1>1, <1>6 DEF Knows, History, OwnerKnows
    <2>2. Own(n, new) = Own(n, m_cTopology[n])
      BY MergeCopies
    <2>3. QED  BY <1>5, <1>6, <2>1, <2>2 DEF Knows, Current, Own
  <1>7. CASE s # n
    <2>1. /\ s \notin DOMAIN in => new[s] = mat[s]
          /\ s \in DOMAIN in /\ s \notin DOMAIN mat => new[s] = in[s]
          /\ s \in DOMAIN in /\ s \in DOMAIN mat /\ in[s].m_iSequence > mat[s].m_iSequence
             => new[s] = in[s]
          /\ s \in DOMAIN in /\ s \in DOMAIN mat /\ ~(in[s].m_iSequence > mat[s].m_iSequence)
             => new[s] = mat[s]
      <3>1. s \in DOMAIN mat \cup DOMAIN in
        BY <1>5 DEF Merged
      <3>2. new[s] = IF s \notin DOMAIN in THEN mat[s]
                     ELSE IF s \notin DOMAIN mat \/ in[s].m_iSequence > mat[s].m_iSequence
                     THEN in[s] ELSE mat[s]
        BY <1>7, <3>1 DEF Merged
      <3> HIDE DEF mat
      <3>3. QED  BY <3>2
    <2> HIDE DEF mat, c
    <2>2. CASE s \in DOMAIN mat /\ mat[s] = c
      <3>1. s \in DOMAIN in => ~(in[s].m_iSequence > mat[s].m_iSequence)
        BY <1>2, <1>4, <2>2
      <3>2. new[s] = mat[s]
        BY <2>1, <2>2, <3>1
      <3>3. QED  BY <1>5, <2>2, <3>2 DEF Knows, c
    <2>3. CASE s \in DOMAIN in /\ in[s] = c
      <3>1. CASE s \in DOMAIN mat /\ ~(in[s].m_iSequence > mat[s].m_iSequence)
        <4>1. mat[s].m_iSequence = in[s].m_iSequence
          BY <1>2, <1>4, <2>3, <3>1
        <4>2. new[s] = c
          BY <1>3, <2>1, <2>3, <3>1, <4>1
        <4>3. QED  BY <1>5, <4>2 DEF Knows, c
      <3>2. CASE ~(s \in DOMAIN mat /\ ~(in[s].m_iSequence > mat[s].m_iSequence))
        <4>1. new[s] = c
          BY <2>1, <2>3, <3>2
        <4>2. QED  BY <1>5, <4>1 DEF Knows, c
      <3>3. QED  BY <3>1, <3>2
    <2>4. QED  BY <2>2, <2>3 DEF Knows, mat, c
  <1>8. QED  BY <1>6, <1>7

\* A step of fabric n, socket by socket: either the peer's entry is sent, or
\* the entry is as it was and so is the peer's knowledge of it.
LEMMA ToldStep ==
  ASSUME TopoType, PeersTold, UNCHANGED full,
         \A l \in Links : Joined(l)' =>
            /\ link'[l].state # "lost"
            /\ ~full => \/ Tells(link'[l], l[1], Current(l[1])')
                        \/ Knows(m_cTopology'[l[2]], l[1], Current(l[1])')
                        \/ /\ Joined(l)
                           /\ Current(l[1])' = Current(l[1])
                           /\ Knows(m_cTopology[l[2]], l[1], Current(l[1]))
                              => Knows(m_cTopology'[l[2]], l[1], Current(l[1]))
                           /\ Tells(link[l], l[1], Current(l[1]))
                              => \/ Tells(link'[l], l[1], Current(l[1]))
                                 \/ Knows(m_cTopology'[l[2]], l[1], Current(l[1]))
  PROVE  PeersTold'
  <1> SUFFICES ASSUME NEW l \in Links, Joined(l)'
               PROVE  /\ link'[l].state # "lost"
                      /\ ~full => \/ Knows(m_cTopology'[l[2]], l[1], Current(l[1])')
                                  \/ Tells(link'[l], l[1], Current(l[1])')
    BY DEF PeersTold
  <1>1. link'[l].state # "lost"
    OBVIOUS
  <1>2. ASSUME ~full
        PROVE  \/ Knows(m_cTopology'[l[2]], l[1], Current(l[1])')
               \/ Tells(link'[l], l[1], Current(l[1])')
    <2>1. CASE \/ Tells(link'[l], l[1], Current(l[1])')
               \/ Knows(m_cTopology'[l[2]], l[1], Current(l[1])')
      BY <2>1
    <2>2. CASE /\ Joined(l)
               /\ Current(l[1])' = Current(l[1])
               /\ Knows(m_cTopology[l[2]], l[1], Current(l[1]))
                  => Knows(m_cTopology'[l[2]], l[1], Current(l[1]))
               /\ Tells(link[l], l[1], Current(l[1]))
                  => \/ Tells(link'[l], l[1], Current(l[1]))
                     \/ Knows(m_cTopology'[l[2]], l[1], Current(l[1]))
      <3>1. \/ Knows(m_cTopology[l[2]], l[1], Current(l[1]))
            \/ Tells(link[l], l[1], Current(l[1]))
        BY <1>2, <2>2 DEF PeersTold
      <3>2. \/ Knows(m_cTopology'[l[2]], l[1], Current(l[1]))
            \/ Tells(link'[l], l[1], Current(l[1]))
        BY <2>2, <3>1
      <3>3. QED  BY <2>2, <3>2
    <2>3. QED  BY <1>2, <2>1, <2>2
  <1>3. QED  BY <1>1, <1>2

\* Steps of the sockets alone.
LEMMA ToldSockets ==
  ASSUME TopoType, PeersTold, UNCHANGED <<m_cTopology, m_pcOutBoundPeers, full>>,
         \A l \in Links : Joined(l)' =>
            /\ Joined(l)
            /\ link'[l].state = "lost" => link[l].state = "lost"
            /\ \A s, e : Tells(link[l], s, e) => Tells(link'[l], s, e)
  PROVE  PeersTold'
  <1>1. \A n : Current(n)' = Current(n)
    BY DEF Current
  <1>2. ASSUME NEW l \in Links, Joined(l)'
        PROVE  /\ link'[l].state # "lost"
               /\ Joined(l)
               /\ Current(l[1])' = Current(l[1])
               /\ Tells(link[l], l[1], Current(l[1])) => Tells(link'[l], l[1], Current(l[1]))
    BY <1>1, <1>2 DEF PeersTold
  <1>3. QED  BY <1>2, ToldStep

\* addPeer opens a socket to a peer that has not joined.
LEMMA ToldAddPeer ==
  ASSUME TopoInv, PeersTold, NEW l \in Links, addPeer(l)
  PROVE  PeersTold'
  <1>1. /\ ~link[l].open /\ link' = Send([link EXCEPT ![l].open = TRUE], l, JoinReq)
        /\ UNCHANGED <<m_cTopology, m_pcOutBoundPeers, full>>
    BY DEF addPeer
  <1>2. link \in [Links -> Socket] /\ TopoType
    BY DEF TopoInv, TopoType, Sockets
  <1>3. \A k \in Links : k # l => link'[k] = link[k]
    BY <1>1, <1>2 DEF Send
  <1>4. ~Joined(l)'
    BY <1>1 DEF TopoInv, PeersOpen, Joined
  <1>5. QED  BY <1>1, <1>2, <1>3, <1>4, ToldSockets DEF Joined

\* processJoinReq answers a request that holds no matrix.
LEMMA ToldJoinReq ==
  ASSUME TopoInv, PeersTold, NEW l \in Links, processJoinReq(l)
  PROVE  PeersTold'
  <1>1. /\ link[l].state = "sent" /\ Head(link[l].queue).kind = "JOIN"
        /\ link' = Replied(link, l, JoinReq)
        /\ UNCHANGED <<m_cTopology, m_pcOutBoundPeers, full>>
    BY DEF processJoinReq, Replied
  <1>2. TopoType /\ Sockets(link)
    BY DEF TopoInv, TopoType
  <1>3. /\ link'[l].down = link[l].down /\ link'[l].state # "lost"
        /\ \A s, e : Tells(link[l], s, e) => Tells(link'[l], s, e)
        /\ \A k \in Links : k # l => link'[k] = link[k]
    <2>1. /\ link'[l].down = link[l].down /\ link'[l].state # "lost"
          /\ \A s, e : Tells(link[l], s, e) =>
               \/ Tells(link'[l], s, e)
               \/ Head(link[l].queue).kind = "TOPO" /\ Knows(Head(link[l].queue).matrix, s, e)
          /\ \A k \in Links : k # l => link'[k] = link[k]
      BY <1>1, <1>2, ReplyTells
    <2>2. QED  BY <1>1, <2>1
  <1>4. QED  BY <1>1, <1>2, <1>3, ToldSockets DEF Joined

\* A lost session: the peer has still joined, but its session is down.
LEMMA ToldLose ==
  ASSUME TopoInv, PeersTold, NEW l \in Links, Lose(l)
  PROVE  PeersTold'
  <1>1. PICK kept \in SUBSET {l} : link' = Broken({l}, kept)
    BY DEF Lose
  <1>2. UNCHANGED <<m_cTopology, m_pcOutBoundPeers, full>> /\ TopoType /\ link[l] \in Socket
    BY DEF Lose, TopoInv, TopoType, Sockets
  <1>3. \A k \in Links : k # l => link'[k] = link[k]
    BY <1>1 DEF Broken
  <1>4. link'[l].down
    BY <1>1, <1>2 DEF Broken, Socket
  <1>5. QED  BY <1>2, <1>3, <1>4, ToldSockets DEF Joined

\* processTopoReq: the peer takes the entry over.
LEMMA ToldTopoReq ==
  ASSUME TopoInv, PeersTold, NEW l \in Links, processTopoReq(l)
  PROVE  PeersTold'
  <1> DEFINE me == l[2]
             in == Head(link[l].queue).matrix
             new == Merged(me, m_cTopology[me], in)
             ans == IF ChangeApplied(me, m_cTopology[me], in) THEN new ELSE in
  <1>1. /\ link[l].state = "sent"
        /\ m_cTopology' = [m_cTopology EXCEPT ![me] = new]
        /\ link' = Replied(link, l, TopoReq(ans))
        /\ UNCHANGED <<m_pcOutBoundPeers, full>>
    BY DEF processTopoReq, Replied
  <1>2. TopoType /\ History /\ Sockets(link) /\ me \in Nodes
    BY LinkEnds DEF TopoInv, TopoType
  <1>3. in \in Matrices
    <2>1. link[l].queue \in Seq(Message) /\ link[l].queue # <<>>
      BY <1>1, <1>2 DEF Sockets, Socket
    <2>2. 1 \in 1..Len(link[l].queue) /\ Head(link[l].queue) = link[l].queue[1]
      BY <2>1, EmptySeq
    <2>3. Held(link[l], in)
      BY <2>2 DEF Held
    <2>4. QED  BY <1>2, <2>3, MatricesAre
  <1>4. /\ link'[l].down = link[l].down /\ link'[l].state # "lost"
        /\ \A s, e : Tells(link[l], s, e) => Tells(link'[l], s, e) \/ Knows(in, s, e)
        /\ \A k \in Links : k # l => link'[k] = link[k]
    BY <1>1, <1>2, ReplyTells
  <1> HIDE DEF in
  <1>5. Own(me, new) = Own(me, m_cTopology[me])
    BY <1>2, <1>3, MergeCopies
  <1>6. \A s \in Nodes : Knows(m_cTopology[me], s, Current(s)) \/ Knows(in, s, Current(s))
                         => Knows(new, s, Current(s))
    BY <1>2, <1>3, MergeKnows
  <1> HIDE DEF new, ans, me
  <1>7. \A s \in Nodes : Current(s)' = Current(s)
    BY <1>1, <1>2, <1>5 DEF Current, TopoType
  <1>8. ASSUME NEW k \in Links, Joined(k)'
        PROVE  /\ link'[k].state # "lost"
               /\ Joined(k)
               /\ Current(k[1])' = Current(k[1])
               /\ Knows(m_cTopology[k[2]], k[1], Current(k[1]))
                  => Knows(m_cTopology'[k[2]], k[1], Current(k[1]))
               /\ Tells(link[k], k[1], Current(k[1]))
                  => \/ Tells(link'[k], k[1], Current(k[1]))
                     \/ Knows(m_cTopology'[k[2]], k[1], Current(k[1]))
    <2>1. k[1] \in Nodes /\ k[2] \in Nodes
      BY LinkEnds
    <2>2. Joined(k) /\ link'[k].state # "lost"
      BY <1>1, <1>4, <1>8 DEF Joined, PeersTold
    <2>3. m_cTopology'[k[2]] = IF k[2] = me THEN new ELSE m_cTopology[k[2]]
      BY <1>1, <1>2, <2>1 DEF TopoType
    <2>4. Knows(m_cTopology[k[2]], k[1], Current(k[1]))
          => Knows(m_cTopology'[k[2]], k[1], Current(k[1]))
      BY <1>6, <2>1, <2>3
    <2>5. Tells(link[k], k[1], Current(k[1]))
          => \/ Tells(link'[k], k[1], Current(k[1]))
             \/ Knows(m_cTopology'[k[2]], k[1], Current(k[1]))
      <3>1. CASE k = l
        BY <1>4, <1>6, <2>1, <2>3, <3>1 DEF me
      <3>2. CASE k # l
        BY <1>4, <3>2
      <3>3. QED  BY <3>1, <3>2
    <2>6. QED  BY <1>7, <2>1, <2>2, <2>4, <2>5
  <1>9. QED  BY <1>1, <1>2, <1>8, ToldStep

\* Fabric n changes its own entry and tells it to the peers P it has then.
LEMMA ToldChange ==
  ASSUME TopoType, PeersTold, UNCHANGED full, NEW n \in Nodes, NEW new, NEW P,
         m_cTopology' = [m_cTopology EXCEPT ![n] = new],
         m_pcOutBoundPeers' = [m_pcOutBoundPeers EXCEPT ![n] = P],
         \A s \in DOMAIN m_cTopology[n] :
            s # n => s \in DOMAIN new /\ new[s] = m_cTopology[n][s],
         \A k \in Links : k[1] = n /\ k[2] \in P /\ ~link'[k].down =>
            link'[k].state # "lost" /\ (~full => Tells(link'[k], n, Own(n, new))),
         \A k \in Links : k[1] # n => link'[k] = link[k]
  PROVE  PeersTold'
  <1>1. /\ m_cTopology'[n] = new /\ m_pcOutBoundPeers'[n] = P
        /\ \A s \in Nodes : s # n => /\ m_cTopology'[s] = m_cTopology[s]
                                     /\ m_pcOutBoundPeers'[s] = m_pcOutBoundPeers[s]
    BY DEF TopoType
  <1>2. /\ Current(n)' = Own(n, new)
        /\ \A s \in Nodes : s # n => Current(s)' = Current(s)
    BY <1>1 DEF Current
  <1>3. ASSUME NEW k \in Links, Joined(k)', k[1] = n
        PROVE  /\ link'[k].state # "lost"
               /\ ~full => Tells(link'[k], k[1], Current(k[1])')
    BY <1>1, <1>2, <1>3 DEF Joined
  <1>4. ASSUME NEW k \in Links, Joined(k)', k[1] # n
        PROVE  /\ link'[k].state # "lost"
               /\ Joined(k)
               /\ Current(k[1])' = Current(k[1])
               /\ Knows(m_cTopology[k[2]], k[1], Current(k[1]))
                  => Knows(m_cTopology'[k[2]], k[1], Current(k[1]))
               /\ Tells(link[k], k[1], Current(k[1])) => Tells(link'[k], k[1], Current(k[1]))
    <2>1. k[1] \in Nodes /\ k[2] \in Nodes /\ link'[k] = link[k]
      BY <1>4, LinkEnds
    <2>2. Joined(k)
      BY <1>1, <1>4, <2>1 DEF Joined
    <2>3. link'[k].state # "lost"
      BY <2>1, <2>2 DEF PeersTold
    <2>4. Knows(m_cTopology[k[2]], k[1], Current(k[1]))
          => Knows(m_cTopology'[k[2]], k[1], Current(k[1]))
      BY <1>1, <1>4, <2>1 DEF Knows
    <2>5. QED  BY <1>2, <1>4, <2>1, <2>2, <2>3, <2>4
  <1>5. QED  BY <1>3, <1>4, ToldStep

\* processTopoRep: the fabric merges, and only sends.
LEMMA ToldTopoRep ==
  ASSUME TopoInv, PeersTold, NEW l \in Links, processTopoRep(l)
  PROVE  PeersTold'
  <1> DEFINE n == l[1]
             in == link[l].reply.matrix
             new == Merged(n, m_cTopology[n], in)
             P == m_pcOutBoundPeers[n]
  <1>1. PICK T \in {link, SendOutTopoReq(link, n, P, new)} : link' = Finish(T, l)
    BY DEF processTopoRep
  <1>2. /\ link[l].state = "replied"
        /\ m_cTopology' = [m_cTopology EXCEPT ![n] = new]
        /\ UNCHANGED <<m_pcOutBoundPeers, full>>
    BY DEF processTopoRep
  <1>3. TopoType /\ PeersOpen /\ History /\ Sockets(link) /\ n \in Nodes
    BY LinkEnds DEF TopoInv, TopoType
  <1>4. in \in Matrices
    BY <1>3, MatricesAre DEF Held
  <1> HIDE DEF in
  <1>5. new \in Matrix /\ Own(n, new) = Own(n, m_cTopology[n])
    BY <1>3, <1>4, MergeCopies
  <1>6. \A s \in Nodes : Knows(m_cTopology[n], s, Current(s)) => Knows(new, s, Current(s))
    BY <1>3, <1>4, MergeKnows
  <1> HIDE DEF new
  <1>7. /\ Sockets(T) /\ T[l].state = "replied"
        /\ \A k \in Links : /\ T[k].down = link[k].down
                            /\ T[k].state = "lost" => link[k].state = "lost"
                            /\ \A s, e : Tells(link[k], s, e) => Tells(T[k], s, e)
    <2>1. CASE T = link
      BY <1>2, <1>3, <2>1
    <2>2. CASE T = SendOutTopoReq(link, n, P, new)
      <3>1. Sockets(T)
        BY <1>3, <1>5, <2>2, SendOutSockets DEF PeersOpen
      <3>2. T[l].state = "replied"
        <4>1. link[l] \in Socket
          BY <1>3 DEF Sockets
        <4>2. Send(link, l, TopoReq(new))[l].state = "replied"
          BY <1>2, <1>3, <4>1 DEF Send, Sockets, Socket
        <4>3. QED  BY <1>2, <2>2, <4>2 DEF SendOutTopoReq
      <3>3. QED  BY <1>3, <1>5, <2>2, <3>1, <3>2, SendOutTells
    <2>3. QED  BY <1>1, <2>1, <2>2
  <1>8. /\ \A k \in Links : /\ link'[k].down = link[k].down
                            /\ link'[k].state = "lost" => link[k].state = "lost"
                            /\ \A s, e : Tells(link[k], s, e) => Tells(link'[k], s, e)
    <2>1. /\ link'[l].down = T[l].down /\ link'[l].state # "lost"
          /\ \A s, e : Tells(T[l], s, e) => Tells(link'[l], s, e)
          /\ \A k \in Links : k # l => link'[k] = T[k]
      BY <1>1, <1>7, FinishTells
    <2>2. QED  BY <1>7, <2>1
  <1> HIDE DEF n
  <1>9. \A s \in Nodes : Current(s)' = Current(s)
    BY <1>2, <1>3, <1>5 DEF Current, TopoType
  <1>10. ASSUME NEW k \in Links, Joined(k)'
         PROVE  /\ link'[k].state # "lost"
                /\ Joined(k)
                /\ Current(k[1])' = Current(k[1])
                /\ Knows(m_cTopology[k[2]], k[1], Current(k[1]))
                   => Knows(m_cTopology'[k[2]], k[1], Current(k[1]))
                /\ Tells(link[k], k[1], Current(k[1])) => Tells(link'[k], k[1], Current(k[1]))
    <2>1. k[1] \in Nodes /\ k[2] \in Nodes
      BY LinkEnds
    <2>2. Joined(k)
      BY <1>2, <1>8, <1>10 DEF Joined
    <2>3. link'[k].state # "lost"
      BY <1>8, <2>2 DEF PeersTold
    <2>4. m_cTopology'[k[2]] = IF k[2] = n THEN new ELSE m_cTopology[k[2]]
      BY <1>2, <1>3, <2>1 DEF TopoType
    <2>5. Knows(m_cTopology[k[2]], k[1], Current(k[1]))
          => Knows(m_cTopology'[k[2]], k[1], Current(k[1]))
      BY <1>6, <2>1, <2>4
    <2>6. QED  BY <1>8, <1>9, <2>1, <2>2, <2>3, <2>5
  <1>11. QED  BY <1>2, <1>3, <1>10, ToldStep

\* processJoinRep: addAdj tells everyone, the new peer too.
LEMMA ToldJoinRep ==
  ASSUME TopoInv, PeersTold, NEW l \in Links, processJoinRep(l)
  PROVE  PeersTold'
  <1> DEFINE n == l[1]
             old == m_cTopology[n]
             new == AddAdj(n, old, l[2])
             P == m_pcOutBoundPeers[n] \cup {l[2]}
             e == [m_iSequence |-> Own(n, old).m_iSequence + 1,
                   m_cPeers |-> Own(n, old).m_cPeers \cup {l[2]}]
  <1>1. PICK T \in {link, SendOutTopoReq(link, n, P, new)} :
           /\ link' = Finish(T, l)
           /\ ~full => T = SendOutTopoReq(link, n, P, new)
    <2>1. PICK b \in Notified : link' = Finish(IF b THEN SendOutTopoReq(link, n, P, new) ELSE link, l)
      BY DEF processJoinRep
    <2>2. ~full => b = TRUE
      BY DEF Notified
    <2> HIDE DEF new
    <2>3. CASE b
      BY <2>1, <2>3
    <2>4. CASE ~b
      BY <2>1, <2>2, <2>4
    <2>5. QED  BY <2>3, <2>4
  <1>2. /\ link[l].state = "replied"
        /\ m_pcOutBoundPeers' = [m_pcOutBoundPeers EXCEPT ![n] = P]
        /\ m_cTopology' = [m_cTopology EXCEPT ![n] = new]
        /\ UNCHANGED full
    BY DEF processJoinRep
  <1>3. /\ TopoType /\ PeersOpen /\ Sockets(link)
        /\ n \in Nodes /\ l[2] \in Nodes /\ old \in Matrix
    BY LinkEnds DEF TopoInv, TopoType
  <1>4. e \in Entry /\ new = Put(old, n, e)
    <2>1. Own(n, old) \in Entry
      BY <1>3, MatrixEntry
    <2>2. QED  BY <1>3, <2>1 DEF Entry, AddAdj
  <1> HIDE DEF e
  <1>5. /\ new \in Matrix /\ Own(n, new) = e /\ Knows(new, n, Own(n, new))
        /\ \A s \in DOMAIN old : s # n => s \in DOMAIN new /\ new[s] = old[s]
    <2>1. new \in Matrix /\ Own(n, new) = e
      BY <1>3, <1>4, PutFacts
    <2>2. n \in DOMAIN new /\ \A s \in DOMAIN old : s # n => s \in DOMAIN new /\ new[s] = old[s]
      BY <1>4 DEF Put
    <2>3. QED  BY <2>1, <2>2 DEF Knows, Own
  <1> HIDE DEF new, old
  <1>6. link[l].open /\ \A k \in Links : k[1] = n /\ k[2] \in P => link[k].open
    BY <1>2, <1>3, MatrixFacts, LinkEnds DEF PeersOpen, Sockets
  <1> HIDE DEF P, n
  <1>7. /\ Sockets(T) /\ T[l].state = "replied"
        /\ \A k \in Links : /\ T[k].down = link[k].down
                            /\ T[k].state = "lost" => link[k].state = "lost"
                            /\ ~full /\ k[1] = n /\ k[2] \in P => Tells(T[k], n, Own(n, new))
                            /\ k[1] # n => T[k] = link[k]
    <2>1. CASE T = link /\ full
      BY <1>2, <1>3, <2>1
    <2>2. CASE T = SendOutTopoReq(link, n, P, new)
      <3>1. Sockets(T)
        BY <1>3, <1>5, <1>6, <2>2, SendOutSockets
      <3>2. T[l].state = "replied"
        <4>1. link[l] \in Socket
          BY <1>3 DEF Sockets
        <4>2. Send(link, l, TopoReq(new))[l].state = "replied"
          BY <1>2, <1>3, <4>1 DEF Send, Sockets, Socket
        <4>3. QED  BY <1>2, <2>2, <4>2 DEF SendOutTopoReq
      <3>3. QED  BY <1>3, <1>5, <2>2, <3>1, <3>2, SendOutTells
    <2>3. QED  BY <1>1, <2>1, <2>2
  <1>8. /\ link'[l].down = T[l].down /\ link'[l].state # "lost"
        /\ \A s, x : Tells(T[l], s, x) => Tells(link'[l], s, x)
        /\ \A k \in Links : k # l => link'[k] = T[k]
    BY <1>1, <1>7, FinishTells
  <1>9. ASSUME NEW k \in Links, k[1] = n, k[2] \in P, ~link'[k].down
        PROVE  link'[k].state # "lost" /\ (~full => Tells(link'[k], n, Own(n, new)))
    <2>1. CASE k = l
      BY <1>7, <1>8, <1>9, <2>1
    <2>2. CASE k # l
      <3>1. k[2] \in m_pcOutBoundPeers[n]
        BY <1>9, <2>2, LinkEnds DEF P, n
      <3>2. link[k].state # "lost"
        BY <1>7, <1>8, <1>9, <2>2, <3>1 DEF PeersTold, Joined
      <3>3. QED  BY <1>7, <1>8, <1>9, <2>2, <3>2
    <2>3. QED  BY <2>1, <2>2
  <1>10. \A k \in Links : k[1] # n => link'[k] = link[k]
    BY <1>7, <1>8 DEF n
  <1>11. QED  BY <1>2, <1>3, <1>5, <1>9, <1>10, ToldChange DEF old

\* What delAdj leaves in the matrix and puts on the way.
LEMMA DelAdjTells ==
  ASSUME TopoInv, NEW l \in Links, NEW L, Sockets(L), NEW tell, NEW S \in DelAdjLinks(l, L, tell)
  PROVE  /\ \A s \in DOMAIN m_cTopology[l[1]] : s # l[1] =>
              s \in DOMAIN DelAdjTopology(l) /\ DelAdjTopology(l)[s] = m_cTopology[l[1]][s]
         /\ \A k \in Links :
              /\ S[k].down = L[k].down
              /\ S[k].state = "lost" => L[k].state = "lost"
              /\ k[1] # l[1] => S[k] = L[k]
              /\ ~full /\ k[1] = l[1] /\ k[2] \in tell /\ m_pcOutBoundPeers[l[1]] # {}
                 => Tells(S[k], l[1], Own(l[1], DelAdjTopology(l)))
  <1> DEFINE n == l[1]
             old == m_cTopology[n]
             new == DelAdjTopology(l)
             T == SendOutTopoReq(L, n, tell, new)
  <1>1. n \in Nodes /\ old \in Matrix /\ OwnEntryIsCurrent
    BY LinkEnds DEF TopoInv, TopoType
  <1>2. /\ S = L \/ S = T
        /\ ~full /\ n \in DOMAIN old => S = T
    <2>1. PICK b \in Notified : S = IF n \in DOMAIN old /\ b THEN T ELSE L
      BY DEF DelAdjLinks
    <2>2. ~full => b = TRUE
      BY DEF Notified
    <2> HIDE DEF T, old
    <2>3. CASE n \in DOMAIN old /\ b
      BY <2>1, <2>3
    <2>4. CASE ~(n \in DOMAIN old /\ b)
      BY <2>1, <2>2, <2>4
    <2>5. QED  BY <2>3, <2>4
  <1>3. m_pcOutBoundPeers[n] # {} => n \in DOMAIN old
    BY <1>1 DEF OwnEntryIsCurrent, Own, NewEntry
  <1>4. /\ \A s \in DOMAIN old : s # n => s \in DOMAIN new /\ new[s] = old[s]
        /\ n \in DOMAIN old => n \in DOMAIN new
    <2>1. CASE n \in DOMAIN old
      BY <2>1 DEF DelAdjTopology, DelAdj, Put
    <2>2. CASE n \notin DOMAIN old
      BY <2>2 DEF DelAdjTopology
    <2>3. QED  BY <2>1, <2>2
  <1>5. new \in Matrix
    BY DelAdjFacts
  <1> HIDE DEF new, old
  <1>6. n \in DOMAIN old => Knows(new, n, Own(n, new))
    BY <1>4 DEF Knows, Own
  <1>7. \A k \in Links :
           /\ T[k].down = L[k].down
           /\ T[k].state = "lost" => L[k].state = "lost"
           /\ k[1] # n => T[k] = L[k]
           /\ k[1] = n /\ k[2] \in tell /\ n \in DOMAIN old => Tells(T[k], n, Own(n, new))
    BY <1>5, <1>6, SendOutTells
  <1> HIDE DEF T
  <1>8. \A k \in Links :
           /\ S[k].down = L[k].down
           /\ S[k].state = "lost" => L[k].state = "lost"
           /\ k[1] # n => S[k] = L[k]
           /\ ~full /\ k[1] = n /\ k[2] \in tell /\ n \in DOMAIN old => Tells(S[k], n, Own(n, new))
    BY <1>2, <1>7
  <1>9. QED  BY <1>3, <1>4, <1>8 DEF new, old

\* delPeer tells the peers that are left.
LEMMA ToldDelPeer ==
  ASSUME TopoInv, PeersTold, NEW l \in Links, delPeer(l)
  PROVE  PeersTold'
  <1> DEFINE n == l[1]
             new == DelAdjTopology(l)
             left == m_pcOutBoundPeers[n] \ {l[2]}
             L == [link EXCEPT ![l] = Closed]
  <1>1. /\ m_pcOutBoundPeers' = [m_pcOutBoundPeers EXCEPT ![n] = left]
        /\ m_cTopology' = [m_cTopology EXCEPT ![n] = new]
        /\ link' \in DelAdjLinks(l, L, left)
        /\ UNCHANGED full
    BY DEF delPeer
  <1>2. TopoType /\ Sockets(link) /\ n \in Nodes
    BY LinkEnds DEF TopoInv, TopoType
  <1>3. \A k \in Links : k # l => L[k] = link[k]
    BY <1>2 DEF Sockets
  <1>4. Sockets(L)
    BY <1>2, MatrixFacts DEF Sockets
  <1> HIDE DEF L, new
  <1>5. /\ \A s \in DOMAIN m_cTopology[n] : s # n => s \in DOMAIN new /\ new[s] = m_cTopology[n][s]
        /\ \A k \in Links :
             /\ link'[k].down = L[k].down
             /\ link'[k].state = "lost" => L[k].state = "lost"
             /\ k[1] # n => link'[k] = L[k]
             /\ ~full /\ k[1] = n /\ k[2] \in left /\ m_pcOutBoundPeers[n] # {}
                => Tells(link'[k], n, Own(n, new))
    BY <1>1, <1>4, DelAdjTells DEF new
  <1>6. ASSUME NEW k \in Links, k[1] = n, k[2] \in left, ~link'[k].down
        PROVE  link'[k].state # "lost" /\ (~full => Tells(link'[k], n, Own(n, new)))
    <2>1. k # l /\ k[2] \in m_pcOutBoundPeers[k[1]] /\ m_pcOutBoundPeers[n] # {}
      BY <1>6
    <2>2. link[k].state # "lost"
      BY <1>3, <1>5, <1>6, <2>1 DEF PeersTold, Joined
    <2>3. QED  BY <1>3, <1>5, <1>6, <2>1, <2>2
  <1>7. \A k \in Links : k[1] # n => link'[k] = link[k]
    BY <1>3, <1>5
  <1> HIDE DEF n, left
  <1>8. QED  BY <1>1, <1>2, <1>5, <1>6, <1>7, ToldChange

\* disconnect tells the peers; the lost one has left.
LEMMA ToldDisconnect ==
  ASSUME TopoInv, PeersTold, NEW l \in Links, disconnect(l)
  PROVE  PeersTold'
  <1> DEFINE n == l[1]
             new == DelAdjTopology(l)
             P == m_pcOutBoundPeers[n]
             left == P \ {l[2]}
             F == Flushed(link, l)
  <1>1. PICK L \in DelAdjLinks(l, F, P) : link' = Send(L, l, JoinReq)
    BY DEF disconnect, Flushed
  <1>2. /\ link[l].down
        /\ m_pcOutBoundPeers' = [m_pcOutBoundPeers EXCEPT ![n] = left]
        /\ m_cTopology' = [m_cTopology EXCEPT ![n] = new]
        /\ UNCHANGED full
    BY DEF disconnect
  <1>3. TopoType /\ Sockets(link) /\ n \in Nodes
    BY LinkEnds DEF TopoInv, TopoType
  <1>4. link[l].open
    <2>1. Closed.down = FALSE
      BY DEF Closed
    <2>2. QED  BY <1>2, <1>3, <2>1 DEF Sockets
  <1>5. Sockets(F) /\ \A k \in Links : k # l => F[k] = link[k]
    <2>1. Sockets(F)
      BY <1>3, <1>4, FlushSockets
    <2>2. QED  BY <1>3, <2>1 DEF Flushed, Sockets
  <1> HIDE DEF F, new
  <1>6. /\ \A s \in DOMAIN m_cTopology[n] : s # n => s \in DOMAIN new /\ new[s] = m_cTopology[n][s]
        /\ \A k \in Links :
             /\ L[k].down = F[k].down
             /\ L[k].state = "lost" => F[k].state = "lost"
             /\ k[1] # n => L[k] = F[k]
             /\ ~full /\ k[1] = n /\ k[2] \in P /\ m_pcOutBoundPeers[n] # {}
                => Tells(L[k], n, Own(n, new))
    BY <1>1, <1>5, DelAdjTells DEF new
  <1>7. \A k \in Links : k # l => link'[k] = L[k]
    <2>1. \A k \in Links : k[1] = l[1] /\ k[2] \in P => F[k].open
      <3>1. \A k \in Links : k[1] = l[1] /\ k[2] \in P => link[k].open
        BY DEF TopoInv, PeersOpen
      <3>2. \A k \in Links : F[k].open = link[k].open
        BY <1>3, <1>4, FlushSockets DEF F
      <3>3. QED  BY <3>1, <3>2
    <2>2. Sockets(L)
      BY <1>1, <1>5, <2>1, DelAdjSockets
    <2>3. QED  BY <1>1, <2>2 DEF Send, Sockets
  <1>8. ASSUME NEW k \in Links, k[1] = n, k[2] \in left, ~link'[k].down
        PROVE  link'[k].state # "lost" /\ (~full => Tells(link'[k], n, Own(n, new)))
    <2>1. k # l /\ k[2] \in m_pcOutBoundPeers[k[1]] /\ m_pcOutBoundPeers[n] # {}
      BY <1>8
    <2>2. link[k].state # "lost"
      BY <1>5, <1>6, <1>7, <1>8, <2>1 DEF PeersTold, Joined
    <2>3. QED  BY <1>5, <1>6, <1>7, <1>8, <2>1, <2>2
  <1>9. \A k \in Links : k[1] # n => link'[k] = link[k]
    BY <1>5, <1>6, <1>7
  <1> HIDE DEF n, left
  <1>10. QED  BY <1>2, <1>3, <1>6, <1>8, <1>9, ToldChange

\* Every step keeps the peers told.
LEMMA ToldNext ==
  TopoInv /\ PeersTold /\ [Next]_vars => PeersTold'
  <1> SUFFICES ASSUME TopoInv, PeersTold, [Next]_vars PROVE PeersTold'
    OBVIOUS
  <1>1. CASE UNCHANGED vars
    BY <1>1 DEF vars, PeersTold, Joined, Current
  <1>2. ASSUME NEW l \in Links, addPeer(l) PROVE PeersTold'
    BY <1>2, ToldAddPeer
  <1>3. ASSUME NEW l \in Links, delPeer(l) PROVE PeersTold'
    BY <1>3, ToldDelPeer
  <1>4. ASSUME NEW l \in Links, Serve(l) PROVE PeersTold'
    BY <1>4, ToldJoinReq, ToldTopoReq DEF Serve
  <1>5. ASSUME NEW l \in Links, ReadReply(l) PROVE PeersTold'
    BY <1>5, ToldJoinRep, ToldTopoRep DEF ReadReply
  <1>6. ASSUME NEW l \in Links, Lose(l) PROVE PeersTold'
    BY <1>6, ToldLose
  <1>7. ASSUME NEW l \in Links, disconnect(l) PROVE PeersTold'
    BY <1>7, ToldDisconnect
  <1>8. QED  BY <1>1, <1>2, <1>3, <1>4, <1>5, <1>6, <1>7 DEF Next

\* The safety half of PeersLearn: no joined peer is cut off from what its
\* neighbour says about itself (addAdj, delAdj, sendOutTopoReq, readEvent).
THEOREM NoPeerForgotten ==
  Spec => []PeersTold
  <1>1. Init => PeersTold
    BY LinkEnds DEF Init, PeersTold, Joined
  <1>2. QED  BY <1>1, TopologyInvariant, ToldNext, PTL DEF Spec

\* Once a joined peer's socket is idle it has learned the current entry.
QuietPeersKnow ==
    ~full => \A l \in Links : Joined(l) /\ link[l].queue = <<>> =>
        Knows(m_cTopology[l[2]], l[1], Current(l[1]))

\* What GossipStops leaves behind is what PeersLearn asks for: when the
\* requests to a joined peer have been answered, it knows its neighbour.
THEOREM QuietMeansLearned ==
  Spec => []QuietPeersKnow
  <1>1. PeersTold => QuietPeersKnow
    <2> SUFFICES ASSUME PeersTold, ~full, NEW l \in Links, Joined(l), link[l].queue = <<>>
                 PROVE  Knows(m_cTopology[l[2]], l[1], Current(l[1]))
      BY DEF QuietPeersKnow
    <2>1. ~Tells(link[l], l[1], Current(l[1]))
      BY DEF Tells
    <2>2. QED  BY <2>1 DEF PeersTold
  <1>2. QED  BY <1>1, NoPeerForgotten, PTL

\* A merge keeps every entry or takes a newer one.
LEMMA MergeNeverForgets ==
  ASSUME TopoType, History, NEW n \in Nodes, NEW in \in Matrices, NEW new,
         new = Merged(n, m_cTopology[n], in)
  PROVE  \A s \in DOMAIN m_cTopology[n] :
            s \in DOMAIN new /\ new[s].m_iSequence >= m_cTopology[n][s].m_iSequence
  <1> DEFINE mat == m_cTopology[n]
  <1> SUFFICES ASSUME NEW s \in DOMAIN mat
               PROVE  s \in DOMAIN new /\ new[s].m_iSequence >= mat[s].m_iSequence
    OBVIOUS
  <1>1. mat \in Matrix /\ in \in Matrix
    BY MatricesType DEF TopoType
  <1>2. /\ mat[s].m_iSequence \in Nat
        /\ s \in DOMAIN in => in[s].m_iSequence \in Nat
    BY <1>1, MatrixEntry
  <1>3. s \in DOMAIN new
    BY DEF Merged
  <1>4. CASE s = n
    <2>1. Own(n, new) = Own(n, mat)
      BY MergeCopies
    <2>2. new[s] = mat[s]
      BY <1>3, <1>4, <2>1 DEF Own
    <2>3. QED  BY <1>2, <1>3, <2>2
  <1>5. CASE s # n
    <2>1. new[s] = mat[s] \/ (s \in DOMAIN in /\ in[s].m_iSequence > mat[s].m_iSequence /\ new[s] = in[s])
      BY <1>5 DEF Merged
    <2> HIDE DEF mat
    <2>2. QED  BY <1>2, <1>3, <2>1
  <1>6. QED  BY <1>4, <1>5

\* A step of fabric n.
LEMMA NeverForgetsStep ==
  ASSUME TopoType, NEW n \in Nodes, NEW new,
         m_cTopology' = [m_cTopology EXCEPT ![n] = new],
         \A s \in DOMAIN m_cTopology[n] :
            s \in DOMAIN new /\ new[s].m_iSequence >= m_cTopology[n][s].m_iSequence
  PROVE  NeverForgets
  <1> SUFFICES ASSUME NEW k \in Nodes, NEW s \in DOMAIN m_cTopology[k]
               PROVE  /\ s \in DOMAIN m_cTopology'[k]
                      /\ m_cTopology'[k][s].m_iSequence >= m_cTopology[k][s].m_iSequence
    BY DEF NeverForgets
  <1>1. m_cTopology'[k] = IF k = n THEN new ELSE m_cTopology[k]
    BY DEF TopoType
  <1>2. m_cTopology[k][s].m_iSequence \in Nat
    BY MatrixEntry DEF TopoType
  <1>3. QED  BY <1>1, <1>2

\* Knowledge grows: no step of any fabric, of a peer that joins, leaves or is
\* lost, makes a fabric forget a server or fall back to an older entry of it.
THEOREM KnowledgeGrows ==
  Spec => [][NeverForgets]_vars
  <1>1. TopoInv /\ [Next]_vars => [NeverForgets]_vars
    <2> SUFFICES ASSUME TopoInv, Next PROVE NeverForgets
      OBVIOUS
    <2>0. TopoType /\ History /\ Sockets(link) /\ OwnEntryIsCurrent
      BY DEF TopoInv, TopoType
    <2>1. PICK l \in Links : addPeer(l) \/ delPeer(l) \/ Serve(l) \/ ReadReply(l)
                             \/ Lose(l) \/ disconnect(l)
      BY DEF Next
    <2> DEFINE n == l[1]
               old == m_cTopology[n]
    <2>2. n \in Nodes /\ l[2] \in Nodes /\ old \in Matrix
      BY <2>0, LinkEnds DEF TopoType
    <2>3. CASE UNCHANGED m_cTopology
      <3>1. \A k \in Nodes : \A s \in DOMAIN m_cTopology[k] : m_cTopology[k][s].m_iSequence \in Nat
        BY <2>0, MatrixEntry DEF TopoType
      <3>2. QED  BY <2>3, <3>1 DEF NeverForgets
    <2>4. CASE addPeer(l) \/ processJoinReq(l) \/ Lose(l)
      BY <2>3, <2>4 DEF addPeer, processJoinReq, Lose
    <2>5. CASE delPeer(l) \/ disconnect(l)
      <3> DEFINE new == DelAdjTopology(l)
      <3>1. m_cTopology' = [m_cTopology EXCEPT ![n] = new]
        BY <2>5 DEF delPeer, disconnect
      <3>2. ASSUME NEW s \in DOMAIN old
            PROVE  s \in DOMAIN new /\ new[s].m_iSequence >= old[s].m_iSequence
        <4>1. old[s].m_iSequence \in Nat
          BY <2>2, MatrixEntry
        <4>2. CASE n \in DOMAIN old
          <5>1. /\ s \in DOMAIN new
                /\ s # n => new[s] = old[s]
                /\ new[n].m_iSequence = old[n].m_iSequence + 1
            BY <4>2 DEF DelAdjTopology, DelAdj, Put
          <5> HIDE DEF new, old
          <5>2. QED  BY <4>1, <5>1
        <4>3. CASE n \notin DOMAIN old
          <5>1. new = old
            BY <4>3 DEF DelAdjTopology
          <5>2. QED  BY <4>1, <5>1
        <4>4. QED  BY <4>2, <4>3
      <3> HIDE DEF new
      <3>3. QED  BY <2>0, <2>2, <3>1, <3>2, NeverForgetsStep
    <2>6. CASE processJoinRep(l)
      <3> DEFINE new == AddAdj(n, old, l[2])
      <3>1. m_cTopology' = [m_cTopology EXCEPT ![n] = new]
        BY <2>6 DEF processJoinRep
      <3>2. ASSUME NEW s \in DOMAIN old
            PROVE  s \in DOMAIN new /\ new[s].m_iSequence >= old[s].m_iSequence
        <4>1. old[s].m_iSequence \in Nat
          BY <2>2, MatrixEntry
        <4>2. /\ s \in DOMAIN new
              /\ s # n => new[s] = old[s]
              /\ s = n => new[n].m_iSequence = old[n].m_iSequence + 1
          BY DEF AddAdj, Put, Own
        <4> HIDE DEF new, old
        <4>3. QED  BY <4>1, <4>2
      <3> HIDE DEF new
      <3>3. QED  BY <2>0, <2>2, <3>1, <3>2, NeverForgetsStep
    <2>7. CASE processTopoRep(l)
      <3> DEFINE in == link[l].reply.matrix
                 new == Merged(n, old, in)
      <3>1. m_cTopology' = [m_cTopology EXCEPT ![n] = new]
        BY <2>7 DEF processTopoRep
      <3>2. in \in Matrices
        BY <2>0, MatricesAre DEF Held
      <3> HIDE DEF in
      <3>3. \A s \in DOMAIN old : s \in DOMAIN new /\ new[s].m_iSequence >= old[s].m_iSequence
        BY <2>0, <2>2, <3>2, MergeNeverForgets
      <3> HIDE DEF new
      <3>4. QED  BY <2>0, <2>2, <3>1, <3>3, NeverForgetsStep
    <2>8. CASE processTopoReq(l)
      <3> DEFINE me == l[2]
                 in == Head(link[l].queue).matrix
                 new == Merged(me, m_cTopology[me], in)
      <3>1. link[l].state = "sent" /\ m_cTopology' = [m_cTopology EXCEPT ![me] = new]
        BY <2>8 DEF processTopoReq
      <3>2. in \in Matrices
        <4>1. link[l].queue \in Seq(Message) /\ link[l].queue # <<>>
          BY <2>0, <3>1 DEF Sockets, Socket
        <4>2. 1 \in 1..Len(link[l].queue) /\ Head(link[l].queue) = link[l].queue[1]
          BY <4>1, EmptySeq
        <4>3. Held(link[l], in)
          BY <4>2 DEF Held
        <4>4. QED  BY <2>0, <4>3, MatricesAre
      <3> HIDE DEF in
      <3>3. \A s \in DOMAIN m_cTopology[me] :
               s \in DOMAIN new /\ new[s].m_iSequence >= m_cTopology[me][s].m_iSequence
        BY <2>0, <2>2, <3>2, MergeNeverForgets
      <3> HIDE DEF new
      <3>4. QED  BY <2>0, <2>2, <3>1, <3>3, NeverForgetsStep
    <2>9. QED  BY <2>1, <2>4, <2>5, <2>6, <2>7, <2>8 DEF Serve, ReadReply
  <1>2. QED  BY <1>1, TopologyInvariant, PTL DEF Spec
=============================================================================
