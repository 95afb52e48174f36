----------------------- MODULE FileReplication_proofs -----------------------
(***************************************************************************)
(* Proofs about the transfers of FileReplication.  FlowInv says where the   *)
(* messages of a transfer may be and which blocks they carry; it holds      *)
(* whatever is dropped.  AskInv says what opens a file and what asks for    *)
(* more of it.  RoomInv says that with room nothing is dropped at the queue *)
(* and every block is written in its place, over what the file held before. *)
(* ProgressInv says that then the receiver never aborts, and that a request *)
(* the receiver does not know is still on the way while no session is lost; *)
(* GoesOn that a transfer it answers is not forgotten.                      *)
(***************************************************************************)
EXTENDS FileReplication, FiniteSetTheorems, FunctionTheorems, SequenceTheorems, TLAPS

-----------------------------------------------------------------------------
(* The invariants *)

\* The place of a message in its transfer: the request, the b blocks, the end.
Rank(b, m) ==
    IF m.id = "FILE_TX_REQ" THEN 0 ELSE IF m.block = 0 THEN b + 1 ELSE m.block

\* A message on its way to the receiver belongs to the bundle that was sent last
\* for its transfer, with t the sender's part of the transfer, and the receiver,
\* which has written n blocks, is not past it.
Fits(b, t, n, m) ==
    /\ m.id = "FILE_TX_REQ" => m.last /\ t.next = 1
    /\ m.id = "FILE_BLOCK_REQ" =>
          /\ Rank(b, m) \in (t.next - FILE_BUNDLE_SIZE)..(t.next - 1)
          /\ n < Rank(b, m)
          /\ m.block = 0 => t.fd = "closed"
          /\ m.last /\ m.block # 0 => Rank(b, m) = t.next - 1

\* With u transfers begun, and t and r what sender and receiver know of them.
MsgOK(b, u, t, r, m) ==
    /\ m.x <= u /\ m.id \in {"FILE_TX_REQ", "FILE_BLOCK_REQ"}
    /\ Fits(b, t[m.x], r[m.x].at, m)

SeqOK(b, u, t, r, s) == \A i \in 1..Len(s) : MsgOK(b, u, t, r, s[i])

\* A bundle of a file of b blocks, or what is left of it.
BundleLike(b, s) ==
    \A i \in 1..Len(s) :
        /\ s[i].x = s[1].x /\ s[i].id = s[1].id /\ Rank(b, s[i]) = Rank(b, s[1]) + (i - 1)
        /\ s[i].last <=> i = Len(s)

LineOK ==
    /\ SeqOK(use.blocks, up, tx, rx, queue)
    /\ SeqOK(use.blocks, up, tx, rx, arriving)
    /\ \A k \in 1..Len(out) : SeqOK(use.blocks, up, tx, rx, out[k])
    /\ BundleLike(use.blocks, arriving)
    /\ \A k \in 1..Len(out) : out[k] # <<>> /\ BundleLike(use.blocks, out[k])

\* The receiver's queue has the messages of a transfer in order, and nothing of
\* it after the last one of a bundle.
InOrder(b, m, n) == m.x = n.x => ~m.last /\ Rank(b, m) < Rank(b, n)

QueueOrder ==
    /\ \A i, j \in 1..Len(queue) : i < j => InOrder(use.blocks, queue[i], queue[j])
    /\ arriving # <<>> =>
          \A i \in 1..Len(queue) : InOrder(use.blocks, queue[i], arriving[1])

\* A transfer is in one place: in a bundle of the sender, in what the receiver
\* reads and holds, or in a reply.
OnePlace ==
    /\ \A k, l \in 1..Len(out) : out[k][1].x = out[l][1].x => k = l
    /\ \A k \in 1..Len(out) : arriving # <<>> => out[k][1].x # arriving[1].x
    /\ \A k \in 1..Len(out), i \in 1..Len(queue) : out[k][1].x # queue[i].x
    /\ \A k \in 1..Len(out), i \in 1..Len(back) : out[k][1].x # back[i].x
    /\ \A i \in 1..Len(back) : arriving # <<>> => back[i].x # arriving[1].x
    /\ \A i \in 1..Len(back), j \in 1..Len(queue) : back[i].x # queue[j].x
    /\ \A i, j \in 1..Len(back) : back[i].x = back[j].x => i = j

BackOK ==
    \A i \in 1..Len(back) :
        /\ back[i].x <= up /\ back[i].id \in {"FILE_TX_REP", "FILE_BLOCK_REP"}
        /\ back[i].id = "FILE_TX_REP" => tx[back[i].x].next = 1

\* The sender's next block, and what the receiver has written.
TransferOK ==
    \A x \in Transfers :
        /\ tx[x].next >= 1 /\ (tx[x].fd # "closed" => tx[x].next <= use.blocks + 1)
        /\ x > up => tx[x].next = 1
        /\ rx[x].at < tx[x].next

FlowInv == use \in Uses /\ TypeOK /\ LineOK /\ QueueOrder /\ OnePlace /\ BackOK /\ TransferOK

\* The first i messages of a queue hold what the transfer of message n has between
\* the block at and n, in a file of b blocks.
Ahead(b, q, i, n, at) ==
    \A r \in (at + 1)..(Rank(b, n) - 1) :
        \E j \in 1..i : q[j].x = n.x /\ Rank(b, q[j]) = r

\* With room nothing is dropped: what lies between the blocks written and a message
\* is ahead of the message, and the sender goes on where the receiver is.
NothingMissing ==
    /\ \A i \in 1..Len(queue) :
          Ahead(use.blocks, queue, i - 1, queue[i], rx[queue[i].x].at)
    /\ arriving # <<>> =>
          Ahead(use.blocks, queue, Len(queue), arriving[1], rx[arriving[1].x].at)
    /\ \A k \in 1..Len(out) : Rank(use.blocks, out[k][1]) <= rx[out[k][1].x].at + 1
    /\ \A i \in 1..Len(back) :
          tx[back[i].x].fd = "closed" \/ tx[back[i].x].next = rx[back[i].x].at + 1

\* A file that had o blocks: each block is in its place, or an old one is still there.
Blend(o, f) == o <= Len(f) /\ \A i \in 1..Len(f) : f[i] = i \/ (f[i] = 0 /\ i <= o)

\* The first n blocks are written.
Copied(n, f) == n <= Len(f) /\ \A i \in 1..n : f[i] = i

\* What a transfer has written is in the file that it opened, and all of it where it
\* has closed it; that file is at the path unless a later UP has removed it.
FileOK ==
    /\ \A k \in 0..use.ups : Blend(Old(k), file[k])
    /\ \A x \in Transfers :
          /\ Copied(rx[x].at, file[inode[x]])
          /\ rx[x].fd = "closed" => rx[x].at = use.blocks
          /\ rx[x].fd \in {"open", "closed"} =>
                x <= up /\ (inode[x] = Path \/ (use.shared /\ x < up))

RoomInv == Room => FileOK /\ (receiver = "running" => NothingMissing)

-----------------------------------------------------------------------------
(* Sequences and bundles *)

\* A queue without its first element.
LEMMA TailFacts ==
  ASSUME NEW S, NEW s \in Seq(S), s # <<>>
  PROVE  /\ Head(s) = s[1] /\ s[1] \in S /\ Tail(s) \in Seq(S)
         /\ Len(s) \in Nat /\ Len(s) >= 1 /\ Len(Tail(s)) = Len(s) - 1
         /\ \A i \in 1..Len(Tail(s)) : i + 1 \in 1..Len(s) /\ Tail(s)[i] = s[i + 1]
  <1>1. /\ Head(s) = s[1] /\ Head(s) \in S /\ Tail(s) \in Seq(S) /\ Len(Tail(s)) = Len(s) - 1
        /\ \A i \in 1..Len(Tail(s)) : Tail(s)[i] = s[i + 1]
    BY HeadTailProperties
  <1>2. Len(s) \in Nat /\ Len(s) # 0
    BY LenProperties, EmptySeq
  <1>3. QED  BY <1>1, <1>2

\* A queue with one element more.
LEMMA AppendFacts ==
  ASSUME NEW S, NEW s \in Seq(S), NEW e \in S
  PROVE  /\ Append(s, e) \in Seq(S) /\ Len(s) \in Nat /\ Len(Append(s, e)) = Len(s) + 1
         /\ Append(s, e)[Len(s) + 1] = e
         /\ \A i \in 1..Len(s) : Append(s, e)[i] = s[i]
         /\ \A i \in 1..Len(Append(s, e)) : i \in 1..Len(s) \/ i = Len(s) + 1
  <1>1. /\ Append(s, e) \in Seq(S) /\ Len(Append(s, e)) = Len(s) + 1
        /\ Append(s, e)[Len(s) + 1] = e
        /\ \A i \in 1..Len(s) : Append(s, e)[i] = s[i]
    BY AppendProperties
  <1>2. Len(s) \in Nat
    BY LenProperties
  <1>3. QED  BY <1>1, <1>2

\* The parameters of a use are numbers.
LEMMA Numbers ==
  ASSUME use \in Uses
  PROVE  /\ use.blocks \in Nat /\ use.queueSize \in Nat /\ use.ups \in Nat /\ use.old \in Nat
         /\ FILE_BUNDLE_SIZE \in Nat /\ FILE_BUNDLE_SIZE > 1
         /\ Transfers \subseteq Nat
  BY UsesAssumption, BundleAssumption DEF Transfers

\* A bundle that is rendered from block n on.
LEMMA BundleShape ==
  ASSUME use \in Uses, NEW x \in Transfers, NEW n \in 1..(use.blocks + 1)
  PROVE  LET s == Bundle(x, n)
         IN  /\ s \in Seq(Messages) /\ s # <<>> /\ Len(s) \in 1..FILE_BUNDLE_SIZE
             /\ \A i \in 1..Len(s) :
                   /\ s[i].x = x /\ s[i].id = "FILE_BLOCK_REQ"
                   /\ s[i].last <=> i = Len(s)
                   /\ Rank(use.blocks, s[i]) = n + (i - 1)
                   /\ s[i].block = 0 <=> n + (i - 1) > use.blocks
             /\ BundleLike(use.blocks, s)
             /\ Last(s) = s[Len(s)]
             /\ Last(s).block # 0 <=> n + FILE_BUNDLE_SIZE - 1 <= use.blocks
             /\ Last(s).block # 0 => Len(s) = FILE_BUNDLE_SIZE
  <1> DEFINE s == Bundle(x, n)
  <1> DEFINE left == use.blocks + 1 - n
  <1> DEFINE size == IF left < FILE_BUNDLE_SIZE THEN left + 1 ELSE FILE_BUNDLE_SIZE
  <1> DEFINE B(i) == [id |-> "FILE_BLOCK_REQ", x |-> x,
                      block |-> IF n + i - 1 > use.blocks THEN 0 ELSE n + i - 1,
                      first |-> i = 1, last |-> i = size]
  <1>1. /\ use.blocks \in Nat /\ FILE_BUNDLE_SIZE \in Nat /\ FILE_BUNDLE_SIZE > 1
        /\ n \in Nat /\ n >= 1 /\ n <= use.blocks + 1
    BY Numbers
  <1>2. left \in Nat /\ size \in 1..FILE_BUNDLE_SIZE /\ size \in Nat
    BY <1>1
  <1>3. s = [i \in 1..size |-> B(i)]
    BY DEF Bundle
  <1>4. ASSUME NEW i \in 1..size
        PROVE  /\ B(i) \in Messages
               /\ B(i).x = x /\ B(i).id = "FILE_BLOCK_REQ" /\ (B(i).last <=> i = size)
               /\ Rank(use.blocks, B(i)) = n + (i - 1)
               /\ B(i).block = 0 <=> n + (i - 1) > use.blocks
    <2>1. i \in Nat /\ i >= 1 /\ n + i - 1 \in Nat /\ n + i - 1 >= 1 /\ n + i - 1 <= use.blocks + 1
      BY <1>1, <1>2
    <2>2. B(i) \in Messages
      BY <1>1, <2>1 DEF Messages
    <2>3. /\ B(i).x = x /\ B(i).id = "FILE_BLOCK_REQ" /\ (B(i).last <=> i = size)
          /\ B(i).block = IF n + i - 1 > use.blocks THEN 0 ELSE n + i - 1
      OBVIOUS
    <2> HIDE DEF B
    <2>4. n + (i - 1) = n + i - 1
      BY <1>1, <2>1
    <2>5. B(i).block = 0 <=> n + i - 1 > use.blocks
      BY <1>1, <2>1, <2>3
    <2>6. Rank(use.blocks, B(i)) = IF B(i).block = 0 THEN use.blocks + 1 ELSE B(i).block
      BY <2>3 DEF Rank
    <2>7. Rank(use.blocks, B(i)) = n + i - 1
      BY <1>1, <2>1, <2>3, <2>5, <2>6
    <2>8. QED  BY <2>2, <2>3, <2>4, <2>5, <2>7
  <1>5. s \in Seq(Messages) /\ Len(s) = size /\ \A i \in 1..size : s[i] = B(i)
    <2>1. s \in [1..size -> Messages]
      BY <1>3, <1>4
    <2>2. s \in Seq(Messages)
      BY <1>2, <2>1, SeqDef
    <2>3. DOMAIN s = 1..size /\ DOMAIN s = 1..Len(s) /\ Len(s) \in Nat
      BY <1>3, <2>2, LenProperties
    <2>4. Len(s) = size
      BY <1>2, <2>3
    <2>5. QED  BY <1>3, <2>2, <2>4
  <1> HIDE DEF B, s
  <1>6. \A i \in 1..Len(s) :
           /\ s[i].x = x /\ s[i].id = "FILE_BLOCK_REQ" /\ (s[i].last <=> i = Len(s))
           /\ Rank(use.blocks, s[i]) = n + (i - 1)
           /\ s[i].block = 0 <=> n + (i - 1) > use.blocks
    BY <1>4, <1>5
  <1>7. 1 \in 1..Len(s) /\ Len(s) \in 1..Len(s)
    BY <1>2, <1>5
  <1>8. BundleLike(use.blocks, s)
    <2>1. Rank(use.blocks, s[1]) = n
      BY <1>1, <1>6, <1>7
    <2>2. QED  BY <1>6, <1>7, <2>1 DEF BundleLike
  <1>9. s # <<>>
    BY <1>2, <1>5, EmptySeq
  <1>10. Last(s) = s[Len(s)]
    BY DEF Last
  <1>11. s[Len(s)].block = 0 <=> n + (size - 1) > use.blocks
    BY <1>5, <1>6, <1>7
  <1>12. /\ (n + (size - 1) > use.blocks) <=> ~(n + FILE_BUNDLE_SIZE - 1 <= use.blocks)
         /\ n + FILE_BUNDLE_SIZE - 1 <= use.blocks => size = FILE_BUNDLE_SIZE
    BY <1>1, <1>2
  <1>13. QED  BY <1>2, <1>5, <1>6, <1>8, <1>9, <1>10, <1>11, <1>12 DEF s

\* What is left of a bundle.
LEMMA BundleTail ==
  ASSUME NEW b \in Nat, NEW S, NEW s \in Seq(S), s # <<>>, BundleLike(b, s),
         Rank(b, s[1]) \in Nat
  PROVE  /\ BundleLike(b, Tail(s))
         /\ Tail(s) # <<>> => /\ Tail(s)[1].x = s[1].x /\ Tail(s)[1].id = s[1].id
                              /\ Rank(b, Tail(s)[1]) = Rank(b, s[1]) + 1 /\ ~s[1].last
         /\ Tail(s) = <<>> => s[1].last
  <1> DEFINE u == Tail(s)
  <1>1. /\ u \in Seq(S) /\ Len(s) \in Nat /\ Len(s) >= 1 /\ Len(u) = Len(s) - 1
        /\ \A i \in 1..Len(u) : i + 1 \in 1..Len(s) /\ u[i] = s[i + 1]
    BY TailFacts
  <1> HIDE DEF u
  <1>2. \A i \in 1..Len(u) :
           /\ u[i].x = s[1].x /\ u[i].id = s[1].id /\ Rank(b, u[i]) = Rank(b, s[1]) + i
           /\ u[i].last <=> i = Len(u)
    <2> SUFFICES ASSUME NEW i \in 1..Len(u)
                 PROVE  /\ u[i].x = s[1].x /\ u[i].id = s[1].id
                        /\ Rank(b, u[i]) = Rank(b, s[1]) + i
                        /\ u[i].last <=> i = Len(u)
      OBVIOUS
    <2>1. i + 1 \in 1..Len(s) /\ u[i] = s[i + 1] /\ i \in Nat
      BY <1>1
    <2>2. (i + 1) - 1 = i /\ (i + 1 = Len(s) <=> i = Len(u))
      BY <1>1, <2>1
    <2>3. /\ s[i + 1].x = s[1].x /\ s[i + 1].id = s[1].id
          /\ Rank(b, s[i + 1]) = Rank(b, s[1]) + ((i + 1) - 1)
          /\ s[i + 1].last <=> i + 1 = Len(s)
      BY <2>1 DEF BundleLike
    <2>4. QED  BY <2>1, <2>2, <2>3
  <1>3. BundleLike(b, u)
    <2> SUFFICES ASSUME NEW i \in 1..Len(u)
                 PROVE  /\ u[i].x = u[1].x /\ u[i].id = u[1].id
                        /\ Rank(b, u[i]) = Rank(b, u[1]) + (i - 1)
                        /\ u[i].last <=> i = Len(u)
      BY DEF BundleLike
    <2>1. 1 \in 1..Len(u) /\ i \in Nat
      BY <1>1
    <2>2. Rank(b, u[1]) = Rank(b, s[1]) + 1 /\ Rank(b, u[i]) = Rank(b, s[1]) + i
      BY <1>2, <2>1
    <2>3. Rank(b, u[i]) = Rank(b, u[1]) + (i - 1)
      BY <2>1, <2>2
    <2>4. /\ u[i].x = s[1].x /\ u[1].x = s[1].x /\ u[i].id = s[1].id /\ u[1].id = s[1].id
          /\ u[i].last <=> i = Len(u)
      BY <1>2, <2>1
    <2>5. QED  BY <2>3, <2>4
  <1>4. ASSUME u # <<>> PROVE /\ u[1].x = s[1].x /\ u[1].id = s[1].id
                              /\ Rank(b, u[1]) = Rank(b, s[1]) + 1 /\ ~s[1].last
    <2>1. Len(u) # 0
      BY <1>1, <1>4, EmptySeq
    <2>2. 1 \in 1..Len(u) /\ 1 \in 1..Len(s) /\ Len(s) # 1
      BY <1>1, <2>1
    <2>3. QED  BY <1>2, <2>2 DEF BundleLike
  <1>5. ASSUME u = <<>> PROVE s[1].last
    <2>1. Len(u) = 0
      BY <1>5, EmptySeq
    <2>2. 1 \in 1..Len(s) /\ Len(s) = 1
      BY <1>1, <2>1
    <2>3. QED  BY <2>2 DEF BundleLike
  <1>6. QED  BY <1>3, <1>4, <1>5 DEF u

\* The place of a message is a number.
LEMMA RankNat ==
  ASSUME use \in Uses, NEW m \in Messages
  PROVE  Rank(use.blocks, m) \in Nat /\ m.x \in Transfers /\ m.x \in Nat
  <1>1. m.block \in 0..use.blocks /\ m.x \in Transfers
    BY DEF Messages
  <1>2. QED  BY <1>1, Numbers DEF Rank

\* What the types say of the messages that are on their way.
LEMMA Held ==
  ASSUME FlowInv
  PROVE  /\ queue \in Seq(Messages) /\ arriving \in Seq(Messages) /\ back \in Seq(Messages)
         /\ out \in Seq(Seq(Messages)) /\ up \in Nat
         /\ \A i \in 1..Len(queue) : queue[i] \in Messages
         /\ \A i \in 1..Len(arriving) : arriving[i] \in Messages
         /\ \A i \in 1..Len(back) : back[i] \in Messages
         /\ \A k \in 1..Len(out) : out[k] \in Seq(Messages) /\ out[k][1] \in Messages
         /\ \A k \in 1..Len(out) : 1 \in 1..Len(out[k])
         /\ arriving # <<>> => 1 \in 1..Len(arriving)
         /\ \A k \in 1..Len(out) : \A i \in 1..Len(out[k]) :
               out[k][i] \in Messages /\ out[k][i].x = out[k][1].x
         /\ \A i \in 1..Len(arriving) : arriving[i].x = arriving[1].x
  <1>1. /\ queue \in Seq(Messages) /\ arriving \in Seq(Messages) /\ back \in Seq(Messages)
        /\ out \in Seq(Seq(Messages)) /\ up \in Nat
    BY Numbers DEF FlowInv, TypeOK
  <1>2. /\ \A i \in 1..Len(queue) : queue[i] \in Messages
        /\ \A i \in 1..Len(arriving) : arriving[i] \in Messages
        /\ \A i \in 1..Len(back) : back[i] \in Messages
        /\ \A k \in 1..Len(out) : out[k] \in Seq(Messages)
    BY <1>1, ElementOfSeq
  <1>3. \A k \in 1..Len(out) : out[k] # <<>> /\ BundleLike(use.blocks, out[k])
    BY DEF FlowInv, LineOK
  <1>4. ASSUME NEW k \in 1..Len(out)
        PROVE  /\ out[k][1] \in Messages /\ 1 \in 1..Len(out[k])
               /\ \A i \in 1..Len(out[k]) : out[k][i] \in Messages /\ out[k][i].x = out[k][1].x
    <2>1. out[k] \in Seq(Messages) /\ out[k] # <<>>
      BY <1>2, <1>3
    <2>2. 1 \in 1..Len(out[k])
      BY <2>1, TailFacts
    <2>3. \A i \in 1..Len(out[k]) : out[k][i] \in Messages
      BY <2>1, ElementOfSeq
    <2>4. QED  BY <1>3, <2>2, <2>3 DEF BundleLike
  <1>5. arriving # <<>> => 1 \in 1..Len(arriving)
    BY <1>1, TailFacts
  <1>6. \A i \in 1..Len(arriving) : arriving[i].x = arriving[1].x
    BY DEF FlowInv, LineOK, BundleLike
  <1>7. QED  BY <1>1, <1>2, <1>4, <1>5, <1>6

\* The first transfer begins with nothing on the way.
LEMMA FlowInit == ASSUME Init PROVE FlowInv
  <1>1. use \in Uses
    BY DEF Init
  <1>2. /\ use.blocks \in Nat /\ use.queueSize \in Nat /\ use.ups \in Nat
        /\ Transfers \subseteq Nat /\ \A x \in Transfers : x > 0
    BY <1>1, Numbers DEF Transfers
  <1>3. /\ queue = <<>> /\ arriving = <<>> /\ out = <<>> /\ back = <<>> /\ up = 0
        /\ \A x \in Transfers : tx[x] = [fd |-> "none", next |-> 1] /\ rx[x].at = 0
    BY DEF Init
  <1>4. TypeOK
    <2>1. tx \in [Transfers -> [fd : {"none", "open", "closed"}, next : Nat]]
      BY <1>2 DEF Init
    <2>2. rx \in [Transfers -> [fd : {"absent", "none", "open", "closed"}, at : 0..use.blocks]]
      <3>1. 0 \in 0..use.blocks
        BY <1>2
      <3>2. QED  BY <3>1 DEF Init
    <2>3. /\ out \in Seq(Seq(Messages)) /\ arriving \in Seq(Messages) /\ back \in Seq(Messages)
          /\ queue \in Seq(Messages) /\ Len(queue) = 0
      BY <1>3, EmptySeq
    <2>4. /\ up \in 0..use.ups /\ connected \in BOOLEAN /\ owes \in BOOLEAN /\ joined \in BOOLEAN
          /\ instances \in Int /\ receiver \in {"running", "exited", "aborted"}
      <3>1. up \in 0..use.ups
        BY <1>2, <1>3
      <3>2. connected = FALSE /\ owes = FALSE /\ joined = FALSE /\ instances = 0
            /\ receiver = "running"
        BY DEF Init
      <3>3. instances \in Int
        BY <3>2
      <3>4. connected \in BOOLEAN /\ owes \in BOOLEAN /\ joined \in BOOLEAN
        BY <3>2
      <3>5. QED  BY <3>1, <3>2, <3>3, <3>4
    <2>5. inode \in [Transfers -> 0..use.ups]
      <3>1. 0 \in 0..use.ups
        BY <1>2
      <3>2. QED  BY <3>1 DEF Init
    <2>6. file \in [0..use.ups -> Seq(0..use.blocks)]
      <3>1. ASSUME NEW k \in 0..use.ups
            PROVE  [i \in 1..Old(k) |-> 0] \in Seq(0..use.blocks)
        <4>1. Old(k) \in Nat /\ 0 \in 0..use.blocks
          BY <1>1, <1>2, Numbers DEF Old
        <4>2. [i \in 1..Old(k) |-> 0] \in [1..Old(k) -> 0..use.blocks]
          BY <4>1
        <4>3. QED  BY <4>1, <4>2, SeqDef
      <3>2. QED  BY <3>1 DEF Init
    <2>7. QED  BY <1>2, <2>1, <2>2, <2>3, <2>4, <2>5, <2>6 DEF TypeOK
  <1>5. Len(queue) = 0 /\ Len(arriving) = 0 /\ Len(out) = 0 /\ Len(back) = 0
    BY <1>3
  <1>6. LineOK /\ QueueOrder /\ OnePlace /\ BackOK
    BY <1>3, <1>5 DEF LineOK, QueueOrder, OnePlace, BackOK, SeqOK, BundleLike
  <1>7. TransferOK
    BY <1>2, <1>3 DEF TransferOK
  <1>8. QED  BY <1>1, <1>4, <1>6, <1>7 DEF FlowInv

\* The types do not change: the use of a run is fixed.
LEMMA SameUse ==
  ASSUME use' = use
  PROVE  Messages' = Messages /\ Transfers' = Transfers /\ (use \in Uses => use' \in Uses)
  BY DEF Messages, Transfers

\* A new transfer, requested when the peer is UP.
LEMMA FlowUp == ASSUME FlowInv, peerStateChanged PROVE FlowInv'
  <1> DEFINE x == up + 1
  <1> DEFINE b == <<One("FILE_TX_REQ", x)>>
  <1>1. /\ use' = use /\ tx' = tx /\ arriving' = arriving /\ owes' = owes /\ queue' = queue
        /\ rx' = rx /\ inode' = inode /\ file' = file /\ joined' = joined
        /\ instances' = instances /\ receiver' = receiver
        /\ back' = back /\ up' = up + 1 /\ connected' = TRUE /\ out' = Append(out, b)
    BY DEF peerStateChanged, receiving
  <1>2. /\ use.ups \in Nat /\ use.blocks \in Nat /\ up \in 0..use.ups /\ up < use.ups
        /\ x \in Transfers /\ x > up /\ x \in Nat
    BY Numbers DEF FlowInv, TypeOK, peerStateChanged, Transfers
  <1>3. /\ b[1] \in Messages /\ b \in Seq(Messages) /\ Len(b) = 1 /\ b[1].x = x
        /\ b[1].id = "FILE_TX_REQ" /\ b[1].last = TRUE /\ b # <<>>
    <2>1. One("FILE_TX_REQ", x) \in Messages
      BY <1>2 DEF One, Messages
    <2>2. b \in Seq(Messages) /\ Len(b) = 1 /\ b[1] = One("FILE_TX_REQ", x)
      BY <2>1
    <2>3. QED  BY <2>1, <2>2 DEF One
  <1>4. Messages' = Messages /\ Transfers' = Transfers /\ use' \in Uses
    BY <1>1, SameUse DEF FlowInv
  <1> HIDE DEF b
  <1>5. out \in Seq(Seq(Messages))
    BY Held
  <1>6. /\ out' \in Seq(Seq(Messages)) /\ Len(out) \in Nat /\ Len(out') = Len(out) + 1
        /\ out'[Len(out) + 1] = b
        /\ \A k \in 1..Len(out) : out'[k] = out[k]
        /\ \A k \in 1..Len(out') : k \in 1..Len(out) \/ k = Len(out) + 1
    BY <1>1, <1>3, <1>5, AppendFacts
  <1>7. TypeOK'
    <2>1. up' \in 0..use'.ups /\ connected' \in BOOLEAN
      BY <1>1, <1>2
    <2>2. QED  BY <1>1, <1>4, <1>6, <2>1 DEF FlowInv, TypeOK
  <1>8. /\ \A i \in 1..Len(queue) : queue[i].x <= up
        /\ \A i \in 1..Len(arriving) : arriving[i].x <= up
        /\ \A i \in 1..Len(back) : back[i].x <= up
        /\ \A k \in 1..Len(out) : out[k][1].x <= up
    BY Held DEF FlowInv, LineOK, SeqOK, MsgOK, BackOK
  <1>fresh. \A m \in Messages : m.x <= up => m.x # x /\ m.x <= up'
    <2> SUFFICES ASSUME NEW m \in Messages, m.x <= up PROVE m.x # x /\ m.x <= up'
      OBVIOUS
    <2>1. m.x \in Nat
      BY RankNat DEF FlowInv
    <2>2. QED  BY <1>1, <1>2, <2>1
  <1>9. ASSUME NEW s \in Seq(Messages), SeqOK(use.blocks, up, tx, rx, s)
        PROVE  SeqOK(use'.blocks, up', tx', rx', s)
    <2> SUFFICES ASSUME NEW i \in 1..Len(s) PROVE MsgOK(use'.blocks, up', tx', rx', s[i])
      BY DEF SeqOK
    <2>1. MsgOK(use.blocks, up, tx, rx, s[i]) /\ s[i] \in Messages
      BY <1>9, ElementOfSeq DEF SeqOK
    <2>2. s[i].x \in Nat /\ s[i].x <= up
      BY <2>1, RankNat DEF FlowInv, MsgOK
    <2>3. s[i].x <= up'
      BY <1>1, <1>2, <2>2
    <2>4. QED  BY <1>1, <2>1, <2>3 DEF MsgOK
  <1>10. SeqOK(use'.blocks, up', tx', rx', b) /\ BundleLike(use'.blocks, b)
    <2>1. tx[x].next = 1
      BY <1>2 DEF FlowInv, TransferOK
    <2>2. MsgOK(use'.blocks, up', tx', rx', b[1])
      BY <1>1, <1>2, <1>3, <2>1 DEF MsgOK, Fits
    <2>3. \A i \in 1..Len(b) : i = 1
      BY <1>3
    <2>4. Rank(use'.blocks, b[1]) = Rank(use'.blocks, b[1]) + (1 - 1)
      BY <1>1, <1>3, RankNat DEF FlowInv
    <2>5. QED  BY <1>3, <2>2, <2>3, <2>4 DEF SeqOK, BundleLike
  <1>11. LineOK'
    <2>1. /\ SeqOK(use'.blocks, up', tx', rx', queue') /\ SeqOK(use'.blocks, up', tx', rx', arriving')
          /\ BundleLike(use'.blocks, arriving')
      BY <1>1, <1>9, Held DEF FlowInv, LineOK
    <2>2. ASSUME NEW k \in 1..Len(out')
          PROVE  /\ SeqOK(use'.blocks, up', tx', rx', out'[k])
                 /\ out'[k] # <<>> /\ BundleLike(use'.blocks, out'[k])
      <3>1. CASE k \in 1..Len(out)
        BY <3>1, <1>1, <1>6, <1>9, Held DEF FlowInv, LineOK
      <3>2. CASE k = Len(out) + 1
        BY <3>2, <1>3, <1>6, <1>10
      <3>3. QED  BY <1>6, <3>1, <3>2
    <2>3. QED  BY <2>1, <2>2 DEF LineOK
  <1>12. QueueOrder'
    BY <1>1 DEF FlowInv, QueueOrder
  <1>13. OnePlace'
    <2>1. /\ \A i \in 1..Len(queue) : queue[i].x # x
          /\ arriving # <<>> => arriving[1].x # x
          /\ \A i \in 1..Len(back) : back[i].x # x
          /\ \A k \in 1..Len(out) : out[k][1].x # x
      BY <1>8, <1>fresh, Held
    <2>2. ASSUME NEW k \in 1..Len(out')
          PROVE  /\ arriving # <<>> => out'[k][1].x # arriving[1].x
                 /\ \A i \in 1..Len(queue) : out'[k][1].x # queue[i].x
                 /\ \A i \in 1..Len(back) : out'[k][1].x # back[i].x
      <3>1. CASE k \in 1..Len(out)
        <4>1. out'[k] = out[k]
          BY <1>6, <3>1
        <4>2. OnePlace
          BY DEF FlowInv
        <4>3. QED  BY <3>1, <4>1, <4>2 DEF OnePlace
      <3>2. CASE k = Len(out) + 1
        BY <1>3, <1>6, <2>1, <3>2
      <3>3. QED  BY <1>6, <3>1, <3>2
    <2>3. ASSUME NEW k \in 1..Len(out'), NEW l \in 1..Len(out'), out'[k][1].x = out'[l][1].x
          PROVE  k = l
      <3>1. CASE k \in 1..Len(out) /\ l \in 1..Len(out)
        BY <1>6, <2>3, <3>1 DEF FlowInv, OnePlace
      <3>2. CASE k = Len(out) + 1 /\ l \in 1..Len(out)
        BY <1>3, <1>6, <2>1, <2>3, <3>2
      <3>3. CASE k \in 1..Len(out) /\ l = Len(out) + 1
        BY <1>3, <1>6, <2>1, <2>3, <3>3
      <3>4. QED  BY <1>6, <3>1, <3>2, <3>3
    <2>4. QED  BY <1>1, <2>2, <2>3 DEF FlowInv, OnePlace
  <1>14. BackOK'
    <2>1. \A i \in 1..Len(back) : back[i].x <= up'
      BY <1>8, <1>fresh, Held
    <2>2. QED  BY <1>1, <2>1 DEF FlowInv, BackOK
  <1>15. TransferOK'
    <2>1. \A y \in Transfers : y > up' => y > up
      BY <1>1, <1>2, Numbers DEF FlowInv
    <2>2. QED  BY <1>1, <1>4, <2>1 DEF FlowInv, TransferOK
  <1>16. QED  BY <1>4, <1>7, <1>11, <1>12, <1>13, <1>14, <1>15 DEF FlowInv

\* The rest of a queue of replies.
LEMMA BackTail ==
  ASSUME FlowInv, back # <<>>
  PROVE  /\ Head(back) = back[1] /\ back[1] \in Messages /\ back[1].x \in Transfers
         /\ 1 \in 1..Len(back)
         /\ Tail(back) \in Seq(Messages)
         /\ \A i \in 1..Len(Tail(back)) :
               i + 1 \in 1..Len(back) /\ Tail(back)[i] = back[i + 1] /\ back[i + 1].x # back[1].x
         /\ \A i, j \in 1..Len(Tail(back)) : Tail(back)[i].x = Tail(back)[j].x => i = j
  <1>1. back \in Seq(Messages)
    BY Held
  <1>2. /\ Head(back) = back[1] /\ back[1] \in Messages /\ Tail(back) \in Seq(Messages)
        /\ Len(back) \in Nat /\ Len(back) >= 1 /\ Len(Tail(back)) = Len(back) - 1
        /\ \A i \in 1..Len(Tail(back)) : i + 1 \in 1..Len(back) /\ Tail(back)[i] = back[i + 1]
    BY <1>1, TailFacts
  <1>3. back[1].x \in Transfers
    BY <1>2, RankNat DEF FlowInv
  <1>4. \A i, j \in 1..Len(back) : back[i].x = back[j].x => i = j
    BY DEF FlowInv, OnePlace
  <1>5. 1 \in 1..Len(back)
    BY <1>2
  <1>6. ASSUME NEW i \in 1..Len(Tail(back)) PROVE back[i + 1].x # back[1].x
    <2>1. i \in Nat /\ i >= 1 /\ i + 1 # 1 /\ i + 1 \in 1..Len(back)
      BY <1>2
    <2>2. QED  BY <1>4, <1>5, <2>1
  <1>7. ASSUME NEW i \in 1..Len(Tail(back)), NEW j \in 1..Len(Tail(back)),
               Tail(back)[i].x = Tail(back)[j].x
        PROVE  i = j
    <2>1. i + 1 = j + 1
      BY <1>2, <1>4, <1>7
    <2>2. QED  BY <1>2, <2>1
  <1>8. QED  BY <1>2, <1>3, <1>5, <1>6, <1>7

\* A bundle is rendered from block n on, for a transfer that is nowhere else.
LEMMA FlowRender ==
  ASSUME FlowInv, back # <<>>, NEW n \in 1..(use.blocks + 1), rx[back[1].x].at < n,
         renderFileBlockBundle(back[1].x, n), back' = Tail(back),
         UNCHANGED <<use, up, connected, drops, arriving, owes, queue, receiving>>
  PROVE  FlowInv'
  <1> DEFINE x == back[1].x
  <1> DEFINE b == Bundle(x, n)
  <1> DEFINE t == [fd |-> IF b[Len(b)].block = 0 THEN "closed" ELSE "open",
                   next |-> n + FILE_BUNDLE_SIZE]
  <1>1. /\ use' = use /\ up' = up /\ connected' = connected /\ arriving' = arriving
        /\ owes' = owes /\ queue' = queue /\ rx' = rx
        /\ inode' = inode /\ file' = file /\ joined' = joined
        /\ instances' = instances /\ receiver' = receiver
    BY DEF receiving
  <1>2. /\ use.blocks \in Nat /\ FILE_BUNDLE_SIZE \in Nat /\ FILE_BUNDLE_SIZE > 1 /\ n \in Nat
        /\ n >= 1 /\ n <= use.blocks + 1 /\ Transfers \subseteq Nat
    BY Numbers DEF FlowInv
  <1>3. Messages' = Messages /\ Transfers' = Transfers /\ use' \in Uses
    BY <1>1, SameUse DEF FlowInv
  <1>4. /\ x \in Transfers /\ 1 \in 1..Len(back) /\ back' \in Seq(Messages)
        /\ \A i \in 1..Len(back') :
               i + 1 \in 1..Len(back) /\ back'[i] = back[i + 1] /\ back[i + 1].x # x
        /\ \A i, j \in 1..Len(back') : back'[i].x = back'[j].x => i = j
    BY BackTail
  <1>5. /\ b \in Seq(Messages) /\ b # <<>> /\ Len(b) \in 1..FILE_BUNDLE_SIZE
        /\ \A i \in 1..Len(b) :
              /\ b[i].x = x /\ b[i].id = "FILE_BLOCK_REQ"
              /\ b[i].last <=> i = Len(b)
              /\ Rank(use.blocks, b[i]) = n + (i - 1)
              /\ b[i].block = 0 <=> n + (i - 1) > use.blocks
        /\ BundleLike(use.blocks, b)
        /\ Last(b) = b[Len(b)]
        /\ b[Len(b)].block # 0 <=> n + FILE_BUNDLE_SIZE - 1 <= use.blocks
        /\ b[Len(b)].block # 0 => Len(b) = FILE_BUNDLE_SIZE
    BY <1>4, BundleShape DEF FlowInv
  <1>6. /\ tx' = [tx EXCEPT ![x] = t]
        /\ out' = Append(out, b) \/ out' = out
    BY <1>5 DEF renderFileBlockBundle, Sent
  <1> HIDE DEF b, x
  <1>7. 1 \in 1..Len(b) /\ Len(b) \in Nat
    BY <1>2, <1>5
  <1>8. tx \in [Transfers -> [fd : {"none", "open", "closed"}, next : Nat]]
    BY DEF FlowInv, TypeOK
  <1>9. /\ tx'[x] = t /\ \A y \in Transfers : y # x => tx'[y] = tx[y]
        /\ tx' \in [Transfers -> [fd : {"none", "open", "closed"}, next : Nat]]
    <2>1. t \in [fd : {"none", "open", "closed"}, next : Nat]
      BY <1>2
    <2> HIDE DEF t
    <2>2. QED  BY <1>4, <1>6, <1>8, <2>1
  <1>10. t.next = n + FILE_BUNDLE_SIZE /\ t.fd = IF b[Len(b)].block = 0 THEN "closed" ELSE "open"
    OBVIOUS
  <1> HIDE DEF t
  <1>11. /\ \A k \in 1..Len(out) : out[k][1].x # x
         /\ arriving # <<>> => arriving[1].x # x
         /\ \A i \in 1..Len(queue) : queue[i].x # x
    BY <1>4 DEF FlowInv, OnePlace, x
  <1>12. out \in Seq(Seq(Messages))
    BY Held
  <1>13. /\ out' \in Seq(Seq(Messages)) /\ Len(out) \in Nat
         /\ \A k \in 1..Len(out') :
               (k \in 1..Len(out) /\ out'[k] = out[k]) \/ (k = Len(out) + 1 /\ out'[k] = b)
    <2>1. CASE out' = out
      BY <2>1, <1>12, LenProperties
    <2>2. CASE out' = Append(out, b)
      BY <2>2, <1>5, <1>12, AppendFacts
    <2>3. QED  BY <1>6, <2>1, <2>2
  <1>14. TypeOK'
    BY <1>1, <1>3, <1>4, <1>9, <1>13 DEF FlowInv, TypeOK
  <1>15. ASSUME NEW s \in Seq(Messages), SeqOK(use.blocks, up, tx, rx, s),
                \A i \in 1..Len(s) : s[i].x # x
         PROVE  SeqOK(use'.blocks, up', tx', rx', s)
    <2>1. \A i \in 1..Len(s) : s[i].x \in Transfers
      BY ElementOfSeq, RankNat DEF FlowInv
    <2>2. \A i \in 1..Len(s) : s[i].x # x => tx'[s[i].x] = tx[s[i].x] /\ rx'[s[i].x].at = rx[s[i].x].at
      BY <1>1, <1>9, <2>1
    <2>3. QED  BY <1>1, <1>15, <2>2 DEF SeqOK, MsgOK
  <1>at. rx[x].at \in Nat /\ rx[x].at < n
    <2>1. rx \in [Transfers -> [fd : {"absent", "none", "open", "closed"}, at : 0..use.blocks]]
      BY DEF FlowInv, TypeOK
    <2>2. rx[x].at \in 0..use.blocks
      BY <1>4, <2>1
    <2>3. QED  BY <1>2, <2>2 DEF x
  <1>16. SeqOK(use'.blocks, up', tx', rx', b)
    <2> SUFFICES ASSUME NEW i \in 1..Len(b) PROVE MsgOK(use.blocks, up, tx', rx, b[i])
      BY <1>1 DEF SeqOK
    <2>1. x <= up
      BY <1>4 DEF FlowInv, BackOK, x
    <2>2. /\ b[i].x = x /\ b[i].id = "FILE_BLOCK_REQ" /\ (b[i].last <=> i = Len(b))
          /\ Rank(use.blocks, b[i]) = n + (i - 1)
          /\ b[i].block = 0 <=> n + (i - 1) > use.blocks
      BY <1>5
    <2>3. i \in Nat /\ i >= 1 /\ i <= FILE_BUNDLE_SIZE
      BY <1>2, <1>5, <1>7
    <2>4. rx[x].at \in Nat /\ rx[x].at < n
      BY <1>at
    <2>5. n + (i - 1) \in (t.next - FILE_BUNDLE_SIZE)..(t.next - 1) /\ rx[x].at < n + (i - 1)
      BY <1>2, <1>10, <2>3, <2>4
    <2>6. b[i].block = 0 => t.fd = "closed"
      <3>1. n + (i - 1) > use.blocks => ~(n + FILE_BUNDLE_SIZE - 1 <= use.blocks)
        BY <1>2, <2>3
      <3>2. QED  BY <1>5, <1>10, <2>2, <3>1
    <2>7. b[i].last /\ b[i].block # 0 => n + (i - 1) = t.next - 1
      <3>1. i = FILE_BUNDLE_SIZE => n + (i - 1) = t.next - 1
        BY <1>2, <1>10
      <3>2. QED  BY <1>5, <2>2, <3>1
    <2>8. Fits(use.blocks, t, rx[x].at, b[i])
      BY <2>2, <2>5, <2>6, <2>7 DEF Fits
    <2>9. QED  BY <1>9, <2>1, <2>2, <2>8 DEF MsgOK
  <1>17. LineOK'
    <2>1. /\ SeqOK(use'.blocks, up', tx', rx', queue') /\ SeqOK(use'.blocks, up', tx', rx', arriving')
      <3>1. \A i \in 1..Len(arriving) : arriving[i].x # x
        <4>1. CASE arriving = <<>>
          BY <4>1
        <4>2. CASE arriving # <<>>
          BY <4>2, <1>11, Held
        <4>3. QED  BY <4>1, <4>2
      <3>2. QED  BY <1>1, <1>11, <1>15, <3>1, Held DEF FlowInv, LineOK
    <2>2. ASSUME NEW k \in 1..Len(out')
          PROVE  /\ SeqOK(use'.blocks, up', tx', rx', out'[k])
                 /\ out'[k] # <<>> /\ BundleLike(use'.blocks, out'[k])
      <3>1. CASE k \in 1..Len(out) /\ out'[k] = out[k]
        <4>1. out[k] \in Seq(Messages) /\ \A i \in 1..Len(out[k]) : out[k][i].x # x
          BY <3>1, <1>11, Held
        <4>2. QED  BY <3>1, <4>1, <1>1, <1>15 DEF FlowInv, LineOK
      <3>2. CASE k = Len(out) + 1 /\ out'[k] = b
        BY <3>2, <1>1, <1>5, <1>16
      <3>3. QED  BY <1>13, <3>1, <3>2
    <2>3. QED  BY <1>1, <2>1, <2>2 DEF FlowInv, LineOK
  <1>18. QueueOrder'
    BY <1>1 DEF FlowInv, QueueOrder
  <1>19. OnePlace'
    <2>1. b[1].x = x
      BY <1>5, <1>7
    <2>new. ASSUME NEW k \in 1..Len(out')
            PROVE  \/ k \in 1..Len(out) /\ out'[k][1].x = out[k][1].x
                   \/ k = Len(out) + 1 /\ out'[k][1].x = x
      BY <1>13, <2>1
    <2>2. /\ \A k, l \in 1..Len(out') : out'[k][1].x = out'[l][1].x => k = l
          /\ \A k \in 1..Len(out') : arriving # <<>> => out'[k][1].x # arriving[1].x
          /\ \A k \in 1..Len(out'), i \in 1..Len(queue) : out'[k][1].x # queue[i].x
      <3>1. /\ \A k, l \in 1..Len(out) : out[k][1].x = out[l][1].x => k = l
            /\ \A k \in 1..Len(out) : arriving # <<>> => out[k][1].x # arriving[1].x
            /\ \A k \in 1..Len(out), i \in 1..Len(queue) : out[k][1].x # queue[i].x
        BY DEF FlowInv, OnePlace
      <3>2. \A k, l \in 1..Len(out') : out'[k][1].x = out'[l][1].x => k = l
        BY <1>11, <2>new, <3>1
      <3>3. \A k \in 1..Len(out') : arriving # <<>> => out'[k][1].x # arriving[1].x
        BY <1>11, <2>new, <3>1
      <3>4. \A k \in 1..Len(out'), i \in 1..Len(queue) : out'[k][1].x # queue[i].x
        BY <1>11, <2>new, <3>1
      <3>5. QED  BY <3>2, <3>3, <3>4
    <2>3. ASSUME NEW k \in 1..Len(out'), NEW i \in 1..Len(back') PROVE out'[k][1].x # back'[i].x
      <3>1. i + 1 \in 1..Len(back) /\ back'[i] = back[i + 1] /\ back[i + 1].x # x
        BY <1>4
      <3>2. \A l \in 1..Len(out), j \in 1..Len(back) : out[l][1].x # back[j].x
        BY DEF FlowInv, OnePlace
      <3>3. QED  BY <2>new, <3>1, <3>2
    <2>4. /\ \A i \in 1..Len(back') : arriving # <<>> => back'[i].x # arriving[1].x
          /\ \A i \in 1..Len(back'), j \in 1..Len(queue) : back'[i].x # queue[j].x
      BY <1>4 DEF FlowInv, OnePlace
    <2>5. QED  BY <1>1, <1>4, <2>2, <2>3, <2>4 DEF OnePlace
  <1>20. BackOK'
    <2> SUFFICES ASSUME NEW i \in 1..Len(back')
                 PROVE  /\ back'[i].x <= up /\ back'[i].id \in {"FILE_TX_REP", "FILE_BLOCK_REP"}
                        /\ back'[i].id = "FILE_TX_REP" => tx'[back'[i].x].next = 1
      BY <1>1 DEF BackOK
    <2>1. i + 1 \in 1..Len(back) /\ back'[i] = back[i + 1] /\ back'[i].x # x
      BY <1>4
    <2>2. back'[i].x \in Transfers
      BY <2>1, Held, RankNat DEF FlowInv
    <2>3. QED  BY <1>9, <2>1, <2>2 DEF FlowInv, BackOK
  <1>21. TransferOK'
    <2> SUFFICES ASSUME NEW y \in Transfers
                 PROVE  /\ tx'[y].next >= 1
                        /\ (tx'[y].fd # "closed" => tx'[y].next <= use.blocks + 1)
                        /\ y > up => tx'[y].next = 1
                        /\ rx[y].at < tx'[y].next
      BY <1>1, <1>3 DEF TransferOK
    <2>1. CASE y # x
      BY <1>9, <2>1 DEF FlowInv, TransferOK
    <2>2. CASE y = x
      <3>1. t.next >= 1 /\ (t.fd # "closed" => t.next <= use.blocks + 1)
        BY <1>2, <1>5, <1>10
      <3>2. x <= up /\ up \in Nat /\ x \in Nat
        BY <1>2, <1>4, Held DEF FlowInv, BackOK, x
      <3>3. ~(x > up)
        BY <3>2
      <3>4. rx[x].at \in Nat /\ rx[x].at < n
        BY <1>at
      <3>5. rx[x].at < t.next
        BY <1>2, <1>10, <3>4
      <3>6. QED  BY <2>2, <1>9, <3>1, <3>3, <3>5
    <2>3. QED  BY <2>1, <2>2
  <1>22. QED  BY <1>3, <1>14, <1>17, <1>18, <1>19, <1>20, <1>21 DEF FlowInv

\* A transfer begins when its FILE_TX_REP arrives.
LEMMA FlowTxRep == ASSUME FlowInv, processFileTxRep PROVE FlowInv'
  <1>1. /\ back # <<>> /\ Head(back) = back[1] /\ back[1].x \in Transfers /\ 1 \in 1..Len(back)
        /\ back[1].id = "FILE_TX_REP"
    BY BackTail DEF processFileTxRep
  <1>2. use.blocks \in Nat
    BY Numbers DEF FlowInv
  <1>3. tx[back[1].x].next = 1
    BY <1>1 DEF FlowInv, BackOK
  <1>4. rx[back[1].x].at < 1
    BY <1>1, <1>3 DEF FlowInv, TransferOK
  <1>5. 1 \in 1..(use.blocks + 1)
    BY <1>2
  <1>6. /\ renderFileBlockBundle(back[1].x, 1) /\ back' = Tail(back)
        /\ UNCHANGED <<use, up, connected, drops, arriving, owes, queue, receiving>>
    BY <1>1 DEF processFileTxRep
  <1>7. QED  BY <1>1, <1>4, <1>5, <1>6, FlowRender

\* The next bundle follows unless the file is closed.
LEMMA FlowBlockRep == ASSUME FlowInv, processFileBlockRep PROVE FlowInv'
  <1> DEFINE x == back[1].x
  <1>1. /\ back # <<>> /\ Head(back) = back[1] /\ x \in Transfers /\ 1 \in 1..Len(back)
        /\ back' = Tail(back)
        /\ UNCHANGED <<use, up, connected, drops, arriving, owes, queue, receiving>>
    BY BackTail DEF processFileBlockRep
  <1>2. CASE tx[x].fd # "closed"
    <2>1. use.blocks \in Nat
      BY Numbers DEF FlowInv
    <2>2. tx[x].next \in Nat
      BY <1>1 DEF FlowInv, TypeOK
    <2>3. tx[x].next >= 1 /\ tx[x].next <= use.blocks + 1 /\ rx[x].at < tx[x].next
      BY <1>1, <1>2 DEF FlowInv, TransferOK
    <2>4. tx[x].next \in 1..(use.blocks + 1)
      BY <2>1, <2>2, <2>3
    <2>5. renderFileBlockBundle(x, tx[x].next)
      BY <1>1, <1>2 DEF processFileBlockRep
    <2>6. QED  BY <1>1, <2>3, <2>4, <2>5, FlowRender
  <1>3. CASE tx[x].fd = "closed"
    <2>1. /\ use' = use /\ up' = up /\ connected' = connected /\ arriving' = arriving
          /\ owes' = owes /\ queue' = queue /\ rx' = rx
          /\ inode' = inode /\ file' = file /\ joined' = joined
          /\ instances' = instances /\ receiver' = receiver /\ out' = out /\ tx' = tx
      BY <1>1, <1>3 DEF receiving, processFileBlockRep
    <2>2. Messages' = Messages /\ Transfers' = Transfers /\ use' \in Uses
      BY <2>1, SameUse DEF FlowInv
    <2>3. /\ back' \in Seq(Messages)
          /\ \A i \in 1..Len(back') : i + 1 \in 1..Len(back) /\ back'[i] = back[i + 1]
          /\ \A i, j \in 1..Len(back') : back'[i].x = back'[j].x => i = j
      BY <1>1, BackTail
    <2>4. TypeOK'
      BY <2>1, <2>2, <2>3 DEF FlowInv, TypeOK
    <2>5. LineOK' /\ QueueOrder' /\ TransferOK'
      BY <2>1, <2>2 DEF FlowInv, LineOK, QueueOrder, TransferOK
    <2>6. OnePlace'
      <3>1. ASSUME NEW i \in 1..Len(back')
            PROVE  /\ \A k \in 1..Len(out) : out[k][1].x # back'[i].x
                   /\ arriving # <<>> => back'[i].x # arriving[1].x
                   /\ \A j \in 1..Len(queue) : back'[i].x # queue[j].x
        <4>1. i + 1 \in 1..Len(back) /\ back'[i] = back[i + 1]
          BY <2>3
        <4>2. QED  BY <4>1 DEF FlowInv, OnePlace
      <3>2. QED  BY <2>1, <2>3, <3>1 DEF FlowInv, OnePlace
    <2>7. BackOK'
      BY <2>1, <2>3 DEF FlowInv, BackOK
    <2>8. QED  BY <2>2, <2>4, <2>5, <2>6, <2>7 DEF FlowInv
  <1>4. QED  BY <1>2, <1>3

\* What is lost with a session leaves the rest in order.
LEMMA FlowDisconnect == ASSUME FlowInv, Disconnect PROVE FlowInv'
  <1>1. /\ use' = use /\ up' = up /\ arriving' = arriving
        /\ owes' = owes /\ queue' = queue /\ rx' = rx
        /\ inode' = inode /\ file' = file
        /\ instances' = instances /\ receiver' = receiver /\ tx' = tx
    BY DEF Disconnect
  <1>2. Messages' = Messages /\ Transfers' = Transfers /\ use' \in Uses
    BY <1>1, SameUse DEF FlowInv
  <1>3. /\ out' = out \/ out' = <<>>
        /\ back' = back \/ back' = <<>>
    BY DEF Disconnect
  <1>4. /\ out' \in Seq(Seq(Messages)) /\ back' \in Seq(Messages)
        /\ \A k \in 1..Len(out') : k \in 1..Len(out) /\ out'[k] = out[k]
        /\ \A i \in 1..Len(back') : i \in 1..Len(back) /\ back'[i] = back[i]
    <2>1. out \in Seq(Seq(Messages)) /\ back \in Seq(Messages)
      BY Held
    <2>2. \A S : <<>> \in Seq(S) /\ Len(<<>>) = 0
      BY EmptySeq
    <2>3. out' \in Seq(Seq(Messages)) /\ \A k \in 1..Len(out') : k \in 1..Len(out) /\ out'[k] = out[k]
      <3>1. CASE out' = out
        BY <2>1, <3>1
      <3>2. CASE out' = <<>>
        <4>1. out' \in Seq(Seq(Messages)) /\ Len(out') = 0
          BY <2>2, <3>2
        <4>2. 1..Len(out') = {}
          BY <4>1
        <4>3. QED  BY <4>1, <4>2
      <3>3. QED  BY <1>3, <3>1, <3>2
    <2>4. back' \in Seq(Messages) /\ \A i \in 1..Len(back') : i \in 1..Len(back) /\ back'[i] = back[i]
      <3>1. CASE back' = back
        BY <2>1, <3>1
      <3>2. CASE back' = <<>>
        <4>1. back' \in Seq(Messages) /\ Len(back') = 0
          BY <2>2, <3>2
        <4>2. 1..Len(back') = {}
          BY <4>1
        <4>3. QED  BY <4>1, <4>2
      <3>3. QED  BY <1>3, <3>1, <3>2
    <2>5. QED  BY <2>3, <2>4
  <1>5. connected' \in BOOLEAN /\ joined' \in BOOLEAN
    <2>1. connected' = FALSE \/ connected' = connected
      BY DEF Disconnect
    <2>2. joined' = FALSE \/ joined' = joined
      BY DEF Disconnect
    <2>3. QED  BY <2>1, <2>2 DEF FlowInv, TypeOK
  <1>6. TypeOK'
    BY <1>1, <1>2, <1>4, <1>5 DEF FlowInv, TypeOK
  <1>7. LineOK' /\ QueueOrder' /\ TransferOK' /\ BackOK'
    BY <1>1, <1>2, <1>4 DEF FlowInv, LineOK, QueueOrder, TransferOK, BackOK
  <1>8. OnePlace'
    <2>1. /\ \A k, l \in 1..Len(out') : out'[k][1].x = out'[l][1].x => k = l
          /\ \A i, j \in 1..Len(back') : back'[i].x = back'[j].x => i = j
      BY <1>4 DEF FlowInv, OnePlace
    <2>2. ASSUME NEW k \in 1..Len(out')
          PROVE  /\ arriving # <<>> => out'[k][1].x # arriving[1].x
                 /\ \A i \in 1..Len(queue) : out'[k][1].x # queue[i].x
                 /\ \A i \in 1..Len(back) : out'[k][1].x # back[i].x
      <3>1. k \in 1..Len(out) /\ out'[k] = out[k]
        BY <1>4
      <3>2. QED  BY <3>1 DEF FlowInv, OnePlace
    <2>3. ASSUME NEW i \in 1..Len(back')
          PROVE  /\ arriving # <<>> => back'[i].x # arriving[1].x
                 /\ \A j \in 1..Len(queue) : back'[i].x # queue[j].x
      <3>1. i \in 1..Len(back) /\ back'[i] = back[i]
        BY <1>4
      <3>2. QED  BY <3>1 DEF FlowInv, OnePlace
    <2>4. \A k \in 1..Len(out'), i \in 1..Len(back') : out'[k][1].x # back'[i].x
      BY <1>4, <2>2
    <2>5. QED  BY <1>1, <2>1, <2>2, <2>3, <2>4 DEF OnePlace
  <1>9. QED  BY <1>2, <1>6, <1>7, <1>8 DEF FlowInv

\* A bundle arrives.
LEMMA FlowRecv == ASSUME FlowInv, RepRecv PROVE FlowInv'
  <1>1. /\ use' = use /\ up' = up /\ connected' = connected /\ back' = back
        /\ owes' = owes /\ queue' = queue /\ rx' = rx
        /\ inode' = inode /\ file' = file /\ joined' = joined
        /\ instances' = instances /\ receiver' = receiver /\ tx' = tx
        /\ out # <<>> /\ arriving' = Head(out) /\ out' = Tail(out)
    BY DEF receiving, sender, RepRecv
  <1>2. Messages' = Messages /\ Transfers' = Transfers /\ use' \in Uses
    BY <1>1, SameUse DEF FlowInv
  <1>3. out \in Seq(Seq(Messages))
    BY Held
  <1>4. /\ arriving' = out[1] /\ out[1] \in Seq(Messages) /\ out' \in Seq(Seq(Messages))
        /\ Len(out) \in Nat /\ Len(out) >= 1 /\ Len(out') = Len(out) - 1
        /\ \A k \in 1..Len(out') : k + 1 \in 1..Len(out) /\ out'[k] = out[k + 1]
    BY <1>1, <1>3, TailFacts
  <1>5. 1 \in 1..Len(out) /\ \A k \in 1..Len(out') : k + 1 # 1 /\ k \in Nat
    BY <1>4
  <1>6. TypeOK'
    BY <1>1, <1>2, <1>4 DEF FlowInv, TypeOK
  <1>7. LineOK'
    BY <1>1, <1>4, <1>5 DEF FlowInv, LineOK
  <1>8. QueueOrder'
    <2>1. \A i \in 1..Len(queue) : queue[i].x # out[1][1].x
      BY <1>5 DEF FlowInv, OnePlace
    <2>2. QED  BY <1>1, <1>4, <2>1 DEF FlowInv, QueueOrder, InOrder
  <1>9. OnePlace'
    <2>1. \A k, l \in 1..Len(out) : out[k][1].x = out[l][1].x => k = l
      BY DEF FlowInv, OnePlace
    <2>2. ASSUME NEW k \in 1..Len(out'), NEW l \in 1..Len(out'), out'[k][1].x = out'[l][1].x
          PROVE  k = l
      <3>1. k + 1 \in 1..Len(out) /\ l + 1 \in 1..Len(out) /\ out[k + 1][1].x = out[l + 1][1].x
        BY <1>4, <2>2
      <3>2. k + 1 = l + 1
        BY <2>1, <3>1
      <3>3. QED  BY <1>5, <3>2
    <2>3. \A k \in 1..Len(out') : out'[k][1].x # arriving'[1].x
      BY <1>4, <1>5, <2>1
    <2>4. /\ \A k \in 1..Len(out'), i \in 1..Len(queue) : out'[k][1].x # queue[i].x
          /\ \A k \in 1..Len(out'), i \in 1..Len(back) : out'[k][1].x # back[i].x
          /\ \A i \in 1..Len(back) : back[i].x # arriving'[1].x
      <3>1. /\ \A k \in 1..Len(out), i \in 1..Len(queue) : out[k][1].x # queue[i].x
            /\ \A k \in 1..Len(out), i \in 1..Len(back) : out[k][1].x # back[i].x
        BY DEF FlowInv, OnePlace
      <3>2. \A i \in 1..Len(back) : back[i].x # arriving'[1].x
        BY <1>4, <1>5, <3>1
      <3>3. ASSUME NEW k \in 1..Len(out')
            PROVE  /\ \A i \in 1..Len(queue) : out'[k][1].x # queue[i].x
                   /\ \A i \in 1..Len(back) : out'[k][1].x # back[i].x
        <4>1. k + 1 \in 1..Len(out) /\ out'[k] = out[k + 1]
          BY <1>4
        <4>2. QED  BY <3>1, <4>1
      <3>4. QED  BY <3>2, <3>3
    <2>5. QED  BY <1>1, <2>2, <2>3, <2>4 DEF FlowInv, OnePlace
  <1>10. BackOK' /\ TransferOK'
    BY <1>1, <1>2 DEF FlowInv, BackOK, TransferOK
  <1>11. QED  BY <1>2, <1>6, <1>7, <1>8, <1>9, <1>10 DEF FlowInv

\* The receiver's queue without its first message.
LEMMA QueueTail ==
  ASSUME FlowInv, queue # <<>>
  PROVE  /\ Head(queue) = queue[1] /\ queue[1] \in Messages /\ queue[1].x \in Transfers
         /\ 1 \in 1..Len(queue) /\ Rank(use.blocks, queue[1]) \in Nat
         /\ MsgOK(use.blocks, up, tx, rx, queue[1])
         /\ Tail(queue) \in Seq(Messages) /\ Len(Tail(queue)) <= use.queueSize
         /\ \A i \in 1..Len(Tail(queue)) :
               /\ i + 1 \in 1..Len(queue) /\ Tail(queue)[i] = queue[i + 1]
               /\ InOrder(use.blocks, queue[1], Tail(queue)[i])
         /\ \A i, j \in 1..Len(Tail(queue)) :
               i < j => InOrder(use.blocks, Tail(queue)[i], Tail(queue)[j])
         /\ arriving # <<>> =>
               /\ InOrder(use.blocks, queue[1], arriving[1])
               /\ \A i \in 1..Len(Tail(queue)) : InOrder(use.blocks, Tail(queue)[i], arriving[1])
  <1> DEFINE u == Tail(queue)
  <1>1. queue \in Seq(Messages)
    BY Held
  <1>2. /\ Head(queue) = queue[1] /\ queue[1] \in Messages /\ u \in Seq(Messages)
        /\ Len(queue) \in Nat /\ Len(queue) >= 1 /\ Len(u) = Len(queue) - 1
        /\ \A i \in 1..Len(u) : i + 1 \in 1..Len(queue) /\ u[i] = queue[i + 1]
    BY <1>1, TailFacts
  <1> HIDE DEF u
  <1>3. queue[1].x \in Transfers /\ Rank(use.blocks, queue[1]) \in Nat
    BY <1>2, RankNat DEF FlowInv
  <1>4. 1 \in 1..Len(queue)
    BY <1>2
  <1>5. MsgOK(use.blocks, up, tx, rx, queue[1])
    BY <1>4 DEF FlowInv, LineOK, SeqOK
  <1>6. Len(u) <= use.queueSize
    BY <1>2, Numbers DEF FlowInv, TypeOK
  <1>7. /\ \A i, j \in 1..Len(queue) : i < j => InOrder(use.blocks, queue[i], queue[j])
        /\ arriving # <<>> =>
              \A i \in 1..Len(queue) : InOrder(use.blocks, queue[i], arriving[1])
    BY DEF FlowInv, QueueOrder
  <1>8. ASSUME NEW i \in 1..Len(u) PROVE InOrder(use.blocks, queue[1], u[i])
    <2>1. 1 < i + 1 /\ i + 1 \in 1..Len(queue) /\ u[i] = queue[i + 1]
      BY <1>2
    <2>2. QED  BY <1>4, <1>7, <2>1
  <1>9. ASSUME NEW i \in 1..Len(u), NEW j \in 1..Len(u), i < j PROVE InOrder(use.blocks, u[i], u[j])
    <2>1. /\ i + 1 < j + 1 /\ i + 1 \in 1..Len(queue) /\ u[i] = queue[i + 1]
          /\ j + 1 \in 1..Len(queue) /\ u[j] = queue[j + 1]
      BY <1>2, <1>9
    <2>2. QED  BY <1>7, <2>1
  <1>10. ASSUME arriving # <<>>
         PROVE  /\ InOrder(use.blocks, queue[1], arriving[1])
                /\ \A i \in 1..Len(u) : InOrder(use.blocks, u[i], arriving[1])
    <2>1. ASSUME NEW i \in 1..Len(u) PROVE InOrder(use.blocks, u[i], arriving[1])
      <3>1. i + 1 \in 1..Len(queue) /\ u[i] = queue[i + 1]
        BY <1>2
      <3>2. QED  BY <1>7, <1>10, <3>1
    <2>2. QED  BY <1>4, <1>7, <1>10, <2>1
  <1>11. QED  BY <1>2, <1>3, <1>4, <1>5, <1>6, <1>8, <1>9, <1>10 DEF u

\* The receiver's CASSI thread takes message m, writes at most one block, and
\* answers at most the last message of a bundle.
LEMMA FlowTake ==
  ASSUME FlowInv, queue # <<>>, queue' = Tail(queue),
         UNCHANGED <<use, up, connected, tx, out, arriving, owes>>,
         rx' \in [Transfers -> [fd : {"absent", "none", "open", "closed"}, at : 0..use.blocks]],
         \A y \in Transfers : y # queue[1].x => rx'[y].at = rx[y].at,
         \/ rx'[queue[1].x].at = rx[queue[1].x].at
         \/ /\ queue[1].id = "FILE_BLOCK_REQ"
            /\ rx'[queue[1].x].at = rx[queue[1].x].at + 1,
         \/ back' = back
         \/ /\ queue[1].last
            /\ \E r \in Messages :
                  /\ back' = Append(back, r) /\ r.x = queue[1].x
                  /\ r.id \in {"FILE_TX_REP", "FILE_BLOCK_REP"}
                  /\ r.id = "FILE_TX_REP" => tx[r.x].next = 1,
         inode' \in [Transfers -> 0..use.ups], file' \in [0..use.ups -> Seq(0..use.blocks)],
         joined' = joined, instances' \in Int, receiver' \in {"running", "exited", "aborted"}
  PROVE  FlowInv'
  <1> DEFINE m == queue[1]
  <1> DEFINE x == queue[1].x
  <1> DEFINE b == use.blocks
  <1>1. /\ use' = use /\ up' = up /\ connected' = connected /\ tx' = tx /\ out' = out
        /\ arriving' = arriving /\ owes' = owes
    OBVIOUS
  <1>2. Messages' = Messages /\ Transfers' = Transfers /\ use' \in Uses
    BY <1>1, SameUse DEF FlowInv
  <1>3. /\ m \in Messages /\ x \in Transfers /\ 1 \in 1..Len(queue) /\ Rank(b, m) \in Nat
        /\ MsgOK(b, up, tx, rx, m) /\ queue' \in Seq(Messages) /\ Len(queue') <= use.queueSize
        /\ \A i \in 1..Len(queue') :
              /\ i + 1 \in 1..Len(queue) /\ queue'[i] = queue[i + 1]
              /\ InOrder(b, m, queue'[i])
        /\ \A i, j \in 1..Len(queue') : i < j => InOrder(b, queue'[i], queue'[j])
        /\ arriving # <<>> =>
              /\ InOrder(b, m, arriving[1])
              /\ \A i \in 1..Len(queue') : InOrder(b, queue'[i], arriving[1])
    BY QueueTail
  <1>4. b \in Nat /\ x \in Nat
    BY <1>3, Numbers DEF FlowInv
  <1>5. /\ \A y \in Transfers : rx[y].at \in Nat /\ rx'[y].at \in Nat /\ tx[y].next \in Nat
        /\ m.id = "FILE_BLOCK_REQ" =>
              rx[x].at < Rank(b, m) /\ Rank(b, m) <= tx[x].next - 1 /\ tx[x].next \in Nat
    <2>1. rx \in [Transfers -> [fd : {"absent", "none", "open", "closed"}, at : 0..use.blocks]]
      BY DEF FlowInv, TypeOK
    <2>2. tx \in [Transfers -> [fd : {"none", "open", "closed"}, next : Nat]]
      BY DEF FlowInv, TypeOK
    <2>3. \A y \in Transfers : rx[y].at \in 0..b /\ rx'[y].at \in 0..b /\ tx[y].next \in Nat
      BY <2>1, <2>2
    <2>4. \A y \in Transfers : rx[y].at \in Nat /\ rx'[y].at \in Nat /\ tx[y].next \in Nat
      BY <1>4, <2>3
    <2>5. m.id = "FILE_BLOCK_REQ" =>
             rx[x].at < Rank(b, m) /\ Rank(b, m) \in (tx[x].next - FILE_BUNDLE_SIZE)..(tx[x].next - 1)
      BY <1>3 DEF MsgOK, Fits
    <2>6. QED  BY <1>3, <2>4, <2>5, BundleAssumption
  <1> HIDE DEF m, x, b
  <1>6. /\ \A y \in Transfers : y # x => rx'[y].at = rx[y].at
        /\ rx'[x].at = rx[x].at \/ (m.id = "FILE_BLOCK_REQ" /\ rx'[x].at = rx[x].at + 1)
    BY DEF m, x
  <1>7. \/ back' = back
        \/ m.last /\ \E r \in Messages :
              /\ back' = Append(back, r) /\ r.x = x
              /\ r.id \in {"FILE_TX_REP", "FILE_BLOCK_REP"}
              /\ r.id = "FILE_TX_REP" => tx[r.x].next = 1
    BY DEF m, x
  <1>8. ASSUME NEW n \in Messages, MsgOK(b, up, tx, rx, n), n.x = x => Rank(b, m) < Rank(b, n)
        PROVE  MsgOK(b, up, tx, rx', n)
    <2>1. n.x \in Transfers /\ Rank(b, n) \in Nat
      BY RankNat DEF FlowInv, b
    <2>2. rx[n.x].at < Rank(b, n) => rx'[n.x].at < Rank(b, n)
      <3>1. CASE n.x # x
        BY <1>6, <2>1, <3>1
      <3>2. CASE n.x = x
        BY <1>3, <1>5, <1>6, <1>8, <2>1, <3>2
      <3>3. QED  BY <3>1, <3>2
    <2>3. QED  BY <1>8, <2>2 DEF MsgOK, Fits
  <1>9. \A n \in Messages : InOrder(b, m, n) => (n.x = x => Rank(b, m) < Rank(b, n) /\ ~m.last)
    BY DEF InOrder, m, x
  <1>10. SeqOK(b, up, tx, rx', queue')
    <2> SUFFICES ASSUME NEW i \in 1..Len(queue') PROVE MsgOK(b, up, tx, rx', queue'[i])
      BY DEF SeqOK
    <2>1. i + 1 \in 1..Len(queue) /\ queue'[i] = queue[i + 1] /\ InOrder(b, m, queue'[i])
      BY <1>3
    <2>2. queue[i + 1] \in Messages /\ MsgOK(b, up, tx, rx, queue[i + 1])
      BY <2>1, Held DEF FlowInv, LineOK, SeqOK, b
    <2>3. QED  BY <1>8, <1>9, <2>1, <2>2
  <1>11. SeqOK(b, up, tx, rx', arriving)
    <2> SUFFICES ASSUME NEW i \in 1..Len(arriving) PROVE MsgOK(b, up, tx, rx', arriving[i])
      BY DEF SeqOK
    <2>1. arriving # <<>>
      BY Held
    <2>2. /\ arriving[1] \in Messages /\ arriving[i] \in Messages /\ arriving[i].x = arriving[1].x
          /\ MsgOK(b, up, tx, rx, arriving[i]) /\ i \in Nat /\ i >= 1
      BY <2>1, Held DEF FlowInv, LineOK, SeqOK, b
    <2>3. Rank(b, arriving[i]) = Rank(b, arriving[1]) + (i - 1)
      BY DEF FlowInv, LineOK, BundleLike, b
    <2>4. Rank(b, arriving[1]) \in Nat /\ Rank(b, arriving[i]) \in Nat
      BY <2>2, RankNat DEF FlowInv, b
    <2>5. arriving[i].x = x => Rank(b, m) < Rank(b, arriving[1])
      BY <1>3, <1>9, <2>1, <2>2
    <2>6. arriving[i].x = x => Rank(b, m) < Rank(b, arriving[i])
      BY <1>3, <2>2, <2>3, <2>4, <2>5
    <2>7. QED  BY <1>8, <2>2, <2>6
  <1>12. ASSUME NEW k \in 1..Len(out) PROVE SeqOK(b, up, tx, rx', out[k])
    <2> SUFFICES ASSUME NEW i \in 1..Len(out[k]) PROVE MsgOK(b, up, tx, rx', out[k][i])
      BY DEF SeqOK
    <2>1. out[k][i] \in Messages /\ out[k][i].x = out[k][1].x
      BY Held
    <2>2. MsgOK(b, up, tx, rx, out[k][i])
      BY DEF FlowInv, LineOK, SeqOK, b
    <2>3. out[k][1].x # x
      BY <1>3 DEF FlowInv, OnePlace, x
    <2>4. QED  BY <1>8, <2>1, <2>2, <2>3
  <1>13. LineOK'
    BY <1>1, <1>10, <1>11, <1>12 DEF FlowInv, LineOK, b
  <1>14. QueueOrder'
    BY <1>1, <1>3 DEF QueueOrder, b
  <1>15. back \in Seq(Messages)
    BY Held
  <1>16. /\ back' \in Seq(Messages) /\ Len(back) \in Nat
         /\ \A i \in 1..Len(back') :
               \/ i \in 1..Len(back) /\ back'[i] = back[i]
               \/ /\ i = Len(back) + 1 /\ m.last /\ back'[i].x = x
                  /\ back'[i].id \in {"FILE_TX_REP", "FILE_BLOCK_REP"}
                  /\ back'[i].id = "FILE_TX_REP" => tx[back'[i].x].next = 1
    <2>1. CASE back' = back
      BY <2>1, <1>15, LenProperties
    <2>2. CASE back' # back
      <3>1. PICK r \in Messages :
              /\ back' = Append(back, r) /\ r.x = x
              /\ r.id \in {"FILE_TX_REP", "FILE_BLOCK_REP"}
              /\ r.id = "FILE_TX_REP" => tx[r.x].next = 1
        BY <1>7, <2>2
      <3>2. m.last
        BY <1>7, <2>2
      <3>3. /\ back' \in Seq(Messages) /\ Len(back) \in Nat
            /\ back'[Len(back) + 1] = r
            /\ \A i \in 1..Len(back) : back'[i] = back[i]
            /\ \A i \in 1..Len(back') : i \in 1..Len(back) \/ i = Len(back) + 1
        BY <1>15, <3>1, AppendFacts
      <3>4. QED  BY <3>1, <3>2, <3>3
    <2>3. QED  BY <2>1, <2>2
  <1>17. TypeOK'
    BY <1>1, <1>2, <1>3, <1>16 DEF FlowInv, TypeOK
  <1>18. BackOK'
    <2> SUFFICES ASSUME NEW i \in 1..Len(back')
                 PROVE  /\ back'[i].x <= up /\ back'[i].id \in {"FILE_TX_REP", "FILE_BLOCK_REP"}
                        /\ back'[i].id = "FILE_TX_REP" => tx[back'[i].x].next = 1
      BY <1>1 DEF BackOK
    <2>1. x <= up
      BY <1>3 DEF MsgOK, m, x
    <2>2. CASE i \in 1..Len(back) /\ back'[i] = back[i]
      BY <2>2 DEF FlowInv, BackOK
    <2>3. QED  BY <1>16, <2>1, <2>2
  <1>19. OnePlace'
    <2>1. /\ \A k \in 1..Len(out) : out[k][1].x # x
          /\ \A i \in 1..Len(back) : back[i].x # x
      BY <1>3 DEF FlowInv, OnePlace, x
    <2>2. m.last => /\ arriving # <<>> => arriving[1].x # x
                    /\ \A i \in 1..Len(queue') : queue'[i].x # x
      <3>1. arriving # <<>> => arriving[1] \in Messages
        BY Held
      <3>2. \A i \in 1..Len(queue') : queue'[i] \in Messages
        BY <1>3, ElementOfSeq
      <3>3. QED  BY <1>3, <1>9, <3>1, <3>2
    <2>3. \A k \in 1..Len(out), i \in 1..Len(queue') : out[k][1].x # queue'[i].x
      BY <1>3 DEF FlowInv, OnePlace
    <2>4. ASSUME NEW i \in 1..Len(back')
          PROVE  /\ \A k \in 1..Len(out) : out[k][1].x # back'[i].x
                 /\ arriving # <<>> => back'[i].x # arriving[1].x
                 /\ \A j \in 1..Len(queue') : back'[i].x # queue'[j].x
      <3>1. CASE i \in 1..Len(back) /\ back'[i] = back[i]
        <4>1. /\ \A k \in 1..Len(out) : out[k][1].x # back[i].x
              /\ arriving # <<>> => back[i].x # arriving[1].x
              /\ \A j \in 1..Len(queue) : back[i].x # queue[j].x
          BY <3>1 DEF FlowInv, OnePlace
        <4>2. \A j \in 1..Len(queue') : back[i].x # queue'[j].x
          BY <1>3, <4>1
        <4>3. QED  BY <3>1, <4>1, <4>2
      <3>2. CASE m.last /\ back'[i].x = x
        BY <2>1, <2>2, <3>2
      <3>3. QED  BY <1>16, <3>1, <3>2
    <2>5. ASSUME NEW i \in 1..Len(back'), NEW j \in 1..Len(back'), back'[i].x = back'[j].x
          PROVE  i = j
      <3>1. \A k, l \in 1..Len(back) : back[k].x = back[l].x => k = l
        BY DEF FlowInv, OnePlace
      <3>2. /\ (i \in 1..Len(back) /\ back'[i] = back[i]) \/ (i = Len(back) + 1 /\ back'[i].x = x)
            /\ (j \in 1..Len(back) /\ back'[j] = back[j]) \/ (j = Len(back) + 1 /\ back'[j].x = x)
        BY <1>16
      <3>3. QED  BY <2>1, <2>5, <3>1, <3>2
    <2>6. QED  BY <1>1, <2>3, <2>4, <2>5 DEF FlowInv, OnePlace
  <1>20. TransferOK'
    <2> SUFFICES ASSUME NEW y \in Transfers PROVE rx'[y].at < tx[y].next
      BY <1>1, <1>2 DEF FlowInv, TransferOK
    <2>1. rx[y].at < tx[y].next
      BY DEF FlowInv, TransferOK
    <2>2. CASE y # x
      BY <1>6, <2>1, <2>2
    <2>3. CASE y = x
      <3>1. rx[x].at \in Nat /\ tx[x].next \in Nat
        BY <1>3, <1>5
      <3>2. m.id = "FILE_BLOCK_REQ" => rx[x].at + 1 < tx[x].next
        <4>1. SUFFICES ASSUME m.id = "FILE_BLOCK_REQ" PROVE rx[x].at + 1 < tx[x].next
          OBVIOUS
        <4>2. Rank(b, m) \in Nat /\ rx[x].at < Rank(b, m) /\ Rank(b, m) <= tx[x].next - 1
          BY <1>3, <1>5, <4>1
        <4>3. QED  BY <3>1, <4>2
      <3>3. QED  BY <1>6, <2>1, <2>3, <3>2
    <2>4. QED  BY <2>2, <2>3
  <1>21. QED  BY <1>2, <1>13, <1>14, <1>17, <1>18, <1>19, <1>20 DEF FlowInv

\* A request is answered.
LEMMA FlowTxReq == ASSUME FlowInv, processFileTxReq PROVE FlowInv'
  <1> DEFINE x == queue[1].x
  <1>1. /\ queue # <<>> /\ Head(queue) = queue[1] /\ x \in Transfers
        /\ queue[1].id = "FILE_TX_REQ" /\ MsgOK(use.blocks, up, tx, rx, queue[1])
    BY QueueTail DEF processFileTxReq, Message
  <1>2. /\ queue' = Tail(queue) /\ UNCHANGED <<use, up, connected, tx, out, arriving, owes>>
        /\ rx' = [rx EXCEPT ![x].fd = "none"]
        /\ back' = back \/ back' = Append(back, One("FILE_TX_REP", x))
        /\ inode' = inode /\ file' = file /\ joined' = joined
        /\ instances' = instances /\ receiver' = receiver
    BY <1>1 DEF processFileTxReq, Replied, sender
  <1>3. rx \in [Transfers -> [fd : {"absent", "none", "open", "closed"}, at : 0..use.blocks]]
    BY DEF FlowInv, TypeOK
  <1>4. /\ rx' \in [Transfers -> [fd : {"absent", "none", "open", "closed"}, at : 0..use.blocks]]
        /\ \A y \in Transfers : rx'[y].at = rx[y].at
    BY <1>1, <1>2, <1>3
  <1>5. queue[1].last /\ tx[x].next = 1
    BY <1>1 DEF MsgOK, Fits
  <1>6. \/ back' = back
        \/ \E r \in Messages :
              /\ back' = Append(back, r) /\ r.x = x
              /\ r.id \in {"FILE_TX_REP", "FILE_BLOCK_REP"}
              /\ r.id = "FILE_TX_REP" => tx[r.x].next = 1
    <2>1. use.blocks \in Nat
      BY Numbers DEF FlowInv
    <2>2. One("FILE_TX_REP", x) \in Messages /\ One("FILE_TX_REP", x).x = x
          /\ One("FILE_TX_REP", x).id = "FILE_TX_REP"
      BY <1>1, <2>1 DEF One, Messages
    <2>3. QED  BY <1>2, <1>5, <2>2
  <1>7. /\ inode' \in [Transfers -> 0..use.ups] /\ file' \in [0..use.ups -> Seq(0..use.blocks)]
        /\ instances' \in Int /\ receiver' \in {"running", "exited", "aborted"}
    BY <1>2 DEF FlowInv, TypeOK
  <1>8. QED  BY <1>1, <1>2, <1>4, <1>5, <1>6, <1>7, FlowTake

\* Writing a block into a file.
LEMMA WriteBlock ==
  ASSUME NEW b \in Nat, NEW f \in Seq(0..b), NEW at \in Nat, NEW e \in 0..b
  PROVE  /\ Written(f, at, e) \in Seq(0..b)
         /\ at < Len(f) =>
               /\ Len(Written(f, at, e)) = Len(f) /\ Written(f, at, e)[at + 1] = e
               /\ \A i \in 1..Len(f) : i # at + 1 => Written(f, at, e)[i] = f[i]
         /\ ~(at < Len(f)) => Written(f, at, e) = Append(f, e)
  <1>1. Len(f) \in Nat /\ f \in [1..Len(f) -> 0..b]
    BY LenProperties
  <1>2. CASE at < Len(f)
    <2> DEFINE w == [f EXCEPT ![at + 1] = e]
    <2>1. Written(f, at, e) = w
      BY <1>2 DEF Written
    <2>2. at + 1 \in 1..Len(f)
      BY <1>1, <1>2
    <2>3. /\ w \in [1..Len(f) -> 0..b] /\ w[at + 1] = e
          /\ \A i \in 1..Len(f) : i # at + 1 => w[i] = f[i]
      BY <1>1, <2>2
    <2> HIDE DEF w
    <2>4. w \in Seq(0..b)
      BY <1>1, <2>3, SeqDef
    <2>5. DOMAIN w = 1..Len(f) /\ DOMAIN w = 1..Len(w) /\ Len(w) \in Nat
      BY <2>3, <2>4, LenProperties
    <2>6. Len(w) = Len(f)
      BY <1>1, <2>5
    <2>7. QED  BY <1>2, <2>1, <2>3, <2>4, <2>6
  <1>3. CASE ~(at < Len(f))
    <2>1. Written(f, at, e) = Append(f, e)
      BY <1>3 DEF Written
    <2>2. Append(f, e) \in Seq(0..b)
      BY AppendFacts
    <2>3. QED  BY <1>3, <2>1, <2>2
  <1>4. QED  BY <1>2, <1>3

\* The file that a message of transfer x is written into.
Target(m, x) == IF m.first /\ rx[x].fd = "none" THEN Path ELSE inode[x]

\* What processFileBlockReq does, with x the transfer of the message.
LEMMA BlockReqStep ==
  ASSUME FlowInv, processFileBlockReq
  PROVE  LET m == queue[1]
             x == queue[1].x
         IN  /\ queue # <<>> /\ queue' = Tail(queue) /\ x \in Transfers /\ m \in Messages
             /\ m.id = "FILE_BLOCK_REQ" /\ MsgOK(use.blocks, up, tx, rx, m) /\ receiver = "running"
             /\ UNCHANGED <<use, up, connected, joined, tx, out, arriving, owes>>
             /\ instances' \in Int
             /\ inode' = [inode EXCEPT ![x] = Target(m, x)]
             /\ \/ back' = back
                \/ m.last /\ back' = Append(back, One("FILE_BLOCK_REP", x))
             /\ \/ /\ m.block = 0 /\ file' = file /\ receiver' \in {"running", "exited"}
                   /\ rx' = [rx EXCEPT ![x].fd = "closed"]
                \/ /\ m.block # 0 /\ receiver' = receiver
                   /\ rx' = [rx EXCEPT ![x] = [fd |-> "open", at |-> rx[x].at + 1]]
                   /\ file' = [file EXCEPT ![Target(m, x)] =
                                  Written(file[Target(m, x)], rx[x].at, m.block)]
                \/ /\ m.block # 0 /\ receiver' = "aborted" /\ rx' = rx /\ file' = file
  <1>1. queue # <<>> /\ Head(queue).id = "FILE_BLOCK_REQ" /\ receiver = "running"
    BY DEF processFileBlockReq, Message
  <1>2. /\ Head(queue) = queue[1] /\ queue[1] \in Messages /\ queue[1].x \in Transfers
        /\ MsgOK(use.blocks, up, tx, rx, queue[1])
    BY <1>1, QueueTail
  <1>3. queue' = Tail(queue) /\ UNCHANGED <<use, up, connected, joined, tx, out, arriving, owes>>
    BY DEF processFileBlockReq, sender
  <1>4. instances' \in Int
    <2>1. instances \in Int
      BY DEF FlowInv, TypeOK
    <2>2. instances' = instances + (IF Head(queue).first /\ rx[Head(queue).x].fd = "none" THEN 1 ELSE 0)
                         - (IF Head(queue).block = 0 THEN 1 ELSE 0)
      BY DEF processFileBlockReq
    <2>3. QED  BY <2>1, <2>2
  <1>5. \/ back' = back
        \/ queue[1].last /\ back' = Append(back, One("FILE_BLOCK_REP", queue[1].x))
    BY <1>2 DEF processFileBlockReq, AsksForMore, Replied
  <1>6. inode' = [inode EXCEPT ![queue[1].x] = Target(queue[1], queue[1].x)]
    BY <1>2 DEF processFileBlockReq, Target
  <1>7. \/ /\ queue[1].block = 0 /\ file' = file /\ receiver' \in {"running", "exited"}
           /\ rx' = [rx EXCEPT ![queue[1].x].fd = "closed"]
        \/ /\ queue[1].block # 0 /\ receiver' = receiver
           /\ rx' = [rx EXCEPT ![queue[1].x] = [fd |-> "open", at |-> rx[queue[1].x].at + 1]]
           /\ file' = [file EXCEPT ![Target(queue[1], queue[1].x)] =
                          Written(file[Target(queue[1], queue[1].x)], rx[queue[1].x].at,
                                  queue[1].block)]
        \/ /\ queue[1].block # 0 /\ receiver' = "aborted" /\ rx' = rx /\ file' = file
    <2>1. CASE /\ Head(queue).block = 0
               /\ rx' = [rx EXCEPT ![Head(queue).x].fd = "closed"]
               /\ receiver' \in {"running", "exited"}
               /\ file' = file
      BY <1>2, <2>1
    <2>2. CASE /\ Head(queue).block # 0
               /\ rx' = [rx EXCEPT ![Head(queue).x] = [fd |-> "open", at |-> @.at + 1]]
               /\ file' = [file EXCEPT ![Target(Head(queue), Head(queue).x)] =
                              Written(@, rx[Head(queue).x].at, Head(queue).block)]
               /\ receiver' = receiver
      BY <1>2, <2>2
    <2>3. CASE /\ Head(queue).block # 0 /\ receiver' = "aborted" /\ rx' = rx /\ file' = file
      BY <1>2, <2>3
    <2>4. QED  BY <1>1, <2>1, <2>2, <2>3 DEF processFileBlockReq, Target
  <1>8. QED  BY <1>1, <1>2, <1>3, <1>4, <1>5, <1>6, <1>7

\* A transfer writes one of the files.
LEMMA TargetType ==
  ASSUME FlowInv, NEW m, NEW x \in Transfers
  PROVE  Target(m, x) \in 0..use.ups
  <1>1. up \in 0..use.ups /\ inode \in [Transfers -> 0..use.ups] /\ use.ups \in Nat
    BY Numbers DEF FlowInv, TypeOK
  <1>2. Path \in 0..use.ups
    BY <1>1 DEF Path
  <1>3. QED  BY <1>1, <1>2 DEF Target

\* A block is written, the file closed, or the process aborted.
LEMMA FlowBlockReq == ASSUME FlowInv, processFileBlockReq PROVE FlowInv'
  <1> DEFINE m == queue[1]
  <1> DEFINE x == queue[1].x
  <1> DEFINE g == Target(m, x)
  <1>1. /\ queue # <<>> /\ queue' = Tail(queue) /\ x \in Transfers /\ m \in Messages
        /\ m.id = "FILE_BLOCK_REQ" /\ MsgOK(use.blocks, up, tx, rx, m)
        /\ UNCHANGED <<use, up, connected, joined, tx, out, arriving, owes>>
        /\ instances' \in Int /\ receiver = "running" /\ inode' = [inode EXCEPT ![x] = g]
    BY BlockReqStep
  <1>2. \/ back' = back
        \/ m.last /\ back' = Append(back, One("FILE_BLOCK_REP", x))
    BY BlockReqStep
  <1>3. \/ /\ m.block = 0 /\ file' = file /\ receiver' \in {"running", "exited"}
           /\ rx' = [rx EXCEPT ![x].fd = "closed"]
        \/ /\ m.block # 0 /\ receiver' = receiver
           /\ rx' = [rx EXCEPT ![x] = [fd |-> "open", at |-> rx[x].at + 1]]
           /\ file' = [file EXCEPT ![g] = Written(file[g], rx[x].at, m.block)]
        \/ /\ m.block # 0 /\ receiver' = "aborted" /\ rx' = rx /\ file' = file
    BY BlockReqStep
  <1>4. rx \in [Transfers -> [fd : {"absent", "none", "open", "closed"}, at : 0..use.blocks]]
    BY DEF FlowInv, TypeOK
  <1>5. /\ use.blocks \in Nat /\ m.block \in 0..use.blocks /\ rx[x].at \in 0..use.blocks
        /\ file \in [0..use.ups -> Seq(0..use.blocks)] /\ inode \in [Transfers -> 0..use.ups]
    BY <1>1, <1>4, Numbers DEF FlowInv, TypeOK, Messages
  <1>6. m.block # 0 => rx[x].at < m.block
    BY <1>1 DEF MsgOK, Fits, Rank
  <1>7. g \in 0..use.ups
    BY <1>1, TargetType
  <1> HIDE DEF m, x, g
  <1>8. inode' \in [Transfers -> 0..use.ups]
    BY <1>1, <1>5, <1>7
  <1>9. /\ rx' \in [Transfers -> [fd : {"absent", "none", "open", "closed"}, at : 0..use.blocks]]
        /\ \A y \in Transfers : y # x => rx'[y].at = rx[y].at
        /\ rx'[x].at = rx[x].at \/ rx'[x].at = rx[x].at + 1
        /\ file' \in [0..use.ups -> Seq(0..use.blocks)]
    <2>1. CASE rx' = [rx EXCEPT ![x].fd = "closed"] /\ file' = file
      BY <2>1, <1>1, <1>4, <1>5
    <2>2. CASE /\ m.block # 0
               /\ rx' = [rx EXCEPT ![x] = [fd |-> "open", at |-> rx[x].at + 1]]
               /\ file' = [file EXCEPT ![g] = Written(file[g], rx[x].at, m.block)]
      <3>1. rx[x].at + 1 \in 0..use.blocks /\ rx[x].at \in Nat
        BY <2>2, <1>5, <1>6
      <3>2. Written(file[g], rx[x].at, m.block) \in Seq(0..use.blocks)
        BY <1>5, <1>7, <3>1, WriteBlock
      <3>3. file' \in [0..use.ups -> Seq(0..use.blocks)]
        BY <2>2, <1>5, <3>2
      <3>4. QED  BY <2>2, <1>1, <1>4, <3>1, <3>3
    <2>3. CASE rx' = rx /\ file' = file
      BY <2>3, <1>1, <1>4, <1>5
    <2>4. QED  BY <1>3, <2>1, <2>2, <2>3
  <1>10. receiver' \in {"running", "exited", "aborted"}
    BY <1>1, <1>3
  <1>11. \/ back' = back
         \/ /\ m.last
            /\ \E r \in Messages :
                  /\ back' = Append(back, r) /\ r.x = x
                  /\ r.id \in {"FILE_TX_REP", "FILE_BLOCK_REP"}
                  /\ r.id = "FILE_TX_REP" => tx[r.x].next = 1
    <2>1. One("FILE_BLOCK_REP", x) \in Messages /\ One("FILE_BLOCK_REP", x).x = x
          /\ One("FILE_BLOCK_REP", x).id = "FILE_BLOCK_REP"
      BY <1>1, <1>5 DEF One, Messages
    <2>2. QED  BY <1>2, <2>1
  <1>12. QED  BY <1>1, <1>8, <1>9, <1>10, <1>11, FlowTake DEF m, x

\* What is left of the bundle that arrives.
LEMMA ArrivingTail ==
  ASSUME FlowInv, arriving # <<>>
  PROVE  /\ Head(arriving) = arriving[1] /\ arriving[1] \in Messages /\ 1 \in 1..Len(arriving)
         /\ Rank(use.blocks, arriving[1]) \in Nat
         /\ Tail(arriving) \in Seq(Messages) /\ BundleLike(use.blocks, Tail(arriving))
         /\ \A i \in 1..Len(Tail(arriving)) :
               i + 1 \in 1..Len(arriving) /\ Tail(arriving)[i] = arriving[i + 1]
         /\ Tail(arriving) # <<>> =>
               /\ Tail(arriving)[1].x = arriving[1].x /\ ~arriving[1].last
               /\ Rank(use.blocks, Tail(arriving)[1]) = Rank(use.blocks, arriving[1]) + 1
         /\ Tail(arriving) = <<>> => arriving[1].last
  <1>1. arriving \in Seq(Messages) /\ BundleLike(use.blocks, arriving) /\ use.blocks \in Nat
    BY Held, Numbers DEF FlowInv, LineOK
  <1>2. /\ Head(arriving) = arriving[1] /\ arriving[1] \in Messages
        /\ 1 \in 1..Len(arriving) /\ Tail(arriving) \in Seq(Messages)
        /\ \A i \in 1..Len(Tail(arriving)) :
              i + 1 \in 1..Len(arriving) /\ Tail(arriving)[i] = arriving[i + 1]
    BY <1>1, TailFacts
  <1>3. Rank(use.blocks, arriving[1]) \in Nat
    BY <1>2, RankNat DEF FlowInv
  <1>4. QED  BY <1>1, <1>2, <1>3, BundleTail

\* A message passes from the bundle to the receiver's queue, or is dropped.
LEMMA FlowShim == ASSUME FlowInv, processShimReq PROVE FlowInv'
  <1> DEFINE m == arriving[1]
  <1> DEFINE b == use.blocks
  <1>1. /\ use' = use /\ up' = up /\ connected' = connected /\ tx' = tx /\ out' = out
        /\ rx' = rx /\ inode' = inode /\ file' = file /\ joined' = joined
        /\ instances' = instances /\ receiver' = receiver
        /\ back' = back /\ arriving # <<>> /\ arriving' = Tail(arriving)
    BY DEF processShimReq, sender, receiving
  <1>2. Messages' = Messages /\ Transfers' = Transfers /\ use' \in Uses
    BY <1>1, SameUse DEF FlowInv
  <1>3. /\ Head(arriving) = m /\ m \in Messages /\ 1 \in 1..Len(arriving) /\ Rank(b, m) \in Nat
        /\ arriving' \in Seq(Messages) /\ BundleLike(b, arriving')
        /\ \A i \in 1..Len(arriving') : i + 1 \in 1..Len(arriving) /\ arriving'[i] = arriving[i + 1]
        /\ arriving' # <<>> => /\ arriving'[1].x = m.x /\ ~m.last
                               /\ Rank(b, arriving'[1]) = Rank(b, m) + 1
    BY <1>1, ArrivingTail
  <1>4. \/ Len(queue) < use.queueSize /\ queue' = Append(queue, m) /\ owes' = owes
        \/ queue' = queue /\ owes' = m.last
    BY <1>3 DEF processShimReq
  <1>5. /\ queue \in Seq(Messages) /\ \A i \in 1..Len(queue) : queue[i] \in Messages
    BY Held
  <1> HIDE DEF m, b
  <1>6. /\ queue' \in Seq(Messages) /\ Len(queue) \in Nat
        /\ \A i \in 1..Len(queue') :
              (i \in 1..Len(queue) /\ queue'[i] = queue[i]) \/ (i = Len(queue) + 1 /\ queue'[i] = m)
    <2>1. CASE queue' = queue
      BY <2>1, <1>5, LenProperties
    <2>2. CASE queue' = Append(queue, m)
      BY <2>2, <1>3, <1>5, AppendFacts
    <2>3. QED  BY <1>4, <2>1, <2>2
  <1>7. TypeOK'
    <2>1. Len(queue') <= use.queueSize
      <3>1. use.queueSize \in Nat /\ Len(queue) <= use.queueSize
        BY Numbers DEF FlowInv, TypeOK
      <3>2. CASE queue' = queue
        BY <3>1, <3>2
      <3>3. CASE Len(queue) < use.queueSize /\ queue' = Append(queue, m)
        BY <3>1, <3>3, <1>3, <1>5, AppendFacts
      <3>4. QED  BY <1>4, <3>2, <3>3
    <2>2. owes' \in BOOLEAN
      <3>1. m.last \in BOOLEAN
        BY <1>3 DEF Messages
      <3>2. QED  BY <1>4, <3>1 DEF FlowInv, TypeOK
    <2>3. QED  BY <1>1, <1>2, <1>3, <1>6, <2>1, <2>2 DEF FlowInv, TypeOK
  <1>8. LineOK'
    <2>1. /\ SeqOK(b, up, tx, rx, queue) /\ SeqOK(b, up, tx, rx, arriving)
      BY DEF FlowInv, LineOK, b
    <2>2. MsgOK(b, up, tx, rx, m)
      BY <1>3, <2>1 DEF SeqOK, m
    <2>3. SeqOK(b, up, tx, rx, queue')
      BY <1>6, <2>1, <2>2 DEF SeqOK
    <2>4. SeqOK(b, up, tx, rx, arriving')
      BY <1>3, <2>1 DEF SeqOK
    <2>5. QED  BY <1>1, <1>3, <2>3, <2>4 DEF FlowInv, LineOK, b
  <1>9. /\ \A i, j \in 1..Len(queue) : i < j => InOrder(b, queue[i], queue[j])
        /\ \A i \in 1..Len(queue) : InOrder(b, queue[i], m)
    BY <1>1 DEF FlowInv, QueueOrder, b, m
  <1>10. QueueOrder'
    <2>1. ASSUME NEW i \in 1..Len(queue'), NEW j \in 1..Len(queue'), i < j
          PROVE  InOrder(b, queue'[i], queue'[j])
      <3>1. i \in 1..Len(queue) /\ queue'[i] = queue[i]
        BY <1>6, <2>1
      <3>2. CASE j \in 1..Len(queue) /\ queue'[j] = queue[j]
        BY <1>9, <2>1, <3>1, <3>2
      <3>3. CASE queue'[j] = m
        BY <1>9, <3>1, <3>3
      <3>4. QED  BY <1>6, <3>2, <3>3
    <2>2. ASSUME arriving' # <<>>, NEW i \in 1..Len(queue')
          PROVE  InOrder(b, queue'[i], arriving'[1])
      <3>1. arriving'[1].x = m.x /\ ~m.last /\ Rank(b, arriving'[1]) = Rank(b, m) + 1
        BY <1>3, <2>2
      <3>2. CASE i \in 1..Len(queue) /\ queue'[i] = queue[i]
        <4>1. InOrder(b, queue[i], m) /\ queue[i] \in Messages
          BY <1>5, <1>9, <3>2
        <4>2. Rank(b, queue[i]) \in Nat
          BY <4>1, RankNat DEF FlowInv, b
        <4>3. Rank(b, queue[i]) < Rank(b, m) => Rank(b, queue[i]) < Rank(b, arriving'[1])
          BY <1>3, <3>1, <4>2
        <4>4. QED  BY <3>1, <3>2, <4>1, <4>3 DEF InOrder
      <3>3. CASE queue'[i] = m
        <4>1. Rank(b, m) < Rank(b, arriving'[1])
          BY <1>3, <3>1
        <4>2. QED  BY <3>1, <3>3, <4>1 DEF InOrder
      <3>4. QED  BY <1>6, <3>2, <3>3
    <2>3. QED  BY <1>1, <2>1, <2>2 DEF QueueOrder, b
  <1>11. OnePlace'
    <2>1. /\ \A k \in 1..Len(out) : out[k][1].x # m.x
          /\ \A i \in 1..Len(back) : back[i].x # m.x
          /\ \A k \in 1..Len(out), i \in 1..Len(queue) : out[k][1].x # queue[i].x
          /\ \A i \in 1..Len(back), j \in 1..Len(queue) : back[i].x # queue[j].x
      BY <1>1 DEF FlowInv, OnePlace, m
    <2>2. ASSUME NEW i \in 1..Len(queue')
          PROVE  /\ \A k \in 1..Len(out) : out[k][1].x # queue'[i].x
                 /\ \A k \in 1..Len(back) : back[k].x # queue'[i].x
      <3>1. queue'[i] = m \/ (i \in 1..Len(queue) /\ queue'[i] = queue[i])
        BY <1>6
      <3>2. QED  BY <2>1, <3>1
    <2>3. QED  BY <1>1, <1>3, <2>1, <2>2 DEF FlowInv, OnePlace
  <1>12. BackOK' /\ TransferOK'
    BY <1>1, <1>2 DEF FlowInv, BackOK, TransferOK
  <1>13. QED  BY <1>2, <1>7, <1>8, <1>10, <1>11, <1>12 DEF FlowInv

\* The flow invariant is preserved by every step.
LEMMA FlowStep == ASSUME FlowInv, [Next]_vars PROVE FlowInv'
  <1>1. CASE UNCHANGED vars \/ processJoinRep
    <2>1. /\ use' = use /\ up' = up /\ connected' = connected /\ tx' = tx /\ out' = out
          /\ arriving' = arriving /\ owes' = owes /\ queue' = queue /\ rx' = rx
          /\ inode' = inode /\ file' = file
          /\ instances' = instances /\ receiver' = receiver /\ back' = back
      BY <1>1 DEF vars, processJoinRep, sender
    <2>j. joined' \in BOOLEAN
      <3>1. joined' = joined \/ joined' = TRUE
        BY <1>1 DEF vars, processJoinRep
      <3>2. QED  BY <3>1 DEF FlowInv, TypeOK
    <2>2. Messages' = Messages /\ Transfers' = Transfers /\ use' \in Uses
      BY <2>1, SameUse DEF FlowInv
    <2>3. TypeOK'
      BY <2>1, <2>2, <2>j DEF FlowInv, TypeOK
    <2>4. LineOK' /\ QueueOrder' /\ OnePlace'
      BY <2>1 DEF FlowInv, LineOK, QueueOrder, OnePlace
    <2>5. BackOK' /\ TransferOK'
      BY <2>1, <2>2 DEF FlowInv, BackOK, TransferOK
    <2>6. QED  BY <2>2, <2>3, <2>4, <2>5 DEF FlowInv
  <1>2. CASE peerStateChanged
    BY <1>2, FlowUp
  <1>3. CASE processFileTxRep
    BY <1>3, FlowTxRep
  <1>4. CASE processFileBlockRep
    BY <1>4, FlowBlockRep
  <1>5. CASE RepRecv
    BY <1>5, FlowRecv
  <1>6. CASE processShimReq
    BY <1>6, FlowShim
  <1>7. CASE processFileTxReq
    BY <1>7, FlowTxReq
  <1>8. CASE processFileBlockReq
    BY <1>8, FlowBlockReq
  <1>9. CASE Disconnect
    BY <1>9, FlowDisconnect
  <1>10. QED
    BY <1>1, <1>2, <1>3, <1>4, <1>5, <1>6, <1>7, <1>8, <1>9 DEF Next, Step

\* The flow invariant holds.
LEMMA FlowAlways == Spec => []FlowInv
  BY FlowInit, FlowStep, PTL DEF Spec

\* Types: the receiver's queue stays within its size and it writes blocks of the file
\* that is sent, for every size of file, queue and bundle.
THEOREM FileTypeCorrect == Spec => []TypeOK
  <1>1. FlowInv => TypeOK
    BY DEF FlowInv
  <1>2. QED  BY <1>1, FlowAlways, PTL

-----------------------------------------------------------------------------
(* One bundle of each transfer on the way *)

\* The line is the receiver's queue, the bundle it reads, and the sender's bundles.
LEMMA LineAt ==
  ASSUME FlowInv
  PROVE  /\ DOMAIN Line = 1..(Len(out) + 2) /\ Len(out) \in Nat
         /\ Line[1] = queue /\ Line[2] = arriving
         /\ \A k \in 1..(Len(out) + 2) :
               \/ k = 1 \/ k = 2
               \/ k \notin {1, 2} /\ k - 2 \in 1..Len(out) /\ Line[k] = out[k - 2]
  <1> DEFINE S == Seq(Messages)
  <1> DEFINE f == <<queue, arriving>>
  <1>1. queue \in S /\ arriving \in S /\ out \in Seq(S)
    BY Held
  <1> HIDE DEF S
  <1>2. f \in Seq(S) /\ Len(f) = 2 /\ f[1] = queue /\ f[2] = arriving
    BY <1>1
  <1> HIDE DEF f
  <1>3. /\ f \o out \in Seq(S) /\ Len(f \o out) = 2 + Len(out) /\ Len(out) \in Nat
        /\ \A k \in 1..(2 + Len(out)) :
              (f \o out)[k] = IF k <= 2 THEN f[k] ELSE out[k - 2]
    <2>1. /\ f \o out \in Seq(S) /\ Len(f \o out) = Len(f) + Len(out)
          /\ \A k \in 1..(Len(f) + Len(out)) :
                (f \o out)[k] = IF k <= Len(f) THEN f[k] ELSE out[k - Len(f)]
      BY <1>1, <1>2, ConcatProperties
    <2>2. Len(out) \in Nat
      BY <1>1, LenProperties
    <2>3. QED  BY <1>2, <2>1, <2>2
  <1>4. Line = f \o out
    BY DEF Line, f
  <1>5. DOMAIN Line = 1..(Len(out) + 2)
    BY <1>3, <1>4, LenProperties
  <1>6. 1 \in 1..(2 + Len(out)) /\ 2 \in 1..(2 + Len(out))
    BY <1>3
  <1>7. Line[1] = queue /\ Line[2] = arriving
    BY <1>2, <1>3, <1>4, <1>6
  <1>8. ASSUME NEW k \in 1..(Len(out) + 2), k # 1, k # 2
        PROVE  k - 2 \in 1..Len(out) /\ Line[k] = out[k - 2]
    <2>1. k \in 1..(2 + Len(out)) /\ ~(k <= 2) /\ k - 2 \in 1..Len(out)
      BY <1>3, <1>8
    <2>2. QED  BY <1>3, <1>4, <2>1
  <1>9. QED  BY <1>3, <1>5, <1>7, <1>8

\* The message in a place of the line.
At(p) == Line[p[1]][p[2]]

\* What is in a place of the line.
LEMMA PlaceFacts ==
  ASSUME FlowInv, NEW x \in Transfers, NEW p \in Blocks(x)
  PROVE  /\ p = <<p[1], p[2]>> /\ At(p) \in Messages /\ At(p).id = "FILE_BLOCK_REQ" /\ At(p).x = x
         /\ MsgOK(use.blocks, up, tx, rx, At(p)) /\ Rank(use.blocks, At(p)) \in Nat
         /\ \/ p[1] = 1 /\ p[2] \in 1..Len(queue) /\ At(p) = queue[p[2]]
            \/ p[1] = 2 /\ p[2] \in 1..Len(arriving) /\ At(p) = arriving[p[2]] /\ arriving # <<>>
            \/ /\ p[1] \notin {1, 2} /\ p[1] \in Nat /\ p[1] - 2 \in 1..Len(out)
               /\ p[2] \in 1..Len(out[p[1] - 2]) /\ At(p) = out[p[1] - 2][p[2]]
  <1>1. PICK k \in DOMAIN Line : p \in {k} \X DOMAIN Line[k]
    BY DEF Blocks
  <1>2. p[1] = k /\ p[2] \in DOMAIN Line[k] /\ p = <<p[1], p[2]>>
    BY <1>1
  <1>3. At(p).id = "FILE_BLOCK_REQ" /\ At(p).x = x
    BY DEF Blocks, At
  <1>4. k \in 1..(Len(out) + 2) /\ k \in Nat
    BY <1>1, LineAt
  <1>5. At(p) = Line[k][p[2]]
    BY <1>2 DEF At
  <1>6. /\ queue \in Seq(Messages) /\ arriving \in Seq(Messages)
        /\ \A l \in 1..Len(out) : out[l] \in Seq(Messages)
    BY Held
  <1>7. /\ DOMAIN queue = 1..Len(queue) /\ DOMAIN arriving = 1..Len(arriving)
        /\ \A l \in 1..Len(out) : DOMAIN out[l] = 1..Len(out[l])
    BY <1>6, LenProperties
  <1>8. /\ SeqOK(use.blocks, up, tx, rx, queue) /\ SeqOK(use.blocks, up, tx, rx, arriving)
        /\ \A l \in 1..Len(out) : SeqOK(use.blocks, up, tx, rx, out[l])
    BY DEF FlowInv, LineOK
  <1>9. /\ At(p) \in Messages /\ MsgOK(use.blocks, up, tx, rx, At(p))
        /\ \/ p[1] = 1 /\ p[2] \in 1..Len(queue) /\ At(p) = queue[p[2]]
           \/ p[1] = 2 /\ p[2] \in 1..Len(arriving) /\ At(p) = arriving[p[2]] /\ arriving # <<>>
           \/ /\ p[1] \notin {1, 2} /\ p[1] \in Nat /\ p[1] - 2 \in 1..Len(out)
              /\ p[2] \in 1..Len(out[p[1] - 2]) /\ At(p) = out[p[1] - 2][p[2]]
    <2>1. CASE k = 1
      <3>1. p[2] \in 1..Len(queue) /\ At(p) = queue[p[2]]
        BY <2>1, <1>2, <1>5, <1>7, LineAt
      <3>2. QED  BY <2>1, <3>1, <1>2, <1>8, Held DEF SeqOK
    <2>2. CASE k = 2
      <3>1. p[2] \in 1..Len(arriving) /\ At(p) = arriving[p[2]]
        BY <2>2, <1>2, <1>5, <1>7, LineAt
      <3>2. arriving # <<>>
        BY <3>1
      <3>3. QED  BY <2>2, <3>1, <3>2, <1>2, <1>8, Held DEF SeqOK
    <2>3. CASE k # 1 /\ k # 2
      <3>1. k - 2 \in 1..Len(out) /\ Line[k] = out[k - 2]
        BY <2>3, <1>4, LineAt
      <3>2. p[2] \in 1..Len(out[k - 2]) /\ At(p) = out[k - 2][p[2]]
        BY <3>1, <1>2, <1>5, <1>7
      <3>3. At(p) \in Messages /\ MsgOK(use.blocks, up, tx, rx, At(p))
        BY <3>1, <3>2, <1>8, Held DEF SeqOK
      <3>4. QED  BY <2>3, <3>1, <3>2, <3>3, <1>2, <1>4
    <2>4. QED  BY <2>1, <2>2, <2>3
  <1>10. Rank(use.blocks, At(p)) \in Nat
    BY <1>9, RankNat DEF FlowInv
  <1>11. QED  BY <1>2, <1>3, <1>9, <1>10

\* In a bundle, later messages are further on.
LEMMA BundleRanks ==
  ASSUME NEW b, NEW s, BundleLike(b, s), Rank(b, s[1]) \in Nat,
         NEW i \in 1..Len(s), NEW j \in 1..Len(s)
  PROVE  /\ Rank(b, s[i]) = Rank(b, s[j]) => i = j
         /\ Rank(b, s[1]) <= Rank(b, s[i])
  <1>1. Rank(b, s[i]) = Rank(b, s[1]) + (i - 1) /\ Rank(b, s[j]) = Rank(b, s[1]) + (j - 1)
    BY DEF BundleLike
  <1>2. i \in Int /\ j \in Int /\ i >= 1
    OBVIOUS
  <1>3. QED  BY <1>1, <1>2

\* No two messages of a transfer on the way carry the same block.
LEMMA PlacesDiffer ==
  ASSUME FlowInv, NEW x \in Transfers, NEW p \in Blocks(x), NEW q \in Blocks(x),
         Rank(use.blocks, At(p)) = Rank(use.blocks, At(q))
  PROVE  p = q
  <1> DEFINE b == use.blocks
  <1>1. ASSUME NEW y \in Blocks(x)
        PROVE  /\ y = <<y[1], y[2]>> /\ At(y).x = x /\ Rank(b, At(y)) \in Nat
               /\ \/ y[1] = 1 /\ y[2] \in 1..Len(queue) /\ At(y) = queue[y[2]]
                  \/ y[1] = 2 /\ y[2] \in 1..Len(arriving) /\ At(y) = arriving[y[2]] /\ arriving # <<>>
                  \/ /\ y[1] \notin {1, 2} /\ y[1] \in Nat /\ y[1] - 2 \in 1..Len(out)
                     /\ y[2] \in 1..Len(out[y[1] - 2]) /\ At(y) = out[y[1] - 2][y[2]]
    BY PlaceFacts
  <1>2. ASSUME NEW i \in 1..Len(queue), NEW j \in 1..Len(queue),
               queue[i].x = queue[j].x, Rank(b, queue[i]) = Rank(b, queue[j])
        PROVE  i = j
    <2>1. i \in Int /\ j \in Int /\ Rank(b, queue[i]) \in Nat /\ Rank(b, queue[j]) \in Nat
      BY Held, RankNat DEF FlowInv
    <2>2. /\ i < j => InOrder(b, queue[i], queue[j])
          /\ j < i => InOrder(b, queue[j], queue[i])
      BY DEF FlowInv, QueueOrder
    <2>3. QED  BY <1>2, <2>1, <2>2 DEF InOrder
  <1>3. arriving # <<>> => Rank(b, arriving[1]) \in Nat
    BY Held, RankNat DEF FlowInv
  <1>4. BundleLike(b, arriving) /\ \A k \in 1..Len(out) : BundleLike(b, out[k])
    BY DEF FlowInv, LineOK
  <1>5. ASSUME NEW i \in 1..Len(queue), NEW j \in 1..Len(arriving), arriving # <<>>,
               queue[i].x = x, arriving[j].x = x, Rank(b, queue[i]) = Rank(b, arriving[j])
        PROVE  FALSE
    <2>1. arriving[1].x = x
      BY <1>5, Held
    <2>2. Rank(b, queue[i]) < Rank(b, arriving[1])
      BY <1>5, <2>1 DEF FlowInv, QueueOrder, InOrder
    <2>3. Rank(b, arriving[1]) <= Rank(b, arriving[j])
      BY <1>3, <1>4, <1>5, BundleRanks
    <2>4. Rank(b, queue[i]) \in Nat /\ Rank(b, arriving[j]) \in Nat
      BY Held, RankNat DEF FlowInv
    <2>5. QED  BY <1>3, <1>5, <2>2, <2>3, <2>4
  <1>6. ASSUME NEW i \in 1..Len(arriving), NEW j \in 1..Len(arriving), arriving # <<>>,
               Rank(b, arriving[i]) = Rank(b, arriving[j])
        PROVE  i = j
    BY <1>3, <1>4, <1>6, BundleRanks
  <1>7. ASSUME NEW y \in Blocks(x), NEW z \in Blocks(x), y[1] \notin {1, 2}
        PROVE  z[1] = y[1]
    <2>1. y[1] - 2 \in 1..Len(out) /\ out[y[1] - 2][1].x = x /\ y[1] \in Nat
      <3>1. /\ y[1] \in Nat /\ y[1] - 2 \in 1..Len(out) /\ y[2] \in 1..Len(out[y[1] - 2])
            /\ out[y[1] - 2][y[2]].x = x
        BY <1>1, <1>7
      <3>2. QED  BY <3>1, Held
    <2>2. CASE z[1] = 1
      <3>1. z[2] \in 1..Len(queue) /\ queue[z[2]].x = x
        BY <1>1, <2>2
      <3>2. QED  BY <2>1, <3>1 DEF FlowInv, OnePlace
    <2>3. CASE z[1] = 2
      <3>1. z[2] \in 1..Len(arriving) /\ arriving[z[2]].x = x /\ arriving # <<>>
        BY <1>1, <2>3
      <3>2. arriving[1].x = x
        BY <3>1, Held
      <3>3. QED  BY <2>1, <3>1, <3>2 DEF FlowInv, OnePlace
    <2>4. CASE z[1] \notin {1, 2}
      <3>1. /\ z[1] \in Nat /\ z[1] - 2 \in 1..Len(out) /\ z[2] \in 1..Len(out[z[1] - 2])
            /\ out[z[1] - 2][z[2]].x = x
        BY <1>1, <2>4
      <3>2. out[z[1] - 2][1].x = x
        BY <3>1, Held
      <3>3. z[1] - 2 = y[1] - 2
        BY <2>1, <3>1, <3>2 DEF FlowInv, OnePlace
      <3>4. QED  BY <2>1, <3>1, <3>3
    <2>5. QED  BY <2>2, <2>3, <2>4
  <1>8. p[1] = q[1] /\ p[2] = q[2]
    <2>1. CASE p[1] \notin {1, 2} \/ q[1] \notin {1, 2}
      <3>1. p[1] = q[1] /\ p[1] \notin {1, 2}
        BY <1>7, <2>1
      <3>2. /\ p[1] - 2 \in 1..Len(out) /\ p[2] \in 1..Len(out[p[1] - 2])
            /\ q[2] \in 1..Len(out[p[1] - 2])
            /\ At(p) = out[p[1] - 2][p[2]] /\ At(q) = out[p[1] - 2][q[2]]
        BY <1>1, <3>1
      <3>3. Rank(b, out[p[1] - 2][1]) \in Nat /\ BundleLike(b, out[p[1] - 2])
        BY <1>4, <3>2, Held, RankNat DEF FlowInv
      <3>4. QED  BY <3>1, <3>2, <3>3, BundleRanks
    <2>2. CASE p[1] = 1 /\ q[1] = 1
      BY <1>1, <1>2, <2>2
    <2>3. CASE p[1] = 2 /\ q[1] = 2
      BY <1>1, <1>6, <2>3
    <2>4. CASE p[1] = 1 /\ q[1] = 2
      BY <1>1, <1>5, <2>4
    <2>5. CASE p[1] = 2 /\ q[1] = 1
      BY <1>1, <1>5, <2>5
    <2>6. QED  BY <2>1, <2>2, <2>3, <2>4, <2>5
  <1>9. QED  BY <1>1, <1>8

\* A bundle's worth of blocks at most, and no request beside them.
LEMMA OneBundle == ASSUME FlowInv PROVE FlowControl
  <1> SUFFICES ASSUME NEW x \in Transfers
               PROVE  /\ Cardinality(Blocks(x)) <= FILE_BUNDLE_SIZE
                      /\ Cardinality(Requests(x)) <= 1
                      /\ Blocks(x) = {} \/ Requests(x) = {}
    BY DEF FlowControl
  <1> DEFINE w == (tx[x].next - FILE_BUNDLE_SIZE)..(tx[x].next - 1)
  <1> DEFINE f == [p \in Blocks(x) |-> Rank(use.blocks, At(p))]
  <1>1. tx[x].next \in Nat /\ FILE_BUNDLE_SIZE \in Nat /\ FILE_BUNDLE_SIZE > 1
    BY BundleAssumption DEF FlowInv, TypeOK
  <1>2. IsFiniteSet(w) /\ Cardinality(w) = FILE_BUNDLE_SIZE
    <2>1. tx[x].next - FILE_BUNDLE_SIZE \in Int /\ tx[x].next - 1 \in Int
      BY <1>1
    <2>2. IsFiniteSet(w) /\ Cardinality(w) = IF tx[x].next - FILE_BUNDLE_SIZE > tx[x].next - 1 THEN 0
             ELSE (tx[x].next - 1) - (tx[x].next - FILE_BUNDLE_SIZE) + 1
      BY <2>1, FS_Interval
    <2> HIDE DEF w
    <2>3. QED  BY <1>1, <2>2
  <1>3. ASSUME NEW p \in Blocks(x) PROVE Rank(use.blocks, At(p)) \in w
    <2>1. MsgOK(use.blocks, up, tx, rx, At(p)) /\ At(p).id = "FILE_BLOCK_REQ" /\ At(p).x = x
      BY PlaceFacts
    <2>2. QED  BY <2>1 DEF MsgOK, Fits
  <1> HIDE DEF w
  <1>4. f \in Injection(Blocks(x), w)
    <2>1. f \in [Blocks(x) -> w]
      BY <1>3
    <2>2. \A p, q \in Blocks(x) : f[p] = f[q] => p = q
      BY PlacesDiffer
    <2>3. QED  BY <2>1, <2>2, Fun_IsInj
  <1>5. Cardinality(Blocks(x)) <= FILE_BUNDLE_SIZE
    <2> HIDE DEF f
    <2>1. QED  BY <1>2, <1>4, FS_Injection
  <1>6. DOMAIN back = 1..Len(back)
    BY Held, LenProperties
  <1>7. Cardinality(Requests(x)) <= 1
    <2>1. \A i, j \in Requests(x) : i = j
      BY <1>6 DEF FlowInv, OnePlace, Requests
    <2>2. CASE Requests(x) = {}
      BY <2>2, FS_EmptySet
    <2>3. CASE Requests(x) # {}
      <3>1. PICK i \in Requests(x) : TRUE
        BY <2>3
      <3>2. Requests(x) = {i}
        BY <2>1, <3>1
      <3>3. Cardinality(Requests(x)) = 1
        BY <3>2, FS_Singleton
      <3>4. QED  BY <3>3
    <2>4. QED  BY <2>2, <2>3
  <1>8. ASSUME NEW p \in Blocks(x), NEW i \in Requests(x) PROVE FALSE
    <2>1. i \in 1..Len(back) /\ back[i].x = x
      BY <1>6 DEF Requests
    <2>2. /\ At(p).x = x
          /\ \/ p[1] = 1 /\ p[2] \in 1..Len(queue) /\ At(p) = queue[p[2]]
             \/ p[1] = 2 /\ p[2] \in 1..Len(arriving) /\ At(p) = arriving[p[2]] /\ arriving # <<>>
             \/ /\ p[1] \notin {1, 2} /\ p[1] \in Nat /\ p[1] - 2 \in 1..Len(out)
                /\ p[2] \in 1..Len(out[p[1] - 2]) /\ At(p) = out[p[1] - 2][p[2]]
      BY PlaceFacts
    <2>3. CASE p[1] = 1
      BY <2>1, <2>2, <2>3 DEF FlowInv, OnePlace
    <2>4. CASE p[1] = 2
      <3>1. arriving # <<>> /\ arriving[1].x = x
        BY <2>2, <2>4, Held
      <3>2. QED  BY <2>1, <3>1 DEF FlowInv, OnePlace
    <2>5. CASE p[1] \notin {1, 2}
      <3>1. p[1] - 2 \in 1..Len(out) /\ out[p[1] - 2][1].x = x
        BY <2>2, <2>5, Held
      <3>2. QED  BY <2>1, <3>1 DEF FlowInv, OnePlace
    <2>6. QED  BY <2>2, <2>3, <2>4, <2>5
  <1>9. QED  BY <1>5, <1>7, <1>8

\* A transfer has at most one bundle on the way, and none beside a request for the
\* next one, whatever is dropped and lost and however many transfers there are.
THEOREM FlowControlHolds == Spec => []FlowControl
  <1>1. FlowInv => FlowControl
    BY OneBundle
  <1>2. QED  BY <1>1, FlowAlways, PTL

-----------------------------------------------------------------------------
(* The first message opens the file, and the last of a bundle asks for more *)

\* The receiver's part of a transfer is a number of blocks.
LEMMA AtNat ==
  ASSUME FlowInv, NEW y \in Transfers
  PROVE  /\ rx[y].at \in Nat /\ rx[y].at <= use.blocks /\ tx[y].next \in Nat
         /\ rx[y].at < tx[y].next
  <1>1. rx \in [Transfers -> [fd : {"absent", "none", "open", "closed"}, at : 0..use.blocks]]
    BY DEF FlowInv, TypeOK
  <1>2. tx \in [Transfers -> [fd : {"none", "open", "closed"}, next : Nat]]
    BY DEF FlowInv, TypeOK
  <1>3. rx[y].at \in 0..use.blocks /\ tx[y].next \in Nat
    BY <1>1, <1>2
  <1>4. QED  BY <1>3, Numbers DEF FlowInv, TransferOK

\* The first message of a file of b blocks opens it, and the last message of a bundle
\* that does not end the file asks for more; t and r are what sender and receiver know.
Asks(b, t, r, m) ==
    m.id = "FILE_BLOCK_REQ" =>
        /\ r.fd # "absent"
        /\ Rank(b, m) = 1 => m.first
        /\ m.last /\ m.block # 0 => ~m.first /\ t.fd # "closed"

AsksSeq(b, t, r, s) == \A i \in 1..Len(s) : Asks(b, t[s[i].x], r[s[i].x], s[i])

AsksOK ==
    /\ AsksSeq(use.blocks, tx, rx, queue) /\ AsksSeq(use.blocks, tx, rx, arriving)
    /\ \A k \in 1..Len(out) : AsksSeq(use.blocks, tx, rx, out[k])
    /\ \A i \in 1..Len(back) : rx[back[i].x].fd # "absent"

\* A file that has blocks was opened, and one that is not begun is not closed.
FilesOpen ==
    \A x \in Transfers :
        /\ rx[x].at > 0 => rx[x].fd \in {"open", "closed"}
        /\ tx[x].next = 1 => tx[x].fd # "closed"

AskInv == AsksOK /\ FilesOpen

\* What a step leaves of the messages it does not touch.
LEMMA AsksKept ==
  ASSUME FlowInv, NEW s \in Seq(Messages), AsksSeq(use.blocks, tx, rx, s),
         \A i \in 1..Len(s) : tx'[s[i].x] = tx[s[i].x],
         \A x \in Transfers : rx[x].fd # "absent" => rx'[x].fd # "absent"
  PROVE  AsksSeq(use.blocks, tx', rx', s)
  <1> SUFFICES ASSUME NEW i \in 1..Len(s) PROVE Asks(use.blocks, tx'[s[i].x], rx'[s[i].x], s[i])
    BY DEF AsksSeq
  <1>1. s[i] \in Messages /\ s[i].x \in Transfers
    BY ElementOfSeq, RankNat DEF FlowInv
  <1>2. Asks(use.blocks, tx[s[i].x], rx[s[i].x], s[i])
    BY DEF AsksSeq
  <1>3. QED  BY <1>1, <1>2 DEF Asks

\* Steps that leave sender and receiver alone.
LEMMA AsksSame ==
  ASSUME AskInv, use' = use, tx' = tx, rx' = rx,
         AsksSeq(use.blocks, tx, rx, queue'), AsksSeq(use.blocks, tx, rx, arriving'),
         \A k \in 1..Len(out') : AsksSeq(use.blocks, tx, rx, out'[k]),
         \A i \in 1..Len(back') : rx[back'[i].x].fd # "absent"
  PROVE  AskInv'
  <1>1. FilesOpen'
    BY SameUse DEF AskInv, FilesOpen
  <1>2. QED  BY <1>1 DEF AskInv, AsksOK

\* At first nothing is on the way and no file is begun.
LEMMA AsksInit == ASSUME Init PROVE AskInv
  <1>1. /\ queue = <<>> /\ arriving = <<>> /\ out = <<>> /\ back = <<>>
        /\ \A x \in Transfers : tx[x] = [fd |-> "none", next |-> 1] /\ rx[x].at = 0
    BY DEF Init
  <1>2. \A i \in 1..Len(<<>>) : FALSE
    OBVIOUS
  <1>3. QED  BY <1>1, <1>2 DEF AskInv, AsksOK, AsksSeq, FilesOpen

\* A FILE_TX_REQ holds no block.
LEMMA AsksUp == ASSUME FlowInv, AskInv, peerStateChanged PROVE AskInv'
  <1> DEFINE b == <<One("FILE_TX_REQ", up + 1)>>
  <1>1. /\ use' = use /\ tx' = tx /\ arriving' = arriving /\ queue' = queue
        /\ rx' = rx /\ back' = back /\ out' = Append(out, b)
    BY DEF peerStateChanged, receiving
  <1>2. /\ use.ups \in Nat /\ up \in 0..use.ups /\ up < use.ups
    BY Numbers DEF FlowInv, TypeOK, peerStateChanged
  <1>3. b \in Seq(Messages) /\ AsksSeq(use.blocks, tx, rx, b)
    <2>1. up + 1 \in Transfers /\ 0 \in 0..use.blocks
      BY <1>2, Numbers DEF Transfers, FlowInv
    <2>2. One("FILE_TX_REQ", up + 1) \in Messages
      BY <2>1 DEF One, Messages
    <2>3. b \in Seq(Messages) /\ Len(b) = 1 /\ b[1] = One("FILE_TX_REQ", up + 1)
      BY <2>2
    <2>4. \A i \in 1..Len(b) : b[i].id # "FILE_BLOCK_REQ"
      BY <2>3 DEF One
    <2>5. QED  BY <2>3, <2>4 DEF AsksSeq, Asks
  <1> HIDE DEF b
  <1>4. out \in Seq(Seq(Messages))
    BY Held
  <1>5. \A k \in 1..Len(out') : out'[k] = b \/ (k \in 1..Len(out) /\ out'[k] = out[k])
    BY <1>1, <1>3, <1>4, AppendFacts
  <1>6. \A k \in 1..Len(out') : AsksSeq(use.blocks, tx, rx, out'[k])
    BY <1>3, <1>5 DEF AskInv, AsksOK
  <1>7. QED  BY <1>1, <1>6, AsksSame DEF AskInv, AsksOK

\* A bundle opens the file with its first block, and its last message asks for more
\* or is the end.
LEMMA AsksRender ==
  ASSUME FlowInv, AskInv, back # <<>>, NEW n \in 1..(use.blocks + 1),
         renderFileBlockBundle(back[1].x, n), back' = Tail(back),
         UNCHANGED <<use, arriving, queue, rx>>
  PROVE  AskInv'
  <1> DEFINE x == back[1].x
  <1> DEFINE b == Bundle(x, n)
  <1> DEFINE t == [fd |-> IF b[Len(b)].block = 0 THEN "closed" ELSE "open",
                   next |-> n + FILE_BUNDLE_SIZE]
  <1>1. /\ x \in Transfers /\ 1 \in 1..Len(back) /\ rx[x].fd # "absent"
        /\ \A i \in 1..Len(back') : i + 1 \in 1..Len(back) /\ back'[i] = back[i + 1]
    BY BackTail DEF AskInv, AsksOK
  <1>2. /\ b \in Seq(Messages) /\ b # <<>> /\ Len(b) \in 1..FILE_BUNDLE_SIZE
        /\ \A i \in 1..Len(b) :
              /\ b[i].x = x /\ b[i].id = "FILE_BLOCK_REQ"
              /\ b[i].last <=> i = Len(b)
              /\ Rank(use.blocks, b[i]) = n + (i - 1)
        /\ Last(b) = b[Len(b)]
        /\ b[Len(b)].block # 0 => Len(b) = FILE_BUNDLE_SIZE
    BY <1>1, BundleShape DEF FlowInv
  <1>3. \A i \in 1..Len(b) : b[i].first <=> i = 1
    <2>1. DOMAIN b = 1..Len(b)
      <3> HIDE DEF b
      <3>1. QED  BY <1>2
    <2>2. \A i \in DOMAIN b : b[i].first = (i = 1)
      BY DEF Bundle
    <2> HIDE DEF b
    <2>3. QED  BY <2>1, <2>2
  <1>4. FILE_BUNDLE_SIZE \in Nat /\ FILE_BUNDLE_SIZE > 1 /\ use.blocks \in Nat /\ n \in Nat /\ n >= 1
    BY Numbers DEF FlowInv
  <1>5. tx' = [tx EXCEPT ![x] = t] /\ out' = Sent(b)
    <2>1. /\ tx' = [tx EXCEPT ![x] = [fd |-> IF Last(b).block = 0 THEN "closed" ELSE "open",
                                       next |-> n + FILE_BUNDLE_SIZE]]
          /\ out' = Sent(b)
      BY DEF renderFileBlockBundle
    <2> HIDE DEF b
    <2>2. QED  BY <1>2, <2>1
  <1>6. tx \in [Transfers -> [fd : {"none", "open", "closed"}, next : Nat]]
    BY DEF FlowInv, TypeOK
  <1> HIDE DEF b
  <1>7. /\ tx'[x].next = n + FILE_BUNDLE_SIZE
        /\ tx'[x].fd = IF b[Len(b)].block = 0 THEN "closed" ELSE "open"
        /\ \A y \in Transfers : y # x => tx'[y] = tx[y]
    BY <1>1, <1>5, <1>6
  <1> HIDE DEF t
  <1>8. AsksSeq(use.blocks, tx', rx', b)
    <2> SUFFICES ASSUME NEW i \in 1..Len(b) PROVE Asks(use.blocks, tx'[b[i].x], rx'[b[i].x], b[i])
      BY DEF AsksSeq
    <2>1. b[i].x = x /\ rx'[x].fd # "absent"
      BY <1>1, <1>2
    <2>2. Rank(use.blocks, b[i]) = 1 => b[i].first
      <3> SUFFICES ASSUME Rank(use.blocks, b[i]) = 1 PROVE b[i].first
        OBVIOUS
      <3> DEFINE k == Rank(use.blocks, b[i])
      <3>1. k = n + (i - 1)
        BY <1>2
      <3>2. k = 1 /\ i \in Int /\ i >= 1
        BY <1>2
      <3> HIDE DEF k
      <3>3. i = 1
        BY <1>4, <3>1, <3>2
      <3>4. QED  BY <1>3, <3>3
    <2>3. ASSUME b[i].last, b[i].block # 0 PROVE ~b[i].first /\ tx'[x].fd # "closed"
      <3>1. i = Len(b)
        BY <1>2, <2>3
      <3>2. i # 1
        BY <1>2, <1>4, <2>3, <3>1
      <3>3. QED  BY <1>3, <1>7, <2>3, <3>1, <3>2
    <2>4. QED  BY <2>1, <2>2, <2>3 DEF Asks
  <1>9. ASSUME NEW s \in Seq(Messages), AsksSeq(use.blocks, tx, rx, s), \A i \in 1..Len(s) : s[i].x # x
        PROVE  AsksSeq(use.blocks, tx', rx', s)
    <2>1. \A i \in 1..Len(s) : tx'[s[i].x] = tx[s[i].x]
      <3> SUFFICES ASSUME NEW i \in 1..Len(s) PROVE tx'[s[i].x] = tx[s[i].x]
        OBVIOUS
      <3>1. s[i].x \in Transfers
        BY ElementOfSeq, RankNat DEF FlowInv
      <3>2. QED  BY <1>7, <1>9, <3>1
    <2>2. QED  BY <1>9, <2>1, AsksKept
  <1>10. AsksSeq(use.blocks, tx', rx', queue') /\ AsksSeq(use.blocks, tx', rx', arriving')
    <2>1. \A i \in 1..Len(queue) : queue[i].x # x
      BY <1>1 DEF FlowInv, OnePlace
    <2>2. \A i \in 1..Len(arriving) : arriving[i].x # x
      <3> SUFFICES ASSUME NEW i \in 1..Len(arriving) PROVE arriving[i].x # x
        OBVIOUS
      <3>1. arriving # <<>>
        OBVIOUS
      <3>2. QED  BY <1>1, <3>1, Held DEF FlowInv, OnePlace
    <2>3. QED  BY <1>9, <2>1, <2>2, Held DEF AskInv, AsksOK
  <1>11. ASSUME NEW k \in 1..Len(out') PROVE AsksSeq(use.blocks, tx', rx', out'[k])
    <2>1. out \in Seq(Seq(Messages))
      BY Held
    <2>2. out'[k] = b \/ (k \in 1..Len(out) /\ out'[k] = out[k])
      <3>1. CASE connected
        BY <1>2, <1>5, <2>1, <3>1, AppendFacts DEF Sent
      <3>2. CASE ~connected
        BY <1>5, <3>2 DEF Sent
      <3>3. QED  BY <3>1, <3>2
    <2>3. CASE k \in 1..Len(out) /\ out'[k] = out[k]
      <3>1. out[k] \in Seq(Messages) /\ \A i \in 1..Len(out[k]) : out[k][i].x # x
        BY <1>1, <2>3, Held DEF FlowInv, OnePlace
      <3>2. QED  BY <1>9, <2>3, <3>1 DEF AskInv, AsksOK
    <2>4. QED  BY <1>8, <2>2, <2>3
  <1>12. \A i \in 1..Len(back') : rx'[back'[i].x].fd # "absent"
    BY <1>1 DEF AskInv, AsksOK
  <1>13. FilesOpen'
    <2>1. Transfers' = Transfers
      BY SameUse
    <2>2. tx'[x].next # 1
      BY <1>4, <1>7
    <2>3. QED  BY <1>7, <2>1, <2>2 DEF AskInv, FilesOpen
  <1>14. QED  BY <1>10, <1>11, <1>12, <1>13 DEF AskInv, AsksOK

\* The first bundle of a file.
LEMMA AsksTxRep == ASSUME FlowInv, AskInv, processFileTxRep PROVE AskInv'
  <1>1. /\ back # <<>> /\ Head(back) = back[1] /\ renderFileBlockBundle(back[1].x, 1)
        /\ back' = Tail(back) /\ UNCHANGED <<use, arriving, queue, rx>>
    BY BackTail DEF processFileTxRep, receiving
  <1>2. 1 \in 1..(use.blocks + 1)
    BY Numbers DEF FlowInv
  <1>3. QED  BY <1>1, <1>2, AsksRender

\* The next bundle, or none when the file is closed.
LEMMA AsksBlockRep == ASSUME FlowInv, AskInv, processFileBlockRep PROVE AskInv'
  <1> DEFINE x == back[1].x
  <1>1. /\ back # <<>> /\ Head(back) = back[1] /\ x \in Transfers
        /\ back' = Tail(back) /\ UNCHANGED <<use, arriving, queue, rx>>
        /\ \A i \in 1..Len(back') : i + 1 \in 1..Len(back) /\ back'[i] = back[i + 1]
    BY BackTail DEF processFileBlockRep, receiving
  <1>2. CASE tx[x].fd # "closed"
    <2>1. /\ tx[x].next \in Nat /\ use.blocks \in Nat
          /\ tx[x].next >= 1 /\ tx[x].next <= use.blocks + 1
      BY <1>1, <1>2, Numbers DEF FlowInv, TypeOK, TransferOK
    <2>2. tx[x].next \in 1..(use.blocks + 1) /\ renderFileBlockBundle(x, tx[x].next)
      BY <1>1, <1>2, <2>1 DEF processFileBlockRep
    <2>3. QED  BY <1>1, <2>2, AsksRender
  <1>3. CASE tx[x].fd = "closed"
    <2>1. out' = out /\ tx' = tx
      BY <1>1, <1>3 DEF processFileBlockRep
    <2>2. \A i \in 1..Len(back') : rx[back'[i].x].fd # "absent"
      BY <1>1 DEF AskInv, AsksOK
    <2>3. QED  BY <1>1, <2>1, <2>2, AsksSame DEF AskInv, AsksOK
  <1>4. QED  BY <1>2, <1>3

\* What a lost session leaves was there before.
LEMMA AsksDisconnect == ASSUME FlowInv, AskInv, Disconnect PROVE AskInv'
  <1>1. /\ use' = use /\ tx' = tx /\ rx' = rx /\ queue' = queue /\ arriving' = arriving
        /\ (out' = <<>> \/ out' = out) /\ (back' = <<>> \/ back' = back)
    BY DEF Disconnect
  <1>2. \A i \in 1..Len(<<>>) : FALSE
    OBVIOUS
  <1>3. /\ \A k \in 1..Len(out') : AsksSeq(use.blocks, tx, rx, out'[k])
        /\ \A i \in 1..Len(back') : rx[back'[i].x].fd # "absent"
    BY <1>1, <1>2 DEF AskInv, AsksOK
  <1>4. QED  BY <1>1, <1>3, AsksSame DEF AskInv, AsksOK

\* The bundle of the sender becomes the one that is read.
LEMMA AsksRecv == ASSUME FlowInv, AskInv, RepRecv PROVE AskInv'
  <1>1. /\ use' = use /\ tx' = tx /\ rx' = rx /\ queue' = queue /\ back' = back
        /\ out # <<>> /\ arriving' = Head(out) /\ out' = Tail(out)
    BY DEF RepRecv, sender, receiving
  <1>2. out \in Seq(Seq(Messages))
    BY Held
  <1>3. /\ Head(out) = out[1] /\ 1 \in 1..Len(out)
        /\ \A k \in 1..Len(out') : k + 1 \in 1..Len(out) /\ out'[k] = out[k + 1]
    BY <1>1, <1>2, TailFacts
  <1>4. /\ AsksSeq(use.blocks, tx, rx, arriving')
        /\ \A k \in 1..Len(out') : AsksSeq(use.blocks, tx, rx, out'[k])
    BY <1>1, <1>3 DEF AskInv, AsksOK
  <1>5. QED  BY <1>1, <1>4, AsksSame DEF AskInv, AsksOK

\* A message goes to the queue or is dropped.
LEMMA AsksShim == ASSUME FlowInv, AskInv, processShimReq PROVE AskInv'
  <1>1. /\ use' = use /\ tx' = tx /\ rx' = rx /\ out' = out /\ back' = back
        /\ arriving # <<>> /\ arriving' = Tail(arriving)
        /\ queue' = queue \/ queue' = Append(queue, Head(arriving))
    BY DEF processShimReq, sender, receiving
  <1>2. /\ Head(arriving) = arriving[1] /\ arriving[1] \in Messages /\ 1 \in 1..Len(arriving)
        /\ \A i \in 1..Len(arriving') : i + 1 \in 1..Len(arriving) /\ arriving'[i] = arriving[i + 1]
    BY <1>1, ArrivingTail
  <1>3. AsksSeq(use.blocks, tx, rx, arriving')
    BY <1>2 DEF AskInv, AsksOK, AsksSeq
  <1>4. queue \in Seq(Messages)
    BY Held
  <1>5. \A i \in 1..Len(queue') :
           queue'[i] = arriving[1] \/ (i \in 1..Len(queue) /\ queue'[i] = queue[i])
    <2>1. CASE queue' = queue
      BY <2>1
    <2>2. CASE queue' = Append(queue, Head(arriving))
      BY <1>2, <1>4, <2>2, AppendFacts
    <2>3. QED  BY <1>1, <2>1, <2>2
  <1>6. AsksSeq(use.blocks, tx, rx, queue')
    <2>1. Asks(use.blocks, tx[arriving[1].x], rx[arriving[1].x], arriving[1])
      BY <1>2 DEF AskInv, AsksOK, AsksSeq
    <2>2. QED  BY <1>5, <2>1 DEF AskInv, AsksOK, AsksSeq
  <1>7. QED  BY <1>1, <1>3, <1>6, AsksSame DEF AskInv, AsksOK

\* A step of the receiver's CASSI thread on the first message of its queue.
LEMMA AsksTake ==
  ASSUME FlowInv, AskInv, queue # <<>>, queue' = Tail(queue),
         UNCHANGED <<use, tx, out, arriving>>, NEW x \in Transfers,
         \A y \in Transfers : rx[y].fd # "absent" => rx'[y].fd # "absent",
         \A y \in Transfers : rx'[y].at > 0 => rx'[y].fd \in {"open", "closed"},
         \/ back' = back
         \/ /\ rx'[x].fd # "absent"
            /\ \E id \in {"FILE_TX_REP", "FILE_BLOCK_REP"} : back' = Append(back, One(id, x))
  PROVE  AskInv'
  <1>1. /\ queue \in Seq(Messages) /\ arriving \in Seq(Messages) /\ back \in Seq(Messages)
        /\ \A k \in 1..Len(out) : out[k] \in Seq(Messages)
        /\ \A i \in 1..Len(back) : back[i] \in Messages
    BY Held
  <1>2. /\ AsksSeq(use.blocks, tx', rx', queue) /\ AsksSeq(use.blocks, tx', rx', arriving)
        /\ \A k \in 1..Len(out) : AsksSeq(use.blocks, tx', rx', out[k])
    BY <1>1, AsksKept DEF AskInv, AsksOK
  <1>3. AsksSeq(use.blocks, tx', rx', queue')
    <2>1. \A i \in 1..Len(queue') : i + 1 \in 1..Len(queue) /\ queue'[i] = queue[i + 1]
      BY QueueTail
    <2>2. QED  BY <1>2, <2>1 DEF AsksSeq
  <1>4. \A i \in 1..Len(back) : rx'[back[i].x].fd # "absent"
    <2>1. \A i \in 1..Len(back) : back[i].x \in Transfers
      BY <1>1, RankNat DEF FlowInv
    <2>2. QED  BY <2>1 DEF AskInv, AsksOK
  <1>5. \A i \in 1..Len(back') : rx'[back'[i].x].fd # "absent"
    <2>1. CASE back' = back
      BY <1>4, <2>1
    <2>2. ASSUME rx'[x].fd # "absent", NEW id \in {"FILE_TX_REP", "FILE_BLOCK_REP"},
                 back' = Append(back, One(id, x))
          PROVE  \A i \in 1..Len(back') : rx'[back'[i].x].fd # "absent"
      <3>1. One(id, x) \in Messages /\ One(id, x).x = x
        <4>1. 0 \in 0..use.blocks
          BY Numbers DEF FlowInv
        <4>2. QED  BY <4>1 DEF One, Messages
      <3>2. \A i \in 1..Len(back') :
               back'[i] = One(id, x) \/ (i \in 1..Len(back) /\ back'[i] = back[i])
        BY <1>1, <2>2, <3>1, AppendFacts
      <3>3. QED  BY <1>4, <2>2, <3>1, <3>2
    <2>3. QED  BY <2>1, <2>2
  <1>6. FilesOpen'
    BY SameUse DEF AskInv, FilesOpen
  <1>7. QED  BY <1>2, <1>3, <1>5, <1>6 DEF AskInv, AsksOK

\* The receiver knows the transfer from its request on.
LEMMA AsksTxReq == ASSUME FlowInv, AskInv, processFileTxReq PROVE AskInv'
  <1> DEFINE x == queue[1].x
  <1>1. /\ queue # <<>> /\ queue' = Tail(queue) /\ UNCHANGED <<use, tx, out, arriving>>
        /\ rx' = [rx EXCEPT ![x].fd = "none"]
        /\ back' = back \/ back' = Append(back, One("FILE_TX_REP", x))
        /\ queue[1].id = "FILE_TX_REQ"
    BY QueueTail DEF processFileTxReq, Message, Replied, sender
  <1>2. x \in Transfers /\ MsgOK(use.blocks, up, tx, rx, queue[1])
    BY <1>1, QueueTail
  <1>3. rx \in [Transfers -> [fd : {"absent", "none", "open", "closed"}, at : 0..use.blocks]]
    BY DEF FlowInv, TypeOK
  <1>4. rx[x].at \in Nat /\ ~(rx[x].at > 0)
    <2>1. tx[x].next = 1 /\ rx[x].at < tx[x].next
      BY <1>1, <1>2 DEF MsgOK, Fits, FlowInv, TransferOK
    <2>2. QED  BY <1>2, <2>1, AtNat
  <1>5. /\ rx'[x].fd = "none" /\ rx'[x].at = rx[x].at
        /\ \A y \in Transfers : y # x => rx'[y] = rx[y]
    BY <1>1, <1>2, <1>3
  <1> HIDE DEF x
  <1>6. /\ \A y \in Transfers : rx[y].fd # "absent" => rx'[y].fd # "absent"
        /\ \A y \in Transfers : rx'[y].at > 0 => rx'[y].fd \in {"open", "closed"}
    BY <1>4, <1>5 DEF AskInv, FilesOpen
  <1>7. QED  BY <1>1, <1>2, <1>5, <1>6, AsksTake

\* A block opens the file, is written to an open one, or closes it.
LEMMA AsksBlockReq == ASSUME FlowInv, AskInv, processFileBlockReq PROVE AskInv'
  <1> DEFINE x == queue[1].x
  <1>1. /\ queue # <<>> /\ queue' = Tail(queue) /\ UNCHANGED <<use, tx, out, arriving>>
        /\ x \in Transfers /\ queue[1].id = "FILE_BLOCK_REQ"
        /\ back' = back \/ back' = Append(back, One("FILE_BLOCK_REP", x))
        /\ \/ rx' = [rx EXCEPT ![x].fd = "closed"]
           \/ rx' = [rx EXCEPT ![x] = [fd |-> "open", at |-> rx[x].at + 1]]
           \/ rx' = rx
    BY BlockReqStep
  <1>2. rx[x].fd # "absent"
    <2>1. 1 \in 1..Len(queue)
      BY <1>1, QueueTail
    <2>2. QED  BY <1>1, <2>1 DEF AskInv, AsksOK, AsksSeq, Asks
  <1>3. rx \in [Transfers -> [fd : {"absent", "none", "open", "closed"}, at : 0..use.blocks]]
    BY DEF FlowInv, TypeOK
  <1>4. /\ rx'[x].fd \in {"open", "closed"} \/ rx' = rx
        /\ \A y \in Transfers : y # x => rx'[y] = rx[y]
    BY <1>1, <1>3
  <1> HIDE DEF x
  <1>5. /\ rx'[x].fd # "absent"
        /\ \A y \in Transfers : rx[y].fd # "absent" => rx'[y].fd # "absent"
        /\ \A y \in Transfers : rx'[y].at > 0 => rx'[y].fd \in {"open", "closed"}
    BY <1>2, <1>4 DEF AskInv, FilesOpen
  <1>6. QED  BY <1>1, <1>5, AsksTake

\* Every step.
LEMMA AsksStep == ASSUME FlowInv, AskInv, [Next]_vars PROVE AskInv'
  <1>1. CASE UNCHANGED vars \/ processJoinRep
    <2>1. /\ use' = use /\ tx' = tx /\ out' = out /\ arriving' = arriving /\ queue' = queue
          /\ rx' = rx /\ back' = back
      BY <1>1 DEF vars, processJoinRep, sender
    <2>2. QED  BY <2>1, AsksSame DEF AskInv, AsksOK
  <1>2. QED
    BY <1>1, AsksUp, AsksTxRep, AsksBlockRep, AsksRecv, AsksShim, AsksTxReq, AsksBlockReq,
       AsksDisconnect DEF Next, Step

\* It holds in every state.
LEMMA AsksAlways == Spec => []AskInv
  <1>1. Init => AskInv
    BY AsksInit
  <1>2. FlowInv /\ AskInv /\ [Next]_vars => AskInv'
    BY AsksStep
  <1>3. QED  BY <1>1, <1>2, FlowAlways, PTL DEF Spec

-----------------------------------------------------------------------------
(* With room for a bundle of each transfer, the file is whole when it is closed *)

\* A message of the receiver's queue, or the one that comes next.
Item(i) == IF i <= Len(queue) THEN queue[i] ELSE arriving[1]

\* Where a message stands in the bundle that was sent last, t being the sender's part.
Slot(b, t, m) ==
    IF m.id = "FILE_TX_REQ" THEN 0 ELSE Rank(b, m) - (t.next - FILE_BUNDLE_SIZE)

\* Messages of a transfer that are in order stand in different places of the bundle.
LEMMA SlotsDiffer ==
  ASSUME NEW b, NEW t, NEW m, NEW n, NEW h, NEW g, Rank(b, m) \in Nat, Rank(b, n) \in Nat,
         Fits(b, t, h, m), Fits(b, t, g, n), InOrder(b, m, n), m.x = n.x, t.next \in Nat
  PROVE  Slot(b, t, m) # Slot(b, t, n)
  <1>1. ~m.last /\ Rank(b, m) < Rank(b, n)
    BY DEF InOrder
  <1>2. m.id # "FILE_TX_REQ"
    BY <1>1 DEF Fits
  <1>3. n.id # "FILE_TX_REQ"
    <2>1. n.id = "FILE_TX_REQ" => Rank(b, n) = 0
      BY DEF Rank
    <2>2. QED  BY <1>1, <2>1
  <1>4. /\ Slot(b, t, m) = Rank(b, m) - (t.next - FILE_BUNDLE_SIZE)
        /\ Slot(b, t, n) = Rank(b, n) - (t.next - FILE_BUNDLE_SIZE)
    BY <1>2, <1>3 DEF Slot
  <1>5. t.next - FILE_BUNDLE_SIZE \in Int
    BY BundleAssumption
  <1>6. QED  BY <1>1, <1>4, <1>5

\* The queue is never full when a message arrives: it has room for a bundle of
\* each transfer, and holds no more than that.
LEMMA NeverFull ==
  ASSUME FlowInv, Room, arriving # <<>>
  PROVE  Len(queue) < use.queueSize
  <1> DEFINE b == use.blocks
  <1> DEFINE N == Len(queue) + 1
  <1> DEFINE S == Transfers \X (0..(FILE_BUNDLE_SIZE - 1))
  <1> DEFINE f == [i \in 1..N |-> <<Item(i).x, Slot(b, tx[Item(i).x], Item(i))>>]
  <1>1. /\ Len(queue) \in Nat /\ N \in Nat /\ N >= 1 /\ use.ups \in Nat /\ use.queueSize \in Nat
        /\ FILE_BUNDLE_SIZE \in Nat /\ FILE_BUNDLE_SIZE > 1
    BY Held, LenProperties, Numbers DEF FlowInv
  <1>2. tx \in [Transfers -> [fd : {"none", "open", "closed"}, next : Nat]]
    BY DEF FlowInv, TypeOK
  <1>3. ASSUME NEW i \in 1..N
        PROVE  \/ i \in 1..Len(queue) /\ Item(i) = queue[i]
               \/ i = N /\ Item(i) = arriving[1]
    BY <1>1 DEF Item
  <1>4. ASSUME NEW i \in 1..N
        PROVE  /\ Item(i) \in Messages /\ Item(i).x \in Transfers /\ Rank(b, Item(i)) \in Nat
               /\ Item(i).id \in {"FILE_TX_REQ", "FILE_BLOCK_REQ"} /\ tx[Item(i).x].next \in Nat
               /\ Fits(b, tx[Item(i).x], rx[Item(i).x].at, Item(i))
    <2>1. /\ \A j \in 1..Len(queue) : queue[j] \in Messages /\ MsgOK(b, up, tx, rx, queue[j])
          /\ arriving[1] \in Messages /\ MsgOK(b, up, tx, rx, arriving[1])
      BY Held DEF FlowInv, LineOK, SeqOK
    <2>2. Item(i) \in Messages /\ MsgOK(b, up, tx, rx, Item(i))
      BY <1>3, <2>1
    <2>3. Item(i).x \in Transfers /\ Rank(b, Item(i)) \in Nat
      BY <2>2, RankNat DEF FlowInv
    <2>4. QED  BY <1>2, <2>2, <2>3 DEF MsgOK
  <1>5. ASSUME NEW i \in 1..N, NEW j \in 1..N, i < j PROVE InOrder(b, Item(i), Item(j))
    <2>1. i \in 1..Len(queue) /\ Item(i) = queue[i]
      BY <1>1, <1>3, <1>5
    <2>2. /\ \A k, l \in 1..Len(queue) : k < l => InOrder(b, queue[k], queue[l])
          /\ \A k \in 1..Len(queue) : InOrder(b, queue[k], arriving[1])
      BY DEF FlowInv, QueueOrder
    <2>3. CASE j \in 1..Len(queue) /\ Item(j) = queue[j]
      BY <1>5, <2>1, <2>2, <2>3
    <2>4. CASE Item(j) = arriving[1]
      BY <2>1, <2>2, <2>4
    <2>5. QED  BY <1>3, <2>3, <2>4
  <1> HIDE DEF b, N
  <1>6. ASSUME NEW i \in 1..N
        PROVE  Slot(b, tx[Item(i).x], Item(i)) \in 0..(FILE_BUNDLE_SIZE - 1)
    <2> DEFINE m == Item(i)
    <2> DEFINE t == tx[Item(i).x]
    <2>1. /\ m.id \in {"FILE_TX_REQ", "FILE_BLOCK_REQ"} /\ Rank(b, m) \in Nat /\ t.next \in Nat
          /\ Fits(b, t, rx[m.x].at, m)
      BY <1>4
    <2> HIDE DEF m, t
    <2>2. m.id = "FILE_BLOCK_REQ" =>
             Rank(b, m) \in (t.next - FILE_BUNDLE_SIZE)..(t.next - 1)
      BY <2>1 DEF Fits
    <2>3. Slot(b, t, m) \in 0..(FILE_BUNDLE_SIZE - 1)
      <3>1. CASE m.id = "FILE_TX_REQ"
        <4>1. Slot(b, t, m) = 0
          BY <3>1 DEF Slot
        <4>2. QED  BY <1>1, <4>1
      <3>2. CASE m.id = "FILE_BLOCK_REQ"
        <4>1. Slot(b, t, m) = Rank(b, m) - (t.next - FILE_BUNDLE_SIZE)
          BY <3>2 DEF Slot
        <4>2. QED  BY <1>1, <2>1, <2>2, <3>2, <4>1
      <3>3. QED  BY <2>1, <3>1, <3>2
    <2>4. QED  BY <2>3 DEF m, t
  <1>7. ASSUME NEW i \in 1..N, NEW j \in 1..N, i < j, Item(i).x = Item(j).x
        PROVE  Slot(b, tx[Item(i).x], Item(i)) # Slot(b, tx[Item(j).x], Item(j))
    BY <1>4, <1>5, <1>7, SlotsDiffer
  <1>8. f \in Injection(1..N, S)
    <2>1. f \in [1..N -> S]
      BY <1>4, <1>6
    <2>2. ASSUME NEW i \in 1..N, NEW j \in 1..N, f[i] = f[j] PROVE i = j
      <3>1. /\ Item(i).x = Item(j).x
            /\ Slot(b, tx[Item(i).x], Item(i)) = Slot(b, tx[Item(j).x], Item(j))
        BY <2>2
      <3>2. ~(i < j) /\ ~(j < i)
        BY <1>7, <3>1
      <3>3. i \in Int /\ j \in Int
        OBVIOUS
      <3>4. QED  BY <3>2, <3>3
    <2> HIDE DEF f, S
    <2>3. QED  BY <2>1, <2>2, Fun_IsInj
  <1>9. IsFiniteSet(Transfers) /\ Cardinality(Transfers) = use.ups
    <2>1. use.ups \in Int
      BY <1>1
    <2>2. /\ IsFiniteSet(1..use.ups)
          /\ Cardinality(1..use.ups) = IF 1 > use.ups THEN 0 ELSE use.ups - 1 + 1
      BY <2>1, FS_Interval
    <2>3. QED  BY <1>1, <2>2 DEF Transfers
  <1>10. /\ IsFiniteSet(0..(FILE_BUNDLE_SIZE - 1))
         /\ Cardinality(0..(FILE_BUNDLE_SIZE - 1)) = FILE_BUNDLE_SIZE
    <2>1. FILE_BUNDLE_SIZE - 1 \in Int
      BY <1>1
    <2>2. /\ IsFiniteSet(0..(FILE_BUNDLE_SIZE - 1))
          /\ Cardinality(0..(FILE_BUNDLE_SIZE - 1)) =
                IF 0 > FILE_BUNDLE_SIZE - 1 THEN 0 ELSE (FILE_BUNDLE_SIZE - 1) - 0 + 1
      BY <2>1, FS_Interval
    <2>3. QED  BY <1>1, <2>2
  <1>11. IsFiniteSet(S) /\ Cardinality(S) = use.ups * FILE_BUNDLE_SIZE
    BY <1>9, <1>10, FS_Product
  <1> HIDE DEF f, S
  <1>12. Cardinality(1..N) <= use.ups * FILE_BUNDLE_SIZE
    BY <1>8, <1>11, FS_Injection
  <1>13. Cardinality(1..N) = N
    <2>1. N \in Int
      BY <1>1
    <2>2. Cardinality(1..N) = IF 1 > N THEN 0 ELSE N - 1 + 1
      BY <2>1, FS_Interval
    <2>3. QED  BY <1>1, <2>2
  <1>14. use.ups * FILE_BUNDLE_SIZE \in Nat
    BY <1>1
  <1>15. N <= use.queueSize
    BY <1>1, <1>12, <1>13, <1>14 DEF Room
  <1>16. QED  BY <1>1, <1>15 DEF N

\* The first message of the queue is taken, and is missed by none behind it.
LEMMA AheadTail ==
  ASSUME NEW b, NEW S, NEW q \in Seq(S), q # <<>>, NEW i \in 1..Len(q), NEW n,
         NEW at \in Nat, NEW at2 \in Nat, at <= at2, Rank(b, n) \in Nat, Rank(b, q[1]) \in Nat,
         Ahead(b, q, i, n, at), n.x = q[1].x => Rank(b, q[1]) <= at2
  PROVE  Ahead(b, Tail(q), i - 1, n, at2)
  <1> SUFFICES ASSUME NEW r \in (at2 + 1)..(Rank(b, n) - 1)
               PROVE  \E j \in 1..(i - 1) : Tail(q)[j].x = n.x /\ Rank(b, Tail(q)[j]) = r
    BY DEF Ahead
  <1>1. r \in (at + 1)..(Rank(b, n) - 1) /\ r > at2 /\ r \in Int
    OBVIOUS
  <1>2. PICK j \in 1..i : q[j].x = n.x /\ Rank(b, q[j]) = r
    BY <1>1 DEF Ahead
  <1>3. j # 1
    BY <1>1, <1>2
  <1>4. /\ Len(q) \in Nat /\ Len(Tail(q)) = Len(q) - 1
        /\ \A k \in 1..Len(Tail(q)) : Tail(q)[k] = q[k + 1]
    BY TailFacts
  <1>5. j - 1 \in 1..(i - 1) /\ j - 1 \in 1..Len(Tail(q)) /\ (j - 1) + 1 = j
    BY <1>3, <1>4
  <1>6. Tail(q)[j - 1] = q[j]
    BY <1>4, <1>5
  <1>7. QED  BY <1>2, <1>5, <1>6

\* No message is past the end of the file.
LEMMA RankBound ==
  ASSUME use \in Uses, NEW m \in Messages
  PROVE  Rank(use.blocks, m) <= use.blocks + 1
  <1>1. m.block \in 0..use.blocks /\ use.blocks \in Nat
    BY Numbers DEF Messages
  <1>2. QED  BY <1>1 DEF Rank

\* Taking a message leaves nothing missing, when what follows it in its transfer
\* comes after the blocks written.
LEMMA MissingTake ==
  ASSUME FlowInv, NothingMissing, queue # <<>>, queue' = Tail(queue), use' = use,
         arriving' = arriving,
         \A y \in Transfers : rx'[y].at \in Nat /\ rx[y].at <= rx'[y].at,
         \A n \in Messages : InOrder(use.blocks, queue[1], n) /\ n.x = queue[1].x =>
             Rank(use.blocks, queue[1]) <= rx'[queue[1].x].at
  PROVE  /\ \A i \in 1..Len(queue') :
               Ahead(use'.blocks, queue', i - 1, queue'[i], rx'[queue'[i].x].at)
         /\ arriving' # <<>> =>
               Ahead(use'.blocks, queue', Len(queue'), arriving'[1], rx'[arriving'[1].x].at)
  <1> DEFINE b == use.blocks
  <1>1. queue \in Seq(Messages)
    BY Held
  <1>2. /\ queue[1] \in Messages /\ queue' \in Seq(Messages)
        /\ Len(queue) \in Nat /\ Len(queue) >= 1 /\ Len(queue') = Len(queue) - 1
        /\ \A i \in 1..Len(queue') : i + 1 \in 1..Len(queue) /\ queue'[i] = queue[i + 1]
    BY <1>1, TailFacts
  <1>3. /\ Rank(b, queue[1]) \in Nat
        /\ \A i \in 1..Len(queue') : InOrder(b, queue[1], queue'[i])
        /\ arriving # <<>> => InOrder(b, queue[1], arriving[1])
    BY QueueTail
  <1>4. ASSUME NEW n \in Messages, InOrder(b, queue[1], n), NEW i \in 1..Len(queue),
               Ahead(b, queue, i, n, rx[n.x].at)
        PROVE  Ahead(b, queue', i - 1, n, rx'[n.x].at)
    <2>1. n.x \in Transfers /\ Rank(b, n) \in Nat
      BY RankNat DEF FlowInv
    <2>2. rx[n.x].at \in Nat /\ rx'[n.x].at \in Nat /\ rx[n.x].at <= rx'[n.x].at
      BY <2>1, AtNat
    <2>3. n.x = queue[1].x => Rank(b, queue[1]) <= rx'[n.x].at
      BY <1>4
    <2>4. Ahead(b, Tail(queue), i - 1, n, rx'[n.x].at)
      BY <1>1, <1>3, <1>4, <2>1, <2>2, <2>3, AheadTail
    <2>5. QED  BY <2>4
  <1>5. ASSUME NEW i \in 1..Len(queue')
        PROVE  Ahead(b, queue', i - 1, queue'[i], rx'[queue'[i].x].at)
    <2>1. i + 1 \in 1..Len(queue) /\ queue'[i] = queue[i + 1] /\ queue[i + 1] \in Messages
      BY <1>2, Held
    <2>2. (i + 1) - 1 = i /\ i \in 1..Len(queue)
      BY <1>2
    <2>3. Ahead(b, queue, i, queue'[i], rx[queue'[i].x].at)
      <3>1. Ahead(b, queue, (i + 1) - 1, queue[i + 1], rx[queue[i + 1].x].at)
        BY <2>1 DEF NothingMissing
      <3>2. QED  BY <2>1, <2>2, <3>1
    <2>4. QED  BY <1>3, <1>4, <2>1, <2>2, <2>3
  <1>6. ASSUME arriving # <<>>
        PROVE  Ahead(b, queue', Len(queue'), arriving[1], rx'[arriving[1].x].at)
    <2>1. arriving[1] \in Messages
      BY <1>6, Held
    <2>2. Len(queue) \in 1..Len(queue) /\ Len(queue') = Len(queue) - 1
      BY <1>2
    <2>3. Ahead(b, queue, Len(queue), arriving[1], rx[arriving[1].x].at)
      BY <1>6 DEF NothingMissing
    <2>4. QED  BY <1>3, <1>4, <1>6, <2>1, <2>2, <2>3
  <1>7. QED  BY <1>5, <1>6

\* The steps of the link and the fabric thread, and replies, do not touch the files.
LEMMA FileSame ==
  ASSUME FileOK, use' = use, up' = up, rx' = rx, inode' = inode, file' = file
  PROVE  FileOK'
  BY SameUse DEF FileOK, Old, Path

\* An UP may remove the file at the path: those that have one open keep it.
LEMMA FileUp == ASSUME FlowInv, FileOK, peerStateChanged PROVE FileOK'
  <1>1. use' = use /\ up' = up + 1 /\ rx' = rx /\ inode' = inode /\ file' = file
    BY DEF peerStateChanged, receiving
  <1>2. up \in Nat /\ Transfers' = Transfers
    BY <1>1, Held, SameUse
  <1>3. ASSUME NEW x \in Transfers, rx[x].fd \in {"open", "closed"}
        PROVE  x <= up' /\ (inode[x] = Path' \/ (use.shared /\ x < up'))
    <2>1. x <= up /\ (inode[x] = Path \/ (use.shared /\ x < up)) /\ x \in Nat
      BY <1>3, Numbers DEF FileOK, FlowInv
    <2>2. x <= up' /\ x < up'
      BY <1>1, <1>2, <2>1
    <2>3. CASE use.shared
      BY <2>2, <2>3
    <2>4. CASE ~use.shared
      BY <1>1, <2>1, <2>2, <2>4 DEF Path
    <2>5. QED  BY <2>3, <2>4
  <1>4. \A k \in 0..use'.ups : Blend(Old(k)', file'[k])
    BY <1>1 DEF FileOK, Old
  <1>5. QED  BY <1>1, <1>2, <1>3, <1>4 DEF FileOK

\* A new transfer asks before it sends.
LEMMA MissingUp == ASSUME FlowInv, NothingMissing, peerStateChanged PROVE NothingMissing'
  <1> DEFINE x == up + 1
  <1> DEFINE b == <<One("FILE_TX_REQ", x)>>
  <1>1. /\ use' = use /\ tx' = tx /\ arriving' = arriving /\ queue' = queue
        /\ rx' = rx /\ back' = back /\ out' = Append(out, b)
    BY DEF peerStateChanged, receiving
  <1>2. use.blocks \in Nat /\ x \in Transfers
    BY Numbers DEF FlowInv, TypeOK, peerStateChanged, Transfers
  <1>3. One("FILE_TX_REQ", x) \in Messages
    BY <1>2 DEF One, Messages
  <1>4. b \in Seq(Messages) /\ b[1] = One("FILE_TX_REQ", x)
    BY <1>3
  <1>5. b[1].x = x /\ Rank(use.blocks, b[1]) = 0
    BY <1>4 DEF One, Rank
  <1> HIDE DEF b, x
  <1>6. out \in Seq(Seq(Messages))
    BY Held
  <1>7. /\ Len(out) \in Nat /\ out'[Len(out) + 1] = b
        /\ \A k \in 1..Len(out) : out'[k] = out[k]
        /\ \A k \in 1..Len(out') : k \in 1..Len(out) \/ k = Len(out) + 1
    BY <1>1, <1>4, <1>6, AppendFacts
  <1>8. ASSUME NEW k \in 1..Len(out')
        PROVE  Rank(use.blocks, out'[k][1]) <= rx[out'[k][1].x].at + 1
    <2>1. CASE k \in 1..Len(out)
      BY <2>1, <1>7 DEF NothingMissing
    <2>2. CASE k = Len(out) + 1
      <3>1. rx[x].at \in Nat
        BY <1>2, AtNat
      <3>2. QED  BY <2>2, <3>1, <1>5, <1>7
    <2>3. QED  BY <1>7, <2>1, <2>2
  <1>9. QED  BY <1>1, <1>8 DEF NothingMissing

\* A bundle goes on where the receiver is.
LEMMA MissingRender ==
  ASSUME FlowInv, NothingMissing, back # <<>>, NEW n \in 1..(use.blocks + 1),
         rx[back[1].x].at + 1 = n,
         renderFileBlockBundle(back[1].x, n), back' = Tail(back),
         UNCHANGED <<use, up, connected, drops, arriving, owes, queue, receiving>>
  PROVE  NothingMissing'
  <1> DEFINE x == back[1].x
  <1> DEFINE s == Bundle(x, n)
  <1>1. use' = use /\ arriving' = arriving /\ queue' = queue /\ rx' = rx
    BY DEF receiving
  <1>2. /\ x \in Transfers
        /\ \A i \in 1..Len(back') :
               i + 1 \in 1..Len(back) /\ back'[i] = back[i + 1] /\ back[i + 1].x # x
    BY BackTail
  <1>3. use.blocks \in Nat /\ n \in Nat
    BY Numbers DEF FlowInv
  <1>4. /\ s \in Seq(Messages) /\ Len(s) \in 1..FILE_BUNDLE_SIZE
        /\ \A i \in 1..Len(s) : s[i].x = x /\ Rank(use.blocks, s[i]) = n + (i - 1)
    BY <1>2, BundleShape DEF FlowInv
  <1>5. out' = Append(out, s) \/ out' = out
    BY DEF renderFileBlockBundle, Sent
  <1>6. \A y \in Transfers : y # x => tx'[y] = tx[y]
    <2>1. tx \in [Transfers -> [fd : {"none", "open", "closed"}, next : Nat]]
      BY DEF FlowInv, TypeOK
    <2>2. PICK t : tx' = [tx EXCEPT ![x] = t]
      BY DEF renderFileBlockBundle
    <2>3. QED  BY <2>1, <2>2
  <1> HIDE DEF s
  <1>7. s[1].x = x /\ Rank(use.blocks, s[1]) = n
    <2>1. 1 \in 1..Len(s)
      BY <1>4
    <2>2. Rank(use.blocks, s[1]) = n + (1 - 1) /\ s[1].x = x
      BY <1>4, <2>1
    <2>3. QED  BY <1>3, <2>2
  <1>8. out \in Seq(Seq(Messages))
    BY Held
  <1>9. \A k \in 1..Len(out') : (k \in 1..Len(out) /\ out'[k] = out[k]) \/ out'[k] = s
    <2>1. CASE out' = out
      BY <2>1
    <2>2. CASE out' = Append(out, s)
      BY <2>2, <1>4, <1>8, AppendFacts
    <2>3. QED  BY <1>5, <2>1, <2>2
  <1>10. ASSUME NEW k \in 1..Len(out')
         PROVE  Rank(use.blocks, out'[k][1]) <= rx[out'[k][1].x].at + 1
    <2>1. CASE k \in 1..Len(out) /\ out'[k] = out[k]
      BY <2>1 DEF NothingMissing
    <2>2. CASE out'[k] = s
      BY <2>2, <1>3, <1>7
    <2>3. QED  BY <1>9, <2>1, <2>2
  <1>11. ASSUME NEW i \in 1..Len(back')
         PROVE  tx'[back'[i].x].fd = "closed" \/ tx'[back'[i].x].next = rx[back'[i].x].at + 1
    <2>1. i + 1 \in 1..Len(back) /\ back'[i] = back[i + 1] /\ back[i + 1].x # x
      BY <1>2
    <2>2. back[i + 1].x \in Transfers
      BY <2>1, Held, RankNat DEF FlowInv
    <2>3. tx'[back'[i].x] = tx[back[i + 1].x]
      BY <1>6, <2>1, <2>2
    <2>4. QED  BY <2>1, <2>3 DEF NothingMissing
  <1>12. QED  BY <1>1, <1>10, <1>11 DEF NothingMissing

\* The first bundle begins where the receiver is.
LEMMA MissingTxRep == ASSUME FlowInv, NothingMissing, processFileTxRep PROVE NothingMissing'
  <1> DEFINE x == back[1].x
  <1>1. /\ back # <<>> /\ Head(back) = back[1] /\ x \in Transfers /\ 1 \in 1..Len(back)
        /\ back[1].id = "FILE_TX_REP"
    BY BackTail DEF processFileTxRep
  <1>2. use.blocks \in Nat
    BY Numbers DEF FlowInv
  <1>3. tx[x].next = 1
    BY <1>1 DEF FlowInv, BackOK
  <1>4. rx[x].at \in Nat /\ rx[x].at < tx[x].next
    BY <1>1, AtNat
  <1>5. rx[x].at + 1 = 1 /\ 1 \in 1..(use.blocks + 1)
    BY <1>2, <1>3, <1>4
  <1>6. /\ renderFileBlockBundle(x, 1) /\ back' = Tail(back)
        /\ UNCHANGED <<use, up, connected, drops, arriving, owes, queue, receiving>>
    BY <1>1 DEF processFileTxRep
  <1>7. QED  BY <1>1, <1>5, <1>6, MissingRender

\* The next bundle goes on where the receiver is.
LEMMA MissingBlockRep == ASSUME FlowInv, NothingMissing, processFileBlockRep PROVE NothingMissing'
  <1> DEFINE x == back[1].x
  <1>1. /\ back # <<>> /\ Head(back) = back[1] /\ x \in Transfers /\ 1 \in 1..Len(back)
        /\ back' = Tail(back)
        /\ UNCHANGED <<use, up, connected, drops, arriving, owes, queue, receiving>>
        /\ \A i \in 1..Len(back') : i + 1 \in 1..Len(back) /\ back'[i] = back[i + 1]
    BY BackTail DEF processFileBlockRep
  <1>2. CASE tx[x].fd # "closed"
    <2>1. use.blocks \in Nat
      BY Numbers DEF FlowInv
    <2>2. tx[x].next \in Nat
      BY <1>1, AtNat
    <2>3. tx[x].next >= 1 /\ tx[x].next <= use.blocks + 1
      BY <1>1, <1>2 DEF FlowInv, TransferOK
    <2>4. tx[x].next \in 1..(use.blocks + 1)
      BY <2>1, <2>2, <2>3
    <2>5. rx[x].at + 1 = tx[x].next
      BY <1>1, <1>2 DEF NothingMissing
    <2>6. renderFileBlockBundle(x, tx[x].next)
      BY <1>1, <1>2 DEF processFileBlockRep
    <2>7. QED  BY <1>1, <2>4, <2>5, <2>6, MissingRender
  <1>3. CASE tx[x].fd = "closed"
    <2>1. /\ use' = use /\ arriving' = arriving /\ queue' = queue /\ rx' = rx
          /\ out' = out /\ tx' = tx
      BY <1>1, <1>3 DEF receiving, processFileBlockRep
    <2>2. ASSUME NEW i \in 1..Len(back')
          PROVE  tx[back'[i].x].fd = "closed" \/ tx[back'[i].x].next = rx[back'[i].x].at + 1
      <3>1. i + 1 \in 1..Len(back) /\ back'[i] = back[i + 1]
        BY <1>1
      <3>2. QED  BY <3>1 DEF NothingMissing
    <2>3. QED  BY <2>1, <2>2 DEF NothingMissing
  <1>4. QED  BY <1>2, <1>3

\* What is lost with a session is behind what is kept.
LEMMA MissingDisconnect == ASSUME FlowInv, NothingMissing, Disconnect PROVE NothingMissing'
  <1>1. use' = use /\ arriving' = arriving /\ queue' = queue /\ rx' = rx /\ tx' = tx
    BY DEF receiving, Disconnect
  <1>2. /\ out' = out \/ out' = <<>>
        /\ back' = back \/ back' = <<>>
    BY DEF Disconnect
  <1>3. \A k \in 1..Len(<<>>) : FALSE
    OBVIOUS
  <1>4. \A k \in 1..Len(out') : Rank(use.blocks, out'[k][1]) <= rx[out'[k][1].x].at + 1
    BY <1>2, <1>3 DEF NothingMissing
  <1>5. \A i \in 1..Len(back') :
           tx[back'[i].x].fd = "closed" \/ tx[back'[i].x].next = rx[back'[i].x].at + 1
    BY <1>2, <1>3 DEF NothingMissing
  <1>6. QED  BY <1>1, <1>4, <1>5 DEF NothingMissing

\* A bundle that arrives follows what the receiver has written.
LEMMA MissingRecv == ASSUME FlowInv, NothingMissing, RepRecv PROVE NothingMissing'
  <1>1. /\ use' = use /\ back' = back /\ queue' = queue /\ rx' = rx /\ tx' = tx
        /\ out # <<>> /\ arriving' = Head(out) /\ out' = Tail(out)
    BY DEF receiving, sender, RepRecv
  <1>2. out \in Seq(Seq(Messages))
    BY Held
  <1>3. /\ arriving' = out[1] /\ Len(out) \in Nat /\ Len(out) >= 1
        /\ \A k \in 1..Len(out') : k + 1 \in 1..Len(out) /\ out'[k] = out[k + 1]
    BY <1>1, <1>2, TailFacts
  <1>4. 1 \in 1..Len(out)
    BY <1>3
  <1>5. \A k \in 1..Len(out) : Rank(use.blocks, out[k][1]) <= rx[out[k][1].x].at + 1
    BY DEF NothingMissing
  <1>6. ASSUME NEW k \in 1..Len(out')
        PROVE  Rank(use.blocks, out'[k][1]) <= rx[out'[k][1].x].at + 1
    <2>1. k + 1 \in 1..Len(out) /\ out'[k] = out[k + 1]
      BY <1>3
    <2>2. QED  BY <1>5, <2>1
  <1>7. Ahead(use.blocks, queue, Len(queue), out[1][1], rx[out[1][1].x].at)
    <2>1. out[1][1] \in Messages
      BY <1>4, Held
    <2>2. Rank(use.blocks, out[1][1]) \in Nat /\ out[1][1].x \in Transfers
      BY <2>1, RankNat DEF FlowInv
    <2>3. rx[out[1][1].x].at \in Nat
      BY <2>2, AtNat
    <2>4. Rank(use.blocks, out[1][1]) <= rx[out[1][1].x].at + 1
      BY <1>4, <1>5
    <2>5. \A r \in (rx[out[1][1].x].at + 1)..(Rank(use.blocks, out[1][1]) - 1) : FALSE
      BY <2>2, <2>3, <2>4
    <2>6. QED  BY <2>5 DEF Ahead
  <1>8. QED  BY <1>1, <1>3, <1>6, <1>7 DEF NothingMissing

\* A message that arrives finds room, and what it follows is ahead of it.
LEMMA MissingShim ==
  ASSUME FlowInv, Room, NothingMissing, processShimReq
  PROVE  NothingMissing'
  <1> DEFINE m == arriving[1]
  <1> DEFINE b == use.blocks
  <1>1. /\ use' = use /\ tx' = tx /\ out' = out /\ rx' = rx /\ back' = back
        /\ arriving # <<>> /\ arriving' = Tail(arriving)
    BY DEF processShimReq, sender, receiving
  <1>2. /\ Head(arriving) = m /\ m \in Messages /\ Rank(b, m) \in Nat
        /\ arriving' # <<>> => arriving'[1].x = m.x /\ Rank(b, arriving'[1]) = Rank(b, m) + 1
    BY <1>1, ArrivingTail
  <1>3. queue' = Append(queue, m)
    BY <1>1, <1>2, NeverFull DEF processShimReq
  <1>4. queue \in Seq(Messages)
    BY Held
  <1>5. m.x \in Transfers /\ rx[m.x].at \in Nat
    BY <1>2, RankNat, AtNat DEF FlowInv
  <1> HIDE DEF m, b
  <1>6. /\ Len(queue) \in Nat /\ Len(queue') = Len(queue) + 1 /\ queue'[Len(queue) + 1] = m
        /\ \A i \in 1..Len(queue) : queue'[i] = queue[i]
        /\ \A i \in 1..Len(queue') : i \in 1..Len(queue) \/ i = Len(queue) + 1
    BY <1>2, <1>3, <1>4, AppendFacts
  <1>7. Ahead(b, queue, Len(queue), m, rx[m.x].at)
    BY <1>1 DEF NothingMissing, m, b
  <1>8. ASSUME NEW i \in 0..Len(queue), NEW n, NEW at, Ahead(b, queue, i, n, at)
        PROVE  Ahead(b, queue', i, n, at)
    <2>1. \A j \in 1..i : j \in 1..Len(queue) /\ queue'[j] = queue[j]
      BY <1>6
    <2>2. QED  BY <1>8, <2>1 DEF Ahead
  <1>9. ASSUME NEW i \in 1..Len(queue')
        PROVE  Ahead(b, queue', i - 1, queue'[i], rx[queue'[i].x].at)
    <2>1. CASE i \in 1..Len(queue)
      <3>1. i - 1 \in 0..Len(queue) /\ queue'[i] = queue[i]
        BY <2>1, <1>6
      <3>2. Ahead(b, queue, i - 1, queue[i], rx[queue[i].x].at)
        BY <2>1 DEF NothingMissing, b
      <3>3. QED  BY <1>8, <3>1, <3>2
    <2>2. CASE i = Len(queue) + 1
      <3>1. i - 1 = Len(queue) /\ Len(queue) \in 0..Len(queue) /\ queue'[i] = m
        BY <2>2, <1>6
      <3>2. QED  BY <1>7, <1>8, <3>1
    <2>3. QED  BY <1>6, <2>1, <2>2
  <1>10. ASSUME arriving' # <<>>
         PROVE  Ahead(b, queue', Len(queue'), arriving'[1], rx[arriving'[1].x].at)
    <2>1. arriving'[1].x = m.x /\ Rank(b, arriving'[1]) = Rank(b, m) + 1
      BY <1>2, <1>10
    <2> SUFFICES ASSUME NEW r \in (rx[m.x].at + 1)..((Rank(b, m) + 1) - 1)
                 PROVE  \E j \in 1..Len(queue') : queue'[j].x = m.x /\ Rank(b, queue'[j]) = r
      BY <2>1 DEF Ahead
    <2>2. CASE r = Rank(b, m)
      <3>1. Len(queue) + 1 \in 1..Len(queue')
        BY <1>6
      <3>2. QED  BY <1>6, <2>2, <3>1
    <2>3. CASE r # Rank(b, m)
      <3>1. r \in (rx[m.x].at + 1)..(Rank(b, m) - 1)
        BY <1>2, <1>5, <2>3
      <3>2. PICK j \in 1..Len(queue) : queue[j].x = m.x /\ Rank(b, queue[j]) = r
        BY <1>7, <3>1 DEF Ahead
      <3>3. j \in 1..Len(queue') /\ queue'[j] = queue[j]
        BY <1>6
      <3>4. QED  BY <3>2, <3>3
    <2>4. QED  BY <2>2, <2>3
  <1>11. QED  BY <1>1, <1>9, <1>10 DEF NothingMissing, b

\* A request is answered: the sender begins where the receiver is, at the beginning.
LEMMA RoomTxReq ==
  ASSUME FlowInv, FileOK, NothingMissing, processFileTxReq
  PROVE  FileOK' /\ NothingMissing'
  <1> DEFINE x == queue[1].x
  <1> DEFINE b == use.blocks
  <1>1. /\ queue # <<>> /\ Head(queue) = queue[1] /\ x \in Transfers /\ 1 \in 1..Len(queue)
        /\ queue[1].id = "FILE_TX_REQ" /\ MsgOK(b, up, tx, rx, queue[1])
    BY QueueTail DEF processFileTxReq, Message
  <1>2. /\ queue' = Tail(queue) /\ use' = use /\ tx' = tx /\ out' = out /\ arriving' = arriving
        /\ rx' = [rx EXCEPT ![x].fd = "none"]
        /\ back' = back \/ back' = Append(back, One("FILE_TX_REP", x))
        /\ up' = up /\ inode' = inode /\ file' = file
    BY <1>1 DEF processFileTxReq, Replied, sender
  <1>3. rx \in [Transfers -> [fd : {"absent", "none", "open", "closed"}, at : 0..use.blocks]]
    BY DEF FlowInv, TypeOK
  <1>4. /\ \A y \in Transfers : rx'[y].at = rx[y].at /\ (y # x => rx'[y].fd = rx[y].fd)
        /\ rx'[x].fd = "none"
    BY <1>1, <1>2, <1>3
  <1>5. queue[1].last /\ tx[x].next = 1
    BY <1>1 DEF MsgOK, Fits
  <1>6. Transfers' = Transfers
    BY <1>2, SameUse
  <1>7. FileOK'
    <2>1. ASSUME NEW y \in Transfers
          PROVE  /\ Copied(rx'[y].at, file[inode[y]])
                 /\ rx'[y].fd = "closed" => rx'[y].at = use.blocks
                 /\ rx'[y].fd \in {"open", "closed"} =>
                       y <= up /\ (inode[y] = Path \/ (use.shared /\ y < up))
      BY <1>4 DEF FileOK
    <2>2. \A k \in 0..use'.ups : Blend(Old(k)', file'[k])
      BY <1>2 DEF FileOK, Old
    <2>3. Path' = Path
      BY <1>2 DEF Path
    <2>4. QED  BY <1>2, <1>6, <2>1, <2>2, <2>3 DEF FileOK
  <1>8. /\ \A i \in 1..Len(queue') :
              Ahead(use'.blocks, queue', i - 1, queue'[i], rx'[queue'[i].x].at)
        /\ arriving' # <<>> =>
              Ahead(use'.blocks, queue', Len(queue'), arriving'[1], rx'[arriving'[1].x].at)
    <2>1. \A y \in Transfers : rx'[y].at \in Nat /\ rx[y].at <= rx'[y].at
      BY <1>4, AtNat
    <2>2. \A n \in Messages : InOrder(use.blocks, queue[1], n) /\ n.x = queue[1].x =>
             Rank(use.blocks, queue[1]) <= rx'[queue[1].x].at
      BY <1>5 DEF InOrder
    <2>3. QED  BY <1>1, <1>2, <2>1, <2>2, MissingTake
  <1>9. ASSUME NEW k \in 1..Len(out)
        PROVE  Rank(b, out[k][1]) <= rx'[out[k][1].x].at + 1
    <2>1. out[k][1].x \in Transfers
      BY Held, RankNat DEF FlowInv
    <2>2. QED  BY <1>4, <2>1 DEF NothingMissing
  <1>10. ASSUME NEW i \in 1..Len(back')
         PROVE  tx[back'[i].x].fd = "closed" \/ tx[back'[i].x].next = rx'[back'[i].x].at + 1
    <2>1. back \in Seq(Messages) /\ use.blocks \in Nat
      BY Held, Numbers DEF FlowInv
    <2>2. One("FILE_TX_REP", x) \in Messages /\ One("FILE_TX_REP", x).x = x
      BY <1>1, <2>1 DEF One, Messages
    <2>3. (i \in 1..Len(back) /\ back'[i] = back[i]) \/ back'[i].x = x
      <3>1. CASE back' = back
        BY <3>1
      <3>2. CASE back' = Append(back, One("FILE_TX_REP", x))
        BY <2>1, <2>2, <3>2, AppendFacts
      <3>3. QED  BY <1>2, <3>1, <3>2
    <2>4. CASE i \in 1..Len(back) /\ back'[i] = back[i]
      <3>1. back[i].x \in Transfers
        BY <2>4, Held, RankNat DEF FlowInv
      <3>2. QED  BY <1>4, <2>4, <3>1 DEF NothingMissing
    <2>5. CASE back'[i].x = x
      <3>1. rx[x].at \in Nat /\ rx[x].at < 1
        BY <1>1, <1>5, AtNat
      <3>2. rx'[x].at + 1 = 1
        BY <1>1, <1>4, <3>1
      <3>3. QED  BY <1>5, <2>5, <3>2
    <2>6. QED  BY <2>3, <2>4, <2>5
  <1>11. NothingMissing'
    BY <1>2, <1>8, <1>9, <1>10 DEF NothingMissing
  <1>12. QED  BY <1>7, <1>11

\* The first message of the queue is the next of its transfer.
LEMMA NextBlock ==
  ASSUME FlowInv, NothingMissing, queue # <<>>, queue[1].id = "FILE_BLOCK_REQ"
  PROVE  Rank(use.blocks, queue[1]) = rx[queue[1].x].at + 1
  <1>1. /\ 1 \in 1..Len(queue) /\ Rank(use.blocks, queue[1]) \in Nat /\ queue[1].x \in Transfers
        /\ MsgOK(use.blocks, up, tx, rx, queue[1])
    BY QueueTail
  <1>2. rx[queue[1].x].at \in Nat
    BY <1>1, AtNat
  <1>3. rx[queue[1].x].at < Rank(use.blocks, queue[1])
    BY <1>1 DEF MsgOK, Fits
  <1>4. Ahead(use.blocks, queue, 1 - 1, queue[1], rx[queue[1].x].at)
    BY <1>1 DEF NothingMissing
  <1>5. \A r \in (rx[queue[1].x].at + 1)..(Rank(use.blocks, queue[1]) - 1) :
           \E j \in 1..(1 - 1) : TRUE
    BY <1>4 DEF Ahead
  <1>6. ~(rx[queue[1].x].at + 1 <= Rank(use.blocks, queue[1]) - 1)
    <2>1. SUFFICES ASSUME rx[queue[1].x].at + 1 <= Rank(use.blocks, queue[1]) - 1 PROVE FALSE
      OBVIOUS
    <2>2. rx[queue[1].x].at + 1 \in (rx[queue[1].x].at + 1)..(Rank(use.blocks, queue[1]) - 1)
      BY <1>1, <1>2, <2>1
    <2>3. PICK j \in 1..(1 - 1) : TRUE
      BY <1>5, <2>2
    <2>4. QED  BY <2>3
  <1>7. QED  BY <1>1, <1>2, <1>3, <1>6

\* The next block is written over what is there.
LEMMA WriteNext ==
  ASSUME NEW b \in Nat, NEW o \in Nat, NEW f \in Seq(0..b), Blend(o, f),
         NEW at \in Nat, at < b, Copied(at, f)
  PROVE  LET w == Written(f, at, at + 1)
         IN  /\ Blend(o, w) /\ Copied(at + 1, w)
             /\ \A n \in Nat : Copied(n, f) => Copied(n, w)
  <1> DEFINE w == Written(f, at, at + 1)
  <1>1. Len(f) \in Nat /\ at <= Len(f) /\ at + 1 \in 0..b
    BY LenProperties DEF Copied
  <1>2. /\ Len(w) \in Nat /\ Len(f) <= Len(w) /\ at + 1 <= Len(w) /\ w[at + 1] = at + 1
        /\ \A i \in 1..Len(f) : i # at + 1 => w[i] = f[i]
        /\ \A i \in 1..Len(w) : i \in 1..Len(f) \/ i = at + 1
    <2>1. CASE at < Len(f)
      <3>1. /\ Len(w) = Len(f) /\ w[at + 1] = at + 1
            /\ \A i \in 1..Len(f) : i # at + 1 => w[i] = f[i]
        BY <1>1, <2>1, WriteBlock
      <3> HIDE DEF w
      <3>2. QED  BY <1>1, <2>1, <3>1
    <2>2. CASE ~(at < Len(f))
      <3>1. w = Append(f, at + 1)
        BY <1>1, <2>2, WriteBlock
      <3>2. at = Len(f)
        BY <1>1, <2>2
      <3> HIDE DEF w
      <3>3. /\ Len(w) = Len(f) + 1 /\ w[Len(f) + 1] = at + 1
            /\ \A i \in 1..Len(f) : w[i] = f[i]
        BY <1>1, <3>1, AppendFacts
      <3>4. QED  BY <1>1, <3>2, <3>3
    <2>3. QED  BY <2>1, <2>2
  <1> HIDE DEF w
  <1>3. Blend(o, w)
    <2>1. o <= Len(w)
      BY <1>1, <1>2 DEF Blend
    <2>2. ASSUME NEW i \in 1..Len(w) PROVE w[i] = i \/ (w[i] = 0 /\ i <= o)
      <3>1. CASE i = at + 1
        BY <1>2, <3>1
      <3>2. CASE i # at + 1
        BY <1>2, <3>2 DEF Blend
      <3>3. QED  BY <3>1, <3>2
    <2>3. QED  BY <2>1, <2>2 DEF Blend
  <1>4. ASSUME NEW n \in Nat, Copied(n, f) PROVE Copied(n, w)
    <2>1. n <= Len(w)
      BY <1>1, <1>2, <1>4 DEF Copied
    <2>2. ASSUME NEW i \in 1..n PROVE w[i] = i
      <3>1. i \in 1..Len(f) /\ f[i] = i
        BY <1>1, <1>4 DEF Copied
      <3>2. QED  BY <1>2, <3>1
    <2>3. QED  BY <2>1, <2>2 DEF Copied
  <1>5. Copied(at + 1, w)
    <2>1. Copied(at, w)
      BY <1>4
    <2>2. \A i \in 1..(at + 1) : i \in 1..at \/ i = at + 1
      BY <1>1
    <2>3. QED  BY <1>2, <2>1, <2>2 DEF Copied
  <1>6. QED  BY <1>3, <1>4, <1>5 DEF w

\* A block is written where it belongs, and the file closed when it is whole.
LEMMA RoomBlockReq ==
  ASSUME FlowInv, AskInv, FileOK, NothingMissing, processFileBlockReq
  PROVE  FileOK' /\ (receiver' = "running" => NothingMissing')
  <1> DEFINE m == queue[1]
  <1> DEFINE x == queue[1].x
  <1> DEFINE b == use.blocks
  <1> DEFINE g == Target(m, x)
  <1>1. /\ queue # <<>> /\ queue' = Tail(queue) /\ x \in Transfers /\ m \in Messages
        /\ m.id = "FILE_BLOCK_REQ" /\ MsgOK(b, up, tx, rx, m)
        /\ use' = use /\ tx' = tx /\ out' = out /\ arriving' = arriving
        /\ up' = up /\ inode' = [inode EXCEPT ![x] = g]
    BY BlockReqStep
  <1>2. back' = back \/ (m.last /\ back' = Append(back, One("FILE_BLOCK_REP", x)))
    BY BlockReqStep
  <1>3. \/ /\ m.block = 0 /\ file' = file
           /\ rx' = [rx EXCEPT ![x].fd = "closed"]
        \/ /\ m.block # 0
           /\ rx' = [rx EXCEPT ![x] = [fd |-> "open", at |-> rx[x].at + 1]]
           /\ file' = [file EXCEPT ![g] = Written(file[g], rx[x].at, m.block)]
        \/ receiver' = "aborted" /\ rx' = rx /\ file' = file
    BY BlockReqStep
  <1>4. Rank(b, m) = rx[x].at + 1
    BY <1>1, NextBlock
  <1>5. /\ b \in Nat /\ m.block \in 0..b /\ file \in [0..use.ups -> Seq(0..b)]
        /\ inode \in [Transfers -> 0..use.ups] /\ rx[x].at \in Nat /\ rx[x].at <= b /\ tx[x].next \in Nat
    BY <1>1, Numbers, AtNat DEF FlowInv, TypeOK, Messages
  <1>6. Rank(b, m) = IF m.block = 0 THEN b + 1 ELSE m.block
    BY <1>1 DEF Rank
  <1>7. /\ m.block = 0 => tx[x].fd = "closed"
        /\ m.last /\ m.block # 0 => Rank(b, m) = tx[x].next - 1
    BY <1>1 DEF MsgOK, Fits
  <1>8. rx \in [Transfers -> [fd : {"absent", "none", "open", "closed"}, at : 0..b]]
    BY DEF FlowInv, TypeOK
  <1>9. Transfers' = Transfers
    BY <1>1, SameUse
  <1>10. g \in 0..use.ups /\ use.old \in Nat
    BY <1>1, TargetType, Numbers DEF FlowInv
  <1>opened. (m.first /\ rx[x].fd = "none") \/ rx[x].fd \in {"open", "closed"}
    <2>1. rx[x].fd # "absent" /\ (Rank(b, m) = 1 => m.first)
      <3>1. 1 \in 1..Len(queue)
        BY <1>1, QueueTail
      <3>2. QED  BY <1>1, <3>1 DEF AskInv, AsksOK, AsksSeq, Asks
    <2>2. rx[x].fd = "none" => m.first
      <3> SUFFICES ASSUME rx[x].fd = "none" PROVE m.first
        OBVIOUS
      <3>1. ~(rx[x].at > 0)
        BY <1>1 DEF AskInv, FilesOpen
      <3>2. Rank(b, m) = 1
        BY <1>4, <1>5, <3>1
      <3>3. QED  BY <2>1, <3>2
    <2>3. rx[x].fd \in {"absent", "none", "open", "closed"}
      BY <1>1, <1>8
    <2>4. QED  BY <2>1, <2>2, <2>3
  <1>placed. x <= up /\ (g = Path \/ (use.shared /\ x < up))
    <2>1. CASE m.first /\ rx[x].fd = "none"
      BY <1>1, <2>1 DEF MsgOK, Target
    <2>2. CASE ~(m.first /\ rx[x].fd = "none")
      BY <1>1, <1>opened, <2>2 DEF FileOK, Target
    <2>3. QED  BY <2>1, <2>2
  <1>copied. Copied(rx[x].at, file[g])
    <2>1. CASE m.first /\ rx[x].fd = "none"
      <3>1. ~(rx[x].at > 0)
        BY <1>1, <2>1 DEF AskInv, FilesOpen
      <3>2. rx[x].at = 0 /\ Len(file[g]) \in Nat
        BY <1>5, <1>10, <3>1, LenProperties
      <3>3. QED  BY <3>2 DEF Copied
    <2>2. CASE ~(m.first /\ rx[x].fd = "none")
      BY <1>1, <2>2 DEF FileOK, Target
    <2>3. QED  BY <2>1, <2>2
  <1>inode. /\ inode'[x] = g
            /\ \A y \in Transfers : y # x => inode'[y] = inode[y] /\ inode[y] \in 0..use.ups
    BY <1>1, <1>5
  <1>11. /\ \A k \in 1..Len(out) : out[k][1].x # x /\ out[k][1].x \in Transfers
         /\ \A i \in 1..Len(back) : back[i].x # x /\ back[i].x \in Transfers
    <2>1. 1 \in 1..Len(queue)
      BY <1>1, QueueTail
    <2>2. /\ \A k \in 1..Len(out) : out[k][1].x # x
          /\ \A i \in 1..Len(back) : back[i].x # x
      BY <2>1 DEF FlowInv, OnePlace
    <2>3. /\ \A k \in 1..Len(out) : out[k][1].x \in Transfers
          /\ \A i \in 1..Len(back) : back[i].x \in Transfers
      BY Held, RankNat DEF FlowInv
    <2>4. QED  BY <2>2, <2>3
  <1>12. One("FILE_BLOCK_REP", x) \in Messages /\ One("FILE_BLOCK_REP", x).x = x
    BY <1>1, <1>5 DEF One, Messages
  <1> HIDE DEF m, x, b, g
  <1>13. ASSUME \A y \in Transfers : y # x => rx'[y].at = rx[y].at,
                rx'[x].at \in Nat, rx[x].at <= rx'[x].at,
                \A n \in Messages : InOrder(b, m, n) /\ n.x = x => Rank(b, m) <= rx'[x].at,
                m.last => tx[x].fd = "closed" \/ tx[x].next = rx'[x].at + 1
         PROVE  NothingMissing'
    <2>1. \A y \in Transfers : rx'[y].at \in Nat /\ rx[y].at <= rx'[y].at
      <3>1. \A y \in Transfers : rx[y].at \in Nat
        BY AtNat
      <3>2. \A y \in Transfers : y # x => rx'[y].at \in Nat /\ rx[y].at <= rx'[y].at
        BY <1>13, <3>1
      <3>3. QED  BY <1>13, <3>2
    <2>2. /\ \A i \in 1..Len(queue') :
                Ahead(use'.blocks, queue', i - 1, queue'[i], rx'[queue'[i].x].at)
          /\ arriving' # <<>> =>
                Ahead(use'.blocks, queue', Len(queue'), arriving'[1], rx'[arriving'[1].x].at)
      BY <1>1, <1>13, <2>1, MissingTake DEF m, x, b
    <2>3. \A k \in 1..Len(out) : Rank(b, out[k][1]) <= rx'[out[k][1].x].at + 1
      BY <1>11, <1>13 DEF NothingMissing, b
    <2>4. ASSUME NEW i \in 1..Len(back')
          PROVE  tx[back'[i].x].fd = "closed" \/ tx[back'[i].x].next = rx'[back'[i].x].at + 1
      <3>1. back \in Seq(Messages)
        BY Held
      <3>2. (i \in 1..Len(back) /\ back'[i] = back[i]) \/ (m.last /\ back'[i].x = x)
        <4>1. CASE back' = back
          BY <4>1
        <4>2. CASE m.last /\ back' = Append(back, One("FILE_BLOCK_REP", x))
          BY <4>2, <3>1, <1>12, AppendFacts
        <4>3. QED  BY <1>2, <4>1, <4>2
      <3>3. CASE i \in 1..Len(back) /\ back'[i] = back[i]
        BY <1>11, <1>13, <3>3 DEF NothingMissing
      <3>4. CASE m.last /\ back'[i].x = x
        BY <1>13, <3>4
      <3>5. QED  BY <3>2, <3>3, <3>4
    <2>5. QED  BY <1>1, <2>2, <2>3, <2>4 DEF NothingMissing, b
  <1>file. ASSUME \A k \in 0..use.ups : Blend(Old(k), file'[k]),
                \A k \in 0..use.ups, n \in Nat : Copied(n, file[k]) => Copied(n, file'[k]),
                Copied(rx'[x].at, file'[g]), rx'[x].fd = "closed" => rx'[x].at = b,
                \A y \in Transfers : y # x => rx'[y] = rx[y]
         PROVE  FileOK'
    <2>1. Path' = Path /\ \A k \in 0..use.ups : Blend(Old(k)', file'[k])
      BY <1>1, <1>file DEF Path, Old
    <2>2. ASSUME NEW y \in Transfers
          PROVE  /\ Copied(rx'[y].at, file'[inode'[y]])
                 /\ rx'[y].fd = "closed" => rx'[y].at = b
                 /\ rx'[y].fd \in {"open", "closed"} =>
                       y <= up /\ (inode'[y] = Path \/ (use.shared /\ y < up))
      <3>1. CASE y = x
        BY <1>inode, <1>placed, <1>file, <3>1
      <3>2. CASE y # x
        <4>1. rx'[y] = rx[y] /\ inode'[y] = inode[y] /\ inode[y] \in 0..use.ups /\ rx[y].at \in Nat
          BY <1>inode, <1>file, <3>2, AtNat
        <4>2. /\ Copied(rx[y].at, file[inode[y]])
              /\ rx[y].fd = "closed" => rx[y].at = b
              /\ rx[y].fd \in {"open", "closed"} =>
                    y <= up /\ (inode[y] = Path \/ (use.shared /\ y < up))
          BY DEF FileOK, b
        <4>3. Copied(rx[y].at, file'[inode[y]])
          BY <1>file, <4>1, <4>2
        <4>4. QED  BY <4>1, <4>2, <4>3
      <3>3. QED  BY <3>1, <3>2
    <2>3. QED  BY <1>1, <1>9, <2>1, <2>2 DEF FileOK, b
  <1>14. CASE m.block = 0 /\ file' = file /\ rx' = [rx EXCEPT ![x].fd = "closed"]
    <2>1. rx[x].at = b /\ Rank(b, m) = b + 1
      BY <1>4, <1>5, <1>6, <1>14
    <2>2. /\ \A y \in Transfers : rx'[y].at = rx[y].at
          /\ \A y \in Transfers : y # x => rx'[y] = rx[y]
      BY <1>1, <1>8, <1>14
    <2>3. \A k \in 0..use.ups : Blend(Old(k), file'[k])
      BY <1>14 DEF FileOK
    <2>4. FileOK'
      BY <1>1, <1>14, <1>copied, <1>file, <2>1, <2>2, <2>3
    <2>5. \A n \in Messages : InOrder(b, m, n) /\ n.x = x => Rank(b, m) <= rx'[x].at
      <3> SUFFICES ASSUME NEW n \in Messages, InOrder(b, m, n), n.x = x PROVE FALSE
        OBVIOUS
      <3>1. Rank(b, m) < Rank(b, n)
        BY DEF InOrder, m, x
      <3>2. Rank(b, n) <= b + 1 /\ Rank(b, n) \in Nat
        BY RankBound, RankNat DEF FlowInv, b
      <3>3. QED  BY <1>5, <2>1, <3>1, <3>2
    <2>6. rx'[x].at \in Nat /\ rx[x].at <= rx'[x].at
      BY <1>1, <1>5, <2>2
    <2>7. NothingMissing'
      BY <1>7, <1>13, <1>14, <2>2, <2>5, <2>6
    <2>8. QED  BY <2>4, <2>7
  <1>15. CASE /\ m.block # 0
              /\ rx' = [rx EXCEPT ![x] = [fd |-> "open", at |-> rx[x].at + 1]]
              /\ file' = [file EXCEPT ![g] = Written(file[g], rx[x].at, m.block)]
    <2>1. /\ m.block = rx[x].at + 1 /\ Rank(b, m) = rx[x].at + 1 /\ m.block \in 1..b
          /\ rx[x].at < b
      BY <1>4, <1>5, <1>6, <1>15
    <2>2. /\ \A y \in Transfers : y # x => rx'[y] = rx[y]
          /\ rx'[x].at = rx[x].at + 1 /\ rx'[x].fd = "open"
      BY <1>1, <1>8, <1>15
    <2>3. file[g] \in Seq(0..b) /\ Blend(Old(g), file[g]) /\ Old(g) \in Nat
      BY <1>5, <1>10 DEF FileOK, Old
    <2> DEFINE w == Written(file[g], rx[x].at, rx[x].at + 1)
    <2>4. /\ Blend(Old(g), w) /\ Copied(rx[x].at + 1, w)
          /\ \A n \in Nat : Copied(n, file[g]) => Copied(n, w)
      BY <1>5, <1>copied, <2>1, <2>3, WriteNext
    <2>5. file' = [file EXCEPT ![g] = w]
      BY <1>15, <2>1
    <2> HIDE DEF w
    <2>6. file'[g] = w /\ \A k \in 0..use.ups : k # g => file'[k] = file[k]
      BY <1>5, <1>10, <2>5
    <2>7. \A k \in 0..use.ups : Blend(Old(k), file'[k])
      BY <2>4, <2>6 DEF FileOK
    <2>8. \A k \in 0..use.ups, n \in Nat : Copied(n, file[k]) => Copied(n, file'[k])
      BY <2>4, <2>6
    <2>9. Copied(rx'[x].at, file'[g])
      BY <2>2, <2>4, <2>6
    <2>10. FileOK'
      BY <1>file, <2>2, <2>7, <2>8, <2>9
    <2>11. rx'[x].at \in Nat /\ rx[x].at <= rx'[x].at /\ Rank(b, m) <= rx'[x].at
      BY <1>5, <2>1, <2>2
    <2>12. m.last => tx[x].next = rx'[x].at + 1
      BY <1>5, <1>7, <1>15, <2>1, <2>2
    <2>13. NothingMissing'
      BY <1>13, <2>2, <2>11, <2>12
    <2>14. QED  BY <2>10, <2>13
  <1>16. CASE receiver' = "aborted" /\ rx' = rx /\ file' = file
    <2>1. \A k \in 0..use.ups : Blend(Old(k), file'[k])
      BY <1>16 DEF FileOK
    <2>2. rx[x].fd = "closed" => rx[x].at = b
      BY <1>1 DEF FileOK, b
    <2>3. FileOK'
      BY <1>16, <1>copied, <1>file, <2>1, <2>2
    <2>4. QED  BY <1>16, <2>3
  <1>17. QED  BY <1>3, <1>14, <1>15, <1>16

\* At first the destination is as it was, and nothing is on the way.
LEMMA RoomInit == ASSUME Init PROVE RoomInv
  <1>1. /\ queue = <<>> /\ arriving = <<>> /\ out = <<>> /\ back = <<>>
        /\ file = [k \in 0..use.ups |-> [i \in 1..Old(k) |-> 0]]
        /\ inode = [x \in Transfers |-> 0]
        /\ \A x \in Transfers : rx[x].fd = "absent" /\ rx[x].at = 0
    BY DEF Init
  <1>2. Len(<<>>) = 0 /\ \A i \in 1..Len(<<>>) : FALSE
    OBVIOUS
  <1>3. ASSUME NEW k \in 0..use.ups
        PROVE  Blend(Old(k), file[k]) /\ Len(file[k]) \in Nat
    <2>1. Old(k) \in Nat /\ use.blocks \in Nat
      BY Numbers DEF Init, Old
    <2> DEFINE f == [i \in 1..Old(k) |-> 0]
    <2>2. f \in Seq({0}) /\ Len(f) = Old(k)
      <3>1. f \in [1..Old(k) -> {0}]
        OBVIOUS
      <3> HIDE DEF f
      <3>2. f \in Seq({0})
        BY <2>1, <3>1, SeqDef
      <3>3. DOMAIN f = 1..Old(k) /\ DOMAIN f = 1..Len(f) /\ Len(f) \in Nat
        BY <3>1, <3>2, LenProperties
      <3>4. QED  BY <2>1, <3>2, <3>3
    <2>3. \A i \in 1..Old(k) : f[i] = 0
      OBVIOUS
    <2>4. file[k] = f
      BY <1>1
    <2> HIDE DEF f
    <2>5. QED  BY <2>1, <2>2, <2>3, <2>4 DEF Blend
  <1>4. FileOK
    <2>1. ASSUME NEW x \in Transfers PROVE Copied(rx[x].at, file[inode[x]])
      <3>1. inode[x] = 0 /\ 0 \in 0..use.ups /\ rx[x].at = 0
        BY <1>1, Numbers DEF Init
      <3>2. Len(file[inode[x]]) \in Nat
        BY <1>3, <3>1
      <3>3. QED  BY <3>1, <3>2 DEF Copied
    <2>2. QED  BY <1>1, <1>3, <2>1 DEF FileOK
  <1>5. NothingMissing
    BY <1>1, <1>2 DEF NothingMissing
  <1>6. QED  BY <1>4, <1>5 DEF RoomInv

\* Every step leaves what the transfers have written in its place.
LEMMA RoomStep == ASSUME FlowInv, AskInv, RoomInv, [Next]_vars PROVE RoomInv'
  <1>1. use' = use
    BY DEF vars, Next, Step, peerStateChanged, processFileTxRep, processFileBlockRep, RepRecv,
           processShimReq, processFileTxReq, processFileBlockReq, Disconnect, processJoinRep
  <1> SUFFICES ASSUME Room PROVE FileOK' /\ (receiver' = "running" => NothingMissing')
    BY <1>1 DEF RoomInv, Room
  <1>2. FileOK /\ (receiver = "running" => NothingMissing)
    BY DEF RoomInv
  <1>3. ASSUME up' = up, rx' = rx, inode' = inode, file' = file, receiver' = receiver,
               NothingMissing => NothingMissing'
        PROVE  FileOK' /\ (receiver' = "running" => NothingMissing')
    BY <1>1, <1>2, <1>3, FileSame
  <1>4. CASE UNCHANGED vars \/ processJoinRep
    <2>1. /\ use' = use /\ tx' = tx /\ out' = out /\ arriving' = arriving /\ queue' = queue
          /\ up' = up /\ rx' = rx /\ inode' = inode /\ file' = file /\ receiver' = receiver
          /\ back' = back
      BY <1>4 DEF vars, processJoinRep, sender
    <2>2. NothingMissing => NothingMissing'
      BY <2>1 DEF NothingMissing
    <2>3. QED  BY <1>3, <2>1, <2>2
  <1>5. CASE peerStateChanged
    <2>1. receiver' = receiver
      BY <1>5 DEF peerStateChanged, receiving
    <2>2. QED  BY <1>2, <1>5, <2>1, MissingUp, FileUp
  <1>6. CASE processFileTxRep
    <2>1. up' = up /\ rx' = rx /\ inode' = inode /\ file' = file /\ receiver' = receiver
      BY <1>6 DEF processFileTxRep, receiving
    <2>2. QED  BY <1>3, <1>6, <2>1, MissingTxRep
  <1>7. CASE processFileBlockRep
    <2>1. up' = up /\ rx' = rx /\ inode' = inode /\ file' = file /\ receiver' = receiver
      BY <1>7 DEF processFileBlockRep, receiving
    <2>2. QED  BY <1>3, <1>7, <2>1, MissingBlockRep
  <1>8. CASE RepRecv
    <2>1. up' = up /\ rx' = rx /\ inode' = inode /\ file' = file /\ receiver' = receiver
      BY <1>8 DEF RepRecv, receiving, sender
    <2>2. QED  BY <1>3, <1>8, <2>1, MissingRecv
  <1>9. CASE processShimReq
    <2>1. up' = up /\ rx' = rx /\ inode' = inode /\ file' = file /\ receiver' = receiver
      BY <1>9 DEF processShimReq, receiving, sender
    <2>2. QED  BY <1>3, <1>9, <2>1, MissingShim
  <1>10. CASE Disconnect
    <2>1. up' = up /\ rx' = rx /\ inode' = inode /\ file' = file /\ receiver' = receiver
      BY <1>10 DEF Disconnect
    <2>2. QED  BY <1>3, <1>10, <2>1, MissingDisconnect
  <1>11. CASE processFileTxReq
    <2>1. receiver = "running"
      BY <1>11 DEF processFileTxReq, Message
    <2>2. QED  BY <1>2, <1>11, <2>1, RoomTxReq
  <1>12. CASE processFileBlockReq
    <2>1. receiver = "running"
      BY <1>12 DEF processFileBlockReq, Message
    <2>2. QED  BY <1>2, <1>12, <2>1, RoomBlockReq
  <1>13. QED
    BY <1>4, <1>5, <1>6, <1>7, <1>8, <1>9, <1>10, <1>11, <1>12 DEF Next, Step

\* What is left when all blocks of a file of b are written over o old ones.
LEMMA Blended ==
  ASSUME NEW b \in Nat, NEW o \in Nat, NEW f \in Seq(0..b), Blend(o, f), Copied(b, f)
  PROVE  f = [i \in 1..(IF o > b THEN o ELSE b) |-> IF i <= b THEN i ELSE 0]
  <1> DEFINE n == IF o > b THEN o ELSE b
  <1>1. Len(f) \in Nat /\ f \in [1..Len(f) -> 0..b] /\ b <= Len(f) /\ o <= Len(f)
    BY LenProperties DEF Blend, Copied
  <1>2. Len(f) = n
    <2> DEFINE l == Len(f)
    <2>1. CASE l > b /\ l > o
      <3>1. l \in 1..Len(f)
        BY <1>1, <2>1
      <3>2. f[l] = l \/ (f[l] = 0 /\ l <= o)
        BY <3>1 DEF Blend
      <3>3. f[l] \in 0..b
        BY <1>1, <3>1
      <3>4. l \in Nat /\ ~(l <= o) /\ ~(l \in 0..b)
        BY <1>1, <2>1
      <3>5. QED  BY <3>2, <3>3, <3>4
    <2>2. CASE ~(l > b /\ l > o)
      <3>1. l \in Nat /\ b <= l /\ o <= l
        BY <1>1
      <3> HIDE DEF l
      <3>2. CASE o > b
        BY <2>2, <3>1, <3>2 DEF l
      <3>3. CASE ~(o > b)
        BY <2>2, <3>1, <3>3 DEF l
      <3>4. QED  BY <3>2, <3>3
    <2>3. QED  BY <2>1, <2>2
  <1>3. ASSUME NEW i \in 1..Len(f) PROVE f[i] = IF i <= b THEN i ELSE 0
    <2>1. CASE i <= b
      BY <1>1, <2>1 DEF Copied
    <2>2. CASE ~(i <= b)
      <3>1. f[i] \in 0..b /\ (f[i] = i \/ f[i] = 0)
        BY <1>1 DEF Blend
      <3>2. f[i] = 0
        BY <1>1, <2>2, <3>1
      <3>3. QED  BY <2>2, <3>2
    <2>3. QED  BY <2>1, <2>2
  <1>4. f = [i \in 1..Len(f) |-> f[i]]
    BY <1>1
  <1> HIDE DEF n
  <1>5. f = [i \in 1..n |-> IF i <= b THEN i ELSE 0]
    BY <1>2, <1>3, <1>4
  <1>6. QED  BY <1>5 DEF n

\* A file that is closed has all its blocks, and an UP is all that takes it away.
LEMMA WholeWhenClosed == ASSUME FlowInv, RoomInv PROVE ClosedFileIsWhole
  <1> SUFFICES ASSUME Room, NEW x \in Transfers, rx[x].fd = "closed"
               PROVE  /\ file[inode[x]] = Complete(inode[x])
                      /\ inode[x] = Path \/ (use.shared /\ x < up)
    BY DEF ClosedFileIsWhole
  <1>1. FileOK
    BY DEF RoomInv
  <1>2. Copied(use.blocks, file[inode[x]]) /\ (inode[x] = Path \/ (use.shared /\ x < up))
    BY <1>1 DEF FileOK
  <1>3. inode[x] \in 0..use.ups /\ file \in [0..use.ups -> Seq(0..use.blocks)]
    BY DEF FlowInv, TypeOK
  <1>4. Blend(Old(inode[x]), file[inode[x]])
    BY <1>1, <1>3 DEF FileOK
  <1>5. use.blocks \in Nat /\ Old(inode[x]) \in Nat /\ file[inode[x]] \in Seq(0..use.blocks)
    BY <1>3, Numbers DEF FlowInv, Old
  <1>6. file[inode[x]] = Complete(inode[x])
    BY <1>2, <1>4, <1>5, Blended DEF Complete
  <1>7. QED  BY <1>2, <1>6

\* With a queue that holds a bundle of each transfer, the file that the receiver closes
\* has every block in its place, and after them at most the tail of a longer file that
\* was there before; it is at the path unless a later UP on the same host removed it.
\* For every size of the files, of the bundles and of the queue, any number of
\* transfers at the same time, and any sessions and replies lost.
THEOREM ClosedFilesAreWhole == Spec => []ClosedFileIsWhole
  <1>1. Init => RoomInv
    BY RoomInit
  <1>2. FlowInv /\ AskInv /\ RoomInv /\ [Next]_vars => RoomInv'
    BY RoomStep
  <1>3. FlowInv /\ RoomInv => ClosedFileIsWhole
    BY WholeWhenClosed
  <1>4. QED  BY <1>1, <1>2, <1>3, FlowAlways, AsksAlways, PTL DEF Spec

-----------------------------------------------------------------------------
(* A transfer is not forgotten *)

\* The transfer x has a message that will make one side act.
Underway(x) ==
    \/ \E k \in 1..Len(out) : out[k][1].x = x
    \/ arriving # <<>> /\ arriving[1].x = x
    \/ \E i \in 1..Len(queue) : queue[i].x = x /\ queue[i].last
    \/ \E i \in 1..Len(back) : back[i].x = x /\ tx[x].fd # "closed"

\* Without a lost session there is one transfer, and the peer is still UP.
Session == drops \in Nat /\ (drops = 0 => (connected <=> up > 0) /\ up <= 1)

\* A receiver that has ended has closed a file.
EndsWell ==
    /\ receiver # "aborted" /\ ~owes
    /\ receiver = "exited" => \E x \in Transfers : x <= up /\ rx[x].fd = "closed"

\* As long as no session is lost, the request of a transfer that the receiver does
\* not know is on the way.
Requested ==
    drops = 0 => \A x \in Transfers : x <= up /\ rx[x].fd = "absent" => Underway(x)

\* The sender's state follows the sessions.
LEMMA SessionStep == ASSUME FlowInv, Session, [Next]_vars PROVE Session'
  <1>1. up \in Nat
    BY Held
  <1>2. CASE peerStateChanged
    <2>1. ~connected /\ connected' = TRUE /\ up' = up + 1 /\ drops' = drops
      BY <1>2 DEF peerStateChanged
    <2>2. drops = 0 => ~(up > 0)
      BY <2>1 DEF Session
    <2>3. drops = 0 => up = 0
      BY <1>1, <2>2
    <2>4. drops' = 0 => up' > 0 /\ up' <= 1
      BY <2>1, <2>3
    <2>5. QED  BY <2>1, <2>4 DEF Session
  <1>3. CASE Disconnect
    <2>1. drops' = drops + 1
      BY <1>3 DEF Disconnect
    <2>2. drops' \in Nat /\ drops' # 0
      BY <2>1 DEF Session
    <2>3. QED  BY <2>2 DEF Session
  <1>4. CASE UNCHANGED <<up, connected, drops>>
    BY <1>4 DEF Session
  <1>5. QED
    BY <1>2, <1>3, <1>4 DEF Next, Step, vars, processFileTxRep, processFileBlockRep, RepRecv,
       processShimReq, processJoinRep, processFileTxReq, processFileBlockReq, sender

\* With room the receiver writes to open files only, and always answers a bundle.
LEMMA EndsWellStep ==
  ASSUME FlowInv, RoomInv, AskInv, Room, EndsWell, [Next]_vars
  PROVE  EndsWell'
  <1>1. use' = use /\ Transfers' = Transfers /\ up \in Nat /\ up' \in Nat /\ up <= up'
    <2>1. use' = use /\ (up' = up \/ up' = up + 1)
      BY DEF vars, Next, Step, peerStateChanged, processFileTxRep, processFileBlockRep, RepRecv,
             processShimReq, processJoinRep, processFileTxReq, processFileBlockReq, Disconnect,
             sender
    <2>2. up \in Nat
      BY Held
    <2>3. QED  BY <2>1, <2>2, SameUse
  <1>2. CASE UNCHANGED <<rx, receiver, owes>>
    <2>1. ASSUME NEW x \in Transfers, x <= up PROVE x <= up'
      BY <1>1, <2>1, Numbers DEF FlowInv
    <2>2. QED  BY <1>1, <1>2, <2>1 DEF EndsWell
  <1>3. CASE processShimReq
    <2>1. UNCHANGED <<rx, receiver>> /\ arriving # <<>>
      BY <1>3 DEF processShimReq, receiving
    <2>2. owes' = owes
      BY <1>3, <2>1, NeverFull DEF processShimReq
    <2>3. QED  BY <1>2, <2>1, <2>2
  <1>4. CASE processFileTxReq
    <2>1. receiver = "running" /\ receiver' = receiver /\ owes' = owes
      BY <1>4 DEF processFileTxReq, Message
    <2>2. QED  BY <2>1 DEF EndsWell
  <1>5. CASE processFileBlockReq
    <2> DEFINE m == queue[1]
    <2> DEFINE x == queue[1].x
    <2> DEFINE b == use.blocks
    <2>1. /\ queue # <<>> /\ x \in Transfers /\ m \in Messages /\ m.id = "FILE_BLOCK_REQ"
          /\ MsgOK(b, up, tx, rx, m) /\ receiver = "running" /\ owes' = owes /\ up' = up
      BY <1>5, BlockReqStep
    <2>2. \/ /\ m.block = 0 /\ receiver' \in {"running", "exited"}
             /\ rx' = [rx EXCEPT ![x].fd = "closed"]
          \/ m.block # 0 /\ receiver' = receiver
          \/ m.block # 0 /\ receiver' = "aborted"
      BY <1>5, BlockReqStep
    <2>3. CASE /\ m.block = 0 /\ receiver' \in {"running", "exited"}
               /\ rx' = [rx EXCEPT ![x].fd = "closed"]
      <3>1. rx \in [Transfers -> [fd : {"absent", "none", "open", "closed"}, at : 0..b]]
        BY DEF FlowInv, TypeOK
      <3>2. rx'[x].fd = "closed" /\ x <= up
        BY <2>1, <2>3, <3>1 DEF MsgOK
      <3> HIDE DEF x
      <3>3. QED  BY <1>1, <2>1, <2>3, <3>2 DEF EndsWell
    <2>4. CASE receiver' = receiver
      BY <2>1, <2>4 DEF EndsWell
    <2>5. CASE m.block # 0 /\ receiver' = "aborted"
      <3>1. 1 \in 1..Len(queue) /\ Head(queue) = m
        BY <2>1, QueueTail
      <3>2. rx[x].fd # "absent" /\ (Rank(b, m) = 1 => m.first)
        BY <2>1, <3>1 DEF AskInv, AsksOK, AsksSeq, Asks
      <3>3. ~(m.first /\ rx[x].fd = "none") /\ rx[x].fd # "open"
        BY <1>5, <2>1, <2>5, <3>1 DEF processFileBlockReq
      <3>4. FileOK /\ NothingMissing
        BY <2>1 DEF RoomInv
      <3>5. Rank(b, m) = rx[x].at + 1
        BY <2>1, <3>4, NextBlock
      <3>6. rx[x].at \in Nat /\ b \in Nat /\ m.block \in 0..b /\ m.block = rx[x].at + 1
        BY <2>1, <2>5, <3>5, AtNat, Numbers DEF FlowInv, Messages, Rank
      <3>7. rx[x].fd # "closed"
        <4>1. rx[x].fd = "closed" => rx[x].at = b
          BY <2>1, <3>4 DEF FileOK
        <4>2. QED  BY <3>6, <4>1
      <3>8. rx[x].fd = "none" /\ ~m.first
        <4>1. rx[x].fd \in {"absent", "none", "open", "closed"}
          BY <2>1 DEF FlowInv, TypeOK
        <4>2. QED  BY <3>2, <3>3, <3>7, <4>1
      <3>9. ~(rx[x].at > 0)
        BY <2>1, <3>8 DEF AskInv, FilesOpen
      <3>10. Rank(b, m) = 1
        BY <3>5, <3>6, <3>9
      <3>11. QED  BY <3>2, <3>8, <3>10
    <2>6. QED  BY <2>2, <2>3, <2>4, <2>5
  <1>6. QED
    BY <1>2, <1>3, <1>4, <1>5 DEF vars, Next, Step, peerStateChanged, processFileTxRep,
       processFileBlockRep, RepRecv, processJoinRep, Disconnect, receiving

\* A transfer goes from place to place: the sender's bundle, what the receiver reads,
\* its queue, the reply.
LEMMA UnderwayUp ==
  ASSUME FlowInv, peerStateChanged, NEW x \in Transfers, x <= up'
  PROVE  Underway(x)' \/ (x <= up /\ (Underway(x) => Underway(x)'))
  <1> DEFINE b == <<One("FILE_TX_REQ", up + 1)>>
  <1>1. /\ tx' = tx /\ arriving' = arriving /\ queue' = queue
        /\ back' = back /\ out' = Append(out, b) /\ up' = up + 1
    BY DEF peerStateChanged
  <1>2. up \in Nat /\ x \in Nat /\ out \in Seq(Seq(Messages))
    BY Held, Numbers DEF FlowInv
  <1>3. b \in Seq(Messages) /\ b[1].x = up + 1
    <2>1. up + 1 \in Transfers /\ 0 \in 0..use.blocks
      BY <1>2, Numbers DEF Transfers, FlowInv, peerStateChanged
    <2>2. One("FILE_TX_REQ", up + 1) \in Messages /\ One("FILE_TX_REQ", up + 1).x = up + 1
      BY <2>1 DEF One, Messages
    <2>3. QED  BY <2>2
  <1> HIDE DEF b
  <1>4. /\ Len(out) + 1 \in 1..Len(out') /\ out'[Len(out) + 1] = b
        /\ \A k \in 1..Len(out) : k \in 1..Len(out') /\ out'[k] = out[k]
    BY <1>1, <1>2, <1>3, AppendFacts
  <1>5. CASE x = up + 1
    BY <1>3, <1>4, <1>5 DEF Underway
  <1>6. CASE x # up + 1
    <2>1. x <= up
      BY <1>1, <1>2, <1>6
    <2>2. Underway(x) => Underway(x)'
      BY <1>1, <1>4 DEF Underway
    <2>3. QED  BY <2>1, <2>2
  <1>7. QED  BY <1>5, <1>6

\* The bundle that answers a reply.
LEMMA UnderwayRender ==
  ASSUME FlowInv, connected, back # <<>>, NEW n \in 1..(use.blocks + 1),
         renderFileBlockBundle(back[1].x, n), back' = Tail(back),
         UNCHANGED <<arriving, queue>>, NEW x \in Transfers, Underway(x)
  PROVE  Underway(x)'
  <1> DEFINE y == back[1].x
  <1> DEFINE b == Bundle(y, n)
  <1>1. /\ y \in Transfers /\ back \in Seq(Messages) /\ out \in Seq(Seq(Messages))
        /\ Len(back) \in Nat
        /\ \A i \in 1..Len(back) : i = 1 \/ (i - 1 \in 1..Len(back') /\ back'[i - 1] = back[i])
    <2>1. back \in Seq(Messages) /\ out \in Seq(Seq(Messages))
      BY Held
    <2>2. y \in Transfers
      BY BackTail
    <2>3. /\ Len(back) \in Nat /\ Len(back') = Len(back) - 1
          /\ \A i \in 1..Len(back') : back'[i] = back[i + 1]
      BY <2>1, TailFacts
    <2>4. QED  BY <2>1, <2>2, <2>3
  <1>2. b \in Seq(Messages) /\ b[1].x = y
    <2>1. /\ b \in Seq(Messages) /\ Len(b) \in 1..FILE_BUNDLE_SIZE
          /\ \A i \in 1..Len(b) : b[i].x = y
      BY <1>1, BundleShape DEF FlowInv
    <2> HIDE DEF b
    <2>2. 1 \in 1..Len(b)
      BY <2>1, Numbers DEF FlowInv
    <2>3. QED  BY <2>1, <2>2
  <1>3. out' = Append(out, b) /\ tx \in [Transfers -> [fd : {"none", "open", "closed"}, next : Nat]]
    BY DEF renderFileBlockBundle, Sent, FlowInv, TypeOK
  <1>4. \A z \in Transfers : z # y => tx'[z] = tx[z]
    BY <1>1, <1>3 DEF renderFileBlockBundle
  <1> HIDE DEF b
  <1>5. /\ Len(out) + 1 \in 1..Len(out') /\ out'[Len(out) + 1] = b
        /\ \A k \in 1..Len(out) : k \in 1..Len(out') /\ out'[k] = out[k]
    BY <1>1, <1>2, <1>3, AppendFacts
  <1>6. CASE x = y
    BY <1>2, <1>5, <1>6 DEF Underway
  <1>7. CASE x # y
    <2>1. CASE \E i \in 1..Len(back) : back[i].x = x /\ tx[x].fd # "closed"
      <3>1. PICK i \in 1..Len(back) : back[i].x = x /\ tx[x].fd # "closed"
        BY <2>1
      <3>2. i - 1 \in 1..Len(back') /\ back'[i - 1].x = x /\ tx'[x].fd # "closed"
        BY <1>1, <1>4, <1>7, <3>1
      <3>3. QED  BY <3>2 DEF Underway
    <2>2. CASE \/ \E k \in 1..Len(out) : out[k][1].x = x
               \/ arriving # <<>> /\ arriving[1].x = x
               \/ \E i \in 1..Len(queue) : queue[i].x = x /\ queue[i].last
      BY <1>5, <2>2 DEF Underway
    <2>3. QED  BY <2>1, <2>2 DEF Underway
  <1>8. QED  BY <1>6, <1>7

\* The reply to the request leads to the first bundle.
LEMMA UnderwayTxRep ==
  ASSUME FlowInv, connected, processFileTxRep, NEW x \in Transfers, Underway(x)
  PROVE  Underway(x)'
  <1>1. /\ back # <<>> /\ Head(back) = back[1] /\ renderFileBlockBundle(back[1].x, 1)
        /\ back' = Tail(back) /\ UNCHANGED <<arriving, queue>>
    BY BackTail DEF processFileTxRep
  <1>2. 1 \in 1..(use.blocks + 1)
    BY Numbers DEF FlowInv
  <1>3. QED  BY <1>1, <1>2, UnderwayRender

\* The request for the next bundle leads to it.
LEMMA UnderwayBlockRep ==
  ASSUME FlowInv, connected, processFileBlockRep, NEW x \in Transfers, Underway(x)
  PROVE  Underway(x)'
  <1> DEFINE y == back[1].x
  <1>1. /\ back # <<>> /\ Head(back) = back[1] /\ y \in Transfers
        /\ back' = Tail(back) /\ UNCHANGED <<arriving, queue>>
    BY BackTail DEF processFileBlockRep
  <1>2. CASE tx[y].fd # "closed"
    <2>1. /\ tx[y].next \in Nat /\ use.blocks \in Nat
          /\ tx[y].next >= 1 /\ tx[y].next <= use.blocks + 1
      BY <1>1, <1>2, Numbers DEF FlowInv, TypeOK, TransferOK
    <2>2. tx[y].next \in 1..(use.blocks + 1) /\ renderFileBlockBundle(y, tx[y].next)
      BY <1>1, <1>2, <2>1 DEF processFileBlockRep
    <2>3. QED  BY <1>1, <2>2, UnderwayRender
  <1>3. CASE tx[y].fd = "closed"
    <2>1. out' = out /\ tx' = tx
      BY <1>1, <1>3 DEF processFileBlockRep
    <2>2. \A i \in 1..Len(back) : i = 1 \/ (i - 1 \in 1..Len(back') /\ back'[i - 1] = back[i])
      <3>1. back \in Seq(Messages)
        BY Held
      <3>2. /\ Len(back) \in Nat /\ Len(back') = Len(back) - 1
            /\ \A i \in 1..Len(back') : back'[i] = back[i + 1]
        BY <1>1, <3>1, TailFacts
      <3>3. QED  BY <3>2
    <2>3. CASE \E i \in 1..Len(back) : back[i].x = x /\ tx[x].fd # "closed"
      <3>1. PICK i \in 1..Len(back) : back[i].x = x /\ tx[x].fd # "closed"
        BY <2>3
      <3>2. i - 1 \in 1..Len(back') /\ back'[i - 1].x = x
        BY <1>3, <2>2, <3>1
      <3>3. QED  BY <2>1, <3>1, <3>2 DEF Underway
    <2>4. CASE ~(\E i \in 1..Len(back) : back[i].x = x /\ tx[x].fd # "closed")
      BY <1>1, <2>1, <2>4 DEF Underway
    <2>5. QED  BY <2>3, <2>4
  <1>4. QED  BY <1>2, <1>3

\* A bundle that is read is still on the way.
LEMMA UnderwayRecv ==
  ASSUME FlowInv, RepRecv, NEW x \in Transfers, Underway(x)
  PROVE  Underway(x)'
  <1>1. /\ tx' = tx /\ queue' = queue /\ back' = back /\ arriving = <<>>
        /\ out # <<>> /\ arriving' = Head(out) /\ out' = Tail(out)
    BY DEF RepRecv, sender
  <1>2. out \in Seq(Seq(Messages)) /\ \A k \in 1..Len(out) : 1 \in 1..Len(out[k])
    BY Held
  <1>3. /\ Head(out) = out[1] /\ Len(out) \in Nat /\ Len(out) >= 1 /\ Len(out') = Len(out) - 1
        /\ \A k \in 1..Len(out') : out'[k] = out[k + 1]
    BY <1>1, <1>2, TailFacts
  <1>4. arriving' # <<>>
    <2>1. 1 \in 1..Len(arriving')
      BY <1>1, <1>2, <1>3
    <2>2. QED  BY <2>1
  <1>5. CASE \E k \in 1..Len(out) : out[k][1].x = x
    <2>1. PICK k \in 1..Len(out) : out[k][1].x = x
      BY <1>5
    <2>2. CASE k = 1
      BY <1>1, <1>3, <1>4, <2>1, <2>2 DEF Underway
    <2>3. CASE k # 1
      <3>1. k - 1 \in 1..Len(out') /\ out'[k - 1] = out[k]
        BY <1>3, <2>3
      <3>2. QED  BY <2>1, <3>1 DEF Underway
    <2>4. QED  BY <2>2, <2>3
  <1>6. CASE ~(\E k \in 1..Len(out) : out[k][1].x = x)
    BY <1>1, <1>6 DEF Underway
  <1>7. QED  BY <1>5, <1>6

\* With room the last message of a bundle reaches the queue.
LEMMA UnderwayShim ==
  ASSUME FlowInv, Room, processShimReq, NEW x \in Transfers, Underway(x)
  PROVE  Underway(x)'
  <1>1. /\ tx' = tx /\ out' = out /\ back' = back /\ arriving # <<>> /\ arriving' = Tail(arriving)
    BY DEF processShimReq, sender
  <1>2. /\ Head(arriving) = arriving[1] /\ arriving[1] \in Messages /\ 1 \in 1..Len(arriving)
        /\ Tail(arriving) # <<>> => Tail(arriving)[1].x = arriving[1].x
    BY <1>1, ArrivingTail
  <1>3. queue' = Append(queue, arriving[1]) /\ queue \in Seq(Messages)
    BY <1>1, <1>2, NeverFull, Held DEF processShimReq
  <1>4. /\ Len(queue) + 1 \in 1..Len(queue') /\ queue'[Len(queue) + 1] = arriving[1]
        /\ \A i \in 1..Len(queue) : i \in 1..Len(queue') /\ queue'[i] = queue[i]
    BY <1>2, <1>3, AppendFacts
  <1>5. Tail(arriving) = <<>> => arriving[1].last
    <2>1. arriving \in Seq(Messages)
      BY Held
    <2>2. Len(arriving) \in Nat /\ Tail(arriving) \in Seq(Messages) /\ Len(Tail(arriving)) = Len(arriving) - 1
      BY <1>1, <2>1, TailFacts
    <2>3. arriving[1].last <=> 1 = Len(arriving)
      BY <1>2 DEF FlowInv, LineOK, BundleLike
    <2>4. Tail(arriving) = <<>> => Len(Tail(arriving)) = 0
      BY <2>2, EmptySeq
    <2>5. QED  BY <2>2, <2>3, <2>4
  <1>6. CASE arriving[1].x = x
    <2>1. CASE Tail(arriving) = <<>>
      BY <1>4, <1>5, <1>6, <2>1 DEF Underway
    <2>2. CASE Tail(arriving) # <<>>
      BY <1>1, <1>2, <1>6, <2>2 DEF Underway
    <2>3. QED  BY <2>1, <2>2
  <1>7. CASE arriving[1].x # x
    BY <1>1, <1>4, <1>7 DEF Underway
  <1>8. QED  BY <1>6, <1>7

\* The first message of the queue is taken: what is left of other transfers.
LEMMA UnderwayTake ==
  ASSUME FlowInv, queue # <<>>, queue' = Tail(queue), UNCHANGED <<tx, out, arriving>>,
         back' = back \/ \E m \in Messages : back' = Append(back, m),
         NEW x \in Transfers, Underway(x), queue[1].x # x \/ ~queue[1].last
  PROVE  Underway(x)'
  <1>1. queue \in Seq(Messages) /\ back \in Seq(Messages)
    BY Held
  <1>2. /\ Len(queue) \in Nat /\ Len(queue') = Len(queue) - 1
        /\ \A i \in 1..Len(queue') : queue'[i] = queue[i + 1]
    BY <1>1, TailFacts
  <1>3. \A i \in 1..Len(back) : i \in 1..Len(back') /\ back'[i] = back[i]
    <2>1. CASE back' = back
      BY <2>1
    <2>2. ASSUME NEW m \in Messages, back' = Append(back, m)
          PROVE  \A i \in 1..Len(back) : i \in 1..Len(back') /\ back'[i] = back[i]
      BY <1>1, <2>2, AppendFacts
    <2>3. QED  BY <2>1, <2>2
  <1>4. CASE \E i \in 1..Len(queue) : queue[i].x = x /\ queue[i].last
    <2>1. PICK i \in 1..Len(queue) : queue[i].x = x /\ queue[i].last
      BY <1>4
    <2>2. i # 1
      BY <2>1
    <2>3. i - 1 \in 1..Len(queue') /\ queue'[i - 1] = queue[i]
      BY <1>2, <2>2
    <2>4. QED  BY <2>1, <2>3 DEF Underway
  <1>5. CASE ~(\E i \in 1..Len(queue) : queue[i].x = x /\ queue[i].last)
    BY <1>3, <1>5 DEF Underway
  <1>6. QED  BY <1>4, <1>5

\* The request leads to its reply, unless the receiver is not joined.
LEMMA UnderwayTxReq ==
  ASSUME FlowInv, AskInv, processFileTxReq,
         NEW x \in Transfers, rx[x].fd = "closed" \/ Underway(x)
  PROVE  rx'[x].fd = "closed" \/ Underway(x)' \/ (~joined /\ rx'[x].fd # "absent")
  <1> DEFINE y == queue[1].x
  <1>1. /\ queue # <<>> /\ queue' = Tail(queue) /\ UNCHANGED <<tx, out, arriving>>
        /\ back' = (IF joined THEN Append(back, One("FILE_TX_REP", y)) ELSE back)
        /\ queue[1].id = "FILE_TX_REQ" /\ rx' = [rx EXCEPT ![y].fd = "none"]
    BY QueueTail DEF processFileTxReq, Message, Replied, sender
  <1>2. y \in Transfers /\ MsgOK(use.blocks, up, tx, rx, queue[1])
    BY <1>1, QueueTail
  <1>3. One("FILE_TX_REP", y) \in Messages /\ One("FILE_TX_REP", y).x = y
    <2>1. 0 \in 0..use.blocks
      BY Numbers DEF FlowInv
    <2>2. QED  BY <1>2, <2>1 DEF One, Messages
  <1>4. tx[y].fd # "closed"
    <2>1. tx[y].next = 1
      BY <1>1, <1>2 DEF MsgOK, Fits
    <2>2. QED  BY <1>2, <2>1 DEF AskInv, FilesOpen
  <1>5. rx \in [Transfers -> [fd : {"absent", "none", "open", "closed"}, at : 0..use.blocks]]
    BY DEF FlowInv, TypeOK
  <1> HIDE DEF y
  <1>6. CASE x = y
    <2>1. rx'[x].fd = "none"
      BY <1>1, <1>2, <1>5, <1>6
    <2>2. CASE joined
      <3>1. back \in Seq(Messages)
        BY Held
      <3>2. Len(back) + 1 \in 1..Len(back') /\ back'[Len(back) + 1].x = y
        BY <1>1, <1>3, <2>2, <3>1, AppendFacts
      <3>3. QED  BY <1>1, <1>4, <1>6, <3>2 DEF Underway
    <2>3. QED  BY <2>1, <2>2
  <1>7. CASE x # y
    <2>1. rx'[x] = rx[x]
      BY <1>1, <1>2, <1>5, <1>7
    <2>2. back' = back \/ \E m \in Messages : back' = Append(back, m)
      BY <1>1, <1>3
    <2>3. Underway(x) => Underway(x)'
      BY <1>1, <1>7, <2>2, UnderwayTake DEF y
    <2>4. QED  BY <2>1, <2>3
  <1>8. QED  BY <1>6, <1>7

\* The last message of a bundle asks for the next one or closes the file, unless
\* the receiver is not joined.
LEMMA UnderwayBlockReq ==
  ASSUME FlowInv, AskInv, processFileBlockReq, receiver' # "aborted",
         NEW x \in Transfers, rx[x].fd = "closed" \/ Underway(x)
  PROVE  rx'[x].fd = "closed" \/ Underway(x)' \/ (~joined /\ rx'[x].fd # "absent")
  <1> DEFINE m == queue[1]
  <1> DEFINE y == queue[1].x
  <1>1. /\ queue # <<>> /\ queue' = Tail(queue) /\ UNCHANGED <<use, tx, out, arriving>>
        /\ y \in Transfers /\ m.id = "FILE_BLOCK_REQ" /\ m \in Messages
        /\ back' = back \/ back' = Append(back, One("FILE_BLOCK_REP", y))
    BY BlockReqStep
  <1>2. \/ m.block = 0 /\ rx' = [rx EXCEPT ![y].fd = "closed"]
        \/ m.block # 0 /\ rx' = [rx EXCEPT ![y] = [fd |-> "open", at |-> rx[y].at + 1]]
    BY BlockReqStep
  <1>3. rx \in [Transfers -> [fd : {"absent", "none", "open", "closed"}, at : 0..use.blocks]]
    BY DEF FlowInv, TypeOK
  <1>4. One("FILE_BLOCK_REP", y) \in Messages /\ One("FILE_BLOCK_REP", y).x = y
    <2>1. 0 \in 0..use.blocks
      BY Numbers DEF FlowInv
    <2>2. QED  BY <1>1, <2>1 DEF One, Messages
  <1>5. 1 \in 1..Len(queue) /\ Head(queue) = m
    BY <1>1, QueueTail
  <1>6. m.block # 0 => rx[y].fd # "closed"
    <2>1. SUFFICES ASSUME m.block # 0 PROVE rx[y].fd # "closed"
      OBVIOUS
    <2>2. (IF m.first /\ rx[y].fd = "none" THEN "open" ELSE rx[y].fd) = "open"
      BY <1>5, <2>1 DEF processFileBlockReq
    <2>3. QED  BY <2>2
  <1>7. CASE x # y
    <2>1. rx'[x] = rx[x]
      BY <1>1, <1>2, <1>3, <1>7
    <2>2. Underway(x) => Underway(x)'
      BY <1>1, <1>4, <1>7, UnderwayTake
    <2>3. QED  BY <2>1, <2>2
  <1>8. CASE x = y /\ m.block = 0
    BY <1>1, <1>2, <1>3, <1>8
  <1>9. CASE x = y /\ m.block # 0 /\ ~m.last
    BY <1>1, <1>4, <1>6, <1>9, UnderwayTake
  <1>10. CASE x = y /\ m.block # 0 /\ m.last
    <2>1. ~m.first /\ tx[y].fd # "closed"
      BY <1>1, <1>5, <1>10 DEF AskInv, AsksOK, AsksSeq, Asks
    <2>2. rx'[x].fd = "open"
      BY <1>1, <1>2, <1>3, <1>10
    <2>3. CASE joined
      <3>1. back' = Append(back, One("FILE_BLOCK_REP", y)) /\ back \in Seq(Messages)
        BY <1>5, <1>10, <2>1, <2>3, Held DEF processFileBlockReq, AsksForMore, Replied
      <3>2. Len(back) + 1 \in 1..Len(back') /\ back'[Len(back) + 1].x = y
        BY <1>4, <3>1, AppendFacts
      <3>3. tx'[x].fd # "closed"
        BY <1>1, <1>10, <2>1
      <3>4. QED  BY <1>10, <3>2, <3>3 DEF Underway
    <2>4. QED  BY <2>2, <2>3
  <1>11. QED  BY <1>7, <1>8, <1>9, <1>10

\* A step forgets a transfer only where a session is lost, or where a receiver that
\* is not joined drops its reply.
LEMMA UnderwayStep ==
  ASSUME FlowInv, AskInv, Room, Session, connected, receiver' # "aborted", [Next]_vars, drops' = 0,
         NEW x \in Transfers, rx[x].fd = "closed" \/ Underway(x)
  PROVE  rx'[x].fd = "closed" \/ Underway(x)' \/ (~joined /\ rx'[x].fd # "absent")
  <1>1. CASE peerStateChanged
    BY <1>1 DEF peerStateChanged
  <1>2. CASE Disconnect
    <2>1. drops' = drops + 1
      BY <1>2 DEF Disconnect
    <2>2. QED  BY <2>1 DEF Session
  <1>3. CASE processFileTxRep
    <2>1. rx' = rx
      BY <1>3 DEF processFileTxRep, receiving
    <2>2. QED  BY <1>3, <2>1, UnderwayTxRep
  <1>4. CASE processFileBlockRep
    <2>1. rx' = rx
      BY <1>4 DEF processFileBlockRep, receiving
    <2>2. QED  BY <1>4, <2>1, UnderwayBlockRep
  <1>5. CASE RepRecv
    <2>1. rx' = rx
      BY <1>5 DEF RepRecv, receiving
    <2>2. QED  BY <1>5, <2>1, UnderwayRecv
  <1>6. CASE processShimReq
    <2>1. rx' = rx
      BY <1>6 DEF processShimReq, receiving
    <2>2. QED  BY <1>6, <2>1, UnderwayShim
  <1>7. CASE processFileTxReq
    BY <1>7, UnderwayTxReq
  <1>8. CASE processFileBlockReq
    BY <1>8, UnderwayBlockReq
  <1>9. CASE UNCHANGED vars \/ processJoinRep
    <2>1. /\ rx' = rx /\ tx' = tx /\ out' = out /\ arriving' = arriving
          /\ queue' = queue /\ back' = back
      BY <1>9 DEF vars, processJoinRep, sender
    <2>2. QED  BY <2>1 DEF Underway
  <1>10. QED
    BY <1>1, <1>2, <1>3, <1>4, <1>5, <1>6, <1>7, <1>8, <1>9 DEF Next, Step

\* A transfer that the receiver knows stays known.
LEMMA AbsentBefore ==
  ASSUME FlowInv, [Next]_vars, NEW x \in Transfers, rx'[x].fd = "absent"
  PROVE  rx[x].fd = "absent"
  <1>1. CASE rx' = rx
    BY <1>1
  <1>2. rx \in [Transfers -> [fd : {"absent", "none", "open", "closed"}, at : 0..use.blocks]]
    BY DEF FlowInv, TypeOK
  <1>3. CASE processFileTxReq
    <2> DEFINE y == queue[1].x
    <2>1. queue # <<>> /\ rx' = [rx EXCEPT ![y].fd = "none"]
      BY <1>3, QueueTail DEF processFileTxReq, Message
    <2> HIDE DEF y
    <2>2. QED  BY <1>2, <2>1
  <1>4. CASE processFileBlockReq
    <2> DEFINE y == queue[1].x
    <2>1. \/ rx' = [rx EXCEPT ![y].fd = "closed"]
          \/ rx' = [rx EXCEPT ![y] = [fd |-> "open", at |-> rx[y].at + 1]]
          \/ rx' = rx
      BY <1>4, BlockReqStep
    <2> HIDE DEF y
    <2>2. QED  BY <1>2, <2>1
  <1>5. QED
    BY <1>1, <1>3, <1>4 DEF vars, Next, Step, peerStateChanged, processFileTxRep,
       processFileBlockRep, RepRecv, processShimReq, processJoinRep, Disconnect, receiving

\* The sender of a transfer that is begun is connected while no session is lost.
LEMMA StillUp ==
  ASSUME FlowInv, Session, [Next]_vars, drops' = 0
  PROVE  /\ drops = 0 /\ (peerStateChanged \/ up' = up)
         /\ up > 0 => connected /\ up' = up /\ (joined => joined')
  <1>1. ~Disconnect
    <2>1. Disconnect => drops' = drops + 1
      BY DEF Disconnect
    <2>2. QED  BY <2>1 DEF Session
  <1>2. drops = 0 /\ (peerStateChanged \/ up' = up)
    BY <1>1 DEF vars, Next, Step, peerStateChanged, processFileTxRep, processFileBlockRep,
       RepRecv, processShimReq, processJoinRep, processFileTxReq, processFileBlockReq, sender
  <1>3. up > 0 => connected
    BY <1>2 DEF Session
  <1>4. joined => joined'
    BY <1>1 DEF vars, Next, Step, peerStateChanged, processFileTxRep, processFileBlockRep,
       RepRecv, processShimReq, processJoinRep, processFileTxReq, processFileBlockReq, receiving
  <1>5. connected => ~peerStateChanged
    BY DEF peerStateChanged
  <1>6. QED  BY <1>2, <1>3, <1>4, <1>5

\* A request is on the way until the receiver knows the transfer.
LEMMA RequestedStep ==
  ASSUME FlowInv, AskInv, Room, Session, Requested, receiver' # "aborted", [Next]_vars
  PROVE  Requested'
  <1>1. Transfers' = Transfers /\ up \in Nat /\ \A x \in Transfers : x \in Nat /\ x >= 1
    <2>1. use' = use
      BY DEF vars, Next, Step, peerStateChanged, processFileTxRep, processFileBlockRep, RepRecv,
             processShimReq, processJoinRep, processFileTxReq, processFileBlockReq, Disconnect
    <2>2. QED  BY <2>1, SameUse, Held, Numbers DEF FlowInv, Transfers
  <1> SUFFICES ASSUME drops' = 0, NEW x \in Transfers, x <= up', rx'[x].fd = "absent"
               PROVE  Underway(x)'
    BY <1>1 DEF Requested
  <1>2. drops = 0 /\ rx[x].fd = "absent"
    BY StillUp, AbsentBefore
  <1>3. x <= up => Underway(x)
    BY <1>2 DEF Requested
  <1>4. CASE peerStateChanged
    BY <1>3, <1>4, UnderwayUp
  <1>5. CASE up' = up
    <2>1. up > 0 /\ Underway(x)
      BY <1>1, <1>3, <1>5
    <2>2. connected
      BY <2>1, StillUp
    <2>3. QED  BY <2>1, <2>2, UnderwayStep
  <1>6. QED  BY <1>4, <1>5, StillUp

\* What holds with room for a bundle of each transfer.
ProgressInv == AskInv /\ Session /\ (Room => EndsWell /\ Requested)

\* At first no transfer has begun.
LEMMA ProgressInit == ASSUME Init PROVE ProgressInv
  <1>1. up = 0 /\ drops = 0 /\ connected = FALSE /\ receiver = "running" /\ owes = FALSE
    BY DEF Init
  <1>2. \A x \in Transfers : ~(x <= up)
    <2>1. use.ups \in Nat
      BY UsesAssumption DEF Init
    <2>2. QED  BY <1>1, <2>1 DEF Transfers
  <1>3. Session
    BY <1>1 DEF Session
  <1>4. EndsWell /\ Requested
    BY <1>1, <1>2 DEF EndsWell, Requested
  <1>5. QED  BY <1>3, <1>4, AsksInit DEF ProgressInv

\* The use is fixed.
LEMMA SameRoom == ASSUME [Next]_vars PROVE Room' <=> Room
  <1>1. use' = use
    BY DEF vars, Next, Step, peerStateChanged, processFileTxRep, processFileBlockRep, RepRecv,
           processShimReq, processJoinRep, processFileTxReq, processFileBlockReq, Disconnect
  <1>2. QED  BY <1>1 DEF Room

\* Every step leaves them so.
LEMMA ProgressStep ==
  ASSUME FlowInv, RoomInv, ProgressInv, [Next]_vars
  PROVE  ProgressInv'
  <1>1. AskInv' /\ Session'
    BY AsksStep, SessionStep DEF ProgressInv
  <1>2. ASSUME Room PROVE EndsWell' /\ Requested'
    <2>1. EndsWell /\ Requested /\ AskInv /\ Session
      BY <1>2 DEF ProgressInv
    <2>2. EndsWell'
      BY <1>2, <2>1, EndsWellStep
    <2>3. receiver' # "aborted"
      BY <2>2 DEF EndsWell
    <2>4. QED  BY <1>2, <2>1, <2>2, <2>3, RequestedStep
  <1>3. QED  BY <1>1, <1>2, SameRoom DEF ProgressInv

\* They hold in every state.
LEMMA ProgressAlways == Spec => [](FlowInv /\ ProgressInv)
  <1>1. Init => RoomInv /\ ProgressInv
    BY RoomInit, ProgressInit
  <1>2. FlowInv /\ AskInv /\ RoomInv /\ ProgressInv /\ [Next]_vars => RoomInv' /\ ProgressInv'
    BY RoomStep, ProgressStep
  <1>3. QED  BY <1>1, <1>2, FlowAlways, AsksAlways, PTL DEF Spec

\* With room for a bundle of each transfer.
NeverAborts == Room => receiver # "aborted" /\ ~owes

\* processFileBlockReq never writes to a file that is not open (which would
\* abort the process), and the REP socket answers every bundle, whatever
\* sessions are lost and however many transfers of the file run at the same time.
THEOREM ReceiverNeverAborts == Spec => []NeverAborts
  <1>1. ProgressInv => NeverAborts
    BY DEF ProgressInv, EndsWell, NeverAborts
  <1>2. QED  BY <1>1, ProgressAlways, PTL

\* What TransferCompletes starts from: the request has not reached a receiver that is
\* joined.
Awaited == up > 0 /\ Room /\ joined /\ rx[1].fd = "absent"

\* What it needs of every state on the way to the end of the file.
TransferGoesOn ==
    drops = 0 /\ rx[1].fd # "closed" =>
        receiver = "running" /\ connected /\ joined /\ ~owes /\ Underway(1)

\* From there on both are joined and the transfer is closed or under way.
GoesOn == Room /\ (drops = 0 => up > 0 /\ joined /\ (rx[1].fd = "closed" \/ Underway(1)))

\* The first transfer.
LEMMA FirstTransfer == ASSUME FlowInv, up > 0 PROVE 1 \in Transfers /\ 1 <= up
  <1>1. use.ups \in Nat /\ up \in 0..use.ups
    BY Numbers DEF FlowInv, TypeOK
  <1>2. QED  BY <1>1 DEF Transfers

\* No step of such a state forgets the transfer.
LEMMA GoesOnStep ==
  ASSUME FlowInv, ProgressInv, ProgressInv', GoesOn, [Next]_vars
  PROVE  GoesOn'
  <1>1. Room /\ Room' /\ Session /\ AskInv /\ receiver' # "aborted"
    BY SameRoom DEF GoesOn, ProgressInv, EndsWell
  <1> SUFFICES ASSUME drops' = 0
               PROVE  up' > 0 /\ joined' /\ (rx'[1].fd = "closed" \/ Underway(1)')
    BY <1>1 DEF GoesOn
  <1>2. drops = 0
    BY <1>1, StillUp
  <1>3. up > 0 /\ joined /\ (rx[1].fd = "closed" \/ Underway(1))
    BY <1>2 DEF GoesOn
  <1>4. connected /\ up' = up /\ joined'
    BY <1>1, <1>3, StillUp
  <1>5. rx'[1].fd = "closed" \/ Underway(1)'
    BY <1>1, <1>3, <1>4, FirstTransfer, UnderwayStep
  <1>6. QED  BY <1>3, <1>4, <1>5

\* The safety half of TransferCompletes: once a request is on its way to a receiver
\* that is joined to the sender, a transfer that has not closed its file has, as long
\* as no session is lost, a message on the way that makes sender or receiver act;
\* both are joined, and the receiver runs and owes no reply.  What is left to
\* fairness is that such a message is taken.
THEOREM TransferNotForgotten == Spec => [](Awaited => []TransferGoesOn)
  <1>1. ASSUME FlowInv, ProgressInv, Awaited PROVE GoesOn
    <2>1. Requested /\ up > 0 /\ joined /\ Room
      BY <1>1 DEF ProgressInv, Awaited
    <2>2. drops = 0 => Underway(1)
      BY <1>1, <2>1, FirstTransfer DEF Requested, Awaited
    <2>3. QED  BY <2>1, <2>2 DEF GoesOn
  <1>2. ASSUME FlowInv, ProgressInv, GoesOn PROVE TransferGoesOn
    <2> SUFFICES ASSUME drops = 0, rx[1].fd # "closed"
                 PROVE  receiver = "running" /\ connected /\ joined /\ ~owes /\ Underway(1)
      BY DEF TransferGoesOn
    <2>1. up > 0 /\ joined /\ Underway(1) /\ EndsWell /\ Session
      BY <1>2 DEF GoesOn, ProgressInv
    <2>2. connected /\ up <= 1
      BY <2>1 DEF Session
    <2>3. use.ups \in Nat /\ up \in 0..use.ups
      BY <1>2, Numbers DEF FlowInv, TypeOK
    <2>4. \A x \in Transfers : x <= up => x = 1
      BY <2>2, <2>3 DEF Transfers
    <2>5. receiver \in {"running", "exited", "aborted"}
      BY <1>2 DEF FlowInv, TypeOK
    <2>6. receiver = "running" /\ ~owes
      BY <2>1, <2>4, <2>5 DEF EndsWell
    <2>7. QED  BY <2>1, <2>2, <2>6
  <1>3. FlowInv /\ ProgressInv /\ Awaited => GoesOn
    BY <1>1
  <1>4. FlowInv /\ ProgressInv /\ GoesOn => TransferGoesOn
    BY <1>2
  <1>5. FlowInv /\ ProgressInv /\ ProgressInv' /\ GoesOn /\ [Next]_vars => GoesOn'
    BY GoesOnStep
  <1>6. QED  BY <1>3, <1>4, <1>5, ProgressAlways, PTL DEF Spec
=============================================================================
