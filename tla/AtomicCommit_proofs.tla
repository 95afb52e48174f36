------------------------- MODULE AtomicCommit_proofs -------------------------
(***************************************************************************)
(* Durable commits, for any number of threads, tables and commits, any     *)
(* size of deep.trt and any way a crash may cut the files.                 *)
(*                                                                         *)
(* A commit that has returned survives a crash (AcknowledgedSurvive), when *)
(* deep.trt has a slot for every commit or only one thread commits over    *)
(* several tables; without that, or after a second crash, it may not.  The *)
(* argument is the group of performSynchronizeGlobally: when s_syncCount   *)
(* reaches 0 nobody is between its first log entry and its identifier, so  *)
(* what is synchronised then is complete by the deep.trt that is           *)
(* synchronised with it, and recovery does not stop before it.             *)
(*                                                                         *)
(* After any number of crashes of the process a commit is in all of its    *)
(* tables or in none (AllOrNothingHolds), when one thread commits over     *)
(* several tables.  Both rest on deep.trt being a ring in the order of the *)
(* identifiers (RingInv): what it forgets is below all that it keeps, and  *)
(* recovery takes that for complete.                                       *)
(*                                                                         *)
(* Whatever crashes and however deep.trt wraps, no commit is left waiting  *)
(* for a group that is over (NobodyLeftWaiting), and none comes to its     *)
(* second phase before its logs are synchronised (ReturnsDurable).         *)
(***************************************************************************)
EXTENDS AtomicCommit, FiniteSetTheorems, SequenceTheorems, WellFoundedInduction, TLAPS

-----------------------------------------------------------------------------
(* Least and greatest elements *)

\* Min returns the least element of a set of numbers.
LEMMA MinIsLeast ==
  ASSUME NEW S \in SUBSET Nat, S # {}
  PROVE  Min(S) \in S /\ \A x \in S : Min(S) <= x
  <1>1. PICK m \in S : \A y \in S : ~(<<y, m>> \in OpToRel(<, Nat))
    BY NatLessThanWellFounded, WFMin
  <1>2. \A y \in S : ~(y < m)
    BY <1>1 DEF OpToRel
  <1>3. \A y \in S : m <= y
    BY <1>2
  <1>4. QED  BY <1>1, <1>3 DEF Min

\* Max returns the greatest element of a bounded set of numbers.
LEMMA MaxIsGreatest ==
  ASSUME NEW S \in SUBSET Nat, S # {}, NEW n \in Nat, \A x \in S : x <= n
  PROVE  Max(S) \in S /\ \A x \in S : x <= Max(S)
  <1> DEFINE U == {m \in Nat : \A x \in S : x <= m}
  <1>1. U \in SUBSET Nat /\ U # {}
    OBVIOUS
  <1>2. PICK m \in U : \A y \in U : ~(<<y, m>> \in OpToRel(<, Nat))
    BY <1>1, NatLessThanWellFounded, WFMin
  <1>3. \A y \in U : ~(y < m)
    BY <1>1, <1>2 DEF OpToRel
  <1>4. m \in S
    <2> SUFFICES ASSUME m \notin S PROVE FALSE
      OBVIOUS
    <2>1. m \in Nat /\ \A x \in S : x \in Nat /\ x <= m /\ x # m
      BY <1>2
    <2>2. \A x \in S : m - 1 \in Nat /\ x <= m - 1
      BY <2>1
    <2>3. PICK x0 \in S : TRUE
      OBVIOUS
    <2>4. m - 1 \in Nat /\ m - 1 < m
      BY <2>1, <2>2, <2>3
    <2>5. m - 1 \in U
      BY <2>2, <2>4
    <2>6. QED  BY <1>3, <2>4, <2>5
  <1>5. \A x \in S : m >= x
    BY <1>2
  <1>6. \E x \in S : \A y \in S : x >= y
    BY <1>4, <1>5
  <1>7. Max(S) \in S /\ \A y \in S : Max(S) >= y
    BY <1>6 DEF Max
  <1>8. QED  BY <1>7

-----------------------------------------------------------------------------
(* Types, threads and the group that synchronises together *)

PCs == {"idle", "id", "phase1", "perform", "waiting", "phase2"}

Commit == [number : Nat, id : Nat]

\* A number that no identifier in deep.trt exceeds.
Bounded == \E n \in Nat : \A s \in Slots : trt.slots[s] <= n /\ trtSafe[s] <= n

DiskType ==
    /\ use \in Uses
    /\ log \in [Tables -> Seq(Commit)]
    /\ logSafe \in [Tables -> Nat] /\ \A b \in Tables : logSafe[b] <= Len(log[b])
    /\ trt \in [exists : BOOLEAN, slots : [Slots -> Nat]]
    /\ trtSafe \in [Slots -> Nat] /\ pos \in Slots
    /\ Bounded

MemoryType ==
    /\ mode \in {"none", "READ", "WRITE"} /\ sequence \in Nat
    /\ mounted \subseteq Tables /\ syncFiles \subseteq Tables \cup {0}
    /\ pc \in [Threads -> PCs]
    /\ current \in [Threads -> Commit]
    /\ todo \in [Threads -> SUBSET Tables]
    /\ made \in Seq(SUBSET Tables) /\ acked \subseteq DOMAIN made /\ crashes \in Nat

\* A thread that commits over several tables, from plan on.
Cross(t) == pc[t] = "id" \/ current[t].id # 0

\* What a thread works on; commits begin when every table has been recovered.
ThreadOK(t) ==
    /\ pc[t] = "idle" => current[t] = NoCommit
    /\ pc[t] # "idle" =>
          /\ current[t].number \in DOMAIN made
          /\ made[current[t].number] \in use.tables[t]
          /\ todo[t] \subseteq made[current[t].number]
          /\ Cross(t) <=> Cardinality(made[current[t].number]) > 1
          /\ mounted = Tables
    /\ pc[t] \notin {"id", "phase1"} => todo[t] = {}
    /\ pc[t] = "id" => current[t].id = 0 /\ todo[t] = made[current[t].number]
    /\ current[t].id # 0 => mode = "WRITE"

Distinct ==
    \A t, u \in Threads :
        pc[t] # "idle" /\ pc[u] # "idle" /\ current[t].number = current[u].number => t = u

\* What a thread has logged is in the logs.
Logged(t) ==
    pc[t] # "idle" =>
        \A b \in made[current[t].number] \ todo[t] : Has(b, current[t].number)

\* s_syncCount counts the commits between plan and perform.
Busy == {"id", "phase1", "perform"}
Counted == {t \in Threads : pc[t] \in Busy}
SyncInv == syncCount = Cardinality(Counted)

BaseInv ==
    /\ DiskType /\ MemoryType
    /\ \A t \in Threads : ThreadOK(t) /\ Logged(t)
    /\ Distinct /\ SyncInv

\* The identifiers of deep.trt are bounded by getMaximumTransaction.
LEMMA MaximumBounds ==
  ASSUME DiskType
  PROVE  /\ getMaximumTransaction \in Nat
         /\ \A x \in Entries : x \in Nat /\ x <= getMaximumTransaction
  <1>1. PICK n \in Nat : \A s \in Slots : trt.slots[s] <= n
    BY DEF DiskType, Bounded
  <1>2. Entries \in SUBSET Nat /\ \A x \in Entries : x <= n
    BY <1>1 DEF DiskType, Entries
  <1>3. CASE Entries = {}
    BY <1>3 DEF getMaximumTransaction
  <1>4. CASE Entries # {}
    <2>1. Max(Entries) \in Entries /\ \A x \in Entries : x <= Max(Entries)
      BY <1>2, <1>4, MaxIsGreatest
    <2>2. QED  BY <1>2, <1>4, <2>1 DEF getMaximumTransaction
  <1>5. QED  BY <1>3, <1>4

\* The number of threads on Busy labels changes with the thread that moves.
LEMMA CountedStep ==
  ASSUME MemoryType, NEW t \in Threads, NEW l \in PCs, pc' = [pc EXCEPT ![t] = l]
  PROVE  /\ Cardinality(Counted) \in Nat
         /\ pc[t] \in Busy => Cardinality(Counted) # 0
         /\ Cardinality(Counted') =
               Cardinality(Counted) + (IF l \in Busy THEN 1 ELSE 0)
                                    - (IF pc[t] \in Busy THEN 1 ELSE 0)
  <1>1. IsFiniteSet(Counted) /\ Cardinality(Counted) \in Nat
    BY ThreadsAssumption, FS_Subset, FS_CardinalityType DEF Counted
  <1>2. Counted' = IF l \in Busy THEN Counted \cup {t} ELSE Counted \ {t}
    BY DEF MemoryType, Counted
  <1>3. pc[t] \in Busy <=> t \in Counted
    BY DEF Counted
  <1>4. Cardinality(Counted \cup {t}) =
          IF t \in Counted THEN Cardinality(Counted) ELSE Cardinality(Counted) + 1
    BY <1>1, FS_AddElement
  <1>5. Cardinality(Counted \ {t}) =
          IF t \in Counted THEN Cardinality(Counted) - 1 ELSE Cardinality(Counted)
    BY <1>1, FS_RemoveElement
  <1>6. t \in Counted => Cardinality(Counted) # 0
    BY <1>1, FS_EmptySet
  <1>7. CASE l \in Busy
    BY <1>1, <1>2, <1>3, <1>4, <1>6, <1>7
  <1>8. CASE l \notin Busy
    BY <1>1, <1>2, <1>3, <1>5, <1>6, <1>8
  <1>9. QED  BY <1>7, <1>8

\* One more entry in the log of a table.
LEMMA LogAppend ==
  ASSUME DiskType, NEW b \in Tables, NEW e \in Commit, log' = [log EXCEPT ![b] = Append(@, e)]
  PROVE  /\ log' \in [Tables -> Seq(Commit)]
         /\ Len(log'[b]) = Len(log[b]) + 1 /\ log'[b][Len(log[b]) + 1] = e
         /\ \A i \in 1..Len(log[b]) : log'[b][i] = log[b][i]
         /\ \A d \in Tables \ {b} : log'[d] = log[d]
         /\ \A d \in Tables : \A c : Has(d, c) => Has(d, c)'
         /\ Has(b, e.number)'
  <1>1. log[b] \in Seq(Commit) /\ log'[b] = Append(log[b], e)
    BY DEF DiskType
  <1>2. /\ log'[b] \in Seq(Commit) /\ Len(log'[b]) = Len(log[b]) + 1
        /\ log'[b][Len(log[b]) + 1] = e
        /\ \A i \in 1..Len(log[b]) : log'[b][i] = log[b][i]
    BY <1>1, AppendProperties
  <1>3. log' \in [Tables -> Seq(Commit)] /\ \A d \in Tables \ {b} : log'[d] = log[d]
    BY <1>1, <1>2 DEF DiskType
  <1>4. /\ DOMAIN log[b] = 1..Len(log[b]) /\ Len(log[b]) \in Nat
        /\ DOMAIN log'[b] = 1..(Len(log[b]) + 1)
    BY <1>1, <1>2, LenProperties
  <1>5. ASSUME NEW d \in Tables, NEW c, Has(d, c) PROVE Has(d, c)'
    <2>1. CASE d = b
      <3>1. PICK i \in 1..Len(log[b]) : log[b][i].number = c
        BY <1>4, <1>5, <2>1 DEF Has
      <3>2. i \in DOMAIN log'[b] /\ log'[b][i].number = c
        BY <1>2, <1>4, <3>1
      <3>3. QED  BY <2>1, <3>2 DEF Has
    <2>2. CASE d # b
      BY <1>3, <1>5, <2>2 DEF Has
    <2>3. QED  BY <2>1, <2>2
  <1>6. Has(b, e.number)'
    BY <1>2, <1>4 DEF Has
  <1>7. QED  BY <1>2, <1>3, <1>5, <1>6

\* After a crash each log is a part of what it was that keeps what was
\* synchronised, and each slot of deep.trt is the present or the synchronised one.
LEMMA CrashShape ==
  ASSUME DiskType, Crash
  PROVE  /\ log' \in [Tables -> Seq(Commit)]
         /\ \A b \in Tables :
               /\ Len(log'[b]) \in logSafe[b]..Len(log[b])
               /\ \A i \in 1..Len(log'[b]) : log'[b][i] = log[b][i]
         /\ trt' \in [exists : BOOLEAN, slots : [Slots -> Nat]] /\ trt'.exists = trt.exists
         /\ \E new \in SUBSET Slots : \A s \in Slots :
               trt'.slots[s] = IF s \in new THEN trt.slots[s] ELSE trtSafe[s]
         /\ use.fault = "process" => log' = log /\ trt' = trt
  <1>1. CASE use.fault = "machine"
    <2>0. LeftByMachine
      BY <1>1 DEF Crash
    <2>1. PICK n \in [Tables -> 0..MaxCommits] :
             /\ \A b \in Tables : n[b] \in logSafe[b]..Len(log[b])
             /\ log' = [b \in Tables |-> SubSeq(log[b], 1, n[b])]
      BY <2>0 DEF LeftByMachine
    <2>2. ASSUME NEW b \in Tables
          PROVE  /\ log'[b] \in Seq(Commit)
                 /\ Len(log'[b]) = n[b] /\ \A i \in 1..n[b] : log'[b][i] = log[b][i]
      <3>1. log[b] \in Seq(Commit) /\ n[b] \in Nat /\ n[b] <= Len(log[b])
        BY <2>1, BoundsAssumption DEF DiskType
      <3>2. log'[b] = SubSeq(log[b], 1, n[b])
        BY <2>1
      <3>3. Len(log[b]) \in Nat
        BY <3>1, LenProperties
      <3>4. 1 \in 1..(Len(log[b]) + 1) /\ n[b] \in 0..Len(log[b])
        BY <3>1, <3>3
      <3>5. QED  BY <3>1, <3>2, <3>3, <3>4, SubSeqProperties
    <2>3. PICK new \in SUBSET Slots :
             trt' = [trt EXCEPT !.slots =
                       [s \in Slots |-> IF s \in new THEN @[s] ELSE trtSafe[s]]]
      BY <2>0 DEF LeftByMachine
    <2>4. /\ trt' \in [exists : BOOLEAN, slots : [Slots -> Nat]] /\ trt'.exists = trt.exists
          /\ \A s \in Slots : trt'.slots[s] = IF s \in new THEN trt.slots[s] ELSE trtSafe[s]
      BY <2>3 DEF DiskType
    <2>5. log' \in [Tables -> Seq(Commit)]
      BY <2>1, <2>2
    <2>6. \A b \in Tables :
               /\ Len(log'[b]) \in logSafe[b]..Len(log[b])
               /\ \A i \in 1..Len(log'[b]) : log'[b][i] = log[b][i]
      BY <2>1, <2>2
    <2>7. QED  BY <1>1, <2>4, <2>5, <2>6
  <1>2. CASE use.fault # "machine"
    <2>1. log' = log /\ trt' = trt
      BY <1>2 DEF Crash
    <2>2. \A b \in Tables : Len(log[b]) \in Nat /\ logSafe[b] \in Nat /\ logSafe[b] <= Len(log[b])
      BY LenProperties DEF DiskType
    <2>3. \A s \in Slots : trt'.slots[s] = IF s \in Slots THEN trt.slots[s] ELSE trtSafe[s]
      BY <2>1
    <2>4. \E new \in SUBSET Slots : \A s \in Slots :
               trt'.slots[s] = IF s \in new THEN trt.slots[s] ELSE trtSafe[s]
      BY <2>3
    <2>5. \A b \in Tables : Len(log[b]) \in logSafe[b]..Len(log[b])
      BY <2>2
    <2>6. QED  BY <2>1, <2>4, <2>5 DEF DiskType
  <1>3. QED  BY <1>1, <1>2

\* Recovery keeps the entries before the first incomplete one.
LEMMA RecoverShape ==
  ASSUME DiskType, NEW b \in Tables, recover(b)
  PROVE  /\ log' \in [Tables -> Seq(Commit)]
         /\ Len(log'[b]) \in 0..Len(log[b])
         /\ \A i \in 1..Len(log'[b]) : log'[b][i] = log[b][i] /\ ~Incomplete(log[b][i])
         /\ \A i \in 1..Len(log[b]) :
               (\A j \in 1..i : ~Incomplete(log[b][j])) => i <= Len(log'[b])
         /\ \A d \in Tables \ {b} : log'[d] = log[d]
  <1> DEFINE l == log[b]
  <1> DEFINE bad == {i \in DOMAIN l : Incomplete(l[i])}
  <1>1. l \in Seq(Commit) /\ Len(l) \in Nat /\ DOMAIN l = 1..Len(l)
    BY LenProperties DEF DiskType
  <1>2. log' = [log EXCEPT ![b] = Replayed(l)]
    BY DEF recover
  <1>3. log'[b] = Replayed(l) /\ \A d \in Tables \ {b} : log'[d] = log[d]
    BY <1>2 DEF DiskType
  <1>4. CASE bad = {}
    <2>1. Replayed(l) = l
      BY <1>4 DEF Replayed
    <2>2. \A i \in 1..Len(l) : ~Incomplete(l[i])
      BY <1>1, <1>4
    <2>3. log' \in [Tables -> Seq(Commit)]
      BY <1>1, <1>2, <2>1 DEF DiskType
    <2>4. QED  BY <1>1, <1>3, <2>1, <2>2, <2>3
  <1>5. CASE bad # {}
    <2> DEFINE m == Min(bad)
    <2>1. bad \in SUBSET Nat
      BY <1>1
    <2>2. m \in bad /\ \A x \in bad : m <= x
      BY <2>1, <1>5, MinIsLeast
    <2>12. \A x \in bad : x \in 1..Len(l) /\ Incomplete(l[x])
      BY <1>1
    <2>3. m \in 1..Len(l) /\ Incomplete(l[m])
      <3> HIDE DEF m, bad
      <3> QED  BY <2>2, <2>12
    <2>13. \A x \in 1..Len(l) : Incomplete(l[x]) => x \in bad
      BY <1>1
    <2>4. \A i \in 1..Len(l) : i < m => ~Incomplete(l[i])
      <3> HIDE DEF m, bad, l
      <3> QED  BY <1>1, <2>2, <2>3, <2>13
    <2>5. Replayed(l) = SubSeq(l, 1, m - 1)
      BY <1>5 DEF Replayed
    <2> HIDE DEF m, bad, l
    <2>6. m - 1 \in 0..Len(l) /\ 1 \in 1..(Len(l) + 1)
      BY <1>1, <2>3
    <2>7. /\ Replayed(l) \in Seq(Commit) /\ Len(Replayed(l)) = m - 1
          /\ \A i \in 1..(m - 1) : Replayed(l)[i] = l[i]
      BY <1>1, <2>5, <2>6, SubSeqProperties
    <2>8. log' \in [Tables -> Seq(Commit)]
      BY <1>2, <2>7 DEF DiskType
    <2>9. \A i \in 1..(m - 1) : ~Incomplete(l[i])
      BY <1>1, <2>3, <2>4
    <2>10. \A i \in 1..Len(l) : (\A j \in 1..i : ~Incomplete(l[j])) => i <= m - 1
      <3> SUFFICES ASSUME NEW i \in 1..Len(l), \A j \in 1..i : ~Incomplete(l[j]), ~(i <= m - 1)
                   PROVE  FALSE
        OBVIOUS
      <3>1. m \in 1..i
        BY <2>3, <1>1
      <3>2. QED  BY <3>1, <2>3
    <2>11. QED  BY <1>3, <2>6, <2>7, <2>8, <2>9, <2>10 DEF l
  <1>6. QED  BY <1>4, <1>5

\* A thread's step leaves the others where they are, and forgets nothing.
Others(t) ==
    \A u \in Threads \ {t} :
        pc'[u] = pc[u] /\ current'[u] = current[u] /\ todo'[u] = todo[u]

Grows ==
    /\ use' = use /\ mounted' = mounted /\ mode' \in {mode, "WRITE"}
    /\ \A n \in DOMAIN made : n \in DOMAIN made' /\ made'[n] = made[n]
    /\ \A d \in Tables : \A c : Has(d, c) => Has(d, c)'

\* What holds of the other threads goes on to hold.
LEMMA OthersKept ==
  ASSUME BaseInv, NEW t \in Threads, Others(t), Grows, NEW u \in Threads \ {t}
  PROVE  ThreadOK(u)' /\ Logged(u)'
  <1>1. ThreadOK(u) /\ Logged(u)
    BY DEF BaseInv
  <1>2. pc'[u] = pc[u] /\ current'[u] = current[u] /\ todo'[u] = todo[u]
    BY DEF Others
  <1> DEFINE n == current[u].number
  <1>3. pc[u] # "idle" => n \in DOMAIN made /\ n \in DOMAIN made' /\ made'[n] = made[n]
                          /\ made[n] \subseteq Tables
    <2>1. \A k \in DOMAIN made : made[k] \in SUBSET Tables
      BY ElementOfSeq, LenProperties DEF BaseInv, MemoryType
    <2>2. pc[u] # "idle" => n \in DOMAIN made
      BY <1>1 DEF ThreadOK
    <2>3. QED  BY <2>1, <2>2 DEF Grows
  <1>4. ThreadOK(u)'
    BY <1>1, <1>2, <1>3 DEF ThreadOK, Grows, Cross
  <1>5. Logged(u)'
    BY <1>1, <1>2, <1>3 DEF Logged, Grows
  <1>6. QED  BY <1>4, <1>5

\* A step of one thread that keeps its number, and the numbers of the others.
LEMMA DistinctKept ==
  ASSUME BaseInv, NEW t \in Threads, Others(t),
         pc'[t] = "idle" \/ (pc[t] # "idle" /\ current'[t].number = current[t].number)
  PROVE  Distinct'
  BY DEF BaseInv, Distinct, Others

\* planSynchronizeGlobally.
LEMMA BasePlan ==
  ASSUME BaseInv, NEW t \in Threads, NEW tables \in SUBSET Tables, plan(t, tables)
  PROVE  BaseInv'
  <1> USE DEF plan, disk, atomic
  <1>1. DiskType /\ MemoryType /\ ThreadOK(t)
    BY DEF BaseInv
  <1> DEFINE n == Len(made) + 1
  <1> DEFINE l == IF Cardinality(tables) > 1 THEN "id" ELSE "phase1"
  <1>2. /\ Len(made) \in Nat /\ DOMAIN made = 1..Len(made)
        /\ made' \in Seq(SUBSET Tables) /\ DOMAIN made' = 1..n
        /\ made'[n] = tables /\ \A i \in 1..Len(made) : made'[i] = made[i]
    BY <1>1, LenProperties, AppendProperties DEF MemoryType
  <1>3. l \in {"id", "phase1"} /\ l \in PCs /\ l \in Busy
    BY DEF PCs, Busy
  <1>4. DiskType'
    BY <1>1 DEF DiskType, Slots, Bounded
  <1>5. MemoryType'
    <2>1. [number |-> n, id |-> 0] \in Commit
      BY <1>2 DEF Commit
    <2>2. pc' \in [Threads -> PCs] /\ current' \in [Threads -> Commit]
          /\ todo' \in [Threads -> SUBSET Tables]
      BY <1>1, <1>3, <2>1 DEF MemoryType
    <2>3. acked \subseteq DOMAIN made'
      BY <1>1, <1>2 DEF MemoryType
    <2>4. QED  BY <1>1, <1>2, <2>2, <2>3 DEF MemoryType
  <1>6. Others(t) /\ Grows
    <2>1. Others(t)
      BY <1>1 DEF Others, MemoryType
    <2>2. \A d \in Tables : \A c : Has(d, c) => Has(d, c)'
      BY DEF Has
    <2>3. QED  BY <1>2, <2>1, <2>2 DEF Grows
  <1>7. pc'[t] = l /\ current'[t] = [number |-> n, id |-> 0] /\ todo'[t] = tables
    BY <1>1, <1>3 DEF MemoryType
  <1>8. ThreadOK(t)' /\ Logged(t)'
    <2>1. Logged(t)'
      BY <1>2, <1>7 DEF Logged
    <2>2. l = "id" <=> Cardinality(tables) > 1
      OBVIOUS
    <2> HIDE DEF l, n
    <2>3. (pc'[t] = "id" \/ current'[t].id # 0) <=> Cardinality(made'[n]) > 1
      BY <1>2, <1>7, <2>2
    <2>4. n \in DOMAIN made' /\ made'[n] \in use'.tables[t] /\ todo'[t] = made'[n]
      BY <1>2, <1>7, <1>1 DEF n
    <2>5. ThreadOK(t)'
      BY <1>3, <1>7, <2>3, <2>4 DEF ThreadOK, Cross
    <2>6. QED  BY <2>1, <2>5
  <1>9. Distinct'
    <2>1. \A u \in Threads \ {t} : pc'[u] # "idle" => current'[u].number \in 1..Len(made)
      BY <1>2, <1>6 DEF Others, BaseInv, ThreadOK
    <2>2. current'[t].number = Len(made) + 1
      BY <1>7
    <2>3. \A u \in Threads \ {t} : pc'[u] # "idle" => current'[u].number # current'[t].number
      BY <1>2, <2>1, <2>2
    <2>4. QED  BY <1>6, <2>3 DEF Distinct, Others, BaseInv
  <1>10. SyncInv'
    <2>1. pc[t] \notin Busy
      BY DEF Busy
    <2>2. pc' = [pc EXCEPT ![t] = l]
      OBVIOUS
    <2>3. Cardinality(Counted) \in Nat /\ Cardinality(Counted') = Cardinality(Counted) + 1 - 0
      <3> HIDE DEF l, plan
      <3> QED  BY <1>1, <1>3, <2>1, <2>2, CountedStep
    <2>4. QED  BY <2>3 DEF SyncInv, BaseInv
  <1>11. \A u \in Threads : ThreadOK(u)' /\ Logged(u)'
    BY <1>6, <1>8, OthersKept
  <1>12. QED  BY <1>4, <1>5, <1>9, <1>10, <1>11 DEF BaseInv

\* RealTimeAtomic::getInstance and getTransactionId.
LEMMA BaseGetTransactionId ==
  ASSUME BaseInv, NEW t \in Threads, getTransactionId(t)
  PROVE  BaseInv'
  <1> USE DEF getTransactionId, sync
  <1>1. DiskType /\ MemoryType /\ ThreadOK(t) /\ Logged(t)
    BY DEF BaseInv
  <1>2. getMaximumTransaction \in Nat
    BY <1>1, MaximumBounds
  <1>3. DiskType'
    <2>1. CASE mode = "WRITE"
      BY <1>1, <2>1 DEF DiskType, Slots, Bounded
    <2>2. CASE mode # "WRITE"
      <3>1. /\ trt' = [exists |-> TRUE, slots |-> Empty] /\ trtSafe' = Empty /\ pos' = 0
            /\ use' = use /\ log' = log /\ logSafe' = logSafe
        BY <2>2
      <3>2. Empty \in [Slots -> Nat] /\ \A s \in Slots : Empty[s] <= 0
        BY DEF Empty
      <3>3. Slots' = Slots /\ 0 \in Slots
        BY <1>1, <3>1, UsesAssumption DEF Slots, DiskType
      <3>4. Bounded'
        BY <3>1, <3>2, <3>3 DEF Bounded
      <3>5. trt' \in [exists : BOOLEAN, slots : [Slots -> Nat]]
        BY <3>1, <3>2
      <3>6. QED  BY <1>1, <3>1, <3>2, <3>3, <3>4, <3>5 DEF DiskType
    <2>3. QED  BY <2>1, <2>2
  <1>4. PICK base \in Nat : sequence' = base + 1 /\ current' = [current EXCEPT ![t].id = base + 1]
    <2> DEFINE b == IF mode = "WRITE" THEN sequence ELSE getMaximumTransaction + 1
    <2>1. b \in Nat
      BY <1>1, <1>2 DEF MemoryType
    <2>2. sequence' = b + 1 /\ current' = [current EXCEPT ![t].id = b + 1]
      OBVIOUS
    <2>3. QED  BY <2>1, <2>2
  <1>5. /\ pc'[t] = "phase1" /\ todo' = todo
        /\ current'[t] \in Commit /\ current'[t].number = current[t].number
        /\ current'[t].id = base + 1 /\ base + 1 # 0
    <2>1. current[t] \in Commit /\ base + 1 \in Nat \ {0}
      BY <1>1, <1>4 DEF MemoryType
    <2>2. current'[t] = [current[t] EXCEPT !.id = base + 1]
      BY <1>1, <1>4 DEF MemoryType
    <2>3. QED  BY <1>1, <2>1, <2>2 DEF MemoryType, Commit
  <1>6. MemoryType'
    <2>1. current' \in [Threads -> Commit] /\ pc' \in [Threads -> PCs]
      BY <1>1, <1>4, <1>5 DEF MemoryType, PCs
    <2>2. QED  BY <1>1, <1>4, <2>1 DEF MemoryType
  <1>7. Others(t) /\ Grows
    <2>1. Others(t)
      BY <1>1, <1>4 DEF Others, MemoryType
    <2>2. \A d \in Tables : \A c : Has(d, c) => Has(d, c)'
      BY DEF Has
    <2>3. QED  BY <2>1, <2>2 DEF Grows
  <1>8. ThreadOK(t)' /\ Logged(t)'
    BY <1>1, <1>5 DEF ThreadOK, Cross, Logged
  <1>9. Distinct'
    BY <1>5, <1>7, DistinctKept
  <1>10. SyncInv'
    <2>1. "phase1" \in PCs /\ "phase1" \in Busy /\ pc[t] \in Busy
      BY DEF Busy, PCs
    <2>2. Cardinality(Counted) \in Nat /\ Cardinality(Counted') = Cardinality(Counted) + 1 - 1
      BY <1>1, <2>1, CountedStep
    <2>3. QED  BY <2>2 DEF SyncInv, BaseInv
  <1>11. \A u \in Threads : ThreadOK(u)' /\ Logged(u)'
    BY <1>7, <1>8, OthersKept
  <1>12. QED  BY <1>3, <1>6, <1>9, <1>10, <1>11 DEF BaseInv

\* durable-phase1 of a thread goes to the log of one of its tables.
LEMMA CommitTable ==
  ASSUME BaseInv, NEW t \in Threads, commitRealTime(t)
  PROVE  LET b == Min(todo[t])
         IN  /\ b \in Tables /\ b \in todo[t] /\ current[t] \in Commit
             /\ log' = [log EXCEPT ![b] = Append(@, current[t])]
             /\ todo' = [todo EXCEPT ![t] = todo[t] \ {b}]
             /\ syncFiles' = syncFiles \cup {b}
  <1>1. MemoryType
    BY DEF BaseInv
  <1>2. todo[t] \subseteq Tables /\ todo[t] # {}
    BY <1>1 DEF MemoryType, commitRealTime
  <1>3. todo[t] \in SUBSET Nat
    BY <1>2 DEF Tables
  <1>4. Min(todo[t]) \in todo[t]
    BY <1>2, <1>3, MinIsLeast
  <1>5. QED  BY <1>1, <1>2, <1>4 DEF commitRealTime, MemoryType

\* The entries of one table.
LEMMA BaseCommitRealTime ==
  ASSUME BaseInv, NEW t \in Threads, commitRealTime(t)
  PROVE  BaseInv'
  <1>1. DiskType /\ MemoryType /\ ThreadOK(t) /\ Logged(t)
    BY DEF BaseInv
  <1>2. PICK b \in Tables, e \in Commit :
           /\ b \in todo[t] /\ e = current[t]
           /\ log' = [log EXCEPT ![b] = Append(@, e)]
           /\ todo' = [todo EXCEPT ![t] = todo[t] \ {b}]
           /\ syncFiles' = syncFiles \cup {b}
    BY CommitTable
  <1>3. /\ pc[t] = "phase1"
        /\ UNCHANGED <<use, logSafe, trt, trtSafe, pos, mode, sequence, mounted, syncCount, pc,
                       current, made, acked, crashes>>
    BY DEF commitRealTime, atomic
  <1>4. /\ log' \in [Tables -> Seq(Commit)]
        /\ Len(log'[b]) = Len(log[b]) + 1
        /\ \A d \in Tables \ {b} : log'[d] = log[d]
        /\ \A d \in Tables : \A c : Has(d, c) => Has(d, c)'
        /\ Has(b, e.number)'
    BY <1>1, <1>2, LogAppend
  <1>5. DiskType'
    <2>1. \A d \in Tables : Len(log[d]) \in Nat /\ logSafe[d] \in Nat /\ logSafe[d] <= Len(log[d])
      BY <1>1, LenProperties DEF DiskType
    <2>2. \A d \in Tables : logSafe[d] <= Len(log'[d])
      BY <1>4, <2>1
    <2>3. QED  BY <1>1, <1>3, <1>4, <2>2 DEF DiskType, Slots, Bounded
  <1>6. MemoryType'
    <2>1. todo' \in [Threads -> SUBSET Tables]
      BY <1>1, <1>2 DEF MemoryType
    <2>2. QED  BY <1>1, <1>2, <1>3, <2>1 DEF MemoryType
  <1>7. Others(t) /\ Grows
    BY <1>1, <1>2, <1>3, <1>4 DEF Others, MemoryType, Grows
  <1>8. todo'[t] = todo[t] \ {b}
    BY <1>1, <1>2 DEF MemoryType
  <1>9. ThreadOK(t)'
    BY <1>1, <1>3, <1>8 DEF ThreadOK, Cross
  <1>10. Logged(t)'
    <2>1. made[current[t].number] \subseteq Tables
      <3>1. \A k \in DOMAIN made : made[k] \in SUBSET Tables
        BY <1>1, ElementOfSeq, LenProperties DEF MemoryType
      <3>2. QED  BY <1>1, <1>3, <3>1 DEF ThreadOK
    <2>2. \A d \in made[current[t].number] \ todo'[t] : Has(d, current[t].number)'
      BY <1>1, <1>2, <1>3, <1>4, <1>8, <2>1 DEF Logged
    <2>3. QED  BY <1>3, <2>2 DEF Logged
  <1>11. Distinct'
    BY <1>3, <1>7, DistinctKept
  <1>12. SyncInv'
    BY <1>3 DEF SyncInv, BaseInv, Counted
  <1>13. \A u \in Threads : ThreadOK(u)' /\ Logged(u)'
    BY <1>7, <1>9, <1>10, OthersKept
  <1>14. QED  BY <1>5, <1>6, <1>11, <1>12, <1>13 DEF BaseInv

\* The identifier in deep.trt.
LEMMA BaseWriteEnd ==
  ASSUME BaseInv, NEW t \in Threads, writeEndTransaction(t)
  PROVE  BaseInv'
  <1> USE DEF writeEndTransaction, atomic
  <1>1. DiskType /\ MemoryType /\ ThreadOK(t) /\ Logged(t)
    BY DEF BaseInv
  <1>2. current[t].id \in Nat
    BY <1>1 DEF MemoryType, Commit
  <1>3. /\ trt' \in [exists : BOOLEAN, slots : [Slots -> Nat]]
        /\ trt'.slots = [trt.slots EXCEPT ![pos] = current[t].id] /\ trt'.exists = trt.exists
    BY <1>1, <1>2 DEF DiskType
  <1>4. pos' \in Slots
    BY <1>1, UsesAssumption DEF DiskType, Slots
  <1>5. Bounded'
    <2>1. PICK n \in Nat : \A s \in Slots : trt.slots[s] <= n /\ trtSafe[s] <= n
      BY <1>1 DEF DiskType, Bounded
    <2>2. \A s \in Slots : trt.slots[s] \in Nat /\ trtSafe[s] \in Nat
      BY <1>1 DEF DiskType
    <2>3. \A s \in Slots : trt'.slots[s] \in {trt.slots[s], current[t].id}
      BY <1>1, <1>3 DEF DiskType
    <2>4. n + current[t].id \in Nat
      BY <1>2, <2>1
    <2>5. \A s \in Slots : trt'.slots[s] <= n + current[t].id /\ trtSafe[s] <= n + current[t].id
      BY <1>2, <2>1, <2>2, <2>3
    <2>6. QED  BY <2>4, <2>5 DEF Bounded, Slots
  <1>6. DiskType'
    BY <1>1, <1>3, <1>4, <1>5 DEF DiskType, Slots
  <1>7. MemoryType'
    BY <1>1 DEF MemoryType, PCs
  <1>8. Others(t) /\ Grows
    BY <1>1 DEF Others, MemoryType, Grows, Has
  <1>9. pc'[t] = "perform"
    BY <1>1 DEF MemoryType
  <1>10. ThreadOK(t)' /\ Logged(t)'
    BY <1>1, <1>9 DEF ThreadOK, Cross, Logged, Has
  <1>11. Distinct'
    BY <1>8, DistinctKept
  <1>12. SyncInv'
    <2>1. "perform" \in PCs /\ "perform" \in Busy /\ pc[t] \in Busy
      BY DEF Busy, PCs
    <2>2. Cardinality(Counted) \in Nat /\ Cardinality(Counted') = Cardinality(Counted) + 1 - 1
      BY <1>1, <2>1, CountedStep
    <2>3. QED  BY <2>2 DEF SyncInv, BaseInv
  <1>13. \A u \in Threads : ThreadOK(u)' /\ Logged(u)'
    BY <1>8, <1>10, OthersKept
  <1>14. QED  BY <1>6, <1>7, <1>11, <1>12, <1>13 DEF BaseInv

\* durable-phase2 and the return.
LEMMA BaseReturn ==
  ASSUME BaseInv, NEW t \in Threads, return(t)
  PROVE  BaseInv'
  <1> USE DEF return, disk, atomic, sync
  <1>1. DiskType /\ MemoryType /\ ThreadOK(t)
    BY DEF BaseInv
  <1>2. DiskType'
    BY <1>1 DEF DiskType, Slots, Bounded
  <1>3. MemoryType'
    <2>1. NoCommit \in Commit
      BY DEF NoCommit, Commit
    <2>2. QED  BY <1>1, <2>1 DEF MemoryType, PCs, ThreadOK
  <1>4. Others(t) /\ Grows
    BY <1>1 DEF Others, MemoryType, Grows, Has
  <1>5. pc'[t] = "idle" /\ current'[t] = NoCommit /\ todo'[t] = {}
    BY <1>1 DEF MemoryType, ThreadOK
  <1>6. ThreadOK(t)' /\ Logged(t)'
    BY <1>5 DEF ThreadOK, Logged, NoCommit
  <1>7. Distinct'
    BY <1>4, <1>5, DistinctKept
  <1>8. SyncInv'
    <2>1. "idle" \in PCs /\ "idle" \notin Busy /\ pc[t] \notin Busy
      BY DEF Busy, PCs
    <2>2. Cardinality(Counted) \in Nat /\ Cardinality(Counted') = Cardinality(Counted) + 0 - 0
      BY <1>1, <2>1, CountedStep
    <2>3. QED  BY <2>2 DEF SyncInv, BaseInv
  <1>9. \A u \in Threads : ThreadOK(u)' /\ Logged(u)'
    BY <1>4, <1>6, OthersKept
  <1>10. QED  BY <1>2, <1>3, <1>7, <1>8, <1>9 DEF BaseInv

\* The commit that synchronises is the only one that has not performed yet.
LEMMA LastOne ==
  ASSUME BaseInv, NEW t \in Threads, pc[t] \in Busy, syncCount = 1
  PROVE  Counted = {t}
  <1>1. IsFiniteSet(Counted) /\ Cardinality(Counted) = 1 /\ t \in Counted
    BY ThreadsAssumption, FS_Subset DEF BaseInv, SyncInv, Counted
  <1>2. IsFiniteSet(Counted \ {t}) /\ Cardinality(Counted \ {t}) = 0
    BY <1>1, FS_RemoveElement
  <1>3. Counted \ {t} = {}
    BY <1>2, FS_EmptySet
  <1>4. QED  BY <1>1, <1>3

\* performSynchronizeGlobally begins with everything logged.
LEMMA Performing ==
  ASSUME BaseInv, NEW t \in Threads, perform(t)
  PROVE  pc[t] \in {"perform", "phase1"} /\ todo[t] = {} /\ pc[t] \in Busy
  BY DEF perform, BaseInv, ThreadOK, Busy

\* What synchronisation does to the files.
LEMMA PerformDisk ==
  ASSUME BaseInv, NEW t \in Threads, perform(t)
  PROVE  DiskType'
  <1>1. DiskType
    BY DEF BaseInv
  <1>2. use' = use /\ log' = log /\ trt' = trt /\ pos' = pos
    BY DEF perform
  <1>3. \A b \in Tables : Len(log[b]) \in Nat /\ logSafe[b] \in Nat /\ logSafe[b] <= Len(log[b])
    BY <1>1, LenProperties DEF DiskType
  <1>4. CASE syncCount = 1
    <2>1. Synchronized
      BY <1>4 DEF perform
    <2>2. logSafe' \in [Tables -> Nat] /\ \A b \in Tables : logSafe'[b] <= Len(log[b])
      BY <1>3, <2>1 DEF Synchronized
    <2>3. trtSafe' \in {trt.slots, trtSafe}
      BY <2>1 DEF Synchronized
    <2>4. trtSafe' \in [Slots -> Nat]
      BY <1>1, <2>3 DEF DiskType
    <2>5. Bounded'
      BY <1>1, <1>2, <2>3 DEF DiskType, Bounded, Slots
    <2>6. QED  BY <1>1, <1>2, <2>2, <2>4, <2>5 DEF DiskType, Slots
  <1>5. CASE syncCount # 1
    BY <1>1, <1>2, <1>5 DEF DiskType, Slots, Bounded, perform
  <1>6. QED  BY <1>4, <1>5

\* performSynchronizeGlobally.
LEMMA BasePerform ==
  ASSUME BaseInv, NEW t \in Threads, perform(t)
  PROVE  BaseInv'
  <1>1. MemoryType /\ SyncInv /\ \A u \in Threads : ThreadOK(u) /\ Logged(u)
    BY DEF BaseInv
  <1>2. pc[t] \in {"perform", "phase1"} /\ todo[t] = {} /\ pc[t] \in Busy
    BY Performing
  <1>3. /\ syncCount' = syncCount - 1
        /\ UNCHANGED <<use, log, trt, pos, mode, sequence, mounted, current, todo, made, acked, crashes>>
    BY DEF perform, atomic
  <1>4. /\ pc' \in [Threads -> PCs] /\ pc'[t] \in {"waiting", "phase2"}
        /\ \A u \in Threads \ {t} :
              pc'[u] = pc[u] \/ (pc[u] = "waiting" /\ pc'[u] = "phase2")
    <2>1. CASE syncCount = 1
      <3>1. pc' = [u \in Threads |-> IF u = t \/ pc[u] = "waiting" THEN "phase2" ELSE pc[u]]
        BY <2>1 DEF perform
      <3>2. QED  BY <1>1, <3>1 DEF MemoryType, PCs
    <2>2. CASE syncCount # 1
      <3>1. pc' = [pc EXCEPT ![t] = "waiting"]
        BY <2>2 DEF perform
      <3>2. QED  BY <1>1, <3>1 DEF MemoryType, PCs
    <2>3. QED  BY <2>1, <2>2
  <1>5. MemoryType'
    <2>1. syncFiles' \subseteq Tables \cup {0}
      <3>1. syncFiles' \in {syncFiles, {}}
        BY DEF perform, Synchronized
      <3>2. QED  BY <1>1, <3>1 DEF MemoryType
    <2>2. QED  BY <1>1, <1>3, <1>4, <2>1 DEF MemoryType
  <1>6. \A u \in Threads : ThreadOK(u)' /\ Logged(u)'
    <2> SUFFICES ASSUME NEW u \in Threads PROVE ThreadOK(u)' /\ Logged(u)'
      OBVIOUS
    <2>1. ThreadOK(u) /\ Logged(u)
      BY <1>1
    <2>2. CASE pc'[u] = pc[u]
      BY <1>3, <2>1, <2>2 DEF ThreadOK, Logged, Has, Cross
    <2>3. CASE pc'[u] # pc[u]
      <3>1. /\ pc[u] \notin {"idle", "id"} /\ pc'[u] \notin {"idle", "id", "phase1"}
            /\ todo[u] = {}
        BY <1>2, <1>4, <2>1, <2>3 DEF ThreadOK
      <3>2. QED  BY <1>3, <2>1, <3>1 DEF ThreadOK, Logged, Has, Cross
    <2>4. QED  BY <2>2, <2>3
  <1>7. Distinct'
    <2>1. \A u \in Threads : pc'[u] # "idle" <=> pc[u] # "idle"
      BY <1>2, <1>4
    <2>2. QED  BY <1>3, <2>1 DEF Distinct, BaseInv
  <1>8. SyncInv'
    <2>1. CASE syncCount = 1
      <3>1. Counted = {t}
        BY <1>2, <2>1, LastOne
      <3>2. Counted' = {}
        BY <1>4, <3>1 DEF Counted, Busy
      <3>3. QED  BY <1>3, <2>1, <3>2, FS_EmptySet DEF SyncInv
    <2>2. CASE syncCount # 1
      <3>1. pc' = [pc EXCEPT ![t] = "waiting"] /\ "waiting" \in PCs /\ "waiting" \notin Busy
        BY <2>2 DEF perform, PCs, Busy
      <3>2. /\ Cardinality(Counted) \in Nat /\ Cardinality(Counted) # 0
            /\ Cardinality(Counted') = Cardinality(Counted) + 0 - 1
        BY <1>1, <1>2, <3>1, CountedStep
      <3>3. QED  BY <1>1, <1>3, <3>2 DEF SyncInv
    <2>3. QED  BY <2>1, <2>2
  <1>9. DiskType'
    BY PerformDisk
  <1>10. QED  BY <1>5, <1>6, <1>7, <1>8, <1>9 DEF BaseInv

\* When nobody works there is nothing to say of threads.
LEMMA NobodyWorks ==
  ASSUME \A t \in Threads : pc'[t] = "idle" /\ current'[t] = NoCommit /\ todo'[t] = {},
         syncCount' = 0
  PROVE  (\A t \in Threads : ThreadOK(t)' /\ Logged(t)') /\ Distinct' /\ SyncInv'
  <1>1. \A t \in Threads : ThreadOK(t)' /\ Logged(t)'
    BY DEF ThreadOK, Logged, NoCommit
  <1>2. Counted' = {}
    BY DEF Counted, Busy
  <1>3. SyncInv'
    BY <1>2, FS_EmptySet DEF SyncInv
  <1>4. QED  BY <1>1, <1>3 DEF Distinct

\* A crash.
LEMMA BaseCrash ==
  ASSUME BaseInv, Crash
  PROVE  BaseInv'
  <1>1. DiskType /\ MemoryType
    BY DEF BaseInv
  <1>2. /\ log' \in [Tables -> Seq(Commit)]
        /\ trt' \in [exists : BOOLEAN, slots : [Slots -> Nat]]
        /\ \A s \in Slots : trt'.slots[s] \in {trt.slots[s], trtSafe[s]}
    BY <1>1, CrashShape
  <1>3. /\ logSafe' = [b \in Tables |-> Len(log'[b])] /\ trtSafe' = trt'.slots
        /\ mode' = "none" /\ sequence' = 0 /\ pos' = 0 /\ mounted' = {} /\ syncCount' = 0
        /\ syncFiles' = {} /\ pc' = [t \in Threads |-> "idle"]
        /\ current' = [t \in Threads |-> NoCommit] /\ todo' = [t \in Threads |-> {}]
        /\ crashes' = crashes + 1 /\ UNCHANGED <<use, made, acked>>
    BY DEF Crash
  <1>4. DiskType'
    <2>1. logSafe' \in [Tables -> Nat] /\ \A b \in Tables : logSafe'[b] <= Len(log'[b])
      BY <1>2, <1>3, LenProperties
    <2>2. Bounded'
      BY <1>1, <1>2, <1>3 DEF DiskType, Bounded, Slots
    <2>3. Slots' = Slots /\ 0 \in Slots
      BY <1>1, <1>3, UsesAssumption DEF Slots, DiskType
    <2>4. trtSafe' \in [Slots -> Nat]
      BY <1>2, <1>3
    <2>5. QED  BY <1>1, <1>2, <1>3, <2>1, <2>2, <2>3, <2>4 DEF DiskType
  <1>5. MemoryType'
    <2>1. pc' \in [Threads -> PCs] /\ current' \in [Threads -> Commit] /\ todo' \in [Threads -> SUBSET Tables]
      BY <1>3 DEF PCs, NoCommit, Commit
    <2>2. QED  BY <1>1, <1>3, <2>1 DEF MemoryType
  <1>6. QED  BY <1>3, <1>4, <1>5, NobodyWorks DEF BaseInv

\* While a table is not mounted nobody commits.
LEMMA RecoverAlone ==
  ASSUME BaseInv, mounted # Tables
  PROVE  \A t \in Threads : pc[t] = "idle" /\ current[t] = NoCommit /\ todo[t] = {}
  BY DEF BaseInv, ThreadOK

\* The recovery of a table.
LEMMA BaseRecover ==
  ASSUME BaseInv, NEW b \in Tables, recover(b)
  PROVE  BaseInv'
  <1>1. DiskType /\ MemoryType /\ SyncInv
    BY DEF BaseInv
  <1>2. log' \in [Tables -> Seq(Commit)] /\ \A d \in Tables \ {b} : log'[d] = log[d]
    BY <1>1, RecoverShape
  <1>3. /\ b \notin mounted /\ mode' = "READ" /\ mounted' = mounted \cup {b}
        /\ sequence' = IF mode = "READ" THEN sequence ELSE getMaximumTransaction + 1
        /\ logSafe' = [logSafe EXCEPT ![b] = Len(log'[b])]
        /\ UNCHANGED <<use, trt, trtSafe, pos, syncCount, syncFiles, pc, current, todo, made,
                       acked, crashes>>
    BY DEF recover, sync
  <1>4. DiskType'
    <2>1. Len(log'[b]) \in Nat
      BY <1>2, LenProperties
    <2>2. logSafe' \in [Tables -> Nat] /\ logSafe'[b] = Len(log'[b])
      BY <1>1, <1>3, <2>1 DEF DiskType
    <2>3. \A d \in Tables : logSafe'[d] <= Len(log'[d])
      BY <1>1, <1>2, <1>3, <2>1, <2>2 DEF DiskType
    <2>4. QED  BY <1>1, <1>2, <1>3, <2>2, <2>3 DEF DiskType, Slots, Bounded
  <1>5. MemoryType'
    <2>1. sequence' \in Nat
      BY <1>1, <1>3, MaximumBounds DEF MemoryType
    <2>2. QED  BY <1>1, <1>3, <2>1 DEF MemoryType
  <1>6. \A t \in Threads : pc'[t] = "idle" /\ current'[t] = NoCommit /\ todo'[t] = {}
    BY <1>3, RecoverAlone
  <1>7. Counted = {} /\ syncCount = 0
    <2>1. Counted = {}
      BY <1>3, <1>6 DEF Counted, Busy
    <2>2. QED  BY <1>1, <2>1, FS_EmptySet DEF SyncInv
  <1>8. QED  BY <1>3, <1>4, <1>5, <1>6, <1>7, NobodyWorks DEF BaseInv

\* Nothing has been committed at first.
LEMMA BaseInit ==
  Init => BaseInv
  <1> SUFFICES ASSUME Init PROVE BaseInv
    OBVIOUS
  <1> USE DEF Init
  <1>1. use.trtSize \in Nat
    BY UsesAssumption
  <1>2. Empty \in [Slots -> Nat] /\ 0 \in Slots /\ \A s \in Slots : Empty[s] = 0
    BY <1>1 DEF Empty, Slots
  <1>3. DiskType
    <2>1. \A b \in Tables : log[b] = <<>> /\ Len(log[b]) = 0 /\ <<>> \in Seq(Commit)
      BY EmptySeq
    <2>2. Bounded
      BY <1>2 DEF Bounded
    <2>3. QED  BY <1>2, <2>1, <2>2 DEF DiskType
  <1>4. MemoryType
    <2>1. NoCommit \in Commit
      BY DEF NoCommit, Commit
    <2>2. made \in Seq(SUBSET Tables)
      BY EmptySeq
    <2>3. QED  BY <2>1, <2>2 DEF MemoryType, PCs
  <1>5. \A t \in Threads : ThreadOK(t) /\ Logged(t)
    BY DEF ThreadOK, Logged, NoCommit
  <1>6. Counted = {}
    BY DEF Counted, Busy
  <1>7. QED  BY <1>3, <1>4, <1>5, <1>6, FS_EmptySet DEF BaseInv, Distinct, SyncInv

\* Every step preserves these facts.
LEMMA BaseStep ==
  BaseInv /\ [Next]_vars => BaseInv'
  <1> SUFFICES ASSUME BaseInv, [Next]_vars PROVE BaseInv'
    OBVIOUS
  <1>1. CASE UNCHANGED vars
    <2> USE <1>1 DEF vars
    <2>1. DiskType'
      BY DEF BaseInv, DiskType, Slots, Bounded
    <2>2. MemoryType'
      BY DEF BaseInv, MemoryType
    <2>3. \A t \in Threads : ThreadOK(t)' /\ Logged(t)'
      BY DEF BaseInv, ThreadOK, Logged, Has, Cross
    <2>4. Distinct' /\ SyncInv'
      BY DEF BaseInv, Distinct, SyncInv, Counted
    <2>5. QED  BY <2>1, <2>2, <2>3, <2>4 DEF BaseInv
  <1>2. CASE \E t \in Threads : Step(t) \/ \E tables \in SUBSET Tables : plan(t, tables)
    BY <1>2, BasePlan, BaseGetTransactionId, BaseCommitRealTime, BaseWriteEnd, BasePerform,
       BaseReturn DEF Step
  <1>3. QED  BY <1>1, <1>2, BaseCrash, BaseRecover DEF Next

\* Type correctness of commits, crashes and recovery.
THEOREM CommitTypeCorrect == Spec => []TypeOK
  <1>1. BaseInv => TypeOK
    <2> SUFFICES ASSUME BaseInv PROVE TypeOK
      OBVIOUS
    <2>1. DiskType /\ MemoryType /\ SyncInv
      BY DEF BaseInv
    <2>2. \A b \in Tables : logSafe[b] \in 0..Len(log[b])
      BY <2>1, LenProperties DEF DiskType
    <2>3. syncCount \in Nat
      BY <2>1, ThreadsAssumption, FS_Subset, FS_CardinalityType DEF SyncInv, Counted
    <2>4. DOMAIN made = 1..Len(made)
      BY <2>1, LenProperties DEF MemoryType
    <2>5. QED  BY <2>1, <2>2, <2>3, <2>4 DEF DiskType, MemoryType, TypeOK, Commit, PCs
  <1>2. QED  BY BaseInit, BaseStep, <1>1, PTL DEF Spec

-----------------------------------------------------------------------------
(* deep.trt as a ring *)

\* The identifiers up to the first free slot of n + 1 slots f.
EntriesOf(n, f) == {f[s] : s \in {s \in 0..n : \A u \in 0..s : f[u] # 0}}

\* What recovery takes for complete.
Past(n, f, x) ==
    /\ EntriesOf(n, f) # {}
    /\ x \in EntriesOf(n, f) \/ \A y \in EntriesOf(n, f) : x < y

\* Slot s was written before slot u, when the next one to be written is p.
Before(s, u, p) == (s < u /\ (u < p \/ s >= p)) \/ (s >= p /\ u < p)

\* The slots before p are in use, and those from p on either all or none; the
\* identifiers are in the order in which they were written.
Ring(n, f, p) ==
    /\ \A s \in 0..n : s < p => f[s] # 0
    /\ \A s, u \in 0..n : s >= p /\ f[s] # 0 => f[u] # 0
    /\ \A s, u \in 0..n : f[s] # 0 /\ f[u] # 0 /\ Before(s, u, p) => f[s] < f[u]

\* No slot of a ring that is in use is behind a free one.
LEMMA RingEntries ==
  ASSUME NEW n \in Nat, NEW f \in [0..n -> Nat], NEW p \in 0..n, Ring(n, f, p)
  PROVE  EntriesOf(n, f) = {f[s] : s \in {s \in 0..n : f[s] # 0}}
  <1>1. ASSUME NEW s \in 0..n PROVE (\A u \in 0..s : f[u] # 0) <=> f[s] # 0
    <2>1. s \in 0..s /\ \A u \in 0..s : u \in 0..n
      OBVIOUS
    <2>2. CASE s < p
      <3>1. \A u \in 0..s : u < p
        BY <2>2
      <3>2. QED  BY <2>1, <3>1 DEF Ring
    <2>3. CASE s >= p
      BY <2>1, <2>3 DEF Ring
    <2>4. QED  BY <2>2, <2>3
  <1>2. {s \in 0..n : \A u \in 0..s : f[u] # 0} = {s \in 0..n : f[s] # 0}
    BY <1>1
  <1>3. QED  BY <1>2 DEF EntriesOf

\* Writing the next identifier keeps the ring, and what was taken for complete
\* goes on to be: the identifier that is overwritten is the least one.
LEMMA RingWrite ==
  ASSUME NEW n \in Nat, NEW f \in [0..n -> Nat], NEW p \in 0..n, Ring(n, f, p),
         NEW v \in Nat \ {0}, \A s \in 0..n : f[s] < v,
         NEW g, g = [f EXCEPT ![p] = v], NEW q, q = IF p + 1 > n THEN 0 ELSE p + 1
  PROVE  /\ g \in [0..n -> Nat] /\ q \in 0..n
         /\ Ring(n, g, q)
         /\ v \in EntriesOf(n, g)
         /\ \A x \in Nat : Past(n, f, x) => Past(n, g, x)
  <1>1. /\ g \in [0..n -> Nat] /\ g[p] = v
        /\ \A s \in 0..n : s # p => g[s] = f[s]
    OBVIOUS
  <1>2. q \in 0..n
    OBVIOUS
  <1>3. \A s \in 0..n : f[s] # 0 => g[s] # 0
    BY <1>1
  <1>4. Ring(n, g, q)
    <2>1. CASE p + 1 > n
      <3>1. q = 0 /\ p = n
        BY <2>1
      <3>2. \A s \in 0..n : s # p => s < p
        BY <3>1
      <3>3. \A s \in 0..n : g[s] # 0
        BY <1>1, <3>2 DEF Ring
      <3>4. ASSUME NEW s \in 0..n, NEW u \in 0..n, Before(s, u, q) PROVE g[s] < g[u]
        <4>1. s < u /\ s < p
          BY <3>1, <3>4 DEF Before
        <4>2. CASE u = p
          BY <1>1, <4>1, <4>2
        <4>3. CASE u # p
          <5>1. u < p /\ f[s] # 0 /\ f[u] # 0
            BY <4>1, <4>3, <3>2 DEF Ring
          <5>2. f[s] < f[u]
            BY <4>1, <5>1 DEF Ring, Before
          <5>3. QED  BY <1>1, <4>1, <4>3, <5>2
        <4>4. QED  BY <4>2, <4>3
      <3>5. \A s \in 0..n : ~(s < q)
        BY <3>1
      <3>6. QED  BY <3>3, <3>4, <3>5 DEF Ring
    <2>2. CASE ~(p + 1 > n)
      <3>1. q = p + 1
        BY <2>2
      <3>2. \A s \in 0..n : s < q => g[s] # 0
        BY <1>1, <3>1 DEF Ring
      <3>3. \A s, u \in 0..n : s >= q /\ g[s] # 0 => g[u] # 0
        <4> SUFFICES ASSUME NEW s \in 0..n, NEW u \in 0..n, s >= q, g[s] # 0 PROVE g[u] # 0
          OBVIOUS
        <4>1. s >= p /\ f[s] # 0
          BY <1>1, <3>1
        <4>2. QED  BY <4>1, <1>3 DEF Ring
      <3>4. ASSUME NEW s \in 0..n, NEW u \in 0..n, g[s] # 0, g[u] # 0, Before(s, u, q)
            PROVE  g[s] < g[u]
        <4>1. CASE u = p
          <5>1. s # p
            BY <3>1, <3>4, <4>1 DEF Before
          <5>2. QED  BY <1>1, <4>1, <5>1
        <4>2. CASE u # p /\ s = p
          BY <3>1, <3>4, <4>2 DEF Before
        <4>3. CASE u # p /\ s # p
          <5>1. Before(s, u, p)
            BY <3>1, <3>4, <4>3 DEF Before
          <5>2. QED  BY <1>1, <3>4, <4>3, <5>1 DEF Ring
        <4>4. QED  BY <4>1, <4>2, <4>3
      <3>5. QED  BY <3>2, <3>3, <3>4 DEF Ring
    <2>3. QED  BY <2>1, <2>2
  <1>5. /\ EntriesOf(n, f) = {f[s] : s \in {s \in 0..n : f[s] # 0}}
        /\ EntriesOf(n, g) = {g[s] : s \in {s \in 0..n : g[s] # 0}}
    BY <1>1, <1>2, <1>4, RingEntries
  <1>6. v \in EntriesOf(n, g)
    BY <1>1, <1>5
  <1>7. ASSUME NEW x \in Nat, Past(n, f, x) PROVE Past(n, g, x)
    <2>1. CASE x \in EntriesOf(n, f)
      <3>1. PICK s \in 0..n : f[s] # 0 /\ x = f[s]
        BY <1>5, <2>1
      <3>2. CASE s # p
        BY <1>1, <1>5, <1>6, <3>1, <3>2 DEF Past
      <3>3. CASE s = p
        <4>1. \A u \in 0..n : f[u] # 0
          BY <3>1, <3>3 DEF Ring
        <4>2. \A u \in 0..n : u # p => x < f[u]
          BY <3>1, <3>3, <4>1 DEF Ring, Before
        <4>3. x < v
          BY <3>1
        <4>4. \A u \in 0..n : x < g[u]
          BY <1>1, <4>2, <4>3
        <4>5. QED  BY <1>5, <1>6, <4>4 DEF Past
      <3>4. QED  BY <3>2, <3>3
    <2>2. CASE \A y \in EntriesOf(n, f) : x < y
      <3>1. \A s \in 0..n : f[s] # 0 => x < f[s]
        BY <1>5, <2>2
      <3>2. x < v
        <4>1. PICK y \in EntriesOf(n, f) : TRUE
          BY <1>7 DEF Past
        <4>2. PICK s \in 0..n : f[s] # 0 /\ y = f[s]
          BY <1>5, <4>1
        <4>3. QED  BY <3>1, <4>2
      <3>3. \A s \in 0..n : g[s] # 0 => x < g[s]
        BY <1>1, <3>1, <3>2
      <3>4. QED  BY <1>5, <1>6, <3>3 DEF Past
    <2>3. QED  BY <1>7, <2>1, <2>2 DEF Past
  <1>8. QED  BY <1>1, <1>2, <1>4, <1>6, <1>7

\* With one thread that commits over several tables, the ring of deep.trt is in
\* the order of the identifiers, and the next identifier is above them all.
RingOK ==
    /\ Ring(use.trtSize, trt.slots, pos)
    /\ \A s \in Slots : trt.slots[s] <= sequence
    /\ \A t \in Threads : current[t].id <= sequence
    /\ \A t \in Threads : pc[t] = "phase1" /\ current[t].id # 0 =>
          \A s \in Slots : trt.slots[s] < current[t].id

RingInv == OneCrossTable /\ mode = "WRITE" => RingOK

\* Under OneCrossTable no two threads commit over several tables.
LEMMA CrossAlone ==
  ASSUME BaseInv, OneCrossTable, NEW t \in Threads, NEW u \in Threads, Cross(t), Cross(u)
  PROVE  t = u
  <1>1. pc[t] # "idle" /\ pc[u] # "idle"
    BY DEF BaseInv, ThreadOK, Cross, NoCommit
  <1>2. /\ made[current[t].number] \in use.tables[t] /\ Cardinality(made[current[t].number]) > 1
        /\ made[current[u].number] \in use.tables[u] /\ Cardinality(made[current[u].number]) > 1
    BY <1>1 DEF BaseInv, ThreadOK
  <1>3. QED  BY <1>2 DEF OneCrossTable

\* The identifier of a commit.
LEMMA NewId ==
  ASSUME BaseInv, NEW t \in Threads, getTransactionId(t)
  PROVE  LET base == IF mode = "WRITE" THEN sequence ELSE getMaximumTransaction + 1
         IN  /\ base \in Nat /\ sequence' = base + 1
             /\ current'[t].id = base + 1 /\ current'[t].number = current[t].number
             /\ \A u \in Threads \ {t} : current'[u] = current[u] /\ pc'[u] = pc[u]
             /\ pc[t] = "id" /\ pc'[t] = "phase1" /\ mode' = "WRITE"
  <1> DEFINE base == IF mode = "WRITE" THEN sequence ELSE getMaximumTransaction + 1
  <1>1. base \in Nat
    BY MaximumBounds DEF BaseInv, MemoryType
  <1>2. /\ sequence' = base + 1 /\ current' = [current EXCEPT ![t].id = base + 1]
        /\ pc[t] = "id" /\ pc' = [pc EXCEPT ![t] = "phase1"] /\ mode' = "WRITE"
    BY DEF getTransactionId
  <1> HIDE DEF base
  <1>3. current[t] \in Commit /\ current'[t] = [current[t] EXCEPT !.id = base + 1]
    BY <1>2 DEF BaseInv, MemoryType
  <1>4. current'[t].id = base + 1 /\ current'[t].number = current[t].number
    BY <1>3 DEF Commit
  <1>5. QED  BY <1>1, <1>2, <1>4 DEF base, BaseInv, MemoryType

\* The write of an identifier, with the wrap.
LEMMA SlotWritten ==
  ASSUME BaseInv, NEW t \in Threads, writeEndTransaction(t)
  PROVE  /\ use.trtSize \in Nat /\ Slots = 0..use.trtSize
         /\ trt.slots \in [0..use.trtSize -> Nat] /\ pos \in 0..use.trtSize
         /\ current[t].id \in Nat \ {0}
         /\ trt'.slots = [trt.slots EXCEPT ![pos] = current[t].id] /\ trt'.exists = trt.exists
         /\ pos' = IF pos + 1 > use.trtSize THEN 0 ELSE pos + 1
  <1>1. DiskType /\ MemoryType
    BY DEF BaseInv
  <1>2. use.trtSize \in Nat
    BY <1>1, UsesAssumption DEF DiskType
  <1>3. QED  BY <1>1, <1>2 DEF DiskType, MemoryType, Slots, Commit, writeEndTransaction

\* The ring at the next write.
LEMMA RingWriteEnd ==
  ASSUME BaseInv, RingInv, OneCrossTable, NEW t \in Threads, writeEndTransaction(t)
  PROVE  /\ RingOK'
         /\ \A s \in 0..use.trtSize : trt.slots[s] < current[t].id
         /\ Ring(use.trtSize, trt.slots, pos)
         /\ current[t].id \in EntriesOf(use.trtSize, trt'.slots)
         /\ \A x \in Nat : Past(use.trtSize, trt.slots, x) => Past(use.trtSize, trt'.slots, x)
  <1> DEFINE n == use.trtSize
  <1> DEFINE v == current[t].id
  <1>1. /\ n \in Nat /\ Slots = 0..n /\ trt.slots \in [0..n -> Nat] /\ pos \in 0..n
        /\ v \in Nat \ {0} /\ trt'.slots = [trt.slots EXCEPT ![pos] = v]
        /\ pos' = IF pos + 1 > n THEN 0 ELSE pos + 1
    BY SlotWritten
  <1>2. pc[t] = "phase1" /\ mode = "WRITE" /\ Cross(t)
    BY DEF writeEndTransaction, BaseInv, ThreadOK, Cross
  <1>3. RingOK
    BY <1>2 DEF RingInv
  <1>4. /\ Ring(n, trt.slots, pos) /\ \A s \in 0..n : trt.slots[s] < v
        /\ v <= sequence /\ sequence \in Nat
    BY <1>1, <1>2, <1>3 DEF RingOK, BaseInv, MemoryType
  <1>5. /\ trt'.slots \in [0..n -> Nat] /\ Ring(n, trt'.slots, pos')
        /\ v \in EntriesOf(n, trt'.slots)
        /\ \A x \in Nat : Past(n, trt.slots, x) => Past(n, trt'.slots, x)
    <2> DEFINE f == trt.slots
    <2> DEFINE g == trt'.slots
    <2>1. /\ n \in Nat /\ f \in [0..n -> Nat] /\ pos \in 0..n /\ v \in Nat \ {0}
          /\ g = [f EXCEPT ![pos] = v] /\ pos' = IF pos + 1 > n THEN 0 ELSE pos + 1
          /\ Ring(n, f, pos) /\ \A s \in 0..n : f[s] < v
      BY <1>1, <1>4
    <2> HIDE DEF n, v, f, g
    <2>2. /\ g \in [0..n -> Nat] /\ Ring(n, g, pos') /\ v \in EntriesOf(n, g)
          /\ \A x \in Nat : Past(n, f, x) => Past(n, g, x)
      BY <2>1, RingWrite
    <2>3. QED  BY <2>2 DEF f, g
  <1>6. RingOK'
    <2>1. use' = use /\ sequence' = sequence /\ current' = current
          /\ pc' = [pc EXCEPT ![t] = "perform"]
      BY DEF writeEndTransaction, atomic
    <2>2. \A s \in Slots : trt'.slots[s] <= sequence
      BY <1>1, <1>3, <1>4 DEF RingOK
    <2>3. ASSUME NEW u \in Threads, pc'[u] = "phase1", current[u].id # 0 PROVE FALSE
      <3>1. u # t /\ Cross(u)
        BY <2>1, <2>3 DEF BaseInv, MemoryType, Cross
      <3>2. QED  BY <1>2, <3>1, CrossAlone
    <2>4. Ring(n, trt.slots, pos)'
      BY <1>5, <2>1
    <2>5. QED  BY <1>3, <2>1, <2>2, <2>3, <2>4 DEF RingOK, Slots
  <1>7. QED  BY <1>4, <1>5, <1>6

\* Every step keeps the ring.
LEMMA RingStep ==
  BaseInv /\ RingInv /\ [Next]_vars => RingInv'
  <1> SUFFICES ASSUME BaseInv, RingInv, [Next]_vars, OneCrossTable', mode' = "WRITE"
               PROVE  RingOK'
    BY DEF RingInv
  <1> DEFINE Same == UNCHANGED <<use, trt, pos, sequence>>
  <1>0. use' = use /\ OneCrossTable
    <2>1. use' = use
      BY DEF Next, Step, plan, getTransactionId, commitRealTime, writeEndTransaction, perform,
             return, Crash, recover, vars
    <2>2. QED  BY <2>1 DEF OneCrossTable
  <1>1. ASSUME Same, mode = "WRITE",
               \A u \in Threads : current'[u].id \in {current[u].id, 0}
                                  /\ (pc'[u] = "phase1" => pc[u] = "phase1" \/ current'[u].id = 0)
        PROVE  RingOK'
    <2>1. RingOK /\ sequence \in Nat
      BY <1>0, <1>1 DEF RingInv, BaseInv, MemoryType
    <2>2. QED  BY <1>1, <2>1 DEF RingOK, Slots
  <1>2. ASSUME NEW t \in Threads, getTransactionId(t) PROVE RingOK'
    <2> DEFINE base == IF mode = "WRITE" THEN sequence ELSE getMaximumTransaction + 1
    <2>1. /\ base \in Nat /\ sequence' = base + 1 /\ current'[t].id = base + 1
          /\ \A u \in Threads \ {t} : current'[u] = current[u] /\ pc'[u] = pc[u]
      BY <1>2, NewId
    <2>2. \A u \in Threads : current[u].id \in Nat
      BY DEF BaseInv, MemoryType, Commit
    <2>3. CASE mode = "WRITE"
      <3>1. RingOK /\ base = sequence /\ trt' = trt /\ pos' = pos
        BY <1>0, <1>2, <2>3 DEF RingInv, getTransactionId
      <3>2. \A s \in Slots : trt.slots[s] \in Nat /\ trt.slots[s] <= base
        BY <3>1 DEF RingOK, BaseInv, DiskType
      <3> HIDE DEF base
      <3>3. \A u \in Threads : current'[u].id <= sequence'
        BY <2>1, <2>2, <3>1 DEF RingOK
      <3>4. \A s \in Slots : trt.slots[s] <= sequence' /\ trt.slots[s] < current'[t].id
        BY <2>1, <3>2
      <3>5. QED  BY <1>0, <2>1, <3>1, <3>3, <3>4 DEF RingOK, Slots
    <2>4. CASE mode # "WRITE"
      <3>1. trt'.slots = Empty /\ pos' = 0
        BY <1>2, <2>4 DEF getTransactionId
      <3>2. \A s \in Slots : Empty[s] = 0
        BY DEF Empty
      <3>3. \A u \in Threads \ {t} : current[u].id = 0
        BY <2>4 DEF BaseInv, ThreadOK
      <3> HIDE DEF base
      <3>4. Ring(use.trtSize, Empty, 0)
        BY <3>2 DEF Ring, Slots
      <3>5. \A u \in Threads : current'[u].id <= sequence'
        BY <2>1, <3>3
      <3>6. \A s \in Slots : trt'.slots[s] <= sequence' /\ trt'.slots[s] < current'[t].id
        BY <2>1, <3>1, <3>2
      <3>7. Ring(use.trtSize, trt.slots, pos)'
        BY <1>0, <3>1, <3>4
      <3>8. QED  BY <1>0, <2>1, <3>3, <3>5, <3>6, <3>7 DEF RingOK, Slots
    <2>5. QED  BY <2>3, <2>4
  <1>3. ASSUME NEW t \in Threads, NEW tables \in SUBSET Tables, plan(t, tables) PROVE RingOK'
    <2>1. Same /\ mode = "WRITE"
      BY <1>3 DEF plan, disk, atomic
    <2>2. \A u \in Threads \ {t} : current'[u] = current[u] /\ pc'[u] = pc[u]
      BY <1>3 DEF plan, BaseInv, MemoryType
    <2>3. current'[t].id = 0
      BY <1>3 DEF plan, BaseInv, MemoryType
    <2>4. QED  BY <1>1, <2>1, <2>2, <2>3
  <1>4. ASSUME NEW t \in Threads, commitRealTime(t) PROVE RingOK'
    BY <1>1, <1>4 DEF commitRealTime, atomic
  <1>5. ASSUME NEW t \in Threads, writeEndTransaction(t) PROVE RingOK'
    BY <1>0, <1>5, RingWriteEnd
  <1>6. ASSUME NEW t \in Threads, perform(t) PROVE RingOK'
    <2>1. Same /\ mode = "WRITE" /\ current' = current
      BY <1>6 DEF perform, atomic
    <2>2. \A u \in Threads : pc'[u] = "phase1" => pc[u] = "phase1"
      BY <1>6 DEF perform, BaseInv, MemoryType
    <2>3. QED  BY <1>1, <2>1, <2>2
  <1>7. ASSUME NEW t \in Threads, return(t) PROVE RingOK'
    <2>1. Same /\ mode = "WRITE"
      BY <1>7 DEF return, disk, atomic
    <2>2. \A u \in Threads : current'[u].id \in {current[u].id, 0} /\ (pc'[u] = "phase1" => pc[u] = "phase1")
      BY <1>7 DEF return, BaseInv, MemoryType, NoCommit
    <2>3. QED  BY <1>1, <2>1, <2>2
  <1>8. ~Crash /\ \A b \in Tables : ~recover(b)
    BY DEF Crash, recover
  <1>9. CASE UNCHANGED vars
    BY <1>1, <1>9 DEF vars
  <1>10. QED
    BY <1>2, <1>3, <1>4, <1>5, <1>6, <1>7, <1>8, <1>9 DEF Next, Step

-----------------------------------------------------------------------------
(* What was acknowledged survives a crash *)

\* Recovery stops at identifier x, with the slots f of a file that exists or not.
Stops(n, exists, f, x) ==
    /\ exists /\ x # 0
    /\ x >= IF EntriesOf(n, f) = {} THEN 0 ELSE Min(EntriesOf(n, f))
    /\ x \notin EntriesOf(n, f)

\* Incomplete in terms of the slots.
LEMMA IncompleteStops ==
  ASSUME NEW e
  PROVE  /\ Incomplete(e) <=> Stops(use.trtSize, trt.exists, trt.slots, e.id)
         /\ Incomplete(e)' <=> Stops(use'.trtSize, trt'.exists, trt'.slots, e.id)
  BY DEF Incomplete, getMinimumTransaction, Entries, Slots, EntriesOf, Stops

\* Recovery does not stop at what is past.
LEMMA PastGoesOn ==
  ASSUME NEW n \in Nat, NEW f \in [0..n -> Nat], NEW x \in Nat, Past(n, f, x), NEW ex
  PROVE  ~Stops(n, ex, f, x)
  <1> DEFINE E == EntriesOf(n, f)
  <1>1. E \in SUBSET Nat /\ E # {}
    BY DEF EntriesOf, Past
  <1>2. Min(E) \in E
    BY <1>1, MinIsLeast
  <1>3. x \in E \/ \A y \in E : x < y
    BY DEF Past
  <1> HIDE DEF E
  <1>4. x \in E \/ ~(x >= Min(E))
    <2>1. Min(E) \in Nat
      BY <1>1, <1>2
    <2>2. x \in E \/ x < Min(E)
      BY <1>2, <1>3
    <2>3. QED  BY <2>1, <2>2
  <1>5. QED  BY <1>1, <1>4 DEF E, Stops

\* What is complete for good: with one thread that commits over several tables
\* the ring may forget the oldest identifiers.
Done(x, f) ==
    IF OneCrossTable THEN Past(use.trtSize, f, x) ELSE x \in EntriesOf(use.trtSize, f)

\* A commit between its identifier and the write of it.
Open(e) == \E t \in Threads : pc[t] = "phase1" /\ current[t] = e

\* What is not in s_syncFiles is synchronised.
SyncedInv ==
    /\ \A b \in Tables : b \notin syncFiles => logSafe[b] = Len(log[b])
    /\ 0 \notin syncFiles => trtSafe = trt.slots

\* What has been logged is complete or open; what has been synchronised is
\* complete by the synchronised deep.trt.
LogDone ==
    \A b \in Tables : \A i \in 1..Len(log[b]) :
        log[b][i].id # 0 => Done(log[b][i].id, trt.slots) \/ Open(log[b][i])

SafeDone ==
    \A b \in Tables : \A i \in 1..logSafe[b] :
        log[b][i].id # 0 => Done(log[b][i].id, trtSafe)

\* What has returned, or is about to, has been synchronised.
Kept(b, c) == \E i \in 1..logSafe[b] : log[b][i].number = c

AckedKept ==
    /\ \A c \in acked : \A b \in made[c] : Kept(b, c)
    /\ \A t \in Threads : pc[t] = "phase2" =>
          \A b \in made[current[t].number] : Kept(b, current[t].number)

\* With one thread that commits over several tables at most one identifier is
\* not synchronised.
OneTrt ==
    \/ trtSafe = trt.slots
    \/ \E p \in Slots, t \in Threads :
          /\ pc[t] \in {"perform", "waiting"} /\ current[t].id # 0
          /\ Ring(use.trtSize, trtSafe, p)
          /\ trt.slots = [trtSafe EXCEPT ![p] = current[t].id]
          /\ \A s \in Slots : trtSafe[s] < current[t].id

\* With several threads and no more commits than slots, no slot is used twice.
Pending == {t \in Threads : pc[t] = "id" \/ (pc[t] = "phase1" /\ current[t].id # 0)}

ManyTrt ==
    /\ \A s \in Slots : trtSafe[s] # 0 => trt.slots[s] = trtSafe[s]
    /\ \E w \in 0..(use.trtSize + 1) :
          /\ \A s \in Slots : trt.slots[s] # 0 <=> s < w
          /\ w + Cardinality(Pending) <= Len(made)
          /\ pos = w \/ w = use.trtSize + 1

TrtInv == IF OneCrossTable THEN OneTrt ELSE ManyTrt

\* Until the first crash.
FirstRun ==
    /\ mounted = Tables /\ mode # "READ"
    /\ mode = "none" => trt.slots = Empty /\ trtSafe = Empty /\ pos = 0
    /\ SyncedInv /\ LogDone /\ SafeDone /\ AckedKept /\ TrtInv

\* From the first crash on: a table has the commits that returned, or will have
\* them when it is recovered.
Recoverable(b, c) ==
    \E i \in 1..Len(log[b]) :
        log[b][i].number = c /\ \A j \in 1..i : ~Incomplete(log[b][j])

SecondRun ==
    \A c \in acked : \A b \in made[c] : IF b \in mounted THEN Has(b, c) ELSE Recoverable(b, c)

SafeInv == (crashes = 0 => FirstRun) /\ (crashes = 1 => SecondRun)

\* deep.trt has a slot for every commit so far.
NotWrapped == Len(made) <= use.trtSize + 1

\* A step of a thread forgets nothing.
LEMMA ThreadGrows ==
  ASSUME BaseInv, NEW t \in Threads, Step(t) \/ \E tables \in SUBSET Tables : plan(t, tables)
  PROVE  Grows /\ crashes' = crashes /\ mounted = Tables
  <1>1. /\ use' = use /\ mounted' = mounted /\ mode' \in {mode, "WRITE"} /\ crashes' = crashes
    BY DEF Step, plan, getTransactionId, commitRealTime, writeEndTransaction, perform, return,
           disk, atomic, sync
  <1>2. \A n \in DOMAIN made : n \in DOMAIN made' /\ made'[n] = made[n]
    <2>1. CASE Step(t)
      BY <2>1 DEF Step, getTransactionId, commitRealTime, writeEndTransaction, perform, return
    <2>2. CASE \E tables \in SUBSET Tables : plan(t, tables)
      <3>1. PICK tables \in SUBSET Tables : made' = Append(made, tables)
        BY <2>2 DEF plan
      <3>2. made \in Seq(SUBSET Tables)
        BY DEF BaseInv, MemoryType
      <3>3. QED  BY <3>1, <3>2, AppendProperties, LenProperties
    <2>3. QED  BY <2>1, <2>2
  <1>3. \A d \in Tables : \A c : Has(d, c) => Has(d, c)'
    <2>1. CASE commitRealTime(t)
      <3>1. PICK b \in Tables, e \in Commit : log' = [log EXCEPT ![b] = Append(@, e)]
        BY <2>1, CommitTable
      <3>2. QED  BY <3>1, LogAppend DEF BaseInv
    <2>2. CASE log' = log
      BY <2>2 DEF Has
    <2>3. QED
      BY <2>1, <2>2 DEF Step, plan, getTransactionId, writeEndTransaction, perform, return, disk
  <1>4. mounted = Tables
    <2>1. pc[t] # "idle" \/ mounted = Tables
      BY DEF Step, plan, getTransactionId, commitRealTime, writeEndTransaction, perform, return
    <2>2. QED  BY <2>1 DEF BaseInv, ThreadOK
  <1>5. QED  BY <1>1, <1>2, <1>3, <1>4 DEF Grows

\* The number of identifiers still to be written changes with the thread that
\* moves.
LEMMA PendingStep ==
  ASSUME NEW t \in Threads, Others(t)
  PROVE  /\ Cardinality(Pending) \in Nat /\ Cardinality(Pending') \in Nat
         /\ Cardinality(Pending') =
               Cardinality(Pending) + (IF t \in Pending' THEN 1 ELSE 0)
                                    - (IF t \in Pending THEN 1 ELSE 0)
  <1>1. /\ IsFiniteSet(Pending) /\ Cardinality(Pending) \in Nat
        /\ IsFiniteSet(Pending') /\ Cardinality(Pending') \in Nat
    BY ThreadsAssumption, FS_Subset, FS_CardinalityType DEF Pending
  <1>2. Pending' \ {t} = Pending \ {t}
    BY DEF Pending, Others
  <1> DEFINE P == Pending
  <1> DEFINE Q == Pending'
  <1> HIDE DEF P, Q
  <1>3. Cardinality(P \ {t}) = IF t \in P THEN Cardinality(P) - 1 ELSE Cardinality(P)
    BY <1>1, FS_RemoveElement DEF P
  <1>4. Cardinality(Q \ {t}) = IF t \in Q THEN Cardinality(Q) - 1 ELSE Cardinality(Q)
    BY <1>1, FS_RemoveElement DEF Q
  <1>5. Cardinality(P) \in Nat /\ Cardinality(Q) \in Nat /\ Q \ {t} = P \ {t}
    BY <1>1, <1>2 DEF P, Q
  <1>6. Cardinality(Q) = Cardinality(P) + (IF t \in Q THEN 1 ELSE 0) - (IF t \in P THEN 1 ELSE 0)
    BY <1>3, <1>4, <1>5
  <1>7. QED  BY <1>1, <1>6 DEF P, Q

\* A step that changes no file.
LEMMA FirstQuiet ==
  ASSUME BaseInv, FirstRun, use' = use, mounted' = mounted,
         mode' # "READ", mode' = "none" => mode = "none",
         UNCHANGED <<log, logSafe, trtSafe, pos, syncFiles>>, trt'.slots = trt.slots,
         \A n \in DOMAIN made : n \in DOMAIN made' /\ made'[n] = made[n],
         \A u \in Threads : pc[u] = "phase1" /\ current[u].id # 0 =>
             pc'[u] = "phase1" /\ current'[u] = current[u],
         \A u \in Threads : pc[u] \in {"perform", "waiting"} =>
             pc'[u] \in {"perform", "waiting"} /\ current'[u] = current[u],
         \A u \in Threads : pc'[u] = "phase2" => pc[u] = "phase2" /\ current'[u] = current[u],
         \A c \in acked' : c \in acked \/ \E u \in Threads : pc[u] = "phase2" /\ current[u].number = c,
         Cardinality(Pending) \in Nat, Cardinality(Pending') \in Nat,
         Len(made') \in Nat,
         Cardinality(Pending') + Len(made) <= Cardinality(Pending) + Len(made')
  PROVE  FirstRun'
  <1>1. (OneCrossTable' <=> OneCrossTable) /\ Slots' = Slots /\ Empty' = Empty
    BY DEF OneCrossTable, Slots, Empty
  <1>2. SyncedInv'
    BY DEF FirstRun, SyncedInv
  <1>3. LogDone'
    <2> SUFFICES ASSUME NEW b \in Tables, NEW i \in 1..Len(log[b]), log[b][i].id # 0
                 PROVE  Done(log[b][i].id, trt.slots)' \/ Open(log[b][i])'
      BY DEF LogDone
    <2>1. Done(log[b][i].id, trt.slots) \/ Open(log[b][i])
      BY DEF FirstRun, LogDone
    <2>2. Done(log[b][i].id, trt.slots) => Done(log[b][i].id, trt.slots)'
      BY <1>1 DEF Done
    <2>3. Open(log[b][i]) => Open(log[b][i])'
      BY DEF Open
    <2>4. QED  BY <2>1, <2>2, <2>3
  <1>4. SafeDone'
    BY <1>1 DEF FirstRun, SafeDone, Done
  <1>5. AckedKept'
    <2>1. MemoryType /\ \A u \in Threads : pc[u] = "phase2" => current[u].number \in DOMAIN made
      BY DEF BaseInv, ThreadOK
    <2>2. \A b, c : Kept(b, c)' <=> Kept(b, c)
      BY DEF Kept
    <2>3. ASSUME NEW c \in acked' PROVE \A b \in made'[c] : Kept(b, c)
      BY <2>1 DEF MemoryType, FirstRun, AckedKept
    <2>4. ASSUME NEW u \in Threads, pc'[u] = "phase2"
          PROVE  \A b \in made'[current'[u].number] : Kept(b, current'[u].number)
      BY <2>1, <2>4 DEF FirstRun, AckedKept
    <2>5. QED  BY <2>2, <2>3, <2>4 DEF AckedKept, Kept
  <1>6. TrtInv'
    <2>1. CASE OneCrossTable
      <3>1. OneTrt
        BY <2>1 DEF FirstRun, TrtInv
      <3>2. ASSUME trtSafe = trt.slots PROVE OneTrt'
        BY <3>2 DEF OneTrt
      <3>3. ASSUME trtSafe # trt.slots PROVE OneTrt'
        <4>1. PICK p \in Slots, u \in Threads :
                 /\ pc[u] \in {"perform", "waiting"} /\ current[u].id # 0
                 /\ Ring(use.trtSize, trtSafe, p)
                 /\ trt.slots = [trtSafe EXCEPT ![p] = current[u].id]
                 /\ \A s \in Slots : trtSafe[s] < current[u].id
          BY <3>1, <3>3 DEF OneTrt
        <4>2. /\ pc'[u] \in {"perform", "waiting"} /\ current'[u].id # 0
              /\ Ring(use'.trtSize, trtSafe', p)
              /\ trt'.slots = [trtSafe' EXCEPT ![p] = current'[u].id]
              /\ \A s \in Slots' : trtSafe'[s] < current'[u].id
          BY <1>1, <4>1
        <4>3. QED  BY <1>1, <4>2 DEF OneTrt
      <3>4. OneTrt'
        BY <3>2, <3>3
      <3>5. QED  BY <1>1, <2>1, <3>4 DEF TrtInv
    <2>2. CASE ~OneCrossTable
      <3>1. ManyTrt /\ Len(made) \in Nat /\ use.trtSize \in Nat
        BY <2>2, LenProperties, UsesAssumption DEF FirstRun, TrtInv, BaseInv, MemoryType, DiskType
      <3>2. PICK w \in 0..(use.trtSize + 1) :
               /\ \A s \in Slots : trt.slots[s] # 0 <=> s < w
               /\ w + Cardinality(Pending) <= Len(made)
               /\ pos = w \/ w = use.trtSize + 1
        BY <3>1 DEF ManyTrt
      <3>3. w + Cardinality(Pending') <= Len(made')
        BY <3>1, <3>2
      <3>4. ManyTrt'
        BY <1>1, <3>1, <3>2, <3>3 DEF ManyTrt
      <3>5. QED  BY <1>1, <2>2, <3>4 DEF TrtInv
    <2>3. QED  BY <2>1, <2>2
  <1>7. QED  BY <1>1, <1>2, <1>3, <1>4, <1>5, <1>6 DEF FirstRun

\* Before the first crash: plan, the identifier, the return.
LEMMA FirstMemory ==
  ASSUME BaseInv, FirstRun, NEW t \in Threads,
         (\E tables \in SUBSET Tables : plan(t, tables)) \/ getTransactionId(t) \/ return(t)
  PROVE  FirstRun'
  <1>1. Grows
    BY ThreadGrows DEF Step
  <1>2. MemoryType /\ Len(made) \in Nat
    BY LenProperties DEF BaseInv, MemoryType
  <1>3. \A u \in Threads \ {t} : pc'[u] = pc[u] /\ current'[u] = current[u] /\ todo'[u] = todo[u]
    BY <1>2 DEF MemoryType, plan, getTransactionId, return
  <1>4. Others(t)
    BY <1>3 DEF Others
  <1>5. CASE \E tables \in SUBSET Tables : plan(t, tables)
    <2>1. PICK tables \in SUBSET Tables : plan(t, tables)
      BY <1>5
    <2>2. Len(made') = Len(made) + 1
      BY <1>2, <2>1, AppendProperties DEF plan, MemoryType
    <2>3. /\ pc[t] = "idle" /\ pc'[t] \in {"id", "phase1"}
          /\ UNCHANGED <<use, log, logSafe, trt, trtSafe, pos, mode, sequence, mounted, syncFiles, acked>>
      BY <1>2, <2>1 DEF plan, disk, atomic, MemoryType
    <2>4. /\ Cardinality(Pending) \in Nat /\ Cardinality(Pending') \in Nat
          /\ Cardinality(Pending') <= Cardinality(Pending) + 1
      BY <1>4, PendingStep
    <2>5. Cardinality(Pending') + Len(made) <= Cardinality(Pending) + Len(made') /\ Len(made') \in Nat
      BY <1>2, <2>2, <2>4
    <2>6. mode # "READ"
      BY DEF FirstRun
    <2>7. QED  BY <1>1, <1>3, <2>3, <2>4, <2>5, <2>6, FirstQuiet DEF Grows
  <1>6. CASE getTransactionId(t)
    <2>1. /\ pc[t] = "id" /\ pc'[t] = "phase1" /\ mode' = "WRITE"
          /\ UNCHANGED <<use, log, logSafe, mounted, syncFiles, acked, made>>
      BY <1>2, <1>6 DEF getTransactionId, sync, MemoryType
    <2>2. trt'.slots = trt.slots /\ trtSafe' = trtSafe /\ pos' = pos
      BY <1>2, <1>6 DEF getTransactionId, FirstRun, MemoryType
    <2>3. current'[t].id # 0
      BY <1>6, NewId
    <2>4. t \in Pending /\ t \in Pending'
      BY <2>1, <2>3 DEF Pending
    <2>5. /\ Cardinality(Pending) \in Nat /\ Cardinality(Pending') \in Nat
          /\ Cardinality(Pending') = Cardinality(Pending)
      BY <1>4, <2>4, PendingStep
    <2>6. Cardinality(Pending') + Len(made) <= Cardinality(Pending) + Len(made') /\ Len(made') \in Nat
      BY <1>2, <2>1, <2>5
    <2>7. QED  BY <1>1, <1>3, <2>1, <2>2, <2>5, <2>6, FirstQuiet DEF Grows
  <1>7. CASE return(t)
    <2>1. /\ pc[t] = "phase2" /\ pc'[t] = "idle" /\ acked' = acked \cup {current[t].number}
          /\ UNCHANGED <<use, log, logSafe, trt, trtSafe, pos, mode, sequence, mounted, syncFiles, made>>
      BY <1>2, <1>7 DEF return, disk, atomic, sync, MemoryType
    <2>2. t \notin Pending /\ t \notin Pending'
      BY <2>1 DEF Pending
    <2>3. /\ Cardinality(Pending) \in Nat /\ Cardinality(Pending') \in Nat
          /\ Cardinality(Pending') = Cardinality(Pending)
      BY <1>4, <2>2, PendingStep
    <2>4. Cardinality(Pending') + Len(made) <= Cardinality(Pending) + Len(made') /\ Len(made') \in Nat
      BY <1>2, <2>1, <2>3
    <2>5. mode # "READ"
      BY DEF FirstRun
    <2>6. QED  BY <1>1, <1>3, <2>1, <2>3, <2>4, <2>5, FirstQuiet DEF Grows
  <1>8. QED  BY <1>5, <1>6, <1>7

\* Before the first crash: a log grows by the entry of an open commit.
LEMMA FirstCommitRealTime ==
  ASSUME BaseInv, FirstRun, NEW t \in Threads, commitRealTime(t)
  PROVE  FirstRun'
  <1>1. DiskType /\ MemoryType
    BY DEF BaseInv
  <1>2. PICK b \in Tables, e \in Commit :
           /\ b \in todo[t] /\ e = current[t]
           /\ log' = [log EXCEPT ![b] = Append(@, e)]
           /\ syncFiles' = syncFiles \cup {b}
    BY CommitTable
  <1>3. /\ pc[t] = "phase1"
        /\ UNCHANGED <<use, logSafe, trt, trtSafe, pos, mode, mounted, pc, current, made, acked>>
    BY DEF commitRealTime, atomic
  <1>4. /\ Len(log'[b]) = Len(log[b]) + 1 /\ log'[b][Len(log[b]) + 1] = e
        /\ \A i \in 1..Len(log[b]) : log'[b][i] = log[b][i]
        /\ \A d \in Tables \ {b} : log'[d] = log[d]
    BY <1>1, <1>2, LogAppend
  <1>5. \A d \in Tables : Len(log[d]) \in Nat /\ logSafe[d] \in Nat /\ logSafe[d] <= Len(log[d])
    BY <1>1, LenProperties DEF DiskType
  <1>6. \A d \in Tables : \A i \in 1..Len(log[d]) : log'[d][i] = log[d][i]
    BY <1>4
  <1>7. \A d \in Tables : \A i \in 1..logSafe[d] : i \in 1..Len(log[d]) /\ log'[d][i] = log[d][i]
    BY <1>5, <1>6
  <1>8. (OneCrossTable' <=> OneCrossTable) /\ Slots' = Slots /\ Empty' = Empty
    BY <1>3 DEF OneCrossTable, Slots, Empty
  <1>9. SyncedInv'
    <2>1. b # 0
      BY DEF Tables
    <2>2. QED  BY <1>2, <1>3, <1>4, <2>1 DEF FirstRun, SyncedInv
  <1>10. LogDone'
    <2> SUFFICES ASSUME NEW d \in Tables, NEW i \in 1..Len(log'[d]), log'[d][i].id # 0
                 PROVE  Done(log[d][i].id, trt.slots)' \/ Open(log[d][i])'
      BY DEF LogDone
    <2>1. CASE i \in 1..Len(log[d])
      <3>1. Done(log[d][i].id, trt.slots) \/ Open(log[d][i])
        BY <1>6, <2>1 DEF FirstRun, LogDone
      <3>2. log'[d][i] = log[d][i]
        BY <1>6, <2>1
      <3>3. QED  BY <1>3, <1>8, <3>1, <3>2 DEF Done, Open
    <2>2. CASE i \notin 1..Len(log[d])
      <3>1. d = b /\ i = Len(log[b]) + 1
        BY <1>4, <1>5, <2>2
      <3>2. log'[d][i] = current[t]
        BY <1>2, <1>4, <3>1
      <3>3. QED  BY <1>3, <3>2 DEF Open
    <2>3. QED  BY <2>1, <2>2
  <1>11. SafeDone'
    BY <1>3, <1>7, <1>8 DEF FirstRun, SafeDone, Done
  <1>12. AckedKept'
    <2>1. \A n \in DOMAIN made : made[n] \in SUBSET Tables
      BY <1>1, ElementOfSeq, LenProperties DEF MemoryType
    <2>2. \A d \in Tables : \A c : Kept(d, c) => Kept(d, c)'
      BY <1>3, <1>7 DEF Kept
    <2>3. \A c \in acked : \A d \in made[c] : d \in Tables /\ Kept(d, c)
      BY <1>1, <2>1 DEF FirstRun, AckedKept, MemoryType
    <2>4. ASSUME NEW u \in Threads, pc[u] = "phase2"
          PROVE  \A d \in made[current[u].number] : d \in Tables /\ Kept(d, current[u].number)
      BY <2>1, <2>4 DEF FirstRun, AckedKept, BaseInv, ThreadOK
    <2>5. \A u \in Threads : pc'[u] = "phase2" =>
              \A d \in made[current[u].number] : Kept(d, current[u].number)'
      BY <1>3, <2>2, <2>4 DEF Kept
    <2>6. QED  BY <1>3, <2>2, <2>3, <2>5 DEF AckedKept
  <1>13. TrtInv'
    BY <1>3, <1>8 DEF FirstRun, TrtInv, OneTrt, ManyTrt, Pending
  <1>14. QED  BY <1>3, <1>8, <1>9, <1>10, <1>11, <1>12, <1>13 DEF FirstRun

\* Before the first crash, several threads: the identifier goes to a free slot.
LEMMA ManyWrite ==
  ASSUME BaseInv, ~OneCrossTable, NotWrapped, ManyTrt, NEW t \in Threads, writeEndTransaction(t)
  PROVE  /\ ManyTrt'
         /\ current[t].id \in EntriesOf(use.trtSize, trt'.slots)
         /\ EntriesOf(use.trtSize, trt.slots) \subseteq EntriesOf(use.trtSize, trt'.slots)
  <1> DEFINE n == use.trtSize
  <1> DEFINE f == trt.slots
  <1> DEFINE g == trt'.slots
  <1> DEFINE v == current[t].id
  <1>1. /\ n \in Nat /\ Slots = 0..n /\ f \in [0..n -> Nat] /\ pos \in 0..n /\ v \in Nat \ {0}
        /\ g = [f EXCEPT ![pos] = v] /\ pos' = IF pos + 1 > n THEN 0 ELSE pos + 1
    BY SlotWritten
  <1>2. PICK w \in 0..(n + 1) :
           /\ \A s \in Slots : f[s] # 0 <=> s < w
           /\ w + Cardinality(Pending) <= Len(made)
           /\ pos = w \/ w = n + 1
    BY DEF ManyTrt
  <1>3. /\ UNCHANGED <<use, made, trtSafe, current, todo>> /\ pc[t] = "phase1"
        /\ pc' = [pc EXCEPT ![t] = "perform"] /\ v # 0
    BY DEF writeEndTransaction, atomic
  <1>4. Others(t) /\ t \in Pending /\ t \notin Pending'
    BY <1>3 DEF BaseInv, MemoryType, Others, Pending
  <1>5. /\ Cardinality(Pending) \in Nat /\ Cardinality(Pending') \in Nat
        /\ Cardinality(Pending') = Cardinality(Pending) - 1
    BY <1>4, PendingStep
  <1>6. Len(made) \in Nat /\ Len(made) <= n + 1
    BY LenProperties DEF BaseInv, MemoryType, NotWrapped
  <1>7. w \in 0..n /\ pos = w
    BY <1>1, <1>2, <1>5, <1>6
  <1> HIDE DEF f, g, n, v
  <1>8. g[pos] = v /\ \A s \in 0..n : s # pos => g[s] = f[s]
    BY <1>1
  <1>9. \A s \in 0..n : g[s] # 0 <=> s < w + 1
    BY <1>1, <1>2, <1>7, <1>8
  <1>10. ManyTrt'
    <2>1. \A s \in Slots : trtSafe[s] # 0 => s # pos
      <3>1. f[pos] = 0 /\ pos \in Slots
        BY <1>1, <1>2, <1>7
      <3>2. \A s \in Slots : trtSafe[s] # 0 => f[s] # 0
        BY DEF ManyTrt, f
      <3>3. QED  BY <3>1, <3>2
    <2>2. \A s \in Slots : trtSafe[s] # 0 => g[s] = trtSafe[s]
      BY <1>1, <1>8, <2>1 DEF ManyTrt, f
    <2>3. w + 1 \in 0..(n + 1) /\ w + 1 + Cardinality(Pending') <= Len(made)
      BY <1>1, <1>2, <1>5, <1>6, <1>7
    <2>4. pos' = w + 1 \/ w + 1 = n + 1
      BY <1>1, <1>7
    <2>5. Slots' = Slots
      BY <1>3 DEF Slots
    <2>6. QED  BY <1>1, <1>3, <1>9, <2>2, <2>3, <2>4, <2>5 DEF ManyTrt, g, n
  <1>11. v \in EntriesOf(n, g)
    <2>1. \A u \in 0..pos : g[u] # 0
      BY <1>1, <1>7, <1>9
    <2>2. QED  BY <1>1, <1>8, <2>1 DEF EntriesOf
  <1>12. EntriesOf(n, f) \subseteq EntriesOf(n, g)
    <2> SUFFICES ASSUME NEW x \in EntriesOf(n, f) PROVE x \in EntriesOf(n, g)
      OBVIOUS
    <2>1. PICK s \in 0..n : x = f[s] /\ \A u \in 0..s : f[u] # 0
      BY DEF EntriesOf
    <2>2. s < w
      <3>1. f[s] # 0
        BY <2>1
      <3>2. QED  BY <1>1, <1>2, <3>1
    <2>3. \A u \in 0..s : u \in 0..n /\ u < w + 1
      <3>1. n \in Nat /\ w \in Nat /\ s \in 0..n
        BY <1>1, <1>7
      <3>2. QED  BY <2>2, <3>1
    <2>4. \A u \in 0..s : g[u] # 0
      BY <1>9, <2>3
    <2>5. g[s] = x
      BY <1>7, <1>8, <2>1, <2>2
    <2>6. QED  BY <2>4, <2>5 DEF EntriesOf
  <1>13. QED  BY <1>10, <1>11, <1>12 DEF f, g, n, v

\* Before the first crash: an open commit is complete.
LEMMA FirstWriteEnd ==
  ASSUME BaseInv, RingInv, FirstRun, NotWrapped \/ OneCrossTable,
         NEW t \in Threads, writeEndTransaction(t)
  PROVE  FirstRun'
  <1>1. DiskType /\ MemoryType
    BY DEF BaseInv
  <1>2. /\ UNCHANGED <<use, log, logSafe, trtSafe, mode, mounted, current, todo, made, acked>>
        /\ syncFiles' = syncFiles \cup {0} /\ pc[t] = "phase1" /\ current[t].id # 0
        /\ pc' = [pc EXCEPT ![t] = "perform"]
    BY DEF writeEndTransaction, atomic
  <1>3. pc'[t] = "perform" /\ \A u \in Threads \ {t} : pc'[u] = pc[u]
    BY <1>1, <1>2 DEF MemoryType
  <1>4. (OneCrossTable' <=> OneCrossTable) /\ Slots' = Slots /\ Empty' = Empty
    BY <1>2 DEF OneCrossTable, Slots, Empty
  <1>5. mode = "WRITE"
    BY <1>2 DEF BaseInv, ThreadOK
  <1>6. SyncedInv'
    <2>1. 0 \notin Tables
      BY DEF Tables
    <2>2. QED  BY <1>2, <2>1 DEF FirstRun, SyncedInv
  <1>7. /\ TrtInv'
        /\ Done(current[t].id, trt'.slots)
        /\ \A x \in Nat : Done(x, trt.slots) => Done(x, trt'.slots)
    <2>1. CASE OneCrossTable
      <3>1. /\ \A s \in 0..use.trtSize : trt.slots[s] < current[t].id
            /\ Ring(use.trtSize, trt.slots, pos)
            /\ current[t].id \in EntriesOf(use.trtSize, trt'.slots)
            /\ \A x \in Nat : Past(use.trtSize, trt.slots, x) => Past(use.trtSize, trt'.slots, x)
        BY <2>1, RingWriteEnd
      <3>2. trtSafe = trt.slots
        <4> SUFFICES ASSUME trtSafe # trt.slots PROVE FALSE
          OBVIOUS
        <4>1. PICK u \in Threads : pc[u] \in {"perform", "waiting"} /\ current[u].id # 0
          BY <2>1 DEF FirstRun, TrtInv, OneTrt
        <4>2. Cross(u) /\ Cross(t) /\ u # t
          BY <1>2, <4>1 DEF Cross
        <4>3. QED  BY <2>1, <4>2, CrossAlone
      <3>3. trt'.slots = [trtSafe' EXCEPT ![pos] = current'[t].id] /\ pos \in Slots
        BY <1>2, <3>2, SlotWritten
      <3>4. OneTrt'
        <4>1. /\ pc'[t] \in {"perform", "waiting"} /\ current'[t].id # 0
              /\ Ring(use'.trtSize, trtSafe', pos)
              /\ \A s \in Slots' : trtSafe'[s] < current'[t].id
          BY <1>2, <1>3, <1>4, <3>1, <3>2 DEF Slots
        <4>2. QED  BY <1>4, <3>3, <4>1 DEF OneTrt
      <3>5. Past(use.trtSize, trt'.slots, current[t].id)
        BY <3>1 DEF Past
      <3>6. QED  BY <1>4, <2>1, <3>1, <3>4, <3>5 DEF TrtInv, Done
    <2>2. CASE ~OneCrossTable
      <3>1. NotWrapped /\ ManyTrt
        BY <2>2 DEF FirstRun, TrtInv
      <3>2. /\ ManyTrt'
            /\ current[t].id \in EntriesOf(use.trtSize, trt'.slots)
            /\ EntriesOf(use.trtSize, trt.slots) \subseteq EntriesOf(use.trtSize, trt'.slots)
        BY <2>2, <3>1, ManyWrite
      <3>3. QED  BY <1>4, <2>2, <3>2 DEF TrtInv, Done
    <2>3. QED  BY <2>1, <2>2
  <1>8. LogDone'
    <2> SUFFICES ASSUME NEW b \in Tables, NEW i \in 1..Len(log[b]), log[b][i].id # 0
                 PROVE  Done(log[b][i].id, trt.slots)' \/ Open(log[b][i])'
      BY <1>2 DEF LogDone
    <2>0. log[b][i].id \in Nat
      <3>1. log[b] \in Seq(Commit)
        BY <1>1 DEF DiskType
      <3>2. log[b][i] \in Commit
        BY <3>1, ElementOfSeq
      <3>3. QED  BY <3>2 DEF Commit
    <2>1. CASE Done(log[b][i].id, trt.slots)
      BY <1>2, <1>4, <1>7, <2>0, <2>1 DEF Done
    <2>2. CASE Open(log[b][i])
      <3>1. PICK u \in Threads : pc[u] = "phase1" /\ current[u] = log[b][i]
        BY <2>2 DEF Open
      <3>2. CASE u = t
        BY <1>2, <1>4, <1>7, <3>1, <3>2 DEF Done
      <3>3. CASE u # t
        BY <1>2, <1>3, <3>1, <3>3 DEF Open
      <3>4. QED  BY <3>2, <3>3
    <2>3. QED  BY <2>1, <2>2 DEF FirstRun, LogDone
  <1>9. SafeDone'
    BY <1>2, <1>4 DEF FirstRun, SafeDone, Done
  <1>10. AckedKept'
    <2>1. \A b, c : Kept(b, c)' <=> Kept(b, c)
      BY <1>2 DEF Kept
    <2>2. QED  BY <1>2, <1>3, <2>1 DEF FirstRun, AckedKept, Kept
  <1>11. QED  BY <1>2, <1>5, <1>6, <1>7, <1>8, <1>9, <1>10 DEF FirstRun

\* Before the first crash: a commit that is not the last of its group waits.
LEMMA FirstWait ==
  ASSUME BaseInv, FirstRun, NEW t \in Threads, perform(t), syncCount # 1
  PROVE  FirstRun'
  <1>1. MemoryType /\ Len(made) \in Nat
    BY LenProperties DEF BaseInv, MemoryType
  <1>2. /\ pc' = [pc EXCEPT ![t] = "waiting"]
        /\ UNCHANGED <<use, log, logSafe, trt, trtSafe, pos, mode, mounted, syncFiles, current,
                       todo, made, acked>>
        /\ pc[t] = "perform" \/ (pc[t] = "phase1" /\ current[t].id = 0)
    BY DEF perform, atomic
  <1>3. pc'[t] = "waiting" /\ \A u \in Threads \ {t} : pc'[u] = pc[u]
    BY <1>1, <1>2 DEF MemoryType
  <1>4. Others(t) /\ t \notin Pending /\ t \notin Pending'
    BY <1>2, <1>3 DEF Others, Pending
  <1>5. /\ Cardinality(Pending) \in Nat /\ Cardinality(Pending') \in Nat
        /\ Cardinality(Pending') = Cardinality(Pending)
    BY <1>4, PendingStep
  <1>6. Cardinality(Pending') + Len(made) <= Cardinality(Pending) + Len(made') /\ Len(made') \in Nat
    BY <1>1, <1>2, <1>5
  <1>7. mode' # "READ" /\ (mode' = "none" => mode = "none")
    BY <1>2 DEF FirstRun
  <1>8. /\ \A u \in Threads : pc[u] = "phase1" /\ current[u].id # 0 =>
               pc'[u] = "phase1" /\ current'[u] = current[u]
        /\ \A u \in Threads : pc[u] \in {"perform", "waiting"} =>
               pc'[u] \in {"perform", "waiting"} /\ current'[u] = current[u]
        /\ \A u \in Threads : pc'[u] = "phase2" => pc[u] = "phase2" /\ current'[u] = current[u]
    BY <1>2, <1>3
  <1>9. QED  BY <1>2, <1>5, <1>6, <1>7, <1>8, FirstQuiet

\* Before the first crash: the last of the group synchronises every log, and
\* nobody has an entry in a log without its identifier in deep.trt.
LEMMA FirstSynchronize ==
  ASSUME BaseInv, FirstRun, NEW t \in Threads, perform(t), syncCount = 1
  PROVE  FirstRun'
  <1>1. DiskType /\ MemoryType
    BY DEF BaseInv
  <1>2. /\ Synchronized
        /\ pc' = [u \in Threads |-> IF u = t \/ pc[u] = "waiting" THEN "phase2" ELSE pc[u]]
        /\ UNCHANGED <<use, log, trt, pos, mode, mounted, current, todo, made, acked>>
        /\ pc[t] = "perform" \/ (pc[t] = "phase1" /\ current[t].id = 0)
    BY DEF perform, atomic
  <1>3. Counted = {t}
    BY Performing, LastOne
  <1>4. ASSUME NEW u \in Threads
        PROVE  /\ pc'[u] \notin Busy
               /\ ~(pc[u] = "phase1" /\ current[u].id # 0)
    <2>1. pc[u] \in Busy => u = t
      BY <1>3 DEF Counted
    <2>2. pc'[u] \notin Busy
      BY <1>2, <2>1 DEF Busy
    <2>3. QED  BY <1>2, <2>1, <2>2 DEF Busy
  <1>5. \A b \in Tables : logSafe'[b] = Len(log[b])
    BY <1>2 DEF Synchronized, FirstRun, SyncedInv
  <1>6. trtSafe' = trt.slots /\ syncFiles' = {}
    BY <1>2 DEF Synchronized, FirstRun, SyncedInv
  <1>7. (OneCrossTable' <=> OneCrossTable) /\ Slots' = Slots /\ Empty' = Empty
    BY <1>2 DEF OneCrossTable, Slots, Empty
  <1>8. SyncedInv'
    BY <1>2, <1>5, <1>6 DEF SyncedInv
  <1>9. \A b \in Tables : \A i \in 1..Len(log[b]) :
            log[b][i].id # 0 => Done(log[b][i].id, trt.slots)
    BY <1>4 DEF FirstRun, LogDone, Open
  <1>10. LogDone' /\ SafeDone'
    <2>1. \A b \in Tables : \A i \in 1..Len(log'[b]) :
              log'[b][i].id # 0 => Done(log[b][i].id, trt.slots)'
      BY <1>2, <1>7, <1>9 DEF Done
    <2>2. LogDone'
      BY <2>1 DEF LogDone
    <2>3. SafeDone'
      BY <1>2, <1>5, <1>6, <1>7, <1>9 DEF SafeDone, Done
    <2>4. QED  BY <2>2, <2>3
  <1>11. AckedKept'
    <2>0. \A n \in DOMAIN made : made[n] \in SUBSET Tables
      BY <1>1, ElementOfSeq, LenProperties DEF MemoryType
    <2>1. \A b \in Tables : DOMAIN log[b] = 1..Len(log[b]) /\ Len(log[b]) \in Nat
                            /\ logSafe[b] \in Nat /\ logSafe[b] <= Len(log[b])
      BY <1>1, LenProperties DEF DiskType
    <2>2. \A b \in Tables : \A c : Has(b, c) => Kept(b, c)'
      BY <1>2, <1>5, <2>1 DEF Has, Kept
    <2>3. \A b \in Tables : \A c : Kept(b, c) => Has(b, c)
      BY <2>1 DEF Has, Kept
    <2>4. ASSUME NEW c \in acked PROVE \A b \in made[c] : b \in Tables /\ Kept(b, c)
      BY <1>1, <2>0 DEF MemoryType, FirstRun, AckedKept
    <2>5. ASSUME NEW u \in Threads, pc'[u] = "phase2"
          PROVE  \A b \in made[current[u].number] : b \in Tables /\ Has(b, current[u].number)
      <3>1. pc[u] # "idle" /\ todo[u] = {}
        BY <1>2, <2>5, Performing DEF BaseInv, ThreadOK
      <3>2. QED  BY <2>0, <3>1 DEF BaseInv, ThreadOK, Logged
    <2>6. \A c \in acked : \A b \in made[c] : Kept(b, c)'
      BY <2>2, <2>3, <2>4
    <2>7. \A u \in Threads : pc'[u] = "phase2" =>
              \A b \in made[current[u].number] : Kept(b, current[u].number)'
      <3>1. \A u \in Threads : pc'[u] = "phase2" => \A b \in made[current[u].number] :
                 b \in Tables /\ Has(b, current[u].number)
        BY <2>5
      <3>2. \A b \in Tables : \A c : Has(b, c) => \E i \in 1..logSafe'[b] : log'[b][i].number = c
        BY <2>2 DEF Kept
      <3>3. current' = current
        BY <1>2
      <3>4. QED  BY <3>1, <3>2, <3>3 DEF Kept
    <2>8. QED  BY <1>2, <2>6, <2>7 DEF AckedKept, Kept
  <1>12. TrtInv'
    <2>1. CASE OneCrossTable
      BY <1>2, <1>6, <1>7, <2>1 DEF TrtInv, OneTrt
    <2>2. CASE ~OneCrossTable
      <3>1. ManyTrt /\ Len(made) \in Nat /\ use.trtSize \in Nat
        BY <1>1, <2>2, LenProperties, UsesAssumption DEF FirstRun, TrtInv, MemoryType, DiskType
      <3>2. PICK w \in 0..(use.trtSize + 1) :
               /\ \A s \in Slots : trt.slots[s] # 0 <=> s < w
               /\ w + Cardinality(Pending) <= Len(made)
               /\ pos = w \/ w = use.trtSize + 1
        BY <3>1 DEF ManyTrt
      <3>3. Pending' = {}
        BY <1>4 DEF Pending, Busy
      <3>4. Cardinality(Pending') = 0 /\ Cardinality(Pending) \in Nat
        BY <3>3, FS_EmptySet, ThreadsAssumption, FS_Subset, FS_CardinalityType DEF Pending
      <3>5. w + Cardinality(Pending') <= Len(made)
        BY <3>1, <3>2, <3>4
      <3>6. ManyTrt'
        BY <1>2, <1>6, <1>7, <3>2, <3>5 DEF ManyTrt
      <3>7. QED  BY <1>7, <2>2, <3>6 DEF TrtInv
    <2>3. QED  BY <2>1, <2>2
  <1>13. QED  BY <1>2, <1>6, <1>7, <1>8, <1>10, <1>11, <1>12 DEF FirstRun

\* deep.trt after the first crash: what is complete by its synchronised part is
\* complete.
LEMMA CrashGoesOn ==
  ASSUME BaseInv, FirstRun, Crash, NEW x \in Nat, Done(x, trtSafe)
  PROVE  ~Stops(use.trtSize, trt'.exists, trt'.slots, x)
  <1> DEFINE n == use.trtSize
  <1> DEFINE f == trtSafe
  <1> DEFINE h == trt.slots
  <1> DEFINE g == trt'.slots
  <1>1. n \in Nat /\ Slots = 0..n /\ f \in [0..n -> Nat] /\ h \in [0..n -> Nat]
    BY UsesAssumption DEF BaseInv, DiskType, Slots
  <1>2. g \in [0..n -> Nat] /\ \E new \in SUBSET Slots : \A s \in 0..n : g[s] = IF s \in new THEN h[s] ELSE f[s]
    BY <1>1, CrashShape DEF BaseInv
  <1>3. PICK new \in SUBSET Slots : \A s \in 0..n : g[s] = IF s \in new THEN h[s] ELSE f[s]
    BY <1>2
  <1>4. CASE OneCrossTable
    <2>1. Past(n, f, x)
      BY <1>4 DEF Done
    <2>2. CASE f = h
      <3> HIDE DEF f, g, h, n
      <3>1. g = f
        BY <1>1, <1>2, <1>3, <2>2
      <3>2. QED  BY <1>1, <2>1, <3>1, PastGoesOn DEF g, n
    <2>3. CASE f # h
      <3>1. PICK p \in Slots, t \in Threads :
               /\ current[t].id # 0
               /\ Ring(n, f, p) /\ h = [f EXCEPT ![p] = current[t].id]
               /\ \A s \in Slots : f[s] < current[t].id
        BY <1>4, <2>3 DEF FirstRun, TrtInv, OneTrt
      <3> DEFINE v == current[t].id
      <3>2. v \in Nat \ {0}
        BY <3>1 DEF BaseInv, MemoryType, Commit
      <3>3. /\ p \in 0..n /\ Ring(n, f, p) /\ h = [f EXCEPT ![p] = v] /\ \A s \in 0..n : f[s] < v
        BY <1>1, <3>1
      <3> HIDE DEF f, g, h, n, v
      <3>4. Past(n, h, x)
        BY <1>1, <2>1, <3>2, <3>3, RingWrite
      <3>5. g = f \/ g = h
        BY <1>1, <1>2, <1>3, <3>3
      <3>6. QED  BY <1>1, <2>1, <3>4, <3>5, PastGoesOn DEF g, n
    <2>4. QED  BY <2>2, <2>3
  <1>5. CASE ~OneCrossTable
    <2>1. x \in EntriesOf(n, f)
      BY <1>5 DEF Done
    <2>2. \A s \in 0..n : f[s] # 0 => h[s] = f[s]
      BY <1>1, <1>5 DEF FirstRun, TrtInv, ManyTrt
    <2> HIDE DEF f, g, h, n
    <2>3. PICK s \in 0..n : x = f[s] /\ \A u \in 0..s : f[u] # 0
      BY <2>1 DEF EntriesOf
    <2>4. \A u \in 0..s : u \in 0..n /\ g[u] = f[u]
      BY <1>1, <1>3, <2>2, <2>3
    <2>5. s \in 0..s
      BY <1>1
    <2>6. x \in EntriesOf(n, g)
      BY <2>3, <2>4, <2>5 DEF EntriesOf
    <2>7. QED  BY <2>6 DEF Stops, g, n
  <1>6. QED  BY <1>4, <1>5

\* The first crash.
LEMMA FirstCrash ==
  ASSUME BaseInv, FirstRun, Crash
  PROVE  SecondRun'
  <1>1. DiskType /\ MemoryType
    BY DEF BaseInv
  <1>2. mounted' = {} /\ UNCHANGED <<use, made, acked>>
    BY DEF Crash
  <1>3. \A b \in Tables :
           /\ Len(log'[b]) \in logSafe[b]..Len(log[b])
           /\ \A i \in 1..Len(log'[b]) : log'[b][i] = log[b][i]
    BY <1>1, CrashShape
  <1>4. \A b \in Tables : logSafe[b] \in Nat /\ Len(log[b]) \in Nat /\ logSafe[b] <= Len(log[b])
                          /\ log[b] \in Seq(Commit)
    BY <1>1, LenProperties DEF DiskType
  <1>5. ASSUME NEW b \in Tables, NEW j \in 1..logSafe[b]
        PROVE  j \in 1..Len(log'[b]) /\ log'[b][j] = log[b][j] /\ ~Incomplete(log[b][j])'
    <2>1. j \in 1..Len(log'[b]) /\ j \in 1..Len(log[b])
      BY <1>3, <1>4
    <2>2. log'[b][j] = log[b][j]
      BY <1>3, <2>1
    <2>3. log[b][j] \in Commit
      BY <1>4, <2>1, ElementOfSeq
    <2>4. PICK e \in Commit : e = log[b][j]
      BY <2>3
    <2>5. e.id \in Nat
      BY DEF Commit
    <2>6. ~Stops(use.trtSize, trt'.exists, trt'.slots, e.id)
      <3>1. CASE e.id = 0
        BY <3>1 DEF Stops
      <3>2. CASE e.id # 0
        <4>1. Done(e.id, trtSafe)
          BY <2>4, <3>2 DEF FirstRun, SafeDone
        <4>2. QED  BY <2>5, <4>1, CrashGoesOn
      <3>3. QED  BY <3>1, <3>2
    <2>7. ~Incomplete(e)'
      BY <1>2, <2>6, IncompleteStops
    <2>8. ~Incomplete(log[b][j])'
      BY <2>2, <2>4, <2>7 DEF Incomplete
    <2>9. QED  BY <2>1, <2>2, <2>8
  <1>6. \A m \in DOMAIN made : made[m] \in SUBSET Tables
    BY <1>1, ElementOfSeq, LenProperties DEF MemoryType
  <1>7. ASSUME NEW c \in acked, NEW b \in made[c] PROVE Recoverable(b, c)'
    <2>1. b \in Tables /\ Kept(b, c)
      BY <1>1, <1>6 DEF MemoryType, FirstRun, AckedKept
    <2>2. PICK i \in 1..logSafe[b] : log[b][i].number = c
      BY <2>1 DEF Kept
    <2>3. logSafe[b] \in Nat
      BY <1>4, <2>1
    <2>4. \A j \in 1..i : j \in 1..logSafe[b]
      BY <2>2, <2>3
    <2>5. \A j \in 1..i : ~Incomplete(log[b][j])'
      BY <1>5, <2>1, <2>4
    <2>6. i \in 1..Len(log'[b]) /\ log'[b][i].number = c
      BY <1>5, <2>1, <2>2
    <2>7. QED  BY <2>5, <2>6 DEF Recoverable
  <1>8. QED  BY <1>2, <1>7 DEF SecondRun

\* From the first crash to the second, what a thread does.
LEMMA SecondThread ==
  ASSUME BaseInv, SecondRun, NEW t \in Threads,
         Step(t) \/ \E tables \in SUBSET Tables : plan(t, tables)
  PROVE  SecondRun'
  <1>1. Grows /\ mounted = Tables
    BY ThreadGrows
  <1>2. /\ use' = use /\ mounted' = mounted
        /\ \A n \in DOMAIN made : n \in DOMAIN made' /\ made'[n] = made[n]
        /\ \A d \in Tables : \A c : Has(d, c) => Has(d, c)'
    BY <1>1 DEF Grows
  <1>3. MemoryType /\ \A n \in DOMAIN made : made[n] \in SUBSET Tables
    BY ElementOfSeq, LenProperties DEF BaseInv, MemoryType
  <1>4. acked' = acked \/ (return(t) /\ acked' = acked \cup {current[t].number})
    BY DEF Step, plan, getTransactionId, commitRealTime, writeEndTransaction, perform, return
  <1>5. ASSUME NEW c \in acked PROVE \A b \in made'[c] : b \in mounted' /\ Has(b, c)'
    <2>1. c \in DOMAIN made /\ made'[c] = made[c] /\ made[c] \in SUBSET Tables
      BY <1>2, <1>3 DEF MemoryType
    <2>2. \A b \in made[c] : Has(b, c)
      BY <1>1, <2>1 DEF SecondRun
    <2>3. QED  BY <1>1, <1>2, <2>1, <2>2
  <1>6. ASSUME return(t), NEW c, c = current[t].number
        PROVE  \A b \in made'[c] : b \in mounted' /\ Has(b, c)'
    <2>1. pc[t] = "phase2"
      BY <1>6 DEF return
    <2>2. c \in DOMAIN made /\ todo[t] = {} /\ \A b \in made[c] \ todo[t] : Has(b, c)
      BY <1>6, <2>1 DEF BaseInv, ThreadOK, Logged
    <2>3. QED  BY <1>1, <1>2, <1>3, <2>2
  <1>7. \A c \in acked' : \A b \in made'[c] : b \in mounted' /\ Has(b, c)'
    BY <1>4, <1>5, <1>6
  <1>8. QED  BY <1>7 DEF SecondRun

\* From the first crash to the second, the recovery of a table.
LEMMA SecondRecover ==
  ASSUME BaseInv, SecondRun, NEW b \in Tables, recover(b)
  PROVE  SecondRun'
  <1>1. DiskType /\ MemoryType
    BY DEF BaseInv
  <1>2. b \notin mounted /\ mounted' = mounted \cup {b} /\ UNCHANGED <<use, trt, made, acked>>
    BY DEF recover
  <1>3. /\ log' \in [Tables -> Seq(Commit)]
        /\ \A i \in 1..Len(log'[b]) : log'[b][i] = log[b][i]
        /\ \A i \in 1..Len(log[b]) :
              (\A j \in 1..i : ~Incomplete(log[b][j])) => i <= Len(log'[b])
        /\ \A d \in Tables \ {b} : log'[d] = log[d]
    BY <1>1, RecoverShape
  <1>4. \A m \in DOMAIN made : made[m] \in SUBSET Tables
    BY <1>1, ElementOfSeq, LenProperties DEF MemoryType
  <1>5. ASSUME NEW c \in acked, NEW d \in made[c]
        PROVE  IF d \in mounted' THEN Has(d, c)' ELSE Recoverable(d, c)'
    <2>1. d \in Tables
      BY <1>1, <1>4 DEF MemoryType
    <2>2. CASE d # b
      <3>1. log'[d] = log[d]
        BY <1>3, <2>1, <2>2
      <3>2. \A j \in Nat : Incomplete(log[d][j])' <=> Incomplete(log[d][j])
        BY <1>2, <3>1 DEF Incomplete, getMinimumTransaction, Entries, Slots
      <3>3. Has(d, c) => Has(d, c)'
        BY <3>1 DEF Has
      <3>4. Recoverable(d, c) => Recoverable(d, c)'
        BY <3>1, <3>2 DEF Recoverable
      <3>5. QED  BY <1>2, <2>2, <3>3, <3>4 DEF SecondRun
    <2>3. CASE d = b
      <3>1. Recoverable(b, c)
        BY <1>2, <2>3 DEF SecondRun
      <3>2. PICK i \in 1..Len(log[b]) : log[b][i].number = c /\ \A j \in 1..i : ~Incomplete(log[b][j])
        BY <3>1 DEF Recoverable
      <3>3. i <= Len(log'[b])
        BY <1>3, <3>2
      <3>4. log'[b] \in Seq(Commit)
        BY <1>3
      <3>5. Len(log'[b]) \in Nat /\ DOMAIN log'[b] = 1..Len(log'[b]) /\ Len(log[b]) \in Nat
        BY <1>1, <3>4, LenProperties DEF DiskType
      <3>6. i \in 1..Len(log'[b]) /\ log'[b][i].number = c
        BY <1>3, <3>2, <3>3, <3>5
      <3>7. Has(b, c)'
        BY <3>5, <3>6 DEF Has
      <3>8. QED  BY <1>2, <2>3, <3>7
    <2>4. QED  BY <2>2, <2>3
  <1>6. QED  BY <1>2, <1>5 DEF SecondRun

\* Every step preserves what keeps acknowledged commits.
LEMMA SafeStep ==
  ASSUME BaseInv, RingInv, NotWrapped \/ OneCrossTable => SafeInv, [Next]_vars
  PROVE  (NotWrapped \/ OneCrossTable => SafeInv)'
  <1>1. CASE UNCHANGED vars
    <2>1. FirstRun <=> FirstRun'
      BY <1>1 DEF vars, FirstRun, SyncedInv, LogDone, SafeDone, AckedKept, TrtInv, OneTrt, ManyTrt,
         Pending, Kept, Open, Done, OneCrossTable, Slots, Empty
    <2>2. SecondRun <=> SecondRun'
      BY <1>1 DEF vars, SecondRun, Has, Recoverable, Incomplete, getMinimumTransaction, Entries, Slots
    <2>3. QED  BY <1>1, <2>1, <2>2 DEF vars, SafeInv, NotWrapped, OneCrossTable
  <1>2. CASE \E t \in Threads : Step(t) \/ \E tables \in SUBSET Tables : plan(t, tables)
    <2>1. PICK t \in Threads : Step(t) \/ \E tables \in SUBSET Tables : plan(t, tables)
      BY <1>2
    <2>2. use' = use /\ crashes' = crashes
      BY <2>1, ThreadGrows DEF Grows
    <2>3. NotWrapped' => NotWrapped
      <3>1. made \in Seq(SUBSET Tables) /\ Len(made) \in Nat /\ use.trtSize \in Nat
        BY LenProperties, UsesAssumption DEF BaseInv, MemoryType, DiskType
      <3>2. Len(made') \in {Len(made), Len(made) + 1}
        <4>1. CASE Step(t)
          BY <4>1 DEF Step, getTransactionId, commitRealTime, writeEndTransaction, perform, return
        <4>2. CASE \E tables \in SUBSET Tables : plan(t, tables)
          BY <3>1, <4>2, AppendProperties DEF plan
        <4>3. QED  BY <2>1, <4>1, <4>2
      <3>3. QED  BY <2>2, <3>1, <3>2 DEF NotWrapped
    <2>4. OneCrossTable' => OneCrossTable
      BY <2>2 DEF OneCrossTable
    <2> SUFFICES ASSUME NotWrapped \/ OneCrossTable, SafeInv PROVE SafeInv'
      BY <2>3, <2>4
    <2>5. ASSUME crashes = 0 PROVE FirstRun'
      <3>1. FirstRun
        BY <2>5 DEF SafeInv
      <3>2. CASE perform(t)
        BY <3>1, <3>2, FirstWait, FirstSynchronize
      <3>3. QED
        BY <2>1, <3>1, <3>2, FirstMemory, FirstCommitRealTime, FirstWriteEnd DEF Step
    <2>6. ASSUME crashes = 1 PROVE SecondRun'
      BY <2>1, <2>6, SecondThread DEF SafeInv
    <2>7. QED  BY <2>2, <2>5, <2>6 DEF SafeInv
  <1>3. CASE Crash
    <2>1. crashes \in Nat /\ crashes' = crashes + 1 /\ use' = use /\ made' = made
      BY <1>3 DEF Crash, BaseInv, MemoryType
    <2>2. (NotWrapped' <=> NotWrapped) /\ (OneCrossTable' <=> OneCrossTable)
      BY <2>1 DEF NotWrapped, OneCrossTable
    <2>3. ASSUME crashes' = 1, NotWrapped \/ OneCrossTable PROVE SecondRun'
      <3>1. FirstRun
        BY <2>1, <2>3 DEF SafeInv
      <3>2. QED  BY <1>3, <3>1, FirstCrash
    <2>4. crashes' # 0
      BY <2>1
    <2>5. QED  BY <2>2, <2>3, <2>4 DEF SafeInv
  <1>4. CASE \E b \in Tables : recover(b)
    <2>1. PICK b \in Tables : recover(b)
      BY <1>4
    <2>2. crashes' = crashes /\ use' = use /\ made' = made
      BY <2>1 DEF recover
    <2>3. (NotWrapped' <=> NotWrapped) /\ (OneCrossTable' <=> OneCrossTable)
      BY <2>2 DEF NotWrapped, OneCrossTable
    <2>4. ASSUME NotWrapped \/ OneCrossTable PROVE crashes # 0
      BY <2>1, <2>4 DEF SafeInv, FirstRun, recover
    <2>5. ASSUME crashes = 1, NotWrapped \/ OneCrossTable PROVE SecondRun'
      BY <2>1, <2>5, SecondRecover DEF SafeInv
    <2>6. QED  BY <2>2, <2>3, <2>4, <2>5 DEF SafeInv
  <1>5. QED  BY <1>1, <1>2, <1>3, <1>4 DEF Next

\* Nothing has been committed at first.
LEMMA SafeInit ==
  Init => RingInv /\ SafeInv
  <1> SUFFICES ASSUME Init PROVE RingInv /\ SafeInv
    OBVIOUS
  <1>1. RingInv
    BY DEF Init, RingInv
  <1>2. /\ log = [b \in Tables |-> <<>>] /\ logSafe = [b \in Tables |-> 0]
        /\ trt = [exists |-> FALSE, slots |-> Empty] /\ trtSafe = Empty /\ pos = 0
        /\ mode = "none" /\ mounted = Tables /\ pc = [t \in Threads |-> "idle"]
        /\ acked = {} /\ crashes = 0 /\ made = <<>>
    BY DEF Init
  <1>3. \A b \in Tables : log[b] = <<>> /\ Len(log[b]) = 0 /\ logSafe[b] = 0
    BY <1>2, EmptySeq, LenProperties
  <1>4. trt.slots = Empty /\ \A s \in Slots : Empty[s] = 0
    BY <1>2 DEF Empty
  <1>5. SyncedInv /\ LogDone /\ SafeDone /\ AckedKept
    BY <1>2, <1>3, <1>4 DEF SyncedInv, LogDone, SafeDone, AckedKept
  <1>6. TrtInv
    <2>1. OneTrt
      BY <1>2, <1>4 DEF OneTrt
    <2>2. ManyTrt
      <3>1. use.trtSize \in Nat
        BY UsesAssumption DEF Init
      <3>2. Pending = {}
        BY <1>2 DEF Pending
      <3>3. Cardinality(Pending) = 0 /\ Len(made) = 0
        BY <1>2, <3>2, FS_EmptySet
      <3>4. 0 \in 0..(use.trtSize + 1) /\ 0 + Cardinality(Pending) <= Len(made)
        BY <3>1, <3>3
      <3>5. \A s \in Slots : trt.slots[s] # 0 <=> s < 0
        BY <1>4, <3>1 DEF Slots
      <3>6. QED  BY <1>2, <1>4, <3>4, <3>5 DEF ManyTrt
    <2>3. QED  BY <2>1, <2>2 DEF TrtInv
  <1>7. QED  BY <1>1, <1>2, <1>4, <1>5, <1>6 DEF FirstRun, SafeInv

\* A commit that has returned is in every one of its tables after one crash, as
\* long as deep.trt has a slot for every commit or only one thread commits over
\* several tables: perform returns only when the whole group is synchronised, so
\* no replay stops before an entry of it.
THEOREM AcknowledgedSurvive ==
    Spec => [](crashes <= 1 /\ (NotWrapped \/ OneCrossTable) => AcknowledgedSurvives)
  <1>1. ASSUME BaseInv, SafeInv, crashes <= 1 PROVE AcknowledgedSurvives
    <2>1. crashes \in Nat /\ DiskType /\ MemoryType
      BY <1>1 DEF BaseInv, MemoryType
    <2>2. \A m \in DOMAIN made : made[m] \in SUBSET Tables
      BY <2>1, ElementOfSeq, LenProperties DEF MemoryType
    <2>3. CASE crashes = 0
      <3>1. \A b \in Tables : \A c : Kept(b, c) => Has(b, c)
        BY <2>1, LenProperties DEF DiskType, Kept, Has
      <3>2. QED  BY <1>1, <2>1, <2>2, <2>3, <3>1 DEF SafeInv, FirstRun, AckedKept, MemoryType, AcknowledgedSurvives
    <2>4. CASE crashes = 1
      BY <1>1, <2>4 DEF SafeInv, SecondRun, AcknowledgedSurvives
    <2>5. QED  BY <1>1, <2>1, <2>3, <2>4
  <1> DEFINE Inv == BaseInv /\ RingInv /\ (NotWrapped \/ OneCrossTable => SafeInv)
  <1>2. Init => Inv
    BY BaseInit, SafeInit
  <1>3. Inv /\ [Next]_vars => Inv'
    BY BaseStep, RingStep, SafeStep
  <1>4. Inv => (crashes <= 1 /\ (NotWrapped \/ OneCrossTable) => AcknowledgedSurvives)
    BY <1>1
  <1>5. QED  BY <1>2, <1>3, <1>4, PTL DEF Spec

-----------------------------------------------------------------------------
(* A cross-table commit is in all of its tables or in none *)

InLog(b, e) == \E i \in 1..Len(log[b]) : log[b][i] = e

\* An entry is of a commit over the table, has its identifier, and has the same
\* one in every log; a thread's commit has no entry yet in the tables to do.
EntryOK(b, e) ==
    /\ e.number \in DOMAIN made /\ b \in made[e.number]
    /\ e.id # 0 <=> Cardinality(made[e.number]) > 1
    /\ e.id # 0 => trt.exists

EntryInv ==
    /\ \A b \in Tables, e \in Commit : InLog(b, e) => EntryOK(b, e)
    /\ \A b, d \in Tables, e, g \in Commit :
          InLog(b, e) /\ InLog(d, g) /\ e.number = g.number => e.id = g.id
    /\ \A t \in Threads, b \in Tables, e \in Commit :
          pc[t] # "idle" /\ InLog(b, e) /\ e.number = current[t].number =>
              e = current[t] /\ b \notin todo[t]
    /\ mode = "WRITE" => trt.exists /\ mounted = Tables

\* While identifiers are written: those in the logs are complete, open, or from
\* before the file was begun anew; an open one is above the others.
WriteInv ==
    mode = "WRITE" =>
        \A b \in Tables, e \in Commit : InLog(b, e) /\ e.id # 0 =>
            /\ e.id <= sequence
            /\ EntriesOf(use.trtSize, trt.slots) = {} \/ Past(use.trtSize, trt.slots, e.id) \/ Open(e)
            /\ \A t \in Threads :
                  pc[t] = "phase1" /\ current[t].id # 0 /\ e.number # current[t].number =>
                      e.id < current[t].id

\* A table that has been recovered has no incomplete entry, until the first
\* cross-table commit.
MountedClean ==
    mode # "WRITE" => \A b \in mounted, e \in Commit : InLog(b, e) => ~Incomplete(e)

\* In a log nothing complete comes after an incomplete entry, other than commits
\* of that table alone.
CutClean ==
    \A b \in Tables : \A i, j \in 1..Len(log[b]) :
        i < j /\ log[b][j].id # 0 /\ Incomplete(log[b][i]) => Incomplete(log[b][j])

\* A commit over several tables that is over, or that recovery takes for
\* complete, has an entry in each.
Whole ==
    \A b \in Tables, e \in Commit :
        /\ InLog(b, e) /\ e.id # 0
        /\ IF mounted = Tables THEN e.number \notin InProgress ELSE ~Incomplete(e)
        => \A d \in made[e.number] : Has(d, e.number)

AloneInv == WriteInv /\ MountedClean /\ CutClean /\ Whole

Alone == OneCrossTable /\ use.fault = "process"

\* A log as a set of entries.
LEMMA HasInLog ==
  ASSUME DiskType, NEW b \in Tables, NEW c
  PROVE  Has(b, c) <=> \E e \in Commit : InLog(b, e) /\ e.number = c
  <1>1. log[b] \in Seq(Commit) /\ DOMAIN log[b] = 1..Len(log[b])
    BY LenProperties DEF DiskType
  <1>2. \A i \in 1..Len(log[b]) : log[b][i] \in Commit
    BY <1>1, ElementOfSeq
  <1>3. QED  BY <1>1, <1>2 DEF Has, InLog

\* The entries of the logs after one more.
LEMMA InLogAppend ==
  ASSUME DiskType, NEW b \in Tables, NEW g \in Commit, log' = [log EXCEPT ![b] = Append(@, g)],
         NEW d \in Tables, NEW e
  PROVE  InLog(d, e)' <=> InLog(d, e) \/ (d = b /\ e = g)
  <1>1. /\ Len(log'[b]) = Len(log[b]) + 1 /\ log'[b][Len(log[b]) + 1] = g
        /\ \A i \in 1..Len(log[b]) : log'[b][i] = log[b][i]
        /\ \A a \in Tables \ {b} : log'[a] = log[a]
    BY LogAppend
  <1>2. Len(log[b]) \in Nat
    BY LenProperties DEF DiskType
  <1>3. CASE d = b
    <2>1. 1..(Len(log[b]) + 1) = 1..Len(log[b]) \cup {Len(log[b]) + 1}
      BY <1>2
    <2>2. QED  BY <1>1, <1>3, <2>1 DEF InLog
  <1>4. CASE d # b
    BY <1>1, <1>4 DEF InLog
  <1>5. QED  BY <1>3, <1>4

\* Recovery adds no entry to a log, and leaves only complete ones.
LEMMA InLogRecover ==
  ASSUME DiskType, NEW b \in Tables, recover(b), NEW d \in Tables, NEW e, InLog(d, e)'
  PROVE  InLog(d, e) /\ (d = b => ~Incomplete(e))
  <1>1. /\ Len(log'[b]) \in 0..Len(log[b])
        /\ \A i \in 1..Len(log'[b]) : log'[b][i] = log[b][i] /\ ~Incomplete(log[b][i])
        /\ \A a \in Tables \ {b} : log'[a] = log[a]
    BY RecoverShape
  <1>2. Len(log[b]) \in Nat
    BY LenProperties DEF DiskType
  <1>3. PICK i \in 1..Len(log'[d]) : log'[d][i] = e
    BY DEF InLog
  <1>4. CASE d = b
    <2>1. i \in 1..Len(log[b]) /\ log[b][i] = e /\ ~Incomplete(log[b][i])
      BY <1>1, <1>2, <1>3, <1>4
    <2>2. QED  BY <1>4, <2>1 DEF InLog
  <1>5. CASE d # b
    BY <1>1, <1>3, <1>5 DEF InLog
  <1>6. QED  BY <1>4, <1>5

\* A crash adds no entry to a log.
LEMMA InLogCrash ==
  ASSUME DiskType, Crash, NEW d \in Tables, NEW e, InLog(d, e)'
  PROVE  InLog(d, e)
  <1>1. /\ Len(log'[d]) \in logSafe[d]..Len(log[d])
        /\ \A i \in 1..Len(log'[d]) : log'[d][i] = log[d][i]
    BY CrashShape
  <1>2. Len(log[d]) \in Nat /\ logSafe[d] \in Nat
    BY LenProperties DEF DiskType
  <1>3. PICK i \in 1..Len(log'[d]) : log'[d][i] = e
    BY DEF InLog
  <1>4. i \in 1..Len(log[d])
    BY <1>1, <1>2, <1>3
  <1>5. QED  BY <1>1, <1>3, <1>4 DEF InLog

\* A step that adds no entry.
LEMMA EntryQuiet ==
  ASSUME EntryInv, \A b \in Tables, e \in Commit : InLog(b, e)' => InLog(b, e),
         \A n \in DOMAIN made : n \in DOMAIN made' /\ made'[n] = made[n],
         trt.exists => trt'.exists,
         mode' = "WRITE" => trt'.exists /\ mounted' = Tables,
         \A u \in Threads :
             \/ pc'[u] = "idle"
             \/ pc[u] # "idle" /\ current'[u] = current[u] /\ todo'[u] = todo[u]
             \/ \A b \in Tables, e \in Commit : InLog(b, e) => e.number # current'[u].number
  PROVE  EntryInv'
  <1>1. ASSUME NEW b \in Tables, NEW e \in Commit, InLog(b, e)' PROVE EntryOK(b, e)'
    <2>1. InLog(b, e)
      BY <1>1
    <2>2. EntryOK(b, e)
      BY <2>1 DEF EntryInv
    <2>3. QED  BY <2>2 DEF EntryOK
  <1>2. \A b, d \in Tables, e, g \in Commit :
          InLog(b, e)' /\ InLog(d, g)' /\ e.number = g.number => e.id = g.id
    BY DEF EntryInv
  <1>3. ASSUME NEW t \in Threads, NEW b \in Tables, NEW e \in Commit,
               pc'[t] # "idle", InLog(b, e)', e.number = current'[t].number
        PROVE  e = current'[t] /\ b \notin todo'[t]
    <2>1. InLog(b, e)
      BY <1>3
    <2>2. pc[t] # "idle" /\ current'[t] = current[t] /\ todo'[t] = todo[t]
      BY <1>3, <2>1
    <2>3. QED  BY <1>3, <2>1, <2>2 DEF EntryInv
  <1>4. QED  BY <1>1, <1>2, <1>3 DEF EntryInv

\* A thread that has no identifier yet has no entry.
LEMMA NoEntryYet ==
  ASSUME BaseInv, EntryInv, NEW t \in Threads, pc[t] = "id",
         NEW b \in Tables, NEW e \in Commit, InLog(b, e)
  PROVE  e.number # current[t].number
  <1>1. todo[t] = made[current[t].number]
    BY DEF BaseInv, ThreadOK
  <1>2. b \in made[e.number]
    BY DEF EntryInv, EntryOK
  <1>3. QED  BY <1>1, <1>2 DEF EntryInv

\* One more entry.
LEMMA EntryCommitRealTime ==
  ASSUME BaseInv, EntryInv, NEW t \in Threads, commitRealTime(t)
  PROVE  EntryInv'
  <1>1. DiskType /\ MemoryType
    BY DEF BaseInv
  <1>2. PICK b \in Tables, g \in Commit :
           /\ b \in todo[t] /\ g = current[t]
           /\ log' = [log EXCEPT ![b] = Append(@, g)]
    BY CommitTable
  <1>3. /\ pc[t] = "phase1" /\ todo' = [todo EXCEPT ![t] = @ \ {Min(todo[t])}]
        /\ log' = [log EXCEPT ![Min(todo[t])] = Append(@, current[t])]
        /\ UNCHANGED <<trt, mode, mounted, pc, current, made>>
    BY DEF commitRealTime, atomic
  <1>4. b \notin todo'[t] /\ \A u \in Threads : todo'[u] \subseteq todo[u]
    <2>1. todo'[t] = todo[t] \ {Min(todo[t])} /\ \A u \in Threads : todo'[u] \subseteq todo[u]
      BY <1>1, <1>3 DEF MemoryType
    <2>2. CASE b = Min(todo[t])
      BY <2>1, <2>2
    <2>3. CASE b # Min(todo[t])
      <3>1. log'[b] = Append(log[b], g) /\ log'[b] = log[b] /\ log[b] \in Seq(Commit)
        BY <1>1, <1>2, <1>3, <2>3 DEF DiskType
      <3>2. Len(Append(log[b], g)) = Len(log[b]) + 1 /\ Len(log[b]) \in Nat
        BY <3>1, AppendProperties, LenProperties
      <3>3. Append(log[b], g) = log[b]
        BY <3>1
      <3>4. QED  BY <3>2, <3>3
    <2>4. QED  BY <2>1, <2>2, <2>3
  <1>5. \A d \in Tables, e \in Commit : InLog(d, e)' <=> InLog(d, e) \/ (d = b /\ e = g)
    BY <1>1, <1>2, InLogAppend
  <1>6. EntryOK(b, g)
    <2>1. /\ g.number \in DOMAIN made /\ b \in made[g.number]
          /\ Cross(t) <=> Cardinality(made[g.number]) > 1
      BY <1>2, <1>3 DEF BaseInv, ThreadOK
    <2>2. Cross(t) <=> g.id # 0
      BY <1>2, <1>3 DEF Cross
    <2>3. g.id # 0 => trt.exists
      BY <1>2 DEF BaseInv, ThreadOK, EntryInv
    <2>4. QED  BY <2>1, <2>2, <2>3 DEF EntryOK
  <1>7. \A d \in Tables, e \in Commit : InLog(d, e) /\ e.number = g.number => e = g
    BY <1>2, <1>3 DEF EntryInv
  <1>8. ASSUME NEW d \in Tables, NEW e \in Commit, InLog(d, e)' PROVE EntryOK(d, e)'
    <2>1. EntryOK(d, e)
      BY <1>5, <1>6, <1>8 DEF EntryInv
    <2>2. QED  BY <1>3, <2>1 DEF EntryOK
  <1>9. \A a, d \in Tables, e, h \in Commit :
          InLog(a, e)' /\ InLog(d, h)' /\ e.number = h.number => e.id = h.id
    BY <1>5, <1>7 DEF EntryInv
  <1>10. ASSUME NEW u \in Threads, NEW d \in Tables, NEW e \in Commit,
                pc'[u] # "idle", InLog(d, e)', e.number = current'[u].number
         PROVE  e = current'[u] /\ d \notin todo'[u]
    <2>1. CASE InLog(d, e)
      BY <1>3, <1>4, <1>10, <2>1 DEF EntryInv
    <2>2. CASE d = b /\ e = g
      <3>1. u = t
        BY <1>2, <1>3, <1>10, <2>2 DEF BaseInv, Distinct
      <3>2. QED  BY <1>2, <1>3, <1>4, <2>2, <3>1
    <2>3. QED  BY <1>5, <1>10, <2>1, <2>2
  <1>11. QED  BY <1>3, <1>8, <1>9, <1>10 DEF EntryInv

\* Every step keeps the entries in order.
LEMMA EntryStep ==
  BaseInv /\ EntryInv /\ [Next]_vars => EntryInv'
  <1> SUFFICES ASSUME BaseInv, EntryInv, [Next]_vars PROVE EntryInv'
    OBVIOUS
  <1>1. DiskType /\ MemoryType
    BY DEF BaseInv
  <1>2. CASE UNCHANGED vars
    <2>1. \A b \in Tables, e \in Commit : InLog(b, e)' => InLog(b, e)
      BY <1>2 DEF vars, InLog
    <2>2. UNCHANGED <<trt, mode, mounted, pc, current, todo, made>>
      BY <1>2 DEF vars
    <2>3. QED  BY <2>1, <2>2, EntryQuiet DEF EntryInv
  <1>3. ASSUME NEW t \in Threads, NEW tables \in SUBSET Tables, plan(t, tables) PROVE EntryInv'
    <2>1. /\ \A b \in Tables, e \in Commit : InLog(b, e)' => InLog(b, e)
          /\ UNCHANGED <<trt, mode, mounted>>
      BY <1>3 DEF plan, disk, atomic, InLog
    <2>2. \A n \in DOMAIN made : n \in DOMAIN made' /\ made'[n] = made[n]
      BY <1>3, ThreadGrows DEF Grows
    <2>3. /\ \A u \in Threads \ {t} : pc'[u] = pc[u] /\ current'[u] = current[u] /\ todo'[u] = todo[u]
          /\ current'[t].number = Len(made) + 1
      BY <1>1, <1>3 DEF plan, MemoryType
    <2>4. Len(made) \in Nat /\ DOMAIN made = 1..Len(made)
      BY <1>1, LenProperties DEF MemoryType
    <2>5. \A n \in DOMAIN made : n # Len(made) + 1
      BY <2>4
    <2>6. \A b \in Tables, e \in Commit : InLog(b, e) => e.number # current'[t].number
      BY <2>3, <2>5 DEF EntryInv, EntryOK
    <2>7. \A u \in Threads :
             \/ pc'[u] = "idle"
             \/ pc[u] # "idle" /\ current'[u] = current[u] /\ todo'[u] = todo[u]
             \/ \A b \in Tables, e \in Commit : InLog(b, e) => e.number # current'[u].number
      BY <2>3, <2>6
    <2>8. QED  BY <2>1, <2>2, <2>7, EntryQuiet DEF EntryInv
  <1>4. ASSUME NEW t \in Threads, getTransactionId(t) PROVE EntryInv'
    <2>1. /\ \A b \in Tables, e \in Commit : InLog(b, e)' => InLog(b, e)
          /\ UNCHANGED <<mounted, made, todo>>
      BY <1>4 DEF getTransactionId, InLog
    <2>2. /\ pc[t] = "id" /\ current'[t].number = current[t].number
          /\ \A u \in Threads \ {t} : current'[u] = current[u] /\ pc'[u] = pc[u]
      BY <1>4, NewId
    <2>3. trt'.exists /\ mounted = Tables
      BY <1>4 DEF getTransactionId, EntryInv, BaseInv, ThreadOK
    <2>4. \A b \in Tables, e \in Commit : InLog(b, e) => e.number # current'[t].number
      BY <2>2, NoEntryYet
    <2>5. \A u \in Threads :
             \/ pc'[u] = "idle"
             \/ pc[u] # "idle" /\ current'[u] = current[u] /\ todo'[u] = todo[u]
             \/ \A b \in Tables, e \in Commit : InLog(b, e) => e.number # current'[u].number
      BY <2>1, <2>2, <2>4
    <2>6. QED  BY <2>1, <2>3, <2>5, EntryQuiet
  <1>5. ASSUME NEW t \in Threads, writeEndTransaction(t) \/ perform(t) \/ return(t) PROVE EntryInv'
    <2>1. /\ \A b \in Tables, e \in Commit : InLog(b, e)' => InLog(b, e)
          /\ UNCHANGED <<mode, mounted, made, todo>>
      BY <1>5 DEF writeEndTransaction, perform, return, disk, atomic, InLog
    <2>2. trt'.exists = trt.exists
      BY <1>1, <1>5 DEF writeEndTransaction, perform, return, disk, DiskType
    <2>3. \A u \in Threads :
             pc'[u] = "idle" \/ (pc[u] # "idle" /\ current'[u] = current[u] /\ todo'[u] = todo[u])
      BY <1>1, <1>5, <2>1 DEF writeEndTransaction, perform, return, MemoryType
    <2>4. QED  BY <2>1, <2>2, <2>3, EntryQuiet DEF EntryInv
  <1>6. CASE Crash
    <2>1. \A b \in Tables, e \in Commit : InLog(b, e)' => InLog(b, e)
      BY <1>1, <1>6, InLogCrash
    <2>2. trt'.exists = trt.exists
      BY <1>1, <1>6, CrashShape
    <2>3. mode' # "WRITE" /\ made' = made /\ \A u \in Threads : pc'[u] = "idle"
      BY <1>6 DEF Crash
    <2>4. QED  BY <2>1, <2>2, <2>3, EntryQuiet
  <1>7. ASSUME NEW b \in Tables, recover(b) PROVE EntryInv'
    <2>1. \A d \in Tables, e \in Commit : InLog(d, e)' => InLog(d, e)
      BY <1>1, <1>7, InLogRecover
    <2>2. mode' # "WRITE" /\ UNCHANGED <<trt, pc, current, todo, made>>
      BY <1>7 DEF recover
    <2>3. \A u \in Threads : pc[u] = "idle"
      BY <1>7, RecoverAlone DEF recover
    <2>4. QED  BY <2>1, <2>2, <2>3, EntryQuiet
  <1>8. QED
    BY <1>2, <1>3, <1>4, <1>5, <1>6, <1>7, EntryCommitRealTime DEF Next, Step

\* An open identifier is not in deep.trt.
LEMMA OpenIncomplete ==
  ASSUME BaseInv, RingInv, EntryInv, OneCrossTable,
         NEW t \in Threads, pc[t] = "phase1", NEW e \in Commit, e = current[t], e.id # 0
  PROVE  Incomplete(e)
  <1>1. mode = "WRITE" /\ trt.exists
    BY DEF BaseInv, ThreadOK, EntryInv
  <1>2. \A s \in Slots : trt.slots[s] < e.id
    BY <1>1 DEF RingInv, RingOK
  <1>3. Entries \in SUBSET Nat /\ \A x \in Entries : x < e.id
    BY <1>2 DEF Entries, BaseInv, DiskType
  <1>4. e.id \in Nat /\ e.id \notin Entries
    BY <1>3 DEF Commit
  <1>5. e.id >= getMinimumTransaction
    <2>1. CASE Entries = {}
      BY <1>4, <2>1 DEF getMinimumTransaction
    <2>2. CASE Entries # {}
      <3>1. Min(Entries) \in Entries
        BY <1>3, <2>2, MinIsLeast
      <3>2. getMinimumTransaction \in Nat /\ getMinimumTransaction < e.id
        BY <1>3, <2>2, <3>1 DEF getMinimumTransaction
      <3>3. QED  BY <1>4, <3>2
    <2>3. QED  BY <2>1, <2>2
  <1>6. QED  BY <1>1, <1>4, <1>5 DEF Incomplete

\* What recovery keeps is not above the greatest identifier.
LEMMA CompleteBounded ==
  ASSUME DiskType, NEW e \in Commit, e.id # 0, trt.exists, ~Incomplete(e)
  PROVE  e.id <= getMaximumTransaction
  <1>1. e.id \in Nat /\ Entries \in SUBSET Nat
    BY DEF Commit, DiskType, Entries
  <1>2. ~(e.id >= getMinimumTransaction) \/ e.id \in Entries
    BY DEF Incomplete
  <1>3. CASE Entries = {}
    BY <1>1, <1>2, <1>3 DEF getMinimumTransaction
  <1>4. CASE Entries # {}
    <2>1. Min(Entries) \in Entries /\ getMinimumTransaction = Min(Entries)
      BY <1>1, <1>4, MinIsLeast DEF getMinimumTransaction
    <2>2. getMaximumTransaction \in Nat /\ \A x \in Entries : x \in Nat /\ x <= getMaximumTransaction
      BY MaximumBounds
    <2>3. getMinimumTransaction \in Nat /\ getMinimumTransaction <= getMaximumTransaction
      BY <2>1, <2>2
    <2>4. CASE e.id \in Entries
      BY <2>2, <2>4
    <2>5. CASE ~(e.id >= getMinimumTransaction)
      <3>1. e.id < getMinimumTransaction
        BY <1>1, <2>3, <2>5
      <3>2. QED  BY <1>1, <2>2, <2>3, <3>1
    <2>6. QED  BY <1>2, <2>4, <2>5
  <1>5. QED  BY <1>3, <1>4

\* A step that changes no file, and ends commits that are whole.
LEMMA AloneQuiet ==
  ASSUME BaseInv, EntryInv, AloneInv, UNCHANGED <<use, log, trt, mode, sequence, mounted>>,
         \A n \in DOMAIN made : n \in DOMAIN made' /\ made'[n] = made[n],
         \A u \in Threads : pc[u] = "phase1" /\ current[u].id # 0 =>
             pc'[u] = "phase1" /\ current'[u] = current[u],
         \A u \in Threads : pc'[u] = "phase1" /\ current'[u].id # 0 =>
             pc[u] = "phase1" /\ current'[u] = current[u],
         \A n \in DOMAIN made : n \in InProgress =>
             n \in InProgress' \/ \A d \in made[n] : Has(d, n)
  PROVE  AloneInv'
  <1>1. \A b, e : InLog(b, e)' <=> InLog(b, e)
    BY DEF InLog
  <1>2. \A e : Incomplete(e)' <=> Incomplete(e)
    BY DEF Incomplete, getMinimumTransaction, Entries, Slots
  <1>3. \A b, c : Has(b, c)' <=> Has(b, c)
    BY DEF Has
  <1>4. \A e : e.id # 0 /\ Open(e) => Open(e)'
    BY DEF Open
  <1>5. WriteInv'
    <2> SUFFICES ASSUME mode' = "WRITE", NEW b \in Tables, NEW e \in Commit, InLog(b, e)', e.id # 0
                 PROVE  /\ e.id <= sequence'
                        /\ \/ EntriesOf(use'.trtSize, trt'.slots) = {}
                           \/ Past(use'.trtSize, trt'.slots, e.id)
                           \/ Open(e)'
                        /\ \A t \in Threads :
                              pc'[t] = "phase1" /\ current'[t].id # 0 /\ e.number # current'[t].number =>
                                  e.id < current'[t].id
      BY DEF WriteInv
    <2>1. InLog(b, e) /\ mode = "WRITE"
      BY <1>1
    <2>2. /\ e.id <= sequence
          /\ EntriesOf(use.trtSize, trt.slots) = {} \/ Past(use.trtSize, trt.slots, e.id) \/ Open(e)
          /\ \A t \in Threads :
                pc[t] = "phase1" /\ current[t].id # 0 /\ e.number # current[t].number =>
                    e.id < current[t].id
      BY <2>1 DEF AloneInv, WriteInv
    <2>3. QED  BY <1>4, <2>2
  <1>6. MountedClean'
    BY <1>1, <1>2 DEF AloneInv, MountedClean
  <1>7. CutClean'
    <2>1. \A b, i : Incomplete(log[b][i])' <=> Incomplete(log[b][i])
      BY DEF Incomplete, getMinimumTransaction, Entries, Slots
    <2>2. QED  BY <2>1 DEF AloneInv, CutClean
  <1>8. Whole'
    <2> SUFFICES ASSUME NEW b \in Tables, NEW e \in Commit, InLog(b, e)', e.id # 0,
                        IF mounted' = Tables THEN e.number \notin InProgress' ELSE ~Incomplete(e)'
                 PROVE  \A d \in made'[e.number] : Has(d, e.number)'
      BY DEF Whole
    <2>1. InLog(b, e) /\ e.number \in DOMAIN made /\ made'[e.number] = made[e.number]
      BY <1>1 DEF EntryInv, EntryOK
    <2>2. \A d \in made[e.number] : Has(d, e.number)
      <3>1. CASE mounted = Tables
        BY <2>1, <3>1 DEF AloneInv, Whole
      <3>2. CASE mounted # Tables
        BY <1>2, <2>1, <3>2 DEF AloneInv, Whole
      <3>3. QED  BY <3>1, <3>2
    <2>3. QED  BY <1>3, <2>1, <2>2
  <1>9. QED  BY <1>5, <1>6, <1>7, <1>8 DEF AloneInv

\* plan, performSynchronizeGlobally and the return.
LEMMA AloneMemory ==
  ASSUME BaseInv, EntryInv, AloneInv, NEW t \in Threads,
         (\E tables \in SUBSET Tables : plan(t, tables)) \/ perform(t) \/ return(t)
  PROVE  AloneInv'
  <1>1. MemoryType
    BY DEF BaseInv
  <1>2. \A n \in DOMAIN made : n \in DOMAIN made' /\ made'[n] = made[n]
    BY ThreadGrows DEF Grows, Step
  <1>3. UNCHANGED <<use, log, trt, mode, sequence, mounted>>
    BY DEF plan, perform, return, disk, atomic
  <1>4. CASE \E tables \in SUBSET Tables : plan(t, tables)
    <2>1. PICK tables \in SUBSET Tables : plan(t, tables)
      BY <1>4
    <2>2. /\ pc[t] = "idle" /\ current[t].number = 0 /\ current'[t].id = 0
          /\ \A u \in Threads \ {t} : pc'[u] = pc[u] /\ current'[u] = current[u]
      BY <1>1, <2>1 DEF plan, MemoryType, BaseInv, ThreadOK, NoCommit
    <2>3. 0 \notin DOMAIN made
      BY <1>1, LenProperties DEF MemoryType
    <2>4. \A n \in DOMAIN made : n \in InProgress => n \in InProgress'
      BY <2>2, <2>3 DEF InProgress
    <2>5. QED  BY <1>2, <1>3, <2>2, <2>4, AloneQuiet
  <1>5. CASE perform(t)
    <2>1. current' = current
      BY <1>5 DEF perform
    <2>2. \A n \in DOMAIN made : n \in InProgress => n \in InProgress'
      BY <2>1 DEF InProgress
    <2>3. \A u \in Threads : current[u].id # 0 => (pc'[u] = "phase1" <=> pc[u] = "phase1")
      BY <1>1, <1>5 DEF perform, MemoryType
    <2>4. QED  BY <1>2, <1>3, <2>1, <2>2, <2>3, AloneQuiet
  <1>6. CASE return(t)
    <2>1. /\ pc[t] = "phase2" /\ pc'[t] = "idle"
          /\ \A u \in Threads \ {t} : pc'[u] = pc[u] /\ current'[u] = current[u]
      BY <1>1, <1>6 DEF return, MemoryType
    <2>2. todo[t] = {} /\ \A d \in made[current[t].number] : Has(d, current[t].number)
      BY <2>1 DEF BaseInv, ThreadOK, Logged
    <2>3. \A n \in DOMAIN made : n \in InProgress => n \in InProgress' \/ \A d \in made[n] : Has(d, n)
      BY <2>1, <2>2 DEF InProgress
    <2>4. QED  BY <1>2, <1>3, <2>1, <2>3, AloneQuiet
  <1>7. QED  BY <1>4, <1>5, <1>6

\* The identifier: the first one since the start begins a new file, by which no
\* entry of several tables is complete.
LEMMA AloneGetTransactionId ==
  ASSUME BaseInv, RingInv, EntryInv, OneCrossTable, AloneInv, NEW t \in Threads, getTransactionId(t)
  PROVE  AloneInv'
  <1> DEFINE base == IF mode = "WRITE" THEN sequence ELSE getMaximumTransaction + 1
  <1>1. /\ base \in Nat /\ sequence' = base + 1
        /\ current'[t].id = base + 1 /\ current'[t].number = current[t].number
        /\ \A u \in Threads \ {t} : current'[u] = current[u] /\ pc'[u] = pc[u]
        /\ pc[t] = "id" /\ pc'[t] = "phase1" /\ mode' = "WRITE"
    BY NewId
  <1>2. DiskType /\ mounted = Tables /\ UNCHANGED <<use, log, mounted, made>>
    BY <1>1 DEF BaseInv, ThreadOK, getTransactionId
  <1>3. (\A b, e : InLog(b, e)' <=> InLog(b, e)) /\ (\A b, c : Has(b, c)' <=> Has(b, c))
    BY <1>2 DEF InLog, Has
  <1>4. ASSUME NEW b \in Tables, NEW e \in Commit, InLog(b, e), e.id # 0 PROVE e.id <= base
    <2>1. CASE mode = "WRITE"
      BY <1>4, <2>1 DEF AloneInv, WriteInv
    <2>2. CASE mode # "WRITE"
      <3>1. ~Incomplete(e)
        BY <1>2, <1>4, <2>2 DEF AloneInv, MountedClean
      <3>2. trt.exists
        BY <1>4 DEF EntryInv, EntryOK
      <3>3. e.id <= getMaximumTransaction
        BY <1>2, <1>4, <3>1, <3>2, CompleteBounded
      <3>4. getMaximumTransaction \in Nat /\ e.id \in Nat
        BY <1>2, MaximumBounds DEF Commit
      <3>5. QED  BY <2>2, <3>3, <3>4
    <2>3. QED  BY <2>1, <2>2
  <1>5. CASE mode = "WRITE"
    <2>1. trt' = trt /\ base = sequence
      BY <1>5 DEF getTransactionId
    <2>2. WriteInv'
      <3> SUFFICES ASSUME NEW b \in Tables, NEW e \in Commit, InLog(b, e)', e.id # 0
                   PROVE  /\ e.id <= sequence'
                          /\ \/ EntriesOf(use'.trtSize, trt'.slots) = {}
                             \/ Past(use'.trtSize, trt'.slots, e.id)
                             \/ Open(e)'
                          /\ \A u \in Threads :
                                pc'[u] = "phase1" /\ current'[u].id # 0 /\ e.number # current'[u].number =>
                                    e.id < current'[u].id
        BY DEF WriteInv
      <3>1. InLog(b, e) /\ e.id \in Nat
        BY <1>3 DEF Commit
      <3>2. e.id <= base
        BY <1>4, <3>1
      <3>3. /\ EntriesOf(use.trtSize, trt.slots) = {} \/ Past(use.trtSize, trt.slots, e.id) \/ Open(e)
            /\ \A u \in Threads :
                  pc[u] = "phase1" /\ current[u].id # 0 /\ e.number # current[u].number =>
                      e.id < current[u].id
        BY <1>5, <3>1 DEF AloneInv, WriteInv
      <3> HIDE DEF base
      <3>4. e.id <= sequence' /\ e.id < current'[t].id
        BY <1>1, <3>1, <3>2
      <3>5. Open(e) => Open(e)'
        BY <1>1 DEF Open
      <3>6. QED  BY <1>1, <1>2, <2>1, <3>3, <3>4, <3>5
    <2>3. MountedClean'
      BY <1>1 DEF MountedClean
    <2>4. \A b, i : Incomplete(log[b][i])' <=> Incomplete(log[b][i])
      BY <1>2, <2>1 DEF Incomplete, getMinimumTransaction, Entries, Slots
    <2>5. CutClean'
      BY <1>2, <2>4 DEF AloneInv, CutClean
    <2>6. \A n : n \in InProgress' <=> n \in InProgress
      BY <1>1 DEF InProgress
    <2>7. Whole'
      BY <1>2, <1>3, <2>6 DEF AloneInv, Whole
    <2>8. QED  BY <2>2, <2>3, <2>5, <2>7 DEF AloneInv
  <1>6. CASE mode # "WRITE"
    <2>1. trt'.exists /\ trt'.slots = Empty
      BY <1>6 DEF getTransactionId
    <2>2. EntriesOf(use.trtSize, trt'.slots) = {}
      <3>1. use.trtSize \in Nat
        BY <1>2, UsesAssumption DEF DiskType
      <3>2. \A s \in 0..use.trtSize : Empty[s] = 0 /\ s \in 0..s
        BY <3>1 DEF Empty, Slots
      <3>3. QED  BY <2>1, <3>2 DEF EntriesOf
    <2>3. \A u \in Threads \ {t} : current[u].id = 0
      BY <1>6 DEF BaseInv, ThreadOK
    <2>4. WriteInv'
      <3> SUFFICES ASSUME NEW b \in Tables, NEW e \in Commit, InLog(b, e)', e.id # 0
                   PROVE  /\ e.id <= sequence'
                          /\ EntriesOf(use'.trtSize, trt'.slots) = {}
                          /\ \A u \in Threads :
                                pc'[u] = "phase1" /\ current'[u].id # 0 /\ e.number # current'[u].number =>
                                    e.id < current'[u].id
        BY DEF WriteInv
      <3>1. InLog(b, e) /\ e.id \in Nat
        BY <1>3 DEF Commit
      <3>2. e.id <= base
        BY <1>4, <3>1
      <3> HIDE DEF base
      <3>3. e.id <= sequence' /\ e.id < current'[t].id
        BY <1>1, <3>1, <3>2
      <3>4. QED  BY <1>1, <1>2, <2>2, <2>3, <3>3
    <2>5. MountedClean'
      BY <1>1 DEF MountedClean
    <2>6. CutClean'
      <3>1. ASSUME NEW e \in Commit, e.id # 0 PROVE Incomplete(e)'
        <4>1. Stops(use'.trtSize, trt'.exists, trt'.slots, e.id)
          BY <1>2, <2>1, <2>2, <3>1 DEF Stops, Commit
        <4>2. QED  BY <4>1, IncompleteStops
      <3>2. ASSUME NEW b \in Tables, NEW j \in 1..Len(log[b]), log[b][j].id # 0
            PROVE  Incomplete(log[b][j])'
        <4>1. log[b] \in Seq(Commit)
          BY <1>2 DEF DiskType
        <4>2. PICK e \in Commit : e = log[b][j]
          BY <4>1, ElementOfSeq
        <4>3. Incomplete(e)'
          BY <3>1, <3>2, <4>2
        <4>4. log'[b][j] = e
          BY <1>2, <4>2
        <4>5. QED  BY <4>3, <4>4 DEF Incomplete
      <3>3. QED  BY <1>2, <3>2 DEF CutClean
    <2>7. \A n : n \in InProgress' <=> n \in InProgress
      BY <1>1 DEF InProgress
    <2>8. Whole'
      BY <1>2, <1>3, <2>7 DEF AloneInv, Whole
    <2>9. QED  BY <2>4, <2>5, <2>6, <2>8 DEF AloneInv
  <1>7. QED  BY <1>5, <1>6

\* One more entry, open if it is of several tables.
LEMMA AloneCommitRealTime ==
  ASSUME BaseInv, RingInv, EntryInv, OneCrossTable, AloneInv, NEW t \in Threads, commitRealTime(t)
  PROVE  AloneInv'
  <1>1. DiskType /\ MemoryType
    BY DEF BaseInv
  <1>2. PICK b \in Tables, g \in Commit :
           g = current[t] /\ log' = [log EXCEPT ![b] = Append(@, g)]
    BY CommitTable
  <1>3. pc[t] = "phase1" /\ UNCHANGED <<use, trt, mode, sequence, mounted, pc, current, made>>
    BY DEF commitRealTime, atomic
  <1>4. \A d \in Tables, e \in Commit : InLog(d, e)' <=> InLog(d, e) \/ (d = b /\ e = g)
    BY <1>1, <1>2, InLogAppend
  <1>5. \A e : Incomplete(e)' <=> Incomplete(e)
    BY <1>3 DEF Incomplete, getMinimumTransaction, Entries, Slots
  <1>6. g.id # 0 => Incomplete(g) /\ mode = "WRITE" /\ g.id <= sequence
    <2>1. g.id # 0 => mode = "WRITE"
      BY <1>2 DEF BaseInv, ThreadOK
    <2>2. g.id # 0 => g.id <= sequence
      BY <1>2, <2>1 DEF RingInv, RingOK
    <2>3. g.id # 0 => Incomplete(g)
      BY <1>2, <1>3, OpenIncomplete
    <2>4. QED  BY <2>1, <2>2, <2>3
  <1>7. WriteInv'
    <2> SUFFICES ASSUME mode' = "WRITE", NEW d \in Tables, NEW e \in Commit, InLog(d, e)', e.id # 0
                 PROVE  /\ e.id <= sequence'
                        /\ \/ EntriesOf(use'.trtSize, trt'.slots) = {}
                           \/ Past(use'.trtSize, trt'.slots, e.id)
                           \/ Open(e)'
                        /\ \A u \in Threads :
                              pc'[u] = "phase1" /\ current'[u].id # 0 /\ e.number # current'[u].number =>
                                  e.id < current'[u].id
      BY DEF WriteInv
    <2>1. CASE InLog(d, e)
      <3>1. /\ e.id <= sequence
            /\ EntriesOf(use.trtSize, trt.slots) = {} \/ Past(use.trtSize, trt.slots, e.id) \/ Open(e)
            /\ \A u \in Threads :
                  pc[u] = "phase1" /\ current[u].id # 0 /\ e.number # current[u].number =>
                      e.id < current[u].id
        BY <1>3, <2>1 DEF AloneInv, WriteInv
      <3>2. Open(e) => Open(e)'
        BY <1>3 DEF Open
      <3>3. QED  BY <1>3, <3>1, <3>2
    <2>2. CASE e = g
      <3>1. Open(e)'
        BY <1>2, <1>3, <2>2 DEF Open
      <3>2. \A u \in Threads : pc[u] = "phase1" /\ current[u].id # 0 => u = t
        <4>1. Cross(t)
          BY <1>2, <2>2 DEF Cross
        <4>2. QED  BY <4>1, CrossAlone DEF Cross
      <3>3. QED  BY <1>2, <1>3, <1>6, <2>2, <3>1, <3>2
    <2>3. QED  BY <1>4, <2>1, <2>2
  <1>8. MountedClean'
    <2>1. g.id = 0 => ~Incomplete(g)
      BY DEF Incomplete
    <2>2. mounted \subseteq Tables
      BY <1>1 DEF MemoryType
    <2>3. QED  BY <1>3, <1>4, <1>5, <1>6, <2>1, <2>2 DEF AloneInv, MountedClean
  <1>9. CutClean'
    <2>1. /\ Len(log'[b]) = Len(log[b]) + 1 /\ log'[b][Len(log[b]) + 1] = g
          /\ \A i \in 1..Len(log[b]) : log'[b][i] = log[b][i]
          /\ \A d \in Tables \ {b} : log'[d] = log[d]
      BY <1>1, <1>2, LogAppend
    <2>2. Len(log[b]) \in Nat
      BY <1>1, LenProperties DEF DiskType
    <2> SUFFICES ASSUME NEW d \in Tables, NEW i \in 1..Len(log'[d]), NEW j \in 1..Len(log'[d]),
                        i < j, log'[d][j].id # 0, Incomplete(log[d][i])'
                 PROVE  Incomplete(log[d][j])'
      BY DEF CutClean
    <2>3. CASE d = b /\ j = Len(log[b]) + 1
      <3>1. log'[d][j] = g /\ Incomplete(g)'
        BY <1>5, <1>6, <2>1, <2>3
      <3>2. QED  BY <3>1 DEF Incomplete
    <2>4. CASE ~(d = b /\ j = Len(log[b]) + 1)
      <3>1. /\ i \in 1..Len(log[d]) /\ j \in 1..Len(log[d])
            /\ log'[d][i] = log[d][i] /\ log'[d][j] = log[d][j]
        <4>1. CASE d = b
          BY <2>1, <2>2, <2>4, <4>1
        <4>2. CASE d # b
          BY <2>1, <4>2
        <4>3. QED  BY <4>1, <4>2
      <3>2. /\ Incomplete(log[d][i])' <=> Incomplete(log[d][i])
            /\ Incomplete(log[d][j])' <=> Incomplete(log[d][j])
        BY <1>3, <3>1 DEF Incomplete, getMinimumTransaction, Entries, Slots
      <3>3. QED  BY <3>1, <3>2 DEF AloneInv, CutClean
    <2>5. QED  BY <2>3, <2>4
  <1>10. Whole'
    <2> SUFFICES ASSUME NEW d \in Tables, NEW e \in Commit, InLog(d, e)', e.id # 0,
                        IF mounted' = Tables THEN e.number \notin InProgress' ELSE ~Incomplete(e)'
                 PROVE  \A a \in made'[e.number] : Has(a, e.number)'
      BY DEF Whole
    <2>1. mounted = Tables /\ e.number \notin InProgress
      BY <1>3 DEF InProgress, BaseInv, ThreadOK
    <2>2. InLog(d, e)
      <3>1. g.number \in InProgress
        BY <1>2 DEF InProgress
      <3>2. QED  BY <1>4, <2>1, <3>1
    <2>3. \A a \in made[e.number] : Has(a, e.number)
      BY <2>1, <2>2 DEF AloneInv, Whole
    <2>4. made[e.number] \in SUBSET Tables
      <3>1. e.number \in DOMAIN made
        BY <2>2 DEF EntryInv, EntryOK
      <3>2. QED  BY <1>1, <3>1, ElementOfSeq, LenProperties DEF MemoryType
    <2>5. \A a \in Tables : \A c : Has(a, c) => Has(a, c)'
      BY <1>1, <1>2, LogAppend
    <2>6. QED  BY <1>3, <2>3, <2>4, <2>5
  <1>11. QED  BY <1>7, <1>8, <1>9, <1>10 DEF AloneInv

\* The identifier is written: every entry is complete.
LEMMA AloneAllPast ==
  ASSUME BaseInv, RingInv, EntryInv, OneCrossTable, AloneInv, NEW t \in Threads,
         writeEndTransaction(t), NEW b \in Tables, NEW e \in Commit, InLog(b, e), e.id # 0
  PROVE  Past(use.trtSize, trt'.slots, e.id)
  <1> DEFINE n == use.trtSize
  <1> DEFINE f == trt.slots
  <1> DEFINE g == trt'.slots
  <1> DEFINE v == current[t].id
  <1>1. /\ n \in Nat /\ f \in [0..n -> Nat] /\ pos \in 0..n /\ v \in Nat \ {0}
        /\ g = [f EXCEPT ![pos] = v]
    BY SlotWritten
  <1>2. /\ Ring(n, f, pos) /\ v \in EntriesOf(n, g)
        /\ \A x \in Nat : Past(n, f, x) => Past(n, g, x)
    BY RingWriteEnd
  <1>3. pc[t] = "phase1" /\ v # 0 /\ mode = "WRITE" /\ e.id \in Nat
    BY DEF writeEndTransaction, BaseInv, ThreadOK, Commit
  <1>4. /\ EntriesOf(n, f) = {} \/ Past(n, f, e.id) \/ Open(e)
        /\ e.number # current[t].number => e.id < v
    BY <1>3 DEF AloneInv, WriteInv
  <1>5. CASE Past(n, f, e.id)
    BY <1>2, <1>3, <1>5
  <1>6. CASE Open(e)
    <2>1. PICK u \in Threads : current[u] = e
      BY <1>6 DEF Open
    <2>2. Cross(u) /\ Cross(t)
      BY <1>3, <2>1 DEF Cross
    <2>3. e.id = v
      BY <2>1, <2>2, CrossAlone
    <2>4. QED  BY <1>2, <2>3 DEF Past
  <1>7. CASE EntriesOf(n, f) = {}
    <2>1. CASE e.number = current[t].number
      <3>1. e = current[t]
        BY <1>3, <2>1 DEF EntryInv
      <3>2. QED  BY <1>2, <3>1 DEF Past
    <2>2. CASE e.number # current[t].number
      <3>1. e.id < v
        BY <1>4, <2>2
      <3> HIDE DEF n, f, g, v
      <3>2. \A s \in 0..n : f[s] = 0
        <4>1. EntriesOf(n, f) = {f[s] : s \in {s \in 0..n : f[s] # 0}}
          BY <1>1, <1>2, RingEntries
        <4>2. QED  BY <1>7, <4>1
      <3>3. \A s \in 0..n : g[s] \in {0, v}
        BY <1>1, <3>2
      <3>4. \A y \in EntriesOf(n, g) : y = v
        <4> SUFFICES ASSUME NEW y \in EntriesOf(n, g) PROVE y = v
          OBVIOUS
        <4>1. PICK s \in 0..n : y = g[s] /\ \A u \in 0..s : g[u] # 0
          BY DEF EntriesOf
        <4>2. s \in 0..s
          BY <1>1
        <4>3. QED  BY <3>3, <4>1, <4>2
      <3>5. Past(n, g, e.id)
        BY <1>2, <3>1, <3>4 DEF Past
      <3>6. QED  BY <3>5 DEF n, g
    <2>3. QED  BY <2>1, <2>2
  <1>8. QED  BY <1>4, <1>5, <1>6, <1>7

\* The write of an identifier ends the only open commit.
LEMMA AloneWriteEnd ==
  ASSUME BaseInv, RingInv, EntryInv, OneCrossTable, AloneInv, NEW t \in Threads,
         writeEndTransaction(t)
  PROVE  AloneInv'
  <1>1. DiskType /\ MemoryType
    BY DEF BaseInv
  <1>2. /\ UNCHANGED <<use, log, mode, sequence, mounted, current, made>>
        /\ pc[t] = "phase1" /\ current[t].id # 0
        /\ pc' = [pc EXCEPT ![t] = "perform"]
    BY DEF writeEndTransaction, atomic
  <1>3. mode = "WRITE" /\ mounted = Tables
    BY <1>2 DEF BaseInv, ThreadOK
  <1>4. \A b \in Tables, e \in Commit : InLog(b, e) /\ e.id # 0 => Past(use.trtSize, trt'.slots, e.id)
    BY AloneAllPast
  <1>5. /\ (\A b, e : InLog(b, e)' <=> InLog(b, e)) /\ (\A b, c : Has(b, c)' <=> Has(b, c))
        /\ \A c : c \in InProgress' <=> c \in InProgress
    BY <1>2 DEF InLog, Has, InProgress
  <1>6. WriteInv'
    <2>1. ASSUME NEW u \in Threads, pc'[u] = "phase1", current'[u].id # 0 PROVE FALSE
      <3>1. u # t /\ Cross(u) /\ Cross(t)
        BY <1>1, <1>2, <2>1 DEF MemoryType, Cross
      <3>2. QED  BY <3>1, CrossAlone
    <2>2. \A b \in Tables, e \in Commit : InLog(b, e) /\ e.id # 0 => e.id <= sequence
      BY <1>3 DEF AloneInv, WriteInv
    <2>3. QED  BY <1>2, <1>4, <1>5, <2>1, <2>2 DEF WriteInv
  <1>7. MountedClean'
    BY <1>2, <1>3 DEF MountedClean
  <1>8. CutClean'
    <2>1. use.trtSize \in Nat /\ trt'.slots \in [0..use.trtSize -> Nat]
      BY SlotWritten
    <2>2. ASSUME NEW b \in Tables, NEW i \in 1..Len(log'[b]) PROVE ~Incomplete(log[b][i])'
      <3>1. log[b] \in Seq(Commit) /\ log' = log
        BY <1>1, <1>2 DEF DiskType
      <3>2. PICK e \in Commit : e = log[b][i]
        BY <3>1, ElementOfSeq
      <3>3. InLog(b, e) /\ e.id \in Nat
        BY <3>1, <3>2 DEF InLog, Commit
      <3>4. ~Stops(use.trtSize, trt'.exists, trt'.slots, e.id)
        <4>1. CASE e.id = 0
          BY <4>1 DEF Stops
        <4>2. CASE e.id # 0
          <5>1. Past(use.trtSize, trt'.slots, e.id)
            BY <1>4, <3>3, <4>2
          <5>2. QED  BY <2>1, <3>3, <5>1, PastGoesOn
        <4>3. QED  BY <4>1, <4>2
      <3>5. ~Incomplete(e)'
        BY <1>2, <3>4, IncompleteStops
      <3>6. log'[b][i] = e
        BY <3>1, <3>2
      <3>7. QED  BY <3>5, <3>6 DEF Incomplete
    <2>3. QED  BY <2>2 DEF CutClean
  <1>9. Whole'
    BY <1>2, <1>3, <1>5 DEF AloneInv, Whole
  <1>10. QED  BY <1>6, <1>7, <1>8, <1>9 DEF AloneInv

\* The process dies: a commit that is not yet in all of its tables is open.
LEMMA AloneCrash ==
  ASSUME BaseInv, RingInv, EntryInv, Alone, AloneInv, Crash
  PROVE  AloneInv'
  <1>1. DiskType /\ MemoryType
    BY DEF BaseInv
  <1>2. log' = log /\ trt' = trt
    BY <1>1, CrashShape DEF Alone
  <1>3. mode' = "none" /\ mounted' = {} /\ UNCHANGED <<use, made>>
    BY DEF Crash
  <1>4. /\ (\A b, e : InLog(b, e)' <=> InLog(b, e)) /\ (\A b, c : Has(b, c)' <=> Has(b, c))
        /\ \A e : Incomplete(e)' <=> Incomplete(e)
    BY <1>2, <1>3 DEF InLog, Has, Incomplete, getMinimumTransaction, Entries, Slots
  <1>5. WriteInv' /\ MountedClean'
    BY <1>3 DEF WriteInv, MountedClean
  <1>6. CutClean'
    <2>1. \A b, i : Incomplete(log[b][i])' <=> Incomplete(log[b][i])
      BY <1>2, <1>3 DEF Incomplete, getMinimumTransaction, Entries, Slots
    <2>2. QED  BY <1>2, <2>1 DEF AloneInv, CutClean
  <1>7. Whole'
    <2> SUFFICES ASSUME NEW b \in Tables, NEW e \in Commit, InLog(b, e), e.id # 0, ~Incomplete(e)
                 PROVE  \A d \in made[e.number] : Has(d, e.number)
      <3>1. \A b \in Tables : mounted' # Tables
        BY <1>3
      <3>2. QED  BY <1>3, <1>4, <3>1 DEF Whole
    <2>1. CASE mounted # Tables \/ e.number \notin InProgress
      BY <2>1 DEF AloneInv, Whole
    <2>2. CASE mounted = Tables /\ e.number \in InProgress
      <3>1. PICK t \in Threads : current[t].number = e.number
        BY <2>2 DEF InProgress
      <3>2. e.number \in DOMAIN made /\ 0 \notin DOMAIN made
        BY <1>1, LenProperties DEF EntryInv, EntryOK, MemoryType
      <3>3. pc[t] # "idle"
        BY <3>1, <3>2 DEF BaseInv, ThreadOK, NoCommit
      <3>4. e = current[t]
        BY <3>1, <3>3 DEF EntryInv
      <3>5. pc[t] # "id"
        BY <3>1, NoEntryYet
      <3>6. pc[t] # "phase1"
        BY <3>4, OpenIncomplete DEF Alone
      <3>7. todo[t] = {}
        BY <3>5, <3>6 DEF BaseInv, ThreadOK
      <3>8. QED  BY <3>1, <3>3, <3>7 DEF BaseInv, Logged
    <2>3. QED  BY <2>1, <2>2
  <1>8. QED  BY <1>5, <1>6, <1>7 DEF AloneInv

\* Recovery keeps a complete commit in every table it is in: nothing incomplete
\* is before it.
LEMMA RecoverKeeps ==
  ASSUME DiskType, EntryInv, CutClean, NEW b \in Tables, recover(b),
         NEW e \in Commit, e.id # 0, ~Incomplete(e), NEW d \in Tables, InLog(d, e), Has(b, e.number)
  PROVE  Has(b, e.number)'
  <1>1. PICK g \in Commit : InLog(b, g) /\ g.number = e.number
    BY HasInLog
  <1>2. g.id = e.id
    BY <1>1 DEF EntryInv
  <1>3. ~Incomplete(g)
    BY <1>2 DEF Incomplete
  <1>4. PICK i \in 1..Len(log[b]) : log[b][i] = g
    BY <1>1 DEF InLog
  <1>5. Len(log[b]) \in Nat
    BY LenProperties DEF DiskType
  <1>6. ASSUME NEW j \in 1..i, Incomplete(log[b][j]) PROVE FALSE
    <2>1. j \in 1..Len(log[b]) /\ (j < i \/ j = i)
      BY <1>4, <1>5
    <2>2. j < i
      BY <1>3, <1>4, <1>6, <2>1
    <2>3. QED  BY <1>2, <1>3, <1>4, <1>6, <2>1, <2>2 DEF CutClean
  <1>7. /\ log' \in [Tables -> Seq(Commit)]
        /\ i <= Len(log'[b])
        /\ \A k \in 1..Len(log'[b]) : log'[b][k] = log[b][k]
    BY <1>4, <1>6, RecoverShape
  <1>8. log'[b] \in Seq(Commit)
    BY <1>7
  <1>9. Len(log'[b]) \in Nat /\ DOMAIN log'[b] = 1..Len(log'[b])
    BY <1>8, LenProperties
  <1>10. i \in 1..Len(log'[b])
    BY <1>4, <1>5, <1>7, <1>9
  <1>11. log'[b][i].number = e.number
    BY <1>1, <1>4, <1>7, <1>10
  <1>12. QED  BY <1>9, <1>10, <1>11 DEF Has

\* The recovery of a table.
LEMMA AloneRecover ==
  ASSUME BaseInv, EntryInv, AloneInv, NEW b \in Tables, recover(b)
  PROVE  AloneInv'
  <1>1. DiskType /\ MemoryType
    BY DEF BaseInv
  <1>2. /\ b \notin mounted /\ mounted' = mounted \cup {b} /\ mode' = "READ"
        /\ UNCHANGED <<use, trt, made, current>>
    BY DEF recover
  <1>3. mounted # Tables /\ mounted \subseteq Tables /\ mode # "WRITE"
    BY <1>1, <1>2 DEF MemoryType, EntryInv
  <1>4. \A e : Incomplete(e)' <=> Incomplete(e)
    BY <1>2 DEF Incomplete, getMinimumTransaction, Entries, Slots
  <1>5. \A d \in Tables : \A e : InLog(d, e)' => InLog(d, e) /\ (d = b => ~Incomplete(e))
    BY <1>1, InLogRecover
  <1>6. /\ Len(log'[b]) \in 0..Len(log[b])
        /\ \A i \in 1..Len(log'[b]) : log'[b][i] = log[b][i]
        /\ \A d \in Tables \ {b} : log'[d] = log[d]
    BY <1>1, RecoverShape
  <1>7. WriteInv'
    BY <1>2 DEF WriteInv
  <1>8. \A d \in mounted', e \in Commit : InLog(d, e)' => ~Incomplete(e)
    BY <1>2, <1>3, <1>5 DEF AloneInv, MountedClean
  <1>9. MountedClean'
    BY <1>4, <1>8 DEF MountedClean
  <1>10. CutClean'
    <2> SUFFICES ASSUME NEW d \in Tables, NEW i \in 1..Len(log'[d]), NEW j \in 1..Len(log'[d]),
                        i < j, log'[d][j].id # 0, Incomplete(log[d][i])'
                 PROVE  Incomplete(log[d][j])'
      BY DEF CutClean
    <2>1. /\ i \in 1..Len(log[d]) /\ j \in 1..Len(log[d])
          /\ log'[d][i] = log[d][i] /\ log'[d][j] = log[d][j]
      <3>1. Len(log[b]) \in Nat
        BY <1>1, LenProperties DEF DiskType
      <3>2. CASE d = b
        BY <1>6, <3>1, <3>2
      <3>3. CASE d # b
        BY <1>6, <3>3
      <3>4. QED  BY <3>2, <3>3
    <2>2. /\ Incomplete(log[d][i])' <=> Incomplete(log[d][i])
          /\ Incomplete(log[d][j])' <=> Incomplete(log[d][j])
      BY <1>2, <2>1 DEF Incomplete, getMinimumTransaction, Entries, Slots
    <2>3. QED  BY <2>1, <2>2 DEF AloneInv, CutClean
  <1>11. Whole'
    <2> SUFFICES ASSUME NEW d \in Tables, NEW e \in Commit, InLog(d, e)', e.id # 0,
                        IF mounted' = Tables THEN e.number \notin InProgress' ELSE ~Incomplete(e)'
                 PROVE  \A a \in made'[e.number] : Has(a, e.number)'
      BY DEF Whole
    <2>1. InLog(d, e) /\ ~Incomplete(e)
      BY <1>4, <1>5, <1>8
    <2>2. \A a \in made[e.number] : Has(a, e.number)
      BY <1>3, <2>1 DEF AloneInv, Whole
    <2>3. made[e.number] \in SUBSET Tables
      <3>1. e.number \in DOMAIN made
        BY <2>1 DEF EntryInv, EntryOK
      <3>2. QED  BY <1>1, <3>1, ElementOfSeq, LenProperties DEF MemoryType
    <2>4. ASSUME NEW a \in made[e.number] PROVE Has(a, e.number)'
      <3>1. CASE a = b
        BY <1>1, <2>1, <2>2, <3>1, RecoverKeeps DEF AloneInv
      <3>2. CASE a # b
        <4>1. Has(a, e.number) /\ log'[a] = log[a]
          BY <1>6, <2>2, <2>3, <3>2
        <4>2. QED  BY <4>1 DEF Has
      <3>3. QED  BY <3>1, <3>2
    <2>5. QED  BY <1>2, <2>4
  <1>12. QED  BY <1>7, <1>9, <1>10, <1>11 DEF AloneInv

\* Every step.
LEMMA AloneStep ==
  ASSUME BaseInv, RingInv, EntryInv, Alone => AloneInv, [Next]_vars
  PROVE  (Alone => AloneInv)'
  <1>1. use' = use
    BY DEF vars, Next, Step, plan, getTransactionId, commitRealTime, writeEndTransaction, perform,
           return, Crash, recover
  <1>2. Alone' => Alone
    BY <1>1 DEF Alone, OneCrossTable
  <1> SUFFICES ASSUME Alone, AloneInv PROVE AloneInv'
    BY <1>2
  <1>3. OneCrossTable
    BY DEF Alone
  <1>4. CASE UNCHANGED vars
    <2>1. UNCHANGED <<use, log, trt, mode, sequence, mounted, pc, current, made>>
      BY <1>4 DEF vars
    <2>2. \A n : n \in InProgress' <=> n \in InProgress
      BY <2>1 DEF InProgress
    <2>3. QED  BY <2>1, <2>2, AloneQuiet
  <1>5. ASSUME NEW t \in Threads, Step(t) \/ \E tables \in SUBSET Tables : plan(t, tables)
        PROVE  AloneInv'
    BY <1>3, <1>5, AloneMemory, AloneGetTransactionId, AloneCommitRealTime, AloneWriteEnd DEF Step
  <1>6. QED  BY <1>4, <1>5, AloneCrash, AloneRecover DEF Next

\* Nothing has been committed at first.
LEMMA AloneInit ==
  Init => EntryInv /\ AloneInv
  <1> SUFFICES ASSUME Init PROVE EntryInv /\ AloneInv
    OBVIOUS
  <1>1. log = [b \in Tables |-> <<>>] /\ mode = "none" /\ mounted = Tables
    BY DEF Init
  <1>2. \A b \in Tables : Len(log[b]) = 0
    BY <1>1
  <1>3. \A b \in Tables : \A e : ~InLog(b, e)
    BY <1>2 DEF InLog
  <1>4. CutClean
    BY <1>2 DEF CutClean
  <1>5. QED  BY <1>1, <1>3, <1>4 DEF EntryInv, AloneInv, WriteInv, MountedClean, Whole

\* A commit that is over is in all of its tables or in none, whatever crashes of
\* the process and recoveries there were, when only one thread commits over
\* several tables: deep.trt tells recovery which entries to cut.
THEOREM AllOrNothingHolds == Spec => []AllOrNothingAlone
  <1>1. ASSUME BaseInv, EntryInv, Alone => AloneInv PROVE AllOrNothingAlone
    <2> SUFFICES ASSUME Alone, AloneInv, mounted = Tables, NEW c \in DOMAIN made \ InProgress,
                        NEW b \in made[c], Has(b, c)
                 PROVE  \A d \in made[c] : Has(d, c)
      BY <1>1 DEF AllOrNothingAlone, AllOrNothing, Alone
    <2>1. DiskType /\ made[c] \in SUBSET Tables
      BY <1>1, ElementOfSeq, LenProperties DEF BaseInv, MemoryType
    <2>2. PICK e \in Commit : InLog(b, e) /\ e.number = c
      BY <2>1, HasInLog
    <2>3. CASE e.id # 0
      BY <2>1, <2>2, <2>3 DEF AloneInv, Whole
    <2>4. CASE e.id = 0
      <3>1. ~(Cardinality(made[c]) > 1)
        BY <1>1, <2>1, <2>2, <2>4 DEF EntryInv, EntryOK
      <3>2. IsFiniteSet(made[c])
        <4>1. NTables \in Int /\ 1 \in Int
          BY BoundsAssumption
        <4>2. IsFiniteSet(1..NTables)
          BY <4>1, FS_Interval
        <4>3. QED  BY <2>1, <4>2, FS_Subset DEF Tables
      <3>3. Cardinality(made[c]) \in Nat /\ Cardinality(made[c] \ {b}) = Cardinality(made[c]) - 1
            /\ IsFiniteSet(made[c] \ {b}) /\ Cardinality(made[c] \ {b}) \in Nat
        BY <3>2, FS_RemoveElement, FS_CardinalityType
      <3>4. Cardinality(made[c] \ {b}) = 0
        BY <3>1, <3>3
      <3>5. made[c] \ {b} = {}
        BY <3>3, <3>4, FS_EmptySet
      <3>6. QED  BY <3>5
    <2>5. QED  BY <2>3, <2>4
  <1> DEFINE Inv == BaseInv /\ RingInv /\ EntryInv /\ (Alone => AloneInv)
  <1>2. Init => Inv
    BY BaseInit, SafeInit, AloneInit
  <1>3. Inv /\ [Next]_vars => Inv'
    BY BaseStep, RingStep, EntryStep, AloneStep
  <1>4. Inv => AllOrNothingAlone
    BY <1>1
  <1>5. QED  BY <1>2, <1>3, <1>4, PTL DEF Spec

-----------------------------------------------------------------------------
(* The group that synchronises together, whatever crashes *)

\* A commit that waits in performSynchronizeGlobally has one of its group still
\* between plan and perform; the last of these is the one that wakes it.
WakerExists ==
    \A t \in Threads : pc[t] = "waiting" =>
        \E u \in Threads \ {t} : pc[u] \in Busy

\* A commit that is past performSynchronizeGlobally is synchronised in the logs of
\* all of its tables.
DurableOnReturn ==
    \A t \in Threads : pc[t] = "phase2" =>
        \A b \in made[current[t].number] : Kept(b, current[t].number)

\* What is inductive: with SyncedInv the one who synchronises leaves nothing out.
GroupInv == SyncedInv /\ WakerExists /\ DurableOnReturn

\* The commits of threads that are past performSynchronizeGlobally stay
\* synchronised while those threads stay, and what is synchronised stays.
LEMMA DurableKept ==
  ASSUME BaseInv, DurableOnReturn,
         \A d \in Tables : \A c : Kept(d, c) => Kept(d, c)',
         \A n \in DOMAIN made : made'[n] = made[n],
         \A u \in Threads : pc'[u] = "phase2" => pc[u] = "phase2" /\ current'[u] = current[u]
  PROVE  DurableOnReturn'
  <1> SUFFICES ASSUME NEW u \in Threads, pc'[u] = "phase2",
                      NEW b \in made'[current'[u].number]
               PROVE  \E i \in 1..logSafe'[b] : log'[b][i].number = current'[u].number
    BY DEF DurableOnReturn, Kept
  <1>1. pc[u] = "phase2" /\ current'[u] = current[u]
    OBVIOUS
  <1> DEFINE n == current[u].number
  <1>2. n \in DOMAIN made
    BY <1>1 DEF BaseInv, ThreadOK
  <1>3. made[n] \in SUBSET Tables
    BY <1>2, ElementOfSeq, LenProperties DEF BaseInv, MemoryType
  <1>4. b \in made[n] /\ b \in Tables
    BY <1>1, <1>2, <1>3
  <1>5. Kept(b, n)
    BY <1>1, <1>4 DEF DurableOnReturn
  <1>6. \A c : Kept(b, c) => \E i \in 1..logSafe'[b] : log'[b][i].number = c
    BY <1>4 DEF Kept
  <1>7. QED  BY <1>1, <1>5, <1>6

\* Steps that leave the logs and what is synchronised of them alone.
LEMMA GroupQuiet ==
  ASSUME BaseInv, GroupInv, NEW t \in Threads, Others(t),
         UNCHANGED <<log, logSafe, syncFiles>>,
         UNCHANGED <<trt, trtSafe>> \/ trtSafe' = trt'.slots,
         \A n \in DOMAIN made : made'[n] = made[n],
         pc'[t] \notin {"waiting", "phase2"}, pc'[t] \in Busy \/ pc[t] \notin Busy
  PROVE  GroupInv'
  <1>1. SyncedInv'
    BY DEF GroupInv, SyncedInv
  <1>2. WakerExists'
    BY DEF GroupInv, WakerExists, Others
  <1>3. \A u \in Threads : pc'[u] = "phase2" => pc[u] = "phase2" /\ current'[u] = current[u]
    BY DEF Others
  <1>4. \A d \in Tables : \A c : Kept(d, c) => Kept(d, c)'
    BY DEF Kept
  <1>5. DurableOnReturn'
    BY <1>3, <1>4, DurableKept DEF GroupInv
  <1>6. QED  BY <1>1, <1>2, <1>5 DEF GroupInv

\* plan, getTransactionId and return.
LEMMA GroupMemory ==
  ASSUME BaseInv, GroupInv, NEW t \in Threads,
         \/ \E tables \in SUBSET Tables : plan(t, tables)
         \/ getTransactionId(t)
         \/ return(t)
  PROVE  GroupInv'
  <1>1. MemoryType
    BY DEF BaseInv
  <1>2. \A n \in DOMAIN made : made'[n] = made[n]
    BY ThreadGrows DEF Step, Grows
  <1>3. CASE \E tables \in SUBSET Tables : plan(t, tables)
    <2>1. PICK tables \in SUBSET Tables : plan(t, tables)
      BY <1>3
    <2>2. Others(t) /\ pc'[t] \in {"id", "phase1"}
      BY <1>1, <2>1 DEF plan, Others, MemoryType
    <2>3. UNCHANGED <<log, logSafe, syncFiles, trt, trtSafe>>
      BY <2>1 DEF plan, disk
    <2>4. QED  BY <1>2, <2>2, <2>3, GroupQuiet DEF Busy
  <1>4. CASE getTransactionId(t)
    <2>1. Others(t) /\ pc'[t] = "phase1"
      BY <1>1, <1>4 DEF getTransactionId, Others, MemoryType
    <2>2. UNCHANGED <<log, logSafe, syncFiles>>
      BY <1>4 DEF getTransactionId, sync
    <2>3. UNCHANGED <<trt, trtSafe>> \/ trtSafe' = trt'.slots
      BY <1>4 DEF getTransactionId
    <2>4. QED  BY <1>2, <2>1, <2>2, <2>3, GroupQuiet DEF Busy
  <1>5. CASE return(t)
    <2>1. Others(t) /\ pc'[t] = "idle" /\ pc[t] = "phase2"
      BY <1>1, <1>5 DEF return, Others, MemoryType
    <2>2. UNCHANGED <<log, logSafe, syncFiles, trt, trtSafe>>
      BY <1>5 DEF return, disk, sync
    <2>3. QED  BY <1>2, <2>1, <2>2, GroupQuiet DEF Busy
  <1>6. QED  BY <1>3, <1>4, <1>5

\* A log that grows is in s_syncFiles.
LEMMA GroupCommitRealTime ==
  ASSUME BaseInv, GroupInv, NEW t \in Threads, commitRealTime(t)
  PROVE  GroupInv'
  <1>1. DiskType /\ MemoryType
    BY DEF BaseInv
  <1>2. PICK b \in Tables, e \in Commit :
           /\ log' = [log EXCEPT ![b] = Append(@, e)]
           /\ syncFiles' = syncFiles \cup {b}
    BY CommitTable
  <1>3. UNCHANGED <<logSafe, trt, trtSafe, pc, current, made>>
    BY DEF commitRealTime
  <1>4. /\ \A i \in 1..Len(log[b]) : log'[b][i] = log[b][i]
        /\ \A d \in Tables \ {b} : log'[d] = log[d]
    BY <1>1, <1>2, LogAppend
  <1>5. SyncedInv'
    <2>1. b # 0
      BY DEF Tables
    <2>2. QED  BY <1>2, <1>3, <1>4, <2>1 DEF GroupInv, SyncedInv
  <1>6. WakerExists'
    BY <1>3 DEF GroupInv, WakerExists
  <1>7. \A d \in Tables : \A c : Kept(d, c) => Kept(d, c)'
    <2>1. \A d \in Tables : Len(log[d]) \in Nat /\ logSafe[d] \in Nat /\ logSafe[d] <= Len(log[d])
      BY <1>1, LenProperties DEF DiskType
    <2>2. \A d \in Tables : \A i \in 1..logSafe[d] : log'[d][i] = log[d][i]
      BY <1>4, <2>1
    <2>3. QED  BY <1>3, <2>2 DEF Kept
  <1>8. DurableOnReturn'
    BY <1>3, <1>7, DurableKept DEF GroupInv
  <1>9. QED  BY <1>5, <1>6, <1>8 DEF GroupInv

\* So is deep.trt once an identifier has been written to it.
LEMMA GroupWriteEnd ==
  ASSUME BaseInv, GroupInv, NEW t \in Threads, writeEndTransaction(t)
  PROVE  GroupInv'
  <1>1. DiskType /\ MemoryType
    BY DEF BaseInv
  <1>2. /\ syncFiles' = syncFiles \cup {0} /\ pc' = [pc EXCEPT ![t] = "perform"]
        /\ pc[t] = "phase1" /\ UNCHANGED <<log, logSafe, current, made>>
    BY DEF writeEndTransaction
  <1>3. pc'[t] = "perform" /\ \A u \in Threads \ {t} : pc'[u] = pc[u]
    BY <1>1, <1>2 DEF MemoryType
  <1>4. SyncedInv'
    BY <1>2 DEF GroupInv, SyncedInv
  <1>5. WakerExists'
    BY <1>2, <1>3 DEF GroupInv, WakerExists, Busy
  <1>6. /\ \A d \in Tables : \A c : Kept(d, c) => Kept(d, c)'
        /\ \A u \in Threads : pc'[u] = "phase2" => pc[u] = "phase2" /\ current'[u] = current[u]
    BY <1>2, <1>3 DEF Kept
  <1>7. DurableOnReturn'
    BY <1>2, <1>6, DurableKept DEF GroupInv
  <1>8. QED  BY <1>4, <1>5, <1>7 DEF GroupInv

\* One that is not the last waits, and leaves another behind that has not
\* performed yet.
LEMMA GroupWait ==
  ASSUME BaseInv, GroupInv, NEW t \in Threads, perform(t), syncCount # 1
  PROVE  GroupInv'
  <1>1. MemoryType /\ SyncInv
    BY DEF BaseInv
  <1>2. /\ pc' = [pc EXCEPT ![t] = "waiting"]
        /\ UNCHANGED <<log, logSafe, trt, trtSafe, syncFiles, current, made>>
    BY DEF perform
  <1>3. pc'[t] = "waiting" /\ \A u \in Threads \ {t} : pc'[u] = pc[u]
    BY <1>1, <1>2 DEF MemoryType
  <1>4. PICK v \in Threads \ {t} : pc[v] \in Busy
    <2>1. pc[t] \in Busy /\ "waiting" \in PCs /\ "waiting" \notin Busy
      BY Performing DEF PCs, Busy
    <2>2. /\ Cardinality(Counted) \in Nat /\ Cardinality(Counted) # 0
          /\ Cardinality(Counted') = Cardinality(Counted) + 0 - 1
      BY <1>1, <1>2, <2>1, CountedStep
    <2>3. Cardinality(Counted') # 0
      BY <1>1, <2>2 DEF SyncInv
    <2>4. Counted' # {}
      BY <2>3, FS_EmptySet
    <2>5. PICK v \in Threads : pc'[v] \in Busy
      BY <2>4 DEF Counted
    <2>6. v # t
      BY <1>3, <2>1, <2>5
    <2>7. QED  BY <1>3, <2>5, <2>6
  <1>5. WakerExists'
    <2> SUFFICES ASSUME NEW u \in Threads, pc'[u] = "waiting"
                 PROVE  \E w \in Threads \ {u} : pc'[w] \in Busy
      BY DEF WakerExists
    <2>1. pc'[v] \in Busy
      BY <1>3, <1>4
    <2>2. u # v
      BY <2>1 DEF Busy
    <2>3. QED  BY <1>4, <2>1, <2>2
  <1>6. SyncedInv'
    BY <1>2 DEF GroupInv, SyncedInv
  <1>7. /\ \A d \in Tables : \A c : Kept(d, c) => Kept(d, c)'
        /\ \A u \in Threads : pc'[u] = "phase2" => pc[u] = "phase2" /\ current'[u] = current[u]
    BY <1>2, <1>3 DEF Kept
  <1>8. DurableOnReturn'
    BY <1>2, <1>7, DurableKept DEF GroupInv
  <1>9. QED  BY <1>5, <1>6, <1>8 DEF GroupInv

\* The last one synchronises every log, and leaves nobody waiting.
LEMMA GroupSynchronize ==
  ASSUME BaseInv, GroupInv, NEW t \in Threads, perform(t), syncCount = 1
  PROVE  GroupInv'
  <1>1. DiskType /\ MemoryType
    BY DEF BaseInv
  <1>2. /\ Synchronized
        /\ pc' = [u \in Threads |-> IF u = t \/ pc[u] = "waiting" THEN "phase2" ELSE pc[u]]
        /\ UNCHANGED <<log, trt, current, made>>
    BY DEF perform
  <1>3. WakerExists'
    BY <1>2 DEF WakerExists
  <1>4. \A b \in Tables : logSafe'[b] = Len(log[b])
    BY <1>2 DEF Synchronized, GroupInv, SyncedInv
  <1>5. trtSafe' = trt.slots
    BY <1>2 DEF Synchronized, GroupInv, SyncedInv
  <1>6. SyncedInv'
    BY <1>2, <1>4, <1>5 DEF SyncedInv
  <1>7. \A b \in Tables : \A c : Has(b, c) => \E i \in 1..logSafe'[b] : log'[b][i].number = c
    <2>1. \A b \in Tables : DOMAIN log[b] = 1..Len(log[b])
      BY <1>1, LenProperties DEF DiskType
    <2>2. QED  BY <1>2, <1>4, <2>1 DEF Has
  <1>8. ASSUME NEW u \in Threads, pc'[u] = "phase2", NEW b \in made[current[u].number]
        PROVE  b \in Tables /\ Has(b, current[u].number)
    <2>1. pc[u] # "idle" /\ todo[u] = {}
      BY <1>2, <1>8, Performing DEF BaseInv, ThreadOK
    <2>2. current[u].number \in DOMAIN made
      BY <2>1 DEF BaseInv, ThreadOK
    <2>3. made[current[u].number] \in SUBSET Tables
      BY <1>1, <2>2, ElementOfSeq, LenProperties DEF MemoryType
    <2>4. QED  BY <1>8, <2>1, <2>3 DEF BaseInv, Logged
  <1>9. DurableOnReturn'
    BY <1>2, <1>7, <1>8 DEF DurableOnReturn, Kept
  <1>10. QED  BY <1>3, <1>6, <1>9 DEF GroupInv

\* A crash leaves nobody at work and makes what is left of the files the
\* synchronised part; recovery cuts a log and synchronises it.
LEMMA GroupCrashRecover ==
  ASSUME BaseInv, GroupInv, Crash \/ \E b \in Tables : recover(b)
  PROVE  GroupInv'
  <1>1. CASE Crash
    <2>1. /\ logSafe' = [b \in Tables |-> Len(log'[b])] /\ trtSafe' = trt'.slots
          /\ pc' = [t \in Threads |-> "idle"]
      BY <1>1 DEF Crash
    <2>2. SyncedInv'
      BY <2>1 DEF SyncedInv
    <2>3. \A t \in Threads : pc'[t] = "idle"
      BY <2>1
    <2>4. QED  BY <2>2, <2>3 DEF GroupInv, WakerExists, DurableOnReturn
  <1>2. CASE \E b \in Tables : recover(b)
    <2>1. PICK b \in Tables : recover(b)
      BY <1>2
    <2>2. /\ logSafe' = [logSafe EXCEPT ![b] = Len(log'[b])] /\ b \notin mounted
          /\ UNCHANGED <<trt, trtSafe, syncFiles, pc>>
      BY <2>1 DEF recover, sync
    <2>3. DiskType /\ \A d \in Tables \ {b} : log'[d] = log[d]
      BY <2>1, RecoverShape DEF BaseInv
    <2>4. logSafe'[b] = Len(log'[b]) /\ \A d \in Tables \ {b} : logSafe'[d] = logSafe[d]
      BY <2>2, <2>3 DEF DiskType
    <2>5. SyncedInv'
      BY <2>2, <2>3, <2>4 DEF GroupInv, SyncedInv
    <2>6. \A t \in Threads : pc'[t] = "idle"
      BY <2>2, RecoverAlone
    <2>7. QED  BY <2>5, <2>6 DEF GroupInv, WakerExists, DurableOnReturn
  <1>3. QED  BY <1>1, <1>2

\* The invariant is inductive.
LEMMA GroupStep ==
  BaseInv /\ GroupInv /\ [Next]_vars => GroupInv'
  <1> SUFFICES ASSUME BaseInv, GroupInv, [Next]_vars PROVE GroupInv'
    OBVIOUS
  <1>1. CASE UNCHANGED vars
    BY <1>1 DEF vars, GroupInv, SyncedInv, WakerExists, DurableOnReturn, Kept
  <1>2. CASE \E t \in Threads : Step(t) \/ \E tables \in SUBSET Tables : plan(t, tables)
    BY <1>2, GroupMemory, GroupCommitRealTime, GroupWriteEnd, GroupWait, GroupSynchronize
       DEF Step
  <1>3. QED  BY <1>1, <1>2, GroupCrashRecover DEF Next

\* Nothing is logged and nobody waits at first.
LEMMA GroupInit ==
  Init => GroupInv
  <1> SUFFICES ASSUME Init PROVE GroupInv
    OBVIOUS
  <1>1. \A b \in Tables : log[b] = <<>> /\ logSafe[b] = 0
    BY DEF Init
  <1>2. \A b \in Tables : logSafe[b] = Len(log[b])
    BY <1>1, EmptySeq
  <1>3. SyncedInv
    BY <1>2 DEF Init, SyncedInv
  <1>4. QED  BY <1>3 DEF Init, GroupInv, WakerExists, DurableOnReturn

\* The invariant holds always.
LEMMA GroupHolds ==
  Spec => []GroupInv
  <1>1. Init => BaseInv /\ GroupInv
    BY BaseInit, GroupInit
  <1>2. (BaseInv /\ GroupInv) /\ [Next]_vars => (BaseInv /\ GroupInv)'
    BY BaseStep, GroupStep
  <1>3. QED  BY <1>1, <1>2, PTL DEF Spec

\* No commit is left behind in performSynchronizeGlobally: while one waits, one of
\* its group has not performed yet and will synchronise for it or leave that to a
\* later one.  This is the safety half of CommitReturns, for any number of crashes
\* and any size of deep.trt.
THEOREM NobodyLeftWaiting == Spec => []WakerExists
  <1>1. GroupInv => WakerExists
    BY DEF GroupInv
  <1>2. QED  BY <1>1, GroupHolds, PTL

\* performSynchronizeGlobally keeps its promise to every commit of the group, not
\* only to the one that synchronises: when a commit comes to durable-phase2 its
\* entries are synchronised in the logs of all of its tables, whatever crashes came
\* before and however often deep.trt has wrapped.
THEOREM ReturnsDurable == Spec => []DurableOnReturn
  <1>1. GroupInv => DurableOnReturn
    BY DEF GroupInv
  <1>2. QED  BY <1>1, GroupHolds, PTL
=============================================================================
