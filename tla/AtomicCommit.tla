---------------------------- MODULE AtomicCommit ----------------------------
(***************************************************************************)
(* Durable commits over several tables: Transaction::commit with the       *)
(* grouped synchronisation of MeasuredRandomAccessFile.h, the file deep.trt *)
(* of completed cross-table transactions (RealTimeAtomic.h), and the        *)
(* recovery of a table from its log (recoverRealTimeProcessLoop and         *)
(* recoveryRead).                                                           *)
(*                                                                          *)
(* A commit appends its entries to the log of each of its tables.  When     *)
(* they are more than one, the entries carry a transaction identifier, and  *)
(* the identifier is written to deep.trt after the last log.  Recovery of a *)
(* table replays its log up to the first entry whose identifier should be   *)
(* in deep.trt and is not, and cuts the log there.  All commits between     *)
(* planSynchronizeGlobally and performSynchronizeGlobally are synchronised  *)
(* together, by the last of them.                                           *)
(*                                                                          *)
(* A log is the sequence of its commits, with their identifiers (0 for a    *)
(* commit of one table).  A process that dies leaves what it has flushed; a *)
(* machine that dies leaves what was synchronised and any part of the rest. *)
(***************************************************************************)
EXTENDS Naturals, Sequences, FiniteSets, FiniteSetsExt

CONSTANTS Threads,
          NTables,     \* tables, in the order of the conductors
          Uses,        \* the tables a thread's commits write, what may fail, and
                       \* the size of deep.trt: it has the slots 0..trtSize
          MaxCommits,  \* bound
          MaxCrashes   \* bound

Tables == 1..NTables

ASSUME UsesAssumption ==
    Uses \subseteq [tables : [Threads -> SUBSET (SUBSET Tables \ {{}})],
                    fault : {"process", "machine"}, trtSize : Nat]
ASSUME BoundsAssumption == {NTables, MaxCommits, MaxCrashes} \subseteq Nat
ASSUME ThreadsAssumption == IsFiniteSet(Threads)

VARIABLES use,       \* fixed
          log,       \* the log of each table, as flushed
          logSafe,   \* how much of it is synchronised
          trt,       \* deep.trt: whether it exists, its slots (0 is no identifier)
          trtSafe,   \* its slots as synchronised
          pos,       \* where the next identifier goes
          mode,      \* of the RealTimeAtomic instance: none, READ or WRITE
          sequence,  \* its m_sequence
          mounted,   \* tables that have been recovered
          syncCount, \* s_syncCount
          syncFiles, \* s_syncFiles
          pc, current, todo,  \* per thread: the step, the commit, tables to log
          made,      \* the tables of every commit so far
          acked,     \* commits that have returned
          crashes
vars == <<use, log, logSafe, trt, trtSafe, pos, mode, sequence, mounted, syncCount,
          syncFiles, pc, current, todo, made, acked, crashes>>

disk == <<log, logSafe, trt, trtSafe, pos>>
atomic == <<mode, sequence>>
sync == <<syncCount, syncFiles>>

Slots == 0..use.trtSize
NoCommit == [number |-> 0, id |-> 0]
Empty == [s \in Slots |-> 0]

Init ==
    /\ use \in Uses
    /\ log = [b \in Tables |-> <<>>] /\ logSafe = [b \in Tables |-> 0]
    /\ trt = [exists |-> FALSE, slots |-> Empty] /\ trtSafe = Empty /\ pos = 0
    /\ mode = "none" /\ sequence = 0
    /\ mounted = Tables
    /\ syncCount = 0 /\ syncFiles = {}
    /\ pc = [t \in Threads |-> "idle"]
    /\ current = [t \in Threads |-> NoCommit]
    /\ todo = [t \in Threads |-> {}]
    /\ made = <<>> /\ acked = {} /\ crashes = 0

-----------------------------------------------------------------------------
(* deep.trt *)

\* initializeEntries: the identifiers up to the first free slot.
Entries ==
    {trt.slots[s] : s \in {s \in Slots : \A u \in 0..s : trt.slots[u] # 0}}

\* first() of an empty set is 0.
getMinimumTransaction == IF Entries = {} THEN 0 ELSE Min(Entries)
getMaximumTransaction == IF Entries = {} THEN 0 ELSE Max(Entries)

\* getInstance(WRITE): the first cross-table commit since the start begins a new
\* file, with identifiers above those of the old one; then getTransactionId.
getTransactionId(t) ==
    LET base == IF mode = "WRITE" THEN sequence ELSE getMaximumTransaction + 1
    IN  /\ pc[t] = "id"
        /\ mode' = "WRITE"
        /\ sequence' = base + 1
        /\ current' = [current EXCEPT ![t].id = base + 1]
        /\ IF mode = "WRITE"
           THEN UNCHANGED <<trt, trtSafe, pos>>
           ELSE trt' = [exists |-> TRUE, slots |-> Empty] /\ trtSafe' = Empty /\ pos' = 0
        /\ pc' = [pc EXCEPT ![t] = "phase1"]
        /\ UNCHANGED <<use, log, logSafe, mounted, sync, todo, made, acked, crashes>>

-----------------------------------------------------------------------------
(* Transaction::commit *)

\* planSynchronizeGlobally.
plan(t, tables) ==
    /\ pc[t] = "idle" /\ mounted = Tables /\ Len(made) < MaxCommits
    /\ tables \in use.tables[t]
    /\ syncCount' = syncCount + 1
    /\ made' = Append(made, tables)
    /\ current' = [current EXCEPT ![t] = [number |-> Len(made) + 1, id |-> 0]]
    /\ todo' = [todo EXCEPT ![t] = tables]
    /\ pc' = [pc EXCEPT ![t] = IF Cardinality(tables) > 1 THEN "id" ELSE "phase1"]
    /\ UNCHANGED <<use, disk, atomic, mounted, syncFiles, acked, crashes>>

\* conductor->commit(level, durable-phase1): the next table's log is written,
\* flushed and given to prepareSynchronizeGlobally.
commitRealTime(t) ==
    LET b == Min(todo[t])
    IN  /\ pc[t] = "phase1" /\ todo[t] # {}
        /\ log' = [log EXCEPT ![b] = Append(@, current[t])]
        /\ todo' = [todo EXCEPT ![t] = @ \ {b}]
        /\ syncFiles' = syncFiles \cup {b}
        /\ UNCHANGED <<use, logSafe, trt, trtSafe, pos, atomic, mounted, syncCount, pc,
                       current, made, acked, crashes>>

\* The identifier of a cross-table commit; the file pointer returns to the start
\* once it has passed the file's size.
writeEndTransaction(t) ==
    /\ pc[t] = "phase1" /\ todo[t] = {} /\ current[t].id # 0
    /\ trt' = [trt EXCEPT !.slots[pos] = current[t].id]
    /\ pos' = IF pos + 1 > use.trtSize THEN 0 ELSE pos + 1
    /\ syncFiles' = syncFiles \cup {0}
    /\ pc' = [pc EXCEPT ![t] = "perform"]
    /\ UNCHANGED <<use, log, logSafe, trtSafe, atomic, mounted, syncCount, current, todo,
                   made, acked, crashes>>

\* Everything prepared reaches the disk; 0 stands for deep.trt.
Synchronized ==
    /\ logSafe' = [b \in Tables |-> IF b \in syncFiles THEN Len(log[b]) ELSE logSafe[b]]
    /\ trtSafe' = IF 0 \in syncFiles THEN trt.slots ELSE trtSafe
    /\ syncFiles' = {}

\* Mutant: a commit that is not the last does not wait.
performReturns(t) ==
    /\ \/ pc[t] = "perform"
       \/ pc[t] = "phase1" /\ todo[t] = {} /\ current[t].id = 0
    /\ syncCount' = syncCount - 1
    /\ IF syncCount = 1 THEN Synchronized ELSE UNCHANGED <<logSafe, trtSafe, syncFiles>>
    /\ pc' = [pc EXCEPT ![t] = "phase2"]
    /\ UNCHANGED <<use, log, trt, pos, atomic, mounted, current, todo, made, acked, crashes>>

\* Mutant: the last one notifies nobody.
performSilent(t) ==
    /\ \/ pc[t] = "perform"
       \/ pc[t] = "phase1" /\ todo[t] = {} /\ current[t].id = 0
    /\ syncCount' = syncCount - 1
    /\ IF syncCount = 1
       THEN Synchronized /\ pc' = [pc EXCEPT ![t] = "phase2"]
       ELSE pc' = [pc EXCEPT ![t] = "waiting"] /\ UNCHANGED <<logSafe, trtSafe, syncFiles>>
    /\ UNCHANGED <<use, log, trt, pos, atomic, mounted, current, todo, made, acked, crashes>>

\* performSynchronizeGlobally: the last commit of the group synchronises for
\* all, the others wait for it.
perform(t) ==
    /\ \/ pc[t] = "perform"
       \/ pc[t] = "phase1" /\ todo[t] = {} /\ current[t].id = 0
    /\ syncCount' = syncCount - 1
    /\ IF syncCount = 1
       THEN /\ Synchronized
            /\ pc' = [u \in Threads |->
                         IF u = t \/ pc[u] = "waiting" THEN "phase2" ELSE pc[u]]
       ELSE /\ pc' = [pc EXCEPT ![t] = "waiting"]
            /\ UNCHANGED <<logSafe, trtSafe, syncFiles>>
    /\ UNCHANGED <<use, log, trt, pos, atomic, mounted, current, todo, made, acked, crashes>>

\* durable-phase2 changes memory only, and the commit returns.
return(t) ==
    /\ pc[t] = "phase2"
    /\ acked' = acked \cup {current[t].number}
    /\ current' = [current EXCEPT ![t] = NoCommit]
    /\ pc' = [pc EXCEPT ![t] = "idle"]
    /\ UNCHANGED <<use, disk, atomic, mounted, sync, todo, made, crashes>>

-----------------------------------------------------------------------------
(* Crash and recovery *)

\* A log is cut at any length that keeps what was synchronised, and a slot of
\* deep.trt that was not synchronised is the old or the new one.
LeftByMachine ==
    /\ \E n \in [Tables -> 0..MaxCommits] :
          /\ \A b \in Tables : n[b] \in logSafe[b]..Len(log[b])
          /\ log' = [b \in Tables |-> SubSeq(log[b], 1, n[b])]
    /\ \E new \in SUBSET Slots :
          trt' = [trt EXCEPT !.slots =
                     [s \in Slots |-> IF s \in new THEN @[s] ELSE trtSafe[s]]]

Crash ==
    /\ crashes < MaxCrashes
    /\ IF use.fault = "machine" THEN LeftByMachine ELSE UNCHANGED <<log, trt>>
    /\ logSafe' = [b \in Tables |-> Len(log'[b])]
    /\ trtSafe' = trt'.slots
    /\ mode' = "none" /\ sequence' = 0 /\ pos' = 0
    /\ mounted' = {}
    /\ syncCount' = 0 /\ syncFiles' = {}
    /\ pc' = [t \in Threads |-> "idle"]
    /\ current' = [t \in Threads |-> NoCommit]
    /\ todo' = [t \in Threads |-> {}]
    /\ crashes' = crashes + 1
    /\ UNCHANGED <<use, made, acked>>

\* Mutant: an empty deep.trt proves nothing incomplete.
IncompleteIfAny(e) ==
    /\ trt.exists /\ e.id # 0 /\ Entries # {}
    /\ e.id >= getMinimumTransaction
    /\ e.id \notin Entries

\* An entry of a cross-table commit that is not known to have completed.
Incomplete(e) ==
    /\ trt.exists /\ e.id # 0
    /\ e.id >= getMinimumTransaction
    /\ e.id \notin Entries

\* recoveryRead stops at the first such entry, and the log is cut there.
Replayed(l) ==
    LET bad == {i \in DOMAIN l : Incomplete(l[i])}
    IN  IF bad = {} THEN l ELSE SubSeq(l, 1, Min(bad) - 1)

\* Mounting a table recovers it, with an instance in READ mode.
recover(b) ==
    /\ b \notin mounted
    /\ mode' = "READ"
    /\ sequence' = IF mode = "READ" THEN sequence ELSE getMaximumTransaction + 1
    /\ log' = [log EXCEPT ![b] = Replayed(@)]
    /\ logSafe' = [logSafe EXCEPT ![b] = Len(log'[b])]
    /\ mounted' = mounted \cup {b}
    /\ UNCHANGED <<use, trt, trtSafe, pos, sync, pc, current, todo, made, acked, crashes>>

Step(t) ==
    \/ getTransactionId(t) \/ commitRealTime(t) \/ writeEndTransaction(t)
    \/ perform(t) \/ return(t)

Next ==
    \/ \E t \in Threads : Step(t) \/ \E tables \in SUBSET Tables : plan(t, tables)
    \/ Crash
    \/ \E b \in Tables : recover(b)

Spec == Init /\ [][Next]_vars

\* A thread that commits keeps running.
FairSpec == Spec /\ \A t \in Threads : WF_vars(Step(t))

-----------------------------------------------------------------------------
(* Properties *)

\* The types of the variables.
TypeOK ==
    /\ log \in [Tables -> Seq([number : Nat, id : Nat])]
    /\ \A b \in Tables : logSafe[b] \in 0..Len(log[b])
    /\ trt \in [exists : BOOLEAN, slots : [Slots -> Nat]]
    /\ trtSafe \in [Slots -> Nat] /\ pos \in Slots
    /\ mode \in {"none", "READ", "WRITE"} /\ sequence \in Nat
    /\ mounted \subseteq Tables
    /\ syncCount \in Nat /\ syncFiles \subseteq Tables \cup {0}
    /\ pc \in [Threads -> {"idle", "id", "phase1", "perform", "waiting", "phase2"}]
    /\ current \in [Threads -> [number : Nat, id : Nat]]
    /\ todo \in [Threads -> SUBSET Tables]
    /\ made \in Seq(SUBSET Tables) /\ acked \subseteq 1..Len(made)

Has(b, c) == \E i \in DOMAIN log[b] : log[b][i].number = c

\* A commit that has returned is in every one of its tables after one crash of the
\* process or of the machine and the recovery of each table: it returned only when no
\* older commit was still open whose entries would stop the replay before its own.  A
\* second crash may lose it, when the first cross-table commit after the recovery has
\* begun a new deep.trt and written nothing to it.
AcknowledgedSurvives ==
    \A c \in acked : \A b \in made[c] \cap mounted : Has(b, c)

InProgress == {current[t].number : t \in Threads}

\* A commit that is over is in all of its tables or in none.
AllOrNothing ==
    mounted = Tables =>
        \A c \in DOMAIN made \ InProgress :
            {b \in made[c] : Has(b, c)} \in {{}, made[c]}

\* Only one thread commits over several tables at a time.
OneCrossTable ==
    \A t, u \in Threads :
        (\E a \in use.tables[t], b \in use.tables[u] : Cardinality(a) > 1 /\ Cardinality(b) > 1)
            => t = u

\* deep.trt keeps AllOrNothing when the process dies and cross-table commits do
\* not overlap one another.
AllOrNothingAlone == OneCrossTable /\ use.fault = "process" => AllOrNothing

\* Nobody is left waiting in performSynchronizeGlobally: a commit that waits is
\* woken by the last of its group, whoever that turns out to be.
CommitReturns == \A t \in Threads : pc[t] = "waiting" ~> pc[t] # "waiting"
=============================================================================
