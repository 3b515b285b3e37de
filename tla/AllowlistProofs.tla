--------------------------- MODULE AllowlistProofs ---------------------------
(***************************************************************************)
(* Proofs about Allowlist, for any number of readers, writers, uids and    *)
(* allocations and any limit of the counter; then about AllowlistFile, for *)
(* any uids, first files, changes and reboots.                             *)
(*                                                                         *)
(* The invariant of Allowlist is built in layers: the locals of threads    *)
(* (LocalInv), references (RefInv), memory that readers may still touch    *)
(* without a reference (GraceInv), what lookups have seen (SeenInv), and   *)
(* the summaries kept beside the table (CountInv, DefaultInv).             *)
(***************************************************************************)
EXTENDS Allowlist, AllowlistFile, FiniteSetTheorems, TLAPS

\* What a writer works on.
Operation == [uid : Uids \cup {Null}, profile : Profiles \cup {Null}, todo : SUBSET Uids]

\* The types of everything, but for the lower bounds of the counters.
BaseTypes ==
  /\ allow_list \in [Uids -> NodeIds \cup {Null}]
  /\ allow_list_count \in Int
  /\ default_umount \in BOOLEAN
  /\ allowlist_mutex \in Writers \cup {Null}
  /\ profile \in [NodeIds -> Profiles \cup {Null}]
  /\ ref \in [NodeIds -> Int]
  /\ mem \in [NodeIds -> {"unused", "live", "grace", "freed"}]
  /\ grace \in [NodeIds -> SUBSET Readers]
  /\ wpc \in [Writers -> {"idle", "set", "put", "prune", "prunePut"}]
  /\ wop \in [Writers -> Operation]
  /\ old \in [Writers -> NodeIds \cup {Null}]
  /\ rpc \in [Readers -> {"idle", "find", "deref", "get", "exit", "use", "done"}]
  /\ rop \in [Readers -> [kind : Lookups \cup {Null}, uid : Uids \cup {Null}]]
  /\ ptr \in [Readers -> NodeIds \cup {Null}]
  /\ result \in [Readers -> Profiles \cup {Null}]
  /\ seen \in [Readers -> SUBSET (Profiles \cup {Null})]

\* One writer at a time is inside, and what its locals hold at each position.
WriterInv ==
  \A w \in Writers :
    /\ allowlist_mutex = w <=> wpc[w] # "idle"
    /\ old[w] # Null <=> wpc[w] \in {"put", "prunePut"}
    /\ wpc[w] \in {"set", "put"} => wop[w].uid \in Uids /\ wop[w].profile \in Profiles
    /\ wpc[w] \in {"prune", "prunePut"} => wop[w].todo \subseteq Uids \ PreservedUids

\* What a reader's locals hold at each position.
ReaderInv ==
  \A r \in Readers :
    /\ rpc[r] \in {"deref", "get", "use"} => ptr[r] # Null
    /\ rpc[r] \in {"idle", "find", "done"} => ptr[r] = Null
    /\ rpc[r] # "idle" => rop[r].uid \in Uids

LocalInv == BaseTypes /\ WriterInv /\ ReaderInv

Owned == Linked \cup Unlinking

\* A node belongs to one uid, or to the writer that unlinked it; the count is
\* exact; what was allocated has contents.
RefInv ==
  /\ RefCountExact
  /\ \A u, v \in Uids : allow_list[u] # Null /\ allow_list[u] = allow_list[v] => u = v
  /\ \A w \in Writers : old[w] \notin Linked
  /\ \A n \in NodeIds : mem[n] # "unused" => profile[n] \in Profiles

\* A reader that found a node and has no reference yet is waited for, and only
\* readers inside RCU sections are.
GraceInv ==
  /\ \A n \in NodeIds : grace[n] \subseteq InRcu
  /\ \A r \in Readers :
       rpc[r] \in {"deref", "get"} =>
         mem[ptr[r]] = "live" \/ (mem[ptr[r]] = "grace" /\ r \in grace[ptr[r]])

\* A lookup under way has seen the entry of its uid, and what it found and will
\* return is something it has seen.
SeenInv ==
  \A r \in Readers :
    /\ r \in InRcu => Entry(rop[r].uid) \in seen[r]
    /\ rpc[r] \in {"deref", "get"} => profile[ptr[r]] \in seen[r]
    /\ rpc[r] = "get" => result[r] = profile[ptr[r]]
    /\ rpc[r] \in {"exit", "use", "done"} => result[r] \in seen[r]

\* The writer between hlist_del_rcu and --allow_list_count is counted still.
Uncounted == IF \E w \in Writers : wpc[w] = "prunePut" THEN 1 ELSE 0

\* The counter, also half way through an operation.
CountInv ==
  /\ IsFiniteSet(Linked)
  /\ allow_list_count = Cardinality(Linked) + Uncounted
  /\ allow_list_count <= CountMax

\* The cached default is right unless the writer that changed it is about to
\* update it.
DefaultInv ==
  /\ \A w \in Writers : wpc[w] = "put" =>
       allow_list[wop[w].uid] # Null /\ profile[allow_list[wop[w].uid]] = wop[w].profile
  /\ \/ \E w \in Writers : wpc[w] = "put" /\ wop[w].uid = DefaultUid
     \/ allow_list[DefaultUid] # Null =>
          default_umount = profile[allow_list[DefaultUid]].umount_modules

AllowlistInv ==
  LocalInv /\ RefInv /\ GraceInv /\ SeenInv /\ CountInv /\ DefaultInv

-----------------------------------------------------------------------------
(* Locals *)

\* Ticking a uid off a pruning writer's list leaves an operation.
LEMMA OperationTodo ==
  ASSUME NEW op \in Operation, NEW uid
  PROVE  /\ [op EXCEPT !.todo = @ \ {uid}] \in Operation
         /\ [op EXCEPT !.todo = @ \ {uid}].todo = op.todo \ {uid}
  BY DEF Operation

\* Nobody is inside a call after ksu_allowlist_init.
LEMMA LocalInit == Init => LocalInv
  BY ConstantsAssumption DEF Init, Operation, LocalInv, BaseTypes, WriterInv, ReaderInv, NoOp,
     NoLookup


\* Every step keeps the threads' locals as their positions say.
LEMMA LocalStep == LocalInv /\ [Next]_vars => LocalInv'
<1> SUFFICES ASSUME LocalInv, [Next]_vars PROVE LocalInv'
  OBVIOUS
<1> USE ConstantsAssumption
<1>1. ASSUME NEW w \in Writers, NEW uid \in Uids, NEW p \in Profiles, SetLock(w, uid, p) PROVE LocalInv'
  <2>1. wop' = [wop EXCEPT ![w] = [uid |-> uid, profile |-> p, todo |-> {}]]
    BY <1>1 DEF SetLock
  <2>2. BaseTypes'
    BY <1>1, <2>1 DEF SetLock, TakeMutex, Operation, memVars, readerVars, LocalInv, BaseTypes
  <2>3. WriterInv' /\ ReaderInv'
    BY <1>1, <2>1 DEF SetLock, TakeMutex, Operation, memVars, readerVars, LocalInv, BaseTypes,
       WriterInv, ReaderInv
  <2> QED
    BY <2>2, <2>3 DEF LocalInv
<1>2. ASSUME NEW w \in Writers, NEW n \in NodeIds, SetReplace(w, n) PROVE LocalInv'
  BY <1>2 DEF SetReplace, AllocNode, Observe, InRcu, readerVars, Operation, LocalInv,
     BaseTypes, WriterInv, ReaderInv
<1>3. ASSUME NEW w \in Writers, NEW n \in NodeIds, SetInsert(w, n) PROVE LocalInv'
  BY <1>3 DEF SetInsert, AllocNode, Observe, InRcu, Unlock, UpdateDefault, NoOp,
     readerVars, Operation, LocalInv, BaseTypes, WriterInv, ReaderInv
<1>4. ASSUME NEW w \in Writers, SetPut(w) PROVE LocalInv'
  BY <1>4 DEF SetPut, PutNode, InRcu, Unlock, UpdateDefault, NoOp, readerVars,
     Operation, LocalInv, BaseTypes, WriterInv, ReaderInv
<1>5. ASSUME NEW w \in Writers, SetFail(w) PROVE LocalInv'
  BY <1>5 DEF SetFail, Unlock, NoOp, memVars, readerVars, Operation, LocalInv,
     BaseTypes, WriterInv, ReaderInv
<1>6. ASSUME NEW w \in Writers, NEW gone \in SUBSET Uids, PruneLock(w, gone) PROVE LocalInv'
  BY <1>6 DEF PruneLock, TakeMutex, NoOp, memVars, readerVars, Operation, LocalInv,
     BaseTypes, WriterInv, ReaderInv
<1>7. ASSUME NEW w \in Writers, PruneUnlink(w) PROVE LocalInv'
  <2>1. PICK uid \in wop[w].todo :
          /\ allow_list[uid] # Null
          /\ allow_list' = [allow_list EXCEPT ![uid] = Null]
          /\ old' = [old EXCEPT ![w] = allow_list[uid]]
          /\ wop' = [wop EXCEPT ![w].todo = @ \ {uid}]
          /\ Observe(uid, Null)
    BY <1>7 DEF PruneUnlink
  <2>2. uid \in Uids /\ wop[w].todo \ {uid} \subseteq Uids \ PreservedUids
    BY <1>7 DEF PruneUnlink, LocalInv, BaseTypes, WriterInv
  <2>3. wop' \in [Writers -> Operation] /\ wop'[w].todo = wop[w].todo \ {uid}
          /\ \A x \in Writers \ {w} : wop'[x] = wop[x]
    <3>1. wop \in [Writers -> Operation]
      BY DEF LocalInv, BaseTypes
    <3>2. wop' = [wop EXCEPT ![w] = [wop[w] EXCEPT !.todo = @ \ {uid}]]
      BY <2>1, <3>1
    <3> HIDE DEF Operation
    <3> QED
      BY <3>1, <3>2, OperationTodo
  <2>4. seen' \in [Readers -> SUBSET (Profiles \cup {Null})]
    BY <2>1 DEF Observe, LocalInv, BaseTypes
  <2>5. BaseTypes'
    BY <1>7, <2>1, <2>2, <2>3, <2>4 DEF PruneUnlink, memVars, readerVars, LocalInv, BaseTypes
  <2>6. WriterInv' /\ ReaderInv'
    BY <1>7, <2>1, <2>2, <2>3 DEF PruneUnlink, memVars, readerVars, LocalInv, BaseTypes,
       WriterInv, ReaderInv
  <2> QED
    BY <2>5, <2>6 DEF LocalInv
<1>8. ASSUME NEW w \in Writers, PrunePut(w) PROVE LocalInv'
  BY <1>8 DEF PrunePut, PutNode, InRcu, readerVars, Operation, LocalInv, BaseTypes,
     WriterInv, ReaderInv
<1>9. ASSUME NEW w \in Writers, PruneUnlock(w) PROVE LocalInv'
  BY <1>9 DEF PruneUnlock, Unlock, NoOp, memVars, readerVars, Operation, LocalInv,
     BaseTypes, WriterInv, ReaderInv
<1>10. ASSUME NEW r \in Readers, NEW kind \in Lookups, NEW uid \in Uids, LookupBegin(r, kind, uid) PROVE LocalInv'
  BY <1>10 DEF LookupBegin, Goto, Entry, tableVars, memVars, writerVars, Operation,
     LocalInv, BaseTypes, WriterInv, ReaderInv
<1>11. ASSUME NEW r \in Readers, LookupFind(r) PROVE LocalInv'
  BY <1>11 DEF LookupFind, Goto, tableVars, memVars, writerVars, Operation, LocalInv,
     BaseTypes, WriterInv, ReaderInv
<1>12. ASSUME NEW r \in Readers, LookupDeref(r) PROVE LocalInv'
  <2>1. ptr[r] \in NodeIds
    BY <1>12 DEF LookupDeref, LocalInv, BaseTypes, ReaderInv
  <2>2. \/ Goto(r, "get") /\ UNCHANGED ptr
        \/ Goto(r, "exit") /\ ptr' = [ptr EXCEPT ![r] = Null]
    BY <1>12, Zenon DEF LookupDeref
  <2>3. result' = [result EXCEPT ![r] = profile[ptr[r]]]
    BY <1>12 DEF LookupDeref
  <2>4. UNCHANGED <<tableVars, memVars, writerVars, rop, seen>> /\ rpc[r] = "deref"
    BY <1>12 DEF LookupDeref
  <2>5. CASE Goto(r, "get") /\ UNCHANGED ptr
    BY <2>1, <2>3, <2>4, <2>5 DEF Goto, tableVars, memVars, writerVars,
       LocalInv, BaseTypes, WriterInv, ReaderInv
  <2>6. CASE Goto(r, "exit") /\ ptr' = [ptr EXCEPT ![r] = Null]
    BY <2>1, <2>3, <2>4, <2>6 DEF Goto, tableVars, memVars, writerVars,
       LocalInv, BaseTypes, WriterInv, ReaderInv
  <2> QED
    BY <2>2, <2>5, <2>6
<1>13. ASSUME NEW r \in Readers, LookupGet(r) PROVE LocalInv'
  <2>1. CASE ref[ptr[r]] # 0
    BY <1>13, <2>1 DEF LookupGet, Goto, tableVars, writerVars, LocalInv, BaseTypes,
       WriterInv, ReaderInv
  <2>2. CASE ref[ptr[r]] = 0
    <3>1. /\ ptr' = [ptr EXCEPT ![r] = Null]
          /\ result' = [result EXCEPT ![r] = Null]
          /\ rpc' = [rpc EXCEPT ![r] = "find"]
          /\ rpc[r] = "get"
          /\ UNCHANGED <<ref, tableVars, profile, mem, grace, writerVars, rop, seen>>
      BY <1>13, <2>2 DEF LookupGet, Goto
    <3> QED
      BY <3>1 DEF tableVars, writerVars, LocalInv, BaseTypes, WriterInv, ReaderInv
  <2> QED
    BY <2>1, <2>2
<1>14. ASSUME NEW r \in Readers, LookupExit(r) PROVE LocalInv'
  BY <1>14 DEF LookupExit, LeaveRcu, Goto, tableVars, writerVars, Operation, LocalInv,
     BaseTypes, WriterInv, ReaderInv
<1>15. ASSUME NEW r \in Readers, LookupPut(r) PROVE LocalInv'
  BY <1>15 DEF LookupPut, PutNode, InRcu, Goto, tableVars, writerVars, Operation,
     LocalInv, BaseTypes, WriterInv, ReaderInv
<1>16. ASSUME NEW r \in Readers, LookupReturn(r) PROVE LocalInv'
  BY <1>16 DEF LookupReturn, Goto, NoLookup, tableVars, memVars, writerVars, Operation,
     LocalInv, BaseTypes, WriterInv, ReaderInv
<1>17. ASSUME NEW n \in NodeIds, FreeNode(n) PROVE LocalInv'
  BY <1>17 DEF FreeNode, tableVars, writerVars, readerVars, Operation, LocalInv,
     BaseTypes, WriterInv, ReaderInv
<1>18. CASE UNCHANGED vars
  BY <1>18 DEF vars, tableVars, memVars, writerVars, readerVars, Operation, LocalInv,
     BaseTypes, WriterInv, ReaderInv
<1> QED
  BY <1>1, <1>2, <1>3, <1>4, <1>5, <1>6, <1>7, <1>8, <1>9, <1>10, <1>11, <1>12, <1>13,
     <1>14, <1>15, <1>16, <1>17, <1>18 DEF Next, WriterNext, ReaderNext, ReaderStep

-----------------------------------------------------------------------------
(* References *)

\* What the count of a node should be.
Count(n) == Cardinality(Holders(n)) + (IF n \in Owned THEN 1 ELSE 0)

\* RefCountExact in terms of the number of references that ought to exist.
LEMMA CountIsExact ==
  RefCountExact <=> \A n \in NodeIds : ref[n] = Count(n) /\ (mem[n] = "live" <=> ref[n] > 0)
  BY DEF RefCountExact, Count, Owned

\* Any set of readers can be counted.
LEMMA ReadersFinite ==
  ASSUME NEW S \in SUBSET Readers
  PROVE  IsFiniteSet(S) /\ Cardinality(S) \in Nat
  BY ConstantsAssumption, FS_Subset, FS_CardinalityType

\* The number of references is natural, and zero only if nobody has one.
LEMMA CountIsNat ==
  ASSUME NEW n
  PROVE  Count(n) \in Nat /\ (Count(n) = 0 => Holders(n) = {} /\ n \notin Owned)
<1>1. Holders(n) \in SUBSET Readers
  BY DEF Holders
<1>2. IsFiniteSet(Holders(n)) /\ Cardinality(Holders(n)) \in Nat
  BY <1>1, ReadersFinite
<1>3. Cardinality(Holders(n)) = 0 => Holders(n) = {}
  BY <1>2, FS_EmptySet
<1> QED
  BY <1>2, <1>3 DEF Count

\* A step that leaves the table, the counts and the holders alone.
LEMMA RefQuiet ==
  ASSUME RefInv,
         UNCHANGED <<allow_list, old, ref, profile>>,
         \A n \in NodeIds : Holders(n)' = Holders(n),
         \A n \in NodeIds : mem'[n] = "live" <=> mem[n] = "live",
         \A n \in NodeIds : mem'[n] = "unused" <=> mem[n] = "unused"
  PROVE  RefInv'
<1>1. Linked' = Linked /\ Unlinking' = Unlinking
  BY DEF Linked, Unlinking
<1>2. \A n \in NodeIds : Count(n)' = Count(n)
  BY <1>1 DEF Count, Owned
<1>3. RefCountExact'
  BY <1>2, <1>1, CountIsExact DEF RefInv, RefCountExact
<1> QED
  BY <1>1, <1>3 DEF RefInv

\* put_perm_data takes away one reference that somebody had.
LEMMA PutExact ==
  ASSUME LocalInv, RefCountExact, NEW k \in NodeIds, PutNode(k),
         Count(k) > 0, Count(k)' = Count(k) - 1,
         \A n \in NodeIds \ {k} : Count(n)' = Count(n)
  PROVE  RefCountExact'
<1>1. \A n \in NodeIds : ref[n] = Count(n) /\ (mem[n] = "live" <=> ref[n] > 0)
  BY CountIsExact
<1>2. \A n \in NodeIds : Count(n) \in Nat
  BY CountIsNat
<1>3. ref'[k] = ref[k] - 1 /\ \A n \in NodeIds \ {k} : ref'[n] = ref[n]
  BY DEF PutNode, LocalInv, BaseTypes
<1>4. \A n \in NodeIds : ref'[n] = Count(n)'
  BY <1>1, <1>3
<1>5. mem[k] = "live"
  BY <1>1, <1>2
<1>6. mem'[k] = "live" <=> ref'[k] > 0
  BY <1>1, <1>2, <1>3, <1>5 DEF PutNode, LocalInv, BaseTypes
<1>7. \A n \in NodeIds \ {k} : mem'[n] = mem[n]
  BY DEF PutNode, LocalInv, BaseTypes
<1>8. \A n \in NodeIds : mem'[n] = "live" <=> ref'[n] > 0
  BY <1>1, <1>3, <1>6, <1>7
<1> QED
  BY <1>4, <1>8 DEF RefCountExact, Count, Owned

\* A node fresh from kzalloc, with one reference for its owner, keeps counts exact.
LEMMA AllocExact ==
  ASSUME LocalInv, RefCountExact, NEW k \in NodeIds, NEW p, AllocNode(k, p),
         Owned' = Owned \cup {k},
         \A n \in NodeIds : Holders(n)' = Holders(n)
  PROVE  RefCountExact' /\ k \notin Owned
<1>1. \A n \in NodeIds : ref[n] = Count(n) /\ (mem[n] = "live" <=> ref[n] > 0)
  BY CountIsExact
<1>2. mem[k] = "unused"
  BY DEF AllocNode
<1>3. Count(k) = 0 /\ k \notin Owned
  BY <1>1, <1>2, CountIsNat
<1>4. Count(k)' = 1
  <2>1. Cardinality(Holders(k)) = 0
    BY <1>3, FS_EmptySet, CountIsNat
  <2> QED
    BY <2>1 DEF Count
<1>5. \A n \in NodeIds \ {k} : Count(n)' = Count(n)
  BY DEF Count
<1>6. /\ ref'[k] = 1 /\ mem'[k] = "live"
      /\ \A n \in NodeIds \ {k} : ref'[n] = ref[n] /\ mem'[n] = mem[n]
  BY DEF AllocNode, LocalInv, BaseTypes
<1>7. \A n \in NodeIds : ref'[n] = Count(n)' /\ (mem'[n] = "live" <=> ref'[n] > 0)
  BY <1>1, <1>4, <1>5, <1>6
<1> QED
  BY <1>3, <1>7 DEF RefCountExact, Count, Owned

\* The writer inside the mutex is the only one that has anything in its hands.
LEMMA OnlyWriter ==
  ASSUME LocalInv, NEW w \in Writers, wpc[w] # "idle"
  PROVE  \A x \in Writers \ {w} : wpc[x] = "idle" /\ old[x] = Null
  BY DEF LocalInv, WriterInv

\* hlist_replace_rcu: the new node takes the place of the old one.
LEMMA ReplaceKeeps ==
  ASSUME LocalInv, RefInv, NEW w \in Writers, NEW k \in NodeIds, SetReplace(w, k)
  PROVE  /\ RefInv'
         /\ k \notin Linked
         /\ \E o \in Linked : Linked' = (Linked \ {o}) \cup {k}
<1> DEFINE uid == wop[w].uid
           o == allow_list[uid]
<1>1. /\ wpc[w] = "set" /\ uid \in Uids /\ wop[w].profile \in Profiles
      /\ o \in NodeIds /\ o # Null /\ old[w] = Null
  BY DEF SetReplace, LocalInv, BaseTypes, WriterInv
<1>2. \A x \in Writers : old[x] = Null
  BY <1>1, OnlyWriter
<1>3. Unlinking = {}
  BY <1>2 DEF Unlinking
<1>4. /\ old'[w] = o /\ \A x \in Writers \ {w} : old'[x] = Null
      /\ allow_list'[uid] = k /\ \A u \in Uids \ {uid} : allow_list'[u] = allow_list[u]
  BY <1>1, <1>2 DEF SetReplace, LocalInv, BaseTypes
<1>5. Unlinking' = {o}
  BY <1>1, <1>4 DEF Unlinking
<1>6. \A u \in Uids \ {uid} : allow_list[u] # o
  BY <1>1 DEF RefInv
<1>7. Linked' = (Linked \ {o}) \cup {k}
  BY <1>1, <1>4, <1>6, ConstantsAssumption DEF Linked
<1>8. o \in Linked
  BY <1>1 DEF Linked
<1>9. Owned' = Owned \cup {k}
  BY <1>3, <1>5, <1>7, <1>8 DEF Owned
<1>10. \A n \in NodeIds : Holders(n)' = Holders(n)
  BY DEF SetReplace, readerVars, Holders
<1>11. RefCountExact' /\ k \notin Owned
  BY <1>9, <1>10, AllocExact DEF RefInv, SetReplace
<1>12. \A u \in Uids : allow_list[u] # k
  BY <1>11, ConstantsAssumption DEF Owned, Linked
<1>13. \A u, v \in Uids : allow_list'[u] # Null /\ allow_list'[u] = allow_list'[v] => u = v
  BY <1>1, <1>4, <1>12 DEF RefInv
<1>14. \A x \in Writers : old'[x] \notin Linked'
  <2>1. o # k
    BY <1>8, <1>11 DEF Owned
  <2>2. o \notin Linked'
    BY <1>7, <2>1
  <2>3. Null \notin Linked'
    BY DEF Linked
  <2> QED
    BY <1>4, <2>2, <2>3
<1>15. \A n \in NodeIds : mem'[n] # "unused" => profile'[n] \in Profiles
  BY <1>1 DEF SetReplace, AllocNode, RefInv, LocalInv, BaseTypes
<1> QED
  BY <1>7, <1>8, <1>11, <1>13, <1>14, <1>15 DEF RefInv, Owned

\* hlist_add_head_rcu
LEMMA InsertKeeps ==
  ASSUME LocalInv, RefInv, NEW w \in Writers, NEW k \in NodeIds, SetInsert(w, k)
  PROVE  RefInv' /\ k \notin Linked /\ Linked' = Linked \cup {k}
<1> DEFINE uid == wop[w].uid
<1>1. /\ wpc[w] = "set" /\ uid \in Uids /\ wop[w].profile \in Profiles
      /\ allow_list[uid] = Null /\ old' = old
  BY DEF SetInsert, LocalInv, BaseTypes, WriterInv
<1>2. allow_list'[uid] = k /\ \A u \in Uids \ {uid} : allow_list'[u] = allow_list[u]
  BY <1>1 DEF SetInsert, LocalInv, BaseTypes
<1>3. Linked' = Linked \cup {k} /\ Unlinking' = Unlinking
  BY <1>1, <1>2, ConstantsAssumption DEF Linked, Unlinking
<1>4. Owned' = Owned \cup {k}
  BY <1>3 DEF Owned
<1>5. \A n \in NodeIds : Holders(n)' = Holders(n)
  BY DEF SetInsert, readerVars, Holders
<1>6. RefCountExact' /\ k \notin Owned
  BY <1>4, <1>5, AllocExact DEF RefInv, SetInsert
<1>7. \A u \in Uids : allow_list[u] # k
  BY <1>6, ConstantsAssumption DEF Owned, Linked
<1>8. \A u, v \in Uids : allow_list'[u] # Null /\ allow_list'[u] = allow_list'[v] => u = v
  BY <1>1, <1>2, <1>7 DEF RefInv
<1>9. \A x \in Writers : old'[x] \notin Linked'
  <2>1. \A x \in Writers : old[x] # k
    BY <1>6, ConstantsAssumption DEF Owned, Unlinking
  <2> QED
    BY <1>1, <1>3, <2>1 DEF RefInv
<1>10. \A n \in NodeIds : mem'[n] # "unused" => profile'[n] \in Profiles
  BY <1>1 DEF SetInsert, AllocNode, RefInv, LocalInv, BaseTypes
<1> QED
  BY <1>3, <1>6, <1>8, <1>9, <1>10 DEF RefInv, Owned

\* The put of the node that the writer has unlinked.
LEMMA WriterPutKeeps ==
  ASSUME LocalInv, RefInv, NEW w \in Writers, SetPut(w) \/ PrunePut(w)
  PROVE  RefInv'
<1>0. PICK k : k = old[w]
  OBVIOUS
<1>1. /\ wpc[w] \in {"put", "prunePut"} /\ PutNode(k)
      /\ old' = [old EXCEPT ![w] = Null] /\ UNCHANGED <<allow_list, profile, readerVars>>
  BY <1>0 DEF SetPut, PrunePut
<1>2. k \in NodeIds /\ k # Null
  BY <1>0, <1>1 DEF LocalInv, BaseTypes, WriterInv
<1>3. \A x \in Writers \ {w} : old[x] = Null
  BY <1>1, OnlyWriter
<1>4. Unlinking = {k} /\ Unlinking' = {} /\ Linked' = Linked /\ k \notin Linked
  BY <1>0, <1>1, <1>2, <1>3 DEF Unlinking, Linked, RefInv, LocalInv, BaseTypes
<1>5. \A n \in NodeIds : Holders(n)' = Holders(n)
  BY <1>1 DEF readerVars, Holders
<1>6. \A n \in NodeIds : Cardinality(Holders(n)) \in Nat
  BY ReadersFinite DEF Holders
<1>7. /\ Count(k) > 0 /\ Count(k)' = Count(k) - 1
      /\ \A n \in NodeIds \ {k} : Count(n)' = Count(n)
  BY <1>2, <1>4, <1>5, <1>6 DEF Count, Owned
<1>8. RefCountExact'
  BY <1>1, <1>2, <1>7, PutExact DEF RefInv
<1>9. \A x \in Writers : old'[x] \notin Linked'
  BY <1>1, <1>4 DEF RefInv, Linked, LocalInv, BaseTypes
<1>10. \A n \in NodeIds : mem'[n] # "unused" => profile'[n] \in Profiles
  <2>1. mem[k] # "unused"
    BY <1>2, <1>7, CountIsExact DEF RefInv
  <2> QED
    BY <1>1, <2>1 DEF PutNode, RefInv, LocalInv, BaseTypes
<1> QED
  BY <1>1, <1>8, <1>9, <1>10 DEF RefInv

\* hlist_del_rcu: the table's reference is the writer's until it puts it.
LEMMA UnlinkKeeps ==
  ASSUME LocalInv, RefInv, NEW w \in Writers, PruneUnlink(w)
  PROVE  RefInv' /\ \E o \in Linked : Linked' = Linked \ {o}
<1>1. PICK uid \in wop[w].todo :
        /\ allow_list[uid] # Null
        /\ allow_list' = [allow_list EXCEPT ![uid] = Null]
        /\ old' = [old EXCEPT ![w] = allow_list[uid]]
  BY DEF PruneUnlink
<1> DEFINE o == allow_list[uid]
<1>2. uid \in Uids /\ o \in NodeIds /\ wpc[w] = "prune" /\ old[w] = Null
  BY <1>1 DEF PruneUnlink, LocalInv, BaseTypes, WriterInv
<1>3. \A x \in Writers : old[x] = Null
  BY <1>2, OnlyWriter
<1>4. /\ old'[w] = o /\ \A x \in Writers \ {w} : old'[x] = Null
      /\ allow_list'[uid] = Null /\ \A u \in Uids \ {uid} : allow_list'[u] = allow_list[u]
  BY <1>1, <1>2, <1>3 DEF LocalInv, BaseTypes
<1>5. Unlinking = {} /\ Unlinking' = {o}
  BY <1>1, <1>3, <1>4 DEF Unlinking
<1>6. \A u \in Uids \ {uid} : allow_list[u] # o
  BY <1>1, <1>2 DEF RefInv
<1>7. Linked' = Linked \ {o} /\ o \in Linked
  BY <1>1, <1>2, <1>4, <1>6 DEF Linked
<1>8. Owned' = Owned
  BY <1>5, <1>7 DEF Owned
<1>9. UNCHANGED <<ref, mem, profile, rpc, ptr>>
  BY DEF PruneUnlink, memVars, readerVars
<1>10. \A n \in NodeIds : Count(n)' = Count(n)
  BY <1>8, <1>9 DEF Count, Holders
<1>11. RefCountExact'
  BY <1>9, <1>10, CountIsExact DEF RefInv, RefCountExact, Count, Owned
<1>12. \A u, v \in Uids : allow_list'[u] # Null /\ allow_list'[u] = allow_list'[v] => u = v
  BY <1>2, <1>4 DEF RefInv
<1>13. \A x \in Writers : old'[x] \notin Linked'
  BY <1>4, <1>7 DEF Linked
<1> QED
  BY <1>7, <1>9, <1>11, <1>12, <1>13 DEF RefInv

\* kref_get_unless_zero and the put of a reader that has used the node.
LEMMA ReaderRefKeeps ==
  ASSUME LocalInv, RefInv, NEW r \in Readers,
         \/ LookupGet(r) /\ ref[ptr[r]] # 0
         \/ LookupPut(r)
  PROVE  RefInv'
<1>0. PICK k : k = ptr[r]
  OBVIOUS
<1>1. k \in NodeIds /\ rpc[r] \in {"get", "use"} /\ UNCHANGED <<allow_list, profile, old>>
  BY <1>0 DEF LookupGet, LookupPut, LocalInv, BaseTypes, ReaderInv, tableVars, writerVars
<1>2. Linked' = Linked /\ Unlinking' = Unlinking /\ Owned' = Owned
  BY <1>1 DEF Linked, Unlinking, Owned
<1>3. \A n \in NodeIds : IsFiniteSet(Holders(n)) /\ Cardinality(Holders(n)) \in Nat
  BY ReadersFinite DEF Holders
<1>4. \A n \in NodeIds : ref[n] = Count(n) /\ (mem[n] = "live" <=> ref[n] > 0)
  BY CountIsExact DEF RefInv
<1>5. \A n \in NodeIds \ {k} : Holders(n)' = Holders(n)
  BY <1>0, <1>1, ConstantsAssumption
     DEF LookupGet, LookupPut, Goto, Holders, LocalInv, BaseTypes
<1>6. \A n \in NodeIds \ {k} : Count(n)' = Count(n)
  BY <1>2, <1>5 DEF Count
<1>7. CASE LookupGet(r) /\ ref[ptr[r]] # 0
  <2>1. Holders(k)' = Holders(k) \cup {r} /\ r \notin Holders(k)
    BY <1>0, <1>1, <1>7 DEF LookupGet, Goto, Holders, LocalInv, BaseTypes
  <2>2. Cardinality(Holders(k)') = Cardinality(Holders(k)) + 1
    BY <1>1, <1>3, <2>1, FS_AddElement
  <2>3. Count(k)' = Count(k) + 1
    BY <1>1, <1>2, <1>3, <2>2 DEF Count
  <2>4. ref' = [ref EXCEPT ![k] = @ + 1] /\ mem' = mem
    BY <1>0, <1>7 DEF LookupGet
  <2>5. ref[k] > 0
    BY <1>0, <1>1, <1>4, <1>7, CountIsNat
  <2>6. \A n \in NodeIds : ref'[n] = Count(n)' /\ (mem'[n] = "live" <=> ref'[n] > 0)
    BY <1>1, <1>4, <1>6, <2>3, <2>4, <2>5 DEF LocalInv, BaseTypes
  <2>7. RefCountExact'
    BY <2>6 DEF RefCountExact, Count, Owned
  <2> QED
    BY <1>1, <1>2, <2>4, <2>7 DEF RefInv
<1>8. CASE LookupPut(r)
  <2>1. Holders(k)' = Holders(k) \ {r} /\ r \in Holders(k)
    BY <1>0, <1>1, <1>8, ConstantsAssumption DEF LookupPut, Goto, Holders, LocalInv, BaseTypes
  <2>2. Cardinality(Holders(k)') = Cardinality(Holders(k)) - 1
    BY <1>1, <1>3, <2>1, FS_RemoveElement
  <2>3. Cardinality(Holders(k)) # 0
    BY <1>1, <1>3, <2>1, FS_EmptySet
  <2>4. Count(k) > 0 /\ Count(k)' = Count(k) - 1
    BY <1>1, <1>2, <1>3, <2>2, <2>3 DEF Count
  <2>5. PutNode(k)
    BY <1>0, <1>8 DEF LookupPut
  <2>6. RefCountExact'
    BY <1>1, <1>6, <2>4, <2>5, PutExact DEF RefInv
  <2>7. \A n \in NodeIds : mem'[n] # "unused" => profile'[n] \in Profiles
    BY <1>1, <1>4, <2>4, <2>5 DEF PutNode, RefInv, LocalInv, BaseTypes
  <2> QED
    BY <1>1, <1>2, <2>6, <2>7 DEF RefInv
<1> QED
  BY <1>7, <1>8

\* An empty table has no references.
LEMMA RefInit == Init => RefInv
<1> SUFFICES ASSUME Init PROVE RefInv
  OBVIOUS
<1>1. Linked = {} /\ Unlinking = {} /\ \A n \in NodeIds : Holders(n) = {}
  BY DEF Init, Linked, Unlinking, Holders
<1>2. \A n \in NodeIds : Cardinality(Holders(n)) = 0
  BY <1>1, FS_EmptySet
<1>3. \A n \in NodeIds : n \notin Linked \cup Unlinking /\ ref[n] = 0 /\ mem[n] # "live"
  BY <1>1 DEF Init
<1>4. RefCountExact
  BY <1>2, <1>3 DEF RefCountExact
<1> QED
  BY <1>1, <1>4 DEF Init, RefInv

\* Every step keeps counts exact and nodes in one place.
LEMMA RefStep == LocalInv /\ RefInv /\ [Next]_vars => RefInv'
<1> SUFFICES ASSUME LocalInv, RefInv, [Next]_vars PROVE RefInv'
  OBVIOUS
<1> USE ConstantsAssumption
<1>1. ASSUME NEW w \in Writers, NEW uid \in Uids, NEW p \in Profiles, SetLock(w, uid, p) PROVE RefInv'
  <2>1. /\ UNCHANGED <<allow_list, old, ref, profile, mem>>
        /\ \A n \in NodeIds : Holders(n)' = Holders(n)
    BY <1>1 DEF SetLock, Holders, memVars, readerVars
  <2> QED
    BY <2>1, RefQuiet
<1>2. ASSUME NEW w \in Writers, NEW n \in NodeIds, SetReplace(w, n) PROVE RefInv'
  BY <1>2, ReplaceKeeps
<1>3. ASSUME NEW w \in Writers, NEW n \in NodeIds, SetInsert(w, n) PROVE RefInv'
  BY <1>3, InsertKeeps
<1>4. ASSUME NEW w \in Writers, SetPut(w) PROVE RefInv'
  BY <1>4, WriterPutKeeps
<1>5. ASSUME NEW w \in Writers, SetFail(w) PROVE RefInv'
  <2>1. /\ UNCHANGED <<allow_list, old, ref, profile, mem>>
        /\ \A n \in NodeIds : Holders(n)' = Holders(n)
    BY <1>5 DEF SetFail, Holders, memVars, readerVars
  <2> QED
    BY <2>1, RefQuiet
<1>6. ASSUME NEW w \in Writers, NEW gone \in SUBSET Uids, PruneLock(w, gone) PROVE RefInv'
  <2>1. /\ UNCHANGED <<allow_list, old, ref, profile, mem>>
        /\ \A n \in NodeIds : Holders(n)' = Holders(n)
    BY <1>6 DEF PruneLock, Holders, memVars, readerVars
  <2> QED
    BY <2>1, RefQuiet
<1>7. ASSUME NEW w \in Writers, PruneUnlink(w) PROVE RefInv'
  BY <1>7, UnlinkKeeps
<1>8. ASSUME NEW w \in Writers, PrunePut(w) PROVE RefInv'
  BY <1>8, WriterPutKeeps
<1>9. ASSUME NEW w \in Writers, PruneUnlock(w) PROVE RefInv'
  <2>1. /\ UNCHANGED <<allow_list, old, ref, profile, mem>>
        /\ \A n \in NodeIds : Holders(n)' = Holders(n)
    BY <1>9 DEF PruneUnlock, Holders, memVars, readerVars
  <2> QED
    BY <2>1, RefQuiet
<1>10. ASSUME NEW r \in Readers, NEW kind \in Lookups, NEW uid \in Uids, LookupBegin(r, kind, uid) PROVE RefInv'
  <2>1. /\ UNCHANGED <<allow_list, old, ref, profile, mem>>
        /\ \A n \in NodeIds : Holders(n)' = Holders(n)
    BY <1>10 DEF LookupBegin, Goto, Holders, LocalInv, BaseTypes, ReaderInv, tableVars, memVars,
       writerVars
  <2> QED
    BY <2>1, RefQuiet
<1>11. ASSUME NEW r \in Readers, LookupFind(r) PROVE RefInv'
  <2>1. /\ UNCHANGED <<allow_list, old, ref, profile, mem>>
        /\ \A n \in NodeIds : Holders(n)' = Holders(n)
    BY <1>11 DEF LookupFind, Goto, Holders, LocalInv, BaseTypes, ReaderInv, tableVars, memVars,
       writerVars
  <2> QED
    BY <2>1, RefQuiet
<1>12. ASSUME NEW r \in Readers, LookupDeref(r) PROVE RefInv'
  <2>1. /\ UNCHANGED <<allow_list, old, ref, profile, mem>>
        /\ \A n \in NodeIds : Holders(n)' = Holders(n)
    BY <1>12 DEF LookupDeref, Goto, Holders, LocalInv, BaseTypes, ReaderInv, tableVars, memVars,
       writerVars
  <2> QED
    BY <2>1, RefQuiet
<1>13. ASSUME NEW r \in Readers, LookupGet(r) PROVE RefInv'
  <2>1. CASE ref[ptr[r]] # 0
    BY <1>13, <2>1, ReaderRefKeeps
  <2>2. CASE ref[ptr[r]] = 0
    <3>1. /\ UNCHANGED <<allow_list, old, ref, profile, mem>>
          /\ \A n \in NodeIds : Holders(n)' = Holders(n)
      BY <1>13, <2>2 DEF LookupGet, Goto, Holders, LocalInv, BaseTypes, ReaderInv,
         tableVars, writerVars
    <3> QED
      BY <3>1, RefQuiet
  <2> QED
    BY <2>1, <2>2
<1>14. ASSUME NEW r \in Readers, LookupExit(r) PROVE RefInv'
  <2>1. /\ UNCHANGED <<allow_list, old, ref, profile, mem>>
        /\ \A n \in NodeIds : Holders(n)' = Holders(n)
    BY <1>14 DEF LookupExit, Goto, Holders, LocalInv, BaseTypes, ReaderInv, tableVars, memVars,
       writerVars
  <2> QED
    BY <2>1, RefQuiet
<1>15. ASSUME NEW r \in Readers, LookupPut(r) PROVE RefInv'
  BY <1>15, ReaderRefKeeps
<1>16. ASSUME NEW r \in Readers, LookupReturn(r) PROVE RefInv'
  <2>1. /\ UNCHANGED <<allow_list, old, ref, profile, mem>>
        /\ \A n \in NodeIds : Holders(n)' = Holders(n)
    BY <1>16 DEF LookupReturn, Goto, Holders, LocalInv, BaseTypes, ReaderInv, tableVars,
       memVars, writerVars
  <2> QED
    BY <2>1, RefQuiet
<1>17. ASSUME NEW n \in NodeIds, FreeNode(n) PROVE RefInv'
  <2>1. /\ UNCHANGED <<allow_list, old, ref, profile>>
        /\ \A x \in NodeIds : Holders(x)' = Holders(x)
    BY <1>17 DEF FreeNode, Holders, tableVars, writerVars, readerVars
  <2>2. \A x \in NodeIds : mem'[x] = "live" <=> mem[x] = "live"
    BY <1>17 DEF FreeNode, LocalInv, BaseTypes
  <2>3. \A x \in NodeIds : mem'[x] = "unused" <=> mem[x] = "unused"
    BY <1>17 DEF FreeNode, LocalInv, BaseTypes
  <2> QED
    BY <2>1, <2>2, <2>3, RefQuiet
<1>18. CASE UNCHANGED vars
  <2>1. /\ UNCHANGED <<allow_list, old, ref, profile, mem>>
        /\ \A n \in NodeIds : Holders(n)' = Holders(n)
    BY <1>18 DEF vars, Holders, tableVars, memVars, writerVars, readerVars
  <2> QED
    BY <2>1, RefQuiet
<1> QED
  BY <1>1, <1>2, <1>3, <1>4, <1>5, <1>6, <1>7, <1>8, <1>9, <1>10, <1>11, <1>12, <1>13,
     <1>14, <1>15, <1>16, <1>17, <1>18 DEF Next, WriterNext, ReaderNext, ReaderStep

-----------------------------------------------------------------------------
(* Memory and what lookups have seen *)

\* What the table or a writer points at has a reference and is live.
LEMMA OwnedIsLive ==
  ASSUME LocalInv, RefInv, NEW n \in Owned
  PROVE  n \in NodeIds /\ mem[n] = "live" /\ profile[n] \in Profiles
<1>1. n \in NodeIds
  BY DEF Owned, Linked, Unlinking, LocalInv, BaseTypes
<1>2. Count(n) > 0
  <2>1. Cardinality(Holders(n)) \in Nat
    BY ReadersFinite DEF Holders
  <2> QED
    BY <2>1 DEF Count
<1>3. mem[n] = "live"
  BY <1>1, <1>2, CountIsExact DEF RefInv
<1> QED
  BY <1>1, <1>3 DEF RefInv

\* A reader with a reference points at live memory.
LEMMA HolderIsLive ==
  ASSUME LocalInv, RefInv, NEW r \in Readers, rpc[r] \in {"exit", "use"}, ptr[r] # Null
  PROVE  ptr[r] \in NodeIds /\ mem[ptr[r]] = "live"
<1>1. ptr[r] \in NodeIds /\ r \in Holders(ptr[r])
  BY DEF LocalInv, BaseTypes, Holders
<1>2. Count(ptr[r]) # 0
  BY <1>1, CountIsNat
<1>3. Count(ptr[r]) > 0
  BY <1>2, CountIsNat
<1> QED
  BY <1>1, <1>3, CountIsExact DEF RefInv

\* No grace period is running at first.
LEMMA GraceInit == Init => GraceInv
  BY DEF Init, GraceInv, InRcu

\* Every step keeps memory alive under the readers that found it.
LEMMA GraceStep == LocalInv /\ RefInv /\ GraceInv /\ [Next]_vars => GraceInv'
<1> SUFFICES ASSUME LocalInv, RefInv, GraceInv, [Next]_vars PROVE GraceInv'
  OBVIOUS
<1> USE ConstantsAssumption
<1>1. ASSUME NEW w \in Writers, NEW uid \in Uids, NEW p \in Profiles, SetLock(w, uid, p) PROVE GraceInv'
  BY <1>1 DEF SetLock, TakeMutex, memVars, readerVars, NoOp, GraceInv, InRcu, LocalInv,
     BaseTypes, ReaderInv
<1>2. ASSUME NEW w \in Writers, NEW n \in NodeIds, SetReplace(w, n) PROVE GraceInv'
  BY <1>2 DEF SetReplace, AllocNode, Observe, InRcu, readerVars, GraceInv, InRcu,
     LocalInv, BaseTypes, ReaderInv
<1>3. ASSUME NEW w \in Writers, NEW n \in NodeIds, SetInsert(w, n) PROVE GraceInv'
  BY <1>3 DEF SetInsert, AllocNode, Observe, InRcu, Unlock, UpdateDefault, NoOp,
     readerVars, GraceInv, InRcu, LocalInv, BaseTypes, ReaderInv
<1>4. ASSUME NEW w \in Writers, SetPut(w) PROVE GraceInv'
  <2>1. old[w] \in NodeIds
    BY <1>4 DEF SetPut, LocalInv, BaseTypes, WriterInv
  <2> QED
    BY <1>4, <2>1 DEF SetPut, PutNode, GraceInv, InRcu, LocalInv, BaseTypes, ReaderInv,
       readerVars
<1>5. ASSUME NEW w \in Writers, SetFail(w) PROVE GraceInv'
  BY <1>5 DEF SetFail, Unlock, NoOp, memVars, readerVars, GraceInv, InRcu, LocalInv,
     BaseTypes, ReaderInv
<1>6. ASSUME NEW w \in Writers, NEW gone \in SUBSET Uids, PruneLock(w, gone) PROVE GraceInv'
  BY <1>6 DEF PruneLock, TakeMutex, NoOp, memVars, readerVars, GraceInv, InRcu,
     LocalInv, BaseTypes, ReaderInv
<1>7. ASSUME NEW w \in Writers, PruneUnlink(w) PROVE GraceInv'
  BY <1>7 DEF PruneUnlink, Observe, InRcu, memVars, readerVars, GraceInv, InRcu,
     LocalInv, BaseTypes, ReaderInv
<1>8. ASSUME NEW w \in Writers, PrunePut(w) PROVE GraceInv'
  <2>1. old[w] \in NodeIds
    BY <1>8 DEF PrunePut, LocalInv, BaseTypes, WriterInv
  <2> QED
    BY <1>8, <2>1 DEF PrunePut, PutNode, GraceInv, InRcu, LocalInv, BaseTypes, ReaderInv,
       readerVars
<1>9. ASSUME NEW w \in Writers, PruneUnlock(w) PROVE GraceInv'
  BY <1>9 DEF PruneUnlock, Unlock, NoOp, memVars, readerVars, GraceInv, InRcu, LocalInv,
     BaseTypes, ReaderInv
<1>10. ASSUME NEW r \in Readers, NEW kind \in Lookups, NEW uid \in Uids, LookupBegin(r, kind, uid) PROVE GraceInv'
  BY <1>10 DEF LookupBegin, Goto, Entry, tableVars, memVars, writerVars, GraceInv,
     InRcu, LocalInv, BaseTypes, ReaderInv
<1>11. ASSUME NEW r \in Readers, LookupFind(r) PROVE GraceInv'
  <2>1. allow_list[rop[r].uid] # Null => mem[allow_list[rop[r].uid]] = "live"
    BY <1>11, OwnedIsLive DEF LookupFind, Owned, Linked, LocalInv, ReaderInv
  <2> QED
    BY <1>11, <2>1 DEF LookupFind, Goto, GraceInv, InRcu, LocalInv, BaseTypes, ReaderInv,
       tableVars, memVars, writerVars
<1>12. ASSUME NEW r \in Readers, LookupDeref(r) PROVE GraceInv'
  <2>1. UNCHANGED memVars /\ rpc[r] = "deref"
    BY <1>12 DEF LookupDeref
  <2>2. CASE Goto(r, "get") /\ UNCHANGED ptr
    BY <2>1, <2>2 DEF Goto, GraceInv, InRcu, LocalInv, BaseTypes, ReaderInv, memVars
  <2>3. CASE Goto(r, "exit") /\ ptr' = [ptr EXCEPT ![r] = Null]
    BY <2>1, <2>3 DEF Goto, GraceInv, InRcu, LocalInv, BaseTypes, ReaderInv, memVars
  <2> QED
    BY <1>12, <2>2, <2>3, Zenon DEF LookupDeref
<1>13. ASSUME NEW r \in Readers, LookupGet(r) PROVE GraceInv'
  <2>1. UNCHANGED <<mem, grace>> /\ rpc[r] = "get"
    BY <1>13 DEF LookupGet
  <2>2. CASE Goto(r, "exit") /\ UNCHANGED ptr
    BY <2>1, <2>2 DEF Goto, GraceInv, InRcu, LocalInv, BaseTypes, ReaderInv
  <2>3. CASE Goto(r, "find") /\ ptr' = [ptr EXCEPT ![r] = Null]
    BY <2>1, <2>3 DEF Goto, GraceInv, InRcu, LocalInv, BaseTypes, ReaderInv
  <2> QED
    BY <1>13, <2>2, <2>3 DEF LookupGet
<1>14. ASSUME NEW r \in Readers, LookupExit(r) PROVE GraceInv'
  BY <1>14 DEF LookupExit, LeaveRcu, Goto, tableVars, writerVars, GraceInv, InRcu,
     LocalInv, BaseTypes, ReaderInv
<1>15. ASSUME NEW r \in Readers, LookupPut(r) PROVE GraceInv'
  BY <1>15 DEF LookupPut, PutNode, InRcu, Goto, tableVars, writerVars, GraceInv, InRcu,
     LocalInv, BaseTypes, ReaderInv
<1>16. ASSUME NEW r \in Readers, LookupReturn(r) PROVE GraceInv'
  BY <1>16 DEF LookupReturn, Goto, NoLookup, tableVars, memVars, writerVars, GraceInv,
     InRcu, LocalInv, BaseTypes, ReaderInv
<1>17. ASSUME NEW n \in NodeIds, FreeNode(n) PROVE GraceInv'
  BY <1>17 DEF FreeNode, tableVars, writerVars, readerVars, GraceInv, InRcu, LocalInv,
     BaseTypes, ReaderInv
<1>18. CASE UNCHANGED vars
  BY <1>18 DEF vars, tableVars, memVars, writerVars, readerVars, GraceInv, InRcu,
     LocalInv, BaseTypes, ReaderInv
<1> QED
  BY <1>1, <1>2, <1>3, <1>4, <1>5, <1>6, <1>7, <1>8, <1>9, <1>10, <1>11, <1>12, <1>13,
     <1>14, <1>15, <1>16, <1>17, <1>18 DEF Next, WriterNext, ReaderNext, ReaderStep

\* No lookup is running at first.
LEMMA SeenInit == Init => SeenInv
  BY DEF Init, SeenInv, InRcu

\* Contents of a node that somebody can reach do not change, and a new entry of
\* a uid is seen by every lookup of it.
LEMMA SeenStep == LocalInv /\ RefInv /\ GraceInv /\ SeenInv /\ [Next]_vars => SeenInv'
<1> SUFFICES ASSUME LocalInv, RefInv, GraceInv, SeenInv, [Next]_vars PROVE SeenInv'
  OBVIOUS
<1> USE ConstantsAssumption
<1>1. ASSUME NEW w \in Writers, NEW uid \in Uids, NEW p \in Profiles, SetLock(w, uid, p) PROVE SeenInv'
  BY <1>1 DEF SetLock, TakeMutex, memVars, readerVars, NoOp, SeenInv, InRcu, Entry,
     LocalInv, BaseTypes, ReaderInv
<1>2. ASSUME NEW w \in Writers, NEW n \in NodeIds, SetReplace(w, n) PROVE SeenInv'
  <2>1. /\ wop[w].uid \in Uids /\ mem[n] = "unused" /\ UNCHANGED readerVars
        /\ Observe(wop[w].uid, wop[w].profile)
        /\ allow_list' = [allow_list EXCEPT ![wop[w].uid] = n]
        /\ profile' = [profile EXCEPT ![n] = wop[w].profile]
    BY <1>2 DEF SetReplace, AllocNode, LocalInv, WriterInv
  <2>2. \A u \in Uids : allow_list[u] # n
    BY <2>1, OwnedIsLive DEF Owned, Linked
  <2>3. \A x \in Readers : rpc[x] \in {"deref", "get"} => ptr[x] # n
    BY <2>1 DEF GraceInv
  <2>4. \A u \in Uids : Entry(u)' = IF u = wop[w].uid THEN wop[w].profile ELSE Entry(u)
    BY <2>1, <2>2 DEF Entry, LocalInv, BaseTypes
  <2> QED
    BY <2>1, <2>3, <2>4 DEF Observe, SeenInv, InRcu, LocalInv, BaseTypes, ReaderInv, readerVars
<1>3. ASSUME NEW w \in Writers, NEW n \in NodeIds, SetInsert(w, n) PROVE SeenInv'
  <2>1. /\ wop[w].uid \in Uids /\ mem[n] = "unused" /\ UNCHANGED readerVars
        /\ Observe(wop[w].uid, wop[w].profile)
        /\ allow_list' = [allow_list EXCEPT ![wop[w].uid] = n]
        /\ profile' = [profile EXCEPT ![n] = wop[w].profile]
    BY <1>3 DEF SetInsert, AllocNode, LocalInv, WriterInv
  <2>2. \A u \in Uids : allow_list[u] # n
    BY <2>1, OwnedIsLive DEF Owned, Linked
  <2>3. \A x \in Readers : rpc[x] \in {"deref", "get"} => ptr[x] # n
    BY <2>1 DEF GraceInv
  <2>4. \A u \in Uids : Entry(u)' = IF u = wop[w].uid THEN wop[w].profile ELSE Entry(u)
    BY <2>1, <2>2 DEF Entry, LocalInv, BaseTypes
  <2> QED
    BY <2>1, <2>3, <2>4 DEF Observe, SeenInv, InRcu, LocalInv, BaseTypes, ReaderInv, readerVars
<1>4. ASSUME NEW w \in Writers, SetPut(w) PROVE SeenInv'
  BY <1>4 DEF SetPut, PutNode, InRcu, Unlock, UpdateDefault, NoOp, readerVars, SeenInv,
     InRcu, Entry, LocalInv, BaseTypes, ReaderInv
<1>5. ASSUME NEW w \in Writers, SetFail(w) PROVE SeenInv'
  BY <1>5 DEF SetFail, Unlock, NoOp, memVars, readerVars, SeenInv, InRcu, Entry,
     LocalInv, BaseTypes, ReaderInv
<1>6. ASSUME NEW w \in Writers, NEW gone \in SUBSET Uids, PruneLock(w, gone) PROVE SeenInv'
  BY <1>6 DEF PruneLock, TakeMutex, NoOp, memVars, readerVars, SeenInv, InRcu, Entry,
     LocalInv, BaseTypes, ReaderInv
<1>7. ASSUME NEW w \in Writers, PruneUnlink(w) PROVE SeenInv'
  <2>1. PICK uid \in wop[w].todo : allow_list' = [allow_list EXCEPT ![uid] = Null] /\ Observe(uid, Null)
    BY <1>7 DEF PruneUnlink
  <2>2. uid \in Uids /\ UNCHANGED <<profile, readerVars>>
    BY <1>7 DEF PruneUnlink, LocalInv, BaseTypes, WriterInv, memVars
  <2>3. \A u \in Uids : Entry(u)' = IF u = uid THEN Null ELSE Entry(u)
    BY <2>1, <2>2 DEF Entry, LocalInv, BaseTypes
  <2> QED
    BY <2>1, <2>2, <2>3 DEF Observe, SeenInv, InRcu, LocalInv, BaseTypes, ReaderInv, readerVars
<1>8. ASSUME NEW w \in Writers, PrunePut(w) PROVE SeenInv'
  BY <1>8 DEF PrunePut, PutNode, InRcu, readerVars, SeenInv, InRcu, Entry, LocalInv,
     BaseTypes, ReaderInv
<1>9. ASSUME NEW w \in Writers, PruneUnlock(w) PROVE SeenInv'
  BY <1>9 DEF PruneUnlock, Unlock, NoOp, memVars, readerVars, SeenInv, InRcu, Entry,
     LocalInv, BaseTypes, ReaderInv
<1>10. ASSUME NEW r \in Readers, NEW kind \in Lookups, NEW uid \in Uids, LookupBegin(r, kind, uid) PROVE SeenInv'
  BY <1>10 DEF LookupBegin, Goto, Entry, tableVars, memVars, writerVars, SeenInv, InRcu,
     Entry, LocalInv, BaseTypes, ReaderInv
<1>11. ASSUME NEW r \in Readers, LookupFind(r) PROVE SeenInv'
  <2>1. UNCHANGED <<tableVars, memVars, rop, seen>> /\ rpc[r] = "find" /\ rop[r].uid \in Uids
    BY <1>11 DEF LookupFind, LocalInv, ReaderInv
  <2>2. \A u \in Uids : Entry(u)' = Entry(u)
    BY <2>1 DEF Entry, tableVars, memVars
  <2>3. CASE allow_list[rop[r].uid] = Null
    BY <1>11, <2>1, <2>2, <2>3 DEF LookupFind, Goto, Entry, SeenInv, InRcu, LocalInv, BaseTypes,
       ReaderInv, tableVars, memVars
  <2>4. CASE allow_list[rop[r].uid] # Null
    BY <1>11, <2>1, <2>2, <2>4 DEF LookupFind, Goto, Entry, SeenInv, InRcu, LocalInv, BaseTypes,
       ReaderInv, tableVars, memVars
  <2> QED
    BY <2>3, <2>4
<1>12. ASSUME NEW r \in Readers, LookupDeref(r) PROVE SeenInv'
  <2>1. UNCHANGED <<tableVars, memVars, rop, seen>> /\ rpc[r] = "deref"
          /\ result' = [result EXCEPT ![r] = profile[ptr[r]]]
    BY <1>12 DEF LookupDeref
  <2>2. \A u \in Uids : Entry(u)' = Entry(u)
    BY <2>1 DEF Entry, tableVars, memVars
  <2>3. CASE Goto(r, "get") /\ UNCHANGED ptr
    BY <2>1, <2>2, <2>3 DEF Goto, SeenInv, InRcu, LocalInv, BaseTypes, ReaderInv, memVars
  <2>4. CASE Goto(r, "exit") /\ ptr' = [ptr EXCEPT ![r] = Null]
    BY <2>1, <2>2, <2>4 DEF Goto, SeenInv, InRcu, LocalInv, BaseTypes, ReaderInv, memVars
  <2> QED
    BY <1>12, <2>3, <2>4, Zenon DEF LookupDeref
<1>13. ASSUME NEW r \in Readers, LookupGet(r) PROVE SeenInv'
  BY <1>13 DEF LookupGet, Goto, tableVars, writerVars, SeenInv, InRcu, Entry, LocalInv,
     BaseTypes, ReaderInv
<1>14. ASSUME NEW r \in Readers, LookupExit(r) PROVE SeenInv'
  BY <1>14 DEF LookupExit, LeaveRcu, Goto, tableVars, writerVars, SeenInv, InRcu, Entry,
     LocalInv, BaseTypes, ReaderInv
<1>15. ASSUME NEW r \in Readers, LookupPut(r) PROVE SeenInv'
  BY <1>15 DEF LookupPut, PutNode, InRcu, Goto, tableVars, writerVars, SeenInv, InRcu,
     Entry, LocalInv, BaseTypes, ReaderInv
<1>16. ASSUME NEW r \in Readers, LookupReturn(r) PROVE SeenInv'
  BY <1>16 DEF LookupReturn, Goto, NoLookup, tableVars, memVars, writerVars, SeenInv,
     InRcu, Entry, LocalInv, BaseTypes, ReaderInv
<1>17. ASSUME NEW n \in NodeIds, FreeNode(n) PROVE SeenInv'
  BY <1>17 DEF FreeNode, tableVars, writerVars, readerVars, SeenInv, InRcu, Entry,
     LocalInv, BaseTypes, ReaderInv
<1>18. CASE UNCHANGED vars
  BY <1>18 DEF vars, tableVars, memVars, writerVars, readerVars, SeenInv, InRcu, Entry,
     LocalInv, BaseTypes, ReaderInv
<1> QED
  BY <1>1, <1>2, <1>3, <1>4, <1>5, <1>6, <1>7, <1>8, <1>9, <1>10, <1>11, <1>12, <1>13,
     <1>14, <1>15, <1>16, <1>17, <1>18 DEF Next, WriterNext, ReaderNext, ReaderStep

-----------------------------------------------------------------------------
(* The counter and the cached default *)

\* An empty table has count zero.
LEMMA CountInit == Init => CountInv
<1> SUFFICES ASSUME Init PROVE CountInv
  OBVIOUS
<1>1. Linked = {} /\ Uncounted = 0
  BY DEF Init, Linked, Uncounted
<1>2. IsFiniteSet(Linked) /\ Cardinality(Linked) = 0
  BY <1>1, FS_EmptySet
<1> QED
  BY <1>1, <1>2, ConstantsAssumption DEF Init, CountInv

\* A step that changes neither the table nor the counter, and does not enter or
\* leave the second half of a removal.
LEMMA CountQuiet ==
  ASSUME CountInv, UNCHANGED <<allow_list, allow_list_count>>,
         \A x \in Writers : wpc'[x] = "prunePut" <=> wpc[x] = "prunePut"
  PROVE  CountInv'
<1>1. Linked' = Linked
  BY DEF Linked
<1>2. Uncounted' = Uncounted
  BY DEF Uncounted
<1> QED
  BY <1>1, <1>2 DEF CountInv

\* Every step keeps the counter equal to the number of entries.
LEMMA CountStep == LocalInv /\ RefInv /\ CountInv /\ [Next]_vars => CountInv'
<1> SUFFICES ASSUME LocalInv, RefInv, CountInv, [Next]_vars PROVE CountInv'
  OBVIOUS
<1>0. IsFiniteSet(Linked) /\ Cardinality(Linked) \in Nat /\ Uncounted \in Nat
  BY FS_CardinalityType DEF CountInv, Uncounted
<1>1. ASSUME NEW w \in Writers, NEW uid \in Uids, NEW p \in Profiles, SetLock(w, uid, p) PROVE CountInv'
  <2>1. /\ UNCHANGED <<allow_list, allow_list_count>>
        /\ \A x \in Writers : wpc'[x] = "prunePut" <=> wpc[x] = "prunePut"
    BY <1>1 DEF SetLock, LocalInv, BaseTypes
  <2> QED
    BY <2>1, CountQuiet
<1>2. ASSUME NEW w \in Writers, NEW n \in NodeIds, SetReplace(w, n) PROVE CountInv'
  <2>1. PICK o \in Linked : Linked' = (Linked \ {o}) \cup {n}
    BY <1>2, ReplaceKeeps
  <2>2. n \notin Linked
    BY <1>2, ReplaceKeeps
  <2>3. IsFiniteSet(Linked \ {o}) /\ Cardinality(Linked \ {o}) = Cardinality(Linked) - 1
    BY <1>0, FS_RemoveElement
  <2>4. IsFiniteSet(Linked') /\ Cardinality(Linked') = Cardinality(Linked \ {o}) + 1
    BY <2>1, <2>2, <2>3, FS_AddElement
  <2>5. Uncounted' = Uncounted
    BY <1>2 DEF SetReplace, Uncounted, LocalInv, BaseTypes
  <2>6. allow_list_count' = allow_list_count
    BY <1>2 DEF SetReplace
  <2> QED
    BY <1>0, <2>3, <2>4, <2>5, <2>6 DEF CountInv
<1>3. ASSUME NEW w \in Writers, NEW n \in NodeIds, SetInsert(w, n) PROVE CountInv'
  <2>1. Linked' = Linked \cup {n} /\ n \notin Linked
    BY <1>3, InsertKeeps
  <2>2. IsFiniteSet(Linked') /\ Cardinality(Linked') = Cardinality(Linked) + 1
    BY <1>0, <2>1, FS_AddElement
  <2>3. Uncounted' = Uncounted
    BY <1>3 DEF SetInsert, Unlock, Uncounted, LocalInv, BaseTypes
  <2>4. allow_list_count' = allow_list_count + 1 /\ allow_list_count # CountMax
    BY <1>3 DEF SetInsert, CountFull
  <2> QED
    BY <1>0, <2>2, <2>3, <2>4, ConstantsAssumption DEF CountInv
<1>4. ASSUME NEW w \in Writers, SetPut(w) PROVE CountInv'
  <2>1. /\ UNCHANGED <<allow_list, allow_list_count>>
        /\ \A x \in Writers : wpc'[x] = "prunePut" <=> wpc[x] = "prunePut"
    BY <1>4 DEF SetPut, Unlock, LocalInv, BaseTypes
  <2> QED
    BY <2>1, CountQuiet
<1>5. ASSUME NEW w \in Writers, SetFail(w) PROVE CountInv'
  <2>1. /\ UNCHANGED <<allow_list, allow_list_count>>
        /\ \A x \in Writers : wpc'[x] = "prunePut" <=> wpc[x] = "prunePut"
    BY <1>5 DEF SetFail, Unlock, LocalInv, BaseTypes
  <2> QED
    BY <2>1, CountQuiet
<1>6. ASSUME NEW w \in Writers, NEW gone \in SUBSET Uids, PruneLock(w, gone) PROVE CountInv'
  <2>1. /\ UNCHANGED <<allow_list, allow_list_count>>
        /\ \A x \in Writers : wpc'[x] = "prunePut" <=> wpc[x] = "prunePut"
    BY <1>6 DEF PruneLock, LocalInv, BaseTypes
  <2> QED
    BY <2>1, CountQuiet
<1>7. ASSUME NEW w \in Writers, PruneUnlink(w) PROVE CountInv'
  <2>1. PICK o \in Linked : Linked' = Linked \ {o}
    BY <1>7, UnlinkKeeps
  <2>2. IsFiniteSet(Linked') /\ Cardinality(Linked') = Cardinality(Linked) - 1
    BY <1>0, <2>1, FS_RemoveElement
  <2>3. wpc[w] = "prune" /\ wpc' = [wpc EXCEPT ![w] = "prunePut"]
          /\ allow_list_count' = allow_list_count
    BY <1>7 DEF PruneUnlink
  <2>4. Uncounted = 0 /\ Uncounted' = 1
    BY <2>3, OnlyWriter DEF Uncounted, LocalInv, BaseTypes
  <2> QED
    BY <1>0, <2>2, <2>3, <2>4 DEF CountInv
<1>8. ASSUME NEW w \in Writers, PrunePut(w) PROVE CountInv'
  <2>1. wpc[w] = "prunePut" /\ wpc' = [wpc EXCEPT ![w] = "prune"]
          /\ allow_list_count' = allow_list_count - 1 /\ allow_list' = allow_list
    BY <1>8 DEF PrunePut
  <2>2. Uncounted = 1 /\ Uncounted' = 0
    BY <2>1, OnlyWriter DEF Uncounted, LocalInv, BaseTypes
  <2>3. Linked' = Linked
    BY <2>1 DEF Linked
  <2> QED
    BY <1>0, <2>1, <2>2, <2>3, ConstantsAssumption DEF CountInv
<1>9. ASSUME NEW w \in Writers, PruneUnlock(w) PROVE CountInv'
  <2>1. /\ UNCHANGED <<allow_list, allow_list_count>>
        /\ \A x \in Writers : wpc'[x] = "prunePut" <=> wpc[x] = "prunePut"
    BY <1>9 DEF PruneUnlock, Unlock, LocalInv, BaseTypes
  <2> QED
    BY <2>1, CountQuiet
<1>10. ASSUME NEW r \in Readers, NEW kind \in Lookups, NEW uid \in Uids, LookupBegin(r, kind, uid) PROVE CountInv'
  <2>1. /\ UNCHANGED <<allow_list, allow_list_count>>
        /\ \A x \in Writers : wpc'[x] = "prunePut" <=> wpc[x] = "prunePut"
    BY <1>10 DEF LookupBegin, tableVars, writerVars, LocalInv, BaseTypes
  <2> QED
    BY <2>1, CountQuiet
<1>11. ASSUME NEW r \in Readers, LookupFind(r) PROVE CountInv'
  <2>1. /\ UNCHANGED <<allow_list, allow_list_count>>
        /\ \A x \in Writers : wpc'[x] = "prunePut" <=> wpc[x] = "prunePut"
    BY <1>11 DEF LookupFind, tableVars, writerVars, LocalInv, BaseTypes
  <2> QED
    BY <2>1, CountQuiet
<1>12. ASSUME NEW r \in Readers, LookupDeref(r) PROVE CountInv'
  <2>1. /\ UNCHANGED <<allow_list, allow_list_count>>
        /\ \A x \in Writers : wpc'[x] = "prunePut" <=> wpc[x] = "prunePut"
    BY <1>12 DEF LookupDeref, tableVars, writerVars, LocalInv, BaseTypes
  <2> QED
    BY <2>1, CountQuiet
<1>13. ASSUME NEW r \in Readers, LookupGet(r) PROVE CountInv'
  <2>1. /\ UNCHANGED <<allow_list, allow_list_count>>
        /\ \A x \in Writers : wpc'[x] = "prunePut" <=> wpc[x] = "prunePut"
    BY <1>13 DEF LookupGet, tableVars, writerVars, LocalInv, BaseTypes
  <2> QED
    BY <2>1, CountQuiet
<1>14. ASSUME NEW r \in Readers, LookupExit(r) PROVE CountInv'
  <2>1. /\ UNCHANGED <<allow_list, allow_list_count>>
        /\ \A x \in Writers : wpc'[x] = "prunePut" <=> wpc[x] = "prunePut"
    BY <1>14 DEF LookupExit, tableVars, writerVars, LocalInv, BaseTypes
  <2> QED
    BY <2>1, CountQuiet
<1>15. ASSUME NEW r \in Readers, LookupPut(r) PROVE CountInv'
  <2>1. /\ UNCHANGED <<allow_list, allow_list_count>>
        /\ \A x \in Writers : wpc'[x] = "prunePut" <=> wpc[x] = "prunePut"
    BY <1>15 DEF LookupPut, tableVars, writerVars, LocalInv, BaseTypes
  <2> QED
    BY <2>1, CountQuiet
<1>16. ASSUME NEW r \in Readers, LookupReturn(r) PROVE CountInv'
  <2>1. /\ UNCHANGED <<allow_list, allow_list_count>>
        /\ \A x \in Writers : wpc'[x] = "prunePut" <=> wpc[x] = "prunePut"
    BY <1>16 DEF LookupReturn, tableVars, writerVars, LocalInv, BaseTypes
  <2> QED
    BY <2>1, CountQuiet
<1>17. ASSUME NEW n \in NodeIds, FreeNode(n) PROVE CountInv'
  <2>1. /\ UNCHANGED <<allow_list, allow_list_count>>
        /\ \A x \in Writers : wpc'[x] = "prunePut" <=> wpc[x] = "prunePut"
    BY <1>17 DEF FreeNode, tableVars, writerVars, LocalInv, BaseTypes
  <2> QED
    BY <2>1, CountQuiet
<1>18. CASE UNCHANGED vars
  <2>1. /\ UNCHANGED <<allow_list, allow_list_count>>
        /\ \A x \in Writers : wpc'[x] = "prunePut" <=> wpc[x] = "prunePut"
    BY <1>18 DEF vars, tableVars, writerVars, LocalInv, BaseTypes
  <2> QED
    BY <2>1, CountQuiet
<1> QED
  BY <1>1, <1>2, <1>3, <1>4, <1>5, <1>6, <1>7, <1>8, <1>9, <1>10, <1>11, <1>12, <1>13,
     <1>14, <1>15, <1>16, <1>17, <1>18 DEF Next, WriterNext, ReaderNext, ReaderStep

\* There is no default profile at first that the cached one could differ from.
LEMMA DefaultInit == Init => DefaultInv
  BY ConstantsAssumption DEF Init, DefaultInv

\* A step that leaves the table, its contents, the default and writers in the
\* middle of a replacement alone.
LEMMA DefaultQuiet ==
  ASSUME LocalInv, RefInv, DefaultInv, UNCHANGED <<allow_list, default_umount, profile>>,
         \A x \in Writers : wpc'[x] = "put" <=> wpc[x] = "put",
         \A x \in Writers : wpc[x] = "put" => wop'[x] = wop[x]
  PROVE  DefaultInv'
  BY DEF DefaultInv

\* Every step keeps the cached default that of the default profile.
LEMMA DefaultStep == LocalInv /\ RefInv /\ DefaultInv /\ [Next]_vars => DefaultInv'
<1> SUFFICES ASSUME LocalInv, RefInv, DefaultInv, [Next]_vars PROVE DefaultInv'
  OBVIOUS
<1> USE ConstantsAssumption
<1>1. ASSUME NEW w \in Writers, NEW uid \in Uids, NEW p \in Profiles, SetLock(w, uid, p) PROVE DefaultInv'
  <2>1. /\ UNCHANGED <<allow_list, default_umount, profile>>
        /\ \A x \in Writers : wpc'[x] = "put" <=> wpc[x] = "put"
        /\ \A x \in Writers : wpc[x] = "put" => wop'[x] = wop[x]
    BY <1>1 DEF SetLock, memVars, LocalInv, BaseTypes
  <2> QED
    BY <2>1, DefaultQuiet
<1>2. ASSUME NEW w \in Writers, NEW n \in NodeIds, SetReplace(w, n) PROVE DefaultInv'
  <2>1. /\ wop[w].uid \in Uids /\ wpc[w] = "set" /\ UNCHANGED <<wop, default_umount>>
        /\ allow_list' = [allow_list EXCEPT ![wop[w].uid] = n]
        /\ profile' = [profile EXCEPT ![n] = wop[w].profile]
        /\ wpc' = [wpc EXCEPT ![w] = "put"]
    BY <1>2 DEF SetReplace, AllocNode, LocalInv, WriterInv
  <2>2. \A x \in Writers \ {w} : wpc[x] = "idle"
    BY <2>1, OnlyWriter
  <2>3. \A u \in Uids : allow_list[u] # n
    BY <1>2, ReplaceKeeps DEF Linked
  <2>4. \A x \in Writers : wpc'[x] = "put" =>
          allow_list'[wop'[x].uid] # Null /\ profile'[allow_list'[wop'[x].uid]] = wop'[x].profile
    BY <2>1, <2>2 DEF LocalInv, BaseTypes
  <2>5. CASE wop[w].uid = DefaultUid
    BY <2>1, <2>4, <2>5 DEF DefaultInv, LocalInv, BaseTypes
  <2>6. CASE wop[w].uid # DefaultUid
    <3>1. DefaultUid \in Uids /\ allow_list'[DefaultUid] = allow_list[DefaultUid]
      BY <2>1, <2>6 DEF LocalInv, BaseTypes
    <3>2. allow_list[DefaultUid] # Null => profile'[allow_list[DefaultUid]] = profile[allow_list[DefaultUid]]
      BY <2>1, <2>3, <3>1 DEF LocalInv, BaseTypes
    <3>3. allow_list[DefaultUid] # Null => default_umount = profile[allow_list[DefaultUid]].umount_modules
      BY <2>1, <2>2 DEF DefaultInv
    <3> QED
      BY <2>1, <2>4, <3>1, <3>2, <3>3 DEF DefaultInv
  <2> QED
    BY <2>5, <2>6
<1>3. ASSUME NEW w \in Writers, NEW n \in NodeIds, SetInsert(w, n) PROVE DefaultInv'
  <2>1. /\ wop[w].uid \in Uids /\ wpc[w] = "set" /\ UpdateDefault(w)
        /\ allow_list' = [allow_list EXCEPT ![wop[w].uid] = n]
        /\ profile' = [profile EXCEPT ![n] = wop[w].profile]
        /\ wpc' = [wpc EXCEPT ![w] = "idle"]
    BY <1>3 DEF SetInsert, AllocNode, Unlock, LocalInv, WriterInv
  <2>2. \A x \in Writers \ {w} : wpc[x] = "idle"
    BY <2>1, OnlyWriter
  <2>3. \A u \in Uids : allow_list[u] # n
    BY <1>3, InsertKeeps DEF Linked
  <2>4. \A x \in Writers : wpc'[x] # "put"
    BY <2>1, <2>2 DEF LocalInv, BaseTypes
  <2>5. CASE wop[w].uid = DefaultUid
    BY <2>1, <2>4, <2>5 DEF DefaultInv, UpdateDefault, LocalInv, BaseTypes
  <2>6. CASE wop[w].uid # DefaultUid
    <3>1. DefaultUid \in Uids /\ allow_list'[DefaultUid] = allow_list[DefaultUid]
      BY <2>1, <2>6 DEF LocalInv, BaseTypes
    <3>2. allow_list[DefaultUid] # Null => profile'[allow_list[DefaultUid]] = profile[allow_list[DefaultUid]]
      BY <2>1, <2>3, <3>1 DEF LocalInv, BaseTypes
    <3>3. allow_list[DefaultUid] # Null => default_umount = profile[allow_list[DefaultUid]].umount_modules
      BY <2>1, <2>2 DEF DefaultInv
    <3> QED
      BY <2>1, <2>4, <2>6, <3>1, <3>2, <3>3 DEF DefaultInv, UpdateDefault
  <2> QED
    BY <2>5, <2>6
<1>4. ASSUME NEW w \in Writers, SetPut(w) PROVE DefaultInv'
  <2>1. /\ wpc[w] = "put" /\ UpdateDefault(w) /\ UNCHANGED <<allow_list, profile>>
        /\ wpc' = [wpc EXCEPT ![w] = "idle"]
    BY <1>4 DEF SetPut, Unlock
  <2>2. \A x \in Writers \ {w} : wpc[x] = "idle"
    BY <2>1, OnlyWriter
  <2>3. \A x \in Writers : wpc'[x] # "put"
    BY <2>1, <2>2 DEF LocalInv, BaseTypes
  <2>4. CASE wop[w].uid = DefaultUid
    BY <2>1, <2>3, <2>4 DEF DefaultInv, UpdateDefault
  <2>5. CASE wop[w].uid # DefaultUid
    <3>1. allow_list[DefaultUid] # Null => default_umount = profile[allow_list[DefaultUid]].umount_modules
      BY <2>1, <2>2, <2>5 DEF DefaultInv
    <3> QED
      BY <2>1, <2>3, <2>5, <3>1 DEF DefaultInv, UpdateDefault
  <2> QED
    BY <2>4, <2>5
<1>5. ASSUME NEW w \in Writers, SetFail(w) PROVE DefaultInv'
  <2>1. /\ UNCHANGED <<allow_list, default_umount, profile>>
        /\ \A x \in Writers : wpc'[x] = "put" <=> wpc[x] = "put"
        /\ \A x \in Writers : wpc[x] = "put" => wop'[x] = wop[x]
    BY <1>5 DEF SetFail, Unlock, memVars, LocalInv, BaseTypes
  <2> QED
    BY <2>1, DefaultQuiet
<1>6. ASSUME NEW w \in Writers, NEW gone \in SUBSET Uids, PruneLock(w, gone) PROVE DefaultInv'
  <2>1. /\ UNCHANGED <<allow_list, default_umount, profile>>
        /\ \A x \in Writers : wpc'[x] = "put" <=> wpc[x] = "put"
        /\ \A x \in Writers : wpc[x] = "put" => wop'[x] = wop[x]
    BY <1>6 DEF PruneLock, memVars, LocalInv, BaseTypes
  <2> QED
    BY <2>1, DefaultQuiet
<1>7. ASSUME NEW w \in Writers, PruneUnlink(w) PROVE DefaultInv'
  <2>1. PICK uid \in wop[w].todo : allow_list' = [allow_list EXCEPT ![uid] = Null]
    BY <1>7 DEF PruneUnlink
  <2>2. /\ wpc[w] = "prune" /\ UNCHANGED <<default_umount, profile>>
        /\ wpc' = [wpc EXCEPT ![w] = "prunePut"]
    BY <1>7 DEF PruneUnlink, memVars
  <2>3. \A x \in Writers \ {w} : wpc[x] = "idle"
    BY <2>2, OnlyWriter
  <2>4. \A x \in Writers : wpc[x] # "put" /\ wpc'[x] # "put"
    BY <2>2, <2>3 DEF LocalInv, BaseTypes
  <2>5. uid \in Uids \ PreservedUids
    BY <2>2 DEF LocalInv, WriterInv
  <2>6. allow_list'[DefaultUid] = allow_list[DefaultUid]
    BY <2>1, <2>5 DEF LocalInv, BaseTypes
  <2> QED
    BY <2>2, <2>4, <2>6 DEF DefaultInv
<1>8. ASSUME NEW w \in Writers, PrunePut(w) PROVE DefaultInv'
  <2>1. /\ UNCHANGED <<allow_list, default_umount, profile>>
        /\ \A x \in Writers : wpc'[x] = "put" <=> wpc[x] = "put"
        /\ \A x \in Writers : wpc[x] = "put" => wop'[x] = wop[x]
    BY <1>8 DEF PrunePut, LocalInv, BaseTypes
  <2> QED
    BY <2>1, DefaultQuiet
<1>9. ASSUME NEW w \in Writers, PruneUnlock(w) PROVE DefaultInv'
  <2>1. /\ UNCHANGED <<allow_list, default_umount, profile>>
        /\ \A x \in Writers : wpc'[x] = "put" <=> wpc[x] = "put"
        /\ \A x \in Writers : wpc[x] = "put" => wop'[x] = wop[x]
    BY <1>9 DEF PruneUnlock, Unlock, memVars, LocalInv, BaseTypes
  <2> QED
    BY <2>1, DefaultQuiet
<1>10. ASSUME NEW r \in Readers, NEW kind \in Lookups, NEW uid \in Uids, LookupBegin(r, kind, uid) PROVE DefaultInv'
  <2>1. /\ UNCHANGED <<allow_list, default_umount, profile>>
        /\ \A x \in Writers : wpc'[x] = "put" <=> wpc[x] = "put"
        /\ \A x \in Writers : wpc[x] = "put" => wop'[x] = wop[x]
    BY <1>10 DEF LookupBegin, tableVars, memVars, writerVars, LocalInv, BaseTypes
  <2> QED
    BY <2>1, DefaultQuiet
<1>11. ASSUME NEW r \in Readers, LookupFind(r) PROVE DefaultInv'
  <2>1. /\ UNCHANGED <<allow_list, default_umount, profile>>
        /\ \A x \in Writers : wpc'[x] = "put" <=> wpc[x] = "put"
        /\ \A x \in Writers : wpc[x] = "put" => wop'[x] = wop[x]
    BY <1>11 DEF LookupFind, tableVars, memVars, writerVars, LocalInv, BaseTypes
  <2> QED
    BY <2>1, DefaultQuiet
<1>12. ASSUME NEW r \in Readers, LookupDeref(r) PROVE DefaultInv'
  <2>1. /\ UNCHANGED <<allow_list, default_umount, profile>>
        /\ \A x \in Writers : wpc'[x] = "put" <=> wpc[x] = "put"
        /\ \A x \in Writers : wpc[x] = "put" => wop'[x] = wop[x]
    BY <1>12 DEF LookupDeref, tableVars, memVars, writerVars, LocalInv, BaseTypes
  <2> QED
    BY <2>1, DefaultQuiet
<1>13. ASSUME NEW r \in Readers, LookupGet(r) PROVE DefaultInv'
  <2>1. /\ UNCHANGED <<allow_list, default_umount, profile>>
        /\ \A x \in Writers : wpc'[x] = "put" <=> wpc[x] = "put"
        /\ \A x \in Writers : wpc[x] = "put" => wop'[x] = wop[x]
    BY <1>13 DEF LookupGet, tableVars, memVars, writerVars, LocalInv, BaseTypes
  <2> QED
    BY <2>1, DefaultQuiet
<1>14. ASSUME NEW r \in Readers, LookupExit(r) PROVE DefaultInv'
  <2>1. /\ UNCHANGED <<allow_list, default_umount, profile>>
        /\ \A x \in Writers : wpc'[x] = "put" <=> wpc[x] = "put"
        /\ \A x \in Writers : wpc[x] = "put" => wop'[x] = wop[x]
    BY <1>14 DEF LookupExit, tableVars, memVars, writerVars, LocalInv, BaseTypes
  <2> QED
    BY <2>1, DefaultQuiet
<1>15. ASSUME NEW r \in Readers, LookupPut(r) PROVE DefaultInv'
  <2>1. /\ UNCHANGED <<allow_list, default_umount, profile>>
        /\ \A x \in Writers : wpc'[x] = "put" <=> wpc[x] = "put"
        /\ \A x \in Writers : wpc[x] = "put" => wop'[x] = wop[x]
    BY <1>15 DEF LookupPut, tableVars, memVars, writerVars, LocalInv, BaseTypes
  <2> QED
    BY <2>1, DefaultQuiet
<1>16. ASSUME NEW r \in Readers, LookupReturn(r) PROVE DefaultInv'
  <2>1. /\ UNCHANGED <<allow_list, default_umount, profile>>
        /\ \A x \in Writers : wpc'[x] = "put" <=> wpc[x] = "put"
        /\ \A x \in Writers : wpc[x] = "put" => wop'[x] = wop[x]
    BY <1>16 DEF LookupReturn, tableVars, memVars, writerVars, LocalInv, BaseTypes
  <2> QED
    BY <2>1, DefaultQuiet
<1>17. ASSUME NEW n \in NodeIds, FreeNode(n) PROVE DefaultInv'
  <2>1. /\ UNCHANGED <<allow_list, default_umount, profile>>
        /\ \A x \in Writers : wpc'[x] = "put" <=> wpc[x] = "put"
        /\ \A x \in Writers : wpc[x] = "put" => wop'[x] = wop[x]
    BY <1>17 DEF FreeNode, tableVars, writerVars, LocalInv, BaseTypes
  <2> QED
    BY <2>1, DefaultQuiet
<1>18. CASE UNCHANGED vars
  <2>1. /\ UNCHANGED <<allow_list, default_umount, profile>>
        /\ \A x \in Writers : wpc'[x] = "put" <=> wpc[x] = "put"
        /\ \A x \in Writers : wpc[x] = "put" => wop'[x] = wop[x]
    BY <1>18 DEF vars, tableVars, memVars, writerVars, LocalInv, BaseTypes
  <2> QED
    BY <2>1, DefaultQuiet
<1> QED
  BY <1>1, <1>2, <1>3, <1>4, <1>5, <1>6, <1>7, <1>8, <1>9, <1>10, <1>11, <1>12, <1>13,
     <1>14, <1>15, <1>16, <1>17, <1>18 DEF Next, WriterNext, ReaderNext, ReaderStep

-----------------------------------------------------------------------------
(* Theorems *)

\* The layers together hold from kzalloc of the first profile on: every step of a
\* lookup, of ksu_set_app_profile and of ksu_prune_allowlist keeps them.
THEOREM AllowlistInvariant == Spec => []AllowlistInv
<1>1. Init => AllowlistInv
  BY LocalInit, RefInit, GraceInit, SeenInit, CountInit, DefaultInit DEF AllowlistInv
<1>2. AllowlistInv /\ [Next]_vars => AllowlistInv'
  BY LocalStep, RefStep, GraceStep, SeenStep, CountStep, DefaultStep DEF AllowlistInv
<1> QED
  BY <1>1, <1>2, PTL DEF Spec

\* Reference counts and the entry counter of allowlist.c never go below zero or
\* past U16_MAX, and every other variable keeps its type.
THEOREM AllowlistTypes == Spec => []TypeOK
<1>1. AllowlistInv => TypeOK
  <2> SUFFICES ASSUME AllowlistInv PROVE TypeOK
    OBVIOUS
  <2>1. \A n \in NodeIds : ref[n] \in Nat
    BY CountIsExact, CountIsNat DEF AllowlistInv, RefInv
  <2>2. ref \in [NodeIds -> Nat]
    BY <2>1 DEF AllowlistInv, LocalInv, BaseTypes
  <2>3. allow_list_count \in 0 .. CountMax
    <3>1. Cardinality(Linked) \in Nat /\ Uncounted \in Nat
      BY FS_CardinalityType DEF AllowlistInv, CountInv, Uncounted
    <3> QED
      BY <3>1, ConstantsAssumption DEF AllowlistInv, CountInv
  <2> QED
    BY <2>2, <2>3 DEF TypeOK, AllowlistInv, LocalInv, BaseTypes
<1> QED
  BY <1>1, AllowlistInvariant, PTL

\* A replaced or pruned profile is not given back to the allocator while a lookup
\* that found it under RCU, or a caller that took a reference, can reach it.
THEOREM NoLookupUsesFreedMemory == Spec => []NoUseAfterFree
<1>1. AllowlistInv => NoUseAfterFree
  <2> SUFFICES ASSUME AllowlistInv PROVE NoUseAfterFree
    OBVIOUS
  <2> USE DEF AllowlistInv
  <2>1. ASSUME NEW r \in Readers, ptr[r] # Null PROVE mem[ptr[r]] \in {"live", "grace"}
    <3>1. rpc[r] \in {"deref", "get", "exit", "use"}
      BY <2>1 DEF LocalInv, BaseTypes, ReaderInv
    <3>2. CASE rpc[r] \in {"deref", "get"}
      BY <3>2 DEF GraceInv
    <3>3. CASE rpc[r] \in {"exit", "use"}
      BY <2>1, <3>3, HolderIsLive
    <3> QED
      BY <3>1, <3>2, <3>3
  <2>2. \A n \in Linked \cup Unlinking : mem[n] = "live"
    BY OwnedIsLive DEF Owned
  <2> QED
    BY <2>1, <2>2 DEF NoUseAfterFree
<1> QED
  BY <1>1, AllowlistInvariant, PTL

\* kref_get_unless_zero and put_perm_data balance: a node has one reference from
\* the table or the writer that unlinked it, and one from each reader using it.
THEOREM ReferencesAreExact == Spec => []RefCountExact
<1>1. AllowlistInv => RefCountExact
  BY DEF AllowlistInv, RefInv
<1> QED
  BY <1>1, AllowlistInvariant, PTL

\* With the mutex free, allow_list_count is the number of profiles and the cached
\* default is the one of DefaultUid's profile.
THEOREM SummariesAreExact == Spec => []SummariesExact
<1>1. AllowlistInv => SummariesExact
  <2> SUFFICES ASSUME AllowlistInv PROVE SummariesExact
    OBVIOUS
  <2> USE DEF AllowlistInv
  <2>1. allow_list_count <= CountMax
    BY DEF CountInv
  <2>2. SUFFICES ASSUME allowlist_mutex = Null
                 PROVE  /\ allow_list_count = Cardinality(Linked)
                        /\ allow_list[DefaultUid] # Null =>
                             default_umount = profile[allow_list[DefaultUid]].umount_modules
    BY <2>1 DEF SummariesExact
  <2>3. \A w \in Writers : wpc[w] = "idle"
    BY <2>2, ConstantsAssumption DEF LocalInv, WriterInv
  <2>4. Uncounted = 0 /\ Cardinality(Linked) \in Nat
    BY <2>3, FS_CardinalityType DEF Uncounted, CountInv
  <2>5. allow_list_count = Cardinality(Linked)
    BY <2>4 DEF CountInv
  <2>6. allow_list[DefaultUid] # Null =>
          default_umount = profile[allow_list[DefaultUid]].umount_modules
    BY <2>3 DEF DefaultInv
  <2> QED
    BY <2>5, <2>6
<1> QED
  BY <1>1, AllowlistInvariant, PTL

\* A lookup, however often it had to retry, returns what the table held for the
\* uid at some moment between its call and its return.
THEOREM LookupsAreCurrent == Spec => []ResultWasCurrent
<1>1. AllowlistInv => ResultWasCurrent
  BY DEF AllowlistInv, SeenInv, ResultWasCurrent
<1> QED
  BY <1>1, AllowlistInvariant, PTL

-----------------------------------------------------------------------------
(* The file that the table is saved to: AllowlistFile.  The invariant says *)
(* what a load has done so far (LoadInv), that the file is of the current  *)
(* format when profiles are written to it (HeaderInv), that a table that   *)
(* is not in the file is on its way there (SavedWhenQuiet), what is left   *)
(* of the table of a clean shutdown (BeforeInv), and that all a boot may   *)
(* find in the file was given once (GrantInv).                             *)

\* Before the file is loaded nobody saves it; only a load has read entries.
BootInv ==
  /\ ~Loaded => Quiet
  /\ stage # "loading" => loadPos = 0
  /\ stage = "boot" => table = EmptyTable /\ ~lost
  /\ stage = "loading" => Loadable(file)

\* t has the last of the first n entries of f for u; for every uid.
HeldFor(f, n, t, u) ==
  \/ t[u] = None /\ \A i \in 1 .. n : f.entries[i].uid # u
  \/ \E i \in 1 .. n : /\ f.entries[i].uid = u
                       /\ \A j \in 1 .. n : j > i => f.entries[j].uid # u
                       /\ t[u] = Migrate(f.version, f.entries[i].profile)

Holds(f, n, t) == \A u \in AppUids : HeldFor(f, n, t, u)

LoadInv == stage = "loading" /\ ~lost => Holds(file, loadPos, table)

HeaderInv == saver = "header" => file.magic /\ file.version = FILE_FORMAT_VERSION

BeforeInv ==
  before # <<>> =>
    /\ Loaded => table = before[1]
    /\ ~Loaded => ~lost /\ Contents(file) = before[1]

GrantInv ==
  /\ \A f \in survivors : GivenBy(f) \subseteq granted
  /\ NothingInvented

FileInv ==
  /\ FileTypeOK /\ BootInv /\ LoadInv /\ HeaderInv
  /\ SavedWhenQuiet /\ BeforeInv /\ GrantInv

-----------------------------------------------------------------------------
(* Formats and contents *)

\* migrate_profile gives a profile, and leaves one of the current format alone.
LEMMA Migrated ==
  ASSUME NEW p \in Profile, NEW v
  PROVE  /\ Migrate(v, p) \in Profile
         /\ Migrate(FILE_FORMAT_VERSION, p) = p
  <1> DEFINE Domain(w) == IF w = 2 /\ p.allow_su /\ p.domain = "su" THEN "ksu" ELSE p.domain
             Flag(w) == IF w \in {2, 3} /\ p.allow_su THEN TRUE ELSE p.no_new_privs
  <1>1. /\ p.allow_su \in BOOLEAN /\ p.no_new_privs \in BOOLEAN
        /\ p.domain \in {"su", "ksu", "other"}
    BY DEF Profile
  <1>2. \A d \in {"su", "ksu", "other"}, n \in BOOLEAN :
          [p EXCEPT !.domain = d, !.no_new_privs = n] \in Profile
    BY DEF Profile
  <1>3. Domain(v) \in {"su", "ksu", "other"} /\ Flag(v) \in BOOLEAN
    BY <1>1
  <1>4. Domain(4) = p.domain /\ Flag(4) = p.no_new_privs
    OBVIOUS
  <1>5. [p EXCEPT !.domain = p.domain, !.no_new_privs = p.no_new_privs] = p
    BY DEF Profile
  <1>6. ASSUME NEW w
        PROVE  Migrate(w, p) = [p EXCEPT !.domain = Domain(w), !.no_new_privs = Flag(w)]
    BY DEF Migrate
  <1> HIDE DEF Domain, Flag
  <1>7. Migrate(v, p) \in Profile
    BY <1>2, <1>3, <1>6
  <1>8. Migrate(4, p) = p
    BY <1>4, <1>5, <1>6
  <1> QED BY <1>7, <1>8 DEF FILE_FORMAT_VERSION

\* The elements of a sequence.
LEMMA SeqElements ==
  ASSUME NEW S, NEW q \in Seq(S)
  PROVE  Len(q) \in Nat /\ \A i \in 1 .. Len(q) : q[i] \in S
  OBVIOUS

\* A part of a sequence from its beginning.
LEMMA PrefixSeq ==
  ASSUME NEW S, NEW q \in Seq(S), NEW l \in 0 .. Len(q)
  PROVE  /\ SubSeq(q, 1, l) \in Seq(S)
         /\ Len(SubSeq(q, 1, l)) = l
         /\ \A i \in 1 .. l : SubSeq(q, 1, l)[i] = q[i]
  OBVIOUS

\* The parts of what reading the file gives.
LEMMA FileParts ==
  ASSUME NEW f \in Files
  PROVE  /\ f.magic \in BOOLEAN /\ f.version \in Nat
         /\ f.entries \in Seq([uid : AppUids, profile : Profile])
         /\ Len(f.entries) \in Nat
         /\ \A i \in 1 .. Len(f.entries) :
              f.entries[i].uid \in AppUids /\ f.entries[i].profile \in Profile
  <1>1. /\ f.magic \in BOOLEAN /\ f.version \in Nat
        /\ f.entries \in Seq([uid : AppUids, profile : Profile])
    BY DEF Files
  <1>2. PICK q : q = f.entries
    OBVIOUS
  <1>3. q \in Seq([uid : AppUids, profile : Profile])
    BY <1>1, <1>2
  <1>4. Len(q) \in Nat /\ \A i \in 1 .. Len(q) : q[i] \in [uid : AppUids, profile : Profile]
    BY <1>3, SeqElements
  <1>5. ASSUME NEW i \in 1 .. Len(q)
        PROVE  q[i].uid \in AppUids /\ q[i].profile \in Profile
    <2>1. PICK e \in [uid : AppUids, profile : Profile] : e = q[i]
      BY <1>4
    <2>2. e.uid \in AppUids /\ e.profile \in Profile
      OBVIOUS
    <2> QED BY <2>1, <2>2
  <1> QED BY <1>1, <1>2, <1>4, <1>5

\* A truncated file, and one with nothing behind a part of its header.
LEMMA ShortFiles ==
  /\ NoFile \in Files /\ NoFile.entries = <<>>
  /\ \A m \in BOOLEAN, v \in Nat :
       /\ [NoFile EXCEPT !.magic = m, !.version = v] \in Files
       /\ [NoFile EXCEPT !.magic = m, !.version = v].entries = <<>>
       /\ [NoFile EXCEPT !.magic = m, !.version = v].magic = m
       /\ [NoFile EXCEPT !.magic = m, !.version = v].version = v
  /\ \A m \in BOOLEAN :
       /\ [NoFile EXCEPT !.magic = m] \in Files
       /\ [NoFile EXCEPT !.magic = m].entries = <<>>
  <1>1. <<>> \in Seq([uid : AppUids, profile : Profile])
    OBVIOUS
  <1> QED BY <1>1 DEF NoFile, Files

\* A file with other entries.
LEMMA OtherEntries ==
  ASSUME NEW f \in Files, NEW q \in Seq([uid : AppUids, profile : Profile])
  PROVE  LET g == [f EXCEPT !.entries = q]
         IN  g \in Files /\ g.magic = f.magic /\ g.version = f.version /\ g.entries = q
  BY DEF Files

\* Nothing comes out of a file without entries.
LEMMA NothingGiven ==
  ASSUME NEW f, f.entries = <<>>
  PROVE  GivenBy(f) = {}
  BY DEF GivenBy

\* What a crash may leave of a file is a file, and has nothing but what the file
\* would have given.
LEMMA CutOffFiles ==
  ASSUME NEW f \in Files, NEW g \in CutOff(f)
  PROVE  g \in Files /\ GivenBy(g) \subseteq GivenBy(f)
  <1>1. CASE g = NoFile \/ g = [NoFile EXCEPT !.magic = f.magic]
    <2>1. g \in Files /\ g.entries = <<>>
      <3>1. f.magic \in BOOLEAN
        BY FileParts
      <3> QED BY <1>1, <3>1, ShortFiles
    <2> QED BY <2>1, NothingGiven
  <1>2. ASSUME NEW l \in 0 .. Len(f.entries),
               g = [f EXCEPT !.entries = SubSeq(f.entries, 1, l)]
        PROVE  g \in Files /\ GivenBy(g) \subseteq GivenBy(f)
    <2>1. PICK q : q = f.entries
      OBVIOUS
    <2>2. q \in Seq([uid : AppUids, profile : Profile]) /\ l \in 0 .. Len(q)
      BY <1>2, <2>1, FileParts
    <2>3. SubSeq(q, 1, l) \in Seq([uid : AppUids, profile : Profile])
      BY <2>2, PrefixSeq
    <2>4. Len(SubSeq(q, 1, l)) = l /\ \A i \in 1 .. l : SubSeq(q, 1, l)[i] = q[i]
      BY <2>2, PrefixSeq
    <2>5. /\ g \in Files /\ g.magic = f.magic /\ g.version = f.version
          /\ g.entries = SubSeq(q, 1, l)
      BY <1>2, <2>1, <2>3, OtherEntries
    <2>6. Loadable(g) = Loadable(f)
      BY <2>5 DEF Loadable
    <2>7. ASSUME NEW x \in GivenBy(g)
          PROVE  x \in GivenBy(f)
      <3>1. PICK i \in 1 .. Len(g.entries) :
              Loadable(g) /\ x = <<g.entries[i].uid, Migrate(g.version, g.entries[i].profile)>>
        BY <2>7 DEF GivenBy
      <3>2. i \in 1 .. Len(f.entries) /\ g.entries[i] = f.entries[i]
        BY <2>1, <2>2, <2>4, <2>5
      <3>3. x = <<f.entries[i].uid, Migrate(f.version, f.entries[i].profile)>>
        BY <2>5, <3>1, <3>2
      <3> QED BY <2>6, <3>1, <3>2, <3>3 DEF GivenBy
    <2> QED BY <2>5, <2>7
  <1>3. g = NoFile \/ g = [NoFile EXCEPT !.magic = f.magic]
          \/ \E l \in 0 .. Len(f.entries) : g = [f EXCEPT !.entries = SubSeq(f.entries, 1, l)]
    BY DEF CutOff, Prefixes
  <1> QED BY <1>1, <1>2, <1>3

\* A file is among what a crash may leave of it.
LEMMA CutOffSelf ==
  ASSUME NEW f \in Files
  PROVE  f \in CutOff(f)
  <1>1. PICK q : q = f.entries
    OBVIOUS
  <1>2. q \in Seq([uid : AppUids, profile : Profile]) /\ Len(q) \in Nat
    BY <1>1, FileParts
  <1>3. SubSeq(q, 1, Len(q)) = q
    BY <1>2
  <1>4. f = [f EXCEPT !.entries = q]
    BY <1>1 DEF Files
  <1>5. q \in Prefixes(f.entries)
    BY <1>1, <1>2, <1>3 DEF Prefixes
  <1> QED BY <1>4, <1>5 DEF CutOff

\* The greatest of some positions.
LEMMA LastPosition ==
  ASSUME NEW S \in SUBSET Int, NEW m \in S, \A y \in S : y <= m
  PROVE  Max(S) = m
  <1>1. \A x \in S : (\A y \in S : x >= y) => x = m
    OBVIOUS
  <1>2. \A y \in S : m >= y
    OBVIOUS
  <1> QED BY <1>1, <1>2 DEF Max

\* A load that has read all entries has the contents of the file.
LEMMA LoadedAll ==
  ASSUME NEW f \in Files, Loadable(f),
         NEW t \in [AppUids -> Profile \cup {None}], Holds(f, Len(f.entries), t)
  PROVE  Contents(f) = t
  <1> DEFINE At(u) == {i \in 1 .. Len(f.entries) : f.entries[i].uid = u}
  <1> DEFINE C(u) == IF At(u) # {}
                     THEN Migrate(f.version, f.entries[Max(At(u))].profile) ELSE None
  <1>1. ASSUME NEW u \in AppUids
        PROVE  C(u) = t[u]
    <2>1. CASE t[u] = None /\ \A i \in 1 .. Len(f.entries) : f.entries[i].uid # u
      <3>1. At(u) = {}
        BY <2>1
      <3> QED BY <2>1, <3>1
    <2>2. ASSUME NEW i \in 1 .. Len(f.entries), f.entries[i].uid = u,
                 \A j \in 1 .. Len(f.entries) : j > i => f.entries[j].uid # u,
                 t[u] = Migrate(f.version, f.entries[i].profile)
          PROVE  C(u) = t[u]
      <3>1. Len(f.entries) \in Nat
        BY FileParts
      <3>2. At(u) \in SUBSET Int /\ i \in At(u) /\ \A y \in At(u) : y <= i
        BY <2>2, <3>1
      <3>3. Max(At(u)) = i
        <4> HIDE DEF At
        <4> QED BY <3>2, LastPosition
      <3>4. At(u) # {}
        BY <3>2
      <3> HIDE DEF At
      <3> QED BY <2>2, <3>3, <3>4
    <2> HIDE DEF C
    <2>3. HeldFor(f, Len(f.entries), t, u)
      BY DEF Holds
    <2> QED BY <2>1, <2>2, <2>3 DEF HeldFor
  <1>2. Contents(f) = [u \in AppUids |-> C(u)]
    BY DEF Contents
  <1> HIDE DEF C
  <1>3. t = [u \in AppUids |-> t[u]]
    OBVIOUS
  <1> QED BY <1>1, <1>2, <1>3

\* A file that is not loaded has no profiles.
LEMMA LoadedNone ==
  ASSUME NEW f, ~Loadable(f)
  PROVE  Contents(f) = EmptyTable
  BY DEF Contents, EmptyTable

\* One more entry is read.
LEMMA LoadedOneMore ==
  ASSUME NEW f \in Files, NEW n \in Nat, n < Len(f.entries),
         NEW t \in [AppUids -> Profile \cup {None}], Holds(f, n, t)
  PROVE  LET e == f.entries[n + 1]
         IN  Holds(f, n + 1, [t EXCEPT ![e.uid] = Migrate(f.version, e.profile)])
  <1>1. PICK q : q = f.entries
    OBVIOUS
  <1>2. PICK w : w = Migrate(f.version, f.entries[n + 1].profile)
    OBVIOUS
  <1>3. PICK x : x = f.entries[n + 1].uid
    OBVIOUS
  <1>4. x \in AppUids /\ n + 1 \in 1 .. Len(f.entries)
    BY <1>3, FileParts
  <1>5. PICK s : s = [t EXCEPT ![x] = w]
    OBVIOUS
  <1>6. s[x] = w /\ \A u \in AppUids : u # x => s[u] = t[u]
    BY <1>4, <1>5
  <1>7. ASSUME NEW u \in AppUids
        PROVE  HeldFor(f, n + 1, s, u)
    <2>1. CASE u = x
      <3>1. n + 1 \in 1 .. n + 1 /\ \A j \in 1 .. n + 1 : ~ (j > n + 1)
        OBVIOUS
      <3> QED BY <1>2, <1>3, <1>6, <2>1, <3>1 DEF HeldFor
    <2>2. CASE u # x
      <3>1. s[u] = t[u] /\ f.entries[n + 1].uid # u
        BY <1>3, <1>6, <2>2
      <3>2. \A i \in 1 .. n + 1 : i \in 1 .. n \/ i = n + 1
        OBVIOUS
      <3>3. CASE t[u] = None /\ \A i \in 1 .. n : f.entries[i].uid # u
        BY <3>1, <3>2, <3>3 DEF HeldFor
      <3>4. ASSUME NEW i \in 1 .. n, f.entries[i].uid = u,
                   \A j \in 1 .. n : j > i => f.entries[j].uid # u,
                   t[u] = Migrate(f.version, f.entries[i].profile)
            PROVE  \E k \in 1 .. n + 1 :
                     /\ f.entries[k].uid = u
                     /\ \A j \in 1 .. n + 1 : j > k => f.entries[j].uid # u
                     /\ s[u] = Migrate(f.version, f.entries[k].profile)
        <4>1. i \in 1 .. n + 1
          OBVIOUS
        <4>2. \A j \in 1 .. n + 1 : j > i => f.entries[j].uid # u
          BY <3>1, <3>2, <3>4
        <4> QED BY <3>1, <3>4, <4>1, <4>2
      <3>5. HeldFor(f, n, t, u)
        BY DEF Holds
      <3> QED BY <3>3, <3>4, <3>5 DEF HeldFor
    <2> QED BY <2>1, <2>2
  <1>8. Holds(f, n + 1, s)
    BY <1>7 DEF Holds
  <1> QED BY <1>2, <1>3, <1>5, <1>8

\* The orders that a set may be written in.
LEMMA Ordered ==
  ASSUME NEW S, NEW s \in SetToSeqs(S)
  PROVE  /\ s \in [1 .. Cardinality(S) -> S]
         /\ \A i, j \in 1 .. Cardinality(S) : i # j => s[i] # s[j]
  BY DEF SetToSeqs

\* A function on 1 .. n is a sequence.
LEMMA FunctionSeq ==
  ASSUME NEW S, NEW n \in Nat, NEW q \in [1 .. n -> S]
  PROVE  q \in Seq(S) /\ Len(q) = n
  OBVIOUS

\* All profiles of the table, in any order, hold the table.
LEMMA SavedAll ==
  ASSUME NEW s \in SetToSeqs(Entries),
         IsFiniteSet(AppUids), table \in [AppUids -> Profile \cup {None}],
         NEW f, f.entries = s, f.version = FILE_FORMAT_VERSION
  PROVE  /\ s \in Seq([uid : AppUids, profile : Profile])
         /\ \A i \in 1 .. Len(s) : /\ s[i].uid \in AppUids /\ table[s[i].uid] # None
                                   /\ s[i].profile = table[s[i].uid]
         /\ Holds(f, Len(s), table)
  <1> DEFINE N == Cardinality(Entries)
             Used == {v \in AppUids : table[v] # None}
             Line(v) == [uid |-> v, profile |-> table[v]]
  <1>1. \A v \in Used : Line(v) \in Entries
    BY DEF Entries
  <1>2. \A e \in Entries : \E v \in Used : e = Line(v)
    BY DEF Entries
  <1>3. \A v \in Used : Line(v).uid = v /\ Line(v).profile = table[v]
    OBVIOUS
  <1>4. \A v \in Used : Line(v) \in [uid : AppUids, profile : Profile]
    OBVIOUS
  <1>5. Used \in SUBSET AppUids /\ \A v \in Used : table[v] \in Profile
    OBVIOUS
  <1>6. IsFiniteSet(Used)
    BY <1>5, FS_Subset
  <1> HIDE DEF Used, Entry
  <1>7. [v \in Used |-> Line(v)] \in Surjection(Used, Entries)
    BY <1>1, <1>2 DEF Surjection
  <1>8. IsFiniteSet(Entries)
    BY <1>6, <1>7, FS_Surjection
  <1>9. N \in Nat
    BY <1>8, FS_CardinalityType
  <1>10. s \in [1 .. N -> Entries] /\ \A i, j \in 1 .. N : i # j => s[i] # s[j]
    BY Ordered
  <1> HIDE DEF N
  <1>11. s \in Injection(1 .. N, Entries)
    BY <1>10 DEF Injection, IsInjective
  <1>12. Cardinality(1 .. N) = N
    BY <1>9, FS_Interval
  <1>13. s \in Surjection(1 .. N, Entries)
    BY <1>8, <1>11, <1>12, FS_Injection DEF N
  <1>14. \A e \in Entries : \E i \in 1 .. N : s[i] = e
    BY <1>13 DEF Surjection
  <1>15. s \in Seq(Entries) /\ Len(s) = N
    BY <1>9, <1>10, FunctionSeq
  <1>16. ASSUME NEW i \in 1 .. N
         PROVE  /\ s[i].uid \in Used /\ s[i].profile = table[s[i].uid]
                /\ s[i] = Line(s[i].uid)
                /\ s[i] \in [uid : AppUids, profile : Profile]
    <2>1. PICK v \in Used : s[i] = Line(v)
      BY <1>2, <1>10
    <2> QED BY <1>3, <1>4, <2>1
  <1>17. s \in [1 .. N -> [uid : AppUids, profile : Profile]]
    <2>1. \A i \in 1 .. N : s[i] \in [uid : AppUids, profile : Profile]
      BY <1>16
    <2> QED BY <1>10, <2>1
  <1>18. s \in Seq([uid : AppUids, profile : Profile])
    BY <1>9, <1>17, FunctionSeq
  <1>19. ASSUME NEW u \in AppUids
         PROVE  HeldFor(f, N, table, u)
    <2>1. CASE u \in Used
      <3>1. PICK i \in 1 .. N : s[i] = Line(u)
        BY <1>1, <1>14, <2>1
      <3>2. s[i].uid = u /\ s[i].profile = table[u]
        BY <1>3, <2>1, <3>1
      <3>3. ASSUME NEW j \in 1 .. N, j > i, s[j].uid = u
            PROVE  FALSE
        <4>1. s[j] = s[i]
          BY <1>16, <3>1, <3>3
        <4>2. j # i
          BY <1>9, <3>3
        <4> QED BY <1>10, <4>1, <4>2
      <3>4. Migrate(f.version, s[i].profile) = table[u]
        BY <1>5, <2>1, <3>2, Migrated
      <3> QED BY <3>2, <3>3, <3>4 DEF HeldFor
    <2>2. CASE u \notin Used
      <3>1. table[u] = None
        BY <2>2 DEF Used
      <3>2. \A i \in 1 .. N : s[i].uid # u
        BY <1>16, <2>2
      <3> QED BY <3>1, <3>2 DEF HeldFor
    <2> QED BY <2>1, <2>2
  <1>20. Holds(f, Len(s), table)
    BY <1>15, <1>19 DEF Holds
  <1>21. \A i \in 1 .. Len(s) : /\ s[i].uid \in AppUids /\ table[s[i].uid] # None
                                /\ s[i].profile = table[s[i].uid]
    BY <1>15, <1>16 DEF Used
  <1> QED BY <1>18, <1>20, <1>21

\* Some profiles of the table, in any order: each is the one of its uid.
LEMMA PartSaved ==
  ASSUME NEW written \in SUBSET Entries, NEW s \in SetToSeqs(written),
         IsFiniteSet(AppUids), table \in [AppUids -> Profile \cup {None}]
  PROVE  /\ s \in Seq([uid : AppUids, profile : Profile])
         /\ \A i \in 1 .. Len(s) : /\ s[i].uid \in AppUids /\ table[s[i].uid] # None
                                   /\ s[i].profile = table[s[i].uid]
  <1> DEFINE N == Cardinality(written)
             Used == {v \in AppUids : table[v] # None}
             Line(v) == [uid |-> v, profile |-> table[v]]
  <1>1. \A e \in Entries : \E v \in Used : e = Line(v)
    BY DEF Entries
  <1>2. \A v \in Used : Line(v) \in Entries
    BY DEF Entries
  <1>3. /\ \A v \in Used : Line(v).uid = v /\ Line(v).profile = table[v]
        /\ \A v \in Used : Line(v) \in [uid : AppUids, profile : Profile]
    OBVIOUS
  <1>4. IsFiniteSet(Used)
    BY FS_Subset
  <1>5. [v \in Used |-> Line(v)] \in Surjection(Used, Entries)
    BY <1>1, <1>2 DEF Surjection
  <1> HIDE DEF Used, Line
  <1>6. N \in Nat
    BY <1>4, <1>5, FS_Surjection, FS_Subset, FS_CardinalityType
  <1>7. s \in [1 .. N -> written]
    BY Ordered
  <1> HIDE DEF N
  <1>8. ASSUME NEW i \in 1 .. N
        PROVE  /\ s[i].uid \in Used /\ s[i].profile = table[s[i].uid]
               /\ s[i] \in [uid : AppUids, profile : Profile]
    <2>1. s[i] \in Entries
      BY <1>7
    <2>2. PICK v \in Used : s[i] = Line(v)
      BY <1>1, <2>1
    <2> QED BY <1>3, <2>2
  <1>9. s \in [1 .. N -> [uid : AppUids, profile : Profile]]
    BY <1>7, <1>8
  <1>10. s \in Seq([uid : AppUids, profile : Profile])
    BY <1>6, <1>9, FunctionSeq
  <1>11. Len(s) = N
    BY <1>6, <1>7, FunctionSeq
  <1>12. \A v \in Used : v \in AppUids /\ table[v] # None
    BY DEF Used
  <1>13. \A i \in 1 .. Len(s) : s[i].uid \in Used /\ s[i].profile = table[s[i].uid]
    BY <1>8, <1>11
  <1> QED BY <1>10, <1>12, <1>13

-----------------------------------------------------------------------------
(* Types, and the stages of a boot *)

\* Who saves has a loaded table.
LEMMA OnlyLoadedSaves ==
  ASSUME FileTypeOK, BootInv, ~Quiet
  PROVE  Loaded /\ loadPos = 0 /\ stage # "loading" /\ stage # "boot"
  BY DEF FileTypeOK, BootInv, Loaded

\* A write leaves a file, and files to survive it.
LEMMA Written ==
  ASSUME FileTypeOK, NEW f \in Files, WriteFile(f)
  PROVE  /\ file' = f /\ file' \in survivors' /\ survivors' \subseteq Files
         /\ \A g \in survivors' : g \in survivors \/ g \in CutOff(f)
  <1>1. file' = f /\ survivors' = survivors \cup CutOff(f)
    BY DEF WriteFile
  <1>2. f \in CutOff(f) /\ CutOff(f) \subseteq Files
    BY CutOffSelf, CutOffFiles
  <1>3. survivors \subseteq Files
    BY DEF FileTypeOK
  <1> QED BY <1>1, <1>2, <1>3

\* The header is a file without entries, complete or not.
LEMMA HeaderWritten ==
  ASSUME SaveHeader
  PROVE  \E f \in Files : WriteFile(f) /\ f.entries = <<>>
  <1>1. CASE WriteFile([NoFile EXCEPT !.magic = TRUE,
                                              !.version = FILE_FORMAT_VERSION])
    <2>1. PICK f : f = [NoFile EXCEPT !.magic = TRUE,
                                         !.version = FILE_FORMAT_VERSION]
      OBVIOUS
    <2>2. FILE_FORMAT_VERSION \in Nat
      BY DEF FILE_FORMAT_VERSION
    <2>3. f \in Files /\ f.entries = <<>>
      BY <2>1, <2>2, ShortFiles
    <2> QED BY <1>1, <2>1, <2>3
  <1>2. ASSUME NEW m \in BOOLEAN, WriteFile([NoFile EXCEPT !.magic = m])
        PROVE  \E f \in Files : WriteFile(f) /\ f.entries = <<>>
    <2>1. PICK f : f = [NoFile EXCEPT !.magic = m]
      OBVIOUS
    <2>2. f \in Files /\ f.entries = <<>>
      BY <2>1, ShortFiles
    <2> QED BY <1>2, <2>1, <2>2
  <1> QED BY <1>1, <1>2 DEF SaveHeader

\* The file that do_persistent_allow_list leaves with the profiles it wrote.
LEMMA EntriesWritten ==
  ASSUME FileTypeOK, HeaderInv, saver = "header",
         NEW written \in SUBSET Entries, NEW s \in SetToSeqs(written)
  PROVE  LET f == [file EXCEPT !.entries = s]
         IN  /\ f \in Files /\ Loadable(f)
             /\ \A x \in GivenBy(f) : \E u \in AppUids : table[u] # None /\ x = <<u, table[u]>>
             /\ written = Entries => Contents(f) = table
  <1>1. /\ file \in Files /\ table \in [AppUids -> Profile \cup {None}]
        /\ file.magic /\ file.version = FILE_FORMAT_VERSION
    BY DEF FileTypeOK, HeaderInv
  <1>2. IsFiniteSet(AppUids) /\ None \notin Profile
    BY FileAssumption
  <1>3. /\ s \in Seq([uid : AppUids, profile : Profile])
        /\ \A i \in 1 .. Len(s) : /\ s[i].uid \in AppUids /\ table[s[i].uid] # None
                                  /\ s[i].profile = table[s[i].uid]
    BY <1>1, <1>2, PartSaved
  <1>4. PICK f : f = [file EXCEPT !.entries = s]
    OBVIOUS
  <1>5. f \in Files /\ f.magic = file.magic /\ f.version = file.version /\ f.entries = s
    BY <1>1, <1>3, <1>4, OtherEntries
  <1>6. Loadable(f)
    BY <1>1, <1>5 DEF Loadable, FILE_FORMAT_VERSION
  <1>7. ASSUME NEW x \in GivenBy(f)
        PROVE  \E u \in AppUids : table[u] # None /\ x = <<u, table[u]>>
    <2>1. PICK i \in 1 .. Len(f.entries) :
            x = <<f.entries[i].uid, Migrate(f.version, f.entries[i].profile)>>
      BY DEF GivenBy
    <2>2. i \in 1 .. Len(s) /\ f.entries[i] = s[i]
      BY <1>5, <2>1
    <2>3. /\ s[i].uid \in AppUids /\ table[s[i].uid] # None
          /\ s[i].profile = table[s[i].uid] /\ s[i].profile \in Profile
      BY <1>1, <1>3, <2>2
    <2>4. Migrate(f.version, s[i].profile) = s[i].profile
      BY <1>1, <1>5, <2>3, Migrated
    <2> QED BY <2>1, <2>2, <2>3, <2>4
  <1>8. ASSUME written = Entries
        PROVE  Contents(f) = table
    <2>1. Holds(f, Len(f.entries), table)
      BY <1>1, <1>2, <1>5, <1>8, SavedAll
    <2> QED BY <1>1, <1>5, <1>6, <2>1, LoadedAll
  <1> QED BY <1>4, <1>5, <1>6, <1>7, <1>8

\* The table keeps its type.
LEMMA TableTypes ==
  ASSUME FileTypeOK, [FileNext]_savingVars
  PROVE  table' \in [AppUids -> Profile \cup {None}]
  <1>1. table \in [AppUids -> Profile \cup {None}] /\ file \in Files
    BY DEF FileTypeOK
  <1>2. CASE table' = table
    BY <1>1, <1>2
  <1>3. CASE LoadEntry /\ table' # table
    <2>1. table' = [table EXCEPT ![file.entries[loadPos + 1].uid] =
                      Migrate(file.version, file.entries[loadPos + 1].profile)]
      BY <1>3 DEF LoadEntry
    <2>2. loadPos + 1 \in 1 .. Len(file.entries)
      BY <1>3 DEF LoadEntry, FileTypeOK
    <2>3. file.entries[loadPos + 1].uid \in AppUids /\ file.entries[loadPos + 1].profile \in Profile
      BY <1>1, <2>2, FileParts
    <2>4. PICK p : p = Migrate(file.version, file.entries[loadPos + 1].profile)
      OBVIOUS
    <2>5. p \in Profile
      BY <2>3, <2>4, Migrated
    <2> QED BY <1>1, <2>1, <2>3, <2>4, <2>5
  <1>4. ASSUME NEW uid \in AppUids, NEW g \in Given, SetProfile(uid, g[1], g[2])
        PROVE  table' \in [AppUids -> Profile \cup {None}]
    <2>1. table' = [table EXCEPT ![uid] = Migrate(g[1], g[2])]
      BY <1>4 DEF SetProfile
    <2>2. g[2] \in Profile
      BY FileAssumption
    <2>3. PICK p : p = Migrate(g[1], g[2])
      OBVIOUS
    <2>4. p \in Profile
      BY <2>2, <2>3, Migrated
    <2> QED BY <1>1, <2>1, <2>3, <2>4
  <1>5. ASSUME NEW gone \in SUBSET AppUids, Prune(gone)
        PROVE  table' \in [AppUids -> Profile \cup {None}]
    BY <1>1, <1>5 DEF Prune
  <1>6. CASE Shutdown \/ Crash
    BY <1>6 DEF Shutdown, Crash, Reboot, EmptyTable
  <1>7. CASE \/ LoadOpen \/ LoadEnd \/ BootCompleted
             \/ (\E who \in {"loader", "manager", "pruner"} : Request(who))
             \/ SaveOpen \/ SaveHeader \/ SaveEntries \/ Writeback
             \/ UNCHANGED savingVars
    <2>1. table' = table
      BY <1>7 DEF LoadOpen, LoadEnd, BootCompleted, Request, SaveOpen,
           SaveHeader, SaveEntries, Writeback, savingVars, kernelVars
    <2> QED BY <1>2, <2>1
  <1> QED BY <1>2, <1>3, <1>4, <1>5, <1>6, <1>7 DEF FileNext

\* The file and what a crash may leave of it keep their types.
LEMMA FileTypes ==
  ASSUME FileTypeOK, HeaderInv, [FileNext]_savingVars
  PROVE  file' \in survivors' /\ survivors' \subseteq Files
  <1>1. file \in survivors /\ survivors \subseteq Files
    BY DEF FileTypeOK
  <1>2. CASE UNCHANGED fileVars
    BY <1>1, <1>2 DEF fileVars
  <1>3. CASE SaveOpen
    BY <1>2, <1>3, ShortFiles, Written DEF SaveOpen
  <1>4. CASE SaveHeader
    <2>1. PICK f \in Files : WriteFile(f)
      BY <1>4, HeaderWritten
    <2> QED BY <2>1, Written
  <1>5. CASE SaveEntries
    <2>1. saver = "header"
      BY <1>5 DEF SaveEntries
    <2>2. PICK written \in SUBSET Entries : \E s \in SetToSeqs(written) :
            WriteFile([file EXCEPT !.entries = s])
      BY <1>5 DEF SaveEntries
    <2>3. PICK s \in SetToSeqs(written) : WriteFile([file EXCEPT !.entries = s])
      BY <2>2
    <2>4. PICK f : f = [file EXCEPT !.entries = s]
      OBVIOUS
    <2>5. f \in Files
      BY <2>1, <2>4, EntriesWritten
    <2> QED BY <2>3, <2>4, <2>5, Written
  <1>6. CASE Writeback
    BY <1>1, <1>6 DEF Writeback
  <1>7. CASE Shutdown \/ Crash
    <2>1. \E f \in survivors : Reboot(f)
      BY <1>1, <1>7 DEF Shutdown, Crash
    <2> QED BY <1>1, <2>1 DEF Reboot
  <1>8. CASE \/ LoadOpen \/ LoadEntry \/ LoadEnd \/ BootCompleted
             \/ (\E uid \in AppUids, g \in Given : SetProfile(uid, g[1], g[2]))
             \/ (\E gone \in SUBSET AppUids : Prune(gone))
             \/ (\E who \in {"loader", "manager", "pruner"} : Request(who))
             \/ UNCHANGED savingVars
    <2>1. UNCHANGED fileVars
      BY <1>8 DEF LoadOpen, LoadEntry, LoadEnd, BootCompleted,
           SetProfile, Prune, Request, savingVars, fileVars
    <2> QED BY <1>2, <2>1
  <1> QED BY <1>3, <1>4, <1>5, <1>6, <1>7, <1>8 DEF FileNext

\* A reboot starts the kernel anew.
LEMMA RebootTypes ==
  ASSUME NEW f, Reboot(f), changes \in 0 .. MaxChanges, boots \in 0 .. MaxBoots,
         MaxBoots \in Nat
  PROVE  /\ stage' = "boot" /\ asking' = {} /\ pending' = 0 /\ saver' = "idle"
         /\ changes' \in 0 .. MaxChanges /\ boots' \in 0 .. MaxBoots
         /\ lost' = FALSE
  <1>1. boots < MaxBoots /\ boots' = boots + 1 /\ changes' = changes
    BY DEF Reboot
  <1>2. boots' \in 0 .. MaxBoots /\ changes' \in 0 .. MaxChanges
    BY <1>1
  <1> QED BY <1>2 DEF Reboot

\* The positions, counters and flags keep their types.
LEMMA RestTypes ==
  ASSUME FileTypeOK, [FileNext]_savingVars
  PROVE  /\ stage' \in {"boot", "loading", "running", "completed"}
         /\ asking' \subseteq {"loader", "manager", "pruner"}
         /\ pending' \in Nat
         /\ saver' \in {"idle", "opened", "header"}
         /\ changes' \in 0 .. MaxChanges /\ boots' \in 0 .. MaxBoots
         /\ lost' \in BOOLEAN
  <1>1. /\ stage \in {"boot", "loading", "running", "completed"}
        /\ asking \subseteq {"loader", "manager", "pruner"}
        /\ pending \in Nat
        /\ saver \in {"idle", "opened", "header"}
        /\ changes \in 0 .. MaxChanges /\ boots \in 0 .. MaxBoots
        /\ lost \in BOOLEAN /\ MaxChanges \in Nat /\ MaxBoots \in Nat
    BY FileAssumption DEF FileTypeOK
  <1> DEFINE Goal ==
        /\ stage' \in {"boot", "loading", "running", "completed"}
        /\ asking' \subseteq {"loader", "manager", "pruner"}
        /\ pending' \in Nat
        /\ saver' \in {"idle", "opened", "header"}
        /\ changes' \in 0 .. MaxChanges /\ boots' \in 0 .. MaxBoots
        /\ lost' \in BOOLEAN
  <1>2. ASSUME LoadOpen
        PROVE  Goal
    BY <1>1, <1>2 DEF LoadOpen, ForgetBefore, ghostVars
  <1>3. ASSUME LoadEntry
        PROVE  Goal
    BY <1>1, <1>3 DEF LoadEntry, ForgetBefore, ghostVars
  <1>4. ASSUME LoadEnd
        PROVE  Goal
    BY <1>1, <1>4 DEF LoadEnd, ForgetBefore, ghostVars
  <1>5. ASSUME BootCompleted
        PROVE  Goal
    BY <1>1, <1>5 DEF BootCompleted, ghostVars
  <1>6. ASSUME NEW uid \in AppUids, NEW g \in Given, SetProfile(uid, g[1], g[2])
        PROVE  Goal
    BY <1>1, <1>6 DEF SetProfile, ghostVars
  <1>7. ASSUME NEW gone \in SUBSET AppUids, Prune(gone)
        PROVE  Goal
    BY <1>1, <1>7 DEF Prune, ghostVars
  <1>8. ASSUME NEW who \in {"loader", "manager", "pruner"}, Request(who)
        PROVE  Goal
    <2>1. /\ UNCHANGED <<stage, saver, changes, boots>> /\ asking' = asking \ {who}
          /\ \/ pending' = pending + 1 /\ lost' = lost
             \/ pending' = pending /\ lost' = TRUE
      BY <1>8 DEF Request
    <2>2. pending' \in Nat
      BY <1>1, <2>1
    <2>3. lost' \in BOOLEAN
      BY <1>1, <2>1
    <2> QED BY <1>1, <2>1, <2>2, <2>3
  <1>9. ASSUME SaveOpen
        PROVE  Goal
    <2>1. /\ UNCHANGED <<stage, asking, changes, boots>>
          /\ pending > 0 /\ pending' = pending - 1
          /\ \/ saver' = "opened" /\ lost' = lost
             \/ saver' = saver /\ lost' = TRUE
      BY <1>9 DEF SaveOpen
    <2>2. pending' \in Nat
      BY <1>1, <2>1
    <2>3. saver' \in {"idle", "opened", "header"} /\ lost' \in BOOLEAN
      BY <1>1, <2>1
    <2> QED BY <1>1, <2>1, <2>2, <2>3
  <1>10. ASSUME SaveHeader
         PROVE  Goal
    BY <1>1, <1>10 DEF SaveHeader, ghostVars, WriteFile
  <1>11. ASSUME SaveEntries
         PROVE  Goal
    BY <1>1, <1>11 DEF SaveEntries, ghostVars
  <1>12. ASSUME Writeback
         PROVE  Goal
    BY <1>1, <1>12 DEF Writeback, kernelVars, ghostVars
  <1>13. ASSUME Shutdown
         PROVE  Goal
    <2>1. PICK f : Reboot(f)
      BY <1>13 DEF Shutdown
    <2>2. /\ stage' = "boot" /\ asking' = {} /\ pending' = 0 /\ saver' = "idle"
          /\ changes' \in 0 .. MaxChanges /\ boots' \in 0 .. MaxBoots /\ lost' = FALSE
      BY <1>1, <2>1, RebootTypes
    <2> QED BY <2>2
  <1>14. ASSUME Crash
         PROVE  Goal
    <2>1. PICK f : Reboot(f)
      BY <1>14 DEF Crash
    <2>2. /\ stage' = "boot" /\ asking' = {} /\ pending' = 0 /\ saver' = "idle"
          /\ changes' \in 0 .. MaxChanges /\ boots' \in 0 .. MaxBoots /\ lost' = FALSE
      BY <1>1, <2>1, RebootTypes
    <2> QED BY <2>2
  <1>15. ASSUME UNCHANGED savingVars
         PROVE  Goal
    BY <1>1, <1>15 DEF savingVars, kernelVars, fileVars, ghostVars
  <1> QED BY <1>2, <1>3, <1>4, <1>5, <1>6, <1>7, <1>8, <1>9, <1>10, <1>11, <1>12, <1>13, <1>14, <1>15 DEF FileNext

\* Nothing is read beyond the end of the file.
LEMMA LoadPosType ==
  ASSUME FileTypeOK, BootInv, HeaderInv, [FileNext]_savingVars
  PROVE  loadPos' \in 0 .. Len(file'.entries)
  <1>1. loadPos \in 0 .. Len(file.entries)
    BY DEF FileTypeOK
  <1>2. file' \in Files
    BY FileTypes
  <1>3. Len(file'.entries) \in Nat
    BY <1>2, FileParts
  <1>4. CASE UNCHANGED <<file, loadPos>>
    BY <1>1, <1>4
  <1>5. CASE loadPos' = 0
    BY <1>3, <1>5
  <1>6. CASE SaveOpen \/ SaveHeader \/ SaveEntries
    <2>1. ~Quiet /\ loadPos' = loadPos
      BY <1>6 DEF SaveOpen, SaveHeader, SaveEntries, Quiet
    <2> QED BY <1>5, <2>1, OnlyLoadedSaves
  <1>7. CASE LoadEntry
    <2>1. file' = file /\ loadPos' = loadPos + 1 /\ loadPos < Len(file.entries)
      BY <1>7 DEF LoadEntry, fileVars
    <2>2. Len(file.entries) \in Nat
      BY <1>3, <2>1
    <2> QED BY <1>1, <2>1, <2>2
  <1>8. CASE LoadEnd \/ Shutdown \/ Crash
    <2>1. loadPos' = 0
      BY <1>8 DEF LoadEnd, Shutdown, Crash, Reboot
    <2> QED BY <1>5, <2>1
  <1>9. CASE \/ LoadOpen \/ BootCompleted
             \/ (\E uid \in AppUids, g \in Given : SetProfile(uid, g[1], g[2]))
             \/ (\E gone \in SUBSET AppUids : Prune(gone))
             \/ (\E who \in {"loader", "manager", "pruner"} : Request(who))
             \/ Writeback \/ UNCHANGED savingVars
    <2>1. UNCHANGED <<file, loadPos>>
      BY <1>9 DEF LoadOpen, BootCompleted, SetProfile, Prune, Request,
           Writeback, savingVars, fileVars, kernelVars
    <2> QED BY <1>4, <2>1
  <1> QED BY <1>6, <1>7, <1>8, <1>9 DEF FileNext

\* A step keeps the order of a boot.
LEMMA BootStep ==
  ASSUME FileTypeOK, BootInv, [FileNext]_savingVars
  PROVE  BootInv'
  <1>1. /\ stage \in {"boot", "loading", "running", "completed"}
        /\ lost \in BOOLEAN
    BY DEF FileTypeOK
  <1>2. CASE LoadOpen
    <2>1. stage = "boot" /\ Quiet /\ loadPos = 0
      BY <1>2 DEF LoadOpen, BootInv, Loaded
    <2>2. loadPos' = loadPos /\ UNCHANGED <<asking, pending, saver, file>>
      BY <1>2 DEF LoadOpen, fileVars
    <2>3. CASE Loadable(file)
      <3>1. stage' \in {"loading", "running"}
        BY <1>2, <2>3 DEF LoadOpen
      <3> QED BY <2>1, <2>2, <2>3, <3>1 DEF BootInv, Loaded, Quiet
    <2>4. CASE ~Loadable(file)
      <3>1. stage' = "running"
        BY <1>2, <2>4 DEF LoadOpen
      <3> QED BY <2>1, <2>2, <3>1 DEF BootInv, Loaded, Quiet
    <2> QED BY <2>3, <2>4
  <1>3. CASE LoadEntry
    <2>1. /\ stage = "loading" /\ stage' = stage /\ UNCHANGED <<asking, pending, saver, file>>
      BY <1>3 DEF LoadEntry, fileVars
    <2> QED BY <2>1 DEF BootInv, Loaded, Quiet
  <1>4. CASE LoadEnd \/ BootCompleted
    <2>1. stage' \in {"running", "completed"} /\ loadPos' = 0
      BY <1>4 DEF LoadEnd, BootCompleted, BootInv
    <2> QED BY <2>1 DEF BootInv, Loaded
  <1>5. CASE /\ stage' = stage /\ loadPos' = loadPos
             /\ ~Quiet \/ stage \in {"running", "completed"}
    <2>1. stage \in {"running", "completed"} /\ loadPos = 0
      BY <1>1, <1>5 DEF BootInv, Loaded
    <2> QED BY <1>5, <2>1 DEF BootInv, Loaded
  <1>6. CASE \/ (\E uid \in AppUids, g \in Given : SetProfile(uid, g[1], g[2]))
             \/ (\E gone \in SUBSET AppUids : Prune(gone))
             \/ (\E who \in {"loader", "manager", "pruner"} : Request(who))
             \/ SaveOpen \/ SaveHeader \/ SaveEntries
    <2>1. /\ stage' = stage /\ loadPos' = loadPos
          /\ ~Quiet \/ stage \in {"running", "completed"}
      BY <1>6 DEF SetProfile, Prune, Request, SaveOpen, SaveHeader,
           SaveEntries, Quiet
    <2> QED BY <1>5, <2>1
  <1>7. CASE Shutdown \/ Crash
    <2>1. /\ stage' = "boot" /\ loadPos' = 0 /\ asking' = {} /\ pending' = 0 /\ saver' = "idle"
          /\ table' = EmptyTable /\ lost' = FALSE
      BY <1>7 DEF Shutdown, Crash, Reboot
    <2> QED BY <2>1 DEF BootInv, Loaded, Quiet, EmptyTable
  <1>8. CASE Writeback \/ UNCHANGED savingVars
    <2>1. UNCHANGED <<table, stage, loadPos, asking, pending, saver, file, lost>>
      BY <1>8 DEF Writeback, savingVars, kernelVars, fileVars, ghostVars
    <2> QED BY <2>1 DEF BootInv, Loaded, Quiet, EmptyTable, Loadable
  <1> QED BY <1>2, <1>3, <1>4, <1>6, <1>7, <1>8 DEF FileNext

\* A step keeps the header that was written.
LEMMA HeaderStep ==
  ASSUME FileTypeOK, BootInv, HeaderInv, [FileNext]_savingVars
  PROVE  HeaderInv'
  <1>1. CASE saver' # "header"
    BY <1>1 DEF HeaderInv
  <1>2. CASE UNCHANGED <<saver, file>>
    BY <1>2 DEF HeaderInv
  <1>3. CASE SaveOpen
    BY <1>1, <1>2, <1>3 DEF SaveOpen, fileVars
  <1>4. CASE SaveHeader
    <2>1. \/ saver' = "idle"
          \/ file' = [NoFile EXCEPT !.magic = TRUE, !.version = FILE_FORMAT_VERSION]
      BY <1>4 DEF SaveHeader, WriteFile
    <2>2. CASE file' = [NoFile EXCEPT !.magic = TRUE, !.version = FILE_FORMAT_VERSION]
      <3>1. FILE_FORMAT_VERSION \in Nat
        BY DEF FILE_FORMAT_VERSION
      <3> QED BY <2>2, <3>1, ShortFiles DEF HeaderInv
    <2> QED BY <1>1, <2>1, <2>2
  <1>5. CASE SaveEntries \/ Shutdown \/ Crash
    <2>1. saver' # "header"
      BY <1>5 DEF SaveEntries, Shutdown, Crash, Reboot
    <2> QED BY <1>1, <2>1
  <1>6. CASE \/ LoadOpen \/ LoadEntry \/ LoadEnd \/ BootCompleted
             \/ (\E uid \in AppUids, g \in Given : SetProfile(uid, g[1], g[2]))
             \/ (\E gone \in SUBSET AppUids : Prune(gone))
             \/ (\E who \in {"loader", "manager", "pruner"} : Request(who))
             \/ Writeback \/ UNCHANGED savingVars
    <2>1. UNCHANGED <<saver, file>>
      BY <1>6 DEF LoadOpen, LoadEntry, LoadEnd, BootCompleted, SetProfile,
           Prune, Request, Writeback, savingVars, fileVars, kernelVars
    <2> QED BY <1>2, <2>1
  <1> QED BY <1>3, <1>4, <1>5, <1>6 DEF FileNext

\* The file and its state machine keep their types.
LEMMA TypesStep ==
  ASSUME FileTypeOK, BootInv, HeaderInv, [FileNext]_savingVars
  PROVE  FileTypeOK'
  BY TableTypes, FileTypes, RestTypes, LoadPosType DEF FileTypeOK

-----------------------------------------------------------------------------
(* Loading and saving *)

\* A load that went well has the contents of the file when it ends.
LEMMA LoadDone ==
  ASSUME FileTypeOK, BootInv, LoadInv, stage = "loading", ~lost, loadPos = Len(file.entries)
  PROVE  Contents(file) = table
  <1>1. /\ file \in Files /\ Loadable(file)
        /\ table \in [AppUids -> Profile \cup {None}]
    BY DEF FileTypeOK, BootInv
  <1>2. Holds(file, Len(file.entries), table)
    BY DEF LoadInv
  <1> QED BY <1>1, <1>2, LoadedAll

\* A step keeps what a load has done.
LEMMA LoadStep ==
  ASSUME FileTypeOK, BootInv, LoadInv, [FileNext]_savingVars
  PROVE  LoadInv'
  <1>1. /\ file \in Files /\ table \in [AppUids -> Profile \cup {None}]
        /\ loadPos \in 0 .. Len(file.entries)
    BY DEF FileTypeOK
  <1>2. CASE stage' # "loading"
    BY <1>2 DEF LoadInv
  <1>3. CASE LoadOpen
    <2>1. loadPos = 0 /\ table = EmptyTable /\ UNCHANGED <<file, loadPos, table>>
      BY <1>3 DEF LoadOpen, BootInv, fileVars
    <2>2. \A u \in AppUids : EmptyTable[u] = None
      BY DEF EmptyTable
    <2>3. Holds(file, 0, table)
      BY <2>1, <2>2 DEF Holds, HeldFor
    <2> QED BY <2>1, <2>3 DEF LoadInv
  <1>4. CASE LoadEntry
    <2>1. CASE lost' = TRUE
      BY <2>1 DEF LoadInv
    <2>2. CASE lost' # TRUE
      <3>1. /\ stage = "loading" /\ loadPos < Len(file.entries) /\ loadPos' = loadPos + 1
            /\ table' = [table EXCEPT ![file.entries[loadPos + 1].uid] =
                           Migrate(file.version, file.entries[loadPos + 1].profile)]
            /\ UNCHANGED <<lost, file>>
        BY <1>4, <2>2 DEF LoadEntry, ForgetBefore, fileVars, ghostVars
      <3>2. CASE lost
        BY <3>1, <3>2 DEF LoadInv
      <3>3. CASE ~lost
        <4>1. Holds(file, loadPos, table)
          BY <3>1, <3>3 DEF LoadInv
        <4>2. loadPos \in Nat
          BY <1>1
        <4>3. Holds(file, loadPos + 1, table')
          BY <1>1, <3>1, <4>1, <4>2, LoadedOneMore
        <4> QED BY <3>1, <4>3 DEF LoadInv
      <3> QED BY <3>2, <3>3
    <2> QED BY <2>1, <2>2
  <1>5. CASE LoadEnd \/ BootCompleted \/ Shutdown \/ Crash
    <2>1. stage' # "loading"
      BY <1>5 DEF LoadEnd, BootCompleted, Shutdown, Crash, Reboot
    <2> QED BY <1>2, <2>1
  <1>6. CASE \/ (\E uid \in AppUids, g \in Given : SetProfile(uid, g[1], g[2]))
             \/ (\E gone \in SUBSET AppUids : Prune(gone))
             \/ (\E who \in {"loader", "manager", "pruner"} : Request(who))
             \/ SaveOpen \/ SaveHeader \/ SaveEntries
    <2>1. stage' = stage /\ (~Quiet \/ stage # "loading")
      BY <1>6 DEF SetProfile, Prune, Request, SaveOpen, SaveHeader,
           SaveEntries, Quiet
    <2> QED BY <1>2, <2>1, OnlyLoadedSaves
  <1>7. CASE Writeback \/ UNCHANGED savingVars
    <2>1. UNCHANGED <<table, stage, loadPos, file, lost>>
      BY <1>7 DEF Writeback, savingVars, kernelVars, fileVars, ghostVars
    <2> QED BY <2>1 DEF LoadInv
  <1> QED BY <1>3, <1>4, <1>5, <1>6, <1>7 DEF FileNext

\* A table that is not in the file stays on its way there.
LEMMA SaveStep ==
  ASSUME FileInv, [FileNext]_savingVars
  PROVE  SavedWhenQuiet'
  <1>1. FileTypeOK /\ BootInv /\ LoadInv /\ HeaderInv /\ SavedWhenQuiet
    BY DEF FileInv
  <1>2. CASE ~Loaded' \/ ~Quiet' \/ lost'
    BY <1>2 DEF SavedWhenQuiet
  <1>3. CASE Contents(file') = table'
    BY <1>3 DEF SavedWhenQuiet
  <1>4. CASE LoadOpen
    <2>1. CASE Loadable(file)
      <3>1. stage' = "loading" \/ lost'
        BY <1>4, <2>1 DEF LoadOpen, ForgetBefore
      <3> QED BY <1>2, <3>1 DEF Loaded
    <2>2. CASE ~Loadable(file)
      <3>1. table' = EmptyTable /\ file' = file
        BY <1>1, <1>4 DEF LoadOpen, BootInv, fileVars
      <3> QED BY <1>3, <2>2, <3>1, LoadedNone
    <2> QED BY <2>1, <2>2
  <1>5. CASE LoadEntry \/ Shutdown \/ Crash
    <2>1. stage' \in {"loading", "boot"}
      BY <1>5 DEF LoadEntry, Shutdown, Crash, Reboot
    <2> QED BY <1>2, <2>1 DEF Loaded
  <1>6. CASE LoadEnd
    <2>1. /\ stage = "loading" /\ UNCHANGED <<table, file>>
          /\ (loadPos = Len(file.entries) /\ lost' = lost) \/ lost' = TRUE
      BY <1>6 DEF LoadEnd, ForgetBefore, fileVars, ghostVars
    <2>2. CASE loadPos = Len(file.entries) /\ ~lost
      <3>1. Contents(file) = table
        BY <1>1, <2>1, <2>2, LoadDone
      <3> QED BY <1>3, <2>1, <3>1
    <2> QED BY <1>2, <2>1, <2>2
  <1>7. CASE \/ (\E uid \in AppUids, g \in Given : SetProfile(uid, g[1], g[2]))
             \/ (\E gone \in SUBSET AppUids : Prune(gone))
    <2>1. asking' # {}
      BY <1>7 DEF SetProfile, Prune
    <2> QED BY <1>2, <2>1 DEF Quiet
  <1>8. ASSUME NEW who \in {"loader", "manager", "pruner"}, Request(who)
        PROVE  SavedWhenQuiet'
    <2>1. pending' = pending + 1 \/ lost'
      BY <1>8 DEF Request
    <2>2. pending' = pending + 1 => pending' # 0
      BY <1>1 DEF FileTypeOK
    <2> QED BY <1>2, <2>1, <2>2 DEF Quiet
  <1>9. CASE SaveOpen \/ SaveHeader
    <2>1. saver' \in {"opened", "header"} \/ lost'
      BY <1>9 DEF SaveOpen, SaveHeader
    <2> QED BY <1>2, <2>1 DEF Quiet
  <1>10. CASE SaveEntries
    <2>1. saver = "header" /\ table' = table
      BY <1>10 DEF SaveEntries
    <2>2. PICK written \in SUBSET Entries : \E s \in SetToSeqs(written) :
            /\ file' = [file EXCEPT !.entries = s]
            /\ lost' = (written # Entries)
      BY <1>10 DEF SaveEntries, WriteFile
    <2>3. PICK s \in SetToSeqs(written) : /\ file' = [file EXCEPT !.entries = s]
                                          /\ lost' = (written # Entries)
      BY <2>2
    <2>4. written = Entries => Contents(file') = table
      BY <1>1, <2>1, <2>3, EntriesWritten
    <2>5. CASE written = Entries
      BY <1>3, <2>1, <2>4, <2>5
    <2>6. CASE written # Entries
      BY <1>2, <2>3, <2>6
    <2> QED BY <2>5, <2>6
  <1>11. CASE BootCompleted
    <2>1. Loaded /\ UNCHANGED <<table, asking, pending, saver, file, lost>>
      BY <1>11 DEF BootCompleted, fileVars, ghostVars, Loaded
    <2> QED BY <1>1, <2>1 DEF SavedWhenQuiet, Quiet
  <1>12. CASE Writeback \/ UNCHANGED savingVars
    <2>1. UNCHANGED <<table, stage, asking, pending, saver, file, lost>>
      BY <1>12 DEF Writeback, savingVars, kernelVars, fileVars, ghostVars
    <2> QED BY <1>1, <2>1 DEF SavedWhenQuiet, Quiet, Loaded
  <1> QED BY <1>4, <1>5, <1>6, <1>7, <1>8, <1>9, <1>10, <1>11, <1>12 DEF FileNext

\* A step keeps what is left of the table of the last shutdown.
LEMMA BeforeStep ==
  ASSUME FileInv, [FileNext]_savingVars
  PROVE  BeforeInv'
  <1>1. /\ FileTypeOK /\ BootInv /\ LoadInv /\ SavedWhenQuiet /\ BeforeInv
        /\ stage \in {"boot", "loading", "running", "completed"}
    BY DEF FileInv, FileTypeOK
  <1>2. CASE before' = <<>>
    BY <1>2 DEF BeforeInv
  <1>3. CASE Loaded' /\ table' = table /\ before' = before /\ Loaded
    BY <1>1, <1>3 DEF BeforeInv
  <1>4. CASE ~Loaded' /\ ~Loaded /\ UNCHANGED <<file, lost, before>>
    BY <1>1, <1>4 DEF BeforeInv
  <1>5. CASE Contents(file) = table /\ table' = table /\ before' = before
               /\ ~Loaded /\ Loaded'
    BY <1>1, <1>5 DEF BeforeInv
  <1>6. CASE LoadOpen
    <2>1. /\ ~Loaded /\ table = EmptyTable /\ UNCHANGED <<table, file>>
          /\ before' = <<>> \/ UNCHANGED <<lost, before>>
      BY <1>1, <1>6 DEF LoadOpen, ForgetBefore, Loaded, fileVars, ghostVars, BootInv
    <2>2. CASE Loadable(file)
      <3>1. ~Loaded' \/ before' = <<>>
        BY <1>6, <2>2 DEF LoadOpen, ForgetBefore, Loaded
      <3> QED BY <1>2, <1>4, <2>1, <3>1
    <2>3. CASE ~Loadable(file)
      <3>1. Loaded'
        BY <1>6, <2>3 DEF LoadOpen, Loaded
      <3>2. Contents(file) = table
        BY <2>1, <2>3, LoadedNone
      <3> QED BY <1>2, <1>5, <2>1, <3>1, <3>2
    <2> QED BY <2>2, <2>3
  <1>7. CASE LoadEntry
    <2>1. ~Loaded /\ ~Loaded' /\ file' = file
      BY <1>7 DEF LoadEntry, Loaded, fileVars
    <2>2. before' = <<>> \/ UNCHANGED <<lost, before>>
      BY <1>7 DEF LoadEntry, ForgetBefore, ghostVars
    <2> QED BY <1>2, <1>4, <2>1, <2>2
  <1>8. CASE LoadEnd
    <2>1. /\ stage = "loading" /\ ~Loaded /\ Loaded' /\ UNCHANGED <<table, file>>
          /\ (loadPos = Len(file.entries) /\ before' = before) \/ before' = <<>>
      BY <1>8 DEF LoadEnd, ForgetBefore, fileVars, ghostVars, Loaded
    <2>2. CASE before' = <<>>
      BY <1>2, <2>2
    <2>3. CASE loadPos = Len(file.entries) /\ before' = before /\ ~lost
      <3>1. Contents(file) = table
        BY <1>1, <2>1, <2>3, LoadDone
      <3> QED BY <1>5, <2>1, <2>3, <3>1
    <2>4. CASE before' = before /\ lost
      <3>1. before = <<>>
        BY <1>1, <2>1, <2>4 DEF BeforeInv
      <3> QED BY <1>2, <2>4, <3>1
    <2> QED BY <2>1, <2>2, <2>3, <2>4
  <1>9. CASE \/ (\E uid \in AppUids, g \in Given : SetProfile(uid, g[1], g[2]))
             \/ (\E gone \in SUBSET AppUids : Prune(gone))
             \/ Crash
    <2>1. before' = <<>>
      BY <1>9 DEF SetProfile, Prune, Crash
    <2> QED BY <1>2, <2>1
  <1>10. CASE \/ (\E who \in {"loader", "manager", "pruner"} : Request(who))
              \/ SaveOpen \/ SaveHeader \/ SaveEntries
    <2>1. ~Quiet /\ stage' = stage /\ UNCHANGED <<table, before>>
      BY <1>10 DEF Request, SaveOpen, SaveHeader, SaveEntries, Quiet
    <2>2. Loaded
      BY <1>1, <2>1, OnlyLoadedSaves
    <2>3. Loaded'
      BY <2>1, <2>2 DEF Loaded
    <2> QED BY <1>3, <2>1, <2>2, <2>3
  <1>11. CASE BootCompleted
    <2>1. Loaded /\ Loaded' /\ UNCHANGED <<table, before>>
      BY <1>11 DEF BootCompleted, Loaded, ghostVars
    <2> QED BY <1>3, <2>1
  <1>12. CASE Shutdown
    <2>1. /\ Loaded /\ Quiet /\ ~Loaded' /\ ~lost' /\ file' = file
          /\ before' = IF lost THEN <<>> ELSE <<table>>
      BY <1>12 DEF Shutdown, Reboot, Loaded
    <2>2. CASE ~lost
      <3>1. Contents(file) = table
        BY <1>1, <2>1, <2>2 DEF SavedWhenQuiet
      <3>2. before'[1] = table
        BY <2>1, <2>2
      <3> QED BY <2>1, <3>1, <3>2 DEF BeforeInv
    <2> QED BY <1>2, <2>1, <2>2
  <1>13. CASE Writeback \/ UNCHANGED savingVars
    <2>1. UNCHANGED <<table, stage, file, lost, before>>
      BY <1>13 DEF Writeback, savingVars, kernelVars, fileVars, ghostVars
    <2> QED BY <1>1, <2>1 DEF BeforeInv, Loaded
  <1> QED BY <1>6, <1>7, <1>8, <1>9, <1>10, <1>11, <1>12, <1>13 DEF FileNext

\* A write of what was given leaves nothing else to a crash.
LEMMA GivenAfterWrite ==
  ASSUME FileTypeOK, \A g \in survivors : GivenBy(g) \subseteq granted,
         NEW f \in Files, WriteFile(f), GivenBy(f) \subseteq granted
  PROVE  \A g \in survivors' : GivenBy(g) \subseteq granted
  <1>1. \A g \in survivors' : g \in survivors \/ g \in CutOff(f)
    BY Written
  <1>2. \A g \in CutOff(f) : GivenBy(g) \subseteq GivenBy(f)
    BY CutOffFiles
  <1> QED BY <1>1, <1>2

\* A step leaves nothing in a file that was not given.
LEMMA GivenStep ==
  ASSUME FileInv, [FileNext]_savingVars
  PROVE  \A f \in survivors' : GivenBy(f) \subseteq granted'
  <1>1. /\ FileTypeOK /\ HeaderInv /\ NothingInvented
        /\ \A f \in survivors : GivenBy(f) \subseteq granted
    BY DEF FileInv, GrantInv
  <1>2. file \in survivors
    BY <1>1 DEF FileTypeOK
  <1>3. CASE survivors' \subseteq survivors /\ granted \subseteq granted'
    BY <1>1, <1>3
  <1>4. CASE \E f \in Files :
               WriteFile(f) /\ GivenBy(f) \subseteq granted /\ granted' = granted
    BY <1>1, <1>4, GivenAfterWrite
  <1>5. CASE SaveOpen
    <2>1. granted' = granted /\ (WriteFile(NoFile) \/ survivors' = survivors)
      BY <1>5 DEF SaveOpen, fileVars
    <2>2. NoFile \in Files /\ GivenBy(NoFile) = {}
      BY ShortFiles, NothingGiven
    <2> QED BY <1>3, <1>4, <2>1, <2>2
  <1>6. CASE SaveHeader
    <2>1. PICK f \in Files : WriteFile(f) /\ f.entries = <<>>
      BY <1>6, HeaderWritten
    <2>2. GivenBy(f) = {}
      BY <2>1, NothingGiven
    <2>3. granted' = granted
      BY <1>6 DEF SaveHeader
    <2> QED BY <1>4, <2>1, <2>2, <2>3
  <1>7. CASE SaveEntries
    <2>1. saver = "header" /\ granted' = granted
      BY <1>7 DEF SaveEntries
    <2>2. PICK written \in SUBSET Entries : \E s \in SetToSeqs(written) :
            WriteFile([file EXCEPT !.entries = s])
      BY <1>7 DEF SaveEntries
    <2>3. PICK s \in SetToSeqs(written) : WriteFile([file EXCEPT !.entries = s])
      BY <2>2
    <2>4. PICK f : f = [file EXCEPT !.entries = s]
      OBVIOUS
    <2>5. /\ f \in Files
          /\ \A x \in GivenBy(f) : \E u \in AppUids : table[u] # None /\ x = <<u, table[u]>>
      BY <1>1, <2>1, <2>4, EntriesWritten
    <2>6. GivenBy(f) \subseteq granted
      BY <1>1, <2>5 DEF NothingInvented
    <2> QED BY <1>4, <2>1, <2>3, <2>4, <2>5, <2>6
  <1>8. CASE Writeback \/ Shutdown \/ Crash
    <2>1. survivors' \subseteq survivors /\ granted' = granted
      BY <1>2, <1>8 DEF Writeback, ghostVars, Shutdown, Crash, Reboot
    <2> QED BY <1>3, <2>1
  <1>9. CASE \/ LoadOpen \/ LoadEntry \/ LoadEnd \/ BootCompleted
             \/ (\E uid \in AppUids, g \in Given : SetProfile(uid, g[1], g[2]))
             \/ (\E gone \in SUBSET AppUids : Prune(gone))
             \/ (\E who \in {"loader", "manager", "pruner"} : Request(who))
             \/ UNCHANGED savingVars
    <2>1. survivors' = survivors /\ granted \subseteq granted'
      BY <1>9 DEF LoadOpen, LoadEntry, LoadEnd, ForgetBefore, BootCompleted,
           SetProfile, Prune, Request, savingVars, fileVars, ghostVars
    <2> QED BY <1>3, <2>1
  <1> QED BY <1>5, <1>6, <1>7, <1>8, <1>9 DEF FileNext

\* A step puts nothing into the table that was not given.
LEMMA InventedStep ==
  ASSUME FileInv, [FileNext]_savingVars
  PROVE  NothingInvented'
  <1>1. /\ FileTypeOK /\ BootInv /\ NothingInvented
        /\ \A f \in survivors : GivenBy(f) \subseteq granted
        /\ table \in [AppUids -> Profile \cup {None}]
    BY DEF FileInv, GrantInv, FileTypeOK
  <1>2. CASE granted \subseteq granted' /\ \A u \in AppUids :
               table'[u] # table[u] /\ table'[u] # None => <<u, table'[u]>> \in granted'
    BY <1>1, <1>2 DEF NothingInvented
  <1>3. CASE table' = table /\ granted' = granted
    BY <1>2, <1>3
  <1>4. CASE LoadEntry
    <2>1. PICK i : i = loadPos + 1
      OBVIOUS
    <2>2. /\ stage = "loading" /\ granted' = granted
          /\ \/ table' = [table EXCEPT ![file.entries[i].uid] =
                                         Migrate(file.version, file.entries[i].profile)]
             \/ table' = table
      BY <1>4, <2>1 DEF LoadEntry, ForgetBefore, ghostVars
    <2>3. i \in 1 .. Len(file.entries) /\ Loadable(file) /\ file \in survivors
      BY <1>1, <1>4, <2>1, <2>2 DEF LoadEntry, FileTypeOK, BootInv
    <2>4. PICK x : x = file.entries[i].uid
      OBVIOUS
    <2>5. PICK p : p = Migrate(file.version, file.entries[i].profile)
      OBVIOUS
    <2>6. <<x, p>> \in GivenBy(file)
      BY <2>3, <2>4, <2>5 DEF GivenBy
    <2>7. <<x, p>> \in granted
      BY <1>1, <2>3, <2>6
    <2>8. CASE table' = [table EXCEPT ![x] = p]
      <3>1. \A u \in AppUids : table'[u] # table[u] => u = x /\ table'[u] = p
        BY <1>1, <2>8
      <3> QED BY <1>2, <2>2, <2>7, <3>1
    <2> QED BY <1>3, <2>2, <2>4, <2>5, <2>8
  <1>5. ASSUME NEW uid \in AppUids, NEW g \in Given, SetProfile(uid, g[1], g[2])
        PROVE  NothingInvented'
    <2>1. PICK p : p = Migrate(g[1], g[2])
      OBVIOUS
    <2>2. table' = [table EXCEPT ![uid] = p] /\ granted' = granted \cup {<<uid, p>>}
      BY <1>5, <2>1 DEF SetProfile
    <2>3. \A u \in AppUids : table'[u] # table[u] => u = uid /\ table'[u] = p
      BY <1>1, <2>2
    <2> QED BY <1>2, <2>2, <2>3
  <1>6. ASSUME NEW gone \in SUBSET AppUids, Prune(gone)
        PROVE  NothingInvented'
    <2>1. granted' = granted /\ \A u \in AppUids : table'[u] # table[u] => table'[u] = None
      BY <1>1, <1>6 DEF Prune
    <2> QED BY <1>2, <2>1
  <1>7. CASE Shutdown \/ Crash
    <2>1. table' = EmptyTable
      BY <1>7 DEF Shutdown, Crash, Reboot
    <2>2. \A u \in AppUids : table'[u] = None
      BY <2>1 DEF EmptyTable
    <2> QED BY <2>2 DEF NothingInvented
  <1>8. CASE \/ LoadOpen \/ LoadEnd \/ BootCompleted
             \/ (\E who \in {"loader", "manager", "pruner"} : Request(who))
             \/ SaveOpen \/ SaveHeader \/ SaveEntries \/ Writeback
             \/ UNCHANGED savingVars
    <2>1. table' = table /\ granted' = granted
      BY <1>8 DEF LoadOpen, LoadEnd, ForgetBefore, BootCompleted, Request, SaveOpen,
           SaveHeader, SaveEntries, Writeback, savingVars, kernelVars,
           ghostVars
    <2> QED BY <1>3, <2>1
  <1> QED BY <1>4, <1>5, <1>6, <1>7, <1>8 DEF FileNext

-----------------------------------------------------------------------------
(* The invariant and what follows from it *)

\* The invariant holds at first.
LEMMA FileInitially ==
  ASSUME FileInit
  PROVE  FileInv
  <1>1. /\ file \in Files /\ survivors = {file} /\ MaxChanges \in Nat /\ MaxBoots \in Nat
        /\ table = EmptyTable /\ stage = "boot" /\ loadPos = 0 /\ asking = {}
        /\ pending = 0 /\ saver = "idle" /\ changes = 0 /\ boots = 0 /\ lost = FALSE
        /\ granted = GivenBy(file) /\ before = <<>>
    BY FileAssumption DEF FileInit
  <1>2. Len(file.entries) \in Nat
    BY <1>1, FileParts
  <1>3. FileTypeOK
    <2>1. table \in [AppUids -> Profile \cup {None}]
      BY <1>1 DEF EmptyTable
    <2>2. loadPos \in 0 .. Len(file.entries)
      BY <1>1, <1>2
    <2>3. changes \in 0 .. MaxChanges /\ boots \in 0 .. MaxBoots /\ pending \in Nat
      BY <1>1
    <2>4. asking \subseteq {"loader", "manager", "pruner"} /\ survivors \subseteq Files
            /\ file \in survivors
      BY <1>1
    <2> QED BY <1>1, <2>1, <2>2, <2>3, <2>4 DEF FileTypeOK
  <1>4. BootInv
    BY <1>1 DEF BootInv, Loaded, Quiet
  <1>5. LoadInv /\ HeaderInv /\ SavedWhenQuiet /\ BeforeInv
    BY <1>1 DEF LoadInv, HeaderInv, BeforeInv, SavedWhenQuiet, Loaded
  <1>6. GrantInv
    <2>1. \A u \in AppUids : table[u] = None
      BY <1>1 DEF EmptyTable
    <2> QED BY <1>1, <2>1 DEF GrantInv, NothingInvented
  <1> QED BY <1>3, <1>4, <1>5, <1>6 DEF FileInv

\* Every step keeps the invariant.
LEMMA FileStep ==
  ASSUME FileInv, [FileNext]_savingVars
  PROVE  FileInv'
  <1>1. FileTypeOK /\ BootInv /\ LoadInv /\ HeaderInv
    BY DEF FileInv
  <1>2. FileTypeOK' /\ BootInv' /\ LoadInv' /\ HeaderInv'
    BY <1>1, TypesStep, BootStep, LoadStep, HeaderStep
  <1>3. SavedWhenQuiet' /\ BeforeInv'
    BY SaveStep, BeforeStep
  <1>4. GrantInv'
    BY GivenStep, InventedStep DEF GrantInv
  <1> QED BY <1>2, <1>3, <1>4 DEF FileInv

\* The invariant holds in every behaviour.
LEMMA FileInvariant ==
  FileSpec => []FileInv
  <1>1. FileInit => FileInv
    BY FileInitially
  <1>2. FileInv /\ [FileNext]_savingVars => FileInv'
    BY FileStep
  <1> QED BY <1>1, <1>2, PTL DEF FileSpec

\* ksu_load_allow_list, do_persistent_allow_list and the changes of the table
\* keep the types; in particular a load stays within the file.
THEOREM FileTypeCorrect ==
  FileSpec => []FileTypeOK
  <1>1. FileInv => FileTypeOK
    BY DEF FileInv
  <1> QED BY <1>1, FileInvariant, PTL

\* For any uids, first file and number of changes and reboots: when
\* do_persistent_allow_list has nothing to do and nothing failed, the file has
\* the table.
THEOREM TheFileHasTheTable ==
  FileSpec => []SavedWhenQuiet
  <1>1. FileInv => SavedWhenQuiet
    BY DEF FileInv
  <1> QED BY <1>1, FileInvariant, PTL

\* A clean reboot brings the table back, whatever formats it went through.
THEOREM ACleanRebootKeepsTheTable ==
  FileSpec => []SurvivesReboot
  <1>1. FileInv => SurvivesReboot
    BY DEF FileInv, BeforeInv, SurvivesReboot
  <1> QED BY <1>1, FileInvariant, PTL

\* Whatever a crash leaves of the file, ksu_load_allow_list finds profiles in it
\* that were given for their uid.
THEOREM NoProfileIsInvented ==
  FileSpec => []NothingInvented
  <1>1. FileInv => NothingInvented
    BY DEF FileInv, GrantInv
  <1> QED BY <1>1, FileInvariant, PTL
=============================================================================
