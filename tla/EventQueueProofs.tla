-------------------------- MODULE EventQueueProofs --------------------------
(***************************************************************************)
(* Proofs about EventQueue, for any number of readers and producers, any   *)
(* queue limit and any sizes.                                              *)
(***************************************************************************)
EXTENDS EventQueue, FiniteSetTheorems, TLAPS

\* read_lock is held exactly by the thread that is inside its critical region.
LockInv ==
  /\ \A r \in Readers : read_lock = r <=> rpc[r] \notin {"idle", "lock"}
  /\ read_lock = Destroyer <=> dpc \in {"free", "unlock"}

\* The reader checked that the record it copies fits in what is left of the buffer.
RoomInv ==
  \A r \in Readers :
    /\ rpc[r] = "dropCopy" => count[r] >= RecordSize(InfoSize)
    /\ rpc[r] = "nodeCopy" => count[r] >= RecordSize(node[r].len)

\* First layer of the inductive invariant: types, mutual exclusion, the list.
ListInv == TypeOK /\ LockInv /\ RoomInv /\ PeekedNodeLinked /\ QueueBounded

\* Every record has a header, so no record is empty.
LEMMA SizesNat ==
  /\ RecordSize(InfoSize) \in Nat \ {0}
  /\ \A n \in Node : RecordSize(n.len) \in Nat \ {0}
  BY ConstantsAssumption DEF RecordSize, Node

\* Unlinking a node leaves a list of nodes that is one shorter.
LEMMA UnlinkType ==
  ASSUME NEW list \in Seq(Node), list # <<>>, NEW n
  PROVE  Unlink(list, n) \in Seq(Node) /\ Len(Unlink(list, n)) = Len(list) - 1
<1> DEFINE i == CHOOSE j \in 1 .. Len(list) : list[j] = n
           m == Len(list) - 1
<1>1. m \in Nat
  OBVIOUS
<1>2. \A j \in 1 .. m : list[j] \in Node /\ list[j + 1] \in Node
  OBVIOUS
<1>3. Unlink(list, n) = [j \in 1 .. m |-> IF j < i THEN list[j] ELSE list[j + 1]]
  BY DEF Unlink
<1>4. Unlink(list, n) \in [1 .. m -> Node]
  BY <1>2, <1>3
<1> QED
  BY <1>1, <1>4

\* ksu_event_queue_init establishes the first layer.
LEMMA ListInit == Init => ListInv
<1> SUFFICES ASSUME Init PROVE ListInv
  OBVIOUS
<1>1. NoNode \in Node /\ NoInfo \in Info
  BY DEF NoNode, NoInfo, Node, Info
<1>2. copied \in [Readers -> ReadResult] /\ rpc \in [Readers -> ReaderPC]
  BY DEF Init, ReadResult, ReaderPC
<1>3. closed \in BOOLEAN /\ nonblock \in [Readers -> BOOLEAN]
  BY DEF Init
<1>4. node \in [Readers -> Node] /\ info \in [Readers -> Info]
  BY <1>1 DEF Init
<1>5. pending \in Seq(Node) /\ out \in Seq(Entry)
  BY DEF Init
<1>6. TypeOK
  BY <1>2, <1>3, <1>4, <1>5 DEF Init, TypeOK
<1>7. LockInv /\ RoomInv /\ PeekedNodeLinked /\ QueueBounded
  BY ConstantsAssumption DEF Init, LockInv, RoomInv, PeekedNodeLinked, QueueBounded
<1> QED
  BY <1>6, <1>7 DEF ListInv

\* A push either only counts a drop or only appends a node to a list with room.
LEMMA PushCases ==
  ASSUME NEW p \in Producers, NEW len \in Lens, NEW allocated \in BOOLEAN,
         Push(p, len, allocated)
  PROVE  \/ NoteDropLocked(next_seq) /\ UNCHANGED <<pending, queued>>
         \/ ~Full /\ EnqueueLocked(next_seq, len) /\ UNCHANGED dropVars
  BY Zenon DEF Push

\* Types are preserved; the decrements rely on the whole layer.
LEMMA TypeStep == ListInv /\ [Next]_vars => TypeOK'
<1> SUFFICES ASSUME ListInv, [Next]_vars PROVE TypeOK'
  OBVIOUS
<1>1. ASSUME NEW p \in Producers, NEW len \in Lens, NEW allocated \in BOOLEAN,
             Push(p, len, allocated)
      PROVE  TypeOK'
  <2>0. \/ NoteDropLocked(next_seq) /\ UNCHANGED <<pending, queued>>
        \/ ~Full /\ EnqueueLocked(next_seq, len) /\ UNCHANGED dropVars
    BY <1>1, PushCases, Zenon
  <2>1. next_seq \in Nat /\ len \in Nat /\ pending \in Seq(Node)
    BY ConstantsAssumption DEF ListInv, TypeOK
  <2>2. [seq |-> next_seq, len |-> len] \in Node
    BY <2>1 DEF Node
  <2>3. Append(pending, [seq |-> next_seq, len |-> len]) \in Seq(Node)
    BY <2>1, <2>2
  <2>4. CASE NoteDropLocked(next_seq) /\ UNCHANGED <<pending, queued>>
    BY <1>1, <2>1, <2>4
       DEF Push, IssueSeq, NoteDropLocked, ListInv, TypeOK, inflightVars, localVars, ghostVars
  <2>5. CASE EnqueueLocked(next_seq, len) /\ UNCHANGED dropVars
    BY <1>1, <2>1, <2>3, <2>5
       DEF Push, IssueSeq, EnqueueLocked, ListInv, TypeOK, dropVars, inflightVars, localVars, ghostVars
  <2> QED
    BY <2>0, <2>4, <2>5
<1>2. ASSUME NEW p \in Producers, Drop(p)
      PROVE  TypeOK'
  BY <1>2, ConstantsAssumption DEF Drop, IssueSeq, NoteDropLocked, ListInv, TypeOK,
     ReaderPC, ReadResult, inflightVars, localVars, ghostVars
<1>3. ASSUME NEW p \in Producers, Close(p)
      PROVE  TypeOK'
  BY <1>3, ConstantsAssumption DEF Close, ListInv, TypeOK, ReaderPC, ReadResult,
     queueVars, dropVars, inflightVars, localVars, ghostVars
<1>4. ASSUME NEW p \in Producers, ProducerWake(p)
      PROVE  TypeOK'
  BY <1>4, ConstantsAssumption DEF ProducerWake, WakeReaders, ListInv, TypeOK, ReaderPC,
     ReadResult, queueVars, dropVars, inflightVars, localVars, ghostVars
<1>5. ASSUME NEW r \in Readers, NEW c \in Counts, NEW nb \in BOOLEAN, ReadCall(r, c, nb)
      PROVE  TypeOK'
  BY <1>5, ConstantsAssumption DEF ReadCall, Goto, At, ListInv, TypeOK, ReaderPC,
     ReadResult, queueVars, dropVars, inflightVars, syncVars, ghostVars
<1>6. ASSUME NEW r \in Readers, ReadLock(r)
      PROVE  TypeOK'
  BY <1>6, ConstantsAssumption DEF ReadLock, Goto, At, ListInv, TypeOK, ReaderPC,
     ReadResult, queueVars, dropVars, inflightVars, localVars, ghostVars
<1>7. ASSUME NEW r \in Readers, ReadLockInterrupted(r)
      PROVE  TypeOK'
  BY <1>7, ConstantsAssumption DEF ReadLockInterrupted, Goto, At, ListInv, TypeOK,
     ReaderPC, ReadResult, queueVars, dropVars, inflightVars, syncVars, ghostVars
<1>8. ASSUME NEW r \in Readers, WaitInterrupted(r)
      PROVE  TypeOK'
  BY <1>8, ConstantsAssumption DEF WaitInterrupted, FailRead, Goto, At, ListInv, TypeOK,
     ReaderPC, ReadResult, queueVars, dropVars, inflightVars, ghostVars
<1>9. ASSUME NEW r \in Readers, WaitHasData(r)
      PROVE  TypeOK'
  BY <1>9, ConstantsAssumption DEF WaitHasData, Goto, At, ListInv, TypeOK, ReaderPC,
     ReadResult, queueVars, dropVars, inflightVars, localVars, syncVars, ghostVars
<1>10. ASSUME NEW r \in Readers, WaitIsClosed(r)
      PROVE  TypeOK'
  BY <1>10, ConstantsAssumption DEF WaitIsClosed, FailRead, Goto, At, ListInv, TypeOK,
     ReaderPC, ReadResult, queueVars, dropVars, inflightVars, syncVars, ghostVars
<1>11. ASSUME NEW r \in Readers, WaitPrepare(r)
      PROVE  TypeOK'
  BY <1>11, ConstantsAssumption DEF WaitPrepare, Goto, At, ListInv, TypeOK, ReaderPC,
     ReadResult, queueVars, dropVars, inflightVars, localVars, ghostVars
<1>12. ASSUME NEW r \in Readers, WaitConditionClosed(r)
      PROVE  TypeOK'
  BY <1>12, ConstantsAssumption DEF WaitConditionClosed, WaitCondition, Goto, At,
     ListInv, TypeOK, ReaderPC, ReadResult, queueVars, dropVars, inflightVars, localVars,
     ghostVars
<1>13. ASSUME NEW r \in Readers, WaitConditionData(r)
      PROVE  TypeOK'
  BY <1>13, ConstantsAssumption DEF WaitConditionData, WaitCondition, Goto, At, ListInv,
     TypeOK, ReaderPC, ReadResult, queueVars, dropVars, inflightVars, localVars, ghostVars
<1>14. ASSUME NEW r \in Readers, WaitWoken(r)
      PROVE  TypeOK'
  BY <1>14, ConstantsAssumption DEF WaitWoken, Goto, At, ListInv, TypeOK, ReaderPC,
     ReadResult, queueVars, dropVars, inflightVars, localVars, syncVars, ghostVars
<1>15. ASSUME NEW r \in Readers, ReadDropNone(r)
      PROVE  TypeOK'
  BY <1>15, ConstantsAssumption DEF ReadDropNone, Goto, At, ListInv, TypeOK, ReaderPC,
     ReadResult, queueVars, dropVars, inflightVars, localVars, syncVars, ghostVars
<1>16. ASSUME NEW r \in Readers, ReadDropNoRoom(r)
      PROVE  TypeOK'
  BY <1>16, ConstantsAssumption DEF ReadDropNoRoom, FailRead, Fits, Goto, At, ListInv,
     TypeOK, ReaderPC, ReadResult, queueVars, dropVars, inflightVars, syncVars, ghostVars
<1>17. ASSUME NEW r \in Readers, ReadDropTake(r)
      PROVE  TypeOK'
  <2>1. [dropped |-> dropped_pending, first |-> dropped_first_seq,
         last |-> dropped_last_seq] \in Info
    BY DEF Info, ListInv, TypeOK
  <2>2. info' \in [Readers -> Info]
    BY <1>17, <2>1 DEF ReadDropTake, ListInv, TypeOK
  <2> QED
    BY <1>17, <2>2
       DEF ReadDropTake, Goto, At, ListInv, TypeOK, ReaderPC, queueVars, syncVars, ghostVars
<1>18. ASSUME NEW r \in Readers, ReadDropDone(r)
      PROVE  TypeOK'
  <2>1. NoInfo \in Info /\ info[r] \in Info
    BY DEF NoInfo, Info, ListInv, TypeOK
  <2>2. [dropped |-> info[r].dropped, first |-> info[r].first,
         last |-> info[r].last, seqs |-> lostInflight] \in Entry
    BY <2>1 DEF Info, Entry, ListInv, TypeOK
  <2>3. out' \in Seq(Entry) /\ info' \in [Readers -> Info]
    BY <1>18, <2>1, <2>2 DEF ReadDropDone, ListInv, TypeOK
  <2>4. count[r] - RecordSize(InfoSize) \in Nat
    BY <1>18, SizesNat DEF ReadDropDone, At, ListInv, TypeOK, RoomInv
  <2>5. count' \in [Readers -> Nat] /\ copied' \in [Readers -> ReadResult]
        /\ rpc' \in [Readers -> ReaderPC]
    BY <1>18, <2>4
       DEF ReadDropDone, CopiedRecord, Goto, ListInv, TypeOK, ReaderPC, ReadResult
  <2> QED
    BY <1>18, <2>3, <2>5
       DEF ReadDropDone, ClearInflight, ListInv, TypeOK, queueVars, dropVars, syncVars
<1>19. ASSUME NEW r \in Readers, ReadDropRestore(r)
      PROVE  TypeOK'
  <2>1. NoInfo \in Info
    BY DEF NoInfo, Info
  <2>2. info' \in [Readers -> Info] /\ copied' \in [Readers -> ReadResult]
        /\ rpc' \in [Readers -> ReaderPC]
    BY <1>19, <2>1
       DEF ReadDropRestore, RestoreInflight, FailRead, Goto, ListInv, TypeOK, ReaderPC, ReadResult
  <2> QED
    BY <1>19, <2>2
       DEF ReadDropRestore, RestoreInflight, ClearInflight, ListInv, TypeOK, queueVars, syncVars, ghostVars
<1>20. ASSUME NEW r \in Readers, ReadNodeEmpty(r)
      PROVE  TypeOK'
  BY <1>20, ConstantsAssumption DEF ReadNodeEmpty, Goto, At, ListInv, TypeOK, ReaderPC,
     ReadResult, queueVars, dropVars, inflightVars, localVars, syncVars, ghostVars
<1>21. ASSUME NEW r \in Readers, ReadNodeNoRoom(r)
      PROVE  TypeOK'
  BY <1>21, ConstantsAssumption DEF ReadNodeNoRoom, FailRead, Fits, Goto, At, ListInv,
     TypeOK, ReaderPC, ReadResult, queueVars, dropVars, inflightVars, syncVars, ghostVars
<1>22. ASSUME NEW r \in Readers, ReadNodePeek(r)
      PROVE  TypeOK'
  BY <1>22, ConstantsAssumption DEF ReadNodePeek, Fits, Goto, At, ListInv, TypeOK,
     ReaderPC, ReadResult, queueVars, dropVars, inflightVars, syncVars, ghostVars
<1>23. ASSUME NEW r \in Readers, ReadNodeDone(r)
      PROVE  TypeOK'
  <2>1. NoNode \in Node /\ node[r] \in Node /\ pending # <<>> /\ pending \in Seq(Node)
    BY <1>23 DEF ReadNodeDone, At, NoNode, Node, ListInv, TypeOK, PeekedNodeLinked
  <2>2. [dropped |-> 0, first |-> node[r].seq, last |-> node[r].seq,
         seqs |-> {node[r].seq}] \in Entry
    BY <2>1 DEF Node, Entry
  <2>3. out' \in Seq(Entry) /\ node' \in [Readers -> Node]
    BY <1>23, <2>1, <2>2 DEF ReadNodeDone, ListInv, TypeOK
  <2>4. pending' \in Seq(Node)
    BY <1>23, <2>1, UnlinkType DEF ReadNodeDone
  <2>5. queued' \in Nat
    BY <1>23, <2>1 DEF ReadNodeDone, ListInv, QueueBounded
  <2>6. count[r] - RecordSize(node[r].len) \in Nat
    BY <1>23, <2>1, SizesNat DEF ReadNodeDone, At, ListInv, TypeOK, RoomInv
  <2>7. count' \in [Readers -> Nat] /\ copied' \in [Readers -> ReadResult]
        /\ rpc' \in [Readers -> ReaderPC]
    BY <1>23, <2>6
       DEF ReadNodeDone, CopiedRecord, Goto, ListInv, TypeOK, ReaderPC, ReadResult
  <2> QED
    BY <1>23, <2>3, <2>4, <2>5, <2>7
       DEF ReadNodeDone, ListInv, TypeOK, dropVars, inflightVars, syncVars
<1>24. ASSUME NEW r \in Readers, ReadNodeFault(r)
      PROVE  TypeOK'
  <2>1. NoNode \in Node
    BY DEF NoNode, Node
  <2> QED
    BY <1>24, <2>1
       DEF ReadNodeFault, FailRead, Goto, At, ListInv, TypeOK, ReaderPC, ReadResult,
           queueVars, dropVars, inflightVars, syncVars, ghostVars
<1>25. ASSUME NEW r \in Readers, ReadUnlock(r)
      PROVE  TypeOK'
  BY <1>25, ConstantsAssumption DEF ReadUnlock, Goto, At, ListInv, TypeOK, ReaderPC,
     ReadResult, queueVars, dropVars, inflightVars, ghostVars
<1>26. CASE DestroyClose
  BY <1>26, ConstantsAssumption DEF DestroyClose, ListInv, TypeOK, ReaderPC, ReadResult,
     queueVars, dropVars, inflightVars, localVars, ghostVars
<1>27. CASE DestroyWake
  BY <1>27, ConstantsAssumption DEF DestroyWake, WakeReaders, ListInv, TypeOK, ReaderPC,
     ReadResult, queueVars, dropVars, inflightVars, localVars, ghostVars
<1>28. CASE DestroyLock
  BY <1>28, ConstantsAssumption DEF DestroyLock, ListInv, TypeOK, ReaderPC, ReadResult,
     queueVars, dropVars, inflightVars, localVars, ghostVars
<1>29. CASE DestroyFree
  <2>1. PendingSeqs \in SUBSET Nat
    <3>1. \A i \in DOMAIN pending : pending[i] \in Node
      BY DEF ListInv, TypeOK
    <3> QED
      BY <3>1 DEF PendingSeqs, Node
  <2> QED
    BY <1>29, <2>1 DEF DestroyFree, ClearInflight, ListInv, TypeOK, localVars
<1>30. CASE DestroyUnlock
  BY <1>30, ConstantsAssumption DEF DestroyUnlock, ListInv, TypeOK, ReaderPC,
     ReadResult, queueVars, dropVars, inflightVars, localVars, ghostVars
<1>31. CASE UNCHANGED vars
  BY <1>31 DEF vars, ListInv, TypeOK, ReaderPC, ReadResult, queueVars, dropVars,
     inflightVars, localVars, syncVars, ghostVars
<1> QED
  BY <1>1, <1>2, <1>3, <1>4, <1>5, <1>6, <1>7, <1>8, <1>9, <1>10, <1>11, <1>12, <1>13,
     <1>14, <1>15, <1>16, <1>17, <1>18, <1>19, <1>20, <1>21, <1>22, <1>23, <1>24, <1>25,
     <1>26, <1>27, <1>28, <1>29, <1>30, <1>31 DEF Next, ProducerNext, ReaderNext,
     ReaderStep, DestroyNext

\* Nobody takes or leaves read_lock without saying so.
LEMMA LockStep == TypeOK /\ LockInv /\ [Next]_vars => LockInv'
<1> SUFFICES ASSUME TypeOK, LockInv, [Next]_vars PROVE LockInv'
  OBVIOUS
<1>1. ASSUME NEW p \in Producers, NEW len \in Lens, NEW allocated \in BOOLEAN,
             Push(p, len, allocated)
      PROVE  LockInv'
  BY <1>1, ConstantsAssumption DEF Push, IssueSeq, NoteDropLocked, EnqueueLocked,
     TypeOK, LockInv, dropVars, inflightVars, localVars, ghostVars
<1>2. ASSUME NEW p \in Producers, Drop(p)
      PROVE  LockInv'
  BY <1>2, ConstantsAssumption DEF Drop, IssueSeq, NoteDropLocked, TypeOK, LockInv,
     inflightVars, localVars, ghostVars
<1>3. ASSUME NEW p \in Producers, Close(p)
      PROVE  LockInv'
  BY <1>3, ConstantsAssumption DEF Close, TypeOK, LockInv, queueVars, dropVars,
     inflightVars, localVars, ghostVars
<1>4. ASSUME NEW p \in Producers, ProducerWake(p)
      PROVE  LockInv'
  BY <1>4, ConstantsAssumption DEF ProducerWake, WakeReaders, TypeOK, LockInv,
     queueVars, dropVars, inflightVars, localVars, ghostVars
<1>5. ASSUME NEW r \in Readers, NEW c \in Counts, NEW nb \in BOOLEAN, ReadCall(r, c, nb)
      PROVE  LockInv'
  BY <1>5, ConstantsAssumption DEF ReadCall, Goto, At, TypeOK, LockInv, queueVars,
     dropVars, inflightVars, syncVars, ghostVars
<1>6. ASSUME NEW r \in Readers, ReadLock(r)
      PROVE  LockInv'
  BY <1>6, ConstantsAssumption DEF ReadLock, Goto, At, TypeOK, LockInv, queueVars,
     dropVars, inflightVars, localVars, ghostVars
<1>7. ASSUME NEW r \in Readers, ReadLockInterrupted(r)
      PROVE  LockInv'
  BY <1>7, ConstantsAssumption DEF ReadLockInterrupted, Goto, At, TypeOK, LockInv,
     queueVars, dropVars, inflightVars, syncVars, ghostVars
<1>8. ASSUME NEW r \in Readers, WaitInterrupted(r)
      PROVE  LockInv'
  BY <1>8, ConstantsAssumption DEF WaitInterrupted, FailRead, Goto, At, TypeOK, LockInv,
     queueVars, dropVars, inflightVars, ghostVars
<1>9. ASSUME NEW r \in Readers, WaitHasData(r)
      PROVE  LockInv'
  BY <1>9, ConstantsAssumption DEF WaitHasData, Goto, At, TypeOK, LockInv, queueVars,
     dropVars, inflightVars, localVars, syncVars, ghostVars
<1>10. ASSUME NEW r \in Readers, WaitIsClosed(r)
      PROVE  LockInv'
  BY <1>10, ConstantsAssumption DEF WaitIsClosed, FailRead, Goto, At, TypeOK, LockInv,
     queueVars, dropVars, inflightVars, syncVars, ghostVars
<1>11. ASSUME NEW r \in Readers, WaitPrepare(r)
      PROVE  LockInv'
  BY <1>11, ConstantsAssumption DEF WaitPrepare, Goto, At, TypeOK, LockInv, queueVars,
     dropVars, inflightVars, localVars, ghostVars
<1>12. ASSUME NEW r \in Readers, WaitConditionClosed(r)
      PROVE  LockInv'
  BY <1>12, ConstantsAssumption DEF WaitConditionClosed, WaitCondition, Goto, At,
     TypeOK, LockInv, queueVars, dropVars, inflightVars, localVars, ghostVars
<1>13. ASSUME NEW r \in Readers, WaitConditionData(r)
      PROVE  LockInv'
  BY <1>13, ConstantsAssumption DEF WaitConditionData, WaitCondition, Goto, At, TypeOK,
     LockInv, queueVars, dropVars, inflightVars, localVars, ghostVars
<1>14. ASSUME NEW r \in Readers, WaitWoken(r)
      PROVE  LockInv'
  BY <1>14, ConstantsAssumption DEF WaitWoken, Goto, At, TypeOK, LockInv, queueVars,
     dropVars, inflightVars, localVars, syncVars, ghostVars
<1>15. ASSUME NEW r \in Readers, ReadDropNone(r)
      PROVE  LockInv'
  BY <1>15, ConstantsAssumption DEF ReadDropNone, Goto, At, TypeOK, LockInv, queueVars,
     dropVars, inflightVars, localVars, syncVars, ghostVars
<1>16. ASSUME NEW r \in Readers, ReadDropNoRoom(r)
      PROVE  LockInv'
  BY <1>16, ConstantsAssumption DEF ReadDropNoRoom, FailRead, Fits, Goto, At, TypeOK,
     LockInv, queueVars, dropVars, inflightVars, syncVars, ghostVars
<1>17. ASSUME NEW r \in Readers, ReadDropTake(r)
      PROVE  LockInv'
  BY <1>17, ConstantsAssumption DEF ReadDropTake, Fits, Goto, At, TypeOK, LockInv,
     queueVars, syncVars, ghostVars
<1>18. ASSUME NEW r \in Readers, ReadDropDone(r)
      PROVE  LockInv'
  BY <1>18, ConstantsAssumption DEF ReadDropDone, ClearInflight, CopiedRecord, Goto, At,
     TypeOK, LockInv, queueVars, dropVars, syncVars
<1>19. ASSUME NEW r \in Readers, ReadDropRestore(r)
      PROVE  LockInv'
  BY <1>19, ConstantsAssumption DEF ReadDropRestore, RestoreInflight, ClearInflight,
     FailRead, Goto, At, TypeOK, LockInv, queueVars, syncVars, ghostVars
<1>20. ASSUME NEW r \in Readers, ReadNodeEmpty(r)
      PROVE  LockInv'
  BY <1>20, ConstantsAssumption DEF ReadNodeEmpty, Goto, At, TypeOK, LockInv, queueVars,
     dropVars, inflightVars, localVars, syncVars, ghostVars
<1>21. ASSUME NEW r \in Readers, ReadNodeNoRoom(r)
      PROVE  LockInv'
  BY <1>21, ConstantsAssumption DEF ReadNodeNoRoom, FailRead, Fits, Goto, At, TypeOK,
     LockInv, queueVars, dropVars, inflightVars, syncVars, ghostVars
<1>22. ASSUME NEW r \in Readers, ReadNodePeek(r)
      PROVE  LockInv'
  BY <1>22, ConstantsAssumption DEF ReadNodePeek, Fits, Goto, At, TypeOK, LockInv,
     queueVars, dropVars, inflightVars, syncVars, ghostVars
<1>23. ASSUME NEW r \in Readers, ReadNodeDone(r)
      PROVE  LockInv'
  BY <1>23, ConstantsAssumption DEF ReadNodeDone, CopiedRecord, Goto, At, TypeOK,
     LockInv, dropVars, inflightVars, syncVars
<1>24. ASSUME NEW r \in Readers, ReadNodeFault(r)
      PROVE  LockInv'
  BY <1>24, ConstantsAssumption DEF ReadNodeFault, FailRead, Goto, At, TypeOK, LockInv,
     queueVars, dropVars, inflightVars, syncVars, ghostVars
<1>25. ASSUME NEW r \in Readers, ReadUnlock(r)
      PROVE  LockInv'
  BY <1>25, ConstantsAssumption DEF ReadUnlock, Goto, At, TypeOK, LockInv, queueVars,
     dropVars, inflightVars, ghostVars
<1>26. CASE DestroyClose
  BY <1>26, ConstantsAssumption DEF DestroyClose, TypeOK, LockInv, queueVars, dropVars,
     inflightVars, localVars, ghostVars
<1>27. CASE DestroyWake
  BY <1>27, ConstantsAssumption DEF DestroyWake, WakeReaders, TypeOK, LockInv,
     queueVars, dropVars, inflightVars, localVars, ghostVars
<1>28. CASE DestroyLock
  BY <1>28, ConstantsAssumption DEF DestroyLock, TypeOK, LockInv, queueVars, dropVars,
     inflightVars, localVars, ghostVars
<1>29. CASE DestroyFree
  BY <1>29, ConstantsAssumption DEF DestroyFree, ClearInflight, TypeOK, LockInv,
     localVars
<1>30. CASE DestroyUnlock
  BY <1>30, ConstantsAssumption DEF DestroyUnlock, TypeOK, LockInv, queueVars, dropVars,
     inflightVars, localVars, ghostVars
<1>31. CASE UNCHANGED vars
  BY <1>31 DEF vars, TypeOK, LockInv, queueVars, dropVars, inflightVars, localVars,
     syncVars, ghostVars
<1> QED
  BY <1>1, <1>2, <1>3, <1>4, <1>5, <1>6, <1>7, <1>8, <1>9, <1>10, <1>11, <1>12, <1>13,
     <1>14, <1>15, <1>16, <1>17, <1>18, <1>19, <1>20, <1>21, <1>22, <1>23, <1>24, <1>25,
     <1>26, <1>27, <1>28, <1>29, <1>30, <1>31 DEF Next, ProducerNext, ReaderNext,
     ReaderStep, DestroyNext

\* The room found for a record is still there when it has been copied.
LEMMA RoomStep == TypeOK /\ LockInv /\ RoomInv /\ [Next]_vars => RoomInv'
<1> SUFFICES ASSUME TypeOK, LockInv, RoomInv, [Next]_vars PROVE RoomInv'
  OBVIOUS
<1>1. ASSUME NEW p \in Producers, NEW len \in Lens, NEW allocated \in BOOLEAN,
             Push(p, len, allocated)
      PROVE  RoomInv'
  BY <1>1, ConstantsAssumption DEF Push, IssueSeq, NoteDropLocked, EnqueueLocked,
     TypeOK, LockInv, RoomInv, dropVars, inflightVars, localVars, ghostVars
<1>2. ASSUME NEW p \in Producers, Drop(p)
      PROVE  RoomInv'
  BY <1>2, ConstantsAssumption DEF Drop, IssueSeq, NoteDropLocked, TypeOK, LockInv,
     RoomInv, inflightVars, localVars, ghostVars
<1>3. ASSUME NEW p \in Producers, Close(p)
      PROVE  RoomInv'
  BY <1>3, ConstantsAssumption DEF Close, TypeOK, LockInv, RoomInv, queueVars, dropVars,
     inflightVars, localVars, ghostVars
<1>4. ASSUME NEW p \in Producers, ProducerWake(p)
      PROVE  RoomInv'
  BY <1>4, ConstantsAssumption DEF ProducerWake, WakeReaders, TypeOK, LockInv, RoomInv,
     queueVars, dropVars, inflightVars, localVars, ghostVars
<1>5. ASSUME NEW r \in Readers, NEW c \in Counts, NEW nb \in BOOLEAN, ReadCall(r, c, nb)
      PROVE  RoomInv'
  BY <1>5, ConstantsAssumption DEF ReadCall, Goto, At, TypeOK, LockInv, RoomInv,
     queueVars, dropVars, inflightVars, syncVars, ghostVars
<1>6. ASSUME NEW r \in Readers, ReadLock(r)
      PROVE  RoomInv'
  BY <1>6, ConstantsAssumption DEF ReadLock, Goto, At, TypeOK, LockInv, RoomInv,
     queueVars, dropVars, inflightVars, localVars, ghostVars
<1>7. ASSUME NEW r \in Readers, ReadLockInterrupted(r)
      PROVE  RoomInv'
  BY <1>7, ConstantsAssumption DEF ReadLockInterrupted, Goto, At, TypeOK, LockInv,
     RoomInv, queueVars, dropVars, inflightVars, syncVars, ghostVars
<1>8. ASSUME NEW r \in Readers, WaitInterrupted(r)
      PROVE  RoomInv'
  BY <1>8, ConstantsAssumption DEF WaitInterrupted, FailRead, Goto, At, TypeOK, LockInv,
     RoomInv, queueVars, dropVars, inflightVars, ghostVars
<1>9. ASSUME NEW r \in Readers, WaitHasData(r)
      PROVE  RoomInv'
  BY <1>9, ConstantsAssumption DEF WaitHasData, Goto, At, TypeOK, LockInv, RoomInv,
     queueVars, dropVars, inflightVars, localVars, syncVars, ghostVars
<1>10. ASSUME NEW r \in Readers, WaitIsClosed(r)
      PROVE  RoomInv'
  BY <1>10, ConstantsAssumption DEF WaitIsClosed, FailRead, Goto, At, TypeOK, LockInv,
     RoomInv, queueVars, dropVars, inflightVars, syncVars, ghostVars
<1>11. ASSUME NEW r \in Readers, WaitPrepare(r)
      PROVE  RoomInv'
  BY <1>11, ConstantsAssumption DEF WaitPrepare, Goto, At, TypeOK, LockInv, RoomInv,
     queueVars, dropVars, inflightVars, localVars, ghostVars
<1>12. ASSUME NEW r \in Readers, WaitConditionClosed(r)
      PROVE  RoomInv'
  BY <1>12, ConstantsAssumption DEF WaitConditionClosed, WaitCondition, Goto, At,
     TypeOK, LockInv, RoomInv, queueVars, dropVars, inflightVars, localVars, ghostVars
<1>13. ASSUME NEW r \in Readers, WaitConditionData(r)
      PROVE  RoomInv'
  BY <1>13, ConstantsAssumption DEF WaitConditionData, WaitCondition, Goto, At, TypeOK,
     LockInv, RoomInv, queueVars, dropVars, inflightVars, localVars, ghostVars
<1>14. ASSUME NEW r \in Readers, WaitWoken(r)
      PROVE  RoomInv'
  BY <1>14, ConstantsAssumption DEF WaitWoken, Goto, At, TypeOK, LockInv, RoomInv,
     queueVars, dropVars, inflightVars, localVars, syncVars, ghostVars
<1>15. ASSUME NEW r \in Readers, ReadDropNone(r)
      PROVE  RoomInv'
  BY <1>15, ConstantsAssumption DEF ReadDropNone, Goto, At, TypeOK, LockInv, RoomInv,
     queueVars, dropVars, inflightVars, localVars, syncVars, ghostVars
<1>16. ASSUME NEW r \in Readers, ReadDropNoRoom(r)
      PROVE  RoomInv'
  BY <1>16, ConstantsAssumption DEF ReadDropNoRoom, FailRead, Fits, Goto, At, TypeOK,
     LockInv, RoomInv, queueVars, dropVars, inflightVars, syncVars, ghostVars
<1>17. ASSUME NEW r \in Readers, ReadDropTake(r)
      PROVE  RoomInv'
  BY <1>17, ConstantsAssumption DEF ReadDropTake, Fits, Goto, At, TypeOK, LockInv,
     RoomInv, queueVars, syncVars, ghostVars
<1>18. ASSUME NEW r \in Readers, ReadDropDone(r)
      PROVE  RoomInv'
  BY <1>18, ConstantsAssumption DEF ReadDropDone, ClearInflight, CopiedRecord, Goto, At,
     TypeOK, LockInv, RoomInv, queueVars, dropVars, syncVars
<1>19. ASSUME NEW r \in Readers, ReadDropRestore(r)
      PROVE  RoomInv'
  BY <1>19, ConstantsAssumption DEF ReadDropRestore, RestoreInflight, ClearInflight,
     FailRead, Goto, At, TypeOK, LockInv, RoomInv, queueVars, syncVars, ghostVars
<1>20. ASSUME NEW r \in Readers, ReadNodeEmpty(r)
      PROVE  RoomInv'
  BY <1>20, ConstantsAssumption DEF ReadNodeEmpty, Goto, At, TypeOK, LockInv, RoomInv,
     queueVars, dropVars, inflightVars, localVars, syncVars, ghostVars
<1>21. ASSUME NEW r \in Readers, ReadNodeNoRoom(r)
      PROVE  RoomInv'
  BY <1>21, ConstantsAssumption DEF ReadNodeNoRoom, FailRead, Fits, Goto, At, TypeOK,
     LockInv, RoomInv, queueVars, dropVars, inflightVars, syncVars, ghostVars
<1>22. ASSUME NEW r \in Readers, ReadNodePeek(r)
      PROVE  RoomInv'
  BY <1>22, ConstantsAssumption DEF ReadNodePeek, Fits, Goto, At, TypeOK, LockInv,
     RoomInv, queueVars, dropVars, inflightVars, syncVars, ghostVars
<1>23. ASSUME NEW r \in Readers, ReadNodeDone(r)
      PROVE  RoomInv'
  BY <1>23, ConstantsAssumption DEF ReadNodeDone, CopiedRecord, Goto, At, TypeOK,
     LockInv, RoomInv, dropVars, inflightVars, syncVars
<1>24. ASSUME NEW r \in Readers, ReadNodeFault(r)
      PROVE  RoomInv'
  BY <1>24, ConstantsAssumption DEF ReadNodeFault, FailRead, Goto, At, TypeOK, LockInv,
     RoomInv, queueVars, dropVars, inflightVars, syncVars, ghostVars
<1>25. ASSUME NEW r \in Readers, ReadUnlock(r)
      PROVE  RoomInv'
  BY <1>25, ConstantsAssumption DEF ReadUnlock, Goto, At, TypeOK, LockInv, RoomInv,
     queueVars, dropVars, inflightVars, ghostVars
<1>26. CASE DestroyClose
  BY <1>26, ConstantsAssumption DEF DestroyClose, TypeOK, LockInv, RoomInv, queueVars,
     dropVars, inflightVars, localVars, ghostVars
<1>27. CASE DestroyWake
  BY <1>27, ConstantsAssumption DEF DestroyWake, WakeReaders, TypeOK, LockInv, RoomInv,
     queueVars, dropVars, inflightVars, localVars, ghostVars
<1>28. CASE DestroyLock
  BY <1>28, ConstantsAssumption DEF DestroyLock, TypeOK, LockInv, RoomInv, queueVars,
     dropVars, inflightVars, localVars, ghostVars
<1>29. CASE DestroyFree
  BY <1>29, ConstantsAssumption DEF DestroyFree, ClearInflight, TypeOK, LockInv,
     RoomInv, localVars
<1>30. CASE DestroyUnlock
  BY <1>30, ConstantsAssumption DEF DestroyUnlock, TypeOK, LockInv, RoomInv, queueVars,
     dropVars, inflightVars, localVars, ghostVars
<1>31. CASE UNCHANGED vars
  BY <1>31 DEF vars, TypeOK, LockInv, RoomInv, queueVars, dropVars, inflightVars,
     localVars, syncVars, ghostVars
<1> QED
  BY <1>1, <1>2, <1>3, <1>4, <1>5, <1>6, <1>7, <1>8, <1>9, <1>10, <1>11, <1>12, <1>13,
     <1>14, <1>15, <1>16, <1>17, <1>18, <1>19, <1>20, <1>21, <1>22, <1>23, <1>24, <1>25,
     <1>26, <1>27, <1>28, <1>29, <1>30, <1>31 DEF Next, ProducerNext, ReaderNext,
     ReaderStep, DestroyNext

\* Nothing but its reader takes the peeked node off the list.
LEMMA PeekStep == TypeOK /\ LockInv /\ PeekedNodeLinked /\ [Next]_vars => PeekedNodeLinked'
<1> SUFFICES ASSUME TypeOK, LockInv, PeekedNodeLinked, [Next]_vars PROVE PeekedNodeLinked'
  OBVIOUS
<1>1. ASSUME NEW p \in Producers, NEW len \in Lens, NEW allocated \in BOOLEAN,
             Push(p, len, allocated)
      PROVE  PeekedNodeLinked'
  <2>0. \/ NoteDropLocked(next_seq) /\ UNCHANGED <<pending, queued>>
        \/ ~Full /\ EnqueueLocked(next_seq, len) /\ UNCHANGED dropVars
    BY <1>1, PushCases, Zenon
  <2>1. rpc' = rpc /\ node' = node
    BY <1>1 DEF Push, IssueSeq, localVars
  <2>2. ASSUME pending # <<>>
        PROVE  pending' # <<>> /\ Head(pending') = Head(pending)
    <3>1. CASE UNCHANGED pending
      BY <2>2, <3>1
    <3>2. CASE pending' = Append(pending, [seq |-> next_seq, len |-> len])
      BY <2>2, <3>2 DEF TypeOK
    <3> QED
      BY <2>0, <3>1, <3>2 DEF EnqueueLocked
  <2> QED
    BY <2>1, <2>2 DEF PeekedNodeLinked
<1>2. ASSUME NEW p \in Producers, Drop(p)
      PROVE  PeekedNodeLinked'
  BY <1>2, ConstantsAssumption DEF Drop, IssueSeq, NoteDropLocked, TypeOK, LockInv,
     PeekedNodeLinked, inflightVars, localVars, ghostVars
<1>3. ASSUME NEW p \in Producers, Close(p)
      PROVE  PeekedNodeLinked'
  BY <1>3, ConstantsAssumption DEF Close, TypeOK, LockInv, PeekedNodeLinked, queueVars,
     dropVars, inflightVars, localVars, ghostVars
<1>4. ASSUME NEW p \in Producers, ProducerWake(p)
      PROVE  PeekedNodeLinked'
  BY <1>4, ConstantsAssumption DEF ProducerWake, WakeReaders, TypeOK, LockInv,
     PeekedNodeLinked, queueVars, dropVars, inflightVars, localVars, ghostVars
<1>5. ASSUME NEW r \in Readers, NEW c \in Counts, NEW nb \in BOOLEAN, ReadCall(r, c, nb)
      PROVE  PeekedNodeLinked'
  BY <1>5, ConstantsAssumption DEF ReadCall, Goto, At, TypeOK, LockInv,
     PeekedNodeLinked, queueVars, dropVars, inflightVars, syncVars, ghostVars
<1>6. ASSUME NEW r \in Readers, ReadLock(r)
      PROVE  PeekedNodeLinked'
  BY <1>6, ConstantsAssumption DEF ReadLock, Goto, At, TypeOK, LockInv,
     PeekedNodeLinked, queueVars, dropVars, inflightVars, localVars, ghostVars
<1>7. ASSUME NEW r \in Readers, ReadLockInterrupted(r)
      PROVE  PeekedNodeLinked'
  BY <1>7, ConstantsAssumption DEF ReadLockInterrupted, Goto, At, TypeOK, LockInv,
     PeekedNodeLinked, queueVars, dropVars, inflightVars, syncVars, ghostVars
<1>8. ASSUME NEW r \in Readers, WaitInterrupted(r)
      PROVE  PeekedNodeLinked'
  BY <1>8, ConstantsAssumption DEF WaitInterrupted, FailRead, Goto, At, TypeOK, LockInv,
     PeekedNodeLinked, queueVars, dropVars, inflightVars, ghostVars
<1>9. ASSUME NEW r \in Readers, WaitHasData(r)
      PROVE  PeekedNodeLinked'
  BY <1>9, ConstantsAssumption DEF WaitHasData, Goto, At, TypeOK, LockInv,
     PeekedNodeLinked, queueVars, dropVars, inflightVars, localVars, syncVars, ghostVars
<1>10. ASSUME NEW r \in Readers, WaitIsClosed(r)
      PROVE  PeekedNodeLinked'
  BY <1>10, ConstantsAssumption DEF WaitIsClosed, FailRead, Goto, At, TypeOK, LockInv,
     PeekedNodeLinked, queueVars, dropVars, inflightVars, syncVars, ghostVars
<1>11. ASSUME NEW r \in Readers, WaitPrepare(r)
      PROVE  PeekedNodeLinked'
  BY <1>11, ConstantsAssumption DEF WaitPrepare, Goto, At, TypeOK, LockInv,
     PeekedNodeLinked, queueVars, dropVars, inflightVars, localVars, ghostVars
<1>12. ASSUME NEW r \in Readers, WaitConditionClosed(r)
      PROVE  PeekedNodeLinked'
  BY <1>12, ConstantsAssumption DEF WaitConditionClosed, WaitCondition, Goto, At,
     TypeOK, LockInv, PeekedNodeLinked, queueVars, dropVars, inflightVars, localVars,
     ghostVars
<1>13. ASSUME NEW r \in Readers, WaitConditionData(r)
      PROVE  PeekedNodeLinked'
  BY <1>13, ConstantsAssumption DEF WaitConditionData, WaitCondition, Goto, At, TypeOK,
     LockInv, PeekedNodeLinked, queueVars, dropVars, inflightVars, localVars, ghostVars
<1>14. ASSUME NEW r \in Readers, WaitWoken(r)
      PROVE  PeekedNodeLinked'
  BY <1>14, ConstantsAssumption DEF WaitWoken, Goto, At, TypeOK, LockInv,
     PeekedNodeLinked, queueVars, dropVars, inflightVars, localVars, syncVars, ghostVars
<1>15. ASSUME NEW r \in Readers, ReadDropNone(r)
      PROVE  PeekedNodeLinked'
  BY <1>15, ConstantsAssumption DEF ReadDropNone, Goto, At, TypeOK, LockInv,
     PeekedNodeLinked, queueVars, dropVars, inflightVars, localVars, syncVars, ghostVars
<1>16. ASSUME NEW r \in Readers, ReadDropNoRoom(r)
      PROVE  PeekedNodeLinked'
  BY <1>16, ConstantsAssumption DEF ReadDropNoRoom, FailRead, Fits, Goto, At, TypeOK,
     LockInv, PeekedNodeLinked, queueVars, dropVars, inflightVars, syncVars, ghostVars
<1>17. ASSUME NEW r \in Readers, ReadDropTake(r)
      PROVE  PeekedNodeLinked'
  BY <1>17, ConstantsAssumption DEF ReadDropTake, Fits, Goto, At, TypeOK, LockInv,
     PeekedNodeLinked, queueVars, syncVars, ghostVars
<1>18. ASSUME NEW r \in Readers, ReadDropDone(r)
      PROVE  PeekedNodeLinked'
  BY <1>18, ConstantsAssumption DEF ReadDropDone, ClearInflight, CopiedRecord, Goto, At,
     TypeOK, LockInv, PeekedNodeLinked, queueVars, dropVars, syncVars
<1>19. ASSUME NEW r \in Readers, ReadDropRestore(r)
      PROVE  PeekedNodeLinked'
  BY <1>19, ConstantsAssumption DEF ReadDropRestore, RestoreInflight, ClearInflight,
     FailRead, Goto, At, TypeOK, LockInv, PeekedNodeLinked, queueVars, syncVars, ghostVars
<1>20. ASSUME NEW r \in Readers, ReadNodeEmpty(r)
      PROVE  PeekedNodeLinked'
  BY <1>20, ConstantsAssumption DEF ReadNodeEmpty, Goto, At, TypeOK, LockInv,
     PeekedNodeLinked, queueVars, dropVars, inflightVars, localVars, syncVars, ghostVars
<1>21. ASSUME NEW r \in Readers, ReadNodeNoRoom(r)
      PROVE  PeekedNodeLinked'
  BY <1>21, ConstantsAssumption DEF ReadNodeNoRoom, FailRead, Fits, Goto, At, TypeOK,
     LockInv, PeekedNodeLinked, queueVars, dropVars, inflightVars, syncVars, ghostVars
<1>22. ASSUME NEW r \in Readers, ReadNodePeek(r)
      PROVE  PeekedNodeLinked'
  BY <1>22, ConstantsAssumption DEF ReadNodePeek, Fits, Goto, At, TypeOK, LockInv,
     PeekedNodeLinked, queueVars, dropVars, inflightVars, syncVars, ghostVars
<1>23. ASSUME NEW r \in Readers, ReadNodeDone(r)
      PROVE  PeekedNodeLinked'
  <2>1. \A q \in Readers : rpc'[q] # "nodeCopy"
    BY <1>23 DEF ReadNodeDone, CopiedRecord, Goto, At, TypeOK, LockInv
  <2> QED
    BY <2>1 DEF PeekedNodeLinked
<1>24. ASSUME NEW r \in Readers, ReadNodeFault(r)
      PROVE  PeekedNodeLinked'
  BY <1>24, ConstantsAssumption DEF ReadNodeFault, FailRead, Goto, At, TypeOK, LockInv,
     PeekedNodeLinked, queueVars, dropVars, inflightVars, syncVars, ghostVars
<1>25. ASSUME NEW r \in Readers, ReadUnlock(r)
      PROVE  PeekedNodeLinked'
  BY <1>25, ConstantsAssumption DEF ReadUnlock, Goto, At, TypeOK, LockInv,
     PeekedNodeLinked, queueVars, dropVars, inflightVars, ghostVars
<1>26. CASE DestroyClose
  BY <1>26, ConstantsAssumption DEF DestroyClose, TypeOK, LockInv, PeekedNodeLinked,
     queueVars, dropVars, inflightVars, localVars, ghostVars
<1>27. CASE DestroyWake
  BY <1>27, ConstantsAssumption DEF DestroyWake, WakeReaders, TypeOK, LockInv,
     PeekedNodeLinked, queueVars, dropVars, inflightVars, localVars, ghostVars
<1>28. CASE DestroyLock
  BY <1>28, ConstantsAssumption DEF DestroyLock, TypeOK, LockInv, PeekedNodeLinked,
     queueVars, dropVars, inflightVars, localVars, ghostVars
<1>29. CASE DestroyFree
  BY <1>29, ConstantsAssumption DEF DestroyFree, ClearInflight, TypeOK, LockInv,
     PeekedNodeLinked, localVars
<1>30. CASE DestroyUnlock
  BY <1>30, ConstantsAssumption DEF DestroyUnlock, TypeOK, LockInv, PeekedNodeLinked,
     queueVars, dropVars, inflightVars, localVars, ghostVars
<1>31. CASE UNCHANGED vars
  BY <1>31 DEF vars, TypeOK, LockInv, PeekedNodeLinked, queueVars, dropVars,
     inflightVars, localVars, syncVars, ghostVars
<1> QED
  BY <1>1, <1>2, <1>3, <1>4, <1>5, <1>6, <1>7, <1>8, <1>9, <1>10, <1>11, <1>12, <1>13,
     <1>14, <1>15, <1>16, <1>17, <1>18, <1>19, <1>20, <1>21, <1>22, <1>23, <1>24, <1>25,
     <1>26, <1>27, <1>28, <1>29, <1>30, <1>31 DEF Next, ProducerNext, ReaderNext,
     ReaderStep, DestroyNext

\* The list is counted and bounded.
LEMMA BoundStep == TypeOK /\ PeekedNodeLinked /\ QueueBounded /\ [Next]_vars => QueueBounded'
<1> SUFFICES ASSUME TypeOK, PeekedNodeLinked, QueueBounded, [Next]_vars PROVE QueueBounded'
  OBVIOUS
<1>1. ASSUME NEW p \in Producers, NEW len \in Lens, NEW allocated \in BOOLEAN,
             Push(p, len, allocated)
      PROVE  QueueBounded'
  <2>0. \/ NoteDropLocked(next_seq) /\ UNCHANGED <<pending, queued>>
        \/ ~Full /\ EnqueueLocked(next_seq, len) /\ UNCHANGED dropVars
    BY <1>1, PushCases, Zenon
  <2> QED
    BY <2>0, ConstantsAssumption DEF EnqueueLocked, Full, QueueBounded, TypeOK
<1>2. ASSUME NEW p \in Producers, Drop(p)
      PROVE  QueueBounded'
  BY <1>2, ConstantsAssumption DEF Drop, IssueSeq, NoteDropLocked, TypeOK, QueueBounded,
     inflightVars, localVars, ghostVars
<1>3. ASSUME NEW p \in Producers, Close(p)
      PROVE  QueueBounded'
  BY <1>3, ConstantsAssumption DEF Close, TypeOK, QueueBounded, queueVars, dropVars,
     inflightVars, localVars, ghostVars
<1>4. ASSUME NEW p \in Producers, ProducerWake(p)
      PROVE  QueueBounded'
  BY <1>4, ConstantsAssumption DEF ProducerWake, WakeReaders, TypeOK, QueueBounded,
     queueVars, dropVars, inflightVars, localVars, ghostVars
<1>5. ASSUME NEW r \in Readers, NEW c \in Counts, NEW nb \in BOOLEAN, ReadCall(r, c, nb)
      PROVE  QueueBounded'
  BY <1>5, ConstantsAssumption DEF ReadCall, Goto, At, TypeOK, QueueBounded, queueVars,
     dropVars, inflightVars, syncVars, ghostVars
<1>6. ASSUME NEW r \in Readers, ReadLock(r)
      PROVE  QueueBounded'
  BY <1>6, ConstantsAssumption DEF ReadLock, Goto, At, TypeOK, QueueBounded, queueVars,
     dropVars, inflightVars, localVars, ghostVars
<1>7. ASSUME NEW r \in Readers, ReadLockInterrupted(r)
      PROVE  QueueBounded'
  BY <1>7, ConstantsAssumption DEF ReadLockInterrupted, Goto, At, TypeOK, QueueBounded,
     queueVars, dropVars, inflightVars, syncVars, ghostVars
<1>8. ASSUME NEW r \in Readers, WaitInterrupted(r)
      PROVE  QueueBounded'
  BY <1>8, ConstantsAssumption DEF WaitInterrupted, FailRead, Goto, At, TypeOK,
     QueueBounded, queueVars, dropVars, inflightVars, ghostVars
<1>9. ASSUME NEW r \in Readers, WaitHasData(r)
      PROVE  QueueBounded'
  BY <1>9, ConstantsAssumption DEF WaitHasData, Goto, At, TypeOK, QueueBounded,
     queueVars, dropVars, inflightVars, localVars, syncVars, ghostVars
<1>10. ASSUME NEW r \in Readers, WaitIsClosed(r)
      PROVE  QueueBounded'
  BY <1>10, ConstantsAssumption DEF WaitIsClosed, FailRead, Goto, At, TypeOK,
     QueueBounded, queueVars, dropVars, inflightVars, syncVars, ghostVars
<1>11. ASSUME NEW r \in Readers, WaitPrepare(r)
      PROVE  QueueBounded'
  BY <1>11, ConstantsAssumption DEF WaitPrepare, Goto, At, TypeOK, QueueBounded,
     queueVars, dropVars, inflightVars, localVars, ghostVars
<1>12. ASSUME NEW r \in Readers, WaitConditionClosed(r)
      PROVE  QueueBounded'
  BY <1>12, ConstantsAssumption DEF WaitConditionClosed, WaitCondition, Goto, At,
     TypeOK, QueueBounded, queueVars, dropVars, inflightVars, localVars, ghostVars
<1>13. ASSUME NEW r \in Readers, WaitConditionData(r)
      PROVE  QueueBounded'
  BY <1>13, ConstantsAssumption DEF WaitConditionData, WaitCondition, Goto, At, TypeOK,
     QueueBounded, queueVars, dropVars, inflightVars, localVars, ghostVars
<1>14. ASSUME NEW r \in Readers, WaitWoken(r)
      PROVE  QueueBounded'
  BY <1>14, ConstantsAssumption DEF WaitWoken, Goto, At, TypeOK, QueueBounded,
     queueVars, dropVars, inflightVars, localVars, syncVars, ghostVars
<1>15. ASSUME NEW r \in Readers, ReadDropNone(r)
      PROVE  QueueBounded'
  BY <1>15, ConstantsAssumption DEF ReadDropNone, Goto, At, TypeOK, QueueBounded,
     queueVars, dropVars, inflightVars, localVars, syncVars, ghostVars
<1>16. ASSUME NEW r \in Readers, ReadDropNoRoom(r)
      PROVE  QueueBounded'
  BY <1>16, ConstantsAssumption DEF ReadDropNoRoom, FailRead, Fits, Goto, At, TypeOK,
     QueueBounded, queueVars, dropVars, inflightVars, syncVars, ghostVars
<1>17. ASSUME NEW r \in Readers, ReadDropTake(r)
      PROVE  QueueBounded'
  BY <1>17, ConstantsAssumption DEF ReadDropTake, Fits, Goto, At, TypeOK, QueueBounded,
     queueVars, syncVars, ghostVars
<1>18. ASSUME NEW r \in Readers, ReadDropDone(r)
      PROVE  QueueBounded'
  BY <1>18, ConstantsAssumption DEF ReadDropDone, ClearInflight, CopiedRecord, Goto, At,
     TypeOK, QueueBounded, queueVars, dropVars, syncVars
<1>19. ASSUME NEW r \in Readers, ReadDropRestore(r)
      PROVE  QueueBounded'
  BY <1>19, ConstantsAssumption DEF ReadDropRestore, RestoreInflight, ClearInflight,
     FailRead, Goto, At, TypeOK, QueueBounded, queueVars, syncVars, ghostVars
<1>20. ASSUME NEW r \in Readers, ReadNodeEmpty(r)
      PROVE  QueueBounded'
  BY <1>20, ConstantsAssumption DEF ReadNodeEmpty, Goto, At, TypeOK, QueueBounded,
     queueVars, dropVars, inflightVars, localVars, syncVars, ghostVars
<1>21. ASSUME NEW r \in Readers, ReadNodeNoRoom(r)
      PROVE  QueueBounded'
  BY <1>21, ConstantsAssumption DEF ReadNodeNoRoom, FailRead, Fits, Goto, At, TypeOK,
     QueueBounded, queueVars, dropVars, inflightVars, syncVars, ghostVars
<1>22. ASSUME NEW r \in Readers, ReadNodePeek(r)
      PROVE  QueueBounded'
  BY <1>22, ConstantsAssumption DEF ReadNodePeek, Fits, Goto, At, TypeOK, QueueBounded,
     queueVars, dropVars, inflightVars, syncVars, ghostVars
<1>23. ASSUME NEW r \in Readers, ReadNodeDone(r)
      PROVE  QueueBounded'
  <2>1. pending # <<>> /\ pending \in Seq(Node)
    BY <1>23 DEF ReadNodeDone, At, TypeOK, PeekedNodeLinked
  <2>2. Len(pending') = Len(pending) - 1
    BY <1>23, <2>1, UnlinkType DEF ReadNodeDone
  <2> QED
    BY <1>23, <2>1, <2>2, ConstantsAssumption DEF ReadNodeDone, TypeOK, QueueBounded
<1>24. ASSUME NEW r \in Readers, ReadNodeFault(r)
      PROVE  QueueBounded'
  BY <1>24, ConstantsAssumption DEF ReadNodeFault, FailRead, Goto, At, TypeOK,
     QueueBounded, queueVars, dropVars, inflightVars, syncVars, ghostVars
<1>25. ASSUME NEW r \in Readers, ReadUnlock(r)
      PROVE  QueueBounded'
  BY <1>25, ConstantsAssumption DEF ReadUnlock, Goto, At, TypeOK, QueueBounded,
     queueVars, dropVars, inflightVars, ghostVars
<1>26. CASE DestroyClose
  BY <1>26, ConstantsAssumption DEF DestroyClose, TypeOK, QueueBounded, queueVars,
     dropVars, inflightVars, localVars, ghostVars
<1>27. CASE DestroyWake
  BY <1>27, ConstantsAssumption DEF DestroyWake, WakeReaders, TypeOK, QueueBounded,
     queueVars, dropVars, inflightVars, localVars, ghostVars
<1>28. CASE DestroyLock
  BY <1>28, ConstantsAssumption DEF DestroyLock, TypeOK, QueueBounded, queueVars,
     dropVars, inflightVars, localVars, ghostVars
<1>29. CASE DestroyFree
  BY <1>29, ConstantsAssumption DEF DestroyFree, ClearInflight, TypeOK, QueueBounded,
     localVars
<1>30. CASE DestroyUnlock
  BY <1>30, ConstantsAssumption DEF DestroyUnlock, TypeOK, QueueBounded, queueVars,
     dropVars, inflightVars, localVars, ghostVars
<1>31. CASE UNCHANGED vars
  BY <1>31 DEF vars, TypeOK, QueueBounded, queueVars, dropVars, inflightVars, localVars,
     syncVars, ghostVars
<1> QED
  BY <1>1, <1>2, <1>3, <1>4, <1>5, <1>6, <1>7, <1>8, <1>9, <1>10, <1>11, <1>12, <1>13,
     <1>14, <1>15, <1>16, <1>17, <1>18, <1>19, <1>20, <1>21, <1>22, <1>23, <1>24, <1>25,
     <1>26, <1>27, <1>28, <1>29, <1>30, <1>31 DEF Next, ProducerNext, ReaderNext,
     ReaderStep, DestroyNext

\* The first layer is an invariant of event_queue.c.
THEOREM ListInvariant == Spec => []ListInv
<1>1. ListInv /\ [Next]_vars => ListInv'
  BY TypeStep, LockStep, RoomStep, PeekStep, BoundStep DEF ListInv
<1> QED
  BY <1>1, ListInit, PTL DEF Spec

\* The fields and locals of ksu_event_queue.c keep their types: no counter of the
\* queue and no remaining buffer size goes below zero.
THEOREM TypeCorrect == Spec => []TypeOK
  BY ListInvariant, PTL DEF ListInv

\* The node that ksu_event_queue_read_node copies outside queue->lock is the head
\* of the list until its reader unlinks it.
THEOREM PeekedNodeIsSafe == Spec => []PeekedNodeLinked
  BY ListInvariant, PTL DEF ListInv

\* queued is the length of the list and never exceeds max_queued.
THEOREM QueueIsBounded == Spec => []QueueBounded
  BY ListInvariant, PTL DEF ListInv

-----------------------------------------------------------------------------
(* Lemmas about drop counters *)

\* Counters at zero stand for no drops, whatever range is left in them.
LEMMA CountersEmpty == ASSUME NEW f, NEW l PROVE CountersOf(0, f, l, {})
  BY FS_EmptySet DEF CountersOf

\* A counter is zero exactly when there is nothing behind it.
LEMMA CountersZero ==
  ASSUME NEW n, NEW f, NEW l, NEW S, CountersOf(n, f, l, S)
  PROVE  n = 0 <=> S = {}
  BY FS_EmptySet DEF CountersOf

\* Noting the drop of an event later than all others keeps the counters exact.
LEMMA CountersAdd ==
  ASSUME NEW n, NEW f, NEW l, NEW S \in SUBSET Nat, CountersOf(n, f, l, S),
         NEW x \in Nat, \A s \in S : s < x
  PROVE  CountersOf(n + 1, IF n = 0 THEN x ELSE f, x, S \cup {x})
<1>1. x \notin S
  OBVIOUS
<1>2. IsFiniteSet(S \cup {x}) /\ Cardinality(S \cup {x}) = n + 1
  BY <1>1, FS_AddElement DEF CountersOf
<1>3. Log!IsGreatest(x, S \cup {x})
  BY DEF Log!IsGreatest
<1>4. Log!IsLeast(IF n = 0 THEN x ELSE f, S \cup {x})
  <2>1. CASE S = {}
    BY <2>1, CountersZero DEF Log!IsLeast
  <2>2. CASE S # {}
    <3>1. n # 0
      BY <2>2, CountersZero
    <3>2. f \in S /\ \A s \in S : f <= s
      BY <2>2 DEF CountersOf, Log!IsLeast
    <3>3. f \in Nat /\ f < x
      BY <3>2
    <3> QED
      BY <3>1, <3>2, <3>3 DEF Log!IsLeast
  <2> QED
    BY <2>1, <2>2
<1> QED
  BY <1>2, <1>3, <1>4 DEF CountersOf

\* Putting back the older drops T in front of the newer drops S.
LEMMA CountersMerge ==
  ASSUME NEW S \in SUBSET Nat, NEW n, NEW f, NEW l, CountersOf(n, f, l, S),
         NEW T \in SUBSET Nat, NEW m, NEW g, NEW h, CountersOf(m, g, h, T), T # {},
         \A t \in T, s \in S : t < s
  PROVE  CountersOf(n + m, g, IF n = 0 THEN h ELSE l, S \cup T)
<1>1. S \cap T = {}
  <2> SUFFICES ASSUME NEW x \in S \cap T PROVE FALSE
    OBVIOUS
  <2>1. x < x /\ x \in Nat
    OBVIOUS
  <2> QED
    BY <2>1
<1>2. IsFiniteSet(S \cup T) /\ Cardinality(S \cup T) = n + m
  <2>1. IsFiniteSet(S) /\ IsFiniteSet(T) /\ n = Cardinality(S) /\ m = Cardinality(T)
    BY DEF CountersOf
  <2>2. n \in Nat /\ m \in Nat
    BY <2>1, FS_CardinalityType
  <2>3. IsFiniteSet(S \cup T)
        /\ Cardinality(S \cup T) = Cardinality(S) + Cardinality(T) - Cardinality(S \cap T)
    BY <2>1, FS_Union
  <2>4. Cardinality(S \cap T) = 0
    BY <1>1, FS_EmptySet
  <2> QED
    BY <2>1, <2>2, <2>3, <2>4
<1>3. Log!IsLeast(g, S \cup T)
  <2>1. g \in T /\ \A t \in T : g <= t
    BY DEF CountersOf, Log!IsLeast
  <2>2. g \in Nat /\ \A s \in S : s \in Nat /\ g < s
    BY <2>1
  <2> QED
    BY <2>1, <2>2 DEF Log!IsLeast
<1>4. Log!IsGreatest(IF n = 0 THEN h ELSE l, S \cup T)
  <2>1. CASE S = {}
    <3>1. n = 0
      BY <2>1, CountersZero
    <3> QED
      BY <2>1, <3>1 DEF CountersOf, Log!IsGreatest
  <2>2. CASE S # {}
    <3>1. n # 0
      BY <2>2, CountersZero
    <3>2. l \in S /\ \A s \in S : s <= l
      BY <2>2 DEF CountersOf, Log!IsGreatest
    <3>3. l \in Nat /\ \A t \in T : t \in Nat /\ t < l
      BY <3>2
    <3> QED
      BY <3>1, <3>2, <3>3 DEF Log!IsGreatest
  <2> QED
    BY <2>1, <2>2
<1> QED
  BY <1>2, <1>3, <1>4 DEF CountersOf

\* Second layer: the counters are exact, their events were all issued, and some
\* event is in flight exactly while a reader copies its record.
DropInv ==
  /\ DropRangeExact
  /\ lostPending \cup lostInflight \subseteq 1 .. next_seq - 1
  /\ lostInflight # {} <=> \E r \in Readers : rpc[r] = "dropCopy"

\* Nothing is dropped at first.
LEMMA DropInit == Init => DropInv
  BY CountersEmpty DEF Init, DropInv, DropRangeExact

\* Noting the drop of the next sequence number keeps the layer.
LEMMA NoteDropKeepsDropInv ==
  ASSUME TypeOK, DropInv, NoteDropLocked(next_seq), next_seq' = next_seq + 1,
         UNCHANGED <<inflightVars, info, rpc>>
  PROVE  DropInv'
<1>1. next_seq \in Nat /\ \A s \in lostPending \cup lostInflight : s \in Nat /\ s < next_seq
  BY DEF TypeOK, DropInv
<1>2. CountersOf(dropped_pending, dropped_first_seq, dropped_last_seq, lostPending)'
  BY <1>1, CountersAdd DEF NoteDropLocked, DropInv, DropRangeExact, TypeOK
<1>3. CountersOf(dropped_inflight, dropped_inflight_first_seq,
                 dropped_inflight_last_seq, lostInflight)'
  BY DEF inflightVars, DropInv, DropRangeExact
<1>4. \A s \in lostInflight', t \in lostPending' : s < t
  BY <1>1 DEF inflightVars, NoteDropLocked, DropInv, DropRangeExact
<1>5. DropRangeExact'
  BY <1>2, <1>3, <1>4 DEF inflightVars, DropInv, DropRangeExact
<1>6. (lostPending \cup lostInflight)' \subseteq 1 .. next_seq' - 1
  BY <1>1 DEF inflightVars, NoteDropLocked, DropInv, TypeOK
<1> QED
  BY <1>5, <1>6 DEF inflightVars, DropInv

\* The second layer is preserved.
LEMMA DropStep == TypeOK /\ LockInv /\ DropInv /\ [Next]_vars => DropInv'
<1> SUFFICES ASSUME TypeOK, LockInv, DropInv, [Next]_vars PROVE DropInv'
  OBVIOUS
<1>1. ASSUME NEW p \in Producers, NEW len \in Lens, NEW allocated \in BOOLEAN,
             Push(p, len, allocated)
      PROVE  DropInv'
  <2>0. \/ NoteDropLocked(next_seq) /\ UNCHANGED <<pending, queued>>
        \/ ~Full /\ EnqueueLocked(next_seq, len) /\ UNCHANGED dropVars
    BY <1>1, PushCases, Zenon
  <2>1. UNCHANGED <<inflightVars, info, rpc>> /\ next_seq' = next_seq + 1
    BY <1>1 DEF Push, IssueSeq, localVars
  <2>2. CASE NoteDropLocked(next_seq)
    BY <2>1, <2>2, NoteDropKeepsDropInv
  <2>3. CASE UNCHANGED dropVars
    BY <2>1, <2>3 DEF TypeOK, DropInv, DropRangeExact, CountersOf, dropVars, inflightVars
  <2> QED
    BY <2>0, <2>2, <2>3
<1>2. ASSUME NEW p \in Producers, Drop(p)
      PROVE  DropInv'
  BY <1>2, NoteDropKeepsDropInv DEF Drop, IssueSeq, localVars
<1>3. ASSUME NEW p \in Producers, Close(p)
      PROVE  DropInv'
  BY <1>3 DEF Close, TypeOK, LockInv, DropInv, DropRangeExact, CountersOf, queueVars,
     dropVars, inflightVars, localVars, ghostVars
<1>4. ASSUME NEW p \in Producers, ProducerWake(p)
      PROVE  DropInv'
  BY <1>4 DEF ProducerWake, WakeReaders, TypeOK, LockInv, DropInv, DropRangeExact,
     CountersOf, queueVars, dropVars, inflightVars, localVars, ghostVars
<1>5. ASSUME NEW r \in Readers, NEW c \in Counts, NEW nb \in BOOLEAN, ReadCall(r, c, nb)
      PROVE  DropInv'
  BY <1>5 DEF ReadCall, Goto, At, TypeOK, LockInv, DropInv, DropRangeExact, CountersOf,
     queueVars, dropVars, inflightVars, syncVars, ghostVars
<1>6. ASSUME NEW r \in Readers, ReadLock(r)
      PROVE  DropInv'
  BY <1>6 DEF ReadLock, Goto, At, TypeOK, LockInv, DropInv, DropRangeExact, CountersOf,
     queueVars, dropVars, inflightVars, localVars, ghostVars
<1>7. ASSUME NEW r \in Readers, ReadLockInterrupted(r)
      PROVE  DropInv'
  BY <1>7 DEF ReadLockInterrupted, Goto, At, TypeOK, LockInv, DropInv, DropRangeExact,
     CountersOf, queueVars, dropVars, inflightVars, syncVars, ghostVars
<1>8. ASSUME NEW r \in Readers, WaitInterrupted(r)
      PROVE  DropInv'
  BY <1>8 DEF WaitInterrupted, FailRead, Goto, At, TypeOK, LockInv, DropInv,
     DropRangeExact, CountersOf, queueVars, dropVars, inflightVars, ghostVars
<1>9. ASSUME NEW r \in Readers, WaitHasData(r)
      PROVE  DropInv'
  BY <1>9 DEF WaitHasData, Goto, At, TypeOK, LockInv, DropInv, DropRangeExact,
     CountersOf, queueVars, dropVars, inflightVars, localVars, syncVars, ghostVars
<1>10. ASSUME NEW r \in Readers, WaitIsClosed(r)
      PROVE  DropInv'
  BY <1>10 DEF WaitIsClosed, FailRead, Goto, At, TypeOK, LockInv, DropInv,
     DropRangeExact, CountersOf, queueVars, dropVars, inflightVars, syncVars, ghostVars
<1>11. ASSUME NEW r \in Readers, WaitPrepare(r)
      PROVE  DropInv'
  BY <1>11 DEF WaitPrepare, Goto, At, TypeOK, LockInv, DropInv, DropRangeExact,
     CountersOf, queueVars, dropVars, inflightVars, localVars, ghostVars
<1>12. ASSUME NEW r \in Readers, WaitConditionClosed(r)
      PROVE  DropInv'
  BY <1>12 DEF WaitConditionClosed, WaitCondition, Goto, At, TypeOK, LockInv, DropInv,
     DropRangeExact, CountersOf, queueVars, dropVars, inflightVars, localVars, ghostVars
<1>13. ASSUME NEW r \in Readers, WaitConditionData(r)
      PROVE  DropInv'
  BY <1>13 DEF WaitConditionData, WaitCondition, Goto, At, TypeOK, LockInv, DropInv,
     DropRangeExact, CountersOf, queueVars, dropVars, inflightVars, localVars, ghostVars
<1>14. ASSUME NEW r \in Readers, WaitWoken(r)
      PROVE  DropInv'
  BY <1>14 DEF WaitWoken, Goto, At, TypeOK, LockInv, DropInv, DropRangeExact,
     CountersOf, queueVars, dropVars, inflightVars, localVars, syncVars, ghostVars
<1>15. ASSUME NEW r \in Readers, ReadDropNone(r)
      PROVE  DropInv'
  BY <1>15 DEF ReadDropNone, Goto, At, TypeOK, LockInv, DropInv, DropRangeExact,
     CountersOf, queueVars, dropVars, inflightVars, localVars, syncVars, ghostVars
<1>16. ASSUME NEW r \in Readers, ReadDropNoRoom(r)
      PROVE  DropInv'
  BY <1>16 DEF ReadDropNoRoom, FailRead, Fits, Goto, At, TypeOK, LockInv, DropInv,
     DropRangeExact, CountersOf, queueVars, dropVars, inflightVars, syncVars, ghostVars
<1>17. ASSUME NEW r \in Readers, ReadDropTake(r)
      PROVE  DropInv'
  <2>1. lostInflight = {}
    BY <1>17 DEF ReadDropTake, At, TypeOK, LockInv, DropInv
  <2>2. lostPending # {}
    BY <1>17, CountersZero DEF ReadDropTake, DropInv, DropRangeExact
  <2>3. CountersOf(dropped_pending, dropped_first_seq, dropped_last_seq, lostPending)'
    BY <1>17, CountersEmpty DEF ReadDropTake
  <2>4. CountersOf(dropped_inflight, dropped_inflight_first_seq,
                   dropped_inflight_last_seq, lostInflight)'
    BY <1>17 DEF ReadDropTake, DropInv, DropRangeExact
  <2>5. \A q \in Readers : rpc'[q] = "dropCopy" <=> q = r
    BY <1>17 DEF ReadDropTake, At, Goto, TypeOK, LockInv
  <2>6. info'[r] = [dropped |-> dropped_inflight', first |-> dropped_inflight_first_seq',
                    last |-> dropped_inflight_last_seq']
    BY <1>17 DEF ReadDropTake, TypeOK
  <2>7. DropRangeExact'
    BY <1>17, <2>3, <2>4, <2>5, <2>6 DEF ReadDropTake, DropRangeExact
  <2> QED
    BY <1>17, <2>2, <2>5, <2>7 DEF ReadDropTake, DropInv, queueVars
<1>18. ASSUME NEW r \in Readers, ReadDropDone(r)
      PROVE  DropInv'
  <2>1. \A q \in Readers : rpc'[q] # "dropCopy"
    BY <1>18 DEF ReadDropDone, ReadDropRestore, CopiedRecord, FailRead, At, Goto, TypeOK, LockInv
  <2>2. CountersOf(dropped_pending, dropped_first_seq, dropped_last_seq, lostPending)'
    BY <1>18 DEF ReadDropDone, dropVars, DropInv, DropRangeExact
  <2>3. CountersOf(dropped_inflight, dropped_inflight_first_seq,
                   dropped_inflight_last_seq, lostInflight)'
    BY <1>18, CountersEmpty DEF ReadDropDone, ClearInflight
  <2> QED
    BY <1>18, <2>1, <2>2, <2>3
       DEF ReadDropDone, ClearInflight, DropInv, DropRangeExact, queueVars, dropVars
<1>19. ASSUME NEW r \in Readers, ReadDropRestore(r)
      PROVE  DropInv'
  <2>1. \A q \in Readers : rpc'[q] # "dropCopy"
    BY <1>19 DEF ReadDropDone, ReadDropRestore, CopiedRecord, FailRead, At, Goto, TypeOK, LockInv
  <2>2. lostInflight # {} /\ lostInflight \in SUBSET Nat /\ lostPending \in SUBSET Nat
    BY <1>19 DEF ReadDropRestore, RestoreInflight, At, DropInv, TypeOK
  <2>3. CountersOf(dropped_pending, dropped_first_seq, dropped_last_seq, lostPending)'
    BY <1>19, <2>2, CountersMerge DEF ReadDropRestore, RestoreInflight, DropInv, DropRangeExact
  <2>4. CountersOf(dropped_inflight, dropped_inflight_first_seq,
                   dropped_inflight_last_seq, lostInflight)'
    BY <1>19, CountersEmpty DEF ReadDropRestore, RestoreInflight, ClearInflight
  <2> QED
    BY <1>19, <2>1, <2>3, <2>4
       DEF ReadDropRestore, RestoreInflight, ClearInflight, DropInv, DropRangeExact, queueVars
<1>20. ASSUME NEW r \in Readers, ReadNodeEmpty(r)
      PROVE  DropInv'
  BY <1>20 DEF ReadNodeEmpty, Goto, At, TypeOK, LockInv, DropInv, DropRangeExact,
     CountersOf, queueVars, dropVars, inflightVars, localVars, syncVars, ghostVars
<1>21. ASSUME NEW r \in Readers, ReadNodeNoRoom(r)
      PROVE  DropInv'
  BY <1>21 DEF ReadNodeNoRoom, FailRead, Fits, Goto, At, TypeOK, LockInv, DropInv,
     DropRangeExact, CountersOf, queueVars, dropVars, inflightVars, syncVars, ghostVars
<1>22. ASSUME NEW r \in Readers, ReadNodePeek(r)
      PROVE  DropInv'
  BY <1>22 DEF ReadNodePeek, Fits, Goto, At, TypeOK, LockInv, DropInv, DropRangeExact,
     CountersOf, queueVars, dropVars, inflightVars, syncVars, ghostVars
<1>23. ASSUME NEW r \in Readers, ReadNodeDone(r)
      PROVE  DropInv'
  BY <1>23 DEF ReadNodeDone, CopiedRecord, Goto, At, TypeOK, LockInv, DropInv,
     DropRangeExact, CountersOf, dropVars, inflightVars, syncVars
<1>24. ASSUME NEW r \in Readers, ReadNodeFault(r)
      PROVE  DropInv'
  BY <1>24 DEF ReadNodeFault, FailRead, Goto, At, TypeOK, LockInv, DropInv,
     DropRangeExact, CountersOf, queueVars, dropVars, inflightVars, syncVars, ghostVars
<1>25. ASSUME NEW r \in Readers, ReadUnlock(r)
      PROVE  DropInv'
  BY <1>25 DEF ReadUnlock, Goto, At, TypeOK, LockInv, DropInv, DropRangeExact,
     CountersOf, queueVars, dropVars, inflightVars, ghostVars
<1>26. CASE DestroyClose
  BY <1>26 DEF DestroyClose, TypeOK, LockInv, DropInv, DropRangeExact, CountersOf,
     queueVars, dropVars, inflightVars, localVars, ghostVars
<1>27. CASE DestroyWake
  BY <1>27 DEF DestroyWake, WakeReaders, TypeOK, LockInv, DropInv, DropRangeExact,
     CountersOf, queueVars, dropVars, inflightVars, localVars, ghostVars
<1>28. CASE DestroyLock
  BY <1>28 DEF DestroyLock, TypeOK, LockInv, DropInv, DropRangeExact, CountersOf,
     queueVars, dropVars, inflightVars, localVars, ghostVars
<1>29. CASE DestroyFree
  <2>1. \A q \in Readers : rpc'[q] # "dropCopy"
    BY <1>29, ConstantsAssumption DEF DestroyFree, TypeOK, LockInv
  <2>2. CountersOf(dropped_pending, dropped_first_seq, dropped_last_seq, lostPending)'
    BY <1>29, CountersEmpty DEF DestroyFree
  <2>3. CountersOf(dropped_inflight, dropped_inflight_first_seq,
                   dropped_inflight_last_seq, lostInflight)'
    BY <1>29, CountersEmpty DEF DestroyFree, ClearInflight
  <2> QED
    BY <1>29, <2>1, <2>2, <2>3
       DEF DestroyFree, ClearInflight, DropInv, DropRangeExact, TypeOK
<1>30. CASE DestroyUnlock
  BY <1>30 DEF DestroyUnlock, TypeOK, LockInv, DropInv, DropRangeExact, CountersOf,
     queueVars, dropVars, inflightVars, localVars, ghostVars
<1>31. CASE UNCHANGED vars
  BY <1>31 DEF vars, TypeOK, LockInv, DropInv, DropRangeExact, CountersOf, queueVars,
     dropVars, inflightVars, localVars, syncVars, ghostVars
<1> QED
  BY <1>1, <1>2, <1>3, <1>4, <1>5, <1>6, <1>7, <1>8, <1>9, <1>10, <1>11, <1>12, <1>13,
     <1>14, <1>15, <1>16, <1>17, <1>18, <1>19, <1>20, <1>21, <1>22, <1>23, <1>24, <1>25,
     <1>26, <1>27, <1>28, <1>29, <1>30, <1>31 DEF Next, ProducerNext, ReaderNext,
     ReaderStep, DestroyNext

\* The drop counters are an exact summary of the unreported drops, also after a
\* failed copy put drops back while others were noted.
THEOREM DropInvariant == Spec => []DropInv
<1>1. ListInv /\ DropInv /\ [Next]_vars => DropInv'
  BY DropStep DEF ListInv
<1> QED
  BY <1>1, DropInit, ListInvariant, PTL DEF Spec

\* The drop counters describe exactly the events dropped and not yet reported.
THEOREM DropRangeIsExact == Spec => []DropRangeExact
  BY DropInvariant, PTL DEF DropInv

-----------------------------------------------------------------------------
\* Some thread is about to wake the sleepers.
WakerComing == dpc = "wake" \/ \E p \in Producers : ppc[p] = "wake"

\* Third layer: only a reader inside wait_event is on the wait queue, and one that
\* already found the queue open is woken if it has been closed since.
WakeInv ==
  /\ WakeupPending
  /\ \A r \in read_wait : rpc[r] \in {"condClosed", "condData", "asleep"}
  /\ \A r \in read_wait : rpc[r] = "condData" /\ closed => WakerComing

\* Nobody sleeps at first.
LEMMA WakeInit == Init => WakeInv
  BY DEF Init, WakeInv, WakeupPending

\* The third layer is preserved.
LEMMA WakeStep == TypeOK /\ LockInv /\ WakeInv /\ [Next]_vars => WakeInv'
<1> SUFFICES ASSUME TypeOK, LockInv, WakeInv, [Next]_vars PROVE WakeInv'
  OBVIOUS
<1>1. ASSUME NEW p \in Producers, NEW len \in Lens, NEW allocated \in BOOLEAN,
             Push(p, len, allocated)
      PROVE  WakeInv'
  BY <1>1 DEF Push, IssueSeq, TypeOK, WakeInv, WakeupPending, WakerComing, localVars
<1>2. ASSUME NEW p \in Producers, Drop(p)
      PROVE  WakeInv'
  BY <1>2, ConstantsAssumption DEF Drop, IssueSeq, NoteDropLocked, TypeOK, LockInv,
     WakeInv, WakeupPending, WakerComing, HasDataLocked, inflightVars, localVars, ghostVars
<1>3. ASSUME NEW p \in Producers, Close(p)
      PROVE  WakeInv'
  BY <1>3, ConstantsAssumption DEF Close, TypeOK, LockInv, WakeInv, WakeupPending,
     WakerComing, HasDataLocked, queueVars, dropVars, inflightVars, localVars, ghostVars
<1>4. ASSUME NEW p \in Producers, ProducerWake(p)
      PROVE  WakeInv'
  BY <1>4, ConstantsAssumption DEF ProducerWake, WakeReaders, TypeOK, LockInv, WakeInv,
     WakeupPending, WakerComing, HasDataLocked, queueVars, dropVars, inflightVars,
     localVars, ghostVars
<1>5. ASSUME NEW r \in Readers, NEW c \in Counts, NEW nb \in BOOLEAN, ReadCall(r, c, nb)
      PROVE  WakeInv'
  BY <1>5, ConstantsAssumption DEF ReadCall, Goto, At, TypeOK, LockInv, WakeInv,
     WakeupPending, WakerComing, HasDataLocked, queueVars, dropVars, inflightVars,
     syncVars, ghostVars
<1>6. ASSUME NEW r \in Readers, ReadLock(r)
      PROVE  WakeInv'
  BY <1>6, ConstantsAssumption DEF ReadLock, Goto, At, TypeOK, LockInv, WakeInv,
     WakeupPending, WakerComing, HasDataLocked, queueVars, dropVars, inflightVars,
     localVars, ghostVars
<1>7. ASSUME NEW r \in Readers, ReadLockInterrupted(r)
      PROVE  WakeInv'
  BY <1>7, ConstantsAssumption DEF ReadLockInterrupted, Goto, At, TypeOK, LockInv,
     WakeInv, WakeupPending, WakerComing, HasDataLocked, queueVars, dropVars, inflightVars,
     syncVars, ghostVars
<1>8. ASSUME NEW r \in Readers, WaitInterrupted(r)
      PROVE  WakeInv'
  BY <1>8, ConstantsAssumption DEF WaitInterrupted, FailRead, Goto, At, TypeOK, LockInv,
     WakeInv, WakeupPending, WakerComing, HasDataLocked, queueVars, dropVars, inflightVars,
     ghostVars
<1>9. ASSUME NEW r \in Readers, WaitHasData(r)
      PROVE  WakeInv'
  BY <1>9, ConstantsAssumption DEF WaitHasData, Goto, At, TypeOK, LockInv, WakeInv,
     WakeupPending, WakerComing, HasDataLocked, queueVars, dropVars, inflightVars,
     localVars, syncVars, ghostVars
<1>10. ASSUME NEW r \in Readers, WaitIsClosed(r)
      PROVE  WakeInv'
  BY <1>10, ConstantsAssumption DEF WaitIsClosed, FailRead, Goto, At, TypeOK, LockInv,
     WakeInv, WakeupPending, WakerComing, HasDataLocked, queueVars, dropVars, inflightVars,
     syncVars, ghostVars
<1>11. ASSUME NEW r \in Readers, WaitPrepare(r)
      PROVE  WakeInv'
  BY <1>11, ConstantsAssumption DEF WaitPrepare, Goto, At, TypeOK, LockInv, WakeInv,
     WakeupPending, WakerComing, HasDataLocked, queueVars, dropVars, inflightVars,
     localVars, ghostVars
<1>12. ASSUME NEW r \in Readers, WaitConditionClosed(r)
      PROVE  WakeInv'
  BY <1>12, ConstantsAssumption DEF WaitConditionClosed, WaitCondition, Goto, At,
     TypeOK, LockInv, WakeInv, WakeupPending, WakerComing, HasDataLocked, queueVars,
     dropVars, inflightVars, localVars, ghostVars
<1>13. ASSUME NEW r \in Readers, WaitConditionData(r)
      PROVE  WakeInv'
  BY <1>13, ConstantsAssumption DEF WaitConditionData, WaitCondition, Goto, At, TypeOK,
     LockInv, WakeInv, WakeupPending, WakerComing, HasDataLocked, queueVars, dropVars,
     inflightVars, localVars, ghostVars
<1>14. ASSUME NEW r \in Readers, WaitWoken(r)
      PROVE  WakeInv'
  BY <1>14, ConstantsAssumption DEF WaitWoken, Goto, At, TypeOK, LockInv, WakeInv,
     WakeupPending, WakerComing, HasDataLocked, queueVars, dropVars, inflightVars,
     localVars, syncVars, ghostVars
<1>15. ASSUME NEW r \in Readers, ReadDropNone(r)
      PROVE  WakeInv'
  BY <1>15, ConstantsAssumption DEF ReadDropNone, Goto, At, TypeOK, LockInv, WakeInv,
     WakeupPending, WakerComing, HasDataLocked, queueVars, dropVars, inflightVars,
     localVars, syncVars, ghostVars
<1>16. ASSUME NEW r \in Readers, ReadDropNoRoom(r)
      PROVE  WakeInv'
  BY <1>16, ConstantsAssumption DEF ReadDropNoRoom, FailRead, Fits, Goto, At, TypeOK,
     LockInv, WakeInv, WakeupPending, WakerComing, HasDataLocked, queueVars, dropVars,
     inflightVars, syncVars, ghostVars
<1>17. ASSUME NEW r \in Readers, ReadDropTake(r)
      PROVE  WakeInv'
  BY <1>17, ConstantsAssumption DEF ReadDropTake, Fits, Goto, At, TypeOK, LockInv,
     WakeInv, WakeupPending, WakerComing, HasDataLocked, queueVars, syncVars, ghostVars
<1>18. ASSUME NEW r \in Readers, ReadDropDone(r)
      PROVE  WakeInv'
  BY <1>18, ConstantsAssumption DEF ReadDropDone, ClearInflight, CopiedRecord, Goto, At,
     TypeOK, LockInv, WakeInv, WakeupPending, WakerComing, HasDataLocked, queueVars,
     dropVars, syncVars
<1>19. ASSUME NEW r \in Readers, ReadDropRestore(r)
      PROVE  WakeInv'
  BY <1>19, ConstantsAssumption DEF ReadDropRestore, RestoreInflight, ClearInflight,
     FailRead, Goto, At, TypeOK, LockInv, WakeInv, WakeupPending, WakerComing,
     HasDataLocked, queueVars, syncVars, ghostVars
<1>20. ASSUME NEW r \in Readers, ReadNodeEmpty(r)
      PROVE  WakeInv'
  BY <1>20, ConstantsAssumption DEF ReadNodeEmpty, Goto, At, TypeOK, LockInv, WakeInv,
     WakeupPending, WakerComing, HasDataLocked, queueVars, dropVars, inflightVars,
     localVars, syncVars, ghostVars
<1>21. ASSUME NEW r \in Readers, ReadNodeNoRoom(r)
      PROVE  WakeInv'
  BY <1>21, ConstantsAssumption DEF ReadNodeNoRoom, FailRead, Fits, Goto, At, TypeOK,
     LockInv, WakeInv, WakeupPending, WakerComing, HasDataLocked, queueVars, dropVars,
     inflightVars, syncVars, ghostVars
<1>22. ASSUME NEW r \in Readers, ReadNodePeek(r)
      PROVE  WakeInv'
  BY <1>22, ConstantsAssumption DEF ReadNodePeek, Fits, Goto, At, TypeOK, LockInv,
     WakeInv, WakeupPending, WakerComing, HasDataLocked, queueVars, dropVars, inflightVars,
     syncVars, ghostVars
<1>23. ASSUME NEW r \in Readers, ReadNodeDone(r)
      PROVE  WakeInv'
  <2>1. rpc[r] = "nodeCopy" /\ UNCHANGED read_wait
    BY <1>23 DEF ReadNodeDone, At, syncVars
  <2>2. read_wait = {}
    BY <2>1, ConstantsAssumption DEF TypeOK, LockInv, WakeInv
  <2> QED
    BY <2>1, <2>2 DEF WakeInv, WakeupPending
<1>24. ASSUME NEW r \in Readers, ReadNodeFault(r)
      PROVE  WakeInv'
  BY <1>24, ConstantsAssumption DEF ReadNodeFault, FailRead, Goto, At, TypeOK, LockInv,
     WakeInv, WakeupPending, WakerComing, HasDataLocked, queueVars, dropVars, inflightVars,
     syncVars, ghostVars
<1>25. ASSUME NEW r \in Readers, ReadUnlock(r)
      PROVE  WakeInv'
  BY <1>25, ConstantsAssumption DEF ReadUnlock, Goto, At, TypeOK, LockInv, WakeInv,
     WakeupPending, WakerComing, HasDataLocked, queueVars, dropVars, inflightVars,
     ghostVars
<1>26. CASE DestroyClose
  BY <1>26, ConstantsAssumption DEF DestroyClose, TypeOK, LockInv, WakeInv,
     WakeupPending, WakerComing, HasDataLocked, queueVars, dropVars, inflightVars,
     localVars, ghostVars
<1>27. CASE DestroyWake
  BY <1>27, ConstantsAssumption DEF DestroyWake, WakeReaders, TypeOK, LockInv, WakeInv,
     WakeupPending, WakerComing, HasDataLocked, queueVars, dropVars, inflightVars,
     localVars, ghostVars
<1>28. CASE DestroyLock
  BY <1>28, ConstantsAssumption DEF DestroyLock, TypeOK, LockInv, WakeInv,
     WakeupPending, WakerComing, HasDataLocked, queueVars, dropVars, inflightVars,
     localVars, ghostVars
<1>29. CASE DestroyFree
  BY <1>29, ConstantsAssumption DEF DestroyFree, ClearInflight, TypeOK, LockInv,
     WakeInv, WakeupPending, WakerComing, HasDataLocked, localVars
<1>30. CASE DestroyUnlock
  BY <1>30, ConstantsAssumption DEF DestroyUnlock, TypeOK, LockInv, WakeInv,
     WakeupPending, WakerComing, HasDataLocked, queueVars, dropVars, inflightVars,
     localVars, ghostVars
<1>31. CASE UNCHANGED vars
  BY <1>31 DEF vars, TypeOK, LockInv, WakeInv, WakeupPending, WakerComing,
     HasDataLocked, queueVars, dropVars, inflightVars, localVars, syncVars, ghostVars
<1> QED
  BY <1>1, <1>2, <1>3, <1>4, <1>5, <1>6, <1>7, <1>8, <1>9, <1>10, <1>11, <1>12, <1>13,
     <1>14, <1>15, <1>16, <1>17, <1>18, <1>19, <1>20, <1>21, <1>22, <1>23, <1>24, <1>25,
     <1>26, <1>27, <1>28, <1>29, <1>30, <1>31 DEF Next, ProducerNext, ReaderNext,
     ReaderStep, DestroyNext

\* Drops are in flight only while a reader copies their record.
InflightZero ==
  dropped_inflight # 0 => \E r \in Readers : rpc[r] = "dropCopy"

\* Fourth layer: a read that has copied nothing goes on only with data or a closed
\* queue in front of it, and leaves the loop without data only if it is closed.
EOFInv ==
  /\ EOFMeansDrained
  /\ \A r \in Readers : rpc[r] = "drop" /\ copied[r] = "zero" => closed \/ HasDataLocked
  /\ \A r \in Readers : rpc[r] = "node" /\ copied[r] = "zero" =>
       pending # <<>> \/ (closed /\ dropped_pending = 0)

\* Nobody has read anything at first.
LEMMA EOFInit == Init => EOFInv
  BY DEF Init, EOFInv, EOFMeansDrained

\* The fourth layer is preserved.
LEMMA EOFStep == TypeOK /\ LockInv /\ InflightZero /\ EOFInv /\ [Next]_vars => EOFInv'
<1> SUFFICES ASSUME TypeOK, LockInv, InflightZero, EOFInv, [Next]_vars PROVE EOFInv'
  OBVIOUS
<1>1. ASSUME NEW p \in Producers, NEW len \in Lens, NEW allocated \in BOOLEAN,
             Push(p, len, allocated)
      PROVE  EOFInv'
  <2>0. \/ NoteDropLocked(next_seq) /\ UNCHANGED <<pending, queued>>
        \/ ~Full /\ EnqueueLocked(next_seq, len) /\ UNCHANGED dropVars
    BY <1>1, PushCases, Zenon
  <2>1. ~closed /\ rpc' = rpc /\ copied' = copied /\ inflightVars' = inflightVars
    BY <1>1 DEF Push, IssueSeq, localVars, inflightVars
  <2>2. CASE NoteDropLocked(next_seq) /\ UNCHANGED pending
    <3>1. HasDataLocked'
      BY <2>2 DEF NoteDropLocked, HasDataLocked, TypeOK
    <3> QED
      BY <2>1, <2>2, <3>1 DEF EOFInv, EOFMeansDrained
  <2>3. CASE EnqueueLocked(next_seq, len)
    <3>1. pending' = Append(pending, [seq |-> next_seq, len |-> len])
      BY <2>3 DEF EnqueueLocked
    <3>2. pending' # <<>>
      <4>1. pending \in Seq(Node)
        BY DEF TypeOK
      <4> QED
        BY <3>1, <4>1
    <3> QED
      BY <2>1, <3>2 DEF EOFInv, EOFMeansDrained, HasDataLocked
  <2> QED
    BY <2>0, <2>2, <2>3
<1>2. ASSUME NEW p \in Producers, Drop(p)
      PROVE  EOFInv'
  <2>1. HasDataLocked'
    BY <1>2 DEF Drop, IssueSeq, NoteDropLocked, HasDataLocked, TypeOK
  <2> QED
    BY <1>2, <2>1 DEF Drop, IssueSeq, EOFInv, EOFMeansDrained, localVars
<1>3. ASSUME NEW p \in Producers, Close(p)
      PROVE  EOFInv'
  BY <1>3, ConstantsAssumption DEF Close, TypeOK, LockInv, EOFInv, EOFMeansDrained,
     HasDataLocked, InflightZero, queueVars, dropVars, inflightVars, localVars, ghostVars
<1>4. ASSUME NEW p \in Producers, ProducerWake(p)
      PROVE  EOFInv'
  BY <1>4, ConstantsAssumption DEF ProducerWake, WakeReaders, TypeOK, LockInv, EOFInv,
     EOFMeansDrained, HasDataLocked, InflightZero, queueVars, dropVars, inflightVars, localVars,
     ghostVars
<1>5. ASSUME NEW r \in Readers, NEW c \in Counts, NEW nb \in BOOLEAN, ReadCall(r, c, nb)
      PROVE  EOFInv'
  BY <1>5, ConstantsAssumption DEF ReadCall, Goto, At, TypeOK, LockInv, EOFInv,
     EOFMeansDrained, HasDataLocked, InflightZero, queueVars, dropVars, inflightVars, syncVars, ghostVars
<1>6. ASSUME NEW r \in Readers, ReadLock(r)
      PROVE  EOFInv'
  BY <1>6, ConstantsAssumption DEF ReadLock, Goto, At, TypeOK, LockInv, EOFInv,
     EOFMeansDrained, HasDataLocked, InflightZero, queueVars, dropVars, inflightVars, localVars,
     ghostVars
<1>7. ASSUME NEW r \in Readers, ReadLockInterrupted(r)
      PROVE  EOFInv'
  BY <1>7, ConstantsAssumption DEF ReadLockInterrupted, Goto, At, TypeOK, LockInv,
     EOFInv, EOFMeansDrained, HasDataLocked, InflightZero, queueVars, dropVars, inflightVars, syncVars,
     ghostVars
<1>8. ASSUME NEW r \in Readers, WaitInterrupted(r)
      PROVE  EOFInv'
  BY <1>8, ConstantsAssumption DEF WaitInterrupted, FailRead, Goto, At, TypeOK, LockInv,
     EOFInv, EOFMeansDrained, HasDataLocked, InflightZero, queueVars, dropVars, inflightVars, ghostVars
<1>9. ASSUME NEW r \in Readers, WaitHasData(r)
      PROVE  EOFInv'
  BY <1>9, ConstantsAssumption DEF WaitHasData, Goto, At, TypeOK, LockInv, EOFInv,
     EOFMeansDrained, HasDataLocked, InflightZero, queueVars, dropVars, inflightVars, localVars,
     syncVars, ghostVars
<1>10. ASSUME NEW r \in Readers, WaitIsClosed(r)
      PROVE  EOFInv'
  <2>1. /\ UNCHANGED <<pending, closed, dropped_pending, dropped_inflight>>
        /\ \E l : rpc' = [rpc EXCEPT ![r] = l]
        /\ \E e : copied' = [copied EXCEPT ![r] = e]
    BY <1>10 DEF WaitIsClosed, FailRead, Goto, queueVars, dropVars, inflightVars, syncVars,
       TypeOK
  <2>2. HasDataLocked' <=> HasDataLocked
    BY <2>1 DEF HasDataLocked
  <2>3. \A s \in Readers : s # r => rpc'[s] = rpc[s] /\ copied'[s] = copied[s]
    BY <2>1 DEF TypeOK
  <2>4. /\ rpc'[r] = "drop" => closed
        /\ rpc'[r] # "node"
        /\ rpc'[r] = "unlock" => copied'[r] # "zero"
    BY <1>10 DEF WaitIsClosed, FailRead, Goto, TypeOK
  <2> QED
    BY <2>1, <2>2, <2>3, <2>4 DEF EOFInv, EOFMeansDrained
<1>11. ASSUME NEW r \in Readers, WaitPrepare(r)
      PROVE  EOFInv'
  BY <1>11, ConstantsAssumption DEF WaitPrepare, Goto, At, TypeOK, LockInv, EOFInv,
     EOFMeansDrained, HasDataLocked, InflightZero, queueVars, dropVars, inflightVars, localVars,
     ghostVars
<1>12. ASSUME NEW r \in Readers, WaitConditionClosed(r)
      PROVE  EOFInv'
  BY <1>12, ConstantsAssumption DEF WaitConditionClosed, WaitCondition, Goto, At,
     TypeOK, LockInv, EOFInv, EOFMeansDrained, HasDataLocked, InflightZero, queueVars, dropVars,
     inflightVars, localVars, ghostVars
<1>13. ASSUME NEW r \in Readers, WaitConditionData(r)
      PROVE  EOFInv'
  BY <1>13, ConstantsAssumption DEF WaitConditionData, WaitCondition, Goto, At, TypeOK,
     LockInv, EOFInv, EOFMeansDrained, HasDataLocked, InflightZero, queueVars, dropVars, inflightVars,
     localVars, ghostVars
<1>14. ASSUME NEW r \in Readers, WaitWoken(r)
      PROVE  EOFInv'
  BY <1>14, ConstantsAssumption DEF WaitWoken, Goto, At, TypeOK, LockInv, EOFInv,
     EOFMeansDrained, HasDataLocked, InflightZero, queueVars, dropVars, inflightVars, localVars,
     syncVars, ghostVars
<1>15. ASSUME NEW r \in Readers, ReadDropNone(r)
      PROVE  EOFInv'
  BY <1>15, ConstantsAssumption DEF ReadDropNone, Goto, At, TypeOK, LockInv, EOFInv,
     EOFMeansDrained, HasDataLocked, InflightZero, queueVars, dropVars, inflightVars, localVars,
     syncVars, ghostVars
<1>16. ASSUME NEW r \in Readers, ReadDropNoRoom(r)
      PROVE  EOFInv'
  BY <1>16, ConstantsAssumption DEF ReadDropNoRoom, FailRead, Fits, Goto, At, TypeOK,
     LockInv, EOFInv, EOFMeansDrained, HasDataLocked, InflightZero, queueVars, dropVars, inflightVars,
     syncVars, ghostVars
<1>17. ASSUME NEW r \in Readers, ReadDropTake(r)
      PROVE  EOFInv'
  BY <1>17, ConstantsAssumption DEF ReadDropTake, Fits, Goto, At, TypeOK, LockInv,
     EOFInv, EOFMeansDrained, HasDataLocked, InflightZero, queueVars, syncVars, ghostVars
<1>18. ASSUME NEW r \in Readers, ReadDropDone(r)
      PROVE  EOFInv'
  BY <1>18, ConstantsAssumption DEF ReadDropDone, ClearInflight, CopiedRecord, Goto, At,
     TypeOK, LockInv, EOFInv, EOFMeansDrained, HasDataLocked, InflightZero, queueVars, dropVars, syncVars
<1>19. ASSUME NEW r \in Readers, ReadDropRestore(r)
      PROVE  EOFInv'
  BY <1>19, ConstantsAssumption DEF ReadDropRestore, RestoreInflight, ClearInflight,
     FailRead, Goto, At, TypeOK, LockInv, EOFInv, EOFMeansDrained, HasDataLocked,
     queueVars, syncVars, ghostVars
<1>20. ASSUME NEW r \in Readers, ReadNodeEmpty(r)
      PROVE  EOFInv'
  BY <1>20, ConstantsAssumption DEF ReadNodeEmpty, Goto, At, TypeOK, LockInv, EOFInv,
     EOFMeansDrained, HasDataLocked, InflightZero, queueVars, dropVars, inflightVars, localVars,
     syncVars, ghostVars
<1>21. ASSUME NEW r \in Readers, ReadNodeNoRoom(r)
      PROVE  EOFInv'
  BY <1>21, ConstantsAssumption DEF ReadNodeNoRoom, FailRead, Fits, Goto, At, TypeOK,
     LockInv, EOFInv, EOFMeansDrained, HasDataLocked, InflightZero, queueVars, dropVars, inflightVars,
     syncVars, ghostVars
<1>22. ASSUME NEW r \in Readers, ReadNodePeek(r)
      PROVE  EOFInv'
  BY <1>22, ConstantsAssumption DEF ReadNodePeek, Fits, Goto, At, TypeOK, LockInv,
     EOFInv, EOFMeansDrained, HasDataLocked, InflightZero, queueVars, dropVars, inflightVars, syncVars,
     ghostVars
<1>23. ASSUME NEW r \in Readers, ReadNodeDone(r)
      PROVE  EOFInv'
  BY <1>23, ConstantsAssumption DEF ReadNodeDone, CopiedRecord, Goto, At, TypeOK,
     LockInv, EOFInv, EOFMeansDrained, HasDataLocked, dropVars, inflightVars, syncVars
<1>24. ASSUME NEW r \in Readers, ReadNodeFault(r)
      PROVE  EOFInv'
  BY <1>24, ConstantsAssumption DEF ReadNodeFault, FailRead, Goto, At, TypeOK, LockInv,
     EOFInv, EOFMeansDrained, HasDataLocked, InflightZero, queueVars, dropVars, inflightVars, syncVars,
     ghostVars
<1>25. ASSUME NEW r \in Readers, ReadUnlock(r)
      PROVE  EOFInv'
  BY <1>25, ConstantsAssumption DEF ReadUnlock, Goto, At, TypeOK, LockInv, EOFInv,
     EOFMeansDrained, HasDataLocked, InflightZero, queueVars, dropVars, inflightVars, ghostVars
<1>26. CASE DestroyClose
  BY <1>26, ConstantsAssumption DEF DestroyClose, TypeOK, LockInv, EOFInv,
     EOFMeansDrained, HasDataLocked, InflightZero, queueVars, dropVars, inflightVars, localVars,
     ghostVars
<1>27. CASE DestroyWake
  BY <1>27, ConstantsAssumption DEF DestroyWake, WakeReaders, TypeOK, LockInv, EOFInv,
     EOFMeansDrained, HasDataLocked, InflightZero, queueVars, dropVars, inflightVars, localVars,
     ghostVars
<1>28. CASE DestroyLock
  BY <1>28, ConstantsAssumption DEF DestroyLock, TypeOK, LockInv, EOFInv,
     EOFMeansDrained, HasDataLocked, InflightZero, queueVars, dropVars, inflightVars, localVars,
     ghostVars
<1>29. CASE DestroyFree
  BY <1>29, ConstantsAssumption DEF DestroyFree, ClearInflight, TypeOK, LockInv, EOFInv,
     EOFMeansDrained, HasDataLocked, localVars
<1>30. CASE DestroyUnlock
  BY <1>30, ConstantsAssumption DEF DestroyUnlock, TypeOK, LockInv, EOFInv,
     EOFMeansDrained, HasDataLocked, InflightZero, queueVars, dropVars, inflightVars, localVars,
     ghostVars
<1>31. CASE UNCHANGED vars
  BY <1>31 DEF vars, TypeOK, LockInv, EOFInv, EOFMeansDrained, HasDataLocked, InflightZero,
     queueVars,
     dropVars, inflightVars, localVars, syncVars, ghostVars
<1> QED
  BY <1>1, <1>2, <1>3, <1>4, <1>5, <1>6, <1>7, <1>8, <1>9, <1>10, <1>11, <1>12, <1>13,
     <1>14, <1>15, <1>16, <1>17, <1>18, <1>19, <1>20, <1>21, <1>22, <1>23, <1>24, <1>25,
     <1>26, <1>27, <1>28, <1>29, <1>30, <1>31 DEF Next, ProducerNext, ReaderNext,
     ReaderStep, DestroyNext

\* No wake-up of a sleeping reader is lost.
THEOREM NoLostWakeup == Spec => []WakeupPending
<1>1. ListInv /\ WakeInv /\ [Next]_vars => WakeInv'
  BY WakeStep DEF ListInv
<1>2. WakeInv => WakeupPending
  BY DEF WakeInv
<1> QED
  BY <1>1, <1>2, WakeInit, ListInvariant, PTL DEF Spec

\* Drops are in flight only while a reader copies their record.
LEMMA InflightNeedsReader == DropInv => InflightZero
  BY CountersZero DEF DropInv, DropRangeExact, InflightZero

\* A read returns 0 only from a queue that is closed and drained.
THEOREM EOFIsTheEnd == Spec => []EOFMeansDrained
<1>1. ListInv /\ DropInv /\ EOFInv /\ [Next]_vars => EOFInv'
  BY EOFStep, InflightNeedsReader DEF ListInv
<1>2. EOFInv => EOFMeansDrained
  BY DEF EOFInv
<1> QED
  BY <1>1, <1>2, EOFInit, ListInvariant, DropInvariant, PTL DEF Spec

-----------------------------------------------------------------------------
(* The events, and the abstract log.  Whatever thread takes a step, the     *)
(* sequence numbers see one of eight changes.                               *)

Lost == lostPending \cup lostInflight

Nothing == UNCHANGED <<pending, next_seq, lostPending, lostInflight, out, discarded, closed>>

Closes == closed' /\ UNCHANGED <<pending, next_seq, lostPending, lostInflight, out, discarded>>

Keeps ==
  /\ ~closed
  /\ next_seq' = next_seq + 1
  /\ \E len \in Nat : pending' = Append(pending, [seq |-> next_seq, len |-> len])
  /\ UNCHANGED <<lostPending, lostInflight, out, discarded, closed>>

Loses ==
  /\ ~closed
  /\ next_seq' = next_seq + 1
  /\ lostPending' = lostPending \cup {next_seq}
  /\ UNCHANGED <<pending, lostInflight, out, discarded, closed>>

\* Between the two sets of counters
Moves == Lost' = Lost /\ UNCHANGED <<pending, next_seq, out, discarded, closed>>

Reports ==
  /\ lostInflight # {}
  /\ \E f, l : /\ Log!IsLeast(f, lostInflight) /\ Log!IsGreatest(l, lostInflight)
               /\ out' = Append(out, [dropped |-> Cardinality(lostInflight), first |-> f,
                                      last |-> l, seqs |-> lostInflight])
  /\ lostInflight' = {}
  /\ UNCHANGED <<lostPending, pending, next_seq, discarded, closed>>

Delivers ==
  /\ pending # <<>>
  /\ pending' = Unlink(pending, Head(pending))
  /\ out' = Append(out, [dropped |-> 0, first |-> Head(pending).seq, last |-> Head(pending).seq,
                         seqs |-> {Head(pending).seq}])
  /\ UNCHANGED <<next_seq, lostPending, lostInflight, discarded, closed>>

Discards ==
  /\ closed
  /\ pending' = <<>> /\ lostPending' = {} /\ lostInflight' = {}
  /\ discarded' = discarded \cup PendingSeqs \cup Lost
  /\ UNCHANGED <<next_seq, out, closed>>

LogStep ==
  \/ Nothing \/ Closes \/ Keeps \/ Loses \/ Moves \/ Reports \/ Delivers \/ Discards

\* Fifth layer: the list is in the order of the numbers, all of which were given
\* out, and a queue that is being destroyed is closed.
OrderInv ==
  /\ \A i, j \in DOMAIN pending : i < j => pending[i].seq < pending[j].seq
  /\ \A i \in DOMAIN pending : pending[i].seq \in 1 .. next_seq - 1
  /\ dpc # "none" => closed

\* Every step of the queue is one of the eight.
LEMMA LogSteps == ListInv /\ DropInv /\ OrderInv /\ [Next]_vars => LogStep
<1> SUFFICES ASSUME ListInv, DropInv, OrderInv, [Next]_vars PROVE LogStep
  OBVIOUS
<1> USE DEF ListInv
<1>1. ASSUME NEW p \in Producers, NEW len \in Lens, NEW allocated \in BOOLEAN,
             Push(p, len, allocated)
      PROVE  LogStep
  <2>0. \/ NoteDropLocked(next_seq) /\ UNCHANGED <<pending, queued>>
        \/ ~Full /\ EnqueueLocked(next_seq, len) /\ UNCHANGED dropVars
    BY <1>1, PushCases, Zenon
  <2>1. ~closed /\ next_seq' = next_seq + 1 /\ UNCHANGED <<lostInflight, out, discarded, closed>>
    BY <1>1 DEF Push, IssueSeq, inflightVars, ghostVars
  <2>2. CASE NoteDropLocked(next_seq) /\ UNCHANGED <<pending, queued>>
    BY <2>1, <2>2 DEF NoteDropLocked, LogStep, Loses
  <2>3. CASE EnqueueLocked(next_seq, len) /\ UNCHANGED dropVars
    BY <2>1, <2>3, ConstantsAssumption DEF EnqueueLocked, dropVars, LogStep, Keeps
  <2> QED
    BY <2>0, <2>2, <2>3
<1>2. ASSUME NEW p \in Producers, Drop(p)
      PROVE  LogStep
  BY <1>2 DEF Drop, IssueSeq, NoteDropLocked, inflightVars, ghostVars, LogStep, Loses
<1>3. ASSUME NEW p \in Producers, Close(p)
      PROVE  LogStep
  BY <1>3 DEF Close, queueVars, dropVars, inflightVars, ghostVars, LogStep, Closes
<1>4. ASSUME NEW p \in Producers, ProducerWake(p)
      PROVE  LogStep
  BY <1>4 DEF ProducerWake, queueVars, dropVars, inflightVars, syncVars, ghostVars,
     LogStep, Nothing
<1>5. ASSUME NEW r \in Readers, NEW c \in Counts, NEW nb \in BOOLEAN, ReadCall(r, c, nb)
      PROVE  LogStep
  BY <1>5 DEF ReadCall, queueVars, dropVars, inflightVars, syncVars, ghostVars, LogStep,
     Nothing
<1>6. ASSUME NEW r \in Readers, ReadLock(r)
      PROVE  LogStep
  BY <1>6 DEF ReadLock, queueVars, dropVars, inflightVars, syncVars, ghostVars, LogStep,
     Nothing
<1>7. ASSUME NEW r \in Readers, ReadLockInterrupted(r)
      PROVE  LogStep
  BY <1>7 DEF ReadLockInterrupted, queueVars, dropVars, inflightVars, syncVars,
     ghostVars, LogStep, Nothing
<1>8. ASSUME NEW r \in Readers, WaitInterrupted(r)
      PROVE  LogStep
  BY <1>8 DEF WaitInterrupted, queueVars, dropVars, inflightVars, syncVars, ghostVars,
     LogStep, Nothing
<1>9. ASSUME NEW r \in Readers, WaitHasData(r)
      PROVE  LogStep
  BY <1>9 DEF WaitHasData, queueVars, dropVars, inflightVars, syncVars, ghostVars,
     LogStep, Nothing
<1>10. ASSUME NEW r \in Readers, WaitIsClosed(r)
      PROVE  LogStep
  BY <1>10 DEF WaitIsClosed, queueVars, dropVars, inflightVars, syncVars, ghostVars,
     LogStep, Nothing
<1>11. ASSUME NEW r \in Readers, WaitPrepare(r)
      PROVE  LogStep
  BY <1>11 DEF WaitPrepare, queueVars, dropVars, inflightVars, syncVars, ghostVars,
     LogStep, Nothing
<1>12. ASSUME NEW r \in Readers, WaitConditionClosed(r)
      PROVE  LogStep
  BY <1>12 DEF WaitConditionClosed, WaitCondition, queueVars, dropVars, inflightVars,
     syncVars, ghostVars, LogStep, Nothing
<1>13. ASSUME NEW r \in Readers, WaitConditionData(r)
      PROVE  LogStep
  BY <1>13 DEF WaitConditionData, WaitCondition, queueVars, dropVars, inflightVars,
     syncVars, ghostVars, LogStep, Nothing
<1>14. ASSUME NEW r \in Readers, WaitWoken(r)
      PROVE  LogStep
  BY <1>14 DEF WaitWoken, queueVars, dropVars, inflightVars, syncVars, ghostVars,
     LogStep, Nothing
<1>15. ASSUME NEW r \in Readers, ReadDropNone(r)
      PROVE  LogStep
  BY <1>15 DEF ReadDropNone, queueVars, dropVars, inflightVars, syncVars, ghostVars,
     LogStep, Nothing
<1>16. ASSUME NEW r \in Readers, ReadDropNoRoom(r)
      PROVE  LogStep
  BY <1>16 DEF ReadDropNoRoom, queueVars, dropVars, inflightVars, syncVars, ghostVars,
     LogStep, Nothing
<1>17. ASSUME NEW r \in Readers, ReadDropTake(r)
      PROVE  LogStep
  <2>1. lostInflight = {}
    BY <1>17 DEF ReadDropTake, At, TypeOK, LockInv, DropInv
  <2> QED
    BY <1>17, <2>1 DEF ReadDropTake, queueVars, syncVars, ghostVars, LogStep, Moves, Lost
<1>18. ASSUME NEW r \in Readers, ReadDropDone(r)
      PROVE  LogStep
  <2>1. lostInflight # {}
    BY <1>18 DEF ReadDropDone, At, DropInv
  <2>2. info[r] = [dropped |-> dropped_inflight, first |-> dropped_inflight_first_seq,
                   last |-> dropped_inflight_last_seq]
    BY <1>18 DEF ReadDropDone, At, DropInv, DropRangeExact
  <2>3. /\ dropped_inflight = Cardinality(lostInflight)
        /\ Log!IsLeast(dropped_inflight_first_seq, lostInflight)
        /\ Log!IsGreatest(dropped_inflight_last_seq, lostInflight)
    BY <2>1 DEF DropInv, DropRangeExact, CountersOf
  <2>4. PICK f, l : f = dropped_inflight_first_seq /\ l = dropped_inflight_last_seq
    OBVIOUS
  <2>5. out' = Append(out, [dropped |-> Cardinality(lostInflight), first |-> f,
                            last |-> l, seqs |-> lostInflight])
    BY <1>18, <2>2, <2>3, <2>4 DEF ReadDropDone
  <2>6. lostInflight' = {} /\ UNCHANGED <<lostPending, pending, next_seq, discarded, closed>>
    BY <1>18 DEF ReadDropDone, ClearInflight, queueVars, dropVars, syncVars
  <2> QED
    BY <2>1, <2>3, <2>4, <2>5, <2>6 DEF LogStep, Reports
<1>19. ASSUME NEW r \in Readers, ReadDropRestore(r)
      PROVE  LogStep
  <2>1. Lost' = Lost
    BY <1>19 DEF ReadDropRestore, RestoreInflight, ClearInflight, Lost
  <2> QED
    BY <1>19, <2>1 DEF ReadDropRestore, queueVars, syncVars, ghostVars, LogStep, Moves
<1>20. ASSUME NEW r \in Readers, ReadNodeEmpty(r)
      PROVE  LogStep
  BY <1>20 DEF ReadNodeEmpty, queueVars, dropVars, inflightVars, syncVars, ghostVars,
     LogStep, Nothing
<1>21. ASSUME NEW r \in Readers, ReadNodeNoRoom(r)
      PROVE  LogStep
  BY <1>21 DEF ReadNodeNoRoom, queueVars, dropVars, inflightVars, syncVars, ghostVars,
     LogStep, Nothing
<1>22. ASSUME NEW r \in Readers, ReadNodePeek(r)
      PROVE  LogStep
  BY <1>22 DEF ReadNodePeek, queueVars, dropVars, inflightVars, syncVars, ghostVars,
     LogStep, Nothing
<1>23. ASSUME NEW r \in Readers, ReadNodeDone(r)
      PROVE  LogStep
  <2>1. pending # <<>> /\ Head(pending) = node[r]
    BY <1>23 DEF ReadNodeDone, At, PeekedNodeLinked
  <2> QED
    BY <1>23, <2>1 DEF ReadNodeDone, dropVars, inflightVars, syncVars, LogStep, Delivers
<1>24. ASSUME NEW r \in Readers, ReadNodeFault(r)
      PROVE  LogStep
  BY <1>24 DEF ReadNodeFault, queueVars, dropVars, inflightVars, syncVars, ghostVars,
     LogStep, Nothing
<1>25. ASSUME NEW r \in Readers, ReadUnlock(r)
      PROVE  LogStep
  BY <1>25 DEF ReadUnlock, queueVars, dropVars, inflightVars, syncVars, ghostVars,
     LogStep, Nothing
<1>26. CASE DestroyClose
  BY <1>26 DEF DestroyClose, queueVars, dropVars, inflightVars, ghostVars, LogStep, Closes
<1>27. CASE DestroyWake
  BY <1>27 DEF DestroyWake, queueVars, dropVars, inflightVars, syncVars, ghostVars,
     LogStep, Nothing
<1>28. CASE DestroyLock
  BY <1>28 DEF DestroyLock, queueVars, dropVars, inflightVars, syncVars, ghostVars,
     LogStep, Nothing
<1>29. CASE DestroyFree
  BY <1>29 DEF DestroyFree, ClearInflight, OrderInv, LogStep, Discards, Lost
<1>30. CASE DestroyUnlock
  BY <1>30 DEF DestroyUnlock, queueVars, dropVars, inflightVars, syncVars, ghostVars,
     LogStep, Nothing
<1>31. CASE UNCHANGED vars
  BY <1>31 DEF vars, queueVars, dropVars, inflightVars, syncVars, ghostVars, LogStep,
     Nothing
<1> QED
  BY <1>1, <1>2, <1>3, <1>4, <1>5, <1>6, <1>7, <1>8, <1>9, <1>10, <1>11, <1>12, <1>13,
     <1>14, <1>15, <1>16, <1>17, <1>18, <1>19, <1>20, <1>21, <1>22, <1>23, <1>24, <1>25,
     <1>26, <1>27, <1>28, <1>29, <1>30, <1>31 DEF Next, ProducerNext, ReaderNext,
     ReaderStep, DestroyNext

\* Appending a later number keeps the order and adds the number.
LEMMA KeepsOrder ==
  ASSUME TypeOK, OrderInv, Keeps
  PROVE /\ PendingSeqs' = PendingSeqs \cup {next_seq}
        /\ \A i, j \in DOMAIN pending' : i < j => pending'[i].seq < pending'[j].seq
        /\ \A i \in DOMAIN pending' : pending'[i].seq \in 1 .. next_seq' - 1
<1>1. PICK q \in Seq(Node) : q = pending
  BY DEF TypeOK
<1>2. PICK len \in Nat : pending' = Append(pending, [seq |-> next_seq, len |-> len])
  BY DEF Keeps
<1>3. PICK n \in Node : n = [seq |-> next_seq, len |-> len] /\ n.seq = next_seq
  <2>1. next_seq \in Nat
    BY DEF TypeOK
  <2>2. [seq |-> next_seq, len |-> len] \in Node
    BY <2>1 DEF Node
  <2> QED
    BY <2>2
<1>4. PICK r : r = Append(q, n)
  OBVIOUS
<1>5. /\ DOMAIN r = 1 .. Len(q) + 1 /\ DOMAIN q = 1 .. Len(q) /\ Len(q) \in Nat
      /\ r[Len(q) + 1] = n /\ \A i \in 1 .. Len(q) : r[i] = q[i]
  BY <1>4
<1>6. pending' = r
  BY <1>1, <1>2, <1>3, <1>4
<1>7. \A i \in 1 .. Len(q) : q[i].seq \in 1 .. next_seq - 1
  BY <1>1, <1>5 DEF OrderInv
<1>8. \A i \in DOMAIN r : i \in 1 .. Len(q) \/ i = Len(q) + 1
  BY <1>5
<1>9. PendingSeqs' = PendingSeqs \cup {next_seq}
  <2>1. PendingSeqs = {q[i].seq : i \in 1 .. Len(q)}
    BY <1>1, <1>5 DEF PendingSeqs
  <2>2. PendingSeqs' = {r[i].seq : i \in DOMAIN r}
    BY <1>6 DEF PendingSeqs
  <2> QED
    BY <1>3, <1>5, <1>8, <2>1, <2>2
<1>10. next_seq \in Nat \ {0} /\ next_seq' = next_seq + 1
  BY DEF TypeOK, Keeps
<1>11. \A i \in DOMAIN r : r[i].seq \in 1 .. next_seq' - 1
  BY <1>3, <1>5, <1>7, <1>8, <1>10
<1>12. \A i, j \in 1 .. Len(q) : i < j => q[i].seq < q[j].seq
  BY <1>1, <1>5 DEF OrderInv
<1>13. ASSUME NEW i \in DOMAIN r, NEW j \in DOMAIN r, i < j PROVE r[i].seq < r[j].seq
  <2>1. i \in 1 .. Len(q)
    BY <1>5, <1>13
  <2>2. CASE j \in 1 .. Len(q)
    BY <1>5, <1>12, <1>13, <2>1, <2>2
  <2>3. CASE j = Len(q) + 1
    BY <1>3, <1>5, <1>7, <1>10, <2>1, <2>3
  <2> QED
    BY <1>8, <2>2, <2>3
<1> QED
  BY <1>6, <1>9, <1>11, <1>13

\* The head is the least number; unlinking it leaves the others in order.
LEMMA DeliversOrder ==
  ASSUME TypeOK, OrderInv, Delivers
  PROVE /\ Head(pending).seq \in PendingSeqs
        /\ \A s \in PendingSeqs : Head(pending).seq <= s
        /\ PendingSeqs' = PendingSeqs \ {Head(pending).seq}
        /\ \A i, j \in DOMAIN pending' : i < j => pending'[i].seq < pending'[j].seq
        /\ \A i \in DOMAIN pending' : pending'[i].seq \in 1 .. next_seq' - 1
<1>1. PICK q \in Seq(Node) : q = pending
  BY DEF TypeOK
<1>2. q # <<>> /\ Len(q) \in Nat /\ Len(q) >= 1 /\ DOMAIN q = 1 .. Len(q) /\ Head(q) = q[1]
  BY <1>1 DEF Delivers
<1>3. \A i, j \in 1 .. Len(q) : i < j => q[i].seq < q[j].seq
  BY <1>1, <1>2 DEF OrderInv
<1>4. \A i \in 1 .. Len(q) : q[i].seq \in 1 .. next_seq - 1 /\ q[i].seq \in Int
  <2>1. \A i \in 1 .. Len(q) : q[i].seq \in 1 .. next_seq - 1
    BY <1>1, <1>2 DEF OrderInv
  <2> QED
    BY <2>1
<1>5. 1 \in 1 .. Len(q) /\ \A i \in 1 .. Len(q) : i = 1 \/ 1 < i
  BY <1>2
<1>6. \A i \in 1 .. Len(q) : q[i] = Head(q) => i = 1
  BY <1>2, <1>3, <1>4, <1>5
<1>7. (CHOOSE j \in 1 .. Len(q) : q[j] = Head(q)) = 1
  BY <1>2, <1>5, <1>6
<1>8. PICK r : r = [j \in 1 .. Len(q) - 1 |-> q[j + 1]]
  OBVIOUS
<1>9. Unlink(q, Head(q)) = r
  <2>1. Unlink(q, Head(q)) = [j \in 1 .. Len(q) - 1 |-> IF j < 1 THEN q[j] ELSE q[j + 1]]
    BY <1>7 DEF Unlink
  <2>2. \A j \in 1 .. Len(q) - 1 : ~(j < 1)
    BY <1>2
  <2> QED
    BY <1>8, <2>1, <2>2
<1>10. pending' = r
  BY <1>1, <1>9 DEF Delivers
<1>11. DOMAIN r = 1 .. Len(q) - 1 /\ \A i \in 1 .. Len(q) - 1 : r[i] = q[i + 1] /\ i + 1 \in 1 .. Len(q)
  BY <1>2, <1>8
<1>12. PendingSeqs = {q[i].seq : i \in 1 .. Len(q)}
  BY <1>1, <1>2 DEF PendingSeqs
<1>13. PendingSeqs' = {r[i].seq : i \in 1 .. Len(q) - 1}
  BY <1>10, <1>11 DEF PendingSeqs
<1>14. \A i \in 1 .. Len(q) : q[1].seq <= q[i].seq /\ (q[i].seq = q[1].seq => i = 1)
  BY <1>3, <1>4, <1>5
<1>15. PendingSeqs' = PendingSeqs \ {q[1].seq}
  <2>1. ASSUME NEW i \in 1 .. Len(q) - 1 PROVE r[i].seq \in PendingSeqs \ {q[1].seq}
    <3>1. i + 1 \in 1 .. Len(q) /\ i + 1 # 1 /\ r[i] = q[i + 1]
      BY <1>2, <1>11
    <3> QED
      BY <1>12, <1>14, <3>1
  <2>2. ASSUME NEW i \in 1 .. Len(q), q[i].seq # q[1].seq PROVE q[i].seq \in PendingSeqs'
    <3>1. i - 1 \in 1 .. Len(q) - 1 /\ (i - 1) + 1 = i
      BY <1>2, <2>2
    <3> QED
      BY <1>11, <1>13, <3>1
  <2> QED
    BY <1>12, <1>13, <2>1, <2>2
<1>16. \A i \in DOMAIN r : r[i].seq \in 1 .. next_seq - 1
  BY <1>4, <1>11
<1>17. ASSUME NEW i \in DOMAIN r, NEW j \in DOMAIN r, i < j PROVE r[i].seq < r[j].seq
  <2>1. i + 1 < j + 1
    BY <1>2, <1>11, <1>17
  <2> QED
    BY <1>3, <1>11, <2>1
<1>18. next_seq' = next_seq
  BY DEF Delivers
<1>19. Head(pending) = q[1]
  BY <1>1, <1>2
<1> QED
  BY <1>5, <1>10, <1>12, <1>14, <1>15, <1>16, <1>17, <1>18, <1>19

\* The empty list is in order.
LEMMA OrderInit == Init => OrderInv
  BY DEF Init, OrderInv

\* Every step keeps the list in order.
LEMMA OrderStep == ListInv /\ DropInv /\ OrderInv /\ [Next]_vars => OrderInv'
<1> SUFFICES ASSUME ListInv, DropInv, OrderInv, [Next]_vars PROVE OrderInv'
  OBVIOUS
<1>1. LogStep
  BY LogSteps
<1>2. TypeOK
  BY DEF ListInv
<1>3. dpc' # "none" => closed'
  <2>1. CASE dpc' = dpc
    <3>1. closed => closed'
      BY <1>1, <1>2 DEF LogStep, Nothing, Closes, Keeps, Loses, Moves, Reports, Delivers, Discards
    <3> QED
      BY <2>1, <3>1 DEF OrderInv
  <2>2. CASE DestroyClose \/ DestroyWake \/ DestroyLock \/ DestroyFree \/ DestroyUnlock
    BY <2>2 DEF DestroyClose, DestroyWake, DestroyLock, DestroyFree, DestroyUnlock, OrderInv
  <2>3. ASSUME NEW p \in Producers, ProducerNext(p) PROVE dpc' = dpc
    BY <2>3 DEF ProducerNext, Push, Drop, Close, ProducerWake
  <2>4. ASSUME NEW r \in Readers, ReaderNext(r) PROVE dpc' = dpc
    BY <2>4 DEF ReaderNext, ReaderStep, ReadCall, ReadLock, ReadLockInterrupted, WaitInterrupted,
       WaitHasData, WaitIsClosed, WaitPrepare, WaitConditionClosed, WaitConditionData,
       WaitCondition, WaitWoken, ReadDropNone, ReadDropNoRoom, ReadDropTake, ReadDropDone,
       ReadDropRestore, ReadNodeEmpty, ReadNodeNoRoom, ReadNodePeek, ReadNodeDone, ReadNodeFault,
       ReadUnlock, syncVars
  <2> QED
    BY <2>1, <2>2, <2>3, <2>4 DEF Next, DestroyNext, vars, syncVars
<1>4. CASE Keeps
  BY <1>2, <1>3, <1>4, KeepsOrder DEF OrderInv
<1>5. CASE Delivers
  BY <1>2, <1>3, <1>5, DeliversOrder DEF OrderInv
<1>6. CASE UNCHANGED <<pending, next_seq>>
  BY <1>3, <1>6 DEF OrderInv
<1>7. CASE Loses
  BY <1>2, <1>3, <1>7 DEF Loses, OrderInv, TypeOK
<1>8. CASE Discards
  BY <1>3, <1>8 DEF Discards, OrderInv
<1> QED
  BY <1>1, <1>4, <1>5, <1>6, <1>7, <1>8 DEF LogStep, Nothing, Closes, Moves, Reports

\* The list is always in order.
LEMMA OrderAlways == Spec => []OrderInv
<1>1. ListInv /\ DropInv /\ OrderInv /\ [Next]_vars => OrderInv'
  BY OrderStep
<1> QED
  BY <1>1, OrderInit, ListInvariant, DropInvariant, PTL DEF Spec

-----------------------------------------------------------------------------
(* event_queue.c implements the abstract log.                               *)

\* An initialised queue is an empty log.
LEMMA RefinesInit == Init => Log!Init
  BY DEF Init, Log!Init, PendingSeqs

\* The cardinality that EventLog speaks of is the one the counters are compared with.
LEMMA SameCardinality == \A S : Log!Cardinality(S) = Cardinality(S)
  BY DEF Log!Cardinality, Cardinality

\* Every step of the queue is a step of the log, or none.
LEMMA RefinesStep ==
  ListInv /\ DropInv /\ OrderInv /\ [Next]_vars => [Log!Next]_(Log!logVars)
<1> SUFFICES ASSUME ListInv, DropInv, OrderInv, [Next]_vars PROVE [Log!Next]_(Log!logVars)
  OBVIOUS
<1>1. LogStep
  BY LogSteps
<1>2. TypeOK /\ next_seq \in Nat
  BY DEF ListInv, TypeOK
<1>3. UNCHANGED pending => PendingSeqs' = PendingSeqs
  BY DEF PendingSeqs
<1>4. CASE Nothing
  BY <1>3, <1>4 DEF Nothing, Log!logVars
<1>5. CASE Moves
  BY <1>3, <1>5 DEF Moves, Lost, Log!logVars
<1>6. CASE Closes
  BY <1>3, <1>6 DEF Closes, Log!Next, Log!Close
<1>7. CASE Keeps
  <2>1. PendingSeqs' = PendingSeqs \cup {next_seq}
    BY <1>2, <1>7, KeepsOrder
  <2>2. Log!Offer
    BY <1>2, <1>7, <2>1 DEF Keeps, Log!Offer
  <2> QED
    BY <2>2 DEF Log!Next
<1>8. CASE Loses
  <2>1. Log!Offer
    BY <1>2, <1>3, <1>8 DEF Loses, Log!Offer
  <2> QED
    BY <2>1 DEF Log!Next
<1>9. CASE Delivers
  <2>1. PICK s : s = Head(pending).seq
    OBVIOUS
  <2>2. s \in PendingSeqs /\ (\A x \in PendingSeqs : s <= x) /\ PendingSeqs' = PendingSeqs \ {s}
    BY <1>2, <1>9, <2>1, DeliversOrder
  <2>3. out' = Append(out, Log!EventEntry(s))
    BY <1>9, <2>1 DEF Delivers, Log!EventEntry
  <2>4. Log!Deliver
    BY <1>9, <2>2, <2>3 DEF Delivers, Log!Deliver, Log!IsLeast
  <2> QED
    BY <2>4 DEF Log!Next
<1>10. CASE Reports
  <2>1. PICK f, l : /\ Log!IsLeast(f, lostInflight) /\ Log!IsGreatest(l, lostInflight)
                    /\ out' = Append(out, [dropped |-> Cardinality(lostInflight), first |-> f,
                                           last |-> l, seqs |-> lostInflight])
    BY <1>10 DEF Reports
  <2>2. \A s \in lostInflight, t \in lostPending : s < t
    BY DEF DropInv, DropRangeExact
  <2>3. lostInflight \cap lostPending = {}
    BY <1>2, <2>2 DEF TypeOK
  <2>4. PICK S : S = lostInflight
    OBVIOUS
  <2>5. S # {} /\ S \in SUBSET (lostPending \cup lostInflight)
        /\ (lostPending \cup lostInflight) \ S = lostPending
    BY <1>10, <2>3, <2>4 DEF Reports
  <2>6. (lostPending \cup lostInflight)' = (lostPending \cup lostInflight) \ S
    BY <1>10, <2>5 DEF Reports
  <2>7. PICK e : e = [dropped |-> Cardinality(S), first |-> f, last |-> l, seqs |-> S]
    OBVIOUS
  <2>8. e.seqs = S /\ e.dropped = Cardinality(S) /\ e.first = f /\ e.last = l
    BY <2>7
  <2>9. Log!Describes(e, S) /\ out' = Append(out, e) /\ f \in S /\ l \in S
    <3>1. e.dropped = Log!Cardinality(S)
      BY <2>8, SameCardinality
    <3> QED
      BY <2>1, <2>4, <2>7, <2>8, <3>1 DEF Log!Describes, Log!IsLeast, Log!IsGreatest
  <2>10. UNCHANGED <<next_seq, PendingSeqs, discarded, closed>>
    BY <1>3, <1>10 DEF Reports
  <2>11. e = [dropped |-> Log!Cardinality(S), first |-> f, last |-> l, seqs |-> S]
    BY <2>7, SameCardinality
  <2>12. \A s \in S, t \in (lostPending \cup lostInflight) \ S : s < t
    BY <2>2, <2>4, <2>5
  <2>13. Log!Report
    BY <2>5, <2>6, <2>9, <2>10, <2>11, <2>12 DEF Log!Report
  <2> QED
    BY <2>13 DEF Log!Next
<1>11. CASE Discards
  <2>1. PendingSeqs' = {}
    BY <1>11 DEF Discards, PendingSeqs
  <2>2. Log!Discard
    BY <1>11, <2>1 DEF Discards, Lost, Log!Discard
  <2> QED
    BY <2>2 DEF Log!Next
<1> QED
  BY <1>1, <1>4, <1>5, <1>6, <1>7, <1>8, <1>9, <1>10, <1>11 DEF LogStep

\* event_queue.c implements EventLog: every step of a reader, a producer or the
\* destroyer is a step of the abstract log, or leaves it as it is.
THEOREM ImplementsTheLog == Spec => LogSpec
<1>1. Init => Log!Init
  BY RefinesInit
<1>2. ListInv /\ DropInv /\ OrderInv /\ [Next]_vars => [Log!Next]_(Log!logVars)
  BY RefinesStep
<1> QED
  BY <1>1, <1>2, ListInvariant, DropInvariant, OrderAlways, PTL DEF Spec, LogSpec, Log!Spec

-----------------------------------------------------------------------------
(* Every event is in exactly one place.                                     *)

\* What was handed out, what is in the list, what is lost and what was thrown
\* away have nothing in common and make up all numbers; so do the records.
Parts(H, K, L, D, n) ==
  /\ 1 .. n - 1 = H \cup K \cup L \cup D
  /\ H \cap (K \cup L \cup D) = {} /\ K \cap (L \cup D) = {} /\ L \cap D = {}

OnceInv ==
  /\ Parts(HandedOut, PendingSeqs, Lost, discarded, next_seq)
  /\ \A i, j \in DOMAIN out : i # j => out[i].seqs \cap out[j].seqs = {}

\* A record of events that no other record has
LEMMA HandsOut ==
  ASSUME TypeOK, OnceInv, NEW e \in Entry, e.seqs \cap HandedOut = {}, out' = Append(out, e)
  PROVE /\ HandedOut' = HandedOut \cup e.seqs
        /\ \A i, j \in DOMAIN out' : i # j => out'[i].seqs \cap out'[j].seqs = {}
<1>1. PICK q \in Seq(Entry) : q = out
  BY DEF TypeOK
<1>2. PICK r : r = Append(q, e)
  OBVIOUS
<1>3. /\ DOMAIN r = 1 .. Len(q) + 1 /\ DOMAIN q = 1 .. Len(q) /\ Len(q) \in Nat
      /\ r[Len(q) + 1] = e /\ \A i \in 1 .. Len(q) : r[i] = q[i]
  BY <1>2
<1>4. out' = r
  BY <1>1, <1>2
<1>5. \A i \in DOMAIN r : i \in 1 .. Len(q) \/ i = Len(q) + 1
  BY <1>3
<1>6. \A x : x \in HandedOut <=> \E i \in 1 .. Len(q) : x \in q[i].seqs
  BY <1>1, <1>3 DEF HandedOut
<1>7. \A x : x \in HandedOut' <=> \E i \in DOMAIN r : x \in r[i].seqs
  BY <1>4 DEF HandedOut
<1>8. HandedOut' = HandedOut \cup e.seqs
  <2>1. \A x : x \in HandedOut' => x \in HandedOut \/ x \in e.seqs
    BY <1>3, <1>5, <1>6, <1>7
  <2>2. \A x : x \in HandedOut => x \in HandedOut'
    BY <1>3, <1>6, <1>7
  <2>3. \A x : x \in e.seqs => x \in HandedOut'
    BY <1>3, <1>7
  <2> QED
    BY <2>1, <2>2, <2>3
<1>9. \A i, j \in 1 .. Len(q) : i # j => q[i].seqs \cap q[j].seqs = {}
  BY <1>1, <1>3 DEF OnceInv
<1>10. \A i \in 1 .. Len(q) : q[i].seqs \cap e.seqs = {} /\ e.seqs \cap q[i].seqs = {}
  BY <1>6
<1>11. ASSUME NEW i \in DOMAIN r, NEW j \in DOMAIN r, i # j PROVE r[i].seqs \cap r[j].seqs = {}
  BY <1>3, <1>5, <1>9, <1>10, <1>11
<1> QED
  BY <1>4, <1>8, <1>11

\* No event exists at first.
LEMMA OnceInit == Init => OnceInv
<1> SUFFICES ASSUME Init PROVE OnceInv
  OBVIOUS
<1>1. HandedOut = {} /\ PendingSeqs = {} /\ Lost = {} /\ discarded = {} /\ next_seq = 1
  BY DEF Init, HandedOut, PendingSeqs, Lost
<1>2. 1 .. 1 - 1 = {}
  OBVIOUS
<1> QED
  BY <1>1, <1>2 DEF Init, OnceInv, Parts

\* Every step keeps the events divided into the five parts.
LEMMA OnceStep == ListInv /\ DropInv /\ OrderInv /\ OnceInv /\ [Next]_vars => OnceInv'
<1> SUFFICES ASSUME ListInv, DropInv, OrderInv, OnceInv, [Next]_vars PROVE OnceInv'
  OBVIOUS
<1>1. LogStep
  BY LogSteps
<1>2. TypeOK /\ next_seq \in Nat \ {0}
  BY DEF ListInv, TypeOK
<1>3. /\ UNCHANGED pending => PendingSeqs' = PendingSeqs
      /\ UNCHANGED out => HandedOut' = HandedOut
      /\ UNCHANGED <<lostPending, lostInflight>> => Lost' = Lost
  BY DEF PendingSeqs, HandedOut, Lost
<1>4. Parts(HandedOut, PendingSeqs, Lost, discarded, next_seq)
  BY DEF OnceInv
<1>5. ASSUME next_seq' = next_seq + 1
      PROVE  /\ next_seq \notin HandedOut \cup PendingSeqs \cup Lost \cup discarded
             /\ 1 .. next_seq' - 1 = (1 .. next_seq - 1) \cup {next_seq}
  <2>1. next_seq \notin 1 .. next_seq - 1
    BY <1>2
  <2> QED
    BY <1>2, <1>4, <1>5, <2>1 DEF Parts
<1>6. CASE Nothing \/ Closes \/ Moves
  BY <1>3, <1>6 DEF Nothing, Closes, Moves, OnceInv
<1>7. CASE Keeps
  <2>1. PendingSeqs' = PendingSeqs \cup {next_seq}
    BY <1>2, <1>7, KeepsOrder
  <2>2. UNCHANGED <<HandedOut, Lost, discarded, out>> /\ next_seq' = next_seq + 1
    BY <1>3, <1>7 DEF Keeps
  <2>3. Parts(HandedOut', PendingSeqs', Lost', discarded', next_seq')
    BY <1>4, <1>5, <2>1, <2>2 DEF Parts
  <2> QED
    BY <2>2, <2>3 DEF OnceInv
<1>8. CASE Loses
  <2>1. Lost' = Lost \cup {next_seq}
    BY <1>8 DEF Loses, Lost
  <2>2. UNCHANGED <<HandedOut, PendingSeqs, discarded, out>> /\ next_seq' = next_seq + 1
    BY <1>3, <1>8 DEF Loses
  <2>3. Parts(HandedOut', PendingSeqs', Lost', discarded', next_seq')
    BY <1>4, <1>5, <2>1, <2>2 DEF Parts
  <2> QED
    BY <2>2, <2>3 DEF OnceInv
<1>9. CASE Delivers
  <2>1. PICK s : s = Head(pending).seq
    OBVIOUS
  <2>2. s \in PendingSeqs /\ PendingSeqs' = PendingSeqs \ {s}
    BY <1>2, <1>9, <2>1, DeliversOrder
  <2>3. s \in Nat
    <3>1. s \in 1 .. next_seq - 1
      BY <1>4, <2>2 DEF Parts
    <3> QED
      BY <3>1
  <2>4. PICK e \in Entry : e = [dropped |-> 0, first |-> s, last |-> s, seqs |-> {s}] /\ e.seqs = {s}
    <3>1. PICK S \in SUBSET Nat : S = {s}
      BY <2>3
    <3>2. [dropped |-> 0, first |-> s, last |-> s, seqs |-> S] \in Entry
      BY <2>3 DEF Entry
    <3> QED
      BY <3>1, <3>2
  <2>5. out' = Append(out, e)
    BY <1>9, <2>1, <2>4 DEF Delivers
  <2>6. e.seqs \cap HandedOut = {}
    BY <1>4, <2>2, <2>4 DEF Parts
  <2>7. /\ HandedOut' = HandedOut \cup e.seqs
        /\ \A i, j \in DOMAIN out' : i # j => out'[i].seqs \cap out'[j].seqs = {}
    BY <1>2, <2>5, <2>6, HandsOut
  <2>8. UNCHANGED <<Lost, discarded, next_seq>>
    BY <1>3, <1>9 DEF Delivers
  <2>9. Parts(HandedOut', PendingSeqs', Lost', discarded', next_seq')
    BY <1>4, <2>2, <2>4, <2>7, <2>8 DEF Parts
  <2> QED
    BY <2>7, <2>9 DEF OnceInv
<1>10. CASE Reports
  <2>1. PICK f, l : /\ f \in lostInflight /\ l \in lostInflight
                    /\ out' = Append(out, [dropped |-> Cardinality(lostInflight), first |-> f,
                                           last |-> l, seqs |-> lostInflight])
    BY <1>10 DEF Reports, Log!IsLeast, Log!IsGreatest
  <2>2. lostInflight \in SUBSET Nat /\ Cardinality(lostInflight) \in Nat
    BY <1>2, FS_CardinalityType DEF TypeOK, DropInv, DropRangeExact, CountersOf
  <2>3. PICK e \in Entry : /\ e = [dropped |-> Cardinality(lostInflight), first |-> f,
                                   last |-> l, seqs |-> lostInflight]
                           /\ e.seqs = lostInflight
    <3>1. f \in Nat /\ l \in Nat
      BY <2>1, <2>2
    <3>2. PICK c \in Nat : c = Cardinality(lostInflight)
      BY <2>2
    <3>3. [dropped |-> c, first |-> f, last |-> l, seqs |-> lostInflight] \in Entry
      BY <2>2, <3>1 DEF Entry
    <3> QED
      BY <3>2, <3>3
  <2>4. out' = Append(out, e)
    BY <2>1, <2>3
  <2>5. e.seqs \cap HandedOut = {}
    BY <1>4, <2>3 DEF Parts, Lost
  <2>6. /\ HandedOut' = HandedOut \cup e.seqs
        /\ \A i, j \in DOMAIN out' : i # j => out'[i].seqs \cap out'[j].seqs = {}
    BY <1>2, <2>4, <2>5, HandsOut
  <2>7. \A s \in lostInflight, t \in lostPending : s < t
    BY DEF DropInv, DropRangeExact
  <2>8. lostInflight \cap lostPending = {}
    BY <1>2, <2>7 DEF TypeOK
  <2>9. Lost' = Lost \ lostInflight /\ lostInflight \subseteq Lost
    BY <1>10, <2>8 DEF Reports, Lost
  <2>10. UNCHANGED <<PendingSeqs, discarded, next_seq>>
    BY <1>3, <1>10 DEF Reports
  <2>11. Parts(HandedOut', PendingSeqs', Lost', discarded', next_seq')
    BY <1>4, <2>3, <2>6, <2>9, <2>10 DEF Parts
  <2> QED
    BY <2>6, <2>11 DEF OnceInv
<1>11. CASE Discards
  <2>1. PendingSeqs' = {} /\ Lost' = {} /\ discarded' = discarded \cup PendingSeqs \cup Lost
    BY <1>11 DEF Discards, PendingSeqs, Lost
  <2>2. UNCHANGED <<HandedOut, out, next_seq>>
    BY <1>3, <1>11 DEF Discards
  <2>3. Parts(HandedOut', PendingSeqs', Lost', discarded', next_seq')
    BY <1>4, <2>1, <2>2 DEF Parts
  <2> QED
    BY <2>2, <2>3 DEF OnceInv
<1> QED
  BY <1>1, <1>6, <1>7, <1>8, <1>9, <1>10, <1>11 DEF LogStep

\* Every event is handed out, waiting, counted as dropped, being reported or thrown
\* away by destroy: none is lost silently, delivered or reported twice.
THEOREM EveryEventOnce == Spec => []ExactlyOnce
<1>1. ListInv /\ DropInv /\ OrderInv /\ OnceInv /\ [Next]_vars => OnceInv'
  BY OnceStep
<1>2. Spec => []OnceInv
  BY <1>1, OnceInit, ListInvariant, DropInvariant, OrderAlways, PTL DEF Spec
<1>3. ListInv /\ DropInv /\ OrderInv /\ OnceInv => ExactlyOnce
  <2> SUFFICES ASSUME ListInv, DropInv, OrderInv, OnceInv PROVE ExactlyOnce
    OBVIOUS
  <2>1. TypeOK
    BY DEF ListInv
  <2>2. \A s \in lostInflight, t \in lostPending : s < t
    BY DEF DropInv, DropRangeExact
  <2>3. lostPending \cap lostInflight = {}
    BY <2>1, <2>2 DEF TypeOK
  <2>4. ASSUME NEW i \in DOMAIN pending, NEW j \in DOMAIN pending, i # j
        PROVE  pending[i].seq # pending[j].seq
    <3>1. i \in Int /\ j \in Int /\ pending[i].seq \in Int /\ pending[j].seq \in Int
      BY <2>1 DEF TypeOK, OrderInv
    <3>2. i < j \/ j < i
      BY <2>4, <3>1
    <3> QED
      BY <3>1, <3>2 DEF OrderInv
  <2>5. Parts(HandedOut, PendingSeqs, Lost, discarded, next_seq)
    BY DEF OnceInv
  <2>6. \A i, j \in DOMAIN out : i # j => out[i].seqs \cap out[j].seqs = {}
    BY DEF OnceInv
  <2>7. /\ 1 .. next_seq - 1
             = HandedOut \cup PendingSeqs \cup lostPending \cup lostInflight \cup discarded
        /\ HandedOut \cap (PendingSeqs \cup lostPending \cup lostInflight \cup discarded) = {}
        /\ PendingSeqs \cap (lostPending \cup lostInflight \cup discarded) = {}
        /\ lostPending \cap (lostInflight \cup discarded) = {}
        /\ lostInflight \cap discarded = {}
    BY <2>3, <2>5 DEF Parts, Lost
  <2> QED
    BY <2>4, <2>6, <2>7 DEF ExactlyOnce
<1> QED
  BY <1>2, <1>3, ListInvariant, DropInvariant, OrderAlways, PTL

=============================================================================
