----------------------------- MODULE EventQueue -----------------------------
(***************************************************************************)
(* kernel/infra/event_queue.c: a bounded queue of events between kernel    *)
(* threads that push and a reader that copies records to user space.       *)
(*                                                                         *)
(* Every section under queue->lock (a spinlock) is one action.  What the   *)
(* code does between two such sections (copy_to_user, sleeping, waking     *)
(* the wait queue, the mutex read_lock) are actions of their own, so       *)
(* producers, readers, close and destroy interleave wherever the code lets *)
(* them.  The ghost variables at the end of the list record what happened  *)
(* to every sequence number; no action reads them to decide anything.      *)
(***************************************************************************)
EXTENDS Integers, Sequences, FiniteSets

CONSTANTS
  Readers,     \* threads that call ksu_event_queue_read
  Producers,   \* threads that call push, drop and close
  MaxQueued,   \* queue->max_queued, 0 for no limit
  MaxPayload,  \* queue->max_payload_len
  HdrSize,     \* sizeof(struct ksu_event_record_hdr)
  InfoSize,    \* sizeof(struct ksu_event_queue_dropped_info)
  Lens,        \* payload lengths the producers try
  Counts,      \* buffer sizes the readers pass
  MaxSeq,      \* bound of the model: the last sequence number used
  NoOne,       \* read_lock is free
  Destroyer    \* the thread that runs ksu_event_queue_destroy

ASSUME ConstantsAssumption ==
  /\ MaxQueued \in Nat
  /\ MaxPayload \in Nat
  /\ HdrSize \in Nat \ {0}
  /\ InfoSize \in Nat \ {0}
  /\ Lens \subseteq Nat
  /\ Counts \subseteq Nat
  /\ MaxSeq \in Nat
  /\ NoOne \notin Readers
  /\ Destroyer \notin Readers
  /\ NoOne # Destroyer

VARIABLES
  pending,                     \* the list of nodes, oldest first
  queued,
  next_seq,
  dropped_total,
  dropped_pending, dropped_first_seq, dropped_last_seq,
  dropped_inflight, dropped_inflight_first_seq, dropped_inflight_last_seq,
  closed,
  read_lock,                   \* NoOne or the holder
  read_wait,                   \* threads that sleep on the wait queue
  ppc,                         \* producers: "idle" or "wake"
  rpc,                         \* readers: where in ksu_event_queue_read
  count, copied, nonblock,     \* their locals
  node,                        \* the node read_node peeked at
  info,                        \* the dropped_info read_drop filled in
  dpc,                         \* progress of ksu_event_queue_destroy
  lostPending, lostInflight,   \* ghost: the events behind the two counters
  out,                         \* ghost: the records user space got
  discarded                    \* ghost: what destroy threw away

queueVars == <<pending, queued, next_seq>>
dropVars == <<dropped_total, dropped_pending, dropped_first_seq, dropped_last_seq, lostPending>>
inflightVars == <<dropped_inflight, dropped_inflight_first_seq, dropped_inflight_last_seq, lostInflight>>
localVars == <<count, copied, nonblock, node, info>>
syncVars == <<closed, read_lock, read_wait, ppc, dpc>>
ghostVars == <<out, discarded>>
vars == <<queueVars, dropVars, inflightVars, localVars, syncVars, rpc, ghostVars>>

NoNode == [seq |-> 0, len |-> 0]
NoInfo == [dropped |-> 0, first |-> 0, last |-> 0]

RecordSize(len) == HdrSize + len

HasDataLocked ==
  dropped_pending # 0 \/ dropped_inflight # 0 \/ pending # <<>>

Full == MaxQueued # 0 /\ queued >= MaxQueued

-----------------------------------------------------------------------------
\* ksu_event_queue_init
Init ==
  /\ pending = <<>> /\ queued = 0 /\ next_seq = 1
  /\ dropped_total = 0
  /\ dropped_pending = 0 /\ dropped_first_seq = 0 /\ dropped_last_seq = 0
  /\ dropped_inflight = 0 /\ dropped_inflight_first_seq = 0
  /\ dropped_inflight_last_seq = 0
  /\ closed = FALSE /\ read_lock = NoOne /\ read_wait = {}
  /\ ppc = [p \in Producers |-> "idle"]
  /\ rpc = [r \in Readers |-> "idle"]
  /\ count = [r \in Readers |-> 0]
  /\ copied = [r \in Readers |-> "zero"]
  /\ nonblock = [r \in Readers |-> FALSE]
  /\ node = [r \in Readers |-> NoNode]
  /\ info = [r \in Readers |-> NoInfo]
  /\ dpc = "none"
  /\ lostPending = {} /\ lostInflight = {} /\ out = <<>> /\ discarded = {}

-----------------------------------------------------------------------------
(* Producers *)

\* A closed queue takes no event; an open one gives every event a number first.
IssueSeq == ~closed /\ next_seq <= MaxSeq /\ next_seq' = next_seq + 1

NoteDropLocked(seq) ==
  /\ dropped_total' = dropped_total + 1
  /\ dropped_first_seq' = IF dropped_pending = 0 THEN seq ELSE dropped_first_seq
  /\ dropped_pending' = dropped_pending + 1
  /\ dropped_last_seq' = seq
  /\ lostPending' = lostPending \cup {seq}

EnqueueLocked(seq, len) ==
  /\ pending' = Append(pending, [seq |-> seq, len |-> len])
  /\ queued' = queued + 1

\* ksu_event_queue_push.  A payload that is too long, and a closed queue, are
\* refused and leave the queue as it is.  allocated says whether kmalloc gave
\* a node; without one, or without room, the event is counted as dropped.
Push(p, len, allocated) ==
  /\ ppc[p] = "idle"
  /\ len <= MaxPayload
  /\ IssueSeq
  /\ \/ /\ ~allocated \/ Full
        /\ NoteDropLocked(next_seq)
        /\ UNCHANGED <<pending, queued>>
     \/ /\ allocated /\ ~Full
        /\ EnqueueLocked(next_seq, len)
        /\ UNCHANGED dropVars
  /\ ppc' = [ppc EXCEPT ![p] = "wake"]
  /\ UNCHANGED <<inflightVars, localVars, rpc, ghostVars, closed, read_lock, read_wait, dpc>>

\* mutant: nobody is woken for a drop
Drop_noWake(p) ==
  /\ ppc[p] = "idle"
  /\ IssueSeq
  /\ NoteDropLocked(next_seq)
  /\ UNCHANGED <<pending, queued, inflightVars, localVars, syncVars, rpc, ghostVars>>

\* ksu_event_queue_drop: the caller could not even build the event.
Drop(p) ==
  /\ ppc[p] = "idle"
  /\ IssueSeq
  /\ NoteDropLocked(next_seq)
  /\ ppc' = [ppc EXCEPT ![p] = "wake"]
  /\ UNCHANGED <<pending, queued, inflightVars, localVars, rpc, ghostVars,
                 closed, read_lock, read_wait, dpc>>

\* ksu_event_queue_close up to the wake-up
Close(p) ==
  /\ ppc[p] = "idle"
  /\ closed' = TRUE
  /\ ppc' = [ppc EXCEPT ![p] = "wake"]
  /\ UNCHANGED <<queueVars, dropVars, inflightVars, localVars, rpc, ghostVars,
                 read_lock, read_wait, dpc>>

\* mutant: the wake-up is forgotten
WakeReaders_none == UNCHANGED read_wait

\* wake_up_interruptible_poll: every sleeper of the wait queue becomes runnable.
WakeReaders == read_wait' = {}

ProducerWake(p) ==
  /\ ppc[p] = "wake"
  /\ WakeReaders
  /\ ppc' = [ppc EXCEPT ![p] = "idle"]
  /\ UNCHANGED <<queueVars, dropVars, inflightVars, localVars, rpc, ghostVars,
                 closed, read_lock, dpc>>

-----------------------------------------------------------------------------
(* Readers: ksu_event_queue_read and what it calls *)

Goto(r, l) == rpc' = [rpc EXCEPT ![r] = l]
At(r, l) == rpc[r] = l

\* An error ends the read.  It is returned only if nothing was copied before.
FailRead(r, err) ==
  /\ copied' = [copied EXCEPT ![r] = IF @ = "some" THEN @ ELSE err]
  /\ Goto(r, "unlock")

\* A record of the given size was copied: go round the loop while count > 0.
CopiedRecord(r, size) ==
  /\ copied' = [copied EXCEPT ![r] = "some"]
  /\ count' = [count EXCEPT ![r] = @ - size]
  /\ Goto(r, IF count[r] - size > 0 THEN "drop" ELSE "unlock")

\* mutant: a record is taken to fit in a buffer one unit too small
Fits_offByOne(r, size) == count[r] + 1 >= size

\* There is room for a record in what is left of the buffer.
Fits(r, size) == count[r] >= size

ReadCall(r, c, nb) ==
  /\ At(r, "idle")
  /\ c # 0
  /\ count' = [count EXCEPT ![r] = c]
  /\ nonblock' = [nonblock EXCEPT ![r] = nb]
  /\ Goto(r, "lock")
  /\ UNCHANGED <<queueVars, dropVars, inflightVars, syncVars, ghostVars, copied, node, info>>

\* mutex_lock_interruptible, taken or interrupted by a signal
ReadLock(r) ==
  /\ At(r, "lock")
  /\ read_lock = NoOne
  /\ read_lock' = r
  /\ Goto(r, "hasData")
  /\ UNCHANGED <<queueVars, dropVars, inflightVars, localVars, ghostVars,
                 closed, read_wait, ppc, dpc>>

ReadLockInterrupted(r) ==
  /\ At(r, "lock")
  /\ Goto(r, "idle")
  /\ count' = [count EXCEPT ![r] = 0]
  /\ nonblock' = [nonblock EXCEPT ![r] = FALSE]
  /\ UNCHANGED <<queueVars, dropVars, inflightVars, syncVars, ghostVars, copied, node, info>>

\* ksu_event_queue_wait_ready: look for data, then for closed, then sleep.
WaitHasData(r) ==
  /\ At(r, "hasData")
  /\ Goto(r, IF HasDataLocked THEN "drop" ELSE "isClosed")
  /\ UNCHANGED <<queueVars, dropVars, inflightVars, localVars, syncVars, ghostVars>>

\* mutant: closed means end of stream, without looking at the queue again
WaitIsClosed_atOnce(r) ==
  /\ At(r, "isClosed")
  /\ closed
  /\ Goto(r, "unlock")
  /\ UNCHANGED <<queueVars, dropVars, inflightVars, localVars, syncVars, ghostVars>>

WaitIsClosed(r) ==
  /\ At(r, "isClosed")
  /\ \/ /\ closed
        /\ Goto(r, "drop")
        /\ UNCHANGED copied
     \/ /\ ~closed /\ nonblock[r]
        /\ FailRead(r, "EAGAIN")
     \/ /\ ~closed /\ ~nonblock[r]
        /\ Goto(r, "prepare")
        /\ UNCHANGED copied
  /\ UNCHANGED <<queueVars, dropVars, inflightVars, syncVars, ghostVars, count, nonblock, node, info>>

\* wait_event_interruptible: queue up, test the condition, sleep until woken
\* (off the wait queue) or interrupted; after a wake-up start again.
WaitPrepare(r) ==
  /\ At(r, "prepare")
  /\ read_wait' = read_wait \cup {r}
  /\ Goto(r, "condClosed")
  /\ UNCHANGED <<queueVars, dropVars, inflightVars, localVars, ghostVars,
                 closed, read_lock, ppc, dpc>>

WaitCondition(r, from, holds, otherwise) ==
  /\ At(r, from)
  /\ Goto(r, IF holds THEN "hasData" ELSE otherwise)
  /\ read_wait' = IF holds THEN read_wait \ {r} ELSE read_wait
  /\ UNCHANGED <<queueVars, dropVars, inflightVars, localVars, ghostVars,
                 closed, read_lock, ppc, dpc>>

WaitConditionClosed(r) == WaitCondition(r, "condClosed", closed, "condData")
WaitConditionData(r) == WaitCondition(r, "condData", HasDataLocked, "asleep")

WaitWoken(r) ==
  /\ At(r, "asleep")
  /\ r \notin read_wait
  /\ Goto(r, "prepare")
  /\ UNCHANGED <<queueVars, dropVars, inflightVars, localVars, syncVars, ghostVars>>

WaitInterrupted(r) ==
  /\ At(r, "asleep")
  /\ read_wait' = read_wait \ {r}
  /\ FailRead(r, "ERESTARTSYS")
  /\ UNCHANGED <<queueVars, dropVars, inflightVars, ghostVars, count, nonblock, node, info,
                 closed, read_lock, ppc, dpc>>

\* ksu_event_queue_read_drop, first locked section: nothing dropped, no room
\* for the record, or the counters move to dropped_inflight.
ReadDropNone(r) ==
  /\ At(r, "drop")
  /\ dropped_pending = 0
  /\ Goto(r, "node")
  /\ UNCHANGED <<queueVars, dropVars, inflightVars, localVars, syncVars, ghostVars>>

ReadDropNoRoom(r) ==
  /\ At(r, "drop")
  /\ dropped_pending # 0
  /\ ~Fits(r, RecordSize(InfoSize))
  /\ FailRead(r, "EMSGSIZE")
  /\ UNCHANGED <<queueVars, dropVars, inflightVars, syncVars, ghostVars, count, nonblock, node, info>>

ReadDropTake(r) ==
  /\ At(r, "drop")
  /\ dropped_pending # 0
  /\ Fits(r, RecordSize(InfoSize))
  /\ info' = [info EXCEPT ![r] = [dropped |-> dropped_pending,
                                  first |-> dropped_first_seq,
                                  last |-> dropped_last_seq]]
  /\ dropped_inflight' = dropped_pending
  /\ dropped_inflight_first_seq' = dropped_first_seq
  /\ dropped_inflight_last_seq' = dropped_last_seq
  /\ lostInflight' = lostPending
  /\ dropped_pending' = 0 /\ dropped_first_seq' = 0 /\ dropped_last_seq' = 0
  /\ lostPending' = {}
  /\ Goto(r, "dropCopy")
  /\ UNCHANGED <<queueVars, dropped_total, syncVars, ghostVars, count, copied, nonblock, node>>

ClearInflight ==
  /\ dropped_inflight' = 0
  /\ dropped_inflight_first_seq' = 0
  /\ dropped_inflight_last_seq' = 0
  /\ lostInflight' = {}

\* The copy to user space succeeded.
ReadDropDone(r) ==
  /\ At(r, "dropCopy")
  /\ out' = Append(out, [dropped |-> info[r].dropped, first |-> info[r].first,
                         last |-> info[r].last, seqs |-> lostInflight])
  /\ ClearInflight
  /\ CopiedRecord(r, RecordSize(InfoSize))
  /\ info' = [info EXCEPT ![r] = NoInfo]
  /\ UNCHANGED <<queueVars, dropVars, syncVars, discarded, nonblock, node>>

\* mutant: the drops noted during the copy keep their own first number
RestoreInflight_keepsFirst ==
  /\ dropped_pending' = dropped_pending + dropped_inflight
  /\ dropped_first_seq' = IF dropped_pending = 0 THEN dropped_inflight_first_seq
                                                 ELSE dropped_first_seq
  /\ dropped_last_seq' = IF dropped_pending = 0 THEN dropped_inflight_last_seq
                                                ELSE dropped_last_seq
  /\ lostPending' = lostPending \cup lostInflight

\* out_restore: what was in flight is pending again, in front of what was
\* dropped during the copy.
RestoreInflight ==
  /\ dropped_pending' = dropped_pending + dropped_inflight
  /\ dropped_first_seq' = dropped_inflight_first_seq
  /\ dropped_last_seq' = IF dropped_pending = 0 THEN dropped_inflight_last_seq
                                                ELSE dropped_last_seq
  /\ lostPending' = lostPending \cup lostInflight

\* The copy failed.
ReadDropRestore(r) ==
  /\ At(r, "dropCopy")
  /\ RestoreInflight
  /\ ClearInflight
  /\ FailRead(r, "EFAULT")
  /\ info' = [info EXCEPT ![r] = NoInfo]
  /\ UNCHANGED <<queueVars, dropped_total, syncVars, ghostVars, count, nonblock, node>>

\* ksu_event_queue_read_node, first locked section: the oldest node is looked
\* at and stays in the list while it is copied.
ReadNodeEmpty(r) ==
  /\ At(r, "node")
  /\ pending = <<>>
  /\ Goto(r, "unlock")
  /\ UNCHANGED <<queueVars, dropVars, inflightVars, localVars, syncVars, ghostVars>>

ReadNodeNoRoom(r) ==
  /\ At(r, "node")
  /\ pending # <<>>
  /\ ~Fits(r, RecordSize(Head(pending).len))
  /\ FailRead(r, "EMSGSIZE")
  /\ UNCHANGED <<queueVars, dropVars, inflightVars, syncVars, ghostVars, count, nonblock, node, info>>

ReadNodePeek(r) ==
  /\ At(r, "node")
  /\ pending # <<>>
  /\ Fits(r, RecordSize(Head(pending).len))
  /\ node' = [node EXCEPT ![r] = Head(pending)]
  /\ Goto(r, "nodeCopy")
  /\ UNCHANGED <<queueVars, dropVars, inflightVars, syncVars, ghostVars, count, copied, nonblock, info>>

\* list_del of a node, wherever in the list it is
Unlink(list, n) ==
  LET i == CHOOSE j \in 1 .. Len(list) : list[j] = n
  IN  [j \in 1 .. Len(list) - 1 |-> IF j < i THEN list[j] ELSE list[j + 1]]

ReadNodeDone(r) ==
  /\ At(r, "nodeCopy")
  /\ pending' = Unlink(pending, node[r])
  /\ queued' = queued - 1
  /\ out' = Append(out, [dropped |-> 0, first |-> node[r].seq,
                         last |-> node[r].seq, seqs |-> {node[r].seq}])
  /\ CopiedRecord(r, RecordSize(node[r].len))
  /\ node' = [node EXCEPT ![r] = NoNode]
  /\ UNCHANGED <<next_seq, dropVars, inflightVars, syncVars, discarded, nonblock, info>>

\* mutant: the node is taken off the list although its copy failed
ReadNodeFault_unlinks(r) ==
  /\ At(r, "nodeCopy")
  /\ FailRead(r, "EFAULT")
  /\ pending' = Unlink(pending, node[r])
  /\ queued' = queued - 1
  /\ node' = [node EXCEPT ![r] = NoNode]
  /\ UNCHANGED <<next_seq, dropVars, inflightVars, syncVars, ghostVars, count, nonblock, info>>

ReadNodeFault(r) ==
  /\ At(r, "nodeCopy")
  /\ FailRead(r, "EFAULT")
  /\ node' = [node EXCEPT ![r] = NoNode]
  /\ UNCHANGED <<queueVars, dropVars, inflightVars, syncVars, ghostVars, count, nonblock, info>>

\* out_unlock: the value of copied is returned to the caller.
ReadUnlock(r) ==
  /\ At(r, "unlock")
  /\ read_lock' = NoOne
  /\ count' = [count EXCEPT ![r] = 0]
  /\ copied' = [copied EXCEPT ![r] = "zero"]
  /\ nonblock' = [nonblock EXCEPT ![r] = FALSE]
  /\ Goto(r, "idle")
  /\ UNCHANGED <<queueVars, dropVars, inflightVars, ghostVars, node, info,
                 closed, read_wait, ppc, dpc>>

-----------------------------------------------------------------------------
(* ksu_event_queue_destroy *)

DestroyClose ==
  /\ dpc = "none"
  /\ closed' = TRUE
  /\ dpc' = "wake"
  /\ UNCHANGED <<queueVars, dropVars, inflightVars, localVars, rpc, ghostVars,
                 read_lock, read_wait, ppc>>

\* wake_up_interruptible_poll, before the lock is taken and again at the end of
\* ksu_event_queue_destroy
DestroyWake ==
  /\ \/ dpc = "wake" /\ dpc' = "lock"
     \/ dpc = "wakeAgain" /\ dpc' = "done"
  /\ WakeReaders
  /\ UNCHANGED <<queueVars, dropVars, inflightVars, localVars, rpc, ghostVars,
                 closed, read_lock, ppc>>

\* mutant: destroy frees the nodes without waiting for the reader
DestroyLock_skipped ==
  /\ dpc = "lock"
  /\ dpc' = "free"
  /\ UNCHANGED <<queueVars, dropVars, inflightVars, localVars, rpc, ghostVars,
                 closed, read_lock, read_wait, ppc>>

DestroyLock ==
  /\ dpc = "lock"
  /\ read_lock = NoOne
  /\ read_lock' = Destroyer
  /\ dpc' = "free"
  /\ UNCHANGED <<queueVars, dropVars, inflightVars, localVars, rpc, ghostVars,
                 closed, read_wait, ppc>>

PendingSeqs == {pending[i].seq : i \in DOMAIN pending}

DestroyFree ==
  /\ dpc = "free"
  /\ pending' = <<>> /\ queued' = 0
  /\ dropped_pending' = 0 /\ dropped_first_seq' = 0 /\ dropped_last_seq' = 0
  /\ lostPending' = {}
  /\ ClearInflight
  /\ discarded' = discarded \cup PendingSeqs \cup lostPending \cup lostInflight
  /\ dpc' = "unlock"
  /\ UNCHANGED <<next_seq, dropped_total, localVars, rpc, out,
                 closed, read_lock, read_wait, ppc>>

DestroyUnlock ==
  /\ dpc = "unlock"
  /\ read_lock' = NoOne
  /\ dpc' = "wakeAgain"
  /\ UNCHANGED <<queueVars, dropVars, inflightVars, localVars, rpc, ghostVars,
                 closed, read_wait, ppc>>

-----------------------------------------------------------------------------
ProducerNext(p) ==
  \/ \E len \in Lens, allocated \in BOOLEAN : Push(p, len, allocated)
  \/ Drop(p)
  \/ Close(p)
  \/ ProducerWake(p)

\* The steps of a read that need nobody else, the mutex aside
ReaderStep(r) ==
  \/ WaitHasData(r) \/ WaitIsClosed(r) \/ WaitPrepare(r)
  \/ WaitConditionClosed(r) \/ WaitConditionData(r) \/ WaitWoken(r)
  \/ ReadDropNone(r) \/ ReadDropNoRoom(r) \/ ReadDropTake(r)
  \/ ReadDropDone(r) \/ ReadDropRestore(r)
  \/ ReadNodeEmpty(r) \/ ReadNodeNoRoom(r) \/ ReadNodePeek(r)
  \/ ReadNodeDone(r) \/ ReadNodeFault(r)
  \/ ReadUnlock(r)

ReaderNext(r) ==
  \/ \E c \in Counts, nb \in BOOLEAN : ReadCall(r, c, nb)
  \/ ReadLock(r)
  \/ ReadLockInterrupted(r)
  \/ WaitInterrupted(r)
  \/ ReaderStep(r)

DestroyNext ==
  DestroyClose \/ DestroyWake \/ DestroyLock \/ DestroyFree \/ DestroyUnlock

Next ==
  \/ \E p \in Producers : ProducerNext(p)
  \/ \E r \in Readers : ReaderNext(r)
  \/ DestroyNext

Spec == Init /\ [][Next]_vars

\* A thread inside a call keeps running; nobody has to make a call, and no
\* signal has to arrive.  The mutex is fair to those who wait for it.
Fairness ==
  /\ \A p \in Producers : WF_vars(ProducerWake(p))
  /\ \A r \in Readers : WF_vars(ReaderStep(r)) /\ SF_vars(ReadLock(r))
  /\ WF_vars(DestroyWake) /\ SF_vars(DestroyLock)
  /\ WF_vars(DestroyFree) /\ WF_vars(DestroyUnlock)

FairSpec == Spec /\ Fairness

-----------------------------------------------------------------------------
(* Properties *)

ReaderPC ==
  {"idle", "lock", "hasData", "isClosed", "prepare", "condClosed", "condData", "asleep",
   "drop", "dropCopy", "node", "nodeCopy", "unlock"}
ReadResult == {"zero", "some", "EAGAIN", "EFAULT", "EMSGSIZE", "ERESTARTSYS"}
Node == [seq : Nat, len : Nat]
Info == [dropped : Nat, first : Nat, last : Nat]
Entry == [dropped : Nat, first : Nat, last : Nat, seqs : SUBSET Nat]

\* Every field and local of ksu_event_queue.c keeps its type; in particular no
\* unsigned counter (queued, the drop counters, count) ever goes below zero.
TypeOK ==
  /\ pending \in Seq(Node) /\ queued \in Nat /\ next_seq \in Nat \ {0}
  /\ dropped_total \in Nat
  /\ dropped_pending \in Nat /\ dropped_first_seq \in Nat /\ dropped_last_seq \in Nat
  /\ dropped_inflight \in Nat /\ dropped_inflight_first_seq \in Nat
  /\ dropped_inflight_last_seq \in Nat
  /\ closed \in BOOLEAN
  /\ read_lock \in Readers \cup {NoOne, Destroyer}
  /\ read_wait \in SUBSET Readers
  /\ ppc \in [Producers -> {"idle", "wake"}]
  /\ rpc \in [Readers -> ReaderPC]
  /\ count \in [Readers -> Nat]
  /\ copied \in [Readers -> ReadResult]
  /\ nonblock \in [Readers -> BOOLEAN]
  /\ node \in [Readers -> Node]
  /\ info \in [Readers -> Info]
  /\ dpc \in {"none", "wake", "lock", "free", "unlock", "wakeAgain", "done"}
  /\ lostPending \in SUBSET Nat /\ lostInflight \in SUBSET Nat
  /\ out \in Seq(Entry) /\ discarded \in SUBSET Nat

Log == INSTANCE EventLog
         WITH issued <- next_seq - 1,
              kept <- PendingSeqs,
              lost <- lostPending \cup lostInflight

\* The counters n, f, l are the size, the least and the greatest element of S.
CountersOf(n, f, l, S) ==
  /\ IsFiniteSet(S)
  /\ n = Cardinality(S)
  /\ S # {} => Log!IsLeast(f, S) /\ Log!IsGreatest(l, S)

\* The two triples of drop counters describe exactly the events that were
\* dropped and not yet reported, whatever was dropped between
\* ksu_event_queue_read_drop taking them and its out_restore putting them back;
\* and the record being copied is the one in flight.
DropRangeExact ==
  /\ CountersOf(dropped_pending, dropped_first_seq, dropped_last_seq, lostPending)
  /\ CountersOf(dropped_inflight, dropped_inflight_first_seq,
                dropped_inflight_last_seq, lostInflight)
  /\ \A s \in lostInflight, t \in lostPending : s < t
  /\ \A r \in Readers : rpc[r] = "dropCopy" =>
       info[r] = [dropped |-> dropped_inflight, first |-> dropped_inflight_first_seq,
                  last |-> dropped_inflight_last_seq]

\* The node that ksu_event_queue_read_node copies without queue->lock is still
\* the head of the list: neither destroy nor another reader frees it meanwhile.
PeekedNodeLinked ==
  \A r \in Readers : rpc[r] = "nodeCopy" => pending # <<>> /\ Head(pending) = node[r]

HandedOut == UNION {out[i].seqs : i \in DOMAIN out}

\* Every sequence number given out is in exactly one place: handed to the
\* reader by one record, waiting in the list, counted as dropped, being
\* reported, or thrown away by destroy.  No event is lost silently and none is
\* delivered or reported twice.
ExactlyOnce ==
  /\ 1 .. next_seq - 1
       = HandedOut \cup PendingSeqs \cup lostPending \cup lostInflight \cup discarded
  /\ \A i, j \in DOMAIN out : i # j => out[i].seqs \cap out[j].seqs = {}
  /\ \A i, j \in DOMAIN pending : i # j => pending[i].seq # pending[j].seq
  /\ HandedOut \cap (PendingSeqs \cup lostPending \cup lostInflight \cup discarded) = {}
  /\ PendingSeqs \cap (lostPending \cup lostInflight \cup discarded) = {}
  /\ lostPending \cap (lostInflight \cup discarded) = {}
  /\ lostInflight \cap discarded = {}

\* queued counts the list, and the list never outgrows max_queued.
QueueBounded ==
  /\ queued = Len(pending)
  /\ MaxQueued # 0 => queued <= MaxQueued

\* A read returns 0 only at the end of the stream: the queue is closed and
\* nothing that was pushed or dropped before the close is left unread.
EOFMeansDrained ==
  \A r \in Readers : rpc[r] = "unlock" /\ copied[r] = "zero" => closed /\ ~HasDataLocked

\* No wake-up is lost: a reader that sleeps on read_wait although the queue has
\* data or is closed is about to be woken by whoever made it so.
WakeupPending ==
  \A r \in read_wait :
    rpc[r] = "asleep" /\ (closed \/ HasDataLocked) =>
      dpc = "wake" \/ \E p \in Producers : ppc[p] = "wake"

\* A read that has something to return, or a closed queue in front of it, returns:
\* a reader does not sleep through a push, a drop or a close.
ReadReturns ==
  \A r \in Readers : (read_lock = r /\ (closed \/ HasDataLocked)) ~> (read_lock # r)

\* ksu_event_queue_destroy returns although the reader it must wait for sleeps
\* with read_lock held.
DestroyReturns == (dpc = "wake") ~> (dpc = "done")

\* event_queue.c implements the abstract event log.
LogSpec == Log!Spec
=============================================================================
