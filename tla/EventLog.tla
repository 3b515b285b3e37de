------------------------------ MODULE EventLog ------------------------------
(***************************************************************************)
(* What kernel/infra/event_queue.c promises to the reader of its stream,   *)
(* without lists, locks, copies or counters.  Every event offered while    *)
(* the log is open gets the next sequence number.  It is either kept, and  *)
(* then handed out once, in order, or lost, and then accounted for by      *)
(* exactly one "dropped" record, which says how many events it covers and  *)
(* the first and the last of them.                                         *)
(***************************************************************************)
EXTENDS Integers, Sequences, FiniteSets

VARIABLES
  issued,     \* sequence numbers given out so far are 1 .. issued
  kept,       \* kept and not handed out yet
  lost,       \* lost and not reported yet
  out,        \* the records the reader got, oldest first
  discarded,  \* thrown away by the destruction of the log
  closed

logVars == <<issued, kept, lost, out, discarded, closed>>

\* One entry of the stream.  "seqs" is the set of events the entry accounts
\* for; the reader sees only the other three fields.  dropped = 0 marks the
\* record of an event.
EventEntry(s) == [dropped |-> 0, first |-> s, last |-> s, seqs |-> {s}]

IsLeast(m, S) == m \in S /\ \A s \in S : m <= s
IsGreatest(m, S) == m \in S /\ \A s \in S : s <= m

\* A "dropped" record that describes the lost events S truthfully.
Describes(e, S) ==
  /\ e.seqs = S
  /\ e.dropped = Cardinality(S)
  /\ IsLeast(e.first, S)
  /\ IsGreatest(e.last, S)

Init ==
  /\ issued = 0
  /\ kept = {}
  /\ lost = {}
  /\ out = <<>>
  /\ discarded = {}
  /\ closed = FALSE

\* An event is offered: kept or lost, never neither.
Offer ==
  /\ ~closed
  /\ issued' = issued + 1
  /\ \/ kept' = kept \cup {issued'} /\ lost' = lost
     \/ lost' = lost \cup {issued'} /\ kept' = kept
  /\ UNCHANGED <<out, discarded, closed>>

\* The oldest kept event is handed out.
Deliver ==
  \E s \in kept :
    /\ IsLeast(s, kept)
    /\ kept' = kept \ {s}
    /\ out' = Append(out, EventEntry(s))
    /\ UNCHANGED <<issued, lost, discarded, closed>>

\* The oldest losses are reported by one record; a loss that happens while
\* the record is being copied stays for a later one.
Report ==
  \E S \in SUBSET lost :
    /\ S # {}
    /\ \A s \in S, t \in lost \ S : s < t
    /\ lost' = lost \ S
    /\ \E f, l \in S :
         LET e == [dropped |-> Cardinality(S), first |-> f, last |-> l, seqs |-> S]
         IN  Describes(e, S) /\ out' = Append(out, e)
    /\ UNCHANGED <<issued, kept, discarded, closed>>

Close ==
  /\ closed' = TRUE
  /\ UNCHANGED <<issued, kept, lost, out, discarded>>

\* Destruction throws away what nobody read; only a closed log is destroyed.
Discard ==
  /\ closed
  /\ discarded' = discarded \cup kept \cup lost
  /\ kept' = {}
  /\ lost' = {}
  /\ UNCHANGED <<issued, out, closed>>

Next == Offer \/ Deliver \/ Report \/ Close \/ Discard

Spec == Init /\ [][Next]_logVars
=============================================================================
