--------------------------- MODULE SupercallProofs ---------------------------
(***************************************************************************)
(* Proofs about Supercall, for any number of callers and of new processes, *)
(* any paths and any sizes of the buffer: what LIST_TRY_UMOUNT returns,    *)
(* what a new process unmounts while the list is being edited, and that    *)
(* the su log's reader is never locked out.                                *)
(***************************************************************************)
EXTENDS Supercall, SequenceTheorems, TLAPS

Processes == Callers \cup Children

KeptPaths == {Cut(p, AddCap) : p \in Paths}
Entry == [path : KeptPaths, flags : Flags]

Positions == {"idle", "sized", "printing", "unmounts", "walking", "done"}
Walking == {"printing", "walking"}

ListTypes ==
  /\ mount_list \in Seq(Entry)
  /\ holders \in SUBSET Processes
  /\ pc \in [Processes -> Positions]
  /\ cur \in [Processes -> Entry \cup {None}]
  /\ locked \in [Processes -> Seq(Entry)]
  /\ counted \in [Callers -> Seq(Entry)]
  /\ out \in [Callers -> [room : Int, text : Seq(Entry)]]

ChildTypes ==
  /\ mounts \in [Children -> SUBSET Paths]
  /\ tried \in [Children -> SUBSET KeptPaths]
  /\ child \in [Children -> [from : Parents, uid : Kinds] \cup {None}]

\* No path is listed twice, so an entry tells where in the list it is.
Distinct(list) == \A i, j \in 1..Len(list) : list[i].path = list[j].path => i = j

\* n entries of the list are behind p.
WalkAt(p, n) ==
  /\ n = Len(mount_list) => cur[p] = None
  /\ n < Len(mount_list) => cur[p] = mount_list[n + 1]

\* Who walks holds the lock, and the list is the one it found.
HolderInv ==
  \A p \in Processes :
    /\ pc[p] = "printing" => p \in Callers
    /\ pc[p] = "walking" => p \in Children
    /\ p \in holders <=> pc[p] \in Walking
    /\ p \in holders => locked[p] = mount_list
    /\ pc[p] \in {"idle", "sized", "unmounts"} => locked[p] = <<>>

\* A lister has printed what is behind it.
PrintInv ==
  \A c \in Callers : pc[c] = "printing" =>
    /\ Len(out[c].text) <= Len(mount_list)
    /\ \A i \in 1..Len(out[c].text) : out[c].text[i] = mount_list[i]
    /\ WalkAt(c, Len(out[c].text))

\* A new process has tried what is behind it, and in the end every entry.
TriedInv ==
  \A k \in Children :
    /\ pc[k] = "walking" =>
         \E n \in 0..Len(mount_list) :
            WalkAt(k, n) /\ tried[k] = {mount_list[i].path : i \in 1..n}
    /\ pc[k] = "done" => tried[k] = {locked[k][i].path : i \in 1..Len(locked[k])}
    /\ pc[k] \notin {"walking", "done"} => tried[k] = {}

WalkInv == Distinct(mount_list) /\ HolderInv /\ PrintInv /\ TriedInv

\* Only what zygote forked gets to the unmounts, and nothing is unmounted
\* that was not tried.
MountInv ==
  \A k \in Children :
    /\ pc[k] \in {"unmounts", "walking"} => child[k] # None /\ child[k].from = "zygote"
    /\ pc[k] \notin {"unmounts", "walking", "done"} => child[k] = None
    /\ child[k] = None \/ child[k].from # "zygote" => mounts[k] = Paths
    /\ Paths \ tried[k] \subseteq mounts[k]

Fits(list) == \A i \in 1..Len(list) : Written(list[i]) <= EstEntry

\* As long as the entries are not longer than estimated, the room for the ones
\* to come is left.
RoomInv ==
  \A c \in Callers :
    /\ pc[c] = "sized" =>
         out[c].text = <<>> /\ out[c].room = OutputSize(Len(counted[c])) - HeadLen
    /\ pc[c] = "printing" /\ Fits(mount_list) =>
         out[c].room >= OutputSize(Len(counted[c])) - HeadLen - Len(out[c].text) * EstEntry

SupercallInv == ListTypes /\ ChildTypes /\ WalkInv /\ MountInv /\ RoomInv

-----------------------------------------------------------------------------
(* Entries and the list.                                                    *)

\* An entry is told apart from the end of the list.
LEMMA NoEntryIsNone == ASSUME NEW e \in Entry PROVE e # None
  BY DEF Entry, None

\* A process is told apart from the lack of one.
LEMMA NoChildIsNone == ASSUME NEW a, NEW b PROVE [from |-> a, uid |-> b] # None
  BY DEF None

\* An entry prints as a number of characters.
LEMMA WrittenNat == ASSUME NEW e \in Entry PROVE Written(e) \in Nat
<1>1. PICK p \in Paths : e.path = Cut(p, AddCap)
  BY DEF Entry, KeptPaths
<1>2. p = [stem |-> p.stem, len |-> p.len] /\ p.len \in Nat /\ AddCap \in Nat
  BY PathsAssumption
<1>3. PICK n \in Nat : n = p.len
  BY <1>2
<1>4. PICK t : t = p.stem
  OBVIOUS
<1>5. p = [stem |-> t, len |-> n]
  BY <1>2, <1>3, <1>4
<1>6. Cut([stem |-> t, len |-> n], AddCap).len \in Nat
  BY <1>2 DEF Cut
<1>7. e.path.len \in Nat
  BY <1>1, <1>5, <1>6
<1> QED
  BY <1>7 DEF Written

\* Add: the new entry comes first, if its path is not listed.
LEMMA AddedList ==
  ASSUME ListTypes, Distinct(mount_list), NEW p \in KeptPaths, ~Listed(p), NEW f \in Flags
  PROVE LET new == <<[path |-> p, flags |-> f]>> \o mount_list
        IN  new \in Seq(Entry) /\ Distinct(new)
<1>1. mount_list \in Seq(Entry)
  BY DEF ListTypes
<1>2. [path |-> p, flags |-> f] \in Entry /\ [path |-> p, flags |-> f].path = p
  BY DEF Entry
<1>3. PICK e \in Entry : e = [path |-> p, flags |-> f]
  BY <1>2
<1>4. PICK new : new = <<e>> \o mount_list
  OBVIOUS
<1>5. /\ new \in Seq(Entry) /\ Len(new) = Len(mount_list) + 1
      /\ \A i \in 1..Len(new) : new[i] = IF i = 1 THEN e ELSE mount_list[i - 1]
  BY <1>1, <1>4
<1>6. e.path = p /\ \A i \in 1..Len(mount_list) : mount_list[i].path # p
  BY <1>1, <1>2, <1>3 DEF Listed
<1>7. Distinct(new)
  <2> SUFFICES ASSUME NEW i \in 1..Len(new), NEW j \in 1..Len(new), new[i].path = new[j].path
               PROVE i = j
    BY DEF Distinct
  <2>1. Len(mount_list) \in Nat
    BY <1>1
  <2>2. CASE i = 1 /\ j = 1
    BY <2>2
  <2>3. CASE i = 1 /\ j # 1
    <3>1. j - 1 \in 1..Len(mount_list) /\ new[j] = mount_list[j - 1] /\ new[i] = e
      BY <1>5, <2>1, <2>3
    <3> QED
      BY <1>6, <3>1
  <2>4. CASE i # 1 /\ j = 1
    <3>1. i - 1 \in 1..Len(mount_list) /\ new[i] = mount_list[i - 1] /\ new[j] = e
      BY <1>5, <2>1, <2>4
    <3> QED
      BY <1>6, <3>1
  <2>5. CASE i # 1 /\ j # 1
    <3>1. i - 1 \in 1..Len(mount_list) /\ j - 1 \in 1..Len(mount_list)
      BY <1>5, <2>1, <2>5
    <3>2. new[i] = mount_list[i - 1] /\ new[j] = mount_list[j - 1]
      BY <1>5, <2>5
    <3>3. i - 1 = j - 1
      BY <3>1, <3>2 DEF Distinct
    <3> QED
      BY <3>3
  <2> QED
    BY <2>2, <2>3, <2>4, <2>5
<1> QED
  BY <1>3, <1>4, <1>5, <1>7

\* Del keeps the other entries, in their order.
LEMMA RemovedList ==
  ASSUME ListTypes, Distinct(mount_list), NEW p
  PROVE Without(p) \in Seq(Entry) /\ Distinct(Without(p))
<1>1. mount_list \in Seq(Entry) /\ Len(mount_list) \in Nat
  BY DEF ListTypes
<1>2. CASE ~Listed(p)
  BY <1>1, <1>2 DEF Without
<1>3. CASE Listed(p)
  <2>1. PICK i \in 1..Len(mount_list) :
          i = CHOOSE j \in DOMAIN mount_list : mount_list[j].path = p
    BY <1>1, <1>3 DEF Listed
  <2>2. PICK new : new = SubSeq(mount_list, 1, i - 1) \o SubSeq(mount_list, i + 1, Len(mount_list))
    OBVIOUS
  <2>3. Without(p) = new
    BY <1>3, <2>1, <2>2 DEF Without
  <2>4. /\ SubSeq(mount_list, 1, i - 1) \in Seq(Entry)
        /\ Len(SubSeq(mount_list, 1, i - 1)) = i - 1
        /\ \A k \in 1..(i - 1) : SubSeq(mount_list, 1, i - 1)[k] = mount_list[k]
    BY <1>1
  <2>5. /\ SubSeq(mount_list, i + 1, Len(mount_list)) \in Seq(Entry)
        /\ Len(SubSeq(mount_list, i + 1, Len(mount_list))) = Len(mount_list) - i
        /\ \A k \in 1..(Len(mount_list) - i) :
             SubSeq(mount_list, i + 1, Len(mount_list))[k] = mount_list[i + k]
    BY <1>1
  <2>6. PICK s \in Seq(Entry) : /\ s = SubSeq(mount_list, 1, i - 1) /\ Len(s) = i - 1
                                /\ \A k \in 1..(i - 1) : s[k] = mount_list[k]
    BY <2>4
  <2>7. PICK t \in Seq(Entry) :
          /\ t = SubSeq(mount_list, i + 1, Len(mount_list)) /\ Len(t) = Len(mount_list) - i
          /\ \A k \in 1..(Len(mount_list) - i) : t[k] = mount_list[i + k]
    BY <2>5
  <2>8. /\ new \in Seq(Entry) /\ Len(new) = Len(s) + Len(t)
        /\ \A k \in 1..Len(new) : new[k] = IF k <= Len(s) THEN s[k] ELSE t[k - Len(s)]
    <3>1. new = s \o t
      BY <2>2, <2>6, <2>7
    <3> QED
      BY <3>1, ConcatProperties
  <2>9. Len(new) = Len(mount_list) - 1
    BY <1>1, <2>6, <2>7, <2>8
  <2>10. ASSUME NEW k \in 1..Len(new)
         PROVE new[k] = IF k < i THEN mount_list[k] ELSE mount_list[k + 1]
    <3>1. CASE k < i
      BY <2>6, <2>8, <2>9, <3>1
    <3>2. CASE ~(k < i)
      <4>1. new[k] = t[k - (i - 1)]
        BY <2>6, <2>8, <3>2
      <4>2. k - (i - 1) \in 1..(Len(mount_list) - i) /\ i + (k - (i - 1)) = k + 1
        BY <1>1, <2>9, <3>2
      <4> QED
        BY <2>7, <3>2, <4>1, <4>2
    <3> QED
      BY <3>1, <3>2
  <2>11. Distinct(new)
    <3> SUFFICES ASSUME NEW a \in 1..Len(new), NEW b \in 1..Len(new), new[a].path = new[b].path
                 PROVE a = b
      BY DEF Distinct
    <3>1. PICK x \in 1..Len(mount_list) : x = IF a < i THEN a ELSE a + 1
      BY <1>1, <2>9
    <3>2. PICK y \in 1..Len(mount_list) : y = IF b < i THEN b ELSE b + 1
      BY <1>1, <2>9
    <3>3. new[a] = mount_list[x] /\ new[b] = mount_list[y]
      BY <2>10, <3>1, <3>2
    <3>4. x = y
      BY <3>3 DEF Distinct
    <3> QED
      BY <2>9, <3>1, <3>2, <3>4
  <2> QED
    BY <2>3, <2>8, <2>11
<1> QED
  BY <1>2, <1>3

\* A walk goes from one entry to the next.
LEMMA WalkStep ==
  ASSUME ListTypes, Distinct(mount_list), NEW n \in 0..Len(mount_list), n < Len(mount_list)
  PROVE /\ n + 1 \in 0..Len(mount_list)
        /\ mount_list[n + 1] \in Entry
        /\ n + 1 = Len(mount_list) => After(mount_list[n + 1]) = None
        /\ n + 1 < Len(mount_list) => After(mount_list[n + 1]) = mount_list[n + 2]
<1>1. mount_list \in Seq(Entry) /\ Len(mount_list) \in Nat /\ DOMAIN mount_list = 1..Len(mount_list)
  BY DEF ListTypes
<1>2. n + 1 \in 1..Len(mount_list) /\ n + 1 \in 0..Len(mount_list)
  BY <1>1
<1>3. PICK i : i = CHOOSE j \in DOMAIN mount_list : mount_list[j] = mount_list[n + 1]
  OBVIOUS
<1>4. i \in 1..Len(mount_list) /\ mount_list[i] = mount_list[n + 1]
  BY <1>1, <1>2, <1>3
<1>5. i = n + 1
  BY <1>2, <1>4 DEF Distinct
<1>6. After(mount_list[n + 1]) = IF i = Len(mount_list) THEN None ELSE mount_list[i + 1]
  BY <1>3 DEF After
<1>7. mount_list[n + 1] \in Entry
  BY <1>1, <1>2
<1>8. n + 1 = Len(mount_list) => After(mount_list[n + 1]) = None
  BY <1>5, <1>6
<1>9. i # Len(mount_list) => After(mount_list[n + 1]) = mount_list[i + 1]
  BY <1>6
<1>10. i + 1 = n + 2 /\ (n + 1 < Len(mount_list) => i # Len(mount_list))
  <2>1. PICK m \in Nat : m = Len(mount_list)
    BY <1>1
  <2>2. n \in 0..m
    BY <2>1
  <2>3. i + 1 = n + 2 /\ (n + 1 < m => i # m)
    BY <1>5, <2>2
  <2> QED
    BY <2>1, <2>3
<1>11. n + 1 < Len(mount_list) => After(mount_list[n + 1]) = mount_list[n + 2]
  BY <1>9, <1>10
<1> QED
  BY <1>2, <1>7, <1>8, <1>11

-----------------------------------------------------------------------------
(* The steps.                                                               *)

\* The list is empty and nobody walks it at first.
LEMMA SupercallInit == Init => SupercallInv
<1> SUFFICES ASSUME Init PROVE SupercallInv
  OBVIOUS
<1>1. /\ mount_list = <<>> /\ holders = {} /\ cur = [p \in Processes |-> None]
      /\ pc = [p \in Processes |-> "idle"] /\ locked = [p \in Processes |-> <<>>]
      /\ out = [c \in Callers |-> NoOutput] /\ counted = [c \in Callers |-> <<>>]
      /\ mounts = [k \in Children |-> Paths] /\ child = [k \in Children |-> None]
      /\ tried = [k \in Children |-> {}]
  BY DEF Init, Processes
<1>2. <<>> \in Seq(Entry) /\ Len(<<>>) = 0
  BY EmptySeq
<1>3. NoOutput \in [room : Int, text : Seq(Entry)]
  BY <1>2 DEF NoOutput
<1>4. ListTypes
  BY <1>1, <1>2, <1>3 DEF ListTypes, Positions
<1>5. ChildTypes
  BY <1>1 DEF ChildTypes
<1>6. WalkInv
  <2>1. Distinct(mount_list)
    BY <1>1, <1>2 DEF Distinct
  <2> QED
    BY <1>1, <2>1 DEF WalkInv, HolderInv, PrintInv, TriedInv, Walking, Processes
<1>7. MountInv /\ RoomInv
  BY <1>1 DEF MountInv, RoomInv, Processes
<1> QED
  BY <1>4, <1>5, <1>6, <1>7 DEF SupercallInv

\* Commands that are not about the list.
LEMMA ElsewhereStep ==
  ASSUME SupercallInv, UNCHANGED <<listVars, childVars, pc>>
  PROVE SupercallInv'
<1>1. UNCHANGED <<mount_list, holders, cur, out, counted, locked, mounts, child, tried, pc>>
  BY DEF listVars, childVars
<1>2. ListTypes' /\ ChildTypes'
  BY <1>1 DEF SupercallInv, ListTypes, ChildTypes
<1>3. WalkInv'
  BY <1>1 DEF SupercallInv, WalkInv, Distinct, HolderInv, PrintInv, TriedInv, WalkAt
<1>4. MountInv' /\ RoomInv'
  BY <1>1 DEF SupercallInv, MountInv, RoomInv, Fits
<1> QED
  BY <1>2, <1>3, <1>4 DEF SupercallInv

\* down_write waits until nobody walks.
LEMMA WriteStep ==
  ASSUME SupercallInv, NEW list, NEW r, Write(list, r), list \in Seq(Entry), Distinct(list)
  PROVE SupercallInv'
<1>1. /\ holders = {} /\ mount_list' = list
      /\ UNCHANGED <<holders, cur, out, counted, locked, mounts, child, tried, pc>>
  BY DEF Write, WriteLock, childVars
<1>2. \A p \in Processes : pc[p] \notin Walking
  BY <1>1 DEF SupercallInv, WalkInv, HolderInv
<1>3. ListTypes' /\ ChildTypes'
  BY <1>1 DEF SupercallInv, ListTypes, ChildTypes
<1>4. WalkInv'
  <2>1. Distinct(mount_list)'
    BY <1>1 DEF Distinct
  <2>2. HolderInv'
    BY <1>1, <1>2 DEF SupercallInv, WalkInv, HolderInv
  <2>3. PrintInv'
    BY <1>1, <1>2 DEF PrintInv, Walking, Processes
  <2>4. TriedInv'
    BY <1>1, <1>2 DEF SupercallInv, WalkInv, TriedInv, Walking, Processes
  <2> QED
    BY <2>1, <2>2, <2>3, <2>4 DEF WalkInv
<1>5. MountInv'
  BY <1>1 DEF SupercallInv, MountInv
<1>6. RoomInv'
  BY <1>1, <1>2 DEF SupercallInv, RoomInv, Walking, Processes
<1> QED
  BY <1>3, <1>4, <1>5, <1>6 DEF SupercallInv

\* A buffer with its room and its text.
LEMMA OutputRecord ==
  ASSUME NEW r \in Int, NEW t \in Seq(Entry)
  PROVE /\ [room |-> r, text |-> t] \in [room : Int, text : Seq(Entry)]
        /\ [room |-> r, text |-> t].room = r /\ [room |-> r, text |-> t].text = t
  OBVIOUS

\* A walk starts at the first entry.
LEMMA WalkStart ==
  ASSUME ListTypes
  PROVE /\ First \in Entry \cup {None}
        /\ 0 = Len(mount_list) => First = None
        /\ 0 < Len(mount_list) => First = mount_list[0 + 1]
<1>1. mount_list \in Seq(Entry) /\ Len(mount_list) \in Nat
  BY DEF ListTypes
<1>2. CASE mount_list = <<>>
  <2>1. Len(mount_list) = 0 /\ First = None
    BY <1>2 DEF First
  <2> QED
    BY <2>1
<1>3. CASE mount_list # <<>>
  <2>1. Len(mount_list) > 0 /\ First = mount_list[1] /\ mount_list[1] \in Entry
    BY <1>1, <1>3 DEF First
  <2> QED
    BY <1>1, <2>1
<1> QED
  BY <1>2, <1>3

\* LIST counting the entries under the lock keeps the invariant.
LEMMA ListCountStep ==
  ASSUME SupercallInv, NEW c \in Callers, ListCount(c) PROVE SupercallInv'
<1>1. /\ UNCHANGED <<mount_list, holders, cur, locked, mounts, child, tried>>
      /\ pc[c] = "idle" /\ pc' = [pc EXCEPT ![c] = "sized"]
      /\ counted' = [counted EXCEPT ![c] = mount_list]
      /\ out' = [out EXCEPT ![c] =
                   [room |-> OutputSize(Len(mount_list)) - HeadLen, text |-> <<>>]]
  BY DEF ListCount, ManagerOrRoot, childVars
<1>2. c \in Processes
  BY DEF Processes
<1>3. OutputSize(Len(mount_list)) - HeadLen \in Int /\ <<>> \in Seq(Entry)
  BY SizesAssumption, EmptySeq DEF SupercallInv, ListTypes, OutputSize, Clamp
<1>4. PICK o \in [room : Int, text : Seq(Entry)] :
        /\ o = [room |-> OutputSize(Len(mount_list)) - HeadLen, text |-> <<>>]
        /\ o.room = OutputSize(Len(mount_list)) - HeadLen /\ o.text = <<>>
  BY <1>3, OutputRecord, Zenon
<1>5. out' = [out EXCEPT ![c] = o]
  BY <1>1, <1>4
<1>6. ListTypes'
  BY <1>1, <1>2, <1>5 DEF SupercallInv, ListTypes, Positions
<1>7. ChildTypes'
  BY <1>1 DEF SupercallInv, ChildTypes
<1>8. pc'[c] = "sized" /\ \A p \in Processes : p # c => pc'[p] = pc[p]
  BY <1>1, <1>2 DEF SupercallInv, ListTypes
<1>9. \A d \in Callers : d # c => out'[d] = out[d] /\ counted'[d] = counted[d]
  BY <1>1, <1>5 DEF SupercallInv, ListTypes
<1>10. out'[c] = o /\ counted'[c] = mount_list
  BY <1>1, <1>5 DEF SupercallInv, ListTypes
<1>11. WalkInv'
  <2>1. Distinct(mount_list)'
    BY <1>1 DEF SupercallInv, WalkInv, Distinct
  <2>2. HolderInv'
    BY <1>1, <1>2, <1>8 DEF SupercallInv, WalkInv, HolderInv, Walking
  <2>3. PrintInv'
    BY <1>1, <1>8, <1>9 DEF SupercallInv, WalkInv, PrintInv, WalkAt, Processes
  <2>4. TriedInv'
    BY <1>1, <1>2, <1>8 DEF SupercallInv, WalkInv, TriedInv, WalkAt, Processes
  <2> QED
    BY <2>1, <2>2, <2>3, <2>4 DEF WalkInv
<1>12. MountInv'
  BY <1>1, <1>8 DEF SupercallInv, MountInv, Processes
<1>13. RoomInv'
  BY <1>1, <1>4, <1>8, <1>9, <1>10 DEF SupercallInv, RoomInv, Processes, Fits
<1> QED
  BY <1>6, <1>7, <1>11, <1>12, <1>13 DEF SupercallInv

\* So does LIST giving up without memory.
LEMMA ListNoMemoryStep ==
  ASSUME SupercallInv, NEW c \in Callers, ListNoMemory(c) PROVE SupercallInv'
<1>1. /\ UNCHANGED <<mount_list, holders, cur, mounts, child, tried>>
      /\ pc[c] = "sized" /\ pc' = [pc EXCEPT ![c] = "idle"]
      /\ counted' = [counted EXCEPT ![c] = <<>>] /\ locked' = [locked EXCEPT ![c] = <<>>]
      /\ out' = [out EXCEPT ![c] = NoOutput]
  BY DEF ListNoMemory, Forget, childVars
<1>2. c \in Processes /\ <<>> \in Seq(Entry)
  BY EmptySeq DEF Processes
<1>3. NoOutput \in [room : Int, text : Seq(Entry)]
  BY <1>2 DEF NoOutput
<1>4. ListTypes'
  BY <1>1, <1>2, <1>3 DEF SupercallInv, ListTypes, Positions
<1>5. ChildTypes'
  BY <1>1 DEF SupercallInv, ChildTypes
<1>6. pc'[c] = "idle" /\ locked'[c] = <<>>
  BY <1>1, <1>2 DEF SupercallInv, ListTypes
<1>7. \A p \in Processes : p # c => pc'[p] = pc[p] /\ locked'[p] = locked[p]
  BY <1>1, <1>2 DEF SupercallInv, ListTypes
<1>8. \A d \in Callers : d # c => out'[d] = out[d] /\ counted'[d] = counted[d]
  BY <1>1 DEF SupercallInv, ListTypes
<1>9. WalkInv'
  <2>1. Distinct(mount_list)'
    BY <1>1 DEF SupercallInv, WalkInv, Distinct
  <2>2. HolderInv'
    BY <1>1, <1>2, <1>6, <1>7 DEF SupercallInv, WalkInv, HolderInv, Walking
  <2>3. PrintInv'
    BY <1>1, <1>6, <1>7, <1>8 DEF SupercallInv, WalkInv, PrintInv, WalkAt, Processes
  <2>4. TriedInv'
    BY <1>1, <1>2, <1>6, <1>7 DEF SupercallInv, WalkInv, TriedInv, WalkAt, Processes
  <2> QED
    BY <2>1, <2>2, <2>3, <2>4 DEF WalkInv
<1>10. MountInv'
  BY <1>1, <1>6, <1>7 DEF SupercallInv, MountInv, Processes
<1>11. RoomInv'
  BY <1>1, <1>6, <1>7, <1>8 DEF SupercallInv, RoomInv, Processes, Fits
<1> QED
  BY <1>4, <1>5, <1>9, <1>10, <1>11 DEF SupercallInv

\* down_read, by a lister or a new process: the walk starts.
LEMMA LockStep ==
  ASSUME SupercallInv, NEW p \in Processes, StartWalk(p),
         UNCHANGED <<mount_list, out, counted, mounts, child, tried>>,
         \/ p \in Callers /\ pc[p] = "sized" /\ pc' = [pc EXCEPT ![p] = "printing"]
         \/ p \in Children /\ pc[p] = "unmounts" /\ pc' = [pc EXCEPT ![p] = "walking"]
  PROVE SupercallInv'
<1>1. /\ holders' = holders \cup {p} /\ cur' = [cur EXCEPT ![p] = First]
      /\ locked' = [locked EXCEPT ![p] = mount_list]
  BY DEF StartWalk
<1>2. ListTypes'
  BY <1>1, WalkStart DEF SupercallInv, ListTypes, Positions
<1>3. ChildTypes'
  BY DEF SupercallInv, ChildTypes
<1>4. \A q \in Processes : q # p => pc'[q] = pc[q] /\ locked'[q] = locked[q] /\ cur'[q] = cur[q]
  BY <1>1 DEF SupercallInv, ListTypes
<1>5. cur'[p] = First /\ locked'[p] = mount_list
  BY <1>1 DEF SupercallInv, ListTypes
<1>6. \/ p \in Callers /\ pc[p] = "sized" /\ pc'[p] = "printing"
      \/ p \in Children /\ pc[p] = "unmounts" /\ pc'[p] = "walking"
  BY DEF SupercallInv, ListTypes
<1>7. WalkInv'
  <2>1. Distinct(mount_list)'
    BY DEF SupercallInv, WalkInv, Distinct
  <2>2. HolderInv'
    BY <1>1, <1>4, <1>5, <1>6 DEF SupercallInv, WalkInv, HolderInv, Walking
  <2>3. PrintInv'
    <3> SUFFICES ASSUME NEW c \in Callers, pc'[c] = "printing"
                 PROVE /\ Len(out[c].text) <= Len(mount_list)
                       /\ \A i \in 1..Len(out[c].text) : out[c].text[i] = mount_list[i]
                       /\ WalkAt(c, Len(out[c].text))'
      BY DEF PrintInv
    <3>1. c \in Processes /\ Len(mount_list) \in Nat
      BY DEF Processes, SupercallInv, ListTypes
    <3>2. CASE c # p
      BY <1>4, <3>1, <3>2 DEF SupercallInv, WalkInv, PrintInv, WalkAt
    <3>3. CASE c = p
      <4>1. out[c].text = <<>>
        BY <1>6, <3>3 DEF SupercallInv, RoomInv
      <4>2. Len(out[c].text) = 0
        BY <4>1
      <4>3. WalkAt(c, 0)'
        BY <1>5, <3>3, WalkStart DEF WalkAt, SupercallInv
      <4> QED
        BY <3>1, <4>2, <4>3
    <3> QED
      BY <3>2, <3>3
  <2>4. TriedInv'
    <3>1. ASSUME NEW k \in Children, k # p
          PROVE /\ pc'[k] = "walking" =>
                     \E n \in 0..Len(mount_list') :
                        WalkAt(k, n)' /\ tried'[k] = {mount_list'[i].path : i \in 1..n}
                /\ pc'[k] = "done" => tried'[k] = {locked'[k][i].path : i \in 1..Len(locked'[k])}
                /\ pc'[k] \notin {"walking", "done"} => tried'[k] = {}
      BY <1>4, <3>1 DEF SupercallInv, WalkInv, TriedInv, WalkAt, Processes
    <3>2. ASSUME p \in Children
          PROVE /\ pc'[p] = "walking" =>
                     \E n \in 0..Len(mount_list') :
                        WalkAt(p, n)' /\ tried'[p] = {mount_list'[i].path : i \in 1..n}
                /\ pc'[p] = "done" => tried'[p] = {locked'[p][i].path : i \in 1..Len(locked'[p])}
                /\ pc'[p] \notin {"walking", "done"} => tried'[p] = {}
      <4>1. tried[p] = {}
        BY <1>6, <3>2 DEF SupercallInv, WalkInv, TriedInv
      <4>2. WalkAt(p, 0)'
        BY <1>5, WalkStart DEF WalkAt, SupercallInv
      <4>3. 0 \in 0..Len(mount_list') /\ {mount_list'[i].path : i \in 1..0} = {}
        BY DEF SupercallInv, ListTypes
      <4>4. \E n \in 0..Len(mount_list') :
               WalkAt(p, n)' /\ tried'[p] = {mount_list'[i].path : i \in 1..n}
        BY <4>1, <4>2, <4>3
      <4> QED
        BY <1>6, <4>1, <4>4
    <3> QED
      BY <3>1, <3>2 DEF TriedInv
  <2> QED
    BY <2>1, <2>2, <2>3, <2>4 DEF WalkInv
<1>8. MountInv'
  BY <1>4, <1>6 DEF SupercallInv, MountInv, Processes
<1>9. RoomInv'
  <2> SUFFICES ASSUME NEW c \in Callers
               PROVE /\ pc'[c] = "sized" =>
                          out[c].text = <<>> /\ out[c].room = OutputSize(Len(counted[c])) - HeadLen
                     /\ pc'[c] = "printing" /\ Fits(mount_list') =>
                          out[c].room >= OutputSize(Len(counted[c])) - HeadLen
                                           - Len(out[c].text) * EstEntry
    BY DEF RoomInv
  <2>1. c \in Processes
    BY DEF Processes
  <2>2. CASE c # p
    BY <1>4, <2>1, <2>2 DEF SupercallInv, RoomInv, Fits
  <2>3. CASE c = p /\ pc[p] = "sized"
    <3>1. out[c].text = <<>> /\ out[c].room = OutputSize(Len(counted[c])) - HeadLen
      BY <2>3 DEF SupercallInv, RoomInv
    <3>2. Len(out[c].text) = 0 /\ EstEntry \in Nat /\ out[c].room \in Int
      BY <3>1, SizesAssumption DEF SupercallInv, ListTypes
    <3>3. Len(out[c].text) * EstEntry = 0
      BY <3>2
    <3> QED
      BY <1>6, <2>3, <3>1, <3>2, <3>3
  <2>4. CASE c = p /\ pc[p] # "sized"
    BY <1>6, <2>4
  <2> QED
    BY <2>2, <2>3, <2>4
<1> QED
  BY <1>2, <1>3, <1>7, <1>8, <1>9 DEF SupercallInv

\* One more entry takes at most the room estimated for it.
LEMMA RoomForOne ==
  ASSUME NEW room \in Int, NEW all \in Int, NEW n \in Nat, NEW est \in Nat, NEW w \in Nat,
         room >= all - n * est, w <= est
  PROVE room - w >= all - (n + 1) * est
<1>1. PICK x \in Int : x = n * est
  OBVIOUS
<1>2. (n + 1) * est = x + est
  BY <1>1
<1> QED
  BY <1>1, <1>2

\* The room of an allocated buffer is a number.
LEMMA OutputSizeInt == ASSUME NEW n \in Nat PROVE OutputSize(n) - HeadLen \in Int
<1>1. PICK x \in Int : x = n * EstEntry
  BY SizesAssumption
<1> QED
  BY <1>1, SizesAssumption DEF OutputSize, Clamp

\* LIST printing an entry keeps the invariant.
LEMMA ListPrintStep ==
  ASSUME SupercallInv, NEW c \in Callers, ListPrint(c) PROVE SupercallInv'
<1>1. /\ UNCHANGED <<mount_list, holders, counted, locked, mounts, child, tried, pc>>
      /\ pc[c] = "printing" /\ cur[c] # None /\ cur' = [cur EXCEPT ![c] = After(cur[c])]
      /\ out' = [out EXCEPT ![c] = [room |-> out[c].room - Written(cur[c]),
                                    text |-> Append(out[c].text, cur[c])]]
  BY DEF ListPrint, Step, childVars
<1>2. c \in Processes /\ Len(mount_list) \in Nat /\ mount_list \in Seq(Entry)
  BY DEF Processes, SupercallInv, ListTypes
<1>3. PICK r \in Int : r = out[c].room
  BY DEF SupercallInv, ListTypes
<1>4. PICK t \in Seq(Entry) : t = out[c].text
  BY DEF SupercallInv, ListTypes
<1>5. PICK n \in Nat : n = Len(t)
  BY <1>4
<1>6. /\ n <= Len(mount_list) /\ \A i \in 1..n : t[i] = mount_list[i]
      /\ WalkAt(c, n)
  BY <1>1, <1>4, <1>5 DEF SupercallInv, WalkInv, PrintInv
<1>7. n < Len(mount_list) /\ cur[c] = mount_list[n + 1] /\ n \in 0..Len(mount_list)
  BY <1>1, <1>2, <1>6 DEF WalkAt
<1>8. /\ n + 1 \in 0..Len(mount_list) /\ cur[c] \in Entry
      /\ n + 1 = Len(mount_list) => After(cur[c]) = None
      /\ n + 1 < Len(mount_list) => After(cur[c]) = mount_list[(n + 1) + 1]
  <2>1. n + 2 = (n + 1) + 1
    OBVIOUS
  <2> QED
    BY <1>7, <2>1, WalkStep DEF SupercallInv, WalkInv
<1>9. PICK w \in Nat : w = Written(cur[c])
  BY <1>8, WrittenNat
<1>10. PICK t2 \in Seq(Entry) :
         /\ t2 = Append(t, cur[c]) /\ Len(t2) = n + 1
         /\ \A i \in 1..(n + 1) : t2[i] = IF i = n + 1 THEN cur[c] ELSE t[i]
  <2>1. PICK e \in Entry : e = cur[c]
    BY <1>8
  <2>2. /\ Append(t, e) \in Seq(Entry) /\ Len(Append(t, e)) = n + 1
        /\ \A i \in 1..(n + 1) : Append(t, e)[i] = IF i = n + 1 THEN e ELSE t[i]
    BY <1>5
  <2> QED
    BY <2>1, <2>2
<1>11. PICK o \in [room : Int, text : Seq(Entry)] :
         o = [room |-> r - w, text |-> t2] /\ o.room = r - w /\ o.text = t2
  <2>1. r - w \in Int
    OBVIOUS
  <2> QED
    BY <2>1, OutputRecord, Zenon
<1>12. out' = [out EXCEPT ![c] = o]
  BY <1>1, <1>3, <1>4, <1>9, <1>10, <1>11
<1>13. out'[c] = o /\ \A d \in Callers : d # c => out'[d] = out[d]
  BY <1>12 DEF SupercallInv, ListTypes
<1>14. After(cur[c]) \in Entry \cup {None}
  <2>1. CASE n + 1 = Len(mount_list)
    BY <1>8, <2>1
  <2>2. CASE n + 1 < Len(mount_list)
    <3>1. (n + 1) + 1 \in 1..Len(mount_list)
      BY <1>2, <2>2
    <3> QED
      BY <1>2, <1>8, <2>2, <3>1
  <2> QED
    BY <1>2, <1>7, <2>1, <2>2
<1>15. cur'[c] = After(cur[c]) /\ \A q \in Processes : q # c => cur'[q] = cur[q]
  BY <1>1, <1>2 DEF SupercallInv, ListTypes
<1>16. ListTypes'
  BY <1>1, <1>2, <1>12, <1>14 DEF SupercallInv, ListTypes
<1>17. ChildTypes'
  BY <1>1 DEF SupercallInv, ChildTypes
<1>18. WalkInv'
  <2>1. Distinct(mount_list)'
    BY <1>1 DEF SupercallInv, WalkInv, Distinct
  <2>2. HolderInv'
    BY <1>1 DEF SupercallInv, WalkInv, HolderInv
  <2>3. PrintInv'
    <3> SUFFICES ASSUME NEW d \in Callers, pc[d] = "printing"
                 PROVE /\ Len(out'[d].text) <= Len(mount_list)
                       /\ \A i \in 1..Len(out'[d].text) : out'[d].text[i] = mount_list[i]
                       /\ WalkAt(d, Len(out[d].text))'
      BY <1>1 DEF PrintInv
    <3>1. CASE d # c
      BY <1>1, <1>13, <1>15, <3>1 DEF SupercallInv, WalkInv, PrintInv, WalkAt, Processes
    <3>2. CASE d = c
      <4>1. out'[d].text = t2 /\ Len(t2) = n + 1
        BY <1>10, <1>11, <1>13, <3>2
      <4>2. \A i \in 1..(n + 1) : t2[i] = mount_list[i]
        BY <1>6, <1>7, <1>10
      <4>3. WalkAt(d, n + 1)'
        BY <1>1, <1>8, <1>15, <3>2 DEF WalkAt
      <4>4. n + 1 <= Len(mount_list) /\ mount_list' = mount_list
        BY <1>1, <1>2, <1>8
      <4> QED
        BY <4>1, <4>2, <4>3, <4>4
    <3> QED
      BY <3>1, <3>2
  <2>4. TriedInv'
    BY <1>1, <1>15 DEF SupercallInv, WalkInv, TriedInv, WalkAt, Processes
  <2> QED
    BY <2>1, <2>2, <2>3, <2>4, Zenon DEF WalkInv
<1>19. MountInv'
  BY <1>1 DEF SupercallInv, MountInv
<1>20. RoomInv'
  <2> SUFFICES ASSUME NEW d \in Callers
               PROVE /\ pc[d] = "sized" =>
                          /\ out'[d].text = <<>>
                          /\ out'[d].room = OutputSize(Len(counted[d])) - HeadLen
                     /\ pc[d] = "printing" /\ Fits(mount_list) =>
                          out'[d].room >= OutputSize(Len(counted[d])) - HeadLen
                                            - Len(out'[d].text) * EstEntry
    BY <1>1 DEF RoomInv, Fits
  <2>1. CASE d # c
    BY <1>13, <2>1 DEF SupercallInv, RoomInv
  <2>2. CASE d = c
    <3> SUFFICES ASSUME Fits(mount_list)
                 PROVE out'[d].room >= OutputSize(Len(counted[d])) - HeadLen
                                         - Len(out'[d].text) * EstEntry
      BY <1>1, <2>2
    <3>1. w <= EstEntry
      <4>1. n + 1 \in 1..Len(mount_list)
        BY <1>2, <1>7
      <4> QED
        BY <1>7, <1>9, <4>1 DEF Fits
    <3>2. PICK all \in Int : all = OutputSize(Len(counted[d])) - HeadLen
      BY OutputSizeInt DEF SupercallInv, ListTypes
    <3>3. r >= all - n * EstEntry
      BY <1>1, <1>3, <1>4, <1>5, <2>2, <3>2 DEF SupercallInv, RoomInv
    <3>4. EstEntry \in Nat
      BY SizesAssumption
    <3>5. r - w >= all - (n + 1) * EstEntry
      BY <3>1, <3>3, <3>4, RoomForOne
    <3>6. out'[d].room = r - w /\ Len(out'[d].text) = n + 1
      BY <1>10, <1>11, <1>13, <2>2
    <3> QED
      BY <3>2, <3>5, <3>6
  <2> QED
    BY <2>1, <2>2
<1> QED
  BY <1>16, <1>17, <1>18, <1>19, <1>20 DEF SupercallInv

\* LIST returning with what it printed keeps the invariant.
LEMMA ListReturnStep ==
  ASSUME SupercallInv, NEW c \in Callers, ListReturn(c) PROVE SupercallInv'
<1>1. /\ UNCHANGED <<mount_list, mounts, child, tried>>
      /\ pc[c] = "printing" /\ pc' = [pc EXCEPT ![c] = "idle"]
      /\ holders' = holders \ {c} /\ cur' = [cur EXCEPT ![c] = None]
      /\ counted' = [counted EXCEPT ![c] = <<>>] /\ locked' = [locked EXCEPT ![c] = <<>>]
      /\ out' = [out EXCEPT ![c] = NoOutput]
  BY DEF ListReturn, EndWalk, Forget, childVars
<1>2. c \in Processes /\ <<>> \in Seq(Entry)
  BY EmptySeq DEF Processes
<1>3. NoOutput \in [room : Int, text : Seq(Entry)]
  BY <1>2 DEF NoOutput
<1>4. ListTypes'
  BY <1>1, <1>2, <1>3 DEF SupercallInv, ListTypes, Positions
<1>5. ChildTypes'
  BY <1>1 DEF SupercallInv, ChildTypes
<1>6. pc'[c] = "idle" /\ locked'[c] = <<>>
  BY <1>1, <1>2 DEF SupercallInv, ListTypes
<1>7. \A p \in Processes : p # c => pc'[p] = pc[p] /\ locked'[p] = locked[p] /\ cur'[p] = cur[p]
  BY <1>1, <1>2 DEF SupercallInv, ListTypes
<1>8. \A d \in Callers : d # c => out'[d] = out[d] /\ counted'[d] = counted[d]
  BY <1>1 DEF SupercallInv, ListTypes
<1>9. WalkInv'
  <2>1. Distinct(mount_list)'
    BY <1>1 DEF SupercallInv, WalkInv, Distinct
  <2>2. HolderInv'
    BY <1>1, <1>2, <1>6, <1>7 DEF SupercallInv, WalkInv, HolderInv, Walking
  <2>3. PrintInv'
    BY <1>1, <1>6, <1>7, <1>8 DEF SupercallInv, WalkInv, PrintInv, WalkAt, Processes
  <2>4. TriedInv'
    BY <1>1, <1>2, <1>6, <1>7 DEF SupercallInv, WalkInv, TriedInv, WalkAt, Processes
  <2> QED
    BY <2>1, <2>2, <2>3, <2>4 DEF WalkInv
<1>10. MountInv'
  BY <1>1, <1>6, <1>7 DEF SupercallInv, MountInv, Processes
<1>11. RoomInv'
  BY <1>1, <1>6, <1>7, <1>8 DEF SupercallInv, RoomInv, Processes, Fits
<1> QED
  BY <1>4, <1>5, <1>9, <1>10, <1>11 DEF SupercallInv

\* ksu_task_fix_setuid: a new process goes on to the unmounts, or is done.
LEMMA SetresuidStep ==
  ASSUME SupercallInv, NEW k \in Children, NEW from \in Parents, NEW uid \in Kinds,
         Setresuid(k, from, uid)
  PROVE SupercallInv'
<1>1. /\ UNCHANGED <<mount_list, holders, cur, out, counted, locked, mounts, tried>>
      /\ pc[k] = "idle" /\ child' = [child EXCEPT ![k] = [from |-> from, uid |-> uid]]
      /\ \/ from = "zygote" /\ pc' = [pc EXCEPT ![k] = "unmounts"]
         \/ pc' = [pc EXCEPT ![k] = "done"]
  BY DEF Setresuid, Unmounts, listVars
<1>2. k \in Processes
  BY DEF Processes
<1>3. PICK d \in [from : Parents, uid : Kinds] :
        d = [from |-> from, uid |-> uid] /\ d.from = from /\ d # None
  <2>1. /\ [from |-> from, uid |-> uid] \in [from : Parents, uid : Kinds]
        /\ [from |-> from, uid |-> uid].from = from
    OBVIOUS
  <2> QED
    BY <2>1, NoChildIsNone, Zenon
<1>4. child'[k] = d /\ \A j \in Children : j # k => child'[j] = child[j]
  BY <1>1, <1>3 DEF SupercallInv, ChildTypes
<1>5. /\ (from = "zygote" /\ pc'[k] = "unmounts") \/ pc'[k] = "done"
      /\ \A p \in Processes : p # k => pc'[p] = pc[p]
  BY <1>1, <1>2 DEF SupercallInv, ListTypes
<1>6. ListTypes'
  BY <1>1, <1>2 DEF SupercallInv, ListTypes, Positions
<1>7. ChildTypes'
  BY <1>1, <1>3 DEF SupercallInv, ChildTypes
<1>8. locked[k] = <<>> /\ tried[k] = {}
  BY <1>1, <1>2 DEF SupercallInv, WalkInv, HolderInv, TriedInv
<1>9. WalkInv'
  <2>1. Distinct(mount_list)'
    BY <1>1 DEF SupercallInv, WalkInv, Distinct
  <2>2. HolderInv'
    BY <1>1, <1>2, <1>5, <1>8 DEF SupercallInv, WalkInv, HolderInv, Walking
  <2>3. PrintInv'
    BY <1>1, <1>5 DEF SupercallInv, WalkInv, PrintInv, WalkAt, Processes
  <2>4. TriedInv'
    <3>1. {locked[k][i].path : i \in 1..Len(locked[k])} = {}
      <4>1. Len(locked[k]) = 0
        BY <1>8
      <4> QED
        BY <4>1
    <3> QED
      BY <1>1, <1>5, <1>8, <3>1 DEF SupercallInv, WalkInv, TriedInv, WalkAt, Processes
  <2> QED
    BY <2>1, <2>2, <2>3, <2>4 DEF WalkInv
<1>10. MountInv'
  BY <1>1, <1>3, <1>4, <1>5 DEF SupercallInv, MountInv, Processes
<1>11. RoomInv'
  BY <1>1, <1>5 DEF SupercallInv, RoomInv, Processes, Fits
<1> QED
  BY <1>6, <1>7, <1>9, <1>10, <1>11 DEF SupercallInv

\* A new process trying to unmount an entry keeps the invariant.
LEMMA TryUmountStep ==
  ASSUME SupercallInv, NEW k \in Children, TryUmount(k) PROVE SupercallInv'
<1>1. /\ UNCHANGED <<mount_list, holders, out, counted, locked, child, pc>>
      /\ pc[k] = "walking" /\ cur[k] # None /\ cur' = [cur EXCEPT ![k] = After(cur[k])]
      /\ tried' = [tried EXCEPT ![k] = tried[k] \cup {cur[k].path}]
  BY DEF TryUmount, Step
<1>2. PICK gone \in SUBSET {cur[k].path} : mounts' = [mounts EXCEPT ![k] = mounts[k] \ gone]
  BY DEF TryUmount
<1>3. k \in Processes /\ Len(mount_list) \in Nat /\ mount_list \in Seq(Entry)
  BY DEF Processes, SupercallInv, ListTypes
<1>4. PICK n \in 0..Len(mount_list) :
        WalkAt(k, n) /\ tried[k] = {mount_list[i].path : i \in 1..n}
  BY <1>1 DEF SupercallInv, WalkInv, TriedInv
<1>5. n \in Nat /\ n < Len(mount_list) /\ cur[k] = mount_list[n + 1]
  BY <1>1, <1>3, <1>4 DEF WalkAt
<1>6. /\ n + 1 \in 0..Len(mount_list) /\ cur[k] \in Entry
      /\ n + 1 = Len(mount_list) => After(cur[k]) = None
      /\ n + 1 < Len(mount_list) => After(cur[k]) = mount_list[(n + 1) + 1]
  <2>1. n + 2 = (n + 1) + 1
    BY <1>5
  <2> QED
    BY <1>5, <2>1, WalkStep DEF SupercallInv, WalkInv
<1>7. After(cur[k]) \in Entry \cup {None}
  <2>1. CASE n + 1 = Len(mount_list)
    BY <1>6, <2>1
  <2>2. CASE n + 1 < Len(mount_list)
    <3>1. (n + 1) + 1 \in 1..Len(mount_list)
      BY <1>3, <1>5, <2>2
    <3> QED
      BY <1>3, <1>6, <2>2, <3>1
  <2> QED
    BY <1>3, <1>5, <2>1, <2>2
<1>8. cur'[k] = After(cur[k]) /\ \A q \in Processes : q # k => cur'[q] = cur[q]
  BY <1>1, <1>3 DEF SupercallInv, ListTypes
<1>9. PICK x \in KeptPaths : x = cur[k].path
  BY <1>6 DEF Entry
<1>10. /\ tried'[k] = tried[k] \cup {x} /\ mounts'[k] = mounts[k] \ gone
       /\ \A j \in Children : j # k => tried'[j] = tried[j] /\ mounts'[j] = mounts[j]
  BY <1>1, <1>2, <1>9 DEF SupercallInv, ChildTypes
<1>11. tried[k] \cup {x} = {mount_list[i].path : i \in 1..(n + 1)}
  <2>1. x = mount_list[n + 1].path
    BY <1>5, <1>9
  <2>2. \A i : i \in 1..(n + 1) <=> i \in 1..n \/ i = n + 1
    BY <1>5
  <2> QED
    BY <1>4, <2>1, <2>2
<1>12. ListTypes'
  BY <1>1, <1>3, <1>7 DEF SupercallInv, ListTypes
<1>13. ChildTypes'
  BY <1>1, <1>2, <1>9 DEF SupercallInv, ChildTypes
<1>14. WalkInv'
  <2>1. Distinct(mount_list)'
    BY <1>1 DEF SupercallInv, WalkInv, Distinct
  <2>2. HolderInv'
    BY <1>1 DEF SupercallInv, WalkInv, HolderInv
  <2>3. PrintInv'
    BY <1>1, <1>8 DEF SupercallInv, WalkInv, PrintInv, WalkAt, Processes
  <2>4. TriedInv'
    <3>1. WalkAt(k, n + 1)'
      BY <1>1, <1>6, <1>8 DEF WalkAt
    <3>2. \E m \in 0..Len(mount_list') :
             WalkAt(k, m)' /\ tried'[k] = {mount_list'[i].path : i \in 1..m}
      <4>1. tried'[k] = {mount_list'[i].path : i \in 1..(n + 1)} /\ n + 1 \in 0..Len(mount_list')
        BY <1>1, <1>6, <1>10, <1>11
      <4> QED
        BY <3>1, <4>1, Zenon
    <3>3. ASSUME NEW j \in Children, j # k
          PROVE /\ pc'[j] = "walking" =>
                     \E m \in 0..Len(mount_list') :
                        WalkAt(j, m)' /\ tried'[j] = {mount_list'[i].path : i \in 1..m}
                /\ pc'[j] = "done" => tried'[j] = {locked'[j][i].path : i \in 1..Len(locked'[j])}
                /\ pc'[j] \notin {"walking", "done"} => tried'[j] = {}
      BY <1>1, <1>8, <1>10, <3>3 DEF SupercallInv, WalkInv, TriedInv, WalkAt, Processes
    <3> QED
      BY <1>1, <3>2, <3>3 DEF TriedInv
  <2> QED
    BY <2>1, <2>2, <2>3, <2>4 DEF WalkInv
<1>15. MountInv'
  <2>1. child[k] # None /\ child[k].from = "zygote"
    BY <1>1 DEF SupercallInv, MountInv
  <2>2. Paths \ tried'[k] \subseteq mounts'[k]
    BY <1>9, <1>10 DEF SupercallInv, MountInv
  <2> QED
    BY <1>1, <1>10, <2>1, <2>2 DEF SupercallInv, MountInv
<1>16. RoomInv'
  BY <1>1 DEF SupercallInv, RoomInv, Fits
<1> QED
  BY <1>12, <1>13, <1>14, <1>15, <1>16 DEF SupercallInv

\* A new process at the end of the list keeps the invariant.
LEMMA EndUmountStep ==
  ASSUME SupercallInv, NEW k \in Children, EndUmount(k) PROVE SupercallInv'
<1>1. /\ UNCHANGED <<mount_list, out, counted, locked, mounts, child, tried>>
      /\ pc[k] = "walking" /\ cur[k] = None /\ pc' = [pc EXCEPT ![k] = "done"]
      /\ holders' = holders \ {k} /\ cur' = [cur EXCEPT ![k] = None]
  BY DEF EndUmount, EndWalk, childVars
<1>2. k \in Processes /\ Len(mount_list) \in Nat /\ mount_list \in Seq(Entry)
  BY DEF Processes, SupercallInv, ListTypes
<1>3. PICK n \in 0..Len(mount_list) :
        WalkAt(k, n) /\ tried[k] = {mount_list[i].path : i \in 1..n}
  BY <1>1 DEF SupercallInv, WalkInv, TriedInv
<1>4. n = Len(mount_list)
  <2> SUFFICES ASSUME n < Len(mount_list) PROVE FALSE
    BY <1>2
  <2>1. n + 1 \in 1..Len(mount_list)
    BY <1>2
  <2>2. cur[k] = mount_list[n + 1] /\ mount_list[n + 1] \in Entry
    BY <1>2, <1>3, <2>1 DEF WalkAt
  <2> QED
    BY <1>1, <2>2, NoEntryIsNone
<1>5. locked[k] = mount_list
  BY <1>1, <1>2 DEF SupercallInv, WalkInv, HolderInv, Walking
<1>6. tried[k] = {locked[k][i].path : i \in 1..Len(locked[k])}
  BY <1>3, <1>4, <1>5
<1>7. pc'[k] = "done" /\ \A p \in Processes : p # k => pc'[p] = pc[p] /\ cur'[p] = cur[p]
  BY <1>1, <1>2 DEF SupercallInv, ListTypes
<1>8. ListTypes'
  BY <1>1, <1>2 DEF SupercallInv, ListTypes, Positions
<1>9. ChildTypes'
  BY <1>1 DEF SupercallInv, ChildTypes
<1>10. WalkInv'
  <2>1. Distinct(mount_list)'
    BY <1>1 DEF SupercallInv, WalkInv, Distinct
  <2>2. HolderInv'
    BY <1>1, <1>2, <1>7 DEF SupercallInv, WalkInv, HolderInv, Walking
  <2>3. PrintInv'
    BY <1>1, <1>7 DEF SupercallInv, WalkInv, PrintInv, WalkAt, Processes
  <2>4. TriedInv'
    BY <1>1, <1>2, <1>6, <1>7 DEF SupercallInv, WalkInv, TriedInv, WalkAt, Processes
  <2> QED
    BY <2>1, <2>2, <2>3, <2>4 DEF WalkInv
<1>11. MountInv'
  BY <1>1, <1>7 DEF SupercallInv, MountInv, Processes
<1>12. RoomInv'
  BY <1>1, <1>7 DEF SupercallInv, RoomInv, Processes, Fits
<1> QED
  BY <1>8, <1>9, <1>10, <1>11, <1>12 DEF SupercallInv

\* Every step keeps the invariant.
LEMMA SupercallStep == SupercallInv /\ [Next]_vars => SupercallInv'
<1> SUFFICES ASSUME SupercallInv, [Next]_vars PROVE SupercallInv'
  OBVIOUS
<1>1. CASE UNCHANGED vars
  BY <1>1, ElsewhereStep DEF vars
<1>2. ASSUME NEW c \in Callers, ListCommands(c) PROVE SupercallInv'
  <2>1. CASE Refused(c)
    BY <2>1, ElsewhereStep DEF Refused
  <2>2. CASE Wipe(c)
    <3>1. <<>> \in Seq(Entry) /\ Distinct(<<>>)
      BY EmptySeq DEF Distinct
    <3> QED
      BY <2>2, <3>1, WriteStep DEF Wipe
  <2>3. ASSUME NEW path \in Paths, Del(c, path) PROVE SupercallInv'
    BY <2>3, RemovedList, WriteStep DEF Del, SupercallInv, WalkInv
  <2>4. ASSUME NEW path \in Paths, NEW flags \in Flags, Add(c, path, flags) PROVE SupercallInv'
    <3>1. PICK p \in KeptPaths : p = Cut(path, AddCap)
      BY DEF KeptPaths
    <3>2. ListTypes /\ Distinct(mount_list) /\ mount_list \in Seq(Entry)
      BY DEF SupercallInv, WalkInv, ListTypes
    <3>3. CASE Listed(p)
      <4>1. Write(mount_list, [op |-> "error"])
        BY <2>4, <3>1, <3>3, Zenon DEF Add
      <4> QED
        BY <3>2, <4>1, WriteStep
    <3>4. CASE ~Listed(p)
      <4>1. Write(<<[path |-> p, flags |-> flags]>> \o mount_list, [op |-> "ok"])
        BY <2>4, <3>1, <3>4, Zenon DEF Add
      <4>2. PICK new : new = <<[path |-> p, flags |-> flags]>> \o mount_list
        OBVIOUS
      <4>3. new \in Seq(Entry) /\ Distinct(new)
        BY <3>2, <3>4, <4>2, AddedList
      <4> QED
        BY <4>1, <4>2, <4>3, WriteStep
    <3> QED
      BY <3>3, <3>4
  <2> QED
    BY <1>2, <2>1, <2>2, <2>3, <2>4, ListCountStep, ListNoMemoryStep, ListPrintStep,
       ListReturnStep, LockStep DEF ListCommands, ListLock, childVars, Processes
<1>3. ASSUME NEW c \in Callers, OtherCommands(c) PROVE SupercallInv'
  BY <1>3, ElsewhereStep
     DEF OtherCommands, ModuleMounted, DoGetSulogFd, DoGetFeature, DoSetFeature
<1>4. ASSUME NEW k \in Children, NewProcess(k) PROVE SupercallInv'
  BY <1>4, SetresuidStep, LockStep, TryUmountStep, EndUmountStep
     DEF NewProcess, BeginUmount, childVars, Processes
<1>5. CASE SulogPut \/ SulogRelease
  BY <1>5, ElsewhereStep DEF SulogPut, SulogRelease
<1> QED
  BY <1>1, <1>2, <1>3, <1>4, <1>5 DEF Next

-----------------------------------------------------------------------------
(* What follows.                                                            *)

\* For any number of new processes and of callers that edit the list meanwhile:
\* whoever walks it is at a linked entry, a new process tries exactly the
\* entries of one moment, and only zygote's children lose mounts.
THEOREM UnmountsFollowTheList == Spec => []UmountFollowsList
<1>1. ASSUME SupercallInv PROVE UmountFollowsList
  <2>1. ASSUME NEW p \in holders, cur[p] # None PROVE cur[p] \in Entries(mount_list)
    <3>1. p \in Processes /\ mount_list \in Seq(Entry) /\ Len(mount_list) \in Nat
      BY <1>1 DEF SupercallInv, ListTypes
    <3>2. (pc[p] = "printing" /\ p \in Callers) \/ (pc[p] = "walking" /\ p \in Children)
      BY <1>1, <3>1 DEF SupercallInv, WalkInv, HolderInv, Walking
    <3>3. PICK n \in 0..Len(mount_list) : WalkAt(p, n)
      <4>1. CASE pc[p] = "printing" /\ p \in Callers
        <5>1. Len(out[p].text) \in 0..Len(mount_list) /\ WalkAt(p, Len(out[p].text))
          BY <1>1, <3>1, <4>1 DEF SupercallInv, WalkInv, PrintInv, ListTypes
        <5> QED
          BY <5>1
      <4>2. CASE pc[p] = "walking" /\ p \in Children
        BY <1>1, <4>2 DEF SupercallInv, WalkInv, TriedInv
      <4> QED
        BY <3>2, <4>1, <4>2
    <3>4. n + 1 \in DOMAIN mount_list /\ cur[p] = mount_list[n + 1]
      BY <2>1, <3>1, <3>3 DEF WalkAt
    <3> QED
      BY <3>4 DEF Entries
  <2>2. ASSUME NEW k \in Children, pc[k] = "done"
        PROVE tried[k] = {e.path : e \in Entries(locked[k])}
    <3>1. locked[k] \in Seq(Entry) /\ DOMAIN locked[k] = 1..Len(locked[k])
      BY <1>1 DEF SupercallInv, ListTypes, Processes
    <3>2. tried[k] = {locked[k][i].path : i \in 1..Len(locked[k])}
      BY <1>1, <2>2 DEF SupercallInv, WalkInv, TriedInv
    <3> QED
      BY <3>1, <3>2 DEF Entries
  <2>3. ASSUME NEW k \in Children
        PROVE /\ Paths \ tried[k] \subseteq mounts[k]
              /\ child[k] # None /\ child[k].from # "zygote" => mounts[k] = Paths
    BY <1>1 DEF SupercallInv, MountInv
  <2> QED
    BY <2>1, <2>2, <2>3 DEF UmountFollowsList
<1> QED
  BY SupercallInit, SupercallStep, <1>1, PTL DEF Spec

SulogInv ==
  files \in Nat /\ releasing \in Nat /\ sulog_active \in BOOLEAN /\ SulogExact

\* The su log never has two reader's files, and ksu_sulog_fd_active is never
\* left set with none: whatever fails while a file is made, and however late
\* the release of a closed one runs.
THEOREM ReaderNeverLockedOut == Spec => []SulogExact
<1>1. Init => SulogInv
  <2> SUFFICES ASSUME Init PROVE SulogInv
    OBVIOUS
  <2>1. files = 0 /\ releasing = 0 /\ sulog_active = FALSE
    BY DEF Init
  <2>2. (IF sulog_active THEN 1 ELSE 0) = 0
    BY <2>1, Zenon
  <2> QED
    BY <2>1, <2>2, 0 + 0 = 0 DEF SulogInv, SulogExact
<1>2. SulogInv /\ [Next]_vars => SulogInv'
  <2> SUFFICES ASSUME SulogInv, [Next]_vars PROVE SulogInv'
    OBVIOUS
  <2>1. CASE UNCHANGED sulogVars
    BY <2>1 DEF SulogInv, SulogExact, sulogVars
  <2>2. ASSUME NEW c \in Callers, DoGetSulogFd(c) PROVE SulogInv'
    <3>1. releasing' = releasing
      BY <2>2 DEF DoGetSulogFd
    <3>2. CASE UNCHANGED <<sulog_active, files>>
      BY <3>1, <3>2 DEF SulogInv, SulogExact
    <3>3. ASSUME NEW made \in BOOLEAN, InstallSulogFd(made) PROVE SulogInv'
      <4>1. ~sulog_active /\ files = 0 /\ releasing = 0
        BY <3>3 DEF InstallSulogFd, SulogInv, SulogExact
      <4>2. CASE made
        BY <3>1, <3>3, <4>1, <4>2 DEF InstallSulogFd, SulogInv, SulogExact
      <4>3. CASE ~made
        BY <3>1, <3>3, <4>1, <4>3 DEF InstallSulogFd, SulogInv, SulogExact
      <4> QED
        BY <4>2, <4>3
    <3> QED
      BY <2>2, <3>2, <3>3, Zenon DEF DoGetSulogFd
  <2>3. CASE SulogPut
    BY <2>3 DEF SulogPut, SulogInv, SulogExact
  <2>4. CASE SulogRelease
    <3>1. releasing > 0 /\ releasing' = releasing - 1 /\ files' = files /\ sulog_active' = FALSE
      BY <2>4 DEF SulogRelease
    <3>2. files = 0 /\ releasing = 1
      BY <3>1 DEF SulogInv, SulogExact
    <3>3. (IF sulog_active' THEN 1 ELSE 0) = 0
      BY <3>1, Zenon
    <3>4. files' = 0 /\ releasing' = 0 /\ sulog_active' = FALSE
      BY <3>1, <3>2
    <3> QED
      BY <3>3, <3>4, 0 + 0 = 0 DEF SulogInv, SulogExact
  <2>5. ASSUME NEW c \in Callers, ListCommands(c) PROVE UNCHANGED sulogVars
    BY <2>5, Zenon DEF ListCommands, Refused, Wipe, ListCount, ListNoMemory, ListLock, ListPrint,
       ListReturn, Del, Add, Write
  <2>6. ASSUME NEW k \in Children, NewProcess(k) PROVE UNCHANGED sulogVars
    BY <2>6, Zenon DEF NewProcess, Setresuid, BeginUmount, TryUmount, EndUmount
  <2>7. ASSUME NEW c \in Callers, OtherCommands(c) PROVE UNCHANGED sulogVars \/ DoGetSulogFd(c)
    BY <2>7, Zenon DEF OtherCommands, ModuleMounted, DoGetFeature, DoSetFeature
  <2> QED
    BY <2>1, <2>2, <2>3, <2>4, <2>5, <2>6, <2>7 DEF Next, vars
<1>3. SulogInv => SulogExact
  BY DEF SulogInv
<1> QED
  BY <1>1, <1>2, <1>3, PTL DEF Spec

-----------------------------------------------------------------------------
(* What callers are told.                                                   *)

ReplyInv == handlers \subseteq Features /\ RepliesTrue

\* A reply that is only a return code claims nothing.
LEMMA PlainReply ==
  ASSUME reply' = None \/ reply' = [op |-> "ok"] \/ reply' = [op |-> "error"]
  PROVE RepliesTrue'
<1>1. [op |-> "ok"].op = "ok" /\ [op |-> "error"].op = "error"
  OBVIOUS
<1>2. reply' # None => reply'.op \in {"ok", "error"}
  BY <1>1
<1> QED
  BY <1>2 DEF RepliesTrue

\* What the reply to LIST is made of.
LEMMA ResultFields ==
  ASSUME NEW op, NEW c
  PROVE /\ Result(op, c).op = op /\ Result(op, c).text = out[c].text
        /\ Result(op, c).counted = counted[c] /\ Result(op, c).seen = locked[c]
  BY DEF Result

\* The buffer was large enough for what had been counted.
LEMMA EnoughRoom ==
  ASSUME NEW N \in Nat, NEW n \in Nat, n < N, NEW room \in Int, NEW w \in Nat,
         EstHeader + N * EstEntry <= MaxOut,
         room >= OutputSize(N) - HeadLen - n * EstEntry, w <= EstEntry
  PROVE w < room
<1>1. EstEntry \in Nat /\ EstHeader \in Nat /\ HeadLen \in Nat /\ HeadLen < EstHeader
      /\ MinOut \in Nat /\ MaxOut \in Nat
  BY SizesAssumption
<1>2. PICK x \in Int : x = n * EstEntry
  BY <1>1
<1>3. PICK y \in Int : y = N * EstEntry
  BY <1>1
<1>4. y >= x + EstEntry
  <2>1. PICK d \in Nat : N = n + 1 + d
    <3>1. N - n - 1 \in Nat /\ N = n + 1 + (N - n - 1)
      OBVIOUS
    <3> QED
      BY <3>1
  <2>2. y = x + EstEntry + d * EstEntry
    BY <1>1, <1>2, <1>3, <2>1
  <2>3. d * EstEntry \in Nat
    BY <1>1
  <2> QED
    BY <1>1, <2>2, <2>3
<1>5. OutputSize(N) >= EstHeader + y
  BY <1>1, <1>3 DEF OutputSize, Clamp
<1>6. OutputSize(N) \in Int
  BY <1>1, <1>3 DEF OutputSize, Clamp
<1>7. room >= OutputSize(N) - HeadLen - x
  BY <1>2
<1> QED
  BY <1>1, <1>4, <1>5, <1>6, <1>7

\* LIST_TRY_UMOUNT: the whole list, or a good reason.
LEMMA ReturnedTrue ==
  ASSUME SupercallInv, NEW c \in Callers, ListReturn(c), reply' = Returned(c)
  PROVE RepliesTrue'
<1>1. c \in Processes /\ Len(mount_list) \in Nat /\ mount_list \in Seq(Entry)
  BY DEF Processes, SupercallInv, ListTypes
<1>2. /\ pc[c] = "printing"
      /\ cur[c] # None => Written(cur[c]) >= out[c].room
  BY DEF ListReturn
<1>3. PICK t \in Seq(Entry) : t = out[c].text
  BY DEF SupercallInv, ListTypes
<1>4. PICK n \in Nat : n = Len(t)
  BY <1>3
<1>5. n <= Len(mount_list) /\ (\A i \in 1..n : t[i] = mount_list[i]) /\ WalkAt(c, n)
  BY <1>2, <1>3, <1>4 DEF SupercallInv, WalkInv, PrintInv
<1>6. locked[c] = mount_list
  BY <1>1, <1>2 DEF SupercallInv, WalkInv, HolderInv, Walking
<1>7. CASE cur[c] = None
  <2>1. n = Len(mount_list)
    <3> SUFFICES ASSUME n < Len(mount_list) PROVE FALSE
      BY <1>1, <1>5
    <3>1. n + 1 \in 1..Len(mount_list)
      BY <1>1
    <3>2. cur[c] = mount_list[n + 1] /\ mount_list[n + 1] \in Entry
      BY <1>1, <1>5, <3>1 DEF WalkAt
    <3> QED
      BY <1>7, <3>2, NoEntryIsNone
  <2>2. t = mount_list
    BY <1>1, <1>4, <1>5, <2>1, SeqEqual
  <2>3. reply' = Result("list", c)
    BY <1>7 DEF Returned
  <2>4. reply'.op = "list" /\ reply'.text = t /\ reply'.seen = locked[c]
    BY <1>3, <2>3, ResultFields
  <2> QED
    BY <1>6, <2>2, <2>4 DEF RepliesTrue
<1>8. CASE cur[c] # None
  <2>1. reply' = Result("nospace", c)
    BY <1>8 DEF Returned
  <2>2. reply'.op = "nospace" /\ reply'.counted = counted[c] /\ reply'.seen = mount_list
    BY <1>6, <2>1, ResultFields
  <2>3. n < Len(mount_list) /\ cur[c] = mount_list[n + 1] /\ n + 1 \in 1..Len(mount_list)
    BY <1>1, <1>5, <1>8 DEF WalkAt
  <2>4. cur[c] \in Entry /\ Written(cur[c]) \in Nat
    BY <1>1, <2>3, WrittenNat
  <2>5. SUFFICES ASSUME /\ counted[c] = mount_list
                        /\ \A e \in Entries(mount_list) : ~(Written(e) > EstEntry)
                        /\ ~(EstHeader + Len(mount_list) * EstEntry > MaxOut)
                 PROVE FALSE
    BY <2>2 DEF RepliesTrue
  <2>6. EstEntry \in Nat /\ EstHeader \in Nat /\ MaxOut \in Nat
    BY SizesAssumption
  <2>7. ASSUME NEW i \in 1..Len(mount_list) PROVE Written(mount_list[i]) <= EstEntry
    <3>1. mount_list[i] \in Entry /\ mount_list[i] \in Entries(mount_list)
      BY <1>1 DEF Entries
    <3> QED
      BY <2>5, <2>6, <3>1, WrittenNat
  <2>8. Fits(mount_list)
    BY <2>7 DEF Fits
  <2>9. PICK r \in Int : r = out[c].room
    BY DEF SupercallInv, ListTypes
  <2>10. r >= OutputSize(Len(mount_list)) - HeadLen - n * EstEntry
    BY <1>2, <1>3, <1>4, <2>5, <2>8, <2>9 DEF SupercallInv, RoomInv
  <2>11. Len(mount_list) * EstEntry \in Int
    BY <1>1, <2>6
  <2>12. EstHeader + Len(mount_list) * EstEntry <= MaxOut
    BY <2>5, <2>6, <2>11
  <2>13. Written(cur[c]) <= EstEntry
    BY <2>3, <2>7
  <2>14. Written(cur[c]) < r
    BY <1>1, <2>3, <2>4, <2>10, <2>12, <2>13, EnoughRoom
  <2> QED
    BY <1>2, <1>8, <2>4, <2>9, <2>14
<1> QED
  BY <1>7, <1>8

\* GET_FEATURE, whatever was on the stack.
LEMMA FeatureReplyTrue ==
  ASSUME ReplyInv, NEW c \in Callers, NEW f \in Features \cup Unknown, DoGetFeature(c, f)
  PROVE RepliesTrue'
<1>1. handlers' = handlers
  BY DEF DoGetFeature, featureVars
<1>2. PICK l \in Lookup(f) :
        reply' = IF l.err /\ l.supported THEN [op |-> "error"]
                 ELSE [op |-> "feature", id |-> f, supported |-> l.supported]
  BY DEF DoGetFeature
<1>3. CASE l.err /\ l.supported
  BY <1>2, <1>3, PlainReply
<1>4. CASE ~(l.err /\ l.supported)
  <2>1. l.supported = (f \in handlers)
    <3>1. CASE f \in Unknown
      <4>1. l.err = TRUE /\ l.supported \in BOOLEAN /\ f \notin handlers
        BY <3>1, FeaturesAssumption DEF Lookup, ReplyInv
      <4> QED
        BY <1>4, <4>1
    <3>2. CASE f \notin Unknown
      BY <3>2 DEF Lookup
    <3> QED
      BY <3>1, <3>2
  <2>2. PICK b : b = l.supported
    OBVIOUS
  <2>3. reply' = [op |-> "feature", id |-> f, supported |-> b]
    BY <1>2, <1>4, <2>2
  <2>4. reply'.op = "feature" /\ reply'.id = f /\ reply'.supported = b
    BY <2>3
  <2> QED
    BY <1>1, <2>1, <2>2, <2>4 DEF RepliesTrue
<1> QED
  BY <1>3, <1>4

\* For any list and any sizes of the buffer: LIST_TRY_UMOUNT returns the whole
\* list as it was at one moment, or refuses for want of room for a good
\* reason; GET_FEATURE claims support exactly for the features with a handler.
THEOREM CallersAreToldTheTruth == Spec => []RepliesTrue
<1>1. Init => ReplyInv
  BY DEF Init, ReplyInv, RepliesTrue
<1>2. SupercallInv /\ ReplyInv /\ [Next]_vars => ReplyInv'
  <2> SUFFICES ASSUME SupercallInv, ReplyInv, [Next]_vars PROVE ReplyInv'
    OBVIOUS
  <2>1. handlers' = handlers
    <3>1. ASSUME NEW c \in Callers, ListCommands(c) PROVE handlers' = handlers
      BY <3>1, Zenon DEF ListCommands, Refused, Wipe, ListCount, ListNoMemory, ListLock,
         ListPrint,
         ListReturn, Del, Add, Write, featureVars
    <3>2. ASSUME NEW c \in Callers, OtherCommands(c) PROVE handlers' = handlers
      BY <3>2, Zenon DEF OtherCommands, ModuleMounted, DoGetSulogFd, DoGetFeature, DoSetFeature,
         featureVars
    <3>3. ASSUME NEW k \in Children, NewProcess(k) PROVE handlers' = handlers
      BY <3>3, Zenon DEF NewProcess, Setresuid, BeginUmount, TryUmount, EndUmount, featureVars
    <3>4. CASE SulogPut \/ SulogRelease \/ UNCHANGED vars
      BY <3>4 DEF SulogPut, SulogRelease, vars, featureVars
    <3> QED
      BY <3>1, <3>2, <3>3, <3>4 DEF Next
  <2>2. CASE UNCHANGED vars
    BY <2>1, <2>2 DEF vars, ReplyInv, RepliesTrue, Entries, Written
  <2>3. ASSUME NEW c \in Callers, ListCommands(c) PROVE RepliesTrue'
    <3>1. CASE ListReturn(c)
      BY <3>1, ReturnedTrue, PlainReply DEF ListReturn
    <3>2. CASE ~ListReturn(c)
      <4>1. reply' = None \/ reply' = [op |-> "ok"] \/ reply' = [op |-> "error"]
        BY <2>3, <3>2, Zenon DEF ListCommands, Refused, Wipe, ListCount, ListNoMemory, ListLock,
           ListPrint, Del, Add, Write
      <4> QED
        BY <4>1, PlainReply
    <3> QED
      BY <3>1, <3>2
  <2>4. ASSUME NEW c \in Callers, OtherCommands(c) PROVE RepliesTrue'
    <3>1. CASE \E f \in Features \cup Unknown : DoGetFeature(c, f)
      BY <3>1, FeatureReplyTrue
    <3>2. CASE ModuleMounted(c) \/ \E f \in Features, v \in {0, 1} : DoSetFeature(c, f, v)
      BY <3>2, PlainReply DEF ModuleMounted, DoSetFeature
    <3>3. CASE DoGetSulogFd(c)
      <4>1. \/ \E made \in BOOLEAN : reply' = [op |-> IF made THEN "ok" ELSE "error"]
            \/ reply' = [op |-> "error"]
        BY <3>3 DEF DoGetSulogFd
      <4> QED
        BY <4>1, PlainReply
    <3> QED
      BY <2>4, <3>1, <3>2, <3>3 DEF OtherCommands
  <2>5. ASSUME NEW k \in Children, NewProcess(k) PROVE RepliesTrue'
    BY <2>5, PlainReply DEF NewProcess, Setresuid, BeginUmount, TryUmount, EndUmount
  <2>6. CASE SulogPut \/ SulogRelease
    BY <2>1, <2>6, PlainReply DEF SulogPut, SulogRelease, ReplyInv
  <2> QED
    BY <2>1, <2>2, <2>3, <2>4, <2>5, <2>6 DEF Next, ReplyInv
<1>3. ReplyInv => RepliesTrue
  BY DEF ReplyInv
<1> QED
  BY SupercallInit, SupercallStep, <1>1, <1>2, <1>3, PTL DEF Spec

=============================================================================
