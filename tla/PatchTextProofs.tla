--------------------------- MODULE PatchTextProofs ---------------------------
(***************************************************************************)
(* Proofs about PatchText for every finite set of CPUs.                    *)
(*                                                                         *)
(* cpu_count alone does not say who may write: the inductive invariant     *)
(* says that a patch goes through four phases, what cpu_count is in each,  *)
(* and which CPUs are known to execute the current text.                   *)
(***************************************************************************)
EXTENDS PatchText, FiniteSetTheorems, TLAPS

\* The CPUs that spin
Spinning == {c \in CPUs : pc[c] = "spin"}

\* No patch is under way.
Running == \A c \in CPUs : pc[c] = "run" /\ view[c] = text

\* CPUs arrive; cpu_count counts them, and the last one is missing.
Gathering ==
  /\ \A c \in CPUs : pc[c] \in {"stopped", "spin"} /\ view[c] = text
  /\ \E c \in CPUs : pc[c] = "stopped"
  /\ cpu_count = Cardinality(Spinning)
  /\ left = Len

\* One CPU writes and the others spin.
Patching ==
  \E m \in CPUs :
    /\ pc[m] \in {"patch", "notify"}
    /\ \A d \in CPUs \ {m} : pc[d] = "spin"
    /\ cpu_count = num_online_cpus
    /\ pc[m] = "notify" \/ left = Len => view[m] = text

\* The barrier is open; those that are through it are up to date.
Leaving ==
  /\ \A c \in CPUs : pc[c] \in {"spin", "isb", "done"}
  /\ \A c \in CPUs : pc[c] = "done" => view[c] = text
  /\ cpu_count = num_online_cpus + 1

PatchInv == TypeOK /\ (Running \/ Gathering \/ Patching \/ Leaving)

-----------------------------------------------------------------------------
\* The number of CPUs, and of those that spin, is a natural number.
LEMMA Counts ==
  ASSUME TypeOK
  PROVE  /\ num_online_cpus \in Nat
         /\ IsFiniteSet(Spinning)
         /\ Cardinality(Spinning) \in Nat
<1>1. Spinning \subseteq CPUs BY DEF Spinning
<1>2. IsFiniteSet(Spinning) BY <1>1, ConstantsAssumption, FS_Subset
<1> QED BY <1>2, ConstantsAssumption, FS_CardinalityType DEF num_online_cpus

\* A CPU that is not the last one to arrive joins those that spin; the last one
\* finds all others spinning.
LEMMA ArriveKeeps ==
  ASSUME PatchInv, NEW c \in CPUs, Arrive(c)
  PROVE  (Gathering \/ Patching)'
<1>1. Gathering BY DEF PatchInv, Running, Gathering, Patching, Leaving, Arrive
<1>2. TypeOK BY DEF PatchInv
<1>3. /\ num_online_cpus \in Nat
      /\ IsFiniteSet(Spinning)
      /\ Cardinality(Spinning) \in Nat
  BY <1>2, Counts
<1>4. c \notin Spinning BY DEF Spinning, Arrive
<1>5. Cardinality(Spinning \cup {c}) = Cardinality(Spinning) + 1
  BY <1>3, <1>4, FS_AddElement
<1>6. Spinning \cup {c} \subseteq CPUs BY DEF Spinning
<1>7. cpu_count + 1 = Cardinality(Spinning \cup {c}) BY <1>1, <1>5 DEF Gathering
<1>8. CASE IsLast(cpu_count + 1)
  <2>1. Spinning \cup {c} = CPUs
    BY <1>6, <1>7, <1>8, ConstantsAssumption, FS_Subset DEF IsLast, num_online_cpus
  <2>2. pc'[c] = "patch" BY <1>2, <1>8 DEF Arrive, Goto, TypeOK
  <2>3. \A d \in CPUs \ {c} : pc'[d] = "spin"
    BY <1>2, <2>1 DEF Arrive, Goto, TypeOK, Spinning
  <2>4. cpu_count' = num_online_cpus BY <1>8 DEF Arrive, IsLast
  <2>5. view'[c] = text' BY <1>1 DEF Gathering, Arrive
  <2> QED BY <2>2, <2>3, <2>4, <2>5 DEF Patching, num_online_cpus
<1>9. CASE ~IsLast(cpu_count + 1)
  <2>1. pc' = [pc EXCEPT ![c] = "spin"] BY <1>9 DEF Arrive, Goto
  <2>2. Spinning' = Spinning \cup {c} BY <1>2, <2>1 DEF Spinning, TypeOK
  <2>3. cpu_count' = Cardinality(Spinning') BY <1>7, <2>2 DEF Arrive
  <2>4. Spinning \cup {c} # CPUs BY <1>7, <1>9 DEF IsLast, num_online_cpus
  <2>5. \E d \in CPUs : pc'[d] = "stopped"
    <3>1. PICK d \in CPUs : d \notin Spinning \cup {c} BY <1>6, <2>4
    <3>2. pc[d] = "stopped" BY <1>1, <3>1 DEF Gathering, Spinning
    <3> QED BY <1>2, <2>1, <3>1, <3>2 DEF TypeOK
  <2>6. \A d \in CPUs : pc'[d] \in {"stopped", "spin"} /\ view'[d] = text'
    BY <1>1, <1>2, <2>1 DEF Gathering, Arrive, TypeOK
  <2>7. left' = Len BY <1>1 DEF Gathering, Arrive
  <2> QED BY <2>3, <2>5, <2>6, <2>7 DEF Gathering
<1> QED BY <1>8, <1>9

\* A step of the CPU that writes leaves every other CPU spinning.
LEMMA MasterKeeps ==
  ASSUME PatchInv, NEW c \in CPUs,
         NoAddress(c) \/ Store(c) \/ CopyFault(c) \/ Flush(c)
  PROVE  Patching'
<1>1. TypeOK BY DEF PatchInv
<1>2. pc[c] = "patch" BY DEF NoAddress, Store, CopyFault, Flush
<1>3. Patching BY <1>2 DEF PatchInv, Running, Gathering, Leaving
<1>4. /\ \A d \in CPUs \ {c} : pc[d] = "spin"
      /\ cpu_count = num_online_cpus
      /\ left = Len => view[c] = text
  BY <1>2, <1>3 DEF Patching
<1>5. cpu_count' = num_online_cpus
  BY <1>4 DEF NoAddress, Store, CopyFault, Flush
<1>6. Len \in Nat \ {0} /\ left \in 0 .. Len BY <1>1, ConstantsAssumption DEF TypeOK
<1>7. CASE NoAddress(c)
  <2>1. pc'[c] = "notify" /\ \A d \in CPUs \ {c} : pc'[d] = "spin"
    BY <1>1, <1>4, <1>7 DEF NoAddress, Goto, TypeOK
  <2>2. view'[c] = text' BY <1>4, <1>7 DEF NoAddress
  <2> QED BY <1>5, <2>1, <2>2 DEF Patching, num_online_cpus
<1>8. CASE Store(c)
  <2>1. pc' = pc BY <1>8 DEF Store
  <2>2. left' # Len BY <1>6, <1>8 DEF Store
  <2> QED BY <1>2, <1>4, <1>5, <2>1, <2>2 DEF Patching, num_online_cpus
<1>9. CASE CopyFault(c)
  <2>1. pc' = pc BY <1>9 DEF CopyFault
  <2>2. left' # Len BY <1>6, <1>9 DEF CopyFault
  <2> QED BY <1>2, <1>4, <1>5, <2>1, <2>2 DEF Patching, num_online_cpus
<1>10. CASE Flush(c)
  <2>1. pc'[c] = "notify" /\ \A d \in CPUs \ {c} : pc'[d] = "spin"
    BY <1>1, <1>4, <1>10 DEF Flush, Goto, TypeOK
  <2>2. view'[c] = text' BY <1>1, <1>10 DEF Flush, TypeOK
  <2> QED BY <1>5, <2>1, <2>2 DEF Patching, num_online_cpus
<1> QED BY <1>7, <1>8, <1>9, <1>10

\* The additional increment opens the barrier; nobody passes it before.
LEMMA NotifyOpens ==
  ASSUME PatchInv, NEW c \in CPUs, Notify(c)
  PROVE  Leaving'
<1>1. TypeOK /\ pc[c] = "notify" BY DEF PatchInv, Notify
<1>2. Patching BY <1>1 DEF PatchInv, Running, Gathering, Leaving
<1>3. /\ \A d \in CPUs \ {c} : pc[d] = "spin"
      /\ cpu_count = num_online_cpus
      /\ view[c] = text
  BY <1>1, <1>2 DEF Patching
<1>4. pc'[c] = "done" /\ \A d \in CPUs \ {c} : pc'[d] = "spin"
  BY <1>1, <1>3 DEF Notify, Goto, TypeOK
<1>5. cpu_count' = num_online_cpus + 1 BY <1>3 DEF Notify
<1>6. view' = view /\ text' = text BY DEF Notify
<1> QED BY <1>3, <1>4, <1>5, <1>6 DEF Leaving, num_online_cpus

\* A spinning CPU passes only an open barrier, and synchronises after it.
LEMMA LeavingKeeps ==
  ASSUME PatchInv, NEW c \in CPUs, SpinEnd(c) \/ Isb(c)
  PROVE  Leaving'
<1>1. TypeOK BY DEF PatchInv
<1>2. num_online_cpus \in Nat BY <1>1, Counts
<1>3. Leaving
  <2>1. CASE SpinEnd(c)
    <3>1. pc[c] = "spin" /\ ~(cpu_count <= num_online_cpus) BY <2>1 DEF SpinEnd, Waiting
    <3>2. ~Running BY <3>1 DEF Running
    <3>3. ~Patching BY <1>2, <3>1 DEF Patching
    <3>4. ~Gathering
      <4>1. SUFFICES ASSUME Gathering PROVE FALSE OBVIOUS
      <4>2. Spinning \subseteq CPUs BY DEF Spinning
      <4>3. Cardinality(Spinning) <= Cardinality(CPUs)
        BY <4>2, ConstantsAssumption, FS_Subset
      <4>4. Cardinality(Spinning) \in Nat BY <1>1, Counts
      <4> QED BY <1>2, <3>1, <4>1, <4>3, <4>4 DEF Gathering, num_online_cpus
    <3> QED BY <3>2, <3>3, <3>4 DEF PatchInv
  <2>2. CASE Isb(c)
    BY <2>2 DEF Isb, PatchInv, Running, Gathering, Patching
  <2> QED BY <2>1, <2>2
<1>4. CASE SpinEnd(c)
  BY <1>1, <1>3, <1>4 DEF Leaving, SpinEnd, Goto, TypeOK, num_online_cpus
<1>5. CASE Isb(c)
  BY <1>1, <1>3, <1>5 DEF Leaving, Isb, Goto, TypeOK, num_online_cpus
<1> QED BY <1>4, <1>5

\* Every action keeps the variables in their types.
LEMMA TypeKept ==
  ASSUME TypeOK, Next
  PROVE  TypeOK'
<1> USE ConstantsAssumption
<1>1. CASE StopMachine BY <1>1 DEF StopMachine, TypeOK
<1>2. CASE Resume BY <1>2 DEF Resume, TypeOK
<1>3. ASSUME NEW c \in CPUs, CallbackStep(c) PROVE TypeOK'
  <2>1. CASE Arrive(c) BY <2>1 DEF Arrive, Goto, TypeOK
  <2>2. CASE NoAddress(c) BY <2>2 DEF NoAddress, Goto, TypeOK
  <2>3. CASE Store(c) BY <2>3 DEF Store, TypeOK
  <2>4. CASE CopyFault(c) BY <2>4 DEF CopyFault, TypeOK
  <2>5. CASE Flush(c) BY <2>5 DEF Flush, Goto, TypeOK
  <2>6. CASE Notify(c) BY <2>6 DEF Notify, Goto, TypeOK
  <2>7. CASE SpinEnd(c) BY <2>7 DEF SpinEnd, Goto, TypeOK
  <2>8. CASE Isb(c) BY <2>8 DEF Isb, Goto, TypeOK
  <2> QED BY <1>3, <2>1, <2>2, <2>3, <2>4, <2>5, <2>6, <2>7, <2>8 DEF CallbackStep
<1> QED BY <1>1, <1>2, <1>3 DEF Next

\* stop_machine starts from CPUs that run the current text and finds none spinning.
LEMMA StopMachineKeeps ==
  ASSUME PatchInv, StopMachine
  PROVE  (Running \/ Gathering)'
<1>1. TypeOK BY DEF PatchInv
<1>2. Running
  <2>1. PICK c \in CPUs : TRUE BY ConstantsAssumption
  <2> QED BY <2>1 DEF StopMachine, PatchInv, Running, Gathering, Patching, Leaving
<1>3. CASE pc' = pc
  BY <1>2, <1>3 DEF Running, StopMachine
<1>4. CASE pc' = [c \in CPUs |-> "stopped"] /\ left' = Len
  <2>1. Spinning' = {} BY <1>4 DEF Spinning
  <2>2. Cardinality({}) = 0 BY FS_EmptySet
  <2>3. cpu_count' = Cardinality(Spinning') BY <2>1, <2>2 DEF StopMachine
  <2>4. \E c \in CPUs : pc'[c] = "stopped" BY <1>4, ConstantsAssumption
  <2> QED BY <1>2, <1>4, <2>3, <2>4 DEF Gathering, Running, StopMachine
<1> QED BY <1>3, <1>4 DEF StopMachine

\* PatchInv holds initially and every step keeps it.
THEOREM PatchInvariant == Spec => []PatchInv
<1>1. Init => PatchInv
  BY ConstantsAssumption DEF Init, PatchInv, TypeOK, Running
<1>2. PatchInv /\ [Next]_vars => PatchInv'
  <2>1. SUFFICES ASSUME PatchInv, [Next]_vars PROVE PatchInv' OBVIOUS
  <2>2. CASE UNCHANGED vars
    BY <2>1, <2>2 DEF PatchInv, TypeOK, Running, Gathering, Patching, Leaving, Spinning, vars
  <2>3. CASE Next
    <3>1. TypeOK' BY <2>1, <2>3, TypeKept DEF PatchInv
    <3>2. CASE StopMachine BY <2>1, <3>1, <3>2, StopMachineKeeps DEF PatchInv
    <3>3. CASE Resume
      <4>1. PICK c \in CPUs : TRUE BY ConstantsAssumption
      <4>2. Leaving
        BY <2>1, <3>3, <4>1 DEF Resume, PatchInv, Running, Gathering, Patching
      <4>3. Running' BY <3>3, <4>2 DEF Resume, Leaving, Running
      <4> QED BY <3>1, <4>3 DEF PatchInv
    <3>4. ASSUME NEW c \in CPUs, CallbackStep(c) PROVE PatchInv'
      <4>1. CASE Arrive(c) BY <2>1, <3>1, <4>1, ArriveKeeps DEF PatchInv
      <4>2. CASE NoAddress(c) \/ Store(c) \/ CopyFault(c) \/ Flush(c)
        BY <2>1, <3>1, <4>2, MasterKeeps DEF PatchInv
      <4>3. CASE Notify(c) BY <2>1, <3>1, <4>3, NotifyOpens DEF PatchInv
      <4>4. CASE SpinEnd(c) \/ Isb(c) BY <2>1, <3>1, <4>4, LeavingKeeps DEF PatchInv
      <4> QED BY <3>4, <4>1, <4>2, <4>3, <4>4 DEF CallbackStep
    <3> QED BY <2>3, <3>2, <3>3, <3>4 DEF Next
  <2> QED BY <2>1, <2>2, <2>3
<1> QED BY <1>1, <1>2, PTL DEF Spec

\* The fields of patch_text_info keep their types; no store is made past the end.
THEOREM PatchTypes == Spec => []TypeOK
<1>1. PatchInv => TypeOK BY DEF PatchInv
<1> QED BY <1>1, PatchInvariant, PTL

\* There is one master, and while it writes all other CPUs spin.
THEOREM OneMaster == Spec => []MasterAlone
<1>1. PatchInv => MasterAlone
  BY DEF PatchInv, MasterAlone, Running, Gathering, Patching, Leaving
<1> QED BY <1>1, PatchInvariant, PTL

\* No CPU leaves the callback with text that is out of date.
THEOREM TextIsCoherent == Spec => []Coherent
<1>1. PatchInv => Coherent
  BY DEF PatchInv, Coherent, Running, Gathering, Patching, Leaving
<1> QED BY <1>1, PatchInvariant, PTL
=============================================================================
