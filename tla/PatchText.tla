------------------------------ MODULE PatchText ------------------------------
(***************************************************************************)
(* kernel/non_gki/patch_memory_arm64.c: ksu_patch_text changes kernel text *)
(* or read-only data while stop_machine keeps every CPU in                 *)
(* ksu_patch_text_cb.  The CPU that arrives last writes; the others spin   *)
(* on cpu_count until it has been incremented once more, and then execute  *)
(* an isb.                                                                 *)
(*                                                                         *)
(* The text is the number of stores that were made to it; what a CPU       *)
(* executes is the text as of its last synchronisation.                    *)
(***************************************************************************)
EXTENDS Integers, FiniteSets

CONSTANTS
  CPUs,       \* the online CPUs; stop_machine holds the hotplug lock
  Len,        \* stores that one patch needs
  MaxPatches  \* bound of the model: calls of ksu_patch_text

ASSUME ConstantsAssumption ==
  /\ IsFiniteSet(CPUs) /\ CPUs # {}
  /\ Len \in Nat \ {0}
  /\ MaxPatches \in Nat

VARIABLES
  pc,         \* cpu -> position
  cpu_count,  \* patch_text_info.cpu_count
  left,       \* stores that the patch still has to make
  ret,        \* result of the patch: 0 or an error
  text,       \* stores made so far
  view,       \* cpu -> the text it executes
  patches

vars == <<pc, cpu_count, left, ret, text, view, patches>>

num_online_cpus == Cardinality(CPUs)

Init ==
  /\ pc = [c \in CPUs |-> "run"]
  /\ cpu_count = 0
  /\ left = 0
  /\ ret = 0
  /\ text = 0
  /\ view = [c \in CPUs |-> 0]
  /\ patches = 0

Goto(c, l) == pc' = [pc EXCEPT ![c] = l]

\* ksu_patch_text calls stop_machine: no CPU enters the callback before all have
\* left what they were doing.  Before 4.8 ksu_prepare_patch_vmap may fail first.
StopMachine ==
  /\ \A c \in CPUs : pc[c] = "run"
  /\ patches < MaxPatches
  /\ patches' = patches + 1
  /\ \/ /\ pc' = [c \in CPUs |-> "stopped"]
        /\ left' = Len
        /\ ret' = 0
     \/ /\ ret' = -1
        /\ UNCHANGED <<pc, left>>
  /\ cpu_count' = 0
  /\ UNCHANGED <<text, view>>

\* mutant: every CPU that finds the others there takes itself for the last
IsLast_late(n) == n >= num_online_cpus - 1

IsLast(n) == n = num_online_cpus

\* atomic_inc_return: the last CPU becomes master.
Arrive(c) ==
  /\ pc[c] = "stopped"
  /\ cpu_count' = cpu_count + 1
  /\ Goto(c, IF IsLast(cpu_count + 1) THEN "patch" ELSE "spin")
  /\ UNCHANGED <<left, ret, text, view, patches>>

\* phys_from_virt fails: nothing is written.
NoAddress(c) ==
  /\ pc[c] = "patch"
  /\ left = Len
  /\ ret' = -1
  /\ Goto(c, "notify")
  /\ UNCHANGED <<cpu_count, left, text, view, patches>>

\* A store through the fixmap
Store(c) ==
  /\ pc[c] = "patch"
  /\ left > 0
  /\ left' = left - 1
  /\ text' = text + 1
  /\ UNCHANGED <<pc, cpu_count, ret, view, patches>>

\* copy_to_kernel_nofault stops at a fault, possibly after some stores.
CopyFault(c) ==
  /\ pc[c] = "patch"
  /\ left > 0
  /\ left' = 0
  /\ ret' = -1
  /\ UNCHANGED <<pc, cpu_count, text, view, patches>>

\* clear_fixmap and the cache maintenance
Flush(c) ==
  /\ pc[c] = "patch"
  /\ left = 0
  /\ view' = [view EXCEPT ![c] = text]
  /\ Goto(c, "notify")
  /\ UNCHANGED <<cpu_count, left, ret, text, patches>>

\* mutant: the additional increment is forgotten
Notify_missing(c) ==
  /\ pc[c] = "notify"
  /\ Goto(c, "done")
  /\ UNCHANGED <<cpu_count, left, ret, text, view, patches>>

\* The additional increment
Notify(c) ==
  /\ pc[c] = "notify"
  /\ cpu_count' = cpu_count + 1
  /\ Goto(c, "done")
  /\ UNCHANGED <<left, ret, text, view, patches>>

\* mutant: < instead of <=
Waiting_less == cpu_count < num_online_cpus

Waiting == cpu_count <= num_online_cpus

SpinEnd(c) ==
  /\ pc[c] = "spin"
  /\ ~Waiting
  /\ Goto(c, "isb")
  /\ UNCHANGED <<cpu_count, left, ret, text, view, patches>>

Isb(c) ==
  /\ pc[c] = "isb"
  /\ view' = [view EXCEPT ![c] = text]
  /\ Goto(c, "done")
  /\ UNCHANGED <<cpu_count, left, ret, text, patches>>

\* stop_machine lets the CPUs go when all have returned from the callback.
Resume ==
  /\ \A c \in CPUs : pc[c] = "done"
  /\ pc' = [c \in CPUs |-> "run"]
  /\ UNCHANGED <<cpu_count, left, ret, text, view, patches>>

CallbackStep(c) ==
  \/ Arrive(c) \/ NoAddress(c) \/ Store(c) \/ CopyFault(c) \/ Flush(c)
  \/ Notify(c) \/ SpinEnd(c) \/ Isb(c)

Next == StopMachine \/ Resume \/ \E c \in CPUs : CallbackStep(c)

Spec == Init /\ [][Next]_vars

\* Interrupts are off in the callback: every CPU in it keeps running.
Fairness == WF_vars(Resume) /\ \A c \in CPUs : WF_vars(CallbackStep(c))

FairSpec == Spec /\ Fairness

-----------------------------------------------------------------------------
(* Properties *)

\* The counter, the part that is left to copy (at most the whole patch), the
\* result and each CPU's position and view keep their types.
TypeOK ==
  /\ pc \in [CPUs -> {"run", "stopped", "spin", "patch", "notify", "isb", "done"}]
  /\ cpu_count \in Nat
  /\ left \in 0 .. Len
  /\ ret \in {0, -1}
  /\ text \in Nat
  /\ view \in [CPUs -> Nat]
  /\ patches \in 0 .. MaxPatches

\* While a CPU writes, every other one has arrived and spins: there is one
\* master, and nobody has passed the barrier before it is done.
MasterAlone ==
  \A c, d \in CPUs : pc[c] = "patch" /\ d # c => pc[d] = "spin"

\* A CPU that has left the callback executes the text as it is now, whether the
\* patch succeeded, failed or stopped half way.
Coherent == \A c \in CPUs : pc[c] \in {"run", "done"} => view[c] = text

\* Every patch ends: no CPU spins for ever.
PatchReturns == \A c \in CPUs : pc[c] = "stopped" ~> pc[c] = "run"
=============================================================================
