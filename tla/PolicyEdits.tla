----------------------------- MODULE PolicyEdits -----------------------------
(***************************************************************************)
(* kernel/non_gki/rules.c and the boot stages of runtime/ksud.c: who may   *)
(* touch the policy in force, and what /sys/fs/selinux/status shows of it, *)
(* with the copy of that page (non_gki/selinux_hide.c) that apps get.      *)
(*                                                                         *)
(* A policy is the set of edits it contains ("ksu" stands for the rules of *)
(* apply_kernelsu_rules); Sepolicy looks inside.                           *)
(***************************************************************************)

CONSTANTS
  Editors,   \* callers of handle_sepolicy
  Openers    \* processes that open /sys/fs/selinux/status

Absent == [none |-> TRUE]

\* No caller is taken for the absence of one.
ASSUME AbsentAssumption == Absent \notin Editors

VARIABLES
  native,     \* 5.10 on; otherwise the port
  boot,       \* "first", "second", "data" (post-fs-data reported)
  oldInit,    \* the /init of Android 6 to 9
  enforcing,
  inForce,       \* the edits in the policy in force
  owner,      \* who holds the policy mutex (sel_mutex), Absent if nobody
  epc, snap,  \* editor -> position and the copy it works on
  page, fake, lateKey,    \* the status page, its copy, fake_status_initialize_key
  opc,        \* opener -> position
  published,  \* ghost: edits whose caller was told of success
  faulted,    \* ghost: a copy_from_user failed in the port
  calm        \* ghost: at the second stage SELinux was enforcing and there was memory

policyVars == <<inForce, owner, epc, snap, published, faulted>>
statusVars == <<page, fake, lateKey, opc, calm>>
bootVars == <<native, boot, oldInit, enforcing>>
editVars == <<policyVars, statusVars, bootVars>>

EditsInit ==
  /\ native \in BOOLEAN
  /\ boot = "first"
  /\ oldInit \in {b \in BOOLEAN : b => ~native}
  /\ enforcing \in BOOLEAN
  /\ inForce = {} /\ owner = Absent
  /\ epc = [e \in Editors |-> "idle"] /\ snap = [e \in Editors |-> {}]
  /\ page \in {Absent, [enforcing |-> enforcing, loaded |-> FALSE]}
  /\ fake = Absent /\ lateKey = TRUE
  /\ opc = [o \in Openers |-> "idle"]
  /\ published = {} /\ faulted = FALSE /\ calm = TRUE

-----------------------------------------------------------------------------
(* The status page.                                                         *)

\* selinux_status_update_policyload, part of reset_avc_cache: the page, if
\* there is one, shows a load after init's.
Bump(p) == IF p = Absent THEN Absent ELSE [p EXCEPT !.loaded = TRUE]

\* initialize_fake_status: a copy of an enforcing page, made once.  alloc: a
\* page is to be had.
Captured(alloc, p, at) ==
  IF fake = Absent /\ alloc /\ p # Absent /\ p.enforcing THEN [loaded |-> p.loaded, at |-> at] ELSE fake

\* my_sel_open_handle_status, up to the end of the original function, which
\* makes the page when it is opened for the first time.  An app that has the
\* feature on gets the copy and never comes here.
OpenStatus(o) ==
  /\ opc[o] = "idle"
  /\ opc' = [opc EXCEPT ![o] = "opened"]
  /\ page' = IF page = Absent THEN [enforcing |-> enforcing, loaded |-> FALSE] ELSE page
  /\ UNCHANGED <<policyVars, bootVars, fake, lateKey, calm>>

\* The test of the key and of fake_status.
OpenStatusCheck(o) ==
  /\ opc[o] = "opened"
  /\ opc' = [opc EXCEPT ![o] = IF lateKey /\ fake = Absent THEN "capture" ELSE "done"]
  /\ UNCHANGED <<policyVars, bootVars, page, fake, lateKey, calm>>

OpenStatusCapture(o, alloc) ==
  /\ opc[o] = "capture"
  /\ opc' = [opc EXCEPT ![o] = "done"]
  /\ fake' = Captured(alloc, page, boot)
  /\ UNCHANGED <<policyVars, bootVars, page, lateKey, calm>>

\* userspace turns enforcing on.
Setenforce ==
  /\ ~enforcing
  /\ enforcing' = TRUE
  /\ page' = IF page = Absent THEN Absent ELSE [page EXCEPT !.enforcing = TRUE]
  /\ UNCHANGED <<policyVars, native, boot, oldInit, fake, lateKey, opc, calm>>

-----------------------------------------------------------------------------
(* Boot.                                                                    *)

\* Mutant of SecondStageStatus: the copy is made after the rules are in force.
SecondStageStatus_late(alloc) ==
  /\ fake' = Captured(alloc, Bump(page), boot)
  /\ lateKey' = (lateKey /\ fake' = Absent)

\* ksu_selinux_hide_handle_second_stage.
SecondStageStatus(alloc) ==
  /\ fake' = Captured(alloc, page, boot)
  /\ lateKey' = (lateKey /\ fake' = Absent)

\* apply_kernelsu_rules (dup: the copy that is edited can be made).
ApplyRules(dup) ==
  /\ inForce' = IF dup THEN inForce \cup {"ksu"} ELSE inForce
  /\ page' = IF dup THEN Bump(page) ELSE page

\* ksu_handle_execveat_ksud sees init's second stage; only init runs yet.  The
\* path for the older init leaves the status page alone.
SecondStage(alloc, dup) ==
  /\ boot = "first"
  /\ boot' = "second"
  /\ IF oldInit THEN UNCHANGED <<fake, lateKey>> ELSE SecondStageStatus(alloc)
  /\ ApplyRules(dup)
  /\ calm' = (enforcing /\ alloc)
  /\ UNCHANGED <<native, oldInit, enforcing, owner, epc, snap, published, faulted, opc>>

\* on_post_fs_data, the part that concerns SELinux.
PostFsData ==
  /\ boot = "second"
  /\ boot' = "data"
  /\ lateKey' = FALSE
  /\ UNCHANGED <<policyVars, native, oldInit, enforcing, page, fake, opc, calm>>

-----------------------------------------------------------------------------
(* handle_sepolicy, from post-fs-data on, when ksud runs.                   *)

EditorStep(e, from, to) == epc[e] = from /\ epc' = [epc EXCEPT ![e] = to]

\* The payload is copied before the lock is taken.  When that fails, the port
\* leaves by the label that unlocks: the mutex is released, whoever holds it.
CopyFails(e) ==
  /\ boot = "data"
  /\ EditorStep(e, "idle", "done")
  /\ owner' = IF native THEN owner ELSE Absent
  /\ faulted' = (faulted \/ ~native)
  /\ UNCHANGED <<statusVars, bootVars, inForce, snap, published>>

\* Mutant of LockAndDup: the policy is copied without the mutex.
LockAndDup_unlocked(e, dup) ==
  /\ boot = "data"
  /\ owner' = e
  /\ EditorStep(e, "idle", IF dup THEN "editing" ELSE "unlock")
  /\ snap' = [snap EXCEPT ![e] = inForce]
  /\ UNCHANGED <<statusVars, bootVars, inForce, published, faulted>>

LockAndDup(e, dup) ==
  /\ boot = "data"
  /\ owner = Absent
  /\ owner' = e
  /\ EditorStep(e, "idle", IF dup THEN "editing" ELSE "unlock")
  /\ snap' = [snap EXCEPT ![e] = inForce]
  /\ UNCHANGED <<statusVars, bootVars, inForce, published, faulted>>

\* The commands are applied to the copy, which is published with
\* rcu_assign_pointer or, in the port, copied over the policy in force; a
\* malformed command drops it.
Publish(e) ==
  /\ EditorStep(e, "editing", "reset")
  /\ inForce' = snap[e] \cup {e}
  /\ UNCHANGED <<statusVars, bootVars, owner, snap, published, faulted>>

DropNew(e) ==
  /\ EditorStep(e, "editing", "unlock")
  /\ UNCHANGED <<statusVars, bootVars, inForce, owner, snap, published, faulted>>

\* The end: reset_avc_cache if something was published, and the unlock.
ResetAndUnlock(e) ==
  /\ epc[e] \in {"reset", "unlock"}
  /\ epc' = [epc EXCEPT ![e] = "done"]
  /\ owner' = Absent
  /\ snap' = [snap EXCEPT ![e] = {}]
  /\ page' = IF epc[e] = "reset" THEN Bump(page) ELSE page
  /\ published' = IF epc[e] = "reset" THEN published \cup {e} ELSE published
  /\ UNCHANGED <<bootVars, inForce, faulted, fake, lateKey, opc, calm>>

EditsNext ==
  \/ \E alloc, dup \in BOOLEAN : SecondStage(alloc, dup)
  \/ PostFsData \/ Setenforce
  \/ \E o \in Openers : OpenStatus(o) \/ OpenStatusCheck(o)
  \/ \E o \in Openers, alloc \in BOOLEAN : OpenStatusCapture(o, alloc)
  \/ \E e \in Editors : CopyFails(e) \/ Publish(e) \/ DropNew(e) \/ ResetAndUnlock(e)
  \/ \E e \in Editors, dup \in BOOLEAN : LockAndDup(e, dup)

EditsSpec == EditsInit /\ [][EditsNext]_editVars

-----------------------------------------------------------------------------

\* EditsSerialised: an edit whose caller was told of success is in the policy
\* in force, whoever else was editing.  In the port a caller whose copy_from_user
\* fails releases a mutex that it does not hold, and this is lost.
EditsSerialised == faulted \/ published \subseteq inForce

\* FakeStatusStock: the status page that apps are shown does not give away that
\* a policy was loaded after init's, if it was taken before post-fs-data, and
\* SELinux was enforcing and a page to be had at the second stage; the older
\* init's path takes it too late to promise that.
FakeStatusStock ==
  fake # Absent /\ fake.at # "data" /\ calm /\ ~oldInit => ~fake.loaded
=============================================================================
