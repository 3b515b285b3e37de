----------------------------- MODULE SelinuxHide -----------------------------
(***************************************************************************)
(* kernel/feature/selinux_hide.c (5.10 on) and kernel/non_gki/             *)
(* selinux_hide.c (before): the feature that answers apps' questions about *)
(* SELinux from a backup of the stock policy, from post-fs-data on.        *)
(*                                                                         *)
(* The port's hooks are three slots, patched one at a time by PatchText,   *)
(* each with the saved original that the hook calls for processes that are *)
(* not apps.  From 5.10 on the hooks are part of the patched kernel and ask*)
(* ksu_selinux_hide_running.  What the backup answers is in Sepolicy.      *)
(***************************************************************************)
EXTENDS Integers, Sequences

CONSTANTS
  Callers,   \* processes that use the hooked files or setprocattr
  MaxSets    \* bound of the model: changes of the feature

Slots == <<"context", "access", "setprocattr">>
SlotNames == {"context", "access", "setprocattr"}
None == [none |-> TRUE]

VARIABLES
  build,      \* "native": 5.10 on; "state": 4.17 to 5.9; "plain": before
  boot,       \* "data" (post-fs-data reported), "done" (boot-completed)
  backup,     \* "none", "stock" (backup_sepolicy, or backup_policydb and its sidtab)
  fakeState,  \* fake_state.ss of "state" builds, likewise
  freed,      \* the backup's memory was released
  enabled, running,
  found,      \* what the kernel has of selinuxfs' "write_op" and SELinux' "setprocattr"
  job,        \* what the holder of selinux_hide_mutex does, None if it is free
  slot, orig, \* the function in each slot; the saved one, "null" if there is none
  cpc, app,          \* caller -> slot it is in, whether its uid is an app's,
  overlap, verdict,  \* whether a hook went away meanwhile, how the call ended
  sets,
  stuck       \* ghost: a slot could not be restored

hideVars == <<build, boot, backup, fakeState, freed, enabled, running, found, job, slot, orig, sets, stuck>>
callVars == <<cpc, app, overlap, verdict>>
vars == <<hideVars, callVars>>

\* The last slot is an entry of the kernel's list of security hooks, if there.
HasSlot(s) == s # "setprocattr" \/ "setprocattr" \in found

Init ==
  /\ build \in {"native", "state", "plain"}
  /\ boot = "data"
  /\ backup \in {"none", "stock"} /\ fakeState = "none" /\ freed = FALSE
  /\ enabled = FALSE /\ running = FALSE
  /\ found \in SUBSET {"write_op", "setprocattr"}
  /\ job = None
  /\ slot = [s \in SlotNames |-> "orig"] /\ orig = [s \in SlotNames |-> "null"]
  /\ cpc = [c \in Callers |-> "out"] /\ app = [c \in Callers |-> FALSE]
  /\ overlap = [c \in Callers |-> FALSE] /\ verdict = [c \in Callers |-> "ok"]
  /\ sets = 0 /\ stuck = FALSE

\* on_boot_completed: ksu_selinux_hide_drop_backup_if_unused.
BootCompleted ==
  /\ boot = "data" /\ job = None
  /\ boot' = "done"
  /\ IF ~running /\ backup # "none"
     THEN /\ backup' = "none" /\ freed' = TRUE
          /\ overlap' = [c \in Callers |-> cpc[c] # "out"]
     ELSE UNCHANGED <<backup, freed, overlap>>
  /\ UNCHANGED <<build, cpc, app, verdict,
                 fakeState, enabled, running, found, job, slot, orig, sets, stuck>>

-----------------------------------------------------------------------------
(* The feature.  One holder of selinux_hide_mutex at a time; job is where   *)
(* it stands: [op, i, off] for slot i, off if the feature is being disabled;*)
(* op is "dead" if it was killed at a null pointer and keeps the mutex.     *)

\* ksu_selinux_hide_enable from 5.10 on, and the port's up to the first patch.
\* A "state" build moves the backup into a fake_state.ss it allocates, whatever
\* was there; without write_op the port gives up.
Enable(alloc) ==
  LET moves == build = "state" /\ alloc
  IN /\ fakeState' = CASE moves -> backup [] build = "state" /\ ~alloc -> "none"
                       [] OTHER -> fakeState
     /\ backup' = IF moves THEN "none" ELSE backup
     /\ job' = IF "write_op" \in found /\ (build = "plain" \/ moves)
               THEN [op |-> "enable", i |-> 1, off |-> FALSE] ELSE None
     /\ running' = (build = "native")

\* ksu_selinux_hide_disable up to the first slot; a "state" build copies the
\* policy back, into memory that it does not check.  From 5.10 on the flag is
\* all there is.
DisableBegin(alloc) ==
  LET dies == build = "state" /\ ~alloc
  IN
  /\ backup' = CASE build # "state" -> backup [] dies -> "none" [] OTHER -> fakeState
  /\ job' = IF build = "native" THEN None
            ELSE [op |-> IF dies THEN "dead" ELSE "unhook", i |-> 1, off |-> TRUE]
  /\ running' = (build # "native")
  /\ UNCHANGED fakeState

\* Mutant of FeatureSet: a feature that runs is enabled again.
FeatureSet_again(on, alloc) ==
  /\ job = None /\ sets < MaxSets
  /\ sets' = sets + 1
  /\ enabled' = on
  /\ CASE on /\ backup # "none" -> Enable(alloc)
       [] ~on /\ running -> DisableBegin(alloc)
       [] OTHER -> UNCHANGED <<backup, fakeState, job, running>>
  /\ UNCHANGED <<callVars, build, boot, freed, found, slot, orig, stuck>>

\* selinux_hide_feature_set.
FeatureSet(on, alloc) ==
  /\ job = None /\ sets < MaxSets
  /\ sets' = sets + 1
  /\ enabled' = on
  /\ CASE on /\ ~running /\ backup # "none" -> Enable(alloc)
       [] ~on /\ running -> DisableBegin(alloc)
       [] OTHER -> UNCHANGED <<backup, fakeState, job, running>>
  /\ UNCHANGED <<callVars, build, boot, freed, found, slot, orig, stuck>>

\* Mutant of EnablePatch: after a failure the other slots are left patched.
EnablePatch_keep(ok) ==
  LET s == Slots[job.i]
  IN /\ job # None /\ job.op = "enable"
     /\ orig' = IF HasSlot(s) THEN [orig EXCEPT ![s] = slot[s]] ELSE orig
     /\ slot' = IF HasSlot(s) /\ ok THEN [slot EXCEPT ![s] = "my"] ELSE slot
     /\ job' = IF ok /\ job.i < Len(Slots) THEN [job EXCEPT !.i = @ + 1] ELSE None
     /\ running' = (running \/ (ok /\ job.i = Len(Slots)))
     /\ UNCHANGED <<callVars, build, boot, backup, fakeState, freed, enabled, found, sets, stuck>>

\* The original is saved, then the slot patched.  A failure undoes the others;
\* a slot that the kernel does not have is none.
EnablePatch(ok) ==
  LET s == Slots[job.i]
      failed == HasSlot(s) /\ ~ok
  IN /\ job # None /\ job.op = "enable"
     /\ orig' = IF HasSlot(s) THEN [orig EXCEPT ![s] = slot[s]] ELSE orig
     /\ slot' = IF HasSlot(s) /\ ok THEN [slot EXCEPT ![s] = "my"] ELSE slot
     /\ job' = CASE failed -> [op |-> "unhook", i |-> 1, off |-> FALSE]
                 [] ~failed /\ job.i < Len(Slots) -> [job EXCEPT !.i = @ + 1]
                 [] OTHER -> None
     /\ running' = (running \/ (~failed /\ job.i = Len(Slots)))
     /\ UNCHANGED <<callVars, build, boot, backup, fakeState, freed, enabled, found, sets, stuck>>

\* ksu_selinux_hide_unhook, one slot: what was saved is put back, and forgotten
\* whether or not that worked.  Calls inside the hook will miss it.
Unhook(ok) ==
  LET s == Slots[job.i]
      hooked == orig[s] # "null"
      last == job.i = Len(Slots)
  IN /\ job # None /\ job.op = "unhook"
     /\ slot' = IF hooked /\ ok THEN [slot EXCEPT ![s] = orig[s]] ELSE slot
     /\ orig' = [orig EXCEPT ![s] = "null"]
     /\ stuck' = (stuck \/ (slot[s] = "my" /\ hooked /\ ~ok))
     /\ overlap' = [c \in Callers |-> overlap[c] \/ cpc[c] = s]
     /\ job' = IF last THEN None ELSE [job EXCEPT !.i = @ + 1]
     /\ running' = (running /\ ~(last /\ job.off))
     /\ UNCHANGED <<build, boot, cpc, app, verdict,
                    backup, fakeState, freed, enabled, found, sets>>

-----------------------------------------------------------------------------
(* Calls through the slots.                                                 *)

\* The hook is entered; isApp: by a process with an app's uid.  From 5.10 on
\* the kernel's own code goes on for anybody else.
Enter(c, s, isApp) ==
  /\ cpc[c] = "out"
  /\ IF build = "native" THEN running /\ isApp ELSE slot[s] = "my"
  /\ app' = [app EXCEPT ![c] = isApp]
  /\ cpc' = [cpc EXCEPT ![c] = s]
  /\ UNCHANGED <<hideVars, overlap, verdict>>

\* The policy that answers an app.
AnswersFrom == IF build = "state" THEN fakeState ELSE backup

\* my_write_context, my_write_access and ksu_handle_selinux_setprocattr: an app
\* is answered from the backup, anybody else (and setprocattr in the end) by
\* the saved original.
Finish(c) ==
  LET s == cpc[c]
      policy == app[c]
      original == build # "native" /\ (~app[c] \/ s = "setprocattr")
      result == CASE policy /\ AnswersFrom = "none" -> "no policy"
                  [] policy /\ AnswersFrom # "none" /\ freed -> "freed policy"
                  [] OTHER -> IF original /\ orig[s] # "orig" THEN "no original" ELSE "ok"
  IN /\ s # "out"
     /\ cpc' = [cpc EXCEPT ![c] = "out"]
     /\ app' = [app EXCEPT ![c] = FALSE]
     /\ overlap' = [overlap EXCEPT ![c] = FALSE]
     /\ verdict' = [verdict EXCEPT ![c] = IF overlap[c] THEN "hook removed" ELSE result]
     /\ UNCHANGED hideVars

Next ==
  \/ BootCompleted
  \/ \E on, alloc \in BOOLEAN : FeatureSet(on, alloc)
  \/ \E ok \in BOOLEAN : EnablePatch(ok) \/ Unhook(ok)
  \/ \E c \in Callers, s \in SlotNames, isApp \in BOOLEAN : Enter(c, s, isApp)
  \/ \E c \in Callers : Finish(c)

Spec == Init /\ [][Next]_vars

-----------------------------------------------------------------------------

\* HookedCallsSafe: a call through a hook that nobody removed meanwhile ends
\* with an answer from a backup that exists and was not released, or in the
\* original function: whatever sequence of enabling
\* (that may fail at any slot), disabling and dropping the backup came before.
HookedCallsSafe ==
  \A c \in Callers : verdict[c] \in {"ok", "hook removed"} \/ stuck

\* HooksMatchFeature: with nobody changing the feature, the slots hold the hooks
\* if and only if it runs, and then every hook that the kernel has a slot for
\* has its original and a backup to answer from: an enable that failed at some
\* slot leaves no hook behind.
HooksMatchFeature ==
  job = None /\ ~stuck =>
    /\ \A s \in SlotNames :
         IF running /\ build # "native" /\ HasSlot(s) THEN slot[s] = "my" /\ orig[s] = "orig"
         ELSE slot[s] = "orig" /\ orig[s] = "null"
    /\ running => AnswersFrom = "stock" /\ ~freed
=============================================================================
