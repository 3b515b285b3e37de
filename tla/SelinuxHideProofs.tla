-------------------------- MODULE SelinuxHideProofs --------------------------
(***************************************************************************)
(* Proofs about SelinuxHide, for any number of callers inside the hooks    *)
(* and any number of changes of the feature: unless a slot could not be    *)
(* restored, the slots hold the hooks exactly while the feature runs, and  *)
(* a call whose hook was not removed under it ends well.                   *)
(***************************************************************************)
EXTENDS SelinuxHide, TLAPS

Jobs == [op : {"enable", "unhook", "dead"}, i : 1..3, off : BOOLEAN]

HideTypes ==
  /\ build \in {"native", "state", "plain"} /\ boot \in {"data", "done"}
  /\ backup \in {"none", "stock"} /\ fakeState \in {"none", "stock"}
  /\ freed \in BOOLEAN /\ running \in BOOLEAN /\ stuck \in BOOLEAN
  /\ job = None \/ job \in Jobs
  /\ slot \in [SlotNames -> {"orig", "my"}]
  /\ orig \in [SlotNames -> {"null", "orig", "my"}]
  /\ cpc \in [Callers -> SlotNames \cup {"out"}]
  /\ app \in [Callers -> BOOLEAN] /\ overlap \in [Callers -> BOOLEAN]
  /\ verdict \in [Callers -> {"ok", "hook removed", "no policy", "freed policy", "no original"}]

Hooked(s) == slot[s] = "my" /\ orig[s] = "orig"
Bare(s) == slot[s] = "orig" /\ orig[s] = "null"
\* The original was saved and the patch failed.
Saved(s) == slot[s] = "orig" /\ orig[s] = "orig"

\* The hook is in place, if the kernel has the slot.
Done(s) == IF HasSlot(s) THEN Hooked(s) ELSE Bare(s)

\* The slots, as the holder of selinux_hide_mutex leaves them at each slot.
QuietInv ==
  job = None =>
    /\ running /\ build # "native" => \A k \in 1..3 : Done(Slots[k])
    /\ ~(running /\ build # "native") => \A k \in 1..3 : Bare(Slots[k])
EnableInv ==
  job # None /\ job.op = "enable" =>
    /\ ~running
    /\ \A k \in 1..3 : k < job.i => Done(Slots[k])
    /\ \A k \in 1..3 : k >= job.i => Bare(Slots[k])
UnhookInv ==
  job # None /\ job.op = "unhook" =>
    /\ running = job.off
    /\ \A k \in 1..3 : k < job.i => Bare(Slots[k])
    /\ \A k \in 1..3 : k >= job.i => Hooked(Slots[k]) \/ Saved(Slots[k]) \/ Bare(Slots[k])
DeadInv ==
  job # None /\ job.op = "dead" => running /\ \A k \in 1..3 : Done(Slots[k])
SlotsInv == (job # None => build # "native") /\ QuietInv /\ EnableInv /\ UnhookInv /\ DeadInv

\* There is a policy to answer from while the hooks are being set, in place, or
\* being removed; a released backup is not used again.
PolicyInv ==
  /\ running \/ job # None => AnswersFrom = "stock" /\ ~freed
  /\ freed => backup = "none"

\* A call whose hook was not removed is in a slot that still has it; from 5.10
\* on, an app's call that the backup can answer.
CallInv ==
  \A c \in Callers : cpc[c] # "out" /\ ~overlap[c] =>
    /\ build = "native" => app[c] /\ backup = "stock" /\ ~freed
    /\ build # "native" => slot[cpc[c]] = "my"

\* Every hook in place has its original and a policy, at any time.
HookInv ==
  \A s \in SlotNames : slot[s] = "my" => orig[s] = "orig" /\ AnswersFrom = "stock" /\ ~freed

HideInv == HideTypes /\ (stuck \/ (SlotsInv /\ PolicyInv /\ CallInv /\ HookedCallsSafe))

-----------------------------------------------------------------------------

\* There are three slots, each patched once per pass.
LEMMA SlotFacts ==
  /\ Len(Slots) = 3
  /\ \A k \in 1..3 : Slots[k] \in SlotNames
  /\ \A s \in SlotNames : \E k \in 1..3 : s = Slots[k]
  /\ \A j, k \in 1..3 : Slots[j] = Slots[k] => j = k
<1>1. /\ Slots[1] = "context" /\ Slots[2] = "access" /\ Slots[3] = "setprocattr"
      /\ Len(Slots) = 3
  BY DEF Slots
<1> QED
  BY <1>1 DEF SlotNames

\* Only the last slot may be missing; a hook that is done is in its slot or bare.
LEMMA DoneFacts ==
  /\ \A s : Done(s) => Hooked(s) \/ Bare(s)
  /\ \A s : HasSlot(s) /\ Done(s) => Hooked(s)
  /\ \A s : ~HasSlot(s) /\ Done(s) => Bare(s)
BY DEF Done

\* What does not touch the slots leaves them done or bare.
LEMMA SlotsUntouched ==
  ASSUME UNCHANGED <<slot, orig, found>>, NEW s
  PROVE  /\ Hooked(s)' <=> Hooked(s)
         /\ Bare(s)' <=> Bare(s)
         /\ Saved(s)' <=> Saved(s)
         /\ Done(s)' <=> Done(s)
<1>1. HasSlot(s)' <=> HasSlot(s)
  BY DEF HasSlot
<1>2. /\ Hooked(s)' <=> Hooked(s)
      /\ Bare(s)' <=> Bare(s)
      /\ Saved(s)' <=> Saved(s)
  BY DEF Hooked, Bare, Saved
<1> QED
  BY <1>1, <1>2 DEF Done

\* A pass over the slots is told apart from the lack of one.
LEMMA NoJobIsNone ==
  ASSUME NEW o, NEW k, NEW b PROVE [op |-> o, i |-> k, off |-> b] # None
  BY DEF None

\* The next slot of the same job.
LEMMA NextSlot ==
  ASSUME NEW j \in Jobs, j.i < 3
  PROVE /\ [j EXCEPT !.i = @ + 1] \in Jobs
        /\ [j EXCEPT !.i = @ + 1] # None
        /\ [j EXCEPT !.i = @ + 1].i = j.i + 1
        /\ [j EXCEPT !.i = @ + 1].op = j.op
        /\ [j EXCEPT !.i = @ + 1].off = j.off
  BY DEF Jobs, None

\* A pass starts at the first slot.
LEMMA FirstSlot ==
  ASSUME NEW o \in {"enable", "unhook", "dead"}, NEW b \in BOOLEAN
  PROVE LET j == [op |-> o, i |-> 1, off |-> b]
        IN j \in Jobs /\ j # None /\ j.op = o /\ j.i = 1 /\ j.off = b
  BY NoJobIsNone DEF Jobs

-----------------------------------------------------------------------------
(* What the steps do to the job, by cases.                                  *)

\* selinux_hide_feature_set: nothing but the setting changes, or one of the
\* ways ksu_selinux_hide_enable and ksu_selinux_hide_disable can go.
LEMMA FeatureSetCases ==
  ASSUME HideTypes, NEW on \in BOOLEAN, NEW alloc \in BOOLEAN, FeatureSet(on, alloc)
  PROVE /\ job = None
        /\ UNCHANGED <<callVars, build, boot, freed, found, slot, orig, stuck>>
        /\ \/ UNCHANGED <<backup, fakeState, job, running>>
           \/ /\ ~running /\ backup # "none" /\ build = "native"
              /\ UNCHANGED <<backup, fakeState, job>> /\ running' = TRUE
           \/ /\ ~running /\ backup # "none" /\ build # "native"
              /\ \/ UNCHANGED <<backup, fakeState>>
                 \/ backup' = "none" /\ fakeState' = backup
                 \/ backup' = backup /\ fakeState' = "none" /\ build = "state"
              /\ job' = None /\ running' = FALSE
           \/ /\ ~running /\ backup # "none" /\ build # "native"
              /\ build = "plain" => UNCHANGED <<backup, fakeState>>
              /\ build = "state" => backup' = "none" /\ fakeState' = backup
              /\ job' = [op |-> "enable", i |-> 1, off |-> FALSE] /\ running' = FALSE
           \/ /\ running /\ build = "native"
              /\ UNCHANGED <<backup, fakeState, job>> /\ running' = FALSE
           \/ /\ running /\ build # "native"
              /\ fakeState' = fakeState
              /\ backup' = IF build = "state" THEN fakeState ELSE backup
              /\ job' = [op |-> "unhook", i |-> 1, off |-> TRUE] /\ running' = TRUE
           \/ /\ running /\ build = "state"
              /\ fakeState' = fakeState /\ backup' = "none"
              /\ job' = [op |-> "dead", i |-> 1, off |-> TRUE] /\ running' = TRUE
<1>1. job = None /\ UNCHANGED <<callVars, build, boot, freed, found, slot, orig, stuck>>
  BY DEF FeatureSet, callVars
<1>2. CASE on /\ ~running /\ backup # "none"
  <2>1. Enable(alloc)
    BY <1>2, Zenon DEF FeatureSet
  <2> QED
    BY <1>1, <1>2, <2>1 DEF Enable, HideTypes
<1>3. CASE ~on /\ running
  <2>1. DisableBegin(alloc)
    BY <1>3, Zenon DEF FeatureSet
  <2>2. CASE build = "native"
    BY <1>1, <1>3, <2>1, <2>2 DEF DisableBegin, HideTypes
  <2>3. CASE build # "native" /\ (build # "state" \/ alloc)
    BY <1>1, <1>3, <2>1, <2>3 DEF DisableBegin, HideTypes
  <2>4. CASE build = "state" /\ ~alloc
    BY <1>1, <1>3, <2>1, <2>4 DEF DisableBegin, HideTypes
  <2> QED
    BY <2>2, <2>3, <2>4
<1>4. CASE ~(on /\ ~running /\ backup # "none") /\ ~(~on /\ running)
  BY <1>1, <1>4 DEF FeatureSet
<1> QED
  BY <1>2, <1>3, <1>4

\* Patching a slot fails and turns into unhooking, goes on, or completes the feature.
LEMMA EnablePatchCases ==
  ASSUME HideTypes, NEW ok \in BOOLEAN, EnablePatch(ok)
  PROVE LET s == Slots[job.i]
        IN  /\ job \in Jobs /\ job # None /\ job.op = "enable"
            /\ UNCHANGED <<callVars, build, boot, backup, fakeState, freed, found, stuck>>
            /\ IF HasSlot(s) THEN orig' = [orig EXCEPT ![s] = slot[s]] ELSE orig' = orig
            /\ \/ /\ HasSlot(s) /\ slot' = slot /\ running' = running
                  /\ job' = [op |-> "unhook", i |-> 1, off |-> FALSE]
               \/ /\ IF HasSlot(s) THEN slot' = [slot EXCEPT ![s] = "my"] ELSE slot' = slot
                  /\ \/ job.i < 3 /\ job' = [job EXCEPT !.i = @ + 1] /\ running' = running
                     \/ job.i = 3 /\ job' = None /\ running' = TRUE
<1> DEFINE s == Slots[job.i]
           failed == HasSlot(s) /\ ~ok
<1>1. /\ job \in Jobs /\ job # None /\ job.op = "enable"
      /\ UNCHANGED <<callVars, build, boot, backup, fakeState, freed, found, stuck>>
      /\ IF HasSlot(s) THEN orig' = [orig EXCEPT ![s] = slot[s]] ELSE orig' = orig
      /\ slot' = IF HasSlot(s) /\ ok THEN [slot EXCEPT ![s] = "my"] ELSE slot
      /\ job' = CASE failed -> [op |-> "unhook", i |-> 1, off |-> FALSE]
                  [] ~failed /\ job.i < Len(Slots) -> [job EXCEPT !.i = @ + 1]
                  [] OTHER -> None
      /\ running' = (running \/ (~failed /\ job.i = Len(Slots)))
  BY DEF EnablePatch, HideTypes, callVars
<1>2. job.i \in 1..3 /\ running \in BOOLEAN
  BY <1>1 DEF Jobs, HideTypes
<1>3. CASE failed
  BY <1>1, <1>2, <1>3
<1>4. CASE ~failed
  <2>1. IF HasSlot(s) THEN slot' = [slot EXCEPT ![s] = "my"] ELSE slot' = slot
    BY <1>1, <1>4
  <2>2. CASE job.i < 3
    <3>1. job.i < Len(Slots) /\ ~(job.i = Len(Slots))
      BY <1>2, <2>2, SlotFacts
    <3>2. job' = [job EXCEPT !.i = @ + 1] /\ (running' <=> running)
      BY <1>1, <1>4, <3>1, Zenon
    <3>3. running' = running
      BY <1>1, <1>2, <1>4, <3>1
    <3> QED
      BY <1>1, <2>1, <2>2, <3>2, <3>3
  <2>3. CASE job.i = 3
    <3>1. ~(job.i < Len(Slots)) /\ job.i = Len(Slots)
      BY <2>3, SlotFacts
    <3>2. job' = None
      BY <1>1, <1>4, <3>1, Zenon
    <3>3. running' = TRUE
      BY <1>1, <1>4, <3>1
    <3> QED
      BY <1>1, <2>1, <2>3, <3>2, <3>3
  <2>4. job.i < 3 \/ job.i = 3
    BY <1>2
  <2> QED
    BY <2>2, <2>3, <2>4, Zenon
<1> QED
  BY <1>3, <1>4, Zenon

\* Unpatching a slot gets stuck, has nothing to restore, or restores it.
LEMMA UnhookCases ==
  ASSUME HideTypes, NEW ok \in BOOLEAN, Unhook(ok)
  PROVE /\ job \in Jobs /\ job # None /\ job.op = "unhook"
        /\ UNCHANGED <<cpc, app, verdict, build, boot, backup, fakeState, freed, found>>
        /\ overlap' = [c \in Callers |-> overlap[c] \/ cpc[c] = Slots[job.i]]
        /\ orig' = [orig EXCEPT ![Slots[job.i]] = "null"]
        /\ \/ stuck' = TRUE /\ slot' = slot
           \/ stuck' = stuck /\ slot[Slots[job.i]] # "my" /\ slot' = slot
           \/ stuck' = stuck /\ orig[Slots[job.i]] = "null" /\ slot' = slot
           \/ /\ stuck' = stuck /\ orig[Slots[job.i]] # "null"
              /\ slot' = [slot EXCEPT ![Slots[job.i]] = orig[Slots[job.i]]]
        /\ \/ job.i < 3 /\ job' = [job EXCEPT !.i = @ + 1] /\ running' = running
           \/ job.i = 3 /\ job' = None /\ running' = (running /\ ~job.off)
<1>1. /\ job \in Jobs /\ job # None /\ job.op = "unhook"
      /\ UNCHANGED <<cpc, app, verdict, build, boot, backup, fakeState, freed, found>>
      /\ overlap' = [c \in Callers |-> overlap[c] \/ cpc[c] = Slots[job.i]]
      /\ orig' = [orig EXCEPT ![Slots[job.i]] = "null"]
  BY DEF Unhook, HideTypes
<1>2. job.i \in 1..3
  BY <1>1 DEF Jobs
<1>3. \/ stuck' = TRUE /\ slot' = slot
      \/ stuck' = stuck /\ slot[Slots[job.i]] # "my" /\ slot' = slot
      \/ stuck' = stuck /\ orig[Slots[job.i]] = "null" /\ slot' = slot
      \/ /\ stuck' = stuck /\ orig[Slots[job.i]] # "null"
         /\ slot' = [slot EXCEPT ![Slots[job.i]] = orig[Slots[job.i]]]
  <2>1. CASE orig[Slots[job.i]] = "null"
    BY <2>1 DEF Unhook, HideTypes
  <2>2. CASE orig[Slots[job.i]] # "null" /\ ok
    BY <2>2 DEF Unhook, HideTypes
  <2>3. CASE orig[Slots[job.i]] # "null" /\ ~ok
    BY <2>3 DEF Unhook, HideTypes
  <2> QED
    BY <2>1, <2>2, <2>3
<1>4. CASE job.i < 3
  <2>1. ~(job.i = Len(Slots))
    BY <1>4, <1>2, SlotFacts
  <2>2. job' = [job EXCEPT !.i = @ + 1] /\ (running' <=> running)
    BY <2>1, Zenon DEF Unhook
  <2>3. running' = running
    BY <2>1 DEF Unhook, HideTypes
  <2> QED
    BY <1>1, <1>3, <1>4, <2>2, <2>3
<1>5. CASE job.i = 3
  <2>1. job.i = Len(Slots)
    BY <1>5, SlotFacts
  <2>2. job' = None
    BY <2>1, Zenon DEF Unhook
  <2>3. running' = (running /\ ~job.off)
    BY <2>1 DEF Unhook, HideTypes
  <2> QED
    BY <1>1, <1>3, <1>5, <2>2, <2>3
<1>6. job.i < 3 \/ job.i = 3
  BY <1>2
<1> QED
  BY <1>4, <1>5, <1>6, Zenon

-----------------------------------------------------------------------------

\* No slot is patched at first.
LEMMA HideInit == Init => HideInv
<1> SUFFICES ASSUME Init PROVE HideInv
  OBVIOUS
<1>1. HideTypes
  BY DEF Init, HideTypes
<1>2. SlotsInv
  BY SlotFacts DEF Init, SlotsInv, QuietInv, EnableInv, UnhookInv, DeadInv, Bare
<1>3. PolicyInv /\ CallInv /\ HookedCallsSafe
  BY DEF Init, PolicyInv, CallInv, HookedCallsSafe
<1> QED
  BY <1>1, <1>2, <1>3 DEF HideInv

\* Every step keeps the types.
LEMMA TypesStep == HideTypes /\ [Next]_vars => HideTypes'
<1> SUFFICES ASSUME HideTypes, [Next]_vars PROVE HideTypes'
  OBVIOUS
<1>1. CASE BootCompleted
  BY <1>1 DEF BootCompleted, HideTypes
<1>2. ASSUME NEW on \in BOOLEAN, NEW alloc \in BOOLEAN, FeatureSet(on, alloc) PROVE HideTypes'
  <2>1. UNCHANGED <<cpc, app, overlap, verdict, build, boot, freed, slot, orig, stuck>>
    BY <1>2, FeatureSetCases DEF callVars
  <2>2. backup' \in {"none", "stock"} /\ fakeState' \in {"none", "stock"} /\ running' \in BOOLEAN
    BY <1>2, FeatureSetCases DEF HideTypes
  <2>3. job' = None \/ job' \in Jobs
    BY <1>2, FeatureSetCases, FirstSlot
  <2> QED
    BY <2>1, <2>2, <2>3 DEF HideTypes
<1>3. ASSUME NEW ok \in BOOLEAN, EnablePatch(ok) PROVE HideTypes'
  <2>1. /\ UNCHANGED <<cpc, app, overlap, verdict, build, boot, backup, fakeState, freed, stuck>>
        /\ running' \in BOOLEAN
    BY <1>3, EnablePatchCases DEF callVars, HideTypes
  <2>2. job' = None \/ job' \in Jobs
    BY <1>3, EnablePatchCases, NextSlot, FirstSlot
  <2>3. Slots[job.i] \in SlotNames
    BY <1>3, EnablePatchCases, SlotFacts DEF Jobs
  <2>4. slot' \in [SlotNames -> {"orig", "my"}] /\ orig' \in [SlotNames -> {"null", "orig", "my"}]
    <3>1. PICK s \in SlotNames : s = Slots[job.i]
      BY <2>3
    <3>2. /\ slot[s] \in {"orig", "my"}
          /\ orig' = orig \/ orig' = [orig EXCEPT ![s] = slot[s]]
      BY <1>3, <3>1, EnablePatchCases DEF HideTypes
    <3>3. slot' = slot \/ slot' = [slot EXCEPT ![s] = "my"]
      BY <1>3, <3>1, EnablePatchCases
    <3>4. slot \in [SlotNames -> {"orig", "my"}] /\ orig \in [SlotNames -> {"null", "orig", "my"}]
      BY DEF HideTypes
    <3> QED
      BY <3>2, <3>3, <3>4
  <2> QED
    BY <2>1, <2>2, <2>4 DEF HideTypes
<1>4. ASSUME NEW ok \in BOOLEAN, Unhook(ok) PROVE HideTypes'
  <2>1. /\ UNCHANGED <<cpc, app, verdict, build, boot, backup, fakeState, freed, found>>
        /\ overlap' = [c \in Callers |-> overlap[c] \/ cpc[c] = Slots[job.i]]
    BY <1>4, UnhookCases
  <2>2. running' \in BOOLEAN /\ stuck' \in BOOLEAN
    BY <1>4, UnhookCases DEF HideTypes
  <2>3. overlap' \in [Callers -> BOOLEAN]
    BY <2>1
  <2>4. job' = None \/ job' \in Jobs
    BY <1>4, UnhookCases, NextSlot
  <2>5. Slots[job.i] \in SlotNames
    BY <1>4, UnhookCases, SlotFacts DEF Jobs
  <2>6. orig' \in [SlotNames -> {"null", "orig", "my"}]
    BY <1>4, <2>5, UnhookCases DEF HideTypes
  <2>7. slot' \in [SlotNames -> {"orig", "my"}]
    <3>1. PICK s \in SlotNames : s = Slots[job.i]
      BY <2>5
    <3>2. slot' = slot \/ (orig[s] # "null" /\ slot' = [slot EXCEPT ![s] = orig[s]])
      BY <1>4, <3>1, UnhookCases
    <3>3. slot \in [SlotNames -> {"orig", "my"}] /\ orig[s] \in {"null", "orig", "my"}
      BY DEF HideTypes
    <3>4. CASE slot' = slot
      BY <3>3, <3>4
    <3>5. CASE orig[s] # "null" /\ slot' = [slot EXCEPT ![s] = orig[s]]
      <4>1. orig[s] \in {"orig", "my"}
        BY <3>3, <3>5
      <4> QED
        BY <3>3, <3>5, <4>1
    <3> QED
      BY <3>2, <3>4, <3>5
  <2> QED
    BY <2>1, <2>4, <2>6, <2>7, <2>2, <2>3 DEF HideTypes
<1>5. ASSUME NEW c \in Callers, NEW s \in SlotNames, NEW isApp \in BOOLEAN, Enter(c, s, isApp)
      PROVE HideTypes'
  BY <1>5 DEF Enter, hideVars, HideTypes
<1>6. ASSUME NEW c \in Callers, Finish(c) PROVE HideTypes'
  BY <1>6 DEF Finish, hideVars, HideTypes
<1>7. CASE UNCHANGED vars
  BY <1>7 DEF vars, hideVars, callVars, HideTypes
<1> QED
  BY <1>1, <1>2, <1>3, <1>4, <1>5, <1>6, <1>7 DEF Next

Safe == HideTypes /\ SlotsInv /\ PolicyInv /\ CallInv /\ HookedCallsSafe

\* Behind every patched slot there are the saved original and a live backup.
LEMMA EveryHookWorks == Safe => HookInv
<1> SUFFICES ASSUME Safe, NEW s \in SlotNames, slot[s] = "my"
             PROVE orig[s] = "orig" /\ AnswersFrom = "stock" /\ ~freed
  BY DEF HookInv
<1>1. PICK k \in 1..3 : s = Slots[k]
  BY SlotFacts
<1>2. ~Bare(s) /\ ~Saved(s)
  BY DEF Bare, Saved
<1>3. CASE job = None
  <2>1. running /\ Done(s)
    BY <1>1, <1>2, <1>3 DEF Safe, SlotsInv, QuietInv
  <2>2. Hooked(s)
    BY <1>2, <2>1, DoneFacts
  <2> QED
    BY <2>1, <2>2 DEF Hooked, Safe, PolicyInv
<1>4. CASE job # None
  <2>1. job \in Jobs /\ job.op \in {"enable", "unhook", "dead"} /\ job.i \in 1..3
    BY <1>4 DEF Safe, HideTypes, Jobs
  <2>2. Hooked(s)
    <3>1. CASE job.op = "enable"
      BY <1>1, <1>2, <1>4, <2>1, <3>1, DoneFacts DEF Safe, SlotsInv, EnableInv
    <3>2. CASE job.op = "unhook"
      BY <1>1, <1>2, <1>4, <2>1, <3>2 DEF Safe, SlotsInv, UnhookInv
    <3>3. CASE job.op = "dead"
      BY <1>1, <1>2, <1>4, <3>3, DoneFacts DEF Safe, SlotsInv, DeadInv
    <3> QED
      BY <2>1, <3>1, <3>2, <3>3
  <2> QED
    BY <1>4, <2>2 DEF Hooked, Safe, PolicyInv
<1> QED
  BY <1>3, <1>4

\* ksu_selinux_hide_drop_backup_if_unused: calls on the way out of a native hook
\* are the ones that may miss the backup.
LEMMA BootCompletedSafe ==
  ASSUME Safe, BootCompleted PROVE SlotsInv' /\ PolicyInv' /\ CallInv' /\ HookedCallsSafe'
<1>1. /\ job = None /\ UNCHANGED <<build, cpc, app, verdict, fakeState, running, found, job, slot, orig, stuck>>
      /\ \/ UNCHANGED <<backup, freed, overlap>>
         \/ /\ ~running /\ backup' = "none" /\ freed' = TRUE
            /\ overlap' = [c \in Callers |-> cpc[c] # "out"]
  BY DEF BootCompleted
<1>2. SlotsInv'
  BY <1>1 DEF Safe, SlotsInv, QuietInv, EnableInv, UnhookInv, DeadInv, Done, HasSlot, Hooked, Bare, Saved
<1>3. PolicyInv'
  BY <1>1 DEF Safe, PolicyInv, AnswersFrom
<1>4. CallInv'
  BY <1>1 DEF Safe, CallInv
<1>5. HookedCallsSafe'
  BY <1>1 DEF Safe, HookedCallsSafe
<1> QED
  BY <1>2, <1>3, <1>4, <1>5

\* Switching the feature keeps the slots and the backup in step.
LEMMA FeatureSetSafe ==
  ASSUME Safe, NEW on \in BOOLEAN, NEW alloc \in BOOLEAN, FeatureSet(on, alloc)
  PROVE SlotsInv' /\ PolicyInv' /\ CallInv' /\ HookedCallsSafe'
<1>1. /\ job = None
      /\ UNCHANGED <<cpc, app, overlap, verdict, build, freed, found, slot, orig, stuck>>
  BY FeatureSetCases DEF Safe, callVars
<1>2. \A k \in 1..3 : /\ Hooked(Slots[k])' <=> Hooked(Slots[k])
                      /\ Bare(Slots[k])' <=> Bare(Slots[k])
                      /\ Saved(Slots[k])' <=> Saved(Slots[k])
                      /\ Done(Slots[k])' <=> Done(Slots[k])
  BY <1>1, SlotsUntouched
<1>3. SlotsInv' /\ PolicyInv' /\ (build = "native" => backup' = backup)
  <2> USE DEF Safe, SlotsInv, QuietInv, EnableInv, UnhookInv, DeadInv, PolicyInv, AnswersFrom,
              HideTypes
  <2>1. CASE UNCHANGED <<backup, fakeState, job, running>>
    BY <1>1, <1>2, <2>1
  <2>2. CASE /\ ~running /\ backup # "none" /\ build = "native"
             /\ UNCHANGED <<backup, fakeState, job>> /\ running' = TRUE
    BY <1>1, <1>2, <2>2
  <2>3. CASE /\ ~running /\ backup # "none" /\ build # "native"
             /\ \/ UNCHANGED <<backup, fakeState>>
                \/ backup' = "none" /\ fakeState' = backup
                \/ backup' = backup /\ fakeState' = "none" /\ build = "state"
             /\ job' = None /\ running' = FALSE
    BY <1>1, <1>2, <2>3
  <2>4. CASE /\ ~running /\ backup # "none" /\ build # "native"
             /\ build = "plain" => UNCHANGED <<backup, fakeState>>
             /\ build = "state" => backup' = "none" /\ fakeState' = backup
             /\ job' = [op |-> "enable", i |-> 1, off |-> FALSE] /\ running' = FALSE
    <3>1. job' # None /\ job'.op = "enable" /\ job'.i = 1
      BY <2>4, FirstSlot
    <3>2. AnswersFrom' = "stock" /\ ~freed' /\ ~running' /\ build' # "native"
      BY <1>1, <2>4
    <3>3. \A k \in 1..3 : Bare(Slots[k])'
      BY <1>1, <1>2, <2>4
    <3>4. SlotsInv'
      <4> HIDE DEF Safe, PolicyInv, AnswersFrom, HideTypes
      <4>1. \A k \in 1..3 : ~(k < job'.i)
        BY <3>1
      <4> QED
        BY <3>1, <3>2, <3>3, <4>1
    <3>5. PolicyInv'
      BY <3>2
    <3> QED
      BY <2>4, <3>4, <3>5
  <2>5. CASE /\ running /\ build = "native"
             /\ UNCHANGED <<backup, fakeState, job>> /\ running' = FALSE
    BY <1>1, <1>2, <2>5
  <2>6. CASE /\ running /\ build # "native"
             /\ fakeState' = fakeState
             /\ backup' = IF build = "state" THEN fakeState ELSE backup
             /\ job' = [op |-> "unhook", i |-> 1, off |-> TRUE] /\ running' = TRUE
    <3>1. job' # None /\ job'.op = "unhook" /\ job'.i = 1 /\ job'.off = TRUE
      BY <2>6, FirstSlot
    <3>2. AnswersFrom' = "stock" /\ ~freed' /\ running' = TRUE /\ build' # "native"
      BY <1>1, <2>6
    <3>3. \A k \in 1..3 : Hooked(Slots[k])' \/ Bare(Slots[k])'
      BY <1>1, <1>2, <2>6, DoneFacts
    <3>4. SlotsInv'
      <4> HIDE DEF Safe, PolicyInv, AnswersFrom, HideTypes
      <4>1. \A k \in 1..3 : ~(k < job'.i)
        BY <3>1
      <4> QED
        BY <3>1, <3>2, <3>3, <4>1
    <3>5. PolicyInv'
      BY <3>2
    <3> QED
      BY <2>6, <3>4, <3>5
  <2>7. CASE /\ running /\ build = "state"
             /\ fakeState' = fakeState /\ backup' = "none"
             /\ job' = [op |-> "dead", i |-> 1, off |-> TRUE] /\ running' = TRUE
    <3>1. job' # None /\ job'.op = "dead"
      BY <2>7, FirstSlot
    <3>2. AnswersFrom' = "stock" /\ ~freed' /\ running' = TRUE /\ build' # "native"
      BY <1>1, <2>7
    <3>3. \A k \in 1..3 : Done(Slots[k])'
      BY <1>1, <1>2, <2>7
    <3>4. SlotsInv'
      <4> HIDE DEF Safe, PolicyInv, AnswersFrom, HideTypes
      <4> QED
        BY <3>1, <3>2, <3>3
    <3>5. PolicyInv'
      BY <3>2
    <3> QED
      BY <2>7, <3>4, <3>5
  <2>8. HideTypes /\ FeatureSet(on, alloc)
    OBVIOUS
  <2> HIDE DEF Safe, SlotsInv, PolicyInv, AnswersFrom, HideTypes
  <2>9. CASE ~running
    BY <2>1, <2>2, <2>3, <2>4, <2>8, <2>9, FeatureSetCases
  <2>10. CASE running
    BY <2>1, <2>5, <2>6, <2>7, <2>8, <2>10, FeatureSetCases
  <2> QED
    BY <2>9, <2>10
<1>4. CallInv' /\ HookedCallsSafe'
  BY <1>1, <1>3 DEF Safe, CallInv, HookedCallsSafe
<1> QED
  BY <1>3, <1>4

\* So does patching a slot, also when it fails or there is none.
LEMMA EnablePatchSafe ==
  ASSUME Safe, NEW ok \in BOOLEAN, EnablePatch(ok)
  PROVE SlotsInv' /\ PolicyInv' /\ CallInv' /\ HookedCallsSafe'
<1>1. /\ job \in Jobs /\ job # None /\ job.op = "enable"
      /\ UNCHANGED <<cpc, app, overlap, verdict, build, backup, fakeState, freed, found, stuck>>
  BY EnablePatchCases DEF Safe, callVars
<1>2. PICK i \in 1..3 : i = job.i
  BY <1>1 DEF Jobs
<1>3. PICK s \in SlotNames : s = Slots[i]
  BY SlotFacts
<1>4. slot[s] = "orig" /\ orig[s] = "null"
  BY <1>1, <1>2, <1>3 DEF Safe, SlotsInv, EnableInv, Bare
<1>5. \A k \in 1..3 : k # i => Slots[k] # s /\ Slots[k] \in SlotNames
  BY <1>3, SlotFacts
<1>6. orig' = IF HasSlot(s) THEN [orig EXCEPT ![s] = "orig"] ELSE orig
  BY <1>2, <1>3, <1>4, EnablePatchCases DEF Safe
<1>7. slot' = slot \/ (HasSlot(s) /\ slot' = [slot EXCEPT ![s] = "my"])
  BY <1>2, <1>3, EnablePatchCases DEF Safe
<1>8. ASSUME NEW k \in 1..3, k # i
      PROVE  /\ Done(Slots[k])' <=> Done(Slots[k])
             /\ Bare(Slots[k])' <=> Bare(Slots[k])
  <2>1. slot'[Slots[k]] = slot[Slots[k]] /\ orig'[Slots[k]] = orig[Slots[k]]
    BY <1>5, <1>6, <1>7, <1>8 DEF Safe, HideTypes
  <2>2. HasSlot(Slots[k])' <=> HasSlot(Slots[k])
    BY <1>1 DEF HasSlot
  <2> QED
    BY <2>1, <2>2 DEF Done, Hooked, Bare
<1>9. ~running /\ build # "native" /\ AnswersFrom = "stock" /\ ~freed
  BY <1>1 DEF Safe, SlotsInv, EnableInv, PolicyInv
<1>10. AnswersFrom' = "stock" /\ ~freed' /\ build' # "native"
  BY <1>1, <1>9 DEF AnswersFrom
<1>11. SlotsInv' /\ PolicyInv'
  <2>1. CASE /\ HasSlot(s) /\ slot' = slot /\ running' = running
             /\ job' = [op |-> "unhook", i |-> 1, off |-> FALSE]
    <3>1. job' # None /\ job'.op = "unhook" /\ job'.i = 1 /\ job'.off = FALSE
      BY <2>1, FirstSlot
    <3>2. Saved(Slots[i])'
      BY <1>3, <1>4, <1>6, <2>1 DEF Saved, Safe, HideTypes
    <3>3. \A k \in 1..3 : k # i => Done(Slots[k]) \/ Bare(Slots[k])
      BY <1>1, <1>2 DEF Safe, SlotsInv, EnableInv
    <3>4. \A k \in 1..3 : k # i => Done(Slots[k])' \/ Bare(Slots[k])'
      BY <1>8, <3>3
    <3>5. \A k \in 1..3 : Done(Slots[k])' => Hooked(Slots[k])' \/ Bare(Slots[k])'
      BY DEF Done
    <3>6. ASSUME NEW k \in 1..3
          PROVE  Hooked(Slots[k])' \/ Saved(Slots[k])' \/ Bare(Slots[k])'
      <4>1. CASE k = i
        BY <3>2, <4>1
      <4>2. CASE k # i
        BY <3>4, <3>5, <4>2
      <4> QED
        BY <4>1, <4>2
    <3>7. running' = FALSE
      BY <1>9, <2>1 DEF Safe, HideTypes
    <3>8. \A k \in 1..3 : ~(k < job'.i)
      BY <3>1
    <3>9. SlotsInv'
      BY <1>10, <3>1, <3>6, <3>7, <3>8 DEF SlotsInv, QuietInv, EnableInv, UnhookInv, DeadInv
    <3> QED
      BY <1>10, <3>9 DEF PolicyInv
  <2>2. CASE /\ IF HasSlot(s) THEN slot' = [slot EXCEPT ![s] = "my"] ELSE slot' = slot
             /\ \/ i < 3 /\ job' = [job EXCEPT !.i = @ + 1] /\ running' = running
                \/ i = 3 /\ job' = None /\ running' = TRUE
    <3>1. Done(Slots[i])'
      <4>1. HasSlot(s)' <=> HasSlot(s)
        BY <1>1 DEF HasSlot
      <4>2. CASE HasSlot(s)
        BY <1>3, <1>6, <2>2, <4>1, <4>2 DEF Done, Hooked, Safe, HideTypes
      <4>3. CASE ~HasSlot(s)
        BY <1>3, <1>4, <1>6, <2>2, <4>1, <4>3 DEF Done, Bare
      <4> QED
        BY <4>2, <4>3
    <3>2. \A k \in 1..3 : k < i + 1 => Done(Slots[k])'
      <4>1. \A k \in 1..3 : k < i => Done(Slots[k])
        BY <1>1, <1>2 DEF Safe, SlotsInv, EnableInv
      <4>2. \A k \in 1..3 : k < i + 1 => k < i \/ k = i
        OBVIOUS
      <4> QED
        BY <1>8, <3>1, <4>1, <4>2
    <3>3. \A k \in 1..3 : k >= i + 1 => Bare(Slots[k])'
      <4>1. \A k \in 1..3 : k >= i + 1 => Bare(Slots[k]) /\ k # i
        BY <1>1, <1>2 DEF Safe, SlotsInv, EnableInv
      <4> QED
        BY <1>8, <4>1
    <3>4. CASE i < 3 /\ job' = [job EXCEPT !.i = @ + 1] /\ running' = running
      <4>1. job' # None /\ job'.op = "enable" /\ job'.i = i + 1
        BY <1>1, <1>2, <3>4, NextSlot
      <4>2. ~running'
        BY <1>9, <3>4
      <4> QED
        BY <1>10, <3>2, <3>3, <4>1, <4>2
           DEF SlotsInv, QuietInv, EnableInv, UnhookInv, DeadInv, PolicyInv
    <3>5. CASE i = 3 /\ job' = None /\ running' = TRUE
      <4>1. \A k \in 1..3 : Done(Slots[k])'
        BY <3>2, <3>5
      <4> QED
        BY <1>10, <3>5, <4>1
           DEF SlotsInv, QuietInv, EnableInv, UnhookInv, DeadInv, PolicyInv
    <3> QED
      BY <2>2, <3>4, <3>5
  <2> QED
    BY <1>2, <1>3, <2>1, <2>2, EnablePatchCases DEF Safe
<1>12. CallInv'
  <2>1. \A t \in SlotNames : slot[t] = "my" => slot'[t] = "my"
    BY <1>7 DEF Safe, HideTypes
  <2> QED
    BY <1>1, <1>9, <2>1 DEF Safe, CallInv, HideTypes
<1>13. HookedCallsSafe'
  BY <1>1 DEF Safe, HookedCallsSafe
<1> QED
  BY <1>11, <1>12, <1>13

\* So does restoring a slot, unless the patch that restores it fails.
LEMMA UnhookSafe ==
  ASSUME Safe, NEW ok \in BOOLEAN, Unhook(ok), ~stuck'
  PROVE SlotsInv' /\ PolicyInv' /\ CallInv' /\ HookedCallsSafe'
<1>1. /\ job \in Jobs /\ job # None /\ job.op = "unhook"
      /\ UNCHANGED <<cpc, app, verdict, build, backup, fakeState, freed>>
      /\ overlap' = [c \in Callers |-> overlap[c] \/ cpc[c] = Slots[job.i]]
      /\ orig' = [orig EXCEPT ![Slots[job.i]] = "null"]
  BY UnhookCases DEF Safe
<1>2. PICK i \in 1..3 : i = job.i
  BY <1>1 DEF Jobs
<1>3. PICK s \in SlotNames : s = Slots[i]
  BY SlotFacts
<1>4. Hooked(s) \/ Saved(s) \/ Bare(s)
  BY <1>1, <1>2, <1>3 DEF Safe, SlotsInv, UnhookInv
<1>5. \A k \in 1..3 : k # i => Slots[k] # s /\ Slots[k] \in SlotNames
  BY <1>3, SlotFacts
<1>6. slot' = [slot EXCEPT ![s] = "orig"]
  <2>1. \/ orig[s] = "null" /\ slot' = slot
        \/ slot[s] # "my" /\ slot' = slot
        \/ orig[s] # "null" /\ slot' = [slot EXCEPT ![s] = orig[s]]
    BY <1>2, <1>3, UnhookCases DEF Safe
  <2>2. orig[s] = "null" => slot[s] = "orig"
    BY <1>4 DEF Hooked, Saved, Bare
  <2>3. orig[s] # "null" => orig[s] = "orig"
    BY <1>4 DEF Hooked, Saved, Bare
  <2> QED
    BY <2>1, <2>2, <2>3 DEF Safe, HideTypes
<1>7. orig' = [orig EXCEPT ![s] = "null"]
  BY <1>1, <1>2, <1>3
<1>8. \A k \in 1..3 : k # i => /\ Hooked(Slots[k])' <=> Hooked(Slots[k])
                               /\ Saved(Slots[k])' <=> Saved(Slots[k])
                               /\ Bare(Slots[k])' <=> Bare(Slots[k])
  BY <1>5, <1>6, <1>7 DEF Hooked, Saved, Bare, Safe, HideTypes
<1>9. Bare(Slots[i])'
  BY <1>3, <1>6, <1>7 DEF Bare, Safe, HideTypes
<1>10. (running <=> job.off) /\ build # "native" /\ AnswersFrom = "stock" /\ ~freed
  BY <1>1 DEF Safe, SlotsInv, UnhookInv, PolicyInv
<1>11. \A k \in 1..3 : k < i + 1 => Bare(Slots[k])'
  BY <1>1, <1>2, <1>8, <1>9 DEF Safe, SlotsInv, UnhookInv
<1>12. SlotsInv' /\ PolicyInv'
  <2>1. CASE i < 3 /\ job' = [job EXCEPT !.i = @ + 1] /\ running' = running
    <3>1. job' # None /\ job'.op = "unhook" /\ job'.i = i + 1 /\ job'.off = job.off
      BY <1>1, <1>2, <2>1, NextSlot
    <3>2. \A k \in 1..3 : k >= i + 1 => Hooked(Slots[k])' \/ Saved(Slots[k])' \/ Bare(Slots[k])'
      BY <1>1, <1>2, <1>8 DEF Safe, SlotsInv, UnhookInv
    <3>3. job.off \in BOOLEAN /\ running \in BOOLEAN
      BY <1>1 DEF Jobs, Safe, HideTypes
    <3>4. running' = job'.off
      BY <1>10, <2>1, <3>1, <3>3
    <3>5. AnswersFrom' = "stock" /\ ~freed' /\ build' # "native"
      BY <1>1, <1>10 DEF AnswersFrom
    <3> QED
      BY <1>11, <3>1, <3>2, <3>4, <3>5
         DEF SlotsInv, QuietInv, EnableInv, UnhookInv, DeadInv, PolicyInv
  <2>2. CASE i = 3 /\ job' = None /\ running' = (running /\ ~job.off)
    <3>1. ~running'
      BY <1>10, <2>2
    <3>2. \A k \in 1..3 : Bare(Slots[k])'
      BY <1>11, <2>2
    <3> QED
      BY <1>1, <1>10, <2>2, <3>1, <3>2
         DEF SlotsInv, QuietInv, EnableInv, UnhookInv, DeadInv, PolicyInv
  <2> QED
    BY <1>2, <2>1, <2>2, UnhookCases DEF Safe
<1>13. CallInv'
  <2> SUFFICES ASSUME NEW c \in Callers, cpc[c] # "out", ~overlap'[c]
               PROVE slot'[cpc[c]] = "my"
    BY <1>1, <1>10 DEF CallInv
  <2>1. ~overlap[c] /\ cpc[c] # s
    BY <1>1, <1>2, <1>3
  <2>2. cpc[c] \in SlotNames /\ slot[cpc[c]] = "my"
    BY <1>10, <2>1 DEF Safe, CallInv, HideTypes
  <2> QED
    BY <1>6, <2>1, <2>2 DEF Safe, HideTypes
<1>14. HookedCallsSafe'
  <2>1. stuck' = stuck
    BY UnhookCases DEF Safe
  <2> QED
    BY <1>1, <2>1 DEF Safe, HookedCallsSafe
<1> QED
  BY <1>12, <1>13, <1>14

\* So does a call that enters a hook.
LEMMA EnterSafe ==
  ASSUME Safe, NEW c \in Callers, NEW s \in SlotNames, NEW isApp \in BOOLEAN, Enter(c, s, isApp)
  PROVE SlotsInv' /\ PolicyInv' /\ CallInv' /\ HookedCallsSafe'
<1>1. UNCHANGED <<build, backup, fakeState, freed, running, found, job, slot, orig, stuck, overlap, verdict>>
  BY DEF Enter, hideVars
<1>2. /\ cpc' = [cpc EXCEPT ![c] = s] /\ app' = [app EXCEPT ![c] = isApp]
      /\ build = "native" => running /\ isApp
      /\ build # "native" => slot[s] = "my"
  BY DEF Enter
<1>3. SlotsInv'
  BY <1>1 DEF Safe, SlotsInv, QuietInv, EnableInv, UnhookInv, DeadInv, Done, HasSlot, Hooked, Bare, Saved
<1>4. PolicyInv' /\ HookedCallsSafe'
  BY <1>1 DEF Safe, PolicyInv, AnswersFrom, HookedCallsSafe
<1>5. CallInv'
  <2>1. build = "native" => backup = "stock" /\ ~freed
    BY <1>2 DEF Safe, PolicyInv, AnswersFrom
  <2>2. \A d \in Callers : d # c => cpc'[d] = cpc[d] /\ app'[d] = app[d]
    BY <1>2 DEF Safe, HideTypes
  <2>3. cpc'[c] = s /\ app'[c] = isApp
    BY <1>2 DEF Safe, HideTypes
  <2> QED
    BY <1>1, <1>2, <2>1, <2>2, <2>3 DEF Safe, CallInv
<1> QED
  BY <1>3, <1>4, <1>5

\* A call that leaves a hook found what it needed.
LEMMA FinishSafe ==
  ASSUME Safe, ~stuck, NEW c \in Callers, Finish(c)
  PROVE SlotsInv' /\ PolicyInv' /\ CallInv' /\ HookedCallsSafe'
<1>1. UNCHANGED <<build, backup, fakeState, freed, running, found, job, slot, orig, stuck>>
  BY DEF Finish, hideVars
<1>2. /\ cpc[c] # "out" /\ cpc' = [cpc EXCEPT ![c] = "out"]
      /\ app' = [app EXCEPT ![c] = FALSE] /\ overlap' = [overlap EXCEPT ![c] = FALSE]
  BY DEF Finish
<1>3. SlotsInv'
  BY <1>1 DEF Safe, SlotsInv, QuietInv, EnableInv, UnhookInv, DeadInv, Done, HasSlot, Hooked, Bare, Saved
<1>4. PolicyInv'
  BY <1>1 DEF Safe, PolicyInv, AnswersFrom
<1>5. CallInv'
  BY <1>1, <1>2 DEF Safe, CallInv, HideTypes
<1>6. verdict' = [verdict EXCEPT ![c] = "ok"] \/ verdict' = [verdict EXCEPT ![c] = "hook removed"]
  <2>1. CASE overlap[c]
    BY <2>1, Zenon DEF Finish
  <2>2. CASE ~overlap[c]
    <3>1. cpc[c] \in SlotNames
      BY <1>2 DEF Safe, HideTypes
    <3>2. build # "native" => orig[cpc[c]] = "orig" /\ AnswersFrom = "stock" /\ ~freed
      BY <1>2, <2>2, <3>1, EveryHookWorks DEF Safe, CallInv, HookInv
    <3>3. AnswersFrom # "none" /\ ~freed
      BY <1>2, <2>2, <3>2 DEF Safe, CallInv, AnswersFrom
    <3>4. ~(app[c] /\ AnswersFrom = "none") /\ ~(app[c] /\ AnswersFrom # "none" /\ freed)
      BY <3>3
    <3>5. ~(/\ build # "native" /\ (~app[c] \/ cpc[c] = "setprocattr")
            /\ orig[cpc[c]] # "orig")
      BY <3>2
    <3> QED
      BY <2>2, <3>4, <3>5, Zenon DEF Finish
  <2> QED
    BY <2>1, <2>2
<1>7. HookedCallsSafe'
  BY <1>6 DEF Safe, HookedCallsSafe, HideTypes
<1> QED
  BY <1>3, <1>4, <1>5, <1>7

\* Every step keeps the invariant.
LEMMA HideStep == HideInv /\ [Next]_vars => HideInv'
<1> SUFFICES ASSUME HideInv, [Next]_vars, ~stuck'
             PROVE SlotsInv' /\ PolicyInv' /\ CallInv' /\ HookedCallsSafe'
  BY TypesStep DEF HideInv
<1>1. ~stuck
  BY Zenon DEF Next, BootCompleted, FeatureSet, EnablePatch, Unhook, Enter, Finish,
     vars, hideVars, HideInv
<1>2. Safe
  BY <1>1 DEF HideInv, Safe
<1>3. CASE UNCHANGED vars
  <2>1. UNCHANGED <<build, backup, fakeState, freed, running, found, job, slot, orig, stuck,
                    cpc, app, overlap, verdict>>
    BY <1>3 DEF vars, hideVars, callVars
  <2>2. SlotsInv'
    BY <1>2, <2>1 DEF Safe, SlotsInv, QuietInv, EnableInv, UnhookInv, DeadInv, Done, HasSlot, Hooked, Bare, Saved
  <2>3. PolicyInv' /\ CallInv' /\ HookedCallsSafe'
    BY <1>2, <2>1 DEF Safe, PolicyInv, AnswersFrom, CallInv, HookedCallsSafe
  <2> QED
    BY <2>2, <2>3
<1> QED
  BY <1>1, <1>2, <1>3, BootCompletedSafe, FeatureSetSafe, EnablePatchSafe, UnhookSafe, EnterSafe,
     FinishSafe DEF Next

\* As long as no slot failed to be restored: with nobody changing the feature,
\* the slots hold the hooks if and only if it runs, each with its original and
\* a policy to answer from, after any sequence of enabling that fails at any
\* slot, disabling, and dropping the backup at boot-completed.
THEOREM HooksFollowTheFeature == Spec => []HooksMatchFeature
<1>1. ASSUME HideInv PROVE HooksMatchFeature
  <2> SUFFICES ASSUME job = None, ~stuck
               PROVE /\ \A s \in SlotNames :
                          IF running /\ build # "native" /\ HasSlot(s) THEN slot[s] = "my" /\ orig[s] = "orig"
                          ELSE slot[s] = "orig" /\ orig[s] = "null"
                     /\ running => AnswersFrom = "stock" /\ ~freed
    BY DEF HooksMatchFeature
  <2>1. QuietInv /\ PolicyInv
    BY <1>1 DEF HideInv, SlotsInv
  <2>2. running => AnswersFrom = "stock" /\ ~freed
    BY <2>1 DEF PolicyInv
  <2>3. ASSUME NEW s \in SlotNames
        PROVE IF running /\ build # "native" /\ HasSlot(s) THEN slot[s] = "my" /\ orig[s] = "orig"
              ELSE slot[s] = "orig" /\ orig[s] = "null"
    <3>1. PICK k \in 1..3 : s = Slots[k]
      BY SlotFacts
    <3> QED
      BY <2>1, <3>1 DEF QuietInv, Done, Hooked, Bare
  <2> QED
    BY <2>2, <2>3
<1> QED
  BY HideInit, HideStep, <1>1, PTL DEF Spec

\* For any number of callers: a call through a hook that nobody removed under
\* it finds the saved original, or a backup that exists and was not released.
THEOREM CallsThroughHooksEndWell == Spec => []HookedCallsSafe
<1>1. HideInv => HookedCallsSafe
  BY DEF HideInv, HookedCallsSafe
<1> QED
  BY HideInit, HideStep, <1>1, PTL DEF Spec

=============================================================================
