---------------------------- MODULE AllowlistFile ----------------------------
(***************************************************************************)
(* kernel/policy/allowlist.c: how the table of profiles survives a reboot. *)
(* ksu_persistent_allow_list queues a task_work callback for pid 1, which  *)
(* truncates /data/adb/ksu/.allowlist and writes it anew; post-fs-data of  *)
(* the next boot loads it, migrating the formats 2 and 3 to 4.             *)
(*                                                                         *)
(* The table is a function here: Allowlist models its nodes.  Nothing is   *)
(* fsynced, so a crash leaves any content the file has had since the last  *)
(* write-back, cut off anywhere.                                           *)
(***************************************************************************)
EXTENDS Integers, Sequences, FiniteSets, SequencesExt

CONSTANTS
  AppUids,        \* curr_uid of the profiles
  Given,       \* pairs <<version, profile>> that managers, old ones too, send
  FirstFiles,  \* contents of the file before the first boot
  MaxChanges,  \* bound of the model: changes of the table by manager and pruning
  MaxBoots,    \* bound of the model: reboots
  None         \* no profile

FILE_FORMAT_VERSION == 4

\* What the union rp_config holds only matters for a profile with allow_su.
Profile == [allow_su : BOOLEAN, domain : {"su", "ksu", "other"}, no_new_privs : BOOLEAN]

\* What reading the file may give
Files == [magic : BOOLEAN, version : Nat, entries : Seq([uid : AppUids, profile : Profile])]

ASSUME FileAssumption ==
  /\ IsFiniteSet(AppUids)
  /\ None \notin Profile
  /\ FirstFiles \subseteq Files
  /\ Given \subseteq (2 .. FILE_FORMAT_VERSION) \X Profile
  /\ MaxChanges \in Nat /\ MaxBoots \in Nat

VARIABLES
  table,     \* uid -> profile or None
  stage,     \* "boot", "loading", "running", "completed" (ksu_boot_completed)
  loadPos,   \* entries that ksu_load_allow_list has read
  asking,    \* who changed the table and has not yet asked for a save
  pending,   \* do_persistent_allow_list callbacks queued for pid 1
  saver,     \* pid 1: "idle", "opened" or "header" (magic and version written)
  file,      \* what reading the file returns
  survivors, \* contents a crash may leave
  changes, boots,
  lost,      \* ghost: a save or a load failed, and no whole save came after
  granted,   \* ghost: pairs <<uid, profile>> that were ever given
  before     \* ghost: <<table>> at a clean shutdown, <<>> after anything else

kernelVars == <<table, stage, loadPos, asking, pending, saver>>
fileVars == <<file, survivors>>
ghostVars == <<lost, granted, before>>
savingVars == <<kernelVars, fileVars, changes, boots, ghostVars>>

EmptyTable == [u \in AppUids |-> None]

\* A file that is missing, or shorter than its header, is not loaded.
NoFile == [magic |-> FALSE, version |-> 0, entries |-> <<>>]

\* Everything a write of f that is cut off may leave
CutOff(f) ==
  {NoFile, [NoFile EXCEPT !.magic = f.magic]}
    \cup {[f EXCEPT !.entries = e] : e \in Prefixes(f.entries)}

-----------------------------------------------------------------------------
(* Formats *)

\* migrate_profile: 2 renames the domain, and 2 and 3 set the flag that 4 added.
Migrate(version, p) ==
  [p EXCEPT !.domain = IF version = 2 /\ p.allow_su /\ @ = "su" THEN "ksu" ELSE @,
            !.no_new_privs = IF version \in {2, 3} /\ p.allow_su THEN TRUE ELSE @]

Loadable(f) == f.magic /\ f.version \in 2 .. FILE_FORMAT_VERSION

\* The table that loading a file gives, if every allocation succeeds
Contents(f) ==
  [u \in AppUids |->
     LET at == {i \in 1 .. Len(f.entries) : f.entries[i].uid = u}
     IN  IF Loadable(f) /\ at # {} THEN Migrate(f.version, f.entries[Max(at)].profile)
                                   ELSE None]

\* The profiles that loading a file puts into the table, if only for a while
GivenBy(f) ==
  {<<f.entries[i].uid, Migrate(f.version, f.entries[i].profile)>> :
     i \in {j \in 1 .. Len(f.entries) : Loadable(f)}}

-----------------------------------------------------------------------------
FileInit ==
  /\ file \in FirstFiles
  /\ survivors = {file}
  /\ table = EmptyTable
  /\ stage = "boot"
  /\ loadPos = 0
  /\ asking = {}
  /\ pending = 0
  /\ saver = "idle"
  /\ changes = 0 /\ boots = 0
  /\ lost = FALSE
  /\ granted = GivenBy(file)
  /\ before = <<>>

(* ksu_load_allow_list, called once a boot by on_post_fs_data.  There is no *)
(* manager before it returns, so nothing else changes table or file yet.   *)

\* The file has what the table lacks.
ForgetBefore ==
  /\ lost' = TRUE
  /\ before' = <<>>
  /\ UNCHANGED granted

LoadOpen ==
  /\ stage = "boot"
  /\ \/ /\ stage' = IF Loadable(file) THEN "loading" ELSE "running"
        /\ UNCHANGED ghostVars
     \/ /\ Loadable(file)     \* but it cannot be opened, or its header be read
        /\ stage' = "running"
        /\ ForgetBefore
  /\ UNCHANGED <<table, loadPos, asking, pending, saver, fileVars, changes, boots>>

\* mutant: the profile is stored as it was read
LoadEntry_asRead ==
  LET e == file.entries[loadPos + 1] IN
  /\ stage = "loading"
  /\ loadPos < Len(file.entries)
  /\ loadPos' = loadPos + 1
  /\ table' = [table EXCEPT ![e.uid] = e.profile]
  /\ UNCHANGED <<stage, asking, pending, saver, fileVars, changes, boots, ghostVars>>

LoadEntry ==
  LET e == file.entries[loadPos + 1] IN
  /\ stage = "loading"
  /\ loadPos < Len(file.entries)
  /\ loadPos' = loadPos + 1
  /\ \/ /\ table' = [table EXCEPT ![e.uid] = Migrate(file.version, e.profile)]
        /\ UNCHANGED ghostVars
     \/ \* ksu_set_app_profile failed; nobody looks at its result
        ForgetBefore /\ UNCHANGED table
  /\ UNCHANGED <<stage, asking, pending, saver, fileVars, changes, boots>>

\* At the end of the file, or at a read that fails or is short; a file of an old
\* format is then written anew with what was read of it.
LoadEnd ==
  /\ stage = "loading"
  /\ \/ loadPos = Len(file.entries) /\ UNCHANGED ghostVars
     \/ loadPos < Len(file.entries) /\ ForgetBefore
  /\ stage' = "running"
  /\ loadPos' = 0
  /\ asking' = IF file.version < FILE_FORMAT_VERSION THEN asking \cup {"loader"} ELSE asking
  /\ UNCHANGED <<table, pending, saver, fileVars, changes, boots>>

BootCompleted ==
  /\ stage = "running"
  /\ stage' = "completed"
  /\ UNCHANGED <<table, loadPos, asking, pending, saver, fileVars, changes, boots, ghostVars>>

-----------------------------------------------------------------------------
(* Changes of the table *)

\* mutant: the manager's profile is not saved
SetProfile_unsaved(uid, version, p) ==
  /\ stage \in {"running", "completed"}
  /\ changes < MaxChanges
  /\ changes' = changes + 1
  /\ "manager" \notin asking
  /\ table' = [table EXCEPT ![uid] = Migrate(version, p)]
  /\ granted' = granted \cup {<<uid, Migrate(version, p)>>}
  /\ before' = <<>>
  /\ UNCHANGED <<stage, loadPos, asking, pending, saver, fileVars, boots, lost>>

\* do_set_app_profile when ksu_set_app_profile succeeds; a failure does nothing.
SetProfile(uid, version, p) ==
  /\ stage \in {"running", "completed"}
  /\ changes < MaxChanges
  /\ changes' = changes + 1
  /\ "manager" \notin asking
  /\ table' = [table EXCEPT ![uid] = Migrate(version, p)]
  /\ asking' = asking \cup {"manager"}
  /\ granted' = granted \cup {<<uid, Migrate(version, p)>>}
  /\ before' = <<>>
  /\ UNCHANGED <<stage, loadPos, pending, saver, fileVars, boots, lost>>

\* mutant: modified is not set
Prune_unsaved(gone) ==
  /\ stage = "completed"
  /\ changes < MaxChanges
  /\ changes' = changes + 1
  /\ \E u \in gone : table[u] # None
  /\ table' = [u \in AppUids |-> IF u \in gone THEN None ELSE table[u]]
  /\ before' = <<>>
  /\ UNCHANGED <<stage, loadPos, asking, pending, saver, fileVars, boots, lost, granted>>

\* ksu_prune_allowlist: the packages of these uids are gone.
Prune(gone) ==
  /\ stage = "completed"
  /\ changes < MaxChanges
  /\ changes' = changes + 1
  /\ "pruner" \notin asking
  /\ \E u \in gone : table[u] # None
  /\ table' = [u \in AppUids |-> IF u \in gone THEN None ELSE table[u]]
  /\ asking' = asking \cup {"pruner"}
  /\ before' = <<>>
  /\ UNCHANGED <<stage, loadPos, pending, saver, fileVars, boots, lost, granted>>

\* ksu_persistent_allow_list: one callback more, or none if pid 1 is not found,
\* kzalloc fails or task_work_add fails.
Request(who) ==
  /\ who \in asking
  /\ asking' = asking \ {who}
  /\ \/ pending' = pending + 1 /\ UNCHANGED lost
     \/ lost' = TRUE /\ UNCHANGED pending
  /\ UNCHANGED <<table, stage, loadPos, saver, fileVars, changes, boots, granted, before>>

-----------------------------------------------------------------------------
(* do_persistent_allow_list, run by pid 1 when it returns to user space *)

WriteFile(f) ==
  /\ file' = f
  /\ survivors' = survivors \cup CutOff(f)

\* filp_open with O_TRUNC
SaveOpen ==
  /\ saver = "idle"
  /\ pending > 0
  /\ pending' = pending - 1
  /\ \/ saver' = "opened" /\ WriteFile(NoFile) /\ UNCHANGED lost
     \/ lost' = TRUE /\ UNCHANGED <<saver, fileVars>>
  /\ UNCHANGED <<table, stage, loadPos, asking, changes, boots, granted, before>>

\* mutant: the header repeats the version that was loaded
SaveHeader_oldVersion ==
  /\ saver = "opened"
  /\ \E f \in FirstFiles : WriteFile([NoFile EXCEPT !.magic = TRUE, !.version = f.version])
  /\ saver' = "header"
  /\ UNCHANGED <<table, stage, loadPos, asking, pending, changes, boots, ghostVars>>

\* Magic and version; if one of the writes fails the file is closed as it is.
SaveHeader ==
  /\ saver = "opened"
  /\ \/ /\ WriteFile([NoFile EXCEPT !.magic = TRUE, !.version = FILE_FORMAT_VERSION])
        /\ saver' = "header"
        /\ UNCHANGED lost
     \/ /\ \E magic \in BOOLEAN : WriteFile([NoFile EXCEPT !.magic = magic])
        /\ saver' = "idle"
        /\ lost' = TRUE
  /\ UNCHANGED <<table, stage, loadPos, asking, pending, changes, boots, granted, before>>

Entries == {[uid |-> u, profile |-> table[u]] : u \in {v \in AppUids : table[v] # None}}

\* All profiles in the order of the hash table, under allowlist_mutex; the
\* results of these writes are ignored, so any of them may be missing.
SaveEntries ==
  /\ saver = "header"
  /\ \E written \in SUBSET Entries : \E s \in SetToSeqs(written) :
       /\ WriteFile([file EXCEPT !.entries = s])
       /\ lost' = (written # Entries)
  /\ saver' = "idle"
  /\ UNCHANGED <<table, stage, loadPos, asking, pending, changes, boots, granted, before>>

-----------------------------------------------------------------------------
(* The environment *)

\* The kernel writes the file back.
Writeback ==
  /\ survivors # {file}
  /\ survivors' = {file}
  /\ UNCHANGED <<kernelVars, file, changes, boots, ghostVars>>

Quiet == asking = {} /\ pending = 0 /\ saver = "idle"

Reboot(f) ==
  /\ boots < MaxBoots
  /\ boots' = boots + 1
  /\ file' = f
  /\ survivors' = {f}
  /\ table' = EmptyTable
  /\ stage' = "boot"
  /\ loadPos' = 0
  /\ asking' = {}
  /\ pending' = 0
  /\ saver' = "idle"
  /\ lost' = FALSE
  /\ UNCHANGED <<changes, granted>>

\* init reboots the phone: it has run its callbacks, and the disks are synced.
Shutdown ==
  /\ stage \in {"running", "completed"}
  /\ Quiet
  /\ before' = IF lost THEN <<>> ELSE <<table>>
  /\ Reboot(file)

Crash ==
  /\ before' = <<>>
  /\ \E f \in survivors : Reboot(f)

FileNext ==
  \/ LoadOpen \/ LoadEntry \/ LoadEnd \/ BootCompleted
  \/ \E uid \in AppUids, g \in Given : SetProfile(uid, g[1], g[2])
  \/ \E gone \in SUBSET AppUids : Prune(gone)
  \/ \E who \in {"loader", "manager", "pruner"} : Request(who)
  \/ SaveOpen \/ SaveHeader \/ SaveEntries
  \/ Writeback \/ Shutdown \/ Crash

FileSpec == FileInit /\ [][FileNext]_savingVars

\* A system call goes on, and pid 1 returns to user space again and again.
FileFairness ==
  /\ WF_savingVars(\E who \in {"loader", "manager", "pruner"} : Request(who))
  /\ WF_savingVars(SaveOpen \/ SaveHeader \/ SaveEntries)

FileFairSpec == FileSpec /\ FileFairness

-----------------------------------------------------------------------------
(* Properties *)

\* The in-memory list, the file, the queued works and the locals of the save and
\* load paths keep their types.
FileTypeOK ==
  /\ table \in [AppUids -> Profile \cup {None}]
  /\ stage \in {"boot", "loading", "running", "completed"}
  /\ loadPos \in 0 .. Len(file.entries)
  /\ asking \subseteq {"loader", "manager", "pruner"}
  /\ pending \in Nat
  /\ saver \in {"idle", "opened", "header"}
  /\ file \in survivors /\ survivors \subseteq Files
  /\ changes \in 0 .. MaxChanges /\ boots \in 0 .. MaxBoots
  /\ lost \in BOOLEAN

Loaded == stage \in {"running", "completed"}

\* When no save is asked for, queued or running and none failed since the last
\* that wrote everything, loading the file would give the table: a change made
\* while the file is being written is either in it or saved again, and a whole
\* save makes up for what earlier ones left out.
SavedWhenQuiet == Loaded /\ Quiet /\ ~lost => Contents(file) = table

\* A clean reboot brings back exactly the profiles of the boot before: a profile
\* is not migrated a second time, and a pruned one does not return.
SurvivesReboot == Loaded /\ before # <<>> => table = before[1]

\* Whatever a crash, a cut-off write or an old format leaves, a profile in the
\* table is one that was given for that uid, in the current format.
NothingInvented == \A u \in AppUids : table[u] # None => <<u, table[u]>> \in granted

\* A table that differs from the file is written to it, unless a save fails or
\* the system goes down.
EventuallySaved ==
  (Loaded /\ Contents(file) # table) ~> (Contents(file) = table \/ lost \/ ~Loaded)
=============================================================================
