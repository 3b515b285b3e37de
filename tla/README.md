# A TLA+ model of the SukiSU Non-GKI kernel driver

This directory models the kernel side of SukiSU for Non-GKI kernels (`kernel/` of
this repository), a root manager built into an Android kernel. It decides which
apps may become root, keeps that decision across reboots, finds out which package is
the manager, logs su events for a daemon, edits the SELinux policy in force and hides
the edits from apps, and patches kernel text to install its hooks. Almost all of it runs in other people's threads (system calls, fsnotify
callbacks, task works, RCU readers, `stop_machine` callbacks), and the repository's
own verification stops at compiling and linking (`docs/verification.md`).

## 1. Inventory

| component | state | operations | who calls it, what is hard | correct when |
|---|---|---|---|---|
| event queue (`infra/event_queue.c`) | list, `queued`, drop counters (pending and in flight), `closed`, spinlock, read mutex, wait queue | push, drop, close, destroy, read, poll | producers in any context; a reader copies to user space between two critical sections and may fail half way or sleep with the mutex held | every event is read once or reported dropped once, in order; no wake-up is lost; end of file is the end |
| allowlist table (`policy/allowlist.c`) | RCU hash of counted profiles, counter, cached defaults, mutex | set, prune, three kinds of lookup | lookups from system calls race with the manager and with pruning; references may be gone when taken | no use after free, exact counts, a lookup's answer was true while it ran |
| allowlist file (same) | file on `/data`, task works of pid 1 | save, load, migrate | the save truncates and rewrites without fsync, in another task and later; crashes | quiet means saved; a reboot brings back the same table; nothing is invented |
| manager tracking, package observer (`manager/`) | manager appid, fsnotify mark | `track_throne` from three places | `packages.list` changes while a pass works on what it read; reads may fail or be cut | the manager is the installed one; profiles go if and only if their package went |
| kernel text patching (`non_gki/patch_memory_arm64.c`) | arrival counter, mapping, text, each CPU's instruction stream | `ksu_patch_text` | all CPUs with interrupts off meet at a barrier without locks | one writer, everybody leaves with the new text, nobody spins for ever |
| root grant (`policy/app_profile.c`), su log (`sulog/event.c`, `feature/sulog.c`) | credentials, reference counts, thread flag, log switch | escape, capture, emit, switch | every step may fail after the next credentials were prepared; the log is switched in between | references balance, each call is audited once under its caller's uid, a confined task stays so |
| supercall interface (`supercall/`) | command table, driver files, once-only flags | ioctls | flags without locks, uninitialised replies | the right commands for the right callers; boot events once |
| feature registry (`policy/feature.c`) | handler table, mutex | register, get, set | handlers take more locks | a feature's value is what was set last |
| umount list (`feature/kernel_umount.c`, `supercall/dispatch.c`) | list, rwsem | add, delete, wipe, list, walk | sized in one critical section and printed in another | no duplicates; what was added can be deleted |
| boot driver (`runtime/ksud.c`) | once-only flags, `ksu_rc_pos`, key counters | exec, read and fstat hooks | reads of any size, racing boot reports | init sees its file followed by the extra text, once |
| SELinux hide (`feature/`, `non_gki/selinux_hide.c`) | enabled, running, backup policy, patched slots | enable, disable, drop the backup | hooked calls in progress while it is switched | hooked calls use a live backup; slots are put back |
| SELinux rules, policy edits (`selinux/`, `non_gki/`) | policy, its duplicate | apply rules, batches | failures half way through a policy change | a failed change leaves the old policy |
| su log file, file wrapper, su hooks, adb root, mount namespaces, LSM hooks | descriptors, references, borrowed credentials | install, release, rewrite | error paths | what was taken is given back |
| apk signature, KPM, symbol resolver, compatibility, init, build scripts | little or none | | | |

How they interact: the manager app reaches the driver through ioctls. `SET_APP_PROFILE`
changes the allowlist table and queues a save. Pruning, by `track_throne`, changes the
same table and queues a save too. A su execve or `GRANT_ROOT` looks the caller up in
the table, takes a reference to its root profile, changes the caller's credentials and
sends an event to the queue, which a daemon reads. At boot, post-fs-data loads the
file, sets the fsnotify mark and looks for the manager; boot-completed prunes what
went away in between. The second stage of init edits the policy, after a backup of it
was taken; SELinux hide answers apps from that backup through hooks that text patching
installs where the kernel has none, and boot-completed releases it if the feature is off.
A process that zygote forks walks the umount list at `setresuid`.

`PROJECT.json` lists each component with its status, and under `hazards` what is hard
to test, at its line.

## 2. Plan

Modelled first: the queue, the table, its file, the manager, the text patching and the
grant. Then the policy (`AvDecision`, `PolicyDb`, `Sepolicy`, `PolicyEdits`), the hooks that
hide it (`SelinuxHide`), and the commands with the umount list, the features and the log's
file (`Supercall`).

Modelling that could follow: `RcInject`, the read proxies that append to init's file, as an
algorithm against a reference over reads of every size; the installation of driver files by
task work.

Proofs: the safety properties of every module with a state machine are proved (section 5),
except two of `Sepolicy`, `DecisionFollowsCommands` and `RoomToCopy`, which say what sums and
searches over finite tables come to and are left to TLC.

## 3. Modules

Definitions keep the names of the code; `PROJECT.json` maps each of them to its lines.
A definition `X_bug` before `X` is a plausible defect of `X`, kept to show that some
property notices it; no specification uses it.

**EventLog** is what the queue promises: each event offered to an open log gets the next
number, and is then handed out once, in order, or covered by one dropped record with
the right count and range.

**EventQueue** is `event_queue.c`. A step is a critical section of `queue->lock`, one
test of a wait condition, or one copy to user space. Readers go through
`mutex_lock_interruptible`, the `wait_event` loop and the records as in the code, with
every early return (`EAGAIN`, `EFAULT`, `EMSGSIZE`, signals, buffer full). The length of a
push is checked before the lock. `lostPending` and `lostInflight` are ghosts: the events
behind the drop counters. `LogSpec` maps the queue to `EventLog`.

**Allowlist** is the table. Nodes have a reference count and a memory state (live,
waiting for a grace period, freed); each grace period remembers the readers it waits
for. A lookup is the RCU lock, the find, the dereference, `kref_get_unless_zero` with its
retry, the unlock, the use and the put. A writer inserts, replaces or prunes under
the mutex, unlinking first and putting afterwards. Profiles keep only the flags that
lookups branch on; what a caller computes from them afterwards, and the uids that are answered
without the table (the system's, the manager's, the shell's), are left out. Node identities are not reused, which hides nothing: a freed node
that is touched is an error already.

**AllowlistFile** is saving and loading. The table is a function. A change leaves a
request (`asking`), the request queues a callback for pid 1 or fails, the callback
truncates, writes the header and then the entries it finds under the mutex at that
moment, less those whose write failed. `survivors` is the set of contents a crash may leave: any cut-off of any content
since the last write-back, because nothing is synced. Loading migrates formats 2 and 3; it
may fail to open the file or stop early, and a file of an old format is then rewritten with what
was read. `lost` remembers, until the next whole save, that the file may have what the table lacks, or
the reverse.

**Throne** is `track_throne` as run by post-fs-data, by the thread that renames
`packages.list`, and by boot-completed, each working on the list it read. Assumed of the
environment: one package changes per update; the package manager starts after
post-fs-data; it goes on when the fsnotify handler has returned, since it runs it.

**PatchText** is the barrier of `ksu_patch_text_cb`: arrival count, the last CPU as
master, the copy in pieces that may stop half way, the second increment, the `isb` of
each CPU. Text is a version number and `view` the version a CPU executes.

**RootGrant** is `escape_with_root_profile` with its callers, for the build without
SUSFS, over `INSTANCE EventLog`. The allowlist accepts the app that asks; it prepares
credentials, takes user, groups and profile references, may fail at each step, commits,
and sets the thread flag. Children inherit the flag. Capabilities are sets of bits, so
that masks and numbers stay apart.

**AvDecision** holds the kernel code that `selinux_hide.c` copies in order to run it on the
backup: the text of a context to a context and back, the validity of a context, constraints
evaluated on a stack, multi-level dominance, type bounds, and the access vectors of a
decision. Names stand for the numbers of a policy, sets for access vectors. `Tables` is the
part of a policy that a decision reads.

**PolicyDb** has the edits of `sepolicy.c` as operators from a database to a database and a
result, each with its wildcards, its failing allocations and what it leaves behind when it
fails half way, and the two ways to copy a policy: written out and read back (the port), or
its tables duplicated (from 5.10 on). `add_type` enlarges three tables one after the other and
each success frees the old table: when the second or third fails, the policy still points to
freed memory (`freed`); when it fails before that, its tables are shorter than its count of
types (`torn`). A step that uses memory which is not the policy's sets `wild`. `len`, the size
the policy claims to need when it is written, is kept because the port's copy fails when it is
too small; `ImageSize`, what is written in fact, includes the bitmaps that `typeattribute` and
`permissive` enlarge without telling `len`.

**Sepolicy** is the policy in force. At boot the backup is taken and KernelSU's rules are
applied, then batches of commands arrive; each one copies, edits the copy and publishes it,
also when some commands failed. `RunOne` is one turn of the loop over a batch, in which the
allocation that fails, if any, is chosen by command and kind: a named table, a bitmap, the
copy. Decisions are cached in the AVC; apps ask through the hooks. A use of memory that is not
the policy's makes the state `undefined`, and the behaviour ends there. `log` and `failed` are
ghosts: the commands that were carried out, with what they were given, and those that an
allocation failed.

**SelinuxHide** is the feature over time, for three builds: `native` (5.10 on; the hooks are in
the patched kernel), `state` (4.17 to 5.9; a fake `selinux_state` whose policy the backup is
moved into) and `plain` (before). Slots are patched one at a time, each step may fail, the
kernel may lack a slot or the operations the port looks for (`found`), and processes are inside
the hooks meanwhile. A task that dies at the allocation which `ksu_selinux_hide_disable` does
not check keeps the mutex (`dead`).

**PolicyEdits** is who may touch the policy when: the boot stages, concurrent senders of
batches with the mutex as each build takes it, and the status page with the copy that apps
are shown.

**Supercall** is the driver's commands with their permission checks. Paths have a length, so
that the cuts of ADD and DEL stay apart. LIST counts, releases the lock, allocates, takes
the lock again and prints entry by entry; a new process walks the same list. Feature gets
include the uninitialised local. The log's file has its flag, its installation with each
failure, and its deferred release.

The `MC` modules hold the values that a `.cfg` cannot express.

## 4. Runs

| run | instance | shows |
|---|---|---|
| `event_queue` | 2 readers, 1 producer, the destroyer, limit 2, 3 events, records of 1 and 4 units and one too long, drop records of 2, buffers of 3 | counters and ranges, each event once, end of file, wake-ups; implements EventLog; a blocked read and destroy return |
| `allowlist` | 2 readers, 2 writers, 2 nodes, 2 uids, counter limit 1 | memory safety, counts, cached defaults, answers were current |
| `allowlist_live` | 1 reader, 1 writer, counter limit 2 | lookups return |
| `allowlist_file` | 2 uids, 3 kinds of profile, 2 changes, 2 reboots, first files of formats 1 to 3 or none, failing loads and writes | file follows table, reboot is faithful, nothing is invented, every change is saved in the end |
| `throne` | manager and an app, 2 appids, 2 users, 3 updates, 2 grants | the manager is known, no stale profile, drops are justified |
| `patch_text` | 4 CPUs, copies of 2 pieces, 2 patches | one master, coherent text, every patch ends |
| `root_grant` | 2 tasks, 3 profiles, 2 calls | references, audit, confinement |
| `root_grant_ksud_cap` | 1 task, 1 call | violated: see the finding |
| `sepolicy` | 2 stock policies of 5 types and 2 classes with little and much room to copy, both builds, 2 batches out of 19, one failing allocation, one decision or question at any point | decisions are what the commands mean, no half-made domain, room for the next copy, apps get the stock answers, no stale decision, no use of memory of others but after a failed `add_type` or `add_filename_trans` |
| `selinux_hide` | 3 builds, 2 processes in hooks, 4 switches | hooked calls find an original and a backup, the slots match the feature |
| `policy_edits` | 3 senders, 2 openers of the status page | no successful edit is lost, the copied page is stock |
| `supercall` | root and manager, 1 new process, paths below, at and beyond the caps | true replies, walks of one list, one reader of the log |

Why these bounds are enough to be interesting. Two readers of the queue contend for the
mutex, and three events overflow a queue of two while a drop record is being copied; a buffer takes two
small records, just takes a drop record with a small one, and is too small for a large one.
In the table one node is replaced by another while a reader is between finding it and
counting it, and with two nodes the limit of one also refuses an insertion. Two changes
of the table let the second fall before, inside and after the save of the first, and two
reboots let a crash follow a migration. Three updates allow remove, reinstall and remove
during the boot tracker's pass; two appids allow an appid to be reused by another
package. Four CPUs give an order of arrival with CPUs before and after the master, and a
second patch starts from the first one's counter. Two calls let one task be refused
after another, or its child, was confined. The nineteen batches hold every command with
its wildcards and its ways to fail, and two of them after KernelSU's rules let each meet
what another left behind; the types include attributes, a domain bounded by another and a
type with neither. One allocation fails, in any command of either batch or of KernelSU's rules;
when it is one of a bitmap, all the bitmaps of that command fail together. One query may come
anywhere between the batches; as it leaves the policy alone, `DecisionFollowsCommands` is evaluated
in the states without one. Four switches allow a failed enable after a complete cycle. Three
senders allow one to publish while another copies and a third fails. In the list's buffer
there is room for two entries of the estimated size, not for a third or for a longer one.

`Allowlist.cfg` uses symmetry over readers, writers and nodes; no liveness property is
checked with it. Deadlock is checked in the queue and in the table. Elsewhere it is off
because the bounded numbers of changes, boots, updates, patches, calls or batches run out, or
because the process that was followed is done, after which the model rightly stops.

Fairness. In `EventQueue` a thread inside a call goes on (weak), nobody has to make a
call, no signal has to come, and the mutex is strongly fair to those who wait: kernels
from 4.10 on hand it over to a starved waiter. On 4.9 a thread that reads in a loop could
in principle starve another one; the liveness results are for the case that it does not.
In `Allowlist` readers go on, since they cannot block inside RCU, and grace periods end;
writers may stop anywhere, even with the mutex, as they can sleep in `kzalloc`. In
`AllowlistFile` a system call that has changed the table goes on to ask for the save, and
pid 1 keeps returning to user space, where task works run. In `PatchText` every CPU inside
the callback goes on, because interrupts are off and `stop_machine` has all of them. The
other modules have safety properties only and need none.

What the properties leave out, because the code does not do it; nothing in the repository
promises it either.

- `EditsSerialised`: in the port a failing `copy_from_user` takes the path that unlocks
  `sel_mutex` before it was locked, so that somebody else's edit is no longer alone.
- `EventuallySaved`, `SavedWhenQuiet`: a save that could not be requested, opened or written whole
  (`lost`) is not made up for before the next change is saved. `SurvivesReboot` excuses a boot that could not
  read its file.
- `ManagerKnown`: packages change only after post-fs-data, which init runs before it starts zygote;
  the order of the mark and the scan therefore does not matter to it.
- `DropsAreJustified`: the list of a pass may be cut by a failed read, or old at its end; a profile
  that it lacks is dropped.
- `HookedCallsSafe`: a call that is inside a hook when the hook is removed and the backup
  released may find neither; nothing waits for it. A slot whose restoring patch failed
  keeps the hook (`stuck`).
- `HooksMatchFeature` says what a failed enable leaves in the slots. In `state` builds it
  also loses the backup, which had been moved, so that a later enable is refused.
- `FakeStatusStock`: the path for the init of Android 6 to 9 takes no copy, so that one is
  made when somebody opens the page, after the edit (`oldInit`); likewise when there was no memory,
  or SELinux was not enforcing, at the second stage (`calm`). And an open that has found
  post-fs-data not yet reported, and copies the page after it was (`fake.at = "data"`), may copy
  whatever the page shows by then.
- `DecisionFollowsCommands`: not once the node of a rule or a bit of an attribute could not be had,
  and not of a policy that points to freed tables.
- `NoStrayAccess`: a failure of the second or third table of `add_type` leaves the policy, which is
  published all the same, with freed tables; a first failure leaves too few slots, and the next
  copy, or a role's types, run past them. Entries of `add_filename_trans` are used unchecked.
  The property says that nothing else leads there.
- `RoomToCopy`: removing nodes takes 16 bytes from `len` where the image loses 12; new types,
  named transitions and new words of the bitmaps that `typeattribute` (attributes, names in
  constraints) and `permissive` enlarge add none; the next copy in the port can then fail. A second
  default for a named transition that exists is lost, and the count that was raised for it
  makes the next copy fail as well.
- `NoHalfAddedDomain` is about processes; the context of an object may name such a type.
- `RepliesTrue`: whether a feature number out of range is answered by an error or by "not
  supported" depends on an uninitialised local. When the list does not fit, the log says that it is
  truncated; the caller gets an error and no list.
- In `Supercall` ADD keeps one character more than DEL, so an entry of the greatest length is
  deleted by WIPE only, and LIST writes up to its own estimate, not up to the caller's
  buffer size.

Finding. `app_profile.c:177` says that CAP_DAC_READ_SEARCH is added because ksud is not
accessible otherwise; line 179 ORs the capability's number, 2, and so adds bit 1, which
is CAP_DAC_OVERRIDE. `KsudCapAdded` is violated by a profile without capabilities.

## 5. Proofs

Each theorem holds for every value of the constants that the named ASSUMEs of its module
allow: any number of threads, any sizes, any limits. TLC evaluates the ASSUMEs on the runs.
Where an assumption is more than a type it says what the code provides: a finite number of
readers (`Allowlist`), CPUs (`PatchText`) and tasks (`RootGrant`), so that they can be
counted; the markers for "nobody" and "nothing" differ from real values; a path is its stem
and its length, and an unknown feature number is not a known one (`Supercall`); in a policy
that init loads every type has its slot and the roles allow only types of the policy, and a
batch is a sequence, with nothing assumed of its commands (`Sepolicy`). `AllowlistProofs` and
`PolicyEditsProofs` each prove about two modules that model the same source file; the
specifications of `AllowlistFile` and `PolicyEdits` have names of their own (`FileSpec`,
`EditsSpec`) so that both can be extended.

None of the properties is inductive as it stands. The invariants that carry them:

**EventQueueProofs** (`TypeCorrect`, `PeekedNodeIsSafe`, `QueueIsBounded`, `DropRangeIsExact`,
`NoLostWakeup`, `EOFIsTheEnd`, `EveryEventOnce`, `ImplementsTheLog`). The invariant is built in
layers, each using the ones below. `ListInv` adds to the types who holds `read_lock` (`LockInv`:
the peeked node stays linked only because nobody else can unlink) and that the record being
copied fits (`RoomInv`: otherwise `count` would go below zero). `DropInv` says that drops are
in flight exactly while a reader copies their record, so that restoring them merges two exact
ranges, one before the other (`CountersMerge`). `WakeInv` says which waiters may miss a wake-up
without harm: those that still have a test before them. `EOFInv` follows a read that has
copied nothing. `OrderInv` says that the list is sorted by sequence number and that only a
closed queue is destroyed. `LogSteps` then reduces the many steps of the threads to eight
changes that the sequence numbers see (`Keeps`, `Loses`, `Moves`, `Reports`, `Delivers`,
`Discards`, `Closes`, `Nothing`), and two results follow from those eight. `OnceInv` divides
the numbers given out into handed out, waiting, lost and discarded, with no overlap between
two entries of the output. And `ImplementsTheLog` is the refinement, `Spec => LogSpec`: each of
the eight is a step of `EventLog` or leaves it alone; delivering is in order because the head
of a sorted list is its least number (`DeliversOrder`). `WakeupPending` is a safety property;
that the wake-up comes is liveness. `QueueBounded`, that the list respects its limit, is only
proved and has no run.

**AllowlistProofs** (`AllowlistTypes`, `NoLookupUsesFreedMemory`, `ReferencesAreExact`,
`SummariesAreExact`, `LookupsAreCurrent`). `LocalInv` says what the locals hold at each position
and that one writer is inside. `RefInv` adds to `RefCountExact` that a node has one owner: the
one uid it is linked under, or the one writer that unlinked it. `GraceInv` covers a
reader between the find and the reference: its node is live, or in a grace period that waits
for this reader. `SeenInv` follows what the entry of a lookup's uid has been during the call.
`CountInv` and `DefaultInv` say how far the counter and the cached default may be off while a
writer is in the middle. Moving a reference changes one node's count by one
(`ReferencesAreExact` rests on cardinalities of the sets of holders).

The second part of the module is about `AllowlistFile` (`FileTypeCorrect`,
`TheFileHasTheTable`, `ACleanRebootKeepsTheTable`, `NoProfileIsInvented`), for any finite set of
uids and any first files, also ones that name a uid twice. `Holds` says, without the fold that
the model computes the contents of a file with, which table an entry-by-entry load has built
after n entries: for each uid the last of its entries, migrated. The load follows it step by
step (`LoadInv`), the saved sequence satisfies it for the table it was made from, and it
determines the table, so that the three agree. `HeaderInv` says that a save in progress has
written the current version, which is why what it writes is not migrated again. `BeforeInv`
carries the table of a clean shutdown through the reboot, unless the load failed.
`EntriesWritten` says of a save that lost entries that it still invents none. `GrantInv` extends
`NothingInvented` from the table to every content that a crash may leave: a cut-off has only
entries that the whole content has, and a rewritten one only what the table had.

**ThroneProofs** (`ThroneTypeCorrect`, `TheManagerIsKnown`, `ProfilesGoWithTheirPackage`,
`NoProfileIsDroppedInVain`). Unless a read failed: `ListsCurrent`, the tracker that looks for the
manager has the list in force, because the package manager waits for the observer; `ManagerInv`,
at each position the appid is right or wrong in a way the rest of the pass corrects; `StaleInv`,
each profile whose package is gone is left to some tracker that will still drop it;
`AbsentInv`, what is missing from a tracker's list was absent during its pass. `Distinct` is
needed because profiles are dropped by appid and key while the manager is known by appid.

**PatchTextProofs** (`PatchTypes`, `OneMaster`, `TextIsCoherent`), for any finite non-empty set of
CPUs. `MasterAlone` is not inductive, because `cpu_count` alone does not say who has arrived.
`PatchInv` says that a patch is in one of four phases (Running, Gathering, Patching, Leaving),
what the counter is in each, and who executes the current text; `Counts` turns a full counter
into "everybody else spins".

**RootGrantProofs** (`RootGrantTypes`, `ReferencesBalance`, `EveryCallIsAudited`,
`FlaggedTasksKeepTheirCredentials`). `PlaceInv` says which of the new credentials, the profile
reference and the captured event exist at each position. References: every action gives one
task other credentials or another profile, `UsersMove`, `GroupsMove` and `ProfilesMove` say by
how much that changes the number of holders, and each `get` or `put` changes the counter by the
same. Audit: `LogInv` counts, the events issued and those captured and not yet sent make up
the ones due. `NoEscapeAgain` is a property of steps: a flagged task is never at a position that
commits.

**PolicyEditsProofs** (`ReportedEditsStay`, `AppsSeeTheStockStatus`). `MutexInv`: until somebody
released the mutex for another, one sender is between lock and unlock, its copy is the policy
in force, and what was published stays. `LoadInv` orders the copy of the status page before the
load of the rules.

The second part of the module is about `Sepolicy` (`NoDecisionOutlivesItsPolicy`,
`AppsAreToldTheStockPolicy`, `NoProcessOutsideTheTables`, `OnlyFailedTypesStray`). `BackupInv`: until the rules are applied
the policy is the stock one, so the backup, taken before them, agrees with it in everything
that an answer reads (`Alike`; the two ways to copy may differ in `len`), and the sids of the
backup's table keep their contexts while it grows (`SidFor`). Hence an answer depends on neither
the edits nor the earlier queries. `Shaped`: the types that a role allows have their slots. Each
kind of edit leaves roles and slots alone (`Beside`) or, in `add_type`, adds to both at once, so
it is kept by every command, whichever allocation fails. That it is kept by a whole batch is an
induction along the loop of `handle_sepolicy`. The induction principle is applied to sets of
numbers (`NatSet`, from the library's well-foundedness of `<`), which needs no operator as a
parameter: first that a run over n commands exists (`RunExists`), as the fold is defined by a
choice, then that its database is `Shaped` after each of them (`RunBatchRuns`). By the same induction a
policy is `Whole` (each type has its slot, the tables are its own) until a command is to blame,
which `StrayInv` carries from batch to batch: every command but `type`, `attr` and
`type_transition` leaves types and tables alone (`Tame`), whichever of its allocations fails, and
`add_type` fails cleanly unless one of its own is refused (`AddTypeWhole`).

**SelinuxHideProofs** (`HooksFollowTheFeature`, `CallsThroughHooksEndWell`), for any number of
calls and switches. `SlotsInv` says what each slot holds at each point of enabling and
unhooking, also after a failure; `PolicyInv` that there is a live backup whenever a hook may be
in place; `CallInv` that a call whose hook was not removed is in a slot that still has it. `Done` is what a slot
holds once it was patched, or was not there to patch; `DeadInv`, that all are `Done` when a task
died while disabling.
From a restoring patch that failed on (`stuck`) nothing is claimed, as in the properties.

**SupercallProofs** (`UnmountsFollowTheList`, `ReaderNeverLockedOut`, `CallersAreToldTheTruth`).
`WalkInv`: paths are listed once, so a walker's entry is its place in the list, the list is
the one it locked, and what it has printed or tried is what is behind it. `MountInv` follows who
may reach the unmounts. `RoomInv`: while entries are as short as estimated, the room for those
to come is left, which makes "no room" a truthful answer.

`TypeOK` of `Allowlist`, `Throne`, `PatchText` and `RootGrant`, like `FileTypeOK` and `QueueBounded`, is
proved and has no run.

Only model-checked. Liveness under fairness (`ReadReturns`, `DestroyReturns`, `LookupReturns`,
`EventuallySaved`, `PatchReturns`), which is out of the prover's reach. `DecisionFollowsCommands`
of `Sepolicy`: it compares two computations, the vectors that folds over nodes, attributes and
constraint stacks give and the meaning of the commands as sets, for every input. `RoomToCopy`
of `Sepolicy`: it depends on the sizes of the stock policy (there must be room for KernelSU's
own type) and on sums over tables.

## 6. Not modelled

Parts: the read proxies of `runtime/ksud.c` and the safe-mode key counter; the file wrapper,
which forwards forty methods and keeps no state; adb root and the path rewriting of the su
hooks, which are layout of strings on a user stack; mount namespaces, SELinux domain ids,
seccomp and the driver file's installation by task work, which are sequences of kernel
calls; su-session files; commands that only read; apk signatures, KPM stubs, symbol lookup,
compatibility wrappers, initialisation and build scripts. `ksud` itself is not in this
repository. `ksu_lsm_hook` and its counterpart are called and not defined in it.

Inside the modelled parts: weak memory (the code's barriers, locks and RCU give the
orders that the models assume, except that text and instruction stream are separate in
`PatchText`); the page-table walk and the call scanner of the patcher; the directory walk
that looks for the manager's apk, and its signature check, which are one step with a
verdict; SUSFS variants, also that of the SELinux port; late loading of the driver;
conditional rules and the extended permissions of a decision, which no edit here touches or
no caller asks for; the moment between the publishing of a policy and the reset of the AVC, and
decisions that are being computed meanwhile; what happens after memory of others was used
(`Sepolicy` stops there), or half an entry was written to the allowlist; hash chains and the layout of bitmaps in a policy; profile
contents beyond what the code branches on; 64-bit sequence numbers, which do not wrap in
practice; two reports of one boot stage at once, for which the once-only flags are plain
variables (each model takes a stage once); a manager reinstalled with another appid within
one update; kernel version differences other than where a module says so. `non_gki/` is
compiled below 5.10 only, `selinux/` and `feature/selinux_hide.c` from 5.10 on, and the
modules follow that.
