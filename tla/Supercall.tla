------------------------------ MODULE Supercall ------------------------------
(***************************************************************************)
(* kernel/supercall/dispatch.c with the state its commands share with the  *)
(* rest of the kernel: the umount list and its reader at setresuid         *)
(* (feature/kernel_umount.c, hook/lsm_hook.c), the feature registry        *)
(* (policy/feature.c) and the reader's file of the su log (sulog/fd.c).    *)
(*                                                                         *)
(* A path is a record of a stem and a length; cutting it keeps the stem.   *)
(* The sizes of LIST_TRY_UMOUNT's buffer are constants in any unit.        *)
(***************************************************************************)
EXTENDS Integers, Sequences

CONSTANTS
  Callers, Roots, Managers,   \* who calls the driver; uid 0; the manager app
  Children,                   \* processes that zygote forks, or that su started
  Paths, Flags,               \* what ADD may be given
  AddCap, DelCap,             \* characters kept by ADD (255) and DEL (254)
  HeadLen, EstHeader, EstEntry, MinOut, MaxOut,   \* sizes of LIST's buffer
  Features, Unknown           \* feature ids, and the ones from KSU_FEATURE_MAX on

ASSUME CallersAssumption == Roots \subseteq Callers /\ Managers \subseteq Callers
ASSUME SizesAssumption == /\ {HeadLen, EstHeader, EstEntry, MinOut, MaxOut} \subseteq Nat
                          /\ HeadLen < EstHeader /\ HeadLen <= MinOut /\ MinOut <= MaxOut
ASSUME PathsAssumption ==
  /\ {AddCap, DelCap} \subseteq Nat
  /\ \A p \in Paths : p = [stem |-> p.stem, len |-> p.len] /\ p.len \in Nat
ASSUME FeaturesAssumption == Features \cap Unknown = {}

None == [none |-> TRUE]

VARIABLES
  mount_list,                 \* entries [path, flags], the newest first
  holders,                    \* who holds mount_list_lock for reading
  cur,                        \* holder -> the entry it is at, None at the end
  pc,                         \* caller or child -> its position
  out,                        \* lister -> the room left in its buffer and the entries in it
  module_mounted, value,      \* ksu_module_mounted; feature -> what was set
  handlers,                   \* the features with a handler
  mounts, child,              \* child -> what is mounted for it; where it is from and what uid it takes
  reply,                      \* what the last step replied to a command
  sulog_active, files, releasing,   \* ksu_sulog_fd_active; the log's open files; those put but not released
  counted, locked, tried      \* ghost: the list when it was counted, and when the lock was taken; the paths tried

listVars == <<mount_list, holders, cur, out, counted, locked>>
childVars == <<mounts, child, tried>>
featureVars == <<module_mounted, value, handlers>>
sulogVars == <<sulog_active, files, releasing>>
vars == <<listVars, childVars, featureVars, sulogVars, pc, reply>>

\* The new uid: an isolated process or an app that is not to see the modules,
\* against the manager, an app with root, one whose profile keeps them, the system.
Kinds == {"hide", "show"}

\* The caller of setresuid; zygote_next and what su started share init's mounts.
Parents == {"zygote", "zygote_next or su"}

NoOutput == [room |-> 0, text |-> <<>>]

Init ==
  /\ mount_list = <<>> /\ holders = {}
  /\ cur = [p \in Callers \cup Children |-> None]
  /\ pc = [p \in Callers \cup Children |-> "idle"]
  /\ out = [c \in Callers |-> NoOutput]
  /\ module_mounted = FALSE /\ handlers \in SUBSET Features
  /\ value = [f \in Features |-> 1]
  /\ mounts = [k \in Children |-> Paths] /\ child = [k \in Children |-> None]
  /\ tried = [k \in Children |-> {}]
  /\ reply = None
  /\ sulog_active = FALSE /\ files = 0 /\ releasing = 0
  /\ counted = [c \in Callers |-> <<>>] /\ locked = [p \in Callers \cup Children |-> <<>>]

-----------------------------------------------------------------------------
(* The command table: a handler runs if the caller passes its check.        *)

ManagerOrRoot(c) == pc[c] = "idle" /\ c \in Roots \cup Managers
OnlyRoot(c) == pc[c] = "idle" /\ c \in Roots

\* Arguments that cannot be read or make no sense, and no memory for an entry.
Refused(c) ==
  /\ ManagerOrRoot(c)
  /\ reply' = [op |-> "error"]
  /\ UNCHANGED <<listVars, childVars, featureVars, sulogVars, pc>>

-----------------------------------------------------------------------------
(* add_try_umount.  down_write waits for every reader.                      *)

Cut(path, cap) == [path EXCEPT !.len = IF @ > cap THEN cap ELSE @]

\* mutant: the writer does not wait for those who walk the list
WriteLock_ignored == TRUE

WriteLock == holders = {}

Write(list, r) ==
  /\ WriteLock
  /\ mount_list' = list
  /\ reply' = r
  /\ UNCHANGED <<holders, cur, out, counted, locked, childVars, featureVars, sulogVars, pc>>

Wipe(c) == ManagerOrRoot(c) /\ Write(<<>>, [op |-> "ok"])

Listed(path) == \E i \in DOMAIN mount_list : mount_list[i].path = path

Add(c, path, flags) ==
  /\ ManagerOrRoot(c)
  /\ LET kept == Cut(path, AddCap) IN
       IF Listed(kept) THEN Write(mount_list, [op |-> "error"])
       ELSE Write(<<[path |-> kept, flags |-> flags]>> \o mount_list, [op |-> "ok"])

\* list_del of what matches; that is one entry, as Add refuses a path that is listed.
Without(path) ==
  IF ~Listed(path) THEN mount_list
  ELSE LET i == CHOOSE j \in DOMAIN mount_list : mount_list[j].path = path
       IN  SubSeq(mount_list, 1, i - 1) \o SubSeq(mount_list, i + 1, Len(mount_list))

Del(c, path) == ManagerOrRoot(c) /\ Write(Without(Cut(path, DelCap)), [op |-> "ok"])

-----------------------------------------------------------------------------
(* A walk along the list under down_read.                                   *)

First == IF mount_list = <<>> THEN None ELSE Head(mount_list)

After(e) ==
  LET i == CHOOSE j \in DOMAIN mount_list : mount_list[j] = e
  IN  IF i = Len(mount_list) THEN None ELSE mount_list[i + 1]

StartWalk(p) ==
  /\ holders' = holders \cup {p}
  /\ cur' = [cur EXCEPT ![p] = First]
  /\ locked' = [locked EXCEPT ![p] = mount_list]

Step(p) == cur' = [cur EXCEPT ![p] = After(cur[p])] /\ UNCHANGED holders

EndWalk(p) == holders' = holders \ {p} /\ cur' = [cur EXCEPT ![p] = None]

-----------------------------------------------------------------------------
(* list_try_umount: the entries are counted, the lock released, a buffer    *)
(* allocated, and the entries printed under the lock taken again.           *)

Clamp(n) == IF n < MinOut THEN MinOut ELSE IF n > MaxOut THEN MaxOut ELSE n

OutputSize(n) == Clamp(EstHeader + n * EstEntry)

ListCount(c) ==
  /\ ManagerOrRoot(c)
  /\ out' = [out EXCEPT ![c] = [room |-> OutputSize(Len(mount_list)) - HeadLen, text |-> <<>>]]
  /\ counted' = [counted EXCEPT ![c] = mount_list]
  /\ pc' = [pc EXCEPT ![c] = "sized"]
  /\ reply' = None
  /\ UNCHANGED <<mount_list, holders, cur, locked, childVars, featureVars, sulogVars>>

Forget(c) ==
  /\ out' = [out EXCEPT ![c] = NoOutput]
  /\ counted' = [counted EXCEPT ![c] = <<>>]
  /\ locked' = [locked EXCEPT ![c] = <<>>]

ListNoMemory(c) ==
  /\ pc[c] = "sized"
  /\ reply' = [op |-> "error"]
  /\ pc' = [pc EXCEPT ![c] = "idle"]
  /\ Forget(c)
  /\ UNCHANGED <<mount_list, holders, cur, childVars, featureVars, sulogVars>>

ListLock(c) ==
  /\ pc[c] = "sized"
  /\ StartWalk(c)
  /\ pc' = [pc EXCEPT ![c] = "printing"]
  /\ reply' = None
  /\ UNCHANGED <<mount_list, out, counted, childVars, featureVars, sulogVars>>

\* The line of an entry, its flags and separators counted as one.
Written(e) == e.path.len + 1

ListPrint(c) ==
  /\ pc[c] = "printing" /\ cur[c] # None
  /\ Written(cur[c]) < out[c].room
  /\ out' = [out EXCEPT ![c] = [room |-> @.room - Written(cur[c]), text |-> Append(@.text, cur[c])]]
  /\ Step(c)
  /\ reply' = None
  /\ UNCHANGED <<mount_list, counted, locked, childVars, featureVars, sulogVars, pc>>

\* What the caller gets when the walk ended, at the last entry or before one
\* that does not fit; counted and seen are ghosts for RepliesTrue.
Result(op, c) == [op |-> op, text |-> out[c].text, counted |-> counted[c], seen |-> locked[c]]

\* mutant: a full buffer is returned as if it were the list
Returned_truncated(c) == Result("list", c)

Returned(c) == Result(IF cur[c] = None THEN "list" ELSE "nospace", c)

ListReturn(c) ==
  /\ pc[c] = "printing"
  /\ cur[c] # None => Written(cur[c]) >= out[c].room
  /\ \/ reply' = Returned(c)
     \/ cur[c] = None /\ reply' = [op |-> "error"]   \* copy_to_user
  /\ EndWalk(c)
  /\ pc' = [pc EXCEPT ![c] = "idle"]
  /\ Forget(c)
  /\ UNCHANGED <<mount_list, childVars, featureVars, sulogVars>>

-----------------------------------------------------------------------------
(* The uid change of a new process, and ksu_handle_umount.                  *)

\* ksu_task_fix_setuid, and handle_zygote_setresuid with SUSFS: the manager
\* returns early, zygote's isolated processes and the apps that are to be kept
\* from seeing the modules go on; zygote_next is still in init's namespace.
\* ksu_cred is there: it is made at init's second stage, before zygote.
Unmounts(from, uid) ==
  /\ module_mounted /\ value["kernel_umount"] # 0
  /\ uid = "hide"
  /\ from = "zygote"

Setresuid(k, from, uid) ==
  /\ pc[k] = "idle"
  /\ child' = [child EXCEPT ![k] = [from |-> from, uid |-> uid]]
  /\ pc' = [pc EXCEPT ![k] = IF Unmounts(from, uid) THEN "unmounts" ELSE "done"]
  /\ reply' = None
  /\ UNCHANGED <<listVars, mounts, tried, featureVars, sulogVars>>

BeginUmount(k) ==
  /\ pc[k] = "unmounts"
  /\ StartWalk(k)
  /\ pc' = [pc EXCEPT ![k] = "walking"]
  /\ reply' = None
  /\ UNCHANGED <<mount_list, out, counted, childVars, featureVars, sulogVars>>

\* try_umount: a path that is gone, or where nothing is mounted, is passed
\* over; path_umount may refuse.
TryUmount(k) ==
  /\ pc[k] = "walking" /\ cur[k] # None
  /\ \E gone \in SUBSET {cur[k].path} : mounts' = [mounts EXCEPT ![k] = @ \ gone]
  /\ tried' = [tried EXCEPT ![k] = @ \cup {cur[k].path}]
  /\ Step(k)
  /\ reply' = None
  /\ UNCHANGED <<mount_list, out, counted, locked, child, featureVars, sulogVars, pc>>

EndUmount(k) ==
  /\ pc[k] = "walking" /\ cur[k] = None
  /\ EndWalk(k)
  /\ pc' = [pc EXCEPT ![k] = "done"]
  /\ reply' = None
  /\ UNCHANGED <<mount_list, out, counted, locked, childVars, featureVars, sulogVars>>

-----------------------------------------------------------------------------
(* Features and events.                                                     *)

\* do_report_event of EVENT_MODULE_MOUNTED
ModuleMounted(c) ==
  /\ OnlyRoot(c)
  /\ module_mounted' = TRUE
  /\ reply' = [op |-> "ok"]
  /\ UNCHANGED <<listVars, childVars, value, handlers, sulogVars, pc>>

\* ksu_get_feature: its error, and what it leaves in *supported.  For an id
\* out of range that is whatever was on do_get_feature's stack.  A handler
\* without a getter, or whose getter fails, would be an error too: every handler
\* of the driver has one, and each of them returns 0.
Lookup(f) ==
  IF f \in Unknown THEN [err : {TRUE}, supported : BOOLEAN]
  ELSE [err : {FALSE}, supported : {f \in handlers}]

DoGetFeature(c, f) ==
  /\ ManagerOrRoot(c)
  /\ \E l \in Lookup(f) :
       reply' = IF l.err /\ l.supported THEN [op |-> "error"]
                ELSE [op |-> "feature", id |-> f, supported |-> l.supported]
  /\ UNCHANGED <<listVars, childVars, featureVars, sulogVars, pc>>

\* ksu_set_feature; the handler may fail, before it has set the value or (as
\* that of selinux_hide) after.
DoSetFeature(c, f, v) ==
  /\ ManagerOrRoot(c)
  /\ \/ /\ f \in handlers
        /\ value' = [value EXCEPT ![f] = v]
        /\ reply' \in {[op |-> "ok"], [op |-> "error"]}
     \/ reply' = [op |-> "error"] /\ UNCHANGED value
  /\ UNCHANGED <<listVars, childVars, module_mounted, handlers, sulogVars, pc>>

-----------------------------------------------------------------------------
(* The reader's file of the su log, under ksu_sulog_fd_lock.                *)

\* mutant: the flag is set before the file is made, and stays
InstallSulogFd_early(made) ==
  /\ ~sulog_active
  /\ sulog_active' = TRUE
  /\ files' = files + (IF made THEN 1 ELSE 0)

\* made: a descriptor and a file were to be had.
InstallSulogFd(made) ==
  /\ ~sulog_active
  /\ sulog_active' = made
  /\ files' = files + (IF made THEN 1 ELSE 0)

DoGetSulogFd(c) ==
  /\ OnlyRoot(c)
  /\ \/ \E made \in BOOLEAN :
          InstallSulogFd(made) /\ reply' = [op |-> IF made THEN "ok" ELSE "error"]
     \/ sulog_active /\ reply' = [op |-> "error"] /\ UNCHANGED <<sulog_active, files>>
  /\ UNCHANGED <<listVars, childVars, featureVars, releasing, pc>>

\* The last descriptor is closed; the release runs later, from task work.
SulogPut ==
  /\ files > 0
  /\ files' = files - 1 /\ releasing' = releasing + 1
  /\ reply' = None
  /\ UNCHANGED <<listVars, childVars, featureVars, sulog_active, pc>>

SulogRelease ==
  /\ releasing > 0
  /\ releasing' = releasing - 1 /\ sulog_active' = FALSE
  /\ reply' = None
  /\ UNCHANGED <<listVars, childVars, featureVars, files, pc>>

-----------------------------------------------------------------------------
ListCommands(c) ==
  \/ Refused(c) \/ Wipe(c)
  \/ ListCount(c) \/ ListNoMemory(c) \/ ListLock(c) \/ ListPrint(c) \/ ListReturn(c)
  \/ \E path \in Paths : Del(c, path) \/ \E flags \in Flags : Add(c, path, flags)

OtherCommands(c) ==
  \/ ModuleMounted(c) \/ DoGetSulogFd(c)
  \/ \E f \in Features \cup Unknown : DoGetFeature(c, f)
  \/ \E f \in Features, v \in {0, 1} : DoSetFeature(c, f, v)

NewProcess(k) ==
  \/ \E from \in Parents, uid \in Kinds : Setresuid(k, from, uid)
  \/ BeginUmount(k) \/ TryUmount(k) \/ EndUmount(k)

Next ==
  \/ \E c \in Callers : ListCommands(c) \/ OtherCommands(c)
  \/ \E k \in Children : NewProcess(k)
  \/ SulogPut \/ SulogRelease

Spec == Init /\ [][Next]_vars

-----------------------------------------------------------------------------
Entries(list) == {list[i] : i \in DOMAIN list}

\* What a successful command tells its caller is true.  LIST_TRY_UMOUNT returns
\* the whole list, as it was at one moment of the call and in its order, and
\* fails for want of room only if the list changed after it was counted, an entry
\* is longer than estimated or the estimate was capped.  GET_FEATURE claims
\* support exactly for the features that have a handler, whatever the
\* uninitialised local of do_get_feature held.
RepliesTrue ==
  /\ reply # None /\ reply.op = "list" => reply.text = reply.seen
  /\ reply # None /\ reply.op = "nospace" =>
       \/ reply.counted # reply.seen
       \/ \E e \in Entries(reply.seen) : Written(e) > EstEntry
       \/ EstHeader + Len(reply.counted) * EstEntry > MaxOut
  /\ reply # None /\ reply.op = "feature" => reply.supported = (reply.id \in handlers)

\* Whoever walks the list is at an entry that is still linked.  A new process
\* tries exactly the entries of one moment, loses no other mount, and a process
\* that zygote did not fork, which shares init's mounts, loses none.
UmountFollowsList ==
  /\ \A p \in holders : cur[p] # None => cur[p] \in Entries(mount_list)
  /\ \A k \in Children :
       /\ pc[k] = "done" => tried[k] = {e.path : e \in Entries(locked[k])}
       /\ Paths \ tried[k] \subseteq mounts[k]
       /\ child[k] # None /\ child[k].from # "zygote" => mounts[k] = Paths

\* The log has at most one reader's file, counting one whose release is still
\* to run, and ksu_sulog_fd_active says whether it has: no failure locks the
\* log's reader out.
SulogExact ==
  files + releasing = IF sulog_active THEN 1 ELSE 0

=============================================================================
