------------------------------ MODULE Allowlist ------------------------------
(***************************************************************************)
(* kernel/policy/allowlist.c: the table of app profiles.  Writers change   *)
(* it under allowlist_mutex; readers find a profile under RCU, take a      *)
(* reference with kref_get_unless_zero and use it after the RCU section.   *)
(*                                                                         *)
(* A perm_data is a node with a reference count.  The step that makes a    *)
(* new node visible (hlist_replace_rcu, hlist_del_rcu) and the kref_put of *)
(* the old one are separate actions, because lock-free readers run between *)
(* them.  Node identities are never used twice, so that a stale pointer    *)
(* can be told from a good one; running out of them is kzalloc failing.    *)
(***************************************************************************)
EXTENDS Integers, FiniteSets

CONSTANTS
  Readers,       \* threads that look profiles up
  Writers,       \* threads in ksu_set_app_profile or ksu_prune_allowlist
  Uids,          \* curr_uid of the profiles
  PreservedUids, \* KSU_APP_PROFILE_PRESERVE_UID and WEBVIEW_ZYGOTE_UID
  DefaultUid,    \* KSU_APP_PROFILE_PRESERVE_UID: the default non-root profile
  Profiles,      \* records [allow_su, use_default, umount_modules]
  NodeIds,       \* bound of the model: allocations of perm_data
  CountMax,      \* U16_MAX
  Null           \* no node, no profile, nobody

ASSUME ConstantsAssumption ==
  /\ PreservedUids \subseteq Uids
  /\ DefaultUid \in PreservedUids
  /\ Profiles \subseteq [allow_su : BOOLEAN, use_default : BOOLEAN, umount_modules : BOOLEAN]
  /\ IsFiniteSet(Readers)
  /\ CountMax \in Nat
  /\ Null \notin NodeIds \cup Profiles \cup Writers

VARIABLES
  allow_list,       \* uid -> the linked node, or Null
  allow_list_count,
  default_umount,   \* default_non_root_profile.umount_modules
  allowlist_mutex,  \* Null or the writer that holds it
  profile,          \* node -> its contents, Null before it is allocated
  ref,              \* node -> reference count
  mem,              \* node -> "unused", "live", "grace" (kfree_rcu) or "freed"
  grace,            \* node -> readers its grace period waits for
  wpc, wop,         \* writers: position; uid, profile or uids of the operation
  old,              \* writers: the node that was unlinked and is to be put
  rpc, rop,         \* readers: position; kind of lookup and uid
  ptr,              \* readers: the node they point at
  result,           \* readers: what the lookup decided
  seen              \* ghost: what the uid's entry was since the lookup began

writerVars == <<wpc, wop, old>>
readerVars == <<rpc, rop, ptr, result>>
tableVars == <<allow_list, allow_list_count, default_umount, allowlist_mutex>>
memVars == <<profile, ref, mem, grace>>
vars == <<tableVars, memVars, writerVars, readerVars, seen>>

NoOp == [uid |-> Null, profile |-> Null, todo |-> {}]
NoLookup == [kind |-> Null, uid |-> Null]
Lookups == {"app", "root", "allow"}

\* The profile that the table holds for a uid
Entry(uid) == IF allow_list[uid] = Null THEN Null ELSE profile[allow_list[uid]]

\* Readers inside an RCU section
InRcu == {r \in Readers : rpc[r] \in {"find", "deref", "get", "exit"}}

Init ==
  /\ allow_list = [u \in Uids |-> Null]
  /\ allow_list_count = 0
  /\ default_umount = TRUE
  /\ allowlist_mutex = Null
  /\ profile = [n \in NodeIds |-> Null]
  /\ ref = [n \in NodeIds |-> 0]
  /\ mem = [n \in NodeIds |-> "unused"]
  /\ grace = [n \in NodeIds |-> {}]
  /\ wpc = [w \in Writers |-> "idle"]
  /\ wop = [w \in Writers |-> NoOp]
  /\ old = [w \in Writers |-> Null]
  /\ rpc = [r \in Readers |-> "idle"]
  /\ rop = [r \in Readers |-> NoLookup]
  /\ ptr = [r \in Readers |-> Null]
  /\ result = [r \in Readers |-> Null]
  /\ seen = [r \in Readers |-> {}]

-----------------------------------------------------------------------------
(* Memory: kref and kfree_rcu *)

\* mutant: the memory is freed without waiting for readers
PutNode_kfree(n) ==
  /\ ref' = [ref EXCEPT ![n] = @ - 1]
  /\ mem' = [mem EXCEPT ![n] = IF ref[n] = 1 THEN "grace" ELSE @]
  /\ UNCHANGED grace

\* put_perm_data: the last reference hands the node to kfree_rcu, which waits
\* for the readers that are in an RCU section now.
PutNode(n) ==
  /\ ref' = [ref EXCEPT ![n] = @ - 1]
  /\ mem' = [mem EXCEPT ![n] = IF ref[n] = 1 THEN "grace" ELSE @]
  /\ grace' = [grace EXCEPT ![n] = IF ref[n] = 1 THEN InRcu ELSE @]

\* kzalloc, kref_init and the copy of the profile
AllocNode(n, p) ==
  /\ mem[n] = "unused"
  /\ mem' = [mem EXCEPT ![n] = "live"]
  /\ ref' = [ref EXCEPT ![n] = 1]
  /\ profile' = [profile EXCEPT ![n] = p]
  /\ UNCHANGED grace

\* The grace period ends and the memory goes back to the allocator.
FreeNode(n) ==
  /\ mem[n] = "grace"
  /\ grace[n] = {}
  /\ mem' = [mem EXCEPT ![n] = "freed"]
  /\ UNCHANGED <<tableVars, profile, ref, grace, writerVars, readerVars, seen>>

\* Readers that are looking a uid up see that its entry became e.
Observe(uid, e) ==
  seen' = [r \in Readers |->
             IF r \in InRcu /\ rop[r].uid = uid THEN seen[r] \cup {e} ELSE seen[r]]

-----------------------------------------------------------------------------
(* Writers *)

\* mutant: the set path goes on without the mutex
TakeMutex_skipped(w) == UNCHANGED allowlist_mutex

TakeMutex(w) == allowlist_mutex = Null /\ allowlist_mutex' = w

\* ksu_set_app_profile was given a profile that profile_valid accepts.
SetLock(w, uid, p) ==
  /\ wpc[w] = "idle"
  /\ TakeMutex(w)
  /\ wpc' = [wpc EXCEPT ![w] = "set"]
  /\ wop' = [wop EXCEPT ![w] = [uid |-> uid, profile |-> p, todo |-> {}]]
  /\ UNCHANGED <<allow_list, allow_list_count, default_umount, memVars, old, readerVars, seen>>

Unlock(w) ==
  /\ allowlist_mutex' = Null
  /\ wpc' = [wpc EXCEPT ![w] = "idle"]
  /\ wop' = [wop EXCEPT ![w] = NoOp]

\* The profile of DefaultUid is the default for apps without one.
UpdateDefault(w) ==
  default_umount' = IF wop[w].uid = DefaultUid THEN wop[w].profile.umount_modules
                                               ELSE default_umount

\* The uid has a profile: replace it in place, then put the old node.
SetReplace(w, n) ==
  LET uid == wop[w].uid IN
  /\ wpc[w] = "set"
  /\ allow_list[uid] # Null
  /\ AllocNode(n, wop[w].profile)
  /\ allow_list' = [allow_list EXCEPT ![uid] = n]
  /\ old' = [old EXCEPT ![w] = allow_list[uid]]
  /\ wpc' = [wpc EXCEPT ![w] = "put"]
  /\ Observe(uid, wop[w].profile)
  /\ UNCHANGED <<allow_list_count, default_umount, allowlist_mutex, wop, readerVars>>

SetPut(w) ==
  /\ wpc[w] = "put"
  /\ PutNode(old[w])
  /\ old' = [old EXCEPT ![w] = Null]
  /\ UpdateDefault(w)
  /\ Unlock(w)
  /\ UNCHANGED <<allow_list, allow_list_count, profile, readerVars, seen>>

CountFull == allow_list_count = CountMax

\* The uid has no profile yet.
SetInsert(w, n) ==
  LET uid == wop[w].uid IN
  /\ wpc[w] = "set"
  /\ allow_list[uid] = Null
  /\ ~CountFull
  /\ AllocNode(n, wop[w].profile)
  /\ allow_list' = [allow_list EXCEPT ![uid] = n]
  /\ allow_list_count' = allow_list_count + 1
  /\ UpdateDefault(w)
  /\ Observe(uid, wop[w].profile)
  /\ Unlock(w)
  /\ UNCHANGED <<old, readerVars>>

\* -ENOMEM, or -E2BIG for a new profile when the table is full
SetFail(w) ==
  /\ wpc[w] = "set"
  /\ Unlock(w)
  /\ UNCHANGED <<allow_list, allow_list_count, default_umount, memVars, old, readerVars, seen>>

\* ksu_prune_allowlist after boot: the uids in gone have no package any more.
PruneLock(w, gone) ==
  /\ wpc[w] = "idle"
  /\ TakeMutex(w)
  /\ wpc' = [wpc EXCEPT ![w] = "prune"]
  /\ wop' = [wop EXCEPT ![w] = [NoOp EXCEPT !.todo = gone \ PreservedUids]]
  /\ UNCHANGED <<allow_list, allow_list_count, default_umount, memVars, old, readerVars, seen>>

\* mutant: the node is put and left in the table
PruneUnlink_stays(w) ==
  /\ wpc[w] = "prune"
  /\ \E uid \in wop[w].todo :
       /\ allow_list[uid] # Null
       /\ old' = [old EXCEPT ![w] = allow_list[uid]]
       /\ wop' = [wop EXCEPT ![w].todo = @ \ {uid}]
  /\ wpc' = [wpc EXCEPT ![w] = "prunePut"]
  /\ UNCHANGED <<tableVars, memVars, readerVars, seen>>

\* One turn of the loop: hlist_del_rcu, then put and --allow_list_count.
PruneUnlink(w) ==
  /\ wpc[w] = "prune"
  /\ \E uid \in wop[w].todo :
       /\ allow_list[uid] # Null
       /\ allow_list' = [allow_list EXCEPT ![uid] = Null]
       /\ old' = [old EXCEPT ![w] = allow_list[uid]]
       /\ wop' = [wop EXCEPT ![w].todo = @ \ {uid}]
       /\ Observe(uid, Null)
  /\ wpc' = [wpc EXCEPT ![w] = "prunePut"]
  /\ UNCHANGED <<allow_list_count, default_umount, allowlist_mutex, memVars, readerVars>>

PrunePut(w) ==
  /\ wpc[w] = "prunePut"
  /\ PutNode(old[w])
  /\ old' = [old EXCEPT ![w] = Null]
  /\ allow_list_count' = allow_list_count - 1
  /\ wpc' = [wpc EXCEPT ![w] = "prune"]
  /\ UNCHANGED <<allow_list, default_umount, allowlist_mutex, profile, wop, readerVars, seen>>

PruneUnlock(w) ==
  /\ wpc[w] = "prune"
  /\ \A uid \in wop[w].todo : allow_list[uid] = Null
  /\ Unlock(w)
  /\ UNCHANGED <<allow_list, allow_list_count, default_umount, memVars, old, readerVars, seen>>

-----------------------------------------------------------------------------
(* Readers: ksu_get_root_profile ("root"), __ksu_is_allow_uid ("allow") and *)
(* ksu_get_app_profile ("app") with its callers ksu_uid_should_umount and  *)
(* do_get_app_profile, which put the RCU section around it                 *)

Goto(r, l) == rpc' = [rpc EXCEPT ![r] = l]

\* rcu_read_lock.  A uid of the system, the manager's and, if allow_shell, the
\* shell's are answered before it, without the table; such lookups are left out.
LookupBegin(r, kind, uid) ==
  /\ rpc[r] = "idle"
  /\ rop' = [rop EXCEPT ![r] = [kind |-> kind, uid |-> uid]]
  /\ seen' = [seen EXCEPT ![r] = {Entry(uid)}]
  /\ Goto(r, "find")
  /\ UNCHANGED <<tableVars, memVars, writerVars, ptr, result>>

\* The walk of the hash chain, from its start at every retry
LookupFind(r) ==
  /\ rpc[r] = "find"
  /\ ptr' = [ptr EXCEPT ![r] = allow_list[rop[r].uid]]
  /\ Goto(r, IF ptr'[r] = Null THEN "exit" ELSE "deref")
  /\ result' = [result EXCEPT ![r] = Null]
  /\ UNCHANGED <<tableVars, memVars, writerVars, rop, seen>>

\* Does the kind of lookup need a reference to a node with profile p?
NeedsReference(kind, p) ==
  \/ kind = "app"
  \/ kind = "root" /\ p.allow_su /\ ~p.use_default

\* The profile is read through the pointer.
LookupDeref(r) ==
  LET p == profile[ptr[r]] IN
  /\ rpc[r] = "deref"
  /\ result' = [result EXCEPT ![r] = p]
  /\ IF NeedsReference(rop[r].kind, p)
       THEN Goto(r, "get") /\ UNCHANGED ptr
       ELSE Goto(r, "exit") /\ ptr' = [ptr EXCEPT ![r] = Null]
  /\ UNCHANGED <<tableVars, memVars, writerVars, rop, seen>>

\* mutant: kref_get instead of kref_get_unless_zero
LookupGet_unchecked(r) ==
  /\ rpc[r] = "get"
  /\ ref' = [ref EXCEPT ![ptr[r]] = @ + 1]
  /\ Goto(r, "exit")
  /\ UNCHANGED <<tableVars, profile, mem, grace, writerVars, rop, ptr, result, seen>>

\* mutant: a lookup that loses the race gives up instead of trying again
LookupGet_noRetry(r) ==
  /\ rpc[r] = "get"
  /\ \/ /\ ref[ptr[r]] # 0
        /\ ref' = [ref EXCEPT ![ptr[r]] = @ + 1]
        /\ UNCHANGED <<ptr, result>>
     \/ /\ ref[ptr[r]] = 0
        /\ ptr' = [ptr EXCEPT ![r] = Null]
        /\ result' = [result EXCEPT ![r] = Null]
        /\ UNCHANGED ref
  /\ Goto(r, "exit")
  /\ UNCHANGED <<tableVars, profile, mem, grace, writerVars, rop, seen>>

\* kref_get_unless_zero; the node may have lost its last reference meanwhile.
LookupGet(r) ==
  /\ rpc[r] = "get"
  /\ \/ /\ ref[ptr[r]] # 0
        /\ ref' = [ref EXCEPT ![ptr[r]] = @ + 1]
        /\ Goto(r, "exit")
        /\ UNCHANGED <<ptr, result>>
     \/ /\ ref[ptr[r]] = 0
        /\ ptr' = [ptr EXCEPT ![r] = Null]
        /\ result' = [result EXCEPT ![r] = Null]
        /\ Goto(r, "find")
        /\ UNCHANGED ref
  /\ UNCHANGED <<tableVars, profile, mem, grace, writerVars, rop, seen>>

LeaveRcu(r) == grace' = [n \in NodeIds |-> grace[n] \ {r}]

\* rcu_read_unlock; a reader with a reference goes on using the node.  What the
\* callers compute from the profile is left out: result is the profile itself.
LookupExit(r) ==
  /\ rpc[r] = "exit"
  /\ LeaveRcu(r)
  /\ Goto(r, IF ptr[r] = Null THEN "done" ELSE "use")
  /\ UNCHANGED <<tableVars, profile, ref, mem, writerVars, rop, ptr, result, seen>>

\* ksu_put_app_profile or ksu_put_root_profile after the last use
LookupPut(r) ==
  /\ rpc[r] = "use"
  /\ PutNode(ptr[r])
  /\ ptr' = [ptr EXCEPT ![r] = Null]
  /\ Goto(r, "done")
  /\ UNCHANGED <<tableVars, profile, writerVars, rop, result, seen>>

LookupReturn(r) ==
  /\ rpc[r] = "done"
  /\ Goto(r, "idle")
  /\ rop' = [rop EXCEPT ![r] = NoLookup]
  /\ result' = [result EXCEPT ![r] = Null]
  /\ seen' = [seen EXCEPT ![r] = {}]
  /\ UNCHANGED <<tableVars, memVars, writerVars, ptr>>

-----------------------------------------------------------------------------
WriterNext(w) ==
  \/ \E uid \in Uids, p \in Profiles : SetLock(w, uid, p)
  \/ \E n \in NodeIds : SetReplace(w, n) \/ SetInsert(w, n)
  \/ SetPut(w) \/ SetFail(w)
  \/ \E gone \in SUBSET Uids : PruneLock(w, gone)
  \/ PruneUnlink(w) \/ PrunePut(w) \/ PruneUnlock(w)

ReaderStep(r) ==
  \/ LookupFind(r) \/ LookupDeref(r) \/ LookupGet(r) \/ LookupExit(r)
  \/ LookupPut(r) \/ LookupReturn(r)

ReaderNext(r) ==
  \/ \E kind \in Lookups, uid \in Uids : LookupBegin(r, kind, uid)
  \/ ReaderStep(r)

Next ==
  \/ \E w \in Writers : WriterNext(w)
  \/ \E r \in Readers : ReaderNext(r)
  \/ \E n \in NodeIds : FreeNode(n)

Spec == Init /\ [][Next]_vars

\* Readers do not block and grace periods end; nothing is assumed of writers,
\* which may sleep in kzalloc with the mutex held.
Fairness ==
  /\ \A r \in Readers : WF_vars(ReaderStep(r))
  /\ \A n \in NodeIds : WF_vars(FreeNode(n))

FairSpec == Spec /\ Fairness

-----------------------------------------------------------------------------
(* Properties *)

\* The tables, the counters and every local of allowlist.c keep their types; a
\* reference count and the entry counter never go below zero.
TypeOK ==
  /\ allow_list \in [Uids -> NodeIds \cup {Null}]
  /\ allow_list_count \in 0 .. CountMax
  /\ default_umount \in BOOLEAN
  /\ allowlist_mutex \in Writers \cup {Null}
  /\ profile \in [NodeIds -> Profiles \cup {Null}]
  /\ ref \in [NodeIds -> Nat]
  /\ mem \in [NodeIds -> {"unused", "live", "grace", "freed"}]
  /\ grace \in [NodeIds -> SUBSET Readers]
  /\ wpc \in [Writers -> {"idle", "set", "put", "prune", "prunePut"}]
  /\ old \in [Writers -> NodeIds \cup {Null}]
  /\ rpc \in [Readers -> {"idle", "find", "deref", "get", "exit", "use", "done"}]
  /\ ptr \in [Readers -> NodeIds \cup {Null}]
  /\ result \in [Readers -> Profiles \cup {Null}]

Linked == {allow_list[u] : u \in Uids} \ {Null}
Unlinking == {old[w] : w \in Writers} \ {Null}
Holders(n) == {r \in Readers : ptr[r] = n /\ rpc[r] \in {"exit", "use"}}

\* Every node that a reader or a writer can reach is memory that has not been
\* given back: a replaced or pruned profile outlives every lookup that found it.
NoUseAfterFree ==
  /\ \A r \in Readers : ptr[r] # Null => mem[ptr[r]] \in {"live", "grace"}
  /\ \A n \in Linked \cup Unlinking : mem[n] = "live"

\* A node's count is one for the table (or for the writer about to put it) and
\* one for each reader that uses it; with no count left it is on its way out.
RefCountExact ==
  \A n \in NodeIds :
    /\ ref[n] = Cardinality(Holders(n)) + (IF n \in Linked \cup Unlinking THEN 1 ELSE 0)
    /\ mem[n] = "live" <=> ref[n] > 0

\* What allowlist.c keeps beside the table agrees with it whenever the mutex is
\* free: allow_list_count is the number of profiles, and the cached default is
\* the one of DefaultUid's profile, which is never pruned.  The count never
\* passes U16_MAX, where ++ would wrap it to zero.
SummariesExact ==
  /\ allow_list_count <= CountMax
  /\ allowlist_mutex = Null =>
       /\ allow_list_count = Cardinality(Linked)
       /\ allow_list[DefaultUid] # Null =>
            default_umount = profile[allow_list[DefaultUid]].umount_modules

\* A lookup returns what the table held for the uid at some moment between its
\* call and its return: one that loses the race for a reference retries, so a
\* uid whose profile is being replaced is never found without one.
ResultWasCurrent ==
  \A r \in Readers : rpc[r] \in {"use", "done"} => result[r] \in seen[r]

\* A lookup returns whatever the writers do: the retry after a failed
\* kref_get_unless_zero does not spin, not even while a writer sleeps half way.
LookupReturns == \A r \in Readers : rpc[r] = "find" ~> rpc[r] = "idle"

=============================================================================
