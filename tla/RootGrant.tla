------------------------------ MODULE RootGrant ------------------------------
(***************************************************************************)
(* kernel/policy/app_profile.c with the two ways into it: the execve of su *)
(* (feature/sucompat.c) and the ioctl GRANT_ROOT (supercall/dispatch.c).   *)
(* A task that is allowed to be root gets the credentials of its root      *)
(* profile, and the call is recorded in the su log (sulog/event.c).        *)
(*                                                                         *)
(* The log is the abstract EventLog, which EventQueue implements.          *)
(* Credentials are prepared in private and committed at once; references   *)
(* to user_structs, group_infos and profiles are counted, since every step *)
(* can fail.  Capabilities are sets of bit numbers.                        *)
(***************************************************************************)
EXTENDS Integers, Sequences, FiniteSets

CONSTANTS
  Tasks,
  FirstTask,   \* the task that runs first; it forks the others
  AppUid,      \* its uid, which the allowlist accepts
  Profiles,    \* what ksu_get_root_profile may return for a uid
  MaxCalls     \* bound of the model: requests for root

CAP_DAC_OVERRIDE == 1
CAP_DAC_READ_SEARCH == 2
CapBits == 0 .. 3

\* struct root_profile; "default" is default_root_profile, which is not counted.
ProfileType == [default : BOOLEAN, uid : Nat, groups : {"root", "custom"},
                effective : SUBSET CapBits, no_new_privs : BOOLEAN]

ASSUME ConstantsAssumption ==
  /\ IsFiniteSet(Tasks) /\ FirstTask \in Tasks
  /\ AppUid \in Nat \ {0}
  /\ Profiles \subseteq ProfileType
  /\ MaxCalls \in Nat

Uids == {AppUid} \cup {p.uid : p \in Profiles}
Groups == {"app", "root", "custom"}
None == [none |-> TRUE]   \* no task, no prepared credentials, no profile, no event

VARIABLES
  cred,          \* task -> committed credentials; None if there is no such task
  new,           \* task -> what prepare_creds returned
  profile,       \* task -> the root profile it holds
  no_escape,     \* task -> TIF_KSU_DISABLE_ESCAPE_WITH_ROOT
  pc, kind, ret, \* task -> position, "su" or "ioctl", result of the escape
  pending,       \* task -> the event that was captured
  user_refs,     \* uid -> references to its user_struct
  group_refs,    \* references to group_infos, by kind
  profile_refs,  \* references to profiles beyond the table's own
  enabled,       \* ksu_sulog_enabled
  issued, kept, lost, out, discarded, closed,  \* the log
  logged,        \* sequence number -> the event; None if it was lost
  calls,
  origin,        \* ghost: task -> its uid at the call
  due            \* ghost: calls that found the log enabled

Log == INSTANCE EventLog

logVars == <<issued, kept, lost, out, discarded, closed>>
credVars == <<cred, new, profile, no_escape, user_refs, group_refs, profile_refs>>
vars == <<credVars, pc, kind, ret, pending, enabled, logVars, logged, calls, origin, due>>

AppCred == [uid |-> AppUid, user |-> AppUid, groups |-> "app",
            effective |-> {}, permitted |-> {}]

Init ==
  /\ cred = [t \in Tasks |-> IF t = FirstTask THEN AppCred ELSE None]
  /\ new = [t \in Tasks |-> None]
  /\ profile = [t \in Tasks |-> None]
  /\ no_escape = [t \in Tasks |-> FALSE]
  /\ pc = [t \in Tasks |-> "user"]
  /\ kind = [t \in Tasks |-> "su"]
  /\ ret = [t \in Tasks |-> 0]
  /\ pending = [t \in Tasks |-> None]
  /\ user_refs = [u \in Uids |-> IF u = AppUid THEN 1 ELSE 0]
  /\ group_refs = [g \in Groups |-> IF g = "app" THEN 1 ELSE IF g = "root" THEN 2 ELSE 0]
  /\ profile_refs = 0
  /\ enabled = FALSE
  /\ Log!Init
  /\ logged = <<>>
  /\ calls = 0
  /\ origin = [t \in Tasks |-> AppUid]
  /\ due = 0

Set(f, t, v) == [f EXCEPT ![t] = v]
Goto(t, l) == pc' = Set(pc, t, l)

\* References of credentials c are taken (1) or dropped (-1).
RefCred(c, n) ==
  /\ user_refs' = [user_refs EXCEPT ![c.user] = @ + n]
  /\ group_refs' = [group_refs EXCEPT ![c.groups] = @ + n]

-----------------------------------------------------------------------------
(* The su log *)

\* The reader drains it, the manager switches it on and off.
ReadLog ==
  /\ Log!Deliver \/ Log!Report
  /\ UNCHANGED <<credVars, pc, kind, ret, pending, enabled, logged, calls, origin, due>>

SetFeature ==
  /\ enabled' = ~enabled
  /\ UNCHANGED <<credVars, pc, kind, ret, pending, logVars, logged, calls, origin, due>>

\* ksu_sulog_capture: nothing when disabled; a failure is counted as a drop.
Capture(t, next) ==
  /\ \/ /\ ~enabled
        /\ UNCHANGED <<pending, logVars, logged, due>>
     \/ /\ enabled
        /\ pending' = Set(pending, t, [uid |-> cred[t].uid, ret |-> 0, origin |-> origin[t]])
        /\ due' = due + 1
        /\ UNCHANGED <<logVars, logged>>
     \/ /\ enabled
        /\ Log!Offer /\ kept' = kept
        /\ logged' = Append(logged, None)
        /\ due' = due + 1
        /\ UNCHANGED pending
  /\ Goto(t, next)
  /\ UNCHANGED <<credVars, kind, ret, enabled, calls, origin>>

\* What emitting adds: the result, and for the ioctl, whose event is captured
\* after the escape, the identity that was read before it.
Fill(t) ==
  [pending[t] EXCEPT !.ret = ret[t],
                     !.uid = IF kind[t] = "ioctl" THEN origin[t] ELSE @]

\* mutant: a failed escape returns without emitting
Emit_leaks(t) ==
  /\ pc[t] = "emit"
  /\ \/ (pending[t] = None \/ ret[t] # 0) /\ UNCHANGED <<logVars, logged>>
     \/ pending[t] # None /\ ret[t] = 0 /\ Log!Offer /\ logged' = Append(logged, Fill(t))
  /\ pending' = Set(pending, t, None)
  /\ Goto(t, "user")
  /\ UNCHANGED <<credVars, kind, ret, enabled, calls, origin, due>>

\* ksu_sulog_emit_pending, whatever the switch says now; the queue may be full.
Emit(t) ==
  /\ pc[t] = "emit"
  /\ \/ pending[t] = None /\ UNCHANGED <<logVars, logged>>
     \/ /\ pending[t] # None
        /\ Log!Offer
        /\ logged' = Append(logged, IF kept' = kept THEN None ELSE Fill(t))
  /\ pending' = Set(pending, t, None)
  /\ Goto(t, "user")
  /\ UNCHANGED <<credVars, kind, ret, enabled, calls, origin, due>>

-----------------------------------------------------------------------------
(* The callers *)

Call(t, k) ==
  /\ cred[t] # None
  /\ pc[t] = "user"
  /\ calls < MaxCalls
  /\ calls' = calls + 1
  /\ kind' = Set(kind, t, k)
  /\ ret' = Set(ret, t, 0)
  /\ origin' = Set(origin, t, cred[t].uid)
  /\ Goto(t, IF k = "su" THEN "capture" ELSE "escape")
  /\ UNCHANGED <<credVars, pending, enabled, logVars, logged, due>>

\* ksu_handle_execveat_sucompat captures before the escape, with the filename
\* and arguments, and emits after it.
CaptureSu(t) == pc[t] = "capture" /\ Capture(t, "escape")

\* ksu_sulog_emit_grant_root captures after it.
CaptureGrant(t) == pc[t] = "captureGrant" /\ Capture(t, "emit")

\* The escape is over with result r.
EndEscape(t, r) ==
  /\ ret' = Set(ret, t, r)
  /\ Goto(t, IF kind[t] = "su" THEN "emit" ELSE "captureGrant")

-----------------------------------------------------------------------------
(* escape_with_root_profile *)

otherVars == <<kind, pending, enabled, logVars, logged, calls, origin, due>>

\* prepare_creds fails, or the task is root already or may not escape again,
\* which ends the call with 0 and unchanged credentials.
EscapeRefused(t) ==
  /\ pc[t] = "escape"
  /\ \/ EndEscape(t, -12)
     \/ (cred[t].uid = 0 \/ no_escape[t]) /\ EndEscape(t, 0)
  /\ UNCHANGED <<credVars, otherVars>>

\* mutant: the flag of the thread is not looked at
MayEscape_unflagged(t) == cred[t].uid # 0

MayEscape(t) == cred[t].uid # 0 /\ ~no_escape[t]

\* prepare_creds, then the profile and its ids
EscapePrepare(t) ==
  /\ pc[t] = "escape"
  /\ MayEscape(t)
  /\ \E p \in Profiles :
       /\ profile' = Set(profile, t, p)
       /\ profile_refs' = profile_refs + (IF p.default THEN 0 ELSE 1)
       /\ new' = Set(new, t, [cred[t] EXCEPT !.uid = p.uid])
  /\ RefCred(cred[t], 1)
  /\ Goto(t, "alloc_uid")
  /\ UNCHANGED <<cred, no_escape, ret, otherVars>>

PutProfile(t) ==
  /\ profile_refs' = profile_refs - (IF profile[t].default THEN 0 ELSE 1)
  /\ profile' = Set(profile, t, None)

\* mutant: the abort path forgets the profile
Abort_keepsProfile(t, r) ==
  /\ profile' = Set(profile, t, None)
  /\ RefCred(new[t], -1)
  /\ new' = Set(new, t, None)
  /\ EndEscape(t, r)
  /\ UNCHANGED <<cred, no_escape, profile_refs, otherVars>>

\* out_abort_creds
Abort(t, r) ==
  /\ PutProfile(t)
  /\ RefCred(new[t], -1)
  /\ new' = Set(new, t, None)
  /\ EndEscape(t, r)
  /\ UNCHANGED <<cred, no_escape, otherVars>>

EscapeNoUser(t) == pc[t] = "alloc_uid" /\ Abort(t, -12)

\* alloc_uid of the new uid; free_uid of the user the copy came with
EscapeUser(t) ==
  /\ pc[t] = "alloc_uid"
  /\ user_refs' = [u \in Uids |-> user_refs[u] + (IF u = new[t].uid THEN 1 ELSE 0)
                                               - (IF u = new[t].user THEN 1 ELSE 0)]
  /\ new' = Set(new, t, [new[t] EXCEPT !.user = new[t].uid])
  /\ Goto(t, "ucounts")
  /\ UNCHANGED <<cred, profile, no_escape, group_refs, profile_refs, ret, otherVars>>

\* set_cred_ucounts fails; ret is still 0.
EscapeNoUcounts(t) == pc[t] = "ucounts" /\ Abort(t, 0)

\* The bits of a number
Bits(n) == {i \in CapBits : (n \div 2^i) % 2 = 1}

\* effective | CAP_DAC_READ_SEARCH
CapForKsud(p) == p.effective \cup Bits(CAP_DAC_READ_SEARCH)

\* setup_groups keeps the old groups when it finds no memory or an invalid gid.
NewGroups(t) ==
  {profile[t].groups} \cup (IF profile[t].groups = "custom" THEN {new[t].groups} ELSE {})

\* Capabilities, groups and commit_creds, which drops the old credentials
EscapeCommit(t) ==
  /\ pc[t] = "ucounts"
  /\ \E g \in NewGroups(t) :
       /\ cred' = Set(cred, t,
            [new[t] EXCEPT !.groups = g, !.effective = CapForKsud(profile[t]),
                           !.permitted = profile[t].effective])
       /\ group_refs' = [h \in Groups |-> group_refs[h] + (IF h = g THEN 1 ELSE 0)
                           - (IF h = new[t].groups THEN 1 ELSE 0)
                           - (IF h = cred[t].groups THEN 1 ELSE 0)]
  /\ user_refs' = [user_refs EXCEPT ![cred[t].user] = @ - 1]
  /\ new' = Set(new, t, None)
  /\ Goto(t, "flags")
  /\ UNCHANGED <<profile, no_escape, profile_refs, ret, otherVars>>

\* After the commit: seccomp, the flag, the mount namespace, and the profile
EscapeFlags(t) ==
  /\ pc[t] = "flags"
  /\ no_escape' = [no_escape EXCEPT ![t] = @ \/ profile[t].no_new_privs]
  /\ PutProfile(t)
  /\ EndEscape(t, 0)
  /\ UNCHANGED <<cred, new, user_refs, group_refs, otherVars>>

-----------------------------------------------------------------------------
(* Other system calls of the tasks *)

\* do_disable_escape_to_root
DisableEscape(t) ==
  /\ cred[t] # None /\ pc[t] = "user"
  /\ no_escape' = Set(no_escape, t, TRUE)
  /\ UNCHANGED <<cred, new, profile, user_refs, group_refs, profile_refs, pc, ret, otherVars>>

\* A child has its parent's credentials and thread flags.
Fork(t, s) ==
  /\ cred[t] # None /\ pc[t] = "user" /\ cred[s] = None
  /\ cred' = Set(cred, s, cred[t])
  /\ no_escape' = Set(no_escape, s, no_escape[t])
  /\ RefCred(cred[t], 1)
  /\ UNCHANGED <<new, profile, profile_refs, pc, ret, otherVars>>

Next ==
  \/ ReadLog \/ SetFeature
  \/ \E t \in Tasks :
       \/ \E k \in {"su", "ioctl"} : Call(t, k)
       \/ CaptureSu(t) \/ CaptureGrant(t) \/ Emit(t)
       \/ EscapeRefused(t) \/ EscapePrepare(t) \/ EscapeNoUser(t) \/ EscapeUser(t)
       \/ EscapeNoUcounts(t) \/ EscapeCommit(t) \/ EscapeFlags(t)
       \/ DisableEscape(t)
       \/ \E s \in Tasks : Fork(t, s)

Spec == Init /\ [][Next]_vars

-----------------------------------------------------------------------------
(* Properties *)

CredType == [uid : Uids, user : Uids, groups : Groups,
             effective : SUBSET CapBits, permitted : SUBSET CapBits]

\* Credentials, reference counts and the locals of each caller keep their types;
\* no reference count goes below zero.
TypeOK ==
  /\ cred \in [Tasks -> CredType \cup {None}]
  /\ new \in [Tasks -> CredType \cup {None}]
  /\ profile \in [Tasks -> Profiles \cup {None}]
  /\ no_escape \in [Tasks -> BOOLEAN]
  /\ ret \in [Tasks -> {0, -12}]
  /\ user_refs \in [Uids -> Nat]
  /\ group_refs \in [Groups -> Nat]
  /\ profile_refs \in Nat
  /\ due \in 0 .. MaxCalls

\* The tasks with credentials of user u or of groups g: committed ones for
\* creds = cred, prepared ones for creds = new.
OfUser(creds, u) == {t \in Tasks : creds[t] # None /\ creds[t].user = u}
OfGroups(creds, g) == {t \in Tasks : creds[t] # None /\ creds[t].groups = g}

\* Tasks that hold a counted profile
HoldsProfile == {t \in Tasks : profile[t] # None /\ ~profile[t].default}

\* Whatever fails in between, the references to users, groups and profiles are
\* those that credentials and callers still have: nothing leaks, and nothing is
\* dropped twice.  root_groups starts with two references of its own.
RefsExact ==
  /\ \A u \in Uids : user_refs[u] = Cardinality(OfUser(cred, u)) + Cardinality(OfUser(new, u))
  /\ \A g \in Groups : group_refs[g] =
       Cardinality(OfGroups(cred, g)) + Cardinality(OfGroups(new, g)) + (IF g = "root" THEN 2 ELSE 0)
  /\ profile_refs = Cardinality(HoldsProfile)

\* A task, or a child of it, whose profile or own request forbade further escapes
\* keeps its credentials and the flag for ever.
NoEscapeAgain ==
  [][\A t \in Tasks : no_escape[t] => cred'[t] = cred[t] /\ no_escape'[t]]_vars

\* Every call that found the log enabled ends up as one event or one drop, also
\* when the switch, the escape or the memory failed it half way; and an event
\* names the uid that asked, not the one it became.
Audited ==
  /\ (\A t \in Tasks : pc[t] = "user") => issued = due
  /\ \A s \in 1 .. Len(logged) : logged[s] # None => logged[s].uid = logged[s].origin

\* The comment in escape_with_root_profile: "we need CAP_DAC_READ_SEARCH becuase
\* `/data/adb/ksud` is not accessible for non root process; we add it here".
KsudCapAdded ==
  \A t \in Tasks : pc[t] = "flags" => CAP_DAC_READ_SEARCH \in cred[t].effective
=============================================================================
