------------------------------- MODULE Throne -------------------------------
(***************************************************************************)
(* kernel/manager/throne_tracker.c and pkg_observer.c with the boot stages *)
(* of kernel/runtime/ksud.c: which app is the manager, and which profiles  *)
(* are dropped because their package is gone.                              *)
(*                                                                         *)
(* track_throne runs in three places: once in on_post_fs_data ("postfs"),  *)
(* in the thread that renames packages.list into place, through fsnotify   *)
(* ("event"), and in on_boot_completed ("completed", prune only), which    *)
(* races with the other two.  A tracker works on the list that it read;    *)
(* the apps, and the list, may change after that.                          *)
(***************************************************************************)
EXTENDS Integers, FiniteSets

CONSTANTS
  Packages,      \* package names
  ManagerPkg,    \* the package whose apk is_manager_apk accepts
  AppIds, Users, \* a uid is a user and an appid: user * PER_USER_RANGE + appid
  Preserved,     \* profiles of the uids that are never pruned
  MaxUpdates,    \* bound of the model: changes of packages.list
  MaxGrants,     \* bound of the model: profiles set by the manager
  Invalid        \* KSU_INVALID_APPID; also: a package that is not installed

ASSUME ConstantsAssumption ==
  /\ ManagerPkg \in Packages
  /\ Invalid \notin AppIds
  /\ MaxUpdates \in Nat /\ MaxGrants \in Nat

\* A profile is known by its uid and its key, the package.
Profiles == [user : Users, appid : AppIds, key : Packages] \cup Preserved

Trackers == {"postfs", "event", "completed"}

VARIABLES
  packages,           \* package -> appid; packages.list and /data/app agree on it
  ksu_manager_appid,
  profiles,           \* the entries of the allowlist
  stage,              \* "boot", "postfs", "running"
  ksu_boot_completed,
  watching,           \* the fsnotify mark is in place
  pc,                 \* tracker -> "idle", "read", "manager", "search", "prune"
  uid_list,           \* tracker -> the pairs <<package, appid>> it read
  updates, grants,
  failed,             \* ghost: an open, a read, an allocation or the mark failed
  absent              \* ghost: pairs that were not listed since the tracker began

envVars == <<packages, updates, grants>>
trackerVars == <<pc, uid_list>>
vars == <<envVars, ksu_manager_appid, profiles, stage, ksu_boot_completed,
          watching, trackerVars, failed, absent>>

Pairs == Packages \X AppIds
PackagesList == {e \in Pairs : packages[e[1]] = e[2]}
Idle == \A t \in Trackers : pc[t] = "idle"

Init ==
  /\ packages \in {f \in [Packages -> AppIds \cup {Invalid}] :
                     \A p, q \in Packages : f[p] = f[q] => p = q \/ f[p] = Invalid}
  /\ ksu_manager_appid = Invalid
  /\ profiles \in {P \in SUBSET Profiles : Cardinality(P) <= 1}   \* loaded from the file
  /\ stage = "boot"
  /\ ksu_boot_completed = FALSE
  /\ watching = FALSE
  /\ pc = [t \in Trackers |-> "idle"]
  /\ uid_list = [t \in Trackers |-> {}]
  /\ updates = 0 /\ grants = 0
  /\ failed = FALSE
  /\ absent = [t \in Trackers |-> {}]

Goto(t, l) == pc' = [pc EXCEPT ![t] = l]

\* A call of track_throne
StartTracking(t) ==
  /\ pc[t] = "idle"
  /\ Goto(t, "read")
  /\ absent' = [absent EXCEPT ![t] = Pairs \ PackagesList]

-----------------------------------------------------------------------------
(* Boot stages *)

\* mutant: the packages are left to the observer
PostFsData_noScan ==
  /\ stage = "boot"
  /\ watching' \in BOOLEAN
  /\ failed' = ~watching'
  /\ stage' = "running"
  /\ UNCHANGED <<envVars, ksu_manager_appid, profiles, ksu_boot_completed, trackerVars, absent>>

\* on_post_fs_data: register the observer, whose failure is ignored, then look
\* for the manager in the list that is already there.
PostFsData ==
  /\ stage = "boot"
  /\ watching' \in BOOLEAN
  /\ failed' = ~watching'
  /\ stage' = "postfs"
  /\ StartTracking("postfs")
  /\ UNCHANGED <<envVars, ksu_manager_appid, profiles, ksu_boot_completed, uid_list>>

PostFsDataDone ==
  /\ stage = "postfs"
  /\ pc["postfs"] = "idle"
  /\ stage' = "running"
  /\ UNCHANGED <<envVars, ksu_manager_appid, profiles, ksu_boot_completed, watching,
                 trackerVars, failed, absent>>

\* mutant: what happened before boot was completed is not made up for
BootCompleted_noScan ==
  /\ stage = "running"
  /\ ~ksu_boot_completed
  /\ ksu_boot_completed' = TRUE
  /\ UNCHANGED <<envVars, ksu_manager_appid, profiles, stage, watching, trackerVars, failed, absent>>

\* on_boot_completed: do_report_event calls it once.
BootCompleted ==
  /\ stage = "running"
  /\ ~ksu_boot_completed
  /\ ksu_boot_completed' = TRUE
  /\ StartTracking("completed")
  /\ UNCHANGED <<envVars, ksu_manager_appid, profiles, stage, watching, uid_list, failed>>

-----------------------------------------------------------------------------
(* track_throne *)

\* The list is renamed into place, so an open file is one version of it.  A
\* failed open or allocation ends the call; a line that cannot be read or parsed
\* ends the list.
TrackRead(t) ==
  /\ pc[t] = "read"
  /\ \/ /\ uid_list' = [uid_list EXCEPT ![t] = PackagesList]
        /\ Goto(t, IF t = "completed" THEN "prune" ELSE "manager")
        /\ UNCHANGED failed
     \/ /\ \E part \in SUBSET PackagesList : uid_list' = [uid_list EXCEPT ![t] = part]
        /\ Goto(t, IF t = "completed" THEN "prune" ELSE "manager")
        /\ failed' = TRUE
     \/ /\ failed' = TRUE
        /\ Goto(t, "idle")
        /\ UNCHANGED uid_list
  /\ UNCHANGED <<envVars, ksu_manager_appid, profiles, stage, ksu_boot_completed,
                 watching, absent>>

Listed(t, appid) == \E e \in uid_list[t] : e[2] = appid

\* Is the manager still there?  If it is gone, no other is searched for.
TrackManager(t) ==
  /\ pc[t] = "manager"
  /\ \/ /\ Listed(t, ksu_manager_appid)
        /\ Goto(t, "prune")
        /\ UNCHANGED ksu_manager_appid
     \/ /\ ~Listed(t, ksu_manager_appid)
        /\ ksu_manager_appid # Invalid
        /\ ksu_manager_appid' = Invalid
        /\ Goto(t, "prune")
     \/ /\ ~Listed(t, ksu_manager_appid)
        /\ ksu_manager_appid = Invalid
        /\ Goto(t, "search")
        /\ UNCHANGED ksu_manager_appid
  /\ UNCHANGED <<envVars, profiles, stage, ksu_boot_completed, watching, uid_list,
                 failed, absent>>

\* search_manager and crown_manager: the apk with the right signature is looked
\* for in /data/app, its appid in the list.  Directories that cannot be opened
\* or remembered are skipped.
TrackSearch(t) ==
  /\ pc[t] = "search"
  /\ \/ /\ packages[ManagerPkg] # Invalid
        /\ \E e \in uid_list[t] : e[1] = ManagerPkg /\ ksu_manager_appid' = e[2]
        /\ UNCHANGED failed
     \/ /\ packages[ManagerPkg] = Invalid \/ ~\E e \in uid_list[t] : e[1] = ManagerPkg
        /\ UNCHANGED <<ksu_manager_appid, failed>>
     \/ failed' = TRUE /\ UNCHANGED ksu_manager_appid
  /\ Goto(t, "prune")
  /\ UNCHANGED <<envVars, profiles, stage, ksu_boot_completed, watching, uid_list, absent>>

\* mutant: the whole uid is compared, so only user 0 has packages
IsUidExist_wholeUid(t, p) == p.user = 0 /\ <<p.key, p.appid>> \in uid_list[t]

IsUidExist(t, p) == <<p.key, p.appid>> \in uid_list[t]

\* ksu_prune_allowlist under allowlist_mutex; then uid_list is freed.
TrackPrune(t) ==
  /\ pc[t] = "prune"
  /\ profiles' = IF ksu_boot_completed
                   THEN {p \in profiles : p \in Preserved \/ IsUidExist(t, p)}
                   ELSE profiles
  /\ Goto(t, "idle")
  /\ uid_list' = [uid_list EXCEPT ![t] = {}]
  /\ absent' = [absent EXCEPT ![t] = {}]
  /\ UNCHANGED <<envVars, ksu_manager_appid, stage, ksu_boot_completed, watching, failed>>

-----------------------------------------------------------------------------
(* The environment *)

\* ksu_handle_generic_event is called by the thread that renamed the file.
Notify ==
  LET new == {e \in Pairs : packages'[e[1]] = e[2]}
      gone == [t \in Trackers |-> IF pc[t] = "idle" THEN {} ELSE absent[t] \cup (Pairs \ new)]
  IN  IF watching THEN /\ Goto("event", "read")
                       /\ absent' = [gone EXCEPT !["event"] = Pairs \ new]
                  ELSE absent' = gone /\ UNCHANGED pc

\* The package manager installs or removes one app and rewrites the list.  It is
\* one process, started after post-fs-data, and waits for the handler.
Update(p, appid) ==
  /\ stage = "running"
  /\ pc["event"] = "idle"
  /\ updates < MaxUpdates
  /\ updates' = updates + 1
  /\ \/ packages[p] = Invalid /\ appid # Invalid /\ \A q \in Packages : packages[q] # appid
     \/ packages[p] # Invalid /\ appid = Invalid
  /\ packages' = [packages EXCEPT ![p] = appid]
  /\ Notify
  /\ UNCHANGED <<grants, ksu_manager_appid, profiles, stage, ksu_boot_completed,
                 watching, uid_list, failed>>

\* The manager sets a profile of an installed app.
Grant(p) ==
  /\ packages[ManagerPkg] # Invalid
  /\ ksu_manager_appid = packages[ManagerPkg]
  /\ p \notin Preserved => packages[p.key] = p.appid
  /\ grants < MaxGrants
  /\ grants' = grants + 1
  /\ profiles' = profiles \cup {p}
  /\ UNCHANGED <<packages, updates, ksu_manager_appid, stage, ksu_boot_completed,
                 watching, trackerVars, failed, absent>>

Next ==
  \/ PostFsData \/ PostFsDataDone \/ BootCompleted
  \/ \E t \in Trackers : TrackRead(t) \/ TrackManager(t) \/ TrackSearch(t) \/ TrackPrune(t)
  \/ \E p \in Packages, appid \in AppIds \cup {Invalid} : Update(p, appid)
  \/ \E p \in Profiles : Grant(p)

Spec == Init /\ [][Next]_vars

-----------------------------------------------------------------------------
(* Properties *)

\* The manager state, the package list and each pass of track_throne keep their
\* types.
TypeOK ==
  /\ packages \in [Packages -> AppIds \cup {Invalid}]
  /\ ksu_manager_appid \in AppIds \cup {Invalid}
  /\ profiles \subseteq Profiles
  /\ stage \in {"boot", "postfs", "running"}
  /\ pc \in [Trackers -> {"idle", "read", "manager", "search", "prune"}]
  /\ uid_list \in [Trackers -> SUBSET Pairs]
  /\ absent \in [Trackers -> SUBSET Pairs]
  /\ {ksu_boot_completed, watching, failed} \subseteq BOOLEAN

\* Between updates the manager is the installed manager app, if there is one:
\* neither the list that predates the observer nor any install or removal is
\* missed, and an uninstalled manager does not stay crowned.
ManagerKnown ==
  stage = "running" /\ pc["event"] = "idle" /\ ~failed =>
    ksu_manager_appid = packages[ManagerPkg]

\* After boot no profile outlives its package, although removals before boot
\* was completed were not pruned and trackers race with each other.
NoStaleProfile ==
  ksu_boot_completed /\ Idle /\ ~failed =>
    \A p \in profiles \ Preserved : packages[p.key] = p.appid

\* A profile is dropped only after boot, and only if its package was missing from
\* the list at some moment of the call that drops it or a read was cut short.
DropsAreJustified ==
  [][\A p \in profiles \ profiles' :
       /\ ksu_boot_completed
       /\ p \notin Preserved
       /\ failed \/ \E t \in Trackers : pc[t] = "prune" /\ <<p.key, p.appid>> \in absent[t]]_vars
=============================================================================
