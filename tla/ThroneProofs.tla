---------------------------- MODULE ThroneProofs ----------------------------
(***************************************************************************)
(* Proofs about Throne, for any packages, appids, users, profiles and any  *)
(* number of updates: between updates the manager is the installed one,    *)
(* after boot no profile outlives its package, and none is dropped while   *)
(* its package is there.                                                   *)
(***************************************************************************)
EXTENDS Throne, TLAPS

Positions == {"idle", "read", "manager", "search", "prune"}

\* The types, with the flags one by one
ThroneTypes ==
  /\ packages \in [Packages -> AppIds \cup {Invalid}]
  /\ ksu_manager_appid \in AppIds \cup {Invalid}
  /\ profiles \subseteq Profiles
  /\ stage \in {"boot", "postfs", "running"}
  /\ pc \in [Trackers -> Positions]
  /\ uid_list \in [Trackers -> SUBSET Pairs]
  /\ absent \in [Trackers -> SUBSET Pairs]
  /\ ksu_boot_completed \in BOOLEAN /\ watching \in BOOLEAN /\ failed \in BOOLEAN

Working == {"manager", "search", "prune"}

\* Two packages do not have the same appid.
Distinct == \A p, q \in Packages : packages[p] = packages[q] => p = q \/ packages[p] = Invalid

\* Which trackers run at which stage; without the observer, something failed.
StageInv ==
  /\ stage = "boot" => ~failed /\ Idle /\ ksu_manager_appid = Invalid
  /\ stage # "running" => pc["event"] = "idle" /\ pc["completed"] = "idle" /\ ~ksu_boot_completed
  /\ stage = "running" => pc["postfs"] = "idle"
  /\ stage # "boot" => watching \/ failed
  /\ pc["completed"] \notin {"manager", "search"}

\* No tracker works on an old list while an update could not have happened.
ListsCurrent == \A t \in {"postfs", "event"} : pc[t] \in {"manager", "search"} => uid_list[t] = PackagesList

\* The manager, at the positions of the tracker that looks for it.  One update
\* can make its appid wrong only by removing it or by installing it.
Outdated ==
  \/ ksu_manager_appid = Invalid
  \/ packages[ManagerPkg] = Invalid /\ \A q \in Packages : packages[q] # ksu_manager_appid

ManagerAt(t) ==
  /\ pc[t] \in {"read", "manager"} => ksu_manager_appid = packages[ManagerPkg] \/ Outdated
  /\ pc[t] = "search" => ksu_manager_appid = Invalid
  /\ pc[t] \in {"idle", "prune"} => ksu_manager_appid = packages[ManagerPkg]

ManagerInv ==
  /\ stage = "postfs" => ManagerAt("postfs")
  /\ stage = "running" => ManagerAt("event")

\* A tracker that will drop a profile whose package is gone
WillPrune(t, p) ==
  \/ pc[t] = "read"
  \/ pc[t] \in Working /\ <<p.key, p.appid>> \notin uid_list[t]

StaleInv ==
  ksu_boot_completed =>
    \A p \in profiles \ Preserved :
      packages[p.key] = p.appid \/ \E t \in Trackers : WillPrune(t, p)

AbsentInv ==
  \A t \in Trackers :
    /\ pc[t] = "read" => Pairs \ PackagesList \subseteq absent[t]
    /\ pc[t] \in Working => Pairs \ uid_list[t] \subseteq absent[t]

ThroneInv ==
  /\ ThroneTypes /\ Distinct /\ StageInv
  /\ ~failed => ListsCurrent /\ ManagerInv /\ StaleInv /\ AbsentInv

-----------------------------------------------------------------------------
\* packages.list holds pairs of package and appid.
LEMMA ListPairs == PackagesList \subseteq Pairs
  BY DEF PackagesList

\* The list has a package exactly with its appid.
LEMMA OnList ==
  ASSUME ThroneTypes
  PROVE /\ \A e \in PackagesList : e \in Pairs /\ packages[e[1]] = e[2]
        /\ \A p \in Packages, a \in AppIds : <<p, a>> \in PackagesList <=> packages[p] = a
<1>1. \A e \in PackagesList : e \in Pairs /\ packages[e[1]] = e[2]
  BY DEF PackagesList
<1>2. ASSUME NEW p \in Packages, NEW a \in AppIds PROVE <<p, a>> \in PackagesList <=> packages[p] = a
  <2>1. <<p, a>> \in Pairs /\ <<p, a>>[1] = p /\ <<p, a>>[2] = a
    BY DEF Pairs
  <2> QED
    BY <2>1 DEF PackagesList
<1> QED
  BY <1>1, <1>2

\* A change of the list starts the tracker of the observer, and what the new list
\* lacks is absent for those that run.
LEMMA NotifyEffect ==
  ASSUME ThroneTypes, Notify
  PROVE /\ pc' = IF watching THEN [pc EXCEPT !["event"] = "read"] ELSE pc
        /\ absent' \in [Trackers -> SUBSET Pairs]
        /\ watching => Pairs \ PackagesList' \subseteq absent'["event"]
        /\ \A t \in Trackers : pc[t] # "idle" /\ (t # "event" \/ ~watching) =>
             absent'[t] = absent[t] \cup (Pairs \ PackagesList')
<1> DEFINE new == {e \in Pairs : packages'[e[1]] = e[2]}
           gone == [t \in Trackers |-> IF pc[t] = "idle" THEN {} ELSE absent[t] \cup (Pairs \ new)]
<1>1. new = PackagesList'
  BY DEF PackagesList
<1>2. /\ watching => /\ pc' = [pc EXCEPT !["event"] = "read"]
                     /\ absent' = [gone EXCEPT !["event"] = Pairs \ new]
      /\ ~watching => absent' = gone /\ pc' = pc
  BY DEF Notify, Goto
<1>3. gone \in [Trackers -> SUBSET Pairs] /\ Pairs \ new \in SUBSET Pairs
  BY DEF ThroneTypes
<1>4. \A t \in Trackers : pc[t] # "idle" => gone[t] = absent[t] \cup (Pairs \ new)
  OBVIOUS
<1>5. "event" \in Trackers /\ watching \in BOOLEAN
  BY DEF Trackers, ThroneTypes
<1> HIDE DEF gone, new
<1> QED
  BY <1>1, <1>2, <1>3, <1>4, <1>5

\* Every step keeps the types.
LEMMA TypesStep == ThroneTypes /\ [Next]_vars => ThroneTypes'
<1> SUFFICES ASSUME ThroneTypes, [Next]_vars PROVE ThroneTypes'
  OBVIOUS
<1>1. CASE PostFsData
  BY <1>1, ListPairs DEF PostFsData, StartTracking, Goto, envVars, ThroneTypes,
     Positions, Trackers
<1>2. CASE PostFsDataDone
  BY <1>2, ListPairs DEF PostFsDataDone, envVars, trackerVars, ThroneTypes, Positions,
     Trackers
<1>3. CASE BootCompleted
  BY <1>3, ListPairs DEF BootCompleted, StartTracking, Goto, envVars, ThroneTypes,
     Positions, Trackers
<1>4. ASSUME NEW t \in Trackers, TrackRead(t) PROVE ThroneTypes'
  <2>1. \E l \in {"prune", "manager", "idle"} : pc' = [pc EXCEPT ![t] = l]
    BY <1>4 DEF TrackRead, Goto
  <2>2. \E S \in SUBSET Pairs : uid_list' = [uid_list EXCEPT ![t] = S] \/ uid_list' = uid_list
    BY <1>4, ListPairs DEF TrackRead
  <2>3. failed' \in BOOLEAN
    BY <1>4 DEF TrackRead, ThroneTypes
  <2> QED
    BY <1>4, <2>1, <2>2, <2>3 DEF TrackRead, envVars, ThroneTypes, Positions
<1>5. ASSUME NEW t \in Trackers, TrackManager(t) PROVE ThroneTypes'
  BY <1>5, ListPairs DEF TrackManager, Goto, envVars, ThroneTypes, Positions, Trackers
<1>6. ASSUME NEW t \in Trackers, TrackSearch(t) PROVE ThroneTypes'
  <2>1. ASSUME NEW e \in uid_list[t] PROVE e[2] \in AppIds
    BY <2>1 DEF ThroneTypes, Pairs
  <2>2. ksu_manager_appid' \in AppIds \cup {Invalid} /\ failed' \in BOOLEAN
    BY <1>6, <2>1 DEF TrackSearch, ThroneTypes
  <2> QED
    BY <1>6, <2>2 DEF TrackSearch, Goto, envVars, ThroneTypes, Positions
<1>7. ASSUME NEW t \in Trackers, TrackPrune(t) PROVE ThroneTypes'
  BY <1>7, ListPairs DEF TrackPrune, Goto, envVars, ThroneTypes, Positions, Trackers
<1>8. ASSUME NEW p \in Packages, NEW a \in AppIds \cup {Invalid}, Update(p, a) PROVE ThroneTypes'
  <2>1. packages' \in [Packages -> AppIds \cup {Invalid}]
    BY <1>8 DEF Update, ThroneTypes
  <2>2. absent' \in [Trackers -> SUBSET Pairs]
    BY <1>8, NotifyEffect DEF Update, ThroneTypes
  <2>3. pc' \in [Trackers -> Positions]
    BY <1>8, NotifyEffect DEF Update, ThroneTypes, Positions
  <2> QED
    BY <1>8, <2>1, <2>2, <2>3 DEF Update, ThroneTypes
<1>9. ASSUME NEW p \in Profiles, Grant(p) PROVE ThroneTypes'
  BY <1>9, ListPairs DEF Grant, trackerVars, ThroneTypes, Positions, Trackers
<1>10. CASE UNCHANGED vars
  BY <1>10, ListPairs DEF vars, envVars, trackerVars, ThroneTypes, Positions, Trackers
<1> QED
  BY <1>1, <1>2, <1>3, <1>4, <1>5, <1>6, <1>7, <1>8, <1>9, <1>10 DEF Next

\* Every update keeps appids distinct.
LEMMA DistinctStep == ThroneTypes /\ Distinct /\ [Next]_vars => Distinct'
<1> SUFFICES ASSUME ThroneTypes, Distinct, [Next]_vars PROVE Distinct'
  OBVIOUS
<1>1. CASE PostFsData
  BY <1>1 DEF PostFsData, StartTracking, Goto, envVars, ThroneTypes, Distinct
<1>2. CASE PostFsDataDone
  BY <1>2 DEF PostFsDataDone, envVars, trackerVars, ThroneTypes, Distinct
<1>3. CASE BootCompleted
  BY <1>3 DEF BootCompleted, StartTracking, Goto, envVars, ThroneTypes, Distinct
<1>4. ASSUME NEW t \in Trackers, TrackRead(t) PROVE Distinct'
  BY <1>4 DEF TrackRead, Goto, envVars, ThroneTypes, Distinct
<1>5. ASSUME NEW t \in Trackers, TrackManager(t) PROVE Distinct'
  BY <1>5 DEF TrackManager, Goto, envVars, ThroneTypes, Distinct
<1>6. ASSUME NEW t \in Trackers, TrackSearch(t) PROVE Distinct'
  BY <1>6 DEF TrackSearch, Goto, envVars, ThroneTypes, Distinct
<1>7. ASSUME NEW t \in Trackers, TrackPrune(t) PROVE Distinct'
  BY <1>7 DEF TrackPrune, Goto, envVars, ThroneTypes, Distinct
<1>8. ASSUME NEW p \in Packages, NEW a \in AppIds \cup {Invalid}, Update(p, a) PROVE Distinct'
  BY <1>8 DEF Update, Notify, Goto, ThroneTypes, Distinct
<1>9. ASSUME NEW p \in Profiles, Grant(p) PROVE Distinct'
  BY <1>9 DEF Grant, trackerVars, ThroneTypes, Distinct
<1>10. CASE UNCHANGED vars
  BY <1>10 DEF vars, envVars, trackerVars, ThroneTypes, Distinct
<1> QED
  BY <1>1, <1>2, <1>3, <1>4, <1>5, <1>6, <1>7, <1>8, <1>9, <1>10 DEF Next

\* Every step keeps the trackers in the stages they belong to.
LEMMA StageStep == ThroneTypes /\ StageInv /\ [Next]_vars => StageInv'
<1> SUFFICES ASSUME ThroneTypes, StageInv, [Next]_vars PROVE StageInv'
  OBVIOUS
<1>1. CASE PostFsData
  BY <1>1 DEF PostFsData, StartTracking, Goto, envVars, ThroneTypes, StageInv, Idle,
     Trackers
<1>2. CASE PostFsDataDone
  BY <1>2 DEF PostFsDataDone, envVars, trackerVars, ThroneTypes, StageInv, Idle,
     Trackers
<1>3. CASE BootCompleted
  BY <1>3 DEF BootCompleted, StartTracking, Goto, envVars, ThroneTypes, StageInv, Idle,
     Trackers
<1>4. ASSUME NEW t \in Trackers, TrackRead(t) PROVE StageInv'
  BY <1>4 DEF TrackRead, Goto, envVars, ThroneTypes, StageInv, Idle, Trackers
<1>5. ASSUME NEW t \in Trackers, TrackManager(t) PROVE StageInv'
  BY <1>5 DEF TrackManager, Goto, envVars, ThroneTypes, StageInv, Idle, Trackers
<1>6. ASSUME NEW t \in Trackers, TrackSearch(t) PROVE StageInv'
  BY <1>6 DEF TrackSearch, Goto, envVars, ThroneTypes, StageInv, Idle, Trackers
<1>7. ASSUME NEW t \in Trackers, TrackPrune(t) PROVE StageInv'
  BY <1>7 DEF TrackPrune, Goto, envVars, ThroneTypes, StageInv, Idle, Trackers
<1>8. ASSUME NEW p \in Packages, NEW a \in AppIds \cup {Invalid}, Update(p, a) PROVE StageInv'
  BY <1>8 DEF Update, Notify, Goto, ThroneTypes, StageInv, Idle, Trackers
<1>9. ASSUME NEW p \in Profiles, Grant(p) PROVE StageInv'
  BY <1>9 DEF Grant, trackerVars, ThroneTypes, StageInv, Idle, Trackers
<1>10. CASE UNCHANGED vars
  BY <1>10 DEF vars, envVars, trackerVars, ThroneTypes, StageInv, Idle, Trackers
<1> QED
  BY <1>1, <1>2, <1>3, <1>4, <1>5, <1>6, <1>7, <1>8, <1>9, <1>10 DEF Next

\* A failure is not forgotten.
LEMMA FailureStays == ThroneTypes /\ StageInv /\ [Next]_vars /\ ~failed' => ~failed
<1> SUFFICES ASSUME ThroneTypes, StageInv, [Next]_vars, ~failed' PROVE ~failed
  OBVIOUS
<1>1. CASE PostFsData
  BY <1>1 DEF PostFsData, StartTracking, Goto, envVars, StageInv
<1>2. CASE PostFsDataDone
  BY <1>2 DEF PostFsDataDone, envVars, trackerVars, StageInv
<1>3. CASE BootCompleted
  BY <1>3 DEF BootCompleted, StartTracking, Goto, envVars, StageInv
<1>4. ASSUME NEW t \in Trackers, TrackRead(t) PROVE ~failed
  BY <1>4 DEF TrackRead, Goto, envVars, StageInv
<1>5. ASSUME NEW t \in Trackers, TrackManager(t) PROVE ~failed
  BY <1>5 DEF TrackManager, Goto, envVars, StageInv
<1>6. ASSUME NEW t \in Trackers, TrackSearch(t) PROVE ~failed
  BY <1>6 DEF TrackSearch, Goto, envVars, StageInv
<1>7. ASSUME NEW t \in Trackers, TrackPrune(t) PROVE ~failed
  BY <1>7 DEF TrackPrune, Goto, envVars, StageInv
<1>8. ASSUME NEW p \in Packages, NEW a \in AppIds \cup {Invalid}, Update(p, a) PROVE ~failed
  BY <1>8 DEF Update, Notify, Goto, StageInv
<1>9. ASSUME NEW p \in Profiles, Grant(p) PROVE ~failed
  BY <1>9 DEF Grant, trackerVars, StageInv
<1>10. CASE UNCHANGED vars
  BY <1>10 DEF vars, envVars, trackerVars, StageInv
<1> QED
  BY <1>1, <1>2, <1>3, <1>4, <1>5, <1>6, <1>7, <1>8, <1>9, <1>10 DEF Next

\* Unless a read failed, the tracker that looks for the manager has the list in force.
LEMMA ListsStep ==
  ASSUME ThroneTypes, StageInv, ListsCurrent, [Next]_vars, ~failed, ~failed'
  PROVE ListsCurrent'
<1>0. UNCHANGED packages => PackagesList' = PackagesList
  BY DEF PackagesList
<1>1. CASE PostFsData
  BY <1>1, <1>0 DEF PostFsData, StartTracking, Goto, envVars, ThroneTypes, StageInv,
     Idle, ListsCurrent, Trackers
<1>2. CASE PostFsDataDone
  BY <1>2, <1>0 DEF PostFsDataDone, envVars, trackerVars, ThroneTypes, StageInv, Idle,
     ListsCurrent, Trackers
<1>3. CASE BootCompleted
  BY <1>3, <1>0 DEF BootCompleted, StartTracking, Goto, envVars, ThroneTypes, StageInv,
     Idle, ListsCurrent, Trackers
<1>4. ASSUME NEW t \in Trackers, TrackRead(t) PROVE ListsCurrent'
  BY <1>4, <1>0 DEF TrackRead, Goto, envVars, ThroneTypes, StageInv, Idle, ListsCurrent,
     Trackers
<1>5. ASSUME NEW t \in Trackers, TrackManager(t) PROVE ListsCurrent'
  BY <1>5, <1>0 DEF TrackManager, Goto, envVars, ThroneTypes, StageInv, Idle,
     ListsCurrent, Trackers
<1>6. ASSUME NEW t \in Trackers, TrackSearch(t) PROVE ListsCurrent'
  BY <1>6, <1>0 DEF TrackSearch, Goto, envVars, ThroneTypes, StageInv, Idle,
     ListsCurrent, Trackers
<1>7. ASSUME NEW t \in Trackers, TrackPrune(t) PROVE ListsCurrent'
  BY <1>7, <1>0 DEF TrackPrune, Goto, envVars, ThroneTypes, StageInv, Idle,
     ListsCurrent, Trackers
<1>8. ASSUME NEW p \in Packages, NEW a \in AppIds \cup {Invalid}, Update(p, a) PROVE ListsCurrent'
  BY <1>8, <1>0 DEF Update, Notify, Goto, ThroneTypes, StageInv, Idle, ListsCurrent,
     Trackers
<1>9. ASSUME NEW p \in Profiles, Grant(p) PROVE ListsCurrent'
  BY <1>9, <1>0 DEF Grant, trackerVars, ThroneTypes, StageInv, Idle, ListsCurrent,
     Trackers
<1>10. CASE UNCHANGED vars
  BY <1>10, <1>0 DEF vars, envVars, trackerVars, ThroneTypes, StageInv, Idle,
     ListsCurrent, Trackers
<1> QED
  BY <1>1, <1>2, <1>3, <1>4, <1>5, <1>6, <1>7, <1>8, <1>9, <1>10 DEF Next

\* Every step keeps the ghost of what was absent during a tracker's pass.
LEMMA AbsentStep ==
  ASSUME ThroneTypes, StageInv, AbsentInv, [Next]_vars, ~failed, ~failed'
  PROVE AbsentInv'
<1>0. UNCHANGED packages => PackagesList' = PackagesList
  BY DEF PackagesList
<1>1. CASE PostFsData
  BY <1>1, <1>0 DEF PostFsData, StartTracking, Goto, envVars, ThroneTypes, StageInv,
     Idle, AbsentInv, Working, Trackers
<1>2. CASE PostFsDataDone
  BY <1>2, <1>0 DEF PostFsDataDone, envVars, trackerVars, ThroneTypes, StageInv, Idle,
     AbsentInv, Working, Trackers
<1>3. CASE BootCompleted
  BY <1>3, <1>0 DEF BootCompleted, StartTracking, Goto, envVars, ThroneTypes, StageInv,
     Idle, AbsentInv, Working, Trackers
<1>4. ASSUME NEW t \in Trackers, TrackRead(t) PROVE AbsentInv'
  BY <1>4, <1>0 DEF TrackRead, Goto, envVars, ThroneTypes, StageInv, Idle, AbsentInv,
     Working, Trackers
<1>5. ASSUME NEW t \in Trackers, TrackManager(t) PROVE AbsentInv'
  BY <1>5, <1>0 DEF TrackManager, Goto, envVars, ThroneTypes, StageInv, Idle, AbsentInv,
     Working, Trackers
<1>6. ASSUME NEW t \in Trackers, TrackSearch(t) PROVE AbsentInv'
  BY <1>6, <1>0 DEF TrackSearch, Goto, envVars, ThroneTypes, StageInv, Idle, AbsentInv,
     Working, Trackers
<1>7. ASSUME NEW t \in Trackers, TrackPrune(t) PROVE AbsentInv'
  BY <1>7, <1>0 DEF TrackPrune, Goto, envVars, ThroneTypes, StageInv, Idle, AbsentInv,
     Working, Trackers
<1>8. ASSUME NEW p \in Packages, NEW a \in AppIds \cup {Invalid}, Update(p, a) PROVE AbsentInv'
  <2>1. watching /\ Notify /\ UNCHANGED uid_list
    BY <1>8 DEF Update, StageInv
  <2>2. pc' = [pc EXCEPT !["event"] = "read"] /\ Pairs \ PackagesList' \subseteq absent'["event"]
    BY <2>1, NotifyEffect
  <2>3. \A t \in Trackers : pc[t] # "idle" /\ t # "event" =>
          absent'[t] = absent[t] \cup (Pairs \ PackagesList')
    BY <2>1, NotifyEffect
  <2>4. \A t \in Trackers \ {"event"} : pc'[t] = pc[t]
    BY <2>2 DEF ThroneTypes
  <2>5. pc'["event"] = "read"
    BY <2>2 DEF ThroneTypes, Trackers
  <2> QED
    BY <2>1, <2>2, <2>3, <2>4, <2>5 DEF AbsentInv, Working
<1>9. ASSUME NEW p \in Profiles, Grant(p) PROVE AbsentInv'
  BY <1>9, <1>0 DEF Grant, trackerVars, ThroneTypes, StageInv, Idle, AbsentInv, Working,
     Trackers
<1>10. CASE UNCHANGED vars
  BY <1>10, <1>0 DEF vars, envVars, trackerVars, ThroneTypes, StageInv, Idle, AbsentInv,
     Working, Trackers
<1> QED
  BY <1>1, <1>2, <1>3, <1>4, <1>5, <1>6, <1>7, <1>8, <1>9, <1>10 DEF Next

\* Every profile whose package goes is left to a tracker that will drop it.
LEMMA StaleStep ==
  ASSUME ThroneTypes, StageInv, StaleInv, [Next]_vars, ~failed, ~failed'
  PROVE StaleInv'
<1>1. CASE PostFsData
  BY <1>1 DEF PostFsData, StartTracking, Goto, envVars, ThroneTypes, StageInv, Idle,
     StaleInv, WillPrune, Working, Trackers
<1>2. CASE PostFsDataDone
  BY <1>2 DEF PostFsDataDone, envVars, trackerVars, ThroneTypes, StageInv, Idle,
     StaleInv, WillPrune, Working, Trackers
<1>3. CASE BootCompleted
  BY <1>3 DEF BootCompleted, StartTracking, Goto, envVars, ThroneTypes, StageInv, Idle,
     StaleInv, WillPrune, Working, Trackers
<1>4. ASSUME NEW t \in Trackers, TrackRead(t) PROVE StaleInv'
  <2>1. /\ uid_list' = [uid_list EXCEPT ![t] = PackagesList]
        /\ \E l \in {"prune", "manager"} : pc' = [pc EXCEPT ![t] = l]
        /\ UNCHANGED <<packages, profiles, ksu_boot_completed>>
    BY <1>4 DEF TrackRead, Goto, envVars
  <2>2. pc'[t] \in Working /\ uid_list'[t] = PackagesList
    BY <2>1 DEF ThroneTypes, Working
  <2>3. ASSUME NEW p, packages[p.key] # p.appid PROVE WillPrune(t, p)'
    <3>1. <<p.key, p.appid>> \notin PackagesList
      BY <2>3 DEF PackagesList
    <3> QED
      BY <2>2, <3>1 DEF WillPrune
  <2> QED
    BY <2>1, <2>3 DEF StaleInv
<1>5. ASSUME NEW t \in Trackers, TrackManager(t) PROVE StaleInv'
  <2>1. PICK l \in Working : pc' = [pc EXCEPT ![t] = l]
    BY <1>5 DEF TrackManager, Goto, Working
  <2>2. pc[t] = "manager" /\ UNCHANGED <<packages, profiles, ksu_boot_completed, uid_list>>
    BY <1>5 DEF TrackManager, envVars
  <2>3. pc'[t] \in Working /\ pc[t] \in Working /\ \A s \in Trackers : s # t => pc'[s] = pc[s]
    BY <2>1, <2>2 DEF ThroneTypes, Working
  <2>4. ASSUME NEW s \in Trackers, NEW p, WillPrune(s, p) PROVE WillPrune(s, p)'
    BY <2>2, <2>3, <2>4 DEF WillPrune, Working
  <2> QED
    BY <2>2, <2>4 DEF StaleInv
<1>6. ASSUME NEW t \in Trackers, TrackSearch(t) PROVE StaleInv'
  <2>1. pc[t] = "search" /\ pc' = [pc EXCEPT ![t] = "prune"]
    BY <1>6 DEF TrackSearch, Goto
  <2>2. UNCHANGED <<packages, profiles, ksu_boot_completed, uid_list>>
    BY <1>6 DEF TrackSearch, envVars
  <2>3. pc'[t] \in Working /\ pc[t] \in Working /\ \A s \in Trackers : s # t => pc'[s] = pc[s]
    BY <2>1 DEF ThroneTypes, Working
  <2>4. ASSUME NEW s \in Trackers, NEW p, WillPrune(s, p) PROVE WillPrune(s, p)'
    BY <2>2, <2>3, <2>4 DEF WillPrune, Working
  <2> QED
    BY <2>2, <2>4 DEF StaleInv
<1>7. ASSUME NEW t \in Trackers, TrackPrune(t) PROVE StaleInv'
  <2> SUFFICES ASSUME ksu_boot_completed, NEW p \in profiles' \ Preserved, packages[p.key] # p.appid
               PROVE \E s \in Trackers : WillPrune(s, p)'
    BY <1>7 DEF TrackPrune, StaleInv, envVars
  <2>1. pc[t] = "prune" /\ p \in profiles /\ <<p.key, p.appid>> \in uid_list[t]
    BY <1>7 DEF TrackPrune, IsUidExist
  <2>2. PICK s \in Trackers : WillPrune(s, p)
    BY <2>1 DEF StaleInv
  <2>3. s # t
    BY <2>1, <2>2 DEF WillPrune
  <2>4. pc'[s] = pc[s] /\ uid_list'[s] = uid_list[s]
    BY <1>7, <2>3 DEF TrackPrune, Goto, ThroneTypes
  <2> QED
    BY <2>2, <2>4 DEF WillPrune
<1>8. ASSUME NEW p \in Packages, NEW a \in AppIds \cup {Invalid}, Update(p, a) PROVE StaleInv'
  BY <1>8 DEF Update, Notify, Goto, ThroneTypes, StageInv, Idle, StaleInv, WillPrune,
     Working, Trackers
<1>9. ASSUME NEW p \in Profiles, Grant(p) PROVE StaleInv'
  BY <1>9 DEF Grant, trackerVars, ThroneTypes, StageInv, Idle, StaleInv, WillPrune,
     Working, Trackers
<1>10. CASE UNCHANGED vars
  BY <1>10 DEF vars, envVars, trackerVars, ThroneTypes, StageInv, Idle, StaleInv,
     WillPrune, Working, Trackers
<1> QED
  BY <1>1, <1>2, <1>3, <1>4, <1>5, <1>6, <1>7, <1>8, <1>9, <1>10 DEF Next

\* Every step keeps the manager's appid right, or a tracker on its way to correct it.
LEMMA ManagerStep ==
  ASSUME ThroneTypes, Distinct, StageInv, ListsCurrent, ManagerInv, [Next]_vars, ~failed, ~failed'
  PROVE ManagerInv'
<1>0. ManagerPkg \in Packages /\ Invalid \notin AppIds
  BY ConstantsAssumption
<1>1. CASE PostFsData
  BY <1>1, <1>0 DEF PostFsData, StartTracking, Goto, envVars, ThroneTypes, StageInv,
     Idle, ManagerInv, ManagerAt, Outdated, Trackers
<1>2. CASE PostFsDataDone
  BY <1>2, <1>0 DEF PostFsDataDone, envVars, trackerVars, ThroneTypes, StageInv, Idle,
     ManagerInv, ManagerAt, Outdated, Trackers
<1>3. CASE BootCompleted
  BY <1>3, <1>0 DEF BootCompleted, StartTracking, Goto, envVars, ThroneTypes, StageInv,
     Idle, ManagerInv, ManagerAt, Outdated, Trackers
<1>4. ASSUME NEW t \in Trackers, TrackRead(t) PROVE ManagerInv'
  BY <1>4, <1>0 DEF TrackRead, Goto, envVars, ThroneTypes, StageInv, Idle, ManagerInv,
     ManagerAt, Outdated, Trackers
<1>5. ASSUME NEW t \in Trackers, TrackManager(t) PROVE ManagerInv'
  <2>1. uid_list[t] = PackagesList /\ t \in {"postfs", "event"} /\ ManagerAt(t)
        /\ (t = "postfs" <=> stage = "postfs") /\ (t = "event" <=> stage = "running")
    BY <1>5 DEF TrackManager, Trackers, StageInv, Idle, ListsCurrent, ManagerInv, ThroneTypes
  <2>2. UNCHANGED <<packages, stage>>
    BY <1>5 DEF TrackManager, envVars
  <2>3. ksu_manager_appid = packages[ManagerPkg] \/ Outdated
    BY <1>5, <2>1 DEF TrackManager, ManagerAt
  <2>4. ASSUME Listed(t, ksu_manager_appid) PROVE ksu_manager_appid = packages[ManagerPkg]
    <3>1. PICK e \in PackagesList : e[2] = ksu_manager_appid
      BY <2>1, <2>4 DEF Listed
    <3>2. e[1] \in Packages /\ e[2] \in AppIds /\ packages[e[1]] = e[2]
      BY <3>1 DEF PackagesList, Pairs
    <3> QED
      BY <1>0, <2>3, <3>1, <3>2 DEF Outdated
  <2>5. ASSUME packages[ManagerPkg] # Invalid PROVE Listed(t, packages[ManagerPkg])
    <3>1. PICK a \in AppIds : a = packages[ManagerPkg]
      BY <1>0, <2>5 DEF ThroneTypes
    <3>2. <<ManagerPkg, a>> \in PackagesList
      BY <1>0, <3>1, OnList
    <3>3. <<ManagerPkg, a>>[2] = a
      OBVIOUS
    <3> QED
      BY <2>1, <3>1, <3>2, <3>3 DEF Listed
  <2>6. ASSUME ~Listed(t, ksu_manager_appid), ksu_manager_appid # Invalid
        PROVE  packages[ManagerPkg] = Invalid
    BY <2>3, <2>5, <2>6 DEF Outdated
  <2>7. \/ pc' = [pc EXCEPT ![t] = "prune"] /\ ksu_manager_appid' = packages[ManagerPkg]
        \/ pc' = [pc EXCEPT ![t] = "search"] /\ ksu_manager_appid' = Invalid
    BY <1>5, <2>4, <2>6 DEF TrackManager, Goto
  <2>9. ManagerAt(t)'
    BY <2>2, <2>7 DEF ManagerAt, ThroneTypes
  <2> QED
    BY <2>1, <2>2, <2>9 DEF ManagerInv
<1>6. ASSUME NEW t \in Trackers, TrackSearch(t) PROVE ManagerInv'
  <2>1. uid_list[t] = PackagesList /\ t \in {"postfs", "event"} /\ ManagerAt(t)
        /\ (t = "postfs" <=> stage = "postfs") /\ (t = "event" <=> stage = "running")
    BY <1>6 DEF TrackSearch, Trackers, StageInv, Idle, ListsCurrent, ManagerInv, ThroneTypes
  <2>2. UNCHANGED <<packages, stage>>
    BY <1>6 DEF TrackSearch, envVars
  <2>3. ksu_manager_appid = Invalid
    BY <1>6, <2>1 DEF TrackSearch, ManagerAt
  <2>4. ASSUME NEW e \in uid_list[t], e[1] = ManagerPkg PROVE e[2] = packages[ManagerPkg]
    BY <2>1, <2>4 DEF PackagesList
  <2>5. ASSUME packages[ManagerPkg] # Invalid PROVE \E e \in uid_list[t] : e[1] = ManagerPkg
    <3>1. PICK a \in AppIds : a = packages[ManagerPkg]
      BY <1>0, <2>5 DEF ThroneTypes
    <3>2. <<ManagerPkg, a>> \in PackagesList
      BY <1>0, <3>1, OnList
    <3>3. <<ManagerPkg, a>>[1] = ManagerPkg
      OBVIOUS
    <3> QED
      BY <2>1, <3>2, <3>3
  <2>6. ksu_manager_appid' = packages[ManagerPkg]
    BY <1>6, <2>3, <2>4, <2>5 DEF TrackSearch
  <2>9. ManagerAt(t)'
    BY <1>6, <2>2, <2>6 DEF TrackSearch, Goto, ManagerAt, ThroneTypes
  <2> QED
    BY <2>1, <2>2, <2>9 DEF ManagerInv
<1>7. ASSUME NEW t \in Trackers, TrackPrune(t) PROVE ManagerInv'
  BY <1>7, <1>0 DEF TrackPrune, Goto, envVars, ThroneTypes, StageInv, Idle, ManagerInv,
     ManagerAt, Outdated, Trackers
<1>8. ASSUME NEW p \in Packages, NEW a \in AppIds \cup {Invalid}, Update(p, a) PROVE ManagerInv'
  <2>1. watching /\ Notify /\ stage = "running" /\ UNCHANGED <<stage, ksu_manager_appid>>
    BY <1>8 DEF Update, StageInv
  <2>2. pc' = [pc EXCEPT !["event"] = "read"]
    BY <2>1, NotifyEffect
  <2>3. pc'["event"] = "read"
    BY <2>2 DEF ThroneTypes, Trackers
  <2>4. ksu_manager_appid = packages[ManagerPkg]
    BY <1>8, <2>1 DEF Update, ManagerInv, ManagerAt
  <2>5. packages' = [packages EXCEPT ![p] = a]
    BY <1>8 DEF Update
  <2>6. ksu_manager_appid = packages'[ManagerPkg] \/ Outdated'
    <3>1. CASE p # ManagerPkg
      BY <1>0, <2>4, <2>5, <3>1 DEF ThroneTypes
    <3>2. CASE p = ManagerPkg /\ packages[p] = Invalid
      BY <2>1, <2>4, <3>2 DEF Outdated
    <3>3. CASE p = ManagerPkg /\ packages[p] # Invalid /\ a = Invalid
      <4>1. packages'[ManagerPkg] = Invalid
        BY <2>5, <3>3 DEF ThroneTypes
      <4>2. \A q \in Packages : packages'[q] # ksu_manager_appid
        BY <2>4, <2>5, <3>3 DEF ThroneTypes, Distinct
      <4> QED
        BY <2>1, <4>1, <4>2 DEF Outdated
    <3> QED
      BY <1>8, <3>1, <3>2, <3>3 DEF Update
  <2> QED
    BY <2>1, <2>3, <2>6 DEF ManagerInv, ManagerAt
<1>9. ASSUME NEW p \in Profiles, Grant(p) PROVE ManagerInv'
  BY <1>9, <1>0 DEF Grant, trackerVars, ThroneTypes, StageInv, Idle, ManagerInv,
     ManagerAt, Outdated, Trackers
<1>10. CASE UNCHANGED vars
  BY <1>10, <1>0 DEF vars, envVars, trackerVars, ThroneTypes, StageInv, Idle,
     ManagerInv, ManagerAt, Outdated, Trackers
<1> QED
  BY <1>1, <1>2, <1>3, <1>4, <1>5, <1>6, <1>7, <1>8, <1>9, <1>10 DEF Next

\* No tracker has run at first.
LEMMA ThroneInit == Init => ThroneInv
<1> SUFFICES ASSUME Init PROVE ThroneInv
  OBVIOUS
<1>1. ThroneTypes
  BY DEF Init, ThroneTypes, Positions
<1>2. Distinct
  BY DEF Init, Distinct
<1>3. StageInv
  BY DEF Init, StageInv, Idle, Trackers
<1>4. ListsCurrent /\ AbsentInv
  BY DEF Init, ListsCurrent, AbsentInv, Trackers, Working
<1>5. ManagerInv /\ StaleInv
  BY DEF Init, ManagerInv, StaleInv
<1> QED
  BY <1>1, <1>2, <1>3, <1>4, <1>5 DEF ThroneInv

\* Every step keeps the invariant.
LEMMA ThroneStep == ThroneInv /\ [Next]_vars => ThroneInv'
<1> SUFFICES ASSUME ThroneInv, [Next]_vars PROVE ThroneInv'
  OBVIOUS
<1>1. ThroneTypes /\ Distinct /\ StageInv
  BY DEF ThroneInv
<1>2. (ThroneTypes /\ Distinct /\ StageInv)'
  BY <1>1, TypesStep, DistinctStep, StageStep
<1>3. ASSUME ~failed' PROVE (ListsCurrent /\ ManagerInv /\ StaleInv /\ AbsentInv)'
  <2>1. ~failed
    BY <1>1, <1>3, FailureStays
  <2>2. ListsCurrent /\ ManagerInv /\ StaleInv /\ AbsentInv
    BY <2>1 DEF ThroneInv
  <2> QED
    BY <1>1, <1>3, <2>1, <2>2, ListsStep, ManagerStep, StaleStep, AbsentStep
<1> QED
  BY <1>2, <1>3 DEF ThroneInv

\* The inductive invariant of the trackers, the observer and the updates
THEOREM ThroneInvariant == Spec => []ThroneInv
<1>1. Init => ThroneInv
  BY ThroneInit
<1>2. ThroneInv /\ [Next]_vars => ThroneInv'
  BY ThroneStep
<1> QED
  BY <1>1, <1>2, PTL DEF Spec

\* The manager state, the package list and each pass of track_throne keep their types.
THEOREM ThroneTypeCorrect == Spec => []TypeOK
<1>1. ThroneInv => TypeOK
  BY DEF ThroneInv, ThroneTypes, TypeOK, Positions
<1> QED
  BY <1>1, ThroneInvariant, PTL

\* Between updates ksu_manager_appid is that of the installed manager app: no
\* install or removal, and no list older than the observer, is missed.
THEOREM TheManagerIsKnown == Spec => []ManagerKnown
<1>1. ThroneInv => ManagerKnown
  BY DEF ThroneInv, ManagerKnown, ManagerInv, ManagerAt
<1> QED
  BY <1>1, ThroneInvariant, PTL

\* After boot no profile outlives its package, whichever trackers race.
THEOREM ProfilesGoWithTheirPackage == Spec => []NoStaleProfile
<1>1. ThroneInv => NoStaleProfile
  BY DEF ThroneInv, NoStaleProfile, StaleInv, WillPrune, Idle, Working
<1> QED
  BY <1>1, ThroneInvariant, PTL

\* One step of DropsAreJustified
Justified ==
  \A p \in profiles \ profiles' :
    /\ ksu_boot_completed
    /\ p \notin Preserved
    /\ failed \/ \E t \in Trackers : pc[t] = "prune" /\ <<p.key, p.appid>> \in absent[t]

\* A step drops only profiles that were absent during the pass that drops them.
LEMMA JustifiedStep == ThroneInv /\ [Next]_vars => Justified
<1> SUFFICES ASSUME ThroneInv, [Next]_vars PROVE Justified
  OBVIOUS
<1>1. CASE PostFsData
  BY <1>1 DEF PostFsData, StartTracking, Goto, envVars, Justified
<1>2. CASE PostFsDataDone
  BY <1>2 DEF PostFsDataDone, envVars, trackerVars, Justified
<1>3. CASE BootCompleted
  BY <1>3 DEF BootCompleted, StartTracking, Goto, envVars, Justified
<1>4. ASSUME NEW t \in Trackers, TrackRead(t) PROVE Justified
  BY <1>4 DEF TrackRead, Goto, envVars, Justified
<1>5. ASSUME NEW t \in Trackers, TrackManager(t) PROVE Justified
  BY <1>5 DEF TrackManager, Goto, envVars, Justified
<1>6. ASSUME NEW t \in Trackers, TrackSearch(t) PROVE Justified
  BY <1>6 DEF TrackSearch, Goto, envVars, Justified
<1>7. ASSUME NEW t \in Trackers, TrackPrune(t) PROVE Justified
  <2> SUFFICES ASSUME NEW p \in profiles, p \notin profiles'
               PROVE  /\ ksu_boot_completed /\ p \notin Preserved
                      /\ ~failed => <<p.key, p.appid>> \in absent[t]
    BY <1>7 DEF Justified, TrackPrune
  <2>1. ksu_boot_completed /\ p \notin Preserved /\ <<p.key, p.appid>> \notin uid_list[t]
    BY <1>7 DEF TrackPrune, IsUidExist
  <2>2. p \in [user : Users, appid : AppIds, key : Packages]
    BY <2>1 DEF ThroneInv, ThroneTypes, Profiles
  <2>3. <<p.key, p.appid>> \in Pairs
    BY <2>2 DEF Pairs
  <2>4. ~failed => Pairs \ uid_list[t] \subseteq absent[t]
    BY <1>7 DEF TrackPrune, ThroneInv, AbsentInv, Working
  <2> QED
    BY <2>1, <2>3, <2>4
<1>8. ASSUME NEW p \in Packages, NEW a \in AppIds \cup {Invalid}, Update(p, a) PROVE Justified
  BY <1>8 DEF Update, Notify, Goto, Justified
<1>9. ASSUME NEW p \in Profiles, Grant(p) PROVE Justified
  BY <1>9 DEF Grant, trackerVars, Justified
<1>10. CASE UNCHANGED vars
  BY <1>10 DEF vars, envVars, trackerVars, Justified
<1> QED
  BY <1>1, <1>2, <1>3, <1>4, <1>5, <1>6, <1>7, <1>8, <1>9, <1>10 DEF Next

\* A profile is dropped only after boot, and only if its package was missing from
\* the list during the call that drops it, or a read was cut short.
THEOREM NoProfileIsDroppedInVain == Spec => DropsAreJustified
<1>1. ThroneInv /\ [Next]_vars => [Justified]_vars
  BY JustifiedStep
<1>2. Spec => [][Justified]_vars
  BY <1>1, ThroneInvariant, PTL DEF Spec
<1> QED
  BY <1>2 DEF DropsAreJustified, Justified

=============================================================================
