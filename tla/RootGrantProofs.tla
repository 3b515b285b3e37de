--------------------------- MODULE RootGrantProofs ---------------------------
(***************************************************************************)
(* Proofs about RootGrant, for any number of tasks, of calls and of root   *)
(* profiles: no failure on the way to root leaks or drops a reference, a   *)
(* task that may not escape never does, and every call that found the su   *)
(* log enabled is accounted for under the uid that asked.                  *)
(***************************************************************************)
EXTENDS RootGrant, FiniteSetTheorems, TLAPS

Positions == {"user", "capture", "escape", "alloc_uid", "ucounts", "flags", "captureGrant", "emit"}

\* With prepared credentials, and with a root profile.
Prepared == {"alloc_uid", "ucounts"}
Escaping == {"alloc_uid", "ucounts", "flags"}

Event == [uid : Uids, ret : {0, -12}, origin : Uids]

LocalTypes ==
  /\ cred \in [Tasks -> CredType \cup {None}]
  /\ new \in [Tasks -> CredType \cup {None}]
  /\ profile \in [Tasks -> Profiles \cup {None}]
  /\ no_escape \in [Tasks -> BOOLEAN]
  /\ pc \in [Tasks -> Positions]
  /\ kind \in [Tasks -> {"su", "ioctl"}]
  /\ ret \in [Tasks -> {0, -12}]
  /\ origin \in [Tasks -> Uids]
  /\ pending \in [Tasks -> Event \cup {None}]

\* What a task has at each position of escape_with_root_profile.
PlaceInv ==
  \A t \in Tasks :
    /\ new[t] # None <=> pc[t] \in Prepared
    /\ profile[t] # None <=> pc[t] \in Escaping
    /\ cred[t] = None => pc[t] = "user" /\ ~no_escape[t]
    /\ no_escape[t] => pc[t] \notin Escaping

LocalInv == LocalTypes /\ PlaceInv

RefTypes ==
  user_refs \in [Uids -> Int] /\ group_refs \in [Groups -> Int] /\ profile_refs \in Int

RefInv == LocalInv /\ RefTypes /\ RefsExact

Recording == {t \in Tasks : pending[t] # None}

\* An event is captured before the escape by su and after it by the ioctl; it
\* knows the uid at the call, or gets it when it is emitted.
CaptureInv ==
  \A t \in Tasks :
    /\ pc[t] = "capture" => kind[t] = "su" /\ cred[t].uid = origin[t]
    /\ pc[t] = "captureGrant" => kind[t] = "ioctl"
    /\ pending[t] # None => /\ pc[t] \in Escaping \cup {"escape", "emit"}
                            /\ pc[t] # "emit" => kind[t] = "su"
                            /\ pending[t].origin = origin[t]
                            /\ kind[t] = "su" => pending[t].uid = origin[t]

LogInv ==
  /\ issued \in Nat /\ due \in Nat
  /\ issued + Cardinality(Recording) = due
  /\ logged \in Seq(Event \cup {None})
  /\ \A s \in 1..Len(logged) : logged[s] # None => logged[s].uid = logged[s].origin

AuditInv == LocalInv /\ CaptureInv /\ LogInv

-----------------------------------------------------------------------------
(* Credentials and events are records.                                      *)

\* Credentials are told apart from the lack of them.
LEMMA NoCredIsNone == ASSUME NEW c \in CredType PROVE c # None
  BY DEF CredType, None

\* A profile is told apart from the lack of one.
LEMMA NoProfileIsNone == ASSUME NEW p \in Profiles PROVE p # None
  BY ConstantsAssumption DEF ProfileType, None

\* A captured event is told apart from the lack of one.
LEMMA NoEventIsNone == ASSUME NEW e \in Event PROVE e # None
  BY DEF Event, None

\* What ksu_sulog_capture_* fills in is an event.
LEMMA EventRecord ==
  ASSUME NEW u \in Uids, NEW o \in Uids
  PROVE LET e == [uid |-> u, ret |-> 0, origin |-> o]
        IN  e \in Event /\ e.uid = u /\ e.origin = o
  BY DEF Event

\* Writing the uid of prepared credentials keeps their user and groups.
LEMMA PrepareCreds ==
  ASSUME NEW c \in CredType, NEW p \in Profiles
  PROVE LET n == [c EXCEPT !.uid = p.uid]
        IN  n \in CredType /\ n # None /\ n.user = c.user /\ n.groups = c.groups
<1>1. p.uid \in Uids
  BY DEF Uids
<1>2. PICK u \in Uids : u = p.uid
  BY <1>1
<1>3. PICK n : n = [c EXCEPT !.uid = u]
  OBVIOUS
<1>4. n \in CredType /\ n.user = c.user /\ n.groups = c.groups
  BY <1>3 DEF CredType
<1> QED
  BY <1>2, <1>3, <1>4, NoCredIsNone

\* Replacing the user of prepared credentials keeps their groups.
LEMMA ChangeUser ==
  ASSUME NEW c \in CredType
  PROVE LET n == [c EXCEPT !.user = c.uid]
        IN  n \in CredType /\ n # None /\ n.user = c.uid /\ n.groups = c.groups
<1>1. PICK n : n = [c EXCEPT !.user = c.uid]
  OBVIOUS
<1>2. n \in CredType /\ n.user = c.uid /\ n.groups = c.groups
  BY <1>1 DEF CredType
<1> QED
  BY <1>1, <1>2, NoCredIsNone

\* The groups and capabilities of a root profile.
LEMMA CommitCreds ==
  ASSUME NEW t \in Tasks, new[t] \in CredType, profile[t] \in Profiles, NEW g \in NewGroups(t)
  PROVE LET c == [new[t] EXCEPT !.groups = g, !.effective = CapForKsud(profile[t]),
                                !.permitted = profile[t].effective]
        IN  g \in Groups /\ c \in CredType /\ c.user = new[t].user /\ c.groups = g
<1>1. PICK p \in Profiles : p = profile[t]
  OBVIOUS
<1>2. p \in ProfileType
  BY ConstantsAssumption
<1>3. p.groups \in Groups /\ p.effective \in SUBSET CapBits
  BY <1>2 DEF ProfileType, Groups
<1>4. PICK n \in CredType : n = new[t]
  OBVIOUS
<1>5. g \in Groups
  BY <1>1, <1>3, <1>4 DEF NewGroups, CredType
<1>6. Bits(CAP_DAC_READ_SEARCH) \in SUBSET CapBits
  BY DEF Bits
<1>7. PICK e \in SUBSET CapBits : e = CapForKsud(p)
  BY <1>3, <1>6 DEF CapForKsud
<1>8. PICK f \in SUBSET CapBits : f = p.effective
  BY <1>3
<1>9. PICK c : c = [n EXCEPT !.groups = g, !.effective = e, !.permitted = f]
  OBVIOUS
<1>10. c \in CredType /\ c.user = n.user /\ c.groups = g
  BY <1>5, <1>9 DEF CredType
<1> QED
  BY <1>1, <1>4, <1>5, <1>7, <1>8, <1>9, <1>10

-----------------------------------------------------------------------------
(* Where a task stands.                                                     *)

\* Every task is outside the driver at first.
LEMMA LocalInit == Init => LocalInv
<1> SUFFICES ASSUME Init PROVE LocalInv
  OBVIOUS
<1>1. AppUid \in Uids /\ AppCred \in CredType
  BY DEF Uids, AppCred, CredType, Groups
<1>2. cred \in [Tasks -> CredType \cup {None}]
  BY <1>1 DEF Init
<1> QED
  BY <1>1, <1>2 DEF Init, LocalInv, LocalTypes, PlaceInv, Positions, Prepared, Escaping

\* Every step keeps the tasks' locals as their positions say.
LEMMA LocalStep == LocalInv /\ [Next]_vars => LocalInv'
<1> SUFFICES ASSUME LocalInv, [Next]_vars PROVE LocalInv'
  OBVIOUS
<1> USE DEF LocalInv
<1>1. CASE ReadLog
  BY <1>1 DEF ReadLog, credVars, LocalTypes, PlaceInv, Positions, Prepared,
     Escaping
<1>2. CASE SetFeature
  BY <1>2 DEF SetFeature, credVars, logVars, LocalTypes, PlaceInv, Positions,
     Prepared, Escaping
<1>3. ASSUME NEW t \in Tasks, NEW k \in {"su", "ioctl"}, Call(t, k) PROVE LocalInv'
  <2>1. cred[t] \in CredType
    BY <1>3 DEF Call, LocalTypes
  <2>2. PICK u \in Uids : u = cred[t].uid
    BY <2>1 DEF CredType
  <2>3. LocalTypes'
    BY <1>3, <2>2 DEF Call, Goto, Set, credVars, logVars, LocalTypes, Positions
  <2>4. PlaceInv'
    BY <1>3 DEF Call, Goto, Set, credVars, logVars, LocalTypes, PlaceInv, Prepared, Escaping
  <2> QED
    BY <2>3, <2>4
<1>4. ASSUME NEW t \in Tasks, CaptureSu(t) PROVE LocalInv'
  <2>1. \/ UNCHANGED pending
        \/ pending' = [pending EXCEPT ![t] = [uid |-> cred[t].uid, ret |-> 0, origin |-> origin[t]]]
    BY <1>4 DEF CaptureSu, Capture, Set
  <2>2. pending' \in [Tasks -> Event \cup {None}]
    <3>1. cred[t] \in CredType /\ origin[t] \in Uids
      BY <1>4 DEF CaptureSu, LocalTypes, PlaceInv
    <3>2. [uid |-> cred[t].uid, ret |-> 0, origin |-> origin[t]] \in Event
      BY <3>1, EventRecord DEF CredType
    <3> QED
      BY <2>1, <3>2 DEF LocalTypes
  <2> QED
    BY <1>4, <2>2 DEF CaptureSu, Capture, Goto, Set, credVars, LocalTypes, PlaceInv, Positions,
       Prepared,
       Escaping
<1>5. ASSUME NEW t \in Tasks, CaptureGrant(t) PROVE LocalInv'
  <2>1. \/ UNCHANGED pending
        \/ pending' = [pending EXCEPT ![t] = [uid |-> cred[t].uid, ret |-> 0, origin |-> origin[t]]]
    BY <1>5 DEF CaptureGrant, Capture, Set
  <2>2. pending' \in [Tasks -> Event \cup {None}]
    <3>1. cred[t] \in CredType /\ origin[t] \in Uids
      BY <1>5 DEF CaptureGrant, LocalTypes, PlaceInv
    <3>2. [uid |-> cred[t].uid, ret |-> 0, origin |-> origin[t]] \in Event
      BY <3>1, EventRecord DEF CredType
    <3> QED
      BY <2>1, <3>2 DEF LocalTypes
  <2> QED
    BY <1>5, <2>2 DEF CaptureGrant, Capture, Goto, Set, credVars, LocalTypes, PlaceInv,
       Positions, Prepared,
       Escaping
<1>6. ASSUME NEW t \in Tasks, Emit(t) PROVE LocalInv'
  BY <1>6 DEF Emit, Goto, Set, credVars, LocalTypes, PlaceInv, Positions,
     Prepared, Escaping
<1>7. ASSUME NEW t \in Tasks, EscapeRefused(t) PROVE LocalInv'
  BY <1>7 DEF EscapeRefused, EndEscape, Goto, Set, credVars, otherVars, logVars,
     LocalInv, LocalTypes, PlaceInv, Positions, Prepared, Escaping
<1>8. ASSUME NEW t \in Tasks, EscapePrepare(t) PROVE LocalInv'
  <2>1. cred[t] \in CredType
    BY <1>8 DEF EscapePrepare, LocalTypes, PlaceInv
  <2>2. PICK p \in Profiles : /\ profile' = [profile EXCEPT ![t] = p]
                              /\ new' = [new EXCEPT ![t] = [cred[t] EXCEPT !.uid = p.uid]]
    BY <1>8 DEF EscapePrepare, Set
  <2>3. PICK n \in CredType : n = [cred[t] EXCEPT !.uid = p.uid] /\ n # None
    <3>1. [cred[t] EXCEPT !.uid = p.uid] \in CredType
      BY <2>1, PrepareCreds
    <3> QED
      BY <3>1, NoCredIsNone
  <2>4. new' = [new EXCEPT ![t] = n] /\ p # None
    BY <2>2, <2>3, NoProfileIsNone
  <2>5. LocalTypes'
    BY <1>8, <2>2, <2>3, <2>4 DEF EscapePrepare, Goto, Set, otherVars, LocalTypes, Positions
  <2>6. pc' = [pc EXCEPT ![t] = "alloc_uid"] /\ UNCHANGED <<cred, no_escape>>
        /\ cred[t] # None /\ ~no_escape[t]
    BY <1>8, <2>1, NoCredIsNone DEF EscapePrepare, MayEscape, Goto, Set
  <2>7. PlaceInv'
    BY <2>2, <2>3, <2>4, <2>6 DEF LocalTypes, PlaceInv, Prepared, Escaping
  <2> QED
    BY <2>5, <2>7
<1>9. ASSUME NEW t \in Tasks, EscapeNoUser(t) PROVE LocalInv'
  BY <1>9 DEF EscapeNoUser, Abort, PutProfile, RefCred, EndEscape, Goto, Set, otherVars,
     logVars, LocalTypes, PlaceInv, Positions, Prepared, Escaping
<1>10. ASSUME NEW t \in Tasks, EscapeUser(t) PROVE LocalInv'
  <2>1. new[t] \in CredType
    BY <1>10 DEF EscapeUser, LocalTypes, PlaceInv, Prepared
  <2>2. PICK n \in CredType : n = [new[t] EXCEPT !.user = new[t].uid] /\ n # None
    BY <2>1, ChangeUser
  <2>3. new' = [new EXCEPT ![t] = n]
    BY <1>10, <2>2 DEF EscapeUser, Set
  <2> QED
    BY <1>10, <2>2, <2>3 DEF EscapeUser, Goto, Set, otherVars, LocalTypes, PlaceInv, Positions,
       Prepared, Escaping
<1>11. ASSUME NEW t \in Tasks, EscapeNoUcounts(t) PROVE LocalInv'
  BY <1>11 DEF EscapeNoUcounts, Abort, PutProfile, RefCred, EndEscape, Goto, Set,
     otherVars, logVars, LocalTypes, PlaceInv, Positions, Prepared, Escaping
<1>12. ASSUME NEW t \in Tasks, EscapeCommit(t) PROVE LocalInv'
  <2>1. new[t] \in CredType /\ profile[t] \in Profiles
    BY <1>12 DEF EscapeCommit, LocalTypes, PlaceInv, Prepared, Escaping
  <2>2. PICK c \in CredType : cred' = [cred EXCEPT ![t] = c]
    BY <1>12, <2>1, CommitCreds DEF EscapeCommit, Set
  <2>3. c # None
    BY NoCredIsNone
  <2> QED
    BY <1>12, <2>2, <2>3 DEF EscapeCommit, Goto, Set, otherVars, LocalTypes, PlaceInv, Positions,
       Prepared, Escaping
<1>13. ASSUME NEW t \in Tasks, EscapeFlags(t) PROVE LocalInv'
  BY <1>13 DEF EscapeFlags, PutProfile, EndEscape, Goto, Set, otherVars, logVars,
     LocalInv, LocalTypes, PlaceInv, Positions, Prepared, Escaping
<1>14. ASSUME NEW t \in Tasks, DisableEscape(t) PROVE LocalInv'
  BY <1>14 DEF DisableEscape, Set, otherVars, logVars, LocalTypes, PlaceInv,
     Positions, Prepared, Escaping
<1>15. ASSUME NEW t \in Tasks, NEW s \in Tasks, Fork(t, s) PROVE LocalInv'
  BY <1>15 DEF Fork, RefCred, Set, otherVars, logVars, LocalTypes, PlaceInv,
     Positions, Prepared, Escaping
<1>16. CASE UNCHANGED vars
  BY <1>16 DEF vars, credVars, logVars, LocalTypes, PlaceInv, Positions,
     Prepared, Escaping
<1> QED
  BY <1>1, <1>2, <1>3, <1>4, <1>5, <1>6, <1>7, <1>8, <1>9, <1>10, <1>11, <1>12, <1>13,
     <1>14, <1>15, <1>16 DEF Next

\* The tasks' locals are always as their positions say.
LEMMA LocalAlways == Spec => []LocalInv
<1>1. Init => LocalInv
  BY LocalInit
<1>2. LocalInv /\ [Next]_vars => LocalInv'
  BY LocalStep
<1> QED
  BY <1>1, <1>2, PTL DEF Spec

\* One step of NoEscapeAgain
NoEscape == \A t \in Tasks : no_escape[t] => cred'[t] = cred[t] /\ no_escape'[t]

\* No step changes the credentials of a task that may not escape.
LEMMA NoEscapeStep == LocalInv /\ [Next]_vars => NoEscape
<1> SUFFICES ASSUME LocalInv, [Next]_vars PROVE NoEscape
  OBVIOUS
<1>0. LocalTypes /\ PlaceInv
  BY DEF LocalInv
<1>1. CASE ReadLog
  BY <1>1, <1>0 DEF ReadLog, credVars, NoEscape, LocalTypes, PlaceInv, Escaping
<1>2. CASE SetFeature
  BY <1>2, <1>0 DEF SetFeature, credVars, logVars, NoEscape, LocalTypes, PlaceInv,
     Escaping
<1>3. ASSUME NEW t \in Tasks, NEW k \in {"su", "ioctl"}, Call(t, k) PROVE NoEscape
  BY <1>3, <1>0 DEF Call, Goto, Set, credVars, logVars, NoEscape, LocalTypes, PlaceInv,
     Escaping
<1>4. ASSUME NEW t \in Tasks, CaptureSu(t) PROVE NoEscape
  BY <1>4, <1>0 DEF CaptureSu, Capture, Goto, Set, credVars, NoEscape, LocalTypes,
     PlaceInv, Escaping
<1>5. ASSUME NEW t \in Tasks, CaptureGrant(t) PROVE NoEscape
  BY <1>5, <1>0 DEF CaptureGrant, Capture, Goto, Set, credVars, NoEscape, LocalTypes,
     PlaceInv, Escaping
<1>6. ASSUME NEW t \in Tasks, Emit(t) PROVE NoEscape
  BY <1>6, <1>0 DEF Emit, Goto, Set, credVars, NoEscape, LocalTypes, PlaceInv, Escaping
<1>7. ASSUME NEW t \in Tasks, EscapeRefused(t) PROVE NoEscape
  BY <1>7, <1>0 DEF EscapeRefused, EndEscape, Goto, Set, credVars, otherVars, logVars,
     NoEscape, LocalTypes, PlaceInv, Escaping
<1>8. ASSUME NEW t \in Tasks, EscapePrepare(t) PROVE NoEscape
  BY <1>8, <1>0 DEF EscapePrepare, MayEscape, RefCred, Goto, Set, otherVars, logVars,
     NoEscape, LocalTypes, PlaceInv, Escaping
<1>9. ASSUME NEW t \in Tasks, EscapeNoUser(t) PROVE NoEscape
  BY <1>9, <1>0 DEF EscapeNoUser, Abort, PutProfile, RefCred, EndEscape, Goto, Set,
     otherVars, logVars, NoEscape, LocalTypes, PlaceInv, Escaping
<1>10. ASSUME NEW t \in Tasks, EscapeUser(t) PROVE NoEscape
  BY <1>10, <1>0 DEF EscapeUser, Goto, Set, otherVars, logVars, NoEscape, LocalTypes,
     PlaceInv, Escaping
<1>11. ASSUME NEW t \in Tasks, EscapeNoUcounts(t) PROVE NoEscape
  BY <1>11, <1>0 DEF EscapeNoUcounts, Abort, PutProfile, RefCred, EndEscape, Goto, Set,
     otherVars, logVars, NoEscape, LocalTypes, PlaceInv, Escaping
<1>12. ASSUME NEW t \in Tasks, EscapeCommit(t) PROVE NoEscape
  BY <1>12, <1>0 DEF EscapeCommit, Goto, Set, otherVars, logVars, NoEscape, LocalTypes,
     PlaceInv, Escaping
<1>13. ASSUME NEW t \in Tasks, EscapeFlags(t) PROVE NoEscape
  BY <1>13, <1>0 DEF EscapeFlags, PutProfile, EndEscape, Goto, Set, otherVars, logVars,
     NoEscape, LocalTypes, PlaceInv, Escaping
<1>14. ASSUME NEW t \in Tasks, DisableEscape(t) PROVE NoEscape
  BY <1>14, <1>0 DEF DisableEscape, Set, otherVars, logVars, NoEscape, LocalTypes,
     PlaceInv, Escaping
<1>15. ASSUME NEW t \in Tasks, NEW s \in Tasks, Fork(t, s) PROVE NoEscape
  BY <1>15, <1>0 DEF Fork, RefCred, Set, otherVars, logVars, NoEscape, LocalTypes,
     PlaceInv, Escaping
<1>16. CASE UNCHANGED vars
  BY <1>16 DEF vars, credVars, logVars, NoEscape, LocalTypes, PlaceInv, Escaping
<1> QED
  BY <1>1, <1>2, <1>3, <1>4, <1>5, <1>6, <1>7, <1>8, <1>9, <1>10, <1>11, <1>12, <1>13,
     <1>14, <1>15, <1>16 DEF Next

\* A task that may not escape keeps its credentials and the flag.
THEOREM FlaggedTasksKeepTheirCredentials == Spec => NoEscapeAgain
<1>1. LocalInv /\ [Next]_vars => [NoEscape]_vars
  BY NoEscapeStep
<1>2. Spec => [][NoEscape]_vars
  BY <1>1, LocalAlways, PTL DEF Spec
<1> QED
  BY <1>2 DEF NoEscapeAgain, NoEscape

-----------------------------------------------------------------------------
(* References.  What one task adds to a count changes as the task does.     *)

One(b) == IF b THEN 1 ELSE 0
HasUser(c, u) == c # None /\ c.user = u
HasGroups(c, g) == c # None /\ c.groups = g
Counted(p) == p # None /\ ~p.default

\* Two sets of tasks that differ in one task at most.
LEMMA CountMoves ==
  ASSUME NEW A \in SUBSET Tasks, NEW B \in SUBSET Tasks, NEW t \in Tasks, A \ {t} = B \ {t}
  PROVE /\ Cardinality(A) \in Nat
        /\ Cardinality(B) = Cardinality(A) + One(t \in B) - One(t \in A)
<1>1. IsFiniteSet(A) /\ IsFiniteSet(B)
  BY ConstantsAssumption, FS_Subset
<1>2. Cardinality(A) \in Nat /\ Cardinality(B) \in Nat
  BY <1>1, FS_CardinalityType
<1>3. IsFiniteSet(A \ {t}) /\ Cardinality(A \ {t}) = Cardinality(A) - One(t \in A)
  BY <1>1, <1>2, FS_RemoveElement DEF One
<1>4. IsFiniteSet(B \ {t}) /\ Cardinality(B \ {t}) = Cardinality(B) - One(t \in B)
  BY <1>1, <1>2, FS_RemoveElement DEF One
<1> QED
  BY <1>2, <1>3, <1>4 DEF One

\* Giving one task other credentials changes who counts for a user by that task.
LEMMA UsersMove ==
  ASSUME NEW f \in [Tasks -> CredType \cup {None}], NEW t \in Tasks,
         NEW c \in CredType \cup {None}, NEW u
  PROVE /\ Cardinality(OfUser(f, u)) \in Nat
        /\ Cardinality(OfUser([f EXCEPT ![t] = c], u)) =
             Cardinality(OfUser(f, u)) + One(HasUser(c, u)) - One(HasUser(f[t], u))
<1> DEFINE h == [f EXCEPT ![t] = c]
<1>1. h[t] = c /\ \A s \in Tasks \ {t} : h[s] = f[s]
  OBVIOUS
<1> HIDE DEF h
<1>2. OfUser(f, u) \in SUBSET Tasks /\ OfUser(h, u) \in SUBSET Tasks
  BY DEF OfUser
<1>3. OfUser(f, u) \ {t} = OfUser(h, u) \ {t}
  BY <1>1 DEF OfUser
<1>4. (t \in OfUser(h, u) <=> HasUser(c, u)) /\ (t \in OfUser(f, u) <=> HasUser(f[t], u))
  BY <1>1 DEF OfUser, HasUser
<1>5. /\ Cardinality(OfUser(f, u)) \in Nat
      /\ Cardinality(OfUser(h, u)) = Cardinality(OfUser(f, u)) + One(t \in OfUser(h, u)) - One(t \in OfUser(f, u))
  BY <1>2, <1>3, CountMoves
<1> QED
  BY <1>4, <1>5 DEF One, h

\* The same for the groups.
LEMMA GroupsMove ==
  ASSUME NEW f \in [Tasks -> CredType \cup {None}], NEW t \in Tasks,
         NEW c \in CredType \cup {None}, NEW g
  PROVE /\ Cardinality(OfGroups(f, g)) \in Nat
        /\ Cardinality(OfGroups([f EXCEPT ![t] = c], g)) =
             Cardinality(OfGroups(f, g)) + One(HasGroups(c, g)) - One(HasGroups(f[t], g))
<1> DEFINE h == [f EXCEPT ![t] = c]
<1>1. h[t] = c /\ \A s \in Tasks \ {t} : h[s] = f[s]
  OBVIOUS
<1> HIDE DEF h
<1>2. OfGroups(f, g) \in SUBSET Tasks /\ OfGroups(h, g) \in SUBSET Tasks
  BY DEF OfGroups
<1>3. OfGroups(f, g) \ {t} = OfGroups(h, g) \ {t}
  BY <1>1 DEF OfGroups
<1>4. (t \in OfGroups(h, g) <=> HasGroups(c, g)) /\ (t \in OfGroups(f, g) <=> HasGroups(f[t], g))
  BY <1>1 DEF OfGroups, HasGroups
<1>5. /\ Cardinality(OfGroups(f, g)) \in Nat
      /\ Cardinality(OfGroups(h, g)) = Cardinality(OfGroups(f, g)) + One(t \in OfGroups(h, g)) - One(t \in OfGroups(f, g))
  BY <1>2, <1>3, CountMoves
<1> QED
  BY <1>4, <1>5 DEF One, h

\* The same for the profile references that tasks hold.
LEMMA ProfilesMove ==
  ASSUME LocalTypes, NEW t \in Tasks, NEW p \in Profiles \cup {None},
         profile' = [profile EXCEPT ![t] = p]
  PROVE /\ Cardinality(HoldsProfile) \in Nat
        /\ Cardinality(HoldsProfile') =
             Cardinality(HoldsProfile) + One(Counted(p)) - One(Counted(profile[t]))
<1>1. profile'[t] = p /\ \A s \in Tasks \ {t} : profile'[s] = profile[s]
  BY DEF LocalTypes
<1>2. HoldsProfile \in SUBSET Tasks /\ HoldsProfile' \in SUBSET Tasks
  BY DEF HoldsProfile
<1>3. HoldsProfile \ {t} = HoldsProfile' \ {t}
  BY <1>1 DEF HoldsProfile
<1>4. (t \in HoldsProfile' <=> Counted(p)) /\ (t \in HoldsProfile <=> Counted(profile[t]))
  BY <1>1 DEF HoldsProfile, Counted
<1> QED
  BY <1>2, <1>3, <1>4, CountMoves DEF One

\* A step of task t that leaves it with credentials c, prepared credentials n and
\* profile p keeps the counts exact when it changes them by the difference.
LEMMA RefsMove ==
  ASSUME RefInv, NEW t \in Tasks,
         NEW c \in CredType \cup {None}, cred' = [cred EXCEPT ![t] = c],
         NEW n \in CredType \cup {None}, new' = [new EXCEPT ![t] = n],
         NEW p \in Profiles \cup {None}, profile' = [profile EXCEPT ![t] = p],
         user_refs' = [u \in Uids |-> user_refs[u]
           + One(HasUser(c, u)) - One(HasUser(cred[t], u))
           + One(HasUser(n, u)) - One(HasUser(new[t], u))],
         group_refs' = [g \in Groups |-> group_refs[g]
           + One(HasGroups(c, g)) - One(HasGroups(cred[t], g))
           + One(HasGroups(n, g)) - One(HasGroups(new[t], g))],
         profile_refs' = profile_refs + One(Counted(p)) - One(Counted(profile[t]))
  PROVE RefTypes' /\ RefsExact'
<1>0. LocalTypes /\ RefTypes /\ RefsExact
  BY DEF RefInv, LocalInv
<1>1. RefTypes'
  <2>1. \A b : One(b) \in Int
    BY DEF One
  <2>2. user_refs' \in [Uids -> Int]
    BY <1>0, <2>1 DEF RefTypes
  <2>3. group_refs' \in [Groups -> Int]
    BY <1>0, <2>1 DEF RefTypes
  <2> QED
    BY <1>0, <2>1, <2>2, <2>3 DEF RefTypes
<1>2. ASSUME NEW u \in Uids
      PROVE user_refs'[u] = Cardinality(OfUser(cred', u)) + Cardinality(OfUser(new', u))
  <2>1. /\ Cardinality(OfUser(cred, u)) \in Nat
        /\ Cardinality(OfUser(cred', u)) =
             Cardinality(OfUser(cred, u)) + One(HasUser(c, u)) - One(HasUser(cred[t], u))
    BY <1>0, UsersMove DEF LocalTypes
  <2>2. /\ Cardinality(OfUser(new, u)) \in Nat
        /\ Cardinality(OfUser(new', u)) =
             Cardinality(OfUser(new, u)) + One(HasUser(n, u)) - One(HasUser(new[t], u))
    BY <1>0, UsersMove DEF LocalTypes
  <2>3. user_refs[u] = Cardinality(OfUser(cred, u)) + Cardinality(OfUser(new, u))
    BY <1>0 DEF RefsExact
  <2>4. user_refs'[u] = user_refs[u] + One(HasUser(c, u)) - One(HasUser(cred[t], u))
                                     + One(HasUser(n, u)) - One(HasUser(new[t], u))
    OBVIOUS
  <2> QED
    BY <2>1, <2>2, <2>3, <2>4 DEF One
<1>3. ASSUME NEW g \in Groups
      PROVE group_refs'[g] = Cardinality(OfGroups(cred', g)) + Cardinality(OfGroups(new', g))
                               + (IF g = "root" THEN 2 ELSE 0)
  <2>1. /\ Cardinality(OfGroups(cred, g)) \in Nat
        /\ Cardinality(OfGroups(cred', g)) =
             Cardinality(OfGroups(cred, g)) + One(HasGroups(c, g)) - One(HasGroups(cred[t], g))
    BY <1>0, GroupsMove DEF LocalTypes
  <2>2. /\ Cardinality(OfGroups(new, g)) \in Nat
        /\ Cardinality(OfGroups(new', g)) =
             Cardinality(OfGroups(new, g)) + One(HasGroups(n, g)) - One(HasGroups(new[t], g))
    BY <1>0, GroupsMove DEF LocalTypes
  <2>3. group_refs[g] = Cardinality(OfGroups(cred, g)) + Cardinality(OfGroups(new, g))
                          + (IF g = "root" THEN 2 ELSE 0)
    BY <1>0 DEF RefsExact
  <2>4. group_refs'[g] = group_refs[g] + One(HasGroups(c, g)) - One(HasGroups(cred[t], g))
                                       + One(HasGroups(n, g)) - One(HasGroups(new[t], g))
    OBVIOUS
  <2> QED
    BY <2>1, <2>2, <2>3, <2>4 DEF One
<1>4. profile_refs' = Cardinality(HoldsProfile')
  <2>1. /\ Cardinality(HoldsProfile) \in Nat
        /\ Cardinality(HoldsProfile') =
             Cardinality(HoldsProfile) + One(Counted(p)) - One(Counted(profile[t]))
    BY <1>0, ProfilesMove
  <2>2. profile_refs = Cardinality(HoldsProfile)
    BY <1>0 DEF RefsExact
  <2> QED
    BY <2>1, <2>2 DEF One
<1> QED
  BY <1>1, <1>2, <1>3, <1>4 DEF RefsExact

\* At first every task has a reference to its user and its groups.
LEMMA RefInit == Init => RefInv
<1> SUFFICES ASSUME Init PROVE RefInv
  OBVIOUS
<1>1. LocalInv
  BY LocalInit
<1>2. RefTypes
  BY DEF Init, RefTypes
<1>3. IsFiniteSet({}) /\ Cardinality({}) = 0
  BY FS_EmptySet
<1>4. Cardinality({FirstTask}) = 1
  BY FS_Singleton
<1>5. AppCred # None /\ AppCred.user = AppUid /\ AppCred.groups = "app"
  BY DEF AppCred, None
<1>6. ASSUME NEW u \in Uids
      PROVE user_refs[u] = Cardinality(OfUser(cred, u)) + Cardinality(OfUser(new, u))
  <2>1. OfUser(new, u) = {}
    BY DEF Init, OfUser
  <2>2. OfUser(cred, u) = IF u = AppUid THEN {FirstTask} ELSE {}
    BY <1>5, ConstantsAssumption DEF Init, OfUser
  <2>3. user_refs[u] = IF u = AppUid THEN 1 ELSE 0
    BY DEF Init
  <2> QED
    BY <1>3, <1>4, <2>1, <2>2, <2>3
<1>7. ASSUME NEW g \in Groups
      PROVE group_refs[g] = Cardinality(OfGroups(cred, g)) + Cardinality(OfGroups(new, g))
                              + (IF g = "root" THEN 2 ELSE 0)
  <2>1. OfGroups(new, g) = {}
    BY DEF Init, OfGroups
  <2>2. OfGroups(cred, g) = IF g = "app" THEN {FirstTask} ELSE {}
    BY <1>5, ConstantsAssumption DEF Init, OfGroups
  <2>3. group_refs[g] = IF g = "app" THEN 1 ELSE IF g = "root" THEN 2 ELSE 0
    BY DEF Init
  <2> QED
    BY <1>3, <1>4, <2>1, <2>2, <2>3
<1>8. HoldsProfile = {}
  BY DEF Init, HoldsProfile
<1>9. profile_refs = Cardinality(HoldsProfile)
  BY <1>3, <1>8 DEF Init
<1> QED
  BY <1>1, <1>2, <1>6, <1>7, <1>9 DEF RefInv, RefsExact

\* No credentials, no references.
LEMMA NoneHasNothing ==
  /\ \A x : One(HasUser(None, x)) = 0 /\ One(HasGroups(None, x)) = 0
  /\ One(Counted(None)) = 0
  BY DEF One, HasUser, HasGroups, Counted

\* get_uid and get_group_info of credentials, and their put
LEMMA TakeRefs ==
  ASSUME RefTypes, NEW c \in CredType, RefCred(c, 1)
  PROVE /\ user_refs' = [u \in Uids |-> user_refs[u] + One(HasUser(c, u))]
        /\ group_refs' = [g \in Groups |-> group_refs[g] + One(HasGroups(c, g))]
<1>1. c # None /\ c.user \in Uids /\ c.groups \in Groups
  BY NoCredIsNone DEF CredType
<1>2. \A x : /\ One(HasUser(c, x)) = (IF x = c.user THEN 1 ELSE 0)
             /\ One(HasGroups(c, x)) = (IF x = c.groups THEN 1 ELSE 0)
  BY <1>1 DEF One, HasUser, HasGroups
<1>3. /\ user_refs' = [user_refs EXCEPT ![c.user] = @ + (1)]
      /\ group_refs' = [group_refs EXCEPT ![c.groups] = @ + (1)]
  BY DEF RefCred
<1>4. user_refs' = [u \in Uids |-> user_refs[u] + One(HasUser(c, u))]
  <2> DEFINE e == [u \in Uids |-> user_refs[u] + One(HasUser(c, u))]
  <2>1. PICK v \in Uids : v = c.user
    BY <1>1
  <2>2. user_refs' \in [Uids -> Int] /\ \A y \in Uids : user_refs'[y] = IF y = v THEN user_refs[y] + 1 ELSE user_refs[y]
    BY <1>3, <2>1 DEF RefTypes
  <2>3. e \in [Uids -> Int] /\ \A y \in Uids : e[y] = user_refs[y] + One(HasUser(c, y))
    BY <1>2 DEF RefTypes
  <2>4. \A y \in Uids : e[y] = IF y = v THEN user_refs[y] + 1 ELSE user_refs[y]
    BY <1>2, <2>1, <2>3 DEF RefTypes
  <2> HIDE DEF e
  <2>5. user_refs' = e
    BY <2>2, <2>3, <2>4
  <2> QED
    BY <2>5 DEF e
<1>5. group_refs' = [g \in Groups |-> group_refs[g] + One(HasGroups(c, g))]
  <2> DEFINE e == [g \in Groups |-> group_refs[g] + One(HasGroups(c, g))]
  <2>1. PICK v \in Groups : v = c.groups
    BY <1>1
  <2>2. group_refs' \in [Groups -> Int] /\ \A y \in Groups : group_refs'[y] = IF y = v THEN group_refs[y] + 1 ELSE group_refs[y]
    BY <1>3, <2>1 DEF RefTypes
  <2>3. e \in [Groups -> Int] /\ \A y \in Groups : e[y] = group_refs[y] + One(HasGroups(c, y))
    BY <1>2 DEF RefTypes
  <2>4. \A y \in Groups : e[y] = IF y = v THEN group_refs[y] + 1 ELSE group_refs[y]
    BY <1>2, <2>1, <2>3 DEF RefTypes
  <2> HIDE DEF e
  <2>5. group_refs' = e
    BY <2>2, <2>3, <2>4
  <2> QED
    BY <2>5 DEF e
<1> QED
  BY <1>4, <1>5

\* The put of the user and the groups of credentials.
LEMMA DropRefs ==
  ASSUME RefTypes, NEW c \in CredType, RefCred(c, -1)
  PROVE /\ user_refs' = [u \in Uids |-> user_refs[u] - One(HasUser(c, u))]
        /\ group_refs' = [g \in Groups |-> group_refs[g] - One(HasGroups(c, g))]
<1>1. c # None /\ c.user \in Uids /\ c.groups \in Groups
  BY NoCredIsNone DEF CredType
<1>2. \A x : /\ One(HasUser(c, x)) = (IF x = c.user THEN 1 ELSE 0)
             /\ One(HasGroups(c, x)) = (IF x = c.groups THEN 1 ELSE 0)
  BY <1>1 DEF One, HasUser, HasGroups
<1>3. /\ user_refs' = [user_refs EXCEPT ![c.user] = @ + (-1)]
      /\ group_refs' = [group_refs EXCEPT ![c.groups] = @ + (-1)]
  BY DEF RefCred
<1>4. user_refs' = [u \in Uids |-> user_refs[u] - One(HasUser(c, u))]
  <2> DEFINE e == [u \in Uids |-> user_refs[u] - One(HasUser(c, u))]
  <2>1. PICK v \in Uids : v = c.user
    BY <1>1
  <2>2. user_refs' \in [Uids -> Int] /\ \A y \in Uids : user_refs'[y] = IF y = v THEN user_refs[y] - 1 ELSE user_refs[y]
    BY <1>3, <2>1 DEF RefTypes
  <2>3. e \in [Uids -> Int] /\ \A y \in Uids : e[y] = user_refs[y] - One(HasUser(c, y))
    BY <1>2 DEF RefTypes
  <2>4. \A y \in Uids : e[y] = IF y = v THEN user_refs[y] - 1 ELSE user_refs[y]
    BY <1>2, <2>1, <2>3 DEF RefTypes
  <2> HIDE DEF e
  <2>5. user_refs' = e
    BY <2>2, <2>3, <2>4
  <2> QED
    BY <2>5 DEF e
<1>5. group_refs' = [g \in Groups |-> group_refs[g] - One(HasGroups(c, g))]
  <2> DEFINE e == [g \in Groups |-> group_refs[g] - One(HasGroups(c, g))]
  <2>1. PICK v \in Groups : v = c.groups
    BY <1>1
  <2>2. group_refs' \in [Groups -> Int] /\ \A y \in Groups : group_refs'[y] = IF y = v THEN group_refs[y] - 1 ELSE group_refs[y]
    BY <1>3, <2>1 DEF RefTypes
  <2>3. e \in [Groups -> Int] /\ \A y \in Groups : e[y] = group_refs[y] - One(HasGroups(c, y))
    BY <1>2 DEF RefTypes
  <2>4. \A y \in Groups : e[y] = IF y = v THEN group_refs[y] - 1 ELSE group_refs[y]
    BY <1>2, <2>1, <2>3 DEF RefTypes
  <2> HIDE DEF e
  <2>5. group_refs' = e
    BY <2>2, <2>3, <2>4
  <2> QED
    BY <2>5 DEF e
<1> QED
  BY <1>4, <1>5

\* Every step keeps the reference counts exact.
LEMMA RefStep == RefInv /\ [Next]_vars => RefInv'
<1> SUFFICES ASSUME RefInv, [Next]_vars PROVE RefTypes' /\ RefsExact'
  BY LocalStep DEF RefInv
<1>0. LocalTypes /\ RefTypes /\ RefsExact
  BY DEF RefInv, LocalInv
<1>a. \A b : One(b) \in Int
  BY DEF One
<1>b. UNCHANGED <<cred, new, profile, user_refs, group_refs, profile_refs>> => RefTypes' /\ RefsExact'
  BY <1>0 DEF RefTypes, RefsExact, OfUser, OfGroups, HoldsProfile
<1>1. CASE ReadLog
  BY <1>1, <1>b DEF ReadLog, credVars
<1>2. CASE SetFeature
  BY <1>2, <1>b DEF SetFeature, credVars
<1>3. ASSUME NEW t \in Tasks, NEW k \in {"su", "ioctl"}, Call(t, k) PROVE RefTypes' /\ RefsExact'
  BY <1>3, <1>b DEF Call, credVars
<1>4. ASSUME NEW t \in Tasks, CaptureSu(t) PROVE RefTypes' /\ RefsExact'
  BY <1>4, <1>b DEF CaptureSu, Capture, credVars
<1>5. ASSUME NEW t \in Tasks, CaptureGrant(t) PROVE RefTypes' /\ RefsExact'
  BY <1>5, <1>b DEF CaptureGrant, Capture, credVars
<1>6. ASSUME NEW t \in Tasks, Emit(t) PROVE RefTypes' /\ RefsExact'
  BY <1>6, <1>b DEF Emit, credVars
<1>7. ASSUME NEW t \in Tasks, EscapeRefused(t) PROVE RefTypes' /\ RefsExact'
  BY <1>7, <1>b DEF EscapeRefused, credVars
<1>8. ASSUME NEW t \in Tasks, EscapePrepare(t) PROVE RefTypes' /\ RefsExact'
  <2>1. cred[t] \in CredType /\ new[t] = None /\ profile[t] = None
    BY <1>8 DEF EscapePrepare, RefInv, LocalInv, LocalTypes, PlaceInv, Prepared, Escaping
  <2>2. PICK p \in Profiles : /\ profile' = [profile EXCEPT ![t] = p]
                              /\ profile_refs' = profile_refs + (IF p.default THEN 0 ELSE 1)
                              /\ new' = [new EXCEPT ![t] = [cred[t] EXCEPT !.uid = p.uid]]
    BY <1>8 DEF EscapePrepare, Set
  <2>3. PICK c \in CredType : c = cred[t]
    BY <2>1
  <2>4. PICK n : n = [c EXCEPT !.uid = p.uid]
    OBVIOUS
  <2>5. n \in CredType /\ n # None /\ n.user = c.user /\ n.groups = c.groups
    BY <2>4, PrepareCreds
  <2>6. c # None /\ p # None
    BY NoCredIsNone, NoProfileIsNone
  <2>7. /\ cred' = [cred EXCEPT ![t] = cred[t]]
        /\ new' = [new EXCEPT ![t] = n]
        /\ RefCred(c, 1)
    BY <1>8, <1>0, <2>2, <2>3, <2>4 DEF EscapePrepare, LocalTypes
  <2>8. \A x : HasUser(n, x) = HasUser(c, x) /\ HasGroups(n, x) = HasGroups(c, x)
    BY <2>5, <2>6 DEF HasUser, HasGroups
  <2>9. user_refs' = [u \in Uids |-> user_refs[u]
           + One(HasUser(cred[t], u)) - One(HasUser(cred[t], u))
           + One(HasUser(n, u)) - One(HasUser(new[t], u))]
    BY <1>0, <1>a, <2>1, <2>3, <2>7, <2>8, TakeRefs, NoneHasNothing DEF RefTypes
  <2>10. group_refs' = [g \in Groups |-> group_refs[g]
           + One(HasGroups(cred[t], g)) - One(HasGroups(cred[t], g))
           + One(HasGroups(n, g)) - One(HasGroups(new[t], g))]
    BY <1>0, <1>a, <2>1, <2>3, <2>7, <2>8, TakeRefs, NoneHasNothing DEF RefTypes
  <2>11. profile_refs' = profile_refs + One(Counted(p)) - One(Counted(profile[t]))
    BY <1>0, <2>1, <2>2, <2>6, NoneHasNothing DEF RefTypes, One, Counted
  <2> QED
    BY <2>1, <2>2, <2>5, <2>7, <2>9, <2>10, <2>11, RefsMove
<1>9. ASSUME NEW t \in Tasks, EscapeNoUser(t) PROVE RefTypes' /\ RefsExact'
  <2>1. new[t] \in CredType /\ profile[t] \in Profiles
    BY <1>9 DEF EscapeNoUser, RefInv, LocalInv, LocalTypes, PlaceInv, Prepared, Escaping
  <2>2. PICK n \in CredType : n = new[t]
    BY <2>1
  <2>3. /\ cred' = [cred EXCEPT ![t] = cred[t]]
        /\ new' = [new EXCEPT ![t] = None]
        /\ profile' = [profile EXCEPT ![t] = None]
        /\ RefCred(n, -1)
        /\ profile_refs' = profile_refs - (IF profile[t].default THEN 0 ELSE 1)
    BY <1>9, <1>0, <2>2 DEF EscapeNoUser, Abort, PutProfile, Set, LocalTypes
  <2>4. user_refs' = [u \in Uids |-> user_refs[u]
           + One(HasUser(cred[t], u)) - One(HasUser(cred[t], u))
           + One(HasUser(None, u)) - One(HasUser(new[t], u))]
    BY <1>0, <1>a, <2>2, <2>3, DropRefs, NoneHasNothing DEF RefTypes
  <2>5. group_refs' = [g \in Groups |-> group_refs[g]
           + One(HasGroups(cred[t], g)) - One(HasGroups(cred[t], g))
           + One(HasGroups(None, g)) - One(HasGroups(new[t], g))]
    BY <1>0, <1>a, <2>2, <2>3, DropRefs, NoneHasNothing DEF RefTypes
  <2>6. profile_refs' = profile_refs + One(Counted(None)) - One(Counted(profile[t]))
    BY <1>0, <2>1, <2>3, NoProfileIsNone, NoneHasNothing DEF RefTypes, One, Counted
  <2>7. cred[t] \in CredType \cup {None}
    BY <1>0 DEF LocalTypes
  <2> QED
    BY <2>3, <2>4, <2>5, <2>6, <2>7, RefsMove
<1>10. ASSUME NEW t \in Tasks, EscapeUser(t) PROVE RefTypes' /\ RefsExact'
  <2>1. new[t] \in CredType /\ cred[t] \in CredType \cup {None} /\ profile[t] \in Profiles \cup {None}
    BY <1>10 DEF EscapeUser, RefInv, LocalInv, LocalTypes, PlaceInv, Prepared
  <2>2. PICK o \in CredType : o = new[t] /\ o # None
    BY <2>1, NoCredIsNone
  <2>3. PICK n : n = [o EXCEPT !.user = o.uid]
    OBVIOUS
  <2>4. n \in CredType /\ n # None /\ n.user = o.uid /\ n.groups = o.groups
    BY <2>3, ChangeUser
  <2>5. /\ cred' = [cred EXCEPT ![t] = cred[t]]
        /\ new' = [new EXCEPT ![t] = n]
        /\ profile' = [profile EXCEPT ![t] = profile[t]]
    BY <1>10, <1>0, <2>2, <2>3 DEF EscapeUser, Set, LocalTypes
  <2>11. /\ user_refs' = [u \in Uids |-> user_refs[u] + (IF u = o.uid THEN 1 ELSE 0)
                                                      - (IF u = o.user THEN 1 ELSE 0)]
         /\ group_refs' = group_refs /\ profile_refs' = profile_refs
    BY <1>10, <2>2 DEF EscapeUser
  <2>6. \A x : One(HasUser(n, x)) = (IF x = o.uid THEN 1 ELSE 0)
               /\ One(HasUser(o, x)) = (IF x = o.user THEN 1 ELSE 0)
    BY <2>2, <2>4 DEF HasUser, One
  <2>7. \A x : HasGroups(n, x) = HasGroups(o, x)
    BY <2>2, <2>4 DEF HasGroups
  <2>8. user_refs' = [u \in Uids |-> user_refs[u]
           + One(HasUser(cred[t], u)) - One(HasUser(cred[t], u))
           + One(HasUser(n, u)) - One(HasUser(new[t], u))]
    BY <1>0, <1>a, <2>2, <2>6, <2>11 DEF RefTypes
  <2>9. group_refs' = [g \in Groups |-> group_refs[g]
           + One(HasGroups(cred[t], g)) - One(HasGroups(cred[t], g))
           + One(HasGroups(n, g)) - One(HasGroups(new[t], g))]
    BY <1>0, <1>a, <2>2, <2>7, <2>11 DEF RefTypes
  <2>10. profile_refs' = profile_refs + One(Counted(profile[t])) - One(Counted(profile[t]))
    BY <1>0, <1>a, <2>11 DEF RefTypes
  <2> QED
    BY <2>1, <2>4, <2>5, <2>8, <2>9, <2>10, RefsMove
<1>11. ASSUME NEW t \in Tasks, EscapeNoUcounts(t) PROVE RefTypes' /\ RefsExact'
  <2>1. new[t] \in CredType /\ profile[t] \in Profiles
    BY <1>11 DEF EscapeNoUcounts, RefInv, LocalInv, LocalTypes, PlaceInv, Prepared, Escaping
  <2>2. PICK n \in CredType : n = new[t]
    BY <2>1
  <2>3. /\ cred' = [cred EXCEPT ![t] = cred[t]]
        /\ new' = [new EXCEPT ![t] = None]
        /\ profile' = [profile EXCEPT ![t] = None]
        /\ RefCred(n, -1)
        /\ profile_refs' = profile_refs - (IF profile[t].default THEN 0 ELSE 1)
    BY <1>11, <1>0, <2>2 DEF EscapeNoUcounts, Abort, PutProfile, Set, LocalTypes
  <2>4. user_refs' = [u \in Uids |-> user_refs[u]
           + One(HasUser(cred[t], u)) - One(HasUser(cred[t], u))
           + One(HasUser(None, u)) - One(HasUser(new[t], u))]
    BY <1>0, <1>a, <2>2, <2>3, DropRefs, NoneHasNothing DEF RefTypes
  <2>5. group_refs' = [g \in Groups |-> group_refs[g]
           + One(HasGroups(cred[t], g)) - One(HasGroups(cred[t], g))
           + One(HasGroups(None, g)) - One(HasGroups(new[t], g))]
    BY <1>0, <1>a, <2>2, <2>3, DropRefs, NoneHasNothing DEF RefTypes
  <2>6. profile_refs' = profile_refs + One(Counted(None)) - One(Counted(profile[t]))
    BY <1>0, <2>1, <2>3, NoProfileIsNone, NoneHasNothing DEF RefTypes, One, Counted
  <2>7. cred[t] \in CredType \cup {None}
    BY <1>0 DEF LocalTypes
  <2> QED
    BY <2>3, <2>4, <2>5, <2>6, <2>7, RefsMove
<1>12. ASSUME NEW t \in Tasks, EscapeCommit(t) PROVE RefTypes' /\ RefsExact'
  <2>1. new[t] \in CredType /\ profile[t] \in Profiles /\ cred[t] \in CredType
    BY <1>12 DEF EscapeCommit, RefInv, LocalInv, LocalTypes, PlaceInv, Prepared, Escaping
  <2>2. PICK g \in NewGroups(t) :
         /\ cred' = [cred EXCEPT ![t] = [new[t] EXCEPT !.groups = g,
                       !.effective = CapForKsud(profile[t]), !.permitted = profile[t].effective]]
         /\ group_refs' = [h \in Groups |-> group_refs[h] + (IF h = g THEN 1 ELSE 0)
                             - (IF h = new[t].groups THEN 1 ELSE 0)
                             - (IF h = cred[t].groups THEN 1 ELSE 0)]
    BY <1>12 DEF EscapeCommit, Set
  <2>3. PICK c : c = [new[t] EXCEPT !.groups = g, !.effective = CapForKsud(profile[t]),
                                    !.permitted = profile[t].effective]
    OBVIOUS
  <2>4. c \in CredType /\ c.user = new[t].user /\ c.groups = g
    BY <2>1, <2>3, CommitCreds
  <2>5. PICK o \in CredType : o = cred[t] /\ o # None
    BY <2>1, NoCredIsNone
  <2>6. PICK n \in CredType : n = new[t] /\ n # None
    BY <2>1, NoCredIsNone
  <2>7. c # None
    BY <2>4, NoCredIsNone
  <2>8. /\ cred' = [cred EXCEPT ![t] = c]
        /\ new' = [new EXCEPT ![t] = None]
        /\ profile' = [profile EXCEPT ![t] = profile[t]]
    BY <1>12, <1>0, <2>2, <2>3 DEF EscapeCommit, Set, LocalTypes
  <2>9. /\ o.user \in Uids
        /\ user_refs' = [user_refs EXCEPT ![o.user] = @ - 1]
        /\ profile_refs' = profile_refs
    BY <1>12, <2>5 DEF EscapeCommit, CredType
  <2>10. \A x : HasUser(c, x) = HasUser(n, x)
    BY <2>4, <2>6, <2>7 DEF HasUser
  <2>11. \A x : /\ One(HasGroups(c, x)) = (IF x = g THEN 1 ELSE 0)
                /\ One(HasGroups(n, x)) = (IF x = n.groups THEN 1 ELSE 0)
                /\ One(HasGroups(o, x)) = (IF x = o.groups THEN 1 ELSE 0)
    BY <2>4, <2>5, <2>6, <2>7 DEF HasGroups, One
  <2>12. \A x : One(HasUser(o, x)) = (IF x = o.user THEN 1 ELSE 0)
    BY <2>5 DEF HasUser, One
  <2>13. user_refs' = [u \in Uids |-> user_refs[u]
           + One(HasUser(c, u)) - One(HasUser(cred[t], u))
           + One(HasUser(None, u)) - One(HasUser(new[t], u))]
    <3> DEFINE e == [u \in Uids |-> user_refs[u] - One(HasUser(o, u))]
    <3>1. e \in [Uids -> Int] /\ \A y \in Uids : e[y] = user_refs[y] - One(HasUser(o, y))
      BY <1>0, <2>12 DEF RefTypes
    <3>2. PICK v \in Uids : v = o.user
      BY <2>9
    <3>3. /\ user_refs' \in [Uids -> Int]
          /\ \A y \in Uids : user_refs'[y] = IF y = v THEN user_refs[y] - 1 ELSE user_refs[y]
      BY <1>0, <2>9, <3>2 DEF RefTypes
    <3>4. \A y \in Uids : e[y] = IF y = v THEN user_refs[y] - 1 ELSE user_refs[y]
      BY <1>0, <2>12, <3>1, <3>2 DEF RefTypes
    <3> HIDE DEF e
    <3>5. user_refs' = e
      BY <3>1, <3>3, <3>4
    <3>6. user_refs' = [u \in Uids |-> user_refs[u] - One(HasUser(o, u))]
      BY <3>5 DEF e
    <3> QED
      BY <1>0, <1>a, <2>5, <2>6, <2>10, <3>6, NoneHasNothing DEF RefTypes
  <2>14. group_refs' = [h \in Groups |-> group_refs[h]
           + One(HasGroups(c, h)) - One(HasGroups(cred[t], h))
           + One(HasGroups(None, h)) - One(HasGroups(new[t], h))]
    BY <1>0, <1>a, <2>2, <2>5, <2>6, <2>11, NoneHasNothing DEF RefTypes
  <2>15. profile_refs' = profile_refs + One(Counted(profile[t])) - One(Counted(profile[t]))
    BY <1>0, <1>a, <2>9 DEF RefTypes
  <2> QED
    BY <2>1, <2>4, <2>8, <2>13, <2>14, <2>15, RefsMove
<1>13. ASSUME NEW t \in Tasks, EscapeFlags(t) PROVE RefTypes' /\ RefsExact'
  <2>1. profile[t] \in Profiles /\ new[t] \in CredType \cup {None} /\ cred[t] \in CredType \cup {None}
    BY <1>13 DEF EscapeFlags, RefInv, LocalInv, LocalTypes, PlaceInv, Escaping
  <2>2. profile_refs' = profile_refs + One(Counted(None)) - One(Counted(profile[t]))
    BY <1>13, <1>0, <2>1, NoProfileIsNone, NoneHasNothing
       DEF EscapeFlags, PutProfile, RefTypes, One, Counted
  <2>3. /\ cred' = [cred EXCEPT ![t] = cred[t]]
        /\ new' = [new EXCEPT ![t] = new[t]]
        /\ profile' = [profile EXCEPT ![t] = None]
        /\ UNCHANGED <<user_refs, group_refs>>
    BY <1>13, <1>0 DEF EscapeFlags, PutProfile, Set, LocalTypes
  <2>4. user_refs' = [u \in Uids |-> user_refs[u]
           + One(HasUser(cred[t], u)) - One(HasUser(cred[t], u))
           + One(HasUser(new[t], u)) - One(HasUser(new[t], u))]
    BY <1>0, <1>a, <2>3 DEF RefTypes
  <2>5. group_refs' = [g \in Groups |-> group_refs[g]
           + One(HasGroups(cred[t], g)) - One(HasGroups(cred[t], g))
           + One(HasGroups(new[t], g)) - One(HasGroups(new[t], g))]
    BY <1>0, <1>a, <2>3 DEF RefTypes
  <2> QED
    BY <2>1, <2>2, <2>3, <2>4, <2>5, RefsMove
<1>14. ASSUME NEW t \in Tasks, DisableEscape(t) PROVE RefTypes' /\ RefsExact'
  BY <1>14, <1>b DEF DisableEscape, credVars
<1>15. ASSUME NEW t \in Tasks, NEW s \in Tasks, Fork(t, s) PROVE RefTypes' /\ RefsExact'
  <2>1. cred[t] \in CredType /\ cred[s] = None /\ new[s] \in CredType \cup {None}
        /\ profile[s] \in Profiles \cup {None}
    BY <1>15 DEF Fork, RefInv, LocalInv, LocalTypes
  <2>2. PICK c \in CredType : c = cred[t]
    BY <2>1
  <2>3. /\ cred' = [cred EXCEPT ![s] = c]
        /\ new' = [new EXCEPT ![s] = new[s]]
        /\ profile' = [profile EXCEPT ![s] = profile[s]]
        /\ RefCred(c, 1)
        /\ profile_refs' = profile_refs
    BY <1>15, <1>0, <2>2 DEF Fork, Set, LocalTypes
  <2>4. user_refs' = [u \in Uids |-> user_refs[u]
           + One(HasUser(c, u)) - One(HasUser(cred[s], u))
           + One(HasUser(new[s], u)) - One(HasUser(new[s], u))]
    BY <1>0, <1>a, <2>1, <2>2, <2>3, TakeRefs, NoneHasNothing DEF RefTypes
  <2>5. group_refs' = [g \in Groups |-> group_refs[g]
           + One(HasGroups(c, g)) - One(HasGroups(cred[s], g))
           + One(HasGroups(new[s], g)) - One(HasGroups(new[s], g))]
    BY <1>0, <1>a, <2>1, <2>2, <2>3, TakeRefs, NoneHasNothing DEF RefTypes
  <2>6. profile_refs' = profile_refs + One(Counted(profile[s])) - One(Counted(profile[s]))
    BY <1>0, <1>a, <2>3 DEF RefTypes
  <2> QED
    BY <2>1, <2>3, <2>4, <2>5, <2>6, RefsMove
<1>16. CASE UNCHANGED vars
  BY <1>16, <1>b DEF vars, credVars
<1> QED
  BY <1>1, <1>2, <1>3, <1>4, <1>5, <1>6, <1>7, <1>8, <1>9, <1>10, <1>11, <1>12, <1>13,
     <1>14, <1>15, <1>16 DEF Next

\* No failure on the way to root leaks a reference or drops one twice.
THEOREM ReferencesBalance == Spec => []RefsExact
<1>1. Init => RefInv
  BY RefInit
<1>2. RefInv /\ [Next]_vars => RefInv'
  BY RefStep
<1>3. RefInv => RefsExact
  BY DEF RefInv
<1> QED
  BY <1>1, <1>2, <1>3, PTL DEF Spec

-----------------------------------------------------------------------------
(* The su log *)

\* Every step keeps captured events those of the uid that asked.
LEMMA CaptureStep == LocalInv /\ CaptureInv /\ [Next]_vars => CaptureInv'
<1> SUFFICES ASSUME LocalInv, CaptureInv, [Next]_vars PROVE CaptureInv'
  OBVIOUS
<1>1. CASE ReadLog
  BY <1>1 DEF ReadLog, credVars, LocalInv, LocalTypes, PlaceInv, CaptureInv, Prepared,
     Escaping
<1>2. CASE SetFeature
  BY <1>2 DEF SetFeature, credVars, logVars, LocalInv, LocalTypes, PlaceInv, CaptureInv,
     Prepared, Escaping
<1>3. ASSUME NEW t \in Tasks, NEW k \in {"su", "ioctl"}, Call(t, k) PROVE CaptureInv'
  BY <1>3 DEF Call, Goto, Set, credVars, logVars, LocalInv, LocalTypes, PlaceInv,
     CaptureInv, Prepared, Escaping
<1>4. ASSUME NEW t \in Tasks, CaptureSu(t) PROVE CaptureInv'
  <2>1. cred[t] \in CredType /\ origin[t] \in Uids /\ cred[t].uid \in Uids
    BY <1>4 DEF CaptureSu, LocalInv, LocalTypes, PlaceInv, CredType
  <2>2. PICK e : e = [uid |-> cred[t].uid, ret |-> 0, origin |-> origin[t]]
    OBVIOUS
  <2>3. e.uid = cred[t].uid /\ e.origin = origin[t]
    BY <2>2
  <2>4. UNCHANGED pending \/ pending' = [pending EXCEPT ![t] = e]
    BY <1>4, <2>2 DEF CaptureSu, Capture, Set
  <2>5. UNCHANGED <<cred, kind, origin>> /\ pc[t] = "capture" /\ pc' = [pc EXCEPT ![t] = "escape"]
    BY <1>4 DEF CaptureSu, Capture, Goto, Set, credVars
  <2> QED
    BY <2>3, <2>4, <2>5 DEF LocalInv, LocalTypes, CaptureInv, Escaping
<1>5. ASSUME NEW t \in Tasks, CaptureGrant(t) PROVE CaptureInv'
  <2>1. cred[t] \in CredType /\ origin[t] \in Uids /\ cred[t].uid \in Uids
    BY <1>5 DEF CaptureGrant, LocalInv, LocalTypes, PlaceInv, CredType
  <2>2. PICK e : e = [uid |-> cred[t].uid, ret |-> 0, origin |-> origin[t]]
    OBVIOUS
  <2>3. e.uid = cred[t].uid /\ e.origin = origin[t]
    BY <2>2
  <2>4. UNCHANGED pending \/ pending' = [pending EXCEPT ![t] = e]
    BY <1>5, <2>2 DEF CaptureGrant, Capture, Set
  <2>5. UNCHANGED <<cred, kind, origin>> /\ pc[t] = "captureGrant" /\ pc' = [pc EXCEPT ![t] = "emit"]
    BY <1>5 DEF CaptureGrant, Capture, Goto, Set, credVars
  <2> QED
    BY <2>3, <2>4, <2>5 DEF LocalInv, LocalTypes, CaptureInv, Escaping
<1>6. ASSUME NEW t \in Tasks, Emit(t) PROVE CaptureInv'
  BY <1>6 DEF Emit, Goto, Set, credVars, LocalInv, LocalTypes, PlaceInv, CaptureInv,
     Prepared, Escaping
<1>7. ASSUME NEW t \in Tasks, EscapeRefused(t) PROVE CaptureInv'
  BY <1>7 DEF EscapeRefused, EndEscape, Goto, Set, credVars, otherVars, logVars,
     LocalInv, LocalTypes, PlaceInv, CaptureInv, Prepared, Escaping
<1>8. ASSUME NEW t \in Tasks, EscapePrepare(t) PROVE CaptureInv'
  BY <1>8 DEF EscapePrepare, MayEscape, RefCred, Goto, Set, otherVars, logVars,
     LocalInv, LocalTypes, PlaceInv, CaptureInv, Prepared, Escaping
<1>9. ASSUME NEW t \in Tasks, EscapeNoUser(t) PROVE CaptureInv'
  BY <1>9 DEF EscapeNoUser, Abort, PutProfile, RefCred, EndEscape, Goto, Set, otherVars,
     logVars, LocalInv, LocalTypes, PlaceInv, CaptureInv, Prepared, Escaping
<1>10. ASSUME NEW t \in Tasks, EscapeUser(t) PROVE CaptureInv'
  BY <1>10 DEF EscapeUser, Goto, Set, otherVars, logVars, LocalInv, LocalTypes,
     PlaceInv, CaptureInv, Prepared, Escaping
<1>11. ASSUME NEW t \in Tasks, EscapeNoUcounts(t) PROVE CaptureInv'
  BY <1>11 DEF EscapeNoUcounts, Abort, PutProfile, RefCred, EndEscape, Goto, Set,
     otherVars, logVars, LocalInv, LocalTypes, PlaceInv, CaptureInv, Prepared, Escaping
<1>12. ASSUME NEW t \in Tasks, EscapeCommit(t) PROVE CaptureInv'
  BY <1>12 DEF EscapeCommit, Goto, Set, otherVars, logVars, LocalInv, LocalTypes,
     PlaceInv, CaptureInv, Prepared, Escaping
<1>13. ASSUME NEW t \in Tasks, EscapeFlags(t) PROVE CaptureInv'
  BY <1>13 DEF EscapeFlags, PutProfile, EndEscape, Goto, Set, otherVars, logVars,
     LocalInv, LocalTypes, PlaceInv, CaptureInv, Prepared, Escaping
<1>14. ASSUME NEW t \in Tasks, DisableEscape(t) PROVE CaptureInv'
  BY <1>14 DEF DisableEscape, Set, otherVars, logVars, LocalInv, LocalTypes, PlaceInv,
     CaptureInv, Prepared, Escaping
<1>15. ASSUME NEW t \in Tasks, NEW s \in Tasks, Fork(t, s) PROVE CaptureInv'
  BY <1>15 DEF Fork, RefCred, Set, otherVars, logVars, LocalInv, LocalTypes, PlaceInv,
     CaptureInv, Prepared, Escaping
<1>16. CASE UNCHANGED vars
  BY <1>16 DEF vars, credVars, logVars, LocalInv, LocalTypes, PlaceInv, CaptureInv,
     Prepared, Escaping
<1> QED
  BY <1>1, <1>2, <1>3, <1>4, <1>5, <1>6, <1>7, <1>8, <1>9, <1>10, <1>11, <1>12, <1>13,
     <1>14, <1>15, <1>16 DEF Next

\* Capturing or emitting one task's event changes who records by that task.
LEMMA RecordingMoves ==
  ASSUME LocalTypes, NEW t \in Tasks, NEW e, pending' = [pending EXCEPT ![t] = e]
  PROVE /\ Cardinality(Recording) \in Nat
        /\ Cardinality(Recording') =
             Cardinality(Recording) + One(e # None) - One(pending[t] # None)
<1>1. pending'[t] = e /\ \A s \in Tasks \ {t} : pending'[s] = pending[s]
  BY DEF LocalTypes
<1>2. Recording \in SUBSET Tasks /\ Recording' \in SUBSET Tasks
  BY DEF Recording
<1>3. Recording \ {t} = Recording' \ {t}
  BY <1>1 DEF Recording
<1>4. (t \in Recording' <=> e # None) /\ (t \in Recording <=> pending[t] # None)
  BY <1>1 DEF Recording
<1> QED
  BY <1>2, <1>3, <1>4, CountMoves DEF One

\* What is emitted names the uid that asked.
LEMMA FilledIn ==
  ASSUME LocalInv, CaptureInv, NEW t \in Tasks, pending[t] # None
  PROVE Fill(t) \in Event /\ Fill(t).uid = Fill(t).origin
<1>1. PICK e \in Event : e = pending[t]
  BY DEF LocalInv, LocalTypes
<1>2. e.origin = origin[t] /\ (kind[t] = "su" => e.uid = origin[t])
  BY <1>1 DEF CaptureInv
<1>3. e.uid \in Uids /\ ret[t] \in {0, -12} /\ origin[t] \in Uids /\ kind[t] \in {"su", "ioctl"}
  BY DEF Event, LocalInv, LocalTypes
<1>4. PICK v \in Uids : v = (IF kind[t] = "ioctl" THEN origin[t] ELSE e.uid) /\ v = origin[t]
  BY <1>2, <1>3
<1>5. PICK r \in {0, -12} : r = ret[t]
  BY <1>3
<1>6. PICK f : f = [e EXCEPT !.ret = r, !.uid = v]
  OBVIOUS
<1>7. f \in Event /\ f.uid = v /\ f.origin = e.origin
  BY <1>6 DEF Event
<1>8. Fill(t) = f
  BY <1>1, <1>4, <1>5, <1>6 DEF Fill
<1> QED
  BY <1>2, <1>4, <1>7, <1>8

\* A true event appended to a true log.
LEMMA LogAppends ==
  ASSUME LogInv, NEW e, e = None \/ (e \in Event /\ e.uid = e.origin),
         logged' = Append(logged, e)
  PROVE /\ logged' \in Seq(Event \cup {None})
        /\ \A i \in 1..Len(logged') : logged'[i] # None => logged'[i].uid = logged'[i].origin
<1>1. PICK q \in Seq(Event \cup {None}) : q = logged
  BY DEF LogInv
<1>2. PICK r : r = Append(q, e)
  OBVIOUS
<1>3. r \in Seq(Event \cup {None}) /\ Len(r) = Len(q) + 1 /\ r[Len(r)] = e
      /\ \A i \in 1..Len(q) : r[i] = q[i]
  BY <1>2
<1>4. \A i \in 1..Len(q) : q[i] # None => q[i].uid = q[i].origin
  BY <1>1 DEF LogInv
<1>5. \A i \in 1..Len(r) : i \in 1..Len(q) \/ i = Len(r)
  BY <1>3
<1>6. \A i \in 1..Len(r) : r[i] # None => r[i].uid = r[i].origin
  BY <1>3, <1>4, <1>5
<1> QED
  BY <1>1, <1>2, <1>3, <1>6

\* Every step keeps the log true and its length the number of calls that are over.
LEMMA LogStep == AuditInv /\ [Next]_vars => LogInv'
<1> SUFFICES ASSUME AuditInv, [Next]_vars PROVE LogInv'
  OBVIOUS
<1>0. LocalTypes /\ LogInv
  BY DEF AuditInv, LocalInv
<1>b. UNCHANGED <<pending, issued, logged, due>> => LogInv'
  BY <1>0 DEF LogInv, Recording
<1>c. Cardinality(Recording) \in Nat
  BY ConstantsAssumption, FS_Subset, FS_CardinalityType DEF Recording
<1>1. CASE ReadLog
  BY <1>1, <1>b DEF ReadLog, Log!Deliver, Log!Report
<1>2. CASE SetFeature
  BY <1>2, <1>b DEF SetFeature, logVars
<1>3. ASSUME NEW t \in Tasks, NEW k \in {"su", "ioctl"}, Call(t, k) PROVE LogInv'
  BY <1>3, <1>b DEF Call, logVars
<1>4. ASSUME NEW t \in Tasks, CaptureSu(t) PROVE LogInv'
  <2>1. CASE UNCHANGED <<pending, issued, logged, due>>
    BY <1>b, <2>1
  <2>2. CASE /\ pending' = [pending EXCEPT ![t] = [uid |-> cred[t].uid, ret |-> 0, origin |-> origin[t]]]
             /\ due' = due + 1 /\ UNCHANGED <<issued, logged>>
    <3>1. pending[t] = None
      BY <1>4 DEF CaptureSu, AuditInv, CaptureInv, Escaping
    <3>2. PICK e : e = [uid |-> cred[t].uid, ret |-> 0, origin |-> origin[t]]
      OBVIOUS
    <3>3. e # None
      BY <3>2 DEF None
    <3>4. Cardinality(Recording) \in Nat /\ Cardinality(Recording') = Cardinality(Recording) + 1
      <4>1. pending' = [pending EXCEPT ![t] = e]
        BY <2>2, <3>2
      <4>2. /\ Cardinality(Recording) \in Nat
            /\ Cardinality(Recording') =
                 Cardinality(Recording) + One(e # None) - One(pending[t] # None)
        BY <1>0, <4>1, RecordingMoves
      <4> QED
        BY <3>1, <3>3, <4>2 DEF One
    <3> QED
      BY <1>0, <2>2, <3>4 DEF LogInv
  <2>3. CASE issued' = issued + 1 /\ logged' = Append(logged, None) /\ due' = due + 1 /\ UNCHANGED pending
    <3>1. Recording' = Recording
      BY <2>3 DEF Recording
    <3>2. /\ logged' \in Seq(Event \cup {None})
          /\ \A i \in 1..Len(logged') : logged'[i] # None => logged'[i].uid = logged'[i].origin
      BY <1>0, <2>3, LogAppends DEF LogInv
    <3> QED
      BY <1>0, <1>c, <2>3, <3>1, <3>2 DEF LogInv
  <2> QED
    BY <1>4, <2>1, <2>2, <2>3 DEF CaptureSu, Capture, Set, logVars, Log!Offer
<1>5. ASSUME NEW t \in Tasks, CaptureGrant(t) PROVE LogInv'
  <2>1. CASE UNCHANGED <<pending, issued, logged, due>>
    BY <1>b, <2>1
  <2>2. CASE /\ pending' = [pending EXCEPT ![t] = [uid |-> cred[t].uid, ret |-> 0, origin |-> origin[t]]]
             /\ due' = due + 1 /\ UNCHANGED <<issued, logged>>
    <3>1. pending[t] = None
      BY <1>5 DEF CaptureGrant, AuditInv, CaptureInv, Escaping
    <3>2. PICK e : e = [uid |-> cred[t].uid, ret |-> 0, origin |-> origin[t]]
      OBVIOUS
    <3>3. e # None
      BY <3>2 DEF None
    <3>4. Cardinality(Recording) \in Nat /\ Cardinality(Recording') = Cardinality(Recording) + 1
      <4>1. pending' = [pending EXCEPT ![t] = e]
        BY <2>2, <3>2
      <4>2. /\ Cardinality(Recording) \in Nat
            /\ Cardinality(Recording') =
                 Cardinality(Recording) + One(e # None) - One(pending[t] # None)
        BY <1>0, <4>1, RecordingMoves
      <4> QED
        BY <3>1, <3>3, <4>2 DEF One
    <3> QED
      BY <1>0, <2>2, <3>4 DEF LogInv
  <2>3. CASE issued' = issued + 1 /\ logged' = Append(logged, None) /\ due' = due + 1 /\ UNCHANGED pending
    <3>1. Recording' = Recording
      BY <2>3 DEF Recording
    <3>2. /\ logged' \in Seq(Event \cup {None})
          /\ \A i \in 1..Len(logged') : logged'[i] # None => logged'[i].uid = logged'[i].origin
      BY <1>0, <2>3, LogAppends DEF LogInv
    <3> QED
      BY <1>0, <1>c, <2>3, <3>1, <3>2 DEF LogInv
  <2> QED
    BY <1>5, <2>1, <2>2, <2>3 DEF CaptureGrant, Capture, Set, logVars, Log!Offer
<1>6. ASSUME NEW t \in Tasks, Emit(t) PROVE LogInv'
  <2>1. CASE pending[t] = None /\ UNCHANGED <<issued, logged>>
    <3>1. pending' = pending
      BY <1>6, <1>0, <2>1 DEF Emit, Set, LocalTypes
    <3> QED
      BY <1>6, <1>b, <2>1, <3>1 DEF Emit
  <2>2. CASE pending[t] # None /\ issued' = issued + 1
             /\ \E e \in {None, Fill(t)} : logged' = Append(logged, e)
    <3>1. PICK e \in {None, Fill(t)} : logged' = Append(logged, e)
      BY <2>2
    <3>2. e = None \/ (e \in Event /\ e.uid = e.origin)
      BY <2>2, <3>1, FilledIn DEF AuditInv
    <3>3. /\ logged' \in Seq(Event \cup {None})
          /\ \A i \in 1..Len(logged') : logged'[i] # None => logged'[i].uid = logged'[i].origin
      BY <1>0, <3>1, <3>2, LogAppends DEF LogInv
    <3>4. pending' = [pending EXCEPT ![t] = None] /\ due' = due
      BY <1>6 DEF Emit, Set
    <3>5. Cardinality(Recording) \in Nat /\ Cardinality(Recording') = Cardinality(Recording) - 1
      <4>1. /\ Cardinality(Recording) \in Nat
            /\ Cardinality(Recording') =
                 Cardinality(Recording) + One(None # None) - One(pending[t] # None)
        BY <1>0, <3>4, RecordingMoves
      <4> QED
        BY <2>2, <4>1 DEF One
    <3> QED
      BY <1>0, <2>2, <3>3, <3>4, <3>5 DEF LogInv
  <2> QED
    BY <1>6, <2>1, <2>2 DEF Emit, logVars, Log!Offer
<1>7. ASSUME NEW t \in Tasks, EscapeRefused(t) PROVE LogInv'
  BY <1>7, <1>b DEF EscapeRefused, otherVars, logVars
<1>8. ASSUME NEW t \in Tasks, EscapePrepare(t) PROVE LogInv'
  BY <1>8, <1>b DEF EscapePrepare, otherVars, logVars
<1>9. ASSUME NEW t \in Tasks, EscapeNoUser(t) PROVE LogInv'
  BY <1>9, <1>b DEF EscapeNoUser, Abort, otherVars, logVars
<1>10. ASSUME NEW t \in Tasks, EscapeUser(t) PROVE LogInv'
  BY <1>10, <1>b DEF EscapeUser, otherVars, logVars
<1>11. ASSUME NEW t \in Tasks, EscapeNoUcounts(t) PROVE LogInv'
  BY <1>11, <1>b DEF EscapeNoUcounts, Abort, otherVars, logVars
<1>12. ASSUME NEW t \in Tasks, EscapeCommit(t) PROVE LogInv'
  BY <1>12, <1>b DEF EscapeCommit, otherVars, logVars
<1>13. ASSUME NEW t \in Tasks, EscapeFlags(t) PROVE LogInv'
  BY <1>13, <1>b DEF EscapeFlags, otherVars, logVars
<1>14. ASSUME NEW t \in Tasks, DisableEscape(t) PROVE LogInv'
  BY <1>14, <1>b DEF DisableEscape, otherVars, logVars
<1>15. ASSUME NEW t \in Tasks, NEW s \in Tasks, Fork(t, s) PROVE LogInv'
  BY <1>15, <1>b DEF Fork, otherVars, logVars
<1>16. CASE UNCHANGED vars
  BY <1>16, <1>b DEF vars, credVars, logVars
<1> QED
  BY <1>1, <1>2, <1>3, <1>4, <1>5, <1>6, <1>7, <1>8, <1>9, <1>10, <1>11, <1>12, <1>13,
     <1>14, <1>15, <1>16 DEF Next

\* The log is empty at first.
LEMMA AuditInit == Init => AuditInv
<1> SUFFICES ASSUME Init PROVE AuditInv
  OBVIOUS
<1>1. Recording = {}
  BY DEF Init, Recording
<1>2. Cardinality(Recording) = 0
  BY <1>1, FS_EmptySet
<1>3. CaptureInv
  BY DEF Init, CaptureInv
<1>4. issued = 0 /\ due = 0 /\ logged = <<>>
  BY DEF Init, Log!Init
<1>5. logged \in Seq(Event \cup {None}) /\ Len(logged) = 0
  BY <1>4
<1>6. LogInv
  BY <1>2, <1>4, <1>5 DEF LogInv
<1> QED
  BY <1>3, <1>6, LocalInit DEF AuditInv

\* The log is always true and complete.
LEMMA AuditAlways == Spec => []AuditInv
<1>1. Init => AuditInv
  BY AuditInit
<1>2. AuditInv /\ [Next]_vars => AuditInv'
  BY LocalStep, CaptureStep, LogStep DEF AuditInv
<1> QED
  BY <1>1, <1>2, PTL DEF Spec

\* Every call that found the su log enabled is one event or one drop, and an event
\* names the uid that asked.
THEOREM EveryCallIsAudited == Spec => []Audited
<1>1. AuditInv => Audited
  <2> SUFFICES ASSUME AuditInv PROVE Audited
    OBVIOUS
  <2>1. ASSUME \A t \in Tasks : pc[t] = "user" PROVE issued = due
    <3>1. Recording = {}
      BY <2>1 DEF AuditInv, CaptureInv, Recording, Escaping
    <3>2. Cardinality(Recording) = 0
      BY <3>1, FS_EmptySet
    <3> QED
      BY <3>2 DEF AuditInv, LogInv
  <2> QED
    BY <2>1 DEF AuditInv, LogInv, Audited
<1> QED
  BY <1>1, AuditAlways, PTL

-----------------------------------------------------------------------------
(* Types: the calls in the log are among the calls.                         *)

\* Calls that have not come to the su log yet
Uncaptured ==
  {t \in Tasks : \/ pc[t] = "capture"
                 \/ kind[t] = "ioctl" /\ pc[t] \in Escaping \cup {"escape", "captureGrant"}}

CallInv ==
  /\ calls \in Nat /\ calls <= MaxCalls
  /\ due \in Nat /\ due + Cardinality(Uncaptured) <= calls

\* A step of one task that makes no more events due than it makes calls.
LEMMA CallsMove ==
  ASSUME CallInv, NEW t \in Tasks,
         \A s \in Tasks \ {t} : pc'[s] = pc[s] /\ kind'[s] = kind[s],
         calls' \in Nat, calls' <= MaxCalls, due' \in Nat,
         due' + One(t \in Uncaptured') - One(t \in Uncaptured) - due <= calls' - calls
  PROVE CallInv'
<1>1. Uncaptured \in SUBSET Tasks /\ Uncaptured' \in SUBSET Tasks
  BY DEF Uncaptured
<1>2. Uncaptured \ {t} = Uncaptured' \ {t}
  BY DEF Uncaptured
<1>3. /\ Cardinality(Uncaptured) \in Nat
      /\ Cardinality(Uncaptured') =
           Cardinality(Uncaptured) + One(t \in Uncaptured') - One(t \in Uncaptured)
  BY <1>1, <1>2, CountMoves
<1>4. One(t \in Uncaptured') \in Int /\ One(t \in Uncaptured) \in Int
  BY DEF One
<1>5. PICK x \in Int, y \in Int : x = One(t \in Uncaptured') /\ y = One(t \in Uncaptured)
  BY <1>4
<1>6. PICK m \in Nat, n \in Int : m = Cardinality(Uncaptured) /\ n = Cardinality(Uncaptured')
  <2>1. PICK m \in Nat : m = Cardinality(Uncaptured)
    BY <1>3
  <2>2. m + x - y \in Int /\ Cardinality(Uncaptured') = m + x - y
    BY <1>3, <1>5, <2>1
  <2> QED
    BY <2>1, <2>2
<1>7. n = m + x - y /\ due' + x - y - due <= calls' - calls
  BY <1>3, <1>5, <1>6
<1>8. MaxCalls \in Nat /\ calls \in Nat /\ due \in Nat /\ due + m <= calls
  BY <1>6, ConstantsAssumption DEF CallInv
<1>9. due' + n <= calls'
  <2>1. PICK d \in Nat, c \in Nat : d = due' /\ c = calls'
    OBVIOUS
  <2>2. d + x - y - due <= c - calls
    BY <1>7, <2>1
  <2>3. d + (m + x - y) <= c
    BY <1>8, <2>2
  <2> QED
    BY <1>7, <2>1, <2>3
<1> QED
  BY <1>6, <1>9 DEF CallInv

\* Every step keeps the events that are due within the calls made.
LEMMA CallStep == LocalInv /\ CaptureInv /\ CallInv /\ [Next]_vars => CallInv'
<1> SUFFICES ASSUME LocalInv, CaptureInv, CallInv, [Next]_vars PROVE CallInv'
  OBVIOUS
<1>0. LocalTypes /\ CaptureInv /\ CallInv /\ MaxCalls \in Nat
  BY ConstantsAssumption DEF LocalInv
<1>b. UNCHANGED <<pc, kind, calls, due>> => CallInv'
  BY <1>0 DEF CallInv, Uncaptured
<1>1. CASE ReadLog
  BY <1>1, <1>b DEF ReadLog
<1>2. CASE SetFeature
  BY <1>2, <1>b DEF SetFeature
<1>3. ASSUME NEW t \in Tasks, NEW k \in {"su", "ioctl"}, Call(t, k) PROVE CallInv'
  <2>1. calls' = calls + 1 /\ calls < MaxCalls /\ due' = due
    BY <1>3 DEF Call, Goto, Set
  <2>2. t \notin Uncaptured
    BY <1>3, <1>0 DEF Call, Goto, Set, Uncaptured, LocalTypes, Escaping
  <2>3. \A s \in Tasks \ {t} : pc'[s] = pc[s] /\ kind'[s] = kind[s]
    BY <1>3, <1>0 DEF Call, Goto, Set, LocalTypes
  <2> QED
    BY <1>0, <2>1, <2>2, <2>3, CallsMove DEF CallInv, One
<1>4. ASSUME NEW t \in Tasks, CaptureSu(t) PROVE CallInv'
  <2>1. calls' = calls /\ due' \in {due, due + 1}
    BY <1>4 DEF CaptureSu, Capture, Goto, Set
  <2>2. t \in Uncaptured /\ t \notin Uncaptured'
    BY <1>4, <1>0 DEF CaptureSu, Capture, Goto, Set, Uncaptured, LocalTypes, Escaping, CaptureInv
  <2>3. \A s \in Tasks \ {t} : pc'[s] = pc[s] /\ kind'[s] = kind[s]
    BY <1>4, <1>0 DEF CaptureSu, Capture, Goto, Set, LocalTypes
  <2> QED
    BY <1>0, <2>1, <2>2, <2>3, CallsMove DEF CallInv, One
<1>5. ASSUME NEW t \in Tasks, CaptureGrant(t) PROVE CallInv'
  <2>1. calls' = calls /\ due' \in {due, due + 1}
    BY <1>5 DEF CaptureGrant, Capture, Goto, Set
  <2>2. t \in Uncaptured /\ t \notin Uncaptured'
    BY <1>5, <1>0 DEF CaptureGrant, Capture, Goto, Set, Uncaptured, LocalTypes, Escaping,
       CaptureInv
  <2>3. \A s \in Tasks \ {t} : pc'[s] = pc[s] /\ kind'[s] = kind[s]
    BY <1>5, <1>0 DEF CaptureGrant, Capture, Goto, Set, LocalTypes
  <2> QED
    BY <1>0, <2>1, <2>2, <2>3, CallsMove DEF CallInv, One
<1>6. ASSUME NEW t \in Tasks, Emit(t) PROVE CallInv'
  <2>1. calls' = calls /\ due' = due
    BY <1>6 DEF Emit, Goto, Set
  <2>2. t \notin Uncaptured'
    BY <1>6, <1>0 DEF Emit, Goto, Set, Uncaptured, LocalTypes, Escaping
  <2>3. \A s \in Tasks \ {t} : pc'[s] = pc[s] /\ kind'[s] = kind[s]
    BY <1>6, <1>0 DEF Emit, Goto, Set, LocalTypes
  <2> QED
    BY <1>0, <2>1, <2>2, <2>3, CallsMove DEF CallInv, One
<1>7. ASSUME NEW t \in Tasks, EscapeRefused(t) PROVE CallInv'
  <2>1. calls' = calls /\ due' = due
    BY <1>7 DEF EscapeRefused, EndEscape, Goto, Set, otherVars
  <2>2. t \in Uncaptured' <=> t \in Uncaptured
    BY <1>7, <1>0 DEF EscapeRefused, EndEscape, Goto, Set, otherVars, Uncaptured, LocalTypes,
       Escaping
  <2>3. \A s \in Tasks \ {t} : pc'[s] = pc[s] /\ kind'[s] = kind[s]
    BY <1>7, <1>0 DEF EscapeRefused, EndEscape, Goto, Set, otherVars, LocalTypes
  <2> QED
    BY <1>0, <2>1, <2>2, <2>3, CallsMove DEF CallInv, One
<1>8. ASSUME NEW t \in Tasks, EscapePrepare(t) PROVE CallInv'
  <2>1. calls' = calls /\ due' = due
    BY <1>8 DEF EscapePrepare, Goto, Set, otherVars
  <2>2. t \in Uncaptured' <=> t \in Uncaptured
    BY <1>8, <1>0 DEF EscapePrepare, Goto, Set, otherVars, Uncaptured, LocalTypes, Escaping
  <2>3. \A s \in Tasks \ {t} : pc'[s] = pc[s] /\ kind'[s] = kind[s]
    BY <1>8, <1>0 DEF EscapePrepare, Goto, Set, otherVars, LocalTypes
  <2> QED
    BY <1>0, <2>1, <2>2, <2>3, CallsMove DEF CallInv, One
<1>9. ASSUME NEW t \in Tasks, EscapeNoUser(t) PROVE CallInv'
  <2>1. calls' = calls /\ due' = due
    BY <1>9 DEF EscapeNoUser, Abort, EndEscape, Goto, Set, otherVars
  <2>2. t \in Uncaptured' <=> t \in Uncaptured
    BY <1>9, <1>0 DEF EscapeNoUser, Abort, EndEscape, Goto, Set, otherVars, Uncaptured,
       LocalTypes, Escaping
  <2>3. \A s \in Tasks \ {t} : pc'[s] = pc[s] /\ kind'[s] = kind[s]
    BY <1>9, <1>0 DEF EscapeNoUser, Abort, EndEscape, Goto, Set, otherVars, LocalTypes
  <2> QED
    BY <1>0, <2>1, <2>2, <2>3, CallsMove DEF CallInv, One
<1>10. ASSUME NEW t \in Tasks, EscapeUser(t) PROVE CallInv'
  <2>1. calls' = calls /\ due' = due
    BY <1>10 DEF EscapeUser, Goto, Set, otherVars
  <2>2. t \in Uncaptured' <=> t \in Uncaptured
    BY <1>10, <1>0 DEF EscapeUser, Goto, Set, otherVars, Uncaptured, LocalTypes, Escaping
  <2>3. \A s \in Tasks \ {t} : pc'[s] = pc[s] /\ kind'[s] = kind[s]
    BY <1>10, <1>0 DEF EscapeUser, Goto, Set, otherVars, LocalTypes
  <2> QED
    BY <1>0, <2>1, <2>2, <2>3, CallsMove DEF CallInv, One
<1>11. ASSUME NEW t \in Tasks, EscapeNoUcounts(t) PROVE CallInv'
  <2>1. calls' = calls /\ due' = due
    BY <1>11 DEF EscapeNoUcounts, Abort, EndEscape, Goto, Set, otherVars
  <2>2. t \in Uncaptured' <=> t \in Uncaptured
    BY <1>11, <1>0 DEF EscapeNoUcounts, Abort, EndEscape, Goto, Set, otherVars, Uncaptured,
       LocalTypes, Escaping
  <2>3. \A s \in Tasks \ {t} : pc'[s] = pc[s] /\ kind'[s] = kind[s]
    BY <1>11, <1>0 DEF EscapeNoUcounts, Abort, EndEscape, Goto, Set, otherVars, LocalTypes
  <2> QED
    BY <1>0, <2>1, <2>2, <2>3, CallsMove DEF CallInv, One
<1>12. ASSUME NEW t \in Tasks, EscapeCommit(t) PROVE CallInv'
  <2>1. calls' = calls /\ due' = due
    BY <1>12 DEF EscapeCommit, Goto, Set, otherVars
  <2>2. t \in Uncaptured' <=> t \in Uncaptured
    BY <1>12, <1>0 DEF EscapeCommit, Goto, Set, otherVars, Uncaptured, LocalTypes, Escaping
  <2>3. \A s \in Tasks \ {t} : pc'[s] = pc[s] /\ kind'[s] = kind[s]
    BY <1>12, <1>0 DEF EscapeCommit, Goto, Set, otherVars, LocalTypes
  <2> QED
    BY <1>0, <2>1, <2>2, <2>3, CallsMove DEF CallInv, One
<1>13. ASSUME NEW t \in Tasks, EscapeFlags(t) PROVE CallInv'
  <2>1. calls' = calls /\ due' = due
    BY <1>13 DEF EscapeFlags, EndEscape, Goto, Set, otherVars
  <2>2. t \in Uncaptured' <=> t \in Uncaptured
    BY <1>13, <1>0 DEF EscapeFlags, EndEscape, Goto, Set, otherVars, Uncaptured, LocalTypes,
       Escaping
  <2>3. \A s \in Tasks \ {t} : pc'[s] = pc[s] /\ kind'[s] = kind[s]
    BY <1>13, <1>0 DEF EscapeFlags, EndEscape, Goto, Set, otherVars, LocalTypes
  <2> QED
    BY <1>0, <2>1, <2>2, <2>3, CallsMove DEF CallInv, One
<1>14. ASSUME NEW t \in Tasks, DisableEscape(t) PROVE CallInv'
  BY <1>14, <1>b DEF DisableEscape, otherVars
<1>15. ASSUME NEW t \in Tasks, NEW s \in Tasks, Fork(t, s) PROVE CallInv'
  BY <1>15, <1>b DEF Fork, otherVars
<1>16. CASE UNCHANGED vars
  BY <1>16, <1>b DEF vars
<1> QED
  BY <1>1, <1>2, <1>3, <1>4, <1>5, <1>6, <1>7, <1>8, <1>9, <1>10, <1>11, <1>12, <1>13,
     <1>14, <1>15, <1>16 DEF Next

\* The types, with all reference counts natural numbers and no more events than calls
THEOREM RootGrantTypes == Spec => []TypeOK
<1> DEFINE Inv == RefInv /\ AuditInv /\ CallInv
<1>1. Init => Inv
  <2> SUFFICES ASSUME Init PROVE CallInv
    BY RefInit, AuditInit
  <2>1. Uncaptured = {}
    BY DEF Init, Uncaptured, Escaping
  <2>2. Cardinality(Uncaptured) = 0
    BY <2>1, FS_EmptySet
  <2> QED
    BY <2>2, ConstantsAssumption DEF Init, CallInv
<1>2. Inv /\ [Next]_vars => Inv'
  BY RefStep, LocalStep, CaptureStep, LogStep, CallStep DEF AuditInv
<1>3. Inv => TypeOK
  <2> SUFFICES ASSUME RefInv, AuditInv, CallInv PROVE TypeOK
    OBVIOUS
  <2>0. LocalTypes /\ RefTypes /\ RefsExact /\ CallInv
    BY DEF RefInv, LocalInv
  <2>1. \A S \in SUBSET Tasks : Cardinality(S) \in Nat
    BY ConstantsAssumption, FS_Subset, FS_CardinalityType
  <2>2. ASSUME NEW u \in Uids PROVE user_refs[u] \in Nat
    <3>1. OfUser(cred, u) \in SUBSET Tasks /\ OfUser(new, u) \in SUBSET Tasks
      BY DEF OfUser
    <3>2. user_refs[u] = Cardinality(OfUser(cred, u)) + Cardinality(OfUser(new, u))
      BY <2>0 DEF RefsExact
    <3> QED
      BY <2>1, <3>1, <3>2
  <2>3. ASSUME NEW g \in Groups PROVE group_refs[g] \in Nat
    <3>1. OfGroups(cred, g) \in SUBSET Tasks /\ OfGroups(new, g) \in SUBSET Tasks
      BY DEF OfGroups
    <3>2. group_refs[g] = Cardinality(OfGroups(cred, g)) + Cardinality(OfGroups(new, g))
                            + (IF g = "root" THEN 2 ELSE 0)
      BY <2>0 DEF RefsExact
    <3> QED
      BY <2>1, <3>1, <3>2
  <2>4. profile_refs \in Nat
    <3>1. HoldsProfile \in SUBSET Tasks
      BY DEF HoldsProfile
    <3> QED
      BY <2>0, <2>1, <3>1 DEF RefsExact
  <2>5. due \in 0 .. MaxCalls
    <3>1. Uncaptured \in SUBSET Tasks
      BY DEF Uncaptured
    <3>2. Cardinality(Uncaptured) \in Nat
      BY <2>1, <3>1
    <3> QED
      BY <2>0, <3>2, ConstantsAssumption DEF CallInv
  <2>6. user_refs \in [Uids -> Nat] /\ group_refs \in [Groups -> Nat]
    BY <2>0, <2>2, <2>3 DEF RefTypes
  <2> QED
    BY <2>0, <2>4, <2>5, <2>6 DEF TypeOK, LocalTypes
<1> QED
  BY <1>1, <1>2, <1>3, PTL DEF Spec

=============================================================================
