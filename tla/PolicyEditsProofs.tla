-------------------------- MODULE PolicyEditsProofs --------------------------
(***************************************************************************)
(* Proofs about PolicyEdits: an edit that handle_sepolicy reported is in   *)
(* the policy in force, and the copy of the status page that apps are      *)
(* shown does not give a later load away.  Both hold for any number of     *)
(* callers and of processes that open the page.                            *)
(*                                                                         *)
(* The second part is about what the edits do to a policy, Sepolicy: no    *)
(* decision outlives its policy in the cache, apps are told what the       *)
(* stock policy says, no process gets a type without a slot, and memory    *)
(* that is not the policy's is used only after a failed add_type or        *)
(* add_filename_trans.  They hold for any stock policies, batches and      *)
(* texts.                                                                  *)
(***************************************************************************)
EXTENDS PolicyEdits, Sepolicy, WellFoundedInduction, TLAPS

Positions == {"idle", "editing", "reset", "unlock", "done"}

\* Between mutex_lock and mutex_unlock of handle_sepolicy.
Holding == {"editing", "reset", "unlock"}

Edits == Editors \cup {"ksu"}

EditTypes ==
  /\ boot \in {"first", "second", "data"}
  /\ native \in BOOLEAN /\ faulted \in BOOLEAN
  /\ inForce \in SUBSET Edits /\ published \in SUBSET Editors
  /\ epc \in [Editors -> Positions]
  /\ snap \in [Editors -> SUBSET Edits]

\* What the mutex gives as long as nobody released it for somebody else: one
\* caller between lock and unlock, the owner; its copy is the policy in force
\* until it publishes; its edit is in force from then on.
MutexInv ==
  \/ faulted
  \/ /\ \A e \in Editors : epc[e] \in Holding <=> owner = e
     /\ \A e \in Editors : epc[e] = "editing" => snap[e] = inForce
     /\ \A e \in Editors : epc[e] = "reset" => e \in inForce
     /\ published \subseteq inForce

\* Callers of handle_sepolicy come after post-fs-data.
BeforeData == boot # "data" => \A e \in Editors : epc[e] = "idle"

EditInv == EditTypes /\ BeforeData /\ MutexInv

Pages == [enforcing : BOOLEAN, loaded : BOOLEAN]
Copies == [loaded : BOOLEAN, at : {"first", "second", "data"}]

StatusTypes ==
  /\ enforcing \in BOOLEAN
  /\ page = Absent \/ page \in Pages
  /\ fake = Absent \/ fake \in Copies

\* The page shows the mode in force.
PageInv == page # Absent => page.enforcing = enforcing

\* Nothing is loaded before the second stage; between it and post-fs-data only
\* a page that was there at the second stage shows the load of the rules, and
\* that page had been copied before, if it could be.
LoadInv ==
  /\ boot = "first" => /\ page # Absent => ~page.loaded
                       /\ fake # Absent => ~fake.loaded
  /\ boot = "second" /\ calm /\ ~oldInit /\ page # Absent /\ page.loaded => fake # Absent

StatusInv == EditTypes /\ BeforeData /\ StatusTypes /\ PageInv /\ LoadInv /\ FakeStatusStock

-----------------------------------------------------------------------------

\* Nobody edits at first.
LEMMA EditInit == EditsInit => EditInv
  BY AbsentAssumption DEF EditsInit, EditInv, EditTypes, BeforeData, MutexInv, Positions, Holding

\* Every step keeps the types, and the boot stages in order.
LEMMA EditTypesStep == EditTypes /\ BeforeData /\ [EditsNext]_editVars => EditTypes' /\ BeforeData'
<1> SUFFICES ASSUME EditTypes, BeforeData, [EditsNext]_editVars
             PROVE EditTypes' /\ BeforeData'
  OBVIOUS
<1> USE DEF EditTypes, BeforeData, Positions, Edits, EditorStep, statusVars, bootVars, policyVars
<1>1. ASSUME NEW alloc \in BOOLEAN, NEW dup \in BOOLEAN, SecondStage(alloc, dup) PROVE EditTypes' /\ BeforeData'
  BY <1>1 DEF SecondStage, ApplyRules
<1>2. CASE PostFsData
  BY <1>2 DEF PostFsData
<1>3. CASE Setenforce
  BY <1>3 DEF Setenforce
<1>4. ASSUME NEW o \in Openers, OpenStatus(o) PROVE EditTypes' /\ BeforeData'
  BY <1>4 DEF OpenStatus
<1>5. ASSUME NEW o \in Openers, OpenStatusCheck(o) PROVE EditTypes' /\ BeforeData'
  BY <1>5 DEF OpenStatusCheck
<1>6. ASSUME NEW o \in Openers, NEW alloc \in BOOLEAN, OpenStatusCapture(o, alloc) PROVE EditTypes' /\ BeforeData'
  BY <1>6 DEF OpenStatusCapture
<1>7. ASSUME NEW e \in Editors, CopyFails(e) PROVE EditTypes' /\ BeforeData'
  BY <1>7 DEF CopyFails
<1>8. ASSUME NEW e \in Editors, NEW dup \in BOOLEAN, LockAndDup(e, dup) PROVE EditTypes' /\ BeforeData'
  BY <1>8 DEF LockAndDup
<1>9. ASSUME NEW e \in Editors, Publish(e) PROVE EditTypes' /\ BeforeData'
  BY <1>9 DEF Publish
<1>10. ASSUME NEW e \in Editors, DropNew(e) PROVE EditTypes' /\ BeforeData'
  BY <1>10 DEF DropNew
<1>11. ASSUME NEW e \in Editors, ResetAndUnlock(e) PROVE EditTypes' /\ BeforeData'
  BY <1>11 DEF ResetAndUnlock
<1>12. CASE UNCHANGED editVars
  BY <1>12 DEF editVars
<1> QED
  BY <1>1, <1>2, <1>3, <1>4, <1>5, <1>6, <1>7, <1>8, <1>9, <1>10, <1>11, <1>12 DEF EditsNext

\* Every step keeps the mutex with the one that copies, unless it was lost.
LEMMA MutexStep == EditInv /\ [EditsNext]_editVars => MutexInv'
<1> SUFFICES ASSUME EditInv, [EditsNext]_editVars PROVE MutexInv'
  OBVIOUS
<1> USE AbsentAssumption
    DEF EditInv, EditTypes, BeforeData, MutexInv, Positions, Holding, Edits, EditorStep,
        statusVars, bootVars, policyVars
<1>1. ASSUME NEW alloc \in BOOLEAN, NEW dup \in BOOLEAN, SecondStage(alloc, dup) PROVE MutexInv'
  BY <1>1 DEF SecondStage, ApplyRules
<1>2. CASE PostFsData
  BY <1>2 DEF PostFsData
<1>3. CASE Setenforce
  BY <1>3 DEF Setenforce
<1>4. ASSUME NEW o \in Openers, OpenStatus(o) PROVE MutexInv'
  BY <1>4 DEF OpenStatus
<1>5. ASSUME NEW o \in Openers, OpenStatusCheck(o) PROVE MutexInv'
  BY <1>5 DEF OpenStatusCheck
<1>6. ASSUME NEW o \in Openers, NEW alloc \in BOOLEAN, OpenStatusCapture(o, alloc) PROVE MutexInv'
  BY <1>6 DEF OpenStatusCapture
<1>7. ASSUME NEW e \in Editors, CopyFails(e) PROVE MutexInv'
  <2>1. CASE native
    <3>1. UNCHANGED <<owner, inForce, snap, published>> /\ (faulted' <=> faulted)
      BY <1>7, <2>1 DEF CopyFails
    <3>2. epc' = [epc EXCEPT ![e] = "done"] /\ epc[e] = "idle"
      BY <1>7 DEF CopyFails
    <3> QED
      BY <3>1, <3>2
  <2>2. CASE ~native
    BY <1>7, <2>2 DEF CopyFails
  <2> QED
    BY <2>1, <2>2
<1>8. ASSUME NEW e \in Editors, NEW dup \in BOOLEAN, LockAndDup(e, dup) PROVE MutexInv'
  BY <1>8 DEF LockAndDup
<1>9. ASSUME NEW e \in Editors, Publish(e) PROVE MutexInv'
  BY <1>9 DEF Publish
<1>10. ASSUME NEW e \in Editors, DropNew(e) PROVE MutexInv'
  BY <1>10 DEF DropNew
<1>11. ASSUME NEW e \in Editors, ResetAndUnlock(e) PROVE MutexInv'
  BY <1>11 DEF ResetAndUnlock
<1>12. CASE UNCHANGED editVars
  BY <1>12 DEF editVars
<1> QED
  BY <1>1, <1>2, <1>3, <1>4, <1>5, <1>6, <1>7, <1>8, <1>9, <1>10, <1>11, <1>12 DEF EditsNext

\* An edit reported to its caller stays in the policy in force, for any number
\* of concurrent callers of handle_sepolicy, unless a failed copy_from_user has
\* released the mutex under its holder.
THEOREM ReportedEditsStay == EditsSpec => []EditsSerialised
<1>1. EditInv /\ [EditsNext]_editVars => EditInv'
  BY EditTypesStep, MutexStep DEF EditInv
<1>2. EditInv => EditsSerialised
  BY DEF EditInv, MutexInv, EditsSerialised
<1> QED
  BY EditInit, <1>1, <1>2, PTL DEF EditsSpec

-----------------------------------------------------------------------------

\* A copy of the status page is told apart from the lack of one.
LEMMA NoCopyIsNone == ASSUME NEW a, NEW b PROVE [loaded |-> a, at |-> b] # Absent
  BY DEF Absent

\* There is no copy of the status page at first.
LEMMA StatusInit == EditsInit => StatusInv
<1> SUFFICES ASSUME EditsInit PROVE StatusInv
  OBVIOUS
<1>1. EditTypes /\ BeforeData
  BY EditInit DEF EditInv
<1>2. boot = "first" /\ fake = Absent /\ enforcing \in BOOLEAN
  BY DEF EditsInit
<1>3. page = Absent \/ (page \in Pages /\ page.enforcing = enforcing /\ ~page.loaded)
  <2>1. page = Absent \/ page = [enforcing |-> enforcing, loaded |-> FALSE]
    BY DEF EditsInit
  <2>2. /\ [enforcing |-> enforcing, loaded |-> FALSE] \in Pages
        /\ [enforcing |-> enforcing, loaded |-> FALSE].enforcing = enforcing
        /\ ~[enforcing |-> enforcing, loaded |-> FALSE].loaded
    BY <1>2 DEF Pages
  <2> QED
    BY <2>1, <2>2, Zenon
<1> QED
  BY <1>1, <1>2, <1>3 DEF StatusInv, StatusTypes, PageInv, LoadInv, FakeStatusStock

\* The load of the rules leaves the mode alone.
LEMMA BumpPage ==
  ASSUME NEW p, p = Absent \/ p \in Pages
  PROVE /\ Bump(p) = Absent \/ Bump(p) \in Pages
        /\ Bump(p) # Absent => p # Absent /\ Bump(p).enforcing = p.enforcing
  BY DEF Bump, Pages

\* initialize_fake_status keeps a copy that is there, and copies the page as it is.
LEMMA CapturedCopy ==
  ASSUME StatusTypes, NEW alloc \in BOOLEAN, boot \in {"first", "second", "data"}
  PROVE /\ fake # Absent => Captured(alloc, page, boot) = fake
        /\ Captured(alloc, page, boot) = Absent \/ Captured(alloc, page, boot) \in Copies
        /\ fake = Absent /\ Captured(alloc, page, boot) # Absent =>
             page # Absent /\ Captured(alloc, page, boot).loaded = page.loaded
        /\ alloc /\ page # Absent /\ page.enforcing => Captured(alloc, page, boot) # Absent
        /\ fake = Absent /\ Captured(alloc, page, boot) # Absent =>
             Captured(alloc, page, boot).at = boot
<1>1. CASE fake = Absent /\ alloc /\ page # Absent /\ page.enforcing
  <2>1. Captured(alloc, page, boot) = [loaded |-> page.loaded, at |-> boot]
    BY <1>1 DEF Captured
  <2>2. page.loaded \in BOOLEAN
    BY <1>1 DEF StatusTypes, Pages
  <2>3. /\ [loaded |-> page.loaded, at |-> boot] \in Copies
        /\ [loaded |-> page.loaded, at |-> boot].loaded = page.loaded
        /\ [loaded |-> page.loaded, at |-> boot].at = boot
    BY <2>2 DEF Copies
  <2> QED
    BY <1>1, <2>1, <2>3, NoCopyIsNone, Zenon
<1>2. CASE ~(fake = Absent /\ alloc /\ page # Absent /\ page.enforcing)
  BY <1>2, Zenon DEF Captured, StatusTypes
<1> QED
  BY <1>1, <1>2

\* Every step keeps the copy stock if it was taken before the edit.
LEMMA StatusStep == StatusInv /\ [EditsNext]_editVars => StatusInv'
<1> SUFFICES ASSUME StatusInv, [EditsNext]_editVars
             PROVE StatusTypes' /\ PageInv' /\ LoadInv' /\ FakeStatusStock'
  BY EditTypesStep DEF StatusInv
<1> USE DEF StatusInv, EditTypes, BeforeData, Positions, EditorStep, statusVars, bootVars, policyVars
<1>1. ASSUME NEW alloc \in BOOLEAN, NEW dup \in BOOLEAN, SecondStage(alloc, dup) PROVE StatusTypes' /\ PageInv' /\ LoadInv' /\ FakeStatusStock'
  <2>1. /\ boot = "first" /\ boot' = "second" /\ UNCHANGED <<enforcing, oldInit>>
        /\ calm' = (enforcing /\ alloc)
    BY <1>1 DEF SecondStage
  <2>2. page' = page \/ page' = Bump(page)
    BY <1>1 DEF SecondStage, ApplyRules
  <2>3. /\ oldInit => fake' = fake
        /\ ~oldInit => fake' = Captured(alloc, page, boot)
    BY <1>1 DEF SecondStage, SecondStageStatus
  <2>4. /\ page' = Absent \/ page' \in Pages
        /\ page' # Absent => page # Absent /\ page'.enforcing = page.enforcing
    BY <2>2, BumpPage DEF StatusTypes
  <2>5. /\ fake' = Absent \/ fake' \in Copies
        /\ fake' # Absent => ~fake'.loaded
    BY <2>1, <2>3, CapturedCopy DEF LoadInv, StatusTypes
  <2>6. ~oldInit /\ calm' /\ page' # Absent => fake' # Absent
    BY <2>1, <2>3, <2>4, CapturedCopy DEF PageInv
  <2>7. StatusTypes' /\ PageInv'
    BY <2>1, <2>4, <2>5 DEF StatusTypes, PageInv
  <2>8. LoadInv'
    BY <2>1, <2>6 DEF LoadInv
  <2>9. FakeStatusStock'
    BY <2>5 DEF FakeStatusStock
  <2> QED
    BY <2>7, <2>8, <2>9
<1>2. CASE PostFsData
  BY <1>2 DEF PostFsData, StatusTypes, PageInv, LoadInv, FakeStatusStock
<1>3. CASE Setenforce
  <2>1. /\ UNCHANGED <<boot, oldInit, fake, calm>> /\ enforcing' = TRUE
        /\ page' = IF page = Absent THEN Absent ELSE [page EXCEPT !.enforcing = TRUE]
    BY <1>3 DEF Setenforce
  <2>2. CASE page = Absent
    BY <2>1, <2>2 DEF StatusTypes, PageInv, LoadInv, FakeStatusStock
  <2>3. CASE page # Absent
    <3>1. page \in Pages
      BY <2>3 DEF StatusTypes
    <3>2. page' = [page EXCEPT !.enforcing = TRUE]
      BY <2>1, <2>3
    <3>3. page' \in Pages /\ page'.enforcing = TRUE /\ page'.loaded = page.loaded
      BY <3>1, <3>2 DEF Pages
    <3> QED
      BY <2>1, <2>3, <3>3 DEF StatusTypes, PageInv, LoadInv, FakeStatusStock
  <2> QED
    BY <2>2, <2>3
<1>4. ASSUME NEW o \in Openers, OpenStatus(o) PROVE StatusTypes' /\ PageInv' /\ LoadInv' /\ FakeStatusStock'
  <2>1. UNCHANGED <<boot, oldInit, fake, calm, enforcing>>
    BY <1>4 DEF OpenStatus, bootVars
  <2>2. CASE page = Absent
    <3>1. page' = [enforcing |-> enforcing, loaded |-> FALSE]
      BY <1>4, <2>2 DEF OpenStatus
    <3>2. page' \in Pages /\ page'.enforcing = enforcing /\ ~page'.loaded
      BY <3>1 DEF Pages, StatusTypes
    <3> QED
      BY <2>1, <3>2 DEF StatusTypes, PageInv, LoadInv, FakeStatusStock
  <2>3. CASE page # Absent
    <3>1. page' = page
      BY <1>4, <2>3 DEF OpenStatus
    <3> QED
      BY <2>1, <3>1 DEF StatusTypes, PageInv, LoadInv, FakeStatusStock
  <2> QED
    BY <2>2, <2>3
<1>5. ASSUME NEW o \in Openers, OpenStatusCheck(o) PROVE StatusTypes' /\ PageInv' /\ LoadInv' /\ FakeStatusStock'
  BY <1>5 DEF OpenStatusCheck, StatusTypes, PageInv, LoadInv, FakeStatusStock
<1>6. ASSUME NEW o \in Openers, NEW alloc \in BOOLEAN, OpenStatusCapture(o, alloc) PROVE StatusTypes' /\ PageInv' /\ LoadInv' /\ FakeStatusStock'
  <2>1. /\ UNCHANGED <<boot, oldInit, page, calm, enforcing>>
        /\ fake' = Captured(alloc, page, boot)
    BY <1>6 DEF OpenStatusCapture, bootVars
  <2>2. StatusTypes' /\ PageInv'
    BY <2>1, CapturedCopy DEF StatusTypes, PageInv
  <2>3. CASE fake # Absent
    <3>1. fake' = fake
      BY <2>1, <2>3, CapturedCopy
    <3> QED
      BY <2>1, <2>2, <3>1 DEF LoadInv, FakeStatusStock
  <2>4. CASE fake = Absent
    <3>1. fake' # Absent => page # Absent /\ fake'.loaded = page.loaded /\ fake'.at = boot
      BY <2>1, <2>4, CapturedCopy
    <3>2. LoadInv'
      BY <2>1, <2>4, <3>1 DEF LoadInv
    <3>3. FakeStatusStock'
      BY <2>1, <2>4, <3>1 DEF LoadInv, FakeStatusStock
    <3> QED
      BY <2>2, <3>2, <3>3
  <2> QED
    BY <2>3, <2>4
<1>7. ASSUME NEW e \in Editors, CopyFails(e) PROVE StatusTypes' /\ PageInv' /\ LoadInv' /\ FakeStatusStock'
  BY <1>7 DEF CopyFails, StatusTypes, PageInv, LoadInv, FakeStatusStock
<1>8. ASSUME NEW e \in Editors, NEW dup \in BOOLEAN, LockAndDup(e, dup) PROVE StatusTypes' /\ PageInv' /\ LoadInv' /\ FakeStatusStock'
  BY <1>8 DEF LockAndDup, StatusTypes, PageInv, LoadInv, FakeStatusStock
<1>9. ASSUME NEW e \in Editors, Publish(e) PROVE StatusTypes' /\ PageInv' /\ LoadInv' /\ FakeStatusStock'
  BY <1>9 DEF Publish, StatusTypes, PageInv, LoadInv, FakeStatusStock
<1>10. ASSUME NEW e \in Editors, DropNew(e) PROVE StatusTypes' /\ PageInv' /\ LoadInv' /\ FakeStatusStock'
  BY <1>10 DEF DropNew, StatusTypes, PageInv, LoadInv, FakeStatusStock
<1>11. ASSUME NEW e \in Editors, ResetAndUnlock(e) PROVE StatusTypes' /\ PageInv' /\ LoadInv' /\ FakeStatusStock'
  <2>1. /\ UNCHANGED <<boot, oldInit, fake, calm, enforcing>>
        /\ page' = page \/ page' = Bump(page)
    BY <1>11 DEF ResetAndUnlock, bootVars
  <2>2. boot = "data"
    BY <1>11 DEF ResetAndUnlock
  <2>3. /\ page' = Absent \/ page' \in Pages
        /\ page' # Absent => page # Absent /\ page'.enforcing = page.enforcing
    BY <2>1, BumpPage DEF StatusTypes
  <2> QED
    BY <2>1, <2>2, <2>3 DEF StatusTypes, PageInv, LoadInv, FakeStatusStock
<1>12. CASE UNCHANGED editVars
  BY <1>12 DEF editVars, StatusTypes, PageInv, LoadInv, FakeStatusStock
<1> QED
  BY <1>1, <1>2, <1>3, <1>4, <1>5, <1>6, <1>7, <1>8, <1>9, <1>10, <1>11, <1>12 DEF EditsNext

\* The status page that apps are shown, when it was taken before post-fs-data on
\* a device that was enforcing at the second stage and not short of memory,
\* never shows the load of KernelSU's rules, however many processes open the
\* page and capture it late, and whenever they do.
THEOREM AppsSeeTheStockStatus == EditsSpec => []FakeStatusStock
  BY StatusInit, StatusStep, PTL DEF EditsSpec, StatusInv

-----------------------------------------------------------------------------
(* What the edits leave in the policy in force, and what apps are told from *)
(* the backup: Sepolicy.                                                    *)

\* Two databases that answer alike.
Alike(a, b) ==
  /\ Tables(a) = Tables(b)
  /\ a.types = b.types /\ a.attributes = b.attributes /\ a.slots = b.slots
  /\ a.roleTypes = b.roleTypes
  /\ a.permissive = b.permissive /\ a.allowUnknown = b.allowUnknown

\* The contexts that the backup's sidtab may hold.
Contexts ==
  {Isids[i] : i \in DOMAIN Isids} \cup {a[1] : a \in Accesses} \cup {a[2] : a \in Accesses}

\* r is the sid of the context x and a table that has it, besides what the
\* table had.
SidFor(db, tab, x, r) ==
  /\ r.sidtab \in Seq(Contexts) /\ Len(tab) <= Len(r.sidtab)
  /\ \A i \in 1 .. Len(tab) : r.sidtab[i] = tab[i]
  /\ StringToContext(db, x) = Invalid => r.sid = 0
  /\ StringToContext(db, x) # Invalid =>
       /\ r.sid \in 1 .. Len(r.sidtab) /\ r.sidtab[r.sid] = x
       /\ StringToContext(db, x) = x

\* Until the rules are applied the policy is the stock one, and the backup is
\* taken from it and answers like it ever after.
BackupInv ==
  /\ stock \in StockPolicies
  /\ ~booted => live = stock /\ backup = None
  /\ backup # None => Alike(backup, stock)
  /\ sidtab \in Seq(Contexts)

\* The types allowed for a role have their slots.
Shaped(db) ==
  /\ DOMAIN db = Fields
  /\ \A r \in Roles : db.roleTypes[r] \subseteq db.slots

\* e differs from db at most in what Shaped does not look at.
Beside(db, e) == DOMAIN e = DOMAIN db /\ e.roleTypes = db.roleTypes /\ e.slots = db.slots

\* e differs from db at most in what a decision reads or len counts.
Tame(db, e) ==
  /\ Beside(db, e)
  /\ e.types = db.types /\ e.torn = db.torn /\ e.freed = db.freed /\ e.wild = db.wild

\* Every type has its slot, and the tables are the policy's own.
Whole(db) == db.types \subseteq db.slots /\ ~db.torn /\ ~db.freed /\ ~db.wild

\* One of the two commands failed that can leave a policy otherwise.
Culprits == {"type", "attr", "type_transition"}
Blamed(faults) == \E f \in faults : f[1] \in Culprits

\* Where the loop of handle_sepolicy is that began with db: what was read, with
\* its database.
Running(db, acc) ==
  /\ DOMAIN acc = {"db", "done", "failed", "index", "malformed"}
  /\ Shaped(acc.db)
  /\ Whole(db) => Whole(acc.db) \/ Blamed(acc.failed)

\* The types allowed for roles have slots, and the policy is whole unless one of
\* the commands is to blame, and so is whatever was done with it.
StrayInv ==
  /\ Shaped(live)
  /\ Whole(live) \/ Blamed(failed)
  /\ ~booted => live \in StockPolicies
  /\ NoStrayAccess

\* The loop over the commands at the places in s, given what it comes to over
\* fewer of them, and a function that has all of that for the sets in S.
After(g, s, db, batch, junk, fault) ==
  IF s = {} THEN [db |-> db, done |-> <<>>, failed |-> {}, index |-> 1, malformed |-> FALSE]
  ELSE RunOne(g[s \ {Max(s)}], batch[Max(s)], junk, fault)

IsRun(g, S, db, batch, junk, fault) == g = [s \in S |-> After(g, s, db, batch, junk, fault)]

-----------------------------------------------------------------------------
(* Copies and contexts *)

\* A record that differs at most in len.
LEMMA OtherLen ==
  ASSUME NEW p, DOMAIN p = Fields, NEW n
  PROVE  Alike([p EXCEPT !.len = n], p) /\ Alike(p, p)
  <1>1. PICK q : q = [p EXCEPT !.len = n]
    OBVIOUS
  <1>2. /\ q.types = p.types /\ q.attributes = p.attributes /\ q.slots = p.slots
        /\ q.roleTypes = p.roleTypes /\ q.permissive = p.permissive
        /\ q.allowUnknown = p.allowUnknown /\ q.attrMap = p.attrMap /\ q.avtab = p.avtab
        /\ q.bounds = p.bounds /\ q.constraints = p.constraints /\ q.dominates = p.dominates
        /\ q.roleAllow = p.roleAllow
    BY <1>1 DEF Fields
  <1>3. Tables(q) = Tables(p)
    BY <1>2 DEF Tables
  <1>4. Alike(q, p)
    BY <1>2, <1>3 DEF Alike
  <1> QED BY <1>1, <1>4 DEF Alike

\* ksu_dup_sepolicy and ksu_dup_policydb: a copy answers like the original.
LEMMA CopyAlike ==
  ASSUME NEW p \in StockPolicies
  PROVE  Alike(Dup(p).db, p)
  <1>1. DOMAIN p = Fields /\ p.attrMap = [t \in p.slots |-> p.attrMap[t] \cup {t}]
    BY SepolicyAssumption
  <1>2. PICK q : q = Read(p)
    OBVIOUS
  <1>3. DOMAIN q = Fields
    BY <1>1, <1>2 DEF Read
  <1>4. Alike(q, p)
    <2>1. PICK m : m = p.attrMap
      OBVIOUS
    <2>2. [t \in DOMAIN m |-> m[t] \cup {t}] = m
      BY <1>1, <2>1
    <2>3. q = [p EXCEPT !.attrMap = m]
      BY <1>2, <2>1, <2>2 DEF Read
    <2>4. /\ q.types = p.types /\ q.attributes = p.attributes /\ q.slots = p.slots
          /\ q.roleTypes = p.roleTypes /\ q.permissive = p.permissive
          /\ q.allowUnknown = p.allowUnknown /\ q.attrMap = p.attrMap /\ q.avtab = p.avtab
          /\ q.bounds = p.bounds /\ q.constraints = p.constraints /\ q.dominates = p.dominates
          /\ q.roleAllow = p.roleAllow
      BY <1>1, <2>1, <2>3 DEF Fields
    <2> QED BY <2>4 DEF Alike, Tables
  <1>5. CASE legacy
    <2>1. PICK n : n = ImageSize(p)
      OBVIOUS
    <2>2. Dup(p).db = [q EXCEPT !.len = n]
      BY <1>2, <1>5, <2>1 DEF Dup, DupPolicydb, Result
    <2>3. Alike([q EXCEPT !.len = n], q)
      BY <1>3, OtherLen
    <2> QED BY <1>4, <2>2, <2>3 DEF Alike
  <1>6. CASE ~legacy
    <2>1. Dup(p).db = q
      BY <1>2, <1>6 DEF Dup, DupSepolicy, Result
    <2> QED BY <1>4, <2>1
  <1> QED BY <1>5, <1>6

\* Databases that are alike take the same texts for contexts, and decide alike.
LEMMA AlikeAnswers ==
  ASSUME NEW a, NEW b, Alike(a, b), NEW x, NEW y, NEW class
  PROVE  /\ StringToContext(a, x) = StringToContext(b, x)
         /\ ContextStructComputeAv(a, x, y, class) = ContextStructComputeAv(b, x, y, class)
  <1>1. StringToContext(a, x) = StringToContext(b, x)
    BY DEF Alike, StringToContext, PolicydbContextIsvalid
  <1>2. ContextStructComputeAv(a, x, y, class) = ContextStructComputeAv(b, x, y, class)
    <2>1. PICK t : t = Tables(a)
      OBVIOUS
    <2>2. t = Tables(b)
      BY <2>1 DEF Alike
    <2> QED BY <2>1, <2>2 DEF ContextStructComputeAv
  <1> QED BY <1>1, <1>2

\* security_context_to_sid_with_policy: the sid leads back to the context, and
\* the sids given out before stay what they were.
LEMMA SidOfContext ==
  ASSUME NEW db, NEW tab \in Seq(Contexts), NEW x \in Contexts,
         NEW r, r = SecurityContextToSid(db, tab, x)
  PROVE  SidFor(db, tab, x, r)
  <1>1. PICK c : c = StringToContext(db, x)
    OBVIOUS
  <1>2. c = x \/ c = Invalid
    BY <1>1 DEF StringToContext
  <1>3. CASE c = Invalid
    <2>1. r.sid = 0 /\ r.sidtab = tab
      BY <1>1, <1>3 DEF SecurityContextToSid
    <2>2. Len(tab) \in Nat
      OBVIOUS
    <2> QED BY <1>1, <1>3, <2>1, <2>2 DEF SidFor
  <1>4. CASE c # Invalid
    <2>1. PICK t : t = SidtabEnter(tab, x)
      OBVIOUS
    <2>2. r.sid = (CHOOSE i \in DOMAIN t : t[i] = x) /\ r.sidtab = t
      BY <1>1, <1>2, <1>4, <2>1 DEF SecurityContextToSid
    <2>3. /\ t \in Seq(Contexts) /\ Len(tab) <= Len(t)
          /\ \A i \in 1 .. Len(tab) : t[i] = tab[i]
          /\ \E i \in 1 .. Len(t) : t[i] = x
      <3>1. CASE x \in Range(tab)
        <4>1. t = tab
          BY <2>1, <3>1 DEF SidtabEnter
        <4>2. \E i \in DOMAIN tab : tab[i] = x
          BY <3>1 DEF Range
        <4>3. DOMAIN tab = 1 .. Len(tab) /\ Len(tab) \in Nat
          OBVIOUS
        <4> QED BY <4>1, <4>2, <4>3
      <3>2. CASE x \notin Range(tab)
        <4>1. t = Append(tab, x)
          BY <2>1, <3>2 DEF SidtabEnter
        <4>2. /\ Append(tab, x) \in Seq(Contexts) /\ Len(Append(tab, x)) = Len(tab) + 1 /\ Len(tab) \in Nat
              /\ Append(tab, x)[Len(tab) + 1] = x
              /\ \A i \in 1 .. Len(tab) : Append(tab, x)[i] = tab[i]
          OBVIOUS
        <4>3. Len(tab) + 1 \in 1 .. Len(t)
          BY <4>1, <4>2
        <4> QED BY <4>1, <4>2, <4>3
      <3> QED BY <3>1, <3>2
    <2>4. DOMAIN t = 1 .. Len(t)
      BY <2>3
    <2>5. r.sid \in 1 .. Len(t) /\ t[r.sid] = x
      BY <2>2, <2>3, <2>4
    <2> QED BY <1>1, <1>2, <1>4, <2>2, <2>3, <2>5 DEF SidFor
  <1> QED BY <1>2, <1>3, <1>4

-----------------------------------------------------------------------------
(* The cache *)

\* A step keeps the cache as new as the policy.
LEMMA CacheStep ==
  ASSUME AvcFresh, [Next]_vars
  PROVE  AvcFresh'
  <1>1. CASE avc' = None
    BY <1>1 DEF AvcFresh, None
  <1>2. CASE UNCHANGED <<avc, live>>
    BY <1>2 DEF AvcFresh, None
  <1>3. ASSUME NEW backed, NEW copied, NEW fault, ApplyKernelsuRules(backed, copied, fault)
        PROVE  AvcFresh'
    <2>1. avc' = None \/ UNCHANGED <<avc, live>>
      BY <1>3 DEF ApplyKernelsuRules, PublishRun, ResetAvcCache
    <2> QED BY <1>1, <1>2, <2>1
  <1>4. ASSUME NEW batch, NEW junk, NEW fault, HandleSepolicy(batch, junk, fault)
        PROVE  AvcFresh'
    <2>1. avc' = None \/ UNCHANGED <<avc, live>>
      BY <1>4 DEF HandleSepolicy, PublishRun, ResetAvcCache
    <2> QED BY <1>1, <1>2, <2>1
  <1>5. CASE \/ \E a \in Accesses : HiddenWriteContext(a[1])
             \/ \E a \in Accesses : HiddenWriteAccess(a[1], a[2], a[3])
             \/ UNCHANGED vars
    <2>1. UNCHANGED <<avc, live>>
      BY <1>5 DEF HiddenWriteContext, HiddenWriteAccess, vars
    <2> QED BY <1>2, <2>1
  <1>6. ASSUME NEW s, NEW t, NEW class, Decide(s, t, class)
        PROVE  AvcFresh'
    <2>1. PICK av : av = ContextStructComputeAv(live, s, t, class)
      OBVIOUS
    <2>2. /\ live' = live
          /\ avc' = [s |-> s, t |-> t, class |-> class, av |-> av] \/ avc' = avc
      BY <1>6, <2>1 DEF Decide
    <2>3. CASE avc' = avc
      BY <1>2, <2>2, <2>3
    <2>4. CASE avc' = [s |-> s, t |-> t, class |-> class, av |-> av]
      <3>1. avc'.s = s /\ avc'.t = t /\ avc'.class = class /\ avc'.av = av
        BY <2>4
      <3> QED BY <2>1, <2>2, <3>1 DEF AvcFresh
    <2> QED BY <2>2, <2>3, <2>4
  <1> QED BY <1>3, <1>4, <1>5, <1>6 DEF Next, Step

\* reset_avc_cache runs after every published edit, so that no decision of an
\* earlier policy is used: for any policies, batches and number of edits.
THEOREM NoDecisionOutlivesItsPolicy == Spec => []AvcFresh
  <1>1. Init => AvcFresh
    BY DEF Init, AvcFresh
  <1>2. AvcFresh /\ [Next]_vars => AvcFresh'
    BY CacheStep
  <1> QED BY <1>1, <1>2, PTL DEF Spec

-----------------------------------------------------------------------------
(* The backup *)

\* A sequence over a larger set.
LEMMA SeqOver ==
  ASSUME NEW S, NEW T, S \subseteq T, NEW q \in Seq(S)
  PROVE  q \in Seq(T)
  <1>1. q \in [1 .. Len(q) -> T] /\ Len(q) \in Nat
    OBVIOUS
  <1> QED BY <1>1

\* What the first step of HiddenWriteContext and HiddenWriteAccess gives.
LEMMA TextsAreContexts ==
  ASSUME NEW a \in Accesses
  PROVE  a[1] \in Contexts /\ a[2] \in Contexts
  BY DEF Contexts

\* A step keeps the backup.
LEMMA BackupStep ==
  ASSUME BackupInv, [Next]_vars
  PROVE  BackupInv'
  <1>1. stock \in StockPolicies /\ sidtab \in Seq(Contexts)
    BY DEF BackupInv
  <1>2. CASE UNCHANGED <<booted, stock, live, backup, sidtab>>
    BY <1>2 DEF BackupInv, Alike, None, Tables
  <1>3. CASE booted /\ UNCHANGED <<booted, stock, backup>> /\ sidtab' \in Seq(Contexts)
    BY <1>3 DEF BackupInv, Alike, None, Tables
  <1>4. ASSUME NEW backed, NEW copied, NEW fault, ApplyKernelsuRules(backed, copied, fault)
        PROVE  BackupInv'
    <2>1. /\ ~booted /\ booted' = TRUE /\ stock' = stock
          /\ backup' = Dup(live).db \/ backup' = None
          /\ sidtab' = Isids \/ sidtab' = <<>>
      BY <1>4 DEF ApplyKernelsuRules
    <2>2. live = stock
      BY <2>1 DEF BackupInv
    <2>3. backup' = None \/ Alike(backup', stock)
      BY <1>1, <2>1, <2>2, CopyAlike
    <2>4. sidtab' \in Seq(Contexts)
      <3>1. Isids \in Seq(Range(Isids))
        BY SepolicyAssumption
      <3>2. Range(Isids) \subseteq Contexts
        BY DEF Range, Contexts
      <3>3. Isids \in Seq(Contexts)
        BY <3>1, <3>2, SeqOver
      <3>4. <<>> \in Seq(Contexts)
        OBVIOUS
      <3> QED BY <2>1, <3>3, <3>4
    <2> QED BY <1>1, <2>1, <2>3, <2>4 DEF BackupInv, Alike, None, Tables
  <1>5. ASSUME NEW batch, NEW junk, NEW fault, HandleSepolicy(batch, junk, fault)
        PROVE  BackupInv'
    <2>1. booted /\ UNCHANGED <<booted, stock, backup, sidtab>>
      BY <1>5 DEF HandleSepolicy
    <2> QED BY <1>1, <1>3, <2>1
  <1>6. ASSUME NEW a \in Accesses, HiddenWriteContext(a[1])
        PROVE  BackupInv'
    <2>1. /\ backup # None /\ UNCHANGED <<booted, stock, backup>>
          /\ sidtab' = SecurityContextToSid(backup, sidtab, a[1]).sidtab
      BY <1>6 DEF HiddenWriteContext
    <2>2. a[1] \in Contexts
      BY TextsAreContexts
    <2>3. PICK x : x = a[1]
      OBVIOUS
    <2>4. PICK r : r = SecurityContextToSid(backup, sidtab, x)
      OBVIOUS
    <2>5. r.sidtab \in Seq(Contexts)
      BY <1>1, <2>2, <2>3, <2>4, SidOfContext DEF SidFor
    <2>6. booted
      BY <2>1 DEF BackupInv
    <2> QED BY <1>3, <2>1, <2>3, <2>4, <2>5, <2>6
  <1>7. ASSUME NEW a \in Accesses, HiddenWriteAccess(a[1], a[2], a[3])
        PROVE  BackupInv'
    <2>1. PICK x \in Contexts, y \in Contexts : x = a[1] /\ y = a[2]
      BY TextsAreContexts
    <2>2. PICK r1 : r1 = SecurityContextToSid(backup, sidtab, x)
      OBVIOUS
    <2>3. PICK r2 : r2 = SecurityContextToSid(backup, r1.sidtab, y)
      OBVIOUS
    <2>4. /\ backup # None /\ UNCHANGED <<booted, stock, backup>>
          /\ sidtab' = r1.sidtab \/ sidtab' = r2.sidtab
      BY <1>7, <2>1, <2>2, <2>3 DEF HiddenWriteAccess
    <2>5. r1.sidtab \in Seq(Contexts)
      BY <1>1, <2>2, SidOfContext DEF SidFor
    <2>6. r2.sidtab \in Seq(Contexts)
      BY <2>3, <2>5, SidOfContext DEF SidFor
    <2>7. booted
      BY <2>4 DEF BackupInv
    <2> QED BY <1>3, <2>4, <2>5, <2>6, <2>7
  <1>8. CASE (\E a \in Accesses : Decide(a[1], a[2], a[3])) \/ UNCHANGED vars
    <2>1. UNCHANGED <<booted, stock, live, backup, sidtab>>
      BY <1>8 DEF Decide, vars
    <2> QED BY <1>2, <2>1
  <1> QED BY <1>4, <1>5, <1>6, <1>7, <1>8 DEF Next, Step

\* What my_write_context answers.
LEMMA ContextAnswer ==
  ASSUME BackupInv, NEW a \in Accesses, HiddenWriteContext(a[1])
  PROVE  StockAnswers'
  <1>1. PICK x \in Contexts : x = a[1]
    BY TextsAreContexts
  <1>2. PICK r : r = SecurityContextToSid(backup, sidtab, x)
    OBVIOUS
  <1>3. PICK c : c = SecuritySidToContext(backup, r.sidtab, r.sid)
    OBVIOUS
  <1>4. backup # None /\ stock' = stock /\ answer' = [about |-> <<x>>, is |-> c]
    BY <1>1, <1>2, <1>3 DEF HiddenWriteContext
  <1>5. Alike(backup, stock) /\ stock \in StockPolicies /\ sidtab \in Seq(Contexts)
    BY <1>4 DEF BackupInv
  <1>6. StringToContext(backup, x) = StringToContext(stock, x)
    BY <1>5, AlikeAnswers
  <1>7. /\ r.sidtab \in Seq(Contexts)
        /\ StringToContext(backup, x) = Invalid => r.sid = 0
        /\ StringToContext(backup, x) # Invalid =>
             /\ r.sid \in 1 .. Len(r.sidtab) /\ r.sidtab[r.sid] = x
             /\ StringToContext(backup, x) = x
    <2>1. SidFor(backup, sidtab, x, r)
      BY <1>2, <1>5, SidOfContext
    <2> QED BY <2>1 DEF SidFor
  <1>8. DOMAIN r.sidtab = 1 .. Len(r.sidtab)
    BY <1>7
  <1>9. c = StringToContext(stock, x)
    <2>1. CASE StringToContext(backup, x) = Invalid
      <3>1. r.sid \notin DOMAIN r.sidtab
        BY <1>7, <1>8, <2>1
      <3> QED BY <1>3, <1>6, <2>1, <3>1 DEF SecuritySidToContext
    <2>2. CASE StringToContext(backup, x) # Invalid
      <3>1. x.type \in backup.types
        BY <2>2 DEF StringToContext
      <3>2. x.type \in backup.slots
        BY <1>5, <3>1, SepolicyAssumption DEF Alike
      <3>3. c = x
        BY <1>3, <1>7, <1>8, <2>2, <3>2 DEF SecuritySidToContext, ContextStructToString
      <3> QED BY <1>6, <1>7, <2>2, <3>3
    <2> QED BY <2>1, <2>2
  <1>10. answer'.about = <<x>> /\ answer'.is = c /\ Len(<<x>>) = 1 /\ <<x>>[1] = x
    BY <1>4
  <1> QED BY <1>4, <1>9, <1>10 DEF StockAnswers

\* security_compute_av_user_with_policy, for two sids that the table has.
LEMMA DecisionOfSids ==
  ASSUME NEW db, NEW tab, NEW i \in DOMAIN tab, NEW j \in DOMAIN tab, NEW class
  PROVE  SecurityComputeAvUser(db, tab, i, j, class) =
           [av |-> IF class = "none"
                   THEN [AvdInit EXCEPT !.allowed = IF db.allowUnknown THEN Bits ELSE {}]
                   ELSE ContextStructComputeAv(db, tab[i], tab[j], class),
            permissive |-> tab[i].type \in db.permissive]
  <1>1. [AvdInit EXCEPT !.allowed = {}] = AvdInit
    BY DEF AvdInit
  <1>2. PICK u : u = [AvdInit EXCEPT !.allowed = Bits]
    OBVIOUS
  <1>3. PICK v : v = ContextStructComputeAv(db, tab[i], tab[j], class)
    OBVIOUS
  <1>4. PICK w : w = [AvdInit EXCEPT !.allowed = IF db.allowUnknown THEN Bits ELSE {}]
    OBVIOUS
  <1>5. w = IF db.allowUnknown THEN u ELSE AvdInit
    BY <1>1, <1>2, <1>4
  <1>6. SecurityComputeAvUser(db, tab, i, j, class) =
          [av |-> IF class = "none" THEN w ELSE v, permissive |-> tab[i].type \in db.permissive]
    <2>1. CASE class = "none"
      BY <1>2, <1>5, <2>1 DEF SecurityComputeAvUser
    <2>2. CASE class # "none"
      BY <1>3, <2>2 DEF SecurityComputeAvUser
    <2> QED BY <2>1, <2>2
  <1> QED BY <1>3, <1>4, <1>6

\* What my_write_access answers.
LEMMA AccessAnswer ==
  ASSUME BackupInv, NEW a \in Accesses,
         HiddenWriteAccess(a[1], a[2], a[3])
  PROVE  StockAnswers'
  <1>1. PICK x \in Contexts, y \in Contexts : x = a[1] /\ y = a[2]
    BY TextsAreContexts
  <1>2. PICK class : class = a[3]
    OBVIOUS
  <1>3. PICK r1 : r1 = SecurityContextToSid(backup, sidtab, x)
    OBVIOUS
  <1>4. PICK r2 : r2 = SecurityContextToSid(backup, r1.sidtab, y)
    OBVIOUS
  <1>5. PICK d : d = SecurityComputeAvUser(backup, r2.sidtab, r1.sid, r2.sid, class)
    OBVIOUS
  <1>6. PICK z : z = IF r1.sid # 0 /\ r2.sid # 0 THEN d ELSE Invalid
    OBVIOUS
  <1>7. backup # None /\ stock' = stock /\ answer' = [about |-> <<x, y, class>>, is |-> z]
    BY <1>1, <1>2, <1>3, <1>4, <1>5, <1>6 DEF HiddenWriteAccess
  <1>8. Alike(backup, stock) /\ sidtab \in Seq(Contexts)
    BY <1>7 DEF BackupInv
  <1>9. PICK cx : cx = StringToContext(stock, x)
    OBVIOUS
  <1>10. PICK cy : cy = StringToContext(stock, y)
    OBVIOUS
  <1>11. cx = StringToContext(backup, x) /\ cy = StringToContext(backup, y)
    BY <1>8, <1>9, <1>10, AlikeAnswers
  <1>12. /\ r1.sidtab \in Seq(Contexts)
         /\ cx = Invalid => r1.sid = 0
         /\ cx # Invalid => r1.sid \in 1 .. Len(r1.sidtab) /\ r1.sidtab[r1.sid] = x /\ cx = x
    <2>1. SidFor(backup, sidtab, x, r1)
      BY <1>3, <1>8, SidOfContext
    <2> QED BY <1>11, <2>1 DEF SidFor
  <1>13. /\ r2.sidtab \in Seq(Contexts) /\ Len(r1.sidtab) <= Len(r2.sidtab)
         /\ \A i \in 1 .. Len(r1.sidtab) : r2.sidtab[i] = r1.sidtab[i]
         /\ cy = Invalid => r2.sid = 0
         /\ cy # Invalid => r2.sid \in 1 .. Len(r2.sidtab) /\ r2.sidtab[r2.sid] = y /\ cy = y
    <2>1. r1.sidtab \in Seq(Contexts)
      BY <1>12
    <2>2. SidFor(backup, r1.sidtab, y, r2)
      BY <1>4, <2>1, SidOfContext
    <2> QED BY <1>11, <2>2 DEF SidFor
  <1> DEFINE unknown == [AvdInit EXCEPT !.allowed = IF stock.allowUnknown THEN Bits ELSE {}]
             told == [av |-> IF class = "none" THEN unknown
                             ELSE ContextStructComputeAv(stock, cx, cy, class),
                      permissive |-> cx.type \in stock.permissive]
  <1>14. z = IF Invalid \in {cx, cy} THEN Invalid ELSE told
    <2>1. CASE cx = Invalid \/ cy = Invalid
      BY <1>6, <1>12, <1>13, <2>1
    <2>2. CASE cx # Invalid /\ cy # Invalid
      <3>1. DOMAIN r2.sidtab = 1 .. Len(r2.sidtab) /\ Len(r1.sidtab) \in Nat /\ Len(r2.sidtab) \in Nat
        BY <1>12, <1>13
      <3>2. r1.sid \in DOMAIN r2.sidtab /\ r2.sid \in DOMAIN r2.sidtab /\ r1.sid # 0 /\ r2.sid # 0
        BY <1>12, <1>13, <2>2, <3>1
      <3>3. r2.sidtab[r1.sid] = cx /\ r2.sidtab[r2.sid] = cy
        BY <1>12, <1>13, <2>2
      <3>4. d = [av |-> IF class = "none"
                        THEN [AvdInit EXCEPT !.allowed = IF backup.allowUnknown THEN Bits ELSE {}]
                        ELSE ContextStructComputeAv(backup, cx, cy, class),
                 permissive |-> cx.type \in backup.permissive]
        <4>1. PICK tab : tab = r2.sidtab
          OBVIOUS
        <4>2. PICK i \in DOMAIN tab, j \in DOMAIN tab : i = r1.sid /\ j = r2.sid
          BY <3>2, <4>1
        <4>3. SecurityComputeAvUser(backup, tab, i, j, class) =
                [av |-> IF class = "none"
                        THEN [AvdInit EXCEPT !.allowed = IF backup.allowUnknown THEN Bits ELSE {}]
                        ELSE ContextStructComputeAv(backup, tab[i], tab[j], class),
                 permissive |-> tab[i].type \in backup.permissive]
          BY DecisionOfSids
        <4>4. tab[i] = cx /\ tab[j] = cy
          BY <3>3, <4>1, <4>2
        <4> QED BY <1>5, <4>1, <4>2, <4>3, <4>4
      <3>5. /\ backup.allowUnknown = stock.allowUnknown /\ backup.permissive = stock.permissive
            /\ ContextStructComputeAv(backup, cx, cy, class)
                 = ContextStructComputeAv(stock, cx, cy, class)
        BY <1>8, AlikeAnswers DEF Alike
      <3>6. d = told
        BY <3>4, <3>5
      <3> QED BY <1>6, <2>2, <3>2, <3>6
    <2> QED BY <2>1, <2>2
  <1>15. /\ answer'.about = <<x, y, class>> /\ answer'.is = z
         /\ Len(<<x, y, class>>) = 3
         /\ <<x, y, class>>[1] = x /\ <<x, y, class>>[2] = y /\ <<x, y, class>>[3] = class
    BY <1>7
  <1> QED BY <1>7, <1>9, <1>10, <1>14, <1>15 DEF StockAnswers

\* A step keeps the answers right.
LEMMA AnswerStep ==
  ASSUME BackupInv, StockAnswers, [Next]_vars
  PROVE  StockAnswers'
  <1>1. CASE UNCHANGED <<answer, stock>>
    BY <1>1 DEF StockAnswers
  <1>2. CASE \/ \E backed, copied, fault : ApplyKernelsuRules(backed, copied, fault)
             \/ \E batch, junk, fault : HandleSepolicy(batch, junk, fault)
             \/ \E a \in Accesses : Decide(a[1], a[2], a[3])
             \/ UNCHANGED vars
    <2>1. UNCHANGED <<answer, stock>>
      BY <1>2 DEF ApplyKernelsuRules, HandleSepolicy, Decide, vars
    <2> QED BY <1>1, <2>1
  <1> QED BY <1>2, ContextAnswer, AccessAnswer DEF Next, Step

\* What the hooks of selinux_hide tell an app is what the policy that init
\* loaded says: for any such policy, whatever was edited and asked before.
THEOREM AppsAreToldTheStockPolicy ==
  Spec => []StockAnswers
  <1>1. Init => BackupInv /\ StockAnswers
    BY DEF Init, BackupInv, StockAnswers
  <1>2. BackupInv /\ StockAnswers /\ [Next]_vars => BackupInv' /\ StockAnswers'
    BY BackupStep, AnswerStep
  <1> QED BY <1>1, <1>2, PTL DEF Spec

-----------------------------------------------------------------------------
(* Types and slots *)

\* Edits beside the roles and the slots.
LEMMA ShapedBeside ==
  ASSUME NEW db, NEW e, Shaped(db), Beside(db, e)
  PROVE  Shaped(e)
  BY DEF Shaped, Beside

\* Nothing changed.
LEMMA BesideItself ==
  ASSUME NEW db
  PROVE  Beside(db, db) /\ Tame(db, db)
  BY DEF Beside, Tame

\* Edits beside what makes a policy whole.
LEMMA WholeTame ==
  ASSUME NEW db, NEW e, Whole(db), Tame(db, e)
  PROVE  Whole(e)
  BY DEF Whole, Tame, Beside

\* add_rule.
LEMMA AddRuleTame ==
  ASSUME NEW db, Shaped(db), NEW s, NEW t, NEW c, NEW perm, NEW effect, NEW invert, NEW mem
  PROVE  Tame(db, AddRule(db, s, t, c, perm, effect, invert, mem).db)
  <1>1. PICK x, y : AddRuleRaw(db, s, t, c, perm, effect, invert, mem).db
                      = [db EXCEPT !.avtab = x, !.len = y]
    BY DEF AddRuleRaw, Result
  <1>2. PICK e : e = AddRuleRaw(db, s, t, c, perm, effect, invert, mem).db
    OBVIOUS
  <1>3. e = [db EXCEPT !.avtab = x, !.len = y]
    BY <1>1, <1>2
  <1>4. Tame(db, e)
    BY <1>3 DEF Shaped, Beside, Tame, Fields
  <1>5. PICK f : f = AddRule(db, s, t, c, perm, effect, invert, mem).db
    OBVIOUS
  <1>6. f = db \/ f = e
    BY <1>2, <1>5 DEF AddRule, Result
  <1>7. Tame(db, f)
    BY <1>4, <1>6, BesideItself
  <1> QED BY <1>5, <1>7

\* add_xperm_rule.
LEMMA AddXpermRuleTame ==
  ASSUME NEW db, Shaped(db), NEW s, NEW t, NEW c, NEW range, NEW effect, NEW mem
  PROVE  Tame(db, AddXpermRule(db, s, t, c, range, effect, mem).db)
  <1>1. PICK f : f = AddXpermRule(db, s, t, c, range, effect, mem).db
    OBVIOUS
  <1>2. f = db \/ \E x : f = AddXpermRuleRaw(db, s, t, c, x, effect, mem)
    BY <1>1 DEF AddXpermRule, Result
  <1>3. ASSUME NEW x, f = AddXpermRuleRaw(db, s, t, c, x, effect, mem)
        PROVE  Tame(db, f)
    <2>1. PICK v, w : f = [db EXCEPT !.xperms = v, !.len = w]
      BY <1>3 DEF AddXpermRuleRaw
    <2> QED BY <2>1 DEF Shaped, Beside, Tame, Fields
  <1>4. Tame(db, f)
    BY <1>2, <1>3, BesideItself
  <1> QED BY <1>1, <1>4

\* add_type_rule.
LEMMA AddTypeRuleTame ==
  ASSUME NEW db, Shaped(db), NEW s, NEW t, NEW c, NEW d, NEW effect, NEW mem
  PROVE  Tame(db, AddTypeRule(db, s, t, c, d, effect, mem).db)
  <1>1. PICK f : f = AddTypeRule(db, s, t, c, d, effect, mem).db
    OBVIOUS
  <1>2. f = db \/ \E x, y : f = [db EXCEPT !.typeRules = x, !.len = y]
    BY <1>1 DEF AddTypeRule, Result
  <1>3. ASSUME NEW x, NEW y, f = [db EXCEPT !.typeRules = x, !.len = y]
        PROVE  Tame(db, f)
    BY <1>3 DEF Shaped, Beside, Tame, Fields
  <1>4. Tame(db, f)
    BY <1>2, <1>3, BesideItself
  <1> QED BY <1>1, <1>4

\* set_type_state.
LEMMA SetTypeStateTame ==
  ASSUME NEW db, Shaped(db), NEW name, NEW permissive, NEW mem
  PROVE  Tame(db, SetTypeState(db, name, permissive, mem).db)
  <1>1. PICK f : f = SetTypeState(db, name, permissive, mem).db
    OBVIOUS
  <1>2. f = db \/ \E x : f = [db EXCEPT !.permissive = x]
    BY <1>1 DEF SetTypeState, Result
  <1>3. ASSUME NEW x, f = [db EXCEPT !.permissive = x]
        PROVE  Tame(db, f)
    BY <1>3 DEF Shaped, Beside, Tame, Fields
  <1>4. Tame(db, f)
    BY <1>2, <1>3, BesideItself
  <1> QED BY <1>1, <1>4

\* add_typeattribute.
LEMMA AddTypeattributeBeside ==
  ASSUME NEW db, Shaped(db), NEW type, NEW attr, NEW mem
  PROVE  /\ Beside(db, AddTypeattribute(db, type, attr, mem).db)
         /\ Whole(db) => Tame(db, AddTypeattribute(db, type, attr, mem).db)
  <1>1. PICK f : f = AddTypeattribute(db, type, attr, mem).db
    OBVIOUS
  <1>2. f = db \/ (f = AddTypeattributeRaw(db, type, attr, mem) /\ type \in db.types)
    BY <1>1 DEF AddTypeattribute, Result
  <1>3. ASSUME f = AddTypeattributeRaw(db, type, attr, mem), type \in db.types
        PROVE  Beside(db, f) /\ (Whole(db) => Tame(db, f))
    <2>1. PICK x, y, z : /\ f = [db EXCEPT !.wild = x, !.attrMap = y, !.constraints = z]
                         /\ x = (db.wild \/ ~(type \in db.slots /\ ~db.freed))
      BY <1>3, Zenon DEF AddTypeattributeRaw
    <2>2. Beside(db, f)
      BY <2>1 DEF Shaped, Beside, Fields
    <2>3. f.types = db.types /\ f.torn = db.torn /\ f.freed = db.freed /\ f.wild = x
      BY <2>1 DEF Shaped, Fields
    <2>4. ASSUME Whole(db)
          PROVE  f.wild = db.wild
      <3>1. type \in db.slots /\ ~db.freed
        BY <1>3, <2>4 DEF Whole
      <3>2. x = (db.wild \/ FALSE)
        BY <2>1, <3>1, Zenon
      <3>3. db.wild = FALSE
        BY <2>4 DEF Whole
      <3> QED BY <2>3, <3>2, <3>3
    <2> QED BY <2>2, <2>3, <2>4 DEF Tame
  <1>4. Beside(db, f) /\ (Whole(db) => Tame(db, f))
    BY <1>2, <1>3, BesideItself
  <1> QED BY <1>1, <1>4

\* add_filename_trans before 5.7.
LEMMA AddFilenameTransLegacyBeside ==
  ASSUME NEW db, Shaped(db), NEW s, NEW t, NEW c, NEW d, NEW name, NEW junk, NEW mem
  PROVE  /\ Beside(db, AddFilenameTransLegacy(db, s, t, c, d, name, junk, mem).db)
         /\ mem = "ok" => Tame(db, AddFilenameTransLegacy(db, s, t, c, d, name, junk, mem).db)
  <1>1. PICK f : f = AddFilenameTransLegacy(db, s, t, c, d, name, junk, mem).db
    OBVIOUS
  <1>2. \/ f = db \/ (f = [db EXCEPT !.wild = TRUE] /\ mem = "copy")
        \/ \E x, y : f = [db EXCEPT !.ftTtypes = x, !.ftrans = y]
    BY <1>1 DEF AddFilenameTransLegacy, Result
  <1>3. ASSUME NEW x, NEW y, f = [db EXCEPT !.ftTtypes = x, !.ftrans = y]
        PROVE  Tame(db, f)
    BY <1>3 DEF Shaped, Beside, Tame, Fields
  <1>4. ASSUME f = [db EXCEPT !.wild = TRUE]
        PROVE  Beside(db, f)
    BY <1>4 DEF Shaped, Beside, Fields
  <1>5. Beside(db, f) /\ (mem = "ok" => Tame(db, f))
    BY <1>2, <1>3, <1>4, BesideItself DEF Tame
  <1> QED BY <1>1, <1>5

\* add_filename_trans from 5.7 on.
LEMMA AddFilenameTransBeside ==
  ASSUME NEW db, Shaped(db), NEW s, NEW t, NEW c, NEW d, NEW name, NEW mem
  PROVE  /\ Beside(db, AddFilenameTrans(db, s, t, c, d, name, mem).db)
         /\ mem = "ok" => Tame(db, AddFilenameTrans(db, s, t, c, d, name, mem).db)
  <1>1. PICK f : f = AddFilenameTrans(db, s, t, c, d, name, mem).db
    OBVIOUS
  <1>2. \/ f = db \/ \E x : f = [db EXCEPT !.ftrans = x]
        \/ f = [db EXCEPT !.wild = TRUE] /\ mem # "ok"
        \/ \E y : f = [db EXCEPT !.ftCount = y]
        \/ \E x, y : f = [[db EXCEPT !.ftCount = y] EXCEPT !.ftrans = x]
    BY <1>1 DEF AddFilenameTrans, Result
  <1>3. ASSUME NEW x, f = [db EXCEPT !.ftrans = x]
        PROVE  Tame(db, f)
    BY <1>3 DEF Shaped, Beside, Tame, Fields
  <1>4. ASSUME NEW y, f = [db EXCEPT !.ftCount = y]
        PROVE  Tame(db, f)
    BY <1>4 DEF Shaped, Beside, Tame, Fields
  <1>5. ASSUME NEW x, NEW y, f = [[db EXCEPT !.ftCount = y] EXCEPT !.ftrans = x]
        PROVE  Tame(db, f)
    BY <1>5 DEF Shaped, Beside, Tame, Fields
  <1>6. ASSUME f = [db EXCEPT !.wild = TRUE]
        PROVE  Beside(db, f)
    BY <1>6 DEF Shaped, Beside, Fields
  <1>7. Beside(db, f) /\ (mem = "ok" => Tame(db, f))
    BY <1>2, <1>3, <1>4, <1>5, <1>6, BesideItself DEF Tame
  <1> QED BY <1>1, <1>7

\* add_type: the name gets its slot together with its place in the roles.
LEMMA AddTypeShaped ==
  ASSUME NEW db, Shaped(db), NEW name, NEW attr, NEW mem
  PROVE  Shaped(AddType(db, name, attr, mem).db)
  <1>1. PICK f : f = AddType(db, name, attr, mem).db
    OBVIOUS
  <1>2. PICK n : n = InsertType(db, name, attr)
    OBVIOUS
  <1>3. PICK g : g = Grow(n, db)
    OBVIOUS
  <1>4. \/ f = db \/ f = [db EXCEPT !.torn = TRUE] \/ f = n
        \/ f = [g EXCEPT !.freed = TRUE]
        \/ f = FillTables(g, name, db, mem)
    BY <1>1, <1>2, <1>3 DEF AddType, Result
  <1>5. PICK x, y, z : n = [db EXCEPT !.torn = TRUE, !.types = x, !.attributes = y, !.bounds = z]
    BY <1>2 DEF InsertType
  <1>6. Shaped(n)
    <2>1. Beside(db, n)
      BY <1>5 DEF Shaped, Beside, Fields
    <2> QED BY <2>1, ShapedBeside
  <1>7. Shaped(g)
    <2>1. PICK w : g = [n EXCEPT !.wild = w]
      BY <1>3 DEF Grow
    <2>2. Beside(n, g)
      BY <1>6, <2>1 DEF Shaped, Beside, Fields
    <2> QED BY <1>6, <2>2, ShapedBeside
  <1>8. ASSUME f = [db EXCEPT !.torn = TRUE]
        PROVE  Shaped(f)
    <2>1. Beside(db, f)
      BY <1>8 DEF Shaped, Beside, Fields
    <2> QED BY <2>1, ShapedBeside
  <1>9. ASSUME f = [g EXCEPT !.freed = TRUE]
        PROVE  Shaped(f)
    <2>1. Beside(g, f)
      BY <1>7, <1>9 DEF Shaped, Beside, Fields
    <2> QED BY <1>7, <2>1, ShapedBeside
  <1>10. ASSUME f = FillTables(g, name, db, mem)
         PROVE  Shaped(f)
    <2>1. DOMAIN f = Fields
      BY <1>7, <1>10 DEF FillTables, Shaped
    <2>2. f.slots = g.slots \cup {name}
      BY <1>7, <1>10 DEF FillTables, Shaped, Fields
    <2>3. PICK self : /\ self \subseteq {name}
                      /\ f.roleTypes = [r \in Roles |-> g.roleTypes[r] \cup self]
      BY <1>7, <1>10 DEF FillTables, Shaped, Fields
    <2>4. \A r \in Roles : g.roleTypes[r] \subseteq g.slots
      BY <1>7 DEF Shaped
    <2>5. \A r \in Roles : f.roleTypes[r] \subseteq f.slots
      BY <2>2, <2>3, <2>4
    <2> QED BY <2>1, <2>5 DEF Shaped
  <1>11. Shaped(f)
    BY <1>4, <1>6, <1>8, <1>9, <1>10
  <1> QED BY <1>1, <1>11

\* add_type with the memory it needs: the new type has its slot.
LEMMA AddTypeWhole ==
  ASSUME NEW db, Shaped(db), Whole(db), NEW name, NEW attr
  PROVE  Whole(AddType(db, name, attr, "ok").db)
  <1>1. PICK n : n = InsertType(db, name, attr)
    OBVIOUS
  <1>2. PICK g : g = Grow(n, db)
    OBVIOUS
  <1>3. PICK f : f = FillTables(g, name, db, "ok")
    OBVIOUS
  <1>4. PICK y, z : n = [db EXCEPT !.torn = TRUE, !.types = db.types \cup {name}, !.attributes = y, !.bounds = z]
    BY <1>1 DEF InsertType
  <1>5. /\ DOMAIN n = Fields /\ n.types = db.types \cup {name} /\ n.slots = db.slots
        /\ n.freed = db.freed /\ n.wild = db.wild
    BY <1>4 DEF Shaped, Fields
  <1>6. PICK w : g = [n EXCEPT !.wild = w] /\ w = (n.wild \/ db.torn \/ db.freed)
    BY <1>2, Zenon DEF Grow
  <1>7. ~w
    BY <1>5, <1>6 DEF Whole
  <1>8. /\ DOMAIN g = Fields /\ g.types = db.types \cup {name} /\ g.slots = db.slots
        /\ g.freed = db.freed /\ ~g.wild
    BY <1>5, <1>6, <1>7 DEF Fields
  <1>9. PICK u, v, b : f = [g EXCEPT !.torn = b, !.slots = g.slots \cup {name}, !.attrMap = u, !.roleTypes = v]
                       /\ b = db.torn
    BY <1>3 DEF FillTables
  <1>10. /\ f.types = db.types \cup {name} /\ f.slots = db.slots \cup {name}
         /\ f.torn = b /\ f.freed = db.freed /\ f.wild = g.wild
    BY <1>8, <1>9 DEF Fields
  <1>11. Whole(f)
    BY <1>8, <1>9, <1>10 DEF Whole
  <1>12. PICK e : e = AddType(db, name, attr, "ok").db
    OBVIOUS
  <1>13. e = db \/ e = f
    BY <1>1, <1>2, <1>3, <1>12 DEF AddType, Result
  <1> QED BY <1>11, <1>12, <1>13

\* ksu_type.
LEMMA KsuTypeShaped ==
  ASSUME NEW db, Shaped(db), NEW name, NEW attr, NEW mem
  PROVE  /\ Shaped(KsuType(db, name, attr, mem).db)
         /\ Whole(db) /\ mem = "ok" => Whole(KsuType(db, name, attr, mem).db)
  <1>1. PICK e : e = AddType(db, name, FALSE, mem).db
    OBVIOUS
  <1>2. Shaped(e) /\ (Whole(db) /\ mem = "ok" => Whole(e))
    BY <1>1, AddTypeShaped, AddTypeWhole
  <1>3. PICK f : f = AddTypeattribute(e, name, attr, mem).db
    OBVIOUS
  <1>4. Beside(e, f) /\ (Whole(e) => Tame(e, f))
    BY <1>2, <1>3, AddTypeattributeBeside
  <1>5. Shaped(f) /\ (Whole(e) => Whole(f))
    BY <1>2, <1>4, ShapedBeside, WholeTame
  <1>6. PICK g : g = KsuType(db, name, attr, mem).db
    OBVIOUS
  <1>7. g = e \/ g = f
    BY <1>1, <1>3, <1>6 DEF KsuType
  <1>8. Shaped(g) /\ (Whole(db) /\ mem = "ok" => Whole(g))
    BY <1>2, <1>5, <1>7
  <1> QED BY <1>6, <1>8

\* ksu_type_transition.
LEMMA KsuTypeTransitionBeside ==
  ASSUME NEW db, Shaped(db), NEW a, NEW old, NEW junk, NEW mem
  PROVE  /\ Beside(db, KsuTypeTransition(db, a, old, junk, mem).db)
         /\ mem = "ok" => Tame(db, KsuTypeTransition(db, a, old, junk, mem).db)
  <1>1. PICK f : f = KsuTypeTransition(db, a, old, junk, mem)
    OBVIOUS
  <1>2. \/ f = AddTypeRule(db, a[1], a[2], a[3], a[4], "transition", mem)
        \/ f = AddFilenameTransLegacy(db, a[1], a[2], a[3], a[4], a[5], junk, mem)
        \/ f = AddFilenameTrans(db, a[1], a[2], a[3], a[4], a[5], mem)
    BY <1>1 DEF KsuTypeTransition
  <1>3. CASE f = AddTypeRule(db, a[1], a[2], a[3], a[4], "transition", mem)
    <2>1. Tame(db, AddTypeRule(db, a[1], a[2], a[3], a[4], "transition", mem).db)
      BY AddTypeRuleTame
    <2> QED BY <1>1, <1>3, <2>1 DEF Tame
  <1>4. CASE f = AddFilenameTransLegacy(db, a[1], a[2], a[3], a[4], a[5], junk, mem)
    BY <1>1, <1>4, AddFilenameTransLegacyBeside
  <1>5. CASE f = AddFilenameTrans(db, a[1], a[2], a[3], a[4], a[5], mem)
    BY <1>1, <1>5, AddFilenameTransBeside
  <1> QED BY <1>2, <1>3, <1>4, <1>5

\* apply_one_sepolicy_cmd: a policy stays whole, but for a failure in one of the
\* commands that add a type or a named transition.
LEMMA CommandShaped ==
  ASSUME NEW db, Shaped(db), NEW c, NEW old, NEW junk, NEW mem
  PROVE  /\ Shaped(ApplyOneSepolicyCmd(db, c, old, junk, mem).db)
         /\ Whole(db) /\ (mem = "ok" \/ c.cmd \notin Culprits) =>
              Whole(ApplyOneSepolicyCmd(db, c, old, junk, mem).db)
  <1>1. PICK a : a = c.args
    OBVIOUS
  <1>2. PICK f : f = ApplyOneSepolicyCmd(db, c, old, junk, mem)
    OBVIOUS
  <1>3. \/ f.db = db
        \/ \E x, y : f = AddRule(db, a[1], a[2], a[3], a[4], x, y, mem)
        \/ f = AddXpermRule(db, a[1], a[2], a[3], a[5], c.sub, mem)
        \/ \E x : f = SetTypeState(db, a[1], x, mem)
        \/ f = KsuType(db, a[1], a[2], mem) /\ c.cmd = "type"
        \/ f = AddTypeattribute(db, a[1], a[2], mem)
        \/ f = AddType(db, a[1], TRUE, mem) /\ c.cmd = "attr"
        \/ f = KsuTypeTransition(db, a, old, junk, mem) /\ c.cmd = "type_transition"
        \/ f = AddTypeRule(db, a[1], a[2], a[3], a[4], c.sub, mem)
    BY <1>1, <1>2 DEF ApplyOneSepolicyCmd, Result
  <1> DEFINE Fine == mem = "ok" \/ c.cmd \notin Culprits
  <1>4. ASSUME Beside(db, f.db), Whole(db) /\ Fine => Tame(db, f.db)
        PROVE  Shaped(f.db) /\ (Whole(db) /\ Fine => Whole(f.db))
    BY <1>4, ShapedBeside, WholeTame
  <1>5. ASSUME Tame(db, f.db)
        PROVE  Shaped(f.db) /\ (Whole(db) => Whole(f.db))
    BY <1>5, ShapedBeside, WholeTame DEF Tame
  <1>6. ASSUME NEW x, NEW y, f = AddRule(db, a[1], a[2], a[3], a[4], x, y, mem)
        PROVE  Tame(db, f.db)
    BY <1>6, AddRuleTame
  <1>7. ASSUME f = AddXpermRule(db, a[1], a[2], a[3], a[5], c.sub, mem)
        PROVE  Tame(db, f.db)
    BY <1>7, AddXpermRuleTame
  <1>8. ASSUME NEW x, f = SetTypeState(db, a[1], x, mem)
        PROVE  Tame(db, f.db)
    BY <1>8, SetTypeStateTame
  <1>9. ASSUME f = KsuType(db, a[1], a[2], mem), c.cmd = "type"
        PROVE  Shaped(f.db) /\ (Whole(db) /\ Fine => Whole(f.db))
    BY <1>9, KsuTypeShaped DEF Culprits
  <1>10. ASSUME f = AddTypeattribute(db, a[1], a[2], mem)
         PROVE  Beside(db, f.db) /\ (Whole(db) => Tame(db, f.db))
    BY <1>10, AddTypeattributeBeside
  <1>11. ASSUME f = AddType(db, a[1], TRUE, mem), c.cmd = "attr"
         PROVE  Shaped(f.db) /\ (Whole(db) /\ Fine => Whole(f.db))
    BY <1>11, AddTypeShaped, AddTypeWhole DEF Culprits
  <1>12. ASSUME f = KsuTypeTransition(db, a, old, junk, mem), c.cmd = "type_transition"
         PROVE  Beside(db, f.db) /\ (Fine => Tame(db, f.db))
    BY <1>12, KsuTypeTransitionBeside DEF Culprits
  <1>13. ASSUME f = AddTypeRule(db, a[1], a[2], a[3], a[4], c.sub, mem)
         PROVE  Tame(db, f.db)
    BY <1>13, AddTypeRuleTame
  <1>14. Shaped(f.db) /\ (Whole(db) /\ Fine => Whole(f.db))
    <2> HIDE DEF Fine
    <2> QED BY <1>3, <1>4, <1>5, <1>6, <1>7, <1>8, <1>9, <1>10, <1>11, <1>12, <1>13
  <1> QED BY <1>2, <1>14

\* Both copies keep the types and their slots.
LEMMA DupShaped ==
  ASSUME NEW db, Shaped(db)
  PROVE  Shaped(Dup(db).db) /\ (Whole(db) => Whole(Dup(db).db))
  <1>1. PICK f : f = Dup(db).db
    OBVIOUS
  <1>2. PICK m : Read(db) = [db EXCEPT !.attrMap = m]
    BY DEF Read
  <1>3. \/ f = [db EXCEPT !.attrMap = m]
        \/ \E n : f = [[db EXCEPT !.attrMap = m] EXCEPT !.len = n]
    BY <1>1, <1>2 DEF Dup, DupPolicydb, DupSepolicy, Result
  <1>4. ASSUME f = [db EXCEPT !.attrMap = m]
        PROVE  Tame(db, f)
    BY <1>4 DEF Shaped, Beside, Tame, Fields
  <1>5. ASSUME NEW n, f = [[db EXCEPT !.attrMap = m] EXCEPT !.len = n]
        PROVE  Tame(db, f)
    BY <1>5 DEF Shaped, Beside, Tame, Fields
  <1>6. Shaped(f) /\ (Whole(db) => Whole(f))
    BY <1>3, <1>4, <1>5, ShapedBeside, WholeTame DEF Tame
  <1> QED BY <1>1, <1>6

-----------------------------------------------------------------------------
(* The loop over the commands: induction with sets of numbers *)

\* The relation of the library for < on the natural numbers.
LEMMA LessRelation == \A x, y \in Nat : x < y => <<x, y>> \in OpToRel(<, Nat)
  BY DEF OpToRel

\* A set with 0 and with the successors of its numbers has all of them.
LEMMA NatSet ==
  ASSUME NEW T, 0 \in T, \A n \in Nat : n \in T => n + 1 \in T
  PROVE  Nat \subseteq T
  <1>1. SUFFICES ASSUME Nat \ T # {} PROVE FALSE
    OBVIOUS
  <1>2. PICK x \in Nat \ T : \A y \in Nat \ T : ~(<<y, x>> \in OpToRel(<, Nat))
    <2>1. PICK R : R = OpToRel(<, Nat)
      OBVIOUS
    <2>2. IsWellFoundedOn(R, Nat)
      BY <2>1, NatLessThanWellFounded
    <2>3. Nat \ T \subseteq Nat
      OBVIOUS
    <2>4. \E x \in Nat \ T : \A y \in Nat \ T : ~(<<y, x>> \in R)
      BY <1>1, <2>2, <2>3, WFMin
    <2> QED BY <2>1, <2>4
  <1>3. x - 1 \in Nat /\ x - 1 < x /\ (x - 1) + 1 = x
    OBVIOUS
  <1>4. x - 1 \notin T
    BY <1>3
  <1> QED BY <1>2, <1>3, <1>4, LessRelation

\* Some places have a last one.
LEMMA LastPlace ==
  ASSUME NEW n \in Nat, NEW s \in SUBSET (1 .. n), s # {}
  PROVE  Max(s) \in s /\ \A y \in s : Max(s) >= y
  <1> DEFINE Has(w) == \E x \in w : \A y \in w : x >= y
  <1> DEFINE T == {k \in Nat : \A w \in SUBSET (1 .. k) : w # {} => Has(w)}
  <1>1. 0 \in T
    <2>1. \A w \in SUBSET (1 .. 0) : w = {}
      OBVIOUS
    <2> QED BY <2>1
  <1>2. ASSUME NEW k \in Nat, k \in T
        PROVE  k + 1 \in T
    <2>1. SUFFICES ASSUME NEW w \in SUBSET (1 .. k + 1), w # {}
                   PROVE  Has(w)
      OBVIOUS
    <2>2. CASE k + 1 \in w
      BY <2>2
    <2>3. CASE k + 1 \notin w
      <3>1. w \in SUBSET (1 .. k)
        BY <2>3
      <3> QED BY <1>2, <2>1, <3>1
    <2> QED BY <2>2, <2>3
  <1>3. Nat \subseteq T
    <2> HIDE DEF T
    <2> QED BY <1>1, <1>2, NatSet
  <1>4. Has(s)
    BY <1>3
  <1> QED BY <1>4 DEF Max

\* Without its last place a set of places lies lower.
LEMMA WithoutLast ==
  ASSUME NEW k \in Nat, NEW s \in SUBSET (1 .. k + 1), s # {}
  PROVE  s \ {Max(s)} \in SUBSET (1 .. k)
  <1>1. PICK m : m = Max(s)
    OBVIOUS
  <1>2. m \in s /\ \A y \in s : m >= y
    <2>1. PICK n \in Nat : n = k + 1
      OBVIOUS
    <2>2. s \in SUBSET (1 .. n)
      BY <2>1
    <2> QED BY <1>1, <2>2, LastPlace
  <1>3. s \ {m} \in SUBSET (1 .. k)
    BY <1>2
  <1> QED BY <1>1, <1>3

\* A run is defined over any number of commands.
LEMMA RunExists ==
  ASSUME NEW db, NEW batch, NEW junk, NEW fault
  PROVE  \A n \in Nat : \E g : IsRun(g, SUBSET (1 .. n), db, batch, junk, fault)
  <1> DEFINE T == {k \in Nat : \E g : IsRun(g, SUBSET (1 .. k), db, batch, junk, fault)}
  <1>1. 0 \in T
    <2>1. PICK z : z = [db |-> db, done |-> <<>>, failed |-> {}, index |-> 1, malformed |-> FALSE]
      OBVIOUS
    <2>2. PICK g : g = [s \in SUBSET (1 .. 0) |-> z]
      OBVIOUS
    <2>3. \A s \in SUBSET (1 .. 0) : s = {}
      OBVIOUS
    <2>4. \A s \in SUBSET (1 .. 0) : After(g, s, db, batch, junk, fault) = z
      BY <2>1, <2>3 DEF After
    <2>5. IsRun(g, SUBSET (1 .. 0), db, batch, junk, fault)
      BY <2>2, <2>4 DEF IsRun
    <2> QED BY <2>5
  <1>2. ASSUME NEW k \in Nat, k \in T
        PROVE  k + 1 \in T
    <2>1. PICK g : IsRun(g, SUBSET (1 .. k), db, batch, junk, fault)
      BY <1>2
    <2>2. PICK h : h = [s \in SUBSET (1 .. k + 1) |-> After(g, s, db, batch, junk, fault)]
      OBVIOUS
    <2>3. ASSUME NEW s \in SUBSET (1 .. k)
          PROVE  h[s] = g[s]
      <3>1. s \in SUBSET (1 .. k + 1)
        OBVIOUS
      <3>2. h[s] = After(g, s, db, batch, junk, fault)
        BY <2>2, <3>1
      <3>3. g[s] = After(g, s, db, batch, junk, fault)
        BY <2>1 DEF IsRun
      <3> QED BY <3>2, <3>3
    <2>4. ASSUME NEW s \in SUBSET (1 .. k + 1)
          PROVE  After(g, s, db, batch, junk, fault) = After(h, s, db, batch, junk, fault)
      <3>1. CASE s = {}
        BY <3>1 DEF After
      <3>2. CASE s # {}
        <4>1. s \ {Max(s)} \in SUBSET (1 .. k)
          BY <3>2, WithoutLast
        <4>2. h[s \ {Max(s)}] = g[s \ {Max(s)}]
          BY <2>3, <4>1
        <4> QED BY <3>2, <4>2 DEF After
      <3> QED BY <3>1, <3>2
    <2>5. IsRun(h, SUBSET (1 .. k + 1), db, batch, junk, fault)
      BY <2>2, <2>4 DEF IsRun
    <2> QED BY <2>5
  <1>3. Nat \subseteq T
    <2> HIDE DEF T
    <2> QED BY <1>1, <1>2, NatSet
  <1> QED BY <1>3

\* One command more.
LEMMA RunOneRunning ==
  ASSUME NEW db, NEW acc, Running(db, acc), NEW c, NEW junk, NEW fault
  PROVE  Running(db, RunOne(acc, c, junk, fault))
  <1>1. PICK hit : hit = (acc.index = fault.at)
    OBVIOUS
  <1>2. PICK mem : mem = IF acc.index = fault.at THEN fault.mem ELSE "ok"
    OBVIOUS
  <1>3. PICK r : r = ApplyOneSepolicyCmd(acc.db, c, legacy, junk, mem)
    OBVIOUS
  <1>4. /\ DOMAIN acc = {"db", "done", "failed", "index", "malformed"} /\ Shaped(acc.db)
        /\ Whole(db) => Whole(acc.db) \/ Blamed(acc.failed)
    BY DEF Running
  <1>5. /\ Shaped(r.db)
        /\ Whole(acc.db) /\ (mem = "ok" \/ c.cmd \notin Culprits) => Whole(r.db)
    BY <1>3, <1>4, CommandShaped
  <1>6. PICK new : new = IF acc.index = fault.at THEN acc.failed \cup {<<c.cmd, fault.mem>>}
                         ELSE acc.failed
    OBVIOUS
  <1>7. PICK f : f = RunOne(acc, c, junk, fault)
    OBVIOUS
  <1>8. \/ f = [acc EXCEPT !.malformed = TRUE]
        \/ \E x, y : f = [acc EXCEPT !.db = r.db, !.index = x, !.failed = new, !.done = y]
    BY <1>2, <1>3, <1>6, <1>7 DEF RunOne
  <1>9. CASE f = [acc EXCEPT !.malformed = TRUE]
    <2>1. /\ DOMAIN f = {"db", "done", "failed", "index", "malformed"}
          /\ f.db = acc.db /\ f.failed = acc.failed
      BY <1>4, <1>9
    <2> QED BY <1>4, <1>7, <2>1 DEF Running
  <1>10. ASSUME NEW x, NEW y, f = [acc EXCEPT !.db = r.db, !.index = x, !.failed = new, !.done = y]
         PROVE  Running(db, f)
    <2>1. /\ DOMAIN f = {"db", "done", "failed", "index", "malformed"}
          /\ f.db = r.db /\ f.failed = new
      BY <1>4, <1>10
    <2>2. acc.failed \subseteq new
      BY <1>6
    <2>3. Blamed(acc.failed) => Blamed(new)
      BY <2>2 DEF Blamed
    <2>4. ASSUME Whole(acc.db)
          PROVE  Whole(r.db) \/ Blamed(new)
      <3>1. CASE acc.index = fault.at /\ c.cmd \in Culprits
        <4>1. PICK p : p = <<c.cmd, fault.mem>>
          OBVIOUS
        <4>2. p[1] = c.cmd
          BY <4>1
        <4>3. p \in new
          BY <1>6, <3>1, <4>1
        <4>4. p[1] \in Culprits
          BY <3>1, <4>2
        <4> QED BY <4>3, <4>4, Zenon DEF Blamed
      <3>2. CASE ~(acc.index = fault.at /\ c.cmd \in Culprits)
        BY <1>2, <1>5, <2>4, <3>2
      <3> QED BY <3>1, <3>2
    <2> QED BY <1>4, <1>5, <2>1, <2>3, <2>4 DEF Running
  <1>11. Running(db, f)
    BY <1>7, <1>8, <1>9, <1>10
  <1> QED BY <1>7, <1>11

\* The loop of handle_sepolicy.
LEMMA RunBatchRuns ==
  ASSUME NEW db, Shaped(db), NEW batch, batch \in Seq(Range(batch)), NEW junk, NEW fault
  PROVE  Running(db, RunBatch(db, batch, junk, fault))
  <1>1. PICK n \in Nat : DOMAIN batch = 1 .. n
    <2>1. \A S : batch \in Seq(S) => Len(batch) \in Nat /\ DOMAIN batch = 1 .. Len(batch)
      OBVIOUS
    <2> QED BY <2>1
  <1>2. PICK g : g = CHOOSE h : IsRun(h, SUBSET (1 .. n), db, batch, junk, fault)
    OBVIOUS
  <1>3. RunBatch(db, batch, junk, fault) = g[1 .. n]
    <2>1. RunBatch(db, batch, junk, fault) =
            (CHOOSE h : h = [s \in SUBSET DOMAIN batch |->
                               IF s = {} THEN [db |-> db, done |-> <<>>, failed |-> {}, index |-> 1, malformed |-> FALSE]
                               ELSE RunOne(h[s \ {Max(s)}], batch[Max(s)], junk, fault)])
            [DOMAIN batch]
      BY DEF RunBatch, FoldLeft, MapThenFoldSet
    <2>2. RunBatch(db, batch, junk, fault) =
            (CHOOSE h : IsRun(h, SUBSET DOMAIN batch, db, batch, junk, fault))[DOMAIN batch]
      BY <2>1 DEF IsRun, After
    <2> QED BY <1>1, <1>2, <2>2
  <1>4. IsRun(g, SUBSET (1 .. n), db, batch, junk, fault)
    <2>1. \E h : IsRun(h, SUBSET (1 .. n), db, batch, junk, fault)
      BY RunExists
    <2> QED BY <1>2, <2>1
  <1>5. \A s \in SUBSET (1 .. n) : g[s] = After(g, s, db, batch, junk, fault)
    BY <1>4 DEF IsRun
  <1> DEFINE T == {k \in Nat : k <= n => Running(db, g[1 .. k])}
  <1>6. 0 \in T
    <2>1. 1 .. 0 = {} /\ {} \in SUBSET (1 .. n)
      OBVIOUS
    <2>2. PICK z : z = [db |-> db, done |-> <<>>, failed |-> {}, index |-> 1, malformed |-> FALSE]
      OBVIOUS
    <2>3. g[{}] = z
      BY <1>5, <2>1, <2>2 DEF After
    <2>4. DOMAIN z = {"db", "done", "failed", "index", "malformed"} /\ z.db = db
      BY <2>2
    <2>5. Running(db, z)
      BY <2>4 DEF Running
    <2> QED BY <2>1, <2>3, <2>5
  <1>7. ASSUME NEW k \in Nat, k \in T
        PROVE  k + 1 \in T
    <2>1. SUFFICES ASSUME k + 1 <= n
                   PROVE  Running(db, g[1 .. k + 1])
      OBVIOUS
    <2>2. PICK s : s = 1 .. k + 1
      OBVIOUS
    <2>3. s \in SUBSET (1 .. n) /\ s \in SUBSET (1 .. k + 1) /\ s # {} /\ k + 1 \in s
      <3>1. k + 1 \in Nat /\ 1 <= k + 1
        OBVIOUS
      <3>2. k + 1 \in s
        BY <2>2, <3>1
      <3>3. \A i \in 1 .. k + 1 : i \in 1 .. n
        BY <2>1
      <3> QED BY <2>2, <3>2, <3>3
    <2>4. PICK m : m = Max(s)
      OBVIOUS
    <2>5. m \in s /\ \A y \in s : m >= y
      BY <2>3, <2>4, LastPlace
    <2>6. m = k + 1
      BY <2>2, <2>3, <2>5
    <2>7. s \ {m} = 1 .. k
      BY <2>2, <2>6
    <2>8. PICK acc : acc = g[1 .. k]
      OBVIOUS
    <2>9. Running(db, acc)
      BY <1>7, <2>1, <2>8
    <2>10. g[s] = RunOne(acc, batch[m], junk, fault)
      BY <1>5, <2>3, <2>4, <2>7, <2>8 DEF After
    <2>11. Running(db, g[s])
      BY <2>9, <2>10, RunOneRunning
    <2> QED BY <2>2, <2>11
  <1>8. Nat \subseteq T
    <2> HIDE DEF T
    <2> QED BY <1>6, <1>7, NatSet
  <1>9. Running(db, g[1 .. n])
    BY <1>8
  <1> QED BY <1>3, <1>9

\* The commands of apply_kernelsu_rules_fn form a sequence.
LEMMA RulesAreASequence == KernelsuRules \in Seq(Range(KernelsuRules))
  <1>1. PICK rules : rules = KernelsuRules
    OBVIOUS
  <1>2. PICK a, b, c, e, f, g : rules = <<a, b, c, e, f, g>>
    BY <1>1 DEF KernelsuRules
  <1>3. Range(rules) = {rules[i] : i \in DOMAIN rules}
    BY DEF Range
  <1>4. DOMAIN rules = 1 .. 6
    BY <1>2
  <1>5. \A i \in 1 .. 6 : rules[i] \in Range(rules)
    BY <1>3, <1>4
  <1>6. Len(rules) = 6 /\ rules = [i \in 1 .. 6 |-> rules[i]]
    BY <1>2
  <1> QED BY <1>1, <1>5, <1>6

\* A run on a copy of a whole policy leaves a whole one, or somebody to blame.
LEMMA RunOfCopy ==
  ASSUME Shaped(live), NEW batch, batch \in Seq(Range(batch)), NEW junk, NEW fault,
         NEW r, r = RunBatch(Dup(live).db, batch, junk, fault)
  PROVE  /\ Shaped(r.db)
         /\ Whole(live) => Whole(r.db) \/ Blamed(r.failed)
         /\ Whole(r.db) => ~Strays(r)
  <1>1. PICK d : d = Dup(live).db
    OBVIOUS
  <1>2. Shaped(d) /\ (Whole(live) => Whole(d))
    BY <1>1, DupShaped
  <1>3. Running(d, r)
    BY <1>1, <1>2, RunBatchRuns
  <1>4. Whole(r.db) => ~Strays(r)
    BY DEF Whole, Strays
  <1> QED BY <1>2, <1>3, <1>4 DEF Running

\* apply_kernelsu_rules: what was run on the copy is in force, or nothing is.
LEMMA RulesRun ==
  ASSUME Shaped(live), NEW backed, NEW copied, NEW fault, ApplyKernelsuRules(backed, copied, fault)
  PROVE  /\ Shaped(live')
         /\ Whole(live) => Whole(live') \/ Blamed(failed')
         /\ Whole(live) /\ undefined' => Blamed(failed')
  <1>1. PICK r : r = RunBatch(Dup(live).db, KernelsuRules, "none", fault)
    OBVIOUS
  <1>2. /\ Shaped(r.db)
        /\ Whole(live) => Whole(r.db) \/ Blamed(r.failed)
        /\ Whole(r.db) => ~Strays(r)
    BY <1>1, RulesAreASequence, RunOfCopy
  <1>3. CASE Dup(live).ok /\ copied
    <2>1. failed' = r.failed /\ (undefined' => Strays(r))
      <3>1. PICK c, d : c = Dup(live).ok /\ d = Strays(r)
        OBVIOUS
      <3>2. undefined' = (c /\ copied /\ d)
        BY <1>1, <3>1, Zenon DEF ApplyKernelsuRules
      <3>3. undefined' => Strays(r)
        BY <3>1, <3>2
      <3>4. failed' = r.failed
        BY <1>1, <1>3 DEF ApplyKernelsuRules
      <3> QED BY <3>3, <3>4
    <2>2. live' = r.db \/ (live' = live /\ Strays(r))
      BY <1>1, <1>3 DEF ApplyKernelsuRules, PublishRun
    <2> QED BY <1>2, <2>1, <2>2
  <1>4. CASE ~(Dup(live).ok /\ copied)
    <2>1. live' = live /\ ~undefined'
      BY <1>4 DEF ApplyKernelsuRules
    <2> QED BY <2>1
  <1> QED BY <1>3, <1>4

\* handle_sepolicy: the same, and a policy that is not whole was so before.
LEMMA BatchRun ==
  ASSUME Shaped(live), NEW batch \in Batches, NEW junk, NEW fault, HandleSepolicy(batch, junk, fault)
  PROVE  /\ Shaped(live')
         /\ failed \subseteq failed'
         /\ Whole(live) => Whole(live') \/ Blamed(failed')
         /\ Whole(live) /\ undefined' => Blamed(failed')
  <1>1. PICK r : r = RunBatch(Dup(live).db, batch, junk, fault)
    OBVIOUS
  <1>2. /\ Shaped(r.db)
        /\ Whole(live) => Whole(r.db) \/ Blamed(r.failed)
        /\ Whole(r.db) => ~Strays(r)
    BY <1>1, SepolicyAssumption, RunOfCopy
  <1>3. live' = r.db \/ live' = live
    BY <1>1 DEF HandleSepolicy, PublishRun
  <1>4. failed' = failed \/ failed' = failed \cup r.failed
    BY <1>1 DEF HandleSepolicy
  <1>5. ASSUME Whole(live)
        PROVE  (undefined' \/ ~Whole(live') => Blamed(failed'))
    <2>1. ~live.torn /\ ~live.freed
      BY <1>5 DEF Whole
    <2>2. CASE Dup(live).ok
      <3>1. (undefined' => Strays(r)) /\ failed' = failed \cup r.failed
        <4>1. PICK b, c, d, e : b = live.torn /\ e = live.freed /\ c = Dup(live).ok /\ d = Strays(r)
          OBVIOUS
        <4>2. undefined' = (b \/ e \/ (c /\ d))
          BY <1>1, <4>1, Zenon DEF HandleSepolicy
        <4>3. undefined' => Strays(r)
          BY <2>1, <4>1, <4>2
        <4>4. failed' = failed \cup r.failed
          BY <1>1, <2>1, <2>2 DEF HandleSepolicy
        <4> QED BY <4>3, <4>4
      <3>2. live' = r.db \/ live' = live
        BY <1>3
      <3>3. Blamed(r.failed) => Blamed(failed')
        BY <3>1 DEF Blamed
      <3> QED BY <1>2, <1>5, <3>1, <3>2, <3>3
    <2>3. CASE ~Dup(live).ok
      <3>1. ~undefined' /\ live' = live
        BY <2>1, <2>3 DEF HandleSepolicy
      <3> QED BY <1>5, <3>1
    <2> QED BY <2>2, <2>3
  <1> QED BY <1>2, <1>3, <1>4, <1>5

\* A decision reads the policy's own tables if it is whole.
LEMMA DecisionReads ==
  ASSUME Whole(live), NEW s, NEW t, NEW class, Decide(s, t, class)
  PROVE  ~undefined'
  <1>1. {s.type, t.type} \subseteq live.types
    BY DEF Decide, StringToContext
  <1>2. {s.type, t.type} \subseteq live.slots /\ ~live.freed
    BY <1>1 DEF Whole
  <1> QED BY <1>2 DEF Decide

\* A step leaves a whole policy or somebody to blame.
LEMMA StrayStep ==
  ASSUME StrayInv, [Next]_vars
  PROVE  StrayInv'
  <1>1. CASE UNCHANGED <<live, failed, booted, undefined>>
    BY <1>1 DEF StrayInv, NoStrayAccess, Shaped, Whole, Blamed
  <1>2. ASSUME NEW F, failed' = F, Shaped(live'), Whole(live') \/ Blamed(F),
               undefined' => Blamed(F), booted'
        PROVE  StrayInv'
    <2>1. NoStrayAccess'
      BY <1>2 DEF NoStrayAccess, Blamed, Culprits
    <2> QED BY <1>2, <2>1 DEF StrayInv, Shaped, Whole, Blamed
  <1>3. ASSUME NEW backed, NEW copied, NEW fault, ApplyKernelsuRules(backed, copied, fault)
        PROVE  StrayInv'
    <2>1. ~booted /\ booted'
      BY <1>3 DEF ApplyKernelsuRules
    <2>2. Whole(live)
      BY <2>1, SepolicyAssumption DEF StrayInv, Whole
    <2>3. Shaped(live)
      BY DEF StrayInv
    <2>4. Shaped(live') /\ (Whole(live') \/ Blamed(failed')) /\ (undefined' => Blamed(failed'))
      BY <1>3, <2>2, <2>3, RulesRun
    <2> QED BY <1>2, <2>1, <2>4
  <1>4. ASSUME NEW batch \in Batches, NEW junk, NEW fault, HandleSepolicy(batch, junk, fault)
        PROVE  StrayInv'
    <2>1. booted'
      BY <1>4 DEF HandleSepolicy
    <2>2. Shaped(live) /\ (Whole(live) \/ Blamed(failed))
      BY DEF StrayInv
    <2>3. /\ Shaped(live') /\ failed \subseteq failed'
          /\ Whole(live) => (Whole(live') \/ Blamed(failed')) /\ (undefined' => Blamed(failed'))
      BY <1>4, <2>2, BatchRun
    <2>4. Blamed(failed) => Blamed(failed')
      BY <2>3 DEF Blamed
    <2> QED BY <1>2, <2>1, <2>2, <2>3, <2>4
  <1>5. ASSUME NEW a \in Accesses, Decide(a[1], a[2], a[3])
        PROVE  StrayInv'
    <2>1. UNCHANGED <<live, failed, booted>>
      BY <1>5 DEF Decide
    <2>2. undefined' => Blamed(failed)
      BY <1>5, DecisionReads DEF StrayInv
    <2>3. NoStrayAccess'
      BY <2>1, <2>2 DEF NoStrayAccess, Blamed, Culprits
    <2> QED BY <2>1, <2>3 DEF StrayInv, Shaped, Whole, Blamed
  <1>6. CASE \/ \E a \in Accesses : HiddenWriteContext(a[1])
             \/ \E a \in Accesses : HiddenWriteAccess(a[1], a[2], a[3])
             \/ UNCHANGED vars
    <2>1. UNCHANGED <<live, failed, booted, undefined>>
      BY <1>6 DEF HiddenWriteContext, HiddenWriteAccess, vars
    <2> QED BY <1>1, <2>1
  <1> QED BY <1>3, <1>4, <1>5, <1>6 DEF Next, Step

\* At first the policy is what init loaded.
LEMMA StrayInit == Init => StrayInv
  <1>1. SUFFICES ASSUME Init
                 PROVE  StrayInv
    OBVIOUS
  <1>2. live \in StockPolicies /\ ~undefined
    BY <1>1 DEF Init
  <1>3. DOMAIN live = Fields /\ live.types \subseteq live.slots /\ ~live.torn /\ ~live.freed /\ ~live.wild
    BY <1>2, SepolicyAssumption
  <1>4. \A r \in Roles : live.roleTypes[r] \subseteq live.types
    BY <1>2, SepolicyAssumption
  <1> QED BY <1>2, <1>3, <1>4 DEF StrayInv, Shaped, Whole, NoStrayAccess

\* Without a failing allocation in add_type or add_filename_trans no sequence of
\* batches of any commands, and no other failure, makes the code use memory that
\* is not the policy's: neither in a command, a copy or the dropping of one, nor
\* in a decision.
THEOREM OnlyFailedTypesStray ==
  Spec => []NoStrayAccess
  <1>1. StrayInv => NoStrayAccess
    BY DEF StrayInv
  <1> QED BY StrayInit, StrayStep, <1>1, PTL DEF Spec

\* A process context is valid only for a type that its role allows.
LEMMA ShapedIsSafe ==
  ASSUME Shaped(live)
  PROVE  NoHalfAddedDomain
  BY DEF Shaped, NoHalfAddedDomain, StringToContext, PolicydbContextIsvalid

\* When add_type fails halfway, the name that it leaves in the symbol table is
\* allowed for no role, whatever batches follow: no process can have a context
\* whose type has no slot in the tables that a decision reads.
THEOREM NoProcessOutsideTheTables ==
  Spec => []NoHalfAddedDomain
  <1>1. StrayInv => NoHalfAddedDomain
    BY ShapedIsSafe DEF StrayInv
  <1> QED BY StrayInit, StrayStep, <1>1, PTL DEF Spec
=============================================================================
