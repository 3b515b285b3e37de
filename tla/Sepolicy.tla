------------------------------ MODULE Sepolicy ------------------------------
(***************************************************************************)
(* kernel/selinux/rules.c: the policy in force and the edits it gets, with *)
(* the backup that feature/selinux_hide.c answers apps from.               *)
(*                                                                         *)
(* An edit copies the policy in force, changes the copy and publishes it,  *)
(* all under the policy mutex (PolicyEdits looks at that lock), so that it *)
(* is one step here, with the reset of the AVC that follows.  legacy       *)
(* selects the port of kernel/non_gki, for kernels before 5.10.  A step    *)
(* that uses memory which is not the policy's ends the behaviour: anything *)
(* may come of it.                                                         *)
(***************************************************************************)
EXTENDS PolicyDb

CONSTANTS
  StockPolicies,  \* the policies that init may have loaded
  Batches,        \* what userspace may send
  Texts,          \* the contexts that the properties look at
  Accesses,       \* <<source, target, class>> that are asked about
  Isids,          \* the contexts of the initial sids
  Junk,           \* what an uninitialised type may be
  MaxBatches,     \* bounds of the model: batches sent,
  MaxQueries,     \* decisions asked for,
  MaxFailures     \* allocations that fail

\* The fields of a policy database
Fields ==
  {"types", "attributes", "slots", "attrMap", "roleTypes", "bounds", "avtab", "xperms",
   "typeRules", "ftrans", "ftCount", "ftTtypes", "permissive", "constraints", "dominates",
   "roleAllow", "allowUnknown", "len", "torn", "freed", "wild"}

\* init loads policies in which every type has its slot and, as policydb_read
\* leaves them, each type is among its own attributes.
ASSUME SepolicyAssumption ==
  /\ \A p \in StockPolicies : /\ DOMAIN p = Fields
                              /\ ~p.torn /\ ~p.freed /\ ~p.wild
                              /\ p.types \subseteq p.slots
                              /\ p.attrMap = [t \in p.slots |-> p.attrMap[t] \cup {t}]
                              /\ \A r \in Roles : p.roleTypes[r] \subseteq p.types
  /\ \A batch \in Batches : batch \in Seq(Range(batch))
  /\ Isids \in Seq(Range(Isids))

VARIABLES
  legacy,   \* the build
  live,     \* selinux_state.policy
  backup,   \* backup_sepolicy, None if there is none
  sidtab,   \* the backup's
  avc,      \* a decision cached for the policy in force, None if there is none
  answer,   \* the last answer an app got from the backup
  booted,   \* apply_kernelsu_rules was called
  batches, queries,
  undefined, \* a step used memory that is not the policy's
  stock,     \* ghost: the policy that init loaded
  log,       \* ghost: the commands that took effect
  failed,    \* ghost: <<command, allocation>> for each failure
  room       \* ghost: after KernelSU's rules the policy could be copied

vars == <<legacy, live, backup, sidtab, avc, answer, booted, batches, queries, undefined,
          stock, log, failed, room>>

None == [none |-> TRUE]

Init ==
  /\ legacy \in BOOLEAN
  /\ stock \in StockPolicies
  /\ live = stock
  /\ backup = None /\ sidtab = <<>> /\ avc = None /\ answer = None
  /\ booted = FALSE /\ batches = 0 /\ queries = 0 /\ undefined = FALSE
  /\ log = <<>> /\ failed = {} /\ room = FALSE

Dup(db) == IF legacy THEN DupPolicydb(db) ELSE DupSepolicy(db)

\* The allocation that fails while commands are run, and in which command (0:
\* none does, or enough have).
Faults(batch) ==
  {[at |-> 0, mem |-> "ok"]}
    \cup UNION {{[at |-> i, mem |-> m] : m \in Allocations(batch[i])} :
                  i \in IF Cardinality(failed) < MaxFailures THEN DOMAIN batch ELSE {}}

\* One command of a batch, unless an earlier one or this one is malformed.
RunOne(acc, c, junk, fault) ==
  LET hit == acc.index = fault.at
      r == ApplyOneSepolicyCmd(acc.db, c, legacy, junk, IF hit THEN fault.mem ELSE "ok")
  IN IF acc.malformed \/ ~WellFormed(c) THEN [acc EXCEPT !.malformed = TRUE]
     ELSE [acc EXCEPT !.db = r.db,
                      !.index = @ + 1,
                      !.failed = IF hit THEN @ \cup {<<c.cmd, fault.mem>>} ELSE @,
                      !.done = IF r.ok THEN Append(@, [c |-> c, types |-> acc.db.types,
                                                       attributes |-> acc.db.attributes])
                               ELSE @]

\* The loop of handle_sepolicy over the commands, up to a malformed one.
RunBatch(db, batch, junk, fault) ==
  FoldLeft(LAMBDA acc, c : RunOne(acc, c, junk, fault),
           [db |-> db, done |-> <<>>, failed |-> {}, index |-> 1, malformed |-> FALSE], batch)

\* Memory of others is used in a run, or when a copy whose tables are freed, or
\* shorter than its count of types, is dropped.
Strays(r) == r.db.wild \/ (r.malformed /\ (r.db.torn \/ r.db.freed))

\* Mutant of ResetAvcCache: the cache is not reset.
ResetAvcCache_skipped == UNCHANGED avc

\* reset_avc_cache.
ResetAvcCache == avc' = None

\* The edited copy replaces the policy in force.
PublishRun(r) ==
  /\ live' = r.db
  /\ log' = log \o r.done
  /\ ResetAvcCache

\* apply_kernelsu_rules_fn: one command of each kind that the list has.
KernelsuRules ==
  LET Rule(cmd, sub, args) == [cmd |-> cmd, sub |-> sub, args |-> args]
  IN <<Rule("type", "none", <<"ksu", "domain">>),
       Rule("type_state", "permissive", <<"ksu">>),
       Rule("type_attr", "none", <<"ksu", "mlstrustedsubject">>),
       Rule("normal_perm", "allow", <<"ksu", ALL, ALL, ALL>>),
       Rule("xperm", "allow", <<"ksu", ALL, "file", "ioctl", ALL>>),
       Rule("normal_perm", "allow", <<"domain", "ksu", "process", "w">>)>>

\* Mutant of ApplyKernelsuRules: the backup is taken from the edited copy.
ApplyKernelsuRules_late(backed, copied, fault) ==
  LET copy == Dup(live)
      r == RunBatch(copy.db, KernelsuRules, "none", fault)
  IN /\ ~booted
     /\ booted' = TRUE
     /\ backup' = IF copy.ok /\ backed THEN r.db ELSE None
     /\ sidtab' = IF copy.ok /\ backed THEN Isids ELSE <<>>
     /\ IF copy.ok /\ copied /\ ~Strays(r) THEN PublishRun(r) ELSE UNCHANGED <<live, log, avc>>
     /\ undefined' = (copy.ok /\ copied /\ Strays(r))
     /\ failed' = IF copy.ok /\ copied THEN r.failed ELSE {}
     /\ room' = Dup(live').ok
     /\ UNCHANGED <<legacy, answer, batches, queries, stock>>

\* apply_kernelsu_rules, at init's second stage: the backup first, with a
\* sidtab of its own (backed: its allocations succeed), then the rules in a
\* second copy (copied: so do that one's); what a failing rule leaves is
\* published with the rest.
ApplyKernelsuRules(backed, copied, fault) ==
  LET copy == Dup(live)
      r == RunBatch(copy.db, KernelsuRules, "none", fault)
  IN /\ ~booted
     /\ booted' = TRUE
     /\ backup' = IF copy.ok /\ backed THEN copy.db ELSE None
     /\ sidtab' = IF copy.ok /\ backed THEN Isids ELSE <<>>
     /\ IF copy.ok /\ copied /\ ~Strays(r) THEN PublishRun(r) ELSE UNCHANGED <<live, log, avc>>
     /\ undefined' = (copy.ok /\ copied /\ Strays(r))
     /\ failed' = IF copy.ok /\ copied THEN r.failed ELSE {}
     /\ room' = Dup(live').ok
     /\ UNCHANGED <<legacy, answer, batches, queries, stock>>

\* handle_sepolicy.  A policy whose tables are freed or too short is copied
\* like any other.
HandleSepolicy(batch, junk, fault) ==
  LET copy == Dup(live)
      r == RunBatch(copy.db, batch, junk, fault)
      stray == live.torn \/ live.freed \/ (copy.ok /\ Strays(r))
      runs == copy.ok /\ ~stray
  IN /\ booted /\ batches < MaxBatches
     /\ batches' = batches + 1
     /\ undefined' = stray
     /\ IF runs /\ ~r.malformed THEN PublishRun(r) ELSE UNCHANGED <<live, log, avc>>
     /\ failed' = IF live.torn \/ live.freed \/ ~copy.ok THEN failed ELSE failed \cup r.failed
     /\ UNCHANGED <<legacy, backup, sidtab, answer, booted, queries, stock, room>>

\* my_write_context: an app writes a context and reads it back; SELinux' own
\* answer, but from the backup.
HiddenWriteContext(text) ==
  LET r == SecurityContextToSid(backup, sidtab, text)
  IN /\ backup # None /\ queries < MaxQueries
     /\ queries' = queries + 1
     /\ sidtab' = r.sidtab
     /\ answer' = [about |-> <<text>>, is |-> SecuritySidToContext(backup, r.sidtab, r.sid)]
     /\ UNCHANGED <<legacy, live, backup, avc, booted, batches, undefined, stock, log, failed, room>>

\* my_write_access: both contexts become sids, and the decision is the backup's.
HiddenWriteAccess(stext, ttext, class) ==
  LET r1 == SecurityContextToSid(backup, sidtab, stext)
      r2 == SecurityContextToSid(backup, r1.sidtab, ttext)
      ok == r1.sid # 0 /\ r2.sid # 0
  IN /\ backup # None /\ queries < MaxQueries
     /\ queries' = queries + 1
     /\ sidtab' = IF r1.sid = 0 THEN r1.sidtab ELSE r2.sidtab
     /\ answer' = [about |-> <<stext, ttext, class>>,
                   is |-> IF ok THEN SecurityComputeAvUser(backup, r2.sidtab, r1.sid, r2.sid, class)
                          ELSE Invalid]
     /\ UNCHANGED <<legacy, live, backup, avc, booted, batches, undefined, stock, log, failed, room>>

\* The kernel decides on the policy in force, for contexts that are valid in
\* it, and caches the decision.
Decide(s, t, class) ==
  LET found == {s.type, t.type} \subseteq live.slots /\ ~live.freed
  IN /\ queries < MaxQueries
     /\ queries' = queries + 1
     /\ Invalid \notin {StringToContext(live, s), StringToContext(live, t)}
     /\ undefined' = ~found
     /\ avc' = IF found
               THEN [s |-> s, t |-> t, class |-> class, av |-> ContextStructComputeAv(live, s, t, class)]
               ELSE avc
     /\ UNCHANGED <<legacy, live, backup, sidtab, answer, booted, batches, stock, log, failed, room>>

\* What was in the key that a named transition leaves unset before 5.7.
Leftovers(batch) ==
  IF legacy /\ \E i \in DOMAIN batch : batch[i].cmd = "type_transition" THEN Junk ELSE {"none"}

Step ==
  \/ \E backed, copied \in BOOLEAN, fault \in Faults(KernelsuRules) :
       ApplyKernelsuRules(backed, copied, fault)
  \/ \E batch \in Batches : \E junk \in Leftovers(batch), fault \in Faults(batch) :
       HandleSepolicy(batch, junk, fault)
  \/ \E a \in Accesses : HiddenWriteContext(a[1])
  \/ \E a \in Accesses : HiddenWriteAccess(a[1], a[2], a[3])
  \/ \E a \in Accesses : Decide(a[1], a[2], a[3])

\* Nothing is said of what comes after memory of others was used.
Next == ~undefined /\ Step

Spec == Init /\ [][Next]_vars

-----------------------------------------------------------------------------
(* What the commands mean, said without tables: a rule holds for a pair if  *)
(* some command or the stock policy gave it and no later one took it away.  *)

\* Whether a command of the log speaks about a pair of types or attributes.
Covers(e, sub, k) ==
  LET every == IF sub = "deny" THEN e.types ELSE e.attributes
      Fits(arg, x, S) == arg = x \/ (arg = ALL /\ x \in S)
  IN /\ e.c.cmd = "normal_perm" /\ e.c.sub = sub
     /\ Fits(e.c.args[1], k[1], every) /\ Fits(e.c.args[2], k[2], every)
     /\ Fits(e.c.args[3], k[3], Classes) /\ Fits(e.c.args[4], k[4], Bits)

InStock(k, specified) ==
  LET key == <<k[1], k[2], k[3], specified>>
  IN key \in DOMAIN stock.avtab /\ k[4] \in stock.avtab[key]

Granted(k) ==
  \/ /\ InStock(k, "allowed")
     /\ \A i \in DOMAIN log : ~Covers(log[i], "deny", k)
  \/ \E i \in DOMAIN log : /\ Covers(log[i], "allow", k)
                           /\ \A j \in i + 1 .. Len(log) : ~Covers(log[j], "deny", k)

AuditedWhenAllowed(k) ==
  InStock(k, "auditallow") \/ \E i \in DOMAIN log : Covers(log[i], "auditallow", k)

Silenced(k) ==
  \/ <<k[1], k[2], k[3], "auditdeny">> \in DOMAIN stock.avtab /\ ~InStock(k, "auditdeny")
  \/ \E i \in DOMAIN log : Covers(log[i], "dontaudit", k)

\* All that a rule can be about, and what the rules for two types are looked up
\* under.
Keys == LET names == live.types \cup live.attributes IN names \X names \X Classes \X Bits
Pairs(s, t, class, b) == live.attrMap[s] \X live.attrMap[t] \X {class} \X {b}

\* A literal of a constraint; a name stands for the types that carry it.
LiteralHolds(s, t, e) ==
  IF e.kind = "attr" THEN EvalAttr(live, s, t, e)
  ELSE LET c == IF e.target THEN t ELSE s
       IN (live.attrMap[c.type] \cap e.typeNames # {}) = (e.op = "eq")

ConstraintsHold(s, t, class, b) ==
  \A n \in DOMAIN live.constraints[class] :
    LET c == live.constraints[class][n]
    IN b \in c.perms => \A clause \in c.cnf : \E e \in clause : LiteralHolds(s, t, e)

May(granted, s, t, class, b) ==
  /\ \E k \in Pairs(s.type, t.type, class, b) : k \in granted
  /\ ConstraintsHold(s, t, class, b)
  /\ class = ProcessClass /\ b \in TransPerms => s.role = t.role \/ <<s.role, t.role>> \in live.roleAllow

\* A bounded type may do what its bound may do too, to the target's bound if
\* it has one (bounds are one deep here).
BoundOf(x) == IF live.bounds[x.type] = "none" THEN x ELSE [x EXCEPT !.type = live.bounds[x.type]]

LiveContexts == {x \in Texts : StringToContext(live, x) # Invalid /\ x.type \in live.slots}

\* The failures that leave a rule or an attribute half done.
Disturbed ==
  \/ <<"normal_perm", "none">> \in failed
  \/ \E f \in failed : f[1] \in {"type", "attr", "type_attr"} /\ f[2] = "bits"

\* DecisionFollowsCommands: whatever sequence of batches was sent, the three
\* vectors that context_struct_compute_av finds in the edited tables (nodes
\* created and removed, vectors inverted for dontaudit, wildcards expanded to
\* types or to attributes, constraints widened by typeattribute) are the ones
\* the commands meant, in the order they came.  This is not promised once the
\* node of a rule or the bit of an attribute could not be had, nor of a policy
\* that points to freed tables or was handled as memory of others; a type
\* whose own tables could not be had disturbs no other's decisions.  (A query
\* leaves the policy alone: it is looked at in the states without one.)
DecisionFollowsCommands ==
  LET granted == {k \in Keys : Granted(k)}
      audited == {k \in Keys : AuditedWhenAllowed(k)}
      silenced == {k \in Keys : Silenced(k)}
  IN Disturbed \/ live.freed \/ undefined \/ queries > 0 \/ \A s, t \in LiveContexts, class \in Classes :
       LET av == ContextStructComputeAv(live, s, t, class)
           P(b) == Pairs(s.type, t.type, class, b)
           Allowed(x, y, b) == May(granted, x, y, class, b)
       IN /\ av.allowed = {b \in Bits : /\ Allowed(s, t, b)
                                        /\ live.bounds[s.type] # "none" => Allowed(BoundOf(s), BoundOf(t), b)}
          /\ av.auditallow = {b \in Bits : P(b) \cap audited # {}}
          /\ av.auditdeny = {b \in Bits : P(b) \cap silenced = {}}

\* StockAnswers: what an app is told through the hooks (a context echoed by
\* /sys/fs/selinux/context, a decision by .../access) is what the policy that
\* init loaded says, whatever rules were added since and whichever sids the
\* backup's table was filled with before.
StockAnswers ==
  answer # None =>
    IF Len(answer.about) = 1 THEN answer.is = StringToContext(stock, answer.about[1])
    ELSE LET x == StringToContext(stock, answer.about[1])
             y == StringToContext(stock, answer.about[2])
             class == answer.about[3]
             unknown == [AvdInit EXCEPT !.allowed = IF stock.allowUnknown THEN Bits ELSE {}]
         IN answer.is =
              (IF Invalid \in {x, y} THEN Invalid
               ELSE [av |-> IF class = "none" THEN unknown
                            ELSE ContextStructComputeAv(stock, x, y, class),
                     permissive |-> x.type \in stock.permissive])

\* NoHalfAddedDomain: when add_type fails halfway, the name it leaves in the
\* symbol table cannot become the context of a process: the type would have no
\* slot in the tables that a decision reads.  (An object's context, whose role
\* is not checked against the type, can name it.)
NoHalfAddedDomain ==
  \A x \in Texts : x.role # "object_r" /\ StringToContext(live, x) # Invalid => x.type \in live.slots

\* NoStrayAccess: memory that is not the policy's is used only if an allocation
\* of add_type or add_filename_trans failed: no sequence of batches, and no
\* other failure, leads there.
NoStrayAccess == undefined => \E f \in failed : f[1] \in {"type", "attr", "type_transition"}

\* AvcFresh: no decision of an earlier policy stays in the cache ("otherwise
\* the new rules will not take effect if already denied").
AvcFresh ==
  avc # None => avc.av = ContextStructComputeAv(live, avc.s, avc.t, avc.class)

\* RoomToCopy: if the policy could be copied once KernelSU's rules were in it,
\* len keeps up with what batches add, so that the next one can copy it too.
\* Not so of the commands whose traces len is not told of, or told too much:
\* types, bits of the bitmaps of attributes, constraints and permissive types,
\* named transitions, and nodes that deny removes (len loses 16 bytes for 12).
Unaccounted(c) ==
  \/ c.cmd \in {"type", "attr", "type_attr"}
  \/ c.cmd = "type_state" /\ c.sub = "permissive"
  \/ c.cmd = "type_transition" /\ c.args[5] # ALL
  \/ c.cmd = "normal_perm" /\ c.sub = "deny"

RoomToCopy ==
  /\ room /\ failed = {} /\ ~undefined
  /\ \A i \in DOMAIN log : log[i].c \in Range(KernelsuRules) \/ ~Unaccounted(log[i].c)
  => Dup(live).ok
=============================================================================
