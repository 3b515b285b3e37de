----------------------------- MODULE AvDecision -----------------------------
(***************************************************************************)
(* The access decisions and the context conversions that feature/          *)
(* selinux_hide.c (and non_gki/selinux_hide.c, the port for old kernels)   *)
(* copies from the kernel in order to run them on a policy of its own: the *)
(* backup taken before KernelSU's rules.                                   *)
(*                                                                         *)
(* A policy database db is a record.  Names stand for the values that      *)
(* number them, sets of permission names for 32-bit access vectors (Bits   *)
(* is ~0U), and a conversion to or from the text of a context works on the *)
(* four fields the text is split into.  The conditional rules, which       *)
(* nothing in this code edits, are taken to be absent, and so are the      *)
(* extended permissions, which the only caller does not ask for.           *)
(***************************************************************************)
EXTENDS Integers, Sequences, FiniteSets, SequencesExt

CONSTANTS
  Bits,          \* the permissions an access vector has room for
  Classes,       \* the classes of the policy
  ProcessClass,  \* policydb.process_class
  TransPerms,    \* policydb.process_trans_perms
  Users, Roles,
  MaxDepth       \* CEXPR_MAXDEPTH

ASSUME AvAssumption ==
  /\ ProcessClass \in Classes
  /\ TransPerms \subseteq Bits
  /\ "object_r" \in Roles
  /\ MaxDepth \in Nat \ {0}

Invalid == [invalid |-> TRUE]

-----------------------------------------------------------------------------
(* Contexts.  A level is [s |-> sensitivity, c |-> categories]; the range   *)
(* of a context is a pair of levels.                                        *)

Dom(l1, l2) == l1.s >= l2.s /\ l2.c \subseteq l1.c

\* mls_context_isvalid: the high level dominates the low one.
MlsValid(range) == Dom(range[2], range[1])

\* policydb_context_isvalid, the kernel's: only object_r goes with every type.
PolicydbContextIsvalid(db, ctx) ==
  /\ ctx.role = "object_r" \/ ctx.type \in db.roleTypes[ctx.role]
  /\ MlsValid(ctx.range)

\* string_to_context_struct; a field the text lacks, and a name that the
\* policy lacks, are both outside the tables.  An attribute is not a type.
StringToContext(db, text) ==
  IF /\ text.user \in Users
     /\ text.role \in Roles
     /\ text.type \in db.types \ db.attributes
     /\ text.range # Invalid
     /\ PolicydbContextIsvalid(db, text)
  THEN text
  ELSE Invalid

\* sidtab_context_to_sid, the kernel's: the sid of a context is its place in
\* the table, where it is entered when it is new.
SidtabEnter(sidtab, ctx) ==
  IF ctx \in Range(sidtab) THEN sidtab ELSE Append(sidtab, ctx)

\* security_context_to_sid_with_policy: the sid (0 for an error) and the table.
SecurityContextToSid(db, sidtab, text) ==
  LET ctx == StringToContext(db, text)
      tab == SidtabEnter(sidtab, ctx)
  IN IF ctx = Invalid
     THEN [sid |-> 0, sidtab |-> sidtab]
     ELSE [sid |-> CHOOSE i \in DOMAIN tab : tab[i] = ctx, sidtab |-> tab]

\* context_struct_to_string: the name of a type is found by its slot.
ContextStructToString(db, ctx) ==
  IF ctx.type \in db.slots THEN ctx ELSE Invalid

\* security_sid_to_context_with_policy.
SecuritySidToContext(db, sidtab, sid) ==
  IF sid \in DOMAIN sidtab THEN ContextStructToString(db, sidtab[sid]) ELSE Invalid

-----------------------------------------------------------------------------
(* Constraints: an expression is a sequence in postfix order, evaluated on  *)
(* a stack.                                                                 *)

\* The values that an attribute expression compares.
Operands(attr, s, t) ==
  CASE attr = "user" -> <<s.user, t.user>>
    [] attr = "role" -> <<s.role, t.role>>
    [] attr = "type" -> <<s.type, t.type>>
    [] attr = "l1l2" -> <<s.range[1], t.range[1]>>
    [] attr = "l1h2" -> <<s.range[1], t.range[2]>>
    [] attr = "h1l2" -> <<s.range[2], t.range[1]>>
    [] attr = "h1h2" -> <<s.range[2], t.range[2]>>
    [] attr = "l1h1" -> <<s.range[1], s.range[2]>>
    [] attr = "l2h2" -> <<t.range[1], t.range[2]>>

\* Dominance, between roles by the policy's table and between levels.
Dominates(db, attr, x, y) ==
  IF attr = "role" THEN y \in db.dominates[x] ELSE Dom(x, y)

EvalAttr(db, s, t, e) ==
  LET v == Operands(e.attr, s, t)
  IN CASE e.op = "eq" -> v[1] = v[2]
       [] e.op = "neq" -> v[1] # v[2]
       [] e.op = "dom" -> Dominates(db, e.attr, v[1], v[2])
       [] e.op = "domby" -> Dominates(db, e.attr, v[2], v[1])
       [] e.op = "incomp" -> /\ ~Dominates(db, e.attr, v[1], v[2])
                             /\ ~Dominates(db, e.attr, v[2], v[1])

EvalNames(s, t, e) ==
  LET c == IF e.target THEN t ELSE s
      v == CASE e.attr = "user" -> c.user
             [] e.attr = "role" -> c.role
             [] e.attr = "type" -> c.type
  IN (v \in e.names) = (e.op = "eq")

\* One expression.  A push on a full stack is the early return 0.
ConstraintStep(db, s, t, acc, e) ==
  LET n == Len(acc.stack)
      top == acc.stack[n]
      Put(k, b) == [acc EXCEPT !.stack = Append(SubSeq(acc.stack, 1, k - 1), b)]
      Push(b) == IF n = MaxDepth THEN [acc EXCEPT !.full = TRUE] ELSE Put(n + 1, b)
  IN CASE acc.full -> acc
       [] ~acc.full /\ e.kind = "not" -> Put(n, ~top)
       [] ~acc.full /\ e.kind = "and" -> Put(n - 1, acc.stack[n - 1] /\ top)
       [] ~acc.full /\ e.kind = "or" -> Put(n - 1, acc.stack[n - 1] \/ top)
       [] ~acc.full /\ e.kind = "attr" -> Push(EvalAttr(db, s, t, e))
       [] ~acc.full /\ e.kind = "names" -> Push(EvalNames(s, t, e))

ConstraintExprEval(db, s, t, expr) ==
  LET end == FoldLeft(LAMBDA acc, e : ConstraintStep(db, s, t, acc, e),
                      [stack |-> <<>>, full |-> FALSE], expr)
  IN ~end.full /\ end.stack[1]

-----------------------------------------------------------------------------
(* Decisions.                                                               *)

AvdInit == [allowed |-> {}, auditallow |-> {}, auditdeny |-> Bits]

\* The rules for every pair of attributes of the two types.
RulesFor(db, s, t, class, specified) ==
  {k \in db.attrMap[s.type] \X db.attrMap[t.type] \X {class} \X {specified} :
     k \in DOMAIN db.avtab}

TypeEnforcement(db, s, t, class) ==
  [allowed |-> UNION {db.avtab[k] : k \in RulesFor(db, s, t, class, "allowed")},
   auditallow |-> UNION {db.avtab[k] : k \in RulesFor(db, s, t, class, "auditallow")},
   auditdeny |-> {b \in Bits : \A k \in RulesFor(db, s, t, class, "auditdeny") :
                                 b \in db.avtab[k]}]

\* The loop over the constraints of the class.
MaskConstraints(db, s, t, class, allowed) ==
  FoldLeft(LAMBDA acc, c :
             IF c.perms \cap acc # {} /\ ~ConstraintExprEval(db, s, t, c.expr)
             THEN acc \ c.perms ELSE acc,
           allowed, db.constraints[class])

\* A transition to a role that the policy does not allow.
MaskRoleChange(db, s, t, class, allowed) ==
  IF /\ class = ProcessClass
     /\ s.role # t.role
     /\ <<s.role, t.role>> \notin db.roleAllow
  THEN allowed \ TransPerms
  ELSE allowed

\* context_struct_compute_av before the bounds of the types are looked at.
Unbounded(db, s, t, class) ==
  LET av == TypeEnforcement(db, s, t, class)
  IN [av EXCEPT !.allowed =
        MaskRoleChange(db, s, t, class, MaskConstraints(db, s, t, class, av.allowed))]

\* type_attribute_bounds_av: a bounded source keeps what its bound may do too;
\* the bound is decided by the same computation, with its own bounds.
Bounded(db, s, t, class) ==
  LET low[st \in db.types \X db.types] ==
        LET ls == [s EXCEPT !.type = st[1]]
            lt == [t EXCEPT !.type = st[2]]
            own == Unbounded(db, ls, lt, class).allowed
            up == IF db.bounds[st[2]] = "none" THEN st[2] ELSE db.bounds[st[2]]
        IN IF db.bounds[st[1]] = "none" THEN own
           ELSE own \cap low[<<db.bounds[st[1]], up>>]
  IN low[<<s.type, t.type>>]

\* What a decision reads.
Tables(db) ==
  [types |-> db.types, attrMap |-> db.attrMap, avtab |-> db.avtab, bounds |-> db.bounds,
   constraints |-> db.constraints, dominates |-> db.dominates, roleAllow |-> db.roleAllow]

ContextStructComputeAv(db, s, t, class) ==
  IF class \notin Classes
  THEN AvdInit
  ELSE [Unbounded(Tables(db), s, t, class) EXCEPT !.allowed = Bounded(Tables(db), s, t, class)]

\* security_compute_av_user_with_policy; "none" is class 0, for a class
\* that the policy does not have.
SecurityComputeAvUser(db, sidtab, ssid, tsid, class) ==
  LET known == ssid \in DOMAIN sidtab /\ tsid \in DOMAIN sidtab
      av == CASE ~known -> AvdInit
              [] known /\ class = "none" ->
                   IF db.allowUnknown THEN [AvdInit EXCEPT !.allowed = Bits] ELSE AvdInit
              [] OTHER -> ContextStructComputeAv(db, sidtab[ssid], sidtab[tsid], class)
  IN [av |-> av,
      permissive |-> ssid \in DOMAIN sidtab /\ sidtab[ssid].type \in db.permissive]
=============================================================================
