------------------------------ MODULE PolicyDb ------------------------------
(***************************************************************************)
(* kernel/selinux/sepolicy.c and the commands of kernel/selinux/rules.c:   *)
(* how a policy database is edited in memory and how it is copied.         *)
(*                                                                         *)
(* Every editing operator returns [db |-> the database, ok |-> its result].*)
(* mem tells which allocation fails, if not "ok": "none" the nodes and     *)
(* data, "copy" the copy of a file name, "map", "types" and "names" the    *)
(* three tables that add_type enlarges, "bits" the nodes of bitmaps.  The  *)
(* database is the record of AvDecision with, besides, the extended        *)
(* permissions, the type rules, the named transitions, len (the size it    *)
(* claims), torn (there are fewer slots than the count of types says),     *)
(* freed (so are the slots, to which it still points) and wild (memory     *)
(* that is not its own was used).  The loops over nodes work on the two    *)
(* fields that they change.                                                *)
(***************************************************************************)
EXTENDS AvDecision

CONSTANTS
  ClassPerms,    \* class -> the permissions it names, its common's included
  IoctlRanges,   \* the text of a range -> [low, high], pairs <<driver, function>>
  Word,          \* type -> the word of a bitmap that has its bit
  ImageSizes     \* bytes a type and a named transition take in a written policy

ALL == "*"

AV == {"allowed", "auditallow", "auditdeny"}
Result(db, ok) == [db |-> db, ok |-> ok]

\* Sizes in memory (what len is changed by) and in the written image.
NODE_SIZE == 16
NODE_IMAGE == 12
XPERMS_SIZE == 34    \* two u8 and eight u32 on top of either
BITMAP_IMAGE == 12   \* a u32 and a u64 for a word, three u32 ahead of them

-----------------------------------------------------------------------------
(* Access vector rules.                                                     *)

\* An entry of a function added or replaced.
With(f, k, v) == [x \in DOMAIN f \cup {k} |-> IF x = k THEN v ELSE f[x]]
Without(f, k) == [x \in DOMAIN f \ {k} |-> f[x]]

\* Mutant of GetAvtabNode: len is not told of the new node.
GetAvtabNode_silent(db, key, mem) ==
  CASE key \in DOMAIN db.avtab -> Result(db, TRUE)
    [] key \notin DOMAIN db.avtab /\ mem = "none" -> Result(db, FALSE)
    [] OTHER -> Result([db EXCEPT !.avtab = With(@, key, IF key[4] = "auditdeny" THEN Bits ELSE {})], TRUE)

\* get_avtab_node for a key that is not of extended permissions.
GetAvtabNode(db, key, mem) ==
  CASE key \in DOMAIN db.avtab -> Result(db, TRUE)
    [] key \notin DOMAIN db.avtab /\ mem = "none" -> Result(db, FALSE)
    [] OTHER -> Result([db EXCEPT !.avtab = With(@, key, IF key[4] = "auditdeny" THEN Bits ELSE {}),
                                  !.len = @ + NODE_SIZE], TRUE)

IsRedundantAvtabNode(key, data) ==
  key[4] \in AV /\ data = (IF key[4] = "auditdeny" THEN Bits ELSE {})

RemoveAvtabNode(db, key, mem) ==
  IF mem = "none" THEN Result(db, FALSE)
  ELSE Result([db EXCEPT !.avtab = Without(@, key),
                         !.len = IF @ >= NODE_SIZE THEN @ - NODE_SIZE ELSE @], TRUE)

\* The last branch of add_rule_raw: one source, one target, one class.
AddRuleNode(db, key, perm, invert, mem) ==
  LET nothing == invert /\ key[4] # "auditdeny" /\ key \notin DOMAIN db.avtab
      got == GetAvtabNode(db, key, mem)
      bit == IF perm = ALL THEN Bits ELSE {perm}
      new == [got.db EXCEPT !.avtab[key] = IF invert THEN @ \ bit ELSE @ \cup bit]
  IN IF nothing \/ ~got.ok THEN Result(db, nothing)
     ELSE IF IsRedundantAvtabNode(key, new.avtab[key]) THEN RemoveAvtabNode(new, key, mem)
     ELSE Result(new, TRUE)

\* Mutant of StripAv: dontaudit taken for a rule that is removed.
StripAv_plain(effect, invert) == invert

\* Inverting takes rules away, but for dontaudit, which it adds.
StripAv(effect, invert) == (effect = "auditdeny") = ~invert

\* A type left out stands for every type when a rule is stripped and for
\* every attribute when it is added.
Expand(db, name, strip) ==
  IF name # ALL THEN {name} ELSE IF strip THEN db.types ELSE db.attributes

\* add_rule_raw; the keys are distinct, so their order is of no account.
AddRuleRaw(db, s, t, c, perm, effect, invert, mem) ==
  LET strip == StripAv(effect, invert)
      cls == IF c = ALL THEN Classes ELSE {c}
      Add(key, acc) == LET r == AddRuleNode(acc.db, key, perm, invert, mem)
                       IN Result(r.db, acc.ok /\ r.ok)
      end == FoldSet(Add, Result([avtab |-> db.avtab, len |-> db.len], TRUE),
                     Expand(db, s, strip) \X Expand(db, t, strip) \X cls \X {effect})
  IN Result([db EXCEPT !.avtab = end.db.avtab, !.len = end.db.len], end.ok)

Known(db, name) == name = ALL \/ name \in db.types

AddRule(db, s, t, c, perm, effect, invert, mem) ==
  IF /\ Known(db, s) /\ Known(db, t)
     /\ c \in Classes \cup {ALL}
     /\ perm # ALL => c # ALL /\ perm \in ClassPerms[c]
  THEN AddRuleRaw(db, s, t, c, perm, effect, invert, mem)
  ELSE Result(db, FALSE)

-----------------------------------------------------------------------------
(* Extended permissions: ioctl numbers as pairs <<driver, function>>.       *)

\* The set that add_xperm_rule_raw builds for a range: whole drivers when it
\* spans several, functions of one driver otherwise.
XpermSet(low, high) ==
  IF low[1] # high[1]
  THEN [specified |-> "driver", driver |-> 0, perms |-> low[1] .. high[1]]
  ELSE [specified |-> "function", driver |-> low[1], perms |-> low[2] .. high[2]]

\* get_avtab_node and the end of add_xperm_rule_raw: a node of the same kind
\* and driver is found and left as it is.
AddXpermNode(db, key, x, mem) ==
  LET old == IF key \in DOMAIN db.xperms THEN db.xperms[key] ELSE {}
  IN IF mem = "none" \/ \E y \in old : y.specified = x.specified /\ y.driver = x.driver
     THEN db
     ELSE [db EXCEPT !.xperms = With(@, key, old \cup {x}),
                     !.len = @ + NODE_SIZE + XPERMS_SIZE]

AddXpermRuleRaw(db, s, t, c, x, effect, mem) ==
  LET end == FoldSet(LAMBDA key, acc : AddXpermNode(acc, key, x, mem),
                     [xperms |-> db.xperms, len |-> db.len],
                     Expand(db, s, FALSE) \X Expand(db, t, FALSE)
                       \X (IF c = ALL THEN Classes ELSE {c}) \X {effect})
  IN [db EXCEPT !.xperms = end.xperms, !.len = end.len]

\* add_xperm_rule; sscanf makes a range of the text.
AddXpermRule(db, s, t, c, range, effect, mem) ==
  LET x == IF range = ALL THEN XpermSet(<<0, 0>>, <<255, 255>>)
           ELSE XpermSet(IoctlRanges[range].low, IoctlRanges[range].high)
  IN IF Known(db, s) /\ Known(db, t) /\ c \in Classes \cup {ALL}
     THEN Result(AddXpermRuleRaw(db, s, t, c, x, effect, mem), TRUE)
     ELSE Result(db, FALSE)

-----------------------------------------------------------------------------
(* Type rules and named transitions.                                        *)

AddTypeRule(db, s, t, c, d, effect, mem) ==
  LET key == <<s, t, c, effect>>
      fresh == key \notin DOMAIN db.typeRules
  IN IF {s, t, d} \subseteq db.types /\ c \in Classes /\ (fresh => mem # "none")
     THEN Result([db EXCEPT !.typeRules = With(@, key, d),
                            !.len = IF fresh THEN @ + NODE_SIZE ELSE @], TRUE)
     ELSE Result(db, FALSE)

\* filenametr_cmp: what tells two named transitions apart.
FilenametrKey(t, c, name) == <<t, c, name>>

\* add_filename_trans from 5.7 on.  The entries of a key form a list, searched
\* for the source or the default type; when neither is found on a list that
\* is not empty, hashtab_insert refuses the key, which is ignored.  The three
\* allocations are not checked.
AddFilenameTrans(db, s, t, c, d, name, mem) ==
  LET key == FilenametrKey(t, c, name)
      chain == IF key \in DOMAIN db.ftrans THEN db.ftrans[key] ELSE <<>>
      hits == {i \in DOMAIN chain : s \in chain[i].stypes \/ chain[i].otype = d}
      i == CHOOSE k \in hits : \A j \in hits : k <= j
      counted == [db EXCEPT !.ftCount = @ + 1]
      new == IF mem = "bits" THEN {} ELSE {s}
  IN CASE ~({s, t, d} \subseteq db.types /\ c \in Classes) -> Result(db, FALSE)
       [] {s, t, d} \subseteq db.types /\ c \in Classes /\ hits # {} ->
            IF s \in chain[i].stypes
            THEN Result([db EXCEPT !.ftrans[key][i].otype = d], TRUE)
            ELSE Result([counted EXCEPT !.ftrans[key][i].stypes = @ \cup new], new # {})
       [] OTHER ->
            IF mem \in {"none", "copy"} THEN Result([db EXCEPT !.wild = TRUE], FALSE)
            ELSE IF chain # <<>> THEN Result(counted, new # {})
            ELSE Result([counted EXCEPT !.ftrans =
                           With(@, key, <<[otype |-> d, stypes |-> new]>>)], new # {})

\* add_filename_trans before 5.7: the source type of the key is not set (junk
\* is what the stack held), an entry that is found keeps its default type, and
\* the map of target types gets the source.  The copy of the name is not checked
\* before it is hashed.
AddFilenameTransLegacy(db, s, t, c, d, name, junk, mem) ==
  LET key == <<t, c, name, junk>>
      fresh == key \notin DOMAIN db.ftrans
      known == {s, t, d} \subseteq db.types /\ c \in Classes
  IN CASE ~known \/ (fresh /\ mem = "none") -> Result(db, FALSE)
       [] known /\ fresh /\ mem = "copy" -> Result([db EXCEPT !.wild = TRUE], FALSE)
       [] OTHER ->
            Result([db EXCEPT !.ftTtypes = IF mem = "bits" THEN @ ELSE @ \cup {s},
                              !.ftrans = IF fresh
                                         THEN With(@, key, <<[otype |-> d, stypes |-> {junk}]>>)
                                         ELSE @], mem # "bits")

-----------------------------------------------------------------------------
(* Types.                                                                   *)

\* Mutant of InsertType: the roles get the type before it has its slot.
InsertType_early(db, name, attr) ==
  [db EXCEPT !.torn = TRUE,
             !.types = @ \cup {name},
             !.attributes = IF attr THEN @ \cup {name} ELSE @,
             !.bounds = With(@, name, "none"),
             !.roleTypes = [r \in Roles |-> @[r] \cup {name}]]

\* add_type up to the allocation of the tables: the count has grown, and the
\* name is known.
InsertType(db, name, attr) ==
  [db EXCEPT !.torn = TRUE,
             !.types = @ \cup {name},
             !.attributes = IF attr THEN @ \cup {name} ELSE @,
             !.bounds = With(@, name, "none")]

\* The tables are grown, out of slots that are freed already, or fewer than
\* are copied, if an earlier call failed.
Grow(db, was) == [db EXCEPT !.wild = @ \/ was.torn \/ was.freed]

\* The rest of add_type: the slot, and the type allowed for every role.  A bit
\* that cannot be set is not noticed.
FillTables(db, name, was, mem) ==
  LET self == IF mem = "bits" THEN {} ELSE {name}
  IN [db EXCEPT !.torn = was.torn,
                !.slots = @ \cup {name},
                !.attrMap = With(@, name, self),
                !.roleTypes = [r \in Roles |-> @[r] \cup self]]

\* Mutant of AddType: the types are counted before the name is looked up.
AddType_countFirst(db, name, attr, mem) ==
  LET new == InsertType(db, name, attr)
  IN CASE name \in db.types -> Result([db EXCEPT !.torn = TRUE], TRUE)
       [] name \notin db.types /\ mem = "none" -> Result([db EXCEPT !.torn = TRUE], FALSE)
       [] name \notin db.types /\ mem = "map" -> Result(new, FALSE)
       [] name \notin db.types /\ mem \in {"types", "names"} ->
            Result([Grow(new, db) EXCEPT !.freed = TRUE], FALSE)
       [] OTHER -> Result(FillTables(Grow(new, db), name, db, mem), TRUE)

\* add_type.  Each table that was grown replaces the old one, which is freed,
\* but the policy is told when all three are there: if the second or the third
\* fails, it points to what the first one freed.  (The builds with flex arrays
\* free nothing before that; a failure there is that of the first.)
AddType(db, name, attr, mem) ==
  LET new == InsertType(db, name, attr)
  IN CASE name \in db.types -> Result(db, TRUE)
       [] name \notin db.types /\ mem = "none" -> Result([db EXCEPT !.torn = TRUE], FALSE)
       [] name \notin db.types /\ mem = "map" -> Result(new, FALSE)
       [] name \notin db.types /\ mem \in {"types", "names"} ->
            Result([Grow(new, db) EXCEPT !.freed = TRUE], FALSE)
       [] OTHER -> Result(FillTables(Grow(new, db), name, db, mem), TRUE)

\* set_type_state.  Clearing a bit takes no memory; with no name given a bit
\* that cannot be set is passed over.
SetTypeState(db, name, permissive, mem) ==
  LET ts == IF name = ALL THEN db.types ELSE {name}
      fails == permissive /\ mem = "bits" /\ ~(ts \subseteq db.permissive)
  IN CASE ~Known(db, name) -> Result(db, FALSE)
       [] Known(db, name) /\ fails -> Result(db, name = ALL)
       [] OTHER -> Result([db EXCEPT !.permissive = IF permissive THEN @ \cup ts ELSE @ \ ts], TRUE)

\* A constraint that names the attribute gets the type.
WidenConstraints(cs, type, attr) ==
  LET Widen(e) == IF e.kind = "names" /\ attr \in e.typeNames
                  THEN [e EXCEPT !.names = @ \cup {type}] ELSE e
  IN [c \in Classes |-> [i \in DOMAIN cs[c] |->
        [cs[c][i] EXCEPT !.expr = [j \in DOMAIN @ |-> Widen(@[j])]]]]

\* add_typeattribute_raw, which does not look whether a bit could be set.
AddTypeattributeRaw(db, type, attr, mem) ==
  LET here == type \in db.slots /\ ~db.freed
  IN [db EXCEPT !.wild = @ \/ ~here,
                !.attrMap = IF here /\ mem # "bits" THEN [@ EXCEPT ![type] = @ \cup {attr}] ELSE @,
                !.constraints = IF mem # "bits" THEN WidenConstraints(@, type, attr) ELSE @]

AddTypeattribute(db, type, attr, mem) ==
  IF type \in db.types \ db.attributes /\ attr \in db.attributes
  THEN Result(AddTypeattributeRaw(db, type, attr, mem), TRUE)
  ELSE Result(db, FALSE)

KsuType(db, name, attr, mem) ==
  LET r == AddType(db, name, FALSE, mem)
  IN IF r.ok THEN AddTypeattribute(r.db, name, attr, mem) ELSE r

-----------------------------------------------------------------------------
(* Commands: [cmd, sub, args], with ALL for an empty argument.              *)

ExpectedArgc ==
  [normal_perm |-> 4, xperm |-> 5, type_state |-> 1, type |-> 2, type_attr |-> 2,
   attr |-> 1, type_transition |-> 5, type_change |-> 4, genfscon |-> 3]

\* sepol_read_cmd_header, sepol_expected_argc and sepol_read_string: a command
\* that is not known, or one that ends early, stops the batch.
WellFormed(c) == c.cmd \in DOMAIN ExpectedArgc /\ Len(c.args) = ExpectedArgc[c.cmd]

\* The allocations that a command makes.
Allocations(c) ==
  CASE c.cmd \in {"type", "attr"} -> {"none", "map", "types", "names", "bits"}
    [] c.cmd \in {"type_state", "type_attr"} -> {"bits"}
    [] c.cmd = "type_transition" -> {"none", "copy", "bits"}
    [] c.cmd \in {"normal_perm", "xperm", "type_change"} -> {"none"}
    [] OTHER -> {}

\* sepol_require_not_all, for the arguments at the given places.
NotAll(c, places) == \A i \in places : c.args[i] # ALL

\* ksu_allow and its three sisters: the rule's kind and whether it is inverted.
NormalPerm == [allow |-> <<"allowed", FALSE>>, deny |-> <<"allowed", TRUE>>,
               auditallow |-> <<"auditallow", FALSE>>, dontaudit |-> <<"auditdeny", TRUE>>]

\* ksu_type_transition: with a name or without.
KsuTypeTransition(db, a, legacy, junk, mem) ==
  CASE a[5] = ALL -> AddTypeRule(db, a[1], a[2], a[3], a[4], "transition", mem)
    [] a[5] # ALL /\ legacy -> AddFilenameTransLegacy(db, a[1], a[2], a[3], a[4], a[5], junk, mem)
    [] OTHER -> AddFilenameTrans(db, a[1], a[2], a[3], a[4], a[5], mem)

\* apply_one_sepolicy_cmd.  genfscon is not supported.
ApplyOneSepolicyCmd(db, c, legacy, junk, mem) ==
  LET a == c.args
      Need(places, r) == IF NotAll(c, places) THEN r ELSE Result(db, FALSE)
  IN CASE c.cmd = "normal_perm" /\ c.sub \in DOMAIN NormalPerm ->
            AddRule(db, a[1], a[2], a[3], a[4], NormalPerm[c.sub][1], NormalPerm[c.sub][2], mem)
       [] c.cmd = "xperm" /\ c.sub \in {"allow", "auditallow", "dontaudit"} ->
            Need({4, 5}, AddXpermRule(db, a[1], a[2], a[3], a[5], c.sub, mem))
       [] c.cmd = "type_state" /\ c.sub \in {"permissive", "enforce"} ->
            Need({1}, SetTypeState(db, a[1], c.sub = "permissive", mem))
       [] c.cmd = "type" -> Need({1, 2}, KsuType(db, a[1], a[2], mem))
       [] c.cmd = "type_attr" -> Need({1, 2}, AddTypeattribute(db, a[1], a[2], mem))
       [] c.cmd = "attr" -> Need({1}, AddType(db, a[1], TRUE, mem))
       [] c.cmd = "type_transition" ->
            Need({1, 2, 3, 4}, KsuTypeTransition(db, a, legacy, junk, mem))
       [] c.cmd = "type_change" /\ c.sub \in {"change", "member"} ->
            Need({1, 2, 3, 4}, AddTypeRule(db, a[1], a[2], a[3], a[4], c.sub, mem))
       [] OTHER -> Result(db, FALSE)

-----------------------------------------------------------------------------
(* Copies: the database is written to a buffer of len bytes and read back.  *)

\* The named transitions, one for each source type.
Transitions(db) ==
  UNION {UNION {{<<k, i>>} \X db.ftrans[k][i].stypes : i \in DOMAIN db.ftrans[k]} :
           k \in DOMAIN db.ftrans}

\* The words of its bitmaps: the attributes of types, the types of roles, the
\* permissive types, the names in constraints.
BitmapWords(db) ==
  LET Of(k, S) == {k} \X {Word[x] : x \in S}
      Names(c, n) == LET expr == db.constraints[c][n].expr
                     IN UNION {Of(<<c, n, e>>, expr[e].names) :
                                 e \in {i \in DOMAIN expr : expr[i].kind = "names"}}
  IN Cardinality(UNION {Of(t, db.attrMap[t]) : t \in DOMAIN db.attrMap})
     + Cardinality(UNION {Of(r, db.roleTypes[r]) : r \in Roles})
     + Cardinality(Of("permissive", db.permissive))
     + Cardinality(UNION {UNION {Names(c, n) : n \in DOMAIN db.constraints[c]} : c \in Classes})

\* What policydb_write produces, for what the edits can change.
ImageSize(db) ==
  NODE_IMAGE * (Cardinality(DOMAIN db.avtab) + Cardinality(DOMAIN db.typeRules))
  + (NODE_IMAGE + XPERMS_SIZE - 4)
      * Cardinality(UNION {{k} \X db.xperms[k] : k \in DOMAIN db.xperms})
  + (ImageSizes.type + BITMAP_IMAGE) * Cardinality(db.types)
  + BITMAP_IMAGE * BitmapWords(db)
  + ImageSizes.ftrans * Cardinality(Transitions(db))

\* policydb_read adds each type to its own attributes.
Read(db) == [db EXCEPT !.attrMap = [t \in DOMAIN @ |-> @[t] \cup {t}]]

\* ksu_dup_sepolicy from 5.10 on: the buffer is as long as len claims, and the
\* copy claims the same.  The count of named transitions is written as it
\* stands, and policydb_read reads that many.
DupSepolicy(db) ==
  Result(Read(db), ImageSize(db) <= db.len /\ db.ftCount = Cardinality(Transitions(db)))

\* ksu_dup_policydb: the buffer has room for one more bitmap entry per type,
\* and the copy claims what was written.
DupPolicydb(db) ==
  Result([Read(db) EXCEPT !.len = ImageSize(db)],
         ImageSize(db) <= db.len + 12 * Cardinality(db.types))
=============================================================================
