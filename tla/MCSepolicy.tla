----------------------------- MODULE MCSepolicy -----------------------------
(* Instance of Sepolicy: two attributes, a file type without attributes, a  *)
(* domain, a domain bounded by it; two classes with two permissions.        *)
EXTENDS Sepolicy, TLC

MCBits == {"r", "w"}
MCClasses == {"file", "process"}
MCClassPerms == [file |-> {"r", "w"}, process |-> {"w"}]
MCRoles == {"r", "object_r"}
MCWord == [domain |-> 0, mlstrustedsubject |-> 0, app |-> 1, kid |-> 1, data |-> 0, ksu |-> 2,
           new |-> 2, newattr |-> 3]
MCImageSizes == [type |-> 6, ftrans |-> 20]

S0 == [s |-> 0, c |-> {}]
S1 == [s |-> 1, c |-> {1}]
Context(role, type, low, high) == [user |-> "u", role |-> role, type |-> type, range |-> <<low, high>>]

App == Context("r", "app", S0, S0)
Kid == Context("r", "kid", S0, S1)
Ksu == Context("r", "ksu", S0, S0)
Data == Context("object_r", "data", S1, S1)
NewObject == Context("object_r", "new", S0, S0)
NewDomain == Context("r", "new", S0, S0)

MCTexts == {App, Kid, Ksu, Data, NewObject, NewDomain, Context("r", "domain", S0, S0)}
MCAccesses == {<<App, Data, "file">>, <<Ksu, NewObject, "file">>}
MCIsids == <<App>>

\* Postfix of a conjunction of disjunctions, clauses first.
Attr(attr, op) == [kind |-> "attr", attr |-> attr, op |-> op]
Names(attrs, types, target, op) ==
  [kind |-> "names", attr |-> "type", op |-> op, target |-> target,
   typeNames |-> attrs, names |-> types]
Op(kind) == [kind |-> kind]

Trusted(op) == Names({"mlstrustedsubject"}, {}, FALSE, op)
Domains(op) == Names({"domain"}, {"app", "kid"}, TRUE, op)

\* The constraints of the class file.
Mls == [perms |-> {"w"}, cnf |-> {{Attr("l1l2", "dom"), Trusted("eq")}},
        expr |-> <<Attr("l1l2", "dom"), Trusted("eq"), Op("or")>>]
Two == [perms |-> {"r", "w"},
        cnf |-> {{Attr("role", "neq"), Attr("h1h2", "incomp")}, {Domains("neq"), Attr("type", "eq")}},
        expr |-> <<Attr("role", "neq"), Attr("h1h2", "incomp"), Op("or"),
                   Domains("eq"), Op("not"), Attr("type", "eq"), Op("or"), Op("and")>>]

Tables0(constraints) ==
  [types |-> {"domain", "mlstrustedsubject", "app", "kid", "data"},
   attributes |-> {"domain", "mlstrustedsubject"},
   slots |-> {"domain", "mlstrustedsubject", "app", "kid", "data"},
   attrMap |-> [domain |-> {"domain"}, mlstrustedsubject |-> {"mlstrustedsubject"},
                app |-> {"app", "domain"}, kid |-> {"kid", "domain"}, data |-> {"data"}],
   roleTypes |-> [r \in MCRoles |-> {"app", "kid"}],
   bounds |-> [domain |-> "none", mlstrustedsubject |-> "none", app |-> "none",
               kid |-> "app", data |-> "none"],
   avtab |-> (<<"domain", "data", "file", "allowed">> :> {"r", "w"}
              @@ <<"kid", "app", "process", "allowed">> :> {"w"}
              @@ <<"app", "domain", "process", "allowed">> :> {"w"}
              @@ <<"app", "data", "file", "auditdeny">> :> {"w"}),
   xperms |-> <<>>, typeRules |-> <<>>, ftrans |-> <<>>, ftCount |-> 0, ftTtypes |-> {},
   permissive |-> {"kid"},
   constraints |-> [file |-> constraints, process |-> <<>>],
   dominates |-> [r \in MCRoles |-> {r}], roleAllow |-> {}, allowUnknown |-> TRUE,
   len |-> 0, torn |-> FALSE, freed |-> FALSE, wild |-> FALSE]

\* What len leaves over the image: little room or much.
Stock(constraints, spare) ==
  LET p == Tables0(constraints) IN [p EXCEPT !.len = ImageSize(p) + spare]

MCStockPolicies == {Stock(<<Mls>>, 155), Stock(<<Two>>, 400)}

Cmd(cmd, sub, args) == [cmd |-> cmd, sub |-> sub, args |-> args]
Perm(sub, s, t, c, p) == Cmd("normal_perm", sub, <<s, t, c, p>>)
Malformed == Cmd("type", "none", <<"new">>)
MCIoctlRanges ==
  [few |-> [low |-> <<0, 1>>, high |-> <<0, 3>>],
   one |-> [low |-> <<0, 7>>, high |-> <<0, 7>>],
   wide |-> [low |-> <<0, 1>>, high |-> <<1, 3>>]]

MCBatches ==
  {<<Perm("allow", ALL, ALL, "file", "w")>>,
   <<Perm("allow", "app", "data", "process", "w"), Malformed>>,
   <<Perm("allow", "app", "data", ALL, ALL)>>,
   <<Perm("deny", ALL, "data", "file", "w")>>,
   <<Perm("deny", "domain", "data", ALL, ALL)>>,
   <<Perm("auditallow", "domain", "data", "file", "r"), Perm("allow", "app", "nosuch", "file", "r")>>,
   <<Perm("dontaudit", ALL, "data", "file", "r")>>,
   <<Perm("dontaudit", "kid", ALL, ALL, ALL)>>,
   <<Perm("allow", ALL, "data", ALL, "r"), Perm("nosuch", "app", "app", "file", "r")>>,
   <<Cmd("type", "none", <<"new", "domain">>), Perm("allow", "new", ALL, ALL, ALL)>>,
   <<Cmd("attr", "none", <<"newattr">>), Cmd("type_attr", "none", <<"app", "newattr">>)>>,
   <<Cmd("type_attr", "none", <<"app", "mlstrustedsubject">>)>>,
   <<Cmd("type", "none", <<"data", "domain">>), Cmd("type_attr", "none", <<"domain", "data">>)>>,
   <<Cmd("type_state", "permissive", <<ALL>>), Cmd("type_state", "enforce", <<"kid">>)>>,
   <<Cmd("xperm", "allow", <<"app", "data", "file", "ioctl", "few">>),
     Cmd("xperm", "allow", <<"app", "data", "file", "ioctl", "one">>),
     Cmd("xperm", "auditallow", <<ALL, "data", ALL, "ioctl", "wide">>)>>,
   <<Cmd("type_transition", "none", <<"app", "data", "file", "kid", "name">>),
     Cmd("type_transition", "none", <<"kid", "data", "file", "kid", "name">>)>>,
   <<Cmd("type_transition", "none", <<"kid", "data", "file", "app", "name">>)>>,
   <<Cmd("type_transition", "none", <<"app", "data", "process", "kid", ALL>>),
     Cmd("type_change", "member", <<"app", "data", "file", "data">>)>>,
   <<Cmd("genfscon", "none", <<"fs", "path", "context">>)>>}
=============================================================================
