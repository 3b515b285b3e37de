----------------------------- MODULE MCRootGrant -----------------------------
(* TLC instances of RootGrant *)
EXTENDS RootGrant, TLC

Default == [default |-> TRUE, uid |-> 0, groups |-> "root",
            effective |-> CapBits, no_new_privs |-> FALSE]
Shell == [default |-> FALSE, uid |-> 2000, groups |-> "custom",
          effective |-> {}, no_new_privs |-> FALSE]
Confined == [default |-> FALSE, uid |-> 2000, groups |-> "root",
             effective |-> {}, no_new_privs |-> TRUE]
MCProfiles == {Default, Shell, Confined}
=============================================================================
