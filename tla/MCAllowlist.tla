---------------------------- MODULE MCAllowlist ----------------------------
(* TLC instances of Allowlist *)
EXTENDS Allowlist, TLC

RootCustom == [allow_su |-> TRUE, use_default |-> FALSE, umount_modules |-> FALSE]
RootDefault == [allow_su |-> TRUE, use_default |-> TRUE, umount_modules |-> TRUE]

MCProfiles == {RootCustom, RootDefault}
Symmetry == Permutations(Readers) \cup Permutations(Writers) \cup Permutations(NodeIds)
=============================================================================
