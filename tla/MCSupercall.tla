----------------------------- MODULE MCSupercall -----------------------------
(* Two mounts, one with a path beyond DEL's cap, and a longer spelling of  *)
(* it that ADD cuts to the same entry.                                     *)
EXTENDS Supercall

MCPaths == {[stem |-> "a", len |-> 1], [stem |-> "b", len |-> 4], [stem |-> "b", len |-> 5]}
=============================================================================
