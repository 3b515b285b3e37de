--------------------------- MODULE MCAllowlistFile ---------------------------
(* TLC instances of AllowlistFile *)
EXTENDS AllowlistFile

Denied == [allow_su |-> FALSE, domain |-> "ksu", no_new_privs |-> FALSE]
Root(d, f) == [allow_su |-> TRUE, domain |-> d, no_new_privs |-> f]

\* A denied app; root as managers of version 2 and 4 give it
MCGiven == {<<4, Denied>>, <<2, Root("su", FALSE)>>, <<4, Root("ksu", FALSE)>>}

File(v, es) == [magic |-> TRUE, version |-> v, entries |-> es]
u1 == CHOOSE u \in AppUids : TRUE
MCFirstFiles == {NoFile} \cup
  {File(v, <<[uid |-> u1, profile |-> Root("su", FALSE)]>>) : v \in {1, 2, 3}}
=============================================================================
