------------------------------ MODULE MCThrone ------------------------------
(* TLC instance of Throne *)
EXTENDS Throne

\* The default profile: uid 9999, key "$"
MCPreserved == {[user |-> 0, appid |-> 9999, key |-> "$"]}
=============================================================================
