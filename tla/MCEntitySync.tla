---------------------------- MODULE MCEntitySync ----------------------------
(* Small instances of EntitySync for TLC.                                   *)
EXTENDS EntitySync, TLC

Symmetric == Permutations(Entities) \cup Permutations(Values) \cup Permutations(Sessions)
=============================================================================
