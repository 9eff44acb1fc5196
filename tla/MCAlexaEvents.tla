--------------------------- MODULE MCAlexaEvents ---------------------------
(* Two entities that may take each other's name, two handlers.              *)
EXTENDS AlexaEvents, TLC

Symmetry == Permutations(Workers) \cup Permutations(Endpoints) \cup Permutations(Names)
=============================================================================
