--------------------------- MODULE MCCommandPath ---------------------------
(* Small instances of CommandPath for TLC.                                  *)
EXTENDS CommandPath, TLC

CONSTANTS q1, q2, q3, d1

(* A directive with a UUID delivered twice, and a command of the console.   *)
Twice == (q1 :> d1) @@ (q2 :> d1) @@ (q3 :> NoDirective)

(* The two deliveries are alike.                                            *)
Deliveries == Permutations({q1, q2})
=============================================================================
