----------------------------- MODULE MCPairing -----------------------------
(* Small instances of Pairing for TLC.                                      *)
EXTENDS Pairing, TLC

CONSTANTS n1

(* Every session is created with one nonce.                                 *)
SameNonce == [p \in Pairings |-> n1]

(* Every flow of the Connector draws a nonce of its own.                    *)
FreshNonces == [p \in Pairings |-> p]

Symmetric ==
  Permutations(Pairings) \cup Permutations(Claims) \cup Permutations(Polls)

(* Credentials are rotated where one session was claimed by one poll; claims *)
(* and polls race where none is.                                            *)
RotatedOrRaced ==
  \/ \A r \in Rotations : at[r] = "idle"
  \/ /\ \E p \in Pairings : \A o \in Pairings \ {p} : at[o] = "idle"
     /\ \E c \in Claims : \A o \in Claims \ {c} : at[o] = "idle"
     /\ \E q \in Polls : \A o \in Polls \ {q} : at[o] = "idle"
=============================================================================
