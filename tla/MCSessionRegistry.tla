-------------------------- MODULE MCSessionRegistry --------------------------
(* Small instances of SessionRegistry for TLC.                              *)
EXTENDS SessionRegistry, TLC

CONSTANTS h1, h2,       \* installations
          s1, s2, s3,   \* sessions
          c1, c2, c3,   \* dispatch calls
          k1, k2, f1, f2

(* Every websocket belongs to the one installation of the instance.         *)
OneHome == [s \in Sessions |-> h1]

(* s3 belongs to a second installation, which shares only the lock.         *)
TwoHomes == [s \in Sessions |-> IF s = s3 THEN h2 ELSE h1]

Symmetric == Permutations(Sessions) \cup Permutations(Calls)

(* Of two command ids, and of two bodies, it does not matter which one most *)
(* of the calls carry.                                                      *)
MostAreFirst ==
  /\ Cardinality({c \in Calls : callKey[c] # <<h1, k1>>}) < 2
  /\ Cardinality({c \in Calls : callFp[c] # f1}) < 2

(* Two commands share the cache where one session is used, two sessions meet *)
(* where every call is of one command.                                      *)
OneCommandOrOneSession ==
  \/ \A c, d \in Calls : callKey[c] = callKey[d]
  \/ \E s \in Sessions : \A t \in Sessions \ {s} : pc[t] = "new"

(* A conflicting body meets one session with three calls, two with two.     *)
OneBodyOrTwoCalls ==
  \/ \A c, d \in Calls : callFp[c] = callFp[d]
  \/ \E s \in Sessions : \A t \in Sessions \ {s} : pc[t] = "new"
  \/ \E c \in Calls : callPc[c] = "idle"

(* The handler is gone, or about to be, and its websocket is not.           *)
Cancelled(s) ==
  pc[s] \in {"leaving", "removeWait", "closed", "abandoned"} /\ socket[s] = "open"

(* Around a cancelled handler one call less, and no conflicting ones.       *)
Slices ==
  /\ MostAreFirst
  /\ OneCommandOrOneSession
  /\ OneBodyOrTwoCalls
  /\ (\E s \in Sessions : Cancelled(s)) =>
       /\ \E c \in Calls : callPc[c] = "idle"
       /\ \A c, d \in Calls : callFp[c] = callFp[d]
=============================================================================
