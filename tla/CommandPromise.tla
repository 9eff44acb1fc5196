--------------------------- MODULE CommandPromise ---------------------------
(***************************************************************************)
(* What the path of a command promises to who asked for it, whatever       *)
(* happens in between: an answer is given once per delivery, success is    *)
(* answered only for an action that returned, and a command is carried out *)
(* again only after both the cloud and the Connector forgot it.            *)
(***************************************************************************)
EXTENDS Naturals

CONSTANTS
  Requests, Ids,
  Serving(_)        \* the commands that carry out what a request asks

VARIABLES
  acts,             \* how often the action of a command was called
  done,             \* the commands whose action returned
  told,             \* the answers
  cloudLost, connectorLost  \* how often each end forgot a command

vars == <<acts, done, told, cloudLost, connectorLost>>

Init ==
  /\ acts = [c \in Ids |-> 0] /\ done = {}
  /\ told = [r \in Requests |-> "nothing"]
  /\ cloudLost = [c \in Ids |-> 0] /\ connectorLost = [c \in Ids |-> 0]

Forgets(lost) ==
  /\ lost' \in [Ids -> Nat]
  /\ \A c \in Ids : lost'[c] >= lost[c]

Act(c) ==
  /\ acts[c] <= cloudLost[c] /\ acts[c] <= connectorLost[c]
  /\ acts' = [acts EXCEPT ![c] = @ + 1]
  /\ UNCHANGED <<done, told, cloudLost, connectorLost>>

Return(c) ==
  /\ acts[c] > 0
  /\ done' = done \cup {c}
  /\ Forgets(connectorLost)
  /\ UNCHANGED <<acts, told, cloudLost>>

Tell(r, answer) ==
  /\ told[r] = "nothing"
  /\ answer = "success" => Serving(r) \cap done # {}
  /\ told' = [told EXCEPT ![r] = answer]
  /\ UNCHANGED <<acts, done, cloudLost, connectorLost>>

(* A crash of the cloud is an error for everyone who waits.                 *)
CloudForgets ==
  /\ Forgets(cloudLost)
  /\ \E waiting \in SUBSET {r \in Requests : told[r] = "nothing"} :
       told' = [r \in Requests |-> IF r \in waiting THEN "error" ELSE told[r]]
  /\ UNCHANGED <<acts, done, connectorLost>>

ConnectorForgets ==
  /\ Forgets(connectorLost)
  /\ UNCHANGED <<acts, done, told, cloudLost>>

Next ==
  \/ \E c \in Ids : Act(c) \/ Return(c)
  \/ \E r \in Requests : Tell(r, "success") \/ Tell(r, "error")
  \/ CloudForgets \/ ConnectorForgets

Spec == Init /\ [][Next]_vars
=============================================================================
