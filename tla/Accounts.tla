------------------------------ MODULE Accounts ------------------------------
(* The portal, the account link of Alexa and the retention cleanup over one  *)
(* clock and one database: a consent in the portal issues the code the link *)
(* begins with, and the cleanup deletes what the portal counts and checks.  *)
EXTENDS Portal, AlexaLink, Maintenance

CONSTANT AttemptRetention    \* portal_login_attempt_retention_days

(* config.py:37: at least a day, which is longer than the login window.     *)
ASSUME RetentionAssumption ==
  /\ AttemptRetention \in Nat /\ AttemptRetention >= Day /\ Day > LoginWindow
  /\ Codes = Requests

vars == <<now, portal, link, maintenance>>

TypeOK == now \in Times /\ PortalTypeOK /\ LinkTypeOK /\ MaintenanceTypeOK

Init == now = 0 /\ PortalInit /\ LinkInit /\ MaintenanceInit

-----------------------------------------------------------------------------
(* _issue_code                                                              *)
GiveCode(r) ==
  /\ Consent(r)
  /\ IF CodeFor(r) # {} THEN Issue(r) ELSE UNCHANGED link
  /\ UNCHANGED <<now, maintenance>>

(* Mutant: what is old is what is older than the run.                       *)
OlderThanRun(p) == {r \in Requests : attempt[r] # None /\ attempt[r] < since[p]}

OldAttempts(p) ==
  {r \in Requests : attempt[r] # None /\ attempt[r] + AttemptRetention < since[p]}

OldSessions(p) == {r \in Requests : session[r] # None /\ session[r].expires < since[p]}

(* cleanup_expired, in one transaction; history, events and audits are not  *)
(* read by what is modelled.                                                *)
Clean(p) ==
  /\ Finish(p) /\ UNCHANGED failures
  /\ attempt' = [r \in Requests |-> IF r \in OldAttempts(p) THEN None ELSE attempt[r]]
  /\ session' = [r \in Requests |-> IF r \in OldSessions(p) THEN None ELSE session[r]]
  /\ UNCHANGED <<now, memberships, failedAt, counted, told, overtaken, cookie, csrf, tab,
                 req, claims, link>>

Tick ==
  /\ Pass /\ MaintenancePass
  /\ UNCHANGED <<portal, link>>

Working == {x \in Exchanges : exchange[x].phase # "new"}
Unused == CHOOSE x \in Exchanges : exchange[x].phase = "new"
MayBegin == Cardinality(Made) + Cardinality(Working) < MaxSteps

Next ==
  \/ /\ PortalStep \/ (MayBegin /\ PortalBegin) \/ \E t \in Tenants : Membership(t)
     /\ UNCHANGED <<now, link, maintenance>>
  \/ \E r \in Requests : GiveCode(r)
  \/ /\ \/ LinkStep
        \/ /\ MayBegin
           /\ \E x \in Exchanges \ Working, c \in Credentials : x = Unused /\ Exchange(x, c)
     /\ UNCHANGED <<now, portal, maintenance>>
  \/ MaintenanceStep /\ UNCHANGED <<now, portal, link>>
  \/ \E p \in Processes : Clean(p)
  \/ Tick

Spec == Init /\ [][Next]_vars
=============================================================================
