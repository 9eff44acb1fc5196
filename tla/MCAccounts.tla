----------------------------- MODULE MCAccounts -----------------------------
(* Five steps of a user and of Alexa, over little more than a day.          *)
EXTENDS Accounts, TLC

Symmetry == Permutations(Tabs) \cup Permutations(Tenants)

(* Errors, restarts and manual cleanups happen without users; the daily     *)
(* cleanup meets three logins of which one succeeds, and whatever takes two *)
(* steps; longer sequences of forms, and of exchanges, end before the first *)
(* cleanup.                                                                 *)
NoFailure == failures = 0 /\ operator = "idle"
BeforeCleanup == latest = Never /\ NoFailure /\ now < 2
InFlight == {r \in Made : req[r].phase # "done"}
FormsInFlight == {req[r].form : r \in InFlight}
Logins == {r \in Requests : session[r] # None}

Cleanups == Made = {} /\ Cardinality(memberships) = 1

ThreeLogins ==
  /\ Working = {} /\ Cardinality(Made) < 4 /\ \A r \in Requests : req[r].form = None
  /\ Cardinality(memberships) = 1 /\ Cardinality(Logins) < 2 /\ NoFailure
  /\ csrf = None /\ claims = {} /\ \A r \in Codes : code[r] = Absent

TwoSteps ==
  /\ \/ Cardinality(Made) + Cardinality(Working) < 3
     \/ Cardinality(Made) = 3 /\ Working = {} /\ FormsInFlight = {"logout"}
  /\ NoFailure /\ memberships # {}
  /\ now < 4 \/ FormsInFlight \in {{"logout"}, {"link"}}

FourForms ==
  /\ BeforeCleanup /\ Working = {} /\ Cardinality(Made) < 5 /\ memberships # {}
  /\ Cardinality(Made) < 3 \/ Cardinality(Logins) < 2
  /\ \/ Cardinality(Made) < 4
     \/ /\ now < 1 /\ Cardinality(memberships) = 2
        /\ Cardinality(InFlight) < 2 \/ FormsInFlight = {"link", "logout"}

ThreeExchanges == BeforeCleanup /\ Cardinality(Made) < 3

Slices ==
  Cleanups \/ ThreeLogins \/ TwoSteps \/ FourForms \/ ThreeExchanges
=============================================================================
