------------------------------- MODULE Portal -------------------------------
(* Login, sessions and forms of the portal (portal_auth.py, pairing_api.py),  *)
(* for one user and one browser: the tabs of the browser share its cookies.  *)
(*                                                                         *)
(* A request carries the cookies the browser had when it was sent, and      *)
(* every commit of its handler suspends it.                                 *)
EXTENDS Clock, FiniteSets

CONSTANTS
  Requests,                      \* each is made once
  Tabs, Tenants,
  LoginWindow, MaxLoginFailures, \* portal_auth.py:28-29
  SessionLife, CsrfLife,         \* pairing_portal_session_hours, 1800 seconds
  None,
  MaxSteps                       \* bound: requests, and exchanges of AlexaLink

ASSUME PortalAssumption ==
  /\ {LoginWindow, MaxLoginFailures, SessionLife, CsrfLife, MaxSteps} \subseteq Nat
  /\ None \notin Requests \cup Tenants \cup Times

VARIABLES
  memberships, \* tenants of the user, set outside src/
  attempt,     \* PortalLoginAttempt: when the login of a request failed
  session,     \* PortalSession, by the login that created it
  cookie,      \* the browser's session cookie
  csrf,        \* the browser's CSRF cookie: the last page it was given
  tab,         \* the page each tab shows
  req,
  told,        \* history: what the user was last told is selected, by session
  overtaken,   \* history: requests during which another one selected a tenant
  claims,      \* history: the tenants of the claims, and what was told
  failedAt,    \* history: the same, cleaned up or not
  counted      \* history: logins that had counted before another one failed

attempts == <<attempt, failedAt, counted>>
selection == <<session, told, overtaken>>
portal == <<memberships, attempts, selection, cookie, csrf, tab, req, claims>>

(* A page, and the token in its form, name the tenant and the time.         *)
Pages == [tenant : Tenants \cup {None}, issued : Times, by : Requests]
Sessions == [expires : 0..(MaxTime + SessionLife), revoked : BOOLEAN,
             tenant : Tenants \cup {None}]
Forms == {"pair", "select", "claim", "api", "logout", "authorize", "link"}

New == [phase |-> "new", form |-> None, tab |-> None, cookie |-> None, csrf |-> None,
        page |-> None, choice |-> None, context |-> None]

PortalTypeOK ==
  /\ memberships \subseteq Tenants
  /\ {attempt, failedAt} \subseteq [Requests -> Times \cup {None}]
  /\ session \in [Requests -> Sessions \cup {None}]
  /\ cookie \in Requests \cup {None}
  /\ csrf \in Pages \cup {None} /\ tab \in [Tabs -> Pages \cup {None}]
  /\ req \in [Requests ->
       [phase : {"new", "counted", "created", "sent", "identified", "selected", "done"},
        form : Forms \cup {None}, tab : Tabs \cup {None}, cookie : Requests \cup {None},
        csrf : Pages \cup {None}, page : Pages \cup {None},
        choice : Tenants \cup {None}, context : Tenants \cup {None}]]
  /\ told \in [Requests -> SUBSET (Tenants \cup {None})] /\ overtaken \subseteq Requests
  /\ claims \subseteq [to : Tenants, told : SUBSET (Tenants \cup {None}),
                      overtaken : BOOLEAN]
  /\ counted \in [Requests -> SUBSET Requests]

PortalInit ==
  /\ memberships \in {{t} : t \in Tenants}
  /\ attempt = [r \in Requests |-> None] /\ failedAt = attempt
  /\ session = [r \in Requests |-> None]
  /\ cookie = None /\ csrf = None /\ tab = [t \in Tabs |-> None]
  /\ req = [r \in Requests |-> New]
  /\ told = [r \in Requests |-> {}] /\ overtaken = {} /\ claims = {}
  /\ counted = [r \in Requests |-> {}]

Made == {r \in Requests : req[r].phase # "new"}
Set(r, phase) == req' = [req EXCEPT ![r] = [New EXCEPT !.phase = phase]]

-----------------------------------------------------------------------------
(* login: the failures are counted, the password is verified, and only then *)
(* is the attempt committed.                                                *)
Failures == {q \in Requests : attempt[q] # None /\ attempt[q] + LoginWindow >= now}

Counting == {q \in Requests : req[q].phase = "counted"}

LoginCount(r) ==
  /\ req[r].phase = "new"
  /\ Set(r, IF Cardinality(Failures) >= MaxLoginFailures THEN "done" ELSE "counted")
  /\ UNCHANGED <<memberships, attempts, selection, cookie, csrf, tab, claims>>

LoginFail(r) ==
  /\ req[r].phase = "counted"
  /\ attempt' = [attempt EXCEPT ![r] = now]
  /\ failedAt' = [failedAt EXCEPT ![r] = now]
  /\ counted' = [q \in Requests |-> IF q \in Counting \ {r} THEN counted[q] \cup {r}
                                                            ELSE counted[q]]
  /\ Set(r, "done")
  /\ UNCHANGED <<memberships, selection, cookie, csrf, tab, claims>>

(* The only tenant is selected.                                             *)
OnlyTenant ==
  IF Cardinality(memberships) = 1 THEN CHOOSE t \in memberships : TRUE ELSE None

LoginCommit(r) ==
  /\ req[r].phase = "counted"
  /\ IF memberships = {}
       THEN Set(r, "done") /\ UNCHANGED <<session, told>>
       ELSE /\ session' = [session EXCEPT ![r] =
                 [expires |-> now + SessionLife, revoked |-> FALSE,
                  tenant |-> OnlyTenant]]
            /\ told' = [told EXCEPT ![r] = {OnlyTenant}]
            /\ Set(r, "created")
  /\ UNCHANGED <<memberships, attempts, overtaken, cookie, csrf, tab, claims>>

(* resolve: the tenant is dropped if the user is no longer a member of it.  *)
Valid(s) == s # None /\ session[s] # None /\ ~session[s].revoked /\ session[s].expires > now
TenantOf(s) == IF session[s].tenant \in memberships THEN session[s].tenant ELSE None
Resolved(s) == [session EXCEPT ![s].tenant = TenantOf(s)]

LoggedIn(r) ==
  /\ req[r].phase = "created"
  /\ IF Valid(r) THEN cookie' = r /\ session' = Resolved(r) ELSE UNCHANGED <<cookie, session>>
  /\ Set(r, "done")
  /\ UNCHANGED <<memberships, attempts, told, overtaken, csrf, tab, claims>>

-----------------------------------------------------------------------------
(* The browser sends a request from a tab.  The page for the tenant has the *)
(* forms to claim and to log out, the choice of a tenant the one to select.  *)
Open(r, form, t, choice) ==
  /\ req[r].phase = "new"
  /\ form \in {"select", "claim", "logout"} => tab[t] # None
  /\ form = "select" => tab[t].tenant = None
  /\ form \in {"claim", "logout"} => tab[t].tenant # None
  /\ (form \in {"select", "link"}) = (choice # None)
  /\ req' = [req EXCEPT ![r] =
       [phase |-> "sent", form |-> form, tab |-> t, cookie |-> cookie, csrf |-> csrf,
        page |-> tab[t], choice |-> choice, context |-> None]]
  /\ UNCHANGED <<memberships, attempts, selection, cookie, csrf, tab, claims>>

(* Mutant: a claim without a selected tenant is not refused.                *)
RefusedNonMember(r, s) == memberships = {} /\ req[r].form # "link"

(* A user without a tenant gets no further, and a claim needs a selected    *)
(* one.                                                                     *)
Refused(r, s) ==
  \/ memberships = {} /\ req[r].form # "link"
  \/ TenantOf(s) = None /\ req[r].form \in {"claim", "api"}

(* _identity and _tenant_context, before the handler.                       *)
Identify(r) ==
  LET s == req[r].cookie IN
  /\ req[r].phase = "sent"
  /\ IF Valid(s) THEN session' = Resolved(s) ELSE UNCHANGED session
  /\ IF Valid(s) /\ ~Refused(r, s)
       THEN req' = [req EXCEPT ![r].phase = "identified", ![r].context = TenantOf(s),
              ![r].choice = IF req[r].form = "authorize" THEN OnlyTenant ELSE @]
       ELSE Set(r, "done")
  /\ UNCHANGED <<memberships, attempts, told, overtaken, cookie, csrf, tab, claims>>

At(r, form) == req[r].phase = "identified" /\ req[r].form = form

NewPage(r) == [tenant |-> req[r].context, issued |-> now, by |-> r]

(* pair_page: a page for the tenant, or the choice of a tenant.             *)
PairPage(r) ==
  /\ At(r, "pair")
  /\ csrf' = NewPage(r) /\ tab' = [tab EXCEPT ![req[r].tab] = NewPage(r)]
  /\ Set(r, "done")
  /\ UNCHANGED <<memberships, attempts, selection, cookie, claims>>

ValidCsrf(r) ==
  /\ req[r].page = req[r].csrf
  /\ req[r].page.tenant = req[r].context
  /\ now - req[r].page.issued <= CsrfLife

(* select_tenant: the row, read when the request was identified, is written *)
(* only when the choice is not the tenant it had then, which fails when it  *)
(* has been deleted.                                                        *)
CanSelect(r) ==
  /\ req[r].choice \in memberships
  /\ session[req[r].cookie] # None \/ req[r].choice = req[r].context

Overtakes(r) == {q \in Requests \ {r} : req[q].phase = "identified"
                                        /\ req[q].cookie = req[r].cookie}

Recorded(r) ==
  /\ told' = [told EXCEPT ![req[r].cookie] =
       IF r \in overtaken THEN @ \cup {req[r].choice} ELSE {req[r].choice}]
  /\ overtaken' = (overtaken \cup Overtakes(r)) \ {r}

(* Mutant: a session that has a tenant keeps it.                            *)
SelectOnce(r) ==
  /\ session' = IF req[r].context # None \/ req[r].choice = req[r].context THEN session
                ELSE [session EXCEPT ![req[r].cookie].tenant = req[r].choice]
  /\ Recorded(r)

(* Mutant: the whole row is written, as it was read.                        *)
SelectRow(r) ==
  /\ session' = IF req[r].choice = req[r].context THEN session
                ELSE [session EXCEPT ![req[r].cookie].tenant = req[r].choice,
                                     ![req[r].cookie].revoked = FALSE]
  /\ Recorded(r)

Select(r) ==
  /\ session' = IF req[r].choice = req[r].context THEN session
                ELSE [session EXCEPT ![req[r].cookie].tenant = req[r].choice]
  /\ Recorded(r)

SelectTenant(r) ==
  /\ At(r, "select")
  /\ IF ValidCsrf(r) /\ CanSelect(r) THEN Select(r) ELSE UNCHANGED selection
  /\ Set(r, "done")
  /\ UNCHANGED <<memberships, attempts, cookie, csrf, tab, claims>>

(* PairingService.claim (module Pairing) for the tenant of the request.     *)
Claimed(r) ==
  claims' = claims \cup {[to |-> req[r].context, told |-> told[req[r].cookie],
                          overtaken |-> r \in overtaken]}

(* claim_pairing_code: the tenant is the session's, and no page is needed.  *)
ClaimByApi(r) ==
  /\ At(r, "api")
  /\ Claimed(r) \/ UNCHANGED claims
  /\ Set(r, "done")
  /\ UNCHANGED <<memberships, attempts, selection, cookie, csrf, tab>>

(* pair_submit: a claim, and data that cannot be read, are answered with a  *)
(* new page, whose token is not put in the cookie.  Another token, and a    *)
(* claim that fails, bring no page or the same page again.                  *)
PairSubmit(r) ==
  /\ At(r, "claim")
  /\ \/ /\ (ValidCsrf(r) /\ Claimed(r)) \/ UNCHANGED claims
        /\ tab' = [tab EXCEPT ![req[r].tab] = NewPage(r)]
     \/ UNCHANGED <<tab, claims>>
  /\ Set(r, "done")
  /\ UNCHANGED <<memberships, attempts, selection, cookie, csrf>>

(* logout: a session that has been deleted cannot be revoked.               *)
Logout(r) ==
  LET s == req[r].cookie IN
  /\ At(r, "logout")
  /\ IF ValidCsrf(r) /\ session[s] # None
       THEN session' = [session EXCEPT ![s].revoked = TRUE] /\ cookie' = None /\ csrf' = None
       ELSE UNCHANGED <<session, cookie, csrf>>
  /\ Set(r, "done")
  /\ UNCHANGED <<memberships, attempts, told, overtaken, tab, claims>>

(* choose_tenant of alexa_portal_oauth.py: the choice is the session's, too. *)
ChooseTenant(r) ==
  /\ At(r, "link")
  /\ IF CanSelect(r) THEN Select(r) /\ req' = [req EXCEPT ![r].phase = "selected"]
                     ELSE Set(r, "done") /\ UNCHANGED selection
  /\ UNCHANGED <<memberships, attempts, cookie, csrf, tab, claims>>

(* The code: for the only tenant (authorize), or for the one chosen.        *)
CodeFor(r) == {req[r].choice} \cap memberships

Consent(r) ==
  /\ At(r, "authorize") \/ req[r].phase = "selected"
  /\ Set(r, "done")
  /\ UNCHANGED <<memberships, attempts, selection, cookie, csrf, tab, claims>>

(* External: the user joins or leaves a tenant.                             *)
Membership(t) ==
  /\ memberships' = IF t \in memberships THEN memberships \ {t} ELSE memberships \cup {t}
  /\ UNCHANGED <<attempts, selection, cookie, csrf, tab, req, claims>>

PortalStep ==
  \E r \in Requests :
    \/ LoginFail(r) \/ LoginCommit(r) \/ LoggedIn(r) \/ Identify(r)
    \/ PairPage(r) \/ SelectTenant(r) \/ PairSubmit(r) \/ ClaimByApi(r)
    \/ Logout(r) \/ ChooseTenant(r)

(* Requests differ in nothing before they are made: any one is the next.    *)
Unmade == CHOOSE r \in Requests : req[r].phase = "new"

PortalBegin ==
  \E r \in Requests \ Made :
    /\ r = Unmade
    /\ \/ LoginCount(r)
       \/ \E f \in Forms, t \in Tabs, c \in Tenants \cup {None} : Open(r, f, t, c)

-----------------------------------------------------------------------------
(* An installation is claimed for the tenant that the user was last told is *)
(* selected: at the login, in the portal or when Alexa was linked, in       *)
(* whatever tab, and whichever way it is claimed.  The one exception is a    *)
(* claim during which another request of the session selected               *)
(* (pairing_api.py:89-97, 161-168, 511-536, portal_auth.py:143-152).        *)
ClaimedForSelected == \A c \in claims : c.overtaken \/ c.to \in c.told

(* More failures than the limit are in one window only when some of them    *)
(* were counted before another one was committed (portal_auth.py:58-90): a  *)
(* cleanup gives no attempts back.                                          *)
LoginsLimited ==
  LET Near(r) == {q \in Requests : failedAt[q] # None /\ failedAt[q] <= failedAt[r]
                                   /\ failedAt[q] + LoginWindow >= failedAt[r]} IN
  \A r \in Requests : failedAt[r] # None /\ Cardinality(Near(r)) > MaxLoginFailures =>
    \E p, q \in Near(r) : p \in counted[q]

(* Only a login makes a session valid: none that was logged out, or has      *)
(* ended, is revived by a request of another tab that was identified before  *)
(* (portal_auth.py:114-147, 166-168).                                        *)
SessionsEnd ==
  [][\A s \in Requests : Valid(s)' => Valid(s) \/ req[s].phase = "counted"]_<<now, portal>>
=============================================================================
