----------------------------- MODULE AlexaLink -----------------------------
(* The account link of Alexa (alexa.py:88-264): authorization codes, the     *)
(* exchange of a code or of a refresh token for a pair of tokens, and the   *)
(* revocation of a pair.  A link is active from its first code on: nothing  *)
(* ends it.                                                                 *)
EXTENDS Clock

CONSTANTS
  Codes,          \* one for each consent that may be given
  Exchanges,      \* requests of POST /oauth/token; each names the pair it makes
  CodeLife,
  Absent

Grants == [expires : 0..(MaxTime + CodeLife), used : BOOLEAN]
Pairs  == [revoked : BOOLEAN, code : Codes]

ASSUME LinkAssumption ==
  /\ CodeLife \in Nat
  /\ Codes \cap Exchanges = {} /\ Absent \notin Codes \cup Exchanges
  /\ Absent \notin Grants \cup Pairs

VARIABLES
  code,      \* AlexaOAuthGrant
  token,     \* AlexaOAuthToken: a pair; that its access token expires is left out
  exchange,  \* where each exchange is, and the credential it was given
  raced      \* history: codes with a credential that two exchanges held

link == <<code, token, exchange, raced>>

Credentials == Codes \cup Exchanges

LinkTypeOK ==
  /\ code \in [Codes -> Grants \cup {Absent}]
  /\ token \in [Exchanges -> Pairs \cup {Absent}]
  /\ exchange \in [Exchanges -> [phase : {"new", "read", "done"},
                                 given : Credentials \cup {Absent}]]
  /\ raced \subseteq Codes

LinkInit ==
  /\ code = [c \in Codes |-> Absent]
  /\ token = [x \in Exchanges |-> Absent]
  /\ exchange = [x \in Exchanges |-> [phase |-> "new", given |-> Absent]]
  /\ raced = {}

-----------------------------------------------------------------------------
Issue(c) ==
  /\ code[c] = Absent
  /\ code' = [code EXCEPT ![c] = [expires |-> now + CodeLife, used |-> FALSE]]
  /\ UNCHANGED <<token, exchange, raced>>

(* The code a credential descends from.                                     *)
Root(c) == IF c \in Codes THEN c ELSE token[c].code

Usable(c) ==
  IF c \in Codes THEN ~code[c].used /\ code[c].expires > now ELSE ~token[c].revoked

Done == [phase |-> "done", given |-> Absent]

(* A refresh token does not expire; no row is locked.                       *)
Exchange(x, c) ==
  /\ exchange[x].phase = "new"
  /\ c \in Codes => code[c] # Absent
  /\ c \in Exchanges => token[c] # Absent
  /\ exchange' = [exchange EXCEPT ![x] =
       IF Usable(c) THEN [phase |-> "read", given |-> c] ELSE Done]
  /\ raced' = IF Usable(c) /\ \E y \in Exchanges :
                   exchange[y].phase = "read" /\ exchange[y].given = c
                THEN raced \cup {Root(c)} ELSE raced
  /\ UNCHANGED <<code, token>>

(* Mutant: a refresh token is not rotated.                                  *)
Kept(c) == token

(* A refresh token that was used is revoked, with its access token.         *)
Rotated(c) == IF c \in Exchanges THEN [token EXCEPT ![c].revoked = TRUE] ELSE token

Mint(x) ==
  LET c    == exchange[x].given
      pair == [revoked |-> FALSE, code |-> Root(c)]
  IN
  /\ exchange[x].phase = "read"
  /\ code' = IF c \in Codes THEN [code EXCEPT ![c].used = TRUE] ELSE code
  /\ token' = [Rotated(c) EXCEPT ![x] = pair]
  /\ exchange' = [exchange EXCEPT ![x] = Done]
  /\ UNCHANGED raced

Revoke(y) ==
  /\ token[y] # Absent /\ ~token[y].revoked
  /\ token' = [token EXCEPT ![y].revoked = TRUE]
  /\ UNCHANGED <<code, exchange, raced>>

LinkStep ==
  \E x \in Exchanges : Mint(x) \/ Revoke(x)

-----------------------------------------------------------------------------
(* "Authorization codes are one-use" and "refresh tokens rotate on every    *)
(* use" (docs/ALEXA_SMART_HOME.md:13-14): of all the pairs that descend     *)
(* from one consent, however often they were refreshed, one at most can     *)
(* still be used, unless two exchanges held the same credential at once.    *)
OneLivePair ==
  \A x, y \in Exchanges :
    /\ token[x] # Absent /\ ~token[x].revoked
    /\ token[y] # Absent /\ ~token[y].revoked
    /\ token[x].code = token[y].code
    => x = y \/ token[x].code \in raced
=============================================================================
