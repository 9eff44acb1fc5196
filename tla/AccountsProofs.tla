---------------------------- MODULE AccountsProofs ----------------------------
(* Proofs about Accounts, for every set of requests, tabs, tenants and       *)
(* exchanges and every length of the times involved.                        *)
EXTENDS Accounts, FiniteSetTheorems, TLAPS

-----------------------------------------------------------------------------
(* The account link                                                         *)

Issued(c) == IF c \in Codes THEN code[c] # Absent ELSE token[c] # Absent

Live(c) ==
  IF c \in Codes THEN code[c] # Absent /\ ~code[c].used
                 ELSE token[c] # Absent /\ ~token[c].revoked

Holding(x) == exchange[x].phase = "read"
Given(x) == exchange[x].given

(* An exchange makes its pair at its end, and a pair descends from a code.  *)
Lineage ==
  /\ \A x \in Exchanges : exchange[x].phase # "done" => token[x] = Absent
  /\ \A x \in Exchanges : token[x] # Absent => code[token[x].code] # Absent
  /\ \A x \in Exchanges : Holding(x) => Given(x) \in Credentials /\ Issued(Given(x))

(* Of a code without a race one credential is live, one exchange holds one, *)
(* and then no other is live.                                               *)
OneLive ==
  \A c, d \in Credentials :
    Live(c) /\ Live(d) /\ Root(c) = Root(d) => c = d \/ Root(c) \in raced

OneHolder ==
  \A x, y \in Exchanges :
    Holding(x) /\ Holding(y) /\ Root(Given(x)) = Root(Given(y))
      => x = y \/ Root(Given(x)) \in raced

HeldIsLast ==
  \A x \in Exchanges, c \in Credentials :
    Holding(x) /\ Live(c) /\ Root(c) = Root(Given(x))
      => c = Given(x) \/ Root(c) \in raced

LinkInv == LinkTypeOK /\ Lineage /\ OneLive /\ OneHolder /\ HeldIsLast

LEMMA Spent ==
  /\ \A c \in Codes : code \in [Codes -> Grants \cup {Absent}] /\ code[c] # Absent =>
       [code[c] EXCEPT !.used = TRUE] \in Grants
  /\ \A c \in Exchanges : token \in [Exchanges -> Pairs \cup {Absent}] /\ token[c] # Absent =>
       [token[c] EXCEPT !.revoked = TRUE] \in Pairs
  <1>1. \A g \in Grants : [g EXCEPT !.used = TRUE] \in Grants  BY DEF Grants
  <1>2. \A p \in Pairs : [p EXCEPT !.revoked = TRUE] \in Pairs  BY DEF Pairs
  <1>. QED  BY <1>1, <1>2

(* The steps of the link.                                                   *)
LinkNext ==
  \/ \E c \in Codes : Issue(c)
  \/ \E x \in Exchanges, c \in Credentials : Exchange(x, c)
  \/ \E x \in Exchanges : Mint(x) \/ Revoke(x)

LEMMA LinkTypes ==
  ASSUME now \in Times, LinkTypeOK, Lineage, LinkNext
  PROVE  LinkTypeOK'
  <1> USE LinkAssumption DEF LinkTypeOK, Lineage, Holding, Given, Credentials
  <1>1. CASE \E c \in Codes : Issue(c)
    <2>1. PICK c \in Codes : Issue(c)  BY <1>1
    <2>2. [expires |-> now + CodeLife, used |-> FALSE] \in Grants
      BY ClockAssumption DEF Times, Grants
    <2>. QED  BY <2>1, <2>2 DEF Issue
  <1>2. CASE \E x \in Exchanges, c \in Credentials : Exchange(x, c)
    <2>1. PICK x \in Exchanges, c \in Credentials : Exchange(x, c)  BY <1>2
    <2>2. Root(c) \in Codes  BY <2>1 DEF Root, Exchange, Pairs
    <2>. QED  BY <2>1, <2>2 DEF Exchange, Done
  <1>3. ASSUME NEW x \in Exchanges, Mint(x) \/ Revoke(x)
        PROVE  LinkTypeOK'
    <2>2. CASE Mint(x)
      <3> DEFINE c == exchange[x].given
      <3>1. c \in Credentials /\ (c \in Codes => code[c] # Absent) /\ (c \in Exchanges => token[c] # Absent)
        BY <2>2 DEF Mint, Issued
      <3>2. Root(c) \in Codes  BY <3>1 DEF Root, Pairs
      <3>3. code' \in [Codes -> Grants \cup {Absent}]  BY <2>2, <3>1, Spent DEF Mint
      <3>4. Rotated(c) \in [Exchanges -> Pairs \cup {Absent}]  BY <3>1, Spent DEF Rotated
      <3>5. [revoked |-> FALSE, code |-> Root(c)] \in Pairs  BY <3>2 DEF Pairs
      <3>6. token' \in [Exchanges -> Pairs \cup {Absent}]  BY <2>2, <3>4, <3>5 DEF Mint
      <3>. QED  BY <2>2, <3>3, <3>6 DEF Mint, Done
    <2>3. CASE Revoke(x)  BY <2>3, Spent DEF Revoke
    <2>. QED  BY <1>3, <2>2, <2>3
  <1>. QED  BY <1>1, <1>2, <1>3 DEF LinkNext

(* The effects of an exchange on what the invariant speaks of.              *)
LEMMA Minted ==
  ASSUME LinkTypeOK, Lineage, NEW x \in Exchanges, Mint(x)
  PROVE  /\ Holding(x) /\ ~Holding(x)' /\ Given(x) \in Credentials /\ Issued(Given(x))
         /\ x \notin Codes /\ Given(x) # x
         /\ Root(x)' = Root(Given(x)) /\ Issued(x)' /\ Root(Given(x)) \in Codes
         /\ \A c \in Credentials \ {x} :
              /\ Live(c)' => Live(c) /\ c # Given(x)
              /\ Issued(c) <=> Issued(c)'
              /\ Issued(c) => Root(c)' = Root(c)
         /\ \A y \in Exchanges \ {x} : exchange'[y] = exchange[y]
         /\ exchange'[x].phase = "done"
         /\ raced' = raced
  <1> USE LinkAssumption DEF LinkTypeOK, Lineage, Holding, Given, Credentials
  <1>0. PICK g : g = exchange[x].given  OBVIOUS
  <1>1. g \in Credentials /\ Issued(g) /\ exchange[x].phase = "read" /\ token[x] = Absent
    BY <1>0 DEF Mint
  <1>2. x \notin Codes /\ g # x  BY <1>1 DEF Issued
  <1>3. Root(g) \in Codes  BY <1>1 DEF Root, Issued, Pairs
  <1>4. exchange'[x] = Done /\ \A y \in Exchanges \ {x} : exchange'[y] = exchange[y]
    BY DEF Mint
  <1>5. raced' = raced  BY DEF Mint
  <1>6. token'[x] = [revoked |-> FALSE, code |-> Root(g)]
    BY <1>0, <1>2 DEF Mint, Rotated
  <1>7. [revoked |-> FALSE, code |-> Root(g)] \in Pairs  BY <1>3 DEF Pairs
  <1>8. token'[x] # Absent /\ token'[x].code = Root(g)
    <2>1. token'[x] \in Pairs  BY <1>6, <1>7
    <2>2. token'[x] # Absent  BY <2>1, LinkAssumption
    <2>3. token'[x].code = Root(g)  BY <1>6
    <2>. QED  BY <2>2, <2>3
  <1>9. ASSUME NEW c \in Codes
        PROVE  /\ code'[c] = IF c = g THEN [code[c] EXCEPT !.used = TRUE] ELSE code[c]
               /\ code[c] # Absent <=> code'[c] # Absent
    <2>1. code'[c] = IF c = g THEN [code[c] EXCEPT !.used = TRUE] ELSE code[c]
      BY <1>0 DEF Mint
    <2>. QED  BY <2>1, <1>1, Spent DEF Issued
  <1>10. ASSUME NEW c \in Exchanges \ {x}
         PROVE  /\ token'[c] = IF c = g THEN [token[c] EXCEPT !.revoked = TRUE] ELSE token[c]
                /\ token[c] # Absent <=> token'[c] # Absent
                /\ token[c] # Absent => token'[c].code = token[c].code
    <2>1. token'[c] = IF c = g THEN [token[c] EXCEPT !.revoked = TRUE] ELSE token[c]
      BY <1>0, <1>2 DEF Mint, Rotated
    <2>2. token[c] # Absent => [token[c] EXCEPT !.revoked = TRUE].code = token[c].code  BY DEF Pairs
    <2>. QED  BY <2>1, <2>2, <1>1, Spent DEF Issued
  <1>11. ~Live(g)'
    <2>1. CASE g \in Codes
      <3>1. code[g] \in Grants  BY <1>1, <2>1 DEF Issued
      <3>2. [code[g] EXCEPT !.used = TRUE].used = TRUE  BY <3>1 DEF Grants
      <3>. QED  BY <3>2, <1>9, <2>1 DEF Live
    <2>2. CASE g \notin Codes
      <3>1. g \in Exchanges \ {x} /\ token[g] \in Pairs  BY <1>1, <1>2, <2>2 DEF Issued
      <3>2. [token[g] EXCEPT !.revoked = TRUE].revoked = TRUE  BY <3>1 DEF Pairs
      <3>. QED  BY <3>1, <3>2, <1>10, <2>2 DEF Live
    <2>. QED  BY <2>1, <2>2
  <1>12. ASSUME NEW c \in Credentials \ {x}
         PROVE  /\ Live(c)' => Live(c) /\ c # g
                /\ Issued(c) <=> Issued(c)'
                /\ Issued(c) => Root(c)' = Root(c)
    <2>1. CASE c \in Codes
      <3>1. c # g => code'[c] = code[c]  BY <1>9, <2>1
      <3>. QED  BY <3>1, <1>9, <1>11, <2>1 DEF Live, Issued, Root
    <2>2. CASE c \notin Codes
      <3>1. c # g => token'[c] = token[c]  BY <1>10, <2>2
      <3>. QED  BY <3>1, <1>10, <1>11, <2>2 DEF Live, Issued, Root
    <2>. QED  BY <2>1, <2>2
  <1>13. Root(x)' = Root(g) /\ Issued(x)'  BY <1>2, <1>8 DEF Root, Issued
  <1>. QED  BY <1>0, <1>1, <1>2, <1>3, <1>4, <1>5, <1>12, <1>13 DEF Done

LEMMA LinkSafe ==
  ASSUME now \in Times, LinkInv, LinkNext
  PROVE  LinkInv'
  <1> USE LinkAssumption DEF LinkTypeOK, Lineage, Holding, Given, Credentials
  <1>1. LinkTypeOK'  BY LinkTypes DEF LinkInv
  <1>2. ASSUME NEW c \in Codes, Issue(c)
        PROVE  LinkInv'
    <2>1. code[c] = Absent /\ UNCHANGED <<token, exchange, raced>>
      BY <1>2 DEF Issue
    <2>2. \A d \in Codes \ {c} : code'[d] = code[d]  BY <1>2 DEF LinkInv, Issue
    <2>3. \A d \in Credentials : Issued(d) => d # c /\ Root(d) # c /\ Root(d)' = Root(d)
      BY <2>1 DEF LinkInv, Issued, Root
    <2>4. \A d \in Credentials : Issued(d) => Issued(d)'
      BY <2>1, <2>2 DEF Issued
    <2>5. \A d \in Credentials : Live(d)' => d = c \/ (Live(d) /\ Issued(d))
      BY <2>1, <2>2 DEF Live, Issued
    <2>6. Root(c)' = c  BY DEF Root
    <2>7. Lineage'  BY <2>1, <2>2, <2>3, <2>4 DEF LinkInv, Issued, Pairs
    <2>8. OneLive'  BY <2>1, <2>3, <2>5, <2>6 DEF LinkInv, OneLive
    <2>9. OneHolder'  BY <2>1, <2>3 DEF LinkInv, OneHolder
    <2>10. HeldIsLast'  BY <2>1, <2>3, <2>5, <2>6 DEF LinkInv, HeldIsLast
    <2>. QED  BY <1>1, <2>7, <2>8, <2>9, <2>10 DEF LinkInv
  <1>3. ASSUME NEW x \in Exchanges, NEW c \in Credentials, Exchange(x, c)
        PROVE  LinkInv'
    <2>1. UNCHANGED <<code, token>> /\ Issued(c) /\ raced \subseteq raced' /\ ~Holding(x)
      BY <1>3 DEF LinkInv, Exchange, Issued
    <2>2. \A y \in Exchanges \ {x} : exchange'[y] = exchange[y]
      BY <1>3 DEF LinkInv, Exchange
    <2>3. \A d \in Credentials :
             (Live(d)' <=> Live(d)) /\ (Issued(d)' <=> Issued(d)) /\ Root(d)' = Root(d)
      BY <2>1 DEF Live, Issued, Root
    <2>4. Holding(x)' => Given(x)' = c /\ Live(c)
      BY <1>3, <2>1 DEF LinkInv, Exchange, Done, Usable, Live, Issued
    <2>5. \A y \in Exchanges : Holding(y) /\ Given(y) = c /\ Holding(x)' => Root(c) \in raced'
      BY <1>3 DEF LinkInv, Exchange, Done
    <2>6. \A y \in Exchanges : Holding(y) => Given(y) \in Credentials  BY DEF LinkInv
    <2>7. exchange'[x].phase # "new" /\ token[x] = Absent  BY <1>3 DEF LinkInv, Exchange, Done
    <2>8. Lineage'  BY <2>1, <2>2, <2>3, <2>4, <2>7 DEF LinkInv
    <2>9. OneLive'  BY <2>1, <2>3 DEF LinkInv, OneLive
    <2>10. ASSUME NEW y \in Exchanges \ {x}, Holding(y), Holding(x)', Root(Given(y)) = Root(c)
           PROVE  Root(c) \in raced'
      BY <2>1, <2>4, <2>5, <2>10 DEF LinkInv, HeldIsLast
    <2>11. OneHolder'
      <3> SUFFICES ASSUME NEW y \in Exchanges, NEW z \in Exchanges,
                          Holding(y)', Holding(z)', Root(Given(y))' = Root(Given(z))', y # z
                   PROVE  Root(Given(y))' \in raced'
        BY DEF OneHolder
      <3>1. CASE y = x  BY <3>1, <2>2, <2>3, <2>4, <2>6, <2>10
      <3>2. CASE z = x  BY <3>2, <2>2, <2>3, <2>4, <2>6, <2>10
      <3>3. CASE y # x /\ z # x  BY <3>3, <2>1, <2>2, <2>3, <2>6 DEF LinkInv, OneHolder
      <3>. QED  BY <3>1, <3>2, <3>3
    <2>12. HeldIsLast'
      <3> SUFFICES ASSUME NEW y \in Exchanges, NEW d \in Credentials,
                          Holding(y)', Live(d)', Root(d)' = Root(Given(y))', d # Given(y)'
                   PROVE  Root(d)' \in raced'
        BY DEF HeldIsLast
      <3>1. CASE y = x  BY <3>1, <2>1, <2>3, <2>4 DEF LinkInv, OneLive
      <3>2. CASE y # x  BY <3>2, <2>1, <2>2, <2>3, <2>6 DEF LinkInv, HeldIsLast
      <3>. QED  BY <3>1, <3>2
    <2>. QED  BY <1>1, <2>8, <2>9, <2>11, <2>12 DEF LinkInv
  <1>4. ASSUME NEW x \in Exchanges, Mint(x)
        PROVE  LinkInv'
    <2>1. LinkTypeOK /\ Lineage  BY DEF LinkInv
    <2> DEFINE c == Root(Given(x))
    <2>2. \A d \in Credentials \ {x} :
            Live(d)' => Live(d) /\ Issued(d) /\ d # Given(x) /\ Root(d)' = Root(d)
      BY <1>4, <2>1, Minted DEF Live, Issued
    <2>3. \A d \in Credentials \ {x} : Live(d)' /\ Root(d)' = c => c \in raced'
      BY <1>4, <2>1, <2>2, Minted DEF LinkInv, HeldIsLast
    <2>4. \A y \in Exchanges : Holding(y)' =>
             /\ y # x /\ Holding(y) /\ Given(y)' = Given(y)
             /\ Given(y) \in Credentials \ {x} /\ Issued(Given(y))
             /\ Root(Given(y))' = Root(Given(y))
      <3> SUFFICES ASSUME NEW y \in Exchanges, Holding(y)'
                   PROVE  /\ y # x /\ Holding(y) /\ Given(y)' = Given(y)
                          /\ Given(y) \in Credentials \ {x} /\ Issued(Given(y))
                          /\ Root(Given(y))' = Root(Given(y))
        OBVIOUS
      <3>1. y # x /\ Holding(y) /\ Given(y)' = Given(y)  BY <1>4, <2>1, Minted
      <3>2. token[x] = Absent /\ x \notin Codes  BY <1>4, <2>1, Minted
      <3>3. Given(y) \in Credentials \ {x} /\ Issued(Given(y))  BY <3>1, <3>2, <2>1 DEF Issued
      <3>. QED  BY <3>1, <3>3, <1>4, <2>1, Minted
    <2>5. Lineage'
      <3>1. \A y \in Exchanges : exchange'[y].phase # "done" => token'[y] = Absent
        BY <1>4, <2>1, Minted DEF Issued
      <3>2. \A y \in Exchanges : token'[y] # Absent => code'[token'[y].code] # Absent
        <4> SUFFICES ASSUME NEW y \in Exchanges, token'[y] # Absent
                     PROVE  code'[token'[y].code] # Absent
          OBVIOUS
        <4>1. Issued(y)' /\ Root(y)' = token'[y].code  BY DEF Issued, Root
        <4>2. ASSUME NEW d \in Credentials, Issued(d)
              PROVE  Root(d) \in Codes /\ code[Root(d)] # Absent
          BY <4>2, <2>1 DEF Issued, Root, Pairs
        <4>3. CASE y = x  BY <4>1, <4>2, <4>3, <1>4, <2>1, Minted DEF Issued
        <4>4. CASE y # x  BY <4>1, <4>2, <4>4, <1>4, <2>1, Minted DEF Issued
        <4>. QED  BY <4>3, <4>4
      <3>3. \A y \in Exchanges : Holding(y)' => Given(y)' \in Credentials /\ Issued(Given(y))'
        BY <2>4, <1>4, <2>1, Minted
      <3>. QED  BY <3>1, <3>2, <3>3
    <2>6. OneLive'
      <3> SUFFICES ASSUME NEW d \in Credentials, NEW e \in Credentials,
                          Live(d)', Live(e)', Root(d)' = Root(e)', d # e
                   PROVE  Root(d)' \in raced'
        BY DEF OneLive
      <3>1. CASE d = x  BY <3>1, <1>4, <2>1, <2>3, Minted
      <3>2. CASE e = x  BY <3>2, <1>4, <2>1, <2>3, Minted
      <3>3. CASE d # x /\ e # x  BY <3>3, <1>4, <2>1, <2>2, Minted DEF LinkInv, OneLive
      <3>. QED  BY <3>1, <3>2, <3>3
    <2>7. OneHolder'  BY <1>4, <2>1, <2>4, Minted DEF LinkInv, OneHolder
    <2>8. HeldIsLast'
      <3> SUFFICES ASSUME NEW y \in Exchanges, NEW d \in Credentials,
                          Holding(y)', Live(d)', Root(d)' = Root(Given(y))', d # Given(y)'
                   PROVE  Root(d)' \in raced'
        BY DEF HeldIsLast
      <3>1. CASE d = x
        BY <3>1, <1>4, <2>1, <2>4, Minted DEF LinkInv, OneHolder
      <3>2. CASE d # x  BY <3>2, <1>4, <2>1, <2>2, <2>4, Minted DEF LinkInv, HeldIsLast
      <3>. QED  BY <3>1, <3>2
    <2>. QED  BY <1>1, <2>5, <2>6, <2>7, <2>8 DEF LinkInv
  <1>5. ASSUME NEW x \in Exchanges, Revoke(x)
        PROVE  LinkInv'
    <2>1. UNCHANGED <<code, exchange, raced>>  BY <1>5 DEF Revoke
    <2>2. x \notin Codes /\ \A y \in Exchanges \ {x} : token'[y] = token[y]
      BY <1>5 DEF LinkInv, Revoke
    <2>3. token[x] # Absent /\ token'[x] # Absent /\ token'[x].code = token[x].code
          /\ token'[x].revoked
      <3>1. token[x] \in Pairs /\ token'[x] = [token[x] EXCEPT !.revoked = TRUE]
        BY <1>5 DEF LinkInv, Revoke
      <3>2. token'[x].code = token[x].code /\ token'[x].revoked = TRUE  BY <3>1 DEF Pairs
      <3>. QED  BY <3>1, <3>2, <1>5, Spent DEF LinkInv, Revoke
    <2>4. \A d \in Credentials :
             (Live(d)' => Live(d)) /\ (Issued(d)' <=> Issued(d)) /\ Root(d)' = Root(d)
      BY <2>1, <2>2, <2>3 DEF Live, Issued, Root
    <2>5. \A y \in Exchanges : Holding(y) => Given(y) \in Credentials  BY DEF LinkInv
    <2>6. Lineage'  BY <2>1, <2>2, <2>3, <2>4, <1>5 DEF LinkInv, Revoke
    <2>7. OneLive'  BY <2>1, <2>4 DEF LinkInv, OneLive
    <2>8. OneHolder'  BY <2>1, <2>4, <2>5 DEF LinkInv, OneHolder
    <2>9. HeldIsLast'  BY <2>1, <2>4, <2>5 DEF LinkInv, HeldIsLast
    <2>. QED  BY <1>1, <2>6, <2>7, <2>8, <2>9 DEF LinkInv
  <1>. QED  BY <1>2, <1>3, <1>4, <1>5 DEF LinkNext

-----------------------------------------------------------------------------
(* The retention cleanup                                                    *)

(* Every day has its boundary, and a time is between those of two days.     *)
LEMMA Days ==
  ASSUME NEW t \in Nat
  PROVE  /\ t \div Day \in Nat /\ (t \div Day) * Day \in Nat
         /\ Boundary(t) \in Nat
         /\ (t \div Day) * Day <= t
         /\ t < (t \div Day) * Day + Day
         /\ Boundary(t) = (t \div Day) * Day + Hour
  BY MaintenanceAssumption DEF Boundary

LEMMA SameDay ==
  \A p, q \in Nat : p * Day < q * Day + Day => p <= q /\ p * Day <= q * Day
  <1> SUFFICES ASSUME NEW p \in Nat, NEW q \in Nat, p * Day < q * Day + Day
               PROVE  p <= q /\ p * Day <= q * Day
    OBVIOUS
  <1>1. Day \in Nat /\ Day > 0  BY MaintenanceAssumption
  <1>2. p <= q
    <2>1. SUFFICES ASSUME p >= q + 1  PROVE FALSE  OBVIOUS
    <2>2. \A a, b, c \in Nat : a >= b => a * c >= b * c  OBVIOUS
    <2>3. p * Day >= (q + 1) * Day  BY <1>1, <2>1, <2>2
    <2>. QED  BY <1>1, <2>3
  <1>3. \A a, b, c \in Nat : a >= b => a * c >= b * c  OBVIOUS
  <1>. QED  BY <1>1, <1>2, <1>3

(* A boundary that was run has a run at it or after it, and a run is only   *)
(* begun for one that was not.                                              *)
RunsRecorded ==
  \A d \in 0..LastDay + 1 :
    scheduled[d] > 0 => latest # Never /\ latest + Day >= d * Day + Hour

FirstRun ==
  scheduler = "starting" =>
    LET t == since["scheduler"] IN
    t >= Boundary(t) /\ scheduled[DayOf(t)] = 0

(* The scheduler sleeps until the first boundary after the time at which it *)
(* looked, unless it found the run of that one's predecessor missing.       *)
SleepsUntil ==
  scheduler = "asleep" =>
    \E n \in Nat :
      /\ n <= now
      /\ \/ wake = Boundary(n) /\ n < wake
         \/ wake = Boundary(n) + Day /\ latest # Never /\ latest >= Boundary(n)

LapsedAway == \A x \in lapsed : x.at \in {"down", "retrying", "cleaning"}

CleanInv ==
  /\ MaintenanceTypeOK
  /\ RunsRecorded /\ FirstRun /\ OneRunADay
  /\ SleepsUntil /\ LapsedAway

LEMMA CleanedDailyHolds ==
  ASSUME now \in Times, CleanInv
  PROVE  CleanedDaily
  <1> USE MaintenanceAssumption, ClockAssumption DEF Times
  <1>1. SUFFICES ASSUME scheduler = "asleep", now < wake, now >= Boundary(now)
                 PROVE  latest # Never /\ latest >= Boundary(now)
    <2>1. latest = Never \/ latest \in Nat  BY DEF CleanInv, MaintenanceTypeOK
    <2>2. Boundary(now) \in Nat  BY Days
    <2>. QED  BY <1>1, <2>1, <2>2 DEF CleanedDaily, NoMissedRun, CleanInv, LapsedAway, Unrun
  <1>2. PICK n \in Nat :
          /\ n <= now
          /\ \/ wake = Boundary(n) /\ n < wake
             \/ wake = Boundary(n) + Day /\ latest # Never /\ latest >= Boundary(n)
    BY <1>1 DEF CleanInv, SleepsUntil
  <1>3. PICK p \in Nat : p * Day \in Nat /\ p * Day <= n /\ n < p * Day + Day /\ Boundary(n) = p * Day + Hour
    <2>1. n \in Nat  OBVIOUS
    <2>. QED  BY <2>1, Days
  <1>4. PICK q \in Nat : q * Day \in Nat /\ q * Day <= now /\ now < q * Day + Day /\ Boundary(now) = q * Day + Hour
    <2>1. now \in Nat  OBVIOUS
    <2>. QED  BY <2>1, Days
  <1>5. p * Day <= q * Day  BY <1>2, <1>3, <1>4, SameDay
  <1>6. CASE wake = Boundary(n) /\ n < wake
    BY <1>1, <1>3, <1>4, <1>5, <1>6
  <1>7. CASE wake = Boundary(n) + Day /\ latest # Never /\ latest >= Boundary(n)
    <2>1. q * Day < p * Day + Day  BY <1>1, <1>3, <1>4, <1>7
    <2>2. q * Day <= p * Day  BY <2>1, SameDay
    <2>3. latest \in Nat  BY <1>7 DEF CleanInv, MaintenanceTypeOK
    <2>. QED  BY <1>3, <1>4, <1>7, <2>2, <2>3
  <1>. QED  BY <1>2, <1>6, <1>7

LEMMA BoundaryDay ==
  ASSUME NEW t \in Times
  PROVE  /\ Boundary(t) \in Nat /\ Boundary(t) < t + Day
         /\ t >= Boundary(t) =>
              /\ DayOf(t) \in 0..LastDay + 1
              /\ DayOf(t) * Day + Hour = Boundary(t) + Day
  <1> USE MaintenanceAssumption, ClockAssumption DEF Times
  <1>1. t \in Nat  OBVIOUS
  <1>2. PICK p \in Nat : /\ p = t \div Day /\ p * Day \in Nat /\ p * Day <= t
                         /\ Boundary(t) = p * Day + Hour
    BY <1>1, Days
  <1>3. PICK l \in Nat : /\ l = LastDay /\ l * Day \in Nat /\ MaxTime < l * Day + Day
    BY Days DEF LastDay
  <1>4. p <= l  BY <1>2, <1>3, SameDay
  <1>5. t >= Boundary(t) => DayOf(t) = p + 1  BY <1>2 DEF DayOf
  <1>6. (p + 1) * Day = p * Day + Day  BY <1>2
  <1>. QED  BY <1>2, <1>3, <1>4, <1>5, <1>6

(* Later runs and later times disturb neither.                              *)
LEMMA Later ==
  ASSUME CleanInv, latest' \in Times, latest # Never => latest' >= latest,
         NEW d \in 0..LastDay + 1, scheduled[d] > 0
  PROVE  latest' # Never /\ latest' + Day >= d * Day + Hour
  <1> USE MaintenanceAssumption, ClockAssumption DEF Times, CleanInv, MaintenanceTypeOK
  <1>1. latest \in Nat /\ latest + Day >= d * Day + Hour  BY DEF RunsRecorded
  <1>2. LastDay \in Nat  BY Days DEF LastDay
  <1>3. PICK m \in Nat : m = d * Day  BY <1>2
  <1>4. PICK b \in Nat : b = latest /\ b + Day >= m + Hour  BY <1>1, <1>3
  <1>5. latest' >= b /\ latest' \in Nat  BY <1>4
  <1>6. PICK a \in Nat : a = latest' /\ a >= b  BY <1>5
  <1>7. a + Day >= m + Hour
    <2>1. \A i, j, k, l \in Nat : i >= j /\ j + k >= l => i + k >= l  OBVIOUS
    <2>2. Day \in Nat /\ m + Hour \in Nat  OBVIOUS
    <2>. QED  BY ONLY <1>4, <1>6, <2>1, <2>2
  <1>. QED  BY <1>3, <1>5, <1>6, <1>7

LEMMA SleepsOn ==
  ASSUME CleanInv, now \in Times, now' \in Times, now' >= now, wake' = wake,
         scheduler' = "asleep" => scheduler = "asleep",
         latest' \in Times \cup {Never}, latest # Never => latest' # Never /\ latest' >= latest
  PROVE  SleepsUntil'
  <1> USE MaintenanceAssumption, ClockAssumption DEF Times, CleanInv, MaintenanceTypeOK
  <1>1. SUFFICES ASSUME scheduler' = "asleep"
                 PROVE  \E n \in Nat :
                          /\ n <= now'
                          /\ \/ wake' = Boundary(n) /\ n < wake'
                             \/ wake' = Boundary(n) + Day /\ latest' # Never /\ latest' >= Boundary(n)
    BY DEF SleepsUntil, Boundary
  <1>2. PICK n \in Nat :
          /\ n <= now
          /\ \/ wake = Boundary(n) /\ n < wake
             \/ wake = Boundary(n) + Day /\ latest # Never /\ latest >= Boundary(n)
    BY <1>1 DEF SleepsUntil
  <1>3. Boundary(n) \in Nat  BY Days
  <1>4. n <= now'  BY <1>2
  <1>5. latest # Never /\ latest >= Boundary(n) => latest' # Never /\ latest' >= Boundary(n)
    BY <1>3
  <1>. QED  BY <1>2, <1>4, <1>5

(* A day that ends while the scheduler sleeps has had its run: the sleep    *)
(* began before the boundary, and would have ended at it, or after the run. *)
LEMMA DayRun ==
  ASSUME now \in Times, CleanInv, Patient, DayEnds, Unrun
  PROVE  now \div Day \in 0..LastDay /\ scheduler \in {"down", "retrying", "cleaning"}
  <1> USE MaintenanceAssumption, ClockAssumption DEF Times
  <1>1. PICK q \in Nat : /\ q = now \div Day /\ q * Day \in Nat /\ q * Day <= now
                         /\ now < q * Day + Day /\ Boundary(now) = q * Day + Hour
    <2>1. now \in Nat  OBVIOUS
    <2>. QED  BY <2>1, Days
  <1>2. now >= q * Day + Day - 1
    <2>1. PICK r \in Nat : /\ r = (now + 1) \div Day /\ r * Day \in Nat
                           /\ r * Day <= now + 1 /\ now + 1 < r * Day + Day
      <3>1. now + 1 \in Nat  OBVIOUS
      <3>. QED  BY <3>1, Days
    <2>2. r # q  BY <1>1, <2>1 DEF DayEnds
    <2>3. ~(r <= q)
      <3>1. q <= r
        <4>1. q * Day < r * Day + Day  BY <1>1, <2>1
        <4>. QED  BY <4>1, SameDay
      <3>. QED  BY <2>2, <3>1
    <2>4. ~(r * Day < q * Day + Day)  BY <2>3, SameDay
    <2>. QED  BY <1>1, <2>1, <2>4
  <1>3. now >= Boundary(now)  BY <1>1, <1>2
  <1>4. q <= LastDay /\ LastDay \in Nat
    <2>1. PICK l \in Nat : /\ l = LastDay /\ l * Day \in Nat /\ MaxTime < l * Day + Day
      BY Days DEF LastDay
    <2>2. q * Day < l * Day + Day  BY <1>1, <2>1
    <2>. QED  BY <2>1, <2>2, SameDay
  <1>5. ~(scheduler = "asleep" /\ now < wake)
    BY <1>3, CleanedDailyHolds DEF CleanedDaily, NoMissedRun
  <1>. QED  BY <1>1, <1>4, <1>5 DEF Patient

LEMMA CleanPass ==
  ASSUME now \in Times, now' \in Times, now' >= now, CleanInv, MaintenancePass
  PROVE  CleanInv'
  <1>1. UNCHANGED <<latest, scheduler, wake, since, operator, failures, scheduled>>
    BY DEF MaintenancePass
  <1>2. SleepsUntil'
    <2>1. latest' \in Times \cup {Never} /\ (latest # Never => latest' # Never /\ latest' >= latest)
      BY <1>1, ClockAssumption DEF CleanInv, MaintenanceTypeOK, Times
    <2>. QED  BY <1>1, <2>1, SleepsOn
  <1>3. \A x \in lapsed' : x \in [day : 0..LastDay, at : Places] /\ x.at \in {"down", "retrying", "cleaning"}
    <2>1. CASE DayEnds /\ Unrun
      <3>1. lapsed' = lapsed \cup {[day |-> now \div Day, at |-> scheduler]}
        BY <2>1 DEF MaintenancePass
      <3>2. Patient  BY DEF MaintenancePass
      <3>3. now \div Day \in 0..LastDay /\ scheduler \in {"down", "retrying", "cleaning"}
        BY <2>1, <3>2, DayRun
      <3>. QED  BY <3>1, <3>3 DEF CleanInv, LapsedAway, MaintenanceTypeOK, Places
    <2>2. CASE ~(DayEnds /\ Unrun)
      <3>1. lapsed' = lapsed  BY <2>2 DEF MaintenancePass
      <3>. QED  BY <3>1 DEF CleanInv, LapsedAway, MaintenanceTypeOK
    <2>. QED  BY <2>1, <2>2
  <1>4. MaintenanceTypeOK'  BY <1>1, <1>3 DEF CleanInv, MaintenanceTypeOK
  <1>5. LapsedAway'  BY <1>3 DEF LapsedAway
  <1>6. RunsRecorded' /\ FirstRun' /\ OneRunADay'
    BY <1>1 DEF CleanInv, RunsRecorded, FirstRun, OneRunADay, Boundary, DayOf
  <1>. QED  BY <1>2, <1>4, <1>5, <1>6 DEF CleanInv

LEMMA CleanSafe ==
  ASSUME now \in Times, now' \in Times, now' >= now, CleanInv,
         \/ MaintenanceStep /\ now' = now
         \/ \E p \in Processes : Finish(p) /\ UNCHANGED failures
         \/ MaintenancePass
         \/ UNCHANGED maintenance
  PROVE  CleanInv'
  <1> USE MaintenanceAssumption, ClockAssumption
          DEF Times, CleanInv, MaintenanceTypeOK, RunsRecorded, FirstRun, SleepsUntil, LapsedAway,
              OneRunADay, Processes, Places
  <1>1. ASSUME Look, now' = now
        PROVE  CleanInv'
    <2>1. Boundary(now) \in Nat /\ Boundary(now) < now + Day  BY BoundaryDay
    <2>2. CASE NextCleanupAt(now) <= now
      <3>1. now >= Boundary(now) /\ (latest = Never \/ latest < Boundary(now))
        <4>1. latest # Never => latest \in Nat  OBVIOUS
        <4>2. CASE latest # Never /\ latest >= Boundary(now)
          <5>1. NextCleanupAt(now) = Boundary(now) + Day  BY <4>2 DEF NextCleanupAt
          <5>2. PICK b \in Nat : b = Boundary(now)  BY <2>1
          <5>3. now < b + Day
            <6>0. now \in Nat  OBVIOUS
            <6>1. PICK q \in Nat : now < q + Day /\ Boundary(now) = q + Hour  BY <6>0, Days
            <6>. QED  BY <6>1, <5>2
          <5>. QED  BY <5>1, <5>2, <5>3, <2>2
        <4>3. CASE ~(latest # Never /\ latest >= Boundary(now))
          <5>1. NextCleanupAt(now) = Boundary(now)  BY <4>3 DEF NextCleanupAt
          <5>. QED  BY <5>1, <4>1, <4>3, <2>1, <2>2
        <4>. QED  BY <4>2, <4>3
      <3>2. /\ DayOf(now) \in 0..LastDay + 1
            /\ DayOf(now) * Day + Hour = Boundary(now) + Day
        BY <3>1, BoundaryDay
      <3>3. scheduled[DayOf(now)] = 0  BY <2>1, <3>1, <3>2
      <3>4. /\ scheduler' = "starting" /\ since' = [since EXCEPT !["scheduler"] = now]
            /\ UNCHANGED <<latest, wake, operator, failures, scheduled, lapsed>>
        BY <1>1, <2>2 DEF Look
      <3>. QED  BY <3>1, <3>3, <3>4
    <2>3. CASE ~(NextCleanupAt(now) <= now)
      <3>1. \/ latest # Never /\ latest >= Boundary(now) /\ NextCleanupAt(now) = Boundary(now) + Day
            \/ NextCleanupAt(now) = Boundary(now) /\ now < Boundary(now)
        BY <2>1, <2>3 DEF NextCleanupAt
      <3>2. NextCleanupAt(now) \in 0..(MaxTime + Day + RetryDelay)  BY <2>1, <3>1
      <3>3. /\ scheduler' = "asleep" /\ wake' = NextCleanupAt(now)
            /\ UNCHANGED <<latest, since, operator, failures, scheduled, lapsed>>
        BY <1>1, <2>3 DEF Look
      <3>4. PICK n \in Nat : n = now  OBVIOUS
      <3>5. /\ n <= now'
            /\ \/ wake' = Boundary(n) /\ n < wake'
               \/ wake' = Boundary(n) + Day /\ latest' # Never /\ latest' >= Boundary(n)
        BY <2>1, <3>1, <3>3, <3>4
      <3>6. SleepsUntil'  BY <3>5 DEF Boundary
      <3>. QED  BY <3>2, <3>3, <3>6
    <2>. QED  BY <2>2, <2>3
  <1>2. ASSUME Start
        PROVE  CleanInv'
    <2> DEFINE t == since["scheduler"]
    <2>1. t \in Times /\ t >= Boundary(t) /\ scheduled[DayOf(t)] = 0 /\ Boundary(t) \in Nat
          /\ DayOf(t) \in 0..LastDay + 1 /\ DayOf(t) * Day + Hour = Boundary(t) + Day
      BY <1>2, BoundaryDay DEF Start
    <2>2. /\ latest' = Latest(t) /\ scheduled' = [scheduled EXCEPT ![DayOf(t)] = 1]
          /\ scheduler' = "cleaning" /\ UNCHANGED <<wake, since, operator, failures, lapsed>>
      BY <1>2, <2>1 DEF Start
    <2>3. Latest(t) \in Times /\ Latest(t) >= t /\ (latest # Never => Latest(t) >= latest)
      BY <2>1 DEF Latest
    <2>4. ASSUME NEW d \in 0..LastDay + 1, scheduled'[d] > 0
          PROVE  latest' # Never /\ latest' + Day >= d * Day + Hour
      <3>1. CASE d = DayOf(t)  BY <3>1, <2>1, <2>2, <2>3
      <3>2. CASE d # DayOf(t)
        <4>1. scheduled[d] > 0  BY <3>2, <2>2, <2>4
        <4>2. latest \in Nat /\ latest + Day >= d * Day + Hour  BY <4>1
        <4>3. LastDay \in Nat  BY Days DEF LastDay
        <4>4. d * Day \in Nat  BY <4>3
        <4>. QED  BY <4>2, <4>4, <2>2, <2>3
      <3>. QED  BY <3>1, <3>2
    <2>. QED  BY <2>1, <2>2, <2>3, <2>4
  <1>3. ASSUME ManualStart
        PROVE  CleanInv'
    <2>1. Latest(now) \in Times /\ (latest # Never => Latest(now) >= latest)  BY DEF Latest
    <2>2. /\ latest' = Latest(now) /\ since' = [since EXCEPT !["operator"] = now]
          /\ operator' = "cleaning" /\ UNCHANGED <<scheduler, wake, failures, scheduled, lapsed>>
      BY <1>3 DEF ManualStart
    <2>3. \A d \in 0..LastDay + 1 :
             scheduled'[d] > 0 => latest' # Never /\ latest' + Day >= d * Day + Hour
      BY <2>1, <2>2, Later
    <2>4. SleepsUntil'  BY <2>1, <2>2, SleepsOn
    <2>. QED  BY <2>1, <2>2, <2>3, <2>4
  <1>4. ASSUME NEW p \in Processes, Finish(p), failures' \in 0..MaxFailures
        PROVE  CleanInv'
    <2>1. UNCHANGED <<latest, wake, scheduled, lapsed>> /\ since' = [since EXCEPT ![p] = 0]
      BY <1>4 DEF Finish
    <2>2. /\ scheduler' \in {"reading", scheduler} /\ operator' \in {"idle", "cleaning"}
          /\ scheduler' = "starting" => scheduler = "starting" /\ p # "scheduler"
      BY <1>4 DEF Finish
    <2>3. SleepsUntil'  BY <2>1, <2>2, SleepsOn
    <2>. QED  BY <1>4, <2>1, <2>2, <2>3
  <1>5. ASSUME DatabaseError \/ SchedulerDies \/ Restart \/ Wake, now' = now
        PROVE  CleanInv'
    <2>1. /\ UNCHANGED <<latest, operator, scheduled, lapsed>>
          /\ scheduler' \in {"retrying", "down", "reading"}
          /\ wake' \in 0..(MaxTime + Day + RetryDelay) /\ failures' \in 0..MaxFailures
          /\ since' \in [Processes -> Times]
      BY <1>5 DEF DatabaseError, SchedulerDies, Restart, Wake, Fail
    <2>. QED  BY <2>1
  <1>6. ASSUME UNCHANGED maintenance
        PROVE  CleanInv'
    <2>1. UNCHANGED <<latest, scheduler, wake, since, operator, failures, scheduled, lapsed>>
      BY <1>6 DEF maintenance
    <2>2. SleepsUntil'  BY <2>1, SleepsOn
    <2>. QED  BY <2>1, <2>2
  <1>7. ASSUME NEW p \in Processes, FinishError(p)
        PROVE  Finish(p) /\ failures' \in 0..MaxFailures
    BY <1>7 DEF FinishError, Fail
  <1>8. ASSUME MaintenancePass
        PROVE  CleanInv'
    BY <1>8, CleanPass
  <1>. QED  BY <1>1, <1>2, <1>3, <1>4, <1>5, <1>6, <1>7, <1>8 DEF MaintenanceStep

-----------------------------------------------------------------------------
(* The composition                                                          *)

SafeInv == now \in Times /\ LinkInv /\ CleanInv

LEMMA InitSafe ==
  ASSUME Init
  PROVE  SafeInv
  <1> USE LinkAssumption, MaintenanceAssumption, ClockAssumption DEF Init, Times
  <1>1. LinkInv
    <2>1. LinkTypeOK  BY DEF LinkInit, LinkTypeOK
    <2>2. \A x \in Exchanges : token[x] = Absent /\ ~Holding(x)
      BY DEF LinkInit, Holding
    <2>3. \A c \in Credentials : ~Live(c)  BY DEF LinkInit, Live, Credentials
    <2>4. Lineage  BY <2>2 DEF LinkInit, Lineage
    <2>. QED  BY <2>1, <2>2, <2>3, <2>4 DEF LinkInv, OneLive, OneHolder, HeldIsLast
  <1>2. CleanInv
    <2>1. LastDay \in Nat  BY Days DEF LastDay
    <2>2. MaintenanceTypeOK  BY DEF MaintenanceInit, MaintenanceTypeOK, Processes, Places
    <2>. QED
      BY <2>1, <2>2 DEF CleanInv, MaintenanceInit, RunsRecorded, FirstRun, SleepsUntil, OneRunADay,
                        LapsedAway
  <1>3. now \in Times  OBVIOUS
  <1>. QED  BY <1>1, <1>2, <1>3 DEF SafeInv

(* What the link's invariant speaks of is the link's own.                   *)
LEMMA LinkStutters ==
  ASSUME LinkInv, UNCHANGED link
  PROVE  LinkInv'
  BY DEF LinkInv, LinkTypeOK, Lineage, OneLive, OneHolder, HeldIsLast, Holding, Given, Live,
         Issued, Root, link, Grants, Pairs, Credentials

LEMMA NextSafe ==
  ASSUME SafeInv, [Next]_vars
  PROVE  SafeInv'
  <1> USE DEF SafeInv
  <1>0. SUFFICES /\ now' \in Times /\ now' >= now
                 /\ LinkNext \/ UNCHANGED link
                 /\ \/ MaintenanceStep /\ now' = now
                    \/ \E p \in Processes : Finish(p) /\ UNCHANGED failures
                    \/ MaintenancePass
                    \/ UNCHANGED maintenance
    BY LinkSafe, LinkStutters, CleanSafe
  <1> USE ClockAssumption DEF Times
  <1>1. CASE /\ PortalStep \/ (MayBegin /\ PortalBegin) \/ (\E t \in Tenants : Membership(t))
             /\ UNCHANGED <<now, link, maintenance>>
    BY <1>1
  <1>2. CASE \E r \in Requests : GiveCode(r)
    <2>1. PICK r \in Requests : GiveCode(r)  BY <1>2
    <2>2. LinkNext \/ UNCHANGED link  BY <2>1, RetentionAssumption DEF GiveCode, LinkNext
    <2>3. UNCHANGED <<now, maintenance>>  BY <2>1 DEF GiveCode
    <2>. QED  BY <2>2, <2>3
  <1>3. CASE /\ \/ LinkStep
                \/ /\ MayBegin
                   /\ \E x \in Exchanges \ Working, c \in Credentials :
                        x = Unused /\ Exchange(x, c)
             /\ UNCHANGED <<now, portal, maintenance>>
    BY <1>3 DEF LinkNext, LinkStep
  <1>4. CASE MaintenanceStep /\ UNCHANGED <<now, portal, link>>
    BY <1>4
  <1>5. CASE \E p \in Processes : Clean(p)
    BY <1>5 DEF Clean
  <1>6. CASE Tick
    BY <1>6 DEF Tick, Pass
  <1>7. CASE UNCHANGED vars
    BY <1>7 DEF vars
  <1>. QED  BY <1>1, <1>2, <1>3, <1>4, <1>5, <1>6, <1>7 DEF Next

LEMMA AlwaysSafe == Spec => []SafeInv
  BY InitSafe, NextSafe, PTL DEF Spec

(* Of the token pairs that descend from one authorization code, however     *)
(* often they were refreshed, at most one can still be used, unless two     *)
(* exchanges held one credential at once: for any number of codes and       *)
(* exchanges in any interleaving (alexa.py:180-264).                        *)
THEOREM OneLivePairAlways == Spec => []OneLivePair
  <1>1. ASSUME SafeInv
        PROVE  OneLivePair
    <2> SUFFICES ASSUME NEW x \in Exchanges, NEW y \in Exchanges,
                        token[x] # Absent /\ ~token[x].revoked,
                        token[y] # Absent /\ ~token[y].revoked,
                        token[x].code = token[y].code
                 PROVE  x = y \/ token[x].code \in raced
      BY DEF OneLivePair
    <2>1. x \notin Codes /\ y \notin Codes  BY LinkAssumption
    <2>2. Live(x) /\ Live(y) /\ Root(x) = token[x].code /\ Root(y) = token[y].code
      BY <2>1 DEF Live, Root
    <2>. QED  BY <1>1, <2>2 DEF SafeInv, LinkInv, OneLive, Credentials
  <1>. QED  BY <1>1, AlwaysSafe, PTL

(* The scheduler runs each daily boundary at most once, and a day ends      *)
(* without a run after its boundary only if the scheduler was then down,    *)
(* waiting to retry, or still in the run of an earlier day: for any length  *)
(* of the day, hour of the boundary and retry delay, and whatever errors,   *)
(* restarts and manual runs (maintenance.py:90-105, scheduler.py:16-40).    *)
THEOREM CleanedDailyAlways == Spec => []CleanedDaily
  <1>1. SafeInv => CleanedDaily  BY CleanedDailyHolds DEF SafeInv
  <1>. QED  BY <1>1, AlwaysSafe, PTL

-----------------------------------------------------------------------------
(* The portal: the types                                                    *)

Phases == {"new", "counted", "created", "sent", "identified", "selected", "done"}

Records ==
  [phase : Phases,
   form : Forms \cup {None}, tab : Tabs \cup {None}, cookie : Requests \cup {None},
   csrf : Pages \cup {None}, page : Pages \cup {None},
   choice : Tenants \cup {None}, context : Tenants \cup {None}]

Claims == [to : Tenants, told : SUBSET (Tenants \cup {None}), overtaken : BOOLEAN]

PortalTyped ==
  /\ req \in [Requests -> Records] /\ memberships \subseteq Tenants
  /\ {attempt, failedAt} \subseteq [Requests -> Times \cup {None}]
  /\ session \in [Requests -> Sessions \cup {None}]
  /\ cookie \in Requests \cup {None}
  /\ csrf \in Pages \cup {None} /\ tab \in [Tabs -> Pages \cup {None}]
  /\ told \in [Requests -> SUBSET (Tenants \cup {None})] /\ overtaken \subseteq Requests
  /\ claims \subseteq Claims
  /\ counted \in [Requests -> SUBSET Requests]

LEMMA TypedIsTypeOK ==
  (PortalTypeOK <=> PortalTyped) /\ (PortalTypeOK' <=> PortalTyped')
  BY DEF PortalTypeOK, PortalTyped, Claims, Records, Phases, Pages, Sessions, Times

(* A request that begins or ends keeps nothing of what it was sent with.    *)
LEMMA SetTypes ==
  ASSUME req \in [Requests -> Records], NEW r \in Requests, NEW ph \in Phases, Set(r, ph)
  PROVE  req' \in [Requests -> Records]
  <1>1. [New EXCEPT !.phase = ph] \in Records  BY DEF New, Records
  <1>. QED  BY <1>1 DEF Set

LEMMA SetPhase ==
  ASSUME req \in [Requests -> Records], NEW r \in Requests, NEW ph, Set(r, ph)
  PROVE  /\ req'[r].phase = ph
         /\ \A q \in Requests \ {r} : req'[q] = req[q]
  BY DEF Set, New

(* A selected tenant is one of the user's.                                  *)
LEMMA OnlyTenantType ==
  ASSUME memberships \subseteq Tenants
  PROVE  OnlyTenant \in Tenants \cup {None}
  <1>1. Cardinality(memberships) = 1 => memberships # {}  BY FS_EmptySet
  <1>. QED  BY <1>1 DEF OnlyTenant

(* What resolving, selecting and revoking make of a session is one.         *)
LEMMA SessionTypes ==
  ASSUME PortalTypeOK, NEW s \in Requests, session[s] # None
  PROVE  /\ TenantOf(s) \in Tenants \cup {None}
         /\ Resolved(s) \in [Requests -> Sessions \cup {None}]
         /\ \A t \in Tenants :
              [session EXCEPT ![s].tenant = t] \in [Requests -> Sessions \cup {None}]
         /\ [session EXCEPT ![s].revoked = TRUE] \in [Requests -> Sessions \cup {None}]
  <1>1. session \in [Requests -> Sessions \cup {None}] /\ session[s] \in Sessions
    BY DEF PortalTypeOK
  <1>2. memberships \subseteq Tenants  BY DEF PortalTypeOK
  <1>3. TenantOf(s) \in Tenants \cup {None}  BY <1>2 DEF TenantOf
  <1>4. \A t \in Tenants \cup {None} : [session[s] EXCEPT !.tenant = t] \in Sessions
    BY <1>1 DEF Sessions
  <1>5. [session[s] EXCEPT !.revoked = TRUE] \in Sessions  BY <1>1 DEF Sessions
  <1>. QED  BY <1>1, <1>3, <1>4, <1>5 DEF Resolved

(* The steps of the portal.                                                 *)
PortalNext ==
  \/ PortalStep \/ PortalBegin
  \/ \E t \in Tenants : Membership(t)
  \/ \E r \in Requests : Consent(r)

LEMMA PortalTypesOne ==
  ASSUME PortalTypeOK, now \in Times, NEW r \in Requests,
         \/ LoginCount(r) \/ LoginFail(r) \/ LoginCommit(r) \/ LoggedIn(r)
         \/ \E f \in Forms, t \in Tabs, c \in Tenants \cup {None} : Open(r, f, t, c)
         \/ Identify(r)
  PROVE  PortalTypeOK'
  <1> USE DEF Forms
  <1>0. PortalTyped  BY TypedIsTypeOK
  <1>1. SUFFICES PortalTyped'  BY TypedIsTypeOK
  <1> USE DEF PortalTyped
  <1>2. ASSUME NEW ph \in Phases, Set(r, ph)
        PROVE  req' \in [Requests -> Records]
    BY <1>0, <1>2, SetTypes
  <1> USE DEF attempts, selection
  <1>3. CASE LoginCount(r)
    <2>1. "done" \in Phases /\ "counted" \in Phases  BY DEF Phases
    <2>. QED  BY <1>0, <1>2, <1>3, <2>1 DEF LoginCount
  <1>4. CASE LoginFail(r)
    <2>1. "done" \in Phases  BY DEF Phases
    <2>2. counted' \in [Requests -> SUBSET Requests]  BY <1>0, <1>4 DEF LoginFail
    <2>. QED  BY <1>0, <1>2, <1>4, <2>1, <2>2 DEF LoginFail
  <1>5. CASE LoginCommit(r)
    <2>1. "done" \in Phases /\ "created" \in Phases  BY DEF Phases
    <2>2. [expires |-> now + SessionLife, revoked |-> FALSE, tenant |-> OnlyTenant] \in Sessions
      BY <1>0, OnlyTenantType, PortalAssumption, ClockAssumption DEF Sessions, Times
    <2>3. told' \in [Requests -> SUBSET (Tenants \cup {None})]
      BY <1>0, <1>5, OnlyTenantType DEF LoginCommit
    <2>. QED  BY <1>0, <1>2, <1>5, <2>1, <2>2, <2>3 DEF LoginCommit
  <1>6. CASE LoggedIn(r)
    <2>1. "done" \in Phases  BY DEF Phases
    <2>2. Valid(r) => Resolved(r) \in [Requests -> Sessions \cup {None}]
      BY SessionTypes DEF Valid
    <2>. QED  BY <1>0, <1>2, <1>6, <2>1, <2>2 DEF LoggedIn
  <1>7. ASSUME NEW f \in Forms, NEW t \in Tabs, NEW c \in Tenants \cup {None}, Open(r, f, t, c)
        PROVE  req' \in [Requests -> Records]
    <2>1. [phase |-> "sent", form |-> f, tab |-> t, cookie |-> cookie, csrf |-> csrf,
           page |-> tab[t], choice |-> c, context |-> None] \in Records
      BY <1>0 DEF Records, Phases
    <2>. QED  BY <1>0, <1>7, <2>1 DEF Open
  <1>8. CASE Identify(r)
    <2>1. "done" \in Phases  BY DEF Phases
    <2>2. PICK s \in Requests \cup {None} : s = req[r].cookie  BY <1>0 DEF Records
    <2>3. session' \in [Requests -> Sessions \cup {None}]
      <3>1. CASE Valid(s)
        <4>1. s \in Requests /\ session[s] # None  BY <2>2, <3>1 DEF Valid
        <4>2. session' = Resolved(s)  BY <1>8, <2>2, <3>1 DEF Identify
        <4>. QED  BY <4>1, <4>2, SessionTypes
      <3>2. CASE ~Valid(s)  BY <1>0, <1>8, <2>2, <3>2 DEF Identify
      <3>. QED  BY <3>1, <3>2
    <2>4. req' \in [Requests -> Records]
      <3>1. CASE Valid(s) /\ ~Refused(r, s)
        <4>1. TenantOf(s) \in Tenants \cup {None}
          BY <2>2, <3>1, SessionTypes DEF Valid
        <4>2. OnlyTenant \in Tenants \cup {None} /\ req[r].choice \in Tenants \cup {None}
          BY <1>0, OnlyTenantType DEF Records
        <4>3. req' = [req EXCEPT ![r].phase = "identified", ![r].context = TenantOf(s),
                 ![r].choice = IF req[r].form = "authorize" THEN OnlyTenant ELSE @]
          BY <1>8, <2>2, <3>1 DEF Identify
        <4>4. PICK c \in Tenants \cup {None} :
                 c = IF req[r].form = "authorize" THEN OnlyTenant ELSE req[r].choice
          BY <4>2
        <4>5. req' = [req EXCEPT ![r] = [req[r] EXCEPT !.phase = "identified",
                        !.context = TenantOf(s), !.choice = c]]
          BY <1>0, <4>3, <4>4 DEF Records
        <4>6. ASSUME NEW q \in Records, NEW t \in Tenants \cup {None}
              PROVE  [q EXCEPT !.phase = "identified", !.context = t, !.choice = c] \in Records
          BY DEF Records, Phases
        <4>7. req[r] \in Records  BY <1>0
        <4>8. [req[r] EXCEPT !.phase = "identified", !.context = TenantOf(s), !.choice = c]
                \in Records
          BY <4>1, <4>6, <4>7
        <4>. QED  BY <1>0, <4>5, <4>8
      <3>2. CASE ~(Valid(s) /\ ~Refused(r, s))
        <4>1. Set(r, "done")  BY <1>8, <2>2, <3>2 DEF Identify
        <4>. QED  BY <1>2, <2>1, <4>1
      <3>. QED  BY <3>1, <3>2
    <2>. QED  BY <1>0, <1>8, <2>3, <2>4 DEF Identify
  <1>9. CASE \E f \in Forms, t \in Tabs, c \in Tenants \cup {None} : Open(r, f, t, c)
    <2>1. PICK f \in Forms, t \in Tabs, c \in Tenants \cup {None} : Open(r, f, t, c)  BY <1>9
    <2>2. req' \in [Requests -> Records]  BY <1>7, <2>1
    <2>. QED  BY <1>0, <2>1, <2>2 DEF Open
  <1>. QED  BY <1>3, <1>4, <1>5, <1>6, <1>8, <1>9

(* A claim is made with a selected tenant.                                  *)
ClaimsSelected ==
  \A r \in Requests :
    req[r].phase = "identified" /\ req[r].form \in {"claim", "api"} => req[r].context # None

LEMMA SelectTypes ==
  ASSUME PortalTypeOK, NEW r \in Requests, CanSelect(r), Select(r)
  PROVE  /\ session' \in [Requests -> Sessions \cup {None}]
         /\ told' \in [Requests -> SUBSET (Tenants \cup {None})]
         /\ overtaken' \subseteq Requests
  <1>0. PortalTyped  BY TypedIsTypeOK
  <1>1. req[r].choice \in Tenants  BY <1>0 DEF CanSelect, PortalTyped
  <1>2. session' \in [Requests -> Sessions \cup {None}]
    <2>1. CASE session' = session  BY <1>0, <2>1 DEF PortalTyped
    <2>2. CASE session' # session
      <3>1. /\ req[r].choice # req[r].context
            /\ session' = [session EXCEPT ![req[r].cookie].tenant = req[r].choice]
        BY <2>2 DEF Select
      <3>2. req[r].cookie \in Requests
        <4>1. CASE req[r].cookie \notin Requests
          <5>1. session' = session  BY <1>0, <3>1, <4>1 DEF PortalTyped
          <5>. QED  BY <2>2, <5>1
        <4>. QED  BY <4>1
      <3>3. session[req[r].cookie] # None  BY <3>1 DEF CanSelect
      <3>. QED  BY <1>1, <3>1, <3>2, <3>3, SessionTypes
    <2>. QED  BY <2>1, <2>2
  <1>3. told' \in [Requests -> SUBSET (Tenants \cup {None})]
    <2>1. told \in [Requests -> SUBSET (Tenants \cup {None})]  BY <1>0 DEF PortalTyped
    <2>. QED  BY <1>1, <2>1 DEF Select, Recorded
  <1>4. overtaken' \subseteq Requests
    BY <1>0 DEF PortalTyped, Select, Recorded, Overtakes
  <1>. QED  BY <1>2, <1>3, <1>4

LEMMA ClaimTypes ==
  ASSUME PortalTypeOK, NEW r \in Requests, req[r].cookie \in Requests, req[r].context # None,
         Claimed(r)
  PROVE  claims' \subseteq Claims
  <1>0. PortalTyped  BY TypedIsTypeOK
  <1>1. /\ req[r].context \in Tenants /\ claims \subseteq Claims
        /\ told[req[r].cookie] \in SUBSET (Tenants \cup {None})
    BY <1>0 DEF PortalTyped, Records
  <1>2. [to |-> req[r].context, told |-> told[req[r].cookie], overtaken |-> r \in overtaken]
          \in Claims
    BY <1>1 DEF Claims
  <1>. QED  BY <1>1, <1>2 DEF Claimed

LEMMA PortalTypesTwo ==
  ASSUME PortalTypeOK, now \in Times, NEW r \in Requests, ClaimsSelected,
         req[r].phase = "identified" => req[r].cookie \in Requests,
         \/ PairPage(r) \/ SelectTenant(r) \/ ClaimByApi(r) \/ PairSubmit(r) \/ Logout(r)
         \/ ChooseTenant(r) \/ Consent(r)
  PROVE  PortalTypeOK'
  <1>0. PortalTyped  BY TypedIsTypeOK
  <1>1. SUFFICES PortalTyped'  BY TypedIsTypeOK
  <1> USE DEF PortalTyped, attempts, selection
  <1>2. Set(r, "done") => req' \in [Requests -> Records]
    BY <1>0, SetTypes DEF Phases
  <1>3. At(r, "claim") \/ At(r, "api") => (Claimed(r) => claims' \subseteq Claims)
    BY ClaimTypes DEF At, ClaimsSelected
  <1>4. NewPage(r) \in Pages  BY <1>0 DEF NewPage, Pages, Records
  <1>5. CASE PairPage(r)  BY <1>0, <1>2, <1>4, <1>5 DEF PairPage
  <1>6. CASE SelectTenant(r)
    <2>1. CASE ValidCsrf(r) /\ CanSelect(r)
      <3>1. Select(r)  BY <1>6, <2>1 DEF SelectTenant
      <3>. QED  BY <1>0, <1>2, <1>6, <2>1, <3>1, SelectTypes DEF SelectTenant
    <2>2. CASE ~(ValidCsrf(r) /\ CanSelect(r))
      BY <1>0, <1>2, <1>6, <2>2 DEF SelectTenant
    <2>. QED  BY <2>1, <2>2
  <1>7. CASE ClaimByApi(r)
    <2>1. claims' \subseteq Claims  BY <1>0, <1>3, <1>7 DEF ClaimByApi
    <2>. QED  BY <1>0, <1>2, <1>7, <2>1 DEF ClaimByApi
  <1>8. CASE PairSubmit(r)
    <2>1. claims' \subseteq Claims  BY <1>0, <1>3, <1>8 DEF PairSubmit
    <2>2. tab' \in [Tabs -> Pages \cup {None}]  BY <1>0, <1>4, <1>8 DEF PairSubmit
    <2>. QED  BY <1>0, <1>2, <1>8, <2>1, <2>2 DEF PairSubmit
  <1>9. CASE Logout(r)
    <2>1. session' \in [Requests -> Sessions \cup {None}]
      <3>1. CASE UNCHANGED session  BY <1>0, <3>1
      <3>2. CASE session[req[r].cookie] # None
                 /\ session' = [session EXCEPT ![req[r].cookie].revoked = TRUE]
        BY <1>9, <3>2, SessionTypes DEF Logout, At
      <3>. QED  BY <1>9, <3>1, <3>2 DEF Logout
    <2>2. cookie' \in {cookie, None} /\ csrf' \in {csrf, None}  BY <1>9 DEF Logout
    <2>. QED  BY <1>0, <1>2, <1>9, <2>1, <2>2 DEF Logout
  <1>10. CASE ChooseTenant(r)
    <2>1. CASE CanSelect(r)
      <3>1. Select(r) /\ req' = [req EXCEPT ![r].phase = "selected"]
        BY <1>10, <2>1 DEF ChooseTenant
      <3>2. ASSUME NEW q \in Records
            PROVE  [q EXCEPT !.phase = "selected"] \in Records
        BY DEF Records, Phases
      <3>3. [req[r] EXCEPT !.phase = "selected"] \in Records  BY <1>0, <3>2
      <3>4. req' \in [Requests -> Records]  BY <1>0, <3>1, <3>3
      <3>. QED  BY <1>0, <1>10, <2>1, <3>1, <3>4, SelectTypes DEF ChooseTenant
    <2>2. CASE ~CanSelect(r)  BY <1>0, <1>2, <1>10, <2>2 DEF ChooseTenant
    <2>. QED  BY <2>1, <2>2
  <1>11. CASE Consent(r)  BY <1>0, <1>2, <1>11 DEF Consent
  <1>. QED  BY <1>5, <1>6, <1>7, <1>8, <1>9, <1>10, <1>11

LEMMA PortalTypes ==
  ASSUME PortalTypeOK, now \in Times, ClaimsSelected,
         \A r \in Requests : req[r].phase = "identified" => req[r].cookie \in Requests,
         \/ PortalNext
         \/ \E p \in Processes : Clean(p)
         \/ UNCHANGED portal
  PROVE  PortalTypeOK'
  <1>1. CASE \E r \in Requests :
               \/ LoginCount(r) \/ LoginFail(r) \/ LoginCommit(r) \/ LoggedIn(r)
               \/ \E f \in Forms, t \in Tabs, c \in Tenants \cup {None} : Open(r, f, t, c)
               \/ Identify(r)
    BY <1>1, PortalTypesOne
  <1>2. CASE \E r \in Requests :
               \/ PairPage(r) \/ SelectTenant(r) \/ ClaimByApi(r) \/ PairSubmit(r) \/ Logout(r)
               \/ ChooseTenant(r) \/ Consent(r)
    BY <1>2, PortalTypesTwo
  <1>3. CASE \E t \in Tenants : Membership(t)
    <2>1. memberships' \subseteq Tenants  BY <1>3 DEF Membership, PortalTypeOK
    <2>. QED  BY <1>3, <2>1, TypedIsTypeOK DEF Membership, PortalTyped, attempts, selection
  <1>4. CASE \E p \in Processes : Clean(p)
    <2>1. PICK p \in Processes : Clean(p)  BY <1>4
    <2>2. /\ attempt' \in [Requests -> Times \cup {None}]
          /\ session' \in [Requests -> Sessions \cup {None}]
      BY <2>1, TypedIsTypeOK DEF Clean, PortalTyped
    <2>. QED  BY <2>1, <2>2, TypedIsTypeOK DEF Clean, PortalTyped
  <1>5. CASE UNCHANGED portal
    BY <1>5, TypedIsTypeOK DEF portal, attempts, selection, PortalTyped
  <1>. QED
    BY <1>1, <1>2, <1>3, <1>4, <1>5 DEF PortalNext, PortalStep, PortalBegin

-----------------------------------------------------------------------------
(* The portal: the login limit                                              *)

Near(r) ==
  {q \in Requests : failedAt[q] # None /\ failedAt[q] <= failedAt[r]
                    /\ failedAt[q] + LoginWindow >= failedAt[r]}

Raced(r) == \E p, q \in Near(r) : p \in counted[q]

(* The failures in the window of a login that it has counted itself.        *)
Earlier(q) ==
  {p \in Requests : failedAt[p] # None /\ p \notin counted[q] /\ failedAt[p] + LoginWindow >= now}

(* A failure is recorded until it is older than any window, and once.       *)
FailuresKept ==
  \A q \in Requests :
    /\ attempt[q] # None => attempt[q] = failedAt[q]
    /\ failedAt[q] # None =>
         /\ req[q].phase = "done" /\ failedAt[q] <= now
         /\ attempt[q] # None \/ failedAt[q] + AttemptRetention < now

(* A login that may still fail had found fewer than the limit.              *)
FewCounted == \A q \in Counting : Cardinality(Earlier(q)) < MaxLoginFailures

CleanupsBegun == \A p \in Processes : since[p] <= now

LoginInv ==
  /\ PortalTypeOK /\ IsFiniteSet(Made) /\ FailuresKept /\ FewCounted
  /\ CleanupsBegun /\ LoginsLimited

LEMMA LimitedIsNear ==
  /\ LoginsLimited <=>
       \A r \in Requests :
         failedAt[r] # None /\ Cardinality(Near(r)) > MaxLoginFailures => Raced(r)
  /\ LoginsLimited' <=>
       \A r \in Requests :
         failedAt'[r] # None /\ Cardinality(Near(r)') > MaxLoginFailures => Raced(r)'
  BY DEF LoginsLimited, Near, Raced

(* Who has failed was made, and these are finitely many.                    *)
LEMMA FewMade ==
  ASSUME LoginInv
  PROVE  /\ \A r \in Requests : IsFiniteSet(Near(r)) /\ IsFiniteSet(Earlier(r))
         /\ IsFiniteSet(Failures)
  <1>1. IsFiniteSet(Made)  BY DEF LoginInv
  <1>2. \A q \in Requests : failedAt[q] # None \/ attempt[q] # None => q \in Made
    BY DEF LoginInv, FailuresKept, Made
  <1>3. ASSUME NEW r \in Requests
        PROVE  Near(r) \subseteq Made /\ Earlier(r) \subseteq Made
    BY <1>2 DEF Near, Earlier
  <1>4. Failures \subseteq Made  BY <1>2 DEF Failures
  <1>. QED  BY <1>1, <1>3, <1>4, FS_Subset

(* A step of one request that neither counts nor fails.                     *)
Quiet(r) ==
  /\ \A q \in Requests \ {r} : req'[q] = req[q]
  /\ req[r].phase # "done" /\ req'[r].phase # "counted"
  /\ UNCHANGED <<attempt, failedAt, counted>>

LEMMA QuietSteps ==
  ASSUME PortalTypeOK, NEW r \in Requests,
         \/ LoginCommit(r) \/ LoggedIn(r) \/ Identify(r) \/ PairPage(r) \/ SelectTenant(r)
         \/ ClaimByApi(r) \/ PairSubmit(r) \/ Logout(r) \/ ChooseTenant(r) \/ Consent(r)
         \/ \E f \in Forms, t \in Tabs, c \in Tenants \cup {None} : Open(r, f, t, c)
  PROVE  Quiet(r)
  <1>0. req \in [Requests -> Records]  BY TypedIsTypeOK DEF PortalTyped
  <1>1. ASSUME NEW ph \in {"done", "created"}, Set(r, ph)
        PROVE  req'[r].phase # "counted" /\ \A q \in Requests \ {r} : req'[q] = req[q]
    BY <1>0, <1>1, SetPhase
  <1> USE DEF attempts, Quiet
  <1>2. CASE LoginCommit(r)  BY <1>1, <1>2 DEF LoginCommit
  <1>3. CASE LoggedIn(r)  BY <1>1, <1>3 DEF LoggedIn
  <1>4. CASE Identify(r)
    <2>1. /\ req[r].phase = "sent" /\ UNCHANGED attempts
          /\ \/ Set(r, "done")
             \/ req' = [req EXCEPT ![r].phase = "identified", ![r].context = TenantOf(req[r].cookie),
                          ![r].choice = IF req[r].form = "authorize" THEN OnlyTenant ELSE @]
      BY <1>4 DEF Identify
    <2>2. CASE Set(r, "done")  BY <1>1, <2>1, <2>2
    <2>3. CASE ~Set(r, "done")
      <3>1. \A q \in Requests \ {r} : req'[q] = req[q]  BY <1>0, <2>1, <2>3
      <3>2. req'[r].phase = "identified"  BY <1>0, <2>1, <2>3 DEF Records
      <3>. QED  BY <2>1, <3>1, <3>2
    <2>. QED  BY <2>2, <2>3
  <1>5. CASE PairPage(r)  BY <1>1, <1>5 DEF PairPage, At
  <1>6. CASE SelectTenant(r)  BY <1>1, <1>6 DEF SelectTenant, At
  <1>7. CASE PairSubmit(r)  BY <1>1, <1>7 DEF PairSubmit, At
  <1>8. CASE Logout(r)  BY <1>1, <1>8 DEF Logout, At
  <1>9. CASE Consent(r)  BY <1>1, <1>9 DEF Consent, At
  <1>10. CASE ClaimByApi(r)  BY <1>1, <1>10 DEF ClaimByApi, At
  <1>11. CASE ChooseTenant(r)
    <2>1. req[r].phase = "identified" /\ UNCHANGED attempts  BY <1>11 DEF ChooseTenant, At
    <2>2. CASE Set(r, "done")  BY <1>1, <2>1, <2>2
    <2>3. CASE ~Set(r, "done")
      <3>1. req' = [req EXCEPT ![r].phase = "selected"]  BY <1>11, <2>3 DEF ChooseTenant
      <3>2. req'[r].phase = "selected" /\ \A q \in Requests \ {r} : req'[q] = req[q]
        BY <1>0, <3>1 DEF Records
      <3>. QED  BY <2>1, <3>2
    <2>. QED  BY <2>2, <2>3
  <1>12. CASE \E f \in Forms, t \in Tabs, c \in Tenants \cup {None} : Open(r, f, t, c)
    <2>1. PICK f \in Forms, t \in Tabs, c \in Tenants \cup {None} : Open(r, f, t, c)  BY <1>12
    <2>2. req'[r].phase = "sent" /\ \A q \in Requests \ {r} : req'[q] = req[q]
      BY <1>0, <2>1 DEF Open
    <2>. QED  BY <2>1, <2>2 DEF Open
  <1>. QED  BY <1>2, <1>3, <1>4, <1>5, <1>6, <1>7, <1>8, <1>9, <1>10, <1>11,
            <1>12

(* One request more is made, at most.                                       *)
LEMMA MadeStep ==
  ASSUME IsFiniteSet(Made), NEW r, \A q \in Requests \ {r} : req'[q] = req[q]
  PROVE  IsFiniteSet(Made')
  <1>1. Made' \subseteq Made \cup {r}  BY DEF Made
  <1>. QED  BY <1>1, FS_AddElement, FS_Subset

(* Failures grow old, and a cleanup deletes the oldest.                     *)
LEMMA LoginsStay ==
  ASSUME LoginInv, now \in Times, now' \in Times, now' >= now,
         UNCHANGED <<failedAt, counted>>, Counting' \subseteq Counting,
         \A q \in Requests : req[q].phase = "done" => req'[q].phase = "done",
         \A q \in Requests :
           \/ attempt'[q] = attempt[q]
           \/ attempt'[q] = None /\ (attempt[q] # None => attempt[q] + AttemptRetention < now)
  PROVE  FailuresKept' /\ FewCounted' /\ LoginsLimited'
  <1> USE PortalAssumption, RetentionAssumption, MaintenanceAssumption, ClockAssumption DEF Times
  <1>0. failedAt \in [Requests -> Times \cup {None}] /\ attempt \in [Requests -> Times \cup {None}]
    BY DEF LoginInv, PortalTypeOK
  <1>1. FailuresKept'
    <2> SUFFICES ASSUME NEW q \in Requests
                 PROVE  /\ attempt'[q] # None => attempt'[q] = failedAt'[q]
                        /\ failedAt'[q] # None =>
                             /\ req'[q].phase = "done" /\ failedAt'[q] <= now'
                             /\ attempt'[q] # None \/ failedAt'[q] + AttemptRetention < now'
      BY DEF FailuresKept
    <2>1. /\ attempt[q] # None => attempt[q] = failedAt[q]
          /\ failedAt[q] # None =>
               /\ req[q].phase = "done" /\ failedAt[q] <= now
               /\ attempt[q] # None \/ failedAt[q] + AttemptRetention < now
      BY DEF LoginInv, FailuresKept
    <2>2. failedAt'[q] = failedAt[q]  OBVIOUS
    <2>3. failedAt[q] # None => failedAt[q] \in Nat  BY <1>0
    <2>4. AttemptRetention \in Nat /\ now \in Nat /\ now' \in Nat  OBVIOUS
    <2>. QED  BY <2>1, <2>2, <2>3, <2>4
  <1>2. FewCounted'
    <2> SUFFICES ASSUME NEW q \in Counting'
                 PROVE  Cardinality(Earlier(q)') < MaxLoginFailures
      BY DEF FewCounted
    <2>1. q \in Counting /\ q \in Requests  BY DEF Counting
    <2>2. Earlier(q)' \subseteq Earlier(q)
      <3> SUFFICES ASSUME NEW p \in Requests, failedAt[p] # None, p \notin counted[q],
                          failedAt[p] + LoginWindow >= now'
                   PROVE  failedAt[p] + LoginWindow >= now
        BY DEF Earlier
      <3>1. failedAt[p] \in Nat  BY <1>0
      <3>. QED  BY <3>1
    <2>3. IsFiniteSet(Earlier(q)) /\ Cardinality(Earlier(q)) < MaxLoginFailures
      BY <2>1, FewMade DEF LoginInv, FewCounted
    <2>4. /\ Cardinality(Earlier(q)') <= Cardinality(Earlier(q))
          /\ Cardinality(Earlier(q)') \in Nat /\ Cardinality(Earlier(q)) \in Nat
      BY <2>2, <2>3, FS_Subset, FS_CardinalityType
    <2>. QED  BY <2>3, <2>4
  <1>3. LoginsLimited'  BY DEF LoginInv, LoginsLimited
  <1>. QED  BY <1>1, <1>2, <1>3

LEMMA CountKeeps ==
  ASSUME LoginInv, now \in Times, NEW r \in Requests, LoginCount(r), now' = now
  PROVE  FailuresKept' /\ FewCounted' /\ LoginsLimited'
  <1> USE PortalAssumption, RetentionAssumption, MaintenanceAssumption, ClockAssumption DEF Times
  <1>0. /\ failedAt \in [Requests -> Times \cup {None}] /\ attempt \in [Requests -> Times \cup {None}]
        /\ req \in [Requests -> Records]
    BY TypedIsTypeOK DEF LoginInv, PortalTyped, Times
  <1>1. /\ req[r].phase = "new" /\ UNCHANGED <<attempt, failedAt, counted>>
        /\ \A q \in Requests \ {r} : req'[q] = req[q]
        /\ req'[r].phase = "counted" => ~(Cardinality(Failures) >= MaxLoginFailures)
    <2>1. Set(r, IF Cardinality(Failures) >= MaxLoginFailures THEN "done" ELSE "counted")
      BY DEF LoginCount
    <2>2. /\ req'[r].phase = IF Cardinality(Failures) >= MaxLoginFailures THEN "done" ELSE "counted"
          /\ \A q \in Requests \ {r} : req'[q] = req[q]
      BY <1>0, <2>1, SetPhase
    <2>. QED  BY <2>2 DEF LoginCount, attempts
  <1>2. FailuresKept'  BY <1>1 DEF LoginInv, FailuresKept
  <1>3. ASSUME NEW q \in Counting'
        PROVE  Cardinality(Earlier(q)') < MaxLoginFailures
    <2>1. Earlier(q)' = Earlier(q) /\ q \in Requests  BY <1>1 DEF Earlier, Counting
    <2>2. CASE q # r
      <3>1. q \in Counting  BY <1>1, <2>1, <2>2 DEF Counting
      <3>. QED  BY <2>1, <3>1 DEF LoginInv, FewCounted
    <2>3. CASE q = r
      <3>1. ~(Cardinality(Failures) >= MaxLoginFailures)  BY <1>1, <2>3 DEF Counting
      <3>2. Earlier(r) \subseteq Failures
        <4> SUFFICES ASSUME NEW p \in Requests, failedAt[p] # None, failedAt[p] + LoginWindow >= now
                     PROVE  attempt[p] # None /\ attempt[p] + LoginWindow >= now
          BY DEF Earlier, Failures
        <4>1. failedAt[p] \in Nat  BY <1>0
        <4>2. /\ attempt[p] # None => attempt[p] = failedAt[p]
              /\ attempt[p] # None \/ failedAt[p] + AttemptRetention < now
          BY DEF LoginInv, FailuresKept
        <4>. QED  BY <4>1, <4>2
      <3>3. /\ Cardinality(Earlier(r)) <= Cardinality(Failures)
            /\ Cardinality(Earlier(r)) \in Nat /\ Cardinality(Failures) \in Nat
        BY <3>2, FewMade, FS_Subset, FS_CardinalityType
      <3>. QED  BY <2>1, <2>3, <3>1, <3>3
    <2>. QED  BY <2>2, <2>3
  <1>4. LoginsLimited'  BY <1>1 DEF LoginInv, LoginsLimited
  <1>. QED  BY <1>2, <1>3, <1>4 DEF FewCounted

(* The failure of r is the last so far: what is near another one, and with  *)
(* it, is what r had counted, or r was counted late.                        *)
LEMMA FailKeeps ==
  ASSUME LoginInv, now \in Times, NEW r \in Requests, LoginFail(r), now' = now
  PROVE  FailuresKept' /\ FewCounted' /\ LoginsLimited'
  <1> USE PortalAssumption, ClockAssumption DEF Times
  <1>0. /\ failedAt \in [Requests -> Times \cup {None}] /\ attempt \in [Requests -> Times \cup {None}]
        /\ req \in [Requests -> Records] /\ counted \in [Requests -> SUBSET Requests]
    BY TypedIsTypeOK DEF LoginInv, PortalTyped, Times
  <1>1. /\ r \in Counting /\ failedAt[r] = None
        /\ attempt' = [attempt EXCEPT ![r] = now] /\ failedAt' = [failedAt EXCEPT ![r] = now]
        /\ \A q \in Requests : counted'[q] =
             IF q \in Counting \ {r} THEN counted[q] \cup {r} ELSE counted[q]
    BY DEF LoginFail, Counting, LoginInv, FailuresKept
  <1>2. req'[r].phase = "done" /\ \A q \in Requests \ {r} : req'[q] = req[q]
    BY <1>0, SetPhase DEF LoginFail
  <1>3. /\ attempt'[r] = now /\ failedAt'[r] = now /\ now # None
        /\ \A q \in Requests \ {r} : attempt'[q] = attempt[q] /\ failedAt'[q] = failedAt[q]
    BY <1>0, <1>1
  <1>4. FailuresKept'
    <2> SUFFICES ASSUME NEW q \in Requests
                 PROVE  /\ attempt'[q] # None => attempt'[q] = failedAt'[q]
                        /\ failedAt'[q] # None =>
                             /\ req'[q].phase = "done" /\ failedAt'[q] <= now'
                             /\ attempt'[q] # None \/ failedAt'[q] + AttemptRetention < now'
      BY DEF FailuresKept
    <2>1. CASE q = r  BY <2>1, <1>2, <1>3
    <2>2. CASE q # r  BY <2>2, <1>2, <1>3 DEF LoginInv, FailuresKept
    <2>. QED  BY <2>1, <2>2
  <1>5. ASSUME NEW q \in Counting'
        PROVE  Cardinality(Earlier(q)') < MaxLoginFailures
    <2>1. q \in Counting \ {r} /\ q \in Requests  BY <1>2 DEF Counting
    <2>2. Earlier(q)' \subseteq Earlier(q)  BY <1>1, <1>3, <2>1 DEF Earlier
    <2>3. IsFiniteSet(Earlier(q)) /\ Cardinality(Earlier(q)) < MaxLoginFailures
      BY <2>1, FewMade DEF LoginInv, FewCounted
    <2>4. /\ Cardinality(Earlier(q)') <= Cardinality(Earlier(q))
          /\ Cardinality(Earlier(q)') \in Nat /\ Cardinality(Earlier(q)) \in Nat
      BY <2>2, <2>3, FS_Subset, FS_CardinalityType
    <2>. QED  BY <2>3, <2>4
  <1>6. ASSUME NEW s \in Requests, failedAt'[s] # None,
               Cardinality(Near(s)') > MaxLoginFailures, ~Raced(s)'
        PROVE  FALSE
    <2>1. CASE r \notin Near(s)'
      <3>1. s # r
        <4>1. r \in Requests /\ failedAt'[r] \in Nat /\ failedAt'[r] # None /\ LoginWindow \in Nat
          BY <1>3
        <4>2. failedAt'[r] <= failedAt'[r] /\ failedAt'[r] + LoginWindow >= failedAt'[r]
          BY <4>1
        <4>. QED  BY <2>1, <4>1, <4>2 DEF Near
      <3>2. Near(s)' = Near(s)
        <4>1. r \notin Near(s)  BY <1>1 DEF Near
        <4>2. \A q \in Requests \ {r} : q \in Near(s)' <=> q \in Near(s)
          BY <1>3, <3>1 DEF Near
        <4>3. Near(s) \subseteq Requests /\ Near(s)' \subseteq Requests  BY DEF Near
        <4>. QED  BY <2>1, <4>1, <4>2, <4>3
      <3>3. failedAt[s] # None  BY <1>3, <1>6, <3>1
      <3>4. Raced(s)  BY <1>6, <3>2, <3>3, LimitedIsNear DEF LoginInv
      <3>5. Near(s) \subseteq Requests  BY DEF Near
      <3>6. PICK p \in Near(s), q \in Near(s) : p \in counted[q]  BY <3>4 DEF Raced
      <3>7. p \in Near(s)' /\ q \in Near(s)' /\ p \in counted'[q]  BY <1>1, <3>2, <3>5, <3>6
      <3>. QED  BY <1>6, <3>7 DEF Raced
    <2>2. CASE r \in Near(s)'
      <3>1. /\ now <= failedAt'[s] /\ failedAt'[s] \in Nat
        <4>1. failedAt'[r] <= failedAt'[s]  BY <2>2 DEF Near
        <4>2. failedAt'[s] \in Nat  BY <1>0, <1>1, <1>6
        <4>. QED  BY <1>3, <4>1, <4>2
      <3>2. Near(s)' \ {r} \subseteq Earlier(r)
        <4> SUFFICES ASSUME NEW p \in Near(s)', p # r
                     PROVE  p \in Earlier(r)
          OBVIOUS
        <4>1. p \in Requests /\ failedAt'[p] # None /\ failedAt'[p] + LoginWindow >= failedAt'[s]
          BY DEF Near
        <4>2. failedAt[p] # None /\ failedAt[p] + LoginWindow >= failedAt'[s] /\ failedAt[p] \in Nat
          BY <1>0, <1>3, <4>1
        <4>3. failedAt[p] + LoginWindow >= now  BY <3>1, <4>2
        <4>4. p \notin counted'[r]  BY <1>6, <2>2 DEF Raced
        <4>5. p \notin counted[r]  BY <1>1, <4>4
        <4>. QED  BY <4>1, <4>2, <4>3, <4>5 DEF Earlier
      <3>3. IsFiniteSet(Earlier(r)) /\ Cardinality(Earlier(r)) < MaxLoginFailures
        BY <1>1, FewMade DEF LoginInv, FewCounted
      <3>4. PICK S : S = Near(s)' \ {r}  OBVIOUS
      <3>5. /\ IsFiniteSet(S) /\ Cardinality(S) <= Cardinality(Earlier(r))
            /\ Cardinality(S) \in Nat /\ Cardinality(Earlier(r)) \in Nat
        BY <3>2, <3>3, <3>4, FS_Subset, FS_CardinalityType
      <3>6. Near(s)' = S \cup {r} /\ r \notin S  BY <2>2, <3>4
      <3>7. Cardinality(Near(s)') = Cardinality(S) + 1  BY <3>5, <3>6, FS_AddElement
      <3>. QED  BY <1>6, <3>3, <3>5, <3>7
    <2>. QED  BY <2>1, <2>2
  <1>7. LoginsLimited'  BY <1>6, LimitedIsNear
  <1>. QED  BY <1>4, <1>5, <1>7 DEF FewCounted

LEMMA CleanupsBegin ==
  ASSUME CleanupsBegun, MaintenanceTypeOK, now \in Times, now' \in Times, now' >= now,
         \/ MaintenanceStep /\ now' = now
         \/ \E p \in Processes : Finish(p)
         \/ MaintenancePass
         \/ UNCHANGED maintenance
  PROVE  CleanupsBegun'
  <1> USE ClockAssumption DEF Times, CleanupsBegun, MaintenanceTypeOK, Processes
  <1>1. CASE \/ since' = since
             \/ now' = now /\ \E p \in Processes : since' = [since EXCEPT ![p] = now]
             \/ \E p \in Processes : since' = [since EXCEPT ![p] = 0]
    BY <1>1
  <1>2. CASE MaintenanceStep /\ now' = now
    BY <1>1, <1>2 DEF MaintenanceStep, Look, Start, ManualStart, FinishError, Finish,
                      DatabaseError, SchedulerDies, Restart, Wake
  <1>3. CASE \E p \in Processes : Finish(p)  BY <1>1, <1>3 DEF Finish
  <1>4. CASE UNCHANGED maintenance  BY <1>1, <1>4 DEF maintenance
  <1>5. CASE MaintenancePass  BY <1>1, <1>5 DEF MaintenancePass
  <1>. QED  BY <1>2, <1>3, <1>4, <1>5

LEMMA LoginsSafe ==
  ASSUME LoginInv, MaintenanceTypeOK, now \in Times, now' \in Times, now' >= now,
         \/ PortalNext /\ now' = now
         \/ \E p \in Processes : Clean(p)
         \/ UNCHANGED portal
  PROVE  IsFiniteSet(Made)' /\ FailuresKept' /\ FewCounted' /\ LoginsLimited'
  <1>0. IsFiniteSet(Made) /\ req \in [Requests -> Records]
    BY TypedIsTypeOK DEF LoginInv, PortalTyped
  <1>1. CASE UNCHANGED portal
    <2>1. UNCHANGED <<attempt, failedAt, counted, req>>  BY <1>1 DEF portal, attempts
    <2>. QED  BY <1>0, <2>1, LoginsStay DEF Made, Counting
  <1>2. ASSUME NEW p \in Processes, Clean(p)
        PROVE  IsFiniteSet(Made)' /\ FailuresKept' /\ FewCounted' /\ LoginsLimited'
    <2>1. UNCHANGED <<failedAt, counted, req>>  BY <1>2 DEF Clean
    <2>2. ASSUME NEW q \in Requests
          PROVE  \/ attempt'[q] = attempt[q]
                 \/ attempt'[q] = None /\ (attempt[q] # None => attempt[q] + AttemptRetention < now)
      <3>1. CASE q \notin OldAttempts(p)  BY <1>2, <3>1 DEF Clean
      <3>2. CASE q \in OldAttempts(p)
        <4>1. attempt'[q] = None  BY <1>2, <3>2 DEF Clean
        <4>2. attempt[q] # None /\ attempt[q] + AttemptRetention < since[p]
          BY <3>2 DEF OldAttempts
        <4>3. attempt[q] \in Nat /\ since[p] \in Nat /\ since[p] <= now /\ now \in Nat
              /\ AttemptRetention \in Nat
          BY <4>2, RetentionAssumption, ClockAssumption
             DEF LoginInv, PortalTypeOK, CleanupsBegun, MaintenanceTypeOK, Times
        <4>. QED  BY <4>1, <4>2, <4>3
      <3>. QED  BY <3>1, <3>2
    <2>. QED  BY <1>0, <2>1, <2>2, LoginsStay DEF Made, Counting
  <1>3. ASSUME NEW r \in Requests, Quiet(r)
        PROVE  IsFiniteSet(Made)' /\ FailuresKept' /\ FewCounted' /\ LoginsLimited'
    <2>1. IsFiniteSet(Made)'  BY <1>0, <1>3, MadeStep DEF Quiet
    <2>2. Counting' \subseteq Counting  BY <1>3 DEF Counting, Quiet
    <2>3. \A q \in Requests : req[q].phase = "done" => req'[q].phase = "done"
      BY <1>3 DEF Quiet
    <2>4. UNCHANGED <<attempt, failedAt, counted>>  BY <1>3 DEF Quiet
    <2>. QED  BY <2>1, <2>2, <2>3, <2>4, LoginsStay
  <1>4. ASSUME NEW r \in Requests, LoginCount(r) \/ LoginFail(r)
        PROVE  IsFiniteSet(Made)'
    <2>1. \E ph \in Phases : Set(r, ph)  BY <1>4 DEF LoginCount, LoginFail, Phases
    <2>2. \A q \in Requests \ {r} : req'[q] = req[q]  BY <1>0, <2>1, SetPhase
    <2>. QED  BY <1>0, <2>2, MadeStep
  <1>5. CASE PortalNext /\ now' = now
    <2>1. CASE \E r \in Requests : LoginCount(r)  BY <1>4, <1>5, <2>1, CountKeeps
    <2>2. CASE \E r \in Requests : LoginFail(r)  BY <1>4, <1>5, <2>2, FailKeeps
    <2>3. CASE \E t \in Tenants : Membership(t)
      <3>1. UNCHANGED <<attempt, failedAt, counted, req>>  BY <2>3 DEF Membership, attempts
      <3>. QED  BY <1>0, <3>1, LoginsStay DEF Made, Counting
    <2>4. ASSUME NEW r \in Requests,
                 \/ LoginCommit(r) \/ LoggedIn(r) \/ Identify(r) \/ PairPage(r)
                 \/ SelectTenant(r) \/ ClaimByApi(r) \/ PairSubmit(r) \/ Logout(r)
                 \/ ChooseTenant(r) \/ Consent(r)
                 \/ \E f \in Forms, t \in Tabs, c \in Tenants \cup {None} : Open(r, f, t, c)
          PROVE  Quiet(r)
      BY <2>4, QuietSteps DEF LoginInv
    <2>. QED
      BY <1>3, <1>5, <2>1, <2>2, <2>3, <2>4 DEF PortalNext, PortalStep, PortalBegin
  <1>. QED  BY <1>1, <1>2, <1>3, <1>5

-----------------------------------------------------------------------------
(* The portal: the selected tenant                                          *)

(* The login of a session that the browser has a cookie of is over.         *)
Entered(s) == s \in Requests /\ req[s].phase \notin {"new", "counted"}

Named ==
  /\ cookie # None => Entered(cookie)
  /\ \A q \in Requests : req[q].cookie # None => Entered(req[q].cookie)

(* A session has no tenant that the user was not told.                      *)
Standing(s) == session[s] # None => session[s].tenant \in told[s] \cup {None}

(* Nor has a request, unless another one overtook it; and the session still *)
(* has the tenant of the request, or none any more.                         *)
Consistent(q) ==
  /\ req[q].cookie \in Requests
  /\ req[q].form \in {"claim", "api"} => req[q].context # None
  /\ q \notin overtaken =>
       /\ req[q].context \in told[req[q].cookie] \cup {None}
       /\ session[req[q].cookie] # None =>
            session[req[q].cookie].tenant \in {req[q].context, None}

SelectionInv ==
  /\ Named
  /\ \A s \in Requests : Standing(s)
  /\ \A q \in Requests : req[q].phase = "identified" => Consistent(q)
  /\ ClaimedForSelected

(* A step of a request that keeps what was entered.                         *)
LEMMA NamedStays ==
  ASSUME Named, PortalTypeOK, NEW r \in Requests,
         \A q \in Requests \ {r} : req'[q] = req[q],
         Entered(r) => Entered(r)',
         req'[r].cookie \in {req[r].cookie, None, cookie},
         cookie' \in {cookie, None} \/ (cookie' = r /\ Entered(r)')
  PROVE  Named'
  <1>1. ASSUME NEW s, Entered(s)
        PROVE  Entered(s)'
    <2>1. CASE s = r  BY <1>1, <2>1
    <2>2. CASE s # r  BY <1>1, <2>2 DEF Entered
    <2>. QED  BY <2>1, <2>2
  <1>2. cookie' # None => Entered(cookie)'
    <2>1. CASE cookie' = cookie  BY <1>1, <2>1 DEF Named, Entered
    <2>2. CASE cookie' = r /\ Entered(r)'  BY <2>2 DEF Entered
    <2>. QED  BY <2>1, <2>2
  <1>3. ASSUME NEW q \in Requests, req'[q].cookie # None
        PROVE  Entered(req[q].cookie)'
    <2>1. PICK s : s = req'[q].cookie  OBVIOUS
    <2>2. Entered(s)
      <3>1. CASE q # r  BY <1>3, <2>1, <3>1 DEF Named
      <3>2. CASE q = r  BY <1>3, <2>1, <3>2 DEF Named
      <3>. QED  BY <3>1, <3>2
    <2>3. req'[s].phase \notin {"new", "counted"} /\ s \in Requests  BY <1>1, <2>2 DEF Entered
    <2>. QED  BY <2>1, <2>3 DEF Entered
  <1>. QED  BY <1>2, <1>3 DEF Named

(* A tenant that is dropped, and a session that is deleted, harm nothing.   *)
LEMMA SelectionStays ==
  ASSUME SelectionInv, UNCHANGED <<told, overtaken>>,
         \A s \in Requests :
           \/ session'[s] = None
           \/ session[s] # None /\ session'[s].tenant \in {session[s].tenant, None},
         NEW q \in Requests
  PROVE  /\ Standing(q)'
         /\ req'[q] = req[q] /\ req[q].phase = "identified" => Consistent(q)'
  <1>1. Standing(q)'  BY DEF SelectionInv, Standing
  <1>2. ASSUME req'[q] = req[q], req[q].phase = "identified"
        PROVE  Consistent(q)'
    <2>1. Consistent(q)  BY <1>2 DEF SelectionInv
    <2>2. PICK s \in Requests : s = req[q].cookie  BY <2>1 DEF Consistent
    <2>3. \/ session'[s] = None
          \/ session[s] # None /\ session'[s].tenant \in {session[s].tenant, None}
      OBVIOUS
    <2>. QED  BY <1>2, <2>1, <2>2, <2>3 DEF Consistent
  <1>. QED  BY <1>1, <1>2

(* What the steps make of the sessions: but for the selections and the      *)
(* logins, they drop tenants, revoke and delete.                            *)
Lessened ==
  \A s \in Requests :
    \/ session'[s] = None
    \/ /\ session[s] # None /\ session'[s].tenant \in {session[s].tenant, None}
       /\ session'[s].expires = session[s].expires
       /\ session'[s].revoked \in {session[s].revoked, TRUE}

LEMMA ResolvedLessens ==
  ASSUME PortalTypeOK, NEW s \in Requests, session[s] # None, session' = Resolved(s)
  PROVE  Lessened /\ session'[s].tenant = TenantOf(s)
  <1>1. session \in [Requests -> Sessions \cup {None}] /\ session[s] \in Sessions
    BY DEF PortalTypeOK
  <1>2. session' = [session EXCEPT ![s] = [session[s] EXCEPT !.tenant = TenantOf(s)]]
    BY DEF Resolved
  <1>3. /\ session'[s].tenant = TenantOf(s) /\ session'[s].expires = session[s].expires
        /\ session'[s].revoked = session[s].revoked
    BY <1>1, <1>2 DEF Sessions
  <1>4. \A t \in Requests \ {s} : session'[t] = session[t]  BY <1>1, <1>2
  <1>5. TenantOf(s) \in {session[s].tenant, None}  BY DEF TenantOf
  <1>. QED  BY <1>3, <1>4, <1>5 DEF Lessened

(* The requests that neither log in nor select.                             *)
LEMMA LesserSteps ==
  ASSUME PortalTypeOK, SelectionInv, NEW r \in Requests,
         \/ LoginCount(r) \/ LoginFail(r) \/ LoggedIn(r) \/ Identify(r) \/ PairPage(r)
         \/ ClaimByApi(r) \/ PairSubmit(r) \/ Logout(r) \/ Consent(r)
         \/ \E f \in Forms, t \in Tabs, c \in Tenants \cup {None} : Open(r, f, t, c)
  PROVE  Lessened /\ UNCHANGED <<told, overtaken>>
  <1> USE DEF attempts, selection
  <1>1. CASE UNCHANGED session
    <2>1. UNCHANGED <<told, overtaken>>
      BY DEF LoginCount, LoginFail, LoggedIn, Identify, PairPage, ClaimByApi, PairSubmit,
             Logout, Consent, Open
    <2>. QED  BY <1>1, <2>1 DEF Lessened
  <1>2. CASE LoggedIn(r) \/ Identify(r)
    <2>1. UNCHANGED <<told, overtaken>>  BY <1>2 DEF LoggedIn, Identify
    <2>2. \/ UNCHANGED session
          \/ \E s \in Requests : session[s] # None /\ session' = Resolved(s)
      <3>1. CASE LoggedIn(r)  BY <3>1 DEF LoggedIn, Valid
      <3>2. CASE Identify(r)
        <4>1. req[r].cookie \in Requests \cup {None}
          BY TypedIsTypeOK DEF PortalTyped, Records
        <4>. QED  BY <3>2, <4>1 DEF Identify, Valid
      <3>. QED  BY <1>2, <3>1, <3>2
    <2>. QED  BY <1>1, <2>1, <2>2, ResolvedLessens
  <1>3. CASE Logout(r)
    <2>1. UNCHANGED <<told, overtaken>>  BY <1>3 DEF Logout
    <2>2. PICK s \in Requests : s = req[r].cookie
      BY <1>3 DEF Logout, At, SelectionInv, Consistent
    <2>3. CASE session[s] # None /\ session' = [session EXCEPT ![s].revoked = TRUE]
      <3>1. session \in [Requests -> Sessions \cup {None}] /\ session[s] \in Sessions
        BY <2>3 DEF PortalTypeOK
      <3>2. /\ session'[s].tenant = session[s].tenant /\ session'[s].revoked = TRUE
            /\ session'[s].expires = session[s].expires
        BY <2>3, <3>1 DEF Sessions
      <3>3. \A t \in Requests \ {s} : session'[t] = session[t]  BY <2>3, <3>1
      <3>. QED  BY <2>1, <2>3, <3>2, <3>3 DEF Lessened
    <2>. QED  BY <1>1, <1>3, <2>2, <2>3 DEF Logout
  <1>. QED
    BY <1>1, <1>2, <1>3
       DEF LoginCount, LoginFail, PairPage, ClaimByApi, PairSubmit, Consent, Open

RequestStep(r) ==
  \/ LoginCount(r) \/ LoginFail(r) \/ LoginCommit(r) \/ LoggedIn(r) \/ Identify(r)
  \/ PairPage(r) \/ SelectTenant(r) \/ ClaimByApi(r) \/ PairSubmit(r) \/ Logout(r)
  \/ ChooseTenant(r) \/ Consent(r)
  \/ \E f \in Forms, t \in Tabs, c \in Tenants \cup {None} : Open(r, f, t, c)

(* A step is of one request, which gets a cookie when it is sent only, and  *)
(* is identified by _identity only.                                         *)
LEMMA RequestSteps ==
  ASSUME PortalTypeOK, NEW r \in Requests, RequestStep(r)
  PROVE  /\ \A q \in Requests \ {r} : req'[q] = req[q]
         /\ Entered(r) => Entered(r)'
         /\ req'[r].cookie \in {req[r].cookie, None, cookie}
         /\ cookie' \in {cookie, None} \/ (cookie' = r /\ Entered(r)')
         /\ req'[r].phase = "identified" =>
              /\ req[r].phase = "sent" /\ Identify(r) /\ Valid(req[r].cookie)
              /\ ~Refused(r, req[r].cookie)
              /\ req'[r].cookie = req[r].cookie /\ req'[r].form = req[r].form
              /\ req'[r].context = TenantOf(req[r].cookie)
  <1>0. req \in [Requests -> Records]  BY TypedIsTypeOK DEF PortalTyped
  <1>1. ASSUME NEW ph, Set(r, ph)
        PROVE  /\ \A q \in Requests \ {r} : req'[q] = req[q]
               /\ req'[r].phase = ph /\ req'[r].cookie = None
    BY <1>0, <1>1 DEF Set, New
  <1> USE DEF Entered
  <1>2. CASE LoginCount(r)
    <2>1. PICK ph \in {"done", "counted"} : Set(r, ph)  BY <1>2 DEF LoginCount
    <2>. QED  BY <1>1, <1>2, <2>1 DEF LoginCount
  <1>3. CASE LoginFail(r)  BY <1>1, <1>3 DEF LoginFail
  <1>4. CASE LoginCommit(r)
    <2>1. PICK ph \in {"done", "created"} : Set(r, ph)  BY <1>4 DEF LoginCommit
    <2>. QED  BY <1>1, <1>4, <2>1 DEF LoginCommit
  <1>5. CASE LoggedIn(r)  BY <1>1, <1>5 DEF LoggedIn
  <1>6. CASE Identify(r)
    <2>1. CASE Set(r, "done")  BY <1>1, <1>6, <2>1 DEF Identify
    <2>2. CASE ~Set(r, "done")
      <3>1. /\ Valid(req[r].cookie) /\ ~Refused(r, req[r].cookie)
            /\ req' = [req EXCEPT ![r].phase = "identified",
                         ![r].context = TenantOf(req[r].cookie),
                         ![r].choice = IF req[r].form = "authorize" THEN OnlyTenant ELSE @]
        BY <1>6, <2>2 DEF Identify
      <3>2. \A q \in Requests \ {r} : req'[q] = req[q]  BY <1>0, <3>1
      <3>3. /\ req'[r].phase = "identified" /\ req'[r].cookie = req[r].cookie
            /\ req'[r].form = req[r].form /\ req'[r].context = TenantOf(req[r].cookie)
        BY <1>0, <3>1 DEF Records
      <3>4. UNCHANGED cookie /\ req[r].phase = "sent"  BY <1>6 DEF Identify
      <3>. QED  BY <1>6, <3>1, <3>2, <3>3, <3>4
    <2>. QED  BY <2>1, <2>2
  <1>7. CASE PairPage(r)  BY <1>1, <1>7 DEF PairPage
  <1>8. CASE SelectTenant(r)  BY <1>1, <1>8 DEF SelectTenant
  <1>9. CASE ClaimByApi(r)  BY <1>1, <1>9 DEF ClaimByApi
  <1>10. CASE PairSubmit(r)  BY <1>1, <1>10 DEF PairSubmit
  <1>11. CASE Logout(r)  BY <1>1, <1>11 DEF Logout
  <1>12. CASE ChooseTenant(r)
    <2>1. UNCHANGED cookie  BY <1>12 DEF ChooseTenant
    <2>2. CASE Set(r, "done")  BY <1>1, <2>1, <2>2
    <2>3. CASE ~Set(r, "done")
      <3>1. req' = [req EXCEPT ![r].phase = "selected"]  BY <1>12, <2>3 DEF ChooseTenant
      <3>2. /\ req'[r].phase = "selected" /\ req'[r].cookie = req[r].cookie
            /\ \A q \in Requests \ {r} : req'[q] = req[q]
        BY <1>0, <3>1 DEF Records
      <3>. QED  BY <2>1, <3>2
    <2>. QED  BY <2>2, <2>3
  <1>13. CASE Consent(r)  BY <1>1, <1>13 DEF Consent
  <1>14. CASE \E f \in Forms, t \in Tabs, c \in Tenants \cup {None} : Open(r, f, t, c)
    <2>1. PICK f \in Forms, t \in Tabs, c \in Tenants \cup {None} : Open(r, f, t, c)  BY <1>14
    <2>2. /\ req'[r].phase = "sent" /\ req'[r].cookie = cookie /\ req[r].phase = "new"
          /\ \A q \in Requests \ {r} : req'[q] = req[q]
      BY <1>0, <2>1 DEF Open
    <2>3. UNCHANGED cookie  BY <2>1 DEF Open
    <2>. QED  BY <2>2, <2>3
  <1>. QED
    BY <1>2, <1>3, <1>4, <1>5, <1>6, <1>7, <1>8, <1>9, <1>10, <1>11, <1>12, <1>13, <1>14
       DEF RequestStep

(* The login creates a session that no request has a cookie of.             *)
LEMMA LoginSelects ==
  ASSUME PortalTypeOK, SelectionInv, NEW r \in Requests, LoginCommit(r), NEW q \in Requests
  PROVE  /\ Standing(q)'
         /\ req'[q] = req[q] /\ req[q].phase = "identified" => Consistent(q)'
  <1>1. /\ session \in [Requests -> Sessions \cup {None}]
        /\ told \in [Requests -> SUBSET (Tenants \cup {None})]
    BY DEF PortalTypeOK
  <1>2. UNCHANGED overtaken  BY DEF LoginCommit
  <1>3. CASE UNCHANGED <<session, told>>
    BY <1>2, <1>3 DEF SelectionInv, Standing, Consistent
  <1>4. CASE ~UNCHANGED <<session, told>>
    <2>1. /\ session' = [session EXCEPT ![r] =
               [expires |-> now + SessionLife, revoked |-> FALSE, tenant |-> OnlyTenant]]
          /\ told' = [told EXCEPT ![r] = {OnlyTenant}]
      BY <1>4 DEF LoginCommit
    <2>2. \A s \in Requests \ {r} : session'[s] = session[s] /\ told'[s] = told[s]
      BY <1>1, <2>1
    <2>3. session'[r].tenant \in told'[r]  BY <1>1, <2>1
    <2>4. Standing(q)'
      <3>1. CASE q = r  BY <2>3, <3>1 DEF Standing
      <3>2. CASE q # r  BY <2>2, <3>2 DEF Standing, SelectionInv
      <3>. QED  BY <3>1, <3>2
    <2>5. ASSUME req'[q] = req[q], req[q].phase = "identified"
          PROVE  Consistent(q)'
      <3>1. Consistent(q)  BY <2>5 DEF SelectionInv
      <3>2. req[q].cookie \in Requests /\ req[q].cookie # None
        BY <3>1, PortalAssumption DEF Consistent
      <3>3. Entered(req[q].cookie)  BY <3>2 DEF SelectionInv, Named
      <3>4. req[q].cookie # r  BY <3>3 DEF Entered, LoginCommit
      <3>. QED  BY <1>2, <2>2, <2>5, <3>1, <3>2, <3>4 DEF Consistent
    <2>. QED  BY <2>4, <2>5
  <1>. QED  BY <1>3, <1>4

(* A selection is told, and overtakes the other requests of its session.    *)
LEMMA SelectSelects ==
  ASSUME PortalTypeOK, SelectionInv, NEW r \in Requests, Consistent(r), CanSelect(r), Select(r),
         NEW q \in Requests
  PROVE  /\ Standing(q)'
         /\ q # r /\ req'[q] = req[q] /\ req[q].phase = "identified" => Consistent(q)'
  <1>1. /\ session \in [Requests -> Sessions \cup {None}]
        /\ told \in [Requests -> SUBSET (Tenants \cup {None})]
    BY DEF PortalTypeOK
  <1>2. PICK s \in Requests : s = req[r].cookie  BY DEF Consistent
  <1>3. /\ told' = [told EXCEPT ![s] =
             IF r \in overtaken THEN told[s] \cup {req[r].choice} ELSE {req[r].choice}]
        /\ overtaken' = (overtaken \cup Overtakes(r)) \ {r}
    BY <1>1, <1>2 DEF Select, Recorded
  <1>4. /\ \A t \in Requests \ {s} : told'[t] = told[t]
        /\ told'[s] = IF r \in overtaken THEN told[s] \cup {req[r].choice} ELSE {req[r].choice}
    BY <1>1, <1>3
  <1>5. \A t \in Requests \ {s} : session'[t] = session[t]
    BY <1>1, <1>2 DEF Select
  <1>6. Standing(s)'
    <2>1. CASE req[r].choice = req[r].context
      <3>1. session'[s] = session[s]  BY <2>1 DEF Select
      <3>2. CASE r \in overtaken  BY <1>4, <3>1, <3>2 DEF SelectionInv, Standing
      <3>3. CASE r \notin overtaken
        BY <1>2, <1>4, <2>1, <3>1, <3>3 DEF Consistent, Standing
      <3>. QED  BY <3>2, <3>3
    <2>2. CASE req[r].choice # req[r].context
      <3>1. session[s] # None /\ session[s] \in Sessions
        BY <1>1, <1>2, <2>2 DEF CanSelect
      <3>2. session' = [session EXCEPT ![s].tenant = req[r].choice]
        BY <1>2, <2>2 DEF Select
      <3>3. session'[s].tenant = req[r].choice  BY <1>1, <3>1, <3>2 DEF Sessions
      <3>. QED  BY <1>4, <3>3 DEF Standing
    <2>. QED  BY <2>1, <2>2
  <1>7. Standing(q)'
    <2>1. CASE q = s  BY <1>6, <2>1 DEF Standing
    <2>2. CASE q # s  BY <1>4, <1>5, <2>2 DEF SelectionInv, Standing
    <2>. QED  BY <2>1, <2>2
  <1>8. ASSUME q # r, req'[q] = req[q], req[q].phase = "identified"
        PROVE  Consistent(q)'
    <2>1. Consistent(q)  BY <1>8 DEF SelectionInv
    <2>2. CASE req[q].cookie = s
      <3>1. q \in overtaken'  BY <1>2, <1>3, <1>8, <2>2 DEF Overtakes
      <3>. QED  BY <1>8, <2>1, <3>1 DEF Consistent
    <2>3. CASE req[q].cookie # s
      <3>1. req[q].cookie \in Requests \ {s}  BY <2>1, <2>3 DEF Consistent
      <3>2. q \notin overtaken' => q \notin overtaken  BY <1>3, <1>8
      <3>. QED  BY <1>4, <1>5, <1>8, <2>1, <3>1, <3>2 DEF Consistent
    <2>. QED  BY <2>2, <2>3
  <1>. QED  BY <1>7, <1>8

(* A claim is recorded with what its request was told.                      *)
LEMMA ClaimsSelect ==
  ASSUME PortalTypeOK, SelectionInv, NEW r \in Requests, RequestStep(r)
  PROVE  ClaimedForSelected'
  <1>1. CASE UNCHANGED claims  BY <1>1 DEF SelectionInv, ClaimedForSelected
  <1>2. CASE Claimed(r) /\ req[r].phase = "identified" /\ req[r].form \in {"claim", "api"}
    <2>1. Consistent(r) /\ ClaimedForSelected  BY <1>2 DEF SelectionInv
    <2>2. r \in overtaken \/ req[r].context \in told[req[r].cookie]
      BY <1>2, <2>1 DEF Consistent
    <2>3. PICK c : /\ c = [to |-> req[r].context, told |-> told[req[r].cookie],
                          overtaken |-> r \in overtaken]
                   /\ claims' = claims \cup {c}
      BY <1>2 DEF Claimed
    <2>4. c.overtaken \/ c.to \in c.told
      <3>1. CASE r \in overtaken  BY <2>3, <3>1
      <3>2. CASE r \notin overtaken
        <4>1. c.to = req[r].context /\ c.told = told[req[r].cookie]  BY <2>3
        <4>. QED  BY <2>2, <3>2, <4>1
      <3>. QED  BY <3>1, <3>2
    <2>. QED  BY <2>1, <2>3, <2>4 DEF ClaimedForSelected
  <1>. QED
    BY <1>1, <1>2
       DEF RequestStep, At, LoginCount, LoginFail, LoginCommit, LoggedIn, Identify, PairPage,
           SelectTenant, ClaimByApi, PairSubmit, Logout, ChooseTenant, Consent, Open

LEMMA RequestSelects ==
  ASSUME PortalTypeOK, SelectionInv, NEW r \in Requests, RequestStep(r)
  PROVE  SelectionInv'
  <1>1. Named'  BY RequestSteps, NamedStays DEF SelectionInv
  <1>2. ClaimedForSelected'  BY ClaimsSelect
  <1>3. SUFFICES ASSUME NEW q \in Requests
                 PROVE  Standing(q)' /\ (req'[q].phase = "identified" => Consistent(q)')
    BY <1>1, <1>2 DEF SelectionInv
  <1>4. q # r => req'[q] = req[q]  BY RequestSteps
  <1>5. ASSUME Lessened, UNCHANGED <<told, overtaken>>
        PROVE  /\ Standing(q)'
               /\ req'[q] = req[q] /\ req[q].phase = "identified" => Consistent(q)'
    BY <1>5, SelectionStays DEF Lessened
  <1>6. CASE LoginCommit(r)
    <2>1. req'[r].phase # "identified"  BY <1>6, RequestSteps DEF LoginCommit
    <2>. QED  BY <1>4, <1>6, <2>1, LoginSelects
  <1>7. CASE SelectTenant(r) \/ ChooseTenant(r)
    <2>1. req'[r].phase # "identified" /\ Consistent(r)
      BY <1>7, RequestSteps DEF SelectTenant, ChooseTenant, At, SelectionInv
    <2>2. CASE CanSelect(r) /\ Select(r)  BY <1>4, <2>1, <2>2, SelectSelects
    <2>3. CASE UNCHANGED selection
      <3>1. Lessened /\ UNCHANGED <<told, overtaken>>  BY <2>3 DEF Lessened, selection
      <3>. QED  BY <1>4, <1>5, <2>1, <3>1
    <2>. QED  BY <1>7, <2>2, <2>3 DEF SelectTenant, ChooseTenant
  <1>8. CASE ~(LoginCommit(r) \/ SelectTenant(r) \/ ChooseTenant(r))
    <2>1. Lessened /\ UNCHANGED <<told, overtaken>>  BY <1>8, LesserSteps DEF RequestStep
    <2>2. CASE q # r  BY <1>4, <1>5, <2>1, <2>2
    <2>3. CASE q = r
      <3>1. Standing(q)'  BY <1>5, <2>1
      <3>2. ASSUME req'[r].phase = "identified"
            PROVE  Consistent(r)'
        <4>1. PICK s : s = req[r].cookie  OBVIOUS
        <4>2. /\ Valid(s) /\ ~Refused(r, s) /\ Identify(r)
              /\ req'[r].cookie = s /\ req'[r].form = req[r].form
              /\ req'[r].context = TenantOf(s)
          BY <3>2, <4>1, RequestSteps
        <4>3. s \in Requests /\ session[s] # None
          BY <4>1, <4>2, TypedIsTypeOK DEF PortalTyped, Records, Valid
        <4>4. session'[s].tenant = TenantOf(s)
          BY <4>1, <4>2, <4>3, ResolvedLessens DEF Identify
        <4>5. TenantOf(s) \in told[s] \cup {None}
          BY <4>3 DEF SelectionInv, Standing, TenantOf
        <4>6. req[r].form \in {"claim", "api"} => TenantOf(s) # None
          BY <4>2 DEF Refused
        <4>. QED  BY <2>1, <4>2, <4>3, <4>4, <4>5, <4>6 DEF Consistent
      <3>. QED  BY <2>3, <3>1, <3>2
    <2>. QED  BY <2>2, <2>3
  <1>. QED  BY <1>6, <1>7, <1>8

(* What the cleanup deletes is old, and the rest is left as it is.          *)
LEMMA CleanLessens ==
  ASSUME NEW p \in Processes, Clean(p), PortalTypeOK
  PROVE  Lessened /\ UNCHANGED <<told, overtaken, req, cookie, claims>>
  <1>1. \A s \in Requests : session'[s] \in {session[s], None}  BY DEF Clean
  <1>2. UNCHANGED <<told, overtaken, req, cookie, claims>>  BY DEF Clean
  <1>. QED  BY <1>1, <1>2 DEF Lessened

LEMMA SelectionSafe ==
  ASSUME PortalTypeOK, SelectionInv,
         \/ PortalNext
         \/ \E p \in Processes : Clean(p)
         \/ UNCHANGED portal
  PROVE  SelectionInv'
  <1>1. CASE \E r \in Requests : RequestStep(r)  BY <1>1, RequestSelects
  <1>2. CASE Lessened /\ UNCHANGED <<told, overtaken, req, cookie, claims>>
    <2>1. Named' /\ ClaimedForSelected'
      BY <1>2 DEF SelectionInv, Named, Entered, ClaimedForSelected
    <2>2. ASSUME NEW q \in Requests
          PROVE  Standing(q)' /\ (req'[q].phase = "identified" => Consistent(q)')
      BY <1>2, SelectionStays DEF Lessened
    <2>. QED  BY <2>1, <2>2 DEF SelectionInv
  <1>3. CASE \E p \in Processes : Clean(p)  BY <1>2, <1>3, CleanLessens
  <1>4. CASE UNCHANGED portal \/ \E t \in Tenants : Membership(t)
    <2>1. UNCHANGED <<session, told, overtaken, req, cookie, claims>>
      BY <1>4 DEF portal, Membership, selection
    <2>. QED  BY <1>2, <2>1 DEF Lessened
  <1>. QED
    BY <1>1, <1>3, <1>4 DEF PortalNext, PortalStep, PortalBegin, RequestStep

(* A session that is valid was, and was so longer; or its login made it.    *)
LEMMA OnlyLoginsBegin ==
  ASSUME PortalTypeOK, SelectionInv, now \in Times, now' \in Times, now' >= now,
         \/ PortalNext
         \/ \E p \in Processes : Clean(p)
         \/ UNCHANGED portal,
         NEW s \in Requests, Valid(s)'
  PROVE  Valid(s) \/ req[s].phase = "counted"
  <1>0. session'[s] # None /\ ~session'[s].revoked /\ session'[s].expires > now'
    BY DEF Valid
  <1>1. ASSUME session[s] # None, session'[s].expires = session[s].expires,
               session'[s].revoked \in {session[s].revoked, TRUE}
        PROVE  Valid(s)
    <2>1. session[s] \in Sessions  BY <1>1 DEF PortalTypeOK
    <2>2. session[s].expires \in Nat /\ session[s].revoked \in BOOLEAN
      BY <2>1, PortalAssumption, ClockAssumption DEF Sessions
    <2>3. ~session[s].revoked  BY <1>0, <1>1, <2>2
    <2>4. session[s].expires > now
      BY <1>0, <1>1, <2>2, ClockAssumption DEF Times
    <2>. QED  BY <1>1, <2>3, <2>4, PortalAssumption DEF Valid
  <1>2. CASE Lessened  BY <1>0, <1>1, <1>2 DEF Lessened
  <1>3. CASE UNCHANGED session
    BY <1>0, <1>2, <1>3 DEF Lessened
  <1>4. CASE \E r \in Requests : LoginCommit(r)
    <2>1. PICK r \in Requests : LoginCommit(r)  BY <1>4
    <2>2. session \in [Requests -> Sessions \cup {None}]  BY DEF PortalTypeOK
    <2>3. CASE s = r  BY <2>1, <2>3 DEF LoginCommit
    <2>4. CASE s # r
      <3>1. session'[s] = session[s]  BY <2>1, <2>2, <2>4 DEF LoginCommit
      <3>. QED  BY <1>0, <1>1, <3>1
    <2>. QED  BY <2>3, <2>4
  <1>5. CASE \E r \in Requests : SelectTenant(r) \/ ChooseTenant(r)
    <2>1. PICK r \in Requests : SelectTenant(r) \/ ChooseTenant(r)  BY <1>5
    <2>2. session \in [Requests -> Sessions \cup {None}]  BY DEF PortalTypeOK
    <2>3. Consistent(r)  BY <2>1 DEF SelectTenant, ChooseTenant, At, SelectionInv
    <2>4. PICK t \in Requests : t = req[r].cookie  BY <2>3 DEF Consistent
    <2>5. CASE UNCHANGED session  BY <1>3, <2>5
    <2>6. CASE ~UNCHANGED session
      <3>1. /\ session' = [session EXCEPT ![t].tenant = req[r].choice]
            /\ session[t] # None
        BY <2>1, <2>4, <2>6 DEF SelectTenant, ChooseTenant, Select, CanSelect, selection
      <3>2. session[t] \in Sessions  BY <2>2, <3>1
      <3>3. /\ session'[t].expires = session[t].expires
            /\ session'[t].revoked = session[t].revoked
        BY <2>2, <3>1, <3>2 DEF Sessions
      <3>4. s # t => session'[s] = session[s]  BY <2>2, <3>1
      <3>. QED  BY <1>0, <1>1, <3>1, <3>3, <3>4
    <2>. QED  BY <2>5, <2>6
  <1>6. CASE \E r \in Requests :
               \/ LoginCount(r) \/ LoginFail(r) \/ LoggedIn(r) \/ Identify(r) \/ PairPage(r)
               \/ ClaimByApi(r) \/ PairSubmit(r) \/ Logout(r) \/ Consent(r)
               \/ \E f \in Forms, t \in Tabs, c \in Tenants \cup {None} : Open(r, f, t, c)
    BY <1>2, <1>6, LesserSteps
  <1>7. CASE \E t \in Tenants : Membership(t)
    BY <1>3, <1>7 DEF Membership, selection
  <1>8. CASE UNCHANGED portal  BY <1>3, <1>8 DEF portal, selection
  <1>9. CASE \E p \in Processes : Clean(p)  BY <1>2, <1>9, CleanLessens
  <1>. QED
    BY <1>4, <1>5, <1>6, <1>7, <1>8, <1>9 DEF PortalNext, PortalStep, PortalBegin

LEMMA InitLogins ==
  ASSUME Init
  PROVE  LoginInv
  <1> USE PortalAssumption, ClockAssumption, MaintenanceAssumption DEF Init, PortalInit, Times
  <1>1. PortalTypeOK
    <2>1. New \in Records  BY DEF New, Records, Phases
    <2>2. PortalTyped  BY <2>1 DEF PortalTyped
    <2>. QED  BY <2>2, TypedIsTypeOK
  <1>2. Made = {}  BY DEF Made, New
  <1>3. \A q \in Requests : attempt[q] = None /\ failedAt[q] = None  OBVIOUS
  <1>4. FailuresKept /\ LoginsLimited  BY <1>3 DEF FailuresKept, LoginsLimited
  <1>5. FewCounted  BY DEF FewCounted, Counting, New
  <1>6. CleanupsBegun  BY DEF CleanupsBegun, MaintenanceInit
  <1>. QED  BY <1>1, <1>2, <1>4, <1>5, <1>6, FS_EmptySet DEF LoginInv

(* What a step of the whole is for the portal and for the cleanup.          *)
LEMMA PortalSteps ==
  ASSUME now \in Times, [Next]_vars
  PROVE  /\ now' \in Times /\ now' >= now
         /\ \/ PortalNext /\ now' = now
            \/ \E p \in Processes : Clean(p)
            \/ UNCHANGED portal
         /\ \/ MaintenanceStep /\ now' = now
            \/ \E p \in Processes : Finish(p)
            \/ MaintenancePass
            \/ UNCHANGED maintenance
  <1> USE ClockAssumption DEF Times
  <1>1. CASE /\ PortalStep \/ (MayBegin /\ PortalBegin) \/ (\E t \in Tenants : Membership(t))
             /\ UNCHANGED <<now, link, maintenance>>
    BY <1>1 DEF PortalNext
  <1>2. CASE \E r \in Requests : GiveCode(r)
    BY <1>2 DEF GiveCode, PortalNext
  <1>3. CASE /\ \/ LinkStep
                \/ /\ MayBegin
                   /\ \E x \in Exchanges \ Working, c \in Credentials :
                        x = Unused /\ Exchange(x, c)
             /\ UNCHANGED <<now, portal, maintenance>>
    BY <1>3
  <1>4. CASE MaintenanceStep /\ UNCHANGED <<now, portal, link>>
    BY <1>4
  <1>5. CASE \E p \in Processes : Clean(p)
    BY <1>5 DEF Clean
  <1>6. CASE Tick
    BY <1>6 DEF Tick, Pass
  <1>7. CASE UNCHANGED vars
    BY <1>7 DEF vars
  <1>. QED  BY <1>1, <1>2, <1>3, <1>4, <1>5, <1>6, <1>7 DEF Next

LEMMA NextLogins ==
  ASSUME SafeInv, LoginInv, SelectionInv, [Next]_vars
  PROVE  LoginInv' /\ SelectionInv'
  <1>1. now \in Times /\ MaintenanceTypeOK /\ PortalTypeOK  BY DEF SafeInv, CleanInv, LoginInv
  <1>2. /\ ClaimsSelected
        /\ \A r \in Requests : req[r].phase = "identified" => req[r].cookie \in Requests
    BY DEF SelectionInv, Consistent, ClaimsSelected
  <1>3. PortalTypeOK'  BY <1>1, <1>2, PortalSteps, PortalTypes
  <1>4. LoginInv'
    BY <1>1, <1>3, PortalSteps, LoginsSafe, CleanupsBegin DEF LoginInv
  <1>5. SelectionInv'  BY <1>1, PortalSteps, SelectionSafe
  <1>. QED  BY <1>4, <1>5

LEMMA InitSelection ==
  ASSUME Init
  PROVE  SelectionInv
  <1>1. \A r \in Requests : req[r].phase = "new" /\ req[r].cookie = None /\ session[r] = None
    BY DEF Init, PortalInit, New
  <1>2. cookie = None /\ claims = {}  BY DEF Init, PortalInit
  <1>. QED  BY <1>1, <1>2 DEF SelectionInv, Named, Standing, ClaimedForSelected

LEMMA AlwaysLogins == Spec => [](LoginInv /\ SelectionInv)
  BY InitLogins, InitSelection, NextLogins, AlwaysSafe, PTL DEF Spec

(* An installation is claimed for a tenant that the user was last told is   *)
(* selected, by whichever route, unless another request of the session      *)
(* selected during the claim: for any number of tabs, tenants, sessions and *)
(* requests, and whatever the user's memberships become                     *)
(* (pairing_api.py:89-97, 161-168, 511-536, portal_auth.py:143-152).        *)
THEOREM ClaimedForSelectedAlways == Spec => []ClaimedForSelected
  <1>1. SelectionInv => ClaimedForSelected  BY DEF SelectionInv
  <1>. QED  BY <1>1, AlwaysLogins, PTL

(* No request makes a session valid that was logged out, had ended or was   *)
(* deleted: only a login does, whatever the requests that had found it      *)
(* valid write later (portal_auth.py:114-147, 166-168).                     *)
THEOREM SessionsEndAlways == Spec => SessionsEnd
  <1>1. ASSUME SafeInv, LoginInv, SelectionInv, [Next]_vars
        PROVE  [\A s \in Requests : Valid(s)' => Valid(s) \/ req[s].phase = "counted"]_<<now, portal>>
    <2>1. now \in Times /\ PortalTypeOK  BY <1>1 DEF SafeInv, LoginInv
    <2>. QED  BY <1>1, <2>1, PortalSteps, OnlyLoginsBegin
  <1>. QED  BY <1>1, AlwaysSafe, AlwaysLogins, PTL DEF Spec, SessionsEnd

(* The portal, the account link and the cleanup keep their types, whatever  *)
(* sessions, tokens and attempts the cleanup deletes under the requests     *)
(* that are under way (portal_auth.py:58-190, alexa.py:88-264,              *)
(* history.py:76-111).                                                      *)
THEOREM AccountsTypes == Spec => []TypeOK
  <1>1. SafeInv /\ LoginInv => TypeOK
    BY DEF SafeInv, LinkInv, CleanInv, LoginInv, TypeOK
  <1>. QED  BY <1>1, AlwaysSafe, AlwaysLogins, PTL

(* More failures than the limit are in one window only when one of them was *)
(* committed after another had counted: for every limit, every window       *)
(* shorter than the retention of the attempts, and any number of requests,  *)
(* in any order with the cleanup that deletes what they count               *)
(* (portal_auth.py:58-90, history.py:76-111).                               *)
THEOREM LoginsLimitedAlways == Spec => []LoginsLimited
  <1>1. LoginInv => LoginsLimited  BY DEF LoginInv
  <1>. QED  BY <1>1, AlwaysLogins, PTL
=============================================================================
