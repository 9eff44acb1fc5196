------------------------------- MODULE Pairing -------------------------------
(***************************************************************************)
(* Pairing of a Home Assistant installation with a tenant, and the life of  *)
(* its Connector credentials: PairingService (apps/cloud_api/app/pairing.py) *)
(* and the config flow of the Connector that drives it.                     *)
(*                                                                         *)
(* Every operation is one database transaction of its own request, at READ  *)
(* COMMITTED: a plain read sees what is committed at that moment, a read    *)
(* FOR UPDATE waits for the row and keeps it until the transaction ends,    *)
(* and the writes appear together at the commit.  What a transaction read   *)
(* stays in its ORM objects: it is remembered here, not read again.         *)
(*                                                                         *)
(* An installation, and its first credential, are named by the claim that   *)
(* creates them; a pairing session by the call that inserts it.             *)
(***************************************************************************)
EXTENDS Naturals, FiniteSets

CONSTANTS
  Pairings,         \* calls of create_session
  NonceOf,          \* the installation nonce each of them sends
  Claims,           \* calls of claim, all by one user of one tenant
  Polls,            \* poll requests
  Rotations,        \* calls of rotate_credential
  MaxFailures,      \* failed attempts per window (5)
  NoPairing, NoClaim, NoPoll, NoTx

Transactions == Pairings \cup Claims \cup Polls \cup Rotations
Credentials  == Claims \cup Rotations

ASSUME PairingAssumption ==
  /\ IsFiniteSet(Pairings) /\ IsFiniteSet(Claims)
  /\ Pairings \cap Claims = {} /\ Polls \cap (Pairings \cup Claims) = {}
  /\ Rotations \cap (Pairings \cup Claims \cup Polls) = {}
  /\ DOMAIN NonceOf = Pairings
  /\ MaxFailures \in Nat \ {0}
  /\ NoPairing \notin Pairings /\ NoClaim \notin Credentials
  /\ NoPoll \notin Polls /\ NoTx \notin Transactions

Statuses == {"none", "pending", "claimed", "expired", "locked"}

(* Where a transaction is.  "failed" is an error answer or a rollback.      *)
Steps == {"idle", "started", "holding", "answered", "done", "failed"}

Flows == {"none", "form", "polling", "created", "updated",
          "expired", "denied", "unknown", "wrong_installation",
          "already_configured"}

VARIABLES
  status, claimedBy, envelope,   \* pairing_sessions
  overdue,          \* pairing sessions whose expires_at has passed
  rowLock,          \* the transaction that read a pairing session FOR UPDATE
  failed,           \* unsuccessful attempts of the user in the window
  revoked,          \* connector_credentials with a revoked_at
  at,               \* where each transaction is
  before,           \* transactions of its kind committed when it started
  existing,         \* the session create_session found pending
  code, late,       \* the session a claim names; expired when it started
  rowSeen,          \* the status a claim or a poll read
  target,           \* the session a poll asks about
  carried,          \* the credential in the answer of a poll
  snapshot,         \* the active credentials a rotation read
  rotates,          \* the installation of a rotation
  flow, poll,       \* config flow of a session, and the poll it waits for
  reauthOf          \* the installation whose entry the flow reauthenticates

rowVars  == <<status, claimedBy, envelope>>
flowVars == <<flow, poll, reauthOf>>
claimVars == <<code, late>>
pollVars == <<target, carried>>
rotationVars == <<snapshot, rotates>>
vars == <<rowVars, overdue, rowLock, failed, revoked, at, before, existing,
          claimVars, rowSeen, pollVars, rotationVars, flowVars>>

TypeOK ==
  /\ status \in [Pairings -> Statuses]
  /\ claimedBy \in [Pairings -> Claims \cup {NoClaim}]
  /\ envelope \in [Pairings -> Claims \cup {NoClaim}]
  /\ overdue \in SUBSET Pairings
  /\ rowLock \in [Pairings -> Claims \cup Polls \cup {NoTx}]
  /\ failed \in SUBSET Claims
  /\ revoked \in SUBSET Credentials
  /\ at \in [Transactions -> Steps]
  /\ before \in [Transactions -> SUBSET Transactions]
  /\ existing \in [Pairings -> Pairings \cup {NoPairing}]
  /\ code \in [Claims -> Pairings \cup {NoPairing}]
  /\ late \in [Claims -> BOOLEAN]
  /\ rowSeen \in [Claims \cup Polls -> Statuses]
  /\ target \in [Polls -> Pairings \cup {NoPairing}]
  /\ carried \in [Polls -> Claims \cup {NoClaim}]
  /\ snapshot \in [Rotations -> SUBSET Credentials]
  /\ rotates \in [Rotations -> Claims \cup {NoClaim}]
  /\ flow \in [Pairings -> Flows]
  /\ poll \in [Pairings -> Polls \cup {NoPoll}]
  /\ reauthOf \in [Pairings -> Claims \cup {NoClaim}]

Init ==
  /\ status = [p \in Pairings |-> "none"]
  /\ claimedBy = [p \in Pairings |-> NoClaim]
  /\ envelope = [p \in Pairings |-> NoClaim]
  /\ overdue = {} /\ failed = {} /\ revoked = {}
  /\ rowLock = [p \in Pairings |-> NoTx]
  /\ at = [t \in Transactions |-> "idle"]
  /\ before = [t \in Transactions |-> {}]
  /\ existing = [p \in Pairings |-> NoPairing]
  /\ code = [c \in Claims |-> NoPairing]
  /\ late = [c \in Claims |-> FALSE]
  /\ rowSeen = [t \in Claims \cup Polls |-> "none"]
  /\ target = [q \in Polls |-> NoPairing]
  /\ carried = [q \in Polls |-> NoClaim]
  /\ snapshot = [r \in Rotations |-> {}]
  /\ rotates = [r \in Rotations |-> NoClaim]
  /\ flow = [p \in Pairings |-> "none"]
  /\ poll = [p \in Pairings |-> NoPoll]
  /\ reauthOf = [p \in Pairings |-> NoClaim]

-----------------------------------------------------------------------------
(* Transactions                                                             *)

Committed(kind) == {t \in kind : at[t] = "done"}

(* t starts; `seen' are those of its kind whose effect it can see.          *)
Start(t, seen) ==
  /\ at[t] = "idle"
  /\ at' = [at EXCEPT ![t] = "started"]
  /\ before' = [before EXCEPT ![t] = seen]

(* Two transactions ran at the same time: neither saw the other.            *)
Overlap(s, t) == s \notin before[t] /\ t \notin before[s]

RowFree(p) == rowLock[p] = NoTx

(* Mutant: the row is read without FOR UPDATE.                              *)
ReadRowUnlocked(t, p) ==
  /\ rowSeen' = [rowSeen EXCEPT ![t] = status[p]]
  /\ at' = [at EXCEPT ![t] = "holding"]
  /\ UNCHANGED rowLock

ReadRowForUpdate(t, p) ==
  /\ RowFree(p)
  /\ rowLock' = [rowLock EXCEPT ![p] = t]
  /\ rowSeen' = [rowSeen EXCEPT ![t] = status[p]]
  /\ at' = [at EXCEPT ![t] = "holding"]

Release(t) == rowLock' = [p \in Pairings |-> IF rowLock[p] = t THEN NoTx ELSE rowLock[p]]

(* The request fails or its database connection is lost before the commit.  *)
Rollback(t) ==
  /\ at[t] \in {"started", "holding"}
  /\ t \notin Polls
  /\ at' = [at EXCEPT ![t] = "failed"]
  /\ Release(t)
  /\ UNCHANGED <<rowVars, overdue, failed, revoked, before, existing, claimVars,
                 rowSeen, pollVars, rotationVars, flowVars>>

-----------------------------------------------------------------------------
(* create_session                                                           *)

Usable(p) == status[p] = "pending" /\ p \notin overdue

(* The entry of installation i exists and the cloud refuses its credential. *)
Configured(i) == \E p \in Pairings : flow[p] = "created" /\ claimedBy[p] = i

(* pending_for_nonce, a plain read that raises when it finds two rows.      *)
CreateRead(p) ==
  LET found == {q \in Pairings : Usable(q) /\ NonceOf[q] = NonceOf[p]} IN
  /\ \E i \in {NoClaim} \cup {c \in revoked \cap Claims : Configured(c)} :
       reauthOf' = [reauthOf EXCEPT ![p] = i]
  /\ \/ /\ found = {}
        /\ Start(p, Committed(Pairings))
        /\ UNCHANGED existing
     \/ \E q \in Pairings :
          /\ found = {q}
          /\ Start(p, Committed(Pairings))
          /\ existing' = [existing EXCEPT ![p] = q]
     \/ /\ Cardinality(found) > 1
        /\ at[p] = "idle"
        /\ at' = [at EXCEPT ![p] = "failed"]
        /\ UNCHANGED <<before, existing>>
  /\ UNCHANGED <<rowVars, overdue, rowLock, failed, revoked, claimVars, rowSeen,
                 pollVars, rotationVars, flow, poll>>

(* Mutant: the session found is left pending.                               *)
CreateCommitKeepsOld(p) ==
  /\ at[p] = "started"
  /\ status' = [status EXCEPT ![p] = "pending"]
  /\ at' = [at EXCEPT ![p] = "done"]
  /\ flow' = [flow EXCEPT ![p] = "form"]
  /\ UNCHANGED <<claimedBy, envelope, overdue, rowLock, failed, revoked, before,
                 existing, claimVars, rowSeen, pollVars, rotationVars, poll,
                 reauthOf>>

(* The session found is locked, whatever became of it since: the UPDATE     *)
(* waits for its row but does not look at its status again.                 *)
CreateCommit(p) ==
  LET old == existing[p] IN
  /\ at[p] = "started"
  /\ old # NoPairing => RowFree(old)
  /\ status' = [q \in Pairings |->
                  IF q = p THEN "pending" ELSE IF q = old THEN "locked" ELSE status[q]]
  /\ at' = [at EXCEPT ![p] = "done"]
  /\ flow' = [flow EXCEPT ![p] = "form"]
  /\ UNCHANGED <<claimedBy, envelope, overdue, rowLock, failed, revoked, before,
                 existing, claimVars, rowSeen, pollVars, rotationVars, poll,
                 reauthOf>>

-----------------------------------------------------------------------------
(* claim                                                                    *)

(* Mutant: the limit is one attempt too generous.                           *)
LimitedAfterMax == Cardinality(failed) > MaxFailures

Limited == Cardinality(failed) >= MaxFailures

(* The clock is read, then the failed attempts are counted.  The code is    *)
(* that of a session that was displayed, or matches none.                   *)
ClaimStart(c, p) ==
  /\ p # NoPairing => status[p] # "none"
  /\ code' = [code EXCEPT ![c] = p]
  /\ late' = [late EXCEPT ![c] = p \in overdue]
  /\ \/ ~Limited /\ Start(c, failed)
     \/ /\ Limited /\ at[c] = "idle"
        /\ at' = [at EXCEPT ![c] = "failed"]
        /\ UNCHANGED before
  /\ UNCHANGED <<rowVars, overdue, rowLock, failed, revoked, existing, rowSeen,
                 pollVars, rotationVars, flowVars>>

ClaimRead(c) ==
  /\ at[c] = "started" /\ code[c] # NoPairing
  /\ ReadRowForUpdate(c, code[c])
  /\ UNCHANGED <<rowVars, overdue, failed, revoked, before, existing, claimVars,
                 pollVars, rotationVars, flowVars>>

(* An unknown code, a session no longer pending, an expired one: the        *)
(* attempt is recorded, and an expired session is marked.                   *)
ClaimReject(c) ==
  /\ \/ at[c] = "started" /\ code[c] = NoPairing /\ UNCHANGED status
     \/ at[c] = "holding" /\ rowSeen[c] # "pending" /\ UNCHANGED status
     \/ /\ at[c] = "holding" /\ rowSeen[c] = "pending" /\ late[c]
        /\ status' = [status EXCEPT ![code[c]] = "expired"]
  /\ failed' = failed \cup {c}
  /\ at' = [at EXCEPT ![c] = "failed"]
  /\ Release(c)
  /\ UNCHANGED <<claimedBy, envelope, overdue, revoked, before, existing,
                 claimVars, rowSeen, pollVars, rotationVars, flowVars>>

(* Mutant: the credential is not put into an envelope.                      *)
ClaimWithoutEnvelope(c) ==
  /\ at[c] = "holding" /\ rowSeen[c] = "pending" /\ ~late[c]
  /\ status' = [status EXCEPT ![code[c]] = "claimed"]
  /\ claimedBy' = [claimedBy EXCEPT ![code[c]] = c]
  /\ at' = [at EXCEPT ![c] = "done"]
  /\ Release(c)
  /\ UNCHANGED <<envelope, overdue, failed, revoked, before, existing, claimVars,
                 rowSeen, pollVars, rotationVars, flowVars>>

(* The installation, its credential and the delivery envelope.              *)
ClaimCommit(c) ==
  /\ at[c] = "holding" /\ rowSeen[c] = "pending" /\ ~late[c]
  /\ status' = [status EXCEPT ![code[c]] = "claimed"]
  /\ claimedBy' = [claimedBy EXCEPT ![code[c]] = c]
  /\ envelope' = [envelope EXCEPT ![code[c]] = c]
  /\ at' = [at EXCEPT ![c] = "done"]
  /\ Release(c)
  /\ UNCHANGED <<overdue, failed, revoked, before, existing, claimVars, rowSeen,
                 pollVars, rotationVars, flowVars>>

(* An attempt leaves the fifteen-minute window.                             *)
Forget(c) ==
  /\ c \in failed
  /\ failed' = failed \ {c}
  /\ UNCHANGED <<rowVars, overdue, rowLock, revoked, at, before, existing,
                 claimVars, rowSeen, pollVars, rotationVars, flowVars>>

Expire(p) ==
  /\ status[p] # "none" /\ p \notin overdue
  /\ overdue' = overdue \cup {p}
  /\ UNCHANGED <<rowVars, rowLock, failed, revoked, at, before, existing,
                 claimVars, rowSeen, pollVars, rotationVars, flowVars>>

-----------------------------------------------------------------------------
(* poll, and the config flow that sends it                                  *)

(* The user submits the form.                                               *)
Submit(p, q) ==
  /\ flow[p] = "form" /\ at[q] = "idle"
  /\ at' = [at EXCEPT ![q] = "started"]
  /\ target' = [target EXCEPT ![q] = p]
  /\ poll' = [poll EXCEPT ![p] = q]
  /\ flow' = [flow EXCEPT ![p] = "polling"]
  /\ UNCHANGED <<rowVars, overdue, rowLock, failed, revoked, before, existing,
                 claimVars, rowSeen, carried, rotationVars, reauthOf>>

PollRead(q) ==
  /\ at[q] = "started"
  /\ ReadRowForUpdate(q, target[q])
  /\ carried' = [carried EXCEPT ![q] = envelope[target[q]]]
  /\ UNCHANGED <<rowVars, overdue, failed, revoked, before, existing, claimVars,
                 target, rotationVars, flowVars>>

(* The envelope is deleted, and committed, before it is returned.           *)
PollCommit(q) ==
  LET p == target[q] IN
  /\ at[q] = "holding"
  /\ \/ /\ rowSeen[q] = "pending" /\ p \in overdue
        /\ status' = [status EXCEPT ![p] = "expired"]
        /\ rowSeen' = [rowSeen EXCEPT ![q] = "expired"]
        /\ UNCHANGED <<envelope, carried>>
     \/ /\ rowSeen[q] # "claimed" /\ ~(rowSeen[q] = "pending" /\ p \in overdue)
        /\ carried' = [carried EXCEPT ![q] = NoClaim]
        /\ UNCHANGED <<status, rowSeen, envelope>>
     \/ /\ rowSeen[q] = "claimed"
        /\ envelope' = [envelope EXCEPT ![p] = NoClaim]
        /\ UNCHANGED <<status, rowSeen, carried>>
  /\ at' = [at EXCEPT ![q] = "answered"]
  /\ Release(q)
  /\ UNCHANGED <<claimedBy, overdue, failed, revoked, before, existing,
                 claimVars, target, rotationVars, flowVars>>

(* The request fails on the server before its commit.                       *)
PollRollback(q) ==
  /\ at[q] \in {"started", "holding"}
  /\ at' = [at EXCEPT ![q] = "failed"]
  /\ carried' = [carried EXCEPT ![q] = NoClaim]
  /\ Release(q)
  /\ UNCHANGED <<rowVars, overdue, failed, revoked, before, existing, claimVars,
                 rowSeen, target, rotationVars, flowVars>>

(* No answer in time, or a lost one, or an error: the form is shown again.  *)
PollLost(p) ==
  /\ flow[p] = "polling"
  /\ flow' = [flow EXCEPT ![p] = "form"]
  /\ poll' = [poll EXCEPT ![p] = NoPoll]
  /\ UNCHANGED <<rowVars, overdue, rowLock, failed, revoked, at, before,
                 existing, claimVars, rowSeen, pollVars, rotationVars, reauthOf>>

(* Mutant: the API answers the status of the row as it is.                  *)
OutcomeOfRow(p, st, i) ==
  CASE st = "pending" -> "form"
    [] st \in {"expired", "locked"} -> st
    [] st = "claimed" /\ i = NoClaim -> "unknown"
    [] OTHER -> IF Configured(i) THEN "already_configured" ELSE "created"

(* What the flow makes of an answer: the installation becomes its unique id. *)
Outcome(p, st, i) ==
  CASE st = "pending" -> "form"
    [] st = "expired" -> "expired"
    [] st = "locked"  -> "denied"
    [] st = "claimed" /\ i = NoClaim -> "unknown"
    [] st = "claimed" /\ i # NoClaim /\ reauthOf[p] # NoClaim ->
         IF i = reauthOf[p] THEN "updated" ELSE "wrong_installation"
    [] OTHER -> IF Configured(i) THEN "already_configured" ELSE "created"

PollAnswer(p) ==
  LET q == poll[p] IN
  /\ flow[p] = "polling" /\ at[q] = "answered"
  /\ flow' = [flow EXCEPT ![p] = Outcome(p, rowSeen[q], carried[q])]
  /\ poll' = [poll EXCEPT ![p] = NoPoll]
  /\ at' = [at EXCEPT ![q] = "done"]
  /\ UNCHANGED <<rowVars, overdue, rowLock, failed, revoked, before, existing,
                 claimVars, rowSeen, pollVars, rotationVars, reauthOf>>

-----------------------------------------------------------------------------
(* Credentials                                                              *)

InstallationOf(k) == IF k \in Claims THEN k ELSE rotates[k]

Active(i) ==
  {k \in Credentials : at[k] = "done" /\ InstallationOf(k) = i} \ revoked

(* active_for_installation: the rows the statement sees when it starts; it  *)
(* then waits for those another transaction has locked.                     *)
RotateStart(r, i) ==
  /\ at[i] = "done"
  /\ Start(r, Committed(Rotations))
  /\ rotates' = [rotates EXCEPT ![r] = i]
  /\ snapshot' = [snapshot EXCEPT ![r] = Active(i)]
  /\ UNCHANGED <<rowVars, overdue, rowLock, failed, revoked, existing, claimVars,
                 rowSeen, pollVars, flowVars>>

(* Mutant: only the credential of the claim is revoked.                     *)
RotateCommitFirst(r) ==
  /\ at[r] = "started"
  /\ revoked' = revoked \cup (snapshot[r] \cap Claims)
  /\ at' = [at EXCEPT ![r] = "done"]
  /\ UNCHANGED <<rowVars, overdue, rowLock, failed, before, existing, claimVars,
                 rowSeen, pollVars, rotationVars, flowVars>>

(* The rows it saw and that are still active are revoked; a credential      *)
(* committed after the statement started is not among them.                 *)
RotateCommit(r) ==
  /\ at[r] = "started"
  /\ revoked' = revoked \cup snapshot[r]
  /\ at' = [at EXCEPT ![r] = "done"]
  /\ UNCHANGED <<rowVars, overdue, rowLock, failed, before, existing, claimVars,
                 rowSeen, pollVars, rotationVars, flowVars>>

Revoke(k) ==
  /\ at[k] = "done" /\ k \notin revoked
  /\ revoked' = revoked \cup {k}
  /\ UNCHANGED <<rowVars, overdue, rowLock, failed, at, before, existing,
                 claimVars, rowSeen, pollVars, rotationVars, flowVars>>

-----------------------------------------------------------------------------
Next ==
  \/ \E t \in Transactions : Rollback(t)
  \/ \E p \in Pairings : CreateRead(p) \/ CreateCommit(p) \/ Expire(p)
                         \/ PollLost(p) \/ PollAnswer(p)
  \/ \E c \in Claims : \E p \in Pairings \cup {NoPairing} : ClaimStart(c, p)
  \/ \E c \in Claims : ClaimRead(c) \/ ClaimReject(c) \/ ClaimCommit(c) \/ Forget(c)
  \/ \E q \in Polls : PollRead(q) \/ PollCommit(q) \/ PollRollback(q)
  \/ \E p \in Pairings, q \in Polls : Submit(p, q)
  \/ \E r \in Rotations : RotateCommit(r) \/ \E i \in Claims : RotateStart(r, i)
  \/ \E k \in Credentials : Revoke(k)

Spec == Init /\ [][Next]_vars

-----------------------------------------------------------------------------
(* Properties                                                               *)

(* A code is used once: concurrent claims of it create one installation     *)
(* (docs/pairing.md: "prevent concurrent double claims").                   *)
OneClaim ==
  \A c, d \in Claims :
    at[c] = "done" /\ at[d] = "done" /\ code[c] = code[d] => c = d

(* Concurrent polls of one session: a single answer carries the credential  *)
(* (pairing.py:265-276).                                                    *)
DeliveredOnce ==
  \A q, r \in Polls :
    /\ at[q] \in {"answered", "done"} /\ at[r] \in {"answered", "done"}
    /\ carried[q] # NoClaim /\ carried[q] = carried[r]
    => q = r

(* The flow of a claimed session that ends without the credential: it never *)
(* ends as expired; it ends unknown only when an answer that carried the    *)
(* credential was lost on its way (pairing.py:260-271), and denied only     *)
(* when a create_session that had read the session pending, before it was   *)
(* claimed, locked it afterwards (pairing.py:144-146).                      *)
CredentialReachesFlow ==
  \A p \in Pairings : claimedBy[p] # NoClaim =>
    /\ flow[p] # "expired"
    /\ flow[p] = "unknown" =>
         \E q \in Polls : at[q] = "answered" /\ target[q] = p /\ carried[q] = claimedBy[p]
    /\ flow[p] = "denied" =>
         status[p] = "locked" /\ \E t \in Pairings : existing[t] = p /\ at[t] = "done"

(* A claimed or expired session stays so, whoever claims, polls or lets it  *)
(* expire at the same time; the one exception is a create_session that had  *)
(* read it pending before (pairing.py:144-146), which locks it all the same. *)
TerminalStatus ==
  [][\A p \in Pairings :
       status[p] \in {"claimed", "expired", "locked"} /\ status'[p] # status[p] =>
         /\ status'[p] = "locked"
         /\ \E t \in Pairings : existing[t] = p /\ at[t] = "started"]_vars

(* A nonce has two usable sessions only when they were created at the same  *)
(* time: create_session locks the one it finds (pairing.py:144-146).        *)
OneUsablePerNonce ==
  \A p, q \in Pairings :
    p # q /\ NonceOf[p] = NonceOf[q] /\ Usable(p) /\ Usable(q) => Overlap(p, q)

(* More failures than the limit are in the window only when some of them    *)
(* were counted at the same time (pairing.py:331-338).                      *)
FailuresLimited ==
  Cardinality(failed) > MaxFailures =>
    \E c, d \in failed : c # d /\ Overlap(c, d)

(* Two credentials of one installation are active only when both come from  *)
(* rotations that ran at the same time (pairing.py:304-319).                *)
OneActiveCredential ==
  \A i \in Claims : \A j, k \in Active(i) :
    j # k => j \in Rotations /\ k \in Rotations /\ Overlap(j, k)

(* docs/EKONEX_HA_STANDARD.md:161-163 "Successful reauth updates and reloads *)
(* the existing entry; it never creates a second installation", and         *)
(* docs/home-assistant.md:138-139 "Reauth requires a new M2 claim for the   *)
(* same installation": the claim made for a reauthentication is one for the *)
(* installation of the entry.                                               *)
ReauthKeepsInstallation ==
  \A p \in Pairings :
    reauthOf[p] # NoClaim /\ claimedBy[p] # NoClaim => claimedBy[p] = reauthOf[p]
=============================================================================
