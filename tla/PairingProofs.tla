---------------------------- MODULE PairingProofs ----------------------------
(* Theorems of Pairing, for any number of concurrent requests: a code is    *)
(* claimed once and its credential delivered once, the status of a session  *)
(* is one-way, and the sessions of a nonce, the failed attempts and the     *)
(* active credentials exceed one, the limit and one only by requests that   *)
(* ran at the same time.                                                    *)
EXTENDS Pairing, FiniteSetTheorems, TLAPS

RowTypes ==
  /\ status \in [Pairings -> Statuses]
  /\ claimedBy \in [Pairings -> Claims \cup {NoClaim}]
  /\ rowLock \in [Pairings -> Claims \cup Polls \cup {NoTx}]
  /\ at \in [Transactions -> Steps]
  /\ existing \in [Pairings -> Pairings \cup {NoPairing}]
  /\ code \in [Claims -> Pairings \cup {NoPairing}]
  /\ rowSeen \in [Claims \cup Polls -> Statuses]
  /\ target \in [Polls -> Pairings \cup {NoPairing}]
  /\ flow \in [Pairings -> Flows]
  /\ poll \in [Pairings -> Polls \cup {NoPoll}]
  /\ \A p \in Pairings : flow[p] = "polling" => poll[p] \in Polls

(* Who holds a row has read the status it still has.                        *)
LockInv ==
  /\ \A c \in Claims : at[c] = "holding" =>
       code[c] \in Pairings /\ rowLock[code[c]] = c /\ rowSeen[c] = status[code[c]]
  /\ \A q \in Polls : at[q] = "holding" =>
       target[q] \in Pairings /\ rowLock[target[q]] = q /\ rowSeen[q] = status[target[q]]

(* A row is inserted at the commit of its create_session, and named by      *)
(* others only after that.                                                  *)
CreatedInv ==
  /\ \A p \in Pairings : at[p] \in {"idle", "started"} => status[p] = "none"
  /\ \A p \in Pairings : flow[p] # "none" => status[p] # "none"
  /\ \A p \in Pairings : existing[p] # NoPairing => status[existing[p]] # "none"
  /\ \A c \in Claims : code[c] # NoPairing => status[code[c]] # "none"
  /\ \A q \in Polls : at[q] \in {"started", "holding"} =>
       target[q] \in Pairings /\ status[target[q]] # "none"

(* A claimed row never becomes pending again and names its claim.           *)
ClaimedInv ==
  /\ \A p \in Pairings : claimedBy[p] # NoClaim => status[p] \in {"claimed", "locked"}
  /\ \A c \in Claims : at[c] = "done" => code[c] \in Pairings /\ claimedBy[code[c]] = c

PairInv == RowTypes /\ LockInv /\ CreatedInv /\ ClaimedInv

(* Requests of different kinds are different transactions.                  *)
LEMMA Disjoint ==
  /\ \A p \in Pairings : p \notin Claims \cup Polls \cup Rotations
  /\ \A c \in Claims : c \notin Pairings \cup Polls \cup Rotations
  /\ \A q \in Polls : q \notin Pairings \cup Claims \cup Rotations
  /\ NoTx \notin Claims \cup Polls
  /\ NoClaim \notin Claims /\ NoPairing \notin Pairings
BY PairingAssumption DEF Transactions, Credentials

(* The flow of the Connector ends in one of its outcomes.                   *)
LEMMA OutcomeType ==
  ASSUME NEW p, NEW st \in Statuses, NEW i
  PROVE  Outcome(p, st, i) \in Flows \ {"polling"}
<1>1. CASE st = "pending"  BY <1>1 DEF Outcome, Flows
<1>2. CASE st = "expired"  BY <1>2 DEF Outcome, Flows
<1>3. CASE st = "locked"  BY <1>3 DEF Outcome, Flows
<1>4. CASE st = "claimed" /\ i = NoClaim  BY <1>4 DEF Outcome, Flows
<1>5. CASE st = "claimed" /\ i # NoClaim /\ reauthOf[p] # NoClaim
  BY <1>5 DEF Outcome, Flows
<1>6. CASE \/ st = "none"
           \/ st = "claimed" /\ i # NoClaim /\ reauthOf[p] = NoClaim
  BY <1>6 DEF Outcome, Flows
<1> QED  BY <1>1, <1>2, <1>3, <1>4, <1>5, <1>6 DEF Statuses

(* The invariant holds initially.                                           *)
LEMMA InitPairInv == Init => PairInv
BY Disjoint DEF Init, PairInv, RowTypes, LockInv, CreatedInv, ClaimedInv,
   Statuses, Steps, Flows, Transactions

(* create_session keeps it: it locks only a row that nobody holds.          *)
LEMMA CreateKeepsInv ==
  ASSUME PairInv, NEW p \in Pairings, CreateRead(p) \/ CreateCommit(p)
  PROVE  PairInv'
<1> USE Disjoint DEF Transactions
<1>1. CASE CreateRead(p)
  <2>1. /\ at[p] = "idle"
        /\ \/ at' = [at EXCEPT ![p] = "started"]
           \/ at' = [at EXCEPT ![p] = "failed"]
        /\ \/ UNCHANGED existing
           \/ \E q \in Pairings : status[q] = "pending" /\ existing' = [existing EXCEPT ![p] = q]
        /\ UNCHANGED <<status, claimedBy, rowLock, code, rowSeen, target, flow, poll>>
    BY <1>1 DEF CreateRead, Start, Usable, rowVars, claimVars, pollVars
  <2>2. RowTypes'
    BY <2>1 DEF PairInv, RowTypes, Steps
  <2> QED
    BY <2>1, <2>2 DEF PairInv, RowTypes, LockInv, CreatedInv, ClaimedInv, Steps
<1>2. CASE CreateCommit(p)
  <2> DEFINE old == existing[p]
  <2>1. /\ at[p] = "started" /\ status[p] = "none"
        /\ at' = [at EXCEPT ![p] = "done"]
        /\ flow' = [flow EXCEPT ![p] = "form"]
        /\ status' = [q \in Pairings |->
             IF q = p THEN "pending" ELSE IF q = old THEN "locked" ELSE status[q]]
        /\ old \in Pairings => rowLock[old] = NoTx
        /\ UNCHANGED <<claimedBy, existing, rowLock, code, rowSeen, target, poll>>
    BY <1>2 DEF CreateCommit, RowFree, PairInv, CreatedInv, claimVars, pollVars
  <2>2. RowTypes'
    BY <2>1 DEF PairInv, RowTypes, Steps, Flows, Statuses
  <2>3. LockInv'
    BY <2>1 DEF PairInv, RowTypes, LockInv, CreatedInv
  <2>4. CreatedInv'
    BY <2>1 DEF PairInv, RowTypes, CreatedInv
  <2>5. ClaimedInv'
    BY <2>1 DEF PairInv, RowTypes, ClaimedInv
  <2> QED  BY <2>2, <2>3, <2>4, <2>5 DEF PairInv
<1> QED  BY <1>1, <1>2

(* A claim keeps it: it writes only the row it holds, as it read it.        *)
LEMMA ClaimKeepsInv ==
  ASSUME PairInv, NEW c \in Claims,
         \/ \E p \in Pairings \cup {NoPairing} : ClaimStart(c, p)
         \/ ClaimRead(c) \/ ClaimReject(c) \/ ClaimCommit(c)
  PROVE  PairInv'
<1> USE Disjoint DEF Transactions, rowVars, claimVars, pollVars, flowVars
<1>1. ASSUME NEW p \in Pairings \cup {NoPairing}, ClaimStart(c, p) PROVE PairInv'
  <2>1. /\ at[c] = "idle"
        /\ \/ at' = [at EXCEPT ![c] = "started"]
           \/ at' = [at EXCEPT ![c] = "failed"]
        /\ code' = [code EXCEPT ![c] = p]
        /\ p # NoPairing => status[p] # "none"
        /\ UNCHANGED <<status, claimedBy, existing, rowLock, rowSeen, target, flow, poll>>
    BY <1>1 DEF ClaimStart, Start
  <2>2. RowTypes'
    BY <2>1 DEF PairInv, RowTypes, Steps
  <2> QED
    BY <2>1, <2>2 DEF PairInv, RowTypes, LockInv, CreatedInv, ClaimedInv
<1>2. CASE ClaimRead(c)
  <2>1. /\ at[c] = "started" /\ code[c] \in Pairings
        /\ rowLock[code[c]] = NoTx
        /\ rowLock' = [rowLock EXCEPT ![code[c]] = c]
        /\ rowSeen' = [rowSeen EXCEPT ![c] = status[code[c]]]
        /\ at' = [at EXCEPT ![c] = "holding"]
        /\ UNCHANGED <<status, claimedBy, existing, code, target, flow, poll>>
    BY <1>2 DEF ClaimRead, ReadRowForUpdate, RowFree, PairInv, RowTypes
  <2>2. RowTypes'
    BY <2>1 DEF PairInv, RowTypes, Steps
  <2>3. LockInv'
    BY <2>1 DEF PairInv, RowTypes, LockInv
  <2> QED
    BY <2>1, <2>2, <2>3 DEF PairInv, RowTypes, CreatedInv, ClaimedInv
<1>3. CASE ClaimReject(c)
  <2>1. /\ at[c] \in {"started", "holding"}
        /\ \/ UNCHANGED status
           \/ /\ at[c] = "holding" /\ rowSeen[c] = "pending"
              /\ status' = [status EXCEPT ![code[c]] = "expired"]
        /\ at' = [at EXCEPT ![c] = "failed"]
        /\ rowLock' = [p \in Pairings |-> IF rowLock[p] = c THEN NoTx ELSE rowLock[p]]
        /\ UNCHANGED <<claimedBy, existing, code, rowSeen, target, flow, poll>>
    BY <1>3 DEF ClaimReject, Release
  <2>2. RowTypes'
    BY <2>1 DEF PairInv, RowTypes, LockInv, Steps, Statuses
  <2>3. LockInv'
    BY <2>1 DEF PairInv, RowTypes, LockInv
  <2>4. CreatedInv' /\ ClaimedInv'
    BY <2>1 DEF PairInv, RowTypes, LockInv, CreatedInv, ClaimedInv
  <2> QED  BY <2>2, <2>3, <2>4 DEF PairInv
<1>4. CASE ClaimCommit(c)
  <2>1. /\ at[c] = "holding" /\ rowSeen[c] = "pending"
        /\ code[c] \in Pairings /\ status[code[c]] = "pending"
        /\ status' = [status EXCEPT ![code[c]] = "claimed"]
        /\ claimedBy' = [claimedBy EXCEPT ![code[c]] = c]
        /\ at' = [at EXCEPT ![c] = "done"]
        /\ rowLock' = [p \in Pairings |-> IF rowLock[p] = c THEN NoTx ELSE rowLock[p]]
        /\ UNCHANGED <<existing, code, rowSeen, target, flow, poll>>
    BY <1>4 DEF ClaimCommit, Release, PairInv, LockInv
  <2>2. RowTypes'
    BY <2>1 DEF PairInv, RowTypes, Steps, Statuses
  <2>3. LockInv'
    BY <2>1 DEF PairInv, RowTypes, LockInv
  <2>4. CreatedInv' /\ ClaimedInv'
    BY <2>1 DEF PairInv, RowTypes, CreatedInv, ClaimedInv
  <2> QED  BY <2>2, <2>3, <2>4 DEF PairInv
<1> QED  BY <1>1, <1>2, <1>3, <1>4

(* A poll keeps it.                                                         *)
LEMMA PollKeepsInv ==
  ASSUME PairInv, NEW q \in Polls,
         PollRead(q) \/ PollCommit(q) \/ PollRollback(q) \/ \E p \in Pairings : Submit(p, q)
  PROVE  PairInv'
<1> USE Disjoint DEF Transactions, rowVars, claimVars, pollVars, flowVars
<1>1. CASE PollRead(q)
  <2>1. /\ at[q] = "started" /\ target[q] \in Pairings
        /\ rowLock[target[q]] = NoTx
        /\ rowLock' = [rowLock EXCEPT ![target[q]] = q]
        /\ rowSeen' = [rowSeen EXCEPT ![q] = status[target[q]]]
        /\ at' = [at EXCEPT ![q] = "holding"]
        /\ UNCHANGED <<status, claimedBy, existing, code, target, flow, poll>>
    BY <1>1 DEF PollRead, ReadRowForUpdate, RowFree, PairInv, CreatedInv
  <2>2. RowTypes'
    BY <2>1 DEF PairInv, RowTypes, Steps
  <2>3. LockInv'
    BY <2>1 DEF PairInv, RowTypes, LockInv
  <2> QED
    BY <2>1, <2>2, <2>3 DEF PairInv, RowTypes, CreatedInv, ClaimedInv
<1>2. CASE PollCommit(q)
  <2>1. /\ at[q] = "holding" /\ target[q] \in Pairings
        /\ \/ UNCHANGED <<status, rowSeen>>
           \/ /\ rowSeen[q] = "pending" /\ status[target[q]] = "pending"
              /\ status' = [status EXCEPT ![target[q]] = "expired"]
              /\ rowSeen' = [rowSeen EXCEPT ![q] = "expired"]
        /\ at' = [at EXCEPT ![q] = "answered"]
        /\ rowLock' = [p \in Pairings |-> IF rowLock[p] = q THEN NoTx ELSE rowLock[p]]
        /\ UNCHANGED <<claimedBy, existing, code, target, flow, poll>>
    BY <1>2 DEF PollCommit, Release, PairInv, LockInv
  <2>2. RowTypes'
    BY <2>1 DEF PairInv, RowTypes, Steps, Statuses
  <2>3. LockInv'
    BY <2>1 DEF PairInv, RowTypes, LockInv
  <2>4. CreatedInv' /\ ClaimedInv'
    BY <2>1 DEF PairInv, RowTypes, CreatedInv, ClaimedInv
  <2> QED  BY <2>2, <2>3, <2>4 DEF PairInv
<1>3. CASE PollRollback(q)
  <2>1. /\ at' = [at EXCEPT ![q] = "failed"]
        /\ rowLock' = [p \in Pairings |-> IF rowLock[p] = q THEN NoTx ELSE rowLock[p]]
        /\ UNCHANGED <<status, claimedBy, existing, code, rowSeen, target, flow, poll>>
    BY <1>3 DEF PollRollback, Release
  <2>2. RowTypes'
    BY <2>1 DEF PairInv, RowTypes, Steps
  <2> QED
    BY <2>1, <2>2 DEF PairInv, RowTypes, LockInv, CreatedInv, ClaimedInv
<1>4. ASSUME NEW p \in Pairings, Submit(p, q) PROVE PairInv'
  <2>1. /\ at[q] = "idle" /\ flow[p] = "form"
        /\ at' = [at EXCEPT ![q] = "started"]
        /\ target' = [target EXCEPT ![q] = p]
        /\ flow' = [flow EXCEPT ![p] = "polling"] /\ poll' = [poll EXCEPT ![p] = q]
        /\ UNCHANGED <<status, claimedBy, existing, rowLock, code, rowSeen>>
    BY <1>4 DEF Submit
  <2>2. RowTypes'
    BY <2>1 DEF PairInv, RowTypes, Steps, Flows
  <2> QED
    BY <2>1, <2>2 DEF PairInv, RowTypes, LockInv, CreatedInv, ClaimedInv
<1> QED  BY <1>1, <1>2, <1>3, <1>4

(* The flow of the Connector keeps it.                                      *)
LEMMA FlowKeepsInv ==
  ASSUME PairInv, NEW p \in Pairings, PollLost(p) \/ PollAnswer(p)
  PROVE  PairInv'
<1> USE Disjoint DEF Transactions, rowVars, claimVars, pollVars
<1>1. CASE PollLost(p)
  <2>1. /\ flow[p] = "polling" /\ flow' = [flow EXCEPT ![p] = "form"]
        /\ poll' = [poll EXCEPT ![p] = NoPoll]
        /\ UNCHANGED <<status, claimedBy, existing, rowLock, at, code, rowSeen, target>>
    BY <1>1 DEF PollLost
  <2> QED
    BY <2>1 DEF PairInv, RowTypes, LockInv, CreatedInv, ClaimedInv, Flows
<1>2. CASE PollAnswer(p)
  <2> DEFINE q == poll[p]
  <2>1. /\ flow[p] = "polling" /\ at[q] = "answered"
        /\ flow' = [flow EXCEPT ![p] = Outcome(p, rowSeen[q], carried[q])]
        /\ poll' = [poll EXCEPT ![p] = NoPoll]
        /\ at' = [at EXCEPT ![q] = "done"]
        /\ UNCHANGED <<status, claimedBy, existing, rowLock, code, rowSeen, target>>
    BY <1>2 DEF PollAnswer
  <2>2. q \in Polls /\ rowSeen[q] \in Statuses
    BY <2>1 DEF PairInv, RowTypes
  <2>3. flow'[p] \in Flows \ {"polling"}
    BY <2>1, <2>2, OutcomeType DEF PairInv, RowTypes
  <2>4. RowTypes'
    BY <2>1, <2>2, <2>3 DEF PairInv, RowTypes, Steps
  <2> QED
    BY <2>1, <2>2, <2>4 DEF PairInv, RowTypes, LockInv, CreatedInv, ClaimedInv
<1> QED  BY <1>1, <1>2

(* Every step keeps the invariant.                                          *)
LEMMA NextPairInv == PairInv /\ [Next]_vars => PairInv'
<1> SUFFICES ASSUME PairInv, [Next]_vars PROVE PairInv'  OBVIOUS
<1> USE DEF rowVars, claimVars, pollVars, flowVars
<1>1. ASSUME NEW t \in Transactions, Rollback(t) PROVE PairInv'
  <2>1. /\ at[t] \in {"started", "holding"} /\ t \notin Polls
        /\ at' = [at EXCEPT ![t] = "failed"]
        /\ rowLock' = [p \in Pairings |-> IF rowLock[p] = t THEN NoTx ELSE rowLock[p]]
        /\ UNCHANGED <<status, claimedBy, existing, code, rowSeen, target, flow, poll>>
    BY <1>1 DEF Rollback, Release
  <2>2. RowTypes'
    BY <2>1 DEF PairInv, RowTypes, Steps
  <2>3. LockInv'
    BY <2>1, Disjoint DEF PairInv, RowTypes, LockInv, Transactions
  <2> QED
    BY <2>1, <2>2, <2>3 DEF PairInv, RowTypes, CreatedInv, ClaimedInv, Transactions
<1>2. ASSUME NEW r \in Rotations, RotateCommit(r) \/ \E i \in Claims : RotateStart(r, i)
      PROVE  PairInv'
  <2>1. /\ \/ at' = [at EXCEPT ![r] = "started"]
           \/ at' = [at EXCEPT ![r] = "done"]
        /\ UNCHANGED <<status, claimedBy, existing, rowLock, code, rowSeen, target, flow, poll>>
    BY <1>2 DEF RotateCommit, RotateStart, Start
  <2>2. RowTypes'
    BY <2>1 DEF PairInv, RowTypes, Steps
  <2> QED
    BY <2>1, <2>2, Disjoint
    DEF PairInv, RowTypes, LockInv, CreatedInv, ClaimedInv, Transactions
<1>3. ASSUME \/ \E p \in Pairings : Expire(p)
             \/ \E c \in Claims : Forget(c)
             \/ \E k \in Credentials : Revoke(k)
             \/ UNCHANGED vars
      PROVE  PairInv'
  <2>1. UNCHANGED <<status, claimedBy, existing, rowLock, at, code, rowSeen, target, flow, poll>>
    BY <1>3 DEF Expire, Forget, Revoke, vars
  <2> QED
    BY <2>1 DEF PairInv, RowTypes, LockInv, CreatedInv, ClaimedInv
<1> QED
  BY <1>1, <1>2, <1>3, CreateKeepsInv, ClaimKeepsInv, PollKeepsInv, FlowKeepsInv DEF Next

(* The rows, their locks and what was read of them stay consistent.         *)
THEOREM PairInvariant == Spec => []PairInv
<1>1. Init => PairInv  BY InitPairInv
<1>2. PairInv /\ [Next]_vars => PairInv'  BY NextPairInv
<1> QED  BY <1>1, <1>2, PTL DEF Spec

(* A code is claimed at most once, however many claims of it run at the     *)
(* same time (OneClaim).                                                    *)
THEOREM OneClaimAlways == Spec => []OneClaim
<1>1. PairInv => OneClaim
  BY DEF PairInv, ClaimedInv, OneClaim
<1> QED  BY <1>1, PairInvariant, PTL

(* No request changes a status that has ended, but a create_session that    *)
(* had read it pending (TerminalStatus).                                    *)
THEOREM TerminalStatusAlways == Spec => TerminalStatus
<1> DEFINE
  Ends == \A p \in Pairings :
    status[p] \in {"claimed", "expired", "locked"} /\ status'[p] # status[p] =>
      /\ status'[p] = "locked"
      /\ \E t \in Pairings : existing[t] = p /\ at[t] = "started"
<1>1. PairInv /\ [Next]_vars => [Ends]_vars
  <2> SUFFICES ASSUME PairInv, [Next]_vars, ~UNCHANGED status PROVE Ends
    BY DEF vars, rowVars
  <2> USE DEF rowVars
  <2>1. ASSUME NEW c \in Claims, ClaimReject(c) \/ ClaimCommit(c) PROVE Ends
    BY <2>1 DEF ClaimReject, ClaimCommit, PairInv, RowTypes, LockInv
  <2>2. ASSUME NEW q \in Polls, PollCommit(q) PROVE Ends
    BY <2>2 DEF PollCommit, PairInv, RowTypes, LockInv
  <2>3. ASSUME NEW p \in Pairings, CreateCommit(p) PROVE Ends
    BY <2>3 DEF CreateCommit, PairInv, RowTypes, CreatedInv
  <2> QED
    BY <2>1, <2>2, <2>3
    DEF Next, Rollback, CreateRead, Expire, PollLost, PollAnswer, ClaimStart, ClaimRead,
        Forget, PollRead, PollRollback, Submit, RotateCommit, RotateStart, Revoke, vars
<1> QED  BY <1>1, PairInvariant, PTL DEF Spec, TerminalStatus

-----------------------------------------------------------------------------
(* Types, and what a step leaves alone                                      *)

RestTypes ==
  /\ envelope \in [Pairings -> Claims \cup {NoClaim}]
  /\ overdue \in SUBSET Pairings
  /\ failed \in SUBSET Claims
  /\ revoked \in SUBSET Credentials
  /\ before \in [Transactions -> SUBSET Transactions]
  /\ late \in [Claims -> BOOLEAN]
  /\ carried \in [Polls -> Claims \cup {NoClaim}]
  /\ snapshot \in [Rotations -> SUBSET Credentials]
  /\ rotates \in [Rotations -> Claims \cup {NoClaim}]
  /\ reauthOf \in [Pairings -> Claims \cup {NoClaim}]

Types == PairInv /\ RestTypes

(* Active credentials are credentials.                                      *)
LEMMA ActiveType == ASSUME NEW i  PROVE Active(i) \subseteq Credentials
BY DEF Active

(* Committed transactions are transactions.                                 *)
LEMMA CommittedType == ASSUME NEW kind \in SUBSET Transactions  PROVE Committed(kind) \in SUBSET Transactions
BY DEF Committed

(* The other variables have their types initially.                          *)
LEMMA InitRestTypes == Init => RestTypes
BY DEF Init, RestTypes

(* Every step keeps the types of the other variables.                       *)
LEMMA NextRestTypes == Types /\ [Next]_vars => RestTypes'
<1> SUFFICES ASSUME Types, [Next]_vars PROVE RestTypes'  OBVIOUS
<1> USE DEF Types, rowVars, claimVars, pollVars, rotationVars, flowVars
<1>1. ASSUME NEW p \in Pairings, CreateRead(p) PROVE RestTypes'
  <2>1. /\ \E i \in Claims \cup {NoClaim} : reauthOf' = [reauthOf EXCEPT ![p] = i]
        /\ \/ before' = [before EXCEPT ![p] = Committed(Pairings)]
           \/ UNCHANGED before
        /\ UNCHANGED <<envelope, overdue, failed, revoked, late, carried, snapshot, rotates>>
    BY <1>1 DEF CreateRead, Start
  <2>2. Committed(Pairings) \in SUBSET Transactions  BY CommittedType DEF Transactions
  <2> QED  BY <2>1, <2>2 DEF RestTypes
<1>2. ASSUME NEW p \in Pairings, CreateCommit(p) \/ Expire(p) \/ PollLost(p) \/ PollAnswer(p)
      PROVE  RestTypes'
  BY <1>2 DEF CreateCommit, Expire, PollLost, PollAnswer, RestTypes
<1>3. ASSUME NEW c \in Claims, NEW p \in Pairings \cup {NoPairing}, ClaimStart(c, p)
      PROVE  RestTypes'
  <2>1. /\ late' = [late EXCEPT ![c] = p \in overdue]
        /\ \/ before' = [before EXCEPT ![c] = failed]
           \/ UNCHANGED before
        /\ UNCHANGED <<envelope, overdue, failed, revoked, carried, snapshot, rotates, reauthOf>>
    BY <1>3 DEF ClaimStart, Start
  <2>2. failed \in SUBSET Transactions  BY DEF RestTypes, Transactions
  <2> QED  BY <2>1, <2>2 DEF RestTypes
<1>4. ASSUME NEW c \in Claims, ClaimRead(c) \/ ClaimReject(c) \/ Forget(c) \/ ClaimCommit(c)
      PROVE  RestTypes'
  BY <1>4 DEF ClaimRead, ReadRowForUpdate, ClaimReject, Forget, ClaimCommit, RestTypes
<1>5. ASSUME NEW q \in Polls, PollRead(q) \/ PollCommit(q) \/ PollRollback(q)
             \/ \E p \in Pairings : Submit(p, q)
      PROVE  RestTypes'
  <2>1. CASE PollRead(q)
    <3>1. target[q] \in Pairings  BY <2>1 DEF PollRead, PairInv, CreatedInv
    <3> QED  BY <2>1, <3>1 DEF PollRead, ReadRowForUpdate, RestTypes
  <2>2. CASE PollCommit(q)
    BY <2>2 DEF PollCommit, RestTypes
  <2>3. CASE PollRollback(q)
    BY <2>3 DEF PollRollback, RestTypes
  <2>4. CASE \E p \in Pairings : Submit(p, q)
    BY <2>4 DEF Submit, RestTypes
  <2> QED  BY <1>5, <2>1, <2>2, <2>3, <2>4
<1>6. ASSUME NEW r \in Rotations, RotateCommit(r)
      PROVE  RestTypes'
  BY <1>6 DEF RotateCommit, RestTypes
<1>7. ASSUME NEW r \in Rotations, NEW i \in Claims, RotateStart(r, i)
      PROVE  RestTypes'
  <2>1. /\ before' = [before EXCEPT ![r] = Committed(Rotations)]
        /\ rotates' = [rotates EXCEPT ![r] = i]
        /\ snapshot' = [snapshot EXCEPT ![r] = Active(i)]
        /\ UNCHANGED <<envelope, overdue, failed, revoked, late, carried, reauthOf>>
    BY <1>7 DEF RotateStart, Start
  <2>2. Committed(Rotations) \in SUBSET Transactions  BY CommittedType DEF Transactions
  <2> QED  BY <2>1, <2>2, ActiveType DEF RestTypes
<1>8. ASSUME \/ \E t \in Transactions : Rollback(t)
             \/ \E k \in Credentials : Revoke(k)
             \/ UNCHANGED vars
      PROVE  RestTypes'
  BY <1>8 DEF Rollback, Revoke, vars, RestTypes
<1> QED  BY <1>1, <1>2, <1>3, <1>4, <1>5, <1>6, <1>7, <1>8 DEF Next

(* What a transaction read when it started stays with it, and what ended    *)
(* stays ended.                                                             *)
LEMMA Stays ==
  ASSUME Types, [Next]_vars
  PROVE  /\ \A t \in Transactions :
              /\ at[t] # "idle" => at'[t] # "idle" /\ before'[t] = before[t]
              /\ at[t] \in {"done", "failed"} => at'[t] = at[t]
         /\ \A r \in Rotations : at[r] # "idle" =>
              rotates'[r] = rotates[r] /\ snapshot'[r] = snapshot[r]
         /\ \A c \in Claims : at[c] # "idle" => code'[c] = code[c]
         /\ \A q \in Polls : at[q] # "idle" => target'[q] = target[q]
         /\ revoked \subseteq revoked' /\ overdue \subseteq overdue'
<1> USE Disjoint DEF Types, rowVars, claimVars, pollVars, rotationVars, flowVars
<1> DEFINE Goal ==
         /\ \A t \in Transactions :
              /\ at[t] # "idle" => at'[t] # "idle" /\ before'[t] = before[t]
              /\ at[t] \in {"done", "failed"} => at'[t] = at[t]
         /\ \A r \in Rotations : at[r] # "idle" =>
              rotates'[r] = rotates[r] /\ snapshot'[r] = snapshot[r]
         /\ \A c \in Claims : at[c] # "idle" => code'[c] = code[c]
         /\ \A q \in Polls : at[q] # "idle" => target'[q] = target[q]
         /\ revoked \subseteq revoked' /\ overdue \subseteq overdue'
<1>0. /\ at \in [Transactions -> Steps] /\ before \in [Transactions -> SUBSET Transactions]
      /\ Pairings \cup Claims \cup Polls \cup Rotations = Transactions
  BY DEF PairInv, RowTypes, RestTypes, Transactions
<1>1. ASSUME NEW p \in Pairings, CreateRead(p) PROVE Goal
  BY <1>0, <1>1 DEF CreateRead, Start
<1>2. ASSUME NEW p \in Pairings, CreateCommit(p) \/ Expire(p) \/ PollLost(p) PROVE Goal
  BY <1>0, <1>2 DEF CreateCommit, Expire, PollLost
<1>3. ASSUME NEW p \in Pairings, PollAnswer(p) PROVE Goal
  BY <1>0, <1>3 DEF PollAnswer
<1>4. ASSUME NEW c \in Claims, NEW p \in Pairings \cup {NoPairing}, ClaimStart(c, p)
      PROVE  Goal
  BY <1>0, <1>4 DEF ClaimStart, Start, PairInv, RowTypes
<1>5. ASSUME NEW c \in Claims, ClaimRead(c) \/ ClaimReject(c) \/ Forget(c) \/ ClaimCommit(c)
      PROVE  Goal
  BY <1>0, <1>5 DEF ClaimRead, ReadRowForUpdate, ClaimReject, Forget, ClaimCommit
<1>6. ASSUME NEW q \in Polls, PollRead(q) \/ PollCommit(q) \/ PollRollback(q) PROVE Goal
  BY <1>0, <1>6 DEF PollRead, ReadRowForUpdate, PollCommit, PollRollback
<1>7. ASSUME NEW q \in Polls, NEW p \in Pairings, Submit(p, q) PROVE Goal
  BY <1>0, <1>7 DEF Submit, PairInv, RowTypes
<1>8. ASSUME NEW r \in Rotations, RotateCommit(r) PROVE Goal
  BY <1>0, <1>8 DEF RotateCommit
<1>9. ASSUME NEW r \in Rotations, NEW i \in Claims, RotateStart(r, i) PROVE Goal
  BY <1>0, <1>9 DEF RotateStart, Start, RestTypes
<1>10. ASSUME NEW t \in Transactions, Rollback(t) PROVE Goal
  BY <1>0, <1>10 DEF Rollback
<1>11. ASSUME NEW k \in Credentials, Revoke(k) PROVE Goal
  BY <1>0, <1>11 DEF Revoke
<1>12. ASSUME UNCHANGED vars PROVE Goal
  BY <1>0, <1>12 DEF vars
<1> HIDE DEF Goal
<1>13. Goal
  BY <1>1, <1>2, <1>3, <1>4, <1>5, <1>6, <1>7, <1>8, <1>9, <1>10, <1>11, <1>12 DEF Next
<1> QED  BY <1>13 DEF Goal

(* A transaction moves by a step of its own.                                *)
Moving(t) ==
  \/ Rollback(t)
  \/ t \in Pairings /\ (CreateRead(t) \/ CreateCommit(t))
  \/ t \in Claims /\ \/ \E p \in Pairings \cup {NoPairing} : ClaimStart(t, p)
                     \/ ClaimRead(t) \/ ClaimReject(t) \/ ClaimCommit(t)
  \/ t \in Polls /\ \/ PollRead(t) \/ PollCommit(t) \/ PollRollback(t)
                    \/ \E p \in Pairings : Submit(p, t)
                    \/ \E p \in Pairings : poll[p] = t /\ PollAnswer(p)
  \/ t \in Rotations /\ (RotateCommit(t) \/ \E i \in Claims : RotateStart(t, i))

(* The step that moves a transaction is one of its own.                     *)
LEMMA Moves ==
  ASSUME Types, [Next]_vars, NEW t \in Transactions, at'[t] # at[t]
  PROVE  Moving(t)
<1>0. at \in [Transactions -> Steps]  BY DEF Types, PairInv, RowTypes
<1>1. ASSUME NEW p \in Pairings, CreateRead(p) PROVE t = p
  BY <1>0, <1>1 DEF CreateRead, Start
<1>2. ASSUME NEW p \in Pairings, CreateCommit(p) PROVE t = p
  BY <1>0, <1>2 DEF CreateCommit
<1>3. ASSUME NEW p \in Pairings, Expire(p) \/ PollLost(p) PROVE FALSE
  BY <1>3 DEF Expire, PollLost
<1>4. ASSUME NEW p \in Pairings, PollAnswer(p) PROVE t = poll[p] /\ t \in Polls
  BY <1>0, <1>4 DEF PollAnswer, Types, PairInv, RowTypes
<1>5. ASSUME NEW c \in Claims, NEW p \in Pairings \cup {NoPairing}, ClaimStart(c, p)
      PROVE  t = c
  BY <1>0, <1>5 DEF ClaimStart, Start
<1>6. ASSUME NEW c \in Claims, ClaimRead(c) \/ ClaimReject(c) \/ ClaimCommit(c)
      PROVE  t = c
  BY <1>0, <1>6 DEF ClaimRead, ReadRowForUpdate, ClaimReject, ClaimCommit
<1>7. ASSUME NEW c \in Claims, Forget(c) PROVE FALSE
  BY <1>7 DEF Forget
<1>8. ASSUME NEW q \in Polls, PollRead(q) \/ PollCommit(q) \/ PollRollback(q) PROVE t = q
  BY <1>0, <1>8 DEF PollRead, ReadRowForUpdate, PollCommit, PollRollback
<1>9. ASSUME NEW q \in Polls, NEW p \in Pairings, Submit(p, q) PROVE t = q
  BY <1>0, <1>9 DEF Submit
<1>10. ASSUME NEW r \in Rotations, RotateCommit(r) PROVE t = r
  BY <1>0, <1>10 DEF RotateCommit
<1>11. ASSUME NEW r \in Rotations, NEW i \in Claims, RotateStart(r, i) PROVE t = r
  BY <1>0, <1>11 DEF RotateStart, Start
<1>12. ASSUME NEW u \in Transactions, Rollback(u) PROVE t = u
  BY <1>0, <1>12 DEF Rollback
<1>13. ASSUME NEW k \in Credentials, Revoke(k) PROVE FALSE
  BY <1>13 DEF Revoke
<1>14. Next  BY DEF vars
<1> QED
  BY <1>1, <1>2, <1>3, <1>4, <1>5, <1>6, <1>7, <1>8, <1>9, <1>10, <1>11, <1>12, <1>13, <1>14
  DEF Next, Moving

-----------------------------------------------------------------------------
(* Rotations                                                                *)

(* A rotation revokes what was committed before it started.                 *)
RotationInv ==
  \A r \in Rotations :
    /\ at[r] \in {"started", "done"} =>
         /\ rotates[r] \in Claims
         /\ \A k \in (before[r] \cap Rotations) \cup {rotates[r]} :
              /\ at[k] = "done"
              /\ InstallationOf(k) = rotates[r] => k \in snapshot[r] \cup revoked
    /\ at[r] = "done" => snapshot[r] \subseteq revoked

(* Every step keeps what a rotation revokes.                                *)
LEMMA NextRotationInv == Types /\ RotationInv /\ [Next]_vars => RotationInv'
<1> SUFFICES ASSUME Types, RotationInv, [Next]_vars,
                    NEW r \in Rotations
             PROVE  /\ at'[r] \in {"started", "done"} =>
                         /\ rotates'[r] \in Claims
                         /\ \A k \in (before'[r] \cap Rotations) \cup {rotates'[r]} :
                              /\ at'[k] = "done"
                              /\ InstallationOf(k)' = rotates'[r] => k \in snapshot'[r] \cup revoked'
                    /\ at'[r] = "done" => snapshot'[r] \subseteq revoked'
  BY DEF RotationInv
<1>0. r \in Transactions /\ Claims \cup Rotations \subseteq Transactions
      /\ at \in [Transactions -> Steps]
  BY DEF Transactions, Types, PairInv, RowTypes
<1>1. CASE at[r] \in {"started", "done"}
  <2>1. /\ rotates'[r] = rotates[r] /\ snapshot'[r] = snapshot[r] /\ before'[r] = before[r]
        /\ rotates[r] \in Claims /\ revoked \subseteq revoked'
    BY <1>0, <1>1, Stays DEF RotationInv
  <2>2. ASSUME NEW k \in (before[r] \cap Rotations) \cup {rotates[r]}
        PROVE  /\ at'[k] = "done"
               /\ InstallationOf(k)' = InstallationOf(k)
               /\ InstallationOf(k) = rotates[r] => k \in snapshot[r] \cup revoked
    <3>1. /\ k \in Claims \cup Rotations /\ at[k] = "done"
          /\ InstallationOf(k) = rotates[r] => k \in snapshot[r] \cup revoked
      BY <1>1, <2>1 DEF RotationInv
    <3> QED  BY <1>0, <3>1, Stays DEF InstallationOf
  <2>3. at'[r] = "done" => snapshot[r] \subseteq revoked'
    <3>1. CASE at[r] = "done"
      BY <2>1, <3>1 DEF RotationInv
    <3>2. CASE at[r] = "started" /\ at'[r] = "done"
      <4>1. RotateCommit(r)
        BY <1>0, <3>2, Disjoint, Moves DEF Moving, Rollback, RotateStart, Start
      <4> QED  BY <4>1 DEF RotateCommit
    <3> QED  BY <1>1, <3>1, <3>2
  <2> QED  BY <2>1, <2>2, <2>3
<1>2. CASE at[r] \notin {"started", "done"}
  <2>1. CASE \E i \in Claims : RotateStart(r, i)
    <3>1. PICK i \in Claims : RotateStart(r, i)  BY <2>1
    <3>2. /\ at[i] = "done" /\ at' = [at EXCEPT ![r] = "started"] /\ at[r] = "idle"
          /\ before'[r] = Committed(Rotations) /\ rotates' = [rotates EXCEPT ![r] = i]
          /\ snapshot'[r] = Active(i) /\ revoked' = revoked
      BY <1>0, <3>1 DEF RotateStart, Start, Types, RestTypes
    <3>3. ASSUME NEW k \in (before'[r] \cap Rotations) \cup {i}
          PROVE  /\ at'[k] = "done"
                 /\ InstallationOf(k)' = i => k \in Active(i) \cup revoked
      <4>1. at[k] = "done" /\ k \in Claims \cup Rotations
        BY <3>2 DEF Committed
      <4>2. at'[k] = "done" /\ InstallationOf(k)' = InstallationOf(k)
        BY <1>0, <3>2, <4>1, Stays DEF InstallationOf
      <4> QED  BY <4>1, <4>2 DEF Active, Credentials
    <3>4. rotates'[r] = i  BY <3>2 DEF Types, RestTypes
    <3> QED  BY <1>0, <3>2, <3>3, <3>4
  <2>2. CASE ~ \E i \in Claims : RotateStart(r, i)
    <3>1. at'[r] = at[r] \/ at'[r] = "failed"
      BY <1>0, <1>2, <2>2, Disjoint, Moves DEF Moving, Rollback, RotateCommit
    <3> QED  BY <1>2, <3>1
  <2> QED  BY <2>1, <2>2
<1> QED  BY <1>1, <1>2

(* Of two rotations in turn the later one has revoked the earlier one.      *)
LEMMA RotationsInTurn == Types /\ RotationInv => OneActiveCredential
<1> SUFFICES ASSUME Types, RotationInv, NEW i \in Claims,
                    NEW j \in Active(i), NEW k \in Active(i), j # k
             PROVE  j \in Rotations /\ k \in Rotations /\ Overlap(j, k)
  BY DEF OneActiveCredential
<1>1. /\ at[j] = "done" /\ InstallationOf(j) = i /\ j \in Claims \cup Rotations /\ j \notin revoked
      /\ at[k] = "done" /\ InstallationOf(k) = i /\ k \in Claims \cup Rotations /\ k \notin revoked
  BY DEF Active, Credentials
<1>2. ASSUME NEW r \in Rotations, at[r] = "done", InstallationOf(r) = i,
             NEW x, x \in {i} \/ x \in before[r] \cap Rotations, InstallationOf(x) = i
      PROVE  x \in revoked
  <2>1. rotates[r] = i  BY <1>2, Disjoint DEF InstallationOf
  <2> QED  BY <1>2, <2>1 DEF RotationInv
<1>3. j \in Rotations /\ k \in Rotations
  <2>1. \A c \in Claims : InstallationOf(c) = c  BY DEF InstallationOf
  <2> QED  BY <1>1, <1>2, <2>1
<1>4. k \notin before[j] /\ j \notin before[k]  BY <1>1, <1>2, <1>3
<1> QED  BY <1>3, <1>4 DEF Overlap

-----------------------------------------------------------------------------
(* Sessions of one nonce                                                    *)

(* A create_session that started after another had committed has found it,  *)
(* and has locked it when it commits.                                       *)
UsableInv ==
  \A p \in Pairings :
    /\ status[p] # "none" => at[p] = "done"
    /\ at[p] \in {"started", "done"} =>
         \A q \in before[p] \cap Pairings :
           /\ at[q] = "done" /\ q # p
           /\ NonceOf[q] = NonceOf[p] /\ Usable(q) => at[p] = "started" /\ existing[p] = q

(* Only its create_session makes a session pending.                         *)
LEMMA UsableShrinks ==
  ASSUME Types, [Next]_vars, NEW q \in Pairings, at[q] = "done"
  PROVE  Usable(q)' => Usable(q)
<1>0. q \in Transactions /\ overdue \subseteq overdue'  BY Stays DEF Transactions
<1> SUFFICES ASSUME status'[q] = "pending" PROVE status[q] = "pending"
  BY <1>0 DEF Usable
<1> USE DEF Types, PairInv, RowTypes, rowVars
<1>1. ASSUME NEW p \in Pairings, CreateCommit(p) PROVE status[q] = "pending"
  BY <1>1 DEF CreateCommit
<1>2. ASSUME NEW c \in Claims, ClaimReject(c) \/ ClaimCommit(c) PROVE status[q] = "pending"
  BY <1>2 DEF ClaimReject, ClaimCommit
<1>3. ASSUME NEW r \in Polls, PollCommit(r) PROVE status[q] = "pending"
  BY <1>3 DEF PollCommit
<1>4. CASE UNCHANGED status
  BY <1>4
<1> QED
  BY <1>1, <1>2, <1>3, <1>4
  DEF Next, Rollback, CreateRead, Expire, PollLost, PollAnswer, ClaimStart, ClaimRead,
      Forget, PollRead, PollRollback, Submit, RotateCommit, RotateStart, Revoke, vars

(* A row appears at the commit of its create_session.                       *)
LEMMA RowsAreInserted ==
  ASSUME Types, UsableInv, [Next]_vars, NEW p \in Pairings, status'[p] # "none"
  PROVE  at'[p] = "done"
<1>0. /\ p \in Transactions
      /\ at[p] = "done" => at'[p] = "done"
      /\ at \in [Transactions -> Steps]
  BY Stays DEF Transactions, Types, PairInv, RowTypes
<1> USE DEF Types, PairInv, RowTypes, rowVars
<1>1. CASE status[p] # "none"
  BY <1>0, <1>1 DEF UsableInv
<1>2. CASE status[p] = "none"
  <2>1. ASSUME NEW c \in Claims, ClaimReject(c) \/ ClaimCommit(c) PROVE FALSE
    BY <1>2, <2>1 DEF ClaimReject, ClaimCommit, LockInv
  <2>2. ASSUME NEW r \in Polls, PollCommit(r) PROVE FALSE
    BY <1>2, <2>2 DEF PollCommit, LockInv
  <2>3. ASSUME NEW q \in Pairings, CreateCommit(q) PROVE at'[p] = "done"
    <3>1. existing[q] # p  BY <1>2, Disjoint DEF CreatedInv
    <3>2. p = q  BY <1>2, <2>3, <3>1 DEF CreateCommit
    <3> QED  BY <1>0, <2>3, <3>2 DEF CreateCommit
  <2>4. CASE UNCHANGED status
    BY <1>2, <2>4
  <2> QED
    BY <2>1, <2>2, <2>3, <2>4
    DEF Next, Rollback, CreateRead, Expire, PollLost, PollAnswer, ClaimStart, ClaimRead,
        Forget, PollRead, PollRollback, Submit, RotateCommit, RotateStart, Revoke, vars
<1> QED  BY <1>1, <1>2

(* create_session keeps the session it found.                               *)
LEMMA ExistingStays ==
  ASSUME Types, [Next]_vars, NEW p \in Pairings, at[p] # "idle"
  PROVE  existing'[p] = existing[p]
<1>1. ASSUME NEW q \in Pairings, CreateRead(q) PROVE existing'[p] = existing[p]
  BY <1>1 DEF CreateRead, Start, Types, PairInv, RowTypes
<1>2. CASE UNCHANGED existing
  BY <1>2
<1> QED
  BY <1>1, <1>2
  DEF Next, Rollback, CreateCommit, Expire, PollLost, PollAnswer, ClaimStart, ClaimRead,
      ClaimReject, ClaimCommit,
      Forget, PollRead, PollCommit, PollRollback, Submit, RotateCommit, RotateStart, Revoke, vars

(* Every step keeps what a create_session found.                            *)
LEMMA NextUsableInv == Types /\ UsableInv /\ [Next]_vars => UsableInv'
<1> SUFFICES ASSUME Types, UsableInv, [Next]_vars,
                    NEW p \in Pairings, at'[p] \in {"started", "done"},
                    NEW q \in before'[p] \cap Pairings
             PROVE  /\ at'[q] = "done" /\ q # p
                    /\ NonceOf[q] = NonceOf[p] /\ Usable(q)' => at'[p] = "started" /\ existing'[p] = q
  BY RowsAreInserted DEF UsableInv
<1>0. p \in Transactions /\ q \in Transactions /\ at \in [Transactions -> Steps]
  BY DEF Transactions, Types, PairInv, RowTypes
<1>1. CASE at[p] = "idle"
  <2>1. CreateRead(p)
    BY <1>0, <1>1, Disjoint, Moves DEF Moving, Rollback, CreateCommit
  <2>2. /\ at' = [at EXCEPT ![p] = "started"] /\ before' = [before EXCEPT ![p] = Committed(Pairings)]
        /\ status' = status /\ overdue' = overdue
        /\ LET found == {x \in Pairings : Usable(x) /\ NonceOf[x] = NonceOf[p]} IN
             found = {} \/ \E x \in Pairings : found = {x} /\ existing' = [existing EXCEPT ![p] = x]
    BY <1>0, <1>1, <2>1 DEF CreateRead, Start, rowVars
  <2>3. at[q] = "done" /\ q # p
    BY <1>0, <1>1, <2>2 DEF Committed, Types, RestTypes
  <2>4. ASSUME NonceOf[q] = NonceOf[p], Usable(q) PROVE existing'[p] = q
    <3>1. q \in {x \in Pairings : Usable(x) /\ NonceOf[x] = NonceOf[p]}  BY <2>4
    <3> QED  BY <2>2, <3>1 DEF Types, PairInv, RowTypes
  <2>5. Usable(q)' => Usable(q)  BY <2>2 DEF Usable
  <2> QED  BY <1>0, <2>2, <2>3, <2>4, <2>5
<1>2. CASE at[p] # "idle"
  <2>1. /\ at[p] \in {"started", "done"}
    BY <1>0, <1>2, Disjoint, Moves DEF Moving, Rollback, CreateRead, Start, CreateCommit
  <2>2. before'[p] = before[p] /\ existing'[p] = existing[p]
    BY <1>0, <1>2, Stays, ExistingStays
  <2>3. /\ at[q] = "done" /\ q # p
        /\ NonceOf[q] = NonceOf[p] /\ Usable(q) => at[p] = "started" /\ existing[p] = q
    BY <2>1, <2>2 DEF UsableInv
  <2>4. at'[q] = "done" /\ (Usable(q)' => Usable(q))
    BY <1>0, <2>3, Stays, UsableShrinks
  <2>5. ASSUME NonceOf[q] = NonceOf[p], Usable(q)' PROVE at'[p] = "started"
    <3>1. at[p] = "started" /\ existing[p] = q  BY <2>3, <2>4, <2>5
    <3>2. ~CreateCommit(p)
      BY <2>3, <2>5, <3>1 DEF CreateCommit, Usable
    <3> QED
      BY <1>0, <3>1, <3>2, Disjoint, Moves DEF Moving, Rollback, CreateRead, Start
  <2> QED  BY <2>2, <2>3, <2>4, <2>5
<1> QED  BY <1>1, <1>2

(* Of two create_sessions in turn the later one has locked the earlier row. *)
LEMMA NoncesInTurn == Types /\ UsableInv => OneUsablePerNonce
<1> SUFFICES ASSUME UsableInv, NEW p \in Pairings, NEW q \in Pairings, NonceOf[p] = NonceOf[q],
                    Usable(p), Usable(q)
             PROVE  q \notin before[p]
  BY DEF OneUsablePerNonce, Overlap
<1> QED  BY DEF UsableInv, Usable

-----------------------------------------------------------------------------
(* Failed attempts                                                          *)

(* Failures are counted against those in the window when a claim started.   *)
FailInv ==
  /\ \A c \in failed : at[c] = "failed"
  /\ \A c \in Claims : \A d \in before[c] : d \in Claims /\ at[d] = "failed"
  /\ \A c \in Claims : at[c] \in {"started", "holding"} => Cardinality(before[c]) < MaxFailures
  /\ \A S \in SUBSET failed :
       (\A c, d \in S : c # d => ~Overlap(c, d)) => Cardinality(S) <= MaxFailures

(* There are finitely many claims.                                          *)
LEMMA FiniteClaims ==
  ASSUME NEW S \in SUBSET Claims
  PROVE  IsFiniteSet(S) /\ Cardinality(S) \in Nat
<1>1. IsFiniteSet(S)  BY PairingAssumption, FS_Subset
<1> QED  BY <1>1, FS_CardinalityType

(* A set of failures with the one that joins it.                            *)
LEMMA OneMoreFailure ==
  ASSUME FailInv, Types, NEW c \in Claims, at[c] \in {"started", "holding"},
         NEW S \in SUBSET (failed \cup {c}), \A d, e \in S : d # e => ~Overlap(d, e)
  PROVE  Cardinality(S) <= MaxFailures
<1>1. CASE S \subseteq failed
  BY <1>1 DEF FailInv
<1>2. CASE c \in S
  <2>1. S \subseteq before[c] \cup {c}
    <3> SUFFICES ASSUME NEW d \in S, d # c PROVE d \in before[c]  OBVIOUS
    <3>1. d \in Claims /\ at[d] = "failed"  BY DEF FailInv, Types, RestTypes
    <3>2. c \notin before[d]  BY <3>1 DEF FailInv
    <3>3. ~Overlap(c, d)  BY <1>2
    <3> QED  BY <3>2, <3>3 DEF Overlap
  <2>2. before[c] \in SUBSET Claims  BY DEF FailInv
  <2>3. IsFiniteSet(before[c]) /\ Cardinality(before[c]) \in Nat  BY <2>2, FiniteClaims
  <2>4. /\ IsFiniteSet(before[c] \cup {c})
        /\ Cardinality(before[c] \cup {c}) <= Cardinality(before[c]) + 1
        /\ Cardinality(before[c] \cup {c}) \in Nat
    <3> DEFINE B == before[c]
    <3>1. IsFiniteSet(B) /\ Cardinality(B) \in Nat  BY <2>3
    <3> HIDE DEF B
    <3>2. /\ IsFiniteSet(B \cup {c})
          /\ Cardinality(B \cup {c}) = IF c \in B THEN Cardinality(B) ELSE Cardinality(B) + 1
      BY <3>1, FS_AddElement
    <3>3. Cardinality(B \cup {c}) <= Cardinality(B) + 1 /\ Cardinality(B \cup {c}) \in Nat
      BY <3>1, <3>2
    <3> QED  BY <3>2, <3>3 DEF B
  <2>5. Cardinality(S) <= Cardinality(before[c] \cup {c}) /\ Cardinality(S) \in Nat
    <3>1. S \in SUBSET Claims  BY DEF Types, RestTypes
    <3> QED  BY <2>1, <2>4, <3>1, FiniteClaims, FS_Subset
  <2>6. Cardinality(before[c]) < MaxFailures  BY DEF FailInv
  <2> QED  BY <2>3, <2>4, <2>5, <2>6, PairingAssumption
<1> QED  BY <1>1, <1>2

(* No attempt has failed initially.                                         *)
LEMMA InitFailInv == Init => FailInv
<1> SUFFICES ASSUME Init PROVE FailInv  OBVIOUS
<1>1. \A S \in SUBSET failed : Cardinality(S) <= MaxFailures
  <2>1. \A S \in SUBSET failed : S = {}  BY DEF Init
  <2> QED  BY <2>1, FS_EmptySet, PairingAssumption
<1> QED  BY <1>1 DEF Init, FailInv, Transactions

(* Every step keeps the count of failures.                                  *)
LEMMA NextFailInv == Types /\ FailInv /\ [Next]_vars => FailInv'
<1> SUFFICES ASSUME Types, FailInv, [Next]_vars PROVE FailInv'  OBVIOUS
<1>0. /\ Claims \subseteq Transactions /\ failed \subseteq Claims
      /\ at \in [Transactions -> Steps]
  BY DEF Transactions, Types, PairInv, RowTypes, RestTypes
(* What was counted before a claim does not change after its start.         *)
<1>1. \A c \in Claims :
        /\ at[c] = "failed" => at'[c] = "failed"
        /\ before'[c] # before[c] =>
             at[c] = "idle" /\ ~Limited /\ before'[c] = failed /\ at'[c] = "started"
  <2>f. ASSUME NEW c \in Claims, at[c] = "failed" PROVE at'[c] = "failed"
    BY <1>0, <2>f, Stays
  <2> SUFFICES ASSUME NEW c \in Claims, before'[c] # before[c]
               PROVE  at[c] = "idle" /\ ~Limited /\ before'[c] = failed /\ at'[c] = "started"
    BY <2>f
  <2>0. before \in [Transactions -> SUBSET Transactions]  BY DEF Types, RestTypes
  <2>1. ASSUME NEW p \in Pairings, CreateRead(p) PROVE FALSE
    BY <1>0, <2>0, <2>1, Disjoint DEF CreateRead, Start
  <2>2. ASSUME NEW r \in Rotations, NEW i \in Claims, RotateStart(r, i) PROVE FALSE
    BY <1>0, <2>0, <2>2, Disjoint DEF RotateStart, Start
  <2>3. ASSUME NEW d \in Claims, NEW p \in Pairings \cup {NoPairing}, ClaimStart(d, p)
        PROVE  at[c] = "idle" /\ ~Limited /\ before'[c] = failed /\ at'[c] = "started"
    BY <1>0, <2>0, <2>3 DEF ClaimStart, Start
  <2>4. before' # before  OBVIOUS
  <2> QED
    BY <2>1, <2>2, <2>3, <2>4
    DEF Next, Rollback, CreateCommit, Expire, PollLost, PollAnswer, ClaimRead, ClaimReject,
        ClaimCommit, Forget, PollRead, PollCommit, PollRollback, Submit, RotateCommit, Revoke,
        vars
<1>2. \A c \in Claims : \A d \in before'[c] : d \in Claims /\ at'[d] = "failed"
  BY <1>0, <1>1 DEF FailInv
<1>3. ASSUME NEW c \in Claims, at'[c] \in {"started", "holding"}
      PROVE  Cardinality(before'[c]) < MaxFailures
  <2>1. CASE at[c] \in {"started", "holding"}
    BY <1>1, <2>1 DEF FailInv
  <2>2. CASE at[c] \notin {"started", "holding"}
    <3>1. at'[c] # at[c]  BY <1>3, <2>2
    <3>2. PICK p \in Pairings \cup {NoPairing} : ClaimStart(c, p)
      BY <1>0, <1>3, <2>2, <3>1, Disjoint, Moves
      DEF Moving, Rollback, ClaimRead, ClaimReject, ClaimCommit
    <3>3. before'[c] = failed /\ ~Limited
      BY <1>0, <1>3, <3>2 DEF ClaimStart, Start, Types, RestTypes
    <3>4. Cardinality(failed) \in Nat  BY <1>0, FiniteClaims
    <3> QED  BY <3>3, <3>4, PairingAssumption DEF Limited
  <2> QED  BY <2>1, <2>2
<1>4. ASSUME NEW S \in SUBSET Claims, \A c, d \in S : c # d => ~Overlap(c, d)',
             \A c \in S : at[c] # "idle"
      PROVE  \A c, d \in S : c # d => ~Overlap(c, d)
  BY <1>1, <1>4 DEF Overlap
<1>5. CASE \E c \in Claims : ClaimReject(c)
  <2>1. PICK c \in Claims : ClaimReject(c)  BY <1>5
  <2>2. /\ at[c] \in {"started", "holding"} /\ at'[c] = "failed" /\ failed' = failed \cup {c}
    BY <1>0, <2>1 DEF ClaimReject
  <2>3. \A d \in failed' : at'[d] = "failed" /\ d \in Claims /\ at[d] # "idle"
    BY <1>0, <1>1, <2>2 DEF FailInv
  <2>4. ASSUME NEW S \in SUBSET failed', \A d, e \in S : d # e => ~Overlap(d, e)'
        PROVE  Cardinality(S) <= MaxFailures
    <3>1. \A d, e \in S : d # e => ~Overlap(d, e)  BY <1>4, <2>3, <2>4
    <3> QED  BY <2>2, <3>1, OneMoreFailure
  <2> QED  BY <1>2, <1>3, <2>3, <2>4 DEF FailInv
<1>6. CASE ~ \E c \in Claims : ClaimReject(c)
  <2>1. failed' \subseteq failed
    BY <1>6
    DEF Next, Rollback, CreateRead, CreateCommit, Expire, PollLost, PollAnswer, ClaimStart,
        ClaimRead, ClaimCommit, Forget, PollRead, PollCommit, PollRollback, Submit,
        RotateStart, RotateCommit, Revoke, vars
  <2>2. \A d \in failed' : at'[d] = "failed" /\ d \in Claims /\ at[d] # "idle"
    BY <1>0, <1>1, <2>1 DEF FailInv
  <2>3. ASSUME NEW S \in SUBSET failed', \A d, e \in S : d # e => ~Overlap(d, e)'
        PROVE  Cardinality(S) <= MaxFailures
    <3>1. \A d, e \in S : d # e => ~Overlap(d, e)  BY <1>4, <2>2, <2>3
    <3> QED  BY <2>1, <3>1 DEF FailInv
  <2> QED  BY <1>2, <1>3, <2>2, <2>3 DEF FailInv
<1> QED  BY <1>5, <1>6

(* Failures in turn do not exceed the limit.                                *)
LEMMA FailuresInTurn == Types /\ FailInv => FailuresLimited
<1> SUFFICES ASSUME Types, FailInv, Cardinality(failed) > MaxFailures,
                    \A c, d \in failed : c # d => ~Overlap(c, d)
             PROVE  FALSE
  BY DEF FailuresLimited
<1>1. Cardinality(failed) \in Nat  BY FiniteClaims DEF Types, RestTypes
<1>2. Cardinality(failed) <= MaxFailures  BY DEF FailInv
<1> QED  BY <1>1, <1>2, PairingAssumption

-----------------------------------------------------------------------------
(* Delivery of the credential                                               *)

(* A claimed session names the claim, and a credential in an envelope is    *)
(* the one of that claim; a poll that holds the row has read the envelope.  *)
EnvelopeInv ==
  /\ \A p \in Pairings :
       /\ status[p] = "claimed" => claimedBy[p] # NoClaim
       /\ claimedBy[p] # NoClaim => at[claimedBy[p]] = "done" /\ code[claimedBy[p]] = p
       /\ envelope[p] # NoClaim => claimedBy[p] = envelope[p]
  /\ \A q \in Polls : at[q] = "holding" => carried[q] = envelope[target[q]]

(* An answer that carries a credential has emptied its envelope.            *)
AnswerInv ==
  \A q \in Polls : at[q] \in {"answered", "done"} =>
    /\ target[q] \in Pairings
    /\ carried[q] # NoClaim => rowSeen[q] = "claimed" /\ claimedBy[target[q]] = carried[q]
    /\ rowSeen[q] = "claimed" => claimedBy[target[q]] # NoClaim /\ envelope[target[q]] = NoClaim

Handed(p) ==
  \E q \in Polls : /\ at[q] \in {"answered", "done"}
                   /\ target[q] = p /\ carried[q] = claimedBy[p]

(* The envelope of a claimed session is empty when an answer carries it.    *)
HandedInv ==
  \A p \in Pairings : claimedBy[p] # NoClaim /\ envelope[p] = NoClaim => Handed(p)

Ended == {"created", "updated", "wrong_installation", "already_configured"}

(* A flow waits for its own poll, and ends with the credential it was given. *)
FlowInv ==
  /\ \A p \in Pairings :
       /\ flow[p] = "polling" => poll[p] \in Polls /\ target[poll[p]] = p /\ at[poll[p]] # "idle"
       /\ flow[p] = "unknown" => claimedBy[p] # NoClaim
  /\ \A q \in Polls : at[q] = "done" /\ carried[q] # NoClaim => flow[target[q]] \in Ended

(* A claimed session is answered without credential when another answer    *)
(* carried it, which never reached the flow.                                *)
UnknownInv ==
  \A p \in Pairings : flow[p] = "unknown" =>
    \E q \in Polls : at[q] = "answered" /\ target[q] = p /\ carried[q] = claimedBy[p]

DeliveryInv ==
  EnvelopeInv /\ AnswerInv /\ HandedInv /\ FlowInv /\ DeliveredOnce /\ UnknownInv

(* Nothing is delivered initially.                                          *)
LEMMA InitDeliveryInv == Init => DeliveryInv
BY Disjoint DEF Init, DeliveryInv, EnvelopeInv, AnswerInv, HandedInv, FlowInv, DeliveredOnce,
   UnknownInv, Transactions

(* A step that writes neither a credential nor an answer, nor the state of  *)
(* a poll or a flow.                                                        *)
LEMMA OthersKeepDelivery ==
  ASSUME Types, DeliveryInv,
         UNCHANGED <<claimedBy, envelope, target, carried, flow, poll>>,
         \A p \in Pairings : status'[p] = "claimed" => status[p] = "claimed",
         \A q \in Polls : at'[q] = at[q] /\ rowSeen'[q] = rowSeen[q],
         \A c \in Claims : at[c] = "done" => at'[c] = "done" /\ code'[c] = code[c]
  PROVE  DeliveryInv'
<1>1. EnvelopeInv'
  <2>1. claimedBy \in [Pairings -> Claims \cup {NoClaim}]  BY DEF Types, PairInv, RowTypes
  <2> QED  BY <2>1 DEF DeliveryInv, EnvelopeInv
<1>2. AnswerInv'  BY DEF DeliveryInv, AnswerInv
<1>3. HandedInv'  BY DEF DeliveryInv, HandedInv, Handed
<1>4. FlowInv'
  BY DEF DeliveryInv, FlowInv
<1>5. DeliveredOnce'  BY DEF DeliveryInv, DeliveredOnce
<1>6. UnknownInv'  BY DEF DeliveryInv, UnknownInv
<1> QED  BY <1>1, <1>2, <1>3, <1>4, <1>5, <1>6 DEF DeliveryInv

(* A session is inserted before its flow has a form.                        *)
LEMMA CreateKeepsDelivery ==
  ASSUME Types, DeliveryInv, NEW p \in Pairings, CreateCommit(p)
  PROVE  DeliveryInv'
<1>0. /\ at[p] = "started" /\ flow' = [flow EXCEPT ![p] = "form"]
      /\ at' = [at EXCEPT ![p] = "done"]
      /\ \A q \in Pairings : status'[q] = "claimed" => status[q] = "claimed"
      /\ UNCHANGED <<claimedBy, envelope, code, rowSeen, target, carried, poll>>
  BY DEF CreateCommit, claimVars, pollVars
<1>1. /\ flow[p] = "none" /\ p \notin Claims \cup Polls
      /\ at \in [Transactions -> Steps] /\ flow \in [Pairings -> Flows]
      /\ claimedBy \in [Pairings -> Claims \cup {NoClaim}]
      /\ Pairings \cup Claims \cup Polls \subseteq Transactions
  BY <1>0, Disjoint DEF Types, PairInv, RowTypes, CreatedInv, Transactions
<1>2. /\ \A t \in Claims \cup Polls : at'[t] = at[t]
      /\ \A q \in Pairings : q # p => flow'[q] = flow[q]
      /\ flow'[p] = "form"
  BY <1>0, <1>1
<1>3. EnvelopeInv'  BY <1>0, <1>1, <1>2 DEF DeliveryInv, EnvelopeInv
<1>4. AnswerInv'  BY <1>0, <1>2 DEF DeliveryInv, AnswerInv
<1>5. HandedInv'  BY <1>0, <1>2 DEF DeliveryInv, HandedInv, Handed
<1>6. FlowInv'
  <2>1. \A q \in Polls : at[q] = "done" /\ carried[q] # NoClaim => target[q] \in Pairings /\ target[q] # p
    BY <1>1 DEF DeliveryInv, AnswerInv, FlowInv, Ended
  <2> QED  BY <1>0, <1>2, <2>1 DEF DeliveryInv, FlowInv
<1>7. DeliveredOnce'  BY <1>0, <1>2 DEF DeliveryInv, DeliveredOnce
<1>8. UnknownInv'  BY <1>0, <1>2 DEF DeliveryInv, UnknownInv
<1> QED  BY <1>3, <1>4, <1>5, <1>6, <1>7, <1>8 DEF DeliveryInv

(* A claim puts its credential where there was none.                        *)
LEMMA ClaimKeepsDelivery ==
  ASSUME Types, DeliveryInv, NEW c \in Claims, ClaimCommit(c)
  PROVE  DeliveryInv'
<1> DEFINE p == code[c]
<1>0. /\ at[c] = "holding" /\ p \in Pairings /\ status[p] = "pending"
      /\ status' = [status EXCEPT ![p] = "claimed"]
      /\ claimedBy' = [claimedBy EXCEPT ![p] = c]
      /\ envelope' = [envelope EXCEPT ![p] = c]
      /\ at' = [at EXCEPT ![c] = "done"]
      /\ \A q \in Polls : at[q] = "holding" => target[q] # p
      /\ UNCHANGED <<code, rowSeen, target, carried, flow, poll>>
  BY Disjoint DEF ClaimCommit, claimVars, pollVars, flowVars, Types, PairInv, LockInv
<1>1. /\ c \notin Polls /\ c # NoClaim
      /\ at \in [Transactions -> Steps] /\ status \in [Pairings -> Statuses]
      /\ claimedBy \in [Pairings -> Claims \cup {NoClaim}]
      /\ envelope \in [Pairings -> Claims \cup {NoClaim}]
      /\ Pairings \cup Claims \cup Polls \subseteq Transactions
  BY Disjoint DEF Types, PairInv, RowTypes, RestTypes, Transactions
<1>2. claimedBy[p] = NoClaim
  BY <1>0 DEF Types, PairInv, ClaimedInv
<1>3. /\ at'[c] = "done" /\ \A t \in Claims \cup Polls : t # c => at'[t] = at[t]
      /\ \A q \in Polls : at'[q] = at[q]
      /\ claimedBy'[p] = c /\ envelope'[p] = c
      /\ \A o \in Pairings : o # p => claimedBy'[o] = claimedBy[o] /\ envelope'[o] = envelope[o]
                                      /\ status'[o] = status[o]
  BY <1>0, <1>1
<1> HIDE DEF p
<1>a. p = code[c]  BY DEF p
<1>4. EnvelopeInv'
  <2>1. ASSUME NEW o \in Pairings
        PROVE  /\ status'[o] = "claimed" => claimedBy'[o] # NoClaim
               /\ claimedBy'[o] # NoClaim => at'[claimedBy'[o]] = "done" /\ code'[claimedBy'[o]] = o
               /\ envelope'[o] # NoClaim => claimedBy'[o] = envelope'[o]
    <3>1. CASE o = p  BY <1>0, <1>1, <1>3, <1>a, <3>1
    <3>2. CASE o # p
      <4>1. claimedBy[o] # c
        BY <1>0, <1>1, <3>2 DEF DeliveryInv, EnvelopeInv
      <4> QED  BY <1>0, <1>1, <1>3, <3>2, <4>1 DEF DeliveryInv, EnvelopeInv
    <3> QED  BY <3>1, <3>2
  <2>2. ASSUME NEW q \in Polls, at'[q] = "holding" PROVE carried'[q] = envelope'[target'[q]]
    <3>1. at[q] = "holding" /\ target[q] \in Pairings /\ target[q] # p
      BY <1>0, <1>3, <2>2 DEF Types, PairInv, CreatedInv
    <3> QED  BY <1>0, <1>3, <3>1 DEF DeliveryInv, EnvelopeInv
  <2> QED  BY <2>1, <2>2 DEF EnvelopeInv
<1>5. \A q \in Polls : at[q] \in {"answered", "done"} /\ rowSeen[q] = "claimed" =>
        target[q] \in Pairings /\ target[q] # p
  BY <1>2 DEF DeliveryInv, AnswerInv
<1>6. AnswerInv'
  BY <1>0, <1>3, <1>5 DEF DeliveryInv, AnswerInv
<1>7. HandedInv'
  <2>1. ASSUME NEW o \in Pairings, o # p, Handed(o) PROVE Handed(o)'
    BY <1>0, <1>3, <2>1 DEF Handed
  <2> QED  BY <1>1, <1>3, <2>1 DEF DeliveryInv, HandedInv
<1>8. FlowInv'
  <2>1. \A o \in Pairings : claimedBy[o] # NoClaim => claimedBy'[o] # NoClaim
    BY <1>1, <1>3
  <2>2. \A o \in Pairings : flow[o] = "polling" =>
          poll[o] \in Polls /\ target[poll[o]] = o /\ at[poll[o]] # "idle"
    BY DEF DeliveryInv, FlowInv
  <2> QED  BY <1>0, <1>3, <2>1, <2>2 DEF DeliveryInv, FlowInv
<1>9. DeliveredOnce'  BY <1>0, <1>3 DEF DeliveryInv, DeliveredOnce
<1>10. UnknownInv'
  <2>1. \A o \in Pairings : flow[o] = "unknown" => o # p
    BY <1>2 DEF DeliveryInv, FlowInv
  <2> QED  BY <1>0, <1>3, <2>1 DEF DeliveryInv, UnknownInv
<1> QED  BY <1>4, <1>6, <1>7, <1>8, <1>9, <1>10 DEF DeliveryInv

(* A poll answers with what it read under the lock, once it has emptied the *)
(* envelope.                                                                *)
LEMMA AnswerKeepsDelivery ==
  ASSUME Types, DeliveryInv, NEW q \in Polls, PollCommit(q)
  PROVE  DeliveryInv'
<1> DEFINE p == target[q]
<1>0. /\ at[q] = "holding" /\ p \in Pairings /\ rowSeen[q] = status[p]
      /\ carried[q] = envelope[p]
      /\ at' = [at EXCEPT ![q] = "answered"]
      /\ \A r \in Polls : at[r] = "holding" /\ r # q => target[r] # p
      /\ UNCHANGED <<claimedBy, code, target, flow, poll>>
  BY Disjoint
  DEF PollCommit, claimVars, flowVars, Types, PairInv, LockInv, CreatedInv, DeliveryInv, EnvelopeInv
<1>1. /\ q \notin Claims
      /\ at \in [Transactions -> Steps] /\ status \in [Pairings -> Statuses]
      /\ rowSeen \in [Claims \cup Polls -> Statuses]
      /\ claimedBy \in [Pairings -> Claims \cup {NoClaim}]
      /\ envelope \in [Pairings -> Claims \cup {NoClaim}]
      /\ carried \in [Polls -> Claims \cup {NoClaim}]
      /\ Pairings \cup Claims \cup Polls \subseteq Transactions
  BY Disjoint DEF Types, PairInv, RowTypes, RestTypes, Transactions
<1>2. /\ at'[q] = "answered" /\ \A t \in Claims \cup Polls : t # q => at'[t] = at[t]
      /\ \A c \in Claims : at'[c] = at[c]
  BY <1>0, <1>1
<1>3. claimedBy[p] # NoClaim => rowSeen[q] \in {"claimed", "locked"}
  BY <1>0 DEF Types, PairInv, ClaimedInv
(* The answer, and the envelope after it.                                   *)
<1>4. /\ \A r \in Polls : r # q => carried'[r] = carried[r] /\ rowSeen'[r] = rowSeen[r]
      /\ \A o \in Pairings : /\ o # p => envelope'[o] = envelope[o] /\ status'[o] = status[o]
                             /\ status'[o] = "claimed" => status[o] = "claimed"
                             /\ envelope'[o] # NoClaim => envelope'[o] = envelope[o]
      /\ rowSeen'[q] = "claimed" => rowSeen[q] = "claimed" /\ carried'[q] = carried[q]
                                    /\ envelope'[p] = NoClaim
      /\ rowSeen'[q] # "claimed" => carried'[q] = NoClaim /\ envelope' = envelope
  <2>1. CASE /\ rowSeen[q] = "pending"
             /\ status' = [status EXCEPT ![p] = "expired"]
             /\ rowSeen' = [rowSeen EXCEPT ![q] = "expired"]
             /\ UNCHANGED <<envelope, carried>>
    <3>1. carried[q] = NoClaim
      BY <1>0, <1>3, <2>1 DEF DeliveryInv, EnvelopeInv
    <3> QED  BY <1>0, <1>1, <2>1, <3>1
  <2>2. CASE /\ rowSeen[q] # "claimed" /\ carried' = [carried EXCEPT ![q] = NoClaim]
             /\ UNCHANGED <<status, rowSeen, envelope>>
    BY <1>0, <1>1, <2>2
  <2>3. CASE /\ rowSeen[q] = "claimed" /\ envelope' = [envelope EXCEPT ![p] = NoClaim]
             /\ UNCHANGED <<status, rowSeen, carried>>
    BY <1>0, <1>1, <2>3
  <2> QED  BY <2>1, <2>2, <2>3 DEF PollCommit
<1> HIDE DEF p
<1>a. p = target[q]  BY DEF p
<1>5. rowSeen[q] = "claimed" => claimedBy[p] # NoClaim
  BY <1>0 DEF DeliveryInv, EnvelopeInv
<1>6. carried'[q] # NoClaim => claimedBy[p] = carried'[q] /\ envelope[p] = carried'[q]
  BY <1>0, <1>4 DEF DeliveryInv, EnvelopeInv
<1>7. EnvelopeInv'
  <2>1. ASSUME NEW r \in Polls, at'[r] = "holding" PROVE carried'[r] = envelope'[target'[r]]
    <3>1. r # q /\ at[r] = "holding"  BY <1>2, <2>1
    <3>2. target[r] \in Pairings /\ target[r] # p  BY <1>0, <3>1 DEF Types, PairInv, CreatedInv
    <3> QED  BY <1>0, <1>4, <3>1, <3>2 DEF DeliveryInv, EnvelopeInv
  <2>2. ASSUME NEW o \in Pairings
        PROVE  /\ status'[o] = "claimed" => claimedBy'[o] # NoClaim
               /\ claimedBy'[o] # NoClaim => at'[claimedBy'[o]] = "done" /\ code'[claimedBy'[o]] = o
               /\ envelope'[o] # NoClaim => claimedBy'[o] = envelope'[o]
    BY <1>0, <1>1, <1>2, <1>4 DEF DeliveryInv, EnvelopeInv
  <2> QED  BY <2>1, <2>2 DEF EnvelopeInv
<1>8. AnswerInv'
  <2>1. ASSUME NEW r \in Polls, r # q, at'[r] \in {"answered", "done"}
        PROVE  /\ target'[r] \in Pairings
               /\ carried'[r] # NoClaim => rowSeen'[r] = "claimed" /\ claimedBy'[target'[r]] = carried'[r]
               /\ rowSeen'[r] = "claimed" =>
                    claimedBy'[target'[r]] # NoClaim /\ envelope'[target'[r]] = NoClaim
    BY <1>0, <1>2, <1>4, <2>1 DEF DeliveryInv, AnswerInv
  <2>2. /\ target'[q] \in Pairings
        /\ carried'[q] # NoClaim => rowSeen'[q] = "claimed" /\ claimedBy'[target'[q]] = carried'[q]
        /\ rowSeen'[q] = "claimed" =>
             claimedBy'[target'[q]] # NoClaim /\ envelope'[target'[q]] = NoClaim
    BY <1>0, <1>a, <1>4, <1>5, <1>6
  <2> QED  BY <2>1, <2>2 DEF AnswerInv
<1>9. \A o \in Pairings : Handed(o) => Handed(o)'
  BY <1>0, <1>2, <1>4 DEF Handed
<1>10. HandedInv'
  <2> SUFFICES ASSUME NEW o \in Pairings, claimedBy[o] # NoClaim, envelope'[o] = NoClaim
               PROVE  Handed(o)'
    BY <1>0 DEF HandedInv
  <2>1. CASE envelope[o] = NoClaim  BY <1>9, <2>1 DEF DeliveryInv, HandedInv
  <2>2. CASE envelope[o] # NoClaim
    <3>1. o = p /\ rowSeen'[q] = "claimed" /\ carried'[q] = envelope[p]
      BY <1>0, <1>4, <2>2
    <3>2. carried'[q] = claimedBy'[o]  BY <1>0, <2>2, <3>1 DEF DeliveryInv, EnvelopeInv
    <3> QED  BY <1>0, <1>2, <1>a, <3>1, <3>2 DEF Handed
  <2> QED  BY <2>1, <2>2
<1>11. FlowInv'
  <2>1. \A o \in Pairings : flow[o] = "polling" => at'[poll[o]] # "idle"
    BY <1>2 DEF DeliveryInv, FlowInv
  <2>2. \A r \in Polls : at'[r] = "done" => r # q /\ at[r] = "done"
    BY <1>2
  <2> QED  BY <1>0, <1>4, <2>1, <2>2 DEF DeliveryInv, FlowInv
<1>12. DeliveredOnce'
  <2>1. ASSUME NEW r \in Polls, r # q, at'[r] \in {"answered", "done"}, carried'[q] # NoClaim,
               carried'[r] = carried'[q]
        PROVE  FALSE
    <3>1. at[r] \in {"answered", "done"} /\ carried[r] = carried'[q]  BY <1>2, <1>4, <2>1
    <3>2. target[r] \in Pairings /\ claimedBy[target[r]] = carried'[q]
          /\ envelope[target[r]] = NoClaim
      BY <2>1, <3>1 DEF DeliveryInv, AnswerInv
    <3>3. target[r] = p
      BY <1>0, <1>6, <2>1, <3>2 DEF DeliveryInv, EnvelopeInv
    <3> QED  BY <1>6, <2>1, <3>2, <3>3
  <2> QED  BY <1>2, <1>4, <2>1 DEF DeliveryInv, DeliveredOnce
<1>13. UnknownInv'
  BY <1>0, <1>2, <1>4 DEF DeliveryInv, UnknownInv
<1> QED  BY <1>7, <1>8, <1>10, <1>11, <1>12, <1>13 DEF DeliveryInv

(* A poll that starts, reads or fails answers nothing.                      *)
LEMMA PollKeepsDelivery ==
  ASSUME Types, DeliveryInv, NEW q \in Polls,
         PollRead(q) \/ PollRollback(q) \/ \E p \in Pairings : Submit(p, q)
  PROVE  DeliveryInv'
<1>1. /\ at \in [Transactions -> Steps] /\ q \notin Claims
      /\ rowSeen \in [Claims \cup Polls -> Statuses]
      /\ target \in [Polls -> Pairings \cup {NoPairing}]
      /\ carried \in [Polls -> Claims \cup {NoClaim}]
      /\ flow \in [Pairings -> Flows] /\ poll \in [Pairings -> Polls \cup {NoPoll}]
      /\ claimedBy \in [Pairings -> Claims \cup {NoClaim}]
      /\ Claims \cup Polls \subseteq Transactions
  BY Disjoint DEF Types, PairInv, RowTypes, RestTypes, Transactions
(* Only q moves, to where it has no answer.                                 *)
<1>2. /\ at[q] \in {"idle", "started", "holding"} /\ at'[q] \in {"started", "holding", "failed"}
      /\ at[q] # "idle" => target'[q] = target[q]
      /\ at'[q] = "holding" => target'[q] \in Pairings /\ carried'[q] = envelope[target'[q]]
      /\ \A t \in Claims \cup Polls : t # q => at'[t] = at[t]
      /\ \A c \in Claims : at'[c] = at[c]
      /\ \A r \in Polls : r # q => /\ target'[r] = target[r] /\ carried'[r] = carried[r]
                                   /\ rowSeen'[r] = rowSeen[r]
      /\ UNCHANGED <<status, claimedBy, envelope, code>>
  <2>1. CASE PollRead(q)
    <3>1. target[q] \in Pairings  BY <2>1 DEF PollRead, Types, PairInv, CreatedInv
    <3> QED  BY <1>1, <2>1, <3>1 DEF PollRead, ReadRowForUpdate, rowVars, claimVars
  <2>2. CASE PollRollback(q)
    BY <1>1, <2>2 DEF PollRollback, rowVars, claimVars
  <2>3. CASE \E p \in Pairings : Submit(p, q)
    BY <1>1, <2>3 DEF Submit, rowVars, claimVars
  <2> QED  BY <2>1, <2>2, <2>3
<1>3. \A p \in Pairings :
        /\ flow'[p] = "polling" => poll'[p] \in Polls /\ target'[poll'[p]] = p /\ at'[poll'[p]] # "idle"
        /\ flow'[p] \in {"unknown"} \cup Ended <=> flow[p] \in {"unknown"} \cup Ended
        /\ flow[p] \in {"unknown"} \cup Ended => flow'[p] = flow[p]
  <2>1. CASE PollRead(q) \/ PollRollback(q)
    <3>1. UNCHANGED <<flow, poll, target>>
      BY <2>1 DEF PollRead, PollRollback, flowVars
    <3> QED  BY <1>2, <3>1 DEF DeliveryInv, FlowInv
  <2>2. ASSUME NEW p \in Pairings, Submit(p, q)
        PROVE  \A o \in Pairings :
                 /\ flow'[o] = "polling" =>
                      poll'[o] \in Polls /\ target'[poll'[o]] = o /\ at'[poll'[o]] # "idle"
                 /\ flow'[o] \in {"unknown"} \cup Ended <=> flow[o] \in {"unknown"} \cup Ended
                 /\ flow[o] \in {"unknown"} \cup Ended => flow'[o] = flow[o]
    <3>1. /\ flow[p] = "form" /\ flow' = [flow EXCEPT ![p] = "polling"]
          /\ poll' = [poll EXCEPT ![p] = q] /\ at[q] = "idle"
          /\ target' = [target EXCEPT ![q] = p]
      BY <2>2 DEF Submit
    <3>2. \A o \in Pairings : flow[o] = "polling" =>
            poll[o] \in Polls \ {q} /\ target[poll[o]] = o /\ at[poll[o]] # "idle"
      BY <3>1 DEF DeliveryInv, FlowInv
    <3> QED  BY <1>1, <1>2, <3>1, <3>2 DEF Ended
  <2> QED  BY <2>1, <2>2
<1>4. EnvelopeInv'
  <2>1. ASSUME NEW r \in Polls, at'[r] = "holding" PROVE carried'[r] = envelope'[target'[r]]
    BY <1>2, <2>1 DEF DeliveryInv, EnvelopeInv
  <2>2. ASSUME NEW o \in Pairings
        PROVE  /\ status'[o] = "claimed" => claimedBy'[o] # NoClaim
               /\ claimedBy'[o] # NoClaim => at'[claimedBy'[o]] = "done" /\ code'[claimedBy'[o]] = o
               /\ envelope'[o] # NoClaim => claimedBy'[o] = envelope'[o]
    BY <1>1, <1>2 DEF DeliveryInv, EnvelopeInv
  <2> QED  BY <2>1, <2>2 DEF EnvelopeInv
<1>5. AnswerInv'  BY <1>2 DEF DeliveryInv, AnswerInv
<1>6. HandedInv'
  <2>1. \A o \in Pairings : Handed(o) => Handed(o)'  BY <1>2 DEF Handed
  <2> QED  BY <1>2, <2>1 DEF DeliveryInv, HandedInv
<1>7. FlowInv'
  <2>1. ASSUME NEW p \in Pairings, flow'[p] = "unknown" PROVE claimedBy'[p] # NoClaim
    <3>1. flow[p] = "unknown"  BY <1>3, <2>1
    <3> QED  BY <1>2, <3>1 DEF DeliveryInv, FlowInv
  <2>2. ASSUME NEW r \in Polls, at'[r] = "done", carried'[r] # NoClaim PROVE flow'[target'[r]] \in Ended
    <3>1. r # q /\ at[r] = "done" /\ target'[r] = target[r] /\ carried[r] # NoClaim
      BY <1>2, <2>2
    <3>2. target[r] \in Pairings /\ flow[target[r]] \in Ended
      BY <3>1 DEF DeliveryInv, AnswerInv, FlowInv
    <3> QED  BY <1>3, <3>1, <3>2
  <2> QED  BY <1>3, <2>1, <2>2 DEF FlowInv
<1>8. DeliveredOnce'
  <2>1. \A r \in Polls : at'[r] \in {"answered", "done"} =>
          r # q /\ at[r] = at'[r] /\ carried'[r] = carried[r]
    BY <1>2
  <2> QED  BY <2>1 DEF DeliveryInv, DeliveredOnce
<1>9. UnknownInv'
  <2>1. \A p \in Pairings : flow'[p] = "unknown" => flow[p] = "unknown"
    BY <1>3
  <2> QED  BY <1>2, <2>1 DEF DeliveryInv, UnknownInv
<1> QED  BY <1>4, <1>5, <1>6, <1>7, <1>8, <1>9 DEF DeliveryInv

(* How a flow ends when a credential arrives, and when none does.           *)
LEMMA OutcomeEnds ==
  ASSUME NEW p, NEW st \in Statuses, NEW i
  PROVE  /\ st = "claimed" /\ i # NoClaim => Outcome(p, st, i) \in Ended
         /\ Outcome(p, st, i) = "unknown" => st = "claimed" /\ i = NoClaim
<1>1. CASE st = "pending"  BY <1>1 DEF Outcome
<1>2. CASE st = "expired"  BY <1>2 DEF Outcome
<1>3. CASE st = "locked"  BY <1>3 DEF Outcome
<1>4. CASE st = "claimed" /\ i = NoClaim  BY <1>4
<1>5. CASE st = "claimed" /\ i # NoClaim /\ reauthOf[p] # NoClaim
  BY <1>5 DEF Outcome, Ended
<1>6. CASE \/ st = "none"
           \/ st = "claimed" /\ i # NoClaim /\ reauthOf[p] = NoClaim
  BY <1>6 DEF Outcome, Ended
<1> QED  BY <1>1, <1>2, <1>3, <1>4, <1>5, <1>6 DEF Statuses

(* The flow ends with what its poll answered.                               *)
LEMMA FlowKeepsDelivery ==
  ASSUME Types, DeliveryInv, NEW p \in Pairings, PollLost(p) \/ PollAnswer(p)
  PROVE  DeliveryInv'
<1>1. /\ at \in [Transactions -> Steps]
      /\ flow \in [Pairings -> Flows] /\ poll \in [Pairings -> Polls \cup {NoPoll}]
      /\ Claims \cup Polls \subseteq Transactions /\ Claims \cap Polls = {}
  BY Disjoint DEF Types, PairInv, RowTypes, Transactions
<1>2. /\ flow[p] = "polling" /\ poll[p] \in Polls /\ target[poll[p]] = p
      /\ \A o \in Pairings : o # p => flow'[o] = flow[o] /\ poll'[o] = poll[o]
      /\ UNCHANGED <<status, claimedBy, envelope, code, target, carried, rowSeen>>
  BY <1>1 DEF PollLost, PollAnswer, DeliveryInv, FlowInv, rowVars, claimVars, pollVars
(* The flow is not polling any more, and its poll is done if it answered.   *)
<1>3. /\ flow'[p] # "polling"
      /\ \A c \in Claims : at'[c] = at[c]
      /\ \A r \in Polls : \/ at'[r] = at[r]
                          \/ r = poll[p] /\ at[r] = "answered" /\ at'[r] = "done"
      /\ \A r \in Polls : at'[r] # at[r] =>
           flow'[p] = Outcome(p, rowSeen[poll[p]], carried[poll[p]])
      /\ flow'[p] = "unknown" => /\ rowSeen[poll[p]] = "claimed" /\ carried[poll[p]] = NoClaim
                                 /\ at[poll[p]] = "answered"
  <2>1. rowSeen[poll[p]] \in Statuses  BY <1>2 DEF Types, PairInv, RowTypes
  <2>2. CASE PollLost(p)  BY <1>1, <2>2 DEF PollLost
  <2>3. CASE PollAnswer(p)
    <3>1. /\ at[poll[p]] = "answered" /\ at' = [at EXCEPT ![poll[p]] = "done"]
          /\ flow'[p] = Outcome(p, rowSeen[poll[p]], carried[poll[p]])
      BY <1>1, <2>3 DEF PollAnswer
    <3> QED  BY <1>1, <1>2, <2>1, <3>1, OutcomeType, OutcomeEnds
  <2> QED  BY <2>2, <2>3
<1>4. EnvelopeInv'
  <2>1. ASSUME NEW r \in Polls, at'[r] = "holding" PROVE carried'[r] = envelope'[target'[r]]
    BY <1>2, <1>3, <2>1 DEF DeliveryInv, EnvelopeInv
  <2>2. claimedBy \in [Pairings -> Claims \cup {NoClaim}]  BY DEF Types, PairInv, RowTypes
  <2>3. ASSUME NEW o \in Pairings
        PROVE  /\ status'[o] = "claimed" => claimedBy'[o] # NoClaim
               /\ claimedBy'[o] # NoClaim => at'[claimedBy'[o]] = "done" /\ code'[claimedBy'[o]] = o
               /\ envelope'[o] # NoClaim => claimedBy'[o] = envelope'[o]
    BY <1>2, <1>3, <2>2 DEF DeliveryInv, EnvelopeInv
  <2> QED  BY <2>1, <2>3 DEF EnvelopeInv
<1>5. \A r \in Polls : at'[r] \in {"answered", "done"} => at[r] \in {"answered", "done"}
  BY <1>3
<1>6. AnswerInv'  BY <1>2, <1>5 DEF DeliveryInv, AnswerInv
<1>7. HandedInv'
  <2>1. \A r \in Polls : at[r] \in {"answered", "done"} => at'[r] \in {"answered", "done"}
    BY <1>3
  <2>2. \A o \in Pairings : Handed(o) => Handed(o)'  BY <1>2, <2>1 DEF Handed
  <2> QED  BY <1>2, <2>2 DEF DeliveryInv, HandedInv
<1>8. FlowInv'
  <2>1. ASSUME NEW o \in Pairings, flow'[o] = "polling"
        PROVE  poll'[o] \in Polls /\ target'[poll'[o]] = o /\ at'[poll'[o]] # "idle"
    <3>1. o # p /\ flow[o] = "polling"  BY <1>2, <1>3, <2>1
    <3>2. poll[o] \in Polls /\ target[poll[o]] = o /\ at[poll[o]] # "idle"
      BY <3>1 DEF DeliveryInv, FlowInv
    <3> QED  BY <1>2, <1>3, <3>1, <3>2
  <2>2. ASSUME NEW o \in Pairings, flow'[o] = "unknown" PROVE claimedBy'[o] # NoClaim
    BY <1>2, <1>3, <2>2 DEF DeliveryInv, FlowInv, AnswerInv
  <2>3. ASSUME NEW r \in Polls, at'[r] = "done", carried'[r] # NoClaim PROVE flow'[target'[r]] \in Ended
    <3>1. CASE at[r] = "done"
      <4>1. target[r] \in Pairings /\ flow[target[r]] \in Ended
        BY <1>2, <2>3, <3>1 DEF DeliveryInv, AnswerInv, FlowInv
      <4> QED  BY <1>2, <4>1 DEF Ended
    <3>2. CASE at[r] # "done"
      <4>1. r = poll[p] /\ at[r] = "answered" /\ flow'[p] = Outcome(p, rowSeen[r], carried[r])
        BY <1>3, <2>3, <3>2
      <4>2. rowSeen[r] = "claimed" /\ carried[r] # NoClaim
        BY <1>2, <2>3, <4>1 DEF DeliveryInv, AnswerInv
      <4> QED  BY <1>2, <4>1, <4>2, OutcomeEnds DEF Statuses
    <3> QED  BY <3>1, <3>2
  <2> QED  BY <2>1, <2>2, <2>3 DEF FlowInv
<1>9. DeliveredOnce'  BY <1>2, <1>5 DEF DeliveryInv, DeliveredOnce
<1>10. UnknownInv'
  <2> SUFFICES ASSUME NEW o \in Pairings, flow'[o] = "unknown"
               PROVE  \E r \in Polls : at'[r] = "answered" /\ target'[r] = o /\ carried'[r] = claimedBy'[o]
    BY DEF UnknownInv
  <2>1. CASE o # p
    <3>1. PICK r \in Polls : at[r] = "answered" /\ target[r] = o /\ carried[r] = claimedBy[o]
      BY <1>2, <2>1 DEF DeliveryInv, UnknownInv
    <3>2. at'[r] = "answered"  BY <1>2, <1>3, <2>1, <3>1
    <3> QED  BY <1>2, <3>1, <3>2
  <2>2. CASE o = p
    <3>1. /\ rowSeen[poll[p]] = "claimed" /\ carried[poll[p]] = NoClaim /\ at[poll[p]] = "answered"
      BY <1>3, <2>2
    <3>2. claimedBy[p] # NoClaim /\ envelope[p] = NoClaim
      BY <1>2, <3>1 DEF DeliveryInv, AnswerInv
    <3>3. PICK r \in Polls : /\ at[r] \in {"answered", "done"}
                             /\ target[r] = p /\ carried[r] = claimedBy[p]
      BY <3>2 DEF DeliveryInv, HandedInv, Handed
    <3>4. at[r] # "done"
      BY <1>2, <3>2, <3>3 DEF DeliveryInv, FlowInv, Ended
    <3>5. r # poll[p]  BY <3>1, <3>2, <3>3
    <3> QED  BY <1>2, <1>3, <2>2, <3>3, <3>4, <3>5
  <2> QED  BY <2>1, <2>2
<1> QED  BY <1>4, <1>6, <1>7, <1>8, <1>9, <1>10 DEF DeliveryInv

(* Every step keeps the delivery.                                           *)
LEMMA NextDeliveryInv == Types /\ DeliveryInv /\ [Next]_vars => DeliveryInv'
<1> SUFFICES ASSUME Types, DeliveryInv, [Next]_vars PROVE DeliveryInv'  OBVIOUS
<1>0. /\ at \in [Transactions -> Steps] /\ Polls \subseteq Transactions
      /\ code \in [Claims -> Pairings \cup {NoPairing}]
      /\ rowSeen \in [Claims \cup Polls -> Statuses]
      /\ status \in [Pairings -> Statuses]
      /\ \A c \in Claims : at[c] = "done" => at'[c] = "done" /\ code'[c] = code[c]
  BY Stays DEF Types, PairInv, RowTypes, Transactions
<1> USE Disjoint DEF rowVars, claimVars, pollVars, flowVars
<1>1. ASSUME NEW t \in Transactions, Rollback(t) PROVE DeliveryInv'
  <2>1. /\ UNCHANGED <<claimedBy, envelope, target, carried, flow, poll, status, rowSeen>>
        /\ \A q \in Polls : at'[q] = at[q]
    BY <1>0, <1>1 DEF Rollback
  <2> QED  BY <1>0, <2>1, OthersKeepDelivery
<1>2. ASSUME NEW p \in Pairings, CreateRead(p) PROVE DeliveryInv'
  <2>1. /\ UNCHANGED <<claimedBy, envelope, target, carried, flow, poll, status, rowSeen>>
        /\ \A q \in Polls : at'[q] = at[q]
    BY <1>0, <1>2 DEF CreateRead, Start
  <2> QED  BY <1>0, <2>1, OthersKeepDelivery
<1>3. ASSUME NEW c \in Claims, NEW p \in Pairings \cup {NoPairing}, ClaimStart(c, p)
      PROVE  DeliveryInv'
  <2>1. /\ UNCHANGED <<claimedBy, envelope, target, carried, flow, poll, status, rowSeen>>
        /\ \A q \in Polls : at'[q] = at[q]
    BY <1>0, <1>3 DEF ClaimStart, Start
  <2> QED  BY <1>0, <2>1, OthersKeepDelivery
<1>4. ASSUME NEW c \in Claims, ClaimRead(c) \/ ClaimReject(c) PROVE DeliveryInv'
  <2>1. /\ UNCHANGED <<claimedBy, envelope, target, carried, flow, poll>>
        /\ \A q \in Polls : at'[q] = at[q] /\ rowSeen'[q] = rowSeen[q]
        /\ \A p \in Pairings : status'[p] = "claimed" => status[p] = "claimed"
    BY <1>0, <1>4 DEF ClaimRead, ReadRowForUpdate, ClaimReject
  <2> QED  BY <1>0, <2>1, OthersKeepDelivery
<1>5. ASSUME NEW r \in Rotations, RotateCommit(r) \/ \E i \in Claims : RotateStart(r, i)
      PROVE  DeliveryInv'
  <2>1. /\ UNCHANGED <<claimedBy, envelope, target, carried, flow, poll, status, rowSeen>>
        /\ \A q \in Polls : at'[q] = at[q]
    BY <1>0, <1>5 DEF RotateCommit, RotateStart, Start
  <2> QED  BY <1>0, <2>1, OthersKeepDelivery
<1>6. ASSUME \/ \E p \in Pairings : Expire(p)
             \/ \E c \in Claims : Forget(c)
             \/ \E k \in Credentials : Revoke(k)
             \/ UNCHANGED vars
      PROVE  DeliveryInv'
  <2>1. UNCHANGED <<claimedBy, envelope, target, carried, flow, poll, status, rowSeen, at>>
    BY <1>6 DEF Expire, Forget, Revoke, vars
  <2> QED  BY <1>0, <2>1, OthersKeepDelivery
<1> QED
  BY <1>1, <1>2, <1>3, <1>4, <1>5, <1>6, CreateKeepsDelivery, ClaimKeepsDelivery,
     AnswerKeepsDelivery, PollKeepsDelivery, FlowKeepsDelivery
  DEF Next

-----------------------------------------------------------------------------
(* How the flow of a session that is not handed over ends                   *)

Overwriting(p) == \E t \in Pairings : existing[t] = p /\ at[t] = "done"

(* A session that lapsed before a claim is never claimed.                   *)
Lapsed(p) == claimedBy[p] = NoClaim /\ status[p] \in {"expired", "locked"}

(* Only create_session locks, and the answers expired and locked say what   *)
(* the session still is.                                                    *)
EndingInv ==
  /\ \A p \in Pairings : status[p] = "locked" => Overwriting(p)
  /\ \A p \in Pairings : status[p] = "expired" => Lapsed(p)
  /\ \A q \in Polls : at[q] \in {"answered", "done"} =>
       /\ target[q] \in Pairings
       /\ rowSeen[q] = "expired" => Lapsed(target[q])
       /\ rowSeen[q] = "locked" => status[target[q]] = "locked"
  /\ \A p \in Pairings :
       /\ flow[p] = "expired" => Lapsed(p)
       /\ flow[p] = "denied" => status[p] = "locked"

(* No session is created initially.                                         *)
LEMMA InitEndingInv == Init => EndingInv
BY DEF Init, EndingInv, Transactions

(* A session changes only while it is pending, or to locked.                *)
LEMMA EndedStays ==
  ASSUME PairInv, [Next]_vars, NEW p \in Pairings
  PROVE  /\ status[p] = "locked" => status'[p] = "locked"
         /\ Lapsed(p) => Lapsed(p)'
         /\ status'[p] = "locked" /\ status[p] # "locked" =>
              \E t \in Pairings : CreateCommit(t) /\ existing[t] = p
         /\ status'[p] = "expired" /\ status[p] # "expired" => claimedBy'[p] = NoClaim
<1> USE DEF rowVars
<1> DEFINE Goal ==
         /\ status[p] = "locked" => status'[p] = "locked"
         /\ Lapsed(p) => Lapsed(p)'
         /\ status'[p] = "locked" /\ status[p] # "locked" =>
              \E t \in Pairings : CreateCommit(t) /\ existing[t] = p
         /\ status'[p] = "expired" /\ status[p] # "expired" => claimedBy'[p] = NoClaim
<1>1. ASSUME NEW c \in Claims, ClaimReject(c) PROVE Goal
  <2>1. /\ \/ UNCHANGED status
           \/ /\ code[c] \in Pairings /\ status[code[c]] = "pending"
              /\ status' = [status EXCEPT ![code[c]] = "expired"]
        /\ UNCHANGED claimedBy
    BY <1>1 DEF ClaimReject, PairInv, LockInv
  <2> QED  BY <2>1 DEF PairInv, RowTypes, ClaimedInv, Lapsed
<1>2. ASSUME NEW c \in Claims, ClaimCommit(c) PROVE Goal
  <2>1. /\ code[c] \in Pairings /\ status[code[c]] = "pending"
        /\ status' = [status EXCEPT ![code[c]] = "claimed"]
        /\ claimedBy' = [claimedBy EXCEPT ![code[c]] = c]
    BY <1>2 DEF ClaimCommit, PairInv, LockInv
  <2> QED  BY <2>1 DEF PairInv, RowTypes, Lapsed
<1>3. ASSUME NEW q \in Polls, PollCommit(q) PROVE Goal
  <2>1. /\ \/ UNCHANGED status
           \/ /\ target[q] \in Pairings /\ status[target[q]] = "pending"
              /\ status' = [status EXCEPT ![target[q]] = "expired"]
        /\ UNCHANGED claimedBy
    BY <1>3 DEF PollCommit, PairInv, LockInv
  <2> QED  BY <2>1 DEF PairInv, RowTypes, ClaimedInv, Lapsed
<1>4. ASSUME NEW t \in Pairings, CreateCommit(t) PROVE Goal
  <2>1. /\ status[t] = "none"
        /\ status' = [q \in Pairings |->
             IF q = t THEN "pending" ELSE IF q = existing[t] THEN "locked" ELSE status[q]]
        /\ UNCHANGED claimedBy
    BY <1>4 DEF CreateCommit, PairInv, CreatedInv
  <2> QED  BY <1>4, <2>1 DEF Lapsed
<1>5. ASSUME UNCHANGED <<status, claimedBy>> PROVE Goal
  BY <1>5 DEF Lapsed
<1> QED
  BY <1>1, <1>2, <1>3, <1>4, <1>5
  DEF Next, Rollback, CreateRead, Expire, PollLost, PollAnswer, ClaimStart, ClaimRead,
      Forget, PollRead, PollRollback, Submit, RotateCommit, RotateStart, Revoke, vars

(* Which outcome ends a flow without a credential.                          *)
LEMMA OutcomeWithout ==
  ASSUME NEW p, NEW st \in Statuses, NEW i
  PROVE  /\ Outcome(p, st, i) = "expired" => st = "expired"
         /\ Outcome(p, st, i) = "denied" => st = "locked"
<1>1. CASE st \in {"pending", "expired", "locked"}  BY <1>1 DEF Outcome
<1>2. CASE st = "claimed" /\ i = NoClaim  BY <1>2 DEF Outcome
<1>3. CASE st = "claimed" /\ i # NoClaim /\ reauthOf[p] # NoClaim  BY <1>3 DEF Outcome
<1>4. CASE \/ st = "none"
           \/ st = "claimed" /\ i # NoClaim /\ reauthOf[p] = NoClaim
  BY <1>4 DEF Outcome
<1> QED  BY <1>1, <1>2, <1>3, <1>4 DEF Statuses

(* A poll answers what the row is, and keeps the answer.                    *)
LEMMA AnswerStays ==
  ASSUME Types, [Next]_vars, NEW q \in Polls, at'[q] \in {"answered", "done"}
  PROVE  \/ /\ at[q] \in {"answered", "done"}
            /\ target'[q] = target[q] /\ rowSeen'[q] = rowSeen[q]
         \/ /\ PollCommit(q) /\ at[q] = "holding" /\ target[q] \in Pairings
            /\ target'[q] = target[q] /\ rowSeen'[q] = status'[target[q]]
            /\ status'[target[q]] = "expired" => claimedBy'[target[q]] = NoClaim
<1> USE Disjoint DEF rowVars, claimVars, pollVars, flowVars
<1> DEFINE Goal ==
         \/ /\ at[q] \in {"answered", "done"}
            /\ target'[q] = target[q] /\ rowSeen'[q] = rowSeen[q]
         \/ /\ PollCommit(q) /\ at[q] = "holding" /\ target[q] \in Pairings
            /\ target'[q] = target[q] /\ rowSeen'[q] = status'[target[q]]
            /\ status'[target[q]] = "expired" => claimedBy'[target[q]] = NoClaim
<1>0. /\ at \in [Transactions -> Steps] /\ q \in Transactions
      /\ rowSeen \in [Claims \cup Polls -> Statuses] /\ status \in [Pairings -> Statuses]
      /\ target \in [Polls -> Pairings \cup {NoPairing}]
  BY DEF Types, PairInv, RowTypes, Transactions
<1>1. ASSUME NEW t \in Transactions, Rollback(t) PROVE Goal
  BY <1>0, <1>1 DEF Rollback
<1>2. ASSUME NEW p \in Pairings, CreateRead(p) \/ CreateCommit(p) \/ Expire(p) \/ PollLost(p)
      PROVE  Goal
  BY <1>0, <1>2 DEF CreateRead, Start, CreateCommit, Expire, PollLost
<1>3. ASSUME NEW p \in Pairings, PollAnswer(p) PROVE Goal
  BY <1>0, <1>3 DEF PollAnswer
<1>4. ASSUME NEW c \in Claims, NEW p \in Pairings \cup {NoPairing}, ClaimStart(c, p) PROVE Goal
  BY <1>0, <1>4 DEF ClaimStart, Start
<1>5. ASSUME NEW c \in Claims, ClaimRead(c) \/ ClaimReject(c) \/ ClaimCommit(c) \/ Forget(c)
      PROVE  Goal
  BY <1>0, <1>5 DEF ClaimRead, ReadRowForUpdate, ClaimReject, ClaimCommit, Forget
<1>6. ASSUME NEW r \in Polls, PollRead(r) \/ PollRollback(r) \/ \E p \in Pairings : Submit(p, r)
      PROVE  Goal
  BY <1>0, <1>6 DEF PollRead, ReadRowForUpdate, PollRollback, Submit
<1>7. ASSUME NEW r \in Polls, PollCommit(r) PROVE Goal
  <2>1. /\ at[r] = "holding" /\ target[r] \in Pairings /\ rowSeen[r] = status[target[r]]
        /\ at' = [at EXCEPT ![r] = "answered"] /\ UNCHANGED <<target, claimedBy>>
        /\ \/ /\ rowSeen[r] = "pending"
              /\ status' = [status EXCEPT ![target[r]] = "expired"]
              /\ rowSeen' = [rowSeen EXCEPT ![r] = "expired"]
           \/ UNCHANGED <<status, rowSeen>>
    BY <1>7 DEF PollCommit, Types, PairInv, LockInv
  <2> QED  BY <1>0, <1>7, <2>1 DEF Types, PairInv, ClaimedInv
<1>8. ASSUME NEW r \in Rotations, RotateCommit(r) \/ \E i \in Claims : RotateStart(r, i)
      PROVE  Goal
  BY <1>0, <1>8 DEF RotateCommit, RotateStart, Start
<1>9. ASSUME (\E k \in Credentials : Revoke(k)) \/ UNCHANGED vars PROVE Goal
  BY <1>0, <1>9 DEF Revoke, vars
<1> QED  BY <1>1, <1>2, <1>3, <1>4, <1>5, <1>6, <1>7, <1>8, <1>9 DEF Next

(* A flow ends expired or denied by such an answer.                         *)
LEMMA FlowStays ==
  ASSUME Types, DeliveryInv, [Next]_vars, NEW p \in Pairings, flow'[p] \in {"expired", "denied"}
  PROVE  \/ flow[p] = flow'[p]
         \/ \E q \in Polls : /\ at[q] = "answered" /\ target[q] = p
                             /\ flow'[p] = "expired" => rowSeen[q] = "expired"
                             /\ flow'[p] = "denied" => rowSeen[q] = "locked"
<1> USE DEF flowVars
<1>0. flow \in [Pairings -> Flows] /\ rowSeen \in [Claims \cup Polls -> Statuses]
  BY DEF Types, PairInv, RowTypes
<1>1. ASSUME NEW o \in Pairings, PollAnswer(o)
      PROVE  \/ flow[p] = flow'[p]
             \/ \E q \in Polls : /\ at[q] = "answered" /\ target[q] = p
                                 /\ flow'[p] = "expired" => rowSeen[q] = "expired"
                                 /\ flow'[p] = "denied" => rowSeen[q] = "locked"
  <2>1. /\ flow[o] = "polling" /\ at[poll[o]] = "answered"
        /\ flow' = [flow EXCEPT ![o] = Outcome(o, rowSeen[poll[o]], carried[poll[o]])]
    BY <1>1 DEF PollAnswer
  <2>2. poll[o] \in Polls /\ target[poll[o]] = o  BY <2>1 DEF DeliveryInv, FlowInv
  <2>3. CASE o # p  BY <1>0, <2>1, <2>3
  <2>4. CASE o = p
    <3>1. flow'[p] = Outcome(p, rowSeen[poll[p]], carried[poll[p]])  BY <1>0, <2>1, <2>4
    <3>2. rowSeen[poll[p]] \in Statuses  BY <1>0, <2>2, <2>4
    <3> QED  BY <2>1, <2>2, <2>4, <3>1, <3>2, OutcomeWithout
  <2> QED  BY <2>3, <2>4
<1>2. ASSUME NEW o \in Pairings, PollLost(o) \/ CreateCommit(o) PROVE flow[p] = flow'[p]
  BY <1>0, <1>2 DEF PollLost, CreateCommit
<1>3. ASSUME NEW o \in Pairings, NEW q \in Polls, Submit(o, q) PROVE flow[p] = flow'[p]
  BY <1>0, <1>3 DEF Submit
<1>4. CASE UNCHANGED flow  BY <1>4
<1> QED
  BY <1>1, <1>2, <1>3, <1>4
  DEF Next, Rollback, CreateRead, Expire, ClaimStart, ClaimRead, ClaimReject, ClaimCommit,
      Forget, PollRead, PollCommit, PollRollback, RotateCommit, RotateStart, Revoke, vars

(* Every step keeps it.                                                     *)
LEMMA NextEndingInv == Types /\ DeliveryInv /\ EndingInv /\ [Next]_vars => EndingInv'
<1> SUFFICES ASSUME Types, DeliveryInv, EndingInv, [Next]_vars PROVE EndingInv'  OBVIOUS
<1>0. PairInv  BY DEF Types
<1>1. ASSUME NEW p \in Pairings, status'[p] = "locked" PROVE Overwriting(p)'
  <2>1. CASE status[p] = "locked"
    <3>1. PICK t \in Pairings : existing[t] = p /\ at[t] = "done"
      BY <2>1 DEF EndingInv, Overwriting
    <3>2. at'[t] = "done"  BY <3>1, Stays DEF Transactions
    <3>3. existing'[t] = existing[t]
      BY <3>1 DEF Next, vars, CreateRead, Start, CreateCommit, Rollback, Expire, PollLost,
         PollAnswer, ClaimStart, ClaimRead, ClaimReject, ClaimCommit, Forget, PollRead,
         PollCommit, PollRollback, Submit, RotateCommit, RotateStart, Revoke, Types, PairInv,
         RowTypes
    <3> QED  BY <3>1, <3>2, <3>3 DEF Overwriting
  <2>2. CASE status[p] # "locked"
    <3>1. PICK t \in Pairings : CreateCommit(t) /\ existing[t] = p
      BY <1>0, <1>1, <2>2, EndedStays
    <3>2. at'[t] = "done" /\ existing'[t] = p
      BY <1>0, <3>1 DEF CreateCommit, PairInv, RowTypes, Transactions
    <3> QED  BY <3>2 DEF Overwriting
  <2> QED  BY <2>1, <2>2
<1>2. ASSUME NEW p \in Pairings, status'[p] = "expired" PROVE Lapsed(p)'
  <2>1. CASE status[p] = "expired"  BY <1>0, <2>1, EndedStays DEF EndingInv
  <2>2. CASE status[p] # "expired"  BY <1>0, <1>2, <2>2, EndedStays DEF Lapsed
  <2> QED  BY <2>1, <2>2
<1>3. ASSUME NEW q \in Polls, at'[q] \in {"answered", "done"}
      PROVE  /\ target'[q] \in Pairings
             /\ rowSeen'[q] = "expired" => Lapsed(target[q])'
             /\ rowSeen'[q] = "locked" => status'[target'[q]] = "locked"
  <2>1. CASE at[q] \in {"answered", "done"} /\ target'[q] = target[q] /\ rowSeen'[q] = rowSeen[q]
    <3>1. /\ target[q] \in Pairings
          /\ rowSeen[q] = "expired" => Lapsed(target[q])
          /\ rowSeen[q] = "locked" => status[target[q]] = "locked"
      BY <2>1 DEF EndingInv
    <3>2. /\ Lapsed(target[q]) =>
               claimedBy'[target[q]] = NoClaim /\ status'[target[q]] \in {"expired", "locked"}
          /\ status[target[q]] = "locked" => status'[target[q]] = "locked"
      BY <1>0, <3>1, EndedStays DEF Lapsed
    <3> QED  BY <2>1, <3>1, <3>2 DEF Lapsed
  <2>2. CASE /\ target[q] \in Pairings
             /\ target'[q] = target[q] /\ rowSeen'[q] = status'[target[q]]
             /\ status'[target[q]] = "expired" => claimedBy'[target[q]] = NoClaim
    BY <2>2 DEF Lapsed
  <2> QED  BY <1>3, <2>1, <2>2, AnswerStays
<1>4. ASSUME NEW p \in Pairings, flow'[p] \in {"expired", "denied"}
      PROVE  /\ flow'[p] = "expired" => Lapsed(p)'
             /\ flow'[p] = "denied" => status'[p] = "locked"
  <2>1. /\ flow'[p] = "expired" => Lapsed(p)
        /\ flow'[p] = "denied" => status[p] = "locked"
    BY <1>4, FlowStays DEF EndingInv
  <2> QED  BY <1>0, <2>1, EndedStays
<1> QED  BY <1>1, <1>2, <1>3, <1>4 DEF EndingInv

(* A claimed session that was answered expired would have lapsed, and one   *)
(* that was answered locked has been overwritten.                           *)
LEMMA EndingReaches == UnknownInv /\ EndingInv => CredentialReachesFlow
BY DEF UnknownInv, EndingInv, Lapsed, Overwriting, CredentialReachesFlow

-----------------------------------------------------------------------------
(* The invariant and what follows from it                                   *)

PairingInv == Types /\ RotationInv /\ UsableInv /\ FailInv /\ DeliveryInv /\ EndingInv

(* What every reachable state of the pairing satisfies.                     *)
THEOREM PairingInvariant == Spec => []PairingInv
<1>1. Init => PairingInv
  <2>1. Init => RotationInv /\ UsableInv
    BY DEF Init, RotationInv, UsableInv, Transactions
  <2> QED
    BY <2>1, InitPairInv, InitRestTypes, InitFailInv, InitDeliveryInv, InitEndingInv DEF PairingInv, Types
<1>2. PairingInv /\ [Next]_vars => PairingInv'
  <2>1. Types /\ [Next]_vars => Types'
    BY NextPairInv, NextRestTypes DEF Types
  <2> QED
    BY <2>1, NextRotationInv, NextUsableInv, NextFailInv, NextDeliveryInv, NextEndingInv DEF PairingInv
<1> QED  BY <1>1, <1>2, PTL DEF Spec

(* Every variable keeps its type, whatever requests run at the same time    *)
(* (TypeOK).                                                                *)
THEOREM TypeOKAlways == Spec => []TypeOK
<1>1. PairingInv => TypeOK
  BY DEF PairingInv, Types, PairInv, RowTypes, RestTypes, TypeOK
<1> QED  BY <1>1, PairingInvariant, PTL

(* Two credentials of an installation are active only when they come from   *)
(* rotations that ran at the same time (OneActiveCredential).               *)
THEOREM OneActiveCredentialAlways == Spec => []OneActiveCredential
<1>1. PairingInv => OneActiveCredential  BY RotationsInTurn DEF PairingInv
<1> QED  BY <1>1, PairingInvariant, PTL

(* create_session leaves two usable sessions of a nonce only when two calls *)
(* ran at the same time (OneUsablePerNonce).                                *)
THEOREM OneUsablePerNonceAlways == Spec => []OneUsablePerNonce
<1>1. PairingInv => OneUsablePerNonce  BY NoncesInTurn DEF PairingInv
<1> QED  BY <1>1, PairingInvariant, PTL

(* The limit of failed claims is exceeded only by claims that counted at    *)
(* the same time (FailuresLimited).                                         *)
THEOREM FailuresLimitedAlways == Spec => []FailuresLimited
<1>1. PairingInv => FailuresLimited  BY FailuresInTurn DEF PairingInv
<1> QED  BY <1>1, PairingInvariant, PTL

(* poll hands the credential of a claim to one poll, however many race for  *)
(* it (DeliveredOnce).                                                      *)
THEOREM DeliveredOnceAlways == Spec => []DeliveredOnce
<1>1. PairingInv => DeliveredOnce  BY DEF PairingInv, DeliveryInv
<1> QED  BY <1>1, PairingInvariant, PTL

(* The flow of a claimed session that ends without its credential has lost  *)
(* the answer that carried it, or is told of a session that create_session  *)
(* overwrote (CredentialReachesFlow).                                       *)
THEOREM CredentialReachesFlowAlways == Spec => []CredentialReachesFlow
<1>1. PairingInv => CredentialReachesFlow
  BY EndingReaches DEF PairingInv, DeliveryInv
<1> QED  BY <1>1, PairingInvariant, PTL
=============================================================================
