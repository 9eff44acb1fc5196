----------------------- MODULE SessionRegistryProofs -----------------------
(***************************************************************************)
(* The inductive invariant of the session registry, part by part, and the   *)
(* proof that every step keeps the types of its variables.                  *)
(***************************************************************************)
EXTENDS SessionRegistry, SequenceTheorems, TLAPS

(* The lock is held across a suspension point by a sending call only, whose *)
(* entry is in the table; a command in the table but not sent is that one.  *)
HolderSends ==
  \A c \in Calls : callPc[c] = "sending" =>
    holder = c /\ pending[callKey[c]] = c

UnsentIsHeld ==
  \A k \in Keys : pending[k] # NoCall /\ ~sent[pending[k]] => holder = pending[k]

(* The table is keyed by the command of the call that made the entry, and   *)
(* the entry names a session of the same installation.                      *)
TableKeyed ==
  \A k \in Keys : pending[k] # NoCall =>
    /\ callKey[pending[k]] = k
    /\ owner[pending[k]] \in Sessions
    /\ InstallationOf[owner[pending[k]]] = k[1]

(* A call waits for the future of some call, and stops waiting when that    *)
(* future is done.                                                          *)
WaitBound ==
  \A c \in Calls : callPc[c] \in {"sending", "waiting", "finish"} =>
    /\ waitsOn[c] \in Calls
    /\ callPc[c] = "sending" => waitsOn[c] = c
    /\ callPc[c] = "finish" => future[waitsOn[c]] # "undone"

(* A call sends once, and its command stays in the table until the future   *)
(* is done.                                                                 *)
SentTracked ==
  \A c \in Calls :
    /\ callPc[c] \in {"idle", "enter", "sending"} => ~sent[c]
    /\ sent[c] /\ future[c] = "undone" => pending[callKey[c]] = c

Home ==
  \A i \in Installations : current[i] # NoSession => InstallationOf[current[i]] = i

(* Past the first section of replace a handler is first in the queue of its *)
(* installation's replacement lock: no two handlers are there at once.      *)
HoldsReplacement ==
  {"replaceWait", "draining", "swapWait", "cancelWait", "closePrevious"}

ReplacementExclusive ==
  \A s \in Sessions : pc[s] \in HoldsReplacement => HoldsReplacementLock(s)

(* While a replacement drains, dispatch is refused, nobody else registers,  *)
(* and every command without a result is one of those it waits for.         *)
DrainCovers ==
  \A s \in Sessions : pc[s] \in {"draining", "swapWait"} =>
    /\ InstallationOf[s] \in transitioning
    /\ current[InstallationOf[s]] \in {previous[s], NoSession}
    /\ \A k \in Keys : k[1] = InstallationOf[s] /\ Undone(pending[k]) =>
         pending[k] \in draining[s]

DrainDone ==
  \A s \in Sessions : pc[s] = "swapWait" => \A c \in draining[s] : ~Undone(c)

(* A handler that waits to resolve has a command result in hand.            *)
InboxHeld == \A s \in Sessions : pc[s] = "resolveWait" => inbox[s] \in Commands

(* A handler that closes the previous websocket is still the registered one. *)
ClosingIsCurrent ==
  \A s \in Sessions :
    pc[s] = "closePrevious" => current[InstallationOf[s]] = s

CallInv == HolderSends /\ UnsentIsHeld /\ TableKeyed /\ WaitBound /\ SentTracked
TableInv == Home /\ NoOrphan
ReplaceInv == ReplacementExclusive /\ MarkHasOwner /\ DrainCovers /\ DrainDone

CloseInv == ClosingIsCurrent /\ ReplacedIsClosed

IInv == TypeOK /\ CallInv /\ TableInv /\ ReplaceInv /\ InboxHeld /\ CloseInv

-----------------------------------------------------------------------------
(* Type correctness                                                         *)

(* Appending to a queue keeps its type, its head and its members.           *)
LEMMA AppendFacts ==
  ASSUME NEW S, NEW q \in Seq(S), NEW x \in S
  PROVE  /\ Append(q, x) \in Seq(S)
         /\ Append(q, x) # <<>>
         /\ q # <<>> => Head(Append(q, x)) = Head(q)
  <1>1. Append(q, x) \in Seq(S) /\ Append(q, x) # <<>>
    BY AppendProperties
  <1>2. ASSUME q # <<>> PROVE Head(Append(q, x)) = Head(q)
    <2>1. Len(q) \in Nat /\ Len(q) # 0
      BY <1>2, EmptySeq, LenProperties
    <2>2. Append(q, x)[1] = q[1]
      BY <2>1, AppendProperties
    <2>3. QED
      BY <1>1, <1>2, <2>2
  <1>3. QED
    BY <1>1, <1>2

(* Taking the head off a queue keeps its type.                              *)
LEMMA TailFacts ==
  ASSUME NEW S, NEW q \in Seq(S), q # <<>>
  PROVE  Tail(q) \in Seq(S) /\ Head(q) \in S
  BY HeadTailProperties

(* A cancelled waiter leaves its queue a queue, whose head stays the head   *)
(* unless it was the one to go.                                             *)
LEMMA WithoutFacts ==
  ASSUME NEW S, NEW q \in Seq(S), NEW x
  PROVE  /\ Without(q, x) \in Seq(S)
         /\ q # <<>> /\ Head(q) # x =>
              Without(q, x) # <<>> /\ Head(Without(q, x)) = Head(q)
  <1>1. CASE \E n \in DOMAIN q : q[n] = x
    <2> DEFINE n == CHOOSE m \in DOMAIN q : q[m] = x
               before == SubSeq(q, 1, n - 1)
               after == SubSeq(q, n + 1, Len(q))
    <2>1. n \in DOMAIN q /\ q[n] = x
      BY <1>1
    <2>2. /\ Len(q) \in Nat /\ n \in 1..Len(q)
          /\ \A i \in 1..Len(q) : q[i] \in S
      BY <2>1, LenProperties, ElementOfSeq
    <2> HIDE DEF n
    <2>3. /\ before \in Seq(S)
          /\ Len(before) = IF 1 <= n - 1 THEN (n - 1) - 1 + 1 ELSE 0
          /\ \A i \in 1..((n - 1) - 1 + 1) : before[i] = q[1 + i - 1]
      <3>1. 1 \in Int /\ n - 1 \in Int /\ \A i \in 1..(n - 1) : q[i] \in S
        BY <2>2
      <3>2. QED
        BY <3>1, SubSeqProperties
    <2>4. after \in Seq(S)
      <3>1. n + 1 \in Int /\ Len(q) \in Int /\ \A i \in (n + 1)..Len(q) : q[i] \in S
        BY <2>2
      <3>2. QED
        BY <3>1, SubSeqProperties
    <2>5. Without(q, x) = before \o after
      BY <1>1 DEF Without, SeqExt!RemoveAt, n
    <2>6. /\ Without(q, x) \in Seq(S)
          /\ Len(Without(q, x)) = Len(before) + Len(after)
          /\ \A i \in 1..(Len(before) + Len(after)) :
               Without(q, x)[i] = IF i <= Len(before) THEN before[i]
                                  ELSE after[i - Len(before)]
      BY <2>3, <2>4, <2>5, ConcatProperties
    <2> HIDE DEF before, after
    <2>7. ASSUME q # <<>>, Head(q) # x
          PROVE  Without(q, x) # <<>> /\ Head(Without(q, x)) = Head(q)
      <3> DEFINE w == Without(q, x)
      <3>1. n # 1 /\ Head(q) = q[1]
        BY <2>1, <2>7
      <3>2. Len(before) >= 1 /\ Len(after) \in Nat /\ before[1] = q[1]
        BY <2>2, <2>3, <2>4, <3>1, LenProperties
      <3>3. Len(before) \in Nat /\ 1 \in 1..(Len(before) + Len(after))
        BY <2>3, <3>2, LenProperties
      <3>4. w \in Seq(S) /\ w[1] = q[1] /\ Len(w) # 0
        BY <2>6, <3>2, <3>3
      <3> HIDE DEF w
      <3>5. w # <<>> /\ Head(w) = Head(q)
        BY <3>1, <3>4, EmptySeq
      <3>6. QED
        BY <3>5 DEF w
    <2>8. QED
      BY <2>6, <2>7
  <1>2. CASE ~\E n \in DOMAIN q : q[n] = x
    BY <1>2 DEF Without
  <1>3. QED
    BY <1>1, <1>2

(* The registry starts with values of the right types.                      *)
LEMMA InitTypeOK == Init => TypeOK
  BY RegistryAssumption DEF Init, TypeOK, Keys, CallPcs, FutureStates, SessionPcs,
     SocketStates

(* What a call returns is an answer.                                        *)
LEMMA AnswerType ==
  ASSUME NEW st \in Statuses, NEW p \in Calls \cup {NoCall}
  PROVE  [status |-> st, from |-> p] \in Answers
  BY DEF Answers

(* A return keeps the types of the frame of the call.                       *)
LEMMA ReturnType ==
  ASSUME TypeOK, NEW c \in Calls, NEW a \in Answers \cup {NoAnswer}, Return(c, a)
  PROVE  /\ answer' \in [Calls -> Answers \cup {NoAnswer}]
         /\ callPc' \in [Calls -> CallPcs]
  BY DEF TypeOK, Return, CallPcs

(* A refusal keeps the types of the frame of the call.                      *)
LEMMA RefusalType ==
  ASSUME TypeOK, NEW c \in Calls, NEW st \in Statuses, Refusal(c, st)
  PROVE  /\ answer' \in [Calls -> Answers \cup {NoAnswer}]
         /\ callPc' \in [Calls -> CallPcs]
  <1>1. [status |-> st, from |-> NoCall] \in Answers
    BY AnswerType
  <1>2. Return(c, [status |-> st, from |-> NoCall])
    BY DEF Refusal
  <1>3. QED
    BY <1>1, <1>2, ReturnType

(* So does each way dispatch refuses (evcp.py:338-388).                     *)
LEMMA RefuseType ==
  ASSUME TypeOK, NEW c \in Calls, Refuse(c)
  PROVE  /\ answer' \in [Calls -> Answers \cup {NoAnswer}]
         /\ callPc' \in [Calls -> CallPcs]
  <1>1. CASE Refusal(c, "duplicate")
    BY <1>1, RefusalType DEF Statuses
  <1>2. CASE Refusal(c, "unavailable")
    BY <1>2, RefusalType DEF Statuses
  <1>3. CASE Refusal(c, "stale_session")
    BY <1>3, RefusalType DEF Statuses
  <1>4. CASE Return(c, completed[callKey[c]])
    <2>1. completed[callKey[c]] \in Answers \cup {NoAnswer}
      BY DEF TypeOK
    <2>2. QED
      BY <1>4, <2>1, ReturnType
  <1>5. QED
    BY <1>1, <1>2, <1>3, <1>4 DEF Refuse

(* The first section of dispatch keeps every type.                          *)
LEMMA DispatchSectionTypeOK ==
  ASSUME TypeOK, NEW c \in Calls, DispatchSection(c), lockQueue' \in Seq(Tasks)
  PROVE  TypeOK'
  <1>1. CASE Refuse(c)
    <2>1. /\ answer' \in [Calls -> Answers \cup {NoAnswer}]
          /\ callPc' \in [Calls -> CallPcs]
      BY <1>1, RefuseType
    <2>2. UNCHANGED <<pending, fingerprint, holder, waitsOn, owner>>
      BY <1>1 DEF Refuse
    <2>3. QED
      BY <2>1, <2>2 DEF TypeOK, DispatchSection, sessionVars
  <1>2. CASE Join(c)
    BY <1>2 DEF Join, TypeOK, DispatchSection, sessionVars, CallPcs
  <1>3. CASE BeginSend(c)
    BY <1>3 DEF BeginSend, Admitted, Keys, TypeOK, DispatchSection, sessionVars, CallPcs
  <1>4. QED
    BY <1>1, <1>2, <1>3 DEF DispatchSection

(* The last section of dispatch keeps every type.                           *)
LEMMA FinishSectionTypeOK ==
  ASSUME TypeOK, NEW c \in Calls, NEW a \in Answers \cup {NoAnswer},
         FinishSection(c, a),
         UNCHANGED <<holder, replQueue, callKey, callFp, waitsOn, owner, sent,
                     sessionVars>>,
         lockQueue' \in Seq(Tasks),
         future' \in [Calls -> FutureStates]
  PROVE  TypeOK'
  <1> DEFINE k == callKey[c]
             keys == Newest(k)
  <1>2. k \in Keys /\ keys \in Seq(Keys)
    BY DEF TypeOK, Newest
  <1>3. order' \in Seq(Keys)
    <2>1. CASE Len(keys) <= CompletedCap /\ order' = keys
      BY <1>2, <2>1
    <2>2. CASE Len(keys) > CompletedCap /\ order' = Tail(keys)
      BY <1>2, <2>2, RegistryAssumption
    <2>3. QED
      BY <2>1, <2>2 DEF FinishSection
  <1>4. pending' \in [Keys -> Calls \cup {NoCall}]
    BY DEF FinishSection, TypeOK
  <1>5. completed' \in [Keys -> Answers \cup {NoAnswer}]
    BY DEF FinishSection, TypeOK
  <1>6. fingerprint' \in [Keys -> Fingerprints \cup {NoFingerprint}]
    BY DEF FinishSection, TypeOK
  <1>7. /\ answer' \in [Calls -> Answers \cup {NoAnswer}]
        /\ callPc' \in [Calls -> CallPcs]
    BY ReturnType DEF FinishSection
  <1>8. QED
    BY <1>3, <1>4, <1>5, <1>6, <1>7 DEF TypeOK, FinishSection, sessionVars

(* The queue of the lock stays a sequence of tasks.                         *)
LEMMA LockQueueType ==
  ASSUME TypeOK, NEW t \in Tasks
  PROVE  /\ Enqueue(t) => lockQueue' \in Seq(Tasks)
         /\ Granted(t) => lockQueue' \in Seq(Tasks)
         /\ UNCHANGED lockQueue => lockQueue' \in Seq(Tasks)
  <1>1. lockQueue \in Seq(Tasks)
    BY DEF TypeOK
  <1>2. Append(lockQueue, t) \in Seq(Tasks)
    BY <1>1, AppendFacts
  <1>3. lockQueue # <<>> => Tail(lockQueue) \in Seq(Tasks)
    BY <1>1, TailFacts
  <1>4. QED
    BY <1>1, <1>2, <1>3 DEF Enqueue, Granted, FirstInLine

(* Entering dispatch keeps every type.                                      *)
LEMMA DispatchTypeOK ==
  ASSUME TypeOK, NEW c \in Calls, Dispatch(c) \/ DispatchGranted(c)
  PROVE  TypeOK'
  <1>1. CASE DispatchSection(c) /\ UNCHANGED lockQueue
    BY <1>1, DispatchSectionTypeOK DEF TypeOK
  <1>2. CASE DispatchGranted(c)
    BY <1>2, DispatchSectionTypeOK, LockQueueType DEF DispatchGranted, Tasks
  <1>3. CASE /\ Enqueue(c)
             /\ callPc' = [callPc EXCEPT ![c] = "enter"]
             /\ UNCHANGED <<registryVars, holder, replQueue, callKey, callFp,
                            waitsOn, answer, owner, sent, future, sessionVars>>
    <2>1. lockQueue' \in Seq(Tasks)
      BY <1>3, LockQueueType DEF Tasks
    <2>2. QED
      BY <1>3, <2>1 DEF TypeOK, CallPcs, registryVars, sessionVars
  <1>4. QED
    BY <1>1, <1>2, <1>3 DEF Dispatch

(* The end of a send keeps every type.                                      *)
LEMMA SendTypeOK ==
  ASSUME TypeOK, HolderSends, TableKeyed, NEW c \in Calls, SendOk(c) \/ SendFail(c)
  PROVE  TypeOK'
  <1>1. CASE SendOk(c)
    <2>1. owner[c] \in Sessions /\ callKey[c] \in Keys
      BY <1>1, RegistryAssumption DEF SendOk, HolderSends, TableKeyed, TypeOK, Tasks
    <2>2. outstanding' \in [Sessions -> SUBSET Commands]
      BY <1>1, <2>1 DEF SendOk, TypeOK, Keys
    <2>3. QED
      BY <1>1, <2>1, <2>2 DEF SendOk, TypeOK, CallPcs, registryVars
  <1>2. CASE SendFail(c)
    <2>1. /\ answer' \in [Calls -> Answers \cup {NoAnswer}]
          /\ callPc' \in [Calls -> CallPcs]
      BY <1>2, RefusalType DEF SendFail, Statuses
    <2>2. QED
      BY <1>2, <2>1 DEF SendFail, TypeOK, sessionVars
  <1>3. QED
    BY <1>1, <1>2

(* Leaving the wait keeps every type.                                       *)
LEMMA LeaveWaitTypeOK ==
  ASSUME TypeOK, NEW c \in Calls, NEW a \in Answers, LeaveWait(c, a),
         future' \in [Calls -> FutureStates]
  PROVE  TypeOK'
  <1>1. CASE FinishSection(c, a) /\ UNCHANGED lockQueue
    BY <1>1, FinishSectionTypeOK DEF LeaveWait, TypeOK
  <1>2. CASE /\ Enqueue(c)
             /\ answer' = [answer EXCEPT ![c] = a]
             /\ callPc' = [callPc EXCEPT ![c] = "finish"]
             /\ UNCHANGED registryVars
    <2>1. lockQueue' \in Seq(Tasks)
      BY <1>2, LockQueueType DEF Tasks
    <2>2. QED
      BY <1>2, <2>1 DEF LeaveWait, TypeOK, CallPcs, registryVars, sessionVars
  <1>3. QED
    BY <1>1, <1>2 DEF LeaveWait

(* So do a result and a timeout.                                            *)
LEMMA WaitTypeOK ==
  ASSUME TypeOK, WaitBound, NEW c \in Calls, Wake(c) \/ Timeout(c)
  PROVE  TypeOK'
  <1> DEFINE p == waitsOn[c]
  <1>1. p \in Calls
    BY DEF Wake, Timeout, WaitBound
  <1>2. CASE Wake(c)
    <2>1. future[p] \in Statuses
      BY <1>1, <1>2, RegistryAssumption DEF Wake, Undone, TypeOK, FutureStates, Statuses, Tasks
    <2>2. [status |-> future[p], from |-> p] \in Answers
      BY <1>1, <2>1, AnswerType
    <2>3. QED
      BY <1>2, <2>2, LeaveWaitTypeOK DEF Wake, TypeOK
  <1>3. CASE Timeout(c)
    <2>1. [status |-> "timeout", from |-> p] \in Answers
      BY <1>1, AnswerType DEF Statuses
    <2>2. future' \in [Calls -> FutureStates]
      BY <1>1, <1>3 DEF Timeout, TypeOK, FutureStates
    <2>3. QED
      BY <1>3, <2>1, <2>2, LeaveWaitTypeOK DEF Timeout
  <1>4. QED
    BY <1>2, <1>3

(* So does the last section entered from the queue.                         *)
LEMMA FinishGrantedTypeOK ==
  ASSUME TypeOK, NEW c \in Calls, FinishGranted(c)
  PROVE  TypeOK'
  <1>1. answer[c] \in Answers \cup {NoAnswer} /\ future' \in [Calls -> FutureStates]
    BY DEF FinishGranted, TypeOK
  <1>2. lockQueue' \in Seq(Tasks)
    BY LockQueueType DEF FinishGranted, Tasks
  <1>3. QED
    BY <1>1, <1>2, FinishSectionTypeOK DEF FinishGranted

(* A handler that queues for the lock keeps every type.                     *)
LEMMA HandlerWaitsType ==
  ASSUME TypeOK, NEW s \in Sessions, NEW label \in SessionPcs,
         HandlerWaits(s, label),
         inbox' \in [Sessions -> Commands \cup {NoCommand}],
         outstanding' \in [Sessions -> SUBSET Commands]
  PROVE  TypeOK'
  <1>1. lockQueue' \in Seq(Tasks)
    BY LockQueueType DEF HandlerWaits, Tasks
  <1>2. pc' \in [Sessions -> SessionPcs]
    BY DEF HandlerWaits, Goto, TypeOK
  <1>3. QED
    BY <1>1, <1>2 DEF HandlerWaits, TypeOK, registryVars, callVars

(* The start of a registration keeps every type.                            *)
LEMMA StartReplaceTypeOK ==
  ASSUME TypeOK, NEW s \in Sessions, StartReplace(s)
  PROVE  TypeOK'
  <1>1. replQueue' \in [Installations -> Seq(Sessions)]
    BY RegistryAssumption, AppendFacts DEF StartReplace, TypeOK
  <1>2. pc' \in [Sessions -> SessionPcs]
    BY DEF StartReplace, Goto, TypeOK, SessionPcs
  <1>3. QED
    BY <1>1, <1>2 DEF StartReplace, TypeOK, registryVars, callVars

(* Releasing a replacement lock keeps its type.                             *)
LEMMA ReleaseType ==
  ASSUME TypeOK, NEW i \in Installations, ReleaseReplacement(i), replQueue[i] # <<>>
  PROVE  replQueue' \in [Installations -> Seq(Sessions)]
  BY TailFacts DEF TypeOK, ReleaseReplacement

(* The first section of replace keeps every type.                           *)
LEMMA ReplaceTypeOK ==
  ASSUME TypeOK, ReplacementExclusive, NEW s \in Sessions,
         Replace(s) \/ ReplaceGranted(s)
  PROVE  TypeOK'
  <1> DEFINE i == InstallationOf[s]
  <1>1. i \in Installations /\ lockQueue' \in Seq(Tasks)
    BY RegistryAssumption, LockQueueType
       DEF Replace, ReplaceGranted, HandlerWaits, Tasks
  <1>2. replQueue[i] # <<>>
    BY DEF Replace, ReplaceGranted, ReplacementExclusive, HoldsReplacement,
       HoldsReplacementLock
  <1>3. CASE ReplaceSection(s)
    <2>1. CASE ReleaseReplacement(i) /\ current' = [current EXCEPT ![i] = s]
               /\ Goto(s, "ack") /\ UNCHANGED <<transitioning, previous, draining>>
      <3>1. replQueue' \in [Installations -> Seq(Sessions)]
        BY <1>1, <1>2, <2>1, ReleaseType
      <3>2. QED
        BY <1>1, <1>3, <2>1, <3>1
           DEF ReplaceSection, Goto, TypeOK, SessionPcs, callVars
    <2>2. CASE /\ current[i] # NoSession
               /\ transitioning' = transitioning \cup {i}
               /\ previous' = [previous EXCEPT ![s] = current[i]]
               /\ draining' = [draining EXCEPT ![s] = InFlight(current[i])]
               /\ Goto(s, "draining") /\ UNCHANGED <<current, replQueue>>
      <3>1. InFlight(current[i]) \in SUBSET Calls
        BY DEF InFlight
      <3>2. QED
        BY <1>1, <1>3, <2>2, <3>1
           DEF ReplaceSection, Goto, TypeOK, SessionPcs, callVars
    <2>3. QED
      BY <1>3, <2>1, <2>2 DEF ReplaceSection
  <1>4. CASE HandlerWaits(s, "replaceWait") /\ UNCHANGED <<inbox, outstanding>>
    BY <1>4, HandlerWaitsType DEF TypeOK, SessionPcs
  <1>5. QED
    BY <1>3, <1>4 DEF Replace, ReplaceGranted

(* The swap keeps every type.                                               *)
LEMMA SwapTypeOK ==
  ASSUME TypeOK, NEW s \in Sessions, Swap(s) \/ SwapGranted(s)
  PROVE  TypeOK'
  <1>1. InstallationOf[s] \in Installations /\ lockQueue' \in Seq(Tasks)
    BY RegistryAssumption, LockQueueType
       DEF Swap, SwapGranted, HandlerWaits, Tasks
  <1>2. CASE SwapSection(s)
    BY <1>1, <1>2 DEF SwapSection, Goto, TypeOK, SessionPcs, callVars
  <1>3. CASE HandlerWaits(s, "swapWait") /\ UNCHANGED <<inbox, outstanding>>
    BY <1>3, HandlerWaitsType DEF TypeOK, SessionPcs
  <1>4. QED
    BY <1>2, <1>3 DEF Swap, SwapGranted

(* A cancelled drain keeps every type.                                      *)
LEMMA CancelTypeOK ==
  ASSUME TypeOK, ReplacementExclusive, NEW s \in Sessions,
         CancelDrain(s) \/ CancelGranted(s)
  PROVE  TypeOK'
  <1> DEFINE i == InstallationOf[s]
  <1>1. i \in Installations /\ lockQueue' \in Seq(Tasks)
    BY RegistryAssumption, LockQueueType
       DEF CancelDrain, CancelGranted, HandlerWaits, Tasks
  <1>2. replQueue[i] # <<>>
    BY DEF CancelDrain, CancelGranted, ReplacementExclusive, HoldsReplacement,
       HoldsReplacementLock
  <1>3. CASE CancelSection(s)
    <2>1. replQueue' \in [Installations -> Seq(Sessions)]
      BY <1>1, <1>2, <1>3, ReleaseType DEF CancelSection
    <2>2. QED
      BY <1>1, <1>3, <2>1 DEF CancelSection, Goto, TypeOK, SessionPcs, callVars
  <1>4. CASE HandlerWaits(s, "cancelWait") /\ UNCHANGED <<inbox, outstanding>>
    BY <1>4, HandlerWaitsType DEF TypeOK, SessionPcs
  <1>5. QED
    BY <1>3, <1>4 DEF CancelDrain, CancelGranted

(* Closing a websocket keeps the types.                                     *)
LEMMA ClosedType ==
  ASSUME TypeOK, NEW s, NEW reason \in SocketStates
  PROVE  Closed(s, reason) \in [Sessions -> SocketStates]
  BY DEF Closed, TypeOK

(* Closing the previous websocket keeps every type.                         *)
LEMMA ClosePreviousTypeOK ==
  ASSUME TypeOK, ReplacementExclusive, NEW s \in Sessions, ClosePrevious(s)
  PROVE  TypeOK'
  <1> DEFINE i == InstallationOf[s]
  <1>1. i \in Installations /\ replQueue[i] # <<>>
    BY RegistryAssumption
       DEF ClosePrevious, ReplacementExclusive, HoldsReplacement, HoldsReplacementLock
  <1>2. replQueue' \in [Installations -> Seq(Sessions)]
    BY <1>1, ReleaseType DEF ClosePrevious
  <1>3. socket' \in [Sessions -> SocketStates]
    BY ClosedType DEF ClosePrevious, SocketStates
  <1>4. QED
    BY <1>2, <1>3 DEF ClosePrevious, Goto, TypeOK, SessionPcs, callVars, registryVars

(* A cancellation keeps every type, wherever it finds the handler.          *)
LEMMA CancelledTypeOK ==
  ASSUME TypeOK, ReplacementExclusive, NEW s \in Sessions,
         CancelReplace(s) \/ CancelClose(s) \/ CancelHandler(s)
  PROVE  TypeOK'
  <1> DEFINE i == InstallationOf[s]
  <1>1. i \in Installations
    BY RegistryAssumption
  <1>2. Without(lockQueue, s) \in Seq(Tasks)
    BY WithoutFacts DEF TypeOK
  <1>3. CASE CancelReplace(s)
    <2>1. Without(replQueue[i], s) \in Seq(Sessions)
      BY <1>1, WithoutFacts DEF TypeOK
    <2>2. replQueue' \in [Installations -> Seq(Sessions)]
      BY <1>3, <2>1 DEF CancelReplace, TypeOK
    <2>3. pc' \in [Sessions -> SessionPcs]
      BY <1>3 DEF CancelReplace, Goto, TypeOK, SessionPcs
    <2>4. QED
      BY <1>2, <1>3, <2>2, <2>3 DEF CancelReplace, TypeOK, callVars, registryVars
  <1>4. CASE CancelClose(s)
    <2>1. replQueue[i] # <<>>
      BY <1>4 DEF CancelClose, ReplacementExclusive, HoldsReplacement, HoldsReplacementLock
    <2>2. replQueue' \in [Installations -> Seq(Sessions)]
      BY <1>1, <1>4, <2>1, ReleaseType DEF CancelClose
    <2>3. socket' \in [Sessions -> SocketStates]
      BY <1>4, ClosedType DEF CancelClose, SocketStates
    <2>4. QED
      BY <1>4, <2>2, <2>3 DEF CancelClose, Goto, TypeOK, SessionPcs, callVars, registryVars
  <1>5. CASE CancelHandler(s)
    <2>1. pc' \in [Sessions -> SessionPcs]
      BY <1>5 DEF CancelHandler, Goto, TypeOK, SessionPcs
    <2>2. QED
      BY <1>2, <1>5, <2>1 DEF CancelHandler, TypeOK, callVars, registryVars
  <1>6. QED
    BY <1>3, <1>4, <1>5

(* The steps that take no lock keep every type.                             *)
LEMMA SimpleSessionTypeOK ==
  ASSUME TypeOK, NEW s \in Sessions, HelloAck(s) \/ Leave(s) \/ Expire(s)
  PROVE  TypeOK'
  <1>1. CASE HelloAck(s)
    BY <1>1 DEF HelloAck, Goto, TypeOK, SessionPcs, registryVars, lockVars, callVars
  <1>2. CASE Leave(s)
    <2>1. socket' \in [Sessions -> SocketStates]
      BY <1>2, ClosedType DEF Leave, SocketStates
    <2>2. QED
      BY <1>2, <2>1 DEF Leave, Goto, TypeOK, SessionPcs, registryVars, lockVars, callVars
  <1>3. CASE Expire(s)
    BY <1>3 DEF Expire, TypeOK, registryVars, lockVars, callVars
  <1>4. QED
    BY <1>1, <1>2, <1>3

(* Resolving a result keeps the types it touches.                           *)
LEMMA ResolveSectionType ==
  ASSUME TypeOK, NEW s \in Sessions, NEW m, ResolveSection(s, m)
  PROVE  /\ future' \in [Calls -> FutureStates]
         /\ pc' \in [Sessions -> SessionPcs]
         /\ socket' \in [Sessions -> SocketStates]
         /\ inbox' \in [Sessions -> Commands \cup {NoCommand}]
  <1>1. Closed(s, "result_mismatch") \in [Sessions -> SocketStates]
    BY ClosedType DEF SocketStates
  <1>2. socket' \in [Sessions -> SocketStates]
    BY <1>1 DEF ResolveSection, TypeOK
  <1>3. future' \in [Calls -> FutureStates]
    BY DEF ResolveSection, TypeOK, FutureStates
  <1>4. QED
    BY <1>2, <1>3 DEF ResolveSection, Goto, TypeOK, SessionPcs

(* Touching a session keeps the types it touches.                           *)
LEMMA TouchSectionTypeOK ==
  ASSUME TypeOK, NEW s \in Sessions, NEW m \in Commands \cup {NoCommand},
         NEW queue \in Seq(Tasks), TouchSection(s, m, queue),
         outstanding' \in [Sessions -> SUBSET Commands]
  PROVE  TypeOK'
  <1>1. /\ lockQueue' \in Seq(Tasks)
        /\ fresh' \in [Sessions -> BOOLEAN]
    <2>1. Append(queue, s) \in Seq(Tasks)
      BY AppendFacts DEF Tasks
    <2>2. QED
      BY <2>1 DEF TouchSection, TypeOK
  <1>2. /\ future' \in [Calls -> FutureStates]
        /\ pc' \in [Sessions -> SessionPcs]
        /\ socket' \in [Sessions -> SocketStates]
        /\ inbox' \in [Sessions -> Commands \cup {NoCommand}]
    <2>1. CASE ResolveSection(s, m)
      BY <2>1, ResolveSectionType
    <2>2. CASE ~ResolveSection(s, m)
      <3>1. Closed(s, "session_replaced") \in [Sessions -> SocketStates]
        BY ClosedType DEF SocketStates
      <3>2. future' \in [Calls -> FutureStates]
        BY <2>2 DEF TouchSection, TypeOK
      <3>3. socket' \in [Sessions -> SocketStates]
        BY <2>2, <3>1 DEF TouchSection, TypeOK
      <3>4. inbox' \in [Sessions -> Commands \cup {NoCommand}]
        BY <2>2 DEF TouchSection, TypeOK
      <3>5. pc' \in [Sessions -> SessionPcs]
        BY <2>2 DEF TouchSection, TypeOK, Goto, SessionPcs
      <3>6. QED
        BY <3>2, <3>3, <3>4, <3>5
    <2>3. QED
      BY <2>1, <2>2
  <1>3. QED
    BY <1>1, <1>2 DEF TouchSection, TypeOK, registryVars, callVars

(* Receiving a message keeps every type.                                    *)
LEMMA ReceiveTypeOK ==
  ASSUME TypeOK, NEW s \in Sessions, NEW m \in Commands \cup {NoCommand},
         Receive(s, m)
  PROVE  TypeOK'
  <1>1. outstanding' \in [Sessions -> SUBSET Commands]
    BY DEF Receive, TypeOK
  <1>2. CASE TouchSection(s, m, <<>>)
    BY <1>1, <1>2, TouchSectionTypeOK, EmptySeq
  <1>3. CASE HandlerWaits(s, "touchWait") /\ inbox' = [inbox EXCEPT ![s] = m]
    <2>1. inbox' \in [Sessions -> Commands \cup {NoCommand}]
      BY <1>3 DEF TypeOK
    <2>2. QED
      BY <1>1, <1>3, <2>1, HandlerWaitsType DEF SessionPcs
  <1>4. QED
    BY <1>2, <1>3 DEF Receive

(* So do touch and resolve entered from the queue.                          *)
LEMMA GrantedHandlerTypeOK ==
  ASSUME TypeOK, NEW s \in Sessions, TouchGranted(s) \/ ResolveGranted(s)
  PROVE  TypeOK'
  <1>1. CASE TouchGranted(s)
    <2>1. Tail(lockQueue) \in Seq(Tasks)
      BY <1>1, TailFacts DEF TouchGranted, FirstInLine, TypeOK
    <2>2. inbox[s] \in Commands \cup {NoCommand} /\ outstanding' \in [Sessions -> SUBSET Commands]
      BY <1>1 DEF TouchGranted, TypeOK
    <2>3. QED
      BY <1>1, <2>1, <2>2, TouchSectionTypeOK DEF TouchGranted
  <1>2. CASE ResolveGranted(s)
    <2>1. lockQueue' \in Seq(Tasks)
      BY <1>2, LockQueueType DEF ResolveGranted, Tasks
    <2>2. QED
      BY <1>2, <2>1, ResolveSectionType
         DEF ResolveGranted, TypeOK, registryVars, callVars
  <1>3. QED
    BY <1>1, <1>2

(* Removing a session keeps every type.                                     *)
LEMMA RemoveTypeOK ==
  ASSUME TypeOK, NEW s \in Sessions, Remove(s) \/ RemoveGranted(s)
  PROVE  TypeOK'
  <1>1. InstallationOf[s] \in Installations /\ lockQueue' \in Seq(Tasks)
    BY RegistryAssumption, LockQueueType
       DEF Remove, RemoveGranted, HandlerWaits, Tasks
  <1>2. CASE RemoveSection(s)
    <2>1. future' \in [Calls -> FutureStates]
      BY <1>2 DEF RemoveSection, TypeOK, FutureStates
    <2>2. QED
      BY <1>1, <1>2, <2>1 DEF RemoveSection, Goto, TypeOK, SessionPcs, callVars
  <1>3. CASE HandlerWaits(s, "removeWait") /\ UNCHANGED <<inbox, outstanding>>
    BY <1>3, HandlerWaitsType DEF TypeOK, SessionPcs
  <1>4. QED
    BY <1>2, <1>3 DEF Remove, RemoveGranted

(* Every step of the registry keeps every type.                             *)
LEMMA NextTypeOK ==
  ASSUME TypeOK, HolderSends, TableKeyed, WaitBound, ReplacementExclusive,
         [Next]_vars
  PROVE  TypeOK'
  <1>1. ASSUME NEW c \in Calls, CallStep(c) PROVE TypeOK'
    BY <1>1, DispatchTypeOK, SendTypeOK, WaitTypeOK, FinishGrantedTypeOK DEF CallStep
  <1>2. ASSUME NEW s \in Sessions, SessionStep(s) PROVE TypeOK'
    BY <1>2, StartReplaceTypeOK, ReplaceTypeOK, SwapTypeOK, CancelTypeOK,
       CancelledTypeOK, ClosePreviousTypeOK, SimpleSessionTypeOK, ReceiveTypeOK,
       GrantedHandlerTypeOK, RemoveTypeOK DEF SessionStep
  <1>3. CASE UNCHANGED vars
    BY <1>3 DEF TypeOK, vars, registryVars, lockVars, callVars, sessionVars
  <1>4. QED
    BY <1>1, <1>2, <1>3 DEF Next
=============================================================================
