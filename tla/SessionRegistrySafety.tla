------------------------ MODULE SessionRegistrySafety ------------------------
(* The inductive invariant of the session registry is preserved by every    *)
(* step; the safety properties of the module follow from it.                *)
EXTENDS SessionRegistryProofs, FiniteSetTheorems

(* The inductive invariant holds before anything is registered.             *)
LEMMA InitIInv == Init => IInv
  <1> SUFFICES ASSUME Init PROVE IInv
    OBVIOUS
  <1>1. TypeOK
    BY InitTypeOK
  <1>2. CallInv
    BY <1>1 DEF Init, TypeOK, CallInv, HolderSends, UnsentIsHeld, TableKeyed, WaitBound,
       SentTracked
  <1>3. TableInv
    BY DEF Init, TableInv, Home, NoOrphan, Undone
  <1>4. ReplaceInv
    BY DEF Init, ReplaceInv, ReplacementExclusive, HoldsReplacement, MarkHasOwner,
       DrainCovers, DrainDone
  <1>5. InboxHeld
    BY DEF Init, InboxHeld
  <1>6. CloseInv
    BY DEF Init, CloseInv, ClosingIsCurrent, ReplacedIsClosed, Registered
  <1>7. QED
    BY <1>1, <1>2, <1>3, <1>4, <1>5, <1>6 DEF IInv

-----------------------------------------------------------------------------
(* What the handlers of the websockets leave alone: the frames of the       *)
(* dispatch calls and the table.  A future is never undone again.           *)
FutureGrows == \A c \in Calls : future'[c] = "undone" => future[c] = "undone"

(* Resolving never makes a future undone.                                   *)
LEMMA ResolveSectionFuture ==
  ASSUME TypeOK, NEW s, NEW m, ResolveSection(s, m)
  PROVE  FutureGrows
  BY DEF ResolveSection, FutureGrows, TypeOK

(* Touching a session leaves the table and the calls alone.                 *)
LEMMA TouchSectionFrame ==
  ASSUME TypeOK, NEW s, NEW m, NEW queue, TouchSection(s, m, queue)
  PROVE  UNCHANGED <<pending, holder, callVars>> /\ FutureGrows
  <1>1. CASE ResolveSection(s, m)
    BY <1>1, ResolveSectionFuture DEF TouchSection, registryVars
  <1>2. CASE ~ResolveSection(s, m)
    <2>1. UNCHANGED future
      BY <1>2 DEF TouchSection
    <2>2. QED
      BY <2>1 DEF TouchSection, registryVars, FutureGrows
  <1>3. QED
    BY <1>1, <1>2

(* So does a handler that queues for the lock.                              *)
LEMMA HandlerWaitsFrame ==
  ASSUME NEW s, NEW label, HandlerWaits(s, label)
  PROVE  UNCHANGED <<pending, holder, callVars>> /\ FutureGrows
  BY DEF HandlerWaits, registryVars, FutureGrows

(* So does every step of a websocket handler.                               *)
LEMMA SessionFrame ==
  ASSUME TypeOK, NEW s \in Sessions, SessionStep(s)
  PROVE  UNCHANGED <<pending, holder, callVars>> /\ FutureGrows
  <1>1. CASE StartReplace(s) \/ ClosePrevious(s) \/ HelloAck(s) \/ Leave(s) \/ Expire(s)
    BY <1>1 DEF StartReplace, ClosePrevious, HelloAck, Leave, Expire, registryVars,
       lockVars, FutureGrows
  <1>8. CASE CancelReplace(s) \/ CancelClose(s) \/ CancelHandler(s)
    BY <1>8 DEF CancelReplace, CancelClose, CancelHandler, registryVars, FutureGrows
  <1>2. CASE ReplaceSection(s) \/ SwapSection(s) \/ CancelSection(s)
    BY <1>2 DEF ReplaceSection, SwapSection, CancelSection, FutureGrows
  <1>3. CASE RemoveSection(s)
    BY <1>3 DEF RemoveSection, FutureGrows
  <1>4. CASE \E label : HandlerWaits(s, label)
    BY <1>4, HandlerWaitsFrame
  <1>5. CASE \E m, queue : TouchSection(s, m, queue)
    BY <1>5, TouchSectionFrame
  <1>6. CASE ResolveGranted(s)
    BY <1>6, ResolveSectionFuture DEF ResolveGranted, registryVars
  <1>7. QED
    BY <1>1, <1>2, <1>3, <1>4, <1>5, <1>6, <1>8
       DEF SessionStep, Replace, ReplaceGranted, Swap, SwapGranted, CancelDrain,
           CancelGranted, Receive, TouchGranted, Remove, RemoveGranted

(* Such a step keeps the invariant of the calls.                            *)
LEMMA SessionCallInv ==
  ASSUME TypeOK, CallInv, UNCHANGED <<pending, holder, callVars>>, FutureGrows
  PROVE  CallInv'
  BY DEF TypeOK, CallInv, callVars, FutureGrows, HolderSends, UnsentIsHeld, TableKeyed,
     WaitBound, SentTracked

-----------------------------------------------------------------------------
(* What the dispatch calls leave alone: the registered sessions and the     *)
(* replacements.                                                            *)
LEMMA TimeoutFuture ==
  ASSUME TypeOK, NEW c, Timeout(c)
  PROVE  FutureGrows
  BY DEF TypeOK, Timeout, FutureGrows

(* No step of a call touches sessions or replacements.                      *)
LEMMA CallFrame ==
  ASSUME TypeOK, NEW c \in Calls, CallStep(c)
  PROVE  /\ UNCHANGED <<current, transitioning, replQueue, callKey, pc, previous, draining>>
         /\ FutureGrows
  <1>1. CASE Timeout(c)
    BY <1>1, TimeoutFuture
       DEF Timeout, LeaveWait, FinishSection, registryVars, sessionVars
  <1>2. CASE Wake(c)
    BY <1>2 DEF Wake, LeaveWait, FinishSection, registryVars, sessionVars, FutureGrows
  <1>3. CASE SendOk(c) \/ SendFail(c) \/ FinishGranted(c)
    BY <1>3 DEF SendOk, SendFail, FinishGranted, FinishSection, registryVars, sessionVars, FutureGrows
  <1>4. CASE Dispatch(c) \/ DispatchGranted(c)
    BY <1>4 DEF Dispatch, DispatchGranted, DispatchSection, registryVars, sessionVars, FutureGrows
  <1>5. QED
    BY <1>1, <1>2, <1>3, <1>4 DEF CallStep

-----------------------------------------------------------------------------
(* The frames of the calls and the table                                    *)
LEMMA RefuseCallInv ==
  ASSUME TypeOK, CallInv, NEW c \in Calls, callPc[c] \in {"idle", "enter"},
         Refuse(c), UNCHANGED <<callKey, sent, future>>
  PROVE  CallInv'
  <1>1. /\ callPc' = [callPc EXCEPT ![c] = "done"]
        /\ UNCHANGED <<pending, holder, waitsOn, owner>>
    BY DEF Refuse, Refusal, Return
  <1>2. QED
    BY <1>1 DEF TypeOK, CallInv, HolderSends, UnsentIsHeld, TableKeyed, WaitBound, SentTracked

(* Joining an identical command keeps the invariant of the calls.           *)
LEMMA JoinCallInv ==
  ASSUME TypeOK, CallInv, NEW c \in Calls, callPc[c] \in {"idle", "enter"},
         holder = NoCall, Join(c), UNCHANGED <<callKey, sent, future>>
  PROVE  CallInv'
  <1>1. pending[callKey[c]] \in Calls
    BY DEF Join, TypeOK
  <1>2. UnsentIsHeld'
    BY DEF Join, CallInv, UnsentIsHeld
  <1>3. TableKeyed'
    BY DEF Join, CallInv, TableKeyed
  <1>4. HolderSends'
    BY DEF Join, CallInv, HolderSends, TypeOK
  <1>5. WaitBound'
    BY <1>1 DEF Join, CallInv, WaitBound, TypeOK
  <1>6. SentTracked'
    BY DEF Join, CallInv, SentTracked, TypeOK
  <1>7. QED
    BY <1>2, <1>3, <1>4, <1>5, <1>6 DEF CallInv

(* Entering a new command keeps it.                                         *)
LEMMA BeginSendCallInv ==
  ASSUME TypeOK, CallInv, Home, NEW c \in Calls, callPc[c] \in {"idle", "enter"},
         holder = NoCall, BeginSend(c), UNCHANGED <<callKey, sent, future>>
  PROVE  CallInv'
  <1> DEFINE k == callKey[c]
  <1>1. /\ k \in Keys /\ k[1] \in Installations
        /\ c # NoCall
        /\ current[k[1]] \in Sessions
        /\ InstallationOf[current[k[1]]] = k[1]
        /\ pending[k] = NoCall /\ ~sent[c]
    BY RegistryAssumption
       DEF TypeOK, Keys, Tasks, BeginSend, Admitted, Home, CallInv, SentTracked
  <1>2. /\ pending' = [pending EXCEPT ![k] = c]
        /\ owner' = [owner EXCEPT ![c] = current[k[1]]]
        /\ waitsOn' = [waitsOn EXCEPT ![c] = c]
        /\ holder' = c
        /\ callPc' = [callPc EXCEPT ![c] = "sending"]
    BY DEF BeginSend
  <1>3. HolderSends'
    BY <1>1, <1>2, RegistryAssumption DEF CallInv, HolderSends, TypeOK, Tasks
  <1>4. UnsentIsHeld'
    BY <1>1, <1>2, RegistryAssumption DEF CallInv, UnsentIsHeld, TypeOK, Tasks
  <1>5. TableKeyed'
    BY <1>1, <1>2 DEF CallInv, TableKeyed, TypeOK
  <1>6. WaitBound'
    BY <1>1, <1>2 DEF CallInv, WaitBound, TypeOK
  <1>7. SentTracked'
    BY <1>1, <1>2, RegistryAssumption DEF CallInv, SentTracked, TypeOK, Tasks
  <1>8. QED
    BY <1>3, <1>4, <1>5, <1>6, <1>7 DEF CallInv

(* Both ways into dispatch keep it.                                         *)
LEMMA DispatchCallInv ==
  ASSUME TypeOK, CallInv, Home, NEW c \in Calls, Dispatch(c) \/ DispatchGranted(c)
  PROVE  CallInv'
  <1>1. CASE DispatchSection(c) /\ (LockFree \/ Granted(c))
    <2>1. /\ callPc[c] \in {"idle", "enter"}
          /\ UNCHANGED <<callKey, sent, future>>
      BY <1>1 DEF Dispatch, DispatchGranted, DispatchSection
    <2>2. holder = NoCall
      BY <1>1 DEF LockFree, Granted, FirstInLine
    <2>3. QED
      BY <1>1, <2>1, <2>2, RefuseCallInv, JoinCallInv, BeginSendCallInv DEF DispatchSection
  <1>2. CASE /\ callPc[c] = "idle"
             /\ callPc' = [callPc EXCEPT ![c] = "enter"]
             /\ UNCHANGED <<registryVars, holder, replQueue, callKey, callFp,
                            waitsOn, answer, owner, sent, future, sessionVars>>
    BY <1>2 DEF TypeOK, registryVars, CallInv, HolderSends, UnsentIsHeld, TableKeyed,
       WaitBound, SentTracked
  <1>3. QED
    BY <1>1, <1>2 DEF Dispatch, DispatchGranted

(* The end of a send, good or bad, keeps it.                                *)
LEMMA SendCallInv ==
  ASSUME TypeOK, CallInv, NEW c \in Calls, SendOk(c) \/ SendFail(c)
  PROVE  CallInv'
  <1> DEFINE k == callKey[c]
  <1>1. /\ k \in Keys /\ c # NoCall
        /\ holder = c /\ pending[k] = c /\ ~sent[c] /\ waitsOn[c] = c
        /\ callPc[c] = "sending"
    BY RegistryAssumption
       DEF SendOk, SendFail, TypeOK, Tasks, CallInv, HolderSends, SentTracked, WaitBound
  <1>2. \A j \in Keys : pending[j] = c => j = k
    BY <1>1 DEF CallInv, TableKeyed
  <1>3. CASE SendOk(c)
    <2>1. /\ holder' = NoCall
          /\ sent' = [sent EXCEPT ![c] = TRUE]
          /\ callPc' = [callPc EXCEPT ![c] = "waiting"]
          /\ UNCHANGED <<pending, callKey, waitsOn, owner, future>>
      BY <1>3 DEF SendOk, registryVars
    <2>2. HolderSends'
      BY <1>1, <2>1 DEF CallInv, HolderSends, TypeOK
    <2>3. UnsentIsHeld'
      BY <1>1, <2>1 DEF CallInv, UnsentIsHeld, TypeOK
    <2>4. TableKeyed' /\ WaitBound'
      BY <1>1, <2>1 DEF CallInv, TableKeyed, WaitBound, TypeOK
    <2>5. SentTracked'
      BY <1>1, <2>1 DEF CallInv, SentTracked, TypeOK
    <2>6. QED
      BY <2>2, <2>3, <2>4, <2>5 DEF CallInv
  <1>4. CASE SendFail(c)
    <2>1. /\ holder' = NoCall
          /\ pending' = [pending EXCEPT ![k] = NoCall]
          /\ callPc' = [callPc EXCEPT ![c] = "done"]
          /\ UNCHANGED <<sent, callKey, waitsOn, owner, future>>
      BY <1>4 DEF SendFail, Refusal, Return
    <2>2. HolderSends'
      BY <1>1, <2>1 DEF CallInv, HolderSends, TypeOK
    <2>3. UnsentIsHeld'
      BY <1>1, <1>2, <2>1 DEF CallInv, UnsentIsHeld, TypeOK
    <2>4. TableKeyed' /\ WaitBound'
      BY <1>1, <2>1 DEF CallInv, TableKeyed, WaitBound, TypeOK
    <2>5. SentTracked'
      BY <1>1, <1>2, <2>1 DEF CallInv, SentTracked, TypeOK
    <2>6. QED
      BY <2>2, <2>3, <2>4, <2>5 DEF CallInv
  <1>5. QED
    BY <1>3, <1>4

(* A call that leaves its wait takes its own future out of the table, which *)
(* is done by then.                                                         *)
LEMMA FinishCallInv ==
  ASSUME TypeOK, CallInv, NEW c \in Calls, NEW a, FinishSection(c, a),
         callPc[c] \in {"waiting", "finish"}, holder = NoCall,
         UNCHANGED <<holder, callKey, waitsOn, owner, sent>>,
         FutureGrows, future'[waitsOn[c]] # "undone"
  PROVE  CallInv'
  <1> DEFINE k == callKey[c]
  <1>1. /\ pending' = [pending EXCEPT ![k] = IF @ = waitsOn[c] THEN NoCall ELSE @]
        /\ callPc' = [callPc EXCEPT ![c] = "done"]
    BY DEF FinishSection, Return
  <1>2. HolderSends'
    BY <1>1, RegistryAssumption DEF CallInv, HolderSends, TypeOK, Tasks
  <1>3. UnsentIsHeld' /\ TableKeyed'
    BY <1>1 DEF CallInv, UnsentIsHeld, TableKeyed, TypeOK
  <1>4. WaitBound'
    BY <1>1 DEF CallInv, WaitBound, FutureGrows, TypeOK
  <1>5. SentTracked'
    BY <1>1 DEF CallInv, SentTracked, FutureGrows, TypeOK
  <1>6. QED
    BY <1>2, <1>3, <1>4, <1>5 DEF CallInv

(* Leaving the wait for a finished future keeps it.                         *)
LEMMA LeaveWaitCallInv ==
  ASSUME TypeOK, CallInv, NEW c \in Calls, NEW a, LeaveWait(c, a),
         FutureGrows, future'[waitsOn[c]] # "undone"
  PROVE  CallInv'
  <1>1. CASE LockFree /\ FinishSection(c, a)
    BY <1>1, FinishCallInv DEF LeaveWait, LockFree
  <1>2. CASE /\ callPc[c] = "waiting"
             /\ callPc' = [callPc EXCEPT ![c] = "finish"]
             /\ UNCHANGED <<registryVars, holder, callKey, waitsOn, owner, sent>>
    <2>1. HolderSends' /\ UnsentIsHeld' /\ TableKeyed'
      BY <1>2 DEF registryVars, CallInv, HolderSends, UnsentIsHeld, TableKeyed, TypeOK
    <2>2. WaitBound' /\ SentTracked'
      BY <1>2 DEF registryVars, CallInv, WaitBound, SentTracked, FutureGrows, TypeOK
    <2>3. QED
      BY <2>1, <2>2 DEF CallInv
  <1>3. QED
    BY <1>1, <1>2 DEF LeaveWait

(* A result, a timeout and the last section keep it.                        *)
LEMMA WaitCallInv ==
  ASSUME TypeOK, CallInv, NEW c \in Calls,
         Wake(c) \/ Timeout(c) \/ FinishGranted(c)
  PROVE  CallInv'
  <1> DEFINE p == waitsOn[c]
  <1>1. p \in Calls /\ p # NoCall
    BY RegistryAssumption DEF Wake, Timeout, FinishGranted, LeaveWait, CallInv, WaitBound, Tasks
  <1>2. CASE Wake(c)
    BY <1>1, <1>2, LeaveWaitCallInv DEF Wake, Undone, FutureGrows
  <1>3. CASE Timeout(c)
    <2>1. future'[p] # "undone"
      BY <1>1, <1>3 DEF Timeout, TypeOK
    <2>2. QED
      BY <1>3, <2>1, TimeoutFuture, LeaveWaitCallInv DEF Timeout
  <1>4. CASE FinishGranted(c)
    <2>1. /\ FutureGrows /\ future'[p] # "undone"
          /\ callPc[c] = "finish" /\ holder = NoCall
      BY <1>4 DEF FinishGranted, FutureGrows, CallInv, WaitBound, Granted, FirstInLine
    <2>2. QED
      BY <1>4, <2>1, FinishCallInv DEF FinishGranted
  <1>5. QED
    BY <1>2, <1>3, <1>4

(* Every step keeps the invariant of the calls.                             *)
LEMMA NextCallInv ==
  ASSUME TypeOK, CallInv, Home, [Next]_vars
  PROVE  CallInv'
  <1>1. ASSUME NEW c \in Calls, CallStep(c) PROVE CallInv'
    BY <1>1, DispatchCallInv, SendCallInv, WaitCallInv DEF CallStep
  <1>2. ASSUME NEW s \in Sessions, SessionStep(s) PROVE CallInv'
    BY <1>2, SessionFrame, SessionCallInv
  <1>3. CASE UNCHANGED vars
    BY <1>3, SessionCallInv DEF vars, registryVars, lockVars, FutureGrows
  <1>4. QED
    BY <1>1, <1>2, <1>3 DEF Next

-----------------------------------------------------------------------------
(* A command without a result after a step of a call had none before it, or *)
(* is the one just entered: for the registered session, outside any         *)
(* replacement.                                                             *)
LEMMA CallUndone ==
  ASSUME TypeOK, CallInv, NEW c \in Calls, CallStep(c), NEW k \in Keys,
         pending'[k] # NoCall, future'[pending'[k]] = "undone"
  PROVE  \/ /\ pending'[k] = pending[k] /\ Undone(pending[k])
            /\ owner'[pending[k]] = owner[pending[k]]
         \/ /\ owner'[pending'[k]] = current[k[1]]
            /\ k[1] \notin transitioning
  <1>1. FutureGrows /\ UNCHANGED callKey
    BY CallFrame
  <1>2. pending[k] \in Calls => (future'[pending[k]] = "undone" => future[pending[k]] = "undone")
    BY <1>1 DEF FutureGrows
  <1>3. CASE pending'[k] = pending[k] /\ UNCHANGED owner
    BY <1>2, <1>3 DEF Undone, TypeOK
  <1>4. CASE BeginSend(c)
    <2>1. /\ callKey[c] \in Keys
          /\ pending[callKey[c]] = NoCall
          /\ pending' = [pending EXCEPT ![callKey[c]] = c]
          /\ owner' = [owner EXCEPT ![c] = current[callKey[c][1]]]
          /\ callKey[c][1] \notin transitioning
      BY <1>4 DEF BeginSend, Admitted, SessionReady, TypeOK
    <2>2. CASE k = callKey[c]
      BY <2>1, <2>2 DEF TypeOK
    <2>3. CASE k # callKey[c]
      <3>1. pending'[k] = pending[k] /\ pending[k] \in Calls
        BY <2>1, <2>3 DEF TypeOK
      <3>2. pending[k] # c
        BY <2>1, <2>3, <3>1 DEF CallInv, TableKeyed
      <3>3. owner'[pending[k]] = owner[pending[k]]
        BY <2>1, <3>1, <3>2 DEF TypeOK
      <3>4. QED
        BY <1>2, <3>1, <3>3 DEF Undone
    <2>4. QED
      BY <2>2, <2>3
  <1>5. CASE SendFail(c)
    <2>1. pending' = [pending EXCEPT ![callKey[c]] = NoCall] /\ UNCHANGED owner
      BY <1>5 DEF SendFail
    <2>2. pending'[k] = pending[k]
      BY <2>1 DEF TypeOK
    <2>3. QED
      BY <1>3, <2>1, <2>2
  <1>6. ASSUME NEW a, FinishSection(c, a), UNCHANGED owner
        PROVE  pending'[k] = pending[k] /\ UNCHANGED owner
    <2>1. pending' = [pending EXCEPT ![callKey[c]] = IF @ = waitsOn[c] THEN NoCall ELSE @]
      BY <1>6 DEF FinishSection
    <2>2. QED
      BY <1>6, <2>1 DEF TypeOK
  <1>7. CASE Wake(c) \/ Timeout(c) \/ FinishGranted(c)
    <2>1. pending'[k] = pending[k] /\ UNCHANGED owner
      BY <1>6, <1>7 DEF Wake, Timeout, FinishGranted, LeaveWait, registryVars
    <2>2. QED
      BY <1>3, <2>1
  <1>8. CASE SendOk(c)
    BY <1>3, <1>8 DEF SendOk, registryVars
  <1>9. CASE (Dispatch(c) \/ DispatchGranted(c)) /\ ~BeginSend(c)
    BY <1>3, <1>9 DEF Dispatch, DispatchGranted, DispatchSection, Refuse, Join, registryVars
  <1>10. QED
    BY <1>4, <1>5, <1>7, <1>8, <1>9 DEF CallStep

(* No step of a call orphans a command.                                     *)
LEMMA CallTableInv ==
  ASSUME TypeOK, CallInv, TableInv, NEW c \in Calls, CallStep(c)
  PROVE  TableInv'
  <1>1. UNCHANGED current
    BY CallFrame
  <1>2. Home'
    BY <1>1 DEF TableInv, Home
  <1>3. ASSUME NEW k \in Keys, pending'[k] # NoCall, future'[pending'[k]] = "undone"
        PROVE  current[k[1]] = owner'[pending'[k]]
    BY <1>3, CallUndone DEF TableInv, NoOrphan
  <1>4. NoOrphan'
    BY <1>1, <1>3 DEF NoOrphan, Undone
  <1>5. QED
    BY <1>2, <1>4 DEF TableInv

(* No step of a call disturbs a replacement under way.                      *)
LEMMA CallReplaceInv ==
  ASSUME TypeOK, CallInv, ReplaceInv, NEW c \in Calls, CallStep(c)
  PROVE  ReplaceInv'
  <1>1. /\ UNCHANGED <<current, transitioning, replQueue, callKey, pc, previous, draining>>
        /\ FutureGrows
    BY CallFrame
  <1>2. ReplacementExclusive' /\ MarkHasOwner'
    BY <1>1 DEF ReplaceInv, ReplacementExclusive, MarkHasOwner, WillUnmark,
       HoldsReplacementLock
  <1>3. ASSUME NEW k \in Keys, pending'[k] # NoCall, future'[pending'[k]] = "undone",
               k[1] \in transitioning
        PROVE  pending'[k] = pending[k] /\ Undone(pending[k])
    BY <1>3, CallUndone
  <1>4. DrainCovers'
    BY <1>1, <1>3 DEF ReplaceInv, DrainCovers, Undone
  <1>5. DrainDone'
    BY <1>1 DEF ReplaceInv, DrainDone, Undone, FutureGrows, TypeOK
  <1>6. QED
    BY <1>2, <1>4, <1>5 DEF ReplaceInv

-----------------------------------------------------------------------------
(* The handlers.  A quiet step moves no handler into or out of the part     *)
(* that holds the replacement lock, revives no abandoned one, keeps the     *)
(* head of every replacement queue, and at most unregisters a session.      *)
Quiet ==
  /\ UNCHANGED <<transitioning, previous, draining>>
  /\ \A t \in Sessions :
       \/ pc'[t] = pc[t]
       \/ {pc[t], pc'[t]} \cap HoldsReplacement = {} /\ pc[t] # "abandoned"
  /\ \A i \in Installations : replQueue[i] # <<>> =>
       replQueue'[i] # <<>> /\ Head(replQueue'[i]) = Head(replQueue[i])
  /\ \A i \in Installations : current'[i] \in {current[i], NoSession}

(* Nor does any step that is quiet in the sense above.                      *)
LEMMA QuietReplaceInv ==
  ASSUME TypeOK, ReplaceInv, Quiet, FutureGrows, UNCHANGED pending
  PROVE  ReplaceInv'
  <1>1. ASSUME NEW t \in Sessions, pc'[t] \in HoldsReplacement
        PROVE  pc[t] = pc'[t]
    BY <1>1 DEF Quiet
  <1>2. ReplacementExclusive'
    BY <1>1, RegistryAssumption
       DEF Quiet, ReplaceInv, ReplacementExclusive, HoldsReplacementLock
  <1>3. MarkHasOwner'
    <2> SUFFICES ASSUME NEW i \in Installations, i \in transitioning
                 PROVE  \E t \in Sessions :
                          InstallationOf[t] = i /\ (WillUnmark(t)' \/ pc'[t] = "abandoned")
      BY DEF MarkHasOwner, Quiet, TypeOK
    <2>1. PICK t \in Sessions :
            InstallationOf[t] = i /\ (WillUnmark(t) \/ pc[t] = "abandoned")
      BY DEF ReplaceInv, MarkHasOwner
    <2>2. CASE WillUnmark(t)
      BY <2>1, <2>2 DEF Quiet, HoldsReplacement, HoldsReplacementLock, WillUnmark
    <2>3. CASE pc[t] = "abandoned"
      BY <2>1, <2>3 DEF Quiet
    <2>4. QED
      BY <2>1, <2>2, <2>3
  <1>4. DrainCovers'
    <2> SUFFICES ASSUME NEW t \in Sessions, pc'[t] \in {"draining", "swapWait"}
                 PROVE  /\ InstallationOf[t] \in transitioning
                        /\ current'[InstallationOf[t]] \in {previous[t], NoSession}
                        /\ \A k \in Keys : k[1] = InstallationOf[t] /\ Undone(pending[k])' =>
                             pending[k] \in draining[t]
      BY DEF DrainCovers, Quiet
    <2>1. pc[t] \in {"draining", "swapWait"}
      BY <1>1 DEF HoldsReplacement
    <2>2. \A k \in Keys : Undone(pending[k])' => Undone(pending[k])
      BY DEF Undone, FutureGrows, TypeOK
    <2>3. QED
      BY <2>1, <2>2, RegistryAssumption DEF ReplaceInv, DrainCovers, Quiet
  <1>5. DrainDone'
    <2>1. \A t \in Sessions : pc'[t] = "swapWait" => pc[t] = "swapWait"
      BY <1>1 DEF HoldsReplacement
    <2>2. QED
      BY <2>1 DEF ReplaceInv, DrainDone, Undone, FutureGrows, TypeOK, Quiet
  <1>6. QED
    BY <1>2, <1>3, <1>4, <1>5 DEF ReplaceInv

(* Touching a session is quiet.                                             *)
LEMMA TouchSectionQuiet ==
  ASSUME TypeOK, NEW s \in Sessions, pc[s] \notin HoldsReplacement \cup {"abandoned"}, NEW m,
         NEW queue, TouchSection(s, m, queue)
  PROVE  Quiet
  <1>1. \E label \in {"leaving", "loop", "resolveWait"} : Goto(s, label)
    BY DEF TouchSection, ResolveSection
  <1>2. QED
    BY <1>1 DEF TouchSection, registryVars, Quiet, Goto, TypeOK, HoldsReplacement

(* Queueing for the lock outside a replacement is quiet.                    *)
LEMMA HandlerWaitsQuiet ==
  ASSUME TypeOK, NEW s \in Sessions, pc[s] \notin HoldsReplacement \cup {"abandoned"},
         NEW label, label \notin HoldsReplacement, HandlerWaits(s, label)
  PROVE  Quiet
  BY DEF HandlerWaits, registryVars, Quiet, Goto, TypeOK

QuietStep(s) ==
  \/ StartReplace(s) \/ HelloAck(s) \/ Leave(s) \/ Expire(s)
  \/ \E m \in Commands \cup {NoCommand} : Receive(s, m)
  \/ TouchGranted(s) \/ ResolveGranted(s) \/ Remove(s) \/ RemoveGranted(s)
  \/ CancelHandler(s)

(* Every handler step outside replace is quiet.                             *)
LEMMA QuietSteps ==
  ASSUME TypeOK, NEW s \in Sessions, QuietStep(s)
  PROVE  Quiet
  <1>1. CASE StartReplace(s)
    <2>1. \A i \in Installations : replQueue[i] # <<>> =>
            replQueue'[i] # <<>> /\ Head(replQueue'[i]) = Head(replQueue[i])
      <3> DEFINE q == replQueue[InstallationOf[s]]
      <3>1. q \in Seq(Sessions)
        BY RegistryAssumption DEF TypeOK
      <3>2. Append(q, s) # <<>> /\ (q # <<>> => Head(Append(q, s)) = Head(q))
        BY <3>1, AppendFacts
      <3>3. replQueue' = [replQueue EXCEPT ![InstallationOf[s]] = Append(q, s)]
        BY <1>1 DEF StartReplace
      <3>4. QED
        BY <3>2, <3>3 DEF TypeOK
    <2>2. QED
      BY <1>1, <2>1 DEF StartReplace, Quiet, Goto, TypeOK, HoldsReplacement, registryVars
  <1>2. CASE HelloAck(s) \/ Leave(s) \/ Expire(s)
    BY <1>2 DEF HelloAck, Leave, Expire, Quiet, Goto, TypeOK, HoldsReplacement,
       registryVars, lockVars
  <1>3. CASE \E m \in Commands \cup {NoCommand} : Receive(s, m)
    BY <1>3, TouchSectionQuiet, HandlerWaitsQuiet DEF Receive, HoldsReplacement
  <1>4. CASE TouchGranted(s)
    BY <1>4, TouchSectionQuiet DEF TouchGranted, HoldsReplacement
  <1>5. CASE ResolveGranted(s)
    <2>1. \E label \in {"leaving", "loop"} : Goto(s, label)
      BY <1>5 DEF ResolveGranted, ResolveSection
    <2>2. QED
      BY <1>5, <2>1 DEF ResolveGranted, Quiet, Goto, TypeOK, HoldsReplacement, registryVars
  <1>6. CASE RemoveSection(s) /\ pc[s] \in {"leaving", "removeWait"}
    BY <1>6, RegistryAssumption DEF RemoveSection, Quiet, Goto, TypeOK, HoldsReplacement
  <1>7. CASE HandlerWaits(s, "removeWait") /\ pc[s] = "leaving"
    BY <1>7, HandlerWaitsQuiet DEF HoldsReplacement
  <1>8. CASE CancelHandler(s)
    BY <1>8 DEF CancelHandler, Quiet, Goto, TypeOK, HoldsReplacement, registryVars
  <1>9. QED
    BY <1>1, <1>2, <1>3, <1>4, <1>5, <1>6, <1>7, <1>8 DEF QuietStep, Remove, RemoveGranted

-----------------------------------------------------------------------------
(* The replacement itself.  Only one handler of an installation is past the *)
(* head of the replacement queue.                                           *)
LEMMA Exclusive ==
  ASSUME ReplacementExclusive, NEW s \in Sessions, HoldsReplacementLock(s),
         NEW t \in Sessions, InstallationOf[t] = InstallationOf[s],
         pc[t] \in HoldsReplacement
  PROVE  t = s
  BY DEF ReplacementExclusive, HoldsReplacementLock

(* A handler of the replacement moves from one of its waits to the next.    *)
LEMMA StayReplaceInv ==
  ASSUME TypeOK, ReplaceInv, NEW s \in Sessions, HoldsReplacementLock(s),
         NEW label \in {"replaceWait", "swapWait", "cancelWait"}, Goto(s, label),
         pc[s] \in {"replace", "replaceWait", "draining"},
         label = "replaceWait" <=> pc[s] # "draining",
         label = "swapWait" => \A c \in draining[s] : ~Undone(c),
         UNCHANGED <<current, transitioning, replQueue, previous, draining, pending, future>>
  PROVE  ReplaceInv'
  <1>1. /\ pc'[s] = label
        /\ \A t \in Sessions : t # s => pc'[t] = pc[t]
    BY DEF Goto, TypeOK
  <1>2. ReplacementExclusive'
    BY <1>1 DEF ReplaceInv, ReplacementExclusive, HoldsReplacementLock
  <1>3. MarkHasOwner'
    BY <1>1 DEF ReplaceInv, MarkHasOwner, WillUnmark, HoldsReplacementLock
  <1>4. DrainCovers'
    BY <1>1 DEF ReplaceInv, DrainCovers, Undone
  <1>5. DrainDone'
    BY <1>1 DEF ReplaceInv, DrainDone, Undone
  <1>6. QED
    BY <1>2, <1>3, <1>4, <1>5 DEF ReplaceInv

(* The handler leaves the replacement: it held the lock and gives it back,  *)
(* or it was still waiting for it. The mark is then somebody else's, or it  *)
(* is left behind by a handler that is abandoned.                           *)
MarkedElsewhere(s) ==
  \E t \in Sessions \ {s} :
    InstallationOf[t] = InstallationOf[s] /\ (WillUnmark(t) \/ pc[t] = "abandoned")

LEMMA ReleaseReplaceInv ==
  ASSUME TypeOK, ReplaceInv, NEW s \in Sessions,
         NEW label \in {"ack", "closed", "abandoned"}, Goto(s, label),
         \A t \in Sessions \ {s} : HoldsReplacementLock(t) => HoldsReplacementLock(t)',
         HoldsReplacementLock(s) \/ UNCHANGED <<current, transitioning>>,
         transitioning' \in {transitioning, transitioning \ {InstallationOf[s]}},
         InstallationOf[s] \in transitioning' => label = "abandoned" \/ MarkedElsewhere(s),
         \A i \in Installations : i # InstallationOf[s] => current'[i] = current[i],
         UNCHANGED <<previous, draining, pending, future>>
  PROVE  ReplaceInv'
  <1> DEFINE i == InstallationOf[s]
  <1>1. /\ pc'[s] = label
        /\ \A t \in Sessions : t # s => pc'[t] = pc[t]
        /\ i \in Installations
    BY RegistryAssumption DEF Goto, TypeOK
  <1>2. \A t \in Sessions : pc'[t] \in HoldsReplacement =>
          /\ t # s /\ pc'[t] = pc[t]
          /\ InstallationOf[t] # i \/ UNCHANGED <<current, transitioning>>
    BY <1>1, Exclusive DEF ReplaceInv, HoldsReplacement
  <1>3. ReplacementExclusive'
    BY <1>2 DEF ReplaceInv, ReplacementExclusive
  <1>4. MarkHasOwner'
    <2> SUFFICES ASSUME NEW j \in Installations, j \in transitioning'
                 PROVE  \E t \in Sessions :
                          InstallationOf[t] = j /\ (WillUnmark(t)' \/ pc'[t] = "abandoned")
      BY DEF MarkHasOwner, TypeOK
    <2>1. CASE j = i /\ label = "abandoned"
      BY <1>1, <2>1
    <2>2. CASE j # i \/ label # "abandoned"
      <3>1. PICK t \in Sessions \ {s} :
              InstallationOf[t] = j /\ (WillUnmark(t) \/ pc[t] = "abandoned")
        BY <2>2 DEF ReplaceInv, MarkHasOwner, MarkedElsewhere
      <3>2. QED
        BY <1>1, <3>1 DEF WillUnmark
    <2>3. QED
      BY <2>1, <2>2
  <1>5. DrainCovers'
    BY <1>2, RegistryAssumption DEF ReplaceInv, DrainCovers, HoldsReplacement, Undone
  <1>6. DrainDone'
    BY <1>2 DEF ReplaceInv, DrainDone, HoldsReplacement, Undone
  <1>7. QED
    BY <1>3, <1>4, <1>5, <1>6 DEF ReplaceInv

(* Giving the lock back leaves every other holder the holder.               *)
LEMMA OthersHold ==
  ASSUME TypeOK, NEW s \in Sessions, HoldsReplacementLock(s),
         ReleaseReplacement(InstallationOf[s]),
         NEW t \in Sessions \ {s}, HoldsReplacementLock(t)
  PROVE  HoldsReplacementLock(t)'
  BY RegistryAssumption DEF HoldsReplacementLock, ReleaseReplacement, TypeOK

(* The replacement begins: the mark is set and the commands in flight on    *)
(* the registered session are those the handler will wait for.              *)
LEMMA BeginDrainReplaceInv ==
  ASSUME TypeOK, CallInv, TableInv, ReplaceInv, NEW s \in Sessions,
         HoldsReplacementLock(s), holder = NoCall,
         transitioning' = transitioning \cup {InstallationOf[s]},
         previous' = [previous EXCEPT ![s] = current[InstallationOf[s]]],
         draining' = [draining EXCEPT ![s] = InFlight(current[InstallationOf[s]])],
         Goto(s, "draining"),
         UNCHANGED <<current, replQueue, pending, future>>
  PROVE  ReplaceInv'
  <1> DEFINE i == InstallationOf[s]
  <1>1. /\ pc'[s] = "draining"
        /\ \A t \in Sessions : t # s => pc'[t] = pc[t]
        /\ previous'[s] = current[i] /\ draining'[s] = InFlight(current[i])
        /\ \A t \in Sessions : t # s => previous'[t] = previous[t] /\ draining'[t] = draining[t]
        /\ i \in Installations
    BY RegistryAssumption DEF Goto, TypeOK
  <1>2. ReplacementExclusive'
    BY <1>1 DEF ReplaceInv, ReplacementExclusive, HoldsReplacementLock
  <1>3. MarkHasOwner'
    BY <1>1 DEF ReplaceInv, MarkHasOwner, WillUnmark, HoldsReplacementLock
  <1>4. ASSUME NEW k \in Keys, k[1] = i, Undone(pending[k])
        PROVE  pending[k] \in InFlight(current[i])
    <2>1. pending[k] \in Calls /\ owner[pending[k]] = current[i]
      BY <1>4 DEF TypeOK, Undone, TableInv, NoOrphan
    <2>2. sent[pending[k]] /\ callKey[pending[k]] = k
      BY <1>4 DEF CallInv, UnsentIsHeld, TableKeyed, Undone
    <2>3. QED
      BY <1>4, <2>1, <2>2 DEF InFlight
  <1>5. DrainCovers'
    <2> SUFFICES ASSUME NEW t \in Sessions, pc'[t] \in {"draining", "swapWait"}
                 PROVE  /\ InstallationOf[t] \in transitioning'
                        /\ current[InstallationOf[t]] \in {previous'[t], NoSession}
                        /\ \A k \in Keys : k[1] = InstallationOf[t] /\ Undone(pending[k]) =>
                             pending[k] \in draining'[t]
      BY DEF DrainCovers, Undone
    <2>1. CASE t = s
      BY <1>1, <1>4, <2>1
    <2>2. CASE t # s
      BY <1>1, <2>2 DEF ReplaceInv, DrainCovers
    <2>3. QED
      BY <2>1, <2>2
  <1>6. DrainDone'
    BY <1>1 DEF ReplaceInv, DrainDone, Undone
  <1>7. QED
    BY <1>2, <1>3, <1>5, <1>6 DEF ReplaceInv

(* The new session takes over.                                              *)
LEMMA SwapReplaceInv ==
  ASSUME TypeOK, ReplaceInv, NEW s \in Sessions, HoldsReplacementLock(s),
         SwapSection(s)
  PROVE  ReplaceInv'
  <1> DEFINE i == InstallationOf[s]
  <1>1. /\ pc'[s] = "closePrevious"
        /\ \A t \in Sessions : t # s => pc'[t] = pc[t]
        /\ i \in Installations /\ transitioning' = transitioning \ {i}
        /\ \A j \in Installations : j # i => current'[j] = current[j]
        /\ UNCHANGED <<replQueue, previous, draining, pending, future>>
    BY RegistryAssumption DEF SwapSection, Goto, TypeOK
  <1>2. \A t \in Sessions : t # s /\ pc'[t] \in HoldsReplacement => InstallationOf[t] # i
    BY <1>1, Exclusive DEF ReplaceInv
  <1>3. ReplacementExclusive'
    BY <1>1 DEF ReplaceInv, ReplacementExclusive, HoldsReplacementLock
  <1>4. MarkHasOwner'
    BY <1>1 DEF ReplaceInv, MarkHasOwner, WillUnmark, HoldsReplacementLock
  <1>5. DrainCovers'
    BY <1>1, <1>2, RegistryAssumption DEF ReplaceInv, DrainCovers, HoldsReplacement, Undone
  <1>6. DrainDone'
    BY <1>1 DEF ReplaceInv, DrainDone, Undone
  <1>7. QED
    BY <1>3, <1>4, <1>5, <1>6 DEF ReplaceInv

(* A mark that is not the handler's own is somebody else's.                 *)
LEMMA ForeignMark ==
  ASSUME ReplaceInv, NEW s \in Sessions, InstallationOf[s] \in transitioning,
         pc[s] \notin {"draining", "swapWait", "cancelWait", "abandoned"}
  PROVE  MarkedElsewhere(s)
  BY DEF ReplaceInv, MarkHasOwner, WillUnmark, MarkedElsewhere

(* A handler cancelled in replace leaves its queue and nothing else; if the *)
(* mark was its own, it is left behind (evcp.py:225-259).                   *)
LEMMA CancelledReplaceInv ==
  ASSUME TypeOK, ReplaceInv, NEW s \in Sessions, CancelReplace(s) \/ CancelClose(s)
  PROVE  ReplaceInv'
  <1> DEFINE i == InstallationOf[s]
  <1>1. CASE CancelReplace(s)
    <2> DEFINE label == IF pc[s] \in {"cancelWait", "swapWait"} THEN "abandoned" ELSE "closed"
    <2>1. /\ Goto(s, label) /\ label \in {"ack", "closed", "abandoned"}
          /\ replQueue' = [replQueue EXCEPT ![i] = Without(replQueue[i], s)]
          /\ UNCHANGED <<current, transitioning, previous, draining, pending, future>>
          /\ pc[s] \in {"replace", "replaceWait", "cancelWait", "swapWait"}
      BY <1>1 DEF CancelReplace, registryVars
    <2>2. i \in transitioning' => label = "abandoned" \/ MarkedElsewhere(s)
      BY <2>1, ForeignMark
    <2>3. ASSUME NEW t \in Sessions \ {s}, HoldsReplacementLock(t)
          PROVE  HoldsReplacementLock(t)'
      <3> DEFINE q == replQueue[InstallationOf[t]]
      <3>1. q \in Seq(Sessions) /\ q # <<>> /\ Head(q) = t
        BY <2>3, RegistryAssumption DEF HoldsReplacementLock, TypeOK
      <3>2. Without(q, s) # <<>> /\ Head(Without(q, s)) = t
        BY <3>1, WithoutFacts
      <3>3. replQueue'[InstallationOf[t]] \in {q, Without(q, s)}
        BY <2>1, RegistryAssumption DEF TypeOK
      <3>4. QED
        BY <3>1, <3>2, <3>3 DEF HoldsReplacementLock
    <2> HIDE DEF label
    <2>4. QED
      BY <2>1, <2>2, <2>3, ReleaseReplaceInv
  <1>2. CASE CancelClose(s)
    <2>1. /\ Goto(s, "closed") /\ ReleaseReplacement(i) /\ pc[s] = "closePrevious"
          /\ UNCHANGED <<current, transitioning, previous, draining, pending, future>>
      BY <1>2 DEF CancelClose, registryVars
    <2>2. HoldsReplacementLock(s)
      BY <2>1 DEF ReplaceInv, ReplacementExclusive, HoldsReplacement
    <2>3. i \in transitioning' => MarkedElsewhere(s)
      BY <2>1, ForeignMark
    <2>4. QED
      BY <2>1, <2>2, <2>3, OthersHold, ReleaseReplaceInv
  <1>3. QED
    BY <1>1, <1>2

(* The steps of replace keep the invariant of replacements.                 *)
LEMMA ReplacementStepInv ==
  ASSUME TypeOK, CallInv, TableInv, ReplaceInv, NEW s \in Sessions,
         \/ Replace(s) \/ ReplaceGranted(s) \/ Swap(s) \/ SwapGranted(s)
         \/ CancelDrain(s) \/ CancelGranted(s) \/ ClosePrevious(s)
  PROVE  ReplaceInv'
  <1> DEFINE i == InstallationOf[s]
  <1>1. HoldsReplacementLock(s)
    BY DEF Replace, ReplaceGranted, Swap, SwapGranted, CancelDrain, CancelGranted,
       ClosePrevious, ReplaceInv, ReplacementExclusive, HoldsReplacement
  <1>2. CASE Replace(s) \/ ReplaceGranted(s)
    <2>1. /\ pc[s] \in {"replace", "replaceWait"}
          /\ i \in transitioning => MarkedElsewhere(s)
      BY <1>2, ForeignMark DEF Replace, ReplaceGranted
    <2>2. CASE ReplaceSection(s) /\ holder = NoCall
      <3>1. CASE /\ current' = [current EXCEPT ![i] = s]
                 /\ ReleaseReplacement(i) /\ Goto(s, "ack")
                 /\ UNCHANGED <<transitioning, previous, draining>>
        <4>1. /\ \A j \in Installations : j # i => current'[j] = current[j]
              /\ UNCHANGED <<pending, future>>
          BY <2>2, <3>1 DEF TypeOK, ReplaceSection
        <4>2. QED
          BY <1>1, <2>1, <3>1, <4>1, OthersHold, ReleaseReplaceInv
      <3>2. CASE /\ transitioning' = transitioning \cup {i}
                 /\ previous' = [previous EXCEPT ![s] = current[i]]
                 /\ draining' = [draining EXCEPT ![s] = InFlight(current[i])]
                 /\ Goto(s, "draining")
                 /\ UNCHANGED <<current, replQueue>>
        <4>1. UNCHANGED <<pending, future>>
          BY <2>2 DEF ReplaceSection
        <4>2. QED
          BY <1>1, <2>2, <3>2, <4>1, BeginDrainReplaceInv
      <3>3. QED
        BY <2>2, <3>1, <3>2 DEF ReplaceSection
    <2>3. CASE HandlerWaits(s, "replaceWait") /\ pc[s] = "replace"
      <3>1. UNCHANGED <<current, transitioning, replQueue, previous, draining, pending, future>>
        BY <2>3 DEF HandlerWaits, registryVars
      <3>2. QED
        BY <1>1, <2>3, <3>1, StayReplaceInv DEF HandlerWaits
    <2>4. QED
      BY <1>2, <2>2, <2>3 DEF Replace, ReplaceGranted, LockFree, Granted, FirstInLine
  <1>3. CASE Swap(s) \/ SwapGranted(s)
    <2>1. CASE SwapSection(s)
      BY <1>1, <2>1, SwapReplaceInv
    <2>2. CASE /\ HandlerWaits(s, "swapWait") /\ pc[s] = "draining"
               /\ \A c \in draining[s] : ~Undone(c)
      <3>1. UNCHANGED <<current, transitioning, replQueue, previous, draining, pending, future>>
        BY <2>2 DEF HandlerWaits, registryVars
      <3>2. QED
        BY <1>1, <2>2, <3>1, StayReplaceInv DEF HandlerWaits
    <2>3. QED
      BY <1>3, <2>1, <2>2 DEF Swap, SwapGranted
  <1>4. CASE CancelDrain(s) \/ CancelGranted(s)
    <2>1. CASE CancelSection(s)
      <3>1. /\ Goto(s, "closed") /\ ReleaseReplacement(i)
            /\ transitioning' = transitioning \ {i}
            /\ UNCHANGED <<current, previous, draining, pending, future>>
        BY <2>1 DEF CancelSection
      <3>2. QED
        BY <1>1, <3>1, OthersHold, ReleaseReplaceInv
    <2>2. CASE HandlerWaits(s, "cancelWait") /\ pc[s] = "draining"
      <3>1. UNCHANGED <<current, transitioning, replQueue, previous, draining, pending, future>>
        BY <2>2 DEF HandlerWaits, registryVars
      <3>2. QED
        BY <1>1, <2>2, <3>1, StayReplaceInv DEF HandlerWaits
    <2>3. QED
      BY <1>4, <2>1, <2>2 DEF CancelDrain, CancelGranted
  <1>5. CASE ClosePrevious(s)
    <2>1. i \in transitioning => MarkedElsewhere(s)
      BY <1>5, ForeignMark DEF ClosePrevious
    <2>2. /\ Goto(s, "ack") /\ ReleaseReplacement(i)
          /\ UNCHANGED <<current, transitioning, previous, draining, pending, future>>
      BY <1>5 DEF ClosePrevious, registryVars
    <2>3. QED
      BY <1>1, <2>1, <2>2, OthersHold, ReleaseReplaceInv
  <1>6. QED
    BY <1>2, <1>3, <1>4, <1>5

(* Every step keeps the invariant of replacements.                          *)
LEMMA NextReplaceInv ==
  ASSUME TypeOK, CallInv, TableInv, ReplaceInv, [Next]_vars
  PROVE  ReplaceInv'
  <1>1. ASSUME NEW c \in Calls, CallStep(c) PROVE ReplaceInv'
    BY <1>1, CallReplaceInv
  <1>2. ASSUME NEW s \in Sessions, SessionStep(s) PROVE ReplaceInv'
    <2>1. CASE QuietStep(s)
      BY <1>2, <2>1, QuietSteps, QuietReplaceInv, SessionFrame
    <2>2. CASE ~QuietStep(s)
      BY <1>2, <2>2, ReplacementStepInv, CancelledReplaceInv DEF SessionStep, QuietStep
    <2>3. QED
      BY <2>1, <2>2
  <1>3. CASE UNCHANGED vars
    <2>1. Quiet /\ FutureGrows /\ UNCHANGED pending
      BY <1>3 DEF Quiet, FutureGrows, vars, registryVars, lockVars, sessionVars
    <2>2. QED
      BY <2>1, QuietReplaceInv
  <1>4. QED
    BY <1>1, <1>2, <1>3 DEF Next

-----------------------------------------------------------------------------
(* The registered session and the table                                     *)

(* A handler changes the registration of its own installation only: when it *)
(* is free, when its commands are drained, or when it is its own.           *)
LEMMA RegistrationStep ==
  ASSUME TypeOK, NEW s \in Sessions, SessionStep(s)
  PROVE  \/ UNCHANGED current
         \/ ReplaceSection(s) /\ current[InstallationOf[s]] = NoSession
              /\ current' = [current EXCEPT ![InstallationOf[s]] = s]
         \/ SwapSection(s) /\ (Swap(s) \/ SwapGranted(s))
         \/ RemoveSection(s) /\ (Remove(s) \/ RemoveGranted(s))
  <1>1. CASE \/ StartReplace(s) \/ ClosePrevious(s) \/ HelloAck(s) \/ Leave(s) \/ Expire(s)
             \/ ResolveGranted(s) \/ CancelReplace(s) \/ CancelClose(s) \/ CancelHandler(s)
    BY <1>1 DEF StartReplace, ClosePrevious, HelloAck, Leave, Expire, ResolveGranted,
       CancelReplace, CancelClose, CancelHandler, registryVars, lockVars
  <1>2. CASE \E label : HandlerWaits(s, label)
    BY <1>2 DEF HandlerWaits, registryVars
  <1>3. CASE \E m, queue : TouchSection(s, m, queue)
    BY <1>3 DEF TouchSection, registryVars
  <1>4. CASE CancelSection(s)
    BY <1>4 DEF CancelSection
  <1>5. CASE ReplaceSection(s)
    BY <1>5 DEF ReplaceSection
  <1>6. QED
    BY <1>1, <1>2, <1>3, <1>4, <1>5
       DEF SessionStep, Replace, ReplaceGranted, Swap, SwapGranted, CancelDrain,
           CancelGranted, Receive, TouchGranted, Remove, RemoveGranted

(* No handler step orphans a command: swap and remove settle first.         *)
LEMMA SessionTableInv ==
  ASSUME TypeOK, CallInv, TableInv, ReplaceInv, NEW s \in Sessions, SessionStep(s)
  PROVE  TableInv'
  <1> DEFINE i == InstallationOf[s]
  <1>1. /\ UNCHANGED <<pending, owner, callKey>> /\ FutureGrows
        /\ i \in Installations
    BY SessionFrame, RegistryAssumption DEF callVars
  <1>2. \A k \in Keys : Undone(pending[k])' => Undone(pending[k])
    BY <1>1 DEF Undone, FutureGrows, TypeOK
  <1>3. CASE UNCHANGED current
    BY <1>1, <1>2, <1>3 DEF TableInv, Home, NoOrphan
  <1>4. CASE current[i] = NoSession /\ current' = [current EXCEPT ![i] = s]
    <2>1. Home'
      BY <1>1, <1>4 DEF TableInv, Home, TypeOK
    <2>2. ASSUME NEW k \in Keys, Undone(pending[k]), k[1] = i PROVE FALSE
      BY <1>4, <2>2, RegistryAssumption DEF TableInv, NoOrphan, CallInv, TableKeyed, Undone
    <2>3. NoOrphan'
      BY <1>1, <1>2, <1>4, <2>2 DEF TableInv, NoOrphan, TypeOK
    <2>4. QED
      BY <2>1, <2>3 DEF TableInv
  <1>5. CASE SwapSection(s) /\ (Swap(s) \/ SwapGranted(s))
    <2>1. current' = [current EXCEPT ![i] = s]
      BY <1>5 DEF SwapSection
    <2>2. \A c \in draining[s] : ~Undone(c)
      BY <1>5 DEF Swap, SwapGranted, ReplaceInv, DrainDone
    <2>3. ASSUME NEW k \in Keys, Undone(pending[k]), k[1] = i PROVE FALSE
      BY <1>5, <2>2, <2>3 DEF Swap, SwapGranted, ReplaceInv, DrainCovers
    <2>4. Home'
      BY <1>1, <2>1 DEF TableInv, Home, TypeOK
    <2>5. NoOrphan'
      BY <1>1, <1>2, <2>1, <2>3 DEF TableInv, NoOrphan, TypeOK
    <2>6. QED
      BY <2>4, <2>5 DEF TableInv
  <1>6. CASE RemoveSection(s) /\ current[i] = s
    <2>1. current' = [current EXCEPT ![i] = NoSession]
      BY <1>6 DEF RemoveSection
    <2>2. ASSUME NEW k \in Keys, Undone(pending[k]), k[1] = i
          PROVE  ~Undone(pending[k])'
      <3> DEFINE p == pending[k]
      <3>1. /\ p \in Calls /\ owner[p] = s /\ callKey[p] = k
        BY <1>6, <2>2 DEF TypeOK, Undone, TableInv, NoOrphan, CallInv, TableKeyed
      <3>2. future'[p] = "stale_session"
        BY <1>6, <2>2, <3>1 DEF RemoveSection
      <3>3. QED
        BY <1>1, <3>2 DEF Undone
    <2>3. Home'
      BY <1>1, <2>1 DEF TableInv, Home, TypeOK
    <2>4. NoOrphan'
      BY <1>1, <1>2, <2>1, <2>2 DEF TableInv, NoOrphan, TypeOK
    <2>5. QED
      BY <2>3, <2>4 DEF TableInv
  <1>7. QED
    BY <1>3, <1>4, <1>5, <1>6, RegistrationStep DEF RemoveSection

(* Every step keeps the table free of orphans.                              *)
LEMMA NextTableInv ==
  ASSUME TypeOK, CallInv, TableInv, ReplaceInv, [Next]_vars
  PROVE  TableInv'
  <1>1. CASE UNCHANGED vars
    BY <1>1 DEF TableInv, Home, NoOrphan, Undone, vars, registryVars, callVars
  <1>2. QED
    BY <1>1, CallTableInv, SessionTableInv DEF Next

-----------------------------------------------------------------------------
(* The result a handler holds while it queues for the lock                  *)
InboxKept(s) ==
  /\ \A t \in Sessions : t # s => pc'[t] = pc[t] /\ inbox'[t] = inbox[t]
  /\ pc'[s] = "resolveWait" => inbox'[s] \in Commands

(* A touch that goes on to resolve has a result in hand.                    *)
LEMMA TouchSectionInbox ==
  ASSUME TypeOK, NEW s \in Sessions, NEW m \in Commands \cup {NoCommand}, NEW queue,
         TouchSection(s, m, queue)
  PROVE  InboxKept(s)
  <1>1. CASE ResolveSection(s, m)
    BY <1>1 DEF ResolveSection, InboxKept, Goto, TypeOK
  <1>2. CASE /\ \E label \in {"leaving", "loop"} : Goto(s, label)
             /\ inbox' \in {inbox, [inbox EXCEPT ![s] = NoCommand]}
    BY <1>2 DEF InboxKept, Goto, TypeOK
  <1>3. CASE m # NoCommand /\ inbox' = [inbox EXCEPT ![s] = m] /\ Goto(s, "resolveWait")
    BY <1>3 DEF InboxKept, Goto, TypeOK
  <1>4. QED
    BY <1>1, <1>2, <1>3 DEF TouchSection

(* Every handler step keeps a result in hand while it waits.                *)
LEMMA SessionInbox ==
  ASSUME TypeOK, NEW s \in Sessions, SessionStep(s), InboxHeld
  PROVE  InboxKept(s)
  <1>1. CASE \/ StartReplace(s) \/ ClosePrevious(s) \/ HelloAck(s) \/ Leave(s)
             \/ CancelReplace(s) \/ CancelClose(s) \/ CancelHandler(s)
    BY <1>1 DEF StartReplace, ClosePrevious, HelloAck, Leave, CancelReplace, CancelClose,
       CancelHandler, Goto, InboxKept, TypeOK
  <1>2. CASE Expire(s)
    BY <1>2 DEF Expire, InboxKept, InboxHeld
  <1>3. CASE ReplaceSection(s) \/ SwapSection(s) \/ CancelSection(s) \/ RemoveSection(s)
    BY <1>3 DEF ReplaceSection, SwapSection, CancelSection, RemoveSection, Goto, InboxKept,
       TypeOK
  <1>4. CASE \E label \in {"replaceWait", "swapWait", "cancelWait", "removeWait"} :
               HandlerWaits(s, label) /\ UNCHANGED inbox
    BY <1>4 DEF HandlerWaits, Goto, InboxKept, TypeOK
  <1>5. CASE \E m \in Commands \cup {NoCommand} : Receive(s, m)
    <2>1. PICK m \in Commands \cup {NoCommand} : Receive(s, m)
      BY <1>5
    <2>2. CASE HandlerWaits(s, "touchWait") /\ inbox' = [inbox EXCEPT ![s] = m]
      BY <2>2 DEF HandlerWaits, Goto, InboxKept, TypeOK
    <2>3. QED
      BY <2>1, <2>2, TouchSectionInbox DEF Receive
  <1>6. CASE TouchGranted(s)
    <2>1. inbox[s] \in Commands \cup {NoCommand}
      BY DEF TypeOK
    <2>2. QED
      BY <1>6, <2>1, TouchSectionInbox DEF TouchGranted
  <1>7. CASE ResolveGranted(s)
    BY <1>7 DEF ResolveGranted, ResolveSection, Goto, InboxKept, TypeOK
  <1>8. QED
    BY <1>1, <1>2, <1>3, <1>4, <1>5, <1>6, <1>7
       DEF SessionStep, Replace, ReplaceGranted, Swap, SwapGranted, CancelDrain,
           CancelGranted, Remove, RemoveGranted

(* So does every step.                                                      *)
LEMMA NextInboxHeld ==
  ASSUME TypeOK, InboxHeld, [Next]_vars
  PROVE  InboxHeld'
  <1>1. ASSUME NEW c \in Calls, CallStep(c) PROVE UNCHANGED <<pc, inbox>>
    BY <1>1 DEF CallStep, Dispatch, DispatchGranted, DispatchSection, SendOk, SendFail, Wake,
       Timeout, LeaveWait, FinishGranted, sessionVars
  <1>2. ASSUME NEW s \in Sessions, SessionStep(s) PROVE InboxHeld'
    BY <1>2, SessionInbox DEF InboxHeld, InboxKept
  <1>3. QED
    BY <1>1, <1>2 DEF InboxHeld, Next, vars, sessionVars

-----------------------------------------------------------------------------
(* The websocket of a replaced session                                      *)

(* A step that registers nobody, opens no websocket and neither starts nor  *)
(* ends the closing of one.                                                 *)
CloseQuiet ==
  /\ UNCHANGED current
  /\ \A t \in Sessions :
       /\ socket'[t] = "open" => socket[t] = "open"
       /\ pc'[t] = "closePrevious" <=> pc[t] = "closePrevious"
       /\ pc[t] = "closePrevious" => previous'[t] = previous[t]
       /\ pc'[t] \in Registered => pc[t] \in Registered

(* A step that changes neither owner nor open sockets is harmless.          *)
LEMMA CloseQuietInv ==
  ASSUME TypeOK, CloseInv, CloseQuiet
  PROVE  CloseInv'
  BY DEF CloseQuiet, CloseInv, ClosingIsCurrent, ReplacedIsClosed

(* Closing opens no websocket and leaves none of its own open.              *)
LEMMA ClosedFacts ==
  ASSUME TypeOK, NEW s \in Sessions, NEW reason \in SocketStates \ {"open"}
  PROVE  /\ \A t \in Sessions : Closed(s, reason)[t] = "open" => socket[t] = "open"
         /\ Closed(s, reason)[s] # "open"
  BY DEF TypeOK, Closed

(* Touching a session is such a step.                                       *)
LEMMA TouchSectionClose ==
  ASSUME TypeOK, NEW s \in Sessions, pc[s] \in Registered, NEW m, NEW queue,
         TouchSection(s, m, queue)
  PROVE  CloseQuiet
  <1>1. \E label \in {"leaving", "loop", "resolveWait"} : Goto(s, label)
    BY DEF TouchSection, ResolveSection
  <1>2. socket' \in {socket, Closed(s, "session_replaced"), Closed(s, "result_mismatch")}
    BY DEF TouchSection, ResolveSection
  <1>3. \A t \in Sessions : socket'[t] = "open" => socket[t] = "open"
    BY <1>2, ClosedFacts DEF SocketStates
  <1>4. UNCHANGED <<current, previous>>
    BY DEF TouchSection, registryVars
  <1>5. QED
    BY <1>1, <1>3, <1>4 DEF CloseQuiet, Goto, TypeOK, Registered

(* So is queueing for the lock.                                             *)
LEMMA HandlerWaitsClose ==
  ASSUME TypeOK, NEW s \in Sessions, NEW label, HandlerWaits(s, label),
         pc[s] # "closePrevious", label # "closePrevious",
         label \in Registered => pc[s] \in Registered
  PROVE  CloseQuiet
  BY DEF HandlerWaits, registryVars, CloseQuiet, Goto, TypeOK

(* So are the handler steps outside replace and remove.                     *)
LEMMA QuietStepClose ==
  ASSUME TypeOK, NEW s \in Sessions,
         \/ StartReplace(s) \/ HelloAck(s) \/ Leave(s) \/ Expire(s)
         \/ \E m \in Commands \cup {NoCommand} : Receive(s, m)
         \/ TouchGranted(s) \/ ResolveGranted(s)
  PROVE  CloseQuiet
  <1>1. CASE StartReplace(s) \/ HelloAck(s) \/ Expire(s)
    BY <1>1 DEF StartReplace, HelloAck, Expire, CloseQuiet, Goto, TypeOK, Registered,
       registryVars
  <1>2. CASE Leave(s)
    <2>1. \A t \in Sessions : socket'[t] = "open" => socket[t] = "open"
      BY <1>2, ClosedFacts DEF Leave, SocketStates
    <2>2. QED
      BY <1>2, <2>1 DEF Leave, CloseQuiet, Goto, TypeOK, Registered, registryVars
  <1>3. CASE \E m \in Commands \cup {NoCommand} : Receive(s, m)
    BY <1>3, TouchSectionClose, HandlerWaitsClose DEF Receive, Registered
  <1>4. CASE TouchGranted(s)
    BY <1>4, TouchSectionClose DEF TouchGranted, Registered
  <1>5. CASE ResolveGranted(s)
    <2>1. \E label \in {"leaving", "loop"} : Goto(s, label)
      BY <1>5 DEF ResolveGranted, ResolveSection
    <2>2. socket' \in {socket, Closed(s, "result_mismatch")}
      BY <1>5 DEF ResolveGranted, ResolveSection
    <2>3. \A t \in Sessions : socket'[t] = "open" => socket[t] = "open"
      BY <2>2, ClosedFacts DEF SocketStates
    <2>4. QED
      BY <1>5, <2>1, <2>3
         DEF ResolveGranted, CloseQuiet, Goto, TypeOK, Registered, registryVars
  <1>6. QED
    BY <1>1, <1>2, <1>3, <1>4, <1>5

(* While a handler of an installation is under the replacement lock and not *)
(* closing, no other handler of that installation is closing either.        *)
LEMMA NobodyCloses ==
  ASSUME ReplaceInv, NEW s \in Sessions, HoldsReplacementLock(s),
         pc[s] # "closePrevious", NEW t \in Sessions,
         InstallationOf[t] = InstallationOf[s]
  PROVE  pc[t] # "closePrevious"
  BY Exclusive DEF ReplaceInv, HoldsReplacement

(* Registering keeps every replaced session with its closer.                *)
LEMMA ReplaceClose ==
  ASSUME TypeOK, ReplaceInv, CloseInv, NEW s \in Sessions, Replace(s) \/ ReplaceGranted(s)
  PROVE  CloseInv'
  <1> DEFINE i == InstallationOf[s]
  <1>1. /\ HoldsReplacementLock(s) /\ i \in Installations
        /\ pc[s] \in {"replace", "replaceWait"}
    BY RegistryAssumption
       DEF Replace, ReplaceGranted, ReplaceInv, ReplacementExclusive, HoldsReplacement
  <1>2. CASE /\ current[i] = NoSession /\ current' = [current EXCEPT ![i] = s]
             /\ Goto(s, "ack") /\ UNCHANGED <<previous, socket>>
    <2>1. /\ pc'[s] = "ack" /\ current'[i] = s
          /\ \A t \in Sessions : t # s => pc'[t] = pc[t]
          /\ \A j \in Installations : j # i => current'[j] = current[j]
      BY <1>1, <1>2 DEF Goto, TypeOK
    <2>2. ClosingIsCurrent'
      BY <1>1, <2>1, NobodyCloses, RegistryAssumption DEF CloseInv, ClosingIsCurrent
    <2>3. ASSUME NEW r \in Sessions, pc'[r] \in Registered, socket[r] = "open",
                 current'[InstallationOf[r]] # r
          PROVE  \E t \in Sessions : pc'[t] = "closePrevious" /\ previous[t] = r
      <3>1. pc[r] \in Registered /\ current[InstallationOf[r]] # r
        BY <1>2, <2>1, <2>3, RegistryAssumption
      <3>2. PICK t \in Sessions : pc[t] = "closePrevious" /\ previous[t] = r
        BY <2>3, <3>1 DEF CloseInv, ReplacedIsClosed
      <3>3. QED
        BY <1>1, <2>1, <3>2
    <2>4. QED
      BY <1>2, <2>2, <2>3 DEF CloseInv, ReplacedIsClosed
  <1>3. CASE /\ previous' = [previous EXCEPT ![s] = current[i]]
             /\ Goto(s, "draining") /\ UNCHANGED <<current, socket>>
    BY <1>1, <1>3, CloseQuietInv DEF CloseQuiet, Goto, TypeOK, Registered
  <1>4. CASE HandlerWaits(s, "replaceWait")
    BY <1>1, <1>4, HandlerWaitsClose, CloseQuietInv DEF Registered
  <1>5. QED
    BY <1>2, <1>3, <1>4 DEF Replace, ReplaceGranted, ReplaceSection

(* A swap makes its handler the closer of the previous session.             *)
LEMMA SwapClose ==
  ASSUME TypeOK, ReplaceInv, CloseInv, NEW s \in Sessions, Swap(s) \/ SwapGranted(s)
  PROVE  CloseInv'
  <1> DEFINE i == InstallationOf[s]
  <1>1. /\ HoldsReplacementLock(s) /\ i \in Installations
        /\ pc[s] \in {"draining", "swapWait"}
        /\ current[i] \in {previous[s], NoSession}
    BY RegistryAssumption
       DEF Swap, SwapGranted, ReplaceInv, ReplacementExclusive, HoldsReplacement, DrainCovers
  <1>2. CASE SwapSection(s)
    <2>1. /\ pc'[s] = "closePrevious" /\ current'[i] = s
          /\ \A t \in Sessions : t # s => pc'[t] = pc[t]
          /\ \A j \in Installations : j # i => current'[j] = current[j]
          /\ UNCHANGED <<previous, socket>>
      BY <1>1, <1>2 DEF SwapSection, Goto, TypeOK
    <2>2. ClosingIsCurrent'
      BY <1>1, <2>1, NobodyCloses, RegistryAssumption DEF CloseInv, ClosingIsCurrent
    <2>3. ASSUME NEW r \in Sessions, pc'[r] \in Registered, socket[r] = "open",
                 current'[InstallationOf[r]] # r
          PROVE  \E t \in Sessions : pc'[t] = "closePrevious" /\ previous[t] = r
      <3>1. r # s /\ pc[r] \in Registered
        BY <2>1, <2>3 DEF Registered
      <3>2. CASE current[InstallationOf[r]] = r
        <4>1. InstallationOf[r] = i
          BY <2>1, <2>3, <3>2, RegistryAssumption
        <4>2. previous[s] = r
          BY <1>1, <3>2, <4>1, RegistryAssumption
        <4>3. QED
          BY <2>1, <4>2
      <3>3. CASE current[InstallationOf[r]] # r
        <4>1. PICK t \in Sessions : pc[t] = "closePrevious" /\ previous[t] = r
          BY <2>3, <3>1, <3>3 DEF CloseInv, ReplacedIsClosed
        <4>2. QED
          BY <1>1, <2>1, <4>1
      <3>4. QED
        BY <3>2, <3>3
    <2>4. QED
      BY <2>1, <2>2, <2>3 DEF CloseInv, ReplacedIsClosed
  <1>3. CASE HandlerWaits(s, "swapWait")
    BY <1>1, <1>3, HandlerWaitsClose, CloseQuietInv DEF Registered
  <1>4. QED
    BY <1>2, <1>3 DEF Swap, SwapGranted

(* A cancelled drain replaces nobody.                                       *)
LEMMA CancelDrainClose ==
  ASSUME TypeOK, NEW s \in Sessions,
         CancelDrain(s) \/ CancelGranted(s) \/ CancelReplace(s) \/ CancelHandler(s)
  PROVE  CloseQuiet
  <1>1. CASE CancelSection(s) /\ pc[s] \in {"draining", "cancelWait"}
    BY <1>1 DEF CancelSection, CloseQuiet, Goto, TypeOK, Registered
  <1>2. CASE HandlerWaits(s, "cancelWait") /\ pc[s] = "draining"
    BY <1>2, HandlerWaitsClose DEF Registered
  <1>3. CASE CancelReplace(s)
    BY <1>3 DEF CancelReplace, CloseQuiet, Goto, TypeOK, Registered, registryVars
  <1>4. CASE CancelHandler(s)
    BY <1>4 DEF CancelHandler, CloseQuiet, Goto, TypeOK, Registered, registryVars
  <1>5. QED
    BY <1>1, <1>2, <1>3, <1>4 DEF CancelDrain, CancelGranted

(* The closer goes on, or ends, only once the previous websocket is closed. *)
LEMMA ClosePreviousClose ==
  ASSUME TypeOK, CloseInv, NEW s \in Sessions, ClosePrevious(s) \/ CancelClose(s)
  PROVE  CloseInv'
  <1>1. /\ pc[s] = "closePrevious" /\ pc'[s] \in {"ack", "closed"}
        /\ current[InstallationOf[s]] = s
        /\ \A t \in Sessions : t # s => pc'[t] = pc[t]
        /\ UNCHANGED <<current, previous>>
    BY DEF ClosePrevious, CancelClose, Goto, TypeOK, CloseInv, ClosingIsCurrent, registryVars
  <1>2. ClosingIsCurrent'
    BY <1>1 DEF CloseInv, ClosingIsCurrent
  <1>3. ASSUME NEW r \in Sessions, pc'[r] \in Registered, socket'[r] = "open",
               current[InstallationOf[r]] # r
        PROVE  \E t \in Sessions : pc'[t] = "closePrevious" /\ previous[t] = r
    <2>1. r # s /\ pc[r] \in Registered
      BY <1>1, <1>3 DEF Registered
    <2>2. socket[r] = "open" /\ r # previous[s]
      BY <1>3 DEF ClosePrevious, CancelClose, Closed, TypeOK
    <2>3. PICK t \in Sessions : pc[t] = "closePrevious" /\ previous[t] = r
      BY <1>3, <2>1, <2>2 DEF CloseInv, ReplacedIsClosed
    <2>4. QED
      BY <1>1, <2>2, <2>3
  <1>4. QED
    BY <1>1, <1>2, <1>3 DEF CloseInv, ReplacedIsClosed

(* A handler that unregisters itself has left its own loop.                 *)
LEMMA RemoveClose ==
  ASSUME TypeOK, CloseInv, NEW s \in Sessions, Remove(s) \/ RemoveGranted(s)
  PROVE  CloseInv'
  <1> DEFINE i == InstallationOf[s]
  <1>1. pc[s] \in {"leaving", "removeWait"} /\ i \in Installations
    BY RegistryAssumption DEF Remove, RemoveGranted
  <1>2. CASE RemoveSection(s) /\ current[i] = s
    <2>1. /\ pc'[s] = "closed"
          /\ \A t \in Sessions : t # s => pc'[t] = pc[t]
          /\ \A j \in Installations : j # i => current'[j] = current[j]
          /\ UNCHANGED <<previous, socket>>
      BY <1>1, <1>2 DEF RemoveSection, Goto, TypeOK
    <2>2. ClosingIsCurrent'
      BY <1>1, <1>2, <2>1, RegistryAssumption DEF CloseInv, ClosingIsCurrent
    <2>3. ASSUME NEW r \in Sessions, pc'[r] \in Registered, socket[r] = "open",
                 current'[InstallationOf[r]] # r
          PROVE  \E t \in Sessions : pc'[t] = "closePrevious" /\ previous[t] = r
      <3>1. r # s /\ pc[r] \in Registered
        BY <2>1, <2>3 DEF Registered
      <3>2. current[InstallationOf[r]] # r
        BY <1>2, <2>1, <2>3, <3>1, RegistryAssumption
      <3>3. PICK t \in Sessions : pc[t] = "closePrevious" /\ previous[t] = r
        BY <2>3, <3>1, <3>2 DEF CloseInv, ReplacedIsClosed
      <3>4. QED
        BY <1>1, <2>1, <3>3
    <2>4. QED
      BY <2>1, <2>2, <2>3 DEF CloseInv, ReplacedIsClosed
  <1>3. CASE RemoveSection(s) /\ current[i] # s
    BY <1>1, <1>3, CloseQuietInv DEF RemoveSection, CloseQuiet, Goto, TypeOK, Registered
  <1>4. CASE HandlerWaits(s, "removeWait")
    BY <1>1, <1>4, HandlerWaitsClose, CloseQuietInv DEF Registered
  <1>5. QED
    BY <1>2, <1>3, <1>4 DEF Remove, RemoveGranted

(* Every step keeps replaced sessions with their closer.                    *)
LEMMA NextCloseInv ==
  ASSUME TypeOK, ReplaceInv, CloseInv, [Next]_vars
  PROVE  CloseInv'
  <1>1. ASSUME NEW c \in Calls, CallStep(c) PROVE CloseInv'
    <2>1. UNCHANGED <<current, pc, previous, socket>>
      BY <1>1 DEF CallStep, Dispatch, DispatchGranted, DispatchSection, SendOk, SendFail,
         Wake, Timeout, LeaveWait, FinishGranted, FinishSection, sessionVars, registryVars
    <2>2. QED
      BY <2>1, CloseQuietInv DEF CloseQuiet
  <1>2. ASSUME NEW s \in Sessions, SessionStep(s) PROVE CloseInv'
    BY <1>2, QuietStepClose, CloseQuietInv, ReplaceClose, SwapClose, CancelDrainClose,
       ClosePreviousClose, RemoveClose DEF SessionStep
  <1>3. CASE UNCHANGED vars
    BY <1>3, CloseQuietInv DEF CloseQuiet, vars, registryVars, sessionVars
  <1>4. QED
    BY <1>1, <1>2, <1>3 DEF Next

-----------------------------------------------------------------------------
(* Theorems                                                                 *)

(* The inductive invariant holds in every reachable state, for any number   *)
(* of installations, sessions, commands and calls.                          *)
THEOREM Invariance == Spec => []IInv
  <1>1. Init => IInv
    BY InitIInv
  <1>2. IInv /\ [Next]_vars => IInv'
    <2> SUFFICES ASSUME IInv, [Next]_vars PROVE IInv'
      OBVIOUS
    <2>1. TypeOK /\ CallInv /\ TableInv /\ ReplaceInv /\ InboxHeld /\ CloseInv
      BY DEF IInv
    <2>2. HolderSends /\ TableKeyed /\ WaitBound /\ ReplacementExclusive /\ Home
      BY <2>1 DEF CallInv, ReplaceInv, TableInv
    <2>3. TypeOK'
      BY <2>1, <2>2, NextTypeOK
    <2>4. CallInv'
      BY <2>1, <2>2, NextCallInv
    <2>5. TableInv'
      BY <2>1, NextTableInv
    <2>6. ReplaceInv'
      BY <2>1, NextReplaceInv
    <2>7. InboxHeld'
      BY <2>1, NextInboxHeld
    <2>8. CloseInv'
      BY <2>1, NextCloseInv
    <2>9. QED
      BY <2>3, <2>4, <2>5, <2>6, <2>7, <2>8 DEF IInv
  <1>3. QED
    BY <1>1, <1>2, PTL DEF Spec

(* Every variable of the registry keeps its type.                           *)
THEOREM TypeCorrect == Spec => []TypeOK
  <1>1. IInv => TypeOK
    BY DEF IInv
  <1>2. QED
    BY <1>1, Invariance, PTL

(* No caller is left waiting for a session that is no longer registered.    *)
THEOREM NoOrphanAlways == Spec => []NoOrphan
  <1>1. IInv => NoOrphan
    BY DEF IInv, TableInv
  <1>2. QED
    BY <1>1, Invariance, PTL

(* The mark that refuses dispatch outlives its replacement only when the    *)
(* handler was cancelled while it waited for the lock with the mark set     *)
(* (evcp.py:252, 255).                                                      *)
THEOREM MarkHasOwnerAlways == Spec => []MarkHasOwner
  <1>1. IInv => MarkHasOwner
    BY DEF IInv, ReplaceInv
  <1>2. QED
    BY <1>1, Invariance, PTL

(* A replaced session never lingers on an open websocket.                   *)
THEOREM ReplacedIsClosedAlways == Spec => []ReplacedIsClosed
  <1>1. IInv => ReplacedIsClosed
    BY DEF IInv, CloseInv
  <1>2. QED
    BY <1>1, Invariance, PTL

(* A stale handler never unregisters the session that replaced it, and no   *)
(* session is replaced while a command sent on it has no outcome.           *)
THEOREM OnlyOwnerOrSuccessorAlways == Spec => OnlyOwnerOrSuccessor
  <1>1. IInv /\ [Next]_vars => [OwnerOrSuccessor]_vars
    <2> SUFFICES ASSUME IInv, [Next]_vars PROVE OwnerOrSuccessor \/ UNCHANGED vars
      OBVIOUS
    <2>1. TypeOK /\ CallInv /\ TableInv /\ ReplaceInv /\ InboxHeld /\ CloseInv
      BY DEF IInv
    <2>2. ASSUME NEW c \in Calls, CallStep(c) PROVE OwnerOrSuccessor
      BY <2>1, <2>2, CallFrame DEF OwnerOrSuccessor
    <2>3. ASSUME NEW s \in Sessions, SessionStep(s) PROVE OwnerOrSuccessor
      <3> DEFINE i == InstallationOf[s]
      <3>1. i \in Installations
        BY RegistryAssumption
      <3>2. CASE UNCHANGED current
        BY <3>2 DEF OwnerOrSuccessor
      <3>3. CASE current[i] = NoSession /\ current' = [current EXCEPT ![i] = s]
        BY <2>1, <3>1, <3>3 DEF OwnerOrSuccessor, TypeOK
      <3>4. CASE SwapSection(s) /\ (Swap(s) \/ SwapGranted(s))
        <4>1. current' = [current EXCEPT ![i] = s]
          BY <3>4 DEF SwapSection
        <4>2. /\ current[i] \in {previous[s], NoSession}
              /\ \A k \in Keys : k[1] = i /\ Undone(pending[k]) => pending[k] \in draining[s]
              /\ \A c \in draining[s] : ~Undone(c)
          BY <2>1, <3>4 DEF Swap, SwapGranted, ReplaceInv, DrainCovers, DrainDone
        <4>3. ASSUME current[i] # NoSession, NEW c \in Calls, sent[c], owner[c] = current[i],
                     Undone(c)
              PROVE  FALSE
          <5>1. /\ callKey[c] \in Keys /\ pending[callKey[c]] = c
                /\ pending[callKey[c]] # NoCall
            BY <2>1, <4>3 DEF TypeOK, CallInv, SentTracked, Undone
          <5>2. InstallationOf[current[i]] = i /\ callKey[c][1] = i
            BY <2>1, <3>1, <4>3, <5>1 DEF TableInv, Home, CallInv, TableKeyed
          <5>3. QED
            BY <4>2, <4>3, <5>1, <5>2
        <4>4. s # NoSession
          BY RegistryAssumption
        <4>5. QED
          BY <2>1, <3>1, <4>1, <4>2, <4>3, <4>4 DEF OwnerOrSuccessor, TypeOK
      <3>5. CASE RemoveSection(s) /\ (Remove(s) \/ RemoveGranted(s)) /\ current[i] = s
        BY <2>1, <3>1, <3>5 DEF RemoveSection, Remove, RemoveGranted, OwnerOrSuccessor, TypeOK
      <3>6. QED
        BY <2>1, <2>3, <3>2, <3>3, <3>4, <3>5, RegistrationStep DEF RemoveSection
    <2>4. QED
      BY <2>2, <2>3 DEF Next
  <1>2. QED
    BY <1>1, Invariance, PTL DEF Spec, OnlyOwnerOrSuccessor

(* A result of the Connector reaches a caller only over the registered      *)
(* session its command was sent on.                                         *)
THEOREM ResultThroughOwnerAlways == Spec => ResultThroughOwner
  <1>1. IInv /\ [Next]_vars => [ThroughOwner]_vars
    <2> SUFFICES ASSUME IInv, [Next]_vars PROVE ThroughOwner \/ UNCHANGED vars
      OBVIOUS
    <2>1. TypeOK /\ CallInv /\ TableInv /\ ReplaceInv /\ InboxHeld /\ CloseInv
      BY DEF IInv
    <2>2. ASSUME NEW c \in Calls, CallStep(c) PROVE ThroughOwner
      <3>1. \A d \in Calls : future'[d] = "result" => future[d] = "result"
        BY <2>1, <2>2
           DEF CallStep, Dispatch, DispatchGranted, DispatchSection, SendOk, SendFail,
               Wake, Timeout, LeaveWait, FinishGranted, TypeOK
      <3>2. QED
        BY <3>1 DEF ThroughOwner
    <2>3. ASSUME NEW s \in Sessions, NEW m \in Commands, ResolveSection(s, m),
                 holder = NoCall, pc[s] \in {"loop", "touchWait", "resolveWait"}
          PROVE  ThroughOwner
      <3> DEFINE k == <<InstallationOf[s], m>>
                 p == pending[k]
      <3>1. CASE UNCHANGED future
        BY <3>1 DEF ThroughOwner
      <3>2. CASE Matches(s, m) /\ future' = [future EXCEPT ![p] = "result"]
        <4>1. k \in Keys /\ k[1] = InstallationOf[s]
          BY RegistryAssumption DEF Keys
        <4>2. /\ p \in Calls /\ p # NoCall /\ owner[p] = s /\ callKey[p] = k /\ sent[p]
              /\ current[InstallationOf[s]] = s
          BY <2>1, <2>3, <3>2, <4>1
             DEF Matches, Undone, TypeOK, CallInv, TableKeyed, UnsentIsHeld
        <4>3. \A d \in Calls : future[d] = "undone" /\ future'[d] = "result" => d = p
          BY <2>1, <3>2 DEF TypeOK
        <4>4. QED
          BY <2>3, <4>1, <4>2, <4>3 DEF ThroughOwner
      <3>3. QED
        BY <2>3, <3>1, <3>2 DEF ResolveSection
    <2>4. ASSUME NEW s \in Sessions, SessionStep(s) PROVE ThroughOwner
      <3>1. CASE \E m \in Commands \cup {NoCommand} : Receive(s, m)
        <4>1. PICK m \in Commands \cup {NoCommand} : Receive(s, m)
          BY <3>1
        <4>2. CASE m \in Commands /\ ResolveSection(s, m) /\ LockFree
          BY <2>3, <4>1, <4>2 DEF Receive, LockFree
        <4>3. CASE UNCHANGED future
          BY <4>3 DEF ThroughOwner
        <4>4. QED
          BY <4>1, <4>2, <4>3 DEF Receive, HandlerWaits, TouchSection
      <3>2. CASE TouchGranted(s)
        <4>1. inbox[s] \in Commands \cup {NoCommand} /\ holder = NoCall
              /\ pc[s] = "touchWait"
          BY <2>1, <3>2 DEF TouchGranted, FirstInLine, TypeOK
        <4>2. CASE inbox[s] \in Commands /\ ResolveSection(s, inbox[s])
          BY <2>3, <4>1, <4>2
        <4>3. CASE UNCHANGED future
          BY <4>3 DEF ThroughOwner
        <4>4. QED
          BY <3>2, <4>1, <4>2, <4>3 DEF TouchGranted, TouchSection
      <3>3. CASE ResolveGranted(s)
        <4>1. inbox[s] \in Commands /\ holder = NoCall /\ pc[s] = "resolveWait"
          BY <2>1, <3>3 DEF ResolveGranted, Granted, FirstInLine, InboxHeld
        <4>2. QED
          BY <2>3, <3>3, <4>1 DEF ResolveGranted
      <3>4. CASE RemoveSection(s)
        BY <2>1, <3>4 DEF RemoveSection, ThroughOwner, TypeOK
      <3>5. CASE UNCHANGED future
        BY <3>5 DEF ThroughOwner
      <3>6. QED
        BY <2>4, <3>1, <3>2, <3>3, <3>4, <3>5
           DEF SessionStep, StartReplace, Replace, ReplaceGranted, ReplaceSection, Swap,
               SwapGranted, SwapSection, CancelDrain, CancelGranted, CancelSection,
               CancelReplace, CancelClose, CancelHandler, ClosePrevious, HelloAck, Leave,
               Remove, RemoveGranted, Expire, HandlerWaits
    <2>5. QED
      BY <2>2, <2>4 DEF Next
  <1>2. QED
    BY <1>1, Invariance, PTL DEF Spec, ResultThroughOwner

-----------------------------------------------------------------------------
(* Answers and the cache                                                    *)

(* A call waits for a future of its own command; an answer, given, about to *)
(* be given or kept, comes from one.                                        *)
WaitOwn == \A c \in Calls : waitsOn[c] # NoCall => callKey[waitsOn[c]] = callKey[c]

FinishOwn ==
  \A c \in Calls : callPc[c] = "finish" =>
    answer[c] \in Answers /\ answer[c].from = waitsOn[c]

CacheOwn ==
  \A k \in Keys : completed[k] # NoAnswer =>
    completed[k].from \in Calls /\ callKey[completed[k].from] = k

AnswerOwn ==
  \A c \in Calls : answer[c] # NoAnswer /\ answer[c].from # NoCall =>
    callKey[answer[c].from] = callKey[c]

OwnKey == WaitOwn /\ FinishOwn /\ CacheOwn /\ AnswerOwn

(* Nobody joins a call before it has sent.                                  *)
JoinSent ==
  \A c, d \in Calls : waitsOn[d] = c /\ d # c => callPc[c] \notin {"idle", "enter", "sending"}

(* The eviction order lists each cached key once.                           *)
Cached == {k \in Keys : completed[k] # NoAnswer}
Ordered == {order[n] : n \in DOMAIN order}

OrderInv ==
  /\ Len(order) <= CompletedCap
  /\ Cached = Ordered
  /\ \A m, n \in DOMAIN order : order[m] = order[n] => m = n

(* While nothing is evicted, a command that is under way or was sent is in  *)
(* the table or in the cache, never in both, with its fingerprint.          *)
InTable ==
  \A k \in Keys : pending[k] # NoCall =>
    completed[k] = NoAnswer /\ fingerprint[k] = callFp[pending[k]]

InCache == \A k \in Keys : completed[k] # NoAnswer => fingerprint[k] = callFp[completed[k].from]

UnderWay == {"sending", "waiting", "finish"}

UnderWayKnown ==
  \A c \in Calls : callPc[c] \in UnderWay =>
    pending[callKey[c]] = waitsOn[c] \/ completed[callKey[c]] # NoAnswer

UnderWayBody ==
  \A c \in Calls : callPc[c] \in UnderWay => fingerprint[callKey[c]] = callFp[c]

SentKnown ==
  \A c \in Calls : sent[c] => pending[callKey[c]] = c \/ completed[callKey[c]] # NoAnswer

WaitBody == \A c \in Calls : waitsOn[c] # NoCall => callFp[waitsOn[c]] = callFp[c]

AnswerBody ==
  \A c \in Calls : answer[c] # NoAnswer /\ answer[c].from # NoCall =>
    callFp[answer[c].from] = callFp[c]

OnceInv ==
  \A c, d \in Calls : sent[c] /\ sent[d] /\ callKey[c] = callKey[d] => c = d

Known ==
  /\ InTable /\ InCache /\ UnderWayKnown /\ UnderWayBody
  /\ SentKnown /\ WaitBody /\ AnswerBody /\ OnceInv

KnownInv == CacheFits => Known

AnswerInv == IInv /\ OwnKey /\ JoinSent /\ OrderInv /\ KnownInv

(* The body of a command never changes, so the cache has room or has not.   *)
LEMMA SameCalls ==
  ASSUME UNCHANGED <<callKey, callFp>>
  PROVE  CacheFits' = CacheFits
BY DEF CacheFits

(* A handler of a websocket touches no table, no cache and no call.         *)
LEMMA SessionTables ==
  ASSUME TypeOK, NEW s \in Sessions, SessionStep(s)
  PROVE  UNCHANGED <<pending, fingerprint, completed, order, holder, callVars>>
<1>1. CASE \/ StartReplace(s) \/ ClosePrevious(s) \/ HelloAck(s) \/ Leave(s) \/ Expire(s)
           \/ CancelReplace(s) \/ CancelClose(s) \/ CancelHandler(s)
  BY <1>1 DEF StartReplace, ClosePrevious, HelloAck, Leave, Expire, CancelReplace, CancelClose,
     CancelHandler, registryVars, lockVars
<1>2. CASE ReplaceSection(s) \/ SwapSection(s) \/ CancelSection(s)
  BY <1>2 DEF ReplaceSection, SwapSection, CancelSection
<1>3. CASE RemoveSection(s)
  BY <1>3 DEF RemoveSection
<1>4. CASE \E label : HandlerWaits(s, label)
  BY <1>4 DEF HandlerWaits, registryVars
<1>5. CASE \E m, queue : TouchSection(s, m, queue)
  BY <1>5 DEF TouchSection, registryVars
<1>6. CASE ResolveGranted(s)
  BY <1>6 DEF ResolveGranted, registryVars
<1> QED
  BY <1>1, <1>2, <1>3, <1>4, <1>5, <1>6
     DEF SessionStep, Replace, ReplaceGranted, Swap, SwapGranted, CancelDrain,
         CancelGranted, Receive, TouchGranted, Remove, RemoveGranted

(* Such a step keeps the invariant of the answers.                          *)
LEMMA TablesKept ==
  ASSUME AnswerInv, IInv',
         UNCHANGED <<pending, fingerprint, completed, order, holder, callVars>>
  PROVE  AnswerInv'
<1>1. UNCHANGED <<callPc, callKey, callFp, waitsOn, answer, owner, sent>>  BY DEF callVars
<1>2. CacheFits' = CacheFits  BY <1>1, SameCalls
<1>3. OwnKey' /\ JoinSent' /\ OrderInv'
  BY <1>1 DEF AnswerInv, OwnKey, WaitOwn, FinishOwn, CacheOwn, AnswerOwn, JoinSent, OrderInv,
     Cached, Ordered
<1>4. Known => Known'
  BY <1>1 DEF Known, InTable, InCache, UnderWayKnown, UnderWayBody, SentKnown,
     WaitBody, AnswerBody, OnceInv
<1> QED  BY <1>2, <1>3, <1>4 DEF AnswerInv, KnownInv

(* Refusing: the answer is a refusal, or the one the cache keeps.           *)
LEMMA RefuseAnswer ==
  ASSUME AnswerInv, NEW c \in Calls, callPc[c] \in {"idle", "enter"},
         Refuse(c), UNCHANGED <<callKey, callFp, sent, completed, order>>
  PROVE  OwnKey' /\ JoinSent' /\ OrderInv' /\ KnownInv'
<1>1. TypeOK  BY DEF AnswerInv, IInv
<1>2. /\ callPc' = [callPc EXCEPT ![c] = "done"]
      /\ UNCHANGED <<pending, fingerprint, waitsOn>>
  BY DEF Refuse, Refusal, Return
<1>3. PICK a :
        /\ answer' = [answer EXCEPT ![c] = a]
        /\ \/ \E st \in Statuses : a = [status |-> st, from |-> NoCall]
           \/ ~Conflicting(c) /\ completed[callKey[c]] # NoAnswer /\ a = completed[callKey[c]]
  BY DEF Refuse, Refusal, Return, Statuses
<1>4. CacheFits' = CacheFits  BY SameCalls
<1>5. OrderInv'  BY DEF AnswerInv, OrderInv, Cached, Ordered
<1>6. JoinSent'
  BY <1>1, <1>2 DEF AnswerInv, JoinSent, TypeOK
<1>7. a.from # NoCall => callKey[a.from] = callKey[c] /\ (CacheFits => callFp[a.from] = callFp[c])
  <2>1. CASE \E st \in Statuses : a = [status |-> st, from |-> NoCall]  BY <2>1
  <2>2. CASE ~Conflicting(c) /\ completed[callKey[c]] # NoAnswer /\ a = completed[callKey[c]]
    <3>1. callKey[c] \in Keys /\ callFp[c] \in Fingerprints  BY <1>1 DEF TypeOK
    <3>2. a.from \in Calls /\ callKey[a.from] = callKey[c]
      BY <2>2, <3>1 DEF AnswerInv, OwnKey, CacheOwn
    <3>3. CacheFits => fingerprint[callKey[c]] = callFp[a.from]
      BY <2>2, <3>1 DEF AnswerInv, KnownInv, Known, InCache
    <3>4. fingerprint[callKey[c]] \in {NoFingerprint, callFp[c]}  BY <2>2 DEF Conflicting
    <3>5. callFp[a.from] \in Fingerprints  BY <1>1, <3>2 DEF TypeOK
    <3> QED  BY <3>2, <3>3, <3>4, <3>5, RegistryAssumption
  <2> QED  BY <1>3, <2>1, <2>2
<1>8. OwnKey'
  <2>1. WaitOwn' /\ CacheOwn'  BY <1>2 DEF AnswerInv, OwnKey, WaitOwn, CacheOwn
  <2>2. FinishOwn'  BY <1>1, <1>2, <1>3 DEF AnswerInv, OwnKey, FinishOwn, TypeOK
  <2>3. AnswerOwn'  BY <1>1, <1>3, <1>7 DEF AnswerInv, OwnKey, AnswerOwn, TypeOK
  <2> QED  BY <2>1, <2>2, <2>3 DEF OwnKey
<1>9. KnownInv'
  <2> SUFFICES ASSUME CacheFits PROVE Known'  BY <1>4 DEF KnownInv
  <2>1. Known  BY DEF AnswerInv, KnownInv
  <2>2. InTable' /\ InCache' /\ SentKnown' /\ WaitBody' /\ OnceInv'
    BY <1>2, <2>1 DEF Known, InTable, InCache, SentKnown, WaitBody, OnceInv
  <2>3. UnderWayKnown' /\ UnderWayBody'
    BY <1>1, <1>2, <2>1 DEF Known, UnderWayKnown, UnderWayBody, UnderWay, TypeOK
  <2>4. AnswerBody'  BY <1>1, <1>3, <1>7, <2>1 DEF Known, AnswerBody, TypeOK
  <2> QED  BY <2>2, <2>3, <2>4 DEF Known
<1> QED  BY <1>5, <1>6, <1>8, <1>9

(* Joining a command that was sent.                                         *)
LEMMA JoinAnswer ==
  ASSUME AnswerInv, NEW c \in Calls, callPc[c] \in {"idle", "enter"}, holder = NoCall,
         Join(c), UNCHANGED <<callKey, callFp, sent, completed, order>>
  PROVE  OwnKey' /\ JoinSent' /\ OrderInv' /\ KnownInv'
<1> DEFINE k == callKey[c]
           p == pending[k]
<1>1. TypeOK /\ CallInv  BY DEF AnswerInv, IInv
<1>2. /\ k \in Keys /\ p \in Calls /\ p # NoCall
      /\ ~Conflicting(c)
      /\ waitsOn' = [waitsOn EXCEPT ![c] = p]
      /\ callPc' = [callPc EXCEPT ![c] = "waiting"]
      /\ UNCHANGED <<pending, fingerprint, answer>>
  BY <1>1 DEF Join, Admitted, TypeOK
<1>3. callKey[p] = k  BY <1>1, <1>2 DEF CallInv, TableKeyed
<1>4. callPc[p] \notin {"idle", "enter", "sending"}
  <2>1. sent[p]  BY <1>1, <1>2 DEF CallInv, UnsentIsHeld
  <2> QED  BY <1>1, <1>2, <2>1 DEF CallInv, SentTracked
<1>5. CacheFits' = CacheFits  BY SameCalls
<1> HIDE DEF k, p
<1>6. OrderInv'  BY DEF AnswerInv, OrderInv, Cached, Ordered
<1>7. JoinSent'
  <2> SUFFICES ASSUME NEW e \in Calls, NEW d \in Calls, waitsOn'[d] = e, d # e
               PROVE  callPc'[e] \notin {"idle", "enter", "sending"}
    BY DEF JoinSent
  <2>1. CASE d = c
    <3>1. e = p  BY <1>1, <1>2, <2>1 DEF TypeOK
    <3> QED  BY <1>1, <1>2, <1>4, <3>1 DEF TypeOK
  <2>2. CASE d # c
    <3>1. waitsOn[d] = e  BY <1>1, <1>2, <2>2 DEF TypeOK
    <3>2. callPc[e] \notin {"idle", "enter", "sending"}  BY <3>1 DEF AnswerInv, JoinSent
    <3> QED  BY <1>1, <1>2, <3>2 DEF TypeOK
  <2> QED  BY <2>1, <2>2
<1>8. OwnKey'
  <2>1. CacheOwn' /\ AnswerOwn'  BY <1>2 DEF AnswerInv, OwnKey, CacheOwn, AnswerOwn
  <2>2. WaitOwn'
    BY <1>1, <1>2, <1>3 DEF AnswerInv, OwnKey, WaitOwn, TypeOK, k
  <2>3. FinishOwn'
    BY <1>1, <1>2 DEF AnswerInv, OwnKey, FinishOwn, TypeOK
  <2> QED  BY <2>1, <2>2, <2>3 DEF OwnKey
<1>9. KnownInv'
  <2> SUFFICES ASSUME CacheFits PROVE Known'  BY <1>5 DEF KnownInv
  <2>1. Known  BY DEF AnswerInv, KnownInv
  <2>2. InTable' /\ InCache' /\ SentKnown' /\ AnswerBody' /\ OnceInv'
    BY <1>2, <2>1 DEF Known, InTable, InCache, SentKnown, AnswerBody, OnceInv
  <2>3. UnderWayKnown'
    BY <1>1, <1>2, <2>1 DEF Known, UnderWayKnown, UnderWay, TypeOK, k, p
  <2>4. callFp[p] = callFp[c]
    <3>1. fingerprint[k] = callFp[p]  BY <1>2, <2>1 DEF Known, InTable, p
    <3>2. fingerprint[k] \in {NoFingerprint, callFp[c]}  BY <1>2 DEF Conflicting, k
    <3>3. callFp[p] \in Fingerprints  BY <1>1, <1>2 DEF TypeOK
    <3> QED  BY <3>1, <3>2, <3>3, RegistryAssumption
  <2>5. WaitBody'  BY <1>1, <1>2, <2>1, <2>4 DEF Known, WaitBody, TypeOK
  <2>6. fingerprint[k] = callFp[c]  BY <1>2, <2>1, <2>4 DEF Known, InTable, p
  <2>7. UnderWayBody'
    BY <1>1, <1>2, <2>1, <2>6 DEF Known, UnderWayBody, UnderWay, TypeOK, k
  <2> QED  BY <2>2, <2>3, <2>5, <2>7 DEF Known
<1> QED  BY <1>6, <1>7, <1>8, <1>9

(* A new command: nobody is under way for it, and none was sent for it.     *)
LEMMA BeginSendAnswer ==
  ASSUME AnswerInv, NEW c \in Calls, callPc[c] \in {"idle", "enter"}, holder = NoCall,
         BeginSend(c), UNCHANGED <<callKey, callFp, sent, completed, order>>
  PROVE  OwnKey' /\ JoinSent' /\ OrderInv' /\ KnownInv'
<1> DEFINE k == callKey[c]
<1>1. TypeOK /\ CallInv  BY DEF AnswerInv, IInv
<1>2. /\ k \in Keys /\ c # NoCall /\ ~sent[c]
      /\ pending[k] = NoCall /\ completed[k] = NoAnswer
      /\ pending' = [pending EXCEPT ![k] = c]
      /\ fingerprint' = [fingerprint EXCEPT ![k] = callFp[c]]
      /\ waitsOn' = [waitsOn EXCEPT ![c] = c]
      /\ callPc' = [callPc EXCEPT ![c] = "sending"]
      /\ UNCHANGED answer
  BY <1>1, RegistryAssumption DEF BeginSend, Admitted, TypeOK, CallInv, SentTracked, Tasks
<1>3. \A d \in Calls : waitsOn[d] = c => d = c
  BY DEF AnswerInv, JoinSent
<1>4. CacheFits' = CacheFits  BY SameCalls
<1>5. OrderInv'  BY DEF AnswerInv, OrderInv, Cached, Ordered
<1>6. JoinSent'
  <2> SUFFICES ASSUME NEW e \in Calls, NEW d \in Calls, waitsOn'[d] = e, d # e
               PROVE  callPc'[e] \notin {"idle", "enter", "sending"}
    BY DEF JoinSent
  <2>1. d # c  BY <1>1, <1>2 DEF TypeOK
  <2>2. waitsOn[d] = e  BY <1>1, <1>2, <2>1 DEF TypeOK
  <2>3. e # c  BY <1>3, <2>1, <2>2
  <2>4. callPc[e] \notin {"idle", "enter", "sending"}  BY <2>2 DEF AnswerInv, JoinSent
  <2> QED  BY <1>1, <1>2, <2>3, <2>4 DEF TypeOK
<1>7. OwnKey'
  <2>1. CacheOwn' /\ AnswerOwn'  BY <1>2 DEF AnswerInv, OwnKey, CacheOwn, AnswerOwn
  <2>2. WaitOwn'  BY <1>1, <1>2 DEF AnswerInv, OwnKey, WaitOwn, TypeOK
  <2>3. FinishOwn'  BY <1>1, <1>2 DEF AnswerInv, OwnKey, FinishOwn, TypeOK
  <2> QED  BY <2>1, <2>2, <2>3 DEF OwnKey
<1>8. KnownInv'
  <2> SUFFICES ASSUME CacheFits PROVE Known'  BY <1>4 DEF KnownInv
  <2>1. Known  BY DEF AnswerInv, KnownInv
  <2>2. \A d \in Calls : callKey[d] = k => callPc[d] \notin UnderWay /\ ~sent[d]
    <3> SUFFICES ASSUME NEW d \in Calls, callKey[d] = k
                 PROVE  callPc[d] \notin UnderWay /\ ~sent[d]
      OBVIOUS
    <3>1. ASSUME callPc[d] \in UnderWay PROVE FALSE
      <4>1. waitsOn[d] \in Calls  BY <1>1, <3>1 DEF CallInv, WaitBound, UnderWay
      <4>2. pending[k] = waitsOn[d]  BY <1>2, <2>1, <3>1 DEF Known, UnderWayKnown
      <4> QED  BY <1>2, <4>1, <4>2, RegistryAssumption DEF Tasks
    <3>2. ASSUME sent[d] PROVE FALSE
      <4>1. pending[k] = d  BY <1>2, <2>1, <3>2 DEF Known, SentKnown
      <4> QED  BY <1>2, <4>1, RegistryAssumption DEF Tasks
    <3> QED  BY <3>1, <3>2
  <2>3. InTable'
    BY <1>1, <1>2, <2>1 DEF Known, InTable, TypeOK
  <2>4. InCache'
    BY <1>1, <1>2, <2>1 DEF Known, InCache, TypeOK
  <2>5. UnderWayKnown'
    <3> SUFFICES ASSUME NEW d \in Calls, callPc'[d] \in UnderWay
                 PROVE  pending'[callKey[d]] = waitsOn'[d] \/ completed[callKey[d]] # NoAnswer
      BY DEF UnderWayKnown
    <3>1. CASE d = c  BY <1>1, <1>2, <3>1 DEF TypeOK
    <3>2. CASE d # c
      <4>1. callPc[d] \in UnderWay /\ waitsOn'[d] = waitsOn[d]  BY <1>1, <1>2, <3>2 DEF TypeOK
      <4>2. callKey[d] # k  BY <2>2, <4>1
      <4>3. pending'[callKey[d]] = pending[callKey[d]]  BY <1>1, <1>2, <4>2 DEF TypeOK
      <4> QED  BY <2>1, <4>1, <4>3 DEF Known, UnderWayKnown
    <3> QED  BY <3>1, <3>2
  <2>9. UnderWayBody'
    <3> SUFFICES ASSUME NEW d \in Calls, callPc'[d] \in UnderWay
                 PROVE  fingerprint'[callKey[d]] = callFp[d]
      BY DEF UnderWayBody
    <3>1. CASE d = c  BY <1>1, <1>2, <3>1 DEF TypeOK
    <3>2. CASE d # c
      <4>1. callPc[d] \in UnderWay  BY <1>1, <1>2, <3>2 DEF TypeOK
      <4>2. callKey[d] # k  BY <2>2, <4>1
      <4>3. fingerprint'[callKey[d]] = fingerprint[callKey[d]]  BY <1>1, <1>2, <4>2 DEF TypeOK
      <4> QED  BY <2>1, <4>1, <4>3 DEF Known, UnderWayBody
    <3> QED  BY <3>1, <3>2
  <2>6. SentKnown'
    BY <1>1, <1>2, <2>1, <2>2 DEF Known, SentKnown, TypeOK
  <2>7. WaitBody'  BY <1>1, <1>2, <2>1 DEF Known, WaitBody, TypeOK
  <2>8. AnswerBody' /\ OnceInv'  BY <1>2, <2>1 DEF Known, AnswerBody, OnceInv
  <2> QED  BY <2>3, <2>4, <2>5, <2>6, <2>7, <2>8, <2>9 DEF Known
<1> QED  BY <1>5, <1>6, <1>7, <1>8

(* Entering dispatch, at once or from the queue.                            *)
LEMMA DispatchAnswer ==
  ASSUME AnswerInv, NEW c \in Calls, Dispatch(c) \/ DispatchGranted(c)
  PROVE  OwnKey' /\ JoinSent' /\ OrderInv' /\ KnownInv'
<1>1. CASE DispatchSection(c) /\ (LockFree \/ Granted(c))
  <2>1. /\ callPc[c] \in {"idle", "enter"}
        /\ UNCHANGED <<callKey, callFp, sent, completed, order>>
    BY <1>1 DEF Dispatch, DispatchGranted, DispatchSection
  <2>2. holder = NoCall  BY <1>1 DEF LockFree, Granted, FirstInLine
  <2> QED
    BY <1>1, <2>1, <2>2, RefuseAnswer, JoinAnswer, BeginSendAnswer DEF DispatchSection
<1>2. CASE /\ callPc[c] = "idle"
           /\ callPc' = [callPc EXCEPT ![c] = "enter"]
           /\ UNCHANGED <<registryVars, callKey, callFp, waitsOn, answer, sent>>
  <2>1. TypeOK  BY DEF AnswerInv, IInv
  <2>2. UNCHANGED <<pending, fingerprint, completed, order>>  BY <1>2 DEF registryVars
  <2>3. CacheFits' = CacheFits  BY <1>2, SameCalls
  <2>4. OwnKey'
    BY <1>2, <2>1, <2>2 DEF AnswerInv, OwnKey, WaitOwn, FinishOwn, CacheOwn, AnswerOwn, TypeOK
  <2>5. JoinSent'
    BY <1>2, <2>1 DEF AnswerInv, JoinSent, TypeOK
  <2>6. OrderInv'  BY <2>2 DEF AnswerInv, OrderInv, Cached, Ordered
  <2>7. Known => Known'
    BY <1>2, <2>1, <2>2 DEF Known, InTable, InCache, UnderWayKnown, UnderWayBody, SentKnown,
       WaitBody, AnswerBody, OnceInv, UnderWay, TypeOK
  <2> QED  BY <2>3, <2>4, <2>5, <2>6, <2>7 DEF AnswerInv, KnownInv
<1> QED  BY <1>1, <1>2 DEF Dispatch, DispatchGranted

(* The end of a send.  A call that fails leaves the table as it found it:   *)
(* nobody waits for it, nobody is under way for its command.                *)
LEMMA SendAnswer ==
  ASSUME AnswerInv, NEW c \in Calls, SendOk(c) \/ SendFail(c)
  PROVE  OwnKey' /\ JoinSent' /\ OrderInv' /\ KnownInv'
<1> DEFINE k == callKey[c]
<1>1. TypeOK /\ CallInv  BY DEF AnswerInv, IInv
<1>2. /\ k \in Keys /\ c # NoCall /\ ~sent[c]
      /\ pending[k] = c /\ waitsOn[c] = c /\ callPc[c] = "sending"
      /\ UNCHANGED <<callKey, callFp, waitsOn, completed, order>>
  BY <1>1, RegistryAssumption
     DEF SendOk, SendFail, TypeOK, CallInv, HolderSends, WaitBound, SentTracked, registryVars, Tasks
<1>3. \A d \in Calls : waitsOn[d] = c => d = c
  BY <1>2 DEF AnswerInv, JoinSent
<1>4. CacheFits' = CacheFits  BY <1>2, SameCalls
<1>5. OrderInv'  BY <1>2 DEF AnswerInv, OrderInv, Cached, Ordered
<1>6. CASE SendOk(c)
  <2>1. /\ sent' = [sent EXCEPT ![c] = TRUE]
        /\ callPc' = [callPc EXCEPT ![c] = "waiting"]
        /\ UNCHANGED <<pending, fingerprint, answer>>
    BY <1>6 DEF SendOk, registryVars
  <2>2. OwnKey'
    BY <1>1, <1>2, <2>1 DEF AnswerInv, OwnKey, WaitOwn, FinishOwn, CacheOwn, AnswerOwn, TypeOK
  <2>3. JoinSent'
    BY <1>1, <1>2, <1>3, <2>1 DEF AnswerInv, JoinSent, TypeOK
  <2>4. KnownInv'
    <3> SUFFICES ASSUME CacheFits PROVE Known'  BY <1>4 DEF KnownInv
    <3>1. Known  BY DEF AnswerInv, KnownInv
    <3>2. InTable' /\ InCache' /\ WaitBody' /\ AnswerBody'
      BY <1>2, <2>1, <3>1 DEF Known, InTable, InCache, WaitBody, AnswerBody
    <3>3. UnderWayKnown' /\ UnderWayBody'
      BY <1>1, <1>2, <2>1, <3>1 DEF Known, UnderWayKnown, UnderWayBody, UnderWay, TypeOK
    <3>4. \A d \in Calls : sent'[d] <=> sent[d] \/ d = c
      BY <1>1, <2>1 DEF TypeOK
    <3>5. SentKnown'
      BY <1>2, <2>1, <3>1, <3>4 DEF Known, SentKnown
    <3>6. \A d \in Calls : sent[d] => callKey[d] # k
      <4> SUFFICES ASSUME NEW d \in Calls, sent[d], callKey[d] = k PROVE FALSE  OBVIOUS
      <4>1. d # c  BY <1>2
      <4>2. completed[k] # NoAnswer  BY <1>2, <3>1, <4>1 DEF Known, SentKnown
      <4> QED  BY <1>2, <3>1, <4>2 DEF Known, InTable
    <3>7. OnceInv'
      BY <1>2, <3>1, <3>4, <3>6 DEF Known, OnceInv
    <3> QED  BY <3>2, <3>3, <3>5, <3>7 DEF Known
  <2> QED  BY <1>5, <2>2, <2>3, <2>4
<1>7. CASE SendFail(c)
  <2>1. /\ pending' = [pending EXCEPT ![k] = NoCall]
        /\ fingerprint' = [fingerprint EXCEPT ![k] = NoFingerprint]
        /\ callPc' = [callPc EXCEPT ![c] = "done"]
        /\ answer' = [answer EXCEPT ![c] = [status |-> "stale_session", from |-> NoCall]]
        /\ UNCHANGED sent
    BY <1>7 DEF SendFail, Refusal, Return
  <2>2. OwnKey'
    <3>1. WaitOwn' /\ CacheOwn'  BY <1>2 DEF AnswerInv, OwnKey, WaitOwn, CacheOwn
    <3>2. FinishOwn'  BY <1>1, <1>2, <2>1 DEF AnswerInv, OwnKey, FinishOwn, TypeOK
    <3>3. AnswerOwn'  BY <1>1, <1>2, <2>1 DEF AnswerInv, OwnKey, AnswerOwn, TypeOK
    <3> QED  BY <3>1, <3>2, <3>3 DEF OwnKey
  <2>3. JoinSent'
    BY <1>1, <1>2, <1>3, <2>1 DEF AnswerInv, JoinSent, TypeOK
  <2>4. KnownInv'
    <3> SUFFICES ASSUME CacheFits PROVE Known'  BY <1>4 DEF KnownInv
    <3>1. Known  BY DEF AnswerInv, KnownInv
    <3>2. completed[k] = NoAnswer  BY <1>2, <3>1 DEF Known, InTable
    <3>3. InTable'
      BY <1>1, <1>2, <2>1, <3>1 DEF Known, InTable, TypeOK
    <3>4. InCache'
      BY <1>1, <1>2, <2>1, <3>1, <3>2 DEF Known, InCache, TypeOK
    <3>5. UnderWayKnown'
      <4> SUFFICES ASSUME NEW d \in Calls, callPc'[d] \in UnderWay
                   PROVE  pending'[callKey[d]] = waitsOn[d] \/ completed[callKey[d]] # NoAnswer
        BY <1>2 DEF UnderWayKnown
      <4>1. d # c /\ callPc[d] \in UnderWay  BY <1>1, <2>1 DEF TypeOK, UnderWay
      <4>2. waitsOn[d] # c  BY <1>3, <4>1
      <4>3. pending[callKey[d]] = waitsOn[d] \/ completed[callKey[d]] # NoAnswer
        BY <3>1, <4>1 DEF Known, UnderWayKnown
      <4>4. callKey[d] # k => pending'[callKey[d]] = pending[callKey[d]]
        BY <1>1, <2>1 DEF TypeOK
      <4> QED  BY <1>2, <4>2, <4>3, <4>4
    <3>9. UnderWayBody'
      <4> SUFFICES ASSUME NEW d \in Calls, callPc'[d] \in UnderWay
                   PROVE  fingerprint'[callKey[d]] = callFp[d]
        BY <1>2 DEF UnderWayBody
      <4>1. d # c /\ callPc[d] \in UnderWay  BY <1>1, <2>1 DEF TypeOK, UnderWay
      <4>2. waitsOn[d] # c  BY <1>3, <4>1
      <4>3. pending[callKey[d]] = waitsOn[d] \/ completed[callKey[d]] # NoAnswer
        BY <3>1, <4>1 DEF Known, UnderWayKnown
      <4>4. callKey[d] # k  BY <1>2, <3>2, <4>2, <4>3
      <4>5. fingerprint'[callKey[d]] = fingerprint[callKey[d]]
        BY <1>1, <2>1, <4>4 DEF TypeOK
      <4> QED  BY <3>1, <4>1, <4>5 DEF Known, UnderWayBody
    <3>6. SentKnown'
      <4> SUFFICES ASSUME NEW d \in Calls, sent[d]
                   PROVE  pending'[callKey[d]] = d \/ completed[callKey[d]] # NoAnswer
        BY <1>2, <2>1 DEF SentKnown
      <4>1. d # c  BY <1>2
      <4>2. pending[callKey[d]] = d \/ completed[callKey[d]] # NoAnswer
        BY <3>1 DEF Known, SentKnown
      <4>3. callKey[d] # k => pending'[callKey[d]] = pending[callKey[d]]
        BY <1>1, <2>1 DEF TypeOK
      <4> QED  BY <1>2, <4>1, <4>2, <4>3
    <3>7. WaitBody' /\ OnceInv'  BY <1>2, <2>1, <3>1 DEF Known, WaitBody, OnceInv
    <3>8. AnswerBody'  BY <1>1, <1>2, <2>1, <3>1 DEF Known, AnswerBody, TypeOK
    <3> QED  BY <3>3, <3>4, <3>5, <3>6, <3>7, <3>8, <3>9 DEF Known
  <2> QED  BY <1>5, <2>2, <2>3, <2>4
<1> QED  BY <1>6, <1>7

(* The order with a key put last, if it is not there.                       *)
LEMMA NewestFacts ==
  ASSUME TypeOK, OrderInv, NEW k \in Keys
  PROVE  LET keys == Newest(k) IN
         /\ keys \in Seq(Keys) /\ Len(keys) \in Nat /\ DOMAIN keys = 1..Len(keys)
         /\ Len(keys) <= CompletedCap + 1
         /\ keys # <<>>
         /\ {keys[n] : n \in DOMAIN keys} = Cached \cup {k}
         /\ \A m, n \in DOMAIN keys : keys[m] = keys[n] => m = n
<1> DEFINE keys == Newest(k)
<1>1. /\ order \in Seq(Keys) /\ Len(order) \in Nat /\ DOMAIN order = 1..Len(order)
      /\ Len(order) <= CompletedCap /\ CompletedCap \in Nat
      /\ {order[n] : n \in DOMAIN order} = Cached
      /\ \A m, n \in DOMAIN order : order[m] = order[n] => m = n
  BY LenProperties, RegistryAssumption DEF TypeOK, OrderInv, Ordered
<1>2. CASE completed[k] = NoAnswer
  <2>1. keys = Append(order, k)  BY <1>2 DEF Newest
  <2>2. /\ keys \in Seq(Keys) /\ keys # <<>> /\ Len(keys) = Len(order) + 1
        /\ \A n \in 1..Len(order) : keys[n] = order[n]
        /\ keys[Len(order) + 1] = k
    BY <1>1, <2>1, AppendProperties
  <2>3. DOMAIN keys = 1..Len(order) + 1  BY <2>2, LenProperties
  <2>4. \A n \in 1..Len(order) : order[n] # k
    <3>1. k \notin Cached  BY <1>2 DEF Cached
    <3> QED  BY <1>1, <3>1
  <2> HIDE DEF keys
  <2>5. \A n \in DOMAIN keys : n \in 1..Len(order) \/ n = Len(order) + 1  BY <1>1, <2>3
  <2>6. \A m, n \in DOMAIN keys : keys[m] = keys[n] => m = n
    BY <1>1, <2>2, <2>4, <2>5
  <2>7. {keys[n] : n \in DOMAIN keys} = Cached \cup {k}
    <3>1. ASSUME NEW n \in DOMAIN keys PROVE keys[n] \in Cached \cup {k}
      BY <1>1, <2>2, <2>5, <3>1
    <3>2. ASSUME NEW j \in Cached \cup {k} PROVE j \in {keys[n] : n \in DOMAIN keys}
      <4>1. CASE j \in Cached
        <5>1. PICK n \in 1..Len(order) : order[n] = j  BY <1>1, <4>1
        <5>2. n \in DOMAIN keys /\ keys[n] = j  BY <1>1, <2>2, <2>3, <5>1
        <5> QED  BY <5>2
      <4>2. CASE j = k
        <5>1. Len(order) + 1 \in DOMAIN keys  BY <1>1, <2>3
        <5> QED  BY <2>2, <4>2, <5>1
      <4> QED  BY <3>2, <4>1, <4>2
    <3> QED  BY <3>1, <3>2
  <2> QED  BY <1>1, <2>2, <2>3, <2>6, <2>7 DEF keys
<1>3. CASE completed[k] # NoAnswer
  <2>1. keys = order  BY <1>3 DEF Newest
  <2>2. k \in Cached  BY <1>3 DEF Cached
  <2>3. keys # <<>>  BY <1>1, <2>1, <2>2
  <2>4. Cached = Cached \cup {k}  BY <2>2
  <2> QED  BY <1>1, <2>1, <2>3, <2>4
<1> QED  BY <1>2, <1>3

(* The last section keeps the order in step with the cache.                 *)
LEMMA FinishOrder ==
  ASSUME TypeOK, OrderInv, NEW c \in Calls, NEW a, a # NoAnswer, FinishSection(c, a)
  PROVE  OrderInv'
<1> DEFINE k == callKey[c]
           keys == Newest(k)
           kept == [completed EXCEPT ![k] = a]
<1>1. k \in Keys /\ CompletedCap \in Nat  BY RegistryAssumption DEF TypeOK
<1>2. /\ keys \in Seq(Keys) /\ Len(keys) \in Nat /\ DOMAIN keys = 1..Len(keys)
      /\ Len(keys) <= CompletedCap + 1
      /\ keys # <<>>
      /\ {keys[n] : n \in DOMAIN keys} = Cached \cup {k}
      /\ \A m, n \in DOMAIN keys : keys[m] = keys[n] => m = n
  BY <1>1, NewestFacts
<1>3. \A j \in Keys : kept[j] # NoAnswer <=> j \in Cached \cup {k}
  BY <1>1 DEF TypeOK, Cached
<1>4. \/ /\ Len(keys) <= CompletedCap
         /\ completed' = kept /\ order' = keys
      \/ /\ Len(keys) > CompletedCap
         /\ completed' = [kept EXCEPT ![Head(keys)] = NoAnswer]
         /\ order' = Tail(keys)
  BY DEF FinishSection
<1>5. \A j \in Cached \cup {k} : j \in Keys  BY <1>1 DEF Cached
<1>6. kept \in [Keys -> {kept[j] : j \in Keys}]  BY DEF TypeOK
<1> HIDE DEF keys, kept, k
<1>7. CASE /\ Len(keys) <= CompletedCap
           /\ completed' = kept /\ order' = keys
  <2>1. Cached' = Cached \cup {k}  BY <1>3, <1>5, <1>7 DEF Cached
  <2>2. Ordered' = Cached \cup {k}  BY <1>2, <1>7 DEF Ordered
  <2> QED  BY <1>2, <1>7, <2>1, <2>2 DEF OrderInv
<1>8. CASE /\ Len(keys) > CompletedCap
           /\ completed' = [kept EXCEPT ![Head(keys)] = NoAnswer]
           /\ order' = Tail(keys)
  <2> DEFINE n == Len(keys)
             h == Head(keys)
  <2>1. /\ Tail(keys) \in Seq(Keys) /\ Len(Tail(keys)) = n - 1
        /\ \A i \in 1..(n - 1) : Tail(keys)[i] = keys[i + 1]
        /\ h \in Keys
    BY <1>2, HeadTailProperties
  <2>2. DOMAIN Tail(keys) = 1..(n - 1)  BY <2>1, LenProperties
  <2>3. n >= 1 /\ h = keys[1]
    <3>1. n # 0  BY <1>2, EmptySeq
    <3> QED  BY <1>2, <3>1
  <2>4. \A i \in 1..(n - 1) : i + 1 \in DOMAIN keys  BY <1>2
  <2>5. \A i, j \in DOMAIN order' : order'[i] = order'[j] => i = j
    <3>1. ASSUME NEW i \in 1..(n - 1), NEW j \in 1..(n - 1), keys[i + 1] = keys[j + 1]
          PROVE  i = j
      <4>1. i + 1 = j + 1  BY <1>2, <2>4, <3>1
      <4> QED  BY <1>2, <4>1
    <3>2. \A i \in 1..(n - 1) : order'[i] = keys[i + 1]  BY <1>8, <2>1
    <3>3. DOMAIN order' = 1..(n - 1)  BY <1>8, <2>2
    <3> HIDE DEF n
    <3> QED  BY <3>1, <3>2, <3>3
  <2>6. Cached' = (Cached \cup {k}) \ {h}
    BY <1>3, <1>5, <1>6, <1>8, <2>1 DEF Cached
  <2>7. Ordered' = (Cached \cup {k}) \ {h}
    <3>1. Ordered' = {keys[i + 1] : i \in 1..(n - 1)}
      BY <1>8, <2>1, <2>2 DEF Ordered
    <3>2. ASSUME NEW i \in 1..(n - 1) PROVE keys[i + 1] \in (Cached \cup {k}) \ {h}
      <4>1. i + 1 \in DOMAIN keys /\ 1 \in DOMAIN keys /\ i + 1 # 1  BY <1>2, <2>3, <2>4
      <4> QED  BY <1>2, <2>3, <4>1
    <3>3. ASSUME NEW j \in (Cached \cup {k}) \ {h}
          PROVE  j \in {keys[i + 1] : i \in 1..(n - 1)}
      <4>1. PICK m \in DOMAIN keys : keys[m] = j  BY <1>2
      <4>2. m # 1  BY <2>3, <4>1
      <4>3. m - 1 \in 1..(n - 1) /\ (m - 1) + 1 = m  BY <1>2, <4>1, <4>2
      <4> QED  BY <4>1, <4>3
    <3> QED  BY <3>1, <3>2, <3>3
  <2>8. Len(order') <= CompletedCap  BY <1>1, <1>2, <1>8, <2>1
  <2> QED  BY <2>5, <2>6, <2>7, <2>8 DEF OrderInv
<1> QED  BY <1>4, <1>7, <1>8

(* A cache with room for every command of the behaviour evicts nothing.     *)
LEMMA NoEviction ==
  ASSUME TypeOK, OrderInv, CacheOwn, CacheFits, NEW c \in Calls
  PROVE  ~(Len(Newest(callKey[c])) > CompletedCap)
<1> DEFINE k == callKey[c]
           keys == Newest(k)
           used == {callKey[d] : d \in Calls}
<1>1. k \in Keys /\ k \in used /\ CompletedCap \in Nat  BY RegistryAssumption DEF TypeOK
<1>2. /\ keys \in Seq(Keys) /\ Len(keys) \in Nat /\ DOMAIN keys = 1..Len(keys)
      /\ {keys[n] : n \in DOMAIN keys} = Cached \cup {k}
      /\ \A m, n \in DOMAIN keys : keys[m] = keys[n] => m = n
  BY <1>1, NewestFacts
<1>3. \A j \in Cached : j \in used
  <2> SUFFICES ASSUME NEW j \in Cached PROVE j \in used  OBVIOUS
  <2>1. completed[j].from \in Calls /\ callKey[completed[j].from] = j
    BY DEF Cached, CacheOwn
  <2> QED  BY <2>1
<1>4. IsFiniteSet(used) /\ Cardinality(used) <= CompletedCap  BY DEF CacheFits
<1> HIDE DEF keys, used, k
<1>5. keys \in [1..Len(keys) -> used]
  <2>1. \A n \in 1..Len(keys) : keys[n] \in used  BY <1>1, <1>2, <1>3
  <2>2. keys \in [1..Len(keys) -> Keys]  BY <1>2, LenProperties
  <2> QED  BY <2>1, <2>2
<1>6. keys \in Injection(1..Len(keys), used)
  BY <1>2, <1>5 DEF Injection, IsInjective
<1>7. Cardinality(1..Len(keys)) <= Cardinality(used)
  BY <1>4, <1>6, FS_Injection
<1>8. Cardinality(1..Len(keys)) = Len(keys)
  BY <1>2, FS_Interval
<1>9. Cardinality(used) \in Nat  BY <1>4, FS_CardinalityType
<1> QED  BY <1>1, <1>2, <1>4, <1>7, <1>8, <1>9 DEF keys, k

(* The last section: what is kept is of the caller's own command; while     *)
(* nothing is evicted, it takes the place of the entry in the table.        *)
LEMMA FinishAnswer ==
  ASSUME AnswerInv, NEW c \in Calls, NEW a \in Answers, a.from = waitsOn[c],
         callPc[c] \in {"waiting", "finish"}, FinishSection(c, a),
         UNCHANGED <<callKey, callFp, waitsOn, sent>>
  PROVE  OwnKey' /\ JoinSent' /\ OrderInv' /\ KnownInv'
<1> DEFINE k == callKey[c]
           p == waitsOn[c]
           keys == Newest(k)
           kept == [completed EXCEPT ![k] = a]
<1>1. TypeOK /\ CallInv  BY DEF AnswerInv, IInv
<1>2. /\ k \in Keys /\ p \in Calls /\ p # NoCall /\ a # NoAnswer
      /\ callKey[p] = k
  BY <1>1, NoAnswerAssumption, RegistryAssumption
     DEF TypeOK, CallInv, WaitBound, AnswerInv, OwnKey, WaitOwn, Tasks
<1>3. /\ pending' = [pending EXCEPT ![k] = IF @ = p THEN NoCall ELSE @]
      /\ callPc' = [callPc EXCEPT ![c] = "done"]
      /\ answer' = [answer EXCEPT ![c] = a]
      /\ \/ completed' = kept /\ UNCHANGED fingerprint
         \/ /\ Len(keys) > CompletedCap
            /\ completed' = [kept EXCEPT ![Head(keys)] = NoAnswer]
  BY DEF FinishSection, Return
<1>4. CacheFits' = CacheFits  BY SameCalls
<1>5. OrderInv'  BY <1>1, <1>2, FinishOrder DEF AnswerInv
<1>6. JoinSent'  BY <1>1, <1>3 DEF AnswerInv, JoinSent, TypeOK
<1>7. \A j \in Keys : completed'[j] # NoAnswer =>
        completed'[j] = completed[j] \/ (j = k /\ completed'[j] = a)
  BY <1>1, <1>2, <1>3 DEF TypeOK
<1> HIDE DEF keys, kept, k, p
<1>8. OwnKey'
  <2>1. WaitOwn'  BY DEF AnswerInv, OwnKey, WaitOwn
  <2>2. FinishOwn'  BY <1>1, <1>3 DEF AnswerInv, OwnKey, FinishOwn, TypeOK
  <2>3. CacheOwn'
    BY <1>2, <1>7 DEF AnswerInv, OwnKey, CacheOwn, p
  <2>4. AnswerOwn'
    BY <1>1, <1>2, <1>3 DEF AnswerInv, OwnKey, AnswerOwn, TypeOK, p, k
  <2> QED  BY <2>1, <2>2, <2>3, <2>4 DEF OwnKey
<1>9. KnownInv'
  <2> SUFFICES ASSUME CacheFits PROVE Known'  BY <1>4 DEF KnownInv
  <2>1. Known  BY DEF AnswerInv, KnownInv
  <2>2. completed' = kept /\ UNCHANGED fingerprint
    BY <1>1, <1>3, NoEviction DEF AnswerInv, OwnKey, keys, k
  <2>3. /\ completed'[k] = a /\ \A j \in Keys \ {k} : completed'[j] = completed[j]
        /\ \A j \in Keys \ {k} : pending'[j] = pending[j]
    BY <1>1, <1>2, <1>3, <2>2 DEF TypeOK, kept
  <2>4. callFp[p] = callFp[c]  BY <1>2, <2>1 DEF Known, WaitBody, p
  <2>5. pending'[k] = NoCall
    <3>1. pending[k] = p \/ completed[k] # NoAnswer
      BY <2>1 DEF Known, UnderWayKnown, UnderWay, k, p
    <3>2. pending[k] = p \/ pending[k] = NoCall
      BY <1>2, <2>1, <3>1 DEF Known, InTable
    <3> QED  BY <1>1, <1>2, <1>3, <3>2 DEF TypeOK
  <2>6. InTable'  BY <1>2, <2>1, <2>2, <2>3, <2>5 DEF Known, InTable
  <2>7. InCache'
    <3>1. fingerprint[k] = callFp[a.from]
      BY <2>1, <2>4 DEF Known, UnderWayBody, UnderWay, k, p
    <3> QED  BY <1>2, <2>1, <2>2, <2>3, <3>1 DEF Known, InCache
  <2>8. \A d \in Calls : callPc'[d] \in UnderWay => callPc[d] \in UnderWay
    BY <1>1, <1>3 DEF TypeOK, UnderWay
  <2>9. \A d \in Calls :
          \/ callKey[d] = k /\ completed'[callKey[d]] # NoAnswer
          \/ completed'[callKey[d]] = completed[callKey[d]] /\ pending'[callKey[d]] = pending[callKey[d]]
    BY <1>1, <1>2, <2>3 DEF TypeOK
  <2>10. UnderWayKnown' /\ UnderWayBody' /\ SentKnown'
    BY <2>1, <2>2, <2>8, <2>9 DEF Known, UnderWayKnown, UnderWayBody, SentKnown
  <2>11. WaitBody' /\ OnceInv'  BY <2>1 DEF Known, WaitBody, OnceInv
  <2>12. AnswerBody'
    BY <1>1, <1>2, <1>3, <2>1, <2>4 DEF Known, AnswerBody, TypeOK, p
  <2> QED  BY <2>6, <2>7, <2>10, <2>11, <2>12 DEF Known
<1> QED  BY <1>5, <1>6, <1>8, <1>9

(* Leaving the wait, at once or behind the tasks queued for the lock.       *)
LEMMA LeaveWaitAnswer ==
  ASSUME AnswerInv, NEW c \in Calls, NEW a \in Answers, a.from = waitsOn[c], LeaveWait(c, a)
  PROVE  OwnKey' /\ JoinSent' /\ OrderInv' /\ KnownInv'
<1>1. CASE FinishSection(c, a)
  BY <1>1, FinishAnswer DEF LeaveWait
<1>2. CASE /\ callPc[c] = "waiting"
           /\ answer' = [answer EXCEPT ![c] = a]
           /\ callPc' = [callPc EXCEPT ![c] = "finish"]
           /\ UNCHANGED <<registryVars, callKey, callFp, waitsOn, sent>>
  <2>1. TypeOK /\ CallInv  BY DEF AnswerInv, IInv
  <2>2. waitsOn[c] \in Calls /\ waitsOn[c] # NoCall
    BY <1>2, <2>1, RegistryAssumption DEF CallInv, WaitBound, Tasks
  <2>3. UNCHANGED <<pending, fingerprint, completed, order>>  BY <1>2 DEF registryVars
  <2>4. CacheFits' = CacheFits  BY <1>2, SameCalls
  <2>5. OrderInv'  BY <2>3 DEF AnswerInv, OrderInv, Cached, Ordered
  <2>6. JoinSent'  BY <1>2, <2>1 DEF AnswerInv, JoinSent, TypeOK
  <2>7. OwnKey'
    <3>1. WaitOwn' /\ CacheOwn'  BY <1>2, <2>3 DEF AnswerInv, OwnKey, WaitOwn, CacheOwn
    <3>2. FinishOwn'  BY <1>2, <2>1 DEF AnswerInv, OwnKey, FinishOwn, TypeOK
    <3>3. callKey[a.from] = callKey[c]  BY <2>2 DEF AnswerInv, OwnKey, WaitOwn
    <3>4. AnswerOwn'
      BY <1>2, <2>1, <3>3 DEF AnswerInv, OwnKey, AnswerOwn, TypeOK
    <3> QED  BY <3>1, <3>2, <3>4 DEF OwnKey
  <2>8. KnownInv'
    <3> SUFFICES ASSUME CacheFits PROVE Known'  BY <2>4 DEF KnownInv
    <3>1. Known  BY DEF AnswerInv, KnownInv
    <3>2. InTable' /\ InCache' /\ SentKnown' /\ WaitBody' /\ OnceInv'
      BY <1>2, <2>3, <3>1 DEF Known, InTable, InCache, SentKnown, WaitBody, OnceInv
    <3>3. UnderWayKnown' /\ UnderWayBody'
      BY <1>2, <2>1, <2>3, <3>1 DEF Known, UnderWayKnown, UnderWayBody, UnderWay, TypeOK
    <3>4. callFp[a.from] = callFp[c]  BY <2>2, <3>1 DEF Known, WaitBody
    <3>5. AnswerBody'  BY <1>2, <2>1, <3>1, <3>4 DEF Known, AnswerBody, TypeOK
    <3> QED  BY <3>2, <3>3, <3>5 DEF Known
  <2> QED  BY <2>5, <2>6, <2>7, <2>8
<1> QED  BY <1>1, <1>2 DEF LeaveWait

(* A result, a timeout, and the last section entered from the queue.        *)
LEMMA WaitAnswer ==
  ASSUME AnswerInv, NEW c \in Calls, Wake(c) \/ Timeout(c) \/ FinishGranted(c)
  PROVE  OwnKey' /\ JoinSent' /\ OrderInv' /\ KnownInv'
<1> DEFINE p == waitsOn[c]
<1>1. TypeOK /\ CallInv  BY DEF AnswerInv, IInv
<1>2. p \in Calls  BY <1>1 DEF Wake, Timeout, FinishGranted, CallInv, WaitBound
<1>3. CASE Wake(c)
  <2>1. [status |-> future[p], from |-> p] \in Answers
    BY <1>1, <1>2, <1>3, AnswerType, RegistryAssumption
       DEF Wake, Undone, TypeOK, FutureStates, Statuses, Tasks
  <2> QED  BY <1>3, <2>1, LeaveWaitAnswer DEF Wake
<1>4. CASE Timeout(c)
  <2>1. [status |-> "timeout", from |-> p] \in Answers
    BY <1>2, AnswerType DEF Statuses
  <2> QED  BY <1>4, <2>1, LeaveWaitAnswer DEF Timeout
<1>5. CASE FinishGranted(c)
  <2>1. answer[c] \in Answers /\ answer[c].from = waitsOn[c]
    BY <1>5 DEF FinishGranted, AnswerInv, OwnKey, FinishOwn
  <2> QED  BY <1>5, <2>1, FinishAnswer DEF FinishGranted
<1> QED  BY <1>3, <1>4, <1>5

(* The invariant of the answers holds of every behaviour.                   *)
LEMMA AnswerInvariance == Spec => []AnswerInv
<1>1. Init => AnswerInv
  <2> SUFFICES ASSUME Init PROVE AnswerInv  OBVIOUS
  <2>1. IInv  BY InitIInv
  <2>2. OwnKey /\ JoinSent
    BY RegistryAssumption DEF Init, OwnKey, WaitOwn, FinishOwn, CacheOwn, AnswerOwn, JoinSent, Tasks
  <2>3. OrderInv
    <3>1. Cached = {}  BY DEF Init, Cached
    <3>2. Len(order) = 0 /\ DOMAIN order = {}  BY DEF Init
    <3> QED  BY <3>1, <3>2, RegistryAssumption DEF OrderInv, Ordered
  <2>4. Known
    BY DEF Init, Known, InTable, InCache, UnderWayKnown, UnderWayBody, UnderWay, SentKnown,
       WaitBody, AnswerBody, OnceInv
  <2> QED  BY <2>1, <2>2, <2>3, <2>4 DEF AnswerInv, KnownInv
<1>2. AnswerInv /\ IInv' /\ [Next]_vars => AnswerInv'
  <2> SUFFICES ASSUME AnswerInv, IInv', [Next]_vars PROVE AnswerInv'  OBVIOUS
  <2>1. ASSUME NEW c \in Calls, CallStep(c) PROVE AnswerInv'
    BY <2>1, DispatchAnswer, SendAnswer, WaitAnswer DEF CallStep, AnswerInv
  <2>2. ASSUME NEW s \in Sessions, SessionStep(s) PROVE AnswerInv'
    BY <2>2, SessionTables, TablesKept DEF AnswerInv, IInv
  <2>3. CASE UNCHANGED vars
    BY <2>3, TablesKept DEF vars, registryVars, lockVars
  <2> QED  BY <2>1, <2>2, <2>3 DEF Next
<1> QED  BY <1>1, <1>2, Invariance, PTL DEF Spec

(* The answer a caller waits for, or was given, is about its own command    *)
(* id, and about its own body for as long as the cache evicts nothing       *)
(* (dispatch in evcp.py:338-349, 389-402).                                  *)
THEOREM AnswerIsOwnAlways == Spec => []AnswerIsOwn
<1>1. AnswerInv => AnswerIsOwn
  <2> SUFFICES ASSUME AnswerInv, NEW c \in Calls, Source(c) # NoCall
               PROVE  /\ callKey[Source(c)] = callKey[c]
                      /\ callFp[Source(c)] = callFp[c] \/ ~CacheFits
    BY DEF AnswerIsOwn
  <2>1. CASE callPc[c] = "waiting"
    BY <2>1 DEF Source, AnswerInv, OwnKey, WaitOwn, KnownInv, Known, WaitBody
  <2>2. CASE callPc[c] # "waiting"
    BY <2>2 DEF Source, AnswerInv, OwnKey, AnswerOwn, KnownInv, Known, AnswerBody
  <2> QED  BY <2>1, <2>2
<1> QED  BY <1>1, AnswerInvariance, PTL

(* While the cache keeps every result a command id is sent at most once,    *)
(* however often it is asked for (dispatch in evcp.py:348-402).             *)
THEOREM SentOnceAlways == Spec => []SentOnce
<1>1. AnswerInv => SentOnce
  BY DEF AnswerInv, KnownInv, Known, OnceInv, SentOnce
<1> QED  BY <1>1, AnswerInvariance, PTL

(* No fingerprint is kept of a command that is neither in the table nor in  *)
(* the cache.                                                               *)
NoneOutlives == \A k \in Keys : fingerprint[k] # NoFingerprint => Remembered(k)

(* The last section stores a result before it drops the entry of the table, *)
(* and drops the fingerprint with whatever it evicts.                       *)
LEMMA FinishOutlives ==
  ASSUME TypeOK, NoneOutlives, NEW c \in Calls, NEW a, a # NoAnswer, FinishSection(c, a)
  PROVE  NoneOutlives'
<1> DEFINE k == callKey[c]
           h == Head(Newest(k))
<1>1. /\ k \in Keys
      /\ pending' = [pending EXCEPT ![k] = IF @ = waitsOn[c] THEN NoCall ELSE @]
      /\ \/ completed' = [completed EXCEPT ![k] = a] /\ UNCHANGED fingerprint
         \/ /\ completed' = [completed EXCEPT ![k] = a, ![h] = NoAnswer]
            /\ fingerprint' = [fingerprint EXCEPT ![h] = NoFingerprint]
  BY DEF FinishSection, TypeOK
<1> HIDE DEF k, h
<1> SUFFICES ASSUME NEW j \in Keys, fingerprint'[j] # NoFingerprint
             PROVE  pending'[j] # NoCall \/ completed'[j] # NoAnswer
  BY DEF NoneOutlives, Remembered
<1>2. fingerprint[j] # NoFingerprint /\ (j = h => UNCHANGED fingerprint)
  BY <1>1 DEF TypeOK
<1>3. completed'[j] = IF j = k THEN a ELSE completed[j]
  BY <1>1, <1>2 DEF TypeOK
<1>4. j # k => pending'[j] = pending[j]
  BY <1>1 DEF TypeOK
<1> QED  BY <1>2, <1>3, <1>4 DEF NoneOutlives, Remembered

(* No step of a dispatch leaves a fingerprint behind.                       *)
LEMMA CallOutlives ==
  ASSUME AnswerInv, NoneOutlives, NEW c \in Calls, CallStep(c)
  PROVE  NoneOutlives'
<1>1. TypeOK /\ CallInv /\ FinishOwn  BY DEF AnswerInv, IInv, OwnKey
<1>2. CASE UNCHANGED <<pending, fingerprint, completed>>
  BY <1>2 DEF NoneOutlives, Remembered
<1>3. CASE BeginSend(c) /\ UNCHANGED completed
  <2>1. /\ callKey[c] \in Keys /\ c # NoCall
        /\ pending' = [pending EXCEPT ![callKey[c]] = c]
        /\ fingerprint' = [fingerprint EXCEPT ![callKey[c]] = callFp[c]]
    BY <1>1, <1>3, RegistryAssumption DEF BeginSend, TypeOK, Tasks
  <2> QED  BY <1>1, <1>3, <2>1 DEF NoneOutlives, Remembered, TypeOK
<1>4. CASE SendFail(c)
  BY <1>1, <1>4 DEF SendFail, NoneOutlives, Remembered, TypeOK
<1>5. CASE \E a \in Answers : FinishSection(c, a)
  BY <1>1, <1>5, NoAnswerAssumption, FinishOutlives
<1>6. CASE Wake(c) \/ Timeout(c)
  <2>1. waitsOn[c] \in Calls  BY <1>1, <1>6 DEF Wake, Timeout, CallInv, WaitBound
  <2>2. PICK a \in Answers : LeaveWait(c, a)
    <3>1. CASE Wake(c)
      <4>1. [status |-> future[waitsOn[c]], from |-> waitsOn[c]] \in Answers
        BY <1>1, <2>1, <3>1, AnswerType, RegistryAssumption
           DEF Wake, Undone, TypeOK, FutureStates, Statuses, Tasks
      <4> QED  BY <3>1, <4>1 DEF Wake
    <3>2. CASE Timeout(c)
      <4>1. [status |-> "timeout", from |-> waitsOn[c]] \in Answers
        BY <2>1, AnswerType DEF Statuses
      <4> QED  BY <3>2, <4>1 DEF Timeout
    <3> QED  BY <1>6, <3>1, <3>2
  <2> QED  BY <1>2, <1>5, <2>2 DEF LeaveWait, registryVars
<1>7. CASE FinishGranted(c)
  BY <1>1, <1>5, <1>7 DEF FinishGranted, FinishOwn
<1>8. CASE SendOk(c)
  BY <1>2, <1>8 DEF SendOk, registryVars
<1>9. CASE Dispatch(c) \/ DispatchGranted(c)
  BY <1>2, <1>3, <1>9
     DEF Dispatch, DispatchGranted, DispatchSection, Refuse, Join, registryVars
<1> QED  BY <1>4, <1>6, <1>7, <1>8, <1>9 DEF CallStep

(* The cache never holds more than its bound, and the fingerprint that      *)
(* conflicting reuse is compared with goes when the command it belongs to   *)
(* is forgotten: by a failed send, or by an eviction.  While nothing is     *)
(* evicted, whatever is remembered has its fingerprint (evcp.py:411-412,    *)
(* 451-457).                                                                *)
THEOREM CacheConsistentAlways == Spec => []CacheConsistent
<1>1. Init => NoneOutlives  BY DEF Init, NoneOutlives
<1>2. AnswerInv /\ NoneOutlives /\ [Next]_vars => NoneOutlives'
  <2> SUFFICES ASSUME AnswerInv, NoneOutlives, [Next]_vars PROVE NoneOutlives'  OBVIOUS
  <2>1. CASE \E s \in Sessions : SessionStep(s)
    <3>1. UNCHANGED <<pending, fingerprint, completed>>
      BY <2>1, SessionTables DEF AnswerInv, IInv
    <3> QED  BY <3>1 DEF NoneOutlives, Remembered
  <2>2. CASE UNCHANGED vars
    BY <2>2 DEF vars, registryVars, NoneOutlives, Remembered
  <2> QED  BY <2>1, <2>2, CallOutlives DEF Next
<1>3. AnswerInv /\ NoneOutlives => CacheConsistent
  <2> SUFFICES ASSUME AnswerInv, NoneOutlives PROVE CacheConsistent  OBVIOUS
  <2>1. TypeOK  BY DEF AnswerInv, IInv
  <2>2. \A c \in Calls : callFp[c] # NoFingerprint
    BY <2>1, RegistryAssumption DEF TypeOK
  <2>3. ASSUME CacheFits, NEW k \in Keys, Remembered(k) PROVE fingerprint[k] # NoFingerprint
    <3>1. Known  BY <2>3 DEF AnswerInv, KnownInv
    <3>2. CASE pending[k] # NoCall
      BY <2>1, <2>2, <3>1, <3>2 DEF Known, InTable, TypeOK
    <3>3. CASE completed[k] # NoAnswer
      BY <2>2, <3>1, <3>3 DEF Known, InCache, AnswerInv, OwnKey, CacheOwn
    <3> QED  BY <2>3, <3>2, <3>3 DEF Remembered
  <2>4. Cardinality(Cached) <= CompletedCap
    <3>1. /\ order \in Seq(Keys) /\ Len(order) <= CompletedCap /\ Cached = Ordered
          /\ \A m, n \in DOMAIN order : order[m] = order[n] => m = n
      BY <2>1 DEF AnswerInv, OrderInv, TypeOK
    <3>2. Len(order) \in Nat /\ DOMAIN order = 1..Len(order)  BY <3>1, LenProperties
    <3>3. IsFiniteSet(1..Len(order)) /\ Cardinality(1..Len(order)) = Len(order)
      <4> DEFINE b == Len(order)
      <4>1. b \in Nat /\ b \in Int /\ 1 \in Int  BY <3>2
      <4> HIDE DEF b
      <4>2. IsFiniteSet(1..b) /\ Cardinality(1..b) = IF 1 > b THEN 0 ELSE b - 1 + 1
        BY <4>1, FS_Interval
      <4>3. Cardinality(1..b) = b  BY <4>1, <4>2
      <4> QED  BY <4>2, <4>3 DEF b
    <3>4. order \in Surjection(1..Len(order), Ordered)
      <4>1. order \in [1..Len(order) -> Ordered]
        BY <3>1, <3>2, LenProperties DEF Ordered
      <4> QED  BY <3>2, <4>1 DEF Surjection, Ordered
    <3>5. Cardinality(Ordered) <= Cardinality(1..Len(order))
      BY <3>3, <3>4, FS_Surjection
    <3>6. Cardinality(Ordered) \in Nat
      BY <3>3, <3>4, FS_Surjection, FS_CardinalityType
    <3> QED  BY <3>1, <3>2, <3>3, <3>5, <3>6, RegistryAssumption
  <2> QED  BY <2>3, <2>4 DEF NoneOutlives, Cached, CacheConsistent
<1> QED  BY <1>1, <1>2, <1>3, AnswerInvariance, PTL DEF Spec
=============================================================================
