--------------------------- MODULE SessionRegistry ---------------------------
(***************************************************************************)
(* The process-local owner of the Connector sessions and of the commands    *)
(* in flight: ConnectorSessionRegistry (apps/cloud_api/app/evcp.py) together *)
(* with the part of the websocket handler that registers, touches, resolves *)
(* and removes a session.                                                   *)
(*                                                                         *)
(* Everything runs on one asyncio event loop, so a step of the model is the *)
(* code between two suspension points.  The registry's single asyncio.Lock  *)
(* is explicit: it is FIFO, it is taken at once only when it is free and    *)
(* nobody queues for it, and the only code that suspends while holding it   *)
(* is the send of a command (`holder`).                                    *)
(*                                                                         *)
(* A future is named by the dispatch call that created it.                 *)
(***************************************************************************)
EXTENDS Naturals, Sequences, FiniteSets

SeqExt == INSTANCE SequencesExt

CONSTANTS
  Installations,
  Sessions,         \* one element per accepted websocket (session_id = uuid4)
  InstallationOf,   \* the installation each websocket authenticated as
  Commands,         \* command ids
  Fingerprints,     \* the (registry_id, command) bodies a command id can carry
  Calls,            \* invocations of dispatch
  CompletedCap,     \* how many results the completed cache keeps (1024)
  NoSession, NoCall, NoCommand, NoFingerprint, NoAnswer

Keys == Installations \X Commands
Tasks == Calls \cup Sessions

ASSUME RegistryAssumption ==
  /\ InstallationOf \in [Sessions -> Installations]
  /\ CompletedCap \in Nat \ {0}
  /\ Calls \cap Sessions = {}
  /\ NoSession \notin Sessions /\ NoCall \notin Tasks
  /\ NoCommand \notin Commands /\ NoFingerprint \notin Fingerprints

(* "result" stands for every status a Connector answers with. *)
Statuses == {"result", "timeout", "stale_session", "unavailable", "duplicate"}

(* What a dispatch call returns: a status and the call whose future it came *)
(* from, NoCall when the registry refused without consulting a future.      *)
Answers == [status : Statuses, from : Calls \cup {NoCall}]

ASSUME NoAnswerAssumption == NoAnswer \notin Answers

FutureStates == {"undone", "result", "timeout", "stale_session"}

CallPcs == {"idle", "enter", "sending", "waiting", "finish", "done"}

(* "abandoned" is a handler cancelled before it could release the           *)
(* transitioning mark; any other one that is gone is "closed".              *)
SessionPcs ==
  {"new", "replace", "replaceWait", "draining", "swapWait", "cancelWait",
   "closePrevious", "ack", "loop", "touchWait", "resolveWait", "leaving",
   "removeWait", "closed", "abandoned"}

(* Why a websocket is closed.  "ended" is every way the receive loop ends   *)
(* by itself: peer disconnect, 4006 liveness, 4009 stale revision, 4002 for *)
(* a message outside the protocol.                                          *)
SocketStates == {"open", "ended", "session_replaced", "result_mismatch"}

VARIABLES
  current,        \* _sessions: the registered session of each installation
  transitioning,  \* _transitioning
  pending,        \* _pending: the call that created the PendingCommand of a key
  fingerprint,    \* _command_fingerprints
  completed,      \* _completed
  order,          \* the keys of _completed, oldest first
  holder,         \* the call that holds _lock across its send
  lockQueue,      \* the tasks waiting for _lock, in order of arrival
  replQueue,      \* _replacement_locks: holder first, then the waiters
  callPc, callKey, callFp, waitsOn, answer,  \* the frame of a dispatch call
  future,         \* the future a call created
  owner,          \* PendingCommand.session_id of the call that created it
  sent,           \* PendingCommand.sent
  pc,             \* where the handler of a websocket is
  previous,       \* `previous` in replace
  draining,       \* `draining` in replace
  inbox,          \* the command result being handled, NoCommand for the rest
  socket,         \* client_state / application_state of the websocket
  fresh,          \* last_seen is at most 75 seconds old
  outstanding,    \* commands sent on a websocket and not answered yet
  early           \* websockets that carried a command before their hello_ack

registryVars == <<current, transitioning, pending, fingerprint, completed, order>>
lockVars     == <<holder, lockQueue, replQueue>>
callVars     == <<callPc, callKey, callFp, waitsOn, answer, owner, sent>>
sessionVars  == <<pc, previous, draining, inbox, socket, fresh,
                  outstanding, early>>
vars         == <<registryVars, lockVars, callVars, future, sessionVars>>

TypeOK ==
  /\ current \in [Installations -> Sessions \cup {NoSession}]
  /\ transitioning \in SUBSET Installations
  /\ pending \in [Keys -> Calls \cup {NoCall}]
  /\ fingerprint \in [Keys -> Fingerprints \cup {NoFingerprint}]
  /\ completed \in [Keys -> Answers \cup {NoAnswer}]
  /\ order \in Seq(Keys)
  /\ holder \in Calls \cup {NoCall}
  /\ lockQueue \in Seq(Tasks)
  /\ replQueue \in [Installations -> Seq(Sessions)]
  /\ callPc \in [Calls -> CallPcs]
  /\ callKey \in [Calls -> Keys]
  /\ callFp \in [Calls -> Fingerprints]
  /\ waitsOn \in [Calls -> Calls \cup {NoCall}]
  /\ answer \in [Calls -> Answers \cup {NoAnswer}]
  /\ future \in [Calls -> FutureStates]
  /\ owner \in [Calls -> Sessions \cup {NoSession}]
  /\ sent \in [Calls -> BOOLEAN]
  /\ pc \in [Sessions -> SessionPcs]
  /\ previous \in [Sessions -> Sessions \cup {NoSession}]
  /\ draining \in [Sessions -> SUBSET Calls]
  /\ inbox \in [Sessions -> Commands \cup {NoCommand}]
  /\ socket \in [Sessions -> SocketStates]
  /\ fresh \in [Sessions -> BOOLEAN]
  /\ outstanding \in [Sessions -> SUBSET Commands]
  /\ early \in SUBSET Sessions

Init ==
  /\ current = [i \in Installations |-> NoSession]
  /\ transitioning = {}
  /\ pending = [k \in Keys |-> NoCall]
  /\ fingerprint = [k \in Keys |-> NoFingerprint]
  /\ completed = [k \in Keys |-> NoAnswer]
  /\ order = <<>>
  /\ holder = NoCall
  /\ lockQueue = <<>>
  /\ replQueue = [i \in Installations |-> <<>>]
  /\ callPc = [c \in Calls |-> "idle"]
  /\ callKey \in [Calls -> Keys]
  /\ callFp \in [Calls -> Fingerprints]
  /\ waitsOn = [c \in Calls |-> NoCall]
  /\ answer = [c \in Calls |-> NoAnswer]
  /\ future = [c \in Calls |-> "undone"]
  /\ owner = [c \in Calls |-> NoSession]
  /\ sent = [c \in Calls |-> FALSE]
  /\ pc = [s \in Sessions |-> "new"]
  /\ previous = [s \in Sessions |-> NoSession]
  /\ draining = [s \in Sessions |-> {}]
  /\ inbox = [s \in Sessions |-> NoCommand]
  /\ socket = [s \in Sessions |-> "open"]
  /\ fresh = [s \in Sessions |-> FALSE]
  /\ outstanding = [s \in Sessions |-> {}]
  /\ early = {}

-----------------------------------------------------------------------------
(* asyncio.Lock: the fast path needs a free lock and an empty queue; a      *)
(* waiter is served in order of arrival once the lock has been released.    *)
LockFree == holder = NoCall /\ lockQueue = <<>>

FirstInLine(t) ==
  holder = NoCall /\ lockQueue # <<>> /\ Head(lockQueue) = t

Granted(t) == FirstInLine(t) /\ lockQueue' = Tail(lockQueue)

Enqueue(t) ==
  /\ ~LockFree
  /\ lockQueue' = Append(lockQueue, t)

(* A waiter that is cancelled leaves its queue, wherever it stands.         *)
Without(queue, t) ==
  IF \E n \in DOMAIN queue : queue[n] = t
    THEN SeqExt!RemoveAt(queue, CHOOSE n \in DOMAIN queue : queue[n] = t)
    ELSE queue

(* _safe_close: closing a closed websocket changes nothing.                 *)
Closed(s, reason) ==
  [socket EXCEPT ![s] = IF @ = "open" THEN reason ELSE @]

Undone(p) == p # NoCall /\ future[p] = "undone"

-----------------------------------------------------------------------------
(* dispatch: the section under the lock                                     *)

(* Mutant: the fingerprint of an earlier request is not looked at.          *)
ConflictingNever(c) == FALSE

Conflicting(c) == fingerprint[callKey[c]] \notin {NoFingerprint, callFp[c]}

(* _stale_reason and the transitioning mark *)
SessionReady(i) ==
  /\ i \notin transitioning
  /\ fresh[current[i]]
  /\ socket[current[i]] = "open"

Return(c, a) ==
  /\ answer' = [answer EXCEPT ![c] = a]
  /\ callPc' = [callPc EXCEPT ![c] = "done"]

Refusal(c, status) == Return(c, [status |-> status, from |-> NoCall])

Refuse(c) ==
  LET k == callKey[c] IN
  /\ \/ Conflicting(c) /\ Refusal(c, "duplicate")
     \/ ~Conflicting(c) /\ completed[k] # NoAnswer /\ Return(c, completed[k])
     \/ /\ ~Conflicting(c) /\ completed[k] = NoAnswer
        /\ \/ current[k[1]] = NoSession /\ Refusal(c, "unavailable")
           \/ /\ current[k[1]] # NoSession /\ ~SessionReady(k[1])
              /\ Refusal(c, "stale_session")
  /\ UNCHANGED <<pending, fingerprint, holder, waitsOn, owner>>

(* Mutant: the completed cache is not consulted.                            *)
AdmittedWithoutCache(c) ==
  LET i == callKey[c][1] IN
  ~Conflicting(c) /\ current[i] # NoSession /\ SessionReady(i)

Admitted(c) ==
  LET k == callKey[c] IN
  /\ ~Conflicting(c) /\ completed[k] = NoAnswer
  /\ current[k[1]] # NoSession /\ SessionReady(k[1])

(* Join the PendingCommand of an identical call, without sending.           *)
Join(c) ==
  LET p == pending[callKey[c]] IN
  /\ Admitted(c) /\ p # NoCall
  /\ waitsOn' = [waitsOn EXCEPT ![c] = p]
  /\ callPc' = [callPc EXCEPT ![c] = "waiting"]
  /\ UNCHANGED <<pending, fingerprint, holder, owner, answer>>

(* Create the PendingCommand and suspend in send_json with the lock held.   *)
BeginSend(c) ==
  LET k == callKey[c] IN
  /\ Admitted(c) /\ pending[k] = NoCall
  /\ pending' = [pending EXCEPT ![k] = c]
  /\ fingerprint' = [fingerprint EXCEPT ![k] = callFp[c]]
  /\ owner' = [owner EXCEPT ![c] = current[k[1]]]
  /\ waitsOn' = [waitsOn EXCEPT ![c] = c]
  /\ holder' = c
  /\ callPc' = [callPc EXCEPT ![c] = "sending"]
  /\ UNCHANGED answer

DispatchSection(c) ==
  /\ Refuse(c) \/ Join(c) \/ BeginSend(c)
  /\ UNCHANGED <<current, transitioning, completed, order, replQueue,
                 callKey, callFp, sent, future, sessionVars>>

Dispatch(c) ==
  /\ callPc[c] = "idle"
  /\ \/ LockFree /\ DispatchSection(c) /\ UNCHANGED lockQueue
     \/ /\ Enqueue(c)
        /\ callPc' = [callPc EXCEPT ![c] = "enter"]
        /\ UNCHANGED <<registryVars, holder, replQueue, callKey, callFp,
                       waitsOn, answer, owner, sent, future, sessionVars>>

DispatchGranted(c) ==
  /\ callPc[c] = "enter"
  /\ Granted(c)
  /\ DispatchSection(c)

(* Mutant: pending.sent stays false.                                        *)
SendOkUnmarked(c) ==
  /\ callPc[c] = "sending"
  /\ holder' = NoCall
  /\ outstanding' = [outstanding EXCEPT ![owner[c]] = @ \cup {callKey[c][2]}]
  /\ callPc' = [callPc EXCEPT ![c] = "waiting"]
  /\ UNCHANGED <<registryVars, lockQueue, replQueue, callKey, callFp, waitsOn,
                 answer, owner, sent, future, pc, previous, draining, inbox,
                 socket, fresh, early>>

SendOk(c) ==
  LET s == owner[c] IN
  /\ callPc[c] = "sending"
  /\ holder' = NoCall
  /\ sent' = [sent EXCEPT ![c] = TRUE]
  /\ outstanding' = [outstanding EXCEPT ![s] = @ \cup {callKey[c][2]}]
  /\ early' = IF pc[s] \in {"closePrevious", "ack"} THEN early \cup {s} ELSE early
  /\ callPc' = [callPc EXCEPT ![c] = "waiting"]
  /\ UNCHANGED <<registryVars, lockQueue, replQueue, callKey, callFp, waitsOn,
                 answer, owner, future, pc, previous, draining, inbox, socket,
                 fresh>>

(* send_json raised: the command is forgotten as if never asked.            *)
SendFail(c) ==
  LET k == callKey[c] IN
  /\ callPc[c] = "sending"
  /\ holder' = NoCall
  /\ pending' = [pending EXCEPT ![k] = NoCall]
  /\ fingerprint' = [fingerprint EXCEPT ![k] = NoFingerprint]
  /\ Refusal(c, "stale_session")
  /\ UNCHANGED <<current, transitioning, completed, order, lockQueue,
                 replQueue, callKey, callFp, waitsOn, owner, sent, future,
                 sessionVars>>

-----------------------------------------------------------------------------
(* dispatch: the bounded wait and the final section                         *)

Newest(k) == IF completed[k] = NoAnswer THEN Append(order, k) ELSE order

(* Mutant: an eviction forgets the result and keeps its fingerprint.        *)
FinishKeepsFingerprint(c, a) ==
  LET k == callKey[c]
      kept == [completed EXCEPT ![k] = a]
      keys == Newest(k)
  IN
  /\ pending' = [pending EXCEPT ![k] = IF @ = waitsOn[c] THEN NoCall ELSE @]
  /\ \/ /\ Len(keys) <= CompletedCap
        /\ completed' = kept /\ order' = keys
     \/ /\ Len(keys) > CompletedCap
        /\ completed' = [kept EXCEPT ![Head(keys)] = NoAnswer]
        /\ order' = Tail(keys)
  /\ UNCHANGED <<fingerprint, current, transitioning>>
  /\ Return(c, a)

FinishSection(c, a) ==
  LET k == callKey[c]
      kept == [completed EXCEPT ![k] = a]
      keys == Newest(k)
  IN
  /\ pending' = [pending EXCEPT ![k] = IF @ = waitsOn[c] THEN NoCall ELSE @]
  /\ \/ /\ Len(keys) <= CompletedCap
        /\ completed' = kept /\ order' = keys
        /\ UNCHANGED fingerprint
     \/ /\ Len(keys) > CompletedCap
        /\ completed' = [kept EXCEPT ![Head(keys)] = NoAnswer]
        /\ order' = Tail(keys)
        /\ fingerprint' = [fingerprint EXCEPT ![Head(keys)] = NoFingerprint]
  /\ Return(c, a)
  /\ UNCHANGED <<current, transitioning>>

(* The caller leaves its wait with answer a and takes the lock, at once or  *)
(* behind the tasks queued for it.                                          *)
LeaveWait(c, a) ==
  /\ callPc[c] = "waiting"
  /\ \/ LockFree /\ FinishSection(c, a) /\ UNCHANGED lockQueue
     \/ /\ Enqueue(c)
        /\ answer' = [answer EXCEPT ![c] = a]
        /\ callPc' = [callPc EXCEPT ![c] = "finish"]
        /\ UNCHANGED registryVars
  /\ UNCHANGED <<holder, replQueue, callKey, callFp, waitsOn, owner, sent,
                 sessionVars>>

(* Mutant: the future is read before it is done.                            *)
WakeBeforeResult(c) ==
  /\ callPc[c] = "waiting"
  /\ LeaveWait(c, [status |-> future[waitsOn[c]], from |-> waitsOn[c]])
  /\ UNCHANGED future

Wake(c) ==
  LET p == waitsOn[c] IN
  /\ callPc[c] = "waiting" /\ ~Undone(p)
  /\ LeaveWait(c, [status |-> future[p], from |-> p])
  /\ UNCHANGED future

(* Mutant: the wait has no bound.                                           *)
TimeoutNever(c) == FALSE

(* Mutant: a call that gives up leaves the shared future undone.            *)
TimeoutLeavesFuture(c) ==
  /\ callPc[c] = "waiting"
  /\ LeaveWait(c, [status |-> "timeout", from |-> waitsOn[c]])
  /\ UNCHANGED future

(* Eight seconds have passed.  The timer may also fire in the loop turn in  *)
(* which the future was resolved: the caller then reports a timeout.        *)
Timeout(c) ==
  LET p == waitsOn[c] IN
  /\ callPc[c] = "waiting"
  /\ LeaveWait(c, [status |-> "timeout", from |-> p])
  /\ future' = [future EXCEPT ![p] = IF @ = "undone" THEN "timeout" ELSE @]

FinishGranted(c) ==
  /\ callPc[c] = "finish"
  /\ Granted(c)
  /\ FinishSection(c, answer[c])
  /\ UNCHANGED <<holder, replQueue, callKey, callFp, waitsOn, owner, sent,
                 future, sessionVars>>

-----------------------------------------------------------------------------
(* replace: registration, after the hello has been accepted                 *)

Goto(s, label) == pc' = [pc EXCEPT ![s] = label]

StartReplace(s) ==
  LET i == InstallationOf[s] IN
  /\ pc[s] = "new"
  /\ replQueue' = [replQueue EXCEPT ![i] = Append(@, s)]
  /\ fresh' = [fresh EXCEPT ![s] = TRUE]
  /\ Goto(s, "replace")
  /\ UNCHANGED <<registryVars, holder, lockQueue, callVars, future, previous,
                 draining, inbox, socket, outstanding, early>>

HoldsReplacementLock(s) ==
  LET queue == replQueue[InstallationOf[s]] IN queue # <<>> /\ Head(queue) = s

ReleaseReplacement(i) == replQueue' = [replQueue EXCEPT ![i] = Tail(@)]

(* Mutant: the test of pending.sent is inverted.                            *)
InFlightUnsent(s) ==
  {c \in Calls : /\ Undone(c) /\ ~sent[c] /\ owner[c] = s
                 /\ pending[callKey[c]] = c}

(* The sent and unanswered commands of session s.                           *)
InFlight(s) ==
  {c \in Calls : /\ Undone(c) /\ sent[c] /\ owner[c] = s
                 /\ pending[callKey[c]] = c}

ReplaceSection(s) ==
  LET i == InstallationOf[s] IN
  /\ \/ /\ current[i] = NoSession
        /\ current' = [current EXCEPT ![i] = s]
        /\ ReleaseReplacement(i)
        /\ Goto(s, "ack")
        /\ UNCHANGED <<transitioning, previous, draining>>
     \/ /\ current[i] # NoSession
        /\ transitioning' = transitioning \cup {i}
        /\ previous' = [previous EXCEPT ![s] = current[i]]
        /\ draining' = [draining EXCEPT ![s] = InFlight(current[i])]
        /\ Goto(s, "draining")
        /\ UNCHANGED <<current, replQueue>>
  /\ UNCHANGED <<pending, fingerprint, completed, order, holder, callVars,
                 future, inbox, socket, fresh, outstanding, early>>

(* A handler that finds the lock taken waits for it at label.               *)
HandlerWaits(s, label) ==
  /\ Enqueue(s)
  /\ Goto(s, label)
  /\ UNCHANGED <<registryVars, holder, replQueue, callVars, future, previous,
                 draining, socket, fresh, early>>

Replace(s) ==
  /\ pc[s] = "replace"
  /\ HoldsReplacementLock(s)
  /\ \/ LockFree /\ ReplaceSection(s) /\ UNCHANGED lockQueue
     \/ HandlerWaits(s, "replaceWait") /\ UNCHANGED <<inbox, outstanding>>

ReplaceGranted(s) ==
  /\ pc[s] = "replaceWait"
  /\ Granted(s)
  /\ ReplaceSection(s)

(* Mutant: the transitioning mark is not discarded.                         *)
SwapKeepsMark(s) ==
  /\ current' = [current EXCEPT ![InstallationOf[s]] = s]
  /\ Goto(s, "closePrevious")
  /\ UNCHANGED <<transitioning, pending, fingerprint, completed, order, holder,
                 replQueue, callVars, future, previous, draining, inbox, socket,
                 fresh, outstanding, early>>

SwapSection(s) ==
  LET i == InstallationOf[s] IN
  /\ current' = [current EXCEPT ![i] = s]
  /\ transitioning' = transitioning \ {i}
  /\ Goto(s, "closePrevious")
  /\ UNCHANGED <<pending, fingerprint, completed, order, holder, replQueue,
                 callVars, future, previous, draining, inbox, socket, fresh,
                 outstanding, early>>

(* Every drained future is done: the new session takes over.                *)
Swap(s) ==
  /\ pc[s] = "draining"
  /\ \A c \in draining[s] : ~Undone(c)
  /\ \/ LockFree /\ SwapSection(s) /\ UNCHANGED lockQueue
     \/ HandlerWaits(s, "swapWait") /\ UNCHANGED <<inbox, outstanding>>

SwapGranted(s) ==
  /\ pc[s] = "swapWait"
  /\ Granted(s)
  /\ SwapSection(s)

CancelSection(s) ==
  LET i == InstallationOf[s] IN
  /\ transitioning' = transitioning \ {i}
  /\ ReleaseReplacement(i)
  /\ Goto(s, "closed")
  /\ UNCHANGED <<current, pending, fingerprint, completed, order, holder,
                 callVars, future, previous, draining, inbox, socket, fresh,
                 outstanding, early>>

(* The handler is cancelled while it waits for the drained futures.         *)
CancelDrain(s) ==
  /\ pc[s] = "draining" /\ draining[s] # {}
  /\ \/ LockFree /\ CancelSection(s) /\ UNCHANGED lockQueue
     \/ HandlerWaits(s, "cancelWait") /\ UNCHANGED <<inbox, outstanding>>

CancelGranted(s) ==
  /\ pc[s] = "cancelWait"
  /\ Granted(s)
  /\ CancelSection(s)

(* Mutant: the websocket of the replaced session stays open.                *)
ClosePreviousNever(s) ==
  /\ pc[s] = "closePrevious"
  /\ ReleaseReplacement(InstallationOf[s])
  /\ Goto(s, "ack")
  /\ UNCHANGED <<registryVars, holder, lockQueue, callVars, future, previous,
                 draining, inbox, socket, fresh, outstanding, early>>

ClosePrevious(s) ==
  /\ pc[s] = "closePrevious"
  /\ socket' = Closed(previous[s], "session_replaced")
  /\ ReleaseReplacement(InstallationOf[s])
  /\ Goto(s, "ack")
  /\ UNCHANGED <<registryVars, holder, lockQueue, callVars, future, previous,
                 draining, inbox, fresh, outstanding, early>>

HelloAck(s) ==
  /\ pc[s] = "ack"
  /\ Goto(s, "loop")
  /\ UNCHANGED <<registryVars, lockVars, callVars, future, previous, draining,
                 inbox, socket, fresh, outstanding, early>>

-----------------------------------------------------------------------------
(* the receive loop                                                         *)

Matches(s, m) ==
  LET p == pending[<<InstallationOf[s], m>>] IN
  /\ current[InstallationOf[s]] = s
  /\ Undone(p) /\ owner[p] = s

AlreadyCompleted(s, m) ==
  LET k == <<InstallationOf[s], m>> IN
  /\ current[InstallationOf[s]] = s
  /\ pending[k] = NoCall /\ completed[k] # NoAnswer

(* resolve_with_diagnostic, and the handler's reaction to a mismatch: 4002  *)
ResolveSection(s, m) ==
  LET p == pending[<<InstallationOf[s], m>>] IN
  /\ \/ /\ Matches(s, m)
        /\ future' = [future EXCEPT ![p] = "result"]
        /\ Goto(s, "loop")
        /\ UNCHANGED socket
     \/ /\ AlreadyCompleted(s, m)
        /\ Goto(s, "loop")
        /\ UNCHANGED <<future, socket>>
     \/ /\ ~Matches(s, m) /\ ~AlreadyCompleted(s, m)
        /\ socket' = Closed(s, "result_mismatch")
        /\ Goto(s, "leaving")
        /\ UNCHANGED future
  /\ inbox' = [inbox EXCEPT ![s] = NoCommand]

(* touch, holding the lock with queue behind it, and then resolve at once   *)
(* when nobody queues.                                                      *)
TouchSection(s, m, queue) ==
  /\ \/ /\ current[InstallationOf[s]] # s
        /\ socket' = Closed(s, "session_replaced")
        /\ Goto(s, "leaving")
        /\ lockQueue' = queue
        /\ inbox' = [inbox EXCEPT ![s] = NoCommand]
        /\ UNCHANGED <<fresh, future>>
     \/ /\ current[InstallationOf[s]] = s
        /\ fresh' = [fresh EXCEPT ![s] = TRUE]
        /\ \/ /\ m = NoCommand
              /\ Goto(s, "loop")
              /\ lockQueue' = queue
              /\ UNCHANGED <<future, socket, inbox>>
           \/ /\ m # NoCommand /\ queue = <<>>
              /\ ResolveSection(s, m)
              /\ lockQueue' = queue
           \/ /\ m # NoCommand /\ queue # <<>>
              /\ lockQueue' = Append(queue, s)
              /\ inbox' = [inbox EXCEPT ![s] = m]
              /\ Goto(s, "resolveWait")
              /\ UNCHANGED <<future, socket>>
  /\ UNCHANGED <<registryVars, holder, replQueue, callVars, previous, draining,
                 early>>

(* Any message: the answer to an outstanding command, or one that only      *)
(* refreshes the session (heartbeat, inventory and state).  A Connector that *)
(* read a command while it waited for hello_ack has hung up (_receive_ack). *)
Receive(s, m) ==
  /\ pc[s] = "loop" /\ s \notin early
  /\ m \in outstanding[s] \cup {NoCommand}
  /\ outstanding' = [outstanding EXCEPT ![s] = @ \ {m}]
  /\ \/ LockFree /\ TouchSection(s, m, <<>>)
     \/ HandlerWaits(s, "touchWait") /\ inbox' = [inbox EXCEPT ![s] = m]

TouchGranted(s) ==
  /\ pc[s] = "touchWait"
  /\ FirstInLine(s)
  /\ TouchSection(s, inbox[s], Tail(lockQueue))
  /\ UNCHANGED outstanding

ResolveGranted(s) ==
  /\ pc[s] = "resolveWait"
  /\ Granted(s)
  /\ ResolveSection(s, inbox[s])
  /\ UNCHANGED <<registryVars, holder, replQueue, callVars, previous, draining,
                 fresh, outstanding, early>>

(* The loop ends: disconnect, liveness timeout, rejected message, failed    *)
(* send of the acknowledgement.                                             *)
Leave(s) ==
  /\ pc[s] \in {"ack", "loop"}
  /\ socket' = Closed(s, "ended")
  /\ Goto(s, "leaving")
  /\ UNCHANGED <<registryVars, lockVars, callVars, future, previous, draining,
                 inbox, fresh, outstanding, early>>

(* Mutant: whoever leaves unregisters the session of its installation.      *)
RemoveAnySession(s) ==
  /\ current' = [current EXCEPT ![InstallationOf[s]] = NoSession]
  /\ Goto(s, "closed")
  /\ UNCHANGED <<future, transitioning, pending, fingerprint, completed, order,
                 holder, replQueue, callVars, previous, draining, inbox, socket,
                 fresh, outstanding, early>>

(* remove, in the handler's finally                                         *)
RemoveSection(s) ==
  LET i == InstallationOf[s]
      orphans == {p \in Calls : /\ Undone(p) /\ owner[p] = s
                                /\ pending[callKey[p]] = p}
  IN
  /\ \/ /\ current[i] = s
        /\ current' = [current EXCEPT ![i] = NoSession]
        /\ future' = [p \in Calls |->
                        IF p \in orphans THEN "stale_session" ELSE future[p]]
     \/ current[i] # s /\ UNCHANGED <<current, future>>
  /\ Goto(s, "closed")
  /\ UNCHANGED <<transitioning, pending, fingerprint, completed, order, holder,
                 replQueue, callVars, previous, draining, inbox, socket, fresh,
                 outstanding, early>>

Remove(s) ==
  /\ pc[s] = "leaving"
  /\ \/ LockFree /\ RemoveSection(s) /\ UNCHANGED lockQueue
     \/ HandlerWaits(s, "removeWait") /\ UNCHANGED <<inbox, outstanding>>

RemoveGranted(s) ==
  /\ pc[s] = "removeWait"
  /\ Granted(s)
  /\ RemoveSection(s)

(* CancelledError at an await of replace that does not catch it: the        *)
(* replacement lock, _lock before the mark is set, _lock in the except      *)
(* clause or after the drain. In the last two the mark stays.               *)
CancelReplace(s) ==
  LET i == InstallationOf[s] IN
  /\ pc[s] \in {"replace", "replaceWait", "cancelWait", "swapWait"}
  /\ replQueue' = [replQueue EXCEPT ![i] = Without(@, s)]
  /\ lockQueue' = Without(lockQueue, s)
  /\ Goto(s, IF pc[s] \in {"cancelWait", "swapWait"} THEN "abandoned" ELSE "closed")
  /\ UNCHANGED <<registryVars, holder, callVars, future, previous, draining,
                 inbox, socket, fresh, outstanding, early>>

(* While it closes the previous websocket, whose state has changed by then: *)
(* the handler does not know yet that it is registered, and remains so.     *)
CancelClose(s) ==
  /\ pc[s] = "closePrevious"
  /\ socket' = Closed(previous[s], "session_replaced")
  /\ ReleaseReplacement(InstallationOf[s])
  /\ Goto(s, "closed")
  /\ UNCHANGED <<registryVars, holder, lockQueue, callVars, future, previous,
                 draining, inbox, fresh, outstanding, early>>

(* Anywhere else in the handler: its finally runs, and may be cancelled too. *)
CancelHandler(s) ==
  /\ \/ pc[s] \in {"ack", "loop", "touchWait", "resolveWait"} /\ Goto(s, "leaving")
     \/ pc[s] = "removeWait" /\ Goto(s, "closed")
  /\ lockQueue' = Without(lockQueue, s)
  /\ UNCHANGED <<registryVars, holder, replQueue, callVars, future, previous,
                 draining, inbox, socket, fresh, outstanding, early>>

(* 75 seconds pass without a message of the current session.                *)
Expire(s) ==
  /\ current[InstallationOf[s]] = s /\ fresh[s]
  /\ fresh' = [fresh EXCEPT ![s] = FALSE]
  /\ UNCHANGED <<registryVars, lockVars, callVars, future, pc, previous,
                 draining, inbox, socket, outstanding, early>>

-----------------------------------------------------------------------------
CallStep(c) ==
  \/ Dispatch(c) \/ DispatchGranted(c) \/ SendOk(c) \/ SendFail(c)
  \/ Wake(c) \/ Timeout(c) \/ FinishGranted(c)

SessionStep(s) ==
  \/ StartReplace(s) \/ Replace(s) \/ ReplaceGranted(s)
  \/ Swap(s) \/ SwapGranted(s) \/ CancelDrain(s) \/ CancelGranted(s)
  \/ CancelReplace(s) \/ CancelClose(s) \/ CancelHandler(s)
  \/ ClosePrevious(s) \/ HelloAck(s)
  \/ \E m \in Commands \cup {NoCommand} : Receive(s, m)
  \/ TouchGranted(s) \/ ResolveGranted(s)
  \/ Leave(s) \/ Remove(s) \/ RemoveGranted(s) \/ Expire(s)

Next == (\E c \in Calls : CallStep(c)) \/ (\E s \in Sessions : SessionStep(s))

Spec == Init /\ [][Next]_vars

(* The event loop runs every ready callback and every timer, a send ends,   *)
(* with an error at the latest when the server's keepalive gives up, and a  *)
(* receive on a closed websocket raises.  Nothing is assumed of callers, of *)
(* the Connector or of the network: an open session may stay open for ever  *)
(* and a command may never be answered.  A call and a handler wait in one   *)
(* place at a time, so one condition for each covers all its steps.         *)
Fairness ==
  /\ \A c \in Calls :
       WF_vars(\/ DispatchGranted(c) \/ SendOk(c) \/ SendFail(c)
               \/ Wake(c) \/ Timeout(c) \/ FinishGranted(c))
  /\ \A s \in Sessions :
       WF_vars(\/ Replace(s) \/ ReplaceGranted(s) \/ Swap(s) \/ SwapGranted(s)
               \/ CancelGranted(s) \/ ClosePrevious(s) \/ HelloAck(s)
               \/ TouchGranted(s) \/ ResolveGranted(s)
               \/ (pc[s] = "ack" \/ socket[s] # "open") /\ Leave(s)
               \/ Remove(s) \/ RemoveGranted(s))

FairSpec == Spec /\ Fairness

-----------------------------------------------------------------------------
(* Properties                                                               *)

(* A caller never waits for a command that nobody can answer any more: a    *)
(* command without a result belongs to the session registered now, so that  *)
(* either its Connector answers, or remove (evcp.py:299-321) settles it.    *)
NoOrphan ==
  \A k \in Keys : Undone(pending[k]) => current[k[1]] = owner[pending[k]]

(* The cache has room for the results of all the commands of a behaviour.   *)
CacheFits ==
  LET used == {callKey[c] : c \in Calls} IN
  IsFiniteSet(used) /\ Cardinality(used) <= CompletedCap

(* The answer a caller waits for, or was given, is about its own command id, *)
(* AND, for as long as the cache keeps every result, about its own command  *)
(* body: neither the cache nor a joined future lends the result of a        *)
(* conflicting request (evcp.py:338-349, 389-402).                          *)
Source(c) == IF callPc[c] = "waiting" THEN waitsOn[c]
             ELSE IF answer[c] = NoAnswer THEN NoCall ELSE answer[c].from

AnswerIsOwn ==
  \A c \in Calls :
    Source(c) # NoCall =>
      /\ callKey[Source(c)] = callKey[c]
      /\ callFp[Source(c)] = callFp[c] \/ ~CacheFits

(* A command id is sent at most once for as long as the cache keeps every   *)
(* result (CompletedCap not reached): retries before, during and after the  *)
(* wait are answered from the table or from the cache (evcp.py:348-402).    *)
SentOnce ==
  CacheFits => \A c, d \in Calls :
    sent[c] /\ sent[d] /\ callKey[c] = callKey[d] => c = d

WillUnmark(s) ==
  HoldsReplacementLock(s) /\ pc[s] \in {"draining", "swapWait", "cancelWait"}

(* The transitioning mark, which refuses every dispatch, is there only while *)
(* the holder of the replacement lock still has to remove it, unless a      *)
(* handler of the installation was cancelled while it waited for _lock      *)
(* (evcp.py:236-259): of all that can go wrong while a replacement drains,  *)
(* times out or is cancelled, only that leaves the mark behind.             *)
MarkHasOwner ==
  \A i \in transitioning : \E s \in Sessions :
    InstallationOf[s] = i /\ (WillUnmark(s) \/ pc[s] = "abandoned")

Registered == {"ack", "loop", "touchWait", "resolveWait"}

(* A session that lost its registration does not linger on an open          *)
(* websocket: the handler that took its place is about to close it          *)
(* (evcp.py:255-260).                                                       *)
ReplacedIsClosed ==
  \A s \in Sessions :
    /\ pc[s] \in Registered
    /\ current[InstallationOf[s]] # s
    /\ socket[s] = "open"
    => \E t \in Sessions : pc[t] = "closePrevious" /\ previous[t] = s

(* A registered session goes away in two ways only: its own handler removes *)
(* it, or a drained replacement takes over; a handler that lost its         *)
(* registration never unregisters the newer session (ADR-0007).             *)
OwnerOrSuccessor ==
  \A i \in Installations :
    current[i] # NoSession /\ current'[i] # current[i] =>
      \/ current'[i] = NoSession /\ pc[current[i]] \in {"leaving", "removeWait"}
      \/ /\ current'[i] # NoSession
         /\ previous[current'[i]] = current[i]
         /\ \A c \in Calls : sent[c] /\ owner[c] = current[i] => ~Undone(c)

OnlyOwnerOrSuccessor == [][OwnerOrSuccessor]_vars

(* The Connector's answer reaches a caller only through the session the     *)
(* command was sent on, while that session is the registered one            *)
(* (evcp.py:471-514): "results from replaced sessions cannot resolve        *)
(* current waiters".                                                        *)
ThroughOwner ==
  \A c \in Calls :
    future[c] = "undone" /\ future'[c] = "result" =>
      /\ sent[c] /\ current[callKey[c][1]] = owner[c]
      /\ pc[owner[c]] \in {"loop", "touchWait", "resolveWait"}

ResultThroughOwner == [][ThroughOwner]_vars

Remembered(k) == pending[k] # NoCall \/ completed[k] # NoAnswer

(* The fingerprint that conflicting reuse is compared with lives as long as *)
(* the command it belongs to, in the table or in the cache: none outlives   *)
(* it, through failed sends, joined calls, timeouts and evictions, so that  *)
(* a forgotten id is neither refused as a duplicate nor kept for ever, and  *)
(* what is remembered in all is bounded by the cache and the calls under    *)
(* way; and while nothing is evicted, none is missing (evcp.py:411-412,     *)
(* 451-457).                                                                *)
CacheConsistent ==
  /\ Cardinality({k \in Keys : completed[k] # NoAnswer}) <= CompletedCap
  /\ \A k \in Keys : fingerprint[k] # NoFingerprint => Remembered(k)
  /\ CacheFits => \A k \in Keys : Remembered(k) => fingerprint[k] # NoFingerprint

(* Every dispatch ends, whatever the Connector, the callers and the         *)
(* reconnects do (evcp.py:436-458).  Calls are finite and made once, so that *)
(* each one ends when from some moment on none is under way.                *)
DispatchReturns == <>[](\A c \in Calls : callPc[c] \in {"idle", "done"})

(* A reconnecting websocket is never kept waiting for ever by the commands  *)
(* of the session it replaces (evcp.py:236-260).                            *)
Replacing == {"replace", "replaceWait", "draining", "swapWait", "cancelWait",
              "closePrevious"}

ReplacementEnds == <>[](\A s \in Sessions : pc[s] \notin Replacing)

(* docs/EVCP_V1.md:88 "Late known results are ignored": the answer to a     *)
(* command that was sent on this very session never closes it.              *)
LateResultIgnored == \A s \in Sessions : socket[s] # "result_mismatch"

(* docs/EVCP_V1.md:17-18: the cloud answers the hello with hello_ack, which *)
(* announces the session a command is bound to: no command precedes it.     *)
CommandAfterAck == early = {}
=============================================================================
