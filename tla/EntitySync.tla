----------------------------- MODULE EntitySync -----------------------------
(***************************************************************************)
(* Inventory synchronization of one installation, end to end: the entities *)
(* of a Home Assistant, the Connector that reports them                    *)
(* (entity_inventory.py), the websockets of successive sessions, their     *)
(* handlers in the cloud (evcp.py) and the entity table (entity_sync.py).  *)
(*                                                                         *)
(* The Connector and the cloud are two event loops; an action is the code  *)
(* between two suspension points of one of them.  Each handler has its own *)
(* database session: it compares revisions with the copy of                *)
(* installation.sync_revision that it loaded, and writes only the          *)
(* attributes that differ from those it read.                              *)
(***************************************************************************)
EXTENDS Naturals, Sequences, FiniteSets, Functions

CONSTANTS
  Entities,         \* registry entries of Home Assistant
  Values,           \* their states
  Absent,           \* not exposed, disabled, without state, or tombstoned
  Keep,             \* a column a transaction does not write
  Sessions,         \* websocket connections, each used once
  NoSession,
  MaxChanges        \* bound on the changes at home

ASSUME SyncAssumption ==
  /\ IsFiniteSet(Entities)
  /\ Absent \notin Values /\ Keep \notin Values \cup {Absent}
  /\ NoSession \notin Sessions
  /\ MaxChanges \in Nat

Tasks  == {"idle", "sleeping", "sending"}
Phases == {"new", "authenticated", "receiving", "applying", "ending", "closed"}

(* Why a handler ended: its websocket or database failed, it was replaced  *)
(* (4008), a revision that is not the next or a state update of an unknown *)
(* entity (4009), an invalid batch sequence (4002).                        *)
Reasons == {"none", "failed", "replaced", "gap", "unknown", "invalid"}

Rows == Values \cup {Absent}

VARIABLES
  home,             \* what the Connector would serialize of each entity
  changes,          \* how often it changed
  dial, link,       \* Connector: the session it waits for; the one it is on
  revision, pending, flush, resync,      \* EntityInventory
  inbox,            \* messages the websocket of a session still delivers
  current,          \* ConnectorSessionRegistry: the registered session
  phase, reason,    \* the handlers
  copy,             \* sync_revision in the database session of a handler
  batches,          \* InventoryAccumulator, by session and revision
  job, write,       \* revision and changes of the transaction of a handler
  cloud, syncRevision,   \* entities and installations.sync_revision
  missed,           \* history: a registry event came during a resync
  late,             \* history: commits of a handler after its replacement
  disturbed         \* history: one of these after the latest full was read

connVars    == <<dial, link, revision, pending, flush, resync>>
handlerVars == <<current, phase, reason, copy, batches, job, write>>
dbVars      == <<cloud, syncRevision>>
history     == <<missed, late, disturbed>>
vars == <<home, changes, connVars, inbox, handlerVars, dbVars, history>>

(* A batch: part of the items of a full inventory or a state update.        *)
Messages ==
  [kind : {"full", "state"}, revision : Nat, index : Nat, count : Nat,
   items : UNION {[D -> Values] : D \in SUBSET Entities}]

TypeOK ==
  /\ home \in [Entities -> Rows] /\ cloud \in [Entities -> Rows]
  /\ changes \in 0..MaxChanges /\ revision \in Nat /\ syncRevision \in Nat
  /\ {dial, link, current} \subseteq Sessions \cup {NoSession}
  /\ pending \in SUBSET Entities
  /\ {flush, resync} \subseteq Tasks
  /\ inbox \in [Sessions -> Seq(Messages)]
  /\ batches \in [DOMAIN batches -> Seq(Messages)]
  /\ DOMAIN batches \subseteq Sessions \X Nat
  /\ phase \in [Sessions -> Phases] /\ reason \in [Sessions -> Reasons]
  /\ copy \in [Sessions -> Nat] /\ job \in [Sessions -> Nat]
  /\ write \in [Sessions -> [Entities -> Rows \cup {Keep}]]
  /\ missed \in BOOLEAN /\ disturbed \in BOOLEAN
  /\ late \in [Sessions -> Nat]

Nothing == [e \in Entities |-> Keep]

Init ==
  /\ home \in [Entities -> Rows] /\ changes = 0
  /\ dial = NoSession /\ link = NoSession
  /\ revision = 0 /\ pending = {} /\ flush = "idle" /\ resync = "idle"
  /\ inbox = [s \in Sessions |-> <<>>]
  /\ current = NoSession
  /\ phase = [s \in Sessions |-> "new"] /\ reason = [s \in Sessions |-> "none"]
  /\ copy = [s \in Sessions |-> 0] /\ job = [s \in Sessions |-> 0]
  /\ batches = <<>> /\ write = [s \in Sessions |-> Nothing]
  /\ cloud = [e \in Entities |-> Absent] /\ syncRevision = 0
  /\ missed = FALSE /\ disturbed = FALSE /\ late = [s \in Sessions |-> 0]

-----------------------------------------------------------------------------
(* Events of Home Assistant                                                 *)

(* The listeners exist while a session is on.  An event is noted, and a     *)
(* task started, unless the task of the last one is not done.               *)
StateEvent(e) ==
  IF link = NoSession
    THEN UNCHANGED <<pending, flush>>
    ELSE /\ pending' = pending \cup {e}
         /\ flush' = IF flush = "idle" THEN "sleeping" ELSE flush

RegistryEvent ==
  /\ resync' = IF link # NoSession /\ resync = "idle" THEN "sleeping" ELSE resync
  /\ missed' = (missed \/ resync = "sending")

Change(e, v) ==
  /\ changes < MaxChanges /\ home[e] # v
  /\ changes' = changes + 1
  /\ home' = [home EXCEPT ![e] = v]
  /\ UNCHANGED <<dial, link, revision, inbox, handlerVars, dbVars, late, disturbed>>

(* A state changes, or an exposed entity gets its first state.              *)
StateChanges(e, v) ==
  /\ v \in Values
  /\ Change(e, v)
  /\ StateEvent(e)
  /\ UNCHANGED <<resync, missed>>

(* An entity is exposed, hidden, enabled, disabled or removed.              *)
RegistryChanges(e, v) ==
  /\ (home[e] = Absent) # (v = Absent)
  /\ Change(e, v)
  /\ RegistryEvent
  /\ UNCHANGED <<pending, flush>>

-----------------------------------------------------------------------------
(* Connector                                                                *)

(* The ways the size limit may cut the items, in at most two batches.       *)
Chunks(items) ==
  {<<items>>} \cup
  {<<Restrict(items, D), Restrict(items, DOMAIN items \ D)>> :
     D \in SUBSET DOMAIN items \ {{}, DOMAIN items}}

(* Sends are serialized by the lock in the order of their serialization,    *)
(* which precedes the wait for it without a suspension.                     *)
Send(s, kind, rev, items) ==
  /\ revision' = rev
  /\ \E chunks \in Chunks(items) :
       inbox' = [inbox EXCEPT ![s] =
         IF phase[s] \in {"ending", "closed"} THEN @
         ELSE @ \o [i \in DOMAIN chunks |->
                      [kind |-> kind, revision |-> rev, index |-> i - 1,
                       count |-> Len(chunks), items |-> chunks[i]]]]

Exposed == {e \in Entities : home[e] # Absent}

SendFull(s, rev) ==
  /\ Send(s, "full", rev, Restrict(home, Exposed))
  /\ missed' = FALSE

(* Mutant: entities that are no longer exposed are sent as well.            *)
FlushStatesUnfiltered ==
  /\ flush = "sleeping"
  /\ pending' = {} /\ flush' = "sending"
  /\ Send(link, "state", revision + 1, Restrict(home, pending))
  /\ UNCHANGED <<home, changes, dial, link, resync, handlerVars, dbVars, history>>

(* _flush_states after its sleep.                                           *)
FlushStates ==
  LET items == Restrict(home, pending \cap Exposed) IN
  /\ flush = "sleeping"
  /\ pending' = {}
  /\ IF pending \cap Exposed = {}
       THEN flush' = "idle" /\ UNCHANGED <<revision, inbox>>
       ELSE flush' = "sending" /\ Send(link, "state", revision + 1, items)
  /\ UNCHANGED <<home, changes, dial, link, resync, handlerVars, dbVars, history>>

(* Mutant: what was noted is forgotten when the send ends.                  *)
FlushDoneForgets ==
  /\ flush = "sending"
  /\ flush' = "idle" /\ pending' = {}
  /\ UNCHANGED <<home, changes, dial, link, revision, resync, inbox, handlerVars,
                 dbVars, history>>

FlushDone ==
  /\ flush = "sending"
  /\ flush' = "idle"
  /\ UNCHANGED <<home, changes, dial, link, revision, pending, resync, inbox,
                 handlerVars, dbVars, history>>

(* _delayed_full after its sleep.                                           *)
Resync ==
  /\ resync = "sleeping"
  /\ resync' = "sending"
  /\ SendFull(link, revision + 1)
  /\ UNCHANGED <<home, changes, dial, link, pending, flush, handlerVars, dbVars,
                 late, disturbed>>

ResyncDone ==
  /\ resync = "sending"
  /\ resync' = "idle"
  /\ UNCHANGED <<home, changes, dial, link, revision, pending, flush, inbox,
                 handlerVars, dbVars, history>>

(* The acknowledgement arrives: the inventory starts at its revision.       *)
Start(s) ==
  /\ dial = s /\ phase[s] = "receiving"
  /\ dial' = NoSession /\ link' = s
  /\ SendFull(s, copy[s] + 1)
  /\ UNCHANGED <<home, changes, pending, flush, resync, handlerVars, dbVars,
                 late, disturbed>>

(* No acknowledgement in time.                                              *)
GiveUp ==
  /\ dial # NoSession
  /\ dial' = NoSession
  /\ UNCHANGED <<home, changes, link, revision, pending, flush, resync, inbox,
                 handlerVars, dbVars, history>>

(* The websocket fails or was closed by its handler: the tasks are          *)
(* cancelled and what they noted is dropped.  The handler still receives    *)
(* what had reached the server.                                             *)
Disconnect ==
  /\ link # NoSession
  /\ link' = NoSession
  /\ pending' = {} /\ flush' = "idle" /\ resync' = "idle"
  /\ \E n \in 0..Len(inbox[link]) :
       inbox' = [inbox EXCEPT ![link] = SubSeq(@, 1, n)]
  /\ UNCHANGED <<home, changes, dial, revision, handlerVars, dbVars, history>>

-----------------------------------------------------------------------------
(* Handlers of the cloud                                                    *)

(* A new websocket; its handler loads the installation.                     *)
Connect(s) ==
  /\ dial = NoSession /\ link = NoSession /\ phase[s] = "new"
  /\ dial' = s
  /\ phase' = [phase EXCEPT ![s] = "authenticated"]
  /\ copy' = [copy EXCEPT ![s] = syncRevision]
  /\ UNCHANGED <<home, changes, link, revision, pending, flush, resync, inbox,
                 current, reason, batches, job, write, dbVars, history>>

(* sessions.replace, then hello_ack with the revision loaded before.        *)
Register(s) ==
  /\ phase[s] = "authenticated"
  /\ phase' = [phase EXCEPT ![s] = "receiving"]
  /\ current' = s
  /\ UNCHANGED <<home, changes, connVars, inbox, reason, copy, batches, job, write,
                 dbVars, history>>

(* The handler ends: it forgets its batches (clear_session) and unregisters *)
(* its own session only.                                                    *)
End(s, why) ==
  /\ phase' = [phase EXCEPT ![s] = "closed"]
  /\ reason' = [reason EXCEPT ![s] = why]
  /\ current' = IF current = s THEN NoSession ELSE current
  /\ inbox' = [inbox EXCEPT ![s] = <<>>]
  /\ batches' = Restrict(batches, {k \in DOMAIN batches : k[1] # s})

(* The websocket or the database fails, or nothing is received in time.     *)
Fail(s) ==
  /\ phase[s] \in {"authenticated", "receiving", "applying"}
  /\ End(s, "failed")
  /\ write' = [write EXCEPT ![s] = Nothing]
  /\ UNCHANGED <<home, changes, connVars, copy, job, dbVars, history>>

(* Mutant: touch does not compare the session.                              *)
OwnsAlways(s) == phase[s] = "receiving"

Owns(s) == current = s

Received(s) == phase[s] = "receiving" /\ inbox[s] # <<>>

(* Mutant: sessions are not told apart.                                     *)
KeyByRevision(s, m) == <<NoSession, m.revision>>

Key(s, m) == <<s, m.revision>>

(* InventoryAccumulator.add: other revisions of the session are dropped.    *)
Kept(s, m) == {k \in DOMAIN batches : k[1] = s => k = Key(s, m)}

Prior(s, m) == IF Key(s, m) \in DOMAIN batches THEN batches[Key(s, m)] ELSE <<>>

ValidBatch(s, m) ==
  /\ \A b \in Range(Prior(s, m)) : b.count = m.count
  /\ m.index <= Len(Prior(s, m))
  /\ m.index < Len(Prior(s, m)) => Prior(s, m)[m.index + 1].items = m.items

Gathered(s, m) ==
  IF m.index = Len(Prior(s, m)) THEN Append(Prior(s, m), m) ELSE Prior(s, m)

Complete(s, m) == Len(Gathered(s, m)) = m.count

(* What the batches say, with `other' for the entities they do not name.    *)
Items(gathered, other) ==
  [e \in Entities |->
     IF \E b \in Range(gathered) : e \in DOMAIN b.items
       THEN (CHOOSE b \in Range(gathered) : e \in DOMAIN b.items).items[e]
       ELSE other]

Named(gathered) == UNION {DOMAIN b.items : b \in Range(gathered)}

(* The attributes a transaction writes: those that differ from the rows.    *)
Difference(new) == [e \in Entities |-> IF new[e] = cloud[e] THEN Keep ELSE new[e]]

Stale(s, m) ==
  IF m.kind = "full" THEN m.revision <= copy[s] ELSE m.revision # copy[s] + 1

(* What the handler does not accept: a message after its replacement, a     *)
(* batch out of sequence, a revision that is not the next.                  *)
Refusal(s) ==
  LET m == Head(inbox[s]) IN
  IF ~Owns(s) THEN "replaced"
  ELSE IF ~ValidBatch(s, m) THEN "invalid"
  ELSE IF Complete(s, m) /\ Stale(s, m) THEN "gap" ELSE "none"

Refuse(s) ==
  /\ Received(s) /\ Refusal(s) # "none"
  /\ End(s, Refusal(s))
  /\ UNCHANGED <<home, changes, connVars, copy, job, write, dbVars, history>>

(* A batch that does not complete its message.                              *)
ReceiveBatch(s) ==
  LET m == Head(inbox[s]) IN
  /\ Received(s) /\ Refusal(s) = "none" /\ ~Complete(s, m)
  /\ batches' = [k \in Kept(s, m) \cup {Key(s, m)} |->
                    IF k = Key(s, m) THEN Gathered(s, m) ELSE batches[k]]
  /\ inbox' = [inbox EXCEPT ![s] = Tail(@)]
  /\ UNCHANGED <<home, changes, connVars, current, phase, reason, copy, job, write,
                 dbVars, history>>

(* The last batch of a message with the right revision is taken.            *)
Accept(s, kind) ==
  LET m == Head(inbox[s]) IN
  /\ Received(s) /\ Refusal(s) = "none" /\ Complete(s, m)
  /\ m.kind = kind
  /\ inbox' = [inbox EXCEPT ![s] = Tail(@)]
  /\ batches' = Restrict(batches, Kept(s, m) \ {Key(s, m)})
  /\ job' = [job EXCEPT ![s] = m.revision]

(* apply_full up to its commit: the entities it does not name are to be     *)
(* tombstoned.                                                              *)
BeginFull(s) ==
  /\ Accept(s, "full")
  /\ write' = [write EXCEPT ![s] = Difference(Items(Gathered(s, Head(inbox[s])), Absent))]
  /\ phase' = [phase EXCEPT ![s] = "applying"]
  /\ disturbed' = FALSE
  /\ UNCHANGED <<home, changes, connVars, current, reason, copy, dbVars, missed, late>>

Unknown(gathered) == {e \in Named(gathered) : cloud[e] = Absent}

Updates(gathered, D) ==
  [e \in Entities |-> IF e \in D THEN Difference(Items(gathered, Absent))[e] ELSE Keep]

(* apply_state up to its commit, when it knows every entity.                *)
BeginState(s) ==
  LET gathered == Gathered(s, Head(inbox[s])) IN
  /\ Accept(s, "state")
  /\ Unknown(gathered) = {}
  /\ write' = [write EXCEPT ![s] = Updates(gathered, Named(gathered))]
  /\ phase' = [phase EXCEPT ![s] = "applying"]
  /\ UNCHANGED <<home, changes, connVars, current, reason, copy, dbVars, history>>

(* apply_state meets an unknown entity after some it has already changed.   *)
RejectState(s) ==
  LET gathered == Gathered(s, Head(inbox[s])) IN
  /\ Accept(s, "state")
  /\ Unknown(gathered) # {}
  /\ \E D \in SUBSET (Named(gathered) \ Unknown(gathered)) :
       write' = [write EXCEPT ![s] = Updates(gathered, D)]
  /\ phase' = [phase EXCEPT ![s] = "ending"]
  /\ reason' = [reason EXCEPT ![s] = "unknown"]
  /\ UNCHANGED <<home, changes, connVars, current, copy, dbVars, history>>

Persist(s) ==
  /\ cloud' = [e \in Entities |-> IF write[s][e] = Keep THEN cloud[e] ELSE write[s][e]]
  /\ write' = [write EXCEPT ![s] = Nothing]
  /\ late' = [late EXCEPT ![s] = IF current = s THEN @ ELSE @ + 1]
  /\ disturbed' = (disturbed \/ (current # s /\ write[s] # Nothing))

Commit(s) ==
  /\ phase[s] = "applying"
  /\ Persist(s)
  /\ syncRevision' = job[s]
  /\ copy' = [copy EXCEPT ![s] = job[s]]
  /\ phase' = [phase EXCEPT ![s] = "receiving"]
  /\ UNCHANGED <<home, changes, connVars, inbox, current, reason, batches, job,
                 missed>>

(* The cleanup of a handler commits what a rejected update had changed.     *)
Cleanup(s) ==
  /\ phase[s] = "ending"
  /\ Persist(s)
  /\ End(s, reason[s])
  /\ UNCHANGED <<home, changes, connVars, copy, job, syncRevision, missed>>

-----------------------------------------------------------------------------
Next ==
  \/ \E e \in Entities : \E v \in Rows : StateChanges(e, v) \/ RegistryChanges(e, v)
  \/ FlushStates \/ FlushDone \/ Resync \/ ResyncDone \/ GiveUp \/ Disconnect
  \/ \E s \in Sessions :
       \/ Connect(s) \/ Register(s) \/ Start(s) \/ Fail(s)
       \/ Refuse(s) \/ ReceiveBatch(s) \/ BeginFull(s) \/ BeginState(s)
       \/ RejectState(s) \/ Commit(s) \/ Cleanup(s)

Spec == Init /\ [][Next]_vars

-----------------------------------------------------------------------------
(* Properties                                                               *)

(* A session is up, everything sent was applied, and no task is due.        *)
Quiet ==
  /\ link # NoSession /\ link = current
  /\ phase[link] = "receiving" /\ inbox[link] = <<>>
  /\ flush = "idle" /\ resync = "idle"

(* Once all is quiet the cloud holds the home as it is, unless an event     *)
(* came while the task of an earlier one was sending, or a replaced handler *)
(* committed after its successor had read the table.                        *)
SyncedWhenQuiet ==
  Quiet /\ pending = {} /\ ~missed /\ ~disturbed => cloud = home

(* docs/SPEC_V1.md:730, on coalescing: "preserve latest state".  Without    *)
(* registry changes in between, a quiet cloud has the latest states.        *)
LatestStateSent ==
  Quiet /\ ~missed /\ ~disturbed => cloud = home

(* Batches and revisions of this Connector are never refused, however       *)
(* sessions overlap: what the acknowledgement says is what the handler      *)
(* compares with (evcp.py:901, entity_sync.py:26, :63, :86).                *)
NeverOutOfSequence ==
  \A s \in Sessions : reason[s] \notin {"gap", "invalid"}

(* A replaced handler commits at most the one message it had begun.         *)
AtMostOneLate == \A s \in Sessions : late[s] <= 1
=============================================================================
