# Ekonex Voice: a verification project

Ekonex Voice lets Alexa control a Home Assistant installation. A cloud API (FastAPI,
one uvicorn worker, PostgreSQL) terminates Alexa directives and one outbound websocket per
installation, opened by a Home Assistant integration (the *Connector*). The protocol between
the two is EVCP (`docs/EVCP_V1.md`). This directory holds TLA+ models of the parts whose
correctness depends on interleavings, the TLC runs that check them, and TLAPS proofs.

Paths below are relative to the repository; `evcp.py` is `apps/cloud_api/app/evcp.py`.

## 1. Inventory

| component | state it keeps | operations | talks to |
|---|---|---|---|
| Session registry (`evcp.py:206-514`) | sessions, pending commands with their futures, completed results, command fingerprints, transitioning marks, one global lock, a replacement lock per installation; all in memory | `replace`, `touch`, `remove`, `dispatch`, `resolve_with_diagnostic` | websocket handlers, dispatch service |
| Websocket handler (`evcp.py:793-1042`) | one coroutine per connection, its database session, its batches | authenticate, hello, hello_ack, receive loop, cleanup | registry, entity sync, Connector |
| Entity sync (`entity_sync.py`, `InventoryAccumulator`) | entity rows, `installation.sync_revision`, batches per (installation, session, revision) | `apply_full`, `apply_delta`, `apply_state`, `add`, `clear_session` | handler, Alexa events |
| Dispatch service (`command_dispatch.py`) | audit rows | `dispatch` | registry; called by Alexa and the admin console |
| Alexa directives (`alexa.py`) | replay cache (2048), OAuth grants and tokens, links | directive handler, `exchange_token`, `revoke` | dispatch service |
| Alexa events (`alexa_events.py`) | reported states, discovery deliveries, event tokens | `report_entity`, `reconcile_discovery` | Alexa gateway; called after each inventory commit |
| Pairing (`pairing.py`, `repositories.py`) | pairing sessions, attempts, installations, credentials | `create_session`, `claim`, `poll`, `revoke_credential`, `rotate_credential` | portal, config flow |
| Portal sessions (`portal_auth.py`) | login attempts, sessions | `login`, `resolve`, `select_tenant`, `logout` | portal pages |
| Maintenance (`scheduler.py`, `maintenance.py`, `cleanup.py`) | maintenance runs | `run_forever`, `execute_cleanup` | database; separate process |
| Connector supervisor (`custom_components/ekonex_voice/connection.py`) | state, backoff index | `_async_run`, `_run_session`, `_handle_command` | websocket, inventory, executor |
| Connector inventory (`entity_inventory.py`) | pending entity ids, two background tasks, revision, send lock | `async_start`, `async_stop`, `_flush_states`, `_send_full` | Home Assistant event bus, websocket |
| Connector executor (`command_executor.py`) | 256 results by command id | `async_execute` | Home Assistant services |
| Admin console, legal pages, Lambda relay, migrations, bootstrap | none of their own beyond the database | | |

What is hard in this code, and what makes each part correct:

* **Registry.** Everything is one event loop, but `dispatch` suspends while it *holds* the
  global lock (the send), `replace` suspends *between* two lock sections (the drain), and each
  caller suspends between its send and its last section. Reconnects, duplicates of one command,
  timeouts and late results meet in these gaps. Correct means: a command is sent once, its
  answer belongs to it, no caller waits for nobody, a stale handler harms no newer session,
  a replacement leaves no mark behind, and everything that starts ends.
* **Inventory.** Revisions must be consecutive, yet each handler compares with the copy of its
  own database session; batches may be lost with their websocket; events coalesce while a send
  is under way. Correct means: the cloud's entities are those of some snapshot of the
  Connector, and the latest one once events cease.
* **Pairing.** Every operation is a READ COMMITTED transaction; some rows are locked, some
  are not, and responses may be lost. Correct means: one claim per code, one active credential
  per installation, a credential delivered at most once and never lost silently.
* **Commands end to end.** Three caches (Alexa replay, cloud results, Connector results) with
  different bounds must together give at most one Home Assistant action per directive.
* **Supervisor.** Which failures end the loop for good and which are retried.
* **Directives.** Alexa, the cloud and Home Assistant each have their own copy of an entity.
  Correct means: the action called is the one that was asked for, whichever copy is old.
* **Alexa events, OAuth, login, maintenance.** Send-then-record, read-then-mark,
  count-then-record and record-then-run sequences that a crash or a second handler can split.

`PROJECT.json` lists the hazards one by one, at the line where each bites, with the
properties that would catch it.

## 2. Plan

| order | modules | what | status |
|---|---|---|---|
| 1 | `SessionRegistry` | registry and handler: safety, liveness, proofs | done |
| 2 | `Pairing` | pairing and credentials as interleaved transactions | done |
| 3 | `EntitySync` | Connector inventory, channel, accumulator and sync service, composed | done, proved; an abstract specification (the cloud holds a snapshot of the home) is left |
| 4 | `CommandPath`, `CommandPromise` | a command end to end with restarts of both ends, and what it promises: refinement, proved | done |
| 5 | `Directives` | what a directive becomes, over stale copies of the entity, proved | done |
| 6 | `AlexaEvents` | send-then-record reports, with crashes | done, proved |
| 7 | `Clock`, `Portal`, `AlexaLink`, `Maintenance`, composed in `Accounts` | login, forms, OAuth and the daily cleanup | done, proved |
| 8 | `ConnectorLifecycle` | supervisor: states, backoff, terminal errors | left |

`SessionRegistry` shows what the locks and futures of the registry guarantee; `CommandPath` takes
that registry as a table without locks and adds what is before and after it. `EntitySync` and
`Pairing` stand alone: they share with the rest only rows no other part writes.
`Accounts` composes four modules, because a consent in the portal is where an account link begins
and the cleanup deletes what the login counts.

Every invariant and action property of the passing runs is a theorem; the two liveness properties of the
registry are beyond the prover and stay with TLC. What is left is to state more: `EntitySync` as a
refinement of an inventory that is replaced by snapshots of the home, and `ConnectorLifecycle`.

## 3. The session registry

### Model

`SessionRegistry` models `ConnectorSessionRegistry` and the parts of `connector_websocket` that
call it. All of it runs on one asyncio event loop, so one action is the code between two
suspension points.

* **Names.** A future is named by the dispatch call that created it: `pending[k] = c` is the
  `PendingCommand` made by call `c`, `future[c]` its future, `owner[c]` its `session_id`, `sent[c]`
  its flag. `waitsOn[c]` is the future call `c` waits for, its own or that of an identical call.
* **Locks.** `asyncio.Lock` is explicit because its rules decide which windows exist. Taking
  a lock that is free and has no queue does not suspend, so `LockFree` branches run the whole
  section in one step; otherwise the task joins `lockQueue` and runs when it is `Granted`.
  The only code that suspends while it holds the lock is `send_json` in `dispatch`: `holder`.
  The replacement locks are the queues `replQueue`, whose head holds the lock.
* **Dispatch** (`evcp.py:324-458`): `Refuse` (conflicting fingerprint, cached result, no
  session, session not ready), `Join`, `BeginSend`, then `SendOk` or `SendFail`, then `Wake` or
  `Timeout`, then `FinishSection` with the eviction.
* **Replace** (`218-269`): `StartReplace`, `Replace`, `Swap` once every drained future is done,
  `ClosePrevious`; then `HelloAck` (`893`).
* **Cancellation** of a handler, at any of its awaits. `CancelDrain` is the only one `replace` catches,
  inside the `gather` (`245-254`). `CancelReplace` is the rest of its waits: for the replacement lock, for
  `_lock` before the mark is set, and for `_lock` in the except clause (`252`) or after the drain (`255`),
  where the mark is set and stays: the handler is then "abandoned". `CancelClose` leaves a session registered
  without a handler; `CancelHandler` runs the `finally`, or cuts it short. A waiter leaves its queue (`Without`).
* **Receive loop** (`906-996`): `Receive` touches the session and, for a command result,
  goes on to resolve it; `TouchGranted` and `ResolveGranted` are the same from the queue.
* **End** (`997-1042`): `Leave` for every reason the loop ends, then `Remove`.
* `Expire` is the passage of 75 seconds without a message of the registered session.

Abstractions: "result" stands for every status a Connector answers with; a fingerprint is a
model value; audit rows and diagnostics are left out. The Connector always echoes the
session id of the websocket it answers on, so "result_session_mismatch" cannot arise, and any
other malformed message is one more reason for `Leave`. `SendOk` may happen whatever the state
of the websocket, as a send into a dying connection may. When nothing is to be drained the
code runs both sections of `replace` without suspending if nobody queues; the model allows
other steps in between, which adds behaviours and removes none. Cancelled
*dispatch calls* are left out: nothing but server shutdown cancels a request.

### Runs

| run | instance | shows |
|---|---|---|
| `registry_commands` | one installation, 3 calls with 2 bodies, a cache of one result; one command id and 2 websockets, or 2 command ids and 1 websocket | the nine safety properties |
| `registry_liveness` | 2 websockets, 2 calls, fairness | every dispatch returns; every replacement ends |
| `registry_late_result` | 2 websockets, 2 calls | **finding**: a late result can close the websocket |
| `registry_early_command` | 1 websocket, 2 calls | **finding**: a command can precede `hello_ack` |

Bounds. Two websockets give every pair of old and new session; while one replacement drains
a third websocket could only queue behind it (`replQueue`), which is the same position as
waiting before `Replace`. Three calls are one that sends, one that joins or replays, and one
that conflicts or contends for the lock. One command id suffices where ids do not interact;
they interact only through the eviction order, which needs no second websocket: the constraint
`OneCommandOrOneSession` leaves out the product of the two. `MostAreFirst` names which command id
and which body most calls have. A conflicting call meets two websockets beside one other call, and one
websocket beside two (`OneBodyOrTwoCalls`): what it is compared with is one fingerprint.
Around a handler cancelled while its websocket stays open,
`Slices` keeps two calls of one body: the third is there to conflict or to overflow the cache,
which a mark does not change. `SentOnce`, the part of `AnswerIsOwn` about the body, and the part of
`CacheConsistent` that everything remembered has its fingerprint, are claimed while the cache does
not overflow (`CacheFits`; 1024 results in the code): evicting a key forgets that it was ever sent,
which is what a bounded replay cache means. With two ids the cache of one does overflow, and there
`CacheConsistent` is checked for its bound and for the converse: no fingerprint outlives the command it
belongs to, so an eviction that forgot the fingerprint would be found. Each call and each
websocket happens once, so the system really stops: `CHECK_DEADLOCK FALSE`, and
`<>[]` of "nothing is under way" says that each one ends. Symmetry is used in the safety runs only.

Fairness (`registry_liveness`). The event loop runs ready callbacks and timers, a send ends
(with an error at the latest when the server's websocket keepalive gives up), and a receive on
a closed websocket raises. A call and a handler wait in one place at a time, so each gets one
weak fairness condition over its continuations. Nothing is assumed of callers, the
Connector or the network: `Leave` is fair only where the socket is closed or where the handler
is not waiting for the peer. The lock is FIFO, so no strong fairness is needed.

### Findings

1. *Late result* (`RegistryLateResult.cfg`). `docs/EVCP_V1.md:88` says late known results are
   ignored. A caller whose wait expires first settles the future and then queues for the
   lock; a result handled in that window finds the entry with a finished future, counts as
   `pending_already_done` (`evcp.py:487`), closes the websocket with 4002, and the Connector
   treats 4002 as a protocol error and never reconnects. It needs contention for the lock,
   which a slow send of any other installation supplies.
2. *Command before the acknowledgement* (`RegistryEarlyCommand.cfg`). `replace` registers the
   session at `evcp.py:873`; the `hello_ack` follows after a commit. A command dispatched in
   between is sent first, and `_receive_ack` of the Connector raises a protocol error, again
   without retry.
What `MarkHasOwner` excepts is a defect that the model shows as well. A handler cancelled while it waits for
the registry lock with the mark set (`evcp.py:252` in the `except` clause, or `255`) leaves the mark, its
session unregistered, and dispatch to the installation refused until a later replacement completes, where
`docs/adr/ADR-0007-evcp-session-ownership.md:14-15` says that registration is atomic. `MarkHasOwner` names
this handler (`abandoned`) and shows that there is no other way to leave a mark.

### Proofs

`SessionRegistryProofs` defines the inductive invariant and proves type correctness;
`SessionRegistrySafety` proves the rest. Nothing is assumed but `RegistryAssumption` and
`NoAnswerAssumption`, the typing of the constants, so the theorems hold for every number of
installations, websockets, commands, calls and every cache size.

The safety properties are not inductive. `NoOrphan` says that a command without a result belongs
to the registered session; to show that `Swap` keeps it one has to know that the drained set
still covers every command of the session being replaced. The invariant `IInv` says why:

* `CallInv`: who holds the lock while sending has its entry in the table and unsent entries
  are only such (`HolderSends`, `UnsentIsHeld`); entries are keyed by their own command and name a
  session of their installation (`TableKeyed`); a sent command stays in the table until its
  future is done (`SentTracked`); a caller leaves its wait with a finished future (`WaitBound`).
* `ReplaceInv`: between the sections of `replace` the handler is first in its replacement queue
  (`ReplacementExclusive`), the mark is set, the registered session is the previous one or
  nobody, and every unanswered command of the installation is in the drained set
  (`DrainCovers`); before the swap all of these are done (`DrainDone`). `MarkHasOwner` is a part of it: a
  cancelled handler leaves its queue, and the mark is its own or is another's (`CancelledReplaceInv`).
* `TableInv` (`NoOrphan`, `Home`), `InboxHeld`, `CloseInv` (the handler that closes the previous
  websocket is the registered one).

Each part is preserved by one lemma per group of actions; steps that leave its variables
alone are dispatched together (`FutureGrows`, `Quiet`, `CloseQuiet`). `OnlyOwnerOrSuccessor` and
`ResultThroughOwner` are action properties that follow from `IInv` step by step.

`AnswerIsOwn`, `SentOnce` and `CacheConsistent` follow from a second invariant, `AnswerInv`, proved on
top of `IInv`. `OwnKey`: futures, cached results and answers of a call are of its own command id.
`JoinSent`: nobody waits for the future of a call that has not sent, so a send that fails leaves nobody
behind. `OrderInv` says that `order` lists the keys of the cache, each once and no more than the cap: it is what the
bound of `CacheConsistent` rests on, and `NewestFacts` and `FinishOrder` show that an eviction
keeps it. `NoneOutlives`, inductive on top of `AnswerInv`, is the part about fingerprints that outlive
their command: it needs no cap and holds over evictions. `KnownInv`, claimed while `CacheFits`: a command that is under way or was sent is either in the
table or in the cache, never in both (`InTable`, `UnderWayKnown`, `SentKnown`), with the fingerprint of
the calls that wait for it (`UnderWayBody`, `WaitBody`). That a cache with room never evicts
(`NoEviction`) is the pigeonhole principle, from the library's `FS_Injection`.

The proof attempt changed `AnswerIsOwn`. It said that an answer is about the caller's own body without a
condition, which three calls cannot violate and four can: one call sends, a second one joins, the
first finishes, another command evicts its result and its fingerprint, the second one finishes
and stores the result again, now without a fingerprint (`evcp.py:451-457` stores whatever was evicted
meanwhile), and a fourth call with the same id and another body is given it. With the 1024
results of the code, that takes a thousand commands that finish between two callers of one
future, so the body is now claimed while `CacheFits`, and the id always.

Only model-checked: liveness, which is out of the prover's reach.

## 4. Pairing

### Model

`Pairing` models `PairingService` and the Connector's config flow (`config_flow.py`) that polls it.

* **Transactions.** Each request is one transaction at READ COMMITTED, split where another
  transaction can come between: a plain read and the commit (`CreateRead`, `CreateCommit`), the
  wait for a row lock (`ReadRowForUpdate`) and the commit, the snapshot of a rotation and its
  commit. What a transaction read stays in its ORM objects, so it is a variable of the
  transaction (`existing`, `rowSeen`, `late`, `carried`, `snapshot`), not read again. Any of them may
  roll back. `rowLock[p]` is the `FOR UPDATE` lock of a session row.
* **Rotation.** `active_for_installation` selects `FOR UPDATE`: a second rotation sees the rows
  that existed when its statement started, waits for them, then drops those revoked
  meanwhile; it never sees a credential committed after it started. Since `revoked` only
  grows, revoking the whole `snapshot` at the commit is the same.
* **Config flow.** `Submit` sends a poll, `PollAnswer` is the answer and what the flow makes of
  it, `PollLost` the timeout or lost answer, after which the form is shown again; the server may
  still be working on the old poll. A flow that starts may be a reauthentication (`reauthOf`)
  of a configured installation whose credential was revoked.
* `before[t]` is a history variable: what `t` could see when it started. Two transactions
  `Overlap` when neither saw the other.

Abstractions: an installation is named by the claim that creates it; one user of one tenant
claims, so the failed attempts are one set, from which an attempt disappears when it leaves
the window (`Forget`). Codes are unique (the code tries five and fails otherwise). Audit rows are
left out. `rotate_credential` and `revoke_credential` are methods without an HTTP route.

### Runs

| run | instance | shows |
|---|---|---|
| `pairing` | 2 sessions of one nonce, 2 claims, 2 polls, limit 1; or 1 session, 1 claim, 1 poll and 2 rotations | the properties below |
| `pairing_reauth` | 2 sessions of fresh nonces, 2 claims, 1 poll | **finding** |

Two sessions and two claims are every pair of concurrent operations on a row; the second poll
is the one after a lost answer. A limit of 1 makes the window overflow with two claims. Two
rotations overlap or follow each other. A rotation needs one claimed installation
and reads nothing else, so the constraint `RotatedOrRaced` explores rotations where nothing
else races. Every operation happens once, so the system stops: `CHECK_DEADLOCK FALSE`.

What holds: a code is claimed once (`OneClaim`); one answer carries a credential
(`DeliveredOnce`). What holds with an exception, which the property names: the flow of a claimed
session never ends as expired, ends without the credential as unknown only when the answer that
carried it was lost (the price of deleting the envelope before the response), and ends denied only
when a `create_session` that had read the session pending locked it after the claim
(`CredentialReachesFlow`); that `create_session` is also the only way a claimed, expired or locked
session changes again (`TerminalStatus`: of a claim and an expiry that meet, one results). A nonce has
one usable session unless two calls overlapped (`OneUsablePerNonce`); the window exceeds the limit only by claims that
overlapped (`FailuresLimited`); two active credentials come from overlapping rotations
(`OneActiveCredential`). The Connector draws a fresh nonce per flow, so the nonce cases need
another client.

*Finding* (`PairingReauth.cfg`). `docs/EKONEX_HA_STANDARD.md:161-163` says reauthentication never
creates a second installation; `docs/home-assistant.md:138` requires a claim for the same one. Every
claim inserts a new installation (`pairing.py:208`), so the flow always ends with
`wrong_installation` (`config_flow.py:126`) and leaves an installation behind.

### Proofs

`PairingProofs` proves every property of the two runs but `ReauthKeepsInstallation` (which is
false), from `PairingAssumption` alone. `PairingInv` is the inductive invariant:

* `PairInv`, for `OneClaim` and `TerminalStatus`: a claim commits only into a row that is pending *now*. Who holds a row
  lock has read the status the row still has (`LockInv`); a row exists only after its
  `create_session` commits, so nothing refers to it before and a new row is never locked
  (`CreatedInv`); a row with a claim is never pending again and names that claim (`ClaimedInv`).
* `RotationInv`, for `OneActiveCredential`: what was committed before a rotation started is revoked
  or in its snapshot, and the snapshot is revoked when it is done. It rests on two lemmas used
  throughout: a transaction moves only by a step of its own (`Moves`), and what it read at its start
  stays (`Stays`).
* `UsableInv`, for `OneUsablePerNonce`: of two `create_session` calls in turn the later one has found
  the earlier row, and locks it when it commits.
* `FailInv`, for `FailuresLimited`: any set of failures no two of which overlapped is within the
  limit. The last of them to be recorded counted all the others, so the set is what that claim
  counted, less than the limit, and itself (`OneMoreFailure`). This is the one argument about
  cardinalities; the claims need not be few, only finitely many.
* `DeliveryInv`, for `DeliveredOnce` and `CredentialReachesFlow`: a credential is in the envelope of its
  session (`EnvelopeInv`) or in one answer that emptied it (`AnswerInv`, `HandedInv`), and the flow
  that received such an answer has ended with an installation (`FlowInv`), so the flow that ends
  unknown has a lost answer to blame (`UnknownInv`).
* `EndingInv`, for the rest of `CredentialReachesFlow`: only `create_session` writes `locked`, an
  expired session was never claimed (`Lapsed`), and the answers `expired` and `locked` still say what
  the session is, since both are final.

TLC checked each part on the instance of `Pairing.cfg` before it was proved.

## 5. Entity synchronization

### Model

`EntitySync` composes the Connector's inventory, the websockets of successive sessions, their
handlers, the batch accumulator and the entity table.

* **Home and events.** `home[e]` is what `_serialize` would return for an entity: a state, or `Absent`
  (not exposed, disabled, no state). State events feed `pending` and the flush task, registry
  events the resync task; each task sleeps, then serializes and sends, and events while it is
  not done start no other (`entity_inventory.py:154`, `:163`). An entity may get its first state
  with a state event only. A state is not removed without a registry event: Home Assistant
  keeps registered entities as `unavailable`.
* **Sending.** Serialization precedes the FIFO send lock without a suspension, so the messages
  leave in the order they were serialized and `Send` appends them at once; the time a send takes
  is the `sending` state of its task. `Chunks` is every way to cut the items in one or two batches.
* **Sessions.** `Connect` loads the installation (`copy`), `Register` replaces the registered session
  and acknowledges with that copy, `Start` is the arrival. `Disconnect` drops what the Connector
  had noted and any suffix of what it sent; the old handler goes on with the rest. The
  Connector may give up waiting, and the abandoned handler still registers itself. The details of
  `replace` are in `SessionRegistry`.
* **Applying.** `touch`, the accumulator and the revision check run without a suspension; the
  transaction then reads, writes and commits (`BeginFull`, `BeginState`, `Commit`) while other handlers
  run. SQLAlchemy writes only attributes that differ from those read: `write`, with `Keep` for the
  rest. All rows are read at the start of a transaction; the code reads them one by one. A
  rejected `apply_state` leaves changed entities in its database session, and the cleanup of the
  handler commits them (`RejectState`, `Cleanup`).

Left out: `inventory_delta` (this Connector never sends it), entity renames, names and attributes,
state history, Alexa reporting after the commit, and the stop of the Connector after a 4002, which
`NeverOutOfSequence` shows cannot arise here.

### Runs

| run | instance | shows |
|---|---|---|
| `entity_sync` | 2 entities, 2 states, 2 sessions, 2 changes from any initial home | four properties |
| `entity_sync_latest` | the same | **finding** |

Two sessions give every overlap of an old and a new handler; two changes are one that starts a
task and one that comes during it; three changes were run once as well (6.8 million states) with
the same result. Symmetry is used in the passing run. Sessions run out, so
`CHECK_DEADLOCK FALSE`.

`SyncedWhenQuiet` is the purpose of the module: when a session is up, everything sent is applied and
no task is due, the cloud holds the home, *unless* a state event is still pending, a registry event
was dropped during a resync, or a replaced handler committed after its successor had read the
table. The run shows that these are the only ways: lost batches, partial commits of rejected updates,
stale acknowledgements and abandoned handlers do not make the cloud diverge. `NeverOutOfSequence`:
the acknowledged revision may be older than the table's (`evcp.py:901`), but it is the copy the
handler compares with, so no message of this Connector is refused for its revision or batch order. A
state update may be refused because its entity is not in the table yet; the Connector then
reconnects and sends a full inventory.

*Finding* (`EntitySyncLatest.cfg`). `docs/SPEC_V1.md:730` asks coalescing to preserve the latest state. A
change that comes while the flush of an earlier one is sending stays in `_pending` until some
other entity changes.

### Proofs

`EntitySyncProofs` proves all four invariants of the run, for any number of sessions, entities, values
and changes, from `SyncAssumption`. Each invariant below was model-checked on the instance of the run
before it was proved; the inductive invariant is `Types /\ StreamInv /\ ContentInv`.

* `SyncInv` (in `Types`) gives `AtMostOneLate`: a session is registered once, before its
  handler receives, so a replaced one is never registered again (`LateInv`), and the accumulator
  holds batches of receiving handlers only (`BatchInv`). `LinkInv` adds that tasks exist only while a
  session is up and that nothing was sent or received on a session that still waits for its
  acknowledgement.
* `StreamInv` gives `NeverOutOfSequence`. The websocket of a live handler holds batches in order, each
  the next of its message or the first of the next revision (`QueueInv`); it goes on where the
  handler is (`HeadInv`) or where the batches it gathered end (`PartInv`), and the Connector goes on
  where the websocket ends (`TailInv`). So every batch a handler meets is the one it waits for
  (`HeadFacts`) and it refuses only after its replacement (`RefusedWhenReplaced`). That any two batches
  on a websocket are of one message or of increasing revisions is stated for all pairs, as it does not
  follow from neighbours without an induction over the queue.
* `ContentInv` gives `SyncedWhenQuiet`. `Flight(s)` is the set of batches a handler has not applied, and
  `Outcome(s, e, v)` says that `v` is the last word in flight on an entity or, if there is none, the
  row once the current transaction commits. While the session is `Reliable`, the outcome of every
  entity that is not pending, or is absent at home, is its state at home. Sends add the last word,
  receiving moves it, `BeginFull` and `BeginState` turn it into what the transaction writes, `Commit` into
  the row. `Reliable` shows where each exception of the property is needed: a full inventory in flight
  heals a table that a late handler has disturbed, and `disturbed` after that full was read does not
  heal until the next.

## 6. The command path

### Model

`CommandPath` follows a command from who asked for it to Home Assistant and back.

* **Requests.** A request is one delivery of a directive (Alexa repeats one it got no answer to) or
  one click in the console. `Replayed` is the handler's replay cache (`alexa.py:1133`), `Resolve` the
  command that is built; the command id is the `messageId` of the directive when that is a UUID and
  drawn afresh otherwise (`CommandId`, `alexa.py:1336`), and the command of a *relative* directive
  is computed from the state, so a retry may carry another one.
* **Registry.** `Refuse`, `Join`, `Send`, `Wake`, `Timeout`, `Complete` are `dispatch` without its lock,
  which `SessionRegistry` models: here each section is one step. `Complete` keeps the detail
  that a caller who finishes after an eviction caches its outcome without a fingerprint.
* **Connector.** One command at a time: `Taken` is the receive loop, `Recall`, `Decline`, `Call`,
  `Return`, `Verified`, `Fail` are `EkonexVoiceCommandExecutor` with its memory of results.
* **Faults.** The link is lost between commands, or with a result (`LoseLink`, `Reply`), the Lambda gives
  up (`Tell`), the cloud restarts with empty memories (`CloudRestart`), the integration is reloaded
  while an action runs or not (`Reload`).
* **Dictionaries** are sequences of pairs in insertion order: the three caches evict the oldest
  entry when they exceed their cap.

`CommandPromise` is the abstract specification: what may be called (`Act` only while the command was
called no more often than each end forgot it), what may be answered (once per request, success only
when an action that serves the request returned), and what faults may do. Its variables
are histories and answers that `CommandPath` keeps, and the refinement mapping of `Promise == INSTANCE
CommandPromise WITH ...` names them; `KeepsPromise` is the specification it maps to.

`cloudLost` and `connectorLost` are history variables: how often an end forgot a command that it had
known, by eviction or restart. `era` is the value of `cloudLost` when a command was sent; nothing reads it
but the proof.

### Run

`command_path`: a directive with a UUID delivered twice, whose command may differ, and a click in the
console; memories of one entry each, lost links, timeouts, and one restart of the cloud or reload of
the Connector. Two deliveries are every race of a retry; the click is the other command that pushes an
entry out of each memory. A second call needs both ends to forget: by two evictions, or by one and a
fault. More faults and larger memories are covered by the theorems. The two deliveries are
interchangeable, and no property is about one of them: symmetry. Everything happens once, so
the system stops: `CHECK_DEADLOCK FALSE`.

`ActsOnce` answers the three hazards of the caches at once: an Alexa retry during the first
execution, a repetition between the action and the memory of its result, and bounds that differ
(256 at the Connector, 1024 in the cloud). Either memory suffices. `KeepsPromise` adds the answers:
an error may be answered for an action that was carried out, never a success for one that was not.

### Proofs

`CommandPathProofs` proves `TypeOK`, `ActsOnce` and the refinement `KeepsPromise` from `PathAssumption`, for any
requests, directives, caps and numbers of faults. The inductive invariant adds to `TypeOK`:

* `CloudInv`: what the cloud sent it remembers, in the table or the cache, unless it forgot it: a
  command was called at most once per `era`, and copies of it on the wire are each of a later one;
* `ConnectorInv`: a command that was called is running, remembered, or forgotten, once per call;
* `DoneInv`: a result that says success, wherever it is (on the wire, in a memory, in a
  future, in the replay cache), is of a command whose action returned;
* `WaitInv`: who waits awaits a request of the same command, and nobody is told before the end.

`ActsOnce` follows from the first two. For the refinement each action is mapped to the step of the
promise it implements, or to a stutter.

## 7. Directives

### Model

`Directives` is data, with the copies that make it interesting: `home` (Home Assistant), `copy` (the
row in the cloud, with the settings of the portal), `words` (what Alexa discovered) and `read` (the row the
handler read before the command). `Words` is what `capabilities` publishes, `Orders` what `_command`
makes of a directive, `Statuses`, `Service` and `With` what `_map_command` makes of a command,
`StateProperties` and `ResponseProperties` what is answered. `Change`, `Sync`, `Configure` and `Discover` change
the copies at any time. Numbers are integers; brightness is converted as Python rounds.

`Orders` is a set because where two modes of Home Assistant are one for Alexa the code takes the first
of a list whose order is not modelled.

### Run

`directives`: one entity of each of the six domains Alexa has, 24 of them, with and without the
features, modes and attributes the code branches on; two changes, which are enough to make any two
copies differ. One percentage and one temperature: nothing compares two of them.
`MeansWhatWasSaid` is the purpose: whatever copy is old, the action called is what was said. A
relative move is exempt when the cover moved since the cloud heard of its position.
`ReportedIsAdvertised` and `ConfirmedReported` are about the answers, `AdvertisedWorks` about what is
refused: for covers, switches, scenes and thermostat modes nothing that is published is
refused as invalid while the copies agree. The domains it leaves out are named in it, for these reasons:
lights and fans are published with brightness, color, power and percentage that the
Connector refuses when Home Assistant does not support them, and a thermostat without
`TARGET_TEMPERATURE` is published with a setpoint.

Also seen while modelling, and not claimed by any document: the answer for a light, a switch, a fan
or a cover carries the state of before the command; a discrete cover that is closed is reported
`powerState` ON; `AdjustBrightness`, `AdjustPercentage` and `AdjustTargetTemperature` are answered
`INVALID_DIRECTIVE`.

Left out: scale conversion of temperatures, the ranges of temperatures and color
temperatures (both outcomes are allowed), validation errors of malformed payloads, and the domains
only the console and the Connector know (`script`, `button`, `number`, `select`), which are the same
mapping without Alexa's part.

### Proofs

`DirectivesProofs` proves `TypeOK` and the four other invariants from
`DirectivesAssumption` (an entity has no settings at first, and the position of a cover is a
percentage, as in Home Assistant): for every entity, not the 24 of the run, every percentage, and any number
of changes. The invariant is `IInv`, which says that the command that is sent is one of those its words
mean for the row that was read (`Said`), and that what is called is that command (`Calls`);
`AnswerInv`, which says of which row and command an answer is made; and `RefusalInv`, which says why a
directive is called invalid: the cloud made no command of it, or the Connector did not support the command
for an entity that is still of that domain. From there each theorem is a lemma about operators,
one per interface of Alexa: what its words become (`PowerMeaning`, `RangeMeaning`, ...) and what is
reported (`StateAdvertised`, `ConfirmedAdvertised`). For `AdvertisedWorks` they are `WordsHaveOrders`, what
is published is never refused by the cloud, and `OrdersSupported`, nor by a Connector that knows the same
features and modes, except for lights, fans and target temperatures. `PercentOfBrightness` is the conversion: a
percentage of 0 to 100 comes back unchanged from its brightness of 0 to 255.

## 8. Alexa events

### Model

`AlexaEvents` models what follows a commit of the entities: `report_entity` and `reconcile_discovery`, and the
`Discover` directive that writes the same ledger. A *run* is one such sequence in one handler
(`Workers`); every database or HTTP call suspends it, so what it read (`seen`, `rows`, `first`) is part of
the run. `_send` tries three times, refreshes an expired token (which commits the database
session, and with it the ledger rows of the updates that were accepted: `Refresh`), gives up at a
4xx, and cannot tell a lost answer from a lost event (`Unanswered`). Rows that two runs
insert are a unique violation, which rolls the second back (`Conflict`, `twice`). Two entities that
share a voice name are both withheld (`Shares`), so the change of one publishes or
removes the other. A column whose value did not change is not written (`Wrote`).

`alexa` and `heard` are what Alexa has, which the cloud never sees. `doubt` is a history variable: the
records that may differ from it, by the three ways named in `LedgerTrue`. `settled` says that a run
ended with every report accepted and nothing changed since.

Left out: more than one linked account (each is handled by itself), the wording of events,
`inventory_delta`, the snapshot for the console, the audit rows.

### Run

`alexa_events`: two entities and two names, so that they may collide, two handlers, three runs, three
faults. Three runs are two that overlap and one before or after; three faults are the number of
attempts of a delivery. `LedgerTrue`: records and Alexa agree except where runs overlapped, an answer
was lost or the process stopped between a delivery and its commit, and an undisturbed accepted
report ends the exception. `Reconciled` is the
purpose: after an accepted run, Alexa has exactly what is exposed. Runs are bounded, so the system stops:
`CHECK_DEADLOCK FALSE`.

### Proofs

`AlexaEventsProofs` proves `TypeOK` and `OnlyAcknowledged` from `EventsAssumption`: overlaps, crashes and lost
answers included, nothing is recorded as published that Alexa did not acknowledge, but for the answers to
a Discover. The invariant adds `Pending`: a
run holds updates that are accepted and not yet committed only while it deletes, and each of them
was acknowledged; so none of the commits that may carry them (the end of the run, or a token
refresh in between) records anything else.

`LedgerTrue` and `Reconciled` follow from a second invariant, `TruthInv`, proved on top of the first.
`AloneInv`: a run that met another has put every record in doubt, one that met none is the only run.
`TrueInv`: what Alexa has while a run is alone is what is recorded, or what the run sent and did not
commit yet (`Held`), phase by phase (`RunTrue`); it is this clause that makes the `Row` of a Discover
right although it is written before the answer is sent. `SettledInv`: while nothing changes, whatever
a run carries is what the entities are now. The argument is in two parts: `StepFacts` says what any step of
a run does to the others, and is enough when it is not alone (`AmongOthers`); for a run that is alone,
`Told` says what an attempt may have told Alexa and `SentTrue` that the end of the delivery records it.

## 9. Accounts

### Model

`Accounts` composes, over one `Clock`, three modules that share no variable but the time:

* `Portal`: login (count, verify, record), sessions, and the forms of one browser. A request carries
  the cookies the browser had when it was sent (`Open`), is identified (`Identify`) and then handled;
  between these steps others of the same browser run, so a form may arrive under a session that
  another tab changed. `csrf` is the cookie of the last page, a page's token names tenant and time. The page
  that answers a claim has a token of its own, and no cookie for it. A code is claimed by the form
  (`PairSubmit`, which compares page and cookie) or by `POST /connector/v1/pairing/claims` (`ClaimByApi`, which
  compares nothing); both take the tenant of the session, and are refused without one (`Refused`). A tenant is
  selected in the portal (`SelectTenant`) or when Alexa is linked (`ChooseTenant`, a transaction before that of
  the code); the row that is written is the one read at the identification, and only if it changes: a
  session deleted meanwhile makes the write, and a logout, fail. `told` is a history variable, what the user
  was last told is selected; `overtaken` are the requests during which another one of the session selected.
* `AlexaLink`: `exchange_token` in two steps (`Exchange`, `Mint`) without a row lock; a pair of tokens
  is named by the exchange that made it; `raced` remembers the codes with a credential that two
  exchanges held at once.
* `Maintenance`: `run_forever` (`Look`, `Wake`, `DatabaseError`), `execute_cleanup` (`Start`, then the
  transaction, then `Finish`), the manual run, restarts; `lapsed` collects the days that ended without a run
  after their boundary, and where the scheduler was then (`MaintenancePass`).

What composes them is `GiveCode`, a consent in the portal that issues the code an exchange begins
with, and `Clean`, which deletes attempts and sessions by the time its run started.

A step of the clock is long enough for a handler to finish; `Patient` keeps time from passing a sleep that
is over. The wall clock may be a step behind the monotonic one the sleep uses (`Wake`).

Left out: the expiry of access tokens, client authentication and PKCE, the CSRF token of the login form
itself, the unlinking of an account (no code path ends a link; `revoke` ends one pair), and
the deletion of history, events and audit rows, which nothing modelled reads.

### Run

`accounts`: one user, two tabs, two tenants, four portal requests, three exchanges, a day of three
steps. The full product is out of TLC's reach, so the constraint `Slices` names the
combinations explored, each in full: cleanups with errors, restarts and manual runs without users; three
logins over the cleanup; any two steps over the cleanup; up to four forms, and up to
three exchanges, before it. A request acts on the others only through cookie, session, attempts and
code, and each slice has all the requests that share one of these. A login, the page of a tenant, a
selection in another tab and a claim are four forms; a claim that a selection overtakes, a selection that a logout
or the cleanup overtakes, are two under way. Five steps of the clock are one
boundary missed, met or passed and the next; a token of a page lives for one step. Requests and exchanges
begin in one order (`Unmade`, `Unused`): until then they differ in nothing. Time ends: `CHECK_DEADLOCK FALSE`.

* `ClaimedForSelected`: by either route an installation is claimed for the tenant the user was last told
  is selected, whichever tab, form or linking told it; the exception is a claim a selection overtakes,
  which the code does not lock the session against. The comparison of page and tenant in the
  form's route is a guard of that route; the other has none, and the property needs none.
* `SessionsEnd`: only a login makes a session valid. A selection that commits after the logout of another
  tab, or after the session has expired or been deleted, revives nothing.
* `LoginsLimited`: the window exceeds the limit only by failures counted before another was
  recorded; a cleanup gives none back.
* `OneLivePair`: `docs/ALEXA_SMART_HOME.md:13-14` says codes are one-use and refresh tokens rotate; of the
  pairs that descend from one consent one is usable, but for exchanges that held the same
  credential at once, which is what the missing row lock costs.
* `CleanedDaily`: each boundary gets one scheduled run at most, failed ones included (a failed run is not
  tried again that day: it was recorded before it ran), and a day ends without a run after its boundary only
  if the scheduler is then down, waiting to retry, or still in the run of an earlier day. `lapsed` is the
  history variable of such days. The exception is a real gap: `next_cleanup_at` compares the latest run with
  the boundary of the current day alone, and before it both branches of `maintenance.py:105` return it, so a
  service that is down over a boundary and restarts after midnight skips the day, where
  `docs/ADMIN_CONSOLE.md:120-121` and `CHANGELOG.md:232` say that it catches up. A restart on the same day
  does catch up, which is what the property says of it.

`PairSubmit` models another disagreement with the documents that no property is about: the page that answers
a claim (`pairing_api.py:534`), or data that cannot be read (`527`), carries a new token that no cookie holds,
so a second claim or a logout from that page is answered 403 until `/pair` is loaded again, where
`docs/pairing.md:50-51` says that submissions use the token in the cookie.

### Proofs

`AccountsProofs` proves the five invariants and the action property of the passing run, from the assumptions of its
modules and for all sizes, without the slices of the run. `OneLivePair` alone is not inductive: a pair that is
about to be minted counts too. `LinkInv` says that pairs descend from issued codes
(`Lineage`), that of an unraced code one credential is live (`OneLive`), one exchange holds one
(`OneHolder`), and the held one is the live one (`HeldIsLast`). `CleanInv` relates the counted runs to the
latest recorded one (`RunsRecorded`, `OneRunADay`) and the sleep to the next boundary (`SleepsUntil`); so a
day at whose end the scheduler sleeps had its run (`DayRun`), which is what keeps `LapsedAway`.

`LoginsLimited` relates three things, each inductive only with the others (`LoginInv`). A login that has
counted and not yet failed found fewer failures than the limit, and what fails from then on is in its
`counted`: so `FewCounted`, its window holds fewer than the limit that it counted itself. The
count is of the attempts that are still recorded: `FailuresKept` says that a failure is recorded until it is
older than the retention, which `RetentionAssumption` (`config.py:37`) makes longer than the window; a
cleanup deletes by the time it began, which has passed (`CleanupsBegun`). When a login fails,
the failures of any window it joins either include one committed while it was counted, or are all
among those it found, and with it are at most the limit (`FailKeeps`). The cardinalities are of finite
sets because only finitely many requests were made (`Made`), whatever `Requests` is. The candidate
invariants were model-checked on the instance of the run first.

`ClaimedForSelected` and `SessionsEnd` follow from `SelectionInv`: every cookie is of a session whose login is over
(`Named`); a session has no tenant its user was not told (`Standing`); and a request that was identified,
unless a selection overtook it, has a tenant its user was told, which is also the session's unless that
dropped it (`Consistent`). The last clause is needed because a selection of the tenant the session already
has writes nothing. Every other step only lessens a session: drops its tenant, revokes or deletes it (`Lessened`), which
keeps all of this and makes no session valid; what selects is treated on its own (`SelectSelects`).

## 10. Not modelled

* *Connection supervisor.* Its effects are in `SessionRegistry`, `EntitySync` and `CommandPath`; its own
  states, backoff and terminal errors are the row of the plan that is left.
* *Handshake.* Authentication and the `hello` checks are single reads before a session exists.
* *Version compatibility, name normalization, cover icons* are text and tables without state.
* *Admin console, portal pages, legal pages, migrations, bootstrap, diagnostics, audit rows, history* read or
  write the database in single requests with no protocol of their own; the operations of the
  console that reach other parts are modelled there (`Operate`, `Configure`, `Edit`, `Resync`).

`PROJECT.json` gives the reason per component, and with each hazard that no property covers why.
