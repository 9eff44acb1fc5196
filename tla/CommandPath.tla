---------------------------- MODULE CommandPath ----------------------------
(***************************************************************************)
(* The path of a command, end to end: the Lambda that relays a directive,  *)
(* its request handler in the cloud (alexa.py; a click in the console is   *)
(* admin_console.py), CommandDispatchService, what the session registry    *)
(* remembers of commands (evcp.py; SessionRegistry models its locks and    *)
(* replacements), the websocket, and the executor of the Connector, which  *)
(* calls Home Assistant.                                                   *)
(*                                                                         *)
(* A directive can be delivered several times, both ends keep bounded      *)
(* memories of what they did, and either end can restart.                  *)
(***************************************************************************)
EXTENDS Naturals, Sequences, FiniteSets

CONSTANTS
  Requests,         \* deliveries of directives, and commands of the console
  Directives,       \* what Alexa asked, each with its messageId
  NoDirective,      \* for a command of the console
  DirectiveOf,      \* the directive a request delivers
  Uuids,            \* the directives whose messageId is a UUID
  Relative,         \* the directives whose command depends on the state
  NoRequest,
  ReplayCap, CompletedCap, ResultsCap,    \* 2048, 1024 and 256 in the code
  MaxFaults                               \* bound: restarts and reloads

ASSUME PathAssumption ==
  /\ DirectiveOf \in [Requests -> Directives \cup {NoDirective}]
  /\ NoDirective \notin Directives /\ Directives \cap Requests = {}
  /\ Uuids \subseteq Directives /\ Relative \subseteq Directives
  /\ NoRequest \notin Requests \cup Directives
  /\ {ReplayCap, CompletedCap, ResultsCap} \subseteq Nat \ {0}
  /\ MaxFaults \in Nat

(* A messageId that is a UUID is the id of the command; otherwise, and for  *)
(* the console, each request draws one.                                     *)
CommandId(r) == IF DirectiveOf[r] \in Uuids THEN DirectiveOf[r] ELSE r

(* The commands that carry out what a request asks.                         *)
Serving(r) ==
  {CommandId(q) : q \in {p \in Requests :
     p = r \/ (DirectiveOf[p] = DirectiveOf[r] /\ DirectiveOf[r] # NoDirective)}}

Ids == Requests \cup Directives

(* The command of an absolute directive is always the same; a relative one  *)
(* is computed from the state the cloud has of the entity.  A fingerprint   *)
(* can be lost with the outcome it was kept for.                            *)
Specs == {"same", "other"}
Fingerprints == Specs \cup {"lost"}

(* "error" stands for every status but success.                             *)
Statuses == {"success", "error"}
Undone == "undone"

(* Bounded dictionaries, oldest entry first.                                *)
Holds(dict, k) == \E i \in DOMAIN dict : dict[i].key = k
Get(dict, k) == dict[CHOOSE i \in DOMAIN dict : dict[i].key = k].value
Shrink(dict, cap) == IF Len(dict) > cap THEN Tail(dict) ELSE dict
Put(dict, k, v, cap) ==
  IF Holds(dict, k)
    THEN [i \in DOMAIN dict |->
            IF dict[i].key = k THEN [key |-> k, value |-> v] ELSE dict[i]]
    ELSE Shrink(Append(dict, [key |-> k, value |-> v]), cap)

VARIABLES
  pc, spec, outcome, waitsOn,  \* a handler: its place, command, outcome, and
                               \* the request whose future it awaits
  told,             \* what Alexa, or the console, was told of a request
  replay,           \* _replay: answers by directive
  completed,        \* _completed: outcomes by command
  pending,          \* _pending: the request that sent a command
  registered,       \* the registry has a session
  wire, back,       \* commands and results under way on the websocket
  linked,           \* the Connector has a websocket
  results,          \* EkonexVoiceCommandExecutor._results
  executing,        \* the command whose action is running
  restarts, reloads,
  acts,             \* history: actions called for a command
  done,             \* history: commands whose action returned
  cloudLost, connectorLost  \* history: how often an end forgot a command

requestVars   == <<pc, spec, outcome, waitsOn, told>>
registryVars  == <<completed, pending, registered>>
connectorVars == <<linked, results, executing>>
faultVars     == <<restarts, reloads>>
history       == <<acts, done, cloudLost, connectorLost>>
vars == <<requestVars, replay, registryVars, wire, back, connectorVars,
          faultVars, history>>

Idle == [id |-> NoRequest, spec |-> "same", phase |-> "idle"]

(* A command on the websocket, with the number of times the cloud had       *)
(* forgotten it when it was sent.                                           *)
Commands == [id : Ids, spec : Specs, era : Nat]
Replies  == [id : Ids, status : Statuses]
Dicts(keys, values) == Seq([key : keys, value : values])

TypeOK ==
  /\ pc \in [Requests -> {"new", "resolved", "waiting", "recorded", "answered"}]
  /\ spec \in [Requests -> Specs]
  /\ outcome \in [Requests -> Statuses \cup {Undone}]
  /\ waitsOn \in [Requests -> Requests \cup {NoRequest}]
  /\ told \in [Requests -> Statuses \cup {"nothing"}]
  /\ replay \in Dicts(Directives, Statuses)
  /\ completed \in Dicts(Ids, [spec : Fingerprints, status : Statuses])
  /\ results \in Dicts(Ids, [spec : Specs, status : Statuses])
  /\ pending \in [Ids -> Requests \cup {NoRequest}]
  /\ registered \in BOOLEAN /\ linked \in BOOLEAN
  /\ wire \in Seq(Commands) /\ back \in Seq(Replies)
  /\ executing \in [id : Ids, spec : Specs, phase : {"calling", "verifying"}]
                     \cup {Idle}
  /\ restarts \in 0..MaxFaults /\ reloads \in 0..MaxFaults
  /\ {acts, cloudLost, connectorLost} \subseteq [Ids -> Nat]
  /\ done \in SUBSET Ids

Init ==
  /\ pc = [r \in Requests |-> "new"] /\ spec = [r \in Requests |-> "same"]
  /\ outcome = [r \in Requests |-> Undone]
  /\ waitsOn = [r \in Requests |-> NoRequest]
  /\ told = [r \in Requests |-> "nothing"]
  /\ replay = <<>> /\ completed = <<>> /\ results = <<>>
  /\ pending = [c \in Ids |-> NoRequest]
  /\ registered = FALSE /\ linked = FALSE /\ wire = <<>> /\ back = <<>>
  /\ executing = Idle
  /\ restarts = 0 /\ reloads = 0
  /\ acts = [c \in Ids |-> 0] /\ done = {}
  /\ cloudLost = [c \in Ids |-> 0] /\ connectorLost = [c \in Ids |-> 0]

-----------------------------------------------------------------------------
(* The handler of a request                                                 *)

(* Alexa hears the answer, unless the Lambda gave up after 8 s and said     *)
(* INTERNAL_ERROR.  The frame of the handler ends.                          *)
Tell(r, answer) ==
  /\ pc' = [pc EXCEPT ![r] = "answered"]
  /\ \/ told' = [told EXCEPT ![r] = answer]
     \/ DirectiveOf[r] # NoDirective /\ told' = [told EXCEPT ![r] = "error"]
  /\ spec' = [spec EXCEPT ![r] = "same"]
  /\ outcome' = [outcome EXCEPT ![r] = Undone]

Outcome(r, status) ==
  /\ outcome' = [outcome EXCEPT ![r] = status]
  /\ pc' = [pc EXCEPT ![r] = "recorded"]

(* A directive that was answered is answered again from _replay.            *)
Replayed(r) ==
  /\ pc[r] = "new"
  /\ DirectiveOf[r] # NoDirective /\ Holds(replay, DirectiveOf[r])
  /\ Tell(r, Get(replay, DirectiveOf[r]))
  /\ UNCHANGED <<waitsOn, replay, registryVars, wire, back, connectorVars,
                 faultVars, history>>

Fresh(r) == pc[r] = "new" /\ ~Holds(replay, DirectiveOf[r])

(* Without a valid token or an eligible entity the answer is an HTTP error, *)
(* which is not remembered.                                                 *)
NoEndpoint(r) ==
  /\ Fresh(r)
  /\ Tell(r, "error")
  /\ UNCHANGED <<waitsOn, replay, registryVars, wire, back, connectorVars,
                 faultVars, history>>

(* A directive without a command is INVALID_DIRECTIVE, an entity that is    *)
(* unavailable ENDPOINT_UNREACHABLE.                                        *)
Reject(r) ==
  /\ Fresh(r)
  /\ Outcome(r, "error")
  /\ UNCHANGED <<spec, waitsOn, told, replay, registryVars, wire, back,
                 connectorVars, faultVars, history>>

Resolve(r, sp) ==
  /\ Fresh(r)
  /\ sp = "other" => DirectiveOf[r] \in Relative
  /\ spec' = [spec EXCEPT ![r] = sp]
  /\ pc' = [pc EXCEPT ![r] = "resolved"]
  /\ UNCHANGED <<outcome, waitsOn, told, replay, registryVars, wire, back,
                 connectorVars, faultVars, history>>

-----------------------------------------------------------------------------
(* ConnectorSessionRegistry.dispatch                                        *)

(* The fingerprint the registry has of a command, if any.                   *)
Fingerprint(c) ==
  IF pending[c] # NoRequest THEN spec[pending[c]]
    ELSE IF Holds(completed, c) THEN Get(completed, c).spec ELSE "lost"

Conflict(r) == Fingerprint(CommandId(r)) \notin {"lost", spec[r]}

(* Answered without sending: the id is that of another command, the outcome *)
(* is known, nobody is connected, the session is stale or being replaced,   *)
(* or the websocket fails.                                                  *)
Refuse(r) ==
  LET c == CommandId(r) IN
  /\ pc[r] = "resolved"
  /\ Outcome(r, IF ~Conflict(r) /\ Holds(completed, c)
                  THEN Get(completed, c).status ELSE "error")
  /\ UNCHANGED <<spec, waitsOn, told, replay, registryVars, wire, back,
                 connectorVars, faultVars, history>>

MaySend(r) ==
  /\ pc[r] = "resolved"
  /\ ~Conflict(r) /\ ~Holds(completed, CommandId(r))
  /\ registered

Wait(r, owner) ==
  /\ waitsOn' = [waitsOn EXCEPT ![r] = owner]
  /\ pc' = [pc EXCEPT ![r] = "waiting"]

(* A second request for a command under way waits for the same result.      *)
Join(r) ==
  /\ MaySend(r) /\ pending[CommandId(r)] # NoRequest
  /\ Wait(r, pending[CommandId(r)])
  /\ UNCHANGED <<spec, outcome, told, replay, registryVars, wire, back,
                 connectorVars, faultVars, history>>

Message(r) ==
  [id |-> CommandId(r), spec |-> spec[r], era |-> cloudLost[CommandId(r)]]

(* What is sent after the Connector lost the websocket is lost.             *)
Send(r) ==
  /\ MaySend(r) /\ pending[CommandId(r)] = NoRequest
  /\ Wait(r, r)
  /\ pending' = [pending EXCEPT ![CommandId(r)] = r]
  /\ wire' = IF linked THEN Append(wire, Message(r)) ELSE wire
  /\ UNCHANGED <<spec, outcome, told, replay, completed, registered, back,
                 connectorVars, faultVars, history>>

(* The outcome is cached, which may push out the oldest one and with it the *)
(* fingerprint of its command.                                              *)
Complete(r, status) ==
  LET c   == CommandId(r)
      new == Put(completed, c,
                 [spec |-> IF Fingerprint(c) = "lost" THEN "lost" ELSE spec[r],
                  status |-> status], CompletedCap)
  IN /\ completed' = new
     /\ pending' = IF pending[c] = waitsOn[r]
                     THEN [pending EXCEPT ![c] = NoRequest] ELSE pending
     /\ cloudLost' = [d \in Ids |->
          cloudLost[d] + IF Holds(completed, d) /\ ~Holds(new, d) THEN 1 ELSE 0]
     /\ waitsOn' = [waitsOn EXCEPT ![r] = NoRequest]
     /\ pc' = [pc EXCEPT ![r] = "recorded"]
     /\ UNCHANGED <<spec, told, replay, registered, wire, back, connectorVars,
                    faultVars, acts, done, connectorLost>>

(* Everyone who awaits the future of an owner gets its result.              *)
SetResult(owners, status) ==
  [r \in Requests |-> IF waitsOn[r] \in owners /\ outcome[r] = Undone
                        THEN status ELSE outcome[r]]

Wake(r) ==
  /\ pc[r] = "waiting" /\ outcome[r] # Undone
  /\ Complete(r, outcome[r])
  /\ UNCHANGED outcome

(* Mutant: a command that was sent counts as executed.                      *)
TimeoutIsSuccess(r) ==
  /\ pc[r] = "waiting"
  /\ outcome' = [SetResult({waitsOn[r]}, "success") EXCEPT ![r] = "success"]
  /\ Complete(r, "success")

(* After 8 s; it may coincide with the result.                              *)
Timeout(r) ==
  /\ pc[r] = "waiting"
  /\ outcome' = [SetResult({waitsOn[r]}, "error") EXCEPT ![r] = "error"]
  /\ Complete(r, "error")

(* Mutant: the handler answers without waiting for the result.              *)
AnswerEarly(r) ==
  /\ pc[r] \in {"waiting", "recorded"}
  /\ replay' = IF DirectiveOf[r] = NoDirective THEN replay
               ELSE Put(replay, DirectiveOf[r], outcome[r], ReplayCap)
  /\ Tell(r, outcome[r])
  /\ UNCHANGED <<waitsOn, registryVars, wire, back, connectorVars, faultVars,
                 history>>

(* The answer is remembered and returned.                                   *)
Answer(r) ==
  /\ pc[r] = "recorded"
  /\ replay' = IF DirectiveOf[r] = NoDirective THEN replay
               ELSE Put(replay, DirectiveOf[r], outcome[r], ReplayCap)
  /\ Tell(r, outcome[r])
  /\ UNCHANGED <<waitsOn, registryVars, wire, back, connectorVars, faultVars,
                 history>>

-----------------------------------------------------------------------------
(* The websocket                                                            *)

Undecided == {pending[c] : c \in {d \in Ids : /\ pending[d] # NoRequest
                                              /\ outcome[pending[d]] = Undone}}

(* A new websocket takes over once the commands of the one before are       *)
(* answered.                                                                *)
Connect ==
  /\ ~linked /\ (registered => Undecided = {})
  /\ linked' = TRUE /\ registered' = TRUE
  /\ wire' = <<>> /\ back' = <<>>
  /\ UNCHANGED <<requestVars, replay, completed, pending, results, executing,
                 faultVars, history>>

(* The handler ends, by itself or for what it received: who waits is told.  *)
EndSession ==
  /\ registered' = FALSE
  /\ outcome' = SetResult(Undecided, "error")
  /\ back' = <<>>

Remove ==
  /\ registered
  /\ EndSession
  /\ UNCHANGED <<pc, spec, waitsOn, told, replay, completed, pending, wire,
                 connectorVars, faultVars, history>>

(* A result resolves its command; that of a completed one is ignored; any   *)
(* other ends the session.                                                  *)
Result ==
  LET m == Head(back) IN
  /\ registered /\ back # <<>>
  /\ \/ /\ pending[m.id] \in Undecided
        /\ outcome' = SetResult({pending[m.id]}, m.status)
        /\ back' = Tail(back)
        /\ UNCHANGED registered
     \/ /\ pending[m.id] = NoRequest /\ Holds(completed, m.id)
        /\ back' = Tail(back)
        /\ UNCHANGED <<outcome, registered>>
     \/ /\ pending[m.id] \notin Undecided
        /\ ~ (pending[m.id] = NoRequest /\ Holds(completed, m.id))
        /\ EndSession
  /\ UNCHANGED <<pc, spec, waitsOn, told, replay, completed, pending, wire,
                 connectorVars, faultVars, history>>

(* The Connector loses its websocket between two commands, and what was     *)
(* under way to it.                                                         *)
LoseLink ==
  /\ linked /\ executing = Idle
  /\ linked' = FALSE /\ wire' = <<>>
  /\ UNCHANGED <<requestVars, replay, registryVars, back, results, executing,
                 faultVars, history>>

-----------------------------------------------------------------------------
(* Connector: the receive loop handles one command at a time                *)

(* The result is sent, or lost with the websocket; rest is what the         *)
(* websocket still delivers.                                                *)
Reply(c, status, rest) ==
  \/ /\ back' = IF registered THEN Append(back, [id |-> c, status |-> status])
                              ELSE back
     /\ wire' = rest
     /\ UNCHANGED linked
  \/ /\ linked' = FALSE /\ wire' = <<>>
     /\ UNCHANGED back

Remember(c, sp, status) ==
  LET new == Put(results, c, [spec |-> sp, status |-> status], ResultsCap) IN
  /\ results' = new
  /\ connectorLost' = [d \in Ids |->
       connectorLost[d] + IF Holds(results, d) /\ ~Holds(new, d) THEN 1 ELSE 0]

Taken == linked /\ executing = Idle /\ wire # <<>>

(* A command it remembers is answered from memory.                          *)
Recall ==
  LET m == Head(wire) IN
  /\ Taken /\ Holds(results, m.id)
  /\ Reply(m.id, IF Get(results, m.id).spec = m.spec
                   THEN Get(results, m.id).status ELSE "error", Tail(wire))
  /\ UNCHANGED <<requestVars, replay, registryVars, results, executing,
                 faultVars, history>>

(* Mutant: the memory is keyed by what the command does.                    *)
ForgottenContent(m) ==
  ~ (Holds(results, m.id) /\ Get(results, m.id).spec = m.spec)

Forgotten(m) == ~Holds(results, m.id)

(* The entity is not found, hidden or unavailable, or the command unfit.    *)
Decline ==
  LET m == Head(wire) IN
  /\ Taken /\ Forgotten(m)
  /\ Remember(m.id, m.spec, "error")
  /\ Reply(m.id, "error", Tail(wire))
  /\ UNCHANGED <<requestVars, replay, registryVars, executing, faultVars, acts,
                 done, cloudLost>>

(* The action of Home Assistant is called.                                  *)
Call ==
  LET m == Head(wire) IN
  /\ Taken /\ Forgotten(m)
  /\ executing' = [id |-> m.id, spec |-> m.spec, phase |-> "calling"]
  /\ acts' = [acts EXCEPT ![m.id] = @ + 1]
  /\ wire' = Tail(wire)
  /\ UNCHANGED <<requestVars, replay, registryVars, back, linked, results,
                 faultVars, done, cloudLost, connectorLost>>

Finish(status) ==
  /\ Remember(executing.id, executing.spec, status)
  /\ Reply(executing.id, status, wire)
  /\ executing' = Idle
  /\ UNCHANGED <<requestVars, replay, registryVars, faultVars, acts, cloudLost>>

(* It returns; the state of a cover is then observed for a second.          *)
Return ==
  /\ executing.phase = "calling"
  /\ done' = done \cup {executing.id}
  /\ \/ Finish("success")
     \/ /\ executing' = [executing EXCEPT !.phase = "verifying"]
        /\ UNCHANGED <<requestVars, replay, registryVars, wire, back, linked,
                       results, faultVars, acts, cloudLost, connectorLost>>

Verified ==
  /\ executing.phase = "verifying"
  /\ Finish("success")
  /\ UNCHANGED done

(* It raises, or is cancelled after 8 s.                                    *)
Fail ==
  /\ executing.phase = "calling"
  /\ Finish("error")
  /\ UNCHANGED done

-----------------------------------------------------------------------------
(* Faults                                                                   *)

(* The cloud process restarts: its handlers and memories are gone, and the  *)
(* Lambda reports an error.                                                 *)
CloudRestart ==
  /\ restarts + reloads < MaxFaults
  /\ restarts' = restarts + 1
  /\ pc' = [r \in Requests |-> IF pc[r] = "new" THEN "new" ELSE "answered"]
  /\ told' = [r \in Requests |->
       IF pc[r] \notin {"new", "answered"} THEN "error" ELSE told[r]]
  /\ spec' = [r \in Requests |-> "same"]
  /\ outcome' = [r \in Requests |-> Undone]
  /\ waitsOn' = [r \in Requests |-> NoRequest]
  /\ replay' = <<>> /\ completed' = <<>>
  /\ pending' = [c \in Ids |-> NoRequest]
  /\ registered' = FALSE /\ back' = <<>>
  /\ cloudLost' = [c \in Ids |-> cloudLost[c] +
       IF pending[c] # NoRequest \/ Holds(completed, c) THEN 1 ELSE 0]
  /\ UNCHANGED <<wire, connectorVars, reloads, acts, done, connectorLost>>

(* The integration is reloaded: a new executor, a new connection.  The      *)
(* action that was running is cancelled.                                    *)
Reload ==
  /\ restarts + reloads < MaxFaults
  /\ reloads' = reloads + 1
  /\ results' = <<>> /\ executing' = Idle
  /\ linked' = FALSE /\ wire' = <<>>
  /\ connectorLost' = [c \in Ids |-> connectorLost[c] +
       IF executing.id = c \/ Holds(results, c) THEN 1 ELSE 0]
  /\ UNCHANGED <<requestVars, replay, registryVars, back, restarts, acts, done,
                 cloudLost>>

-----------------------------------------------------------------------------
Handler(r) ==
  \/ Replayed(r) \/ NoEndpoint(r) \/ Reject(r) \/ (\E sp \in Specs : Resolve(r, sp))
  \/ Refuse(r) \/ Join(r) \/ Send(r) \/ Wake(r) \/ Timeout(r) \/ Answer(r)

Websocket == Connect \/ Remove \/ Result \/ LoseLink

Connector == Recall \/ Decline \/ Call \/ Return \/ Verified \/ Fail

Next ==
  \/ \E r \in Requests : Handler(r)
  \/ Websocket \/ Connector \/ CloudRestart \/ Reload

Spec == Init /\ [][Next]_vars

-----------------------------------------------------------------------------
(* The cloud, and the Connector, each by itself keeps a command from being  *)
(* carried out twice, however often it is delivered and whatever is lost on *)
(* the way: Home Assistant is called once more only after both have         *)
(* forgotten the command.                                                   *)
ActsOnce ==
  \A c \in Ids : /\ acts[c] <= 1 + cloudLost[c]
                 /\ acts[c] <= 1 + connectorLost[c]

(* What the promise speaks of is what the path records of itself.           *)
Promise ==
  INSTANCE CommandPromise WITH
    Requests <- Requests, Ids <- Ids, Serving <- Serving,
    acts <- acts, done <- done, told <- told,
    cloudLost <- cloudLost, connectorLost <- connectorLost

(* What Alexa and the console may rely on: CommandPromise.                  *)
KeepsPromise == Promise!Spec
=============================================================================
