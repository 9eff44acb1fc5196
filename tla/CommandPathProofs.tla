-------------------------- MODULE CommandPathProofs --------------------------
(***************************************************************************)
(* Proofs about CommandPath: its types, that each end keeps a command from *)
(* being carried out twice, and that the path implements CommandPromise,   *)
(* for every set of requests and directives and every size of the caches.  *)
(***************************************************************************)
EXTENDS CommandPath, SequenceTheorems, TLAPS

(* The cloud remembers the command.                                         *)
Known(c) == pending[c] # NoRequest \/ Holds(completed, c)

(* The Connector remembers the command, or is carrying it out.              *)
Recalled(c) == Holds(results, c) \/ executing.id = c

Acted(c) == IF Known(c) THEN cloudLost[c] + 1 ELSE cloudLost[c]
ActedThere(c) == IF Recalled(c) THEN connectorLost[c] + 1 ELSE connectorLost[c]

(* A command was carried out at most once per time the cloud knew it, and a *)
(* copy under way is the first of its time, which has not been carried out. *)
CloudInv ==
  /\ \A c \in Ids : acts[c] <= Acted(c)
  /\ \A i \in DOMAIN wire :
       /\ wire[i].era < Acted(wire[i].id)
       /\ acts[wire[i].id] <= wire[i].era
  /\ \A i, j \in DOMAIN wire :
       i < j /\ wire[i].id = wire[j].id => wire[i].era < wire[j].era

ConnectorInv ==
  /\ \A c \in Ids : acts[c] <= ActedThere(c)
  /\ executing # Idle => acts[executing.id] > 0

(* Success is only ever recorded of a command that returned.                *)
DoneInv ==
  /\ \A i \in DOMAIN results :
       results[i].value.status = "success" => results[i].key \in done
  /\ \A i \in DOMAIN completed :
       completed[i].value.status = "success" => completed[i].key \in done
  /\ \A i \in DOMAIN replay : replay[i].value = "success" =>
       \E q \in Requests : DirectiveOf[q] = replay[i].key /\ CommandId(q) \in done
  /\ \A i \in DOMAIN back : back[i].status = "success" => back[i].id \in done
  /\ executing.phase = "verifying" => executing.id \in done
  /\ \A r \in Requests : outcome[r] = "success" => CommandId(r) \in done

(* Who waits, waits for its own command, and nobody is answered twice.      *)
WaitInv ==
  /\ \A c \in Ids : pending[c] # NoRequest => CommandId(pending[c]) = c
  /\ \A r \in Requests :
       /\ waitsOn[r] # NoRequest => CommandId(waitsOn[r]) = CommandId(r)
       /\ pc[r] = "recorded" => outcome[r] # Undone
       /\ pc[r] # "answered" => told[r] = "nothing"

IInv == TypeOK /\ CloudInv /\ ConnectorInv /\ DoneInv /\ WaitInv

-----------------------------------------------------------------------------
(* Dictionaries                                                             *)

LEMMA PutFacts ==
  ASSUME NEW Keys, NEW Values, NEW dict \in Dicts(Keys, Values),
         NEW k \in Keys, NEW v \in Values, NEW cap \in Nat \ {0}
  PROVE  /\ Put(dict, k, v, cap) \in Dicts(Keys, Values)
         /\ Holds(Put(dict, k, v, cap), k)
         /\ \A i \in DOMAIN Put(dict, k, v, cap) :
              \/ Put(dict, k, v, cap)[i] = [key |-> k, value |-> v]
              \/ \E j \in DOMAIN dict : Put(dict, k, v, cap)[i] = dict[j]
  <1> DEFINE Entries == [key : Keys, value : Values]
             e == [key |-> k, value |-> v]
  <1>1. dict \in Seq(Entries) /\ e \in Entries  BY DEF Dicts
  <1>2. CASE Holds(dict, k)
    <2> DEFINE new == [i \in DOMAIN dict |-> IF dict[i].key = k THEN e ELSE dict[i]]
    <2>1. Put(dict, k, v, cap) = new  BY <1>2 DEF Put
    <2>2. DOMAIN dict = 1..Len(dict) /\ Len(dict) \in Nat /\ \A i \in 1..Len(dict) : dict[i] \in Entries
      BY <1>1, LenProperties, ElementOfSeq
    <2>3. new \in Seq(Entries)
      <3>1. new \in [1..Len(dict) -> Entries]  BY <1>1, <2>2
      <3>. QED  BY <3>1, <2>2, SeqDef
    <2>4. PICK i \in DOMAIN dict : dict[i].key = k  BY <1>2 DEF Holds
    <2>5. DOMAIN new = DOMAIN dict  OBVIOUS
    <2>6. new[i] = e /\ e.key = k  BY <2>4
    <2>7. Holds(new, k)  BY <2>5, <2>6 DEF Holds
    <2>. HIDE DEF e
    <2>8. \A j \in DOMAIN new : new[j] = e \/ new[j] = dict[j]  OBVIOUS
    <2>. QED  BY <2>1, <2>3, <2>5, <2>7, <2>8 DEF Dicts, e
  <1>3. CASE ~Holds(dict, k)
    <2> DEFINE long == Append(dict, e)
    <2>1. Put(dict, k, v, cap) = Shrink(long, cap)  BY <1>3 DEF Put
    <2>2. /\ long \in Seq(Entries) /\ long # << >>
          /\ Len(long) = Len(dict) + 1 /\ Len(dict) \in Nat
          /\ \A i \in 1..Len(dict) : long[i] = dict[i]
          /\ long[Len(dict) + 1] = e
          /\ DOMAIN long = 1..Len(long) /\ DOMAIN dict = 1..Len(dict)
      BY <1>1, AppendProperties
    <2>3. e.key = k  OBVIOUS
    <2>. HIDE DEF long, e
    <2>4. CASE Len(long) <= cap
      <3>1. Put(dict, k, v, cap) = long  BY <2>1, <2>2, <2>4 DEF Shrink
      <3>2. Holds(long, k)  BY <2>2, <2>3 DEF Holds
      <3>3. \A i \in DOMAIN long : long[i] = e \/ \E j \in DOMAIN dict : long[i] = dict[j]
        BY <2>2
      <3>. QED  BY <3>1, <3>2, <3>3, <2>2 DEF Dicts, e
    <2>5. CASE ~(Len(long) <= cap)
      <3> DEFINE new == Tail(long)
      <3>1. Put(dict, k, v, cap) = new  BY <2>1, <2>2, <2>5 DEF Shrink
      <3>2. /\ new \in Seq(Entries) /\ Len(new) = Len(dict) /\ DOMAIN new = 1..Len(new)
            /\ \A i \in 1..Len(new) : new[i] = long[i + 1]
        BY <2>2, HeadTailProperties
      <3>3. Len(dict) > 0  BY <2>2, <2>5
      <3>. HIDE DEF new
      <3>4. new[Len(dict)] = e /\ Len(dict) \in DOMAIN new  BY <2>2, <3>2, <3>3
      <3>5. Holds(new, k)  BY <2>3, <3>4 DEF Holds
      <3>6. ASSUME NEW i \in DOMAIN new
            PROVE  new[i] = e \/ \E j \in DOMAIN dict : new[i] = dict[j]
        <4>1. i \in 1..Len(dict) /\ new[i] = long[i + 1]  BY <3>2
        <4>2. CASE i = Len(dict)  BY <2>2, <4>1, <4>2
        <4>3. CASE i # Len(dict)
          <5>1. i + 1 \in 1..Len(dict)  BY <2>2, <4>1, <4>3
          <5>2. new[i] = dict[i + 1] /\ i + 1 \in DOMAIN dict  BY <2>2, <4>1, <5>1
          <5>. QED  BY <5>2
        <4>. QED  BY <4>2, <4>3
      <3>. QED  BY <3>1, <3>2, <3>5, <3>6 DEF Dicts, e
    <2>. QED  BY <2>2, <2>4, <2>5
  <1>. QED  BY <1>2, <1>3

LEMMA GetFacts ==
  ASSUME NEW dict, NEW k, Holds(dict, k)
  PROVE  \E i \in DOMAIN dict : dict[i].key = k /\ Get(dict, k) = dict[i].value
  BY DEF Holds, Get

LEMMA GetTyped ==
  ASSUME NEW Keys, NEW Values, NEW dict \in Dicts(Keys, Values), NEW k, Holds(dict, k)
  PROVE  Get(dict, k) \in Values
  <1>1. PICK i \in DOMAIN dict : Get(dict, k) = dict[i].value  BY GetFacts
  <1>2. dict \in Seq([key : Keys, value : Values])  BY DEF Dicts
  <1>3. dict[i] \in [key : Keys, value : Values]  BY <1>1, <1>2, LenProperties, ElementOfSeq
  <1>. QED  BY <1>1, <1>3

LEMMA Names ==
  /\ \A r \in Requests : CommandId(r) \in Ids
  /\ NoRequest \notin Ids
  /\ Undone \notin Statuses
  BY PathAssumption DEF CommandId, Ids, Undone, Statuses

-----------------------------------------------------------------------------
(* Types                                                                    *)

RequestTypes ==
  /\ pc \in [Requests -> {"new", "resolved", "waiting", "recorded", "answered"}]
  /\ spec \in [Requests -> Specs]
  /\ outcome \in [Requests -> Statuses \cup {Undone}]
  /\ waitsOn \in [Requests -> Requests \cup {NoRequest}]
  /\ told \in [Requests -> Statuses \cup {"nothing"}]
  /\ replay \in Dicts(Directives, Statuses)

RegistryTypes ==
  /\ completed \in Dicts(Ids, [spec : Fingerprints, status : Statuses])
  /\ pending \in [Ids -> Requests \cup {NoRequest}]
  /\ registered \in BOOLEAN
  /\ cloudLost \in [Ids -> Nat] /\ restarts \in 0..MaxFaults

ConnectorTypes ==
  /\ results \in Dicts(Ids, [spec : Specs, status : Statuses])
  /\ linked \in BOOLEAN
  /\ wire \in Seq(Commands) /\ back \in Seq(Replies)
  /\ executing \in [id : Ids, spec : Specs, phase : {"calling", "verifying"}] \cup {Idle}
  /\ acts \in [Ids -> Nat] /\ connectorLost \in [Ids -> Nat]
  /\ done \in SUBSET Ids /\ reloads \in 0..MaxFaults

LEMMA Parts == TypeOK <=> RequestTypes /\ RegistryTypes /\ ConnectorTypes
  BY DEF TypeOK, RequestTypes, RegistryTypes, ConnectorTypes

Recorded == \A r \in Requests : pc[r] = "recorded" => outcome[r] # Undone

LEMMA Told ==
  ASSUME RequestTypes, NEW r \in Requests, NEW a \in Statuses, Tell(r, a),
         waitsOn' = waitsOn, replay' \in Dicts(Directives, Statuses)
  PROVE  RequestTypes'
  BY DEF RequestTypes, Tell, Specs, Statuses

LEMMA Completes ==
  ASSUME RequestTypes, RegistryTypes, NEW r \in Requests, NEW a \in Statuses, Complete(r, a)
  PROVE  /\ RegistryTypes'
         /\ pc' = [pc EXCEPT ![r] = "recorded"]
         /\ waitsOn' = [waitsOn EXCEPT ![r] = NoRequest]
         /\ Holds(completed', CommandId(r))
         /\ \A c \in Ids \ {CommandId(r)} : pending'[c] = pending[c]
         /\ pending'[CommandId(r)] \in {NoRequest, pending[CommandId(r)]}
         /\ \A c \in Ids : cloudLost'[c] = IF Holds(completed, c) /\ ~Holds(completed', c)
                                             THEN cloudLost[c] + 1 ELSE cloudLost[c]
         /\ \A i \in DOMAIN completed' :
              \/ completed'[i].key = CommandId(r) /\ completed'[i].value.status = a
              \/ \E j \in DOMAIN completed : completed'[i] = completed[j]
         /\ UNCHANGED <<spec, told, replay, wire, back, connectorVars, faultVars,
                        acts, done, connectorLost>>
  <1> DEFINE c == CommandId(r)
             v == [spec |-> IF Fingerprint(c) = "lost" THEN "lost" ELSE spec[r], status |-> a]
             new == Put(completed, c, v, CompletedCap)
  <1>1. c \in Ids  BY Names
  <1>2. v \in [spec : Fingerprints, status : Statuses]
    BY DEF RequestTypes, Fingerprints, Specs
  <1>3. /\ completed \in Dicts(Ids, [spec : Fingerprints, status : Statuses])
        /\ CompletedCap \in Nat \ {0}
    BY PathAssumption DEF RegistryTypes
  <1>4. /\ completed' = new
        /\ pending' = IF pending[c] = waitsOn[r] THEN [pending EXCEPT ![c] = NoRequest] ELSE pending
        /\ cloudLost' = [d \in Ids |->
             cloudLost[d] + IF Holds(completed, d) /\ ~Holds(new, d) THEN 1 ELSE 0]
        /\ waitsOn' = [waitsOn EXCEPT ![r] = NoRequest]
        /\ pc' = [pc EXCEPT ![r] = "recorded"]
        /\ UNCHANGED <<spec, told, replay, registered, wire, back, connectorVars,
                       faultVars, acts, done, connectorLost>>
    BY DEF Complete
  <1>5. v.status = a  OBVIOUS
  <1> DEFINE Values == [spec : Fingerprints, status : Statuses]
  <1>. HIDE DEF v, Values, c
  <1>6. /\ new \in Dicts(Ids, Values)
        /\ Holds(new, c)
        /\ \A i \in DOMAIN new : \/ new[i] = [key |-> c, value |-> v]
                                 \/ \E j \in DOMAIN completed : new[i] = completed[j]
    <2>1. c \in Ids /\ v \in Values /\ completed \in Dicts(Ids, Values) /\ CompletedCap \in Nat \ {0}
      BY <1>1, <1>2, <1>3 DEF Values, c
    <2>. QED  BY ONLY <2>1, PutFacts
  <1>7. \A i \in DOMAIN new : \/ new[i].key = c /\ new[i].value.status = a
                              \/ \E j \in DOMAIN completed : new[i] = completed[j]
    BY <1>5, <1>6
  <1>. HIDE DEF new
  <1>8. \A d \in Ids : cloudLost'[d] = IF Holds(completed, d) /\ ~Holds(completed', d)
                                          THEN cloudLost[d] + 1 ELSE cloudLost[d]
    BY <1>4 DEF RegistryTypes
  <1>9. RegistryTypes'
    <2>1. cloudLost' \in [Ids -> Nat]  BY <1>4 DEF RegistryTypes
    <2>2. pending' \in [Ids -> Requests \cup {NoRequest}]  BY <1>4 DEF RegistryTypes
    <2>. QED  BY <1>4, <1>6, <2>1, <2>2 DEF RegistryTypes, faultVars, Values
  <1>10. /\ \A d \in Ids \ {c} : pending'[d] = pending[d]
         /\ pending'[c] \in {NoRequest, pending[c]}
    BY <1>1, <1>4 DEF RegistryTypes
  <1>. QED  BY <1>4, <1>6, <1>7, <1>8, <1>9, <1>10 DEF c

LEMMA Remembered ==
  ASSUME ConnectorTypes, NEW c \in Ids, NEW sp \in Specs, NEW a \in Statuses,
         Remember(c, sp, a)
  PROVE  /\ results' \in Dicts(Ids, [spec : Specs, status : Statuses])
         /\ connectorLost' \in [Ids -> Nat]
         /\ Holds(results', c)
         /\ \A d \in Ids : connectorLost'[d] = IF Holds(results, d) /\ ~Holds(results', d)
                                                 THEN connectorLost[d] + 1 ELSE connectorLost[d]
         /\ \A i \in DOMAIN results' :
              \/ results'[i].key = c /\ results'[i].value.status = a
              \/ \E j \in DOMAIN results : results'[i] = results[j]
  <1> DEFINE v == [spec |-> sp, status |-> a]
             Values == [spec : Specs, status : Statuses]
             new == Put(results, c, v, ResultsCap)
  <1>1. /\ results' = new
        /\ connectorLost' = [d \in Ids |->
             connectorLost[d] + IF Holds(results, d) /\ ~Holds(new, d) THEN 1 ELSE 0]
    BY DEF Remember
  <1>2. v \in Values /\ v.status = a /\ results \in Dicts(Ids, Values)
        /\ ResultsCap \in Nat \ {0}
    BY PathAssumption DEF ConnectorTypes
  <1>. HIDE DEF v, Values
  <1>3. /\ new \in Dicts(Ids, Values) /\ Holds(new, c)
        /\ \A i \in DOMAIN new : \/ new[i] = [key |-> c, value |-> v]
                                 \/ \E j \in DOMAIN results : new[i] = results[j]
    BY ONLY <1>2, c \in Ids, PutFacts
  <1>. HIDE DEF new
  <1>4. \A i \in DOMAIN new : \/ new[i].key = c /\ new[i].value.status = a
                              \/ \E j \in DOMAIN results : new[i] = results[j]
    BY <1>2, <1>3
  <1>5. connectorLost' \in [Ids -> Nat]  BY <1>1 DEF ConnectorTypes
  <1>6. \A d \in Ids : connectorLost'[d] = IF Holds(results, d) /\ ~Holds(results', d)
                                              THEN connectorLost[d] + 1 ELSE connectorLost[d]
    BY <1>1 DEF ConnectorTypes
  <1>. QED  BY <1>1, <1>3, <1>4, <1>5, <1>6 DEF Values

LEMMA Replied ==
  ASSUME ConnectorTypes, NEW c \in Ids, NEW a \in Statuses, NEW rest \in Seq(Commands),
         Reply(c, a, rest)
  PROVE  /\ back' \in Seq(Replies) /\ linked' \in BOOLEAN
         /\ wire' \in {rest, << >>} /\ wire' \in Seq(Commands)
         /\ \A i \in DOMAIN back' : \/ back'[i] = [id |-> c, status |-> a]
                                     \/ \E j \in DOMAIN back : back'[i] = back[j]
  <1> DEFINE m == [id |-> c, status |-> a]
  <1>1. m \in Replies /\ back \in Seq(Replies)  BY DEF Replies, ConnectorTypes
  <1>2. wire' \in {rest, << >>} /\ linked' \in BOOLEAN  BY DEF Reply, ConnectorTypes
  <1>3. wire' \in Seq(Commands)  BY <1>2, EmptySeq
  <1>4. back' \in {back, Append(back, m)}  BY DEF Reply
  <1>. HIDE DEF m
  <1>5. CASE back' = back  BY <1>1, <1>2, <1>3, <1>5 DEF m
  <1>6. CASE back' = Append(back, m)
    <2> DEFINE new == Append(back, m)
    <2>1. /\ new \in Seq(Replies) /\ Len(new) = Len(back) + 1
          /\ \A i \in 1..Len(back) : new[i] = back[i]
          /\ new[Len(back) + 1] = m
      BY <1>1, AppendProperties
    <2>2. DOMAIN new = 1..Len(new) /\ DOMAIN back = 1..Len(back) /\ Len(back) \in Nat
      BY <1>1, <2>1, LenProperties
    <2>. HIDE DEF new
    <2>3. \A i \in DOMAIN new : new[i] = m \/ \E j \in DOMAIN back : new[i] = back[j]
      BY <2>1, <2>2
    <2>4. back' = new  BY <1>6 DEF new
    <2>. QED  BY <1>2, <1>3, <2>1, <2>3, <2>4 DEF m
  <1>. QED  BY <1>4, <1>5, <1>6

(* The command at the head of the websocket.                                *)
LEMMA Taking ==
  ASSUME ConnectorTypes, Taken
  PROVE  /\ Head(wire) \in Commands /\ Head(wire) = wire[1] /\ 1 \in DOMAIN wire
         /\ Tail(wire) \in Seq(Commands)
         /\ \A i \in DOMAIN Tail(wire) : i + 1 \in DOMAIN wire /\ Tail(wire)[i] = wire[i + 1]
         /\ Head(wire).id \in Ids /\ Head(wire).spec \in Specs /\ Head(wire).era \in Nat
         /\ executing = Idle
  <1>1. wire \in Seq(Commands) /\ wire # << >> /\ executing = Idle  BY DEF ConnectorTypes, Taken
  <1>2. /\ Head(wire) \in Commands /\ Tail(wire) \in Seq(Commands)
        /\ Len(Tail(wire)) = Len(wire) - 1
        /\ \A i \in 1..Len(Tail(wire)) : Tail(wire)[i] = wire[i + 1]
    BY <1>1, HeadTailProperties
  <1>3. /\ DOMAIN wire = 1..Len(wire) /\ Len(wire) \in Nat \ {0}
        /\ DOMAIN Tail(wire) = 1..Len(Tail(wire))
    BY <1>1, <1>2, LenProperties, EmptySeq
  <1>4. Head(wire) = wire[1]  BY <1>1
  <1>. QED  BY <1>1, <1>2, <1>3, <1>4 DEF Commands

LEMMA HandlerTypes ==
  ASSUME RequestTypes, RegistryTypes, ConnectorTypes, Recorded,
         NEW r \in Requests, Handler(r)
  PROVE  RequestTypes' /\ RegistryTypes' /\ ConnectorTypes'
  <1>1. ASSUME UNCHANGED <<registryVars, wire, back, connectorVars, faultVars, history>>
        PROVE  RegistryTypes' /\ ConnectorTypes'
    BY <1>1 DEF registryVars, connectorVars, faultVars, history, RegistryTypes, ConnectorTypes
  <1>2. CASE Replayed(r)
    <2>1. Get(replay, DirectiveOf[r]) \in Statuses
      BY <1>2, GetTyped DEF Replayed, RequestTypes
    <2>. QED  BY <1>1, <1>2, <2>1, Told DEF Replayed, RequestTypes
  <1>3. CASE NoEndpoint(r)
    BY <1>1, <1>3, Told DEF NoEndpoint, RequestTypes, Statuses
  <1>4. CASE Reject(r)
    <2>1. RequestTypes'  BY <1>4 DEF Reject, Outcome, RequestTypes, Statuses
    <2>. QED  BY <1>1, <1>4, <2>1 DEF Reject
  <1>5. ASSUME NEW sp \in Specs, Resolve(r, sp)
        PROVE  RequestTypes' /\ RegistryTypes' /\ ConnectorTypes'
    <2>1. RequestTypes'  BY <1>5 DEF Resolve, RequestTypes
    <2>. QED  BY <1>1, <1>5, <2>1 DEF Resolve
  <1>6. CASE Refuse(r)
    <2> DEFINE a == IF ~Conflict(r) /\ Holds(completed, CommandId(r))
                      THEN Get(completed, CommandId(r)).status ELSE "error"
    <2>1. a \in Statuses
      <3>1. CASE Holds(completed, CommandId(r))
        <4>1. Get(completed, CommandId(r)) \in [spec : Fingerprints, status : Statuses]
          BY <3>1, GetTyped DEF RegistryTypes
        <4>. QED  BY <4>1 DEF Statuses
      <3>2. CASE ~Holds(completed, CommandId(r))  BY <3>2 DEF Statuses
      <3>. QED  BY <3>1, <3>2
    <2>2. Outcome(r, a) /\ UNCHANGED <<spec, waitsOn, told, replay, registryVars, wire, back,
                                       connectorVars, faultVars, history>>
      BY <1>6 DEF Refuse
    <2>. HIDE DEF a
    <2>3. RequestTypes'  BY <2>1, <2>2 DEF Outcome, RequestTypes
    <2>. QED  BY <1>1, <2>2, <2>3
  <1>7. CASE Join(r)
    <2>1. RequestTypes'  BY <1>7, Names DEF Join, Wait, RequestTypes, RegistryTypes
    <2>. QED  BY <1>1, <1>7, <2>1 DEF Join
  <1>8. CASE Send(r)
    <2>1. RequestTypes'  BY <1>8 DEF Send, Wait, RequestTypes
    <2>2. RegistryTypes'  BY <1>8, Names DEF Send, RegistryTypes, history, faultVars
    <2>3. Message(r) \in Commands
      BY Names DEF Message, Commands, RequestTypes, RegistryTypes
    <2>4. wire' \in Seq(Commands)
      BY <1>8, <2>3, AppendProperties DEF Send, ConnectorTypes
    <2>5. ConnectorTypes'
      BY <1>8, <2>4 DEF Send, ConnectorTypes, connectorVars, history, faultVars
    <2>. QED  BY <2>1, <2>2, <2>5
  <1>9. ASSUME NEW a \in Statuses, Complete(r, a),
               outcome' \in [Requests -> Statuses \cup {Undone}]
        PROVE  RequestTypes' /\ RegistryTypes' /\ ConnectorTypes'
    <2>1. RequestTypes'  BY <1>9, Completes DEF RequestTypes
    <2>2. ConnectorTypes'  BY <1>9, Completes DEF ConnectorTypes, connectorVars, faultVars
    <2>. QED  BY <1>9, <2>1, <2>2, Completes
  <1>10. CASE Wake(r)
    <2>1. outcome[r] \in Statuses  BY <1>10 DEF Wake, RequestTypes
    <2>. QED  BY <1>9, <1>10, <2>1 DEF Wake, RequestTypes
  <1>11. CASE Timeout(r)
    BY <1>9, <1>11 DEF Timeout, SetResult, RequestTypes, Statuses
  <1>12. CASE Answer(r)
    <2>1. outcome[r] \in Statuses  BY <1>12 DEF Answer, RequestTypes, Recorded
    <2>2. replay' \in Dicts(Directives, Statuses)
      <3>1. CASE DirectiveOf[r] = NoDirective  BY <1>12, <3>1 DEF Answer, RequestTypes
      <3>2. CASE DirectiveOf[r] # NoDirective
        <4>1. DirectiveOf[r] \in Directives /\ ReplayCap \in Nat \ {0}
              /\ replay \in Dicts(Directives, Statuses)
          BY <3>2, PathAssumption DEF RequestTypes
        <4>2. Put(replay, DirectiveOf[r], outcome[r], ReplayCap) \in Dicts(Directives, Statuses)
          BY ONLY <2>1, <4>1, PutFacts
        <4>. QED  BY <1>12, <3>2, <4>2 DEF Answer
      <3>. QED  BY <3>1, <3>2
    <2>3. RequestTypes'  BY <1>12, <2>1, <2>2, Told DEF Answer
    <2>. QED  BY <1>1, <1>12, <2>3 DEF Answer
  <1>. QED
    BY <1>2, <1>3, <1>4, <1>5, <1>6, <1>7, <1>8, <1>10, <1>11, <1>12 DEF Handler

LEMMA OtherTypes ==
  ASSUME RequestTypes, RegistryTypes, ConnectorTypes,
         Websocket \/ Connector \/ CloudRestart \/ Reload \/ UNCHANGED vars
  PROVE  RequestTypes' /\ RegistryTypes' /\ ConnectorTypes'
  <1>0. /\ << >> \in Seq(Commands) /\ << >> \in Seq(Replies)
        /\ \A K, V : << >> \in Dicts(K, V)
    BY EmptySeq DEF Dicts
  <1>1. CASE Connect
    <2>1. RequestTypes' /\ RegistryTypes'
      BY <1>1 DEF Connect, RequestTypes, RegistryTypes, requestVars, faultVars, history
    <2>. QED  BY <1>0, <1>1, <2>1 DEF Connect, ConnectorTypes, faultVars, history
  <1>2. ASSUME NEW owners, outcome' = SetResult(owners, "error"), back' = << >>,
               registered' = FALSE,
               UNCHANGED <<pc, spec, waitsOn, told, replay, completed, pending, wire,
                           connectorVars, faultVars, history>>
        PROVE  RequestTypes' /\ RegistryTypes' /\ ConnectorTypes'
    <2>1. RequestTypes'  BY <1>2 DEF SetResult, RequestTypes, Statuses
    <2>2. RegistryTypes'  BY <1>2 DEF RegistryTypes, faultVars, history
    <2>3. ConnectorTypes'
      BY <1>0, <1>2 DEF ConnectorTypes, connectorVars, faultVars, history
    <2>. QED  BY <2>1, <2>2, <2>3
  <1>3. CASE Remove
    BY <1>2, <1>3 DEF Remove, EndSession
  <1>4. CASE Result
    <2>0. CASE EndSession  BY <1>2, <1>4, <2>0 DEF Result, EndSession
    <2>1. CASE ~EndSession
      <3>1. back # << >> /\ back \in Seq(Replies)  BY <1>4 DEF Result, ConnectorTypes
      <3>2. Head(back) \in Replies /\ Tail(back) \in Seq(Replies)
        BY <3>1, HeadTailProperties
      <3>3. Head(back).status \in Statuses  BY <3>2 DEF Replies
      <3>4. back' = Tail(back) /\ registered' = registered
            /\ outcome' \in {outcome, SetResult({pending[Head(back).id]}, Head(back).status)}
            /\ UNCHANGED <<pc, spec, waitsOn, told, replay, completed, pending, wire,
                           connectorVars, faultVars, history>>
        BY <1>4, <2>1 DEF Result
      <3>5. RequestTypes'  BY <3>3, <3>4 DEF SetResult, RequestTypes
      <3>6. RegistryTypes'  BY <3>4 DEF RegistryTypes, faultVars, history
      <3>7. ConnectorTypes'
        BY <3>2, <3>4 DEF ConnectorTypes, connectorVars, faultVars, history
      <3>. QED  BY <3>5, <3>6, <3>7
    <2>. QED  BY <2>0, <2>1
  <1>5. CASE LoseLink
    <2>1. RequestTypes' /\ RegistryTypes'
      BY <1>5 DEF LoseLink, RequestTypes, RegistryTypes, requestVars, registryVars, faultVars, history
    <2>. QED  BY <1>0, <1>5, <2>1 DEF LoseLink, ConnectorTypes, faultVars, history
  <1>6. ASSUME UNCHANGED <<requestVars, replay, registryVars, faultVars, cloudLost>>
        PROVE  RequestTypes' /\ RegistryTypes' /\ reloads' = reloads
    BY <1>6 DEF RequestTypes, RegistryTypes, requestVars, registryVars, faultVars
  <1>7. CASE Recall
    <2> DEFINE m == Head(wire)
               a == IF Get(results, m.id).spec = m.spec THEN Get(results, m.id).status ELSE "error"
    <2>1. m.id \in Ids /\ Tail(wire) \in Seq(Commands)  BY <1>7, Taking DEF Recall
    <2>2. a \in Statuses
      <3>1. Get(results, m.id) \in [spec : Specs, status : Statuses]
        BY <1>7, GetTyped DEF Recall, ConnectorTypes
      <3>. QED  BY <3>1 DEF Statuses
    <2>3. Reply(m.id, a, Tail(wire)) /\ UNCHANGED <<requestVars, replay, registryVars, results,
                                                    executing, faultVars, history>>
      BY <1>7 DEF Recall
    <2>. HIDE DEF m, a
    <2>4. ConnectorTypes'
      BY <2>1, <2>2, <2>3, Replied DEF ConnectorTypes, history, faultVars
    <2>. QED  BY <1>6, <2>3, <2>4 DEF history
  <1>8. CASE Decline
    <2>1. Head(wire).id \in Ids /\ Head(wire).spec \in Specs /\ Tail(wire) \in Seq(Commands)
      BY <1>8, Taking DEF Decline
    <2>2. ConnectorTypes'
      BY <1>8, <2>1, Remembered, Replied DEF Decline, ConnectorTypes, Statuses, faultVars
    <2>. QED  BY <1>6, <1>8, <2>2 DEF Decline
  <1>9. CASE Call
    <2>1. Head(wire).id \in Ids /\ Head(wire).spec \in Specs /\ Tail(wire) \in Seq(Commands)
      BY <1>9, Taking DEF Call
    <2>2. ConnectorTypes'  BY <1>9, <2>1 DEF Call, ConnectorTypes, faultVars
    <2>. QED  BY <1>6, <1>9, <2>2 DEF Call
  <1>10. ASSUME NEW a \in Statuses, Finish(a), done' \in SUBSET Ids, executing.phase # "idle"
         PROVE  RequestTypes' /\ RegistryTypes' /\ ConnectorTypes'
    <2>1. executing.id \in Ids /\ executing.spec \in Specs /\ wire \in Seq(Commands)
      BY <1>10 DEF ConnectorTypes, Idle
    <2>2. ConnectorTypes'
      BY <1>10, <2>1, Remembered, Replied DEF Finish, ConnectorTypes, faultVars
    <2>. QED  BY <1>6, <1>10, <2>2 DEF Finish
  <1>11. CASE Return
    <2>1. done' \in SUBSET Ids /\ executing.phase = "calling"
      BY <1>11 DEF Return, ConnectorTypes, Idle
    <2>2. CASE Finish("success")  BY <1>10, <2>1, <2>2 DEF Statuses
    <2>3. CASE ~Finish("success")
      <3>1. /\ executing' = [executing EXCEPT !.phase = "verifying"]
            /\ UNCHANGED <<requestVars, replay, registryVars, wire, back, linked,
                           results, faultVars, acts, cloudLost, connectorLost>>
        BY <1>11, <2>3 DEF Return
      <3>2. executing \in [id : Ids, spec : Specs, phase : {"calling", "verifying"}]
        BY <2>1 DEF ConnectorTypes, Idle
      <3>3. executing' \in [id : Ids, spec : Specs, phase : {"calling", "verifying"}]
        BY <3>1, <3>2
      <3>4. ConnectorTypes'  BY <2>1, <3>1, <3>3 DEF ConnectorTypes, faultVars
      <3>. QED  BY <1>6, <3>1, <3>4
    <2>. QED  BY <2>2, <2>3
  <1>12. CASE Verified \/ Fail
    BY <1>10, <1>12 DEF Verified, Fail, ConnectorTypes, Statuses
  <1>13. CASE CloudRestart
    <2>1. RequestTypes'  BY <1>0, <1>13 DEF CloudRestart, RequestTypes, Specs, Statuses
    <2>2. RegistryTypes'
      <3>1. cloudLost' \in [Ids -> Nat]  BY <1>13 DEF CloudRestart, RegistryTypes
      <3>2. restarts' \in 0..MaxFaults
        BY <1>13, PathAssumption DEF CloudRestart, RegistryTypes, ConnectorTypes
      <3>. QED  BY <1>0, <1>13, <3>1, <3>2 DEF CloudRestart, RegistryTypes
    <2>3. ConnectorTypes'  BY <1>0, <1>13 DEF CloudRestart, ConnectorTypes, connectorVars
    <2>. QED  BY <2>1, <2>2, <2>3
  <1>14. CASE Reload
    <2>1. RequestTypes' /\ RegistryTypes'
      BY <1>14 DEF Reload, RequestTypes, RegistryTypes, requestVars, registryVars
    <2>2. connectorLost' \in [Ids -> Nat]  BY <1>14 DEF Reload, ConnectorTypes
    <2>3. reloads' \in 0..MaxFaults  BY <1>14, PathAssumption DEF Reload, RegistryTypes, ConnectorTypes
    <2>. QED  BY <1>0, <1>14, <2>1, <2>2, <2>3 DEF Reload, ConnectorTypes
  <1>15. CASE UNCHANGED vars
    BY <1>15 DEF vars, requestVars, registryVars, connectorVars, faultVars, history,
                 RequestTypes, RegistryTypes, ConnectorTypes
  <1>. QED
    BY <1>1, <1>3, <1>4, <1>5, <1>7, <1>8, <1>9, <1>11, <1>12, <1>13, <1>14, <1>15
    DEF Websocket, Connector

-----------------------------------------------------------------------------
(* At most once: the cloud                                                  *)

Types == RequestTypes /\ RegistryTypes /\ ConnectorTypes

LEMMA OnWire ==
  ASSUME ConnectorTypes
  PROVE  /\ Len(wire) \in Nat /\ DOMAIN wire = 1..Len(wire)
         /\ \A i \in DOMAIN wire : wire[i].id \in Ids /\ wire[i].era \in Nat
  <1>1. wire \in Seq(Commands)  BY DEF ConnectorTypes
  <1>2. DOMAIN wire = 1..Len(wire) /\ Len(wire) \in Nat  BY <1>1, LenProperties
  <1>3. \A i \in DOMAIN wire : wire[i] \in Commands  BY <1>1, <1>2, ElementOfSeq
  <1>. QED  BY <1>2, <1>3 DEF Commands

LEMMA Counts ==
  ASSUME RegistryTypes, NEW c \in Ids
  PROVE  Acted(c) \in Nat /\ cloudLost[c] \in Nat /\ cloudLost[c] <= Acted(c)
  BY DEF RegistryTypes, Acted

(* What is under way to the Connector is an end of what was, and the cloud  *)
(* forgets nothing without counting it.                                     *)
LEMMA CloudStays ==
  ASSUME Types, Types', CloudInv, acts' = acts,
         \A c \in Ids : Acted(c)' >= Acted(c),
         NEW k \in Nat,
         \A i \in DOMAIN wire' : i + k \in DOMAIN wire /\ wire'[i] = wire[i + k]
  PROVE  CloudInv'
  <1>1. \A c \in Ids : Acted(c) \in Nat /\ Acted(c)' \in Nat /\ acts[c] \in Nat
    BY Counts DEF Types, RegistryTypes, ConnectorTypes, Acted
  <1>2. /\ \A i \in DOMAIN wire' : i \in Nat
        /\ \A i \in DOMAIN wire : i \in Nat /\ wire[i].id \in Ids /\ wire[i].era \in Nat
    <2>1. DOMAIN wire' = 1..Len(wire') /\ Len(wire') \in Nat
      BY LenProperties DEF Types, ConnectorTypes
    <2>. QED  BY <2>1, OnWire DEF Types
  <1>3. \A c \in Ids : acts'[c] <= Acted(c)'  BY <1>1 DEF CloudInv
  <1>4. ASSUME NEW i \in DOMAIN wire'
        PROVE  (wire[i].era < Acted(wire[i].id) /\ acts[wire[i].id] <= wire[i].era)'
    <2>1. i + k \in DOMAIN wire /\ wire'[i] = wire[i + k]  BY <1>4
    <2>2. PICK m \in Commands : m = wire[i + k]
      BY <2>1, OnWire, ElementOfSeq DEF Types, ConnectorTypes
    <2>3. m.id \in Ids /\ m.era \in Nat  BY <2>2 DEF Commands
    <2>4. m.era < Acted(m.id) /\ acts[m.id] <= m.era  BY <2>1, <2>2 DEF CloudInv
    <2>5. m.era < Acted(m.id)' /\ acts'[m.id] <= m.era  BY <1>1, <2>3, <2>4
    <2>6. wire'[i] = m  BY <2>1, <2>2
    <2>. QED  BY <2>5, <2>6
  <1>5. ASSUME NEW i \in DOMAIN wire', NEW j \in DOMAIN wire', i < j, wire'[i].id = wire'[j].id
        PROVE  wire'[i].era < wire'[j].era
    <2>1. i + k \in DOMAIN wire /\ j + k \in DOMAIN wire /\ i + k < j + k  BY <1>2, <1>5
    <2>. QED  BY <1>5, <2>1 DEF CloudInv
  <1>. QED  BY <1>3, <1>4, <1>5 DEF CloudInv

LEMMA CloudSent ==
  ASSUME Types, Types', CloudInv, NEW r \in Requests, Send(r)
  PROVE  CloudInv'
  <1> DEFINE c == CommandId(r)
  <1>1. c \in Ids  BY Names
  <1>2. Acted(c) = cloudLost[c] /\ Acted(c)' = cloudLost[c] + 1
    <2>1. ~Known(c)  BY DEF Send, MaySend, Known
    <2>2. Known(c)' /\ cloudLost' = cloudLost
      BY <1>1, PathAssumption DEF Send, Known, Types, RegistryTypes, history
    <2>. QED  BY <2>1, <2>2 DEF Acted
  <1>3. \A d \in Ids \ {c} : Acted(d)' = Acted(d)
    BY DEF Send, Acted, Known, Types, RegistryTypes, history
  <1>4. acts' = acts /\ \A d \in Ids : Acted(d) \in Nat /\ acts[d] \in Nat /\ cloudLost[d] \in Nat
    BY Counts DEF Send, history, Types, ConnectorTypes
  <1>5. \A d \in Ids : Acted(d)' >= Acted(d)  BY <1>1, <1>2, <1>3, <1>4
  <1>6. CASE wire' = wire
    <2>1. \A i \in DOMAIN wire' : i + 0 \in DOMAIN wire /\ wire'[i] = wire[i + 0]
      BY <1>6, OnWire DEF Types
    <2>. QED  BY <1>4, <1>5, <2>1, CloudStays
  <1>7. CASE wire' = Append(wire, Message(r))
    <2>1. PICK m \in Commands : m = Message(r) /\ m.id = c /\ m.era = cloudLost[c]
      <3>1. Message(r) \in Commands
        BY <1>1, <1>4 DEF Message, Commands, Types, RequestTypes
      <3>. QED  BY <3>1 DEF Message
    <2>0. PICK n \in Nat : n = Len(wire) + 1  BY OnWire DEF Types
    <2>2. /\ wire \in Seq(Commands) /\ DOMAIN wire = 1..(n - 1) /\ Len(wire) = n - 1
          /\ \A i \in DOMAIN wire : wire[i].id \in Ids /\ wire[i].era \in Nat
      BY <2>0, OnWire DEF Types, ConnectorTypes
    <2>. HIDE DEF c
    <2>3. /\ DOMAIN wire' = 1..n /\ wire'[n] = m
          /\ \A i \in DOMAIN wire : wire'[i] = wire[i]
      BY <1>7, <2>0, <2>1, <2>2, AppendProperties, LenProperties
    <2>4. \A d \in Ids : acts'[d] <= Acted(d)'  BY <1>4, <1>5, <1>1, <1>2, <1>3 DEF CloudInv
    <2>5. ASSUME NEW i \in DOMAIN wire
          PROVE  /\ (wire[i].era < Acted(wire[i].id) /\ acts[wire[i].id] <= wire[i].era)'
                 /\ wire[i].id = c => wire[i].era < m.era
      <3>1. PICK w \in Commands : w = wire[i]
        BY <2>2, ElementOfSeq, LenProperties
      <3>2. w.id \in Ids /\ w.era \in Nat  BY <3>1 DEF Commands
      <3>3. w.era < Acted(w.id) /\ acts[w.id] <= w.era  BY <3>1 DEF CloudInv
      <3>4. w.era < Acted(w.id)'
        BY <1>1, <1>2, <1>3, <1>4, <3>2, <3>3
      <3>5. w.id = c => w.era < cloudLost[c]  BY <1>2, <3>3
      <3>6. wire'[i] = w  BY <2>3, <3>1
      <3>. QED  BY <1>4, <2>1, <3>1, <3>3, <3>4, <3>5, <3>6
    <2>6. m.era < Acted(m.id)' /\ acts'[m.id] <= m.era
      BY <1>1, <1>2, <1>4, <2>1 DEF CloudInv
    <2>7. \A i \in DOMAIN wire' : i = n \/ i \in DOMAIN wire  BY <2>2, <2>3
    <2>8. ASSUME NEW i \in DOMAIN wire'
          PROVE  (wire[i].era < Acted(wire[i].id) /\ acts[wire[i].id] <= wire[i].era)'
      <3>1. CASE i = n  BY <3>1, <2>3, <2>6
      <3>2. CASE i \in DOMAIN wire  BY <3>2, <2>3, <2>5
      <3>. QED  BY <3>1, <3>2, <2>7
    <2>9. ASSUME NEW i \in DOMAIN wire', NEW j \in DOMAIN wire', i < j,
                 wire'[i].id = wire'[j].id
          PROVE  wire'[i].era < wire'[j].era
      <3>1. i \in DOMAIN wire  BY <2>2, <2>3, <2>9
      <3>2. CASE j = n  BY <3>1, <3>2, <2>1, <2>3, <2>5, <2>9
      <3>3. CASE j # n  BY <3>1, <3>3, <2>3, <2>7, <2>9 DEF CloudInv
      <3>. QED  BY <3>2, <3>3
    <2>. QED  BY <2>4, <2>8, <2>9 DEF CloudInv
  <1>. QED  BY <1>6, <1>7 DEF Send

(* The Connector acts on a copy: the copies behind it are later ones.       *)
LEMMA CloudCalled ==
  ASSUME Types, Types', CloudInv, Call
  PROVE  CloudInv' /\ acts[Head(wire).id] <= cloudLost[Head(wire).id]
  <1>0. /\ Head(wire) \in Commands /\ Head(wire) = wire[1] /\ 1 \in DOMAIN wire
        /\ \A i \in DOMAIN Tail(wire) : i + 1 \in DOMAIN wire /\ Tail(wire)[i] = wire[i + 1]
    BY Taking DEF Call, Types
  <1>a. PICK m \in Commands : m = Head(wire)  BY <1>0
  <1>b. PICK c \in Ids : c = m.id  BY DEF Commands
  <1>1. /\ m.era \in Nat /\ m = wire[1] /\ 1 \in DOMAIN wire
        /\ \A i \in DOMAIN Tail(wire) : i + 1 \in DOMAIN wire /\ Tail(wire)[i] = wire[i + 1]
    BY <1>0, <1>a DEF Commands
  <1>2. /\ acts' = [acts EXCEPT ![c] = @ + 1] /\ wire' = Tail(wire)
        /\ UNCHANGED <<completed, pending, cloudLost>>
    BY <1>a, <1>b DEF Call, registryVars
  <1>3. \A d \in Ids : Acted(d)' = Acted(d)  BY <1>2 DEF Acted, Known
  <1>4. \A d \in Ids : Acted(d) \in Nat /\ acts[d] \in Nat /\ cloudLost[d] \in Nat
    BY Counts DEF Types, ConnectorTypes
  <1>5. m.era < Acted(c) /\ acts[c] <= m.era  BY <1>1, <1>b DEF CloudInv
  <1>6. acts'[c] = acts[c] + 1 /\ \A d \in Ids \ {c} : acts'[d] = acts[d]
    BY <1>1, <1>2 DEF Types, ConnectorTypes
  <1>7. \A d \in Ids : acts'[d] <= Acted(d)'
    BY <1>1, <1>3, <1>4, <1>5, <1>6 DEF CloudInv
  <1>8. acts[c] <= cloudLost[c]
    <2>1. Acted(c) <= cloudLost[c] + 1  BY <1>1, <1>4 DEF Acted
    <2>. QED  BY <1>1, <1>4, <1>5, <2>1
  <1>9. \A i \in DOMAIN wire' : i \in Nat \ {0}
    BY <1>2, OnWire, LenProperties DEF Types, ConnectorTypes
  <1>10. ASSUME NEW i \in DOMAIN wire'
         PROVE  (wire[i].era < Acted(wire[i].id) /\ acts[wire[i].id] <= wire[i].era)'
    <2>1. i + 1 \in DOMAIN wire /\ wire'[i] = wire[i + 1] /\ 1 < i + 1
      BY <1>1, <1>2, <1>9
    <2>2. PICK w \in Commands : w = wire[i + 1]
      BY <2>1, OnWire, ElementOfSeq DEF Types, ConnectorTypes
    <2>3. w.id \in Ids /\ w.era \in Nat  BY <2>2 DEF Commands
    <2>4. w.era < Acted(w.id) /\ acts[w.id] <= w.era  BY <2>1, <2>2 DEF CloudInv
    <2>5. w.id = c => m.era < w.era
      <3>1. SUFFICES ASSUME wire[1].id = wire[i + 1].id  PROVE wire[1].era < wire[i + 1].era
        BY <1>1, <1>b, <2>2
      <3>. QED  BY <1>1, <2>1, <3>1 DEF CloudInv
    <2>6. acts'[w.id] <= w.era  BY <1>1, <1>4, <1>5, <1>6, <2>3, <2>4, <2>5
    <2>7. wire'[i] = w /\ w.era < Acted(w.id)'  BY <1>3, <2>1, <2>2, <2>3, <2>4
    <2>. QED  BY <2>6, <2>7
  <1>11. ASSUME NEW i \in DOMAIN wire', NEW j \in DOMAIN wire', i < j,
                wire'[i].id = wire'[j].id
         PROVE  wire'[i].era < wire'[j].era
    <2>1. /\ i + 1 \in DOMAIN wire /\ j + 1 \in DOMAIN wire /\ i + 1 < j + 1
          /\ wire'[i] = wire[i + 1] /\ wire'[j] = wire[j + 1]
      BY <1>1, <1>2, <1>9, <1>11
    <2>. QED  BY <1>11, <2>1 DEF CloudInv
  <1>. QED  BY <1>7, <1>8, <1>10, <1>11, <1>a, <1>b DEF CloudInv

Step ==
  \/ \E r \in Requests : Handler(r)
  \/ Websocket \/ Connector \/ CloudRestart \/ Reload
  \/ UNCHANGED vars

LEMMA CloudSafe ==
  ASSUME Types, Types', CloudInv, Step
  PROVE  CloudInv'
  <1>1. ASSUME UNCHANGED <<acts, completed, pending, cloudLost>>,
               \/ wire' \in {wire, << >>}
               \/ Taken /\ wire' = Tail(wire)
        PROVE  CloudInv'
    <2>1. \A c \in Ids : Acted(c)' >= Acted(c)
      BY <1>1, Counts DEF Types, Acted, Known
    <2>2. CASE wire' = wire
      <3>1. \A i \in DOMAIN wire' : i + 0 \in DOMAIN wire /\ wire'[i] = wire[i + 0]
        BY <2>2, OnWire DEF Types
      <3>. QED  BY <1>1, <2>1, <3>1, CloudStays
    <2>3. CASE wire' = << >>
      <3>1. \A i \in DOMAIN wire' : i + 0 \in DOMAIN wire /\ wire'[i] = wire[i + 0]
        BY <2>3
      <3>. QED  BY <1>1, <2>1, <3>1, CloudStays
    <2>4. CASE Taken /\ wire' = Tail(wire)
      <3>1. \A i \in DOMAIN wire' : i + 1 \in DOMAIN wire /\ wire'[i] = wire[i + 1]
        BY <2>4, Taking DEF Types
      <3>. QED  BY <1>1, <2>1, <3>1, CloudStays
    <2>. QED  BY <1>1, <2>2, <2>3, <2>4
  <1>2. ASSUME NEW r \in Requests, Handler(r)
        PROVE  CloudInv'
    <2>1. ASSUME NEW a \in Statuses, Complete(r, a)
          PROVE  CloudInv'
      <3>1. /\ Holds(completed', CommandId(r)) /\ wire' = wire /\ acts' = acts
            /\ \A c \in Ids \ {CommandId(r)} : pending'[c] = pending[c]
            /\ \A c \in Ids : cloudLost'[c] = IF Holds(completed, c) /\ ~Holds(completed', c)
                                              THEN cloudLost[c] + 1 ELSE cloudLost[c]
        BY <2>1, Completes DEF Types
      <3>2. \A c \in Ids : Acted(c)' >= Acted(c)
        BY <3>1, Counts DEF Types, Acted, Known, RegistryTypes
      <3>3. \A i \in DOMAIN wire' : i + 0 \in DOMAIN wire /\ wire'[i] = wire[i + 0]
        BY <3>1, OnWire DEF Types
      <3>. QED  BY <3>1, <3>2, <3>3, CloudStays
    <2>2. CASE Wake(r)
      BY <2>1, <2>2 DEF Wake, Types, RequestTypes
    <2>3. CASE Timeout(r)
      BY <2>1, <2>3 DEF Timeout, Statuses
    <2>4. CASE \/ Replayed(r) \/ NoEndpoint(r) \/ Reject(r) \/ (\E sp \in Specs : Resolve(r, sp))
               \/ Refuse(r) \/ Join(r) \/ Answer(r)
      BY <1>1, <2>4
      DEF Replayed, NoEndpoint, Reject, Resolve, Refuse, Join, Answer, registryVars, history
    <2>. QED  BY <1>2, <2>2, <2>3, <2>4, CloudSent DEF Handler
  <1>3. CASE Websocket
    BY <1>1, <1>3 DEF Websocket, Connect, Remove, Result, LoseLink, EndSession, registryVars, history
  <1>4. CASE Connector
    <2>1. CASE Recall \/ Decline
      BY <1>1, <2>1 DEF Recall, Decline, Reply, registryVars, history
    <2>2. CASE Return \/ Verified \/ Fail
      BY <1>1, <2>2 DEF Return, Verified, Fail, Finish, Reply, registryVars
    <2>. QED  BY <1>4, <2>1, <2>2, CloudCalled DEF Connector
  <1>5. CASE CloudRestart
    <2>1. /\ acts' = acts /\ wire' = wire /\ completed' = << >>
          /\ \A c \in Ids : pending'[c] = NoRequest
          /\ \A c \in Ids : cloudLost'[c] = cloudLost[c] +
                 IF pending[c] # NoRequest \/ Holds(completed, c) THEN 1 ELSE 0
      BY <1>5 DEF CloudRestart
    <2>2. \A c \in Ids : Acted(c)' >= Acted(c)
      <3> SUFFICES ASSUME NEW c \in Ids  PROVE Acted(c)' >= Acted(c)  OBVIOUS
      <3>1. ~Known(c)'  BY <2>1 DEF Known, Holds
      <3>2. Acted(c)' = cloudLost'[c]  BY <3>1 DEF Acted
      <3>. QED  BY <2>1, <3>2, Counts DEF Acted, Known, Types
    <2>3. \A i \in DOMAIN wire' : i + 0 \in DOMAIN wire /\ wire'[i] = wire[i + 0]
      BY <2>1, OnWire DEF Types
    <2>. QED  BY <2>1, <2>2, <2>3, CloudStays
  <1>6. CASE Reload \/ UNCHANGED vars
    BY <1>1, <1>6 DEF Reload, vars, registryVars, history
  <1>. QED  BY <1>2, <1>3, <1>4, <1>5, <1>6 DEF Step

-----------------------------------------------------------------------------
(* At most once: the Connector                                              *)

LEMMA ConnectorCalled ==
  ASSUME Types, Types', ConnectorInv, Call
  PROVE  ConnectorInv' /\ acts[Head(wire).id] <= connectorLost[Head(wire).id]
  <1>1. PICK c \in Ids, sp \in Specs : c = Head(wire).id /\ sp = Head(wire).spec /\ executing = Idle
    BY Taking DEF Types, Call
  <1>2. /\ executing' = [id |-> c, spec |-> sp, phase |-> "calling"]
        /\ acts' = [acts EXCEPT ![c] = @ + 1]
        /\ UNCHANGED <<results, connectorLost>> /\ ~Holds(results, c)
    BY <1>1 DEF Call, Forgotten
  <1>3. \A d \in Ids : acts[d] \in Nat /\ connectorLost[d] \in Nat
    BY DEF Types, ConnectorTypes
  <1>4. executing.id = NoRequest  BY <1>1 DEF Idle
  <1>5. ActedThere(c) = connectorLost[c] /\ ActedThere(c)' = connectorLost[c] + 1
    BY <1>2, <1>4, Names DEF ActedThere, Recalled
  <1>6. \A d \in Ids \ {c} : ActedThere(d)' = ActedThere(d)
    BY <1>2, <1>4, Names DEF ActedThere, Recalled
  <1>7. acts'[c] = acts[c] + 1 /\ \A d \in Ids \ {c} : acts'[d] = acts[d]
    BY <1>2 DEF Types, ConnectorTypes
  <1>8. acts[c] <= connectorLost[c]  BY <1>5 DEF ConnectorInv
  <1>9. \A d \in Ids : acts'[d] <= ActedThere(d)'
    BY <1>3, <1>5, <1>6, <1>7, <1>8 DEF ConnectorInv
  <1>10. executing'.id = c /\ acts'[c] > 0  BY <1>2, <1>3, <1>7
  <1>. QED  BY <1>1, <1>8, <1>9, <1>10 DEF ConnectorInv

LEMMA ConnectorSafe ==
  ASSUME Types, Types', ConnectorInv, Step
  PROVE  ConnectorInv'
  <1>0. /\ \A c \in Ids : /\ acts[c] \in Nat /\ connectorLost[c] \in Nat /\ connectorLost'[c] \in Nat
                          /\ ActedThere(c) \in Nat /\ ActedThere(c)' \in Nat
        /\ Idle.id = NoRequest
        /\ executing # Idle => executing.id \in Ids
    <2>1. /\ acts \in [Ids -> Nat] /\ connectorLost \in [Ids -> Nat]
          /\ connectorLost' \in [Ids -> Nat]
      BY DEF Types, ConnectorTypes
    <2>2. \A c \in Ids : ActedThere(c) \in Nat /\ ActedThere(c)' \in Nat
      BY <2>1 DEF ActedThere
    <2>3. executing # Idle => executing.id \in Ids  BY DEF Types, ConnectorTypes
    <2>. QED  BY <2>1, <2>2, <2>3 DEF Idle
  <1>1. ASSUME acts' = acts, \A c \in Ids : ActedThere(c)' >= ActedThere(c),
               executing'.id = executing.id \/ executing' = Idle
        PROVE  ConnectorInv'
    <2>1. executing' # Idle => acts'[executing'.id] > 0
      <3>1. executing' # Idle => executing'.id \in Ids  BY DEF Types, ConnectorTypes
      <3>2. executing' # Idle => executing # Idle  BY <1>0, <1>1, <3>1, Names
      <3>. QED  BY <1>1, <3>2 DEF ConnectorInv
    <2>. QED  BY <1>0, <1>1, <2>1 DEF ConnectorInv
  <1>2. ASSUME UNCHANGED <<acts, results, executing, connectorLost>>
        PROVE  ConnectorInv'
    BY <1>2 DEF ConnectorInv, ActedThere, Recalled
  <1>3. ASSUME NEW c \in Ids, NEW sp \in Specs, NEW a \in Statuses, Remember(c, sp, a),
               acts' = acts, executing' = Idle, executing.id \in {NoRequest, c}
        PROVE  ConnectorInv'
    <2>1. /\ Holds(results', c)
          /\ \A d \in Ids : connectorLost'[d] = IF Holds(results, d) /\ ~Holds(results', d)
                                                THEN connectorLost[d] + 1 ELSE connectorLost[d]
      BY <1>3, Remembered DEF Types
    <2>2. \A d \in Ids : ActedThere(d)' >= ActedThere(d)
      BY <1>0, <1>3, <2>1, Names DEF ActedThere, Recalled
    <2>. QED  BY <1>1, <1>3, <2>2
  <1>4. CASE Decline
    <2>1. Head(wire).id \in Ids /\ Head(wire).spec \in Specs /\ executing = Idle
      BY <1>4, Taking DEF Types, Decline
    <2>2. UNCHANGED <<executing, acts>> /\ Remember(Head(wire).id, Head(wire).spec, "error")
      BY <1>4 DEF Decline
    <2>. QED  BY <1>0, <1>3, <2>1, <2>2 DEF Statuses
  <1>5. CASE Call  BY <1>5, ConnectorCalled
  <1>6. ASSUME NEW a \in Statuses, Finish(a), executing.phase # "idle"
        PROVE  ConnectorInv'
    <2>1. executing.id \in Ids /\ executing.spec \in Specs
      BY <1>6 DEF Types, ConnectorTypes, Idle
    <2>. QED  BY <1>3, <1>6, <2>1 DEF Finish
  <1>7. CASE Return
    <2>1. CASE Finish("success")  BY <1>6, <1>7, <2>1 DEF Return, Statuses
    <2>2. CASE ~Finish("success")
      <3>1. /\ executing' = [executing EXCEPT !.phase = "verifying"]
            /\ UNCHANGED <<results, acts, connectorLost>> /\ executing.phase = "calling"
        BY <1>7, <2>2 DEF Return
      <3>2. executing \in [id : Ids, spec : Specs, phase : {"calling", "verifying"}]
        BY <3>1 DEF Types, ConnectorTypes, Idle
      <3>3. executing'.id = executing.id  BY <3>1, <3>2
      <3>4. \A c \in Ids : ActedThere(c)' >= ActedThere(c)
        BY <1>0, <3>1, <3>3 DEF ActedThere, Recalled
      <3>. QED  BY <1>1, <3>1, <3>3, <3>4
    <2>. QED  BY <2>1, <2>2
  <1>8. CASE Verified \/ Fail
    BY <1>6, <1>8 DEF Verified, Fail, Statuses
  <1>9. CASE Reload
    <2>1. /\ results' = << >> /\ executing' = Idle /\ acts' = acts
          /\ \A c \in Ids : connectorLost'[c] = connectorLost[c] +
               IF executing.id = c \/ Holds(results, c) THEN 1 ELSE 0
      BY <1>9 DEF Reload
    <2>2. \A c \in Ids : ActedThere(c)' >= ActedThere(c)
      <3> SUFFICES ASSUME NEW c \in Ids  PROVE ActedThere(c)' >= ActedThere(c)  OBVIOUS
      <3>1. ActedThere(c)' = connectorLost'[c]
        BY <1>0, <2>1, Names DEF ActedThere, Recalled, Holds
      <3>. QED  BY <1>0, <2>1, <3>1 DEF ActedThere, Recalled
    <2>. QED  BY <1>1, <2>1, <2>2
  <1>10. ASSUME ~Call, ~Decline, ~Return, ~Verified, ~Fail, ~Reload
         PROVE  UNCHANGED <<acts, results, executing, connectorLost>>
    <2>1. CASE \E r \in Requests : Handler(r)
      <3>1. PICK r \in Requests : Handler(r)  BY <2>1
      <3>2. UNCHANGED <<connectorVars, acts, connectorLost>>
        BY <3>1
        DEF Handler, Replayed, NoEndpoint, Reject, Resolve, Refuse, Join, Send, Wake, Timeout,
            Answer, Complete, history
      <3>. QED  BY <3>2 DEF connectorVars
    <2>2. CASE Websocket
      BY <2>2 DEF Websocket, Connect, Remove, Result, LoseLink, connectorVars, history
    <2>3. CASE Recall  BY <2>3 DEF Recall, history
    <2>4. CASE CloudRestart  BY <2>4 DEF CloudRestart, connectorVars
    <2>5. CASE UNCHANGED vars  BY <2>5 DEF vars, connectorVars, history
    <2>. QED  BY <1>10, <2>1, <2>2, <2>3, <2>4, <2>5 DEF Step, Connector
  <1>. QED  BY <1>2, <1>4, <1>5, <1>7, <1>8, <1>9, <1>10

-----------------------------------------------------------------------------
(* Who waits for what                                                       *)

LEMMA Outcomes ==
  ASSUME Types, NEW c, Holds(completed, c)
  PROVE  Get(completed, c).status \in Statuses
  <1>1. Get(completed, c) \in [spec : Fingerprints, status : Statuses]
    BY GetTyped DEF Types, RegistryTypes
  <1>. QED  BY <1>1

LEMMA WaitSafe ==
  ASSUME Types, Types', WaitInv, Step
  PROVE  WaitInv'
  <1>1. ASSUME NEW r \in Requests, Handler(r)
        PROVE  WaitInv'
    <2>0. /\ CommandId(r) \in Ids /\ Undone \notin Statuses /\ "error" \in Statuses
          /\ NoRequest \notin Requests
      BY Names, PathAssumption DEF Statuses
    <2>1. ASSUME NEW a \in Statuses, Tell(r, a), UNCHANGED <<waitsOn, pending>>
          PROVE  WaitInv'
      BY <2>1 DEF Tell, WaitInv, Types, RequestTypes
    <2>2. ASSUME NEW a \in Statuses, Outcome(r, a), pc[r] # "answered",
                 UNCHANGED <<waitsOn, pending, told>>
          PROVE  WaitInv'
      BY <2>0, <2>2 DEF Outcome, WaitInv, Types, RequestTypes
    <2>3. CASE Replayed(r)
      <3>1. Get(replay, DirectiveOf[r]) \in Statuses
        BY <2>3, GetTyped DEF Replayed, Types, RequestTypes
      <3>. QED  BY <2>1, <2>3, <3>1 DEF Replayed, registryVars
    <2>4. CASE NoEndpoint(r)  BY <2>0, <2>1, <2>4 DEF NoEndpoint, registryVars
    <2>5. CASE Answer(r)
      <3>1. outcome[r] \in Statuses  BY <2>5 DEF Answer, WaitInv, Types, RequestTypes
      <3>. QED  BY <2>1, <2>5, <3>1 DEF Answer, registryVars
    <2>6. CASE Reject(r)  BY <2>0, <2>2, <2>6 DEF Reject, Fresh, registryVars
    <2>7. CASE Refuse(r)
      <3> DEFINE a == IF ~Conflict(r) /\ Holds(completed, CommandId(r))
                        THEN Get(completed, CommandId(r)).status ELSE "error"
      <3>1. a \in Statuses  BY <2>0, Outcomes
      <3>. QED  BY <2>2, <2>7, <3>1 DEF Refuse, registryVars
    <2>8. CASE \E sp \in Specs : Resolve(r, sp)
      BY <2>8 DEF Resolve, Fresh, WaitInv, Types, RequestTypes, registryVars
    <2>9. CASE Join(r)
      BY <2>0, <2>9 DEF Join, MaySend, Wait, WaitInv, Types, RequestTypes, registryVars
    <2>10. CASE Send(r)
      BY <2>0, <2>10 DEF Send, MaySend, Wait, WaitInv, Types, RequestTypes, RegistryTypes
    <2>11. ASSUME NEW a \in Statuses, Complete(r, a), pc[r] = "waiting", outcome'[r] # Undone,
                  \A q \in Requests \ {r} : outcome[q] # Undone => outcome'[q] # Undone
           PROVE  WaitInv'
      <3>1. /\ pc' = [pc EXCEPT ![r] = "recorded"] /\ told' = told
            /\ waitsOn' = [waitsOn EXCEPT ![r] = NoRequest]
            /\ \A c \in Ids : pending'[c] \in {NoRequest, pending[c]}
        BY <2>0, <2>11, Completes DEF Types
      <3>. QED  BY <2>11, <3>1 DEF WaitInv, Types, RequestTypes
    <2>12. CASE Wake(r)
      BY <2>11, <2>12 DEF Wake, Types, RequestTypes
    <2>13. CASE Timeout(r)
      BY <2>0, <2>11, <2>13 DEF Timeout, SetResult, Types, RequestTypes
    <2>. QED
      BY <1>1, <2>3, <2>4, <2>5, <2>6, <2>7, <2>8, <2>9, <2>10, <2>12, <2>13 DEF Handler
  <1>2. ASSUME NEW owners, NEW a \in Statuses, outcome' \in {outcome, SetResult(owners, a)},
               UNCHANGED <<pc, waitsOn, told, pending>>
        PROVE  WaitInv'
    BY <1>2, Names DEF SetResult, WaitInv, Types, RequestTypes
  <1>3. CASE Remove
    BY <1>2, <1>3 DEF Remove, EndSession, Statuses
  <1>4. CASE Result
    <2>1. CASE outcome' = outcome  BY <1>2, <1>4, <2>1 DEF Result, Statuses
    <2>2. CASE EndSession  BY <1>2, <1>4, <2>2 DEF Result, EndSession, Statuses
    <2>3. CASE outcome' = SetResult({pending[Head(back).id]}, Head(back).status)
      <3>1. Head(back) \in Replies
        BY <1>4, HeadTailProperties DEF Result, Types, ConnectorTypes
      <3>2. Head(back).status \in Statuses  BY <3>1 DEF Replies
      <3>. QED  BY <1>2, <1>4, <2>3, <3>2 DEF Result
    <2>. QED  BY <1>4, <2>1, <2>2, <2>3 DEF Result
  <1>5. CASE CloudRestart
    BY <1>5 DEF CloudRestart, WaitInv, Types, RequestTypes
  <1>6. ASSUME UNCHANGED <<pc, outcome, waitsOn, told, pending>>
        PROVE  WaitInv'
    BY <1>6 DEF WaitInv
  <1>7. CASE Connect \/ LoseLink \/ Connector \/ Reload \/ UNCHANGED vars
    BY <1>6, <1>7
    DEF Connect, LoseLink, Connector, Recall, Decline, Call, Return, Verified, Fail, Finish,
        Reload, vars, requestVars, registryVars
  <1>. QED  BY <1>1, <1>3, <1>4, <1>5, <1>7 DEF Step, Websocket

-----------------------------------------------------------------------------
(* Success is what returned                                                 *)

LEMMA DoneStays ==
  ASSUME DoneInv, done \subseteq done',
         \A i \in DOMAIN results' :
           \/ \E j \in DOMAIN results : results'[i] = results[j]
           \/ results'[i].value.status = "success" => results'[i].key \in done',
         \A i \in DOMAIN completed' :
           \/ \E j \in DOMAIN completed : completed'[i] = completed[j]
           \/ completed'[i].value.status = "success" => completed'[i].key \in done',
         \A i \in DOMAIN replay' :
           \/ \E j \in DOMAIN replay : replay'[i] = replay[j]
           \/ replay'[i].value = "success" =>
                \E q \in Requests : DirectiveOf[q] = replay'[i].key /\ CommandId(q) \in done',
         \A i \in DOMAIN back' :
           \/ \E j \in DOMAIN back : back'[i] = back[j]
           \/ back'[i].status = "success" => back'[i].id \in done',
         executing'.phase = "verifying" => executing'.id \in done',
         \A r \in Requests : outcome'[r] = "success" => outcome[r] = "success" \/ CommandId(r) \in done'
  PROVE  DoneInv'
  <1>1. \A i \in DOMAIN results' :
          results'[i].value.status = "success" => results'[i].key \in done'
    BY DEF DoneInv
  <1>2. \A i \in DOMAIN completed' :
          completed'[i].value.status = "success" => completed'[i].key \in done'
    BY DEF DoneInv
  <1>3. \A i \in DOMAIN replay' : replay'[i].value = "success" =>
          \E q \in Requests : DirectiveOf[q] = replay'[i].key /\ CommandId(q) \in done'
    BY DEF DoneInv
  <1>4. \A i \in DOMAIN back' : back'[i].status = "success" => back'[i].id \in done'
    BY DEF DoneInv
  <1>5. \A r \in Requests : outcome'[r] = "success" => CommandId(r) \in done'
    BY DEF DoneInv
  <1>. QED  BY <1>1, <1>2, <1>3, <1>4, <1>5 DEF DoneInv, CommandId

LEMMA DoneHandler ==
  ASSUME Types, Types', DoneInv, WaitInv, NEW r \in Requests, Handler(r)
  PROVE  DoneInv'
  <1>0. \A q \in Requests : outcome[q] = "success" => CommandId(q) \in done  BY DEF DoneInv
  <1>1. UNCHANGED <<results, back, executing, done>>
    BY DEF Handler, Replayed, NoEndpoint, Reject, Resolve, Refuse, Join, Send, Wake, Timeout,
           Answer, Complete, connectorVars, history
  <1>2. executing.phase = "verifying" => executing.id \in done  BY DEF DoneInv
  <1>3. ASSUME UNCHANGED <<replay, completed>>,
               \A q \in Requests :
                 outcome'[q] = "success" => outcome[q] = "success" \/ CommandId(q) \in done
        PROVE  DoneInv'
    BY <1>1, <1>2, <1>3, DoneStays
  <1>4. CASE Replayed(r) \/ NoEndpoint(r)
    BY <1>3, <1>4 DEF Replayed, NoEndpoint, Tell, Undone, registryVars, Types, RequestTypes
  <1>5. CASE Reject(r)
    BY <1>3, <1>5 DEF Reject, Outcome, registryVars, Types, RequestTypes
  <1>6. CASE Refuse(r)
    <2>1. ASSUME outcome'[r] = "success"
          PROVE  CommandId(r) \in done
      <3>1. Holds(completed, CommandId(r)) /\ Get(completed, CommandId(r)).status = "success"
        BY <1>6, <2>1 DEF Refuse, Outcome, Types, RequestTypes
      <3>. QED  BY <3>1, GetFacts DEF DoneInv
    <2>2. \A q \in Requests \ {r} : outcome'[q] = outcome[q]
      BY <1>6 DEF Refuse, Outcome, Types, RequestTypes
    <2>. QED  BY <1>3, <1>6, <2>1, <2>2 DEF Refuse, registryVars
  <1>7. CASE Join(r) \/ Send(r) \/ \E sp \in Specs : Resolve(r, sp)
    BY <1>3, <1>7 DEF Join, Send, Resolve, registryVars
  <1>8. ASSUME NEW a \in Statuses, Complete(r, a), a = "success" => CommandId(r) \in done,
               \A q \in Requests :
                 outcome'[q] = "success" => outcome[q] = "success" \/ CommandId(q) \in done
        PROVE  DoneInv'
    <2>1. /\ replay' = replay
          /\ \A i \in DOMAIN completed' :
               \/ completed'[i].key = CommandId(r) /\ completed'[i].value.status = a
               \/ \E j \in DOMAIN completed : completed'[i] = completed[j]
      BY <1>8, Completes DEF Types
    <2>2. \A i \in DOMAIN completed' :
            \/ \E j \in DOMAIN completed : completed'[i] = completed[j]
            \/ completed'[i].value.status = "success" => completed'[i].key \in done'
      BY <1>1, <1>8, <2>1
    <2>. QED  BY <1>1, <1>2, <1>8, <2>1, <2>2, DoneStays
  <1>9. CASE Wake(r)
    BY <1>0, <1>8, <1>9 DEF Wake, Types, RequestTypes
  <1>10. CASE Timeout(r)
    BY <1>8, <1>10 DEF Timeout, SetResult, Statuses, Types, RequestTypes
  <1>11. CASE Answer(r)
    <2>1. completed' = completed /\ \A q \in Requests : outcome'[q] = "success" => outcome[q] = "success"
      BY <1>11 DEF Answer, Tell, Undone, registryVars, Types, RequestTypes
    <2>2. \A i \in DOMAIN replay' :
            \/ \E j \in DOMAIN replay : replay'[i] = replay[j]
            \/ replay'[i].value = "success" =>
                 \E q \in Requests : DirectiveOf[q] = replay'[i].key /\ CommandId(q) \in done'
      <3>1. CASE DirectiveOf[r] = NoDirective  BY <1>11, <3>1 DEF Answer
      <3>2. CASE DirectiveOf[r] # NoDirective
        <4>1. /\ DirectiveOf[r] \in Directives /\ ReplayCap \in Nat \ {0}
              /\ replay \in Dicts(Directives, Statuses) /\ outcome[r] \in Statuses
          BY <1>11, <3>2, PathAssumption DEF Types, RequestTypes, Answer, WaitInv
        <4> DEFINE new == Put(replay, DirectiveOf[r], outcome[r], ReplayCap)
        <4>2. \A i \in DOMAIN new : \/ new[i] = [key |-> DirectiveOf[r], value |-> outcome[r]]
                                    \/ \E j \in DOMAIN replay : new[i] = replay[j]
          BY ONLY <4>1, PutFacts
        <4>3. replay' = new  BY <1>11, <3>2 DEF Answer
        <4>. HIDE DEF new
        <4>4. ASSUME NEW i \in DOMAIN new, new[i] = [key |-> DirectiveOf[r], value |-> outcome[r]],
                     new[i].value = "success"
              PROVE  DirectiveOf[r] = new[i].key /\ CommandId(r) \in done
          BY <1>0, <4>4
        <4>. QED  BY <1>1, <4>2, <4>3, <4>4
      <3>. QED  BY <3>1, <3>2
    <2>. QED  BY <1>1, <1>2, <2>1, <2>2, DoneStays
  <1>. QED  BY <1>4, <1>5, <1>6, <1>7, <1>9, <1>10, <1>11 DEF Handler

LEMMA DoneWebsocket ==
  ASSUME Types, Types', DoneInv, WaitInv, Websocket
  PROVE  DoneInv'
  <1>0. /\ UNCHANGED <<replay, completed, results, executing, done, pending>>
        /\ executing.phase = "verifying" => executing.id \in done
    BY DEF Websocket, Connect, Remove, Result, LoseLink, registryVars, connectorVars,
           history, DoneInv
  <1>1. ASSUME \A i \in DOMAIN back' : \E j \in DOMAIN back : back'[i] = back[j],
               \A r \in Requests :
                 outcome'[r] = "success" => outcome[r] = "success" \/ CommandId(r) \in done
        PROVE  DoneInv'
    BY <1>0, <1>1, DoneStays
  <1>2. CASE Connect \/ LoseLink
    <2>1. outcome' = outcome  BY <1>2 DEF Connect, LoseLink, requestVars
    <2>2. \A i \in DOMAIN back' : \E j \in DOMAIN back : back'[i] = back[j]
      BY <1>2 DEF Connect, LoseLink
    <2>. QED  BY <1>1, <2>1, <2>2
  <1>3. ASSUME EndSession
        PROVE  DoneInv'
    <2>1. \A i \in DOMAIN back' : \E j \in DOMAIN back : back'[i] = back[j]
      BY <1>3 DEF EndSession
    <2>2. \A r \in Requests : outcome'[r] \in {"error", outcome[r]}
      BY <1>3 DEF EndSession, SetResult
    <2>. QED  BY <1>1, <2>1, <2>2
  <1>4. CASE Remove  BY <1>3, <1>4 DEF Remove
  <1>5. CASE Result
    <2> DEFINE m == Head(back)
    <2>1. back # << >> /\ back \in Seq(Replies)  BY <1>5 DEF Result, Types, ConnectorTypes
    <2>0. \A i \in DOMAIN Tail(back) : \E j \in DOMAIN back : Tail(back)[i] = back[j]
      <3>1. /\ Len(Tail(back)) = Len(back) - 1 /\ Tail(back) \in Seq(Replies)
            /\ \A i \in 1..Len(Tail(back)) : Tail(back)[i] = back[i + 1]
        BY <2>1, HeadTailProperties
      <3>2. /\ DOMAIN back = 1..Len(back) /\ Len(back) \in Nat
            /\ DOMAIN Tail(back) = 1..Len(Tail(back))
        BY <2>1, <3>1, LenProperties
      <3>. QED  BY <3>1, <3>2
    <2>2. m \in Replies /\ m = back[1] /\ 1 \in DOMAIN back
      BY <2>1, HeadTailProperties, LenProperties, EmptySeq
    <2>3. m.status = "success" => m.id \in done /\ m.id \in Ids
      BY <2>2 DEF DoneInv, Replies
    <2>. HIDE DEF m
    <2>4. CASE /\ pending[m.id] \in Undecided
               /\ outcome' = SetResult({pending[m.id]}, m.status) /\ back' = Tail(back)
      <3>1. pending[m.id] # NoRequest  BY <2>4 DEF Undecided
      <3>2. ASSUME NEW r \in Requests, outcome'[r] = "success", outcome[r] # "success"
            PROVE  CommandId(r) \in done
        <4>1. waitsOn[r] = pending[m.id] /\ m.status = "success"
          BY <2>4, <3>2 DEF SetResult
        <4>2. CommandId(pending[m.id]) = m.id /\ CommandId(waitsOn[r]) = CommandId(r)
          BY <2>3, <3>1, <4>1 DEF WaitInv
        <4>. QED  BY <2>3, <4>1, <4>2
      <3>. QED  BY <1>1, <2>0, <2>4, <3>2
    <2>5. CASE outcome' = outcome /\ back' = Tail(back)
      BY <1>1, <2>0, <2>5
    <2>. QED  BY <1>3, <1>5, <2>4, <2>5 DEF Result, m
  <1>. QED  BY <1>2, <1>4, <1>5 DEF Websocket

LEMMA DoneConnector ==
  ASSUME Types, Types', DoneInv, Connector
  PROVE  DoneInv'
  <1>0. /\ UNCHANGED <<replay, completed, outcome>> /\ done \subseteq done'
        /\ executing.phase = "verifying" => executing.id \in done
    BY DEF Connector, Recall, Decline, Call, Return, Verified, Fail, Finish, requestVars,
           registryVars, history, DoneInv
  <1>1. ASSUME NEW c \in Ids, NEW a \in Statuses, NEW rest \in Seq(Commands), Reply(c, a, rest),
               a = "success" => c \in done',
               executing'.phase = "verifying" => executing'.id \in done',
               \/ results' = results
               \/ \E sp \in Specs : Remember(c, sp, a)
        PROVE  DoneInv'
    <2>1. \A i \in DOMAIN back' :
            \/ \E j \in DOMAIN back : back'[i] = back[j]
            \/ back'[i].status = "success" => back'[i].id \in done'
      <3>1. \A i \in DOMAIN back' : \/ back'[i] = [id |-> c, status |-> a]
                                    \/ \E j \in DOMAIN back : back'[i] = back[j]
        BY <1>1, Replied DEF Types
      <3>. QED  BY <1>1, <3>1
    <2>2. \A i \in DOMAIN results' :
            \/ \E j \in DOMAIN results : results'[i] = results[j]
            \/ results'[i].value.status = "success" => results'[i].key \in done'
      <3>1. CASE results' = results  BY <3>1
      <3>2. ASSUME NEW sp \in Specs, Remember(c, sp, a)
            PROVE  \A i \in DOMAIN results' :
                     \/ results'[i].key = c /\ results'[i].value.status = a
                     \/ \E j \in DOMAIN results : results'[i] = results[j]
        BY <1>1, <3>2, Remembered DEF Types
      <3>. QED  BY <1>1, <3>1, <3>2
    <2>. QED  BY <1>0, <1>1, <2>1, <2>2, DoneStays
  <1>2. CASE Recall
    <2> DEFINE c == Head(wire).id
               a == IF Get(results, c).spec = Head(wire).spec
                      THEN Get(results, c).status ELSE "error"
    <2>1. c \in Ids /\ Tail(wire) \in Seq(Commands)  BY <1>2, Taking DEF Recall, Types
    <2>2. Holds(results, c) /\ Reply(c, a, Tail(wire)) /\ UNCHANGED <<results, executing>>
      BY <1>2 DEF Recall
    <2>3. a \in Statuses
      <3>1. Get(results, c) \in [spec : Specs, status : Statuses]
        BY <2>2, GetTyped DEF Types, ConnectorTypes
      <3>. QED  BY <3>1 DEF Statuses
    <2>4. a = "success" => c \in done  BY <2>2, GetFacts DEF DoneInv
    <2>. HIDE DEF a, c
    <2>. QED  BY <1>0, <1>1, <2>1, <2>2, <2>3, <2>4
  <1>3. CASE Decline
    <2>1. Head(wire).id \in Ids /\ Head(wire).spec \in Specs /\ Tail(wire) \in Seq(Commands)
      BY <1>3, Taking DEF Decline, Types
    <2>. QED  BY <1>0, <1>1, <1>3, <2>1 DEF Decline, Statuses
  <1>4. CASE Call
    <2>1. executing'.phase = "calling" /\ UNCHANGED <<results, back>>  BY <1>4 DEF Call
    <2>. QED  BY <1>0, <2>1, DoneStays
  <1>5. ASSUME NEW a \in Statuses, Finish(a), executing.phase # "idle",
               a = "success" => executing.id \in done'
        PROVE  DoneInv'
    <2>1. executing.id \in Ids /\ executing.spec \in Specs /\ wire \in Seq(Commands)
      BY <1>5 DEF Types, ConnectorTypes, Idle
    <2>. QED  BY <1>1, <1>5, <2>1 DEF Finish, Idle
  <1>6. CASE Return
    <2>1. executing.id \in done' /\ executing.phase = "calling"  BY <1>6 DEF Return
    <2>2. CASE Finish("success")  BY <1>5, <2>1, <2>2 DEF Statuses
    <2>3. CASE ~Finish("success")
      <3>1. executing' = [executing EXCEPT !.phase = "verifying"] /\ UNCHANGED <<results, back>>
        BY <1>6, <2>3 DEF Return
      <3>2. executing \in [id : Ids, spec : Specs, phase : {"calling", "verifying"}]
        BY <2>1 DEF Types, ConnectorTypes, Idle
      <3>3. executing'.id = executing.id  BY <3>1, <3>2
      <3>. QED  BY <1>0, <2>1, <3>1, <3>3, DoneStays
    <2>. QED  BY <2>2, <2>3
  <1>7. CASE Verified  BY <1>0, <1>5, <1>7 DEF Verified, Statuses
  <1>8. CASE Fail  BY <1>5, <1>8 DEF Fail, Statuses
  <1>. QED  BY <1>2, <1>3, <1>4, <1>6, <1>7, <1>8 DEF Connector

LEMMA DoneSafe ==
  ASSUME Types, Types', DoneInv, WaitInv, Step
  PROVE  DoneInv'
  <1>0. executing.phase = "verifying" => executing.id \in done  BY DEF DoneInv
  <1>1. CASE CloudRestart
    <2>1. /\ completed' = << >> /\ replay' = << >> /\ back' = << >>
          /\ UNCHANGED <<results, executing, done>>
          /\ \A r \in Requests : outcome'[r] # "success"
      BY <1>1 DEF CloudRestart, connectorVars, Undone
    <2>. QED  BY <1>0, <2>1, DoneStays
  <1>2. CASE Reload
    <2>1. /\ UNCHANGED <<completed, replay, back, outcome, done>>
          /\ results' = << >> /\ executing'.phase = "idle"
      BY <1>2 DEF Reload, requestVars, registryVars, Idle
    <2>. QED  BY <2>1, DoneStays
  <1>3. CASE UNCHANGED vars
    <2>1. UNCHANGED <<completed, replay, back, outcome, done, results, executing>>
      BY <1>3 DEF vars, requestVars, registryVars, connectorVars, history
    <2>. QED  BY <1>0, <2>1, DoneStays
  <1>. QED  BY <1>1, <1>2, <1>3, DoneHandler, DoneWebsocket, DoneConnector DEF Step

-----------------------------------------------------------------------------
(* The theorems                                                             *)

LEMMA InitInv ==
  ASSUME Init
  PROVE  IInv
  <1>0. /\ << >> \in Seq(Commands) /\ << >> \in Seq(Replies)
        /\ \A K, V : << >> \in Dicts(K, V)
    BY EmptySeq DEF Dicts
  <1>1. TypeOK
    <2>1. RequestTypes  BY <1>0 DEF Init, RequestTypes, Specs
    <2>2. RegistryTypes
      <3>1. 0 \in 0..MaxFaults  BY PathAssumption
      <3>2. completed \in Dicts(Ids, [spec : Fingerprints, status : Statuses])  BY <1>0 DEF Init
      <3>3. pending \in [Ids -> Requests \cup {NoRequest}] /\ cloudLost \in [Ids -> Nat]
        BY DEF Init
      <3>4. registered \in BOOLEAN /\ restarts = 0  BY DEF Init
      <3>. QED  BY <3>1, <3>2, <3>3, <3>4 DEF RegistryTypes
    <2>3. ConnectorTypes
      <3>1. 0 \in 0..MaxFaults  BY PathAssumption
      <3>2. results \in Dicts(Ids, [spec : Specs, status : Statuses])  BY <1>0 DEF Init
      <3>3. wire \in Seq(Commands) /\ back \in Seq(Replies)  BY <1>0 DEF Init
      <3>4. acts \in [Ids -> Nat] /\ connectorLost \in [Ids -> Nat] /\ done \in SUBSET Ids
        BY DEF Init
      <3>5. linked \in BOOLEAN /\ reloads = 0 /\ executing = Idle  BY DEF Init
      <3>. QED  BY <3>1, <3>2, <3>3, <3>4, <3>5 DEF ConnectorTypes
    <2>. QED  BY <2>1, <2>2, <2>3, Parts
  <1>2. /\ acts = [c \in Ids |-> 0] /\ wire = << >> /\ executing = Idle /\ back = << >>
        /\ cloudLost = [c \in Ids |-> 0] /\ connectorLost = [c \in Ids |-> 0]
        /\ results = << >> /\ completed = << >> /\ replay = << >>
        /\ \A r \in Requests : /\ outcome[r] = Undone /\ waitsOn[r] = NoRequest
                               /\ pc[r] = "new" /\ told[r] = "nothing"
        /\ \A c \in Ids : pending[c] = NoRequest
    BY DEF Init
  <1>3. CloudInv  BY <1>2 DEF CloudInv, Acted
  <1>4. ConnectorInv  BY <1>2 DEF ConnectorInv, ActedThere
  <1>5. DoneInv  BY <1>2 DEF DoneInv, Idle, Undone
  <1>6. WaitInv  BY <1>2 DEF WaitInv
  <1>. QED  BY <1>1, <1>3, <1>4, <1>5, <1>6 DEF IInv

LEMMA NextInv ==
  ASSUME IInv, [Next]_vars
  PROVE  IInv'
  <1>1. Step  BY DEF Next, Step
  <1>2. Types /\ Recorded  BY Parts DEF IInv, Types, WaitInv, Recorded
  <1>3. Types'  BY <1>1, <1>2, HandlerTypes, OtherTypes DEF Step, Types
  <1>4. TypeOK'
    BY <1>3 DEF TypeOK, Types, RequestTypes, RegistryTypes, ConnectorTypes
  <1>. QED  BY <1>1, <1>2, <1>3, <1>4, CloudSafe, ConnectorSafe, DoneSafe, WaitSafe DEF IInv

LEMMA AlwaysInv == Spec => []IInv
  BY InitInv, NextInv, PTL DEF Spec

(* Every variable of the path keeps its type; that the handler only answers *)
(* with an outcome it has rests on the order of its steps.                  *)
THEOREM TypeOKAlways == Spec => []TypeOK
  BY AlwaysInv, PTL DEF IInv

(* Home Assistant is called for a command once more only after both the     *)
(* cloud and the Connector forgot it, for every number of deliveries, every *)
(* size of the memories and any number of restarts and reloads              *)
(* (evcp.py:377-470, command_executor.py:60-118).                           *)
THEOREM ActsOnceAlways == Spec => []ActsOnce
  <1>1. IInv => ActsOnce
    <2> SUFFICES ASSUME IInv, NEW c \in Ids
                 PROVE  acts[c] <= 1 + cloudLost[c] /\ acts[c] <= 1 + connectorLost[c]
      BY DEF ActsOnce
    <2>1. acts[c] \in Nat /\ cloudLost[c] \in Nat /\ connectorLost[c] \in Nat
      BY DEF IInv, TypeOK
    <2>. QED  BY <2>1 DEF IInv, CloudInv, ConnectorInv, Acted, ActedThere
  <1>. QED  BY <1>1, AlwaysInv, PTL

-----------------------------------------------------------------------------
(* The refinement                                                           *)

LEMMA InitPromised == ASSUME Init  PROVE Promise!Init
  BY DEF Init, Promise!Init

(* A step that answers nobody, and in which no command is called, returns   *)
(* or is forgotten, is none of the promise.                                 *)
LEMMA Silent ==
  ASSUME UNCHANGED <<history, told>>
  PROVE  UNCHANGED Promise!vars
  BY DEF history, Promise!vars

LEMMA ForgottenThere ==
  ASSUME Types, Types', UNCHANGED <<acts, done, told, cloudLost>>,
         \A c \in Ids : connectorLost'[c] >= connectorLost[c]
  PROVE  Promise!ConnectorForgets
  BY DEF Promise!ConnectorForgets, Promise!Forgets, Types, ConnectorTypes

LEMMA ForgottenHere ==
  ASSUME Types, Types', UNCHANGED <<acts, done, connectorLost>>,
         \A c \in Ids : cloudLost'[c] >= cloudLost[c],
         NEW waiting, waiting \subseteq {r \in Requests : told[r] = "nothing"},
         told' = [r \in Requests |-> IF r \in waiting THEN "error" ELSE told[r]]
  PROVE  Promise!Next
  <1>1. Promise!Forgets(cloudLost)
    BY DEF Promise!Forgets, Types, RegistryTypes
  <1>2. \E w \in SUBSET {r \in Requests : told[r] = "nothing"} :
           told' = [r \in Requests |-> IF r \in w THEN "error" ELSE told[r]]
    <2>1. waiting \in SUBSET {r \in Requests : told[r] = "nothing"}  OBVIOUS
    <2>. WITNESS waiting \in SUBSET {r \in Requests : told[r] = "nothing"}
    <2>. QED  OBVIOUS
  <1>. QED  BY <1>1, <1>2 DEF Promise!CloudForgets, Promise!Next

LEMMA HandlerPromised ==
  ASSUME IInv, Types, Types', NEW r \in Requests, Handler(r)
  PROVE  [Promise!Next]_(Promise!vars)
  <1>1. ASSUME NEW a \in Statuses, Tell(r, a), pc[r] # "answered", UNCHANGED history,
               a = "success" => Serving(r) \cap done # {}
        PROVE  Promise!Next
    <2>1. told[r] = "nothing"  BY <1>1 DEF IInv, WaitInv
    <2>2. CASE told' = [told EXCEPT ![r] = a]
      <3>1. Promise!Tell(r, a)  BY <1>1, <2>1, <2>2 DEF Promise!Tell, history
      <3>. QED  BY <3>1 DEF Promise!Next, Statuses
    <2>3. CASE told' = [told EXCEPT ![r] = "error"]
      <3>1. Promise!Tell(r, "error")  BY <1>1, <2>1, <2>3 DEF Promise!Tell, history
      <3>. QED  BY <3>1 DEF Promise!Next
    <2>. QED  BY <1>1, <2>2, <2>3 DEF Tell
  <1>2. CASE Replayed(r)
    <2> DEFINE a == Get(replay, DirectiveOf[r])
    <2>1. a \in Statuses  BY <1>2, GetTyped DEF Replayed, Types, RequestTypes
    <2>2. a = "success" => Serving(r) \cap done # {}
      <3>1. SUFFICES ASSUME a = "success"  PROVE Serving(r) \cap done # {}  OBVIOUS
      <3>2. PICK i \in DOMAIN replay : replay[i].key = DirectiveOf[r] /\ replay[i].value = a
        BY <1>2, GetFacts DEF Replayed
      <3>3. PICK q \in Requests : DirectiveOf[q] = DirectiveOf[r] /\ CommandId(q) \in done
        BY <3>1, <3>2 DEF IInv, DoneInv
      <3>. QED  BY <1>2, <3>3 DEF Replayed, Serving
    <2>. QED  BY <1>1, <1>2, <2>1, <2>2 DEF Replayed
  <1>3. CASE NoEndpoint(r)
    BY <1>1, <1>3 DEF NoEndpoint, Fresh, Statuses
  <1>4. CASE Answer(r)
    <2>1. outcome[r] \in Statuses
      BY <1>4 DEF Answer, IInv, WaitInv, Types, RequestTypes
    <2>2. outcome[r] = "success" => CommandId(r) \in Serving(r) \cap done
      BY DEF IInv, DoneInv, Serving
    <2>. QED  BY <1>1, <1>4, <2>1, <2>2 DEF Answer
  <1>5. ASSUME NEW a \in Statuses, Complete(r, a)
        PROVE  Promise!Next
    <2>1. /\ UNCHANGED <<told, acts, done, connectorLost>>
          /\ \A c \in Ids : cloudLost'[c] \in {cloudLost[c], cloudLost[c] + 1}
      BY <1>5, Completes DEF Types
    <2>2. \A c \in Ids : cloudLost'[c] >= cloudLost[c]  BY <2>1 DEF Types, RegistryTypes
    <2>3. PICK none \in SUBSET Requests : none = {}  OBVIOUS
    <2>4. told' = [q \in Requests |-> IF q \in none THEN "error" ELSE told[q]]
      BY <2>1, <2>3 DEF Types, RequestTypes
    <2>5. none \subseteq {q \in Requests : told[q] = "nothing"}  BY <2>3
    <2>. QED  BY ONLY Types, Types', <2>1, <2>2, <2>4, <2>5, ForgottenHere
  <1>6. CASE Wake(r)
    BY <1>5, <1>6 DEF Wake, Types, RequestTypes
  <1>7. CASE Timeout(r)
    BY <1>5, <1>7 DEF Timeout, Statuses
  <1>8. CASE Reject(r) \/ (\E sp \in Specs : Resolve(r, sp)) \/ Refuse(r) \/ Join(r) \/ Send(r)
    BY <1>8, Silent DEF Reject, Resolve, Refuse, Join, Send
  <1>. QED  BY <1>2, <1>3, <1>4, <1>6, <1>7, <1>8 DEF Handler

LEMMA ConnectorPromised ==
  ASSUME IInv, Types, Types', Connector
  PROVE  [Promise!Next]_(Promise!vars)
  <1>0. \A c \in Ids : connectorLost[c] \in Nat  BY DEF Types, ConnectorTypes
  <1>1. ASSUME NEW c \in Ids, NEW sp \in Specs, NEW a \in Statuses, Remember(c, sp, a)
        PROVE  \A d \in Ids : connectorLost'[d] >= connectorLost[d]
    BY <1>0, <1>1, Remembered DEF Types
  <1>2. CASE Recall
    BY <1>2, Silent DEF Recall, requestVars
  <1>3. CASE Decline
    <2>1. Head(wire).id \in Ids /\ Head(wire).spec \in Specs
      BY <1>3, Taking DEF Decline, Types
    <2>2. UNCHANGED <<acts, done, told, cloudLost>>  BY <1>3 DEF Decline, requestVars
    <2>3. Promise!ConnectorForgets
      BY <1>1, <1>3, <2>1, <2>2, ForgottenThere DEF Decline, Statuses
    <2>. QED  BY <2>3 DEF Promise!Next
  <1>4. CASE Call
    <2> DEFINE c == Head(wire).id
    <2>1. c \in Ids  BY <1>4, Taking DEF Call, Types
    <2>2. acts[c] <= cloudLost[c] /\ acts[c] <= connectorLost[c]
      BY <1>4, CloudCalled, ConnectorCalled DEF IInv
    <2>3. acts' = [acts EXCEPT ![c] = @ + 1] /\ UNCHANGED <<done, told, cloudLost, connectorLost>>
      BY <1>4 DEF Call, requestVars
    <2>. HIDE DEF c
    <2>4. Promise!Act(c)  BY <2>2, <2>3 DEF Promise!Act
    <2>. QED  BY <2>1, <2>4 DEF Promise!Next
  <1>5. ASSUME NEW a \in Statuses, Finish(a), executing.phase # "idle"
        PROVE  /\ UNCHANGED <<acts, told, cloudLost>>
               /\ \A d \in Ids : connectorLost'[d] >= connectorLost[d]
    <2>1. executing.id \in Ids /\ executing.spec \in Specs
      BY <1>5 DEF Types, ConnectorTypes, Idle
    <2>. QED  BY <1>1, <1>5, <2>1 DEF Finish, requestVars
  <1>6. CASE Return
    <2> DEFINE c == executing.id
    <2>1. c \in Ids /\ acts[c] > 0 /\ done' = done \cup {c} /\ executing.phase = "calling"
      <3>1. executing.phase = "calling" /\ done' = done \cup {c}  BY <1>6 DEF Return
      <3>2. executing # Idle  BY <3>1 DEF Idle
      <3>3. c \in Ids  BY <3>2 DEF Types, ConnectorTypes
      <3>4. acts[c] > 0  BY <3>2 DEF IInv, ConnectorInv
      <3>. QED  BY <3>1, <3>3, <3>4
    <2>2. /\ UNCHANGED <<acts, told, cloudLost>>
          /\ \A d \in Ids : connectorLost'[d] >= connectorLost[d]
      BY <1>0, <1>5, <1>6, <2>1 DEF Return, requestVars, Statuses
    <2>. HIDE DEF c
    <2>3. Promise!Return(c)
      BY <2>1, <2>2 DEF Promise!Return, Promise!Forgets, Types, ConnectorTypes
    <2>. QED  BY <2>1, <2>3 DEF Promise!Next
  <1>7. CASE Verified \/ Fail
    <2>1. Promise!ConnectorForgets
      BY <1>5, <1>7, ForgottenThere DEF Verified, Fail, Statuses
    <2>. QED  BY <2>1 DEF Promise!Next
  <1>. QED  BY <1>2, <1>3, <1>4, <1>6, <1>7 DEF Connector

LEMMA FaultsPromised ==
  ASSUME IInv, Types, Types', CloudRestart \/ Reload
  PROVE  Promise!Next
  <1>1. CASE CloudRestart
    <2> DEFINE waiting == {r \in Requests : pc[r] \notin {"new", "answered"}}
    <2>1. waiting \subseteq {r \in Requests : told[r] = "nothing"}
      BY DEF IInv, WaitInv
    <2>2. told' = [r \in Requests |-> IF r \in waiting THEN "error" ELSE told[r]]
      BY <1>1 DEF CloudRestart
    <2>3. \A c \in Ids : cloudLost'[c] \in {cloudLost[c], cloudLost[c] + 1}
      BY <1>1 DEF CloudRestart, Types, RegistryTypes
    <2>4. \A c \in Ids : cloudLost'[c] >= cloudLost[c]
      BY <2>3 DEF Types, RegistryTypes
    <2>5. UNCHANGED <<acts, done, connectorLost>>  BY <1>1 DEF CloudRestart
    <2>. HIDE DEF waiting
    <2>. QED  BY <2>1, <2>2, <2>4, <2>5, ForgottenHere
  <1>2. CASE Reload
    <2>1. \A c \in Ids : connectorLost'[c] \in {connectorLost[c], connectorLost[c] + 1}
      BY <1>2 DEF Reload, Types, ConnectorTypes
    <2>2. \A c \in Ids : connectorLost'[c] >= connectorLost[c]
      <3>1. \A c \in Ids : connectorLost[c] \in Nat  BY DEF Types, ConnectorTypes
      <3>. QED  BY <2>1, <3>1
    <2>3. UNCHANGED <<acts, done, told, cloudLost>>  BY <1>2 DEF Reload, requestVars
    <2>4. Promise!ConnectorForgets  BY <2>2, <2>3, ForgottenThere
    <2>. QED  BY <2>4 DEF Promise!Next
  <1>. QED  BY <1>1, <1>2

LEMMA NextPromised ==
  ASSUME IInv, [Next]_vars
  PROVE  [Promise!Next]_(Promise!vars)
  <1>1. IInv'  BY NextInv
  <1>2. Types /\ Types'
    BY <1>1 DEF IInv, TypeOK, Types, RequestTypes, RegistryTypes, ConnectorTypes
  <1>3. CASE Websocket \/ UNCHANGED vars
    BY <1>3, Silent
    DEF Websocket, Connect, Remove, Result, LoseLink, vars, requestVars, history
  <1>. QED
    BY <1>2, <1>3, HandlerPromised, ConnectorPromised, FaultsPromised DEF Next

(* The path keeps its promise, for every set of requests and directives,    *)
(* every size of the three memories and any number of restarts: each        *)
(* delivery is answered once, success is answered only of an action that    *)
(* returned, and an action is repeated only after both ends forgot it       *)
(* (alexa.py:1090-1180, evcp.py:377-560, command_executor.py:60-118).       *)
THEOREM KeepsPromiseAlways == Spec => KeepsPromise
  BY InitPromised, AlwaysInv, NextPromised, PTL DEF Spec, KeepsPromise, Promise!Spec
=============================================================================
