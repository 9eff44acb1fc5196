-------------------------- MODULE EntitySyncProofs --------------------------
(* Theorems of EntitySync: handlers and their batches, the order of what is *)
(* in flight, and what the cloud holds in the end, for any number of        *)
(* sessions, entities, values and changes.                                  *)
EXTENDS EntitySync, TLAPS

PhaseTypes ==
  /\ phase \in [Sessions -> Phases]
  /\ late \in [Sessions -> Nat]

(* A session is registered once, before its handler receives, and a handler *)
(* takes a message only while its session is the registered one: so once it *)
(* has committed late it is not registered and takes no other.              *)
LateInv ==
  \A s \in Sessions :
    /\ phase[s] \in {"new", "authenticated"} => current # s /\ late[s] = 0
    /\ phase[s] \in {"applying", "ending"} => late[s] = 0
    /\ late[s] \in {0, 1}
    /\ late[s] = 1 => current # s

BatchInv ==
  \A k \in DOMAIN batches : k[1] \in Sessions /\ phase[k[1]] = "receiving"

SyncInv == PhaseTypes /\ LateInv /\ BatchInv

(* Ending a handler touches its own session only, and drops its batches.    *)
LEMMA EndKeepsInv ==
  ASSUME SyncInv, NEW s \in Sessions, NEW why, End(s, why),
         \/ UNCHANGED late
         \/ phase[s] = "ending" /\ late' = [late EXCEPT ![s] = IF current = s THEN @ ELSE @ + 1]
  PROVE  SyncInv'
<1>1. PhaseTypes'
  BY DEF SyncInv, PhaseTypes, End, Phases
<1>2. LateInv'
  BY SyncAssumption DEF SyncInv, PhaseTypes, LateInv, End, Phases
<1>3. BatchInv'
  BY DEF SyncInv, PhaseTypes, BatchInv, End, Restrict
<1> QED  BY <1>1, <1>2, <1>3 DEF SyncInv

(* Taking the last batch of a message leaves no batch of the session.       *)
LEMMA AcceptKeepsInv ==
  ASSUME SyncInv, NEW s \in Sessions, NEW kind, Accept(s, kind),
         NEW next \in {"applying", "ending"}, phase' = [phase EXCEPT ![s] = next],
         UNCHANGED <<current, late>>
  PROVE  SyncInv'
<1>1. phase[s] = "receiving" /\ current = s
  BY DEF Accept, Received, Refusal, Owns
<1>2. PhaseTypes'
  BY DEF SyncInv, PhaseTypes, Phases
<1>3. LateInv'
  BY <1>1 DEF SyncInv, PhaseTypes, LateInv, Phases
<1>4. BatchInv'
  <2> DEFINE m == Head(inbox[s])
             left == Kept(s, m) \ {Key(s, m)}
  <2>1. batches' = [k \in left |-> batches[k]]
    BY DEF Accept, Restrict
  <2>2. ASSUME NEW k \in left
        PROVE  k \in DOMAIN batches /\ k[1] # s
    BY DEF Kept
  <2> QED  BY <2>1, <2>2 DEF SyncInv, PhaseTypes, BatchInv
<1> QED  BY <1>2, <1>3, <1>4 DEF SyncInv

(* The invariant holds initially.                                           *)
LEMMA InitSyncInv == Init => SyncInv
<1> SUFFICES ASSUME Init PROVE SyncInv  OBVIOUS
<1>1. PhaseTypes /\ LateInv
  BY SyncAssumption DEF Init, PhaseTypes, LateInv, Phases
<1>2. DOMAIN batches = {}
  BY DEF Init
<1> QED  BY <1>1, <1>2 DEF SyncInv, BatchInv

(* Every step keeps it.                                                     *)
LEMMA NextSyncInv == SyncInv /\ [Next]_vars => SyncInv'
<1> SUFFICES ASSUME SyncInv, [Next]_vars PROVE SyncInv'  OBVIOUS
<1> USE DEF handlerVars, connVars, dbVars, history
<1>1. CASE UNCHANGED <<phase, late, current, batches>>
  BY <1>1 DEF SyncInv, PhaseTypes, LateInv, BatchInv
<1>2. ASSUME NEW s \in Sessions, Connect(s) PROVE SyncInv'
  BY <1>2 DEF Connect, SyncInv, PhaseTypes, LateInv, BatchInv, Phases
<1>3. ASSUME NEW s \in Sessions, Register(s) PROVE SyncInv'
  BY <1>3 DEF Register, SyncInv, PhaseTypes, LateInv, BatchInv, Phases
<1>4. ASSUME NEW s \in Sessions, Fail(s) \/ Refuse(s) PROVE SyncInv'
  BY <1>4, EndKeepsInv DEF Fail, Refuse
<1>5. ASSUME NEW s \in Sessions, ReceiveBatch(s) PROVE SyncInv'
  <2> DEFINE m == Head(inbox[s])
  <2>1. phase[s] = "receiving" /\ UNCHANGED <<phase, late, current>>
    BY <1>5 DEF ReceiveBatch, Received
  <2>2. DOMAIN batches' \subseteq DOMAIN batches \cup {<<s, m.revision>>}
    BY <1>5 DEF ReceiveBatch, Kept, Key
  <2> QED  BY <2>1, <2>2 DEF SyncInv, PhaseTypes, LateInv, BatchInv
<1>6. ASSUME NEW s \in Sessions, BeginFull(s) PROVE SyncInv'
  BY <1>6, AcceptKeepsInv DEF BeginFull
<1>7. ASSUME NEW s \in Sessions, BeginState(s) \/ RejectState(s) PROVE SyncInv'
  BY <1>7, AcceptKeepsInv DEF BeginState, RejectState
<1>8. ASSUME NEW s \in Sessions, Commit(s) PROVE SyncInv'
  BY <1>8 DEF Commit, Persist, SyncInv, PhaseTypes, LateInv, BatchInv, Phases
<1>9. ASSUME NEW s \in Sessions, Cleanup(s) PROVE SyncInv'
  BY <1>9, EndKeepsInv DEF Cleanup, Persist
<1>10. ASSUME \/ \E e \in Entities : \E v \in Rows : StateChanges(e, v) \/ RegistryChanges(e, v)
              \/ FlushStates \/ FlushDone \/ Resync \/ ResyncDone \/ GiveUp \/ Disconnect
              \/ \E s \in Sessions : Start(s)
              \/ UNCHANGED vars
       PROVE  UNCHANGED <<phase, late, current, batches>>
  BY <1>10 DEF StateChanges, RegistryChanges, Change, FlushStates, FlushDone, Resync,
               ResyncDone, GiveUp, Disconnect, Start, vars
<1> QED
  BY <1>1, <1>2, <1>3, <1>4, <1>5, <1>6, <1>7, <1>8, <1>9, <1>10 DEF Next

(* A replaced handler commits at most the message it had begun, and no      *)
(* handler leaves a half-received inventory behind.                         *)
THEOREM SyncInvariant == Spec => []SyncInv
<1>1. Init => SyncInv  BY InitSyncInv
<1>2. SyncInv /\ [Next]_vars => SyncInv'  BY NextSyncInv
<1> QED  BY <1>1, <1>2, PTL DEF Spec

(* A replaced handler commits at most one message (AtMostOneLate).          *)
THEOREM AtMostOneLateAlways == Spec => []AtMostOneLate
<1>1. SyncInv => AtMostOneLate
  BY DEF SyncInv, LateInv, AtMostOneLate
<1> QED  BY <1>1, SyncInvariant, PTL

-----------------------------------------------------------------------------
(* What the Connector sends                                                 *)

(* Some entities with their values: what a message carries.                 *)
ItemSets == UNION {[D -> Values] : D \in SUBSET Entities}

(* A set of items is a function of part of the entities.                    *)
LEMMA ItemSetFacts ==
  /\ \A f \in ItemSets : DOMAIN f \subseteq Entities /\ \A e \in DOMAIN f : f[e] \in Values
  /\ \A f \in ItemSets : \A D : Restrict(f, D \cap DOMAIN f) \in ItemSets
<1>1. ASSUME NEW f \in ItemSets
      PROVE  DOMAIN f \subseteq Entities /\ \A e \in DOMAIN f : f[e] \in Values
  BY DEF ItemSets
<1>2. ASSUME NEW f \in ItemSets, NEW D
      PROVE  Restrict(f, D \cap DOMAIN f) \in ItemSets
  <2>1. Restrict(f, D \cap DOMAIN f) \in [D \cap DOMAIN f -> Values]
    BY <1>1 DEF Restrict
  <2>2. D \cap DOMAIN f \in SUBSET Entities
    BY <1>1
  <2> QED  BY <2>1, <2>2 DEF ItemSets
<1> QED  BY <1>1, <1>2

(* What the Connector serializes is a set of items.                         *)
LEMMA HomeItems ==
  ASSUME home \in [Entities -> Rows], NEW D \in SUBSET Exposed
  PROVE  /\ Restrict(home, D) \in ItemSets
         /\ DOMAIN Restrict(home, D) = D
         /\ \A e \in D : Restrict(home, D)[e] = home[e]
<1>1. Restrict(home, D) \in [D -> Values]
  BY DEF Restrict, Exposed, Rows
<1>2. D \in SUBSET Entities
  BY DEF Exposed
<1> QED  BY <1>1, <1>2 DEF ItemSets, Restrict

(* The ways to cut the items: one or two batches that name each item once,  *)
(* with its value.                                                          *)
LEMMA ChunkFacts ==
  ASSUME NEW items \in ItemSets, NEW chunks \in Chunks(items)
  PROVE  /\ chunks \in Seq(ItemSets)
         /\ Len(chunks) \in {1, 2}
         /\ \A i \in 1..Len(chunks) :
              /\ DOMAIN chunks[i] \subseteq DOMAIN items
              /\ \A e \in DOMAIN chunks[i] : chunks[i][e] = items[e]
         /\ \A e \in DOMAIN items : \E i \in 1..Len(chunks) : e \in DOMAIN chunks[i]
<1>1. CASE chunks = <<items>>
  BY <1>1
<1>2. ASSUME NEW D \in SUBSET DOMAIN items,
             chunks = <<Restrict(items, D), Restrict(items, DOMAIN items \ D)>>
      PROVE  /\ chunks \in Seq(ItemSets)
             /\ Len(chunks) = 2
             /\ \A i \in 1..Len(chunks) :
                  /\ DOMAIN chunks[i] \subseteq DOMAIN items
                  /\ \A e \in DOMAIN chunks[i] : chunks[i][e] = items[e]
             /\ \A e \in DOMAIN items : \E i \in 1..Len(chunks) : e \in DOMAIN chunks[i]
  <2> DEFINE rest == DOMAIN items \ D
             a == Restrict(items, D)
             b == Restrict(items, rest)
  <2>1. a \in ItemSets /\ b \in ItemSets
    <3>1. D = D \cap DOMAIN items /\ rest = rest \cap DOMAIN items
      OBVIOUS
    <3> QED  BY <3>1, ItemSetFacts
  <2>2. DOMAIN a = D /\ DOMAIN b = rest
    BY DEF Restrict
  <2>3. (\A e \in D : a[e] = items[e]) /\ (\A e \in rest : b[e] = items[e])
    BY DEF Restrict
  <2> HIDE DEF a, b
  <2>4. chunks = <<a, b>>
    BY <1>2 DEF a, b
  <2>5. Len(chunks) = 2 /\ chunks[1] = a /\ chunks[2] = b /\ chunks \in Seq(ItemSets)
    BY <2>1, <2>4
  <2>6. \A i \in 1..2 : i = 1 \/ i = 2
    OBVIOUS
  <2>7. 1 \in 1..2 /\ 2 \in 1..2
    OBVIOUS
  <2>8. \A e \in DOMAIN items : e \in DOMAIN chunks[1] \/ e \in DOMAIN chunks[2]
    BY <2>2, <2>5
  <2>9. \A i \in 1..2 : DOMAIN chunks[i] \subseteq DOMAIN items /\ \A e \in DOMAIN chunks[i] : chunks[i][e] = items[e]
    BY <2>2, <2>3, <2>5, <2>6
  <2> QED  BY <2>5, <2>7, <2>8, <2>9
<1> QED  BY <1>1, <1>2 DEF Chunks

(* What a send adds to the websocket of a session whose handler is alive:   *)
(* the one or two batches of its message, numbered from 0.                  *)
Batches(new, kind, rev, items) ==
  /\ new \in Seq(Messages) /\ Len(new) \in {1, 2}
  /\ \A i \in 1..Len(new) :
       /\ new[i].kind = kind /\ new[i].revision = rev
       /\ new[i].index = i - 1 /\ new[i].count = Len(new)
       /\ DOMAIN new[i].items \subseteq DOMAIN items
       /\ \A e \in DOMAIN new[i].items : new[i].items[e] = items[e]
  /\ \A e \in DOMAIN items : \E i \in 1..Len(new) : e \in DOMAIN new[i].items

Sent(s, kind, rev, items) ==
  \E new : /\ Batches(new, kind, rev, items)
           /\ inbox' = [inbox EXCEPT ![s] = inbox[s] \o new]

(* A send appends the batches of its message, or finds the handler ended.   *)
LEMMA SendFacts ==
  ASSUME inbox \in [Sessions -> Seq(Messages)],
         NEW s \in Sessions, NEW kind \in {"full", "state"}, NEW rev \in Nat,
         NEW items \in ItemSets, Send(s, kind, rev, items)
  PROVE  /\ revision' = rev
         /\ inbox' \in [Sessions -> Seq(Messages)]
         /\ phase[s] \in {"ending", "closed"} => inbox' = inbox
         /\ phase[s] \notin {"ending", "closed"} => Sent(s, kind, rev, items)
<1>1. CASE phase[s] \in {"ending", "closed"}
  <2>1. inbox' = [inbox EXCEPT ![s] = inbox[s]]
    BY <1>1 DEF Send
  <2> QED  BY <1>1, <2>1 DEF Send
<1>2. CASE phase[s] \notin {"ending", "closed"}
  <2>1. PICK chunks \in Chunks(items) :
          inbox' = [inbox EXCEPT ![s] = inbox[s] \o
                      [i \in DOMAIN chunks |->
                         [kind |-> kind, revision |-> rev, index |-> i - 1,
                          count |-> Len(chunks), items |-> chunks[i]]]]
    BY <1>2 DEF Send
  <2> DEFINE new == [i \in DOMAIN chunks |->
                       [kind |-> kind, revision |-> rev, index |-> i - 1,
                        count |-> Len(chunks), items |-> chunks[i]]]
  <2>2. /\ chunks \in Seq(ItemSets)
        /\ Len(chunks) \in {1, 2}
        /\ \A i \in 1..Len(chunks) :
             /\ DOMAIN chunks[i] \subseteq DOMAIN items
             /\ \A e \in DOMAIN chunks[i] : chunks[i][e] = items[e]
        /\ \A e \in DOMAIN items : \E i \in 1..Len(chunks) : e \in DOMAIN chunks[i]
    BY ChunkFacts
  <2>3. DOMAIN chunks = 1..Len(chunks)
    BY <2>2
  <2>4. \A i \in 1..Len(chunks) : chunks[i] \in ItemSets
    BY <2>2
  <2>5. \A i \in 1..Len(chunks) : new[i] \in Messages
    <3> TAKE i \in 1..Len(chunks)
    <3>1. chunks[i] \in ItemSets /\ i - 1 \in Nat /\ Len(chunks) \in Nat
      BY <2>2, <2>4
    <3> QED  BY <2>3, <3>1 DEF Messages, ItemSets
  <2>6. new \in Seq(Messages) /\ Len(new) = Len(chunks)
    BY <2>2, <2>3, <2>5
  <2>7. \A i \in 1..Len(new) :
          /\ new[i].kind = kind /\ new[i].revision = rev
          /\ new[i].index = i - 1 /\ new[i].count = Len(new)
          /\ new[i].items = chunks[i]
    BY <2>3, <2>6
  <2> HIDE DEF new
  <2>8. Batches(new, kind, rev, items)
    BY <2>2, <2>6, <2>7 DEF Batches
  <2>9. inbox' = [inbox EXCEPT ![s] = inbox[s] \o new]
    BY <2>1 DEF new
  <2>10. inbox[s] \o new \in Seq(Messages)
    BY <2>6
  <2> QED  BY <1>2, <2>8, <2>9, <2>10 DEF Send, Sent
<1> QED  BY <1>1, <1>2

-----------------------------------------------------------------------------
(* The types, with what a session that is up implies for the tasks          *)

(* The handler of a session receives, or applies what it received.          *)
Live(s) == phase[s] \in {"receiving", "applying"}

(* The Connector waits for one session or is on one; its tasks exist only   *)
(* while it is on one; nothing is sent before the acknowledgement.          *)
LinkInv ==
  /\ dial = NoSession \/ link = NoSession
  /\ link = NoSession => pending = {} /\ flush = "idle" /\ resync = "idle"
  /\ \A s \in Sessions :
       /\ phase[s] \in {"new", "authenticated"} => inbox[s] = <<>> /\ link # s
       /\ phase[s] = "new" => dial # s
       /\ dial = s =>
            /\ phase[s] \notin {"applying", "ending"} /\ inbox[s] = <<>>
            /\ \A k \in DOMAIN batches : k[1] # s


Types == TypeOK /\ LinkInv /\ SyncInv

(* The head of a websocket and the batches gathered with it are messages.   *)
LEMMA GatheredTypes ==
  ASSUME TypeOK, NEW s \in Sessions, Received(s)
  PROVE  /\ inbox[s] \in Seq(Messages) /\ Len(inbox[s]) > 0
         /\ Head(inbox[s]) = inbox[s][1] /\ Head(inbox[s]) \in Messages
         /\ Tail(inbox[s]) \in Seq(Messages)
         /\ Prior(s, Head(inbox[s])) \in Seq(Messages)
         /\ Gathered(s, Head(inbox[s])) \in Seq(Messages)
<1>1. inbox[s] \in Seq(Messages) /\ inbox[s] # <<>>
  BY DEF TypeOK, Received
<1>2. Head(inbox[s]) \in Messages /\ Tail(inbox[s]) \in Seq(Messages) /\ Len(inbox[s]) > 0 /\ Head(inbox[s]) = inbox[s][1]
  BY <1>1
<1> DEFINE m == Head(inbox[s])
<1>3. Prior(s, m) \in Seq(Messages)
  <2>1. batches \in [DOMAIN batches -> Seq(Messages)]
    BY DEF TypeOK
  <2>2. \A k \in DOMAIN batches : batches[k] \in Seq(Messages)
    BY <2>1
  <2>3. <<>> \in Seq(Messages)
    OBVIOUS
  <2> QED  BY <2>2, <2>3 DEF Prior
<1>4. Gathered(s, m) \in Seq(Messages)
  BY <1>2, <1>3 DEF Gathered
<1> QED  BY <1>1, <1>2, <1>3, <1>4

(* What batches say of the entities are rows.                               *)
LEMMA ItemsTypes ==
  ASSUME NEW gathered \in Seq(Messages), NEW other \in Rows
  PROVE  /\ Items(gathered, other) \in [Entities -> Rows]
         /\ Named(gathered) \subseteq Entities
<1>1. \A b \in Range(gathered) : b \in Messages
  BY DEF Range
<1>2. \A b \in Range(gathered) : b.items \in ItemSets
  BY <1>1 DEF Messages, ItemSets
<1>3. \A b \in Range(gathered) : DOMAIN b.items \subseteq Entities /\ \A e \in DOMAIN b.items : b.items[e] \in Values
  BY <1>2, ItemSetFacts
<1>4. ASSUME NEW e \in Entities PROVE Items(gathered, other)[e] \in Rows
  <2>1. CASE \E b \in Range(gathered) : e \in DOMAIN b.items
    <3> DEFINE b == CHOOSE b \in Range(gathered) : e \in DOMAIN b.items
    <3>1. b \in Range(gathered) /\ e \in DOMAIN b.items
      BY <2>1
    <3>2. b.items[e] \in Values
      BY <3>1, <1>3
    <3>3. Items(gathered, other)[e] = b.items[e]
      BY <2>1 DEF Items
    <3> QED  BY <3>2, <3>3 DEF Rows
  <2>2. CASE ~ \E b \in Range(gathered) : e \in DOMAIN b.items
    BY <2>2 DEF Items
  <2> QED  BY <2>1, <2>2
<1>5. Items(gathered, other) = [e \in Entities |-> Items(gathered, other)[e]]
  BY DEF Items
<1> QED  BY <1>3, <1>4, <1>5 DEF Named

(* What a transaction writes has the types of the rows.                     *)
LEMMA WriteTypes ==
  ASSUME NEW gathered \in Seq(Messages)
  PROVE  /\ Difference(Items(gathered, Absent)) \in [Entities -> Rows \cup {Keep}]
         /\ \A D : Updates(gathered, D) \in [Entities -> Rows \cup {Keep}]
<1>1. Absent \in Rows
  BY DEF Rows
<1>2. Items(gathered, Absent) \in [Entities -> Rows]
  BY <1>1, ItemsTypes
<1>3. Difference(Items(gathered, Absent)) \in [Entities -> Rows \cup {Keep}]
  BY <1>2 DEF Difference
<1> QED  BY <1>3 DEF Updates

(* Dropping batches keeps their types.                                      *)
LEMMA RestrictTypes ==
  ASSUME TypeOK, NEW D \in SUBSET DOMAIN batches, batches' = Restrict(batches, D)
  PROVE  /\ batches' \in [DOMAIN batches' -> Seq(Messages)]
         /\ DOMAIN batches' = D /\ DOMAIN batches' \subseteq Sessions \X Nat
         /\ \A k \in D : batches'[k] = batches[k]
<1>1. /\ batches \in [DOMAIN batches -> Seq(Messages)]
      /\ DOMAIN batches \subseteq Sessions \X Nat
  BY DEF TypeOK
<1>2. batches' = [k \in D |-> batches[k]]
  BY DEF Restrict
<1> QED  BY <1>1, <1>2

(* Ending a handler keeps the types.                                        *)
LEMMA EndTypes ==
  ASSUME TypeOK, NEW s \in Sessions, NEW why \in Reasons, End(s, why)
  PROVE  /\ phase' \in [Sessions -> Phases] /\ reason' \in [Sessions -> Reasons]
         /\ current' \in Sessions \cup {NoSession}
         /\ inbox' \in [Sessions -> Seq(Messages)]
         /\ batches' \in [DOMAIN batches' -> Seq(Messages)]
         /\ DOMAIN batches' \subseteq Sessions \X Nat
<1>1. {k \in DOMAIN batches : k[1] # s} \in SUBSET DOMAIN batches
  OBVIOUS
<1>2. /\ batches' \in [DOMAIN batches' -> Seq(Messages)]
      /\ DOMAIN batches' \subseteq Sessions \X Nat
  BY <1>1, RestrictTypes DEF End
<1>3. <<>> \in Seq(Messages)
  OBVIOUS
<1>4. /\ phase \in [Sessions -> Phases] /\ reason \in [Sessions -> Reasons]
      /\ current \in Sessions \cup {NoSession}
      /\ inbox \in [Sessions -> Seq(Messages)]
  BY DEF TypeOK
<1>5. "closed" \in Phases
  BY DEF Phases
<1> QED  BY <1>2, <1>3, <1>4, <1>5 DEF End

(* Taking a message keeps the types.                                        *)
LEMMA AcceptTypes ==
  ASSUME TypeOK, NEW s \in Sessions, NEW kind, Accept(s, kind)
  PROVE  /\ inbox' \in [Sessions -> Seq(Messages)]
         /\ batches' \in [DOMAIN batches' -> Seq(Messages)]
         /\ DOMAIN batches' \subseteq Sessions \X Nat
         /\ job' \in [Sessions -> Nat]
<1> DEFINE m == Head(inbox[s])
<1>1. Received(s)
  BY DEF Accept
<1>2. m \in Messages /\ Tail(inbox[s]) \in Seq(Messages)
  BY <1>1, GatheredTypes
<1>3. m.revision \in Nat
  BY <1>2 DEF Messages
<1>4. Kept(s, m) \ {Key(s, m)} \in SUBSET DOMAIN batches
  BY DEF Kept
<1>5. /\ batches' \in [DOMAIN batches' -> Seq(Messages)]
      /\ DOMAIN batches' \subseteq Sessions \X Nat
  BY <1>4, RestrictTypes DEF Accept
<1>6. inbox \in [Sessions -> Seq(Messages)] /\ job \in [Sessions -> Nat]
  BY DEF TypeOK
<1> QED  BY <1>2, <1>3, <1>5, <1>6 DEF Accept

(* A commit keeps the types.                                                *)
LEMMA PersistTypes ==
  ASSUME TypeOK, NEW s \in Sessions, Persist(s)
  PROVE  /\ cloud' \in [Entities -> Rows]
         /\ write' \in [Sessions -> [Entities -> Rows \cup {Keep}]]
         /\ late' \in [Sessions -> Nat]
         /\ disturbed' \in BOOLEAN
<1>1. /\ cloud \in [Entities -> Rows]
      /\ write \in [Sessions -> [Entities -> Rows \cup {Keep}]]
      /\ late \in [Sessions -> Nat] /\ disturbed \in BOOLEAN
  BY DEF TypeOK
<1>2. Nothing \in [Entities -> Rows \cup {Keep}]
  BY DEF Nothing
<1>3. cloud' \in [Entities -> Rows]
  BY <1>1 DEF Persist
<1>4. write' \in [Sessions -> [Entities -> Rows \cup {Keep}]]
  BY <1>1, <1>2 DEF Persist
<1>5. late' \in [Sessions -> Nat]
  BY <1>1 DEF Persist
<1>6. disturbed' \in BOOLEAN
  BY DEF Persist
<1> QED  BY <1>3, <1>4, <1>5, <1>6

(* The types hold initially.                                                *)
LEMMA InitTypes == Init => Types
<1> SUFFICES ASSUME Init PROVE Types  OBVIOUS
<1>1. TypeOK
  <2>1. <<>> \in Seq(Messages) /\ DOMAIN batches = {}
    BY DEF Init
  <2>2. batches \in [DOMAIN batches -> Seq(Messages)] /\ DOMAIN batches \subseteq Sessions \X Nat
    BY <2>1 DEF Init
  <2>3. /\ home \in [Entities -> Rows] /\ cloud \in [Entities -> Rows]
        /\ write \in [Sessions -> [Entities -> Rows \cup {Keep}]]
    BY DEF Init, Rows, Nothing
  <2>4. /\ changes \in 0..MaxChanges /\ revision \in Nat /\ syncRevision \in Nat
        /\ {dial, link, current} \subseteq Sessions \cup {NoSession}
        /\ pending \in SUBSET Entities
        /\ {flush, resync} \subseteq Tasks
    BY SyncAssumption DEF Init, Tasks
  <2>5. /\ inbox \in [Sessions -> Seq(Messages)]
        /\ phase \in [Sessions -> Phases] /\ reason \in [Sessions -> Reasons]
        /\ copy \in [Sessions -> Nat] /\ job \in [Sessions -> Nat]
        /\ late \in [Sessions -> Nat]
        /\ missed \in BOOLEAN /\ disturbed \in BOOLEAN
    BY <2>1 DEF Init, Phases, Reasons
  <2> QED  BY <2>2, <2>3, <2>4, <2>5 DEF TypeOK
<1>2. LinkInv
  BY SyncAssumption DEF Init, LinkInv
<1> QED  BY <1>1, <1>2, InitSyncInv DEF Types

(* A change at home keeps the types.                                        *)
LEMMA ChangeTypes ==
  ASSUME Types, NEW e \in Entities, NEW v \in Rows,
         StateChanges(e, v) \/ RegistryChanges(e, v)
  PROVE  TypeOK' /\ LinkInv'
<1>1. /\ changes \in 0..MaxChanges /\ home \in [Entities -> Rows]
      /\ pending \in SUBSET Entities /\ flush \in Tasks /\ resync \in Tasks
      /\ missed \in BOOLEAN
  BY DEF Types, TypeOK
<1>2. changes' \in 0..MaxChanges /\ home' \in [Entities -> Rows]
  BY <1>1, SyncAssumption DEF StateChanges, RegistryChanges, Change
<1>3. pending' \in SUBSET Entities /\ flush' \in Tasks /\ resync' \in Tasks /\ missed' \in BOOLEAN
  <2>1. CASE StateChanges(e, v)
    BY <2>1, <1>1 DEF StateChanges, StateEvent, Tasks
  <2>2. CASE RegistryChanges(e, v)
    BY <2>2, <1>1 DEF RegistryChanges, RegistryEvent, Tasks
  <2> QED  BY <2>1, <2>2
<1>4. UNCHANGED <<dial, link, revision, inbox, handlerVars, dbVars, late, disturbed>>
  BY DEF StateChanges, RegistryChanges, Change
<1>5. TypeOK'
  BY <1>2, <1>3, <1>4 DEF Types, TypeOK, handlerVars, dbVars
<1>6. link = NoSession => UNCHANGED <<pending, flush, resync>>
  BY DEF StateChanges, RegistryChanges, StateEvent, RegistryEvent
<1>7. LinkInv'
  BY <1>4, <1>6 DEF Types, LinkInv, handlerVars
<1> QED  BY <1>5, <1>7

(* A task that is due has a session to send to.                             *)
LEMMA TaskHasLink ==
  ASSUME Types, flush # "idle" \/ resync # "idle"
  PROVE  link \in Sessions /\ dial = NoSession /\ link # NoSession
         /\ phase[link] \notin {"new", "authenticated"}
BY DEF Types, LinkInv, TypeOK

(* A flush, a resynchronization and their ends keep the types.              *)
LEMMA TaskTypes ==
  ASSUME Types, FlushStates \/ FlushDone \/ Resync \/ ResyncDone
  PROVE  TypeOK' /\ LinkInv'
<1> USE DEF handlerVars, dbVars, history
<1>1. link \in Sessions /\ dial = NoSession /\ link # NoSession /\ phase[link] \notin {"new", "authenticated"}
  <2>1. flush # "idle" \/ resync # "idle"
    BY DEF FlushStates, FlushDone, Resync, ResyncDone
  <2> QED  BY <2>1, TaskHasLink
<1>2. /\ inbox \in [Sessions -> Seq(Messages)] /\ revision \in Nat
      /\ home \in [Entities -> Rows] /\ pending \in SUBSET Entities
      /\ flush \in Tasks /\ resync \in Tasks /\ missed \in BOOLEAN
  BY DEF Types, TypeOK
<1>3. UNCHANGED <<home, changes, dial, link, handlerVars, dbVars, late, disturbed>>
  BY DEF FlushStates, FlushDone, Resync, ResyncDone
<1>4. /\ inbox' \in [Sessions -> Seq(Messages)] /\ revision' \in Nat
      /\ \A s \in Sessions : s # link => inbox'[s] = inbox[s]
  <2>1. ASSUME NEW kind \in {"full", "state"}, NEW items \in ItemSets,
               Send(link, kind, revision + 1, items)
        PROVE  /\ inbox' \in [Sessions -> Seq(Messages)] /\ revision' \in Nat
               /\ \A s \in Sessions : s # link => inbox'[s] = inbox[s]
    <3>1. PICK next \in Nat : next = revision + 1
      BY <1>2
    <3>2. Send(link, kind, next, items)
      BY <2>1, <3>1
    <3>3. /\ revision' = next /\ inbox' \in [Sessions -> Seq(Messages)]
          /\ inbox' = inbox \/ Sent(link, kind, next, items)
      BY <1>1, <1>2, <3>2, SendFacts
    <3>4. \A s \in Sessions : s # link => inbox'[s] = inbox[s]
      BY <1>2, <3>3 DEF Sent
    <3> QED  BY <3>3, <3>4
  <2>2. CASE FlushStates
    <3>1. CASE pending \cap Exposed = {}
      BY <2>2, <3>1, <1>2 DEF FlushStates
    <3>2. CASE pending \cap Exposed # {}
      <4>1. Restrict(home, pending \cap Exposed) \in ItemSets
        BY <1>2, HomeItems
      <4>2. Send(link, "state", revision + 1, Restrict(home, pending \cap Exposed))
        BY <2>2, <3>2 DEF FlushStates
      <4> QED  BY <4>1, <4>2, <2>1
    <3> QED  BY <3>1, <3>2
  <2>3. CASE Resync
    <3>1. Restrict(home, Exposed) \in ItemSets
      BY <1>2, HomeItems
    <3>2. Send(link, "full", revision + 1, Restrict(home, Exposed))
      BY <2>3 DEF Resync, SendFull
    <3> QED  BY <3>1, <3>2, <2>1
  <2>4. CASE FlushDone \/ ResyncDone
    BY <2>4, <1>2 DEF FlushDone, ResyncDone
  <2> QED  BY <2>2, <2>3, <2>4
<1>5. pending' \in SUBSET Entities /\ flush' \in Tasks /\ resync' \in Tasks /\ missed' \in BOOLEAN
  BY <1>2 DEF FlushStates, FlushDone, Resync, ResyncDone, SendFull, Tasks
<1>6. TypeOK'
  BY <1>3, <1>4, <1>5 DEF Types, TypeOK
<1>7. LinkInv'
  BY <1>1, <1>3, <1>4, SyncAssumption DEF Types, LinkInv
<1> QED  BY <1>6, <1>7

(* The start of an inventory keeps the types.                               *)
LEMMA StartTypes ==
  ASSUME Types, NEW s \in Sessions, Start(s)
  PROVE  TypeOK' /\ LinkInv'
<1> USE DEF handlerVars, dbVars
<1>1. /\ inbox \in [Sessions -> Seq(Messages)] /\ copy[s] + 1 \in Nat
      /\ home \in [Entities -> Rows]
  <2>1. /\ inbox \in [Sessions -> Seq(Messages)] /\ copy \in [Sessions -> Nat]
        /\ home \in [Entities -> Rows]
    BY DEF Types, TypeOK
  <2> QED  BY <2>1
<1>2. Restrict(home, Exposed) \in ItemSets
  BY <1>1, HomeItems
<1>3. Send(s, "full", copy[s] + 1, Restrict(home, Exposed)) /\ missed' = FALSE
  BY DEF Start, SendFull
<1>4. /\ inbox' \in [Sessions -> Seq(Messages)] /\ revision' \in Nat
      /\ \A t \in Sessions : t # s => inbox'[t] = inbox[t]
  <2>1. PICK next \in Nat : next = copy[s] + 1
    BY <1>1
  <2>2. Send(s, "full", next, Restrict(home, Exposed))
    BY <1>3, <2>1
  <2>3. /\ revision' = next /\ inbox' \in [Sessions -> Seq(Messages)]
        /\ inbox' = inbox \/ Sent(s, "full", next, Restrict(home, Exposed))
    BY <1>1, <1>2, <2>2, SendFacts
  <2>4. \A t \in Sessions : t # s => inbox'[t] = inbox[t]
    BY <1>1, <2>3 DEF Sent
  <2> QED  BY <2>3, <2>4
<1>5. /\ UNCHANGED <<home, changes, pending, flush, resync, handlerVars, dbVars, late, disturbed>>
      /\ dial = s /\ dial' = NoSession /\ link' = s /\ phase[s] = "receiving"
  BY DEF Start
<1>6. TypeOK'
  BY <1>3, <1>4, <1>5 DEF Types, TypeOK
<1>7. LinkInv'
  BY <1>4, <1>5, SyncAssumption DEF Types, LinkInv
<1> QED  BY <1>6, <1>7

(* Giving up, losing and opening a connection keep the types.               *)
LEMMA ConnectionTypes ==
  ASSUME Types, \/ GiveUp \/ Disconnect
                \/ \E s \in Sessions : Connect(s) \/ Register(s)
  PROVE  TypeOK' /\ LinkInv'
<1> USE DEF handlerVars, dbVars, history, connVars
<1>1. CASE GiveUp
  <2>1. TypeOK'
    BY <1>1 DEF GiveUp, Types, TypeOK
  <2>2. LinkInv'
    BY <1>1, SyncAssumption DEF GiveUp, Types, LinkInv
  <2> QED  BY <2>1, <2>2
<1>2. CASE Disconnect
  <2>1. link \in Sessions /\ inbox \in [Sessions -> Seq(Messages)] /\ inbox[link] \in Seq(Messages)
    BY <1>2 DEF Disconnect, Types, TypeOK
  <2>2. PICK n \in 0..Len(inbox[link]) : inbox' = [inbox EXCEPT ![link] = SubSeq(@, 1, n)]
    BY <1>2 DEF Disconnect
  <2>3. SubSeq(inbox[link], 1, n) \in Seq(Messages)
    BY <2>1
  <2>4. inbox' \in [Sessions -> Seq(Messages)] /\ \A s \in Sessions : s # link => inbox'[s] = inbox[s]
    BY <2>1, <2>2, <2>3
  <2>5. /\ UNCHANGED <<home, changes, dial, revision, handlerVars, dbVars, history>>
        /\ link # NoSession /\ link' = NoSession /\ pending' = {} /\ flush' = "idle" /\ resync' = "idle"
    BY <1>2 DEF Disconnect
  <2>6. TypeOK'
    BY <2>4, <2>5 DEF Types, TypeOK, Tasks
  <2>7. LinkInv'
    BY <2>4, <2>5, SyncAssumption DEF Types, LinkInv
  <2> QED  BY <2>6, <2>7
<1>3. ASSUME NEW s \in Sessions, Connect(s) PROVE TypeOK' /\ LinkInv'
  <2>1. TypeOK'
    BY <1>3 DEF Connect, Types, TypeOK, Phases
  <2>2. \A k \in DOMAIN batches : k[1] # s
    BY <1>3 DEF Connect, Types, SyncInv, BatchInv
  <2>3. phase \in [Sessions -> Phases]
    BY DEF Types, TypeOK
  <2>4. LinkInv'
    BY <1>3, <2>2, <2>3, SyncAssumption DEF Connect, Types, LinkInv
  <2> QED  BY <2>1, <2>4
<1>4. ASSUME NEW s \in Sessions, Register(s) PROVE TypeOK' /\ LinkInv'
  <2>1. TypeOK'
    BY <1>4 DEF Register, Types, TypeOK, Phases
  <2>3. phase \in [Sessions -> Phases]
    BY DEF Types, TypeOK
  <2>4. LinkInv'
    BY <1>4, <2>3, SyncAssumption DEF Register, Types, LinkInv
  <2> QED  BY <2>1, <2>4
<1> QED  BY <1>1, <1>2, <1>3, <1>4

(* The endings of a handler keep the types.                                 *)
LEMMA EndingTypes ==
  ASSUME Types, NEW s \in Sessions, Fail(s) \/ Refuse(s) \/ Cleanup(s)
  PROVE  TypeOK' /\ LinkInv'
<1> USE DEF handlerVars, dbVars, history, connVars
<1>1. PICK why \in Reasons : End(s, why)
  <2>1. CASE Fail(s)
    BY <2>1 DEF Fail, Reasons
  <2>2. CASE Refuse(s)
    BY <2>2 DEF Refuse, Refusal, Reasons
  <2>3. CASE Cleanup(s)
    BY <2>3 DEF Cleanup, Types, TypeOK
  <2> QED  BY <2>1, <2>2, <2>3
<1>2. /\ phase' \in [Sessions -> Phases] /\ reason' \in [Sessions -> Reasons]
      /\ current' \in Sessions \cup {NoSession}
      /\ inbox' \in [Sessions -> Seq(Messages)]
      /\ batches' \in [DOMAIN batches' -> Seq(Messages)]
      /\ DOMAIN batches' \subseteq Sessions \X Nat
  BY <1>1, EndTypes DEF Types
<1>3. UNCHANGED <<home, changes, connVars, copy, job, syncRevision, missed>>
  BY DEF Fail, Refuse, Cleanup
<1>4. /\ cloud' \in [Entities -> Rows]
      /\ write' \in [Sessions -> [Entities -> Rows \cup {Keep}]]
      /\ late' \in [Sessions -> Nat]
      /\ disturbed' \in BOOLEAN
  <2>1. /\ cloud \in [Entities -> Rows]
        /\ write \in [Sessions -> [Entities -> Rows \cup {Keep}]]
        /\ late \in [Sessions -> Nat] /\ disturbed \in BOOLEAN
    BY DEF Types, TypeOK
  <2>2. CASE Fail(s)
    BY <2>1, <2>2 DEF Fail, Nothing
  <2>3. CASE Refuse(s)
    BY <2>1, <2>3 DEF Refuse
  <2>4. CASE Cleanup(s)
    BY <2>4, PersistTypes DEF Cleanup, Types
  <2> QED  BY <2>2, <2>3, <2>4
<1>5. TypeOK'
  BY <1>2, <1>3, <1>4 DEF Types, TypeOK
<1>6. LinkInv'
  <2>1. /\ phase' = [phase EXCEPT ![s] = "closed"]
        /\ inbox' = [inbox EXCEPT ![s] = <<>>]
        /\ DOMAIN batches' \subseteq DOMAIN batches
    BY <1>1 DEF End, Restrict
  <2>2. phase \in [Sessions -> Phases] /\ inbox \in [Sessions -> Seq(Messages)]
    BY DEF Types, TypeOK
  <2> QED  BY <1>3, <2>1, <2>2 DEF Types, LinkInv
<1> QED  BY <1>5, <1>6

(* Receiving, taking and committing a message keep the types.               *)
LEMMA HandlerTypes ==
  ASSUME Types, NEW s \in Sessions,
         ReceiveBatch(s) \/ BeginFull(s) \/ BeginState(s) \/ RejectState(s) \/ Commit(s)
  PROVE  TypeOK' /\ LinkInv'
<1> USE DEF handlerVars, dbVars, history, connVars
<1> DEFINE m == Head(inbox[s])
           g == Gathered(s, m)
<1>0. /\ phase \in [Sessions -> Phases] /\ inbox \in [Sessions -> Seq(Messages)]
      /\ reason \in [Sessions -> Reasons]
      /\ write \in [Sessions -> [Entities -> Rows \cup {Keep}]]
  BY DEF Types, TypeOK
<1>1. CASE ReceiveBatch(s)
  <2>1. Received(s)
    BY <1>1 DEF ReceiveBatch
  <2>2. m \in Messages /\ Tail(inbox[s]) \in Seq(Messages) /\ g \in Seq(Messages)
    BY <2>1, GatheredTypes DEF Types
  <2>3. m.revision \in Nat
    BY <2>2 DEF Messages
  <2>4. /\ batches \in [DOMAIN batches -> Seq(Messages)]
        /\ DOMAIN batches \subseteq Sessions \X Nat
    BY DEF Types, TypeOK
  <2>5. batches' = [k \in Kept(s, m) \cup {Key(s, m)} |-> IF k = Key(s, m) THEN g ELSE batches[k]]
    BY <1>1 DEF ReceiveBatch
  <2>6. Kept(s, m) \subseteq DOMAIN batches /\ Key(s, m) \in Sessions \X Nat /\ Key(s, m)[1] = s
    BY <2>3 DEF Kept, Key
  <2> HIDE DEF g
  <2>7. /\ batches' \in [DOMAIN batches' -> Seq(Messages)]
        /\ DOMAIN batches' \subseteq Sessions \X Nat
    BY <2>2, <2>4, <2>5, <2>6
  <2>8. inbox' = [inbox EXCEPT ![s] = Tail(@)]
        /\ UNCHANGED <<home, changes, connVars, current, phase, reason, copy, job, write, dbVars, history>>
    BY <1>1 DEF ReceiveBatch
  <2>9. TypeOK'
    BY <2>2, <2>7, <2>8, <1>0 DEF Types, TypeOK
  <2>10. \A k \in DOMAIN batches' : k[1] = s \/ k \in DOMAIN batches
    BY <2>5, <2>6
  <2>11. phase[s] = "receiving" /\ inbox[s] # <<>>
    BY <2>1 DEF Received
  <2>12. LinkInv'
    BY <2>8, <2>10, <2>11, <1>0 DEF Types, LinkInv
  <2> QED  BY <2>9, <2>12
<1>2. ASSUME NEW kind, Accept(s, kind),
             NEW next \in {"applying", "ending"}, phase' = [phase EXCEPT ![s] = next],
             NEW w \in [Entities -> Rows \cup {Keep}], write' = [write EXCEPT ![s] = w],
             reason' = reason \/ reason' = [reason EXCEPT ![s] = "unknown"],
             disturbed' \in BOOLEAN,
             UNCHANGED <<home, changes, connVars, current, copy, dbVars, missed, late>>
      PROVE  TypeOK' /\ LinkInv'
  <2>1. /\ inbox' \in [Sessions -> Seq(Messages)]
        /\ batches' \in [DOMAIN batches' -> Seq(Messages)]
        /\ DOMAIN batches' \subseteq Sessions \X Nat
        /\ job' \in [Sessions -> Nat]
    BY <1>2, AcceptTypes DEF Types
  <2>2. /\ phase' \in [Sessions -> Phases] /\ reason' \in [Sessions -> Reasons]
        /\ write' \in [Sessions -> [Entities -> Rows \cup {Keep}]]
    BY <1>0, <1>2 DEF Phases, Reasons
  <2>3. TypeOK'
    BY <1>2, <2>1, <2>2 DEF Types, TypeOK
  <2>4. /\ inbox' = [inbox EXCEPT ![s] = Tail(@)]
        /\ DOMAIN batches' \subseteq DOMAIN batches
        /\ phase[s] = "receiving" /\ inbox[s] # <<>>
    BY <1>2 DEF Accept, Restrict, Kept, Received
  <2>5. LinkInv'
    BY <1>0, <1>2, <2>4 DEF Types, LinkInv
  <2> QED  BY <2>3, <2>5
<1>3. Accept(s, "full") \/ Accept(s, "state") => g \in Seq(Messages)
  BY GatheredTypes DEF Types, Accept
<1>4. CASE BeginFull(s)
  <2>1. Difference(Items(g, Absent)) \in [Entities -> Rows \cup {Keep}]
    BY <1>3, <1>4, WriteTypes DEF BeginFull
  <2> HIDE DEF g
  <2>2. write' = [write EXCEPT ![s] = Difference(Items(g, Absent))]
    BY <1>4 DEF BeginFull, g
  <2> QED  BY <2>1, <2>2, <1>4, <1>2 DEF BeginFull
<1>5. CASE BeginState(s)
  <2>1. Updates(g, Named(g)) \in [Entities -> Rows \cup {Keep}]
    BY <1>3, <1>5, WriteTypes DEF BeginState
  <2> HIDE DEF g
  <2>2. write' = [write EXCEPT ![s] = Updates(g, Named(g))]
    BY <1>5 DEF BeginState, g
  <2>3. disturbed' \in BOOLEAN
    BY <1>5 DEF BeginState, Types, TypeOK
  <2> QED  BY <2>1, <2>2, <2>3, <1>5, <1>2 DEF BeginState
<1>6. CASE RejectState(s)
  <2>1. PICK D \in SUBSET (Named(g) \ Unknown(g)) : write' = [write EXCEPT ![s] = Updates(g, D)]
    BY <1>6 DEF RejectState
  <2>2. Updates(g, D) \in [Entities -> Rows \cup {Keep}]
    BY <1>3, <1>6, WriteTypes DEF RejectState
  <2> HIDE DEF g
  <2>3. disturbed' \in BOOLEAN
    BY <1>6 DEF RejectState, Types, TypeOK
  <2> QED  BY <2>1, <2>2, <2>3, <1>6, <1>2 DEF RejectState
<1>7. CASE Commit(s)
  <2>1. /\ cloud' \in [Entities -> Rows]
        /\ write' \in [Sessions -> [Entities -> Rows \cup {Keep}]]
        /\ late' \in [Sessions -> Nat]
        /\ disturbed' \in BOOLEAN
    BY <1>7, PersistTypes DEF Commit, Types
  <2>2. job \in [Sessions -> Nat] /\ copy \in [Sessions -> Nat]
    BY DEF Types, TypeOK
  <2>3. /\ phase' = [phase EXCEPT ![s] = "receiving"] /\ phase[s] = "applying"
        /\ copy' = [copy EXCEPT ![s] = job[s]] /\ syncRevision' = job[s]
        /\ UNCHANGED <<home, changes, connVars, inbox, current, reason, batches, job, missed>>
    BY <1>7 DEF Commit
  <2>4. phase' \in [Sessions -> Phases] /\ copy' \in [Sessions -> Nat] /\ syncRevision' \in Nat
    BY <1>0, <2>2, <2>3 DEF Phases
  <2>5. TypeOK'
    BY <2>1, <2>3, <2>4 DEF Types, TypeOK
  <2>6. LinkInv'
    BY <1>0, <2>3 DEF Types, LinkInv
  <2> QED  BY <2>5, <2>6
<1> QED  BY <1>1, <1>4, <1>5, <1>6, <1>7

(* Every step keeps the types.                                              *)
LEMMA NextTypes == Types /\ [Next]_vars => Types'
<1> SUFFICES ASSUME Types, [Next]_vars PROVE Types'  OBVIOUS
<1>1. SyncInv'
  BY NextSyncInv DEF Types
<1>2. TypeOK' /\ LinkInv'
  <2>1. CASE UNCHANGED vars
    <3> USE DEF vars, connVars, handlerVars, dbVars, history
    <3>1. TypeOK'
      BY <2>1 DEF Types, TypeOK
    <3>2. LinkInv'
      BY <2>1 DEF Types, LinkInv
    <3> QED  BY <3>1, <3>2
  <2>2. CASE Next
    BY <2>2, ChangeTypes, TaskTypes, StartTypes, ConnectionTypes, EndingTypes, HandlerTypes DEF Next
  <2> QED  BY <2>1, <2>2
<1> QED  BY <1>1, <1>2 DEF Types

(* TypeOK: the state stays within its types.                                *)
THEOREM EntitySyncTypes == Spec => []TypeOK
<1>1. Init => Types  BY InitTypes
<1>2. Types /\ [Next]_vars => Types'  BY NextTypes
<1>3. Types => TypeOK  BY DEF Types
<1> QED  BY <1>1, <1>2, <1>3, PTL DEF Spec

-----------------------------------------------------------------------------
(* The order of what is in flight                                           *)

(* The revision the handler of a session has applied or is about to.        *)
Base(s) == IF phase[s] = "applying" THEN job[s] ELSE copy[s]

SameMessage(a, b) == a.revision = b.revision /\ a.count = b.count /\ a.kind = b.kind

(* Of two batches on a websocket the later belongs to the same message, or  *)
(* to one of a higher revision.                                             *)
Later(q, i, j) ==
  \/ SameMessage(q[i], q[j]) /\ q[j].index = q[i].index + (j - i)
  \/ q[i].revision < q[j].revision

(* The next batch is the next of the message, or the first of the next one. *)
Follows(a, b) ==
  IF a.index + 1 = a.count THEN b.revision = a.revision + 1 /\ b.index = 0
  ELSE SameMessage(a, b) /\ b.index = a.index + 1

QueueInv(q) ==
  /\ \A i \in 1..Len(q) : q[i].index < q[i].count
  /\ \A i \in 1..Len(q) - 1 : Follows(q[i], q[i + 1])
  /\ \A i, j \in 1..Len(q) : i < j => Later(q, i, j)

(* The websocket goes on where the handler is ...                           *)
HeadInv(s) ==
  inbox[s] # <<>> =>
    /\ inbox[s][1].revision = Base(s) + 1
    /\ Key(s, inbox[s][1]) \notin DOMAIN batches => inbox[s][1].index = 0

(* ... or where the batches it has gathered end.                            *)
PartInv(k) ==
  LET p == batches[k]
      q == inbox[k[1]] IN
  /\ k[2] = copy[k[1]] + 1
  /\ Len(p) > 0 /\ Len(p) < p[1].count
  /\ \A i \in 1..Len(p) :
       SameMessage(p[1], p[i]) /\ p[i].revision = k[2] /\ p[i].index = i - 1
  /\ q # <<>> => SameMessage(p[1], q[1]) /\ q[1].index = Len(p)

(* The Connector goes on where the websocket ends.                          *)
TailInv(s) ==
  LET q == inbox[s] IN
  IF q = <<>> THEN Base(s) = revision /\ \A k \in DOMAIN batches : k[1] # s
  ELSE q[Len(q)].revision = revision /\ q[Len(q)].index + 1 = q[Len(q)].count

StreamInv ==
  /\ \A s \in Sessions : Live(s) => QueueInv(inbox[s]) /\ HeadInv(s)
  /\ \A s \in Sessions : Live(s) /\ link = s => TailInv(s)
  /\ \A k \in DOMAIN batches : PartInv(k)
  /\ NeverOutOfSequence

(* The fields of a message are numbers where they are used as such.         *)
LEMMA MessageFields ==
  \A m \in Messages : /\ m.revision \in Nat /\ m.index \in Nat /\ m.count \in Nat
                      /\ m.kind \in {"full", "state"} /\ m.items \in ItemSets
BY DEF Messages, ItemSets

(* What is left of a websocket after its first batch is in order.           *)
LEMMA TailQueue ==
  ASSUME NEW q \in Seq(Messages), q # <<>>, QueueInv(q)
  PROVE  /\ Tail(q) \in Seq(Messages) /\ Len(Tail(q)) = Len(q) - 1
         /\ \A i \in 1..Len(Tail(q)) : i + 1 \in 1..Len(q) /\ Tail(q)[i] = q[i + 1]
         /\ QueueInv(Tail(q))
<1> DEFINE t == Tail(q)
<1>1. t \in Seq(Messages) /\ Len(t) = Len(q) - 1 /\ \A i \in 1..Len(t) : t[i] = q[i + 1]
  OBVIOUS
<1> HIDE DEF t
<1>2. \A i \in 1..Len(t) : i + 1 \in 1..Len(q)
  BY <1>1
<1>3. \A i \in 1..Len(t) : t[i].index < t[i].count
  BY <1>1, <1>2 DEF QueueInv
<1>4. \A i \in 1..Len(t) - 1 : Follows(t[i], t[i + 1])
  <2> TAKE i \in 1..Len(t) - 1
  <2>1. i + 1 \in 1..Len(q) - 1 /\ i \in 1..Len(t) /\ i + 1 \in 1..Len(t)
    BY <1>1
  <2>2. Follows(q[i + 1], q[(i + 1) + 1])
    BY <2>1 DEF QueueInv
  <2> QED  BY <1>1, <2>1, <2>2
<1>5. \A i, j \in 1..Len(t) : i < j => Later(t, i, j)
  <2> TAKE i, j \in 1..Len(t)
  <2> HAVE i < j
  <2>1. i + 1 \in 1..Len(q) /\ j + 1 \in 1..Len(q) /\ i + 1 < j + 1
    BY <1>2
  <2>2. Later(q, i + 1, j + 1)
    BY <2>1 DEF QueueInv
  <2>3. t[i] = q[i + 1] /\ t[j] = q[j + 1]
    BY <1>1
  <2>4. (j + 1) - (i + 1) = j - i
    OBVIOUS
  <2> QED  BY <2>2, <2>3, <2>4 DEF Later
<1> QED  BY <1>1, <1>2, <1>3, <1>4, <1>5 DEF QueueInv, t

(* So is what a lost connection still delivers.                             *)
LEMMA PrefixQueue ==
  ASSUME NEW q \in Seq(Messages), NEW n \in 0..Len(q), QueueInv(q)
  PROVE  /\ SubSeq(q, 1, n) \in Seq(Messages) /\ Len(SubSeq(q, 1, n)) = n
         /\ \A i \in 1..n : SubSeq(q, 1, n)[i] = q[i]
         /\ QueueInv(SubSeq(q, 1, n))
<1> DEFINE t == SubSeq(q, 1, n)
<1>1. t \in Seq(Messages) /\ Len(t) = n /\ \A i \in 1..n : t[i] = q[i]
  OBVIOUS
<1> HIDE DEF t
<1>2. \A i \in 1..n : i \in 1..Len(q)
  OBVIOUS
<1>3. \A i \in 1..n - 1 : Follows(t[i], t[i + 1])
  <2> TAKE i \in 1..n - 1
  <2>1. i \in 1..Len(q) - 1 /\ i \in 1..n /\ i + 1 \in 1..n
    OBVIOUS
  <2> QED  BY <1>1, <2>1 DEF QueueInv
<1>4. \A i, j \in 1..n : i < j => Later(t, i, j)
  BY <1>1, <1>2 DEF QueueInv, Later
<1> QED  BY <1>1, <1>2, <1>3, <1>4 DEF QueueInv, t

(* No batch has a higher revision than the last.                            *)
LEMMA LastHighest ==
  ASSUME NEW q \in Seq(Messages), q # <<>>, QueueInv(q)
  PROVE  /\ Len(q) \in 1..Len(q)
         /\ \A i \in 1..Len(q) : q[i].revision <= q[Len(q)].revision
<1>1. Len(q) \in 1..Len(q)
  OBVIOUS
<1>2. ASSUME NEW i \in 1..Len(q) PROVE q[i].revision <= q[Len(q)].revision
  <2>1. q[i].revision \in Nat /\ q[Len(q)].revision \in Nat
    BY <1>1, MessageFields
  <2>2. i = Len(q) \/ i < Len(q)
    OBVIOUS
  <2>3. i < Len(q) => Later(q, i, Len(q))
    BY <1>1 DEF QueueInv
  <2> QED  BY <2>1, <2>2, <2>3 DEF Later, SameMessage
<1> QED  BY <1>1, <1>2

Continues(q, new, next, r) ==
  /\ r \in Seq(Messages) /\ Len(r) = Len(q) + Len(new)
  /\ \A i \in 1..Len(q) : r[i] = q[i]
  /\ \A i \in 1..Len(new) : r[Len(q) + i] = new[i]
  /\ QueueInv(r)
  /\ r[Len(r)].revision = next /\ r[Len(r)].index + 1 = r[Len(r)].count

(* The batches of the next message keep a websocket in order.               *)
LEMMA SendQueue ==
  ASSUME NEW q \in Seq(Messages), QueueInv(q), NEW rev \in Nat, NEW kind, NEW items, NEW new,
         NEW next, next = rev + 1, Batches(new, kind, next, items),
         q # <<>> => q[Len(q)].revision = rev /\ q[Len(q)].index + 1 = q[Len(q)].count
  PROVE  Continues(q, new, next, q \o new)
<1> DEFINE r == q \o new
           l == Len(q)
           n == Len(new)
<1>1. new \in Seq(Messages) /\ n \in {1, 2} /\ l \in Nat
  BY DEF Batches
<1>2. /\ r \in Seq(Messages) /\ Len(r) = l + n
      /\ \A i \in 1..l : r[i] = q[i]
      /\ \A i \in 1..n : r[l + i] = new[i]
  BY <1>1
<1>3. \A i \in 1..n : /\ r[l + i].revision = rev + 1 /\ r[l + i].index = i - 1
                      /\ r[l + i].count = n /\ r[l + i].kind = kind
  BY <1>2 DEF Batches
<1>4. \A i \in 1..l : r[i].revision <= rev /\ r[i].revision \in Nat
  BY <1>2, LastHighest, MessageFields
<1> HIDE DEF r, l, n
<1>5. \A i \in 1..Len(r) : i \in 1..l \/ \E j \in 1..n : i = l + j
  <2> TAKE i \in 1..Len(r)
  <2>1. i \notin 1..l => i - l \in 1..n /\ i = l + (i - l)
    BY <1>1, <1>2
  <2> QED  BY <2>1
<1>6. \A i \in 1..Len(r) : r[i].index < r[i].count
  <2>1. ASSUME NEW i \in 1..l PROVE r[i].index < r[i].count
    BY <1>2 DEF QueueInv, l
  <2>2. ASSUME NEW j \in 1..n PROVE r[l + j].index < r[l + j].count
    BY <1>1, <1>3
  <2> QED  BY <1>5, <2>1, <2>2
<1>7. \A i \in 1..Len(r) - 1 : Follows(r[i], r[i + 1])
  <2> TAKE i \in 1..Len(r) - 1
  <2>1. i < l \/ i = l \/ (i = l + 1 /\ n = 2)
    BY <1>1, <1>2
  <2>2. CASE i < l
    <3>1. i \in 1..l - 1 /\ i \in 1..l /\ i + 1 \in 1..l
      BY <1>1, <2>2
    <3>2. Follows(q[i], q[i + 1])
      BY <3>1 DEF QueueInv, l
    <3> QED  BY <1>2, <3>1, <3>2
  <2>3. CASE i = l
    <3>1. i \in 1..l /\ 1 \in 1..n /\ q # <<>>
      BY <1>1, <2>3 DEF l
    <3>2. r[i] = q[l] /\ q[l].revision = rev /\ q[l].index + 1 = q[l].count
      BY <1>2, <2>3, <3>1 DEF l
    <3>3. r[i + 1].revision = rev + 1 /\ r[i + 1].index = 0
      BY <1>3, <2>3, <3>1
    <3> QED  BY <3>2, <3>3 DEF Follows
  <2>4. CASE i = l + 1 /\ n = 2
    <3>1. 1 \in 1..n /\ 2 \in 1..n /\ i + 1 = l + 2
      BY <1>1, <2>4
    <3>2. r[i].index = 0 /\ r[i].count = 2 /\ r[i].revision = rev + 1 /\ r[i].kind = kind
      BY <1>3, <2>4, <3>1
    <3>3. r[i + 1].index = 1 /\ r[i + 1].count = 2 /\ r[i + 1].revision = rev + 1 /\ r[i + 1].kind = kind
      BY <1>3, <2>4, <3>1
    <3> QED  BY <3>2, <3>3 DEF Follows, SameMessage
  <2> QED  BY <2>1, <2>2, <2>3, <2>4
<1>8. \A i, j \in 1..Len(r) : i < j => Later(r, i, j)
  <2>1. ASSUME NEW i \in 1..l, NEW j \in 1..l, i < j PROVE Later(r, i, j)
    <3>1. Later(q, i, j)
      BY <2>1 DEF QueueInv, l
    <3> QED  BY <1>2, <3>1 DEF Later
  <2>2. ASSUME NEW i \in 1..l, NEW j \in 1..n PROVE Later(r, i, l + j)
    BY <1>3, <1>4 DEF Later
  <2>3. ASSUME NEW i \in 1..n, NEW j \in 1..n, l + i < l + j PROVE Later(r, l + i, l + j)
    <3>1. (j - 1) = (i - 1) + ((l + j) - (l + i))
      BY <1>1
    <3> QED  BY <1>3, <3>1 DEF Later, SameMessage
  <2>4. ASSUME NEW i \in 1..l, NEW j \in 1..n, l + j < i PROVE FALSE
    BY <1>1, <2>4
  <2> QED  BY <1>5, <2>1, <2>2, <2>3, <2>4
<1>9. r[Len(r)].revision = rev + 1 /\ r[Len(r)].index + 1 = r[Len(r)].count
  <2>1. n \in 1..n
    BY <1>1
  <2> QED  BY <1>1, <1>2, <1>3, <2>1
<1> QED  BY <1>2, <1>6, <1>7, <1>8, <1>9 DEF QueueInv, Continues, r, l, n

(* What a handler finds next on its websocket: the batch it waits for, of   *)
(* the revision after the one it holds.                                     *)
LEMMA HeadFacts ==
  ASSUME Types, StreamInv, NEW s \in Sessions, Received(s)
  PROVE  LET m == Head(inbox[s])
             g == Gathered(s, m) IN
         /\ m = inbox[s][1] /\ m.revision = copy[s] + 1 /\ m.index < m.count
         /\ m.index = Len(Prior(s, m)) /\ g = Append(Prior(s, m), m)
         /\ Len(g) = m.index + 1
         /\ \A i \in 1..Len(g) : SameMessage(m, g[i]) /\ g[i].index = i - 1
         /\ \A k \in DOMAIN batches : k[1] = s => k = Key(s, m)
         /\ ValidBatch(s, m) /\ ~Stale(s, m)
<1> DEFINE q == inbox[s]
           m == Head(q)
           p == Prior(s, m)
           g == Gathered(s, m)
<1>1. q \in Seq(Messages) /\ Len(q) > 0 /\ m = q[1] /\ m \in Messages /\ p \in Seq(Messages)
  BY GatheredTypes DEF Types
<1>2. phase[s] = "receiving" /\ q # <<>>
  BY DEF Received
<1>3. QueueInv(q) /\ HeadInv(s)
  BY <1>2 DEF StreamInv, Live
<1>4. m.revision = copy[s] + 1 /\ m.index < m.count
  <2>1. 1 \in 1..Len(q)
    BY <1>1
  <2>2. q[1].index < q[1].count
    BY <1>3, <2>1 DEF QueueInv
  <2>3. q[1].revision = Base(s) + 1
    BY <1>2, <1>3 DEF HeadInv
  <2> QED  BY <1>1, <1>2, <2>2, <2>3 DEF Base
<1>5. m.revision \in Nat /\ m.index \in Nat /\ m.count \in Nat /\ copy[s] \in Nat
  BY <1>1, MessageFields DEF Types, TypeOK
<1>6. \A k \in DOMAIN batches : k[1] = s => k = Key(s, m)
  <2> TAKE k \in DOMAIN batches
  <2> HAVE k[1] = s
  <2>1. k \in Sessions \X Nat
    BY DEF Types, TypeOK
  <2>2. k[2] = copy[s] + 1
    BY DEF StreamInv, PartInv
  <2>3. k = <<k[1], k[2]>>
    BY <2>1
  <2> QED  BY <1>4, <2>2, <2>3 DEF Key
<1>7. m.index = Len(p) /\ \A i \in 1..Len(p) : SameMessage(m, p[i]) /\ p[i].index = i - 1
  <2>1. CASE Key(s, m) \in DOMAIN batches
    <3>1. p = batches[Key(s, m)] /\ Key(s, m)[1] = s
      BY <2>1 DEF Prior, Key
    <3>2. PartInv(Key(s, m))
      BY <2>1 DEF StreamInv
    <3>3. SameMessage(p[1], m) /\ m.index = Len(p)
      BY <1>1, <1>2, <3>1, <3>2 DEF PartInv
    <3>4. \A i \in 1..Len(p) : SameMessage(p[1], p[i]) /\ p[i].index = i - 1
      BY <3>1, <3>2 DEF PartInv
    <3> QED  BY <3>3, <3>4 DEF SameMessage
  <2>2. CASE Key(s, m) \notin DOMAIN batches
    <3>1. p = <<>>
      BY <2>2 DEF Prior
    <3>2. m.index = 0
      BY <1>1, <1>2, <1>3, <2>2 DEF HeadInv
    <3> QED  BY <3>1, <3>2
  <2> QED  BY <2>1, <2>2
<1>8. g = Append(p, m)
  BY <1>7 DEF Gathered
<1> HIDE DEF p, g, m, q
<1>9. Len(g) = Len(p) + 1 /\ g[Len(p) + 1] = m /\ \A i \in 1..Len(p) : g[i] = p[i]
  BY <1>1, <1>8
<1>10. \A i \in 1..Len(g) : SameMessage(m, g[i]) /\ g[i].index = i - 1
  <2> TAKE i \in 1..Len(g)
  <2>1. Len(p) \in Nat
    BY <1>1
  <2>2. i \in 1..Len(p) \/ i = Len(p) + 1
    BY <1>9, <2>1
  <2>3. CASE i \in 1..Len(p)
    BY <2>3, <1>7, <1>9
  <2>4. CASE i = Len(p) + 1
    BY <2>4, <2>1, <1>7, <1>9 DEF SameMessage
  <2> QED  BY <2>2, <2>3, <2>4
<1>11. ValidBatch(s, m)
  <2>1. \A b \in Range(p) : \E i \in 1..Len(p) : b = p[i]
    BY <1>1 DEF Range
  <2>2. \A b \in Range(p) : b.count = m.count
    BY <1>7, <2>1 DEF SameMessage
  <2>3. Len(p) \in Nat
    BY <1>1
  <2> QED  BY <1>7, <2>2, <2>3 DEF ValidBatch, p
<1>12. ~Stale(s, m)
  BY <1>4, <1>5 DEF Stale
<1> QED  BY <1>1, <1>4, <1>6, <1>7, <1>8, <1>9, <1>10, <1>11, <1>12 DEF p, g, m, q

(* So a handler refuses a message only after its replacement.               *)
LEMMA RefusedWhenReplaced ==
  ASSUME Types, StreamInv, NEW s \in Sessions, Received(s)
  PROVE  Refusal(s) \in {"none", "replaced"}
<1>1. ValidBatch(s, Head(inbox[s])) /\ ~Stale(s, Head(inbox[s]))
  BY HeadFacts
<1> QED  BY <1>1 DEF Refusal

(* Steps that touch neither a websocket nor what a handler received.        *)
LEMMA OtherKeepStream ==
  ASSUME StreamInv, UNCHANGED <<inbox, batches, phase, copy, job, reason, revision>>,
         link' = link \/ link' = NoSession
  PROVE  StreamInv'
<1>1. (\A s \in Sessions : Live(s) => QueueInv(inbox[s]) /\ HeadInv(s))'
  <2> TAKE s \in Sessions
  <2>1. Live(s)' <=> Live(s)
    BY DEF Live
  <2>2. HeadInv(s)' <=> HeadInv(s)
    BY DEF HeadInv, Base, Key
  <2>3. QueueInv(inbox[s])' <=> QueueInv(inbox[s])
    BY DEF QueueInv, Later, Follows, SameMessage
  <2> QED  BY <2>1, <2>2, <2>3 DEF StreamInv
<1>2. (\A s \in Sessions : Live(s) /\ link = s => TailInv(s))'
  BY SyncAssumption DEF StreamInv, Live, TailInv, Base
<1>3. (\A k \in DOMAIN batches : PartInv(k))'
  BY DEF StreamInv, PartInv, SameMessage
<1>4. NeverOutOfSequence'
  BY DEF StreamInv, NeverOutOfSequence
<1> QED  BY <1>1, <1>2, <1>3, <1>4 DEF StreamInv

(* A message of the next revision is sent on the websocket of a session.    *)
LEMMA SendKeepsStream ==
  ASSUME Types, StreamInv, NEW s \in Sessions, NEW rev \in Nat, NEW next \in Nat, next = rev + 1,
         NEW kind \in {"full", "state"},
         NEW items \in ItemSets, Send(s, kind, next, items),
         UNCHANGED <<batches, phase, copy, job, reason>>, link' = s,
         Live(s) => IF inbox[s] = <<>> THEN Base(s) = rev /\ \A k \in DOMAIN batches : k[1] # s
                    ELSE /\ inbox[s][Len(inbox[s])].revision = rev
                         /\ inbox[s][Len(inbox[s])].index + 1 = inbox[s][Len(inbox[s])].count
  PROVE  StreamInv'
<1> DEFINE q == inbox[s]
<1>1. inbox \in [Sessions -> Seq(Messages)] /\ q \in Seq(Messages)
  BY DEF Types, TypeOK
<1>2. /\ revision' = next
      /\ phase[s] \in {"ending", "closed"} => inbox' = inbox
      /\ phase[s] \notin {"ending", "closed"} => Sent(s, kind, next, items)
  BY <1>1, SendFacts
<1>3. \A t \in Sessions : Live(t)' <=> Live(t)
  BY DEF Live
<1>4. \A t \in Sessions : t # s => inbox'[t] = inbox[t]
  BY <1>1, <1>2 DEF Sent
<1>5. \A t \in Sessions : t # s => (Live(t) => QueueInv(inbox[t]) /\ HeadInv(t))'
  <2> TAKE t \in Sessions
  <2> HAVE t # s
  <2>1. inbox'[t] = inbox[t] /\ Base(t)' = Base(t)
    BY <1>4 DEF Base
  <2>2. Live(t) => QueueInv(inbox[t]) /\ HeadInv(t)
    BY DEF StreamInv
  <2>3. HeadInv(t)' <=> HeadInv(t)
    BY <2>1 DEF HeadInv, Key
  <2>4. QueueInv(inbox[t])' <=> QueueInv(inbox'[t])
    BY DEF QueueInv, Later, Follows, SameMessage
  <2> QED  BY <1>3, <2>1, <2>2, <2>3, <2>4
<1>6. NeverOutOfSequence'
  BY DEF StreamInv, NeverOutOfSequence
<1>7. CASE ~Live(s)
  <2>1. (\A t \in Sessions : Live(t) => QueueInv(inbox[t]) /\ HeadInv(t))'
    BY <1>3, <1>5, <1>7
  <2>2. (\A t \in Sessions : Live(t) /\ link = t => TailInv(t))'
    BY <1>3, <1>7
  <2>3. ASSUME NEW k \in DOMAIN batches' PROVE PartInv(k)'
    <3>1. k[1] \in Sessions /\ phase[k[1]] = "receiving" /\ k \in DOMAIN batches
      BY DEF Types, SyncInv, BatchInv
    <3>2. PartInv(k)
      BY <3>1 DEF StreamInv
    <3>3. inbox'[k[1]] = inbox[k[1]]
      BY <1>4, <1>7, <3>1 DEF Live
    <3> QED  BY <3>2, <3>3 DEF PartInv, SameMessage
  <2> QED  BY <1>6, <2>1, <2>2, <2>3 DEF StreamInv
<1>8. CASE Live(s)
  <2>1. PICK new : /\ Batches(new, kind, next, items)
                   /\ inbox' = [inbox EXCEPT ![s] = q \o new]
    BY <1>2, <1>8 DEF Live, Sent
  <2> DEFINE r == q \o new
  <2>2. r = inbox'[s]
    BY <1>1, <2>1
  <2>3. QueueInv(q) /\ HeadInv(s)
    BY <1>8 DEF StreamInv
  <2>4. q # <<>> => q[Len(q)].revision = rev /\ q[Len(q)].index + 1 = q[Len(q)].count
    BY <1>8
  <2>5. /\ r \in Seq(Messages) /\ Len(r) = Len(q) + Len(new)
        /\ \A i \in 1..Len(q) : r[i] = q[i]
        /\ \A i \in 1..Len(new) : r[Len(q) + i] = new[i]
        /\ QueueInv(r)
        /\ r[Len(r)].revision = next /\ r[Len(r)].index + 1 = r[Len(r)].count
    <3>1. QueueInv(q) /\ Batches(new, kind, next, items)
      BY <2>1, <2>3
    <3>2. r = q \o new
      OBVIOUS
    <3> HIDE DEF q, r
    <3>3. Continues(q, new, next, q \o new)
      BY <1>1, <2>4, <3>1, SendQueue
    <3> QED  BY <3>2, <3>3 DEF Continues
  <2>6. 1 \in 1..Len(new) /\ new[1].revision = next /\ new[1].index = 0 /\ Len(new) \in {1, 2}
    <3>1. Len(new) \in {1, 2} /\ \A i \in 1..Len(new) : new[i].revision = next /\ new[i].index = i - 1
      BY <2>1 DEF Batches
    <3>2. 1 \in 1..Len(new)
      BY <3>1
    <3> QED  BY <3>1, <3>2
  <2>7. Base(s)' = Base(s)
    BY DEF Base
  <2> HIDE DEF r
  <2>8. Len(r) > 0 /\ r # <<>>
    <3>1. Len(q) \in Nat
      BY <1>1
    <3>2. Len(r) > 0
      BY <2>5, <2>6, <3>1
    <3> QED  BY <3>2, <2>5
  <2>9. q # <<>> => r[1] = q[1]
    <3>1. q # <<>> => 1 \in 1..Len(q)
      BY <1>1
    <3>2. \A i \in 1..Len(q) : r[i] = q[i]
      BY <2>5
    <3> QED  BY <3>1, <3>2
  <2>10. q = <<>> => r[1] = new[1]
    <3> HAVE q = <<>>
    <3>1. Len(q) = 0
      OBVIOUS
    <3> QED  BY <2>5, <2>6, <3>1
  <2>11. (QueueInv(inbox[s]) /\ HeadInv(s))'
    <3>1. r[1].revision = Base(s) + 1 /\ (Key(s, r[1]) \notin DOMAIN batches => r[1].index = 0)
      <4>1. CASE q = <<>>
        BY <1>8, <2>6, <2>10, <4>1
      <4>2. CASE q # <<>>
        BY <2>3, <2>9, <4>2 DEF HeadInv
      <4> QED  BY <4>1, <4>2
    <3>2. HeadInv(s)'
      BY <2>2, <2>7, <3>1 DEF HeadInv, Key
    <3>3. QueueInv(inbox[s])'
      BY <2>2, <2>5 DEF QueueInv, Later, Follows, SameMessage
    <3> QED  BY <3>2, <3>3
  <2>12. (\A t \in Sessions : Live(t) => QueueInv(inbox[t]) /\ HeadInv(t))'
    <3>1. ASSUME NEW t \in Sessions PROVE (Live(t) => QueueInv(inbox[t]) /\ HeadInv(t))'
      <4>1. CASE t = s
        BY <4>1, <2>11
      <4>2. CASE t # s
        BY <4>2, <1>5
      <4> QED  BY <4>1, <4>2
    <3> QED  BY <3>1
  <2>13. (\A t \in Sessions : Live(t) /\ link = t => TailInv(t))'
    <3>1. TailInv(s)'
      BY <1>2, <2>2, <2>5, <2>8 DEF TailInv
    <3> QED  BY <3>1
  <2>14. ASSUME NEW k \in DOMAIN batches' PROVE PartInv(k)'
    <3>1. k[1] \in Sessions /\ k \in DOMAIN batches
      BY DEF Types, SyncInv, BatchInv
    <3>2. PartInv(k)
      BY <3>1 DEF StreamInv
    <3>3. CASE k[1] # s
      BY <3>1, <3>2, <3>3, <1>4 DEF PartInv, SameMessage
    <3>4. CASE k[1] = s
      <4>1. q # <<>>
        BY <1>8, <3>1, <3>4
      <4>2. inbox'[k[1]] # <<>> /\ inbox'[k[1]][1] = inbox[k[1]][1] /\ inbox[k[1]] # <<>>
        BY <3>4, <4>1, <2>2, <2>8, <2>9
      <4> QED  BY <3>2, <4>2 DEF PartInv, SameMessage
    <3> QED  BY <3>3, <3>4
  <2> QED  BY <1>6, <2>12, <2>13, <2>14 DEF StreamInv
<1> QED  BY <1>7, <1>8

(* What another session received is not touched by a step of one handler.   *)
LEMMA OthersKeepStream ==
  ASSUME Types, StreamInv, NEW s \in Sessions,
         \A t \in Sessions \ {s} :
           inbox'[t] = inbox[t] /\ phase'[t] = phase[t] /\ copy'[t] = copy[t] /\ job'[t] = job[t],
         \A k \in DOMAIN batches' : k[1] # s => k \in DOMAIN batches /\ batches'[k] = batches[k],
         \A k \in DOMAIN batches : k[1] # s => k \in DOMAIN batches',
         revision' = revision, link' = link \/ link' = NoSession,
         reason' \in [Sessions -> Reasons],
         \A t \in Sessions \ {s} : reason'[t] = reason[t],
         (Live(s) => QueueInv(inbox[s]) /\ HeadInv(s))',
         (Live(s) /\ link = s => TailInv(s))',
         \A k \in DOMAIN batches' : k[1] = s => PartInv(k)',
         reason'[s] \notin {"gap", "invalid"}
  PROVE  StreamInv'
<1>1. ASSUME NEW t \in Sessions PROVE (Live(t) => QueueInv(inbox[t]) /\ HeadInv(t))'
  <2>1. CASE t = s
    BY <2>1
  <2>2. CASE t # s
    <3>1. inbox'[t] = inbox[t] /\ (Live(t)' <=> Live(t)) /\ Base(t)' = Base(t)
      BY <2>2 DEF Live, Base
    <3>2. Live(t) => QueueInv(inbox[t]) /\ HeadInv(t)
      BY DEF StreamInv
    <3>3. \A k \in DOMAIN batches : k[1] = t => k \in DOMAIN batches'
      BY <2>2
    <3>4. HeadInv(t) => HeadInv(t)'
      <4>1. Key(t, inbox[t][1])[1] = t
        BY DEF Key
      <4> QED  BY <3>1, <3>3, <4>1 DEF HeadInv, Key
    <3>5. QueueInv(inbox[t])' <=> QueueInv(inbox[t])
      BY <3>1 DEF QueueInv, Later, Follows, SameMessage
    <3> QED  BY <3>1, <3>2, <3>4, <3>5
  <2> QED  BY <2>1, <2>2
<1>2. ASSUME NEW t \in Sessions PROVE (Live(t) /\ link = t => TailInv(t))'
  <2>1. CASE t = s
    BY <2>1
  <2>2. CASE t # s
    <3>1. inbox'[t] = inbox[t] /\ (Live(t)' <=> Live(t)) /\ Base(t)' = Base(t)
      BY <2>2 DEF Live, Base
    <3>2. link' = t => link = t
      BY SyncAssumption
    <3>3. Live(t) /\ link = t => TailInv(t)
      BY DEF StreamInv
    <3>4. TailInv(t) => TailInv(t)'
      BY <2>2, <3>1 DEF TailInv
    <3> QED  BY <3>1, <3>2, <3>3, <3>4
  <2> QED  BY <2>1, <2>2
<1>3. ASSUME NEW k \in DOMAIN batches' PROVE PartInv(k)'
  <2>1. CASE k[1] = s
    BY <2>1
  <2>2. CASE k[1] # s
    <3>1. k \in DOMAIN batches /\ batches'[k] = batches[k]
      BY <2>2
    <3>2. k[1] \in Sessions /\ PartInv(k)
      BY <3>1 DEF Types, SyncInv, BatchInv, StreamInv
    <3>3. copy'[k[1]] = copy[k[1]] /\ inbox'[k[1]] = inbox[k[1]]
      BY <2>2, <3>2
    <3> QED  BY <3>1, <3>2, <3>3 DEF PartInv, SameMessage
  <2> QED  BY <2>1, <2>2
<1>4. NeverOutOfSequence'
  <2>1. ASSUME NEW t \in Sessions PROVE reason'[t] \notin {"gap", "invalid"}
    BY DEF StreamInv, NeverOutOfSequence
  <2> QED  BY <2>1 DEF NeverOutOfSequence
<1> QED  BY <1>1, <1>2, <1>3, <1>4 DEF StreamInv

(* A connection is lost: the handler receives a prefix of what was sent.    *)
LEMMA DisconnectKeepsStream ==
  ASSUME Types, StreamInv, Disconnect
  PROVE  StreamInv'
<1> USE DEF handlerVars, dbVars, history
<1>1. PICK s \in Sessions : s = link
  BY DEF Disconnect, Types, TypeOK
<1> DEFINE q == inbox[s]
<1>2. inbox \in [Sessions -> Seq(Messages)] /\ q \in Seq(Messages) /\ reason \in [Sessions -> Reasons]
  BY DEF Types, TypeOK
<1>3. PICK n \in 0..Len(q) : inbox' = [inbox EXCEPT ![s] = SubSeq(@, 1, n)]
  BY <1>1 DEF Disconnect
<1> DEFINE t == SubSeq(q, 1, n)
<1>4. inbox'[s] = t /\ \A u \in Sessions : u # s => inbox'[u] = inbox[u]
  BY <1>2, <1>3
<1>5. link' = NoSession /\ UNCHANGED <<revision, handlerVars>>
  BY DEF Disconnect
<1>6. (Live(s)' <=> Live(s)) /\ Base(s)' = Base(s)
  BY <1>5 DEF Live, Base
<1>7. Live(s) => QueueInv(q) /\ HeadInv(s)
  BY DEF StreamInv
<1>8. Live(s) => t \in Seq(Messages) /\ Len(t) = n /\ QueueInv(t) /\ \A i \in 1..n : t[i] = q[i]
  BY <1>2, <1>7, PrefixQueue
<1>9. t # <<>> => q # <<>> /\ t[1] = q[1]
  <2>1. Len(t) = n /\ Len(q) \in Nat /\ t \in Seq(Messages) /\ \A i \in 1..n : t[i] = q[i]
    BY <1>2
  <2> HIDE DEF t
  <2>2. t # <<>> => n > 0
    BY <2>1
  <2> QED  BY <1>2, <2>1, <2>2
<1>10. Live(s)' => (QueueInv(inbox[s]) /\ HeadInv(s))'
  <2> HAVE Live(s)'
  <2>1. QueueInv(t) /\ HeadInv(s)
    BY <1>6, <1>7, <1>8
  <2> HIDE DEF t, q
  <2>2. HeadInv(s)'
    BY <1>4, <1>5, <1>6, <1>9, <2>1 DEF HeadInv, Key, q
  <2>3. QueueInv(inbox[s])'
    BY <1>4, <2>1 DEF QueueInv, Later, Follows, SameMessage
  <2> QED  BY <2>2, <2>3
<1>11. ASSUME NEW k \in DOMAIN batches', k[1] = s PROVE PartInv(k)'
  <2> HIDE DEF t
  <2>1. k \in DOMAIN batches /\ PartInv(k) /\ UNCHANGED <<batches, copy>>
    BY <1>5 DEF StreamInv
  <2>2. t # <<>> => inbox[k[1]] # <<>> /\ t[1] = inbox[k[1]][1]
    BY <1>9, <1>11
  <2>3. inbox'[k[1]] = t
    BY <1>4, <1>11
  <2> QED  BY <2>1, <2>2, <2>3 DEF PartInv, SameMessage
<1>12. reason'[s] \notin {"gap", "invalid"}
  BY <1>5 DEF StreamInv, NeverOutOfSequence
<1>13. \A u \in Sessions \ {s} :
         inbox'[u] = inbox[u] /\ phase'[u] = phase[u] /\ copy'[u] = copy[u] /\ job'[u] = job[u]
  BY <1>4, <1>5
<1>14. (Live(s) /\ link = s => TailInv(s))'
  BY <1>5, SyncAssumption
<1> HIDE DEF t, q
<1>15. (Live(s) => QueueInv(inbox[s]) /\ HeadInv(s))'
  BY <1>10
<1>16. reason' = reason /\ batches' = batches /\ revision' = revision
  BY <1>5
<1> QED  BY <1>2, <1>5, <1>11, <1>12, <1>13, <1>14, <1>15, <1>16, OthersKeepStream

(* A handler ends: nothing of its session counts any more.                  *)
LEMMA EndKeepsStream ==
  ASSUME Types, StreamInv, NEW s \in Sessions, NEW why \in Reasons, End(s, why),
         why \notin {"gap", "invalid"}, UNCHANGED <<connVars, copy, job>>
  PROVE  StreamInv'
<1> USE DEF connVars
<1>1. /\ inbox \in [Sessions -> Seq(Messages)] /\ phase \in [Sessions -> Phases]
      /\ reason \in [Sessions -> Reasons]
  BY DEF Types, TypeOK
<1>2. /\ phase' = [phase EXCEPT ![s] = "closed"]
      /\ reason' = [reason EXCEPT ![s] = why]
      /\ inbox' = [inbox EXCEPT ![s] = <<>>]
      /\ batches' = [k \in {h \in DOMAIN batches : h[1] # s} |-> batches[k]]
  BY DEF End, Restrict
<1>3. \A u \in Sessions \ {s} :
        inbox'[u] = inbox[u] /\ phase'[u] = phase[u] /\ copy'[u] = copy[u] /\ job'[u] = job[u]
  BY <1>1, <1>2
<1>4. ~Live(s)'
  BY <1>1, <1>2 DEF Live
<1>5. /\ \A k \in DOMAIN batches' : k[1] # s /\ k \in DOMAIN batches /\ batches'[k] = batches[k]
      /\ \A k \in DOMAIN batches : k[1] # s => k \in DOMAIN batches'
  BY <1>2
<1>6. reason' \in [Sessions -> Reasons] /\ reason'[s] = why /\ \A t \in Sessions \ {s} : reason'[t] = reason[t]
  BY <1>1, <1>2
<1>7. revision' = revision /\ link' = link
  OBVIOUS
<1> QED  BY <1>3, <1>4, <1>5, <1>6, <1>7, OthersKeepStream

(* A handler receives a batch that does not complete its message.           *)
LEMMA ReceiveKeepsStream ==
  ASSUME Types, StreamInv, NEW s \in Sessions, ReceiveBatch(s)
  PROVE  StreamInv'
<1> USE DEF connVars, dbVars, history
<1> DEFINE q == inbox[s]
           m == Head(q)
           g == Gathered(s, m)
           t == Tail(q)
<1>1. Received(s) /\ ~Complete(s, m)
  BY DEF ReceiveBatch
<1>2. /\ m = q[1] /\ m.revision = copy[s] + 1 /\ m.index < m.count
      /\ Len(g) = m.index + 1
      /\ \A i \in 1..Len(g) : SameMessage(m, g[i]) /\ g[i].index = i - 1
  BY <1>1, HeadFacts
<1>3. q \in Seq(Messages) /\ Len(q) > 0 /\ m \in Messages /\ g \in Seq(Messages)
  BY <1>1, GatheredTypes DEF Types
<1>4. phase[s] = "receiving" /\ q # <<>> /\ QueueInv(q)
  BY <1>1 DEF Received, StreamInv, Live
<1>5. /\ inbox' = [inbox EXCEPT ![s] = t]
      /\ batches' = [k \in Kept(s, m) \cup {Key(s, m)} |-> IF k = Key(s, m) THEN g ELSE batches[k]]
      /\ UNCHANGED <<revision, link, phase, copy, job, reason>>
  BY DEF ReceiveBatch
<1>6. m.index \in Nat /\ m.count \in Nat /\ m.index + 1 # m.count
  BY <1>1, <1>2, <1>3, MessageFields DEF Complete
<1>7. /\ t \in Seq(Messages) /\ Len(t) = Len(q) - 1
      /\ \A i \in 1..Len(t) : i + 1 \in 1..Len(q) /\ t[i] = q[i + 1]
      /\ QueueInv(t)
  BY <1>3, <1>4, TailQueue
<1> HIDE DEF m, g, t
<1>8. /\ inbox \in [Sessions -> Seq(Messages)] /\ reason \in [Sessions -> Reasons]
  BY DEF Types, TypeOK
<1>9. inbox'[s] = t /\ \A u \in Sessions \ {s} : inbox'[u] = inbox[u]
  BY <1>5, <1>8
<1>10. t # <<>> => SameMessage(m, t[1]) /\ t[1].index = m.index + 1
  <2> HAVE t # <<>>
  <2>1. Len(t) > 0 /\ Len(t) \in Nat
    BY <1>7
  <2>2. 1 \in 1..Len(t) /\ 1 \in 1..Len(q) - 1 /\ t[1] = q[1 + 1]
    BY <1>7, <2>1
  <2>3. Follows(q[1], q[1 + 1])
    BY <1>4, <2>2 DEF QueueInv
  <2> QED  BY <1>2, <1>6, <2>2, <2>3 DEF Follows
<1>11. /\ Key(s, m) = <<s, copy[s] + 1>> /\ Key(s, m)[1] = s /\ Key(s, m)[2] = copy[s] + 1
       /\ Key(s, m) \in DOMAIN batches' /\ batches'[Key(s, m)] = g
       /\ \A k \in DOMAIN batches' : k[1] = s => k = Key(s, m)
       /\ \A k \in DOMAIN batches' : k[1] # s => k \in DOMAIN batches /\ batches'[k] = batches[k]
       /\ \A k \in DOMAIN batches : k[1] # s => k \in DOMAIN batches'
  <2>1. Key(s, m) = <<s, copy[s] + 1>> /\ Key(s, m)[1] = s /\ Key(s, m)[2] = copy[s] + 1
    BY <1>2 DEF Key
  <2>2. \A k \in Kept(s, m) : k \in DOMAIN batches /\ (k[1] = s => k = Key(s, m))
    BY DEF Kept
  <2>3. \A k \in DOMAIN batches : k[1] # s => k \in Kept(s, m)
    BY DEF Kept
  <2> QED  BY <2>1, <2>2, <2>3, <1>5
<1>12. ASSUME NEW k \in DOMAIN batches', k[1] = s PROVE PartInv(k)'
  <2>1. k = Key(s, m) /\ batches'[k] = g /\ k[2] = copy[s] + 1
    BY <1>11, <1>12
  <2>2. Len(g) \in Nat /\ 1 \in 1..Len(g)
    BY <1>2, <1>6
  <2>3. SameMessage(m, g[1]) /\ g[1].revision = copy[s] + 1 /\ g[1].count = m.count
    BY <1>2, <2>2 DEF SameMessage
  <2>4. \A i \in 1..Len(g) : SameMessage(g[1], g[i]) /\ g[i].revision = k[2] /\ g[i].index = i - 1
    BY <1>2, <2>1, <2>3 DEF SameMessage
  <2>5. t # <<>> => SameMessage(g[1], t[1]) /\ t[1].index = Len(g)
    BY <1>2, <1>10, <2>3 DEF SameMessage
  <2>6. Len(g) > 0 /\ Len(g) < g[1].count
    BY <1>2, <1>6, <2>3
  <2>7. copy'[k[1]] = copy[s] /\ inbox'[k[1]] = t
    BY <1>5, <1>9, <1>12
  <2> QED  BY <2>1, <2>4, <2>5, <2>6, <2>7 DEF PartInv, SameMessage
<1>13. (QueueInv(inbox[s]) /\ HeadInv(s))'
  <2>1. QueueInv(inbox[s])'
    BY <1>7, <1>9 DEF QueueInv, Later, Follows, SameMessage
  <2>2. Base(s)' = copy[s]
    BY <1>4, <1>5 DEF Base
  <2>3. t # <<>> => t[1].revision = copy[s] + 1 /\ <<s, t[1].revision>> \in DOMAIN batches'
    BY <1>2, <1>10, <1>11 DEF SameMessage
  <2>4. HeadInv(s)'
    BY <1>9, <2>2, <2>3 DEF HeadInv, Key
  <2> QED  BY <2>1, <2>4
<1>14. (Live(s) /\ link = s => TailInv(s))'
  <2> SUFFICES ASSUME link = s PROVE TailInv(s)'
    BY <1>5
  <2>1. q[Len(q)].revision = revision /\ q[Len(q)].index + 1 = q[Len(q)].count
    BY <1>4 DEF StreamInv, Live, TailInv
  <2>2. t # <<>>
    <3> SUFFICES ASSUME t = <<>> PROVE FALSE
      OBVIOUS
    <3>1. Len(q) = 1
      BY <1>3, <1>7
    <3> QED  BY <2>1, <3>1, <1>2, <1>6
  <2>3. t[Len(t)] = q[Len(q)]
    BY <1>3, <1>7, <2>2
  <2> QED  BY <1>5, <1>9, <2>1, <2>2, <2>3 DEF TailInv
<1>15. reason'[s] \notin {"gap", "invalid"}
  BY <1>5 DEF StreamInv, NeverOutOfSequence
<1>16. \A u \in Sessions \ {s} :
         inbox'[u] = inbox[u] /\ phase'[u] = phase[u] /\ copy'[u] = copy[u] /\ job'[u] = job[u]
  BY <1>5, <1>9
<1> QED
  BY <1>5, <1>8, <1>11, <1>12, <1>13, <1>14, <1>15, <1>16, OthersKeepStream

(* A handler takes the last batch of a message, to apply or to reject it.   *)
LEMMA AcceptKeepsStream ==
  ASSUME Types, StreamInv, NEW s \in Sessions, NEW kind, Accept(s, kind),
         NEW next \in {"applying", "ending"}, phase' = [phase EXCEPT ![s] = next],
         reason' = reason \/ reason' = [reason EXCEPT ![s] = "unknown"],
         UNCHANGED <<connVars, copy>>
  PROVE  StreamInv'
<1> USE DEF connVars
<1> DEFINE q == inbox[s]
           m == Head(q)
           g == Gathered(s, m)
           t == Tail(q)
           D == Kept(s, m) \ {Key(s, m)}
<1>1. Received(s) /\ Complete(s, m)
  BY DEF Accept
<1>2. /\ m = q[1] /\ m.index < m.count /\ Len(g) = m.index + 1
      /\ \A k \in DOMAIN batches : k[1] = s => k = Key(s, m)
  BY <1>1, HeadFacts
<1>3. q \in Seq(Messages) /\ Len(q) > 0 /\ m \in Messages
  BY <1>1, GatheredTypes DEF Types
<1>4. phase[s] = "receiving" /\ q # <<>> /\ QueueInv(q)
  BY <1>1 DEF Received, StreamInv, Live
<1>5. /\ inbox' = [inbox EXCEPT ![s] = t] /\ job' = [job EXCEPT ![s] = m.revision]
      /\ batches' = [k \in D |-> batches[k]]
      /\ UNCHANGED <<revision, link, copy>>
  BY DEF Accept, Restrict
<1>6. m.index + 1 = m.count /\ m.revision \in Nat
  BY <1>1, <1>2, <1>3, MessageFields DEF Complete
<1>7. /\ t \in Seq(Messages) /\ Len(t) = Len(q) - 1
      /\ \A i \in 1..Len(t) : i + 1 \in 1..Len(q) /\ t[i] = q[i + 1]
      /\ QueueInv(t)
  BY <1>3, <1>4, TailQueue
<1>8. /\ \A k \in D : k \in DOMAIN batches /\ k[1] # s
      /\ \A k \in DOMAIN batches : k[1] # s => k \in D
  <2>1. Key(s, m)[1] = s
    BY DEF Key
  <2> QED  BY <2>1 DEF Kept
<1> HIDE DEF m, g, t, D
<1>9. /\ inbox \in [Sessions -> Seq(Messages)] /\ reason \in [Sessions -> Reasons]
      /\ phase \in [Sessions -> Phases] /\ job \in [Sessions -> Nat]
  BY DEF Types, TypeOK
<1>10. /\ inbox'[s] = t /\ phase'[s] = next /\ job'[s] = m.revision
       /\ \A u \in Sessions \ {s} :
            inbox'[u] = inbox[u] /\ phase'[u] = phase[u] /\ copy'[u] = copy[u] /\ job'[u] = job[u]
  BY <1>5, <1>9
<1>11. /\ \A k \in DOMAIN batches' : k[1] # s /\ k \in DOMAIN batches /\ batches'[k] = batches[k]
       /\ \A k \in DOMAIN batches : k[1] # s => k \in DOMAIN batches'
  BY <1>5, <1>8
<1>12. t # <<>> => t[1].revision = m.revision + 1 /\ t[1].index = 0
  <2> HAVE t # <<>>
  <2>1. Len(t) > 0 /\ Len(t) \in Nat
    BY <1>7
  <2>2. 1 \in 1..Len(t) /\ 1 \in 1..Len(q) - 1 /\ t[1] = q[1 + 1]
    BY <1>7, <2>1
  <2>3. Follows(q[1], q[1 + 1])
    BY <1>4, <2>2 DEF QueueInv
  <2> QED  BY <1>2, <1>6, <2>2, <2>3 DEF Follows
<1>13. Live(s)' => next = "applying" /\ Base(s)' = m.revision
  BY <1>10 DEF Live, Base
<1>14. (Live(s) => QueueInv(inbox[s]) /\ HeadInv(s))'
  <2> HAVE Live(s)'
  <2>1. QueueInv(inbox[s])'
    BY <1>7, <1>10 DEF QueueInv, Later, Follows, SameMessage
  <2>2. HeadInv(s)'
    BY <1>10, <1>12, <1>13 DEF HeadInv
  <2> QED  BY <2>1, <2>2
<1>15. (Live(s) /\ link = s => TailInv(s))'
  <2> HAVE (Live(s) /\ link = s)'
  <2>0. link = s
    BY <1>5
  <2>1. q[Len(q)].revision = revision
    BY <1>4, <2>0 DEF StreamInv, Live, TailInv
  <2>2. CASE t = <<>>
    <3>1. Len(q) = 1
      BY <1>3, <1>7, <2>2
    <3>2. m.revision = revision
      BY <1>2, <2>1, <3>1
    <3> QED  BY <1>5, <1>10, <1>11, <1>13, <2>2, <3>2 DEF TailInv
  <2>3. CASE t # <<>>
    <3>1. t[Len(t)] = q[Len(q)]
      BY <1>3, <1>7, <2>3
    <3>2. q[Len(q)].index + 1 = q[Len(q)].count
      BY <1>4, <2>0 DEF StreamInv, Live, TailInv
    <3> QED  BY <1>5, <1>10, <2>1, <2>3, <3>1, <3>2 DEF TailInv
  <2> QED  BY <2>2, <2>3
<1>16. reason' \in [Sessions -> Reasons] /\ reason'[s] \notin {"gap", "invalid"}
       /\ \A u \in Sessions \ {s} : reason'[u] = reason[u]
  BY <1>9 DEF StreamInv, NeverOutOfSequence, Reasons
<1> QED  BY <1>5, <1>10, <1>11, <1>14, <1>15, <1>16, OthersKeepStream

(* The transaction of a message commits.                                    *)
LEMMA CommitKeepsStream ==
  ASSUME Types, StreamInv, NEW s \in Sessions, Commit(s)
  PROVE  StreamInv'
<1> USE DEF connVars
<1>1. /\ phase \in [Sessions -> Phases] /\ copy \in [Sessions -> Nat]
      /\ reason \in [Sessions -> Reasons]
  BY DEF Types, TypeOK
<1>2. /\ phase[s] = "applying" /\ phase' = [phase EXCEPT ![s] = "receiving"]
      /\ copy' = [copy EXCEPT ![s] = job[s]]
      /\ UNCHANGED <<revision, link, inbox, batches, job, reason>>
  BY DEF Commit
<1>3. Live(s) /\ Live(s)' /\ Base(s)' = Base(s)
  BY <1>1, <1>2 DEF Live, Base
<1>4. \A k \in DOMAIN batches : k[1] # s
  BY <1>2 DEF Types, SyncInv, BatchInv
<1>5. QueueInv(inbox[s]) /\ HeadInv(s) /\ (link = s => TailInv(s))
  BY <1>3 DEF StreamInv
<1>6. (Live(s) => QueueInv(inbox[s]) /\ HeadInv(s))'
  <2>1. HeadInv(s)'
    BY <1>2, <1>3, <1>5 DEF HeadInv, Key
  <2>2. QueueInv(inbox[s])'
    BY <1>2, <1>5 DEF QueueInv, Later, Follows, SameMessage
  <2> QED  BY <2>1, <2>2
<1>7. (Live(s) /\ link = s => TailInv(s))'
  BY <1>2, <1>3, <1>5 DEF TailInv
<1>8. reason'[s] \notin {"gap", "invalid"}
  BY <1>2 DEF StreamInv, NeverOutOfSequence
<1>9. \A u \in Sessions \ {s} :
        inbox'[u] = inbox[u] /\ phase'[u] = phase[u] /\ copy'[u] = copy[u] /\ job'[u] = job[u]
  BY <1>1, <1>2
<1> QED  BY <1>1, <1>2, <1>4, <1>6, <1>7, <1>8, <1>9, OthersKeepStream

(* A session opens and is registered: nothing was sent on it yet.           *)
LEMMA OpenKeepsStream ==
  ASSUME Types, StreamInv, NEW s \in Sessions, Connect(s) \/ Register(s)
  PROVE  StreamInv'
<1> USE DEF connVars, dbVars, history
<1>1. /\ phase \in [Sessions -> Phases] /\ copy \in [Sessions -> Nat]
      /\ reason \in [Sessions -> Reasons]
  BY DEF Types, TypeOK
<1>2. /\ phase[s] \in {"new", "authenticated"}
      /\ UNCHANGED <<revision, link, inbox, batches, job, reason>>
      /\ \A u \in Sessions \ {s} : phase'[u] = phase[u] /\ copy'[u] = copy[u]
  BY <1>1 DEF Connect, Register
<1>3. inbox[s] = <<>> /\ link # s
  BY <1>2 DEF Types, LinkInv
<1>4. \A k \in DOMAIN batches : k[1] # s
  BY <1>2 DEF Types, SyncInv, BatchInv
<1>5. (Live(s) => QueueInv(inbox[s]) /\ HeadInv(s))'
  <2>1. inbox'[s] = <<>>
    BY <1>2, <1>3
  <2>2. HeadInv(s)'
    BY <2>1 DEF HeadInv
  <2>3. QueueInv(inbox[s])'
    BY <2>1 DEF QueueInv
  <2> QED  BY <2>2, <2>3
<1>6. (Live(s) /\ link = s => TailInv(s))'
  BY <1>2, <1>3
<1>7. reason'[s] \notin {"gap", "invalid"}
  BY <1>2 DEF StreamInv, NeverOutOfSequence
<1> QED  BY <1>1, <1>2, <1>4, <1>5, <1>6, <1>7, OthersKeepStream

(* The stream is in order initially.                                        *)
LEMMA InitStream == Init => StreamInv
<1> SUFFICES ASSUME Init PROVE StreamInv  OBVIOUS
<1>1. \A s \in Sessions : ~Live(s)
  BY DEF Init, Live
<1>2. DOMAIN batches = {}
  BY DEF Init
<1>3. NeverOutOfSequence
  BY DEF Init, NeverOutOfSequence
<1> QED  BY <1>1, <1>2, <1>3 DEF StreamInv

(* Every step keeps it in order.                                            *)
LEMMA NextStream == Types /\ StreamInv /\ [Next]_vars => StreamInv'
<1> SUFFICES ASSUME Types, StreamInv, [Next]_vars PROVE StreamInv'  OBVIOUS
<1> USE DEF handlerVars, dbVars, history
<1>1. CASE UNCHANGED vars
  BY <1>1, OtherKeepStream DEF vars, connVars
<1>2. ASSUME NEW e \in Entities, NEW v \in Rows, StateChanges(e, v) \/ RegistryChanges(e, v)
      PROVE  StreamInv'
  BY <1>2, OtherKeepStream DEF StateChanges, RegistryChanges, Change
<1>3. CASE FlushDone \/ ResyncDone \/ GiveUp
  BY <1>3, OtherKeepStream DEF FlushDone, ResyncDone, GiveUp
<1>4. revision \in Nat /\ home \in [Entities -> Rows] /\ copy \in [Sessions -> Nat]
  BY DEF Types, TypeOK
<1>5. CASE FlushStates
  <2>1. CASE pending \cap Exposed = {}
    BY <1>5, <2>1, OtherKeepStream DEF FlushStates
  <2>2. CASE pending \cap Exposed # {}
    <3>1. PICK s \in Sessions : s = link
      BY <1>5, TaskHasLink DEF FlushStates
    <3>2. PICK items \in ItemSets : items = Restrict(home, pending \cap Exposed)
      BY <1>4, HomeItems
    <3>3. Send(s, "state", revision + 1, items)
      BY <1>5, <2>2, <3>1, <3>2 DEF FlushStates
    <3>4. PICK next \in Nat : next = revision + 1
      BY <1>4
    <3>5. Live(s) => TailInv(s)
      BY <3>1 DEF StreamInv
    <3>6. UNCHANGED <<batches, phase, copy, job, reason>> /\ link' = s
      BY <1>5, <3>1 DEF FlushStates
    <3> QED  BY <1>4, <3>3, <3>4, <3>5, <3>6, SendKeepsStream DEF TailInv
  <2> QED  BY <2>1, <2>2
<1>6. CASE Resync
  <2>1. PICK s \in Sessions : s = link
    BY <1>6, TaskHasLink DEF Resync
  <2>2. PICK items \in ItemSets : items = Restrict(home, Exposed)
    BY <1>4, HomeItems
  <2>3. Send(s, "full", revision + 1, items)
    BY <1>6, <2>1, <2>2 DEF Resync, SendFull
  <2>4. PICK next \in Nat : next = revision + 1
    BY <1>4
  <2>5. Live(s) => TailInv(s)
    BY <2>1 DEF StreamInv
  <2>6. UNCHANGED <<batches, phase, copy, job, reason>> /\ link' = s
    BY <1>6, <2>1 DEF Resync
  <2> QED  BY <1>4, <2>3, <2>4, <2>5, <2>6, SendKeepsStream DEF TailInv
<1>7. ASSUME NEW s \in Sessions, Start(s) PROVE StreamInv'
  <2>1. PICK items \in ItemSets : items = Restrict(home, Exposed)
    BY <1>4, HomeItems
  <2>2. PICK rev \in Nat : rev = copy[s]
    BY <1>4
  <2>3. PICK next \in Nat : next = rev + 1
    OBVIOUS
  <2>4. Send(s, "full", next, items)
    BY <1>7, <2>1, <2>2, <2>3 DEF Start, SendFull
  <2>5. UNCHANGED <<batches, phase, copy, job, reason>> /\ link' = s /\ dial = s /\ phase[s] = "receiving"
    BY <1>7 DEF Start
  <2>6. inbox[s] = <<>> /\ Base(s) = rev /\ \A k \in DOMAIN batches : k[1] # s
    BY <2>2, <2>5 DEF Types, LinkInv, Base
  <2> QED  BY <2>3, <2>4, <2>5, <2>6, SendKeepsStream
<1>8. CASE Disconnect
  BY <1>8, DisconnectKeepsStream
<1>9. ASSUME NEW s \in Sessions, Connect(s) \/ Register(s) PROVE StreamInv'
  BY <1>9, OpenKeepsStream
<1>10. ASSUME NEW s \in Sessions, Fail(s) \/ Refuse(s) \/ Cleanup(s) PROVE StreamInv'
  <2>1. UNCHANGED <<connVars, copy, job>>
    BY <1>10 DEF Fail, Refuse, Cleanup
  <2>2. CASE Fail(s)
    BY <2>1, <2>2, EndKeepsStream DEF Fail, Reasons
  <2>3. CASE Refuse(s)
    <3>1. End(s, Refusal(s)) /\ Received(s) /\ Refusal(s) # "none"
      BY <2>3 DEF Refuse
    <3>2. Refusal(s) = "replaced"
      BY <3>1, RefusedWhenReplaced
    <3> QED  BY <2>1, <3>1, <3>2, EndKeepsStream DEF Reasons
  <2>4. CASE Cleanup(s)
    <3>1. End(s, reason[s]) /\ reason[s] \in Reasons /\ reason[s] \notin {"gap", "invalid"}
      BY <2>4 DEF Cleanup, Types, TypeOK, StreamInv, NeverOutOfSequence
    <3> QED  BY <2>1, <3>1, EndKeepsStream
  <2> QED  BY <1>10, <2>2, <2>3, <2>4
<1>11. ASSUME NEW s \in Sessions, ReceiveBatch(s) PROVE StreamInv'
  BY <1>11, ReceiveKeepsStream
<1>12. ASSUME NEW s \in Sessions, BeginFull(s) \/ BeginState(s) \/ RejectState(s) PROVE StreamInv'
  <2>1. UNCHANGED <<connVars, copy>>
    BY <1>12 DEF BeginFull, BeginState, RejectState
  <2>2. CASE BeginFull(s)
    BY <2>1, <2>2, AcceptKeepsStream DEF BeginFull
  <2>3. CASE BeginState(s)
    BY <2>1, <2>3, AcceptKeepsStream DEF BeginState
  <2>4. CASE RejectState(s)
    BY <2>1, <2>4, AcceptKeepsStream DEF RejectState
  <2> QED  BY <1>12, <2>2, <2>3, <2>4
<1>13. ASSUME NEW s \in Sessions, Commit(s) PROVE StreamInv'
  BY <1>13, CommitKeepsStream
<1> QED
  BY <1>1, <1>2, <1>3, <1>5, <1>6, <1>7, <1>8, <1>9, <1>10, <1>11, <1>12, <1>13 DEF Next

(* NeverOutOfSequence: batches and revisions of this Connector are never    *)
(* refused, however sessions overlap.                                       *)
THEOREM NeverOutOfSequenceAlways == Spec => []NeverOutOfSequence
<1>1. Init => Types /\ StreamInv
  BY InitTypes, InitStream
<1>2. Types /\ StreamInv /\ [Next]_vars => (Types /\ StreamInv)'
  BY NextTypes, NextStream
<1>3. StreamInv => NeverOutOfSequence
  BY DEF StreamInv
<1> QED  BY <1>1, <1>2, <1>3, PTL DEF Spec

-----------------------------------------------------------------------------
(* The content of what is in flight                                         *)

(* The batches of a session that its handler has not applied: those on the  *)
(* websocket and those gathered.                                            *)
FlightOf(q, parts, s) ==
  Range(q) \cup UNION {Range(parts[k]) : k \in {h \in DOMAIN parts : h[1] = s}}

Flight(s) == FlightOf(inbox[s], batches, s)

(* Batches of one message are of one kind and do not contradict each other. *)
Agree(F) ==
  \A m, n \in F : m.revision = n.revision =>
    /\ m.kind = n.kind
    /\ \A e \in DOMAIN m.items \cap DOMAIN n.items : m.items[e] = n.items[e]

(* The batches that say something of an entity: a full inventory says of an *)
(* entity it does not name that it is absent.                               *)
Words(F, e) == {m \in F : m.kind = "full" \/ e \in DOMAIN m.items}

(* The last word of the batches on an entity.                               *)
LastWord(W, e, v) ==
  \E m \in W :
    /\ \A n \in W : n.revision <= m.revision
    /\ IF e \in DOMAIN m.items THEN v = m.items[e]
       ELSE /\ v = Absent
            /\ \A n \in W : n.revision = m.revision => e \notin DOMAIN n.items

(* The row of an entity once the transaction of the handler has committed.  *)
Stored(s, e) ==
  IF phase[s] = "applying" /\ write[s][e] # Keep THEN write[s][e] ELSE cloud[e]

(* What the row will be when all in flight is applied.                      *)
Outcome(s, e, v) ==
  \/ Words(Flight(s), e) = {} /\ v = Stored(s, e)
  \/ LastWord(Words(Flight(s), e), e, v)

(* The session carries the changes at home: none was missed, and nothing    *)
(* disturbed the table, or a full inventory is to come.                     *)
Reliable(s) ==
  /\ link = s /\ current = s /\ Live(s)
  /\ resync # "sleeping" /\ ~missed
  /\ ~disturbed \/ \E m \in Flight(s) : m.kind = "full"

(* Then the outcome is the home as it is, but for the states yet to send.   *)
ContentInv ==
  /\ \A s \in Sessions : Live(s) => Agree(Flight(s))
  /\ \A s \in Sessions : Reliable(s) =>
       \A e \in Entities : e \notin pending \/ home[e] = Absent => Outcome(s, e, home[e])

(* What is in flight, element by element.                                   *)
LEMMA FlightElements ==
  ASSUME NEW q \in Seq(Messages), NEW parts, NEW s, \A k \in DOMAIN parts : parts[k] \in Seq(Messages)
  PROVE  \A m : m \in FlightOf(q, parts, s) <=>
                  \/ \E i \in 1..Len(q) : m = q[i]
                  \/ \E k \in DOMAIN parts : k[1] = s /\ \E i \in 1..Len(parts[k]) : m = parts[k][i]
<1>1. \A m : m \in Range(q) <=> \E i \in 1..Len(q) : m = q[i]
  BY DEF Range
<1>2. ASSUME NEW k \in DOMAIN parts
      PROVE  \A m : m \in Range(parts[k]) <=> \E i \in 1..Len(parts[k]) : m = parts[k][i]
  <2>1. parts[k] \in Seq(Messages)
    OBVIOUS
  <2>2. DOMAIN parts[k] = 1..Len(parts[k])
    BY <2>1
  <2> QED  BY <2>2 DEF Range
<1> QED  BY <1>1, <1>2 DEF FlightOf

(* In every state of the model.                                             *)
LEMMA InFlight ==
  ASSUME Types, NEW s \in Sessions
  PROVE  /\ \A m : m \in Flight(s) <=>
              \/ \E i \in 1..Len(inbox[s]) : m = inbox[s][i]
              \/ \E k \in DOMAIN batches : k[1] = s /\ \E i \in 1..Len(batches[k]) : m = batches[k][i]
         /\ \A m \in Flight(s) : m \in Messages
<1>1. inbox[s] \in Seq(Messages) /\ \A k \in DOMAIN batches : batches[k] \in Seq(Messages)
  <2>1. inbox \in [Sessions -> Seq(Messages)] /\ batches \in [DOMAIN batches -> Seq(Messages)]
    BY DEF Types, TypeOK
  <2> QED  BY <2>1
<1> DEFINE q == inbox[s]
<1>2. \A m : m \in FlightOf(q, batches, s) <=>
              \/ \E i \in 1..Len(q) : m = q[i]
              \/ \E k \in DOMAIN batches : k[1] = s /\ \E i \in 1..Len(batches[k]) : m = batches[k][i]
  <2> HIDE DEF q
  <2>1. q \in Seq(Messages)
    BY <1>1 DEF q
  <2> QED  BY <1>1, <2>1, FlightElements
<1>3. ASSUME NEW m \in Flight(s) PROVE m \in Messages
  <2>1. CASE \E i \in 1..Len(inbox[s]) : m = inbox[s][i]
    BY <1>1, <2>1
  <2>2. CASE \E k \in DOMAIN batches : k[1] = s /\ \E i \in 1..Len(batches[k]) : m = batches[k][i]
    <3>1. PICK k \in DOMAIN batches : \E i \in 1..Len(batches[k]) : m = batches[k][i]
      BY <2>2
    <3>2. batches[k] \in Seq(Messages)
      BY <1>1
    <3> QED  BY <3>1, <3>2
  <2> QED  BY <1>2, <2>1, <2>2 DEF Flight
<1> QED  BY <1>2, <1>3 DEF Flight

(* And in the next state.                                                   *)
LEMMA InFlightNext ==
  ASSUME TypeOK', NEW s \in Sessions
  PROVE  \A m : m \in Flight(s)' <=>
           \/ \E i \in 1..Len(inbox'[s]) : m = inbox'[s][i]
           \/ \E k \in DOMAIN batches' : k[1] = s /\ \E i \in 1..Len(batches'[k]) : m = batches'[k][i]
<1> DEFINE r == inbox'[s]
           b == batches'
<1>1. r \in Seq(Messages) /\ \A k \in DOMAIN b : b[k] \in Seq(Messages)
  <2>1. inbox' \in [Sessions -> Seq(Messages)] /\ batches' \in [DOMAIN batches' -> Seq(Messages)]
    BY DEF TypeOK
  <2> QED  BY <2>1
<1>2. Flight(s)' = FlightOf(r, b, s)
  BY DEF Flight, FlightOf
<1> HIDE DEF r, b
<1>3. \A m : m \in FlightOf(r, b, s) <=>
          \/ \E i \in 1..Len(r) : m = r[i]
          \/ \E k \in DOMAIN b : k[1] = s /\ \E i \in 1..Len(b[k]) : m = b[k][i]
  BY <1>1, FlightElements
<1> QED  BY <1>2, <1>3 DEF r, b

(* Nothing in flight is newer than what the Connector sent last.            *)
LEMMA FlightRecent ==
  ASSUME Types, StreamInv, NEW s \in Sessions, link = s, Live(s), NEW m \in Flight(s)
  PROVE  m.revision <= revision
<1> DEFINE q == inbox[s]
<1>1. q \in Seq(Messages) /\ QueueInv(q) /\ TailInv(s)
  BY DEF StreamInv, Types, TypeOK
<1>2. \/ \E i \in 1..Len(q) : m = q[i]
      \/ \E k \in DOMAIN batches : k[1] = s /\ \E i \in 1..Len(batches[k]) : m = batches[k][i]
  BY InFlight
<1>3. q # <<>> => /\ \A i \in 1..Len(q) : q[i].revision <= revision
                  /\ 1 \in 1..Len(q)
  <2> HAVE q # <<>>
  <2>1. q[Len(q)].revision = revision
    BY <1>1 DEF TailInv
  <2> QED  BY <1>1, <2>1, LastHighest
<1>4. CASE \E i \in 1..Len(q) : m = q[i]
  <2>1. q # <<>>
    BY <1>4
  <2> QED  BY <1>3, <1>4, <2>1
<1>5. CASE \E k \in DOMAIN batches : k[1] = s /\ \E i \in 1..Len(batches[k]) : m = batches[k][i]
  <2>1. PICK k \in DOMAIN batches : k[1] = s /\ \E i \in 1..Len(batches[k]) : m = batches[k][i]
    BY <1>5
  <2>2. q # <<>>
    BY <1>1, <2>1 DEF TailInv
  <2>3. PartInv(k)
    BY <2>1 DEF StreamInv
  <2>4. SameMessage(batches[k][1], q[1]) /\ SameMessage(batches[k][1], m)
    BY <2>1, <2>2, <2>3 DEF PartInv
  <2> QED  BY <1>3, <2>2, <2>4 DEF SameMessage
<1> QED  BY <1>2, <1>4, <1>5

(* What a step leaves of a session leaves what it has in flight.            *)
LEMMA FlightFrame ==
  ASSUME NEW s, inbox'[s] = inbox[s],
         \A k \in DOMAIN batches' : k[1] = s => k \in DOMAIN batches /\ batches'[k] = batches[k],
         \A k \in DOMAIN batches : k[1] = s => k \in DOMAIN batches'
  PROVE  Flight(s)' = Flight(s)
<1> DEFINE H == {k \in DOMAIN batches : k[1] = s}
           G == {k \in DOMAIN batches' : k[1] = s}
<1>1. H = G /\ \A k \in H : batches'[k] = batches[k]
  OBVIOUS
<1>2. {Range(batches[k]) : k \in H} = {Range(batches'[k]) : k \in G}
  BY <1>1
<1> QED  BY <1>2 DEF Flight, FlightOf

(* Gathering a batch moves it from the websocket to the gathered ones.      *)
LEMMA ReceiveFlight ==
  ASSUME Types, StreamInv, NEW s \in Sessions, ReceiveBatch(s), TypeOK'
  PROVE  Flight(s)' = Flight(s)
<1> DEFINE q == inbox[s]
           m == Head(q)
           g == Gathered(s, m)
           p == Prior(s, m)
           t == Tail(q)
<1>1. Received(s)
  BY DEF ReceiveBatch
<1>2. /\ m = q[1] /\ g = Append(p, m)
      /\ \A k \in DOMAIN batches : k[1] = s => k = Key(s, m)
  BY <1>1, HeadFacts
<1>3. q \in Seq(Messages) /\ Len(q) > 0 /\ m \in Messages /\ p \in Seq(Messages)
  BY <1>1, GatheredTypes DEF Types
<1>4. /\ inbox' = [inbox EXCEPT ![s] = t]
      /\ batches' = [k \in Kept(s, m) \cup {Key(s, m)} |-> IF k = Key(s, m) THEN g ELSE batches[k]]
  BY DEF ReceiveBatch
<1>5. inbox \in [Sessions -> Seq(Messages)]
  BY DEF Types, TypeOK
<1>6. p = IF Key(s, m) \in DOMAIN batches THEN batches[Key(s, m)] ELSE <<>>
  BY DEF Prior
<1>7. Len(t) = Len(q) - 1 /\ \A i \in 1..Len(t) : t[i] = q[i + 1]
  BY <1>3
<1>8. Key(s, m)[1] = s /\ \A k \in Kept(s, m) : k[1] = s => k = Key(s, m)
  BY <1>2 DEF Key, Kept
<1> HIDE DEF m, g, p, t
<1>9. Len(g) = Len(p) + 1 /\ g[Len(p) + 1] = m /\ (\A i \in 1..Len(p) : g[i] = p[i]) /\ Len(p) \in Nat
  BY <1>2, <1>3
<1>10. inbox'[s] = t
  BY <1>4, <1>5
<1>11. /\ Key(s, m) \in DOMAIN batches' /\ batches'[Key(s, m)] = g
       /\ \A k \in DOMAIN batches' : k[1] = s => k = Key(s, m)
  BY <1>4, <1>8
<1>12. \A n : n \in Flight(s) <=> (\E i \in 1..Len(q) : n = q[i]) \/ (\E i \in 1..Len(p) : n = p[i])
  <2>1. \A n : (\E k \in DOMAIN batches : k[1] = s /\ \E i \in 1..Len(batches[k]) : n = batches[k][i])
                 <=> \E i \in 1..Len(p) : n = p[i]
    <3>1. CASE Key(s, m) \in DOMAIN batches
      <4>1. p = batches[Key(s, m)]
        BY <3>1, <1>6
      <4>2. ASSUME NEW n
            PROVE  (\E k \in DOMAIN batches : k[1] = s /\ \E i \in 1..Len(batches[k]) : n = batches[k][i])
                     <=> \E i \in 1..Len(p) : n = p[i]
        BY <3>1, <4>1, <1>2, <1>8
      <4> QED  BY <4>2
    <3>2. CASE Key(s, m) \notin DOMAIN batches
      <4>1. p = <<>> /\ \A k \in DOMAIN batches : k[1] # s
        BY <3>2, <1>2, <1>6
      <4> QED  BY <4>1
    <3> QED  BY <3>1, <3>2
  <2>2. ASSUME NEW n
        PROVE  n \in Flight(s) <=> (\E i \in 1..Len(q) : n = q[i]) \/ (\E i \in 1..Len(p) : n = p[i])
    <3>1. n \in Flight(s) <=> \/ \E i \in 1..Len(q) : n = q[i]
                             \/ \E k \in DOMAIN batches : k[1] = s /\ \E i \in 1..Len(batches[k]) : n = batches[k][i]
      BY InFlight
    <3> QED  BY <3>1, <2>1
  <2> QED  BY <2>2
<1>13. \A n : n \in Flight(s)' <=> (\E i \in 1..Len(t) : n = t[i]) \/ (\E i \in 1..Len(g) : n = g[i])
  <2>1. \A n : n \in Flight(s)' <=>
              \/ \E i \in 1..Len(inbox'[s]) : n = inbox'[s][i]
              \/ \E k \in DOMAIN batches' : k[1] = s /\ \E i \in 1..Len(batches'[k]) : n = batches'[k][i]
    BY InFlightNext
  <2>2. ASSUME NEW n
        PROVE  (\E k \in DOMAIN batches' : k[1] = s /\ \E i \in 1..Len(batches'[k]) : n = batches'[k][i])
                 <=> \E i \in 1..Len(g) : n = g[i]
    BY <1>8, <1>11
  <2>3. inbox'[s] = t
    BY <1>10
  <2>4. ASSUME NEW n
        PROVE  n \in Flight(s)' <=> (\E i \in 1..Len(t) : n = t[i]) \/ (\E i \in 1..Len(g) : n = g[i])
    <3>1. n \in Flight(s)' <=> \/ \E i \in 1..Len(t) : n = t[i]
                              \/ \E k \in DOMAIN batches' : k[1] = s /\ \E i \in 1..Len(batches'[k]) : n = batches'[k][i]
      BY <2>1, <2>3
    <3> QED  BY <3>1, <2>2
  <2> QED  BY <2>4
<1>14. \A n : (\E i \in 1..Len(q) : n = q[i]) <=> n = m \/ \E i \in 1..Len(t) : n = t[i]
  <2>1. \A i \in 1..Len(q) : i = 1 \/ (i - 1 \in 1..Len(t) /\ i = (i - 1) + 1)
    BY <1>3, <1>7
  <2>2. \A i \in 1..Len(t) : i + 1 \in 1..Len(q)
    BY <1>3, <1>7
  <2>3. 1 \in 1..Len(q)
    BY <1>3
  <2>4. ASSUME NEW i \in 1..Len(q) PROVE q[i] = m \/ \E j \in 1..Len(t) : q[i] = t[j]
    BY <1>2, <1>7, <2>1
  <2> QED  BY <1>2, <1>7, <2>2, <2>3, <2>4
<1>15. \A n : (\E i \in 1..Len(g) : n = g[i]) <=> n = m \/ \E i \in 1..Len(p) : n = p[i]
  <2>1. \A i \in 1..Len(g) : i = Len(p) + 1 \/ i \in 1..Len(p)
    BY <1>9
  <2>2. Len(p) + 1 \in 1..Len(g) /\ \A i \in 1..Len(p) : i \in 1..Len(g)
    BY <1>9
  <2> QED  BY <1>9, <2>1, <2>2
<1>16. \A n : n \in Flight(s)' <=> n \in Flight(s)
  BY <1>12, <1>13, <1>14, <1>15
<1> QED  BY <1>16

(* Taking a message takes all its batches, the oldest in flight.            *)
LEMMA AcceptFlight ==
  ASSUME Types, StreamInv, NEW s \in Sessions, NEW kind, Accept(s, kind), TypeOK'
  PROVE  LET m == Head(inbox[s])
             G == Range(Gathered(s, m)) IN
         /\ m \in G /\ m.kind = kind /\ m \in Flight(s)
         /\ \A n \in G : n \in Flight(s) /\ n.revision = m.revision /\ n.kind = kind
         /\ \A n \in Flight(s) : n \in G \/ n \in Flight(s)'
         /\ \A n \in Flight(s)' : n \in Flight(s) /\ m.revision < n.revision
<1> DEFINE q == inbox[s]
           m == Head(q)
           g == Gathered(s, m)
           p == Prior(s, m)
           t == Tail(q)
           D == Kept(s, m) \ {Key(s, m)}
<1>1. Received(s) /\ Complete(s, m) /\ m.kind = kind
  BY DEF Accept
<1>2. /\ m = q[1] /\ m.index < m.count /\ Len(g) = m.index + 1 /\ g = Append(p, m)
      /\ \A k \in DOMAIN batches : k[1] = s => k = Key(s, m)
      /\ \A i \in 1..Len(g) : SameMessage(m, g[i])
  BY <1>1, HeadFacts
<1>3. q \in Seq(Messages) /\ Len(q) > 0 /\ m \in Messages /\ p \in Seq(Messages)
  BY <1>1, GatheredTypes DEF Types
<1>4. phase[s] = "receiving" /\ q # <<>> /\ QueueInv(q)
  BY <1>1 DEF Received, StreamInv, Live
<1>5. inbox' = [inbox EXCEPT ![s] = t] /\ batches' = [k \in D |-> batches[k]]
  BY DEF Accept, Restrict
<1>6. m.index + 1 = m.count /\ m.revision \in Nat /\ m.index \in Nat
  BY <1>1, <1>2, <1>3, MessageFields DEF Complete
<1>7. Len(t) = Len(q) - 1 /\ \A i \in 1..Len(t) : t[i] = q[i + 1]
  BY <1>3
<1>8. \A k \in D : k[1] # s
  BY <1>2 DEF Kept
<1>9. inbox \in [Sessions -> Seq(Messages)]
  BY DEF Types, TypeOK
<1>10. p = IF Key(s, m) \in DOMAIN batches THEN batches[Key(s, m)] ELSE <<>>
  BY DEF Prior
<1>11. Key(s, m)[1] = s
  BY DEF Key
<1> HIDE DEF m, g, p, t, D
<1>12. Len(g) = Len(p) + 1 /\ g[Len(p) + 1] = m /\ (\A i \in 1..Len(p) : g[i] = p[i]) /\ Len(p) \in Nat
       /\ DOMAIN g = 1..Len(g)
  BY <1>2, <1>3
<1>13. \A n : n \in Range(g) <=> n = m \/ \E i \in 1..Len(p) : n = p[i]
  <2>1. \A i \in 1..Len(g) : i = Len(p) + 1 \/ i \in 1..Len(p)
    BY <1>12
  <2>2. Len(p) + 1 \in 1..Len(g) /\ \A i \in 1..Len(p) : i \in 1..Len(g)
    BY <1>12
  <2>3. \A n : n \in Range(g) <=> \E i \in 1..Len(g) : n = g[i]
    BY <1>12 DEF Range
  <2> QED  BY <1>12, <2>1, <2>2, <2>3
<1>14. ASSUME NEW n
       PROVE  (\E k \in DOMAIN batches : k[1] = s /\ \E i \in 1..Len(batches[k]) : n = batches[k][i])
                <=> \E i \in 1..Len(p) : n = p[i]
  <2>1. CASE Key(s, m) \in DOMAIN batches
    <3>1. p = batches[Key(s, m)]
      BY <2>1, <1>10
    <3> QED  BY <2>1, <3>1, <1>2, <1>11
  <2>2. CASE Key(s, m) \notin DOMAIN batches
    <3>1. p = <<>> /\ \A k \in DOMAIN batches : k[1] # s
      BY <2>2, <1>2, <1>10
    <3> QED  BY <3>1
  <2> QED  BY <2>1, <2>2
<1>15. ASSUME NEW n
       PROVE  n \in Flight(s) <=> (\E i \in 1..Len(q) : n = q[i]) \/ (\E i \in 1..Len(p) : n = p[i])
  <2>1. n \in Flight(s) <=> \/ \E i \in 1..Len(q) : n = q[i]
                            \/ \E k \in DOMAIN batches : k[1] = s /\ \E i \in 1..Len(batches[k]) : n = batches[k][i]
    BY InFlight
  <2> QED  BY <2>1, <1>14
<1>16. ASSUME NEW n
       PROVE  n \in Flight(s)' <=> \E i \in 1..Len(t) : n = t[i]
  <2>1. n \in Flight(s)' <=> \/ \E i \in 1..Len(inbox'[s]) : n = inbox'[s][i]
                             \/ \E k \in DOMAIN batches' : k[1] = s /\ \E i \in 1..Len(batches'[k]) : n = batches'[k][i]
    BY InFlightNext
  <2>2. inbox'[s] = t /\ \A k \in DOMAIN batches' : k[1] # s
    BY <1>5, <1>8, <1>9
  <2> QED  BY <2>1, <2>2
<1>17. ASSUME NEW i \in 1..Len(t)
       PROVE  i + 1 \in 1..Len(q) /\ t[i] = q[i + 1] /\ m.revision < t[i].revision
  <2>1. 1 \in 1..Len(q) /\ i + 1 \in 1..Len(q) /\ t[i] = q[i + 1] /\ 1 < i + 1 /\ i \in Nat \ {0}
    BY <1>3, <1>7
  <2>2. Later(q, 1, i + 1) /\ q[i + 1].index < q[i + 1].count
    BY <1>4, <2>1 DEF QueueInv
  <2>3. q[i + 1] \in Messages
    BY <1>3, <2>1
  <2>4. q[i + 1].index \in Nat
    BY <2>3, MessageFields
  <2>5. CASE SameMessage(q[1], q[i + 1]) /\ q[i + 1].index = q[1].index + ((i + 1) - 1)
    <3>1. q[i + 1].count = m.index + 1 /\ q[i + 1].index = m.index + i
      BY <1>2, <1>6, <2>1, <2>5 DEF SameMessage
    <3> QED  BY <1>6, <2>1, <2>2, <3>1
  <2>6. CASE q[1].revision < q[i + 1].revision
    BY <1>2, <2>1, <2>6
  <2> QED  BY <2>2, <2>5, <2>6 DEF Later
<1>18. ASSUME NEW i \in 1..Len(q) PROVE q[i] = m \/ \E j \in 1..Len(t) : q[i] = t[j]
  <2>1. i = 1 \/ (i - 1 \in 1..Len(t) /\ i = (i - 1) + 1)
    BY <1>3, <1>7
  <2> QED  BY <1>2, <1>7, <2>1
<1>19. m \in Range(g) /\ m \in Flight(s)
  <2>1. 1 \in 1..Len(q)
    BY <1>3
  <2> QED  BY <1>2, <1>13, <1>15, <2>1
<1>20. ASSUME NEW n \in Range(g)
       PROVE  n \in Flight(s) /\ n.revision = m.revision /\ n.kind = kind
  <2>1. n \in Flight(s)
    BY <1>13, <1>15, <1>19
  <2>2. SameMessage(m, n)
    BY <1>2, <1>12 DEF Range
  <2> QED  BY <1>1, <2>1, <2>2 DEF SameMessage
<1>21. ASSUME NEW n \in Flight(s) PROVE n \in Range(g) \/ n \in Flight(s)'
  <2>1. CASE \E i \in 1..Len(q) : n = q[i]
    BY <2>1, <1>13, <1>16, <1>18
  <2>2. CASE \E i \in 1..Len(p) : n = p[i]
    BY <2>2, <1>13
  <2> QED  BY <1>15, <2>1, <2>2
<1>22. ASSUME NEW n \in Flight(s)' PROVE n \in Flight(s) /\ m.revision < n.revision
  <2>1. PICK i \in 1..Len(t) : n = t[i]
    BY <1>16
  <2>2. i + 1 \in 1..Len(q) /\ n = q[i + 1] /\ m.revision < n.revision
    BY <1>17, <2>1
  <2> QED  BY <1>15, <2>2
<1> QED  BY <1>1, <1>19, <1>20, <1>21, <1>22 DEF m, g

(* A send adds the batches of one new message, or nothing.                  *)
LEMMA SendFlight ==
  ASSUME Types, TypeOK', NEW s \in Sessions, NEW new \in Seq(Messages),
         inbox' = [inbox EXCEPT ![s] = inbox[s] \o new], batches' = batches
  PROVE  \A m : m \in Flight(s)' <=> m \in Flight(s) \/ \E i \in 1..Len(new) : m = new[i]
<1> DEFINE q == inbox[s]
           r == q \o new
<1>1. inbox'[s] = r /\ q \in Seq(Messages)
  BY DEF Types, TypeOK
<1>2. /\ Len(r) = Len(q) + Len(new) /\ Len(q) \in Nat /\ Len(new) \in Nat
      /\ \A i \in 1..Len(q) : r[i] = q[i]
      /\ \A i \in 1..Len(new) : r[Len(q) + i] = new[i]
  BY <1>1
<1> HIDE DEF q, r
<1>3. ASSUME NEW m
      PROVE  (\E i \in 1..Len(r) : m = r[i]) <=>
               (\E i \in 1..Len(q) : m = q[i]) \/ (\E i \in 1..Len(new) : m = new[i])
  <2>1. \A i \in 1..Len(r) : i \in 1..Len(q) \/ (i - Len(q) \in 1..Len(new) /\ i = Len(q) + (i - Len(q)))
    BY <1>2
  <2>2. /\ \A i \in 1..Len(q) : i \in 1..Len(r)
        /\ \A i \in 1..Len(new) : Len(q) + i \in 1..Len(r)
    BY <1>2
  <2>3. (\E i \in 1..Len(r) : m = r[i]) => (\E i \in 1..Len(q) : m = q[i]) \/ (\E i \in 1..Len(new) : m = new[i])
    BY <1>2, <2>1
  <2>4. (\E i \in 1..Len(q) : m = q[i]) => \E i \in 1..Len(r) : m = r[i]
    BY <1>2, <2>2
  <2>5. (\E i \in 1..Len(new) : m = new[i]) => \E i \in 1..Len(r) : m = r[i]
    <3> HAVE \E i \in 1..Len(new) : m = new[i]
    <3>1. PICK i \in 1..Len(new) : m = new[i]
      OBVIOUS
    <3>2. Len(q) + i \in 1..Len(r) /\ r[Len(q) + i] = new[i]
      BY <1>2, <2>2
    <3> QED  BY <3>1, <3>2
  <2> QED  BY <2>3, <2>4, <2>5
<1>4. ASSUME NEW m
      PROVE  m \in Flight(s)' <=> m \in Flight(s) \/ \E i \in 1..Len(new) : m = new[i]
  <2>1. m \in Flight(s) <=> \/ \E i \in 1..Len(q) : m = q[i]
                            \/ \E k \in DOMAIN batches : k[1] = s /\ \E i \in 1..Len(batches[k]) : m = batches[k][i]
    BY InFlight DEF q
  <2>2. m \in Flight(s)' <=> \/ \E i \in 1..Len(inbox'[s]) : m = inbox'[s][i]
                             \/ \E k \in DOMAIN batches' : k[1] = s /\ \E i \in 1..Len(batches'[k]) : m = batches'[k][i]
    BY InFlightNext
  <2>3. m \in Flight(s)' <=> \/ \E i \in 1..Len(r) : m = r[i]
                             \/ \E k \in DOMAIN batches : k[1] = s /\ \E i \in 1..Len(batches[k]) : m = batches[k][i]
    BY <1>1, <2>2
  <2> QED  BY <1>3, <2>1, <2>3
<1> QED  BY <1>4

(* A message newer than all in flight has the last word on what it names,   *)
(* and, if it is a full inventory, on what it does not name.                *)
LEMMA NewMessage ==
  ASSUME NEW F \in SUBSET Messages, NEW H, NEW new, NEW kind \in {"full", "state"}, NEW next \in Nat,
         NEW items, Batches(new, kind, next, items),
         \A m : m \in H <=> m \in F \/ \E i \in 1..Len(new) : m = new[i],
         \A m \in F : m.revision < next
  PROVE  /\ \A e \in DOMAIN items : LastWord(Words(H, e), e, items[e])
         /\ kind = "full" => \A e : e \notin DOMAIN items => LastWord(Words(H, e), e, Absent)
         /\ Agree(F) => Agree(H)
         /\ kind = "state" => ((\E m \in H : m.kind = "full") => \E m \in F : m.kind = "full")
<1>1. \A i \in 1..Len(new) :
         /\ new[i].kind = kind /\ new[i].revision = next
         /\ DOMAIN new[i].items \subseteq DOMAIN items
         /\ \A e \in DOMAIN new[i].items : new[i].items[e] = items[e]
  BY DEF Batches
<1>2. \A e \in DOMAIN items : \E i \in 1..Len(new) : e \in DOMAIN new[i].items
  BY DEF Batches
<1>3. 1 \in 1..Len(new)
  <2>1. Len(new) \in {1, 2}
    BY DEF Batches
  <2> QED  BY <2>1
<1> DEFINE N == {new[i] : i \in 1..Len(new)}
<1>4. \A m : m \in N <=> \E i \in 1..Len(new) : m = new[i]
  OBVIOUS
<1>5. /\ \A m : m \in H <=> m \in F \/ m \in N
      /\ \A m \in N : /\ m.kind = kind /\ m.revision = next
                      /\ DOMAIN m.items \subseteq DOMAIN items
                      /\ \A e \in DOMAIN m.items : m.items[e] = items[e]
  BY <1>1, <1>4
<1>6. \A e \in DOMAIN items : \E m \in N : e \in DOMAIN m.items
  BY <1>2, <1>4
<1>7. new[1] \in N
  BY <1>3
<1> HIDE DEF N
<1>8. \A m \in F : m.revision \in Nat
  BY MessageFields
<1>9. \A m \in H : m.revision <= next /\ (m.revision = next => m \in N)
  BY <1>5, <1>8
<1>10. ASSUME NEW e \in DOMAIN items PROVE LastWord(Words(H, e), e, items[e])
  <2>1. PICK m \in N : e \in DOMAIN m.items
    BY <1>6
  <2>2. m \in Words(H, e) /\ m.revision = next /\ m.items[e] = items[e]
    BY <1>5, <2>1 DEF Words
  <2>3. \A n \in Words(H, e) : n.revision <= m.revision
    BY <1>9, <2>2 DEF Words
  <2> QED  BY <2>1, <2>2, <2>3 DEF LastWord
<1>11. ASSUME kind = "full", NEW e, e \notin DOMAIN items PROVE LastWord(Words(H, e), e, Absent)
  <2> DEFINE m == new[1]
  <2>1. m \in Words(H, e) /\ m.revision = next /\ e \notin DOMAIN m.items
    BY <1>5, <1>7, <1>11 DEF Words
  <2>2. \A n \in Words(H, e) : n.revision <= m.revision
    BY <1>9, <2>1 DEF Words
  <2>3. \A n \in Words(H, e) : n.revision = m.revision => e \notin DOMAIN n.items
    BY <1>5, <1>9, <1>11, <2>1 DEF Words
  <2> HIDE DEF m
  <2> QED  BY <2>1, <2>2, <2>3 DEF LastWord
<1>13. ASSUME Agree(F) PROVE Agree(H)
  <2>1. ASSUME NEW m \in H, NEW n \in H, m.revision = n.revision
        PROVE  m.kind = n.kind /\ \A e \in DOMAIN m.items \cap DOMAIN n.items : m.items[e] = n.items[e]
    <3>1. CASE m \in F /\ n \in F
      BY <1>13, <2>1, <3>1 DEF Agree
    <3>2. CASE m \in N /\ n \in N
      BY <1>5, <3>2
    <3>3. ~(m \in F /\ n \in N) /\ ~(m \in N /\ n \in F)
      <4>1. \A x \in F, y \in N : x.revision # y.revision
        BY <1>5, <1>8
      <4> QED  BY <2>1, <4>1
    <3> QED  BY <1>5, <3>1, <3>2, <3>3
  <2> QED  BY <2>1 DEF Agree
<1>14. kind = "state" => ((\E m \in H : m.kind = "full") => \E m \in F : m.kind = "full")
  BY <1>5
<1> QED  BY <1>10, <1>11, <1>13, <1>14

(* Of a session a step leaves alone.                                        *)
LEMMA OthersKeepContent ==
  ASSUME ContentInv, NEW s \in Sessions, Flight(s)' = Flight(s),
         phase'[s] = phase[s], write'[s] = write[s],
         Reliable(s)' => /\ link = s /\ current = s /\ resync # "sleeping" /\ ~missed
                         /\ disturbed => disturbed'
                         /\ cloud' = cloud \/ disturbed'
                         /\ \A e \in Entities :
                              e \notin pending' \/ home'[e] = Absent =>
                                home'[e] = home[e] /\ (e \notin pending \/ home[e] = Absent)
  PROVE  /\ (Live(s) => Agree(Flight(s)))'
         /\ Reliable(s)' =>
              \A e \in Entities : e \notin pending' \/ home'[e] = Absent => Outcome(s, e, home[e])'
<1>1. Live(s)' <=> Live(s)
  BY DEF Live
<1>2. (Live(s) => Agree(Flight(s)))'
  <2>1. Live(s) => Agree(Flight(s))
    BY DEF ContentInv
  <2>2. Agree(Flight(s))' <=> Agree(Flight(s))
    BY DEF Agree
  <2> QED  BY <1>1, <2>1, <2>2
<1>3. ASSUME Reliable(s)', NEW e \in Entities, e \notin pending' \/ home'[e] = Absent
      PROVE  Outcome(s, e, home[e])'
  <2>1. Reliable(s)
    BY <1>1, <1>3 DEF Reliable
  <2>2. home'[e] = home[e] /\ Outcome(s, e, home[e])
    BY <1>3, <2>1 DEF ContentInv
  <2>3. Words(Flight(s), e)' = Words(Flight(s), e)
    BY DEF Words
  <2>4. CASE LastWord(Words(Flight(s), e), e, home[e])
    <3>1. LastWord(Words(Flight(s), e), e, home[e])'
      BY <2>2, <2>3, <2>4 DEF LastWord
    <3> QED  BY <3>1 DEF Outcome
  <2>5. CASE Words(Flight(s), e) = {} /\ home[e] = Stored(s, e)
    <3>1. ~ \E m \in Flight(s) : m.kind = "full"
      BY <2>5 DEF Words
    <3>2. ~disturbed'
      BY <1>3, <3>1 DEF Reliable
    <3>3. cloud' = cloud
      BY <1>3, <3>2
    <3>4. Stored(s, e)' = Stored(s, e)
      BY <3>3 DEF Stored
    <3> QED  BY <2>2, <2>3, <2>5, <3>4 DEF Outcome
  <2> QED  BY <2>2, <2>4, <2>5 DEF Outcome
<1> QED  BY <1>2, <1>3

(* A full inventory of the home starts or repeats what the cloud knows.     *)
LEMMA FullKeepsContent ==
  ASSUME Types, TypeOK', StreamInv, ContentInv, NEW s \in Sessions, NEW next \in Nat,
         Send(s, "full", next, Restrict(home, Exposed)), home' = home,
         UNCHANGED <<batches, phase>>,
         Live(s) => \A m \in Flight(s) : m.revision < next
  PROVE  /\ (Live(s) => Agree(Flight(s)))'
         /\ Reliable(s)' =>
              \A e \in Entities : e \notin pending' \/ home'[e] = Absent => Outcome(s, e, home[e])'
<1>1. (Live(s)' <=> Live(s)) /\ (Reliable(s)' => Live(s)')
  BY DEF Live, Reliable
<1> SUFFICES ASSUME Live(s)
             PROVE  Agree(Flight(s))' /\ \A e \in Entities : Outcome(s, e, home[e])'
  BY <1>1
<1> DEFINE items == Restrict(home, Exposed)
<1>2. /\ items \in ItemSets /\ DOMAIN items = Exposed /\ \A e \in Exposed : items[e] = home[e]
      /\ inbox \in [Sessions -> Seq(Messages)]
  BY HomeItems DEF Types, TypeOK
<1>3. Send(s, "full", next, items)
  OBVIOUS
<1> HIDE DEF items
<1>4. Sent(s, "full", next, items)
  BY <1>2, <1>3, SendFacts DEF Live
<1>5. PICK new : Batches(new, "full", next, items) /\ inbox' = [inbox EXCEPT ![s] = inbox[s] \o new]
  BY <1>4 DEF Sent
<1>6. new \in Seq(Messages)
  BY <1>5 DEF Batches
<1>7. \A m : m \in Flight(s)' <=> m \in Flight(s) \/ \E i \in 1..Len(new) : m = new[i]
  BY <1>5, <1>6, SendFlight
<1>8. Flight(s) \in SUBSET Messages /\ \A m \in Flight(s) : m.revision < next
  BY InFlight
<1>9. PICK F \in SUBSET Messages : F = Flight(s)
  BY <1>8
<1>10. PICK H : H = Flight(s)'
  OBVIOUS
<1>11. /\ \A e \in DOMAIN items : LastWord(Words(H, e), e, items[e])
       /\ \A e : e \notin DOMAIN items => LastWord(Words(H, e), e, Absent)
       /\ Agree(F) => Agree(H)
  <2>1. /\ \A m : m \in H <=> m \in F \/ \E i \in 1..Len(new) : m = new[i]
        /\ \A m \in F : m.revision < next
    BY <1>7, <1>8, <1>9, <1>10
  <2> QED  BY <1>5, <2>1, NewMessage
<1>12. Agree(Flight(s))'
  <2>1. Agree(F)
    BY <1>9 DEF ContentInv
  <2> QED  BY <1>10, <1>11, <2>1 DEF Agree
<1>13. ASSUME NEW e \in Entities PROVE Outcome(s, e, home[e])'
  <2>1. LastWord(Words(H, e), e, home[e])
    BY <1>2, <1>11 DEF Exposed
  <2>2. LastWord(Words(Flight(s), e), e, home[e])'
    BY <1>10, <2>1 DEF LastWord, Words
  <2> QED  BY <2>2 DEF Outcome
<1> QED  BY <1>12, <1>13

(* An update sends the latest states of what was noted and is exposed.      *)
LEMMA FlushKeepsContent ==
  ASSUME Types, TypeOK', StreamInv, ContentInv, NEW s \in Sessions, s = link, FlushStates
  PROVE  /\ (Live(s) => Agree(Flight(s)))'
         /\ Reliable(s)' =>
              \A e \in Entities : e \notin pending' \/ home'[e] = Absent => Outcome(s, e, home[e])'
<1> USE DEF handlerVars, dbVars, history
<1>1. /\ UNCHANGED <<home, link, current, phase, batches, write, cloud, missed, disturbed, resync>>
      /\ pending' = {}
  BY DEF FlushStates
<1>2. CASE pending \cap Exposed = {}
  <2>1. Flight(s)' = Flight(s)
    BY <1>1, <1>2 DEF FlushStates, Flight, FlightOf
  <2>2. \A e \in Entities : e \notin pending \/ home[e] = Absent
    BY <1>2 DEF Exposed
  <2> QED  BY <1>1, <2>1, <2>2, OthersKeepContent DEF Reliable
<1>3. CASE pending \cap Exposed # {}
  <2>1. (Live(s)' <=> Live(s)) /\ (Reliable(s)' => Live(s)')
    BY <1>1 DEF Live, Reliable
  <2> SUFFICES ASSUME Live(s)
               PROVE  /\ Agree(Flight(s))'
                      /\ Reliable(s)' => \A e \in Entities : Outcome(s, e, home[e])'
    BY <2>1
  <2> DEFINE P == pending \cap Exposed
             items == Restrict(home, P)
  <2>2. /\ items \in ItemSets /\ DOMAIN items = P /\ \A e \in P : items[e] = home[e]
        /\ inbox \in [Sessions -> Seq(Messages)] /\ revision \in Nat
    BY HomeItems DEF Types, TypeOK
  <2>3. PICK next \in Nat : next = revision + 1
    BY <2>2
  <2>4. Send(s, "state", next, items)
    BY <1>3, <2>3 DEF FlushStates
  <2>5. \A e \in Entities : e \notin P => e \notin pending \/ home[e] = Absent
    BY DEF Exposed
  <2> HIDE DEF items, P
  <2>6. Sent(s, "state", next, items)
    BY <2>2, <2>4, SendFacts DEF Live
  <2>7. PICK new : Batches(new, "state", next, items) /\ inbox' = [inbox EXCEPT ![s] = inbox[s] \o new]
    BY <2>6 DEF Sent
  <2>8. new \in Seq(Messages)
    BY <2>7 DEF Batches
  <2>9. \A m : m \in Flight(s)' <=> m \in Flight(s) \/ \E i \in 1..Len(new) : m = new[i]
    BY <1>1, <2>7, <2>8, SendFlight
  <2>10. Flight(s) \in SUBSET Messages /\ \A m \in Flight(s) : m.revision < next
    <3>1. ASSUME NEW m \in Flight(s) PROVE m \in Messages /\ m.revision < next
      <4>1. m.revision <= revision /\ m \in Messages
        BY InFlight, FlightRecent
      <4>2. m.revision \in Nat
        BY <4>1, MessageFields
      <4> QED  BY <2>2, <2>3, <4>1, <4>2
    <3> QED  BY <3>1
  <2>11. PICK F \in SUBSET Messages : F = Flight(s)
    BY <2>10
  <2>12. PICK H : H = Flight(s)'
    OBVIOUS
  <2>13. /\ \A e \in DOMAIN items : LastWord(Words(H, e), e, items[e])
         /\ \A e : e \notin DOMAIN items => Words(H, e) = Words(F, e)
         /\ Agree(F) => Agree(H)
         /\ (\E m \in H : m.kind = "full") => \E m \in F : m.kind = "full"
    <3>1. /\ \A m : m \in H <=> m \in F \/ \E i \in 1..Len(new) : m = new[i]
          /\ \A m \in F : m.revision < next
      BY <2>9, <2>10, <2>11, <2>12
    <3>2. Batches(new, "state", next, items) /\ "state" \in {"full", "state"} /\ "state" # "full"
      BY <2>7
    <3>3. \A e \in DOMAIN items : LastWord(Words(H, e), e, items[e])
      BY <3>1, <3>2, NewMessage
    <3>4. \A e : e \notin DOMAIN items => Words(H, e) = Words(F, e)
      <4> TAKE e
      <4> HAVE e \notin DOMAIN items
      <4>1. \A m \in H : m \in F \/ (e \notin DOMAIN m.items /\ m.kind # "full")
        <5>1. \A i \in 1..Len(new) : new[i].kind = "state" /\ DOMAIN new[i].items \subseteq DOMAIN items
          BY <3>2 DEF Batches
        <5> QED  BY <3>1, <5>1
      <4> QED  BY <3>1, <4>1 DEF Words
    <3>5. Agree(F) => Agree(H)
      BY <3>1, <3>2, NewMessage
    <3>6. (\E m \in H : m.kind = "full") => \E m \in F : m.kind = "full"
      BY <3>1, <3>2, NewMessage
    <3> QED  BY <3>3, <3>4, <3>5, <3>6
  <2>14. Agree(Flight(s))'
    <3>1. Agree(F)
      BY <2>11 DEF ContentInv
    <3> QED  BY <2>12, <2>13, <3>1 DEF Agree
  <2>15. ASSUME Reliable(s)', NEW e \in Entities PROVE Outcome(s, e, home[e])'
    <3>1. CASE e \in P
      <4>1. LastWord(Words(H, e), e, home[e])
        BY <2>2, <2>13, <3>1
      <4>2. LastWord(Words(Flight(s), e), e, home[e])'
        BY <1>1, <2>12, <4>1 DEF LastWord, Words
      <4> QED  BY <4>2 DEF Outcome
    <3>2. CASE e \notin P
      <4>1. Reliable(s)
        BY <1>1, <2>11, <2>12, <2>13, <2>15 DEF Reliable
      <4>2. Outcome(s, e, home[e])
        BY <2>5, <3>2, <4>1 DEF ContentInv
      <4>3. Words(Flight(s), e)' = Words(Flight(s), e)
        <5>1. Words(H, e) = Words(F, e)
          BY <2>2, <2>13, <3>2
        <5> QED  BY <5>1, <2>11, <2>12 DEF Words
      <4>4. Stored(s, e)' = Stored(s, e)
        BY <1>1 DEF Stored
      <4>5. LastWord(Words(Flight(s), e), e, home[e])' <=> LastWord(Words(Flight(s), e), e, home[e])
        BY <1>1, <4>3 DEF LastWord
      <4> QED  BY <1>1, <4>2, <4>3, <4>4, <4>5 DEF Outcome
    <3> QED  BY <3>1, <3>2
  <2> QED  BY <2>14, <2>15
<1> QED  BY <1>2, <1>3

(* What gathered batches that agree say of an entity.                       *)
LEMMA ItemsValue ==
  ASSUME NEW g, NEW e \in Entities, NEW F, Agree(F),
         \A n \in Range(g) : n \in F /\ \A p \in Range(g) : n.revision = p.revision
  PROVE  /\ \A n \in Range(g) : e \in DOMAIN n.items => Items(g, Absent)[e] = n.items[e]
         /\ e \notin Named(g) => Items(g, Absent)[e] = Absent
<1>1. ASSUME NEW n \in Range(g), e \in DOMAIN n.items PROVE Items(g, Absent)[e] = n.items[e]
  <2> DEFINE b == CHOOSE b \in Range(g) : e \in DOMAIN b.items
  <2>1. b \in Range(g) /\ e \in DOMAIN b.items
    BY <1>1
  <2>2. Items(g, Absent)[e] = b.items[e]
    BY <1>1 DEF Items
  <2> HIDE DEF b
  <2>3. b.items[e] = n.items[e]
    BY <1>1, <2>1 DEF Agree
  <2> QED  BY <2>2, <2>3
<1>2. ASSUME e \notin Named(g) PROVE Items(g, Absent)[e] = Absent
  <2>1. ~ \E b \in Range(g) : e \in DOMAIN b.items
    BY <1>2 DEF Named
  <2> QED  BY <2>1 DEF Items
<1> QED  BY <1>1, <1>2

(* What a transaction writes makes the rows what the batches say.           *)
LEMMA DifferenceValue ==
  ASSUME NEW new \in [Entities -> Rows], NEW e \in Entities
  PROVE  LET d == Difference(new)[e] IN (IF d # Keep THEN d ELSE cloud[e]) = new[e]
<1>1. new[e] # Keep
  BY SyncAssumption DEF Rows
<1> QED  BY <1>1 DEF Difference

(* The handler begins to apply a message: the outcome stays what it was.    *)
LEMMA BeginKeepsContent ==
  ASSUME Types, TypeOK', StreamInv, ContentInv, NEW s \in Sessions, BeginFull(s) \/ BeginState(s)
  PROVE  /\ (Live(s) => Agree(Flight(s)))'
         /\ Reliable(s)' =>
              \A e \in Entities : e \notin pending' \/ home'[e] = Absent => Outcome(s, e, home[e])'
<1> USE DEF connVars, dbVars, history
<1> DEFINE m == Head(inbox[s])
           g == Gathered(s, m)
           G == Range(g)
<1>1. PICK kind \in {"full", "state"} : Accept(s, kind) /\ (kind = "full" <=> BeginFull(s)) /\ (kind = "state" => BeginState(s))
  <2>1. CASE BeginFull(s)
    BY <2>1 DEF BeginFull
  <2>2. CASE ~BeginFull(s)
    BY <2>2 DEF BeginState
  <2> QED  BY <2>1, <2>2
<1>2. /\ m \in G /\ m.kind = kind /\ m \in Flight(s)
      /\ \A n \in G : n \in Flight(s) /\ n.revision = m.revision /\ n.kind = kind
      /\ \A n \in Flight(s) : n \in G \/ n \in Flight(s)'
      /\ \A n \in Flight(s)' : n \in Flight(s) /\ m.revision < n.revision
  BY <1>1, AcceptFlight
<1>3. /\ phase[s] = "receiving" /\ phase' = [phase EXCEPT ![s] = "applying"]
      /\ UNCHANGED <<home, link, pending, resync, current, cloud, missed>>
  BY DEF BeginFull, BeginState, Accept, Received
<1>4. g \in Seq(Messages)
  BY <1>1, GatheredTypes DEF Types, Accept
<1>5. /\ phase \in [Sessions -> Phases]
      /\ write \in [Sessions -> [Entities -> Rows \cup {Keep}]]
  BY DEF Types, TypeOK
<1>6. Live(s) /\ Agree(Flight(s))
  BY <1>3 DEF Live, ContentInv
<1>7. \A n \in Flight(s) : n.revision \in Nat
  BY InFlight, MessageFields
<1>8. Items(g, Absent) \in [Entities -> Rows] /\ \A e \in Entities : e \in Named(g) <=> \E n \in G : e \in DOMAIN n.items
  <2>1. Absent \in Rows
    BY DEF Rows
  <2> QED  BY <1>4, <2>1, ItemsTypes DEF Named
<1>9. write'[s] = IF kind = "full" THEN Difference(Items(g, Absent)) ELSE Updates(g, Named(g))
  BY <1>1, <1>5 DEF BeginFull, BeginState
<1> HIDE DEF m, g, G
<1>10. PICK F : F = Flight(s)
  OBVIOUS
<1>11. PICK H : H = Flight(s)'
  OBVIOUS
<1>12. (Live(s) => Agree(Flight(s)))'
  <2>1. Agree(H)
    BY <1>2, <1>6, <1>11 DEF Agree
  <2> QED  BY <1>11, <2>1 DEF Agree
<1>13. ASSUME Reliable(s)' PROVE Reliable(s)
  <2>1. ~disturbed \/ \E n \in Flight(s) : n.kind = "full"
    <3>1. CASE kind = "full"
      BY <1>2, <3>1
    <3>2. CASE kind = "state"
      <4>1. disturbed' = disturbed
        BY <1>1, <3>2 DEF BeginState
      <4> QED  BY <1>2, <1>13, <4>1 DEF Reliable
    <3> QED  BY <3>1, <3>2
  <2> QED  BY <1>3, <1>6, <1>13, <2>1 DEF Reliable
<1>14. ASSUME NEW e \in Entities, Outcome(s, e, home[e]) PROVE Outcome(s, e, home[e])'
  <2> DEFINE v == home[e]
             W == Words(F, e)
             X == Words(H, e)
  <2>0. PICK u : u = home[e] /\ u = home'[e]
    BY <1>3
  <2>1. /\ \A n \in X : n \in W /\ m.revision < n.revision
        /\ \A n \in W : n \in X \/ n \in G
    BY <1>2, <1>10, <1>11 DEF Words
  <2>2. (W = {} /\ u = Stored(s, e)) \/ LastWord(W, e, u)
    BY <1>10, <1>14, <2>0 DEF Outcome
  <2>3. Stored(s, e) = cloud[e]
    BY <1>3 DEF Stored
  <2>4. Stored(s, e)' = IF write'[s][e] # Keep THEN write'[s][e] ELSE cloud[e]
    BY <1>3, <1>5 DEF Stored
  <2>5. /\ \A n \in G : e \in DOMAIN n.items => Items(g, Absent)[e] = n.items[e]
        /\ e \notin Named(g) => Items(g, Absent)[e] = Absent
    <3>1. \A n \in G : n \in F /\ \A p \in G : n.revision = p.revision
      BY <1>2, <1>10
    <3> QED  BY <1>6, <1>10, <3>1, ItemsValue DEF G
  <2>6. e \in Named(g) \/ kind = "full" => Stored(s, e)' = Items(g, Absent)[e]
    <3>1. LET d == Difference(Items(g, Absent))[e] IN
          (IF d # Keep THEN d ELSE cloud[e]) = Items(g, Absent)[e]
      BY <1>8, DifferenceValue
    <3>2. e \in Named(g) \/ kind = "full" => write'[s][e] = Difference(Items(g, Absent))[e]
      BY <1>9 DEF Updates
    <3> QED  BY <2>4, <3>1, <3>2
  <2>7. e \notin Named(g) /\ kind = "state" => Stored(s, e)' = cloud[e]
    <3>1. e \notin Named(g) /\ kind = "state" => write'[s][e] = Keep
      BY <1>9 DEF Updates
    <3> QED  BY <2>4, <3>1
  <2> HIDE DEF W, X, v
  <2>8. (X = {} /\ u = Stored(s, e)') \/ LastWord(X, e, u)
    <3>1. CASE W = {} /\ u = Stored(s, e)
      <4>1. X = {}
        BY <2>1, <3>1
      <4>2. m \notin W /\ \A n \in G : n \notin W
        BY <3>1
      <4>3. kind # "full" /\ e \notin Named(g)
        BY <1>2, <1>8, <1>10, <4>2 DEF W, Words
      <4> QED  BY <1>1, <2>3, <2>7, <3>1, <4>1, <4>3
    <3>2. CASE LastWord(W, e, u)
      <4>1. PICK n \in W : /\ \A p \in W : p.revision <= n.revision
                           /\ IF e \in DOMAIN n.items THEN u = n.items[e]
                              ELSE /\ u = Absent
                                   /\ \A p \in W : p.revision = n.revision => e \notin DOMAIN p.items
        BY <3>2 DEF LastWord
      <4>2. n \in Flight(s) /\ m \in Flight(s)
        BY <1>2, <1>10, <4>1 DEF W, Words
      <4>3. CASE n \in X
        BY <2>1, <4>1, <4>3 DEF LastWord
      <4>4. CASE n \in G
        <5>1. n.revision = m.revision /\ n.kind = kind
          BY <1>2, <4>4
        <5>2. X = {}
          <6> SUFFICES ASSUME NEW p \in X PROVE FALSE
            OBVIOUS
          <6>1. p \in W /\ m.revision < p.revision /\ p.revision <= n.revision
            BY <2>1, <4>1
          <6>2. p.revision \in Nat /\ m.revision \in Nat
            BY <1>7, <1>10, <4>2, <6>1 DEF W, Words
          <6> QED  BY <5>1, <6>1, <6>2
        <5>3. CASE e \in DOMAIN n.items
          BY <1>8, <2>5, <2>6, <4>1, <4>4, <5>2, <5>3
        <5>4. CASE e \notin DOMAIN n.items
          <6>1. kind = "full" /\ u = Absent
            BY <4>1, <5>1, <5>4 DEF W, Words
          <6>2. e \notin Named(g)
            <7> SUFFICES ASSUME NEW p \in G, e \in DOMAIN p.items PROVE FALSE
              BY <1>8
            <7>1. p \in W /\ p.revision = n.revision
              BY <1>2, <1>10, <5>1 DEF W, Words
            <7> QED  BY <4>1, <5>4, <7>1
          <6> QED  BY <2>5, <2>6, <5>2, <6>1, <6>2
        <5> QED  BY <5>3, <5>4
      <4> QED  BY <2>1, <4>3, <4>4
    <3> QED  BY <2>2, <3>1, <3>2
  <2>9. Words(Flight(s), e)' = X
    BY <1>11 DEF X, Words
  <2>10. LastWord(X, e, u) <=> LastWord(Words(Flight(s), e), e, home[e])'
    BY <2>0, <2>9 DEF LastWord
  <2> QED  BY <2>0, <2>8, <2>9, <2>10 DEF Outcome
<1>15. ASSUME Reliable(s)', NEW e \in Entities, e \notin pending' \/ home'[e] = Absent
       PROVE  Outcome(s, e, home[e])'
  <2>1. Outcome(s, e, home[e])
    BY <1>3, <1>13, <1>15 DEF ContentInv
  <2> QED  BY <1>14, <2>1
<1> QED  BY <1>12, <1>15

(* The current handler commits: the outcome becomes the table.              *)
LEMMA CommitKeepsContent ==
  ASSUME Types, StreamInv, ContentInv, NEW s \in Sessions, Commit(s)
  PROVE  /\ (Live(s) => Agree(Flight(s)))'
         /\ Reliable(s)' =>
              \A e \in Entities : e \notin pending' \/ home'[e] = Absent => Outcome(s, e, home[e])'
<1> USE DEF connVars
<1>1. /\ phase[s] = "applying" /\ phase' = [phase EXCEPT ![s] = "receiving"]
      /\ UNCHANGED <<home, link, pending, resync, inbox, batches, current, missed>>
      /\ cloud' = [e \in Entities |-> IF write[s][e] = Keep THEN cloud[e] ELSE write[s][e]]
      /\ disturbed' = (disturbed \/ (current # s /\ write[s] # Nothing))
  BY DEF Commit, Persist
<1>2. phase'[s] = "receiving" /\ Live(s)
  <2>1. phase \in [Sessions -> Phases]
    BY DEF Types, TypeOK
  <2> QED  BY <1>1, <2>1 DEF Live
<1>3. Flight(s)' = Flight(s)
  BY <1>1 DEF Flight, FlightOf
<1>4. (Live(s) => Agree(Flight(s)))'
  <2>1. Agree(Flight(s))
    BY <1>2 DEF ContentInv
  <2> QED  BY <1>3, <2>1 DEF Agree
<1>5. ASSUME Reliable(s)' PROVE Reliable(s)
  BY <1>1, <1>2, <1>3, <1>5 DEF Reliable
<1>6. ASSUME NEW e \in Entities PROVE Stored(s, e)' = Stored(s, e)
  BY <1>1, <1>2 DEF Stored
<1>7. ASSUME Reliable(s)', NEW e \in Entities, e \notin pending' \/ home'[e] = Absent
      PROVE  Outcome(s, e, home[e])'
  <2>1. Outcome(s, e, home[e])
    BY <1>1, <1>5, <1>7 DEF ContentInv
  <2>2. Words(Flight(s), e)' = Words(Flight(s), e) /\ Stored(s, e)' = Stored(s, e)
    BY <1>3, <1>6 DEF Words
  <2>3. LastWord(Words(Flight(s), e), e, home[e])' <=> LastWord(Words(Flight(s), e), e, home[e])
    BY <1>1, <2>2 DEF LastWord
  <2> QED  BY <1>1, <2>1, <2>2, <2>3 DEF Outcome
<1> QED  BY <1>4, <1>7

(* A handler that is not alive promises nothing.                            *)
LEMMA DeadKeepsContent ==
  ASSUME NEW s, ~Live(s)'
  PROVE  /\ (Live(s) => Agree(Flight(s)))'
         /\ Reliable(s)' =>
              \A e \in Entities : e \notin pending' \/ home'[e] = Absent => Outcome(s, e, home[e])'
<1>1. ~Reliable(s)'
  BY DEF Reliable
<1> QED  BY <1>1

(* Nor does a connection that is lost; less is in flight.                   *)
LEMMA DisconnectKeepsContent ==
  ASSUME Types, TypeOK', ContentInv, NEW s \in Sessions, Disconnect
  PROVE  /\ (Live(s) => Agree(Flight(s)))'
         /\ Reliable(s)' =>
              \A e \in Entities : e \notin pending' \/ home'[e] = Absent => Outcome(s, e, home[e])'
<1> USE DEF handlerVars, dbVars, history
<1>1. link' = NoSession /\ UNCHANGED <<phase, batches>>
  BY DEF Disconnect
<1>2. ~Reliable(s)'
  BY <1>1, SyncAssumption DEF Reliable
<1>3. /\ Len(inbox'[s]) <= Len(inbox[s]) /\ Len(inbox'[s]) \in Nat /\ Len(inbox[s]) \in Nat
      /\ \A i \in 1..Len(inbox'[s]) : inbox'[s][i] = inbox[s][i]
  <2>1. inbox \in [Sessions -> Seq(Messages)] /\ inbox[s] \in Seq(Messages)
    BY DEF Types, TypeOK
  <2>2. CASE link # s
    <3>1. inbox'[s] = inbox[s]
      BY <2>1, <2>2 DEF Disconnect
    <3> QED  BY <2>1, <3>1
  <2>3. CASE link = s
    <3>1. PICK n \in 0..Len(inbox[s]) : inbox' = [inbox EXCEPT ![s] = SubSeq(@, 1, n)]
      BY <2>3 DEF Disconnect
    <3>2. inbox'[s] = SubSeq(inbox[s], 1, n)
      BY <2>1, <3>1
    <3>3. Len(SubSeq(inbox[s], 1, n)) = n /\ \A i \in 1..n : SubSeq(inbox[s], 1, n)[i] = inbox[s][i]
      BY <2>1
    <3> QED  BY <2>1, <3>2, <3>3
  <2> QED  BY <2>2, <2>3
<1>4. ASSUME NEW m \in Flight(s)' PROVE m \in Flight(s)
  <2>1. \/ \E i \in 1..Len(inbox'[s]) : m = inbox'[s][i]
        \/ \E k \in DOMAIN batches' : k[1] = s /\ \E i \in 1..Len(batches'[k]) : m = batches'[k][i]
    BY <1>4, InFlightNext
  <2>2. CASE \E i \in 1..Len(inbox'[s]) : m = inbox'[s][i]
    <3>1. PICK i \in 1..Len(inbox'[s]) : m = inbox'[s][i]
      BY <2>2
    <3>2. i \in 1..Len(inbox[s]) /\ m = inbox[s][i]
      BY <1>3, <3>1
    <3> QED  BY <3>2, InFlight
  <2>3. CASE \E k \in DOMAIN batches' : k[1] = s /\ \E i \in 1..Len(batches'[k]) : m = batches'[k][i]
    <3>1. \E k \in DOMAIN batches : k[1] = s /\ \E i \in 1..Len(batches[k]) : m = batches[k][i]
      BY <1>1, <2>3
    <3> QED  BY <3>1, InFlight
  <2> QED  BY <2>1, <2>2, <2>3
<1>5. (Live(s) => Agree(Flight(s)))'
  <2>1. Live(s)' => Agree(Flight(s))
    BY <1>1 DEF ContentInv, Live
  <2>2. Agree(Flight(s)) => Agree(Flight(s))'
    BY <1>4 DEF Agree
  <2> QED  BY <2>1, <2>2
<1> QED  BY <1>2, <1>5

(* A commit of another handler is late: it marks the table as disturbed, if *)
(* it writes anything.                                                      *)
LEMMA LateCommit ==
  ASSUME Types, NEW s \in Sessions, Persist(s), current # s
  PROVE  cloud' = cloud \/ disturbed'
<1>1. cloud \in [Entities -> Rows]
  BY DEF Types, TypeOK
<1>2. cloud' = [e \in Entities |-> IF write[s][e] = Keep THEN cloud[e] ELSE write[s][e]]
      /\ disturbed' = (disturbed \/ (current # s /\ write[s] # Nothing))
  BY DEF Persist
<1>3. CASE write[s] = Nothing
  <2>1. cloud' = [e \in Entities |-> cloud[e]]
    BY <1>2, <1>3 DEF Nothing
  <2> QED  BY <1>1, <2>1
<1> QED  BY <1>2, <1>3

(* Every step keeps the content of every session.                           *)
LEMMA NextContent ==
  Types /\ StreamInv /\ ContentInv /\ [Next]_vars => ContentInv'
<1> SUFFICES ASSUME Types, StreamInv, ContentInv, [Next]_vars PROVE ContentInv'  OBVIOUS
<1> DEFINE Preserved(s) ==
             /\ (Live(s) => Agree(Flight(s)))'
             /\ Reliable(s)' =>
                  \A e \in Entities : e \notin pending' \/ home'[e] = Absent => Outcome(s, e, home[e])'
<1> SUFFICES ASSUME NEW s \in Sessions PROVE Preserved(s)
  BY DEF ContentInv
<1>1. TypeOK' /\ Types'
  BY NextTypes DEF Types
<1>2. /\ inbox \in [Sessions -> Seq(Messages)] /\ phase \in [Sessions -> Phases]
      /\ write \in [Sessions -> [Entities -> Rows \cup {Keep}]]
      /\ home \in [Entities -> Rows] /\ revision \in Nat /\ copy \in [Sessions -> Nat]
  BY DEF Types, TypeOK
<1> USE DEF handlerVars, dbVars, history
<1>3. CASE UNCHANGED vars
  <2>1. /\ UNCHANGED <<inbox, batches, phase, write, home, pending, link, current, resync, missed, disturbed, cloud>>
    BY <1>3 DEF vars, connVars
  <2>2. Flight(s)' = Flight(s)
    BY <2>1 DEF Flight, FlightOf
  <2> QED  BY <2>1, <2>2, OthersKeepContent DEF Reliable
<1>4. ASSUME NEW e \in Entities, NEW v \in Rows, StateChanges(e, v) \/ RegistryChanges(e, v)
      PROVE  Preserved(s)
  <2>1. /\ UNCHANGED <<inbox, batches, phase, write, link, current, disturbed, cloud>>
        /\ home' = [home EXCEPT ![e] = v]
    BY <1>4 DEF StateChanges, RegistryChanges, Change
  <2>2. Flight(s)' = Flight(s)
    BY <2>1 DEF Flight, FlightOf
  <2>3. CASE StateChanges(e, v)
    <3>1. link = s => pending' = pending \cup {e}
      BY <2>3, SyncAssumption DEF StateChanges, StateEvent
    <3>2. v # Absent /\ UNCHANGED <<resync, missed>>
      BY <2>3, SyncAssumption DEF StateChanges
    <3>3. link = s => \A f \in Entities : f \notin pending' \/ home'[f] = Absent =>
                        home'[f] = home[f] /\ (f \notin pending \/ home[f] = Absent)
      BY <1>2, <2>1, <3>1, <3>2
    <3>4. Reliable(s)' => link = s /\ current = s /\ resync # "sleeping" /\ ~missed
      BY <2>1, <3>2 DEF Reliable
    <3> QED  BY <2>1, <2>2, <3>3, <3>4, OthersKeepContent
  <2>4. CASE RegistryChanges(e, v)
    <3>1. link = s => resync' = "sleeping" \/ missed'
      <4> HAVE link = s
      <4>1. link # NoSession /\ resync \in Tasks
        BY SyncAssumption DEF Types, TypeOK
      <4> QED  BY <2>4, <4>1 DEF RegistryChanges, RegistryEvent, Tasks
    <3>2. ~Reliable(s)'
      BY <2>1, <3>1 DEF Reliable
    <3> QED  BY <2>1, <2>2, <3>2, OthersKeepContent
  <2> QED  BY <1>4, <2>3, <2>4
<1>5. CASE FlushDone \/ ResyncDone \/ GiveUp
  <2>1. /\ UNCHANGED <<inbox, batches, phase, write, home, pending, link, current, missed, disturbed, cloud>>
        /\ resync' = resync \/ resync = "sending"
    BY <1>5 DEF FlushDone, ResyncDone, GiveUp
  <2>2. Flight(s)' = Flight(s)
    BY <2>1 DEF Flight, FlightOf
  <2> QED  BY <2>1, <2>2, OthersKeepContent DEF Reliable
<1>6. ASSUME NEW t \in Sessions, t # s,
             inbox'[s] = inbox[s], phase'[s] = phase[s], write'[s] = write[s],
             \A k \in DOMAIN batches' : k[1] = s => k \in DOMAIN batches /\ batches'[k] = batches[k],
             \A k \in DOMAIN batches : k[1] = s => k \in DOMAIN batches',
             UNCHANGED <<home, pending, resync, missed>>,
             Reliable(s)' => /\ link = s /\ current = s
                             /\ disturbed => disturbed'
                             /\ cloud' = cloud \/ disturbed'
      PROVE  Preserved(s)
  <2>1. Flight(s)' = Flight(s)
    BY <1>6, FlightFrame
  <2>2. Reliable(s)' => resync # "sleeping" /\ ~missed
    BY <1>6 DEF Reliable
  <2> QED  BY <1>6, <2>1, <2>2, OthersKeepContent
<1>7. CASE FlushStates
  <2>1. PICK t \in Sessions : t = link
    BY <1>7, TaskHasLink DEF FlushStates
  <2>2. CASE t = s
    BY <1>1, <1>7, <2>1, <2>2, FlushKeepsContent
  <2>3. CASE t # s
    <3>1. UNCHANGED <<home, link, batches, phase, write>>
      BY <1>7 DEF FlushStates
    <3>2. inbox'[s] = inbox[s]
      <4>1. CASE pending \cap Exposed = {}
        BY <1>7, <4>1 DEF FlushStates
      <4>2. CASE pending \cap Exposed # {}
        BY <1>2, <1>7, <2>1, <2>3, <4>2 DEF FlushStates, Send
      <4> QED  BY <4>1, <4>2
    <3>3. ~Reliable(s)'
      BY <2>1, <2>3, <3>1 DEF Reliable
    <3>4. Flight(s)' = Flight(s)
      BY <3>1, <3>2 DEF Flight, FlightOf
    <3> QED  BY <3>1, <3>3, <3>4, OthersKeepContent
  <2> QED  BY <2>2, <2>3
<1>8. ASSUME NEW t \in Sessions, NEW next \in Nat, Send(t, "full", next, Restrict(home, Exposed)),
             UNCHANGED <<home, batches, phase, write>>, link' = t,
             Live(t) => \A m \in Flight(t) : m.revision < next
      PROVE  Preserved(s)
  <2>1. CASE t = s
    BY <1>1, <1>8, <2>1, FullKeepsContent
  <2>2. CASE t # s
    <3>1. inbox'[s] = inbox[s]
      BY <1>2, <1>8, <2>2 DEF Send
    <3>2. ~Reliable(s)'
      BY <1>8, <2>2 DEF Reliable
    <3>3. Flight(s)' = Flight(s)
      BY <1>8, <3>1 DEF Flight, FlightOf
    <3> QED  BY <1>8, <3>2, <3>3, OthersKeepContent
  <2> QED  BY <2>1, <2>2
<1>9. CASE Resync
  <2>1. PICK t \in Sessions : t = link
    BY <1>9, TaskHasLink DEF Resync
  <2>2. PICK next \in Nat : next = revision + 1
    BY <1>2
  <2>3. Send(t, "full", next, Restrict(home, Exposed)) /\ UNCHANGED <<home, batches, phase, write>> /\ link' = t
    BY <1>9, <2>1, <2>2 DEF Resync, SendFull
  <2>4. ASSUME Live(t), NEW m \in Flight(t) PROVE m.revision < next
    <3>1. m.revision <= revision /\ m \in Messages
      BY <2>1, <2>4, FlightRecent, InFlight
    <3>2. m.revision \in Nat
      BY <3>1, MessageFields
    <3> QED  BY <1>2, <2>2, <3>1, <3>2
  <2> QED  BY <1>8, <2>3, <2>4
<1>10. ASSUME NEW t \in Sessions, Start(t) PROVE Preserved(s)
  <2>1. PICK next \in Nat : next = copy[t] + 1
    BY <1>2
  <2>2. /\ Send(t, "full", next, Restrict(home, Exposed)) /\ UNCHANGED <<home, batches, phase, write>> /\ link' = t
        /\ dial = t
    BY <1>10, <2>1 DEF Start, SendFull
  <2>3. inbox[t] = <<>> /\ \A k \in DOMAIN batches : k[1] # t
    BY <2>2 DEF Types, LinkInv
  <2>4. ASSUME NEW m \in Flight(t) PROVE FALSE
    <3>1. \/ \E i \in 1..Len(inbox[t]) : m = inbox[t][i]
          \/ \E k \in DOMAIN batches : k[1] = t /\ \E i \in 1..Len(batches[k]) : m = batches[k][i]
      BY <2>4, InFlight
    <3> QED  BY <2>3, <3>1
  <2> QED  BY <1>8, <2>2, <2>4
<1>11. CASE Disconnect
  BY <1>1, <1>11, DisconnectKeepsContent
<1>12. ASSUME NEW t \in Sessions, Connect(t) \/ Register(t) PROVE Preserved(s)
  <2>1. phase[t] \in {"new", "authenticated"} /\ phase'[t] \in {"authenticated", "receiving"} /\ link # t
        /\ phase' = [phase EXCEPT ![t] = phase'[t]]
    BY <1>2, <1>12 DEF Connect, Register, Types, LinkInv
  <2>2. UNCHANGED <<inbox, batches, write, home, pending, link, resync, missed, disturbed, cloud>>
        /\ current' \in {current, t}
    BY <1>12 DEF Connect, Register, connVars
  <2>3. CASE t # s
    <3>1. phase'[s] = phase[s]
      BY <1>2, <1>12, <2>3 DEF Connect, Register
    <3>2. Reliable(s)' => link = s /\ current = s
      BY <2>1, <2>2, <2>3 DEF Reliable
    <3> QED  BY <1>6, <2>2, <2>3, <3>1, <3>2
  <2>4. CASE t = s
    <3>1. ~Reliable(s)'
      BY <2>1, <2>2, <2>4 DEF Reliable
    <3>2. inbox[s] = <<>> /\ \A k \in DOMAIN batches : k[1] # s
      BY <2>1, <2>4 DEF Types, LinkInv, SyncInv, BatchInv
    <3>3. ASSUME NEW m \in Flight(s)' PROVE FALSE
      <4>1. \/ \E i \in 1..Len(inbox'[s]) : m = inbox'[s][i]
            \/ \E k \in DOMAIN batches' : k[1] = s /\ \E i \in 1..Len(batches'[k]) : m = batches'[k][i]
        BY <1>1, <3>3, InFlightNext
      <4> QED  BY <2>2, <3>2, <4>1
    <3>4. Agree(Flight(s))'
      BY <3>3 DEF Agree
    <3> QED  BY <3>1, <3>4
  <2> QED  BY <2>3, <2>4
<1>13. ASSUME NEW t \in Sessions, Fail(t) \/ Refuse(t) \/ Cleanup(t) PROVE Preserved(s)
  <2>1. PICK why : End(t, why)
    BY <1>13 DEF Fail, Refuse, Cleanup
  <2>2. /\ phase' = [phase EXCEPT ![t] = "closed"] /\ inbox' = [inbox EXCEPT ![t] = <<>>]
        /\ current' = (IF current = t THEN NoSession ELSE current)
        /\ batches' = [k \in {h \in DOMAIN batches : h[1] # t} |-> batches[k]]
    BY <2>1 DEF End, Restrict
  <2>3. UNCHANGED <<home, link, pending, resync, missed>>
    BY <1>13 DEF Fail, Refuse, Cleanup, connVars
  <2>4. CASE t = s
    <3>1. ~Live(s)'
      BY <1>2, <2>2, <2>4 DEF Live
    <3> QED  BY <3>1, DeadKeepsContent
  <2>5. CASE t # s
    <3>1. phase'[s] = phase[s] /\ inbox'[s] = inbox[s]
      BY <1>2, <2>2, <2>5
    <3>2. write'[s] = write[s]
      BY <1>2, <1>13, <2>5 DEF Fail, Refuse, Cleanup, Persist
    <3>3. /\ \A k \in DOMAIN batches' : k[1] = s => k \in DOMAIN batches /\ batches'[k] = batches[k]
          /\ \A k \in DOMAIN batches : k[1] = s => k \in DOMAIN batches'
      BY <2>2, <2>5
    <3>4. Reliable(s)' => link = s /\ current = s
      BY <2>2, <2>3, SyncAssumption DEF Reliable
    <3>5. /\ disturbed => disturbed'
          /\ current = s => cloud' = cloud \/ disturbed'
      <4>1. CASE Fail(t) \/ Refuse(t)
        BY <4>1 DEF Fail, Refuse
      <4>2. CASE Cleanup(t)
        BY <2>5, <4>2, LateCommit DEF Cleanup, Persist
      <4> QED  BY <1>13, <4>1, <4>2
    <3> QED  BY <1>6, <2>3, <2>5, <3>1, <3>2, <3>3, <3>4, <3>5
  <2> QED  BY <2>4, <2>5
<1>14. ASSUME NEW t \in Sessions, ReceiveBatch(t) PROVE Preserved(s)
  <2> DEFINE m == Head(inbox[t])
  <2>1. /\ inbox' = [inbox EXCEPT ![t] = Tail(@)]
        /\ batches' = [k \in Kept(t, m) \cup {Key(t, m)} |->
                         IF k = Key(t, m) THEN Gathered(t, m) ELSE batches[k]]
        /\ UNCHANGED <<home, link, pending, resync, current, phase, write, cloud, missed, disturbed>>
    BY <1>14 DEF ReceiveBatch, connVars
  <2>2. Flight(s)' = Flight(s)
    <3>1. CASE t = s
      BY <1>1, <1>14, <3>1, ReceiveFlight
    <3>2. CASE t # s
      <4>1. inbox'[s] = inbox[s]
        BY <1>2, <2>1, <3>2
      <4>2. Key(t, m)[1] = t
        BY DEF Key
      <4>3. /\ \A k \in DOMAIN batches' : k[1] = s => k \in DOMAIN batches /\ batches'[k] = batches[k]
            /\ \A k \in DOMAIN batches : k[1] = s => k \in DOMAIN batches'
        BY <2>1, <3>2, <4>2 DEF Kept
      <4> QED  BY <4>1, <4>3, FlightFrame
    <3> QED  BY <3>1, <3>2
  <2> QED  BY <2>1, <2>2, OthersKeepContent DEF Reliable
<1>15. ASSUME NEW t \in Sessions, BeginFull(t) \/ BeginState(t) \/ RejectState(t) PROVE Preserved(s)
  <2> DEFINE m == Head(inbox[t])
             D == Kept(t, m) \ {Key(t, m)}
  <2>1. PICK kind : Accept(t, kind)
    BY <1>15 DEF BeginFull, BeginState, RejectState
  <2>2. inbox' = [inbox EXCEPT ![t] = Tail(@)] /\ batches' = [k \in D |-> batches[k]] /\ current = t
    BY <2>1 DEF Accept, Restrict, Refusal, Owns
  <2>3. UNCHANGED <<home, link, pending, resync, current, missed>>
    BY <1>15 DEF BeginFull, BeginState, RejectState, connVars
  <2>4. CASE t # s
    <3>1. inbox'[s] = inbox[s]
      BY <1>2, <2>2, <2>4
    <3>2. phase'[s] = phase[s] /\ write'[s] = write[s]
      BY <1>2, <1>15, <2>4 DEF BeginFull, BeginState, RejectState
    <3>3. /\ \A k \in DOMAIN batches' : k[1] = s => k \in DOMAIN batches /\ batches'[k] = batches[k]
          /\ \A k \in DOMAIN batches : k[1] = s => k \in DOMAIN batches'
      <4>1. Key(t, m)[1] = t
        BY DEF Key
      <4> QED  BY <2>2, <2>4, <4>1 DEF Kept
    <3>4. ~Reliable(s)'
      BY <2>2, <2>3, <2>4 DEF Reliable
    <3> QED  BY <1>6, <2>3, <2>4, <3>1, <3>2, <3>3, <3>4
  <2>5. CASE t = s /\ RejectState(t)
    <3>1. ~Live(s)'
      BY <1>2, <2>5 DEF RejectState, Live
    <3> QED  BY <3>1, DeadKeepsContent
  <2>6. CASE t = s /\ (BeginFull(t) \/ BeginState(t))
    BY <1>1, <2>6, BeginKeepsContent
  <2> QED  BY <1>15, <2>4, <2>5, <2>6
<1>16. ASSUME NEW t \in Sessions, Commit(t) PROVE Preserved(s)
  <2>1. CASE t = s
    BY <1>16, <2>1, CommitKeepsContent
  <2>2. CASE t # s
    <3>1. UNCHANGED <<home, link, pending, resync, inbox, current, batches, missed>> /\ Persist(t)
      BY <1>16 DEF Commit, connVars
    <3>2. phase'[s] = phase[s] /\ write'[s] = write[s]
      BY <1>2, <1>16, <2>2 DEF Commit, Persist
    <3>3. /\ disturbed => disturbed'
          /\ current = s => cloud' = cloud \/ disturbed'
      BY <2>2, <3>1, LateCommit DEF Persist
    <3>4. Reliable(s)' => link = s /\ current = s
      BY <3>1 DEF Reliable
    <3> QED  BY <1>6, <2>2, <3>1, <3>2, <3>3, <3>4
  <2> QED  BY <2>1, <2>2
<1> QED
  BY <1>3, <1>4, <1>5, <1>7, <1>9, <1>10, <1>11, <1>12, <1>13, <1>14, <1>15, <1>16 DEF Next

(* Initially no handler is alive.                                           *)
LEMMA InitContent == Init => ContentInv
<1> SUFFICES ASSUME Init PROVE ContentInv  OBVIOUS
<1>1. \A s \in Sessions : ~Live(s) /\ ~Reliable(s)
  BY DEF Init, Live, Reliable
<1> QED  BY <1>1 DEF ContentInv

(* When all is quiet nothing is in flight, and the outcome is the table.    *)
LEMMA QuietContent ==
  ASSUME Types, StreamInv, ContentInv
  PROVE  SyncedWhenQuiet
<1> SUFFICES ASSUME Quiet, pending = {}, ~missed, ~disturbed PROVE cloud = home
  BY DEF SyncedWhenQuiet
<1>1. /\ link \in Sessions /\ current = link /\ phase[link] = "receiving" /\ inbox[link] = <<>> /\ resync = "idle"
      /\ home \in [Entities -> Rows] /\ cloud \in [Entities -> Rows]
  BY DEF Quiet, Types, TypeOK
<1>2. \A k \in DOMAIN batches : k[1] # link
  BY <1>1 DEF StreamInv, TailInv, Live
<1>3. Flight(link) = {}
  <2> SUFFICES ASSUME NEW m \in Flight(link) PROVE FALSE
    OBVIOUS
  <2>1. PICK s \in Sessions : s = link
    BY <1>1
  <2>2. \/ \E i \in 1..Len(inbox[s]) : m = inbox[s][i]
        \/ \E k \in DOMAIN batches : k[1] = s /\ \E i \in 1..Len(batches[k]) : m = batches[k][i]
    BY <2>1, InFlight
  <2> QED  BY <1>1, <1>2, <2>1, <2>2
<1>4. Reliable(link)
  BY <1>1 DEF Reliable, Live
<1>5. ASSUME NEW e \in Entities PROVE cloud[e] = home[e]
  <2>1. Outcome(link, e, home[e])
    BY <1>1, <1>4 DEF ContentInv
  <2>2. Words(Flight(link), e) = {}
    BY <1>3 DEF Words
  <2>3. ~LastWord(Words(Flight(link), e), e, home[e])
    BY <2>2 DEF LastWord
  <2> QED  BY <1>1, <2>1, <2>3 DEF Outcome, Stored
<1> QED  BY <1>1, <1>5

(* SyncedWhenQuiet: once all is quiet the cloud holds the home as it is.    *)
THEOREM SyncedWhenQuietAlways == Spec => []SyncedWhenQuiet
<1>1. Init => Types /\ StreamInv /\ ContentInv
  BY InitTypes, InitStream, InitContent
<1>2. Types /\ StreamInv /\ ContentInv /\ [Next]_vars => (Types /\ StreamInv /\ ContentInv)'
  BY NextTypes, NextStream, NextContent
<1>3. Types /\ StreamInv /\ ContentInv => SyncedWhenQuiet
  BY QuietContent
<1> QED  BY <1>1, <1>2, <1>3, PTL DEF Spec
=============================================================================
