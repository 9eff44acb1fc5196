---------------------------- MODULE AlexaEvents ----------------------------
(***************************************************************************)
(* The events the cloud sends to Alexa (alexa_events.py): change reports of *)
(* a state, reports of endpoints that are new, changed or gone; and what it *)
(* records of them, in reported states and in the delivery ledger, which a  *)
(* Discover directive also writes (alexa_discovery_audit.py).               *)
(*                                                                         *)
(* A run is what follows a commit of the entities: it reads them, then what *)
(* was recorded, sends, and records.  Every database or HTTP call suspends, *)
(* so runs overlap: an update of the Connector, an edit in the portal, a    *)
(* resync and a Discover each have their own database session.              *)
(***************************************************************************)
EXTENDS Naturals, FiniteSets

CONSTANTS
  Endpoints,   \* entities of one installation, for one linked account
  Names,       \* voice names; the representation of an endpoint
  Values,      \* states of an entity
  Workers,     \* handlers that may run at the same time
  Gone,        \* of an entity: deleted or not eligible; of a row: removed_at
  Absent,      \* no row, or never reported
  MaxRuns, MaxFaults    \* bounds

ASSUME EventsAssumption ==
  /\ Gone # Absent /\ {Gone, Absent} \cap (Names \cup Values) = {}
  /\ Endpoints # {} /\ MaxRuns \in Nat /\ MaxFaults \in Nat

Attempts == 3

VARIABLES
  name, value,   \* Entity: its voice name and its state
  authorization, \* AlexaEventAuthorization: none, good, or expired
  ledger,        \* AlexaDiscoveryDelivery
  reported,      \* AlexaReportedState
  alexa, heard,  \* what Alexa has: endpoints with their names, states
  run,           \* the run of each worker
  runs, faults,
  doubt,         \* history: records that may differ from what Alexa has
  acknowledged,  \* history: the names Alexa acknowledged of an endpoint
  settled        \* history: a run completed and nothing changed since

Doubts == Endpoints \X {"name", "state"}

entities == <<name, value>>
records  == <<ledger, reported>>
remote   == <<alexa, heard>>
vars == <<entities, authorization, records, remote, run, runs, faults, doubt,
          acknowledged, settled>>

Published == [Endpoints -> Names \cup {Gone}]
Ledgers   == [Endpoints -> Names \cup {Gone, Absent}]

(* seen: the representations a run read; rows: the ledger it read; before:  *)
(* the state it reports; first: it found none that was reported; updated:   *)
(* the updates were accepted and are not committed; alone: no other run     *)
(* meanwhile; clean: no send failed.                                        *)
Runs ==
  [phase : {"idle", "report", "reporting", "read", "compare", "updating",
            "deleting", "record", "reply"},
   kind : {"changes", "resync", "discover"}, target : Endpoints, seen : Published,
   rows : Ledgers, before : Values \cup {Absent}, first : BOOLEAN,
   attempt : 0..Attempts, updated : BOOLEAN, alone : BOOLEAN, clean : BOOLEAN]

NoRun ==
  [phase |-> "idle", kind |-> "changes", target |-> CHOOSE e \in Endpoints : TRUE,
   seen |-> [e \in Endpoints |-> Gone], rows |-> [e \in Endpoints |-> Absent],
   before |-> Absent, first |-> FALSE, attempt |-> 0, updated |-> FALSE,
   alone |-> FALSE, clean |-> TRUE]

TypeOK ==
  /\ name \in Published /\ value \in [Endpoints -> Values]
  /\ authorization \in {"none", "good", "expired"}
  /\ ledger \in Ledgers /\ reported \in [Endpoints -> Values \cup {Absent}]
  /\ alexa \in Published /\ heard \in [Endpoints -> Values \cup {Absent}]
  /\ run \in [Workers -> Runs]
  /\ runs \in 0..MaxRuns /\ faults \in 0..MaxFaults
  /\ doubt \subseteq Doubts /\ settled \in BOOLEAN
  /\ acknowledged \in [Endpoints -> SUBSET Names]

Init ==
  /\ name = [e \in Endpoints |-> Gone] /\ value \in [Endpoints -> Values]
  /\ \A d, e \in Endpoints : value[d] = value[e]
  /\ authorization = "none"
  /\ ledger = [e \in Endpoints |-> Absent] /\ reported = [e \in Endpoints |-> Absent]
  /\ alexa = [e \in Endpoints |-> Gone] /\ heard = [e \in Endpoints |-> Absent]
  /\ run = [w \in Workers |-> NoRun]
  /\ runs = 0 /\ faults = 0
  /\ doubt = {} /\ acknowledged = [e \in Endpoints |-> {}] /\ settled = FALSE

-----------------------------------------------------------------------------
(* unambiguous_voice_entities: of entities that share a name none is there. *)
Shares(e, names) == \E d \in Endpoints \ {e} : names[d] = names[e] /\ names[e] # Gone
Representation(e) == IF Shares(e, name) THEN Gone ELSE name[e]

Active(w) == run[w].phase # "idle"
Idle == \A w \in Workers : ~Active(w)

Begin(w, kind, phase, e) ==
  /\ runs < MaxRuns /\ runs' = runs + 1
  /\ ~Active(w)
  /\ run' = [v \in Workers |->
       IF v = w THEN [NoRun EXCEPT !.phase = phase, !.kind = kind, !.target = e,
                                   !.alone = Idle]
                ELSE [run[v] EXCEPT !.alone = FALSE]]
  /\ doubt' = IF Idle THEN doubt ELSE Doubts

(* A full inventory or a delta commits, with names and exposure of any kind.*)
HomeChange(w, e, n) ==
  /\ name' = [name EXCEPT ![e] = n]
  /\ Begin(w, "changes", "read", e)
  /\ settled' = FALSE
  /\ UNCHANGED <<value, authorization, records, remote, faults, acknowledged>>

(* apply_state commits.                                                     *)
StateChange(w, e, v) ==
  /\ name[e] # Gone
  /\ value' = [value EXCEPT ![e] = v]
  /\ Begin(w, "changes", "report", e)
  /\ settled' = FALSE
  /\ UNCHANGED <<name, authorization, records, remote, faults, acknowledged>>

(* update_entity_names: the portal refuses a name that is taken.            *)
Edit(w, e, n) ==
  /\ name[e] # Gone /\ n # Gone
  /\ ~Shares(e, [name EXCEPT ![e] = n])
  /\ name' = [name EXCEPT ![e] = n]
  /\ Begin(w, "changes", "read", e)
  /\ settled' = FALSE
  /\ UNCHANGED <<value, authorization, records, remote, faults, acknowledged>>

Resync(w) ==
  /\ Begin(w, "resync", "read", run[w].target)
  /\ UNCHANGED <<entities, authorization, records, remote, faults, acknowledged, settled>>

Discover(w) ==
  /\ Begin(w, "discover", "read", run[w].target)
  /\ UNCHANGED <<entities, authorization, records, remote, faults, acknowledged, settled>>

AcceptGrant ==
  /\ authorization = "none"
  /\ authorization' = "good"
  /\ UNCHANGED <<entities, records, remote, run, runs, faults, doubt, acknowledged, settled>>

Fault == faults < MaxFaults /\ faults' = faults + 1

Expire ==
  /\ authorization = "good" /\ Fault
  /\ authorization' = "expired"
  /\ UNCHANGED <<entities, records, remote, run, runs, doubt, acknowledged, settled>>

-----------------------------------------------------------------------------
(* report_entity                                                            *)
Update(w, r) == run' = [run EXCEPT ![w] = r]
Go(w, phase) == [run[w] EXCEPT !.phase = phase, !.attempt = 0]

(* A value that was reported is not reported again.                         *)
Report(w) ==
  LET e == run[w].target IN
  /\ run[w].phase = "report"
  /\ IF authorization = "none" \/ reported[e] = value[e]
       THEN Update(w, Go(w, "read"))
       ELSE Update(w, [Go(w, "reporting") EXCEPT !.before = value[e],
                                                 !.first = reported[e] = Absent])
  /\ UNCHANGED <<entities, authorization, records, remote, runs, faults, doubt,
                 acknowledged, settled>>

-----------------------------------------------------------------------------
(* reconcile_discovery                                                      *)
ReadEntities(w) ==
  /\ run[w].phase = "read"
  /\ Update(w, [Go(w, "compare") EXCEPT !.seen = [e \in Endpoints |-> Representation(e)]])
  /\ UNCHANGED <<entities, authorization, records, remote, runs, faults, doubt,
                 acknowledged, settled>>

(* Mutant: an endpoint that was removed is not published again.             *)
NewOrChanged(r) ==
  {e \in Endpoints : r.seen[e] # Gone /\
     (r.kind = "resync" \/ r.rows[e] \notin {r.seen[e], Gone})}

Updates(r) ==
  {e \in Endpoints : r.seen[e] # Gone /\ (r.kind = "resync" \/ r.rows[e] # r.seen[e])}

Deletions(r) == {e \in Endpoints : r.seen[e] = Gone /\ r.rows[e] \in Names}

(* A run that ends with every report accepted, of what the entities still   *)
(* are, leaves nothing to do.                                               *)
Complete(r) ==
  r.alone /\ r.clean /\ \A e \in Endpoints : r.seen[e] = Representation(e)

Compare(w) ==
  LET r == [run[w] EXCEPT !.rows = ledger] IN
  /\ run[w].phase = "compare"
  /\ Update(w, IF r.kind = "discover" THEN [r EXCEPT !.phase = "record"]
               ELSE IF authorization = "none" THEN NoRun
               ELSE IF Updates(r) # {} THEN [r EXCEPT !.phase = "updating"]
               ELSE IF Deletions(r) # {} THEN [r EXCEPT !.phase = "deleting"]
               ELSE NoRun)
  /\ settled' = (settled \/ (/\ r.kind # "discover" /\ authorization # "none"
                             /\ Updates(r) = {} /\ Deletions(r) = {} /\ Complete(r)))
  /\ UNCHANGED <<entities, authorization, records, remote, runs, faults, doubt, acknowledged>>

(* Mutant: the outcome of the deliveries is not looked at.                  *)
WroteAnyway(r, deleted) ==
  [e \in Endpoints |->
     CASE e \in Updates(r)   -> r.seen[e]
       [] e \in Deletions(r) -> Gone
       [] OTHER              -> ledger[e]]

(* What the run has to write; a column whose value did not change is not    *)
(* written.                                                                 *)
Wrote(r, deleted) ==
  [e \in Endpoints |->
     IF r.updated /\ e \in Updates(r) /\ r.rows[e] # r.seen[e] THEN r.seen[e]
     ELSE IF deleted /\ e \in Deletions(r) THEN Gone ELSE ledger[e]]

(* Another run inserted a row this run is about to insert.                  *)
Conflict(r, kept) ==
  kept /\ \E e \in Updates(r) : r.rows[e] = Absent /\ ledger[e] # Absent

-----------------------------------------------------------------------------
(* _send                                                                    *)
Sending(w) == run[w].phase \in {"reporting", "updating", "deleting"}

Concerned(r) ==
  CASE r.phase = "reporting" -> {r.target}
    [] r.phase = "updating"  -> Updates(r)
    [] OTHER                 -> Deletions(r)

Uncertain(r) == Concerned(r) \X {IF r.phase = "reporting" THEN "state" ELSE "name"}

(* Mutant: the event holds the representations that were recorded.          *)
DeliveredOld(r) ==
  /\ alexa' = [e \in Endpoints |->
       IF r.phase # "reporting" /\ e \in Concerned(r) THEN r.rows[e] ELSE alexa[e]]
  /\ heard' = IF r.phase = "reporting" THEN [heard EXCEPT ![r.target] = r.before] ELSE heard

(* Alexa gets the event.                                                    *)
Delivered(r) ==
  /\ alexa' = [e \in Endpoints |->
       IF r.phase # "reporting" /\ e \in Concerned(r) THEN r.seen[e] ELSE alexa[e]]
  /\ heard' = IF r.phase = "reporting" THEN [heard EXCEPT ![r.target] = r.before] ELSE heard

(* The end of a delivery: the next one, or the record is committed.  A row   *)
(* that another run inserted meanwhile is an error, which ends the run.     *)
Sent(w, success) ==
  LET r    == [run[w] EXCEPT !.updated = @ \/ (run[w].phase = "updating" /\ success),
                             !.clean = @ /\ success]
      gone == r.phase = "deleting" /\ success
      twice == success /\ r.first /\ reported[r.target] # Absent
  IN CASE r.phase = "reporting" ->
            /\ reported' = IF success /\ ~twice THEN [reported EXCEPT ![r.target] = r.before]
                                              ELSE reported
            /\ Update(w, IF twice THEN NoRun
                         ELSE [r EXCEPT !.phase = "read", !.attempt = 0, !.first = FALSE])
            /\ UNCHANGED <<ledger, settled>>
       [] r.phase = "updating" /\ Deletions(r) # {} ->
            /\ Update(w, [r EXCEPT !.phase = "deleting", !.attempt = 0])
            /\ UNCHANGED <<records, settled>>
       [] OTHER ->
            /\ ledger' = IF Conflict(r, r.updated) THEN ledger ELSE Wrote(r, gone)
            /\ Update(w, NoRun)
            /\ settled' = (settled \/ Complete(r))
            /\ UNCHANGED reported

(* 2xx: the endpoints are certain again if no other run was under way.      *)
Accepted(w) ==
  LET r == run[w] IN
  /\ Sending(w) /\ authorization = "good"
  /\ Delivered(r)
  /\ acknowledged' = [e \in Endpoints |-> acknowledged[e] \cup
       IF r.phase = "updating" /\ e \in Updates(r) THEN {r.seen[e]} \cap Names ELSE {}]
  /\ doubt' = IF r.alone THEN doubt \ Uncertain(r) ELSE doubt
  /\ Sent(w, TRUE)
  /\ UNCHANGED <<entities, authorization, runs, faults>>

(* 4xx: the event is given up.                                              *)
Rejected(w) ==
  /\ Sending(w) /\ authorization = "good" /\ Fault
  /\ Sent(w, FALSE)
  /\ UNCHANGED <<entities, authorization, remote, runs, doubt, acknowledged>>

(* 429, 5xx or no response: it is tried again, three times in all, whether  *)
(* or not Alexa has it.                                                     *)
Unanswered(w, delivered) ==
  LET r == run[w] IN
  /\ Sending(w) /\ authorization = "good" /\ Fault
  /\ IF delivered THEN Delivered(r) /\ doubt' = doubt \cup Uncertain(r)
                  ELSE UNCHANGED <<remote, doubt>>
  /\ IF r.attempt < Attempts - 1
       THEN /\ Update(w, [r EXCEPT !.attempt = @ + 1])
            /\ UNCHANGED <<records, settled>>
       ELSE Sent(w, FALSE)
  /\ UNCHANGED <<entities, authorization, runs, acknowledged>>

(* The token expired, before the first attempt or with a 401, which is an   *)
(* attempt.  A refresh commits the session, and with it what is pending.    *)
Refresh(w, attempt) ==
  LET r == run[w] IN
  /\ Sending(w) /\ authorization = "expired"
  /\ attempt \in {r.attempt + 1} \cup ({0} \cap {r.attempt})
  /\ authorization' = "good"
  /\ IF r.phase = "deleting" /\ Conflict(r, r.updated)
       THEN Update(w, NoRun) /\ UNCHANGED ledger
       ELSE /\ ledger' = IF r.phase = "deleting" THEN Wrote(r, FALSE) ELSE ledger
            /\ Update(w, [r EXCEPT !.attempt = attempt,
                                   !.updated = @ /\ r.phase # "deleting"])
  /\ attempt < Attempts
  /\ UNCHANGED <<entities, reported, remote, runs, faults, doubt, acknowledged, settled>>

(* The refresh fails, or there is no attempt left after it.                 *)
RefreshFailed(w) ==
  /\ Sending(w) /\ authorization = "expired"
  /\ Sent(w, FALSE)
  /\ UNCHANGED <<entities, authorization, remote, runs, faults, doubt, acknowledged>>

-----------------------------------------------------------------------------
(* The end of a Discover directive: the response is recorded, then returned *)
Record(w) ==
  LET r == run[w]
      conflict == \E e \in Endpoints : r.seen[e] # Gone /\ r.rows[e] = Absent
                                       /\ ledger[e] # Absent
  IN
  /\ r.phase = "record"
  /\ ledger' = IF conflict THEN ledger ELSE
       [e \in Endpoints |->
          CASE r.seen[e] # Gone /\ r.rows[e] # r.seen[e] -> r.seen[e]
            [] r.seen[e] = Gone /\ r.rows[e] \in Names    -> Gone
            [] OTHER                                      -> ledger[e]]
  /\ acknowledged' = [e \in Endpoints |-> acknowledged[e] \cup ({r.seen[e]} \cap Names)]
  /\ Update(w, [r EXCEPT !.phase = "reply"])
  /\ UNCHANGED <<entities, authorization, reported, remote, runs, faults, doubt, settled>>

Reply(w) ==
  LET r == run[w] IN
  /\ r.phase = "reply"
  /\ alexa' = r.seen
  /\ doubt' = IF r.alone THEN doubt \ (Endpoints \X {"name"}) ELSE doubt
  /\ settled' = (settled \/ Complete(r))
  /\ Update(w, NoRun)
  /\ UNCHANGED <<entities, authorization, records, heard, runs, faults, acknowledged>>

(* The Lambda gave up.                                                      *)
ReplyLost(w) ==
  /\ run[w].phase = "reply" /\ Fault
  /\ doubt' = Doubts
  /\ Update(w, NoRun)
  /\ UNCHANGED <<entities, authorization, records, remote, runs, acknowledged, settled>>

(* The process restarts: what was sent is not recorded.                     *)
Crash ==
  /\ Fault /\ ~Idle
  /\ run' = [w \in Workers |-> NoRun]
  /\ doubt' = Doubts
  /\ UNCHANGED <<entities, authorization, records, remote, runs, acknowledged, settled>>

-----------------------------------------------------------------------------
Start(w) ==
  \/ \E e \in Endpoints, n \in Names \cup {Gone} : HomeChange(w, e, n) \/ Edit(w, e, n)
  \/ \E e \in Endpoints, v \in Values : StateChange(w, e, v)
  \/ Resync(w) \/ Discover(w)

Step(w) ==
  \/ Report(w) \/ ReadEntities(w) \/ Compare(w)
  \/ Accepted(w) \/ Rejected(w) \/ (\E d \in BOOLEAN : Unanswered(w, d))
  \/ (\E n \in 0..Attempts : Refresh(w, n)) \/ RefreshFailed(w)
  \/ Record(w) \/ Reply(w) \/ ReplyLost(w)

Next ==
  \/ \E w \in Workers : Start(w) \/ Step(w)
  \/ AcceptGrant \/ Expire \/ Crash

Spec == Init /\ [][Next]_vars

-----------------------------------------------------------------------------
(* The records are what Alexa has.  They differ only where two runs         *)
(* overlapped, where an answer was lost, or where the process stopped       *)
(* between a delivery and its commit; an accepted report, or a Discover,    *)
(* that no other run met makes them agree again.                            *)
Row(e) == IF ledger[e] = Absent THEN Gone ELSE ledger[e]

LedgerTrue ==
  Idle => \A e \in Endpoints :
    /\ <<e, "name">> \in doubt \/ Row(e) = alexa[e]
    /\ <<e, "state">> \in doubt \/ reported[e] = heard[e]

(* Overlaps, crashes and lost answers included, nothing is recorded as      *)
(* published that Alexa did not acknowledge, but for what the answer to a   *)
(* Discover holds (alexa_events.py:333-378, alexa_discovery_audit.py:89-128): *)
(* that one is recorded before it is sent.                                  *)
OnlyAcknowledged ==
  \A e \in Endpoints : ledger[e] \in Names => ledger[e] \in acknowledged[e]

(* After a run in which every report was accepted, and until something      *)
(* changes, Alexa has exactly the endpoints that are exposed under a name   *)
(* of their own.                                                            *)
Reconciled ==
  settled /\ Idle => \A e \in Endpoints :
    <<e, "name">> \in doubt \/ alexa[e] = Representation(e)
=============================================================================
