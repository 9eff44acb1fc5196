-------------------------- MODULE AlexaEventsProofs --------------------------
(* Proofs about AlexaEvents, for any number of endpoints, names and handlers *)
(* and any number of runs and faults.                                       *)
EXTENDS AlexaEvents, TLAPS

(* The updates of a run that are accepted and not committed.                *)
Pending ==
  \A w \in Workers : run[w].updated =>
    /\ run[w].phase = "deleting"
    /\ \A e \in Updates(run[w]) : run[w].seen[e] \in acknowledged[e]

IInv == TypeOK /\ OnlyAcknowledged /\ Pending

-----------------------------------------------------------------------------
(* Operators                                                                *)

(* What a run has to write is the ledger, but for its own endpoints.        *)
LEMMA WroteOK ==
  ASSUME NEW r \in Runs, NEW deleted \in BOOLEAN, ledger \in Ledgers
  PROVE  /\ Wrote(r, deleted) \in Ledgers
         /\ \A e \in Endpoints : Wrote(r, deleted)[e] \in Names =>
              \/ Wrote(r, deleted)[e] = ledger[e]
              \/ r.updated /\ e \in Updates(r) /\ Wrote(r, deleted)[e] = r.seen[e]
  <1>1. r.seen \in Published  BY DEF Runs
  <1>2. Gone \notin Names  BY EventsAssumption
  <1>. QED  BY <1>1, <1>2 DEF Wrote, Published, Ledgers, Updates

LEMMA RepresentationOK ==
  ASSUME name \in Published
  PROVE  [e \in Endpoints |-> Representation(e)] \in Published
  BY DEF Published, Representation, Shares

(* Changing a run by one of its fields.                                     *)
LEMMA FieldOK ==
  ASSUME NEW r \in Runs
  PROVE  /\ \A p \in {"idle", "report", "reporting", "read", "compare", "updating",
                       "deleting", "record", "reply"} : [r EXCEPT !.phase = p] \in Runs
         /\ \A n \in 0..Attempts : [r EXCEPT !.attempt = n] \in Runs
         /\ \A b \in BOOLEAN : /\ [r EXCEPT !.updated = b] \in Runs
                               /\ [r EXCEPT !.alone = b] \in Runs
                               /\ [r EXCEPT !.clean = b] \in Runs
                               /\ [r EXCEPT !.first = b] \in Runs
         /\ \A rows \in Ledgers : [r EXCEPT !.rows = rows] \in Runs
         /\ \A seen \in Published : [r EXCEPT !.seen = seen] \in Runs
         /\ \A v \in Values \cup {Absent} : [r EXCEPT !.before = v] \in Runs
         /\ \A k \in {"changes", "resync", "discover"} : [r EXCEPT !.kind = k] \in Runs
         /\ \A e \in Endpoints : [r EXCEPT !.target = e] \in Runs
  BY DEF Runs

LEMMA NoRunOK == NoRun \in Runs /\ ~NoRun.updated
  <1>1. (CHOOSE e \in Endpoints : TRUE) \in Endpoints  BY EventsAssumption
  <1>. QED  BY <1>1 DEF NoRun, Runs, Published, Ledgers, Attempts

(* A step of one run that commits nothing: how it keeps the invariant.      *)
LEMMA OneRun ==
  ASSUME TypeOK, Pending, NEW w \in Workers, NEW r \in Runs, Update(w, r),
         r.updated => r.phase = "deleting"
                      /\ \A e \in Updates(r) : r.seen[e] \in acknowledged'[e],
         \A e \in Endpoints : acknowledged[e] \subseteq acknowledged'[e]
  PROVE  run' \in [Workers -> Runs] /\ Pending'
  <1>1. run' = [run EXCEPT ![w] = r] /\ run' \in [Workers -> Runs]
    BY DEF Update, TypeOK
  <1>2. ASSUME NEW v \in Workers, run'[v].updated
        PROVE  /\ run'[v].phase = "deleting"
               /\ \A e \in Updates(run'[v]) : run'[v].seen[e] \in acknowledged'[e]
    <2>1. CASE v = w
      BY <2>1, <1>1, <1>2 DEF TypeOK
    <2>2. CASE v # w
      <3>1. run'[v] = run[v]  BY <2>2, <1>1 DEF TypeOK
      <3>. QED  BY <3>1, <1>2 DEF Pending, Updates
    <2>. QED  BY <2>1, <2>2
  <1>3. Pending'  BY <1>2 DEF Pending, Updates
  <1>. QED  BY <1>1, <1>3

-----------------------------------------------------------------------------
(* The beginning of a run                                                   *)

LEMMA BeginOK ==
  ASSUME TypeOK, Pending, acknowledged' = acknowledged,
         NEW w \in Workers, NEW kind \in {"changes", "resync", "discover"},
         NEW phase \in {"report", "read"}, NEW e \in Endpoints,
         Begin(w, kind, phase, e)
  PROVE  run' \in [Workers -> Runs] /\ Pending' /\ runs' \in 0..MaxRuns /\ doubt' \subseteq Doubts
  <1> DEFINE new == [NoRun EXCEPT !.phase = phase, !.kind = kind, !.target = e, !.alone = Idle]
  <1>1. new \in Runs /\ ~new.updated
    <2>1. Idle \in BOOLEAN  BY DEF Idle
    <2>2. [NoRun EXCEPT !.phase = phase] \in Runs  BY NoRunOK, FieldOK
    <2>3. [NoRun EXCEPT !.phase = phase, !.kind = kind] \in Runs  BY <2>2, FieldOK
    <2>4. [NoRun EXCEPT !.phase = phase, !.kind = kind, !.target = e] \in Runs
      BY <2>3, FieldOK
    <2>5. new \in Runs  BY <2>4, <2>1, FieldOK
    <2>. QED  BY <2>5 DEF NoRun
  <1>2. ASSUME NEW v \in Workers, v # w
        PROVE  /\ run'[v] = [run[v] EXCEPT !.alone = FALSE] /\ run'[v] \in Runs
               /\ run'[v].phase = run[v].phase /\ run'[v].updated = run[v].updated
               /\ run'[v].seen = run[v].seen /\ Updates(run'[v]) = Updates(run[v])
    <2>1. run[v] \in Runs  BY DEF TypeOK
    <2>2. run'[v] = [run[v] EXCEPT !.alone = FALSE]  BY <1>2 DEF Begin
    <2>3. run'[v] \in Runs  BY <2>1, <2>2, FieldOK
    <2>4. /\ run'[v].phase = run[v].phase /\ run'[v].updated = run[v].updated
          /\ run'[v].seen = run[v].seen /\ run'[v].rows = run[v].rows
          /\ run'[v].kind = run[v].kind
      BY <2>1, <2>2 DEF Runs
    <2>. QED  BY <2>2, <2>3, <2>4 DEF Updates
  <1>3. run'[w] = new  BY DEF Begin
  <1>4. run' \in [Workers -> Runs]
    <2>1. \A v \in Workers : run'[v] \in Runs  BY <1>1, <1>2, <1>3
    <2>2. run' = [v \in Workers |-> run'[v]]  BY DEF Begin
    <2>. QED  BY <2>1, <2>2
  <1>5. ASSUME NEW v \in Workers, run'[v].updated
        PROVE  /\ run'[v].phase = "deleting"
               /\ \A d \in Updates(run'[v]) : run'[v].seen[d] \in acknowledged'[d]
    <2>1. v # w  BY <1>1, <1>3, <1>5
    <2>. QED  BY <2>1, <1>2, <1>5 DEF Pending
  <1>6. runs' \in 0..MaxRuns  BY EventsAssumption DEF Begin, TypeOK
  <1>7. doubt' \subseteq Doubts  BY DEF Begin, TypeOK
  <1>8. Pending'  BY <1>5 DEF Pending, Updates
  <1>. QED  BY <1>4, <1>6, <1>7, <1>8

LEMMA StartOK ==
  ASSUME IInv, NEW w \in Workers, Start(w)
  PROVE  IInv'
  <1> USE DEF IInv
  <1>0. run[w].target \in Endpoints  BY DEF TypeOK, Runs
  <1>1. CASE \E e \in Endpoints, n \in Names \cup {Gone} : HomeChange(w, e, n)
    <2> PICK e \in Endpoints, n \in Names \cup {Gone} : HomeChange(w, e, n)  BY <1>1
    <2>1. name' \in Published  BY DEF HomeChange, TypeOK, Published
    <2>2. run' \in [Workers -> Runs] /\ Pending' /\ runs' \in 0..MaxRuns /\ doubt' \subseteq Doubts
      BY BeginOK DEF HomeChange
    <2>. QED  BY <2>1, <2>2 DEF HomeChange, TypeOK, OnlyAcknowledged, records, remote
  <1>2. CASE \E e \in Endpoints, n \in Names \cup {Gone} : Edit(w, e, n)
    <2> PICK e \in Endpoints, n \in Names \cup {Gone} : Edit(w, e, n)  BY <1>2
    <2>1. name' \in Published  BY DEF Edit, TypeOK, Published
    <2>2. run' \in [Workers -> Runs] /\ Pending' /\ runs' \in 0..MaxRuns /\ doubt' \subseteq Doubts
      BY BeginOK DEF Edit
    <2>. QED  BY <2>1, <2>2 DEF Edit, TypeOK, OnlyAcknowledged, records, remote
  <1>3. CASE \E e \in Endpoints, v \in Values : StateChange(w, e, v)
    <2> PICK e \in Endpoints, v \in Values : StateChange(w, e, v)  BY <1>3
    <2>1. value' \in [Endpoints -> Values]  BY DEF StateChange, TypeOK
    <2>2. run' \in [Workers -> Runs] /\ Pending' /\ runs' \in 0..MaxRuns /\ doubt' \subseteq Doubts
      BY BeginOK DEF StateChange
    <2>. QED  BY <2>1, <2>2 DEF StateChange, TypeOK, OnlyAcknowledged, records, remote
  <1>4. CASE Resync(w)
    <2>1. run' \in [Workers -> Runs] /\ Pending' /\ runs' \in 0..MaxRuns /\ doubt' \subseteq Doubts
      BY <1>0, <1>4, BeginOK DEF Resync
    <2>. QED  BY <2>1, <1>4 DEF Resync, TypeOK, OnlyAcknowledged, records, remote, entities
  <1>5. CASE Discover(w)
    <2>1. run' \in [Workers -> Runs] /\ Pending' /\ runs' \in 0..MaxRuns /\ doubt' \subseteq Doubts
      BY <1>0, <1>5, BeginOK DEF Discover
    <2>. QED  BY <2>1, <1>5 DEF Discover, TypeOK, OnlyAcknowledged, records, remote, entities
  <1>. QED  BY <1>1, <1>2, <1>3, <1>4, <1>5 DEF Start

-----------------------------------------------------------------------------
(* The end of a delivery                                                    *)

LEMMA SentOK ==
  ASSUME IInv, NEW w \in Workers, NEW success \in BOOLEAN, Sending(w), Sent(w, success),
         \A e \in Endpoints : acknowledged[e] \subseteq acknowledged'[e],
         success /\ run[w].phase = "updating" =>
           \A e \in Updates(run[w]) : run[w].seen[e] \in acknowledged'[e]
  PROVE  /\ run' \in [Workers -> Runs] /\ Pending' /\ OnlyAcknowledged'
         /\ ledger' \in Ledgers /\ reported' \in [Endpoints -> Values \cup {Absent}]
         /\ settled' \in BOOLEAN
  <1> DEFINE r == [run[w] EXCEPT !.updated = @ \/ (run[w].phase = "updating" /\ success),
                                 !.clean = @ /\ success]
             gone == r.phase = "deleting" /\ success
             twice == success /\ r.first /\ reported[r.target] # Absent
  <1>1. run[w] \in Runs /\ run[w].updated \in BOOLEAN /\ run[w].clean \in BOOLEAN
    BY DEF IInv, TypeOK, Runs
  <1>2. r \in Runs
    <2>1. [run[w] EXCEPT !.updated = @ \/ (run[w].phase = "updating" /\ success)] \in Runs
      BY <1>1 DEF Runs
    <2>. QED  BY <1>1, <2>1 DEF Runs
  <1>3. /\ r.phase = run[w].phase /\ r.seen = run[w].seen /\ r.rows = run[w].rows
        /\ r.kind = run[w].kind /\ r.target = run[w].target /\ r.before = run[w].before
        /\ r.updated = (run[w].updated \/ (run[w].phase = "updating" /\ success))
    BY <1>1 DEF Runs
  <1>4. Updates(r) = Updates(run[w])  BY <1>3 DEF Updates
  <1>5. r.updated => \A e \in Updates(r) : r.seen[e] \in acknowledged'[e]
    <2>1. CASE run[w].updated
      BY <2>1, <1>3, <1>4 DEF IInv, Pending, Updates
    <2>2. CASE ~run[w].updated
      BY <2>2, <1>3, <1>4
    <2>. QED  BY <2>1, <2>2
  <1>6. r.updated => run[w].phase \in {"updating", "deleting"}
    BY <1>3 DEF IInv, Pending
  <1>7. NoRun \in Runs /\ ~NoRun.updated  BY NoRunOK
  <1>8. OnlyAcknowledged /\ TypeOK /\ Pending  BY DEF IInv
  <1>12. 0 \in 0..Attempts  BY DEF Attempts
  <1> HIDE DEF r
  <1>9. CASE r.phase = "reporting"
    <2> DEFINE next == IF twice THEN NoRun
                       ELSE [r EXCEPT !.phase = "read", !.attempt = 0, !.first = FALSE]
    <2>1. /\ reported' = IF success /\ ~twice THEN [reported EXCEPT ![r.target] = r.before]
                                              ELSE reported
          /\ Update(w, next) /\ ledger' = ledger /\ settled' = settled
      BY <1>9 DEF Sent, r
    <2>2. next \in Runs /\ ~next.updated
      <3>1. [r EXCEPT !.phase = "read", !.attempt = 0, !.first = FALSE] \in Runs
        <4>1. [r EXCEPT !.phase = "read"] \in Runs  BY <1>2, FieldOK
        <4>2. [r EXCEPT !.phase = "read", !.attempt = 0] \in Runs  BY <1>12, <4>1, FieldOK
        <4>. QED  BY <4>2, FieldOK
      <3>2. [r EXCEPT !.phase = "read", !.attempt = 0, !.first = FALSE].updated = r.updated
        BY <1>2 DEF Runs
      <3>3. ~r.updated  BY <1>9, <1>3, <1>6
      <3>. QED  BY <3>1, <3>2, <3>3, <1>7
    <2>3. run' \in [Workers -> Runs] /\ Pending'  BY <1>8, <2>1, <2>2, OneRun
    <2>4. r.target \in Endpoints /\ r.before \in Values \cup {Absent}  BY <1>2 DEF Runs
    <2>5. reported' \in [Endpoints -> Values \cup {Absent}]  BY <1>8, <2>1, <2>4 DEF TypeOK
    <2>. QED  BY <1>8, <2>1, <2>3, <2>5 DEF TypeOK, OnlyAcknowledged
  <1>10. CASE r.phase # "reporting" /\ r.phase = "updating" /\ Deletions(r) # {}
    <2> DEFINE next == [r EXCEPT !.phase = "deleting", !.attempt = 0]
    <2>1. /\ Update(w, next) /\ ledger' = ledger /\ reported' = reported /\ settled' = settled
      BY <1>10 DEF Sent, records, r
    <2>2. next \in Runs
      <3>1. [r EXCEPT !.phase = "deleting"] \in Runs  BY <1>2, FieldOK
      <3>. QED  BY <1>12, <3>1, FieldOK
    <2>3. /\ next.phase = "deleting" /\ next.seen = r.seen /\ next.rows = r.rows
          /\ next.kind = r.kind /\ next.updated = r.updated
      BY <1>2 DEF Runs
    <2>4. Updates(next) = Updates(r)  BY <2>3 DEF Updates
    <2>5. run' \in [Workers -> Runs] /\ Pending'
      BY <1>5, <1>8, <2>1, <2>2, <2>3, <2>4, OneRun
    <2>. QED  BY <1>8, <2>1, <2>5 DEF TypeOK, OnlyAcknowledged
  <1>11. CASE r.phase # "reporting" /\ ~(r.phase = "updating" /\ Deletions(r) # {})
    <2>1. /\ ledger' = (IF Conflict(r, r.updated) THEN ledger ELSE Wrote(r, gone))
          /\ Update(w, NoRun) /\ settled' = (settled \/ Complete(r)) /\ reported' = reported
      BY <1>11 DEF Sent, r
    <2>2. run' \in [Workers -> Runs] /\ Pending'  BY <1>7, <1>8, <2>1, OneRun
    <2>3. ledger \in Ledgers /\ gone \in BOOLEAN  BY <1>8 DEF TypeOK
    <2>4. ledger' \in Ledgers  BY <1>2, <2>1, <2>3, WroteOK
    <2>5. ASSUME NEW e \in Endpoints, ledger'[e] \in Names
          PROVE  ledger'[e] \in acknowledged'[e]
      <3>1. CASE ledger'[e] = ledger[e]
        BY <3>1, <2>5, <1>8 DEF OnlyAcknowledged
      <3>2. CASE ledger'[e] # ledger[e]
        <4>1. r.updated /\ e \in Updates(r) /\ ledger'[e] = r.seen[e]
          BY <3>2, <2>5, <1>2, <2>1, <2>3, WroteOK
        <4>. QED  BY <4>1, <1>5
      <3>. QED  BY <3>1, <3>2
    <2>6. settled' \in BOOLEAN  BY <1>8, <2>1 DEF TypeOK
    <2>. QED  BY <1>8, <2>1, <2>2, <2>4, <2>5, <2>6 DEF TypeOK, OnlyAcknowledged
  <1>. QED  BY <1>9, <1>10, <1>11

-----------------------------------------------------------------------------
(* The steps of a run                                                       *)

LEMMA FaultOK ==
  ASSUME TypeOK, Fault
  PROVE  faults' \in 0..MaxFaults
  BY EventsAssumption DEF TypeOK, Fault

LEMMA UncertainOK ==
  ASSUME NEW r \in Runs
  PROVE  Uncertain(r) \subseteq Doubts
  BY DEF Uncertain, Doubts, Concerned, Runs, Updates, Deletions

LEMMA DeliveredOK ==
  ASSUME TypeOK, NEW r \in Runs, Delivered(r)
  PROVE  alexa' \in Published /\ heard' \in [Endpoints -> Values \cup {Absent}]
  <1>1. /\ r.seen \in Published /\ r.target \in Endpoints
        /\ r.before \in Values \cup {Absent}
    BY DEF Runs
  <1>. QED  BY <1>1 DEF Delivered, TypeOK, Published

LEMMA ReportOK ==
  ASSUME IInv, NEW w \in Workers, Report(w)
  PROVE  IInv'
  <1> USE DEF IInv
  <1>1. /\ run[w] \in Runs /\ run[w].phase = "report" /\ ~run[w].updated
        /\ run[w].target \in Endpoints
    BY DEF Report, TypeOK, Pending, Runs
  <1>2. 0 \in 0..Attempts  BY DEF Attempts
  <1>3. \A p \in {"read", "reporting"} :
          Go(w, p) \in Runs /\ Go(w, p).updated = run[w].updated
    <2> TAKE p \in {"read", "reporting"}
    <2>1. [run[w] EXCEPT !.phase = p] \in Runs  BY <1>1, FieldOK
    <2>2. Go(w, p) \in Runs  BY <1>2, <2>1, FieldOK DEF Go
    <2>3. Go(w, p).updated = run[w].updated  BY <1>1 DEF Go, Runs
    <2>. QED  BY <2>2, <2>3
  <1> DEFINE e == run[w].target
             next == [Go(w, "reporting") EXCEPT !.before = value[e],
                                                !.first = reported[e] = Absent]
  <1>4. next \in Runs /\ ~next.updated
    <2>1. value[e] \in Values  BY <1>1 DEF TypeOK
    <2>2. [Go(w, "reporting") EXCEPT !.before = value[e]] \in Runs
      BY <1>3, <2>1, FieldOK
    <2>3. next \in Runs  BY <2>2, FieldOK
    <2>4. next.updated = Go(w, "reporting").updated  BY <1>3 DEF Runs
    <2>. QED  BY <1>1, <1>3, <2>3, <2>4
  <1>5. run' \in [Workers -> Runs] /\ Pending'
    <2>1. Update(w, Go(w, "read")) \/ Update(w, next)  BY DEF Report
    <2>2. acknowledged' = acknowledged  BY DEF Report
    <2>. QED  BY <1>1, <1>3, <1>4, <2>1, <2>2, OneRun
  <1>. QED  BY <1>5 DEF Report, TypeOK, OnlyAcknowledged, records, remote, entities

LEMMA ReadEntitiesOK ==
  ASSUME IInv, NEW w \in Workers, ReadEntities(w)
  PROVE  IInv'
  <1> USE DEF IInv
  <1>1. run[w] \in Runs /\ run[w].phase = "read" /\ ~run[w].updated
    BY DEF ReadEntities, TypeOK, Pending
  <1>2. 0 \in 0..Attempts  BY DEF Attempts
  <1> DEFINE seen == [e \in Endpoints |-> Representation(e)]
             next == [Go(w, "compare") EXCEPT !.seen = seen]
  <1>3. next \in Runs /\ ~next.updated
    <2>1. [run[w] EXCEPT !.phase = "compare"] \in Runs  BY <1>1, FieldOK
    <2>2. Go(w, "compare") \in Runs  BY <1>2, <2>1, FieldOK DEF Go
    <2>3. seen \in Published  BY RepresentationOK DEF TypeOK
    <2>4. next \in Runs  BY <2>2, <2>3, FieldOK
    <2>5. Go(w, "compare").updated = run[w].updated  BY <1>1 DEF Go, Runs
    <2>6. next.updated = Go(w, "compare").updated  BY <2>2 DEF Runs
    <2>. QED  BY <1>1, <2>4, <2>5, <2>6
  <1>4. run' \in [Workers -> Runs] /\ Pending'
    <2>1. Update(w, next) /\ acknowledged' = acknowledged  BY DEF ReadEntities
    <2>. QED  BY <1>3, <2>1, OneRun
  <1>. QED  BY <1>4 DEF ReadEntities, TypeOK, OnlyAcknowledged, records, remote, entities

LEMMA CompareOK ==
  ASSUME IInv, NEW w \in Workers, Compare(w)
  PROVE  IInv'
  <1> USE DEF IInv
  <1>1. run[w] \in Runs /\ run[w].phase = "compare" /\ ~run[w].updated
    BY DEF Compare, TypeOK, Pending
  <1> DEFINE r == [run[w] EXCEPT !.rows = ledger]
  <1>2. r \in Runs /\ ~r.updated
    <2>1. ledger \in Ledgers  BY DEF TypeOK
    <2>2. r \in Runs  BY <1>1, <2>1, FieldOK
    <2>3. r.updated = run[w].updated  BY <1>1 DEF Runs
    <2>. QED  BY <1>1, <2>2, <2>3
  <1>3. \A p \in {"record", "updating", "deleting"} :
          [r EXCEPT !.phase = p] \in Runs /\ ~[r EXCEPT !.phase = p].updated
    <2> TAKE p \in {"record", "updating", "deleting"}
    <2>1. [r EXCEPT !.phase = p] \in Runs  BY <1>2, FieldOK
    <2>2. [r EXCEPT !.phase = p].updated = r.updated  BY <1>2 DEF Runs
    <2>. QED  BY <1>2, <2>1, <2>2
  <1>4. \E next \in Runs : Update(w, next) /\ ~next.updated
    <2>1. \/ Update(w, [r EXCEPT !.phase = "record"])
          \/ Update(w, [r EXCEPT !.phase = "updating"])
          \/ Update(w, [r EXCEPT !.phase = "deleting"])
          \/ Update(w, NoRun)
      BY DEF Compare
    <2>. QED  BY <1>3, <2>1, NoRunOK
  <1>5. acknowledged' = acknowledged  BY DEF Compare
  <1>6. run' \in [Workers -> Runs] /\ Pending'  BY <1>4, <1>5, OneRun
  <1>7. settled' \in BOOLEAN  BY DEF Compare, TypeOK
  <1>. QED  BY <1>6, <1>7 DEF Compare, TypeOK, OnlyAcknowledged, records, remote, entities

LEMMA AcceptedOK ==
  ASSUME IInv, NEW w \in Workers, Accepted(w)
  PROVE  IInv'
  <1> DEFINE r == run[w]
  <1>1. r \in Runs /\ TypeOK /\ r.seen \in Published  BY DEF IInv, TypeOK, Runs
  <1>2. /\ Sending(w) /\ Delivered(r) /\ Sent(w, TRUE)
        /\ acknowledged' = [e \in Endpoints |-> acknowledged[e] \cup
             IF r.phase = "updating" /\ e \in Updates(r) THEN {r.seen[e]} \cap Names ELSE {}]
        /\ doubt' = IF r.alone THEN doubt \ Uncertain(r) ELSE doubt
        /\ UNCHANGED <<entities, authorization, runs, faults>>
    BY DEF Accepted
  <1>3. acknowledged' \in [Endpoints -> SUBSET Names]  BY <1>1, <1>2 DEF TypeOK
  <1>4. \A e \in Endpoints : acknowledged[e] \subseteq acknowledged'[e]
    BY <1>1, <1>2 DEF TypeOK
  <1>5. r.phase = "updating" => \A e \in Updates(r) : r.seen[e] \in acknowledged'[e]
    BY <1>1, <1>2 DEF Updates, Published, TypeOK
  <1>6. /\ run' \in [Workers -> Runs] /\ Pending' /\ OnlyAcknowledged'
        /\ ledger' \in Ledgers /\ reported' \in [Endpoints -> Values \cup {Absent}]
        /\ settled' \in BOOLEAN
    BY <1>2, <1>4, <1>5, SentOK
  <1>7. alexa' \in Published /\ heard' \in [Endpoints -> Values \cup {Absent}]
    BY <1>1, <1>2, DeliveredOK
  <1>8. doubt' \subseteq Doubts  BY <1>1, <1>2 DEF TypeOK
  <1>. QED  BY <1>1, <1>2, <1>3, <1>6, <1>7, <1>8 DEF IInv, TypeOK, entities

LEMMA FailedOK ==
  ASSUME IInv, NEW w \in Workers, Rejected(w) \/ RefreshFailed(w)
  PROVE  IInv'
  <1>1. TypeOK  BY DEF IInv
  <1>2. /\ Sending(w) /\ Sent(w, FALSE) /\ acknowledged' = acknowledged
        /\ UNCHANGED <<entities, authorization, remote, runs, doubt>>
    BY DEF Rejected, RefreshFailed
  <1>3. faults' \in 0..MaxFaults
    BY <1>1, FaultOK DEF Rejected, RefreshFailed, TypeOK
  <1>4. /\ run' \in [Workers -> Runs] /\ Pending' /\ OnlyAcknowledged'
        /\ ledger' \in Ledgers /\ reported' \in [Endpoints -> Values \cup {Absent}]
        /\ settled' \in BOOLEAN
    BY <1>2, SentOK
  <1>. QED  BY <1>1, <1>2, <1>3, <1>4 DEF IInv, TypeOK, entities, remote

LEMMA UnansweredOK ==
  ASSUME IInv, NEW w \in Workers, NEW delivered \in BOOLEAN, Unanswered(w, delivered)
  PROVE  IInv'
  <1> DEFINE r == run[w]
  <1>1. r \in Runs /\ TypeOK /\ Pending  BY DEF IInv, TypeOK
  <1>2. /\ Sending(w) /\ Fault /\ acknowledged' = acknowledged
        /\ UNCHANGED <<entities, authorization, runs>>
        /\ IF delivered THEN Delivered(r) /\ doubt' = doubt \cup Uncertain(r)
                        ELSE UNCHANGED <<remote, doubt>>
        /\ \/ /\ r.attempt < Attempts - 1
              /\ Update(w, [r EXCEPT !.attempt = @ + 1])
              /\ UNCHANGED <<records, settled>>
           \/ Sent(w, FALSE)
    BY DEF Unanswered
  <1>3. faults' \in 0..MaxFaults  BY <1>1, <1>2, FaultOK
  <1>4. alexa' \in Published /\ heard' \in [Endpoints -> Values \cup {Absent}]
    BY <1>1, <1>2, DeliveredOK DEF remote, TypeOK
  <1>5. doubt' \subseteq Doubts  BY <1>1, <1>2, UncertainOK DEF TypeOK
  <1>6. /\ run' \in [Workers -> Runs] /\ Pending' /\ OnlyAcknowledged'
        /\ ledger' \in Ledgers /\ reported' \in [Endpoints -> Values \cup {Absent}]
        /\ settled' \in BOOLEAN
    <2>1. CASE Sent(w, FALSE)
      BY <2>1, <1>2, SentOK
    <2>2. CASE /\ r.attempt < Attempts - 1
               /\ Update(w, [r EXCEPT !.attempt = @ + 1])
               /\ UNCHANGED <<records, settled>>
      <3> DEFINE next == [r EXCEPT !.attempt = @ + 1]
      <3>1. r.attempt + 1 \in 0..Attempts  BY <1>1, <2>2 DEF Runs, Attempts
      <3>2. next \in Runs  BY <1>1, <3>1, FieldOK
      <3>3. /\ next.updated = r.updated /\ next.phase = r.phase /\ next.seen = r.seen
            /\ next.rows = r.rows /\ next.kind = r.kind
        BY <1>1 DEF Runs
      <3>4. Updates(next) = Updates(r)  BY <3>3 DEF Updates
      <3>5. next.updated => next.phase = "deleting"
                            /\ \A e \in Updates(next) : next.seen[e] \in acknowledged'[e]
        BY <1>1, <1>2, <3>3, <3>4 DEF Pending
      <3>6. run' \in [Workers -> Runs] /\ Pending'
        BY <1>1, <1>2, <2>2, <3>2, <3>5, OneRun
      <3>. QED  BY <1>1, <1>2, <2>2, <3>6 DEF IInv, TypeOK, OnlyAcknowledged, records
    <2>. QED  BY <1>2, <2>1, <2>2
  <1>. QED  BY <1>1, <1>2, <1>3, <1>4, <1>5, <1>6 DEF IInv, TypeOK, entities

LEMMA RefreshOK ==
  ASSUME IInv, NEW w \in Workers, NEW attempt \in 0..Attempts, Refresh(w, attempt)
  PROVE  IInv'
  <1> DEFINE r == run[w]
             next == [r EXCEPT !.attempt = attempt, !.updated = @ /\ r.phase # "deleting"]
  <1>1. r \in Runs /\ TypeOK /\ Pending /\ r.updated \in BOOLEAN
    BY DEF IInv, TypeOK, Runs
  <1>2. /\ acknowledged' = acknowledged /\ authorization' = "good"
        /\ UNCHANGED <<entities, reported, remote, runs, faults, doubt, settled>>
        /\ \/ Update(w, NoRun) /\ ledger' = ledger
           \/ /\ ledger' = IF r.phase = "deleting" THEN Wrote(r, FALSE) ELSE ledger
              /\ Update(w, next)
    BY DEF Refresh
  <1>3. next \in Runs /\ ~next.updated
    <2>1. [r EXCEPT !.attempt = attempt] \in Runs  BY <1>1, FieldOK
    <2>2. next \in Runs  BY <1>1, <2>1 DEF Runs
    <2>3. next.updated = (r.updated /\ r.phase # "deleting")  BY <1>1 DEF Runs
    <2>. QED  BY <1>1, <2>2, <2>3 DEF Pending
  <1>4. run' \in [Workers -> Runs] /\ Pending'  BY <1>1, <1>2, <1>3, NoRunOK, OneRun
  <1>5. ledger' \in Ledgers /\ OnlyAcknowledged'
    <2>1. ledger \in Ledgers /\ OnlyAcknowledged  BY DEF IInv, TypeOK
    <2>2. CASE ledger' = ledger
      BY <2>1, <2>2, <1>2 DEF OnlyAcknowledged
    <2>3. CASE ledger' = Wrote(r, FALSE)
      <3>1. ledger' \in Ledgers  BY <1>1, <2>1, <2>3, WroteOK
      <3>2. ASSUME NEW e \in Endpoints, ledger'[e] \in Names
            PROVE  ledger'[e] \in acknowledged'[e]
        <4>1. \/ ledger'[e] = ledger[e]
              \/ r.updated /\ e \in Updates(r) /\ ledger'[e] = r.seen[e]
          BY <1>1, <2>1, <2>3, <3>2, WroteOK
        <4>. QED  BY <1>1, <1>2, <2>1, <3>2, <4>1 DEF OnlyAcknowledged, Pending
      <3>. QED  BY <3>1, <3>2 DEF OnlyAcknowledged
    <2>. QED  BY <1>2, <2>2, <2>3
  <1>. QED  BY <1>1, <1>2, <1>4, <1>5 DEF IInv, TypeOK, entities, remote

LEMMA RecordOK ==
  ASSUME IInv, NEW w \in Workers, Record(w)
  PROVE  IInv'
  <1> DEFINE r == run[w]
             next == [r EXCEPT !.phase = "reply"]
             conflict == \E e \in Endpoints : r.seen[e] # Gone /\ r.rows[e] = Absent
                                               /\ ledger[e] # Absent
  <1>1. /\ r \in Runs /\ TypeOK /\ Pending /\ r.phase = "record"
        /\ r.seen \in Published /\ ledger \in Ledgers
    BY DEF IInv, TypeOK, Runs, Record
  <1>2. /\ ledger' = IF conflict THEN ledger ELSE
             [e \in Endpoints |->
                CASE r.seen[e] # Gone /\ r.rows[e] # r.seen[e] -> r.seen[e]
                  [] r.seen[e] = Gone /\ r.rows[e] \in Names    -> Gone
                  [] OTHER                                      -> ledger[e]]
        /\ acknowledged' = [e \in Endpoints |-> acknowledged[e] \cup ({r.seen[e]} \cap Names)]
        /\ Update(w, next)
        /\ UNCHANGED <<entities, authorization, reported, remote, runs, faults, doubt, settled>>
    BY DEF Record
  <1>3. acknowledged' \in [Endpoints -> SUBSET Names]  BY <1>1, <1>2 DEF TypeOK
  <1>4. \A e \in Endpoints : acknowledged[e] \subseteq acknowledged'[e]
    BY <1>1, <1>2 DEF TypeOK
  <1>5. next \in Runs /\ ~next.updated
    <2>1. next \in Runs  BY <1>1, FieldOK
    <2>2. next.updated = r.updated  BY <1>1 DEF Runs
    <2>. QED  BY <1>1, <2>1, <2>2 DEF Pending
  <1>6. run' \in [Workers -> Runs] /\ Pending'  BY <1>1, <1>2, <1>4, <1>5, OneRun
  <1>7. ASSUME NEW e \in Endpoints
        PROVE  \/ ledger'[e] = ledger[e]
               \/ ledger'[e] = Gone
               \/ ledger'[e] = r.seen[e] /\ r.seen[e] # Gone
    BY <1>2
  <1>8. ledger' \in Ledgers
    <2>1. DOMAIN ledger' = Endpoints /\ ledger' = [e \in Endpoints |-> ledger'[e]]
      BY <1>1, <1>2 DEF Ledgers
    <2>. QED  BY <1>1, <1>7, <2>1 DEF Ledgers, Published
  <1>9. OnlyAcknowledged'
    <2> SUFFICES ASSUME NEW e \in Endpoints, ledger'[e] \in Names
                 PROVE  ledger'[e] \in acknowledged'[e]
      BY DEF OnlyAcknowledged
    <2>1. CASE ledger'[e] = ledger[e]  BY <2>1, <1>4 DEF IInv, OnlyAcknowledged
    <2>2. CASE ledger'[e] = r.seen[e]  BY <2>2, <1>2
    <2>3. CASE ledger'[e] = Gone  BY <2>3, EventsAssumption
    <2>. QED  BY <1>7, <2>1, <2>2, <2>3
  <1>. QED  BY <1>1, <1>2, <1>3, <1>6, <1>8, <1>9 DEF IInv, TypeOK, entities, remote

LEMMA ReplyOK ==
  ASSUME IInv, NEW w \in Workers, Reply(w) \/ ReplyLost(w)
  PROVE  IInv'
  <1>1. run[w] \in Runs /\ run[w].seen \in Published /\ TypeOK /\ Pending /\ OnlyAcknowledged
    BY DEF IInv, TypeOK, Runs
  <1>2. /\ Update(w, NoRun) /\ acknowledged' = acknowledged
        /\ UNCHANGED <<entities, authorization, records, heard, runs>>
        /\ alexa' \in {alexa, run[w].seen} /\ doubt' \in {doubt, doubt \ (Endpoints \X {"name"}), Doubts}
        /\ settled' \in {settled, settled \/ Complete(run[w])}
    BY DEF Reply, ReplyLost, remote
  <1>3. faults' \in 0..MaxFaults  BY <1>1, FaultOK DEF Reply, ReplyLost, TypeOK
  <1>4. run' \in [Workers -> Runs] /\ Pending'  BY <1>1, <1>2, NoRunOK, OneRun
  <1>5. settled' \in BOOLEAN  BY <1>1, <1>2 DEF TypeOK
  <1>. QED  BY <1>1, <1>2, <1>3, <1>4, <1>5 DEF IInv, TypeOK, OnlyAcknowledged, entities, records

-----------------------------------------------------------------------------
(* The specification                                                        *)

LEMMA OthersOK ==
  ASSUME IInv, AcceptGrant \/ Expire \/ Crash
  PROVE  IInv'
  <1>1. TypeOK /\ Pending /\ OnlyAcknowledged  BY DEF IInv
  <1>2. CASE AcceptGrant
    BY <1>1, <1>2 DEF AcceptGrant, IInv, TypeOK, Pending, Updates, OnlyAcknowledged,
                      entities, records, remote
  <1>3. CASE Expire
    <2>1. faults' \in 0..MaxFaults  BY <1>1, <1>3, FaultOK DEF Expire
    <2>. QED  BY <1>1, <1>3, <2>1 DEF Expire, IInv, TypeOK, Pending, Updates, OnlyAcknowledged,
                                      entities, records, remote
  <1>4. CASE Crash
    <2>1. faults' \in 0..MaxFaults  BY <1>1, <1>4, FaultOK DEF Crash
    <2>2. run' = [w \in Workers |-> NoRun]  BY <1>4 DEF Crash
    <2>3. run' \in [Workers -> Runs] /\ Pending'  BY <2>2, NoRunOK DEF Pending
    <2>. QED  BY <1>1, <1>4, <2>1, <2>3 DEF Crash, IInv, TypeOK, OnlyAcknowledged,
                                            entities, records, remote
  <1>. QED  BY <1>2, <1>3, <1>4

LEMMA InitOK ==
  Init => IInv
  <1> SUFFICES ASSUME Init PROVE IInv
    OBVIOUS
  <1>1. TypeOK
    <2>1. run \in [Workers -> Runs]  BY NoRunOK DEF Init
    <2>2. name \in Published /\ alexa \in Published /\ ledger \in Ledgers
      BY DEF Init, Published, Ledgers
    <2>3. /\ reported \in [Endpoints -> Values \cup {Absent}]
          /\ heard \in [Endpoints -> Values \cup {Absent}]
          /\ acknowledged \in [Endpoints -> SUBSET Names]
      BY DEF Init
    <2>4. runs \in 0..MaxRuns /\ faults \in 0..MaxFaults  BY EventsAssumption DEF Init
    <2>5. /\ value \in [Endpoints -> Values] /\ doubt \subseteq Doubts
          /\ settled \in BOOLEAN /\ authorization \in {"none", "good", "expired"}
      BY DEF Init
    <2>. QED  BY <2>1, <2>2, <2>3, <2>4, <2>5 DEF TypeOK
  <1>2. OnlyAcknowledged  BY EventsAssumption DEF Init, OnlyAcknowledged
  <1>3. Pending  BY NoRunOK DEF Init, Pending
  <1>. QED  BY <1>1, <1>2, <1>3 DEF IInv

LEMMA StepOK ==
  IInv /\ [Next]_vars => IInv'
  <1> SUFFICES ASSUME IInv, [Next]_vars PROVE IInv'
    OBVIOUS
  <1>1. CASE UNCHANGED vars
    BY <1>1 DEF vars, entities, records, remote, IInv, TypeOK, OnlyAcknowledged, Pending, Updates
  <1>2. ASSUME NEW w \in Workers, Step(w)
        PROVE  IInv'
    BY <1>2, ReportOK, ReadEntitiesOK, CompareOK, AcceptedOK, FailedOK, UnansweredOK,
       RefreshOK, RecordOK, ReplyOK DEF Step
  <1>. QED  BY <1>1, <1>2, StartOK, OthersOK DEF Next

(* The invariant holds of every behaviour.                                  *)
LEMMA Invariant == Spec => []IInv
  BY InitOK, StepOK, PTL DEF Spec

(* Every variable keeps its type.                                           *)
THEOREM TypeOKAlways == Spec => []TypeOK
  <1>1. IInv => TypeOK  BY DEF IInv
  <1>. QED  BY Invariant, <1>1, PTL

(* Whatever overlaps, crashes or is lost, nothing is recorded as published  *)
(* that Alexa did not acknowledge, but for the answers to a Discover.       *)
THEOREM OnlyAcknowledgedAlways == Spec => []OnlyAcknowledged
  <1>1. IInv => OnlyAcknowledged  BY DEF IInv
  <1>. QED  BY Invariant, <1>1, PTL

-----------------------------------------------------------------------------
(* The records are what Alexa has                                           *)

(* A run that is not alone has left everything in doubt; one that is alone  *)
(* is the only one.                                                         *)
AloneInv ==
  \A w \in Workers : Active(w) =>
    IF run[w].alone THEN \A v \in Workers \ {w} : ~Active(v) ELSE doubt = Doubts

Doubted(e) == <<e, "name">> \in doubt

(* What Alexa has of e while r runs alone: what is recorded, or what r has  *)
(* sent and not recorded.                                                   *)
Held(r, e) == IF r.updated /\ e \in Updates(r) THEN r.seen[e] ELSE Row(e)

(* The records as a run that is alone has read, sent and written them.      *)
RunTrue(r) ==
  /\ r.phase = "reporting" /\ r.first => reported[r.target] = Absent
  /\ r.phase \in {"updating", "record"} \/ r.updated => r.rows = ledger
  /\ r.phase \in {"updating", "deleting"} =>
       \A e \in Endpoints \ Updates(r) : r.rows[e] = ledger[e]
  /\ IF r.phase = "reply" THEN \A e \in Endpoints : Row(e) = r.seen[e]
     ELSE \A e \in Endpoints : Doubted(e) \/ alexa[e] = Held(r, e)
  /\ r.phase = "deleting" /\ r.clean =>
       \A e \in Updates(r) : Doubted(e) \/ alexa[e] = r.seen[e]

TrueInv ==
  /\ \A w \in Workers : Active(w) /\ run[w].alone => RunTrue(run[w])
  /\ Idle => \A e \in Endpoints : Doubted(e) \/ alexa[e] = Row(e)
  /\ \A e \in Endpoints : <<e, "state">> \in doubt \/ reported[e] = heard[e]

(* While nothing changes every run sends what the entities are.             *)
SettledInv ==
  settled =>
    /\ \A w \in Workers :
         run[w].phase \in {"compare", "updating", "deleting", "record", "reply"} =>
           \A e \in Endpoints : run[w].seen[e] = Representation(e)
    /\ \A e \in Endpoints : Doubted(e) \/ alexa[e] = Representation(e)

StateTrue == \A e \in Endpoints : <<e, "state">> \in doubt \/ reported[e] = heard[e]
RowsTrue  == \A e \in Endpoints : Doubted(e) \/ alexa[e] = Row(e)
NamesTrue == \A e \in Endpoints : Doubted(e) \/ alexa[e] = Representation(e)

TruthInv == IInv /\ AloneInv /\ TrueInv /\ SettledInv

Late == {"compare", "updating", "deleting", "record", "reply"}

(* What the updates and deletions of a run depend on.                       *)
LEMMA SameRun ==
  ASSUME NEW r, NEW s, s.seen = r.seen, s.rows = r.rows, s.kind = r.kind
  PROVE  Updates(s) = Updates(r) /\ Deletions(s) = Deletions(r)
BY DEF Updates, Deletions

(* What an endpoint is that a run has neither to update nor to delete.      *)
LEMMA UpToDate ==
  ASSUME NEW r \in Runs, NEW e \in Endpoints, e \notin Updates(r), e \notin Deletions(r),
         r.rows[e] = ledger[e], ledger \in Ledgers
  PROVE  Row(e) = r.seen[e]
<1>1. r.seen[e] \in Names \cup {Gone} /\ r.rows[e] \in Names \cup {Gone, Absent}
  BY DEF Runs, Published, Ledgers
<1> QED  BY <1>1, EventsAssumption DEF Row, Updates, Deletions

(* A run in its early phases has sent and read nothing of the ledger.       *)
LEMMA EarlyRun ==
  ASSUME NEW r, ~r.updated, r.phase \in {"report", "reporting", "read", "compare"}, RowsTrue,
         r.phase = "reporting" /\ r.first => reported[r.target] = Absent
  PROVE  RunTrue(r)
BY DEF RunTrue, Held, RowsTrue

(* Every step of a run is one of an active run, which keeps its place among *)
(* the others or ends; only a run that is alone makes anything certain.     *)
StepFacts(w) ==
  /\ Active(w) /\ UNCHANGED entities
  /\ \E r \in Runs :
       /\ run' = [run EXCEPT ![w] = r]
       /\ \/ r = NoRun
          \/ /\ r.alone = run[w].alone
             /\ \/ r.phase \in {"reporting", "read"}
                \/ r.phase = "compare" /\ \A e \in Endpoints : r.seen[e] = Representation(e)
                \/ run[w].phase \in Late /\ r.seen = run[w].seen
       /\ settled' /\ ~settled => run[w].alone /\ r = NoRun
  /\ run[w].alone \/ doubt \subseteq doubt'
  /\ settled => settled'

(* So is the end of a delivery.                                             *)
LEMMA SentFacts ==
  ASSUME IInv, NEW w \in Workers, NEW success \in BOOLEAN, Sending(w), Sent(w, success),
         UNCHANGED entities, run[w].alone \/ doubt \subseteq doubt'
  PROVE  StepFacts(w)
<1> DEFINE r == [run[w] EXCEPT !.updated = @ \/ (run[w].phase = "updating" /\ success),
                               !.clean = @ /\ success]
<1>1. run[w] \in Runs /\ NoRun \in Runs /\ Active(w) /\ run \in [Workers -> Runs]
  BY NoRunOK DEF IInv, TypeOK, Sending, Active
<1>2. /\ r \in Runs /\ r.phase = run[w].phase /\ r.seen = run[w].seen /\ r.alone = run[w].alone
  BY <1>1 DEF Runs
<1>3. 0 \in 0..Attempts  BY DEF Attempts
<1> DEFINE reading == [r EXCEPT !.phase = "read", !.attempt = 0, !.first = FALSE]
           deleting == [r EXCEPT !.phase = "deleting", !.attempt = 0]
<1>4. /\ reading \in Runs /\ reading.phase = "read" /\ reading.alone = r.alone
      /\ deleting \in Runs /\ deleting.alone = r.alone /\ deleting.seen = r.seen
  <2> HIDE DEF r
  <2>1. [r EXCEPT !.phase = "read"] \in Runs /\ [r EXCEPT !.phase = "deleting"] \in Runs
    BY <1>2, FieldOK
  <2>2. /\ [r EXCEPT !.phase = "read", !.attempt = 0] \in Runs
        /\ deleting \in Runs
    BY <1>3, <2>1, FieldOK
  <2>3. reading \in Runs  BY <2>2, FieldOK
  <2> QED  BY <1>2, <2>2, <2>3 DEF Runs
<1> HIDE DEF r
<1>a. r = [run[w] EXCEPT !.updated = @ \/ (run[w].phase = "updating" /\ success),
                         !.clean = @ /\ success]
  BY DEF r
<1>5. \/ /\ run' = [run EXCEPT ![w] = NoRun]
         /\ settled' = settled \/ settled' = (settled \/ Complete(r))
      \/ /\ run' = [run EXCEPT ![w] = reading]
         /\ settled' = settled
      \/ /\ run[w].phase = "updating"
         /\ run' = [run EXCEPT ![w] = deleting]
         /\ settled' = settled
  <2>1. CASE r.phase = "reporting"
    BY <1>a, <2>1 DEF Sent, Update
  <2>2. CASE r.phase # "reporting" /\ r.phase = "updating" /\ Deletions(r) # {}
    BY <1>a, <1>2, <2>2 DEF Sent, Update
  <2>3. CASE r.phase # "reporting" /\ ~(r.phase = "updating" /\ Deletions(r) # {})
    BY <1>a, <2>3 DEF Sent, Update
  <2> QED  BY <2>1, <2>2, <2>3
<1> HIDE DEF reading, deleting
<1>6. settled \in BOOLEAN /\ (Complete(r) => r.alone)  BY DEF Complete, IInv, TypeOK
<1>7. CASE /\ run' = [run EXCEPT ![w] = NoRun]
           /\ settled' = settled \/ settled' = (settled \/ Complete(r))
  <2>1. (settled => settled') /\ (settled' /\ ~settled => Complete(r))
    BY <1>6, <1>7
  <2>2. settled' /\ ~settled => run[w].alone
    BY <2>1, <1>2, <1>6
  <2> QED  BY <1>1, <1>7, <2>1, <2>2 DEF StepFacts
<1>8. CASE /\ run' = [run EXCEPT ![w] = reading]
           /\ settled' = settled
  BY <1>1, <1>2, <1>4, <1>8 DEF StepFacts
<1>9. CASE /\ run[w].phase = "updating"
           /\ run' = [run EXCEPT ![w] = deleting]
           /\ settled' = settled
  <2>1. run[w].phase \in Late /\ deleting.seen = run[w].seen /\ deleting.alone = run[w].alone
    BY <1>2, <1>4, <1>9 DEF Late
  <2> QED  BY <1>1, <1>4, <1>9, <2>1 DEF StepFacts
<1> QED  BY <1>5, <1>7, <1>8, <1>9

(* Each step of a run is one of these.                                      *)
LEMMA EveryStep ==
  ASSUME IInv, NEW w \in Workers, Step(w)
  PROVE  StepFacts(w)
<1>0. /\ run[w] \in Runs /\ NoRun \in Runs /\ run \in [Workers -> Runs]
      /\ settled \in BOOLEAN /\ ledger \in Ledgers /\ 0 \in 0..Attempts
  BY NoRunOK DEF IInv, TypeOK, Attempts
<1>1. CASE Report(w)
  <2> DEFINE e == run[w].target
             reporting == [Go(w, "reporting") EXCEPT !.before = value[e],
                                                     !.first = reported[e] = Absent]
             reading == Go(w, "read")
  <2>1. /\ Active(w) /\ UNCHANGED <<entities, doubt, settled>>
        /\ run' = [run EXCEPT ![w] = reading] \/ run' = [run EXCEPT ![w] = reporting]
    BY <1>1 DEF Report, Active, Update
  <2>2. /\ reading \in Runs /\ reading.phase = "read" /\ reading.alone = run[w].alone
        /\ Go(w, "reporting") \in Runs
    <3>1. [run[w] EXCEPT !.phase = "read"] \in Runs /\ [run[w] EXCEPT !.phase = "reporting"] \in Runs
      BY <1>0, FieldOK
    <3>2. reading \in Runs /\ Go(w, "reporting") \in Runs  BY <1>0, <3>1, FieldOK DEF Go
    <3> QED  BY <1>0, <3>2 DEF Runs, Go
  <2>3. /\ reporting \in Runs /\ reporting.phase = "reporting" /\ reporting.alone = run[w].alone
    <3>1. value[e] \in Values /\ (reported[e] = Absent) \in BOOLEAN
      BY <1>0 DEF IInv, TypeOK, Runs
    <3>2. [Go(w, "reporting") EXCEPT !.before = value[e]] \in Runs  BY <2>2, <3>1, FieldOK
    <3>3. reporting \in Runs  BY <3>1, <3>2, FieldOK
    <3> QED  BY <1>0, <2>2, <3>3 DEF Runs, Go
  <2> HIDE DEF reading, reporting
  <2> QED  BY <2>1, <2>2, <2>3 DEF StepFacts
<1>2. CASE ReadEntities(w)
  <2> DEFINE next == [Go(w, "compare") EXCEPT !.seen = [e \in Endpoints |-> Representation(e)]]
  <2>1. Active(w) /\ UNCHANGED <<entities, doubt, settled>> /\ run' = [run EXCEPT ![w] = next]
    BY <1>2 DEF ReadEntities, Active, Update
  <2>2. Go(w, "compare") \in Runs /\ [e \in Endpoints |-> Representation(e)] \in Published
    <3>1. [run[w] EXCEPT !.phase = "compare"] \in Runs  BY <1>0, FieldOK
    <3> QED  BY <1>0, <3>1, FieldOK, RepresentationOK DEF Go, IInv, TypeOK
  <2>3. next \in Runs  BY <2>2, FieldOK
  <2>4. /\ next.phase = "compare" /\ next.alone = run[w].alone
        /\ \A e \in Endpoints : next.seen[e] = Representation(e)
    BY <1>0, <2>2, <2>3 DEF Runs, Go
  <2> HIDE DEF next
  <2> QED  BY <2>1, <2>3, <2>4 DEF StepFacts
<1>3. CASE Compare(w)
  <2> DEFINE r == [run[w] EXCEPT !.rows = ledger]
  <2>0. /\ r \in Runs /\ r.seen = run[w].seen /\ r.alone = run[w].alone
    <3>1. r \in Runs  BY <1>0, FieldOK
    <3> QED  BY <1>0, <3>1 DEF Runs
  <2>1. \A p \in {"record", "updating", "deleting"} :
          /\ [r EXCEPT !.phase = p] \in Runs /\ [r EXCEPT !.phase = p].seen = r.seen
          /\ [r EXCEPT !.phase = p].alone = r.alone
    <3> HIDE DEF r
    <3> TAKE p \in {"record", "updating", "deleting"}
    <3>1. [r EXCEPT !.phase = p] \in Runs  BY <2>0, FieldOK
    <3> QED  BY <2>0, <3>1 DEF Runs
  <2>2. /\ Active(w) /\ UNCHANGED <<entities, doubt>> /\ run[w].phase \in Late
        /\ \/ run' = [run EXCEPT ![w] = NoRun]
           \/ \E p \in {"record", "updating", "deleting"} :
                run' = [run EXCEPT ![w] = [r EXCEPT !.phase = p]]
    BY <1>3 DEF Compare, Active, Update, Late
  <2>3. (settled => settled') /\ (settled' /\ ~settled => run[w].alone /\ run' = [run EXCEPT ![w] = NoRun])
    <3>1. settled' = (settled \/ (/\ r.kind # "discover" /\ authorization # "none"
                                  /\ Updates(r) = {} /\ Deletions(r) = {} /\ Complete(r)))
      BY <1>3 DEF Compare
    <3>2. settled => settled'  BY <1>0, <3>1
    <3>3. ASSUME settled', ~settled
          PROVE  /\ r.kind # "discover" /\ authorization # "none"
                 /\ Updates(r) = {} /\ Deletions(r) = {} /\ Complete(r)
      BY <3>1, <3>3
    <3>4. ASSUME settled', ~settled PROVE run' = [run EXCEPT ![w] = NoRun]
      BY <1>3, <3>3, <3>4 DEF Compare, Update
    <3>5. ASSUME settled', ~settled PROVE run[w].alone
      BY <2>0, <3>3, <3>5 DEF Complete
    <3> QED  BY <3>2, <3>4, <3>5
  <2> HIDE DEF r
  <2>4. CASE run' = [run EXCEPT ![w] = NoRun]
    BY <1>0, <2>2, <2>3, <2>4 DEF StepFacts
  <2>5. ASSUME NEW p \in {"record", "updating", "deleting"},
               run' = [run EXCEPT ![w] = [r EXCEPT !.phase = p]], run' # [run EXCEPT ![w] = NoRun]
        PROVE  StepFacts(w)
    <3> DEFINE next == [r EXCEPT !.phase = p]
    <3>1. next \in Runs /\ next.seen = run[w].seen /\ next.alone = run[w].alone
      BY <2>0, <2>1
    <3>2. run' = [run EXCEPT ![w] = next]  BY <2>5
    <3>3. ~(settled' /\ ~settled)  BY <2>3, <2>5
    <3> HIDE DEF next
    <3> QED  BY <2>2, <2>3, <3>1, <3>2, <3>3 DEF StepFacts
  <2> QED  BY <2>2, <2>4, <2>5
<1>4. CASE Accepted(w)
  BY <1>4, SentFacts DEF Accepted
<1>5. CASE Rejected(w) \/ RefreshFailed(w)
  BY <1>5, SentFacts DEF Rejected, RefreshFailed
<1>6. ASSUME NEW d \in BOOLEAN, Unanswered(w, d) PROVE StepFacts(w)
  <2>1. /\ Sending(w) /\ UNCHANGED entities /\ doubt \subseteq doubt'
    BY <1>6 DEF Unanswered
  <2>2. CASE Sent(w, FALSE)
    BY <2>1, <2>2, SentFacts
  <2>3. CASE /\ run[w].attempt < Attempts - 1
             /\ Update(w, [run[w] EXCEPT !.attempt = @ + 1])
             /\ UNCHANGED <<records, settled>>
    <3> DEFINE next == [run[w] EXCEPT !.attempt = @ + 1]
    <3>1. run[w].attempt + 1 \in 0..Attempts  BY <1>0, <2>3 DEF Runs, Attempts
    <3>2. next \in Runs  BY <1>0, <3>1, FieldOK
    <3>3. /\ next.phase = run[w].phase /\ next.seen = run[w].seen /\ next.alone = run[w].alone
      BY <1>0 DEF Runs
    <3>4. run' = [run EXCEPT ![w] = next] /\ settled' = settled /\ Active(w)
          /\ (run[w].phase = "reporting" \/ run[w].phase \in Late)
      BY <2>1, <2>3 DEF Update, Active, Sending, Late
    <3> HIDE DEF next
    <3> QED  BY <2>1, <3>2, <3>3, <3>4 DEF StepFacts
  <2> QED  BY <1>6, <2>2, <2>3 DEF Unanswered
<1>7. ASSUME NEW n \in 0..Attempts, Refresh(w, n) PROVE StepFacts(w)
  <2> DEFINE next == [run[w] EXCEPT !.attempt = n, !.updated = @ /\ run[w].phase # "deleting"]
  <2>1. next \in Runs
    <3>1. [run[w] EXCEPT !.attempt = n] \in Runs  BY <1>0, FieldOK
    <3> QED  BY <1>0, <3>1 DEF Runs
  <2>2. /\ next.phase = run[w].phase /\ next.seen = run[w].seen /\ next.alone = run[w].alone
    BY <1>0 DEF Runs
  <2>3. /\ run' = [run EXCEPT ![w] = next] \/ run' = [run EXCEPT ![w] = NoRun]
        /\ Active(w) /\ UNCHANGED <<entities, doubt, settled>>
        /\ (run[w].phase = "reporting" \/ run[w].phase \in Late)
    BY <1>7 DEF Refresh, Update, Active, Sending, Late
  <2> HIDE DEF next
  <2> QED  BY <1>0, <2>1, <2>2, <2>3 DEF StepFacts
<1>8. CASE Record(w)
  <2> DEFINE next == [run[w] EXCEPT !.phase = "reply"]
  <2>1. next \in Runs  BY <1>0, FieldOK
  <2>2. next.seen = run[w].seen /\ next.alone = run[w].alone  BY <1>0 DEF Runs
  <2>3. /\ run' = [run EXCEPT ![w] = next] /\ run[w].phase \in Late
        /\ Active(w) /\ UNCHANGED <<entities, doubt, settled>>
    BY <1>8 DEF Record, Update, Active, Late
  <2> HIDE DEF next
  <2> QED  BY <1>0, <2>1, <2>2, <2>3 DEF StepFacts
<1>9. CASE Reply(w)
  <2>1. /\ run' = [run EXCEPT ![w] = NoRun]
        /\ Active(w) /\ UNCHANGED entities /\ settled' = (settled \/ Complete(run[w]))
        /\ doubt' = IF run[w].alone THEN doubt \ (Endpoints \X {"name"}) ELSE doubt
    BY <1>9 DEF Reply, Update, Active
  <2>2. (settled => settled') /\ (settled' /\ ~settled => Complete(run[w]))
    BY <1>0, <2>1
  <2>3. settled' /\ ~settled => run[w].alone  BY <2>2 DEF Complete
  <2>4. run[w].alone \/ doubt \subseteq doubt'  BY <2>1
  <2> QED  BY <1>0, <2>1, <2>2, <2>3, <2>4 DEF StepFacts
<1>10. CASE ReplyLost(w)
  <2>1. /\ run' = [run EXCEPT ![w] = NoRun] /\ Active(w) /\ UNCHANGED <<entities, settled>>
        /\ doubt' = Doubts
    BY <1>10 DEF ReplyLost, Update, Active
  <2> QED  BY <1>0, <2>1 DEF StepFacts, IInv, TypeOK
<1> QED
  BY <1>1, <1>2, <1>3, <1>4, <1>5, <1>6, <1>7, <1>8, <1>9, <1>10 DEF Step

-----------------------------------------------------------------------------
(* A step of a run among others leaves everything in doubt.                 *)
LEMMA AmongOthers ==
  ASSUME TruthInv, IInv', NEW w \in Workers, StepFacts(w), ~run[w].alone
  PROVE  AloneInv' /\ TrueInv' /\ SettledInv'
<1>1. PICK r \in Runs :
       /\ run' = [run EXCEPT ![w] = r]
       /\ \/ r = NoRun
          \/ /\ r.alone = run[w].alone
             /\ \/ r.phase \in {"reporting", "read"}
                \/ r.phase = "compare" /\ \A e \in Endpoints : r.seen[e] = Representation(e)
                \/ run[w].phase \in Late /\ r.seen = run[w].seen
       /\ settled' /\ ~settled => run[w].alone /\ r = NoRun
  BY DEF StepFacts
<1>2. doubt' = Doubts
  BY DEF StepFacts, TruthInv, AloneInv, IInv, TypeOK
<1>3. /\ run'[w] = r /\ \A v \in Workers \ {w} : run'[v] = run[v]
      /\ NoRun.phase = "idle" /\ Active(w)
  BY <1>1 DEF StepFacts, TruthInv, IInv, TypeOK, NoRun
<1>4. \A v \in Workers : Active(v)' => ~run'[v].alone
  BY <1>1, <1>3 DEF Active, TruthInv, AloneInv
<1>5. \A e \in Endpoints : <<e, "name">> \in doubt' /\ <<e, "state">> \in doubt'
  BY <1>2 DEF Doubts
<1>6. SettledInv'
  <2> SUFFICES ASSUME settled', NEW v \in Workers, run'[v].phase \in Late, NEW e \in Endpoints
               PROVE  run'[v].seen[e] = Representation(e)'
    BY <1>5 DEF SettledInv, Doubted, Late
  <2>1. settled  BY <1>1
  <2>2. Representation(e)' = Representation(e)
    BY DEF StepFacts, entities, Representation, Shares
  <2>3. \A u \in Workers : run[u].phase \in Late => run[u].seen[e] = Representation(e)
    BY <2>1 DEF TruthInv, SettledInv, Late
  <2> QED  BY <1>1, <1>3, <2>2, <2>3 DEF Late
<1> QED  BY <1>2, <1>4, <1>5, <1>6 DEF AloneInv, TrueInv, Doubted

(* What has to be shown of a step of a run that is alone.                   *)
StaysTrue(w) ==
  /\ StateTrue'
  /\ IF Active(w)' THEN RunTrue(run[w])' ELSE RowsTrue'
  /\ settled' => NamesTrue'

(* A step of a run that is alone keeps the invariant, whatever it wrote.    *)
LEMMA AloneStep ==
  ASSUME TruthInv, IInv', NEW w \in Workers, StepFacts(w), run[w].alone, StaysTrue(w)
  PROVE  AloneInv' /\ TrueInv' /\ SettledInv'
<1>1. PICK r \in Runs :
       /\ run' = [run EXCEPT ![w] = r]
       /\ \/ r = NoRun
          \/ /\ r.alone = run[w].alone
             /\ \/ r.phase \in {"reporting", "read"}
                \/ r.phase = "compare" /\ \A e \in Endpoints : r.seen[e] = Representation(e)
                \/ run[w].phase \in Late /\ r.seen = run[w].seen
       /\ settled' /\ ~settled => run[w].alone /\ r = NoRun
  BY DEF StepFacts
<1>2. /\ run'[w] = r /\ \A v \in Workers \ {w} : run'[v] = run[v] /\ run[v].phase = "idle"
      /\ NoRun.phase = "idle" /\ Active(w)
  BY <1>1 DEF StepFacts, TruthInv, IInv, TypeOK, AloneInv, NoRun, Active
<1>3. /\ \A v \in Workers \ {w} : ~Active(v)'
      /\ Active(w)' => run'[w].alone
  BY <1>1, <1>2 DEF Active
<1>4. AloneInv'  BY <1>3 DEF AloneInv
<1>5. TrueInv'
  <2>1. \A v \in Workers : Active(v)' /\ run'[v].alone => RunTrue(run[v])'
    BY <1>3 DEF StaysTrue
  <2>2. Idle' => RowsTrue'
    <3>1. Idle' => ~Active(w)'  BY DEF Idle
    <3> QED  BY <3>1 DEF StaysTrue
  <2>3. StateTrue'  BY DEF StaysTrue
  <2> QED  BY <2>1, <2>2, <2>3 DEF TrueInv, RowsTrue, StateTrue
<1>6. SettledInv'
  <2>1. ASSUME settled', NEW v \in Workers, run'[v].phase \in Late, NEW e \in Endpoints
        PROVE  run'[v].seen[e] = Representation(e)'
    <3>1. v = w /\ r # NoRun  BY <1>2, <2>1 DEF Late
    <3>2. settled  BY <1>1, <2>1, <3>1
    <3>3. Representation(e)' = Representation(e)
      BY DEF StepFacts, entities, Representation, Shares
    <3>4. \A u \in Workers : run[u].phase \in Late => run[u].seen[e] = Representation(e)
      BY <3>2 DEF TruthInv, SettledInv, Late
    <3>5. r.phase \in Late  BY <1>2, <2>1, <3>1
    <3>6. \/ \A d \in Endpoints : r.seen[d] = Representation(d)
          \/ run[w].phase \in Late /\ r.seen = run[w].seen
      BY <1>1, <3>1, <3>5 DEF Late
    <3>7. r.seen[e] = Representation(e)  BY <3>4, <3>6
    <3> QED  BY <1>2, <3>1, <3>3, <3>7
  <2>2. settled' => NamesTrue'  BY DEF StaysTrue
  <2> QED  BY <2>1, <2>2 DEF SettledInv, NamesTrue, Late
<1> QED  BY <1>4, <1>5, <1>6

(* What a run that is alone finds.                                          *)
LEMMA Alone ==
  ASSUME TruthInv, NEW w \in Workers, Active(w), run[w].alone
  PROVE  /\ RunTrue(run[w]) /\ StateTrue
         /\ settled => NamesTrue
         /\ settled /\ run[w].phase \in Late =>
              \A e \in Endpoints : run[w].seen[e] = Representation(e)
         /\ run[w] \in Runs /\ ledger \in Ledgers /\ run \in [Workers -> Runs]
         /\ run[w].updated => run[w].phase = "deleting"
         /\ settled \in BOOLEAN
BY DEF TruthInv, TrueInv, SettledInv, StateTrue, NamesTrue, Late, IInv, TypeOK, Pending

(* What is published of an endpoint depends on the entities alone.          *)
LEMMA RepresentationSame ==
  ASSUME UNCHANGED entities, NEW e \in Endpoints
  PROVE  Representation(e)' = Representation(e)
BY DEF entities, Representation, Shares

(* A report of a state that is begun or left out.                           *)
LEMMA ReportTrue ==
  ASSUME TruthInv, NEW w \in Workers, run[w].alone, Report(w)
  PROVE  StaysTrue(w)
<1> DEFINE e == run[w].target
           reporting == [Go(w, "reporting") EXCEPT !.before = value[e],
                                                   !.first = reported[e] = Absent]
           reading == Go(w, "read")
<1>1. /\ UNCHANGED <<entities, records, remote, doubt, settled>> /\ run[w].phase = "report"
      /\ run' = [run EXCEPT ![w] = reading] \/ run' = [run EXCEPT ![w] = reporting]
  BY DEF Report, Update
<1>2. Active(w)  BY <1>1 DEF Active
<1>3. /\ RunTrue(run[w]) /\ StateTrue /\ ~run[w].updated /\ run[w] \in Runs
      /\ settled => NamesTrue
      /\ run \in [Workers -> Runs]
  BY <1>1, <1>2, Alone
<1>4. RowsTrue  BY <1>1, <1>3 DEF RunTrue, RowsTrue, Held
<1>5. /\ reading.phase = "read" /\ ~reading.updated
      /\ reporting.phase = "reporting" /\ ~reporting.updated
      /\ reporting.target = e /\ (reporting.first => reported[e] = Absent)
  BY <1>3 DEF Runs, Go
<1> HIDE DEF reading, reporting
<1>6. /\ ~run'[w].updated /\ run'[w].phase \in {"read", "reporting"}
      /\ run'[w].phase = "reporting" /\ run'[w].first => reported[run'[w].target] = Absent
  BY <1>1, <1>3, <1>5
<1>7. RowsTrue' /\ StateTrue' /\ (settled' => NamesTrue')
  BY <1>1, <1>3, <1>4, RepresentationSame
  DEF RowsTrue, StateTrue, NamesTrue, Doubted, Row, records, remote
<1>8. RunTrue(run[w])'
  BY <1>1, <1>6, <1>7 DEF RunTrue, Held, RowsTrue, records
<1> QED  BY <1>6, <1>7, <1>8 DEF StaysTrue, Active

(* The entities read, before anything is sent.                              *)
LEMMA ReadTrue ==
  ASSUME TruthInv, NEW w \in Workers, run[w].alone, ReadEntities(w)
  PROVE  StaysTrue(w)
<1> DEFINE next == [Go(w, "compare") EXCEPT !.seen = [e \in Endpoints |-> Representation(e)]]
<1>1. /\ UNCHANGED <<entities, records, remote, doubt, settled>> /\ run[w].phase = "read"
      /\ run' = [run EXCEPT ![w] = next]
  BY DEF ReadEntities, Update
<1>2. Active(w)  BY <1>1 DEF Active
<1>3. /\ RunTrue(run[w]) /\ StateTrue /\ ~run[w].updated /\ run[w] \in Runs
      /\ settled => NamesTrue
      /\ run \in [Workers -> Runs]
  BY <1>1, <1>2, Alone
<1>4. RowsTrue  BY <1>1, <1>3 DEF RunTrue, RowsTrue, Held
<1>5. next.phase = "compare" /\ ~next.updated
  BY <1>3 DEF Runs, Go
<1> HIDE DEF next
<1>6. ~run'[w].updated /\ run'[w].phase = "compare"
  BY <1>1, <1>3, <1>5
<1>7. RowsTrue' /\ StateTrue' /\ (settled' => NamesTrue')
  BY <1>1, <1>3, <1>4, RepresentationSame
  DEF RowsTrue, StateTrue, NamesTrue, Doubted, Row, records, remote
<1>8. RunTrue(run[w])'
  BY <1>1, <1>6, <1>7 DEF RunTrue, Held, RowsTrue
<1> QED  BY <1>6, <1>7, <1>8 DEF StaysTrue, Active

(* The ledger read and compared with the entities.                          *)
LEMMA CompareTrue ==
  ASSUME TruthInv, NEW w \in Workers, run[w].alone, Compare(w)
  PROVE  StaysTrue(w)
<1> DEFINE r == [run[w] EXCEPT !.rows = ledger]
<1>1. /\ UNCHANGED <<entities, records, remote, doubt>> /\ run[w].phase = "compare"
      /\ settled' = (settled \/ (/\ r.kind # "discover" /\ authorization # "none"
                                 /\ Updates(r) = {} /\ Deletions(r) = {} /\ Complete(r)))
      /\ \/ Update(w, NoRun)
         \/ Update(w, [r EXCEPT !.phase = "record"])
         \/ Update(w, [r EXCEPT !.phase = "updating"])
         \/ Update(w, [r EXCEPT !.phase = "deleting"]) /\ Updates(r) = {}
  BY DEF Compare
<1>2. Active(w)  BY <1>1 DEF Active
<1>3. /\ RunTrue(run[w]) /\ StateTrue /\ ~run[w].updated /\ run[w] \in Runs
      /\ settled => NamesTrue
      /\ ledger \in Ledgers /\ run \in [Workers -> Runs] /\ settled \in BOOLEAN
  BY <1>1, <1>2, Alone
<1>4. RowsTrue  BY <1>1, <1>3 DEF RunTrue, RowsTrue, Held
<1>5. /\ r \in Runs /\ r.rows = ledger /\ r.seen = run[w].seen /\ ~r.updated
  <2>1. r \in Runs  BY <1>3, FieldOK
  <2> QED  BY <1>3, <2>1 DEF Runs
<1>6. RowsTrue' /\ StateTrue'
  BY <1>1, <1>3, <1>4 DEF RowsTrue, StateTrue, Doubted, Row, records, remote
<1> HIDE DEF r
<1>7. settled' => NamesTrue'
  <2>1. CASE settled
    BY <1>1, <1>3, <2>1, RepresentationSame DEF NamesTrue, Doubted, remote
  <2>2. ASSUME ~settled, settled' PROVE NamesTrue'
    <3>1. Updates(r) = {} /\ Deletions(r) = {} /\ Complete(r)  BY <1>1, <2>2
    <3>2. \A e \in Endpoints : Row(e) = Representation(e)
      BY <1>3, <1>5, <3>1, UpToDate DEF Complete
    <3> QED
      BY <1>1, <1>4, <3>2, RepresentationSame DEF RowsTrue, NamesTrue, Doubted, remote
  <2> QED  BY <2>1, <2>2
<1>8. CASE Update(w, NoRun)
  <2>1. ~Active(w)'  BY <1>3, <1>8 DEF Active, Update, NoRun
  <2> QED  BY <2>1, <1>6, <1>7 DEF StaysTrue
<1>9. ASSUME NEW p \in {"record", "updating", "deleting"}, Update(w, [r EXCEPT !.phase = p]),
             p = "deleting" => Updates(r) = {}
      PROVE  StaysTrue(w)
  <2> DEFINE next == [r EXCEPT !.phase = p]
  <2>1. /\ next.phase = p /\ next.rows = ledger /\ next.seen = r.seen /\ next.kind = r.kind
        /\ ~next.updated
    BY <1>5 DEF Runs
  <2>2. run'[w] = next  BY <1>3, <1>9 DEF Update
  <2> HIDE DEF next
  <2>3. p = "deleting" => Updates(next) = {}
    BY <1>5, <1>9, <2>1, SameRun
  <2>4. RunTrue(run[w])'
    BY <1>1, <1>6, <2>1, <2>2, <2>3 DEF RunTrue, Held, RowsTrue, Updates, records
  <2> QED  BY <1>6, <1>7, <2>1, <2>2, <2>4 DEF StaysTrue, Active
<1> QED  BY <1>1, <1>8, <1>9

(* What an attempt tells Alexa: an accepted one what the run has read, any  *)
(* other nothing, or something that is then in doubt.                       *)
Told(w, success) ==
  \A e \in Endpoints :
    /\ IF success /\ run[w].phase # "reporting" /\ e \in Concerned(run[w])
         THEN alexa'[e] = run[w].seen[e]
         ELSE Doubted(e)' \/ (alexa'[e] = alexa[e] /\ ~Doubted(e))
    /\ IF success /\ run[w].phase = "reporting" /\ e = run[w].target
         THEN heard'[e] = run[w].before
         ELSE <<e, "state">> \in doubt' \/ (heard'[e] = heard[e] /\ <<e, "state">> \notin doubt)

(* An accepted attempt told Alexa what the run has read.                    *)
LEMMA AcceptedTold ==
  ASSUME TruthInv, NEW w \in Workers, run[w].alone, Accepted(w)
  PROVE  Told(w, TRUE)
<1>1. /\ Delivered(run[w]) /\ doubt' = doubt \ Uncertain(run[w]) /\ Sending(w)
      /\ run[w] \in Runs /\ alexa \in Published /\ heard \in [Endpoints -> Values \cup {Absent}]
  BY DEF Accepted, TruthInv, IInv, TypeOK
<1> USE <1>1 DEF Delivered, Uncertain, Concerned, Sending, Published, Doubted
<1> SUFFICES ASSUME NEW e \in Endpoints
             PROVE  /\ IF run[w].phase # "reporting" /\ e \in Concerned(run[w])
                         THEN alexa'[e] = run[w].seen[e]
                         ELSE Doubted(e)' \/ (alexa'[e] = alexa[e] /\ ~Doubted(e))
                    /\ IF run[w].phase = "reporting" /\ e = run[w].target
                         THEN heard'[e] = run[w].before
                         ELSE <<e, "state">> \in doubt' \/ (heard'[e] = heard[e] /\ <<e, "state">> \notin doubt)
  BY DEF Told
<1>2. CASE run[w].phase = "reporting"
  <2>1. /\ alexa'[e] = alexa[e]
        /\ heard'[e] = IF e = run[w].target THEN run[w].before ELSE heard[e]
        /\ doubt' = doubt \ ({run[w].target} \X {"state"})
    BY <1>2
  <2> QED  BY <1>2, <2>1
<1>3. CASE run[w].phase # "reporting"
  <2> DEFINE c == Concerned(run[w])
  <2>1. /\ alexa'[e] = IF e \in c THEN run[w].seen[e] ELSE alexa[e]
        /\ heard' = heard
        /\ doubt' = doubt \ (c \X {"name"})
    BY <1>3
  <2> HIDE DEF c
  <2>2. e \notin c => Doubted(e)' \/ (alexa'[e] = alexa[e] /\ ~Doubted(e))
    BY <2>1
  <2>3. <<e, "state">> \in doubt' \/ (heard'[e] = heard[e] /\ <<e, "state">> \notin doubt)
    BY <2>1
  <2>4. e \in c => alexa'[e] = run[w].seen[e]  BY <2>1
  <2> QED  BY <1>3, <2>2, <2>3, <2>4 DEF c
<1> QED  BY <1>2, <1>3

(* An attempt that reached nobody told nothing.                             *)
LEMMA UntoldFalse ==
  ASSUME TruthInv, NEW w \in Workers, UNCHANGED <<remote, doubt>>
  PROVE  Told(w, FALSE)
BY DEF Told, Doubted, remote

(* One that was not answered told nothing, or left a doubt.                 *)
LEMMA UnansweredTold ==
  ASSUME TruthInv, NEW w \in Workers, Delivered(run[w]), doubt' = doubt \cup Uncertain(run[w])
  PROVE  Told(w, FALSE)
<1>1. /\ run[w] \in Runs /\ alexa \in Published /\ heard \in [Endpoints -> Values \cup {Absent}]
  BY DEF TruthInv, IInv, TypeOK
<1> SUFFICES ASSUME NEW e \in Endpoints
             PROVE  /\ Doubted(e)' \/ (alexa'[e] = alexa[e] /\ ~Doubted(e))
                    /\ <<e, "state">> \in doubt' \/ (heard'[e] = heard[e] /\ <<e, "state">> \notin doubt)
  BY DEF Told
<1>2. CASE run[w].phase = "reporting"
  <2>1. /\ alexa'[e] = alexa[e]
        /\ heard'[e] = IF e = run[w].target THEN run[w].before ELSE heard[e]
        /\ doubt' = doubt \cup ({run[w].target} \X {"state"})
    BY <1>1, <1>2 DEF Delivered, Uncertain, Concerned
  <2> QED  BY <2>1 DEF Doubted
<1>3. CASE run[w].phase # "reporting"
  <2> DEFINE c == Concerned(run[w])
  <2>1. /\ alexa'[e] = IF e \in c THEN run[w].seen[e] ELSE alexa[e]
        /\ heard' = heard
        /\ doubt' = doubt \cup (c \X {"name"})
    BY <1>3 DEF Delivered, Uncertain
  <2> HIDE DEF c
  <2> QED  BY <2>1 DEF Doubted
<1> QED  BY <1>2, <1>3

(* The end of a delivery records what Alexa was told.                       *)
LEMMA SentTrue ==
  ASSUME TruthInv, NEW w \in Workers, run[w].alone, NEW success \in BOOLEAN,
         Sending(w), Sent(w, success), Told(w, success), UNCHANGED entities
  PROVE  StaysTrue(w)
<1> DEFINE r == [run[w] EXCEPT !.updated = @ \/ (run[w].phase = "updating" /\ success),
                               !.clean = @ /\ success]
           gone == r.phase = "deleting" /\ success
           twice == success /\ r.first /\ reported[r.target] # Absent
<1>1. Active(w)  BY DEF Active, Sending
<1>2. /\ RunTrue(run[w]) /\ StateTrue /\ run[w] \in Runs
      /\ settled => NamesTrue
      /\ settled /\ run[w].phase \in Late =>
           \A e \in Endpoints : run[w].seen[e] = Representation(e)
      /\ ledger \in Ledgers /\ run \in [Workers -> Runs]
      /\ run[w].updated => run[w].phase = "deleting"
      /\ settled \in BOOLEAN
  BY <1>1, Alone
<1>3. /\ r \in Runs /\ r.phase = run[w].phase /\ r.seen = run[w].seen /\ r.rows = run[w].rows
      /\ r.kind = run[w].kind /\ r.target = run[w].target /\ r.before = run[w].before
      /\ r.first = run[w].first /\ r.alone = run[w].alone
      /\ r.updated = (run[w].updated \/ (run[w].phase = "updating" /\ success))
      /\ r.clean = (run[w].clean /\ success)
  BY <1>2 DEF Runs
<1> HIDE DEF r
<1>a. r = [run[w] EXCEPT !.updated = @ \/ (run[w].phase = "updating" /\ success),
                         !.clean = @ /\ success]
  BY DEF r
<1>4. Updates(r) = Updates(run[w]) /\ Deletions(r) = Deletions(run[w])  BY <1>3, SameRun
<1>5. /\ \A e \in Updates(r) : e \in Endpoints /\ r.seen[e] \in Names /\ e \notin Deletions(r)
      /\ \A e \in Deletions(r) : e \in Endpoints /\ r.seen[e] = Gone
  BY <1>3 DEF Updates, Deletions, Runs, Published
<1>6. \A e \in Endpoints : Representation(e)' = Representation(e)  BY RepresentationSame
(* While nothing changes, what is sent is what the entities are.            *)
<1>7. settled => NamesTrue'
  <2> SUFFICES ASSUME settled, NEW e \in Endpoints PROVE Doubted(e)' \/ alexa'[e] = Representation(e)
    BY <1>6 DEF NamesTrue
  <2>1. Doubted(e) \/ alexa[e] = Representation(e)  BY <1>2 DEF NamesTrue
  <2>2. CASE success /\ run[w].phase # "reporting" /\ e \in Concerned(run[w])
    <3>1. run[w].phase \in Late  BY <2>2 DEF Sending, Late
    <3> QED  BY <1>2, <2>2, <3>1 DEF Told
  <2>3. CASE ~(success /\ run[w].phase # "reporting" /\ e \in Concerned(run[w]))
    BY <2>1, <2>3 DEF Told
  <2> QED  BY <2>2, <2>3
(* A state that was reported.                                               *)
<1>8. CASE r.phase = "reporting"
  <2> DEFINE next == [r EXCEPT !.phase = "read", !.attempt = 0, !.first = FALSE]
  <2>1. ~twice  BY <1>2, <1>3, <1>8 DEF RunTrue
  <2>2. /\ reported' = IF success THEN [reported EXCEPT ![r.target] = r.before] ELSE reported
        /\ run' = [run EXCEPT ![w] = next] /\ ledger' = ledger /\ settled' = settled
    BY <1>8, <1>a, <2>1 DEF Sent, Update
  <2>3. next.phase = "read" /\ ~next.updated  BY <1>2, <1>3, <1>8 DEF Runs
  <2>4. StateTrue'
    <3> SUFFICES ASSUME NEW e \in Endpoints PROVE <<e, "state">> \in doubt' \/ reported'[e] = heard'[e]
      BY DEF StateTrue
    <3>1. reported \in [Endpoints -> Values \cup {Absent}]  BY DEF TruthInv, IInv, TypeOK
    <3>2. CASE success /\ e = run[w].target
      BY <1>3, <1>8, <2>2, <3>1, <3>2 DEF Told
    <3>3. CASE ~(success /\ e = run[w].target)
      <4>1. reported'[e] = reported[e]  BY <1>3, <2>2, <3>1, <3>3
      <4>2. <<e, "state">> \in doubt' \/ (heard'[e] = heard[e] /\ <<e, "state">> \notin doubt)
        BY <1>3, <3>3 DEF Told
      <4> QED  BY <1>2, <4>1, <4>2 DEF StateTrue
    <3> QED  BY <3>2, <3>3
  <2>5. RowsTrue'
    <3>1. RowsTrue  BY <1>2, <1>3, <1>8 DEF RunTrue, RowsTrue, Held
    <3> QED  BY <1>3, <1>8, <2>2, <3>1 DEF RowsTrue, Told, Row
  <2> HIDE DEF next
  <2>6. run'[w] = next  BY <1>2, <2>2
  <2>7. RunTrue(run[w])'  BY <2>3, <2>5, <2>6 DEF RunTrue, RowsTrue, Held
  <2> QED  BY <1>7, <2>2, <2>3, <2>4, <2>6, <2>7 DEF StaysTrue, Active
(* Endpoints that were updated or deleted.                                  *)
<1>9. ASSUME r.phase # "reporting" PROVE r.phase \in {"updating", "deleting"}
  BY <1>3, <1>9 DEF Sending
<1>10. ASSUME r.phase # "reporting", NEW e \in Endpoints
       PROVE  /\ success /\ r.phase = "updating" /\ e \in Updates(r) => alexa'[e] = r.seen[e]
              /\ success /\ r.phase = "deleting" /\ e \in Deletions(r) => alexa'[e] = Gone
              /\ \/ success /\ r.phase = "updating" /\ e \in Updates(r)
                 \/ success /\ r.phase = "deleting" /\ e \in Deletions(r)
                 \/ Doubted(e)'
                 \/ alexa'[e] = alexa[e] /\ ~Doubted(e)
  <2>1. Concerned(run[w]) = IF r.phase = "updating" THEN Updates(r) ELSE Deletions(r)
    BY <1>3, <1>4, <1>9, <1>10 DEF Concerned
  <2>2. IF success /\ e \in Concerned(run[w])
          THEN alexa'[e] = r.seen[e]
          ELSE Doubted(e)' \/ (alexa'[e] = alexa[e] /\ ~Doubted(e))
    BY <1>3, <1>10 DEF Told
  <2>3. CASE r.phase = "updating"
    BY <2>1, <2>2, <2>3
  <2>4. CASE r.phase = "deleting"
    BY <1>5, <2>1, <2>2, <2>4
  <2> QED  BY <1>9, <1>10, <2>3, <2>4
<1>11. ASSUME r.phase # "reporting", reported' = reported PROVE StateTrue'
  BY <1>2, <1>3, <1>11 DEF StateTrue, Told
<1>12. \A e \in Endpoints : Doubted(e) \/ alexa[e] = Held(run[w], e)
  BY <1>2 DEF RunTrue, Sending
<1>13. CASE r.phase # "reporting" /\ r.phase = "updating" /\ Deletions(r) # {}
  <2> DEFINE next == [r EXCEPT !.phase = "deleting", !.attempt = 0]
  <2>1. /\ run' = [run EXCEPT ![w] = next] /\ UNCHANGED <<records, settled>>
    BY <1>13, <1>a DEF Sent, Update
  <2>2. /\ next.phase = "deleting" /\ next.seen = r.seen /\ next.rows = r.rows
        /\ next.kind = r.kind /\ next.updated = r.updated /\ next.clean = r.clean
    BY <1>3 DEF Runs
  <2>3. Updates(next) = Updates(r)  BY <2>2, SameRun
  <2>4. /\ next.rows = ledger /\ ledger' = ledger /\ reported' = reported
        /\ (next.updated => success) /\ (next.clean => success) /\ (success => next.updated)
        /\ ~run[w].updated
    BY <1>2, <1>3, <1>13, <2>1, <2>2 DEF RunTrue, records
  <2> HIDE DEF next
  <2>5. run'[w] = next  BY <1>2, <2>1
  <2>6. ASSUME NEW e \in Endpoints
        PROVE  Doubted(e)' \/ alexa'[e] = IF next.updated /\ e \in Updates(next)
                                            THEN next.seen[e] ELSE Row(e)
    <3>1. CASE success /\ e \in Updates(r)
      BY <1>10, <1>13, <2>2, <2>3, <2>4, <3>1
    <3>2. CASE ~(success /\ e \in Updates(r))
      <4>1. Doubted(e)' \/ (alexa'[e] = alexa[e] /\ ~Doubted(e))
        BY <1>10, <1>13, <3>2
      <4>2. Held(run[w], e) = Row(e)  BY <2>4 DEF Held
      <4> QED  BY <1>12, <2>3, <2>4, <3>2, <4>1, <4>2
    <3> QED  BY <3>1, <3>2
  <2>20. \A e \in Endpoints : Doubted(e)' \/ alexa'[e] = Held(run[w], e)'
    BY <2>4, <2>5, <2>6 DEF Held, Row, Updates
  <2>7. next.clean => \A e \in Updates(next) : Doubted(e)' \/ alexa'[e] = next.seen[e]
    BY <1>5, <1>10, <1>13, <2>2, <2>3, <2>4
  <2>8. RunTrue(run[w])'
    BY <2>2, <2>4, <2>5, <2>20, <2>7 DEF RunTrue, Updates
  <2> QED  BY <1>7, <1>11, <1>13, <2>1, <2>2, <2>4, <2>5, <2>8 DEF StaysTrue, Active
<1>14. CASE r.phase # "reporting" /\ ~(r.phase = "updating" /\ Deletions(r) # {})
  <2>1. /\ ledger' = (IF Conflict(r, r.updated) THEN ledger ELSE Wrote(r, gone))
        /\ run' = [run EXCEPT ![w] = NoRun] /\ settled' = (settled \/ Complete(r))
        /\ reported' = reported
    BY <1>14, <1>a DEF Sent, Update
  <2>2. r.updated => r.rows = ledger
    BY <1>2, <1>3 DEF RunTrue
  <2>3. ledger' = Wrote(r, gone)
    BY <2>1, <2>2 DEF Conflict
  <2>4. \A e \in Endpoints :
          ledger'[e] = IF r.updated /\ e \in Updates(r) /\ r.rows[e] # r.seen[e] THEN r.seen[e]
                       ELSE IF gone /\ e \in Deletions(r) THEN Gone ELSE ledger[e]
    BY <2>3 DEF Wrote
  <2>5. Gone # Absent /\ Absent \notin Names /\ Gone \notin Names  BY EventsAssumption
  <2>6. RowsTrue'
    <3> SUFFICES ASSUME NEW e \in Endpoints PROVE Doubted(e)' \/ alexa'[e] = Row(e)'
      BY DEF RowsTrue
    <3>1. CASE e \in Updates(r) /\ r.updated
      <4>1. ledger'[e] = r.seen[e] /\ r.seen[e] \in Names  BY <1>5, <2>2, <2>4, <3>1
      <4>2. Row(e)' = r.seen[e]  BY <2>5, <4>1 DEF Row
      <4>3. CASE run[w].updated
        <5>1. r.phase = "deleting" /\ Held(run[w], e) = r.seen[e]
          BY <1>2, <1>3, <1>4, <3>1, <4>3 DEF Held
        <5> QED  BY <1>5, <1>10, <1>12, <1>14, <3>1, <4>2, <5>1
      <4>4. CASE ~run[w].updated
        BY <1>3, <1>10, <1>14, <3>1, <4>2, <4>4
      <4> QED  BY <4>3, <4>4
    <3>2. CASE ~(e \in Updates(r) /\ r.updated)
      <4>1. Held(run[w], e) = Row(e)
        BY <1>3, <1>4, <3>2 DEF Held
      <4>2. CASE gone /\ e \in Deletions(r)
        <5>1. Row(e)' = Gone  BY <2>4, <2>5, <3>2, <4>2 DEF Row
        <5> QED  BY <1>10, <1>14, <4>2, <5>1
      <4>3. CASE ~(gone /\ e \in Deletions(r))
        <5>1. Row(e)' = Row(e)  BY <2>4, <3>2, <4>3 DEF Row
        <5>2. ~(success /\ r.phase = "updating" /\ e \in Updates(r))  BY <1>3, <3>2
        <5> QED  BY <1>10, <1>12, <1>14, <4>1, <4>3, <5>1, <5>2
      <4> QED  BY <4>2, <4>3
    <3> QED  BY <3>1, <3>2
  <2>7. ASSUME Complete(r), NEW e \in Endpoints PROVE Doubted(e)' \/ alexa'[e] = Representation(e)
    <3>1. r.clean /\ success /\ run[w].clean /\ r.seen[e] = Representation(e)
      BY <1>3, <2>7 DEF Complete
    <3>2. CASE e \in Updates(r)
      <4>1. CASE r.phase = "updating"  BY <1>10, <1>14, <3>1, <3>2, <4>1
      <4>2. CASE r.phase = "deleting"
        <5>1. Doubted(e) \/ alexa[e] = r.seen[e]
          BY <1>2, <1>3, <1>4, <3>1, <3>2, <4>2 DEF RunTrue
        <5> QED  BY <1>5, <1>10, <1>14, <3>1, <3>2, <4>2, <5>1
      <4> QED  BY <1>9, <1>14, <4>1, <4>2
    <3>3. CASE e \in Deletions(r)
      <4>1. r.phase = "deleting"  BY <1>9, <1>14, <3>3
      <4>2. alexa'[e] = Gone  BY <1>10, <1>14, <3>1, <3>3, <4>1
      <4> QED  BY <1>5, <3>1, <3>3, <4>2
    <3>4. CASE e \notin Updates(r) /\ e \notin Deletions(r)
      <4>1. r.rows[e] = ledger[e]  BY <1>2, <1>3, <1>4, <1>9, <1>14, <3>4 DEF RunTrue
      <4>2. Row(e) = r.seen[e]  BY <1>2, <1>3, <3>4, <4>1, UpToDate
      <4>3. Held(run[w], e) = Row(e)  BY <1>4, <3>4 DEF Held
      <4> QED  BY <1>10, <1>12, <1>14, <3>1, <3>4, <4>2, <4>3
    <3> QED  BY <3>2, <3>3, <3>4
  <2>8. settled' => NamesTrue'
    <3>1. settled' => settled \/ Complete(r)  BY <2>1
    <3> QED  BY <1>6, <1>7, <2>7, <3>1 DEF NamesTrue
  <2>9. ~Active(w)'  BY <1>2, <2>1 DEF Active, NoRun
  <2> QED  BY <1>11, <1>14, <2>1, <2>6, <2>8, <2>9 DEF StaysTrue
<1> QED  BY <1>8, <1>13, <1>14

(* An attempt without an answer, the last or one to repeat.                 *)
LEMMA UnansweredTrue ==
  ASSUME TruthInv, NEW w \in Workers, run[w].alone, NEW d \in BOOLEAN, Unanswered(w, d)
  PROVE  StaysTrue(w)
<1>0. /\ Sending(w) /\ UNCHANGED entities
      /\ \/ Delivered(run[w]) /\ doubt' = doubt \cup Uncertain(run[w])
         \/ UNCHANGED <<remote, doubt>>
  BY DEF Unanswered
<1>1. Told(w, FALSE)  BY <1>0, UnansweredTold, UntoldFalse
<1>2. CASE Sent(w, FALSE)  BY <1>0, <1>1, <1>2, SentTrue
<1>3. CASE Update(w, [run[w] EXCEPT !.attempt = @ + 1]) /\ UNCHANGED <<records, settled>>
  <2> DEFINE next == [run[w] EXCEPT !.attempt = @ + 1]
  <2>0. Active(w)  BY <1>0 DEF Sending, Active
  <2>1. /\ RunTrue(run[w]) /\ StateTrue /\ run[w] \in Runs /\ run \in [Workers -> Runs]
        /\ settled => NamesTrue
    BY <2>0, Alone
  <2>2. /\ next.phase = run[w].phase /\ next.seen = run[w].seen /\ next.rows = run[w].rows
        /\ next.kind = run[w].kind /\ next.updated = run[w].updated /\ next.clean = run[w].clean
        /\ next.first = run[w].first /\ next.target = run[w].target
    BY <2>1 DEF Runs
  <2>3. Updates(next) = Updates(run[w])  BY <2>2, SameRun
  <2>4. run'[w] = next /\ ledger' = ledger /\ reported' = reported /\ settled' = settled
    BY <1>3, <2>1 DEF Update, records
  <2> HIDE DEF next
  <2>5. \A e \in Endpoints :
          /\ Doubted(e)' \/ (alexa'[e] = alexa[e] /\ ~Doubted(e))
          /\ <<e, "state">> \in doubt' \/ (heard'[e] = heard[e] /\ <<e, "state">> \notin doubt)
    BY <1>1 DEF Told
  <2>6. Updates(run[w])' = Updates(run[w]) /\ \A e \in Endpoints : Held(run[w], e)' = Held(run[w], e)
    BY <2>2, <2>3, <2>4 DEF Updates, Held, Row
  <2>7. RunTrue(run[w])'
    <3>1. \A e \in Endpoints : Doubted(e)' \/ alexa'[e] = Held(run[w], e)'
      <4>1. \A e \in Endpoints : Doubted(e) \/ alexa[e] = Held(run[w], e)
        BY <1>0, <2>1 DEF RunTrue, Sending
      <4>2. \A e \in Endpoints : Doubted(e)' \/ (alexa'[e] = alexa[e] /\ ~Doubted(e))
        BY <2>5
      <4>3. \A e \in Endpoints : Held(run[w], e)' = Held(run[w], e)
        BY <2>6
      <4> TAKE e \in Endpoints
      <4> QED  BY <4>1, <4>2, <4>3
    <3>2. /\ next.phase = "reporting" /\ next.first => reported'[next.target] = Absent
          /\ next.phase \in {"updating", "record"} \/ next.updated => next.rows = ledger'
          /\ next.phase \in {"updating", "deleting"} =>
               \A e \in Endpoints \ Updates(run[w]) : next.rows[e] = ledger'[e]
          /\ next.phase # "reply"
      BY <1>0, <2>1, <2>2, <2>4 DEF RunTrue, Sending
    <3>3. next.phase = "deleting" /\ next.clean =>
            \A e \in Updates(run[w]) : Doubted(e)' \/ alexa'[e] = next.seen[e]
      <4>1. \A e \in Updates(run[w]) : e \in Endpoints  BY DEF Updates
      <4> QED  BY <2>1, <2>2, <2>5, <4>1 DEF RunTrue
    <3> QED  BY <2>4, <2>6, <3>1, <3>2, <3>3 DEF RunTrue
  <2>8. StateTrue' /\ (settled' => NamesTrue')
    BY <1>0, <2>1, <2>4, <2>5, RepresentationSame DEF StateTrue, NamesTrue
  <2>9. Active(w)'  BY <2>0, <2>2, <2>4 DEF Active
  <2> QED  BY <2>7, <2>8, <2>9 DEF StaysTrue
<1> QED  BY <1>2, <1>3 DEF Unanswered

(* The token is refreshed: the updates that were accepted are committed.    *)
LEMMA RefreshTrue ==
  ASSUME TruthInv, NEW w \in Workers, run[w].alone, NEW n \in 0..Attempts, Refresh(w, n)
  PROVE  StaysTrue(w)
<1> DEFINE r == run[w]
           next == [run[w] EXCEPT !.attempt = n, !.updated = @ /\ run[w].phase # "deleting"]
<1>0. Active(w) /\ Sending(w)  BY DEF Refresh, Sending, Active
<1>1. /\ RunTrue(r) /\ StateTrue /\ r \in Runs /\ run \in [Workers -> Runs]
      /\ settled => NamesTrue
      /\ r.updated => r.phase = "deleting"
  BY <1>0, Alone
<1>2. ~Conflict(r, r.updated)  BY <1>1 DEF RunTrue, Conflict
<1>3. /\ UNCHANGED <<entities, reported, remote, doubt, settled>>
      /\ run' = [run EXCEPT ![w] = next]
      /\ ledger' = IF r.phase = "deleting" THEN Wrote(r, FALSE) ELSE ledger
  BY <1>2 DEF Refresh, Update
<1>4. /\ next.phase = r.phase /\ next.seen = r.seen /\ next.rows = r.rows
      /\ next.kind = r.kind /\ ~next.updated /\ next.clean = r.clean
      /\ next.first = r.first /\ next.target = r.target
  <2>1. next.updated = (r.updated /\ r.phase # "deleting")  BY <1>1 DEF Runs
  <2> QED  BY <1>1, <2>1 DEF Runs
<1>5. Updates(next) = Updates(r)  BY <1>4, SameRun
<1>6. \A e \in Endpoints :
        ledger'[e] = IF r.updated /\ e \in Updates(r) /\ r.rows[e] # r.seen[e] THEN r.seen[e]
                     ELSE ledger[e]
  BY <1>1, <1>3 DEF Wrote
<1>7. \A e \in Updates(r) : e \in Endpoints /\ r.seen[e] \in Names
  BY <1>1 DEF Updates, Runs, Published
<1>8. \A e \in Endpoints : Row(e)' = Held(r, e)
  <2> SUFFICES ASSUME NEW e \in Endpoints PROVE Row(e)' = Held(r, e)  OBVIOUS
  <2>1. CASE r.updated /\ e \in Updates(r)
    <3>1. r.rows = ledger  BY <1>1, <2>1 DEF RunTrue
    <3>2. ledger'[e] = r.seen[e] /\ r.seen[e] \in Names  BY <1>6, <1>7, <2>1, <3>1
    <3> QED  BY <2>1, <3>2, EventsAssumption DEF Row, Held
  <2>2. CASE ~(r.updated /\ e \in Updates(r))
    BY <1>6, <2>2 DEF Row, Held
  <2> QED  BY <2>1, <2>2
<1>9. /\ r.phase # "deleting" => ledger' = ledger
      /\ \A e \in Endpoints \ Updates(r) : ledger'[e] = ledger[e]
  BY <1>3, <1>6
<1>10. \A e \in Endpoints : Doubted(e) \/ alexa[e] = Held(r, e)
  BY <1>0, <1>1 DEF RunTrue, Sending
<1> HIDE DEF next, r
<1>17. run'[w] = next  BY <1>1, <1>3
<1>18. r = run[w]  BY DEF r
<1>11. Updates(run[w])' = Updates(r) /\ \A e \in Endpoints : Held(run[w], e)' = Row(e)'
  BY <1>4, <1>5, <1>17 DEF Updates, Held
<1>12. \A e \in Endpoints : Doubted(e)' \/ alexa'[e] = Held(run[w], e)'
  BY <1>3, <1>8, <1>10, <1>11 DEF Doubted, remote
<1>13. /\ (next.phase = "reporting" /\ next.first => reported'[next.target] = Absent)
       /\ (next.phase \in {"updating", "record"} => next.rows = ledger')
       /\ (next.phase \in {"updating", "deleting"} =>
             \A e \in Endpoints \ Updates(r) : next.rows[e] = ledger'[e])
       /\ (next.phase = "deleting" /\ next.clean =>
             \A e \in Updates(r) : Doubted(e)' \/ alexa'[e] = next.seen[e])
       /\ next.phase # "reply"
  <2>1. RunTrue(r)  BY <1>1
  <2>2. next.phase = "reporting" /\ next.first => reported'[next.target] = Absent
    BY <1>3, <1>4, <2>1 DEF RunTrue
  <2>3. next.phase \in {"updating", "record"} => next.rows = ledger'
    BY <1>4, <1>9, <2>1 DEF RunTrue
  <2>4. next.phase \in {"updating", "deleting"} =>
          \A e \in Endpoints \ Updates(r) : next.rows[e] = ledger'[e]
    BY <1>4, <1>9, <2>1 DEF RunTrue
  <2>5. next.phase = "deleting" /\ next.clean =>
          \A e \in Updates(r) : Doubted(e)' \/ alexa'[e] = next.seen[e]
    <3>1. ASSUME next.phase = "deleting", next.clean, NEW e \in Updates(r)
          PROVE  Doubted(e)' \/ alexa'[e] = next.seen[e]
      <4>1. Doubted(e) \/ alexa[e] = r.seen[e]  BY <1>4, <2>1, <3>1 DEF RunTrue
      <4> QED  BY <1>3, <1>4, <4>1 DEF Doubted, remote
    <3> QED  BY <3>1
  <2>6. next.phase # "reply"  BY <1>0, <1>4, <1>18 DEF Sending
  <2> QED  BY <2>2, <2>3, <2>4, <2>5, <2>6
<1>14. RunTrue(run[w])'
  BY <1>4, <1>17, <1>11, <1>12, <1>13 DEF RunTrue
<1>15. StateTrue' /\ (settled' => NamesTrue')
  BY <1>1, <1>3, RepresentationSame DEF StateTrue, NamesTrue, Doubted, remote
<1>16. Active(w)'  BY <1>0, <1>4, <1>17, <1>18 DEF Active
<1> QED  BY <1>14, <1>15, <1>16 DEF StaysTrue

(* A Discover records its answer before it sends it.                        *)
LEMMA RecordTrue ==
  ASSUME TruthInv, NEW w \in Workers, run[w].alone, Record(w)
  PROVE  StaysTrue(w)
<1> DEFINE r == run[w]
           next == [run[w] EXCEPT !.phase = "reply"]
<1>0. Active(w) /\ r.phase = "record"  BY DEF Record, Active
<1>1. /\ RunTrue(r) /\ StateTrue /\ r \in Runs /\ run \in [Workers -> Runs]
      /\ settled => NamesTrue /\ ledger \in Ledgers
      /\ ~r.updated
  BY <1>0, Alone
<1>2. r.rows = ledger  BY <1>0, <1>1 DEF RunTrue
<1>3. /\ UNCHANGED <<entities, reported, remote, doubt, settled>>
      /\ run' = [run EXCEPT ![w] = next]
      /\ ledger' = [e \in Endpoints |->
           CASE r.seen[e] # Gone /\ r.rows[e] # r.seen[e] -> r.seen[e]
             [] r.seen[e] = Gone /\ r.rows[e] \in Names    -> Gone
             [] OTHER                                      -> ledger[e]]
  BY <1>2 DEF Record, Update
<1>4. \A e \in Endpoints : Row(e)' = r.seen[e]
  <2> SUFFICES ASSUME NEW e \in Endpoints PROVE Row(e)' = r.seen[e]  OBVIOUS
  <2>1. r.seen[e] \in Names \cup {Gone} /\ ledger[e] \in Names \cup {Gone, Absent}
    <3>1. run[w] \in Runs /\ ledger \in Ledgers  BY DEF TruthInv, IInv, TypeOK
    <3>2. r.seen \in Published  BY <3>1 DEF Runs
    <3> HIDE DEF r
    <3> QED  BY <3>1, <3>2 DEF Published, Ledgers
  <2>2. CASE r.seen[e] # Gone /\ r.rows[e] # r.seen[e]
    <3>1. ledger'[e] = r.seen[e]  BY <1>3, <2>2
    <3> QED  BY <2>1, <2>2, <3>1, EventsAssumption DEF Row
  <2>3. CASE r.seen[e] = Gone /\ r.rows[e] \in Names
    <3>1. ledger'[e] = Gone  BY <1>3, <2>3
    <3> QED  BY <2>3, <3>1, EventsAssumption DEF Row
  <2>4. CASE ~(r.seen[e] # Gone /\ r.rows[e] # r.seen[e]) /\ ~(r.seen[e] = Gone /\ r.rows[e] \in Names)
    <3>1. ledger'[e] = ledger[e]  BY <1>3, <2>4
    <3> QED  BY <1>2, <2>1, <2>4, <3>1, EventsAssumption DEF Row
  <2> QED  BY <2>2, <2>3, <2>4
<1>5. next.phase = "reply" /\ next.seen = r.seen /\ ~next.updated  BY <1>1 DEF Runs
<1> HIDE DEF next
<1>6. run'[w] = next  BY <1>1, <1>3
<1>7. RunTrue(run[w])'  BY <1>4, <1>5, <1>6 DEF RunTrue
<1>8. StateTrue' /\ (settled' => NamesTrue')
  BY <1>1, <1>3, RepresentationSame DEF StateTrue, NamesTrue, Doubted, remote
<1> QED  BY <1>5, <1>6, <1>7, <1>8 DEF StaysTrue, Active

(* The answer to a Discover arrives or is lost.                             *)
LEMMA ReplyTrue ==
  ASSUME TruthInv, NEW w \in Workers, run[w].alone, Reply(w) \/ ReplyLost(w)
  PROVE  StaysTrue(w)
<1>0. Active(w) /\ run[w].phase = "reply"  BY DEF Reply, ReplyLost, Active
<1>1. /\ RunTrue(run[w]) /\ StateTrue /\ run \in [Workers -> Runs]
      /\ settled => \A e \in Endpoints : run[w].seen[e] = Representation(e)
  BY <1>0, Alone DEF Late
<1>2. ~Active(w)'  BY <1>1 DEF Reply, ReplyLost, Update, Active, NoRun
<1>3. CASE Reply(w)
  <2>1. /\ alexa' = run[w].seen /\ doubt' = doubt \ (Endpoints \X {"name"})
        /\ settled' = (settled \/ Complete(run[w]))
        /\ UNCHANGED <<entities, records, heard>>
    BY <1>3 DEF Reply
  <2>2. RowsTrue'  BY <1>0, <1>1, <2>1 DEF RowsTrue, RunTrue, Row, records
  <2>3. StateTrue'
    BY <1>1, <2>1 DEF StateTrue, records
  <2>4. settled' => \A e \in Endpoints : run[w].seen[e] = Representation(e)
    <3>1. settled' => settled \/ Complete(run[w])  BY <2>1
    <3> QED  BY <1>1, <3>1 DEF Complete
  <2>5. settled' => NamesTrue'
    BY <2>1, <2>4, RepresentationSame DEF NamesTrue
  <2> QED  BY <1>2, <2>2, <2>3, <2>5 DEF StaysTrue
<1>4. CASE ReplyLost(w)
  <2>1. doubt' = Doubts  BY <1>4 DEF ReplyLost
  <2> QED  BY <1>2, <2>1 DEF StaysTrue, StateTrue, RowsTrue, NamesTrue, Doubted, Doubts
<1> QED  BY <1>3, <1>4

(* A step of any run.                                                       *)
LEMMA StepTruth ==
  ASSUME TruthInv, IInv', NEW w \in Workers, Step(w)
  PROVE  AloneInv' /\ TrueInv' /\ SettledInv'
<1>1. StepFacts(w)  BY EveryStep DEF TruthInv
<1>2. CASE ~run[w].alone  BY <1>1, <1>2, AmongOthers
<1>3. CASE run[w].alone
  <2>1. ASSUME Accepted(w) PROVE StaysTrue(w)
    <3>1. Told(w, TRUE)  BY <1>3, <2>1, AcceptedTold
    <3> QED  BY <1>3, <2>1, <3>1, SentTrue DEF Accepted
  <2>2. ASSUME Rejected(w) \/ RefreshFailed(w) PROVE StaysTrue(w)
    <3>1. UNCHANGED <<remote, doubt, entities>> /\ Sending(w) /\ Sent(w, FALSE)
      BY <2>2 DEF Rejected, RefreshFailed
    <3> QED  BY <1>3, <3>1, UntoldFalse, SentTrue
  <2>3. StaysTrue(w)
    BY <1>3, <2>1, <2>2, ReportTrue, ReadTrue, CompareTrue, UnansweredTrue, RefreshTrue,
       RecordTrue, ReplyTrue
    DEF Step
  <2> QED  BY <1>1, <1>3, <2>3, AloneStep
<1> QED  BY <1>2, <1>3

(* A run that begins, alone or not.                                         *)
LEMMA StartTruth ==
  ASSUME TruthInv, IInv', NEW w \in Workers, Start(w)
  PROVE  AloneInv' /\ TrueInv' /\ SettledInv'
<1>1. \E kind \in {"changes", "resync", "discover"}, phase \in {"report", "read"},
         e \in Endpoints :
        Begin(w, kind, phase, e) /\ (phase = "report" => ~settled')
  BY DEF Start, HomeChange, StateChange, Edit, Resync, Discover, TruthInv, IInv, TypeOK, Runs
<1>2. UNCHANGED <<records, remote>> /\ (~settled' \/ UNCHANGED <<entities, settled>>)
  BY DEF Start, HomeChange, StateChange, Edit, Resync, Discover
<1>3. PICK kind \in {"changes", "resync", "discover"}, phase \in {"report", "read"},
           e \in Endpoints :
        Begin(w, kind, phase, e) /\ (phase = "report" => ~settled')
  BY <1>1
<1> DEFINE new == [NoRun EXCEPT !.phase = phase, !.kind = kind, !.target = e, !.alone = Idle]
<1>4. /\ new.phase = phase /\ new.alone = Idle /\ ~new.updated /\ ~new.first
  BY DEF NoRun
<1>5. /\ ~Active(w)
      /\ run'[w] = new
      /\ \A v \in Workers \ {w} : run'[v] = [run[v] EXCEPT !.alone = FALSE]
      /\ doubt' = IF Idle THEN doubt ELSE Doubts
  BY <1>3 DEF Begin
<1> HIDE DEF new
<1>6. \A v \in Workers \ {w} :
        run'[v].phase = run[v].phase /\ run'[v].seen = run[v].seen /\ ~run'[v].alone
  <2> SUFFICES ASSUME NEW v \in Workers \ {w}
               PROVE  run'[v].phase = run[v].phase /\ run'[v].seen = run[v].seen /\ ~run'[v].alone
    OBVIOUS
  <2>1. run[v] \in Runs  BY DEF TruthInv, IInv, TypeOK
  <2>2. run'[v] = [run[v] EXCEPT !.alone = FALSE]  BY <1>5
  <2> QED  BY <2>1, <2>2 DEF Runs
<1>7. Active(w)'  BY <1>4, <1>5 DEF Active
<1>8. AloneInv'
  <2>1. CASE Idle
    BY <1>4, <1>5, <1>6, <2>1 DEF AloneInv, Active, Idle
  <2>2. CASE ~Idle
    BY <1>4, <1>5, <1>6, <2>2 DEF AloneInv
  <2> QED  BY <2>1, <2>2
<1>9. TrueInv'
  <2>1. CASE Idle
    <3>1. RowsTrue' /\ StateTrue'
      BY <1>2, <1>5, <2>1 DEF RowsTrue, StateTrue, TruthInv, TrueInv, Doubted, Row, records, remote
    <3>2. RunTrue(run[w])'
      BY <1>4, <1>5, <3>1 DEF RunTrue, Held, RowsTrue
    <3>3. ~Idle'  BY <1>7 DEF Idle
    <3> QED  BY <1>6, <3>1, <3>2, <3>3 DEF TrueInv, StateTrue
  <2>2. CASE ~Idle
    <3>1. doubt' = Doubts  BY <1>5, <2>2
    <3>2. \A v \in Workers : ~run'[v].alone  BY <1>4, <1>5, <1>6, <2>2
    <3> QED  BY <3>1, <3>2 DEF TrueInv, Doubted, Doubts
  <2> QED  BY <2>1, <2>2
<1>10. SettledInv'
  <2> SUFFICES ASSUME settled' PROVE SettledInv'  BY DEF SettledInv
  <2>1. settled /\ UNCHANGED entities  BY <1>2
  <2>2. \A d \in Endpoints : Representation(d)' = Representation(d)  BY <2>1, RepresentationSame
  <2>3. run'[w].phase = phase  BY <1>4, <1>5
  <2>4. \A v \in Workers : run'[v].phase \in Late =>
          \A d \in Endpoints : run'[v].seen[d] = Representation(d)'
    BY <1>6, <2>1, <2>2, <2>3 DEF TruthInv, SettledInv, Late
  <2>5. \A d \in Endpoints : Doubted(d)' \/ alexa'[d] = Representation(d)'
    <3>1. Doubts \in SUBSET Doubts /\ doubt \subseteq doubt'
      BY <1>5 DEF TruthInv, IInv, TypeOK
    <3> QED  BY <1>2, <2>1, <2>2, <3>1 DEF TruthInv, SettledInv, Doubted, remote
  <2> QED  BY <2>4, <2>5 DEF SettledInv, Late
<1> QED  BY <1>8, <1>9, <1>10

(* The authorization changes, or everything stops.                          *)
LEMMA OthersTruth ==
  ASSUME TruthInv, IInv', AcceptGrant \/ Expire \/ Crash \/ UNCHANGED vars
  PROVE  AloneInv' /\ TrueInv' /\ SettledInv'
<1>1. CASE AcceptGrant \/ Expire \/ UNCHANGED vars
  <2>1. UNCHANGED <<entities, records, remote, run, doubt, settled>>
    BY <1>1 DEF AcceptGrant, Expire, vars
  <2>2. \A e \in Endpoints : Representation(e)' = Representation(e)  BY <2>1, RepresentationSame
  <2>3. AloneInv'  BY <2>1 DEF TruthInv, AloneInv, Active
  <2>4. \A w \in Workers : RunTrue(run[w]) => RunTrue(run[w])'
    BY <2>1 DEF RunTrue, Held, Row, Doubted, Updates, records, remote
  <2>5. TrueInv'
    BY <2>1, <2>4 DEF TruthInv, TrueInv, Active, Idle, Row, Doubted, records, remote
  <2>6. SettledInv'
    BY <2>1, <2>2 DEF TruthInv, SettledInv, Doubted, remote
  <2> QED  BY <2>3, <2>5, <2>6
<1>2. CASE Crash
  <2>1. /\ \A w \in Workers : run'[w].phase = "idle"
        /\ doubt' = Doubts
    BY <1>2 DEF Crash, NoRun
  <2> QED
    BY <2>1 DEF AloneInv, TrueInv, SettledInv, Active, Doubted, Doubts
<1> QED  BY <1>1, <1>2

(* The invariant of the records holds of every behaviour.                   *)
LEMMA TruthInvariant == Spec => []TruthInv
<1>1. Init => TruthInv
  <2> SUFFICES ASSUME Init PROVE TruthInv  OBVIOUS
  <2>1. \A w \in Workers : run[w].phase = "idle"  BY DEF Init, NoRun
  <2>2. AloneInv /\ SettledInv  BY <2>1 DEF Init, AloneInv, SettledInv, Active
  <2>3. TrueInv  BY <2>1 DEF Init, TrueInv, Active, Row
  <2> QED  BY <2>2, <2>3, InitOK DEF TruthInv
<1>2. TruthInv /\ [Next]_vars => TruthInv'
  <2> SUFFICES ASSUME TruthInv, [Next]_vars PROVE TruthInv'  OBVIOUS
  <2>1. IInv'  BY StepOK DEF TruthInv
  <2> QED  BY <2>1, StepTruth, StartTruth, OthersTruth DEF Next, TruthInv
<1> QED  BY <1>1, <1>2, PTL DEF Spec

(* What the service recorded as told to Alexa is what Alexa has, for names  *)
(* and for states, but where runs of report_entity or reconcile_discovery   *)
(* overlapped, an answer was lost or the process stopped before a commit.   *)
THEOREM LedgerTrueAlways == Spec => []LedgerTrue
<1>1. TruthInv => LedgerTrue
  BY DEF TruthInv, TrueInv, LedgerTrue, Doubted
<1> QED  BY <1>1, TruthInvariant, PTL

(* A run whose reports were all accepted leaves Alexa with exactly the      *)
(* endpoints exposed under a name of their own, until something changes     *)
(* (reconcile_discovery and _send of alexa_events.py).                      *)
THEOREM ReconciledAlways == Spec => []Reconciled
<1>1. TruthInv => Reconciled
  BY DEF TruthInv, SettledInv, Reconciled, Doubted
<1> QED  BY <1>1, TruthInvariant, PTL
=============================================================================
