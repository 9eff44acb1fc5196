-------------------------- MODULE DirectivesProofs --------------------------
(***************************************************************************)
(* Proofs about Directives, for any set of entities, percentages and        *)
(* temperatures: what is said is what is done, whoever works from an old    *)
(* copy, and what Alexa is told is what was published and commanded.        *)
(***************************************************************************)
EXTENDS Directives, TLAPS

-----------------------------------------------------------------------------
(* A percentage comes back from its brightness                              *)

LEMMA BrightnessNear ==
  ASSUME NEW p \in 0..100
  PROVE  /\ Brightness(p) \in 0..255
         /\ 100 * Brightness(p) <= 255 * p + 50
         /\ 100 * Brightness(p) >= 255 * p - 50
  BY DEF Brightness, Round

LEMMA PercentOfBrightness ==
  ASSUME NEW p \in 0..100
  PROVE  Percent(Brightness(p)) = p
  <1>1. ASSUME NEW b \in 0..255, 100 * b <= 255 * p + 50, 100 * b >= 255 * p - 50
        PROVE  Percent(b) = p
    BY <1>1 DEF Percent, Round
  <1>. QED  BY <1>1, BrightnessNear

-----------------------------------------------------------------------------
(* What the words mean, interface by interface                              *)

(* The commands that are made of words, by Alexa or by the console.         *)
Meant(w, e) == IF w.by = "console" THEN {ConsoleOrder(w)} ELSE Orders(w, e)

(* What the Connector records when it carries out a command.                *)
Calls(o, e) ==
  [status |-> "success", service |-> Service[o.operation], mode |-> With(o),
   level |-> o.level, entity |-> e]

Fit(w, o, e) == Fits(w.said, w.mode, w.level, e.level, Calls(o, e))

LEMMA PowerMeaning ==
  ASSUME NEW w \in Vocabulary,
         w.by \in {"Alexa.PowerController", "Alexa.ToggleController"},
         NEW e \in Rows, NEW o \in Orders(w, e), NEW f
  PROVE  Fit(w, o, f)
  <1>1. \/ w.said = "on" /\ w.name = "TurnOn" /\ w.by = "Alexa.PowerController"
        \/ w.said = "off" /\ w.name = "TurnOff" /\ w.by = "Alexa.PowerController"
        \/ w.said = "open" /\ w.name = "TurnOn" /\ w.by = "Alexa.ToggleController"
        \/ w.said = "close" /\ w.name = "TurnOff" /\ w.by = "Alexa.ToggleController"
    BY DEF Vocabulary, Say
  <1>2. CASE w.by = "Alexa.PowerController"
    <2>1. o \in PowerOrders(w, e)  BY <1>2 DEF Orders
    <2>2. \/ /\ w.said = "on"
             /\ o \in {Order("open", "-", 0), Order("power_on", "-", 0),
                       Order("set_hvac_mode", "heat", 0)}
          \/ /\ w.said = "off"
             /\ o \in {Order("close", "-", 0), Order("power_off", "-", 0),
                       Order("set_hvac_mode", "off", 0)}
      BY <1>1, <1>2, <2>1 DEF PowerOrders, Do
    <2>. QED  BY <2>2 DEF Fit, Fits, Calls, Service, With, Order
  <1>3. CASE w.by = "Alexa.ToggleController"
    <2>1. \/ w.said = "open" /\ o = Order("power_on", "-", 0)
          \/ w.said = "close" /\ o = Order("power_off", "-", 0)
      BY <1>1, <1>3 DEF Orders, Do
    <2>. QED  BY <2>1 DEF Fit, Fits, Calls, Service, With, Order
  <1>. QED  BY <1>2, <1>3

LEMMA LightMeaning ==
  ASSUME NEW w \in Vocabulary,
         w.by \in {"Alexa.BrightnessController", "Alexa.ColorController",
                   "Alexa.ColorTemperatureController"},
         NEW e \in Rows, NEW o \in Orders(w, e), NEW f
  PROVE  Fit(w, o, f)
  <1>1. CASE w.by = "Alexa.BrightnessController"
    <2>1. w.said = "brightness" /\ w.level \in 0..100
      BY <1>1, DirectivesAssumption DEF Vocabulary, Say
    <2>2. o = Order("set_brightness", "-", Brightness(w.level))  BY <1>1 DEF Orders
    <2>. QED  BY <2>1, <2>2, PercentOfBrightness DEF Fit, Fits, Calls, Service, With, Order
  <1>2. CASE w.by = "Alexa.ColorController"
    <2>1. w.said = "color" /\ o = Order("set_color", "-", 0)
      BY <1>2 DEF Vocabulary, Say, Orders, Do
    <2>. QED  BY <2>1 DEF Fit, Fits, Calls, Service, With, Order
  <1>3. CASE w.by = "Alexa.ColorTemperatureController"
    <2>1. w.said = "white" /\ o = Order("set_color_temperature", "-", 0)
      BY <1>3 DEF Vocabulary, Say, Orders, Do
    <2>. QED  BY <2>1 DEF Fit, Fits, Calls, Service, With, Order
  <1>. QED  BY <1>1, <1>2, <1>3

(* The cover did not move since its position was synchronized.              *)
Stood(e, f) == "current_position" \in e.attributes /\ e.level = f.level

LEMMA RangeMeaning ==
  ASSUME NEW w \in Vocabulary, w.by = "Alexa.RangeController",
         NEW e \in Rows, e.domain = "cover" => e.level \in 0..100,
         NEW o \in Orders(w, e), NEW f, w.said \in {"raise", "lower"} => Stood(e, f)
  PROVE  Fit(w, o, f)
  <1>1. Ranges(e) /\ e.level \in 0..100
    BY DEF Orders, RangeOrders, Ranges
  <1>2. \/ w.said = "open" /\ w.name = "SetRangeValue" /\ w.level = 100
        \/ w.said = "close" /\ w.name = "SetRangeValue" /\ w.level = 0
        \/ w.said = "position" /\ w.name = "SetRangeValue"
        \/ w.said = "raise" /\ w.name = "AdjustRangeValue" /\ w.level = 10
        \/ w.said = "lower" /\ w.name = "AdjustRangeValue" /\ w.level = -10
    BY DEF Vocabulary, Say
  <1>3. o = Order("set_position", "-",
                  IF w.name = "SetRangeValue" THEN w.level ELSE Adjusted(w, e))
    BY <1>1 DEF Orders, RangeOrders
  <1>4. CASE w.said \in {"raise", "lower"}
    <2>1. f.level = e.level /\ "current_position" \in e.attributes  BY <1>4 DEF Stood
    <2>2. /\ w.said = "raise" => Adjusted(w, e) >= f.level
          /\ w.said = "lower" => Adjusted(w, e) <= f.level
      BY <1>1, <1>2, <2>1 DEF Adjusted
    <2>. QED  BY <1>2, <1>3, <1>4, <2>2 DEF Fit, Fits, Calls, Service, With, Order
  <1>5. CASE w.said \notin {"raise", "lower"}
    BY <1>2, <1>3, <1>5 DEF Fit, Fits, Calls, Service, With, Order
  <1>. QED  BY <1>4, <1>5

LEMMA ModeMeaning ==
  ASSUME NEW w \in Vocabulary,
         w.by \in {"Alexa.ModeController", "Alexa.PlaybackController"},
         NEW e \in Rows, NEW o \in Orders(w, e), NEW f
  PROVE  Fit(w, o, f)
  <1>1. \/ w.said = "open" /\ w.mode \in {"Position.Up", "position.open"}
        \/ w.said = "close" /\ w.mode \in {"Position.Down", "position.closed"}
        \/ w.said = "stop" /\ w.mode = "position.custom"
        \/ w.said = "stop" /\ w.by = "Alexa.PlaybackController"
    BY DEF Vocabulary, Say
  <1>2. w.by = "Alexa.ModeController" => o \in ModeOrders(w, e)  BY DEF Orders
  <1>3. w.by = "Alexa.PlaybackController" => o \in StopOrders(e)  BY DEF Orders
  <1>4. \/ w.said = "open" /\ o = Order("open", "-", 0)
        \/ w.said = "close" /\ o = Order("close", "-", 0)
        \/ w.said = "stop" /\ o = Order("stop", "-", 0)
    <2>1. CASE w.by = "Alexa.ModeController"
      <3>1. w.mode \in {"Position.Up", "Position.Down", "position.open",
                        "position.closed", "position.custom"}
        BY <2>1 DEF Vocabulary, Say
      <3>. QED  BY <1>1, <1>2, <2>1, <3>1 DEF ModeOrders, StopOrders, Do
    <2>2. CASE w.by = "Alexa.PlaybackController"
      <3>1. w.said = "stop"  BY <2>2 DEF Vocabulary, Say
      <3>. QED  BY <1>3, <2>2, <3>1 DEF StopOrders, Do
    <2>. QED  BY <2>1, <2>2
  <1>. QED  BY <1>4 DEF Fit, Fits, Calls, Service, With, Order

LEMMA ThermostatMeaning ==
  ASSUME NEW w \in Vocabulary, w.by = "Alexa.ThermostatController",
         NEW e \in Rows, NEW o \in Orders(w, e), NEW f
  PROVE  Fit(w, o, f)
  <1>1. \/ w.said = "temperature" /\ w.name = "SetTargetTemperature"
        \/ w.said = "mode" /\ w.name = "SetThermostatMode"
    BY DEF Vocabulary, Say
  <1>2. o \in ThermostatOrders(w, e)  BY DEF Orders
  <1>3. CASE w.said = "temperature"
    <2>1. o = Order("set_target_temperature", "-", w.level)
      BY <1>1, <1>2, <1>3 DEF ThermostatOrders
    <2>. QED  BY <1>3, <2>1 DEF Fit, Fits, Calls, Service, With, Order
  <1>4. CASE w.said = "mode"
    <2>1. PICK h \in e.modes \cap DOMAIN AlexaMode :
            AlexaMode[h] = w.mode /\ o = Order("set_hvac_mode", h, 0)
      BY <1>1, <1>2, <1>4 DEF ThermostatOrders
    <2>2. Calls(o, f).service = "set_hvac_mode" /\ Calls(o, f).mode = h
      BY <2>1 DEF Calls, Service, With, Order
    <2>. QED  BY <1>4, <2>1, <2>2 DEF Fit, Fits
  <1>. QED  BY <1>1, <1>3, <1>4

LEMMA OtherMeaning ==
  ASSUME NEW w \in Vocabulary,
         w.by \in {"Alexa.PercentageController", "Alexa.SceneController"},
         NEW e \in Rows, NEW o \in Orders(w, e), NEW f
  PROVE  Fit(w, o, f)
  <1>1. \/ /\ w.said = "percentage" /\ w.by = "Alexa.PercentageController"
           /\ o = Order("set_percentage", "-", w.level)
        \/ /\ w.said = "activate" /\ w.by = "Alexa.SceneController"
           /\ o = Order("activate", "-", 0)
    BY DEF Vocabulary, Say, Orders, Do
  <1>. QED  BY <1>1 DEF Fit, Fits, Calls, Service, With, Order

LEMMA ConsoleMeaning ==
  ASSUME NEW w \in ConsoleVocabulary, NEW f
  PROVE  Fit(w, ConsoleOrder(w), f)
  <1>1. \/ w.said = "on" /\ w.name = "power_on" /\ w.mode = "-"
        \/ w.said = "off" /\ w.name = "power_off" /\ w.mode = "-"
        \/ w.said = "open" /\ w.name = "open"
        \/ w.said = "close" /\ w.name = "close"
        \/ w.said = "stop" /\ w.name = "stop"
        \/ w.said = "activate" /\ w.name = "activate"
        \/ w.said = "brightness" /\ w.name = "set_brightness" /\ w.level \in 0..100
        \/ w.said = "position" /\ w.name = "set_position"
        \/ w.said = "percentage" /\ w.name = "set_percentage"
        \/ w.said = "temperature" /\ w.name = "set_target_temperature"
        \/ w.said = "hvac_mode" /\ w.name = "set_hvac_mode"
    BY DirectivesAssumption DEF ConsoleVocabulary, Say
  <1>2. CASE w.name = "set_brightness"
    <2>1. ConsoleOrder(w) = Order("set_brightness", w.mode, Brightness(w.level))
      BY <1>2 DEF ConsoleOrder
    <2>. QED  BY <1>1, <1>2, <2>1, PercentOfBrightness
              DEF Fit, Fits, Calls, Service, With, Order
  <1>3. CASE w.name # "set_brightness"
    <2>1. ConsoleOrder(w) = Order(w.name, w.mode, w.level)
      BY <1>3 DEF ConsoleOrder
    <2>. QED  BY <1>1, <1>3, <2>1 DEF Fit, Fits, Calls, Service, With, Order
  <1>. QED  BY <1>2, <1>3

LEMMA Meaning ==
  ASSUME NEW w \in Vocabulary \cup ConsoleVocabulary,
         NEW e \in Rows, e.domain = "cover" => e.level \in 0..100,
         NEW o \in Meant(w, e), NEW f, w.said \in {"raise", "lower"} => Stood(e, f)
  PROVE  Fit(w, o, f)
  <1>1. CASE w \in ConsoleVocabulary
    <2>1. w.by = "console"  BY <1>1 DEF ConsoleVocabulary, Say
    <2>2. o = ConsoleOrder(w)  BY <2>1 DEF Meant
    <2>. QED  BY <1>1, <2>2, ConsoleMeaning
  <1>2. CASE w \in Vocabulary
    <2>1. w.by \in {"Alexa.PowerController", "Alexa.ToggleController",
                    "Alexa.BrightnessController", "Alexa.ColorController",
                    "Alexa.ColorTemperatureController", "Alexa.RangeController",
                    "Alexa.ModeController", "Alexa.PlaybackController",
                    "Alexa.ThermostatController", "Alexa.PercentageController",
                    "Alexa.SceneController"}
      BY <1>2 DEF Vocabulary, Say
    <2>2. o \in Orders(w, e)  BY <2>1 DEF Meant
    <2>. QED  BY <1>2, <2>1, <2>2, PowerMeaning, LightMeaning, RangeMeaning,
                 ModeMeaning, ThermostatMeaning, OtherMeaning
  <1>. QED  BY <1>1, <1>2

-----------------------------------------------------------------------------
(* The invariant: the command belongs to the words and to the row that was  *)
(* read for them, and what was called to the command.                       *)
Positioned(e) == e.domain = "cover" => e.level \in 0..100

Said ==
  /\ asked \in Vocabulary \cup ConsoleVocabulary
  /\ order \in Meant(asked, read)

HandlingInv ==
  /\ Positioned(home) /\ Positioned(copy) /\ Positioned(read)
  /\ phase \in {"sent", "executed"} => Said
  /\ phase \in {"idle", "sent"} => called.status = "-"
  /\ called.status = "success" => Said /\ called = Calls(order, called.entity)

IInv == TypeOK /\ HandlingInv

LEMMA Vocabularies ==
  ASSUME NEW e
  PROVE  Words(e) \subseteq Vocabulary /\ ConsoleWords(e) \subseteq ConsoleVocabulary
  BY DEF Words, ConsoleWords

LEMMA OrderMeant ==
  /\ \A w \in Vocabulary : \A e : Meant(w, e) = Orders(w, e)
  /\ \A w \in ConsoleVocabulary : \A e : Meant(w, e) = {ConsoleOrder(w)}
  <1>1. \A w \in Vocabulary : w.by # "console"  BY DEF Vocabulary, Say
  <1>2. \A w \in ConsoleVocabulary : w.by = "console"  BY DEF ConsoleVocabulary, Say
  <1>. QED  BY <1>1, <1>2 DEF Meant

LEMMA InitHolds == Init => IInv
  <1>. SUFFICES ASSUME Init  PROVE IInv  OBVIOUS
  <1>1. home \in Rows /\ home.type = "auto" /\ Positioned(home)
    BY DirectivesAssumption DEF Init, Positioned
  <1>2. TypeOK
    <2>1. home.type \in AllowedTypes(home)  BY <1>1 DEF AllowedTypes, DeviceTypes
    <2>. QED  BY <1>1, <2>1, DirectivesAssumption DEF Init, TypeOK, NoCall
  <1>3. HandlingInv  BY <1>1 DEF Init, HandlingInv, NoCall
  <1>. QED  BY <1>2, <1>3 DEF IInv

LEMMA CopiesKeep ==
  ASSUME IInv, Copies
  PROVE  IInv'
  <1>. USE DEF IInv
  <1>1. ASSUME NEW e \in Entities, Change(e)
        PROVE  IInv'
    <2>1. e \in Rows /\ Positioned(e)  BY DirectivesAssumption DEF Positioned
    <2>2. TypeOK'
      BY <1>1, <2>1, DirectivesAssumption DEF Change, TypeOK, flight
    <2>3. HandlingInv'
      BY <1>1, <2>1 DEF Change, HandlingInv, Positioned, Said, flight
    <2>. QED  BY <2>2, <2>3
  <1>2. ASSUME NEW mode \in CoverModes, NEW type \in DeviceTypes, Configure(mode, type)
        PROVE  IInv'
    <2>1. /\ copy' = [copy EXCEPT !.cover = mode, !.type = type]
          /\ copy \in Rows /\ copy' \in Rows
      BY <1>2 DEF Configure, TypeOK, Rows
    <2>2. /\ copy'.domain = copy.domain /\ copy'.level = copy.level /\ copy'.type = type
      BY <2>1 DEF Rows
    <2>3. AllowedTypes(copy') = AllowedTypes(copy)  BY <2>2 DEF AllowedTypes
    <2>4. TypeOK'
      BY <1>2, <2>1, <2>2, <2>3, DirectivesAssumption DEF Configure, TypeOK, flight
    <2>5. HandlingInv'
      BY <1>2, <2>2 DEF Configure, HandlingInv, Positioned, Said, flight
    <2>. QED  BY <2>4, <2>5
  <1>3. CASE Sync
    <2>1. /\ copy' = [home EXCEPT !.cover = copy.cover, !.type = copy.type]
          /\ home \in Rows /\ copy \in Rows
      BY <1>3, DirectivesAssumption DEF Sync, TypeOK
    <2>2. /\ copy' \in Rows
          /\ copy'.domain = home.domain /\ copy'.level = home.level /\ copy'.type = copy.type
      BY <2>1 DEF Rows
    <2>3. AllowedTypes(copy') = AllowedTypes(copy)  BY <2>2 DEF AllowedTypes, TypeOK
    <2>4. TypeOK'  BY <1>3, <2>2, <2>3 DEF Sync, TypeOK, flight
    <2>5. HandlingInv'
      BY <1>3, <2>2 DEF Sync, HandlingInv, Positioned, Said, flight
    <2>. QED  BY <2>4, <2>5
  <1>4. CASE Discover
    <2>1. words' \subseteq Vocabulary  BY <1>4, Vocabularies DEF Discover
    <2>2. TypeOK'  BY <1>4, <2>1 DEF Discover, TypeOK, flight
    <2>3. HandlingInv'  BY <1>4 DEF Discover, HandlingInv, Positioned, Said, flight
    <2>. QED  BY <2>2, <2>3
  <1>. QED  BY <1>1, <1>2, <1>3, <1>4 DEF Copies

LEMMA BeginKeeps ==
  ASSUME IInv, NEW w \in Vocabulary \cup ConsoleVocabulary \cup {NoWords}, Begin(w),
         UNCHANGED <<home, copy, words, changes, called>>
  PROVE  /\ phase' \in {"sent", "answered"} => TypeOK'
         /\ phase' = "answered" => HandlingInv'
         /\ phase' = "sent" /\ Said' => HandlingInv'
  BY DEF IInv, TypeOK, HandlingInv, Begin, Positioned

LEMMA HandlingKeeps ==
  ASSUME IInv, Handling
  PROVE  IInv'
  <1>. USE DEF IInv
  <1>1. words \subseteq Vocabulary /\ phase \in {"idle", "sent", "executed", "answered"}
    BY DEF TypeOK
  <1>2. ASSUME NEW w \in words, Refused(w)
        PROVE  IInv'
    BY <1>1, <1>2, BeginKeeps DEF Refused
  <1>3. ASSUME NEW w \in words, NEW o \in Orders(w, copy), Dispatch(w, o)
        PROVE  IInv'
    <2>1. Said'  BY <1>1, <1>3, OrderMeant DEF Dispatch, Begin, Said
    <2>. QED  BY <1>1, <1>3, <2>1, BeginKeeps DEF Dispatch
  <1>4. ASSUME NEW w \in ConsoleWords(copy), Operate(w)
        PROVE  IInv'
    <2>1. w \in ConsoleVocabulary  BY Vocabularies
    <2>2. Said'  BY <1>4, <2>1, OrderMeant DEF Operate, Begin, Said
    <2>. QED  BY <1>4, <2>1, <2>2, BeginKeeps DEF Operate
  <1>5. ASSUME NEW status \in {"success", "unavailable", "invalid_argument",
                               "unsupported_command"},
               Execute(status)
        PROVE  IInv'
    <2>1. called'.entity = home /\ called'.status = status
      BY <1>5 DEF Execute, NoCall
    <2>2. status = "success" => called' = Calls(order, home)
      BY <1>5 DEF Execute, Calls
    <2>3. TypeOK'
      BY <1>5, <2>1, DirectivesAssumption DEF Execute, TypeOK
    <2>4. HandlingInv'
      BY <1>5, <2>1, <2>2 DEF Execute, HandlingInv, Positioned, Said
    <2>. QED  BY <2>3, <2>4
  <1>6. CASE ReportState
    BY <1>6, BeginKeeps DEF ReportState
  <1>7. CASE Answer
    <2>1. TypeOK'  BY <1>7 DEF Answer, TypeOK
    <2>2. HandlingInv'  BY <1>7 DEF Answer, HandlingInv, Positioned, Said
    <2>. QED  BY <2>1, <2>2
  <1>8. CASE Finished
    <2>1. TypeOK'  BY <1>8 DEF Finished, TypeOK, NoCall
    <2>2. HandlingInv'  BY <1>8 DEF Finished, HandlingInv, Positioned, NoCall
    <2>. QED  BY <2>1, <2>2
  <1>. QED  BY <1>2, <1>3, <1>4, <1>5, <1>6, <1>7, <1>8 DEF Handling

LEMMA StutterKeeps ==
  ASSUME IInv, UNCHANGED vars
  PROVE  IInv'
  BY DEF IInv, TypeOK, HandlingInv, Positioned, Said, vars

(* IInv holds in every state of every behaviour.                            *)
THEOREM Invariant == Spec => []IInv
  <1>1. IInv /\ [Next]_vars => IInv'
    BY CopiesKeep, HandlingKeeps, StutterKeeps DEF Next
  <1>. QED  BY <1>1, InitHolds, PTL DEF Spec

(* Every copy of the entity is of its domain, with a type that is allowed   *)
(* there (alexa_device_types.py), and Alexa knows no words but those of a   *)
(* discovery.                                                               *)
THEOREM TypeOKAlways == Spec => []TypeOK
  BY Invariant, PTL DEF IInv

(* The action that is called is what was said, for every entity, whatever   *)
(* of it, of the settings and of the copies changed on the way              *)
(* (alexa.py, command_executor.py).                                         *)
THEOREM MeansWhatWasSaidAlways == Spec => []MeansWhatWasSaid
  <1>1. IInv => MeansWhatWasSaid
    <2>. SUFFICES ASSUME IInv, called.status = "success",
                         ~ (asked.said \in {"raise", "lower"} /\ Stale)
                  PROVE  Fits(asked.said, asked.mode, asked.level, called.entity.level, called)
      BY DEF MeansWhatWasSaid
    <2>1. Said /\ called = Calls(order, called.entity)  BY DEF IInv, HandlingInv
    <2>2. asked.said \in {"raise", "lower"} => Stood(read, called.entity)
      BY DEF Stale, Stood
    <2>3. read \in Rows /\ Positioned(read)  BY DEF IInv, TypeOK, HandlingInv
    <2>4. Fit(asked, order, called.entity)
      BY <2>1, <2>2, <2>3, Meaning DEF Said, Positioned
    <2>. QED  BY <2>1, <2>4 DEF Fit
  <1>. QED  BY <1>1, Invariant, PTL

-----------------------------------------------------------------------------
(* Where the properties of an answer come from.                             *)
AnswerInv ==
  /\ phase = "executed" =>
       called.status \in {"success", "unavailable", "invalid_argument", "unsupported_command"}
  /\ phase # "answered" => answer = NoAnswer
  /\ answer.type = "StateReport" => answer.properties = StateProperties(read)
  /\ answer.type = "Response" => /\ called.status = "success" /\ asked.by # "console"
                                 /\ answer.properties = ResponseProperties(order, read)
  /\ answer.type \notin {"StateReport", "Response"} => answer.properties = {}

LEMMA AnswerKeeps ==
  ASSUME IInv, AnswerInv, [Next]_vars
  PROVE  AnswerInv'
  <1>1. ASSUME UNCHANGED flight
        PROVE  AnswerInv'
    BY <1>1 DEF AnswerInv, flight
  <1>2. CASE Copies
    BY <1>1, <1>2 DEF Copies, Change, Configure, Sync, Discover
  <1>3. ASSUME NEW w \in words, Refused(w)
        PROVE  AnswerInv'
    BY <1>3 DEF Refused, Error, AnswerInv
  <1>4. ASSUME NEW w \in words, NEW o \in Orders(w, copy), Dispatch(w, o)
        PROVE  AnswerInv'
    BY <1>4 DEF Dispatch, Begin, AnswerInv, NoAnswer
  <1>5. ASSUME NEW w \in ConsoleWords(copy), Operate(w)
        PROVE  AnswerInv'
    BY <1>5 DEF Operate, Begin, AnswerInv, NoAnswer
  <1>6. ASSUME NEW status \in {"success", "unavailable", "invalid_argument",
                               "unsupported_command"},
               Execute(status)
        PROVE  AnswerInv'
    <2>1. called'.status = status  BY <1>6 DEF Execute, NoCall
    <2>. QED  BY <1>6, <2>1 DEF Execute, AnswerInv, NoAnswer
  <1>7. CASE ReportState
    BY <1>7 DEF ReportState, Begin, AnswerInv
  <1>8. CASE Answer
    <2>1. CASE asked.by = "console"
      <3>1. answer' = Error(called.status)  BY <1>8, <2>1 DEF Answer
      <3>2. called.status \notin {"StateReport", "Response"}  BY <1>8 DEF Answer, AnswerInv
      <3>. QED  BY <1>8, <3>1, <3>2 DEF Answer, AnswerInv, Error
    <2>2. CASE asked.by # "console" /\ called.status # "success"
      <3>1. answer' = Error(ErrorType[called.status])  BY <1>8, <2>2 DEF Answer
      <3>2. ErrorType[called.status] \notin {"StateReport", "Response"}
        BY <1>8, <2>2 DEF Answer, AnswerInv, ErrorType
      <3>. QED  BY <1>8, <3>1, <3>2 DEF Answer, AnswerInv, Error
    <2>3. CASE asked.by # "console" /\ called.status = "success"
      <3>1. answer' = [type |-> "Response", properties |-> ResponseProperties(order, read)]
        BY <1>8, <2>3 DEF Answer
      <3>. QED  BY <1>8, <2>3, <3>1 DEF Answer, AnswerInv
    <2>. QED  BY <2>1, <2>2, <2>3
  <1>9. CASE Finished
    BY <1>9 DEF Finished, AnswerInv, NoAnswer
  <1>10. CASE UNCHANGED vars
    BY <1>1, <1>10 DEF vars, flight
  <1>. QED  BY <1>2, <1>3, <1>4, <1>5, <1>6, <1>7, <1>8, <1>9, <1>10 DEF Next, Handling

(* AnswerInv holds too, in every state of every behaviour.                  *)
THEOREM AnswerInvariant == Spec => [](IInv /\ AnswerInv)
  <1>1. Init => AnswerInv  BY DEF Init, AnswerInv, NoAnswer
  <1>. QED  BY <1>1, AnswerKeeps, Invariant, PTL DEF Spec

-----------------------------------------------------------------------------
(* What is reported is published                                            *)
Advertised(p, e) ==
  /\ p.by \in Capabilities(e)
  /\ p.name = "thermostatMode" => p.mode \in ClimateModes(e)

LEMMA StateAdvertised ==
  ASSUME NEW e \in Rows, NEW p \in StateProperties(e)
  PROVE  Advertised(p, e)
  <1>1. CASE p \in SwitchState(e)
    <2>1. \/ IsGate(e) /\ \E s : p = ToggleState(s)
          \/ PowerSwitch(e) /\ \E s : p = PowerState(s)
      BY <1>1 DEF SwitchState, PowerSwitch
    <2>2. /\ p.name # "thermostatMode"
          /\ \/ p.by = "Alexa.ToggleController" /\ IsGate(e)
             \/ p.by = "Alexa.PowerController" /\ PowerSwitch(e)
      BY <2>1 DEF ToggleState, PowerState, Property
    <2>. QED  BY <2>2 DEF Advertised, Capabilities
  <1>2. CASE e.domain = "light" /\ p \in LightState(e)
    <2>1. /\ p.name # "thermostatMode"
          /\ \/ p.by = "Alexa.BrightnessController"
             \/ p.by = "Alexa.ColorController" /\ "rgb_color" \in e.attributes
             \/ /\ p.by = "Alexa.ColorTemperatureController"
                /\ "color_temp_kelvin" \in e.attributes
      BY <1>2 DEF LightState, Property
    <2>. QED  BY <1>2, <2>1 DEF Advertised, Capabilities
  <1>3. CASE e.domain = "cover" /\ p \in CoverState(e)
    <2>1. /\ p.name # "thermostatMode"
          /\ \/ p.by = "Alexa.RangeController" /\ Ranges(e)
             \/ p.by = "Alexa.ModeController" /\ Moves(e)
      BY <1>3 DEF CoverState, Property
    <2>. QED  BY <2>1 DEF Advertised, Capabilities
  <1>4. CASE e.domain = "climate" /\ p \in ClimateState(e)
    <2>1. \/ /\ p.by = "Alexa.TemperatureSensor" /\ p.name # "thermostatMode"
             /\ "current_temperature" \in e.attributes
          \/ /\ p.by = "Alexa.ThermostatController" /\ Thermostat(e)
             /\ p.name = "thermostatMode" => p.mode \in ClimateModes(e)
      BY <1>4 DEF ClimateState, Property, TargetSetpoint, ThermostatMode
    <2>. QED  BY <1>4, <2>1 DEF Advertised, Capabilities
  <1>5. CASE /\ e.domain = "fan"
             /\ p \in {Property("Alexa.PercentageController", "percentage", "-", e.level) :
                         a \in e.attributes \cap {"percentage"}}
    BY <1>5 DEF Property, Advertised, Capabilities
  <1>. QED  BY <1>1, <1>2, <1>3, <1>4, <1>5 DEF StateProperties

(* What an order tells of the entity it was made for.                       *)
LEMMA OrderedOf ==
  ASSUME NEW w \in Vocabulary, NEW e \in Rows, NEW o \in Orders(w, e)
  PROVE  /\ w.by \in Capabilities(e)
         /\ o.operation \in DOMAIN Service
         /\ o.operation = "set_target_temperature" => Thermostat(e)
         /\ o.operation = "set_hvac_mode" =>
              /\ Thermostat(e) /\ o.mode \in e.modes \cap DOMAIN AlexaMode
              /\ w.said = "mode" => AlexaMode[o.mode] = w.mode
         /\ w.by = "Alexa.ToggleController" =>
              IsGate(e) /\ o.operation \in {"power_on", "power_off"}
         /\ w.said = "mode" => o.operation = "set_hvac_mode"
  <1>1. w.by \in Capabilities(e)  BY DEF Orders
  <1>2. w.said = "mode" => w.by = "Alexa.ThermostatController" /\ w.name = "SetThermostatMode"
    BY DEF Vocabulary, Say
  <1>3. CASE w.by = "Alexa.PowerController"
    <2>1. o \in PowerOrders(w, e) /\ PowerSwitch(e)
      BY <1>1, <1>3 DEF Orders, Capabilities
    <2>2. CASE e.domain = "climate"
      <3>1. HeatsAndStops(e)  BY <2>1, <2>2 DEF PowerSwitch
      <3>2. PICK h \in {"heat", "off"} : o = Order("set_hvac_mode", h, 0) /\ h \in e.modes
        BY <2>1, <2>2 DEF PowerOrders, IsGate, AllowedTypes
      <3>. QED  BY <1>1, <1>2, <1>3, <3>1, <3>2 DEF HeatsAndStops, Order, AlexaMode, Service
    <2>3. CASE e.domain # "climate"
      <3>1. o.operation \in {"open", "close", "power_on", "power_off"}
        BY <2>1, <2>3 DEF PowerOrders, Do, Order
      <3>. QED  BY <1>1, <1>2, <1>3, <3>1 DEF Service
    <2>. QED  BY <2>2, <2>3
  <1>4. CASE w.by = "Alexa.ToggleController"
    <2>1. IsGate(e)  BY <1>1, <1>4 DEF Capabilities
    <2>2. o.operation \in {"power_on", "power_off"}  BY <1>4 DEF Orders, Do, Order
    <2>. QED  BY <1>1, <1>2, <1>4, <2>1, <2>2 DEF Service
  <1>5. CASE w.by = "Alexa.ThermostatController"
    <2>1. Thermostat(e) /\ o \in ThermostatOrders(w, e)
      BY <1>1, <1>5 DEF Orders, Capabilities
    <2>2. CASE w.name = "SetTargetTemperature"
      <3>1. o.operation = "set_target_temperature"
        BY <2>1, <2>2 DEF ThermostatOrders, Order
      <3>. QED  BY <1>1, <1>2, <1>5, <2>1, <2>2, <3>1 DEF Service
    <2>3. CASE w.name # "SetTargetTemperature"
      <3>1. PICK h \in e.modes \cap DOMAIN AlexaMode :
              AlexaMode[h] = w.mode /\ o = Order("set_hvac_mode", h, 0)
        BY <2>1, <2>3 DEF ThermostatOrders
      <3>. QED  BY <1>1, <1>5, <2>1, <3>1 DEF Order, Service
    <2>. QED  BY <2>2, <2>3
  <1>6. CASE w.by \notin {"Alexa.PowerController", "Alexa.ToggleController",
                          "Alexa.ThermostatController"}
    <2>1. o.operation \in {"open", "close", "stop", "set_position", "set_brightness",
                           "set_color", "set_color_temperature", "set_percentage",
                           "activate"}
      BY <1>1, <1>6 DEF Orders, RangeOrders, ModeOrders, StopOrders, Do, Order
    <2>. QED  BY <1>1, <1>2, <1>6, <2>1 DEF Service
  <1>. QED  BY <1>3, <1>4, <1>5, <1>6

LEMMA ConfirmedAdvertised ==
  ASSUME NEW w \in Vocabulary, NEW e \in Rows, NEW o \in Orders(w, e),
         NEW p \in Confirmed(o, e)
  PROVE  Advertised(p, e)
  <1>1. CASE IsGate(e) /\ o.operation \in {"power_on", "power_off"}
    BY <1>1 DEF Confirmed, ToggleState, Property, Advertised, Capabilities
  <1>2. CASE o.operation = "set_target_temperature"
    <2>1. Thermostat(e) /\ p = TargetSetpoint(o.level)
      BY <1>2, OrderedOf DEF Confirmed
    <2>. QED  BY <2>1 DEF TargetSetpoint, Property, Advertised, Capabilities
  <1>3. CASE o.operation = "set_hvac_mode"
    <2>1. Thermostat(e) /\ o.mode \in e.modes \cap DOMAIN AlexaMode
      BY <1>3, OrderedOf
    <2>2. AlexaMode[o.mode] \in ClimateModes(e)
      BY <2>1 DEF Thermostat, ClimateModes
    <2>3. \/ p = ThermostatMode(AlexaMode[o.mode])
          \/ p = PowerState(OnOff(o.mode # "off")) /\ HeatsAndStops(e)
      BY <1>3, <2>1 DEF Confirmed, HeatsAndStops
    <2>4. CASE p = ThermostatMode(AlexaMode[o.mode])
      BY <2>1, <2>2, <2>4 DEF ThermostatMode, Property, Advertised, Capabilities
    <2>5. CASE p = PowerState(OnOff(o.mode # "off")) /\ HeatsAndStops(e)
      BY <2>5 DEF PowerState, Property, Advertised, Capabilities, PowerSwitch
    <2>. QED  BY <2>3, <2>4, <2>5
  <1>. QED  BY <1>1, <1>2, <1>3 DEF Confirmed

LEMMA Responding ==
  ASSUME IInv, AnswerInv, answer.type = "Response"
  PROVE  /\ asked \in Vocabulary /\ order \in Orders(asked, read) /\ read \in Rows
         /\ called = Calls(order, called.entity)
         /\ answer.properties = ResponseProperties(order, read)
  <1>1. /\ called.status = "success" /\ asked.by # "console"
        /\ answer.properties = ResponseProperties(order, read)
    BY DEF AnswerInv
  <1>2. Said /\ called = Calls(order, called.entity) /\ read \in Rows
    BY <1>1 DEF IInv, HandlingInv, TypeOK
  <1>3. asked \in Vocabulary
    BY <1>1, <1>2 DEF Said, ConsoleVocabulary, Say
  <1>. QED  BY <1>1, <1>2, <1>3 DEF Said, Meant

(* No answer reports a property of a capability that is not published, or a *)
(* thermostat mode that is not offered (state_properties, capabilities and  *)
(* _command_response_properties in alexa.py).                               *)
THEOREM ReportedIsAdvertisedAlways == Spec => []ReportedIsAdvertised
  <1>1. IInv /\ AnswerInv => ReportedIsAdvertised
    <2>. SUFFICES ASSUME IInv, AnswerInv, NEW p \in answer.properties
                  PROVE  Advertised(p, read)
      BY DEF ReportedIsAdvertised, Advertised
    <2>1. CASE answer.type = "StateReport"
      BY <2>1, StateAdvertised DEF AnswerInv, IInv, TypeOK
    <2>2. CASE answer.type = "Response"
      <3>1. p \in StateProperties(read) \cup Confirmed(order, read)
        BY <2>2, Responding DEF ResponseProperties
      <3>. QED  BY <2>2, <3>1, Responding, StateAdvertised, ConfirmedAdvertised
    <2>. QED  BY <2>1, <2>2 DEF AnswerInv
  <1>. QED  BY <1>1, AnswerInvariant, PTL

(* A gate, a target temperature and a thermostat mode are reported as they  *)
(* were commanded, though the row the answer is made of is older            *)
(* (_command_response_properties).                                          *)
THEOREM ConfirmedReportedAlways == Spec => []ConfirmedReported
  <1>1. IInv /\ AnswerInv => ConfirmedReported
    <2>. SUFFICES ASSUME IInv, AnswerInv, answer.type = "Response"
                  PROVE  ConfirmedReported
      BY DEF ConfirmedReported
    <2>1. /\ asked \in Vocabulary /\ order \in Orders(asked, read) /\ read \in Rows
          /\ called.service = Service[order.operation] /\ called.level = order.level
          /\ Confirmed(order, read) \subseteq answer.properties
      BY Responding DEF ResponseProperties, Calls
    <2>2. ASSUME asked.by = "Alexa.ToggleController"
          PROVE  ToggleState(OnOff(called.service = "turn_on")) \in answer.properties
      <3>1. IsGate(read) /\ order.operation \in {"power_on", "power_off"}
        BY <2>1, <2>2, OrderedOf
      <3>2. (called.service = "turn_on") <=> (order.operation = "power_on")
        BY <2>1, <3>1 DEF Service
      <3>. QED  BY <2>1, <3>1, <3>2 DEF Confirmed, OnOff
    <2>3. ASSUME called.service = "set_temperature"
          PROVE  TargetSetpoint(called.level) \in answer.properties
      <3>1. order.operation = "set_target_temperature"
        BY <2>1, <2>3, OrderedOf DEF Service
      <3>. QED  BY <2>1, <3>1 DEF Confirmed
    <2>4. ASSUME asked.said = "mode"
          PROVE  ThermostatMode(asked.mode) \in answer.properties
      <3>1. /\ order.operation = "set_hvac_mode" /\ order.mode \in DOMAIN AlexaMode
            /\ AlexaMode[order.mode] = asked.mode
        BY <2>1, <2>4, OrderedOf
      <3>. QED  BY <2>1, <3>1 DEF Confirmed
    <2>. QED  BY <2>2, <2>3, <2>4 DEF ConfirmedReported
  <1>. QED  BY <1>1, AnswerInvariant, PTL

-----------------------------------------------------------------------------
(* What is published can be done                                            *)

(* The mode a cover is driven by is one it has the features for.            *)
LEMMA CoverModeFits ==
  ASSUME NEW e \in Rows
  PROVE  EffectiveCoverMode(e) # "none" => Supports(e, EffectiveCoverMode(e))
  BY DEF EffectiveCoverMode

(* No directive of those that are published is refused by the cloud.        *)
LEMMA WordsHaveOrders ==
  ASSUME NEW e \in Rows, NEW w \in Words(e)
  PROVE  Orders(w, e) # {}
  <1>1. w \in Vocabulary /\ w.by \in Capabilities(e)  BY DEF Words
  <1>2. CASE w.by = "Alexa.PowerController"
    <2>1. PowerSwitch(e) /\ Orders(w, e) = PowerOrders(w, e)
      BY <1>1, <1>2 DEF Capabilities, Orders
    <2>2. CASE e.domain = "climate"
      <3>1. HeatsAndStops(e) /\ ~IsGate(e)
        BY <2>1, <2>2 DEF PowerSwitch, IsGate, AllowedTypes
      <3>. QED  BY <2>1, <2>2, <3>1 DEF HeatsAndStops, PowerOrders
    <2>3. CASE e.domain = "cover"
      <3>1. EffectiveCoverMode(e) = "discrete" /\ ~IsGate(e)
        BY <2>1, <2>3 DEF PowerSwitch, HeatsAndStops, Thermostat, IsGate, AllowedTypes
      <3>. QED  BY <2>1, <2>3, <3>1 DEF PowerOrders, Do
    <2>4. CASE e.domain \notin {"climate", "cover"}
      <3>1. ~IsGate(e)  BY <2>1, <2>4 DEF PowerSwitch, HeatsAndStops, Thermostat
      <3>. QED  BY <2>1, <2>4, <3>1 DEF PowerOrders, Do
    <2>. QED  BY <2>2, <2>3, <2>4
  <1>3. CASE w.by = "Alexa.RangeController"
    <2>1. Ranges(e) /\ Orders(w, e) = RangeOrders(w, e)
      BY <1>1, <1>3 DEF Capabilities, Orders
    <2>. QED  BY <2>1 DEF RangeOrders
  <1>4. CASE w.by = "Alexa.ModeController"
    <2>1. Moves(e) /\ w.mode \in PublishedModes(e) /\ Orders(w, e) = ModeOrders(w, e)
      BY <1>1, <1>4 DEF Capabilities, Orders, Words
    <2>2. CASE EffectiveCoverMode(e) = "discrete"
      BY <2>1, <2>2 DEF PublishedModes, ModeOrders, Do
    <2>3. CASE EffectiveCoverMode(e) # "discrete"
      BY <2>1, <2>3 DEF PublishedModes, ModeOrders, StopOrders, Do
    <2>. QED  BY <2>2, <2>3
  <1>5. CASE w.by = "Alexa.PlaybackController"
    <2>1. Stops(e) /\ Orders(w, e) = StopOrders(e)
      BY <1>1, <1>5 DEF Capabilities, Orders
    <2>. QED  BY <2>1 DEF StopOrders, Do
  <1>6. CASE w.by = "Alexa.ThermostatController"
    <2>1. Thermostat(e) /\ Orders(w, e) = ThermostatOrders(w, e)
      BY <1>1, <1>6 DEF Capabilities, Orders
    <2>2. CASE w.name = "SetTargetTemperature"
      BY <2>1, <2>2 DEF ThermostatOrders
    <2>3. CASE w.name # "SetTargetTemperature"
      <3>1. w.said = "mode"  BY <1>1, <1>6, <2>3 DEF Vocabulary, Say
      <3>2. w.mode \in ClimateModes(e)  BY <3>1 DEF Words
      <3>3. PICK h \in e.modes \cap DOMAIN AlexaMode : AlexaMode[h] = w.mode
        BY <3>2 DEF ClimateModes
      <3>. QED  BY <2>1, <2>3, <3>3 DEF ThermostatOrders
    <2>. QED  BY <2>2, <2>3
  <1>7. CASE w.by \notin {"Alexa.PowerController", "Alexa.RangeController",
                          "Alexa.ModeController", "Alexa.PlaybackController",
                          "Alexa.ThermostatController"}
    BY <1>1, <1>7 DEF Orders, Do
  <1>. QED  BY <1>2, <1>3, <1>4, <1>5, <1>6, <1>7

(* Nor by a Connector that has the same features and modes.                 *)
LEMMA OrdersSupported ==
  ASSUME NEW e \in Rows, NEW f \in Rows, f.domain = e.domain, Agree(e, f),
         NEW w \in Vocabulary, NEW o \in Orders(w, e),
         e.domain \notin {"light", "fan"}, w.name # "SetTargetTemperature"
  PROVE  "unsupported_command" \notin Statuses(o, f)
  <1>0. w.by \in Capabilities(e) /\ e.domain \in {"switch", "cover", "climate", "scene"}
    BY DEF Orders, Rows, Domains
  <1>1. CASE e.domain = "switch"
    <2>1. w.by \in {"Alexa.PowerController", "Alexa.ToggleController"}
      BY <1>0, <1>1 DEF Capabilities, Ranges, Moves, Stops, Thermostat
    <2>2. o.operation \in {"power_on", "power_off"}
      BY <2>1, <1>1 DEF Orders, PowerOrders, Do, Order
    <2>. QED  BY <1>1, <2>2 DEF Statuses, Supported
  <1>2. CASE e.domain = "scene"
    <2>1. w.by = "Alexa.SceneController"
      BY <1>0, <1>2 DEF Capabilities, Ranges, Moves, Stops, Thermostat, PowerSwitch,
                        HeatsAndStops, IsGate, AllowedTypes, Vocabulary, Say
    <2>2. o.operation = "activate"  BY <2>1 DEF Orders, Do, Order
    <2>. QED  BY <1>2, <2>2 DEF Statuses, Supported
  <1>3. CASE e.domain = "climate"
    <2>1. w.by \in {"Alexa.PowerController", "Alexa.ThermostatController"}
      <3>1. w.by # "Alexa.TemperatureSensor"  BY DEF Vocabulary, Say
      <3>. QED  BY <1>0, <1>3, <3>1 DEF Capabilities, Ranges, Moves, Stops, IsGate, AllowedTypes
    <2>2. o.operation = "set_hvac_mode"
      BY <2>1, <1>3 DEF Orders, PowerOrders, ThermostatOrders, IsGate, AllowedTypes, Order
    <2>. QED  BY <2>2 DEF Statuses
  <1>4. CASE e.domain = "cover"
    <2>1. w.by \in {"Alexa.PowerController", "Alexa.RangeController",
                    "Alexa.ModeController", "Alexa.PlaybackController"}
      BY <1>0, <1>4 DEF Capabilities, Thermostat, IsGate, AllowedTypes
    <2>2. /\ o.operation \in {"open", "close", "stop", "set_position"}
          /\ o.operation \in {"open", "close"} =>
               EffectiveCoverMode(e) \in {"discrete", "hybrid"}
          /\ o.operation = "set_position" => EffectiveCoverMode(e) \in {"percentage", "hybrid"}
          /\ o.operation = "stop" => Stops(e)
      <3>1. CASE w.by = "Alexa.PowerController"
        BY <1>4, <3>1 DEF Orders, PowerOrders, Do, Order
      <3>2. CASE w.by = "Alexa.RangeController"
        BY <3>2 DEF Orders, RangeOrders, Ranges, Order
      <3>3. CASE w.by = "Alexa.ModeController"
        <4>1. Moves(e) /\ o \in ModeOrders(w, e)  BY <3>3, <1>0 DEF Orders, Capabilities
        <4>2. \/ o \in Do("open") \cup Do("close")
              \/ o \in Do("stop") /\ Stops(e)
          BY <4>1 DEF ModeOrders, StopOrders
        <4>. QED  BY <4>1, <4>2 DEF Moves, Do, Order
      <3>4. CASE w.by = "Alexa.PlaybackController"
        BY <3>4 DEF Orders, StopOrders, Do, Order
      <3>. QED  BY <2>1, <3>1, <3>2, <3>3, <3>4
    <2>3. o.operation \in e.features
      BY <2>2, CoverModeFits DEF Supports, Stops
    <2>4. Supported(o, f)  BY <1>4, <2>3 DEF Supported, Agree
    <2>. QED  BY <2>2, <2>4 DEF Statuses
  <1>. QED  BY <1>0, <1>1, <1>2, <1>3, <1>4

(* Why a directive is called invalid: the cloud makes no command of it, or  *)
(* the entity of that domain does not support the command it made.          *)
RefusalInv ==
  /\ phase \in {"sent", "executed"} => read.domain = home.domain
  /\ called.status = "unsupported_command" =>
       /\ called.entity.domain = read.domain
       /\ "unsupported_command" \in Statuses(order, called.entity)
       /\ Said
  /\ answer.type = "INVALID_DIRECTIVE" =>
       /\ phase = "answered" /\ asked.by # "console"
       /\ Orders(asked, read) = {} \/ called.status = "unsupported_command"

LEMMA RefusalKeeps ==
  ASSUME IInv, RefusalInv, AnswerInv, [Next]_vars
  PROVE  RefusalInv'
  <1>0. home.domain = copy.domain /\ (phase = "idle" => called.status = "-")
    BY DEF IInv, TypeOK, HandlingInv
  <1>1. ASSUME UNCHANGED flight, home'.domain = home.domain
        PROVE  RefusalInv'
    BY <1>1 DEF RefusalInv, Said, flight
  <1>2. CASE Copies
    BY <1>1, <1>2 DEF Copies, Change, Configure, Sync, Discover
  <1>3. ASSUME NEW w \in words, Refused(w)
        PROVE  RefusalInv'
    <2>1. /\ phase' = "answered" /\ asked' = w /\ read' = copy /\ called'.status = "-"
          /\ answer' = Error(IF Eligible(copy) THEN "INVALID_DIRECTIVE" ELSE "NO_SUCH_ENDPOINT")
      BY <1>0, <1>3 DEF Refused, Begin
    <2>2. w.by # "console"  BY DEF IInv, TypeOK, Vocabulary, Say
    <2>3. answer'.type = "INVALID_DIRECTIVE" => Orders(w, copy) = {}
      BY <1>3, <2>1 DEF Refused, Error
    <2>. QED  BY <2>1, <2>2, <2>3 DEF RefusalInv
  <1>4. ASSUME NEW w, Begin(w), phase' = "sent", UNCHANGED <<home, copy, called, answer>>
        PROVE  RefusalInv'
    BY <1>0, <1>4 DEF Begin, RefusalInv
  <1>5. CASE \/ \E w \in words : \E o \in Orders(w, copy) : Dispatch(w, o)
             \/ \E w \in ConsoleWords(copy) : Operate(w)
    BY <1>4, <1>5 DEF Dispatch, Operate
  <1>6. ASSUME NEW status \in {"success", "unavailable", "invalid_argument",
                               "unsupported_command"},
               Execute(status)
        PROVE  RefusalInv'
    <2>1. /\ called'.entity = home /\ called'.status = status /\ phase = "sent"
          /\ phase' = "executed" /\ status \in Statuses(order, home) \cup {"unavailable"}
          /\ UNCHANGED <<home, asked, read, order, answer>>
      BY <1>6 DEF Execute, NoCall
    <2>2. Said /\ read.domain = home.domain  BY <2>1 DEF IInv, HandlingInv, RefusalInv
    <2>3. Said'  BY <2>1, <2>2 DEF Said
    <2>4. answer.type # "INVALID_DIRECTIVE"  BY <2>1 DEF RefusalInv
    <2>. QED  BY <2>1, <2>2, <2>3, <2>4 DEF RefusalInv
  <1>7. CASE ReportState
    <2>1. phase' = "answered" /\ called'.status = "-" /\ answer'.type = "StateReport"
      BY <1>0, <1>7 DEF ReportState, Begin
    <2>. QED  BY <2>1 DEF RefusalInv
  <1>8. CASE Answer
    <2>1. phase = "executed" /\ phase' = "answered"
          /\ UNCHANGED <<home, asked, read, order, called>>
      BY <1>8 DEF Answer
    <2>2. ASSUME answer'.type = "INVALID_DIRECTIVE"
          PROVE  asked.by # "console" /\ called.status = "unsupported_command"
      <3>1. called.status \in {"success", "unavailable", "invalid_argument", "unsupported_command"}
        BY <2>1 DEF AnswerInv
      <3>2. CASE asked.by = "console"
        <4>1. answer'.type = called.status  BY <1>8, <3>2 DEF Answer, Error
        <4>. QED  BY <2>2, <3>1, <4>1
      <3>3. CASE asked.by # "console" /\ called.status # "success"
        <4>1. answer'.type = ErrorType[called.status]  BY <1>8, <3>3 DEF Answer, Error
        <4>. QED  BY <2>2, <3>1, <3>3, <4>1 DEF ErrorType
      <3>4. CASE asked.by # "console" /\ called.status = "success"
        <4>1. answer'.type = "Response"  BY <1>8, <3>4 DEF Answer
        <4>. QED  BY <2>2, <4>1
      <3>. QED  BY <3>2, <3>3, <3>4
    <2>3. Said => Said'  BY <2>1 DEF Said
    <2>. QED  BY <2>1, <2>2, <2>3 DEF RefusalInv
  <1>9. CASE Finished
    BY <1>9 DEF Finished, RefusalInv, NoAnswer, NoCall
  <1>10. CASE UNCHANGED vars
    BY <1>1, <1>10 DEF vars, flight
  <1>. QED  BY <1>2, <1>3, <1>5, <1>6, <1>7, <1>8, <1>9, <1>10 DEF Next, Handling

(* What is published of a cover, a switch, a scene or a thermostat's mode   *)
(* is never answered as an invalid directive, unless the features or the    *)
(* modes of the entity changed since the row of the handler: for every set  *)
(* of entities, whatever was configured and said (capabilities and _command *)
(* in alexa.py, _map_command in command_executor.py).                       *)
THEOREM AdvertisedWorksAlways == Spec => []AdvertisedWorks
  <1>1. Init => RefusalInv  BY DEF Init, RefusalInv, NoAnswer, NoCall
  <1>2. Spec => []RefusalInv
    BY <1>1, RefusalKeeps, AnswerInvariant, PTL DEF Spec
  <1>3. IInv /\ RefusalInv => AdvertisedWorks
    <2>. SUFFICES ASSUME IInv, RefusalInv, answer.type = "INVALID_DIRECTIVE",
                         asked \in Words(read),
                         called.status = "-" \/ Agree(read, called.entity),
                         read.domain \notin {"light", "fan"},
                         asked.name # "SetTargetTemperature"
                  PROVE  FALSE
      BY DEF AdvertisedWorks
    <2>1. read \in Rows /\ called.entity \in Rows  BY DEF IInv, TypeOK
    <2>2. Orders(asked, read) # {}  BY <2>1, WordsHaveOrders
    <2>3. /\ called.status = "unsupported_command" /\ Said
          /\ called.entity.domain = read.domain
          /\ "unsupported_command" \in Statuses(order, called.entity)
      BY <2>2 DEF RefusalInv
    <2>4. asked \in Vocabulary  BY DEF Words
    <2>5. order \in Orders(asked, read)  BY <2>3, <2>4, OrderMeant DEF Said
    <2>. QED  BY <2>1, <2>3, <2>4, <2>5, OrdersSupported
  <1>. QED  BY <1>2, <1>3, Invariant, PTL
=============================================================================
