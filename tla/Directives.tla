----------------------------- MODULE Directives -----------------------------
(***************************************************************************)
(* What becomes of a directive of Alexa, for one entity: the capabilities   *)
(* the cloud publishes (alexa.py), the command it makes of a directive, the *)
(* action the Connector makes of the command (command_executor.py), and the *)
(* properties in the answer.                                                *)
(*                                                                         *)
(* Everyone works from a copy: Alexa from the last discovery, the cloud     *)
(* from the last synchronization and the settings of the portal, the        *)
(* Connector from Home Assistant.  The module says what stays true when the *)
(* copies differ.                                                           *)
(***************************************************************************)
EXTENDS Integers, FiniteSets

CONSTANTS
  Entities,    \* what the entity can be in Home Assistant
  Percents,    \* the percentages that are asked for
  Degrees,     \* the temperatures that are asked for
  MaxChanges   \* bound: changes of the entity, copies and settings

Domains == {"light", "switch", "cover", "climate", "fan", "scene"}
Features == {"open", "close", "stop", "set_position", "turn_on", "turn_off",
             "set_speed", "target_temperature"}
CoverModes == {"auto", "discrete", "percentage", "hybrid"}
DeviceTypes == {"auto", "switch", "light", "outlet", "gate"}
AlexaMode ==
  [off |-> "OFF", heat |-> "HEAT", cool |-> "COOL", auto |-> "AUTO",
   heat_cool |-> "AUTO", eco |-> "ECO", emergency_heat |-> "EM_HEAT"]

(* The modes of a light are its color modes, those of a climate entity its  *)
(* hvac modes.  An entity has one numeric value at most: the brightness,    *)
(* the position, the percentage or the target temperature; attributes says  *)
(* which attributes are there.                                              *)
ColorModes == {"onoff", "brightness", "color_temp", "rgb"}
HvacModes == DOMAIN AlexaMode \cup {"dry"}
Attributes == {"brightness", "rgb_color", "color_temp_kelvin", "percentage",
               "current_position", "temperature", "current_temperature"}

Rows ==
  [domain : Domains, features : SUBSET Features,
   modes : SUBSET (ColorModes \cup HvacModes), attributes : SUBSET Attributes,
   state : {"on", "off", "open", "closed", "opening"} \cup HvacModes,
   level : Nat, cover : CoverModes, type : DeviceTypes]

ASSUME DirectivesAssumption ==
  /\ Entities \subseteq
       {e \in Rows : /\ e.cover = "auto" /\ e.type = "auto"
                     /\ e.domain = "cover" => e.level \in 0..100}
  /\ Percents \subseteq 0..100 /\ Degrees \subseteq 0..100
  /\ MaxChanges \in Nat

-----------------------------------------------------------------------------
(* Rounding, as Python does it: halves go to the even number.               *)
Round(n, d) ==
  LET q == n \div d
      r == 2 * (n % d)
  IN IF r > d \/ (r = d /\ q % 2 = 1) THEN q + 1 ELSE q

Brightness(percent) == Round(percent * 255, 100)
Percent(brightness) == Round(brightness * 100, 255)

-----------------------------------------------------------------------------
(* cover_modes.py, alexa_device_types.py                                    *)

(* Mutant: a hybrid cover need not have a position.                         *)
SupportsSome(e, mode) ==
  /\ mode \in {"discrete", "hybrid"} => {"open", "close"} \subseteq e.features
  /\ mode = "percentage" => "set_position" \in e.features

Supports(e, mode) ==
  /\ mode \in {"discrete", "hybrid"} => {"open", "close"} \subseteq e.features
  /\ mode \in {"percentage", "hybrid"} => "set_position" \in e.features

(* A mode that was configured is used or nothing is; by default the         *)
(* position is preferred.                                                   *)
EffectiveCoverMode(e) ==
  LET modes == IF e.cover = "auto" THEN {"percentage", "discrete"} ELSE {e.cover}
      fit   == {m \in modes : Supports(e, m)}
  IN IF fit = {} THEN "none"
     ELSE IF "percentage" \in fit THEN "percentage" ELSE CHOOSE m \in fit : TRUE

AllowedTypes(e) ==
  CASE e.domain = "switch" -> DeviceTypes
    [] e.domain = "light"  -> {"auto", "light"}
    [] OTHER               -> {"auto"}

IsGate(e) == e.type = "gate" /\ e.type \in AllowedTypes(e)

(* Amazon wants HEAT or COOL in every thermostat.                           *)
ClimateModes(e) ==
  LET modes == {AlexaMode[h] : h \in e.modes \cap DOMAIN AlexaMode}
  IN IF modes \cap {"HEAT", "COOL"} = {} THEN {} ELSE modes

Thermostat(e) ==
  /\ e.domain = "climate"
  /\ "temperature" \in e.attributes /\ ClimateModes(e) # {}

Eligible(e) ==
  /\ e.domain = "cover" => EffectiveCoverMode(e) # "none"
  /\ e.domain = "climate" => Thermostat(e)

-----------------------------------------------------------------------------
(* capabilities: the interfaces, and what a user can say through each       *)

Moves(e) == e.domain = "cover" /\ EffectiveCoverMode(e) \in {"discrete", "hybrid"}
Ranges(e) == e.domain = "cover" /\ EffectiveCoverMode(e) \in {"percentage", "hybrid"}
Stops(e) == e.domain = "cover" /\ "stop" \in e.features
HeatsAndStops(e) == Thermostat(e) /\ {"heat", "off"} \subseteq e.modes

PowerSwitch(e) ==
  \/ e.domain \in {"light", "switch", "fan"} /\ ~IsGate(e)
  \/ e.domain = "cover" /\ EffectiveCoverMode(e) = "discrete"
  \/ HeatsAndStops(e)

Capabilities(e) ==
  {i \in {"Alexa.PowerController", "Alexa.ToggleController",
          "Alexa.BrightnessController", "Alexa.ColorController",
          "Alexa.ColorTemperatureController", "Alexa.RangeController",
          "Alexa.ModeController", "Alexa.PlaybackController",
          "Alexa.ThermostatController", "Alexa.TemperatureSensor",
          "Alexa.PercentageController", "Alexa.SceneController"} :
     \/ i = "Alexa.PowerController" /\ PowerSwitch(e)
     \/ i = "Alexa.ToggleController" /\ IsGate(e)
     \/ /\ e.domain = "light"
        /\ \/ i = "Alexa.BrightnessController"
           \/ i = "Alexa.ColorController" /\ "rgb_color" \in e.attributes
           \/ /\ i = "Alexa.ColorTemperatureController"
              /\ "color_temp_kelvin" \in e.attributes
     \/ i = "Alexa.RangeController" /\ Ranges(e)
     \/ i = "Alexa.ModeController" /\ Moves(e)
     \/ i = "Alexa.PlaybackController" /\ Stops(e)
     \/ i = "Alexa.ThermostatController" /\ Thermostat(e)
     \/ /\ i = "Alexa.TemperatureSensor"
        /\ e.domain = "climate" /\ "current_temperature" \in e.attributes
     \/ i = "Alexa.PercentageController" /\ e.domain = "fan"
     \/ i = "Alexa.SceneController" /\ e.domain = "scene"}

(* What is said, and the directive Alexa makes of it.                       *)
Say(said, by, name, mode, level) ==
  [said |-> said, by |-> by, name |-> name, mode |-> mode, level |-> level]

Vocabulary ==
  {Say("on", "Alexa.PowerController", "TurnOn", "-", 0),
   Say("off", "Alexa.PowerController", "TurnOff", "-", 0),
   Say("open", "Alexa.ToggleController", "TurnOn", "-", 0),
   Say("close", "Alexa.ToggleController", "TurnOff", "-", 0),
   Say("color", "Alexa.ColorController", "SetColor", "-", 0),
   Say("white", "Alexa.ColorTemperatureController", "SetColorTemperature", "-", 0),
   Say("open", "Alexa.RangeController", "SetRangeValue", "-", 100),
   Say("close", "Alexa.RangeController", "SetRangeValue", "-", 0),
   Say("raise", "Alexa.RangeController", "AdjustRangeValue", "-", 10),
   Say("lower", "Alexa.RangeController", "AdjustRangeValue", "-", -10),
   Say("open", "Alexa.ModeController", "SetMode", "Position.Up", 0),
   Say("close", "Alexa.ModeController", "SetMode", "Position.Down", 0),
   Say("open", "Alexa.ModeController", "SetMode", "position.open", 0),
   Say("close", "Alexa.ModeController", "SetMode", "position.closed", 0),
   Say("stop", "Alexa.ModeController", "SetMode", "position.custom", 0),
   Say("stop", "Alexa.PlaybackController", "Stop", "-", 0),
   Say("activate", "Alexa.SceneController", "Activate", "-", 0)}
  \cup {Say("brightness", "Alexa.BrightnessController", "SetBrightness", "-", p) :
          p \in Percents}
  \cup {Say("position", "Alexa.RangeController", "SetRangeValue", "-", p) :
          p \in Percents}
  \cup {Say("percentage", "Alexa.PercentageController", "SetPercentage", "-", p) :
          p \in Percents}
  \cup {Say("temperature", "Alexa.ThermostatController", "SetTargetTemperature", "-", d) :
          d \in Degrees}
  \cup {Say("mode", "Alexa.ThermostatController", "SetThermostatMode", m, 0) :
          m \in {AlexaMode[h] : h \in DOMAIN AlexaMode}}

(* Where a cover has both controllers, open and close are of the mode.      *)
PublishedModes(e) ==
  IF EffectiveCoverMode(e) = "discrete" THEN {"Position.Up", "Position.Down"}
    ELSE {"position.open", "position.closed"} \cup
         IF Stops(e) THEN {"position.custom"} ELSE {}

Words(e) ==
  {w \in Vocabulary :
     /\ w.by \in Capabilities(e)
     /\ w.by = "Alexa.RangeController" /\ w.said \in {"open", "close"} => ~Moves(e)
     /\ w.by = "Alexa.ModeController" => w.mode \in PublishedModes(e)
     /\ w.said = "mode" => w.mode \in ClimateModes(e)}

-----------------------------------------------------------------------------
(* _command: what the cloud makes of a directive, nothing or one of a set   *)
Order(operation, mode, level) ==
  [operation |-> operation, mode |-> mode, level |-> level]
Do(operation) == {Order(operation, "-", 0)}

PowerOrders(w, e) ==
  LET on == w.name = "TurnOn" IN
  CASE IsGate(e) -> {}
    [] e.domain = "cover" ->
         IF EffectiveCoverMode(e) # "discrete" THEN {}
           ELSE Do(IF on THEN "open" ELSE "close")
    [] e.domain = "climate" ->
         {Order("set_hvac_mode", h, 0) :
            h \in e.modes \cap {IF on THEN "heat" ELSE "off"}}
    [] OTHER -> Do(IF on THEN "power_on" ELSE "power_off")

StopOrders(e) == IF Stops(e) THEN Do("stop") ELSE {}

(* Mutant: a delta is taken for a position.                                 *)
AdjustedTo(w, e) == IF w.level < 0 THEN 0 ELSE w.level

Adjusted(w, e) ==
  LET sum == w.level + IF "current_position" \in e.attributes THEN e.level ELSE 0
  IN IF sum < 0 THEN 0 ELSE IF sum > 100 THEN 100 ELSE sum

RangeOrders(w, e) ==
  IF ~Ranges(e) THEN {}
    ELSE {Order("set_position", "-",
                IF w.name = "SetRangeValue" THEN w.level ELSE Adjusted(w, e))}

(* A discrete cover also understands the names of a hybrid one.             *)
ModeOrders(w, e) ==
  IF ~Moves(e) THEN {} ELSE
  CASE w.mode \in {"Position.Up", "Position.Down"} ->
         IF EffectiveCoverMode(e) # "discrete" THEN {}
           ELSE Do(IF w.mode = "Position.Up" THEN "open" ELSE "close")
    [] w.mode = "position.open"   -> Do("open")
    [] w.mode = "position.closed" -> Do("close")
    [] OTHER                      -> StopOrders(e)

(* Two modes of Home Assistant may be the same one for Alexa: the code      *)
(* takes the first of the list.                                             *)
ThermostatOrders(w, e) ==
  IF ~Thermostat(e) THEN {}
    ELSE IF w.name = "SetTargetTemperature"
      THEN {Order("set_target_temperature", "-", w.level)}
      ELSE {Order("set_hvac_mode", h, 0) :
              h \in {m \in e.modes \cap DOMAIN AlexaMode : AlexaMode[m] = w.mode}}

Orders(w, e) ==
  IF w.by \notin Capabilities(e) THEN {} ELSE
  CASE w.by = "Alexa.PowerController" -> PowerOrders(w, e)
    [] w.by = "Alexa.ToggleController" ->
         Do(IF w.name = "TurnOn" THEN "power_on" ELSE "power_off")
    [] w.by = "Alexa.BrightnessController" ->
         {Order("set_brightness", "-", Brightness(w.level))}
    [] w.by = "Alexa.ColorController" -> Do("set_color")
    [] w.by = "Alexa.ColorTemperatureController" -> Do("set_color_temperature")
    [] w.by = "Alexa.RangeController" -> RangeOrders(w, e)
    [] w.by = "Alexa.ModeController" -> ModeOrders(w, e)
    [] w.by = "Alexa.PlaybackController" -> StopOrders(e)
    [] w.by = "Alexa.PercentageController" ->
         {Order("set_percentage", "-", w.level)}
    [] w.by = "Alexa.ThermostatController" -> ThermostatOrders(w, e)
    [] OTHER -> Do("activate")

(* The same words on a page of the console, with their operations.          *)
ConsoleVocabulary ==
  {Say("on", "console", "power_on", "-", 0), Say("off", "console", "power_off", "-", 0),
   Say("open", "console", "open", "-", 0), Say("close", "console", "close", "-", 0),
   Say("stop", "console", "stop", "-", 0),
   Say("activate", "console", "activate", "-", 0)}
  \cup {Say("brightness", "console", "set_brightness", "-", p) : p \in Percents}
  \cup {Say("position", "console", "set_position", "-", p) : p \in Percents}
  \cup {Say("percentage", "console", "set_percentage", "-", p) : p \in Percents}
  \cup {Say("temperature", "console", "set_target_temperature", "-", d) : d \in Degrees}
  \cup {Say("hvac_mode", "console", "set_hvac_mode", h, 0) : h \in HvacModes}

DomainOperations ==
  [light |-> {"power_on", "power_off", "set_brightness"},
   switch |-> {"power_on", "power_off"},
   cover |-> {"open", "close", "stop", "set_position"},
   climate |-> {"set_target_temperature", "set_hvac_mode"},
   fan |-> {"power_on", "power_off", "set_percentage"},
   scene |-> {"activate"}]

ConsoleWords(e) ==
  {w \in ConsoleVocabulary :
     /\ w.name \in DomainOperations[e.domain]
     /\ w.said = "temperature" => "temperature" \in e.attributes
     /\ w.said = "hvac_mode" => w.mode \in e.modes}

ConsoleOrder(w) ==
  Order(w.name, w.mode,
        IF w.name = "set_brightness" THEN Brightness(w.level) ELSE w.level)

-----------------------------------------------------------------------------
(* _map_command: the action of Home Assistant for a command                 *)

Supported(o, e) ==
  CASE e.domain = "light" ->
         \/ o.operation \in {"power_on", "power_off"}
         \/ o.operation = "set_brightness" /\ e.modes \ {"onoff"} # {}
         \/ o.operation = "set_color" /\ "rgb" \in e.modes
         \/ o.operation = "set_color_temperature" /\ "color_temp" \in e.modes
    [] e.domain = "switch" -> o.operation \in {"power_on", "power_off"}
    [] e.domain = "cover" -> o.operation \in e.features
    [] e.domain = "climate" ->
         \/ o.operation = "set_hvac_mode"
         \/ o.operation = "set_target_temperature" /\ "target_temperature" \in e.features
    [] e.domain = "fan" ->
         \/ o.operation = "power_on" /\ "turn_on" \in e.features
         \/ o.operation = "power_off" /\ "turn_off" \in e.features
         \/ o.operation = "set_percentage" /\ "set_speed" \in e.features
    [] OTHER -> o.operation = "activate"

(* The mode must be one of the entity, and is nothing the cloud verified;   *)
(* a temperature must be in a range that is not modelled.                   *)
Statuses(o, e) ==
  CASE o.operation = "set_hvac_mode" ->
         IF o.mode \in e.modes THEN {"success"} ELSE {"invalid_argument"}
    [] o.operation \in {"set_target_temperature", "set_color_temperature"} ->
         {"invalid_argument", IF Supported(o, e) THEN "success" ELSE "unsupported_command"}
    [] OTHER -> {IF Supported(o, e) THEN "success" ELSE "unsupported_command"}

Service ==
  [power_on |-> "turn_on", power_off |-> "turn_off", activate |-> "turn_on",
   set_brightness |-> "turn_on", set_color |-> "turn_on",
   set_color_temperature |-> "turn_on", open |-> "open_cover",
   close |-> "close_cover", stop |-> "stop_cover",
   set_position |-> "set_cover_position", set_percentage |-> "set_percentage",
   set_target_temperature |-> "set_temperature", set_hvac_mode |-> "set_hvac_mode"]

(* What a light is turned on with.                                          *)
With(o) ==
  CASE o.operation = "set_brightness" -> "brightness"
    [] o.operation = "set_color" -> "rgb_color"
    [] o.operation = "set_color_temperature" -> "color_temp_kelvin"
    [] OTHER -> o.mode

-----------------------------------------------------------------------------
(* state_properties                                                         *)
Property(by, name, mode, level) ==
  [by |-> by, name |-> name, mode |-> mode, level |-> level]

OnOff(on) == IF on THEN "ON" ELSE "OFF"
PowerState(mode) == Property("Alexa.PowerController", "powerState", mode, 0)
ToggleState(mode) == Property("Alexa.ToggleController", "toggleState", mode, 0)
ThermostatMode(mode) == Property("Alexa.ThermostatController", "thermostatMode", mode, 0)
TargetSetpoint(level) == Property("Alexa.ThermostatController", "targetSetpoint", "-", level)

(* Mutant: a gate is a switch in its reports.                               *)
SwitchStates(e) ==
  IF e.domain \in {"light", "switch", "fan"} THEN {PowerState(OnOff(e.state = "on"))} ELSE {}

(* A cover is never "off".                                                  *)
SwitchState(e) ==
  CASE IsGate(e) -> {ToggleState(OnOff(e.state = "on"))}
    [] e.domain \in {"light", "switch", "fan"} /\ ~IsGate(e) ->
         {PowerState(OnOff(e.state = "on"))}
    [] e.domain = "cover" /\ EffectiveCoverMode(e) = "discrete" ->
         {PowerState(OnOff(e.state # "off"))}
    [] HeatsAndStops(e) -> {PowerState(OnOff(e.state # "off"))}
    [] OTHER -> {}

CoverState(e) ==
  {Property("Alexa.RangeController", "rangeValue", "-", e.level) :
     a \in IF Ranges(e) THEN e.attributes \cap {"current_position"} ELSE {}}
  \cup {Property("Alexa.ModeController", "mode", s, 0) :
          s \in IF Moves(e) THEN {e.state} \cap {"open", "closed"} ELSE {}}

ClimateState(e) ==
  {Property("Alexa.TemperatureSensor", "temperature", "-", 0) :
     a \in e.attributes \cap {"current_temperature"}}
  \cup IF ~Thermostat(e) THEN {} ELSE
       {TargetSetpoint(e.level)} \cup
       {ThermostatMode(AlexaMode[h]) :
          h \in {m \in {e.state} \cap DOMAIN AlexaMode : AlexaMode[m] \in ClimateModes(e)}}

LightState(e) ==
  {Property("Alexa.BrightnessController", "brightness", "-", Percent(e.level)) :
     a \in e.attributes \cap {"brightness"}}
  \cup {Property("Alexa.ColorController", "color", "-", 0) :
          a \in e.attributes \cap {"rgb_color"}}
  \cup {Property("Alexa.ColorTemperatureController", "colorTemperatureInKelvin", "-", 0) :
          a \in e.attributes \cap {"color_temp_kelvin"}}

StateProperties(e) ==
  SwitchState(e) \cup
  CASE e.domain = "light"   -> LightState(e)
    [] e.domain = "cover"   -> CoverState(e)
    [] e.domain = "climate" -> ClimateState(e)
    [] e.domain = "fan"     ->
         {Property("Alexa.PercentageController", "percentage", "-", e.level) :
            a \in e.attributes \cap {"percentage"}}
    [] OTHER -> {}

(* _command_response_properties: what a command confirmed replaces what the *)
(* cloud had.                                                               *)
Confirmed(o, e) ==
  CASE IsGate(e) /\ o.operation \in {"power_on", "power_off"} ->
         {ToggleState(OnOff(o.operation = "power_on"))}
    [] o.operation = "set_target_temperature" -> {TargetSetpoint(o.level)}
    [] o.operation = "set_hvac_mode" /\ o.mode \in DOMAIN AlexaMode ->
         {ThermostatMode(AlexaMode[o.mode])} \cup
         IF {"heat", "off"} \subseteq e.modes THEN {PowerState(OnOff(o.mode # "off"))} ELSE {}
    [] OTHER -> {}

(* Mutant: the answer is the state of before the command.                   *)
OldProperties(o, e) == StateProperties(e)

ResponseProperties(o, e) ==
  LET new == Confirmed(o, e) IN
  {p \in StateProperties(e) : \A q \in new : <<p.by, p.name>> # <<q.by, q.name>>} \cup new

-----------------------------------------------------------------------------
VARIABLES
  home,      \* the entity in Home Assistant
  copy,      \* its row in the database of the cloud
  words,     \* what Alexa can say, from the last discovery
  changes,
  phase, asked, read, order,  \* a directive: its place, words, the row its
                              \* handler read, and the command
  called,    \* what the Connector answered, and what it called when
  answer     \* what Alexa is answered

vars == <<home, copy, words, changes, phase, asked, read, order, called, answer>>
flight == <<phase, asked, read, order, called, answer>>

NoWords == Say("-", "-", "-", "-", 0)
NoOrder == Order("-", "-", 0)
NoCall(e) == [status |-> "-", service |-> "-", mode |-> "-", level |-> 0, entity |-> e]
NoAnswer == [type |-> "-", properties |-> {}]
Error(type) == [type |-> type, properties |-> {}]

TypeOK ==
  /\ home \in Entities /\ copy \in Rows
  /\ home.domain = copy.domain /\ copy.type \in AllowedTypes(copy)
  /\ words \subseteq Vocabulary
  /\ asked \in Vocabulary \cup ConsoleVocabulary \cup {NoWords}
  /\ changes \in 0..MaxChanges
  /\ phase \in {"idle", "sent", "executed", "answered"}
  /\ read \in Rows /\ called.entity \in Rows

Init ==
  /\ home \in Entities /\ copy = home
  /\ words = {} /\ changes = 0
  /\ phase = "idle" /\ asked = NoWords /\ read = home /\ order = NoOrder
  /\ called = NoCall(home) /\ answer = NoAnswer

-----------------------------------------------------------------------------
(* The copies                                                               *)

(* Mutant: an id is used again for another entity.                          *)
Reuse(e) ==
  /\ changes < MaxChanges /\ changes' = changes + 1
  /\ home' = e
  /\ UNCHANGED <<copy, words, flight>>

(* A registry id keeps its domain; all else can change.                     *)
Change(e) ==
  /\ changes < MaxChanges /\ changes' = changes + 1
  /\ e.domain = home.domain
  /\ home' = e
  /\ UNCHANGED <<copy, words, flight>>

(* An update of the Connector leaves the settings alone.                    *)
Sync ==
  /\ copy' = [home EXCEPT !.cover = copy.cover, !.type = copy.type]
  /\ UNCHANGED <<home, words, changes, flight>>

(* The edit page of the portal; it validates against the row.               *)
Configure(mode, type) ==
  /\ changes < MaxChanges /\ changes' = changes + 1
  /\ type \in AllowedTypes(copy)
  /\ IF copy.domain = "cover" THEN Supports(copy, mode) ELSE mode = copy.cover
  /\ copy' = [copy EXCEPT !.cover = mode, !.type = type]
  /\ UNCHANGED <<home, words, flight>>

Discover ==
  /\ words' = IF Eligible(copy) THEN Words(copy) ELSE {}
  /\ UNCHANGED <<home, copy, changes, flight>>

-----------------------------------------------------------------------------
(* The handler                                                              *)

Begin(w) == phase = "idle" /\ asked' = w /\ read' = copy

Refused(w) ==
  /\ w \in words
  /\ Begin(w)
  /\ ~Eligible(copy) \/ Orders(w, copy) = {}
  /\ answer' = Error(IF Eligible(copy) THEN "INVALID_DIRECTIVE" ELSE "NO_SUCH_ENDPOINT")
  /\ phase' = "answered"
  /\ UNCHANGED <<home, copy, words, changes, order, called>>

Dispatch(w, o) ==
  /\ w \in words
  /\ Begin(w)
  /\ Eligible(copy) /\ o \in Orders(w, copy)
  /\ order' = o /\ phase' = "sent"
  /\ UNCHANGED <<home, copy, words, changes, called, answer>>

(* A command of the console.                                                *)
Operate(w) ==
  /\ w \in ConsoleWords(copy)
  /\ Begin(w)
  /\ order' = ConsoleOrder(w) /\ phase' = "sent"
  /\ UNCHANGED <<home, copy, words, changes, called, answer>>

ReportState ==
  /\ words # {}
  /\ Begin(NoWords) /\ Eligible(copy)
  /\ answer' = [type |-> "StateReport", properties |-> StateProperties(copy)]
  /\ phase' = "answered"
  /\ UNCHANGED <<home, copy, words, changes, order, called>>

(* The Connector maps the command onto the entity as it is by now; what     *)
(* the dispatch and the action add to the outcomes is "unavailable".        *)
Execute(status) ==
  /\ phase = "sent" /\ status \in Statuses(order, home) \cup {"unavailable"}
  /\ called' = IF status # "success" THEN [NoCall(home) EXCEPT !.status = status]
               ELSE [status |-> status, service |-> Service[order.operation],
                     mode |-> With(order), level |-> order.level, entity |-> home]
  /\ phase' = "executed"
  /\ UNCHANGED <<home, copy, words, changes, asked, read, order, answer>>

ErrorType ==
  [unavailable |-> "ENDPOINT_UNREACHABLE", invalid_argument |-> "INVALID_VALUE",
   unsupported_command |-> "INVALID_DIRECTIVE"]

(* Alexa's answer is made of the row that was read before the command; the  *)
(* console shows the status.                                                *)
Answer ==
  /\ phase = "executed"
  /\ answer' = CASE asked.by = "console" -> Error(called.status)
                 [] asked.by # "console" /\ called.status # "success" ->
                      Error(ErrorType[called.status])
                 [] OTHER -> [type |-> "Response",
                              properties |-> ResponseProperties(order, read)]
  /\ phase' = "answered"
  /\ UNCHANGED <<home, copy, words, changes, asked, read, order, called>>

Finished ==
  /\ phase = "answered"
  /\ phase' = "idle" /\ asked' = NoWords /\ read' = copy /\ order' = NoOrder
  /\ called' = NoCall(copy) /\ answer' = NoAnswer
  /\ UNCHANGED <<home, copy, words, changes>>

-----------------------------------------------------------------------------
Copies ==
  \/ \E e \in Entities : Change(e)
  \/ \E mode \in CoverModes, type \in DeviceTypes : Configure(mode, type)
  \/ Sync \/ Discover

Handling ==
  \/ \E w \in words : Refused(w) \/ \E o \in Orders(w, copy) : Dispatch(w, o)
  \/ \E w \in ConsoleWords(copy) : Operate(w)
  \/ \E status \in {"success", "unavailable", "invalid_argument", "unsupported_command"} :
       Execute(status)
  \/ ReportState \/ Answer \/ Finished

Next == Copies \/ Handling

Spec == Init /\ [][Next]_vars

-----------------------------------------------------------------------------
(* Whoever works from an old copy, the action that is called is what was    *)
(* said.  A relative move goes the way it was meant unless the cover moved  *)
(* since the cloud heard of its position.                                   *)
Fits(said, mode, level, from, c) ==
  CASE said = "on"  -> \/ c.service \in {"turn_on", "open_cover"} /\ c.mode = "-"
                       \/ c.service = "set_hvac_mode" /\ c.mode = "heat"
    [] said = "off" -> \/ c.service \in {"turn_off", "close_cover"}
                       \/ c.service = "set_hvac_mode" /\ c.mode = "off"
    [] said = "open"  -> \/ c.service \in {"turn_on", "open_cover"}
                         \/ c.service = "set_cover_position" /\ c.level = 100
    [] said = "close" -> \/ c.service \in {"turn_off", "close_cover"}
                         \/ c.service = "set_cover_position" /\ c.level = 0
    [] said = "stop"  -> c.service = "stop_cover"
    [] said = "position" -> c.service = "set_cover_position" /\ c.level = level
    [] said = "raise" -> c.service = "set_cover_position" /\ c.level >= from
    [] said = "lower" -> c.service = "set_cover_position" /\ c.level <= from
    [] said = "brightness" -> /\ c.service = "turn_on" /\ c.mode = "brightness"
                              /\ Percent(c.level) = level
    [] said = "color" -> c.service = "turn_on" /\ c.mode = "rgb_color"
    [] said = "white" -> c.service = "turn_on" /\ c.mode = "color_temp_kelvin"
    [] said = "percentage" -> c.service = "set_percentage" /\ c.level = level
    [] said = "temperature" -> c.service = "set_temperature" /\ c.level = level
    [] said = "mode" -> c.service = "set_hvac_mode" /\ AlexaMode[c.mode] = mode
    [] said = "hvac_mode" -> c.service = "set_hvac_mode" /\ c.mode = mode
    [] OTHER -> c.service = "turn_on"

Stale ==
  \/ "current_position" \notin read.attributes
  \/ read.level # called.entity.level

MeansWhatWasSaid ==
  called.status = "success" =>
    \/ asked.said \in {"raise", "lower"} /\ Stale
    \/ Fits(asked.said, asked.mode, asked.level, called.entity.level, called)

(* While the copies agree, what was published of a cover, a switch or a     *)
(* scene, and a mode of a thermostat, is never an invalid directive.        *)
Agree(e, f) == e.features = f.features /\ e.modes = f.modes

AdvertisedWorks ==
  /\ answer.type = "INVALID_DIRECTIVE"
  /\ asked \in Words(read)
  /\ called.status = "-" \/ Agree(read, called.entity)
  => read.domain \in {"light", "fan"} \/ asked.name = "SetTargetTemperature"

(* Every property Alexa is told belongs to a capability that is published,  *)
(* and no thermostat is in a mode it does not offer.                        *)
ReportedIsAdvertised ==
  \A p \in answer.properties :
    /\ p.by \in Capabilities(read)
    /\ p.name = "thermostatMode" => p.mode \in ClimateModes(read)

(* A gate or a thermostat is reported in the state that was commanded,      *)
(* even if the row the answer is made of is older.                          *)
ConfirmedReported ==
  answer.type = "Response" =>
    /\ asked.by = "Alexa.ToggleController" =>
         ToggleState(OnOff(called.service = "turn_on")) \in answer.properties
    /\ called.service = "set_temperature" => TargetSetpoint(called.level) \in answer.properties
    /\ asked.said = "mode" => ThermostatMode(asked.mode) \in answer.properties
=============================================================================
