---------------------------- MODULE MCDirectives ----------------------------
(* Directives for an entity of each domain: with and without the features,  *)
(* the modes and the attributes that make a difference.                     *)
EXTENDS Directives

Entity(domain, features, modes, attributes, state, level) ==
  [domain |-> domain, features |-> features, modes |-> modes,
   attributes |-> attributes, state |-> state, level |-> level,
   cover |-> "auto", type |-> "auto"]

Lights ==
  {Entity("light", {}, m, a, "on", 77) :
     m \in {{"onoff"}, {"brightness"}, {"color_temp", "rgb"}},
     a \in {{"brightness", "rgb_color", "color_temp_kelvin"}}}
  \cup {Entity("light", {}, {"brightness"}, {}, "off", 0)}

Switches == {Entity("switch", {}, {}, {}, s, 0) : s \in {"on", "off"}}

Covers ==
  {Entity("cover", f, {}, {"current_position"}, "open", 60) :
     f \in {{"open"}, {"open", "close"}, {"set_position"},
            {"open", "close", "stop", "set_position"}}}
  \cup {Entity("cover", f, {}, {"current_position"}, "closed", 0) :
          f \in {{"open", "close"}, {"open", "close", "stop", "set_position"}}}
  \cup {Entity("cover", {"open", "close", "set_position"}, {}, {}, "opening", 0)}

Climates ==
  {Entity("climate", f, m, {"temperature", "current_temperature"}, "off", 20) :
     f \in {{}, {"target_temperature"}},
     m \in {{"off", "heat"}, {"off", "dry"}, {"off", "auto", "heat_cool", "cool"}}}
  \cup {Entity("climate", {"target_temperature"}, {"off", "heat"}, {}, "heat", 0)}

Fans ==
  {Entity("fan", f, {}, {"percentage"}, "on", 50) :
     f \in {{}, {"turn_on", "turn_off"}, {"turn_on", "turn_off", "set_speed"}}}

Scenes == {Entity("scene", {}, {}, {}, "on", 0)}

MCEntities == Lights \cup Switches \cup Covers \cup Climates \cup Fans \cup Scenes
=============================================================================
