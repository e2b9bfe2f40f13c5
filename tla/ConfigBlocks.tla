---------------------------- MODULE ConfigBlocks ----------------------------
(***************************************************************************)
(* The device blocks of the configuration (source/config.c): which fields  *)
(* the page of the configuration shows for a device, which lines a saved   *)
(* page becomes, and which devices the parser builds from those lines.     *)
(*                                                                         *)
(* A line `<prefix>_<name>=<value>' is a record.  A value is Unset (empty  *)
(* text, or the number 0), Bad (text where a number is due), a word, or    *)
(* <<name, n>>, the n-th value a user may give to the field of that name:  *)
(* a value that ends in the wrong place is seen by its name.               *)
(* What a constructor leaves of its malloc() is Unwritten.                 *)
(***************************************************************************)
EXTENDS Integers, Sequences, FiniteSets, SequencesExt

CONSTANTS Unset, Bad, Unwritten

EzoTypes == {"EZO_PH", "EZO_ORP", "EZO_TEMP", "EZO_PRS"}
Types == {"MQTT_COND", "GPIO_COND", "I2C_PRS", "MQTT_TEMP", "D1W_TEMP", "GPIO_PMP",
          "GPIO_OUTPUT", "GPIO_INPUT", "SYSFS_VALUE", "MQTT_VALUE"} \cup EzoTypes
VirtualTypes == {"VIR_TANK", "I2C_TEMP"}
InputTypes == Types \ {"MQTT_COND", "GPIO_COND", "GPIO_PMP", "GPIO_OUTPUT"}

\* The prefix of the keys of a type, and the word of its `_type' line.
Prefix ==
  [t \in Types |->
    CASE t = "MQTT_COND" -> "mqtt_condition"
      [] t = "GPIO_COND" -> "gpio_condition"
      [] t = "EZO_PH" -> "ph_sensor"
      [] t = "EZO_ORP" -> "orp_sensor"
      [] t \in {"EZO_PRS", "I2C_PRS"} -> "prs_sensor"
      [] t \in {"EZO_TEMP", "MQTT_TEMP", "D1W_TEMP"} -> "temp_sensor"
      [] t = "SYSFS_VALUE" -> "sysfs_sensor"
      [] t = "GPIO_PMP" -> "gpio_doser"
      [] t = "GPIO_OUTPUT" -> "gpio_output"
      [] t = "GPIO_INPUT" -> "gpio_input"
      [] t = "MQTT_VALUE" -> "mqtt_sensor"]
TypeWord(t) == CASE t \in EzoTypes -> "ezo" [] t = "MQTT_TEMP" -> "mqtt" [] t = "D1W_TEMP" -> "d1w" [] OTHER -> Unset

\* prefix_for_type(): the family whose numbers the IDs of a type are drawn from.
Family(t) ==
  CASE t \in {"MQTT_COND", "GPIO_COND"} -> "CS"
    [] t = "EZO_PH" -> "PH"
    [] t = "EZO_ORP" -> "ORP"
    [] t \in {"EZO_PRS", "I2C_PRS"} -> "PRS"
    [] t \in {"EZO_TEMP", "MQTT_TEMP", "D1W_TEMP", "I2C_TEMP"} -> "TEMP"
    [] t = "GPIO_PMP" -> "PMP"
    [] t = "SYSFS_VALUE" -> "SYS"
    [] t = "MQTT_VALUE" -> "MQT"
    [] t = "VIR_TANK" -> "TNK"
    [] t \in {"GPIO_OUTPUT", "GPIO_INPUT"} -> "GPIO"

\* Unset is none of the words the parser looks for, and no ID.
ASSUME UnsetAssumption ==
  /\ Unset \notin {"ezo", "mqtt", "d1w", "PTE7300", "pH", "ORP", "H2O", "gpio", "Active High", "Active Low",
                   "gallons", "liters"}
  /\ Unset \notin {Family(t) : t \in Types} \X Nat
  /\ Unwritten \notin {Unset, "pH", "ORP", "H2O", "PTE7300", "Local", "Global", "Allow", "gallons", "liters"}

(***************************************************************************)
(* config_table.h: the fields the table knows of each prefix, and those    *)
(* whose value must be a number.  The parser compares a line with the      *)
(* beginning of it, the validation of a page with the whole name.          *)
(***************************************************************************)
KnownNames ==
  [mqtt_condition |-> {"label", "ID", "topic", "value", "severity", "met_delay"},
   gpio_condition |-> {"label", "ID", "pin", "pin_mode", "required_state", "severity", "met_delay"},
   ph_sensor      |-> {"label", "ID", "type", "address", "interlock_scope", "statistics"},
   orp_sensor     |-> {"label", "ID", "type", "address", "interlock_scope", "statistics"},
   prs_sensor     |-> {"label", "ID", "type", "address", "interlock_scope", "statistics",
                       "min_value", "max_value"},
   mqtt_sensor    |-> {"label", "ID", "topic", "uom"},
   temp_sensor    |-> {"label", "ID", "type", "address", "topic", "path", "offset", "scale",
                       "interlock_scope", "statistics", "uom"},
   gpio_doser     |-> {"label", "ID", "type", "pin", "address", "pin_mode", "ml_per_second",
                       "tank_total_volume", "tank_min_volume", "tank_uom", "running_dose_max_ml",
                       "interlock_scope"},
   gpio_input     |-> {"label", "ID", "pin", "pin_mode", "required_state", "interlock_scope"},
   gpio_output    |-> {"label", "ID", "pin", "pin_mode", "interlock_scope"},
   sysfs_sensor   |-> {"label", "ID", "path", "offset", "scale", "regex", "interlock_scope", "uom"}]

Numbers == {"met_delay", "pin", "address", "min_value", "max_value", "offset", "scale", "ml_per_second",
            "tank_total_volume", "tank_min_volume", "running_dose_max_ml", "required_state"}
ScopeNames == {"severity", "interlock_scope"}

\* The system's own parameters have no prefix.
Known(line) == line.pre \in DOMAIN KnownNames /\ line.name \in KnownNames[line.pre]

\* is_valid_config(): an unknown key passes by a part of its name.
IsValidConfig(line) ==
  IF Known(line) THEN line.name \in Numbers => line.val # Bad
  ELSE line.name \in {"label", "type", "pin", "pin_mode", "topic", "address", "interlock_scope"}
-----------------------------------------------------------------------------
(***************************************************************************)
(* build_aquachem_config_json(): the fields of a block, in their order.    *)
(***************************************************************************)
ConditionFields ==
  [MQTT_COND |-> <<"topic", "value", "severity", "met_delay">>,
   GPIO_COND |-> <<"pin", "pin_mode", "required_state", "severity", "met_delay">>]
EzoFields == [t \in EzoTypes |-> <<"address", "interlock_scope", "statistics">>]
I2cFields ==
  [I2C_PRS |-> <<"type", "address", "interlock_scope", "statistics", "min_value", "max_value">>]
TempFields ==
  [MQTT_TEMP |-> <<"topic", "interlock_scope", "statistics">>,
   D1W_TEMP |-> <<"path", "offset", "scale", "interlock_scope", "statistics">>]
DoserFields ==
  [GPIO_PMP |-> <<"type", "pin", "pin_mode", "ml_per_second", "running_dose_max_ml",
                  "tank_total_volume", "tank_uom", "tank_min_volume", "interlock_scope">>]
GpioFields ==
  [GPIO_OUTPUT |-> <<"pin", "pin_mode", "interlock_scope">>,
   GPIO_INPUT |-> <<"pin", "pin_mode", "required_state", "interlock_scope">>]
ValueFields ==
  [SYSFS_VALUE |-> <<"path", "offset", "scale", "regex", "uom", "interlock_scope">>,
   MQTT_VALUE |-> <<"topic", "uom">>]
PageFields ==
  [t \in Types |->
     CASE t \in DOMAIN ConditionFields -> ConditionFields[t]
       [] t \in DOMAIN EzoFields -> EzoFields[t]
       [] t \in DOMAIN I2cFields -> I2cFields[t]
       [] t \in DOMAIN TempFields -> TempFields[t]
       [] t \in DOMAIN DoserFields -> DoserFields[t]
       [] t \in DOMAIN GpioFields -> GpioFields[t]
       [] t \in DOMAIN ValueFields -> ValueFields[t]]

\* The templates for a new block.  Their fields are not always those of the block.
ConditionTemplates ==
  [MQTT_COND |-> <<"topic", "value", "interlock_scope", "met_delay">>,
   GPIO_COND |-> <<"pin", "pin_mode", "required_state", "met_delay">>]
TempTemplates == [D1W_TEMP |-> <<"path", "offset", "scale">>, MQTT_TEMP |-> <<"topic", "uom">>]
ValueTemplates ==
  [MQTT_VALUE |-> <<"topic", "uom">>,
   SYSFS_VALUE |-> <<"path", "offset", "scale", "regex", "uom", "interlock_scope">>]
DoserTemplates ==
  [GPIO_PMP |-> <<"type", "pin", "pin_mode", "ml_per_second", "running_dose_max_ml",
                  "tank_total_volume", "tank_uom", "tank_min_volume", "interlock_scope">>]
GpioTemplates ==
  [GPIO_OUTPUT |-> <<"pin", "pin_mode", "interlock_scope">>,
   GPIO_INPUT |-> <<"type", "pin", "pin_mode", "required_state", "interlock_scope">>]
EzoTemplates == [t \in EzoTypes |-> <<"interlock_scope", "statistics">>]
I2cTemplates == [I2C_PRS |-> <<"type", "interlock_scope", "statistics">>]
Templates ==
  [t \in Types |->
     CASE t \in DOMAIN ConditionTemplates -> ConditionTemplates[t]
       [] t \in DOMAIN TempTemplates -> TempTemplates[t]
       [] t \in DOMAIN ValueTemplates -> ValueTemplates[t]
       [] t \in DOMAIN DoserTemplates -> DoserTemplates[t]
       [] t \in DOMAIN GpioTemplates -> GpioTemplates[t]
       [] t \in DOMAIN EzoTemplates -> EzoTemplates[t]
       [] t \in DOMAIN I2cTemplates -> I2cTemplates[t]]
-----------------------------------------------------------------------------
(***************************************************************************)
(* A device of the running daemon: its label, type and ID, and `at', what  *)
(* it holds for each name that its constructor fills.  A block of the page *)
(* has the same parts.  An ID is <<family, number>>, or NoId.              *)
(***************************************************************************)
NoId == <<"", 0>>
IsId(id) == id = <<id[1], id[2]>> /\ id[2] \in Nat
NoLabel == Unset

\* duration_seconds_to_string(): hours with one decimal.  A duration <<"statistics", n>> is n
\* twentieths of an hour; the half between two decimals goes to the even one.
Shown(n) == IF n % 2 = 0 THEN n ELSE IF (n \div 2) % 2 = 0 THEN n - 1 ELSE n + 1
Readable(name, v) ==
  IF name = "statistics" /\ v # Unset /\ v # Bad THEN <<name, Shown(v[2])>> ELSE v

\* A block shows of a device what its page has, a duration as it is printed.  Of a field that its
\* constructor did not write, and of the duration of an MQTT thermometer and an I2C sensor, which
\* none writes, it shows what it finds in the memory.
IsLeftOver(d, n) == n \notin DOMAIN d.at \/ d.at[n] = Unwritten

BlockOf(d, found) ==
  [label |-> d.label, type |-> d.type, id |-> d.id, names |-> PageFields[d.type],
   at |-> [n \in ToSet(PageFields[d.type]) |->
             IF IsLeftOver(d, n) THEN found[n] ELSE Readable(n, d.at[n])]]

\* A tank's fields have no value where no tank is configured.
HasNoValue(b, name) ==
  /\ b.type = "GPIO_PMP" /\ name \in {"tank_total_volume", "tank_min_volume"}
  /\ b.at["tank_total_volume"] = Unset
-----------------------------------------------------------------------------
\* The lines of a saved block: label, ID, the word of the type, and the fields that are not empty.
IsWritten(b, n) == (b.at[n] = Unset => n \in Numbers) /\ ~HasNoValue(b, n)

FieldLines(b) ==
  FoldLeft(LAMBDA ls, n : IF IsWritten(b, n)
                          THEN Append(ls, [pre |-> Prefix[b.type], name |-> n, val |-> b.at[n]])
                          ELSE ls,
           <<>>, b.names)

HeadLines(b) ==
  <<[pre |-> Prefix[b.type], name |-> "label", val |-> b.label]>>
    \o (IF b.id = NoId THEN <<>> ELSE <<[pre |-> Prefix[b.type], name |-> "ID", val |-> b.id]>>)
    \o (IF TypeWord(b.type) = Unset THEN <<>>
        ELSE <<[pre |-> Prefix[b.type], name |-> "type", val |-> TypeWord(b.type)]>>)

BlockLines(b) == HeadLines(b) \o FieldLines(b)

BlocksLines(blocks) == FoldLeft(LAMBDA ls, b : ls \o BlockLines(b), <<>>, blocks)
-----------------------------------------------------------------------------
(***************************************************************************)
(* The staging area of the parser.  Every field of a line goes to a slot,  *)
(* and the fields of different types share the slots.                      *)
(***************************************************************************)
SlotOf ==
  [topic |-> "topic_path", path |-> "topic_path", address |-> "address", offset |-> "value",
   scale |-> "value2", statistics |-> "value3", interlock_scope |-> "scope", severity |-> "scope",
   required_state |-> "pin_state", pin_mode |-> "pin_mode", pin |-> "pin",
   tank_total_volume |-> "value2", tank_uom |-> "uom2", tank_min_volume |-> "value3",
   value |-> "char_value", regex |-> "char_value", ml_per_second |-> "value",
   running_dose_max_ml |-> "value4", met_delay |-> "value", uom |-> "uom",
   min_value |-> "value2", max_value |-> "value3"]
Slots == {SlotOf[n] : n \in DOMAIN SlotOf}

\* What each add_*() takes from which slot.  MQTT sensors are given no scope and no duration, an
\* I2C sensor no duration; `type' is the role of a doser and the driver of an I2C sensor.
TakenByConditions ==
  [MQTT_COND |-> [topic |-> "topic_path", value |-> "char_value", severity |-> "scope", met_delay |-> "value"],
   GPIO_COND |-> [pin |-> "pin", pin_mode |-> "pin_mode", required_state |-> "pin_state",
                  severity |-> "scope", met_delay |-> "value"]]
TakenByEzo ==
  [t \in EzoTypes |-> [address |-> "address", interlock_scope |-> "scope", statistics |-> "value3", uom |-> "uom"]]
TakenByI2c ==
  [I2C_PRS |-> [type |-> "driver", address |-> "address", interlock_scope |-> "scope",
                min_value |-> "value2", max_value |-> "value3"]]
TakenByMqtt ==
  [t \in {"MQTT_TEMP", "MQTT_VALUE"} |-> [topic |-> "topic_path", interlock_scope |-> "none", uom |-> "uom"]]
TakenByD1w ==
  [D1W_TEMP |-> [path |-> "topic_path", offset |-> "value", scale |-> "value2", statistics |-> "value3",
                 interlock_scope |-> "scope", uom |-> "uom"]]
TakenByDoser ==
  [GPIO_PMP |-> [type |-> "role", pin |-> "pin", pin_mode |-> "pin_mode", required_state |-> "pin_state",
                 ml_per_second |-> "value", running_dose_max_ml |-> "value4", interlock_scope |-> "scope",
                 tank_total_volume |-> "value2", tank_uom |-> "uom2", tank_min_volume |-> "value3"]]
TakenByGpio ==
  [t \in {"GPIO_OUTPUT", "GPIO_INPUT"} |->
     [pin |-> "pin", pin_mode |-> "pin_mode", required_state |-> "pin_state", interlock_scope |-> "scope"]]
TakenBySysfs ==
  [SYSFS_VALUE |-> [path |-> "topic_path", offset |-> "value", scale |-> "value2", regex |-> "char_value",
                    uom |-> "uom", interlock_scope |-> "scope"]]
Taken ==
  [t \in Types |->
     CASE t \in DOMAIN TakenByConditions -> TakenByConditions[t]
       [] t \in DOMAIN TakenByEzo -> TakenByEzo[t]
       [] t \in DOMAIN TakenByI2c -> TakenByI2c[t]
       [] t \in DOMAIN TakenByMqtt -> TakenByMqtt[t]
       [] t \in DOMAIN TakenByD1w -> TakenByD1w[t]
       [] t \in DOMAIN TakenByDoser -> TakenByDoser[t]
       [] t \in DOMAIN TakenByGpio -> TakenByGpio[t]
       [] t \in DOMAIN TakenBySysfs -> TakenBySysfs[t]]

\* validate_interlock(): a scope that is not one is replaced, by type; only an output may be exempt.
ValidScope(t, v) ==
  IF v \in {"Local", "Global"} \/ (v = "Allow" /\ t = "GPIO_OUTPUT") THEN v
  ELSE IF t \in {"MQTT_COND", "GPIO_COND", "GPIO_OUTPUT"} \cup EzoTypes THEN "Global"
  ELSE "Local"

\* The units a constructor gives to a probe, whatever its lines say, and to a thermometer without
\* one; an MQTT value without one has the unit that is in its memory.
UnitOf(t, v) ==
  CASE t = "EZO_PH" -> "pH"
    [] t = "EZO_ORP" -> "mV"
    [] t = "EZO_PRS" -> "psi"
    [] t \in {"EZO_TEMP", "MQTT_TEMP", "D1W_TEMP"} /\ v = Unset -> "celsius"
    [] t = "MQTT_VALUE" /\ v = Unset -> Unwritten
    [] OTHER -> v

NoStaging ==
  [label |-> NoLabel, pending |-> "NONE", id |-> NoId,
   slot |-> [s \in Slots \cup {"role", "driver", "none"} |-> Unset]]

\* Mutation: the slots keep what the device before them left.
ClearStagingLabel(st) == [st EXCEPT !.label = NoLabel, !.pending = "NONE", !.id = NoId]

\* clear_staging(): everything but the address.
ClearStaging(st) == [NoStaging EXCEPT !.slot["address"] = st.slot["address"]]

Held(t, st, name) ==
  LET v == st.slot[Taken[t][name]]
  IN CASE name \in ScopeNames -> ValidScope(t, v)
       [] name = "uom" -> UnitOf(t, v)
       [] t = "SYSFS_VALUE" /\ name = "regex" /\ v = Unset -> Unwritten
       [] t = "GPIO_PMP" /\ name \in {"tank_uom", "tank_min_volume"} /\ st.slot["value2"] = Unset -> Unset
       [] name = "tank_uom" /\ v # "gallons" /\ st.slot["value2"] # Unset -> "liters"
       [] OTHER -> v

\* What a constructor makes, before its ID is assigned.
NewDevice(st) ==
  [label |-> st.label, type |-> st.pending, id |-> st.id,
   at |-> [n \in DOMAIN Taken[st.pending] |-> Held(st.pending, st, n)]]
ChildType(d) ==
  CASE d.type = "GPIO_PMP" /\ d.at["tank_total_volume"] # Unset -> "VIR_TANK"
    [] d.type = "I2C_PRS" -> "I2C_TEMP"
    [] OTHER -> "NONE"
ChildOf(d) == [label |-> d.label, type |-> ChildType(d), id |-> NoId, at |-> <<>>]

\* append_to_key_list(): conditions, thermometers, inputs, outputs, then the rest, each in their order.
NodePriority(t) ==
  CASE t \in {"MQTT_COND", "GPIO_COND"} -> 1
    [] t \in {"EZO_TEMP", "MQTT_TEMP", "D1W_TEMP"} -> 2
    [] t \in InputTypes \cup {"I2C_TEMP"} -> 3
    [] t \in {"GPIO_PMP", "GPIO_OUTPUT"} -> 4
    [] OTHER -> 5
AppendToKeyList(keys, d) ==
  LET behind == {i \in 1..Len(keys) : NodePriority(keys[i].type) > NodePriority(d.type)}
  IN InsertAt(keys, Min(behind \cup {Len(keys) + 1}), d)

WithDevice(keys, d) ==
  LET added == AppendToKeyList(keys, d)
  IN IF ChildType(d) = "NONE" THEN added ELSE AppendToKeyList(added, ChildOf(d))

\* A constructor copies the topic or path it is given: without one it ends the daemon.
EndsTheDaemon(st) ==
  st.pending \in {"MQTT_COND", "MQTT_TEMP", "D1W_TEMP", "SYSFS_VALUE"}
    /\ st.slot["topic_path"] = Unset

\* action_staging(): a device without a type is dropped, with an entry in the log.
ActionStaging(p) ==
  IF p.dead \/ p.st.label = NoLabel THEN p
  ELSE IF p.st.pending = "NONE" THEN [p EXCEPT !.st = ClearStaging(@)]
  ELSE IF EndsTheDaemon(p.st) THEN [p EXCEPT !.dead = TRUE]
  ELSE [p EXCEPT !.keys = WithDevice(@, NewDevice(p.st)), !.st = ClearStaging(@)]
-----------------------------------------------------------------------------
(***************************************************************************)
(* setConfigValue(): one line.  `p' is the state of the parser: the keys   *)
(* built, the staging area, and whether a constructor ended the daemon.    *)
(* An empty value changes nothing: a block whose label is empty is read    *)
(* into the device before it.                                              *)
(***************************************************************************)
LabelType(pre) ==
  CASE pre = "mqtt_condition" -> "MQTT_COND"
    [] pre = "gpio_condition" -> "GPIO_COND"
    [] pre = "sysfs_sensor" -> "SYSFS_VALUE"
    [] pre = "gpio_input" -> "GPIO_INPUT"
    [] pre = "gpio_output" -> "GPIO_OUTPUT"
    [] OTHER -> "NONE"

LabelLine(p, line) ==
  [ActionStaging(p) EXCEPT !.st = [ClearStaging(@) EXCEPT !.label = line.val, !.pending = LabelType(line.pre)]]

\* The probes' line also sets the address to that of their kind; so does the I2C driver's.  A pump
\* of that make is not known by its line.
TypeLine(st, line) ==
  CASE line.val = "ezo" /\ line.pre = "gpio_doser" -> st
    [] line.val = "ezo" /\ line.pre # "gpio_doser" ->
         [st EXCEPT !.pending = CHOOSE t \in EzoTypes : Prefix[t] = line.pre, !.slot["address"] = Unset]
    [] line.val = "d1w" -> [st EXCEPT !.pending = "D1W_TEMP"]
    [] line.val = "mqtt" -> [st EXCEPT !.pending = "MQTT_TEMP"]
    [] line.pre = "gpio_doser" /\ line.val \notin {"ezo", "d1w", "mqtt"} ->
         [st EXCEPT !.pending = "GPIO_PMP",
                    !.slot["role"] = IF line.val \in {"ORP", "H2O"} THEN line.val ELSE "pH"]
    [] line.val = "PTE7300" /\ line.pre # "gpio_doser" ->
         [st EXCEPT !.pending = "I2C_PRS", !.slot["driver"] = "PTE7300", !.slot["address"] = Unset]
    [] OTHER -> st

\* The lines that say of which type a device is although they are not its label or type.
PendingBy(st, line) ==
  CASE line.pre = "mqtt_sensor" /\ line.name = "topic" -> "MQTT_VALUE"
    [] line.pre = "mqtt_condition" /\ line.name \in {"topic", "value"} -> "MQTT_COND"
    [] line.pre = "sysfs_sensor" /\ line.name = "path" -> "SYSFS_VALUE"
    [] line.pre = "gpio_condition" /\ line.name \in {"pin", "pin_mode", "required_state"} -> "GPIO_COND"
    [] OTHER -> st.pending

FieldLine(st, line) ==
  [st EXCEPT !.slot[SlotOf[line.name]] = line.val, !.pending = PendingBy(st, line)]

SetConfigValue(p, line) ==
  IF p.dead \/ ~Known(line) \/ (line.val = Unset /\ line.name \notin Numbers) THEN p
  ELSE CASE line.name = "label" -> LabelLine(p, line)
         [] line.name = "type" -> [p EXCEPT !.st = TypeLine(@, line)]
         [] line.name = "ID" -> [p EXCEPT !.st.id = line.val]
         [] OTHER -> [p EXCEPT !.st = FieldLine(@, line)]

Parsed(lines) ==
  ActionStaging(FoldLeft(SetConfigValue, [keys |-> <<>>, st |-> NoStaging, dead |-> FALSE], lines))
-----------------------------------------------------------------------------
(***************************************************************************)
(* assign_missing_ids(): an ID of another family is dropped, and so is the *)
(* first of two equal ones; then what has none is numbered from beyond     *)
(* the highest that was kept.                                              *)
(***************************************************************************)
\* Mutation: equal IDs are not looked for.
KeepsIdTwice(keys, i) == keys[i].id # NoId /\ keys[i].id[1] = Family(keys[i].type)

KeepsId(keys, i) ==
  /\ keys[i].id # NoId /\ keys[i].id[1] = Family(keys[i].type)
  /\ \A j \in (i + 1)..Len(keys) : keys[j].id # keys[i].id

HighestKept(keys, family) ==
  LET kept == {keys[i].id[2] : i \in {j \in 1..Len(keys) : KeepsId(keys, j) /\ keys[j].id[1] = family}}
  IN IF kept = {} THEN 0 ELSE CHOOSE n \in kept : \A m \in kept : m <= n

AssignMissingIds(keys) ==
  [i \in 1..Len(keys) |->
    IF KeepsId(keys, i) THEN keys[i]
    ELSE LET family == Family(keys[i].type)
             before == {j \in 1..i : ~KeepsId(keys, j) /\ Family(keys[j].type) = family}
         IN [keys[i] EXCEPT !.id = <<family, HighestKept(keys, family) + Cardinality(before)>>]]
=============================================================================
