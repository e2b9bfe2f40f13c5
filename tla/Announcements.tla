--------------------------- MODULE Announcements ---------------------------
(***************************************************************************)
(* What AquachemD announces to Home Assistant (source/mqtt_discovery.c)    *)
(* and what it sends and accepts (source/net_services.c), topic by topic.  *)
(* An announcement is an entity with a state topic, and for some a topic   *)
(* to command it: it is alive only if a broadcast may send the one and a   *)
(* request may come by the other.  What a request carries, and whether the *)
(* interlocks let it through at the moment, is not looked at.              *)
(*                                                                         *)
(* A topic is written as its levels below <base>/<ID of the key>.          *)
(***************************************************************************)
EXTENDS Naturals, Sequences

Conditions == {"MQTT_COND", "GPIO_COND"}
Inputs == {"EZO_PH", "EZO_ORP", "EZO_TEMP", "EZO_PRS", "I2C_PRS", "I2C_TEMP",
           "MQTT_TEMP", "D1W_TEMP", "SYSFS_VALUE", "MQTT_VALUE", "GPIO_INPUT"}
PumpTypes == {"GPIO_PMP", "EZO_PMP"}
OutputTypes == PumpTypes \cup {"GPIO_OUTPUT"}
Types == {"MASTER", "VIR_TANK"} \cup Conditions \cup Inputs \cup OutputTypes

LedStates == {"OFF", "ON", "ENABLED", "DISABLED", "DELAY", "FAULTED"}

(***************************************************************************)
(* What is told apart of a key: `average' is CALC_AVERAGE, `volume' that   *)
(* it has a tank volume, `capped' that the doser has a cap for its period, *)
(* `longId' that the topic of its average does not fit the 31 characters   *)
(* it is written to.  Of the configuration: mqtt_repost_sensors and        *)
(* post_condition.                                                         *)
(***************************************************************************)
KeyKinds == [type : Types, average : BOOLEAN, volume : BOOLEAN, capped : BOOLEAN, longId : BOOLEAN]
Configs == [repost : BOOLEAN, postCondition : BOOLEAN]

\* Averages are configured for inputs and caps for dosers; add_gpio_pump()
\* makes the key of a tank only where a volume is configured.
IsKey(k) ==
  /\ k.average => k.type \in Inputs
  /\ k.volume <=> k.type = "VIR_TANK"
  /\ k.capped => k.type \in PumpTypes
  /\ k.longId => k.average
-----------------------------------------------------------------------------
(***************************************************************************)
(* publish_mqtt_discovery(): the entities of a key.                        *)
(***************************************************************************)
Entity(component, state, command) == [component |-> component, state |-> state, command |-> command]
NoCommand == <<"none">>

SensorTypes == {"EZO_TEMP", "D1W_TEMP", "I2C_TEMP", "EZO_PH", "EZO_ORP", "I2C_PRS", "SYSFS_VALUE", "VIR_TANK"}

MainEntity(k, config) ==
  CASE k.type = "MASTER" \/ k.type \in PumpTypes -> {Entity("select", <<"state">>, <<"set">>)}
    [] k.type \in SensorTypes                    -> {Entity("sensor", <<>>, NoCommand)}
    [] k.type = "MQTT_TEMP" /\ config.repost     -> {Entity("sensor", <<>>, NoCommand)}
    [] k.type = "GPIO_COND"                      -> {Entity("binary_sensor", <<"state">>, NoCommand)}
    [] k.type = "MQTT_COND" /\ config.repost     -> {Entity("binary_sensor", <<"state">>, NoCommand)}
    [] OTHER                                     -> {}

PumpEntities(k) ==
  IF k.type \notin PumpTypes THEN {} ELSE
    {Entity("sensor", <<"timer", "duration">>, NoCommand),
     Entity("number", <<"timer", "duration">>, <<"timer", "set">>),
     Entity("sensor", <<"last_dose_ml">>, NoCommand)}

TankEntities(k) ==
  IF k.type # "VIR_TANK" THEN {} ELSE
    {Entity("number", <<"level", "remaining">>, <<"level", "remaining", "set">>)}

AverageEntities(k) ==
  IF ~k.average THEN {} ELSE
    {Entity("sensor", IF k.longId THEN <<"averag">> ELSE <<"average">>, NoCommand)}

Entities(k, config) ==
  IF MainEntity(k, config) = {} THEN {}
  ELSE MainEntity(k, config) \cup PumpEntities(k) \cup TankEntities(k) \cup AverageEntities(k)
-----------------------------------------------------------------------------
(***************************************************************************)
(* mqtt_broadcast_aquachemdstate() and the dose event's broadcast: what is *)
(* sent of a key in a state, forced.                                       *)
(***************************************************************************)
TimerTopics == {<<"timer", "duration">>, <<"timer", "default">>, <<"timer", "state">>}

\* Mutation: the timer of a plain output only is sent.
SentOfStateOnly(k, state, config) ==
  IF k.type = "MASTER" THEN {<<"state">>}
  ELSE IF k.type \in Conditions /\ config.postCondition THEN {<<"state">>}
  ELSE IF k.type \in OutputTypes THEN {<<"state">>}
  ELSE {<<"state">>}
       \cup (IF state = "ON" THEN {<<>>} ELSE {})
       \cup (IF state = "ON" /\ k.average THEN {<<"average">>} ELSE {})
       \cup (IF k.volume THEN {<<"level", "remaining">>, <<"level", "volume">>} ELSE {})

SentOf(k, state, config) ==
  IF k.type = "MASTER" THEN {<<"state">>}
  ELSE IF k.type \in Conditions /\ config.postCondition THEN {<<"state">>}
  ELSE IF k.type \in OutputTypes THEN {<<"state">>} \cup TimerTopics
  ELSE {<<"state">>}
       \cup (IF state = "ON" THEN {<<>>} ELSE {})
       \cup (IF state = "ON" /\ k.average THEN {<<"average">>} ELSE {})
       \cup (IF k.volume THEN {<<"level", "remaining">>, <<"level", "volume">>} ELSE {})

SentOfDose(k) ==
  IF k.type \notin PumpTypes THEN {}
  ELSE {<<"last_dose_ml">>} \cup (IF k.capped THEN {<<"running_dose_ml">>} ELSE {})

Fed(k, config) == (UNION {SentOf(k, s, config) : s \in LedStates}) \cup SentOfDose(k)
-----------------------------------------------------------------------------
(***************************************************************************)
(* action_URI(): the paths a request to a key may come by.  The last part  *)
(* of a path is compared by its beginning only.  A default run time and a  *)
(* level are taken for a key of any type, and come to nothing for most;    *)
(* the key of a tank has the flags of its doser.                           *)
(***************************************************************************)
\* is_transition_permitted() for ON or OFF, under ALLOW.
Requestable(k) == k.type \notin Inputs \cup {"VIR_TANK"}

Accepts(k, path) ==
  \/ path \in {<<"set">>, <<"timer", "set">>} /\ Requestable(k)
  \/ path \in {<<"timer", "default", "set">>, <<"level", "set">>, <<"level", "percent", "set">>,
               <<"level", "remaining", "set">>, <<"reset_sensor_stats">>}
  \/ path = <<"reset_dose_stats">> /\ k.type \in PumpTypes \cup {"VIR_TANK"}
-----------------------------------------------------------------------------
(***************************************************************************)
(* Every announced entity is alive: its state is sent in some state of its *)
(* key, and there is a request its commands are taken for.  One is not     *)
(* (source/mqtt_discovery.c 403): an average whose topic was cut.          *)
(***************************************************************************)
Dead(k, e) == k.longId /\ k.average /\ e.state # <<>>

EntitiesAreAlive(k, config) ==
  \A e \in Entities(k, config) :
    /\ e.state \in Fed(k, config) \/ Dead(k, e)
    /\ e.command # NoCommand => Accepts(k, e.command)
=============================================================================
