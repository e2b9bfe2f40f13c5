---------------------------- MODULE DevicesPage ----------------------------
(***************************************************************************)
(* The list of devices every web client is sent (source/json_messages.c).  *)
(* The first request builds it; from then on it is kept, and each request  *)
(* refreshes the fields it takes to be volatile in the item of each key.   *)
(* The list serves every broadcast and request of the network thread.      *)
(*                                                                         *)
(* One key is modelled, of any type, and what its threads make of it: an   *)
(* item depends on its own key only.  Numbers are members of Values; the   *)
(* run time a doser would be given and the configured one are two fields.  *)
(* int_status is there for conditions only: for any other key it is the    *)
(* number of what `status' says.                                           *)
(***************************************************************************)
EXTENDS Announcements

CONSTANTS Values

ASSUME ValuesAssumption == 0 \in Values /\ Values \subseteq Nat

VARIABLES
  kind,    \* what the key is; never changes
  delayed, \* a condition with a met-delay, likewise
  key,     \* what the key holds
  item,    \* its item in devices_map, once there is one
  list     \* devices_map: not there, just built, just refreshed, or older than the key

pageVars == <<kind, delayed, key, item, list>>

NoItem == [f \in {} |-> 0]

\* `waits' is the flag DELAY_ACTIVE.
KeyContents ==
  [state : LedStates, met : BOOLEAN, waits : BOOLEAN,
   left : Values, value : Values, runtime : Values, stat : Values]

Bit(b) == IF b THEN 1 ELSE 0
OnOff(n) == IF n > 0 THEN "ON" ELSE "OFF"

\* acd_condition_met_to_str()
Safety(met) == IF met THEN "SAFE" ELSE "UNSAFE"

\* ACD_LED_DELAY, as a number.
DelayNumber == 4

PageTypeOK ==
  /\ kind \in KeyKinds /\ delayed \in BOOLEAN
  /\ key \in KeyContents
  /\ list \in {"none", "built", "refreshed", "older"}
  /\ (list = "none" <=> item = NoItem)
-----------------------------------------------------------------------------
(***************************************************************************)
(* populate_devices_json(): a new item.  What never changes (labels, types *)
(* and attributes) is left out.                                            *)
(***************************************************************************)
MasterItem(k) == [status |-> k.state]

ConditionItem(k) ==
  IF delayed
  THEN [status |-> OnOff(Bit(k.met)), int_status |-> Bit(k.met),
        delay_active |-> OnOff(k.left), delay_duration |-> k.left]
  ELSE [status |-> OnOff(Bit(k.met)), int_status |-> Bit(k.met)]

Configured == 0

PumpItem(k) ==
  [status |-> k.state, value |-> k.value, timer_active |-> OnOff(k.left), timer_duration |-> k.left,
   timer_default_runtime |-> Configured]

OutputItem(k) ==
  [status |-> k.state, value |-> k.value, timer_active |-> OnOff(k.left), timer_duration |-> k.left]

SensorItem(k) == [status |-> k.state, value |-> k.value]

With(record, field, content) == [f \in DOMAIN record \cup {field} |-> IF f = field THEN content ELSE record[f]]

NewItem(k) ==
  CASE kind.type = "MASTER"       -> MasterItem(k)
    [] kind.type \in Conditions   -> ConditionItem(k)
    [] kind.type \in PumpTypes    -> IF kind.capped THEN With(PumpItem(k), "running_dose_ml", k.stat) ELSE PumpItem(k)
    [] kind.type = "GPIO_OUTPUT"  -> OutputItem(k)
    [] kind.type = "VIR_TANK"     -> With(SensorItem(k), "alt_value", k.stat)
    [] OTHER                      -> IF kind.average THEN With(SensorItem(k), "stats", k.stat) ELSE SensorItem(k)

(***************************************************************************)
(* get_devices_json() on a list that exists: the fields it sets again.     *)
(***************************************************************************)
Refresh(old, new) == [f \in DOMAIN old |-> IF f \in DOMAIN new THEN new[f] ELSE old[f]]

Delaying(k) == k.waits \/ k.state = "DELAY"

Refreshed(k) ==
  CASE kind.type = "MASTER"     -> [status |-> k.state]
    [] kind.type \in Conditions ->
         [status |-> IF Delaying(k) THEN "DELAY" ELSE Safety(k.met),
          int_status |-> IF Delaying(k) THEN DelayNumber ELSE Bit(k.met),
          delay_active |-> OnOff(k.left), delay_duration |-> k.left]
    [] OTHER ->
         [status |-> k.state, value |-> k.value, timer_active |-> OnOff(k.left), timer_duration |-> k.left,
          timer_default_runtime |-> k.runtime, running_dose_ml |-> k.stat, alt_value |-> k.stat, stats |-> k.stat]

\* Mutation: the timer's fields are set when a dose starts only.
RefreshedItemUntimed(k) ==
  Refresh(item, IF k.left > 0 THEN Refreshed(k) ELSE [f \in DOMAIN Refreshed(k) \ {"timer_active"} |-> Refreshed(k)[f]])

RefreshedItem(k) == Refresh(item, Refreshed(k))
-----------------------------------------------------------------------------
PageInit ==
  /\ kind \in {k \in KeyKinds : IsKey(k) /\ ~k.longId}
  /\ delayed \in BOOLEAN /\ (delayed => kind.type \in Conditions)
  /\ key = [state |-> "OFF", met |-> FALSE, waits |-> FALSE, left |-> 0, value |-> 0, runtime |-> 0, stat |-> 0]
  /\ item = NoItem /\ list = "none"

(***************************************************************************)
(* Any thread may have changed anything of the key since the last request: *)
(* states it may have are those of its type.                               *)
(***************************************************************************)
StatesOf(type) ==
  CASE type = "MASTER"       -> {"OFF", "ON", "ENABLED"}
    [] type \in Conditions   -> {"OFF", "ON", "DELAY"}
    [] type \in OutputTypes  -> {"OFF", "ON", "ENABLED", "DISABLED"}
    [] type = "VIR_TANK"     -> {"OFF", "ON"}
    [] OTHER                 -> {"OFF", "ON", "ENABLED", "DISABLED", "FAULTED"}

KeyChanges ==
  /\ \E s \in StatesOf(kind.type), m, w \in BOOLEAN, n \in Values, field \in {"left", "value", "runtime", "stat"} :
       /\ kind.type \in Conditions \/ ~(m \/ w)
       /\ key' = [key EXCEPT !.state = s, !.met = m, !.waits = w, ![field] = n]
  /\ list' = IF list = "none" THEN "none" ELSE "older"
  /\ UNCHANGED <<kind, delayed, item>>

GetDevicesJson ==
  /\ item' = IF list = "none" THEN NewItem(key) ELSE RefreshedItem(key)
  /\ list' = IF list = "none" THEN "built" ELSE "refreshed"
  /\ UNCHANGED <<kind, delayed, key>>

PageNext == KeyChanges \/ GetDevicesJson
-----------------------------------------------------------------------------
(***************************************************************************)
(* A list that is kept says what a new one would: after a request that     *)
(* found the list built, every field of the item is that of an item built  *)
(* now.  Where the code has the two differ, it is in these:                *)
(*   - the status of a condition is ON or OFF in a new list and SAFE or    *)
(*     UNSAFE in a refreshed one, of the same condition (174, 313);        *)
(*   - the first list shows a condition in its met-delay as met, and the   *)
(*     refresh as DELAY (174, 310);                                        *)
(*   - it has a doser's configured run time for the calculated one (214,   *)
(*     332).                                                               *)
(* (Lines of source/json_messages.c.)                                      *)
(***************************************************************************)
InOtherWords(k, f, content) ==
  \/ /\ kind.type \in Conditions /\ f = "status"
     /\ content = IF Delaying(k) THEN "DELAY" ELSE Safety(k.met)
  \/ kind.type \in Conditions /\ f = "int_status" /\ Delaying(k) /\ content = DelayNumber
  \/ f = "timer_default_runtime" /\ content = k.runtime

KeptListIsCurrent ==
  list = "refreshed" =>
    /\ DOMAIN item = DOMAIN NewItem(key)
    /\ \A f \in DOMAIN item : item[f] = NewItem(key)[f] \/ InOtherWords(key, f, item[f])

AllEntitiesAlive == \A config \in Configs : EntitiesAreAlive(kind, config)
=============================================================================
