------------------------------ MODULE MCConfig ------------------------------
(***************************************************************************)
(* The configuration and the schedules, for TLC.  The two share nothing,   *)
(* so a behaviour has one of them.  The first files are written by hand:   *)
(* every type with all the fields it may have, alone and before a second   *)
(* device, with its own ID, without one, with the same one twice, and with *)
(* one of another family.                                                  *)
(***************************************************************************)
EXTENDS ConfigFile, Schedules

fileVars == <<configVars, scheduleVars>>

First(t, n) ==
  CASE n \in ScopeNames -> "Local"
    [] n = "type" -> IF t = "I2C_PRS" THEN "PTE7300" ELSE "ORP"
    [] n = "tank_uom" -> "gallons"
    [] n = "statistics" -> <<n, 25>>
    [] OTHER -> <<n, 1>>

FieldsOf(t) ==
  CASE t \in EzoTypes \cup {"MQTT_TEMP", "D1W_TEMP"} -> PageFields[t] \o <<"uom">>
    [] OTHER -> PageFields[t]

Device(t, label, id) ==
  [label |-> label, type |-> t, id |-> id, names |-> FieldsOf(t),
   at |-> [n \in ToSet(FieldsOf(t)) |-> First(t, n)]]

\* A second device that says as little as it can.
Bare(t, label, id) ==
  [label |-> label, type |-> t, id |-> id, names |-> SelectSeq(<<"type", "topic", "path">>, LAMBDA n : n \in ToSet(PageFields[t])),
   at |-> [n \in {"type", "topic", "path"} \cap ToSet(PageFields[t]) |-> First(t, n)]]

Parameters == <<[pre |-> "", name |-> "mqtt_passwd", val |-> "secret"]>>

FilesOfOne == {Parameters \o BlocksLines(<<Device(t, "one", <<Family(t), 2>>)>>) : t \in Types}
FilesOfTwo ==
  {Parameters \o BlocksLines(<<Device(t, "one", <<Family(t), 2>>), Bare(u, "two", id)>>) :
     t \in {"GPIO_PMP", "D1W_TEMP"}, u \in {"EZO_TEMP", "GPIO_PMP", "GPIO_OUTPUT", "I2C_PRS"}, id \in {NoId, <<"PMP", 2>>, <<"TEMP", 2>>}}
MCFiles == FilesOfOne \cup FilesOfTwo

\* Rows that differ in one thing from an enabled one that the page finds.
MCRows ==
  LET row == [enabled |-> TRUE, when |-> "0 8 * * *", value |-> "10"]
  IN {row, [row EXCEPT !.enabled = FALSE], [row EXCEPT !.when = "0 8 * * sat"],
      [row EXCEPT !.value = "1.5"], [row EXCEPT !.value = "on"]}

NoConfig ==
  /\ mem = Down /\ disk = <<>> /\ tmp = NoFile /\ step = "idle" /\ page = NoPage /\ saved = NoPage
  /\ partial = FALSE /\ done = [edits |-> MaxEdits, saves |-> MaxSaves, starts |-> MaxStarts]

MCInit == (ConfigInit /\ SchedulesInit) \/ (NoConfig /\ SchedulesInit)

MCNext ==
  \/ disk # <<>> /\ ConfigNext /\ UNCHANGED scheduleVars
  \/ disk = <<>> /\ SchedulesNext /\ UNCHANGED configVars

MCSpec == MCInit /\ [][MCNext]_fileVars
=============================================================================
