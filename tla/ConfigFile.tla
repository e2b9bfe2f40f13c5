----------------------------- MODULE ConfigFile -----------------------------
(***************************************************************************)
(* The configuration of the daemon from one start to the next              *)
(* (source/config.c).  The file is read at the start only.  The web page   *)
(* is built from the memory of the daemon, the user changes it, and        *)
(* save_aquachem_config_json() writes what comes back to a second file     *)
(* which then replaces the first.  The daemon may stop between any two     *)
(* steps; the disk may be full, which nothing in the code looks at; and    *)
(* the machine may lose its power before the disk has what was written,    *)
(* for which the code does not wait (config.c:842).                        *)
(***************************************************************************)
EXTENDS ConfigBlocks

CONSTANTS
  Files,     \* the configuration files there may be at the first start: sequences of lines
  Mask,      \* PASSWD_MASK_TEXT
  MaxEdits,  \* bound: changes made on pages
  MaxSaves,  \* bound: pages sent
  MaxStarts  \* bound: starts of the daemon

ASSUME BoundsAssumption == MaxEdits \in Nat /\ MaxSaves \in Nat /\ MaxStarts \in Nat

\* Files are lists of lines; a line of an ID has one, or nothing.
ASSUME FilesAssumption ==
  \A lines \in Files :
    /\ lines \in Seq(ToSet(lines))
    /\ \A i \in 1..Len(lines) : lines[i].name = "ID" => lines[i].val = Unset \/ IsId(lines[i].val)

VARIABLES
  mem,    \* the running daemon: keys, parameters, and the keys it takes for virtual
  disk,   \* the lines of the configuration file
  tmp,    \* the lines of the second file, or NoFile
  step,   \* where save_aquachem_config_json() is: idle, opened, written or refused
  page,   \* the page of the client, or NoPage
  saved,  \* the page of the last save that took effect, or NoPage
  partial,\* a file that was saved has come to the disk in part
  done    \* the edits, saves and starts there were

configVars == <<mem, disk, tmp, step, page, saved, partial, done>>

Down == [up |-> FALSE]
NoPage == [shown |-> FALSE]
NoFile == [no |-> TRUE]
-----------------------------------------------------------------------------
(***************************************************************************)
(* The system's parameters: one masked on the page, one with a default,    *)
(* and one that is hidden from the page and written from memory.           *)
(***************************************************************************)
Defaults == [mqtt_passwd |-> Unset, mqtt_aquachemd_topic |-> "aquachemd", web_directory |-> "/var/www"]

\* A line sets its parameter, over what an earlier one set.
SetParameter(params, line) ==
  IF line.pre = "" /\ line.name \in DOMAIN Defaults /\ line.val # Unset
  THEN [params EXCEPT ![line.name] = line.val] ELSE params

ParametersOf(lines) == FoldLeft(SetParameter, Defaults, lines)

PagedParameters(m) == [mqtt_passwd |-> Mask, mqtt_aquachemd_topic |-> m.params.mqtt_aquachemd_topic]

\* What a page says of the parameters, the mask standing for what memory has.
MeantParameters(p, m) ==
  [mqtt_passwd |-> IF p.params.mqtt_passwd = Mask THEN m.params.mqtt_passwd ELSE p.params.mqtt_passwd,
   mqtt_aquachemd_topic |-> p.params.mqtt_aquachemd_topic,
   web_directory |-> m.params.web_directory]

ParameterLines(p, m) ==
  LET line(n) == [pre |-> "", name |-> n, val |-> MeantParameters(p, m)[n]]
  IN <<line("mqtt_passwd"), line("mqtt_aquachemd_topic"), line("web_directory")>>
-----------------------------------------------------------------------------
\* The constructors that do not write the flags of the key they allocate: what was in that memory
\* stays, and may have the bit of a virtual key.  A probe has them written with a duration for its
\* statistics; whether an MQTT thermometer or an I2C sensor was given one is left open.
FlagsUnwritten(d) ==
  \/ d.type \in {"MQTT_COND", "GPIO_COND", "GPIO_OUTPUT", "GPIO_INPUT", "SYSFS_VALUE", "MQTT_VALUE",
                 "MQTT_TEMP", "I2C_PRS"}
  \/ d.type \in EzoTypes \cup {"D1W_TEMP"} /\ d.at["statistics"] \in {Unset, Bad}

\* What the page may find where nothing was written: nothing, or something it can show.  (A pointer
\* it cannot follow ends the daemon: Stop.)
LeftOvers == {[n \in {"statistics", "regex", "uom"} |-> Unset],
              [n \in {"statistics", "regex", "uom"} |-> <<n, 40>>]}
HasLeftOvers(d) == d.type \in Types /\ \E n \in ToSet(PageFields[d.type]) : IsLeftOver(d, n)

ConfigInit ==
  /\ mem = Down /\ tmp = NoFile /\ step = "idle" /\ page = NoPage /\ saved = NoPage
  /\ disk \in Files
  /\ partial = FALSE
  /\ done = [edits |-> 0, saves |-> 0, starts |-> 0]

\* parse_config_file() and assign_missing_ids().  A constructor that copies a topic that is not
\* there ends the daemon, at this start and at every other.
Start ==
  /\ ~mem.up /\ done.starts < MaxStarts
  /\ ~Parsed(disk).dead
  /\ LET keys == AssignMissingIds(Parsed(disk).keys)
         unwritten == {i \in 1..Len(keys) : FlagsUnwritten(keys[i])}
     IN \E virtual \in {{}} \cup {{i} : i \in unwritten} : \E found \in LeftOvers :
          /\ (\A i \in 1..Len(keys) : ~HasLeftOvers(keys[i])) => \A n \in DOMAIN found : found[n] = Unset
          /\ mem' = [up |-> TRUE, keys |-> keys, params |-> ParametersOf(disk), virtual |-> virtual,
                     found |-> found]
  /\ done' = [done EXCEPT !.starts = @ + 1]
  /\ UNCHANGED <<disk, tmp, step, page, saved, partial>>

\* build_aquachem_config_json(): every key that is not virtual, in the order of the list.
IsPaged(m, i) == i \notin m.virtual /\ m.keys[i].type \notin VirtualTypes

PagedKeys(m) ==
  FoldLeft(LAMBDA ks, i : IF IsPaged(m, i) THEN Append(ks, m.keys[i]) ELSE ks,
           <<>>, [i \in 1..Len(m.keys) |-> i])

LoadPage ==
  /\ mem.up /\ step = "idle" /\ done.saves < MaxSaves
  /\ page' = [shown |-> TRUE, params |-> PagedParameters(mem),
              blocks |-> [i \in 1..Len(PagedKeys(mem)) |-> BlockOf(PagedKeys(mem)[i], mem.found)]]
  /\ UNCHANGED <<mem, disk, tmp, step, saved, partial, done>>
-----------------------------------------------------------------------------
(***************************************************************************)
(* The client.  A field is given another of its values, and a select has   *)
(* its options only.  Text where a number is due comes from clients other  *)
(* than the page, which turns it into zero.                                *)
(***************************************************************************)
Offered(b, n) ==
  CASE n \in ScopeNames -> {"Local", "Global"} \cup {v \in {"Allow"} : n = "interlock_scope" /\ b.type = "GPIO_OUTPUT"}
    [] n = "type" /\ b.type = "I2C_PRS" -> {"PTE7300", "HSC/SSC"}
    [] n = "type" /\ b.type = "GPIO_PMP" -> {"pH", "ORP", "H2O"}
    [] n = "type" /\ b.type \notin {"I2C_PRS", "GPIO_PMP"} -> {"Input", "Output"}
    [] n = "tank_uom" -> {"gallons", "liters", Unset}
    [] n \in {"pin_mode", "required_state"} -> {<<n, 1>>, <<n, 2>>}
    [] n = "statistics" -> {<<n, 20>>, <<n, 25>>, Unset}
    [] n \in Numbers \ {"required_state"} -> {<<n, 2>>, Unset, Bad}
    [] OTHER -> {<<n, 2>>, Unset}

\* A new doser's page offers the options of the pin instead of those of the pump.
NewlyOffered(b, n) ==
  IF n = "type" /\ b.type = "GPIO_PMP" THEN {"gpio", "Active High", "Active Low"} ELSE Offered(b, n)

Preset(t, n) == CHOOSE v \in NewlyOffered([type |-> t], n) : TRUE
NewBlock(t, label) ==
  [label |-> label, type |-> t, id |-> NoId, names |-> Templates[t],
   at |-> [n \in ToSet(Templates[t]) |-> IF n \in {"topic", "path", "statistics"} THEN Unset ELSE Preset(t, n)]]

Edited ==
  /\ page.shown /\ step = "idle" /\ done.edits < MaxEdits
  /\ done' = [done EXCEPT !.edits = @ + 1]
  /\ UNCHANGED <<mem, disk, tmp, step, saved, partial>>

EditField ==
  /\ Edited
  /\ \E i \in 1..Len(page.blocks) : \E n \in ToSet(page.blocks[i].names) :
       \E v \in Offered(page.blocks[i], n) : page' = [page EXCEPT !.blocks[i].at[n] = v]
EditLabel == Edited /\ \E i \in 1..Len(page.blocks) : page' = [page EXCEPT !.blocks[i].label = NoLabel]
DeleteBlock == Edited /\ \E i \in 1..Len(page.blocks) : page' = [page EXCEPT !.blocks = RemoveAt(@, i)]
AddBlock ==
  /\ Edited
  /\ \E t \in Types :
       \/ page' = [page EXCEPT !.blocks = Append(@, NewBlock(t, "new"))]
       \/ \E n \in {"topic", "path", "statistics"} \cap ToSet(Templates[t]) :
            page' = [page EXCEPT !.blocks = Append(@, [NewBlock(t, "new") EXCEPT !.at[n] = <<n, 20>>])]
EditParameter ==
  /\ Edited
  /\ \/ page' = [page EXCEPT !.params.mqtt_passwd = "another"]
     \/ \E v \in {"another", Unset} : page' = [page EXCEPT !.params.mqtt_aquachemd_topic = v]
-----------------------------------------------------------------------------
(***************************************************************************)
(* save_aquachem_config_json().                                            *)
(***************************************************************************)
SaveOpens ==
  /\ mem.up /\ page.shown /\ step = "idle" /\ done.saves < MaxSaves
  /\ tmp' = <<>> /\ step' = "opened"
  /\ done' = [done EXCEPT !.saves = @ + 1]
  /\ UNCHANGED <<mem, disk, page, saved, partial>>

\* Every field is validated, the empty ones too; one that is not valid ends the writing.
IsValidBlock(b) ==
  \A n \in ToSet(b.names) :
    HasNoValue(b, n) \/ IsValidConfig([pre |-> Prefix[b.type], name |-> n, val |-> b.at[n]])

SaveWrites ==
  /\ step = "opened"
  /\ LET lines == ParameterLines(page, mem) \o BlocksLines(page.blocks)
     IN IF \E i \in 1..Len(page.blocks) : ~IsValidBlock(page.blocks[i])
        THEN step' = "refused" /\ UNCHANGED <<tmp, partial>>
        ELSE /\ step' = "written"
             /\ \/ tmp' = lines /\ UNCHANGED partial
                \/ tmp' = SubSeq(lines, 1, Len(lines) \div 2) /\ partial' = TRUE
  /\ UNCHANGED <<mem, disk, page, saved, done>>

Refuse ==
  /\ step = "refused"
  /\ tmp' = NoFile /\ step' = "idle"
  /\ UNCHANGED <<mem, disk, page, saved, partial, done>>

\* Memory stays as it is: the reload that would follow is commented out.  Nothing is flushed.
Rename ==
  /\ step = "written"
  /\ disk' = tmp /\ tmp' = NoFile /\ step' = "idle"
  /\ saved' = [page EXCEPT !.params = MeantParameters(page, mem)]
  /\ UNCHANGED <<mem, page, partial, done>>

\* The daemon ends, between any two steps.  A second file that was being written stays behind.
Stop ==
  /\ mem.up
  /\ mem' = Down /\ step' = "idle" /\ page' = NoPage
  /\ UNCHANGED <<disk, tmp, saved, partial, done>>

\* The machine loses its power while the file of a save is not all on the disk: half of it stands
\* for any part.
PowerLoss ==
  /\ mem.up /\ saved.shown /\ ~partial
  /\ mem' = Down /\ step' = "idle" /\ page' = NoPage
  /\ disk' = SubSeq(disk, 1, Len(disk) \div 2) /\ partial' = TRUE
  /\ UNCHANGED <<tmp, saved, done>>

ConfigNext ==
  \/ Start \/ LoadPage \/ Stop \/ PowerLoss
  \/ EditField \/ EditLabel \/ DeleteBlock \/ AddBlock \/ EditParameter
  \/ SaveOpens \/ SaveWrites \/ Refuse \/ Rename
-----------------------------------------------------------------------------
(***************************************************************************)
(* What the next start must make of a field of a block that was saved.     *)
(* NotKept names the fields the code loses or replaces.                    *)
(***************************************************************************)
NotKept(b, n) ==
  \* an I2C sensor and a topic's thermometer take no duration, and a topic's sensors no scope
  \/ n = "statistics" /\ b.type \in {"I2C_PRS", "MQTT_TEMP"}
  \/ n = "interlock_scope" /\ b.type = "MQTT_TEMP"
  \* the memory of an MQTT value without a unit, or of a sysfs sensor without a pattern, is not
  \* written: they come back with whatever is in it
  \/ n = "uom" /\ b.type = "MQTT_VALUE" /\ b.at[n] = Unset
  \/ n = "regex" /\ b.type = "SYSFS_VALUE" /\ b.at[n] = Unset
  \* a field of a new block that the parser does not know
  \/ n \notin KnownNames[Prefix[b.type]]
  \* the role a new doser's page offers is none
  \/ n = "type" /\ b.at["type"] \notin {"pH", "ORP", "H2O", "PTE7300"}

Meant(b, n) ==
  CASE n = "tank_uom" /\ b.at["tank_total_volume"] = Unset -> Unset
    [] n = "tank_uom" /\ b.at[n] = Unset /\ b.at["tank_total_volume"] # Unset -> "liters"
    [] n = "uom" -> UnitOf(b.type, b.at[n])
    [] HasNoValue(b, n) -> Unset
    [] OTHER -> b.at[n]

\* What the parser makes a device of at all.
MakesADevice(b) ==
  /\ b.type = "I2C_PRS" => b.at["type"] = "PTE7300"
  /\ b.type = "MQTT_VALUE" => b.at["topic"] # Unset

AllLabelled(p) == \A i \in 1..Len(p.blocks) : p.blocks[i].label # NoLabel

IsMadeFrom(d, b) ==
  /\ d.label = b.label /\ d.type = b.type /\ (b.id # NoId => d.id = b.id)
  /\ \A n \in ToSet(b.names) : NotKept(b, n) \/ d.at[n] = Meant(b, n)

(***************************************************************************)
(* A start finds the last page that was saved, and nothing else: at any    *)
(* moment, in the middle of another save too, the file read now gives one  *)
(* device for each block of that page, with the fields it had there, and   *)
(* no other device, and the parameters of that page.  Left out are a page  *)
(* that came to the disk in part, over a full disk or a loss of power,     *)
(* which takes effect as far as it went; a page with a block without       *)
(* label, whose fields go to the block before it; and one that no start    *)
(* survives.  An empty unit or pattern may come back as anything (NotKept).*)
(***************************************************************************)
BootGivesLastSave ==
  saved.shown /\ ~partial /\ AllLabelled(saved) =>
    LET parsed == Parsed(disk)
        made == {i \in 1..Len(saved.blocks) : MakesADevice(saved.blocks[i])}
        devices == {i \in 1..Len(parsed.keys) : parsed.keys[i].type \notin VirtualTypes}
    IN \/ parsed.dead
       \/ /\ Cardinality(devices) = Cardinality(made)
          /\ \A i \in made : \E j \in devices : IsMadeFrom(parsed.keys[j], saved.blocks[i])
          /\ \A n \in DOMAIN Defaults :
               ParametersOf(disk)[n] = IF saved.params[n] = Unset THEN Defaults[n] ELSE saved.params[n]

(***************************************************************************)
(* The ID is what a device's doses, its tank's level and its entities in   *)
(* the home automation are known by (aquachemd's journal, mqtt_discovery). *)
(* No two keys of a running daemon share one, whatever IDs a file has that *)
(* was written by hand; and a device of the page keeps its own through     *)
(* every save and start.  The IDs of tanks and of the thermometers of I2C  *)
(* sensors are not written and may change (config.c:2667, 2799).           *)
(***************************************************************************)
IdsTellDevicesApart ==
  /\ mem.up => \A i, j \in 1..Len(mem.keys) : i # j => mem.keys[i].id # mem.keys[j].id
  /\ saved.shown /\ ~partial /\ AllLabelled(saved) =>
       LET next == AssignMissingIds(Parsed(disk).keys)
           pinned == {i \in 1..Len(saved.blocks) : saved.blocks[i].id # NoId /\ MakesADevice(saved.blocks[i])}
       IN  \/ Parsed(disk).dead
           \/ \A i \in pinned : \E j \in 1..Len(next) :
                next[j].label = saved.blocks[i].label /\ next[j].id = saved.blocks[i].id
=============================================================================
