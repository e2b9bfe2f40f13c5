--------------------------- MODULE SensorDrivers ---------------------------
(***************************************************************************)
(* What the drivers of AquachemD make of what a sensor answers             *)
(* (source/ezo.c, i2c.c, 1wire.c, sysfs.c), as pure definitions, and what  *)
(* the main loop makes of that.  Raw data are small numbers or Fail, the   *)
(* outcome of a transfer that failed; a value says which raw number it was *)
(* computed from.  A raw number stands for any other: the linear scale of  *)
(* i2c_scale() and of the settings is not modelled but for its zero span.  *)
(***************************************************************************)
EXTENDS Naturals, Sequences

CONSTANTS
  Raws,
  Fail,       \* a transfer or a read that failed, a pattern that is not there or does not match
  NoNumber    \* a text, or a part of it that a pattern captured, that is no number

ASSUME RawAssumption == Fail \notin Raws /\ NoNumber \notin Raws \cup {Fail} /\ Raws # {}

Zero == <<"zero">>
NotANumber == <<"nan">>
Measured(raw) == <<"measured", raw>>

Reading(status, value) == [status |-> status, value |-> value]
Failed(status) == Reading(status, Zero)
-----------------------------------------------------------------------------
\* ph_calibrate_by_value(), with a tenth of a pH as unit.
CalibrationPoint(value) == IF value < 55 THEN 40 ELSE IF value <= 85 THEN 70 ELSE 100

\* A span of no counts has no scale: i2c_scale().
Scaled(raw, hasSpan) == IF hasSpan THEN Measured(raw) ELSE NotANumber

(***************************************************************************)
(* pte7300_get_reading(): three transfers, the pressure, the temperature   *)
(* and the status word, the last of which may fail unnoticed and then is   *)
(* not known.  A status word that has not been seen good before ends the   *)
(* reading with a success.                                                 *)
(***************************************************************************)
\* Mutation: a transfer that failed leaves zero counts, as it does for the status.
PteReadingOfCounts(pressure, temperature, statusKnown, hasSpan) ==
  IF ~statusKnown THEN Reading("success", Zero)
  ELSE IF ~hasSpan THEN Failed("error")
  ELSE Reading("success", IF pressure = Fail THEN Measured(0) ELSE Scaled(pressure, hasSpan))

PteReading(pressure, temperature, statusKnown, hasSpan) ==
  IF pressure = Fail \/ temperature = Fail THEN Failed("error")
  ELSE IF ~statusKnown THEN Reading("success", Zero)
  ELSE IF ~hasSpan THEN Reading("error", NotANumber)
  ELSE Reading("success", Scaled(pressure, hasSpan))

\* hsc_get_reading(): one transfer, the first two bits of it the status.
HscReading(bits, pressure, hasSpan) ==
  IF pressure = Fail \/ bits \in {"diagnostic", "command_mode"} THEN Failed("error")
  ELSE Reading(IF bits = "stale" THEN "pending" ELSE "success", Scaled(pressure, hasSpan))

\* i2c_sensor_init(): what is kept of a sensor does not depend on how its reset went.
SensorInit(type, responds) ==
  [type |-> type, hasSpan |-> type \in {"PTE7300", "HSC"},
   result |-> IF type = "PTE7300" THEN responds ELSE type = "HSC"]

\* w1_read(): the driver of the kernel checks the CRC.
W1Reading(exists, raw) ==
  IF ~exists THEN Failed("not_found") ELSE IF raw = Fail THEN Failed("error") ELSE Reading("success", Measured(raw))

(***************************************************************************)
(* sysfs_init_sensor(): there is one compiled pattern for all sensors, so  *)
(* the last sensor to have one leaves it for every other.  Patterns that   *)
(* do not compile are left out.                                            *)
(***************************************************************************)
LastPattern(patterns) ==
  LET has == {i \in 1..Len(patterns) : patterns[i] # Fail}
  IN  IF has = {} THEN Fail ELSE patterns[CHOOSE i \in has : \A j \in has : j <= i]

(***************************************************************************)
(* sysfs_read_sensor(): a line without a number is an error if it is read  *)
(* as it is.  found[p] is what pattern p captures of the line; a match     *)
(* that captures nothing, or no number, is a success and reads zero.       *)
(***************************************************************************)
Captured(text) == IF text = NoNumber THEN Zero ELSE Measured(text)

SysfsReading(patterns, i, exists, line, found) ==
  IF ~exists THEN Failed("not_found")
  ELSE IF line = Fail THEN Failed("access_error")
  ELSE IF patterns[i] = Fail /\ line = NoNumber THEN Failed("error")
  ELSE IF patterns[i] = Fail THEN Reading("success", Measured(line))
  ELSE IF found[LastPattern(patterns)] = Fail THEN Failed("regexp_error")
  ELSE Reading("success", Captured(found[LastPattern(patterns)]))

(***************************************************************************)
(* The main loop takes the value of a reading that succeeded, whatever it  *)
(* is, and counts any other status as an error.                            *)
(***************************************************************************)
Taken(reading) == reading.status = "success"
-----------------------------------------------------------------------------
(***************************************************************************)
(* What a sensor may answer, one poll of it.                               *)
(***************************************************************************)
VARIABLE sample

MaybeRaws == Raws \cup {Fail}
Texts == MaybeRaws \cup {NoNumber}

PteSamples == [driver : {"PTE7300"}, p : MaybeRaws, t : MaybeRaws, known : BOOLEAN, responds : BOOLEAN]
HscSamples == [driver : {"HSC"}, bits : {"normal", "stale", "diagnostic", "command_mode"}, p : MaybeRaws]
W1Samples == [driver : {"w1"}, exists : BOOLEAN, p : MaybeRaws]
SysfsSamples ==
  [driver : {"sysfs"}, patterns : [1..2 -> {1, 2, Fail}], i : 1..2, exists : BOOLEAN, line : Texts,
   found : [{1, 2} -> Texts]]
CalibrationSamples == [driver : {"calibrate"}, ph : 0..140]

Samples == PteSamples \cup HscSamples \cup W1Samples \cup SysfsSamples \cup CalibrationSamples
-----------------------------------------------------------------------------
(***************************************************************************)
(* What is taken from a sensor was measured by it, from the transfer or    *)
(* the pattern that is its own.  Two drivers break this: the PTE7300 reads *)
(* zero when its status word is not one of two known ones (source/i2c.c    *)
(* 619); a sysfs sensor with a pattern reads zero where its pattern        *)
(* matches without capturing a number (source/sysfs.c 109-122), and reads  *)
(* with another one's pattern when a later sensor has one too (60).  A pH  *)
(* probe is calibrated at the reference that is nearest (source/ezo.c 323).*)
(***************************************************************************)
PteIsTrue(s) ==
  LET r == PteReading(s.p, s.t, s.known, SensorInit("PTE7300", s.responds).hasSpan)
  IN  Taken(r) => r.value = Measured(s.p) \/ (~s.known /\ r.value = Zero)

HscIsTrue(s) ==
  LET r == HscReading(s.bits, s.p, SensorInit("HSC", TRUE).hasSpan)
  IN  Taken(r) => s.bits = "normal" /\ r.value = Measured(s.p) /\ s.p # Fail

W1IsTrue(s) ==
  LET r == W1Reading(s.exists, s.p) IN Taken(r) => s.exists /\ s.p # Fail /\ r.value = Measured(s.p)

SysfsIsTrue(s) ==
  LET r == SysfsReading(s.patterns, s.i, s.exists, s.line, s.found)
      mine == s.patterns[s.i]
      own == IF mine = Fail THEN s.line ELSE s.found[mine]
      last == \A j \in 1..2 : j > s.i => s.patterns[j] = Fail
      unread == mine # Fail /\ own = NoNumber /\ r.value = Zero
  IN  Taken(r) /\ (last \/ mine = Fail) =>
        (own \in Raws /\ r.value = Measured(own)) \/ unread

Distance(a, b) == IF a > b THEN a - b ELSE b - a

CalibrationIsNearest(ph) ==
  \A p \in {40, 70, 100} : Distance(CalibrationPoint(ph), ph) <= Distance(p, ph)

DriversReportWhatTheyRead ==
  CASE sample.driver = "PTE7300"   -> PteIsTrue(sample)
    [] sample.driver = "HSC"       -> HscIsTrue(sample)
    [] sample.driver = "w1"        -> W1IsTrue(sample)
    [] sample.driver = "sysfs"     -> SysfsIsTrue(sample)
    [] sample.driver = "calibrate" -> CalibrationIsNearest(sample.ph)
    [] OTHER                       -> TRUE
=============================================================================
