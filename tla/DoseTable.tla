----------------------------- MODULE DoseTable -----------------------------
(***************************************************************************)
(* The dose tables of AquachemD: parse_dose_range() (source/config.c) and  *)
(* get_ph_dose_time(), get_orp_dose_time() (source/state_manager.c).  A    *)
(* line of the configuration is a threshold and a run time.  Acid is dosed *)
(* above a threshold and its table runs down; chlorine is dosed below one  *)
(* and its table runs up.  Thresholds and readings are small numbers here. *)
(***************************************************************************)
EXTENDS Naturals, SequencesExt

\* A line of the configuration.
DoseLine == [threshold : Nat, seconds : Nat]

CONSTANT MaxRanges  \* MAX_DOSING_RANGES

ASSUME MaxRangesAssumption == MaxRanges \in Nat \ {0}

\* Which of two thresholds comes first in a table.
Before(t, u, descending) == IF descending THEN t > u ELSE t < u

\* Mutation: the new line moves up by one at most.
InsertOnce(steps, line, descending) ==
  LET n == Len(steps)
  IN IF n > 0 /\ Before(line.threshold, steps[n].threshold, descending)
     THEN InsertAt(steps, n, line) ELSE Append(steps, line)

\* The new line moves up past every line it comes before.
InsertLine(steps, line, descending) ==
  LET staying == {i \in DOMAIN steps : ~Before(line.threshold, steps[i].threshold, descending)}
  IN InsertAt(steps, Cardinality(staying) + 1, line)

\* parse_dose_range(): a line that finds the table full is refused.
ParseDoseRange(steps, line, descending) ==
  IF Len(steps) >= MaxRanges THEN steps ELSE InsertLine(steps, line, descending)

DoseTableOf(lines, descending) ==
  FoldLeft(LAMBDA steps, line : ParseDoseRange(steps, line, descending), <<>>, lines)

\* The first step that the reading has reached; else the last, the mildest.
StepReached(steps, reading, descending) ==
  LET i == SelectInSeq(steps, LAMBDA step :
             IF descending THEN reading >= step.threshold ELSE reading <= step.threshold)
  IN IF i = 0 THEN Last(steps).seconds ELSE steps[i].seconds

\* get_ph_dose_time(), get_orp_dose_time()
GetDoseTime(steps, reading, descending, defaultTime) ==
  IF steps = <<>> THEN defaultTime ELSE StepReached(steps, reading, descending)
-----------------------------------------------------------------------------
(***************************************************************************)
(* What a table means, said without an order: of the thresholds a reading  *)
(* has reached, the one furthest along; if it has reached none, the        *)
(* nearest.  Several lines may have that threshold: any of them will do.   *)
(***************************************************************************)
Reached(lines, reading, descending) ==
  {l \in lines : IF descending THEN reading >= l.threshold ELSE reading <= l.threshold}

Furthest(lines, descending) ==
  {l \in lines : \A k \in lines : ~Before(k.threshold, l.threshold, descending)}

Nearest(lines, descending) == Furthest(lines, ~descending)

Bracket(lines, reading, descending) ==
  IF Reached(lines, reading, descending) # {}
  THEN Furthest(Reached(lines, reading, descending), descending)
  ELSE Nearest(lines, descending)
=============================================================================
