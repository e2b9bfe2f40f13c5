-------------------------- MODULE MCDoseAccounting --------------------------
(***************************************************************************)
(* Dose tables for TLC: none, the same three lines in every order, one     *)
(* line more than a table holds, and two lines of one threshold.  The line *)
(* of threshold 3 runs longer than the maximum dose time.                  *)
(***************************************************************************)
EXTENDS DoseAccounting

Line(t, s) == [threshold |-> t, seconds |-> s]

ThreeLines == {Line(1, 0), Line(2, 1), Line(3, 3)}

OneMore == <<Line(2, 1), Line(1, 0), Line(3, 3), Line(4, 2)>>

Tied == <<Line(2, 1), Line(3, 3), Line(2, 2)>>

\* Below 0, far over the cap, and no number.
MCStartTotals == {-2, 7, NaN}

MCDoseLines == SetToSeqs(ThreeLines) \cup {<<>>, OneMore, Tied}
=============================================================================
