----------------------------- MODULE Schedules -----------------------------
(***************************************************************************)
(* The schedules of the devices: lines of a cron file that PUT a value to  *)
(* the API of the daemon (source/acd_scheduler.c).  The page shows what an *)
(* expression finds in the file; the file is written again, in place, from *)
(* what the page sends.                                                    *)
(*                                                                         *)
(* A row is [enabled, when, value]: `when' stands for the five fields of   *)
(* the time and has an s in it or not (sat, sun, a month in lower case),   *)
(* because the expression's fields are of anything but `s' and backslash;  *)
(* a value is whole, has a fraction, or is a word.                         *)
(***************************************************************************)
EXTENDS Integers, Sequences, SequencesExt

CONSTANTS
  Rows,       \* the rows a user may enter
  MaxRows,    \* bound: rows of a page
  MaxRewrites \* bound: pages of schedules sent

VARIABLES
  cron,     \* the lines of the file
  pending,  \* the lines that save_schedules_js() has yet to write
  rows,     \* the rows of the client's page, or NoRows
  wanted,   \* the rows the user entered and has not removed
  cut,      \* the daemon ended while it wrote the file
  rewrites

scheduleVars == <<cron, pending, rows, wanted, cut, rewrites>>

Whens == {"0 8 * * *", "0 8 * * sat"}
RowValues == {"10", "1.5", "on"}

ASSUME RowsAssumption ==
  /\ Rows \subseteq [enabled : BOOLEAN, when : Whens, value : RowValues]
  /\ MaxRows \in Nat /\ MaxRewrites \in Nat

NoRows == [shown |-> FALSE]

\* build_schedules_js(): the rows the expression finds; a comment is a row that is not enabled,
\* and of a value it takes the digits.
IsFound(line) == line.when = "0 8 * * *" /\ line.value # "on"
RowOf(line) == [line EXCEPT !.value = IF @ = "1.5" THEN "1" ELSE @]
\* Mutation: a line that is commented out is a comment.
BuildSchedulesOfEnabled(lines) ==
  FoldLeft(LAMBDA found, l : IF l.enabled /\ IsFound(l) THEN Append(found, RowOf(l)) ELSE found, <<>>, lines)
BuildSchedules(lines) ==
  FoldLeft(LAMBDA found, l : IF IsFound(l) THEN Append(found, RowOf(l)) ELSE found, <<>>, lines)
-----------------------------------------------------------------------------
SchedulesInit ==
  /\ cron = <<>> /\ pending = <<>> /\ rows = NoRows /\ wanted = {} /\ cut = FALSE /\ rewrites = 0

LoadSchedules ==
  /\ pending = <<>>
  /\ rows' = [shown |-> TRUE, list |-> BuildSchedules(cron)]
  /\ UNCHANGED <<cron, pending, wanted, cut, rewrites>>

AddRow ==
  /\ rows.shown /\ pending = <<>> /\ Len(rows.list) < MaxRows
  /\ \E row \in Rows : rows' = [rows EXCEPT !.list = Append(@, row)]
  /\ UNCHANGED <<cron, pending, wanted, cut, rewrites>>

DeleteRow ==
  /\ rows.shown /\ pending = <<>>
  /\ \E i \in 1..Len(rows.list) :
       /\ rows' = [rows EXCEPT !.list = RemoveAt(@, i)]
       /\ wanted' = {row \in wanted : RowOf(row) # RowOf(rows.list[i])}
  /\ UNCHANGED <<cron, pending, cut, rewrites>>

\* save_schedules_js(): the file is emptied, then written line by line.
SaveSchedules ==
  /\ rows.shown /\ pending = <<>> /\ rewrites < MaxRewrites
  /\ cron' = <<>> /\ pending' = rows.list
  /\ wanted' = wanted \cup ToSet(rows.list)
  /\ rewrites' = rewrites + 1
  /\ UNCHANGED <<rows, cut>>

WriteLine ==
  /\ pending # <<>>
  /\ cron' = Append(cron, Head(pending)) /\ pending' = Tail(pending)
  /\ UNCHANGED <<rows, wanted, cut, rewrites>>

\* The daemon or the machine ends: what was not written is gone.
Crash ==
  /\ pending' = <<>> /\ rows' = NoRows
  /\ cut' = (cut \/ pending # <<>>)
  /\ UNCHANGED <<cron, wanted, rewrites>>

SchedulesNext == LoadSchedules \/ AddRow \/ DeleteRow \/ SaveSchedules \/ WriteLine \/ Crash
-----------------------------------------------------------------------------
(***************************************************************************)
(* A schedule that a user entered and never removed is still run by cron,  *)
(* after any number of loads and saves of the page.  Not so one that the   *)
(* expression does not find (a value that is a word, a day written with an *)
(* s), which the next save of a page removes; a value's fraction, which    *)
(* the next save cuts; and what a crash in the middle of a save left out,  *)
(* the file being written in place.                                        *)
(***************************************************************************)
SchedulesSurvive ==
  pending = <<>> /\ ~cut =>
    \A row \in wanted : IsFound(row) => \E i \in 1..Len(cron) : cron[i] \in {row, RowOf(row)}
=============================================================================
