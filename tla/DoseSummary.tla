---------------------------- MODULE DoseSummary ----------------------------
(***************************************************************************)
(* The summary of doses a client asks for: get_pump_summaries_json()       *)
(* (source/json_messages.c) reads the pump events of the journal from the  *)
(* start of a day on, adds up each pump's, and keeps the newest events in  *)
(* a ring for the history.  It has room for MaxPumps pumps (5) and         *)
(* MaxHistoryEvents events (350).                                          *)
(*                                                                         *)
(* The journal is a sequence of events in the order of time; its day says  *)
(* how many days ago an event was, and is what the filter looks at.        *)
(***************************************************************************)
EXTENDS Naturals, FiniteSets, Sequences

CONSTANTS PumpIds, Names, Unknown, MaxPumps, MaxHistoryEvents, MaxEvents, MaxDays

ASSUME SummaryAssumption ==
  /\ Unknown \in Names
  /\ MaxPumps \in Nat \ {0} /\ MaxHistoryEvents \in Nat \ {0}
  /\ MaxEvents \in Nat /\ MaxDays \in Nat \ {0}

Events == [id : PumpIds, name : Names, seconds : 1..2, day : 1..MaxDays]

VARIABLES
  journal,  \* the pump events there are
  days,     \* how many days the client asked for: 1 is today
  next,     \* the next entry to read
  stats,    \* the pumps met so far, in the order they were met
  ring,     \* event_ring
  head,     \* ring_head
  count,    \* ring_count
  history,  \* the history in the reply
  replied   \* whether the reply is written

summaryVars == <<journal, days, next, stats, ring, head, count, history, replied>>

SummaryInit ==
  /\ journal \in UNION {[1..n -> Events] : n \in 0..MaxEvents}
  /\ \A i \in 1..(Len(journal) - 1) : journal[i].day >= journal[i + 1].day
  /\ days \in 1..MaxDays
  /\ next = 1
  /\ stats = <<>>
  /\ ring = [i \in {} |-> 0] /\ head = 0 /\ count = 0
  /\ history = <<>> /\ replied = FALSE
-----------------------------------------------------------------------------
(***************************************************************************)
(* _find_pump_stats(): where a pump is in stats, with the slot it is given *)
(* if there is room, and the name it was not known by.                     *)
(***************************************************************************)
Known(id) == \E i \in 1..Len(stats) : stats[i].id = id

WithSlot(e) ==
  IF Known(e.id)
  THEN [i \in 1..Len(stats) |->
          IF stats[i].id = e.id /\ stats[i].name = Unknown THEN [stats[i] EXCEPT !.name = e.name] ELSE stats[i]]
  ELSE IF Len(stats) < MaxPumps THEN Append(stats, [id |-> e.id, name |-> e.name, total |-> 0])
  ELSE stats

Has(slots, id) == \E i \in 1..Len(slots) : slots[i].id = id

AddedTo(slots, e) ==
  [i \in 1..Len(slots) |-> IF slots[i].id = e.id THEN [slots[i] EXCEPT !.total = @ + e.seconds] ELSE slots[i]]

\* Mutation: a full ring stays as it is.
InRingWhileRoom(e) ==
  IF count = MaxHistoryEvents THEN UNCHANGED <<ring, head, count>>
  ELSE /\ ring' = [i \in DOMAIN ring \cup {head} |-> IF i = head THEN e ELSE ring[i]]
       /\ head' = (head + 1) % MaxHistoryEvents
       /\ count' = count + 1

InRing(e) ==
  /\ ring' = [i \in DOMAIN ring \cup {head} |-> IF i = head THEN e ELSE ring[i]]
  /\ head' = (head + 1) % MaxHistoryEvents
  /\ count' = IF count = MaxHistoryEvents THEN count ELSE count + 1

OutsideWindow(e) == e.day > days

(***************************************************************************)
(* One turn of the loop; entries before the start of the window are passed *)
(* over by the seek.                                                       *)
(***************************************************************************)
ReadEvent ==
  /\ ~replied /\ next <= Len(journal)
  /\ next' = next + 1
  /\ IF OutsideWindow(journal[next])
     THEN UNCHANGED <<stats, ring, head, count>>
     ELSE /\ stats' = AddedTo(WithSlot(journal[next]), journal[next])
          /\ IF Has(stats', journal[next].id) THEN InRing(journal[next])
             ELSE UNCHANGED <<ring, head, count>>
  /\ UNCHANGED <<journal, days, history, replied>>

DrainRing ==
  /\ ~replied /\ next > Len(journal)
  /\ LET start == IF count = MaxHistoryEvents THEN head ELSE 0
     IN  history' = [i \in 1..count |-> ring[(start + i - 1) % MaxHistoryEvents]]
  /\ replied' = TRUE
  /\ UNCHANGED <<journal, days, next, stats, ring, head, count>>

SummaryNext == ReadEvent \/ DrainRing
-----------------------------------------------------------------------------
(***************************************************************************)
(* What the reply promises, from the journal alone.                        *)
(***************************************************************************)
\* The first n entries of the journal, and of these the events the client asked for.
Window(n) == {i \in 1..n : ~OutsideWindow(journal[i])}
EventsOf(id, n) == {i \in Window(n) : journal[i].id = id}
PumpsIn(n) == {journal[i].id : i \in Window(n)}

\* The pumps that are counted: the first MaxPumps to have dosed in the window.
Counted(id, n) == \E i \in EventsOf(id, n) : Cardinality(PumpsIn(i)) <= MaxPumps

\* The seconds a pump ran, each for itself.
SecondsOf(id, n) == UNION {{<<i, s>> : s \in 1..journal[i].seconds} : i \in EventsOf(id, n)}

EventsOfCounted(n) == {i \in Window(n) : Counted(journal[i].id, n)}

\* Every pump that is counted has one slot, with its total; and its name, if an event named it.
SlotsAreExact(n) ==
  /\ {stats[i].id : i \in 1..Len(stats)} = {id \in PumpIds : Counted(id, n)}
  /\ \A i, j \in 1..Len(stats) : stats[i].id = stats[j].id => i = j
  /\ \A i \in 1..Len(stats) :
       /\ stats[i].total = Cardinality(SecondsOf(stats[i].id, n))
       /\ stats[i].name = Unknown => \A j \in EventsOf(stats[i].id, n) : journal[j].name = Unknown

\* The history is the newest events of those pumps: each has behind it what it has in the journal.
HistoryIsNewest(n) ==
  LET kept == EventsOfCounted(n)
      behind(i) == Cardinality({j \in kept : j > i})
  IN  /\ Len(history) = IF Cardinality(kept) < MaxHistoryEvents THEN Cardinality(kept) ELSE MaxHistoryEvents
      /\ \A i \in kept : behind(i) < MaxHistoryEvents => history[Len(history) - behind(i)] = journal[i]

(***************************************************************************)
(* A reply is exact for the pumps it counts, named if any of their events  *)
(* named them, and its history is the newest of their events in the order  *)
(* of time, whatever the order of pumps and however often the ring wraps.  *)
(***************************************************************************)
SummaryIsExact == replied => SlotsAreExact(Len(journal)) /\ HistoryIsNewest(Len(journal))
=============================================================================
