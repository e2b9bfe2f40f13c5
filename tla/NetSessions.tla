---------------------------- MODULE NetSessions ----------------------------
(***************************************************************************)
(* What the network thread of AquachemD keeps between its polls besides    *)
(* the state of the keys (source/net_services.c): the WebSockets, those of *)
(* them that watch the log (managers), its place in the systemd journal,   *)
(* and the one slot through which other threads hand it a dose event.      *)
(*                                                                         *)
(* The journal's entries are numbered; MaxLog bounds them.  Entries before *)
(* `oldest' have been vacuumed.  A manager session lasts from a manager's  *)
(* request to the turn that finds none left.                               *)
(***************************************************************************)
EXTENDS Naturals, Sequences, FiniteSets, TLC

CONSTANTS
  Sockets, Posters, None,
  MaxLog,
  Startup,         \* the entry that is the daemon's startup message
  FallbackLines    \* SD_FALLBACK_LINES, 10

ASSUME SessionAssumption ==
  /\ IsFiniteSet(Sockets) /\ IsFiniteSet(Posters)
  /\ MaxLog \in Nat \ {0} /\ Startup \in 1..MaxLog /\ FallbackLines \in Nat
  /\ None \notin Posters /\ None \notin Nat

VARIABLES
  socket,      \* what each WebSocket is
  openCount,   \* open_websockets
  watching,    \* acdManagerActive
  last,        \* the number of the journal's last entry
  oldest,      \* the number of its first one
  active,      \* the journal is open
  at,          \* the entry it stands on
  cursor,      \* the entry the saved cursor names
  first,       \* first_connection_since_boot
  streamed,    \* history: the entries sent in this manager session
  slot,        \* _dose_event
  post,        \* how far each thread is with post_dosing_event()
  mqttUp,      \* there is an MQTT connection
  pc,          \* where the network thread is
  owed,        \* history: the event that was posted and not taken, to be sent or, without MQTT, dropped
  mixed,       \* history: an event was published that nobody posted
  overlap      \* history: a post began while another or its sending was under way

socketVars == <<socket, openCount, watching>>
journalVars == <<last, oldest, active, at, cursor, first, streamed>>
doseVars == <<slot, post, owed, mixed, overlap>>
vars == <<socket, openCount, watching, last, oldest, active, at, cursor, first, streamed,
          slot, post, mqttUp, pc, owed, mixed, overlap>>

Entries == 1..MaxLog
EmptySlot == [dirty |-> FALSE, key |-> None, dose |-> None]
NetPlaces == {"poll", "dose", "resetDirty", "resetKey", "resetDose", "clear", "journal", "crashed"}

TypeOK ==
  /\ socket \in [Sockets -> {"closed", "open", "manager"}]
  /\ openCount \in 0..Cardinality(Sockets)
  /\ watching \in BOOLEAN
  /\ last \in 0..MaxLog /\ oldest \in 1..(MaxLog + 1)
  /\ active \in BOOLEAN /\ at \in 0..MaxLog
  /\ cursor \in Entries \cup {None}
  /\ first \in BOOLEAN
  /\ streamed \in Seq(Entries)
  /\ slot \in [dirty : BOOLEAN, key : Posters \cup {None}, dose : Posters \cup {None}]
  /\ post \in [Posters -> {"idle", "key", "dose"}]
  /\ mqttUp \in BOOLEAN
  /\ pc \in NetPlaces
  /\ owed \in Posters \cup {None}
  /\ mixed \in BOOLEAN /\ overlap \in BOOLEAN

\* The startup message has been logged, after what an earlier run left.
Init ==
  /\ socket = [s \in Sockets |-> "closed"] /\ openCount = 0 /\ watching = FALSE
  /\ last = Startup /\ oldest = 1
  /\ active = FALSE /\ at = 0 /\ cursor = None /\ first = TRUE
  /\ streamed = <<>>
  /\ slot = EmptySlot
  /\ post = [p \in Posters |-> "idle"]
  /\ mqttUp \in BOOLEAN
  /\ pc = "poll"
  /\ owed = None /\ mixed = FALSE /\ overlap = FALSE
-----------------------------------------------------------------------------
(***************************************************************************)
(* The WebSockets: what mg_mgr_poll() hands to ev_handler().               *)
(***************************************************************************)
Managers == {s \in Sockets : socket[s] = "manager"}

SocketOpens(s) ==
  /\ pc = "poll" /\ socket[s] = "closed"
  /\ socket' = [socket EXCEPT ![s] = "open"]
  /\ openCount' = openCount + 1
  /\ UNCHANGED <<watching, journalVars, doseVars, mqttUp, pc>>

ManagerRequest(s) ==
  /\ pc = "poll" /\ socket[s] = "open"
  /\ socket' = [socket EXCEPT ![s] = "manager"]
  /\ watching' = TRUE
  /\ UNCHANGED <<openCount, journalVars, doseVars, mqttUp, pc>>

\* Mutation: the first manager to leave ends the watch.
SocketClosesWatch(s) ==
  /\ pc = "poll" /\ socket[s] # "closed"
  /\ socket' = [socket EXCEPT ![s] = "closed"]
  /\ openCount' = openCount - 1
  /\ watching' = (watching /\ socket[s] # "manager")
  /\ UNCHANGED <<journalVars, doseVars, mqttUp, pc>>

SocketCloses(s) ==
  /\ pc = "poll" /\ socket[s] # "closed"
  /\ socket' = [socket EXCEPT ![s] = "closed"]
  /\ openCount' = openCount - 1
  /\ watching' = IF socket[s] = "manager" /\ Managers = {s} THEN FALSE ELSE watching
  /\ UNCHANGED <<journalVars, doseVars, mqttUp, pc>>

MqttComesOrGoes ==
  /\ pc = "poll"
  /\ mqttUp' = ~mqttUp
  /\ UNCHANGED <<socketVars, journalVars, doseVars, pc>>

EndOfPoll ==
  /\ pc = "poll"
  /\ pc' = IF slot.dirty THEN "dose" ELSE "journal"
  /\ UNCHANGED <<socketVars, journalVars, doseVars, mqttUp>>
-----------------------------------------------------------------------------
(***************************************************************************)
(* post_dosing_event(), by the threads that end a dose: the pump, what it  *)
(* pumped (the run time with it), then the flag.                           *)
(***************************************************************************)
Sending == pc \in {"dose", "resetDirty", "resetKey", "resetDose", "clear"}

\* Mutation: the flag goes up before the event is written.
PostKeyFlagFirst(p) ==
  /\ post[p] = "idle" /\ pc # "crashed"
  /\ overlap' = (overlap \/ Sending \/ slot.dirty \/ \E q \in Posters : post[q] # "idle")
  /\ slot' = [slot EXCEPT !.key = p, !.dirty = TRUE]
  /\ post' = [post EXCEPT ![p] = "key"]
  /\ UNCHANGED <<owed, mixed, socketVars, journalVars, mqttUp, pc>>

PostKey(p) ==
  /\ post[p] = "idle" /\ pc # "crashed"
  /\ overlap' = (overlap \/ Sending \/ slot.dirty \/ \E q \in Posters : post[q] # "idle")
  /\ slot' = [slot EXCEPT !.key = p]
  /\ post' = [post EXCEPT ![p] = "key"]
  /\ UNCHANGED <<owed, mixed, socketVars, journalVars, mqttUp, pc>>

PostDose(p) ==
  /\ post[p] = "key"
  /\ slot' = [slot EXCEPT !.dose = p]
  /\ post' = [post EXCEPT ![p] = "dose"]
  /\ UNCHANGED <<owed, mixed, overlap, socketVars, journalVars, mqttUp, pc>>

PostFlag(p) ==
  /\ post[p] = "dose"
  /\ slot' = [slot EXCEPT !.dirty = TRUE]
  /\ post' = [post EXCEPT ![p] = "idle"]
  /\ owed' = p
  /\ UNCHANGED <<mixed, overlap, socketVars, journalVars, mqttUp, pc>>

(***************************************************************************)
(* mqtt_broadcast_aquachemd_dose_event(): every MQTT connection is sent    *)
(* the event; a key that is NULL is read through all the same.  Then the   *)
(* slot is reset, connection or not, and its caller clears the flag again. *)
(***************************************************************************)
SendDose ==
  /\ pc = "dose"
  /\ pc' = IF mqttUp /\ slot.key = None THEN "crashed" ELSE "resetDirty"
  /\ mixed' = (mixed \/ (mqttUp /\ slot.key # slot.dose))
  /\ owed' = IF owed = slot.key THEN None ELSE owed
  /\ UNCHANGED <<slot, post, overlap, socketVars, journalVars, mqttUp>>

Reset(field, empty, from, to) ==
  /\ pc = from
  /\ slot' = [slot EXCEPT ![field] = empty]
  /\ pc' = to
  /\ UNCHANGED <<post, owed, mixed, overlap, socketVars, journalVars, mqttUp>>

ResetDoseEvent ==
  \/ Reset("dirty", FALSE, "resetDirty", "resetKey")
  \/ Reset("key", None, "resetKey", "resetDose")
  \/ Reset("dose", None, "resetDose", "clear")
  \/ Reset("dirty", FALSE, "clear", "journal")
-----------------------------------------------------------------------------
(***************************************************************************)
(* The journal, written by everything the daemon logs and vacuumed by      *)
(* systemd: sd_journal_previous() and the rest stay within its entries.    *)
(***************************************************************************)
EntryIsLogged ==
  /\ last < MaxLog /\ pc # "crashed"
  /\ last' = last + 1
  /\ UNCHANGED <<oldest, active, at, cursor, first, streamed, socketVars, doseVars, mqttUp, pc>>

Vacuum ==
  /\ oldest <= last /\ pc # "crashed"
  /\ oldest' = oldest + 1
  /\ UNCHANGED <<last, active, at, cursor, first, streamed, socketVars, doseVars, mqttUp, pc>>

Before(e) == IF e > oldest THEN e - 1 ELSE e
FirstFrom(e) == IF e < oldest THEN oldest ELSE e
AtMost(e) == IF e > last THEN last ELSE e

\* On the entry before the last FallbackLines, or the first there is.
TailPlace == AtMost(FirstFrom(IF last > FallbackLines THEN last - FallbackLines ELSE 0))

(***************************************************************************)
(* Where the journal is opened: on the entry of the saved cursor, or the   *)
(* next one there is if that one is gone; else, once in the daemon's life, *)
(* before its startup message; else before its last lines.                 *)
(***************************************************************************)
\* Mutation: the journal is read on from before the saved cursor.
PlaceBeforeCursor ==
  IF cursor # None THEN Before(AtMost(FirstFrom(cursor)))
  ELSE IF first /\ Startup >= oldest THEN Before(Startup)
  ELSE TailPlace

OpenPlace ==
  IF cursor # None THEN AtMost(FirstFrom(cursor))
  ELSE IF first /\ Startup >= oldest THEN Before(Startup)
  ELSE TailPlace

Numbers(a, b) == [i \in 1..(IF b < a THEN 0 ELSE b + 1 - a) |-> a + i - 1]

(***************************************************************************)
(* broadcast_systemd_logmessages(): one call at the end of every turn.     *)
(***************************************************************************)
EndOfTurn == pc = "journal" /\ pc' = "poll"

Unwatch ==
  /\ EndOfTurn /\ ~watching
  /\ active' = FALSE
  /\ cursor' = IF active THEN None ELSE cursor
  /\ streamed' = <<>>
  /\ UNCHANGED <<last, oldest, at, first, socketVars, doseVars, mqttUp>>

OpenFails ==
  /\ EndOfTurn /\ watching /\ ~active
  /\ UNCHANGED <<socketVars, journalVars, doseVars, mqttUp>>

Opened == IF active THEN at ELSE OpenPlace

StaysFirst == IF ~active /\ cursor = None THEN FALSE ELSE first

JournalIsInvalidated ==
  /\ EndOfTurn /\ watching
  /\ active' = FALSE
  /\ at' = Opened /\ first' = StaysFirst
  /\ UNCHANGED <<last, oldest, cursor, streamed, socketVars, doseVars, mqttUp>>

\* The entries from the place of the journal up to upTo, those that are still there.
StreamUpTo(upTo) ==
  LET sent == Numbers(FirstFrom(Opened + 1), upTo) IN
  /\ streamed' = streamed \o sent
  /\ cursor' = IF sent = <<>> THEN cursor ELSE upTo
  /\ at' = IF sent = <<>> THEN Opened ELSE upTo
  /\ first' = StaysFirst
  /\ UNCHANGED <<last, oldest, socketVars, doseVars, mqttUp>>

Stream ==
  /\ EndOfTurn /\ watching
  /\ active' = TRUE
  /\ StreamUpTo(last)

StreamFails(upTo) ==
  /\ EndOfTurn /\ watching
  /\ active' = FALSE
  /\ upTo <= last
  /\ StreamUpTo(upTo)
-----------------------------------------------------------------------------
Next ==
  \/ \E s \in Sockets : SocketOpens(s) \/ ManagerRequest(s) \/ SocketCloses(s)
  \/ MqttComesOrGoes \/ EndOfPoll
  \/ \E p \in Posters : PostKey(p) \/ PostDose(p) \/ PostFlag(p)
  \/ SendDose \/ ResetDoseEvent
  \/ EntryIsLogged \/ Vacuum
  \/ Unwatch \/ OpenFails \/ JournalIsInvalidated \/ Stream
  \/ \E e \in 0..MaxLog : StreamFails(e)

Spec == Init /\ [][Next]_vars

Symmetry == Permutations(Sockets) \cup Permutations(Posters)
-----------------------------------------------------------------------------
(***************************************************************************)
(* Lines are read for the managers exactly as long as there is one, and    *)
(* sockets are counted right (source/net_services.c:820).                  *)
(***************************************************************************)
WatchingForManagers ==
  /\ watching <=> Managers # {}
  /\ openCount = Cardinality({s \in Sockets : socket[s] # "closed"})

(***************************************************************************)
(* One session's managers get the log in order, each line once, over every *)
(* reopening of the journal; only where the entry of the cursor was itself *)
(* vacuumed may there be a gap (source/net_services.c:1652).               *)
(***************************************************************************)
LogInOrder ==
  \A i \in 1..(Len(streamed) - 1) :
    \/ streamed[i + 1] = streamed[i] + 1
    \/ streamed[i] < oldest /\ streamed[i + 1] > streamed[i]

(***************************************************************************)
(* The slot carries one event.  As long as no thread posts while another   *)
(* post or its sending is under way, what is published was posted, what    *)
(* was posted stays whole in the slot until it is sent, and the daemon     *)
(* does not read through a NULL key (source/net_services.c:99, 1173).      *)
(***************************************************************************)
EventsAreTrueUnlessOverlapped ==
  overlap \/
    /\ ~mixed
    /\ pc # "crashed"
    /\ owed # None => slot = [dirty |-> TRUE, key |-> owed, dose |-> owed]
=============================================================================
