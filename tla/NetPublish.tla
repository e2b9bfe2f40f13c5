---------------------------- MODULE NetPublish ----------------------------
(***************************************************************************)
(* How the state of AquachemD reaches the MQTT broker and AqualinkD        *)
(* (source/net_services.c).  Any thread changes a key and marks it; the    *)
(* network thread polls its connections, and when the state is marked, or  *)
(* at every HeartbeatTicks-th poll, it walks the keys, sends what is       *)
(* marked and takes the marks off again.  Nothing locks keys or marks.     *)
(*                                                                         *)
(* What a topic shows is a version: 0 is what it showed at the start, and  *)
(* a change of a key is its next version, whatever field changed.  One     *)
(* other thread changes things at a time (`work'); MaxChanges bounds the   *)
(* changes of a behaviour, and 3000 ticks are HeartbeatTicks.              *)
(***************************************************************************)
EXTENDS Naturals, FiniteSets

CONSTANTS
  Devices,         \* the keys but the master key
  Probe,           \* the one of them whose value AqualinkD is sent, if it is one
  Master, Message, Peer, None,
  MaxChanges, HeartbeatTicks

Keys == Devices \cup {Master}
Sources == Keys \cup {Message}
Topics == Sources \cup {Peer}

ASSUME PublishAssumption ==
  /\ IsFiniteSet(Devices)
  /\ Cardinality(Topics) = Cardinality(Devices) + 3
  /\ MaxChanges \in Nat /\ HeartbeatTicks \in Nat \ {0}
  /\ None \notin Nat /\ None \notin Keys

VARIABLES
  value,      \* the version of each key, and of display_message
  keyDirty,   \* the keys with is_dirty
  dirty,      \* is_dirty of the whole state
  work,       \* a change under way on another thread: its key and its next write
  changes,    \* how many changes there were
  pc,         \* where the network thread is
  ticks,      \* heartbeat_ticks
  force,      \* force_all of this turn
  todo,       \* the keys the walk still has to come to
  cur,        \* the key whose state has been sent and whose mark is still on
  conn,       \* the MQTT connection
  exitFlag,   \* _mqtt_exit_flag
  inflight,   \* the last version sent on this connection that has not arrived
  shown,      \* what the broker retains
  lastSent,   \* last_ph
  missed      \* history: keys with a change the walk may have passed over, or lost

changeVars == <<value, work, changes>>
netVars == <<pc, ticks, force, todo, cur>>
mqttVars == <<conn, exitFlag, inflight, shown, lastSent>>
vars == <<value, keyDirty, dirty, work, changes, pc, ticks, force, todo, cur,
          conn, exitFlag, inflight, shown, lastSent, missed>>

Versions == 0..MaxChanges
Writes == {"value", "global", "local", "erase"}
Idle == [key |-> None, next |-> "value"]
NetPlaces == {"poll", "reconnect", "walk", "unmark", "clear", "clearAgain"}
Broadcasting == pc # "poll"

KeyTypeOK ==
  /\ value \in [Sources -> Versions]
  /\ keyDirty \subseteq Keys
  /\ dirty \in BOOLEAN
  /\ missed \subseteq Keys

WorkTypeOK ==
  /\ work \in [key : Sources \cup {None}, next : Writes]
  /\ changes \in Versions

WalkTypeOK ==
  /\ pc \in NetPlaces
  /\ ticks \in 0..HeartbeatTicks
  /\ force \in BOOLEAN
  /\ todo \subseteq Keys
  /\ cur \in Keys \cup {None}

MqttTypeOK ==
  /\ conn \in {"down", "connecting", "connected", "open"}
  /\ exitFlag \in BOOLEAN
  /\ inflight \in [Topics -> Versions \cup {None}]
  /\ shown \in [Topics -> Versions]
  /\ lastSent \in Versions

TypeOK == KeyTypeOK /\ WorkTypeOK /\ WalkTypeOK /\ MqttTypeOK

(***************************************************************************)
(* The thread has started: start_mqtt() has been called once.  main() has  *)
(* cleared the state's mark; the marks of the keys are as it left them.    *)
(***************************************************************************)
Init ==
  /\ value = [s \in Sources |-> 0]
  /\ keyDirty = {}
  /\ dirty = FALSE
  /\ work = Idle /\ changes = 0
  /\ pc = "poll" /\ ticks = 0 /\ force = FALSE /\ todo = {} /\ cur = None
  /\ conn = "connecting" /\ exitFlag = FALSE
  /\ inflight = [t \in Topics |-> None]
  /\ shown = [t \in Topics |-> 0]
  /\ lastSent = 0
  /\ missed = {}
-----------------------------------------------------------------------------
(***************************************************************************)
(* Another thread changes a key: ASSIGN_IF_CHANGED writes the value, the   *)
(* mark of the state and the mark of the key, one after the other.  A      *)
(* change that meets a broadcast may be missed by it.                      *)
(***************************************************************************)
Touched(k) == missed' = IF Broadcasting /\ k \in Keys THEN missed \cup {k} ELSE missed

NewVersion(s) ==
  /\ value' = [value EXCEPT ![s] = @ + 1]
  /\ changes' = changes + 1

AssignValue(k) ==
  /\ work = Idle /\ changes < MaxChanges
  /\ NewVersion(k)
  /\ work' = [key |-> k, next |-> "global"]
  /\ Touched(k)
  /\ UNCHANGED <<keyDirty, dirty, netVars, mqttVars>>

AssignGlobal ==
  /\ work.next = "global"
  /\ dirty' = TRUE
  /\ work' = [work EXCEPT !.next = IF work.key = Message THEN "erase" ELSE "local"]
  /\ Touched(work.key)
  /\ UNCHANGED <<value, keyDirty, changes, netVars, mqttVars>>

AssignLocal ==
  /\ work.next = "local"
  /\ keyDirty' = keyDirty \cup {work.key}
  /\ work' = Idle
  /\ Touched(work.key)
  /\ UNCHANGED <<value, dirty, changes, netVars, mqttVars>>

(***************************************************************************)
(* update_display_message(): a message that is set marks nothing; one that *)
(* is cleared marks the state, then is erased, and marks no key.  Its odd  *)
(* versions are messages, its even ones are empty.                         *)
(***************************************************************************)
MessageIsEmpty == value[Message] % 2 = 0

SetMessage ==
  /\ work = Idle /\ changes < MaxChanges
  /\ MessageIsEmpty
  /\ NewVersion(Message)
  /\ UNCHANGED <<keyDirty, dirty, work, missed, netVars, mqttVars>>

ClearMessage ==
  /\ work = Idle /\ changes < MaxChanges
  /\ ~MessageIsEmpty
  /\ work' = [key |-> Message, next |-> "global"]
  /\ changes' = changes + 1
  /\ UNCHANGED <<value, keyDirty, dirty, missed, netVars, mqttVars>>

EraseMessage ==
  /\ work.next = "erase"
  /\ value' = [value EXCEPT ![Message] = @ + 1]
  /\ work' = Idle
  /\ UNCHANGED <<changes, keyDirty, dirty, missed, netVars, mqttVars>>

Change ==
  \/ \E k \in Keys : AssignValue(k)
  \/ AssignGlobal
  \/ AssignLocal
  \/ SetMessage
  \/ ClearMessage
  \/ EraseMessage
-----------------------------------------------------------------------------
(***************************************************************************)
(* What mg_mgr_poll() hands to ev_handler(): requests that change a key on *)
(* this thread, and the events of the MQTT connection.  What was sent and  *)
(* has not arrived is gone with its connection: nothing sends it again.    *)
(***************************************************************************)
ServeRequest(k) ==
  /\ pc = "poll" /\ changes < MaxChanges
  /\ NewVersion(k)
  /\ dirty' = TRUE
  /\ keyDirty' = keyDirty \cup {k}
  /\ UNCHANGED <<work, netVars, mqttVars, missed>>

MqttConnects ==
  /\ pc = "poll" /\ conn = "connecting"
  /\ conn' = "connected" /\ exitFlag' = FALSE
  /\ UNCHANGED <<changeVars, keyDirty, dirty, netVars, inflight, shown, lastSent, missed>>

MqttOpens ==
  /\ pc = "poll" /\ conn = "connected"
  /\ conn' = "open"
  /\ UNCHANGED <<changeVars, keyDirty, dirty, netVars, exitFlag, inflight, shown, lastSent, missed>>

\* Mutation: only an established connection is taken up again.
MqttClosesQuietly ==
  /\ pc = "poll" /\ conn # "down"
  /\ exitFlag' = (conn # "connecting")
  /\ conn' = "down"
  /\ missed' = missed \cup {k \in Keys : inflight[k] # None}
  /\ inflight' = [t \in Topics |-> None]
  /\ UNCHANGED <<changeVars, keyDirty, dirty, netVars, shown, lastSent>>

MqttCloses ==
  /\ pc = "poll" /\ conn # "down"
  /\ conn' = "down" /\ exitFlag' = TRUE
  /\ missed' = missed \cup {k \in Keys : inflight[k] # None}
  /\ inflight' = [t \in Topics |-> None]
  /\ UNCHANGED <<changeVars, keyDirty, dirty, netVars, shown, lastSent>>

(***************************************************************************)
(* The broker takes what was sent, topic by topic in the order sent, and   *)
(* only the last version is kept of what is sent again before it arrives.  *)
(***************************************************************************)
Arrives(t) ==
  /\ conn = "open" /\ inflight[t] # None
  /\ shown' = [shown EXCEPT ![t] = inflight[t]]
  /\ inflight' = [inflight EXCEPT ![t] = None]
  /\ UNCHANGED <<changeVars, keyDirty, dirty, netVars, conn, exitFlag, lastSent, missed>>
-----------------------------------------------------------------------------
(***************************************************************************)
(* The end of a poll and the decision to broadcast.                        *)
(***************************************************************************)
\* Mutation: the heartbeat asks for a broadcast of what is marked.
PollForMarked ==
  /\ pc = "poll"
  /\ ticks' = IF ticks + 1 >= HeartbeatTicks THEN 0 ELSE ticks + 1
  /\ force' = FALSE
  /\ pc' = IF dirty \/ ticks' = 0 THEN "reconnect" ELSE "poll"
  /\ missed' = IF pc' = "poll" THEN missed ELSE missed \cup ({work.key} \cap Keys)
  /\ UNCHANGED <<changeVars, keyDirty, dirty, todo, cur, mqttVars>>

Poll ==
  /\ pc = "poll"
  /\ ticks' = IF ticks + 1 >= HeartbeatTicks THEN 0 ELSE ticks + 1
  /\ force' = (ticks' = 0)
  /\ pc' = IF dirty \/ ticks' = 0 THEN "reconnect" ELSE "poll"
  /\ missed' = IF pc' = "poll" THEN missed ELSE missed \cup ({work.key} \cap Keys)
  /\ UNCHANGED <<changeVars, keyDirty, dirty, todo, cur, mqttVars>>

(***************************************************************************)
(* broadcast_aquachemdstate(): take up a connection that was lost, then    *)
(* walk the keys.  A connection counts as MQTT from the moment it is asked *)
(* for, so after start_mqtt() there always is one to walk for.             *)
(***************************************************************************)
Reconnect ==
  /\ pc = "reconnect"
  /\ conn' = IF exitFlag THEN "connecting" ELSE conn
  /\ exitFlag' = FALSE
  /\ todo' = IF conn' = "down" THEN {} ELSE Keys
  /\ pc' = IF conn' = "down" THEN "clear" ELSE "walk"
  /\ UNCHANGED <<changeVars, keyDirty, dirty, ticks, force, cur, inflight, shown, lastSent, missed>>

Sent(k) == IF k = Master THEN {Master, Message} ELSE {k}

SkipKey(k) ==
  /\ pc = "walk" /\ k \in todo
  /\ k \notin keyDirty /\ ~force
  /\ todo' = todo \ {k}
  /\ UNCHANGED <<changeVars, keyDirty, dirty, pc, ticks, force, cur, mqttVars, missed>>

SendKey(k) ==
  /\ pc = "walk" /\ k \in todo
  /\ k \in keyDirty \/ force
  /\ inflight' = [t \in Topics |-> IF t \in Sent(k) THEN value[t] ELSE inflight[t]]
  /\ todo' = todo \ {k}
  /\ cur' = k
  /\ pc' = "unmark"
  /\ missed' = IF work.key = k THEN missed ELSE missed \ {k}
  /\ UNCHANGED <<changeVars, keyDirty, dirty, ticks, force, conn, exitFlag, shown, lastSent>>

\* Mutation: the walk takes every mark off.
UnmarkAll ==
  /\ pc = "unmark"
  /\ keyDirty' = {}
  /\ cur' = None
  /\ pc' = "walk"
  /\ UNCHANGED <<changeVars, dirty, ticks, force, todo, mqttVars, missed>>

Unmark ==
  /\ pc = "unmark"
  /\ keyDirty' = keyDirty \ {cur}
  /\ cur' = None
  /\ pc' = "walk"
  /\ UNCHANGED <<changeVars, dirty, ticks, force, todo, mqttVars, missed>>

(***************************************************************************)
(* After the walk, AqualinkD is sent the value of the probe if it reads    *)
(* (on) and is not what it was last sent, forced or not.                   *)
(***************************************************************************)
PostToAqualinkd(on) ==
  /\ pc = "walk" /\ todo = {}
  /\ IF on /\ conn # "down" /\ Probe \in Devices /\ value[Probe] # lastSent
     THEN /\ inflight' = [inflight EXCEPT ![Peer] = value[Probe]]
          /\ lastSent' = value[Probe]
     ELSE UNCHANGED <<inflight, lastSent>>
  /\ pc' = "clear"
  /\ UNCHANGED <<changeVars, keyDirty, dirty, ticks, force, todo, cur, conn, exitFlag, shown, missed>>

(***************************************************************************)
(* The state's mark is taken off twice: at the end of the broadcast and by *)
(* its caller.                                                             *)
(***************************************************************************)
Clear ==
  /\ pc \in {"clear", "clearAgain"}
  /\ dirty' = FALSE
  /\ pc' = IF pc = "clear" THEN "clearAgain" ELSE "poll"
  /\ UNCHANGED <<changeVars, keyDirty, ticks, force, todo, cur, mqttVars, missed>>

NetStep ==
  \/ Poll
  \/ Reconnect
  \/ \E k \in Keys : SkipKey(k) \/ SendKey(k)
  \/ Unmark
  \/ \E on \in BOOLEAN : PostToAqualinkd(on)
  \/ Clear

Next ==
  \/ Change
  \/ \E k \in Keys : ServeRequest(k)
  \/ MqttConnects \/ MqttOpens \/ MqttCloses
  \/ \E t \in Topics : Arrives(t)
  \/ NetStep

Spec == Init /\ [][Next]_vars

(***************************************************************************)
(* The scheduler runs every thread; TCP delivers on a connection that      *)
(* stays.  Nothing makes a connection succeed or fail.                     *)
(***************************************************************************)
FairSpec ==
  /\ Spec
  /\ WF_vars(NetStep)
  /\ WF_vars(AssignGlobal \/ AssignLocal \/ EraseMessage)
  /\ \A t \in Topics : WF_vars(Arrives(t))
-----------------------------------------------------------------------------
OnItsWay(t) == IF inflight[t] = None THEN shown[t] ELSE inflight[t]

\* A lost connection is always noticed: the next broadcast will take it up.
LossIsNoticed == conn = "down" => exitFlag

(***************************************************************************)
(* The flags work, up to a point.  What the broker will show of a key is   *)
(* its last version, or the key and the state are marked so that the next  *)
(* broadcast sends it, or the change is still being made.  The only        *)
(* exceptions are changes that met a broadcast under way, which may take   *)
(* off marks it has not looked at, and what was lost with a connection     *)
(* (source/net_services.c:1110, 1245).                                     *)
(***************************************************************************)
MissedOnlyInBroadcast ==
  \A k \in Keys \ missed :
    \/ OnItsWay(k) = value[k]
    \/ work.key = k
    \/ k \in keyDirty /\ dirty /\ (Broadcasting => k \in todo \/ pc = "reconnect")

(***************************************************************************)
(* A change under way is at a write of its kind, has a version left for    *)
(* it, and marks the state before the key, unless a broadcast met it.      *)
(***************************************************************************)
ChangesInOrder ==
  /\ \A s \in Sources : value[s] <= changes
  /\ work.next = "value" <=> work = Idle
  /\ work.next = "global" => work.key \in Sources
  /\ work.next = "local" => work.key \in Keys /\ (dirty \/ work.key \in missed)
  /\ work.next = "erase" => work.key = Message
  /\ work.key = Message /\ work.next # "value" => value[Message] < changes
  /\ Broadcasting /\ work.key \in Keys => work.key \in missed

\* The walk unmarks what it has sent, and comes to every key.
WalkInOrder ==
  /\ pc = "unmark" => cur \in Keys /\ (cur \in missed \/ OnItsWay(cur) = value[cur])
  /\ pc \in {"clear", "clearAgain"} => todo = {}

\* What the marks promise, with what it takes to be inductive.
PublishInv ==
  TypeOK /\ LossIsNoticed /\ MissedOnlyInBroadcast /\ ChangesInOrder /\ WalkInOrder

(***************************************************************************)
(* Whatever the flags missed, and whatever a connection lost, is repaired  *)
(* by the heartbeat: on a connection that stays open, the broker shows the *)
(* last version of every key and of the display message in the end.  It    *)
(* says nothing of AqualinkD's topics, which the heartbeat does not repeat *)
(* (source/net_services.c:1367, 1133).                                     *)
(***************************************************************************)
HeartbeatRepairs ==
  <>[](conn = "open") => <>[](\A s \in Sources : shown[s] = value[s])

(***************************************************************************)
(* A lost MQTT connection is taken up again although nothing changes: the  *)
(* heartbeat's broadcast asks for it (source/net_services.c:1218).         *)
(***************************************************************************)
ReconnectsInTheEnd == (conn = "down") ~> (conn # "down")
=============================================================================
