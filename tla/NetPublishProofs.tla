-------------------------- MODULE NetPublishProofs --------------------------
(***************************************************************************)
(* What the marks of keys and state promise, for any number of keys and    *)
(* changes and any heartbeat.                                              *)
(***************************************************************************)
EXTENDS NetPublish, FiniteSetTheorems, TLAPS

USE PublishAssumption

\* The topics of a broadcast are told apart.
LEMMA TopicsDiffer ==
  Master \notin Devices /\ Message \notin Keys /\ Peer \notin Sources
<1> DEFINE n == Cardinality(Devices)
<1>1. IsFiniteSet(Devices) /\ n \in Nat
  BY FS_CardinalityType
<1>2. /\ IsFiniteSet(Keys)
      /\ Cardinality(Keys) = IF Master \in Devices THEN n ELSE n + 1
  BY <1>1, FS_AddElement DEF Keys
<1>3. /\ IsFiniteSet(Sources)
      /\ Cardinality(Sources) = IF Message \in Keys THEN Cardinality(Keys) ELSE Cardinality(Keys) + 1
  BY <1>2, FS_AddElement DEF Sources
<1>4. Cardinality(Topics) = IF Peer \in Sources THEN Cardinality(Sources) ELSE Cardinality(Sources) + 1
  BY <1>3, FS_AddElement DEF Topics
<1>5. Cardinality(Topics) = n + 3
  BY PublishAssumption
<1> QED
  BY <1>1, <1>2, <1>3, <1>4, <1>5

LEMMA InitPublish == Init => PublishInv
<1> SUFFICES ASSUME Init PROVE PublishInv
  OBVIOUS
<1>0. dirty \in BOOLEAN /\ force \in BOOLEAN /\ exitFlag \in BOOLEAN
  BY Zenon DEF Init
<1> USE DEF Init
<1>1. KeyTypeOK
  BY <1>0 DEF KeyTypeOK, Versions
<1>2. WorkTypeOK
  BY DEF WorkTypeOK, Idle, Writes, Versions
<1>3. WalkTypeOK
  BY <1>0 DEF WalkTypeOK, NetPlaces
<1>4. MqttTypeOK
  BY <1>0 DEF MqttTypeOK, Versions
<1>5. LossIsNoticed
  BY DEF LossIsNoticed
<1>6. MissedOnlyInBroadcast
  BY DEF MissedOnlyInBroadcast, OnItsWay, Topics, Sources
<1>7. ChangesInOrder
  BY DEF ChangesInOrder, Idle, Broadcasting
<1>8. WalkInOrder
  BY DEF WalkInOrder
<1> QED
  BY <1>1, <1>2, <1>3, <1>4, <1>5, <1>6, <1>7, <1>8 DEF PublishInv, TypeOK

\* A change by another thread leaves the connection alone, and marks or is missed.
LEMMA ChangeKeepsInv == ASSUME PublishInv, Change PROVE PublishInv'
<1> USE DEF PublishInv, TypeOK
<1>0. Message \notin Keys /\ None \notin Keys
  BY TopicsDiffer
<1>1. UNCHANGED <<pc, ticks, force, todo, cur, conn, exitFlag, inflight, shown, lastSent>>
  BY DEF Change, AssignValue, AssignGlobal, AssignLocal, SetMessage, ClearMessage, EraseMessage,
         netVars, mqttVars
<1>2. WalkTypeOK' /\ MqttTypeOK' /\ LossIsNoticed'
  BY <1>1 DEF WalkTypeOK, MqttTypeOK, LossIsNoticed
<1>3. /\ Broadcasting' = Broadcasting
      /\ \A t : OnItsWay(t)' = OnItsWay(t)
  BY <1>1 DEF Broadcasting, OnItsWay
<1>4. ASSUME NEW k \in Keys, AssignValue(k)
      PROVE  KeyTypeOK' /\ WorkTypeOK' /\ ChangesInOrder' /\ MissedOnlyInBroadcast' /\ WalkInOrder'
  <2> USE <1>4 DEF AssignValue, NewVersion, Touched
  <2>1. k \in Sources /\ k # Message
    BY <1>0 DEF Sources
  <2>2. value'[k] = value[k] + 1 /\ \A s \in Sources \ {k} : value'[s] = value[s]
    BY <2>1 DEF KeyTypeOK
  <2>3. KeyTypeOK'
    BY <2>1 DEF KeyTypeOK, Versions, ChangesInOrder, WorkTypeOK
  <2>4. WorkTypeOK'
    BY <2>1 DEF WorkTypeOK, Versions, Writes
  <2>5. ChangesInOrder'
    <3>1. \A s \in Sources : value'[s] <= changes'
      BY <2>1, <2>2 DEF ChangesInOrder, WorkTypeOK, KeyTypeOK, Versions
    <3> QED
      BY <3>1, <2>1, <1>3 DEF ChangesInOrder, Idle
  <2>6. MissedOnlyInBroadcast'
    BY <2>1, <2>2, <1>1, <1>3 DEF MissedOnlyInBroadcast, Idle, Sources
  <2>7. WalkInOrder'
    BY <2>1, <2>2, <1>1, <1>3 DEF WalkInOrder, Broadcasting, Sources
  <2> QED
    BY <2>3, <2>4, <2>5, <2>6, <2>7
<1>5. ASSUME AssignGlobal
      PROVE  KeyTypeOK' /\ WorkTypeOK' /\ ChangesInOrder' /\ MissedOnlyInBroadcast' /\ WalkInOrder'
  <2> USE <1>5 DEF AssignGlobal, Touched
  <2>1. work.key \in Sources /\ work'.key = work.key
    BY DEF ChangesInOrder, WorkTypeOK
  <2>2. work'.next = IF work.key = Message THEN "erase" ELSE "local"
    BY DEF WorkTypeOK
  <2>3. KeyTypeOK'
    BY DEF KeyTypeOK
  <2>4. WorkTypeOK'
    BY <2>1 DEF WorkTypeOK, Writes
  <2>5. ChangesInOrder'
    BY <2>1, <2>2, <1>0, <1>3 DEF ChangesInOrder, Idle, Sources
  <2>6. MissedOnlyInBroadcast'
    BY <2>1, <1>1, <1>3 DEF MissedOnlyInBroadcast
  <2>7. WalkInOrder'
    BY <1>1, <1>3 DEF WalkInOrder
  <2> QED
    BY <2>3, <2>4, <2>5, <2>6, <2>7
<1>6. ASSUME AssignLocal
      PROVE  KeyTypeOK' /\ WorkTypeOK' /\ ChangesInOrder' /\ MissedOnlyInBroadcast' /\ WalkInOrder'
  <2> USE <1>6 DEF AssignLocal, Touched
  <2>1. work.key \in Keys /\ (dirty \/ work.key \in missed)
    BY DEF ChangesInOrder
  <2>2. KeyTypeOK'
    BY <2>1 DEF KeyTypeOK
  <2>3. WorkTypeOK'
    BY DEF WorkTypeOK, Idle, Writes
  <2>4. ChangesInOrder'
    BY <1>0 DEF ChangesInOrder, Idle
  <2>5. MissedOnlyInBroadcast'
    BY <2>1, <1>1, <1>3 DEF MissedOnlyInBroadcast
  <2>6. WalkInOrder'
    BY <1>1, <1>3 DEF WalkInOrder
  <2> QED
    BY <2>2, <2>3, <2>4, <2>5, <2>6
<1>7. ASSUME SetMessage \/ ClearMessage \/ EraseMessage
      PROVE  KeyTypeOK' /\ WorkTypeOK' /\ ChangesInOrder' /\ MissedOnlyInBroadcast' /\ WalkInOrder'
  <2> USE <1>7 DEF SetMessage, ClearMessage, EraseMessage, NewVersion
  <2>1. Message \in Sources
    BY DEF Sources
  <2>2. /\ UNCHANGED <<keyDirty, dirty, missed>>
        /\ \A k \in Keys : value'[k] = value[k]
        /\ \A k \in Keys : work'.key = k <=> work.key = k
    BY <1>0, <2>1 DEF KeyTypeOK, ChangesInOrder, Idle, Sources
  <2>3. value[Message] < MaxChanges \/ value' = value
    BY <2>1 DEF KeyTypeOK, WorkTypeOK, ChangesInOrder, Versions
  <2>4. KeyTypeOK'
    BY <2>1, <2>2, <2>3 DEF KeyTypeOK, Versions
  <2>5. WorkTypeOK'
    BY <2>1 DEF WorkTypeOK, Versions, Writes, Idle
  <2>6. ChangesInOrder'
    <3>1. \A s \in Sources : value'[s] <= changes'
      BY <2>1 DEF ChangesInOrder, WorkTypeOK, KeyTypeOK, Versions
    <3>2. work'.key = Message /\ work'.next # "value" => value'[Message] < changes'
      BY <2>1, <1>0 DEF ChangesInOrder, WorkTypeOK, KeyTypeOK, Versions, Idle
    <3> QED
      BY <3>1, <3>2, <2>1, <2>2, <1>0, <1>3 DEF ChangesInOrder, Idle
  <2>7. MissedOnlyInBroadcast'
    BY <2>2, <1>1, <1>3 DEF MissedOnlyInBroadcast
  <2>8. WalkInOrder'
    BY <2>2, <1>1, <1>3 DEF WalkInOrder
  <2> QED
    BY <2>4, <2>5, <2>6, <2>7, <2>8
<1> QED
  BY <1>2, <1>4, <1>5, <1>6, <1>7 DEF Change

\* A request served by the network thread is marked before it goes on.
LEMMA RequestKeepsInv ==
  ASSUME PublishInv, NEW k \in Keys, ServeRequest(k) PROVE PublishInv'
<1> USE DEF PublishInv, TypeOK, ServeRequest, NewVersion, netVars, mqttVars
<1>1. k \in Sources /\ k # Message
  BY TopicsDiffer DEF Sources
<1>2. value'[k] = value[k] + 1 /\ \A s \in Sources \ {k} : value'[s] = value[s]
  BY <1>1 DEF KeyTypeOK
<1>3. WalkTypeOK' /\ MqttTypeOK' /\ LossIsNoticed'
  BY DEF WalkTypeOK, MqttTypeOK, LossIsNoticed
<1>4. ~Broadcasting' /\ \A t : OnItsWay(t)' = OnItsWay(t)
  BY DEF Broadcasting, OnItsWay
<1>5. KeyTypeOK'
  BY <1>1 DEF KeyTypeOK, Versions, ChangesInOrder, WorkTypeOK
<1>6. WorkTypeOK'
  BY DEF WorkTypeOK, Versions
<1>7. ChangesInOrder'
  <2>1. \A s \in Sources : value'[s] <= changes'
    BY <1>1, <1>2 DEF ChangesInOrder, WorkTypeOK, KeyTypeOK, Versions
  <2>2. work.key = Message /\ work.next # "value" => value'[Message] < changes'
    BY <1>1 DEF ChangesInOrder, WorkTypeOK, KeyTypeOK, Versions, Sources
  <2> QED
    BY <2>1, <2>2, <1>4 DEF ChangesInOrder
<1>8. MissedOnlyInBroadcast'
  BY <1>2, <1>4 DEF MissedOnlyInBroadcast, Sources
<1>9. WalkInOrder'
  BY DEF WalkInOrder
<1> QED
  BY <1>3, <1>5, <1>6, <1>7, <1>8, <1>9

\* What a lost connection takes with it is missed.
LEMMA ConnectionKeepsInv ==
  ASSUME PublishInv, MqttConnects \/ MqttOpens \/ MqttCloses PROVE PublishInv'
<1> USE DEF PublishInv, TypeOK, MqttConnects, MqttOpens, MqttCloses, changeVars, netVars
<1>1. exitFlag' \in BOOLEAN
  BY Zenon DEF MqttTypeOK
<1>2. UNCHANGED <<value, work, changes, keyDirty, dirty, pc, ticks, force, todo, cur, shown, lastSent>>
  BY Zenon
<1>3. missed \subseteq missed' /\ missed' \subseteq Keys
  BY DEF KeyTypeOK
<1>4. KeyTypeOK' /\ WorkTypeOK' /\ WalkTypeOK'
  BY <1>2, <1>3 DEF KeyTypeOK, WorkTypeOK, WalkTypeOK
<1>5. MqttTypeOK'
  BY <1>1, <1>2 DEF MqttTypeOK
<1>6. LossIsNoticed'
  BY DEF LossIsNoticed
<1>7. \A k \in Keys \ missed' : OnItsWay(k)' = OnItsWay(k)
  BY <1>2 DEF OnItsWay, Topics, Sources
<1>8. MissedOnlyInBroadcast'
  BY <1>2, <1>3, <1>7 DEF MissedOnlyInBroadcast, Broadcasting
<1>9. ChangesInOrder'
  BY <1>2, <1>3 DEF ChangesInOrder, Broadcasting
<1>10. WalkInOrder'
  BY <1>2 DEF WalkInOrder
<1> QED
  BY <1>4, <1>5, <1>6, <1>8, <1>9, <1>10

\* What arrives was on its way.
LEMMA ArrivalKeepsInv ==
  ASSUME PublishInv, NEW t \in Topics, Arrives(t) PROVE PublishInv'
<1> USE DEF PublishInv, TypeOK, Arrives, changeVars, netVars
<1>1. \A u \in Topics : OnItsWay(u)' = OnItsWay(u)
  BY DEF OnItsWay, MqttTypeOK, Versions
<1>2. KeyTypeOK' /\ WorkTypeOK' /\ WalkTypeOK' /\ ChangesInOrder'
  BY DEF KeyTypeOK, WorkTypeOK, WalkTypeOK, ChangesInOrder, Broadcasting
<1>3. MqttTypeOK' /\ LossIsNoticed'
  BY DEF MqttTypeOK, LossIsNoticed
<1>4. MissedOnlyInBroadcast'
  BY <1>1 DEF MissedOnlyInBroadcast, Broadcasting, Topics, Sources
<1>5. WalkInOrder'
  BY <1>1 DEF WalkInOrder, Topics, Sources
<1> QED
  BY <1>2, <1>3, <1>4, <1>5

\* A broadcast starts by missing the change under way, and walks all keys.
LEMMA BroadcastStarts == ASSUME PublishInv, Poll \/ Reconnect PROVE PublishInv'
<1> USE DEF PublishInv, TypeOK, changeVars, mqttVars
<1>1. CASE Poll
  <2> USE <1>1 DEF Poll
  <2>1. UNCHANGED <<value, work, changes, keyDirty, dirty, todo, cur, conn, exitFlag, inflight, shown, lastSent>>
    OBVIOUS
  <2>2. force' \in BOOLEAN
    BY Zenon
  <2>3. missed \subseteq missed' /\ missed' \subseteq Keys
    BY DEF KeyTypeOK
  <2>4. KeyTypeOK' /\ WorkTypeOK' /\ MqttTypeOK' /\ LossIsNoticed'
    BY <2>1, <2>3 DEF KeyTypeOK, WorkTypeOK, MqttTypeOK, LossIsNoticed
  <2>5. ticks' \in 0..HeartbeatTicks /\ pc' \in {"reconnect", "poll"}
    BY DEF WalkTypeOK
  <2>6. WalkTypeOK'
    BY <2>1, <2>2, <2>5 DEF WalkTypeOK, NetPlaces
  <2>7. Broadcasting' /\ work.key \in Keys => work.key \in missed'
    BY <2>5 DEF Broadcasting
  <2>8. ChangesInOrder'
    BY <2>1, <2>3, <2>7 DEF ChangesInOrder
  <2>9. \A k : OnItsWay(k)' = OnItsWay(k)
    BY <2>1 DEF OnItsWay
  <2>10. MissedOnlyInBroadcast'
    BY <2>1, <2>3, <2>5, <2>9 DEF MissedOnlyInBroadcast, Broadcasting
  <2>11. WalkInOrder'
    BY <2>5 DEF WalkInOrder
  <2> QED
    BY <2>4, <2>6, <2>8, <2>10, <2>11
<1>2. CASE Reconnect
  <2> USE <1>2 DEF Reconnect
  <2>1. UNCHANGED <<value, work, changes, keyDirty, dirty, ticks, force, cur, inflight, shown, lastSent, missed>>
    OBVIOUS
  <2>2. exitFlag' \in BOOLEAN
    BY Zenon
  <2>3. conn' # "down" /\ todo' = Keys /\ pc' = "walk"
    BY DEF LossIsNoticed
  <2>4. conn' \in {"down", "connecting", "connected", "open"}
    BY DEF MqttTypeOK
  <2>5. KeyTypeOK' /\ WorkTypeOK' /\ WalkTypeOK'
    BY <2>1, <2>3 DEF KeyTypeOK, WorkTypeOK, WalkTypeOK, NetPlaces
  <2>6. MqttTypeOK' /\ LossIsNoticed'
    BY <2>1, <2>2, <2>3, <2>4 DEF MqttTypeOK, LossIsNoticed
  <2>7. Broadcasting /\ Broadcasting'
    BY <2>3 DEF Broadcasting
  <2>8. ChangesInOrder'
    BY <2>1, <2>7 DEF ChangesInOrder
  <2>9. \A k : OnItsWay(k)' = OnItsWay(k)
    BY <2>1 DEF OnItsWay
  <2>10. MissedOnlyInBroadcast'
    BY <2>1, <2>3, <2>9 DEF MissedOnlyInBroadcast
  <2>11. WalkInOrder'
    BY <2>3 DEF WalkInOrder
  <2> QED
    BY <2>5, <2>6, <2>8, <2>10, <2>11
<1> QED
  BY <1>1, <1>2

\* A key that is passed over has no mark; one that is sent is up to date.
LEMMA WalkKeepsInv ==
  ASSUME PublishInv, NEW k \in Keys, SkipKey(k) \/ SendKey(k) PROVE PublishInv'
<1> USE DEF PublishInv, TypeOK, SkipKey, SendKey, changeVars, netVars, mqttVars
<1>1. UNCHANGED <<value, work, changes, keyDirty, dirty, ticks, force, conn, exitFlag, shown, lastSent>>
  OBVIOUS
<1>2. pc = "walk" /\ pc' \in {"walk", "unmark"} /\ todo' = todo \ {k}
  OBVIOUS
<1>3. missed' \subseteq Keys /\ missed \ {k} \subseteq missed' /\ (work.key \in missed => work.key \in missed')
  BY DEF KeyTypeOK
<1>4. KeyTypeOK' /\ WorkTypeOK'
  BY <1>1, <1>3 DEF KeyTypeOK, WorkTypeOK
<1>5. WalkTypeOK'
  BY <1>1, <1>2 DEF WalkTypeOK, NetPlaces
<1>6. Sent(k) \subseteq Sources /\ k \in Sent(k) /\ Sources \subseteq Topics
  BY DEF Sent, Sources, Topics, Keys
<1>7. inflight' \in [Topics -> Versions \cup {None}]
  BY <1>6 DEF MqttTypeOK, KeyTypeOK
<1>8. MqttTypeOK' /\ LossIsNoticed'
  BY <1>1, <1>7 DEF MqttTypeOK, LossIsNoticed
<1>9. ChangesInOrder'
  BY <1>1, <1>2, <1>3 DEF ChangesInOrder, Broadcasting
<1>10. SendKey(k) => OnItsWay(k)' = value[k]
  BY <1>6 DEF OnItsWay, KeyTypeOK, Versions
<1>11. \A j \in Keys \ {k} : OnItsWay(j)' = OnItsWay(j)
  BY <1>6, TopicsDiffer DEF OnItsWay, Sent, Sources
<1>12. MissedOnlyInBroadcast'
  <2>1. ASSUME NEW j \in Keys \ missed', j # k
        PROVE  \/ OnItsWay(j)' = value'[j]
               \/ work'.key = j
               \/ j \in keyDirty' /\ dirty' /\ j \in todo'
    BY <2>1, <1>1, <1>2, <1>3, <1>11 DEF MissedOnlyInBroadcast, Broadcasting
  <2>2. ASSUME k \notin missed'
        PROVE  OnItsWay(k)' = value'[k] \/ work'.key = k
    <3>1. CASE SendKey(k)
      BY <3>1, <1>1, <1>10
    <3>2. CASE SkipKey(k)
      BY <3>2, <2>2, <1>1 DEF MissedOnlyInBroadcast, OnItsWay
    <3> QED
      BY <3>1, <3>2
  <2> QED
    BY <2>1, <2>2 DEF MissedOnlyInBroadcast, Broadcasting
<1>13. WalkInOrder'
  BY <1>1, <1>2, <1>10 DEF WalkInOrder
<1> QED
  BY <1>4, <1>5, <1>8, <1>9, <1>12, <1>13

\* The mark taken off is that of a key up to date; behind the walk marks count no more.
LEMMA BroadcastEnds ==
  ASSUME PublishInv, Unmark \/ (\E on \in BOOLEAN : PostToAqualinkd(on)) \/ Clear PROVE PublishInv'
<1> USE DEF PublishInv, TypeOK, changeVars, netVars, mqttVars
<1>1. CASE Unmark
  <2> USE <1>1 DEF Unmark
  <2>1. KeyTypeOK' /\ WorkTypeOK' /\ WalkTypeOK' /\ MqttTypeOK' /\ LossIsNoticed'
    BY DEF KeyTypeOK, WorkTypeOK, WalkTypeOK, MqttTypeOK, LossIsNoticed, NetPlaces
  <2>2. ChangesInOrder'
    BY DEF ChangesInOrder, Broadcasting
  <2>3. MissedOnlyInBroadcast'
    BY DEF MissedOnlyInBroadcast, Broadcasting, OnItsWay, WalkInOrder
  <2>4. WalkInOrder'
    BY DEF WalkInOrder
  <2> QED
    BY <2>1, <2>2, <2>3, <2>4
<1>2. ASSUME NEW on \in BOOLEAN, PostToAqualinkd(on) PROVE PublishInv'
  <2> USE <1>2 DEF PostToAqualinkd
  <2>1. UNCHANGED <<value, work, changes, keyDirty, dirty, ticks, force, todo, cur, conn, exitFlag, shown, missed>>
    OBVIOUS
  <2>2. pc = "walk" /\ todo = {} /\ pc' = "clear"
    OBVIOUS
  <2>3. /\ \A k \in Keys : inflight'[k] = inflight[k]
        /\ inflight' \in [Topics -> Versions \cup {None}]
        /\ lastSent' \in Versions
    <3>1. CASE UNCHANGED <<inflight, lastSent>>
      BY <3>1 DEF MqttTypeOK
    <3>2. CASE /\ Probe \in Devices
               /\ inflight' = [inflight EXCEPT ![Peer] = value[Probe]]
               /\ lastSent' = value[Probe]
      BY <3>2, TopicsDiffer DEF MqttTypeOK, KeyTypeOK, Keys, Sources, Topics
    <3> QED
      BY <3>1, <3>2, Zenon
  <2>5. KeyTypeOK' /\ WorkTypeOK' /\ WalkTypeOK' /\ MqttTypeOK' /\ LossIsNoticed'
    BY <2>1, <2>2, <2>3 DEF KeyTypeOK, WorkTypeOK, WalkTypeOK, MqttTypeOK, LossIsNoticed, NetPlaces
  <2>6. ChangesInOrder'
    BY <2>1, <2>2 DEF ChangesInOrder, Broadcasting
  <2>7. MissedOnlyInBroadcast'
    BY <2>1, <2>2, <2>3 DEF MissedOnlyInBroadcast, Broadcasting, OnItsWay
  <2>8. WalkInOrder'
    BY <2>1, <2>2 DEF WalkInOrder
  <2> QED
    BY <2>5, <2>6, <2>7, <2>8
<1>3. CASE Clear
  <2> USE <1>3 DEF Clear
  <2>1. UNCHANGED <<value, work, changes, keyDirty, ticks, force, todo, cur, conn, exitFlag, inflight, shown, lastSent, missed>>
    OBVIOUS
  <2>2. dirty' = FALSE /\ dirty' \in BOOLEAN
    BY Zenon
  <2>3. pc # "poll" /\ pc # "reconnect" /\ todo = {} /\ pc' \in {"clearAgain", "poll"}
    BY DEF WalkInOrder
  <2>4. KeyTypeOK' /\ WorkTypeOK' /\ WalkTypeOK' /\ MqttTypeOK' /\ LossIsNoticed'
    BY <2>1, <2>2, <2>3 DEF KeyTypeOK, WorkTypeOK, WalkTypeOK, MqttTypeOK, LossIsNoticed, NetPlaces
  <2>5. ChangesInOrder'
    <3>1. work.next = "local" => work.key \in missed
      BY <2>3 DEF ChangesInOrder, Broadcasting
    <3>2. Broadcasting' => Broadcasting
      BY <2>3 DEF Broadcasting
    <3> QED
      BY <2>1, <3>1, <3>2 DEF ChangesInOrder
  <2>6. MissedOnlyInBroadcast'
    BY <2>1, <2>3 DEF MissedOnlyInBroadcast, Broadcasting, OnItsWay
  <2>7. WalkInOrder'
    BY <2>1, <2>3 DEF WalkInOrder
  <2> QED
    BY <2>4, <2>5, <2>6, <2>7
<1> QED
  BY <1>1, <1>2, <1>3

LEMMA StutterKeepsInv == ASSUME PublishInv, UNCHANGED vars PROVE PublishInv'
<1> USE DEF PublishInv, TypeOK, vars
<1>1. KeyTypeOK' /\ WorkTypeOK' /\ WalkTypeOK' /\ MqttTypeOK'
  BY DEF KeyTypeOK, WorkTypeOK, WalkTypeOK, MqttTypeOK
<1>2. LossIsNoticed' /\ MissedOnlyInBroadcast' /\ ChangesInOrder' /\ WalkInOrder'
  BY DEF LossIsNoticed, MissedOnlyInBroadcast, ChangesInOrder, WalkInOrder, Broadcasting, OnItsWay
<1> QED
  BY <1>1, <1>2

(***************************************************************************)
(* What the marks of source/net_services.c promise holds for any keys, any *)
(* number of changes and any heartbeat: a change the broker is not being   *)
(* shown is marked for the next broadcast, or met one, or was lost with    *)
(* its connection; and a lost connection is always noticed.                *)
(***************************************************************************)
THEOREM PublishInvariant == Spec => []PublishInv
<1>1. ASSUME PublishInv, [Next]_vars PROVE PublishInv'
  <2>1. CASE Next
    BY <1>1, <2>1, ChangeKeepsInv, RequestKeepsInv, ConnectionKeepsInv, ArrivalKeepsInv,
       BroadcastStarts, WalkKeepsInv, BroadcastEnds
    DEF Next, NetStep
  <2>2. CASE UNCHANGED vars
    BY <1>1, <2>2, StutterKeepsInv
  <2> QED
    BY <1>1, <2>1, <2>2
<1> QED
  BY InitPublish, <1>1, PTL DEF Spec
=============================================================================
