------------------------- MODULE NetSessionsProofs -------------------------
(***************************************************************************)
(* What the network thread keeps right between its polls, for any number   *)
(* of WebSockets, of threads that post dose events, and of journal lines;  *)
(* and what it shows its clients of a key.                                 *)
(***************************************************************************)
EXTENDS NetSessions, MCClientViews, FiniteSetTheorems, SequenceTheorems, TLAPS

USE SessionAssumption

\* The WebSockets: those that are not closed are counted.
Connected == {s \in Sockets : socket[s] # "closed"}

SocketsInv ==
  /\ socket \in [Sockets -> {"closed", "open", "manager"}]
  /\ openCount = Cardinality(Connected)
  /\ watching <=> Managers # {}

\* The log: where the journal stands and what its cursor names, in numbers.
LogTypeOK ==
  /\ last \in Nat /\ oldest \in Nat /\ oldest <= last + 1
  /\ at \in Nat
  /\ cursor \in Nat \cup {None}
  /\ cursor # None => cursor <= last
  /\ streamed \in Seq(Nat)

\* What was sent last is what the cursor names; an open journal stands there or, if that
\* entry has gone, behind it.
Behind(place) ==
  LET sent == streamed[Len(streamed)] IN place = sent \/ (place > sent /\ sent < oldest)

CursorNamesLast ==
  streamed # <<>> =>
    /\ cursor = streamed[Len(streamed)]
    /\ active => Behind(at)

LogInv == LogTypeOK /\ CursorNamesLast /\ LogInOrder

(***************************************************************************)
(* The slot: while it is written by one thread at a time it is empty until *)
(* the flag goes up, and whole from there until it is sent.                *)
(***************************************************************************)
SlotTypeOK ==
  /\ slot \in [dirty : BOOLEAN, key : Posters \cup {None}, dose : Posters \cup {None}]
  /\ post \in [Posters -> {"idle", "key", "dose"}]
  /\ owed \in Posters \cup {None}
  /\ pc \in NetPlaces

Posting(p) == post[p] # "idle"

OneAtATime ==
  /\ ~mixed /\ pc # "crashed"
  /\ \A p, q \in Posters : Posting(p) /\ Posting(q) => p = q
  /\ \A p \in Posters : Posting(p) =>
       /\ ~Sending /\ ~slot.dirty /\ owed = None
       /\ slot.key = p /\ (post[p] = "dose" => slot.dose = p)
  /\ slot.dirty /\ pc \in {"poll", "dose", "journal"} =>
       owed # None /\ slot.key = owed /\ slot.dose = owed
  /\ pc = "dose" => slot.dirty
  /\ pc \in {"resetKey", "resetDose", "clear"} => ~slot.dirty
  /\ owed # None => slot.dirty /\ pc \in {"poll", "dose", "journal"}

SlotInv == SlotTypeOK /\ (~overlap => OneAtATime)
-----------------------------------------------------------------------------
LEMMA InitSockets == Init => SocketsInv
<1> SUFFICES ASSUME Init PROVE SocketsInv
  OBVIOUS
<1>1. Connected = {} /\ Managers = {}
  BY DEF Init, Connected, Managers
<1>2. Cardinality({}) = 0
  BY FS_EmptySet
<1> QED
  BY <1>1, <1>2 DEF Init, SocketsInv

LEMMA SocketsUnchanged ==
  ASSUME SocketsInv, UNCHANGED socketVars PROVE SocketsInv'
  BY DEF SocketsInv, socketVars, Connected, Managers

\* A socket that opens is counted, and is no manager yet.
LEMMA OpenKeepsSockets == ASSUME SocketsInv, NEW s \in Sockets, SocketOpens(s) PROVE SocketsInv'
<1> USE DEF SocketsInv, SocketOpens
<1>1. Connected' = Connected \cup {s} /\ s \notin Connected /\ Managers' = Managers
  BY DEF Connected, Managers
<1>2. IsFiniteSet(Connected)
  BY FS_Subset DEF Connected
<1>3. Cardinality(Connected') = Cardinality(Connected) + 1
  BY <1>1, <1>2, FS_AddElement
<1> QED
  BY <1>1, <1>3

LEMMA RequestKeepsSockets == ASSUME SocketsInv, NEW s \in Sockets, ManagerRequest(s) PROVE SocketsInv'
<1> USE DEF SocketsInv, ManagerRequest
<1>1. Connected' = Connected /\ s \in Managers'
  BY DEF Connected, Managers
<1> QED
  BY <1>1

\* The watch ends with the last manager.
LEMMA CloseKeepsSockets == ASSUME SocketsInv, NEW s \in Sockets, SocketCloses(s) PROVE SocketsInv'
<1> USE DEF SocketsInv, SocketCloses
<1>1. Connected' = Connected \ {s} /\ s \in Connected /\ Managers' = Managers \ {s}
  BY DEF Connected, Managers
<1>2. IsFiniteSet(Connected)
  BY FS_Subset DEF Connected
<1>3. Cardinality(Connected') = Cardinality(Connected) - 1
  BY <1>1, <1>2, FS_RemoveElement
<1>4. watching' <=> Managers' # {}
  <2>1. s \in Managers <=> socket[s] = "manager"
    BY DEF Managers
  <2>2. watching' <=> watching /\ ~(socket[s] = "manager" /\ Managers = {s})
    BY Zenon
  <2> QED
    BY <1>1, <2>1, <2>2
<1> QED
  BY <1>1, <1>3, <1>4
-----------------------------------------------------------------------------
LEMMA InitLog == Init => LogInv
<1> SUFFICES ASSUME Init PROVE LogInv
  OBVIOUS
<1> USE DEF Init
<1>1. LogTypeOK
  BY DEF LogTypeOK
<1>2. CursorNamesLast /\ LogInOrder
  BY DEF CursorNamesLast, LogInOrder
<1> QED
  BY <1>1, <1>2 DEF LogInv

LEMMA LogUnchanged == ASSUME LogInv, UNCHANGED journalVars PROVE LogInv'
  BY DEF LogInv, journalVars, LogTypeOK, CursorNamesLast, Behind, LogInOrder

\* Entries are added and vacuumed; what was sent stays in order.
LEMMA JournalKeepsLog == ASSUME LogInv, EntryIsLogged \/ Vacuum PROVE LogInv'
<1> USE DEF LogInv
<1>1. /\ UNCHANGED <<active, at, cursor, first, streamed>>
      /\ last' \in Nat /\ oldest' \in Nat /\ oldest' <= last' + 1
      /\ last <= last' /\ oldest <= oldest'
  BY DEF EntryIsLogged, Vacuum, LogTypeOK
<1>2. LogTypeOK'
  <2>1. cursor # None => cursor <= last'
    BY <1>1 DEF LogTypeOK
  <2> QED
    BY <1>1, <2>1, Zenon DEF LogTypeOK
<1>3. \A i \in 1..Len(streamed) : streamed[i] \in Nat
  BY DEF LogTypeOK
<1>4. streamed # <<>> => Len(streamed) \in 1..Len(streamed)
  BY DEF LogTypeOK
<1>5. CursorNamesLast'
  BY <1>1, <1>2, <1>3, <1>4 DEF CursorNamesLast, Behind, LogTypeOK
<1>6. LogInOrder'
  <2> SUFFICES ASSUME NEW i \in 1..(Len(streamed) - 1)
               PROVE  \/ streamed[i + 1] = streamed[i] + 1
                      \/ streamed[i] < oldest' /\ streamed[i + 1] > streamed[i]
    BY <1>1 DEF LogInOrder
  <2>1. i \in 1..Len(streamed)
    BY DEF LogTypeOK
  <2> QED
    BY <1>1, <1>3, <2>1 DEF LogInOrder, LogTypeOK
<1> QED
  BY <1>2, <1>5, <1>6

\* A managers' session ends with what was sent in it, and its cursor.
LEMMA UnwatchKeepsLog == ASSUME LogInv, Unwatch PROVE LogInv'
<1> USE DEF LogInv, Unwatch
<1>1. <<>> \in Seq(Nat) /\ (cursor' = cursor \/ cursor' = None)
  OBVIOUS
<1>2. LogTypeOK'
  BY <1>1, Zenon DEF LogTypeOK
<1>3. CursorNamesLast' /\ LogInOrder'
  BY DEF CursorNamesLast, LogInOrder
<1> QED
  BY <1>2, <1>3

LEMMA NumbersFacts ==
  ASSUME NEW a \in Nat, NEW b \in Nat
  PROVE  /\ Numbers(a, b) \in Seq(Nat)
         /\ Len(Numbers(a, b)) = IF b < a THEN 0 ELSE b + 1 - a
         /\ \A i \in 1..Len(Numbers(a, b)) : Numbers(a, b)[i] = a + i - 1
<1> DEFINE n == IF b < a THEN 0 ELSE b + 1 - a
<1>1. n \in Nat
  OBVIOUS
<1>2. Numbers(a, b) = [i \in 1..n |-> a + i - 1]
  BY DEF Numbers
<1>3. \A i \in 1..n : a + i - 1 \in Nat
  BY <1>1
<1> HIDE DEF n
<1>4. Numbers(a, b) \in Seq(Nat) /\ Len(Numbers(a, b)) = n
  <2>1. [i \in 1..n |-> a + i - 1] \in Seq(Nat)
    BY <1>1, <1>3
  <2>2. Len([i \in 1..n |-> a + i - 1]) = n
    BY <1>1, <2>1, LenProperties
  <2> QED
    BY <1>2, <2>1, <2>2
<1> QED
  BY <1>2, <1>4 DEF n

\* The journal stands at the last entry sent, or behind it if that one has gone.
LEMMA OpenedIsBehind ==
  ASSUME LogInv
  PROVE  /\ Opened \in Nat
         /\ streamed # <<>> => Behind(Opened)
<1> USE DEF LogInv
<1>1. Startup \in Nat /\ FallbackLines \in Nat
  OBVIOUS
<1>2. TailPlace \in Nat /\ Before(Startup) \in Nat
  BY <1>1 DEF TailPlace, AtMost, FirstFrom, Before, LogTypeOK
<1>3. cursor # None => AtMost(FirstFrom(cursor)) \in Nat
  BY DEF AtMost, FirstFrom, LogTypeOK
<1>4. Opened \in Nat
  BY <1>2, <1>3 DEF Opened, OpenPlace, LogTypeOK
<1>5. ASSUME streamed # <<>> PROVE Behind(Opened)
  <2>1. cursor = streamed[Len(streamed)] /\ cursor \in Nat /\ cursor # None
    <3>1. Len(streamed) \in 1..Len(streamed)
      BY <1>5 DEF LogTypeOK
    <3> QED
      BY <1>5, <3>1 DEF CursorNamesLast, LogTypeOK
  <2>2. CASE active
    BY <1>5, <2>2 DEF Opened, CursorNamesLast
  <2>3. CASE ~active
    <3>1. Opened = AtMost(FirstFrom(cursor))
      BY <2>1, <2>3 DEF Opened, OpenPlace
    <3> QED
      BY <2>1, <3>1 DEF Behind, AtMost, FirstFrom, LogTypeOK
  <2> QED
    BY <2>2, <2>3
<1> QED
  BY <1>4, <1>5

\* What is sent goes on where it left off, over any gap but one that was vacuumed.
LEMMA StreamKeepsLog ==
  ASSUME LogInv, NEW upTo \in Nat, upTo <= last, StreamUpTo(upTo) PROVE LogInv'
<1> USE DEF LogInv
<1> DEFINE from == FirstFrom(Opened + 1)
           sent == Numbers(from, upTo)
<1>1. /\ streamed' = streamed \o sent
      /\ cursor' = IF sent = <<>> THEN cursor ELSE upTo
      /\ at' = IF sent = <<>> THEN Opened ELSE upTo
      /\ UNCHANGED <<last, oldest>>
  BY DEF StreamUpTo
<1>2. Opened \in Nat /\ from \in Nat /\ from > Opened /\ from >= oldest
      /\ (from = Opened + 1 \/ (from = oldest /\ Opened < oldest))
  BY OpenedIsBehind DEF FirstFrom, LogTypeOK
<1> HIDE DEF from
<1>3. /\ sent \in Seq(Nat)
      /\ Len(sent) = IF upTo < from THEN 0 ELSE upTo + 1 - from
      /\ \A i \in 1..Len(sent) : sent[i] = from + i - 1
  BY <1>2, NumbersFacts
<1> HIDE DEF sent
<1>4. streamed \in Seq(Nat)
  BY DEF LogTypeOK
<1>5. LogTypeOK'
  <2>1. streamed \o sent \in Seq(Nat)
    BY <1>3, <1>4
  <2>2. at' \in Nat /\ cursor' \in Nat \cup {None} /\ (cursor' # None => cursor' <= last)
    BY <1>1, <1>2 DEF LogTypeOK
  <2> QED
    BY <1>1, <2>1, <2>2, Zenon DEF LogTypeOK
<1>6. CASE sent = <<>>
  <2>1. streamed' = streamed /\ cursor' = cursor /\ at' = Opened
    BY <1>1, <1>4, <1>6
  <2>2. LogInOrder'
    BY <1>1, <2>1 DEF LogInOrder
  <2>3. CursorNamesLast'
    BY <1>1, <2>1, OpenedIsBehind DEF CursorNamesLast, Behind
  <2> QED
    BY <1>5, <2>2, <2>3
<1>7. CASE sent # <<>>
  <2>1. Len(sent) \in Nat \ {0} /\ Len(sent) = upTo + 1 - from /\ Len(streamed) \in Nat
    BY <1>2, <1>3, <1>4, <1>7
  <2>2. /\ Len(streamed') = Len(streamed) + Len(sent)
        /\ \A i \in 1..Len(streamed) : streamed'[i] = streamed[i]
        /\ \A i \in Len(streamed) + 1 .. Len(streamed) + Len(sent) :
             streamed'[i] = from + (i - Len(streamed)) - 1
    <3>1. /\ Len(streamed') = Len(streamed) + Len(sent)
          /\ \A i \in 1..Len(streamed') :
               streamed'[i] = IF i <= Len(streamed) THEN streamed[i] ELSE sent[i - Len(streamed)]
      <4>1. /\ Len(streamed \o sent) = Len(streamed) + Len(sent)
            /\ \A i \in 1..(Len(streamed) + Len(sent)) :
                 (streamed \o sent)[i] = IF i <= Len(streamed) THEN streamed[i] ELSE sent[i - Len(streamed)]
        BY <1>3, <1>4, ConcatProperties, Zenon
      <4> QED
        BY <1>1, <4>1, Zenon
    <3>2. \A i \in Len(streamed) + 1 .. Len(streamed) + Len(sent) :
            /\ i \in 1..Len(streamed') /\ ~(i <= Len(streamed))
            /\ i - Len(streamed) \in 1..Len(sent)
      BY <2>1, <3>1
    <3>3. \A i \in 1..Len(streamed) : i \in 1..Len(streamed') /\ i <= Len(streamed)
      BY <2>1, <3>1
    <3> QED
      BY <1>3, <3>1, <3>2, <3>3
  <2>3. streamed'[Len(streamed')] = upTo /\ cursor' = upTo /\ at' = upTo
    <3>1. Len(streamed') \in Len(streamed) + 1 .. Len(streamed) + Len(sent)
      BY <2>1, <2>2
    <3>2. streamed'[Len(streamed')] = from + (Len(streamed') - Len(streamed)) - 1
      BY <2>2, <3>1
    <3> QED
      BY <1>1, <1>2, <1>7, <2>1, <2>2, <3>2
  <2>4. CursorNamesLast'
    BY <2>3 DEF CursorNamesLast, Behind
  <2>5. ASSUME NEW i \in 1..(Len(streamed') - 1)
        PROVE  \/ streamed'[i + 1] = streamed'[i] + 1
               \/ streamed'[i] < oldest' /\ streamed'[i + 1] > streamed'[i]
    <3>1. CASE i < Len(streamed)
      <4>1. i \in 1..(Len(streamed) - 1) /\ i + 1 \in 1..Len(streamed) /\ i \in 1..Len(streamed)
        BY <2>1, <2>2, <3>1
      <4> QED
        BY <1>1, <2>2, <4>1 DEF LogInOrder
    <3>2. CASE i = Len(streamed)
      <4>1. i \in 1..Len(streamed) /\ streamed # <<>> /\ streamed[i] \in Nat
        BY <1>4, <2>1, <3>2
      <4>2. streamed'[i] = streamed[i] /\ streamed'[i + 1] = from
        BY <1>2, <2>1, <2>2, <3>2, <4>1
      <4>3. Behind(Opened)
        BY <4>1, OpenedIsBehind
      <4> QED
        BY <1>1, <1>2, <3>2, <4>1, <4>2, <4>3 DEF Behind, LogTypeOK
    <3>3. CASE i > Len(streamed)
      <4>1. streamed'[i] = from + (i - Len(streamed)) - 1
        BY <2>1, <2>2, <3>3
      <4>2. streamed'[i + 1] = from + (i + 1 - Len(streamed)) - 1
        BY <2>1, <2>2, <3>3
      <4> QED
        BY <1>2, <2>1, <4>1, <4>2
    <3> QED
      BY <2>1, <3>1, <3>2, <3>3
  <2>6. LogInOrder'
    BY <2>5 DEF LogInOrder
  <2> QED
    BY <1>5, <2>4, <2>6
<1> QED
  BY <1>6, <1>7

\* Every way to end the turn keeps the log.
LEMMA TurnKeepsLog ==
  ASSUME LogInv, Unwatch \/ OpenFails \/ JournalIsInvalidated \/ Stream
                 \/ \E e \in 0..MaxLog : StreamFails(e)
  PROVE  LogInv'
<1>1. CASE Unwatch
  BY <1>1, UnwatchKeepsLog
<1>2. CASE OpenFails
  BY <1>2, LogUnchanged DEF OpenFails
<1>3. CASE JournalIsInvalidated
  <2> USE <1>3 DEF JournalIsInvalidated, LogInv
  <2>1. Opened \in Nat
    BY OpenedIsBehind
  <2>2. LogTypeOK'
    BY <2>1, Zenon DEF LogTypeOK
  <2>3. CursorNamesLast' /\ LogInOrder'
    BY DEF CursorNamesLast, LogInOrder
  <2> QED
    BY <2>2, <2>3
<1>4. CASE Stream
  <2>1. last \in Nat /\ last <= last
    BY DEF LogInv, LogTypeOK
  <2> QED
    BY <1>4, <2>1, StreamKeepsLog DEF Stream
<1>5. ASSUME NEW e \in 0..MaxLog, StreamFails(e) PROVE LogInv'
  BY <1>5, StreamKeepsLog DEF StreamFails
<1> QED
  BY <1>1, <1>2, <1>3, <1>4, <1>5
-----------------------------------------------------------------------------
LEMMA InitSlot == Init => SlotInv
<1> SUFFICES ASSUME Init PROVE SlotInv
  OBVIOUS
<1> USE DEF Init
<1>1. SlotTypeOK
  BY DEF SlotTypeOK, EmptySlot, NetPlaces
<1>2. OneAtATime
  BY DEF OneAtATime, Posting, EmptySlot
<1> QED
  BY <1>1, <1>2 DEF SlotInv

\* The network thread's other steps leave the slot alone, and do not move while it is sent.
LEMMA SlotUnchanged ==
  ASSUME SlotInv, UNCHANGED doseVars, pc' = pc \/ EndOfTurn \/ EndOfPoll
  PROVE  SlotInv'
<1> USE DEF SlotInv, doseVars
<1>1. SlotTypeOK'
  BY DEF SlotTypeOK, EndOfTurn, EndOfPoll, NetPlaces
<1>2. overlap' = overlap /\ mixed' = mixed
  OBVIOUS
<1>3. ASSUME ~overlap' PROVE OneAtATime'
  <2>1. OneAtATime
    BY <1>2, <1>3
  <2>2. ~mixed' /\ pc' # "crashed"
    BY <1>2, <2>1 DEF OneAtATime, EndOfTurn, EndOfPoll
  <2>3. \A p, q \in Posters : Posting(p)' /\ Posting(q)' => p = q
    BY <2>1 DEF OneAtATime, Posting
  <2>4. \A p \in Posters : Posting(p)' =>
          /\ ~Sending' /\ ~slot'.dirty /\ owed' = None
          /\ slot'.key = p /\ (post'[p] = "dose" => slot'.dose = p)
    BY <2>1 DEF OneAtATime, Posting, Sending, EndOfTurn, EndOfPoll
  <2>5. /\ slot'.dirty /\ pc' \in {"poll", "dose", "journal"} =>
             owed' # None /\ slot'.key = owed' /\ slot'.dose = owed'
        /\ pc' = "dose" => slot'.dirty
        /\ pc' \in {"resetKey", "resetDose", "clear"} => ~slot'.dirty
        /\ owed' # None => slot'.dirty /\ pc' \in {"poll", "dose", "journal"}
    BY <2>1 DEF OneAtATime, EndOfTurn, EndOfPoll
  <2> QED
    BY <2>2, <2>3, <2>4, <2>5, Zenon DEF OneAtATime
<1> QED
  BY <1>1, <1>3

\* A post begins: it is the only one, or it is seen to overlap.
LEMMA KeyKeepsSlot == ASSUME SlotInv, NEW p \in Posters, PostKey(p) PROVE SlotInv'
<1> USE DEF SlotInv, PostKey
<1>1. SlotTypeOK'
  BY DEF SlotTypeOK
<1>2. ASSUME ~overlap' PROVE OneAtATime'
  <2>1. ~overlap /\ ~Sending /\ ~slot.dirty /\ \A q \in Posters : post[q] = "idle"
    BY <1>2, Zenon
  <2>2. OneAtATime /\ owed = None
    BY <2>1 DEF OneAtATime
  <2>3. mixed' = mixed /\ pc' = pc /\ owed' = owed /\ ~Sending'
    BY <2>1 DEF Sending
  <2>4. /\ ~slot'.dirty /\ slot'.key = p
        /\ \A q \in Posters : Posting(q)' <=> q = p
        /\ post'[p] = "key"
    BY <2>1 DEF SlotTypeOK, Posting
  <2>5. ~mixed' /\ pc' # "crashed" /\ pc' # "dose"
    BY <2>1, <2>2, <2>3 DEF OneAtATime, Sending
  <2>6. \A q \in Posters : Posting(q)' =>
          slot'.key = q /\ (post'[q] = "dose" => slot'.dose = q)
    BY <2>4
  <2> QED
    BY <2>2, <2>3, <2>4, <2>5, <2>6 DEF OneAtATime
<1> QED
  BY <1>1, <1>2

LEMMA DoseKeepsSlot == ASSUME SlotInv, NEW p \in Posters, PostDose(p) PROVE SlotInv'
<1> USE DEF SlotInv, PostDose
<1>1. SlotTypeOK'
  BY DEF SlotTypeOK
<1>2. ASSUME ~overlap' PROVE OneAtATime'
  <2>1. OneAtATime /\ Posting(p) /\ mixed' = mixed
    BY <1>2 DEF Posting
  <2>2. slot'.dirty = slot.dirty /\ slot'.key = slot.key /\ slot'.dose = p
        /\ \A q \in Posters : Posting(q)' <=> Posting(q)
    BY DEF SlotTypeOK, Posting
  <2>3. \A q \in Posters : Posting(q) => q = p
    BY <2>1, Zenon DEF OneAtATime
  <2>4. ~Sending' /\ ~slot'.dirty /\ owed' = None /\ slot'.key = p
    BY <2>1, <2>2 DEF OneAtATime, Sending
  <2> QED
    BY <2>1, <2>2, <2>3, <2>4 DEF OneAtATime, Sending
<1> QED
  BY <1>1, <1>2

LEMMA FlagKeepsSlot == ASSUME SlotInv, NEW p \in Posters, PostFlag(p) PROVE SlotInv'
<1> USE DEF SlotInv, PostFlag
<1>1. SlotTypeOK'
  BY DEF SlotTypeOK
<1>2. ASSUME ~overlap' PROVE OneAtATime'
  <2>1. OneAtATime /\ Posting(p) /\ mixed' = mixed
    BY <1>2 DEF Posting
  <2>2. slot'.dirty /\ slot'.key = p /\ slot'.dose = p /\ owed' = p /\ p # None
    BY <2>1 DEF SlotTypeOK, OneAtATime
  <2>3. \A q \in Posters : ~Posting(q)'
    <3> SUFFICES ASSUME NEW q \in Posters, q # p PROVE ~Posting(q)
      BY DEF SlotTypeOK, Posting
    <3> QED
      BY <2>1, Zenon DEF OneAtATime
  <2>4. ~Sending /\ pc # "crashed" /\ pc' = pc
    BY <2>1 DEF OneAtATime
  <2>5. pc' \in {"poll", "journal"}
    BY <2>4 DEF Sending, SlotTypeOK, NetPlaces
  <2> QED
    BY <2>1, <2>2, <2>3, <2>5 DEF OneAtATime
<1> QED
  BY <1>1, <1>2

\* What is sent is what is owed, and then nothing is.
LEMMA SendKeepsSlot == ASSUME SlotInv, SendDose PROVE SlotInv'
<1> USE DEF SlotInv, SendDose
<1>1. SlotTypeOK'
  BY DEF SlotTypeOK, NetPlaces
<1>2. ASSUME ~overlap' PROVE OneAtATime'
  <2>1. OneAtATime
    BY <1>2
  <2>2. slot.dirty /\ owed # None /\ slot.key = owed /\ slot.dose = owed
    BY <2>1 DEF OneAtATime
  <2>3. pc' = "resetDirty" /\ owed' = None /\ ~mixed'
    <3>1. ~mixed
      BY <2>1 DEF OneAtATime
    <3> QED
      BY <2>2, <3>1
  <2>4. \A p \in Posters : ~Posting(p)
    BY <2>1 DEF OneAtATime, Sending
  <2>5. \A p \in Posters : ~Posting(p)'
    BY <2>4 DEF Posting
  <2> QED
    BY <2>3, <2>5 DEF OneAtATime
<1> QED
  BY <1>1, <1>2

LEMMA ResetKeepsSlot == ASSUME SlotInv, ResetDoseEvent PROVE SlotInv'
<1> USE DEF SlotInv, ResetDoseEvent, Reset
<1>1. UNCHANGED <<post, owed, mixed, overlap>>
  BY Zenon
<1>2. SlotTypeOK'
  <2>1. slot' \in [dirty : BOOLEAN, key : Posters \cup {None}, dose : Posters \cup {None}]
    BY DEF SlotTypeOK
  <2>2. pc' \in NetPlaces
    BY DEF NetPlaces
  <2> QED
    BY <1>1, <2>1, <2>2, Zenon DEF SlotTypeOK
<1>3. ASSUME ~overlap' PROVE OneAtATime'
  <2>1. OneAtATime /\ ~mixed'
    BY <1>1, <1>3 DEF OneAtATime
  <2>2. pc \in {"resetDirty", "resetKey", "resetDose", "clear"}
        /\ pc' \in {"resetKey", "resetDose", "clear", "journal"}
    OBVIOUS
  <2>3. owed' = None
    BY <1>1, <2>1, <2>2 DEF OneAtATime
  <2>4. ~slot'.dirty
    BY <2>1, <2>2 DEF OneAtATime, SlotTypeOK
  <2>5. \A p \in Posters : ~Posting(p)
    BY <2>1, <2>2 DEF OneAtATime, Sending
  <2>6. \A p \in Posters : ~Posting(p)'
    BY <1>1, <2>5 DEF Posting
  <2> QED
    BY <2>1, <2>2, <2>3, <2>4, <2>6 DEF OneAtATime
<1> QED
  BY <1>2, <1>3
-----------------------------------------------------------------------------
\* One lemma per part of the state: an action disturbs one of them and leaves the others.
LEMMA NextKeepsSockets == ASSUME SocketsInv, [Next]_vars PROVE SocketsInv'
<1>1. ASSUME NEW s \in Sockets, SocketOpens(s) \/ ManagerRequest(s) \/ SocketCloses(s)
      PROVE  SocketsInv'
  BY <1>1, OpenKeepsSockets, RequestKeepsSockets, CloseKeepsSockets
<1>2. ASSUME NEW p \in Posters, PostKey(p) \/ PostDose(p) \/ PostFlag(p) PROVE UNCHANGED socketVars
  BY <1>2, Zenon DEF PostKey, PostDose, PostFlag
<1>3. ASSUME MqttComesOrGoes \/ EndOfPoll \/ SendDose \/ ResetDoseEvent
      PROVE  UNCHANGED socketVars
  BY <1>3, Zenon DEF MqttComesOrGoes, EndOfPoll, SendDose, ResetDoseEvent, Reset
<1>4. ASSUME EntryIsLogged \/ Vacuum \/ Unwatch \/ OpenFails \/ JournalIsInvalidated
      PROVE  UNCHANGED socketVars
  BY <1>4, Zenon DEF EntryIsLogged, Vacuum, Unwatch, OpenFails, JournalIsInvalidated
<1>5. ASSUME Stream \/ \E e \in 0..MaxLog : StreamFails(e) PROVE UNCHANGED socketVars
  BY <1>5, Zenon DEF Stream, StreamFails, StreamUpTo
<1>6. ASSUME UNCHANGED vars PROVE UNCHANGED socketVars
  BY <1>6 DEF vars, socketVars
<1> QED
  BY <1>1, <1>2, <1>3, <1>4, <1>5, <1>6, SocketsUnchanged, Zenon DEF Next

LEMMA NextKeepsLog == ASSUME LogInv, [Next]_vars PROVE LogInv'
<1>1. ASSUME NEW s \in Sockets, SocketOpens(s) \/ ManagerRequest(s) \/ SocketCloses(s)
      PROVE  UNCHANGED journalVars
  BY <1>1, Zenon DEF SocketOpens, ManagerRequest, SocketCloses
<1>2. ASSUME NEW p \in Posters, PostKey(p) \/ PostDose(p) \/ PostFlag(p) PROVE UNCHANGED journalVars
  BY <1>2, Zenon DEF PostKey, PostDose, PostFlag
<1>3. ASSUME MqttComesOrGoes \/ EndOfPoll \/ SendDose \/ ResetDoseEvent
      PROVE  UNCHANGED journalVars
  BY <1>3, Zenon DEF MqttComesOrGoes, EndOfPoll, SendDose, ResetDoseEvent, Reset
<1>4. ASSUME EntryIsLogged \/ Vacuum PROVE LogInv'
  BY <1>4, JournalKeepsLog
<1>5. ASSUME Unwatch \/ OpenFails \/ JournalIsInvalidated \/ Stream
             \/ \E e \in 0..MaxLog : StreamFails(e)
      PROVE  LogInv'
  BY <1>5, TurnKeepsLog
<1>6. ASSUME UNCHANGED vars PROVE UNCHANGED journalVars
  BY <1>6 DEF vars, journalVars
<1> QED
  BY <1>1, <1>2, <1>3, <1>4, <1>5, <1>6, LogUnchanged, Zenon DEF Next

LEMMA NextKeepsSlot == ASSUME SlotInv, [Next]_vars PROVE SlotInv'
<1>1. ASSUME NEW s \in Sockets, SocketOpens(s) \/ ManagerRequest(s) \/ SocketCloses(s)
      PROVE  UNCHANGED doseVars /\ pc' = pc
  BY <1>1, Zenon DEF SocketOpens, ManagerRequest, SocketCloses
<1>2. ASSUME NEW p \in Posters, PostKey(p) \/ PostDose(p) \/ PostFlag(p) PROVE SlotInv'
  BY <1>2, KeyKeepsSlot, DoseKeepsSlot, FlagKeepsSlot
<1>3. ASSUME SendDose \/ ResetDoseEvent PROVE SlotInv'
  BY <1>3, SendKeepsSlot, ResetKeepsSlot
<1>4. ASSUME MqttComesOrGoes \/ EndOfPoll \/ EntryIsLogged \/ Vacuum
      PROVE  UNCHANGED doseVars /\ (pc' = pc \/ EndOfPoll)
  BY <1>4, Zenon DEF MqttComesOrGoes, EndOfPoll, EntryIsLogged, Vacuum
<1>5. ASSUME Unwatch \/ OpenFails \/ JournalIsInvalidated PROVE UNCHANGED doseVars /\ EndOfTurn
  BY <1>5, Zenon DEF Unwatch, OpenFails, JournalIsInvalidated
<1>6. ASSUME Stream \/ \E e \in 0..MaxLog : StreamFails(e) PROVE UNCHANGED doseVars /\ EndOfTurn
  BY <1>6, Zenon DEF Stream, StreamFails, StreamUpTo
<1>7. ASSUME UNCHANGED vars PROVE UNCHANGED doseVars /\ pc' = pc
  BY <1>7 DEF vars, doseVars
<1> QED
  BY <1>1, <1>2, <1>3, <1>4, <1>5, <1>6, <1>7, SlotUnchanged, Zenon DEF Next
-----------------------------------------------------------------------------
(***************************************************************************)
(* Lines are read for the managers exactly as long as there is one, and    *)
(* sockets are counted right, however many there are                       *)
(* (source/net_services.c:820).                                            *)
(***************************************************************************)
THEOREM WatchedWhileManaged == Spec => []WatchingForManagers
<1>1. Init => SocketsInv
  BY InitSockets
<1>2. SocketsInv /\ [Next]_vars => SocketsInv'
  BY NextKeepsSockets
<1>3. SocketsInv => WatchingForManagers
  BY DEF SocketsInv, WatchingForManagers, Connected
<1> QED
  BY <1>1, <1>2, <1>3, PTL DEF Spec

(***************************************************************************)
(* The managers of a session get the log in order, each line once, over    *)
(* every reopening of the journal, however it fails, grows or is vacuumed  *)
(* (source/net_services.c:1652).                                           *)
(***************************************************************************)
THEOREM LogAlwaysInOrder == Spec => []LogInOrder
<1>1. Init => LogInv
  BY InitLog
<1>2. LogInv /\ [Next]_vars => LogInv'
  BY NextKeepsLog
<1>3. LogInv => LogInOrder
  BY DEF LogInv
<1> QED
  BY <1>1, <1>2, <1>3, PTL DEF Spec

(***************************************************************************)
(* One slot is enough for any number of threads as long as no post begins  *)
(* while another one, or its sending, is under way                         *)
(* (source/net_services.c:99, 1173).                                       *)
(***************************************************************************)
THEOREM EventsTrueWithoutOverlap == Spec => []EventsAreTrueUnlessOverlapped
<1>1. Init => SlotInv
  BY InitSlot
<1>2. SlotInv /\ [Next]_vars => SlotInv'
  BY NextKeepsSlot
<1>3. SlotInv => EventsAreTrueUnlessOverlapped
  <2> SUFFICES ASSUME SlotTypeOK, OneAtATime, owed # None
               PROVE  slot = [dirty |-> TRUE, key |-> owed, dose |-> owed]
    BY DEF SlotInv, EventsAreTrueUnlessOverlapped, OneAtATime
  <2>1. slot.dirty = TRUE /\ slot.key = owed /\ slot.dose = owed
    BY DEF OneAtATime, SlotTypeOK
  <2> QED
    BY <2>1 DEF SlotTypeOK
<1> QED
  BY <1>1, <1>2, <1>3, PTL DEF Spec
-----------------------------------------------------------------------------
(***************************************************************************)
(* What clients are shown: the list of devices that is kept, and what is   *)
(* announced of a key.                                                     *)
(***************************************************************************)
\* The page's key is one the configuration can make, and its item has the fields of its kind.
PageInv ==
  /\ kind \in KeyKinds /\ IsKey(kind) /\ ~kind.longId
  /\ list \in {"none", "built", "refreshed", "older"}
  /\ list # "none" => DOMAIN item = DOMAIN NewItem(key)
  /\ KeptListIsCurrent

\* The fields of an item are those of its key's kind, whatever the key holds.
LEMMA FieldsOfItem ==
  ASSUME kind \in KeyKinds, NEW k, NEW h PROVE DOMAIN NewItem(k) = DOMAIN NewItem(h)
<1>1. kind.type \in Types
  BY DEF KeyKinds
<1>2. CASE kind.type = "MASTER"
  BY <1>2 DEF NewItem, MasterItem, Conditions, PumpTypes
<1>3. CASE kind.type \in Conditions
  <2>1. /\ NewItem(k) = ConditionItem(k) /\ NewItem(h) = ConditionItem(h)
    BY <1>3 DEF NewItem, Conditions, PumpTypes
  <2> QED
    BY <2>1 DEF ConditionItem
<1>4. CASE kind.type \in PumpTypes
  <2>1. /\ NewItem(k) = (IF kind.capped THEN With(PumpItem(k), "running_dose_ml", k.stat) ELSE PumpItem(k))
        /\ NewItem(h) = (IF kind.capped THEN With(PumpItem(h), "running_dose_ml", h.stat) ELSE PumpItem(h))
    BY <1>4 DEF NewItem, Conditions, PumpTypes
  <2>2. DOMAIN PumpItem(k) = DOMAIN PumpItem(h)
    BY DEF PumpItem
  <2> QED
    BY <2>1, <2>2 DEF With
<1>5. CASE kind.type = "GPIO_OUTPUT"
  BY <1>5 DEF NewItem, OutputItem, Conditions, PumpTypes
<1>6. CASE kind.type = "VIR_TANK"
  <2>1. NewItem(k) = With(SensorItem(k), "alt_value", k.stat) /\ NewItem(h) = With(SensorItem(h), "alt_value", h.stat)
    BY <1>6 DEF NewItem, Conditions, PumpTypes
  <2>2. DOMAIN SensorItem(k) = DOMAIN SensorItem(h)
    BY DEF SensorItem
  <2> QED
    BY <2>1, <2>2 DEF With
<1>7. CASE kind.type \in Inputs
  <2>1. /\ NewItem(k) = (IF kind.average THEN With(SensorItem(k), "stats", k.stat) ELSE SensorItem(k))
        /\ NewItem(h) = (IF kind.average THEN With(SensorItem(h), "stats", h.stat) ELSE SensorItem(h))
    BY <1>7 DEF NewItem, Conditions, PumpTypes, Inputs
  <2>2. DOMAIN SensorItem(k) = DOMAIN SensorItem(h)
    BY DEF SensorItem
  <2> QED
    BY <2>1, <2>2 DEF With
<1> QED
  BY <1>1, <1>2, <1>3, <1>4, <1>5, <1>6, <1>7 DEF Types, OutputTypes

\* Every field a new item has is one that a refresh sets, to the same or to its other words.
LEMMA RefreshSetsEveryField ==
  ASSUME kind \in KeyKinds, NEW k, NEW f \in DOMAIN NewItem(k)
  PROVE  f \in DOMAIN Refreshed(k) /\ (Refreshed(k)[f] = NewItem(k)[f] \/ InOtherWords(k, f, Refreshed(k)[f]))
<1>1. kind.type \in Types
  BY DEF KeyKinds
<1>2. CASE kind.type = "MASTER"
  BY <1>2 DEF NewItem, MasterItem, Refreshed, Conditions, PumpTypes
<1>3. CASE kind.type \in Conditions
  <2>1. NewItem(k) = ConditionItem(k)
    BY <1>3 DEF NewItem, Conditions, PumpTypes
  <2>2. Refreshed(k) = [status |-> IF Delaying(k) THEN "DELAY" ELSE Safety(k.met),
                        int_status |-> IF Delaying(k) THEN DelayNumber ELSE Bit(k.met),
                        delay_active |-> OnOff(k.left), delay_duration |-> k.left]
    BY <1>3 DEF Refreshed, Conditions
  <2> QED
    BY <1>3, <2>1, <2>2 DEF ConditionItem, InOtherWords
<1>4. CASE kind.type \notin Conditions /\ kind.type # "MASTER"
  <2> DEFINE all == [status |-> k.state, value |-> k.value, timer_active |-> OnOff(k.left),
                     timer_duration |-> k.left, timer_default_runtime |-> k.runtime,
                     running_dose_ml |-> k.stat, alt_value |-> k.stat, stats |-> k.stat]
             Same(r) == \A g \in DOMAIN r : g \in DOMAIN all /\ (all[g] = r[g] \/ g = "timer_default_runtime")
  <2>1. Refreshed(k) = all
    BY <1>4 DEF Refreshed
  <2>2. Same(PumpItem(k)) /\ Same(OutputItem(k)) /\ Same(SensorItem(k))
    BY DEF PumpItem, OutputItem, SensorItem
  <2>3. ASSUME NEW r, Same(r), NEW g \in {"running_dose_ml", "alt_value", "stats"}
        PROVE  Same(With(r, g, k.stat))
    BY <2>3 DEF With
  <2>4. Same(NewItem(k))
    <3>1. NewItem(k) \in {PumpItem(k), With(PumpItem(k), "running_dose_ml", k.stat), OutputItem(k),
                          With(SensorItem(k), "alt_value", k.stat), With(SensorItem(k), "stats", k.stat),
                          SensorItem(k)}
      BY <1>1, <1>4 DEF NewItem, Types, OutputTypes
    <3> HIDE DEF Same
    <3> QED
      BY <2>2, <2>3, <3>1
  <2>5. all.timer_default_runtime = k.runtime
    OBVIOUS
  <2> HIDE DEF all
  <2> QED
    BY <2>1, <2>4, <2>5 DEF InOtherWords
<1> QED
  BY <1>1, <1>2, <1>3, <1>4

LEMMA InitPage == PageInit \/ NoPage => PageInv
<1>1. CASE PageInit
  <2>1. kind \in KeyKinds /\ IsKey(kind) /\ ~kind.longId /\ list = "none"
    BY <1>1, Zenon DEF PageInit
  <2> QED
    BY <2>1 DEF PageInv, KeptListIsCurrent
<1>2. CASE NoPage
  <2>1. "VIR_TANK" \in Types
    BY DEF Types
  <2>2. kind \in KeyKinds /\ IsKey(kind) /\ ~kind.longId /\ list = "none"
    BY <1>2, <2>1 DEF NoPage, KeyKinds, IsKey, Inputs, PumpTypes
  <2> QED
    BY <2>2 DEF PageInv, KeptListIsCurrent
<1> QED
  BY <1>1, <1>2

\* The list is older than the key: nothing is promised until the next request.
LEMMA KeyChangesKeepsPage == ASSUME PageInv, KeyChanges PROVE PageInv'
<1>1. kind' = kind /\ item' = item /\ list' = IF list = "none" THEN "none" ELSE "older"
  BY DEF KeyChanges
<1>2. DOMAIN NewItem(key') = DOMAIN NewItem(key)
  BY FieldsOfItem DEF PageInv
<1>3. DOMAIN NewItem(key)' = DOMAIN NewItem(key')
  BY <1>1 DEF NewItem
<1> QED
  BY <1>1, <1>2, <1>3 DEF PageInv, KeptListIsCurrent

\* The first request builds the item, the others set all that a new one would have.
LEMMA RequestKeepsPage == ASSUME PageInv, GetDevicesJson PROVE PageInv'
<1>1. kind' = kind /\ key' = key /\ delayed' = delayed
  BY DEF GetDevicesJson
<1>2. NewItem(key)' = NewItem(key) /\ \A f, c : InOtherWords(key, f, c)' <=> InOtherWords(key, f, c)
  BY <1>1 DEF NewItem, ConditionItem, InOtherWords
<1>3. CASE list = "none"
  <2>1. list' = "built" /\ item' = NewItem(key)
    BY <1>3 DEF GetDevicesJson
  <2> QED
    BY <1>1, <1>2, <2>1 DEF PageInv, KeptListIsCurrent
<1>4. CASE list # "none"
  <2>1. list' = "refreshed" /\ item' = RefreshedItem(key)
    BY <1>4 DEF GetDevicesJson
  <2>2. DOMAIN item' = DOMAIN NewItem(key)
    BY <1>4, <2>1 DEF PageInv, RefreshedItem, Refresh
  <2>3. ASSUME NEW f \in DOMAIN NewItem(key)
        PROVE  item'[f] = NewItem(key)[f] \/ InOtherWords(key, f, item'[f])
    <3>1. /\ f \in DOMAIN Refreshed(key)
          /\ Refreshed(key)[f] = NewItem(key)[f] \/ InOtherWords(key, f, Refreshed(key)[f])
      BY RefreshSetsEveryField DEF PageInv
    <3>2. f \in DOMAIN item
      BY <1>4 DEF PageInv
    <3>3. item'[f] = Refreshed(key)[f]
      BY <2>1, <3>1, <3>2 DEF RefreshedItem, Refresh
    <3> QED
      BY <3>1, <3>3
  <2> QED
    BY <1>1, <1>2, <2>1, <2>2, <2>3 DEF PageInv, KeptListIsCurrent
<1> QED
  BY <1>3, <1>4

LEMMA PageInvariant == MCSpec => []PageInv
<1>1. MCInit => PageInv
  BY InitPage DEF MCInit
<1>2. ASSUME PageInv, [MCNext]_viewVars PROVE PageInv'
  <2>1. CASE KeyChanges
    BY <1>2, <2>1, KeyChangesKeepsPage
  <2>2. CASE GetDevicesJson
    BY <1>2, <2>2, RequestKeepsPage
  <2>3. CASE UNCHANGED pageVars
    <3>1. UNCHANGED <<kind, delayed, key, item, list>>
      BY <2>3 DEF pageVars
    <3>2. NewItem(key)' = NewItem(key) /\ \A f, c : InOtherWords(key, f, c)' <=> InOtherWords(key, f, c)
      BY <3>1 DEF NewItem, ConditionItem, InOtherWords
    <3> QED
      BY <1>2, <3>1, <3>2 DEF PageInv, KeptListIsCurrent
  <2>4. KeyChanges \/ GetDevicesJson \/ UNCHANGED pageVars
    BY <1>2, Zenon DEF MCNext, PageNext, viewVars
  <2> QED
    BY <2>1, <2>2, <2>3, <2>4
<1> QED
  BY <1>1, <1>2, PTL DEF MCSpec

(***************************************************************************)
(* A list that is kept and refreshed by get_devices_json() says what a new *)
(* one would, for a key of any type and any numbers it may hold, whatever  *)
(* its threads have done to it between the requests: no field a new item   *)
(* has is forgotten by the refresh, which says the status of a condition   *)
(* in words of its own (SAFE, UNSAFE, DELAY).                              *)
(***************************************************************************)
THEOREM KeptListAlwaysCurrent == MCSpec => []KeptListIsCurrent
<1>1. PageInv => KeptListIsCurrent
  BY DEF PageInv
<1> QED
  BY PageInvariant, <1>1, PTL

\* Of a key that can be configured, each announced entity is sent and taken.
LEMMA EntitiesOfKey ==
  ASSUME NEW k \in KeyKinds, IsKey(k), NEW config \in Configs PROVE EntitiesAreAlive(k, config)
<1> DEFINE Alive(e) == /\ e.state \in Fed(k, config) \/ Dead(k, e)
                       /\ e.command # NoCommand => Accepts(k, e.command)
<1>1. \A s \in LedStates : SentOf(k, s, config) \subseteq Fed(k, config)
  BY DEF Fed
<1>2. SentOfDose(k) \subseteq Fed(k, config)
  BY DEF Fed
<1>3. "ON" \in LedStates
  BY DEF LedStates
<1>4. \A e \in MainEntity(k, config) : Alive(e)
  <2>1. CASE k.type = "MASTER" \/ k.type \in PumpTypes
    <3>1. MainEntity(k, config) = {Entity("select", <<"state">>, <<"set">>)}
      BY <2>1 DEF MainEntity, PumpTypes, SensorTypes
    <3>2. <<"state">> \in SentOf(k, "ON", config)
      BY <2>1 DEF SentOf
    <3>3. Accepts(k, <<"set">>)
      BY <2>1 DEF Accepts, Requestable, PumpTypes, Inputs
    <3> QED
      BY <1>1, <1>3, <3>1, <3>2, <3>3 DEF Entity
  <2>2. CASE k.type \in SensorTypes \cup {"MQTT_TEMP"}
    <3>1. MainEntity(k, config) \subseteq {Entity("sensor", <<>>, NoCommand)}
      BY <2>2 DEF MainEntity, PumpTypes, SensorTypes
    <3>2. <<>> \in SentOf(k, "ON", config)
      BY <2>2 DEF SentOf, SensorTypes, Conditions, OutputTypes, PumpTypes
    <3> QED
      BY <1>1, <1>3, <3>1, <3>2 DEF Entity
  <2>3. CASE k.type \in Conditions
    <3>1. MainEntity(k, config) \subseteq {Entity("binary_sensor", <<"state">>, NoCommand)}
      BY <2>3 DEF MainEntity, PumpTypes, SensorTypes, Conditions
    <3>2. <<"state">> \in SentOf(k, "ON", config)
      BY <2>3 DEF SentOf
    <3> QED
      BY <1>1, <1>3, <3>1, <3>2 DEF Entity
  <2>4. CASE k.type \notin {"MASTER", "MQTT_TEMP"} \cup PumpTypes \cup SensorTypes \cup Conditions
    <3>1. MainEntity(k, config) = {}
      BY <2>4 DEF MainEntity, Conditions
    <3> QED
      BY <3>1
  <2> QED
    BY <2>1, <2>2, <2>3, <2>4
<1>5. \A e \in PumpEntities(k) : Alive(e)
  <2>1. CASE k.type \in PumpTypes
    <3>1. <<"timer", "duration">> \in SentOf(k, "ON", config) /\ <<"last_dose_ml">> \in SentOfDose(k)
      BY <2>1 DEF SentOf, SentOfDose, TimerTopics, OutputTypes, PumpTypes, Conditions
    <3>2. Accepts(k, <<"timer", "set">>)
      BY <2>1 DEF Accepts, Requestable, PumpTypes, Inputs
    <3> QED
      BY <1>1, <1>2, <1>3, <2>1, <3>1, <3>2 DEF PumpEntities, Entity
  <2> QED
    BY <2>1 DEF PumpEntities
<1>6. \A e \in TankEntities(k) : Alive(e)
  <2>1. CASE k.type = "VIR_TANK"
    <3>1. <<"level", "remaining">> \in SentOf(k, "ON", config)
      BY <2>1 DEF IsKey, SentOf, OutputTypes, PumpTypes, Conditions
    <3>2. Accepts(k, <<"level", "remaining", "set">>)
      BY <2>1 DEF Accepts
    <3> QED
      BY <1>1, <1>3, <2>1, <3>1, <3>2 DEF TankEntities, Entity
  <2> QED
    BY <2>1 DEF TankEntities
<1>7. \A e \in AverageEntities(k) : Alive(e)
  <2>1. CASE k.average
    <3>1. <<"average">> \in SentOf(k, "ON", config)
      BY <2>1 DEF IsKey, SentOf, Inputs, OutputTypes, PumpTypes, Conditions
    <3>2. <<"averag">> # <<>>
      OBVIOUS
    <3> QED
      BY <1>1, <1>3, <2>1, <3>1, <3>2 DEF AverageEntities, Entity, Dead
  <2> QED
    BY <2>1 DEF AverageEntities
<1> HIDE DEF Alive
<1>8. \A e \in Entities(k, config) : Alive(e)
  BY <1>4, <1>5, <1>6, <1>7 DEF Entities
<1> QED
  BY <1>8 DEF EntitiesAreAlive, Alive

(***************************************************************************)
(* Whatever the key and the configuration, every entity that               *)
(* publish_mqtt_discovery() announces has its state sent and its commands  *)
(* taken (but for an average with a long ID, which the page's keys leave   *)
(* out).                                                                   *)
(***************************************************************************)
THEOREM EntitiesAlwaysAlive == MCSpec => []AllEntitiesAlive
<1>1. PageInv => AllEntitiesAlive
  BY EntitiesOfKey DEF PageInv, AllEntitiesAlive
<1> QED
  BY PageInvariant, <1>1, PTL
-----------------------------------------------------------------------------
(***************************************************************************)
(* Remainders, what a ring needs of them.                                  *)
(***************************************************************************)

LEMMA QuotientExists ==
  ASSUME NEW M \in Nat \ {0}, NEW a \in Nat
  PROVE  \E q \in Nat : a % M \in 0..(M - 1) /\ a = M * q + (a % M)
<1>1. a \div M \in Nat /\ a % M \in 0..(M - 1) /\ a = M * (a \div M) + (a % M)
  OBVIOUS
<1> QED
  BY <1>1

\* Division has one result.
LEMMA RemainderIsUnique ==
  ASSUME NEW M \in Nat \ {0}, NEW a \in Nat, NEW x \in Int, NEW r \in 0..(M - 1), a = M * x + r
  PROVE  a % M = r
<1> DEFINE s == a % M
<1>1. PICK q \in Nat : s \in 0..(M - 1) /\ a = M * q + s
  BY QuotientExists
<1> HIDE DEF s
<1>2. M * (x - q) = s - r
  BY <1>1
<1>3. x - q = 0
  <2>1. CASE x - q >= 1
    <3>1. M * (x - q) >= M
      BY <1>1, <2>1
    <3> QED
      BY <1>1, <1>2, <3>1
  <2>2. CASE x - q <= -1
    <3>1. M * (x - q) <= -M
      BY <1>1, <2>2
    <3> QED
      BY <1>1, <1>2, <3>1
  <2> QED
    BY <1>1, <2>1, <2>2
<1>4. s = r
  BY <1>1, <1>2, <1>3
<1> QED
  BY <1>4 DEF s

\* The slot after the last is the first.
LEMMA ModStep ==
  ASSUME NEW M \in Nat \ {0}, NEW c \in Nat
  PROVE  (c + 1) % M = ((c % M) + 1) % M
<1> DEFINE r == c % M
<1>1. PICK q \in Nat : r \in 0..(M - 1) /\ c = M * q + r
  BY QuotientExists
<1> HIDE DEF r
<1>2. CASE r + 1 < M
  <2>1. (c + 1) % M = r + 1
    BY <1>1, <1>2, RemainderIsUnique
  <2>2. (r + 1) % M = r + 1
    BY <1>1, <1>2
  <2> QED
    BY <2>1, <2>2 DEF r
<1>3. CASE r + 1 = M
  <2>1. c + 1 = M * (q + 1) + 0
    BY <1>1, <1>3
  <2>2. (c + 1) % M = 0
    BY <1>1, <2>1, RemainderIsUnique
  <2>3. (r + 1) % M = 0
    <3>1. r + 1 = M * 1 + 0
      BY <1>3
    <3> QED
      BY <1>1, <3>1, RemainderIsUnique
  <2> QED
    BY <2>2, <2>3 DEF r
<1> QED
  BY <1>1, <1>2, <1>3

\* No two of as many numbers as there are slots share one.
LEMMA ModApart ==
  ASSUME NEW M \in Nat \ {0}, NEW c \in Nat, NEW b \in Nat, b < c, c < b + M
  PROVE  b % M # c % M
<1> SUFFICES ASSUME b % M = c % M PROVE FALSE
  OBVIOUS
<1> DEFINE r == c % M
<1>1. PICK q \in Nat : r \in 0..(M - 1) /\ c = M * q + r
  BY QuotientExists
<1>2. PICK p \in Nat : b = M * p + r
  BY QuotientExists
<1> HIDE DEF r
<1>3. c - b = M * (q - p)
  BY <1>2, <1>1
<1>4. CASE q - p >= 1
  <2>1. M * (q - p) >= M
    BY <1>1, <1>4
  <2> QED
    BY <1>3, <2>1
<1>5. CASE q - p <= 0
  <2>1. M * (q - p) <= 0
    BY <1>1, <1>5
  <2> QED
    BY <1>3, <2>1
<1> QED
  BY <1>1, <1>4, <1>5

\* The slot of b, counted from that of c, which is behind it.
LEMMA ModBack ==
  ASSUME NEW M \in Nat \ {0}, NEW c \in Nat, NEW b \in Nat, b < c, c <= b + M
  PROVE  ((c % M) + b + M - c) % M = b % M
<1> DEFINE r == c % M
           s == b % M
<1>1. PICK q \in Nat : r \in 0..(M - 1) /\ c = M * q + r
  BY QuotientExists
<1>2. PICK p \in Nat : s \in 0..(M - 1) /\ b = M * p + s
  BY QuotientExists
<1> HIDE DEF r, s
<1> DEFINE a == r + b + M - c
<1>3. a \in Nat
  BY <1>2, <1>1
<1>4. a = M * (p + 1 - q) + s
  BY <1>2, <1>1
<1> HIDE DEF a
<1>5. a % M = s
  BY <1>2, <1>1, <1>3, <1>4, RemainderIsUnique
<1> QED
  BY <1>5 DEF a, r, s

-----------------------------------------------------------------------------
(***************************************************************************)
(* The summary of doses: what stats and the ring say of the events read.   *)
(***************************************************************************)
Slots == [id : PumpIds, name : Names, total : Nat]

SummaryTypeOK ==
  /\ journal \in Seq(Events) /\ days \in Nat
  /\ stats \in Seq(Slots)
  /\ count \in Nat /\ head \in Nat /\ replied \in BOOLEAN

\* While there is room every pump that was read has its slot.
RoomForAll(n) ==
  /\ Len(stats) <= MaxPumps
  /\ Len(stats) < MaxPumps => \A id \in PumpsIn(n) : Known(id)

\* How many of the events that are kept came before an event.
NumberOf(i, n) == Cardinality({j \in EventsOfCounted(n) : j < i})

Overwritten(i, n) == NumberOf(i, n) + MaxHistoryEvents < Cardinality(EventsOfCounted(n))

\* The ring has the last of them, each in the slot of its number.
RingIsNewest(n) ==
  LET kept == Cardinality(EventsOfCounted(n))
  IN  /\ count = IF kept < MaxHistoryEvents THEN kept ELSE MaxHistoryEvents
      /\ head = kept % MaxHistoryEvents
      /\ \A i \in EventsOfCounted(n) : ~Overwritten(i, n) =>
           /\ NumberOf(i, n) % MaxHistoryEvents \in DOMAIN ring
           /\ ring[NumberOf(i, n) % MaxHistoryEvents] = journal[i]

SummaryInv ==
  /\ SummaryTypeOK
  /\ \E n \in 0..Len(journal) :
       /\ next = n + 1
       /\ RoomForAll(n) /\ SlotsAreExact(n) /\ RingIsNewest(n)
       /\ replied => n = Len(journal) /\ HistoryIsNewest(n)

\* The journal and the days asked for are all that these definitions look at.
LEMMA SameJournal ==
  ASSUME UNCHANGED <<journal, days>>, NEW n
  PROVE  /\ Window(n)' = Window(n) /\ PumpsIn(n)' = PumpsIn(n)
         /\ EventsOfCounted(n)' = EventsOfCounted(n)
         /\ \A id : /\ EventsOf(id, n)' = EventsOf(id, n) /\ SecondsOf(id, n)' = SecondsOf(id, n)
                    /\ Counted(id, n)' <=> Counted(id, n)
         /\ \A i : NumberOf(i, n)' = NumberOf(i, n) /\ (Overwritten(i, n)' <=> Overwritten(i, n))
<1>1. \A k : Window(k)' = Window(k)
  BY DEF Window, OutsideWindow
<1>2. \A k : PumpsIn(k)' = PumpsIn(k) /\ \A id : EventsOf(id, k)' = EventsOf(id, k)
  BY <1>1 DEF PumpsIn, EventsOf
<1>3. \A id : (Counted(id, n)' <=> Counted(id, n)) /\ SecondsOf(id, n)' = SecondsOf(id, n)
  BY <1>2 DEF Counted, SecondsOf
<1>4. EventsOfCounted(n)' = EventsOfCounted(n)
  BY <1>1, <1>3 DEF EventsOfCounted
<1>5. \A i : NumberOf(i, n)' = NumberOf(i, n)
  BY <1>4, Zenon DEF NumberOf
<1>6. \A i : Overwritten(i, n)' <=> Overwritten(i, n)
  BY <1>4, <1>5, Zenon DEF Overwritten
<1> QED
  BY <1>1, <1>2, <1>3, <1>4, <1>5, <1>6

\* One more entry is read.
LEMMA WindowGrows ==
  ASSUME SummaryTypeOK, NEW n \in Nat, NEW p \in 1..Len(journal), p = n + 1
  PROVE  /\ Window(p) = IF OutsideWindow(journal[p]) THEN Window(n) ELSE Window(n) \cup {p}
         /\ \A i \in Window(n) : i \in 1..n /\ i < p /\ i \in 1..Len(journal)
         /\ p \notin Window(n)
<1>1. \A i \in 1..p : i \in 1..n \/ i = p
  OBVIOUS
<1>2. \A i \in 1..n : i \in 1..p /\ i < p /\ i \in 1..Len(journal)
  BY DEF SummaryTypeOK
<1>3. p \in 1..p /\ p \notin 1..n
  OBVIOUS
<1> QED
  BY <1>1, <1>2, <1>3 DEF Window

LEMMA EventTypes ==
  ASSUME SummaryTypeOK, NEW i \in 1..Len(journal)
  PROVE  /\ journal[i] \in Events /\ journal[i].id \in PumpIds /\ journal[i].name \in Names
         /\ journal[i].seconds \in 1..2
<1>1. journal[i] \in Events
  BY ElementOfSeq DEF SummaryTypeOK
<1> QED
  BY <1>1, Zenon DEF Events

LEMMA WindowIsFinite ==
  ASSUME SummaryTypeOK, NEW n \in Nat, n <= Len(journal)
  PROVE  /\ IsFiniteSet(Window(n)) /\ IsFiniteSet(PumpsIn(n))
         /\ \A k \in Nat : k <= n => PumpsIn(k) \subseteq PumpsIn(n)
         /\ Window(n) \subseteq 1..n /\ Window(n) \subseteq Nat
<1>1. IsFiniteSet(1..n) /\ Window(n) \in SUBSET (1..n)
  BY FS_Interval DEF Window
<1>2. IsFiniteSet(Window(n))
  BY <1>1, FS_Subset
<1>3. IsFiniteSet(PumpsIn(n))
  <2> DEFINE f == [i \in Window(n) |-> journal[i].id]
  <2>1. f \in Surjection(Window(n), PumpsIn(n))
    BY DEF Surjection, PumpsIn
  <2> QED
    BY <1>2, <2>1, FS_Surjection
<1>4. \A k \in Nat : k <= n => PumpsIn(k) \subseteq PumpsIn(n)
  BY DEF PumpsIn, Window
<1> QED
  BY <1>1, <1>2, <1>3, <1>4

\* Whether a pump is counted is settled when it is read for the first time.
LEMMA CountedStays ==
  ASSUME SummaryTypeOK, NEW n \in Nat, NEW p \in 1..Len(journal), p = n + 1,
         ~OutsideWindow(journal[p]), NEW id
  PROVE  /\ Counted(id, n) => Counted(id, p)
         /\ id # journal[p].id \/ id \in PumpsIn(n) => (Counted(id, p) <=> Counted(id, n))
         /\ Counted(id, n) => id \in PumpsIn(n)
         /\ id = journal[p].id /\ Cardinality(PumpsIn(p)) <= MaxPumps => Counted(id, p)
         /\ id = journal[p].id /\ Counted(id, p) => Counted(id, n) \/ Cardinality(PumpsIn(p)) <= MaxPumps
<1>1. /\ Window(p) = Window(n) \cup {p} /\ p \notin Window(n)
      /\ \A i \in Window(n) : i \in 1..n /\ i < p /\ i \in 1..Len(journal)
  BY WindowGrows
<1>2. EventsOf(id, p) = EventsOf(id, n) \cup (IF id = journal[p].id THEN {p} ELSE {})
  BY <1>1 DEF EventsOf
<1>3. Counted(id, n) => Counted(id, p)
  BY <1>2 DEF Counted
<1>4. id # journal[p].id /\ Counted(id, p) => Counted(id, n)
  BY <1>2 DEF Counted
<1>5. ASSUME id \in PumpsIn(n), Counted(id, p) PROVE Counted(id, n)
  <2>1. PICK i \in EventsOf(id, p) : Cardinality(PumpsIn(i)) <= MaxPumps
    BY <1>5 DEF Counted
  <2>2. CASE i \in EventsOf(id, n)
    BY <2>1, <2>2 DEF Counted
  <2>3. CASE i = p
    <3>1. PICK j \in Window(n) : journal[j].id = id
      BY <1>5 DEF PumpsIn
    <3>2. j \in EventsOf(id, n) /\ j \in Nat /\ j <= p /\ p \in Nat /\ p <= Len(journal)
      BY <1>1, <3>1 DEF EventsOf
    <3>3. PumpsIn(j) \in SUBSET PumpsIn(p) /\ IsFiniteSet(PumpsIn(p))
      BY <3>2, WindowIsFinite
    <3>4. /\ Cardinality(PumpsIn(j)) <= Cardinality(PumpsIn(p))
          /\ Cardinality(PumpsIn(j)) \in Nat /\ Cardinality(PumpsIn(p)) \in Nat
      BY <3>3, FS_Subset, FS_CardinalityType
    <3>5. Cardinality(PumpsIn(j)) <= MaxPumps
      BY <2>1, <2>3, <3>4, SummaryAssumption
    <3> QED
      BY <3>2, <3>5 DEF Counted
  <2> QED
    BY <1>2, <2>1, <2>2, <2>3
<1>6. Counted(id, n) => id \in PumpsIn(n)
  BY DEF Counted, EventsOf, PumpsIn
<1>7. id = journal[p].id /\ Cardinality(PumpsIn(p)) <= MaxPumps => Counted(id, p)
  BY <1>2 DEF Counted
<1>8. id = journal[p].id /\ Counted(id, p) => Counted(id, n) \/ Cardinality(PumpsIn(p)) <= MaxPumps
  BY <1>2 DEF Counted
<1> QED
  BY <1>3, <1>4, <1>5, <1>6, <1>7, <1>8

\* An event adds its seconds to those of its pump and to no other's.
LEMMA SecondsGrow ==
  ASSUME SummaryTypeOK, NEW n \in Nat, NEW p \in 1..Len(journal), p = n + 1,
         ~OutsideWindow(journal[p]), NEW id
  PROVE  /\ id # journal[p].id => SecondsOf(id, p) = SecondsOf(id, n)
         /\ id = journal[p].id =>
              Cardinality(SecondsOf(id, p)) = Cardinality(SecondsOf(id, n)) + journal[p].seconds
         /\ Cardinality(SecondsOf(id, n)) \in Nat
         /\ id \notin PumpsIn(n) => Cardinality(SecondsOf(id, n)) = 0
<1> DEFINE own == {<<p, s>> : s \in 1..journal[p].seconds}
<1>1. /\ Window(p) = Window(n) \cup {p} /\ p \notin Window(n)
      /\ \A i \in Window(n) : i \in 1..n /\ i < p /\ i \in 1..Len(journal)
  BY WindowGrows
<1>2. EventsOf(id, p) = EventsOf(id, n) \cup (IF id = journal[p].id THEN {p} ELSE {})
  BY <1>1 DEF EventsOf
<1>3. id # journal[p].id => SecondsOf(id, p) = SecondsOf(id, n)
  BY <1>2 DEF SecondsOf
<1>4. id = journal[p].id => SecondsOf(id, p) = SecondsOf(id, n) \cup own
  BY <1>2 DEF SecondsOf
<1>5. IsFiniteSet(SecondsOf(id, n))
  <2>1. SecondsOf(id, n) \in SUBSET ((1..n) \X (1..2))
    <3>1. ASSUME NEW i \in EventsOf(id, n), NEW s \in 1..journal[i].seconds
          PROVE  <<i, s>> \in (1..n) \X (1..2)
      <4>1. i \in 1..n /\ i \in 1..Len(journal)
        BY <1>1, <3>1 DEF EventsOf
      <4> QED
        BY <3>1, <4>1, EventTypes
    <3> QED
      BY <3>1 DEF SecondsOf
  <2>2. \A m \in Nat : IsFiniteSet(1..m)
    BY FS_Interval
  <2>4. IsFiniteSet(1..n) /\ IsFiniteSet(1..2)
    BY <2>2
  <2>3. IsFiniteSet((1..n) \X (1..2))
    BY <2>4, FS_Product
  <2> QED
    BY <2>1, <2>3, FS_Subset
<1>6. IsFiniteSet(own) /\ Cardinality(own) = journal[p].seconds
  <2>1. PICK k \in 1..2 : k = journal[p].seconds
    BY EventTypes
  <2> DEFINE f == [s \in 1..k |-> <<p, s>>]
  <2>2. f \in [1..k -> own] /\ (\A t \in own : \E s \in 1..k : f[s] = t)
    BY <2>1
  <2>3. \A s, t \in 1..k : f[s] = f[t] => s = t
    OBVIOUS
  <2> HIDE DEF f, own
  <2>4. f \in Bijection(1..k, own)
    BY <2>2, <2>3 DEF Bijection, Injection, Surjection, IsInjective
  <2>5. ExistsBijection(1..k, own)
    BY <2>4 DEF ExistsBijection
  <2>6. IsFiniteSet(1..k) /\ Cardinality(1..k) = k
    BY FS_Interval
  <2> QED
    BY <2>1, <2>5, <2>6, FS_Bijection, Zenon
<1>7. SecondsOf(id, n) \cap own = {}
  BY <1>1 DEF SecondsOf, EventsOf
<1> HIDE DEF own
<1>8. Cardinality(SecondsOf(id, n) \cup own) = Cardinality(SecondsOf(id, n)) + journal[p].seconds
  <2>1. Cardinality(SecondsOf(id, n)) \in Nat /\ journal[p].seconds \in Nat
    BY <1>5, FS_CardinalityType, EventTypes
  <2>2. Cardinality(SecondsOf(id, n) \cap own) = 0
    BY <1>7, FS_EmptySet
  <2>3. Cardinality(SecondsOf(id, n) \cup own) =
          Cardinality(SecondsOf(id, n)) + Cardinality(own) - Cardinality(SecondsOf(id, n) \cap own)
    BY <1>5, <1>6, FS_Union, Zenon
  <2> QED
    BY <1>6, <2>1, <2>2, <2>3
<1>9. Cardinality(SecondsOf(id, n)) \in Nat
  BY <1>5, FS_CardinalityType
<1>10. id \notin PumpsIn(n) => SecondsOf(id, n) = {}
  BY DEF SecondsOf, EventsOf, PumpsIn
<1> QED
  BY <1>3, <1>4, <1>8, <1>9, <1>10, FS_EmptySet

\* Slots tell pumps apart, so there are as many as pumps that have one.
LEMMA SlotsOfPumps ==
  ASSUME SummaryTypeOK, \A i, j \in 1..Len(stats) : stats[i].id = stats[j].id => i = j
  PROVE  LET met == {stats[i].id : i \in 1..Len(stats)}
         IN  IsFiniteSet(met) /\ Cardinality(met) = Len(stats)
<1> DEFINE met == {stats[i].id : i \in 1..Len(stats)}
           f == [i \in 1..Len(stats) |-> stats[i].id]
<1>1. Len(stats) \in Nat
  BY LenProperties DEF SummaryTypeOK
<1>2. f \in Bijection(1..Len(stats), met)
  BY DEF Bijection, Injection, Surjection, IsInjective
<1>3. ExistsBijection(1..Len(stats), met)
  BY <1>2 DEF ExistsBijection
<1>4. IsFiniteSet(1..Len(stats)) /\ Cardinality(1..Len(stats)) = Len(stats)
  <2>1. \A m \in Nat : IsFiniteSet(1..m) /\ Cardinality(1..m) = m
    BY FS_Interval
  <2> QED
    BY <1>1, <2>1
<1> QED
  BY <1>3, <1>4, FS_Bijection, Zenon

\* A pump is counted if it has a slot, or is given one.
LEMMA CountedIfRoom ==
  ASSUME SummaryTypeOK, NEW n \in Nat, NEW p \in 1..Len(journal), p = n + 1,
         ~OutsideWindow(journal[p]), RoomForAll(n), SlotsAreExact(n)
  PROVE  /\ Known(journal[p].id) => Counted(journal[p].id, n) /\ Counted(journal[p].id, p)
         /\ ~Known(journal[p].id) => ~Counted(journal[p].id, n)
         /\ ~Known(journal[p].id) /\ Len(stats) < MaxPumps =>
              Counted(journal[p].id, p) /\ journal[p].id \notin PumpsIn(n)
         /\ ~Known(journal[p].id) /\ Len(stats) >= MaxPumps => ~Counted(journal[p].id, p)
<1> DEFINE id == journal[p].id
           met == {stats[i].id : i \in 1..Len(stats)}
<1>1. id \in PumpIds /\ \A q : Known(q) <=> q \in met
  BY EventTypes DEF Known
<1>2. IsFiniteSet(met) /\ Cardinality(met) = Len(stats) /\ Len(stats) \in Nat /\ MaxPumps \in Nat
  BY SlotsOfPumps, LenProperties, SummaryAssumption DEF SlotsAreExact, SummaryTypeOK
<1>3. met = {q \in PumpIds : Counted(q, n)}
  BY DEF SlotsAreExact
<1>4. /\ n <= Len(journal) /\ p <= Len(journal) /\ p \in Nat
      /\ PumpsIn(p) = PumpsIn(n) \cup {id}
  <2>1. Window(p) = Window(n) \cup {p}
    BY WindowGrows
  <2> QED
    BY <2>1 DEF PumpsIn, SummaryTypeOK
<1>5. IsFiniteSet(PumpsIn(p)) /\ Cardinality(PumpsIn(p)) \in Nat
  BY <1>4, WindowIsFinite, FS_CardinalityType
<1>6. Cardinality(met \cup {id}) = IF id \in met THEN Len(stats) ELSE Len(stats) + 1
  BY <1>2, FS_AddElement
<1>7. IsFiniteSet(met \cup {id})
  BY <1>2, FS_AddElement
<1> HIDE DEF met, id
<1>8. id \in met => Counted(id, n)
  BY <1>3
<1>9. id \notin met => ~Counted(id, n)
  BY <1>1, <1>3
<1>10. Counted(id, n) => Counted(id, p)
  BY CountedStays DEF id
<1>11. ASSUME id \notin met, Len(stats) < MaxPumps PROVE Counted(id, p) /\ id \notin PumpsIn(n)
  <2>1. PumpsIn(n) \subseteq met
    BY <1>1, <1>11 DEF RoomForAll
  <2>2. PumpsIn(p) \in SUBSET (met \cup {id})
    BY <1>4, <2>1
  <2>3. Cardinality(PumpsIn(p)) <= Cardinality(met \cup {id})
    BY <1>7, <2>2, FS_Subset
  <2>4. Cardinality(PumpsIn(p)) <= MaxPumps
    BY <1>2, <1>5, <1>6, <1>11, <2>3
  <2> QED
    BY <1>11, <2>1, <2>4, CountedStays DEF id
<1>12. ASSUME id \notin met, Len(stats) >= MaxPumps, Counted(id, p) PROVE FALSE
  <2>1. \A q \in met : q \in PumpsIn(n)
    BY <1>3, CountedStays
  <2>2. met \cup {id} \in SUBSET PumpsIn(p)
    BY <1>4, <2>1
  <2>3. Cardinality(met \cup {id}) <= Cardinality(PumpsIn(p))
    BY <1>5, <2>2, FS_Subset
  <2>4. Cardinality(PumpsIn(p)) <= MaxPumps
    BY <1>9, <1>12, CountedStays DEF id
  <2> QED
    BY <1>2, <1>5, <1>6, <1>12, <2>3, <2>4
<1>13. Known(id) <=> id \in met
  BY <1>1
<1> QED
  BY <1>8, <1>9, <1>10, <1>11, <1>12, <1>13 DEF id

\* What an event makes of the slots.
LEMMA SlotsAfter ==
  ASSUME SummaryTypeOK, NEW e \in Events
  PROVE  LET slots == AddedTo(WithSlot(e), e)
             given == ~Known(e.id) /\ Len(stats) < MaxPumps
         IN  /\ slots \in Seq(Slots)
             /\ Len(slots) = IF given THEN Len(stats) + 1 ELSE Len(stats)
             /\ \A i \in 1..Len(stats) :
                  /\ slots[i].id = stats[i].id
                  /\ slots[i].name = IF stats[i].id = e.id /\ stats[i].name = Unknown THEN e.name ELSE stats[i].name
                  /\ slots[i].total = IF stats[i].id = e.id THEN stats[i].total + e.seconds ELSE stats[i].total
             /\ given => slots[Len(stats) + 1] = [id |-> e.id, name |-> e.name, total |-> e.seconds]
<1> DEFINE given == ~Known(e.id) /\ Len(stats) < MaxPumps
           rows == WithSlot(e)
           slots == AddedTo(rows, e)
           new == [id |-> e.id, name |-> e.name, total |-> 0]
<1>1. /\ Len(stats) \in Nat /\ \A i \in 1..Len(stats) : stats[i] \in Slots
      /\ e.id \in PumpIds /\ e.name \in Names /\ e.seconds \in Nat
  BY ElementOfSeq, LenProperties DEF SummaryTypeOK, Events
<1>2. new \in Slots
  BY <1>1 DEF Slots
<1>3. /\ rows \in Seq(Slots) /\ Len(rows) = IF given THEN Len(stats) + 1 ELSE Len(stats)
      /\ \A i \in 1..Len(stats) :
           /\ rows[i].id = stats[i].id /\ rows[i].total = stats[i].total
           /\ rows[i].name = IF stats[i].id = e.id /\ stats[i].name = Unknown THEN e.name ELSE stats[i].name
      /\ given => rows[Len(stats) + 1] = new
  <2>1. CASE Known(e.id)
    <3> DEFINE row(i) == IF stats[i].id = e.id /\ stats[i].name = Unknown
                         THEN [stats[i] EXCEPT !.name = e.name] ELSE stats[i]
    <3>1. rows = [i \in 1..Len(stats) |-> row(i)]
      BY <2>1 DEF WithSlot
    <3>2. ASSUME NEW i \in 1..Len(stats)
          PROVE  /\ row(i) \in Slots /\ row(i).id = stats[i].id /\ row(i).total = stats[i].total
                 /\ row(i).name = IF stats[i].id = e.id /\ stats[i].name = Unknown THEN e.name ELSE stats[i].name
      BY <1>1, <3>2 DEF Slots
    <3> HIDE DEF row
    <3>3. rows \in Seq(Slots) /\ Len(rows) = Len(stats) /\ \A i \in 1..Len(stats) : rows[i] = row(i)
      BY <1>1, <3>1, <3>2
    <3> QED
      BY <2>1, <3>2, <3>3
  <2>2. CASE given
    <3>1. rows = Append(stats, new)
      BY <2>2 DEF WithSlot
    <3>2. \A i \in 1..Len(stats) : stats[i].id # e.id
      BY <2>2 DEF Known
    <3> HIDE DEF new, rows
    <3>3. /\ rows \in Seq(Slots) /\ Len(rows) = Len(stats) + 1 /\ rows[Len(stats) + 1] = new
          /\ \A i \in 1..Len(stats) : rows[i] = stats[i]
      BY <1>1, <1>2, <3>1, AppendProperties DEF SummaryTypeOK
    <3> QED
      BY <2>2, <3>2, <3>3
  <2>3. CASE ~Known(e.id) /\ ~given
    <3>1. rows = stats /\ \A i \in 1..Len(stats) : stats[i].id # e.id
      BY <2>3 DEF WithSlot, Known
    <3> QED
      BY <2>3, <3>1 DEF SummaryTypeOK
  <2> QED
    BY <2>1, <2>2, <2>3
<1> HIDE DEF rows, given
<1> DEFINE sum(i) == IF rows[i].id = e.id THEN [rows[i] EXCEPT !.total = @ + e.seconds] ELSE rows[i]
<1>4. slots = [i \in 1..Len(rows) |-> sum(i)]
  BY DEF AddedTo
<1>5. Len(rows) \in Nat /\ \A i \in 1..Len(rows) : rows[i] \in Slots
  BY <1>3, ElementOfSeq, LenProperties
<1>6. ASSUME NEW i \in 1..Len(rows)
      PROVE  /\ sum(i) \in Slots /\ sum(i).id = rows[i].id /\ sum(i).name = rows[i].name
             /\ sum(i).total = IF rows[i].id = e.id THEN rows[i].total + e.seconds ELSE rows[i].total
  BY <1>1, <1>5, <1>6 DEF Slots
<1> HIDE DEF sum
<1>7. slots \in Seq(Slots) /\ Len(slots) = Len(rows) /\ \A i \in 1..Len(rows) : slots[i] = sum(i)
  BY <1>4, <1>5, <1>6
<1> HIDE DEF slots
<1>8. ASSUME given PROVE slots[Len(stats) + 1] = [id |-> e.id, name |-> e.name, total |-> e.seconds]
  <2>1. PICK q \in 1..Len(rows) : q = Len(stats) + 1
    BY <1>1, <1>3, <1>8
  <2>2. rows[q] = new
    BY <1>3, <1>8, <2>1
  <2>3. sum(q) = [id |-> e.id, name |-> e.name, total |-> e.seconds]
    BY <1>1, <2>2 DEF sum
  <2> QED
    BY <1>7, <2>1, <2>3
<1>9. \A i \in 1..Len(stats) : i \in 1..Len(rows)
  BY <1>1, <1>3
<1> QED
  BY <1>3, <1>6, <1>7, <1>8, <1>9 DEF given, slots, rows

\* After an event of the window the slots are those of the events up to it.
LEMMA SlotsGrow ==
  ASSUME SummaryTypeOK, NEW n \in Nat, NEW p \in 1..Len(journal), p = n + 1,
         ~OutsideWindow(journal[p]), RoomForAll(n), SlotsAreExact(n),
         UNCHANGED <<journal, days>>, stats' = AddedTo(WithSlot(journal[p]), journal[p])
  PROVE  /\ stats' \in Seq(Slots) /\ RoomForAll(p)' /\ SlotsAreExact(p)'
         /\ Has(stats', journal[p].id) <=> Counted(journal[p].id, p)
<1> DEFINE e == journal[p]
           given == ~Known(e.id) /\ Len(stats) < MaxPumps
<1>1. e \in Events /\ e.id \in PumpIds /\ e.seconds \in Nat
  BY EventTypes
<1>2. /\ stats' \in Seq(Slots)
      /\ Len(stats') = IF given THEN Len(stats) + 1 ELSE Len(stats)
      /\ \A i \in 1..Len(stats) :
           /\ stats'[i].id = stats[i].id
           /\ stats'[i].name = IF stats[i].id = e.id /\ stats[i].name = Unknown THEN e.name ELSE stats[i].name
           /\ stats'[i].total = IF stats[i].id = e.id THEN stats[i].total + e.seconds ELSE stats[i].total
      /\ given => stats'[Len(stats) + 1] = [id |-> e.id, name |-> e.name, total |-> e.seconds]
  BY <1>1, SlotsAfter
<1>3. Len(stats) \in Nat /\ MaxPumps \in Nat /\ Len(stats) <= MaxPumps
  BY LenProperties, SummaryAssumption DEF SummaryTypeOK, RoomForAll
<1>4. /\ Known(e.id) => Counted(e.id, n) /\ Counted(e.id, p)
      /\ ~Known(e.id) => ~Counted(e.id, n)
      /\ given => Counted(e.id, p) /\ e.id \notin PumpsIn(n)
      /\ ~Known(e.id) /\ ~given => ~Counted(e.id, p)
  BY <1>3, CountedIfRoom
<1>5. \A id : /\ EventsOf(id, p) = EventsOf(id, n) \cup (IF id = e.id THEN {p} ELSE {})
              /\ PumpsIn(p) = PumpsIn(n) \cup {e.id}
  <2>1. Window(p) = Window(n) \cup {p}
    BY WindowGrows
  <2> QED
    BY <2>1 DEF EventsOf, PumpsIn
<1>6. \A id : id # e.id => (Counted(id, p) <=> Counted(id, n))
  BY CountedStays
<1>7. \A id : /\ id # e.id => Cardinality(SecondsOf(id, p)) = Cardinality(SecondsOf(id, n))
              /\ id = e.id => Cardinality(SecondsOf(id, p)) = Cardinality(SecondsOf(id, n)) + e.seconds
              /\ id \notin PumpsIn(n) => Cardinality(SecondsOf(id, n)) = 0 /\ EventsOf(id, n) = {}
  <2>1. \A id : id \notin PumpsIn(n) => EventsOf(id, n) = {}
    BY DEF EventsOf, PumpsIn
  <2> QED
    BY <2>1, SecondsGrow
<1>8. Known(e.id) <=> \E i \in 1..Len(stats) : stats[i].id = e.id
  BY DEF Known
<1>9. /\ {stats[i].id : i \in 1..Len(stats)} = {id \in PumpIds : Counted(id, n)}
      /\ \A i, j \in 1..Len(stats) : stats[i].id = stats[j].id => i = j
      /\ \A i \in 1..Len(stats) :
           /\ stats[i].total = Cardinality(SecondsOf(stats[i].id, n))
           /\ stats[i].name = Unknown => \A j \in EventsOf(stats[i].id, n) : journal[j].name = Unknown
  BY DEF SlotsAreExact
<1>10. \A i \in 1..Len(stats') : i \in 1..Len(stats) \/ (given /\ i = Len(stats) + 1)
  BY <1>2, <1>3
<1>11. ASSUME given PROVE LET q == Len(stats) + 1
                          IN  q \in 1..Len(stats') /\ stats'[q].id = e.id /\ stats'[q].name = e.name /\ stats'[q].total = e.seconds
  BY <1>2, <1>3, <1>11
<1>12. \A i \in 1..Len(stats) : i \in 1..Len(stats')
  BY <1>2, <1>3
<1>13. {stats'[i].id : i \in 1..Len(stats')} = {id \in PumpIds : Counted(id, p)}
  <2>1. ASSUME NEW i \in 1..Len(stats') PROVE stats'[i].id \in PumpIds /\ Counted(stats'[i].id, p)
    <3>1. CASE i \in 1..Len(stats)
      <4>1. stats'[i].id = stats[i].id /\ stats[i].id \in PumpIds /\ Counted(stats[i].id, n)
        BY <1>2, <1>9, <3>1
      <4> QED
        BY <1>4, <1>6, <1>8, <3>1, <4>1
    <3>2. CASE given /\ i = Len(stats) + 1
      BY <1>1, <1>4, <1>11, <3>2
    <3> QED
      BY <1>10, <3>1, <3>2
  <2>2. ASSUME NEW id \in PumpIds, Counted(id, p) PROVE \E i \in 1..Len(stats') : stats'[i].id = id
    <3>1. CASE Counted(id, n)
      <4>1. PICK i \in 1..Len(stats) : stats[i].id = id
        BY <1>9, <3>1
      <4> QED
        BY <1>2, <1>12, <4>1
    <3>2. CASE ~Counted(id, n)
      <4>1. id = e.id /\ given
        BY <1>4, <1>6, <2>2, <3>2
      <4> QED
        BY <1>11, <4>1
    <3> QED
      BY <3>1, <3>2
  <2> HIDE DEF e, given
  <2> QED
    BY <2>1, <2>2
<1>14. \A i, j \in 1..Len(stats') : stats'[i].id = stats'[j].id => i = j
  <2>1. ASSUME NEW i \in 1..Len(stats), given PROVE stats[i].id # e.id
    BY <1>8, <2>1
  <2>2. \A i \in 1..Len(stats) : stats'[i].id = stats[i].id
    BY <1>2
  <2>3. given => stats'[Len(stats) + 1].id = e.id
    BY <1>11
  <2> SUFFICES ASSUME NEW i \in 1..Len(stats'), NEW j \in 1..Len(stats'), stats'[i].id = stats'[j].id
               PROVE  i = j
    OBVIOUS
  <2> HIDE DEF e, given
  <2>4. CASE i \in 1..Len(stats) /\ j \in 1..Len(stats)
    <3>1. stats[i].id = stats[j].id
      BY <2>2, <2>4
    <3> QED
      BY <1>9, <2>4, <3>1
  <2>5. CASE i \in 1..Len(stats) /\ given /\ j = Len(stats) + 1
    BY <2>1, <2>2, <2>3, <2>5
  <2>6. CASE j \in 1..Len(stats) /\ given /\ i = Len(stats) + 1
    BY <2>1, <2>2, <2>3, <2>6
  <2>7. CASE i = Len(stats) + 1 /\ j = Len(stats) + 1
    BY <2>7
  <2> QED
    BY <1>10, <2>4, <2>5, <2>6, <2>7
<1>15. ASSUME NEW i \in 1..Len(stats')
       PROVE  /\ stats'[i].total = Cardinality(SecondsOf(stats'[i].id, p))
              /\ stats'[i].name = Unknown => \A j \in EventsOf(stats'[i].id, p) : journal[j].name = Unknown
  <2>1. CASE i \in 1..Len(stats)
    <3>1. stats'[i].total = Cardinality(SecondsOf(stats'[i].id, p))
      BY <1>2, <1>7, <1>9, <2>1
    <3>2. ASSUME stats'[i].name = Unknown, NEW j \in EventsOf(stats'[i].id, p) PROVE journal[j].name = Unknown
      <4>1. stats'[i].id = stats[i].id /\ stats[i].name = Unknown
        BY <1>2, <2>1, <3>2
      <4>2. CASE j \in EventsOf(stats[i].id, n)
        BY <1>9, <2>1, <4>1, <4>2
      <4>3. CASE stats[i].id = e.id /\ j = p
        BY <1>2, <2>1, <3>2, <4>1, <4>3
      <4> QED
        BY <1>5, <3>2, <4>1, <4>2, <4>3
    <3> QED
      BY <3>1, <3>2
  <2>2. CASE given /\ i = Len(stats) + 1
    <3>1. stats'[i].id = e.id /\ stats'[i].name = e.name /\ stats'[i].total = e.seconds
      BY <1>11, <2>2
    <3>2. e.id \notin PumpsIn(n) /\ EventsOf(e.id, p) = {p}
      BY <1>4, <1>5, <1>7, <2>2
    <3> QED
      BY <1>1, <1>7, <3>1, <3>2
  <2> QED
    BY <1>10, <2>1, <2>2
<1>16. /\ PumpsIn(p)' = PumpsIn(p) /\ \A id : /\ EventsOf(id, p)' = EventsOf(id, p) /\ SecondsOf(id, p)' = SecondsOf(id, p)
                                              /\ Counted(id, p)' <=> Counted(id, p)
  BY SameJournal
<1>17. SlotsAreExact(p)'
  BY <1>13, <1>14, <1>15, <1>16 DEF SlotsAreExact
<1>18. RoomForAll(p)'
  <2>1. Len(stats') <= MaxPumps
    BY <1>2, <1>3
  <2>2. ASSUME Len(stats') < MaxPumps, NEW id \in PumpsIn(p) PROVE \E i \in 1..Len(stats') : stats'[i].id = id
    <3>1. Len(stats) < MaxPumps
      BY <1>2, <1>3, <2>2
    <3>2. CASE id \in PumpsIn(n)
      <4>1. PICK i \in 1..Len(stats) : stats[i].id = id
        BY <3>1, <3>2 DEF RoomForAll, Known
      <4> QED
        BY <1>2, <1>12, <4>1
    <3>3. CASE id = e.id
      <4>1. CASE given
        BY <1>11, <3>3, <4>1
      <4>2. CASE ~given
        <5>1. PICK i \in 1..Len(stats) : stats[i].id = id
          BY <1>8, <3>1, <3>3, <4>2
        <5> QED
          BY <1>2, <1>12, <5>1
      <4> QED
        BY <4>1, <4>2
    <3> QED
      BY <1>5, <2>2, <3>2, <3>3
  <2> QED
    BY <1>16, <2>1, <2>2 DEF RoomForAll, Known
<1>19. Has(stats', e.id) <=> Counted(e.id, p)
  BY <1>1, <1>13 DEF Has
<1> QED
  BY <1>2, <1>17, <1>18, <1>19

\* The events that are kept, and their numbers: what is read later comes behind.
LEMMA KeptGrows ==
  ASSUME SummaryTypeOK, NEW n \in Nat, NEW p \in 1..Len(journal), p = n + 1, ~OutsideWindow(journal[p])
  PROVE  /\ EventsOfCounted(p) =
              EventsOfCounted(n) \cup (IF Counted(journal[p].id, p) THEN {p} ELSE {})
         /\ p \notin EventsOfCounted(n)
         /\ \A i \in EventsOfCounted(n) : NumberOf(i, p) = NumberOf(i, n)
         /\ NumberOf(p, p) = Cardinality(EventsOfCounted(n))
<1>1. /\ Window(p) = Window(n) \cup {p} /\ p \notin Window(n)
      /\ \A i \in Window(n) : i \in 1..n /\ i < p
  BY WindowGrows
<1>2. ASSUME NEW i \in Window(n) PROVE Counted(journal[i].id, p) <=> Counted(journal[i].id, n)
  <2>1. journal[i].id \in PumpsIn(n)
    BY DEF PumpsIn
  <2> QED
    BY <2>1, CountedStays
<1>3. EventsOfCounted(p) = EventsOfCounted(n) \cup (IF Counted(journal[p].id, p) THEN {p} ELSE {})
  BY <1>1, <1>2 DEF EventsOfCounted
<1>4. p \notin EventsOfCounted(n) /\ \A i \in EventsOfCounted(n) : i \in 1..n /\ i < p
  BY <1>1 DEF EventsOfCounted
<1>5. ASSUME NEW i \in EventsOfCounted(n) PROVE NumberOf(i, p) = NumberOf(i, n)
  <2>1. ~(p < i)
    BY <1>4
  <2>2. {j \in EventsOfCounted(p) : j < i} = {j \in EventsOfCounted(n) : j < i}
    BY <1>3, <2>1
  <2> QED
    BY <2>2, Zenon DEF NumberOf
<1>6. {j \in EventsOfCounted(p) : j < p} = EventsOfCounted(n)
  BY <1>3, <1>4
<1> QED
  BY <1>3, <1>4, <1>5, <1>6, Zenon DEF NumberOf

LEMMA KeptIsFinite ==
  ASSUME SummaryTypeOK, NEW n \in Nat, n <= Len(journal)
  PROVE  /\ IsFiniteSet(EventsOfCounted(n)) /\ Cardinality(EventsOfCounted(n)) \in Nat
         /\ \A i \in EventsOfCounted(n) : NumberOf(i, n) \in Nat /\ NumberOf(i, n) < Cardinality(EventsOfCounted(n))
<1>1. IsFiniteSet(Window(n)) /\ EventsOfCounted(n) \in SUBSET Window(n)
  BY WindowIsFinite DEF EventsOfCounted
<1>2. IsFiniteSet(EventsOfCounted(n)) /\ Cardinality(EventsOfCounted(n)) \in Nat
  BY <1>1, FS_Subset, FS_CardinalityType
<1>3. ASSUME NEW i \in EventsOfCounted(n)
      PROVE  NumberOf(i, n) \in Nat /\ NumberOf(i, n) < Cardinality(EventsOfCounted(n))
  <2> DEFINE ahead == {j \in EventsOfCounted(n) : j < i}
  <2>1. ahead \in SUBSET EventsOfCounted(n) /\ i \notin ahead /\ ahead # EventsOfCounted(n)
    <3>1. i \in Nat
      BY <1>1, <1>3, WindowIsFinite
    <3> QED
      BY <3>1
  <2>2. /\ Cardinality(ahead) \in Nat /\ Cardinality(ahead) <= Cardinality(EventsOfCounted(n))
        /\ Cardinality(ahead) # Cardinality(EventsOfCounted(n))
    BY <1>2, <2>1, FS_Subset, FS_CardinalityType
  <2>3. NumberOf(i, n) = Cardinality(ahead)
    BY DEF NumberOf
  <2> QED
    BY <1>2, <2>2, <2>3
<1> QED
  BY <1>2, <1>3

\* An event that is kept goes into the slot of its number, and overwrites none of the newest.
LEMMA RingGrows ==
  ASSUME SummaryTypeOK, NEW n \in Nat, NEW p \in 1..Len(journal), p = n + 1,
         ~OutsideWindow(journal[p]), RingIsNewest(n), UNCHANGED <<journal, days>>,
         IF Counted(journal[p].id, p) THEN InRing(journal[p]) ELSE UNCHANGED <<ring, head, count>>
  PROVE  RingIsNewest(p)' /\ count' \in Nat /\ head' \in Nat
<1> DEFINE M == MaxHistoryEvents
           kept == Cardinality(EventsOfCounted(n))
<1>1. M \in Nat \ {0}
  BY SummaryAssumption
<1>2. n <= Len(journal) /\ IsFiniteSet(EventsOfCounted(n)) /\ kept \in Nat
  BY KeptIsFinite DEF SummaryTypeOK
<1>3. /\ EventsOfCounted(p) = EventsOfCounted(n) \cup (IF Counted(journal[p].id, p) THEN {p} ELSE {})
      /\ p \notin EventsOfCounted(n)
      /\ \A i \in EventsOfCounted(n) : NumberOf(i, p) = NumberOf(i, n)
      /\ NumberOf(p, p) = kept
  BY KeptGrows
<1>4. \A i \in EventsOfCounted(n) : NumberOf(i, n) \in Nat /\ NumberOf(i, n) < kept
  BY <1>2, KeptIsFinite
<1>5. /\ count = IF kept < M THEN kept ELSE M
      /\ head = kept % M
      /\ \A i \in EventsOfCounted(n) : ~(NumberOf(i, n) + M < kept) =>
           NumberOf(i, n) % M \in DOMAIN ring /\ ring[NumberOf(i, n) % M] = journal[i]
  BY Zenon DEF RingIsNewest, Overwritten
<1>6. EventsOfCounted(p)' = EventsOfCounted(p) /\ \A i : NumberOf(i, p)' = NumberOf(i, p)
  BY SameJournal
<1> DEFINE Newest(k, c, h, r) ==
             /\ c = IF k < M THEN k ELSE M
             /\ h = k % M
             /\ \A i \in EventsOfCounted(p) : ~(NumberOf(i, p) + M < k) =>
                  NumberOf(i, p) % M \in DOMAIN r /\ r[NumberOf(i, p) % M] = journal[i]
<1>7. Newest(Cardinality(EventsOfCounted(p)), count', head', ring') => RingIsNewest(p)'
  BY <1>6 DEF RingIsNewest, Overwritten
<1>8. CASE ~Counted(journal[p].id, p)
  <2>1. EventsOfCounted(p) = EventsOfCounted(n)
    BY <1>3, <1>8
  <2>2. ring' = ring /\ head' = head /\ count' = count
    BY <1>8
  <2>3. Newest(kept, count', head', ring')
    BY <1>3, <1>5, <2>1, <2>2
  <2> QED
    BY <1>7, <2>1, <2>2, <2>3 DEF SummaryTypeOK
<1>9. CASE Counted(journal[p].id, p)
  <2>1. Cardinality(EventsOfCounted(p)) = kept + 1 /\ EventsOfCounted(p) = EventsOfCounted(n) \cup {p}
    BY <1>2, <1>3, <1>9, FS_AddElement
  <2>2. /\ ring' = [i \in DOMAIN ring \cup {head} |-> IF i = head THEN journal[p] ELSE ring[i]]
        /\ head' = (head + 1) % M
        /\ count' = IF count = M THEN count ELSE count + 1
    BY <1>9 DEF InRing
  <2>3. count' = (IF kept + 1 < M THEN kept + 1 ELSE M) /\ count' \in Nat
    BY <1>1, <1>2, <1>5, <2>2
  <2>4. head' = (kept + 1) % M
    BY <1>1, <1>2, <1>5, <2>2, ModStep
  <2>5. head' \in Nat
    BY <1>1, <1>2, <2>4
  <2>6. ASSUME NEW i \in EventsOfCounted(n), ~(NumberOf(i, n) + M < kept + 1)
        PROVE  NumberOf(i, n) % M \in DOMAIN ring' /\ ring'[NumberOf(i, n) % M] = journal[i]
    <3>1. NumberOf(i, n) \in Nat /\ NumberOf(i, n) < kept /\ kept < NumberOf(i, n) + M
      BY <1>1, <1>2, <1>4, <2>6
    <3>2. NumberOf(i, n) % M # head
      BY <1>1, <1>2, <1>5, <3>1, ModApart
    <3>3. NumberOf(i, n) % M \in DOMAIN ring /\ ring[NumberOf(i, n) % M] = journal[i]
      BY <1>1, <1>2, <1>5, <3>1
    <3> QED
      BY <2>2, <3>2, <3>3, Zenon
  <2>7. kept % M \in DOMAIN ring' /\ ring'[kept % M] = journal[p]
    BY <1>5, <2>2, Zenon
  <2>8. Newest(kept + 1, count', head', ring')
    BY <1>3, <2>1, <2>3, <2>4, <2>6, <2>7
  <2> QED
    BY <1>7, <2>1, <2>3, <2>5, <2>8
<1> QED
  BY <1>8, <1>9

\* The drain begins at the oldest event, so that each comes to its place from behind.
LEMMA DrainIsNewest ==
  ASSUME SummaryTypeOK, NEW n \in Nat, n = Len(journal), RingIsNewest(n), DrainRing
  PROVE  HistoryIsNewest(n)'
<1> DEFINE M == MaxHistoryEvents
           kept == Cardinality(EventsOfCounted(n))
           start == IF count = M THEN head ELSE 0
           behind(i) == Cardinality({j \in EventsOfCounted(n) : j > i})
<1>1. M \in Nat \ {0} /\ IsFiniteSet(EventsOfCounted(n)) /\ kept \in Nat /\ count \in Nat
  BY KeptIsFinite, SummaryAssumption DEF SummaryTypeOK
<1>2. \A i \in EventsOfCounted(n) : NumberOf(i, n) \in Nat /\ NumberOf(i, n) < kept
  BY KeptIsFinite
<1>3. /\ count = IF kept < M THEN kept ELSE M
      /\ head = kept % M
      /\ \A i \in EventsOfCounted(n) : ~(NumberOf(i, n) + M < kept) => ring[NumberOf(i, n) % M] = journal[i]
  BY Zenon DEF RingIsNewest, Overwritten
<1>4. history' = [i \in 1..count |-> ring[(start + i - 1) % M]] /\ UNCHANGED <<journal, days>>
  BY DEF DrainRing
<1>5. Len(history') = count
  BY <1>1, <1>4
<1>6. ASSUME NEW i \in EventsOfCounted(n)
      PROVE  behind(i) = kept - 1 - NumberOf(i, n)
  <2> DEFINE ahead == {j \in EventsOfCounted(n) : j < i}
             later == {j \in EventsOfCounted(n) : j > i}
  <2>1. i \in Nat /\ \A j \in EventsOfCounted(n) : j \in Nat
    BY WindowIsFinite DEF EventsOfCounted
  <2>2. \A j \in EventsOfCounted(n) : ~(j < i /\ j > i) /\ (j < i \/ j > i <=> j # i)
    BY <2>1
  <2>3. EventsOfCounted(n) \ {i} = ahead \cup later
    BY <2>2
  <2>4. ahead \cap later = {}
    BY <2>2
  <2>5. ahead \in SUBSET EventsOfCounted(n) /\ later \in SUBSET EventsOfCounted(n)
    OBVIOUS
  <2>6. NumberOf(i, n) = Cardinality(ahead) /\ behind(i) = Cardinality(later)
    BY DEF NumberOf
  <2> HIDE DEF ahead, later
  <2>7. IsFiniteSet(ahead) /\ IsFiniteSet(later)
    BY <1>1, <2>5, FS_Subset
  <2>8. Cardinality(ahead) \in Nat /\ Cardinality(later) \in Nat
    BY <2>7, FS_CardinalityType
  <2>9. Cardinality(ahead \cup later) = Cardinality(ahead) + Cardinality(later) - Cardinality(ahead \cap later)
    BY <2>7, FS_Union, Zenon
  <2>10. Cardinality(ahead \cap later) = 0
    BY <2>4, FS_EmptySet
  <2>11. Cardinality(EventsOfCounted(n) \ {i}) = kept - 1
    BY <1>1, FS_RemoveElement
  <2>12. Cardinality(ahead \cup later) = kept - 1
    BY <2>11, <2>3, Zenon
  <2>13. Cardinality(ahead) + Cardinality(later) = kept - 1
    BY <2>8, <2>9, <2>10, <2>12
  <2> HIDE DEF behind, kept
  <2> QED
    BY <1>1, <2>6, <2>8, <2>13
<1> HIDE DEF behind
<1>7. ASSUME NEW i \in EventsOfCounted(n), behind(i) < M
      PROVE  history'[count - behind(i)] = journal[i]
  <2> DEFINE b == NumberOf(i, n)
  <2>1. b \in Nat /\ b < kept /\ behind(i) = kept - 1 - b
    BY <1>2, <1>6
  <2>2. ring[b % M] = journal[i]
    BY <1>1, <1>3, <1>7, <2>1
  <2> HIDE DEF b
  <2>3. kept <= b + M
    BY <1>1, <1>7, <2>1
  <2>4. PICK q \in 1..count : q = count - behind(i)
    BY <1>1, <1>3, <1>7, <2>1, <2>3
  <2>5. history'[q] = ring[(start + q - 1) % M]
    BY <1>4
  <2>6. (start + q - 1) % M = b % M
    <3>1. CASE kept < M
      <4>1. count = kept /\ start = 0 /\ q - 1 = b
        BY <1>1, <1>3, <2>1, <2>4, <3>1
      <4> QED
        BY <2>1, <4>1
    <3>2. CASE ~(kept < M)
      <4>1. count = M /\ start = kept % M /\ q - 1 = b + M - kept
        BY <1>1, <1>3, <2>1, <2>4, <3>2
      <4>2. kept % M \in Nat
        BY <1>1
      <4>3. start + q - 1 = (kept % M) + b + M - kept
        BY <1>1, <2>1, <4>1, <4>2
      <4>4. ((kept % M) + b + M - kept) % M = b % M
        BY <1>1, <2>1, <2>3, ModBack
      <4> QED
        BY <4>3, <4>4
    <3> QED
      BY <3>1, <3>2
  <2> QED
    BY <2>2, <2>4, <2>5, <2>6
<1>8. EventsOfCounted(n)' = EventsOfCounted(n)
  BY <1>4, SameJournal
<1>9. Len(history') = IF kept < M THEN kept ELSE M
  BY <1>3, <1>5
<1> QED
  BY <1>4, <1>5, <1>7, <1>8, <1>9 DEF HistoryIsNewest, behind

\* An entry before the window changes nothing of what is asked for.
LEMMA PassedOver ==
  ASSUME SummaryTypeOK, NEW n \in Nat, NEW p \in 1..Len(journal), p = n + 1, OutsideWindow(journal[p])
  PROVE  /\ RoomForAll(n) => RoomForAll(p)
         /\ SlotsAreExact(n) => SlotsAreExact(p)
         /\ RingIsNewest(n) => RingIsNewest(p)
<1>1. Window(p) = Window(n)
  BY WindowGrows
<1>2. PumpsIn(p) = PumpsIn(n) /\ \A id : EventsOf(id, p) = EventsOf(id, n)
  BY <1>1 DEF PumpsIn, EventsOf
<1>3. \A id : (Counted(id, p) <=> Counted(id, n)) /\ SecondsOf(id, p) = SecondsOf(id, n)
  BY <1>2 DEF Counted, SecondsOf
<1>4. EventsOfCounted(p) = EventsOfCounted(n)
  BY <1>1, <1>3 DEF EventsOfCounted
<1>5. \A i : NumberOf(i, p) = NumberOf(i, n)
  BY <1>4, Zenon DEF NumberOf
<1>6. \A i : Overwritten(i, p) <=> Overwritten(i, n)
  BY <1>4, <1>5, Zenon DEF Overwritten
<1>7. RingIsNewest(n) => RingIsNewest(p)
  BY <1>4, <1>5, <1>6 DEF RingIsNewest
<1> QED
  BY <1>2, <1>3, <1>7 DEF RoomForAll, SlotsAreExact

LEMMA InitSummary == SummaryInit \/ NoSummary => SummaryInv
<1> SUFFICES ASSUME SummaryInit \/ NoSummary PROVE SummaryInv
  OBVIOUS
<1>1. /\ next = 1 /\ stats = <<>> /\ count = 0 /\ head = 0 /\ replied \in BOOLEAN
      /\ replied => journal = <<>> /\ history = <<>>
  BY DEF SummaryInit, NoSummary
<1>2. journal \in Seq(Events) /\ days \in Nat
  <2>1. CASE SummaryInit
    <3>1. PICK k \in Nat : journal \in [1..k -> Events]
      BY <2>1, SummaryAssumption DEF SummaryInit
    <3>2. days \in Nat
      BY <2>1, SummaryAssumption DEF SummaryInit
    <3> QED
      BY <3>1, <3>2
  <2>2. CASE NoSummary
    BY <2>2 DEF NoSummary
  <2> QED
    BY <2>1, <2>2
<1>3. SummaryTypeOK
  BY <1>1, <1>2 DEF SummaryTypeOK
<1>4. Window(0) = {} /\ PumpsIn(0) = {} /\ EventsOfCounted(0) = {} /\ \A id : EventsOf(id, 0) = {} /\ ~Counted(id, 0)
  BY DEF Window, PumpsIn, EventsOfCounted, EventsOf, Counted
<1>5. Len(stats) = 0 /\ MaxPumps \in Nat \ {0} /\ MaxHistoryEvents \in Nat \ {0}
  BY <1>1, SummaryAssumption
<1>6. RoomForAll(0) /\ SlotsAreExact(0)
  BY <1>4, <1>5 DEF RoomForAll, SlotsAreExact
<1>7. Cardinality(EventsOfCounted(0)) = 0
  BY <1>4, FS_EmptySet
<1>8. RingIsNewest(0)
  BY <1>1, <1>4, <1>5, <1>7 DEF RingIsNewest
<1>9. replied => 0 = Len(journal) /\ HistoryIsNewest(0)
  BY <1>1, <1>4, <1>5, <1>7 DEF HistoryIsNewest
<1>10. 0 \in 0..Len(journal) /\ next = 0 + 1
  BY <1>1, <1>2, LenProperties
<1> QED
  BY <1>3, <1>6, <1>8, <1>9, <1>10 DEF SummaryInv

LEMMA ReadKeepsSummary == ASSUME SummaryInv, ReadEvent PROVE SummaryInv'
<1>1. PICK n \in 0..Len(journal) :
        next = n + 1 /\ RoomForAll(n) /\ SlotsAreExact(n) /\ RingIsNewest(n)
  BY DEF SummaryInv
<1>2. SummaryTypeOK /\ n \in Nat /\ Len(journal) \in Nat
  BY LenProperties DEF SummaryInv, SummaryTypeOK
<1>3. PICK p \in 1..Len(journal) : p = next /\ p = n + 1
  BY <1>1, <1>2 DEF ReadEvent
<1>4. /\ UNCHANGED <<journal, days, history, replied>> /\ ~replied /\ next' = p + 1
  BY <1>3 DEF ReadEvent
<1>5. /\ stats' \in Seq(Slots) /\ count' \in Nat /\ head' \in Nat
      /\ RoomForAll(p)' /\ SlotsAreExact(p)' /\ RingIsNewest(p)'
  <2>1. CASE OutsideWindow(journal[p])
    <3>1. UNCHANGED <<stats, ring, head, count>>
      BY <1>3, <2>1 DEF ReadEvent
    <3>2. RoomForAll(p) /\ SlotsAreExact(p) /\ RingIsNewest(p)
      BY <1>1, <1>2, <1>3, <2>1, PassedOver
    <3>3. /\ PumpsIn(p)' = PumpsIn(p) /\ EventsOfCounted(p)' = EventsOfCounted(p)
          /\ \A id : /\ EventsOf(id, p)' = EventsOf(id, p) /\ SecondsOf(id, p)' = SecondsOf(id, p)
                     /\ Counted(id, p)' <=> Counted(id, p)
          /\ \A i : NumberOf(i, p)' = NumberOf(i, p) /\ (Overwritten(i, p)' <=> Overwritten(i, p))
      BY <1>4, SameJournal
    <3>4. RoomForAll(p)' /\ SlotsAreExact(p)'
      BY <1>4, <3>1, <3>2, <3>3 DEF RoomForAll, SlotsAreExact, Known
    <3>5. RingIsNewest(p)'
      BY <1>4, <3>1, <3>2, <3>3 DEF RingIsNewest
    <3> QED
      BY <1>2, <3>1, <3>4, <3>5 DEF SummaryTypeOK
  <2>2. CASE ~OutsideWindow(journal[p])
    <3>1. /\ stats' = AddedTo(WithSlot(journal[p]), journal[p])
          /\ IF Has(stats', journal[p].id) THEN InRing(journal[p]) ELSE UNCHANGED <<ring, head, count>>
      BY <1>3, <2>2, Zenon DEF ReadEvent
    <3>2. /\ stats' \in Seq(Slots) /\ RoomForAll(p)' /\ SlotsAreExact(p)'
          /\ Has(stats', journal[p].id) <=> Counted(journal[p].id, p)
      BY <1>1, <1>2, <1>3, <1>4, <2>2, <3>1, SlotsGrow
    <3>3. IF Counted(journal[p].id, p) THEN InRing(journal[p]) ELSE UNCHANGED <<ring, head, count>>
      BY <3>1, <3>2, Zenon
    <3> QED
      BY <1>1, <1>2, <1>3, <1>4, <2>2, <3>2, <3>3, RingGrows
  <2> QED
    BY <2>1, <2>2
<1>6. SummaryTypeOK'
  BY <1>2, <1>4, <1>5 DEF SummaryTypeOK
<1>7. p \in 0..Len(journal') /\ ~replied'
  BY <1>2, <1>4
<1> QED
  BY <1>4, <1>5, <1>6, <1>7 DEF SummaryInv

LEMMA DrainKeepsSummary == ASSUME SummaryInv, DrainRing PROVE SummaryInv'
<1>1. PICK n \in 0..Len(journal) :
        next = n + 1 /\ RoomForAll(n) /\ SlotsAreExact(n) /\ RingIsNewest(n)
  BY DEF SummaryInv
<1>2. SummaryTypeOK /\ n \in Nat /\ Len(journal) \in Nat
  BY LenProperties DEF SummaryInv, SummaryTypeOK
<1>3. n = Len(journal)
  BY <1>1, <1>2 DEF DrainRing
<1>4. UNCHANGED <<journal, days, next, stats, ring, head, count>> /\ replied' = TRUE
  BY DEF DrainRing
<1>5. HistoryIsNewest(n)'
  BY <1>1, <1>2, <1>3, DrainIsNewest
<1>6. /\ PumpsIn(n)' = PumpsIn(n) /\ EventsOfCounted(n)' = EventsOfCounted(n)
      /\ \A id : /\ EventsOf(id, n)' = EventsOf(id, n) /\ SecondsOf(id, n)' = SecondsOf(id, n)
                 /\ Counted(id, n)' <=> Counted(id, n)
      /\ \A i : NumberOf(i, n)' = NumberOf(i, n) /\ (Overwritten(i, n)' <=> Overwritten(i, n))
  BY <1>4, SameJournal
<1>7. RoomForAll(n)' /\ SlotsAreExact(n)'
  BY <1>1, <1>4, <1>6 DEF RoomForAll, SlotsAreExact, Known
<1>8. RingIsNewest(n)'
  BY <1>1, <1>4, <1>6 DEF RingIsNewest
<1>9. SummaryTypeOK'
  BY <1>2, <1>4 DEF SummaryTypeOK
<1>10. n \in 0..Len(journal') /\ next' = n + 1 /\ n = Len(journal')
  BY <1>1, <1>3, <1>4
<1> QED
  BY <1>5, <1>7, <1>8, <1>9, <1>10 DEF SummaryInv

LEMMA StutterKeepsSummary == ASSUME SummaryInv, UNCHANGED summaryVars PROVE SummaryInv'
<1>1. PICK n \in 0..Len(journal) :
        /\ next = n + 1
        /\ RoomForAll(n) /\ SlotsAreExact(n) /\ RingIsNewest(n)
        /\ replied => n = Len(journal) /\ HistoryIsNewest(n)
  BY DEF SummaryInv
<1>2. UNCHANGED <<journal, days, next, stats, ring, head, count, history, replied>>
  BY DEF summaryVars
<1>3. /\ PumpsIn(n)' = PumpsIn(n) /\ EventsOfCounted(n)' = EventsOfCounted(n)
      /\ \A id : /\ EventsOf(id, n)' = EventsOf(id, n) /\ SecondsOf(id, n)' = SecondsOf(id, n)
                 /\ Counted(id, n)' <=> Counted(id, n)
      /\ \A i : NumberOf(i, n)' = NumberOf(i, n) /\ (Overwritten(i, n)' <=> Overwritten(i, n))
  BY <1>2, SameJournal
<1>4. RoomForAll(n)' /\ SlotsAreExact(n)'
  BY <1>1, <1>2, <1>3 DEF RoomForAll, SlotsAreExact, Known
<1>5. RingIsNewest(n)'
  BY <1>1, <1>2, <1>3 DEF RingIsNewest
<1>6. HistoryIsNewest(n)' <=> HistoryIsNewest(n)
  BY <1>2, <1>3 DEF HistoryIsNewest
<1>7. SummaryTypeOK' /\ n \in 0..Len(journal')
  BY <1>2 DEF SummaryInv, SummaryTypeOK
<1> QED
  BY <1>1, <1>2, <1>4, <1>5, <1>6, <1>7 DEF SummaryInv

LEMMA SummaryInvariant == MCSpec => []SummaryInv
<1>1. MCInit => SummaryInv
  BY InitSummary DEF MCInit
<1>2. ASSUME SummaryInv, [MCNext]_viewVars PROVE SummaryInv'
  <2>1. ReadEvent \/ DrainRing \/ UNCHANGED summaryVars
    BY <1>2, Zenon DEF MCNext, SummaryNext, viewVars
  <2> QED
    BY <1>2, <2>1, ReadKeepsSummary, DrainKeepsSummary, StutterKeepsSummary
<1> QED
  BY <1>1, <1>2, PTL DEF MCSpec

(***************************************************************************)
(* Whatever the journal holds, and for any room for pumps and events, the  *)
(* reply of get_pump_summaries_json() gives each pump it counts once, with *)
(* the seconds and a name of its events, and the newest of their events    *)
(* in the order of time.                                                   *)
(***************************************************************************)
THEOREM SummaryAlwaysExact == MCSpec => []SummaryIsExact
<1>1. SummaryInv => SummaryIsExact
  BY DEF SummaryInv, SummaryIsExact
<1> QED
  BY SummaryInvariant, <1>1, PTL
=============================================================================
