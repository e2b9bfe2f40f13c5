--------------------------- MODULE ProbeBusProofs ---------------------------
(***************************************************************************)
(* Readings of a probe are answers to their own command, for any number of *)
(* clients, temperatures and commands; and what the drivers of the other   *)
(* sensors report they have read, for any raw data.                        *)
(***************************************************************************)
EXTENDS MCProbeBus, TLAPS

USE BusAssumption

\* What a caller may have left to do: the poll never calibrates, clients never compensate.
Left(c) ==
  IF c = Poll THEN {<<"R">>, <<"T", "R">>} ELSE {<<"R">>, <<"Cal", "R">>, <<"i">>}

KindOf(cmd) == CASE cmd = "R" -> "value" [] cmd = "i" -> "text" [] OTHER -> "empty"

ProbeTypeOK ==
  /\ asked \in [n : Nat \cup {None}, cmd : Commands, t : Temps \cup {None}]
  /\ answer \in [n : Nat \cup {None}, kind : Kinds, t : Temps \cup {None}]
  /\ want \in Temps \cup {None} /\ temp \in Temps \cup {None}
  /\ asked.n # None => answer.n = None

CallerTypeOK ==
  /\ issued \in Nat
  /\ step \in [Callers -> {"idle", "write", "read"}]
  /\ todo \in [Callers -> Seq(Commands)]
  /\ number \in [Callers -> Nat \cup {None}]
  /\ calNumber \in [Callers -> Nat \cup {None}]
  /\ trouble \in [Callers -> SUBSET Troubles]
  /\ DOMAIN taken = Callers
  /\ \A c \in Callers : step[c] # "idle" => todo[c] \in Left(c)

Alone(c) == trouble[c] \cap {"lost", "overlap"} = {}

\* Whoever is alone reads: the probe works on its command, or has its answer, or nothing.
OnlyMine(c) ==
  step[c] = "read" /\ Alone(c) =>
    /\ Current(c) = "Cal" => calNumber[c] = number[c]
    /\ number[c] # None
    /\ asked.n # None =>
         /\ asked.n = number[c] /\ asked.cmd = Current(c)
         /\ asked.cmd = "T" => asked.t = want
    /\ answer.n # None =>
         /\ answer.n = number[c] /\ answer.kind = KindOf(Current(c))
         /\ Current(c) = "T" => temp = want
         /\ Current(c) = "Cal" => calBy = number[c]

Prepared(c) == (c = Poll /\ want # None) \/ calNumber[c] # None

\* What the first command of an operation was for is still so at the second.
StillPrepared(c) ==
  step[c] # "idle" /\ Current(c) = "R" /\ trouble[c] = {} /\ Prepared(c) =>
    /\ c = Poll /\ want # None => temp = want
    /\ calNumber[c] # None => calBy = calNumber[c]
    /\ step[c] = "write" => asked.n = None
    /\ step[c] = "read" /\ answer.n # None /\ c = Poll /\ want # None => answer.t = want

PollNeverCalibrates == calNumber[Poll] = None

\* A reading is reported at the end only.
NothingYet(c) == step[c] # "idle" => taken[c].status # "success"

CallerInv(c) == OnlyMine(c) /\ StillPrepared(c) /\ ReadingIsOwn(c) /\ NothingYet(c)

BusInv ==
  /\ ProbeTypeOK /\ CallerTypeOK /\ PollNeverCalibrates
  /\ \A c \in Callers : CallerInv(c)

-----------------------------------------------------------------------------
LEMMA InitBus == Init => BusInv
<1> SUFFICES ASSUME Init PROVE BusInv
  OBVIOUS
<1> USE DEF Init
<1>1. ProbeTypeOK
  BY DEF ProbeTypeOK, NoCommand, NoAnswer, Commands, Kinds
<1>2. CallerTypeOK
  BY DEF CallerTypeOK
<1>3. PollNeverCalibrates
  BY DEF PollNeverCalibrates, Callers
<1>4. \A c \in Callers : CallerInv(c)
  BY DEF CallerInv, OnlyMine, StillPrepared, ReadingIsOwn, NothingYet, Nothing
<1> QED
  BY <1>1, <1>2, <1>3, <1>4 DEF BusInv

\* The command under way, and what is left behind it.
LEMMA LeftInOrder ==
  ASSUME NEW c \in Callers, todo[c] \in Left(c)
  PROVE  /\ Current(c) \in Commands
         /\ Len(todo[c]) = 1 <=> Current(c) \in {"R", "i"}
         /\ Len(todo[c]) # 1 => Tail(todo[c]) = <<"R">>
         /\ Current(c) = "T" => c = Poll
         /\ Current(c) = "Cal" => c # Poll
<1> USE DEF Current, Commands
<1>1. CASE todo[c] = <<"R">>
  <2>1. Head(todo[c]) = "R" /\ Len(todo[c]) = 1
    BY <1>1
  <2> QED
    BY <2>1
<1>2. CASE todo[c] = <<"i">>
  <2>1. Head(todo[c]) = "i" /\ Len(todo[c]) = 1
    BY <1>2
  <2> QED
    BY <2>1
<1>3. CASE todo[c] = <<"T", "R">> /\ c = Poll
  BY <1>3
<1>4. CASE todo[c] = <<"Cal", "R">> /\ c # Poll
  BY <1>4
<1> QED
  BY <1>1, <1>2, <1>3, <1>4 DEF Left

\* An operation ends with its last command or with a calibration that failed.
LEMMA FinishEndsOrGoesOn ==
  ASSUME CallerTypeOK, NEW c \in Callers, step[c] # "idle", NEW status, NEW a, Finish(c, status, a)
  PROVE  \/ /\ step' = [step EXCEPT ![c] = "idle"] /\ todo' = [todo EXCEPT ![c] = <<>>]
            /\ Current(c) \in {"R", "i"} \/ status # "success"
            /\ \/ Current(c) = "i" /\ taken' = taken
               \/ Current(c) # "i" /\ taken' = [taken EXCEPT ![c] = Outcome(c, status, a)]
         \/ /\ step' = [step EXCEPT ![c] = "write"] /\ todo' = [todo EXCEPT ![c] = <<"R">>]
            /\ Current(c) \in {"T", "Cal"} /\ taken' = taken
  BY LeftInOrder DEF Finish, StopsAfter, CallerTypeOK, Commands

\* What a caller does not do it does not disturb, but by writing.
LEMMA OthersKeep ==
  ASSUME BusInv, NEW d \in Callers,
         UNCHANGED <<step[d], todo[d], number[d], trouble[d], calNumber[d], taken[d], temp, calBy>>,
         want' = want \/ d # Poll,
         asked' = asked \/ asked'.n = None,
         answer' = answer \/ answer'.n = None
  PROVE  CallerInv(d)'
<1> USE DEF BusInv
<1>1. CallerInv(d) /\ Current(d)' = Current(d) /\ (step[d] # "idle" => (Current(d) = "T" => d = Poll))
  BY LeftInOrder DEF Current, CallerTypeOK
<1>2. OnlyMine(d)'
  BY <1>1 DEF CallerInv, OnlyMine, Alone
<1>3. StillPrepared(d)'
  BY <1>1 DEF CallerInv, StillPrepared, Prepared
<1>4. ReadingIsOwn(d)' /\ NothingYet(d)'
  BY <1>1 DEF CallerInv, ReadingIsOwn, NothingYet
<1> QED
  BY <1>2, <1>3, <1>4 DEF CallerInv

-----------------------------------------------------------------------------
\* An operation begins with nothing reported and nothing prepared.
LEMMA BeginKeepsInv ==
  ASSUME BusInv, NEW c \in Callers, NEW commands \in Seq(Commands), Begin(c, commands),
         want' = want \/ c = Poll,
         commands \in IF c = Poll THEN {<<"R">>, <<"T", "R">>} ELSE {<<"R">>, <<"Cal", "R">>, <<"i">>},
         Head(commands) = "R" /\ c = Poll => want' = None,
         want' \in Temps \cup {None}
  PROVE  BusInv'
<1> USE DEF BusInv, Begin, probeVars
<1>1. ProbeTypeOK'
  BY DEF ProbeTypeOK
<1>2. CallerTypeOK'
  <2>1. /\ issued' \in Nat /\ DOMAIN taken' = Callers
        /\ step' \in [Callers -> {"idle", "write", "read"}]
        /\ todo' \in [Callers -> Seq(Commands)]
        /\ number' \in [Callers -> Nat \cup {None}]
        /\ calNumber' \in [Callers -> Nat \cup {None}]
        /\ trouble' \in [Callers -> SUBSET Troubles]
    BY DEF CallerTypeOK
  <2>2. \A d \in Callers : step'[d] # "idle" => todo'[d] \in Left(d)
    BY DEF CallerTypeOK, Left
  <2> QED
    BY <2>1, <2>2 DEF CallerTypeOK
<1>3. PollNeverCalibrates'
  BY DEF PollNeverCalibrates, CallerTypeOK, Callers
<1>4. CallerInv(c)'
  <2>1. /\ step'[c] = "write" /\ todo'[c] = commands /\ calNumber'[c] = None
        /\ taken'[c] = Nothing
    BY DEF CallerTypeOK
  <2>2. OnlyMine(c)' /\ ReadingIsOwn(c)' /\ NothingYet(c)'
    BY <2>1 DEF OnlyMine, ReadingIsOwn, NothingYet, Nothing
  <2>3. StillPrepared(c)'
    BY <2>1 DEF StillPrepared, Prepared, Current
  <2> QED
    BY <2>2, <2>3 DEF CallerInv
<1>5. ASSUME NEW d \in Callers, d # c PROVE CallerInv(d)'
  <2>1. UNCHANGED <<step[d], todo[d], number[d], trouble[d], calNumber[d], taken[d]>>
    BY <1>5 DEF CallerTypeOK
  <2> QED
    BY <1>5, <2>1, OthersKeep
<1> QED
  BY <1>1, <1>2, <1>3, <1>4, <1>5

LEMMA OperationsKeepInv ==
  ASSUME BusInv,
         \/ PollReads
         \/ \E t \in Temps : PollReadsCompensated(t)
         \/ \E c \in Clients : Calibrate(c) \/ InstantReading(c) \/ DeepScan(c)
  PROVE  BusInv'
<1>1. /\ <<"R">> \in Seq(Commands) /\ <<"T", "R">> \in Seq(Commands)
      /\ <<"Cal", "R">> \in Seq(Commands) /\ <<"i">> \in Seq(Commands)
  BY DEF Commands
<1>2. Head(<<"R">>) = "R" /\ Head(<<"T", "R">>) = "T"
  OBVIOUS
<1>3. CASE PollReads
  BY <1>1, <1>2, <1>3, BeginKeepsInv DEF PollReads, Callers
<1>4. CASE \E t \in Temps : PollReadsCompensated(t)
  BY <1>1, <1>2, <1>4, BeginKeepsInv DEF PollReadsCompensated, Callers
<1>5. ASSUME NEW c \in Clients, Calibrate(c) \/ InstantReading(c) \/ DeepScan(c)
      PROVE  BusInv'
  <2>1. c # Poll /\ c \in Callers
    BY DEF Callers
  <2>2. want \in Temps \cup {None}
    BY DEF BusInv, ProbeTypeOK
  <2> QED
    BY <1>1, <1>5, <2>1, <2>2, BeginKeepsInv DEF Calibrate, InstantReading, DeepScan
<1> QED
  BY <1>3, <1>4, <1>5

\* A command written is the only one, and whoever else waits has been overtaken.
LEMMA WriteKeepsInv == ASSUME BusInv, NEW c \in Callers, Write(c) PROVE BusInv'
<1> USE DEF BusInv, Write
<1>1. /\ todo[c] \in Left(c) /\ Current(c) \in Commands
      /\ Current(c) = "T" => c = Poll
      /\ Current(c) = "Cal" => c # Poll
  BY LeftInOrder DEF CallerTypeOK
<1>2. asked'.n = issued' /\ asked'.cmd = Current(c) /\ (Current(c) = "T" => asked'.t = want)
  OBVIOUS
<1>3. answer' = NoAnswer /\ answer'.n = None /\ issued' \in Nat
  BY DEF NoAnswer, CallerTypeOK
<1>4. ProbeTypeOK'
  BY <1>1, <1>3 DEF ProbeTypeOK, NoAnswer, Kinds
<1>5. CallerTypeOK'
  <2>1. /\ step' \in [Callers -> {"idle", "write", "read"}]
        /\ number' \in [Callers -> Nat \cup {None}]
        /\ calNumber' \in [Callers -> Nat \cup {None}]
    BY <1>3 DEF CallerTypeOK
  <2>2. trouble' \in [Callers -> SUBSET Troubles]
    BY DEF CallerTypeOK, Troubles
  <2>3. \A d \in Callers : step'[d] # "idle" => step[d] # "idle"
    BY DEF CallerTypeOK
  <2> QED
    BY <1>3, <2>1, <2>2, <2>3 DEF CallerTypeOK, Left
<1>6. PollNeverCalibrates'
  BY <1>1 DEF PollNeverCalibrates, CallerTypeOK, Callers
<1>7. CallerInv(c)'
  <2>1. /\ step'[c] = "read" /\ Current(c)' = Current(c) /\ number'[c] = issued'
        /\ Current(c) = "Cal" => calNumber'[c] = issued'
        /\ Current(c) # "Cal" => calNumber'[c] = calNumber[c]
        /\ trouble'[c] = trouble[c] /\ taken'[c] = taken[c]
    BY DEF CallerTypeOK, Current, Others
  <2>2. OnlyMine(c)'
    BY <2>1, <1>2, <1>3 DEF OnlyMine
  <2>3. StillPrepared(c)'
    BY <2>1, <1>3 DEF StillPrepared, Prepared, CallerInv
  <2>4. ReadingIsOwn(c)' /\ NothingYet(c)'
    BY <2>1 DEF ReadingIsOwn, NothingYet, CallerInv
  <2> QED
    BY <2>2, <2>3, <2>4 DEF CallerInv
<1>8. ASSUME NEW d \in Callers, d # c PROVE CallerInv(d)'
  <2>1. UNCHANGED <<step[d], todo[d], number[d], calNumber[d], taken[d]>>
    BY <1>8 DEF CallerTypeOK
  <2>2. CASE step[d] = "idle"
    <3>1. trouble'[d] = trouble[d]
      BY <2>2 DEF Others
    <3> QED
      BY <2>1, <2>2, <3>1 DEF CallerInv, OnlyMine, StillPrepared, ReadingIsOwn, NothingYet
  <2>3. CASE step[d] # "idle"
    <3>1. "overlap" \in trouble'[d]
      BY <1>8, <2>3 DEF Others
    <3> QED
      BY <2>1, <2>3, <3>1 DEF CallerInv, OnlyMine, StillPrepared, ReadingIsOwn, NothingYet, Alone
  <2> QED
    BY <2>2, <2>3
<1> QED
  BY <1>4, <1>5, <1>6, <1>7, <1>8

\* A command that fails leaves its mark, and is nobody's reading.
LEMMA FailureKeepsInv ==
  ASSUME BusInv, NEW c \in Callers,
         \/ WriteFails(c)
         \/ OpenFails(c)
         \/ \E status \in Statuses : ReadFails(c, status)
  PROVE  BusInv'
<1> USE DEF BusInv
<1>1. CASE WriteFails(c)
  <2> USE <1>1 DEF WriteFails, probeVars
  <2>1. ProbeTypeOK'
    BY DEF ProbeTypeOK
  <2>2. issued' \in Nat
    BY DEF CallerTypeOK
  <2>3. /\ todo[c] \in Left(c)
        /\ Current(c) = "Cal" => c # Poll
    BY LeftInOrder DEF CallerTypeOK
  <2>4. CallerTypeOK'
    <3>1. \A d \in Callers : step'[d] # "idle" => step[d] # "idle"
      BY DEF CallerTypeOK
    <3>2. trouble' \in [Callers -> SUBSET Troubles]
      BY DEF CallerTypeOK, Troubles
    <3>3. /\ step' \in [Callers -> {"idle", "write", "read"}]
          /\ number' \in [Callers -> Nat \cup {None}]
          /\ calNumber' \in [Callers -> Nat \cup {None}]
      BY <2>2 DEF CallerTypeOK
    <3> QED
      BY <2>2, <3>1, <3>2, <3>3 DEF CallerTypeOK, Left
  <2>5. PollNeverCalibrates'
    BY <2>3 DEF PollNeverCalibrates, CallerTypeOK, Callers
  <2>6. CallerInv(c)'
    <3>1. step'[c] = "read" /\ "lost" \in trouble'[c] /\ taken'[c] = taken[c]
      BY DEF CallerTypeOK
    <3> QED
      BY <3>1 DEF CallerInv, OnlyMine, StillPrepared, ReadingIsOwn, NothingYet, Alone
  <2>7. ASSUME NEW d \in Callers, d # c PROVE CallerInv(d)'
    <3>1. UNCHANGED <<step[d], todo[d], number[d], trouble[d], calNumber[d], taken[d]>>
      BY <2>7 DEF CallerTypeOK
    <3> QED
      BY <3>1, OthersKeep
  <2> QED
    BY <2>1, <2>4, <2>5, <2>6, <2>7
<1>2. ASSUME NEW status \in Statuses, status # "success", step[c] # "idle",
             Finish(c, status, NoAnswer),
             trouble' = [trouble EXCEPT ![c] = @ \cup {"lost"}] \/ trouble' = [trouble EXCEPT ![c] = @ \cup {"failed"}],
             UNCHANGED <<answer, temp, calBy, issued, number, want, calNumber>>,
             asked' = asked \/ asked' = NoCommand
      PROVE  BusInv'
  <2> USE <1>2
  <2>1. ProbeTypeOK'
    BY DEF ProbeTypeOK, NoCommand, Commands
  <2>2. \/ /\ step' = [step EXCEPT ![c] = "idle"] /\ todo' = [todo EXCEPT ![c] = <<>>]
           /\ taken' = taken \/ taken' = [taken EXCEPT ![c] = Outcome(c, status, NoAnswer)]
        \/ /\ step' = [step EXCEPT ![c] = "write"] /\ todo' = [todo EXCEPT ![c] = <<"R">>]
           /\ taken' = taken
    BY FinishEndsOrGoesOn
  <2>3. CallerTypeOK'
    <3>1. trouble' \in [Callers -> SUBSET Troubles]
      <4>1. ASSUME NEW what \in Troubles, trouble' = [trouble EXCEPT ![c] = @ \cup {what}]
            PROVE  trouble' \in [Callers -> SUBSET Troubles]
        BY <4>1 DEF CallerTypeOK
      <4> QED
        BY <4>1 DEF Troubles
    <3>2. <<>> \in Seq(Commands) /\ <<"R">> \in Seq(Commands)
      BY DEF Commands
    <3>3. /\ step' \in [Callers -> {"idle", "write", "read"}]
          /\ todo' \in [Callers -> Seq(Commands)]
          /\ DOMAIN taken' = Callers
      <4>1. ASSUME step' = [step EXCEPT ![c] = "idle"], todo' = [todo EXCEPT ![c] = <<>>]
            PROVE  step' \in [Callers -> {"idle", "write", "read"}] /\ todo' \in [Callers -> Seq(Commands)]
        BY <3>2, <4>1 DEF CallerTypeOK
      <4>2. ASSUME step' = [step EXCEPT ![c] = "write"], todo' = [todo EXCEPT ![c] = <<"R">>]
            PROVE  step' \in [Callers -> {"idle", "write", "read"}] /\ todo' \in [Callers -> Seq(Commands)]
        BY <3>2, <4>2 DEF CallerTypeOK
      <4>3. DOMAIN taken' = Callers
        BY <2>2 DEF CallerTypeOK
      <4> QED
        BY <2>2, <4>1, <4>2, <4>3
    <3>4. \A d \in Callers : step'[d] # "idle" => todo'[d] \in Left(d)
      BY <2>2 DEF CallerTypeOK, Left
    <3> QED
      BY <3>1, <3>3, <3>4 DEF CallerTypeOK
  <2>4. PollNeverCalibrates'
    BY DEF PollNeverCalibrates
  <2>5. CallerInv(c)'
    <3>1. trouble'[c] # {} /\ step'[c] \in {"idle", "write"}
      BY <2>2 DEF CallerTypeOK
    <3>2. taken'[c].status # "success"
      BY <2>2 DEF CallerTypeOK, Outcome, CallerInv, NothingYet
    <3> QED
      BY <3>1, <3>2 DEF CallerInv, OnlyMine, StillPrepared, ReadingIsOwn, NothingYet
  <2>6. ASSUME NEW d \in Callers, d # c PROVE CallerInv(d)'
    <3>1. UNCHANGED <<step[d], todo[d], number[d], trouble[d], calNumber[d], taken[d]>>
      BY <2>2, <2>6 DEF CallerTypeOK
    <3>2. asked' = asked \/ asked'.n = None
      BY DEF NoCommand
    <3> QED
      BY <3>1, <3>2, OthersKeep
  <2> QED
    BY <2>1, <2>3, <2>4, <2>5, <2>6
<1>3. CASE OpenFails(c)
  <2>1. "error" \in Statuses /\ "error" # "success"
    BY DEF Statuses
  <2> QED
    BY <1>2, <1>3, <2>1 DEF OpenFails, probeVars
<1>4. ASSUME NEW status \in Statuses, ReadFails(c, status) PROVE BusInv'
  <2>1. status # "success"
    BY <1>4 DEF ReadFails, Fails
  <2>2. step[c] # "idle" /\ (asked' = asked \/ asked' = NoCommand)
    BY <1>4 DEF ReadFails
  <2> QED
    BY <1>2, <1>4, <2>1, <2>2 DEF ReadFails
<1> QED
  BY <1>1, <1>3, <1>4

\* The probe's answer is made with what it had been told.
LEMMA ProbeKeepsInv == ASSUME BusInv, ProbeWorks PROVE BusInv'
<1> USE DEF BusInv, ProbeWorks
<1>1. asked'.n = None /\ answer'.n = asked.n /\ answer'.kind = KindOf(asked.cmd) /\ answer'.t = temp
  BY DEF NoCommand, KindOf
<1>2. /\ asked.cmd # "Cal" => calBy' = calBy
      /\ asked.cmd # "T" => temp' = temp
      /\ asked.cmd = "Cal" => calBy' = asked.n
      /\ asked.cmd = "T" => temp' = asked.t
  OBVIOUS
<1>3. CallerTypeOK' /\ PollNeverCalibrates'
  BY DEF CallerTypeOK, PollNeverCalibrates, Left
<1>4. ProbeTypeOK'
  <2>1. asked.n \in Nat \cup {None} /\ asked.t \in Temps \cup {None} /\ temp \in Temps \cup {None}
    BY DEF ProbeTypeOK
  <2>2. answer' \in [n : Nat \cup {None}, kind : Kinds, t : Temps \cup {None}]
    BY <2>1 DEF Kinds
  <2>3. asked' \in [n : Nat \cup {None}, cmd : Commands, t : Temps \cup {None}]
    BY DEF NoCommand, Commands
  <2> QED
    BY <1>1, <2>1, <2>2, <2>3 DEF ProbeTypeOK
<1>5. ASSUME NEW c \in Callers PROVE CallerInv(c)'
  <2>1. /\ UNCHANGED <<step[c], todo[c], number[c], trouble[c], calNumber[c], taken[c], want>>
        /\ Current(c)' = Current(c)
    BY DEF Current
  <2>2. CallerInv(c)
    OBVIOUS
  <2>3. OnlyMine(c)'
    BY <1>1, <1>2, <2>1, <2>2 DEF CallerInv, OnlyMine, Alone
  <2>4. StillPrepared(c)'
    <3> SUFFICES ASSUME step[c] # "idle", Current(c) = "R", trouble[c] = {}, Prepared(c)
                 PROVE  /\ c = Poll /\ want # None => temp' = want
                        /\ calNumber[c] # None => calBy' = calNumber[c]
                        /\ c = Poll /\ want # None => answer'.t = want
      BY <1>1, <2>1 DEF StillPrepared, Prepared
    <3>1. step[c] = "read"
      BY <2>2 DEF CallerInv, StillPrepared, CallerTypeOK
    <3>2. asked.cmd = "R"
      BY <2>2, <3>1 DEF CallerInv, OnlyMine, Alone
    <3> QED
      BY <1>1, <1>2, <2>2, <3>2 DEF CallerInv, StillPrepared
  <2>5. ReadingIsOwn(c)' /\ NothingYet(c)'
    BY <2>1, <2>2 DEF CallerInv, ReadingIsOwn, NothingYet
  <2> QED
    BY <2>3, <2>4, <2>5 DEF CallerInv
<1> QED
  BY <1>3, <1>4, <1>5

\* Whoever reads alone takes the answer to its own command.
LEMMA AnswerKeepsInv ==
  ASSUME BusInv, NEW c \in Callers, NEW kept \in BOOLEAN, ReadAnswer(c, kept) PROVE BusInv'
<1> USE DEF BusInv
<1>1. /\ step[c] = "read" /\ answer.n # None /\ asked.n = None
      /\ UNCHANGED <<asked, temp, calBy, issued, number, want, calNumber, trouble>>
      /\ Finish(c, "success", answer)
  BY DEF ReadAnswer, ProbeTypeOK
<1>2. answer' = answer \/ answer' = NoAnswer
  BY DEF ReadAnswer
<1>3. /\ todo[c] \in Left(c)
      /\ Current(c) = "T" => c = Poll
      /\ Current(c) = "Cal" => c # Poll
  BY <1>1, LeftInOrder DEF CallerTypeOK
<1>4. ProbeTypeOK'
  BY <1>1, <1>2 DEF ProbeTypeOK, NoAnswer, Kinds
<1>5. PollNeverCalibrates'
  BY <1>1 DEF PollNeverCalibrates
<1>6. /\ <<>> \in Seq(Commands) /\ <<"R">> \in Seq(Commands)
      /\ Head(<<"R">>) = "R"
  BY DEF Commands
<1>7. CallerInv(c) /\ (trouble[c] = {} => Alone(c))
  BY DEF Alone
<1>8. \/ /\ step' = [step EXCEPT ![c] = "idle"] /\ todo' = [todo EXCEPT ![c] = <<>>]
          /\ \/ Current(c) = "i" /\ taken' = taken
             \/ Current(c) = "R" /\ taken' = [taken EXCEPT ![c] = Outcome(c, "success", answer)]
       \/ /\ step' = [step EXCEPT ![c] = "write"] /\ todo' = [todo EXCEPT ![c] = <<"R">>]
          /\ Current(c) \in {"T", "Cal"} /\ taken' = taken
  <2>1. step[c] # "idle" /\ CallerTypeOK
    BY <1>1
  <2> QED
    BY <1>1, <2>1, FinishEndsOrGoesOn, Zenon
<1>9. ASSUME NEW d \in Callers, d # c PROVE CallerInv(d)'
  <2>1. UNCHANGED <<step[d], todo[d], taken[d]>>
    BY <1>9, <1>8 DEF CallerTypeOK
  <2>2. answer' = answer \/ answer'.n = None
    BY <1>2 DEF NoAnswer
  <2> QED
    BY <1>1, <2>1, <2>2, OthersKeep
<1>10. ASSUME step' = [step EXCEPT ![c] = "idle"], todo' = [todo EXCEPT ![c] = <<>>],
             \/ Current(c) = "i" /\ taken' = taken
             \/ Current(c) = "R" /\ taken' = [taken EXCEPT ![c] = Outcome(c, "success", answer)]
      PROVE  CallerTypeOK' /\ CallerInv(c)'
  <2>1. step'[c] = "idle"
    BY <1>10 DEF CallerTypeOK
  <2>2. CallerTypeOK'
    BY <1>1, <1>6, <1>10 DEF CallerTypeOK, Left
  <2>3. OnlyMine(c)' /\ StillPrepared(c)' /\ NothingYet(c)'
    BY <2>1 DEF OnlyMine, StillPrepared, NothingYet
  <2>4. ReadingIsOwn(c)'
    <3>1. CASE taken' = taken
      BY <1>1, <1>7, <3>1 DEF CallerInv, NothingYet, ReadingIsOwn
    <3>2. CASE Current(c) = "R" /\ taken' = [taken EXCEPT ![c] = Outcome(c, "success", answer)]
      <4>1. Alone(c) => answer.n = number[c] /\ answer.kind = "value"
        BY <1>1, <1>7, <3>2 DEF CallerInv, OnlyMine, KindOf
      <4>2. trouble[c] = {} /\ c = Poll /\ want # None => answer.t = want
        BY <1>1, <1>7, <3>2 DEF CallerInv, StillPrepared, Prepared
      <4>3. trouble[c] = {} /\ calNumber[c] # None => calBy = calNumber[c]
        BY <1>1, <1>7, <3>2 DEF CallerInv, StillPrepared, Prepared
      <4>4. taken'[c] = Outcome(c, "success", answer)
        BY <3>2 DEF CallerTypeOK
      <4>5. /\ taken'[c].own = (answer.n = number[c])
            /\ taken'[c].kind = answer.kind
            /\ taken'[c].compensated = (c # Poll \/ want = None \/ answer.t = want)
            /\ taken'[c].calibrated = (calNumber[c] = None \/ calBy = calNumber[c])
        BY <4>4 DEF Outcome
      <4> QED
        BY <1>1, <1>7, <4>1, <4>2, <4>3, <4>5 DEF ReadingIsOwn, Alone
    <3> QED
      BY <1>10, <3>1, <3>2
  <2> QED
    BY <2>2, <2>3, <2>4 DEF CallerInv
<1>11. ASSUME step' = [step EXCEPT ![c] = "write"], todo' = [todo EXCEPT ![c] = <<"R">>],
              Current(c) \in {"T", "Cal"}, taken' = taken
       PROVE  CallerTypeOK' /\ CallerInv(c)'
  <2>1. step'[c] = "write" /\ Current(c)' = "R" /\ todo'[c] = <<"R">>
    BY <1>6, <1>11 DEF CallerTypeOK, Current
  <2>2. CallerTypeOK'
    BY <1>1, <1>6, <1>11 DEF CallerTypeOK, Left
  <2>3. OnlyMine(c)' /\ ReadingIsOwn(c)'
    BY <2>1 DEF OnlyMine, ReadingIsOwn
  <2>4. NothingYet(c)'
    BY <1>1, <1>7, <1>11 DEF CallerInv, NothingYet
  <2>5. Alone(c) => /\ answer.n = number[c]
                    /\ Current(c) = "T" => temp = want
                    /\ Current(c) = "Cal" => calBy = number[c] /\ calNumber[c] = number[c]
    BY <1>1, <1>7 DEF CallerInv, OnlyMine
  <2>6. Current(c) = "T" => calNumber[c] = None
    BY <1>3 DEF PollNeverCalibrates
  <2>7. StillPrepared(c)'
    <3> SUFFICES ASSUME trouble[c] = {}
                 PROVE  /\ c = Poll /\ want # None => temp = want
                        /\ calNumber[c] # None => calBy = calNumber[c]
      BY <1>1, <2>1 DEF StillPrepared
    <3>1. CASE Current(c) = "T"
      BY <1>7, <2>5, <2>6, <3>1
    <3>2. CASE Current(c) = "Cal"
      BY <1>3, <1>7, <2>5, <3>2
    <3> QED
      BY <1>11, <3>1, <3>2
  <2> QED
    BY <2>2, <2>3, <2>4, <2>7 DEF CallerInv
<1>12. CallerTypeOK' /\ CallerInv(c)'
  BY <1>10, <1>11, <1>8
<1> QED
  BY <1>4, <1>5, <1>9, <1>12

LEMMA StutterKeepsInv == ASSUME BusInv, UNCHANGED vars PROVE BusInv'
<1> USE DEF BusInv, vars, probeVars
<1>1. ProbeTypeOK' /\ CallerTypeOK' /\ PollNeverCalibrates'
  BY DEF ProbeTypeOK, CallerTypeOK, PollNeverCalibrates, Left
<1>2. ASSUME NEW c \in Callers PROVE CallerInv(c)'
  BY OthersKeep
<1> QED
  BY <1>1, <1>2

LEMMA BusInvariant == Spec => []BusInv
<1>1. ASSUME BusInv, [Next]_vars PROVE BusInv'
  <2>1. CASE Next
    BY <1>1, <2>1, OperationsKeepInv, WriteKeepsInv, FailureKeepsInv, AnswerKeepsInv, ProbeKeepsInv
    DEF Next
  <2>2. CASE UNCHANGED vars
    BY <1>1, <2>2, StutterKeepsInv
  <2> QED
    BY <1>1, <2>1, <2>2
<1> QED
  BY InitBus, <1>1, PTL DEF Spec

(***************************************************************************)
(* With any number of clients, temperatures and commands, a reading that   *)
(* ezo_read() reports as good answers its caller's own command, unless the *)
(* command was lost or another caller wrote meanwhile; if nothing at all   *)
(* went wrong it is compensated as asked, and a confirmed calibration is   *)
(* in force.                                                               *)
(***************************************************************************)
THEOREM ReadingsAlwaysOwn == Spec => []ReadingsAreOwn
<1>1. BusInv => ReadingsAreOwn
  BY DEF BusInv, CallerInv, ReadingsAreOwn
<1> QED
  BY BusInvariant, <1>1, PTL
-----------------------------------------------------------------------------
(***************************************************************************)
(* The drivers.                                                            *)
(***************************************************************************)
LEMMA PteReports == ASSUME NEW s \in PteSamples PROVE PteIsTrue(s)
<1>1. SensorInit("PTE7300", s.responds).hasSpan = TRUE
  BY DEF SensorInit
<1>2. CASE s.p = Fail \/ s.t = Fail
  BY <1>2 DEF PteIsTrue, PteReading, Taken, Failed, Reading
<1>3. CASE ~(s.p = Fail \/ s.t = Fail) /\ ~s.known
  BY <1>3 DEF PteIsTrue, PteReading, Taken, Failed, Reading
<1>4. CASE ~(s.p = Fail \/ s.t = Fail) /\ s.known
  <2>1. s.p # Fail /\ s.t # Fail
    BY <1>4, Zenon
  <2>2. PteReading(s.p, s.t, s.known, TRUE) = Reading("success", Scaled(s.p, TRUE))
    BY <1>4, <2>1, Zenon DEF PteReading
  <2>3. Scaled(s.p, TRUE) = Measured(s.p)
    BY DEF Scaled
  <2> QED
    <3>1. PteReading(s.p, s.t, s.known, SensorInit("PTE7300", s.responds).hasSpan) = Reading("success", Measured(s.p))
      BY <1>1, <2>2, <2>3, Zenon
    <3>2. Reading("success", Measured(s.p)).value = Measured(s.p)
      BY DEF Reading
    <3> QED
      BY <3>1, <3>2, Zenon DEF PteIsTrue
<1> QED
  BY <1>2, <1>3, <1>4

LEMMA HscReports == ASSUME NEW s \in HscSamples PROVE HscIsTrue(s)
BY DEF HscSamples, HscIsTrue, HscReading, SensorInit, Scaled, Taken, Failed, Reading

LEMMA W1Reports == ASSUME NEW s \in W1Samples PROVE W1IsTrue(s)
BY DEF W1IsTrue, W1Reading, Taken, Failed, Reading

\* The pattern that stays compiled is that of the last sensor to have one.
LEMMA LastPatternIsMine ==
  ASSUME NEW patterns \in [1..2 -> {1, 2, Fail}], NEW i \in 1..2, patterns[i] # Fail,
         \A j \in 1..2 : j > i => patterns[j] = Fail
  PROVE  LastPattern(patterns) = patterns[i]
<1> DEFINE has == {j \in 1..Len(patterns) : patterns[j] # Fail}
<1>1. Len(patterns) = 2
  OBVIOUS
<1>2. i \in has /\ \A j \in has : j <= i
  BY <1>1
<1>3. (CHOOSE k \in has : \A j \in has : j <= k) = i
  BY <1>1, <1>2
<1> QED
  BY <1>2, <1>3 DEF LastPattern

LEMMA SysfsReports == ASSUME NEW s \in SysfsSamples PROVE SysfsIsTrue(s)
<1>1. /\ s.patterns \in [1..2 -> {1, 2, Fail}] /\ s.i \in 1..2
      /\ s.line \in Raws \cup {Fail, NoNumber} /\ s.found \in [{1, 2} -> Raws \cup {Fail, NoNumber}]
  BY DEF SysfsSamples, Texts, MaybeRaws
<1>2. CASE s.patterns[s.i] = Fail
  BY <1>1, <1>2 DEF SysfsIsTrue, SysfsReading, Taken, Failed, Reading
<1>3. CASE s.patterns[s.i] # Fail /\ \A j \in 1..2 : j > s.i => s.patterns[j] = Fail
  <2>1. LastPattern(s.patterns) = s.patterns[s.i]
    BY <1>1, <1>3, LastPatternIsMine
  <2>2. s.patterns[s.i] \in {1, 2}
    BY <1>1, <1>3
  <2> QED
    BY <1>1, <1>3, <2>1, <2>2 DEF SysfsIsTrue, SysfsReading, Captured, Taken, Failed, Reading
<1>4. CASE s.patterns[s.i] # Fail /\ ~(\A j \in 1..2 : j > s.i => s.patterns[j] = Fail)
  BY <1>4 DEF SysfsIsTrue
<1> QED
  BY <1>2, <1>3, <1>4

LEMMA NearestReference == ASSUME NEW ph \in 0..140 PROVE CalibrationIsNearest(ph)
BY DEF CalibrationIsNearest, CalibrationPoint, Distance

LEMMA SamplesReport == ASSUME sample \in Samples \cup {NoSample} PROVE DriversReportWhatTheyRead
<1>1. CASE sample \in PteSamples
  <2>1. sample.driver = "PTE7300"
    BY <1>1 DEF PteSamples
  <2> QED
    BY <1>1, <2>1, PteReports DEF DriversReportWhatTheyRead
<1>2. CASE sample \in HscSamples
  <2>1. sample.driver = "HSC"
    BY <1>2 DEF HscSamples
  <2> QED
    BY <1>2, <2>1, HscReports DEF DriversReportWhatTheyRead
<1>3. CASE sample \in W1Samples
  <2>1. sample.driver = "w1"
    BY <1>3 DEF W1Samples
  <2> QED
    BY <1>3, <2>1, W1Reports DEF DriversReportWhatTheyRead
<1>4. CASE sample \in SysfsSamples
  <2>1. sample.driver = "sysfs"
    BY <1>4 DEF SysfsSamples
  <2> QED
    BY <1>4, <2>1, SysfsReports DEF DriversReportWhatTheyRead
<1>5. CASE sample \in CalibrationSamples
  <2>1. sample.driver = "calibrate" /\ sample.ph \in 0..140
    BY <1>5 DEF CalibrationSamples
  <2> QED
    BY <2>1, NearestReference DEF DriversReportWhatTheyRead
<1>6. CASE sample = NoSample
  BY <1>6 DEF NoSample, DriversReportWhatTheyRead
<1> QED
  BY <1>1, <1>2, <1>3, <1>4, <1>5, <1>6 DEF Samples

(***************************************************************************)
(* For any raw data, what the main loop takes from a driver of i2c.c,      *)
(* 1wire.c or sysfs.c was measured by that sensor, but for the three ways  *)
(* that DriversReportWhatTheyRead names (a status word that is not known,  *)
(* a match that captures no number, another sensor's pattern), and a pH    *)
(* probe is calibrated at the reference nearest to what it reads.          *)
(***************************************************************************)
THEOREM DriversAlwaysReportWhatTheyRead == MCSpec => []DriversReportWhatTheyRead
<1>1. MCInit => sample \in Samples \cup {NoSample}
  BY DEF MCInit
<1>2. sample \in Samples \cup {NoSample} /\ [MCNext]_<<vars, sample>> => (sample \in Samples \cup {NoSample})'
  BY DEF MCNext
<1> QED
  BY <1>1, <1>2, SamplesReport, PTL DEF MCSpec
=============================================================================
