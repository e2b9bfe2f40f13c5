------------------------------ MODULE ProbeBus ------------------------------
(***************************************************************************)
(* An EZO probe and those who talk to it (source/ezo.c).  A command is     *)
(* written, the caller sleeps for the time such a command takes, and reads *)
(* what the probe has to say then: its answer, "pending", "no data" or an  *)
(* error.  Nothing keeps two callers apart: the main loop polls the probe, *)
(* and clients (the network thread, or a command line in a process of its  *)
(* own) calibrate it, take an instant reading or scan the bus.             *)
(*                                                                         *)
(* Probes have addresses of their own and the kernel serves one transfer   *)
(* at a time, so one probe is modelled.  A number it measured stands for   *)
(* itself; what counts is whose question it answers and for which          *)
(* temperature.  MaxCommands bounds the commands of a behaviour.           *)
(***************************************************************************)
EXTENDS Naturals, Sequences

CONSTANTS Poll, Clients, None, Temps, MaxCommands

Callers == Clients \cup {Poll}

ASSUME BusAssumption ==
  /\ Poll \notin Clients
  /\ None \notin Nat /\ None \notin Temps
  /\ MaxCommands \in Nat

Commands == {"R", "T", "Cal", "i"}
Numbers == 1..MaxCommands
Statuses == {"success", "pending", "no_data", "syntax_err", "error"}
Kinds == {"value", "text", "empty"}
Troubles == {"lost", "overlap", "failed"}

VARIABLES
  asked,     \* the command the probe works on: its number, kind and temperature
  answer,    \* what a read will be answered with: whose, what, and made how
  temp,      \* the temperature the probe compensates for
  calBy,     \* the calibration in force: the number of its command
  issued,    \* how many commands were begun
  todo,      \* what each caller has to do, the command under way first
  step,      \* where it is with that command
  number,    \* the number of that command
  want,      \* the temperature the poll reads for, None without compensation
  calNumber, \* the number of the calibration a client began with, if any
  trouble,   \* history: what befell the caller's commands since it began
  taken      \* the outcome of each caller's last operation

probeVars == <<asked, answer, temp, calBy>>
vars == <<asked, answer, temp, calBy, issued, todo, step, number, want, calNumber, trouble, taken>>

NoCommand == [n |-> None, cmd |-> "i", t |-> None]
NoAnswer == [n |-> None, kind |-> "empty", t |-> None]
Nothing == [status |-> "error", n |-> None, kind |-> "empty", own |-> FALSE, compensated |-> FALSE, calibrated |-> FALSE]

TypeOK ==
  /\ asked \in [n : Numbers \cup {None}, cmd : Commands, t : Temps \cup {None}]
  /\ answer \in [n : Numbers \cup {None}, kind : Kinds, t : Temps \cup {None}]
  /\ temp \in Temps \cup {None}
  /\ calBy \in Numbers \cup {None}
  /\ issued \in 0..MaxCommands
  /\ todo \in [Callers -> Seq(Commands)]
  /\ step \in [Callers -> {"idle", "write", "read"}]
  /\ number \in [Callers -> Numbers \cup {None}]
  /\ want \in Temps \cup {None}
  /\ calNumber \in [Callers -> Numbers \cup {None}]
  /\ trouble \in [Callers -> SUBSET Troubles]
  /\ taken \in [Callers -> [status : Statuses, n : Numbers \cup {None}, kind : Kinds,
                            own : BOOLEAN, compensated : BOOLEAN, calibrated : BOOLEAN]]

Init ==
  /\ asked = NoCommand /\ answer = NoAnswer /\ temp = None /\ calBy = None
  /\ issued = 0
  /\ todo = [c \in Callers |-> <<>>] /\ step = [c \in Callers |-> "idle"]
  /\ number = [c \in Callers |-> None]
  /\ want = None /\ calNumber = [c \in Callers |-> None]
  /\ trouble = [c \in Callers |-> {}]
  /\ taken = [c \in Callers |-> Nothing]
-----------------------------------------------------------------------------
(***************************************************************************)
(* The operations, as the commands they send one after the other.          *)
(***************************************************************************)
Begin(c, commands) ==
  /\ step[c] = "idle"
  /\ todo' = [todo EXCEPT ![c] = commands]
  /\ step' = [step EXCEPT ![c] = "write"]
  /\ trouble' = [trouble EXCEPT ![c] = {}]
  /\ calNumber' = [calNumber EXCEPT ![c] = None]
  /\ taken' = [taken EXCEPT ![c] = Nothing]
  /\ UNCHANGED <<probeVars, issued, number>>

\* ph_get_reading(), orp_get_reading(), rtd_get_reading(), prs_get_reading() in the main loop.
PollReads == Begin(Poll, <<"R">>) /\ want' = None

\* ph_get_reading_compensated()
PollReadsCompensated(t) == Begin(Poll, <<"T", "R">>) /\ want' = t

\* process_sensor_request()
Calibrate(c) == Begin(c, <<"Cal", "R">>) /\ UNCHANGED want
InstantReading(c) == Begin(c, <<"R">>) /\ UNCHANGED want

\* ezo_query_device_type(), of a deep scan.
DeepScan(c) == Begin(c, <<"i">>) /\ UNCHANGED want
-----------------------------------------------------------------------------
(***************************************************************************)
(* ezo_command(): ezo_open(), ezo_send_cmd() whose result is not looked    *)
(* at, ezo_read().  A new command takes the place of the one the probe     *)
(* works on and of an answer nobody has read.                              *)
(***************************************************************************)
Current(c) == Head(todo[c])

Others(c) == {d \in Callers \ {c} : step[d] # "idle"}

Write(c) ==
  /\ step[c] = "write" /\ issued < MaxCommands
  /\ issued' = issued + 1
  /\ number' = [number EXCEPT ![c] = issued']
  /\ step' = [step EXCEPT ![c] = "read"]
  /\ asked' = [n |-> issued', cmd |-> Current(c), t |-> IF Current(c) = "T" THEN want ELSE None]
  /\ answer' = NoAnswer
  /\ trouble' = [d \in Callers |-> IF d \in Others(c) THEN trouble[d] \cup {"overlap"} ELSE trouble[d]]
  /\ calNumber' = IF Current(c) = "Cal" THEN [calNumber EXCEPT ![c] = issued'] ELSE calNumber
  /\ UNCHANGED <<temp, calBy, todo, want, taken>>

WriteFails(c) ==
  /\ step[c] = "write" /\ issued < MaxCommands
  /\ issued' = issued + 1
  /\ number' = [number EXCEPT ![c] = issued']
  /\ step' = [step EXCEPT ![c] = "read"]
  /\ trouble' = [trouble EXCEPT ![c] = @ \cup {"lost"}]
  /\ calNumber' = IF Current(c) = "Cal" THEN [calNumber EXCEPT ![c] = issued'] ELSE calNumber
  /\ UNCHANGED <<probeVars, todo, want, taken>>

(***************************************************************************)
(* The probe (external): it carries a command out in its own time, and has *)
(* an answer then.  It may not know the command.                           *)
(***************************************************************************)
ProbeWorks ==
  /\ asked.n # None
  /\ asked' = NoCommand
  /\ temp' = IF asked.cmd = "T" THEN asked.t ELSE temp
  /\ calBy' = IF asked.cmd = "Cal" THEN asked.n ELSE calBy
  /\ answer' = [n |-> asked.n,
                kind |-> CASE asked.cmd = "R" -> "value" [] asked.cmd = "i" -> "text" [] OTHER -> "empty",
                t |-> temp]
  /\ UNCHANGED <<issued, todo, step, number, want, calNumber, trouble, taken>>

(***************************************************************************)
(* What comes of a command.  A client's calibration that did not succeed   *)
(* is reported and nothing is read; the answer to a compensation does not  *)
(* matter; what succeeds as a reading is converted to a number whatever it *)
(* says.                                                                   *)
(***************************************************************************)
Outcome(c, status, a) ==
  [status |-> status, n |-> a.n, kind |-> a.kind,
   own |-> a.n = number[c],
   compensated |-> c # Poll \/ want = None \/ a.t = want,
   calibrated |-> calNumber[c] = None \/ calBy = calNumber[c]]

StopsAfter(c, status) == Len(todo[c]) = 1 \/ (Current(c) = "Cal" /\ status # "success")

Finish(c, status, a) ==
  IF StopsAfter(c, status)
  THEN /\ todo' = [todo EXCEPT ![c] = <<>>] /\ step' = [step EXCEPT ![c] = "idle"]
       /\ taken' = IF Current(c) = "i" THEN taken ELSE [taken EXCEPT ![c] = Outcome(c, status, a)]
  ELSE /\ todo' = [todo EXCEPT ![c] = Tail(@)] /\ step' = [step EXCEPT ![c] = "write"]
       /\ UNCHANGED taken

OpenFails(c) ==
  /\ step[c] = "write"
  /\ Finish(c, "error", NoAnswer)
  /\ trouble' = [trouble EXCEPT ![c] = @ \cup {"lost"}]
  /\ UNCHANGED <<probeVars, issued, number, want, calNumber>>

\* Mutation: the first byte of an answer is not looked at.
ReadAnyAnswer(c, kept) ==
  /\ step[c] = "read"
  /\ answer' = IF kept THEN answer ELSE NoAnswer
  /\ Finish(c, "success", answer)
  /\ UNCHANGED <<asked, temp, calBy, issued, number, want, calNumber, trouble>>

\* The probe may keep its answer or not.
ReadAnswer(c, kept) ==
  /\ step[c] = "read" /\ answer.n # None
  /\ answer' = IF kept THEN answer ELSE NoAnswer
  /\ Finish(c, "success", answer)
  /\ UNCHANGED <<asked, temp, calBy, issued, number, want, calNumber, trouble>>

Fails(status) ==
  CASE status = "pending"    -> asked.n # None
    [] status = "syntax_err" -> asked.n # None
    [] status = "no_data"    -> asked.n = None /\ answer.n = None
    [] status = "error"      -> TRUE
    [] OTHER                 -> FALSE

\* A command the probe does not know is gone.
ReadFails(c, status) ==
  /\ step[c] = "read" /\ Fails(status)
  /\ Finish(c, status, NoAnswer)
  /\ trouble' = [trouble EXCEPT ![c] = @ \cup {"failed"}]
  /\ asked' = IF status = "syntax_err" THEN NoCommand ELSE asked
  /\ UNCHANGED <<answer, temp, calBy, issued, number, want, calNumber>>
-----------------------------------------------------------------------------
Next ==
  \/ PollReads
  \/ \E t \in Temps : PollReadsCompensated(t)
  \/ \E c \in Clients : Calibrate(c) \/ InstantReading(c) \/ DeepScan(c)
  \/ \E c \in Callers : Write(c) \/ WriteFails(c) \/ OpenFails(c)
  \/ \E c \in Callers, kept \in BOOLEAN : ReadAnswer(c, kept)
  \/ \E c \in Callers, status \in Statuses : ReadFails(c, status)
  \/ ProbeWorks

Spec == Init /\ [][Next]_vars
-----------------------------------------------------------------------------
(***************************************************************************)
(* What is taken for a reading is one: the answer to this caller's own     *)
(* command, and a number, unless its command was lost on the way to the    *)
(* probe, which nobody notices (source/ezo.c:67), or another caller wrote  *)
(* meanwhile.  If moreover no command failed, a compensated reading is     *)
(* compensated for the temperature it was asked with, and a calibration    *)
(* that is confirmed is the one in force (source/ezo.c:262,                *)
(* source/net_services.c:210).                                             *)
(***************************************************************************)
ReadingIsOwn(c) ==
  taken[c].status = "success" /\ step[c] = "idle" =>
    /\ trouble[c] \cap {"lost", "overlap"} = {} => taken[c].own /\ taken[c].kind = "value"
    /\ trouble[c] = {} => taken[c].compensated /\ taken[c].calibrated

ReadingsAreOwn == \A c \in Callers : ReadingIsOwn(c)
=============================================================================
