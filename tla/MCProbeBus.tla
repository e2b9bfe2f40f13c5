----------------------------- MODULE MCProbeBus -----------------------------
(***************************************************************************)
(* For TLC: a behaviour is either the probe with its callers, or one poll  *)
(* of a sensor through its driver.                                         *)
(***************************************************************************)
EXTENDS ProbeBus, SensorDrivers

NoSample == [driver |-> "none"]

MCInit == Init /\ sample \in Samples \cup {NoSample}
MCNext == sample = NoSample /\ Next /\ UNCHANGED sample
MCSpec == MCInit /\ [][MCNext]_<<vars, sample>>
=============================================================================
