----------------------------- MODULE Interlock -----------------------------
(***************************************************************************)
(* What the state manager promises, in two variables: how severe the       *)
(* failed interlocks are, and which devices run.  A device starts only     *)
(* under a severity it tolerates, one at a time; whenever the severity is  *)
(* rated anew, everything that no longer tolerates it stops in that very   *)
(* step.  Devices may stop at any time.                                    *)
(***************************************************************************)
CONSTANTS Devices, Severities, Tolerates(_, _)

VARIABLES severity, running

Init == severity \in Severities /\ running = {}

Start(d) ==
  /\ Tolerates(d, severity)
  /\ running' = running \cup {d}
  /\ UNCHANGED severity

Rate(s) ==
  /\ severity' = s
  /\ running' \subseteq {d \in running : Tolerates(d, s)}

Next ==
  \/ \E d \in Devices : Start(d)
  \/ \E s \in Severities : Rate(s)

Spec == Init /\ [][Next]_<<severity, running>>

\* Nothing runs that does not tolerate the present severity.
Safe == \A d \in running : Tolerates(d, severity)
=============================================================================
