--------------------------- MODULE MCClientViews ---------------------------
(***************************************************************************)
(* What clients are shown, for TLC: either one key and its item in the     *)
(* list of devices, with what is announced of it, or one request for a     *)
(* summary of doses.  The two share nothing, so a behaviour has one of     *)
(* them.                                                                   *)
(***************************************************************************)
EXTENDS DevicesPage, DoseSummary

viewVars == <<pageVars, summaryVars>>

NoSummary ==
  /\ journal = <<>> /\ days = 1 /\ next = 1 /\ stats = <<>>
  /\ ring = [i \in {} |-> 0] /\ head = 0 /\ count = 0 /\ history = <<>> /\ replied = TRUE

NoPage ==
  /\ kind = [type |-> "VIR_TANK", average |-> FALSE, volume |-> TRUE, capped |-> FALSE, longId |-> FALSE]
  /\ delayed = FALSE
  /\ key = [state |-> "OFF", met |-> FALSE, waits |-> FALSE, left |-> 0, value |-> 0, runtime |-> 0, stat |-> 0]
  /\ item = NoItem /\ list = "none"

MCInit == (PageInit /\ NoSummary) \/ (NoPage /\ SummaryInit)

MCNext ==
  \/ replied /\ journal = <<>> /\ PageNext /\ UNCHANGED summaryVars
  \/ SummaryNext /\ UNCHANGED pageVars

MCSpec == MCInit /\ [][MCNext]_viewVars
=============================================================================
