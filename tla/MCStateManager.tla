--------------------------- MODULE MCStateManager ---------------------------
(***************************************************************************)
(* Small pools for TLC.  A run picks its keys from those named here; the   *)
(* name of a key tells its kind and scope (N, L or G: None, Local, Global).*)
(***************************************************************************)
EXTENDS StateManagerProps

CONSTANTS condG, condL, pumpG, pumpL, outN, outG, senL, senG, pinG

MCScope ==
  [k \in Conds \cup Pumps \cup Outputs \cup Sensors |->
     CASE k \in {condG, pumpG, outG, senG, pinG} -> ScopeGlobal
       [] k \in {condL, pumpL, senL}             -> ScopeLocal
       [] k \in {outN}                           -> ScopeNone]
=============================================================================
