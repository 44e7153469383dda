------------------------------ MODULE MCKdapp ------------------------------
(***************************************************************************)
(* The two threads of kdapp for TLC, the engine, which MCEngine alone      *)
(* gives scores that let episodes expire, and the listener.  A behaviour   *)
(* is of one of them, and each is fair as its own specification says.      *)
(***************************************************************************)
EXTENDS MCEngine, MCProxy

VARIABLE side

kdappVars == <<side, vars, listenerVars>>

KdappInit == side \in {"engine", "listener"} /\ Init /\ ListenerInit

KdappNext ==
    \/ side = "engine" /\ Next /\ UNCHANGED <<side, listenerVars>>
    \/ side = "listener" /\ ListenerNext /\ UNCHANGED <<side, vars>>

KdappSpec ==
    /\ KdappInit /\ [][KdappNext]_kdappVars
    /\ WF_kdappVars(side = "engine" /\ EngineProgress /\ UNCHANGED <<side, listenerVars>>)
    /\ WF_kdappVars(side = "listener" /\ Listen /\ UNCHANGED <<side, vars>>)

(* CatchesUp where the listener runs: it stops when asked to, and          *)
(* otherwise reaches the node's chain whenever the node rests.             *)
ListenerCatchesUp == side = "listener" => CatchesUp
=============================================================================
