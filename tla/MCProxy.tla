------------------------------ MODULE MCProxy ------------------------------
(***************************************************************************)
(* Proxy for TLC: two engines with different patterns and prefixes.        *)
(***************************************************************************)
EXTENDS Proxy

CONSTANTS game, shop

(* A transaction by the pattern its id was ground for and its header; the  *)
(* last one meets a pattern by chance and carries no known prefix.         *)
MCTxs == {"plain", "g", "s", "both", "chance"}
MCMatches(t, e) ==
    CASE t = "g" -> e = game
      [] t = "s" -> e = shop
      [] t = "both" -> TRUE
      [] t = "chance" -> e = shop
      [] OTHER -> FALSE
MCHasHeader(t, e) ==
    \/ t \in {"g", "both"} /\ e = game
    \/ t = "s" /\ e = shop
MCBlockTxs == {<<"plain">>, <<"g", "s", "chance", "both">>}
=============================================================================
