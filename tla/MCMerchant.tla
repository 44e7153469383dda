------------------------------ MODULE MCMerchant ------------------------------
(* Merchant for TLC: one merchant, whose invoices are of amount 1 *)
EXTENDS Merchant

CONSTANTS merchant, customer, t1, t2

MCPays(tx) == IF tx = t1 THEN 1 ELSE 2

(* t1 pays the merchant; t2, which not every run has, has an output whose  *)
(* script is not known.                                                    *)
MCOutputs(tx) ==
    IF tx = t1
    THEN {[value |-> 1, script |-> merchant], [value |-> 0, script |-> "change"]}
    ELSE {[value |-> 1, script |-> None]}
=============================================================================
