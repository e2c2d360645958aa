---------------------------- MODULE PaymentLedger ----------------------------
(***************************************************************************)
(* What the payment service promises: at most one payment per order, whose *)
(* verdict is fixed when it is recorded; a refund only of a payment that   *)
(* succeeded; and announcements that say what the ledger says.             *)
(***************************************************************************)
CONSTANT Orders

VARIABLES
    ledger,     \* the status of the payment of each order
    told        \* the verdicts announced for each order

Verdicts == {"SUCCEEDED", "FAILED"}

Init ==
    /\ ledger = [o \in Orders |-> "none"]
    /\ told = [o \in Orders |-> {}]

Record(o) ==
    /\ ledger[o] = "none"
    /\ \E v \in Verdicts : ledger' = [ledger EXCEPT ![o] = v]
    /\ UNCHANGED told

Refund(o) ==
    /\ ledger[o] = "SUCCEEDED"
    /\ ledger' = [ledger EXCEPT ![o] = "REFUNDED"]
    /\ UNCHANGED told

\* A refunded payment had succeeded: an announcement on its way may still say so.
Announce(o) ==
    /\ \E v \in Verdicts :
         /\ ledger[o] = v \/ (v = "SUCCEEDED" /\ ledger[o] = "REFUNDED")
         /\ told' = [told EXCEPT ![o] = @ \union {v}]
    /\ UNCHANGED ledger

Next == \E o \in Orders : Record(o) \/ Refund(o) \/ Announce(o)

Spec == Init /\ [][Next]_<<ledger, told>>
=============================================================================
