-------------------------- MODULE MCPaymentService --------------------------
(***************************************************************************)
(* Instances of the payment service for TLC.  The order service is         *)
(* whatever OrderStep of PaymentService allows.                            *)
(***************************************************************************)
EXTENDS PaymentService

CONSTANT declined   \* an order that will be declined

MCMethod == [o \in Orders |-> IF o = declined THEN "DECLINED" ELSE "CARD"]
MCAmount == [o \in Orders |-> 100]
=============================================================================
