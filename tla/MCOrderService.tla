--------------------------- MODULE MCOrderService ---------------------------
(***************************************************************************)
(* Instances of the order service for TLC.  The payment service is         *)
(* whatever PaymentStep of OrderService allows.                            *)
(***************************************************************************)
EXTENDS OrderService, FiniteSets

CONSTANTS alice, bob

MCCustomers == {alice, bob}

\* Every order is alice's.
MCOwner == [o \in Orders |-> alice]

\* One of the cancel requests is a stranger's, the others are the owner's.
MCRequester ==
    LET stranger == CHOOSE c \in Cancels : TRUE
    IN  [c \in Cancels |-> IF c = stranger /\ Cardinality(Cancels) > 2 THEN bob ELSE alice]
=============================================================================
