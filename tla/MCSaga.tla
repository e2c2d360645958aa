------------------------------- MODULE MCSaga -------------------------------
(***************************************************************************)
(* Instances of the saga for TLC.                                          *)
(***************************************************************************)
EXTENDS Saga, FiniteSets

CONSTANTS alice, bob, declined

MCCustomers == {alice, bob}
MCOwner == [o \in Orders |-> alice]

\* With several cancel requests, one of them is a stranger's.
MCRequester ==
    LET stranger == CHOOSE c \in Cancels : TRUE
    IN  [c \in Cancels |-> IF c = stranger /\ Cardinality(Cancels) > 1 THEN bob ELSE alice]

MCMethod == [o \in Orders |-> IF o = declined THEN "DECLINED" ELSE "CARD"]
MCAmount == [o \in Orders |-> 100]
=============================================================================
