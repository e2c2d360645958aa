-------------------------- MODULE MCCatalogService --------------------------
(***************************************************************************)
(* Instance of the catalog service for TLC: three seeded products, one     *)
(* that is created meanwhile, and two baskets.  One asks for the created   *)
(* product between two seeded ones, the other for more than there is.      *)
(***************************************************************************)
EXTENDS CatalogService

MCSeed == <<"laptop", "mouse", "hub">>

MCCreated == {"keyboard"}

MCStock == [laptop |-> 1, mouse |-> 2, hub |-> 2, keyboard |-> 1]

MCLine(p, n) == [product |-> p, quantity |-> n]

MCLines ==
    [mixed |-> <<MCLine("laptop", 1), MCLine("keyboard", 1), MCLine("hub", 1)>>,
     large |-> <<MCLine("mouse", 3), MCLine("keyboard", 1)>>]
=============================================================================
