----------------------------- MODULE MCGateway ------------------------------
(***************************************************************************)
(* Instance of the gateway for TLC: behind one address a customer logs in, *)
(* asks for her dashboard and for what is not hers to do, an administrator *)
(* creates a product and asks for the health of the services.              *)
(***************************************************************************)
EXTENDS Gateway

MCServices == {"catalog", "order"}

To(kind, asks) == [kind |-> kind, asks |-> asks]

MCRoute ==
    [login |-> To("login", {}), lists |-> To("query", {"catalog", "order"}),
     refused |-> To("admin", {"catalog"}), create |-> To("admin", {"catalog"}),
     health |-> To("health", {})]

MCRequests == DOMAIN MCRoute

MCUser == [r \in MCRequests |-> IF r \in {"create", "health"} THEN "admin" ELSE "alice"]

MCGarbled == {"lists"}

MCAddress == [r \in MCRequests |-> "office"]
=============================================================================
