--------------------------- MODULE CatalogService ---------------------------
(***************************************************************************)
(* The catalog service: one process with one event loop, which seeds the   *)
(* collection of products, starts the gRPC server, waits for the broker    *)
(* and then serves.  Handlers interleave at every query; a basket is       *)
(* validated line by line, one query for each.                             *)
(*                                                                         *)
(* A product is what the collection holds under its id; its stock never    *)
(* changes, for nothing in the service updates a document.                 *)
(***************************************************************************)
EXTENDS Integers, Sequences, SequencesExt

CONSTANTS
    Seed,       \* the ids of SEED_PRODUCTS, in their order
    Created,    \* the ids of the products that POST /products may create
    Stock,      \* the stock each product is stored with
    Baskets,    \* the calls of ValidateProducts
    Lines,      \* the lines of each basket: [product, quantity]
    MaxFaults   \* bound: how many faults a behaviour has

Products == ToSet(Seed) \union Created

ASSUME CatalogConstants ==
    /\ Seed \in Seq(Products) /\ Seed # <<>>
    /\ \A i, j \in 1..Len(Seed) : Seed[i] = Seed[j] => i = j
    /\ ToSet(Seed) \intersect Created = {}
    /\ Stock \in [Products -> Nat]
    /\ Lines \in [Baskets -> Seq([product : Products, quantity : Nat])]
    /\ MaxFaults \in Nat

VARIABLES
    stored,     \* how many documents the collection has of each product
    phase,      \* how far the process has come with its start
    next,       \* the place in Seed where insert_many is
    brokerUp,   \* whether RabbitMQ accepts connections
    create,     \* how far each POST /products has come
    announced,  \* products whose catalog.ProductCreated went out
    basket,     \* how far each validation has come, and its outcome
    line,       \* the line it reads next
    ok,         \* its all_available
    before,     \* history: was the basket covered when it was asked about
    faults      \* how many faults have happened

dbVars == <<stored, next>>
createVars == <<create, announced>>
basketVars == <<basket, line, ok, before>>
vars == <<dbVars, phase, brokerUp, createVars, basketVars, faults>>

TypeOK ==
    /\ stored \in [Products -> {0, 1}]
    /\ phase \in {"down", "seeding", "seeded", "topology", "serving"}
    /\ next \in 1..Len(Seed) + 1
    /\ brokerUp \in BOOLEAN
    /\ create \in [Created -> {"idle", "inserting", "stored", "done", "failed"}]
    /\ announced \subseteq Created
    /\ basket \in [Baskets -> {"idle", "asked", "accepted", "rejected", "gaveUp"}]
    /\ line \in [Baskets -> Nat \ {0}]
    /\ \A b \in Baskets : line[b] <= Len(Lines[b]) + 1
    /\ ok \in [Baskets -> BOOLEAN]
    /\ before \in [Baskets -> BOOLEAN]
    /\ faults \in 0..MaxFaults

Init ==
    /\ stored = [p \in Products |-> 0]
    /\ phase = "down"
    /\ next = 1
    /\ brokerUp \in BOOLEAN
    /\ create = [p \in Created |-> "idle"]
    /\ announced = {}
    /\ basket = [b \in Baskets |-> "idle"]
    /\ line = [b \in Baskets |-> 1]
    /\ ok = [b \in Baskets |-> TRUE]
    /\ before = [b \in Baskets |-> FALSE]
    /\ faults = 0

Fault ==
    /\ faults < MaxFaults
    /\ faults' = faults + 1

-----------------------------------------------------------------------------
(* The start of the process.                                                *)

StartStep(from, to) ==
    /\ phase = from
    /\ phase' = to
    /\ UNCHANGED <<brokerUp, createVars, basketVars, faults>>

\* Mutant: the products are not counted.
IsEmptyMutant == TRUE

IsEmpty == \A p \in Products : stored[p] = 0

Count ==
    /\ StartStep("down", IF IsEmpty THEN "seeding" ELSE "seeded")
    /\ next' = 1
    /\ UNCHANGED stored

\* Mutant: the last product is left out.
LastOfSeedMutant == next + 1 >= Len(Seed)

LastOfSeed == next = Len(Seed)

\* insert_many stores its documents one after the other.
InsertSeed ==
    /\ StartStep("seeding", IF LastOfSeed THEN "seeded" ELSE "seeding")
    /\ stored' = [stored EXCEPT ![Seed[next]] = @ + 1]
    /\ next' = next + 1

\* Mutant: the start waits until the gRPC server ends.
ServeGrpcMutant == FALSE

ServeGrpc == StartStep("seeded", "topology") /\ UNCHANGED dbVars

\* ensure_topology connects, sleeps and tries again on the event loop itself: until
\* it returns no handler runs.
EnsureTopology == brokerUp /\ StartStep("topology", "serving") /\ UNCHANGED dbVars

Start == Count \/ InsertSeed \/ ServeGrpc \/ EnsureTopology

-----------------------------------------------------------------------------
(* ValidateProducts, and its caller in the order service.                   *)

Listening == phase \in {"topology", "serving"}

Available(l) == stored[l.product] > 0 /\ l.quantity > 0 /\ Stock[l.product] >= l.quantity

Covered(b) == \A i \in 1..Len(Lines[b]) : Available(Lines[b][i])

Ask(b) ==
    /\ basket[b] = "idle"
    /\ Listening
    /\ basket' = [basket EXCEPT ![b] = "asked"]
    /\ before' = [before EXCEPT ![b] = Covered(b)]
    /\ UNCHANGED <<line, ok>>

\* Mutant: a line that is available makes up for one that is not.
OkSoFarMutant(b) == Available(Lines[b][line[b]])

OkSoFar(b) == ok[b] /\ Available(Lines[b][line[b]])

ReadLine(b) ==
    /\ phase = "serving"
    /\ basket[b] = "asked"
    /\ line[b] <= Len(Lines[b])
    /\ ok' = [ok EXCEPT ![b] = OkSoFar(b)]
    /\ line' = [line EXCEPT ![b] = @ + 1]
    /\ UNCHANGED <<basket, before>>

\* The order service goes on only with a basket that is all available.
Answer(b) ==
    /\ phase = "serving"
    /\ basket[b] = "asked"
    /\ line[b] > Len(Lines[b])
    /\ basket' = [basket EXCEPT ![b] = IF ok[b] THEN "accepted" ELSE "rejected"]
    /\ UNCHANGED <<line, ok, before>>

\* Nobody listens, the query fails, or five seconds are over.
GiveUp(b) ==
    /\ basket[b] = "asked" \/ (basket[b] = "idle" /\ ~Listening)
    /\ basket' = [basket EXCEPT ![b] = "gaveUp"]
    /\ UNCHANGED <<line, ok, before>>

Validate(b) ==
    /\ Ask(b) \/ ReadLine(b) \/ Answer(b) \/ GiveUp(b)
    /\ UNCHANGED <<dbVars, phase, brokerUp, createVars, faults>>

-----------------------------------------------------------------------------
(* POST /products.                                                          *)

CreateStep(p, from, to) ==
    /\ phase = "serving"
    /\ create[p] = from
    /\ create' = [create EXCEPT ![p] = to]
    /\ UNCHANGED <<phase, next, brokerUp, basketVars>>

\* Mutant: the insert is forgotten.
ReceiveProductMutant(p) ==
    /\ CreateStep(p, "idle", "stored")
    /\ UNCHANGED <<stored, announced, faults>>

ReceiveProduct(p) ==
    /\ CreateStep(p, "idle", "inserting")
    /\ UNCHANGED <<stored, announced, faults>>

InsertProduct(p) ==
    /\ CreateStep(p, "inserting", "stored")
    /\ stored' = [stored EXCEPT ![p] = @ + 1]
    /\ UNCHANGED <<announced, faults>>

\* The insert raises; it may have been carried out.
InsertFails(p) ==
    /\ CreateStep(p, "inserting", "failed")
    /\ Fault
    /\ UNCHANGED stored \/ stored' = [stored EXCEPT ![p] = @ + 1]
    /\ UNCHANGED announced

\* publish holds the event loop and swallows what goes wrong.
PublishProduct(p) ==
    /\ CreateStep(p, "stored", "done")
    /\ announced' = IF brokerUp THEN announced \union {p} ELSE announced
    /\ UNCHANGED <<stored, faults>>

CreateProduct(p) == ReceiveProduct(p) \/ InsertProduct(p) \/ InsertFails(p) \/ PublishProduct(p)

-----------------------------------------------------------------------------
\* The process ends and is started again.  An insert it had sent may be carried out,
\* an event it was publishing may be out.
Crash ==
    /\ Fault
    /\ phase' = "down"
    /\ basket' = [b \in Baskets |-> IF basket[b] = "asked" THEN "gaveUp" ELSE basket[b]]
    /\ create' = [p \in Created |-> IF create[p] \in {"inserting", "stored"} THEN "failed"
                                    ELSE create[p]]
    /\ \E late \in SUBSET {p \in Created : create[p] = "inserting"} :
          stored' = [p \in Products |-> IF p \in late THEN stored[p] + 1 ELSE stored[p]]
    /\ \E out \in SUBSET {p \in Created : create[p] = "stored" /\ brokerUp} :
          announced' = announced \union out
    /\ UNCHANGED <<next, brokerUp, line, ok, before>>

BrokerChanges ==
    /\ brokerUp' = ~brokerUp
    /\ UNCHANGED <<dbVars, phase, createVars, basketVars, faults>>

Next ==
    \/ Start
    \/ \E b \in Baskets : Validate(b)
    \/ \E p \in Created : CreateProduct(p)
    \/ Crash
    \/ BrokerChanges

Spec == Init /\ [][Next]_vars

FairSpec == Spec /\ WF_vars(Start)

-----------------------------------------------------------------------------
(* Correctness.                                                             *)

\* ValidateProducts reads its lines at different moments, while products are
\* created.  Its answer is nevertheless one the catalog could have given at a single
\* moment of the call: a yes still holds, a no held when the call was made.
VerdictFits ==
    \A b \in Baskets :
        /\ basket[b] = "accepted" => Covered(b)
        /\ basket[b] = "rejected" => ~before[b]

\* A service that listens has been seeded, once, however often it was started: all
\* of the seed, or after a crash inside insert_many a part of it from the front,
\* which no later start completes.
SeedIsPrefix ==
    Listening =>
        \E n \in 1..Len(Seed) :
            /\ \A i \in 1..Len(Seed) : stored[Seed[i]] = IF i <= n THEN 1 ELSE 0
            /\ faults = 0 => n = Len(Seed)

\* Who learns of a new product from its event, or from the answer to its creation,
\* can read it, whatever failed meanwhile.
AnnouncedIsStored ==
    \A p \in Created : p \in announced \/ create[p] = "done" => stored[p] = 1

\* Once the broker stays up the service gets through its start, however often it
\* was interrupted, and serves from then on.
StartupCompletes == <>[]brokerUp => <>[](phase = "serving")

-----------------------------------------------------------------------------
(* Said of the service, and not so.                                         *)

\* CatalogEventBus: "Uses short-lived connections so failures do not block service
\* startup or product creation paths."  ensure_topology does not return before the
\* broker answers, and lifespan waits for it.
StartupNotBlocked == <>(phase = "serving")
=============================================================================
