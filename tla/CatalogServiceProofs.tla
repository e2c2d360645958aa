------------------------ MODULE CatalogServiceProofs ------------------------
(***************************************************************************)
(* Theorems about the catalog service, for every seed, every set of        *)
(* products that may be created, every set of baskets and any number of    *)
(* faults.                                                                 *)
(***************************************************************************)
EXTENDS CatalogService, SequenceTheorems, TLAPS

LEMMA Assumptions ==
    /\ Seed \in Seq(Products) /\ Len(Seed) \in Nat /\ Len(Seed) >= 1
    /\ \A i \in 1..Len(Seed) : Seed[i] \in Products /\ Seed[i] \notin Created
    /\ \A i, j \in 1..Len(Seed) : Seed[i] = Seed[j] => i = j
    /\ \A b \in Baskets : Lines[b] \in Seq([product : Products, quantity : Nat])
    /\ \A b \in Baskets : Len(Lines[b]) \in Nat
    /\ \A b \in Baskets, i \in Nat \ {0} :
          i <= Len(Lines[b]) => Lines[b][i] \in [product : Products, quantity : Nat]
    /\ Stock \in [Products -> Nat]
    /\ Created \subseteq Products
    /\ MaxFaults \in Nat
  <1>1. Seed \in Seq(Products) /\ Seed # <<>> /\ ToSet(Seed) \intersect Created = {}
      BY CatalogConstants
  <1>2. Len(Seed) \in Nat /\ Len(Seed) >= 1
      BY <1>1
  <1>3. \A i \in 1..Len(Seed) : Seed[i] \in Products /\ Seed[i] \in ToSet(Seed)
      BY <1>1 DEF ToSet
  <1>4. \A b \in Baskets : Lines[b] \in Seq([product : Products, quantity : Nat])
      BY CatalogConstants
  <1>5. Created \subseteq Products
      BY DEF Products
  <1>6. \A i \in 1..Len(Seed) : Seed[i] \notin Created
      BY <1>1, <1>3
  <1>7. ASSUME NEW b \in Baskets
        PROVE  /\ Len(Lines[b]) \in Nat
               /\ \A i \in Nat \ {0} : i <= Len(Lines[b])
                     => Lines[b][i] \in [product : Products, quantity : Nat]
    <2>1. Lines[b] \in Seq([product : Products, quantity : Nat])
        BY <1>4
    <2>2. Len(Lines[b]) \in Nat
        BY <2>1
    <2>3. ASSUME NEW i \in Nat \ {0}, i <= Len(Lines[b])
          PROVE  Lines[b][i] \in [product : Products, quantity : Nat]
      <3>1. i \in 1..Len(Lines[b])
          BY <2>2, <2>3
      <3>2. \A S, seq : seq \in Seq(S) => \A n \in 1..Len(seq) : seq[n] \in S
          BY ElementOfSeq
      <3> QED
          BY <2>1, <3>1, <3>2, Zenon
    <2> QED
        BY <2>2, <2>3
  <1>8. /\ \A i, j \in 1..Len(Seed) : Seed[i] = Seed[j] => i = j
        /\ Stock \in [Products -> Nat] /\ MaxFaults \in Nat
      BY CatalogConstants
  <1> QED
      BY <1>1, <1>2, <1>3, <1>4, <1>5, <1>6, <1>7, <1>8

-----------------------------------------------------------------------------
(* The inductive invariant.                                                 *)

\* The first n products of the seed are stored, and the others are not.
Prefix(n) == \A i \in 1..Len(Seed) : stored[Seed[i]] = IF i <= n THEN 1 ELSE 0

\* How much of the seed is stored, against how far the start has come.  A process
\* that starts finds all of it missing only if it has never served.
SeededUpTo(n) ==
    /\ Prefix(n)
    /\ n = 0 => \A p \in Created : create[p] = "idle"
    /\ phase = "seeding" => next = n + 1 /\ n < Len(Seed)
    /\ phase \in {"seeded", "topology", "serving"} => n >= 1
    /\ faults = 0 => \/ phase = "down" /\ n = 0
                     \/ phase = "seeding"
                     \/ phase \in {"seeded", "topology", "serving"} /\ n = Len(Seed)

SeedInv == \E n \in 0..Len(Seed) : SeededUpTo(n)

\* A product is stored by the one insert of its creation.
CreateInv(p) ==
    /\ create[p] \in {"idle", "inserting"} => stored[p] = 0
    /\ create[p] \in {"stored", "done"} \/ p \in announced => stored[p] = 1

\* What has been read of a basket agrees with the products that are there now: none goes away.
BasketInv(b) ==
    /\ ok[b] => \A i \in 1..Len(Lines[b]) : i < line[b] => Available(Lines[b][i])
    /\ ~ok[b] => ~before[b]
    /\ before[b] => Covered(b)
    /\ basket[b] = "accepted" => Covered(b)
    /\ basket[b] = "rejected" => ~before[b]
    /\ basket[b] = "idle" => ok[b]

IInv ==
    /\ SeedInv
    /\ \A p \in Created : CreateInv(p)
    /\ \A b \in Baskets : BasketInv(b)

-----------------------------------------------------------------------------
(* What the steps do.                                                       *)

\* A step of a handler or of the start that stores nothing.
NothingStored == UNCHANGED stored

\* A product of the seed, which is not there yet.
SeedStored ==
    /\ phase = "seeding" /\ next \in 1..Len(Seed) /\ stored[Seed[next]] = 0
    /\ stored' = [stored EXCEPT ![Seed[next]] = 1]

\* Products that are being created, and not there yet.
CreatedStored ==
    \E late \in SUBSET {p \in Created : create[p] = "inserting" /\ stored[p] = 0} :
        stored' = [p \in Products |-> IF p \in late THEN 1 ELSE stored[p]]

StoreStep == NothingStored \/ SeedStored \/ CreatedStored

LEMMA OneInsert ==
    ASSUME TypeOK, IInv, NEW p \in Created, create[p] = "inserting",
           stored' = [stored EXCEPT ![p] = @ + 1]
    PROVE  CreatedStored
  <1>1. stored[p] = 0 /\ p \in Products
      BY Assumptions DEF IInv, CreateInv
  <1>2. {p} \in SUBSET {q \in Created : create[q] = "inserting" /\ stored[q] = 0}
      BY <1>1
  <1>3. stored' = [q \in Products |-> IF q \in {p} THEN 1 ELSE stored[q]]
    <2>1. stored' = [stored EXCEPT ![p] = 1] /\ DOMAIN stored = Products
        BY <1>1 DEF TypeOK
    <2>2. stored = [q \in Products |-> stored[q]]
        BY DEF TypeOK
    <2> QED
        BY <2>1, <2>2
  <1> QED
      BY <1>2, <1>3 DEF CreatedStored

LEMMA StepStores ==
    ASSUME TypeOK, IInv, [Next]_vars PROVE StoreStep
  <1> USE DEF StoreStep, NothingStored
  <1>1. CASE Count \/ ServeGrpc \/ EnsureTopology \/ BrokerChanges
      BY <1>1 DEF Count, ServeGrpc, EnsureTopology, BrokerChanges, dbVars
  <1>2. CASE InsertSeed
    <2>1. PICK n \in 0..Len(Seed) : SeededUpTo(n)
        BY DEF IInv, SeedInv
    <2>2. next = n + 1 /\ n < Len(Seed) /\ Prefix(n)
        BY <1>2, <2>1 DEF InsertSeed, StartStep, SeededUpTo
    <2>3. next \in 1..Len(Seed) /\ stored[Seed[next]] = 0
        BY <2>2, Assumptions DEF Prefix
    <2>4. stored' = [stored EXCEPT ![Seed[next]] = 1]
        BY <1>2, <2>3 DEF InsertSeed
    <2> QED
        BY <1>2, <2>3, <2>4 DEF SeedStored, InsertSeed, StartStep
  <1>3. ASSUME NEW b \in Baskets, Validate(b) PROVE StoreStep
      BY <1>3 DEF Validate, dbVars
  <1>4. ASSUME NEW p \in Created, CreateProduct(p) PROVE StoreStep
      BY <1>4, OneInsert DEF CreateProduct, CreateStep, ReceiveProduct, InsertProduct, InsertFails,
                             PublishProduct
  <1>5. CASE Crash
    <2>1. PICK late \in SUBSET {p \in Created : create[p] = "inserting"} :
             stored' = [p \in Products |-> IF p \in late THEN stored[p] + 1 ELSE stored[p]]
        BY <1>5 DEF Crash
    <2>2. \A p \in late : create[p] = "inserting" /\ stored[p] = 0
        BY DEF IInv, CreateInv
    <2>3. stored' = [p \in Products |-> IF p \in late THEN 1 ELSE stored[p]]
        BY <2>1, <2>2
    <2> QED
        BY <2>2, <2>3 DEF CreatedStored
  <1>6. CASE UNCHANGED vars
      BY <1>6 DEF vars, dbVars
  <1> QED
      BY <1>1, <1>2, <1>3, <1>4, <1>5, <1>6 DEF Next, Start

\* Nothing that is stored goes away, and nothing is stored twice.
LEMMA StoredGrows ==
    ASSUME TypeOK, StoreStep
    PROVE  /\ stored' \in [Products -> {0, 1}]
           /\ \A p \in Products : stored[p] = 1 => stored'[p] = 1
  <1>1. CASE NothingStored
      BY <1>1 DEF NothingStored, TypeOK
  <1>2. CASE SeedStored
      BY <1>2, Assumptions DEF SeedStored, TypeOK
  <1>3. CASE CreatedStored
      BY <1>3 DEF CreatedStored, TypeOK
  <1> QED
      BY <1>1, <1>2, <1>3 DEF StoreStep

LEMMA StaysAvailable ==
    ASSUME TypeOK, StoreStep, NEW b \in Baskets, NEW i \in 1..Len(Lines[b]),
           Available(Lines[b][i])
    PROVE  Available(Lines[b][i])'
  <1>1. Lines[b][i].product \in Products
      BY Assumptions
  <1>2. stored[Lines[b][i].product] = 1
      BY <1>1 DEF Available, TypeOK
  <1>3. stored'[Lines[b][i].product] = 1
      BY <1>1, <1>2, StoredGrows
  <1> QED
      BY <1>3 DEF Available

LEMMA StaysCovered ==
    ASSUME TypeOK, StoreStep, NEW b \in Baskets, Covered(b) PROVE Covered(b)'
  BY StaysAvailable DEF Covered

-----------------------------------------------------------------------------
(* Types.                                                                   *)

LEMMA TypeStep ==
    ASSUME TypeOK, IInv, [Next]_vars PROVE TypeOK'
  <1> USE Assumptions DEF TypeOK
  <1>s. stored' \in [Products -> {0, 1}]
      BY StepStores, StoredGrows
  <1>1. CASE Start
    <2>1. next' \in 1..Len(Seed) + 1
      <3>1. CASE InsertSeed
        <4>1. PICK n \in 0..Len(Seed) : SeededUpTo(n)
            BY DEF IInv, SeedInv
        <4>2. next < Len(Seed) + 1
            BY <3>1, <4>1 DEF InsertSeed, StartStep, SeededUpTo
        <4> QED
            BY <3>1, <4>2 DEF InsertSeed
      <3>2. CASE Count \/ ServeGrpc \/ EnsureTopology
          BY <3>2 DEF Count, ServeGrpc, EnsureTopology, dbVars
      <3> QED
          BY <1>1, <3>1, <3>2 DEF Start
    <2>2. phase' \in {"down", "seeding", "seeded", "topology", "serving"}
        BY <1>1 DEF Start, Count, InsertSeed, ServeGrpc, EnsureTopology, StartStep
    <2>3. UNCHANGED <<brokerUp, createVars, basketVars, faults>>
        BY <1>1 DEF Start, Count, InsertSeed, ServeGrpc, EnsureTopology, StartStep
    <2> QED
        BY <1>s, <2>1, <2>2, <2>3 DEF createVars, basketVars
  <1>2. ASSUME NEW b \in Baskets, Validate(b) PROVE TypeOK'
    <2>1. UNCHANGED <<dbVars, phase, brokerUp, createVars, faults>>
        BY <1>2 DEF Validate
    <2>2. CASE Ask(b) \/ Answer(b) \/ GiveUp(b)
      <3>1. /\ basket' \in [Baskets -> {"idle", "asked", "accepted", "rejected", "gaveUp"}]
            /\ before' \in [Baskets -> BOOLEAN] /\ UNCHANGED <<line, ok>>
        <4>1. Covered(b) \in BOOLEAN
            BY DEF Covered
        <4> QED
            BY <2>2, <4>1 DEF Ask, Answer, GiveUp
      <3> QED
          BY <1>s, <2>1, <3>1 DEF dbVars, createVars
    <2>3. CASE ReadLine(b)
      <3>1. OkSoFar(b) \in BOOLEAN
          BY DEF OkSoFar, Available
      <3>2. ok' \in [Baskets -> BOOLEAN] /\ UNCHANGED <<basket, before>>
          BY <2>3, <3>1 DEF ReadLine
      <3>3. /\ line' \in [Baskets -> Nat \ {0}]
            /\ \A c \in Baskets : line'[c] <= Len(Lines[c]) + 1
          BY <2>3 DEF ReadLine
      <3> QED
          BY <1>s, <2>1, <3>2, <3>3 DEF dbVars, createVars
    <2> QED
        BY <1>2, <2>2, <2>3 DEF Validate
  <1>3. ASSUME NEW p \in Created, CreateProduct(p) PROVE TypeOK'
    <2>1. UNCHANGED <<phase, next, brokerUp, basketVars>>
        BY <1>3 DEF CreateProduct, CreateStep, ReceiveProduct, InsertProduct, InsertFails,
                    PublishProduct
    <2>2. create' \in [Created -> {"idle", "inserting", "stored", "done", "failed"}]
      <3>1. PICK to \in {"idle", "inserting", "stored", "done", "failed"} :
                create' = [create EXCEPT ![p] = to]
          BY <1>3 DEF CreateProduct, CreateStep, ReceiveProduct, InsertProduct, InsertFails,
                      PublishProduct
      <3> QED
          BY <3>1
    <2>3. announced' \subseteq Created
        BY <1>3 DEF CreateProduct, ReceiveProduct, InsertProduct, InsertFails, PublishProduct
    <2>4. faults' \in 0..MaxFaults
        BY <1>3 DEF CreateProduct, ReceiveProduct, InsertProduct, InsertFails, PublishProduct,
                    Fault
    <2> QED
        BY <1>s, <2>1, <2>2, <2>3, <2>4 DEF basketVars
  <1>4. CASE Crash
    <2>1. /\ create' \in [Created -> {"idle", "inserting", "stored", "done", "failed"}]
          /\ basket' \in [Baskets -> {"idle", "asked", "accepted", "rejected", "gaveUp"}]
        BY <1>4 DEF Crash
    <2>2. announced' \subseteq Created /\ faults' \in 0..MaxFaults
        BY <1>4 DEF Crash, Fault
    <2> QED
        BY <1>4, <1>s, <2>1, <2>2 DEF Crash
  <1>5. CASE BrokerChanges
      BY <1>5, <1>s DEF BrokerChanges, dbVars, createVars, basketVars
  <1>6. CASE UNCHANGED vars
      BY <1>6 DEF vars, dbVars, createVars, basketVars
  <1> QED
      BY <1>1, <1>2, <1>3, <1>4, <1>5, <1>6 DEF Next

-----------------------------------------------------------------------------
(* Every step keeps the invariant.                                          *)

\* Products that are created are none of the seed.
LEMMA PrefixKept ==
    ASSUME TypeOK, NEW n \in 0..Len(Seed), Prefix(n), NothingStored \/ CreatedStored
    PROVE  Prefix(n)'
  BY Assumptions DEF Prefix, NothingStored, CreatedStored

LEMMA SeedInvStep ==
    ASSUME TypeOK, IInv, [Next]_vars PROVE SeedInv'
  <1> USE Assumptions DEF TypeOK
  <1>n. PICK n \in 0..Len(Seed) : SeededUpTo(n)
      BY DEF IInv, SeedInv
  <1>q. ASSUME SeededUpTo(n)' PROVE SeedInv'
      BY <1>q DEF SeedInv
  <1>1. CASE Count
    <2>1. UNCHANGED <<stored, create, faults>> /\ phase = "down" /\ next' = 1
        BY <1>1 DEF Count, StartStep, createVars
    <2>2. n = 0 <=> IsEmpty
      <3>1. ASSUME n = 0, NEW p \in Products PROVE stored[p] = 0
        <4>1. CASE p \in Created
            BY <1>n, <3>1, <4>1 DEF SeededUpTo, IInv, CreateInv
        <4>2. CASE p \in ToSet(Seed)
          <5>1. PICK i \in 1..Len(Seed) : p = Seed[i]
              BY <4>2 DEF ToSet
          <5> QED
              BY <1>n, <3>1, <5>1 DEF SeededUpTo, Prefix
        <4> QED
            BY <4>1, <4>2 DEF Products
      <3>2. ASSUME n # 0 PROVE stored[Seed[1]] = 1 /\ Seed[1] \in Products
          BY <1>n, <3>2 DEF SeededUpTo, Prefix
      <3> QED
          BY <3>1, <3>2 DEF IsEmpty
    <2>3. Prefix(n)'
        BY <1>n, <2>1 DEF SeededUpTo, Prefix
    <2>4. CASE IsEmpty
      <3>1. phase' = "seeding"
          BY <1>1, <2>4 DEF Count, StartStep
      <3> QED
          BY <1>n, <1>q, <2>1, <2>2, <2>3, <2>4, <3>1 DEF SeededUpTo
    <2>5. CASE ~IsEmpty
      <3>1. phase' = "seeded"
          BY <1>1, <2>5 DEF Count, StartStep
      <3> QED
          BY <1>n, <1>q, <2>1, <2>2, <2>3, <2>5, <3>1 DEF SeededUpTo
    <2> QED
        BY <2>4, <2>5
  <1>2. CASE InsertSeed
    <2>1. /\ next = n + 1 /\ n < Len(Seed) /\ next' = n + 2 /\ phase = "seeding"
          /\ phase' = IF n + 1 = Len(Seed) THEN "seeded" ELSE "seeding"
          /\ UNCHANGED <<create, faults>>
        BY <1>n, <1>2 DEF InsertSeed, StartStep, SeededUpTo, LastOfSeed, createVars
    <2>2. stored[Seed[n + 1]] = 0
      <3>1. n + 1 \in 1..Len(Seed) /\ ~(n + 1 <= n)
          BY <2>1
      <3> QED
          BY <1>n, <3>1 DEF SeededUpTo, Prefix
    <2>3. stored' = [stored EXCEPT ![Seed[n + 1]] = 1]
        BY <1>2, <2>1, <2>2 DEF InsertSeed
    <2>4. Prefix(n + 1)'
      <3> SUFFICES ASSUME NEW i \in 1..Len(Seed)
                   PROVE  stored'[Seed[i]] = IF i <= n + 1 THEN 1 ELSE 0
          BY DEF Prefix
      <3>1. stored[Seed[i]] = IF i <= n THEN 1 ELSE 0
          BY <1>n DEF SeededUpTo, Prefix
      <3>2. CASE i = n + 1
          BY <2>1, <2>3, <3>2
      <3>3. CASE i # n + 1
        <4>1. Seed[i] # Seed[n + 1]
            BY <2>1, <3>3
        <4> QED
            BY <2>3, <3>1, <3>3, <4>1
      <3> QED
          BY <3>2, <3>3
    <2>5. SeededUpTo(n + 1)'
        BY <2>1, <2>4 DEF SeededUpTo
    <2> QED
        BY <2>1, <2>5 DEF SeedInv
  <1>s. ASSUME ~Count, ~InsertSeed PROVE Prefix(n)'
    <2>1. ~SeedStored
      <3>1. CASE UNCHANGED stored
          BY <3>1 DEF SeedStored
      <3>2. ASSUME NEW p \in Created, CreateProduct(p) PROVE phase # "seeding"
          BY <3>2 DEF CreateProduct, CreateStep, ReceiveProduct, InsertProduct, InsertFails,
                      PublishProduct
      <3>3. CASE Crash
        <4>1. PICK late \in SUBSET {p \in Created : create[p] = "inserting"} :
                 stored' = [p \in Products |-> IF p \in late THEN stored[p] + 1 ELSE stored[p]]
            BY <3>3 DEF Crash
        <4>2. \A i \in 1..Len(Seed) : stored'[Seed[i]] = stored[Seed[i]]
            BY <4>1
        <4> QED
            BY <4>2 DEF SeedStored
      <3> QED
          BY <1>s, <3>1, <3>2, <3>3
             DEF Next, Start, ServeGrpc, EnsureTopology, Validate, BrokerChanges, dbVars, vars,
                 SeedStored
    <2> QED
        BY <1>n, <2>1, StepStores, PrefixKept DEF StoreStep, SeededUpTo
  <1>3. CASE ServeGrpc \/ EnsureTopology
    <2>1. Prefix(n)'
        BY <1>3, <1>n DEF ServeGrpc, EnsureTopology, dbVars, SeededUpTo, Prefix
    <2> QED
        BY <1>3, <1>n, <1>q, <2>1 DEF ServeGrpc, EnsureTopology, StartStep, dbVars, createVars,
                                      SeededUpTo
  <1>4. CASE UNCHANGED <<stored, next, phase, create, faults>>
      BY <1>4, <1>n, <1>q DEF SeededUpTo, Prefix
  <1>5. ASSUME NEW p \in Created, CreateProduct(p) PROVE SeedInv'
    <2>1. phase = "serving" /\ UNCHANGED phase /\ faults' \in {faults, faults + 1}
        BY <1>5 DEF CreateProduct, CreateStep, ReceiveProduct, InsertProduct, InsertFails,
                    PublishProduct, Fault
    <2>2. Prefix(n)'
        BY <2>1, <1>s DEF Count, InsertSeed, StartStep
    <2> QED
        BY <1>n, <1>q, <2>1, <2>2 DEF SeededUpTo
  <1>6. CASE Crash
    <2>1. phase' = "down" /\ faults' = faults + 1
        BY <1>6 DEF Crash, Fault
    <2>2. \A p \in Created : create[p] = "idle" => create'[p] = "idle"
        BY <1>6 DEF Crash
    <2>3. Prefix(n)'
      <3>1. CASE Count \/ InsertSeed
          BY <2>1, <3>1 DEF Count, InsertSeed, StartStep
      <3> QED
          BY <3>1, <1>s
    <2> QED
        BY <1>n, <1>q, <2>1, <2>2, <2>3 DEF SeededUpTo
  <1> QED
      BY <1>1, <1>2, <1>3, <1>4, <1>5, <1>6
         DEF Next, Start, Validate, BrokerChanges, dbVars, createVars, vars

LEMMA CreateInvStep ==
    ASSUME TypeOK, IInv, [Next]_vars, NEW p \in Created PROVE CreateInv(p)'
  <1> USE Assumptions DEF TypeOK
  <1>p. CreateInv(p) /\ p \in Products
      BY DEF IInv
  <1>1. CASE stored'[p] = stored[p] /\ UNCHANGED <<create, announced>>
      BY <1>p, <1>1 DEF CreateInv
  <1>2. CASE InsertSeed
    <2>1. p # Seed[next]
      <3>1. PICK n \in 0..Len(Seed) : SeededUpTo(n)
          BY DEF IInv, SeedInv
      <3>2. next \in 1..Len(Seed)
          BY <1>2, <3>1 DEF InsertSeed, StartStep, SeededUpTo
      <3> QED
          BY <3>2
    <2>2. stored'[p] = stored[p] /\ UNCHANGED <<create, announced>>
        BY <1>2, <1>p, <2>1 DEF InsertSeed, StartStep, createVars
    <2> QED
        BY <1>1, <2>2
  <1>3. ASSUME NEW q \in Created, CreateProduct(q) PROVE CreateInv(p)'
      BY <1>3, <1>p DEF CreateProduct, CreateStep, ReceiveProduct, InsertProduct, InsertFails,
                        PublishProduct, CreateInv
  <1>4. CASE Crash
    <2>1. create'[p] = IF create[p] \in {"inserting", "stored"} THEN "failed" ELSE create[p]
        BY <1>4 DEF Crash
    <2>2. create[p] # "inserting" => stored'[p] = stored[p]
        BY <1>4, <1>p DEF Crash
    <2>3. p \in announced' => p \in announced \/ create[p] = "stored"
        BY <1>4 DEF Crash
    <2>4. stored[p] = 1 => stored'[p] = 1
        BY <1>p, StepStores, StoredGrows
    <2> QED
        BY <1>p, <2>1, <2>2, <2>3, <2>4 DEF CreateInv
  <1> QED
      BY <1>1, <1>2, <1>3, <1>4
         DEF Next, Start, Count, ServeGrpc, EnsureTopology, StartStep, Validate, BrokerChanges,
             dbVars, createVars, vars

LEMMA BasketInvStep ==
    ASSUME TypeOK, IInv, [Next]_vars, NEW b \in Baskets PROVE BasketInv(b)'
  <1> USE DEF TypeOK
  <1>b. BasketInv(b)
      BY DEF IInv
  <1>s. StoreStep
      BY StepStores
  <1>l. Len(Lines[b]) \in Nat /\ line[b] \in Nat
      BY Assumptions
  <1>c. Covered(b) => Covered(b)'
      BY <1>s, StaysCovered
  <1>a. \A i \in 1..Len(Lines[b]) : Available(Lines[b][i]) => Available(Lines[b][i])'
      BY <1>s, StaysAvailable
  <1>1. CASE /\ basket'[b] = basket[b] \/ basket'[b] = "gaveUp"
             /\ line'[b] = line[b] /\ ok'[b] = ok[b] /\ before'[b] = before[b]
      BY <1>1, <1>a, <1>b, <1>c DEF BasketInv
  <1>2. ASSUME NEW d \in Baskets, Validate(d), b = d PROVE BasketInv(b)'
    <2>1. CASE Ask(b)
      <3>1. /\ basket[b] = "idle" /\ basket'[b] = "asked" /\ before'[b] = Covered(b)
            /\ line'[b] = line[b] /\ ok'[b] = ok[b]
          BY <2>1 DEF Ask
      <3> QED
          BY <3>1, <1>a, <1>b, <1>c DEF BasketInv
    <2>2. CASE ReadLine(b)
      <3>1. /\ line[b] <= Len(Lines[b]) /\ line'[b] = line[b] + 1
            /\ ok'[b] = (ok[b] /\ Available(Lines[b][line[b]]))
            /\ basket'[b] = basket[b] /\ before'[b] = before[b] /\ basket[b] = "asked"
          BY <2>2 DEF ReadLine, OkSoFar
      <3>2. line[b] \in 1..Len(Lines[b])
          BY <3>1, <1>l
      <3>3. ASSUME ok'[b], NEW i \in 1..Len(Lines[b]), i < line'[b]
            PROVE  Available(Lines[b][i])'
        <4>1. i < line[b] \/ i = line[b]
            BY <3>1, <3>3, <1>l
        <4> QED
            BY <3>1, <3>3, <4>1, <1>a, <1>b DEF BasketInv
      <3>4. ASSUME ~ok'[b] PROVE ~before[b]
          BY <3>1, <3>2, <3>4, <1>b DEF BasketInv, Covered
      <3> QED
          BY <3>1, <3>3, <3>4, <1>b, <1>c DEF BasketInv
    <2>3. CASE Answer(b)
      <3>1. /\ line[b] > Len(Lines[b]) /\ basket'[b] = IF ok[b] THEN "accepted" ELSE "rejected"
            /\ line'[b] = line[b] /\ ok'[b] = ok[b] /\ before'[b] = before[b]
          BY <2>3 DEF Answer
      <3>2. ok[b] => Covered(b)
          BY <3>1, <1>b, <1>l DEF BasketInv, Covered
      <3> QED
          BY <3>1, <3>2, <1>a, <1>b, <1>c DEF BasketInv
    <2>4. CASE GiveUp(b)
        BY <2>4, <1>1 DEF GiveUp
    <2> QED
        BY <1>2, <2>1, <2>2, <2>3, <2>4 DEF Validate
  <1>3. ASSUME NEW d \in Baskets, Validate(d), b # d PROVE BasketInv(b)'
      BY <1>3, <1>1 DEF Validate, Ask, ReadLine, Answer, GiveUp
  <1>4. CASE Crash
      BY <1>4, <1>1 DEF Crash
  <1>5. CASE UNCHANGED basketVars
      BY <1>5, <1>1 DEF basketVars
  <1>6. ASSUME NEW p \in Created, CreateProduct(p) PROVE BasketInv(b)'
      BY <1>6, <1>5 DEF CreateProduct, CreateStep, ReceiveProduct, InsertProduct, InsertFails,
                        PublishProduct
  <1> QED
      BY <1>2, <1>3, <1>4, <1>5, <1>6
         DEF Next, Start, Count, InsertSeed, ServeGrpc, EnsureTopology, StartStep, BrokerChanges,
             vars

LEMMA InvStep == TypeOK /\ IInv /\ [Next]_vars => (TypeOK /\ IInv)'
  BY TypeStep, SeedInvStep, CreateInvStep, BasketInvStep DEF IInv

LEMMA InvInit == Init => TypeOK /\ IInv
  <1> SUFFICES ASSUME Init PROVE TypeOK /\ IInv
      OBVIOUS
  <1> USE Assumptions
  <1>1. TypeOK
      BY DEF Init, TypeOK
  <1>2. SeededUpTo(0)
      BY DEF Init, SeededUpTo, Prefix
  <1>3. \A p \in Created : CreateInv(p)
      BY DEF Init, CreateInv
  <1>4. \A b \in Baskets : BasketInv(b)
      BY DEF Init, BasketInv
  <1> QED
      BY <1>1, <1>2, <1>3, <1>4 DEF IInv, SeedInv

LEMMA InvCorrect == Spec => [](TypeOK /\ IInv)
  BY InvInit, InvStep, PTL DEF Spec

-----------------------------------------------------------------------------
\* The catalog service is type correct: no product is stored twice.
THEOREM TypeCorrect == Spec => []TypeOK
  BY InvCorrect, PTL

\* The answer to ValidateProducts is right of some moment of the call.
THEOREM VerdictIsRight == Spec => []VerdictFits
  <1>1. IInv => VerdictFits
      BY DEF IInv, BasketInv, VerdictFits
  <1> QED
      BY <1>1, InvCorrect, PTL

\* Whoever can ask the service finds a beginning of the seed, and all of it if
\* nothing has failed.
THEOREM SeedIsAPrefix == Spec => []SeedIsPrefix
  <1>1. TypeOK /\ IInv => SeedIsPrefix
    <2> SUFFICES ASSUME TypeOK, IInv, Listening
                 PROVE  \E n \in 1..Len(Seed) :
                           /\ \A i \in 1..Len(Seed) :
                                 stored[Seed[i]] = IF i <= n THEN 1 ELSE 0
                           /\ faults = 0 => n = Len(Seed)
        BY DEF SeedIsPrefix
    <2>1. PICK n \in 0..Len(Seed) : SeededUpTo(n)
        BY DEF IInv, SeedInv
    <2>2. n \in 1..Len(Seed) /\ Prefix(n) /\ (faults = 0 => n = Len(Seed))
        BY <2>1, Assumptions DEF SeededUpTo, Listening
    <2> QED
        BY <2>2 DEF Prefix
  <1> QED
      BY <1>1, InvCorrect, PTL

\* A product that was announced, or whose creation was answered, can be read.
THEOREM AnnouncedIsReadable == Spec => []AnnouncedIsStored
  <1>1. IInv => AnnouncedIsStored
      BY DEF IInv, CreateInv, AnnouncedIsStored
  <1> QED
      BY <1>1, InvCorrect, PTL
=============================================================================
