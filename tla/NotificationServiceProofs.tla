--------------------- MODULE NotificationServiceProofs ----------------------
(***************************************************************************)
(* Proofs about the notification service: type correctness, with the limit *)
(* of the prefetch; what a fault may cost in documents; and how far it may *)
(* disturb the list of a customer.                                         *)
(***************************************************************************)
EXTENDS NotificationService, FiniteSetTheorems, SequenceTheorems,
        NaturalsInduction, WellFoundedInduction, TLAPS

-----------------------------------------------------------------------------
(* The inductive invariants.                                                *)

\* Where the messages are: in hand only while there is a connection, or was one; those
\* of a connection that is alive, acks on their way included, are nowhere else, those of
\* one that is lost are the broker's too.
HandInv ==
    /\ work # "waiting" => hand # <<>>
    /\ link = "connecting" => hand = <<>>
    /\ link # "consuming" => acks = <<>>
    /\ link = "consuming" =>
          /\ \A i, j \in DOMAIN hand : hand[i] = hand[j] => i = j
          /\ (ToSet(hand) \union ToSet(acks)) \intersect (ready \union away) = {}
          /\ ToSet(hand) \intersect ToSet(acks) = {}
    /\ link = "lost" => ToSet(hand) \subseteq ready \union away
    /\ ready \intersect away = {}

\* The events that reached the queue.
Arrived == missed + 1..published

ArrivedInv ==
    /\ ~bound => missed = published
    /\ ready \union away \union ToSet(hand) \union ToSet(acks) \union ToSet(inbox)
          \subseteq Arrived

\* The message that the loop has inserted and will ack, on a connection that is alive.
InWork == IF link = "consuming" /\ work = "stored" THEN {Head(hand)} ELSE {}

\* The events whose message the loop is still to come to, now or when it comes again.
Ahead == ready \union away \union (ToSet(hand) \ InWork)

\* Those of them that have a document already.
Again == {e \in Ahead : e \in ToSet(inbox)}

\* The events that have none, and will not get one: the lost ones, and those whose
\* insert failed and whose ack is to come, or on its way.
Lacking == {e \in Arrived \ Ahead : e \notin ToSet(inbox)}

\* What the loop will insert of the messages in hand, if nothing happens.
Coming ==
    IF hand = <<>> THEN <<>>
    ELSE IF work = "stored" THEN Tail(hand) ELSE hand

\* How many messages are in hand on a connection that is lost: all of them come again.
Stale == IF link = "lost" THEN Len(Coming) ELSE 0

\* The documents too many, with those to come: one for each event that has a document, and
\* one for each message that the loop works on although it comes again.
Surplus == Duplicated + Cardinality(Again) + Stale

CostInv == Surplus + Prefetch * Cardinality(Lacking) <= Prefetch * faults

\* The documents, and those that are coming.
Series == inbox \o Coming

Descents(s) == {i \in 1..Len(s) - 1 : s[i] > s[i + 1]}

\* The newest of a series; 0: there is none.
Newest(s) == IF Len(s) = 0 THEN 0 ELSE s[Len(s)]

\* The queue begins with an event older than the newest of a series.
Behind(s) == \E e \in ready : e < Newest(s)

\* What may still put one more descent into the series: messages that come late, and those
\* that will be ready again.
Pending == (IF Behind(Series) THEN 1 ELSE 0) + (IF away # {} THEN 1 ELSE 0)

OrderInv == Cardinality(Descents(Series)) + Pending <= faults

-----------------------------------------------------------------------------
(* Sequences and sets.                                                      *)

\* A nonempty set of naturals has a least element.
LEMMA MinOfNaturals ==
    ASSUME NEW S, S \subseteq Nat, S # {}
    PROVE  Min(S) \in S /\ \A y \in S : Min(S) <= y
PROOF
<1> DEFINE R == {ss \in Nat \X Nat : ss[1] < ss[2]}
<1>1. IsWellFoundedOn(R, Nat)
    BY NatLessThanWellFounded, Zenon DEF OpToRel
<1>2. PICK x \in S : \A y \in S : <<y, x>> \notin R
  <2> HIDE DEF R
  <2> QED
      BY <1>1, WFMin
<1>3. ASSUME NEW y \in S
      PROVE  x <= y
  <2>1. x \in Nat /\ y \in Nat
      OBVIOUS
  <2>2. CASE y < x
    <3>1. <<y, x>> \in R
        BY <2>1, <2>2
    <3> QED
        BY <1>2, <3>1
  <2> QED
      BY <2>1, <2>2
<1> QED
    BY <1>2, <1>3, Zenon DEF Min

LEMMA ElementsOf ==
    ASSUME NEW S, NEW s \in Seq(S)
    PROVE  /\ Len(s) \in Nat /\ DOMAIN s = 1..Len(s)
           /\ \A i \in 1..Len(s) : s[i] \in S
           /\ ToSet(s) = {s[i] : i \in 1..Len(s)}
           /\ ToSet(s) \subseteq S
PROOF
<1>1. Len(s) \in Nat /\ DOMAIN s = 1..Len(s) /\ s \in [1..Len(s) -> S]
    BY LenProperties
<1>2. \A i \in 1..Len(s) : s[i] \in S
    BY <1>1
<1>3. ToSet(s) = {s[i] : i \in 1..Len(s)}
    BY <1>1, Zenon DEF ToSet
<1> QED
    BY <1>1, <1>2, <1>3

LEMMA NoElements ==
    /\ \A S : <<>> \in Seq(S)
    /\ Len(<<>>) = 0 /\ ToSet(<<>>) = {} /\ DOMAIN <<>> = {}
PROOF
<1>1. Len(<<>>) = 0 /\ \A S : <<>> \in Seq(S)
    BY EmptySeq
<1>2. DOMAIN <<>> = {}
    OBVIOUS
<1>3. ToSet(<<>>) = {}
    BY <1>2, Zenon DEF ToSet
<1> QED
    BY <1>1, <1>2, <1>3

LEMMA ElementsOfAppend ==
    ASSUME NEW S, NEW s \in Seq(S), NEW e \in S
    PROVE  /\ Append(s, e) \in Seq(S) /\ Len(Append(s, e)) = Len(s) + 1
           /\ \A i \in 1..Len(s) : Append(s, e)[i] = s[i]
           /\ Append(s, e)[Len(s) + 1] = e
           /\ ToSet(Append(s, e)) = ToSet(s) \union {e}
PROOF
<1>1. /\ Append(s, e) \in Seq(S) /\ Len(Append(s, e)) = Len(s) + 1
      /\ \A i \in 1..Len(s) : Append(s, e)[i] = s[i]
      /\ Append(s, e)[Len(s) + 1] = e
    BY AppendProperties
<1>2. Len(s) \in Nat
    BY ElementsOf
<1>3. 1..Len(s) + 1 = 1..Len(s) \union {Len(s) + 1}
    BY <1>2
<1>4. ToSet(Append(s, e)) = {Append(s, e)[i] : i \in 1..Len(s) + 1}
    BY <1>1, ElementsOf
<1>5. ToSet(s) = {s[i] : i \in 1..Len(s)}
    BY ElementsOf
<1>6. ToSet(Append(s, e)) = ToSet(s) \union {e}
    BY <1>1, <1>3, <1>4, <1>5
<1> QED
    BY <1>1, <1>6

LEMMA ElementsOfTail ==
    ASSUME NEW S, NEW s \in Seq(S), s # <<>>
    PROVE  /\ Head(s) = s[1] /\ Head(s) \in S /\ Head(s) \in ToSet(s)
           /\ Tail(s) \in Seq(S) /\ Len(Tail(s)) = Len(s) - 1 /\ Len(s) >= 1
           /\ \A i \in 1..Len(s) - 1 : Tail(s)[i] = s[i + 1]
           /\ ToSet(s) = {Head(s)} \union ToSet(Tail(s))
PROOF
<1>1. /\ Head(s) \in S /\ Tail(s) \in Seq(S) /\ Len(Tail(s)) = Len(s) - 1
      /\ \A i \in 1..Len(s) - 1 : Tail(s)[i] = s[i + 1]
    BY HeadTailProperties
<1>2. Len(s) \in Nat /\ Len(s) >= 1
    BY EmptySeq
<1>3. Head(s) = s[1]
    BY <1>2
<1>4. ToSet(s) = {s[i] : i \in 1..Len(s)}
    BY ElementsOf
<1>5. ToSet(Tail(s)) = {Tail(s)[i] : i \in 1..Len(s) - 1}
    BY <1>1, ElementsOf
<1>6. Head(s) \in ToSet(s)
    BY <1>2, <1>3, <1>4
<1>7. ToSet(Tail(s)) \subseteq ToSet(s)
  <2> SUFFICES ASSUME NEW i \in 1..Len(s) - 1
              PROVE  Tail(s)[i] \in ToSet(s)
      BY <1>5
  <2>1. i + 1 \in 1..Len(s) /\ Tail(s)[i] = s[i + 1]
      BY <1>1, <1>2
  <2> QED
      BY <1>4, <2>1
<1>8. ToSet(s) \subseteq {Head(s)} \union ToSet(Tail(s))
  <2> SUFFICES ASSUME NEW i \in 1..Len(s)
              PROVE  s[i] \in {Head(s)} \union ToSet(Tail(s))
      BY <1>4
  <2>1. CASE i = 1
      BY <1>3, <2>1
  <2>2. CASE i # 1
    <3>1. i - 1 \in 1..Len(s) - 1 /\ (i - 1) + 1 = i
        BY <1>2, <2>2
    <3>2. Tail(s)[i - 1] = s[i]
        BY <1>1, <3>1
    <3> QED
        BY <1>5, <3>1, <3>2
  <2> QED
      BY <2>1, <2>2
<1> QED
    BY <1>1, <1>2, <1>3, <1>6, <1>7, <1>8

\* A sequence without repetitions: its head does not come again.
LEMMA InjectiveTail ==
    ASSUME NEW S, NEW s \in Seq(S), s # <<>>, \A i, j \in DOMAIN s : s[i] = s[j] => i = j
    PROVE  /\ Head(s) \notin ToSet(Tail(s))
           /\ \A i, j \in DOMAIN Tail(s) : Tail(s)[i] = Tail(s)[j] => i = j
PROOF
<1>1. /\ Head(s) = s[1] /\ Tail(s) \in Seq(S) /\ Len(Tail(s)) = Len(s) - 1 /\ Len(s) >= 1
      /\ \A i \in 1..Len(s) - 1 : Tail(s)[i] = s[i + 1]
    BY ElementsOfTail
<1>2. Len(s) \in Nat /\ DOMAIN s = 1..Len(s)
    BY ElementsOf
<1>3. DOMAIN Tail(s) = 1..Len(s) - 1 /\ ToSet(Tail(s)) = {Tail(s)[i] : i \in 1..Len(s) - 1}
  <2>1. \A t \in Seq(S) : DOMAIN t = 1..Len(t) /\ ToSet(t) = {t[i] : i \in 1..Len(t)}
      BY ElementsOf
  <2>2. Tail(s) \in Seq(S) /\ Len(Tail(s)) = Len(s) - 1
      BY <1>1
  <2> QED
      BY <2>1, <2>2, Zenon
<1>4. \A i \in 1..Len(s) - 1 : i + 1 \in DOMAIN s /\ i + 1 # 1 /\ 1 \in DOMAIN s
    BY <1>2
<1>5. \A i \in 1..Len(s) - 1 : Tail(s)[i] # s[1]
    BY <1>1, <1>4
<1>6. ASSUME NEW i \in 1..Len(s) - 1, NEW j \in 1..Len(s) - 1, Tail(s)[i] = Tail(s)[j]
      PROVE  i = j
  <2>1. s[i + 1] = s[j + 1]
      BY <1>1, <1>6
  <2>2. i + 1 = j + 1
      BY <1>4, <2>1
  <2> QED
      BY <1>2, <2>2
<1> QED
    BY <1>1, <1>3, <1>5, <1>6

LEMMA InjectiveAppend ==
    ASSUME NEW S, NEW s \in Seq(S), NEW e \in S, e \notin ToSet(s),
           \A i, j \in DOMAIN s : s[i] = s[j] => i = j
    PROVE  \A i, j \in DOMAIN Append(s, e) : Append(s, e)[i] = Append(s, e)[j] => i = j
PROOF
<1>1. /\ Append(s, e) \in Seq(S) /\ Len(Append(s, e)) = Len(s) + 1
      /\ \A i \in 1..Len(s) : Append(s, e)[i] = s[i]
      /\ Append(s, e)[Len(s) + 1] = e
    BY ElementsOfAppend
<1>2. Len(s) \in Nat /\ DOMAIN s = 1..Len(s) /\ ToSet(s) = {s[i] : i \in 1..Len(s)}
    BY ElementsOf
<1>3. DOMAIN Append(s, e) = 1..Len(s) + 1
    BY <1>1, ElementsOf
<1>4. \A i \in 1..Len(s) : s[i] # e
    BY <1>2
<1>5. \A i \in 1..Len(s) + 1 : i \in 1..Len(s) \/ i = Len(s) + 1
    BY <1>2
<1> QED
    BY <1>1, <1>2, <1>3, <1>4, <1>5

-----------------------------------------------------------------------------
(* Types, and where the messages are.                                       *)

BaseInv == TypeOK /\ HandInv /\ ArrivedInv

LEMMA HandTypes ==
    ASSUME BaseInv
    PROVE  /\ hand \in Seq(Events) /\ inbox \in Seq(Events) /\ Len(hand) \in Nat
           /\ acks \in Seq(Events) /\ Len(acks) \in Nat /\ ToSet(acks) \subseteq Events
           /\ Len(hand) + Len(acks) <= Prefetch
           /\ published \in Nat /\ missed \in Nat /\ missed <= published /\ faults \in Nat
           /\ published <= LastEvent /\ LastEvent \in Nat /\ Prefetch \in Nat /\ Prefetch >= 1
           /\ ToSet(hand) \subseteq Events /\ ToSet(inbox) \subseteq Events
           /\ DOMAIN inbox = 1..Len(inbox) /\ Len(inbox) \in Nat
           /\ work # "waiting" => hand # <<>>
PROOF
<1>1. /\ hand \in Seq(Events) /\ inbox \in Seq(Events) /\ acks \in Seq(Events)
      /\ Len(hand) + Len(acks) <= Prefetch
    BY DEF BaseInv, TypeOK
<1>2. /\ ToSet(acks) \subseteq Events /\ Len(acks) \in Nat
      /\ ToSet(hand) \subseteq Events /\ ToSet(inbox) \subseteq Events
      /\ DOMAIN inbox = 1..Len(inbox) /\ Len(inbox) \in Nat /\ Len(hand) \in Nat
    BY <1>1, ElementsOf
<1>3. /\ published \in Nat /\ missed \in Nat /\ missed <= published /\ faults \in Nat
      /\ published <= LastEvent /\ LastEvent \in Nat /\ Prefetch \in Nat /\ Prefetch >= 1
    BY NotificationConstants DEF BaseInv, TypeOK
<1> QED
    BY <1>1, <1>2, <1>3 DEF BaseInv, HandInv

LEMMA InitBase == Init => BaseInv
PROOF
<1> SUFFICES ASSUME Init
            PROVE  BaseInv
    OBVIOUS
<1>1. TypeOK
  <2>1. published \in 0..LastEvent /\ missed \in 0..published /\ faults \in 0..MaxFaults
      BY NotificationConstants DEF Init
  <2>2. hand \in Seq(Events) /\ acks \in Seq(Events) /\ Len(hand) + Len(acks) <= Prefetch
      BY NotificationConstants, NoElements DEF Init
  <2>3. inbox \in Seq(Events) /\ read \subseteq DOMAIN inbox
      BY NoElements DEF Init
  <2> QED
      BY <2>1, <2>2, <2>3 DEF Init, TypeOK
<1>2. HandInv
    BY NoElements DEF Init, HandInv
<1>3. ArrivedInv
    BY NoElements DEF Init, ArrivedInv
<1> QED
    BY <1>1, <1>2, <1>3 DEF BaseInv

LEMMA FaultTypes ==
    ASSUME TypeOK, NEW kind, Fault(kind)
    PROVE  faults' \in 0..MaxFaults
PROOF
    BY NotificationConstants DEF Fault, TypeOK

LEMMA PublishBase == BaseInv /\ Publish => BaseInv'
PROOF
<1> SUFFICES ASSUME BaseInv, Publish
            PROVE  BaseInv'
    OBVIOUS
<1>1. /\ published < LastEvent /\ published' = published + 1
      /\ missed' = IF bound THEN missed ELSE missed + 1
      /\ ready' = IF bound THEN ready \union {published + 1} ELSE ready
      /\ UNCHANGED <<bound, away, link, hand, work, acks, inbox, read, faults>>
    BY DEF Publish, docVars
<1>2. published + 1 \in Events /\ published + 1 \notin Arrived
    BY <1>1, HandTypes DEF Events, Arrived
<1>3. ready \union away \union ToSet(hand) \union ToSet(acks) \union ToSet(inbox)
         \subseteq Arrived
    BY DEF BaseInv, ArrivedInv
<1>4. TypeOK'
  <2>1. published' \in 0..LastEvent /\ missed' \in 0..published'
      BY <1>1, HandTypes
  <2> QED
      BY <1>1, <1>2, <2>1 DEF BaseInv, TypeOK
<1>5. HandInv'
    BY <1>1, <1>2, <1>3 DEF BaseInv, HandInv
<1>6. ArrivedInv'
  <2>1. ~bound => Arrived = {} /\ missed = published
      BY HandTypes DEF BaseInv, ArrivedInv, Arrived
  <2>2. bound => Arrived' = Arrived \union {published + 1}
      BY <1>1, HandTypes DEF Arrived
  <2>3. /\ ToSet(hand)' = ToSet(hand) /\ ToSet(acks)' = ToSet(acks)
        /\ ToSet(inbox)' = ToSet(inbox)
      BY <1>1
  <2>4. (ready \union away \union ToSet(hand) \union ToSet(acks) \union ToSet(inbox))'
           \subseteq Arrived'
      BY <1>1, <1>3, <2>1, <2>2, <2>3
  <2>5. ~bound' => missed' = published'
      BY <1>1, <2>1
  <2> QED
      BY <2>4, <2>5 DEF ArrivedInv
<1> QED
    BY <1>4, <1>5, <1>6 DEF BaseInv

LEMMA ConnectBase == BaseInv /\ Connect => BaseInv'
PROOF
<1> SUFFICES ASSUME BaseInv, Connect
            PROVE  BaseInv'
    OBVIOUS
<1>1. /\ hand = <<>> /\ acks = <<>> /\ link' = "consuming" /\ bound' = TRUE
      /\ UNCHANGED <<published, missed, ready, away, hand, work, acks, inbox, read, faults>>
    BY DEF Connect, MayConnect, docVars, BaseInv, HandInv
<1>2. TypeOK'
    BY <1>1 DEF BaseInv, TypeOK
<1>3. HandInv'
    BY <1>1, NoElements DEF BaseInv, HandInv
<1>4. ArrivedInv'
    BY <1>1 DEF BaseInv, ArrivedInv, Arrived
<1> QED
    BY <1>2, <1>3, <1>4 DEF BaseInv

LEMMA ReceiveFacts ==
    ASSUME BaseInv, Receive
    PROVE  /\ Min(ready) \in ready /\ Min(ready) \in Events
           /\ \A e \in ready : Min(ready) <= e
           /\ ToSet(hand') = ToSet(hand) \union {Min(ready)}
           /\ hand' \in Seq(Events) /\ Len(hand') = Len(hand) + 1
           /\ Len(hand) + Len(acks) < Prefetch
           /\ hand' = Append(hand, Min(ready)) /\ ready' = ready \ {Min(ready)}
           /\ link = "consuming"
           /\ UNCHANGED <<published, missed, bound, away, link, work, acks, inbox, read, faults>>
PROOF
<1>1. /\ hand' = Append(hand, Min(ready)) /\ ready' = ready \ {Min(ready)} /\ ready # {}
      /\ link = "consuming" /\ Len(hand) + Len(acks) < Prefetch
      /\ UNCHANGED <<published, missed, bound, away, link, work, acks, inbox, read, faults>>
    BY DEF Receive, HasRoom, docVars, queueVars
<1>2. ready \subseteq Events /\ Events \subseteq Nat
    BY DEF BaseInv, TypeOK, Events
<1>3. Min(ready) \in ready /\ \A e \in ready : Min(ready) <= e
    BY <1>1, <1>2, MinOfNaturals
<1>4. hand \in Seq(Events)
    BY HandTypes
<1>5. \A e \in Events :
          /\ Append(hand, e) \in Seq(Events) /\ Len(Append(hand, e)) = Len(hand) + 1
          /\ ToSet(Append(hand, e)) = ToSet(hand) \union {e}
    BY <1>4, ElementsOfAppend
<1>6. Min(ready) \in Events
    BY <1>2, <1>3
<1>7. /\ ToSet(hand') = ToSet(hand) \union {Min(ready)}
      /\ hand' \in Seq(Events) /\ Len(hand') = Len(hand) + 1
    BY <1>1, <1>5, <1>6, Zenon
<1> QED
    BY <1>1, <1>3, <1>6, <1>7

LEMMA ReceiveBase == BaseInv /\ Receive => BaseInv'
PROOF
<1> SUFFICES ASSUME BaseInv, Receive
            PROVE  BaseInv'
    OBVIOUS
<1>1. /\ Min(ready) \in ready /\ Min(ready) \in Events
      /\ ToSet(hand') = ToSet(hand) \union {Min(ready)}
      /\ hand' \in Seq(Events) /\ Len(hand') = Len(hand) + 1
      /\ Len(hand) + Len(acks) < Prefetch
      /\ hand' = Append(hand, Min(ready)) /\ ready' = ready \ {Min(ready)}
      /\ link = "consuming"
      /\ UNCHANGED <<published, missed, bound, away, link, work, acks, inbox, read, faults>>
    BY ReceiveFacts
<1>2. TypeOK'
  <2>1. Len(hand') + Len(acks') <= Prefetch
      BY <1>1, HandTypes
  <2> QED
      BY <1>1, <2>1 DEF BaseInv, TypeOK
<1>3. HandInv'
  <2>1. hand' # <<>>
      BY <1>1, HandTypes, AppendProperties
  <2>2. /\ \A i, j \in DOMAIN hand : hand[i] = hand[j] => i = j
        /\ (ToSet(hand) \union ToSet(acks)) \intersect (ready \union away) = {}
        /\ ready \intersect away = {} /\ ToSet(hand) \intersect ToSet(acks) = {}
      BY <1>1 DEF BaseInv, HandInv
  <2>3. \A i, j \in DOMAIN hand' : hand'[i] = hand'[j] => i = j
    <3>1. Min(ready) \notin ToSet(hand)
        BY <1>1, <2>2
    <3>2. hand \in Seq(Events)
        BY HandTypes
    <3> QED
      <4>1. \A e \in Events : e \notin ToSet(hand) =>
                \A i, j \in DOMAIN Append(hand, e) : Append(hand, e)[i] = Append(hand, e)[j] => i = j
          BY <2>2, <3>2, InjectiveAppend
      <4> QED
          BY <1>1, <3>1, <4>1, Zenon
  <2>4. /\ (ToSet(hand') \union ToSet(acks')) \intersect (ready' \union away') = {}
        /\ ready' \intersect away' = {} /\ ToSet(hand') \intersect ToSet(acks') = {}
      BY <1>1, <2>2
  <2> QED
      BY <1>1, <2>1, <2>3, <2>4 DEF HandInv
<1>4. ArrivedInv'
  <2>1. ToSet(inbox') = ToSet(inbox) /\ Arrived' = Arrived
      BY <1>1 DEF Arrived
  <2> QED
      BY <1>1, <2>1 DEF BaseInv, ArrivedInv
<1> QED
    BY <1>2, <1>3, <1>4 DEF BaseInv

LEMMA ReturnBase == BaseInv /\ Return => BaseInv'
PROOF
<1> SUFFICES ASSUME BaseInv, Return
            PROVE  BaseInv'
    OBVIOUS
<1>1. /\ ready' = ready \union away /\ away' = {}
      /\ UNCHANGED <<published, missed, bound, link, hand, work, acks, inbox, read, faults>>
    BY DEF Return, docVars, queueVars
<1>2. TypeOK'
    BY <1>1 DEF BaseInv, TypeOK
<1>3. HandInv'
    BY <1>1 DEF BaseInv, HandInv
<1>4. ArrivedInv'
    BY <1>1 DEF BaseInv, ArrivedInv, Arrived
<1> QED
    BY <1>2, <1>3, <1>4 DEF BaseInv

\* What an insert does to the documents: none, or one more of the first message in hand.
LEMMA StoreFacts ==
    ASSUME BaseInv, hand # <<>>, Store
    PROVE  /\ inbox' \in Seq(Events) /\ Len(inbox') = Len(inbox) + 1
           /\ DOMAIN inbox \subseteq DOMAIN inbox'
           /\ ToSet(inbox') = ToSet(inbox) \union {Head(hand)}
           /\ Head(hand) \in ToSet(hand) /\ Head(hand) \in Events
PROOF
<1>1. Head(hand) \in Events /\ Head(hand) \in ToSet(hand)
    BY HandTypes, ElementsOfTail
<1>2. inbox' = Append(inbox, Head(hand)) /\ inbox \in Seq(Events)
    BY HandTypes DEF Store
<1>3. inbox' \in Seq(Events) /\ Len(inbox') = Len(inbox) + 1
      /\ ToSet(inbox') = ToSet(inbox) \union {Head(hand)}
  <2>1. \A s \in Seq(Events), e \in Events :
            /\ Append(s, e) \in Seq(Events) /\ Len(Append(s, e)) = Len(s) + 1
            /\ ToSet(Append(s, e)) = ToSet(s) \union {e}
      BY ElementsOfAppend
  <2> QED
      BY <1>1, <1>2, <2>1, Zenon
<1>4. DOMAIN inbox = 1..Len(inbox) /\ Len(inbox) \in Nat
    BY <1>2, ElementsOf
<1>5. DOMAIN inbox' = 1..Len(inbox) + 1
  <2>1. \A t \in Seq(Events) : DOMAIN t = 1..Len(t)
      BY ElementsOf
  <2> QED
      BY <1>3, <2>1, Zenon
<1>6. DOMAIN inbox \subseteq DOMAIN inbox'
    BY <1>4, <1>5
<1> QED
    BY <1>1, <1>3, <1>6

\* A step of the loop that leaves the messages where they are: Take, Insert, InsertFails.
LEMMA WorkBase ==
    ASSUME BaseInv, NEW from, NEW to, WorkStep(from, to), hand # <<>>,
           to \in {"waiting", "inserting", "stored"},
           link' = link, hand' = hand, acks' = acks, inbox' = inbox \/ Store, faults' \in 0..MaxFaults
    PROVE  BaseInv'
PROOF
<1>1. /\ work' = to /\ UNCHANGED <<published, missed, bound, ready, away, read>>
    BY DEF WorkStep, queueVars
<1>2. /\ inbox' \in Seq(Events) /\ DOMAIN inbox \subseteq DOMAIN inbox'
      /\ ToSet(inbox') \subseteq ToSet(inbox) \union ToSet(hand)
    BY HandTypes, StoreFacts
<1>3. TypeOK'
    BY <1>1, <1>2 DEF BaseInv, TypeOK
<1>4. HandInv'
    BY <1>1 DEF BaseInv, HandInv
<1>5. ArrivedInv'
  <2>1. Arrived' = Arrived
      BY <1>1 DEF Arrived
  <2> QED
      BY <1>1, <1>2, <2>1 DEF BaseInv, ArrivedInv
<1> QED
    BY <1>3, <1>4, <1>5 DEF BaseInv

LEMMA LoopBase == BaseInv /\ (Take \/ Insert \/ InsertFails) => BaseInv'
PROOF
<1> SUFFICES ASSUME BaseInv, Take \/ Insert \/ InsertFails
            PROVE  BaseInv'
    OBVIOUS
<1>1. faults \in 0..MaxFaults
    BY DEF BaseInv, TypeOK
<1>2. CASE Take
    BY <1>1, <1>2, WorkBase DEF Take
<1>3. CASE Insert
  <2>1. hand # <<>>
      BY <1>3, HandTypes DEF Insert, WorkStep
  <2> QED
      BY <1>1, <1>3, <2>1, WorkBase DEF Insert
<1>4. CASE InsertFails
  <2>1. hand # <<>>
      BY <1>4, HandTypes DEF InsertFails, WorkStep
  <2>2. faults' \in 0..MaxFaults
      BY <1>4, FaultTypes DEF InsertFails, BaseInv
  <2> QED
      BY <1>4, <2>1, <2>2, WorkBase DEF InsertFails
<1> QED
    BY <1>2, <1>3, <1>4

LEMMA AckBase == BaseInv /\ Ack => BaseInv'
PROOF
<1> SUFFICES ASSUME BaseInv, Ack
            PROVE  BaseInv'
    OBVIOUS
<1>1. /\ work = "stored" /\ work' = "waiting"
      /\ UNCHANGED <<published, missed, bound, ready, away, inbox, read, faults>>
    BY DEF Ack, WorkStep, queueVars
<1>2. /\ hand # <<>> /\ hand \in Seq(Events) /\ Len(hand) \in Nat
      /\ acks \in Seq(Events) /\ Len(acks) \in Nat /\ Len(hand) + Len(acks) <= Prefetch
      /\ ToSet(acks) \subseteq Events /\ Prefetch \in Nat
    BY <1>1, HandTypes
<1>3. /\ Tail(hand) \in Seq(Events) /\ Len(Tail(hand)) = Len(hand) - 1
      /\ Head(hand) \in ToSet(hand) /\ Head(hand) \in Events
      /\ ToSet(Tail(hand)) \subseteq ToSet(hand)
    BY <1>2, ElementsOfTail
<1>4. CASE link = "consuming" /\ hand' = Tail(hand) /\ acks' = Append(acks, Head(hand))
           /\ UNCHANGED link
  <2>1. /\ acks' \in Seq(Events) /\ Len(acks') = Len(acks) + 1
        /\ ToSet(acks') = ToSet(acks) \union {Head(hand)}
    <3>1. \A e \in Events : /\ Append(acks, e) \in Seq(Events)
                            /\ Len(Append(acks, e)) = Len(acks) + 1
                            /\ ToSet(Append(acks, e)) = ToSet(acks) \union {e}
        BY <1>2, ElementsOfAppend
    <3> QED
        BY <1>3, <1>4, <3>1, Zenon
  <2>2. \A i, j \in DOMAIN hand : hand[i] = hand[j] => i = j
      BY <1>4 DEF BaseInv, HandInv
  <2>3. /\ Head(hand) \notin ToSet(hand')
        /\ \A i, j \in DOMAIN hand' : hand'[i] = hand'[j] => i = j
      BY <1>2, <1>4, <2>2, InjectiveTail, Zenon
  <2>4. TypeOK'
    <3>1. Len(hand') + Len(acks') <= Prefetch
        BY <1>2, <1>3, <1>4, <2>1
    <3> QED
        BY <1>1, <1>3, <1>4, <2>1, <3>1 DEF BaseInv, TypeOK
  <2>5. HandInv'
      BY <1>1, <1>3, <1>4, <2>1, <2>3 DEF BaseInv, HandInv
  <2>6. ArrivedInv'
      BY <1>1, <1>3, <1>4, <2>1 DEF BaseInv, ArrivedInv, Arrived
  <2> QED
      BY <2>4, <2>5, <2>6 DEF BaseInv
<1>5. CASE link = "lost" /\ hand' = Tail(hand) /\ UNCHANGED <<link, acks>>
  <2>1. TypeOK'
    <3>1. Len(hand') + Len(acks') <= Prefetch
        BY <1>2, <1>3, <1>5
    <3> QED
        BY <1>1, <1>3, <1>5, <3>1 DEF BaseInv, TypeOK
  <2>2. HandInv'
      BY <1>1, <1>3, <1>5 DEF BaseInv, HandInv
  <2>3. ArrivedInv'
      BY <1>1, <1>3, <1>5 DEF BaseInv, ArrivedInv, Arrived
  <2> QED
      BY <2>1, <2>2, <2>3 DEF BaseInv
<1>6. CASE link = "lost" /\ hand' = <<>> /\ link' = "connecting" /\ UNCHANGED acks
  <2>1. hand' \in Seq(Events) /\ Len(hand') = 0 /\ ToSet(hand') = {}
      BY <1>6, NoElements
  <2>2. TypeOK'
    <3>1. Len(hand') + Len(acks') <= Prefetch
        BY <1>2, <1>6, <2>1
    <3> QED
        BY <1>1, <1>6, <2>1, <3>1 DEF BaseInv, TypeOK
  <2>3. HandInv'
      BY <1>1, <1>6, <2>1 DEF BaseInv, HandInv
  <2>4. ArrivedInv'
      BY <1>1, <1>6, <2>1 DEF BaseInv, ArrivedInv, Arrived
  <2> QED
      BY <2>2, <2>3, <2>4 DEF BaseInv
<1> QED
    BY <1>4, <1>5, <1>6 DEF Ack

LEMMA ArrivesBase == BaseInv /\ AckArrives => BaseInv'
PROOF
<1> SUFFICES ASSUME BaseInv, AckArrives
            PROVE  BaseInv'
    OBVIOUS
<1>1. /\ acks # <<>> /\ acks' = Tail(acks)
      /\ UNCHANGED <<published, missed, bound, ready, away, link, hand, work, inbox, read, faults>>
    BY DEF AckArrives, queueVars, docVars
<1>2. /\ acks \in Seq(Events) /\ Len(acks) \in Nat /\ Len(hand) \in Nat
      /\ Len(hand) + Len(acks) <= Prefetch /\ Prefetch \in Nat
    BY HandTypes
<1>3. /\ acks' \in Seq(Events) /\ Len(acks') = Len(acks) - 1
      /\ ToSet(acks') \subseteq ToSet(acks)
    BY <1>1, <1>2, ElementsOfTail
<1>4. link = "consuming"
    BY <1>1 DEF BaseInv, HandInv
<1>5. TypeOK'
  <2>1. Len(hand') + Len(acks') <= Prefetch
      BY <1>1, <1>2, <1>3
  <2> QED
      BY <1>1, <1>3, <2>1 DEF BaseInv, TypeOK
<1>6. HandInv'
    BY <1>1, <1>3, <1>4 DEF BaseInv, HandInv
<1>7. ArrivedInv'
    BY <1>1, <1>3 DEF BaseInv, ArrivedInv, Arrived
<1> QED
    BY <1>5, <1>6, <1>7 DEF BaseInv

LEMMA LoseBase == BaseInv /\ LoseConnection => BaseInv'
PROOF
<1> SUFFICES ASSUME BaseInv, LoseConnection
            PROVE  BaseInv'
    OBVIOUS
<1>1. /\ link = "consuming" /\ link' = "lost" /\ acks' = <<>>
      /\ away' = away \union ToSet(hand) \union ToSet(acks)
      /\ UNCHANGED <<published, missed, bound, ready, hand, work, inbox, read>>
    BY DEF LoseConnection, Unacked, queueVars, docVars
<1>2. acks' \in Seq(Events) /\ Len(acks') = 0 /\ ToSet(acks') = {}
    BY <1>1, NoElements
<1>3. TypeOK'
  <2>1. faults' \in 0..MaxFaults
      BY FaultTypes DEF LoseConnection, BaseInv
  <2>2. Len(hand') + Len(acks') <= Prefetch
      BY <1>1, <1>2, HandTypes
  <2> QED
      BY <1>1, <1>2, <2>1, <2>2, HandTypes DEF BaseInv, TypeOK
<1>4. HandInv'
    BY <1>1 DEF BaseInv, HandInv
<1>5. ArrivedInv'
    BY <1>1, <1>2 DEF BaseInv, ArrivedInv, Arrived
<1> QED
    BY <1>3, <1>4, <1>5 DEF BaseInv

\* What the broker holds for the connection of the loop.
LEMMA UnackedFacts ==
    ASSUME BaseInv
    PROVE  /\ Unacked \subseteq ToSet(hand) \union ToSet(acks) /\ Unacked \subseteq Events
           /\ Unacked \intersect (ready \union away) = {}
           /\ link # "consuming" => Unacked = {}
PROOF
<1>1. Unacked \subseteq ToSet(hand) \union ToSet(acks)
    BY DEF Unacked
<1>2. ToSet(hand) \subseteq Events /\ ToSet(acks) \subseteq Events
    BY HandTypes
<1>3. Unacked \intersect (ready \union away) = {}
    BY DEF Unacked, BaseInv, HandInv
<1> QED
    BY <1>1, <1>2, <1>3 DEF Unacked

\* The end of the process, with some messages acked or rejected, or none.
LEMMA RestartBase ==
    ASSUME BaseInv, NEW settled, Restart(settled), faults' \in 0..MaxFaults,
           inbox' = inbox \/ (hand # <<>> /\ Store)
    PROVE  BaseInv'
PROOF
<1>1. /\ link' = "connecting" /\ hand' = <<>> /\ work' = "waiting" /\ acks' = <<>>
      /\ away' = away \union (Unacked \ settled)
      /\ UNCHANGED <<published, missed, bound, ready, read>>
    BY DEF Restart, queueVars
<1>2. /\ Unacked \subseteq ToSet(hand) \union ToSet(acks) /\ Unacked \subseteq Events
      /\ Unacked \intersect (ready \union away) = {}
    BY UnackedFacts
<1>3. /\ inbox' \in Seq(Events) /\ DOMAIN inbox \subseteq DOMAIN inbox'
      /\ ToSet(inbox') \subseteq ToSet(inbox) \union ToSet(hand)
    BY HandTypes, StoreFacts
<1>4. /\ hand' \in Seq(Events) /\ Len(hand') = 0 /\ ToSet(hand') = {}
      /\ acks' \in Seq(Events) /\ Len(acks') = 0 /\ ToSet(acks') = {}
    BY <1>1, NoElements
<1>5. TypeOK'
  <2>1. Len(hand') + Len(acks') <= Prefetch
      BY <1>4, HandTypes
  <2> QED
      BY <1>1, <1>2, <1>3, <1>4, <2>1 DEF BaseInv, TypeOK
<1>6. ready' \intersect away' = {}
    BY <1>1, <1>2 DEF BaseInv, HandInv
<1>7. HandInv'
    BY <1>1, <1>6 DEF HandInv
<1>8. ArrivedInv'
    BY <1>1, <1>2, <1>3, <1>4 DEF BaseInv, ArrivedInv, Arrived
<1> QED
    BY <1>5, <1>7, <1>8 DEF BaseInv

LEMMA EndBase == BaseInv /\ (Crash \/ Shutdown) => BaseInv'
PROOF
<1> SUFFICES ASSUME BaseInv, Crash \/ Shutdown
            PROVE  BaseInv'
    OBVIOUS
<1>1. faults' \in 0..MaxFaults
    BY FaultTypes DEF Crash, Shutdown, BaseInv
<1>2. CASE Crash
    BY <1>1, <1>2, RestartBase DEF Crash
<1>3. CASE Shutdown
  <2>1. inbox' = inbox \/ (hand # <<>> /\ Store)
      BY <1>3, HandTypes DEF Shutdown
  <2> QED
      BY <1>1, <1>3, <2>1, RestartBase DEF Shutdown
<1> QED
    BY <1>2, <1>3

LEMMA RestBase ==
    ASSUME BaseInv, (\E i \in DOMAIN inbox : MarkAsRead(i)) \/ UNCHANGED vars
    PROVE  BaseInv' /\ UNCHANGED <<published, missed, bound, ready, away, link, hand, work, acks, inbox, faults>>
PROOF
<1>1. UNCHANGED <<published, missed, bound, ready, away, link, hand, work, acks, inbox, faults>>
    BY DEF MarkAsRead, vars, queueVars, docVars
<1>2. read' \subseteq DOMAIN inbox'
    BY <1>1 DEF MarkAsRead, vars, docVars, BaseInv, TypeOK
<1>3. TypeOK'
    BY <1>1, <1>2 DEF BaseInv, TypeOK
<1>4. HandInv'
    BY <1>1 DEF BaseInv, HandInv
<1>5. ArrivedInv'
    BY <1>1 DEF BaseInv, ArrivedInv, Arrived
<1> QED
    BY <1>1, <1>3, <1>4, <1>5 DEF BaseInv

LEMMA BaseInductive == BaseInv /\ [Next]_vars => BaseInv'
PROOF
<1> SUFFICES ASSUME BaseInv, [Next]_vars
            PROVE  BaseInv'
    OBVIOUS
<1>1. CASE Publish \/ Connect \/ Receive \/ Return
    BY <1>1, PublishBase, ConnectBase, ReceiveBase, ReturnBase
<1>2. CASE Take \/ Insert \/ InsertFails \/ Ack \/ AckArrives
    BY <1>2, LoopBase, AckBase, ArrivesBase
<1>3. CASE LoseConnection \/ Crash \/ Shutdown
    BY <1>3, LoseBase, EndBase
<1>4. CASE (\E i \in DOMAIN inbox : MarkAsRead(i)) \/ UNCHANGED vars
    BY <1>4, RestBase
<1> QED
    BY <1>1, <1>2, <1>3, <1>4, Zenon DEF Next, Process

\* Every variable of the notification service keeps its type: the messages in hand and
\* the acks on their way are never more than the prefetch, through lost connections and
\* restarts.
THEOREM TypeCorrect == Spec => []TypeOK
PROOF
<1>1. BaseInv => TypeOK
    BY DEF BaseInv
<1> QED
    BY <1>1, InitBase, BaseInductive, PTL DEF Spec

-----------------------------------------------------------------------------
(* What a fault may cost in documents.                                      *)

LEMMA EventSets ==
    ASSUME NEW A, NEW B, A \subseteq Events, B \subseteq Events
    PROVE  /\ Cardinality(A) \in Nat /\ Cardinality(B) \in Nat
           /\ A \subseteq B => Cardinality(A) <= Cardinality(B)
           /\ \A x : A \subseteq B \union {x} => Cardinality(A) <= Cardinality(B) + 1
           /\ \A x \in B : A \subseteq B \ {x} => Cardinality(A) <= Cardinality(B) - 1
PROOF
<1>1. IsFiniteSet(Events)
    BY FS_Interval, NotificationConstants DEF Events
<1>2. IsFiniteSet(A) /\ IsFiniteSet(B)
    BY <1>1, FS_Subset
<1>3. Cardinality(A) \in Nat /\ Cardinality(B) \in Nat
    BY <1>2, FS_CardinalityType
<1>4. A \subseteq B => Cardinality(A) <= Cardinality(B)
    BY <1>2, FS_Subset
<1>5. ASSUME NEW x, A \subseteq B \union {x}
      PROVE  Cardinality(A) <= Cardinality(B) + 1
  <2>1. /\ IsFiniteSet(B \union {x})
        /\ Cardinality(B \union {x}) = IF x \in B THEN Cardinality(B) ELSE Cardinality(B) + 1
      BY <1>2, FS_AddElement, Zenon
  <2>2. Cardinality(A) <= Cardinality(B \union {x})
      BY <1>5, <2>1, FS_Subset
  <2> QED
      BY <1>3, <2>1, <2>2
<1>6. ASSUME NEW x \in B, A \subseteq B \ {x}
      PROVE  Cardinality(A) <= Cardinality(B) - 1
  <2>1. IsFiniteSet(B \ {x}) /\ Cardinality(B \ {x}) = Cardinality(B) - 1
      BY <1>2, FS_RemoveElement
  <2>2. Cardinality(A) <= Cardinality(B \ {x})
      BY <1>6, <2>1, FS_Subset
  <2> QED
      BY <2>1, <2>2
<1> QED
    BY <1>3, <1>4, <1>5, <1>6

\* A sequence has no more elements than places.
LEMMA ElementsCount ==
    ASSUME NEW s \in Seq(Events)
    PROVE  Cardinality(ToSet(s)) \in Nat /\ Cardinality(ToSet(s)) <= Len(s)
PROOF
<1>1. Len(s) \in Nat /\ ToSet(s) = {s[i] : i \in 1..Len(s)} /\ ToSet(s) \subseteq Events
    BY ElementsOf
<1>2. IsFiniteSet(1..Len(s)) /\ Cardinality(1..Len(s)) = Len(s)
    BY <1>1, FS_Interval
<1> DEFINE f == [i \in 1..Len(s) |-> s[i]]
<1>3. f \in Surjection(1..Len(s), ToSet(s))
    BY <1>1 DEF Surjection
<1>4. Cardinality(ToSet(s)) <= Cardinality(1..Len(s))
    BY <1>2, <1>3, FS_Surjection
<1> QED
    BY <1>1, <1>2, <1>4, EventSets

LEMMA Products ==
    ASSUME NEW p \in Nat, NEW m \in Nat, NEW n \in Nat
    PROVE  /\ p * m \in Nat
           /\ m <= n => p * m <= p * n
           /\ p * (n + 1) = p * n + p
PROOF
<1>1. p * m \in Nat /\ p * (n + 1) = p * n + p
    OBVIOUS
<1>2. ASSUME m <= n
      PROVE  p * m <= p * n
  <2>1. PICK k \in Nat : n = m + k
    <3>1. n - m \in Nat /\ n = m + (n - m)
        BY <1>2
    <3> QED
        BY <3>1
  <2>2. p * n = p * m + p * k
      BY <2>1
  <2>3. p * k \in Nat
      BY <2>1
  <2> QED
      BY <1>1, <2>2, <2>3
<1> QED
    BY <1>1, <1>2

LEMMA ComingTypes ==
    ASSUME BaseInv
    PROVE  /\ Coming \in Seq(Events) /\ ToSet(Coming) \subseteq ToSet(hand)
           /\ Len(Coming) \in Nat
           /\ Len(Coming) = IF work = "stored" THEN Len(hand) - 1 ELSE Len(hand)
           /\ work = "stored" => hand # <<>>
PROOF
<1>1. hand \in Seq(Events) /\ Len(hand) \in Nat /\ (work = "stored" => hand # <<>>)
    BY HandTypes
<1>2. <<>> \in Seq(Events) /\ ToSet(<<>>) = {} /\ Len(<<>>) = 0
    BY NoElements, Zenon
<1>3. CASE hand = <<>>
  <2>1. Coming = <<>> /\ work # "stored"
      BY <1>1, <1>3 DEF Coming
  <2> QED
      BY <1>1, <1>2, <1>3, <2>1
<1>4. CASE hand # <<>>
  <2>1. /\ Tail(hand) \in Seq(Events) /\ Len(Tail(hand)) = Len(hand) - 1 /\ Len(hand) >= 1
        /\ ToSet(Tail(hand)) \subseteq ToSet(hand)
      BY <1>1, <1>4, ElementsOfTail
  <2>2. Coming = IF work = "stored" THEN Tail(hand) ELSE hand
      BY <1>4 DEF Coming
  <2> QED
      BY <1>1, <2>1, <2>2
<1> QED
    BY <1>3, <1>4

LEMMA CostTypes ==
    BaseInv =>
        /\ Again \subseteq Events /\ Lacking \subseteq Events /\ Ahead \subseteq Events
        /\ Cardinality(Again) \in Nat /\ Cardinality(Lacking) \in Nat
        /\ Duplicated \in Int /\ Stale \in Nat /\ faults \in Nat
        /\ Surplus = Duplicated + Cardinality(Again) + Stale /\ Surplus \in Int
PROOF
<1> SUFFICES ASSUME BaseInv
            PROVE  /\ Again \subseteq Events /\ Lacking \subseteq Events /\ Ahead \subseteq Events
                   /\ Cardinality(Again) \in Nat /\ Cardinality(Lacking) \in Nat
                   /\ Duplicated \in Int /\ Stale \in Nat /\ faults \in Nat
                   /\ Surplus = Duplicated + Cardinality(Again) + Stale /\ Surplus \in Int
    OBVIOUS
<1>1. Ahead \subseteq Events
    BY HandTypes DEF Ahead, BaseInv, TypeOK
<1>2. Arrived \subseteq Events
  <2>1. /\ published \in Nat /\ missed \in Nat /\ published <= LastEvent /\ LastEvent \in Nat
      BY HandTypes
  <2> QED
      BY <2>1 DEF Arrived, Events
<1>3. Again \subseteq Events /\ Lacking \subseteq Events
    BY <1>1, <1>2 DEF Again, Lacking
<1>4. Cardinality(Again) \in Nat /\ Cardinality(Lacking) \in Nat
    BY <1>3, EventSets
<1>5. Duplicated \in Int
  <2>1. Cardinality(ToSet(inbox)) \in Nat /\ Len(inbox) \in Nat
      BY HandTypes, EventSets
  <2> QED
      BY <2>1 DEF Duplicated
<1>6. Stale \in Nat
    BY ComingTypes DEF Stale
<1> QED
    BY <1>1, <1>3, <1>4, <1>5, <1>6, HandTypes DEF Surplus

LEMMA CostTypesPrimed ==
    BaseInv' =>
        /\ Again' \subseteq Events /\ Lacking' \subseteq Events
        /\ Cardinality(Again') \in Nat /\ Cardinality(Lacking') \in Nat
        /\ Duplicated' \in Int /\ Stale' \in Nat /\ faults' \in Nat
        /\ Surplus' = Duplicated' + Cardinality(Again') + Stale' /\ Surplus' \in Int
PROOF
<1>1. BaseInv' =>
        (/\ Again \subseteq Events /\ Lacking \subseteq Events /\ Ahead \subseteq Events
         /\ Cardinality(Again) \in Nat /\ Cardinality(Lacking) \in Nat
         /\ Duplicated \in Int /\ Stale \in Nat /\ faults \in Nat
         /\ Surplus = Duplicated + Cardinality(Again) + Stale /\ Surplus \in Int)'
    BY CostTypes, PTL
<1> QED
    BY <1>1 DEF Events

\* One more document is one too many if its event has one already.
LEMMA StoreDuplicates ==
    ASSUME BaseInv, hand # <<>>, Store
    PROVE  Duplicated' = Duplicated + (IF Head(hand) \in ToSet(inbox) THEN 1 ELSE 0)
PROOF
<1>1. /\ Len(inbox') = Len(inbox) + 1 /\ ToSet(inbox') = ToSet(inbox) \union {Head(hand)}
    BY StoreFacts
<1>2. Len(inbox) \in Nat /\ ToSet(inbox) \subseteq Events /\ LastEvent \in Nat
    BY HandTypes
<1>3. IsFiniteSet(ToSet(inbox))
  <2>1. IsFiniteSet(Events)
      BY <1>2, FS_Interval DEF Events
  <2> QED
      BY <1>2, <2>1, FS_Subset
<1>4. Cardinality(ToSet(inbox) \union {Head(hand)}) =
         IF Head(hand) \in ToSet(inbox) THEN Cardinality(ToSet(inbox))
                                       ELSE Cardinality(ToSet(inbox)) + 1
    BY <1>3, FS_AddElement, Zenon
<1>5. Cardinality(ToSet(inbox)) \in Nat
    BY <1>2, EventSets
<1>6. Duplicated' = Len(inbox') - Cardinality(ToSet(inbox'))
    BY DEF Duplicated
<1> QED
    BY <1>1, <1>2, <1>4, <1>5, <1>6 DEF Duplicated

\* A step that no fault pays for has neither more documents too many nor more too few.
LEMMA CostKept ==
    ASSUME BaseInv, BaseInv', CostInv, faults' >= faults,
           Duplicated' + Cardinality(Again') + Stale' <= Duplicated + Cardinality(Again) + Stale,
           Cardinality(Lacking') <= Cardinality(Lacking)
    PROVE  CostInv'
PROOF
<1>1. /\ Surplus' <= Surplus /\ Surplus \in Int /\ Surplus' \in Int
      /\ Cardinality(Lacking) \in Nat /\ Cardinality(Lacking') \in Nat
      /\ faults \in Nat /\ faults' \in Nat /\ Prefetch \in Nat
    BY CostTypes, CostTypesPrimed, HandTypes
<1>2. Surplus + Prefetch * Cardinality(Lacking) <= Prefetch * faults
    BY DEF CostInv
<1>3. /\ Prefetch * Cardinality(Lacking') <= Prefetch * Cardinality(Lacking)
      /\ Prefetch * faults <= Prefetch * faults'
      /\ Prefetch * Cardinality(Lacking') \in Nat /\ Prefetch * Cardinality(Lacking) \in Nat
      /\ Prefetch * faults \in Nat /\ Prefetch * faults' \in Nat
    BY <1>1, Products
<1>4. Surplus' + Prefetch * Cardinality(Lacking') <= Prefetch * faults
  <2>1. \A s, t \in Int, l, m, f \in Nat :
           t <= s /\ m <= l /\ s + l <= f => t + m <= f
      OBVIOUS
  <2> QED
      BY <1>1, <1>2, <1>3, <2>1, Zenon
<1>5. Surplus' + Prefetch * Cardinality(Lacking') <= Prefetch * faults'
  <2>1. \A t \in Int, m, f, g \in Nat : f <= g /\ t + m <= f => t + m <= g
      OBVIOUS
  <2> QED
      BY <1>1, <1>3, <1>4, <2>1, Zenon
<1> QED
    BY <1>5 DEF CostInv

\* A fault pays for as many too many as may be unacked, or for one too few.
LEMMA CostPaid ==
    ASSUME BaseInv, BaseInv', CostInv, faults' = faults + 1,
           \/ /\ Duplicated' + Cardinality(Again') + Stale'
                   <= Duplicated + Cardinality(Again) + Stale + Prefetch
              /\ Cardinality(Lacking') <= Cardinality(Lacking)
           \/ /\ Duplicated' + Cardinality(Again') + Stale'
                   <= Duplicated + Cardinality(Again) + Stale
              /\ Cardinality(Lacking') <= Cardinality(Lacking) + 1
    PROVE  CostInv'
PROOF
<1>1. /\ Surplus \in Int /\ Surplus' \in Int
      /\ Cardinality(Lacking) \in Nat /\ Cardinality(Lacking') \in Nat
      /\ faults \in Nat /\ Prefetch \in Nat /\ Cardinality(Lacking) + 1 \in Nat
  <2>1. /\ Surplus \in Int /\ Surplus' \in Int /\ Prefetch \in Nat
        /\ Cardinality(Lacking) \in Nat /\ Cardinality(Lacking') \in Nat /\ faults \in Nat
      BY CostTypes, CostTypesPrimed, HandTypes, Zenon
  <2>2. \A n \in Nat : n + 1 \in Nat
      OBVIOUS
  <2> QED
      BY <2>1, <2>2, Zenon
<1>2. Surplus + Prefetch * Cardinality(Lacking) <= Prefetch * faults
    BY DEF CostInv
<1>3. /\ Prefetch * Cardinality(Lacking) \in Nat /\ Prefetch * Cardinality(Lacking') \in Nat
      /\ Prefetch * faults \in Nat
    BY <1>1, Products
<1>4. Prefetch * faults' = Prefetch * faults + Prefetch
    BY <1>1, Products
<1>5. CASE /\ Surplus' <= Surplus + Prefetch
           /\ Cardinality(Lacking') <= Cardinality(Lacking)
  <2>1. Prefetch * Cardinality(Lacking') <= Prefetch * Cardinality(Lacking)
      BY <1>1, <1>5, Products
  <2>2. \A s, t \in Int, l, m, f, p \in Nat :
           t <= s + p /\ m <= l /\ s + l <= f => t + m <= f + p
      OBVIOUS
  <2>3. Surplus' + Prefetch * Cardinality(Lacking') <= Prefetch * faults + Prefetch
      BY <1>1, <1>2, <1>3, <1>5, <2>1, <2>2, Zenon
  <2> QED
      BY <1>4, <2>3 DEF CostInv
<1>6. CASE /\ Surplus' <= Surplus
           /\ Cardinality(Lacking') <= Cardinality(Lacking) + 1
  <2>1. Prefetch * Cardinality(Lacking') <= Prefetch * (Cardinality(Lacking) + 1)
      BY <1>1, <1>6, Products
  <2>2. Prefetch * (Cardinality(Lacking) + 1) = Prefetch * Cardinality(Lacking) + Prefetch
      BY <1>1, Products
  <2>3. \A s, t \in Int, l, m, f, p \in Nat :
           t <= s /\ m <= l + p /\ s + l <= f => t + m <= f + p
      OBVIOUS
  <2>4. Prefetch * Cardinality(Lacking') <= Prefetch * Cardinality(Lacking) + Prefetch
      BY <2>1, <2>2
  <2>5. Surplus' + Prefetch * Cardinality(Lacking') <= Prefetch * faults + Prefetch
      BY <1>1, <1>2, <1>3, <1>6, <2>3, <2>4, Zenon
  <2> QED
      BY <1>4, <2>5 DEF CostInv
<1>7. Surplus = Duplicated + Cardinality(Again) + Stale
      /\ Surplus' = Duplicated' + Cardinality(Again') + Stale'
    BY CostTypes, CostTypesPrimed
<1> QED
    BY <1>5, <1>6, <1>7

LEMMA InitCost == Init => CostInv
PROOF
<1> SUFFICES ASSUME Init
            PROVE  CostInv
    OBVIOUS
<1>1. BaseInv
    BY InitBase
<1>2. Ahead = {} /\ Arrived = {}
    BY NoElements DEF Init, Ahead, Arrived
<1>3. Cardinality(Again) = 0 /\ Cardinality(Lacking) = 0
    BY <1>2, FS_EmptySet DEF Again, Lacking
<1>4. Duplicated = 0
    BY NoElements, FS_EmptySet DEF Init, Duplicated
<1>5. Stale = 0
    BY DEF Init, Stale
<1>6. Surplus = 0
    BY <1>3, <1>4, <1>5 DEF Surplus
<1>7. faults = 0 /\ Prefetch \in Nat
    BY <1>1, HandTypes DEF Init
<1> QED
    BY <1>3, <1>6, <1>7 DEF CostInv

\* The sets of CostInv after a step, from what the step does to Ahead and the documents.
LEMMA CostSets ==
    ASSUME BaseInv, BaseInv', Again' \subseteq Again, Lacking' \subseteq Lacking
    PROVE  /\ Cardinality(Again') <= Cardinality(Again)
           /\ Cardinality(Lacking') <= Cardinality(Lacking)
PROOF
BY CostTypes, CostTypesPrimed, EventSets

\* The steps after which the loop is still to come to the same messages.
LEMMA AheadKept ==
    ASSUME BaseInv, BaseInv', CostInv, Ahead' = Ahead, Arrived' = Arrived, inbox' = inbox,
           Stale' <= Stale, faults' >= faults
    PROVE  CostInv'
PROOF
<1>1. Again' = Again /\ Lacking' = Lacking /\ Duplicated' = Duplicated
    BY DEF Again, Lacking, Duplicated
<1>2. /\ Cardinality(Again) \in Nat /\ Cardinality(Lacking) \in Nat /\ Duplicated \in Int
      /\ Stale \in Nat /\ Stale' \in Nat
    BY CostTypes, CostTypesPrimed
<1>3. /\ Duplicated' + Cardinality(Again') + Stale' <= Duplicated + Cardinality(Again) + Stale
      /\ Cardinality(Lacking') <= Cardinality(Lacking)
    BY <1>1, <1>2
<1> QED
    BY <1>3, CostKept

LEMMA PublishCost ==
    ASSUME BaseInv, BaseInv', CostInv, Publish
    PROVE  CostInv'
PROOF
<1>1. /\ published' = published + 1
      /\ missed' = IF bound THEN missed ELSE missed + 1
      /\ ready' = IF bound THEN ready \union {published + 1} ELSE ready
      /\ UNCHANGED <<bound, away, link, hand, work, acks, inbox, read, faults>>
    BY DEF Publish, docVars
<1>2. /\ published \in Nat /\ missed \in Nat /\ missed <= published /\ faults \in Nat
    BY HandTypes
<1>3. /\ InWork' = InWork /\ Stale' = Stale /\ Duplicated' = Duplicated
      /\ ToSet(hand') = ToSet(hand) /\ ToSet(inbox') = ToSet(inbox)
    BY <1>1 DEF InWork, Stale, Coming, Duplicated
<1>4. Again' \subseteq Again /\ Lacking' \subseteq Lacking
  <2>1. CASE bound
    <3>1. Arrived' = Arrived \union {published + 1}
        BY <1>1, <1>2, <2>1 DEF Arrived
    <3>2. Ahead \subseteq Ahead' /\ Ahead' \subseteq Ahead \union {published + 1}
          /\ published + 1 \in Ahead'
        BY <1>1, <1>3, <2>1 DEF Ahead
    <3>3. published + 1 \notin ToSet(inbox)
        BY <1>2 DEF BaseInv, ArrivedInv, Arrived
    <3> QED
        BY <1>3, <3>1, <3>2, <3>3 DEF Again, Lacking
  <2>2. CASE ~bound
    <3>1. Arrived' = {} /\ Ahead' = Ahead
        BY <1>1, <1>2, <1>3, <2>2 DEF Arrived, Ahead, BaseInv, ArrivedInv
    <3> QED
        BY <1>3, <3>1 DEF Again, Lacking
  <2> QED
      BY <2>1, <2>2
<1>5. /\ Cardinality(Again') <= Cardinality(Again)
      /\ Cardinality(Lacking') <= Cardinality(Lacking)
    BY <1>4, CostSets
<1>6. Duplicated' + Cardinality(Again') + Stale' <= Duplicated + Cardinality(Again) + Stale
    BY <1>3, <1>5, CostTypes, CostTypesPrimed
<1>7. faults' >= faults
    BY <1>1, <1>2
<1> QED
    BY <1>5, <1>6, <1>7, CostKept

\* Connecting, receiving, returning and taking only move messages, or not even that.
LEMMA MoveCost ==
    ASSUME BaseInv, BaseInv', CostInv, Connect \/ Receive \/ Return \/ Take
    PROVE  CostInv'
PROOF
<1>1. UNCHANGED <<published, missed, inbox, faults>> /\ faults \in Nat
    BY HandTypes DEF Connect, Receive, Return, Take, WorkStep, queueVars, docVars
<1>2. Stale \in Nat
    BY CostTypes
<1>3. Ahead' = Ahead /\ Stale' <= Stale
  <2>1. CASE Connect
    <3>1. hand = <<>> /\ hand' = hand /\ ready' = ready /\ away' = away /\ link' = "consuming"
        BY <2>1 DEF Connect, MayConnect, BaseInv, HandInv, docVars
    <3> QED
        BY <1>2, <3>1, NoElements DEF Ahead, Stale
  <2>2. CASE Receive
    <3>1. /\ Min(ready) \in ready /\ Min(ready) \in Events
          /\ ToSet(hand') = ToSet(hand) \union {Min(ready)}
          /\ hand' = Append(hand, Min(ready)) /\ ready' = ready \ {Min(ready)}
          /\ link = "consuming" /\ UNCHANGED <<away, link, work, inbox>>
        BY <2>2, ReceiveFacts
    <3>2. hand # <<>> => Head(hand') = Head(hand)
      <4>1. hand \in Seq(Events)
          BY HandTypes
      <4>2. \A e : Head(Append(hand, e)) = IF hand = <<>> THEN e ELSE Head(hand)
          BY <4>1, HeadTailAppend
      <4> QED
          BY <3>1, <4>2, Zenon
    <3>3. work = "stored" => hand # <<>>
        BY HandTypes
    <3>4. InWork' = InWork
        BY <3>1, <3>2, <3>3 DEF InWork
    <3>5. Min(ready) \notin InWork
      <4>1. InWork \subseteq ToSet(hand)
          BY <3>3, HandTypes, ElementsOfTail DEF InWork
      <4>2. ToSet(hand) \intersect ready = {}
          BY <3>1 DEF BaseInv, HandInv
      <4> QED
          BY <3>1, <4>1, <4>2
    <3> QED
        BY <1>2, <3>1, <3>4, <3>5 DEF Ahead, Stale
  <2>3. CASE Return
    <3>1. ready' = ready \union away /\ away' = {} /\ UNCHANGED <<link, hand, work>>
        BY <2>3 DEF Return
    <3>2. InWork' = InWork /\ Stale' = Stale
        BY <3>1 DEF InWork, Stale, Coming
    <3> QED
        BY <1>2, <3>1, <3>2 DEF Ahead
  <2>4. CASE Take
    <3>1. work = "waiting" /\ work' = "inserting" /\ UNCHANGED <<ready, away, link, hand>>
        BY <2>4 DEF Take, WorkStep
    <3>2. InWork' = InWork /\ Stale' = Stale
        BY <3>1 DEF InWork, Stale, Coming
    <3> QED
        BY <1>2, <3>1, <3>2 DEF Ahead
  <2> QED
      BY <2>1, <2>2, <2>3, <2>4
<1>4. Arrived' = Arrived
    BY <1>1 DEF Arrived
<1> QED
    BY <1>1, <1>3, <1>4, AheadKept

\* An ack takes a message from hand that the loop does not come to again, or, if the
\* connection is lost, one that comes again.
LEMMA AckCost ==
    ASSUME BaseInv, BaseInv', CostInv, Ack \/ AckArrives
    PROVE  CostInv'
PROOF
<1>1. UNCHANGED <<published, missed, ready, away, inbox, faults>> /\ faults \in Nat
    BY HandTypes DEF Ack, AckArrives, WorkStep, queueVars, docVars
<1>2. Stale \in Nat
    BY CostTypes
<1>3. Ahead' = Ahead /\ Stale' <= Stale
  <2>1. CASE AckArrives
    <3>1. UNCHANGED <<link, hand, work>>
        BY <2>1 DEF AckArrives
    <3>2. InWork' = InWork /\ Stale' = Stale
        BY <3>1 DEF InWork, Stale, Coming
    <3> QED
        BY <1>1, <1>2, <3>1, <3>2 DEF Ahead
  <2>2. CASE Ack
    <3>1. work = "stored" /\ work' = "waiting" /\ hand # <<>> /\ hand \in Seq(Events)
        BY <2>2, HandTypes DEF Ack, WorkStep
    <3>2. InWork' = {}
        BY <3>1 DEF InWork
    <3>3. ToSet(hand) = {Head(hand)} \union ToSet(Tail(hand))
        BY <3>1, ElementsOfTail
    <3>4. CASE link = "consuming" /\ hand' = Tail(hand) /\ UNCHANGED link
      <4>1. InWork = {Head(hand)}
          BY <3>1, <3>4 DEF InWork
      <4>2. \A i, j \in DOMAIN hand : hand[i] = hand[j] => i = j
          BY <3>4 DEF BaseInv, HandInv
      <4>3. Head(hand) \notin ToSet(Tail(hand))
          BY <3>1, <4>2, InjectiveTail
      <4>4. Stale' = 0
          BY <3>4 DEF Stale
      <4> QED
          BY <1>1, <1>2, <3>2, <3>3, <3>4, <4>1, <4>3, <4>4 DEF Ahead
    <3>5. CASE link = "lost" /\ hand' = Tail(hand) /\ UNCHANGED link
      <4>1. ToSet(hand) \subseteq ready \union away
          BY <3>5 DEF BaseInv, HandInv
      <4>2. Ahead' = Ahead
          BY <1>1, <3>2, <3>3, <3>5, <4>1 DEF Ahead
      <4>3. Coming' = Coming
          BY <3>1, <3>5 DEF Coming
      <4>4. Stale' = Stale
          BY <3>5, <4>3 DEF Stale
      <4> QED
          BY <1>2, <4>2, <4>4
    <3>6. CASE link = "lost" /\ hand' = <<>> /\ link' = "connecting"
      <4>1. ToSet(hand) \subseteq ready \union away
          BY <3>6 DEF BaseInv, HandInv
      <4>2. Ahead' = Ahead
          BY <1>1, <3>2, <3>6, <4>1, NoElements DEF Ahead
      <4>3. Stale' = 0
          BY <3>6 DEF Stale
      <4> QED
          BY <1>2, <4>2, <4>3
    <3> QED
        BY <2>2, <3>4, <3>5, <3>6 DEF Ack
  <2> QED
      BY <2>1, <2>2
<1>4. Arrived' = Arrived
    BY <1>1 DEF Arrived
<1> QED
    BY <1>1, <1>3, <1>4, AheadKept

\* The end of an insert: on a connection that is alive the loop does not come to the
\* message again; on one that is lost it does.
LEMMA InsertedFacts ==
    ASSUME BaseInv, BaseInv', WorkStep("inserting", "stored"), UNCHANGED <<link, hand>>
    PROVE  /\ Head(hand) \in Ahead /\ Head(hand) \in Events /\ hand # <<>>
           /\ Arrived' = Arrived
           /\ \/ link = "consuming" /\ Ahead' = Ahead \ {Head(hand)} /\ Stale' = Stale
              \/ link = "lost" /\ Ahead' = Ahead /\ Stale' = Stale - 1
PROOF
<1> DEFINE h == Head(hand)
<1>1. /\ work = "inserting" /\ work' = "stored" /\ hand # <<>> /\ hand \in Seq(Events)
      /\ UNCHANGED <<published, missed, ready, away>>
    BY HandTypes DEF WorkStep, queueVars
<1>2. h \in ToSet(hand) /\ h \in Events
    BY <1>1, ElementsOfTail
<1>3. InWork = {} /\ Arrived' = Arrived
    BY <1>1 DEF InWork, Arrived
<1>4. h \in Ahead
    BY <1>2, <1>3 DEF Ahead
<1>5. CASE link = "consuming"
  <2>1. InWork' = {h}
      BY <1>1, <1>5 DEF InWork
  <2>2. h \notin ready \union away
      BY <1>2, <1>5 DEF BaseInv, HandInv
  <2>3. Ahead' = Ahead \ {h}
      BY <1>1, <1>2, <1>3, <2>1, <2>2 DEF Ahead
  <2>4. Stale' = Stale
      BY <1>5 DEF Stale
  <2> QED
      BY <1>1, <1>2, <1>3, <1>4, <1>5, <2>3, <2>4
<1>6. CASE link = "lost"
  <2>1. InWork' = {}
      BY <1>6 DEF InWork
  <2>2. Ahead' = Ahead
      BY <1>1, <1>3, <2>1 DEF Ahead
  <2>3. Coming = hand /\ Coming' = Tail(hand)
      BY <1>1 DEF Coming
  <2>4. Len(Tail(hand)) = Len(hand) - 1
      BY <1>1, ElementsOfTail
  <2>5. Stale' = Stale - 1
      BY <1>6, <2>3, <2>4 DEF Stale
  <2> QED
      BY <1>1, <1>2, <1>3, <1>4, <1>6, <2>2, <2>5
<1>7. link = "consuming" \/ link = "lost"
    BY <1>1 DEF BaseInv, TypeOK, HandInv
<1> QED
    BY <1>5, <1>6, <1>7

LEMMA InsertCost ==
    ASSUME BaseInv, BaseInv', CostInv, WorkStep("inserting", "stored"), Store,
           UNCHANGED <<link, hand>>, faults' >= faults
    PROVE  CostInv'
PROOF
<1> DEFINE h == Head(hand)
<1>1. /\ h \in Ahead /\ h \in Events /\ hand # <<>> /\ Arrived' = Arrived
      /\ \/ link = "consuming" /\ Ahead' = Ahead \ {h} /\ Stale' = Stale
         \/ link = "lost" /\ Ahead' = Ahead /\ Stale' = Stale - 1
    BY InsertedFacts
<1>2. /\ ToSet(inbox') = ToSet(inbox) \union {h}
      /\ Duplicated' = Duplicated + (IF h \in ToSet(inbox) THEN 1 ELSE 0)
    BY <1>1, StoreFacts, StoreDuplicates
<1>3. Lacking' \subseteq Lacking
    BY <1>1, <1>2 DEF Lacking
<1>4. /\ Cardinality(Again) \in Nat /\ Duplicated \in Int /\ Stale \in Nat
      /\ Cardinality(Again') \in Nat /\ Again' \subseteq Events /\ Again \subseteq Events
      /\ Lacking' \subseteq Events /\ Lacking \subseteq Events
    BY CostTypes, CostTypesPrimed
<1>5. Cardinality(Lacking') <= Cardinality(Lacking)
    BY <1>3, <1>4, EventSets
<1>6. Duplicated' + Cardinality(Again') + Stale' <= Duplicated + Cardinality(Again) + Stale
  <2>1. CASE h \in ToSet(inbox) /\ link = "consuming"
    <3>1. h \in Again /\ Again' \subseteq Again \ {h}
        BY <1>1, <1>2, <2>1 DEF Again
    <3>2. Cardinality(Again') <= Cardinality(Again) - 1
        BY <1>4, <3>1, EventSets
    <3> QED
        BY <1>1, <1>2, <1>4, <2>1, <3>2
  <2>2. CASE h \notin ToSet(inbox) /\ link = "consuming"
    <3>1. Again' \subseteq Again
        BY <1>1, <1>2, <2>2 DEF Again
    <3>2. Cardinality(Again') <= Cardinality(Again)
        BY <1>4, <3>1, EventSets
    <3> QED
        BY <1>1, <1>2, <1>4, <2>2, <3>2
  <2>3. CASE h \in ToSet(inbox) /\ link = "lost"
    <3>1. Again' \subseteq Again
        BY <1>1, <1>2, <2>3 DEF Again
    <3>2. Cardinality(Again') <= Cardinality(Again)
        BY <1>4, <3>1, EventSets
    <3> QED
        BY <1>1, <1>2, <1>4, <2>3, <3>2
  <2>4. CASE h \notin ToSet(inbox) /\ link = "lost"
    <3>1. Again' \subseteq Again \union {h}
        BY <1>1, <1>2, <2>4 DEF Again
    <3>2. Cardinality(Again') <= Cardinality(Again) + 1
        BY <1>4, <3>1, EventSets
    <3> QED
        BY <1>1, <1>2, <1>4, <2>4, <3>2
  <2> QED
      BY <1>1, <2>1, <2>2, <2>3, <2>4
<1> QED
    BY <1>5, <1>6, CostKept

\* An insert that fails without a document leaves its event lacking one, unless its
\* message comes again.
LEMMA InsertFailsCost ==
    ASSUME BaseInv, BaseInv', CostInv, InsertFails
    PROVE  CostInv'
PROOF
<1> DEFINE h == Head(hand)
<1>1. /\ WorkStep("inserting", "stored") /\ UNCHANGED <<link, hand>>
      /\ faults' = faults + 1 /\ faults \in Nat /\ (Store \/ inbox' = inbox)
    BY HandTypes DEF InsertFails, Fault
<1>2. CASE Store
  <2>1. faults' >= faults
      BY <1>1
  <2> QED
      BY <1>1, <1>2, <2>1, InsertCost
<1>3. CASE inbox' = inbox
  <2>1. /\ h \in Ahead /\ Arrived' = Arrived
        /\ \/ Ahead' = Ahead \ {h} /\ Stale' = Stale
           \/ Ahead' = Ahead /\ Stale' = Stale - 1
      BY <1>1, InsertedFacts
  <2>2. Again' \subseteq Again /\ Lacking' \subseteq Lacking \union {h}
      BY <1>3, <2>1 DEF Again, Lacking
  <2>3. /\ Again \subseteq Events /\ Lacking \subseteq Events
        /\ Again' \subseteq Events /\ Lacking' \subseteq Events
        /\ Cardinality(Again) \in Nat /\ Cardinality(Again') \in Nat
        /\ Duplicated \in Int /\ Stale \in Nat
      BY CostTypes, CostTypesPrimed
  <2>4. /\ Cardinality(Again') <= Cardinality(Again)
        /\ Cardinality(Lacking') <= Cardinality(Lacking) + 1
      BY <2>2, <2>3, EventSets
  <2>5. Duplicated' = Duplicated /\ Stale' <= Stale /\ Stale' \in Nat
      BY <1>3, <2>1, <2>3, CostTypesPrimed DEF Duplicated
  <2>6. Duplicated' + Cardinality(Again') + Stale' <= Duplicated + Cardinality(Again) + Stale
      BY <2>3, <2>4, <2>5
  <2> QED
      BY <1>1, <2>4, <2>6, CostPaid
<1> QED
    BY <1>1, <1>2, <1>3

\* The end of a connection that is alive: what was acked comes again if the ack has not
\* arrived, and so does what is in hand, which the loop may still work off.
LEMMA BrokenCost ==
    ASSUME BaseInv, BaseInv', CostInv, LoseConnection \/ Crash, link = "consuming"
    PROVE  CostInv'
PROOF
<1> DEFINE k == IF work = "stored" THEN 1 ELSE 0
           B == Again \union ToSet(acks)
<1>1. /\ UNCHANGED <<published, missed, ready, inbox>> /\ faults' = faults + 1
      /\ link' # "consuming" /\ away' = away \union Unacked
      /\ (LoseConnection => UNCHANGED <<hand, work>>)
      /\ (Crash => hand' = <<>> /\ link' = "connecting")
    BY DEF LoseConnection, Crash, Restart, Fault, queueVars, docVars
<1>2. /\ hand \in Seq(Events) /\ Len(hand) \in Nat /\ acks \in Seq(Events) /\ Len(acks) \in Nat
      /\ Len(hand) + Len(acks) <= Prefetch /\ Prefetch \in Nat
      /\ ToSet(acks) \subseteq Events
    BY HandTypes
<1>3. InWork' = {} /\ Arrived' = Arrived /\ Duplicated' = Duplicated
    BY <1>1 DEF InWork, Arrived, Duplicated
<1>4. Unacked = ToSet(hand) \union ToSet(acks)
    BY DEF Unacked
<1>5. InWork \subseteq {Head(hand)} /\ (work # "stored" => InWork = {})
    BY DEF InWork
<1>6. InWork \subseteq ToSet(hand)
    BY HandTypes, ElementsOfTail DEF InWork
<1>7. Ahead' = Ahead \union InWork \union ToSet(acks)
  <2>1. Ahead' = ready \union away \union ToSet(hand) \union ToSet(acks)
    <3>1. ToSet(hand') \subseteq ToSet(hand)
        BY <1>1, NoElements
    <3> QED
        BY <1>1, <1>3, <1>4, <3>1 DEF Ahead
  <2> QED
      BY <1>6, <2>1 DEF Ahead
<1>8. /\ Again \subseteq Events /\ Lacking \subseteq Events
      /\ Again' \subseteq Events /\ Lacking' \subseteq Events
      /\ Cardinality(Again) \in Nat /\ Cardinality(Again') \in Nat
      /\ Duplicated \in Int /\ Stale \in Nat /\ Stale' \in Nat
    BY CostTypes, CostTypesPrimed
<1>9. Lacking' \subseteq Lacking
    BY <1>1, <1>3, <1>7 DEF Lacking
<1>10. Cardinality(Lacking') <= Cardinality(Lacking)
    BY <1>8, <1>9, EventSets
<1>11. Cardinality(B) \in Nat /\ Cardinality(B) <= Cardinality(Again) + Len(acks)
  <2>1. IsFiniteSet(Again) /\ IsFiniteSet(ToSet(acks))
    <3>1. IsFiniteSet(Events)
        BY FS_Interval, NotificationConstants DEF Events
    <3> QED
        BY <1>2, <1>8, <3>1, FS_Subset
  <2>2. Cardinality(B) = Cardinality(Again) + Cardinality(ToSet(acks))
                             - Cardinality(Again \intersect ToSet(acks))
      BY <2>1, FS_Union
  <2>3. Cardinality(Again \intersect ToSet(acks)) \in Nat /\ Cardinality(B) \in Nat
    <3>1. Again \intersect ToSet(acks) \subseteq Events /\ B \subseteq Events
        BY <1>2, <1>8
    <3> QED
        BY <3>1, EventSets
  <2>4. Cardinality(ToSet(acks)) \in Nat /\ Cardinality(ToSet(acks)) <= Len(acks)
      BY <1>2, ElementsCount
  <2> HIDE DEF B
  <2> QED
      BY <1>2, <1>8, <2>2, <2>3, <2>4
<1>12. B \subseteq Events
    BY <1>2, <1>8
<1>13. Again' \subseteq B \union InWork
    BY <1>1, <1>7 DEF Again
<1>14. Cardinality(Again') <= Cardinality(B) + k
  <2>1. CASE work = "stored"
    <3>1. Again' \subseteq B \union {Head(hand)}
        BY <1>5, <1>13
    <3>2. Cardinality(Again') <= Cardinality(B) + 1
        BY <1>8, <1>12, <3>1, EventSets
    <3> QED
        BY <2>1, <3>2
  <2>2. CASE work # "stored"
    <3>1. Again' \subseteq B
        BY <1>5, <1>13, <2>2
    <3>2. Cardinality(Again') <= Cardinality(B)
        BY <1>8, <1>12, <3>1, EventSets
    <3> QED
        BY <1>11, <2>2, <3>2
  <2> QED
      BY <2>1, <2>2
<1>15. k \in 0..1 /\ Stale' + k <= Len(hand)
  <2>1. /\ Len(Coming) = IF work = "stored" THEN Len(hand) - 1 ELSE Len(hand)
        /\ work = "stored" => hand # <<>>
      BY ComingTypes
  <2>2. hand # <<>> => Len(hand) >= 1
      BY <1>2, ElementsOfTail
  <2>3. CASE LoseConnection
    <3>1. link' = "lost" /\ Coming' = Coming
        BY <1>1, <2>3 DEF LoseConnection, Coming
    <3>2. Stale' = Len(Coming)
        BY <3>1 DEF Stale
    <3> QED
        BY <1>2, <2>1, <3>2
  <2>4. CASE Crash
    <3>1. Stale' = 0
        BY <1>1, <2>4 DEF Stale
    <3> QED
        BY <1>2, <2>1, <2>2, <3>1
  <2> QED
      BY <2>3, <2>4
<1>16. Duplicated' + Cardinality(Again') + Stale'
         <= Duplicated + Cardinality(Again) + Stale + Prefetch
  <2> HIDE DEF B, k
  <2>1. Cardinality(Again') <= Cardinality(Again) + Len(acks) + k
    <3>1. \A a, b, c, y \in Nat, i \in 0..1 : c <= b + i /\ b <= a + y => c <= a + y + i
        OBVIOUS
    <3> QED
        BY <1>2, <1>8, <1>11, <1>14, <1>15, <3>1, Zenon
  <2>2. Cardinality(Again') + Stale' <= Cardinality(Again) + Prefetch
    <3>1. \A a, c, s, x, y, p \in Nat, i \in 0..1 :
             c <= a + y + i /\ s + i <= x /\ x + y <= p => c + s <= a + p
        OBVIOUS
    <3> QED
        BY <1>2, <1>8, <1>15, <2>1, <3>1, Zenon
  <2>3. Duplicated' + Cardinality(Again') + Stale'
           <= Duplicated + Cardinality(Again) + Stale + Prefetch
    <3>1. \A d \in Int, a, c, s, t, p \in Nat : c + s <= a + p => d + c + s <= d + a + t + p
        OBVIOUS
    <3> QED
        BY <1>2, <1>3, <1>8, <2>2, <3>1, Zenon
  <2> QED
      BY <2>3
<1> QED
    BY <1>1, <1>10, <1>16, CostPaid

\* A process that ends on a connection that is not alive leaves nothing new behind.
LEMMA CrashCost ==
    ASSUME BaseInv, BaseInv', CostInv, Crash, link # "consuming"
    PROVE  CostInv'
PROOF
<1>1. /\ UNCHANGED <<published, missed, ready, inbox>> /\ faults' = faults + 1 /\ faults \in Nat
      /\ link' = "connecting" /\ hand' = <<>> /\ away' = away
    BY UnackedFacts, HandTypes DEF Crash, Restart, Fault, queueVars
<1>2. ToSet(hand) \subseteq ready \union away
    BY NoElements DEF BaseInv, HandInv, TypeOK
<1>3. Ahead' = Ahead /\ Arrived' = Arrived
    BY <1>1, <1>2, NoElements DEF Ahead, Arrived
<1>4. Stale' = 0 /\ Stale \in Nat
    BY <1>1, CostTypes DEF Stale
<1>5. Stale' <= Stale /\ faults' >= faults
    BY <1>1, <1>4
<1> QED
    BY <1>1, <1>3, <1>5, AheadKept

LEMMA ShutdownCost ==
    ASSUME BaseInv, BaseInv', CostInv, Shutdown
    PROVE  CostInv'
PROOF
<1> DEFINE h == Head(hand)
<1>1. /\ UNCHANGED <<published, missed, ready>> /\ faults' = faults + 1 /\ faults \in Nat
      /\ link' = "connecting" /\ hand' = <<>>
      /\ away' = away \union (Unacked \ (Rejected \union ToSet(acks)))
      /\ (inbox' = inbox \/ (work = "inserting" /\ Store))
    BY HandTypes DEF Shutdown, Restart, Fault, queueVars
<1>2. Arrived' = Arrived /\ Stale' = 0 /\ InWork' = {}
    BY <1>1 DEF Arrived, Stale, InWork
<1>3. Ahead' = ready \union away \union (Unacked \ (Rejected \union ToSet(acks)))
    BY <1>1, NoElements DEF Ahead
<1>4. /\ Again \subseteq Events /\ Lacking \subseteq Events
      /\ Again' \subseteq Events /\ Lacking' \subseteq Events
      /\ Cardinality(Again) \in Nat /\ Cardinality(Again') \in Nat
      /\ Duplicated \in Int /\ Duplicated' \in Int /\ Stale \in Nat
      /\ Cardinality(Lacking) \in Nat /\ Cardinality(Lacking') \in Nat
    BY CostTypes, CostTypesPrimed
<1>5. Prefetch \in Nat /\ Prefetch >= 1
    BY HandTypes
<1>6. work = "stored" \/ work = "inserting" => hand # <<>> /\ h \in ToSet(hand)
    BY HandTypes, ElementsOfTail
<1>7. link # "consuming" => Ahead' = Ahead
  <2> SUFFICES ASSUME link # "consuming"
              PROVE  Ahead' = Ahead
      OBVIOUS
  <2>1. Unacked = {}
      BY UnackedFacts
  <2>2. ToSet(hand) \subseteq ready \union away
      BY NoElements DEF BaseInv, HandInv, TypeOK
  <2> QED
      BY <1>3, <2>1, <2>2 DEF Ahead
<1>8. link = "consuming" =>
         Ahead' = ready \union away \union (ToSet(hand) \ Rejected)
  <2> SUFFICES ASSUME link = "consuming"
              PROVE  Ahead' = ready \union away \union (ToSet(hand) \ Rejected)
      OBVIOUS
  <2>1. Unacked = ToSet(hand) \union ToSet(acks)
      BY DEF Unacked
  <2>2. ToSet(hand) \intersect ToSet(acks) = {}
      BY DEF BaseInv, HandInv
  <2> QED
      BY <1>3, <2>1, <2>2
<1>9. CASE work # "inserting"
  <2>1. Rejected = {} /\ inbox' = inbox
      BY <1>1, <1>9 DEF Rejected
  <2>2. Ahead \subseteq Ahead' /\ Ahead' \subseteq Ahead \union {h}
      BY <1>7, <1>8, <2>1 DEF Ahead, InWork
  <2>3. Lacking' \subseteq Lacking /\ Again' \subseteq Again \union {h}
      BY <1>2, <2>1, <2>2 DEF Lacking, Again
  <2>4. /\ Cardinality(Lacking') <= Cardinality(Lacking)
        /\ Cardinality(Again') <= Cardinality(Again) + 1
      BY <1>4, <2>3, EventSets
  <2>5. Duplicated' = Duplicated
      BY <2>1 DEF Duplicated
  <2>6. Duplicated' + Cardinality(Again') + Stale'
          <= Duplicated + Cardinality(Again) + Stale + Prefetch
      BY <1>2, <1>4, <1>5, <2>4, <2>5
  <2> QED
      BY <1>1, <2>4, <2>6, CostPaid
<1>10. CASE work = "inserting"
  <2>1. Rejected = {h} /\ InWork = {} /\ hand # <<>>
      BY <1>6, <1>10 DEF Rejected, InWork
  <2>2. Ahead' \subseteq Ahead /\ Ahead \subseteq Ahead' \union {h}
      BY <1>7, <1>8, <2>1 DEF Ahead
  <2>3. CASE inbox' = inbox
    <3>1. Again' \subseteq Again /\ Lacking' \subseteq Lacking \union {h}
        BY <1>2, <2>2, <2>3 DEF Lacking, Again
    <3>2. /\ Cardinality(Again') <= Cardinality(Again)
          /\ Cardinality(Lacking') <= Cardinality(Lacking) + 1
        BY <1>4, <3>1, EventSets
    <3>3. Duplicated' = Duplicated
        BY <2>3 DEF Duplicated
    <3>4. Duplicated' + Cardinality(Again') + Stale' <= Duplicated + Cardinality(Again) + Stale
        BY <1>2, <1>4, <3>2, <3>3
    <3> QED
        BY <1>1, <3>2, <3>4, CostPaid
  <2>4. CASE Store
    <3>1. /\ ToSet(inbox') = ToSet(inbox) \union {h}
          /\ Duplicated' = Duplicated + (IF h \in ToSet(inbox) THEN 1 ELSE 0)
        BY <2>1, <2>4, StoreFacts, StoreDuplicates
    <3>2. Lacking' \subseteq Lacking
        BY <1>2, <2>2, <3>1 DEF Lacking
    <3>3. Again' \subseteq Again \union {h} /\ (h \in ToSet(inbox) => Again' \subseteq Again)
        BY <2>2, <3>1 DEF Again
    <3>4. /\ Cardinality(Lacking') <= Cardinality(Lacking)
          /\ Cardinality(Again') <= Cardinality(Again) + 1
          /\ h \in ToSet(inbox) => Cardinality(Again') <= Cardinality(Again)
        BY <1>4, <3>2, <3>3, EventSets
    <3>5. Duplicated' + Cardinality(Again') <= Duplicated + Cardinality(Again) + 1
      <4>1. CASE h \in ToSet(inbox)
          BY <1>4, <3>1, <3>4, <4>1
      <4>2. CASE h \notin ToSet(inbox)
          BY <1>4, <3>1, <3>4, <4>2
      <4> QED
          BY <4>1, <4>2
    <3>6. Duplicated' + Cardinality(Again') + Stale'
            <= Duplicated + Cardinality(Again) + Stale + Prefetch
        BY <1>2, <1>4, <1>5, <3>5
    <3> QED
        BY <1>1, <3>4, <3>6, CostPaid
  <2> QED
      BY <1>1, <2>3, <2>4
<1> QED
    BY <1>9, <1>10

LEMMA CostInductive ==
    ASSUME BaseInv, BaseInv', CostInv, [Next]_vars
    PROVE  CostInv'
PROOF
<1>1. faults \in Nat /\ Stale \in Nat
    BY CostTypes
<1>2. CASE Publish
    BY <1>2, PublishCost
<1>3. CASE Connect \/ Receive \/ Return \/ Take
    BY <1>3, MoveCost
<1>4. CASE Insert
  <2>1. faults' >= faults
      BY <1>1, <1>4 DEF Insert
  <2> QED
      BY <1>4, <2>1, InsertCost DEF Insert
<1>5. CASE InsertFails \/ Ack \/ AckArrives
    BY <1>5, InsertFailsCost, AckCost
<1>6. CASE LoseConnection \/ Crash
  <2>1. LoseConnection => link = "consuming"
      BY DEF LoseConnection
  <2> QED
      BY <1>6, <2>1, BrokenCost, CrashCost
<1>7. CASE Shutdown
    BY <1>7, ShutdownCost
<1>8. CASE (\E i \in DOMAIN inbox : MarkAsRead(i)) \/ UNCHANGED vars
  <2>1. UNCHANGED <<published, missed, bound, ready, away, link, hand, work, acks, inbox, faults>>
      BY <1>8, RestBase
  <2>2. Ahead' = Ahead /\ Arrived' = Arrived /\ Stale' = Stale
      BY <2>1 DEF Ahead, Arrived, InWork, Stale, Coming
  <2>3. Stale' <= Stale /\ faults' >= faults
      BY <1>1, <2>1, <2>2
  <2> QED
      BY <2>1, <2>2, <2>3, AheadKept
<1> QED
    BY <1>2, <1>3, <1>4, <1>5, <1>6, <1>7, <1>8, Zenon DEF Next, Process

\* What CostInv means for the documents that there are.
LEMMA CostBound ==
    ASSUME BaseInv, CostInv
    PROVE  /\ Duplicated \in Int /\ Cardinality(Lost) \in Nat
           /\ Duplicated + Prefetch * Cardinality(Lost) <= Prefetch * faults
           /\ Prefetch * Cardinality(Lost) \in Nat /\ Prefetch * faults \in Nat
PROOF
<1>1. /\ Cardinality(Lacking) \in Nat /\ Lacking \subseteq Events /\ faults \in Nat
      /\ Duplicated \in Int /\ Cardinality(Again) \in Nat /\ Stale \in Nat
      /\ Surplus = Duplicated + Cardinality(Again) + Stale /\ Prefetch \in Nat
    BY CostTypes, HandTypes
<1>2. Lost \subseteq Lacking
    BY DEF Lost, Gone, Lacking, Arrived, Ahead
<1>3. Cardinality(Lost) \in Nat /\ Cardinality(Lost) <= Cardinality(Lacking)
  <2>1. Lost \subseteq Events
      BY DEF Lost
  <2> QED
      BY <1>1, <1>2, <2>1, EventSets
<1>4. /\ Prefetch * Cardinality(Lost) <= Prefetch * Cardinality(Lacking)
      /\ Prefetch * Cardinality(Lost) \in Nat /\ Prefetch * Cardinality(Lacking) \in Nat
      /\ Prefetch * faults \in Nat
    BY <1>1, <1>3, Products
<1>5. Surplus + Prefetch * Cardinality(Lacking) <= Prefetch * faults /\ Duplicated <= Surplus
  <2>1. Duplicated <= Surplus
      BY <1>1
  <2> QED
      BY <2>1 DEF CostInv
<1>6. Duplicated + Prefetch * Cardinality(Lost) <= Prefetch * faults
  <2>1. \A d, s \in Int, l, m, f \in Nat : d <= s /\ m <= l /\ s + l <= f => d + m <= f
      OBVIOUS
  <2>2. Surplus \in Int
      BY CostTypes
  <2> QED
      BY <1>1, <1>4, <1>5, <2>1, <2>2, Zenon
<1> QED
    BY <1>1, <1>3, <1>4, <1>6

\* A fault costs at most one document too few, or as many too many as may be unacked, for
\* any number of events, prefetch and faults, though the loop takes acks for done that
\* never arrive.
THEOREM DocumentsBounded == Spec => []DocumentsPerFault
PROOF
<1>1. Init => BaseInv /\ CostInv
    BY InitBase, InitCost
<1>2. BaseInv /\ CostInv /\ [Next]_vars => (BaseInv /\ CostInv)'
    BY BaseInductive, CostInductive
<1>3. BaseInv /\ CostInv => DocumentsPerFault
    BY CostBound DEF DocumentsPerFault
<1> QED
    BY <1>1, <1>2, <1>3, PTL DEF Spec

(* The list of a customer.                                                  *)

\* An event of which an acknowledged document is followed by another has two: there is
\* one document for each event that has any, and one more for each of these.
LEMMA UnreadAreDuplicated ==
    ASSUME BaseInv
    PROVE  Cardinality(UnreadAgain) \in Nat /\ Cardinality(UnreadAgain) <= Duplicated
PROOF
<1> DEFINE n == Len(inbox)
           I == ToSet(inbox)
           U == UnreadAgain
           later == [e \in U |-> CHOOSE j \in 1..n : inbox[j] = e
                                       /\ \E i \in 1..n : i # j /\ inbox[i] = e]
           first == [e \in I |-> CHOOSE i \in 1..n : inbox[i] = e
                                       /\ (e \in U => i # later[e])]
           A == {first[e] : e \in I}
           B == {later[e] : e \in U}
<1>7. DOMAIN later = U /\ later = [e \in U |-> later[e]]
  <2> DEFINE choice(e) == CHOOSE j \in 1..n : inbox[j] = e
                                       /\ \E i \in 1..n : i # j /\ inbox[i] = e
  <2>1. later = [e \in U |-> choice(e)]
      BY Zenon
  <2> HIDE DEF later, choice
  <2> QED
      BY <2>1
<1>1. /\ n \in Nat /\ DOMAIN inbox = 1..n /\ I = {inbox[i] : i \in 1..n} /\ I \subseteq Events
  <2>1. inbox \in Seq(Events)
      BY HandTypes
  <2> QED
      BY <2>1, ElementsOf
<1>2. U \subseteq Events /\ Cardinality(U) \in Nat /\ Cardinality(I) \in Nat
    BY <1>1, EventSets DEF UnreadAgain
<1>3. read \subseteq 1..n
    BY <1>1 DEF BaseInv, TypeOK
<1>4. ASSUME NEW e \in U
      PROVE  /\ later[e] \in 1..n /\ inbox[later[e]] = e
             /\ \E i \in 1..n : i # later[e] /\ inbox[i] = e
  <2>1. PICK i \in read, j \in (1..n) \ read : i < j /\ inbox[i] = e /\ inbox[j] = e
      BY <1>1, <1>4 DEF UnreadAgain
  <2>2. i \in 1..n /\ j \in 1..n /\ i # j
      BY <1>3, <2>1
  <2>3. \E y \in 1..n : inbox[y] = e /\ \E x \in 1..n : x # y /\ inbox[x] = e
      BY <2>1, <2>2
  <2>4. later[e] = CHOOSE y \in 1..n : inbox[y] = e /\ \E x \in 1..n : x # y /\ inbox[x] = e
      BY <1>4
  <2> QED
      BY <2>3, <2>4, Zenon
<1> HIDE DEF later
<1>5. ASSUME NEW e \in I
      PROVE  /\ first[e] \in 1..n /\ inbox[first[e]] = e
             /\ e \in U => first[e] # later[e]
  <2>1. \E i \in 1..n : inbox[i] = e /\ (e \in U => i # later[e])
    <3>1. CASE e \in U
        BY <1>4, <3>1
    <3>2. CASE e \notin U
        BY <1>1, <3>2
    <3> QED
        BY <3>1, <3>2
  <2>2. first[e] = CHOOSE i \in 1..n : inbox[i] = e /\ (e \in U => i # later[e])
      BY <1>5
  <2> QED
      BY <2>1, <2>2, Zenon
<1>6. DOMAIN first = I /\ first = [e \in I |-> first[e]]
    OBVIOUS
<1> HIDE DEF first, U, I, n
<1>8. A \subseteq 1..n /\ B \subseteq 1..n /\ A \intersect B = {}
  <2>1. A \subseteq 1..n /\ B \subseteq 1..n
      BY <1>4, <1>5
  <2>2. ASSUME NEW e \in I, NEW f \in U, first[e] = later[f]
        PROVE  FALSE
    <3>1. e = f
        BY <1>4, <1>5, <2>2
    <3> QED
        BY <1>5, <2>2, <3>1
  <2> QED
      BY <2>1, <2>2
<1>9. IsFiniteSet(1..n) /\ Cardinality(1..n) = n
  <2>1. /\ IsFiniteSet(1..n)
        /\ Cardinality(1..n) = IF 1 > n THEN 0 ELSE n - 1 + 1
      BY <1>1, FS_Interval
  <2> QED
      BY <1>1, <2>1
<1>10. /\ IsFiniteSet(A) /\ IsFiniteSet(B)
       /\ Cardinality(A) \in Nat /\ Cardinality(B) \in Nat
    BY <1>8, <1>9, FS_Subset, FS_CardinalityType
<1>11. Cardinality(I) <= Cardinality(A)
  <2>1. first \in Injection(I, A)
    <3>1. first \in [I -> A]
        BY <1>6
    <3>2. \A e, f \in I : first[e] = first[f] => e = f
        BY <1>5
    <3> QED
        BY <1>6, <3>1, <3>2 DEF Injection, IsInjective
  <2> HIDE DEF A
  <2> QED
      BY <1>10, <2>1, FS_Injection
<1>12. Cardinality(U) <= Cardinality(B)
  <2>1. later \in Injection(U, B)
    <3>1. later \in [U -> B]
        BY <1>7
    <3>2. \A e, f \in U : later[e] = later[f] => e = f
        BY <1>4
    <3> QED
        BY <1>7, <3>1, <3>2 DEF Injection, IsInjective
  <2> HIDE DEF B
  <2> QED
      BY <1>10, <2>1, FS_Injection
<1>13. Cardinality(A) + Cardinality(B) <= n
  <2> HIDE DEF A, B
  <2>1. Cardinality(A \union B) = Cardinality(A) + Cardinality(B) - Cardinality(A \intersect B)
      BY <1>10, FS_Union
  <2>2. Cardinality(A \intersect B) = 0
      BY <1>8, FS_EmptySet
  <2>3. Cardinality(A \union B) <= Cardinality(1..n)
    <3>1. A \union B \subseteq 1..n
        BY <1>8
    <3> QED
        BY <1>9, <3>1, FS_Subset
  <2> QED
      BY <1>9, <1>10, <2>1, <2>2, <2>3
<1>14. Duplicated = n - Cardinality(I)
    BY DEF Duplicated, n, I
<1>15. Cardinality(U) <= n - Cardinality(I)
    BY <1>1, <1>2, <1>10, <1>11, <1>12, <1>13
<1> QED
    BY <1>2, <1>14, <1>15 DEF U

LEMMA DescentsTypes ==
    ASSUME NEW s \in Seq(Nat)
    PROVE  /\ Len(s) \in Nat /\ \A i \in 1..Len(s) : s[i] \in Nat
           /\ IsFiniteSet(Descents(s)) /\ Cardinality(Descents(s)) \in Nat
           /\ Newest(s) \in Nat
PROOF
<1>1. Len(s) \in Nat /\ \A i \in 1..Len(s) : s[i] \in Nat
    BY ElementsOf
<1>2. IsFiniteSet(1..Len(s))
    BY <1>1, FS_Interval
<1>3. Descents(s) \subseteq 1..Len(s)
    BY <1>1 DEF Descents
<1>4. IsFiniteSet(Descents(s))
    BY <1>2, <1>3, FS_Subset
<1>5. Newest(s) \in Nat
    BY <1>1 DEF Newest
<1> QED
    BY <1>1, <1>4, <1>5, FS_CardinalityType

\* A beginning of a series has no more descents; and fewer if it ends higher.
LEMMA DescentsOfBeginning ==
    ASSUME NEW s \in Seq(Nat), NEW t \in Seq(Nat), Len(t) <= Len(s),
           \A i \in 1..Len(t) : t[i] = s[i]
    PROVE  /\ Cardinality(Descents(t)) <= Cardinality(Descents(s))
           /\ Newest(t) > Newest(s) => Cardinality(Descents(t)) <= Cardinality(Descents(s)) - 1
PROOF
<1>1. /\ Len(s) \in Nat /\ Len(t) \in Nat /\ \A i \in 1..Len(s) : s[i] \in Nat
      /\ IsFiniteSet(Descents(s)) /\ Cardinality(Descents(s)) \in Nat
      /\ Cardinality(Descents(t)) \in Nat
    BY DescentsTypes
<1>2. Descents(t) \subseteq Descents(s)
  <2> SUFFICES ASSUME NEW i \in Descents(t)
              PROVE  i \in Descents(s)
      OBVIOUS
  <2>1. i \in 1..Len(t) - 1 /\ t[i] > t[i + 1]
      BY DEF Descents
  <2>2. i \in 1..Len(t) /\ i + 1 \in 1..Len(t) /\ i \in 1..Len(s) - 1
      BY <1>1, <2>1
  <2>3. s[i] > s[i + 1]
      BY <2>1, <2>2
  <2> QED
      BY <2>2, <2>3 DEF Descents
<1>3. Cardinality(Descents(t)) <= Cardinality(Descents(s))
    BY <1>1, <1>2, FS_Subset
<1>4. ASSUME Newest(t) > Newest(s)
      PROVE  Cardinality(Descents(t)) <= Cardinality(Descents(s)) - 1
  <2> DEFINE k == Len(t)
             T == {j \in k..Len(s) : s[j] < s[k]}
             m == Min(T)
  <2>1. k >= 1 /\ Len(s) >= 1
    <3>1. Newest(s) \in Nat
        BY DescentsTypes
    <3>2. k # 0
        BY <1>4, <3>1 DEF Newest
    <3> QED
        BY <1>1, <3>2
  <2>2. s[k] > s[Len(s)] /\ k \in 1..Len(s)
    <3>1. Newest(t) = t[k] /\ Newest(s) = s[Len(s)]
        BY <1>1, <2>1 DEF Newest
    <3>2. k \in 1..Len(t) /\ k \in 1..Len(s)
        BY <1>1, <2>1
    <3> QED
        BY <1>4, <3>1, <3>2
  <2>3. Len(s) \in T
      BY <1>1, <2>2
  <2>4. m \in T /\ \A j \in T : m <= j
    <3>1. T \subseteq Nat /\ T # {}
      <4>1. T \subseteq k..Len(s) /\ k..Len(s) \subseteq Nat
          BY <1>1
      <4> QED
          BY <2>3, <4>1
    <3> HIDE DEF T
    <3> QED
        BY <3>1, MinOfNaturals
  <2> HIDE DEF m
  <2>5. m \in k..Len(s) /\ s[m] < s[k] /\ m # k /\ m \in Nat
      BY <1>1, <2>2, <2>4
  <2>6. m - 1 \in k..Len(s) /\ m - 1 \in 1..Len(s) - 1 /\ (m - 1) + 1 = m
      BY <1>1, <2>1, <2>5
  <2>7. m - 1 \notin T
    <3>1. ~(m <= m - 1)
        BY <2>5
    <3> QED
        BY <2>4, <3>1
  <2>8. s[m - 1] >= s[k]
    <3>1. m - 1 \in 1..Len(s)
        BY <2>6, <1>1
    <3>2. s[m - 1] \in Nat /\ s[k] \in Nat
        BY <1>1, <2>2, <3>1
    <3> QED
        BY <2>6, <2>7, <3>2
  <2>9. s[m - 1] > s[m]
    <3>1. m - 1 \in 1..Len(s) /\ m \in 1..Len(s)
        BY <1>1, <2>1, <2>5, <2>6
    <3>2. s[m - 1] \in Nat /\ s[k] \in Nat /\ s[m] \in Nat
        BY <1>1, <2>2, <3>1
    <3> QED
        BY <2>5, <2>8, <3>2
  <2>10. m - 1 \in Descents(s)
      BY <2>6, <2>9 DEF Descents
  <2>11. m - 1 \notin Descents(t)
      BY <1>1, <2>6 DEF Descents
  <2>12. Descents(t) \subseteq Descents(s) \ {m - 1}
      BY <1>2, <2>11
  <2>13. /\ IsFiniteSet(Descents(s) \ {m - 1})
         /\ Cardinality(Descents(s) \ {m - 1}) = Cardinality(Descents(s)) - 1
      BY <1>1, <2>10, FS_RemoveElement
  <2>14. Cardinality(Descents(t)) <= Cardinality(Descents(s) \ {m - 1})
      BY <2>12, <2>13, FS_Subset
  <2> QED
      BY <2>13, <2>14
<1> QED
    BY <1>3, <1>4

\* One more event at the end is one descent more only if it is older than the last.
LEMMA DescentsOfAppend ==
    ASSUME NEW s \in Seq(Nat), NEW e \in Nat
    PROVE  /\ Append(s, e) \in Seq(Nat) /\ Newest(Append(s, e)) = e
           /\ Cardinality(Descents(Append(s, e))) <=
                 Cardinality(Descents(s)) + (IF e < Newest(s) THEN 1 ELSE 0)
PROOF
<1> DEFINE t == Append(s, e)
<1>1. /\ t \in Seq(Nat) /\ Len(t) = Len(s) + 1
      /\ \A i \in 1..Len(s) : t[i] = s[i]
      /\ t[Len(s) + 1] = e
    BY ElementsOfAppend
<1>2. /\ Len(s) \in Nat /\ IsFiniteSet(Descents(s)) /\ Cardinality(Descents(s)) \in Nat
      /\ \A i \in 1..Len(s) : s[i] \in Nat
    BY DescentsTypes
<1> HIDE DEF t
<1>3. Newest(t) = e
    BY <1>1, <1>2 DEF Newest
<1>4. ASSUME NEW i \in Descents(t)
      PROVE  i \in Descents(s) \/ (i = Len(s) /\ e < Newest(s))
  <2>1. i \in 1..Len(s) /\ t[i] > t[i + 1]
      BY <1>1, <1>2 DEF Descents
  <2>2. CASE i = Len(s)
    <3>1. t[i] = s[Len(s)] /\ t[i + 1] = e /\ Len(s) # 0
        BY <1>1, <2>1, <2>2
    <3>2. Newest(s) = s[Len(s)]
        BY <3>1 DEF Newest
    <3>3. s[Len(s)] \in Nat
        BY <1>2, <2>1, <2>2
    <3> QED
        BY <2>1, <2>2, <3>1, <3>2, <3>3
  <2>3. CASE i # Len(s)
    <3>1. i \in 1..Len(s) - 1 /\ i + 1 \in 1..Len(s)
        BY <1>2, <2>1, <2>3
    <3>2. s[i] > s[i + 1]
        BY <1>1, <2>1, <3>1
    <3> QED
        BY <3>1, <3>2 DEF Descents
  <2> QED
      BY <2>2, <2>3
<1>5. CASE e < Newest(s)
  <2>1. Descents(t) \subseteq Descents(s) \union {Len(s)}
      BY <1>4
  <2>2. /\ IsFiniteSet(Descents(s) \union {Len(s)})
        /\ Cardinality(Descents(s) \union {Len(s)}) =
              IF Len(s) \in Descents(s) THEN Cardinality(Descents(s))
                                         ELSE Cardinality(Descents(s)) + 1
      BY <1>2, FS_AddElement, Zenon
  <2>3. Cardinality(Descents(t)) <= Cardinality(Descents(s) \union {Len(s)})
      BY <2>1, <2>2, FS_Subset
  <2>4. Cardinality(Descents(t)) \in Nat
      BY <1>1, DescentsTypes
  <2>5. Cardinality(Descents(t)) <= Cardinality(Descents(s)) + 1
      BY <1>2, <2>2, <2>3, <2>4
  <2> QED
      BY <1>1, <1>3, <1>5, <2>5 DEF t
<1>6. CASE ~(e < Newest(s))
  <2>1. Descents(t) \subseteq Descents(s)
      BY <1>4, <1>6
  <2>2. Cardinality(Descents(t)) <= Cardinality(Descents(s)) + 0
      BY <1>2, <2>1, FS_Subset
  <2> QED
      BY <1>1, <1>3, <1>6, <2>2 DEF t
<1> QED
    BY <1>5, <1>6

\* A series without one of its events has no more descents.
LEMMA DescentsOfRemoval ==
    ASSUME NEW s \in Seq(Nat), NEW t \in Seq(Nat), NEW k \in 1..Len(s),
           Len(t) = Len(s) - 1,
           \A i \in 1..k - 1 : t[i] = s[i],
           \A i \in k..Len(t) : t[i] = s[i + 1]
    PROVE  Cardinality(Descents(t)) <= Cardinality(Descents(s))
PROOF
<1> DEFINE g == [i \in Descents(t) |->
                    IF i < k - 1 THEN i
                    ELSE IF i = k - 1 THEN (IF s[k - 1] > s[k] THEN k - 1 ELSE k)
                    ELSE i + 1]
<1>1. /\ Len(s) \in Nat /\ Len(t) \in Nat /\ \A i \in 1..Len(s) : s[i] \in Nat
      /\ IsFiniteSet(Descents(s)) /\ k \in Nat
    BY DescentsTypes
<1>2. ASSUME NEW i \in Descents(t)
      PROVE  g[i] \in Descents(s)
  <2>1. i \in 1..Len(t) - 1 /\ t[i] > t[i + 1] /\ i \in Nat /\ i + 1 \in 1..Len(t)
      BY <1>1, <1>2 DEF Descents
  <2>2. CASE i < k - 1
    <3>1. t[i] = s[i] /\ t[i + 1] = s[i + 1] /\ i \in 1..Len(s) - 1
      <4>1. i \in 1..k - 1 /\ i + 1 \in 1..k - 1 /\ i \in 1..Len(s) - 1
          BY <1>1, <2>1, <2>2
      <4> QED
          BY <4>1
    <3>2. g[i] = i
        BY <1>2, <2>2
    <3> QED
        BY <2>1, <3>1, <3>2 DEF Descents
  <2>3. CASE i = k - 1
    <3>1. /\ k - 1 \in 1..Len(s) - 1 /\ k \in 1..Len(s) - 1
          /\ k - 1 \in 1..Len(s) /\ k \in 1..Len(s) /\ k + 1 \in 1..Len(s)
          /\ i \in 1..k - 1 /\ i + 1 = k /\ k \in k..Len(t) /\ (k - 1) + 1 = k
        BY <1>1, <2>1, <2>3
    <3>2. s[k - 1] > s[k + 1]
      <4>1. t[i] = s[k - 1] /\ t[i + 1] = s[k + 1]
          BY <2>3, <3>1
      <4> QED
          BY <2>1, <4>1
    <3>3. s[k - 1] \in Nat /\ s[k] \in Nat /\ s[k + 1] \in Nat
        BY <1>1, <3>1
    <3>4. CASE s[k - 1] > s[k]
      <4>1. g[i] = k - 1
          BY <1>1, <1>2, <2>3, <3>4
      <4>2. k - 1 \in Descents(s)
          BY <3>1, <3>4 DEF Descents
      <4> QED
          BY <4>1, <4>2
    <3>5. CASE ~(s[k - 1] > s[k])
      <4>1. g[i] = k
          BY <1>1, <1>2, <2>3, <3>5
      <4>2. s[k] > s[k + 1]
        <5>1. \A a, b, c \in Nat : a > c /\ ~(a > b) => b > c
            OBVIOUS
        <5> QED
            BY <3>2, <3>3, <3>5, <5>1, Zenon
      <4>3. k \in Descents(s)
          BY <3>1, <4>2 DEF Descents
      <4> QED
          BY <4>1, <4>3
    <3> QED
        BY <3>4, <3>5
  <2>4. CASE i >= k
    <3>1. i \in k..Len(t) /\ i + 1 \in k..Len(t) /\ i + 1 \in 1..Len(s) - 1
        BY <1>1, <2>1, <2>4
    <3>2. t[i] = s[i + 1] /\ t[i + 1] = s[(i + 1) + 1]
        BY <3>1
    <3>3. g[i] = i + 1
        BY <1>1, <1>2, <2>1, <2>4
    <3> QED
        BY <2>1, <3>1, <3>2, <3>3 DEF Descents
  <2> QED
      BY <1>1, <2>1, <2>2, <2>3, <2>4
<1>3. \A i \in Descents(t) : i \in Nat
    BY <1>1 DEF Descents
<1>4. ASSUME NEW i \in Descents(t)
      PROVE  /\ g[i] \in Nat
             /\ i < k - 1 => g[i] = i
             /\ i = k - 1 => g[i] = k - 1 \/ g[i] = k
             /\ i >= k => g[i] = i + 1
  <2>1. g[i] = IF i < k - 1 THEN i
               ELSE IF i = k - 1 THEN (IF s[k - 1] > s[k] THEN k - 1 ELSE k)
               ELSE i + 1
      BY <1>4
  <2>2. i \in Nat
      BY <1>3, <1>4
  <2> HIDE DEF g
  <2> QED
      BY <1>1, <2>1, <2>2
<1>5. g = [i \in Descents(t) |-> g[i]]
    OBVIOUS
<1> HIDE DEF g
<1>6. \A i, j \in Descents(t) : g[i] = g[j] => i = j
  <2> SUFFICES ASSUME NEW i \in Descents(t), NEW j \in Descents(t), g[i] = g[j]
              PROVE  i = j
      OBVIOUS
  <2>1. i \in Nat /\ j \in Nat
      BY <1>3
  <2>2. /\ i < k - 1 => g[i] = i
        /\ i = k - 1 => g[i] = k - 1 \/ g[i] = k
        /\ i >= k => g[i] = i + 1
        /\ j < k - 1 => g[j] = j
        /\ j = k - 1 => g[j] = k - 1 \/ g[j] = k
        /\ j >= k => g[j] = j + 1
      BY <1>4
  <2>3. g[i] \in Nat /\ k \in Nat /\ k >= 1
      BY <1>1, <1>4
  <2>4. CASE i < k - 1
    <3>1. g[i] = i /\ g[i] < k - 1
        BY <2>2, <2>4
    <3>2. ~(j >= k) /\ j # k - 1
        BY <2>1, <2>2, <2>3, <3>1
    <3> QED
        BY <2>1, <2>2, <2>3, <3>1, <3>2
  <2>5. CASE i = k - 1
    <3>1. g[i] = k - 1 \/ g[i] = k
        BY <2>2, <2>5
    <3>2. ~(j >= k) /\ ~(j < k - 1)
        BY <2>1, <2>2, <2>3, <3>1
    <3> QED
        BY <2>1, <2>3, <2>5, <3>2
  <2>6. CASE i >= k
    <3>1. g[i] = i + 1
        BY <2>2, <2>6
    <3>2. j >= k
        BY <2>1, <2>2, <2>3, <2>6, <3>1
    <3> QED
        BY <2>1, <2>2, <3>1, <3>2
  <2> QED
      BY <2>1, <2>3, <2>4, <2>5, <2>6
<1>7. g \in Injection(Descents(t), Descents(s))
    BY <1>2, <1>5, <1>6 DEF Injection, IsInjective
<1> QED
    BY <1>1, <1>7, FS_Injection

-----------------------------------------------------------------------------
(* The series: the documents, and those that are coming.                    *)

LEMMA ElementsOfConcat ==
    ASSUME NEW S, NEW s \in Seq(S), NEW t \in Seq(S)
    PROVE  /\ s \o t \in Seq(S) /\ Len(s \o t) = Len(s) + Len(t)
           /\ \A i \in 1..Len(s) : (s \o t)[i] = s[i]
           /\ \A i \in 1..Len(t) : (s \o t)[Len(s) + i] = t[i]
           /\ ToSet(s \o t) = ToSet(s) \union ToSet(t)
PROOF
<1>1. /\ s \o t \in Seq(S) /\ Len(s \o t) = Len(s) + Len(t)
      /\ \A i \in 1..Len(s) + Len(t) : (s \o t)[i] = IF i <= Len(s) THEN s[i] ELSE t[i - Len(s)]
    BY ConcatProperties
<1>2. Len(s) \in Nat /\ Len(t) \in Nat
    BY ElementsOf
<1>3. \A i \in 1..Len(s) : (s \o t)[i] = s[i]
    BY <1>1, <1>2
<1>4. ASSUME NEW i \in 1..Len(t)
      PROVE  (s \o t)[Len(s) + i] = t[i]
  <2>1. Len(s) + i \in 1..Len(s) + Len(t) /\ ~(Len(s) + i <= Len(s)) /\ (Len(s) + i) - Len(s) = i
      BY <1>2
  <2> QED
      BY <1>1, <2>1
<1>5. /\ ToSet(s) = {s[i] : i \in 1..Len(s)} /\ ToSet(t) = {t[i] : i \in 1..Len(t)}
      /\ ToSet(s \o t) = {(s \o t)[i] : i \in 1..Len(s) + Len(t)}
    BY <1>1, ElementsOf
<1>6. ASSUME NEW i \in 1..Len(s) + Len(t), i \notin 1..Len(s)
      PROVE  i - Len(s) \in 1..Len(t) /\ i = Len(s) + (i - Len(s))
    BY <1>2, <1>6
<1>7. ToSet(s \o t) \subseteq ToSet(s) \union ToSet(t)
  <2> SUFFICES ASSUME NEW i \in 1..Len(s) + Len(t)
              PROVE  (s \o t)[i] \in ToSet(s) \union ToSet(t)
      BY <1>5
  <2>1. CASE i \in 1..Len(s)
      BY <1>3, <1>5, <2>1
  <2>2. CASE i \notin 1..Len(s)
    <3>1. (s \o t)[i] = t[i - Len(s)]
        BY <1>4, <1>6, <2>2
    <3> QED
        BY <1>5, <1>6, <2>2, <3>1
  <2> QED
      BY <2>1, <2>2
<1>8. /\ \A i \in 1..Len(s) : i \in 1..Len(s) + Len(t)
      /\ \A i \in 1..Len(t) : Len(s) + i \in 1..Len(s) + Len(t)
    BY <1>2
<1>9. ToSet(s) \union ToSet(t) \subseteq ToSet(s \o t)
    BY <1>3, <1>4, <1>5, <1>8
<1> QED
    BY <1>1, <1>3, <1>4, <1>7, <1>9

\* What is coming begins with the head: it makes no difference when it has come.
LEMMA HeadHasCome ==
    ASSUME NEW S, NEW s \in Seq(S), NEW t \in Seq(S), t # <<>>
    PROVE  /\ Append(s, Head(t)) \o Tail(t) = s \o t
           /\ Append(s, Head(t)) \o <<>> = s \o <<Head(t)>>
           /\ Append(s, Head(t)) \in Seq(S)
PROOF
<1>1. /\ Head(t) = t[1] /\ Head(t) \in S /\ Tail(t) \in Seq(S) /\ Len(Tail(t)) = Len(t) - 1
      /\ Len(t) >= 1 /\ \A i \in 1..Len(t) - 1 : Tail(t)[i] = t[i + 1]
    BY ElementsOfTail
<1> DEFINE a == Append(s, Head(t))
           l == Tail(t)
<1>2. /\ a \in Seq(S) /\ Len(a) = Len(s) + 1
      /\ \A i \in 1..Len(s) : a[i] = s[i]
      /\ a[Len(s) + 1] = t[1]
    BY <1>1, ElementsOfAppend
<1>3. l \in Seq(S) /\ Len(l) = Len(t) - 1 /\ \A i \in 1..Len(t) - 1 : l[i] = t[i + 1]
    BY <1>1
<1>4. Len(s) \in Nat /\ Len(t) \in Nat
    BY ElementsOf
<1>5. a \o <<>> = s \o <<Head(t)>>
  <2>1. a = s \o <<Head(t)>>
      BY <1>1, AppendIsConcat
  <2>2. a \o <<>> = a
      BY <1>2, ConcatEmptySeq
  <2> QED
      BY <2>1, <2>2
<1> HIDE DEF a, l
<1>6. /\ s \o t \in Seq(S) /\ Len(s \o t) = Len(s) + Len(t)
      /\ \A i \in 1..Len(s) : (s \o t)[i] = s[i]
      /\ \A i \in 1..Len(t) : (s \o t)[Len(s) + i] = t[i]
    BY ElementsOfConcat
<1>7. /\ a \o l \in Seq(S) /\ Len(a \o l) = Len(s) + Len(t)
      /\ \A i \in 1..Len(s) + 1 : (a \o l)[i] = a[i]
      /\ \A i \in 1..Len(t) - 1 : (a \o l)[(Len(s) + 1) + i] = l[i]
  <2>1. /\ a \o l \in Seq(S) /\ Len(a \o l) = Len(a) + Len(l)
        /\ \A i \in 1..Len(a) : (a \o l)[i] = a[i]
        /\ \A i \in 1..Len(l) : (a \o l)[Len(a) + i] = l[i]
    <3>1. \A x, y \in Seq(S) :
              /\ x \o y \in Seq(S) /\ Len(x \o y) = Len(x) + Len(y)
              /\ \A i \in 1..Len(x) : (x \o y)[i] = x[i]
              /\ \A i \in 1..Len(y) : (x \o y)[Len(x) + i] = y[i]
        BY ElementsOfConcat
    <3> QED
        BY <1>2, <1>3, <3>1, Zenon
  <2> QED
      BY <1>2, <1>3, <1>4, <2>1
<1>8. ASSUME NEW i \in 1..Len(s) + Len(t)
      PROVE  (a \o l)[i] = (s \o t)[i]
  <2>1. CASE i \in 1..Len(s)
    <3>1. i \in 1..Len(s) + 1
        BY <1>4, <2>1
    <3> QED
        BY <1>2, <1>6, <1>7, <2>1, <3>1
  <2>2. CASE i = Len(s) + 1
    <3>1. 1 \in 1..Len(t) /\ i \in 1..Len(s) + 1
        BY <1>1, <1>4, <2>2
    <3>2. (a \o l)[i] = t[1]
        BY <1>2, <1>7, <2>2, <3>1
    <3> QED
        BY <1>6, <2>2, <3>1, <3>2
  <2>3. CASE i > Len(s) + 1
    <3>1. PICK j \in 1..Len(t) - 1 : i = (Len(s) + 1) + j /\ j + 1 \in 1..Len(t)
                                     /\ i = Len(s) + (j + 1)
      <4>1. i - (Len(s) + 1) \in 1..Len(t) - 1
          BY <1>4, <2>3
      <4>2. \A n, m \in Nat : \A x \in 1..n + m : x - (n + 1) \in 1..m - 1 =>
                /\ x = (n + 1) + (x - (n + 1)) /\ (x - (n + 1)) + 1 \in 1..m
                /\ x = n + ((x - (n + 1)) + 1)
          OBVIOUS
      <4> QED
          BY <1>4, <4>1, <4>2
    <3>2. (a \o l)[i] = l[j] /\ l[j] = t[j + 1]
        BY <1>3, <1>7, <3>1
    <3>3. (s \o t)[i] = t[j + 1]
        BY <1>6, <3>1
    <3> QED
        BY <3>2, <3>3
  <2>4. i \in 1..Len(s) \/ i = Len(s) + 1 \/ i > Len(s) + 1
      BY <1>4
  <2> QED
      BY <2>1, <2>2, <2>3, <2>4, Zenon
<1>9. a \o l = s \o t
    BY <1>6, <1>7, <1>8, SeqEqual
<1> QED
    BY <1>2, <1>5, <1>9 DEF a, l

LEMMA SeriesTypes ==
    ASSUME BaseInv
    PROVE  /\ Coming \in Seq(Events) /\ ToSet(Coming) \subseteq ToSet(hand)
           /\ Series \in Seq(Events) /\ Series \in Seq(Nat)
           /\ Cardinality(Descents(Series)) \in Nat /\ Newest(Series) \in Nat
           /\ Newest(Series) <= published
           /\ ready \subseteq Nat /\ Pending \in 0..2 /\ faults \in Nat
PROOF
<1>1. hand \in Seq(Events) /\ inbox \in Seq(Events) /\ faults \in Nat /\ published \in Nat
      /\ ToSet(hand) \subseteq Events
    BY HandTypes
<1>5. Coming \in Seq(Events) /\ ToSet(Coming) \subseteq ToSet(hand)
    BY ComingTypes
<1>6. Series \in Seq(Events) /\ ToSet(Series) = ToSet(inbox) \union ToSet(Coming)
    BY <1>1, <1>5, ElementsOfConcat DEF Series
<1>7. /\ Len(Series) \in Nat /\ \A i \in 1..Len(Series) : Series[i] \in Events
      /\ ToSet(Series) = {Series[i] : i \in 1..Len(Series)}
    BY <1>6, ElementsOf
<1>8. Series \in Seq(Nat)
  <2>1. Events \subseteq Nat
      BY DEF Events
  <2> QED
      BY <1>6, <2>1, SeqMonotonic
<1>9. Cardinality(Descents(Series)) \in Nat /\ Newest(Series) \in Nat
    BY <1>8, DescentsTypes
<1>10. Newest(Series) <= published
  <2>1. CASE Len(Series) = 0
      BY <1>1, <2>1 DEF Newest
  <2>2. CASE Len(Series) # 0
    <3>1. Series[Len(Series)] \in ToSet(Series)
        BY <1>7, <2>2
    <3>2. ToSet(Series) \subseteq Arrived
        BY <1>5, <1>6 DEF BaseInv, ArrivedInv
    <3>3. Series[Len(Series)] <= published
        BY <1>1, <3>1, <3>2 DEF Arrived
    <3> QED
        BY <2>2, <3>3 DEF Newest
  <2> QED
      BY <2>1, <2>2
<1>11. ready \subseteq Nat
    BY DEF BaseInv, TypeOK, Events
<1> QED
    BY <1>1, <1>5, <1>6, <1>8, <1>9, <1>10, <1>11 DEF Pending

LEMMA SeriesTypesPrimed ==
    BaseInv' => /\ Series' \in Seq(Nat) /\ Cardinality(Descents(Series')) \in Nat
                /\ Newest(Series') \in Nat /\ Pending' \in 0..2 /\ faults' \in Nat
                /\ Coming' \in Seq(Events)
PROOF
<1>1. BaseInv => /\ Series \in Seq(Nat) /\ Cardinality(Descents(Series)) \in Nat
                 /\ Newest(Series) \in Nat /\ Pending \in 0..2 /\ faults \in Nat
                 /\ Coming \in Seq(Events)
    BY SeriesTypes
<1>2. BaseInv' => (/\ Series \in Seq(Nat) /\ Cardinality(Descents(Series)) \in Nat
                   /\ Newest(Series) \in Nat /\ Pending \in 0..2 /\ faults \in Nat
                   /\ Coming \in Seq(Events))'
    BY <1>1, PTL
<1> QED
    BY <1>2

-----------------------------------------------------------------------------
(* What a fault may cost a customer's list.                                 *)

LEMMA InitOrder == Init => OrderInv
PROOF
<1> SUFFICES ASSUME Init
            PROVE  OrderInv
    OBVIOUS
<1>1. /\ inbox = <<>> /\ hand = <<>> /\ ready = {} /\ away = {} /\ faults = 0
    BY DEF Init
<1>2. Series = <<>>
  <2>1. <<>> \o <<>> = <<>>
      OBVIOUS
  <2> QED
      BY <1>1, <2>1 DEF Series, Coming
<1>3. Descents(Series) = {}
    BY <1>2, NoElements DEF Descents
<1>4. Cardinality(Descents(Series)) = 0
    BY <1>3, FS_EmptySet
<1>5. Pending = 0
    BY <1>1 DEF Pending, Behind
<1> QED
    BY <1>1, <1>4, <1>5 DEF OrderInv

\* The series stays, and nothing becomes late.
LEMMA SeriesKept ==
    ASSUME BaseInv, BaseInv', OrderInv, Series' = Series,
           Pending' <= Pending, faults' >= faults
    PROVE  OrderInv'
PROOF
<1>1. /\ Cardinality(Descents(Series)) \in Nat /\ Pending \in 0..2 /\ faults \in Nat
    BY SeriesTypes
<1>2. Pending' \in 0..2 /\ faults' \in Nat
    BY SeriesTypesPrimed
<1>3. Cardinality(Descents(Series)) + Pending <= faults
    BY DEF OrderInv
<1>4. Cardinality(Descents(Series')) + Pending' <= faults'
  <2> DEFINE d == Cardinality(Descents(Series))
  <2> HIDE DEF d
  <2>1. \A x \in Nat, p \in 0..2, q \in 0..2, f \in Nat, g \in Nat :
            x + p <= f /\ q <= p /\ g >= f => x + q <= g
      OBVIOUS
  <2>2. d \in Nat /\ d + Pending <= faults
      BY <1>1, <1>3 DEF d
  <2>3. d + Pending' <= faults'
      BY <1>1, <1>2, <2>1, <2>2, Zenon
  <2> QED
      BY <2>3 DEF d
<1> QED
    BY <1>4 DEF OrderInv

\* What is late after a step with the series and the queue as they were.
LEMMA PendingKept ==
    ASSUME Series' = Series, ready' = ready, away' = away
    PROVE  Pending' = Pending
PROOF
BY DEF Pending, Behind

LEMMA PublishOrder ==
    ASSUME BaseInv, BaseInv', OrderInv, Publish
    PROVE  OrderInv'
PROOF
<1>1. /\ ready' \subseteq ready \union {published + 1}
      /\ UNCHANGED <<away, link, hand, work, inbox, faults>>
    BY DEF Publish, docVars
<1>2. Series' = Series
    BY <1>1 DEF Series, Coming
<1>3. Behind(Series)' => Behind(Series)
  <2>1. Newest(Series) \in Nat /\ Newest(Series) <= published /\ published \in Nat
      BY SeriesTypes, HandTypes
  <2>2. ~(published + 1 < Newest(Series))
      BY <2>1
  <2> QED
      BY <1>1, <1>2, <2>2 DEF Behind
<1>4. Pending' <= Pending /\ faults' >= faults
  <2>1. faults \in Nat
      BY HandTypes
  <2> QED
      BY <1>1, <1>3, <2>1 DEF Pending
<1> QED
    BY <1>2, <1>4, SeriesKept

LEMMA ReturnOrder ==
    ASSUME BaseInv, BaseInv', OrderInv, Return
    PROVE  OrderInv'
PROOF
<1>1. /\ away # {} /\ away' = {}
      /\ UNCHANGED <<link, hand, work, inbox, faults>>
    BY DEF Return, docVars
<1>2. Series' = Series
    BY <1>1 DEF Series, Coming
<1>3. Pending' <= Pending /\ faults' >= faults
  <2>1. faults \in Nat
      BY HandTypes
  <2> QED
      BY <1>1, <2>1 DEF Pending
<1> QED
    BY <1>2, <1>3, SeriesKept

\* Connecting, taking a message, an ack that does not raise: the series is as before.
LEMMA ConnectOrder ==
    ASSUME BaseInv, BaseInv', OrderInv,
           \/ Connect \/ Take \/ AckArrives \/ (Ack /\ hand' = Tail(hand))
           \/ UNCHANGED <<ready, away, link, hand, work, acks, inbox, faults>>
    PROVE  OrderInv'
PROOF
<1>1. /\ ready' = ready /\ away' = away /\ inbox' = inbox /\ faults' = faults
    BY DEF Connect, Take, Ack, AckArrives, WorkStep, queueVars, docVars
<1>2. Coming' = Coming
  <2>1. CASE Connect \/ AckArrives \/ UNCHANGED <<ready, away, link, hand, work, acks, inbox, faults>>
    <3>1. hand' = hand /\ work' = work
        BY <2>1 DEF Connect, AckArrives
    <3> QED
        BY <3>1 DEF Coming
  <2>2. CASE Take
    <3>1. hand' = hand /\ work = "waiting" /\ work' = "inserting"
        BY <2>2 DEF Take, WorkStep
    <3> QED
        BY <3>1 DEF Coming
  <2>3. CASE Ack /\ hand' = Tail(hand)
    <3>1. work = "stored" /\ work' = "waiting" /\ hand # <<>>
        BY <2>3, HandTypes DEF Ack, WorkStep
    <3> QED
        BY <2>3, <3>1 DEF Coming
  <2> QED
      BY <2>1, <2>2, <2>3
<1>3. Series' = Series
    BY <1>1, <1>2 DEF Series
<1>4. Pending' = Pending
    BY <1>1, <1>3, PendingKept
<1>5. Pending' <= Pending /\ faults' >= faults
    BY <1>1, <1>4, SeriesTypes
<1> QED
    BY <1>3, <1>5, SeriesKept

\* The insert of the first message in hand: it was coming, and is there.
LEMMA SeriesOfStore ==
    ASSUME BaseInv, WorkStep("inserting", "stored"), Store, hand' = hand
    PROVE  Series' = Series
PROOF
<1>1. work = "inserting" /\ work' = "stored" /\ inbox' = Append(inbox, Head(hand))
    BY DEF WorkStep, Store
<1>2. hand # <<>> /\ hand \in Seq(Events) /\ inbox \in Seq(Events)
    BY <1>1, HandTypes
<1>3. Append(inbox, Head(hand)) \o Tail(hand) = inbox \o hand
    BY <1>2, HeadHasCome
<1>4. Coming = hand /\ Coming' = Tail(hand)
    BY <1>1, <1>2 DEF Coming
<1> QED
    BY <1>1, <1>3, <1>4 DEF Series

LEMMA StoreOrder ==
    ASSUME BaseInv, BaseInv', OrderInv, WorkStep("inserting", "stored"), Store,
           hand' = hand, faults' >= faults
    PROVE  OrderInv'
PROOF
<1>1. ready' = ready /\ away' = away
    BY DEF WorkStep
<1>2. Series' = Series
    BY SeriesOfStore
<1>3. Pending' = Pending
    BY <1>1, <1>2, PendingKept
<1>4. Pending' <= Pending
    BY <1>3, SeriesTypes
<1> QED
    BY <1>2, <1>4, SeriesKept

\* The first message that is ready is the last that is coming.
LEMMA ReceiveOrder ==
    ASSUME BaseInv, BaseInv', OrderInv, Receive
    PROVE  OrderInv'
PROOF
<1> DEFINE m == Min(ready)
<1>1. /\ m \in ready /\ m \in Events /\ \A e \in ready : m <= e
      /\ hand' = Append(hand, m) /\ ready' = ready \ {m}
      /\ link = "consuming" /\ link' = link
      /\ away' = away /\ work' = work /\ inbox' = inbox /\ faults' = faults
    BY ReceiveFacts
<1> HIDE DEF m
<1>2. hand \in Seq(Events) /\ inbox \in Seq(Events)
    BY HandTypes
<1>3. /\ Append(hand, m) # <<>>
      /\ Tail(Append(hand, m)) = IF hand = <<>> THEN <<>> ELSE Append(Tail(hand), m)
    BY <1>1, <1>2, HeadTailAppend, AppendProperties
<1>4. Coming' = Append(Coming, m)
  <2>1. CASE hand = <<>>
    <3>1. work # "stored"
        BY <2>1, HandTypes
    <3>2. Coming = <<>> /\ Coming' = Append(hand, m)
        BY <1>1, <1>3, <2>1, <3>1 DEF Coming
    <3> QED
        BY <2>1, <3>2
  <2>2. CASE hand # <<>> /\ work = "stored"
      BY <1>1, <1>3, <2>2 DEF Coming
  <2>3. CASE hand # <<>> /\ work # "stored"
      BY <1>1, <1>3, <2>3 DEF Coming
  <2> QED
      BY <2>1, <2>2, <2>3
<1>5. Coming \in Seq(Events) /\ Series \in Seq(Nat) /\ Series \in Seq(Events)
    BY SeriesTypes
<1>6. Series' = Append(Series, m)
  <2>1. Append(Coming, m) = Coming \o <<m>>
      BY <1>1, <1>5, AppendIsConcat
  <2>2. Append(Series, m) = Series \o <<m>>
      BY <1>1, <1>5, AppendIsConcat
  <2>3. <<m>> \in Seq(Events)
      BY <1>1
  <2>4. (inbox \o Coming) \o <<m>> = inbox \o (Coming \o <<m>>)
      BY <1>2, <1>5, <2>3, ConcatAssociative
  <2> QED
      BY <1>1, <1>4, <2>1, <2>2, <2>4 DEF Series
<1>7. m \in Nat
    BY <1>1 DEF Events
<1>8. /\ Newest(Append(Series, m)) = m
      /\ Cardinality(Descents(Append(Series, m))) <=
             Cardinality(Descents(Series)) + (IF m < Newest(Series) THEN 1 ELSE 0)
    BY <1>5, <1>7, DescentsOfAppend
<1> DEFINE d == Cardinality(Descents(Series))
           c == Cardinality(Descents(Series'))
           b == IF Behind(Series) THEN 1 ELSE 0
           a == IF away # {} THEN 1 ELSE 0
<1>9. c <= d + b
  <2>1. m < Newest(Series) => Behind(Series)
      BY <1>1 DEF Behind
  <2>2. d \in Nat /\ c \in Nat
      BY SeriesTypes, SeriesTypesPrimed
  <2>3. c <= d + (IF m < Newest(Series) THEN 1 ELSE 0)
      BY <1>6, <1>8
  <2> HIDE DEF d, c
  <2> QED
      BY <2>1, <2>2, <2>3
<1>10. Pending' = a
  <2>1. ~Behind(Series)'
    <3>1. Newest(Series') = m
        BY <1>6, <1>8
    <3>2. \A e \in ready' : ~(e < m)
        BY <1>1, <1>7, SeriesTypes
    <3> QED
        BY <3>1, <3>2 DEF Behind
  <2> QED
      BY <1>1, <2>1 DEF Pending
<1>11. d + (b + a) <= faults
    BY DEF OrderInv, Pending
<1>12. d \in Nat /\ c \in Nat /\ faults \in Nat /\ a \in Nat /\ b \in Nat
    BY SeriesTypes, SeriesTypesPrimed
<1>13. c + a <= faults
  <2> HIDE DEF a, b, c, d
  <2> QED
      BY <1>9, <1>11, <1>12
<1> QED
    BY <1>1, <1>10, <1>13 DEF OrderInv

\* After a crash, a shutdown or an ack that raises, the series is a beginning of what it
\* was: what is not coming any more is late, or will be when it is ready again.
LEMMA BeginningOrder ==
    ASSUME BaseInv, BaseInv', OrderInv, ready' = ready,
           faults' = faults + 1 \/ (faults' = faults /\ away' = away),
           Len(Series') <= Len(Series), \A i \in 1..Len(Series') : Series'[i] = Series[i]
    PROVE  OrderInv'
PROOF
<1> DEFINE d == Cardinality(Descents(Series))
           c == Cardinality(Descents(Series'))
           b == IF Behind(Series) THEN 1 ELSE 0
           e == IF Behind(Series)' THEN 1 ELSE 0
           a == IF away' # {} THEN 1 ELSE 0
<1>1. Series \in Seq(Nat) /\ Series' \in Seq(Nat) /\ Newest(Series) \in Nat
      /\ Newest(Series') \in Nat /\ ready \subseteq Nat
    BY SeriesTypes, SeriesTypesPrimed
<1>2. c <= d /\ (Newest(Series') > Newest(Series) => c <= d - 1)
    BY <1>1, DescentsOfBeginning
<1>3. Newest(Series') <= Newest(Series) => e <= b
  <2> SUFFICES ASSUME Newest(Series') <= Newest(Series), Behind(Series)'
              PROVE  Behind(Series)
      OBVIOUS
  <2>1. PICK x \in ready : x < Newest(Series')
      BY DEF Behind
  <2>2. x < Newest(Series)
      BY <1>1, <2>1
  <2> QED
      BY <2>2 DEF Behind
<1>4. d + b <= faults /\ (away' = away => d + (b + a) <= faults)
  <2>1. d + Pending <= faults /\ Pending >= b /\ (away' = away => Pending = b + a)
      BY DEF OrderInv, Pending
  <2>2. d \in Nat /\ Pending \in 0..2 /\ faults \in Nat /\ b \in 0..1
      BY SeriesTypes
  <2> HIDE DEF d, b, a
  <2> QED
      BY <2>1, <2>2
<1>5. /\ d \in Nat /\ c \in Nat /\ faults \in Nat /\ a \in 0..1 /\ b \in 0..1 /\ e \in 0..1
    BY SeriesTypes, SeriesTypesPrimed
<1>6. c + e <= d + b
  <2> HIDE DEF b, c, d, e
  <2> QED
      BY <1>1, <1>2, <1>3, <1>5
<1>7. c + (e + a) <= faults'
  <2> HIDE DEF a, b, c, d, e
  <2>1. CASE faults' = faults + 1
      BY <1>4, <1>5, <1>6, <2>1
  <2>2. CASE faults' = faults /\ away' = away
      BY <1>4, <1>5, <1>6, <2>2
  <2> QED
      BY <2>1, <2>2
<1>8. Pending' = e + a
    BY DEF Pending
<1> QED
    BY <1>7, <1>8 DEF OrderInv

\* Documents are the beginning of the series, and so they are with the message in work.
LEMMA Beginnings ==
    ASSUME BaseInv
    PROVE  /\ Len(inbox) <= Len(Series) /\ \A i \in 1..Len(inbox) : inbox[i] = Series[i]
           /\ (hand # <<>> /\ work # "stored") =>
                 LET s == inbox \o <<Head(hand)>>
                 IN  Len(s) <= Len(Series) /\ \A i \in 1..Len(s) : s[i] = Series[i]
PROOF
<1>1. inbox \in Seq(Events) /\ hand \in Seq(Events) /\ Coming \in Seq(Events)
    BY HandTypes, SeriesTypes
<1>2. /\ Len(Series) = Len(inbox) + Len(Coming)
      /\ \A i \in 1..Len(inbox) : Series[i] = inbox[i]
      /\ \A i \in 1..Len(Coming) : Series[Len(inbox) + i] = Coming[i]
    BY <1>1, ElementsOfConcat DEF Series
<1>3. Len(inbox) \in Nat /\ Len(Coming) \in Nat
    BY <1>1, ElementsOf
<1>4. ASSUME hand # <<>>, work # "stored"
      PROVE  LET s == inbox \o <<Head(hand)>>
             IN  Len(s) <= Len(Series) /\ \A i \in 1..Len(s) : s[i] = Series[i]
  <2> DEFINE s == inbox \o <<Head(hand)>>
  <2>1. Head(hand) = hand[1] /\ Head(hand) \in Events /\ Len(hand) >= 1
      BY <1>1, <1>4, ElementsOfTail
  <2>2. Len(Coming) >= 1 /\ Coming[1] = Head(hand)
      BY <1>4, <2>1 DEF Coming
  <2>3. /\ Len(s) = Len(inbox) + 1
        /\ \A i \in 1..Len(inbox) : s[i] = inbox[i]
        /\ s[Len(inbox) + 1] = Head(hand)
    <3>1. s = Append(inbox, Head(hand))
        BY <1>1, <2>1, AppendIsConcat
    <3>2. \A e \in Events :
              /\ Len(Append(inbox, e)) = Len(inbox) + 1
              /\ \A i \in 1..Len(inbox) : Append(inbox, e)[i] = inbox[i]
              /\ Append(inbox, e)[Len(inbox) + 1] = e
        BY <1>1, ElementsOfAppend
    <3>3. /\ Len(Append(inbox, Head(hand))) = Len(inbox) + 1
          /\ \A i \in 1..Len(inbox) : Append(inbox, Head(hand))[i] = inbox[i]
          /\ Append(inbox, Head(hand))[Len(inbox) + 1] = Head(hand)
        BY <2>1, <3>2, Zenon
    <3> HIDE DEF s
    <3> QED
        BY <3>1, <3>3
  <2> HIDE DEF s
  <2>4. Series[Len(inbox) + 1] = Head(hand)
      BY <1>2, <1>3, <2>2
  <2>5. Len(s) <= Len(Series)
      BY <1>2, <1>3, <2>2, <2>3
  <2>6. ASSUME NEW i \in 1..Len(s)
        PROVE  s[i] = Series[i]
    <3>1. i \in 1..Len(inbox) \/ i = Len(inbox) + 1
        BY <1>3, <2>3
    <3> QED
        BY <1>2, <2>3, <2>4, <3>1
  <2> QED
      BY <2>5, <2>6 DEF s
<1>5. Len(inbox) <= Len(Series) /\ \A i \in 1..Len(inbox) : inbox[i] = Series[i]
    BY <1>2, <1>3
<1> QED
    BY <1>4, <1>5, Zenon

\* A step that a fault pays for: the series has no more descents, but messages may come late.
LEMMA OrderPaid ==
    ASSUME BaseInv, BaseInv', OrderInv, faults' = faults + 1,
           Cardinality(Descents(Series')) <= Cardinality(Descents(Series)),
           Pending' <= Pending + 1
    PROVE  OrderInv'
PROOF
<1> DEFINE d == Cardinality(Descents(Series))
           c == Cardinality(Descents(Series'))
<1>1. /\ d \in Nat /\ c \in Nat /\ Pending \in 0..2 /\ Pending' \in 0..2 /\ faults \in Nat
    BY SeriesTypes, SeriesTypesPrimed
<1>2. d + Pending <= faults
    BY DEF OrderInv
<1>3. c + Pending' <= faults + 1
  <2>1. \A x, y, p, q, f \in Nat : y <= x /\ x + p <= f /\ q <= p + 1 => y + q <= f + 1
      OBVIOUS
  <2>2. Pending \in Nat /\ Pending' \in Nat
      BY <1>1
  <2>3. c <= d
      OBVIOUS
  <2> HIDE DEF d, c
  <2> QED
      BY <1>1, <1>2, <2>1, <2>2, <2>3, Zenon
<1> QED
    BY <1>3 DEF OrderInv

\* What is in hand is still coming, and will come again.
LEMMA LoseOrder ==
    ASSUME BaseInv, BaseInv', OrderInv, LoseConnection
    PROVE  OrderInv'
PROOF
<1>1. /\ faults' = faults + 1 /\ ready' = ready
      /\ hand' = hand /\ work' = work /\ inbox' = inbox
    BY DEF LoseConnection, Fault, docVars
<1>2. Series' = Series
    BY <1>1 DEF Series, Coming
<1>3. Cardinality(Descents(Series')) <= Cardinality(Descents(Series))
    BY <1>2, SeriesTypes
<1>4. Pending' <= Pending + 1
    BY <1>1, <1>2 DEF Pending, Behind
<1> QED
    BY <1>1, <1>3, <1>4, OrderPaid

\* An ack that raises leaves what was in hand to the broker.
LEMMA RaiseOrder ==
    ASSUME BaseInv, BaseInv', OrderInv, Ack, hand' = <<>>
    PROVE  OrderInv'
PROOF
<1>1. ready' = ready /\ away' = away /\ inbox' = inbox /\ faults' = faults
    BY DEF Ack, WorkStep
<1>2. Coming' = <<>> /\ inbox \in Seq(Events)
    BY HandTypes DEF Coming
<1>3. Series' = inbox
    BY <1>1, <1>2, ConcatEmptySeq DEF Series
<1>4. Len(Series') <= Len(Series) /\ \A i \in 1..Len(Series') : Series'[i] = Series[i]
    BY <1>3, Beginnings
<1> QED
    BY <1>1, <1>4, BeginningOrder

LEMMA RestartOrder ==
    ASSUME BaseInv, BaseInv', OrderInv, Crash \/ Shutdown
    PROVE  OrderInv'
PROOF
<1>1. /\ link' = "connecting" /\ hand' = <<>> /\ ready' = ready /\ faults' = faults + 1
      /\ inbox' = inbox \/ (work = "inserting" /\ Store)
    BY DEF Crash, Shutdown, Restart, Fault
<1>2. Coming' = <<>> /\ inbox \in Seq(Events) /\ inbox' \in Seq(Events) /\ hand \in Seq(Events)
  <2>1. inbox' \in Seq(Events)
      BY DEF BaseInv, TypeOK
  <2> QED
      BY <1>1, <2>1, HandTypes DEF Coming
<1>3. Series' = inbox'
    BY <1>2, ConcatEmptySeq DEF Series
<1>4. Len(Series') <= Len(Series) /\ \A i \in 1..Len(Series') : Series'[i] = Series[i]
  <2>1. CASE inbox' = inbox
      BY <1>3, <2>1, Beginnings
  <2>2. CASE work = "inserting" /\ Store
    <3>1. hand # <<>>
        BY <2>2, HandTypes
    <3>2. Series' = inbox \o <<Head(hand)>>
      <4>1. Head(hand) \in Events
          BY <1>2, <3>1, ElementsOfTail
      <4>2. Append(inbox, Head(hand)) = inbox \o <<Head(hand)>>
          BY <1>2, <4>1, AppendIsConcat
      <4> QED
          BY <1>3, <2>2, <4>2 DEF Store
    <3> QED
        BY <2>2, <3>1, <3>2, Beginnings
  <2> QED
      BY <1>1, <2>1, <2>2
<1> QED
    BY <1>1, <1>4, BeginningOrder

\* An insert that fails takes one event out of the series.
LEMMA InsertFailsOrder ==
    ASSUME BaseInv, BaseInv', OrderInv, InsertFails
    PROVE  OrderInv'
PROOF
<1>1. /\ WorkStep("inserting", "stored") /\ faults' = faults + 1
      /\ link' = link /\ hand' = hand /\ (inbox' = inbox \/ Store)
      /\ work = "inserting" /\ work' = "stored" /\ ready' = ready /\ away' = away
    BY DEF InsertFails, Fault, WorkStep
<1>2. hand # <<>> /\ hand \in Seq(Events) /\ inbox \in Seq(Events) /\ faults \in Nat
    BY <1>1, HandTypes
<1>4. CASE Store
  <2>1. faults' >= faults
      BY <1>1, <1>2
  <2> QED
      BY <1>1, <1>4, <2>1, StoreOrder
<1>6. CASE inbox' = inbox
  <2> DEFINE d == Cardinality(Descents(Series))
             c == Cardinality(Descents(Series'))
             k == Len(inbox) + 1
  <2>1. Coming = hand /\ Coming' = Tail(hand)
      BY <1>1, <1>2, <1>6 DEF Coming
  <2>2. /\ Tail(hand) \in Seq(Events) /\ Len(Tail(hand)) = Len(hand) - 1 /\ Len(hand) >= 1
        /\ \A i \in 1..Len(hand) - 1 : Tail(hand)[i] = hand[i + 1]
      BY <1>2, ElementsOfTail
  <2>3. Len(hand) \in Nat /\ Len(inbox) \in Nat
      BY <1>2, ElementsOf
  <2>4. /\ Len(Series) = Len(inbox) + Len(hand)
        /\ \A i \in 1..Len(inbox) : Series[i] = inbox[i]
        /\ \A i \in 1..Len(hand) : Series[Len(inbox) + i] = hand[i]
    <3>1. Series = inbox \o hand
        BY <2>1 DEF Series
    <3> QED
        BY <1>2, <3>1, ElementsOfConcat
  <2>5. /\ Len(Series') = Len(inbox) + (Len(hand) - 1)
        /\ \A i \in 1..Len(inbox) : Series'[i] = inbox[i]
        /\ \A i \in 1..Len(hand) - 1 : Series'[Len(inbox) + i] = hand[i + 1]
    <3>1. Series' = inbox \o Tail(hand)
        BY <1>6, <2>1 DEF Series
    <3>2. \A t \in Seq(Events) :
              /\ Len(inbox \o t) = Len(inbox) + Len(t)
              /\ \A i \in 1..Len(inbox) : (inbox \o t)[i] = inbox[i]
              /\ \A i \in 1..Len(t) : (inbox \o t)[Len(inbox) + i] = t[i]
        BY <1>2, ElementsOfConcat
    <3>3. /\ Len(Series') = Len(inbox) + Len(Tail(hand))
          /\ \A i \in 1..Len(inbox) : Series'[i] = inbox[i]
          /\ \A i \in 1..Len(Tail(hand)) : Series'[Len(inbox) + i] = Tail(hand)[i]
        BY <2>2, <3>1, <3>2, Zenon
    <3> QED
        BY <2>2, <3>3
  <2>6. k \in 1..Len(Series) /\ Len(Series') = Len(Series) - 1 /\ k - 1 = Len(inbox)
      BY <2>2, <2>3, <2>4, <2>5
  <2>7. \A i \in 1..k - 1 : Series'[i] = Series[i]
      BY <2>4, <2>5, <2>6
  <2>8. ASSUME NEW i \in k..Len(Series')
        PROVE  Series'[i] = Series[i + 1]
    <3>1. PICK j \in 1..Len(hand) - 1 : /\ i = Len(inbox) + j /\ i + 1 = Len(inbox) + (j + 1)
                                         /\ j + 1 \in 1..Len(hand)
      <4>1. i - Len(inbox) \in 1..Len(hand) - 1
          BY <2>3, <2>5
      <4>2. \A n, m \in Nat : \A x \in Int : x - n \in 1..m - 1 =>
                /\ x = n + (x - n) /\ x + 1 = n + ((x - n) + 1) /\ (x - n) + 1 \in 1..m
          OBVIOUS
      <4>3. i \in Int
          OBVIOUS
      <4> QED
          BY <2>3, <4>1, <4>2, <4>3
    <3> QED
        BY <2>4, <2>5, <3>1
  <2>9. Series \in Seq(Nat) /\ Series' \in Seq(Nat)
      BY SeriesTypes, SeriesTypesPrimed
  <2>10. c <= d
    <3> DEFINE s == Series
               t == Series'
    <3>1. /\ s \in Seq(Nat) /\ t \in Seq(Nat) /\ k \in 1..Len(s) /\ Len(t) = Len(s) - 1
          /\ \A i \in 1..k - 1 : t[i] = s[i]
          /\ \A i \in k..Len(t) : t[i] = s[i + 1]
        BY <2>6, <2>7, <2>8, <2>9
    <3> HIDE DEF s, t, k
    <3>2. Cardinality(Descents(t)) <= Cardinality(Descents(s))
        BY <3>1, DescentsOfRemoval
    <3> QED
        BY <3>2 DEF s, t
  <2>11. Pending' <= Pending + 1
      BY <1>1 DEF Pending
  <2> QED
      BY <1>1, <2>10, <2>11, OrderPaid
<1> QED
    BY <1>1, <1>4, <1>6

LEMMA OrderInductive ==
    ASSUME BaseInv, BaseInv', OrderInv, [Next]_vars
    PROVE  OrderInv'
PROOF
<1>1. CASE Publish \/ Return
    BY <1>1, PublishOrder, ReturnOrder
<1>2. CASE Connect \/ Take \/ AckArrives
    BY <1>2, ConnectOrder
<1>8. CASE Ack
  <2>1. hand' = Tail(hand) \/ hand' = <<>>
      BY <1>8 DEF Ack
  <2> QED
      BY <1>8, <2>1, ConnectOrder, RaiseOrder
<1>3. CASE Receive
    BY <1>3, ReceiveOrder
<1>4. CASE Insert
  <2>1. faults' >= faults
      BY <1>4, HandTypes DEF Insert
  <2> QED
      BY <1>4, <2>1, StoreOrder DEF Insert
<1>5. CASE InsertFails
    BY <1>5, InsertFailsOrder
<1>6. CASE LoseConnection \/ Crash \/ Shutdown
    BY <1>6, LoseOrder, RestartOrder
<1>7. CASE (\E i \in DOMAIN inbox : MarkAsRead(i)) \/ UNCHANGED vars
    BY <1>7, RestBase, ConnectOrder
<1> QED
    BY <1>1, <1>2, <1>3, <1>4, <1>5, <1>6, <1>7, <1>8, Zenon DEF Next, Process

\* For each fault a customer sees at most one document older than the one before it, and
\* at most as many events come back that she had acknowledged as may be unacked.
THEOREM ListIsSteady == Spec => []ListSteadyPerFault
PROOF
<1>1. Init => BaseInv /\ CostInv /\ OrderInv
    BY InitBase, InitCost, InitOrder
<1>2. BaseInv /\ CostInv /\ OrderInv /\ [Next]_vars => (BaseInv /\ CostInv /\ OrderInv)'
    BY BaseInductive, CostInductive, OrderInductive
<1>3. BaseInv /\ CostInv /\ OrderInv => ListSteadyPerFault
  <2> SUFFICES ASSUME BaseInv, CostInv, OrderInv
              PROVE  ListSteadyPerFault
      OBVIOUS
  <2>1. faults \in Nat
      BY HandTypes
  <2>2. Cardinality(UnreadAgain) <= Prefetch * faults
    <3>1. Cardinality(UnreadAgain) \in Nat /\ Cardinality(UnreadAgain) <= Duplicated
        BY UnreadAreDuplicated
    <3>2. /\ Duplicated \in Int /\ Prefetch * Cardinality(Lost) \in Nat /\ Prefetch * faults \in Nat
          /\ Duplicated + Prefetch * Cardinality(Lost) <= Prefetch * faults
        BY CostBound
    <3>3. \A u, l, f \in Nat, d \in Int : u <= d /\ d + l <= f => u <= f
        OBVIOUS
    <3> QED
        BY <3>1, <3>2, <3>3, Zenon
  <2>3. Cardinality(Overtaken) <= faults
    <3>1. Overtaken = Descents(inbox)
        BY DEF Overtaken, Descents
    <3>2. inbox \in Seq(Nat)
      <4>1. Events \subseteq Nat /\ inbox \in Seq(Events)
          BY HandTypes DEF Events
      <4> QED
          BY <4>1, SeqMonotonic
    <3>3. Series \in Seq(Nat) /\ Pending \in 0..2 /\ Cardinality(Descents(Series)) \in Nat
        BY SeriesTypes
    <3>4. Cardinality(Descents(inbox)) <= Cardinality(Descents(Series))
        BY <3>2, <3>3, Beginnings, DescentsOfBeginning
    <3>5. Cardinality(Descents(inbox)) \in Nat
        BY <3>2, DescentsTypes
    <3> QED
        BY <2>1, <3>1, <3>3, <3>4, <3>5 DEF OrderInv
  <2> QED
      BY <2>2, <2>3 DEF ListSteadyPerFault
<1> QED
    BY <1>1, <1>2, <1>3, PTL DEF Spec
=============================================================================
