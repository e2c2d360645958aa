------------------------- MODULE NotificationService -------------------------
(***************************************************************************)
(* The notification service: one asyncio task that takes order and payment *)
(* events from its queue, inserts a document for each into MongoDB and     *)
(* acks; and the REST handlers through which customers list and            *)
(* acknowledge their documents.  aio_pika hands over up to Prefetch        *)
(* messages; the loop works on them one at a time.                         *)
(*                                                                         *)
(* An ack is a frame that is written to the socket, and is not answered:   *)
(* the broker reads it later, or never if the connection is lost.  The     *)
(* loop learns of that at one of its next acks, the broker earlier or      *)
(* later, and then what it handed over and has no ack for is ready again,  *)
(* in the places it had in the queue.                                      *)
(***************************************************************************)
EXTENDS Naturals, FiniteSets, Sequences, SequencesExt, FiniteSetsExt

CONSTANTS
    LastEvent,      \* bound: how many events other services publish
    Prefetch,       \* how many may be unacked at a time (10 in the code)
    FaultKinds,     \* the faults that may happen: see Fault
    MaxFaults       \* bound: how many faults a behaviour has

ASSUME NotificationConstants ==
    /\ LastEvent \in Nat
    /\ Prefetch \in Nat \ {0}
    /\ FaultKinds \subseteq {"crash", "shutdown", "connection", "db"}
    /\ MaxFaults \in Nat

VARIABLES
    published,  \* how many events have been published
    missed,     \* how many of them before the queue was bound
    bound,      \* whether the queue has been declared and bound
    ready,      \* the events whose message waits in the queue
    away,       \* those the broker still holds for a connection that is gone
    link,       \* the consumer's connection, as the consumer knows it or not
    hand,       \* the messages handed to the loop
    work,       \* how far the loop is with the first of them
    acks,       \* those it has acked, whose ack the broker has not read
    inbox,      \* the events of the documents, in the order of created_at
    read,       \* the places in inbox of those that were acknowledged
    faults      \* how many faults have happened

queueVars == <<published, missed, bound>>
docVars == <<inbox, read>>
vars == <<queueVars, ready, away, link, hand, work, acks, docVars, faults>>

\* Events are numbered in the order in which the exchange accepts them.
Events == 1..LastEvent

Init ==
    /\ published = 0 /\ missed = 0 /\ bound = FALSE
    /\ ready = {} /\ away = {}
    /\ link = "connecting"
    /\ hand = <<>> /\ work = "waiting" /\ acks = <<>>
    /\ inbox = <<>> /\ read = {}
    /\ faults = 0

\* "crash" the process ends, "shutdown" it is told to end, "connection" the
\* broker is lost, "db" an insert fails or its answer is lost.
Fault(kind) ==
    /\ kind \in FaultKinds
    /\ faults < MaxFaults
    /\ faults' = faults + 1

\* Some other service publishes; without the queue the exchange drops the event.
Publish ==
    /\ published < LastEvent
    /\ published' = published + 1
    /\ missed' = IF bound THEN missed ELSE missed + 1
    /\ ready' = IF bound THEN ready \union {published + 1} ELSE ready
    /\ UNCHANGED <<bound, away, link, hand, work, acks, docVars, faults>>

\* Mutant: a plain connection, which does not come back.
MayConnectMutant == link = "connecting"

\* A robust connection comes back by itself; with messages in hand that makes no
\* difference before an ack raises, as the loop comes to the old ones first.
MayConnect == link = "connecting" \/ (link = "lost" /\ hand = <<>>)

\* start_consumer connects, declares and binds.
Connect ==
    /\ MayConnect
    /\ link' = "consuming"
    /\ bound' = TRUE
    /\ UNCHANGED <<published, missed, ready, away, hand, work, acks, docVars, faults>>

\* Mutant: set_qos is forgotten.
HasRoomMutant == TRUE

HasRoom == Len(hand) + Len(acks) < Prefetch

\* The broker hands over the first message that is ready.
Receive ==
    /\ link = "consuming"
    /\ HasRoom
    /\ ready # {}
    /\ hand' = Append(hand, Min(ready))
    /\ ready' = ready \ {Min(ready)}
    /\ UNCHANGED <<queueVars, away, link, work, acks, docVars, faults>>

\* The broker finds that connections are gone.
Return ==
    /\ away # {}
    /\ ready' = ready \union away
    /\ away' = {}
    /\ UNCHANGED <<queueVars, link, hand, work, acks, docVars, faults>>

WorkStep(from, to) ==
    /\ work = from
    /\ work' = to
    /\ UNCHANGED <<queueVars, ready, away, read>>

\* The loop takes its next message, from a connection that may be gone.
Take ==
    /\ hand # <<>>
    /\ WorkStep("waiting", "inserting")
    /\ UNCHANGED <<link, hand, acks, inbox, faults>>

\* Mutant: the newest message comes first.
StoreMutant == inbox' = Append(inbox, hand[Len(hand)])

Store == inbox' = Append(inbox, Head(hand))

Insert ==
    /\ WorkStep("inserting", "stored")
    /\ Store
    /\ UNCHANGED <<link, hand, acks, faults>>

\* The exception is logged inside message.process(), which then acks.
InsertFails ==
    /\ Fault("db")
    /\ WorkStep("inserting", "stored")
    /\ UNCHANGED inbox \/ Store
    /\ UNCHANGED <<link, hand, acks>>

\* The end of message.process().  On a connection that is gone the frame is written in
\* vain, or the ack raises, and start_consumer starts over with nothing in hand.
Ack ==
    /\ WorkStep("stored", "waiting")
    /\ \/ /\ link = "consuming"
          /\ hand' = Tail(hand) /\ acks' = Append(acks, Head(hand))
          /\ UNCHANGED link
       \/ link = "lost" /\ hand' = Tail(hand) /\ UNCHANGED <<link, acks>>
       \/ link = "lost" /\ hand' = <<>> /\ link' = "connecting" /\ UNCHANGED acks
    /\ UNCHANGED <<inbox, faults>>

\* The broker reads an ack, and forgets the message.
AckArrives ==
    /\ acks # <<>>
    /\ acks' = Tail(acks)
    /\ UNCHANGED <<queueVars, ready, away, link, hand, work, docVars, faults>>

-----------------------------------------------------------------------------
\* What the broker holds for the connection of the loop.
Unacked == IF link = "consuming" THEN ToSet(hand) \union ToSet(acks) ELSE {}

LoseConnection ==
    /\ Fault("connection")
    /\ link = "consuming"
    /\ link' = "lost"
    /\ away' = away \union Unacked
    /\ acks' = <<>>
    /\ UNCHANGED <<queueVars, ready, hand, work, docVars>>

\* The process ends and is started again; the broker will find out.
Restart(settled) ==
    /\ link' = "connecting"
    /\ hand' = <<>> /\ work' = "waiting" /\ acks' = <<>>
    /\ away' = away \union (Unacked \ settled)
    /\ UNCHANGED <<queueVars, ready, read>>

Crash == Fault("crash") /\ Restart({}) /\ UNCHANGED inbox

\* Mutant: everything in hand is rejected.
RejectedMutant == IF work = "inserting" THEN ToSet(hand) ELSE {}

\* Cancelled inside insert_one, message.process() rejects without requeue.
Rejected == IF work = "inserting" THEN {Head(hand)} ELSE {}

\* The task is cancelled, usually inside insert_one, which may have been carried out.
\* The connection is closed in good order: what was acked on it arrives before.
Shutdown ==
    /\ Fault("shutdown")
    /\ Restart(Rejected \union ToSet(acks))
    /\ UNCHANGED inbox \/ (work = "inserting" /\ Store)

-----------------------------------------------------------------------------
(* The REST handlers: a customer acknowledges a document that she was shown. *)

MarkAsRead(i) ==
    /\ i \in DOMAIN inbox
    /\ read' = read \union {i}
    /\ UNCHANGED <<queueVars, ready, away, link, hand, work, acks, inbox, faults>>

-----------------------------------------------------------------------------
Process == Receive \/ Take \/ Insert \/ InsertFails \/ Ack

Next ==
    \/ Publish \/ Connect \/ Process \/ AckArrives \/ Return
    \/ LoseConnection \/ Crash \/ Shutdown
    \/ \E i \in DOMAIN inbox : MarkAsRead(i)

Spec == Init /\ [][Next]_vars

FairSpec ==
    Spec /\ WF_vars(Connect) /\ WF_vars(Process) /\ WF_vars(AckArrives) /\ WF_vars(Return)

-----------------------------------------------------------------------------
(* Correctness.                                                             *)

TypeOK ==
    /\ published \in 0..LastEvent /\ missed \in 0..published /\ bound \in BOOLEAN
    /\ ready \subseteq Events /\ away \subseteq Events
    /\ link \in {"connecting", "consuming", "lost"}
    /\ hand \in Seq(Events) /\ acks \in Seq(Events)
    /\ Len(hand) + Len(acks) <= Prefetch
    /\ work \in {"waiting", "inserting", "stored"}
    /\ inbox \in Seq(Events) /\ read \subseteq DOMAIN inbox
    /\ faults \in 0..MaxFaults

\* The message of e is no longer the broker's nor the loop's.
Gone(e) ==
    /\ e \in missed + 1..published
    /\ e \notin ready \union away \union ToSet(hand) \union ToSet(acks)

Lost == {e \in Events : Gone(e) /\ e \notin ToSet(inbox)}

Duplicated == Len(inbox) - Cardinality(ToSet(inbox))

\* What faults cost in documents: each at most one too few, as one message is in work,
\* or as many too many as may be unacked, since acks that the loop took for done are
\* lost with the connection, and what is in hand is inserted before it learns of that.
DocumentsPerFault == Duplicated + Prefetch * Cardinality(Lost) <= Prefetch * faults

\* Documents that are followed by one of an older event.
Overtaken == {i \in 1..Len(inbox) - 1 : inbox[i] > inbox[i + 1]}

\* Events of which a customer has acknowledged a document and has a newer one.
UnreadAgain ==
    {e \in Events : \E i \in read, j \in DOMAIN inbox \ read :
                        i < j /\ inbox[i] = e /\ inbox[j] = e}

\* For a customer, whose list is sorted by created_at, the news come in the order in
\* which they happened, but once for each fault (messages handed over are worked off in
\* order, and all of them return together), and what she has acknowledged does not come
\* back, but for the messages that a fault makes come again.
ListSteadyPerFault ==
    /\ Cardinality(Overtaken) <= faults
    /\ Cardinality(UnreadAgain) <= Prefetch * faults

\* Every event that reached the queue is worked off in the end, through crashes,
\* shutdowns and lost connections.
EveryEventGone == \A e \in Events : e \in ready ~> Gone(e)
=============================================================================
