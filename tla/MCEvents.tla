------------------------------ MODULE MCEvents ------------------------------
(***************************************************************************)
(* The way of an event on small instances: the outbox that publishes it    *)
(* (Outbox) beside the queues, the consumers, the refunds and the          *)
(* connection of MCMessaging.  The outbox is one more part: it shares no   *)
(* variable with the others and has behaviours of its own.                 *)
(***************************************************************************)
EXTENDS MCMessaging

CONSTANTS
    Parts,   \* the parts that are looked at
    NULL, NumEvents, Workers, MAX_OUTBOX_ATTEMPTS, BATCH_SIZE

VARIABLES status, attempts, due, stale, sent, worker

O == INSTANCE Outbox

ASSUME EventsConstants == O!OutboxConstants

outbox    == <<status, attempts, due, stale, sent, worker>>
messaging == <<vars, delivery, rabbit>>

EventsInit ==
    /\ part \in Parts
    /\ O!Init /\ D!Init /\ Init /\ R!Init

EventsNext ==
    \/ part = "outbox" /\ O!Next /\ UNCHANGED <<part, messaging>>
    \/ MessagingNext /\ UNCHANGED outbox

EventsSpec == EventsInit /\ [][EventsNext]_<<part, outbox, messaging>>

\* The fairness of each part, as its module states and justifies it, in the
\* behaviours that are about it.  That of the queues is in Delivery: its run is
\* apart.
Of(p, A) == part = p /\ A

OutboxFairness ==
    /\ []<>(part # "outbox") \/ \A w \in Workers : []<><<O!Claim(w)>>_outbox
    /\ \A e \in O!Events : /\ WF_outbox(Of("outbox", O!BecomeDue(e)))
                           /\ WF_outbox(Of("outbox", O!BecomeStale(e)))

RefundFairness ==
    /\ \A r \in Refunds : WF_vars(Of("refund", \E c \in Calls : Start(c, r)))
    /\ \A c \in Calls : WF_vars(Of("refund", ProcessRefund(c)))
    /\ WF_vars(Of("refund", Reconcile))
    /\ SF_vars(Of("refund", ReconcileSettle))
    /\ \A r \in Refunds : SF_vars(Of("refund", ReconcileFetch(r)))
    /\ \A k \in Keys : WF_vars(Of("refund", Decide(k)))

ConnectionFairness ==
    /\ WF_rabbit(Of("connection", R!OutboxCycle))
    /\ WF_rabbit(Of("connection", R!TimerFires))
    /\ \A t \in R!Tasks : WF_rabbit(Of("connection", R!Step(t)))

EventsFairSpec == EventsSpec /\ OutboxFairness /\ RefundFairness /\ ConnectionFairness

-----------------------------------------------------------------------------
(***************************************************************************)
(* The properties of the parts, stated in their modules; more of them are  *)
(* restated in MCMessaging.                                                *)
(***************************************************************************)
\* Every variable of the part has its type.
EventTypesAreOK == IF part = "outbox" THEN O!TypeOK ELSE TypesAreOK

\* A pending event has an attempt left.
PendingIsClaimable == O!PendingIsClaimable

\* No two workers have the same attempt of an event in hand.
ClaimsAreExclusive == O!ClaimsAreExclusive

\* The outbox keeps the promise of EventDelivery: O!KeepsPromise, looked at in
\* the steps of its own part.
KeepsPromise ==
    /\ O!Promise!Init
    /\ [][part = "outbox" => O!Promise!Next \/ UNCHANGED O!Promise!vars]_outbox

\* Every committed event is eventually published or given up.
EveryEventSettles == O!EveryEventSettles

\* The consumers come back after the closes the recovery is made for.
ConsumersComeBack == part = "connection" => R!ConsumersComeBack
=============================================================================
