---------------------------- MODULE MCMessaging ----------------------------
(***************************************************************************)
(* The messaging side of the backend on small instances: the queues and    *)
(* their consumers (Delivery), the processing of a refund (Refund) and the *)
(* connection to the broker (RabbitConnection).                            *)
(*                                                                         *)
(* The three share no variable: Delivery has the closes of a channel,      *)
(* Refund the copies of an event, as the code they model sees them.  They  *)
(* are checked side by side, one in each behaviour: part is chosen at the  *)
(* start and the others stay as they begin.                                *)
(***************************************************************************)
EXTENDS Refund, TLC

CONSTANTS
    PaymentSuccess,   \* payment.success events
    Statuses,         \* order.status.changed events
    Invalid,          \* events that fail their schema
    Absent,           \* refund events about a row that does not exist
    Handlers,         \* callbacks of Delivery
    Prefetch, MaxPublications, MaxCloses,
    MaxConnectionCloses, MaxConnectFailures, MaxChannelCloses

VARIABLES
    part,
    ready, handler, subscribed, published, closes, handled, dropped, failures, stranded,
    connection, publisherChannel, consumerChannel, reconnectTimer, isRecovering,
    registered, task, open, consuming, connectionCloses, connectFailures,
    channelCloses, strained

D == INSTANCE Delivery
       WITH RefundRequested <- Refunds, StatusChanged <- Statuses, Missing <- Absent

R == INSTANCE RabbitConnection
       WITH MaxCloses <- MaxConnectionCloses, subscribed <- consuming,
            closes <- connectionCloses

ASSUME MessagingConstants == D!DeliveryConstants /\ R!RabbitConnectionConstants

delivery ==
    <<ready, handler, subscribed, published, closes, handled, dropped, failures, stranded>>
rabbit ==
    <<connection, publisherChannel, consumerChannel, reconnectTimer, isRecovering, registered,
      task, open, consuming, connectionCloses, connectFailures, channelCloses, strained>>

MessagingInit ==
    /\ part \in {"delivery", "refund", "connection"}
    /\ D!Init /\ Init /\ R!Init

MessagingNext ==
    \/ part = "delivery"   /\ D!Next /\ UNCHANGED <<part, vars, rabbit>>
    \/ part = "refund"     /\ Next   /\ UNCHANGED <<part, delivery, rabbit>>
    \/ part = "connection" /\ R!Next /\ UNCHANGED <<part, vars, delivery>>

MessagingSpec == MessagingInit /\ [][MessagingNext]_<<part, vars, delivery, rabbit>>

\* Calls are interchangeable, and so are callbacks and workers, which the
\* configuration gives the names of calls.  Used in safety runs only.
Symmetry == Permutations(Calls)

-----------------------------------------------------------------------------
(***************************************************************************)
(* The properties of the parts, stated in their modules.                   *)
(***************************************************************************)
\* Every variable of the part has its type.
TypesAreOK == CASE part = "delivery"   -> D!TypeOK
                [] part = "refund"     -> TypeOK
                [] part = "connection" -> R!TypeOK

\* A payment or refund event is handled or dead-lettered before its last copy
\* is gone: D!DeliversAtLeastOnce, looked at in the steps of its own part.
DeliversAtLeastOnce ==
    /\ D!Abstract!Init
    /\ [][part = "delivery" => UNCHANGED D!Abstract!vars \/ D!Abstract!Next]_delivery

\* A message is dead-lettered only after all its retries.
NoEarlyBurial == part = "delivery" => D!NoEarlyBurial

\* The connection and the channels the process believes in are open.
VariablesAreLive == R!VariablesAreLive

\* A consumer that is not subscribed has somebody who will start it.
NobodyForgotten == R!NobodyForgotten
=============================================================================
