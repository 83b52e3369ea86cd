--------------------------- MODULE OrderLifecycle ---------------------------
(***************************************************************************)
(* What an order goes through, and nothing of who moves it, of the locks   *)
(* taken for that, or of the attempts and messages behind it: its status   *)
(* moves along the table of transitions, its money is due, paid and        *)
(* perhaps given back, and what others must hear of is announced in the    *)
(* step it happens in.                                                     *)
(***************************************************************************)
EXTENDS Sequences

CONSTANTS Orders

VARIABLES status,    \* where each order is on its way
          money,     \* how far its payment is
          captured,  \* the orders somebody paid for
          announced  \* what was announced of each order, oldest first

vars == <<status, money, captured, announced>>

Transitions ==
    {<<"PENDING", "CONFIRMED">>, <<"CONFIRMED", "PREPARING">>, <<"PREPARING", "READY">>,
     <<"READY", "OUT_FOR_DELIVERY">>, <<"OUT_FOR_DELIVERY", "DELIVERED">>,
     <<"PENDING", "CANCELLED">>, <<"CONFIRMED", "CANCELLED">>}

\* Announcements.
Moved(s, t) == [what |-> "moved", from |-> s, to |-> t]
Paid        == [what |-> "paid"]
RefundAsked == [what |-> "refund asked"]

Init ==
    /\ status = [o \in Orders |-> "PENDING"]
    /\ money = [o \in Orders |-> "due"]
    /\ captured = {}
    /\ announced = [o \in Orders |-> << >>]

Announce(o, news) == announced' = [announced EXCEPT ![o] = Append(@, news)]

Move(o, s) ==
    /\ <<status[o], s>> \in Transitions
    /\ status' = [status EXCEPT ![o] = s]
    /\ Announce(o, Moved(status[o], s))
    /\ UNCHANGED <<money, captured>>

\* The customer may pay twice.
Capture(o) ==
    /\ captured' = captured \cup {o}
    /\ UNCHANGED <<status, money, announced>>

\* What was captured is recorded, once, wherever the order is by then.
Pay(o) ==
    /\ o \in captured
    /\ money[o] = "due"
    /\ money' = [money EXCEPT ![o] = "paid"]
    /\ Announce(o, Paid)
    /\ UNCHANGED <<status, captured>>

\* The customer's cancellation: what was paid is to be given back.
Cancel(o) ==
    /\ <<status[o], "CANCELLED">> \in Transitions
    /\ status' = [status EXCEPT ![o] = "CANCELLED"]
    /\ \/ money[o] = "due" /\ UNCHANGED <<money, announced>>
       \/ /\ money[o] = "paid"
          /\ money' = [money EXCEPT ![o] = "refund due"]
          /\ Announce(o, RefundAsked)
    /\ UNCHANGED captured

Settle(o) ==
    /\ status[o] = "CANCELLED"
    /\ money[o] = "refund due"
    /\ \E outcome \in {"refunded", "refund failed"} :
          money' = [money EXCEPT ![o] = outcome]
    /\ UNCHANGED <<status, captured, announced>>

Next == \E o \in Orders : \/ \E t \in Transitions : Move(o, t[2])
                          \/ Capture(o) \/ Pay(o) \/ Cancel(o) \/ Settle(o)

Spec == Init /\ [][Next]_vars
=============================================================================
