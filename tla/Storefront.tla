----------------------------- MODULE Storefront -----------------------------
(***************************************************************************)
(* The customer's page around a purchase: the cart of CartContext.tsx and  *)
(* the button of CheckoutPage.tsx that creates an order, opens the payment *)
(* window and tells the outcome.  One action for each event handler up to  *)
(* its next await; a request to the server is one action here, Checkout    *)
(* and OrderPayment have what happens inside.                              *)
(*                                                                         *)
(* A definition Name_Variant is Name with a plausible mistake in it.  No   *)
(* specification uses it; it is there to show that the properties notice.  *)
(***************************************************************************)
EXTENDS Naturals

CONSTANTS
    Items,      \* rows the cart may get, each once
    Ops,        \* calls of addItem, updateItem, removeItem, clearCartItems, loadCart
    MaxOrders,  \* bound: orders created
    None

Numbers == 1..MaxOrders

\* The steps of the payment's handler.
ToldSteps == {"verify", "getOrder"}

\* What the constants must satisfy.
StorefrontConstants ==
    /\ MaxOrders \in Nat
    /\ None \notin Items \cup Ops
    /\ None \notin Numbers
    /\ None \notin ToldSteps

VARIABLES
    cart,      \* the cart on the server
    orders,    \* the orders: the rows of each and how far its payment is
    count,     \* the number of orders
    view,      \* the cart that is shown
    op,        \* what each call of CartContext is doing
    click,     \* the step of the button's handler, "idle" when it has ended
    order,     \* the order the handler or the payment window is about, or None
    isPaymentOpen,
    window,    \* the payment window is open
    told,      \* the step of the payment's handler, or None
    screen     \* what the page shows

vars == <<cart, orders, count, view, op, click, order, isPaymentOpen, window, told, screen>>

shop == <<cart, orders, count>>
cartPage == <<view, op>>
checkoutPage == <<click, order, isPaymentOpen, window, told, screen>>

(***************************************************************************)
(* CartContext                                                             *)
(***************************************************************************)
OpAt(o, pc) == op[o].pc = pc
OpGoes(o, pc) == op' = [op EXCEPT ![o].pc = pc]

\* addItem, removeItem (updateItem keeps the rows), clearCartItems and loadCart.
StartOp(o) ==
    /\ OpAt(o, "new")
    /\ \/ \E x \in Items : op' = [op EXCEPT ![o] = [pc |-> "write", add |-> {x}, drop |-> {}]]
       \/ \E x \in view : op' = [op EXCEPT ![o] = [pc |-> "write", add |-> {}, drop |-> {x}]]
       \/ OpGoes(o, "clear")
       \/ OpGoes(o, "read")
    /\ UNCHANGED <<shop, view, checkoutPage>>

\* Rows that have been in an order do not come back: a new row gets a new id.
Ordered == UNION {orders[n].rows : n \in 1..count}

\* The server changes the cart, and the answer may be lost; or it refuses.
WriteOp(o) ==
    /\ OpAt(o, "write")
    /\ \/ /\ cart' = (cart \cup (op[o].add \ Ordered)) \ op[o].drop
          /\ OpGoes(o, "read") \/ OpGoes(o, "failed")
       \/ OpGoes(o, "failed") /\ UNCHANGED cart
    /\ UNCHANGED <<orders, count, view, checkoutPage>>

\* The server empties the cart, and the answer, which lets the page show none of
\* its rows, may be lost; or it refuses.
ClearOp(o) ==
    /\ OpAt(o, "clear")
    /\ \/ /\ cart' = {}
          /\ op' = [op EXCEPT ![o] = [pc |-> "arrive", cart |-> {}]] \/ OpGoes(o, "failed")
       \/ OpGoes(o, "failed") /\ UNCHANGED cart
    /\ UNCHANGED <<orders, count, view, checkoutPage>>

\* The server answers getCart, or the request fails.
ReadOp(o) ==
    /\ OpAt(o, "read")
    /\ \/ op' = [op EXCEPT ![o] = [pc |-> "arrive", cart |-> cart]]
       \/ OpGoes(o, "failed")
    /\ UNCHANGED <<shop, view, checkoutPage>>

\* The answer arrives and is shown.
ArriveOp(o) ==
    /\ OpAt(o, "arrive")
    /\ view' = op[o].cart
    /\ op' = [op EXCEPT ![o] = [pc |-> "done"]]
    /\ UNCHANGED <<shop, checkoutPage>>

(***************************************************************************)
(* The button.                                                             *)
(***************************************************************************)
\* The button works on a cart that is shown, and not while it creates an order or
\* a payment is under way.
CanOrder == screen = "form" /\ view # {} /\ click = "idle" /\ ~isPaymentOpen

PlaceOrder ==
    /\ CanOrder
    /\ click' = "createOrder"
    /\ UNCHANGED <<shop, cartPage, order, isPaymentOpen, window, told, screen>>

\* The server keeps the cart until the order is paid.
OrderFrom_KeepsCart(rows) ==
    /\ orders' = [orders EXCEPT ![count + 1] = [rows |-> rows, state |-> "unpaid"]]
    /\ count' = count + 1
    /\ UNCHANGED cart
\* createOrder of the server takes what is in the cart.
OrderFrom(rows) ==
    /\ orders' = [orders EXCEPT ![count + 1] = [rows |-> rows, state |-> "unpaid"]]
    /\ count' = count + 1
    /\ cart' = {}

\* The order is created; or it is and the answer is lost; or it is refused.  The
\* last two are logged and the handler ends.
CreateOrder ==
    /\ click = "createOrder"
    /\ \/ /\ cart # {} /\ count < MaxOrders
          /\ OrderFrom(cart)
          /\ \/ click' = "createPayment" /\ order' = count + 1
             \/ click' = "idle" /\ UNCHANGED order
       \/ click' = "idle" /\ UNCHANGED <<shop, order>>
    /\ UNCHANGED <<cartPage, isPaymentOpen, window, told, screen>>

\* createPaymentOrder, and the payment window opens; or it fails.
CreatePaymentOrder ==
    /\ click = "createPayment"
    /\ click' = "idle"
    /\ \/ isPaymentOpen' = TRUE /\ window' = TRUE
       \/ UNCHANGED <<isPaymentOpen, window>>
    /\ UNCHANGED <<shop, cartPage, order, told, screen>>

(***************************************************************************)
(* The payment window, a part of Razorpay.                                 *)
(***************************************************************************)
Becomes(n, state) == orders' = [orders EXCEPT ![n].state = state]

\* The payment is captured, and the window closes and calls the handler.
Pay ==
    /\ window
    /\ orders[order].state = "unpaid"
    /\ Becomes(order, "paid")
    /\ window' = FALSE
    /\ told' = "verify"
    /\ UNCHANGED <<cart, count, cartPage, click, order, isPaymentOpen, screen>>

\* The customer closes the window, having paid (by another device) or not.
Dismiss ==
    /\ window
    /\ window' = FALSE
    /\ isPaymentOpen' = FALSE
    /\ \/ orders[order].state = "unpaid" /\ Becomes(order, "paid")
       \/ UNCHANGED orders
    /\ UNCHANGED <<cart, count, cartPage, click, order, told, screen>>

\* The order of a payment is confirmed, through the events of OrderPayment.
Confirm(n) ==
    /\ n <= count
    /\ orders[n].state = "paid"
    /\ Becomes(n, "confirmed")
    /\ UNCHANGED <<cart, count, cartPage, checkoutPage>>

(***************************************************************************)
(* The payment's handler.                                                  *)
(***************************************************************************)
\* The handler ends with an error the customer sees.
CannotConfirm == told' = None /\ isPaymentOpen' = FALSE /\ screen' = "pending"

\* verifyPayment, and the cart that is shown is emptied.
VerifyPayment ==
    /\ told = "verify"
    /\ \/ told' = "getOrder" /\ view' = {} /\ UNCHANGED <<isPaymentOpen, screen>>
       \/ CannotConfirm /\ UNCHANGED view
    /\ UNCHANGED <<shop, op, click, order, window>>

\* A verified payment counts as a confirmed order.
Outcome_Verified(state) == "confirmed"
Outcome(state) == IF state = "confirmed" THEN "confirmed" ELSE "received"

GetOrder ==
    /\ told = "getOrder"
    /\ \/ told' = None /\ isPaymentOpen' = FALSE /\ screen' = Outcome(orders[order].state)
       \/ CannotConfirm
    /\ UNCHANGED <<shop, cartPage, click, order, window>>

Init ==
    /\ cart \in SUBSET Items
    /\ orders = [n \in Numbers |-> [rows |-> {}, state |-> "unpaid"]]
    /\ count = 0
    /\ view = cart
    /\ op = [o \in Ops |-> [pc |-> "new"]]
    /\ click = "idle"
    /\ order = None
    /\ isPaymentOpen = FALSE
    /\ window = FALSE
    /\ told = None
    /\ screen = "form"

CartCall(o) == WriteOp(o) \/ ClearOp(o) \/ ReadOp(o) \/ ArriveOp(o)
Handlers == CreateOrder \/ CreatePaymentOrder \/ VerifyPayment \/ GetOrder

Next ==
    \/ \E o \in Ops : StartOp(o) \/ CartCall(o)
    \/ PlaceOrder
    \/ Handlers
    \/ Pay \/ Dismiss
    \/ \E n \in Numbers : Confirm(n)

Spec == Init /\ [][Next]_vars

-----------------------------------------------------------------------------
(***************************************************************************)
(* Properties.                                                             *)
(***************************************************************************)
OpStates ==
    [pc : {"new", "clear", "read", "done", "failed"}]
      \cup [pc : {"write", "read", "failed"}, add : SUBSET Items, drop : SUBSET Items]
      \cup [pc : {"arrive"}, cart : SUBSET Items]

\* Every variable has its type, and a payment window or a payment's handler is
\* about an order.
TypeOK ==
    /\ cart \subseteq Items
    /\ orders \in [Numbers -> [rows : SUBSET Items, state : {"unpaid", "paid", "confirmed"}]]
    /\ count \in 0..MaxOrders
    /\ view \subseteq Items
    /\ op \in [Ops -> OpStates]
    /\ click \in {"idle", "createOrder", "createPayment"}
    /\ order \in Numbers \cup {None}
    /\ window \/ told # None \/ click = "createPayment" => order # None
    /\ isPaymentOpen \in BOOLEAN
    /\ window \in BOOLEAN
    /\ told \in ToldSteps \cup {None}
    /\ screen \in {"form", "confirmed", "received", "pending"}

\* However often the customer presses the button after an answer is lost, a
\* payment fails or its window is closed, nothing is ordered twice: the page
\* still shows the cart, but the server's is empty.
NothingOrderedTwice ==
    \A m, n \in 1..count : m # n => orders[m].rows \cap orders[n].rows = {}

\* "Order Confirmed" is shown for an order that is confirmed, and "Payment
\* Received" for one that is paid.
ScreenIsTrue ==
    /\ screen = "confirmed" => orders[order].state = "confirmed"
    /\ screen = "received" => orders[order].state \in {"paid", "confirmed"}
=============================================================================
