------------------------------ MODULE Checkout ------------------------------
(***************************************************************************)
(* One customer's cart and the orders made from it: the requests of        *)
(* cart.service.ts and createOrder of order.service.ts, one action for     *)
(* each statement they send to the database, with the menu changing        *)
(* meanwhile.  Requests of one customer overlap: two tabs, a double click, *)
(* a retry.                                                                *)
(*                                                                         *)
(* The database runs every statement at READ COMMITTED.  The lock of       *)
(* lockCartForCheckout (SELECT ... FOR UPDATE of the cart's row) is held   *)
(* until the transaction ends; it makes another checkout wait, and an      *)
(* insert of a cart item, whose foreign key refers to that row, but not an *)
(* update or a delete of an item.                                          *)
(*                                                                         *)
(* A definition Name_Variant is Name with a plausible mistake in it.  No   *)
(* specification uses it; it is there to show that the properties notice.  *)
(***************************************************************************)
EXTENDS Naturals, FiniteSets

CONSTANTS
    MenuItems,
    Requests,     \* requests of the customer, each made once
    MaxQuantity,  \* the 20 of the schema and of incrementCartItemQuantity
    MaxRows,      \* bound: cart items ever inserted
    None

ASSUME CheckoutConstants ==
    /\ MaxQuantity \in Nat \ {0}
    /\ MaxRows \in Nat
    /\ None \notin Requests

VARIABLES
    cart,       \* whether the customer's cart row exists
    items,      \* the rows of CartItem
    nextId,     \* the id of the next row
    orders,     \* the orders committed
    cartLock,   \* the request whose transaction holds the cart's row, or None
    available,  \* menu items that are active and available
    req         \* what each request is doing

vars == <<cart, items, nextId, orders, cartLock, available, req>>

Quantities == 1..MaxQuantity
Ids == 1..MaxRows
Row(id, item, n) == [id |-> id, menuItemId |-> item, quantity |-> n]

WithId(id)     == {x \in items : x.id = id}
WithItem(item) == {x \in items : x.menuItemId = item}

At(r, pc) == req[r].pc = pc
Step(r, pc) == req' = [req EXCEPT ![r].pc = pc]
\* The request is answered, with a result or an error.
Answer(r) == req' = [req EXCEPT ![r] = [pc |-> "done"]]

(***************************************************************************)
(* Requests that the controllers accept.                                   *)
(***************************************************************************)
Begin(r) ==
    /\ At(r, "new")
    /\ \/ \E item \in MenuItems, n \in Quantities :
            req' = [req EXCEPT ![r] = [pc |-> "add", item |-> item, quantity |-> n]]
       \/ \E x \in items, n \in Quantities :
            req' = [req EXCEPT ![r] = [pc |-> "find", op |-> "update", id |-> x.id,
                                       quantity |-> n]]
       \/ \E x \in items :
            req' = [req EXCEPT ![r] = [pc |-> "find", op |-> "remove", id |-> x.id]]
       \/ Step(r, "clear")
       \/ Step(r, "lock")
    /\ UNCHANGED <<cart, items, nextId, orders, cartLock, available>>

(***************************************************************************)
(* addItem                                                                 *)
(***************************************************************************)
AddCheckMenu(r) ==
    /\ At(r, "add")
    /\ IF req[r].item \in available THEN Step(r, "add cart") ELSE Answer(r)
    /\ UNCHANGED <<cart, items, nextId, orders, cartLock, available>>

AddFindCart(r) ==
    /\ At(r, "add cart")
    /\ Step(r, IF cart THEN "add find" ELSE "create cart")
    /\ UNCHANGED <<cart, items, nextId, orders, cartLock, available>>

\* Cart.userId is unique: the slower of two first requests fails.
CreateCart(r) ==
    /\ At(r, "create cart")
    /\ IF cart THEN Answer(r) ELSE Step(r, "add find")
    /\ cart' = TRUE
    /\ UNCHANGED <<items, nextId, orders, cartLock, available>>

AddFindItem(r) ==
    /\ At(r, "add find")
    /\ IF WithItem(req[r].item) = {} THEN Step(r, "insert")
       ELSE \E x \in WithItem(req[r].item) :
              req' = [req EXCEPT ![r] = [pc |-> "increment", id |-> x.id, quantity |-> @.quantity]]
    /\ UNCHANGED <<cart, items, nextId, orders, cartLock, available>>

\* The UPDATE adds without its condition on the sum.
Increment_NoLimit(r) ==
    /\ At(r, "increment")
    /\ items' = {IF x.id = req[r].id THEN [x EXCEPT !.quantity = @ + req[r].quantity] ELSE x :
                   x \in items}
    /\ Answer(r)
    /\ UNCHANGED <<cart, nextId, orders, cartLock, available>>
\* One UPDATE adds and checks; it changes no row that is gone or would get
\* too many, and the request then answers that 20 is the limit.
Increment(r) ==
    /\ At(r, "increment")
    /\ items' = {IF x.id = req[r].id /\ x.quantity + req[r].quantity <= MaxQuantity
                 THEN [x EXCEPT !.quantity = @ + req[r].quantity] ELSE x : x \in items}
    /\ Answer(r)
    /\ UNCHANGED <<cart, nextId, orders, cartLock, available>>

\* createCartItem waits for a checkout, and (cartId, menuItemId) is unique.
Insert(r) ==
    /\ At(r, "insert")
    /\ cartLock = None
    /\ IF WithItem(req[r].item) # {} THEN UNCHANGED <<items, nextId>>
       ELSE /\ nextId \in Ids
            /\ items' = items \cup {Row(nextId, req[r].item, req[r].quantity)}
            /\ nextId' = nextId + 1
    /\ Answer(r)
    /\ UNCHANGED <<cart, orders, cartLock, available>>

(***************************************************************************)
(* updateItem, removeItem, clearCart                                       *)
(***************************************************************************)
FindItem(r) ==
    /\ At(r, "find")
    /\ IF WithId(req[r].id) = {} THEN Answer(r) ELSE Step(r, req[r].op)
    /\ UNCHANGED <<cart, items, nextId, orders, cartLock, available>>

\* An update of a row that is gone fails (P2025).
UpdateQuantity(r) ==
    /\ At(r, "update")
    /\ items' = {IF x.id = req[r].id THEN [x EXCEPT !.quantity = req[r].quantity] ELSE x :
                   x \in items}
    /\ Answer(r)
    /\ UNCHANGED <<cart, nextId, orders, cartLock, available>>

DeleteItem(r) ==
    /\ At(r, "remove")
    /\ items' = items \ WithId(req[r].id)
    /\ Answer(r)
    /\ UNCHANGED <<cart, nextId, orders, cartLock, available>>

ClearCart(r) ==
    /\ At(r, "clear")
    /\ items' = {}
    /\ Answer(r)
    /\ UNCHANGED <<cart, nextId, orders, cartLock, available>>

(***************************************************************************)
(* createOrder                                                             *)
(***************************************************************************)
\* findCartForCheckout without lockCartForCheckout before it.
LockCart_Skipped(r) ==
    /\ At(r, "lock")
    /\ req' = [req EXCEPT ![r] = [pc |-> "read items", locked |-> cart]]
    /\ UNCHANGED <<cart, items, nextId, orders, cartLock, available>>
\* A customer without a cart has no row to lock.
LockCart(r) ==
    /\ At(r, "lock")
    /\ cart => cartLock = None
    /\ cartLock' = IF cart THEN r ELSE cartLock
    /\ req' = [req EXCEPT ![r] = [pc |-> "read items", locked |-> cart]]
    /\ UNCHANGED <<cart, items, nextId, orders, available>>

Unlock(r) == cartLock' = IF cartLock = r THEN None ELSE cartLock

\* The transaction rolls back.
Rollback(r) == Answer(r) /\ Unlock(r)

\* findCartForCheckout reads the cart with its items, and then, in a statement
\* of its own, the menu items.
ReadItems(r) ==
    /\ At(r, "read items")
    /\ IF ~cart \/ items = {} THEN Rollback(r)
       ELSE /\ req' = [req EXCEPT ![r] = [pc |-> "read menu", locked |-> @.locked, lines |-> items]]
            /\ UNCHANGED cartLock
    /\ UNCHANGED <<cart, items, nextId, orders, available>>

Ordered(x) == x.menuItemId \in available

\* An item that is not available is left out of the order.
ReadMenu_LeavesOut(r) ==
    /\ At(r, "read menu")
    /\ req' = [req EXCEPT ![r] = [pc |-> "commit", locked |-> @.locked,
                                  lines |-> {x \in @.lines : Ordered(x)}]]
    /\ UNCHANGED <<cart, items, nextId, orders, cartLock, available>>
\* The order is refused when an item is not available or the address is too
\* far from the restaurant.
ReadMenu(r) ==
    /\ At(r, "read menu")
    /\ \/ /\ \A x \in req[r].lines : Ordered(x)
          /\ Step(r, "commit")
          /\ UNCHANGED cartLock
       \/ Rollback(r)
    /\ UNCHANGED <<cart, items, nextId, orders, available>>

\* The order is created, clearCart deletes what the cart holds by now, and the
\* transaction commits.
Commit(r) ==
    /\ At(r, "commit")
    /\ orders' = orders \cup {[by |-> r, locked |-> req[r].locked, lines |-> req[r].lines]}
    /\ items' = {}
    /\ Unlock(r)
    /\ Answer(r)
    /\ UNCHANGED <<cart, nextId, available>>

(***************************************************************************)
(* The menu is edited.                                                     *)
(***************************************************************************)
ChangeMenu(item) ==
    /\ available' = (available \ {item}) \cup ({item} \ available)
    /\ UNCHANGED <<cart, items, nextId, orders, cartLock, req>>

Init ==
    /\ cart = FALSE
    /\ items = {}
    /\ nextId = 1
    /\ orders = {}
    /\ cartLock = None
    /\ available = MenuItems
    /\ req = [r \in Requests |-> [pc |-> "new"]]

CartRequest(r) == \/ AddCheckMenu(r) \/ AddFindCart(r) \/ CreateCart(r) \/ AddFindItem(r)
                  \/ Increment(r) \/ Insert(r) \/ FindItem(r)
                  \/ UpdateQuantity(r) \/ DeleteItem(r) \/ ClearCart(r)

CreateOrder(r) == LockCart(r) \/ ReadItems(r) \/ ReadMenu(r) \/ Commit(r)

Next == \/ \E r \in Requests : Begin(r) \/ CartRequest(r) \/ CreateOrder(r)
        \/ \E item \in MenuItems : ChangeMenu(item)

Spec == Init /\ [][Next]_vars

-----------------------------------------------------------------------------
(***************************************************************************)
(* Properties.                                                             *)
(***************************************************************************)
Rows == [id : Ids, menuItemId : MenuItems, quantity : Quantities]
RequestStates ==
    [pc : {"new", "clear", "lock", "done"}]
      \cup [pc : {"add", "add cart", "create cart", "add find", "insert"}, item : MenuItems,
            quantity : Quantities]
      \cup [pc : {"increment"}, id : Ids, quantity : Quantities]
      \cup [pc : {"find", "update"}, op : {"update"}, id : Ids, quantity : Quantities]
      \cup [pc : {"find", "remove"}, op : {"remove"}, id : Ids]
      \cup [pc : {"read items"}, locked : BOOLEAN]
      \cup [pc : {"read menu", "commit"}, locked : BOOLEAN, lines : SUBSET Rows]

Orders == [by : Requests, locked : BOOLEAN, lines : SUBSET Rows]

\* Every variable has its type, and the cart holds a menu item once and never
\* more than MaxQuantity of it, however adds, raises and updates interleave.
TypeOK ==
    /\ cart \in BOOLEAN
    /\ items \subseteq Rows
    /\ \A x, y \in items : x.menuItemId = y.menuItemId => x = y
    /\ nextId \in 1..(MaxRows + 1)
    /\ orders \subseteq Orders
    /\ cartLock \in Requests \cup {None}
    /\ available \subseteq MenuItems
    /\ req \in [Requests -> RequestStates]

IdsOf(lines) == {x.id : x \in lines}

\* What the customer put into the cart once is ordered once: two orders share
\* a row of the cart only if one of the checkouts began before the customer
\* had a cart, when there was no row to lock.
OrderedOnce ==
    \A o, p \in orders :
        o # p /\ o.locked /\ p.locked => IdsOf(o.lines) \cap IdsOf(p.lines) = {}

\* An order empties the cart of what it contains and of nothing else, although
\* clearCart does not say which rows it means (for a checkout with the lock).
ClearedWasOrdered ==
    [][\A o \in orders' \ orders :
         o.locked => IdsOf(items) \ IdsOf(items') \subseteq IdsOf(o.lines)]_vars
=============================================================================
