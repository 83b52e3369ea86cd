--------------------------- MODULE Checkout_proofs ---------------------------
(***************************************************************************)
(* Proofs about Checkout, for any number of requests and menu items and    *)
(* any quantities.                                                         *)
(*                                                                         *)
(* The argument: the id of a cart row is never used again, and a commit    *)
(* empties the cart, so no row of an order is in the cart afterwards.  A   *)
(* checkout with the lock read its lines under the lock, when they were in *)
(* no order; until it commits no other checkout with the lock can commit   *)
(* and no row can be inserted.                                             *)
(***************************************************************************)
EXTENDS Checkout, TLAPS

\* The request is a checkout that carries the lines it has read.
Carries(r) == req[r].pc \in {"read menu", "commit"}

\* It is a checkout that locked the cart.
Holds(r) == req[r].pc \in {"read items", "read menu", "commit"} /\ req[r].locked

IdsAreSpent ==
    /\ \A i \in IdsOf(items) : i < nextId
    /\ \A o \in orders : \A i \in IdsOf(o.lines) : i < nextId
    /\ \A r \in Requests : Carries(r) => \A i \in IdsOf(req[r].lines) : i < nextId

OrderedIsGone == \A o \in orders : IdsOf(o.lines) \cap IdsOf(items) = {}

LockIsHeld == \A r \in Requests : Holds(r) => cartLock = r

\* What a checkout with the lock carries is all that the cart holds, and in no
\* order of another such checkout.
CarriesTheCart ==
    \A r \in Requests : Holds(r) /\ Carries(r) =>
        /\ IdsOf(items) \subseteq IdsOf(req[r].lines)
        /\ \A o \in orders : o.locked => IdsOf(o.lines) \cap IdsOf(req[r].lines) = {}

\* The inductive invariant.
CheckoutInv ==
    /\ IdsAreSpent
    /\ OrderedIsGone
    /\ LockIsHeld
    /\ CarriesTheCart
    /\ OrderedOnce

LEMMA CheckoutInit == Init => TypeOK /\ CheckoutInv
<1>. SUFFICES ASSUME Init PROVE TypeOK /\ CheckoutInv
  OBVIOUS
<1>1. \A r \in Requests : req[r].pc = "new"
  BY DEF Init
<1>2. req \in [Requests -> RequestStates]
  BY DEF Init, RequestStates
<1>3. nextId = 1 /\ 1 \in 1..(MaxRows + 1)
  BY CheckoutConstants DEF Init
<1>. QED
  BY <1>1, <1>2, <1>3
     DEF Init, TypeOK, CheckoutInv, IdsAreSpent, OrderedIsGone, LockIsHeld, CarriesTheCart,
         OrderedOnce, Carries, Holds, IdsOf

-----------------------------------------------------------------------------
\* The requests of cart.service.ts neither lock nor order: they leave the rows'
\* ids as they are, take some out, or insert a row with a new id when nobody
\* holds the cart.
Harmless(r) ==
    /\ UNCHANGED <<orders, cartLock>>
    /\ {req[r].pc, req'[r].pc} \cap {"read items", "read menu", "commit"} = {}
    /\ \A s \in Requests \ {r} : req'[s] = req[s]
    /\ \/ nextId' = nextId /\ IdsOf(items') \subseteq IdsOf(items)
       \/ /\ cartLock = None
          /\ nextId' = nextId + 1
          /\ IdsOf(items') \subseteq IdsOf(items) \cup {nextId}

\* What moving a request on and answering it do to the requests.
LEMMA StepEffect ==
    ASSUME TypeOK, NEW r \in Requests, NEW p, Step(r, p), "pc" \in DOMAIN req[r]
    PROVE  req'[r].pc = p /\ \A s \in Requests \ {r} : req'[s] = req[s]
BY DEF TypeOK, Step

LEMMA AnswerEffect ==
    ASSUME TypeOK, NEW r \in Requests, Answer(r)
    PROVE  req'[r].pc = "done" /\ \A s \in Requests \ {r} : req'[s] = req[s]
BY DEF TypeOK, Answer

LEMMA EveryStateHasPc ==
    ASSUME TypeOK, NEW r \in Requests
    PROVE  "pc" \in DOMAIN req[r]
<1>1. \A x \in RequestStates : "pc" \in DOMAIN x
  BY DEF RequestStates
<1>. QED BY <1>1 DEF TypeOK

\* A step that only moves the request on, outside the checkout.
LEMMA MoveIsHarmless ==
    ASSUME NEW r \in Requests, UNCHANGED <<items, nextId, orders, cartLock>>,
           req[r].pc \notin {"read items", "read menu", "commit"},
           req'[r].pc \notin {"read items", "read menu", "commit"},
           \A s \in Requests \ {r} : req'[s] = req[s]
    PROVE  Harmless(r)
BY DEF Harmless, IdsOf

LEMMA CartStepIsHarmless ==
    ASSUME TypeOK, NEW r \in Requests, CartRequest(r)
    PROVE  Harmless(r)
<1>0. "pc" \in DOMAIN req[r]
  BY EveryStateHasPc
<1>1. ASSUME AddCheckMenu(r) PROVE Harmless(r)
  <2>1. req'[r].pc \in {"add cart", "done"} /\ \A s \in Requests \ {r} : req'[s] = req[s]
    <3>1. CASE Step(r, "add cart")
      BY <1>0, <3>1, StepEffect
    <3>2. CASE Answer(r)
      BY <3>2, AnswerEffect
    <3>. QED BY <1>1, <3>1, <3>2 DEF AddCheckMenu
  <2>. QED BY <1>1, <2>1, MoveIsHarmless DEF AddCheckMenu, At
<1>2. ASSUME AddFindCart(r) PROVE Harmless(r)
  <2>1. req'[r].pc \in {"add find", "create cart"} /\ \A s \in Requests \ {r} : req'[s] = req[s]
    BY <1>0, <1>2, StepEffect DEF AddFindCart
  <2>. QED BY <1>2, <2>1, MoveIsHarmless DEF AddFindCart, At
<1>3. ASSUME CreateCart(r) PROVE Harmless(r)
  <2>1. req'[r].pc \in {"add find", "done"} /\ \A s \in Requests \ {r} : req'[s] = req[s]
    <3>1. CASE Step(r, "add find")
      BY <1>0, <3>1, StepEffect
    <3>2. CASE Answer(r)
      BY <3>2, AnswerEffect
    <3>. QED BY <1>3, <3>1, <3>2 DEF CreateCart
  <2>. QED BY <1>3, <2>1, MoveIsHarmless DEF CreateCart, At
<1>4. ASSUME AddFindItem(r) PROVE Harmless(r)
  <2>1. req'[r].pc \in {"insert", "increment"} /\ \A s \in Requests \ {r} : req'[s] = req[s]
    <3>1. CASE Step(r, "insert")
      BY <1>0, <3>1, StepEffect
    <3>2. CASE \E x \in WithItem(req[r].item) :
                 req' = [req EXCEPT ![r] = [pc |-> "increment", id |-> x.id, quantity |-> @.quantity]]
      BY <3>2 DEF TypeOK
    <3>. QED BY <1>4, <3>1, <3>2 DEF AddFindItem
  <2>. QED BY <1>4, <2>1, MoveIsHarmless DEF AddFindItem, At
<1>5. ASSUME Increment(r) PROVE Harmless(r)
  BY <1>5, AnswerEffect DEF Increment, Harmless, At, IdsOf, TypeOK, Rows
<1>6. ASSUME Insert(r) PROVE Harmless(r)
  BY <1>6, AnswerEffect DEF Insert, Harmless, At, IdsOf, Row
<1>7. ASSUME FindItem(r) PROVE Harmless(r)
  BY <1>0, <1>7, StepEffect, AnswerEffect DEF FindItem, Harmless, At, IdsOf
<1>8. ASSUME UpdateQuantity(r) PROVE Harmless(r)
  BY <1>8, AnswerEffect DEF UpdateQuantity, Harmless, At, IdsOf, TypeOK, Rows
<1>9. ASSUME DeleteItem(r) PROVE Harmless(r)
  BY <1>9, AnswerEffect DEF DeleteItem, Harmless, At, IdsOf
<1>10. ASSUME ClearCart(r) PROVE Harmless(r)
  BY <1>10, AnswerEffect DEF ClearCart, Harmless, At, IdsOf
<1>. QED
  BY <1>1, <1>2, <1>3, <1>4, <1>5, <1>6, <1>7, <1>8, <1>9, <1>10 DEF CartRequest

LEMMA BeginIsHarmless ==
    ASSUME TypeOK, NEW r \in Requests, Begin(r)
    PROVE  Harmless(r)
<1>0. "pc" \in DOMAIN req[r]
  BY EveryStateHasPc
<1>1. req'[r].pc \in {"add", "find", "clear", "lock"} /\ \A s \in Requests \ {r} : req'[s] = req[s]
  BY <1>0, StepEffect DEF Begin, TypeOK
<1>. QED BY <1>1 DEF Begin, Harmless, At

\* A harmless step keeps the invariant.
LEMMA HarmlessKeeps ==
    ASSUME TypeOK, CheckoutInv, NEW r \in Requests, Harmless(r)
    PROVE  CheckoutInv'
<1>1. /\ orders' = orders /\ cartLock' = cartLock
      /\ \A s \in Requests : /\ Holds(s)' => Holds(s) /\ s # r
                             /\ Carries(s)' => Carries(s) /\ s # r
                             /\ s # r => req'[s] = req[s]
  BY DEF Harmless, Holds, Carries
<1>2. nextId \in Nat /\ nextId' \in {nextId, nextId + 1}
  BY CheckoutConstants DEF TypeOK, Harmless
<1>3. \A i \in IdsOf(items') :
        i \notin IdsOf(items) => i = nextId /\ nextId' = nextId + 1 /\ cartLock = None
  <2>. HIDE DEF IdsOf
  <2>. QED BY DEF Harmless
<1>4. /\ \A o \in orders : IdsOf(o.lines) \subseteq Nat
      /\ IdsOf(items) \subseteq Nat
      /\ \A s \in Requests : Carries(s) => IdsOf(req[s].lines) \subseteq Nat
  <2>1. \A s \in Requests : Carries(s) => req[s].lines \subseteq Rows
    BY DEF TypeOK, RequestStates, Carries
  <2>2. \A o \in orders : o.lines \subseteq Rows
    BY DEF TypeOK, Orders
  <2>. QED BY <2>1, <2>2 DEF TypeOK, Rows, Ids, IdsOf
<1>5. IdsAreSpent'
  <2>1. \A i \in IdsOf(items') : i < nextId'
    BY <1>2, <1>3, <1>4 DEF CheckoutInv, IdsAreSpent
  <2>2. \A o \in orders : \A i \in IdsOf(o.lines) : i < nextId'
    BY <1>2, <1>4 DEF CheckoutInv, IdsAreSpent
  <2>3. \A s \in Requests : Carries(s)' => \A i \in IdsOf(req'[s].lines) : i < nextId'
    BY <1>1, <1>2, <1>4 DEF CheckoutInv, IdsAreSpent
  <2>. QED BY <1>1, <2>1, <2>2, <2>3 DEF IdsAreSpent, IdsOf
<1>6. OrderedIsGone'
  <2>1. \A o \in orders : nextId \notin IdsOf(o.lines)
    BY <1>2, <1>4 DEF CheckoutInv, IdsAreSpent
  <2>. QED BY <1>1, <1>3, <2>1 DEF CheckoutInv, OrderedIsGone, IdsOf
<1>7. LockIsHeld'
  BY <1>1 DEF CheckoutInv, LockIsHeld, Holds
<1>8. CarriesTheCart'
  <2>1. SUFFICES ASSUME NEW s \in Requests, Holds(s)', Carries(s)'
                 PROVE  /\ IdsOf(items') \subseteq IdsOf(req'[s].lines)
                        /\ \A o \in orders' : o.locked => IdsOf(o.lines) \cap IdsOf(req'[s].lines) = {}
    BY DEF CarriesTheCart, IdsOf
  <2>2. Holds(s) /\ Carries(s) /\ req'[s] = req[s]
    BY <1>1, <2>1
  <2>3. cartLock # None
    BY <2>2, CheckoutConstants DEF CheckoutInv, LockIsHeld
  <2>. QED BY <1>1, <1>3, <2>2, <2>3 DEF CheckoutInv, CarriesTheCart
<1>9. OrderedOnce'
  BY <1>1 DEF CheckoutInv, OrderedOnce, IdsOf
<1>. QED BY <1>5, <1>6, <1>7, <1>8, <1>9 DEF CheckoutInv

-----------------------------------------------------------------------------
\* What a checkout that goes on, or rolls back, does to the requests and the
\* lock.
LEMMA ReadItemsEffect ==
    ASSUME TypeOK, NEW r \in Requests, ReadItems(r)
    PROVE  /\ \A s \in Requests \ {r} : req'[s] = req[s]
           /\ UNCHANGED <<items, nextId, orders>>
           /\ req[r].pc = "read items"
           /\ \/ /\ req'[r].pc = "read menu" /\ req'[r].locked = req[r].locked
                 /\ req'[r].lines = items /\ cartLock' = cartLock
              \/ req'[r].pc = "done" /\ cartLock' = IF cartLock = r THEN None ELSE cartLock
<1>1. CASE Rollback(r)
  <2>1. req'[r].pc = "done" /\ \A s \in Requests \ {r} : req'[s] = req[s]
    BY <1>1, AnswerEffect DEF Rollback
  <2>2. cartLock' = IF cartLock = r THEN None ELSE cartLock
    BY <1>1 DEF Rollback, Unlock
  <2>3. UNCHANGED <<items, nextId, orders>> /\ req[r].pc = "read items"
    BY DEF ReadItems, At
  <2>. QED BY <2>1, <2>2, <2>3
<1>2. CASE ~Rollback(r)
  <2>. DEFINE v == [pc |-> "read menu", locked |-> req[r].locked, lines |-> items]
  <2>1. req' = [req EXCEPT ![r] = v] /\ cartLock' = cartLock
    BY <1>2 DEF ReadItems
  <2>2. UNCHANGED <<items, nextId, orders>> /\ req[r].pc = "read items"
    BY DEF ReadItems, At
  <2>3. v.pc = "read menu" /\ v.locked = req[r].locked /\ v.lines = items
    OBVIOUS
  <2>. HIDE DEF v
  <2>4. req'[r] = v /\ \A s \in Requests \ {r} : req'[s] = req[s]
    BY <2>1 DEF TypeOK
  <2>. QED BY <2>1, <2>2, <2>3, <2>4
<1>. QED BY <1>1, <1>2

LEMMA ReadMenuEffect ==
    ASSUME TypeOK, NEW r \in Requests, ReadMenu(r)
    PROVE  /\ \A s \in Requests \ {r} : req'[s] = req[s]
           /\ UNCHANGED <<items, nextId, orders>>
           /\ req[r].pc = "read menu"
           /\ \/ /\ req'[r].pc = "commit" /\ req'[r].locked = req[r].locked
                 /\ req'[r].lines = req[r].lines /\ cartLock' = cartLock
              \/ req'[r].pc = "done" /\ cartLock' = IF cartLock = r THEN None ELSE cartLock
<1>1. CASE Rollback(r)
  <2>1. req'[r].pc = "done" /\ \A s \in Requests \ {r} : req'[s] = req[s]
    BY <1>1, AnswerEffect DEF Rollback
  <2>2. cartLock' = IF cartLock = r THEN None ELSE cartLock
    BY <1>1 DEF Rollback, Unlock
  <2>3. UNCHANGED <<items, nextId, orders>> /\ req[r].pc = "read menu"
    BY DEF ReadMenu, At
  <2>. QED BY <2>1, <2>2, <2>3
<1>2. CASE Step(r, "commit") /\ cartLock' = cartLock
  <2>1. req[r] \in [pc : {"read menu", "commit"}, locked : BOOLEAN, lines : SUBSET Rows]
    BY DEF ReadMenu, TypeOK, At, RequestStates
  <2>2. req'[r] = [req[r] EXCEPT !.pc = "commit"] /\ \A s \in Requests \ {r} : req'[s] = req[s]
    BY <1>2 DEF Step, TypeOK
  <2>. QED BY <1>2, <2>1, <2>2 DEF ReadMenu, At
<1>. QED BY <1>1, <1>2 DEF ReadMenu

\* The ids in the cart, in the orders and in what a checkout carries are numbers.
LEMMA IdsAreNumbers ==
    ASSUME TypeOK
    PROVE  /\ nextId \in Nat
           /\ IdsOf(items) \subseteq Nat
           /\ \A o \in orders : IdsOf(o.lines) \subseteq Nat
           /\ \A r \in Requests : Carries(r) => IdsOf(req[r].lines) \subseteq Nat
<1>1. \A s \in Requests : Carries(s) => req[s].lines \subseteq Rows
  BY DEF TypeOK, RequestStates, Carries
<1>2. \A o \in orders : o.lines \subseteq Rows
  BY DEF TypeOK, Orders
<1>. QED BY <1>1, <1>2, CheckoutConstants DEF TypeOK, Rows, Ids, IdsOf

LEMMA LockCartKeeps ==
    ASSUME TypeOK, CheckoutInv, NEW r \in Requests, LockCart(r)
    PROVE  CheckoutInv'
<1>1. /\ \A s \in Requests \ {r} : req'[s] = req[s]
      /\ req'[r].pc = "read items" /\ req'[r].locked = cart
      /\ UNCHANGED <<items, nextId, orders>>
  BY DEF LockCart, TypeOK
<1>2. \A s \in Requests : Carries(s)' => s # r /\ Carries(s)
  BY <1>1 DEF Carries
<1>3. LockIsHeld'
  <2>1. CASE cart
    BY <1>1, <2>1, CheckoutConstants DEF LockCart, CheckoutInv, LockIsHeld, Holds
  <2>2. CASE ~cart
    BY <1>1, <2>2 DEF LockCart, CheckoutInv, LockIsHeld, Holds
  <2>. QED BY <2>1, <2>2
<1>4. IdsAreSpent' /\ OrderedIsGone' /\ OrderedOnce'
  BY <1>1, <1>2 DEF CheckoutInv, IdsAreSpent, OrderedIsGone, OrderedOnce, IdsOf
<1>5. CarriesTheCart'
  BY <1>1, <1>2 DEF CheckoutInv, CarriesTheCart, Holds, IdsOf
<1>. QED BY <1>3, <1>4, <1>5 DEF CheckoutInv

\* Giving back the lock with the last step of a checkout.
LEMMA UnlockKeeps ==
    ASSUME TypeOK, CheckoutInv, NEW r \in Requests, req'[r].pc = "done",
           \A s \in Requests \ {r} : req'[s] = req[s],
           cartLock' = IF cartLock = r THEN None ELSE cartLock
    PROVE  LockIsHeld'
BY DEF CheckoutInv, LockIsHeld, Holds

LEMMA ReadItemsKeeps ==
    ASSUME TypeOK, CheckoutInv, NEW r \in Requests, ReadItems(r)
    PROVE  CheckoutInv'
<1>1. CASE req'[r].pc = "done"
  <2>1. /\ \A s \in Requests \ {r} : req'[s] = req[s]
        /\ UNCHANGED <<items, nextId, orders>>
        /\ cartLock' = IF cartLock = r THEN None ELSE cartLock
    BY <1>1, ReadItemsEffect
  <2>2. \A s \in Requests : Carries(s)' => s # r /\ Carries(s)
    BY <1>1, <2>1 DEF Carries
  <2>3. IdsAreSpent' /\ OrderedIsGone' /\ OrderedOnce'
    BY <2>1, <2>2 DEF CheckoutInv, IdsAreSpent, OrderedIsGone, OrderedOnce, IdsOf
  <2>4. CarriesTheCart'
    BY <2>1, <2>2 DEF CheckoutInv, CarriesTheCart, Holds, IdsOf
  <2>. QED BY <1>1, <2>1, <2>3, <2>4, UnlockKeeps DEF CheckoutInv
<1>2. CASE req'[r].pc # "done"
  <2>1. /\ \A s \in Requests \ {r} : req'[s] = req[s]
        /\ UNCHANGED <<items, nextId, orders, cartLock>>
        /\ req[r].pc = "read items" /\ req'[r].locked = req[r].locked /\ req'[r].lines = items
    BY <1>2, ReadItemsEffect
  <2>2. \A s \in Requests : /\ Holds(s)' => Holds(s)
                            /\ Carries(s)' => s = r \/ Carries(s)
    BY <2>1 DEF Holds, Carries
  <2>3. IdsAreSpent'
    BY <2>1, <2>2 DEF CheckoutInv, IdsAreSpent, IdsOf
  <2>4. OrderedIsGone' /\ LockIsHeld' /\ OrderedOnce'
    BY <2>1, <2>2 DEF CheckoutInv, OrderedIsGone, LockIsHeld, OrderedOnce, IdsOf
  <2>5. CarriesTheCart'
    BY <2>1, <2>2 DEF CheckoutInv, CarriesTheCart, OrderedIsGone, IdsOf
  <2>. QED BY <2>3, <2>4, <2>5 DEF CheckoutInv
<1>. QED BY <1>1, <1>2

LEMMA ReadMenuKeeps ==
    ASSUME TypeOK, CheckoutInv, NEW r \in Requests, ReadMenu(r)
    PROVE  CheckoutInv'
<1>1. /\ \A s \in Requests \ {r} : req'[s] = req[s]
      /\ UNCHANGED <<items, nextId, orders>>
  BY ReadMenuEffect
<1>2. \A s \in Requests : Carries(s)' => Carries(s) /\ req'[s].lines = req[s].lines
  BY ReadMenuEffect DEF Carries
<1>3. \A s \in Requests : Holds(s)' => Holds(s)
  BY ReadMenuEffect DEF Holds
<1>4. IdsAreSpent' /\ OrderedIsGone' /\ OrderedOnce'
  BY <1>1, <1>2 DEF CheckoutInv, IdsAreSpent, OrderedIsGone, OrderedOnce, IdsOf
<1>5. CarriesTheCart'
  BY <1>1, <1>2, <1>3 DEF CheckoutInv, CarriesTheCart, IdsOf
<1>6. LockIsHeld'
  <2>1. CASE req'[r].pc = "done"
    BY <1>1, <2>1, ReadMenuEffect, UnlockKeeps
  <2>2. CASE req'[r].pc # "done"
    BY <1>3, <2>2, ReadMenuEffect DEF CheckoutInv, LockIsHeld
  <2>. QED BY <2>1, <2>2
<1>. QED BY <1>4, <1>5, <1>6 DEF CheckoutInv

\* What a commit does.
LEMMA CommitEffect ==
    ASSUME TypeOK, NEW r \in Requests, Commit(r)
    PROVE  LET o == [by |-> r, locked |-> req[r].locked, lines |-> req[r].lines] IN
           /\ orders' = orders \cup {o}
           /\ o.locked = req[r].locked /\ o.lines = req[r].lines
           /\ IdsOf(items') = {} /\ nextId' = nextId
           /\ cartLock' = IF cartLock = r THEN None ELSE cartLock
           /\ req[r].pc = "commit" /\ req'[r].pc = "done"
           /\ \A s \in Requests \ {r} : req'[s] = req[s]
BY AnswerEffect DEF Commit, Unlock, At, IdsOf

LEMMA CommitKeeps ==
    ASSUME TypeOK, CheckoutInv, NEW r \in Requests, Commit(r)
    PROVE  CheckoutInv'
<1>. DEFINE o == [by |-> r, locked |-> req[r].locked, lines |-> req[r].lines]
<1>1. /\ orders' = orders \cup {o}
      /\ o.locked = req[r].locked /\ o.lines = req[r].lines
      /\ IdsOf(items') = {} /\ nextId' = nextId
      /\ cartLock' = IF cartLock = r THEN None ELSE cartLock
      /\ req[r].pc = "commit" /\ req'[r].pc = "done"
      /\ \A s \in Requests \ {r} : req'[s] = req[s]
  BY CommitEffect
<1>. HIDE DEF o
<1>2. Carries(r) /\ \A s \in Requests : Carries(s)' => s # r /\ Carries(s)
  BY <1>1 DEF Carries
<1>3. IdsAreSpent'
  <2>1. \A i \in IdsOf(o.lines) : i < nextId
    BY <1>1, <1>2 DEF CheckoutInv, IdsAreSpent
  <2>. QED BY <1>1, <1>2, <2>1 DEF CheckoutInv, IdsAreSpent, IdsOf
<1>4. OrderedIsGone'
  BY <1>1 DEF OrderedIsGone, IdsOf
<1>5. LockIsHeld'
  BY <1>1, UnlockKeeps
<1>6. CarriesTheCart'
  <2>1. SUFFICES ASSUME NEW s \in Requests, Holds(s)', Carries(s)'
                 PROVE  /\ IdsOf(items') \subseteq IdsOf(req'[s].lines)
                        /\ \A p \in orders' : p.locked => IdsOf(p.lines) \cap IdsOf(req'[s].lines) = {}
    BY DEF CarriesTheCart, IdsOf
  <2>2. s # r /\ Holds(s) /\ Carries(s) /\ req'[s] = req[s]
    BY <1>1, <1>2, <2>1 DEF Holds
  <2>3. cartLock = s
    BY <2>2 DEF CheckoutInv, LockIsHeld
  <2>4. ~Holds(r)
    BY <2>2, <2>3 DEF CheckoutInv, LockIsHeld
  <2>5. ~o.locked
    BY <1>1, <2>4 DEF Holds
  <2>6. \A p \in orders : p.locked => IdsOf(p.lines) \cap IdsOf(req'[s].lines) = {}
    BY <2>2 DEF CheckoutInv, CarriesTheCart
  <2>. QED BY <1>1, <2>5, <2>6
<1>7. OrderedOnce'
  <2>1. \A p \in orders : o.locked /\ p.locked => IdsOf(p.lines) \cap IdsOf(o.lines) = {}
    BY <1>1, <1>2 DEF CheckoutInv, CarriesTheCart, Holds
  <2>. QED BY <1>1, <2>1 DEF CheckoutInv, OrderedOnce, IdsOf
<1>. QED BY <1>3, <1>4, <1>5, <1>6, <1>7 DEF CheckoutInv

\* Every step keeps the invariant.
LEMMA CheckoutInvNext == TypeOK /\ CheckoutInv /\ [Next]_vars => CheckoutInv'
<1>. SUFFICES ASSUME TypeOK, CheckoutInv, [Next]_vars PROVE CheckoutInv'
  OBVIOUS
<1>1. ASSUME NEW r \in Requests, Begin(r) \/ CartRequest(r) PROVE CheckoutInv'
  BY <1>1, BeginIsHarmless, CartStepIsHarmless, HarmlessKeeps
<1>2. ASSUME NEW r \in Requests, CreateOrder(r) PROVE CheckoutInv'
  BY <1>2, LockCartKeeps, ReadItemsKeeps, ReadMenuKeeps, CommitKeeps DEF CreateOrder
<1>3. CASE \/ \E item \in MenuItems : ChangeMenu(item)
           \/ UNCHANGED vars
  <2>1. UNCHANGED <<items, nextId, orders, cartLock, req>>
    BY <1>3 DEF ChangeMenu, vars
  <2>. QED BY <2>1 DEF CheckoutInv, IdsAreSpent, OrderedIsGone, LockIsHeld,
                       CarriesTheCart, OrderedOnce, Carries, Holds, IdsOf
<1>. QED BY <1>1, <1>2, <1>3 DEF Next

-----------------------------------------------------------------------------
\* The state of a request is one of the records of RequestStates, told apart by
\* its pc.
LEMMA StateOf ==
    ASSUME TypeOK, NEW r \in Requests
    PROVE  /\ req[r].pc \in {"add", "add cart", "create cart", "add find", "insert"} =>
                req[r] \in [pc : {"add", "add cart", "create cart", "add find", "insert"},
                            item : MenuItems, quantity : Quantities]
           /\ req[r].pc = "increment" =>
                req[r] \in [pc : {"increment"}, id : Ids, quantity : Quantities]
           /\ req[r].pc \in {"find", "update", "remove"} =>
                \/ req[r] \in [pc : {"find", "update"}, op : {"update"}, id : Ids,
                               quantity : Quantities]
                \/ req[r] \in [pc : {"find", "remove"}, op : {"remove"}, id : Ids]
           /\ req[r].pc = "read items" => req[r] \in [pc : {"read items"}, locked : BOOLEAN]
           /\ req[r].pc \in {"read menu", "commit"} =>
                req[r] \in [pc : {"read menu", "commit"}, locked : BOOLEAN, lines : SUBSET Rows]
BY DEF TypeOK, RequestStates

LEMMA AnswerType == ASSUME TypeOK, NEW r \in Requests, Answer(r)
                    PROVE  req' \in [Requests -> RequestStates]
<1>1. [pc |-> "done"] \in RequestStates
  BY DEF RequestStates
<1>. HIDE DEF RequestStates
<1>. QED BY <1>1 DEF TypeOK, Answer

LEMMA StepType ==
    ASSUME TypeOK, NEW r \in Requests, NEW p, Step(r, p),
           [req[r] EXCEPT !.pc = p] \in RequestStates
    PROVE  req' \in [Requests -> RequestStates]
BY DEF TypeOK, Step

\* A request that adds goes on adding.
LEMMA AddStepType ==
    ASSUME TypeOK, NEW r \in Requests,
           req[r].pc \in {"add", "add cart", "create cart", "add find", "insert"},
           NEW p \in {"add", "add cart", "create cart", "add find", "insert"}, Step(r, p)
    PROVE  req' \in [Requests -> RequestStates]
<1>1. [req[r] EXCEPT !.pc = p]
         \in [pc : {"add", "add cart", "create cart", "add find", "insert"},
              item : MenuItems, quantity : Quantities]
  BY StateOf
<1>2. [req[r] EXCEPT !.pc = p] \in RequestStates
  BY <1>1 DEF RequestStates
<1>. QED BY <1>2, StepType

\* Every step keeps the types.
LEMMA CheckoutTypeNext == TypeOK /\ CheckoutInv /\ [Next]_vars => TypeOK'
<1>. SUFFICES ASSUME TypeOK, CheckoutInv, [Next]_vars PROVE TypeOK'
  OBVIOUS
<1>1. ASSUME NEW r \in Requests, Begin(r) PROVE TypeOK'
  <2>1. req' \in [Requests -> RequestStates]
    <3>1. ASSUME NEW item \in MenuItems, NEW n \in Quantities,
                 req' = [req EXCEPT ![r] = [pc |-> "add", item |-> item, quantity |-> n]]
          PROVE  req' \in [Requests -> RequestStates]
      <4>1. [pc |-> "add", item |-> item, quantity |-> n] \in RequestStates
        BY DEF RequestStates
      <4>. QED BY <3>1, <4>1 DEF TypeOK
    <3>2. ASSUME NEW x \in items, NEW n \in Quantities,
                 req' = [req EXCEPT ![r] = [pc |-> "find", op |-> "update", id |-> x.id,
                                            quantity |-> n]]
          PROVE  req' \in [Requests -> RequestStates]
      <4>1. [pc |-> "find", op |-> "update", id |-> x.id, quantity |-> n] \in RequestStates
        BY DEF RequestStates, TypeOK, Rows
      <4>. QED BY <3>2, <4>1 DEF TypeOK
    <3>3. ASSUME NEW x \in items,
                 req' = [req EXCEPT ![r] = [pc |-> "find", op |-> "remove", id |-> x.id]]
          PROVE  req' \in [Requests -> RequestStates]
      <4>1. [pc |-> "find", op |-> "remove", id |-> x.id] \in RequestStates
        BY DEF RequestStates, TypeOK, Rows
      <4>. QED BY <3>3, <4>1 DEF TypeOK
    <3>4. ASSUME NEW p \in {"clear", "lock"}, Step(r, p)
          PROVE  req' \in [Requests -> RequestStates]
      <4>1. req[r] \in [pc : {"new", "clear", "lock", "done"}]
        BY <1>1 DEF Begin, At, TypeOK, RequestStates
      <4>2. [req[r] EXCEPT !.pc = p] \in [pc : {"new", "clear", "lock", "done"}]
        BY <4>1
      <4>3. [req[r] EXCEPT !.pc = p] \in RequestStates
        BY <4>2 DEF RequestStates
      <4>. QED BY <3>4, <4>3, StepType
    <3>. QED BY <1>1, <3>1, <3>2, <3>3, <3>4 DEF Begin
  <2>. QED BY <1>1, <2>1 DEF Begin, TypeOK
<1>2. ASSUME NEW r \in Requests, AddCheckMenu(r) \/ AddFindCart(r) \/ CreateCart(r)
      PROVE  TypeOK'
  <2>1. Answer(r) \/ \E p \in {"add cart", "create cart", "add find"} : Step(r, p)
    BY <1>2 DEF AddCheckMenu, AddFindCart, CreateCart
  <2>2. req[r].pc \in {"add", "add cart", "create cart"}
    BY <1>2 DEF AddCheckMenu, AddFindCart, CreateCart, At
  <2>3. req' \in [Requests -> RequestStates]
    BY <2>1, <2>2, AnswerType, AddStepType
  <2>4. cart' \in BOOLEAN /\ UNCHANGED <<items, nextId, orders, cartLock, available>>
    BY <1>2 DEF AddCheckMenu, AddFindCart, CreateCart, TypeOK
  <2>. QED BY <2>3, <2>4 DEF TypeOK
<1>3. ASSUME NEW r \in Requests, AddFindItem(r) PROVE TypeOK'
  <2>1. req[r].pc = "add find"
    BY <1>3 DEF AddFindItem, At
  <2>2. req' \in [Requests -> RequestStates]
    <3>1. CASE Step(r, "insert")
      BY <2>1, <3>1, AddStepType
    <3>2. ASSUME NEW x \in items,
                 req' = [req EXCEPT ![r] = [pc |-> "increment", id |-> x.id, quantity |-> @.quantity]]
          PROVE  req' \in [Requests -> RequestStates]
      <4>1. req[r].quantity \in Quantities /\ x.id \in Ids
        BY <2>1, StateOf DEF TypeOK, Rows
      <4>2. [pc |-> "increment", id |-> x.id, quantity |-> req[r].quantity] \in RequestStates
        BY <4>1 DEF RequestStates
      <4>. QED BY <3>2, <4>2 DEF TypeOK
    <3>. QED BY <1>3, <3>1, <3>2 DEF AddFindItem, WithItem
  <2>. QED BY <1>3, <2>2 DEF AddFindItem, TypeOK
<1>4. ASSUME NEW r \in Requests, Increment(r) PROVE TypeOK'
  <2>1. req[r].quantity \in Quantities
    BY <1>4, StateOf DEF Increment, At
  <2>2. \A x \in items : x.quantity + req[r].quantity <= MaxQuantity =>
                            x.quantity + req[r].quantity \in Quantities
    BY <2>1, CheckoutConstants DEF TypeOK, Rows, Quantities
  <2>3. \A x \in items' : /\ x \in Rows
                          /\ \E y \in items : x.menuItemId = y.menuItemId
                                              /\ x = IF y.id = req[r].id /\ y.quantity + req[r].quantity <= MaxQuantity
                                                     THEN [y EXCEPT !.quantity = @ + req[r].quantity] ELSE y
    BY <1>4, <2>2 DEF Increment, TypeOK, Rows
  <2>4. items' \subseteq Rows /\ \A x, y \in items' : x.menuItemId = y.menuItemId => x = y
    BY <2>3 DEF TypeOK
  <2>. QED BY <1>4, <2>4, AnswerType DEF Increment, TypeOK
<1>5. ASSUME NEW r \in Requests, Insert(r) PROVE TypeOK'
  <2>1. req[r].item \in MenuItems /\ req[r].quantity \in Quantities
    BY <1>5, StateOf DEF Insert, At
  <2>2. CASE UNCHANGED <<items, nextId>>
    BY <1>5, <2>2, AnswerType DEF Insert, TypeOK
  <2>3. CASE /\ WithItem(req[r].item) = {} /\ nextId \in Ids
             /\ items' = items \cup {Row(nextId, req[r].item, req[r].quantity)}
             /\ nextId' = nextId + 1
    <3>1. Row(nextId, req[r].item, req[r].quantity) \in Rows
      BY <2>1, <2>3 DEF Row, Rows
    <3>2. \A x \in items : x.menuItemId # req[r].item
      BY <2>3 DEF WithItem
    <3>3. \A x, y \in items' : x.menuItemId = y.menuItemId => x = y
      BY <2>3, <3>2 DEF TypeOK, Row
    <3>4. nextId' \in 1..(MaxRows + 1)
      BY <2>3, CheckoutConstants DEF Ids
    <3>. QED BY <1>5, <2>3, <3>1, <3>3, <3>4, AnswerType DEF Insert, TypeOK
  <2>. QED BY <1>5, <2>2, <2>3 DEF Insert
<1>6. ASSUME NEW r \in Requests, FindItem(r) PROVE TypeOK'
  <2>1. req' \in [Requests -> RequestStates]
    <3>1. CASE Step(r, req[r].op)
      <4>1. \/ req[r] \in [pc : {"find", "update"}, op : {"update"}, id : Ids, quantity : Quantities]
            \/ req[r] \in [pc : {"find", "remove"}, op : {"remove"}, id : Ids]
        BY <1>6, StateOf DEF FindItem, At
      <4>2. \/ [req[r] EXCEPT !.pc = req[r].op]
                  \in [pc : {"find", "update"}, op : {"update"}, id : Ids, quantity : Quantities]
            \/ [req[r] EXCEPT !.pc = req[r].op] \in [pc : {"find", "remove"}, op : {"remove"}, id : Ids]
        BY <4>1
      <4>3. [req[r] EXCEPT !.pc = req[r].op] \in RequestStates
        BY <4>2 DEF RequestStates
      <4>. QED BY <3>1, <4>3, StepType
    <3>. QED BY <1>6, <3>1, AnswerType DEF FindItem
  <2>. QED BY <1>6, <2>1 DEF FindItem, TypeOK
<1>7. ASSUME NEW r \in Requests, UpdateQuantity(r) PROVE TypeOK'
  <2>1. req[r].pc = "update"
    BY <1>7 DEF UpdateQuantity, At
  <2>2. req[r].quantity \in Quantities
    BY <2>1, StateOf
  <2>3. \A x \in items' : /\ x \in Rows
                          /\ \E y \in items : x.menuItemId = y.menuItemId
                                              /\ x = IF y.id = req[r].id
                                                     THEN [y EXCEPT !.quantity = req[r].quantity] ELSE y
    BY <1>7, <2>2 DEF UpdateQuantity, TypeOK, Rows
  <2>4. items' \subseteq Rows /\ \A x, y \in items' : x.menuItemId = y.menuItemId => x = y
    BY <2>3 DEF TypeOK
  <2>. QED BY <1>7, <2>4, AnswerType DEF UpdateQuantity, TypeOK
<1>8. ASSUME NEW r \in Requests, DeleteItem(r) \/ ClearCart(r) PROVE TypeOK'
  <2>1. items' \subseteq items /\ Answer(r) /\ UNCHANGED <<cart, nextId, orders, cartLock, available>>
    BY <1>8 DEF DeleteItem, ClearCart
  <2>. QED BY <2>1, AnswerType DEF TypeOK
<1>9. ASSUME NEW r \in Requests, LockCart(r) PROVE TypeOK'
  <2>1. [pc |-> "read items", locked |-> cart] \in RequestStates
    BY DEF RequestStates, TypeOK
  <2>2. cartLock' \in Requests \cup {None}
    BY <1>9 DEF LockCart, TypeOK
  <2>. QED BY <1>9, <2>1, <2>2 DEF LockCart, TypeOK
<1>10. ASSUME NEW r \in Requests, ReadItems(r) PROVE TypeOK'
  <2>1. req' \in [Requests -> RequestStates] /\ cartLock' \in Requests \cup {None}
    <3>1. CASE Rollback(r)
      BY <3>1, AnswerType DEF Rollback, Unlock, TypeOK
    <3>2. CASE /\ req' = [req EXCEPT ![r] = [pc |-> "read menu", locked |-> @.locked, lines |-> items]]
               /\ UNCHANGED cartLock
      <4>1. req[r].locked \in BOOLEAN
        BY <1>10, StateOf DEF ReadItems, At
      <4>2. [pc |-> "read menu", locked |-> req[r].locked, lines |-> items] \in RequestStates
        BY <4>1 DEF RequestStates, TypeOK
      <4>. QED BY <3>2, <4>2 DEF TypeOK
    <3>. QED BY <1>10, <3>1, <3>2 DEF ReadItems
  <2>. QED BY <1>10, <2>1 DEF ReadItems, TypeOK
<1>11. ASSUME NEW r \in Requests, ReadMenu(r) PROVE TypeOK'
  <2>1. req' \in [Requests -> RequestStates] /\ cartLock' \in Requests \cup {None}
    <3>1. CASE Rollback(r)
      BY <3>1, AnswerType DEF Rollback, Unlock, TypeOK
    <3>2. CASE Step(r, "commit") /\ UNCHANGED cartLock
      <4>1. [req[r] EXCEPT !.pc = "commit"]
               \in [pc : {"read menu", "commit"}, locked : BOOLEAN, lines : SUBSET Rows]
        BY <1>11, StateOf DEF ReadMenu, At
      <4>2. [req[r] EXCEPT !.pc = "commit"] \in RequestStates
        BY <4>1 DEF RequestStates
      <4>. QED BY <3>2, <4>2, StepType DEF TypeOK
    <3>. QED BY <1>11, <3>1, <3>2 DEF ReadMenu
  <2>. QED BY <1>11, <2>1 DEF ReadMenu, TypeOK
<1>12. ASSUME NEW r \in Requests, Commit(r) PROVE TypeOK'
  <2>1. [by |-> r, locked |-> req[r].locked, lines |-> req[r].lines] \in Orders
    BY <1>12, StateOf DEF Commit, At, Orders
  <2>2. cartLock' \in Requests \cup {None}
    BY <1>12 DEF Commit, Unlock, TypeOK
  <2>. QED BY <1>12, <2>1, <2>2, AnswerType DEF Commit, TypeOK
<1>13. CASE \E item \in MenuItems : ChangeMenu(item)
  BY <1>13 DEF ChangeMenu, TypeOK
<1>14. CASE UNCHANGED vars
  BY <1>14 DEF vars, TypeOK
<1>. QED
  BY <1>1, <1>2, <1>3, <1>4, <1>5, <1>6, <1>7, <1>8, <1>9, <1>10, <1>11, <1>12, <1>13, <1>14
     DEF Next, CartRequest, CreateOrder

-----------------------------------------------------------------------------
\* The types and the invariant hold in every reachable state.
THEOREM CheckoutInvariance == Spec => [](TypeOK /\ CheckoutInv)
<1>1. Init => TypeOK /\ CheckoutInv
  BY CheckoutInit
<1>2. (TypeOK /\ CheckoutInv) /\ [Next]_vars => (TypeOK /\ CheckoutInv)'
  BY CheckoutTypeNext, CheckoutInvNext
<1>. QED BY <1>1, <1>2, PTL DEF Spec

\* The cart holds a menu item once and never too many of it.
THEOREM CheckoutTypeCorrect == Spec => []TypeOK
BY CheckoutInvariance, PTL

\* No row of the cart is in two orders whose checkouts had a cart to lock.
THEOREM EachRowOrderedOnce == Spec => []OrderedOnce
<1>1. CheckoutInv => OrderedOnce
  BY DEF CheckoutInv
<1>. QED BY <1>1, CheckoutInvariance, PTL

\* A commit with the lock takes out of the cart only what it ordered.
THEOREM NothingClearedUnordered == Spec => ClearedWasOrdered
<1>. DEFINE A == \A o \in orders' \ orders :
                    o.locked => IdsOf(items) \ IdsOf(items') \subseteq IdsOf(o.lines)
<1>1. TypeOK /\ CheckoutInv /\ [Next]_vars => [A]_vars
  <2>. SUFFICES ASSUME TypeOK, CheckoutInv, Next PROVE A
    BY DEF vars
  <2>1. ASSUME NEW r \in Requests, Commit(r) PROVE A
    <3>. DEFINE o == [by |-> r, locked |-> req[r].locked, lines |-> req[r].lines]
    <3>1. /\ orders' = orders \cup {o} /\ o.locked = req[r].locked /\ o.lines = req[r].lines
          /\ req[r].pc = "commit"
      BY <2>1, CommitEffect
    <3>. HIDE DEF o
    <3>2. o.locked => IdsOf(items) \subseteq IdsOf(o.lines)
      BY <3>1 DEF CheckoutInv, CarriesTheCart, Holds, Carries
    <3>. QED BY <3>1, <3>2
  <2>2. CASE orders' = orders
    BY <2>2
  <2>3. ASSUME NEW r \in Requests, Begin(r) \/ CartRequest(r) PROVE orders' = orders
    BY <2>3, BeginIsHarmless, CartStepIsHarmless DEF Harmless
  <2>4. ASSUME NEW r \in Requests, LockCart(r) \/ ReadItems(r) \/ ReadMenu(r) PROVE orders' = orders
    BY <2>4 DEF LockCart, ReadItems, ReadMenu
  <2>5. ASSUME NEW item \in MenuItems, ChangeMenu(item) PROVE orders' = orders
    BY <2>5 DEF ChangeMenu
  <2>. QED BY <2>1, <2>2, <2>3, <2>4, <2>5 DEF Next, CreateOrder
<1>. QED BY <1>1, CheckoutInvariance, PTL DEF Spec, ClearedWasOrdered
=============================================================================
