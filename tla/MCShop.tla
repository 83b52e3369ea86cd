------------------------------- MODULE MCShop -------------------------------
(***************************************************************************)
(* The shop on small instances: the menu (Menu), the cart and the orders   *)
(* made from it on the server (Checkout), and the page of the customer     *)
(* (Storefront).                                                           *)
(*                                                                         *)
(* Each has the others' state as its own code sees it, Checkout the menu   *)
(* items that are available, Storefront the server's cart.  They are       *)
(* checked side by side, one in each behaviour: part is chosen at the      *)
(* start and the others stay as they begin.                                *)
(***************************************************************************)
EXTENDS Checkout, TLC

CONSTANTS
    Categories, Names, Editors,   \* of Menu: Editors are its requests
    Calls, MaxOrders              \* of Storefront: Calls are its Ops

VARIABLES
    part,
    row, used, ordered, request,
    serverCart, placed, count, view, op, click, order, isPaymentOpen, window, told, screen

M == INSTANCE Menu WITH Items <- MenuItems, Requests <- Editors

F == INSTANCE Storefront
       WITH Items <- MenuItems, Ops <- Calls, cart <- serverCart, orders <- placed

ASSUME ShopConstants == M!MenuConstants /\ F!StorefrontConstants

menuVars == <<row, used, ordered, request>>
pageVars == <<serverCart, placed, count, view, op, click, order, isPaymentOpen, window, told, screen>>

\* The parts that are not looked at begin empty.
ShopInit ==
    /\ part \in {"menu", "checkout", "page"}
    /\ M!Init /\ Init /\ F!Init
    /\ part # "menu" => row = [x \in M!Ids |-> None]
    /\ part # "page" => serverCart = {}

ShopNext ==
    \/ part = "menu"     /\ M!Next /\ UNCHANGED <<part, vars, pageVars>>
    \/ part = "checkout" /\ Next   /\ UNCHANGED <<part, menuVars, pageVars>>
    \/ part = "page"     /\ F!Next /\ UNCHANGED <<part, vars, menuVars>>

ShopSpec == ShopInit /\ [][ShopNext]_<<part, vars, menuVars, pageVars>>

\* Menu items, categories, names and requests are interchangeable; the calls of
\* the page and the editors of the menu have names of requests.
Symmetry ==
    Permutations(MenuItems) \cup Permutations(Categories) \cup Permutations(Names)
      \cup Permutations(Calls)

-----------------------------------------------------------------------------
(***************************************************************************)
(* The properties of the parts, stated in their modules.                   *)
(***************************************************************************)
\* Every variable of the part has its type.
TypesAreOK == CASE part = "menu"     -> M!TypeOK
                [] part = "checkout" -> TypeOK
                [] part = "page"     -> F!TypeOK

\* No two categories, and no two items of a category, have a name, and what a
\* row refers to is there.
MenuIsConsistent == part = "menu" => M!NamesAreUnique /\ M!ReferencesExist

\* However often the customer presses the button, nothing is ordered twice.
NothingOrderedTwice == F!NothingOrderedTwice

\* The page says "confirmed" and "received" of orders that are.
ScreenIsTrue == F!ScreenIsTrue
=============================================================================
