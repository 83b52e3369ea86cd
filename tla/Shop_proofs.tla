----------------------------- MODULE Shop_proofs -----------------------------
(***************************************************************************)
(* Proofs about Menu and Storefront, and about MCShop, which runs them     *)
(* beside Checkout: for any number of categories, items, requests, calls   *)
(* and orders.                                                             *)
(***************************************************************************)
EXTENDS MCShop, Checkout_proofs

(***************************************************************************)
(* The menu.                                                               *)
(*                                                                         *)
(* The argument: a row is only written by Put, which the constraints guard *)
(* at that moment, whatever the request has found before.  What is left to *)
(* show is that a request only ever writes rows of its own kind, and that  *)
(* an item is no category.                                                 *)
(***************************************************************************)
\* The input of a request fits its kind.
Asked(q) ==
    /\ q.kind = "createCategory" => q.category = None /\ q.name \in Names
    /\ q.kind = "updateCategory" => q.id \in Categories /\ q.category = None
    /\ q.kind = "deleteCategory" => q.id \in Categories
    /\ q.kind = "createItem" => q.category \in Categories /\ q.name \in Names
    /\ q.kind \in {"updateItem", "deleteItem"} => q.id \in MenuItems
    /\ q.pc = "find" => q.id \in M!Ids

\* The inductive invariant.
MenuInv ==
    /\ M!TypeOK
    /\ \A r \in Editors : Asked(request[r])
    /\ M!NamesAreUnique
    /\ M!ReferencesExist

\* The invariant holds at the start.
LEMMA MenuInit == M!Init => MenuInv
<1>. SUFFICES ASSUME M!Init PROVE MenuInv
  OBVIOUS
<1>1. M!NoRequest \in M!RequestRecords /\ Asked(M!NoRequest)
  BY DEF M!NoRequest, M!Asks, M!RequestRecords, Asked
<1>2. request \in [Editors -> M!RequestRecords] /\ \A r \in Editors : Asked(request[r])
  BY <1>1 DEF M!Init
<1>3. M!TypeOK
  BY <1>2, ShopConstants DEF M!Init, M!TypeOK, M!Exists, M!Ids, M!MenuConstants
<1>4. M!NamesAreUnique /\ M!ReferencesExist
  BY DEF M!Init, M!NamesAreUnique, M!ReferencesExist, M!Exists
<1>. QED BY <1>2, <1>3, <1>4 DEF MenuInv

\* A request that only moves on keeps the invariant.
LEMMA MenuQuiet ==
    ASSUME MenuInv, UNCHANGED <<row, used, ordered>>,
           NEW r \in Editors, NEW q \in M!RequestRecords, Asked(q),
           request' = [request EXCEPT ![r] = q]
    PROVE  MenuInv'
<1>1. request' \in [Editors -> M!RequestRecords] /\ \A x \in Editors : Asked(request'[x])
  BY DEF MenuInv, M!TypeOK
<1>2. M!TypeOK'
  BY <1>1 DEF MenuInv, M!TypeOK, M!Exists
<1>3. M!NamesAreUnique' /\ M!ReferencesExist'
  BY DEF MenuInv, M!NamesAreUnique, M!ReferencesExist, M!Exists
<1>4. \A x \in Editors : Asked(request[x])'
  BY <1>1 DEF Asked
<1>. QED BY <1>2, <1>3, <1>4 DEF MenuInv

\* What Goes does to the request.
LEMMA MenuGoes ==
    ASSUME MenuInv, NEW r \in Editors,
           NEW pc \in {"category", "name", "count", "write"} \cup M!Answers,
           M!Goes(r, pc)
    PROVE  \E q \in M!RequestRecords : Asked(q) /\ request' = [request EXCEPT ![r] = q]
<1>1. request[r] \in M!RequestRecords /\ Asked(request[r])
  BY DEF MenuInv, M!TypeOK
<1>2. PICK q : q = [request[r] EXCEPT !.pc = pc]
  OBVIOUS
<1>3. q \in M!RequestRecords
  BY <1>1, <1>2 DEF M!RequestRecords
<1>4. q.kind = request[r].kind /\ q.id = request[r].id /\ q.category = request[r].category
      /\ q.name = request[r].name
  BY <1>1, <1>2 DEF M!RequestRecords
<1>5. Asked(q)
  <2>1. q.pc # "find"
    BY <1>1, <1>2 DEF M!RequestRecords, M!Answers
  <2>. QED BY <1>1, <1>4, <2>1 DEF Asked
<1>6. request' = [request EXCEPT ![r] = q]
  BY <1>2 DEF M!Goes
<1>. QED BY <1>3, <1>5, <1>6

\* The checks of a request change nothing but its step and what it has found.
LEMMA MenuBegin ==
    ASSUME MenuInv, NEW r \in Editors, M!Begin(r)
    PROVE  MenuInv'
<1>1. PICK n \in Names, c \in Categories, i \in MenuItems,
           givenName \in Names \cup {None}, givenCategory \in Categories \cup {None} :
         \E asked \in {M!Asks("createCategory", None, None, n, "name"),
                       M!Asks("updateCategory", c, None, givenName, "find"),
                       M!Asks("deleteCategory", c, None, None, "find"),
                       M!Asks("createItem", None, c, n, "category"),
                       M!Asks("updateItem", i, givenCategory, givenName, "find"),
                       M!Asks("deleteItem", i, None, None, "find")} :
           request' = [request EXCEPT ![r] = asked]
  BY DEF M!Begin
<1>2. \A asked \in {M!Asks("createCategory", None, None, n, "name"),
                    M!Asks("updateCategory", c, None, givenName, "find"),
                    M!Asks("deleteCategory", c, None, None, "find"),
                    M!Asks("createItem", None, c, n, "category"),
                    M!Asks("updateItem", i, givenCategory, givenName, "find"),
                    M!Asks("deleteItem", i, None, None, "find")} :
        asked \in M!RequestRecords /\ Asked(asked)
  BY DEF M!Asks, M!RequestRecords, M!Ids, Asked
<1>3. UNCHANGED <<row, used, ordered>>
  BY DEF M!Begin
<1>4. PICK q \in M!RequestRecords : Asked(q) /\ request' = [request EXCEPT ![r] = q]
  BY <1>1, <1>2
<1>. QED BY <1>3, <1>4, MenuQuiet

\* A request finds the row it asks for, or answers that there is none.
LEMMA MenuFind ==
    ASSUME MenuInv, NEW r \in Editors, M!Find(r)
    PROVE  MenuInv'
<1>. DEFINE id == request[r].id
<1>1. UNCHANGED <<row, used, ordered>>
  BY DEF M!Find
<1>2. CASE M!Goes(r, "notFound")
  BY <1>1, <1>2, MenuGoes, MenuQuiet DEF M!Answers
<1>3. CASE /\ M!Exists(id)
           /\ request' = [request EXCEPT ![r].found = row[id],
                                         ![r].pc = M!AfterFind(request[r], row[id])]
  <2>1. request[r] \in M!RequestRecords /\ Asked(request[r])
    BY DEF MenuInv, M!TypeOK
  <2>2. id \in M!Ids
    BY <1>3, <2>1 DEF Asked, M!Find, M!At
  <2>3. row[id] \in M!Rows
    BY <1>3, <2>2 DEF MenuInv, M!TypeOK, M!Exists
  <2>4. M!AfterFind(request[r], row[id]) \in {"count", "write", "category", "name"}
    BY DEF M!AfterFind, M!NameStep
  <2>5. PICK q : q = [request[r] EXCEPT !.found = row[id], !.pc = M!AfterFind(request[r], row[id])]
    OBVIOUS
  <2>6. q \in M!RequestRecords
    BY <2>1, <2>3, <2>4, <2>5 DEF M!RequestRecords
  <2>7. q.kind = request[r].kind /\ q.id = request[r].id /\ q.category = request[r].category
        /\ q.name = request[r].name /\ q.pc # "find"
    BY <2>1, <2>4, <2>5 DEF M!RequestRecords
  <2>8. Asked(q)
    BY <2>1, <2>7 DEF Asked
  <2>9. request' = [request EXCEPT ![r] = q]
    BY <1>3, <2>5
  <2>. QED BY <1>1, <2>6, <2>8, <2>9, MenuQuiet
<1>. QED BY <1>2, <1>3 DEF M!Find

\* The checks keep the invariant.
LEMMA MenuChecks ==
    ASSUME MenuInv, NEW r \in Editors, M!Checks(r)
    PROVE  MenuInv'
<1>1. CASE M!Find(r)
  BY <1>1, MenuFind
<1>2. CASE M!FindCategory(r)
  <2>1. PICK pc \in {"write", "name", "notFound"} : M!Goes(r, pc)
    BY <1>2 DEF M!FindCategory, M!NameStep
  <2>2. UNCHANGED <<row, used, ordered>>
    BY <1>2 DEF M!FindCategory
  <2>. QED BY <2>1, <2>2, MenuGoes, MenuQuiet DEF M!Answers
<1>3. CASE M!FindByName(r)
  <2>1. PICK pc \in {"conflict", "write"} : M!Goes(r, pc)
    BY <1>3 DEF M!FindByName
  <2>2. UNCHANGED <<row, used, ordered>>
    BY <1>3 DEF M!FindByName
  <2>. QED BY <2>1, <2>2, MenuGoes, MenuQuiet DEF M!Answers
<1>4. CASE M!CountItems(r)
  <2>1. PICK pc \in {"conflict", "write"} : M!Goes(r, pc)
    BY <1>4 DEF M!CountItems
  <2>2. UNCHANGED <<row, used, ordered>>
    BY <1>4 DEF M!CountItems
  <2>. QED BY <2>1, <2>2, MenuGoes, MenuQuiet DEF M!Answers
<1>. QED BY <1>1, <1>2, <1>3, <1>4 DEF M!Checks

\* What a request puts in the table of a category or an item.
Fits(id, new) ==
    /\ id \in Categories => new \in M!CategoryRows
    /\ id \in MenuItems => new \in M!ItemRows

\* Put keeps the invariant, whatever the request has seen before.
LEMMA MenuPut ==
    ASSUME MenuInv, NEW r \in Editors, NEW id \in M!Ids, NEW new, Fits(id, new),
           M!Put(r, id, new), used' \in SUBSET M!Ids, used \cup {id} \subseteq used', UNCHANGED ordered
    PROVE  MenuInv'
<1>1. PICK pc \in {"conflict", "error", "ok"} : M!Goes(r, pc)
  BY DEF M!Put
<1>2. PICK q \in M!RequestRecords : Asked(q) /\ request' = [request EXCEPT ![r] = q]
  BY <1>1, MenuGoes DEF M!Answers
<1>3. request' \in [Editors -> M!RequestRecords] /\ \A x \in Editors : Asked(request'[x])
  BY <1>2 DEF MenuInv, M!TypeOK
<1>4. CASE UNCHANGED row
  <2>1. M!TypeOK'
    BY <1>3, <1>4 DEF MenuInv, M!TypeOK, M!Exists
  <2>2. M!NamesAreUnique' /\ M!ReferencesExist'
    BY <1>4 DEF MenuInv, M!NamesAreUnique, M!ReferencesExist, M!Exists
  <2>3. \A x \in Editors : Asked(request[x])'
    BY <1>3 DEF Asked
  <2>. QED BY <2>1, <2>2, <2>3 DEF MenuInv
<1>5. CASE /\ row' = [row EXCEPT ![id] = new]
           /\ ~M!Taken(id, new)
           /\ new.category # None => M!Exists(new.category)
  <2>0. row \in [M!Ids -> M!Rows \cup {None}]
    BY DEF MenuInv, M!TypeOK
  <2>1. new \in M!Rows /\ new # None
    BY ShopConstants DEF Fits, M!Ids, M!Rows, M!MenuConstants
  <2>2. row'[id] = new /\ \A x \in M!Ids : x # id => row'[x] = row[x]
    BY <1>5, <2>0
  <2>3. row' \in [M!Ids -> M!Rows \cup {None}]
    BY <1>5, <2>0, <2>1
  <2>4. /\ \A c \in Categories : row'[c] \in M!CategoryRows \cup {None}
        /\ \A i \in MenuItems : row'[i] \in M!ItemRows \cup {None}
    BY <2>2 DEF MenuInv, M!TypeOK, Fits, M!Ids
  <2>5. \A x \in M!Ids : row'[x] # None => x \in used'
    BY <2>2 DEF MenuInv, M!TypeOK, M!Exists
  <2>6. M!TypeOK'
    BY <1>3, <2>3, <2>4, <2>5 DEF MenuInv, M!TypeOK, M!Exists
  <2>7. M!NamesAreUnique'
    BY <1>5, <2>2 DEF MenuInv, M!NamesAreUnique, M!Taken, M!Exists
  <2>8. \A x \in M!Ids : row[x] # None => row'[x] # None
    BY <2>1, <2>2
  <2>9. ASSUME NEW i \in MenuItems, row'[i] # None
        PROVE  row'[row'[i].category] # None
    <3>1. CASE i = id
      <4>1. new.category \in Categories
        BY <3>1 DEF Fits, M!ItemRows
      <4>2. new.category # None /\ new.category \in M!Ids
        BY <4>1, ShopConstants DEF M!MenuConstants, M!Ids
      <4>. QED BY <1>5, <2>2, <2>8, <3>1, <4>2 DEF M!Exists
    <3>2. CASE i # id
      <4>1. row'[i] = row[i]
        BY <2>2, <3>2 DEF M!Ids
      <4>2. row[i].category \in M!Ids
        BY <2>9, <4>1 DEF MenuInv, M!TypeOK, M!ItemRows, M!Ids
      <4>3. row[row[i].category] # None
        BY <2>9, <4>1 DEF MenuInv, M!ReferencesExist, M!Exists
      <4>. QED BY <2>8, <4>1, <4>2, <4>3
    <3>. QED BY <3>1, <3>2
  <2>10. \A i \in ordered : row'[i] # None
    BY <2>8 DEF MenuInv, M!ReferencesExist, M!TypeOK, M!Exists, M!Ids
  <2>11. M!ReferencesExist'
    BY <2>9, <2>10 DEF M!ReferencesExist, M!Exists
  <2>12. \A x \in Editors : Asked(request[x])'
    BY <1>3 DEF Asked
  <2>. QED BY <2>6, <2>7, <2>11, <2>12 DEF MenuInv
<1>. QED BY <1>4, <1>5 DEF M!Put

\* The request at hand: its record has its type and fits its kind.
LEMMA MenuRequest ==
    ASSUME MenuInv, NEW r \in Editors
    PROVE  request[r] \in M!RequestRecords /\ Asked(request[r])
BY DEF MenuInv, M!TypeOK

\* Insert keeps the invariant.
LEMMA MenuInsert ==
    ASSUME MenuInv, NEW r \in Editors, M!Insert(r)
    PROVE  MenuInv'
<1>. DEFINE q == request[r]
<1>1. PICK id \in (IF q.kind = "createItem" THEN MenuItems ELSE Categories) \ used :
         /\ q.kind \in {"createCategory", "createItem"}
         /\ used' = used \cup {id}
         /\ M!Put(r, id, M!With(q, None))
  BY DEF M!Insert
<1>2. M!With(q, None) = [category |-> q.category, name |-> q.name]
  BY DEF M!With
<1>3. Asked(q)
  BY MenuRequest
<1>4. CASE q.kind = "createItem"
  <2>1. id \in MenuItems /\ id \notin Categories /\ id \in M!Ids
    BY <1>1, <1>4, ShopConstants DEF M!MenuConstants, M!Ids
  <2>2. M!With(q, None) \in M!ItemRows
    BY <1>2, <1>3, <1>4 DEF Asked, M!ItemRows
  <2>3. Fits(id, M!With(q, None))
    BY <2>1, <2>2 DEF Fits
  <2>4. used' \in SUBSET M!Ids /\ used \cup {id} \subseteq used'
    BY <1>1, <2>1 DEF MenuInv, M!TypeOK
  <2>. QED BY <1>1, <2>1, <2>3, <2>4, MenuPut DEF M!Insert
<1>5. CASE q.kind = "createCategory"
  <2>1. id \in Categories /\ id \notin MenuItems /\ id \in M!Ids
    BY <1>1, <1>5, ShopConstants DEF M!MenuConstants, M!Ids
  <2>2. M!With(q, None) \in M!CategoryRows
    BY <1>2, <1>3, <1>5 DEF Asked, M!CategoryRows
  <2>3. Fits(id, M!With(q, None))
    BY <2>1, <2>2 DEF Fits
  <2>4. used' \in SUBSET M!Ids /\ used \cup {id} \subseteq used'
    BY <1>1, <2>1 DEF MenuInv, M!TypeOK
  <2>. QED BY <1>1, <2>1, <2>3, <2>4, MenuPut DEF M!Insert
<1>. QED BY <1>1, <1>4, <1>5

\* Update keeps the invariant: the row it makes is of the kind of the old one.
LEMMA MenuUpdate ==
    ASSUME MenuInv, NEW r \in Editors, M!Update(r)
    PROVE  MenuInv'
<1>. DEFINE q == request[r]
            old == row[q.id]
            new == M!With(q, old)
<1>1. CASE M!Goes(r, "notFound") /\ UNCHANGED row
  BY <1>1, MenuGoes, MenuQuiet DEF M!Update, M!Answers
<1>2. CASE M!Exists(q.id) /\ M!Put(r, q.id, new)
  <2>1. Asked(q) /\ q \in M!RequestRecords /\ q.kind \in {"updateCategory", "updateItem"}
    BY MenuRequest DEF M!Update
  <2>2. q.category \in Categories \cup {None} /\ q.name \in Names \cup {None}
    BY <2>1 DEF M!RequestRecords
  <2>3. old # None
    BY <1>2 DEF M!Exists
  <2>4. new.category = (IF q.category = None THEN old.category ELSE q.category)
        /\ new.name = (IF q.name = None THEN old.name ELSE q.name)
        /\ new = [category |-> new.category, name |-> new.name]
    BY <2>3 DEF M!With
  <2>5. CASE q.kind = "updateCategory"
    <3>1. q.id \in Categories /\ q.id \notin MenuItems /\ q.id \in M!Ids /\ q.category = None
      BY <2>1, <2>5, ShopConstants DEF Asked, M!MenuConstants, M!Ids
    <3>2. old.category = None /\ old.name \in Names
      BY <2>3, <3>1 DEF MenuInv, M!TypeOK, M!CategoryRows
    <3>3. new.category = None /\ new.name \in Names
      BY <2>2, <2>4, <3>1, <3>2
    <3>4. new \in M!CategoryRows
      BY <2>4, <3>3 DEF M!CategoryRows
    <3>5. Fits(q.id, new)
      BY <3>1, <3>4 DEF Fits
    <3>6. used' \in SUBSET M!Ids /\ used \cup {q.id} \subseteq used'
      BY <1>2, <3>1 DEF M!Update, MenuInv, M!TypeOK
    <3>. QED BY <1>2, <3>1, <3>5, <3>6, MenuPut DEF M!Update
  <2>6. CASE q.kind = "updateItem"
    <3>1. q.id \in MenuItems /\ q.id \notin Categories /\ q.id \in M!Ids
      BY <2>1, <2>6, ShopConstants DEF Asked, M!MenuConstants, M!Ids
    <3>2. old.category \in Categories /\ old.name \in Names
      BY <2>3, <3>1 DEF MenuInv, M!TypeOK, M!ItemRows
    <3>3. new.category \in Categories /\ new.name \in Names
      BY <2>2, <2>4, <3>1, <3>2
    <3>4. new \in M!ItemRows
      BY <2>4, <3>3 DEF M!ItemRows
    <3>5. Fits(q.id, new)
      BY <3>1, <3>4 DEF Fits
    <3>6. used' \in SUBSET M!Ids /\ used \cup {q.id} \subseteq used'
      BY <1>2, <3>1 DEF M!Update, MenuInv, M!TypeOK
    <3>. QED BY <1>2, <3>1, <3>5, <3>6, MenuPut DEF M!Update
  <2>. QED BY <2>1, <2>5, <2>6
<1>. QED BY <1>1, <1>2 DEF M!Update

\* Delete keeps the invariant: a row goes that nothing refers to.
LEMMA MenuDelete ==
    ASSUME MenuInv, NEW r \in Editors, M!Delete(r)
    PROVE  MenuInv'
<1>. DEFINE id == request[r].id
<1>1. PICK pc \in {"notFound", "error", "ok"} : M!Goes(r, pc)
  BY DEF M!Delete
<1>2. CASE UNCHANGED row
  BY <1>1, <1>2, MenuGoes, MenuQuiet DEF M!Delete, M!Answers
<1>3. CASE ~M!Referenced(id) /\ row' = [row EXCEPT ![id] = None]
  <2>1. PICK q \in M!RequestRecords : Asked(q) /\ request' = [request EXCEPT ![r] = q]
    BY <1>1, MenuGoes DEF M!Answers
  <2>2. request' \in [Editors -> M!RequestRecords] /\ \A x \in Editors : Asked(request'[x])
    BY <2>1 DEF MenuInv, M!TypeOK
  <2>3. row \in [M!Ids -> M!Rows \cup {None}] /\ UNCHANGED <<used, ordered>>
    BY DEF MenuInv, M!TypeOK, M!Delete
  <2>4. \A x \in M!Ids : (x = id => row'[x] = None) /\ (x # id => row'[x] = row[x])
    BY <1>3, <2>3
  <2>5. row' \in [M!Ids -> M!Rows \cup {None}]
    BY <1>3, <2>3
  <2>6. M!TypeOK'
    BY <2>2, <2>3, <2>4, <2>5 DEF MenuInv, M!TypeOK, M!Exists, M!Ids
  <2>7. M!NamesAreUnique'
    BY <2>4 DEF MenuInv, M!NamesAreUnique, M!Exists
  <2>8. ASSUME NEW i \in MenuItems, row'[i] # None
        PROVE  row'[row'[i].category] # None
    <3>1. row'[i] = row[i] /\ row[i] # None
      BY <2>4, <2>8 DEF M!Ids
    <3>2. row[i].category \in M!Ids /\ row[row[i].category] # None
      BY <3>1 DEF MenuInv, M!TypeOK, M!ItemRows, M!Ids, M!ReferencesExist, M!Exists
    <3>3. row[i].category # id
      BY <1>3, <3>1 DEF M!Referenced, M!Exists
    <3>. QED BY <2>4, <3>1, <3>2, <3>3
  <2>9. ASSUME NEW i \in ordered PROVE row'[i] # None
    <3>1. i \in M!Ids /\ row[i] # None
      BY DEF MenuInv, M!TypeOK, M!Ids, M!ReferencesExist, M!Exists
    <3>2. i # id
      BY <1>3 DEF M!Referenced
    <3>. QED BY <2>4, <3>1, <3>2
  <2>10. M!ReferencesExist'
    BY <2>3, <2>8, <2>9 DEF M!ReferencesExist, M!Exists
  <2>11. \A x \in Editors : Asked(request[x])'
    BY <2>2 DEF Asked
  <2>. QED BY <2>6, <2>7, <2>10, <2>11 DEF MenuInv
<1>. QED BY <1>2, <1>3 DEF M!Delete

\* Every step of Menu keeps the invariant.
LEMMA MenuNext == MenuInv /\ [M!Next]_M!vars => MenuInv'
<1>. SUFFICES ASSUME MenuInv, [M!Next]_M!vars PROVE MenuInv'
  OBVIOUS
<1>1. ASSUME NEW r \in Editors, M!Begin(r) \/ M!Checks(r) \/ M!Writes(r) PROVE MenuInv'
  BY <1>1, MenuBegin, MenuChecks, MenuInsert, MenuUpdate, MenuDelete DEF M!Writes
<1>2. ASSUME NEW i \in MenuItems, M!Order(i) PROVE MenuInv'
  <2>1. UNCHANGED <<row, used, request>>
    BY <1>2 DEF M!Order
  <2>2. ordered' \subseteq MenuItems /\ \A x \in ordered' : row[x] # None
    BY <1>2 DEF M!Order, MenuInv, M!TypeOK, M!ReferencesExist, M!Exists
  <2>3. M!TypeOK'
    BY <2>1, <2>2 DEF MenuInv, M!TypeOK, M!Exists
  <2>4. M!NamesAreUnique' /\ M!ReferencesExist'
    BY <2>1, <2>2 DEF MenuInv, M!NamesAreUnique, M!ReferencesExist, M!Exists
  <2>5. \A x \in Editors : Asked(request[x])'
    BY <2>1 DEF MenuInv, Asked
  <2>. QED BY <2>3, <2>4, <2>5 DEF MenuInv
<1>3. CASE UNCHANGED M!vars
  <2>1. UNCHANGED <<row, used, ordered, request>>
    BY <1>3 DEF M!vars
  <2>2. M!TypeOK' /\ M!NamesAreUnique' /\ M!ReferencesExist'
    BY <2>1 DEF MenuInv, M!TypeOK, M!NamesAreUnique, M!ReferencesExist, M!Exists
  <2>3. \A x \in Editors : Asked(request[x])'
    BY <2>1 DEF MenuInv, Asked
  <2>. QED BY <2>2, <2>3 DEF MenuInv
<1>. QED BY <1>1, <1>2, <1>3 DEF M!Next

-----------------------------------------------------------------------------
(***************************************************************************)
(* The page of the customer.                                               *)
(*                                                                         *)
(* The argument: an order takes the whole cart of the server and rows that *)
(* were ordered do not come back, so the cart is always apart from every   *)
(* order, whatever the page still shows.  The button does nothing while    *)
(* the payment is open, so the order that the window and its handler are   *)
(* about is not replaced before they have ended; and the handler only runs *)
(* after a payment.                                                        *)
(***************************************************************************)
\* One purchase at a time: the button's handler, the window or its handler.
OneAtATime ==
    /\ isPaymentOpen = TRUE <=> window = TRUE \/ told # None
    /\ window = TRUE => told = None
    /\ click # "idle" => isPaymentOpen = FALSE
    /\ click # "idle" \/ isPaymentOpen = TRUE => screen = "form"

\* What the handler and the screen are about was paid.
ToldIsPaid ==
    /\ told # None => placed[order].state \in {"paid", "confirmed"}
    /\ screen \in {"confirmed", "received"} => order # None

\* The server's cart has no row of an order.
CartIsApart == \A n \in 1..count : placed[n].rows \cap serverCart = {}

\* The inductive invariant.
PageInv ==
    /\ F!TypeOK
    /\ OneAtATime
    /\ ToldIsPaid
    /\ CartIsApart
    /\ NothingOrderedTwice
    /\ ScreenIsTrue

\* The numbers of the orders that were created are numbers of orders.
LEMMA Numbered ==
    ASSUME F!TypeOK
    PROVE  /\ \A n \in 1..count : n \in F!Numbers
           /\ count < MaxOrders => /\ count + 1 \in F!Numbers /\ count + 1 \in 0..MaxOrders
                                   /\ count + 1 \notin 1..count
                                   /\ \A n : n \in 1..(count + 1) <=> n \in 1..count \/ n = count + 1
BY ShopConstants DEF F!TypeOK, F!Numbers, F!StorefrontConstants

\* The invariant holds at the start.
LEMMA PageInit == F!Init => PageInv
<1>. SUFFICES ASSUME F!Init PROVE PageInv
  OBVIOUS
<1>1. count = 0 /\ count \in 0..MaxOrders /\ 1..count = {}
  BY ShopConstants DEF F!Init, F!StorefrontConstants
<1>2. op \in [Calls -> F!OpStates]
  BY DEF F!Init, F!OpStates
<1>3. placed \in [F!Numbers -> [rows : SUBSET MenuItems, state : {"unpaid", "paid", "confirmed"}]]
  BY DEF F!Init
<1>4. F!TypeOK
  BY <1>1, <1>2, <1>3 DEF F!Init, F!TypeOK
<1>5. OneAtATime /\ ToldIsPaid
  BY DEF F!Init, OneAtATime, ToldIsPaid
<1>6. CartIsApart /\ NothingOrderedTwice /\ ScreenIsTrue
  BY <1>1 DEF F!Init, CartIsApart, NothingOrderedTwice, F!NothingOrderedTwice, ScreenIsTrue, F!ScreenIsTrue
<1>. QED BY <1>4, <1>5, <1>6 DEF PageInv

\* A call of the cart that moves on keeps the invariant, if the server's cart
\* stays apart from the orders.
LEMMA CartQuiet ==
    ASSUME PageInv, UNCHANGED <<placed, count, click, order, isPaymentOpen, window, told, screen>>,
           view' \subseteq MenuItems, op' \in [Calls -> F!OpStates],
           serverCart' \subseteq MenuItems, CartIsApart'
    PROVE  PageInv'
<1>1. F!TypeOK'
  BY DEF PageInv, F!TypeOK
<1>2. OneAtATime' /\ ToldIsPaid'
  BY DEF PageInv, OneAtATime, ToldIsPaid
<1>3. NothingOrderedTwice' /\ ScreenIsTrue'
  BY DEF PageInv, NothingOrderedTwice, F!NothingOrderedTwice, ScreenIsTrue, F!ScreenIsTrue
<1>. QED BY <1>1, <1>2, <1>3 DEF PageInv

\* What OpGoes does to the calls.
LEMMA OpGoesType ==
    ASSUME op \in [Calls -> F!OpStates], NEW o \in Calls, NEW pc, F!OpGoes(o, pc),
           \/ op[o].pc = "new" /\ pc \in {"clear", "read"}
           \/ op[o].pc = "write" /\ pc \in {"read", "failed"}
           \/ op[o].pc \in {"clear", "read"} /\ pc = "failed"
    PROVE  op' \in [Calls -> F!OpStates]
<1>1. PICK q : q = [op[o] EXCEPT !.pc = pc]
  OBVIOUS
<1>2. op[o] \in F!OpStates
  OBVIOUS
<1>3. CASE op[o] \in [pc : {"new", "clear", "read", "done", "failed"}]
  <2>1. q \in [pc : {"new", "clear", "read", "done", "failed"}]
    BY <1>1, <1>3
  <2>. QED BY <1>1, <2>1 DEF F!OpGoes, F!OpStates
<1>4. CASE op[o] \in [pc : {"write", "read", "failed"}, add : SUBSET MenuItems, drop : SUBSET MenuItems]
  <2>1. q \in [pc : {"write", "read", "failed"}, add : SUBSET MenuItems, drop : SUBSET MenuItems]
    BY <1>1, <1>4
  <2>. QED BY <1>1, <2>1 DEF F!OpGoes, F!OpStates
<1>5. CASE op[o] \in [pc : {"arrive"}, cart : SUBSET MenuItems]
  BY <1>5
<1>. QED BY <1>2, <1>3, <1>4, <1>5 DEF F!OpStates

\* The calls of CartContext keep the invariant.
LEMMA PageCalls ==
    ASSUME PageInv, NEW o \in Calls, F!StartOp(o) \/ F!CartCall(o)
    PROVE  PageInv'
<1>1. /\ op \in [Calls -> F!OpStates] /\ serverCart \subseteq MenuItems /\ view \subseteq MenuItems
      /\ CartIsApart
  BY DEF PageInv, F!TypeOK
<1>2. UNCHANGED <<placed, count, click, order, isPaymentOpen, window, told, screen>>
  BY DEF F!StartOp, F!CartCall, F!WriteOp, F!ClearOp, F!ReadOp, F!ArriveOp, F!shop, F!checkoutPage
<1>3. CASE F!StartOp(o)
  <2>1. UNCHANGED <<serverCart, view>>
    BY <1>3 DEF F!StartOp, F!shop
  <2>2. CASE \E x \in MenuItems : op' = [op EXCEPT ![o] = [pc |-> "write", add |-> {x}, drop |-> {}]]
    <3>1. PICK x \in MenuItems : op' = [op EXCEPT ![o] = [pc |-> "write", add |-> {x}, drop |-> {}]]
      BY <2>2
    <3>2. [pc |-> "write", add |-> {x}, drop |-> {}] \in F!OpStates
      BY DEF F!OpStates
    <3>. QED BY <1>1, <1>2, <2>1, <3>1, <3>2, CartQuiet DEF CartIsApart
  <2>3. CASE \E x \in view : op' = [op EXCEPT ![o] = [pc |-> "write", add |-> {}, drop |-> {x}]]
    <3>1. PICK x \in view : op' = [op EXCEPT ![o] = [pc |-> "write", add |-> {}, drop |-> {x}]]
      BY <2>3
    <3>2. [pc |-> "write", add |-> {}, drop |-> {x}] \in F!OpStates
      BY <1>1 DEF F!OpStates
    <3>. QED BY <1>1, <1>2, <2>1, <3>1, <3>2, CartQuiet DEF CartIsApart
  <2>4. CASE F!OpGoes(o, "clear") \/ F!OpGoes(o, "read")
    <3>1. op' \in [Calls -> F!OpStates]
      BY <1>1, <1>3, <2>4, OpGoesType DEF F!StartOp, F!OpAt
    <3>. QED BY <1>1, <1>2, <2>1, <3>1, CartQuiet DEF CartIsApart
  <2>. QED BY <1>3, <2>2, <2>3, <2>4 DEF F!StartOp
<1>4. CASE F!WriteOp(o)
  <2>1. op[o].pc = "write" /\ (F!OpGoes(o, "read") \/ F!OpGoes(o, "failed")) /\ UNCHANGED view
    BY <1>4 DEF F!WriteOp, F!OpAt
  <2>2. op' \in [Calls -> F!OpStates]
    BY <1>1, <2>1, OpGoesType
  <2>3. op[o].add \subseteq MenuItems
    BY <1>1, <2>1 DEF F!OpStates
  <2>4. CASE UNCHANGED serverCart
    BY <1>1, <1>2, <2>1, <2>2, <2>4, CartQuiet DEF CartIsApart
  <2>5. CASE serverCart' = (serverCart \cup (op[o].add \ F!Ordered)) \ op[o].drop
    <3>1. serverCart' \subseteq MenuItems
      BY <1>1, <2>3, <2>5
    <3>2. CartIsApart'
      BY <1>1, <1>2, <2>5 DEF CartIsApart, F!Ordered
    <3>. QED BY <1>1, <1>2, <2>1, <2>2, <3>1, <3>2, CartQuiet
  <2>. QED BY <1>4, <2>4, <2>5 DEF F!WriteOp
<1>5. CASE F!ClearOp(o)
  <2>1. op[o].pc = "clear" /\ UNCHANGED view
    BY <1>5 DEF F!ClearOp, F!OpAt
  <2>2. op' \in [Calls -> F!OpStates]
    <3>1. CASE op' = [op EXCEPT ![o] = [pc |-> "arrive", cart |-> {}]]
      <4>1. [pc |-> "arrive", cart |-> {}] \in F!OpStates
        BY DEF F!OpStates
      <4>. QED BY <1>1, <3>1, <4>1
    <3>2. CASE F!OpGoes(o, "failed")
      BY <1>1, <2>1, <3>2, OpGoesType
    <3>. QED BY <1>5, <3>1, <3>2 DEF F!ClearOp
  <2>3. CASE serverCart' = {}
    BY <1>1, <1>2, <2>1, <2>2, <2>3, CartQuiet DEF CartIsApart
  <2>4. CASE UNCHANGED serverCart
    BY <1>1, <1>2, <2>1, <2>2, <2>4, CartQuiet DEF CartIsApart
  <2>. QED BY <1>5, <2>3, <2>4 DEF F!ClearOp
<1>6. CASE F!ReadOp(o)
  <2>1. UNCHANGED <<serverCart, view>>
    BY <1>6 DEF F!ReadOp, F!shop
  <2>2. CASE op' = [op EXCEPT ![o] = [pc |-> "arrive", cart |-> serverCart]]
    <3>1. [pc |-> "arrive", cart |-> serverCart] \in F!OpStates
      BY <1>1 DEF F!OpStates
    <3>. QED BY <1>1, <1>2, <2>1, <2>2, <3>1, CartQuiet DEF CartIsApart
  <2>3. CASE F!OpGoes(o, "failed")
    <3>1. op' \in [Calls -> F!OpStates]
      BY <1>1, <1>6, <2>3, OpGoesType DEF F!ReadOp, F!OpAt
    <3>. QED BY <1>1, <1>2, <2>1, <3>1, CartQuiet DEF CartIsApart
  <2>. QED BY <1>6, <2>2, <2>3 DEF F!ReadOp
<1>7. CASE F!ArriveOp(o)
  <2>1. UNCHANGED serverCart /\ view' = op[o].cart /\ op' = [op EXCEPT ![o] = [pc |-> "done"]]
    BY <1>7 DEF F!ArriveOp, F!shop
  <2>2. op[o].cart \subseteq MenuItems
    BY <1>1, <1>7 DEF F!ArriveOp, F!OpAt, F!OpStates
  <2>3. [pc |-> "done"] \in F!OpStates
    BY DEF F!OpStates
  <2>. QED BY <1>1, <1>2, <2>1, <2>2, <2>3, CartQuiet DEF CartIsApart
<1>. QED BY <1>3, <1>4, <1>5, <1>6, <1>7 DEF F!CartCall

\* A step of the page or of the window that creates no order keeps the
\* invariant, if it keeps what is said of the page and only brings payments on.
LEMMA PageQuiet ==
    ASSUME PageInv, UNCHANGED <<serverCart, count, op>>, view' \in {view, {}},
           placed' \in [F!Numbers -> [rows : SUBSET MenuItems, state : {"unpaid", "paid", "confirmed"}]],
           \A n \in F!Numbers : placed'[n].rows = placed[n].rows,
           click' \in {"idle", "createOrder", "createPayment"},
           isPaymentOpen' \in BOOLEAN, window' \in BOOLEAN, told' \in F!ToldSteps \cup {None},
           screen' \in {"form", "confirmed", "received", "pending"}, UNCHANGED order,
           window' \/ told' # None \/ click' = "createPayment" => order # None,
           OneAtATime', ToldIsPaid', ScreenIsTrue'
    PROVE  PageInv'
<1>1. F!TypeOK'
  BY DEF PageInv, F!TypeOK
<1>2. \A n \in 1..count : placed'[n].rows = placed[n].rows
  BY Numbered DEF PageInv
<1>3. CartIsApart' /\ NothingOrderedTwice'
  BY <1>2 DEF PageInv, CartIsApart, NothingOrderedTwice, F!NothingOrderedTwice
<1>. QED BY <1>1, <1>3 DEF PageInv

\* What Becomes does to the orders.
LEMMA BecomesType ==
    ASSUME F!TypeOK, NEW n \in F!Numbers, NEW s \in {"unpaid", "paid", "confirmed"}, F!Becomes(n, s)
    PROVE  /\ placed' \in [F!Numbers -> [rows : SUBSET MenuItems, state : {"unpaid", "paid", "confirmed"}]]
           /\ \A m \in F!Numbers : placed'[m].rows = placed[m].rows
           /\ placed'[n].state = s
           /\ \A m \in F!Numbers : m # n => placed'[m] = placed[m]
<1>1. PICK o : o = [placed[n] EXCEPT !.state = s]
  OBVIOUS
<1>2. placed \in [F!Numbers -> [rows : SUBSET MenuItems, state : {"unpaid", "paid", "confirmed"}]]
  BY DEF F!TypeOK
<1>3. o \in [rows : SUBSET MenuItems, state : {"unpaid", "paid", "confirmed"}]
      /\ o.rows = placed[n].rows /\ o.state = s
  BY <1>1, <1>2
<1>4. placed' = [placed EXCEPT ![n] = o]
  BY <1>1 DEF F!Becomes
<1>. QED BY <1>2, <1>3, <1>4

\* The button keeps the invariant: nothing is in hand when it is pressed.
LEMMA PagePlaceOrder ==
    ASSUME PageInv, F!PlaceOrder
    PROVE  PageInv'
<1>1. UNCHANGED <<serverCart, placed, count, view, op, order, isPaymentOpen, window, told, screen>>
      /\ click' = "createOrder" /\ screen = "form" /\ ~isPaymentOpen
  BY DEF F!PlaceOrder, F!CanOrder, F!shop, F!cartPage
<1>2. OneAtATime' /\ ToldIsPaid' /\ ScreenIsTrue'
  BY <1>1 DEF PageInv, F!TypeOK, OneAtATime, ToldIsPaid, ScreenIsTrue, F!ScreenIsTrue
<1>. QED BY <1>1, <1>2, PageQuiet DEF PageInv, F!TypeOK

\* CreateOrder keeps the invariant: the new order takes the whole cart.
LEMMA PageCreateOrder ==
    ASSUME PageInv, F!CreateOrder
    PROVE  PageInv'
<1>1. UNCHANGED <<view, op, isPaymentOpen, window, told, screen>> /\ click = "createOrder"
  BY DEF F!CreateOrder, F!cartPage
<1>2. /\ F!TypeOK /\ screen = "form" /\ isPaymentOpen = FALSE /\ window = FALSE /\ told = None
  BY <1>1 DEF PageInv, F!TypeOK, OneAtATime
<1>3. CASE click' = "idle" /\ UNCHANGED <<serverCart, placed, count, order>>
  <2>1. OneAtATime' /\ ToldIsPaid' /\ ScreenIsTrue'
    BY <1>1, <1>2, <1>3 DEF OneAtATime, ToldIsPaid, ScreenIsTrue, F!ScreenIsTrue
  <2>. QED BY <1>1, <1>2, <1>3, <2>1, PageQuiet DEF F!TypeOK
<1>4. CASE /\ count < MaxOrders /\ F!OrderFrom(serverCart)
           /\ \/ click' = "createPayment" /\ order' = count + 1
              \/ click' = "idle" /\ UNCHANGED order
  <2>1. PICK o : o = [rows |-> serverCart, state |-> "unpaid"]
    OBVIOUS
  <2>2. placed' = [placed EXCEPT ![count + 1] = o] /\ count' = count + 1 /\ serverCart' = {}
    BY <1>4, <2>1 DEF F!OrderFrom
  <2>3. o \in [rows : SUBSET MenuItems, state : {"unpaid", "paid", "confirmed"}] /\ o.rows = serverCart
    BY <1>2, <2>1 DEF F!TypeOK
  <2>4. /\ count' \in F!Numbers /\ count' \in 0..MaxOrders /\ count' \notin 1..count
        /\ \A n : n \in 1..count' <=> n \in 1..count \/ n = count'
        /\ \A n \in 1..count : n \in F!Numbers
    BY <1>2, <1>4, <2>2, Numbered
  <2>5. placed \in [F!Numbers -> [rows : SUBSET MenuItems, state : {"unpaid", "paid", "confirmed"}]]
    BY <1>2 DEF F!TypeOK
  <2>6. placed' \in [F!Numbers -> [rows : SUBSET MenuItems, state : {"unpaid", "paid", "confirmed"}]]
    BY <2>2, <2>3, <2>5
  <2>7. placed'[count'].rows = serverCart /\ \A n \in 1..count : placed'[n].rows = placed[n].rows
    BY <2>2, <2>3, <2>4, <2>5
  <2>8. click' \in {"idle", "createPayment"} /\ order' \in F!Numbers \cup {None}
        /\ (click' = "createPayment" => order' # None)
    <3>1. None \notin F!Numbers
      BY ShopConstants DEF F!StorefrontConstants, F!Numbers
    <3>. QED BY <1>2, <1>4, <2>2, <2>4, <3>1 DEF F!TypeOK
  <2>9. F!TypeOK'
    BY <1>1, <1>2, <2>2, <2>4, <2>6, <2>8 DEF F!TypeOK
  <2>10. OneAtATime' /\ ToldIsPaid' /\ ScreenIsTrue'
    BY <1>1, <1>2 DEF OneAtATime, ToldIsPaid, ScreenIsTrue, F!ScreenIsTrue
  <2>11. CartIsApart'
    BY <2>2 DEF CartIsApart
  <2>12. \A n \in 1..count : placed[n].rows \cap serverCart = {}
    BY DEF PageInv, CartIsApart
  <2>13. \A m, n \in 1..count' : m # n => placed'[m].rows \cap placed'[n].rows = {}
    BY <2>4, <2>7, <2>12 DEF PageInv, NothingOrderedTwice, F!NothingOrderedTwice
  <2>14. NothingOrderedTwice'
    BY <2>13 DEF NothingOrderedTwice, F!NothingOrderedTwice
  <2>. QED BY <2>9, <2>10, <2>11, <2>14 DEF PageInv
<1>. QED BY <1>3, <1>4 DEF F!CreateOrder, F!shop

\* CreatePaymentOrder keeps the invariant: the window is about the new order.
LEMMA PageCreatePaymentOrder ==
    ASSUME PageInv, F!CreatePaymentOrder
    PROVE  PageInv'
<1>1. /\ UNCHANGED <<serverCart, placed, count, view, op, order, told, screen>>
      /\ click = "createPayment" /\ click' = "idle"
      /\ \/ isPaymentOpen' = TRUE /\ window' = TRUE
         \/ UNCHANGED <<isPaymentOpen, window>>
  BY DEF F!CreatePaymentOrder, F!shop, F!cartPage
<1>2. /\ F!TypeOK /\ screen = "form" /\ isPaymentOpen = FALSE /\ window = FALSE /\ told = None
      /\ order # None
  BY <1>1 DEF PageInv, F!TypeOK, OneAtATime
<1>3. OneAtATime'
  BY <1>1, <1>2 DEF OneAtATime
<1>4. ToldIsPaid' /\ ScreenIsTrue'
  BY <1>1, <1>2 DEF ToldIsPaid, ScreenIsTrue, F!ScreenIsTrue
<1>. QED BY <1>1, <1>2, <1>3, <1>4, PageQuiet DEF F!TypeOK

\* A payment keeps the invariant: its handler finds the order paid.
LEMMA PagePay ==
    ASSUME PageInv, F!Pay
    PROVE  PageInv'
<1>1. /\ UNCHANGED <<serverCart, count, view, op, click, order, isPaymentOpen, screen>>
      /\ F!Becomes(order, "paid") /\ window' = FALSE /\ told' = "verify" /\ window = TRUE
  BY DEF F!Pay, F!cartPage, PageInv, F!TypeOK
<1>2. F!TypeOK /\ order # None /\ order \in F!Numbers /\ isPaymentOpen = TRUE /\ screen = "form"
      /\ click = "idle"
  BY <1>1 DEF PageInv, F!TypeOK, OneAtATime
<1>3. /\ placed' \in [F!Numbers -> [rows : SUBSET MenuItems, state : {"unpaid", "paid", "confirmed"}]]
      /\ \A m \in F!Numbers : placed'[m].rows = placed[m].rows
      /\ placed'[order].state = "paid"
  BY <1>1, <1>2, BecomesType
<1>6. "verify" \in F!ToldSteps /\ "verify" # None
  BY ShopConstants DEF F!StorefrontConstants, F!ToldSteps
<1>4. OneAtATime'
  BY <1>1, <1>2, <1>6 DEF OneAtATime
<1>5. ToldIsPaid' /\ ScreenIsTrue'
  BY <1>1, <1>2, <1>3 DEF ToldIsPaid, ScreenIsTrue, F!ScreenIsTrue
<1>. QED BY <1>1, <1>2, <1>3, <1>4, <1>5, <1>6, PageQuiet DEF F!TypeOK

\* A window that is dismissed keeps the invariant.
LEMMA PageDismiss ==
    ASSUME PageInv, F!Dismiss
    PROVE  PageInv'
<1>1. /\ UNCHANGED <<serverCart, count, view, op, click, order, told, screen>>
      /\ window = TRUE /\ window' = FALSE /\ isPaymentOpen' = FALSE
      /\ F!Becomes(order, "paid") \/ UNCHANGED placed
  BY DEF F!Dismiss, F!cartPage, PageInv, F!TypeOK
<1>2. F!TypeOK /\ order # None /\ order \in F!Numbers /\ isPaymentOpen = TRUE /\ screen = "form"
      /\ click = "idle" /\ told = None
  BY <1>1 DEF PageInv, F!TypeOK, OneAtATime
<1>3. /\ placed' \in [F!Numbers -> [rows : SUBSET MenuItems, state : {"unpaid", "paid", "confirmed"}]]
      /\ \A m \in F!Numbers : placed'[m].rows = placed[m].rows
  BY <1>1, <1>2, BecomesType DEF F!TypeOK
<1>4. OneAtATime' /\ ToldIsPaid' /\ ScreenIsTrue'
  BY <1>1, <1>2 DEF OneAtATime, ToldIsPaid, ScreenIsTrue, F!ScreenIsTrue
<1>. QED BY <1>1, <1>2, <1>3, <1>4, PageQuiet DEF F!TypeOK

\* An order that is confirmed keeps the invariant.
LEMMA PageConfirm ==
    ASSUME PageInv, NEW n \in F!Numbers, F!Confirm(n)
    PROVE  PageInv'
<1>1. /\ UNCHANGED <<serverCart, count, view, op, click, order, isPaymentOpen, window, told, screen>>
      /\ F!Becomes(n, "confirmed")
  BY DEF F!Confirm, F!cartPage, F!checkoutPage
<1>2. F!TypeOK /\ OneAtATime /\ ToldIsPaid /\ ScreenIsTrue
  BY DEF PageInv
<1>3. /\ placed' \in [F!Numbers -> [rows : SUBSET MenuItems, state : {"unpaid", "paid", "confirmed"}]]
      /\ \A m \in F!Numbers : placed'[m].rows = placed[m].rows
      /\ placed'[n].state = "confirmed"
      /\ \A m \in F!Numbers : m # n => placed'[m] = placed[m]
  BY <1>1, <1>2, BecomesType
<1>4. OneAtATime'
  BY <1>1, <1>2 DEF OneAtATime
<1>5. told # None \/ screen \in {"confirmed", "received"} => order \in F!Numbers
  BY <1>2 DEF F!TypeOK, ToldIsPaid
<1>6. ToldIsPaid' /\ ScreenIsTrue'
  BY <1>1, <1>2, <1>3, <1>5 DEF ToldIsPaid, ScreenIsTrue, F!ScreenIsTrue
<1>. QED BY <1>1, <1>2, <1>3, <1>4, <1>6, PageQuiet DEF F!TypeOK

\* A handler that gives up keeps the invariant.
LEMMA PageCannotConfirm ==
    ASSUME PageInv, F!CannotConfirm, told # None,
           UNCHANGED <<serverCart, placed, count, view, op, click, order, window>>
    PROVE  PageInv'
<1>1. told' = None /\ isPaymentOpen' = FALSE /\ screen' = "pending"
  BY DEF F!CannotConfirm
<1>2. F!TypeOK /\ window = FALSE /\ click = "idle"
  BY DEF PageInv, F!TypeOK, OneAtATime
<1>3. OneAtATime' /\ ToldIsPaid' /\ ScreenIsTrue'
  BY <1>1, <1>2 DEF OneAtATime, ToldIsPaid, ScreenIsTrue, F!ScreenIsTrue
<1>. QED BY <1>1, <1>2, <1>3, PageQuiet DEF F!TypeOK

\* The payment's handler keeps the invariant: what it shows is what it read.
LEMMA PageHandler ==
    ASSUME PageInv, F!VerifyPayment \/ F!GetOrder
    PROVE  PageInv'
<1>1. told # None /\ UNCHANGED <<serverCart, placed, count, op, click, order, window>>
  <2>1. None \notin {"verify", "getOrder"}
    BY ShopConstants DEF F!StorefrontConstants, F!ToldSteps
  <2>. QED BY <2>1 DEF F!VerifyPayment, F!GetOrder, F!shop, F!cartPage
<1>2. F!TypeOK /\ window = FALSE /\ click = "idle" /\ isPaymentOpen = TRUE /\ screen = "form"
      /\ order # None /\ order \in F!Numbers /\ placed[order].state \in {"paid", "confirmed"}
  BY <1>1 DEF PageInv, F!TypeOK, OneAtATime, ToldIsPaid
<1>3. CASE F!CannotConfirm
  <2>1. UNCHANGED view
    BY <1>2, <1>3 DEF F!VerifyPayment, F!GetOrder, F!CannotConfirm, F!cartPage
  <2>. QED BY <1>1, <1>3, <2>1, PageCannotConfirm
<1>4. CASE told' = "getOrder" /\ view' = {} /\ UNCHANGED <<isPaymentOpen, screen>>
  <2>1. told' \in F!ToldSteps /\ told' # None
    BY <1>4, ShopConstants DEF F!StorefrontConstants, F!ToldSteps
  <2>2. OneAtATime' /\ ToldIsPaid' /\ ScreenIsTrue'
    BY <1>1, <1>2, <1>4, <2>1 DEF OneAtATime, ToldIsPaid, ScreenIsTrue, F!ScreenIsTrue
  <2>. QED BY <1>1, <1>2, <1>4, <2>1, <2>2, PageQuiet DEF F!TypeOK
<1>5. CASE told' = None /\ isPaymentOpen' = FALSE /\ screen' = F!Outcome(placed[order].state)
           /\ UNCHANGED view
  <2>1. OneAtATime' /\ ToldIsPaid' /\ ScreenIsTrue'
    BY <1>1, <1>2, <1>5 DEF OneAtATime, ToldIsPaid, ScreenIsTrue, F!ScreenIsTrue, F!Outcome
  <2>2. screen' \in {"confirmed", "received"}
    BY <1>5 DEF F!Outcome
  <2>. QED BY <1>1, <1>2, <1>5, <2>1, <2>2, PageQuiet DEF F!TypeOK
<1>. QED BY <1>3, <1>4, <1>5 DEF F!VerifyPayment, F!GetOrder, F!cartPage

\* Every step of Storefront keeps the invariant.
LEMMA PageNext == PageInv /\ [F!Next]_F!vars => PageInv'
<1>. SUFFICES ASSUME PageInv, [F!Next]_F!vars PROVE PageInv'
  OBVIOUS
<1>1. CASE UNCHANGED F!vars
  <2>1. UNCHANGED <<serverCart, placed, count, view, op, click, order, isPaymentOpen, window, told, screen>>
    BY <1>1 DEF F!vars
  <2>. QED BY <2>1, CartQuiet DEF PageInv, F!TypeOK, CartIsApart
<1>2. CASE F!Next
  BY <1>2, PageCalls, PagePlaceOrder, PageCreateOrder, PageCreatePaymentOrder, PagePay, PageDismiss,
     PageConfirm, PageHandler DEF F!Next, F!Handlers
<1>. QED BY <1>1, <1>2

-----------------------------------------------------------------------------
(***************************************************************************)
(* The three side by side: each step is a step of each part, or none.      *)
(***************************************************************************)
shopVars == <<part, vars, menuVars, pageVars>>

\* A step of MCShop is a step, or none, of each part.
LEMMA ShopSteps ==
    ASSUME [ShopNext]_shopVars
    PROVE  [Next]_vars /\ [M!Next]_M!vars /\ [F!Next]_F!vars /\ part' = part
<1>1. UNCHANGED menuVars => UNCHANGED M!vars
  BY DEF M!vars, menuVars
<1>2. UNCHANGED pageVars => UNCHANGED F!vars
  BY DEF F!vars, pageVars
<1>. QED BY <1>1, <1>2 DEF ShopNext, shopVars

PartOK == part \in {"menu", "checkout", "page"}

ShopInv == PartOK /\ TypeOK /\ CheckoutInv /\ MenuInv /\ PageInv

\* The invariants of the parts hold in every reachable state.
THEOREM ShopInvariance == ShopSpec => []ShopInv
<1>1. ShopInit => ShopInv
  BY CheckoutInit, MenuInit, PageInit DEF ShopInit, ShopInv, PartOK
<1>2. ShopInv /\ [ShopNext]_shopVars => ShopInv'
  <2>. SUFFICES ASSUME ShopInv, [ShopNext]_shopVars PROVE ShopInv'
    OBVIOUS
  <2>1. [Next]_vars /\ [M!Next]_M!vars /\ [F!Next]_F!vars /\ part' = part
    BY ShopSteps
  <2>2. (TypeOK /\ CheckoutInv)'
    BY <2>1, CheckoutTypeNext, CheckoutInvNext DEF ShopInv
  <2>3. MenuInv' /\ PageInv'
    BY <2>1, MenuNext, PageNext DEF ShopInv
  <2>. QED BY <2>1, <2>2, <2>3 DEF ShopInv, PartOK
<1>. QED BY <1>1, <1>2, PTL DEF ShopSpec, shopVars

\* Every variable of the menu, the checkout and the page has its type.
THEOREM ShopTypeCorrect == ShopSpec => []TypesAreOK
<1>1. ShopInv => TypesAreOK
  BY DEF ShopInv, PartOK, TypesAreOK, MenuInv, PageInv
<1>. QED BY <1>1, ShopInvariance, PTL

\* Whatever requests of administrators overlap, no two categories and no two
\* items of a category have a name, and no row refers to one that was deleted.
THEOREM MenuStaysConsistent == ShopSpec => []MenuIsConsistent
<1>1. ShopInv => MenuIsConsistent
  BY DEF ShopInv, MenuInv, MenuIsConsistent
<1>. QED BY <1>1, ShopInvariance, PTL

\* However often the button is pressed and whatever answer is lost, no cart row
\* is in two orders.
THEOREM PageOrdersOnce == ShopSpec => []NothingOrderedTwice
<1>1. ShopInv => NothingOrderedTwice
  BY DEF ShopInv, PageInv
<1>. QED BY <1>1, ShopInvariance, PTL

\* The page only says that an order is confirmed, or its payment received, when
\* it is.
THEOREM PageTellsTheTruth == ShopSpec => []ScreenIsTrue
<1>1. ShopInv => ScreenIsTrue
  BY DEF ShopInv, PageInv
<1>. QED BY <1>1, ShopInvariance, PTL
=============================================================================
