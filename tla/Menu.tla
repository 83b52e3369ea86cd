-------------------------------- MODULE Menu --------------------------------
(***************************************************************************)
(* The menu: the six requests of an administrator that change it, one      *)
(* action for each statement of menu.service.ts.  There is no transaction  *)
(* around them: the service checks first and writes then, and what another *)
(* request does in between is for the database's constraints.              *)
(*                                                                         *)
(* A row is what identifies it: the name of a category, the category and   *)
(* the name of an item.                                                    *)
(*                                                                         *)
(* A definition Name_Variant is Name with a plausible mistake in it.  No   *)
(* specification uses it; it is there to show that the properties notice.  *)
(***************************************************************************)
CONSTANTS
    Categories, Items,   \* bound: ids ever given out
    Names,
    Requests,
    None

Ids == Categories \cup Items

CategoryRows == [category : {None}, name : Names]
ItemRows == [category : Categories, name : Names]
Rows == CategoryRows \cup ItemRows

\* What the constants must satisfy.
MenuConstants ==
    /\ Categories \cap Items = {}
    /\ None \notin Ids \cup Names \cup Rows

VARIABLES
    row,       \* the row of each id, or None
    used,      \* the ids that were given out
    ordered,   \* the items a cart or an order has
    request    \* what each request is doing

vars == <<row, used, ordered, request>>

Exists(id) == row[id] # None

(***************************************************************************)
(* The constraints of the schema.                                          *)
(***************************************************************************)
\* Another row than id's has the name that r has, in its category.
Taken(id, r) == \E x \in Ids \ {id} : row[x] = r

\* The items do not hold their category.
Referenced_ByCarts(id) == id \in ordered
\* A row, a cart or an order refers to id.
Referenced(id) ==
    \/ id \in ordered
    \/ \E x \in Items : Exists(x) /\ row[x].category = id

(***************************************************************************)
(* A request: its input, the row it found, and the step it is at or its    *)
(* answer.  None stands for a field that is not given.                     *)
(***************************************************************************)
Asks(kind, id, category, name, pc) ==
    [kind |-> kind, id |-> id, category |-> category, name |-> name, found |-> None, pc |-> pc]

NoRequest == Asks("none", None, None, None, "new")
Answers == {"ok", "conflict", "notFound", "error"}

RequestRecords ==
    [kind     : {"none", "createCategory", "updateCategory", "deleteCategory",
                 "createItem", "updateItem", "deleteItem"},
     id       : Ids \cup {None},
     category : Categories \cup {None},
     name     : Names \cup {None},
     found    : Rows \cup {None},
     pc       : {"new", "find", "category", "name", "count", "write"} \cup Answers]

At(r, pc) == request[r].pc = pc
Goes(r, pc) == request' = [request EXCEPT ![r].pc = pc]

Begin(r) ==
    /\ At(r, "new")
    /\ \E n \in Names, c \in Categories, i \in Items,
          givenName \in Names \cup {None}, givenCategory \in Categories \cup {None} :
         \E asked \in {Asks("createCategory", None, None, n, "name"),
                       Asks("updateCategory", c, None, givenName, "find"),
                       Asks("deleteCategory", c, None, None, "find"),
                       Asks("createItem", None, c, n, "category"),
                       Asks("updateItem", i, givenCategory, givenName, "find"),
                       Asks("deleteItem", i, None, None, "find")} :
           request' = [request EXCEPT ![r] = asked]
    /\ UNCHANGED <<row, used, ordered>>

\* The row a request makes of a former one.
With(q, old) ==
    [category |-> IF q.category = None /\ old # None THEN old.category ELSE q.category,
     name     |-> IF q.name = None /\ old # None THEN old.name ELSE q.name]

\* The name is looked for when the row that was found gets another.
NameStep(q, found) == IF With(q, found) = found THEN "write" ELSE "name"

AfterFind(q, found) ==
    CASE q.kind = "deleteCategory" -> "count"
      [] q.kind = "deleteItem"     -> "write"
      [] q.kind = "updateItem" /\ q.category # None -> "category"
      [] OTHER -> NameStep(q, found)

\* findCategoryById or findMenuItemById.
Find(r) ==
    LET q == request[r]
    IN  /\ At(r, "find")
        /\ IF Exists(q.id)
           THEN request' = [request EXCEPT ![r].found = row[q.id], ![r].pc = AfterFind(q, row[q.id])]
           ELSE Goes(r, "notFound")
        /\ UNCHANGED <<row, used, ordered>>

\* The category an item gets.
FindCategory(r) ==
    LET q == request[r]
    IN  /\ At(r, "category")
        /\ Goes(r, IF Exists(q.category) THEN NameStep(q, q.found) ELSE "notFound")
        /\ UNCHANGED <<row, used, ordered>>

\* findCategoryByName or findMenuItemByName; a menu item may find itself.
FindByName(r) ==
    LET q == request[r]
        itself == IF q.kind = "updateItem" THEN q.id ELSE None
    IN  /\ At(r, "name")
        /\ Goes(r, IF Taken(itself, With(q, q.found)) THEN "conflict" ELSE "write")
        /\ UNCHANGED <<row, used, ordered>>

CountItems(r) ==
    /\ At(r, "count")
    /\ Goes(r, IF \E x \in Items : Exists(x) /\ row[x].category = request[r].id
               THEN "conflict" ELSE "write")
    /\ UNCHANGED <<row, used, ordered>>

(***************************************************************************)
(* The statement that writes; mapPrismaError makes an answer of a          *)
(* constraint, and has none for a foreign key.                             *)
(***************************************************************************)
Put(r, id, new) ==
    IF Taken(id, new) THEN Goes(r, "conflict") /\ UNCHANGED row
    ELSE IF new.category # None /\ ~Exists(new.category) THEN Goes(r, "error") /\ UNCHANGED row
    ELSE Goes(r, "ok") /\ row' = [row EXCEPT ![id] = new]

Insert(r) ==
    LET q == request[r]
    IN  /\ At(r, "write")
        /\ \E id \in (IF q.kind = "createItem" THEN Items ELSE Categories) \ used :
             /\ q.kind \in {"createCategory", "createItem"}
             /\ used' = used \cup {id}
             /\ Put(r, id, With(q, None))
        /\ UNCHANGED ordered

\* Only the fields that are given are written, to the row as it is now.
Update(r) ==
    LET q == request[r]
    IN  /\ At(r, "write")
        /\ q.kind \in {"updateCategory", "updateItem"}
        /\ IF Exists(q.id)
           THEN Put(r, q.id, With(q, row[q.id]))
           ELSE Goes(r, "notFound") /\ UNCHANGED row
        /\ UNCHANGED <<used, ordered>>

Delete(r) ==
    LET q == request[r]
    IN  /\ At(r, "write")
        /\ q.kind \in {"deleteCategory", "deleteItem"}
        /\ \/ ~Exists(q.id) /\ Goes(r, "notFound") /\ UNCHANGED row
           \/ Exists(q.id) /\ Referenced(q.id) /\ Goes(r, "error") /\ UNCHANGED row
           \/ /\ Exists(q.id) /\ ~Referenced(q.id)
              /\ row' = [row EXCEPT ![q.id] = None]
              /\ Goes(r, "ok")
        /\ UNCHANGED <<used, ordered>>

\* A customer puts an item in a cart, or takes the last one out.
Order(i) ==
    /\ \/ Exists(i) /\ ordered' = ordered \cup {i}
       \/ ordered' = ordered \ {i}
    /\ ordered' # ordered
    /\ UNCHANGED <<row, used, request>>

Init ==
    /\ row \in [Ids -> Rows \cup {None}]
    /\ \A c \in Categories : Exists(c) => row[c] \in CategoryRows
    /\ \A i \in Items : Exists(i) => row[i] \in ItemRows /\ Exists(row[i].category)
    /\ \A x, y \in Ids : x # y /\ Exists(x) => row[x] # row[y]
    /\ used = {x \in Ids : Exists(x)}
    /\ ordered = {}
    /\ request = [r \in Requests |-> NoRequest]

Checks(r) == Find(r) \/ FindCategory(r) \/ FindByName(r) \/ CountItems(r)
Writes(r) == Insert(r) \/ Update(r) \/ Delete(r)

Next ==
    \/ \E r \in Requests : Begin(r) \/ Checks(r) \/ Writes(r)
    \/ \E i \in Items : Order(i)

Spec == Init /\ [][Next]_vars

-----------------------------------------------------------------------------
(***************************************************************************)
(* Properties.                                                             *)
(***************************************************************************)
\* A category's row has a name, an item's a category and a name, and the ids of
\* rows were given out.
TypeOK ==
    /\ row \in [Ids -> Rows \cup {None}]
    /\ \A c \in Categories : row[c] \in CategoryRows \cup {None}
    /\ \A i \in Items : row[i] \in ItemRows \cup {None}
    /\ used \subseteq Ids
    /\ \A x \in Ids : Exists(x) => x \in used
    /\ ordered \subseteq Items
    /\ request \in [Requests -> RequestRecords]

\* Two requests may both look for a name before either writes it, or one may
\* change the category and the other the name of two items; still no two
\* categories have a name, and no two items of a category.
NamesAreUnique == \A x, y \in Ids : x # y /\ Exists(x) => row[x] # row[y]

\* An item is created in, or moved to, a category while it is being deleted, and
\* ordered while it is being deleted: what a row refers to is there.
ReferencesExist ==
    /\ \A i \in Items : Exists(i) => Exists(row[i].category)
    /\ \A i \in ordered : Exists(i)
=============================================================================
