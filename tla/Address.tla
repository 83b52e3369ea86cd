------------------------------ MODULE Address ------------------------------
(***************************************************************************)
(* One customer's saved addresses: the four transactions of                *)
(* address.service.ts, one action for each statement, or for each row a    *)
(* statement updates.                                                      *)
(*                                                                         *)
(* They run at READ COMMITTED.  A statement sees what had been committed   *)
(* when it began, and the writes of its own transaction.  A row that a     *)
(* transaction has written is locked until it ends; an UPDATE that comes   *)
(* to a locked row waits, and then looks at the row as it has become.  It  *)
(* does not look for rows that have come to match meanwhile.               *)
(*                                                                         *)
(* A definition Name_Variant is Name with a plausible mistake in it.  No   *)
(* specification uses it; it is there to show that the properties notice.  *)
(***************************************************************************)
EXTENDS Naturals

CONSTANTS
    Requests,
    Ids,       \* bound: ids of addresses ever created
    None

\* What the constants must satisfy.
AddressConstants == None \notin Ids \cup Requests \cup BOOLEAN

VARIABLES
    rows,     \* the committed rows: isDefault of each id that exists
    used,     \* ids given out
    tx,       \* what each request is doing
    writes,   \* the uncommitted writes of each request: isDefault, or None for a deletion
    unset,     \* history: a request asked for an address not to be the default
    overlapped \* history: two requests ran at the same time

history == <<unset, overlapped>>
vars == <<rows, used, tx, writes, history>>

Empty == [id \in {} |-> FALSE]
Defaults(table) == {id \in DOMAIN table : table[id]}

\* What a statement of t sees.
Overlay(table, w) ==
    LET gone == {id \in DOMAIN w : w[id] = None}
    IN  [id \in (DOMAIN table \cup DOMAIN w) \ gone |-> IF id \in DOMAIN w THEN w[id] ELSE table[id]]
Visible(t) == Overlay(rows, writes[t])

Locked(t, id) == \E u \in Requests \ {t} : id \in DOMAIN writes[u]

At(t, pc) == tx[t].pc = pc
Goes(t, pc) == tx' = [tx EXCEPT ![t].pc = pc]
Write(t, id, value) ==
    writes' = [writes EXCEPT ![t] = [x \in DOMAIN @ \cup {id} |-> IF x = id THEN value ELSE @[x]]]

(***************************************************************************)
(* Requests.                                                               *)
(***************************************************************************)
Asks(op, id, wanted, pc) ==
    [op |-> op, id |-> id, wanted |-> wanted, pc |-> pc, targets |-> {}, wasDefault |-> FALSE]

Transactions ==
    [op : {"none", "create", "update", "remove", "setDefault"},
     id : Ids \cup {None}, wanted : {"yes", "no", "same"},
     pc : {"new", "find", "clear", "clearing", "insert", "set", "delete", "successor", "commit",
           "done", "failed"},
     targets : SUBSET Ids, wasDefault : BOOLEAN]

\* wanted is the isDefault of the request; "same" is an update without one.
Begin(t) ==
    /\ At(t, "new")
    /\ overlapped' = (overlapped \/ \E u \in Requests : tx[u].pc \notin {"new", "done", "failed"})
    /\ \/ \E id \in Ids \ used, wanted \in {"yes", "no"} :
            /\ used' = used \cup {id}
            /\ tx' = [tx EXCEPT ![t] =
                 Asks("create", id, wanted, IF wanted = "yes" THEN "clear" ELSE "insert")]
            /\ UNCHANGED unset
       \/ \E id \in DOMAIN rows, wanted \in {"yes", "no", "same"} :
            /\ tx' = [tx EXCEPT ![t] = Asks("update", id, wanted, "find")]
            /\ unset' = (unset \/ wanted = "no")
            /\ UNCHANGED used
       \/ \E id \in DOMAIN rows, op \in {"remove", "setDefault"} :
            /\ tx' = [tx EXCEPT ![t] = Asks(op, id, "yes", "find")]
            /\ UNCHANGED <<used, unset>>
    /\ UNCHANGED <<rows, writes>>

\* The transaction is rolled back and the request fails.
Rollback(t) == Goes(t, "failed") /\ writes' = [writes EXCEPT ![t] = Empty]

(***************************************************************************)
(* Statements.                                                             *)
(***************************************************************************)
AfterFind(t) == CASE tx[t].op = "remove" -> "delete"
                  [] tx[t].op = "setDefault" -> "clear"
                  [] tx[t].op = "update" -> IF tx[t].wanted = "yes" THEN "clear" ELSE "set"

\* findFirst of the address the request is about.
Find(t) ==
    /\ At(t, "find")
    /\ LET id == tx[t].id
       IN  IF id \in DOMAIN Visible(t)
           THEN /\ tx' = [tx EXCEPT ![t].pc = AfterFind(t), ![t].wasDefault = Visible(t)[id]]
                /\ UNCHANGED writes
           ELSE Rollback(t)
    /\ UNCHANGED <<rows, used, history>>

\* updateMany of the default addresses: the rows it sees when it begins,
ClearBegin(t) ==
    /\ At(t, "clear")
    /\ tx' = [tx EXCEPT ![t].pc = "clearing", ![t].targets = Defaults(Visible(t))]
    /\ UNCHANGED <<rows, used, writes, history>>

\* and each of them as it finds it when it gets the lock.
ClearRow(t) ==
    /\ At(t, "clearing")
    /\ \E id \in tx[t].targets :
         /\ ~Locked(t, id)
         /\ tx' = [tx EXCEPT ![t].targets = @ \ {id}]
         /\ IF id \in Defaults(Visible(t)) THEN Write(t, id, FALSE) ELSE UNCHANGED writes
    /\ UNCHANGED <<rows, used, history>>

ClearEnd(t) ==
    /\ At(t, "clearing")
    /\ tx[t].targets = {}
    /\ Goes(t, IF tx[t].op = "create" THEN "insert" ELSE "set")
    /\ UNCHANGED <<rows, used, writes, history>>

\* findFirst and create: the first saved address becomes the default.
Insert(t) ==
    /\ At(t, "insert")
    /\ Write(t, tx[t].id, tx[t].wanted = "yes" \/ DOMAIN Visible(t) = {})
    /\ Goes(t, "commit")
    /\ UNCHANGED <<rows, used, history>>

\* The filter of the fields to update loses isDefault.
Set_WithoutFlag(t) ==
    /\ At(t, "set")
    /\ LET id == tx[t].id
       IN  /\ ~Locked(t, id)
           /\ IF id \notin DOMAIN Visible(t) THEN Rollback(t)
              ELSE Write(t, id, Visible(t)[id]) /\ Goes(t, "commit")
    /\ UNCHANGED <<rows, used, history>>
\* The update of the address; it fails when the row is gone.
Set(t) ==
    /\ At(t, "set")
    /\ LET id == tx[t].id
       IN  /\ ~Locked(t, id)
           /\ IF id \notin DOMAIN Visible(t) THEN Rollback(t)
              ELSE /\ Write(t, id, IF tx[t].wanted = "same" THEN Visible(t)[id] ELSE tx[t].wanted = "yes")
                   /\ Goes(t, "commit")
    /\ UNCHANGED <<rows, used, history>>

\* remove never looks for another default.
Delete_NoSuccessor(t) ==
    /\ At(t, "delete")
    /\ LET id == tx[t].id
       IN  /\ ~Locked(t, id)
           /\ IF id \notin DOMAIN Visible(t) THEN Rollback(t)
              ELSE Write(t, id, None) /\ Goes(t, "commit")
    /\ UNCHANGED <<rows, used, history>>
\* The delete; whether a successor is needed was read before.
Delete(t) ==
    /\ At(t, "delete")
    /\ LET id == tx[t].id
       IN  /\ ~Locked(t, id)
           /\ IF id \notin DOMAIN Visible(t) THEN Rollback(t)
              ELSE /\ Write(t, id, None)
                   /\ Goes(t, IF tx[t].wasDefault THEN "successor" ELSE "commit")
    /\ UNCHANGED <<rows, used, history>>

\* findFirst by updatedAt: any of the addresses may be the latest.  Its update
\* is Set.
FindSuccessor(t) ==
    /\ At(t, "successor")
    /\ IF DOMAIN Visible(t) = {} THEN Goes(t, "commit")
       ELSE \E id \in DOMAIN Visible(t) : tx' = [tx EXCEPT ![t].pc = "set", ![t].id = id]
    /\ UNCHANGED <<rows, used, writes, history>>

Commit(t) ==
    /\ At(t, "commit")
    /\ rows' = Visible(t)
    /\ writes' = [writes EXCEPT ![t] = Empty]
    /\ Goes(t, "done")
    /\ UNCHANGED <<used, history>>

\* A transaction that waits for a lock is ended by the database (a deadlock) or
\* by its time limit.
Abort(t) ==
    /\ \/ At(t, "clearing") /\ \E id \in tx[t].targets : Locked(t, id)
       \/ tx[t].pc \in {"set", "delete"} /\ Locked(t, tx[t].id)
    /\ Rollback(t)
    /\ UNCHANGED <<rows, used, history>>

Statement(t) == \/ Find(t) \/ ClearBegin(t) \/ ClearRow(t) \/ ClearEnd(t) \/ Insert(t)
                \/ Set(t) \/ Delete(t) \/ FindSuccessor(t) \/ Commit(t)

Init ==
    /\ rows = Empty
    /\ used = {}
    /\ tx = [t \in Requests |-> Asks("none", None, "no", "new")]
    /\ writes = [t \in Requests |-> Empty]
    /\ unset = FALSE
    /\ overlapped = FALSE

Next == \E t \in Requests : Begin(t) \/ Statement(t) \/ Abort(t)

Spec == Init /\ [][Next]_vars

-----------------------------------------------------------------------------
(***************************************************************************)
(* Properties.                                                             *)
(***************************************************************************)
\* Every variable has its type, no two transactions have written one row, and a
\* request that has ended holds no lock.
TypeOK ==
    /\ used \subseteq Ids
    /\ DOMAIN rows \subseteq used
    /\ \A id \in DOMAIN rows : rows[id] \in BOOLEAN
    /\ tx \in [Requests -> Transactions]
    /\ DOMAIN writes = Requests
    /\ \A t \in Requests :
         /\ DOMAIN writes[t] \subseteq used
         /\ \A id \in DOMAIN writes[t] : writes[t][id] \in BOOLEAN \cup {None}
         /\ tx[t].pc \in {"new", "done", "failed"} => writes[t] = Empty
    /\ \A t, u \in Requests : t # u => DOMAIN writes[t] \cap DOMAIN writes[u] = {}
    /\ unset \in BOOLEAN
    /\ overlapped \in BOOLEAN

\* Requests that do not overlap leave one default address at most, and a
\* customer who has addresses and has never switched the default off has one:
\* address.service.ts:100 "If the deleted address was the default, choose the
\* most recently updated remaining address."
OneDefault ==
    ~overlapped =>
        /\ \A x, y \in Defaults(rows) : x = y
        /\ DOMAIN rows # {} /\ ~unset => Defaults(rows) # {}

\* A customer who makes an address the default has it as the default when the
\* request is answered, whatever the requests it overlaps have done.
ChosenIsDefault ==
    [][\A t \in Requests :
         At(t, "commit") /\ tx'[t].pc = "done" /\ tx[t].op # "remove" /\ tx[t].wanted = "yes" =>
            tx[t].id \in Defaults(rows')]_vars
=============================================================================
