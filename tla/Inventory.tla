------------------------------ MODULE Inventory ------------------------------
(***************************************************************************)
(* The neighbourhood's lending store: inventory_items, their stock, and    *)
(* inventory_borrowings (usecase/inventory_usecase.go on top of            *)
(* repository/inventory_repository.go).                                    *)
(*                                                                         *)
(* Every HTTP request is served by a goroutine that runs its usecase as a  *)
(* sequence of separately committed SQL statements: nothing locks the rows *)
(* between the SELECT a handler decides on and the UPDATE it then sends,   *)
(* and that UPDATE rewrites the whole row with what the handler read.  A   *)
(* request in service is a record in req whose pc names the statement it   *)
(* will send next; "write" is the row image it has prepared.  A handler    *)
(* whose first check fails changes nothing and is left out.                *)
(*                                                                         *)
(* Names, dates, photos and the item's condition are not modelled: no      *)
(* decision of the code depends on them.                                   *)
(***************************************************************************)
EXTENDS Integers, FiniteSets

CONSTANTS
  Items,            \* identifiers of rows of inventory_items
  Loans,            \* identifiers of rows of inventory_borrowings
  Requests,         \* request slots: the goroutines that may be in service
  Quantities,       \* the quantities clients send (0 stands for "missing")
  LendStatuses,     \* the statuses clients send with a new borrowing
  Transitions,      \* pairs <<old, new>> of statuses clients ask to change
  MaxInService,     \* how many requests are in service at the same time
  Failures,         \* may a request die between two of its statements?
  EditsCoverLoans,  \* do admins keep a quantity above what is lent out?
  NoLoan            \* marks a borrowing id that has no row

(***************************************************************************)
(* The statuses of domain/inventory.go and of the frontend's type; the     *)
(* ones in OutStatuses are held by somebody.                               *)
(***************************************************************************)
Statuses == {"pending", "approved", "borrowed", "returned",
             "rejected", "cancelled", "overdue"}

OutStatuses == {"approved", "borrowed", "overdue"}

ASSUME QuantitiesAssumption == Quantities \subseteq Int

ASSUME StatusAssumption ==
  /\ LendStatuses \subseteq Statuses \union {""}
  /\ Transitions \subseteq Statuses \X Statuses

ASSUME EnvironmentAssumption ==
  /\ MaxInService \in Nat
  /\ Failures \in BOOLEAN
  /\ EditsCoverLoans \in BOOLEAN

VARIABLES
  items,   \* inventory_items: what the table holds for every id
  loans,   \* inventory_borrowings
  req      \* what every request in service has read and will do next

vars == <<items, loans, req>>

-----------------------------------------------------------------------------
(***************************************************************************)
(* Types.                                                                  *)
(***************************************************************************)
ItemRow == [state: {"absent", "live", "deleted"},
            qty: Int, avail: Int, borrowable: BOOLEAN]

Loan == [item: Items, qty: Int, status: Statuses]

ASSUME NoLoanAssumption == NoLoan \notin Loan

NoItem == [state |-> "absent", qty |-> 0, avail |-> 0, borrowable |-> FALSE]

Idle == [pc |-> "idle"]

Request ==
  {Idle}
    \union [pc: {"edit"}, item: Items, write: ItemRow]
    \union [pc: {"lend_stock", "lend_insert"}, loan: Loan, write: ItemRow]
    \union [pc: {"status_item"}, id: Loans, loan: Loan, status: Statuses]
    \union [pc: {"status_stock", "status_save"},
            id: Loans, loan: Loan, write: ItemRow]

TypeOK ==
  /\ items \in [Items -> ItemRow]
  /\ loans \in [Loans -> Loan \union {NoLoan}]
  /\ req \in [Requests -> Request]

-----------------------------------------------------------------------------
(***************************************************************************)
(* Helpers.                                                                *)
(***************************************************************************)
InService == {r \in Requests : req[r].pc # "idle"}

\* net/http starts a goroutine for a request; MaxInService bounds how many.
CanServe == Cardinality(InService) < MaxInService

Live(i) == items[i].state = "live"

\* A quantity that is missing or not positive becomes one.
Normal(q) == IF q <= 0 THEN 1 ELSE q

\* Slips the runs must notice (PROJECT.json, "mutants"): a shelf filled above
\* the quantity, an edit that forgets what is out.
AtMostUncapped(n, bound) == n

ResizedForgettingLoans(row, q, b) ==
  [state |-> row.state, qty |-> q, avail |-> q, borrowable |-> b]

\* Status that a borrowing recorded by an admin gets when none is sent.
Default(s) == IF s = "" THEN "approved" ELSE s

AtLeastZero(n) == IF n < 0 THEN 0 ELSE n

AtMost(n, bound) == IF n > bound THEN bound ELSE n

\* The row after an admin changed the quantity to q: what is out stays out.
Resized(row, q, b) ==
  [state |-> row.state, qty |-> q,
   avail |-> AtLeastZero(q - AtLeastZero(row.qty - row.avail)),
   borrowable |-> b]

\* The row with n pieces taken from, or put back on, the shelf.
TakenFrom(row, n) == [row EXCEPT !.avail = @ - n]

PutBack(row, n) == [row EXCEPT !.avail = AtMost(@ + n, row.qty)]

Serve(r, record) == req' = [req EXCEPT ![r] = record]

Finish(r) == Serve(r, Idle)

-----------------------------------------------------------------------------
(***************************************************************************)
(* Items.  CreateItem and DeleteItem are one statement each.               *)
(***************************************************************************)
Init ==
  /\ items = [i \in Items |-> NoItem]
  /\ loans = [l \in Loans |-> NoLoan]
  /\ req = [r \in Requests |-> Idle]

CreateItem(i, q, b) ==
  /\ CanServe
  /\ items[i].state = "absent"
  /\ items' = [items EXCEPT ![i] = [state |-> "live", qty |-> Normal(q),
                                    avail |-> Normal(q), borrowable |-> b]]
  /\ UNCHANGED <<loans, req>>

DeleteItem(i) ==
  /\ CanServe
  /\ Live(i)
  /\ items' = [items EXCEPT ![i].state = "deleted"]
  /\ UNCHANGED <<loans, req>>

\* UPDATE ... WHERE id = $16 AND deleted_at IS NULL: rewrites quantity,
\* available_quantity and is_borrowable of a row that is still there.
UpdateItemRow(i, row) == items' = [items EXCEPT ![i] = row]

UpdateItemRead(r, i, q, b) ==
  /\ CanServe
  /\ req[r] = Idle
  /\ Live(i)
  /\ EditsCoverLoans => Normal(q) >= items[i].qty - items[i].avail
  /\ Serve(r, [pc |-> "edit", item |-> i,
               write |-> Resized(items[i], Normal(q), b)])
  /\ UNCHANGED <<items, loans>>

UpdateItemWrite(r) ==
  /\ req[r].pc = "edit"
  /\ IF Live(req[r].item)
     THEN UpdateItemRow(req[r].item, req[r].write)
     ELSE UNCHANGED items
  /\ Finish(r)
  /\ UNCHANGED loans

-----------------------------------------------------------------------------
(***************************************************************************)
(* CreateBorrowing: read the item, take the stock, insert the borrowing.   *)
(***************************************************************************)
CreateBorrowingRead(r, i, q, s) ==
  LET loan == [item |-> i, qty |-> Normal(q), status |-> Default(s)]
  IN  /\ CanServe
      /\ req[r] = Idle
      /\ Live(i)
      /\ items[i].borrowable
      /\ items[i].avail >= loan.qty
      /\ IF loan.status \in {"approved", "borrowed"}
         THEN Serve(r, [pc |-> "lend_stock", loan |-> loan,
                        write |-> TakenFrom(items[i], loan.qty)])
         ELSE Serve(r, [pc |-> "lend_insert", loan |-> loan,
                        write |-> items[i]])
      /\ UNCHANGED <<items, loans>>

\* The UPDATE of a row deleted meanwhile finds no row: the handler gives up.
CreateBorrowingStock(r) ==
  /\ req[r].pc = "lend_stock"
  /\ \/ /\ Live(req[r].loan.item)
        /\ UpdateItemRow(req[r].loan.item, req[r].write)
        /\ Serve(r, [req[r] EXCEPT !.pc = "lend_insert"])
     \/ /\ ~Live(req[r].loan.item)
        /\ UNCHANGED items
        /\ Finish(r)
  /\ UNCHANGED loans

CreateBorrowingInsert(r, l) ==
  /\ req[r].pc = "lend_insert"
  /\ loans[l] = NoLoan
  /\ loans' = [loans EXCEPT ![l] = req[r].loan]
  /\ Finish(r)
  /\ UNCHANGED items

-----------------------------------------------------------------------------
(***************************************************************************)
(* UpdateBorrowingStatus: read the borrowing, read its item, move stock if *)
(* the pair of statuses asks for it, then save the borrowing.              *)
(***************************************************************************)
UpdateStatusReadLoan(r, l, s) ==
  /\ CanServe
  /\ req[r] = Idle
  /\ loans[l] # NoLoan
  /\ <<loans[l].status, s>> \in Transitions
  /\ Serve(r, [pc |-> "status_item", id |-> l, loan |-> loans[l],
               status |-> s])
  /\ UNCHANGED <<items, loans>>

\* Which stock movement a change of status from old to new asks for.
Movement(old, new) ==
  CASE new = "returned" /\ old # "returned" -> "in"
    [] new \in {"approved", "borrowed"} /\ old \in {"pending", "rejected"}
         -> "out"
    [] new \in {"rejected", "cancelled"} /\ old \in {"approved", "borrowed"}
         -> "in"
    [] OTHER -> "none"

UpdateStatusReadItem(r) ==
  /\ req[r].pc = "status_item"
  /\ LET loan  == req[r].loan
         row   == items[loan.item]
         move  == Movement(loan.status, req[r].status)
         next(pc, image) ==
           Serve(r, [pc |-> pc, id |-> req[r].id,
                     loan |-> [loan EXCEPT !.status = req[r].status],
                     write |-> image])
     IN  \/ /\ \/ ~Live(loan.item)
               \/ move = "out" /\ row.avail < loan.qty
            /\ Finish(r)
         \/ /\ Live(loan.item)
            /\ \/ move = "none" /\ next("status_save", row)
               \/ move = "in"  /\ next("status_stock", PutBack(row, loan.qty))
               \/ /\ move = "out"
                  /\ row.avail >= loan.qty
                  /\ next("status_stock", TakenFrom(row, loan.qty))
  /\ UNCHANGED <<items, loans>>

UpdateStatusStock(r) ==
  /\ req[r].pc = "status_stock"
  /\ \/ /\ Live(req[r].loan.item)
        /\ UpdateItemRow(req[r].loan.item, req[r].write)
        /\ Serve(r, [req[r] EXCEPT !.pc = "status_save"])
     \/ /\ ~Live(req[r].loan.item)
        /\ UNCHANGED items
        /\ Finish(r)
  /\ UNCHANGED loans

UpdateStatusSave(r) ==
  /\ req[r].pc = "status_save"
  /\ loans' = [loans EXCEPT ![req[r].id] = req[r].loan]
  /\ Finish(r)
  /\ UNCHANGED items

\* The client disconnects (which cancels the context every statement runs
\* under), a statement fails, or the server dies: what was committed stays.
Fail(r) ==
  /\ Failures
  /\ req[r] # Idle
  /\ Finish(r)
  /\ UNCHANGED <<items, loans>>

-----------------------------------------------------------------------------
Next ==
  \/ \E i \in Items, q \in Quantities, b \in BOOLEAN : CreateItem(i, q, b)
  \/ \E i \in Items : DeleteItem(i)
  \/ \E r \in Requests :
       \/ \E i \in Items, q \in Quantities :
            \/ \E b \in BOOLEAN : UpdateItemRead(r, i, q, b)
            \/ \E s \in LendStatuses : CreateBorrowingRead(r, i, q, s)
       \/ UpdateItemWrite(r)
       \/ CreateBorrowingStock(r)
       \/ \E l \in Loans : CreateBorrowingInsert(r, l)
       \/ \E l \in Loans, s \in Statuses : UpdateStatusReadLoan(r, l, s)
       \/ UpdateStatusReadItem(r)
       \/ UpdateStatusStock(r)
       \/ UpdateStatusSave(r)
       \/ Fail(r)

Spec == Init /\ [][Next]_vars

-----------------------------------------------------------------------------
(***************************************************************************)
(* Properties.                                                             *)
(***************************************************************************)

\* Row l of a table of borrowings says that pieces of item i are out.
Holds(table, l, i) ==
  table[l] # NoLoan /\ table[l].item = i /\ table[l].status \in OutStatuses

\* The pieces of item i in somebody's hands, numbered within each borrowing.
Pieces(table, i) == UNION {{l} \X (1..table[l].qty) : l \in {k \in Loans : Holds(table, k, i)}}

LentOut(i) == Cardinality(Pieces(loans, i))

\* However handlers interleave and wherever they die, the shelf count of an
\* item never leaves 0 .. quantity.  Nothing in the schema enforces it (the
\* table has no CHECK): it rests on every handler writing quantity and
\* available_quantity together, from one snapshot of the row.
StockBounds ==
  \A i \in Items : 0 <= items[i].avail /\ items[i].avail <= items[i].qty

\* The same piece is never promised to two people: the borrowings of a live
\* item never hold more than the store owns.
NeverOverLent ==
  \A i \in Items : Live(i) => LentOut(i) <= items[i].qty
=============================================================================
