--------------------------- MODULE RegistersProofs ---------------------------
(***************************************************************************)
(* What holds of the two registers, the lending store (Inventory) and the  *)
(* families (Families), for every number of rows and of requests in        *)
(* service, whatever clients ask for and wherever a handler dies.          *)
(***************************************************************************)
EXTENDS MCRegisters, FiniteSetTheorems, TLAPS

(***************************************************************************)
(* The lending store.                                                      *)
(***************************************************************************)

\* A row of which the shelf count lies in 0 .. quantity.
Bounded(row) == 0 <= row.avail /\ row.avail <= row.qty

\* The program points at which a handler holds a row image, a borrowing.
HoldsImage ==
  {"edit", "lend_stock", "lend_insert", "status_stock", "status_save"}

HoldsLoan ==
  {"lend_stock", "lend_insert", "status_item", "status_stock", "status_save"}

\* StockBounds is not inductive: an UPDATE writes what its handler prepared
\* statements ago.  The row images of the requests in service are bounded
\* too, and a borrowing, stored or in service, is of at least one piece.
Prepared(x) ==
  /\ x.pc \in HoldsImage => Bounded(x.write)
  /\ x.pc \in HoldsLoan => x.loan.qty >= 1

Recorded(x) == x # NoLoan => x.qty >= 1

IInv ==
  /\ TypeOK
  /\ \A i \in Items : Bounded(items[i])
  /\ \A r \in Requests : Prepared(req[r])
  /\ \A l \in Loans : Recorded(loans[l])

-----------------------------------------------------------------------------
LEMMA RowType ==
  ASSUME NEW s \in {"absent", "live", "deleted"},
         NEW q \in Int, NEW a \in Int, NEW b \in BOOLEAN
  PROVE  [state |-> s, qty |-> q, avail |-> a, borrowable |-> b] \in ItemRow
BY Zenon DEF ItemRow

\* The image an admin's edit prepares from a bounded row is a bounded row.
LEMMA ResizedBounded ==
  ASSUME NEW row \in ItemRow, Bounded(row),
         NEW n \in Int, n >= 1, NEW b \in BOOLEAN
  PROVE  Resized(row, n, b) \in ItemRow /\ Bounded(Resized(row, n, b))
<1> DEFINE a == AtLeastZero(n - AtLeastZero(row.qty - row.avail))
<1>1. a \in Int
  BY DEF ItemRow, AtLeastZero
<1>2. row.state \in {"absent", "live", "deleted"}
  BY DEF ItemRow
<1>3. Resized(row, n, b) \in ItemRow
  BY <1>1, <1>2, RowType, Zenon DEF Resized
<1>4. Bounded(Resized(row, n, b))
  BY DEF ItemRow, Bounded, Resized, AtLeastZero
<1>5. QED
  BY <1>3, <1>4

\* Taking pieces that are there, or putting pieces back, keeps a row bounded.
LEMMA MovesBounded ==
  ASSUME NEW row \in ItemRow, Bounded(row), NEW n \in Int, n >= 1
  PROVE  /\ PutBack(row, n) \in ItemRow /\ Bounded(PutBack(row, n))
         /\ TakenFrom(row, n) \in ItemRow
         /\ row.avail >= n => Bounded(TakenFrom(row, n))
<1>1. PutBack(row, n) \in ItemRow
  BY DEF ItemRow, PutBack, AtMost
<1>2. Bounded(PutBack(row, n))
  BY DEF ItemRow, Bounded, PutBack, AtMost
<1>3. TakenFrom(row, n) \in ItemRow
  BY DEF ItemRow, TakenFrom
<1>4. row.avail >= n => Bounded(TakenFrom(row, n))
  BY DEF ItemRow, Bounded, TakenFrom
<1>5. QED
  BY <1>1, <1>2, <1>3, <1>4

LEMMA NormalPositive ==
  ASSUME NEW q \in Int
  PROVE  Normal(q) \in Int /\ Normal(q) >= 1
BY DEF Normal

\* What a request holds, by its program point.
LEMMA Shape ==
  ASSUME NEW x \in Request
  PROVE  /\ x.pc \in HoldsImage => x.write \in ItemRow
         /\ x.pc \in HoldsLoan => x.loan \in Loan
         /\ x.pc = "edit" => x.item \in Items
         /\ x.pc = "status_item" => x.status \in Statuses
         /\ x.pc \in {"status_item", "status_stock", "status_save"}
              => x.id \in Loans
BY DEF Request, Idle, HoldsImage, HoldsLoan

\* Storing a bounded row keeps every row bounded.
LEMMA StoreRow ==
  ASSUME IInv, NEW i \in Items, NEW row \in ItemRow, Bounded(row),
         UpdateItemRow(i, row)
  PROVE  /\ items' \in [Items -> ItemRow]
         /\ \A j \in Items : Bounded(items'[j])
BY DEF IInv, TypeOK, UpdateItemRow

\* Serving a well-prepared record keeps every request well-prepared.
LEMMA ServeRequest ==
  ASSUME IInv, NEW r \in Requests, NEW x \in Request, Prepared(x),
         Serve(r, x)
  PROVE  /\ req' \in [Requests -> Request]
         /\ \A s \in Requests : Prepared(req'[s])
BY DEF IInv, TypeOK, Serve

LEMMA FinishRequest ==
  ASSUME IInv, NEW r \in Requests, Finish(r)
  PROVE  /\ req' \in [Requests -> Request]
         /\ \A s \in Requests : Prepared(req'[s])
<1>1. Idle \in Request /\ Prepared(Idle)
  BY DEF Request, Idle, Prepared, HoldsImage, HoldsLoan
<1>2. QED
  BY <1>1, ServeRequest DEF Finish

-----------------------------------------------------------------------------
LEMMA Initially == Init => IInv
<1> SUFFICES ASSUME Init PROVE IInv
  OBVIOUS
<1>1. NoItem \in ItemRow /\ Bounded(NoItem)
  <2>1. 0 \in Int
    OBVIOUS
  <2>2. NoItem \in ItemRow
    BY <2>1, RowType, Zenon DEF NoItem
  <2>3. Bounded(NoItem)
    BY DEF NoItem, Bounded
  <2>4. QED
    BY <2>2, <2>3
<1>2. Idle \in Request /\ Prepared(Idle)
  BY DEF Request, Idle, Prepared, HoldsImage, HoldsLoan
<1>3. QED
  BY <1>1, <1>2 DEF Init, IInv, TypeOK, Recorded

LEMMA Step ==
  ASSUME IInv, [Next]_vars
  PROVE  IInv'
<1> USE DEF IInv
<1>1. ASSUME NEW i \in Items, NEW q \in Quantities, NEW b \in BOOLEAN,
             CreateItem(i, q, b)
      PROVE  IInv'
  <2> DEFINE row == [state |-> "live", qty |-> Normal(q),
                     avail |-> Normal(q), borrowable |-> b]
  <2>1. Normal(q) \in Int /\ Normal(q) >= 1
    BY NormalPositive, QuantitiesAssumption
  <2>2. row \in ItemRow /\ Bounded(row)
    BY <2>1, RowType DEF Bounded
  <2>3. UpdateItemRow(i, row)
    BY <1>1 DEF CreateItem, UpdateItemRow
  <2>4. UNCHANGED <<loans, req>>
    BY <1>1 DEF CreateItem
  <2>5. QED
    BY <2>2, <2>3, <2>4, StoreRow DEF TypeOK
<1>2. ASSUME NEW i \in Items, DeleteItem(i)
      PROVE  IInv'
  <2> DEFINE row == [items[i] EXCEPT !.state = "deleted"]
  <2>1. items[i] \in ItemRow /\ Bounded(items[i])
    BY DEF TypeOK
  <2>2. row \in ItemRow /\ Bounded(row)
    BY <2>1 DEF ItemRow, Bounded
  <2>3. UpdateItemRow(i, row)
    BY <1>2 DEF DeleteItem, UpdateItemRow
  <2>4. UNCHANGED <<loans, req>>
    BY <1>2 DEF DeleteItem
  <2>5. QED
    BY <2>2, <2>3, <2>4, StoreRow DEF TypeOK
<1>3. ASSUME NEW r \in Requests, NEW i \in Items, NEW q \in Quantities,
             NEW b \in BOOLEAN, UpdateItemRead(r, i, q, b)
      PROVE  IInv'
  <2> DEFINE row == Resized(items[i], Normal(q), b)
             x == [pc |-> "edit", item |-> i, write |-> row]
  <2>1. row \in ItemRow /\ Bounded(row)
    BY NormalPositive, ResizedBounded, QuantitiesAssumption DEF TypeOK
  <2>2. x \in Request /\ Prepared(x)
    BY <2>1 DEF Request, Prepared, HoldsImage, HoldsLoan
  <2>3. Serve(r, x) /\ UNCHANGED <<items, loans>>
    BY <1>3 DEF UpdateItemRead
  <2>4. QED
    BY <2>2, <2>3, ServeRequest DEF TypeOK
<1>4. ASSUME NEW r \in Requests, UpdateItemWrite(r)
      PROVE  IInv'
  <2>1. req[r] \in Request /\ req[r].pc = "edit" /\ Prepared(req[r])
    BY <1>4 DEF TypeOK, UpdateItemWrite
  <2>2. req[r].item \in Items /\ req[r].write \in ItemRow
        /\ Bounded(req[r].write)
    BY <2>1, Shape DEF Prepared, HoldsImage
  <2>3. Finish(r) /\ UNCHANGED loans
    BY <1>4 DEF UpdateItemWrite
  <2>4. UNCHANGED items \/ UpdateItemRow(req[r].item, req[r].write)
    BY <1>4 DEF UpdateItemWrite
  <2>5. QED
    BY <2>2, <2>3, <2>4, FinishRequest, StoreRow DEF TypeOK
<1>5. ASSUME NEW r \in Requests, NEW i \in Items, NEW q \in Quantities,
             NEW s \in LendStatuses, CreateBorrowingRead(r, i, q, s)
      PROVE  IInv'
  <2> DEFINE loan == [item |-> i, qty |-> Normal(q), status |-> Default(s)]
             x == [pc |-> "lend_stock", loan |-> loan,
                   write |-> TakenFrom(items[i], loan.qty)]
             y == [pc |-> "lend_insert", loan |-> loan, write |-> items[i]]
  <2>1. Normal(q) \in Int /\ Normal(q) >= 1
    BY NormalPositive, QuantitiesAssumption
  <2>2. Default(s) \in Statuses
    BY StatusAssumption DEF Default, Statuses
  <2>3. loan \in Loan /\ loan.qty = Normal(q)
    BY <2>1, <2>2 DEF Loan
  <2>4. items[i] \in ItemRow /\ Bounded(items[i])
    BY DEF TypeOK
  <2>5. items[i].avail >= loan.qty
    BY <1>5 DEF CreateBorrowingRead
  <2>6. TakenFrom(items[i], loan.qty) \in ItemRow
        /\ Bounded(TakenFrom(items[i], loan.qty))
    BY <2>1, <2>3, <2>4, <2>5, MovesBounded
  <2>7. x \in Request /\ Prepared(x)
    BY <2>1, <2>3, <2>6 DEF Request, Prepared, HoldsImage, HoldsLoan
  <2>8. y \in Request /\ Prepared(y)
    BY <2>1, <2>3, <2>4 DEF Request, Prepared, HoldsImage, HoldsLoan
  <2>9. (Serve(r, x) \/ Serve(r, y)) /\ UNCHANGED <<items, loans>>
    BY <1>5 DEF CreateBorrowingRead
  <2>10. QED
    BY <2>7, <2>8, <2>9, ServeRequest DEF TypeOK
<1>6. ASSUME NEW r \in Requests,
             \/ CreateBorrowingStock(r) \/ UpdateStatusStock(r)
      PROVE  IInv'
  <2> DEFINE x == [req[r] EXCEPT !.pc = "lend_insert"]
             y == [req[r] EXCEPT !.pc = "status_save"]
  <2>1. req[r] \in Request /\ Prepared(req[r])
    BY DEF TypeOK
  <2>2. req[r].pc \in {"lend_stock", "status_stock"}
    BY <1>6 DEF CreateBorrowingStock, UpdateStatusStock
  <2>3. req[r].loan.item \in Items /\ req[r].write \in ItemRow
        /\ Bounded(req[r].write)
    BY <2>1, <2>2, Shape DEF Prepared, HoldsImage, HoldsLoan, Loan
  <2>4. \/ UNCHANGED items
        \/ UpdateItemRow(req[r].loan.item, req[r].write)
    BY <1>6 DEF CreateBorrowingStock, UpdateStatusStock
  <2>5. req[r].pc = "lend_stock" => x \in Request /\ Prepared(x)
    BY <2>1 DEF Request, Idle, Prepared, HoldsImage, HoldsLoan
  <2>6. req[r].pc = "status_stock" => y \in Request /\ Prepared(y)
    BY <2>1 DEF Request, Idle, Prepared, HoldsImage, HoldsLoan
  <2>7. \/ Finish(r)
        \/ req[r].pc = "lend_stock" /\ Serve(r, x)
        \/ req[r].pc = "status_stock" /\ Serve(r, y)
    BY <1>6 DEF CreateBorrowingStock, UpdateStatusStock
  <2>8. UNCHANGED loans
    BY <1>6 DEF CreateBorrowingStock, UpdateStatusStock
  <2>9. req' \in [Requests -> Request] /\ \A s \in Requests : Prepared(req'[s])
    BY <2>5, <2>6, <2>7, ServeRequest, FinishRequest
  <2>10. /\ items' \in [Items -> ItemRow]
         /\ \A j \in Items : Bounded(items'[j])
    BY <2>3, <2>4, StoreRow DEF TypeOK
  <2>11. QED
    BY <2>8, <2>9, <2>10 DEF TypeOK
<1>7. ASSUME NEW r \in Requests, NEW l \in Loans,
             \/ CreateBorrowingInsert(r, l)
             \/ UpdateStatusSave(r) /\ l = req[r].id
      PROVE  IInv'
  <2>1. req[r] \in Request /\ Prepared(req[r])
    BY DEF TypeOK
  <2>2. req[r].pc \in {"lend_insert", "status_save"}
    BY <1>7 DEF CreateBorrowingInsert, UpdateStatusSave
  <2>3. req[r].loan \in Loan /\ req[r].loan.qty >= 1
    BY <2>1, <2>2, Shape DEF Prepared, HoldsLoan
  <2>4. loans' = [loans EXCEPT ![l] = req[r].loan]
    BY <1>7 DEF CreateBorrowingInsert, UpdateStatusSave
  <2>5. Finish(r) /\ UNCHANGED items
    BY <1>7 DEF CreateBorrowingInsert, UpdateStatusSave
  <2>6. /\ loans' \in [Loans -> Loan \union {NoLoan}]
        /\ \A k \in Loans : Recorded(loans'[k])
    BY <2>3, <2>4 DEF TypeOK, Recorded
  <2>7. QED
    BY <2>5, <2>6, FinishRequest DEF TypeOK
<1>8. ASSUME NEW r \in Requests, NEW l \in Loans, NEW s \in Statuses,
             UpdateStatusReadLoan(r, l, s)
      PROVE  IInv'
  <2> DEFINE x == [pc |-> "status_item", id |-> l, loan |-> loans[l],
                   status |-> s]
  <2>1. loans[l] \in Loan /\ loans[l].qty >= 1
    BY <1>8 DEF TypeOK, Recorded, UpdateStatusReadLoan
  <2>2. x \in Request /\ Prepared(x)
    BY <2>1 DEF Request, Prepared, HoldsImage, HoldsLoan
  <2>3. Serve(r, x) /\ UNCHANGED <<items, loans>>
    BY <1>8 DEF UpdateStatusReadLoan
  <2>4. QED
    BY <2>2, <2>3, ServeRequest DEF TypeOK
<1>9. ASSUME NEW r \in Requests, UpdateStatusReadItem(r)
      PROVE  IInv'
  <2> DEFINE old == req[r].loan
             new == [old EXCEPT !.status = req[r].status]
             row == items[old.item]
             x(pc, image) == [pc |-> pc, id |-> req[r].id,
                              loan |-> new, write |-> image]
  <2>1. req[r] \in Request /\ req[r].pc = "status_item" /\ Prepared(req[r])
    BY <1>9 DEF TypeOK, UpdateStatusReadItem
  <2>2. old \in Loan /\ old.qty >= 1 /\ req[r].status \in Statuses
        /\ req[r].id \in Loans
    BY <2>1, Shape DEF Prepared, HoldsLoan
  <2>3. new \in Loan /\ new.qty = old.qty /\ old.item \in Items
        /\ old.qty \in Int
    BY <2>2 DEF Loan
  <2>4. row \in ItemRow /\ Bounded(row)
    BY <2>3 DEF TypeOK
  <2>5. \/ Finish(r)
        \/ Serve(r, x("status_save", row))
        \/ Serve(r, x("status_stock", PutBack(row, old.qty)))
        \/ /\ row.avail >= old.qty
           /\ Serve(r, x("status_stock", TakenFrom(row, old.qty)))
    BY <1>9 DEF UpdateStatusReadItem
  <2>6. ASSUME NEW image \in ItemRow, Bounded(image),
               NEW pc \in {"status_stock", "status_save"},
               Serve(r, x(pc, image))
        PROVE  /\ req' \in [Requests -> Request]
               /\ \A s \in Requests : Prepared(req'[s])
    <3>1. x(pc, image) \in Request
      BY <2>2, <2>3, <2>6 DEF Request
    <3>2. Prepared(x(pc, image))
      BY <2>2, <2>3, <2>6 DEF Prepared, HoldsImage, HoldsLoan
    <3>3. QED
      BY <2>6, <3>1, <3>2, ServeRequest
  <2>7. /\ PutBack(row, old.qty) \in ItemRow
        /\ Bounded(PutBack(row, old.qty))
        /\ TakenFrom(row, old.qty) \in ItemRow
        /\ row.avail >= old.qty => Bounded(TakenFrom(row, old.qty))
    BY <2>2, <2>3, <2>4, MovesBounded
  <2>8. /\ req' \in [Requests -> Request]
        /\ \A s \in Requests : Prepared(req'[s])
    <3>1. CASE Finish(r)
      BY <3>1, FinishRequest
    <3>2. CASE Serve(r, x("status_save", row))
      BY <3>2, <2>4, <2>6
    <3>3. CASE Serve(r, x("status_stock", PutBack(row, old.qty)))
      BY <3>3, <2>6, <2>7
    <3>4. CASE /\ row.avail >= old.qty
               /\ Serve(r, x("status_stock", TakenFrom(row, old.qty)))
      BY <3>4, <2>6, <2>7
    <3>5. QED
      BY <2>5, <3>1, <3>2, <3>3, <3>4
  <2>9. UNCHANGED <<items, loans>>
    BY <1>9 DEF UpdateStatusReadItem
  <2>10. QED
    BY <2>8, <2>9 DEF TypeOK
<1>10. ASSUME NEW r \in Requests, Fail(r)
       PROVE  IInv'
  <2>1. Finish(r) /\ UNCHANGED <<items, loans>>
    BY <1>10 DEF Fail
  <2>2. QED
    BY <2>1, FinishRequest DEF TypeOK
<1>11. CASE UNCHANGED vars
  BY <1>11 DEF vars, TypeOK
<1>12. ASSUME NEW r \in Requests, UpdateStatusSave(r)
       PROVE  req[r].id \in Loans
  BY <1>12, Shape DEF TypeOK, UpdateStatusSave
<1>13. QED
  BY <1>1, <1>2, <1>3, <1>4, <1>5, <1>6, <1>7, <1>8, <1>9, <1>10, <1>11,
     <1>12 DEF Next

\* Every row, borrowing and request in service is well-typed, always.
THEOREM StoreTypeCorrect == Spec => []TypeOK
<1>1. IInv => TypeOK
  BY DEF IInv
<1>2. QED
  BY <1>1, Initially, Step, PTL DEF Spec

\* The shelf count of an item never leaves 0 .. quantity, whatever handlers
\* interleave and wherever they die.
THEOREM StockIsBounded == Spec => []StockBounds
<1>1. IInv => StockBounds
  BY DEF IInv, Bounded, StockBounds
<1>2. QED
  BY <1>1, Initially, Step, PTL DEF Spec

-----------------------------------------------------------------------------
(***************************************************************************)
(* Stock is conserved in an orderly behaviour.  LentOut counts pieces, so  *)
(* that what a row of borrowings adds to it is the size of an interval.    *)
(***************************************************************************)

\* The pieces of item i that one borrowing accounts for.
Out(loan, i) ==
  IF loan # NoLoan /\ loan.item = i /\ loan.status \in OutStatuses THEN loan.qty ELSE 0

LoanTable == [Loans -> Loan \union {NoLoan}]

LEMMA Interval ==
  ASSUME NEW l, NEW q \in Nat
  PROVE  IsFiniteSet({l} \X (1..q)) /\ Cardinality({l} \X (1..q)) = q
<1>1. IsFiniteSet(1..q) /\ Cardinality(1..q) = q
  BY FS_Interval
<1>2. IsFiniteSet({l}) /\ Cardinality({l}) = 1
  BY FS_Singleton
<1>3. Cardinality({l} \X (1..q)) = Cardinality({l}) * Cardinality(1..q)
  BY <1>1, <1>2, FS_Product
<1>4. QED
  BY <1>1, <1>2, <1>3, FS_Product

\* The pieces of the borrowings other than l.
Rest(table, l, i) ==
  UNION {{k} \X (1..table[k].qty) : k \in {m \in Loans \ {l} : Holds(table, m, i)}}

LEMMA SplitPieces ==
  ASSUME NEW table \in LoanTable, NEW l \in Loans, Recorded(table[l]), NEW i,
         IsFiniteSet(Rest(table, l, i))
  PROVE  /\ IsFiniteSet(Pieces(table, i))
         /\ Cardinality(Pieces(table, i)) = Cardinality(Rest(table, l, i)) + Out(table[l], i)
<1> DEFINE part == {l} \X (1..table[l].qty)
<1>1. CASE Holds(table, l, i)
  <2>1. table[l].qty \in Nat /\ Out(table[l], i) = table[l].qty
    BY <1>1 DEF Holds, Out, LoanTable, Loan, Recorded
  <2>2. IsFiniteSet(part) /\ Cardinality(part) = table[l].qty
    BY <2>1, Interval
  <2>3. Pieces(table, i) = Rest(table, l, i) \union part
    BY <1>1 DEF Pieces, Rest
  <2>4. Rest(table, l, i) \intersect part = {}
    BY DEF Rest
  <2>5. Cardinality(Rest(table, l, i)) \in Nat /\ Cardinality({}) = 0
    BY FS_CardinalityType, FS_EmptySet
  <2>6. Cardinality(Rest(table, l, i) \union part)
          = Cardinality(Rest(table, l, i)) + Cardinality(part)
              - Cardinality(Rest(table, l, i) \intersect part)
    BY <2>2, FS_Union
  <2>7. IsFiniteSet(Rest(table, l, i) \union part)
    BY <2>2, FS_Union
  <2>8. Cardinality(Rest(table, l, i) \union part)
          = Cardinality(Rest(table, l, i)) + table[l].qty
    <3>1. Cardinality(Rest(table, l, i) \intersect part) = 0
      BY <2>4, <2>5, Zenon
    <3>2. QED
      BY <2>1, <2>2, <2>5, <2>6, <3>1
  <2>9. QED
    BY <2>1, <2>3, <2>7, <2>8, Zenon
<1>2. CASE ~Holds(table, l, i)
  <2>1. Pieces(table, i) = Rest(table, l, i)
    BY <1>2 DEF Pieces, Rest
  <2>2. Out(table[l], i) = 0
    BY <1>2 DEF Holds, Out
  <2>3. Cardinality(Rest(table, l, i)) \in Nat
    BY FS_CardinalityType
  <2>4. QED
    BY <2>1, <2>2, <2>3
<1>3. QED
  BY <1>1, <1>2

\* A table of borrowings before and after row l is written.
Rewrites(old, new, l, loan) ==
  /\ old \in LoanTable /\ Recorded(old[l])
  /\ loan \in Loan /\ Recorded(loan)
  /\ new = [old EXCEPT ![l] = loan]

\* Rewriting one borrowing changes the count by what it accounts for.
LEMMA Rewritten ==
  ASSUME NEW old, NEW new, NEW l \in Loans, NEW loan, Rewrites(old, new, l, loan),
         NEW i, IsFiniteSet(Pieces(old, i))
  PROVE  /\ IsFiniteSet(Pieces(new, i))
         /\ Cardinality(Pieces(old, i)) \in Nat
         /\ Cardinality(Pieces(old, i)) >= Out(old[l], i)
         /\ Cardinality(Pieces(new, i))
              = Cardinality(Pieces(old, i)) - Out(old[l], i) + Out(loan, i)
<1> USE DEF Rewrites
<1>0. new \in LoanTable /\ new[l] = loan /\ \A k \in Loans \ {l} : new[k] = old[k]
  BY DEF LoanTable
<1>1. Rest(new, l, i) = Rest(old, l, i)
  BY <1>0 DEF Rest, Holds
<1>2. Rest(old, l, i) \subseteq Pieces(old, i)
  BY DEF Rest, Pieces
<1>3. IsFiniteSet(Rest(old, l, i))
  BY <1>2, FS_Subset
<1>4. Cardinality(Rest(old, l, i)) \in Nat
  BY <1>3, FS_CardinalityType
<1>5. /\ IsFiniteSet(Pieces(old, i))
      /\ Cardinality(Pieces(old, i)) = Cardinality(Rest(old, l, i)) + Out(old[l], i)
  BY <1>3, SplitPieces
<1>6. /\ IsFiniteSet(Pieces(new, i))
      /\ Cardinality(Pieces(new, i)) = Cardinality(Rest(old, l, i)) + Out(loan, i)
  <2>1. new \in LoanTable /\ Recorded(new[l]) /\ IsFiniteSet(Rest(new, l, i))
    BY <1>0, <1>1, <1>3, Zenon
  <2>2. /\ IsFiniteSet(Pieces(new, i))
        /\ Cardinality(Pieces(new, i)) = Cardinality(Rest(new, l, i)) + Out(new[l], i)
    BY <2>1, SplitPieces, Zenon
  <2>3. QED
    BY <1>0, <1>1, <2>2, Zenon
<1>7. Cardinality(Pieces(old, i)) \in Nat
  BY <1>5, FS_CardinalityType
<1>8. Out(old[l], i) \in Nat /\ Out(loan, i) \in Int
  BY DEF Out, LoanTable, Loan, Recorded
<1>9. QED
  BY <1>4, <1>5, <1>6, <1>7, <1>8

\* How many pieces are missing from the shelf of an item.
Missing(row) == row.qty - row.avail

\* The pieces of item i that request x has taken from the shelf and not yet
\* recorded in the table of borrowings.
Due(table, x, i) ==
  CASE x.pc = "lend_insert" -> Out(x.loan, i)
    [] x.pc = "status_save" -> Out(x.loan, i) - Out(table[x.id], i)
    [] OTHER -> 0

\* What x has read is still so; the row it will write differs from the stored
\* one by what it will then have to record.
Current(rows, table, x) ==
  /\ x.pc = "edit" =>
       x.write.state = "live" /\ Missing(x.write) = Missing(rows[x.item])
  /\ x.pc \in {"lend_stock", "lend_insert"} => rows[x.loan.item].state # "absent"
  /\ x.pc = "lend_stock" =>
       /\ x.write.state = "live"
       /\ Missing(x.write) = Missing(rows[x.loan.item]) + Out(x.loan, x.loan.item)
  /\ x.pc = "status_item" =>
       /\ x.loan = table[x.id]
       /\ <<x.loan.status, x.status>> \in LifeOfALoan
  /\ x.pc \in {"status_stock", "status_save"} =>
       /\ table[x.id] # NoLoan
       /\ x.loan.item = table[x.id].item
  /\ x.pc = "status_stock" =>
       /\ x.write.state = "live"
       /\ Missing(x.write) = Missing(rows[x.loan.item]) + Out(x.loan, x.loan.item)
                               - Out(table[x.id], x.loan.item)

Balance(rows, table, x) ==
  \A i \in Items : rows[i].state = "live" =>
    Missing(rows[i]) = Cardinality(Pieces(table, i)) + Due(table, x, i)

Good(rows, table, x) == Current(rows, table, x) /\ Balance(rows, table, x)

\* No borrowing is of an item that was never created.
Stored(rows, table) == \A l \in Loans : table[l] # NoLoan => rows[table[l].item].state # "absent"

Counted(table) == \A i \in Items : IsFiniteSet(Pieces(table, i))

\* StockConserved says nothing of the time in between; this does.
Conserving ==
  orderly =>
    /\ \A r, s \in InService : r = s
    /\ \A r \in InService : Good(items, loans, req[r])
    /\ InService = {} => Good(items, loans, Idle)
    /\ Stored(items, loans)
    /\ Counted(loans)

LEMMA IdleRequest ==
  /\ Idle \in Request
  /\ \A x \in Request : x.pc = "idle" <=> x = Idle
BY DEF Request, Idle

\* Whoever takes a step was alone in service.
LEMMA Focus ==
  ASSUME TypeOK, Conserving, orderly, OrderlyStep,
         NEW r \in Requests, NEW x \in Request, Serve(r, x), req[r] # Idle \/ x # Idle
  PROVE  /\ InService \subseteq {r}
         /\ Good(items, loans, req[r])
         /\ Stored(items, loans) /\ Counted(loans)
         /\ req'[r] = x
<1>1. req'[r] = x /\ req[r] \in Request
  BY DEF TypeOK, Serve
<1>2. req[r] # Idle => r \in InService
  BY <1>1, IdleRequest DEF InService
<1>3. x # Idle => r \in InService'
  BY <1>1, IdleRequest DEF InService
<1>4. InService \subseteq {r}
  BY <1>2, <1>3 DEF OrderlyStep, Conserving
<1>5. Good(items, loans, req[r])
  <2>1. CASE r \in InService
    BY <2>1 DEF Conserving
  <2>2. CASE r \notin InService
    BY <1>2, <1>4, <2>2 DEF Conserving
  <2>3. QED
    BY <2>1, <2>2
<1>6. QED
  BY <1>1, <1>4, <1>5 DEF Conserving

\* What it leaves behind is what has to be conserved.
LEMMA Refocus ==
  ASSUME TypeOK, orderly', NEW r \in Requests, NEW x \in Request,
         Serve(r, x), InService \subseteq {r},
         Good(items', loans', x), Stored(items', loans'), Counted(loans')
  PROVE  Conserving'
<1>1. \A s \in Requests : req'[s] = IF s = r THEN x ELSE req[s]
  BY DEF TypeOK, Serve
<1>2. InService' \subseteq {r}
  BY <1>1 DEF InService
<1>3. InService' = {} => x = Idle
  BY <1>1, IdleRequest DEF InService
<1>4. /\ \A p, s \in InService' : p = s
      /\ \A s \in InService' : Good(items', loans', req'[s])
      /\ InService' = {} => Good(items', loans', Idle)
  BY <1>1, <1>2, <1>3
<1>5. QED
  BY <1>4 DEF Conserving

LEMMA MissingInt ==
  /\ \A row \in ItemRow : Missing(row) \in Int
  /\ \A loan \in Loan \union {NoLoan}, i \in Items : Out(loan, i) \in Int
BY DEF ItemRow, Missing, Out, Loan

\* An orderly step is taken.
Ordered == IInv /\ Conserving /\ orderly /\ orderly' /\ OrderlyStep

\* An item that is created or deleted, when nobody is in service.
LEMMA ItemKept ==
  ASSUME Ordered, NEW i \in Items, NEW row \in ItemRow,
         items' = [items EXCEPT ![i] = row], UNCHANGED <<loans, req>>,
         \/ items[i].state = "absent" /\ Missing(row) = 0 /\ row.state # "absent"
         \/ row.state = "deleted"
  PROVE  Conserving'
<1> USE DEF Ordered
<1>1. InService = {} /\ InService' = {}
  BY DEF OrderlyStep, InService
<1>2. Good(items, loans, Idle) /\ Stored(items, loans) /\ Counted(loans)
  BY <1>1 DEF Conserving
<1>3. items \in [Items -> ItemRow] /\ loans \in LoanTable
  BY DEF IInv, TypeOK, LoanTable
<1>4. Stored(items', loans')
  BY <1>2, <1>3 DEF Stored, LoanTable, Loan
<1>5. items[i].state = "absent" => Pieces(loans, i) = {}
  BY <1>2 DEF Stored, Pieces, Holds
<1>6. \A x : Due(loans, Idle, x) = 0
  BY DEF Due, Idle
<1>7. Balance(items', loans', Idle)
  <2> SUFFICES ASSUME NEW j \in Items, items'[j].state = "live"
               PROVE  Missing(items'[j]) = Cardinality(Pieces(loans, j)) + Due(loans, Idle, j)
    BY DEF Balance
  <2>1. CASE j = i
    <3>1. items'[j] = row
      BY <2>1, <1>3
    <3>2. Missing(row) = 0 /\ Pieces(loans, j) = {}
      BY <2>1, <3>1, <1>5
    <3>3. QED
      BY <3>1, <3>2, <1>6, FS_EmptySet
  <2>2. CASE j # i
    <3>1. items'[j] = items[j]
      BY <2>2, <1>3
    <3>2. QED
      BY <3>1, <1>2 DEF Good, Balance
  <2>3. QED
    BY <2>1, <2>2
<1>8. Current(items', loans', Idle)
  BY DEF Current, Idle
<1>9. QED
  BY <1>1, <1>2, <1>4, <1>7, <1>8 DEF Conserving, Good, Counted

\* A statement that reads, of a request that is first in service now or was:
\* the tables stay, and it owes what it owed.
LEMMA ReadKept ==
  ASSUME Ordered, NEW r \in Requests, NEW x \in Request, Serve(r, x),
         req[r] # Idle \/ x # Idle, UNCHANGED <<items, loans>>,
         \A i \in Items : Due(loans, x, i) = Due(loans, req[r], i),
         Current(items, loans, x)
  PROVE  Conserving'
<1> USE DEF Ordered
<1>1. /\ InService \subseteq {r}
      /\ Good(items, loans, req[r]) /\ Stored(items, loans) /\ Counted(loans)
  BY Focus DEF IInv
<1>2. Balance(items, loans, x)
  BY <1>1 DEF Good, Balance
<1>3. Good(items', loans', x) /\ Stored(items', loans') /\ Counted(loans')
  BY <1>1, <1>2 DEF Good
<1>4. QED
  BY <1>1, <1>3, Refocus DEF IInv

\* An UPDATE of a row that is live: what it takes is owed from then on.
LEMMA UpdateKept ==
  ASSUME Ordered, NEW r \in Requests, NEW x \in Request, Serve(r, x),
         req[r] # Idle, NEW i \in Items, NEW row \in ItemRow,
         UpdateItemRow(i, row), row.state = "live", items[i].state = "live", UNCHANGED loans,
         \A j \in Items : Due(loans, req[r], j) = 0,
         \A j \in Items \ {i} : Due(loans, x, j) = 0,
         Missing(row) = Missing(items[i]) + Due(loans, x, i),
         Current(items', loans, x)
  PROVE  Conserving'
<1> USE DEF Ordered
<1>1. /\ InService \subseteq {r}
      /\ Good(items, loans, req[r]) /\ Stored(items, loans) /\ Counted(loans)
  BY Focus DEF IInv
<1>2. items \in [Items -> ItemRow] /\ loans \in LoanTable
  BY DEF IInv, TypeOK, LoanTable
<1>3. \A j \in Items : items'[j] = IF j = i THEN row ELSE items[j]
  BY <1>2 DEF UpdateItemRow
<1>4. Stored(items', loans)
  BY <1>1, <1>2, <1>3 DEF Stored, LoanTable, Loan
<1>5. Balance(items', loans, x)
  <2> SUFFICES ASSUME NEW j \in Items, items'[j].state = "live"
               PROVE  Missing(items'[j]) = Cardinality(Pieces(loans, j)) + Due(loans, x, j)
    BY DEF Balance
  <2>1. items[j].state = "live"
    BY <1>3
  <2>2. Missing(items[j]) = Cardinality(Pieces(loans, j)) + 0
    BY <1>1, <2>1 DEF Good, Balance
  <2>3. Cardinality(Pieces(loans, j)) \in Nat
    BY <1>1, FS_CardinalityType DEF Counted
  <2>4. CASE j = i
    BY <1>3, <2>2, <2>3, <2>4
  <2>5. CASE j # i
    BY <1>3, <2>2, <2>5
  <2>6. QED
    BY <2>4, <2>5
<1>6. Good(items', loans', x) /\ Stored(items', loans') /\ Counted(loans')
  BY <1>1, <1>4, <1>5 DEF Good
<1>7. QED
  BY <1>1, <1>6, Refocus DEF IInv

\* A row of borrowings is written, which settles what was owed.
LEMMA RecordKeptInBook ==
  ASSUME Ordered, NEW r \in Requests, Finish(r), req[r] # Idle,
         NEW l \in Loans, NEW loan \in Loan, loan.qty >= 1,
         loans' = [loans EXCEPT ![l] = loan], UNCHANGED items,
         items[loan.item].state # "absent",
         \A i \in Items : Due(loans, req[r], i) = Out(loan, i) - Out(loans[l], i)
  PROVE  Conserving'
<1> USE DEF Ordered
<1>1. Idle \in Request /\ Serve(r, Idle)
  BY IdleRequest DEF Finish
<1>2. /\ InService \subseteq {r}
      /\ Good(items, loans, req[r]) /\ Stored(items, loans) /\ Counted(loans)
  BY <1>1, Focus DEF IInv
<1>3. loans \in LoanTable /\ loans' \in LoanTable
  BY DEF IInv, TypeOK, LoanTable
<1>4. loans'[l] = loan /\ \A k \in Loans \ {l} : loans'[k] = loans[k]
  BY <1>3 DEF LoanTable
<1>5. Recorded(loans[l]) /\ Recorded(loan)
  BY DEF IInv, Recorded
<1>6. \A i \in Items :
        /\ IsFiniteSet(Pieces(loans', i))
        /\ Cardinality(Pieces(loans, i)) \in Nat
        /\ Cardinality(Pieces(loans', i))
             = Cardinality(Pieces(loans, i)) - Out(loans[l], i) + Out(loan, i)
  <2> TAKE i \in Items
  <2>1. IsFiniteSet(Pieces(loans, i))
    BY <1>2 DEF Counted
  <2>2. Rewrites(loans, loans', l, loan)
    BY <1>3, <1>5 DEF Rewrites
  <2>3. QED
    BY <2>1, <2>2, Rewritten
<1>7. \A i \in Items : Out(loans[l], i) \in Int /\ Out(loan, i) \in Int
  BY <1>3, MissingInt DEF LoanTable
<1>8. Balance(items, loans', Idle)
  <2> SUFFICES ASSUME NEW i \in Items, items[i].state = "live"
               PROVE  Missing(items[i]) = Cardinality(Pieces(loans', i)) + Due(loans', Idle, i)
    BY DEF Balance
  <2>1. Due(loans', Idle, i) = 0
    BY DEF Due, Idle
  <2>2. Missing(items[i])
          = Cardinality(Pieces(loans, i)) + (Out(loan, i) - Out(loans[l], i))
    BY <1>2 DEF Good, Balance
  <2>3. Cardinality(Pieces(loans', i))
          = Cardinality(Pieces(loans, i)) - Out(loans[l], i) + Out(loan, i)
    BY <1>4, <1>6
  <2>4. /\ Cardinality(Pieces(loans, i)) \in Int
        /\ Out(loans[l], i) \in Int /\ Out(loan, i) \in Int
    BY <1>6, <1>7
  <2>5. QED
    BY <2>1, <2>2, <2>3, <2>4
<1>9. Stored(items, loans')
  BY <1>2, <1>4 DEF Stored
<1>10. Good(items', loans', Idle) /\ Stored(items', loans') /\ Counted(loans')
  BY <1>6, <1>8, <1>9 DEF Good, Current, Idle, Counted
<1>11. QED
  BY <1>1, <1>2, <1>10, Refocus DEF IInv

\* Which stock an orderly change of status moves is what it will record.
LEMMA MovementFits ==
  ASSUME NEW old, NEW new, <<old, new>> \in LifeOfALoan
  PROVE  /\ Movement(old, new) = "in" <=> old \in OutStatuses /\ new \notin OutStatuses
         /\ Movement(old, new) = "out" <=> old \notin OutStatuses /\ new \in OutStatuses
         /\ Movement(old, new) \in {"in", "out", "none"}
BY DEF LifeOfALoan, Movement, OutStatuses

LEMMA LendReadsKept ==
  ASSUME Ordered, NEW r \in Requests,
         \/ \E i \in Items, q \in Quantities, b \in BOOLEAN : UpdateItemRead(r, i, q, b)
         \/ \E i \in Items, q \in Quantities, s \in LendStatuses : CreateBorrowingRead(r, i, q, s)
         \/ \E l \in Loans, s \in Statuses : UpdateStatusReadLoan(r, l, s)
  PROVE  Conserving'
<1> USE DEF Ordered
<1>1. /\ items \in [Items -> ItemRow] /\ \A i \in Items : Bounded(items[i])
      /\ loans \in LoanTable /\ req \in [Requests -> Request]
  BY DEF IInv, TypeOK, LoanTable
<1>2. /\ req[r] = Idle /\ UNCHANGED <<items, loans>>
      /\ \A i : Due(loans, req[r], i) = 0
  <2>1. req[r] = Idle /\ UNCHANGED <<items, loans>>
    BY Zenon DEF UpdateItemRead, CreateBorrowingRead, UpdateStatusReadLoan
  <2>2. \A i : Due(loans, Idle, i) = 0
    BY DEF Due, Idle
  <2>3. QED
    BY <2>1, <2>2
<1>3. ASSUME NEW i \in Items, NEW q \in Quantities, NEW b \in BOOLEAN, UpdateItemRead(r, i, q, b)
      PROVE  Conserving'
  <2> DEFINE row == Resized(items[i], Normal(q), b)
             x == [pc |-> "edit", item |-> i, write |-> row]
  <2>1. row \in ItemRow /\ Normal(q) \in Int
    BY <1>1, NormalPositive, ResizedBounded, QuantitiesAssumption
  <2>2. x \in Request
    BY <2>1 DEF Request
  <2>3. Serve(r, x) /\ Live(i)
    BY <1>3 DEF UpdateItemRead
  <2>4. Begins(r, "edit") /\ req'[r].write = row /\ req'[r].item = i
    BY <1>1, <1>2, <2>3 DEF Serve, Begins
  <2>5. row.qty >= items[i].qty - items[i].avail
    BY <2>4 DEF OrderlyStep
  <2>6. /\ row.qty = Normal(q) /\ row.state = items[i].state
        /\ row.avail = AtLeastZero(Normal(q) - AtLeastZero(items[i].qty - items[i].avail))
    BY DEF Resized
  <2>7. items[i] \in ItemRow /\ Bounded(items[i])
    BY <1>1
  <2>8. Missing(row) = Missing(items[i])
    <3> HIDE DEF row
    <3>1. QED
      BY <2>1, <2>5, <2>6, <2>7 DEF Missing, AtLeastZero, Bounded, ItemRow
  <2>9. Current(items, loans, x)
    BY <2>3, <2>6, <2>8 DEF Current, Live
  <2>10. \A j : Due(loans, x, j) = 0
    BY DEF Due
  <2>11. x # Idle
    BY DEF Idle
  <2>12. QED
    BY <1>2, <2>2, <2>3, <2>9, <2>10, <2>11, ReadKept
<1>4. ASSUME NEW i \in Items, NEW q \in Quantities, NEW s \in LendStatuses,
             CreateBorrowingRead(r, i, q, s)
      PROVE  Conserving'
  <2> DEFINE loan == [item |-> i, qty |-> Normal(q), status |-> Default(s)]
             x == [pc |-> "lend_stock", loan |-> loan, write |-> TakenFrom(items[i], loan.qty)]
             y == [pc |-> "lend_insert", loan |-> loan, write |-> items[i]]
  <2>1. loan \in Loan /\ loan.qty >= 1
    BY NormalPositive, QuantitiesAssumption, StatusAssumption DEF Loan, Default, Statuses
  <2>2. items[i] \in ItemRow /\ Live(i) /\ TakenFrom(items[i], loan.qty) \in ItemRow
    BY <1>1, <1>4, <2>1, MovesBounded DEF CreateBorrowingRead, Loan
  <2>3. x \in Request /\ y \in Request /\ x # Idle /\ y # Idle
    BY <2>1, <2>2 DEF Request, Idle
  <2>4. \A j : Due(loans, x, j) = 0
    BY DEF Due
  <2>5. CASE loan.status \in {"approved", "borrowed"}
    <3>1. Serve(r, x)
      BY <1>4, <2>5 DEF CreateBorrowingRead
    <3>2. Out(loan, i) = loan.qty \/ loan = NoLoan
      BY <2>5 DEF Out, OutStatuses
    <3>3. /\ TakenFrom(items[i], loan.qty).qty = items[i].qty
          /\ TakenFrom(items[i], loan.qty).avail = items[i].avail - loan.qty
          /\ TakenFrom(items[i], loan.qty).state = items[i].state
      BY <2>2 DEF TakenFrom, ItemRow
    <3>4. items[i].qty \in Int /\ items[i].avail \in Int /\ loan.qty \in Int
      BY <2>1, <2>2 DEF ItemRow, Loan
    <3>5. Missing(TakenFrom(items[i], loan.qty)) = Missing(items[i]) + loan.qty
      BY <3>3, <3>4 DEF Missing
    <3>6. loan # NoLoan
      BY <2>1, NoLoanAssumption
    <3>7. Current(items, loans, x)
      BY <2>2, <3>2, <3>3, <3>5, <3>6 DEF Current, Live
    <3>8. QED
      BY <1>2, <2>3, <2>4, <3>1, <3>7, ReadKept
  <2>6. CASE loan.status \notin {"approved", "borrowed"}
    <3>1. Serve(r, y)
      BY <1>4, <2>6 DEF CreateBorrowingRead
    <3>2. Begins(r, "lend_insert") /\ req'[r].loan = loan
      BY <1>1, <1>2, <3>1 DEF Serve, Begins
    <3>3. loan.status \notin OutStatuses
      BY <2>6, <3>2 DEF OrderlyStep, OutStatuses
    <3>4. \A j : Due(loans, y, j) = 0
      BY <3>3 DEF Due, Out
    <3>5. Current(items, loans, y)
      BY <2>2 DEF Current, Live
    <3>6. QED
      BY <1>2, <2>3, <3>1, <3>4, <3>5, ReadKept
  <2>7. QED
    BY <2>5, <2>6
<1>5. ASSUME NEW l \in Loans, NEW s \in Statuses, UpdateStatusReadLoan(r, l, s)
      PROVE  Conserving'
  <2> DEFINE x == [pc |-> "status_item", id |-> l, loan |-> loans[l], status |-> s]
  <2>1. loans[l] \in Loan
    BY <1>1, <1>5 DEF UpdateStatusReadLoan, LoanTable
  <2>2. x \in Request /\ x # Idle /\ Serve(r, x)
    BY <1>5, <2>1 DEF Request, Idle, UpdateStatusReadLoan
  <2>3. req'[r] = x
    BY <1>1, <2>2 DEF Serve
  <2>4. Begins(r, "status_item") /\ Asks(r) = <<x.loan.status, x.status>>
    BY <1>2, <2>3 DEF Begins, Asks
  <2>5. Current(items, loans, x)
    BY <2>4 DEF OrderlyStep, Current
  <2>6. \A j : Due(loans, x, j) = 0
    BY DEF Due
  <2>7. QED
    BY <1>2, <2>2, <2>5, <2>6, ReadKept
<1>6. QED
  BY <1>3, <1>4, <1>5

\* Reading the item of a borrowing whose status changes.
LEMMA ReadItemKept ==
  ASSUME Ordered, NEW r \in Requests, UpdateStatusReadItem(r)
  PROVE  Conserving'
<1> USE DEF Ordered
<1> DEFINE x == req[r]
           loan == x.loan
           row == items[loan.item]
           new == [loan EXCEPT !.status = x.status]
           next(pc, image) == [pc |-> pc, id |-> x.id, loan |-> new, write |-> image]
           move == Movement(loan.status, x.status)
<1>1. /\ items \in [Items -> ItemRow] /\ \A i \in Items : Bounded(items[i])
      /\ loans \in LoanTable /\ x \in Request /\ x.pc = "status_item"
      /\ UNCHANGED <<items, loans>>
  BY DEF IInv, TypeOK, LoanTable, UpdateStatusReadItem
<1>2. x # Idle
  BY <1>1 DEF Idle
<1>3. /\ loan \in Loan /\ loan.qty >= 1
      /\ x.id \in Loans /\ x.status \in Statuses
  BY <1>1, Shape DEF IInv, Prepared, HoldsLoan
<1>4. \E y \in Request : Serve(r, y)
  <2>1. row \in ItemRow /\ Bounded(row)
    BY <1>1, <1>3 DEF Loan
  <2>2. /\ PutBack(row, loan.qty) \in ItemRow /\ TakenFrom(row, loan.qty) \in ItemRow
    BY <1>3, <2>1, MovesBounded DEF Loan
  <2>3. new \in Loan
    BY <1>3 DEF Loan
  <2>4. /\ next("status_save", row) \in Request
        /\ next("status_stock", PutBack(row, loan.qty)) \in Request
        /\ next("status_stock", TakenFrom(row, loan.qty)) \in Request
    BY <1>3, <2>1, <2>2, <2>3 DEF Request
  <2>5. \/ Serve(r, Idle) \/ Serve(r, next("status_save", row))
        \/ Serve(r, next("status_stock", PutBack(row, loan.qty)))
        \/ Serve(r, next("status_stock", TakenFrom(row, loan.qty)))
    BY Zenon DEF UpdateStatusReadItem, Finish
  <2>6. QED
    BY <2>4, <2>5, IdleRequest
<1>5. /\ InService \subseteq {r} /\ Good(items, loans, x)
      /\ Stored(items, loans) /\ Counted(loans)
  BY <1>2, <1>4, Focus DEF IInv
<1>6. loans[x.id] = loan /\ <<loan.status, x.status>> \in LifeOfALoan
  BY <1>1, <1>5 DEF Good, Current
<1>7. loan # NoLoan
  BY <1>3, NoLoanAssumption
<1>8. /\ move = "in" <=> loan.status \in OutStatuses /\ x.status \notin OutStatuses
      /\ move = "out" <=> loan.status \notin OutStatuses /\ x.status \in OutStatuses
  BY <1>6, MovementFits
<1>9. new \in Loan /\ new.item = loan.item /\ new.qty = loan.qty /\ new.status = x.status
      /\ new # NoLoan
  BY <1>3, NoLoanAssumption DEF Loan
<1>10. \A i \in Items : Due(loans, x, i) = 0
  BY <1>1 DEF Due
<1>11. \A i \in Items :
         Out(new, i) - Out(loan, i) =
           IF i # loan.item \/ move \notin {"in", "out"} THEN 0
           ELSE IF move = "out" THEN loan.qty ELSE -loan.qty
  BY <1>3, <1>7, <1>8, <1>9 DEF Out, Loan
<1>12. row \in ItemRow /\ Bounded(row) /\ loan.item \in Items
  BY <1>1, <1>3 DEF Loan
<1>13. /\ row.qty \in Int /\ row.avail \in Int /\ loan.qty \in Int
  BY <1>3, <1>12 DEF ItemRow, Loan
<1>14. CASE Finish(r)
  <2>1. Serve(r, Idle) /\ Idle \in Request
    BY <1>14, IdleRequest DEF Finish
  <2>2. \A i \in Items : Due(loans, Idle, i) = 0
    BY DEF Due, Idle
  <2>3. Current(items, loans, Idle)
    BY DEF Current, Idle
  <2>4. QED
    BY <1>1, <1>2, <1>10, <2>1, <2>2, <2>3, ReadKept
<1>15. CASE move = "none" /\ Serve(r, next("status_save", row))
  <2> DEFINE y == next("status_save", row)
  <2>1. y \in Request
    BY <1>3, <1>9, <1>12 DEF Request
  <2>2. \A i \in Items : Due(loans, y, i) = 0
    <3>1. y.pc = "status_save" /\ y.loan = new /\ y.id = x.id
      OBVIOUS
    <3>2. \A i : Due(loans, y, i) = Out(new, i) - Out(loan, i)
      BY <1>6, <3>1 DEF Due
    <3>3. QED
      BY <1>11, <1>15, <3>2
  <2>3. Current(items, loans, y)
    BY <1>6, <1>7, <1>9 DEF Current
  <2>4. QED
    BY <1>1, <1>2, <1>10, <1>15, <2>1, <2>2, <2>3, ReadKept
<1>16. ASSUME NEW image \in ItemRow, image.state = "live",
              Missing(image) = Missing(row) + Out(new, loan.item) - Out(loan, loan.item),
              Serve(r, next("status_stock", image))
       PROVE  Conserving'
  <2> DEFINE y == next("status_stock", image)
  <2>1. y \in Request
    BY <1>3, <1>9, <1>16 DEF Request
  <2>2. \A i \in Items : Due(loans, y, i) = 0
    BY DEF Due
  <2>3. Current(items, loans, y)
    BY <1>6, <1>7, <1>9, <1>16 DEF Current
  <2>4. QED
    BY <1>1, <1>2, <1>10, <1>16, <2>1, <2>2, <2>3, ReadKept
<1>17. CASE Live(loan.item) /\ move = "in" /\ Serve(r, next("status_stock", PutBack(row, loan.qty)))
  <2> DEFINE image == PutBack(row, loan.qty)
  <2>1. image \in ItemRow /\ image.state = "live"
    BY <1>3, <1>12, <1>13, <1>17, MovesBounded DEF PutBack, Live, ItemRow
  <2>2. Missing(row) = Cardinality(Pieces(loans, loan.item))
    <3>1. Missing(row) = Cardinality(Pieces(loans, loan.item)) + 0
      BY <1>5, <1>10, <1>12, <1>17 DEF Good, Balance, Live
    <3>2. Cardinality(Pieces(loans, loan.item)) \in Nat
      BY <1>5, <1>12, FS_CardinalityType DEF Counted
    <3>3. QED
      BY <3>1, <3>2
  <2>3. Cardinality(Pieces(loans, loan.item)) >= loan.qty
    <3>1. Rewrites(loans, loans, x.id, loan)
      BY <1>1, <1>3, <1>6 DEF Rewrites, Recorded, LoanTable
    <3>2. Cardinality(Pieces(loans, loan.item)) >= Out(loans[x.id], loan.item)
      BY <1>3, <1>5, <1>12, <3>1, Rewritten DEF Counted
    <3>3. Out(loans[x.id], loan.item) = loan.qty
      BY <1>6, <1>7, <1>8, <1>17 DEF Out
    <3>4. QED
      BY <3>2, <3>3
  <2>4. row.avail + loan.qty <= row.qty
    <3>1. Missing(row) >= loan.qty
      BY <2>2, <2>3
    <3>2. Missing(row) = row.qty - row.avail
      BY DEF Missing
    <3> HIDE DEF row, loan
    <3>3. QED
      BY <1>13, <3>1, <3>2
  <2>5. image.qty = row.qty /\ image.avail = row.avail + loan.qty
    <3> HIDE DEF row, loan
    <3>1. QED
      BY <1>12, <1>13, <2>4 DEF PutBack, AtMost, ItemRow
  <2>6. Missing(image) = Missing(row) - loan.qty
    <3> HIDE DEF image
    <3>1. QED
      BY <1>13, <2>5 DEF Missing
  <2>7. Out(new, loan.item) - Out(loan, loan.item) = -loan.qty
    BY <1>11, <1>12, <1>17
  <2>8. Out(new, loan.item) \in Int /\ Out(loan, loan.item) \in Int /\ Missing(row) \in Int
    BY <1>3, <1>9, <1>12, MissingInt
  <2>9. Missing(image) = Missing(row) + Out(new, loan.item) - Out(loan, loan.item)
    <3> HIDE DEF image, new, row, loan
    <3>1. loan.qty \in Int
      BY <1>13
    <3>2. QED
      BY <2>6, <2>7, <2>8, <3>1
  <2>10. QED
    BY <1>16, <1>17, <2>1, <2>9
<1>18. CASE /\ Live(loan.item) /\ move = "out"
            /\ Serve(r, next("status_stock", TakenFrom(row, loan.qty)))
  <2> DEFINE image == TakenFrom(row, loan.qty)
  <2>1. image \in ItemRow /\ image.state = "live"
    BY <1>3, <1>12, <1>13, <1>18, MovesBounded DEF TakenFrom, Live, ItemRow
  <2>2. image.qty = row.qty /\ image.avail = row.avail - loan.qty
    BY <1>12 DEF TakenFrom, ItemRow
  <2>3. Missing(image) = Missing(row) + loan.qty
    <3> HIDE DEF image
    <3>1. QED
      BY <1>13, <2>2 DEF Missing
  <2>4. Out(new, loan.item) - Out(loan, loan.item) = loan.qty
    BY <1>11, <1>12, <1>18
  <2>5. Out(new, loan.item) \in Int /\ Out(loan, loan.item) \in Int /\ Missing(row) \in Int
    BY <1>3, <1>9, <1>12, MissingInt
  <2>6. Missing(image) = Missing(row) + Out(new, loan.item) - Out(loan, loan.item)
    <3> HIDE DEF image, new, row, loan
    <3>1. loan.qty \in Int
      BY <1>13
    <3>2. QED
      BY <2>3, <2>4, <2>5, <3>1
  <2>7. QED
    BY <1>16, <1>18, <2>1, <2>6
<1>19. QED
  BY <1>14, <1>15, <1>17, <1>18 DEF UpdateStatusReadItem

\* The statement after the item was read, or the death of the request.
LEMMA WritingKept ==
  ASSUME Ordered, NEW r \in Requests,
         \/ UpdateItemWrite(r) \/ CreateBorrowingStock(r) \/ UpdateStatusStock(r)
         \/ \E l \in Loans : CreateBorrowingInsert(r, l)
         \/ UpdateStatusSave(r) \/ Fail(r)
  PROVE  Conserving'
<1> USE DEF Ordered
<1> DEFINE x == req[r]
<1>1. /\ items \in [Items -> ItemRow] /\ loans \in LoanTable
      /\ x \in Request /\ Prepared(x) /\ x # Idle
  BY DEF IInv, TypeOK, LoanTable, Idle, UpdateItemWrite, CreateBorrowingStock, UpdateStatusStock,
         CreateBorrowingInsert, UpdateStatusSave, Fail
<1>2. Idle \in Request /\ \A table, i : Due(table, Idle, i) = 0
  BY IdleRequest DEF Due, Idle
<1>3. \E y \in Request : Serve(r, y)
  <2>1. x.pc = "lend_stock" => [x EXCEPT !.pc = "lend_insert"] \in Request
    BY <1>1 DEF Request, Idle
  <2>2. x.pc = "status_stock" => [x EXCEPT !.pc = "status_save"] \in Request
    BY <1>1 DEF Request, Idle
  <2>3. QED
    BY <1>2, <2>1, <2>2 DEF UpdateItemWrite, CreateBorrowingStock, UpdateStatusStock,
         CreateBorrowingInsert, UpdateStatusSave, Fail, Finish
<1>4. /\ InService \subseteq {r} /\ Good(items, loans, x)
      /\ Stored(items, loans) /\ Counted(loans)
  BY <1>1, <1>3, Focus DEF IInv
<1>5. \A rows, table : Current(rows, table, Idle)
  BY DEF Current, Idle
<1>6. ASSUME Finish(r), UNCHANGED <<items, loans>>, \A i \in Items : Due(loans, x, i) = 0
      PROVE  Conserving'
  BY <1>1, <1>2, <1>5, <1>6, ReadKept DEF Finish
<1>7. CASE UpdateItemWrite(r)
  <2>1. /\ x.pc = "edit" /\ x.item \in Items /\ x.write \in ItemRow
        /\ Finish(r) /\ UNCHANGED loans
    BY <1>1, <1>7, Shape DEF UpdateItemWrite, HoldsImage
  <2>2. \A i \in Items : Due(loans, x, i) = 0
    BY <2>1 DEF Due
  <2>3. CASE Live(x.item)
    <3>1. UpdateItemRow(x.item, x.write) /\ items[x.item].state = "live"
      BY <1>7, <2>3 DEF UpdateItemWrite, Live
    <3>2. x.write.state = "live" /\ Missing(x.write) = Missing(items[x.item])
      BY <1>4, <2>1 DEF Good, Current
    <3>3. Missing(items[x.item]) \in Int
      BY <1>1, <2>1, MissingInt
    <3>4. Missing(x.write) = Missing(items[x.item]) + 0
      BY <3>2, <3>3
    <3>5. QED
      BY <1>1, <1>2, <1>5, <2>1, <2>2, <3>1, <3>2, <3>4, UpdateKept DEF Finish
  <2>4. CASE ~Live(x.item)
    BY <1>6, <1>7, <2>1, <2>2, <2>4 DEF UpdateItemWrite
  <2>5. QED
    BY <2>3, <2>4
<1>8. CASE CreateBorrowingStock(r)
  <2> DEFINE y == [x EXCEPT !.pc = "lend_insert"]
             i == x.loan.item
  <2>1. /\ x.pc = "lend_stock" /\ x.loan \in Loan /\ i \in Items /\ x.write \in ItemRow
        /\ UNCHANGED loans
    BY <1>1, <1>8, Shape DEF CreateBorrowingStock, HoldsImage, HoldsLoan, Loan
  <2>2. \A j \in Items : Due(loans, x, j) = 0
    BY <2>1 DEF Due
  <2>3. y \in Request /\ y.pc = "lend_insert" /\ y.loan = x.loan
    BY <1>1, <2>1 DEF Request, Idle
  <2>4. CASE ~Live(i)
    BY <1>6, <1>8, <2>1, <2>2, <2>4 DEF CreateBorrowingStock
  <2>5. CASE Live(i)
    <3>1. /\ UpdateItemRow(i, x.write) /\ items[i].state = "live" /\ Serve(r, y)
      BY <1>8, <2>5 DEF CreateBorrowingStock, Live
    <3>2. x.write.state = "live" /\ Missing(x.write) = Missing(items[i]) + Out(x.loan, i)
      BY <1>4, <2>1 DEF Good, Current
    <3>3. \A j : Due(loans, y, j) = Out(x.loan, j)
      BY <2>3 DEF Due
    <3>4. \A j \in Items \ {i} : Due(loans, y, j) = 0
      BY <3>3 DEF Out
    <3>5. items'[i].state # "absent"
      BY <1>1, <2>1, <3>1, <3>2 DEF UpdateItemRow
    <3>6. Current(items', loans, y)
      BY <2>3, <3>5 DEF Current
    <3>7. QED
      BY <1>1, <2>1, <2>2, <2>3, <3>1, <3>2, <3>3, <3>4, <3>6, UpdateKept
  <2>6. QED
    BY <2>4, <2>5
<1>9. CASE UpdateStatusStock(r)
  <2> DEFINE y == [x EXCEPT !.pc = "status_save"]
             i == x.loan.item
  <2>1. /\ x.pc = "status_stock" /\ x.loan \in Loan /\ i \in Items /\ x.write \in ItemRow
        /\ x.id \in Loans /\ UNCHANGED loans
    BY <1>1, <1>9, Shape DEF UpdateStatusStock, HoldsImage, HoldsLoan, Loan
  <2>2. \A j \in Items : Due(loans, x, j) = 0
    BY <2>1 DEF Due
  <2>3. y \in Request /\ y.pc = "status_save" /\ y.loan = x.loan /\ y.id = x.id
    BY <1>1, <2>1 DEF Request, Idle
  <2>4. CASE ~Live(i)
    BY <1>6, <1>9, <2>1, <2>2, <2>4 DEF UpdateStatusStock
  <2>5. CASE Live(i)
    <3>1. /\ UpdateItemRow(i, x.write) /\ items[i].state = "live" /\ Serve(r, y)
      BY <1>9, <2>5 DEF UpdateStatusStock, Live
    <3>2. /\ x.write.state = "live" /\ loans[x.id] # NoLoan /\ i = loans[x.id].item
          /\ Missing(x.write) = Missing(items[i]) + Out(x.loan, i) - Out(loans[x.id], i)
      BY <1>4, <2>1 DEF Good, Current
    <3>3. \A j : Due(loans, y, j) = Out(x.loan, j) - Out(loans[x.id], j)
      BY <2>3 DEF Due
    <3>4. \A j \in Items \ {i} : Due(loans, y, j) = 0
      BY <3>2, <3>3 DEF Out
    <3>5. Missing(x.write) = Missing(items[i]) + Due(loans, y, i)
      <4>1. /\ Missing(items[i]) \in Int /\ Out(x.loan, i) \in Int /\ Out(loans[x.id], i) \in Int
        BY <1>1, <2>1, MissingInt DEF LoanTable
      <4>2. QED
        BY <3>2, <3>3, <4>1
    <3>6. Current(items', loans, y)
      BY <2>3, <3>2 DEF Current
    <3>7. QED
      BY <1>1, <2>1, <2>2, <2>3, <3>1, <3>2, <3>4, <3>5, <3>6, UpdateKept
  <2>6. QED
    BY <2>4, <2>5
<1>10. ASSUME NEW l \in Loans, CreateBorrowingInsert(r, l)
       PROVE  Conserving'
  <2>1. /\ x.pc = "lend_insert" /\ x.loan \in Loan /\ x.loan.qty >= 1 /\ loans[l] = NoLoan
        /\ loans' = [loans EXCEPT ![l] = x.loan] /\ Finish(r) /\ UNCHANGED items
    BY <1>1, <1>10, Shape DEF CreateBorrowingInsert, HoldsLoan, Prepared
  <2>2. items[x.loan.item].state # "absent"
    BY <1>4, <2>1 DEF Good, Current
  <2>3. \A i \in Items : Due(loans, x, i) = Out(x.loan, i) - Out(loans[l], i)
    <3>1. \A i \in Items : Due(loans, x, i) = Out(x.loan, i) /\ Out(loans[l], i) = 0
      BY <2>1 DEF Due, Out
    <3>2. \A i \in Items : Out(x.loan, i) \in Int
      BY <2>1, MissingInt
    <3>3. QED
      BY <3>1, <3>2
  <2>4. QED
    BY <1>1, <2>1, <2>2, <2>3, RecordKeptInBook
<1>11. CASE UpdateStatusSave(r)
  <2>1. /\ x.pc = "status_save" /\ x.loan \in Loan /\ x.loan.qty >= 1 /\ x.id \in Loans
        /\ loans' = [loans EXCEPT ![x.id] = x.loan] /\ Finish(r) /\ UNCHANGED items
    BY <1>1, <1>11, Shape DEF UpdateStatusSave, HoldsLoan, Prepared
  <2>2. loans[x.id] # NoLoan /\ x.loan.item = loans[x.id].item
    BY <1>4, <2>1 DEF Good, Current
  <2>3. items[x.loan.item].state # "absent"
    BY <1>4, <2>1, <2>2 DEF Stored
  <2>4. \A i \in Items : Due(loans, x, i) = Out(x.loan, i) - Out(loans[x.id], i)
    BY <2>1 DEF Due
  <2>5. QED
    BY <1>1, <2>1, <2>3, <2>4, RecordKeptInBook
<1>12. CASE Fail(r)
  <2>1. Finish(r) /\ UNCHANGED <<items, loans>>
    BY <1>12 DEF Fail
  <2>2. x.pc # "lend_insert"
    BY <2>1 DEF OrderlyStep
  <2>3. x.pc = "status_save" => loans[x.id] = x.loan /\ x.id \in Loans /\ x.loan \in Loan
    BY <1>1, <2>1, Shape DEF OrderlyStep, HoldsLoan
  <2>4. \A i \in Items : Due(loans, x, i) = 0
    <3> TAKE i \in Items
    <3>1. x.pc = "status_save" => Out(x.loan, i) \in Int
      BY <2>3, MissingInt
    <3>2. CASE x.pc = "status_save"
      <4>1. Due(loans, x, i) = Out(x.loan, i) - Out(loans[x.id], i)
        BY <3>2 DEF Due
      <4>2. QED
        BY <2>3, <3>1, <3>2, <4>1
    <3>3. CASE x.pc # "status_save"
      BY <2>2, <3>3 DEF Due
    <3>4. QED
      BY <3>2, <3>3
  <2>5. QED
    BY <1>6, <2>1, <2>4
<1>13. QED
  BY <1>7, <1>8, <1>9, <1>10, <1>11, <1>12

LEMMA ConservingStep ==
  ASSUME IInv, Conserving, [WatchedNext]_<<vars, orderly>>
  PROVE  Conserving'
<1>1. UNCHANGED orderly
  BY DEF WatchedNext
<1>2. CASE ~orderly
  BY <1>1, <1>2 DEF Conserving
<1>3. CASE orderly /\ UNCHANGED vars
  BY <1>1, <1>3 DEF Conserving, vars, InService
<1>4. CASE orderly /\ WatchedNext
  <2>1. Ordered /\ Next
    BY <1>1, <1>4 DEF Ordered, WatchedNext
  <2>2. ASSUME NEW i \in Items, NEW q \in Quantities, NEW b \in BOOLEAN, CreateItem(i, q, b)
        PROVE  Conserving'
    <3> DEFINE row == [state |-> "live", qty |-> Normal(q), avail |-> Normal(q), borrowable |-> b]
    <3>1. Normal(q) \in Int
      BY NormalPositive, QuantitiesAssumption
    <3>2. row \in ItemRow /\ row.state # "absent" /\ Missing(row) = 0
      BY <3>1, RowType DEF Missing
    <3>3. /\ items' = [items EXCEPT ![i] = row] /\ items[i].state = "absent"
          /\ UNCHANGED <<loans, req>>
      BY <2>2 DEF CreateItem
    <3>4. QED
      BY <2>1, <3>2, <3>3, ItemKept
  <2>3. ASSUME NEW i \in Items, DeleteItem(i)
        PROVE  Conserving'
    <3> DEFINE row == [items[i] EXCEPT !.state = "deleted"]
    <3>1. items[i] \in ItemRow /\ items \in [Items -> ItemRow]
      BY DEF IInv, TypeOK
    <3>2. row \in ItemRow /\ row.state = "deleted"
      BY <3>1 DEF ItemRow
    <3>3. items' = [items EXCEPT ![i] = row] /\ UNCHANGED <<loans, req>>
      BY <2>3, <3>1 DEF DeleteItem
    <3>4. QED
      BY <2>1, <3>2, <3>3, ItemKept
  <2>4. ASSUME NEW r \in Requests,
               \/ \E i \in Items, q \in Quantities :
                    \/ \E b \in BOOLEAN : UpdateItemRead(r, i, q, b)
                    \/ \E s \in LendStatuses : CreateBorrowingRead(r, i, q, s)
               \/ \E l \in Loans, s \in Statuses : UpdateStatusReadLoan(r, l, s)
        PROVE  Conserving'
    BY <2>1, <2>4, LendReadsKept
  <2>5. ASSUME NEW r \in Requests,
               \/ UpdateItemWrite(r) \/ CreateBorrowingStock(r) \/ UpdateStatusStock(r)
               \/ \E l \in Loans : CreateBorrowingInsert(r, l)
               \/ UpdateStatusSave(r) \/ Fail(r)
        PROVE  Conserving'
    BY <2>1, <2>5, WritingKept
  <2>6. ASSUME NEW r \in Requests, UpdateStatusReadItem(r)
        PROVE  Conserving'
    BY <2>1, <2>6, ReadItemKept
  <2>7. QED
    BY <2>1, <2>2, <2>3, <2>4, <2>5, <2>6 DEF Next
<1>5. QED
  BY <1>1, <1>2, <1>3, <1>4

LEMMA ConservingAtFirst == Init => Conserving
<1> SUFFICES ASSUME Init PROVE Conserving
  OBVIOUS
<1>1. InService = {}
  BY DEF Init, InService, Idle
<1>2. \A i : Pieces(loans, i) = {}
  BY DEF Init, Pieces, Holds
<1>3. Counted(loans)
  BY <1>2, FS_EmptySet DEF Counted
<1>4. Stored(items, loans)
  BY DEF Init, Stored
<1>5. Good(items, loans, Idle)
  <2>1. Current(items, loans, Idle)
    BY DEF Current, Idle
  <2>2. \A i \in Items : items[i].state = "absent"
    BY DEF Init, NoItem
  <2>3. QED
    BY <2>1, <2>2 DEF Good, Balance
<1>6. QED
  BY <1>1, <1>3, <1>4, <1>5 DEF Conserving

\* Between requests of an orderly behaviour, what is missing from the shelf of a
\* live item is what its borrowings account for: the statements of a handler
\* add up, and no handler undoes what another did.
THEOREM StockAccountedFor == WatchedSpec => []StockConserved
<1>1. WatchedInit => IInv /\ Conserving
  BY Initially, ConservingAtFirst DEF WatchedInit
<1>2. IInv /\ Conserving /\ [WatchedNext]_<<vars, orderly>> => IInv' /\ Conserving'
  <2> SUFFICES ASSUME IInv, Conserving, [WatchedNext]_<<vars, orderly>>
               PROVE  IInv' /\ Conserving'
    OBVIOUS
  <2>1. [Next]_vars
    BY DEF WatchedNext
  <2>2. QED
    BY <2>1, Step, ConservingStep
<1>3. IInv /\ Conserving => StockConserved
  <2> SUFFICES ASSUME IInv, Conserving, orderly, InService = {},
                      NEW i \in Items, Live(i)
               PROVE  items[i].qty - items[i].avail = LentOut(i)
    BY DEF StockConserved
  <2>1. Missing(items[i]) = Cardinality(Pieces(loans, i)) + 0
    BY DEF Conserving, Good, Balance, Live, Due, Idle
  <2>2. Cardinality(Pieces(loans, i)) \in Nat
    BY FS_CardinalityType DEF Conserving, Counted
  <2>3. QED
    BY <2>1, <2>2 DEF LentOut, Missing
<1>4. QED
  BY <1>1, <1>2, <1>3, PTL DEF WatchedSpec

\* So between requests that come one at a time no piece is promised twice: that it
\* is (NeverOverLent does not hold of Spec) takes two requests at once, a handler
\* that dies, or a borrowing that lives otherwise than documented (CreateBorrowing,
\* UpdateBorrowingStatus).
COROLLARY NothingLentTwice == WatchedSpec => [](orderly /\ InService = {} => NeverOverLent)
<1>1. WatchedSpec => Spec
  <2>1. WatchedInit => Init
    BY DEF WatchedInit
  <2>2. [WatchedNext]_<<vars, orderly>> => [Next]_vars
    BY DEF WatchedNext
  <2>3. QED
    BY <2>1, <2>2, PTL DEF WatchedSpec, Spec
<1>2. TypeOK /\ StockBounds /\ StockConserved => (orderly /\ InService = {} => NeverOverLent)
  <2> SUFFICES ASSUME TypeOK, StockBounds, StockConserved, orderly, InService = {},
                      NEW i \in Items, Live(i)
               PROVE  LentOut(i) <= items[i].qty
    BY DEF NeverOverLent
  <2>1. items[i].qty - items[i].avail = LentOut(i) /\ 0 <= items[i].avail
    BY DEF StockConserved, StockBounds
  <2>2. items[i].qty \in Int /\ items[i].avail \in Int
    BY DEF TypeOK, ItemRow
  <2>3. QED
    BY <2>1, <2>2
<1>3. QED
  BY <1>1, <1>2, StoreTypeCorrect, StockIsBounded, StockAccountedFor, PTL

-----------------------------------------------------------------------------
(***************************************************************************)
(* The families.  The row locks of a promotion keep true what its          *)
(* statements have read, so that its last step moves everybody under the   *)
(* old head and nobody else; every person who was entered has one row, in  *)
(* one of the two tables, under the head of that family; and a row that is *)
(* not shown belongs to a person who was removed.                          *)
(***************************************************************************)

HistoryTyped ==
  /\ root \in [ResidentIds -> ResidentIds \union {NoRow}]
  /\ entered \in [People -> ResidentIds \union {NoRow}]
  /\ removed \subseteq People
  /\ housed \in [Homes -> ResidentIds \union {NoRow}]
  /\ past \subseteq Kinds \X ResidentIds

\* A row of another table names a resident that exists, too.
RecordsNameRows == \A e \in records : IsRow(residents[e[2]])

Promotes(t) == t.pc \in {"member", "relink", "homes", "drop"}

\* What a promotion has read is still so.
StillRead(t) ==
  /\ IsRow(residents[t.head]) /\ residents[t.head].person = t.old
  /\ t.pc # "member" => t.member \in Under(t.head) /\ members[t.member].person = t.heir
  /\ t.pc \in {"homes", "drop"} => t.moved = Under(t.head) \ {t.member}
  /\ t.pc = "drop" => /\ t.settled = {h \in Homes : homes[h] = t.head}
                      /\ t.kept = {k \in Kinds \intersect Relinked : <<k, t.head>> \in records}

\* No two requests promote under one head, or add one person, or add one who
\* is entered.
TasksApart ==
  /\ \A q \in Clerks : Promotes(task[q]) => StillRead(task[q])
  /\ \A p, q \in Clerks :
       Promotes(task[p]) /\ Promotes(task[q]) /\ task[p].head = task[q].head => p = q
  /\ \A q \in Clerks : task[q].pc = "add" => entered[task[q].person] = NoRow
  /\ \A p, q \in Clerks :
       task[p].pc = "add" /\ task[q].pc = "add" /\ task[p].person = task[q].person => p = q

\* The rows of a person, and the family each of them is in.
OneRow ==
  /\ \A r, s \in ResidentIds :
       IsRow(residents[r]) /\ IsRow(residents[s]) /\ residents[r].person = residents[s].person
         => r = s
  /\ \A m, n \in MemberIds :
       IsRow(members[m]) /\ IsRow(members[n]) /\ members[m].person = members[n].person => m = n
  /\ \A r \in ResidentIds, m \in MemberIds :
       IsRow(residents[r]) /\ IsRow(members[m]) => residents[r].person # members[m].person

Rooted ==
  /\ \A r \in ResidentIds :
       IsRow(residents[r]) => root[r] # NoRow /\ entered[residents[r].person] = root[r]
  /\ \A m \in MemberIds :
       IsRow(members[m]) => entered[members[m].person] = root[members[m].head]

\* Everybody who was entered has a row.
SomeRow ==
  \A p \in People : entered[p] # NoRow =>
    \/ \E r \in ResidentIds : IsRow(residents[r]) /\ residents[r].person = p
    \/ \E m \in MemberIds : IsRow(members[m]) /\ members[m].person = p

\* Rows that are not shown are those of persons who were removed.
Shown ==
  /\ \A r \in ResidentIds :
       IsRow(residents[r]) /\ residents[r].person \notin removed => ~residents[r].deleted
  /\ \A m \in MemberIds :
       IsRow(members[m]) /\ members[m].person \notin removed
         => ~members[m].deleted /\ Listed(members[m].head)

\* The part of PastKept that holds of every table: those that are relinked.
RelinkedKept ==
  \A f \in past : f[1] \in Relinked => \E e \in records : e[1] = f[1] /\ root[e[2]] = f[2]

FInv ==
  /\ FamiliesTypeOK /\ HistoryTyped /\ RecordsNameRows
  /\ TasksApart
  /\ OneRow /\ Rooted /\ SomeRow /\ Shown
  /\ HomesFollow /\ RelinkedKept

-----------------------------------------------------------------------------
(***************************************************************************)
(* Rows and tasks.                                                         *)
(***************************************************************************)

\* The fields of a task, by its place in the program.
LEMMA TaskFields ==
  ASSUME NEW t \in Task
  PROVE  /\ t.pc \in {"free", "member", "relink", "homes", "drop", "add", "sync"}
         /\ t.pc # "free" => t.head \in ResidentIds
         /\ Promotes(t) => t.member \in MemberIds /\ t.old \in People
         /\ t.pc \in {"relink", "homes", "drop"} => t.heir \in People
         /\ t.pc = "add" => t.person \in People
         /\ t.pc = "sync" => t.home \in Homes
  BY DEF Task, Promoting, Free, Promotes

\* A record is neither mark, and a row is a record.
LEMMA Rows ==
  ASSUME FamiliesTypeOK
  PROVE  /\ NoRow # Gone /\ ~IsRow(NoRow) /\ ~IsRow(Gone)
         /\ \A r \in ResidentIds : r # NoRow /\ r # Gone
         /\ \A row \in Resident \union Member : IsRow(row)
         /\ \A r \in ResidentIds :
              IsRow(residents[r]) => residents[r] \in Resident /\ residents[r].person \in People
         /\ \A m \in MemberIds :
              IsRow(members[m]) => /\ members[m] \in Member
                                   /\ members[m].person \in People
                                   /\ members[m].head \in ResidentIds
  <1>1. /\ NoRow # Gone /\ ~IsRow(NoRow) /\ ~IsRow(Gone)
        /\ \A r \in ResidentIds : r # NoRow /\ r # Gone
        /\ \A row \in Resident \union Member : IsRow(row)
    BY RowsAssumption DEF IsRow
  <1>2. \A r \in ResidentIds : IsRow(residents[r]) => residents[r] \in Resident
    BY DEF IsRow, FamiliesTypeOK
  <1>3. \A m \in MemberIds : IsRow(members[m]) => members[m] \in Member
    BY DEF IsRow, FamiliesTypeOK
  <1>4. (\A row \in Resident : row.person \in People)
          /\ (\A row \in Member : row.person \in People /\ row.head \in ResidentIds)
    BY DEF Resident, Member
  <1> QED
    BY <1>1, <1>2, <1>3, <1>4

\* The rows that the actions write.
LEMMA Written ==
  ASSUME NEW p \in People, NEW r \in ResidentIds
  PROVE  /\ [person |-> p, deleted |-> FALSE] \in Resident
         /\ [person |-> p, head |-> r, deleted |-> FALSE] \in Member
  <1>1. [person |-> p, deleted |-> FALSE] \in Resident
    BY Zenon DEF Resident
  <1>2. [person |-> p, head |-> r, deleted |-> FALSE] \in Member
    BY Zenon DEF Member
  <1> QED
    BY <1>1, <1>2

LEMMA Marked ==
  ASSUME NEW row \in Resident
  PROVE  /\ [row EXCEPT !.deleted = TRUE] \in Resident
         /\ [row EXCEPT !.deleted = TRUE].person = row.person
         /\ [row EXCEPT !.deleted = TRUE].deleted
  BY DEF Resident

LEMMA MemberMarked ==
  ASSUME NEW row \in Member
  PROVE  /\ [row EXCEPT !.deleted = TRUE] \in Member
         /\ [row EXCEPT !.deleted = TRUE].person = row.person
         /\ [row EXCEPT !.deleted = TRUE].head = row.head
         /\ [row EXCEPT !.deleted = TRUE].deleted
  BY DEF Member

LEMMA Relinking ==
  ASSUME NEW row \in Member, NEW n \in ResidentIds
  PROVE  /\ [row EXCEPT !.head = n] \in Member
         /\ [row EXCEPT !.head = n].person = row.person
         /\ [row EXCEPT !.head = n].head = n
         /\ [row EXCEPT !.head = n].deleted = row.deleted
  BY DEF Member

\* A request changes its own task only.
LEMMA DoOne ==
  ASSUME FamiliesTypeOK, NEW q \in Clerks, NEW t \in Task, Do(q, t)
  PROVE  /\ task' \in [Clerks -> Task]
         /\ task'[q] = t
         /\ \A p \in Clerks \ {q} : task'[p] = task[p]
  BY DEF Do, FamiliesTypeOK

-----------------------------------------------------------------------------
(***************************************************************************)
(* The tables and their history, without the tasks, and what the actions   *)
(* that change them make of them.                                          *)
(***************************************************************************)
TablesTyped ==
  /\ residents \in [ResidentIds -> Resident \union {NoRow, Gone}]
  /\ members \in [MemberIds -> Member \union {NoRow, Gone}]
  /\ homes \in [Homes -> ResidentIds \union {NoRow}]
  /\ records \subseteq Kinds \X ResidentIds
  /\ \A m \in MemberIds : IsRow(members[m]) => IsRow(residents[members[m].head])
  /\ \A h \in Homes : homes[h] # NoRow => IsRow(residents[homes[h]])

Kept ==
  /\ TablesTyped /\ HistoryTyped /\ RecordsNameRows
  /\ OneRow /\ Rooted /\ SomeRow /\ Shown /\ HomesFollow /\ RelinkedKept

\* The last step of a promotion, in one piece: the row of the old head r goes
\* and so does that of the promoted member x; n is the new head, o the row of
\* the old head as a member, and everybody else under r is under n.
DropRows(r, x, n, o) ==
  /\ r \in ResidentIds /\ x \in MemberIds /\ n \in ResidentIds /\ o \in MemberIds /\ n # r
  /\ IsRow(residents[r]) /\ IsRow(members[x]) /\ members[x].head = r
  /\ residents[n] = NoRow /\ members[o] = NoRow /\ o # x /\ o \notin Under(r)
  /\ residents' = [s \in ResidentIds |-> residents'[s]]
  /\ residents'[n] = [person |-> members[x].person, deleted |-> FALSE]
  /\ residents'[r] = Gone
  /\ \A s \in ResidentIds \ {n, r} : residents'[s] = residents[s]
  /\ members' = [m \in MemberIds |-> members'[m]]
  /\ members'[o] = [person |-> residents[r].person, head |-> n, deleted |-> FALSE]
  /\ members'[x] = Gone
  /\ \A m \in Under(r) \ {x} : members'[m] = [members[m] EXCEPT !.head = n]
  /\ \A m \in MemberIds \ (Under(r) \union {o}) : members'[m] = members[m]

\* ... and what else named r names n.
DropRest(r, n) ==
  /\ homes' = [h \in Homes |-> IF homes[h] = r THEN n ELSE homes[h]]
  /\ records' = {e \in records : e[2] # r}
                   \union {<<k, n>> : k \in {k \in Kinds \intersect Relinked : <<k, r>> \in records}}
  /\ root' = [root EXCEPT ![n] = root[r]]
  /\ entered' = entered /\ removed' = removed /\ housed' = housed /\ past' = past

LEMMA DropEffects ==
  ASSUME FInv, NEW q \in Clerks, NEW n \in ResidentIds, NEW o \in MemberIds, PromoteDrop(q, n, o)
  PROVE  DropRows(task[q].head, task[q].member, n, o) /\ DropRest(task[q].head, n)
  <1> DEFINE t == task[q]
             r == t.head
             x == t.member
  <1>1. t \in Task /\ t.pc = "drop" /\ Promotes(t) /\ StillRead(t)
    BY DEF FInv, FamiliesTypeOK, TasksApart, PromoteDrop, Promotes
  <1>2. r \in ResidentIds /\ x \in MemberIds
    BY <1>1, TaskFields
  <1>3. /\ IsRow(residents[r]) /\ residents[r].person = t.old
        /\ x \in Under(r) /\ members[x].person = t.heir
        /\ t.moved = Under(r) \ {x}
        /\ t.settled = {h \in Homes : homes[h] = r}
        /\ t.kept = {k \in Kinds \intersect Relinked : <<k, r>> \in records}
    BY <1>1 DEF StillRead
  <1>4. /\ residents[n] = NoRow /\ members[o] = NoRow
        /\ residents' = [residents EXCEPT ![n] = [person |-> t.heir, deleted |-> FALSE], ![r] = Gone]
        /\ members' = [m \in MemberIds |->
                         IF m \in t.moved THEN [members[m] EXCEPT !.head = n]
                         ELSE IF m = o THEN [person |-> t.old, head |-> n, deleted |-> FALSE]
                         ELSE IF m = t.member \/ m \in Under(r) THEN Gone
                         ELSE members[m]]
        /\ homes' = [h \in Homes |-> IF h \in t.settled THEN n
                                     ELSE IF homes[h] = r THEN NoRow
                                     ELSE homes[h]]
        /\ records' = {e \in records : e[2] # r} \union {<<k, n>> : k \in t.kept}
        /\ root' = [root EXCEPT ![n] = root[r]]
        /\ UNCHANGED <<entered, removed, housed, past>>
    BY DEF PromoteDrop, NewResident, NewMember
  <1>5. FamiliesTypeOK /\ HistoryTyped
    BY DEF FInv
  <1>6. ~IsRow(NoRow)
    BY <1>5, Rows
  <1>7. IsRow(members[x]) /\ members[x].head = r
    BY <1>3 DEF Under
  <1>8. n # r /\ o # x /\ o \notin Under(r)
    BY <1>3, <1>4, <1>6, <1>7 DEF Under
  <1> HIDE DEF t, r, x
  <1>9. /\ residents'[n] = [person |-> members[x].person, deleted |-> FALSE]
        /\ residents'[r] = Gone
        /\ \A s \in ResidentIds \ {n, r} : residents'[s] = residents[s]
    BY <1>2, <1>3, <1>4, <1>5, <1>8 DEF FamiliesTypeOK
  <1>10. /\ members'[o] = [person |-> residents[r].person, head |-> n, deleted |-> FALSE]
         /\ members'[x] = Gone
         /\ \A m \in Under(r) \ {x} : members'[m] = [members[m] EXCEPT !.head = n]
         /\ \A m \in MemberIds \ (Under(r) \union {o}) : members'[m] = members[m]
    <2>1. members'[o] = [person |-> residents[r].person, head |-> n, deleted |-> FALSE]
      BY <1>3, <1>4, <1>8
    <2>2. members'[x] = Gone
      BY <1>2, <1>3, <1>4, <1>8 DEF x
    <2>3. Under(r) \subseteq MemberIds
      BY DEF Under
    <2> QED
      BY <1>3, <1>4, <2>1, <2>2, <2>3 DEF x
  <1>11. homes' = [h \in Homes |-> IF homes[h] = r THEN n ELSE homes[h]]
    BY <1>3, <1>4
  <1>12. /\ residents' = [s \in ResidentIds |-> residents'[s]]
         /\ members' = [m \in MemberIds |-> members'[m]]
    BY <1>4, <1>5 DEF FamiliesTypeOK
  <1>13. DropRows(r, x, n, o)
    BY <1>2, <1>3, <1>4, <1>7, <1>8, <1>9, <1>10, <1>12 DEF DropRows
  <1>14. DropRest(r, n)
    BY <1>3, <1>4, <1>11 DEF DropRest
  <1> QED
    BY <1>13, <1>14 DEF t, r, x

\* Whoever has a row was entered.
LEMMA RowsEntered ==
  ASSUME FamiliesTypeOK, Rooted
  PROVE  /\ \A r \in ResidentIds : IsRow(residents[r]) => entered[residents[r].person] # NoRow
         /\ \A m \in MemberIds :
              IsRow(members[m]) => entered[members[m].person] # NoRow /\ root[members[m].head] # NoRow
  <1>1. \A m \in MemberIds : IsRow(members[m]) => members[m].head \in ResidentIds /\ IsRow(residents[members[m].head])
    BY Rows DEF FamiliesTypeOK
  <1> QED
    BY <1>1 DEF Rooted

LEMMA EnterKept ==
  ASSUME FInv, NEW q \in Clerks, NEW p \in People, NEW r \in ResidentIds,
         NEW home \in Homes \union {NoRow}, Enter(q, p, r, home)
  PROVE  Kept'
  <1> DEFINE row == [person |-> p, deleted |-> FALSE]
  <1>1. /\ residents[r] = NoRow /\ entered[p] = NoRow
        /\ residents' = [residents EXCEPT ![r] = row]
        /\ root' = [root EXCEPT ![r] = r] /\ entered' = [entered EXCEPT ![p] = r]
        /\ UNCHANGED <<members, homes, records, removed, housed, past>>
    BY DEF Enter, NewPerson, NewResident, Known
  <1>2. FamiliesTypeOK /\ HistoryTyped /\ Kept
    BY DEF FInv, Kept, TablesTyped, FamiliesTypeOK
  <1>3. row \in Resident /\ IsRow(row) /\ row.person = p /\ ~row.deleted /\ ~IsRow(NoRow) /\ r # NoRow
    BY <1>2, Written, Rows
  <1> HIDE DEF row
  <1>4. residents'[r] = row /\ \A s \in ResidentIds \ {r} : residents'[s] = residents[s]
    BY <1>1, <1>2 DEF FamiliesTypeOK
  <1>5. /\ root'[r] = r /\ \A s \in ResidentIds \ {r} : root'[s] = root[s]
        /\ entered'[p] = r /\ \A x \in People \ {p} : entered'[x] = entered[x]
    BY <1>1, <1>2 DEF HistoryTyped
  <1>6. /\ \A s \in ResidentIds : IsRow(residents[s]) => s # r /\ residents[s].person \in People \ {p}
        /\ \A m \in MemberIds : IsRow(members[m]) =>
             members[m].person \in People \ {p} /\ members[m].head \in ResidentIds \ {r}
    <2>1. \A m \in MemberIds : IsRow(members[m]) => IsRow(residents[members[m].head])
      BY <1>2 DEF FamiliesTypeOK
    <2> QED
      BY <1>1, <1>2, <1>3, <2>1, Rows, RowsEntered DEF Kept
  <1>7. \A s \in ResidentIds : IsRow(residents[s]) => IsRow(residents'[s])
    BY <1>3, <1>4
  <1>8. TablesTyped'
    <2>1. residents' \in [ResidentIds -> Resident \union {NoRow, Gone}]
      BY <1>1, <1>2, <1>3 DEF FamiliesTypeOK
    <2> QED
      BY <1>1, <1>2, <1>6, <1>7, <2>1 DEF TablesTyped, FamiliesTypeOK
  <1>9. HistoryTyped'
    BY <1>1, <1>2 DEF HistoryTyped
  <1>10. RecordsNameRows'
    <2>1. \A e \in records : e[2] \in ResidentIds
      BY <1>2 DEF FamiliesTypeOK
    <2> QED
      BY <1>1, <1>2, <1>7, <2>1 DEF Kept, RecordsNameRows
  <1>11. OneRow'
    BY <1>1, <1>2, <1>3, <1>4, <1>6 DEF Kept, OneRow
  <1>12. Rooted'
    BY <1>1, <1>2, <1>3, <1>4, <1>5, <1>6 DEF Kept, Rooted
  <1>13. SomeRow'
    BY <1>1, <1>2, <1>3, <1>4, <1>5, <1>6 DEF Kept, SomeRow
  <1>14. Shown'
    BY <1>1, <1>2, <1>3, <1>4, <1>6 DEF Kept, Shown, Listed
  <1>15. HomesFollow'
    <2>1. \A h \in Homes : homes[h] # NoRow => homes[h] \in ResidentIds \ {r}
      BY <1>1, <1>2, <1>3 DEF FamiliesTypeOK
    <2> QED
      BY <1>1, <1>2, <1>5, <2>1 DEF Kept, HomesFollow
  <1>16. RelinkedKept'
    <2>1. \A e \in records : e[2] \in ResidentIds \ {r}
      BY <1>1, <1>2, <1>3 DEF FamiliesTypeOK, Kept, RecordsNameRows
    <2> QED
      BY <1>1, <1>2, <1>5, <2>1 DEF Kept, RelinkedKept
  <1> QED
    BY <1>8, <1>9, <1>10, <1>11, <1>12, <1>13, <1>14, <1>15, <1>16 DEF Kept

LEMMA SettleKept ==
  ASSUME FInv, NEW q \in Clerks, Settle(q)
  PROVE  Kept'
  <1> DEFINE r == task[q].head
             h == task[q].home
  <1>1. FamiliesTypeOK /\ HistoryTyped /\ Kept
    BY DEF FInv, Kept, TablesTyped, FamiliesTypeOK
  <1>2. r \in ResidentIds /\ h \in Homes
    BY <1>1, TaskFields DEF Settle, FamiliesTypeOK
  <1>3. UNCHANGED <<residents, members, records, root, entered, removed, past>>
    BY DEF Settle
  <1>4. \/ UNCHANGED <<homes, housed>>
        \/ /\ IsRow(residents[r])
           /\ homes' = [homes EXCEPT ![h] = r] /\ housed' = [housed EXCEPT ![h] = root[r]]
    BY DEF Settle, Referable
  <1> HIDE DEF r, h
  <1>5. IsRow(residents[r]) => root[r] \in ResidentIds /\ r # NoRow
    BY <1>1, <1>2, Rows DEF Kept, Rooted, HistoryTyped
  <1>6. TablesTyped' /\ HistoryTyped'
    BY <1>1, <1>2, <1>3, <1>4, <1>5 DEF TablesTyped, FamiliesTypeOK, HistoryTyped
  <1>7. HomesFollow'
    BY <1>1, <1>2, <1>3, <1>4, <1>5 DEF Kept, HomesFollow, FamiliesTypeOK, HistoryTyped
  <1>8. RecordsNameRows' /\ OneRow' /\ Rooted' /\ SomeRow' /\ RelinkedKept'
    BY <1>1, <1>3 DEF Kept, RecordsNameRows, OneRow, Rooted, SomeRow, RelinkedKept
  <1>9. Shown'
    BY <1>1, <1>3 DEF Kept, Shown, Listed
  <1> QED
    BY <1>6, <1>7, <1>8, <1>9 DEF Kept

LEMMA DeleteKept ==
  ASSUME FInv, NEW r \in ResidentIds, Delete(r)
  PROVE  Kept'
  <1> DEFINE row == [residents[r] EXCEPT !.deleted = TRUE]
  <1>1. /\ IsRow(residents[r])
        /\ residents' = [residents EXCEPT ![r] = row]
        /\ removed' = removed \union {residents[r].person} \union {members[m].person : m \in Under(r)}
        /\ UNCHANGED <<members, homes, records, root, entered, housed, past>>
    BY DEF Delete, Listed
  <1>2. FamiliesTypeOK /\ HistoryTyped /\ Kept
    BY DEF FInv, Kept, TablesTyped, FamiliesTypeOK
  <1>3. row \in Resident /\ row.person = residents[r].person /\ IsRow(row)
    BY <1>1, <1>2, Rows, Marked
  <1> HIDE DEF row
  <1>4. residents'[r] = row /\ \A s \in ResidentIds \ {r} : residents'[s] = residents[s]
    BY <1>1, <1>2 DEF FamiliesTypeOK
  <1>5. \A s \in ResidentIds : (IsRow(residents'[s]) <=> IsRow(residents[s]))
                                 /\ (IsRow(residents[s]) => residents'[s].person = residents[s].person)
    BY <1>1, <1>3, <1>4
  <1>6. /\ \A m \in MemberIds : IsRow(members[m]) => members[m].person \in People /\ members[m].head \in ResidentIds
        /\ \A s \in ResidentIds : IsRow(residents[s]) => residents[s].person \in People
    BY <1>2, Rows
  <1>7. TablesTyped'
    <2>1. residents' \in [ResidentIds -> Resident \union {NoRow, Gone}]
      BY <1>1, <1>2, <1>3 DEF FamiliesTypeOK
    <2>2. \A h \in Homes : homes[h] # NoRow => homes[h] \in ResidentIds
      BY <1>2 DEF FamiliesTypeOK
    <2> QED
      BY <1>1, <1>2, <1>5, <1>6, <2>1, <2>2 DEF TablesTyped, FamiliesTypeOK
  <1>8. HistoryTyped'
    <2>1. {members[m].person : m \in Under(r)} \subseteq People
      BY <1>6 DEF Under
    <2> QED
      BY <1>1, <1>2, <1>6, <2>1 DEF HistoryTyped
  <1>9. RecordsNameRows'
    <2>1. \A e \in records : e[2] \in ResidentIds
      BY <1>2 DEF FamiliesTypeOK
    <2> QED
      BY <1>1, <1>2, <1>5, <2>1 DEF Kept, RecordsNameRows
  <1>10. OneRow' /\ Rooted'
    BY <1>1, <1>2, <1>5 DEF Kept, OneRow, Rooted
  <1>11. SomeRow'
    BY <1>1, <1>2, <1>5 DEF Kept, SomeRow
  <1>12. Shown'
    <2>1. ASSUME NEW s \in ResidentIds, IsRow(residents'[s]), residents'[s].person \notin removed'
          PROVE  ~residents'[s].deleted
      BY <1>1, <1>2, <1>3, <1>4, <2>1 DEF Kept, Shown
    <2>2. ASSUME NEW m \in MemberIds, IsRow(members'[m]), members'[m].person \notin removed'
          PROVE  /\ ~members'[m].deleted
                 /\ IsRow(residents'[members'[m].head]) /\ ~residents'[members'[m].head].deleted
      <3>1. m \notin Under(r) /\ members[m].head \in ResidentIds \ {r}
        BY <1>1, <1>6, <2>2 DEF Under
      <3>2. ~members[m].deleted /\ Listed(members[m].head)
        BY <1>1, <1>2, <2>2 DEF Kept, Shown
      <3> QED
        BY <1>1, <1>4, <3>1, <3>2 DEF Listed
    <2> QED
      BY <2>1, <2>2 DEF Shown, Listed
  <1>13. HomesFollow' /\ RelinkedKept'
    BY <1>1, <1>2 DEF Kept, HomesFollow, RelinkedKept
  <1> QED
    BY <1>7, <1>8, <1>9, <1>10, <1>11, <1>12, <1>13 DEF Kept

LEMMA AddInsertKept ==
  ASSUME FInv, NEW q \in Clerks, NEW n \in MemberIds, AddInsert(q, n)
  PROVE  Kept'
  <1> DEFINE r == task[q].head
             p == task[q].person
             row == [person |-> p, head |-> r, deleted |-> FALSE]
  <1>1. FamiliesTypeOK /\ HistoryTyped /\ Kept /\ TasksApart
    BY DEF FInv, Kept, TablesTyped, FamiliesTypeOK
  <1>2. r \in ResidentIds /\ p \in People
    BY <1>1, TaskFields DEF AddInsert, FamiliesTypeOK
  <1>3. CASE UNCHANGED <<members, entered, removed>>
    <2>1. UNCHANGED <<residents, members, homes, records, root, entered, removed, housed, past>>
      BY <1>3 DEF AddInsert
    <2> QED
      BY <1>1, <2>1 DEF Kept, TablesTyped, HistoryTyped, RecordsNameRows, OneRow, Rooted, SomeRow,
                        Shown, Listed, HomesFollow, RelinkedKept
  <1>4. CASE Referable(r)
    <2>1. /\ IsRow(residents[r]) /\ members[n] = NoRow /\ entered[p] = NoRow
          /\ members' = [members EXCEPT ![n] = row]
          /\ entered' = [entered EXCEPT ![p] = root[r]]
          /\ removed' = IF Listed(r) THEN removed ELSE removed \union {p}
          /\ UNCHANGED <<residents, homes, records, root, housed, past>>
      BY <1>1, <1>4 DEF AddInsert, Referable, NewMember, TasksApart
    <2>2. /\ row \in Member /\ IsRow(row) /\ row.person = p /\ row.head = r /\ ~row.deleted
          /\ ~IsRow(NoRow)
      BY <1>1, <1>2, Written, Rows
    <2> HIDE DEF row, r, p
    <2>3. members'[n] = row /\ \A m \in MemberIds \ {n} : members'[m] = members[m]
      BY <1>1, <2>1 DEF FamiliesTypeOK
    <2>4. /\ root[r] \in ResidentIds /\ root[r] # NoRow
          /\ entered'[p] = root[r] /\ \A x \in People \ {p} : entered'[x] = entered[x]
      BY <1>1, <1>2, <2>1, Rows DEF Kept, Rooted, HistoryTyped
    <2>5. /\ \A s \in ResidentIds : IsRow(residents[s]) => residents[s].person \in People \ {p}
          /\ \A m \in MemberIds : IsRow(members[m]) => m # n /\ members[m].person \in People \ {p}
      BY <1>1, <2>1, <2>2, Rows, RowsEntered DEF Kept
    <2>6. TablesTyped'
      BY <1>1, <2>1, <2>2, <2>3 DEF TablesTyped, FamiliesTypeOK
    <2>7. HistoryTyped'
      BY <1>1, <1>2, <2>1, <2>4 DEF HistoryTyped
    <2>8. OneRow'
      BY <1>1, <2>1, <2>2, <2>3, <2>5 DEF Kept, OneRow
    <2>9. Rooted'
      BY <1>1, <2>1, <2>2, <2>3, <2>4, <2>5 DEF Kept, Rooted
    <2>10. SomeRow'
      BY <1>1, <2>1, <2>2, <2>3, <2>4, <2>5 DEF Kept, SomeRow
    <2>11. Shown'
      <3>1. removed \subseteq removed' /\ (Listed(r) \/ p \in removed')
        BY <2>1
      <3>2. \A s \in ResidentIds : Listed(s)' <=> Listed(s)
        BY <2>1 DEF Listed
      <3>3. \A m \in MemberIds : IsRow(members[m]) => members[m].head \in ResidentIds
        BY <1>1, Rows
      <3> QED
        BY <1>1, <1>2, <2>1, <2>2, <2>3, <3>1, <3>2, <3>3 DEF Kept, Shown, Listed
    <2>12. RecordsNameRows' /\ HomesFollow' /\ RelinkedKept'
      BY <1>1, <2>1 DEF Kept, RecordsNameRows, HomesFollow, RelinkedKept
    <2> QED
      BY <2>6, <2>7, <2>8, <2>9, <2>10, <2>11, <2>12 DEF Kept
  <1> QED
    BY <1>3, <1>4 DEF AddInsert

LEMMA RemoveKept ==
  ASSUME FInv, NEW n \in MemberIds, Remove(n)
  PROVE  Kept'
  <1> DEFINE row == [members[n] EXCEPT !.deleted = TRUE]
  <1>1. /\ IsRow(members[n])
        /\ members' = [members EXCEPT ![n] = row]
        /\ removed' = removed \union {members[n].person}
        /\ UNCHANGED <<residents, homes, records, root, entered, housed, past>>
    BY DEF Remove
  <1>2. FamiliesTypeOK /\ HistoryTyped /\ Kept
    BY DEF FInv, Kept, TablesTyped, FamiliesTypeOK
  <1>3. /\ row \in Member /\ row.person = members[n].person /\ row.head = members[n].head
        /\ IsRow(row) /\ members[n].person \in People
    BY <1>1, <1>2, Rows, MemberMarked
  <1> HIDE DEF row
  <1>4. members'[n] = row /\ \A m \in MemberIds \ {n} : members'[m] = members[m]
    BY <1>1, <1>2 DEF FamiliesTypeOK
  <1>5. \A m \in MemberIds : /\ IsRow(members'[m]) <=> IsRow(members[m])
                             /\ IsRow(members[m]) => /\ members'[m].person = members[m].person
                                                     /\ members'[m].head = members[m].head
    BY <1>1, <1>3, <1>4
  <1>6. TablesTyped'
    BY <1>1, <1>2, <1>3, <1>5 DEF TablesTyped, FamiliesTypeOK
  <1>7. HistoryTyped'
    BY <1>1, <1>2, <1>3 DEF HistoryTyped
  <1>8. OneRow' /\ Rooted'
    BY <1>1, <1>2, <1>5 DEF Kept, OneRow, Rooted
  <1>9. SomeRow'
    BY <1>1, <1>2, <1>5 DEF Kept, SomeRow
  <1>10. Shown'
    BY <1>1, <1>2, <1>3, <1>4 DEF Kept, Shown, Listed
  <1>11. RecordsNameRows' /\ HomesFollow' /\ RelinkedKept'
    BY <1>1, <1>2 DEF Kept, RecordsNameRows, HomesFollow, RelinkedKept
  <1> QED
    BY <1>6, <1>7, <1>8, <1>9, <1>10, <1>11 DEF Kept

LEMMA RecordKept ==
  ASSUME FInv, NEW kind \in Kinds, NEW r \in ResidentIds, Record(kind, r)
  PROVE  Kept'
  <1>1. /\ IsRow(residents[r])
        /\ records' = records \union {<<kind, r>>} /\ past' = past \union {<<kind, root[r]>>}
        /\ UNCHANGED <<residents, members, homes, root, entered, removed, housed>>
    BY DEF Record
  <1>2. FamiliesTypeOK /\ HistoryTyped /\ Kept
    BY DEF FInv, Kept, TablesTyped, FamiliesTypeOK
  <1>3. root[r] \in ResidentIds
    BY <1>1, <1>2, Rows DEF Kept, Rooted, HistoryTyped
  <1>4. TablesTyped' /\ HistoryTyped'
    BY <1>1, <1>2, <1>3 DEF TablesTyped, FamiliesTypeOK, HistoryTyped
  <1>5. RecordsNameRows'
    BY <1>1, <1>2 DEF Kept, RecordsNameRows
  <1>6. RelinkedKept'
    <2>1. <<kind, r>> \in records' /\ <<kind, r>>[1] = kind /\ root'[<<kind, r>>[2]] = root[r]
      BY <1>1
    <2>2. \A f \in past : f[1] \in Relinked => \E e \in records' : e[1] = f[1] /\ root'[e[2]] = f[2]
      BY <1>1, <1>2 DEF Kept, RelinkedKept
    <2>3. \A f \in past' : f \in past \/ (f[1] = kind /\ f[2] = root[r])
      BY <1>1
    <2> QED
      BY <2>1, <2>2, <2>3 DEF RelinkedKept, Relinked
  <1>7. OneRow' /\ Rooted' /\ SomeRow' /\ HomesFollow'
    BY <1>1, <1>2 DEF Kept, OneRow, Rooted, SomeRow, HomesFollow
  <1>8. Shown'
    BY <1>1, <1>2 DEF Kept, Shown, Listed
  <1> QED
    BY <1>4, <1>5, <1>6, <1>7, <1>8 DEF Kept

LEMMA DropKept ==
  ASSUME FInv, NEW r, NEW x, NEW n, NEW o, DropRows(r, x, n, o), DropRest(r, n)
  PROVE  Kept'
  <1> DEFINE heir == members[x].person
             old == residents[r].person
             headRow == [person |-> heir, deleted |-> FALSE]
             oldRow == [person |-> old, head |-> n, deleted |-> FALSE]
  <1>1. FamiliesTypeOK /\ HistoryTyped /\ Kept
    BY DEF FInv, Kept, TablesTyped, FamiliesTypeOK
  <1>2. /\ r \in ResidentIds /\ x \in MemberIds /\ n \in ResidentIds /\ o \in MemberIds /\ n # r
        /\ IsRow(residents[r]) /\ IsRow(members[x]) /\ members[x].head = r
        /\ residents[n] = NoRow /\ members[o] = NoRow /\ o # x
        /\ residents'[n] = headRow
        /\ residents'[r] = Gone
        /\ \A s \in ResidentIds \ {n, r} : residents'[s] = residents[s]
        /\ members'[o] = oldRow
        /\ members'[x] = Gone
        /\ \A m \in Under(r) \ {x} : members'[m] = [members[m] EXCEPT !.head = n]
        /\ \A m \in MemberIds \ (Under(r) \union {o}) : members'[m] = members[m]
        /\ o \notin Under(r)
    BY DEF DropRows
  <1>3. /\ \A h \in Homes : homes'[h] = IF homes[h] = r THEN n ELSE homes[h]
        /\ records' = {e \in records : e[2] # r}
                         \union {<<k, n>> : k \in {k \in Kinds \intersect Relinked : <<k, r>> \in records}}
        /\ root'[n] = root[r] /\ \A s \in ResidentIds \ {n} : root'[s] = root[s]
        /\ entered' = entered /\ removed' = removed /\ housed' = housed /\ past' = past
    BY <1>1, <1>2 DEF DropRest, HistoryTyped
  <1>4. /\ ~IsRow(NoRow) /\ ~IsRow(Gone) /\ heir \in People /\ old \in People
        /\ headRow \in Resident /\ IsRow(headRow) /\ headRow.person = heir /\ ~headRow.deleted
        /\ oldRow \in Member /\ IsRow(oldRow) /\ oldRow.person = old /\ oldRow.head = n /\ ~oldRow.deleted
    BY <1>1, <1>2, Rows, Written
  <1> HIDE DEF headRow, oldRow, heir, old
  <1>5. ASSUME NEW m \in Under(r) \ {x}
        PROVE  /\ m \in MemberIds /\ IsRow(members[m]) /\ members[m].head = r
               /\ members'[m] \in Member /\ IsRow(members'[m])
               /\ members'[m].person = members[m].person /\ members'[m].head = n
               /\ members'[m].deleted = members[m].deleted
    <2>1. m \in MemberIds /\ IsRow(members[m]) /\ members[m].head = r /\ members[m] \in Member
      BY <1>1, Rows DEF Under
    <2>2. members'[m] = [members[m] EXCEPT !.head = n]
      BY <1>2
    <2>3. /\ members'[m] \in Member
          /\ members'[m].person = members[m].person /\ members'[m].head = n
          /\ members'[m].deleted = members[m].deleted
      BY <1>2, <2>1, <2>2, Relinking
    <2> QED
      BY <1>1, <2>1, <2>3, Rows
  \* The heads there are now: the new one, and the others that were.
  <1>6. \A s \in ResidentIds :
          IsRow(residents'[s]) <=> s = n \/ (s # r /\ IsRow(residents[s]))
    BY <1>2, <1>4
  \* The members there are now: the old head, those that moved with it, and
  \* those of other families.
  <1>7. ASSUME NEW m \in MemberIds, IsRow(members'[m])
        PROVE  \/ m = o
               \/ m # x /\ m \in Under(r)
               \/ m # x /\ m # o /\ m \notin Under(r) /\ IsRow(members[m]) /\ members'[m] = members[m]
                    /\ members[m].head # r /\ members[m].head # n /\ members[m].head \in ResidentIds
    <2>1. CASE m # o /\ m # x /\ m \notin Under(r)
      <3>1. members'[m] = members[m] /\ IsRow(members[m]) /\ members[m].head # r
        BY <1>2, <1>7, <2>1 DEF Under
      <3>2. members[m].head \in ResidentIds /\ IsRow(residents[members[m].head])
        BY <1>1, <3>1, Rows DEF FamiliesTypeOK
      <3> QED
        BY <1>2, <1>4, <2>1, <3>1, <3>2
    <2>2. m # x
      BY <1>2, <1>4, <1>7
    <2> QED
      BY <2>1, <2>2
  \* Where the rows of before are now.
  <1>8. ASSUME NEW m \in MemberIds, IsRow(members[m]), m # x
        PROVE  /\ IsRow(members'[m]) /\ members'[m].person = members[m].person
               /\ members'[m].deleted = members[m].deleted
               /\ members'[m].head = IF members[m].head = r THEN n ELSE members[m].head
    <2>1. CASE m \in Under(r)
      BY <1>5, <1>8, <2>1
    <2>2. CASE m \notin Under(r)
      <3>1. m # o /\ members[m].head # r
        BY <1>2, <1>4, <1>8, <2>2 DEF Under
      <3> QED
        BY <1>2, <1>8, <2>2, <3>1
    <2> QED
      BY <2>1, <2>2
  <1>9. TablesTyped'
    <2>1. residents' \in [ResidentIds -> Resident \union {NoRow, Gone}]
      <3>1. residents' = [s \in ResidentIds |-> residents'[s]]
        BY DEF DropRows
      <3>2. ASSUME NEW s \in ResidentIds
            PROVE  residents'[s] \in Resident \union {NoRow, Gone}
        BY <1>1, <1>2, <1>4 DEF FamiliesTypeOK
      <3> QED
        BY <3>1, <3>2
    <2>2. members' \in [MemberIds -> Member \union {NoRow, Gone}]
      <3>1. members' = [m \in MemberIds |-> members'[m]]
        BY DEF DropRows
      <3>2. ASSUME NEW m \in MemberIds
            PROVE  members'[m] \in Member \union {NoRow, Gone}
        BY <1>1, <1>2, <1>4, <1>5 DEF FamiliesTypeOK
      <3> QED
        BY <3>1, <3>2
    <2>3. homes' \in [Homes -> ResidentIds \union {NoRow}]
      <3>1. homes' = [h \in Homes |-> homes'[h]]
        BY DEF DropRest
      <3> QED
        BY <1>1, <1>2, <1>3, <3>1 DEF FamiliesTypeOK
    <2>4. records' \subseteq Kinds \X ResidentIds
      <3>1. records \subseteq Kinds \X ResidentIds
        BY <1>1 DEF FamiliesTypeOK
      <3>2. \A k \in Kinds : <<k, n>> \in Kinds \X ResidentIds
        BY <1>2
      <3> QED
        BY <1>3, <3>1, <3>2
    <2>5. ASSUME NEW m \in MemberIds, IsRow(members'[m])
          PROVE  IsRow(residents'[members'[m].head])
      <3>1. IsRow(members[m]) => IsRow(residents[members[m].head])
        BY <1>1 DEF FamiliesTypeOK
      <3> QED
        BY <1>2, <1>4, <1>5, <1>6, <1>7, <2>5, <3>1
    <2>6. ASSUME NEW h \in Homes, homes'[h] # NoRow
          PROVE  IsRow(residents'[homes'[h]])
      BY <1>1, <1>2, <1>3, <1>6, <2>6 DEF FamiliesTypeOK
    <2> QED
      BY <2>1, <2>2, <2>3, <2>4, <2>5, <2>6 DEF TablesTyped
  <1>10. HistoryTyped'
    <2>1. root' = [root EXCEPT ![n] = root[r]]
      BY DEF DropRest
    <2> QED
      BY <1>1, <1>2, <1>3, <2>1 DEF HistoryTyped
  <1>11. RecordsNameRows'
    <2>1. \A e \in records : e[2] \in ResidentIds /\ IsRow(residents[e[2]])
      BY <1>1 DEF FamiliesTypeOK, Kept, RecordsNameRows
    <2>2. ASSUME NEW e \in records'
          PROVE  e[2] = n \/ (e \in records /\ e[2] # r)
      <3>1. (e \in records /\ e[2] # r) \/ \E k \in Kinds : e = <<k, n>>
        BY <1>3, <2>2
      <3> QED
        BY <3>1
    <2> QED
      BY <1>2, <1>6, <2>1, <2>2 DEF RecordsNameRows
  \* Of whom the rows are now.
  <1>12. \A s \in ResidentIds : IsRow(residents'[s]) =>
           residents'[s].person = IF s = n THEN heir ELSE residents[s].person
    BY <1>2, <1>4
  <1>13. \A m \in MemberIds : IsRow(members'[m]) =>
           /\ m = o => members'[m].person = old
           /\ m # o => m # x /\ IsRow(members[m]) /\ members'[m].person = members[m].person
    BY <1>2, <1>4, <1>5, <1>7
  <1>14. OneRow'
    <2>1. OneRow
      BY <1>1 DEF Kept
    <2>2. ASSUME NEW s \in ResidentIds, NEW u \in ResidentIds,
                 IsRow(residents'[s]), IsRow(residents'[u]), residents'[s].person = residents'[u].person
          PROVE  s = u
      BY <1>2, <1>4, <1>6, <1>12, <2>1, <2>2 DEF OneRow, heir
    <2>3. ASSUME NEW m \in MemberIds, NEW l \in MemberIds,
                 IsRow(members'[m]), IsRow(members'[l]), members'[m].person = members'[l].person
          PROVE  m = l
      BY <1>2, <1>4, <1>13, <2>1, <2>3 DEF OneRow, old
    <2>4. ASSUME NEW s \in ResidentIds, NEW m \in MemberIds, IsRow(residents'[s]), IsRow(members'[m])
          PROVE  residents'[s].person # members'[m].person
      BY <1>2, <1>4, <1>6, <1>12, <1>13, <2>1, <2>4 DEF OneRow, heir, old
    <2> QED
      BY <2>2, <2>3, <2>4 DEF OneRow
  <1>15. Rooted'
    <2>1. /\ root[r] # NoRow /\ entered[old] = root[r] /\ entered[heir] = root[r]
          /\ \A s \in ResidentIds : IsRow(residents[s]) => root[s] # NoRow /\ entered[residents[s].person] = root[s]
          /\ \A m \in MemberIds : IsRow(members[m]) => entered[members[m].person] = root[members[m].head]
      BY <1>1, <1>2 DEF Kept, Rooted, old, heir
    <2>2. \A s \in ResidentIds : IsRow(residents'[s]) =>
            root'[s] # NoRow /\ entered'[residents'[s].person] = root'[s]
      BY <1>2, <1>3, <1>6, <1>12, <2>1
    <2>3. ASSUME NEW m \in MemberIds, IsRow(members'[m])
          PROVE  entered'[members'[m].person] = root'[members'[m].head]
      <3>1. CASE m = o
        BY <1>2, <1>3, <1>4, <2>1, <3>1
      <3>2. CASE m # x /\ m \in Under(r)
        BY <1>3, <1>5, <2>1, <3>2
      <3>3. CASE m # o /\ m \notin Under(r)
        BY <1>3, <1>7, <2>1, <2>3, <3>3
      <3> QED
        BY <1>7, <2>3, <3>1, <3>2, <3>3
    <2> QED
      BY <2>2, <2>3 DEF Rooted
  <1>16. SomeRow'
    <2> SUFFICES ASSUME NEW p \in People, entered'[p] # NoRow
                 PROVE  \/ \E s \in ResidentIds : IsRow(residents'[s]) /\ residents'[s].person = p
                        \/ \E m \in MemberIds : IsRow(members'[m]) /\ members'[m].person = p
      BY DEF SomeRow
    <2>1. CASE \E s \in ResidentIds : IsRow(residents[s]) /\ residents[s].person = p
      <3>1. PICK s \in ResidentIds : IsRow(residents[s]) /\ residents[s].person = p
        BY <2>1
      <3>2. CASE s = r
        BY <1>2, <1>4, <3>1, <3>2 DEF old
      <3>3. CASE s # r
        BY <1>2, <1>4, <3>1, <3>3
      <3> QED
        BY <3>2, <3>3
    <2>2. CASE \E m \in MemberIds : IsRow(members[m]) /\ members[m].person = p
      <3>1. PICK m \in MemberIds : IsRow(members[m]) /\ members[m].person = p
        BY <2>2
      <3>2. CASE m = x
        BY <1>2, <1>4, <3>1, <3>2 DEF heir
      <3>3. CASE m # x
        BY <1>8, <3>1, <3>3
      <3> QED
        BY <3>2, <3>3
    <2> QED
      BY <1>1, <1>3, <2>1, <2>2 DEF Kept, SomeRow
  <1>17. Shown'
    <2>1. ASSUME NEW s \in ResidentIds, IsRow(residents'[s]), residents'[s].person \notin removed'
          PROVE  ~residents'[s].deleted
      BY <1>1, <1>2, <1>3, <1>4, <1>6, <2>1 DEF Kept, Shown
    <2>2. ASSUME NEW m \in MemberIds, IsRow(members'[m]), members'[m].person \notin removed'
          PROVE  /\ ~members'[m].deleted
                 /\ IsRow(residents'[members'[m].head]) /\ ~residents'[members'[m].head].deleted
      <3>1. CASE m = o
        BY <1>2, <1>4, <3>1
      <3>2. CASE m # x /\ m \in Under(r)
        BY <1>1, <1>2, <1>3, <1>4, <1>5, <2>2, <3>2 DEF Kept, Shown
      <3>3. CASE m # o /\ m \notin Under(r)
        <4>1. /\ IsRow(members[m]) /\ members'[m] = members[m]
              /\ members[m].head \in ResidentIds \ {n, r}
          BY <1>7, <2>2, <3>3
        <4>2. ~members[m].deleted /\ Listed(members[m].head)
          BY <1>1, <1>3, <2>2, <4>1 DEF Kept, Shown
        <4> QED
          BY <1>2, <4>1, <4>2 DEF Listed
      <3> QED
        BY <1>7, <2>2, <3>1, <3>2, <3>3
    <2> QED
      BY <2>1, <2>2 DEF Shown, Listed
  <1>18. HomesFollow'
    <2>1. \A h \in Homes : homes[h] # NoRow => homes[h] \in ResidentIds \ {n}
      BY <1>1, <1>2, <1>4 DEF FamiliesTypeOK
    <2>2. n # NoRow
      BY <1>1, <1>2, Rows
    <2> QED
      BY <1>1, <1>2, <1>3, <2>1, <2>2 DEF Kept, HomesFollow
  <1>19. RelinkedKept'
    <2> SUFFICES ASSUME NEW f \in past, f[1] \in Relinked
                 PROVE  \E e \in records' : e[1] = f[1] /\ root'[e[2]] = f[2]
      BY <1>3 DEF RelinkedKept
    <2>1. PICK e \in records : e[1] = f[1] /\ root[e[2]] = f[2]
      BY <1>1 DEF Kept, RelinkedKept
    <2>2. e \in Kinds \X ResidentIds /\ e[2] # n /\ e = <<e[1], e[2]>>
      BY <1>1, <1>2, <1>4 DEF FamiliesTypeOK, Kept, RecordsNameRows
    <2>3. CASE e[2] # r
      BY <1>3, <2>1, <2>2, <2>3
    <2>4. CASE e[2] = r
      <3>1. e[1] \in Kinds \intersect Relinked /\ <<e[1], r>> \in records
        BY <2>1, <2>2, <2>4
      <3>2. <<e[1], n>> \in records'
        BY <1>3, <3>1
      <3> QED
        BY <1>3, <2>1, <2>4, <3>2
    <2> QED
      BY <2>3, <2>4
  <1> QED
    BY <1>9, <1>10, <1>11, <1>14, <1>15, <1>16, <1>17, <1>18, <1>19 DEF Kept

LEMMA PromoteDropKept ==
  ASSUME FInv, NEW q \in Clerks, NEW n \in ResidentIds, NEW o \in MemberIds, PromoteDrop(q, n, o)
  PROVE  Kept'
  BY DropEffects, DropKept

\* A request that only reads.
LEMMA ReadingKept ==
  ASSUME FInv, UNCHANGED <<familyTables, familyHistory>>
  PROVE  Kept'
  <1>1. Kept
    BY DEF FInv, Kept, TablesTyped, FamiliesTypeOK
  <1>2. UNCHANGED <<residents, members, homes, records, root, entered, removed, housed, past>>
    BY DEF familyTables, familyHistory
  <1> QED
    BY <1>1, <1>2 DEF Kept, TablesTyped, HistoryTyped, RecordsNameRows, OneRow, Rooted, SomeRow,
                      Shown, Listed, HomesFollow, RelinkedKept

-----------------------------------------------------------------------------
(***************************************************************************)
(* What the locks do: what a promotion in service has read stays as it is. *)
(***************************************************************************)

\* Tables that agree on what a promotion has read.
LEMMA SameReading ==
  ASSUME NEW u, StillRead(u),
         IsRow(residents'[u.head]), residents'[u.head].person = residents[u.head].person,
         \A m \in MemberIds : /\ m \in Under(u.head) <=> IsRow(members'[m]) /\ members'[m].head = u.head
                              /\ m \in Under(u.head) => members'[m].person = members[m].person,
         u.pc = "drop" => \A h \in Homes : homes'[h] = u.head <=> homes[h] = u.head,
         u.pc = "drop" => \A k \in Kinds : <<k, u.head>> \in records' <=> <<k, u.head>> \in records
  PROVE  StillRead(u)'
  <1>1. Under(u.head)' = Under(u.head)
    BY DEF Under
  <1>2. u.pc # "member" => u.member \in Under(u.head)' /\ members'[u.member].person = u.heir
    <2>1. Under(u.head) \subseteq MemberIds
      BY DEF Under
    <2> QED
      BY <1>1, <2>1 DEF StillRead
  <1>3. u.pc = "drop" => /\ u.settled = {h \in Homes : homes'[h] = u.head}
                         /\ u.kept = {k \in Kinds \intersect Relinked : <<k, u.head>> \in records'}
    BY DEF StillRead
  <1> QED
    BY <1>1, <1>2, <1>3 DEF StillRead

LEMMA EnterStill ==
  ASSUME FInv, NEW q \in Clerks, NEW p \in People, NEW r \in ResidentIds,
         NEW home \in Homes \union {NoRow}, Enter(q, p, r, home),
         NEW u \in Task, Promotes(u), StillRead(u)
  PROVE  StillRead(u)'
  <1>1. FamiliesTypeOK /\ u.head \in ResidentIds /\ IsRow(residents[u.head])
    BY TaskFields DEF FInv, Promotes, StillRead
  <1>2. residents[r] = NoRow /\ residents' = [residents EXCEPT ![r] = [person |-> p, deleted |-> FALSE]]
          /\ UNCHANGED <<members, homes, records>>
    BY DEF Enter, NewResident
  <1>3. residents'[u.head] = residents[u.head]
    BY <1>1, <1>2, Rows DEF FamiliesTypeOK
  <1> QED
    BY <1>1, <1>2, <1>3, SameReading DEF Under

LEMMA SettleStill ==
  ASSUME FInv, NEW q \in Clerks, Settle(q),
         NEW p \in Clerks, NEW u \in Task, task[p] = u, Promotes(u), StillRead(u)
  PROVE  StillRead(u)'
  <1> DEFINE r == task[q].head
             h == task[q].home
  <1>1. FamiliesTypeOK /\ u.head \in ResidentIds /\ IsRow(residents[u.head])
    BY TaskFields DEF FInv, Promotes, StillRead
  <1>2. UNCHANGED <<residents, members, records>>
    BY DEF Settle
  <1>3. homes' = homes \/ homes' = [homes EXCEPT ![h] = r]
    BY DEF Settle
  <1>4. ~HomeLocked(h) /\ (homes[h] # r => ~Locked(r))
    BY DEF Settle
  <1>5. Locked(u.head)
    BY DEF Locked, Promotes
  <1>6. u.pc = "drop" => homes[h] # u.head \/ h \notin Homes
    BY <1>4 DEF HomeLocked, StillRead
  <1> HIDE DEF r, h
  <1>7. u.pc = "drop" => \A g \in Homes : homes'[g] = u.head <=> homes[g] = u.head
    BY <1>1, <1>3, <1>4, <1>5, <1>6 DEF FamiliesTypeOK
  <1> QED
    BY <1>1, <1>2, <1>7, SameReading DEF Under

LEMMA DeleteStill ==
  ASSUME FInv, NEW r \in ResidentIds, Delete(r),
         NEW p \in Clerks, NEW u \in Task, task[p] = u, Promotes(u), StillRead(u)
  PROVE  StillRead(u)'
  <1>1. FamiliesTypeOK /\ u.head \in ResidentIds /\ IsRow(residents[u.head])
    BY TaskFields DEF FInv, Promotes, StillRead
  <1>2. ~Locked(r) /\ Locked(u.head)
    BY DEF Delete, Locked, Promotes
  <1>3. residents'[u.head] = residents[u.head] /\ UNCHANGED <<members, homes, records>>
    BY <1>1, <1>2 DEF Delete, FamiliesTypeOK
  <1> QED
    BY <1>1, <1>3, SameReading DEF Under

LEMMA AddInsertStill ==
  ASSUME FInv, NEW q \in Clerks, NEW n \in MemberIds, AddInsert(q, n),
         NEW p \in Clerks, NEW u \in Task, task[p] = u, Promotes(u), StillRead(u)
  PROVE  StillRead(u)'
  <1> DEFINE r == task[q].head
             row == [person |-> task[q].person, head |-> r, deleted |-> FALSE]
  <1>1. FamiliesTypeOK /\ u.head \in ResidentIds /\ IsRow(residents[u.head])
    BY TaskFields DEF FInv, Promotes, StillRead
  <1>2. ~Locked(r) /\ Locked(u.head)
    BY DEF AddInsert, Locked, Promotes
  <1>3. UNCHANGED <<residents, homes, records>>
    BY DEF AddInsert
  <1>4. members' = members \/ (members[n] = NoRow /\ members' = [members EXCEPT ![n] = row])
    BY DEF AddInsert, NewMember
  <1>5. row.head # u.head
    BY <1>2
  <1> HIDE DEF row, r
  <1>6. \A m \in MemberIds : /\ m \in Under(u.head) <=> IsRow(members'[m]) /\ members'[m].head = u.head
                             /\ m \in Under(u.head) => members'[m].person = members[m].person
    BY <1>1, <1>4, <1>5, Rows DEF Under, FamiliesTypeOK
  <1> QED
    BY <1>1, <1>3, <1>6, SameReading

LEMMA RemoveStill ==
  ASSUME FInv, NEW n \in MemberIds, Remove(n), NEW u \in Task, Promotes(u), StillRead(u)
  PROVE  StillRead(u)'
  <1> DEFINE row == [members[n] EXCEPT !.deleted = TRUE]
  <1>1. FamiliesTypeOK /\ IsRow(residents[u.head])
    BY DEF FInv, StillRead
  <1>2. IsRow(members[n]) /\ members' = [members EXCEPT ![n] = row] /\ UNCHANGED <<residents, homes, records>>
    BY DEF Remove
  <1>3. IsRow(row) /\ row.person = members[n].person /\ row.head = members[n].head
    BY <1>1, <1>2, Rows, MemberMarked
  <1> HIDE DEF row
  <1>4. \A m \in MemberIds : /\ m \in Under(u.head) <=> IsRow(members'[m]) /\ members'[m].head = u.head
                             /\ m \in Under(u.head) => members'[m].person = members[m].person
    BY <1>1, <1>2, <1>3 DEF Under, FamiliesTypeOK
  <1> QED
    BY <1>1, <1>2, <1>4, SameReading

LEMMA RecordStill ==
  ASSUME FInv, NEW kind \in Kinds, NEW r \in ResidentIds, Record(kind, r),
         NEW p \in Clerks, NEW u \in Task, task[p] = u, Promotes(u), StillRead(u)
  PROVE  StillRead(u)'
  <1>1. IsRow(residents[u.head])
    BY DEF StillRead
  <1>2. ~Locked(r) /\ Locked(u.head)
    BY DEF Record, Locked, Promotes
  <1>3. records' = records \union {<<kind, r>>} /\ UNCHANGED <<residents, members, homes>>
    BY DEF Record
  <1>4. \A k \in Kinds : <<k, u.head>> \in records' <=> <<k, u.head>> \in records
    BY <1>2, <1>3
  <1> QED
    BY <1>1, <1>3, <1>4, SameReading DEF Under

LEMMA DropStill ==
  ASSUME FInv, NEW r, NEW x, NEW n, NEW o, DropRows(r, x, n, o), DropRest(r, n),
         NEW u \in Task, Promotes(u), StillRead(u), u.head # r
  PROVE  StillRead(u)'
  <1>1. FamiliesTypeOK /\ u.head \in ResidentIds /\ IsRow(residents[u.head])
    BY TaskFields DEF FInv, Promotes, StillRead
  <1>2. u.head # n /\ residents'[u.head] = residents[u.head]
    BY <1>1, Rows DEF DropRows
  <1>3. ASSUME NEW m \in MemberIds
        PROVE  /\ m \in Under(u.head) <=> IsRow(members'[m]) /\ members'[m].head = u.head
               /\ m \in Under(u.head) => members'[m].person = members[m].person
    <2>1. CASE m = x
      BY <1>1, <2>1, Rows DEF DropRows, Under
    <2>2. CASE m = o
      BY <1>1, <1>2, <2>2, Rows DEF DropRows, Under
    <2>3. CASE m \in Under(r) \ {x}
      <3>1. members[m] \in Member /\ members[m].head = r /\ n \in ResidentIds
              /\ members'[m] = [members[m] EXCEPT !.head = n]
        BY <1>1, <2>3, Rows DEF DropRows, Under
      <3>2. members'[m].head = n
        BY <3>1, Relinking
      <3> QED
        BY <1>2, <3>1, <3>2 DEF Under
    <2>4. CASE m # o /\ m \notin Under(r)
      BY <2>4 DEF DropRows, Under
    <2> QED
      BY <2>1, <2>2, <2>3, <2>4
  <1>4. \A h \in Homes : homes'[h] = u.head <=> homes[h] = u.head
    BY <1>2 DEF DropRest
  <1>5. \A k \in Kinds : <<k, u.head>> \in records' <=> <<k, u.head>> \in records
    BY <1>2 DEF DropRest
  <1> QED
    BY <1>1, <1>2, <1>3, <1>4, <1>5, SameReading

-----------------------------------------------------------------------------
(***************************************************************************)
(* The tasks.                                                              *)
(***************************************************************************)

\* The tasks of the other requests.
Others(q) == {u \in Task : \E p \in Clerks \ {q} : task[p] = u}

\* A step of request q, after which its task is t: what it owes to the others
\* and to itself.
LEMMA OneTask ==
  ASSUME FInv, NEW q \in Clerks, NEW t \in Task, Do(q, t),
         \A u \in Others(q) : Promotes(u) => StillRead(u)',
         \A u \in Others(q) : u.pc = "add" => entered'[u.person] = NoRow,
         Promotes(t) => /\ StillRead(t)'
                        /\ \A u \in Others(q) : Promotes(u) => u.head # t.head,
         t.pc = "add" => /\ entered'[t.person] = NoRow
                         /\ \A u \in Others(q) : u.pc = "add" => u.person # t.person
  PROVE  task' \in [Clerks -> Task] /\ TasksApart'
  <1>1. FamiliesTypeOK /\ TasksApart
    BY DEF FInv
  <1>2. task' \in [Clerks -> Task] /\ task'[q] = t /\ \A p \in Clerks \ {q} : task'[p] = task[p]
    BY <1>1, DoOne
  <1>3. \A p \in Clerks \ {q} : task[p] \in Others(q)
    BY <1>1 DEF Others, FamiliesTypeOK
  <1>4. ASSUME NEW p \in Clerks, Promotes(task'[p])
        PROVE  StillRead(task[p])'
    <2>1. CASE p = q
      BY <1>2, <1>4, <2>1
    <2>2. CASE p # q
      BY <1>2, <1>3, <1>4, <2>2
    <2> QED
      BY <2>1, <2>2
  <1>5. ASSUME NEW p \in Clerks, NEW s \in Clerks,
               Promotes(task'[p]), Promotes(task'[s]), task'[p].head = task'[s].head
        PROVE  p = s
    BY <1>1, <1>2, <1>3, <1>5 DEF TasksApart
  <1>6. ASSUME NEW p \in Clerks, task'[p].pc = "add"
        PROVE  entered'[task'[p].person] = NoRow
    BY <1>2, <1>3, <1>6
  <1>7. ASSUME NEW p \in Clerks, NEW s \in Clerks,
               task'[p].pc = "add", task'[s].pc = "add", task'[p].person = task'[s].person
        PROVE  p = s
    BY <1>1, <1>2, <1>3, <1>7 DEF TasksApart
  <1> QED
    BY <1>2, <1>4, <1>5, <1>6, <1>7 DEF TasksApart

\* A step that changes no task.
LEMMA NoTask ==
  ASSUME FInv, task' = task, entered' = entered,
         \A u \in Task : (\E p \in Clerks : task[p] = u) /\ Promotes(u) => StillRead(u)'
  PROVE  task' \in [Clerks -> Task] /\ TasksApart'
  <1>1. FamiliesTypeOK /\ TasksApart
    BY DEF FInv
  <1>2. \A p \in Clerks : Promotes(task'[p]) => StillRead(task[p])'
    BY <1>1 DEF FamiliesTypeOK
  <1> QED
    BY <1>1, <1>2 DEF TasksApart, FamiliesTypeOK

LEMMA OthersNow ==
  ASSUME FInv, NEW q \in Clerks
  PROVE  \A u \in Others(q) :
           /\ Promotes(u) => /\ StillRead(u) /\ Locked(u.head)
                             /\ Promotes(task[q]) => u.head # task[q].head
           /\ u.pc = "add" => /\ entered[u.person] = NoRow /\ Known(u.person)
                              /\ task[q].pc = "add" => u.person # task[q].person
  BY DEF FInv, TasksApart, Others, Locked, Known, Promotes

\* A request that only reads: what it has to show for its next task.
LEMMA ReadingTask ==
  ASSUME FInv, NEW q \in Clerks, NEW t \in Task, Do(q, t),
         UNCHANGED <<familyTables, familyHistory>>,
         Promotes(t) => /\ StillRead(t)
                        /\ \A u \in Others(q) : Promotes(u) => u.head # t.head,
         t.pc = "add" => /\ entered[t.person] = NoRow
                         /\ \A u \in Others(q) : u.pc = "add" => u.person # t.person
  PROVE  task' \in [Clerks -> Task] /\ TasksApart'
  <1>1. UNCHANGED <<residents, members, homes, records, entered>>
    BY DEF familyTables, familyHistory
  <1>2. ASSUME NEW u, StillRead(u)
        PROVE  StillRead(u)'
    BY <1>1, <1>2 DEF StillRead, Under
  <1> QED
    BY <1>1, <1>2, OthersNow, OneTask

LEMMA FreeTask == Free \in Task /\ Free.pc = "free" /\ ~Promotes(Free)
  BY DEF Free, Task, Promotes

LEMMA SyncTask ==
  ASSUME NEW r \in ResidentIds, NEW h \in Homes
  PROVE  LET t == [pc |-> "sync", head |-> r, home |-> h]
         IN  t \in Task /\ t.pc = "sync" /\ ~Promotes(t)
  BY DEF Task, Promotes

LEMMA EnterTask ==
  ASSUME FInv, NEW q \in Clerks, NEW p \in People, NEW r \in ResidentIds,
         NEW home \in Homes \union {NoRow}, Enter(q, p, r, home)
  PROVE  task' \in [Clerks -> Task] /\ TasksApart'
  <1>1. ~Known(p) /\ entered' = [entered EXCEPT ![p] = r] /\ HistoryTyped
    BY DEF Enter, NewPerson, FInv
  <1>2. \A u \in Others(q) : u.pc = "add" => entered'[u.person] = NoRow
    BY <1>1, OthersNow DEF HistoryTyped
  <1>3. \A u \in Others(q) : Promotes(u) => StillRead(u)'
    BY EnterStill, OthersNow DEF Others
  <1>4. CASE home = NoRow
    <2>1. Do(q, Free)
      BY <1>4 DEF Enter
    <2> QED
      BY <1>2, <1>3, <2>1, OneTask, FreeTask
  <1>5. CASE home # NoRow
    <2>1. home \in Homes /\ Do(q, [pc |-> "sync", head |-> r, home |-> home])
      BY <1>5 DEF Enter
    <2> QED
      BY <1>2, <1>3, <2>1, OneTask, SyncTask
  <1> QED
    BY <1>4, <1>5

LEMMA AddInsertTask ==
  ASSUME FInv, NEW q \in Clerks, NEW m \in MemberIds, AddInsert(q, m)
  PROVE  task' \in [Clerks -> Task] /\ TasksApart'
  <1>1. \A u \in Others(q) : u.pc = "add" => entered'[u.person] = NoRow
    <2>1. task[q].pc = "add" /\ HistoryTyped
      BY DEF AddInsert, FInv
    <2>2. entered' = entered \/ entered' = [entered EXCEPT ![task[q].person] = root[task[q].head]]
      BY DEF AddInsert
    <2>3. \A u \in Others(q) : u.pc = "add" => u.person \in People
      BY TaskFields DEF Others
    <2> QED
      BY <2>1, <2>2, <2>3, OthersNow DEF HistoryTyped
  <1>2. \A u \in Others(q) : Promotes(u) => StillRead(u)'
    BY AddInsertStill, OthersNow DEF Others
  <1>3. Do(q, Free)
    BY DEF AddInsert
  <1> QED
    BY <1>1, <1>2, <1>3, OneTask, FreeTask

LEMMA PromoteDropTask ==
  ASSUME FInv, NEW q \in Clerks, NEW n \in ResidentIds, NEW o \in MemberIds, PromoteDrop(q, n, o)
  PROVE  task' \in [Clerks -> Task] /\ TasksApart'
  <1>1. Do(q, Free) /\ entered' = entered /\ Promotes(task[q])
    BY DEF PromoteDrop, Promotes
  <1>2. \A u \in Others(q) : Promotes(u) => StillRead(u)'
    BY <1>1, DropEffects, DropStill, OthersNow DEF Others
  <1> QED
    BY <1>1, <1>2, OneTask, OthersNow, FreeTask

LEMMA SettleTask ==
  ASSUME FInv, NEW q \in Clerks, Settle(q)
  PROVE  task' \in [Clerks -> Task] /\ TasksApart'
  <1>1. Do(q, Free) /\ entered' = entered
    BY DEF Settle
  <1>2. \A u \in Others(q) : Promotes(u) => StillRead(u)'
    BY SettleStill, OthersNow DEF Others
  <1> QED
    BY <1>1, <1>2, OneTask, OthersNow, FreeTask

LEMMA AddCheckTask ==
  ASSUME FInv, NEW q \in Clerks, NEW p \in People, NEW r \in ResidentIds, AddCheck(q, p, r)
  PROVE  task' \in [Clerks -> Task] /\ TasksApart'
  <1> DEFINE t == [pc |-> "add", head |-> r, person |-> p]
  <1>1. t \in Task /\ t.pc = "add" /\ ~Promotes(t) /\ t.person = p
    BY DEF Task, Promotes
  <1>2. Do(q, t) /\ ~Known(p) /\ UNCHANGED <<familyTables, familyHistory>>
    BY DEF AddCheck, NewPerson
  <1> HIDE DEF t
  <1> QED
    BY <1>1, <1>2, ReadingTask, OthersNow DEF Known

LEMMA PromoteHeadTask ==
  ASSUME FInv, NEW q \in Clerks, NEW r \in ResidentIds, NEW m \in MemberIds, PromoteHead(q, r, m)
  PROVE  task' \in [Clerks -> Task] /\ TasksApart'
  <1> DEFINE t == [pc |-> "member", head |-> r, member |-> m, old |-> residents[r].person]
  <1>1. IsRow(residents[r]) /\ ~Locked(r) /\ Do(q, t) /\ UNCHANGED <<familyTables, familyHistory>>
    BY DEF PromoteHead
  <1>2. residents[r].person \in People
    BY <1>1, Rows DEF FInv
  <1>3. t \in Task /\ t.pc = "member" /\ t.head = r /\ t.old = residents[r].person
    BY <1>2 DEF Task, Promoting
  <1> HIDE DEF t
  <1>4. StillRead(t) /\ t.pc # "add" /\ \A u \in Others(q) : Promotes(u) => u.head # t.head
    BY <1>1, <1>3, OthersNow DEF StillRead
  <1> QED
    BY <1>1, <1>3, <1>4, ReadingTask

\* The statements of a promotion that only read: the next task is true.
LEMMA PromotingTask ==
  ASSUME FInv, NEW q \in Clerks, PromoteMember(q) \/ PromoteRelink(q) \/ PromoteHomes(q)
  PROVE  task' \in [Clerks -> Task] /\ TasksApart'
  <1> DEFINE now == task[q]
  <1>1. FamiliesTypeOK /\ now \in Task /\ Promotes(now) /\ StillRead(now)
    BY DEF FInv, FamiliesTypeOK, TasksApart, PromoteMember, PromoteRelink, PromoteHomes, Promotes
  <1>2. /\ now.head \in ResidentIds /\ now.member \in MemberIds /\ now.old \in People
        /\ now.pc \in {"relink", "homes", "drop"} => now.heir \in People
        /\ now.pc \in {"homes", "drop"} => now.moved \subseteq MemberIds
    BY <1>1, TaskFields DEF StillRead, Under, Promotes
  <1>3. UNCHANGED <<familyTables, familyHistory>>
    BY DEF PromoteMember, PromoteRelink, PromoteHomes
  <1>4. \A t \in Task : StillRead(t) /\ t.head = now.head /\ t.pc # "add" /\ Do(q, t)
                          => task' \in [Clerks -> Task] /\ TasksApart'
    BY <1>1, <1>3, ReadingTask, OthersNow
  <1>5. CASE PromoteMember(q)
    <2>1. CASE now.member \in Under(now.head)
      <3> DEFINE t == [pc |-> "relink", head |-> now.head, member |-> now.member, old |-> now.old,
                       heir |-> members[now.member].person]
      <3>1. members[now.member].person \in People
        BY <1>1, <2>1, Rows DEF Under
      <3>2. /\ t \in Task /\ t.pc = "relink" /\ t.head = now.head /\ t.member = now.member
            /\ t.old = now.old /\ t.heir = members[now.member].person
        BY <1>2, <3>1 DEF Task, Promoting
      <3>3. Do(q, t)
        BY <1>5, <2>1 DEF PromoteMember
      <3> HIDE DEF t
      <3>4. StillRead(t)
        BY <1>1, <2>1, <3>2 DEF StillRead
      <3> QED
        BY <1>4, <3>2, <3>3, <3>4
    <2>2. CASE now.member \notin Under(now.head)
      <3>1. Do(q, Free)
        BY <1>5, <2>2 DEF PromoteMember
      <3> QED
        BY <1>3, <3>1, ReadingTask, FreeTask
    <2> QED
      BY <2>1, <2>2
  <1>6. CASE PromoteRelink(q)
    <2> DEFINE moved == Under(now.head) \ {now.member}
               t == [pc |-> "homes", head |-> now.head, member |-> now.member, old |-> now.old,
                     heir |-> now.heir, moved |-> moved]
    <2>1. now.pc = "relink" /\ Do(q, t)
      BY <1>6 DEF PromoteRelink
    <2>2. moved \subseteq MemberIds
      BY DEF Under
    <2>3. /\ t.pc = "homes" /\ t.head = now.head /\ t.member = now.member
          /\ t.old = now.old /\ t.heir = now.heir /\ t.moved = moved
      OBVIOUS
    <2>4. t \in Task
      BY <1>2, <2>1, <2>2 DEF Task, Promoting
    <2> HIDE DEF t
    <2>5. StillRead(t)
      BY <1>1, <2>1, <2>3 DEF StillRead
    <2> QED
      BY <1>4, <2>1, <2>3, <2>4, <2>5
  <1>7. CASE PromoteHomes(q)
    <2> DEFINE settled == {h \in Homes : homes[h] = now.head}
               kept == {k \in Kinds \intersect Relinked : <<k, now.head>> \in records}
               t == [pc |-> "drop", head |-> now.head, member |-> now.member, old |-> now.old,
                     heir |-> now.heir, moved |-> now.moved, settled |-> settled, kept |-> kept]
    <2>1. now.pc = "homes" /\ Do(q, t)
      BY <1>7 DEF PromoteHomes
    <2>2. settled \subseteq Homes /\ kept \subseteq Kinds
      OBVIOUS
    <2>3. /\ t.pc = "drop" /\ t.head = now.head /\ t.member = now.member
          /\ t.old = now.old /\ t.heir = now.heir /\ t.moved = now.moved
          /\ t.settled = settled /\ t.kept = kept
      OBVIOUS
    <2>4. t \in Task
      BY <1>2, <2>1, <2>2 DEF Task, Promoting
    <2> HIDE DEF t
    <2>5. StillRead(t)
      BY <1>1, <2>1, <2>3 DEF StillRead
    <2> QED
      BY <1>4, <2>1, <2>3, <2>4, <2>5
  <1> QED
    BY <1>5, <1>6, <1>7

-----------------------------------------------------------------------------
(***************************************************************************)
(* The results.                                                            *)
(***************************************************************************)
LEMMA Assembled ==
  ASSUME Kept, task \in [Clerks -> Task], TasksApart
  PROVE  FInv
  BY DEF Kept, TablesTyped, FInv, FamiliesTypeOK

LEMMA FamiliesStep ==
  ASSUME FInv, [FamiliesNext]_familyVars
  PROVE  Kept' /\ task' \in [Clerks -> Task] /\ TasksApart'
  <1>1. ASSUME NEW q \in Clerks, NEW p \in People, NEW r \in ResidentIds,
               NEW h \in Homes \union {NoRow}, Enter(q, p, r, h)
        PROVE  Kept' /\ task' \in [Clerks -> Task] /\ TasksApart'
    BY <1>1, EnterKept, EnterTask
  <1>2. ASSUME NEW q \in Clerks, NEW p \in People, NEW r \in ResidentIds, AddCheck(q, p, r)
        PROVE  Kept' /\ task' \in [Clerks -> Task] /\ TasksApart'
    <2>1. UNCHANGED <<familyTables, familyHistory>>
      BY <1>2 DEF AddCheck
    <2> QED
      BY <1>2, <2>1, ReadingKept, AddCheckTask
  <1>3. ASSUME NEW q \in Clerks, NEW r \in ResidentIds, NEW h \in Homes, Move(q, r, h)
        PROVE  Kept' /\ task' \in [Clerks -> Task] /\ TasksApart'
    <2>1. Do(q, [pc |-> "sync", head |-> r, home |-> h]) /\ UNCHANGED <<familyTables, familyHistory>>
      BY <1>3 DEF Move
    <2> QED
      BY <2>1, ReadingKept, ReadingTask, SyncTask
  <1>4. ASSUME NEW q \in Clerks, NEW r \in ResidentIds, NEW m \in MemberIds, PromoteHead(q, r, m)
        PROVE  Kept' /\ task' \in [Clerks -> Task] /\ TasksApart'
    <2>1. UNCHANGED <<familyTables, familyHistory>>
      BY <1>4 DEF PromoteHead
    <2> QED
      BY <1>4, <2>1, ReadingKept, PromoteHeadTask
  <1>5. ASSUME NEW q \in Clerks, NEW n \in ResidentIds, NEW o \in MemberIds, PromoteDrop(q, n, o)
        PROVE  Kept' /\ task' \in [Clerks -> Task] /\ TasksApart'
    BY <1>5, PromoteDropKept, PromoteDropTask
  <1>6. ASSUME NEW q \in Clerks, NEW m \in MemberIds, AddInsert(q, m)
        PROVE  Kept' /\ task' \in [Clerks -> Task] /\ TasksApart'
    BY <1>6, AddInsertKept, AddInsertTask
  <1>7. ASSUME NEW q \in Clerks, Settle(q)
        PROVE  Kept' /\ task' \in [Clerks -> Task] /\ TasksApart'
    BY <1>7, SettleKept, SettleTask
  <1>8. ASSUME NEW q \in Clerks, PromoteMember(q) \/ PromoteRelink(q) \/ PromoteHomes(q)
        PROVE  Kept' /\ task' \in [Clerks -> Task] /\ TasksApart'
    <2>1. UNCHANGED <<familyTables, familyHistory>>
      BY <1>8 DEF PromoteMember, PromoteRelink, PromoteHomes
    <2> QED
      BY <1>8, <2>1, ReadingKept, PromotingTask
  <1>9. ASSUME NEW q \in Clerks, Break(q)
        PROVE  Kept' /\ task' \in [Clerks -> Task] /\ TasksApart'
    <2>1. Do(q, Free) /\ UNCHANGED <<familyTables, familyHistory>>
      BY <1>9 DEF Break
    <2> QED
      BY <2>1, ReadingKept, ReadingTask, FreeTask
  <1>10. ASSUME NEW r \in ResidentIds, Delete(r)
         PROVE  Kept' /\ task' \in [Clerks -> Task] /\ TasksApart'
    <2>1. task' = task /\ entered' = entered
      BY <1>10 DEF Delete
    <2>2. \A u \in Task : (\E p \in Clerks : task[p] = u) /\ Promotes(u) => StillRead(u)'
      BY <1>10, DeleteStill DEF FInv, TasksApart
    <2> QED
      BY <1>10, <2>1, <2>2, DeleteKept, NoTask
  <1>11. ASSUME NEW kind \in Kinds, NEW r \in ResidentIds, Record(kind, r)
         PROVE  Kept' /\ task' \in [Clerks -> Task] /\ TasksApart'
    <2>1. task' = task /\ entered' = entered
      BY <1>11 DEF Record
    <2>2. \A u \in Task : (\E p \in Clerks : task[p] = u) /\ Promotes(u) => StillRead(u)'
      BY <1>11, RecordStill DEF FInv, TasksApart
    <2> QED
      BY <1>11, <2>1, <2>2, RecordKept, NoTask
  <1>12. ASSUME NEW m \in MemberIds, Remove(m)
         PROVE  Kept' /\ task' \in [Clerks -> Task] /\ TasksApart'
    <2>1. task' = task /\ entered' = entered
      BY <1>12 DEF Remove
    <2>2. \A u \in Task : (\E p \in Clerks : task[p] = u) /\ Promotes(u) => StillRead(u)'
      BY <1>12, RemoveStill DEF FInv, TasksApart
    <2> QED
      BY <1>12, <2>1, <2>2, RemoveKept, NoTask
  <1>13. ASSUME UNCHANGED familyVars
         PROVE  Kept' /\ task' \in [Clerks -> Task] /\ TasksApart'
    <2>1. UNCHANGED <<familyTables, familyHistory>> /\ task' = task
      BY <1>13 DEF familyVars
    <2>2. UNCHANGED <<residents, members, homes, records, entered>>
      BY <2>1 DEF familyTables, familyHistory
    <2>3. ASSUME NEW u, StillRead(u)
          PROVE  StillRead(u)'
      BY <2>2, <2>3 DEF StillRead, Under
    <2>4. \A u \in Task : (\E p \in Clerks : task[p] = u) /\ Promotes(u) => StillRead(u)'
      BY <2>3 DEF FInv, TasksApart
    <2> QED
      BY <2>1, <2>2, <2>4, ReadingKept, NoTask
  <1> QED
    BY <1>1, <1>2, <1>3, <1>4, <1>5, <1>6, <1>7, <1>8, <1>9, <1>10, <1>11, <1>12, <1>13
       DEF FamiliesNext

LEMMA FamiliesAtFirst == FamiliesInit => FInv
  <1> SUFFICES ASSUME FamiliesInit
               PROVE  FInv
    OBVIOUS
  <1>1. ~IsRow(NoRow)
    BY DEF IsRow
  <1>2. TablesTyped /\ HistoryTyped
    BY <1>1 DEF FamiliesInit, TablesTyped, HistoryTyped
  <1>3. RecordsNameRows /\ OneRow /\ Rooted /\ SomeRow /\ Shown /\ HomesFollow /\ RelinkedKept
    BY <1>1 DEF FamiliesInit, RecordsNameRows, OneRow, Rooted, SomeRow, Shown, HomesFollow,
                RelinkedKept
  <1>4. task \in [Clerks -> Task] /\ TasksApart
    BY FreeTask DEF FamiliesInit, TasksApart
  <1> QED
    BY <1>2, <1>3, <1>4, Assembled DEF Kept

LEMMA FamiliesPreserved ==
  ASSUME FInv, [FamiliesNext]_familyVars
  PROVE  FInv'
  <1>1. Kept' /\ task' \in [Clerks -> Task] /\ TasksApart'
    BY FamiliesStep
  <1> QED
    BY <1>1 DEF Kept, TablesTyped, FInv, FamiliesTypeOK

LEMMA FamiliesInvariant == FamiliesSpec => []FInv
  BY FamiliesAtFirst, FamiliesPreserved, PTL DEF FamiliesSpec

\* The rows, tasks and foreign keys of the register are well formed, for any
\* number of clerks (resident_repository.go).
THEOREM FamiliesTypeCorrect == FamiliesSpec => []FamiliesTypeOK
  <1>1. FInv => FamiliesTypeOK
    BY DEF FInv
  <1> QED
    BY <1>1, FamiliesInvariant, PTL

\* Whatever promotions, additions, moves and removals meet, and wherever they
\* break off: everybody who was entered and not removed is listed once, in
\* that family, and every house names a head of the family it was given to
\* (PromoteFamilyMemberToHead).
THEOREM NobodyLost == FamiliesSpec => []FamiliesWhole
  <1>1. FInv => FamiliesWhole
    <2> SUFFICES ASSUME FInv
                 PROVE  FamiliesWhole
      OBVIOUS
    <2>1. ASSUME NEW p \in People, entered[p] # NoRow, p \notin removed
          PROVE  /\ Cardinality(Headed(p)) + Cardinality(Belonging(p)) = 1
                 /\ \A r \in Headed(p) : root[r] = entered[p]
                 /\ \A m \in Belonging(p) : root[members[m].head] = entered[p]
      <3>1. (\A r \in Headed(p) : root[r] = entered[p])
              /\ (\A m \in Belonging(p) : root[members[m].head] = entered[p])
        BY DEF FInv, Rooted, Headed, Belonging, Listed
      <3>2. CASE \E r \in ResidentIds : IsRow(residents[r]) /\ residents[r].person = p
        <4>1. PICK r \in ResidentIds : IsRow(residents[r]) /\ residents[r].person = p
          BY <3>2
        <4>2. Headed(p) = {r}
          BY <2>1, <4>1 DEF FInv, OneRow, Shown, Headed, Listed
        <4>3. Belonging(p) = {}
          BY <4>1 DEF FInv, OneRow, Belonging
        <4>4. Cardinality(Headed(p)) = 1 /\ Cardinality(Belonging(p)) = 0
          BY <4>2, <4>3, FS_Singleton, FS_EmptySet
        <4> QED
          BY <3>1, <4>4
      <3>3. CASE \E m \in MemberIds : IsRow(members[m]) /\ members[m].person = p
        <4>1. PICK m \in MemberIds : IsRow(members[m]) /\ members[m].person = p
          BY <3>3
        <4>2. Belonging(p) = {m}
          BY <2>1, <4>1 DEF FInv, OneRow, Shown, Belonging
        <4>3. Headed(p) = {}
          BY <4>1 DEF FInv, OneRow, Headed, Listed
        <4>4. Cardinality(Belonging(p)) = 1 /\ Cardinality(Headed(p)) = 0
          BY <4>2, <4>3, FS_Singleton, FS_EmptySet
        <4> QED
          BY <3>1, <4>4
      <3> QED
        BY <2>1, <3>2, <3>3 DEF FInv, SomeRow
    <2> QED
      BY <2>1 DEF FamiliesWhole, EveryoneOnce, FInv
  <1> QED
    BY <1>1, FamiliesInvariant, PTL

\* The records of a family stay with it through promotions, if their table is
\* one of those that a promotion relinks.
THEOREM DuesStay ==
  ASSUME Kinds \subseteq Relinked
  PROVE  FamiliesSpec => []PastKept
  <1>1. FInv => PastKept
    <2> SUFFICES ASSUME FInv, NEW f \in past
                 PROVE  \E e \in records : e[1] = f[1] /\ root[e[2]] = f[2]
      BY DEF PastKept
    <2>1. f[1] \in Relinked
      BY DEF FInv, HistoryTyped
    <2> QED
      BY <2>1 DEF FInv, RelinkedKept
  <1> QED
    BY <1>1, FamiliesInvariant, PTL

-----------------------------------------------------------------------------
(***************************************************************************)
(* The two registers side by side, as the runs have them.                  *)
(***************************************************************************)

\* In either scenario every step is one of the register it is about, and so the
\* rows and requests of both are always well formed.
THEOREM RegistersTyped == ScenarioSpec => []RegistersTypeOK
  <1>1. ScenarioInit => IInv /\ FInv
    BY Initially, FamiliesAtFirst DEF ScenarioInit, WatchedInit
  <1>2. IInv /\ FInv /\ [ScenarioNext]_<<vars, orderly, familyVars, scenario>> => IInv' /\ FInv'
    <2> SUFFICES ASSUME IInv, FInv, [ScenarioNext]_<<vars, orderly, familyVars, scenario>>
                 PROVE  IInv' /\ FInv'
      OBVIOUS
    <2>1. [Next]_vars /\ [FamiliesNext]_familyVars
      BY DEF ScenarioNext, WatchedNext
    <2> QED
      BY <2>1, Step, FamiliesPreserved
  <1>3. IInv /\ FInv => RegistersTypeOK
    BY DEF IInv, FInv, RegistersTypeOK
  <1> QED
    BY <1>1, <1>2, <1>3, PTL DEF ScenarioSpec
=============================================================================
