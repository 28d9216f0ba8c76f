----------------------------- MODULE MCInventory -----------------------------
(***************************************************************************)
(* Model-checking instances of Inventory.                                  *)
(***************************************************************************)
EXTENDS Inventory, TLC

\* The PATCH endpoint takes any status string: every pair of three statuses
\* that between them ask for every stock movement, the senseless ones (giving
\* back what was never handed out, handing out what was given back) included.
AnyTransition ==
  LET some == {"pending", "borrowed", "returned"}
  IN  some \X some

\* The changes of status of the documented life of a borrowing: asked for,
\* approved, handed out, overdue, given back, or turned down.  The others
\* (giving back what was never handed out, re-opening what was given back)
\* move stock that was never taken or take none.
LifeOfALoan ==
  {<<"pending", "approved">>, <<"pending", "borrowed">>,
   <<"pending", "rejected">>, <<"pending", "cancelled">>,
   <<"rejected", "approved">>, <<"approved", "borrowed">>,
   <<"approved", "cancelled">>, <<"approved", "returned">>,
   <<"borrowed", "overdue">>, <<"borrowed", "returned">>,
   <<"borrowed", "rejected">>, <<"overdue", "returned">>}

AllTransitions == AnyTransition \union LifeOfALoan

NoTransition == {}

Symmetry == Permutations(Requests) \union Permutations(Loans)

(***************************************************************************)
(* Two scenarios, one drawn at the start: any behaviour, or an orderly     *)
(* one: one request at a time, none that dies after it has moved stock,    *)
(* edits that leave room for what is lent out, no change of status but     *)
(* those of the documented life of a borrowing, and none recorded as       *)
(* overdue at once, which takes nothing from the shelf.                    *)
(***************************************************************************)
VARIABLE orderly

Asks(r) == <<req'[r].loan.status, req'[r].status>>

Begins(r, pc) == req[r] = Idle /\ req'[r].pc = pc

OrderlyStep ==
  /\ InService # {} => req' # req /\ InService' \subseteq InService
  /\ \A r \in Requests :
       /\ Begins(r, "edit") =>
            LET row == items[req'[r].item]
            IN  req'[r].write.qty >= row.qty - row.avail
       /\ Begins(r, "status_item") => Asks(r) \in LifeOfALoan
       /\ Begins(r, "lend_insert") => req'[r].loan.status # "overdue"
       /\ req[r].pc = "lend_insert" => loans' # loans
       /\ req[r].pc = "status_save" => loans'[req[r].id] = req[r].loan

AnyStep == \A r \in Requests : Begins(r, "status_item") => Asks(r) \in AnyTransition

WatchedInit == Init /\ orderly \in BOOLEAN

WatchedNext == Next /\ (IF orderly THEN OrderlyStep ELSE AnyStep) /\ UNCHANGED orderly

WatchedSpec == WatchedInit /\ [][WatchedNext]_<<vars, orderly>>

\* Between requests, in an orderly behaviour, what is missing from the shelf of
\* a live item is exactly what its borrowings account for: no statement of a
\* handler moves stock that another does not record.
StockConserved ==
  orderly /\ InService = {} =>
    \A i \in Items : Live(i) => items[i].qty - items[i].avail = LentOut(i)
=============================================================================
