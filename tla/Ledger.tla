------------------------------- MODULE Ledger -------------------------------
(***************************************************************************)
(* The neighbourhood's money: funds, fee categories, dues_payments and     *)
(* financial_transactions (usecase/financial_usecase.go on top of          *)
(* repository/financial_repository.go).                                    *)
(*                                                                         *)
(* There are two places money is spent from: a fund, whose balance is the  *)
(* sum of the entries recorded for it, and the pool of a fee category,     *)
(* which holds the verified dues of the category less the entries drawn on *)
(* its NAME.  Recording an entry reads the funds, the book, the            *)
(* categories, the dues and the book again, each in a SELECT of its own,   *)
(* and inserts the entry at the end.  A SELECT that fails is not an error: *)
(* the check it was for is skipped.                                        *)
(*                                                                         *)
(* Entries are never changed or deleted one by one, so the book is kept as *)
(* the sums the code computes from it.  Dates, descriptions, proofs and    *)
(* who is in charge of a fund are not modelled.                            *)
(***************************************************************************)
EXTENDS Integers, FiniteSets, FiniteSetsExt

CONSTANTS
  NumFunds,       \* rows of funds, numbered in the order of created_at
  NumCats,        \* rows of fee_categories, likewise
  Names,          \* names of fee categories
  Dues,           \* identifiers of rows of dues_payments
  DuesAmounts,    \* the amounts residents pay
  Entries,        \* the entries clients ask to record
  MaxAmount,      \* no entry is larger
  MaxBook,     \* bound: how many entries the book takes
  Calls,       \* request slots: the goroutines that may be in service
  MaxUnderway,   \* how many requests are in service at the same time
  ReadErrors,     \* may a SELECT of a request fail, and the request go on?
  NoDues          \* marks a payment that has no row

Funds == 1..NumFunds

Cats == 1..NumCats

\* fund_id NULL
NoFund == 0

(***************************************************************************)
(* What the category of an entry says: "move" is IURAN_PINDAH_KAS (from a  *)
(* pool to a fund), "spend" is IURAN_KELUAR (from a pool to the outside),  *)
(* "named" is the bare name of a fee category, "plain" anything else.      *)
(***************************************************************************)
Labels == {"plain", "named", "spend", "move"}

Entry == [type: {"income", "expense"}, label: Labels, name: Names,
          fund: Funds \union {NoFund}, amount: 1..MaxAmount]

ASSUME SizesAssumption ==
  /\ NumFunds \in Nat \ {0}
  /\ NumCats \in Nat \ {0}
  /\ MaxAmount \in Nat \ {0}
  /\ MaxBook \in Nat
  /\ MaxUnderway \in Nat \ {0}

ASSUME InputsAssumption ==
  /\ IsFiniteSet(Calls) /\ IsFiniteSet(Dues)
  /\ Names # {}
  /\ DuesAmounts \subseteq Nat \ {0}
  /\ Entries \subseteq Entry
  /\ ReadErrors \in BOOLEAN

VARIABLES
  funds,     \* funds
  cats,      \* fee_categories
  dues,      \* dues_payments
  balance,   \* financial_transactions, summed per fund
  drawn,     \* financial_transactions, summed per name of a pool drawn on
  entries,   \* how many rows financial_transactions has
  call,       \* what every request in service has read and will do next
  blind      \* history: a check was skipped because its SELECT had failed

book == <<balance, drawn, entries>>

ledgerVars == <<funds, cats, dues, book, call, blind>>

-----------------------------------------------------------------------------
(***************************************************************************)
(* Types.                                                                  *)
(***************************************************************************)
States == {"absent", "live", "deleted"}

FundRow == [row: States, mark: {"default", "plain"}]

CatRow == [row: States, name: Names]

Payment == [cat: Cats, amount: DuesAmounts,
            status: {"pending", "verified", "rejected"}]

ASSUME NoDuesAssumption == NoDues \notin Payment

DuesTable == [Dues -> Payment \union {NoDues}]

NoCall == [pc |-> "idle"]

Call ==
  {NoCall}
    \union [pc: {"reset"}]
    \union [pc: {"balance", "category", "insert"}, entry: Entry]
    \union [pc: {"dues"}, entry: Entry, cat: Cats]
    \union [pc: {"spent"}, entry: Entry, cat: Cats, seen: DuesTable]

LedgerTypeOK ==
  /\ funds \in [Funds -> FundRow]
  /\ cats \in [Cats -> CatRow]
  /\ dues \in DuesTable
  /\ balance \in [Funds \union {NoFund} -> Int]
  /\ drawn \in [Names -> Nat]
  /\ entries \in 0..MaxBook
  /\ call \in [Calls -> Call]
  /\ blind \in BOOLEAN

-----------------------------------------------------------------------------
(***************************************************************************)
(* Helpers.                                                                *)
(***************************************************************************)
Underway == {r \in Calls : call[r].pc # "idle"}

CanTake == Cardinality(Underway) < MaxUnderway

Goes(r, record) == call' = [call EXCEPT ![r] = record]

Ends(r) == Goes(r, NoCall)

LiveFunds == {f \in Funds : funds[f].row = "live"}

DefaultFunds == {f \in LiveFunds : funds[f].mark = "default"}

Oldest(S) == {x \in S : \A y \in S : x <= y}

\* An entry that names no fund goes to the oldest default fund, or to the
\* oldest fund if none is marked, or to none if there is none.
Assigned(e) ==
  IF e.fund # NoFund \/ LiveFunds = {} THEN {e}
  ELSE {[e EXCEPT !.fund = f] :
          f \in Oldest(IF DefaultFunds = {} THEN LiveFunds ELSE DefaultFunds)}

\* The live category with a name; of several, the one created last.
CatsNamed(n) == {c \in Cats : cats[c].row = "live" /\ cats[c].name = n}

\* The verified dues of category c among the given rows of dues_payments,
\* counted unit by unit.
Verified(rows, c) ==
  {d \in Dues : rows[d] # NoDues /\ rows[d].cat = c /\ rows[d].status = "verified"}

Collected(rows, c) == Cardinality(UNION {{d} \X (1..rows[d].amount) : d \in Verified(rows, c)})

NoRows == [d \in Dues |-> NoDues]

\* What an entry adds to its fund, and whether it counts as drawn on a pool.
Signed(e) == IF e.type = "income" THEN e.amount ELSE -e.amount

Draws(e) == \/ e.type = "expense" /\ e.label \in {"named", "spend"}
            \/ e.type = "income" /\ e.label = "move"

\* The statement that follows the check of the fund, and the one before it.
AfterBalance(e) == IF e.label \in {"spend", "move"} THEN "category" ELSE "insert"

AfterFunds(e) ==
  IF e.type = "expense" /\ e.fund # NoFund THEN "balance" ELSE AfterBalance(e)

-----------------------------------------------------------------------------
(***************************************************************************)
(* A tenant starts with the default fund and the fee category that the     *)
(* migrations insert.                                                      *)
(***************************************************************************)
LedgerInit ==
  /\ funds = [f \in Funds |-> IF f = 1 THEN [row |-> "live", mark |-> "default"]
                                       ELSE [row |-> "absent", mark |-> "plain"]]
  /\ \E n \in Names :
       cats = [c \in Cats |-> [row |-> IF c = 1 THEN "live" ELSE "absent", name |-> n]]
  /\ dues = NoRows
  /\ balance = [f \in Funds \union {NoFund} |-> 0]
  /\ drawn = [n \in Names |-> 0]
  /\ entries = 0
  /\ call = [r \in Calls |-> NoCall]
  /\ blind = FALSE

(***************************************************************************)
(* Funds and fee categories: one statement each.  The UPDATEs do not look  *)
(* at deleted_at; a fund that is marked as default cannot be deleted.      *)
(***************************************************************************)
\* The next row of a table whose rows are numbered as they are created.
NextRow(table, S, i) == table[i].row = "absent" /\ \A j \in S : j < i => table[j].row # "absent"

CreateFund(f, mark) ==
  /\ CanTake
  /\ NextRow(funds, Funds, f)
  /\ funds' = [funds EXCEPT ![f] = [row |-> "live", mark |-> mark]]
  /\ UNCHANGED <<cats, dues, book, call, blind>>

UpdateFund(f, mark) ==
  /\ CanTake
  /\ funds[f].row # "absent"
  /\ funds' = [funds EXCEPT ![f].mark = mark]
  /\ UNCHANGED <<cats, dues, book, call, blind>>

DeleteFund(f) ==
  /\ CanTake
  /\ funds[f] = [row |-> "live", mark |-> "plain"]
  /\ funds' = [funds EXCEPT ![f].row = "deleted"]
  /\ UNCHANGED <<cats, dues, book, call, blind>>

CreateFeeCategory(c, n) ==
  /\ CanTake
  /\ NextRow(cats, Cats, c)
  /\ cats' = [cats EXCEPT ![c] = [row |-> "live", name |-> n]]
  /\ UNCHANGED <<funds, dues, book, call, blind>>

UpdateFeeCategory(c, n) ==
  /\ CanTake
  /\ cats[c].row # "absent"
  /\ cats' = [cats EXCEPT ![c].name = n]
  /\ UNCHANGED <<funds, dues, book, call, blind>>

DeleteFeeCategory(c) ==
  /\ CanTake
  /\ cats[c].row = "live"
  /\ cats' = [cats EXCEPT ![c].row = "deleted"]
  /\ UNCHANGED <<funds, dues, book, call, blind>>

(***************************************************************************)
(* Dues.  Verifying reads the row first, but only to write back what it    *)
(* had; any status may become verified or rejected.                        *)
(***************************************************************************)
RecordDuesPayment(d, c, a) ==
  /\ CanTake
  /\ dues[d] = NoDues
  /\ cats[c].row # "absent"
  /\ dues' = [dues EXCEPT ![d] = [cat |-> c, amount |-> a, status |-> "pending"]]
  /\ UNCHANGED <<funds, cats, book, call, blind>>

VerifyDuesPayment(d, status) ==
  /\ CanTake
  /\ dues[d] # NoDues
  /\ dues' = [dues EXCEPT ![d].status = status]
  /\ UNCHANGED <<funds, cats, book, call, blind>>

(***************************************************************************)
(* CreateFinancialTransaction.  Proceed is what follows a SELECT that was  *)
(* answered, Skip what follows one that failed.                            *)
(***************************************************************************)
Proceed(r, record) == Goes(r, record) /\ UNCHANGED blind

Skip(r, record) == ReadErrors /\ Goes(r, record) /\ blind' = TRUE

At(pc, e) == [pc |-> pc, entry |-> e]

\* A fund id that has no row is refused by the foreign key in the end.
ReadFunds(r, e) ==
  /\ CanTake
  /\ call[r] = NoCall
  /\ e.fund # NoFund => funds[e.fund].row # "absent"
  /\ \/ \E a \in Assigned(e) : Proceed(r, At(AfterFunds(a), a))
     \/ Skip(r, At(AfterFunds(e), e))
  /\ UNCHANGED <<funds, cats, dues, book>>

\* A slip: the balance is checked against the whole book.
CheckBalanceOverall(r) ==
  /\ call[r].pc = "balance"
  /\ LET e == call[r].entry
         all == MapThenSumSet(LAMBDA f : balance[f], Funds)
     IN  \/ e.amount > all /\ Proceed(r, NoCall)
         \/ e.amount <= all /\ Proceed(r, At(AfterBalance(e), e))
         \/ Skip(r, At(AfterBalance(e), e))
  /\ UNCHANGED <<funds, cats, dues, book>>

CheckBalance(r) ==
  /\ call[r].pc = "balance"
  /\ LET e == call[r].entry
     IN  \/ e.amount > balance[e.fund] /\ Proceed(r, NoCall)
         \/ e.amount <= balance[e.fund] /\ Proceed(r, At(AfterBalance(e), e))
         \/ Skip(r, At(AfterBalance(e), e))
  /\ UNCHANGED <<funds, cats, dues, book>>

\* An entry drawn on a name that no category has is not checked.
FindCategory(r) ==
  /\ call[r].pc = "category"
  /\ LET e == call[r].entry
         named == CatsNamed(e.name)
     IN  \/ named = {} /\ Proceed(r, At("insert", e))
         \/ \E c \in named :
              /\ \A other \in named : other <= c
              /\ Proceed(r, [pc |-> "dues", entry |-> e, cat |-> c])
         \/ Skip(r, At("insert", e))
  /\ UNCHANGED <<funds, cats, dues, book>>

\* When the SELECT fails nothing counts as collected, and the entry will be
\* refused: no check is skipped.
ReadDues(r) ==
  /\ call[r].pc = "dues"
  /\ \E rows \in {dues} \union (IF ReadErrors THEN {NoRows} ELSE {}) :
       Proceed(r, [pc |-> "spent", entry |-> call[r].entry,
                   cat |-> call[r].cat, seen |-> rows])
  /\ UNCHANGED <<funds, cats, dues, book>>

\* A slip: what was drawn before is not subtracted.
CheckPoolAgain(r) ==
  /\ call[r].pc = "spent"
  /\ LET e == call[r].entry
         all == Collected(call[r].seen, call[r].cat)
     IN  \/ e.amount > all /\ Proceed(r, NoCall)
         \/ e.amount <= all /\ Proceed(r, At("insert", e))
  /\ UNCHANGED <<funds, cats, dues, book>>

CheckPool(r) ==
  /\ call[r].pc = "spent"
  /\ LET e == call[r].entry
         all == Collected(call[r].seen, call[r].cat)
     IN  \/ e.amount > all - drawn[e.name] /\ Proceed(r, NoCall)
         \/ e.amount <= all - drawn[e.name] /\ Proceed(r, At("insert", e))
         \/ e.amount <= all /\ Skip(r, At("insert", e))
  /\ UNCHANGED <<funds, cats, dues, book>>

Insert(r) ==
  /\ call[r].pc = "insert"
  /\ entries < MaxBook
  /\ LET e == call[r].entry
     IN  /\ balance' = [balance EXCEPT ![e.fund] = @ + Signed(e)]
         /\ drawn' = IF Draws(e) THEN [drawn EXCEPT ![e.name] = @ + e.amount]
                                 ELSE drawn
  /\ entries' = entries + 1
  /\ Proceed(r, NoCall)
  /\ UNCHANGED <<funds, cats, dues>>

(***************************************************************************)
(* ResetFinancialData: two DELETEs.                                        *)
(***************************************************************************)
ResetDues(r) ==
  /\ CanTake
  /\ call[r] = NoCall
  /\ dues' = NoRows
  /\ Proceed(r, [pc |-> "reset"])
  /\ UNCHANGED <<funds, cats, book>>

ResetBook(r) ==
  /\ call[r].pc = "reset"
  /\ balance' = [f \in Funds \union {NoFund} |-> 0]
  /\ drawn' = [n \in Names |-> 0]
  /\ entries' = 0
  /\ Proceed(r, NoCall)
  /\ UNCHANGED <<funds, cats, dues>>

\* A request ends between two of its statements: the client is gone, which
\* cancels the context, or the server stops.
Dies(r) ==
  /\ call[r] # NoCall
  /\ Proceed(r, NoCall)
  /\ UNCHANGED <<funds, cats, dues, book>>

-----------------------------------------------------------------------------
Administration ==
  \/ \E f \in Funds :
       \/ \E mark \in {"default", "plain"} : CreateFund(f, mark) \/ UpdateFund(f, mark)
       \/ DeleteFund(f)
  \/ \E c \in Cats :
       \/ \E n \in Names : CreateFeeCategory(c, n) \/ UpdateFeeCategory(c, n)
       \/ DeleteFeeCategory(c)

Payments ==
  \E d \in Dues :
    \/ \E c \in Cats, a \in DuesAmounts : RecordDuesPayment(d, c, a)
    \/ \E status \in {"verified", "rejected"} : VerifyDuesPayment(d, status)

Recording(r) ==
  \/ \E e \in Entries : ReadFunds(r, e)
  \/ CheckBalance(r)
  \/ FindCategory(r)
  \/ ReadDues(r)
  \/ CheckPool(r)
  \/ Insert(r)

LedgerNext ==
  \/ Administration
  \/ Payments
  \/ \E r \in Calls : Recording(r) \/ ResetDues(r) \/ ResetBook(r) \/ Dies(r)

LedgerSpec == LedgerInit /\ [][LedgerNext]_ledgerVars

\* Calls that come one at a time.
OneAtATime ==
  \/ Underway = {} /\ LedgerNext
  \/ \E r \in Underway : Recording(r) \/ ResetDues(r) \/ ResetBook(r) \/ Dies(r)

SerialSpec == LedgerInit /\ [][OneAtATime]_ledgerVars

-----------------------------------------------------------------------------
(***************************************************************************)
(* Properties.                                                             *)
(***************************************************************************)

\* However requests interleave, whatever is deleted, renamed or reset
\* meanwhile and wherever they end: as long as no check was skipped, a fund
\* is overdrawn by at most one entry for every request that can be in
\* service besides the one that finds it empty.  One request at a time
\* overdraws nothing.
OverdraftBounded ==
  ~blind => \A f \in Funds : balance[f] >= -((MaxUnderway - 1) * MaxAmount)

\* Whether the step records the entry of request r.
Records(r) == call[r].pc = "insert" /\ entries' = entries + 1 /\ call'[r] = NoCall

\* An entry drawn on the pool of a fee category, which is recorded, leaves the
\* pool with no less than nothing.
DrawCovered ==
  \A r \in Calls :
    Records(r) /\ call[r].entry.label \in {"spend", "move"} /\ ~blind =>
      \A c \in CatsNamed(call[r].entry.name) :
        \/ \E newer \in CatsNamed(call[r].entry.name) : newer > c
        \/ drawn'[call[r].entry.name] <= Collected(dues, c)
=============================================================================
