---------------------------- MODULE LedgerProofs ----------------------------
(***************************************************************************)
(* What holds of Ledger for every number of funds, categories, payments,   *)
(* entries and requests, whatever fails, is renamed or reset meanwhile.    *)
(***************************************************************************)
EXTENDS MCLedger, FiniteSetTheorems, TLAPS

\* The program points that follow the check of the fund.
Checked == {"category", "dues", "spent", "insert"}

\* Request record x is about to record an expense of fund f.
PendsOn(x, f) == x.pc \in Checked /\ x.entry.type = "expense" /\ x.entry.fund = f

Pending(f) == {r \in Calls : PendsOn(call[r], f)}

\* How far k pending expenses leave a fund from the bottom: every request
\* that may be in service besides them can still take one entry.
Below(k) == -((MaxUnderway - k) * MaxAmount)

\* OverdraftBounded is not inductive: it does not say what the expenses that
\* passed their check may still take.  Some pending expense is covered but
\* for those that were recorded since it was checked, and these are among the
\* requests in service then.
Backed(f) ==
  /\ Pending(f) = {} => balance[f] >= Below(1)
  /\ Pending(f) # {} =>
       \E r \in Pending(f) :
         balance[f] >= call[r].entry.amount + Below(Cardinality(Pending(f)))

IInv ==
  /\ LedgerTypeOK
  /\ Cardinality(Underway) <= MaxUnderway
  /\ ~blind => \A f \in Funds : Backed(f)

-----------------------------------------------------------------------------
(***************************************************************************)
(* Types.                                                                  *)
(***************************************************************************)

\* What a request holds, by its program point.
LEMMA Shape ==
  ASSUME NEW x \in Call
  PROVE  /\ x.pc \in Checked \union {"balance"} => x.entry \in Entry
         /\ x.pc \in {"dues", "spent"} => x.cat \in Cats
BY DEF Call, NoCall, Checked

LEMMA EntryFields ==
  ASSUME NEW e \in Entry
  PROVE  /\ e.type \in {"income", "expense"}
         /\ e.name \in Names
         /\ e.fund \in Funds \union {NoFund}
         /\ e.amount \in Int /\ 1 <= e.amount /\ e.amount <= MaxAmount
         /\ Signed(e) \in Int
BY SizesAssumption DEF Entry, Signed

LEMMA AssignedEntry ==
  ASSUME NEW e \in Entry, NEW a \in Assigned(e)
  PROVE  a \in Entry
<1>1. CASE e.fund # NoFund \/ LiveFunds = {}
  BY <1>1 DEF Assigned
<1>2. CASE ~(e.fund # NoFund \/ LiveFunds = {})
  <2>1. PICK f \in Funds : a = [e EXCEPT !.fund = f]
    BY <1>2 DEF Assigned, Oldest, LiveFunds, DefaultFunds
  <2>2. QED
    BY <2>1 DEF Entry
<1>3. QED
  BY <1>1, <1>2

LEMMA RecordTypes ==
  ASSUME NEW e \in Entry
  PROVE  /\ NoCall \in Call
         /\ [pc |-> "reset"] \in Call
         /\ \A pc \in {"balance", "category", "insert"} : At(pc, e) \in Call
         /\ \A c \in Cats : [pc |-> "dues", entry |-> e, cat |-> c] \in Call
         /\ \A c \in Cats, rows \in DuesTable :
              [pc |-> "spent", entry |-> e, cat |-> c, seen |-> rows] \in Call
         /\ AfterBalance(e) \in {"category", "insert"}
         /\ AfterFunds(e) \in {"balance", "category", "insert"}
BY DEF Call, NoCall, At, AfterBalance, AfterFunds

\* A step that only serves a request preserves the types.
LEMMA ServeType ==
  ASSUME LedgerTypeOK, NEW r \in Calls, NEW x \in Call, Goes(r, x),
         UNCHANGED <<funds, cats, dues, book>>, blind' \in BOOLEAN
  PROVE  LedgerTypeOK'
BY DEF LedgerTypeOK, Goes, book

LEMMA ProceedType ==
  ASSUME LedgerTypeOK, NEW r \in Calls, NEW x \in Call,
         Proceed(r, x) \/ Skip(r, x), UNCHANGED <<funds, cats, dues, book>>
  PROVE  LedgerTypeOK'
<1>1. Goes(r, x) /\ blind' \in BOOLEAN
  BY DEF Proceed, Skip, LedgerTypeOK
<1>2. QED
  BY <1>1, ServeType

LEMMA TypeInit == LedgerInit => LedgerTypeOK
<1> SUFFICES ASSUME LedgerInit PROVE LedgerTypeOK
  OBVIOUS
<1>1. funds \in [Funds -> FundRow]
  BY DEF LedgerInit, FundRow, States
<1>2. cats \in [Cats -> CatRow]
  BY DEF LedgerInit, CatRow, States
<1>3. dues \in DuesTable
  BY DEF LedgerInit, DuesTable, NoRows
<1>4. balance \in [Funds \union {NoFund} -> Int] /\ drawn \in [Names -> Nat]
  BY DEF LedgerInit
<1>5. entries \in 0..MaxBook
  BY SizesAssumption DEF LedgerInit
<1>6. call \in [Calls -> Call] /\ blind \in BOOLEAN
  BY DEF LedgerInit, Call
<1>7. QED
  BY <1>1, <1>2, <1>3, <1>4, <1>5, <1>6 DEF LedgerTypeOK

LEMMA TypeAdministration == LedgerTypeOK /\ Administration => LedgerTypeOK'
<1> SUFFICES ASSUME LedgerTypeOK, Administration PROVE LedgerTypeOK'
  OBVIOUS
<1>1. ASSUME NEW f \in Funds, NEW mark \in {"default", "plain"}, CreateFund(f, mark)
      PROVE  LedgerTypeOK'
  BY <1>1 DEF LedgerTypeOK, CreateFund, FundRow, States, book
<1>2. ASSUME NEW f \in Funds, NEW mark \in {"default", "plain"}, UpdateFund(f, mark)
      PROVE  LedgerTypeOK'
  BY <1>2 DEF LedgerTypeOK, UpdateFund, FundRow, book
<1>3. ASSUME NEW f \in Funds, DeleteFund(f)
      PROVE  LedgerTypeOK'
  BY <1>3 DEF LedgerTypeOK, DeleteFund, FundRow, States, book
<1>4. ASSUME NEW c \in Cats, NEW n \in Names, CreateFeeCategory(c, n)
      PROVE  LedgerTypeOK'
  BY <1>4 DEF LedgerTypeOK, CreateFeeCategory, CatRow, States, book
<1>5. ASSUME NEW c \in Cats, NEW n \in Names, UpdateFeeCategory(c, n)
      PROVE  LedgerTypeOK'
  BY <1>5 DEF LedgerTypeOK, UpdateFeeCategory, CatRow, book
<1>6. ASSUME NEW c \in Cats, DeleteFeeCategory(c)
      PROVE  LedgerTypeOK'
  BY <1>6 DEF LedgerTypeOK, DeleteFeeCategory, CatRow, States, book
<1>7. QED
  BY <1>1, <1>2, <1>3, <1>4, <1>5, <1>6 DEF Administration

LEMMA TypePayments == LedgerTypeOK /\ Payments => LedgerTypeOK'
<1> SUFFICES ASSUME LedgerTypeOK, Payments PROVE LedgerTypeOK'
  OBVIOUS
<1>1. ASSUME NEW d \in Dues, NEW c \in Cats, NEW a \in DuesAmounts,
             RecordDuesPayment(d, c, a)
      PROVE  LedgerTypeOK'
  BY <1>1 DEF LedgerTypeOK, RecordDuesPayment, DuesTable, Payment, book
<1>2. ASSUME NEW d \in Dues, NEW status \in {"verified", "rejected"},
             VerifyDuesPayment(d, status)
      PROVE  LedgerTypeOK'
  BY <1>2 DEF LedgerTypeOK, VerifyDuesPayment, DuesTable, Payment, book
<1>3. QED
  BY <1>1, <1>2 DEF Payments

LEMMA TypeInsert ==
  ASSUME LedgerTypeOK, NEW r \in Calls, Insert(r)
  PROVE  LedgerTypeOK'
<1> DEFINE e == call[r].entry
<1>1. e \in Entry
  BY Shape DEF LedgerTypeOK, Insert, Checked
<1>2. balance' \in [Funds \union {NoFund} -> Int]
  BY <1>1, EntryFields DEF LedgerTypeOK, Insert
<1>3. drawn' \in [Names -> Nat]
  <2>1. e.amount \in Nat /\ e.name \in Names
    BY <1>1, EntryFields
  <2>2. drawn' = drawn \/ drawn' = [drawn EXCEPT ![e.name] = @ + e.amount]
    BY DEF Insert
  <2>3. QED
    BY <2>1, <2>2 DEF LedgerTypeOK
<1>4. entries' \in 0..MaxBook
  BY SizesAssumption DEF LedgerTypeOK, Insert
<1>5. call' \in [Calls -> Call] /\ blind' \in BOOLEAN
  BY <1>1, RecordTypes DEF LedgerTypeOK, Insert, Proceed, Goes
<1>6. QED
  BY <1>2, <1>3, <1>4, <1>5 DEF LedgerTypeOK, Insert

LEMMA TypeReset ==
  ASSUME LedgerTypeOK, NEW r \in Calls, ResetDues(r) \/ ResetBook(r)
  PROVE  LedgerTypeOK'
<1>1. [pc |-> "reset"] \in Call /\ NoCall \in Call
  BY DEF Call, NoCall
<1>2. CASE ResetDues(r)
  BY <1>1, <1>2 DEF LedgerTypeOK, ResetDues, Proceed, Goes, DuesTable, NoRows, book
<1>3. CASE ResetBook(r)
  BY <1>1, <1>3, SizesAssumption DEF LedgerTypeOK, ResetBook, Proceed, Goes
<1>4. QED
  BY <1>2, <1>3

\* ReadFunds, CheckBalance, FindCategory, ReadDues, CheckPool: what the
\* request becomes is a request.
LEMMA TypeChecks ==
  ASSUME LedgerTypeOK, NEW r \in Calls,
         \/ \E e \in Entries : ReadFunds(r, e)
         \/ CheckBalance(r) \/ FindCategory(r) \/ ReadDues(r) \/ CheckPool(r)
         \/ Dies(r)
  PROVE  LedgerTypeOK'
<1>1. ASSUME NEW e \in Entries, ReadFunds(r, e) PROVE LedgerTypeOK'
  <2>1. e \in Entry
    BY InputsAssumption
  <2>2. CASE \E a \in Assigned(e) : Proceed(r, At(AfterFunds(a), a))
    BY <1>1, <2>1, <2>2, AssignedEntry, RecordTypes, ProceedType DEF ReadFunds
  <2>3. CASE Skip(r, At(AfterFunds(e), e))
    BY <1>1, <2>1, <2>3, RecordTypes, ProceedType DEF ReadFunds
  <2>4. QED
    BY <1>1, <2>2, <2>3 DEF ReadFunds
<1>2. NoCall \in Call
  BY DEF Call
<1>3. CASE CheckBalance(r)
  <2>1. call[r].entry \in Entry
    BY <1>3, Shape DEF LedgerTypeOK, CheckBalance
  <2>2. QED
    BY <1>2, <1>3, <2>1, RecordTypes, ProceedType DEF CheckBalance
<1>4. CASE FindCategory(r)
  <2>1. call[r].entry \in Entry
    BY <1>4, Shape DEF LedgerTypeOK, FindCategory, Checked
  <2>2. QED
    BY <1>4, <2>1, RecordTypes, ProceedType DEF FindCategory, CatsNamed
<1>5. CASE ReadDues(r)
  <2>1. call[r].entry \in Entry /\ call[r].cat \in Cats
    BY <1>5, Shape DEF LedgerTypeOK, ReadDues, Checked
  <2>2. dues \in DuesTable /\ NoRows \in DuesTable
    BY DEF LedgerTypeOK, DuesTable, NoRows
  <2>3. QED
    BY <1>5, <2>1, <2>2, RecordTypes, ProceedType DEF ReadDues
<1>6. CASE CheckPool(r)
  <2>1. call[r].entry \in Entry
    BY <1>6, Shape DEF LedgerTypeOK, CheckPool, Checked
  <2>2. QED
    BY <1>2, <1>6, <2>1, RecordTypes, ProceedType DEF CheckPool
<1>7. CASE Dies(r)
  BY <1>2, <1>7, ProceedType DEF Dies
<1>8. QED
  BY <1>1, <1>3, <1>4, <1>5, <1>6, <1>7

LEMMA TypeNext == LedgerTypeOK /\ [LedgerNext]_ledgerVars => LedgerTypeOK'
<1> SUFFICES ASSUME LedgerTypeOK, [LedgerNext]_ledgerVars PROVE LedgerTypeOK'
  OBVIOUS
<1>1. CASE UNCHANGED ledgerVars
  BY <1>1 DEF LedgerTypeOK, ledgerVars, book
<1>2. CASE Administration
  BY <1>2, TypeAdministration
<1>3. CASE Payments
  BY <1>3, TypePayments
<1>4. ASSUME NEW r \in Calls,
             Recording(r) \/ ResetDues(r) \/ ResetBook(r) \/ Dies(r)
      PROVE  LedgerTypeOK'
  BY <1>4, TypeChecks, TypeInsert, TypeReset DEF Recording
<1>5. QED
  BY <1>1, <1>2, <1>3, <1>4 DEF LedgerNext

\* The type invariant, for every value of the constants.
THEOREM TypeCorrect == LedgerSpec => []LedgerTypeOK
<1>1. LedgerInit => LedgerTypeOK
  BY TypeInit
<1>2. LedgerTypeOK /\ [LedgerNext]_ledgerVars => LedgerTypeOK'
  BY TypeNext
<1>3. QED
  BY <1>1, <1>2, PTL DEF LedgerSpec

-----------------------------------------------------------------------------
(***************************************************************************)
(* The overdraft.  A step changes the record of at most one request: the   *)
(* request stays with an expense it had checked (Unmoved), is done with it *)
(* (Leaves) or has just checked one (Joins).                               *)
(***************************************************************************)
LEMMA BelowFacts ==
  /\ \A k \in Int : Below(k) \in Int /\ Below(k + 1) = Below(k) + MaxAmount
  /\ \A k \in Int : k <= MaxUnderway => Below(k) <= 0
  /\ \A k \in Int : k >= 1 => Below(1) <= Below(k)
<1> USE SizesAssumption
<1>1. ASSUME NEW k \in Int
      PROVE  Below(k) \in Int /\ Below(k + 1) = Below(k) + MaxAmount
  <2>1. (MaxUnderway - k) * MaxAmount \in Int
    OBVIOUS
  <2>2. (MaxUnderway - (k + 1)) * MaxAmount = (MaxUnderway - k) * MaxAmount - MaxAmount
    OBVIOUS
  <2>3. QED
    BY <2>1, <2>2 DEF Below
<1>2. ASSUME NEW k \in Int, k <= MaxUnderway
      PROVE  Below(k) <= 0
  <2>1. MaxUnderway - k \in Nat
    BY <1>2
  <2>2. \A a, b \in Nat : a * b \in Nat
    OBVIOUS
  <2>3. (MaxUnderway - k) * MaxAmount \in Nat
    BY <2>1, <2>2
  <2>4. QED
    BY <2>3 DEF Below
<1>3. ASSUME NEW k \in Int, k >= 1
      PROVE  Below(1) <= Below(k)
  <2>1. k - 1 \in Nat
    BY <1>3
  <2>2. \A a, b \in Nat : a * b \in Nat
    OBVIOUS
  <2>3. (k - 1) * MaxAmount \in Nat
    BY <2>1, <2>2
  <2>4. (MaxUnderway - 1) * MaxAmount = (MaxUnderway - k) * MaxAmount + (k - 1) * MaxAmount
    OBVIOUS
  <2>5. (MaxUnderway - 1) * MaxAmount \in Int /\ (MaxUnderway - k) * MaxAmount \in Int
    OBVIOUS
  <2>6. QED
    BY <2>3, <2>4, <2>5 DEF Below
<1>4. QED
  BY <1>1, <1>2, <1>3

LEMMA PendingFacts ==
  ASSUME LedgerTypeOK, NEW f \in Funds
  PROVE  /\ IsFiniteSet(Pending(f)) /\ Cardinality(Pending(f)) \in Nat
         /\ IsFiniteSet(Underway) /\ Cardinality(Underway) \in Nat
         /\ Pending(f) \subseteq Underway
         /\ balance[f] \in Int
         /\ \A r \in Pending(f) : /\ call[r].entry.amount \in Int
                                  /\ 1 <= call[r].entry.amount
                                  /\ call[r].entry.amount <= MaxAmount
<1>1. Pending(f) \subseteq Underway
  BY DEF Pending, PendsOn, Underway, Checked
<1>2. IsFiniteSet(Pending(f)) /\ IsFiniteSet(Underway)
  BY InputsAssumption, FS_Subset DEF Pending, Underway
<1>3. \A r \in Pending(f) : call[r].entry \in Entry
  BY Shape DEF LedgerTypeOK, Pending, PendsOn
<1>4. QED
  BY <1>1, <1>2, <1>3, EntryFields, FS_CardinalityType DEF LedgerTypeOK

\* A fund is never further down than OverdraftBounded allows.
LEMMA BackedBounds ==
  ASSUME LedgerTypeOK, NEW f \in Funds, Backed(f)
  PROVE  balance[f] >= -((MaxUnderway - 1) * MaxAmount)
<1>1. Below(1) = -((MaxUnderway - 1) * MaxAmount)
  BY DEF Below
<1>2. CASE Pending(f) = {}
  BY <1>1, <1>2 DEF Backed
<1>3. CASE Pending(f) # {}
  <2> DEFINE k == Cardinality(Pending(f))
  <2>1. PICK r \in Pending(f) : balance[f] >= call[r].entry.amount + Below(k)
    BY <1>3 DEF Backed
  <2>2. k \in Int /\ k >= 1
    BY <1>3, PendingFacts, FS_EmptySet
  <2>3. Below(1) \in Int /\ Below(k) \in Int /\ Below(1) <= Below(k)
    BY <2>2, BelowFacts
  <2>4. balance[f] \in Int /\ call[r].entry.amount \in Int /\ 1 <= call[r].entry.amount
    BY PendingFacts
  <2> HIDE DEF k
  <2>5. QED
    BY <1>1, <2>1, <2>3, <2>4
<1>4. QED
  BY <1>2, <1>3

LEMMA Unmoved ==
  ASSUME LedgerTypeOK, NEW f \in Funds, Backed(f), NEW b \in Int, b >= balance[f],
         balance'[f] = b,
         Pending(f)' = Pending(f),
         \A q \in Pending(f) : call'[q].entry = call[q].entry
  PROVE  Backed(f)'
<1>1. CASE Pending(f) = {}
  <2>1. balance[f] \in Int /\ Below(1) \in Int
    BY PendingFacts, BelowFacts
  <2>2. QED
    BY <1>1, <2>1 DEF Backed, Below
<1>2. CASE Pending(f) # {}
  <2> DEFINE k == Cardinality(Pending(f))
  <2>1. PICK q \in Pending(f) : balance[f] >= call[q].entry.amount + Below(k)
    BY <1>2 DEF Backed
  <2>2. /\ balance[f] \in Int /\ call[q].entry.amount \in Int
        /\ k \in Int /\ Below(k) \in Int
    BY PendingFacts, BelowFacts
  <2>3. balance'[f] >= call'[q].entry.amount + Below(k)
    BY <2>1, <2>2
  <2>4. Cardinality(Pending(f))' = k
    OBVIOUS
  <2>5. QED
    BY <1>2, <2>3, <2>4 DEF Backed, Below
<1>3. QED
  BY <1>1, <1>2

\* A pending expense is recorded or given up.
LEMMA Leaves ==
  ASSUME LedgerTypeOK, NEW f \in Funds, Backed(f), NEW r \in Pending(f), NEW b \in Int,
         b >= balance[f] - call[r].entry.amount, balance'[f] = b,
         Pending(f)' = Pending(f) \ {r},
         \A q \in Pending(f) \ {r} : call'[q].entry = call[q].entry
  PROVE  Backed(f)'
<1> DEFINE k == Cardinality(Pending(f))
<1>1. PICK w \in Pending(f) : balance[f] >= call[w].entry.amount + Below(k)
  BY DEF Backed
<1>2. Cardinality(Pending(f) \ {r}) = k - 1
  BY PendingFacts, FS_RemoveElement
<1>3. /\ k \in Int /\ Below(k) \in Int /\ Below(k - 1) \in Int
      /\ Below(k) = Below(k - 1) + MaxAmount
  <2>1. k \in Int /\ k - 1 \in Int /\ (k - 1) + 1 = k
    BY PendingFacts
  <2> HIDE DEF k
  <2>2. QED
    BY <2>1, BelowFacts
<1>4. /\ balance[f] \in Int
      /\ \A q \in Pending(f) : /\ call[q].entry.amount \in Int
                               /\ 1 <= call[q].entry.amount
                               /\ call[q].entry.amount <= MaxAmount
  BY PendingFacts
<1>5. MaxAmount \in Int
  BY SizesAssumption
<1>6. CASE Pending(f) \ {r} = {}
  <2>1. w = r /\ Pending(f) = {r}
    BY <1>6
  <2>2. k = 1
    BY <2>1, FS_Singleton
  <2>3. balance'[f] >= Below(1)
    BY <1>1, <1>3, <1>4, <2>1, <2>2
  <2>4. Pending(f)' = {}
    BY <1>6
  <2>5. QED
    BY <2>3, <2>4 DEF Backed, Below
<1>7. CASE Pending(f) \ {r} # {}
  <2>1. PICK s \in Pending(f) \ {r} : w # r => s = w
    BY <1>7
  <2>2. balance'[f] >= call[s].entry.amount + Below(k - 1)
    <3> HIDE DEF k
    <3>1. CASE s = w
      BY <1>1, <1>3, <1>4, <1>5, <2>1, <3>1
    <3>2. CASE w = r
      BY <1>1, <1>3, <1>4, <1>5, <2>1, <3>2
    <3>3. QED
      BY <2>1, <3>1, <3>2
  <2>3. call'[s].entry = call[s].entry /\ s \in Pending(f)'
    BY <2>1
  <2>4. Cardinality(Pending(f))' = k - 1
    BY <1>2
  <2> HIDE DEF k
  <2>5. QED
    BY <1>7, <2>2, <2>3, <2>4 DEF Backed, Below
<1>8. QED
  BY <1>6, <1>7

\* An expense that its fund covers becomes pending.
LEMMA Joins ==
  ASSUME LedgerTypeOK, NEW f \in Funds, NEW r \in Calls, r \notin Pending(f),
         NEW a \in Int, a <= balance[f], balance'[f] = balance[f],
         Pending(f)' = Pending(f) \union {r}, call'[r].entry.amount = a,
         Cardinality(Pending(f) \union {r}) <= MaxUnderway
  PROVE  Backed(f)'
<1> DEFINE k == Cardinality(Pending(f) \union {r})
<1>1. k \in Int
  <2>1. IsFiniteSet(Pending(f) \union {r})
    BY PendingFacts, FS_AddElement
  <2>2. QED
    BY <2>1, FS_CardinalityType
<1>2. Below(k) \in Int /\ Below(k) <= 0
  BY <1>1, BelowFacts
<1>3. balance[f] \in Int
  BY PendingFacts
<1>4. balance'[f] >= call'[r].entry.amount + Below(k)
  BY <1>2, <1>3
<1>5. Cardinality(Pending(f))' = k
  OBVIOUS
<1>6. QED
  BY <1>4, <1>5 DEF Backed, Below

-----------------------------------------------------------------------------
(***************************************************************************)
(* Serving one request.                                                    *)
(***************************************************************************)
LEMMA PendingServe ==
  ASSUME LedgerTypeOK, NEW r \in Calls, NEW x, Goes(r, x), NEW f \in Funds
  PROVE  /\ PendsOn(x, f) => Pending(f)' = Pending(f) \union {r}
         /\ ~PendsOn(x, f) => Pending(f)' = Pending(f) \ {r}
         /\ call'[r] = x
         /\ \A q \in Calls \ {r} : call'[q] = call[q]
<1>1. call'[r] = x /\ \A q \in Calls \ {r} : call'[q] = call[q]
  BY DEF LedgerTypeOK, Goes
<1>2. Pending(f)' = {q \in Calls : PendsOn(call'[q], f)}
  BY DEF Pending, PendsOn
<1>3. QED
  BY <1>1, <1>2 DEF Pending

\* A step that keeps the book and makes nothing pending keeps funds backed.
LEMMA ServeBacked ==
  ASSUME LedgerTypeOK, NEW r \in Calls, NEW x, Goes(r, x), UNCHANGED balance,
         NEW f \in Funds, Backed(f),
         PendsOn(x, f) => PendsOn(call[r], f) /\ x.entry = call[r].entry
  PROVE  Backed(f)'
<1>1. balance[f] \in Int
  BY PendingFacts
<1>2. CASE PendsOn(x, f)
  <2>1. r \in Pending(f)
    BY <1>2 DEF Pending
  <2>2. Pending(f)' = Pending(f)
    BY <1>2, <2>1, PendingServe
  <2>3. \A q \in Pending(f) : call'[q].entry = call[q].entry
    BY <1>2, PendingServe DEF Pending
  <2>4. QED
    BY <1>1, <2>2, <2>3, Unmoved
<1>3. CASE ~PendsOn(x, f)
  <2>1. Pending(f)' = Pending(f) \ {r}
    BY <1>3, PendingServe
  <2>2. \A q \in Pending(f) \ {r} : call'[q].entry = call[q].entry
    BY PendingServe DEF Pending
  <2>3. CASE r \in Pending(f)
    <3>1. call[r].entry.amount \in Int /\ 1 <= call[r].entry.amount
      BY <2>3, PendingFacts
    <3>2. balance[f] >= balance[f] - call[r].entry.amount
      BY <1>1, <3>1
    <3>3. QED
      BY <1>1, <2>1, <2>2, <2>3, <3>2, Leaves
  <2>4. CASE r \notin Pending(f)
    <3>1. Pending(f) \ {r} = Pending(f)
      BY <2>4
    <3>2. Pending(f)' = Pending(f)
      BY <2>1, <3>1
    <3>3. \A q \in Pending(f) : call'[q].entry = call[q].entry
      BY <2>2, <3>1
    <3>4. QED
      BY <1>1, <3>2, <3>3, Unmoved
  <2>5. QED
    BY <2>3, <2>4
<1>4. QED
  BY <1>2, <1>3

\* A request is served beyond its first statement, or takes a free slot.
LEMMA SlotsServe ==
  ASSUME LedgerTypeOK, Cardinality(Underway) <= MaxUnderway,
         NEW r \in Calls, NEW x, Goes(r, x), CanTake \/ r \in Underway
  PROVE  Cardinality(Underway)' <= MaxUnderway
<1> DEFINE S == {q \in Calls : call'[q].pc # "idle"}
<1>1. S \subseteq Underway \union {r}
  BY DEF LedgerTypeOK, Goes, Underway
<1>2. IsFiniteSet(Underway) /\ IsFiniteSet(Underway \union {r})
  BY InputsAssumption, FS_Subset DEF Underway
<1>3. Cardinality(Underway \union {r}) <= MaxUnderway
  <2>1. CASE r \in Underway
    <3>1. Underway \union {r} = Underway
      BY <2>1
    <3>2. QED
      BY <3>1
  <2>2. CASE r \notin Underway /\ CanTake
    <3>1. Cardinality(Underway \union {r}) = Cardinality(Underway) + 1
      BY <1>2, <2>2, FS_AddElement
    <3>2. QED
      BY <1>2, <2>2, <3>1, FS_CardinalityType, SizesAssumption DEF CanTake
  <2>3. QED
    BY <2>1, <2>2
<1>4. Cardinality(S) <= MaxUnderway
  <2>1. Cardinality(S) <= Cardinality(Underway \union {r})
    BY <1>1, <1>2, FS_Subset
  <2>2. IsFiniteSet(S)
    BY <1>1, <1>2, FS_Subset
  <2>3. QED
    BY <1>2, <1>3, <2>1, <2>2, FS_CardinalityType, SizesAssumption
<1>5. Cardinality(Underway)' = Cardinality(S)
  BY DEF Underway
<1>6. QED
  BY <1>4, <1>5

LEMMA InServicePc ==
  ASSUME NEW r \in Calls, call[r].pc # "idle"
  PROVE  r \in Underway
BY DEF Underway

-----------------------------------------------------------------------------
(***************************************************************************)
(* The invariant, action by action.                                        *)
(***************************************************************************)
LEMMA SlotsNext == IInv /\ [LedgerNext]_ledgerVars => Cardinality(Underway)' <= MaxUnderway
<1> SUFFICES ASSUME IInv, [LedgerNext]_ledgerVars PROVE Cardinality(Underway)' <= MaxUnderway
  OBVIOUS
<1>1. LedgerTypeOK /\ Cardinality(Underway) <= MaxUnderway
  BY DEF IInv
<1>2. CASE UNCHANGED call
  BY <1>1, <1>2 DEF Underway
<1>3. ASSUME NEW r \in Calls, NEW x, Goes(r, x), CanTake \/ call[r].pc # "idle"
      PROVE  Cardinality(Underway)' <= MaxUnderway
  BY <1>1, <1>3, SlotsServe, InServicePc
<1>4. Administration \/ Payments \/ UNCHANGED ledgerVars => UNCHANGED call
  BY DEF Administration, Payments, CreateFund, UpdateFund, DeleteFund,
         CreateFeeCategory, UpdateFeeCategory, DeleteFeeCategory,
         RecordDuesPayment, VerifyDuesPayment, ledgerVars
<1>5. ASSUME NEW r \in Calls,
             Recording(r) \/ ResetDues(r) \/ ResetBook(r) \/ Dies(r)
      PROVE  CanTake \/ call[r].pc # "idle"
  <2>1. call[r] \in Call
    BY <1>1 DEF LedgerTypeOK
  <2>2. call[r] # NoCall => call[r].pc # "idle"
    BY <2>1 DEF Call, NoCall
  <2>3. QED
    BY <1>5, <2>2 DEF Recording, ReadFunds, CheckBalance, FindCategory, ReadDues,
       CheckPool, Insert, ResetDues, ResetBook, Dies
<1>6. ASSUME NEW r \in Calls,
             Recording(r) \/ ResetDues(r) \/ ResetBook(r) \/ Dies(r)
      PROVE  \E x : Goes(r, x)
  BY <1>6 DEF Recording, ReadFunds, CheckBalance, FindCategory, ReadDues,
     CheckPool, Insert, ResetDues, ResetBook, Dies, Proceed, Skip
<1>7. QED
  BY <1>2, <1>3, <1>4, <1>5, <1>6 DEF LedgerNext

\* The entry that ReadFunds carries on with has not passed a check.
LEMMA FirstNotPending ==
  ASSUME NEW e \in Entry, NEW f \in Funds
  PROVE  ~PendsOn(At(AfterFunds(e), e), f)
<1>1. NoFund # f
  BY DEF Funds, NoFund
<1>2. CASE e.type = "expense" /\ e.fund = f
  BY <1>1, <1>2 DEF PendsOn, At, AfterFunds, Checked
<1>3. CASE ~(e.type = "expense" /\ e.fund = f)
  BY <1>3 DEF PendsOn, At
<1>4. QED
  BY <1>2, <1>3

LEMMA BackedReadFunds ==
  ASSUME IInv, NEW r \in Calls, NEW e \in Entries, ReadFunds(r, e), ~blind',
         NEW f \in Funds
  PROVE  Backed(f)'
<1>1. LedgerTypeOK /\ e \in Entry
  BY InputsAssumption DEF IInv
<1>2. ~blind /\ \E a \in Assigned(e) : Goes(r, At(AfterFunds(a), a))
  BY DEF ReadFunds, Proceed, Skip
<1>3. PICK a \in Assigned(e) : Goes(r, At(AfterFunds(a), a))
  BY <1>2
<1>4. ~PendsOn(At(AfterFunds(a), a), f)
  BY <1>1, AssignedEntry, FirstNotPending
<1>5. UNCHANGED balance /\ Backed(f)
  BY <1>2 DEF ReadFunds, book, IInv
<1>6. QED
  BY <1>1, <1>3, <1>4, <1>5, ServeBacked

LEMMA BackedCheckBalance ==
  ASSUME IInv, NEW r \in Calls, CheckBalance(r), ~blind', NEW f \in Funds
  PROVE  Backed(f)'
<1> DEFINE e == call[r].entry
           x == At(AfterBalance(e), e)
<1>1. LedgerTypeOK /\ call[r].pc = "balance" /\ UNCHANGED balance
  BY DEF IInv, CheckBalance, book
<1>2. ~blind /\ Backed(f)
  BY DEF CheckBalance, Proceed, Skip, IInv
<1>3. CASE Goes(r, NoCall)
  <2>1. ~PendsOn(NoCall, f)
    BY DEF PendsOn, NoCall, Checked
  <2>2. QED
    BY <1>1, <1>2, <1>3, <2>1, ServeBacked
<1>4. CASE e.amount <= balance[e.fund] /\ Goes(r, x)
  <2>1. CASE PendsOn(x, f)
    <3>1. e.fund = f /\ x.entry = e
      BY <2>1 DEF PendsOn, At
    <3>2. r \notin Pending(f)
      BY <1>1 DEF Pending, PendsOn, Checked
    <3>3. Pending(f)' = Pending(f) \union {r} /\ call'[r].entry = e
      BY <1>1, <1>4, <2>1, <3>1, PendingServe
    <3>4. e \in Entry /\ e.amount \in Int
      BY <1>1, Shape, EntryFields DEF LedgerTypeOK
    <3>5. Cardinality(Pending(f) \union {r}) <= MaxUnderway
      <4>1. Pending(f) \union {r} \subseteq Underway
        BY <1>1, PendingFacts, InServicePc
      <4>2. IsFiniteSet(Underway) /\ Cardinality(Underway) \in Nat
        BY <1>1, PendingFacts
      <4>3. /\ Cardinality(Pending(f) \union {r}) <= Cardinality(Underway)
            /\ IsFiniteSet(Pending(f) \union {r})
        BY <4>1, <4>2, FS_Subset
      <4>4. Cardinality(Underway) <= MaxUnderway
        BY DEF IInv
      <4>5. QED
        BY <4>2, <4>3, <4>4, FS_CardinalityType, SizesAssumption
    <3>6. balance'[f] = balance[f] /\ e.amount <= balance[f]
      BY <1>1, <1>4, <3>1
    <3>7. QED
      BY <1>1, <3>2, <3>3, <3>4, <3>5, <3>6, Joins
  <2>2. CASE ~PendsOn(x, f)
    BY <1>1, <1>2, <1>4, <2>2, ServeBacked
  <2>3. QED
    BY <2>1, <2>2
<1>5. QED
  BY <1>3, <1>4 DEF CheckBalance, Proceed, Skip

\* The checks of the pool carry an entry on, or refuse it.
LEMMA BackedPool ==
  ASSUME IInv, NEW r \in Calls, ~blind', NEW f \in Funds,
         FindCategory(r) \/ ReadDues(r) \/ CheckPool(r) \/ Dies(r)
  PROVE  Backed(f)'
<1>1. LedgerTypeOK /\ ~blind /\ Backed(f) /\ UNCHANGED balance
  <2>1. UNCHANGED balance
    BY DEF FindCategory, ReadDues, CheckPool, Dies, book
  <2>2. ~blind
    <3>1. \A x : Proceed(r, x) \/ Skip(r, x) => ~blind
      BY DEF Proceed, Skip
    <3>2. CASE FindCategory(r)
      BY <3>1, <3>2 DEF FindCategory
    <3>3. CASE ReadDues(r)
      BY <3>1, <3>3 DEF ReadDues
    <3>4. CASE CheckPool(r)
      BY <3>1, <3>4 DEF CheckPool
    <3>5. CASE Dies(r)
      BY <3>1, <3>5 DEF Dies
    <3>6. QED
      BY <3>2, <3>3, <3>4, <3>5
  <2>3. QED
    BY <2>1, <2>2 DEF IInv
<1>2. ASSUME NEW x, Goes(r, x), x = NoCall \/ (call[r].pc \in Checked /\ x.entry = call[r].entry)
      PROVE  Backed(f)'
  <2>1. PendsOn(x, f) => PendsOn(call[r], f) /\ x.entry = call[r].entry
    BY <1>2 DEF PendsOn, NoCall, Checked
  <2>2. QED
    BY <1>1, <1>2, <2>1, ServeBacked
<1> DEFINE e == call[r].entry
           found(c) == [pc |-> "dues", entry |-> e, cat |-> c]
           read(c, rows) == [pc |-> "spent", entry |-> e, cat |-> c, seen |-> rows]
<1>3. CASE FindCategory(r)
  <2>1. Goes(r, At("insert", e)) \/ \E c \in Cats : Goes(r, found(c))
    BY <1>3 DEF FindCategory, Proceed, Skip, CatsNamed
  <2>2. At("insert", e).entry = e /\ \A c : found(c).entry = e
    BY DEF At
  <2>3. call[r].pc \in Checked
    BY <1>3 DEF FindCategory, Checked
  <2> HIDE DEF found
  <2>4. QED
    BY <1>2, <2>1, <2>2, <2>3
<1>4. CASE ReadDues(r)
  <2>1. \E rows : Goes(r, read(call[r].cat, rows))
    BY <1>4 DEF ReadDues, Proceed
  <2>2. \A rows : read(call[r].cat, rows).entry = e
    OBVIOUS
  <2>3. call[r].pc \in Checked
    BY <1>4 DEF ReadDues, Checked
  <2> HIDE DEF read
  <2>4. QED
    BY <1>2, <2>1, <2>2, <2>3
<1>5. CASE CheckPool(r)
  <2>1. Goes(r, At("insert", e)) \/ Goes(r, NoCall)
    BY <1>5 DEF CheckPool, Proceed, Skip
  <2>2. At("insert", e).entry = e
    BY DEF At
  <2>3. call[r].pc \in Checked
    BY <1>5 DEF CheckPool, Checked
  <2>4. QED
    BY <1>2, <2>1, <2>2, <2>3
<1>6. CASE Dies(r)
  BY <1>2, <1>6 DEF Dies, Proceed
<1>7. QED
  BY <1>3, <1>4, <1>5, <1>6

LEMMA BackedInsert ==
  ASSUME IInv, NEW r \in Calls, Insert(r), ~blind', NEW f \in Funds
  PROVE  Backed(f)'
<1> DEFINE e == call[r].entry
<1>1. /\ LedgerTypeOK /\ ~blind /\ Backed(f) /\ Goes(r, NoCall)
      /\ call[r].pc = "insert"
      /\ balance' = [balance EXCEPT ![e.fund] = @ + Signed(e)]
  BY DEF Insert, Proceed, IInv
<1>2. ~PendsOn(NoCall, f)
  BY DEF PendsOn, NoCall, Checked
<1>3. e \in Entry
  BY <1>1, Shape DEF LedgerTypeOK, Checked
<1>4. balance[f] \in Int /\ e.amount \in Int /\ 1 <= e.amount
  BY <1>1, <1>3, PendingFacts, EntryFields
<1>5. Pending(f)' = Pending(f) \ {r}
  BY <1>1, <1>2, PendingServe
<1>6. \A q \in Pending(f) \ {r} : call'[q].entry = call[q].entry
  BY <1>1, PendingServe DEF Pending
<1>7. CASE r \in Pending(f)
  <2>1. e.type = "expense" /\ e.fund = f
    BY <1>7 DEF Pending, PendsOn
  <2>2. balance'[f] = balance[f] - e.amount
    BY <1>1, <1>3, <1>4, <2>1 DEF LedgerTypeOK, Signed
  <2>3. balance[f] - e.amount \in Int
    BY <1>4
  <2>4. QED
    BY <1>1, <1>5, <1>6, <1>7, <2>2, <2>3, Leaves
<1>8. CASE r \notin Pending(f)
  <2>1. ~(e.type = "expense" /\ e.fund = f)
    BY <1>1, <1>8 DEF Pending, PendsOn, Checked
  <2>2. balance'[f] \in Int /\ balance'[f] >= balance[f]
    BY <1>1, <1>3, <1>4, <2>1, EntryFields DEF LedgerTypeOK, Signed
  <2>3. Pending(f) \ {r} = Pending(f)
    BY <1>8
  <2>4. PICK b \in Int : balance'[f] = b /\ b >= balance[f]
    BY <2>2
  <2>5. QED
    BY <1>1, <1>5, <1>6, <2>3, <2>4, Unmoved
<1>9. QED
  BY <1>7, <1>8

LEMMA BackedResetDues ==
  ASSUME IInv, NEW r \in Calls, ResetDues(r), ~blind', NEW f \in Funds
  PROVE  Backed(f)'
<1>1. /\ LedgerTypeOK /\ ~blind /\ Backed(f) /\ UNCHANGED balance
      /\ Goes(r, [pc |-> "reset"])
  BY DEF ResetDues, Proceed, IInv, book
<1>2. ~PendsOn([pc |-> "reset"], f)
  BY DEF PendsOn, Checked
<1>3. QED
  BY <1>1, <1>2, ServeBacked

\* A reset takes a slot of its own: one expense fewer is pending.
LEMMA BackedResetBook ==
  ASSUME IInv, NEW r \in Calls, ResetBook(r), ~blind', NEW f \in Funds
  PROVE  Backed(f)'
<1> DEFINE k == Cardinality(Pending(f))
<1>1. LedgerTypeOK /\ Goes(r, NoCall) /\ call[r].pc = "reset" /\ balance'[f] = 0
  BY DEF ResetBook, Proceed, IInv
<1>2. r \notin Pending(f) /\ ~PendsOn(NoCall, f)
  BY <1>1 DEF Pending, PendsOn, NoCall, Checked
<1>3. Pending(f)' = Pending(f)
  BY <1>1, <1>2, PendingServe
<1>4. \A q \in Pending(f) : call'[q].entry = call[q].entry
  BY <1>1, <1>2, PendingServe DEF Pending
<1>5. k \in Nat /\ k + 1 <= MaxUnderway
  <2>1. Pending(f) \union {r} \subseteq Underway
    BY <1>1, PendingFacts, InServicePc
  <2>2. /\ IsFiniteSet(Underway) /\ Cardinality(Underway) \in Nat
        /\ IsFiniteSet(Pending(f)) /\ k \in Nat
    BY <1>1, PendingFacts
  <2>3. Cardinality(Pending(f) \union {r}) = k + 1
    BY <1>2, <2>2, FS_AddElement
  <2>4. Cardinality(Pending(f) \union {r}) <= Cardinality(Underway)
    BY <2>1, <2>2, FS_Subset
  <2>5. Cardinality(Underway) <= MaxUnderway /\ MaxUnderway \in Nat
    BY SizesAssumption DEF IInv
  <2> HIDE DEF k
  <2>6. QED
    BY <2>2, <2>3, <2>4, <2>5
<1>6. /\ Below(k) \in Int /\ Below(k) + MaxAmount <= 0
      /\ Below(1) \in Int /\ Below(1) <= 0
  <2>1. k + 1 \in Int /\ k \in Int /\ 1 <= MaxUnderway
    BY <1>5, SizesAssumption
  <2> HIDE DEF k
  <2>2. QED
    BY <1>5, <2>1, BelowFacts
<1>7. CASE Pending(f) = {}
  BY <1>1, <1>3, <1>6, <1>7 DEF Backed, Below
<1>8. CASE Pending(f) # {}
  <2>1. PICK q \in Pending(f) : TRUE
    BY <1>8
  <2>2. call[q].entry.amount \in Int /\ call[q].entry.amount <= MaxAmount
    BY <1>1, <2>1, PendingFacts
  <2>3. MaxAmount \in Int
    BY SizesAssumption
  <2>4. balance'[f] >= call'[q].entry.amount + Below(k)
    <3> HIDE DEF k
    <3>1. QED
      BY <1>1, <1>4, <1>6, <2>1, <2>2, <2>3
  <2>5. Cardinality(Pending(f))' = k
    BY <1>3
  <2> HIDE DEF k
  <2>6. QED
    BY <1>3, <1>8, <2>1, <2>4, <2>5 DEF Backed, Below
<1>9. QED
  BY <1>7, <1>8

LEMMA BackedQuiet ==
  ASSUME IInv, UNCHANGED <<call, balance, blind>>, ~blind', NEW f \in Funds
  PROVE  Backed(f)'
<1>1. LedgerTypeOK /\ Backed(f) /\ balance[f] \in Int
  BY PendingFacts DEF IInv
<1>2. Pending(f)' = Pending(f)
  BY DEF Pending, PendsOn
<1>3. QED
  BY <1>1, <1>2, Unmoved

LEMMA Initially == LedgerInit => IInv
<1> SUFFICES ASSUME LedgerInit PROVE IInv
  OBVIOUS
<1>1. Underway = {} /\ Cardinality(Underway) <= MaxUnderway
  <2>1. \A r \in Calls : call[r].pc = "idle"
    BY DEF LedgerInit, NoCall
  <2>2. Underway = {}
    BY <2>1 DEF Underway
  <2>3. QED
    BY <2>2, FS_EmptySet, SizesAssumption
<1>2. ASSUME NEW f \in Funds PROVE Backed(f)
  <2>1. Pending(f) = {} /\ balance[f] = 0
    BY DEF LedgerInit, Pending, PendsOn, NoCall, Checked
  <2>2. Below(1) \in Int /\ Below(1) <= 0
    BY BelowFacts, SizesAssumption
  <2>3. QED
    BY <2>1, <2>2 DEF Backed
<1>3. QED
  BY <1>1, <1>2, TypeInit DEF IInv

LEMMA Inductive == IInv /\ [LedgerNext]_ledgerVars => IInv'
<1> SUFFICES ASSUME IInv, [LedgerNext]_ledgerVars PROVE IInv'
  OBVIOUS
<1>1. LedgerTypeOK' /\ Cardinality(Underway)' <= MaxUnderway
  BY TypeNext, SlotsNext DEF IInv
<1>2. ASSUME ~blind', NEW f \in Funds PROVE Backed(f)'
  <2>1. CASE UNCHANGED ledgerVars \/ Administration \/ Payments
    <3>1. UNCHANGED <<call, balance, blind>>
      BY <2>1 DEF ledgerVars, book, Administration, Payments, CreateFund, UpdateFund,
         DeleteFund, CreateFeeCategory, UpdateFeeCategory, DeleteFeeCategory,
         RecordDuesPayment, VerifyDuesPayment
    <3>2. QED
      BY <1>2, <3>1, BackedQuiet
  <2>2. ASSUME NEW r \in Calls,
               Recording(r) \/ ResetDues(r) \/ ResetBook(r) \/ Dies(r)
        PROVE  Backed(f)'
    BY <1>2, <2>2, BackedReadFunds, BackedCheckBalance, BackedPool, BackedInsert,
       BackedResetDues, BackedResetBook DEF Recording
  <2>3. QED
    BY <2>1, <2>2 DEF LedgerNext
<1>3. QED
  BY <1>1, <1>2 DEF IInv

\* However many requests run at once, and whatever is reset or deleted
\* meanwhile, a fund is overdrawn by at most one entry for each request but
\* one; with one request at a time it is never overdrawn.
THEOREM OverdraftIsBounded == LedgerSpec => []OverdraftBounded
<1>1. IInv => OverdraftBounded
  BY BackedBounds DEF IInv, OverdraftBounded
<1>2. QED
  BY <1>1, Initially, Inductive, PTL DEF LedgerSpec

-----------------------------------------------------------------------------
(***************************************************************************)
(* The pools, when requests come one at a time: what the SELECTs of the    *)
(* request in service have found is still so when it inserts its entry.    *)
(***************************************************************************)

Newest(n, c) == c \in CatsNamed(n) /\ \A other \in CatsNamed(n) : other <= c

\* The pools which entry e may be drawn on have as much as it takes.
Fits(e) ==
  \A c \in CatsNamed(e.name) :
    \/ \E newer \in CatsNamed(e.name) : newer > c
    \/ drawn[e.name] + e.amount <= Collected(dues, c)

Promised(x) ==
  /\ x.pc \in {"dues", "spent"} => Newest(x.entry.name, x.cat)
  /\ x.pc = "spent" => x.seen \in {dues, NoRows}
  /\ x.pc = "insert" /\ x.entry.label \in {"spend", "move"} => Fits(x.entry)

SInv ==
  /\ \A r, s \in Underway : r = s
  /\ ~blind => \A r \in Calls : Promised(call[r])

LEMMA IdleOrNot ==
  ASSUME NEW x \in Call
  PROVE  x.pc = "idle" <=> x = NoCall
BY DEF Call, NoCall

LEMMA NothingCollected == \A c : Collected(NoRows, c) = 0
<1>1. \A c : Verified(NoRows, c) = {}
  BY DEF Verified, NoRows
<1>2. \A c : UNION {{d} \X (1..NoRows[d].amount) : d \in Verified(NoRows, c)} = {}
  BY <1>1
<1>3. QED
  BY <1>2, FS_EmptySet DEF Collected

LEMMA CollectedInt ==
  ASSUME NEW rows \in DuesTable, NEW c
  PROVE  Collected(rows, c) \in Nat
<1> DEFINE units(d) == {d} \X (1..rows[d].amount)
           counted == {units(d) : d \in Verified(rows, c)}
           each == [d \in Verified(rows, c) |-> units(d)]
<1>1. Verified(rows, c) \subseteq Dues
  BY DEF Verified
<1>2. IsFiniteSet(Verified(rows, c))
  BY <1>1, InputsAssumption, FS_Subset
<1>3. each \in Surjection(Verified(rows, c), counted)
  BY DEF Surjection
<1>4. IsFiniteSet(counted)
  BY <1>2, <1>3, FS_Surjection
<1>5. ASSUME NEW d \in Verified(rows, c)
      PROVE  IsFiniteSet(units(d))
  <2>1. rows[d].amount \in Nat
    BY <1>1, InputsAssumption DEF Verified, DuesTable, Payment
  <2>2. IsFiniteSet(1..rows[d].amount)
    BY <2>1, FS_Interval
  <2>3. IsFiniteSet({d})
    BY FS_Singleton
  <2>4. QED
    BY <2>2, <2>3, FS_Product
<1>6. IsFiniteSet(UNION counted)
  <2>1. \A T \in counted : IsFiniteSet(T)
    BY <1>5
  <2>2. QED
    BY <1>4, <2>1, FS_UNION
<1>7. QED
  BY <1>6, FS_CardinalityType DEF Collected

\* Another request than the one in service is idle.
LEMMA ServesAlone ==
  ASSUME LedgerTypeOK, SInv, NEW r \in Calls, Underway \subseteq {r},
         NEW x \in Call, Goes(r, x)
  PROVE  /\ \A p, s \in Underway' : p = s
         /\ \A s \in Calls : call'[s] = IF s = r THEN x ELSE NoCall
<1>1. \A s \in Calls : call'[s] = IF s = r THEN x ELSE call[s]
  BY DEF LedgerTypeOK, Goes
<1>2. \A s \in Calls \ {r} : call[s] = NoCall
  BY IdleOrNot DEF LedgerTypeOK, Underway
<1>3. QED
  BY <1>1, <1>2 DEF Underway, NoCall

LEMMA SerialRead ==
  ASSUME LedgerTypeOK, SInv, NEW r \in Calls, Underway \subseteq {r},
         NEW x \in Call, Goes(r, x), UNCHANGED <<cats, dues, drawn>>,
         blind \in BOOLEAN, ~blind' => ~blind /\ Promised(x)
  PROVE  SInv'
<1>1. /\ \A p, s \in Underway' : p = s
      /\ \A s \in Calls : call'[s] = IF s = r THEN x ELSE NoCall
  BY ServesAlone
<1>2. Promised(NoCall)
  BY DEF Promised, NoCall
<1>3. ~blind' => \A s \in Calls : Promised(call'[s])
  BY <1>1, <1>2
<1>4. ASSUME NEW s \in Calls, ~blind' PROVE Promised(call[s])'
  <2>1. Promised(call'[s])
    BY <1>3, <1>4
  <2>2. QED
    BY <2>1 DEF Promised, Newest, Fits, CatsNamed
<1>5. QED
  BY <1>1, <1>4 DEF SInv

LEMMA SerialEnd ==
  ASSUME LedgerTypeOK, SInv, NEW r \in Calls, Underway \subseteq {r},
         NEW x \in Call, Goes(r, x), x.pc \in {"idle", "reset"}
  PROVE  SInv'
<1>1. /\ \A p, s \in Underway' : p = s
      /\ \A s \in Calls : call'[s] = IF s = r THEN x ELSE NoCall
  BY ServesAlone
<1>2. \A s \in Calls : call'[s].pc \in {"idle", "reset"}
  BY <1>1 DEF NoCall
<1>3. QED
  BY <1>1, <1>2 DEF SInv, Promised

\* Nothing but a request changes while nobody is in service.
LEMMA SerialQuiet ==
  ASSUME LedgerTypeOK, SInv, UNCHANGED call, Underway = {}
  PROVE  SInv'
<1>1. \A r \in Calls : call'[r] = NoCall
  BY IdleOrNot DEF LedgerTypeOK, Underway
<1>2. QED
  BY <1>1 DEF SInv, Promised, NoCall, Underway

LEMMA SerialRecording ==
  ASSUME LedgerTypeOK, SInv, NEW r \in Calls, Underway \subseteq {r}, Recording(r)
  PROVE  SInv'
<1>1. ASSUME NEW e \in Entries, ReadFunds(r, e)
      PROVE  SInv'
  <2>1. e \in Entry /\ \A a \in Assigned(e) : a \in Entry
    BY InputsAssumption, AssignedEntry
  <2>2. PICK a \in Entry : Goes(r, At(AfterFunds(a), a)) /\ (blind' = blind \/ blind' = TRUE)
    BY <1>1, <2>1 DEF ReadFunds, Proceed, Skip
  <2>3. /\ AfterFunds(a) \in {"balance", "category", "insert"}
        /\ AfterFunds(a) = "insert" => a.label \notin {"spend", "move"}
    BY DEF AfterFunds, AfterBalance
  <2>4. At(AfterFunds(a), a) \in Call
    BY <2>3, RecordTypes DEF At
  <2>5. Promised(At(AfterFunds(a), a))
    BY <2>3 DEF Promised, At
  <2>6. UNCHANGED <<cats, dues, drawn>>
    BY <1>1 DEF ReadFunds, book
  <2>7. blind \in BOOLEAN /\ (~blind' => ~blind)
    BY <2>2 DEF LedgerTypeOK
  <2>8. QED
    BY <2>2, <2>4, <2>5, <2>6, <2>7, SerialRead
<1>2. CASE CheckBalance(r)
  <2> DEFINE e == call[r].entry
  <2>1. call[r] \in Call /\ call[r].pc = "balance" /\ e \in Entry
    BY <1>2, Shape DEF LedgerTypeOK, CheckBalance
  <2>2. /\ Goes(r, NoCall) \/ Goes(r, At(AfterBalance(e), e))
        /\ (blind' = blind \/ blind' = TRUE) /\ UNCHANGED <<cats, dues, drawn>>
    BY <1>2 DEF CheckBalance, Proceed, Skip, book
  <2>3. /\ AfterBalance(e) \in {"category", "insert"}
        /\ AfterBalance(e) = "insert" => e.label \notin {"spend", "move"}
    BY DEF AfterBalance
  <2>4. NoCall \in Call /\ At(AfterBalance(e), e) \in Call
    BY <2>1, <2>3, RecordTypes DEF At, Call
  <2>5. Promised(NoCall) /\ Promised(At(AfterBalance(e), e))
    BY <2>3 DEF Promised, At, NoCall
  <2>6. blind \in BOOLEAN /\ (~blind' => ~blind)
    BY <2>2 DEF LedgerTypeOK
  <2>7. QED
    BY <2>2, <2>4, <2>5, <2>6, SerialRead
<1>3. CASE FindCategory(r)
  <2> DEFINE e == call[r].entry
             next(c) == [pc |-> "dues", entry |-> e, cat |-> c]
  <2>1. call[r] \in Call /\ call[r].pc = "category" /\ e \in Entry
    BY <1>3, Shape DEF LedgerTypeOK, FindCategory, Checked
  <2>2. UNCHANGED <<cats, dues, drawn>>
    BY <1>3 DEF FindCategory, book
  <2>3. \/ CatsNamed(e.name) = {} /\ Proceed(r, At("insert", e))
        \/ \E c \in CatsNamed(e.name) : Newest(e.name, c) /\ Proceed(r, next(c))
        \/ Skip(r, At("insert", e))
    BY <1>3 DEF FindCategory, Newest
  <2>4. At("insert", e) \in Call
    BY <2>1, RecordTypes DEF At
  <2>5. CASE CatsNamed(e.name) = {} /\ Proceed(r, At("insert", e))
    <3>1. Promised(At("insert", e))
      BY <2>5 DEF Promised, At, Fits
    <3>2. QED
      BY <2>2, <2>4, <2>5, <3>1, SerialRead DEF Proceed, LedgerTypeOK
  <2>6. ASSUME NEW c \in CatsNamed(e.name), Newest(e.name, c), Proceed(r, next(c))
        PROVE  SInv'
    <3>1. c \in Cats
      BY DEF CatsNamed
    <3>2. next(c) \in Call
      BY <2>1, <3>1, RecordTypes
    <3>3. Promised(next(c))
      BY <2>6 DEF Promised
    <3>4. QED
      BY <2>2, <2>6, <3>2, <3>3, SerialRead DEF Proceed, LedgerTypeOK
  <2>7. CASE Skip(r, At("insert", e))
    BY <2>2, <2>4, <2>7, SerialRead DEF Skip, LedgerTypeOK
  <2>8. QED
    BY <2>3, <2>5, <2>6, <2>7
<1>4. CASE ReadDues(r)
  <2> DEFINE e == call[r].entry
             next(rows) == [pc |-> "spent", entry |-> e, cat |-> call[r].cat, seen |-> rows]
  <2>1. /\ call[r] \in Call /\ call[r].pc = "dues" /\ e \in Entry /\ call[r].cat \in Cats
    BY <1>4, Shape DEF LedgerTypeOK, ReadDues, Checked
  <2>2. PICK rows \in {dues, NoRows} : Proceed(r, next(rows))
    BY <1>4 DEF ReadDues
  <2>3. rows \in DuesTable
    BY DEF LedgerTypeOK, NoRows, DuesTable
  <2>4. next(rows) \in Call
    BY <2>1, <2>3, RecordTypes
  <2>5. ~blind => Newest(e.name, call[r].cat)
    BY <2>1 DEF SInv, Promised
  <2>6. ~blind => Promised(next(rows))
    BY <2>5 DEF Promised
  <2>7. UNCHANGED <<cats, dues, drawn>>
    BY <1>4 DEF ReadDues, book
  <2>8. QED
    BY <2>2, <2>4, <2>6, <2>7, SerialRead DEF Proceed, LedgerTypeOK
<1>5. CASE CheckPool(r)
  <2> DEFINE e == call[r].entry
             all == Collected(call[r].seen, call[r].cat)
  <2>1. /\ call[r] \in Call /\ call[r].pc = "spent" /\ e \in Entry /\ call[r].cat \in Cats
    BY <1>5, Shape DEF LedgerTypeOK, CheckPool, Checked
  <2>2. UNCHANGED <<cats, dues, drawn>>
    BY <1>5 DEF CheckPool, book
  <2>3. \/ Proceed(r, NoCall)
        \/ e.amount <= all - drawn[e.name] /\ Proceed(r, At("insert", e))
        \/ Skip(r, At("insert", e))
    BY <1>5 DEF CheckPool
  <2>4. NoCall \in Call /\ At("insert", e) \in Call
    BY <2>1, RecordTypes DEF At, Call
  <2>5. CASE Proceed(r, NoCall)
    BY <2>4, <2>5, SerialEnd DEF Proceed, NoCall
  <2>6. CASE e.amount <= all - drawn[e.name] /\ Proceed(r, At("insert", e))
    <3>1. SUFFICES ASSUME ~blind
                   PROVE  Promised(At("insert", e))
      BY <2>2, <2>4, <2>6, SerialRead DEF Proceed, LedgerTypeOK
    <3>2. Newest(e.name, call[r].cat) /\ call[r].seen \in {dues, NoRows}
      BY <2>1, <3>1 DEF SInv, Promised
    <3>3. drawn[e.name] \in Nat /\ e.amount \in Int /\ e.amount >= 1
      BY <2>1, EntryFields DEF LedgerTypeOK
    <3>4. call[r].seen = dues
      <4>1. all # 0
        <5> HIDE DEF all, e
        <5>1. QED
          BY <2>6, <3>3
      <4>2. QED
        BY <3>2, <4>1, NothingCollected
    <3>5. all \in Int => drawn[e.name] + e.amount <= all
      <4> HIDE DEF all, e
      <4>1. QED
        BY <2>6, <3>3
    <3>6. all \in Int
      BY <2>1, <3>4, CollectedInt DEF LedgerTypeOK
    <3>7. Fits(e)
      <4> SUFFICES ASSUME NEW c \in CatsNamed(e.name), ~\E newer \in CatsNamed(e.name) : newer > c
                   PROVE  c = call[r].cat
        BY <3>4, <3>5, <3>6 DEF Fits
      <4>1. /\ c <= call[r].cat /\ ~(call[r].cat > c)
            /\ c \in Int /\ call[r].cat \in Int
        BY <3>2 DEF Newest, CatsNamed, Cats
      <4>2. QED
        BY <4>1
    <3>8. QED
      BY <3>7 DEF Promised, At
  <2>7. CASE Skip(r, At("insert", e))
    BY <2>2, <2>4, <2>7, SerialRead DEF Skip, LedgerTypeOK
  <2>8. QED
    BY <2>3, <2>5, <2>6, <2>7
<1>6. CASE Insert(r)
  <2>1. Goes(r, NoCall) /\ NoCall \in Call
    BY <1>6 DEF Insert, Proceed, Call
  <2>2. QED
    BY <2>1, SerialEnd DEF NoCall
<1>7. QED
  BY <1>1, <1>2, <1>3, <1>4, <1>5, <1>6 DEF Recording

LEMMA SerialStep ==
  ASSUME LedgerTypeOK, SInv, [OneAtATime]_ledgerVars
  PROVE  SInv'
<1>1. CASE UNCHANGED ledgerVars
  BY <1>1 DEF ledgerVars, book, SInv, Underway, Promised, Newest, Fits, CatsNamed
<1>2. ASSUME NEW r \in Calls, Underway \subseteq {r},
             Recording(r) \/ ResetDues(r) \/ ResetBook(r) \/ Dies(r)
      PROVE  SInv'
  <2>1. CASE Recording(r)
    BY <1>2, <2>1, SerialRecording
  <2>2. CASE ResetDues(r) \/ ResetBook(r) \/ Dies(r)
    <3>1. Goes(r, [pc |-> "reset"]) \/ Goes(r, NoCall)
      BY <2>2 DEF ResetDues, ResetBook, Dies, Proceed
    <3>2. [pc |-> "reset"] \in Call /\ NoCall \in Call
      BY DEF Call
    <3>3. QED
      BY <1>2, <3>1, <3>2, SerialEnd DEF NoCall
  <2>3. QED
    BY <1>2, <2>1, <2>2
<1>3. CASE Underway = {} /\ LedgerNext
  <2>1. CASE Administration \/ Payments
    <3>1. UNCHANGED call
      BY <2>1 DEF Administration, Payments, CreateFund, UpdateFund, DeleteFund,
         CreateFeeCategory, UpdateFeeCategory, DeleteFeeCategory,
         RecordDuesPayment, VerifyDuesPayment
    <3>2. QED
      BY <1>3, <3>1, SerialQuiet
  <2>2. QED
    BY <1>2, <1>3, <2>1 DEF LedgerNext
<1>4. CASE \E r \in Underway : Recording(r) \/ ResetDues(r) \/ ResetBook(r) \/ Dies(r)
  <2>1. PICK r \in Underway : Recording(r) \/ ResetDues(r) \/ ResetBook(r) \/ Dies(r)
    BY <1>4
  <2>2. r \in Calls /\ Underway \subseteq {r}
    BY <2>1 DEF SInv, Underway
  <2>3. QED
    BY <1>2, <2>1, <2>2
<1>5. QED
  BY <1>1, <1>3, <1>4 DEF OneAtATime

LEMMA SerialNext ==
  ASSUME [OneAtATime]_ledgerVars
  PROVE  [LedgerNext]_ledgerVars
BY DEF OneAtATime, LedgerNext, Underway

LEMMA SerialFirst == LedgerInit => LedgerTypeOK /\ SInv
<1> SUFFICES ASSUME LedgerInit PROVE SInv
  BY TypeInit
<1>1. \A r \in Calls : call[r] = NoCall
  BY DEF LedgerInit
<1>2. QED
  BY <1>1 DEF SInv, Underway, Promised, NoCall

LEMMA DrawStep ==
  ASSUME LedgerTypeOK, SInv, [OneAtATime]_ledgerVars
  PROVE  DrawCovered
<1> SUFFICES ASSUME NEW r \in Calls, Records(r), ~blind,
                    call[r].entry.label \in {"spend", "move"},
                    NEW c \in CatsNamed(call[r].entry.name),
                    ~\E newer \in CatsNamed(call[r].entry.name) : newer > c
             PROVE  drawn'[call[r].entry.name] <= Collected(dues, c)
  BY DEF DrawCovered
<1> DEFINE e == call[r].entry
<1>1. /\ call[r] \in Call /\ call[r].pc = "insert" /\ e \in Entry
      /\ entries' = entries + 1 /\ call'[r] = NoCall /\ entries \in Nat
  BY Shape, SizesAssumption DEF Records, LedgerTypeOK, Checked
<1>2. drawn[e.name] + e.amount <= Collected(dues, c)
  BY <1>1 DEF SInv, Promised, Fits
<1>3. /\ drawn \in [Names -> Nat] /\ e.name \in Names /\ e.amount \in Int /\ e.amount >= 1
      /\ dues \in DuesTable
  BY <1>1, EntryFields DEF LedgerTypeOK
<1>4. Collected(dues, c) \in Nat
  BY <1>3, CollectedInt
<1>5. r \in Underway /\ Underway \subseteq {r}
  BY <1>1 DEF SInv, Underway
<1>6. PICK s \in Underway : Recording(s) \/ ResetDues(s) \/ ResetBook(s) \/ Dies(s)
  <2>1. ~UNCHANGED ledgerVars
    BY <1>1 DEF ledgerVars, book
  <2>2. QED
    BY <1>5, <2>1 DEF OneAtATime
<1>7. s = r
  BY <1>5, <1>6
<1>8. drawn' = drawn \/ drawn' = [drawn EXCEPT ![e.name] = @ + e.amount]
  <2>1. CASE Insert(r)
    BY <2>1 DEF Insert
  <2>2. CASE ResetBook(r)
    BY <1>1, <2>2 DEF ResetBook
  <2>3. CASE ~Insert(r) /\ ~ResetBook(r)
    <3>1. UNCHANGED book
      BY <1>6, <1>7, <2>3 DEF Recording, ReadFunds, CheckBalance, FindCategory, ReadDues,
         CheckPool, ResetDues, Dies
    <3>2. QED
      BY <3>1 DEF book
  <2>4. QED
    BY <2>1, <2>2, <2>3
<1>9. drawn'[e.name] <= drawn[e.name] + e.amount
  BY <1>3, <1>8
<1>10. drawn'[e.name] \in Nat
  BY <1>3, <1>8
<1>11. drawn'[e.name] <= Collected(dues, c)
  <2> HIDE DEF e
  <2>1. QED
    BY <1>2, <1>3, <1>4, <1>9, <1>10
<1>12. QED
  BY <1>11

\* With one request at a time, an expense or a transfer that is recorded against
\* a pool is covered by what was collected and not drawn: the five SELECTs and
\* the INSERT of CreateFinancialTransaction add up to one check.
THEOREM PoolsKeepUp == SerialSpec => [][DrawCovered]_ledgerVars
<1>1. LedgerTypeOK /\ SInv /\ [OneAtATime]_ledgerVars => LedgerTypeOK' /\ SInv'
  BY SerialStep, SerialNext, TypeNext
<1>2. LedgerTypeOK /\ SInv /\ [OneAtATime]_ledgerVars => [DrawCovered]_ledgerVars
  BY DrawStep
<1>3. QED
  BY <1>1, <1>2, SerialFirst, PTL DEF SerialSpec

\* The same of the behaviours the run has, in which the books of other tenants
\* see requests that overlap.
THEOREM DrawsAreCovered == ScenarioSpec => DrawsCovered
<1> DEFINE I == LedgerTypeOK /\ (scenario = "pools" => SInv)
<1>1. ScenarioInit => I
  BY SerialFirst DEF ScenarioInit
<1>2. I /\ [ScenarioNext]_ScenarioVars => I'
  <2> SUFFICES ASSUME I, [ScenarioNext]_ScenarioVars PROVE I'
    OBVIOUS
  <2>1. /\ [LedgerNext]_ledgerVars /\ UNCHANGED scenario
        /\ scenario = "pools" => [OneAtATime]_ledgerVars
    BY SerialNext DEF ScenarioNext, OverlappingFunds, OnePoolAtATime, ScenarioVars
  <2>2. QED
    BY <2>1, TypeNext, SerialStep
<1>3. I /\ [ScenarioNext]_ScenarioVars => [scenario = "pools" => DrawCovered]_ScenarioVars
  <2> SUFFICES ASSUME I, [ScenarioNext]_ScenarioVars, scenario = "pools"
               PROVE  DrawCovered
    OBVIOUS
  <2>1. [OneAtATime]_ledgerVars
    BY DEF ScenarioNext, OnePoolAtATime, ScenarioVars
  <2>2. QED
    BY <2>1, DrawStep
<1>4. QED
  BY <1>1, <1>2, <1>3, PTL DEF ScenarioSpec, DrawsCovered
=============================================================================
