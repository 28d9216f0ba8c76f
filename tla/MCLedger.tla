------------------------------ MODULE MCLedger ------------------------------
(***************************************************************************)
(* Model-checking instances of Ledger.                                     *)
(***************************************************************************)
EXTENDS Ledger, TLC

CONSTANTS sampah, ronda   \* names of fee categories

Plain(type, fund, amount) ==
  [type |-> type, label |-> "plain", name |-> sampah, fund |-> fund, amount |-> amount]

Pool(type, label, name, amount) ==
  [type |-> type, label |-> label, name |-> name, fund |-> NoFund, amount |-> amount]

\* Income, expenses of two sizes for the default fund and for a fund the
\* client chose, and an expense that is drawn on a pool too.
FundEntries ==
  {Plain("income", NoFund, 2), Plain("expense", NoFund, 2),
   Plain("expense", 2, 1), Pool("expense", "spend", sampah, 1)}

\* What the forms of the frontend can send about two pools.
PoolEntries ==
  {Plain("income", NoFund, 2), Pool("expense", "named", sampah, 1),
   Pool("income", "move", sampah, 1), Pool("income", "move", ronda, 1),
   Pool("expense", "spend", sampah, 2)}

AllEntries == FundEntries \union PoolEntries

Symmetry == Permutations(Calls) \union Permutations(Dues)

(***************************************************************************)
(* Two scenarios, one drawn at the start: the funds, with requests that    *)
(* overlap and read without errors; and the pools, with one request at a   *)
(* time, until a SELECT has failed and been skipped, about which           *)
(* DrawsCovered says nothing.  Each leaves alone what the other is about.  *)
(***************************************************************************)
VARIABLE scenario

EntryOf(r) == call'[r].entry

Begins(r) == call[r] = NoCall /\ call'[r].pc \notin {"idle", "reset"}

OverlappingFunds ==
  /\ LedgerNext
  /\ UNCHANGED <<dues, blind>> /\ cats'[2] = cats[2] /\ cats'[1].name = sampah
  /\ \A r \in Calls : Begins(r) =>
       \E e \in FundEntries : EntryOf(r) \in Assigned(e) \union {e}

OnePoolAtATime ==
  /\ OneAtATime
  /\ funds'[2] = funds[2]
  /\ entries' <= 2
  /\ blind => \A r \in Calls : ~Begins(r)
  /\ \A r \in Calls : Begins(r) =>
       \E e \in PoolEntries : EntryOf(r) \in Assigned(e) \union {e}

ScenarioInit ==
  /\ LedgerInit
  /\ \/ scenario = "pools"
     \/ scenario = "funds" /\ cats[1].name = sampah

ScenarioNext ==
  \/ scenario = "funds" /\ OverlappingFunds /\ UNCHANGED scenario
  \/ scenario = "pools" /\ OnePoolAtATime /\ UNCHANGED scenario

ScenarioVars == <<ledgerVars, scenario>>

ScenarioSpec == ScenarioInit /\ [][ScenarioNext]_ScenarioVars

\* With one request at a time, an entry drawn on a pool is covered by it, whatever
\* was renamed, rejected or drawn before: the five SELECTs and the INSERT add up
\* to one check.
DrawsCovered == [][scenario = "pools" => DrawCovered]_ScenarioVars
=============================================================================
