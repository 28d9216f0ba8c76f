------------------------------- MODULE MCServer -------------------------------
(***************************************************************************)
(* Three parts of the application's server that share no state, checked    *)
(* together: the exchange of refresh tokens, the limiter in front of it,   *)
(* and the ledger, with the two scenarios of MCLedger.                     *)
(***************************************************************************)
EXTENDS MCSignIn, MCLedger

\* The part a behaviour is about, drawn at the start.
VARIABLE part

Alike == TokensAlike \union Symmetry

\* While it is not about the ledger, the book stays empty.
EmptyBook == scenario = "funds" /\ \A c \in Cats : cats[c].name = sampah

PartInit ==
  /\ Init /\ LimiterInit /\ ScenarioInit
  /\ \/ part = "ledger"
     \/ part \in {"tokens", "limiter"} /\ EmptyBook

PartNext ==
  \/ part = "tokens" /\ Next /\ UNCHANGED <<limiterVars, ScenarioVars, part>>
  \/ part = "limiter" /\ LimiterNext /\ UNCHANGED <<vars, ScenarioVars, part>>
  \/ part = "ledger" /\ ScenarioNext /\ UNCHANGED <<vars, limiterVars, part>>

PartSpec == PartInit /\ [][PartNext]_<<vars, limiterVars, ScenarioVars, part>>
=============================================================================
