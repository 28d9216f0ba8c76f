------------------------------ MODULE MCRegisters ------------------------------
(***************************************************************************)
(* Two registers of a neighbourhood model-checked together: the lending    *)
(* store and the families.  Both are written by requests that interleave   *)
(* statement by statement, and they share no state.                        *)
(***************************************************************************)
EXTENDS MCInventory, Families

\* The register a behaviour is about, drawn at the start.
VARIABLE scenario

ScenarioInit ==
  /\ WatchedInit /\ FamiliesInit
  /\ \/ scenario = "store"
     \/ scenario = "families" /\ orderly

ScenarioNext ==
  \/ scenario = "store" /\ WatchedNext /\ UNCHANGED <<familyVars, scenario>>
  \/ scenario = "families" /\ FamiliesNext /\ UNCHANGED <<vars, orderly, scenario>>

\* The type invariants of both.
RegistersTypeOK == TypeOK /\ FamiliesTypeOK

ScenarioSpec == ScenarioInit /\ [][ScenarioNext]_<<vars, orderly, familyVars, scenario>>
=============================================================================
