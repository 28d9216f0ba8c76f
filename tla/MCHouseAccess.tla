--------------------------- MODULE MCHouseAccess ---------------------------
(***************************************************************************)
(* Model-checking instances of HouseAccess.                                *)
(***************************************************************************)
EXTENDS HouseAccess, TLC

\* Edits name the block, as the administrator's page does, or withdraw the
\* sticker.
MCAsks == {Plain, [status |-> "revoked", pin |-> Nobody]}

Symmetry ==
  Permutations(Requests) \union Permutations(Houses)
    \union Permutations(Slugs) \union Permutations(Pins)
=============================================================================
