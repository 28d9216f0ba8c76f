--------------------------- MODULE MCRefreshTokens ---------------------------
(***************************************************************************)
(* Model-checking instances of RefreshTokens.                              *)
(***************************************************************************)
EXTENDS RefreshTokens, TLC

UsersAlike ==
  Permutations(Users) \union Permutations(Requests) \union Permutations(Tokens)
=============================================================================
