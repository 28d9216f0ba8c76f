------------------------------- MODULE MCSignIn -------------------------------
(***************************************************************************)
(* Model-checking instances of RefreshTokens and of RateLimiter, the       *)
(* limiter in front of the same addresses (cmd/server/main.go).            *)
(***************************************************************************)
EXTENDS RefreshTokens, RateLimiter, SequencesExt, TLC

CONSTANT c1

TokensAlike == Permutations(Requests) \union Permutations(Tokens)

\* Before the first proxy a header may hold the address of one client; a
\* request passes up to two proxies.
MCHeaders == {<<>>, <<c1>>}
MCRoutes == SeqOf(Proxies, 2)
=============================================================================
