--------------------------- MODULE MCOAuthTokens ---------------------------
(***************************************************************************)
(* Two callers of one provider and one of another, and two callbacks.      *)
(***************************************************************************)
EXTENDS OAuthTokens, TLC

CONSTANTS c1, c2, c3, p1, p2

MCProviderOf == [c \in Callers |-> IF c = c3 THEN p2 ELSE p1]

Interchangeable ==
  Permutations({c1, c2}) \cup Permutations(Callbacks) \cup Permutations(Nonces)
=============================================================================
