--------------------------- MODULE MCRefreshTokens ---------------------------
(* Model checking of RefreshTokens: the workers are interchangeable, nothing *)
(* in the specification tells them apart.                                    *)
EXTENDS RefreshTokens, TLC

Workers == Permutations(Requests)
=============================================================================
