------------------------------- MODULE MCOAuth -------------------------------
(***************************************************************************)
(* OAuth with clients, codes and tokens that are interchangeable.          *)
(***************************************************************************)
EXTENDS OAuth

Symmetry == UNION {Permutations(S) : S \in {Clients, PairingCodes, AuthCodes, Tokens}}
=============================================================================
