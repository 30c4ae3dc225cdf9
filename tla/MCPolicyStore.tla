--------------------------- MODULE MCPolicyStore ---------------------------
(***************************************************************************)
(* Model values for PolicyStore. Requests are interchangeable, and so are  *)
(* the policies that are both valid and signed.                            *)
(***************************************************************************)
EXTENDS PolicyStore, TLC

Symmetry == Permutations(Reqs) \cup Permutations(Valid \cap Signed)
=============================================================================
