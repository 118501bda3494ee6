--------------------------- MODULE MCPolicyCache ---------------------------
(***************************************************************************)
(* PolicyCache for TLC.                                                    *)
(***************************************************************************)
EXTENDS PolicyCache, TLC

Symmetry ==
    Permutations(Procs) \cup Permutations(PolicyIDs) \cup Permutations(Bodies)

=============================================================================
