------------------------- MODULE MCControllerServer -------------------------
EXTENDS ControllerServer, TLC

CONSTANTS adm, op, out

MCRoleOf == (adm :> "admin") @@ (op :> "operator") @@ (out :> None)

\* Interchangeable values; the principals differ in their roles.
Symmetry == Permutations(TokenIDs) \cup Permutations(DeviceIDs)
                \cup Permutations(Bodies) \cup Permutations(Groups)
=============================================================================
