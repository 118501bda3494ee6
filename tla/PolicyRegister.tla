--------------------------- MODULE PolicyRegister ---------------------------
(***************************************************************************)
(* What the endpoint's policy cache promises its readers: one register per *)
(* policy id that only ever moves to a higher revision, and readers that   *)
(* get the value of the register or nothing.                               *)
(***************************************************************************)
EXTENDS Naturals

CONSTANTS PolicyIDs, Bodies, NoBody

\* A revision and the content it was published with; revision 0 is no entry.
Entries == [rev : Nat, body : Bodies \cup {NoBody}]
NoEntry == [rev |-> 0, body |-> NoBody]

VARIABLES
    hi,      \* hi[id]: the highest revision of id the endpoint accepted
    loaded   \* loaded[id]: what readers last got for id

Init ==
    /\ hi = [id \in PolicyIDs |-> NoEntry]
    /\ loaded = [id \in PolicyIDs |-> NoEntry]

Raise ==
    /\ hi' \in [PolicyIDs -> Entries]
    /\ \A id \in PolicyIDs : hi'[id] # hi[id] => hi'[id].rev > hi[id].rev
    /\ UNCHANGED loaded

Load(id) ==
    /\ hi[id] # NoEntry
    /\ loaded' = [loaded EXCEPT ![id] = hi[id]]
    /\ UNCHANGED hi

Next == Raise \/ \E id \in PolicyIDs : Load(id)

Spec == Init /\ [][Next]_<<hi, loaded>>

=============================================================================
