--------------------------- MODULE AtomicJournal ----------------------------
(***************************************************************************)
(* What the journal promises its callers: a table of events and the        *)
(* projection of its findings, in which every Append is one indivisible    *)
(* step.  Nothing is said of snapshots, write locks, rebuilds or aborted   *)
(* transactions: whoever uses the journal need not know of them.           *)
(***************************************************************************)
EXTENDS Naturals, Sequences

CONSTANTS
    Events,             \* the envelopes callers may submit
    EmptyView,          \* the projection of no rows
    Project(_, _, _),   \* Project(view, seq, e): what row seq does to the projection
    Projectable(_, _)   \* Projectable(view, e): the projection accepts e

VARIABLES
    log,       \* the rows, in sequence order
    findings,  \* the projection of all of them
    acked      \* records returned to callers, as <<sequence, event>>

vars == <<log, findings, acked>>

Init == log = << >> /\ findings = EmptyView /\ acked = {}

\* A new event: its row, what it does to its finding and the answer to the
\* caller come together or not at all.
Insert(e) ==
    /\ \A k \in 1..Len(log) : log[k].id # e.id
    /\ Projectable(findings, e)
    /\ log' = Append(log, e)
    /\ findings' = Project(findings, Len(log) + 1, e)
    /\ acked' = acked \cup {<<Len(log) + 1, e>>}

\* An event that is stored already: the caller gets the row it has.
Repeat(k) ==
    /\ acked' = acked \cup {<<k, log[k]>>}
    /\ UNCHANGED <<log, findings>>

Next == (\E e \in Events : Insert(e)) \/ (\E k \in 1..Len(log) : Repeat(k))

Spec == Init /\ [][Next]_vars

=============================================================================
