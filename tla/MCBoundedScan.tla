---------------------------- MODULE MCBoundedScan ----------------------------
EXTENDS BoundedScan, TLC

CONSTANTS a, b, c

\* Two overlapping roots: the walk of the outer one ends above c, the walk of
\* the inner one, which comes later, meets b again and c.
Overlapping == << [path |-> a, depth |-> 1], [path |-> b, depth |-> 1],
                  [path |-> c, depth |-> 2], [path |-> b, depth |-> 0],
                  [path |-> c, depth |-> 1] >>

\* One root with as many files as a scan may consider.
Shallow == << [path |-> a, depth |-> 1], [path |-> b, depth |-> 1] >>

MCWalks == {Overlapping, Shallow}

\* Files that differ in what the scanners look at.
Plain(t, n, u, m) ==
    [listed |-> t, type |-> t, inode |-> 0, size |-> n, usable |-> u, matches |-> m]

Catalogue ==
    {Plain("symlink", 1, TRUE, 0), Plain("other", 1, TRUE, 0), Plain("regular", 2, FALSE, 0),
     Plain("regular", 1, TRUE, 2)}
        \cup {Plain("regular", n, TRUE, 0) : n \in Sizes}

MCInit ==
    /\ kind \in {"secret", "executable"}
    /\ walk \in MCWalks
    /\ disk \in [Paths -> Catalogue]
    /\ disk[c] \in {Plain("regular", 2, TRUE, 0)}
            \cup (IF walk = Shallow THEN {} ELSE {Plain("regular", 1, TRUE, 2)})
    /\ scan = Start
    /\ touched = {}
    /\ inspected = {}
    /\ excused = {}

MCSpec == MCInit /\ [][Next]_vars /\ WF_vars(Scanning)
=============================================================================
