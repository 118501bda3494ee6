---------------------------- MODULE MCIntelInstall ----------------------------
EXTENDS IntelInstall, TLC

CONSTANTS t1, pr1

B(id, seq, payload) == [id |-> id, seq |-> seq, payload |-> payload]

\* A bundle, another one with its number, their successor, and one with a still
\* higher number that nobody trusts.
First == B("a", 1, "p")
Rival == B("b", 1, "q")
Second == B("c", 2, "p")
Forged == B("d", 3, "q")
MCBundles == {First, Rival, Second, Forged}
MCTrusted == MCBundles \ {Forged}

\* The processes are alike: the first thread is in the first one.
MCInit == Init /\ home[t1] = pr1
MCSpec == MCInit /\ [][Next]_vars
MCFairSpec == MCSpec /\ Fairness
=============================================================================
