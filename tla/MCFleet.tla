------------------------------- MODULE MCFleet -------------------------------
EXTENDS Fleet, TLC

CONSTANTS adm, e1, p1, p2, t1, t2, d1, d2, g1, m1, on

MCRoleOf == adm :> "admin"
MCHomeOf == (p1 :> e1) @@ (p2 :> e1)

Row(action, target) == [actor |-> adm, action |-> action, target |-> target]

\* An operator has issued the tokens; nothing is enrolled yet, and no policy is
\* assigned, so a sync ends with its second call.
Enrolling ==
    /\ tokens = [t \in TokenIDs |-> [st |-> "open", group |-> g1, by |-> None]]
    /\ devices = [d \in DeviceIDs |-> None]
    /\ policies = [p \in PolicyIDs |-> None]
    /\ assigned = [g \in Groups |-> None]
    /\ audit = <<Row("enrollment_token.create", g1), Row("enrollment_token.create", g1),
                 Row("policy.create", on), Row("policy.delete", on)>>
    /\ minted = 0
    /\ state = (e1 :> None)
    /\ local = (e1 :> [k \in Keys |-> MaxVersion])
    /\ rotations = 0

\* The endpoint is enrolled, a policy that asks for reports is assigned, and the
\* endpoint has findings to report.
Syncing ==
    /\ tokens = (t1 :> [st |-> "used", group |-> g1, by |-> d1])
                @@ (t2 :> [st |-> "none", group |-> None, by |-> None])
    /\ devices = (d1 :> [cred |-> 1, group |-> g1, meta |-> m1, revoked |-> FALSE])
                 @@ (d2 :> None)
    /\ policies = (on :> [rev |-> 1, body |-> on, born |-> 2])
    /\ assigned = (g1 :> on)
    /\ audit = <<Row("enrollment_token.create", g1), Row("policy.create", on),
                 Row("group.policy.assign", g1)>>
    /\ minted = 1
    /\ state = (e1 :> [dev |-> d1, cred |-> 1])
    /\ local = (e1 :> [k \in Keys |-> 1])
    /\ rotations = MaxRotations - 1

SetUp ==
    /\ Enrolling \/ Syncing
    /\ findings = [d \in DeviceIDs |-> NoRows]
    /\ copies = [a \in Principals |-> None]
    /\ req = [s \in Slots |-> None]
    /\ timeouts = 0
    /\ disturbed = {}

MCSpec == SetUp /\ [][FleetNext]_fleetVars
MCFairSpec == MCSpec /\ Fairness
=============================================================================
