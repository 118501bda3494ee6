--------------------------- MODULE ControllerStore ---------------------------
(***************************************************************************)
(* The fleet controller's database (internal/controller/store.go).  Every  *)
(* store method is one SQLite transaction, on a pool of one connection:    *)
(* one action here, which ControllerServer and Fleet compose into          *)
(* handlers.                                                               *)
(* A call that is refused (bad input, no row affected, a constraint)       *)
(* rolls back, so refusals are the steps that leave everything unchanged.  *)
(*                                                                         *)
(* Tokens, credentials and device ids are random in the code: here they    *)
(* are fresh values.  Timestamps are left out but for the expiry of a      *)
(* token, and for created_at of a policy, which is the number of the audit *)
(* row its creation wrote.                                                 *)
(***************************************************************************)
EXTENDS Naturals, Sequences, FiniteSets

CONSTANTS
    Principals,   \* actors of the admin API
    TokenIDs,     \* enrollment tokens
    DeviceIDs,
    Groups,
    PolicyIDs,
    Bodies,       \* contents of a policy document
    Metadata,     \* what a heartbeat tells: name, platform and versions
    Keys,         \* detector and category of a redacted finding
    MaxVersion,   \* bound: versions of a finding an endpoint reports
    MaxRevision,  \* bound: revisions of a policy
    MaxAudit,     \* bound: audit rows
    MaxMinted,    \* bound: device credentials
    None          \* NULL, or no row

ASSUME BoundsAssumption ==
    {MaxVersion, MaxRevision, MaxAudit, MaxMinted} \subseteq Nat

VARIABLES
    tokens,    \* enrollment_tokens
    devices,   \* devices; the credential column holds the credential's number
    policies,  \* policies
    assigned,  \* group_policy_assignments
    findings,  \* findings[d][k]: version of the row, 0 when there is none
    audit,     \* admin_audit
    minted     \* device credentials newCredential made so far

storeVars == <<tokens, devices, policies, assigned, findings, audit, minted>>

Token == [st : {"none", "open", "expired", "used"}, group : Groups \cup {None},
          by : DeviceIDs \cup {None}]
Device == [cred : Nat, group : Groups, meta : Metadata, revoked : BOOLEAN]
Policy == [rev : Nat \ {0}, body : Bodies, born : Nat]
Report == [Keys -> 0..MaxVersion]
Actions == {"enrollment_token.create", "device.revoke", "device.group.assign",
            "policy.create", "policy.update", "policy.delete",
            "group.policy.assign", "group.policy.remove"}

ASSUME NoneAssumption ==
    None \notin DeviceIDs \cup Groups \cup PolicyIDs \cup Device \cup Policy

NoToken == [st |-> "none", group |-> None, by |-> None]
NoRows == [k \in Keys |-> 0]

-----------------------------------------------------------------------------
\* appendAudit, in the transaction of the change it records.
AppendAudit(a, action, target) ==
    /\ Len(audit) < MaxAudit
    /\ audit' = Append(audit, [actor |-> a, action |-> action, target |-> target])

Enrolled(d) == devices[d] # None

\* The WHERE clause of every statement an agent's request runs.
Active(d) == Enrolled(d) /\ ~devices[d].revoked

-----------------------------------------------------------------------------
(***************************************************************************)
(* Administrators                                                          *)
(***************************************************************************)
CreateEnrollmentToken(a, t, g) ==
    /\ tokens[t] = NoToken
    /\ tokens' = [tokens EXCEPT ![t] = [st |-> "open", group |-> g, by |-> None]]
    /\ AppendAudit(a, "enrollment_token.create", g)
    /\ UNCHANGED <<devices, policies, assigned, findings, minted>>

\* Time passes expires_at of an unused token.
ExpireToken(t) ==
    /\ tokens[t].st = "open"
    /\ tokens' = [tokens EXCEPT ![t].st = "expired"]
    /\ UNCHANGED <<devices, policies, assigned, findings, audit, minted>>

\* Variant: the audit row is written although no device was revoked.
RevokeDeviceAgain(a, d) ==
    /\ Enrolled(d)
    /\ devices' = [devices EXCEPT ![d].revoked = TRUE]
    /\ AppendAudit(a, "device.revoke", d)
    /\ UNCHANGED <<tokens, policies, assigned, findings, minted>>

RevokeDevice(a, d) ==
    /\ Active(d)
    /\ devices' = [devices EXCEPT ![d].revoked = TRUE]
    /\ AppendAudit(a, "device.revoke", d)
    /\ UNCHANGED <<tokens, policies, assigned, findings, minted>>

\* A revoked device can still be moved.
AssignDeviceGroup(a, d, g) ==
    /\ Enrolled(d)
    /\ devices' = [devices EXCEPT ![d].group = g]
    /\ AppendAudit(a, "device.group.assign", d)
    /\ UNCHANGED <<tokens, policies, assigned, findings, minted>>

\* Variant: the first revision is not checked.
CreatePolicyUnchecked(a, p, b) ==
    /\ policies[p] = None
    /\ policies' = [policies EXCEPT ![p] = [rev |-> 0, body |-> b, born |-> Len(audit) + 1]]
    /\ AppendAudit(a, "policy.create", p)
    /\ UNCHANGED <<tokens, devices, assigned, findings, minted>>

\* A new policy starts at revision 1.
CreatePolicy(a, p, b) ==
    /\ policies[p] = None
    /\ policies' = [policies EXCEPT ![p] = [rev |-> 1, body |-> b, born |-> Len(audit) + 1]]
    /\ AppendAudit(a, "policy.create", p)
    /\ UNCHANGED <<tokens, devices, assigned, findings, minted>>

\* Variant: any revision that is not older replaces the document.
RevisionNotOlder(p, rev) == policies[p] # None /\ rev >= policies[p].rev

\* The WHERE clause of UpdatePolicy.
RevisionFollows(p, rev) == policies[p] # None /\ policies[p].rev = rev - 1

\* UPDATE ... WHERE id and revision - 1: no row is affected otherwise.
UpdatePolicy(a, p, rev, b) ==
    /\ RevisionFollows(p, rev)
    /\ policies' = [policies EXCEPT ![p].rev = rev, ![p].body = b]
    /\ AppendAudit(a, "policy.update", p)
    /\ UNCHANGED <<tokens, devices, assigned, findings, minted>>

\* Variant: foreign keys are not enforced.
DeletableAlways(p) == policies[p] # None

\* ON DELETE RESTRICT of group_policy_assignments.
Deletable(p) == policies[p] # None /\ \A g \in Groups : assigned[g] # p

DeletePolicy(a, p) ==
    /\ Deletable(p)
    /\ policies' = [policies EXCEPT ![p] = None]
    /\ AppendAudit(a, "policy.delete", p)
    /\ UNCHANGED <<tokens, devices, assigned, findings, minted>>

\* An upsert; the foreign key demands the policy.
AssignGroupPolicy(a, g, p) ==
    /\ policies[p] # None
    /\ assigned' = [assigned EXCEPT ![g] = p]
    /\ AppendAudit(a, "group.policy.assign", g)
    /\ UNCHANGED <<tokens, devices, policies, findings, minted>>

UnassignGroupPolicy(a, g) ==
    /\ assigned[g] # None
    /\ assigned' = [assigned EXCEPT ![g] = None]
    /\ AppendAudit(a, "group.policy.remove", g)
    /\ UNCHANGED <<tokens, devices, policies, findings, minted>>

\* The reads.
ListDevices == {d \in DeviceIDs : Enrolled(d)}
GetPolicy(p) == policies[p]
ListPolicies == {p \in PolicyIDs : policies[p] # None}
PolicyForGroup(g) == IF assigned[g] \in ListPolicies THEN policies[assigned[g]] ELSE None
ListAudit(after) == {k \in DOMAIN audit : k > after}

-----------------------------------------------------------------------------
(***************************************************************************)
(* Agents                                                                  *)
(***************************************************************************)
\* Variant: a used token enrolls again.
OpenTokenUsedToo(t) == tokens[t].st \in {"open", "used"}

\* The token's digest is known, unused and has not expired.
OpenToken(t) == tokens[t].st = "open"

\* The token is consumed and the device created in one transaction, which
\* leaves no audit row.
Enroll(t, d, m) ==
    /\ OpenToken(t)
    /\ devices[d] = None
    /\ minted < MaxMinted
    /\ minted' = minted + 1
    /\ tokens' = [tokens EXCEPT ![t].st = "used", ![t].by = d]
    /\ devices' = [devices EXCEPT ![d] = [cred |-> minted + 1, group |-> tokens[t].group,
                                          meta |-> m, revoked |-> FALSE]]
    /\ UNCHANGED <<policies, assigned, findings, audit>>

AuthenticateDevice(d, c) == Active(d) /\ devices[d].cred = c

Heartbeat(d, m) ==
    /\ Active(d)
    /\ devices' = [devices EXCEPT ![d].meta = m]
    /\ UNCHANGED <<tokens, policies, assigned, findings, audit, minted>>

RotateDeviceCredential(d) ==
    /\ Active(d)
    /\ minted < MaxMinted
    /\ minted' = minted + 1
    /\ devices' = [devices EXCEPT ![d].cred = minted + 1]
    /\ UNCHANGED <<tokens, policies, assigned, findings, audit>>

\* The policy document the device's group is assigned, None when there is none
\* or the device is revoked.
PolicyForDevice(d) ==
    IF Active(d) THEN PolicyForGroup(devices[d].group) ELSE None

\* Variant: the rows are committed before the device is found to be revoked.
SyncReportUnchecked(d, r) ==
    /\ Enrolled(d)
    /\ findings' = [findings EXCEPT ![d] = [k \in Keys |-> IF r[k] # 0 THEN r[k] ELSE @[k]]]
    /\ UNCHANGED <<tokens, devices, policies, assigned, audit, minted>>

\* Every finding of the report replaces the row of its key, whatever report
\* that row came from; rolled back when the device is revoked.
SyncReport(d, r) ==
    /\ Active(d)
    /\ findings' = [findings EXCEPT ![d] = [k \in Keys |-> IF r[k] # 0 THEN r[k] ELSE @[k]]]
    /\ UNCHANGED <<tokens, devices, policies, assigned, audit, minted>>

-----------------------------------------------------------------------------
\* migrate on a new database file.
Init ==
    /\ tokens = [t \in TokenIDs |-> NoToken]
    /\ devices = [d \in DeviceIDs |-> None]
    /\ policies = [p \in PolicyIDs |-> None]
    /\ assigned = [g \in Groups |-> None]
    /\ findings = [d \in DeviceIDs |-> NoRows]
    /\ audit = << >>
    /\ minted = 0

-----------------------------------------------------------------------------
\* The types of the tables.
TypeOK ==
    /\ tokens \in [TokenIDs -> Token]
    /\ devices \in [DeviceIDs -> Device \cup {None}]
    /\ policies \in [PolicyIDs -> Policy \cup {None}]
    /\ assigned \in [Groups -> PolicyIDs \cup {None}]
    /\ findings \in [DeviceIDs -> Report]
    /\ audit \in Seq([actor : Principals, action : Actions,
                       target : DeviceIDs \cup Groups \cup PolicyIDs])
    /\ minted \in Nat

\* Enrollment tokens are one-use: used tokens and enrolled devices correspond
\* one to one, and no two devices share a credential, in whatever order tokens
\* are presented, expire and are presented again, and however often devices
\* rotate their credential.
OneTokenOneDevice ==
    /\ \A t \in TokenIDs : tokens[t].st = "used" <=> tokens[t].by # None
    /\ \A d \in DeviceIDs : Enrolled(d) <=> \E t \in TokenIDs : tokens[t].by = d
    /\ \A s, t \in TokenIDs : tokens[s].by # None /\ tokens[s].by = tokens[t].by => s = t
    /\ \A c, d \in ListDevices : devices[c].cred = devices[d].cred => c = d

\* Every assignment names a policy that exists, although policies are deleted
\* and groups reassigned by different operators: an active device of an
\* assigned group is always served a document.
AssignmentsResolve ==
    \A g \in Groups : assigned[g] # None => PolicyForGroup(g) # None

AuditRows(action, target, after) ==
    {k \in ListAudit(after) : audit[k].action = action /\ audit[k].target = target}

\* The rows of one kind that no later row of the other kind revokes.
Standing(action, undo, target) ==
    {k \in AuditRows(action, target, 0) : AuditRows(undo, target, k) = {}}

\* The audit trail accounts for the state: replaying it tells which devices are
\* revoked, which policies exist and at which revision, which groups have a
\* policy, and how many tokens were issued.  No change is committed without its
\* row and no row without its change.
AuditAccountsForState ==
    /\ \A d \in DeviceIDs :
          Cardinality(AuditRows("device.revoke", d, 0))
              = IF Enrolled(d) /\ devices[d].revoked THEN 1 ELSE 0
    /\ \A p \in PolicyIDs :
          LET created == Standing("policy.create", "policy.delete", p)
          IN IF p \notin ListPolicies
             THEN created = {}
             ELSE /\ created = {policies[p].born}
                  /\ policies[p].rev
                         = 1 + Cardinality(AuditRows("policy.update", p, policies[p].born))
    /\ \A g \in Groups :
          /\ assigned[g] # None <=> Standing("group.policy.assign", "group.policy.remove", g) # {}
          /\ Cardinality(AuditRows("enrollment_token.create", g, 0))
                 = Cardinality({t \in TokenIDs : tokens[t].group = g})

\* Revocation is final: it is never undone, and nothing an agent sends
\* afterwards changes the device's row or its findings.
RevokedIsFinal ==
    [][\A d \in DeviceIDs :
          Enrolled(d) /\ devices[d].revoked =>
              /\ Enrolled(d)'
              /\ devices'[d] = [devices[d] EXCEPT !.group = devices'[d].group]
              /\ findings'[d] = findings[d]]_storeVars
=============================================================================
