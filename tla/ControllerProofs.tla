-------------------------- MODULE ControllerProofs --------------------------
(***************************************************************************)
(* Proofs about the controller for any number of principals, tokens,       *)
(* devices, groups and policies.  What only concerns the tables is proved  *)
(* for StoreStep, the store's transactions by themselves, so that it holds *)
(* for ControllerServer and for Fleet.                                     *)
(***************************************************************************)
EXTENDS ControllerServer, FiniteSetTheorems, TLAPS

\* One transaction of the store, called by whatever handler.
AdminStep(a) ==
    \/ \E t \in TokenIDs, g \in Groups : CreateEnrollmentToken(a, t, g)
    \/ \E d \in DeviceIDs : RevokeDevice(a, d)
    \/ \E d \in DeviceIDs, g \in Groups : AssignDeviceGroup(a, d, g)
    \/ \E p \in PolicyIDs, b \in Bodies : CreatePolicy(a, p, b)
    \/ \E p \in PolicyIDs, rev \in Nat, b \in Bodies : UpdatePolicy(a, p, rev, b)
    \/ \E p \in PolicyIDs : DeletePolicy(a, p)
    \/ \E g \in Groups, p \in PolicyIDs : AssignGroupPolicy(a, g, p)
    \/ \E g \in Groups : UnassignGroupPolicy(a, g)

AgentStep ==
    \/ \E t \in TokenIDs : ExpireToken(t)
    \/ \E t \in TokenIDs, d \in DeviceIDs, m \in Metadata : Enroll(t, d, m)
    \/ \E d \in DeviceIDs, m \in Metadata : Heartbeat(d, m)
    \/ \E d \in DeviceIDs : RotateDeviceCredential(d)
    \/ \E d \in DeviceIDs, r \in Report : SyncReport(d, r)

StoreStep == (\E a \in Principals : AdminStep(a)) \/ AgentStep

-----------------------------------------------------------------------------
(***************************************************************************)
(* Types.  A token that was issued has a group, which Enroll gives to the  *)
(* device.                                                                 *)
(***************************************************************************)
TokenGroups == \A t \in TokenIDs : tokens[t].st # "none" => tokens[t].group \in Groups

\* An audit row of a principal about a known target.
LEMMA AppendAuditTypes ==
    ASSUME TypeOK, NEW a \in Principals, NEW action \in Actions,
           NEW target \in DeviceIDs \cup Groups \cup PolicyIDs, AppendAudit(a, action, target)
    PROVE  audit' \in Seq([actor : Principals, action : Actions,
                            target : DeviceIDs \cup Groups \cup PolicyIDs])
  <1>1. [actor |-> a, action |-> action, target |-> target]
            \in [actor : Principals, action : Actions,
                 target : DeviceIDs \cup Groups \cup PolicyIDs]
    OBVIOUS
  <1> QED
    BY <1>1 DEF AppendAudit, TypeOK

LEMMA InitStoreTypes == Init => TypeOK /\ TokenGroups
  <1> SUFFICES ASSUME Init PROVE TypeOK /\ TokenGroups
    OBVIOUS
  <1>1. NoToken \in Token
    BY DEF NoToken, Token
  <1>2. NoRows \in Report
    BY BoundsAssumption DEF NoRows, Report
  <1> QED
    BY <1>1, <1>2 DEF Init, TypeOK, TokenGroups, NoToken

LEMMA StoreTypes ==
    ASSUME TypeOK, TokenGroups, StoreStep PROVE TypeOK' /\ TokenGroups'
  <1> USE DEF TypeOK
  <1>1. ASSUME NEW a \in Principals, NEW t \in TokenIDs, NEW g \in Groups,
               CreateEnrollmentToken(a, t, g)
        PROVE  TypeOK' /\ TokenGroups'
    <2>1. [st |-> "open", group |-> g, by |-> None] \in Token
      BY DEF Token
    <2> QED
      BY <1>1, <2>1, AppendAuditTypes DEF CreateEnrollmentToken, Actions, TokenGroups
  <1>2. ASSUME NEW a \in Principals, NEW d \in DeviceIDs, RevokeDevice(a, d)
        PROVE  TypeOK' /\ TokenGroups'
    BY <1>2, AppendAuditTypes DEF RevokeDevice, Active, Enrolled, Device, Actions, TokenGroups
  <1>3. ASSUME NEW a \in Principals, NEW d \in DeviceIDs, NEW g \in Groups,
               AssignDeviceGroup(a, d, g)
        PROVE  TypeOK' /\ TokenGroups'
    BY <1>3, AppendAuditTypes DEF AssignDeviceGroup, Enrolled, Device, Actions, TokenGroups
  <1>4. ASSUME NEW a \in Principals, NEW p \in PolicyIDs, NEW b \in Bodies, CreatePolicy(a, p, b)
        PROVE  TypeOK' /\ TokenGroups'
    <2>1. [rev |-> 1, body |-> b, born |-> Len(audit) + 1] \in Policy
      BY DEF Policy
    <2> QED
      BY <1>4, <2>1, AppendAuditTypes DEF CreatePolicy, Actions, TokenGroups
  <1>5. ASSUME NEW a \in Principals, NEW p \in PolicyIDs, NEW rev \in Nat, NEW b \in Bodies,
               UpdatePolicy(a, p, rev, b)
        PROVE  TypeOK' /\ TokenGroups'
    <2>1. rev \in Nat \ {0} /\ policies[p] \in Policy
      BY <1>5 DEF UpdatePolicy, RevisionFollows, Policy
    <2>2. [policies[p] EXCEPT !.rev = rev, !.body = b] \in Policy
      BY <2>1 DEF Policy
    <2>3. policies' = [policies EXCEPT ![p] = [policies[p] EXCEPT !.rev = rev, !.body = b]]
      BY <1>5, <2>1 DEF UpdatePolicy
    <2> QED
      BY <1>5, <2>2, <2>3, AppendAuditTypes DEF UpdatePolicy, Actions, TokenGroups
  <1>6. ASSUME NEW a \in Principals, NEW p \in PolicyIDs, DeletePolicy(a, p)
        PROVE  TypeOK' /\ TokenGroups'
    BY <1>6, AppendAuditTypes DEF DeletePolicy, Actions, TokenGroups
  <1>7. ASSUME NEW a \in Principals, NEW g \in Groups, NEW p \in PolicyIDs,
               AssignGroupPolicy(a, g, p)
        PROVE  TypeOK' /\ TokenGroups'
    BY <1>7, AppendAuditTypes DEF AssignGroupPolicy, Actions, TokenGroups
  <1>8. ASSUME NEW a \in Principals, NEW g \in Groups, UnassignGroupPolicy(a, g)
        PROVE  TypeOK' /\ TokenGroups'
    BY <1>8, AppendAuditTypes DEF UnassignGroupPolicy, Actions, TokenGroups
  <1>9. ASSUME NEW t \in TokenIDs, ExpireToken(t) PROVE TypeOK' /\ TokenGroups'
    BY <1>9 DEF ExpireToken, Token, TokenGroups
  <1>10. ASSUME NEW t \in TokenIDs, NEW d \in DeviceIDs, NEW m \in Metadata, Enroll(t, d, m)
         PROVE  TypeOK' /\ TokenGroups'
    <2>1. [cred |-> minted + 1, group |-> tokens[t].group, meta |-> m, revoked |-> FALSE]
              \in Device
      BY <1>10 DEF Enroll, OpenToken, TokenGroups, Device
    <2>2. [tokens[t] EXCEPT !.st = "used", !.by = d] \in Token
      BY DEF Token
    <2>3. tokens' = [tokens EXCEPT ![t] = [tokens[t] EXCEPT !.st = "used", !.by = d]]
      BY <1>10 DEF Enroll
    <2>4. TokenGroups'
      BY <1>10, <2>3 DEF Enroll, OpenToken, TokenGroups, Token
    <2> QED
      BY <1>10, <2>1, <2>2, <2>3, <2>4 DEF Enroll
  <1>11. ASSUME NEW d \in DeviceIDs, NEW m \in Metadata, Heartbeat(d, m)
         PROVE  TypeOK' /\ TokenGroups'
    <2>1. devices[d] \in Device
      BY <1>11 DEF Heartbeat, Active, Enrolled
    <2>2. [devices[d] EXCEPT !.meta = m] \in Device
      BY <2>1 DEF Device
    <2> QED
      BY <1>11, <2>2 DEF Heartbeat, TokenGroups
  <1>12. ASSUME NEW d \in DeviceIDs, RotateDeviceCredential(d) PROVE TypeOK' /\ TokenGroups'
    <2>1. devices[d] \in Device
      BY <1>12 DEF RotateDeviceCredential, Active, Enrolled
    <2>2. [devices[d] EXCEPT !.cred = minted + 1] \in Device
      BY <2>1 DEF Device
    <2> QED
      BY <1>12, <2>2 DEF RotateDeviceCredential, TokenGroups
  <1>13. ASSUME NEW d \in DeviceIDs, NEW r \in Report, SyncReport(d, r)
         PROVE  TypeOK' /\ TokenGroups'
    <2>1. [k \in Keys |-> IF r[k] # 0 THEN r[k] ELSE findings[d][k]] \in Report
      BY DEF Report
    <2> QED
      BY <1>13, <2>1 DEF SyncReport, TokenGroups
  <1> QED
    BY <1>1, <1>2, <1>3, <1>4, <1>5, <1>6, <1>7, <1>8, <1>9, <1>10, <1>11, <1>12, <1>13
    DEF StoreStep, AdminStep, AgentStep

-----------------------------------------------------------------------------
(***************************************************************************)
(* Tokens, devices and credentials.  Every stored credential has been      *)
(* minted, so a new one is nobody's.                                       *)
(***************************************************************************)
CredsMinted == \A d \in ListDevices : devices[d].cred <= minted

TokenInv == OneTokenOneDevice /\ CredsMinted

LEMMA InitTokenInv == Init => TokenInv
  BY NoneAssumption DEF Init, TokenInv, OneTokenOneDevice, CredsMinted, ListDevices, Enrolled,
     NoToken

\* A step that changes neither who enrolled nor which credentials are stored.
LEMMA KeepTokenInv ==
    ASSUME TokenInv, minted' = minted,
           \A t \in TokenIDs : /\ tokens'[t].by = tokens[t].by
                               /\ tokens'[t].st = "used" <=> tokens[t].st = "used",
           \A d \in DeviceIDs : /\ devices'[d] # None <=> devices[d] # None
                                /\ devices[d] # None => devices'[d].cred = devices[d].cred
    PROVE  TokenInv'
  BY DEF TokenInv, OneTokenOneDevice, CredsMinted, ListDevices, Enrolled

LEMMA EnrollTokenInv ==
    ASSUME TypeOK, TokenGroups, TokenInv, NEW t \in TokenIDs, NEW d \in DeviceIDs,
           NEW m \in Metadata, Enroll(t, d, m)
    PROVE  TokenInv'
  <1>1. /\ tokens[t].st = "open" /\ tokens[t].by = None /\ devices[d] = None
        /\ \A s \in TokenIDs : tokens[s].by # d
    BY DEF Enroll, OpenToken, TokenInv, OneTokenOneDevice, Enrolled
  <1>2. /\ tokens'[t].st = "used" /\ tokens'[t].by = d
        /\ \A s \in TokenIDs \ {t} : tokens'[s] = tokens[s]
    BY DEF Enroll, TypeOK, Token
  <1>3. /\ devices'[d] \in Device /\ devices'[d].cred = minted + 1 /\ minted' = minted + 1
        /\ \A c \in DeviceIDs \ {d} : devices'[c] = devices[c]
    <2> DEFINE new == [cred |-> minted + 1, group |-> tokens[t].group, meta |-> m,
                       revoked |-> FALSE]
    <2>1. devices' = [devices EXCEPT ![d] = new] /\ minted' = minted + 1
      BY DEF Enroll
    <2>2. new \in Device /\ new.cred = minted + 1
      BY DEF Enroll, OpenToken, TokenGroups, TypeOK, Device
    <2> HIDE DEF new
    <2> QED
      BY <2>1, <2>2 DEF TypeOK
  <1>4. d # None /\ devices'[d] # None
    BY <1>3, NoneAssumption
  <1>5. \A c \in DeviceIDs : devices[c] # None => devices[c].cred <= minted /\ devices[c].cred \in Nat
    BY DEF TokenInv, CredsMinted, ListDevices, Enrolled, TypeOK, Device
  <1>6. minted \in Nat
    BY DEF TypeOK
  <1>7. CredsMinted'
    BY <1>3, <1>5, <1>6 DEF CredsMinted, ListDevices, Enrolled
  <1>8. ASSUME NEW c \in ListDevices', NEW e \in ListDevices',
               devices'[c].cred = devices'[e].cred
        PROVE  c = e
    <2>1. c \in DeviceIDs /\ e \in DeviceIDs
      BY DEF ListDevices
    <2>2. CASE c # d /\ e # d
      BY <1>3, <1>8, <2>1, <2>2 DEF ListDevices, Enrolled, TokenInv, OneTokenOneDevice
    <2>3. CASE (c = d) # (e = d)
      BY <1>3, <1>5, <1>6, <1>8, <2>1, <2>3 DEF ListDevices, Enrolled
    <2> QED
      BY <2>2, <2>3
  <1>9. \A s, u \in TokenIDs : tokens'[s].by # None /\ tokens'[s].by = tokens'[u].by => s = u
    BY <1>1, <1>2 DEF TokenInv, OneTokenOneDevice
  <1>10. \A c \in DeviceIDs : Enrolled(c)' <=> \E s \in TokenIDs : tokens'[s].by = c
    <2> SUFFICES ASSUME NEW c \in DeviceIDs
                 PROVE  Enrolled(c)' <=> \E s \in TokenIDs : tokens'[s].by = c
      OBVIOUS
    <2>1. CASE c = d
      BY <1>2, <1>4, <2>1 DEF Enrolled
    <2>2. CASE c # d
      <3>1. Enrolled(c)' <=> \E s \in TokenIDs : tokens[s].by = c
        BY <1>3, <2>2 DEF Enrolled, TokenInv, OneTokenOneDevice
      <3>2. \A s \in TokenIDs : tokens[s].by = c <=> tokens'[s].by = c
        BY <1>1, <1>2, <2>2, NoneAssumption
      <3> QED
        BY <3>1, <3>2
    <2> QED
      BY <2>1, <2>2
  <1>11. \A s \in TokenIDs : tokens'[s].st = "used" <=> tokens'[s].by # None
    BY <1>2, <1>4 DEF TokenInv, OneTokenOneDevice
  <1> QED
    BY <1>7, <1>8, <1>9, <1>10, <1>11 DEF TokenInv, OneTokenOneDevice

LEMMA RotateTokenInv ==
    ASSUME TypeOK, TokenInv, NEW d \in DeviceIDs, RotateDeviceCredential(d)
    PROVE  TokenInv'
  <1>1. devices[d] \in Device
    BY DEF RotateDeviceCredential, Active, Enrolled, TypeOK
  <1>2. /\ devices' = [devices EXCEPT ![d] = [devices[d] EXCEPT !.cred = minted + 1]]
        /\ minted' = minted + 1 /\ tokens' = tokens /\ minted \in Nat
    BY DEF RotateDeviceCredential, TypeOK
  <1>3. devices'[d].cred = minted + 1 /\ devices'[d] \in Device
    <2> DEFINE new == [devices[d] EXCEPT !.cred = minted + 1]
    <2>1. new \in Device /\ new.cred = minted + 1
      BY <1>1, <1>2 DEF Device
    <2>2. devices'[d] = new
      BY <1>2 DEF TypeOK
    <2> QED
      BY <2>1, <2>2
  <1>4. \A c \in DeviceIDs \ {d} : devices'[c] = devices[c]
    BY <1>2 DEF TypeOK
  <1>5. \A c \in DeviceIDs : devices[c] # None => devices[c].cred <= minted /\ devices[c].cred \in Nat
    BY DEF TokenInv, CredsMinted, ListDevices, Enrolled, TypeOK, Device
  <1>6. \A c \in DeviceIDs : devices'[c] # None <=> devices[c] # None
    BY <1>1, <1>3, <1>4, NoneAssumption
  <1>7. CredsMinted'
    BY <1>2, <1>3, <1>4, <1>5 DEF CredsMinted, ListDevices, Enrolled
  <1>8. ASSUME NEW c \in ListDevices', NEW e \in ListDevices',
               devices'[c].cred = devices'[e].cred
        PROVE  c = e
    <2>1. c \in DeviceIDs /\ e \in DeviceIDs
      BY DEF ListDevices
    <2>2. CASE c # d /\ e # d
      BY <1>4, <1>8, <2>1, <2>2 DEF ListDevices, Enrolled, TokenInv, OneTokenOneDevice
    <2>3. CASE (c = d) # (e = d)
      BY <1>2, <1>3, <1>4, <1>5, <1>8, <2>1, <2>3 DEF ListDevices, Enrolled
    <2> QED
      BY <2>2, <2>3
  <1> QED
    BY <1>2, <1>6, <1>7, <1>8 DEF TokenInv, OneTokenOneDevice, Enrolled

LEMMA StoreTokenInv ==
    ASSUME TypeOK, TokenGroups, TokenInv, StoreStep PROVE TokenInv'
  <1>1. ASSUME NEW a \in Principals, NEW t \in TokenIDs, NEW g \in Groups,
               CreateEnrollmentToken(a, t, g)
        PROVE  TokenInv'
    <2>1. tokens'[t] = [st |-> "open", group |-> g, by |-> None]
          /\ \A s \in TokenIDs \ {t} : tokens'[s] = tokens[s]
      BY <1>1 DEF CreateEnrollmentToken, TypeOK
    <2>2. tokens[t].st = "none" /\ tokens[t].by = None
      BY <1>1 DEF CreateEnrollmentToken, NoToken
    <2> QED
      BY <1>1, <2>1, <2>2, KeepTokenInv DEF CreateEnrollmentToken
  <1>2. ASSUME NEW d \in DeviceIDs, NEW new \in Device, devices[d] \in Device,
               new.cred = devices[d].cred, devices' = [devices EXCEPT ![d] = new],
               tokens' = tokens, minted' = minted
        PROVE  TokenInv'
    BY <1>2, KeepTokenInv, NoneAssumption DEF TypeOK
  <1>3. ASSUME NEW a \in Principals, NEW d \in DeviceIDs, RevokeDevice(a, d) PROVE TokenInv'
    <2>1. devices[d] \in Device
      BY <1>3 DEF RevokeDevice, Active, Enrolled, TypeOK
    <2>2. [devices[d] EXCEPT !.revoked = TRUE] \in Device
          /\ [devices[d] EXCEPT !.revoked = TRUE].cred = devices[d].cred
      BY <2>1 DEF Device
    <2> QED
      BY <1>2, <1>3, <2>1, <2>2 DEF RevokeDevice
  <1>4. ASSUME NEW a \in Principals, NEW d \in DeviceIDs, NEW g \in Groups,
               AssignDeviceGroup(a, d, g)
        PROVE  TokenInv'
    <2>1. devices[d] \in Device
      BY <1>4 DEF AssignDeviceGroup, Enrolled, TypeOK
    <2>2. [devices[d] EXCEPT !.group = g] \in Device
          /\ [devices[d] EXCEPT !.group = g].cred = devices[d].cred
      BY <2>1 DEF Device
    <2> QED
      BY <1>2, <1>4, <2>1, <2>2 DEF AssignDeviceGroup
  <1>5. ASSUME NEW d \in DeviceIDs, NEW m \in Metadata, Heartbeat(d, m) PROVE TokenInv'
    <2>1. devices[d] \in Device
      BY <1>5 DEF Heartbeat, Active, Enrolled, TypeOK
    <2>2. [devices[d] EXCEPT !.meta = m] \in Device
          /\ [devices[d] EXCEPT !.meta = m].cred = devices[d].cred
      BY <2>1 DEF Device
    <2> QED
      BY <1>2, <1>5, <2>1, <2>2 DEF Heartbeat
  <1>6. ASSUME NEW t \in TokenIDs, ExpireToken(t) PROVE TokenInv'
    <2>1. tokens' = [tokens EXCEPT ![t] = [tokens[t] EXCEPT !.st = "expired"]]
      BY <1>6 DEF ExpireToken
    <2>2. [tokens[t] EXCEPT !.st = "expired"].by = tokens[t].by
          /\ [tokens[t] EXCEPT !.st = "expired"].st = "expired"
      BY DEF TypeOK, Token
    <2> QED
      BY <1>6, <2>1, <2>2, KeepTokenInv DEF ExpireToken, TypeOK
  <1>7. CASE UNCHANGED <<tokens, devices, minted>>
    BY <1>7, KeepTokenInv
  <1> QED
    BY <1>1, <1>3, <1>4, <1>5, <1>6, <1>7, EnrollTokenInv, RotateTokenInv
    DEF StoreStep, AdminStep, AgentStep, CreatePolicy, UpdatePolicy, DeletePolicy,
        AssignGroupPolicy, UnassignGroupPolicy, SyncReport

-----------------------------------------------------------------------------
(***************************************************************************)
(* Assignments and revocation                                              *)
(***************************************************************************)
\* An assignment resolves exactly when its policy exists.
LEMMA ResolvesIffExists ==
    AssignmentsResolve <=> \A g \in Groups : assigned[g] # None => assigned[g] \in ListPolicies
  BY DEF AssignmentsResolve, PolicyForGroup, ListPolicies

LEMMA StoreAssignments ==
    ASSUME TypeOK, AssignmentsResolve, StoreStep PROVE AssignmentsResolve'
  <1>0. \A g \in Groups : assigned[g] # None => assigned[g] \in ListPolicies
    BY ResolvesIffExists
  <1>1. SUFFICES \A g \in Groups : assigned'[g] # None => assigned'[g] \in ListPolicies'
    BY DEF AssignmentsResolve, PolicyForGroup, ListPolicies
  <1>2. ASSUME NEW a \in Principals, NEW g \in Groups, NEW p \in PolicyIDs,
               AssignGroupPolicy(a, g, p)
        PROVE  \A h \in Groups : assigned'[h] # None => assigned'[h] \in ListPolicies'
    BY <1>0, <1>2 DEF AssignGroupPolicy, ListPolicies, TypeOK
  <1>3. ASSUME NEW a \in Principals, NEW g \in Groups, UnassignGroupPolicy(a, g)
        PROVE  \A h \in Groups : assigned'[h] # None => assigned'[h] \in ListPolicies'
    BY <1>0, <1>3 DEF UnassignGroupPolicy, ListPolicies, TypeOK
  <1>4. ASSUME NEW a \in Principals, NEW p \in PolicyIDs, DeletePolicy(a, p)
        PROVE  \A h \in Groups : assigned'[h] # None => assigned'[h] \in ListPolicies'
    BY <1>0, <1>4 DEF DeletePolicy, Deletable, ListPolicies, TypeOK
  <1>5. CASE assigned' = assigned /\ ListPolicies \subseteq ListPolicies'
    BY <1>0, <1>5
  <1>6. ASSUME NEW a \in Principals, NEW p \in PolicyIDs, NEW b \in Bodies, CreatePolicy(a, p, b)
        PROVE  assigned' = assigned /\ ListPolicies \subseteq ListPolicies'
    BY <1>6 DEF CreatePolicy, ListPolicies, TypeOK
  <1>7. ASSUME NEW a \in Principals, NEW p \in PolicyIDs, NEW rev \in Nat, NEW b \in Bodies,
               UpdatePolicy(a, p, rev, b)
        PROVE  assigned' = assigned /\ ListPolicies \subseteq ListPolicies'
    <2>1. policies'[p] # None /\ \A q \in PolicyIDs \ {p} : policies'[q] = policies[q]
      <3> DEFINE new == [policies[p] EXCEPT !.rev = rev, !.body = b]
      <3>1. policies[p] \in Policy /\ rev \in Nat \ {0}
        BY <1>7 DEF UpdatePolicy, RevisionFollows, TypeOK, Policy
      <3>2. new \in Policy
        BY <3>1 DEF Policy
      <3>3. policies' = [policies EXCEPT ![p] = new]
        BY <1>7, <3>1 DEF UpdatePolicy
      <3> HIDE DEF new
      <3> QED
        BY <3>2, <3>3, NoneAssumption DEF TypeOK
    <2> QED
      BY <1>7, <2>1 DEF UpdatePolicy, ListPolicies
  <1>8. CASE UNCHANGED <<assigned, policies>>
    BY <1>0, <1>8 DEF ListPolicies
  <1> QED
    BY <1>2, <1>3, <1>4, <1>5, <1>6, <1>7, <1>8
    DEF StoreStep, AdminStep, AgentStep, CreateEnrollmentToken, RevokeDevice, AssignDeviceGroup,
        ExpireToken, Enroll, Heartbeat, RotateDeviceCredential, SyncReport

\* A transaction leaves a revoked device and its findings alone; an operator
\* may move it to another group.
RevokedKept ==
    \A d \in DeviceIDs :
        Enrolled(d) /\ devices[d].revoked =>
            /\ Enrolled(d)'
            /\ devices'[d] = [devices[d] EXCEPT !.group = devices'[d].group]
            /\ findings'[d] = findings[d]

LEMMA StoreRevokedKept ==
    ASSUME TypeOK, StoreStep \/ UNCHANGED storeVars PROVE RevokedKept
  <1> SUFFICES ASSUME NEW d \in DeviceIDs, devices[d] # None, devices[d].revoked
               PROVE  /\ devices'[d] # None
                      /\ devices'[d] = [devices[d] EXCEPT !.group = devices'[d].group]
                      /\ findings'[d] = findings[d]
    BY DEF RevokedKept, Enrolled
  <1>0. devices[d] \in Device /\ devices[d] = [devices[d] EXCEPT !.group = devices[d].group]
    BY DEF TypeOK, Device
  <1>1. CASE devices'[d] = devices[d] /\ findings'[d] = findings[d]
    BY <1>0, <1>1
  <1>2. ASSUME NEW a \in Principals, NEW c \in DeviceIDs, RevokeDevice(a, c)
        PROVE  devices'[d] = devices[d] /\ findings'[d] = findings[d]
    BY <1>2 DEF RevokeDevice, Active, TypeOK
  <1>3. ASSUME NEW a \in Principals, NEW c \in DeviceIDs, NEW g \in Groups,
               AssignDeviceGroup(a, c, g)
        PROVE  /\ devices'[d] # None
               /\ devices'[d] = [devices[d] EXCEPT !.group = devices'[d].group]
               /\ findings'[d] = findings[d]
    <2> DEFINE new == [devices[c] EXCEPT !.group = g]
    <2>1. devices' = [devices EXCEPT ![c] = new] /\ findings' = findings
      BY <1>3 DEF AssignDeviceGroup
    <2>2. CASE c = d
      <3>1. devices'[d] = new
        BY <2>1, <2>2 DEF TypeOK
      <3>2. new \in Device /\ new.group = g
        BY <1>0, <2>2 DEF Device
      <3>3. new = [devices[d] EXCEPT !.group = new.group]
        BY <2>2, <3>2
      <3> QED
        BY <2>1, <3>1, <3>2, <3>3, NoneAssumption
    <2>3. CASE c # d
      BY <1>0, <2>1, <2>3 DEF TypeOK
    <2> QED
      BY <2>2, <2>3
  <1>4. ASSUME NEW t \in TokenIDs, NEW c \in DeviceIDs, NEW m \in Metadata, Enroll(t, c, m)
        PROVE  devices'[d] = devices[d] /\ findings'[d] = findings[d]
    BY <1>4 DEF Enroll, TypeOK
  <1>5. ASSUME NEW c \in DeviceIDs, NEW m \in Metadata, Heartbeat(c, m)
        PROVE  devices'[d] = devices[d] /\ findings'[d] = findings[d]
    BY <1>5 DEF Heartbeat, Active, TypeOK
  <1>6. ASSUME NEW c \in DeviceIDs, RotateDeviceCredential(c)
        PROVE  devices'[d] = devices[d] /\ findings'[d] = findings[d]
    BY <1>6 DEF RotateDeviceCredential, Active, TypeOK
  <1>7. ASSUME NEW c \in DeviceIDs, NEW r \in Report, SyncReport(c, r)
        PROVE  devices'[d] = devices[d] /\ findings'[d] = findings[d]
    BY <1>7 DEF SyncReport, Active, TypeOK
  <1>8. CASE UNCHANGED <<devices, findings>>
    BY <1>1, <1>8
  <1> QED
    BY <1>1, <1>2, <1>3, <1>4, <1>5, <1>6, <1>7, <1>8
    DEF StoreStep, AdminStep, AgentStep, CreateEnrollmentToken, CreatePolicy, UpdatePolicy,
        DeletePolicy, AssignGroupPolicy, UnassignGroupPolicy, ExpireToken, storeVars

-----------------------------------------------------------------------------
(***************************************************************************)
(* The server: every handler is one transaction or none                    *)
(***************************************************************************)
LEMMA ServerSteps ==
    ASSUME ServerTypeOK, [Next]_vars PROVE StoreStep \/ UNCHANGED storeVars
  <1>1. ASSUME DeviceAdmin PROVE StoreStep
    BY <1>1 DEF DeviceAdmin, createEnrollmentToken, revokeDevice, assignDeviceGroup,
       assignGroupPolicy, unassignGroupPolicy, StoreStep, AdminStep
  <1>2. ASSUME NEW a \in Principals, NEW b \in Bodies, updatePolicy(a, b) PROVE StoreStep
    <2>1. copies[a] \in Copy
      BY <1>2 DEF updatePolicy, ServerTypeOK
    <2>2. copies[a].id \in PolicyIDs /\ copies[a].doc.rev + 1 \in Nat
      BY <2>1 DEF Copy, Policy
    <2>3. UpdatePolicy(a, copies[a].id, copies[a].doc.rev + 1, b)
      BY <1>2 DEF updatePolicy
    <2> QED
      BY <2>2, <2>3 DEF StoreStep, AdminStep
  <1>3. ASSUME PolicyAdmin PROVE StoreStep \/ UNCHANGED storeVars
    BY <1>2, <1>3 DEF PolicyAdmin, createPolicy, getPolicy, deletePolicy, AbandonEdit,
       StoreStep, AdminStep
  <1>4. ASSUME Expiry \/ AgentNext PROVE StoreStep
    BY <1>4 DEF Expiry, AgentNext, StoreStep, AgentStep
  <1>5. ASSUME Reads \/ UNCHANGED vars PROVE UNCHANGED storeVars
    BY <1>5 DEF Reads, listDevices, listFindings, listAudit, listPolicies, getGroupPolicy, vars
  <1> QED
    BY <1>1, <1>3, <1>4, <1>5 DEF Next

LEMMA UnchangedStore ==
    ASSUME UNCHANGED storeVars
    PROVE  /\ TypeOK => TypeOK'
           /\ TokenGroups => TokenGroups'
           /\ TokenInv => TokenInv'
           /\ AssignmentsResolve => AssignmentsResolve'
  <1> USE DEF storeVars
  <1>1. TypeOK => TypeOK'
    BY DEF TypeOK
  <1>2. TokenGroups => TokenGroups'
    BY DEF TokenGroups
  <1>3. TokenInv => TokenInv'
    BY KeepTokenInv
  <1>4. AssignmentsResolve => AssignmentsResolve'
    BY DEF AssignmentsResolve, PolicyForGroup, ListPolicies
  <1> QED
    BY <1>1, <1>2, <1>3, <1>4

\* The copies are only written by the handlers of one policy editor.
LEMMA CopiesTypes == ServerTypeOK /\ [Next]_vars => (copies \in [Principals -> Copy \cup {None}])'
  <1> SUFFICES ASSUME ServerTypeOK, [Next]_vars
               PROVE  copies' \in [Principals -> Copy \cup {None}]
    OBVIOUS
  <1> USE DEF ServerTypeOK
  <1>1. ASSUME NEW a \in Principals, NEW p \in PolicyIDs, getPolicy(a, p)
        PROVE  copies' \in [Principals -> Copy \cup {None}]
    <2>1. [id |-> p, doc |-> GetPolicy(p)] \in Copy
      BY <1>1 DEF getPolicy, GetPolicy, TypeOK, Copy
    <2> QED
      BY <1>1, <2>1 DEF getPolicy
  <1>2. ASSUME NEW a \in Principals, copies' = [copies EXCEPT ![a] = None]
        PROVE  copies' \in [Principals -> Copy \cup {None}]
    BY <1>2
  <1>3. CASE UNCHANGED copies
    BY <1>3
  <1> QED
    BY <1>1, <1>2, <1>3
    DEF Next, DeviceAdmin, PolicyAdmin, Reads, Expiry, AgentNext, createEnrollmentToken,
        revokeDevice, assignDeviceGroup, assignGroupPolicy, unassignGroupPolicy, createPolicy,
        updatePolicy, deletePolicy, AbandonEdit, listDevices, listFindings, listAudit,
        listPolicies, getGroupPolicy, vars

ServerInv == ServerTypeOK /\ TokenGroups /\ TokenInv /\ AssignmentsResolve

\* The invariant of the tables, for every Spec behaviour.
THEOREM ServerInvariance == Spec => []ServerInv
  <1>1. ServerInit => ServerInv
    <2> SUFFICES ASSUME ServerInit PROVE ServerInv
      OBVIOUS
    <2>1. TypeOK /\ TokenGroups /\ TokenInv
      BY InitStoreTypes, InitTokenInv DEF ServerInit
    <2>2. AssignmentsResolve /\ copies \in [Principals -> Copy \cup {None}]
      BY DEF ServerInit, Init, AssignmentsResolve
    <2> QED
      BY <2>1, <2>2 DEF ServerInv, ServerTypeOK
  <1>2. ServerInv /\ [Next]_vars => ServerInv'
    <2> SUFFICES ASSUME ServerInv, [Next]_vars PROVE ServerInv'
      OBVIOUS
    <2>1. StoreStep \/ UNCHANGED storeVars
      BY ServerSteps DEF ServerInv
    <2>2. TypeOK' /\ TokenGroups' /\ TokenInv' /\ AssignmentsResolve'
      BY <2>1, StoreTypes, StoreTokenInv, StoreAssignments, UnchangedStore
      DEF ServerInv, ServerTypeOK
    <2>3. (copies \in [Principals -> Copy \cup {None}])'
      BY CopiesTypes DEF ServerInv
    <2> QED
      BY <2>2, <2>3 DEF ServerInv, ServerTypeOK
  <1> QED
    BY <1>1, <1>2, PTL DEF Spec

\* The tables and the copies keep their types: a token that is used has a
\* group for its device, and no update leaves a policy without a revision.
THEOREM ServerTypeCorrect == Spec => []ServerTypeOK
  <1>1. ServerInv => ServerTypeOK
    BY DEF ServerInv
  <1> QED
    BY <1>1, ServerInvariance, PTL

\* Enrollment tokens are one-use and no two devices share a credential, for any
\* number of tokens, devices and rotations.
THEOREM TokensAreOneUse == Spec => []OneTokenOneDevice
  <1>1. ServerInv => OneTokenOneDevice
    BY DEF ServerInv, TokenInv
  <1> QED
    BY <1>1, ServerInvariance, PTL

\* Every assignment names a policy that exists: DeletePolicy is refused while a
\* group uses the policy, for any number of groups and policies.
THEOREM AssignmentsAlwaysResolve == Spec => []AssignmentsResolve
  <1>1. ServerInv => AssignmentsResolve
    BY DEF ServerInv
  <1> QED
    BY <1>1, ServerInvariance, PTL

\* Revocation is final under the admin API and the agents' requests.
THEOREM ServerRevocationIsFinal == Spec => RevokedIsFinal
  <1>1. ServerInv /\ [Next]_vars => [RevokedKept]_storeVars
    BY ServerSteps, StoreRevokedKept DEF ServerInv, ServerTypeOK
  <1> QED
    BY <1>1, ServerInvariance, PTL DEF Spec, RevokedIsFinal, RevokedKept

-----------------------------------------------------------------------------
(***************************************************************************)
(* No lost update.  Two documents of one policy with the same created_at   *)
(* belong to one sequence of revisions: the copy is not ahead, and at the  *)
(* same revision it is the very document.                                  *)
(***************************************************************************)
BornLogged ==
    /\ \A p \in ListPolicies : policies[p].born <= Len(audit)
    /\ \A a \in Principals : copies[a] # None => copies[a].doc.born <= Len(audit)

CopyInv ==
    \A a \in Principals :
        copies[a] # None /\ copies[a].id \in ListPolicies
            /\ copies[a].doc.born = policies[copies[a].id].born =>
                /\ copies[a].doc.rev <= policies[copies[a].id].rev
                /\ copies[a].doc.rev = policies[copies[a].id].rev =>
                       copies[a].doc = policies[copies[a].id]

EditInv == BornLogged /\ CopyInv

\* The trail only grows.
LEMMA AuditGrows ==
    ASSUME TypeOK, StoreStep \/ UNCHANGED storeVars
    PROVE  Len(audit) \in Nat /\ Len(audit') \in Nat /\ Len(audit) <= Len(audit')
  <1>1. Len(audit) \in Nat
    BY DEF TypeOK
  <1>2. ASSUME NEW a, NEW action, NEW target, AppendAudit(a, action, target)
        PROVE  Len(audit') = Len(audit) + 1
    BY <1>2 DEF AppendAudit, TypeOK
  <1>3. ASSUME NEW a \in Principals, AdminStep(a) PROVE Len(audit') = Len(audit) + 1
    BY <1>2, <1>3
    DEF AdminStep, CreateEnrollmentToken, RevokeDevice, AssignDeviceGroup, CreatePolicy,
        UpdatePolicy, DeletePolicy, AssignGroupPolicy, UnassignGroupPolicy
  <1>4. ASSUME AgentStep \/ UNCHANGED storeVars PROVE audit' = audit
    BY <1>4 DEF AgentStep, ExpireToken, Enroll, Heartbeat, RotateDeviceCredential, SyncReport,
       storeVars
  <1> QED
    BY <1>1, <1>3, <1>4 DEF StoreStep

\* Steps that edit no policy: the documents and the copies stay.
LEMMA KeepEditInv ==
    ASSUME ServerTypeOK, EditInv, policies' = policies, copies' = copies,
           Len(audit') \in Nat, Len(audit) <= Len(audit')
    PROVE  EditInv'
  <1>1. Len(audit) \in Nat /\ \A p \in ListPolicies : policies[p].born \in Nat
    BY DEF ServerTypeOK, TypeOK, ListPolicies, Policy
  <1>2. \A a \in Principals : copies[a] # None => copies[a].doc.born \in Nat
    BY DEF ServerTypeOK, Copy, Policy
  <1>3. BornLogged'
    BY <1>1, <1>2 DEF EditInv, BornLogged, ListPolicies
  <1>4. CopyInv'
    BY DEF EditInv, CopyInv, ListPolicies
  <1> QED
    BY <1>3, <1>4 DEF EditInv

LEMMA CreateEditInv ==
    ASSUME ServerTypeOK, EditInv, NEW a \in Principals, NEW p \in PolicyIDs, NEW b \in Bodies,
           createPolicy(a, p, b)
    PROVE  EditInv'
  <1> DEFINE new == [rev |-> 1, body |-> b, born |-> Len(audit) + 1]
  <1>1. /\ policies[p] = None
        /\ policies' = [policies EXCEPT ![p] = new]
        /\ copies' = copies
        /\ AppendAudit(a, "policy.create", p)
    BY DEF createPolicy, CreatePolicy
  <1>2. Len(audit) \in Nat /\ Len(audit') = Len(audit) + 1
    BY <1>1 DEF AppendAudit, ServerTypeOK, TypeOK
  <1>3. policies'[p] = new /\ \A q \in PolicyIDs \ {p} : policies'[q] = policies[q]
    BY <1>1 DEF ServerTypeOK, TypeOK
  <1>4. \A c \in Principals : copies[c] # None => copies[c].doc.born \in Nat /\ copies[c].id \in PolicyIDs
    BY DEF ServerTypeOK, Copy, Policy
  <1>5. \A q \in ListPolicies : policies[q].born \in Nat
    BY DEF ServerTypeOK, TypeOK, ListPolicies, Policy
  <1>6. BornLogged'
    BY <1>1, <1>2, <1>3, <1>4, <1>5 DEF EditInv, BornLogged, ListPolicies
  <1>7. CopyInv'
    <2> SUFFICES ASSUME NEW c \in Principals, copies[c] # None, copies[c].id \in ListPolicies',
                        copies[c].doc.born = policies'[copies[c].id].born
                 PROVE  /\ copies[c].doc.rev <= policies'[copies[c].id].rev
                        /\ copies[c].doc.rev = policies'[copies[c].id].rev =>
                               copies[c].doc = policies'[copies[c].id]
      BY <1>1 DEF CopyInv
    <2>1. copies[c].id # p
      BY <1>2, <1>3, <1>4 DEF EditInv, BornLogged
    <2> QED
      BY <1>3, <1>4, <2>1 DEF EditInv, CopyInv, ListPolicies
  <1> QED
    BY <1>6, <1>7 DEF EditInv

LEMMA UpdateEditInv ==
    ASSUME ServerTypeOK, EditInv, NEW a \in Principals, NEW b \in Bodies, updatePolicy(a, b)
    PROVE  EditInv'
  <1> DEFINE p == copies[a].id
             rev == copies[a].doc.rev + 1
             new == [policies[p] EXCEPT !.rev = rev, !.body = b]
  <1>1. copies[a] \in Copy /\ p \in PolicyIDs /\ rev \in Nat \ {0}
    BY DEF updatePolicy, ServerTypeOK, Copy, Policy
  <1>2. /\ policies[p] \in Policy /\ policies[p].rev = rev - 1
        /\ policies' = [policies EXCEPT ![p] = new]
        /\ copies' = [copies EXCEPT ![a] = None]
        /\ AppendAudit(a, "policy.update", p)
    BY <1>1 DEF updatePolicy, UpdatePolicy, RevisionFollows, ServerTypeOK, TypeOK
  <1>3. new.rev = rev /\ new.born = policies[p].born /\ new \in Policy
    BY <1>1, <1>2 DEF Policy
  <1>4. Len(audit) \in Nat /\ Len(audit') = Len(audit) + 1
    BY <1>2 DEF AppendAudit, ServerTypeOK, TypeOK
  <1> HIDE DEF new, rev, p
  <1>5. policies'[p] = new /\ \A q \in PolicyIDs \ {p} : policies'[q] = policies[q]
    BY <1>1, <1>2 DEF ServerTypeOK, TypeOK
  <1>6. copies'[a] = None /\ \A c \in Principals \ {a} : copies'[c] = copies[c]
    BY <1>2 DEF ServerTypeOK
  <1>7. \A c \in Principals : copies[c] # None =>
            /\ copies[c].doc.born \in Nat /\ copies[c].doc.rev \in Nat
            /\ copies[c].id \in PolicyIDs
    BY DEF ServerTypeOK, Copy, Policy
  <1>8. \A q \in ListPolicies : policies[q].born \in Nat /\ policies[q].rev \in Nat
    BY DEF ServerTypeOK, TypeOK, ListPolicies, Policy
  <1>9. p \in ListPolicies
    BY <1>1, <1>2, NoneAssumption DEF ListPolicies
  <1>10. BornLogged'
    BY <1>3, <1>4, <1>5, <1>6, <1>7, <1>8, <1>9 DEF EditInv, BornLogged, ListPolicies
  <1>11. CopyInv'
    <2> SUFFICES ASSUME NEW c \in Principals, copies'[c] # None, copies'[c].id \in ListPolicies',
                        copies'[c].doc.born = policies'[copies'[c].id].born
                 PROVE  /\ copies'[c].doc.rev <= policies'[copies'[c].id].rev
                        /\ copies'[c].doc.rev = policies'[copies'[c].id].rev =>
                               copies'[c].doc = policies'[copies'[c].id]
      BY DEF CopyInv
    <2>1. c # a /\ copies'[c] = copies[c]
      BY <1>6
    <2>2. CASE copies[c].id = p
      <3>1. copies[c].doc.rev <= policies[p].rev
        BY <1>3, <1>5, <1>9, <2>1, <2>2 DEF EditInv, CopyInv
      <3> QED
        BY <1>1, <1>2, <1>3, <1>5, <1>7, <2>1, <2>2, <3>1
    <2>3. CASE copies[c].id # p
      BY <1>5, <1>7, <2>1, <2>3 DEF EditInv, CopyInv, ListPolicies
    <2> QED
      BY <2>2, <2>3
  <1> QED
    BY <1>10, <1>11 DEF EditInv

\* Dropping copies or documents keeps the rest as it was.
LEMMA DropEditInv ==
    ASSUME ServerTypeOK, EditInv, Len(audit') \in Nat, Len(audit) <= Len(audit'),
           \A c \in Principals : copies'[c] = copies[c] \/ copies'[c] = None,
           \A q \in PolicyIDs : policies'[q] = policies[q] \/ policies'[q] = None
    PROVE  EditInv'
  <1>1. Len(audit) \in Nat /\ \A p \in ListPolicies : policies[p].born \in Nat
    BY DEF ServerTypeOK, TypeOK, ListPolicies, Policy
  <1>2. \A a \in Principals : copies[a] # None =>
            copies[a].doc.born \in Nat /\ copies[a].id \in PolicyIDs
    BY DEF ServerTypeOK, Copy, Policy
  <1>3. BornLogged'
    BY <1>1, <1>2 DEF EditInv, BornLogged, ListPolicies
  <1>4. CopyInv'
    BY <1>2 DEF EditInv, CopyInv, ListPolicies
  <1> QED
    BY <1>3, <1>4 DEF EditInv

LEMMA ReadEditInv ==
    ASSUME ServerTypeOK, EditInv, NEW a \in Principals, NEW p \in PolicyIDs, getPolicy(a, p)
    PROVE  EditInv'
  <1> DEFINE new == [id |-> p, doc |-> policies[p]]
  <1>1. /\ policies[p] \in Policy /\ p \in ListPolicies
        /\ copies' = [copies EXCEPT ![a] = new]
        /\ policies' = policies /\ audit' = audit
    BY DEF getPolicy, GetPolicy, ServerTypeOK, TypeOK, ListPolicies, storeVars
  <1>2. copies'[a] = new /\ \A c \in Principals \ {a} : copies'[c] = copies[c]
    BY <1>1 DEF ServerTypeOK
  <1>3. new.id = p /\ new.doc = policies[p] /\ policies[p].rev \in Nat
    BY <1>1 DEF Policy
  <1> HIDE DEF new
  <1>4. BornLogged'
    BY <1>1, <1>2, <1>3 DEF EditInv, BornLogged, ListPolicies
  <1>5. CopyInv'
    BY <1>1, <1>2, <1>3 DEF EditInv, CopyInv, ListPolicies
  <1> QED
    BY <1>4, <1>5 DEF EditInv

LEMMA NextEditInv ==
    ASSUME ServerTypeOK, EditInv, [Next]_vars PROVE EditInv'
  <1>0. StoreStep \/ UNCHANGED storeVars
    BY ServerSteps
  <1>1. Len(audit') \in Nat /\ Len(audit) <= Len(audit')
    BY <1>0, AuditGrows DEF ServerTypeOK
  <1>2. ASSUME NEW a \in Principals, NEW p \in PolicyIDs, deletePolicy(a, p) PROVE EditInv'
    BY <1>1, <1>2, DropEditInv DEF deletePolicy, DeletePolicy, ServerTypeOK, TypeOK
  <1>3. ASSUME NEW a \in Principals, AbandonEdit(a) PROVE EditInv'
    BY <1>1, <1>3, DropEditInv DEF AbandonEdit, ServerTypeOK, storeVars
  <1>4. ASSUME PolicyAdmin PROVE EditInv'
    BY <1>2, <1>3, <1>4, CreateEditInv, UpdateEditInv, ReadEditInv DEF PolicyAdmin
  <1>5. ASSUME DeviceAdmin \/ Reads \/ Expiry \/ AgentNext \/ UNCHANGED vars
        PROVE  policies' = policies /\ copies' = copies
    BY <1>5
    DEF DeviceAdmin, Reads, Expiry, AgentNext, createEnrollmentToken, revokeDevice,
        assignDeviceGroup, assignGroupPolicy, unassignGroupPolicy, CreateEnrollmentToken,
        RevokeDevice, AssignDeviceGroup, AssignGroupPolicy, UnassignGroupPolicy, ExpireToken,
        Enroll, Heartbeat, RotateDeviceCredential, SyncReport, listDevices, listFindings,
        listAudit, listPolicies, getGroupPolicy, vars, storeVars
  <1> QED
    BY <1>1, <1>4, <1>5, KeepEditInv DEF Next

\* An accepted edit is an edit of exactly the document it replaces: of any
\* number of operators that edit one revision, all but one are refused.
THEOREM NoUpdateIsLost == Spec => NoLostUpdate
  <1> DEFINE Accepted ==
          \A p \in PolicyIDs :
              policies[p] # None /\ policies'[p] # None /\ policies'[p] # policies[p] =>
                  \E a \in Principals :
                      /\ copies[a] # None
                      /\ copies[a].id = p
                      /\ \/ copies[a].doc = policies[p]
                         \/ copies[a].doc.born # policies[p].born
  <1>1. ServerInit => EditInv
    BY DEF ServerInit, Init, EditInv, BornLogged, CopyInv, ListPolicies
  <1>2. ServerInv /\ EditInv /\ [Next]_vars => EditInv'
    BY NextEditInv DEF ServerInv
  <1>3. ServerInv /\ EditInv /\ [Next]_vars => [Accepted]_vars
    <2> SUFFICES ASSUME ServerInv, EditInv, Next, NEW p \in PolicyIDs,
                        policies[p] # None, policies'[p] # None, policies'[p] # policies[p]
                 PROVE  \E a \in Principals :
                            /\ copies[a] # None
                            /\ copies[a].id = p
                            /\ \/ copies[a].doc = policies[p]
                               \/ copies[a].doc.born # policies[p].born
      OBVIOUS
    <2> USE DEF ServerInv, ServerTypeOK
    <2>1. ASSUME NEW a \in Principals, NEW b \in Bodies, updatePolicy(a, b)
          PROVE  /\ copies[a] # None
                 /\ copies[a].id = p
                 /\ \/ copies[a].doc = policies[p]
                    \/ copies[a].doc.born # policies[p].born
      <3>0. copies[a] # None /\ UpdatePolicy(a, copies[a].id, copies[a].doc.rev + 1, b)
        BY <2>1 DEF updatePolicy
      <3>1. copies[a] # None /\ copies[a].id = p
        BY <3>0 DEF UpdatePolicy, TypeOK
      <3>2. copies[a].doc.rev \in Nat
        BY <3>1 DEF Copy, Policy
      <3>3. RevisionFollows(p, copies[a].doc.rev + 1)
        BY <3>0, <3>1, Zenon DEF UpdatePolicy
      <3>4. policies[p].rev = copies[a].doc.rev /\ p \in ListPolicies
        BY <3>2, <3>3 DEF RevisionFollows, ListPolicies
      <3> QED
        BY <3>1, <3>2, <3>4 DEF EditInv, CopyInv
    <2>2. ASSUME NEW a \in Principals, NEW q \in PolicyIDs, NEW b \in Bodies,
                 createPolicy(a, q, b)
          PROVE  FALSE
      BY <2>2 DEF createPolicy, CreatePolicy, TypeOK
    <2>3. ASSUME NEW a \in Principals, NEW q \in PolicyIDs, deletePolicy(a, q) PROVE FALSE
      BY <2>3 DEF deletePolicy, DeletePolicy, TypeOK
    <2>4. \E a \in Principals :
              \/ \E q \in PolicyIDs, b \in Bodies : createPolicy(a, q, b)
              \/ \E q \in PolicyIDs : deletePolicy(a, q)
              \/ \E b \in Bodies : updatePolicy(a, b)
      BY DEF Next, DeviceAdmin, PolicyAdmin, Reads, Expiry, AgentNext, createEnrollmentToken,
             revokeDevice, assignDeviceGroup, assignGroupPolicy, unassignGroupPolicy,
             CreateEnrollmentToken, RevokeDevice, AssignDeviceGroup, AssignGroupPolicy,
             UnassignGroupPolicy, ExpireToken, Enroll, Heartbeat, RotateDeviceCredential,
             SyncReport, getPolicy, AbandonEdit, listDevices, listFindings, listAudit,
             listPolicies, getGroupPolicy, vars, storeVars
    <2> QED
      BY <2>1, <2>2, <2>3, <2>4
  <1> QED
    BY <1>1, <1>2, <1>3, ServerInvariance, PTL DEF Spec, NoLostUpdate

-----------------------------------------------------------------------------
(***************************************************************************)
(* The audit trail.  Rows and Open are AuditRows and Standing of a given   *)
(* trail.                                                                  *)
(***************************************************************************)
Rows(log, action, target, after) ==
    {k \in DOMAIN log : k > after /\ log[k].action = action /\ log[k].target = target}

Open(log, action, undo, target) ==
    {k \in Rows(log, action, target, 0) : Rows(log, undo, target, k) = {}}

Row == [actor : Principals, action : Actions, target : DeviceIDs \cup Groups \cup PolicyIDs]

\* A new row is the last one, and joins the rows of its kind.
LEMMA RowsOfAppend ==
    ASSUME NEW log \in Seq(Row), NEW row \in Row, NEW action, NEW target, NEW after \in Nat
    PROVE  LET n == Len(log) + 1
           IN Rows(Append(log, row), action, target, after)
                  = IF row.action = action /\ row.target = target /\ n > after
                    THEN Rows(log, action, target, after) \cup {n}
                    ELSE Rows(log, action, target, after)
  <1> DEFINE new == Append(log, row)
             n == Len(log) + 1
  <1>1. DOMAIN log = 1 .. Len(log) /\ DOMAIN new = 1 .. n /\ Len(log) \in Nat
    OBVIOUS
  <1>2. new[n] = row /\ \A k \in DOMAIN log : new[k] = log[k]
    OBVIOUS
  <1> HIDE DEF new
  <1>3. \A k : k \in Rows(new, action, target, after) <=>
                 \/ k \in Rows(log, action, target, after)
                 \/ k = n /\ n > after /\ row.action = action /\ row.target = target
    <2> SUFFICES ASSUME NEW k
                 PROVE  k \in Rows(new, action, target, after) <=>
                           \/ k \in Rows(log, action, target, after)
                           \/ k = n /\ n > after /\ row.action = action /\ row.target = target
      OBVIOUS
    <2>1. CASE k = n
      BY <1>1, <1>2, <2>1 DEF Rows
    <2>2. CASE k # n
      <3>1. k \in DOMAIN new <=> k \in DOMAIN log
        BY <1>1, <2>2
      <3> QED
        BY <1>2, <2>2, <3>1 DEF Rows
    <2> QED
      BY <2>1, <2>2
  <1> QED
    BY <1>3 DEF new

\* The rows of a kind are finite many and none is beyond the trail.
LEMMA RowsFinite ==
    ASSUME NEW log \in Seq(Row), NEW action, NEW target, NEW after
    PROVE  /\ IsFiniteSet(Rows(log, action, target, after))
           /\ Cardinality(Rows(log, action, target, after)) \in Nat
           /\ \A k \in Rows(log, action, target, after) : k \in Nat \ {0} /\ k <= Len(log)
  <1>1. Len(log) \in Nat /\ Rows(log, action, target, after) \subseteq 1 .. Len(log)
    BY DEF Rows
  <1>2. IsFiniteSet(1 .. Len(log))
    BY <1>1, FS_Interval
  <1>3. IsFiniteSet(Rows(log, action, target, after))
    BY <1>1, <1>2, FS_Subset
  <1> QED
    BY <1>1, <1>3, FS_CardinalityType

RevocationsLogged ==
    \A d \in DeviceIDs :
        Cardinality(Rows(audit, "device.revoke", d, 0))
            = IF Enrolled(d) /\ devices[d].revoked THEN 1 ELSE 0

PolicyLogged(p) ==
    IF p \notin ListPolicies
    THEN Open(audit, "policy.create", "policy.delete", p) = {}
    ELSE /\ Open(audit, "policy.create", "policy.delete", p) = {policies[p].born}
         /\ policies[p].rev
                = 1 + Cardinality(Rows(audit, "policy.update", p, policies[p].born))

AssignmentsLogged ==
    \A g \in Groups :
        assigned[g] # None <=> Open(audit, "group.policy.assign", "group.policy.remove", g) # {}

TokensLogged ==
    \A g \in Groups :
        /\ IsFiniteSet({t \in TokenIDs : tokens[t].group = g})
        /\ Cardinality(Rows(audit, "enrollment_token.create", g, 0))
               = Cardinality({t \in TokenIDs : tokens[t].group = g})

AuditInv ==
    /\ RevocationsLogged
    /\ \A p \in PolicyIDs : PolicyLogged(p)
    /\ AssignmentsLogged
    /\ TokensLogged

LEMMA AuditInvSuffices == AuditInv => AuditAccountsForState
  <1>1. \A action, target, after :
            AuditRows(action, target, after) = Rows(audit, action, target, after)
    BY DEF AuditRows, ListAudit, Rows
  <1>2. \A action, undo, target :
            Standing(action, undo, target) = Open(audit, action, undo, target)
    BY <1>1 DEF Standing, Open
  <1> SUFFICES ASSUME AuditInv PROVE AuditAccountsForState
    OBVIOUS
  <1>3. \A d \in DeviceIDs :
            Cardinality(AuditRows("device.revoke", d, 0))
                = IF Enrolled(d) /\ devices[d].revoked THEN 1 ELSE 0
    BY <1>1 DEF AuditInv, RevocationsLogged
  <1>4. \A p \in PolicyIDs :
            LET created == Standing("policy.create", "policy.delete", p)
            IN IF p \notin ListPolicies
               THEN created = {}
               ELSE /\ created = {policies[p].born}
                    /\ policies[p].rev
                           = 1 + Cardinality(AuditRows("policy.update", p, policies[p].born))
    BY <1>1, <1>2 DEF AuditInv, PolicyLogged
  <1>5. \A g \in Groups :
            /\ assigned[g] # None <=>
                   Standing("group.policy.assign", "group.policy.remove", g) # {}
            /\ Cardinality(AuditRows("enrollment_token.create", g, 0))
                   = Cardinality({t \in TokenIDs : tokens[t].group = g})
    BY <1>1, <1>2 DEF AuditInv, AssignmentsLogged, TokensLogged
  <1> QED
    BY <1>3, <1>4, <1>5 DEF AuditAccountsForState

\* What appendAudit does to the rows of every kind.
LEMMA LogOne ==
    ASSUME TypeOK, NEW a \in Principals, NEW act \in Actions,
           NEW tgt \in DeviceIDs \cup Groups \cup PolicyIDs, AppendAudit(a, act, tgt)
    PROVE  /\ audit \in Seq(Row) /\ Len(audit) \in Nat
           /\ \A x, y : \A after \in Nat :
                 Rows(audit', x, y, after)
                     = IF act = x /\ tgt = y /\ Len(audit) + 1 > after
                       THEN Rows(audit, x, y, after) \cup {Len(audit) + 1}
                       ELSE Rows(audit, x, y, after)
  <1> DEFINE row == [actor |-> a, action |-> act, target |-> tgt]
  <1>1. audit \in Seq(Row) /\ Len(audit) \in Nat /\ row \in Row /\ audit' = Append(audit, row)
    BY DEF TypeOK, Row, AppendAudit
  <1>2. row.action = act /\ row.target = tgt
    OBVIOUS
  <1> HIDE DEF row
  <1>3. ASSUME NEW x, NEW y, NEW after \in Nat
        PROVE  Rows(Append(audit, row), x, y, after)
                   = IF row.action = x /\ row.target = y /\ Len(audit) + 1 > after
                     THEN Rows(audit, x, y, after) \cup {Len(audit) + 1}
                     ELSE Rows(audit, x, y, after)
    BY <1>1, RowsOfAppend
  <1> QED
    BY <1>1, <1>2, <1>3

\* The rows of one kind when a row of another kind, or of another target, is added.
LEMMA OtherKind ==
    ASSUME TypeOK, NEW a \in Principals, NEW act \in Actions,
           NEW tgt \in DeviceIDs \cup Groups \cup PolicyIDs, AppendAudit(a, act, tgt),
           NEW x, NEW y, act # x \/ tgt # y
    PROVE  \A after \in Nat : Rows(audit', x, y, after) = Rows(audit, x, y, after)
  BY LogOne

\* The rows that stand when a row of their kind is added ...
LEMMA OpenAdded ==
    ASSUME TypeOK, NEW a \in Principals, NEW act \in Actions,
           NEW tgt \in DeviceIDs \cup Groups \cup PolicyIDs, AppendAudit(a, act, tgt),
           NEW undo, undo # act
    PROVE  Open(audit', act, undo, tgt) = Open(audit, act, undo, tgt) \cup {Len(audit) + 1}
  <1>1. audit \in Seq(Row) /\ Len(audit) \in Nat
    BY LogOne
  <1>2. Rows(audit', act, tgt, 0) = Rows(audit, act, tgt, 0) \cup {Len(audit) + 1}
    BY <1>1, LogOne
  <1>3. \A after \in Nat : Rows(audit', undo, tgt, after) = Rows(audit, undo, tgt, after)
    BY OtherKind
  <1>4. Rows(audit, undo, tgt, Len(audit) + 1) = {}
    BY <1>1 DEF Rows
  <1>5. \A k \in Rows(audit, act, tgt, 0) : k \in Nat
    BY <1>1, RowsFinite
  <1> QED
    BY <1>1, <1>2, <1>3, <1>4, <1>5 DEF Open

\* ... and when one is added that undoes them all.
LEMMA OpenUndone ==
    ASSUME TypeOK, NEW a \in Principals, NEW act \in Actions,
           NEW tgt \in DeviceIDs \cup Groups \cup PolicyIDs, AppendAudit(a, act, tgt),
           NEW done, done # act
    PROVE  Open(audit', done, act, tgt) = {}
  <1>1. audit \in Seq(Row) /\ Len(audit) \in Nat
    BY LogOne
  <1>2. Rows(audit', done, tgt, 0) = Rows(audit, done, tgt, 0)
    BY OtherKind
  <1>3. \A k \in Rows(audit, done, tgt, 0) : k \in Nat /\ Len(audit) + 1 > k
    BY <1>1, RowsFinite
  <1>4. ASSUME NEW k \in Rows(audit, done, tgt, 0) PROVE Rows(audit', act, tgt, k) # {}
    <2>1. k \in Nat /\ Len(audit) + 1 > k
      BY <1>3
    <2>2. Rows(audit', act, tgt, k) = Rows(audit, act, tgt, k) \cup {Len(audit) + 1}
      BY <2>1, LogOne
    <2> QED
      BY <2>2
  <1> QED
    BY <1>2, <1>4 DEF Open

\* Rows of other kinds leave them alone.
LEMMA OpenKept ==
    ASSUME TypeOK, NEW a \in Principals, NEW act \in Actions,
           NEW tgt \in DeviceIDs \cup Groups \cup PolicyIDs, AppendAudit(a, act, tgt),
           NEW x, NEW undo, NEW y, tgt # y \/ act \notin {x, undo}
    PROVE  Open(audit', x, undo, y) = Open(audit, x, undo, y)
  <1>1. audit \in Seq(Row)
    BY LogOne
  <1>2. \A after \in Nat : /\ Rows(audit', x, y, after) = Rows(audit, x, y, after)
                           /\ Rows(audit', undo, y, after) = Rows(audit, undo, y, after)
    BY OtherKind
  <1>3. \A k \in Rows(audit, x, y, 0) : k \in Nat
    BY <1>1, RowsFinite
  <1> QED
    BY <1>2, <1>3 DEF Open

\* One row more.
LEMMA CountAdded ==
    ASSUME TypeOK, NEW a \in Principals, NEW act \in Actions,
           NEW tgt \in DeviceIDs \cup Groups \cup PolicyIDs, AppendAudit(a, act, tgt),
           NEW after \in Nat, after <= Len(audit)
    PROVE  Cardinality(Rows(audit', act, tgt, after))
               = Cardinality(Rows(audit, act, tgt, after)) + 1
  <1>1. audit \in Seq(Row) /\ Len(audit) \in Nat
    BY LogOne
  <1>2. Rows(audit', act, tgt, after) = Rows(audit, act, tgt, after) \cup {Len(audit) + 1}
    BY <1>1, LogOne
  <1>3. IsFiniteSet(Rows(audit, act, tgt, after)) /\ Len(audit) + 1 \notin Rows(audit, act, tgt, after)
    BY <1>1, RowsFinite
  <1> QED
    BY <1>2, <1>3, FS_AddElement

LEMMA StoreRevocationsLogged ==
    ASSUME TypeOK, RevocationsLogged, StoreStep PROVE RevocationsLogged'
  <1> USE DEF RevocationsLogged, Enrolled
  <1>1. ASSUME NEW a \in Principals, NEW d \in DeviceIDs, RevokeDevice(a, d)
        PROVE  RevocationsLogged'
    <2>0. /\ devices[d] \in Device /\ ~devices[d].revoked
          /\ devices' = [devices EXCEPT ![d] = [devices[d] EXCEPT !.revoked = TRUE]]
          /\ AppendAudit(a, "device.revoke", d) /\ "device.revoke" \in Actions
      BY <1>1 DEF RevokeDevice, Active, TypeOK, Actions
    <2> SUFFICES ASSUME NEW c \in DeviceIDs
                 PROVE  Cardinality(Rows(audit', "device.revoke", c, 0))
                            = IF devices'[c] # None /\ devices'[c].revoked THEN 1 ELSE 0
      OBVIOUS
    <2>1. CASE c = d
      <3>1. devices'[d] \in Device /\ devices'[d].revoked
        <4> DEFINE new == [devices[d] EXCEPT !.revoked = TRUE]
        <4>1. new \in Device /\ new.revoked
          BY <2>0 DEF Device
        <4>2. devices'[d] = new
          BY <2>0 DEF TypeOK
        <4> QED
          BY <4>1, <4>2
      <3>2. Len(audit) \in Nat /\ Cardinality(Rows(audit, "device.revoke", d, 0)) = 0
        BY <2>0 DEF TypeOK
      <3>3. Cardinality(Rows(audit', "device.revoke", d, 0)) = 0 + 1
        BY <2>0, <3>2, CountAdded
      <3> QED
        BY <2>1, <3>1, <3>3, NoneAssumption
    <2>2. CASE c # d
      <3>1. devices'[c] = devices[c]
        BY <2>0, <2>2 DEF TypeOK
      <3>2. Rows(audit', "device.revoke", c, 0) = Rows(audit, "device.revoke", c, 0)
        BY <2>0, <2>2, OtherKind
      <3> QED
        BY <3>1, <3>2
    <2> QED
      BY <2>1, <2>2
  \* No other transaction writes such a row or changes who is revoked.
  <1>2. ASSUME \A d \in DeviceIDs : /\ Rows(audit', "device.revoke", d, 0)
                                          = Rows(audit, "device.revoke", d, 0)
                                    /\ devices'[d] # None /\ devices'[d].revoked
                                          <=> devices[d] # None /\ devices[d].revoked
        PROVE  RevocationsLogged'
    BY <1>2
  <1>3. ASSUME NEW a \in Principals, NEW act \in Actions \ {"device.revoke"},
               NEW tgt \in DeviceIDs \cup Groups \cup PolicyIDs, AppendAudit(a, act, tgt)
        PROVE  \A d \in DeviceIDs :
                   Rows(audit', "device.revoke", d, 0) = Rows(audit, "device.revoke", d, 0)
    BY <1>3, OtherKind
  <1>4. ASSUME NEW a \in Principals, NEW d \in DeviceIDs, NEW g \in Groups,
               AssignDeviceGroup(a, d, g)
        PROVE  RevocationsLogged'
    <2>1. devices[d] \in Device /\ [devices[d] EXCEPT !.group = g] \in Device
          /\ [devices[d] EXCEPT !.group = g].revoked = devices[d].revoked
      BY <1>4 DEF AssignDeviceGroup, TypeOK, Device
    <2>2. devices' = [devices EXCEPT ![d] = [devices[d] EXCEPT !.group = g]]
      BY <1>4 DEF AssignDeviceGroup
    <2>3. \A c \in DeviceIDs : devices'[c] # None /\ devices'[c].revoked
                                  <=> devices[c] # None /\ devices[c].revoked
      BY <2>1, <2>2, NoneAssumption DEF TypeOK
    <2>4. AppendAudit(a, "device.group.assign", d)
      BY <1>4 DEF AssignDeviceGroup
    <2> QED
      BY <1>2, <1>3, <2>3, <2>4 DEF Actions
  <1>5. ASSUME NEW d \in DeviceIDs, NEW m \in Metadata, Heartbeat(d, m) PROVE RevocationsLogged'
    <2>1. devices[d] \in Device /\ [devices[d] EXCEPT !.meta = m] \in Device
          /\ [devices[d] EXCEPT !.meta = m].revoked = devices[d].revoked
      BY <1>5 DEF Heartbeat, Active, TypeOK, Device
    <2>2. devices' = [devices EXCEPT ![d] = [devices[d] EXCEPT !.meta = m]] /\ audit' = audit
      BY <1>5 DEF Heartbeat
    <2>3. \A c \in DeviceIDs : devices'[c] # None /\ devices'[c].revoked
                                  <=> devices[c] # None /\ devices[c].revoked
      BY <2>1, <2>2, NoneAssumption DEF TypeOK
    <2> QED
      BY <1>2, <2>2, <2>3
  <1>6. ASSUME NEW d \in DeviceIDs, RotateDeviceCredential(d) PROVE RevocationsLogged'
    <2>1. devices[d] \in Device /\ [devices[d] EXCEPT !.cred = minted + 1] \in Device
          /\ [devices[d] EXCEPT !.cred = minted + 1].revoked = devices[d].revoked
      <3>1. devices[d] \in Device /\ minted + 1 \in Nat
        BY <1>6 DEF RotateDeviceCredential, Active, TypeOK
      <3> QED
        BY <3>1 DEF Device
    <2>2. /\ devices' = [devices EXCEPT ![d] = [devices[d] EXCEPT !.cred = minted + 1]]
          /\ audit' = audit
      BY <1>6 DEF RotateDeviceCredential
    <2>3. \A c \in DeviceIDs : devices'[c] # None /\ devices'[c].revoked
                                  <=> devices[c] # None /\ devices[c].revoked
      BY <2>1, <2>2, NoneAssumption DEF TypeOK
    <2> QED
      BY <1>2, <2>2, <2>3
  <1>7. ASSUME NEW t \in TokenIDs, NEW d \in DeviceIDs, NEW m \in Metadata, Enroll(t, d, m)
        PROVE  RevocationsLogged'
    <2>1. /\ devices[d] = None /\ audit' = audit
          /\ devices' = [devices EXCEPT ![d] = [cred |-> minted + 1, group |-> tokens[t].group,
                                                meta |-> m, revoked |-> FALSE]]
      BY <1>7 DEF Enroll
    <2>2. \A c \in DeviceIDs : devices'[c] # None /\ devices'[c].revoked
                                  <=> devices[c] # None /\ devices[c].revoked
      BY <2>1 DEF TypeOK
    <2> QED
      BY <1>2, <2>1, <2>2
  <1>8. ASSUME NEW a \in Principals, AdminStep(a), UNCHANGED devices,
               ~\E d \in DeviceIDs : RevokeDevice(a, d)
        PROVE  RevocationsLogged'
    <2>1. \E act \in Actions \ {"device.revoke"}, tgt \in DeviceIDs \cup Groups \cup PolicyIDs :
              AppendAudit(a, act, tgt)
      BY <1>8 DEF AdminStep, CreateEnrollmentToken, AssignDeviceGroup, CreatePolicy, UpdatePolicy,
         DeletePolicy, AssignGroupPolicy, UnassignGroupPolicy, Actions
    <2> QED
      BY <1>2, <1>3, <1>8, <2>1
  <1>9. CASE UNCHANGED <<devices, audit>>
    BY <1>2, <1>9
  <1> QED
    BY <1>1, <1>4, <1>5, <1>6, <1>7, <1>8, <1>9
    DEF StoreStep, AdminStep, AgentStep, CreateEnrollmentToken, CreatePolicy, UpdatePolicy,
        DeletePolicy, AssignGroupPolicy, UnassignGroupPolicy, ExpireToken, SyncReport

LEMMA StorePoliciesLogged ==
    ASSUME TypeOK, NEW p \in PolicyIDs, PolicyLogged(p), StoreStep PROVE PolicyLogged(p)'
  <1> DEFINE Kinds == {"policy.create", "policy.update", "policy.delete"}
  <1>0. policies[p] # None => policies[p].born \in Nat /\ policies[p].rev \in Nat
    BY DEF TypeOK, Policy
  \* Rows about other things, and rows about other policies.
  <1>1. ASSUME NEW a \in Principals, NEW act \in Actions,
               NEW tgt \in DeviceIDs \cup Groups \cup PolicyIDs, AppendAudit(a, act, tgt),
               act \notin Kinds \/ tgt # p, policies'[p] = policies[p]
        PROVE  PolicyLogged(p)'
    <2>1. Open(audit', "policy.create", "policy.delete", p)
              = Open(audit, "policy.create", "policy.delete", p)
      BY <1>1, OpenKept
    <2>2. policies[p] # None =>
              Rows(audit', "policy.update", p, policies[p].born)
                  = Rows(audit, "policy.update", p, policies[p].born)
      BY <1>0, <1>1, OtherKind
    <2> QED
      BY <1>1, <2>1, <2>2 DEF PolicyLogged, ListPolicies
  <1>2. ASSUME NEW a \in Principals, NEW q \in PolicyIDs, NEW b \in Bodies, CreatePolicy(a, q, b)
        PROVE  PolicyLogged(p)'
    <2>0. /\ policies[q] = None /\ AppendAudit(a, "policy.create", q)
          /\ "policy.create" \in Actions
          /\ policies' = [policies EXCEPT ![q] = [rev |-> 1, body |-> b, born |-> Len(audit) + 1]]
      BY <1>2 DEF CreatePolicy, Actions
    <2>1. CASE p # q
      BY <1>1, <2>0, <2>1 DEF TypeOK
    <2>2. CASE p = q
      <3> DEFINE new == [rev |-> 1, body |-> b, born |-> Len(audit) + 1]
      <3>1. audit \in Seq(Row) /\ Len(audit) \in Nat
        BY <2>0, LogOne
      <3>2. policies'[p] = new /\ new \in Policy /\ new.rev = 1 /\ new.born = Len(audit) + 1
        BY <2>0, <2>2, <3>1 DEF TypeOK, Policy
      <3> HIDE DEF new
      <3>3. p \in ListPolicies'
        BY <3>2, NoneAssumption DEF ListPolicies
      <3>4. Open(audit, "policy.create", "policy.delete", p) = {}
        BY <2>0, <2>2 DEF PolicyLogged, ListPolicies
      <3>5. Open(audit', "policy.create", "policy.delete", p) = {Len(audit) + 1}
        BY <2>0, <2>2, <3>4, OpenAdded
      <3>6. Rows(audit', "policy.update", p, Len(audit) + 1)
                = Rows(audit, "policy.update", p, Len(audit) + 1)
        BY <2>0, <2>2, <3>1, OtherKind
      <3>7. Rows(audit, "policy.update", p, Len(audit) + 1) = {}
        BY <3>1 DEF Rows
      <3>8. Cardinality(Rows(audit', "policy.update", p, Len(audit) + 1)) = 0
        BY <3>6, <3>7, FS_EmptySet
      <3> QED
        BY <3>2, <3>3, <3>5, <3>8 DEF PolicyLogged
    <2> QED
      BY <2>1, <2>2
  <1>3. ASSUME NEW a \in Principals, NEW q \in PolicyIDs, NEW rev \in Nat, NEW b \in Bodies,
               UpdatePolicy(a, q, rev, b)
        PROVE  PolicyLogged(p)'
    <2> DEFINE new == [policies[q] EXCEPT !.rev = rev, !.body = b]
    <2>0. /\ RevisionFollows(q, rev) /\ policies' = [policies EXCEPT ![q] = new]
          /\ AppendAudit(a, "policy.update", q) /\ "policy.update" \in Actions
      BY <1>3 DEF UpdatePolicy, Actions
    <2>1. CASE p # q
      BY <1>1, <2>0, <2>1 DEF TypeOK
    <2>2. CASE p = q
      <3>1. policies[p] \in Policy /\ policies[p].rev = rev - 1 /\ p \in ListPolicies
        BY <2>0, <2>2 DEF RevisionFollows, TypeOK, ListPolicies
      <3>2. new \in Policy /\ new.rev = rev /\ new.born = policies[p].born
        <4>1. rev \in Nat \ {0}
          BY <3>1 DEF Policy
        <4> QED
          BY <2>2, <3>1, <4>1 DEF Policy
      <3>3. policies'[p] = new
        BY <2>0, <2>2 DEF TypeOK
      <3> HIDE DEF new
      <3>4. p \in ListPolicies'
        BY <3>2, <3>3, NoneAssumption DEF ListPolicies
      <3>5. Open(audit, "policy.create", "policy.delete", p) = {policies[p].born}
        BY <3>1 DEF PolicyLogged
      <3>6. Open(audit', "policy.create", "policy.delete", p) = {policies[p].born}
        BY <2>0, <2>2, <3>5, OpenKept
      <3>7. policies[p].born \in Nat /\ policies[p].born <= Len(audit)
        <4>1. audit \in Seq(Row)
          BY <2>0, LogOne
        <4>2. policies[p].born \in Rows(audit, "policy.create", p, 0)
          BY <3>5 DEF Open
        <4> QED
          BY <4>1, <4>2, RowsFinite
      <3>8. Cardinality(Rows(audit', "policy.update", p, policies[p].born))
                = Cardinality(Rows(audit, "policy.update", p, policies[p].born)) + 1
        BY <2>0, <2>2, <3>7, CountAdded
      <3>9. /\ policies[p].rev = 1 + Cardinality(Rows(audit, "policy.update", p, policies[p].born))
            /\ Cardinality(Rows(audit, "policy.update", p, policies[p].born)) \in Nat
        <4>1. audit \in Seq(Row)
          BY <2>0, LogOne
        <4> QED
          BY <3>1, <4>1, RowsFinite DEF PolicyLogged
      <3>10. rev = 1 + Cardinality(Rows(audit', "policy.update", p, policies[p].born))
        BY <3>1, <3>8, <3>9
      <3> QED
        BY <3>2, <3>3, <3>4, <3>6, <3>10 DEF PolicyLogged
    <2> QED
      BY <2>1, <2>2
  <1>4. ASSUME NEW a \in Principals, NEW q \in PolicyIDs, DeletePolicy(a, q)
        PROVE  PolicyLogged(p)'
    <2>0. /\ policies' = [policies EXCEPT ![q] = None]
          /\ AppendAudit(a, "policy.delete", q) /\ "policy.delete" \in Actions
      BY <1>4 DEF DeletePolicy, Actions
    <2>1. CASE p # q
      BY <1>1, <2>0, <2>1 DEF TypeOK
    <2>2. CASE p = q
      <3>1. p \notin ListPolicies'
        BY <2>0, <2>2 DEF ListPolicies, TypeOK
      <3>2. Open(audit', "policy.create", "policy.delete", p) = {}
        BY <2>0, <2>2, OpenUndone
      <3> QED
        BY <3>1, <3>2 DEF PolicyLogged
    <2> QED
      BY <2>1, <2>2
  <1>5. ASSUME NEW a \in Principals, AdminStep(a), policies' = policies,
               \A q \in PolicyIDs : ~DeletePolicy(a, q),
               \A q \in PolicyIDs, b \in Bodies : ~CreatePolicy(a, q, b),
               \A q \in PolicyIDs, rev \in Nat, b \in Bodies : ~UpdatePolicy(a, q, rev, b)
        PROVE  PolicyLogged(p)'
    <2>1. \E act \in Actions \ Kinds, tgt \in DeviceIDs \cup Groups \cup PolicyIDs :
              AppendAudit(a, act, tgt)
      BY <1>5 DEF AdminStep, CreateEnrollmentToken, RevokeDevice, AssignDeviceGroup,
         AssignGroupPolicy, UnassignGroupPolicy, Actions
    <2> QED
      BY <1>1, <1>5, <2>1
  <1>6. CASE UNCHANGED <<policies, audit>>
    BY <1>6 DEF PolicyLogged, ListPolicies
  <1> QED
    BY <1>2, <1>3, <1>4, <1>5, <1>6
    DEF StoreStep, AdminStep, AgentStep, CreateEnrollmentToken, RevokeDevice, AssignDeviceGroup,
        AssignGroupPolicy, UnassignGroupPolicy, ExpireToken, Enroll, Heartbeat,
        RotateDeviceCredential, SyncReport

LEMMA StoreAssignmentsLogged ==
    ASSUME TypeOK, AssignmentsLogged, StoreStep PROVE AssignmentsLogged'
  <1> DEFINE Kinds == {"group.policy.assign", "group.policy.remove"}
             Left(log, g) == Open(log, "group.policy.assign", "group.policy.remove", g)
  <1>1. ASSUME NEW a \in Principals, NEW act \in Actions \ Kinds,
               NEW tgt \in DeviceIDs \cup Groups \cup PolicyIDs, AppendAudit(a, act, tgt),
               assigned' = assigned
        PROVE  AssignmentsLogged'
    <2>1. \A g \in Groups : Left(audit', g) = Left(audit, g)
      BY <1>1, OpenKept
    <2> QED
      BY <1>1, <2>1 DEF AssignmentsLogged
  <1>2. ASSUME NEW a \in Principals, NEW g \in Groups, NEW p \in PolicyIDs,
               AssignGroupPolicy(a, g, p)
        PROVE  AssignmentsLogged'
    <2>0. /\ assigned' = [assigned EXCEPT ![g] = p] /\ p # None
          /\ AppendAudit(a, "group.policy.assign", g) /\ "group.policy.assign" \in Actions
      BY <1>2, NoneAssumption DEF AssignGroupPolicy, Actions
    <2>1. Left(audit', g) # {} /\ assigned'[g] # None
      <3>1. Left(audit', g) = Left(audit, g) \cup {Len(audit) + 1}
        BY <2>0, OpenAdded
      <3> QED
        BY <2>0, <3>1 DEF TypeOK
    <2>2. \A h \in Groups \ {g} : Left(audit', h) = Left(audit, h) /\ assigned'[h] = assigned[h]
      BY <2>0, OpenKept DEF TypeOK
    <2> QED
      BY <2>1, <2>2 DEF AssignmentsLogged
  <1>3. ASSUME NEW a \in Principals, NEW g \in Groups, UnassignGroupPolicy(a, g)
        PROVE  AssignmentsLogged'
    <2>0. /\ assigned' = [assigned EXCEPT ![g] = None]
          /\ AppendAudit(a, "group.policy.remove", g) /\ "group.policy.remove" \in Actions
      BY <1>3 DEF UnassignGroupPolicy, Actions
    <2>1. Left(audit', g) = {} /\ assigned'[g] = None
      BY <2>0, OpenUndone DEF TypeOK
    <2>2. \A h \in Groups \ {g} : Left(audit', h) = Left(audit, h) /\ assigned'[h] = assigned[h]
      BY <2>0, OpenKept DEF TypeOK
    <2> QED
      BY <2>1, <2>2 DEF AssignmentsLogged
  <1>4. ASSUME NEW a \in Principals, AdminStep(a), assigned' = assigned,
               \A g \in Groups : ~UnassignGroupPolicy(a, g),
               \A g \in Groups, p \in PolicyIDs : ~AssignGroupPolicy(a, g, p)
        PROVE  AssignmentsLogged'
    <2>1. \E act \in Actions \ Kinds, tgt \in DeviceIDs \cup Groups \cup PolicyIDs :
              AppendAudit(a, act, tgt)
      BY <1>4 DEF AdminStep, CreateEnrollmentToken, RevokeDevice, AssignDeviceGroup,
         CreatePolicy, UpdatePolicy, DeletePolicy, Actions
    <2> QED
      BY <1>1, <1>4, <2>1
  <1>5. CASE UNCHANGED <<assigned, audit>>
    BY <1>5 DEF AssignmentsLogged
  <1> QED
    BY <1>2, <1>3, <1>4, <1>5
    DEF StoreStep, AdminStep, AgentStep, CreateEnrollmentToken, RevokeDevice, AssignDeviceGroup,
        CreatePolicy, UpdatePolicy, DeletePolicy, ExpireToken, Enroll, Heartbeat,
        RotateDeviceCredential, SyncReport

LEMMA StoreTokensLogged ==
    ASSUME TypeOK, TokensLogged, StoreStep PROVE TokensLogged'
  <1> DEFINE Kind == "enrollment_token.create"
             Holders(tab, g) == {t \in TokenIDs : tab[t].group = g}
  <1>1. ASSUME \A g \in Groups : /\ Rows(audit', Kind, g, 0) = Rows(audit, Kind, g, 0)
                                 /\ Holders(tokens', g) = Holders(tokens, g)
        PROVE  TokensLogged'
    BY <1>1 DEF TokensLogged
  <1>2. ASSUME NEW a \in Principals, NEW t \in TokenIDs, NEW g \in Groups,
               CreateEnrollmentToken(a, t, g)
        PROVE  TokensLogged'
    <2> DEFINE new == [st |-> "open", group |-> g, by |-> None]
    <2>0. /\ tokens[t] = NoToken /\ tokens' = [tokens EXCEPT ![t] = new]
          /\ AppendAudit(a, Kind, g) /\ Kind \in Actions
      BY <1>2 DEF CreateEnrollmentToken, Actions
    <2>1. tokens'[t].group = g /\ tokens[t].group = None
          /\ \A s \in TokenIDs \ {t} : tokens'[s] = tokens[s]
      BY <2>0 DEF TypeOK, NoToken
    <2>2. Holders(tokens', g) = Holders(tokens, g) \cup {t} /\ t \notin Holders(tokens, g)
      BY <2>1, NoneAssumption
    <2>3. \A h \in Groups \ {g} : Holders(tokens', h) = Holders(tokens, h)
      BY <2>1, NoneAssumption
    <2>4. /\ IsFiniteSet(Holders(tokens', g))
          /\ Cardinality(Holders(tokens', g)) = Cardinality(Holders(tokens, g)) + 1
      BY <2>2, FS_AddElement DEF TokensLogged
    <2>5. Cardinality(Rows(audit', Kind, g, 0)) = Cardinality(Rows(audit, Kind, g, 0)) + 1
      <3>1. Len(audit) \in Nat
        BY DEF TypeOK
      <3> QED
        BY <2>0, <3>1, CountAdded
    <2>6. \A h \in Groups \ {g} : Rows(audit', Kind, h, 0) = Rows(audit, Kind, h, 0)
      BY <2>0, OtherKind
    <2> QED
      BY <2>3, <2>4, <2>5, <2>6 DEF TokensLogged
  <1>3. ASSUME NEW a \in Principals, AdminStep(a), tokens' = tokens,
               \A t \in TokenIDs, g \in Groups : ~CreateEnrollmentToken(a, t, g)
        PROVE  TokensLogged'
    <2>1. \E act \in Actions \ {Kind}, tgt \in DeviceIDs \cup Groups \cup PolicyIDs :
              AppendAudit(a, act, tgt)
      BY <1>3 DEF AdminStep, RevokeDevice, AssignDeviceGroup, CreatePolicy, UpdatePolicy,
         DeletePolicy, AssignGroupPolicy, UnassignGroupPolicy, Actions
    <2>2. \A g \in Groups : Rows(audit', Kind, g, 0) = Rows(audit, Kind, g, 0)
      BY <2>1, OtherKind
    <2> QED
      BY <1>1, <1>3, <2>2
  <1>4. ASSUME NEW t \in TokenIDs, ExpireToken(t) PROVE TokensLogged'
    <2>1. \A s \in TokenIDs : tokens'[s].group = tokens[s].group
      BY <1>4 DEF ExpireToken, TypeOK, Token
    <2> QED
      BY <1>1, <1>4, <2>1 DEF ExpireToken
  <1>5. ASSUME NEW t \in TokenIDs, NEW d \in DeviceIDs, NEW m \in Metadata, Enroll(t, d, m)
        PROVE  TokensLogged'
    <2>1. tokens' = [tokens EXCEPT ![t] = [tokens[t] EXCEPT !.st = "used", !.by = d]]
      BY <1>5 DEF Enroll
    <2>2. \A s \in TokenIDs : tokens'[s].group = tokens[s].group
      BY <2>1 DEF TypeOK, Token
    <2> QED
      BY <1>1, <1>5, <2>2 DEF Enroll
  <1>6. CASE UNCHANGED <<tokens, audit>>
    BY <1>1, <1>6
  <1> QED
    BY <1>2, <1>3, <1>4, <1>5, <1>6
    DEF StoreStep, AdminStep, AgentStep, RevokeDevice, AssignDeviceGroup, CreatePolicy,
        UpdatePolicy, DeletePolicy, AssignGroupPolicy, UnassignGroupPolicy, Heartbeat,
        RotateDeviceCredential, SyncReport

\* The audit trail accounts for the state after any number of changes by any
\* number of principals: no change is committed without its row, and no row
\* without its change.
THEOREM TrailAccountsForState == Spec => []AuditAccountsForState
  <1>1. ServerInit => AuditInv
    <2> SUFFICES ASSUME ServerInit PROVE AuditInv
      OBVIOUS
    <2>1. \A x, y, n : Rows(audit, x, y, n) = {}
      BY DEF ServerInit, Init, Rows
    <2>2. \A x, u, y : Open(audit, x, u, y) = {}
      BY <2>1 DEF Open
    <2>3. \A g \in Groups : {t \in TokenIDs : tokens[t].group = g} = {}
      BY NoneAssumption DEF ServerInit, Init, NoToken
    <2> QED
      BY <2>1, <2>2, <2>3, FS_EmptySet
      DEF ServerInit, Init, AuditInv, RevocationsLogged, PolicyLogged, AssignmentsLogged,
          TokensLogged, ListPolicies, Enrolled
  <1>2. ServerInv /\ AuditInv /\ [Next]_vars => AuditInv'
    <2> SUFFICES ASSUME ServerInv, AuditInv, [Next]_vars PROVE AuditInv'
      OBVIOUS
    <2>1. CASE StoreStep
      BY <2>1, StoreRevocationsLogged, StorePoliciesLogged, StoreAssignmentsLogged,
         StoreTokensLogged DEF AuditInv, ServerInv, ServerTypeOK
    <2>2. CASE UNCHANGED storeVars
      BY <2>2 DEF storeVars, AuditInv, RevocationsLogged, PolicyLogged, AssignmentsLogged,
         TokensLogged, ListPolicies, Enrolled
    <2> QED
      BY <2>1, <2>2, ServerSteps DEF ServerInv
  <1> QED
    BY <1>1, <1>2, ServerInvariance, AuditInvSuffices, PTL DEF Spec
=============================================================================
