-------------------------- MODULE ControllerServer --------------------------
(***************************************************************************)
(* The controller's admin API (internal/controller/server.go, auth.go):    *)
(* each handler is a role check and one store transaction; a request that  *)
(* is refused changes nothing.  The agents' requests are served here in    *)
(* one step; Fleet takes them apart.                                       *)
(***************************************************************************)
EXTENDS ControllerStore

CONSTANT RoleOf   \* RoleOf[a]: role of a in admins.json, None if not listed

ASSUME RoleAssumption ==
    RoleOf \in [Principals -> {"viewer", "operator", "admin", None}]

VARIABLE copies   \* copies[a]: the policy document a has read and edits

vars == <<storeVars, copies>>

Copy == [id : PolicyIDs, doc : Policy]

ASSUME CopyAssumption == None \notin Copy

-----------------------------------------------------------------------------
Rank(role) ==
    CASE role = "viewer" -> 1 [] role = "operator" -> 2 [] role = "admin" -> 3 [] OTHER -> 0

\* The token is the one of a principal of admins.json.
AuthenticateBearer(a) == RoleOf[a] # None

WithPrincipal(a, required) == AuthenticateBearer(a) /\ Rank(RoleOf[a]) >= Rank(required)

\* The role each route asks for.
routes ==
    [ createEnrollmentToken |-> "operator", listDevices |-> "viewer",
      revokeDevice |-> "admin", assignDeviceGroup |-> "operator",
      listFindings |-> "viewer", listAudit |-> "admin", listPolicies |-> "viewer",
      createPolicy |-> "operator", getPolicy |-> "viewer", updatePolicy |-> "operator",
      deletePolicy |-> "operator", getGroupPolicy |-> "viewer",
      assignGroupPolicy |-> "operator", unassignGroupPolicy |-> "operator" ]

createEnrollmentToken(a, t, g) ==
    /\ WithPrincipal(a, routes.createEnrollmentToken)
    /\ CreateEnrollmentToken(a, t, g)
    /\ UNCHANGED copies

revokeDevice(a, d) ==
    /\ WithPrincipal(a, routes.revokeDevice)
    /\ RevokeDevice(a, d)
    /\ UNCHANGED copies

assignDeviceGroup(a, d, g) ==
    /\ WithPrincipal(a, routes.assignDeviceGroup)
    /\ AssignDeviceGroup(a, d, g)
    /\ UNCHANGED copies

createPolicy(a, p, b) ==
    /\ WithPrincipal(a, routes.createPolicy)
    /\ CreatePolicy(a, p, b)
    /\ UNCHANGED copies

\* GET of a policy somebody is about to edit.
getPolicy(a, p) ==
    /\ WithPrincipal(a, routes.getPolicy)
    /\ copies[a] = None
    /\ GetPolicy(p) # None
    /\ copies' = [copies EXCEPT ![a] = [id |-> p, doc |-> GetPolicy(p)]]
    /\ UNCHANGED storeVars

\* PUT of the edited copy with the next revision number.
updatePolicy(a, b) ==
    /\ copies[a] # None
    /\ WithPrincipal(a, routes.updatePolicy)
    /\ copies[a].doc.rev < MaxRevision
    /\ UpdatePolicy(a, copies[a].id, copies[a].doc.rev + 1, b)
    /\ copies' = [copies EXCEPT ![a] = None]

\* The PUT is answered with a conflict, or the operator gives up.
AbandonEdit(a) ==
    /\ copies[a] # None
    /\ copies' = [copies EXCEPT ![a] = None]
    /\ UNCHANGED storeVars

deletePolicy(a, p) ==
    /\ WithPrincipal(a, routes.deletePolicy)
    /\ DeletePolicy(a, p)
    /\ UNCHANGED copies

assignGroupPolicy(a, g, p) ==
    /\ WithPrincipal(a, routes.assignGroupPolicy)
    /\ AssignGroupPolicy(a, g, p)
    /\ UNCHANGED copies

unassignGroupPolicy(a, g) ==
    /\ WithPrincipal(a, routes.unassignGroupPolicy)
    /\ UnassignGroupPolicy(a, g)
    /\ UNCHANGED copies

\* The list routes, and the policy of a group, change nothing.
listDevices(a) == WithPrincipal(a, routes.listDevices) /\ UNCHANGED vars
listFindings(a) == WithPrincipal(a, routes.listFindings) /\ UNCHANGED vars
listAudit(a) == WithPrincipal(a, routes.listAudit) /\ UNCHANGED vars
listPolicies(a) == WithPrincipal(a, routes.listPolicies) /\ UNCHANGED vars
getGroupPolicy(a) == WithPrincipal(a, routes.getGroupPolicy) /\ UNCHANGED vars

DeviceAdmin ==
    \E a \in Principals :
        \/ \E t \in TokenIDs, g \in Groups : createEnrollmentToken(a, t, g)
        \/ \E d \in DeviceIDs : revokeDevice(a, d)
        \/ \E d \in DeviceIDs, g \in Groups : assignDeviceGroup(a, d, g)
        \/ \E g \in Groups, p \in PolicyIDs : assignGroupPolicy(a, g, p)
        \/ \E g \in Groups : unassignGroupPolicy(a, g)

PolicyAdmin ==
    \E a \in Principals :
        \/ \E p \in PolicyIDs, b \in Bodies : createPolicy(a, p, b)
        \/ \E p \in PolicyIDs : getPolicy(a, p) \/ deletePolicy(a, p)
        \/ \E b \in Bodies : updatePolicy(a, b)
        \/ AbandonEdit(a)

Reads ==
    \E a \in Principals : \/ listDevices(a) \/ listFindings(a) \/ listPolicies(a)
                           \/ getGroupPolicy(a) \/ listAudit(a)

Expiry == \E t \in TokenIDs : ExpireToken(t) /\ UNCHANGED copies

AgentNext ==
    /\ \/ \E t \in TokenIDs, d \in DeviceIDs, m \in Metadata : Enroll(t, d, m)
       \/ \E d \in DeviceIDs, m \in Metadata : Heartbeat(d, m)
       \/ \E d \in DeviceIDs : RotateDeviceCredential(d)
       \/ \E d \in DeviceIDs, r \in Report : SyncReport(d, r)
    /\ UNCHANGED copies

ServerInit == Init /\ copies = [a \in Principals |-> None]

Next == DeviceAdmin \/ PolicyAdmin \/ Reads \/ Expiry \/ AgentNext

Spec == ServerInit /\ [][Next]_vars

-----------------------------------------------------------------------------
\* The types of the tables and of the copies being edited.
ServerTypeOK == TypeOK /\ copies \in [Principals -> Copy \cup {None}]

\* No lost update: an accepted edit is an edit of exactly the document it
\* replaces, content included, unless the policy was deleted and created anew
\* since it was read; of two operators that edit one revision, one is refused.
NoLostUpdate ==
    [][\A p \in PolicyIDs :
          policies[p] # None /\ policies'[p] # None /\ policies'[p] # policies[p] =>
              \E a \in Principals :
                  /\ copies[a] # None
                  /\ copies[a].id = p
                  /\ \/ copies[a].doc = policies[p]
                     \/ copies[a].doc.born # policies[p].born]_vars
=============================================================================
