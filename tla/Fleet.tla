-------------------------------- MODULE Fleet --------------------------------
(***************************************************************************)
(* Endpoints and the controller: enrollment, managed sync and credential   *)
(* rotation (internal/managed/client.go, state.go, sync.go) against the    *)
(* controller's HTTP handlers (internal/controller/server.go) and store.   *)
(*                                                                         *)
(* Several processes share an endpoint's state file without a lock.  Each  *)
(* reads it once and then makes its calls.  A call is authenticated in one *)
(* transaction and served in another.  A client that times out, or dies,   *)
(* leaves a request behind that the controller may still serve, much later *)
(* than the client's next ones, or may find cancelled.                     *)
(***************************************************************************)
EXTENDS ControllerServer

CONSTANTS
    Endpoints,
    Procs,            \* agent processes: enroll, managed sync, rotate
    HomeOf,           \* HomeOf[p]: the endpoint process p runs on
    LateSlots,        \* bound: requests given up by their client and not over
    ReportingBodies,  \* policy contents that enable reporting
    MaxTimeouts,      \* bound: calls given up
    MaxRotations      \* bound: rotations started

ASSUME HomeAssumption == HomeOf \in [Procs -> Endpoints]
ASSUME SlotsAssumption == Procs \cap LateSlots = {}
ASSUME ReportingAssumption == ReportingBodies \subseteq Bodies
ASSUME MetadataAssumption == Metadata # {}
ASSUME FleetBoundsAssumption == MaxTimeouts \in Nat /\ MaxRotations \in Nat

VARIABLES
    state,      \* state[e]: managed-enrollment.json of endpoint e, or None
    local,      \* local[e]: versions of e's findings in its journal
    req,        \* req[s]: the request in slot s: the one process s waits for,
                \* or one that was given up
    timeouts,
    rotations,
    disturbed   \* history: devices with a rotation whose answer was lost, or
                \* with two rotations at the same time

fleetVars == <<storeVars, copies, state, local, req, timeouts, rotations, disturbed>>
agentVars == <<state, local, req, timeouts, rotations, disturbed>>

Slots == Procs \cup LateSlots
Grant == [dev : DeviceIDs, cred : Nat]
Request ==
    [ op : {"enroll", "heartbeat", "policy", "report", "rotate"},
      stage : {"sent", "authed", "answered"},
      dev : DeviceIDs \cup {None}, cred : Nat, tok : TokenIDs \cup {None},
      meta : Metadata, report : Report, ans : Grant \cup Policy \cup {None} ]

ASSUME FleetNoneAssumption == None \notin Grant \cup Request

\* performJSON with the identity and the payload of the call.
Call(op, grant, tok, m, r) ==
    [ op |-> op, stage |-> "sent", dev |-> grant.dev, cred |-> grant.cred, tok |-> tok,
      meta |-> m, report |-> r, ans |-> None ]

Busy(s, op, stage) == req[s] # None /\ req[s].op = op /\ req[s].stage = stage

Holding(s) == [dev |-> req[s].dev, cred |-> req[s].cred]
Close(s) == req' = [req EXCEPT ![s] = None]

-----------------------------------------------------------------------------
(***************************************************************************)
(* The controller's agent routes                                           *)
(***************************************************************************)
\* The answer reaches the client that still waits for it.
Answer(s, ans) ==
    req' = [req EXCEPT ![s] = IF s \in Procs THEN [@ EXCEPT !.stage = "answered", !.ans = ans]
                              ELSE None]

\* withAgent: a transaction of its own, before the handler's.
Authenticate(s) ==
    /\ req[s] # None
    /\ req[s].op # "enroll"
    /\ req[s].stage = "sent"
    /\ IF AuthenticateDevice(req[s].dev, req[s].cred)
       THEN req' = [req EXCEPT ![s].stage = "authed"]
       ELSE Close(s)
    /\ UNCHANGED <<storeVars, copies, state, local, timeouts, rotations, disturbed>>

ServeEnroll(s) ==
    /\ Busy(s, "enroll", "sent")
    /\ \E d \in DeviceIDs : /\ Enroll(req[s].tok, d, req[s].meta)
                            /\ Answer(s, [dev |-> d, cred |-> minted'])
    /\ UNCHANGED <<copies, state, local, timeouts, rotations, disturbed>>

ServeHeartbeat(s) ==
    /\ Busy(s, "heartbeat", "authed")
    /\ Heartbeat(req[s].dev, req[s].meta)
    /\ Answer(s, None)
    /\ UNCHANGED <<copies, state, local, timeouts, rotations, disturbed>>

ServePolicy(s) ==
    /\ Busy(s, "policy", "authed")
    /\ PolicyForDevice(req[s].dev) # None
    /\ Answer(s, PolicyForDevice(req[s].dev))
    /\ UNCHANGED <<storeVars, copies, state, local, timeouts, rotations, disturbed>>

ServeReport(s) ==
    /\ Busy(s, "report", "authed")
    /\ SyncReport(req[s].dev, req[s].report)
    /\ Answer(s, None)
    /\ UNCHANGED <<copies, state, local, timeouts, rotations, disturbed>>

Rotating(s, d) == req[s] # None /\ req[s].op = "rotate" /\ req[s].dev = d /\ req[s].stage # "sent"

ServeRotate(s) ==
    /\ Busy(s, "rotate", "authed")
    /\ RotateDeviceCredential(req[s].dev)
    /\ Answer(s, [dev |-> req[s].dev, cred |-> minted'])
    /\ disturbed' = IF \E q \in Slots \ {s} : Rotating(q, req[s].dev)
                    THEN disturbed \cup {req[s].dev} ELSE disturbed
    /\ UNCHANGED <<copies, state, local, timeouts, rotations>>

\* An error answer: unknown token, revoked device, group without a policy.
Refuse(s) ==
    /\ req[s] # None
    /\ \/ req[s].op = "enroll" /\ req[s].stage = "sent" /\ ~OpenToken(req[s].tok)
       \/ req[s].stage = "authed" /\ ~Active(req[s].dev)
       \/ Busy(s, "policy", "authed") /\ PolicyForDevice(req[s].dev) = None
    /\ Close(s)
    /\ UNCHANGED <<storeVars, copies, state, local, timeouts, rotations, disturbed>>

\* The context of a request nobody waits for is cancelled before its statement.
CancelLate(s) ==
    /\ s \in LateSlots
    /\ req[s] # None
    /\ Close(s)
    /\ UNCHANGED <<storeVars, copies, state, local, timeouts, rotations, disturbed>>

Serve(s) ==
    \/ ServeEnroll(s)
    \/ ServeHeartbeat(s)
    \/ ServePolicy(s)
    \/ ServeReport(s)
    \/ ServeRotate(s)
    \/ Refuse(s)

-----------------------------------------------------------------------------
(***************************************************************************)
(* Agent processes                                                         *)
(***************************************************************************)
\* The journal's projection of the endpoint's findings changes.
Observe(e, k) ==
    /\ local[e][k] < MaxVersion
    /\ local' = [local EXCEPT ![e][k] = @ + 1]
    /\ UNCHANGED <<storeVars, copies, state, req, timeouts, rotations, disturbed>>

\* EnrollFromEnvironment up to its request: there must be no state file yet.
StartEnroll(p, t, m) ==
    /\ req[p] = None
    /\ state[HomeOf[p]] = None
    /\ tokens[t] # NoToken
    /\ req' = [req EXCEPT ![p] = Call("enroll", [dev |-> None, cred |-> 0], t, m, NoRows)]
    /\ UNCHANGED <<storeVars, copies, state, local, timeouts, rotations, disturbed>>

\* Variant: the state file is renamed into place.
InstallGrantOver(e, g) == state' = [state EXCEPT ![e] = g]

\* createState: Link fails when another process made the file meanwhile.
InstallGrant(e, g) ==
    state' = [state EXCEPT ![e] = IF @ = None THEN g ELSE @]

ReceiveGrant(p) ==
    /\ Busy(p, "enroll", "answered")
    /\ InstallGrant(HomeOf[p], req[p].ans)
    /\ Close(p)
    /\ UNCHANGED <<storeVars, copies, local, timeouts, rotations, disturbed>>

\* Open, and the first call of Sync.
StartSync(p, m) ==
    /\ req[p] = None
    /\ state[HomeOf[p]] # None
    /\ req' = [req EXCEPT ![p] = Call("heartbeat", state[HomeOf[p]], None, m, NoRows)]
    /\ UNCHANGED <<storeVars, copies, state, local, timeouts, rotations, disturbed>>

ReceiveHeartbeat(p) ==
    /\ Busy(p, "heartbeat", "answered")
    /\ req' = [req EXCEPT ![p] = Call("policy", Holding(p), None, req[p].meta, NoRows)]
    /\ UNCHANGED <<storeVars, copies, state, local, timeouts, rotations, disturbed>>

\* Variant: tells that there is a finding, never what became of it.
ReportOfSync(p) == [k \in Keys |-> IF local[HomeOf[p]][k] > 0 THEN 1 ELSE 0]

\* ListFindings and RedactFindings: the whole projection.
CurrentReport(p) == local[HomeOf[p]]

\* The policy is persisted (PolicyCache); the report follows when it says so.
ReceivePolicy(p) ==
    /\ Busy(p, "policy", "answered")
    /\ req' = [req EXCEPT ![p] =
                  IF @.ans.body \in ReportingBodies
                  THEN Call("report", Holding(p), None, @.meta, CurrentReport(p))
                  ELSE None]
    /\ UNCHANGED <<storeVars, copies, state, local, timeouts, rotations, disturbed>>

\* persistVerifiedPolicy fails: the update lock is taken, or a write failed.
PersistFails(p) ==
    /\ Busy(p, "policy", "answered")
    /\ Close(p)
    /\ UNCHANGED <<storeVars, copies, state, local, timeouts, rotations, disturbed>>

ReceiveAccepted(p) ==
    /\ Busy(p, "report", "answered")
    /\ Close(p)
    /\ UNCHANGED <<storeVars, copies, state, local, timeouts, rotations, disturbed>>

StartRotate(p) ==
    /\ req[p] = None
    /\ state[HomeOf[p]] # None
    /\ rotations < MaxRotations
    /\ rotations' = rotations + 1
    /\ req' = [req EXCEPT ![p] = Call("rotate", state[HomeOf[p]], None,
                                      CHOOSE m \in Metadata : TRUE, NoRows)]
    /\ UNCHANGED <<storeVars, copies, state, local, timeouts, disturbed>>

\* Variant: the credential is kept in memory only.
SaveRotatedNever(p) == UNCHANGED state

\* replaceState with the state read before the call and the new credential.
SaveRotated(p) ==
    state' = [state EXCEPT ![HomeOf[p]] = [dev |-> req[p].dev, cred |-> req[p].ans.cred]]

ReceiveRotated(p) ==
    /\ Busy(p, "rotate", "answered")
    /\ SaveRotated(p)
    /\ Close(p)
    /\ UNCHANGED <<storeVars, copies, local, timeouts, rotations, disturbed>>

\* The client times out, loses the connection or is killed, or replaceState or
\* createState fails: the answer is lost, or the request goes on without it.
GiveUp(p) ==
    /\ req[p] # None
    /\ timeouts < MaxTimeouts
    /\ timeouts' = timeouts + 1
    /\ \/ Close(p)
       \/ /\ req[p].stage # "answered"
          /\ \E s \in LateSlots :
                /\ req[s] = None
                /\ req' = [req EXCEPT ![p] = None, ![s] = req[p]]
    /\ disturbed' = IF req[p].op = "rotate" THEN disturbed \cup {req[p].dev} ELSE disturbed
    /\ UNCHANGED <<storeVars, copies, state, local, rotations>>

Receive(p) ==
    \/ ReceiveGrant(p)
    \/ ReceiveHeartbeat(p)
    \/ ReceiveAccepted(p)
    \/ ReceiveRotated(p)

-----------------------------------------------------------------------------
FleetInit ==
    /\ ServerInit
    /\ state = [e \in Endpoints |-> None]
    /\ local = [e \in Endpoints |-> NoRows]
    /\ req = [s \in Slots |-> None]
    /\ timeouts = 0
    /\ rotations = 0
    /\ disturbed = {}

\* While policies are not edited: devices and groups move.
FleetNext ==
    \/ (DeviceAdmin \/ Expiry) /\ UNCHANGED agentVars
    \/ \E s \in Slots : Authenticate(s) \/ Serve(s) \/ CancelLate(s)
    \/ \E e \in Endpoints, k \in Keys : Observe(e, k)
    \/ \E p \in Procs :
          \/ \E t \in TokenIDs, m \in Metadata : StartEnroll(p, t, m)
          \/ \E m \in Metadata : StartSync(p, m)
          \/ StartRotate(p)
          \/ Receive(p)
          \/ ReceivePolicy(p)
          \/ PersistFails(p)
          \/ GiveUp(p)

\* The whole controller, from an empty database on.
FullNext == FleetNext \/ (PolicyAdmin /\ UNCHANGED agentVars)

FleetSpec == FleetInit /\ [][FullNext]_fleetVars

\* The server serves what it accepts, answers arrive unless they are lost, the
\* monitor syncs again and again, and not every policy it fetches fails to be
\* persisted.
Fairness ==
    /\ \A s \in Slots : WF_fleetVars(Authenticate(s) \/ Serve(s))
    /\ \A p \in Procs : /\ WF_fleetVars(\E m \in Metadata : StartSync(p, m))
                        /\ WF_fleetVars(Receive(p))
                        /\ SF_fleetVars(ReceivePolicy(p))

-----------------------------------------------------------------------------
\* The types of the state files, the journals' findings and the requests.
FleetTypeOK ==
    /\ ServerTypeOK
    /\ state \in [Endpoints -> Grant \cup {None}]
    /\ local \in [Endpoints -> Report]
    /\ req \in [Slots -> Request \cup {None}]
    /\ timeouts \in 0..MaxTimeouts
    /\ rotations \in 0..MaxRotations
    /\ disturbed \subseteq DeviceIDs

\* An enrolled endpoint stays the device it is: two processes that enroll it at
\* the same time, with two tokens or one, never replace each other's state, and
\* a late rotation never brings back another device.
StableIdentity ==
    [][\A e \in Endpoints :
          state[e] # None => state'[e] # None /\ state'[e].dev = state[e].dev]_fleetVars

\* An endpoint is locked out only by a rotation whose answer it lost or by two
\* rotations at once: otherwise its state file has the credential the
\* controller stores, or the answer that carries it is on its way.
EndpointKeepsAccess ==
    \A e \in Endpoints :
        state[e] # None /\ state[e].dev \notin disturbed =>
            \/ state[e].cred = devices[state[e].dev].cred
            \/ \E p \in Procs :
                  /\ HomeOf[p] = e
                  /\ Busy(p, "rotate", "answered")
                  /\ req[p].ans = [dev |-> state[e].dev, cred |-> devices[state[e].dev].cred]

\* The endpoint may sync and is asked to report.
Reporting(e) ==
    /\ state[e] # None
    /\ AuthenticateDevice(state[e].dev, state[e].cred)
    /\ PolicyForDevice(state[e].dev) # None
    /\ PolicyForDevice(state[e].dev).body \in ReportingBodies

\* The controller ends up with the findings the endpoint has: reports that were
\* given up and are served late overwrite newer rows, but not for good.
ReportsConverge ==
    \A e \in Endpoints :
        <>[]Reporting(e) => <>[](state[e] # None /\ findings[state[e].dev] = local[e])
=============================================================================
