----------------------------- MODULE FleetProofs -----------------------------
(***************************************************************************)
(* Proofs about Fleet for any number of endpoints, processes and requests  *)
(* that were given up: an endpoint stays the device it enrolled as, keeps  *)
(* its access unless a rotation was disturbed, and revocation is final.    *)
(***************************************************************************)
EXTENDS Fleet, ControllerProofs

Home(p) == state[HomeOf[p]]

\* The identity a request acts with, None for an enrollment.
ActsFor(s, d) == req[s] # None /\ req[s].op # "enroll" /\ req[s].dev = d

Rotated(p, d) == Busy(p, "rotate", "answered") /\ req[p].dev = d

-----------------------------------------------------------------------------
(***************************************************************************)
(* The inductive invariant                                                 *)
(***************************************************************************)
\* What a request carries, and what an answer to it is.
WellFormed(r) ==
    /\ r.op = "enroll" => r.tok \in TokenIDs /\ r.stage # "authed"
    /\ r.op # "enroll" => r.dev \in DeviceIDs
    /\ r.op \in {"enroll", "rotate"} /\ r.stage = "answered" => r.ans \in Grant
    /\ r.op = "policy" /\ r.stage = "answered" => r.ans \in Policy

RequestsInv ==
    /\ \A s \in Slots : req[s] # None => WellFormed(req[s])
    /\ \A s \in LateSlots : req[s] # None => req[s].stage # "answered"

\* A process acts for the device its endpoint is, a late request for the
\* device of some endpoint.
IdentityInv ==
    /\ \A p \in Procs : \A d \in DeviceIDs :
          ActsFor(p, d) => Home(p) # None /\ Home(p).dev = d
    /\ \A s \in Slots : \A d \in DeviceIDs :
          ActsFor(s, d) => \E e \in Endpoints : state[e] # None /\ state[e].dev = d

\* A grant that was answered and not yet stored is the stored credential of a
\* device of its own.
GrantInv ==
    \A p \in Procs :
        Busy(p, "enroll", "answered") =>
            /\ Enrolled(req[p].ans.dev)
            /\ devices[req[p].ans.dev].cred = req[p].ans.cred
            /\ \A e \in Endpoints : state[e] # None => state[e].dev # req[p].ans.dev
            /\ \A q \in Procs \ {p} :
                  Busy(q, "enroll", "answered") => req[q].ans.dev # req[p].ans.dev

\* No two endpoints are one device.
OwnerInv ==
    /\ \A e \in Endpoints : state[e] # None => Enrolled(state[e].dev)
    /\ \A e, f \in Endpoints :
          state[e] # None /\ state[f] # None /\ state[e].dev = state[f].dev => e = f

\* Every credential in a state file or under way has been minted.
MintedInv ==
    /\ \A e \in Endpoints : state[e] # None => state[e].cred <= minted
    /\ \A s \in Slots : req[s] # None =>
          /\ req[s].cred <= minted
          /\ req[s].op \in {"enroll", "rotate"} /\ req[s].stage = "answered" =>
                 req[s].ans.cred <= minted

\* The state file is up to date, or one answer carries the new credential and
\* every other request still has an old one.
UpToDate(e, d) ==
    /\ state[e].cred = devices[d].cred
    /\ \A p \in Procs : ~Rotated(p, d)

OnItsWay(p, e, d) ==
    /\ Rotated(p, d)
    /\ req[p].ans = [dev |-> d, cred |-> devices[d].cred]
    /\ state[e].cred # devices[d].cred
    /\ \A q \in Slots \ {p} :
          ActsFor(q, d) => req[q].cred # devices[d].cred /\ ~Rotating(q, d)

AccessInv ==
    /\ \A s \in LateSlots : req[s] # None /\ req[s].op = "rotate" => req[s].dev \in disturbed
    /\ \A e \in Endpoints :
          state[e] # None /\ state[e].dev \notin disturbed =>
              \/ UpToDate(e, state[e].dev)
              \/ \E p \in Procs : OnItsWay(p, e, state[e].dev)

FleetInv ==
    /\ FleetTypeOK
    /\ TokenGroups
    /\ TokenInv
    /\ RequestsInv
    /\ IdentityInv
    /\ OwnerInv
    /\ GrantInv
    /\ MintedInv
    /\ AccessInv

-----------------------------------------------------------------------------
(***************************************************************************)
(* Requests                                                                *)
(***************************************************************************)
\* A new call carries the identity it was given and is not answered.
LEMMA CallFields ==
    ASSUME NEW op \in {"enroll", "heartbeat", "policy", "report", "rotate"},
           NEW grant \in [dev : DeviceIDs \cup {None}, cred : Nat],
           NEW tok \in TokenIDs \cup {None}, NEW m \in Metadata, NEW r \in Report
    PROVE  /\ Call(op, grant, tok, m, r) \in Request
           /\ Call(op, grant, tok, m, r).op = op
           /\ Call(op, grant, tok, m, r).stage = "sent"
           /\ Call(op, grant, tok, m, r).dev = grant.dev
           /\ Call(op, grant, tok, m, r).cred = grant.cred
           /\ Call(op, grant, tok, m, r).tok = tok
  BY DEF Call, Request

\* An answer, and authentication, change what they say only.
LEMMA AnsweredFields ==
    ASSUME NEW r \in Request, NEW ans \in Grant \cup Policy \cup {None}
    PROVE  LET new == [r EXCEPT !.stage = "answered", !.ans = ans]
           IN /\ new \in Request /\ new.stage = "answered" /\ new.ans = ans
              /\ new.op = r.op /\ new.dev = r.dev /\ new.cred = r.cred /\ new.tok = r.tok
  BY DEF Request

LEMMA AuthedFields ==
    ASSUME NEW r \in Request
    PROVE  LET new == [r EXCEPT !.stage = "authed"]
           IN /\ new \in Request /\ new.stage = "authed" /\ new.ans = r.ans
              /\ new.op = r.op /\ new.dev = r.dev /\ new.cred = r.cred /\ new.tok = r.tok
  BY DEF Request

\* The request in a slot is a request.
LEMMA SlotRequest ==
    ASSUME FleetTypeOK, NEW s \in Slots, req[s] # None PROVE req[s] \in Request
  BY DEF FleetTypeOK

LEMMA NoRowsReport == NoRows \in Report
  BY BoundsAssumption DEF NoRows, Report

\* One slot gets another request, or none.
LEMMA PutRequest ==
    ASSUME FleetTypeOK, RequestsInv, NEW s \in Slots, NEW new \in Request \cup {None},
           req' = [req EXCEPT ![s] = new], new # None => WellFormed(new),
           new # None /\ s \in LateSlots => new.stage # "answered"
    PROVE  /\ req' \in [Slots -> Request \cup {None}] /\ RequestsInv'
           /\ req'[s] = new /\ \A q \in Slots \ {s} : req'[q] = req[q]
  <1>1. /\ req' \in [Slots -> Request \cup {None}]
        /\ req'[s] = new /\ \A q \in Slots \ {s} : req'[q] = req[q]
    BY DEF FleetTypeOK
  <1>2. \A q \in Slots : req'[q] # None => WellFormed(req'[q])
    BY <1>1 DEF RequestsInv
  <1>3. \A q \in LateSlots : req'[q] # None => req'[q].stage # "answered"
    BY <1>1 DEF RequestsInv, Slots
  <1>4. RequestsInv'
    BY <1>2, <1>3 DEF RequestsInv, WellFormed
  <1> QED
    BY <1>1, <1>4

\* What Answer leaves in the slot.
Reply(s, ans) ==
    IF s \in Procs THEN [req[s] EXCEPT !.stage = "answered", !.ans = ans] ELSE None

LEMMA AnswerRequest ==
    ASSUME FleetTypeOK, RequestsInv, NEW s \in Slots, req[s] # None,
           NEW ans \in Grant \cup Policy \cup {None}, Answer(s, ans),
           req[s].op \in {"enroll", "rotate"} => ans \in Grant,
           req[s].op = "policy" => ans \in Policy
    PROVE  /\ req' = [req EXCEPT ![s] = Reply(s, ans)]
           /\ Reply(s, ans) \in Request \cup {None}
           /\ Reply(s, ans) # None =>
                 /\ s \in Procs /\ WellFormed(Reply(s, ans))
                 /\ Reply(s, ans).stage = "answered" /\ Reply(s, ans).ans = ans
                 /\ Reply(s, ans).op = req[s].op /\ Reply(s, ans).dev = req[s].dev
                 /\ Reply(s, ans).cred = req[s].cred
           /\ s \in LateSlots => Reply(s, ans) = None
           /\ s \in Procs => Reply(s, ans) # None
  <1>1. req[s] \in Request /\ WellFormed(req[s])
    BY SlotRequest DEF RequestsInv
  <1>2. req' = [req EXCEPT ![s] = Reply(s, ans)]
    BY DEF Answer, Reply, FleetTypeOK
  <1>3. CASE s \in Procs
    <2> DEFINE new == [req[s] EXCEPT !.stage = "answered", !.ans = ans]
    <2>1. /\ new \in Request /\ new.stage = "answered" /\ new.ans = ans
          /\ new.op = req[s].op /\ new.dev = req[s].dev /\ new.cred = req[s].cred
          /\ new.tok = req[s].tok
      BY <1>1, AnsweredFields
    <2> HIDE DEF new
    <2>2. WellFormed(new)
      BY <1>1, <2>1 DEF WellFormed
    <2>3. new # None /\ s \notin LateSlots
      BY <1>3, <2>1, FleetNoneAssumption, SlotsAssumption
    <2>4. Reply(s, ans) = new
      BY <1>3 DEF Reply, new
    <2> QED
      BY <1>2, <1>3, <2>1, <2>2, <2>3, <2>4
  <1>4. CASE s \notin Procs
    BY <1>2, <1>4 DEF Reply
  <1> QED
    BY <1>3, <1>4

-----------------------------------------------------------------------------
(***************************************************************************)
(* The steps by what they change: a transaction that keeps every           *)
(* credential; one request that moves along; and the five steps that issue *)
(* or store a credential or lose an answer.                                *)
(***************************************************************************)
CredsKept ==
    /\ minted' \in Nat /\ minted <= minted'
    /\ \A d \in DeviceIDs : Enrolled(d) => Enrolled(d)' /\ devices'[d].cred = devices[d].cred

\* The transactions other than RotateDeviceCredential keep the credentials.
LEMMA KeepsCreds ==
    ASSUME TypeOK, TokenGroups,
           \/ \E a \in Principals : AdminStep(a)
           \/ \E t \in TokenIDs : ExpireToken(t)
           \/ \E t \in TokenIDs, d \in DeviceIDs, m \in Metadata : Enroll(t, d, m)
           \/ \E d \in DeviceIDs, m \in Metadata : Heartbeat(d, m)
           \/ \E d \in DeviceIDs, r \in Report : SyncReport(d, r)
           \/ UNCHANGED storeVars
    PROVE  CredsKept
  <1>0. minted \in Nat
    BY DEF TypeOK
  <1>1. CASE UNCHANGED <<devices, minted>>
    BY <1>0, <1>1 DEF CredsKept, Enrolled
  <1>2. ASSUME NEW d \in DeviceIDs, NEW new \in Device, devices[d] \in Device,
               new.cred = devices[d].cred, devices' = [devices EXCEPT ![d] = new],
               minted' = minted
        PROVE  CredsKept
    BY <1>0, <1>2, NoneAssumption DEF CredsKept, Enrolled, TypeOK
  <1>3. ASSUME NEW a \in Principals, NEW d \in DeviceIDs, RevokeDevice(a, d) PROVE CredsKept
    <2>1. devices[d] \in Device
      BY <1>3 DEF RevokeDevice, Active, Enrolled, TypeOK
    <2>2. [devices[d] EXCEPT !.revoked = TRUE] \in Device
          /\ [devices[d] EXCEPT !.revoked = TRUE].cred = devices[d].cred
      BY <2>1 DEF Device
    <2> QED
      BY <1>2, <1>3, <2>1, <2>2 DEF RevokeDevice
  <1>4. ASSUME NEW a \in Principals, NEW d \in DeviceIDs, NEW g \in Groups,
               AssignDeviceGroup(a, d, g)
        PROVE  CredsKept
    <2>1. devices[d] \in Device
      BY <1>4 DEF AssignDeviceGroup, Enrolled, TypeOK
    <2>2. [devices[d] EXCEPT !.group = g] \in Device
          /\ [devices[d] EXCEPT !.group = g].cred = devices[d].cred
      BY <2>1 DEF Device
    <2> QED
      BY <1>2, <1>4, <2>1, <2>2 DEF AssignDeviceGroup
  <1>5. ASSUME NEW d \in DeviceIDs, NEW m \in Metadata, Heartbeat(d, m) PROVE CredsKept
    <2>1. devices[d] \in Device
      BY <1>5 DEF Heartbeat, Active, Enrolled, TypeOK
    <2>2. [devices[d] EXCEPT !.meta = m] \in Device
          /\ [devices[d] EXCEPT !.meta = m].cred = devices[d].cred
      BY <2>1 DEF Device
    <2> QED
      BY <1>2, <1>5, <2>1, <2>2 DEF Heartbeat
  <1>6. ASSUME NEW t \in TokenIDs, NEW d \in DeviceIDs, NEW m \in Metadata, Enroll(t, d, m)
        PROVE  CredsKept
    <2>1. devices[d] = None /\ minted' = minted + 1
          /\ \A c \in DeviceIDs \ {d} : devices'[c] = devices[c]
      BY <1>6 DEF Enroll, TypeOK
    <2> QED
      BY <1>0, <2>1 DEF CredsKept, Enrolled
  <1> QED
    BY <1>1, <1>3, <1>4, <1>5, <1>6
    DEF AdminStep, CreateEnrollmentToken, CreatePolicy, UpdatePolicy, DeletePolicy,
        AssignGroupPolicy, UnassignGroupPolicy, ExpireToken, SyncReport, storeVars

\* A request is followed by one of the same identity, or authenticated.
Continues(s, new) ==
    /\ req[s] # None /\ req[s].op # "enroll"
    /\ new.op # "enroll" /\ new.dev = req[s].dev /\ new.cred = req[s].cred
    /\ new.op = "rotate" => req[s].op = "rotate"
    /\ new.op = "rotate" /\ new.stage # "sent" => new.cred = devices[new.dev].cred

\* A process begins, with the identity in its endpoint's state file.
Begins(s, new) ==
    /\ s \in Procs /\ Home(s) # None
    /\ new.op # "enroll" /\ new.stage = "sent"
    /\ new.dev = Home(s).dev /\ new.cred = Home(s).cred

SlotStep(s, new) ==
    /\ req' = [req EXCEPT ![s] = new]
    /\ new \in Request \cup {None}
    /\ ~Busy(s, "rotate", "answered") /\ ~Busy(s, "enroll", "answered")
    /\ new # None =>
          /\ WellFormed(new)
          /\ new.op \in {"enroll", "rotate"} => new.stage # "answered"
          /\ s \in LateSlots => new.stage # "answered"
          /\ \/ s \in Procs /\ new.op = "enroll" /\ new.cred = 0
             \/ Continues(s, new)
             \/ Begins(s, new)

Quiet == CredsKept /\ UNCHANGED <<req, state, disturbed>>

Moves == \E s \in Slots : \E new \in Request \cup {None} :
             CredsKept /\ SlotStep(s, new) /\ UNCHANGED <<state, disturbed>>

Credentials ==
    \/ \E s \in Slots : ServeEnroll(s) \/ ServeRotate(s)
    \/ \E p \in Procs : ReceiveGrant(p) \/ ReceiveRotated(p) \/ GiveUp(p)

\* A slot that is closed.
LEMMA CloseMoves ==
    ASSUME CredsKept, NEW s \in Slots, Close(s), UNCHANGED <<state, disturbed>>,
           ~Busy(s, "rotate", "answered"), ~Busy(s, "enroll", "answered")
    PROVE  Moves
  <1>1. SlotStep(s, None)
    BY DEF SlotStep, Close
  <1> QED
    BY <1>1 DEF Moves

\* The answer to a request that asks for no credential.
LEMMA AnswerMoves ==
    ASSUME FleetTypeOK, RequestsInv, CredsKept, NEW s \in Slots, req[s] # None,
           req[s].op \notin {"enroll", "rotate"}, req[s].stage # "answered",
           NEW ans \in Policy \cup {None}, req[s].op = "policy" => ans \in Policy,
           Answer(s, ans), UNCHANGED <<state, disturbed>>
    PROVE  Moves
  <1> DEFINE new == Reply(s, ans)
  <1>1. /\ req' = [req EXCEPT ![s] = new]
        /\ new \in Request \cup {None}
        /\ new # None =>
              /\ s \in Procs /\ WellFormed(new) /\ new.op = req[s].op
              /\ new.dev = req[s].dev /\ new.cred = req[s].cred
        /\ s \in LateSlots => new = None
    BY AnswerRequest
  <1> HIDE DEF new
  <1>2. new # None => Continues(s, new)
    BY <1>1 DEF Continues
  <1>3. SlotStep(s, new)
    BY <1>1, <1>2 DEF SlotStep, Busy
  <1> QED
    BY <1>1, <1>3 DEF Moves

\* A request that follows another, or the first of a process.
LEMMA CallMoves ==
    ASSUME FleetTypeOK, RequestsInv, CredsKept, NEW p \in Procs,
           NEW op \in {"heartbeat", "policy", "report", "rotate"}, NEW grant \in Grant,
           NEW m \in Metadata, NEW r \in Report,
           req' = [req EXCEPT ![p] = Call(op, grant, None, m, r)],
           \/ req[p] = None /\ Home(p) = grant
           \/ /\ req[p] # None /\ req[p].op \notin {"enroll", "rotate"} /\ op # "rotate"
              /\ grant = Holding(p),
           UNCHANGED <<state, disturbed>>
    PROVE  Moves
  <1> DEFINE new == Call(op, grant, None, m, r)
  <1>0. p \in Slots /\ p \notin LateSlots /\ grant # None
    BY SlotsAssumption, FleetNoneAssumption DEF Slots
  <1>1. /\ new \in Request /\ new.op = op /\ new.stage = "sent" /\ new.dev = grant.dev
        /\ new.cred = grant.cred /\ grant.dev \in DeviceIDs
    BY CallFields DEF Grant
  <1> HIDE DEF new
  <1>2. WellFormed(new)
    BY <1>1 DEF WellFormed
  <1>3. Continues(p, new) \/ Begins(p, new)
    <2>1. CASE req[p] = None /\ Home(p) = grant
      BY <1>0, <1>1, <2>1 DEF Begins
    <2>2. CASE /\ req[p] # None /\ req[p].op \notin {"enroll", "rotate"} /\ op # "rotate"
               /\ grant = Holding(p)
      <3>1. grant.dev = req[p].dev /\ grant.cred = req[p].cred
        BY <2>2 DEF Holding
      <3> QED
        BY <1>1, <2>2, <3>1 DEF Continues
    <2> QED
      BY <2>1, <2>2
  <1>4. SlotStep(p, new)
    BY <1>0, <1>1, <1>2, <1>3 DEF SlotStep, Busy, new
  <1> QED
    BY <1>0, <1>1, <1>4 DEF Moves

\* Every handler is one transaction of the store or none.
LEMMA FleetStoreSteps ==
    ASSUME FleetTypeOK, RequestsInv, [FullNext]_fleetVars
    PROVE  StoreStep \/ UNCHANGED storeVars
  <1>1. ASSUME DeviceAdmin \/ Expiry \/ PolicyAdmin PROVE StoreStep \/ UNCHANGED storeVars
    BY <1>1, ServerSteps DEF Next, FleetTypeOK
  <1>2. ASSUME NEW s \in Slots, ServeEnroll(s) PROVE StoreStep
    <2>1. req[s].tok \in TokenIDs /\ req[s].meta \in Metadata
      BY <1>2, SlotRequest DEF ServeEnroll, Busy, RequestsInv, WellFormed, Request
    <2> QED
      BY <1>2, <2>1 DEF ServeEnroll, StoreStep, AgentStep
  <1>3. ASSUME NEW s \in Slots, req[s] # None, req[s].op # "enroll"
        PROVE  req[s].dev \in DeviceIDs /\ req[s].meta \in Metadata /\ req[s].report \in Report
    BY <1>3, SlotRequest DEF RequestsInv, WellFormed, Request
  <1>4. ASSUME NEW s \in Slots, ServeHeartbeat(s) \/ ServeReport(s) \/ ServeRotate(s)
        PROVE  StoreStep
    <2>1. req[s].dev \in DeviceIDs /\ req[s].meta \in Metadata /\ req[s].report \in Report
      BY <1>3, <1>4 DEF ServeHeartbeat, ServeReport, ServeRotate, Busy
    <2> QED
      BY <1>4, <2>1 DEF ServeHeartbeat, ServeReport, ServeRotate, StoreStep, AgentStep
  <1>5. ASSUME NEW s \in Slots, Authenticate(s) \/ ServePolicy(s) \/ Refuse(s) \/ CancelLate(s)
        PROVE  UNCHANGED storeVars
    BY <1>5 DEF Authenticate, ServePolicy, Refuse, CancelLate
  <1>6. ASSUME NEW e \in Endpoints, NEW k \in Keys, Observe(e, k) PROVE UNCHANGED storeVars
    BY <1>6 DEF Observe
  <1>7. ASSUME NEW p \in Procs,
               \/ \E t \in TokenIDs, m \in Metadata : StartEnroll(p, t, m)
               \/ \E m \in Metadata : StartSync(p, m)
               \/ StartRotate(p) \/ Receive(p) \/ ReceivePolicy(p) \/ PersistFails(p) \/ GiveUp(p)
        PROVE  UNCHANGED storeVars
    BY <1>7 DEF StartEnroll, StartSync, StartRotate, Receive, ReceiveGrant, ReceiveHeartbeat,
       ReceiveAccepted, ReceiveRotated, ReceivePolicy, PersistFails, GiveUp
  <1>8. ASSUME UNCHANGED fleetVars PROVE UNCHANGED storeVars
    BY <1>8 DEF fleetVars
  <1> QED
    BY <1>1, <1>2, <1>4, <1>5, <1>6, <1>7, <1>8 DEF FullNext, FleetNext, Serve

LEMMA Shapes ==
    ASSUME FleetTypeOK, TokenGroups, RequestsInv, [FullNext]_fleetVars
    PROVE  Quiet \/ Moves \/ Credentials
  <1> USE DEF agentVars
  <1>0. TypeOK /\ (UNCHANGED storeVars => CredsKept)
    BY KeepsCreds DEF FleetTypeOK, ServerTypeOK
  <1>1. ASSUME DeviceAdmin \/ Expiry, UNCHANGED agentVars PROVE Quiet
    <2>1. CredsKept
      BY <1>0, <1>1, KeepsCreds
      DEF DeviceAdmin, Expiry, createEnrollmentToken, revokeDevice, assignDeviceGroup,
          assignGroupPolicy, unassignGroupPolicy, AdminStep
    <2> QED
      BY <1>1, <2>1 DEF Quiet
  <1>2. ASSUME PolicyAdmin, UNCHANGED agentVars PROVE Quiet
    <2>1. UNCHANGED devices /\ UNCHANGED minted
      BY <1>2 DEF PolicyAdmin, createPolicy, getPolicy, updatePolicy, AbandonEdit, deletePolicy,
         CreatePolicy, UpdatePolicy, DeletePolicy, storeVars
    <2>2. CredsKept
      BY <2>1, <1>0 DEF CredsKept, Enrolled, TypeOK
    <2> QED
      BY <1>2, <2>2 DEF Quiet
  <1>3. ASSUME NEW s \in Slots, Authenticate(s) PROVE Moves
    <2>0. CredsKept /\ req[s] \in Request /\ WellFormed(req[s])
      BY <1>0, <1>3, SlotRequest DEF Authenticate, RequestsInv
    <2>1. CASE ~AuthenticateDevice(req[s].dev, req[s].cred)
      BY <1>3, <2>0, <2>1, CloseMoves DEF Authenticate, Busy
    <2>2. CASE AuthenticateDevice(req[s].dev, req[s].cred)
      <3> DEFINE new == [req[s] EXCEPT !.stage = "authed"]
      <3>1. /\ new \in Request /\ new.stage = "authed" /\ new.ans = req[s].ans
            /\ new.op = req[s].op /\ new.dev = req[s].dev /\ new.cred = req[s].cred
            /\ new.tok = req[s].tok
        BY <2>0, AuthedFields
      <3>2. req' = [req EXCEPT ![s] = new]
        BY <1>3, <2>2 DEF Authenticate
      <3> HIDE DEF new
      <3>3. WellFormed(new) /\ req[s].op # "enroll" /\ req[s].stage = "sent"
        BY <1>3, <2>0, <3>1 DEF Authenticate, WellFormed
      <3>4. Continues(s, new)
        BY <1>3, <2>2, <3>1, <3>3 DEF Authenticate, Continues, AuthenticateDevice
      <3>5. SlotStep(s, new)
        BY <3>1, <3>2, <3>3, <3>4 DEF SlotStep, Busy
      <3> QED
        BY <1>3, <2>0, <3>1, <3>5 DEF Authenticate, Moves
    <2> QED
      BY <2>1, <2>2
  <1>4. ASSUME NEW s \in Slots, req[s] # None, req[s].op # "enroll"
        PROVE  req[s].dev \in DeviceIDs /\ req[s].meta \in Metadata /\ req[s].report \in Report
    BY <1>4, SlotRequest DEF RequestsInv, WellFormed, Request
  <1>5. ASSUME NEW s \in Slots, ServeHeartbeat(s) PROVE Moves
    <2>1. CredsKept
      BY <1>0, <1>4, <1>5, KeepsCreds DEF ServeHeartbeat, Busy
    <2> QED
      BY <1>5, <2>1, AnswerMoves DEF ServeHeartbeat, Busy
  <1>6. ASSUME NEW s \in Slots, ServePolicy(s) PROVE Moves
    <2>1. CredsKept
      BY <1>0, <1>6 DEF ServePolicy
    <2>2. PolicyForDevice(req[s].dev) \in Policy
      BY <1>0, <1>6 DEF ServePolicy, PolicyForDevice, PolicyForGroup, ListPolicies, TypeOK
    <2> QED
      BY <1>6, <2>1, <2>2, AnswerMoves DEF ServePolicy, Busy
  <1>7. ASSUME NEW s \in Slots, ServeReport(s) PROVE Moves
    <2>1. CredsKept
      BY <1>0, <1>4, <1>7, KeepsCreds DEF ServeReport, Busy
    <2> QED
      BY <1>7, <2>1, AnswerMoves DEF ServeReport, Busy
  <1>8. ASSUME NEW s \in Slots, Refuse(s) PROVE Moves
    <2>1. ~Busy(s, "rotate", "answered") /\ ~Busy(s, "enroll", "answered")
      BY <1>8 DEF Refuse, Busy
    <2> QED
      BY <1>0, <1>8, <2>1, CloseMoves DEF Refuse
  <1>9. ASSUME NEW s \in Slots, CancelLate(s) PROVE Moves
    <2>1. ~Busy(s, "rotate", "answered") /\ ~Busy(s, "enroll", "answered")
      BY <1>9 DEF CancelLate, Busy, RequestsInv
    <2> QED
      BY <1>0, <1>9, <2>1, CloseMoves DEF CancelLate
  <1>10. ASSUME NEW e \in Endpoints, NEW k \in Keys, Observe(e, k) PROVE Quiet
    BY <1>0, <1>10 DEF Observe, Quiet
  <1>11. \A p \in Procs : p \in Slots /\ p \notin LateSlots /\ HomeOf[p] \in Endpoints
    BY SlotsAssumption, HomeAssumption DEF Slots
  <1>12. ASSUME NEW p \in Procs, NEW t \in TokenIDs, NEW m \in Metadata, StartEnroll(p, t, m)
         PROVE  Moves
    <2> DEFINE grant == [dev |-> None, cred |-> 0]
               new == Call("enroll", grant, t, m, NoRows)
    <2>1. grant \in [dev : DeviceIDs \cup {None}, cred : Nat] /\ grant.cred = 0
      OBVIOUS
    <2>2. /\ new \in Request /\ new.op = "enroll" /\ new.stage = "sent"
          /\ new.cred = 0 /\ new.tok = t
      BY <2>1, NoRowsReport, CallFields
    <2>3. /\ req' = [req EXCEPT ![p] = new] /\ req[p] = None
          /\ UNCHANGED <<storeVars, state, disturbed>>
      BY <1>12 DEF StartEnroll
    <2> HIDE DEF new, grant
    <2>4. SlotStep(p, new)
      BY <1>11, <2>2, <2>3 DEF SlotStep, WellFormed, Busy
    <2> QED
      BY <1>0, <1>11, <2>2, <2>3, <2>4 DEF Moves
  <1>13. ASSUME NEW p \in Procs, NEW m \in Metadata, StartSync(p, m) PROVE Moves
    <2>1. Home(p) \in Grant
      BY <1>11, <1>13 DEF StartSync, Home, FleetTypeOK
    <2> QED
      BY <1>0, <1>13, <2>1, NoRowsReport, CallMoves DEF StartSync, Home
  <1>14. ASSUME NEW p \in Procs, StartRotate(p) PROVE Moves
    <2>1. Home(p) \in Grant
      BY <1>11, <1>14 DEF StartRotate, Home, FleetTypeOK
    <2>2. (CHOOSE m \in Metadata : TRUE) \in Metadata
      BY MetadataAssumption
    <2> DEFINE mm == CHOOSE m \in Metadata : TRUE
    <2>3. /\ req' = [req EXCEPT ![p] = Call("rotate", Home(p), None, mm, NoRows)]
          /\ req[p] = None /\ UNCHANGED <<storeVars, state, disturbed>>
      BY <1>14 DEF StartRotate, Home
    <2> HIDE DEF mm
    <2>4. mm \in Metadata
      BY <2>2 DEF mm
    <2> QED
      BY <1>0, <2>1, <2>3, <2>4, NoRowsReport, CallMoves
  <1>15. ASSUME NEW p \in Procs, req[p] # None, req[p].op # "enroll"
         PROVE  Holding(p) \in Grant
    BY <1>4, <1>11, <1>15, SlotRequest DEF Holding, Grant, Request
  <1>16. ASSUME NEW p \in Procs, ReceiveHeartbeat(p) PROVE Moves
    BY <1>0, <1>4, <1>11, <1>15, <1>16, NoRowsReport, CallMoves DEF ReceiveHeartbeat, Busy
  <1>17. ASSUME NEW p \in Procs, ReceivePolicy(p) PROVE Moves
    <2>1. CASE req[p].ans.body \in ReportingBodies
      <3>1. CurrentReport(p) \in Report
        BY <1>11 DEF CurrentReport, FleetTypeOK
      <3>2. req' = [req EXCEPT ![p] = Call("report", Holding(p), None, req[p].meta,
                                           CurrentReport(p))]
        BY <1>11, <1>17, <2>1 DEF ReceivePolicy, FleetTypeOK
      <3>3. req[p] # None /\ req[p].op = "policy" /\ UNCHANGED <<storeVars, state, disturbed>>
        BY <1>17 DEF ReceivePolicy, Busy
      <3>4. req[p].meta \in Metadata
        BY <1>4, <1>11, <3>3
      <3> QED
        BY <1>0, <1>15, <3>1, <3>2, <3>3, <3>4, CallMoves
    <2>2. CASE req[p].ans.body \notin ReportingBodies
      <3>1. Close(p)
        BY <1>11, <1>17, <2>2 DEF ReceivePolicy, Close, FleetTypeOK
      <3> QED
        BY <1>0, <1>11, <1>17, <3>1, CloseMoves DEF ReceivePolicy, Busy
    <2> QED
      BY <2>1, <2>2
  <1>18. ASSUME NEW p \in Procs, PersistFails(p) \/ ReceiveAccepted(p) PROVE Moves
    BY <1>0, <1>11, <1>18, CloseMoves DEF PersistFails, ReceiveAccepted, Busy
  <1>19. ASSUME UNCHANGED fleetVars PROVE Quiet
    BY <1>0, <1>19 DEF fleetVars, Quiet
  <1> QED
    BY <1>1, <1>2, <1>3, <1>5, <1>6, <1>7, <1>8, <1>9, <1>10, <1>12, <1>13, <1>14, <1>16,
       <1>17, <1>18, <1>19 DEF FullNext, FleetNext, Serve, Receive, Credentials

-----------------------------------------------------------------------------
(***************************************************************************)
(* What the steps with credentials do, point by point                      *)
(***************************************************************************)
\* Slot s gets new, every other slot keeps its request.
Put(s, new) ==
    /\ req' \in [Slots -> Request \cup {None}]
    /\ RequestsInv'
    /\ req'[s] = new
    /\ \A q \in Slots \ {s} : req'[q] = req[q]

\* The controller issues credential minted + 1 to device d and answers with it.
Issue(s, d, new) ==
    /\ minted \in Nat /\ minted' = minted + 1
    /\ devices'[d] # None /\ devices'[d].cred = minted + 1
    /\ \A c \in DeviceIDs \ {d} : devices'[c] = devices[c]
    /\ Put(s, new)
    /\ new # None <=> s \in Procs
    /\ new # None =>
          /\ new.op = req[s].op /\ new.stage = "answered"
          /\ new.dev = req[s].dev /\ new.cred = req[s].cred
          /\ new.ans = [dev |-> d, cred |-> minted + 1]

LEMMA AnswerIssues ==
    ASSUME FleetTypeOK, RequestsInv, NEW s \in Slots, req[s] # None,
           req[s].op \in {"enroll", "rotate"}, NEW d \in DeviceIDs, NEW row \in Device,
           row.cred = minted + 1, minted' = minted + 1, devices' = [devices EXCEPT ![d] = row],
           Answer(s, [dev |-> d, cred |-> minted + 1])
    PROVE  \E new \in Request \cup {None} : Issue(s, d, new)
  <1> DEFINE grant == [dev |-> d, cred |-> minted + 1]
             new == Reply(s, grant)
  <1>1. minted \in Nat /\ devices \in [DeviceIDs -> Device \cup {None}]
    BY DEF FleetTypeOK, ServerTypeOK, TypeOK
  <1>2. grant \in Grant
    BY <1>1 DEF Grant
  <1>3. /\ devices'[d] # None /\ devices'[d].cred = minted + 1
        /\ \A c \in DeviceIDs \ {d} : devices'[c] = devices[c]
    BY <1>1, NoneAssumption
  <1>4. /\ req' = [req EXCEPT ![s] = new]
        /\ new \in Request \cup {None}
        /\ new # None =>
              /\ s \in Procs /\ WellFormed(new) /\ new.stage = "answered" /\ new.ans = grant
              /\ new.op = req[s].op /\ new.dev = req[s].dev /\ new.cred = req[s].cred
        /\ s \in LateSlots => new = None
        /\ s \in Procs => new # None
    BY <1>2, AnswerRequest
  <1> HIDE DEF new
  <1>5. Put(s, new)
    BY <1>4, PutRequest DEF Put
  <1>6. Issue(s, d, new)
    BY <1>1, <1>3, <1>4, <1>5 DEF Issue
  <1> QED
    BY <1>4, <1>6

LEMMA EnrollIssues ==
    ASSUME FleetTypeOK, TokenGroups, RequestsInv, NEW s \in Slots, ServeEnroll(s)
    PROVE  /\ Busy(s, "enroll", "sent")
           /\ \E d \in DeviceIDs : \E new \in Request \cup {None} :
                 devices[d] = None /\ Issue(s, d, new)
           /\ UNCHANGED <<state, disturbed>>
  <1>1. PICK d \in DeviceIDs : Enroll(req[s].tok, d, req[s].meta)
                               /\ Answer(s, [dev |-> d, cred |-> minted'])
    BY DEF ServeEnroll
  <1>2. /\ req[s] # None /\ req[s].op = "enroll" /\ req[s].tok \in TokenIDs
        /\ req[s].meta \in Metadata
    BY SlotRequest DEF ServeEnroll, Busy, RequestsInv, WellFormed, Request
  <1> DEFINE row == [cred |-> minted + 1, group |-> tokens[req[s].tok].group,
                     meta |-> req[s].meta, revoked |-> FALSE]
  <1>3. row \in Device /\ row.cred = minted + 1
    BY <1>1, <1>2
    DEF Enroll, OpenToken, TokenGroups, Device, FleetTypeOK, ServerTypeOK, TypeOK
  <1>4. /\ minted' = minted + 1 /\ devices' = [devices EXCEPT ![d] = row]
        /\ devices[d] = None
    BY <1>1 DEF Enroll
  <1> HIDE DEF row
  <1>5. \E new \in Request \cup {None} : Issue(s, d, new)
    BY <1>1, <1>2, <1>3, <1>4, AnswerIssues
  <1> QED
    BY <1>4, <1>5 DEF ServeEnroll

LEMMA RotateIssues ==
    ASSUME FleetTypeOK, RequestsInv, NEW s \in Slots, ServeRotate(s)
    PROVE  /\ Busy(s, "rotate", "authed")
           /\ req[s].dev \in DeviceIDs /\ devices[req[s].dev] # None
           /\ \E new \in Request \cup {None} : Issue(s, req[s].dev, new)
           /\ state' = state
           /\ disturbed' = IF \E q \in Slots \ {s} : Rotating(q, req[s].dev)
                           THEN disturbed \cup {req[s].dev} ELSE disturbed
  <1>1. req[s] # None /\ req[s].op = "rotate" /\ req[s].dev \in DeviceIDs
    BY SlotRequest DEF ServeRotate, Busy, RequestsInv, WellFormed
  <1> DEFINE d == req[s].dev
             row == [devices[d] EXCEPT !.cred = minted + 1]
  <1>2. RotateDeviceCredential(d) /\ devices[d] # None
    BY DEF ServeRotate, RotateDeviceCredential, Active, Enrolled
  <1>3. row \in Device /\ row.cred = minted + 1
    <2>1. devices[d] \in Device /\ minted \in Nat
      BY <1>1, <1>2 DEF FleetTypeOK, ServerTypeOK, TypeOK
    <2> HIDE DEF d
    <2> QED
      BY <2>1 DEF Device
  <1>4. minted' = minted + 1 /\ devices' = [devices EXCEPT ![d] = row]
    BY <1>2 DEF RotateDeviceCredential
  <1>5. Answer(s, [dev |-> d, cred |-> minted + 1])
    BY <1>4 DEF ServeRotate
  <1> HIDE DEF row, d
  <1>6. d \in DeviceIDs
    BY <1>1 DEF d
  <1>7. \E new \in Request \cup {None} : Issue(s, d, new)
    BY <1>1, <1>3, <1>4, <1>5, <1>6, AnswerIssues
  <1> QED
    BY <1>1, <1>2, <1>7 DEF ServeRotate, d

\* Endpoint e gets the state file g.
Save(e, g) ==
    /\ state' \in [Endpoints -> Grant \cup {None}]
    /\ state'[e] = g
    /\ \A f \in Endpoints \ {e} : state'[f] = state[f]

LEMMA CloseSlot ==
    ASSUME FleetTypeOK, RequestsInv, NEW s \in Slots, Close(s) PROVE Put(s, None)
  BY PutRequest DEF Close, Put

\* The answer of a credential route, at the process that waits for it.
LEMMA Answered ==
    ASSUME FleetTypeOK, RequestsInv, NEW p \in Procs, NEW op \in {"enroll", "rotate"},
           Busy(p, op, "answered")
    PROVE  /\ p \in Slots /\ HomeOf[p] \in Endpoints /\ req[p] \in Request
           /\ req[p].ans \in Grant
           /\ req[p].ans.dev \in DeviceIDs /\ req[p].ans.cred \in Nat
  <1>1. p \in Slots /\ HomeOf[p] \in Endpoints
    BY HomeAssumption DEF Slots
  <1>2. req[p] \in Request /\ WellFormed(req[p])
    BY <1>1, SlotRequest DEF Busy, RequestsInv
  <1> QED
    BY <1>1, <1>2 DEF Busy, WellFormed, Grant

LEMMA GrantReceived ==
    ASSUME FleetTypeOK, RequestsInv, NEW p \in Procs, ReceiveGrant(p)
    PROVE  /\ Put(p, None)
           /\ Save(HomeOf[p], IF Home(p) = None THEN req[p].ans ELSE Home(p))
           /\ UNCHANGED <<devices, minted, disturbed>>
  <1>1. Busy(p, "enroll", "answered") /\ InstallGrant(HomeOf[p], req[p].ans) /\ Close(p)
    BY DEF ReceiveGrant
  <1>2. p \in Slots /\ HomeOf[p] \in Endpoints /\ req[p].ans \in Grant
    BY <1>1, Answered
  <1>3. Save(HomeOf[p], IF Home(p) = None THEN req[p].ans ELSE Home(p))
    BY <1>1, <1>2 DEF InstallGrant, Save, Home, FleetTypeOK
  <1> QED
    BY <1>1, <1>2, <1>3, CloseSlot DEF ReceiveGrant, storeVars

LEMMA RotatedReceived ==
    ASSUME FleetTypeOK, RequestsInv, NEW p \in Procs, ReceiveRotated(p)
    PROVE  /\ Put(p, None)
           /\ Save(HomeOf[p], [dev |-> req[p].dev, cred |-> req[p].ans.cred])
           /\ req[p].dev \in DeviceIDs /\ req[p].ans.cred \in Nat
           /\ UNCHANGED <<devices, minted, disturbed>>
  <1>1. Busy(p, "rotate", "answered") /\ SaveRotated(p) /\ Close(p)
    BY DEF ReceiveRotated
  <1>2. p \in Slots /\ HomeOf[p] \in Endpoints /\ req[p].ans.cred \in Nat
    BY <1>1, Answered
  <1>3. req[p].dev \in DeviceIDs
    BY <1>1, <1>2 DEF Busy, RequestsInv, WellFormed
  <1>4. [dev |-> req[p].dev, cred |-> req[p].ans.cred] \in Grant
    BY <1>2, <1>3 DEF Grant
  <1>5. Save(HomeOf[p], [dev |-> req[p].dev, cred |-> req[p].ans.cred])
    BY <1>1, <1>2, <1>4 DEF SaveRotated, Save, FleetTypeOK
  <1> QED
    BY <1>1, <1>2, <1>3, <1>5, CloseSlot DEF ReceiveRotated, storeVars

\* A request that is given up is gone, or goes on in a late slot.
LEMMA GivenUp ==
    ASSUME FleetTypeOK, RequestsInv, NEW p \in Procs, GiveUp(p)
    PROVE  /\ req[p] \in Request /\ p \in Slots
           /\ req' \in [Slots -> Request \cup {None}] /\ RequestsInv' /\ req'[p] = None
           /\ \A q \in Slots \ {p} :
                 \/ req'[q] = req[q]
                 \/ q \in LateSlots /\ req'[q] = req[p] /\ req[p].stage # "answered"
           /\ disturbed' = IF req[p].op = "rotate" THEN disturbed \cup {req[p].dev}
                           ELSE disturbed
           /\ UNCHANGED <<devices, minted, state>>
  <1>1. p \in Slots /\ p \notin LateSlots /\ req[p] # None
    BY SlotsAssumption DEF Slots, GiveUp
  <1>2. req[p] \in Request /\ WellFormed(req[p])
    BY <1>1, SlotRequest DEF RequestsInv
  <1>3. CASE Close(p)
    <2>1. Put(p, None)
      BY <1>1, <1>3, CloseSlot
    <2> QED
      BY <1>1, <1>2, <2>1 DEF GiveUp, Put, storeVars
  <1>4. ASSUME NEW s \in LateSlots, req[s] = None, req[p].stage # "answered",
               req' = [req EXCEPT ![p] = None, ![s] = req[p]]
        PROVE  /\ req' \in [Slots -> Request \cup {None}] /\ RequestsInv' /\ req'[p] = None
               /\ \A q \in Slots \ {p} : req'[q] = req[q] \/ (q \in LateSlots /\ req'[q] = req[p])
    <2>1. s \in Slots /\ s # p
      BY <1>1, <1>4 DEF Slots
    <2>2. /\ req' \in [Slots -> Request \cup {None}] /\ req'[p] = None /\ req'[s] = req[p]
          /\ \A q \in Slots \ {p, s} : req'[q] = req[q]
      BY <1>1, <1>2, <1>4, <2>1 DEF FleetTypeOK
    <2>3. \A q \in Slots : req'[q] # None => WellFormed(req'[q])
      BY <1>2, <2>1, <2>2 DEF RequestsInv
    <2>4. \A q \in LateSlots : req'[q] # None => req'[q].stage # "answered"
      BY <1>1, <1>4, <2>1, <2>2 DEF RequestsInv, Slots
    <2>5. RequestsInv'
      BY <2>3, <2>4 DEF RequestsInv, WellFormed
    <2> QED
      BY <1>4, <2>1, <2>2, <2>5
  <1>5. CASE req[p].stage # "answered" /\ \E s \in LateSlots :
                 req[s] = None /\ req' = [req EXCEPT ![p] = None, ![s] = req[p]]
    BY <1>1, <1>2, <1>4, <1>5 DEF GiveUp, storeVars
  <1> QED
    BY <1>3, <1>5 DEF GiveUp

\* A request that moves along.
LEMMA SlotPut ==
    ASSUME FleetTypeOK, RequestsInv, NEW s \in Slots, NEW new \in Request \cup {None},
           SlotStep(s, new)
    PROVE  Put(s, new)
  BY PutRequest DEF SlotStep, Put

-----------------------------------------------------------------------------
(***************************************************************************)
(* Types                                                                   *)
(***************************************************************************)
\* The counters, the journals and the copies that are edited.
LEMMA OtherTypes ==
    ASSUME FleetTypeOK, [FullNext]_fleetVars
    PROVE  /\ copies' \in [Principals -> Copy \cup {None}]
           /\ local' \in [Endpoints -> Report]
           /\ timeouts' \in 0..MaxTimeouts
           /\ rotations' \in 0..MaxRotations
  <1>1. ASSUME DeviceAdmin \/ Expiry \/ PolicyAdmin
        PROVE  copies' \in [Principals -> Copy \cup {None}]
    BY <1>1, CopiesTypes DEF Next, FleetTypeOK
  <1>2. CASE UNCHANGED <<local, timeouts, rotations>>
             /\ (DeviceAdmin \/ Expiry \/ PolicyAdmin \/ UNCHANGED copies)
    BY <1>1, <1>2 DEF FleetTypeOK, ServerTypeOK
  <1>3. ASSUME NEW s \in Slots, Authenticate(s) \/ Serve(s) \/ CancelLate(s)
        PROVE  UNCHANGED <<copies, local, timeouts, rotations>>
    BY <1>3 DEF Authenticate, Serve, ServeEnroll, ServeHeartbeat, ServePolicy, ServeReport,
       ServeRotate, Refuse, CancelLate
  <1>4. ASSUME NEW e \in Endpoints, NEW k \in Keys, Observe(e, k)
        PROVE  local' \in [Endpoints -> Report] /\ UNCHANGED <<copies, timeouts, rotations>>
    <2>1. /\ local' = [local EXCEPT ![e] = [local[e] EXCEPT ![k] = local[e][k] + 1]]
          /\ local[e][k] < MaxVersion /\ local \in [Endpoints -> Report]
      BY <1>4 DEF Observe, FleetTypeOK
    <2>2. [local[e] EXCEPT ![k] = local[e][k] + 1] \in Report
      BY <2>1, BoundsAssumption DEF Report
    <2> QED
      BY <1>4, <2>1, <2>2 DEF Observe
  <1>5. ASSUME NEW p \in Procs, StartRotate(p)
        PROVE  rotations' \in 0..MaxRotations /\ UNCHANGED <<copies, local, timeouts>>
    BY <1>5, FleetBoundsAssumption DEF StartRotate, FleetTypeOK
  <1>6. ASSUME NEW p \in Procs, GiveUp(p)
        PROVE  timeouts' \in 0..MaxTimeouts /\ UNCHANGED <<copies, local, rotations>>
    BY <1>6, FleetBoundsAssumption DEF GiveUp, FleetTypeOK
  <1>7. ASSUME NEW p \in Procs,
               \/ \E t \in TokenIDs, m \in Metadata : StartEnroll(p, t, m)
               \/ \E m \in Metadata : StartSync(p, m)
               \/ Receive(p) \/ ReceivePolicy(p) \/ PersistFails(p)
        PROVE  UNCHANGED <<copies, local, timeouts, rotations>>
    BY <1>7 DEF StartEnroll, StartSync, Receive, ReceiveGrant, ReceiveHeartbeat,
       ReceiveAccepted, ReceiveRotated, ReceivePolicy, PersistFails
  <1> USE DEF FleetTypeOK, ServerTypeOK
  <1>8. CASE \E p \in Procs : StartRotate(p)
    BY <1>5, <1>8
  <1>9. CASE \E p \in Procs : GiveUp(p)
    BY <1>6, <1>9
  <1>10. CASE \E e \in Endpoints, k \in Keys : Observe(e, k)
    BY <1>4, <1>10
  <1>11. CASE UNCHANGED fleetVars
    BY <1>2, <1>11 DEF fleetVars
  <1>12. CASE (DeviceAdmin \/ Expiry \/ PolicyAdmin) /\ UNCHANGED agentVars
    BY <1>2, <1>12 DEF agentVars
  <1>13. CASE UNCHANGED <<copies, local, timeouts, rotations>>
    BY <1>2, <1>13
  <1> HIDE DEF FleetTypeOK, ServerTypeOK
  <1> QED
    BY <1>3, <1>7, <1>8, <1>9, <1>10, <1>11, <1>12, <1>13 DEF FullNext, FleetNext

\* The state files, the requests and the history.
LEMMA AgentTypes ==
    ASSUME FleetTypeOK, TokenGroups, RequestsInv, [FullNext]_fleetVars
    PROVE  /\ state' \in [Endpoints -> Grant \cup {None}]
           /\ req' \in [Slots -> Request \cup {None}]
           /\ disturbed' \subseteq DeviceIDs
           /\ RequestsInv'
  <1> DEFINE Done == /\ state' \in [Endpoints -> Grant \cup {None}]
                     /\ req' \in [Slots -> Request \cup {None}]
                     /\ disturbed' \subseteq DeviceIDs
                     /\ RequestsInv'
  <1>0. state \in [Endpoints -> Grant \cup {None}] /\ disturbed \subseteq DeviceIDs
    BY DEF FleetTypeOK
  <1>1. CASE Quiet
    BY <1>0, <1>1 DEF Quiet, FleetTypeOK, RequestsInv, WellFormed
  <1>2. CASE Moves
    BY <1>0, <1>2, SlotPut DEF Moves, Put
  <1>3. ASSUME NEW s \in Slots, ServeEnroll(s) PROVE Done
    BY <1>0, <1>3, EnrollIssues DEF Issue, Put
  <1>4. ASSUME NEW s \in Slots, ServeRotate(s) PROVE Done
    <2>1. req' \in [Slots -> Request \cup {None}] /\ RequestsInv' /\ state' = state
      BY <1>0, <1>4, RotateIssues DEF Issue, Put
    <2>2. disturbed' \subseteq disturbed \cup {req[s].dev} /\ req[s].dev \in DeviceIDs
      BY <1>0, <1>4, RotateIssues
    <2> QED
      BY <1>0, <2>1, <2>2
  <1>5. ASSUME NEW p \in Procs, ReceiveGrant(p) PROVE Done
    BY <1>0, <1>5, GrantReceived DEF Put, Save
  <1>6. ASSUME NEW p \in Procs, ReceiveRotated(p) PROVE Done
    BY <1>0, <1>6, RotatedReceived DEF Put, Save
  <1>7. ASSUME NEW p \in Procs, GiveUp(p) PROVE Done
    <2>1. /\ req[p] \in Request /\ p \in Slots
          /\ disturbed' = IF req[p].op = "rotate" THEN disturbed \cup {req[p].dev}
                          ELSE disturbed
          /\ state' = state /\ req' \in [Slots -> Request \cup {None}] /\ RequestsInv'
      BY <1>7, GivenUp
    <2>2. req[p].op = "rotate" => req[p].dev \in DeviceIDs
      BY <2>1, FleetNoneAssumption DEF RequestsInv, WellFormed
    <2> QED
      BY <1>0, <2>1, <2>2
  <1> QED
    BY <1>1, <1>2, <1>3, <1>4, <1>5, <1>6, <1>7, Shapes DEF Credentials

LEMMA FleetTypes ==
    ASSUME FleetTypeOK, TokenGroups, TokenInv, RequestsInv, [FullNext]_fleetVars
    PROVE  FleetTypeOK' /\ TokenGroups' /\ TokenInv' /\ RequestsInv'
  <1>1. TypeOK
    BY DEF FleetTypeOK, ServerTypeOK
  <1>2. TypeOK' /\ TokenGroups' /\ TokenInv'
    BY <1>1, FleetStoreSteps, StoreTypes, StoreTokenInv, UnchangedStore
  <1>3. /\ copies' \in [Principals -> Copy \cup {None}]
        /\ local' \in [Endpoints -> Report]
        /\ timeouts' \in 0..MaxTimeouts /\ rotations' \in 0..MaxRotations
    BY OtherTypes
  <1>4. /\ state' \in [Endpoints -> Grant \cup {None}]
        /\ req' \in [Slots -> Request \cup {None}]
        /\ disturbed' \subseteq DeviceIDs /\ RequestsInv'
    BY AgentTypes
  <1> QED
    BY <1>2, <1>3, <1>4 DEF FleetTypeOK, ServerTypeOK

-----------------------------------------------------------------------------
(***************************************************************************)
(* Identities                                                              *)
(***************************************************************************)
\* What StableIdentity says of a step.
IdentityKept ==
    \A e \in Endpoints : state[e] # None => state'[e] # None /\ state'[e].dev = state[e].dev

LEMMA StepKeepsIdentity ==
    ASSUME FleetInv, [FullNext]_fleetVars PROVE IdentityKept
  <1>0. FleetTypeOK /\ TokenGroups /\ RequestsInv
    BY DEF FleetInv
  <1>1. ASSUME UNCHANGED state PROVE IdentityKept
    BY <1>1 DEF IdentityKept
  <1>2. ASSUME NEW p \in Procs, ReceiveGrant(p) PROVE IdentityKept
    BY <1>0, <1>2, GrantReceived DEF Save, IdentityKept, Home
  <1>3. ASSUME NEW p \in Procs, ReceiveRotated(p) PROVE IdentityKept
    <2>1. /\ Save(HomeOf[p], [dev |-> req[p].dev, cred |-> req[p].ans.cred])
          /\ req[p].dev \in DeviceIDs
      BY <1>0, <1>3, RotatedReceived
    <2>2. ActsFor(p, req[p].dev)
      BY <1>3 DEF ReceiveRotated, Busy, ActsFor
    <2>3. Home(p).dev = req[p].dev
      BY <2>1, <2>2 DEF FleetInv, IdentityInv
    <2>4. state'[HomeOf[p]] = [dev |-> req[p].dev, cred |-> req[p].ans.cred]
          /\ HomeOf[p] \in Endpoints
          /\ \A f \in Endpoints \ {HomeOf[p]} : state'[f] = state[f]
      BY <2>1, HomeAssumption DEF Save
    <2>5. state'[HomeOf[p]] \in Grant /\ state'[HomeOf[p]].dev = Home(p).dev
      BY <1>0, <1>3, <2>1, <2>3, <2>4, RotatedReceived DEF Grant
    <2> QED
      BY <2>4, <2>5, FleetNoneAssumption DEF IdentityKept, Home
  <1>4. ASSUME NEW s \in Slots, ServeEnroll(s) \/ ServeRotate(s) PROVE UNCHANGED state
    BY <1>4 DEF ServeEnroll, ServeRotate
  <1>5. ASSUME NEW p \in Procs, GiveUp(p) PROVE UNCHANGED state
    BY <1>5 DEF GiveUp
  <1>6. ASSUME Quiet \/ Moves PROVE UNCHANGED state
    BY <1>6 DEF Quiet, Moves
  <1> QED
    BY <1>0, <1>1, <1>2, <1>3, <1>4, <1>5, <1>6, Shapes DEF Credentials

\* A request of the next state goes back to one of its slot, to the state file
\* of the process, or to the request of a process that gave it up.
LEMMA ActingGoesBack ==
    ASSUME FleetInv, [FullNext]_fleetVars, NEW s \in Slots, NEW d \in DeviceIDs, ActsFor(s, d)'
    PROVE  \/ ActsFor(s, d)
           \/ s \in Procs /\ Home(s) # None /\ Home(s).dev = d
           \/ s \notin Procs /\ \E p \in Procs : ActsFor(p, d)
  <1>0. FleetTypeOK /\ TokenGroups /\ RequestsInv
    BY DEF FleetInv
  <1>1. CASE req'[s] = req[s]
    BY <1>1 DEF ActsFor
  <1>2. CASE Quiet
    BY <1>1, <1>2 DEF Quiet
  <1>3. CASE Moves
    <2>1. PICK q \in Slots : \E new \in Request \cup {None} : SlotStep(q, new)
      BY <1>3 DEF Moves
    <2>2. PICK new \in Request \cup {None} : SlotStep(q, new)
      BY <2>1
    <2>3. Put(q, new)
      BY <1>0, <2>2, SlotPut
    <2>4. CASE q # s
      BY <1>1, <2>3, <2>4 DEF Put
    <2>5. CASE q = s
      <3>1. new # None /\ new.op # "enroll" /\ new.dev = d
        BY <2>3, <2>5 DEF Put, ActsFor
      <3>2. Continues(s, new) \/ Begins(s, new)
        BY <2>2, <2>5, <3>1 DEF SlotStep
      <3> QED
        BY <3>1, <3>2 DEF Continues, Begins, ActsFor
    <2> QED
      BY <2>4, <2>5
  <1>4. ASSUME NEW q \in Slots, NEW c \in DeviceIDs, NEW new \in Request \cup {None},
               req[q] # None, Issue(q, c, new)
        PROVE  ActsFor(s, d)
    BY <1>1, <1>4 DEF Issue, Put, ActsFor
  <1>5. ASSUME NEW q \in Slots, ServeEnroll(q) PROVE ActsFor(s, d)
    BY <1>0, <1>4, <1>5, EnrollIssues DEF Busy
  <1>6. ASSUME NEW q \in Slots, ServeRotate(q) PROVE ActsFor(s, d)
    BY <1>0, <1>4, <1>6, RotateIssues DEF Busy
  <1>7. ASSUME NEW p \in Procs, Put(p, None) PROVE ActsFor(s, d)
    BY <1>1, <1>7 DEF Put, ActsFor, Slots
  <1>8. ASSUME NEW p \in Procs, GiveUp(p)
        PROVE  ActsFor(s, d) \/ (s \notin Procs /\ ActsFor(p, d))
    <2>1. \/ s = p /\ req'[s] = None
          \/ req'[s] = req[s]
          \/ s \in LateSlots /\ req'[s] = req[p]
      BY <1>0, <1>8, GivenUp
    <2> QED
      BY <2>1, SlotsAssumption DEF ActsFor
  <1> QED
    BY <1>0, <1>2, <1>3, <1>5, <1>6, <1>7, <1>8, GrantReceived, RotatedReceived, Shapes
    DEF Credentials

LEMMA StepIdentity ==
    ASSUME FleetInv, [FullNext]_fleetVars PROVE IdentityInv'
  <1>0. IdentityInv /\ IdentityKept
    BY StepKeepsIdentity DEF FleetInv
  <1>1. ASSUME NEW p \in Procs, NEW d \in DeviceIDs, ActsFor(p, d)'
        PROVE  state'[HomeOf[p]] # None /\ state'[HomeOf[p]].dev = d
    <2>1. p \in Slots /\ HomeOf[p] \in Endpoints
      BY HomeAssumption DEF Slots
    <2>2. Home(p) # None /\ Home(p).dev = d
      BY <1>0, <1>1, <2>1, ActingGoesBack DEF IdentityInv
    <2> QED
      BY <1>0, <2>1, <2>2 DEF IdentityKept, Home
  <1>2. ASSUME NEW s \in Slots, NEW d \in DeviceIDs, ActsFor(s, d)'
        PROVE  \E e \in Endpoints : state'[e] # None /\ state'[e].dev = d
    <2>1. \E e \in Endpoints : state[e] # None /\ state[e].dev = d
      BY <1>0, <1>2, ActingGoesBack, HomeAssumption DEF IdentityInv, Home, Slots
    <2> QED
      BY <1>0, <2>1 DEF IdentityKept
  <1> QED
    BY <1>1, <1>2 DEF IdentityInv, Home

\* Enrolled devices stay enrolled, and only a rotation changes a credential.
LEMMA StepEnrolled ==
    ASSUME FleetInv, [FullNext]_fleetVars, NEW d \in DeviceIDs, Enrolled(d)
    PROVE  /\ Enrolled(d)'
           /\ \/ devices'[d].cred = devices[d].cred
              \/ \E s \in Slots : ServeRotate(s) /\ req[s].dev = d
  <1>0. FleetTypeOK /\ TokenGroups /\ RequestsInv
    BY DEF FleetInv
  <1>1. CASE CredsKept
    BY <1>1 DEF CredsKept
  <1>2. ASSUME NEW s \in Slots, ServeEnroll(s)
        PROVE  Enrolled(d)' /\ devices'[d].cred = devices[d].cred
    BY <1>0, <1>2, EnrollIssues DEF Issue, Enrolled
  <1>3. ASSUME NEW s \in Slots, ServeRotate(s)
        PROVE  Enrolled(d)' /\ (devices'[d].cred = devices[d].cred \/ req[s].dev = d)
    BY <1>0, <1>3, RotateIssues DEF Issue, Enrolled
  <1>4. ASSUME UNCHANGED devices PROVE Enrolled(d)' /\ devices'[d].cred = devices[d].cred
    BY <1>4 DEF Enrolled
  <1>5. ASSUME NEW p \in Procs, ReceiveGrant(p) \/ ReceiveRotated(p) \/ GiveUp(p)
        PROVE  UNCHANGED devices
    BY <1>5 DEF ReceiveGrant, ReceiveRotated, GiveUp, storeVars
  <1> QED
    BY <1>0, <1>1, <1>2, <1>3, <1>4, <1>5, Shapes DEF Credentials, Quiet, Moves

\* The devices of the state files, before and after.
LEMMA StepOwners ==
    ASSUME FleetInv, [FullNext]_fleetVars PROVE OwnerInv'
  <1>0. FleetTypeOK /\ TokenGroups /\ RequestsInv /\ OwnerInv /\ GrantInv /\ IdentityKept
    BY StepKeepsIdentity DEF FleetInv
  <1>1. ASSUME NEW e \in Endpoints, state[e] # None PROVE state[e].dev \in DeviceIDs
    BY <1>0, <1>1 DEF FleetTypeOK, Grant
  <1>2. ASSUME \A e \in Endpoints : state'[e] # None => state[e] # None
        PROVE  OwnerInv'
    <2>1. \A e \in Endpoints : state'[e] # None => devices'[state'[e].dev] # None
      BY <1>0, <1>1, <1>2, StepEnrolled DEF IdentityKept, OwnerInv, Enrolled
    <2> QED
      BY <1>0, <1>2, <2>1 DEF OwnerInv, IdentityKept, Enrolled
  <1>3. ASSUME UNCHANGED state PROVE OwnerInv'
    BY <1>2, <1>3
  <1>4. ASSUME NEW p \in Procs, ReceiveGrant(p) PROVE OwnerInv'
    <2> DEFINE e == HomeOf[p]
               g == req[p].ans
    <2>0. Busy(p, "enroll", "answered")
      BY <1>4 DEF ReceiveGrant
    <2>1. e \in Endpoints /\ g \in Grant /\ g.dev \in DeviceIDs
      BY <1>0, <2>0, Answered
    <2>2. /\ state'[e] = (IF Home(p) = None THEN g ELSE Home(p))
          /\ \A f \in Endpoints \ {e} : state'[f] = state[f]
          /\ UNCHANGED devices
      BY <1>0, <1>4, GrantReceived DEF Save
    <2>3. CASE Home(p) # None
      BY <1>2, <2>2, <2>3 DEF Home
    <2>4. CASE Home(p) = None
      <3>1. state'[e] = g
        BY <2>2, <2>4
      <3>2. Enrolled(g.dev) /\ \A f \in Endpoints : state[f] # None => state[f].dev # g.dev
        BY <1>0, <2>0 DEF GrantInv
      <3> HIDE DEF e, g
      <3>3. \A f \in Endpoints : state'[f] # None => devices'[state'[f].dev] # None
        BY <1>0, <2>2, <3>1, <3>2 DEF OwnerInv, Enrolled
      <3>4. \A f, h \in Endpoints :
               state'[f] # None /\ state'[h] # None /\ state'[f].dev = state'[h].dev => f = h
        BY <1>0, <2>2, <3>1, <3>2 DEF OwnerInv
      <3> QED
        BY <3>3, <3>4 DEF OwnerInv, Enrolled
    <2> QED
      BY <2>3, <2>4
  <1>5. ASSUME NEW p \in Procs, ReceiveRotated(p) PROVE OwnerInv'
    <2>1. Busy(p, "rotate", "answered") /\ req[p].dev \in DeviceIDs
      BY <1>0, <1>5, RotatedReceived DEF ReceiveRotated
    <2>2. Home(p) # None
      BY <2>1 DEF FleetInv, IdentityInv, ActsFor, Busy
    <2>3. \A f \in Endpoints \ {HomeOf[p]} : state'[f] = state[f]
      BY <1>0, <1>5, RotatedReceived DEF Save
    <2> QED
      BY <1>2, <2>2, <2>3 DEF Home
  <1>6. ASSUME NEW s \in Slots, ServeEnroll(s) \/ ServeRotate(s) PROVE UNCHANGED state
    BY <1>6 DEF ServeEnroll, ServeRotate
  <1>7. ASSUME NEW p \in Procs, GiveUp(p) PROVE UNCHANGED state
    BY <1>7 DEF GiveUp
  <1>8. ASSUME Quiet \/ Moves PROVE UNCHANGED state
    BY <1>8 DEF Quiet, Moves
  <1> QED
    BY <1>0, <1>3, <1>4, <1>5, <1>6, <1>7, <1>8, Shapes DEF Credentials

\* A grant of the next state was there before, or has just been issued.
LEMMA GrantsGoBack ==
    ASSUME FleetInv, [FullNext]_fleetVars, NEW p \in Procs, Busy(p, "enroll", "answered")'
    PROVE  \/ /\ Busy(p, "enroll", "answered") /\ req'[p] = req[p]
              /\ ~ReceiveGrant(p)
           \/ /\ ServeEnroll(p)
              /\ \E d \in DeviceIDs :
                    /\ devices[d] = None /\ devices'[d] # None
                    /\ req'[p].ans = [dev |-> d, cred |-> devices'[d].cred]
                    /\ \A q \in Slots \ {p} : req'[q] = req[q]
  <1>0. FleetTypeOK /\ TokenGroups /\ RequestsInv /\ p \in Slots
    BY DEF FleetInv, Slots
  <1>1. ASSUME NEW q \in Procs, Put(q, None)
        PROVE  q # p /\ req'[p] = req[p] /\ Busy(p, "enroll", "answered")
    BY <1>0, <1>1 DEF Put, Busy
  <1>2. ~ReceiveGrant(p)
    BY <1>0, <1>1, GrantReceived
  <1>3. CASE Quiet
    BY <1>2, <1>3 DEF Quiet, Busy
  <1>4. CASE Moves
    <2>1. PICK q \in Slots : \E new \in Request \cup {None} : SlotStep(q, new)
      BY <1>4 DEF Moves
    <2>2. PICK new \in Request \cup {None} : SlotStep(q, new)
      BY <2>1
    <2>3. Put(q, new)
      BY <1>0, <2>2, SlotPut
    <2>4. q # p
      BY <2>2, <2>3 DEF SlotStep, Put, Busy
    <2> QED
      BY <1>0, <1>2, <2>3, <2>4 DEF Put, Busy
  <1>5. ASSUME NEW s \in Slots, ServeEnroll(s)
        PROVE  \/ Busy(p, "enroll", "answered") /\ req'[p] = req[p]
               \/ /\ s = p
                  /\ \E d \in DeviceIDs :
                        /\ devices[d] = None /\ devices'[d] # None
                        /\ req'[p].ans = [dev |-> d, cred |-> devices'[d].cred]
                        /\ \A q \in Slots \ {p} : req'[q] = req[q]
    <2>1. PICK d \in DeviceIDs : devices[d] = None /\ \E new \in Request \cup {None} :
                                      Issue(s, d, new)
      BY <1>0, <1>5, EnrollIssues
    <2>2. PICK new \in Request \cup {None} : Issue(s, d, new)
      BY <2>1
    <2>3. CASE s # p
      BY <1>0, <2>2, <2>3 DEF Issue, Put, Busy
    <2>4. CASE s = p
      <3>1. req'[p].ans = [dev |-> d, cred |-> devices'[d].cred] /\ devices'[d] # None
        BY <2>2, <2>4 DEF Issue, Put
      <3>2. \A q \in Slots \ {p} : req'[q] = req[q]
        BY <2>2, <2>4 DEF Issue, Put
      <3> QED
        BY <2>1, <2>4, <3>1, <3>2
    <2> QED
      BY <2>3, <2>4
  <1>6. ASSUME NEW s \in Slots, ServeRotate(s)
        PROVE  Busy(p, "enroll", "answered") /\ req'[p] = req[p]
    BY <1>0, <1>6, RotateIssues DEF Issue, Put, Busy
  <1>7. ASSUME NEW q \in Procs, GiveUp(q)
        PROVE  Busy(p, "enroll", "answered") /\ req'[p] = req[p]
    BY <1>0, <1>7, GivenUp, SlotsAssumption DEF Busy
  <1> QED
    BY <1>0, <1>1, <1>2, <1>3, <1>4, <1>5, <1>6, <1>7, GrantReceived, RotatedReceived, Shapes
    DEF Credentials

LEMMA NewStateFile ==
    ASSUME FleetInv, [FullNext]_fleetVars, NEW e \in Endpoints, state[e] = None,
           state'[e] # None
    PROVE  \E q \in Procs : ReceiveGrant(q) /\ state'[e] = req[q].ans
  <1>0. FleetTypeOK /\ TokenGroups /\ RequestsInv
    BY DEF FleetInv
  <1>1. ASSUME NEW p \in Procs, ReceiveRotated(p) PROVE state'[e] = state[e]
    <2>1. Busy(p, "rotate", "answered") /\ req[p].dev \in DeviceIDs
      BY <1>0, <1>1, RotatedReceived DEF ReceiveRotated
    <2>2. Home(p) # None
      BY <2>1 DEF FleetInv, IdentityInv, ActsFor, Busy
    <2> QED
      BY <1>0, <1>1, <2>2, RotatedReceived DEF Save, Home
  <1>2. ASSUME NEW s \in Slots, ServeEnroll(s) \/ ServeRotate(s) PROVE UNCHANGED state
    BY <1>2 DEF ServeEnroll, ServeRotate
  <1>3. ASSUME NEW p \in Procs, GiveUp(p) PROVE UNCHANGED state
    BY <1>3 DEF GiveUp
  <1>4. PICK q \in Procs : ReceiveGrant(q)
    BY <1>0, <1>1, <1>2, <1>3, Shapes DEF Credentials, Quiet, Moves
  <1> QED
    BY <1>0, <1>4, GrantReceived DEF Save, Home

LEMMA StepGrants ==
    ASSUME FleetInv, [FullNext]_fleetVars PROVE GrantInv'
  <1>0. /\ FleetTypeOK /\ TokenGroups /\ RequestsInv /\ OwnerInv /\ GrantInv /\ IdentityInv
        /\ IdentityKept
    BY StepKeepsIdentity DEF FleetInv
  <1>1. ASSUME NEW p \in Procs, Busy(p, "enroll", "answered")
        PROVE  /\ req[p].ans.dev \in DeviceIDs /\ Enrolled(req[p].ans.dev)
               /\ devices[req[p].ans.dev].cred = req[p].ans.cred
               /\ \A e \in Endpoints : state[e] # None => state[e].dev # req[p].ans.dev
               /\ \A q \in Procs \ {p} :
                     Busy(q, "enroll", "answered") => req[q].ans.dev # req[p].ans.dev
    BY <1>0, <1>1, Answered DEF GrantInv
  <1>2. ASSUME NEW p \in Procs, Busy(p, "enroll", "answered")', Busy(p, "enroll", "answered"),
               req'[p] = req[p], ~ReceiveGrant(p)
        PROVE  /\ devices'[req'[p].ans.dev] # None
               /\ devices'[req'[p].ans.dev].cred = req'[p].ans.cred
               /\ \A e \in Endpoints : state'[e] # None => state'[e].dev # req'[p].ans.dev
               /\ \A q \in Procs \ {p} :
                     Busy(q, "enroll", "answered")' => req'[q].ans.dev # req'[p].ans.dev
    <2> DEFINE d == req[p].ans.dev
    <2>1. ASSUME NEW s \in Slots, ServeRotate(s) PROVE req[s].dev # d
      BY <1>0, <1>1, <1>2, <2>1 DEF ServeRotate, Busy, IdentityInv, ActsFor
    <2>2. Enrolled(d)' /\ devices'[d].cred = req[p].ans.cred
      BY <1>1, <1>2, <2>1, StepEnrolled
    <2>3. ASSUME NEW e \in Endpoints, state'[e] # None PROVE state'[e].dev # d
      <3>1. CASE state[e] # None
        BY <1>0, <1>1, <1>2, <3>1 DEF IdentityKept
      <3>2. CASE state[e] = None
        <4>1. PICK q \in Procs : ReceiveGrant(q) /\ state'[e] = req[q].ans
          BY <2>3, <3>2, NewStateFile
        <4>2. q # p /\ Busy(q, "enroll", "answered")
          BY <1>2, <4>1 DEF ReceiveGrant
        <4> QED
          BY <1>1, <1>2, <4>1, <4>2
      <3> QED
        BY <3>1, <3>2
    <2>4. ASSUME NEW q \in Procs \ {p}, Busy(q, "enroll", "answered")'
          PROVE  req'[q].ans.dev # d
      <3>1. CASE Busy(q, "enroll", "answered") /\ req'[q] = req[q]
        BY <1>1, <1>2, <3>1
      <3>2. ASSUME NEW c \in DeviceIDs, devices[c] = None,
                   req'[q].ans = [dev |-> c, cred |-> devices'[c].cred]
            PROVE  req'[q].ans.dev # d
        BY <1>1, <1>2, <3>2 DEF Enrolled
      <3> QED
        BY <2>4, <3>1, <3>2, GrantsGoBack
    <2> QED
      BY <1>2, <2>2, <2>3, <2>4 DEF Enrolled
  <1>3. ASSUME NEW p \in Procs, ServeEnroll(p), NEW d \in DeviceIDs,
               devices[d] = None, devices'[d] # None,
               req'[p].ans = [dev |-> d, cred |-> devices'[d].cred],
               \A q \in Slots \ {p} : req'[q] = req[q]
        PROVE  /\ devices'[req'[p].ans.dev] # None
               /\ devices'[req'[p].ans.dev].cred = req'[p].ans.cred
               /\ \A e \in Endpoints : state'[e] # None => state'[e].dev # req'[p].ans.dev
               /\ \A q \in Procs \ {p} :
                     Busy(q, "enroll", "answered")' => req'[q].ans.dev # req'[p].ans.dev
    <2>1. req'[p].ans.dev = d /\ req'[p].ans.cred = devices'[d].cred /\ state' = state
      BY <1>3 DEF ServeEnroll
    <2>2. \A e \in Endpoints : state[e] # None => state[e].dev # d
      BY <1>0, <1>3 DEF OwnerInv, Enrolled
    <2>3. ASSUME NEW q \in Procs \ {p}, Busy(q, "enroll", "answered")'
          PROVE  req'[q].ans.dev # d
      <3>1. req'[q] = req[q] /\ Busy(q, "enroll", "answered")
        BY <1>3, <2>3 DEF Slots, Busy
      <3> QED
        BY <1>1, <1>3, <3>1 DEF Enrolled
    <2> QED
      BY <1>3, <2>1, <2>2, <2>3 DEF Enrolled
  <1> QED
    BY <1>2, <1>3, GrantsGoBack DEF GrantInv, Enrolled

\* No step undoes a minted credential, and every new one is minted.
LEMMA StepMinted ==
    ASSUME FleetInv, [FullNext]_fleetVars PROVE MintedInv'
  <1>0. /\ FleetTypeOK /\ TokenGroups /\ RequestsInv /\ MintedInv /\ minted \in Nat
        /\ FleetTypeOK' /\ minted' \in Nat
    BY FleetTypes DEF FleetInv, FleetTypeOK, ServerTypeOK, TypeOK
  <1>1. /\ \A e \in Endpoints : state[e] # None => state[e].cred \in Nat
        /\ \A s \in Slots : req[s] # None => req[s].cred \in Nat
        /\ \A s \in Slots :
              req[s] # None /\ req[s].op \in {"enroll", "rotate"} /\ req[s].stage = "answered" =>
                  req[s].ans.cred \in Nat
    BY <1>0 DEF FleetTypeOK, Request, Grant, RequestsInv, WellFormed
  <1> DEFINE Bounded(r) == r # None =>
                 /\ r.cred <= minted'
                 /\ r.op \in {"enroll", "rotate"} /\ r.stage = "answered" => r.ans.cred <= minted'
             StateBounded == \A e \in Endpoints : state'[e] # None => state'[e].cred <= minted'
  <1>2. ASSUME minted <= minted'
        PROVE  /\ \A s \in Slots : Bounded(req[s])
               /\ \A e \in Endpoints : state[e] # None => state[e].cred <= minted'
    BY <1>0, <1>1, <1>2 DEF MintedInv
  <1>3. SUFFICES StateBounded /\ \A s \in Slots : Bounded(req'[s])
    BY DEF MintedInv
  <1>4. CASE Quiet
    BY <1>2, <1>4 DEF Quiet, CredsKept
  <1>5. CASE Moves
    <2>1. PICK q \in Slots : \E new \in Request \cup {None} :
              CredsKept /\ SlotStep(q, new) /\ state' = state
      BY <1>5 DEF Moves
    <2>2. PICK new \in Request \cup {None} : CredsKept /\ SlotStep(q, new)
      BY <2>1
    <2>3. Put(q, new) /\ minted <= minted'
      BY <1>0, <2>2, SlotPut DEF CredsKept
    <2>4. Bounded(new)
      <3> SUFFICES ASSUME new # None PROVE new.cred <= minted'
        BY <2>2 DEF SlotStep
      <3>1. CASE new.cred = 0
        BY <1>0, <3>1
      <3>2. CASE Continues(q, new)
        BY <1>2, <2>3, <3>2 DEF Continues
      <3>3. CASE Begins(q, new)
        BY <1>2, <2>3, <3>3, HomeAssumption DEF Begins, Home
      <3> QED
        BY <2>2, <3>1, <3>2, <3>3 DEF SlotStep
    <2> HIDE DEF Bounded
    <2> QED
      BY <1>2, <2>1, <2>3, <2>4 DEF Put
  <1>6. ASSUME NEW q \in Slots, NEW c \in DeviceIDs, NEW new \in Request \cup {None},
               req[q] # None, Issue(q, c, new), state' = state
        PROVE  StateBounded /\ \A s \in Slots : Bounded(req'[s])
    <2>1. minted <= minted' /\ Put(q, new) /\ minted' = minted + 1
      BY <1>0, <1>6 DEF Issue
    <2>2. Bounded(new)
      BY <1>2, <1>6, <2>1 DEF Issue
    <2> HIDE DEF Bounded
    <2> QED
      BY <1>2, <1>6, <2>1, <2>2 DEF Put
  <1>7. ASSUME NEW p \in Procs, Put(p, None), minted' = minted
        PROVE  \A s \in Slots : Bounded(req'[s])
    <2>1. \A s \in Slots : Bounded(req[s])
      BY <1>0, <1>2, <1>7
    <2> QED
      BY <1>7, <2>1 DEF Put
  <1>8. ASSUME NEW p \in Procs, NEW op \in {"enroll", "rotate"}, Busy(p, op, "answered")
        PROVE  req[p].ans.cred <= minted
    BY <1>0, <1>8 DEF MintedInv, Busy, Slots
  <1>9. ASSUME NEW p \in Procs, ReceiveGrant(p) PROVE StateBounded
    <2>1. \A e \in Endpoints : state[e] # None => state[e].cred <= minted'
      BY <1>0, <1>2, <1>9, GrantReceived
    <2> QED
      BY <1>0, <1>8, <1>9, <2>1, GrantReceived DEF ReceiveGrant, Save, Home
  <1>10. ASSUME NEW p \in Procs, ReceiveRotated(p) PROVE StateBounded
    <2>0. /\ minted' = minted /\ Busy(p, "rotate", "answered")
          /\ Save(HomeOf[p], [dev |-> req[p].dev, cred |-> req[p].ans.cred])
      BY <1>0, <1>10, RotatedReceived DEF ReceiveRotated
    <2>1. \A e \in Endpoints : state[e] # None => state[e].cred <= minted'
      BY <1>0, <1>2, <2>0
    <2>2. state'[HomeOf[p]].cred <= minted'
      BY <1>8, <2>0 DEF Save
    <2> QED
      BY <2>0, <2>1, <2>2 DEF Save
  <1>11. ASSUME NEW p \in Procs, GiveUp(p) PROVE StateBounded /\ \A s \in Slots : Bounded(req'[s])
    <2>1. /\ p \in Slots /\ req'[p] = None /\ minted' = minted /\ state' = state
          /\ \A q \in Slots \ {p} : req'[q] = req[q] \/ req'[q] = req[p]
      BY <1>0, <1>11, GivenUp
    <2>2. (\A s \in Slots : Bounded(req[s])) /\ StateBounded
      BY <1>0, <1>2, <2>1
    <2>3. Bounded(None)
      OBVIOUS
    <2> HIDE DEF Bounded
    <2> QED
      BY <2>1, <2>2, <2>3
  <1>12. ASSUME NEW s \in Slots, ServeEnroll(s)
         PROVE  StateBounded /\ \A q \in Slots : Bounded(req'[q])
    BY <1>0, <1>6, <1>12, EnrollIssues DEF Busy
  <1>13. ASSUME NEW s \in Slots, ServeRotate(s)
         PROVE  StateBounded /\ \A q \in Slots : Bounded(req'[q])
    BY <1>0, <1>6, <1>13, RotateIssues DEF Busy
  <1> QED
    BY <1>0, <1>4, <1>5, <1>7, <1>9, <1>10, <1>11, <1>12, <1>13, GrantReceived,
       RotatedReceived, Shapes DEF Credentials

-----------------------------------------------------------------------------
(***************************************************************************)
(* Access                                                                  *)
(***************************************************************************)
\* A late rotation belongs to a disturbed device.
LEMMA StepLate ==
    ASSUME FleetInv, [FullNext]_fleetVars, NEW s \in LateSlots, req'[s] # None,
           req'[s].op = "rotate"
    PROVE  req'[s].dev \in disturbed'
  <1>0. /\ FleetTypeOK /\ TokenGroups /\ RequestsInv /\ s \in Slots /\ s \notin Procs
        /\ (req[s] # None /\ req[s].op = "rotate" => req[s].dev \in disturbed)
    BY SlotsAssumption DEF FleetInv, AccessInv, Slots
  <1>1. ASSUME req'[s] = req[s], disturbed \subseteq disturbed'
        PROVE  req'[s].dev \in disturbed'
    BY <1>0, <1>1
  <1>2. CASE Quiet
    BY <1>1, <1>2 DEF Quiet
  <1>3. CASE Moves
    <2>1. PICK q \in Slots : \E new \in Request \cup {None} :
              SlotStep(q, new) /\ disturbed' = disturbed
      BY <1>3 DEF Moves
    <2>2. PICK new \in Request \cup {None} : SlotStep(q, new)
      BY <2>1
    <2>3. Put(q, new)
      BY <1>0, <2>2, SlotPut
    <2>4. CASE q # s
      BY <1>0, <1>1, <2>1, <2>3, <2>4 DEF Put
    <2>5. CASE q = s
      <3>1. new # None /\ new.op = "rotate" /\ req'[s] = new
        BY <2>3, <2>5 DEF Put
      <3>2. Continues(s, new)
        BY <1>0, <2>2, <2>5, <3>1 DEF SlotStep, Begins
      <3> QED
        BY <1>0, <2>1, <3>1, <3>2 DEF Continues
    <2> QED
      BY <2>4, <2>5
  <1>4. ASSUME NEW q \in Slots, NEW c \in DeviceIDs, NEW new \in Request \cup {None},
               Issue(q, c, new), disturbed \subseteq disturbed'
        PROVE  req'[s].dev \in disturbed'
    BY <1>0, <1>1, <1>4 DEF Issue, Put
  <1>5. ASSUME NEW q \in Slots, ServeEnroll(q) PROVE req'[s].dev \in disturbed'
    BY <1>0, <1>4, <1>5, EnrollIssues
  <1>6. ASSUME NEW q \in Slots, ServeRotate(q) PROVE req'[s].dev \in disturbed'
    <2>1. disturbed \subseteq disturbed' /\ req[q].dev \in DeviceIDs
      BY <1>0, <1>6, RotateIssues
    <2> QED
      BY <1>0, <1>4, <1>6, <2>1, RotateIssues
  <1>7. ASSUME NEW p \in Procs, Put(p, None), disturbed' = disturbed
        PROVE  req'[s].dev \in disturbed'
    BY <1>0, <1>1, <1>7 DEF Put
  <1>8. ASSUME NEW p \in Procs, GiveUp(p) PROVE req'[s].dev \in disturbed'
    <2>1. /\ req'[s] = req[s] \/ req'[s] = req[p]
          /\ disturbed' = IF req[p].op = "rotate" THEN disturbed \cup {req[p].dev}
                          ELSE disturbed
      BY <1>0, <1>8, GivenUp
    <2> QED
      BY <1>0, <2>1
  <1> QED
    BY <1>0, <1>2, <1>3, <1>5, <1>6, <1>7, <1>8, GrantReceived, RotatedReceived, Shapes
    DEF Credentials

\* What AccessInv says of endpoint e.
HasAccess(e) ==
    state[e] # None /\ state[e].dev \notin disturbed =>
        \/ UpToDate(e, state[e].dev)
        \/ \E p \in Procs : OnItsWay(p, e, state[e].dev)

\* Nothing of a device changes but requests with an old credential.
LEMMA AccessStays ==
    ASSUME FleetTypeOK, NEW e \in Endpoints, NEW d \in DeviceIDs,
           UpToDate(e, d) \/ \E p \in Procs : OnItsWay(p, e, d),
           state'[e] = state[e], devices'[d].cred = devices[d].cred,
           \A p \in Procs : Rotated(p, d) => req'[p] = req[p],
           \A p \in Procs : Rotated(p, d)' => Rotated(p, d),
           state[e].cred # devices[d].cred =>
               \A q \in Slots : ActsFor(q, d)' =>
                   \/ req'[q] = req[q]
                   \/ req'[q].cred # devices[d].cred /\ ~(Rotating(q, d)')
                   \/ /\ ActsFor(q, d) /\ req'[q].cred = req[q].cred
                      /\ Rotating(q, d)' => req'[q].cred = devices[d].cred
    PROVE  UpToDate(e, d)' \/ \E p \in Procs : OnItsWay(p, e, d)'
  <1>1. CASE UpToDate(e, d)
    BY <1>1 DEF UpToDate
  <1>2. ASSUME NEW p \in Procs, OnItsWay(p, e, d) PROVE OnItsWay(p, e, d)'
    <2>1. /\ Rotated(p, d) /\ req[p].ans = [dev |-> d, cred |-> devices[d].cred]
          /\ state[e].cred # devices[d].cred
          /\ \A q \in Slots \ {p} :
                ActsFor(q, d) => req[q].cred # devices[d].cred /\ ~Rotating(q, d)
      BY <1>2 DEF OnItsWay
    <2>2. req'[p] = req[p] /\ Rotated(p, d)'
      BY <2>1 DEF Rotated, Busy
    <2>3. ASSUME NEW q \in Slots \ {p}, ActsFor(q, d)'
          PROVE  req'[q].cred # devices[d].cred /\ ~(Rotating(q, d)')
      BY <2>1, <2>3 DEF ActsFor, Rotating
    <2> QED
      BY <2>1, <2>2, <2>3 DEF OnItsWay
  <1> QED
    BY <1>1, <1>2

LEMMA MovesAccess ==
    ASSUME FleetInv, Moves, NEW e \in Endpoints, state[e] # None, state[e].dev \in DeviceIDs,
           Enrolled(state[e].dev), HasAccess(e)
    PROVE  HasAccess(e)'
  <1> DEFINE d == state[e].dev
  <1>0. FleetTypeOK /\ RequestsInv /\ OwnerInv
    BY DEF FleetInv
  <1>1. PICK s \in Slots : \E new \in Request \cup {None} :
            CredsKept /\ SlotStep(s, new) /\ UNCHANGED <<state, disturbed>>
    BY DEF Moves
  <1>2. PICK new \in Request \cup {None} : SlotStep(s, new)
    BY <1>1
  <1>3. /\ req'[s] = new /\ \A q \in Slots \ {s} : req'[q] = req[q]
        /\ state' = state /\ disturbed' = disturbed /\ devices'[d].cred = devices[d].cred
    BY <1>0, <1>1, <1>2, SlotPut DEF Put, CredsKept
  <1>4. SUFFICES ASSUME d \notin disturbed
                 PROVE  UpToDate(e, d)' \/ \E p \in Procs : OnItsWay(p, e, d)'
    BY <1>3 DEF HasAccess
  <1>5. UpToDate(e, d) \/ \E p \in Procs : OnItsWay(p, e, d)
    BY <1>4 DEF HasAccess
  <1>6. \A p \in Procs : Rotated(p, d) => req'[p] = req[p]
    BY <1>2, <1>3 DEF SlotStep, Rotated, Slots
  <1>7. \A p \in Procs : Rotated(p, d)' => Rotated(p, d)
    BY <1>2, <1>3 DEF SlotStep, Rotated, Busy, Slots
  <1>8. ASSUME NEW q \in Slots, ActsFor(q, d)', state[e].cred # devices[d].cred,
               req'[q] # req[q]
        PROVE  \/ req'[q].cred # devices[d].cred /\ ~(Rotating(q, d)')
               \/ /\ ActsFor(q, d) /\ req'[q].cred = req[q].cred
                  /\ Rotating(q, d)' => req'[q].cred = devices[d].cred
    <2>1. /\ q = s /\ req'[q] = new /\ new # None /\ new.op # "enroll" /\ new.dev = d
      BY <1>3, <1>8 DEF ActsFor
    <2>2. CASE Begins(s, new)
      <3>1. HomeOf[s] \in Endpoints /\ Home(s) # None /\ Home(s).dev = d
        BY <2>1, <2>2, HomeAssumption DEF Begins
      <3>2. HomeOf[s] = e
        BY <1>0, <3>1 DEF OwnerInv, Home
      <3> QED
        BY <1>8, <2>1, <2>2, <3>2 DEF Begins, Home, Rotating
    <2>3. CASE Continues(s, new)
      BY <2>1, <2>3 DEF Continues, Rotating, ActsFor
    <2> QED
      BY <1>2, <2>1, <2>2, <2>3 DEF SlotStep
  <1> QED
    BY <1>0, <1>3, <1>5, <1>6, <1>7, <1>8, AccessStays

\* A transaction that leaves the device and its requests alone.
LEMMA OthersAccess ==
    ASSUME FleetTypeOK, NEW e \in Endpoints, state[e] # None, state[e].dev \in DeviceIDs,
           HasAccess(e), state'[e] = state[e], disturbed \subseteq disturbed',
           devices'[state[e].dev].cred = devices[state[e].dev].cred,
           \A q \in Slots : \/ req'[q] = req[q]
                            \/ ~ActsFor(q, state[e].dev) /\ ~(ActsFor(q, state[e].dev)')
    PROVE  HasAccess(e)'
  <1> DEFINE d == state[e].dev
  <1>1. SUFFICES ASSUME d \notin disturbed
                 PROVE  UpToDate(e, d)' \/ \E p \in Procs : OnItsWay(p, e, d)'
    BY DEF HasAccess
  <1>2. UpToDate(e, d) \/ \E p \in Procs : OnItsWay(p, e, d)
    BY <1>1 DEF HasAccess
  <1>3. \A p \in Procs : /\ Rotated(p, d) => req'[p] = req[p]
                         /\ Rotated(p, d)' => Rotated(p, d)
    BY DEF Rotated, Busy, ActsFor, Slots
  <1>4. \A q \in Slots : ActsFor(q, d)' => req'[q] = req[q]
    BY DEF ActsFor
  <1> QED
    BY <1>2, <1>3, <1>4, AccessStays

LEMMA IssueAccess ==
    ASSUME FleetInv, NEW s \in Slots, NEW c \in DeviceIDs, NEW new \in Request \cup {None},
           Issue(s, c, new), req[s] # None, req[s].op # "enroll" => req[s].dev = c,
           disturbed \subseteq disturbed', state' = state,
           NEW e \in Endpoints, state[e] # None, state[e].dev \in DeviceIDs \ {c},
           HasAccess(e)
    PROVE  HasAccess(e)'
  <1> DEFINE d == state[e].dev
  <1>1. FleetTypeOK /\ devices'[d] = devices[d]
    BY DEF FleetInv, Issue
  <1>2. \A q \in Slots \ {s} : req'[q] = req[q]
    BY DEF Issue, Put
  <1>3. ~ActsFor(s, d) /\ ~(ActsFor(s, d)')
    BY DEF Issue, Put, ActsFor
  <1> QED
    BY <1>1, <1>2, <1>3, OthersAccess

\* The one rotation of a device that is not disturbed.
LEMMA RotationAccess ==
    ASSUME FleetInv, NEW s \in Slots, ServeRotate(s), NEW e \in Endpoints, state[e] # None,
           NEW d \in DeviceIDs, state[e].dev = d, req[s].dev = d
    PROVE  HasAccess(e)'
  <1>0. FleetTypeOK /\ RequestsInv /\ MintedInv
    BY DEF FleetInv
  <1>1. /\ Busy(s, "rotate", "authed") /\ d \in DeviceIDs /\ state' = state
        /\ disturbed' = IF \E q \in Slots \ {s} : Rotating(q, d)
                        THEN disturbed \cup {d} ELSE disturbed
    BY <1>0, RotateIssues
  <1>2. PICK new \in Request \cup {None} : Issue(s, d, new)
    BY <1>0, RotateIssues
  <1>3. SUFFICES ASSUME d \notin disturbed' PROVE OnItsWay(s, e, d)' /\ s \in Procs
    BY <1>1 DEF HasAccess
  <1>4. d \notin disturbed /\ \A q \in Slots \ {s} : ~Rotating(q, d)
    BY <1>1, <1>3
  <1>5. s \in Procs
    BY <1>1, <1>4 DEF FleetInv, AccessInv, Busy, Slots
  <1>6. /\ req'[s] = new /\ new # None /\ new.op = "rotate" /\ new.stage = "answered"
        /\ new.dev = d /\ new.ans = [dev |-> d, cred |-> minted + 1]
        /\ \A q \in Slots \ {s} : req'[q] = req[q]
        /\ devices'[d].cred = minted + 1 /\ minted \in Nat
    BY <1>1, <1>2, <1>5 DEF Issue, Put, Busy
  <1>7. state[e].cred # minted + 1
    <2>1. state[e].cred \in Nat /\ state[e].cred <= minted
      BY <1>0 DEF MintedInv, FleetTypeOK, Grant
    <2> QED
      BY <1>6, <2>1
  <1>8. ASSUME NEW q \in Slots \ {s}, req[q] # None PROVE req[q].cred # minted + 1
    <2>1. req[q].cred \in Nat /\ req[q].cred <= minted
      BY <1>0, <1>8 DEF MintedInv, FleetTypeOK, Request
    <2> QED
      BY <1>6, <2>1
  <1> QED
    BY <1>1, <1>4, <1>5, <1>6, <1>7, <1>8 DEF OnItsWay, Rotated, Busy, ActsFor, Rotating

\* The first state file of an endpoint.
LEMMA GrantAccess ==
    ASSUME FleetInv, NEW p \in Procs, ReceiveGrant(p), Home(p) = None PROVE HasAccess(HomeOf[p])'
  <1> DEFINE e == HomeOf[p]
             d == req[p].ans.dev
  <1>0. FleetTypeOK /\ RequestsInv /\ GrantInv /\ IdentityInv
    BY DEF FleetInv
  <1>1. Busy(p, "enroll", "answered")
    BY DEF ReceiveGrant
  <1>2. e \in Endpoints /\ d \in DeviceIDs
    BY <1>0, <1>1, Answered
  <1>3. /\ devices[d].cred = req[p].ans.cred
        /\ \A f \in Endpoints : state[f] # None => state[f].dev # d
    BY <1>0, <1>1 DEF GrantInv
  <1>4. /\ state'[e] = req[p].ans /\ devices' = devices /\ req'[p] = None
        /\ \A q \in Slots \ {p} : req'[q] = req[q]
    BY <1>0, GrantReceived DEF Save, Put
  <1>5. \A q \in Procs : ~ActsFor(q, d)
    BY <1>0, <1>2, <1>3 DEF IdentityInv, Slots
  <1>6. ASSUME NEW q \in Procs, req'[q] # None, req'[q].op = "rotate" PROVE req'[q].dev # d
    BY <1>4, <1>5, <1>6 DEF ActsFor, Slots
  <1>7. UpToDate(e, state[e].dev)'
    BY <1>3, <1>4, <1>6 DEF UpToDate, Rotated, Busy
  <1> QED
    BY <1>7 DEF HasAccess

\* The answer of the rotation is stored.
LEMMA RotatedAccess ==
    ASSUME FleetInv, NEW p \in Procs, ReceiveRotated(p), HasAccess(HomeOf[p])
    PROVE  HasAccess(HomeOf[p])'
  <1> DEFINE e == HomeOf[p]
             d == req[p].dev
  <1>0. FleetTypeOK /\ RequestsInv /\ IdentityInv
    BY DEF FleetInv
  <1>1. Busy(p, "rotate", "answered") /\ d \in DeviceIDs /\ p \in Slots
    BY <1>0, RotatedReceived DEF ReceiveRotated, Slots
  <1>2. Rotated(p, d) /\ ActsFor(p, d) /\ Rotating(p, d)
    BY <1>1 DEF Rotated, Busy, ActsFor, Rotating
  <1>3. state[e] # None /\ state[e].dev = d
    BY <1>0, <1>1, <1>2 DEF IdentityInv, Home
  <1>4. /\ state'[e] = [dev |-> d, cred |-> req[p].ans.cred] /\ devices' = devices
        /\ disturbed' = disturbed /\ req'[p] = None
        /\ \A q \in Slots \ {p} : req'[q] = req[q]
    BY <1>0, RotatedReceived DEF Save, Put
  <1>5. state'[e].dev = d /\ state'[e].cred = req[p].ans.cred
    BY <1>4
  <1>6. SUFFICES ASSUME d \notin disturbed PROVE UpToDate(e, state[e].dev)'
    BY <1>4, <1>5 DEF HasAccess
  <1>7. PICK q \in Procs : OnItsWay(q, e, d)
    BY <1>2, <1>3, <1>6 DEF HasAccess, UpToDate
  <1>8. q = p
    BY <1>1, <1>2, <1>7 DEF OnItsWay
  <1>9. /\ req[p].ans = [dev |-> d, cred |-> devices[d].cred]
        /\ \A r \in Slots \ {p} : ActsFor(r, d) => ~Rotating(r, d)
    BY <1>7, <1>8 DEF OnItsWay
  <1>10. state'[e].cred = devices'[d].cred
    BY <1>4, <1>5, <1>9
  <1>11. ASSUME NEW r \in Procs PROVE ~(req'[r] # None /\ req'[r].op = "rotate"
                                        /\ req'[r].stage = "answered" /\ req'[r].dev = d)
    BY <1>4, <1>9 DEF ActsFor, Rotating, Slots
  <1> QED
    BY <1>5, <1>10, <1>11 DEF UpToDate, Rotated, Busy

LEMMA GiveUpAccess ==
    ASSUME FleetInv, NEW p \in Procs, GiveUp(p), NEW e \in Endpoints, NEW d \in DeviceIDs,
           state[e] # None, state[e].dev = d, HasAccess(e)
    PROVE  HasAccess(e)'
  <1>0. FleetTypeOK /\ RequestsInv
    BY DEF FleetInv
  <1>1. /\ req[p] \in Request /\ p \in Slots /\ req'[p] = None
        /\ \A q \in Slots \ {p} :
              req'[q] = req[q] \/ (q \in LateSlots /\ req'[q] = req[p])
        /\ disturbed' = IF req[p].op = "rotate" THEN disturbed \cup {req[p].dev} ELSE disturbed
        /\ state' = state /\ devices' = devices
    BY <1>0, GivenUp
  <1>2. SUFFICES ASSUME d \notin disturbed'
                 PROVE  UpToDate(e, d)' \/ \E q \in Procs : OnItsWay(q, e, d)'
    BY <1>1 DEF HasAccess
  <1>3. d \notin disturbed /\ ~Rotated(p, d) /\ ~Rotating(p, d)
    BY <1>1, <1>2 DEF Rotated, Busy, Rotating
  <1>4. UpToDate(e, d) \/ \E q \in Procs : OnItsWay(q, e, d)
    BY <1>3 DEF HasAccess
  <1>5. \A q \in Procs : q # p => q \in Slots /\ req'[q] = req[q]
    BY <1>1, SlotsAssumption DEF Slots
  <1>6. CASE UpToDate(e, d)
    BY <1>1, <1>5, <1>6 DEF UpToDate, Rotated, Busy
  <1>7. ASSUME NEW q \in Procs, OnItsWay(q, e, d) PROVE OnItsWay(q, e, d)'
    <2>1. /\ Rotated(q, d) /\ req[q].ans = [dev |-> d, cred |-> devices[d].cred]
          /\ state[e].cred # devices[d].cred
          /\ \A r \in Slots \ {q} :
                ActsFor(r, d) => req[r].cred # devices[d].cred /\ ~Rotating(r, d)
      BY <1>7 DEF OnItsWay
    <2>2. q # p /\ req'[q] = req[q] /\ Rotated(q, d)'
      BY <1>3, <1>5, <2>1 DEF Rotated, Busy
    <2>3. ASSUME NEW r \in Slots \ {q}, ActsFor(r, d)'
          PROVE  req'[r].cred # devices[d].cred /\ ~(Rotating(r, d)')
      <3>1. CASE req'[r] = req[r]
        BY <2>1, <2>3, <3>1 DEF ActsFor, Rotating
      <3>2. CASE req'[r] = req[p]
        BY <1>1, <2>1, <2>2, <2>3, <3>2 DEF ActsFor, Rotating
      <3> QED
        BY <1>1, <2>3, <3>1, <3>2 DEF ActsFor
    <2> QED
      BY <1>1, <2>1, <2>2, <2>3 DEF OnItsWay
  <1> QED
    BY <1>4, <1>6, <1>7

LEMMA StepAccess ==
    ASSUME FleetInv, [FullNext]_fleetVars PROVE AccessInv'
  <1>0. /\ FleetTypeOK /\ TokenGroups /\ RequestsInv /\ OwnerInv
        /\ \A e \in Endpoints : HasAccess(e)
    BY DEF FleetInv, AccessInv, HasAccess
  <1>1. \A e \in Endpoints : state[e] # None =>
            state[e].dev \in DeviceIDs /\ Enrolled(state[e].dev)
    BY <1>0 DEF FleetTypeOK, Grant, OwnerInv
  <1>2. ASSUME NEW e \in Endpoints PROVE HasAccess(e)'
    <2>0. CASE state'[e] = None
      BY <2>0 DEF HasAccess
    <2>1. CASE Quiet
      <3>1. /\ state' = state /\ disturbed' = disturbed /\ req' = req
            /\ \A d \in DeviceIDs : Enrolled(d) => devices'[d].cred = devices[d].cred
        BY <2>1 DEF Quiet, CredsKept
      <3> QED
        BY <1>0, <1>1, <2>0, <3>1, OthersAccess
    <2>2. CASE Moves
      <3>1. state' = state
        BY <2>2 DEF Moves
      <3> QED
        BY <1>0, <1>1, <2>0, <2>2, <3>1, MovesAccess
    <2>3. ASSUME NEW s \in Slots, ServeEnroll(s) PROVE HasAccess(e)'
      <3>1. Busy(s, "enroll", "sent") /\ state' = state /\ disturbed' = disturbed
        BY <1>0, <2>3, EnrollIssues
      <3>2. PICK d \in DeviceIDs : devices[d] = None /\ \E new \in Request \cup {None} :
                                       Issue(s, d, new)
        BY <1>0, <2>3, EnrollIssues
      <3>3. state[e] # None => state[e].dev # d
        BY <1>1, <3>2 DEF Enrolled
      <3> QED
        BY <1>0, <1>1, <2>0, <3>1, <3>2, <3>3, IssueAccess DEF Busy
    <2>4. ASSUME NEW s \in Slots, ServeRotate(s) PROVE HasAccess(e)'
      <3>1. /\ Busy(s, "rotate", "authed") /\ req[s].dev \in DeviceIDs /\ state' = state
            /\ disturbed \subseteq disturbed'
        BY <1>0, <2>4, RotateIssues
      <3>2. PICK new \in Request \cup {None} : Issue(s, req[s].dev, new)
        BY <1>0, <2>4, RotateIssues
      <3>3. CASE state[e] # None /\ state[e].dev = req[s].dev
        BY <2>4, <3>1, <3>3, RotationAccess
      <3>4. CASE state[e] # None /\ state[e].dev # req[s].dev
        BY <1>0, <1>1, <3>1, <3>2, <3>4, IssueAccess DEF Busy
      <3> QED
        BY <2>0, <3>1, <3>3, <3>4
    <2>5. ASSUME NEW p \in Procs, ReceiveGrant(p) PROVE HasAccess(e)'
      <3>1. /\ Put(p, None) /\ devices' = devices /\ disturbed' = disturbed
            /\ Save(HomeOf[p], IF Home(p) = None THEN req[p].ans ELSE Home(p))
            /\ req[p].op = "enroll"
        BY <1>0, <2>5, GrantReceived DEF ReceiveGrant, Busy
      <3>2. CASE e = HomeOf[p] /\ Home(p) = None
        BY <2>5, <3>2, GrantAccess
      <3>3. CASE ~(e = HomeOf[p] /\ Home(p) = None)
        <4>1. state'[e] = state[e]
          BY <3>1, <3>3 DEF Save, Home
        <4>2. \A q \in Slots : \/ req'[q] = req[q]
                               \/ ~ActsFor(q, state[e].dev) /\ ~(ActsFor(q, state[e].dev)')
          BY <3>1 DEF Put, ActsFor
        <4> QED
          BY <1>0, <1>1, <2>0, <3>1, <4>1, <4>2, OthersAccess
      <3> QED
        BY <3>2, <3>3
    <2>6. ASSUME NEW p \in Procs, ReceiveRotated(p) PROVE HasAccess(e)'
      <3>1. /\ Put(p, None) /\ devices' = devices /\ disturbed' = disturbed
            /\ Save(HomeOf[p], [dev |-> req[p].dev, cred |-> req[p].ans.cred])
            /\ req[p].dev \in DeviceIDs /\ Busy(p, "rotate", "answered")
        BY <1>0, <2>6, RotatedReceived DEF ReceiveRotated
      <3>2. CASE e = HomeOf[p]
        BY <1>0, <2>6, <3>2, RotatedAccess
      <3>3. CASE e # HomeOf[p]
        <4>1. state'[e] = state[e]
          BY <3>1, <3>3 DEF Save
        <4>2. Home(p) # None /\ Home(p).dev = req[p].dev
          BY <3>1 DEF FleetInv, IdentityInv, ActsFor, Busy
        <4>3. state[e] # None => state[e].dev # req[p].dev
          BY <1>0, <3>3, <4>2, HomeAssumption DEF OwnerInv, Home
        <4>4. state[e] # None =>
                 \A q \in Slots : \/ req'[q] = req[q]
                                  \/ ~ActsFor(q, state[e].dev) /\ ~(ActsFor(q, state[e].dev)')
          BY <3>1, <4>3 DEF Put, ActsFor
        <4> QED
          BY <1>0, <1>1, <2>0, <3>1, <4>1, <4>4, OthersAccess
      <3> QED
        BY <3>2, <3>3
    <2>7. ASSUME NEW p \in Procs, GiveUp(p) PROVE HasAccess(e)'
      <3>1. state' = state
        BY <2>7 DEF GiveUp
      <3> QED
        BY <1>0, <1>1, <2>0, <2>7, <3>1, GiveUpAccess
    <2> QED
      BY <1>0, <2>1, <2>2, <2>3, <2>4, <2>5, <2>6, <2>7, Shapes DEF Credentials
  <1> QED
    BY <1>2, StepLate DEF AccessInv, HasAccess

-----------------------------------------------------------------------------
(***************************************************************************)
(* The theorems                                                            *)
(***************************************************************************)
LEMMA InitFleetInv == FleetInit => FleetInv
  <1> SUFFICES ASSUME FleetInit PROVE FleetInv
    OBVIOUS
  <1>1. TypeOK /\ TokenGroups /\ TokenInv
    BY InitStoreTypes, InitTokenInv DEF FleetInit, ServerInit
  <1>2. FleetTypeOK
    BY <1>1, NoRowsReport, FleetBoundsAssumption DEF FleetInit, ServerInit, FleetTypeOK, ServerTypeOK
  <1>3. (\A e \in Endpoints : state[e] = None) /\ (\A s \in Slots : req[s] = None)
    BY DEF FleetInit
  <1>4. \A p \in Procs : p \in Slots
    BY DEF Slots
  <1>5. RequestsInv /\ IdentityInv /\ OwnerInv
    BY <1>3, <1>4 DEF RequestsInv, IdentityInv, OwnerInv, ActsFor, Slots
  <1>6. GrantInv /\ MintedInv /\ AccessInv
    BY <1>3, <1>4 DEF GrantInv, MintedInv, AccessInv, Busy, Slots
  <1> QED
    BY <1>1, <1>2, <1>5, <1>6 DEF FleetInv

\* Every reachable state of the fleet satisfies the inductive invariant.
THEOREM FleetInvariance == FleetSpec => []FleetInv
  <1>1. FleetInv /\ [FullNext]_fleetVars => FleetInv'
    <2> SUFFICES ASSUME FleetInv, [FullNext]_fleetVars PROVE FleetInv'
      OBVIOUS
    <2>1. FleetTypeOK' /\ TokenGroups' /\ TokenInv' /\ RequestsInv'
      BY FleetTypes DEF FleetInv
    <2> QED
      BY <2>1, StepIdentity, StepOwners, StepGrants, StepMinted, StepAccess DEF FleetInv
  <1> QED
    BY <1>1, InitFleetInv, PTL DEF FleetSpec

\* State files, requests, counters and tables keep their types.
THEOREM FleetTypeCorrect == FleetSpec => []FleetTypeOK
  <1>1. FleetInv => FleetTypeOK
    BY DEF FleetInv
  <1> QED
    BY <1>1, FleetInvariance, PTL

\* An endpoint is the device it first enrolled as, whatever its processes race,
\* give up or rotate.
THEOREM IdentityIsStable == FleetSpec => StableIdentity
  <1>1. FleetInv /\ [FullNext]_fleetVars => [IdentityKept]_fleetVars
    BY StepKeepsIdentity
  <1> QED
    BY <1>1, FleetInvariance, PTL DEF FleetSpec, StableIdentity, IdentityKept

\* Only a rotation whose answer is lost, or a second one at the same time, locks
\* an endpoint out: withAgent otherwise accepts the credential of its state file
\* or of the answer its own process is about to store.
THEOREM AccessIsKept == FleetSpec => []EndpointKeepsAccess
  <1>1. FleetInv => EndpointKeepsAccess
    <2> SUFFICES ASSUME FleetInv, NEW e \in Endpoints, state[e] # None,
                        state[e].dev \notin disturbed
                 PROVE  \/ state[e].cred = devices[state[e].dev].cred
                        \/ \E p \in Procs :
                              /\ HomeOf[p] = e
                              /\ Busy(p, "rotate", "answered")
                              /\ req[p].ans = [dev |-> state[e].dev,
                                               cred |-> devices[state[e].dev].cred]
      BY DEF EndpointKeepsAccess
    <2>1. CASE UpToDate(e, state[e].dev)
      BY <2>1 DEF UpToDate
    <2>2. ASSUME NEW p \in Procs, OnItsWay(p, e, state[e].dev) PROVE HomeOf[p] = e
      <3>1. ActsFor(p, state[e].dev) /\ state[e].dev \in DeviceIDs
        BY <2>2 DEF OnItsWay, Rotated, Busy, ActsFor, FleetInv, FleetTypeOK, Grant
      <3>2. Home(p) # None /\ Home(p).dev = state[e].dev
        BY <3>1 DEF FleetInv, IdentityInv
      <3> QED
        BY <3>2, HomeAssumption DEF FleetInv, OwnerInv, Home
    <2>3. CASE \E p \in Procs : OnItsWay(p, e, state[e].dev)
      BY <2>2, <2>3 DEF OnItsWay, Rotated
    <2> QED
      BY <2>1, <2>3 DEF FleetInv, AccessInv
  <1> QED
    BY <1>1, FleetInvariance, PTL

\* Revocation is final for the whole fleet: no late heartbeat, report, rotation
\* or enrollment changes what the controller stores of a revoked device.
THEOREM FleetRevocationIsFinal == FleetSpec => RevokedIsFinal
  <1>1. FleetInv /\ [FullNext]_fleetVars => [RevokedKept]_storeVars
    BY FleetStoreSteps, StoreRevokedKept DEF FleetInv, FleetTypeOK, ServerTypeOK
  <1> QED
    BY <1>1, FleetInvariance, PTL DEF FleetSpec, RevokedIsFinal, RevokedKept

\* Tokens stay one-use when requests are given up and served late.
THEOREM FleetTokensAreOneUse == FleetSpec => []OneTokenOneDevice
  <1>1. FleetInv => OneTokenOneDevice
    BY DEF FleetInv, TokenInv
  <1> QED
    BY <1>1, FleetInvariance, PTL
-----------------------------------------------------------------------------
(***************************************************************************)
(* Refinement.  Taking an agent's request apart, into the authentication,  *)
(* the handler's transaction and an answer that may get lost, shows the    *)
(* controller nothing it would not see if requests were served at once.    *)
(***************************************************************************)
LEMMA FleetServerSteps ==
    ASSUME FleetTypeOK, RequestsInv, [FullNext]_fleetVars
    PROVE  Next \/ UNCHANGED vars
  <1>1. ASSUME DeviceAdmin \/ Expiry \/ PolicyAdmin PROVE Next
    BY <1>1 DEF Next
  <1>2. ASSUME NEW s \in Slots, ServeEnroll(s) PROVE AgentNext
    <2>1. req[s].tok \in TokenIDs /\ req[s].meta \in Metadata
      BY <1>2, SlotRequest DEF ServeEnroll, Busy, RequestsInv, WellFormed, Request
    <2> QED
      BY <1>2, <2>1 DEF ServeEnroll, AgentNext
  <1>3. ASSUME NEW s \in Slots, ServeHeartbeat(s) \/ ServeReport(s) \/ ServeRotate(s)
        PROVE  AgentNext
    <2>1. req[s].dev \in DeviceIDs /\ req[s].meta \in Metadata /\ req[s].report \in Report
      BY <1>3, SlotRequest
      DEF ServeHeartbeat, ServeReport, ServeRotate, Busy, RequestsInv, WellFormed, Request
    <2> QED
      BY <1>3, <2>1 DEF ServeHeartbeat, ServeReport, ServeRotate, AgentNext
  <1>4. ASSUME NEW s \in Slots, Authenticate(s) \/ ServePolicy(s) \/ Refuse(s) \/ CancelLate(s)
        PROVE  UNCHANGED vars
    BY <1>4 DEF Authenticate, ServePolicy, Refuse, CancelLate, vars
  <1>5. ASSUME NEW e \in Endpoints, NEW k \in Keys, Observe(e, k) PROVE UNCHANGED vars
    BY <1>5 DEF Observe, vars
  <1>6. ASSUME NEW p \in Procs,
               \/ \E t \in TokenIDs, m \in Metadata : StartEnroll(p, t, m)
               \/ \E m \in Metadata : StartSync(p, m)
               \/ StartRotate(p) \/ Receive(p) \/ ReceivePolicy(p) \/ PersistFails(p) \/ GiveUp(p)
        PROVE  UNCHANGED vars
    BY <1>6 DEF StartEnroll, StartSync, StartRotate, Receive, ReceiveGrant, ReceiveHeartbeat,
       ReceiveAccepted, ReceiveRotated, ReceivePolicy, PersistFails, GiveUp, vars
  <1>7. ASSUME UNCHANGED fleetVars PROVE UNCHANGED vars
    BY <1>7 DEF fleetVars, vars
  <1> QED
    BY <1>1, <1>2, <1>3, <1>4, <1>5, <1>6, <1>7 DEF FullNext, FleetNext, Serve, Next

\* The controller inside the fleet behaves like ControllerServer, in which withAgent
\* and the handler behind it are one step: the window between the two, requests
\* served after their client gave up and lost answers add nothing.
THEOREM FleetImplementsController == FleetSpec => Spec
  <1>1. FleetInit => ServerInit
    BY DEF FleetInit
  <1>2. FleetInv /\ [FullNext]_fleetVars => [Next]_vars
    BY FleetServerSteps DEF FleetInv
  <1> QED
    BY <1>1, <1>2, FleetInvariance, PTL DEF FleetSpec, Spec

\* So what the admin API promises also holds with the agents' requests under way:
\* assignments resolve, the trail accounts for every change, no edit is lost.
THEOREM FleetKeepsControllerPromises ==
    FleetSpec => []AssignmentsResolve /\ []AuditAccountsForState /\ NoLostUpdate
  BY FleetImplementsController, AssignmentsAlwaysResolve, TrailAccountsForState, NoUpdateIsLost, PTL

=============================================================================
