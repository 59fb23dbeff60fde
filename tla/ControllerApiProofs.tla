------------------------ MODULE ControllerApiProofs ------------------------
(***************************************************************************)
(* Theorems about ControllerApi, for any number of requests, sessions,     *)
(* tokens, devices, backends and restarts.                                 *)
(***************************************************************************)
EXTENDS ControllerApi, FiniteSetTheorems, TLAPS

(***************************************************************************)
(* Type correctness, and what a request holds where it waits: an           *)
(* enrollment that has read its token holds an issued one, a heartbeat is  *)
(* of an enrolled device, and a sign-in that keeps its window has one.     *)
(***************************************************************************)

HoldsWhatItNeeds(q) ==
  /\ q.pc = "commit" => q.op = "enroll" /\ q.holds \in Tokens /\ tokens[q.holds] # None
  /\ q.pc = "probe" => q.op \in {"saveStorage", "testStorage"} /\ q.holds \in Backends
  /\ q.op = "enroll" => q.by = None
  /\ q.op = "heartbeat" => q.by \in Devices /\ devices[q.by] # None
  /\ q.op = "signIn" => q.by \in Clients /\ (q.holds # "dropped" => attempts[q.by] # None)

RequestsOK == \A r \in Requests : req[r] # None => HoldsWhatItNeeds(req[r])

Sound == TypeOK /\ RequestsOK

\* The initial state is sound.
LEMMA SoundInit == Init => Sound
<1> SUFFICES ASSUME Init PROVE Sound
  OBVIOUS
<1>1. mix \subseteq Ops
  BY MixesOK DEF Init
<1>2. /\ sessions \in [Sessions -> Session \cup {None}]
      /\ tokens \in [Tokens -> Token \cup {None}]
      /\ devices \in [Devices -> Device \cup {None}]
      /\ attempts \in [Clients -> Attempt \cup {None}]
      /\ req \in [Requests -> Request \cup {None}]
  BY DEF Init
<1>3. RequestsOK
  BY DEF Init, RequestsOK
<1> QED BY <1>1, <1>2, <1>3 DEF Init, Sound, TypeOK

\* The row a request waits in has a type of its own.
LEMMA RequestOf ==
  ASSUME TypeOK, NEW r \in Requests, req[r] # None
  PROVE  req[r] \in Request
BY DEF TypeOK

\* A row that is there has the type of its table.
LEMMA RowOf ==
  ASSUME TypeOK
  PROVE  /\ \A s \in Sessions : sessions[s] # None => sessions[s] \in Session
         /\ \A t \in Tokens : tokens[t] # None => tokens[t] \in Token
         /\ \A d \in Devices : devices[d] # None => devices[d] \in Device
         /\ \A c \in Clients : attempts[c] # None => attempts[c] \in Attempt
         /\ backend # None => backend \in Backend
BY DEF TypeOK

\* The administrator's check touches only the row of its session.
LEMMA AdminRows ==
  ASSUME TypeOK, NEW by \in Callers, RequireAdmin(by)
  PROVE  /\ sessions' \in [Sessions -> Session \cup {None}]
         /\ by \in Sessions => Live(by)
         /\ \A s \in Sessions :
              \/ sessions'[s] = sessions[s]
              \/ /\ s = by /\ sessions[s] # None /\ sessions'[s] # None
                 /\ sessions'[s] = [sessions[s] EXCEPT !.seen = clock]
<1>1. CASE by = Script
  BY <1>1, ConstantsOK DEF RequireAdmin, TypeOK
<1>2. CASE by \in Sessions
  <2>1. sessions[by] \in Session /\ Live(by)
    BY <1>2, RowOf, ConstantsOK DEF RequireAdmin, Live
  <2>2. sessions' = [sessions EXCEPT ![by] = [sessions[by] EXCEPT !.seen = clock]]
    BY <1>2, ConstantsOK DEF RequireAdmin
  <2>3. [sessions[by] EXCEPT !.seen = clock] \in Session
    BY <2>1 DEF TypeOK, Session
  <2> QED BY <1>2, <2>1, <2>2, <2>3, NoneIsAbsent DEF TypeOK
<1> QED BY <1>1, <1>2 DEF RequireAdmin

\* Requests whose window is dropped stay what they are otherwise.
LEMMA DroppedRows ==
  ASSUME TypeOK, NEW c \in Clients
  PROVE  /\ Dropped(c) \in [Requests -> Request \cup {None}]
         /\ \A q \in Requests :
              /\ Dropped(c)[q] = None <=> req[q] = None
              /\ req[q] # None /\ req[q].op = "signIn" /\ req[q].by = c =>
                   Dropped(c)[q] = [req[q] EXCEPT !.holds = "dropped"]
              /\ ~(req[q] # None /\ req[q].op = "signIn" /\ req[q].by = c) =>
                   Dropped(c)[q] = req[q]
<1>1. \A q \in Requests : req[q] # None => [req[q] EXCEPT !.holds = "dropped"] \in Request
  BY RequestOf DEF Request
<1> QED BY <1>1, NoneIsAbsent DEF Dropped, TypeOK

\* A request that arrives has the type of a request.
LEMMA WaitsRows ==
  ASSUME TypeOK, NEW r \in Requests, NEW op \in Ops, NEW pc \in {"body", "commit", "probe"},
         NEW by \in Callers \cup Clients \cup Devices \cup {None},
         NEW holds \in {"kept", "dropped"} \cup Tokens \cup Backends \cup {None},
         Waits(r, op, pc, by, holds)
  PROVE  /\ req' \in [Requests -> Request \cup {None}]
         /\ \A q \in Requests \ {r} : req'[q] = req[q]
         /\ req[r] = None /\ req'[r] # None
         /\ req'[r].op = op /\ req'[r].pc = pc /\ req'[r].by = by /\ req'[r].holds = holds
         /\ req'[r].at = IF by \in Sessions THEN clock ELSE 0
<1> DEFINE q == [op |-> op, pc |-> pc, by |-> by, holds |-> holds,
                 at |-> IF by \in Sessions THEN clock ELSE 0]
<1>1. q \in Request
  BY DEF TypeOK, Request
<1>2. req' = [req EXCEPT ![r] = q] /\ req[r] = None
  BY DEF Waits
<1>3. q.op = op /\ q.pc = pc /\ q.by = by /\ q.holds = holds
      /\ q.at = IF by \in Sessions THEN clock ELSE 0
  OBVIOUS
<1> HIDE DEF q
<1> QED BY <1>1, <1>2, <1>3, NoneIsAbsent DEF TypeOK

\* A request that ends leaves the others alone.
LEMMA EndsRows ==
  ASSUME TypeOK, NEW r \in Requests, Ends(r)
  PROVE  /\ req' \in [Requests -> Request \cup {None}]
         /\ req'[r] = None
         /\ \A q \in Requests \ {r} : req'[q] = req[q]
BY DEF TypeOK, Ends

\* Signing in keeps the state sound.
LEMMA SignInSound ==
  ASSUME Sound, NEW r \in Requests, NEW c, NEW s,
         \/ c \in Clients /\ ArriveSignIn(r, c)
         \/ SignInFails(r)
         \/ s \in Sessions /\ SignIn(r, s)
  PROVE  Sound'
<1> USE DEF Sound
<1>1. CASE c \in Clients /\ ArriveSignIn(r, c)
  <2> c \in Clients
    BY <1>1
  <2>1. SignInRequest(c) \in Request
    BY DEF SignInRequest, Request, Ops
  <2>2. attempts' \in [Clients -> Attempt \cup {None}]
    BY <1>1, ConstantsOK DEF ArriveSignIn, TypeOK, Attempt
  <2>3. attempts'[c] # None /\ \A d \in Clients \ {c} : attempts'[d] = attempts[d]
    BY <1>1, <2>2, NoneIsAbsent, ConstantsOK DEF ArriveSignIn, TypeOK, Over, Attempt
  <2>4. req' \in [Requests -> Request \cup {None}]
    BY <1>1, <2>1, DroppedRows DEF ArriveSignIn, TypeOK
  <2>5. TypeOK'
    BY <1>1, <2>2, <2>4 DEF ArriveSignIn, TypeOK, access, enrollments, storage
  <2>6. ASSUME NEW q \in Requests, req'[q] # None PROVE HoldsWhatItNeeds(req[q])'
    <3>1. CASE q = r
      <4>1. req'[q] = SignInRequest(c)
        BY <1>1, <3>1, DroppedRows DEF ArriveSignIn, TypeOK
      <4> QED BY <4>1, <2>3 DEF SignInRequest, HoldsWhatItNeeds
    <3>2. CASE q # r
      <4>1. req'[q] \in {req[q], Dropped(c)[q]}
        BY <1>1, <3>2, DroppedRows DEF ArriveSignIn, TypeOK
      <4>0. Dropped(c)[q] = None <=> req[q] = None
        BY DroppedRows
      <4>2. req[q] # None /\ req[q] \in Request /\ HoldsWhatItNeeds(req[q])
        BY <4>0, <4>1, <2>6, RequestOf DEF RequestsOK
      <4>3. UNCHANGED <<tokens, devices>>
        BY <1>1 DEF ArriveSignIn, enrollments
      <4>4. CASE req'[q] = req[q]
        BY <4>2, <4>3, <4>4, <2>3 DEF HoldsWhatItNeeds
      <4>5. CASE req'[q] = [req[q] EXCEPT !.holds = "dropped"] /\ req[q].op = "signIn"
        BY <4>2, <4>3, <4>5 DEF HoldsWhatItNeeds, Request
      <4> QED BY <4>1, <4>2, <4>4, <4>5, DroppedRows
    <3> QED BY <3>1, <3>2
  <2> QED BY <2>5, <2>6 DEF RequestsOK
<1>2. CASE SignInFails(r)
  <2>1. req[r] # None /\ req[r] \in Request /\ req[r].op = "signIn" /\ req[r].by \in Clients
    BY <1>2, RequestOf DEF SignInFails, HasBody, RequestsOK, HoldsWhatItNeeds
  <2>4. failed' \in [Clients -> Nat]
    BY <1>2, <2>1 DEF SignInFails, TypeOK
  <2>2. CASE req[r].holds = "dropped"
    <3>1. attempts' = attempts
      BY <1>2, <2>2 DEF SignInFails
    <3> QED BY <1>2, <2>4, <3>1, EndsRows, ZenonT(40) DEF SignInFails, TypeOK, RequestsOK, HoldsWhatItNeeds,
                                        access, enrollments, storage
  <2>3. CASE req[r].holds # "dropped"
    <3> DEFINE b == req[r].by
               a == [attempts[b] EXCEPT !.count = @ + 1]
    <3>1. attempts[b] \in Attempt
      BY <2>1, <2>3, RowOf DEF RequestsOK, HoldsWhatItNeeds
    <3>2. a \in Attempt
      BY <3>1 DEF Attempt
    <3>3. attempts' = [attempts EXCEPT ![b] = a]
      BY <1>2, <2>3 DEF SignInFails
    <3> HIDE DEF a, b
    <3>4. attempts' \in [Clients -> Attempt \cup {None}]
      BY <3>2, <3>3 DEF TypeOK
    <3>5. \A d \in Clients : attempts[d] # None => attempts'[d] # None
      BY <3>2, <3>3, NoneIsAbsent DEF TypeOK
    <3> QED BY <1>2, <2>4, <3>4, <3>5, EndsRows DEF SignInFails, TypeOK, RequestsOK, HoldsWhatItNeeds,
                                              access, enrollments, storage
  <2> QED BY <2>2, <2>3
<1>3. CASE s \in Sessions /\ SignIn(r, s)
  <2> s \in Sessions
    BY <1>3
  <2> DEFINE b == req[r].by
             new == [sessions EXCEPT ![s] =
                       [expires |-> clock + SessionTtl, seen |-> clock, revoked |-> None]]
  <2>1. req[r] # None /\ req[r].op = "signIn" /\ b \in Clients
    BY <1>3 DEF SignIn, HasBody, RequestsOK, HoldsWhatItNeeds
  <2>2. new \in [Sessions -> Session \cup {None}]
    BY <1>3, ConstantsOK DEF TypeOK, Session
  <2>3. sessions' = Purged(new) /\ req' = [Dropped(b) EXCEPT ![r] = None]
        /\ attempts' = [attempts EXCEPT ![b] = None]
    BY <1>3 DEF SignIn
  <2> HIDE DEF new, b
  <2>4. sessions' \in [Sessions -> Session \cup {None}]
    BY <2>2, <2>3 DEF Purged
  <2>5. req' \in [Requests -> Request \cup {None}]
        /\ attempts' \in [Clients -> Attempt \cup {None}]
    BY <2>1, <2>3, DroppedRows DEF TypeOK
  <2>6. TypeOK'
    BY <1>3, <2>4, <2>5 DEF SignIn, TypeOK, enrollments, storage
  <2>7. ASSUME NEW q \in Requests, req'[q] # None PROVE HoldsWhatItNeeds(req[q])'
    <3>1. q # r /\ req'[q] = Dropped(b)[q]
      BY <2>1, <2>3, <2>7, DroppedRows
    <3>2. req[q] # None /\ req[q] \in Request /\ HoldsWhatItNeeds(req[q])
      BY <2>1, <2>7, <3>1, DroppedRows, RequestOf DEF RequestsOK
    <3>3. UNCHANGED <<tokens, devices>>
      BY <1>3 DEF SignIn, enrollments
    <3>4. CASE req'[q] = req[q] /\ ~(req[q].op = "signIn" /\ req[q].by = b)
      BY <2>1, <2>3, <3>2, <3>3, <3>4 DEF HoldsWhatItNeeds, TypeOK
    <3>5. CASE req'[q] = [req[q] EXCEPT !.holds = "dropped"] /\ req[q].op = "signIn"
      BY <3>2, <3>3, <3>5 DEF HoldsWhatItNeeds, Request
    <3> QED BY <2>1, <3>1, <3>2, <3>4, <3>5, DroppedRows
  <2> QED BY <2>6, <2>7 DEF RequestsOK
<1> QED BY <1>1, <1>2, <1>3

\* Requests that arrive, are refused or start to probe keep the state sound.
LEMMA ArrivalSound ==
  ASSUME Sound, NEW r \in Requests, NEW by, NEW d, NEW op,
         \/ Reject(r) \/ ArriveEnroll(r)
         \/ d \in Devices /\ ArriveHeartbeat(r, d)
         \/ /\ by \in Callers /\ op \in {"saveStorage", "createEnrollmentToken"}
            /\ ArriveAdmin(r, op, by)
         \/ by \in Callers /\ TestStorage(r, by)
  PROVE  Sound'
<1> USE DEF Sound
<1>1. CASE Reject(r)
  <2>1. Ends(r) /\ UNCHANGED <<clock, access, enrollments, storage, attempts, failed, key, crashes, mix>>
    BY <1>1 DEF Reject
  <2> QED BY <2>1, EndsRows DEF TypeOK, RequestsOK, HoldsWhatItNeeds, access, enrollments, storage
<1>2. CASE ArriveEnroll(r)
  <2>1. /\ req' \in [Requests -> Request \cup {None}]
        /\ \A q \in Requests \ {r} : req'[q] = req[q]
        /\ req'[r].op = "enroll" /\ req'[r].pc = "body" /\ req'[r].by = None
    BY <1>2, WaitsRows DEF ArriveEnroll, Ops
  <2> QED BY <1>2, <2>1 DEF ArriveEnroll, TypeOK, RequestsOK, HoldsWhatItNeeds,
                            access, enrollments, storage
<1>3. CASE d \in Devices /\ ArriveHeartbeat(r, d)
  <2>1. /\ req' \in [Requests -> Request \cup {None}]
        /\ \A q \in Requests \ {r} : req'[q] = req[q]
        /\ req'[r].op = "heartbeat" /\ req'[r].pc = "body" /\ req'[r].by = d
    <3>1. Waits(r, "heartbeat", "body", d, None)
      BY <1>3 DEF ArriveHeartbeat
    <3>2. "heartbeat" \in Ops
      BY DEF Ops
    <3> QED BY ONLY <1>3, <3>1, <3>2, TypeOK, r \in Requests, WaitsRows
  <2> QED BY <1>3, <2>1 DEF ArriveHeartbeat, TypeOK, RequestsOK, HoldsWhatItNeeds,
                            access, enrollments, storage
<1>4. CASE /\ by \in Callers /\ op \in {"saveStorage", "createEnrollmentToken"}
           /\ ArriveAdmin(r, op, by)
  <2>1. /\ req' \in [Requests -> Request \cup {None}]
        /\ \A q \in Requests \ {r} : req'[q] = req[q]
        /\ req'[r].op = op /\ req'[r].pc = "body"
    <3>1. Waits(r, op, "body", by, None)
      BY <1>4 DEF ArriveAdmin
    <3>2. op \in Ops
      BY <1>4 DEF Ops
    <3> QED BY ONLY <1>4, <3>1, <3>2, TypeOK, r \in Requests, WaitsRows
  <2>2. sessions' \in [Sessions -> Session \cup {None}]
    BY <1>4, AdminRows DEF ArriveAdmin
  <2> QED BY <1>4, <2>1, <2>2 DEF ArriveAdmin, TypeOK, RequestsOK, HoldsWhatItNeeds,
                                  enrollments, storage
<1>5. CASE by \in Callers /\ TestStorage(r, by)
  <2>0. backend.conf \in Backends
    BY <1>5, RowOf DEF TestStorage, Resolves, Backend
  <2>1. /\ req' \in [Requests -> Request \cup {None}]
        /\ \A q \in Requests \ {r} : req'[q] = req[q]
        /\ req'[r].op = "testStorage" /\ req'[r].pc = "probe" /\ req'[r].holds \in Backends
    <3> DEFINE h == backend.conf
    <3>1. Waits(r, "testStorage", "probe", by, h)
      BY <1>5 DEF TestStorage
    <3>2. "testStorage" \in Ops /\ h \in Backends
      BY <2>0 DEF Ops
    <3> HIDE DEF h
    <3>3. /\ req' \in [Requests -> Request \cup {None}]
          /\ \A q \in Requests \ {r} : req'[q] = req[q]
          /\ req'[r].op = "testStorage" /\ req'[r].pc = "probe" /\ req'[r].holds = h
      BY ONLY <1>5, <3>1, <3>2, TypeOK, r \in Requests, WaitsRows
    <3> QED BY <3>2, <3>3
  <2>2. sessions' \in [Sessions -> Session \cup {None}]
    BY <1>5, AdminRows DEF TestStorage
  <2> QED BY <1>5, <2>1, <2>2 DEF TestStorage, TypeOK, RequestsOK, HoldsWhatItNeeds,
                                  enrollments, storage
<1> QED BY <1>1, <1>2, <1>3, <1>4, <1>5

\* Enrollment, as far as it changes rows: a token is issued, read or consumed,
\* and a device is made or seen.
LEMMA EnrollSound ==
  ASSUME Sound, NEW r \in Requests, NEW t, NEW d,
         \/ t \in Tokens /\ (CreateEnrollmentToken(r, t) \/ EnrollRead(r, t))
         \/ d \in Devices /\ EnrollCommit(r, d)
         \/ EnrollConflict(r) \/ Heartbeat(r)
  PROVE  /\ Sound'
         /\ \A u \in Tokens : tokens[u] # None => tokens'[u] # None
         /\ \A e \in Devices : devices[e] # None => devices'[e] # None
<1> USE DEF Sound
<1>1. CASE t \in Tokens /\ CreateEnrollmentToken(r, t)
  <2> t \in Tokens
    BY <1>1
  <2>1. [expires |-> clock + TokenTtl, consumed |-> None] \in Token
    BY ConstantsOK DEF Token, TypeOK
  <2>2. tokens' \in [Tokens -> Token \cup {None}]
        /\ \A u \in Tokens : tokens[u] # None => tokens'[u] # None
    BY <1>1, <2>1, NoneIsAbsent DEF CreateEnrollmentToken, TypeOK
  <2> QED BY <1>1, <2>2, EndsRows DEF CreateEnrollmentToken, TypeOK, RequestsOK,
                                      HoldsWhatItNeeds, access, storage
<1>2. CASE t \in Tokens /\ EnrollRead(r, t)
  <2> t \in Tokens
    BY <1>2
  <2> DEFINE q == [req[r] EXCEPT !.pc = "commit", !.holds = t, !.at = clock]
  <2>1. req[r] # None /\ req[r] \in Request /\ req[r].op = "enroll" /\ HoldsWhatItNeeds(req[r])
        /\ tokens[t] # None
    BY <1>2, RequestOf DEF EnrollRead, HasBody, Usable, RequestsOK
  <2>2. q \in Request
    BY <1>2, <2>1 DEF Request, TypeOK
  <2>3. q.pc = "commit" /\ q.holds = t /\ q.op = "enroll" /\ q.by = None
    BY <2>1 DEF Request, HoldsWhatItNeeds
  <2>4. req' = [req EXCEPT ![r] = q]
    BY <1>2 DEF EnrollRead
  <2> HIDE DEF q
  <2>5. req' \in [Requests -> Request \cup {None}] /\ req'[r] = q
        /\ \A p \in Requests \ {r} : req'[p] = req[p]
    BY <2>2, <2>4 DEF TypeOK
  <2>6. UNCHANGED <<clock, access, enrollments, storage, attempts, failed, key, crashes, mix>>
    BY <1>2 DEF EnrollRead
  <2> QED BY <2>1, <2>3, <2>5, <2>6 DEF TypeOK, RequestsOK, HoldsWhatItNeeds,
                                        access, enrollments, storage
<1>3. CASE d \in Devices /\ EnrollCommit(r, d)
  <2> d \in Devices
    BY <1>3
  <2> DEFINE u == req[r].holds
             row == [tokens[u] EXCEPT !.consumed = d]
             dev == [enrolled |-> req[r].at, seen |-> req[r].at]
  <2>1. req[r] \in Request /\ u \in Tokens /\ tokens[u] \in Token
    BY <1>3, RequestOf, RowOf DEF EnrollCommit, RequestsOK, HoldsWhatItNeeds
  <2>2. row \in Token /\ dev \in Device
    BY <1>3, <2>1 DEF Token, Device, Request
  <2>3. tokens' = [tokens EXCEPT ![u] = row] /\ devices' = [devices EXCEPT ![d] = dev]
    BY <1>3 DEF EnrollCommit, Take
  <2> HIDE DEF u, row, dev
  <2>4. /\ tokens' \in [Tokens -> Token \cup {None}]
        /\ \A v \in Tokens : tokens[v] # None => tokens'[v] # None
    BY <2>1, <2>2, <2>3, NoneIsAbsent DEF TypeOK
  <2>5. /\ devices' \in [Devices -> Device \cup {None}]
        /\ \A e \in Devices : devices[e] # None => devices'[e] # None
    BY <2>2, <2>3, NoneIsAbsent DEF TypeOK
  <2> QED BY <1>3, <2>4, <2>5, EndsRows DEF EnrollCommit, TypeOK, RequestsOK,
                                            HoldsWhatItNeeds, access, storage
<1>4. CASE EnrollConflict(r)
  <2>1. Ends(r) /\ UNCHANGED <<clock, access, enrollments, storage, attempts, failed, key, crashes, mix>>
    BY <1>4 DEF EnrollConflict
  <2> QED BY <2>1, EndsRows DEF TypeOK, RequestsOK, HoldsWhatItNeeds, access, enrollments, storage
<1>5. CASE Heartbeat(r)
  <2> DEFINE e == req[r].by
             dev == [devices[e] EXCEPT !.seen = clock]
  <2>1. e \in Devices /\ devices[e] \in Device
    BY <1>5, RowOf DEF Heartbeat, HasBody, RequestsOK, HoldsWhatItNeeds
  <2>2. dev \in Device
    BY <2>1 DEF Device, TypeOK
  <2>3. devices' = [devices EXCEPT ![e] = dev]
    BY <1>5 DEF Heartbeat
  <2> HIDE DEF e, dev
  <2>4. /\ devices' \in [Devices -> Device \cup {None}]
        /\ \A f \in Devices : devices[f] # None => devices'[f] # None
    BY <2>2, <2>3, NoneIsAbsent DEF TypeOK
  <2> QED BY <1>5, <2>4, EndsRows DEF Heartbeat, TypeOK, RequestsOK, HoldsWhatItNeeds,
                                      access, storage
<1> QED BY <1>1, <1>2, <1>3, <1>4, <1>5

\* Saving a backend keeps the state sound.
LEMMA SaveSound ==
  ASSUME Sound, NEW r \in Requests, NEW conf \in Backends, SaveStorage(r, conf)
  PROVE  Sound'
<1> USE DEF Sound
<1> DEFINE q == [req[r] EXCEPT !.pc = "probe", !.holds = conf]
<1>1. req[r] # None /\ req[r] \in Request /\ req[r].op = "saveStorage"
  BY RequestOf DEF SaveStorage, HasBody
<1>2. q \in Request
  BY <1>1 DEF Request
<1>3. q.pc = "probe" /\ q.holds = conf /\ q.op = "saveStorage"
  BY <1>1 DEF Request
<1>4. req' = [req EXCEPT ![r] = q]
  BY DEF SaveStorage, Moves
<1> HIDE DEF q
<1>5. req' \in [Requests -> Request \cup {None}] /\ req'[r] = q
      /\ \A p \in Requests \ {r} : req'[p] = req[p]
  BY <1>2, <1>4 DEF TypeOK
<1>6. backend' \in Backend \cup {None} /\ overtaken' \in BOOLEAN
  BY DEF SaveStorage, Saved, Backend, TypeOK
<1> QED BY <1>3, <1>5, <1>6 DEF SaveStorage, TypeOK, RequestsOK, HoldsWhatItNeeds,
                                      access, enrollments

\* Recording a probe keeps the state sound.
LEMMA ProbeSound ==
  ASSUME Sound, NEW r \in Requests, NEW ok \in BOOLEAN, Probe(r, ok)
  PROVE  Sound'
<1> USE DEF Sound
<1>1. req[r].holds \in Backends
  BY DEF Probe, RequestsOK, HoldsWhatItNeeds
<1>2. backend' \in Backend \cup {None}
  BY RowOf DEF Probe, Record, Backend
<1> QED BY <1>1, <1>2, EndsRows DEF Probe, TypeOK, RequestsOK, HoldsWhatItNeeds,
                                          access, enrollments

\* The clock, requests that have no body and a restart keep the state sound.
LEMMA OtherSound ==
  ASSUME Sound, NEW s, NEW by,
         \/ Tick \/ Restart \/ UNCHANGED vars
         \/ s \in Sessions /\ (View(s) \/ SignOut(s))
         \/ by \in Callers /\ DeleteStorage(by)
  PROVE  Sound'
<1> USE DEF Sound
<1>1. CASE Tick
  BY <1>1 DEF Tick, TypeOK, RequestsOK, HoldsWhatItNeeds, access, enrollments, storage
<1>2. CASE Restart
  <2>1. /\ attempts' \in [Clients -> Attempt \cup {None}]
        /\ failed' \in [Clients -> Nat]
        /\ req' \in [Requests -> Request \cup {None}]
        /\ \A r \in Requests : req'[r] = None
    BY <1>2 DEF Restart
  <2> QED BY <1>2, <2>1 DEF Restart, TypeOK, RequestsOK, access, enrollments, storage
<1>3. CASE s \in Sessions /\ View(s)
  <2>1. sessions' \in [Sessions -> Session \cup {None}]
    BY <1>3, AdminRows DEF View, Callers
  <2> QED BY <1>3, <2>1 DEF View, TypeOK, RequestsOK, HoldsWhatItNeeds, enrollments, storage
<1>4. CASE UNCHANGED vars
  BY <1>4 DEF vars, TypeOK, RequestsOK, HoldsWhatItNeeds, access, enrollments, storage
<1>5. CASE s \in Sessions /\ SignOut(s)
  <2>1. sessions[s] \in Session
    BY <1>5, RowOf DEF SignOut
  <2> DEFINE n == [sessions[s] EXCEPT !.revoked = IF @ = None THEN clock ELSE @]
  <2>2. n \in Session
    BY <2>1 DEF Session, TypeOK
  <2>3. sessions' = [sessions EXCEPT ![s] = n]
    BY <1>5 DEF SignOut
  <2> HIDE DEF n
  <2>4. sessions' \in [Sessions -> Session \cup {None}]
    BY <2>2, <2>3 DEF TypeOK
  <2> QED BY <1>5, <2>4 DEF SignOut, TypeOK, RequestsOK, HoldsWhatItNeeds, enrollments, storage
<1>6. CASE by \in Callers /\ DeleteStorage(by)
  <2>1. sessions' \in [Sessions -> Session \cup {None}]
    BY <1>6, AdminRows DEF DeleteStorage
  <2> QED BY <1>6, <2>1 DEF DeleteStorage, TypeOK, RequestsOK, HoldsWhatItNeeds, enrollments
<1> QED BY <1>1, <1>2, <1>3, <1>4, <1>5, <1>6

\* Every step keeps the state sound.
LEMMA SoundStep == Sound /\ [Next]_vars => Sound'
<1> SUFFICES ASSUME Sound, [Next]_vars PROVE Sound'
  OBVIOUS
<1>1. CASE UNCHANGED vars
  BY <1>1, OtherSound
<1>2. CASE Tick \/ Restart \/ (\E s \in Sessions : SignOut(s) \/ View(s))
           \/ \E by \in Callers : DeleteStorage(by)
  BY <1>2, OtherSound
<1>3. CASE \E r \in Requests : SignInFails(r) \/ (\E c \in Clients : ArriveSignIn(r, c))
                               \/ \E s \in Sessions : SignIn(r, s)
  BY <1>3, SignInSound
<1>4. CASE \E r \in Requests :
             \/ Reject(r) \/ ArriveEnroll(r)
             \/ \E d \in Devices : ArriveHeartbeat(r, d)
             \/ \E op \in {"saveStorage", "createEnrollmentToken"}, by \in Callers :
                  ArriveAdmin(r, op, by)
             \/ \E by \in Callers : TestStorage(r, by)
  BY <1>4, ArrivalSound
<1>5. CASE \E r \in Requests :
             \/ EnrollConflict(r) \/ Heartbeat(r)
             \/ \E t \in Tokens : CreateEnrollmentToken(r, t) \/ EnrollRead(r, t)
             \/ \E d \in Devices : EnrollCommit(r, d)
  BY <1>5, EnrollSound
<1>6. CASE \E r \in Requests : (\E b \in Backends : SaveStorage(r, b))
                               \/ \E ok \in BOOLEAN : Probe(r, ok)
  <2>1. ASSUME NEW r \in Requests, NEW b \in Backends, SaveStorage(r, b) PROVE Sound'
    BY <2>1, SaveSound
  <2>2. ASSUME NEW r \in Requests, NEW ok \in BOOLEAN, Probe(r, ok) PROVE Sound'
    BY <2>2, ProbeSound
  <2> QED BY <1>6, <2>1, <2>2
<1> QED BY <1>1, <1>2, <1>3, <1>4, <1>5, <1>6 DEF Next

\* Sound holds in every state.
LEMMA AlwaysSound == Spec => []Sound
BY SoundInit, SoundStep, PTL DEF Spec

\* Every variable keeps its type: the rows of store.ts, the throttle of
\* security.ts and the requests under way.
THEOREM TypeCorrect == Spec => []TypeOK
<1>1. Sound => TypeOK
  BY DEF Sound
<1> QED BY <1>1, AlwaysSound, PTL

(***************************************************************************)
(* What a step does to a row: nothing, or one of few things.               *)
(***************************************************************************)

\* Request q arrives in this step.
Arrived(q) ==
  /\ req[q] = None /\ req'[q] # None /\ clock' = clock
  /\ \/ req'[q].pc = "body"
     \/ /\ req'[q].pc = "probe" /\ backend # None /\ req'[q].holds = backend.conf
        /\ UNCHANGED <<backend, overtaken>>
  /\ req'[q].by \in Sessions => Live(req'[q].by) /\ req'[q].at = clock
  /\ req'[q].op = "signIn" => \E c \in Clients : ArriveSignIn(q, c)

\* A sign-in arrives or succeeds in this step.
SigningIn ==
  \E r \in Requests : \/ \E c \in Clients : ArriveSignIn(r, c)
                     \/ \E s \in Sessions : SignIn(r, s)

\* The window of sign-in q leaves the map in this step.
LosesWindow(q) ==
  /\ req[q] # None /\ req[q].op = "signIn" /\ req'[q] = [req[q] EXCEPT !.holds = "dropped"]
  /\ SigningIn

\* What becomes of the row of one request.
RowStep(q) ==
  \/ req'[q] = None \/ req'[q] = req[q]
  \/ LosesWindow(q) \/ Arrived(q)
  \/ \E t \in Tokens : EnrollRead(q, t)
  \/ \E conf \in Backends : SaveStorage(q, conf)

\* An arriving request of an operator was authenticated in the same step.
LEMMA AdminArrives ==
  ASSUME Sound, NEW q \in Requests, NEW by \in Callers, NEW op \in Ops \ {"signIn"},
         \/ ArriveAdmin(q, op, by)
         \/ op = "testStorage" /\ TestStorage(q, by)
  PROVE  Arrived(q) /\ \A p \in Requests \ {q} : req'[p] = req[p]
<1> USE DEF Sound
<1>1. by \in Sessions => Live(by)
  BY AdminRows DEF ArriveAdmin, TestStorage
<1>2. CASE ArriveAdmin(q, op, by)
  <2>1. Waits(q, op, "body", by, None) /\ clock' = clock
    BY <1>2 DEF ArriveAdmin
  <2>2. /\ \A p \in Requests \ {q} : req'[p] = req[p]
        /\ req[q] = None /\ req'[q] # None
        /\ req'[q].op = op /\ req'[q].pc = "body" /\ req'[q].by = by
        /\ req'[q].at = IF by \in Sessions THEN clock ELSE 0
    BY ONLY <2>1, TypeOK, q \in Requests, by \in Callers, op \in Ops, WaitsRows
  <2> QED BY <1>1, <2>1, <2>2 DEF Arrived
<1>3. CASE op = "testStorage" /\ TestStorage(q, by)
  <2> DEFINE h == backend.conf
  <2>1. Waits(q, "testStorage", "probe", by, h) /\ clock' = clock
        /\ UNCHANGED <<backend, overtaken>> /\ backend # None
    BY <1>3 DEF TestStorage, storage, Resolves
  <2>2. h \in Backends
    BY <2>1, RowOf DEF Backend
  <2>3. "testStorage" \in Ops
    BY DEF Ops
  <2> HIDE DEF h
  <2>4. /\ \A p \in Requests \ {q} : req'[p] = req[p]
        /\ req[q] = None /\ req'[q] # None
        /\ req'[q].op = "testStorage" /\ req'[q].pc = "probe"
        /\ req'[q].by = by /\ req'[q].holds = h
        /\ req'[q].at = IF by \in Sessions THEN clock ELSE 0
    BY ONLY <2>1, <2>2, <2>3, TypeOK, q \in Requests, by \in Callers, WaitsRows
  <2> QED BY <1>1, <2>1, <2>4 DEF Arrived, h
<1> QED BY <1>2, <1>3

\* A request of a device arrives.
LEMMA DeviceArrives ==
  ASSUME Sound, NEW q \in Requests,
         ArriveEnroll(q) \/ \E d \in Devices : ArriveHeartbeat(q, d)
  PROVE  Arrived(q) /\ \A p \in Requests \ {q} : req'[p] = req[p]
<1> USE DEF Sound
<1>0. "enroll" \in Ops /\ "heartbeat" \in Ops
  BY DEF Ops
<1>1. CASE ArriveEnroll(q)
  <2>1. Waits(q, "enroll", "body", None, None) /\ clock' = clock
    BY <1>1 DEF ArriveEnroll
  <2>2. /\ \A p \in Requests \ {q} : req'[p] = req[p]
        /\ req[q] = None /\ req'[q] # None
        /\ req'[q].op = "enroll" /\ req'[q].pc = "body" /\ req'[q].by = None
    BY ONLY <2>1, <1>0, TypeOK, q \in Requests, WaitsRows
  <2> QED BY <2>1, <2>2, ConstantsOK DEF Arrived
<1>2. CASE \E d \in Devices : ArriveHeartbeat(q, d)
  <2>1. PICK d \in Devices : Waits(q, "heartbeat", "body", d, None) /\ clock' = clock
    BY <1>2 DEF ArriveHeartbeat
  <2>2. /\ \A p \in Requests \ {q} : req'[p] = req[p]
        /\ req[q] = None /\ req'[q] # None
        /\ req'[q].op = "heartbeat" /\ req'[q].pc = "body" /\ req'[q].by = d
    BY ONLY <2>1, <1>0, TypeOK, q \in Requests, WaitsRows
  <2> QED BY <2>1, <2>2, ConstantsOK DEF Arrived
<1> QED BY <1>1, <1>2

\* Signing in ends one request or starts it, and drops the window of others.
LEMMA SignInRows ==
  ASSUME Sound, NEW r \in Requests, NEW c, NEW s,
         \/ c \in Clients /\ ArriveSignIn(r, c)
         \/ s \in Sessions /\ SignIn(r, s),
         NEW q \in Requests
  PROVE  RowStep(q)
<1> USE DEF Sound
<1>0. SigningIn
  BY DEF SigningIn
<1>1. CASE c \in Clients /\ ArriveSignIn(r, c)
  <2>1. CASE q = r
    <3>1. req'[q] = SignInRequest(c) /\ req[q] = None /\ clock' = clock
      BY <1>1, <2>1, DroppedRows DEF ArriveSignIn, TypeOK
    <3>2. SignInRequest(c) \in Request
      BY <1>1 DEF SignInRequest, Request, Ops
    <3>3. c \notin Sessions
      BY <1>1, ConstantsOK
    <3>4. Arrived(q)
      BY <1>1, <2>1, <3>1, <3>2, <3>3, NoneIsAbsent DEF Arrived, SignInRequest
    <3> QED BY <3>4 DEF RowStep
  <2>2. CASE q # r
    <3>1. req'[q] \in {req[q], Dropped(c)[q]}
      BY <1>1, <2>2, DroppedRows DEF ArriveSignIn, TypeOK
    <3> QED BY <1>0, <1>1, <3>1, DroppedRows DEF RowStep, LosesWindow
  <2> QED BY <2>1, <2>2
<1>2. CASE s \in Sessions /\ SignIn(r, s)
  <2>1. req[r].by \in Clients
    BY <1>2 DEF SignIn, HasBody, RequestsOK, HoldsWhatItNeeds
  <2>2. req' = [Dropped(req[r].by) EXCEPT ![r] = None]
    BY <1>2 DEF SignIn
  <2>3. CASE q = r
    BY <2>1, <2>2, <2>3, DroppedRows DEF RowStep
  <2>4. CASE q # r
    <3>1. req'[q] = Dropped(req[r].by)[q]
      BY <2>1, <2>2, <2>4, DroppedRows
    <3> QED BY <1>0, <2>1, <3>1, DroppedRows DEF RowStep, LosesWindow
  <2> QED BY <2>3, <2>4
<1> QED BY <1>1, <1>2

\* Requests that end, or read a token or a backend.
LEMMA EndRows ==
  ASSUME Sound, NEW r \in Requests, NEW q \in Requests,
         \/ Reject(r) \/ SignInFails(r) \/ EnrollConflict(r) \/ Heartbeat(r)
         \/ \E t \in Tokens : CreateEnrollmentToken(r, t) \/ EnrollRead(r, t)
         \/ \E d \in Devices : EnrollCommit(r, d)
         \/ \E b \in Backends : SaveStorage(r, b)
  PROVE  RowStep(q)
<1> USE DEF Sound
<1>1. CASE Ends(r)
  BY <1>1, EndsRows DEF RowStep
<1>2. CASE \E t \in Tokens : EnrollRead(r, t)
  BY <1>2 DEF RowStep, EnrollRead, TypeOK
<1>3. CASE \E b \in Backends : SaveStorage(r, b)
  BY <1>3 DEF RowStep, SaveStorage, Moves, TypeOK
<1> QED BY <1>1, <1>2, <1>3 DEF Reject, SignInFails, EnrollConflict, Heartbeat,
                                CreateEnrollmentToken, EnrollCommit

\* Every step does one of these things to each row.
LEMMA RowSteps ==
  ASSUME Sound, [Next]_vars, NEW q \in Requests
  PROVE  RowStep(q)
<1>1. CASE UNCHANGED vars
  BY <1>1 DEF vars, RowStep
<1>2. CASE Tick \/ Restart \/ (\E s \in Sessions : SignOut(s) \/ View(s))
           \/ \E by \in Callers : DeleteStorage(by)
  BY <1>2 DEF Tick, Restart, SignOut, View, DeleteStorage, RowStep
<1>3. CASE \E r \in Requests : (\E c \in Clients : ArriveSignIn(r, c))
                               \/ \E s \in Sessions : SignIn(r, s)
  BY <1>3, SignInRows
<1>4. CASE \E r \in Requests :
             \/ Reject(r) \/ SignInFails(r) \/ EnrollConflict(r) \/ Heartbeat(r)
             \/ \E t \in Tokens : CreateEnrollmentToken(r, t) \/ EnrollRead(r, t)
             \/ \E d \in Devices : EnrollCommit(r, d)
             \/ \E b \in Backends : SaveStorage(r, b)
  BY <1>4, EndRows
<1>5. CASE \E r \in Requests : ArriveEnroll(r) \/ \E d \in Devices : ArriveHeartbeat(r, d)
  <2>1. PICK r \in Requests : ArriveEnroll(r) \/ \E d \in Devices : ArriveHeartbeat(r, d)
    BY <1>5
  <2> QED BY <2>1, DeviceArrives DEF RowStep
<1>6. CASE \E r \in Requests, by \in Callers :
             \/ \E op \in {"saveStorage", "createEnrollmentToken"} : ArriveAdmin(r, op, by)
             \/ TestStorage(r, by)
  <2>1. PICK r \in Requests, by \in Callers :
             \/ \E op \in {"saveStorage", "createEnrollmentToken"} : ArriveAdmin(r, op, by)
             \/ TestStorage(r, by)
    BY <1>6
  <2>2. {"saveStorage", "createEnrollmentToken", "testStorage"} \subseteq Ops \ {"signIn"}
    BY DEF Ops
  <2> DEFINE OnlyR == Arrived(r) /\ \A p \in Requests \ {r} : req'[p] = req[p]
  <2>3. ASSUME NEW op \in {"saveStorage", "createEnrollmentToken"}, ArriveAdmin(r, op, by)
        PROVE  OnlyR
    BY <2>2, <2>3, AdminArrives
  <2>4. ASSUME TestStorage(r, by) PROVE OnlyR
    BY <2>2, <2>4, AdminArrives
  <2>5. OnlyR
    BY <2>1, <2>3, <2>4
  <2> QED BY <2>5 DEF RowStep
<1>7. CASE \E r \in Requests, ok \in BOOLEAN : Probe(r, ok)
  <2>1. PICK r \in Requests : Ends(r)
    BY <1>7 DEF Probe
  <2> QED BY <2>1, EndsRows DEF RowStep, Sound
<1> QED BY <1>1, <1>2, <1>3, <1>4, <1>5, <1>6, <1>7 DEF Next

(***************************************************************************)
(* Sessions.  The history of sessions drawn shows that a new session has   *)
(* no request yet; uses and requests are dated no later than the clock.    *)
(***************************************************************************)

UseInv ==
  /\ NoLateUse
  /\ \A s \in Sessions : sessions[s] # None => s \in spent /\ sessions[s].seen <= clock
  /\ \A r \in Requests : req[r] # None /\ req[r].by \in Sessions =>
       req[r].by \in spent /\ req[r].at <= clock

\* A request of a session was there, or its session is live now.
LEMMA RequestBy ==
  ASSUME Sound, [Next]_vars, NEW q \in Requests, req'[q] # None, req'[q].by \in Sessions
  PROVE  \/ req[q] # None /\ req'[q].by = req[q].by /\ req'[q].at = req[q].at
         \/ Live(req'[q].by) /\ req'[q].at = clock /\ clock' = clock
<1>1. RowStep(q)
  BY RowSteps
<1>2. req[q] # None => req[q] \in Request
  BY RequestOf DEF Sound
<1>3. CASE req'[q] = req[q] \/ LosesWindow(q)
  BY <1>2, <1>3 DEF LosesWindow, Request
<1>4. CASE Arrived(q)
  BY <1>4 DEF Arrived
<1>5. CASE \E t \in Tokens : EnrollRead(q, t)
  <2>1. PICK t \in Tokens : req' = [req EXCEPT ![q].pc = "commit", ![q].holds = t, ![q].at = clock]
                            /\ HasBody(q, "enroll")
    BY <1>5 DEF EnrollRead
  <2>2. req[q] \in Request /\ req[q].by = None
    BY <1>2, <2>1 DEF HasBody, Sound, RequestsOK, HoldsWhatItNeeds
  <2>3. req'[q] = [req[q] EXCEPT !.pc = "commit", !.holds = t, !.at = clock]
    BY <2>1 DEF Sound, TypeOK
  <2>4. req'[q].by = None
    BY <2>2, <2>3 DEF Request
  <2> QED BY <2>4, ConstantsOK
<1>6. CASE \E conf \in Backends : SaveStorage(q, conf)
  <2>1. PICK conf \in Backends : req' = [req EXCEPT ![q].pc = "probe", ![q].holds = conf]
                                 /\ HasBody(q, "saveStorage")
    BY <1>6 DEF SaveStorage, Moves
  <2>2. req[q] \in Request
    BY <1>2, <2>1 DEF HasBody
  <2>3. req'[q] = [req[q] EXCEPT !.pc = "probe", !.holds = conf]
    BY <2>1 DEF Sound, TypeOK
  <2> QED BY <2>1, <2>2, <2>3, ZenonT(40) DEF Request, HasBody
<1> QED BY <1>1, <1>3, <1>4, <1>5, <1>6 DEF RowStep

\* What becomes of a session's row.
SessionStep(s) ==
  \/ sessions'[s] = sessions[s] \/ sessions'[s] = None
  \/ /\ Live(s) /\ sessions'[s] = [sessions[s] EXCEPT !.seen = clock]
  \/ /\ sessions[s] # None
     /\ sessions'[s] = [sessions[s] EXCEPT !.revoked = IF @ = None THEN clock ELSE @]
  \/ /\ s \notin spent /\ s \in spent'
     /\ sessions'[s] = [expires |-> clock + SessionTtl, seen |-> clock, revoked |-> None]

\* Every step does one of these things to each session; time passes alone.
LEMMA SessionSteps ==
  ASSUME Sound, [Next]_vars, NEW s \in Sessions
  PROVE  /\ SessionStep(s)
         /\ spent \subseteq spent' /\ clock' \in Nat /\ clock <= clock'
         /\ clock' # clock => sessions' = sessions
<1> USE DEF Sound
<1>1. CASE UNCHANGED vars \/ UNCHANGED <<clock, access>>
  BY <1>1 DEF vars, access, SessionStep, TypeOK
<1>2. CASE Tick
  BY <1>2 DEF Tick, access, SessionStep, TypeOK
<1>3. ASSUME NEW by \in Callers, RequireAdmin(by), UNCHANGED <<clock, spent>>
      PROVE  SessionStep(s)
  <2>1. sessions'[s] = sessions[s] \/ (Live(s) /\ sessions'[s] = [sessions[s] EXCEPT !.seen = clock])
    BY <1>3, AdminRows
  <2> QED BY <2>1 DEF SessionStep
<1>4. ASSUME NEW t \in Sessions, SignOut(t) PROVE SessionStep(s)
  BY <1>4 DEF SignOut, SessionStep, TypeOK
<1>5. ASSUME NEW r \in Requests, NEW t \in Sessions, SignIn(r, t) PROVE SessionStep(s)
  <2> DEFINE row == [expires |-> clock + SessionTtl, seen |-> clock, revoked |-> None]
  <2> HIDE DEF row
  <2>1. sessions' = Purged([sessions EXCEPT ![t] = row]) /\ t \notin spent /\ t \in spent'
    BY <1>5 DEF SignIn, row
  <2>2. sessions'[s] = None \/ sessions'[s] = [sessions EXCEPT ![t] = row][s]
    BY <2>1 DEF Purged
  <2>3. [sessions EXCEPT ![t] = row][s] = IF s = t THEN row ELSE sessions[s]
    BY DEF TypeOK
  <2> QED BY <2>1, <2>2, <2>3 DEF SessionStep, row
<1>6. CASE (\E by \in Callers : RequireAdmin(by)) /\ UNCHANGED <<clock, spent>>
  <2>1. SessionStep(s)
    BY <1>3, <1>6
  <2> QED BY <1>6, <2>1 DEF TypeOK
<1>7. CASE \E t \in Sessions : SignOut(t)
  <2>1. SessionStep(s)
    BY <1>4, <1>7
  <2> QED BY <1>7, <2>1 DEF SignOut, TypeOK
<1>8. CASE \E r \in Requests, t \in Sessions : SignIn(r, t)
  <2>1. SessionStep(s)
    BY <1>5, <1>8
  <2> QED BY <1>8, <2>1 DEF SignIn, TypeOK
<1>9. \/ UNCHANGED vars \/ UNCHANGED <<clock, access>> \/ Tick
      \/ (\E by \in Callers : RequireAdmin(by)) /\ UNCHANGED <<clock, spent>>
      \/ \E t \in Sessions : SignOut(t)
      \/ \E r \in Requests, t \in Sessions : SignIn(r, t)
  <2>1. CASE Next
    BY <2>1 DEF Next, Reject, SignInFails, ArriveEnroll, EnrollConflict, Heartbeat, ArriveSignIn,
       View, ArriveAdmin, CreateEnrollmentToken, EnrollRead, EnrollCommit, ArriveHeartbeat,
       SaveStorage, TestStorage, Probe, DeleteStorage, Restart, Callers
  <2> QED BY <2>1
<1> QED BY <1>1, <1>2, <1>6, <1>7, <1>8, <1>9

\* A session's later rows keep the promise its earlier ones made.
LEMMA UseStep == Sound /\ UseInv /\ [Next]_vars => UseInv'
<1> SUFFICES ASSUME Sound, UseInv, [Next]_vars PROVE UseInv'
  OBVIOUS
<1>0. clock \in Nat /\ clock' \in Nat /\ clock <= clock'
      /\ (clock' # clock => sessions' = sessions) /\ spent \subseteq spent'
  <2>1. clock \in Nat
    BY DEF Sound, TypeOK
  <2>2. CASE Sessions = {}
    <3>1. spent = {} /\ spent' = {} /\ sessions' = sessions /\ clock' \in Nat /\ clock <= clock'
      <4>1. TypeOK /\ TypeOK'
        BY SoundStep DEF Sound
      <4>2. CASE Tick
        BY <2>2, <4>1, <4>2 DEF Tick, TypeOK, access
      <4>3. CASE UNCHANGED clock
        BY <2>2, <4>1, <4>3 DEF TypeOK
      <4>4. Tick \/ UNCHANGED clock
        BY DEF vars, Next, Reject, SignInFails, ArriveEnroll, EnrollConflict, Heartbeat,
           ArriveSignIn, SignIn, SignOut, View, ArriveAdmin, CreateEnrollmentToken, EnrollRead,
           EnrollCommit, ArriveHeartbeat, SaveStorage, TestStorage, Probe, DeleteStorage, Restart
      <4> QED BY <4>2, <4>3, <4>4
    <3> QED BY <2>1, <3>1
  <2>3. CASE Sessions # {}
    BY <2>1, <2>3, SessionSteps
  <2> QED BY <2>2, <2>3
<1> DEFINE late(row, n) == n >= row.expires \/ (row.revoked # None /\ n > row.revoked)
<1>1. ASSUME NEW s \in Sessions, sessions[s] # None
      PROVE  /\ sessions[s] \in Session /\ ~late(sessions[s], sessions[s].seen)
             /\ s \in spent /\ sessions[s].seen <= clock
             /\ \A r \in Requests : req[r] # None /\ req[r].by = s => ~late(sessions[s], req[r].at)
  BY <1>1, RowOf DEF UseInv, NoLateUse, Sound
<1>2. ASSUME NEW s \in Sessions, sessions'[s] # None
      PROVE  /\ ~late(sessions'[s], sessions'[s].seen) /\ s \in spent' /\ sessions'[s].seen <= clock'
             /\ \A n \in Nat : n <= clock /\ sessions[s] # None /\ ~late(sessions[s], n) => ~late(sessions'[s], n)
             /\ Live(s) => ~late(sessions'[s], clock)
  <2>1. SessionStep(s)
    BY SessionSteps
  <2>2. CASE sessions'[s] = sessions[s]
    BY <1>0, <1>1, <1>2, <2>2 DEF Live, Session
  <2>3. CASE Live(s) /\ sessions'[s] = [sessions[s] EXCEPT !.seen = clock]
    BY <1>0, <1>1, <2>3 DEF Live, Session
  <2>4. CASE /\ sessions[s] # None
             /\ sessions'[s] = [sessions[s] EXCEPT !.revoked = IF @ = None THEN clock ELSE @]
    BY <1>0, <1>1, <2>4 DEF Live, Session
  <2>5. CASE /\ s \notin spent /\ s \in spent'
             /\ sessions'[s] = [expires |-> clock + SessionTtl, seen |-> clock, revoked |-> None]
    <3>1. sessions[s] = None
      BY <1>1, <2>5
    <3>2. ~(clock >= clock + SessionTtl)
      BY <1>0, ConstantsOK
    <3>3. /\ sessions'[s].expires = clock + SessionTtl /\ sessions'[s].seen = clock
          /\ sessions'[s].revoked = None
      BY <2>5
    <3>4. ~late(sessions'[s], clock)
      BY <3>2, <3>3
    <3>5. sessions'[s].seen <= clock'
      BY <1>0, <3>3
    <3> QED BY <2>5, <3>1, <3>3, <3>4, <3>5 DEF Live
  <2> QED BY <1>2, <2>1, <2>2, <2>3, <2>4, <2>5 DEF SessionStep
<1>3. ASSUME NEW q \in Requests, req'[q] # None, req'[q].by \in Sessions
      PROVE  /\ req'[q].by \in spent' /\ req'[q].at <= clock'
             /\ sessions'[req'[q].by] # None => ~late(sessions'[req'[q].by], req'[q].at)
  <2> DEFINE s == req'[q].by
  <2>0. s \in Sessions
    BY <1>3
  <2>1. CASE req[q] # None /\ req'[q].by = req[q].by /\ req'[q].at = req[q].at
    <3>1. s \in spent /\ req[q].at <= clock /\ req[q].at \in Nat
      BY <1>3, <2>1, RequestOf DEF UseInv, Sound, Request
    <3>2. ASSUME sessions'[s] # None PROVE ~late(sessions'[req'[q].by], req'[q].at)
      <4>1. CASE sessions[s] # None
        <5>1. ~late(sessions[s], req[q].at)
          BY <1>1, <2>0, <2>1, <4>1
        <5>2. ~late(sessions'[s], req[q].at)
          BY <1>2, <2>0, <2>1, <3>1, <3>2, <4>1, <5>1
        <5> QED BY <2>1, <5>2
      <4>2. CASE sessions[s] = None
        <5>1. SessionStep(s) /\ s \in spent
          BY <2>0, <3>1, SessionSteps
        <5> QED BY <3>2, <4>2, <5>1 DEF SessionStep, Live
      <4> QED BY <4>1, <4>2
    <3> QED BY <1>0, <2>1, <3>1, <3>2
  <2>2. CASE Live(s) /\ req'[q].at = clock /\ clock' = clock
    <3>1. s \in spent'
      BY <1>0, <1>1, <2>0, <2>2 DEF Live
    <3>2. sessions'[s] # None => ~late(sessions'[req'[q].by], req'[q].at)
      BY <1>2, <2>0, <2>2
    <3> QED BY <1>0, <2>2, <3>1, <3>2
  <2> QED BY <1>3, <2>1, <2>2, RequestBy
<1> QED BY <1>2, <1>3 DEF UseInv, NoLateUse

\* A session acts for its operator only until it is revoked or expires:
\* authenticateAdminSession (store.ts) looks at both, and requests that arrived
\* before are all that may still act.
THEOREM NeverUsedLate == Spec => []NoLateUse
<1>1. Init => UseInv
  BY DEF Init, UseInv, NoLateUse
<1>2. UseInv => NoLateUse
  BY DEF UseInv
<1> QED BY <1>1, <1>2, UseStep, AlwaysSound, PTL DEF Spec

(***************************************************************************)
(* Enrollment.                                                             *)
(***************************************************************************)

\* The steps that touch tokens or devices.
LEMMA EnrollmentSteps ==
  ASSUME [Next]_vars
  PROVE  \/ UNCHANGED <<tokens, devices>>
         \/ \E r \in Requests, t \in Tokens : CreateEnrollmentToken(r, t)
         \/ \E r \in Requests, d \in Devices : EnrollCommit(r, d)
         \/ \E r \in Requests : Heartbeat(r)
<1>1. CASE Next
  BY <1>1 DEF Next, Tick, Restart, Reject, SignInFails, ArriveEnroll, EnrollConflict,
     ArriveSignIn, SignIn, SignOut, View, ArriveAdmin, EnrollRead, ArriveHeartbeat,
     SaveStorage, TestStorage, Probe, DeleteStorage, enrollments
<1> QED BY <1>1 DEF vars, enrollments

\* What a token's transaction does: the token was issued and free.
LEMMA CommitRows ==
  ASSUME Sound, NEW r \in Requests, NEW d \in Devices, EnrollCommit(r, d)
  PROVE  LET t == req[r].holds IN
         /\ t \in Tokens /\ tokens[t] # None /\ tokens[t].consumed = None /\ devices[d] = None
         /\ tokens'[t] # None /\ tokens'[t].consumed = d /\ tokens'[t].expires = tokens[t].expires
         /\ \A u \in Tokens \ {t} : tokens'[u] = tokens[u]
         /\ devices'[d] # None /\ devices'[d].enrolled = req[r].at
         /\ \A e \in Devices \ {d} : devices'[e] = devices[e]
<1> USE DEF Sound
<1> DEFINE t == req[r].holds
           row == [tokens[t] EXCEPT !.consumed = d]
           dev == [enrolled |-> req[r].at, seen |-> req[r].at]
<1>1. t \in Tokens /\ tokens[t] # None /\ tokens[t] \in Token /\ req[r] \in Request
  BY RequestOf, RowOf DEF EnrollCommit, RequestsOK, HoldsWhatItNeeds
<1>2. row \in Token /\ row.consumed = d /\ row.expires = tokens[t].expires
  BY <1>1 DEF Token
<1>3. dev \in Device /\ dev.enrolled = req[r].at
  BY <1>1 DEF Device, Request
<1>4. tokens' = [tokens EXCEPT ![t] = row] /\ devices' = [devices EXCEPT ![d] = dev]
      /\ tokens[t].consumed = None /\ devices[d] = None
  BY DEF EnrollCommit, Take
<1> HIDE DEF row, dev, t
<1>5. tokens'[t] = row /\ \A u \in Tokens \ {t} : tokens'[u] = tokens[u]
  BY <1>1, <1>4 DEF TypeOK
<1>6. devices'[d] = dev /\ \A e \in Devices \ {d} : devices'[e] = devices[e]
  BY <1>4 DEF TypeOK
<1>7. row # None /\ dev # None
  BY <1>2, <1>3, NoneIsAbsent
<1> QED BY <1>1, <1>2, <1>3, <1>4, <1>5, <1>6, <1>7 DEF t

\* Issuing a token.
LEMMA IssueRows ==
  ASSUME Sound, NEW r \in Requests, NEW t \in Tokens, CreateEnrollmentToken(r, t)
  PROVE  /\ tokens[t] = None /\ tokens'[t] # None /\ tokens'[t].consumed = None
         /\ \A u \in Tokens \ {t} : tokens'[u] = tokens[u]
         /\ devices' = devices
<1> DEFINE row == [expires |-> clock + TokenTtl, consumed |-> None]
<1>1. row \in Token
  BY ConstantsOK DEF Token, Sound, TypeOK
<1>2. row.consumed = None
  OBVIOUS
<1>3. tokens' = [tokens EXCEPT ![t] = row] /\ tokens[t] = None /\ devices' = devices
  BY DEF CreateEnrollmentToken
<1> HIDE DEF row
<1> QED BY <1>1, <1>2, <1>3, NoneIsAbsent DEF Sound, TypeOK

\* A heartbeat leaves what matters of a device alone.
LEMMA HeartbeatRows ==
  ASSUME Sound, NEW r \in Requests, Heartbeat(r)
  PROVE  /\ tokens' = tokens
         /\ \A d \in Devices : /\ devices'[d] = None <=> devices[d] = None
                               /\ devices'[d] # None => devices'[d].enrolled = devices[d].enrolled
<1> USE DEF Sound
<1> DEFINE e == req[r].by
           dev == [devices[e] EXCEPT !.seen = clock]
<1>1. e \in Devices /\ devices[e] # None /\ devices[e] \in Device
  BY RowOf DEF Heartbeat, HasBody, RequestsOK, HoldsWhatItNeeds
<1>2. dev \in Device /\ dev.enrolled = devices[e].enrolled
  BY <1>1 DEF Device, TypeOK
<1>3. devices' = [devices EXCEPT ![e] = dev] /\ tokens' = tokens
  BY DEF Heartbeat
<1> HIDE DEF e, dev
<1> QED BY <1>1, <1>2, <1>3, NoneIsAbsent DEF TypeOK

\* The initial state, seen from the promise, is its initial state.
LEMMA PromiseInit == Init => Promise!Init
BY DEF Init, Promise!Init

\* Every step is a step of the promise, or nothing to it: a token is issued, or
\* makes its one device.
LEMMA PromiseStep == Sound /\ [Next]_vars => [Promise!Next]_(Promise!vars)
<1> SUFFICES ASSUME Sound, [Next]_vars PROVE [Promise!Next]_(Promise!vars)
  OBVIOUS
<1> DEFINE issued   == {t \in Tokens : tokens[t] # None}
           owner    == [t \in Tokens |-> IF tokens[t] = None THEN None ELSE tokens[t].consumed]
           enrolled == {d \in Devices : devices[d] # None}
<1>1. CASE UNCHANGED <<tokens, devices>>
  BY <1>1 DEF Promise!vars
<1>2. CASE \E r \in Requests, t \in Tokens : CreateEnrollmentToken(r, t)
  <2>1. PICK r \in Requests, t \in Tokens : CreateEnrollmentToken(r, t)
    BY <1>2
  <2>2. t \notin issued /\ issued' = issued \cup {t} /\ owner' = owner /\ enrolled' = enrolled
    BY <2>1, IssueRows
  <2>3. Promise!Issue(t)
    BY <2>2 DEF Promise!Issue
  <2> QED BY <2>3 DEF Promise!Next
<1>3. CASE \E r \in Requests, d \in Devices : EnrollCommit(r, d)
  <2>1. PICK r \in Requests, d \in Devices : EnrollCommit(r, d)
    BY <1>3
  <2> DEFINE t == req[r].holds
  <2>2. /\ t \in Tokens /\ tokens[t] # None /\ tokens[t].consumed = None /\ devices[d] = None
        /\ tokens'[t] # None /\ tokens'[t].consumed = d
        /\ \A u \in Tokens \ {t} : tokens'[u] = tokens[u]
        /\ devices'[d] # None /\ \A e \in Devices \ {d} : devices'[e] = devices[e]
    BY <2>1, CommitRows
  <2> HIDE DEF t
  <2>3. t \in issued /\ owner[t] = None /\ d \notin enrolled
    BY <2>2
  <2>4. issued' = issued /\ enrolled' = enrolled \cup {d}
    BY <2>2
  <2>5. owner' = [owner EXCEPT ![t] = d]
    BY <2>2
  <2>6. Promise!Enroll(t, d)
    BY <2>3, <2>4, <2>5 DEF Promise!Enroll
  <2> QED BY <2>2, <2>6 DEF Promise!Next
<1>4. CASE \E r \in Requests : Heartbeat(r)
  <2>1. issued' = issued /\ owner' = owner /\ enrolled' = enrolled
    BY <1>4, HeartbeatRows
  <2> QED BY <2>1 DEF Promise!vars
<1> QED BY <1>1, <1>2, <1>3, <1>4, EnrollmentSteps

\* Enrollment implements its abstract specification: enrollDevice (store.ts)
\* reads the token outside the transaction, but its conditional UPDATE gives a
\* token to one device only.
THEOREM PromiseKept == Spec => EnrollmentPromise
<1>1. Init => Promise!Init
  BY PromiseInit
<1>2. Sound /\ [Next]_vars => [Promise!Next]_(Promise!vars)
  BY PromiseStep
<1> QED BY <1>1, <1>2, AlwaysSound, PTL DEF Spec, EnrollmentPromise, Promise!Spec

\* A request that has read a token did so before the token expired.
ReadInTime ==
  \A r \in Requests : req[r] # None /\ req[r].pc = "commit" =>
    req[r].at <= tokens[req[r].holds].expires

\* A request between its read and its transaction was there, or reads now.
LEMMA CommittingRows ==
  ASSUME Sound, [Next]_vars, NEW q \in Requests, req'[q] # None, req'[q].pc = "commit"
  PROVE  req'[q] = req[q] \/ \E t \in Tokens : EnrollRead(q, t)
<1>1. RowStep(q)
  BY RowSteps
<1>2. ~Arrived(q)
  BY DEF Arrived
<1>3. ~LosesWindow(q)
  <2>1. SUFFICES ASSUME LosesWindow(q) PROVE FALSE
    OBVIOUS
  <2>2. req[q] \in Request
    BY <2>1, RequestOf DEF LosesWindow, Sound
  <2>3. req[q].pc = "commit" /\ req[q].op = "signIn"
    BY <2>1, <2>2 DEF LosesWindow, Request
  <2> QED BY <2>1, <2>3 DEF LosesWindow, Sound, RequestsOK, HoldsWhatItNeeds
<1>4. ASSUME NEW conf \in Backends, SaveStorage(q, conf) PROVE FALSE
  <2>1. req' = [req EXCEPT ![q].pc = "probe", ![q].holds = conf] /\ req[q] # None
    BY <1>4 DEF SaveStorage, Moves, HasBody
  <2>2. req[q] \in Request
    BY <2>1, RequestOf DEF Sound
  <2>3. req'[q] = [req[q] EXCEPT !.pc = "probe", !.holds = conf]
    BY <2>1 DEF Sound, TypeOK
  <2> QED BY <2>2, <2>3 DEF Request
<1> QED BY <1>1, <1>2, <1>3, <1>4 DEF RowStep

\* A step enrolls devices in time, if tokens were read in time.
LEMMA TimeStep == Sound /\ EnrolledInTime /\ ReadInTime /\ [Next]_vars
                    => (EnrolledInTime /\ ReadInTime)'
<1> SUFFICES ASSUME Sound, EnrolledInTime, ReadInTime, [Next]_vars
             PROVE  EnrolledInTime' /\ ReadInTime'
  OBVIOUS
<1>1. ASSUME NEW t \in Tokens, tokens[t] # None
      PROVE  tokens'[t] # None /\ tokens'[t].expires = tokens[t].expires
  <2>1. CASE \E r \in Requests, u \in Tokens : CreateEnrollmentToken(r, u)
    BY <1>1, <2>1, IssueRows
  <2>2. CASE \E r \in Requests, d \in Devices : EnrollCommit(r, d)
    <3>1. PICK r \in Requests, d \in Devices : EnrollCommit(r, d)
      BY <2>2
    <3> DEFINE u == req[r].holds
    <3>2. /\ tokens'[u] # None /\ tokens'[u].expires = tokens[u].expires
          /\ \A v \in Tokens \ {u} : tokens'[v] = tokens[v]
      BY <3>1, CommitRows
    <3> HIDE DEF u
    <3> QED BY <1>1, <3>2
  <2>3. CASE \E r \in Requests : Heartbeat(r)
    BY <1>1, <2>3, HeartbeatRows
  <2> QED BY <1>1, <2>1, <2>2, <2>3, EnrollmentSteps
<1>2. ReadInTime'
  <2> SUFFICES ASSUME NEW q \in Requests, req'[q] # None, req'[q].pc = "commit"
               PROVE  req'[q].at <= tokens'[req'[q].holds].expires
    BY DEF ReadInTime
  <2>1. CASE req'[q] = req[q]
    <3>1. req[q].holds \in Tokens /\ tokens[req[q].holds] # None
      BY <2>1 DEF Sound, RequestsOK, HoldsWhatItNeeds
    <3> QED BY <1>1, <2>1, <3>1 DEF ReadInTime
  <2>2. CASE \E t \in Tokens : EnrollRead(q, t)
    <3>1. PICK t \in Tokens : EnrollRead(q, t)
      BY <2>2
    <3>2. req[q] \in Request /\ tokens[t] # None /\ clock <= tokens[t].expires
      BY <3>1, RequestOf DEF EnrollRead, HasBody, Usable, Sound
    <3>3. req'[q] = [req[q] EXCEPT !.pc = "commit", !.holds = t, !.at = clock]
      BY <3>1 DEF EnrollRead, Sound, TypeOK
    <3>4. req'[q].holds = t /\ req'[q].at = clock
      BY <3>2, <3>3 DEF Request
    <3> QED BY <1>1, <3>2, <3>4
  <2> QED BY <2>1, <2>2, CommittingRows
<1>3. EnrolledInTime'
  <2> SUFFICES ASSUME NEW d \in Devices, devices'[d] # None
               PROVE  \E t \in Tokens : /\ tokens'[t] # None /\ tokens'[t].consumed = d
                                        /\ devices'[d].enrolled <= tokens'[t].expires
    BY DEF EnrolledInTime
  <2>1. CASE UNCHANGED <<tokens, devices>>
    BY <2>1 DEF EnrolledInTime
  <2>2. CASE \E r \in Requests, t \in Tokens : CreateEnrollmentToken(r, t)
    <3>1. PICK r \in Requests, u \in Tokens : CreateEnrollmentToken(r, u)
      BY <2>2
    <3>2. PICK t \in Tokens : /\ tokens[t] # None /\ tokens[t].consumed = d
                              /\ devices[d].enrolled <= tokens[t].expires
      BY <3>1, IssueRows DEF EnrolledInTime
    <3> QED BY <3>1, <3>2, IssueRows
  <2>3. CASE \E r \in Requests, e \in Devices : EnrollCommit(r, e)
    <3>1. PICK r \in Requests, e \in Devices : EnrollCommit(r, e)
      BY <2>3
    <3> DEFINE u == req[r].holds
    <3>2. /\ u \in Tokens /\ tokens[u].consumed = None /\ tokens'[u] # None
          /\ tokens'[u].consumed = e /\ tokens'[u].expires = tokens[u].expires
          /\ \A v \in Tokens \ {u} : tokens'[v] = tokens[v]
          /\ devices'[e].enrolled = req[r].at
          /\ \A f \in Devices \ {e} : devices'[f] = devices[f]
      BY <3>1, CommitRows
    <3>3. req[r].at <= tokens[u].expires
      BY <3>1 DEF ReadInTime, EnrollCommit
    <3> HIDE DEF u
    <3>4. CASE d = e
      BY <3>2, <3>3, <3>4
    <3>5. CASE d # e
      <4>1. PICK t \in Tokens : /\ tokens[t] # None /\ tokens[t].consumed = d
                                /\ devices[d].enrolled <= tokens[t].expires
        BY <3>2, <3>5 DEF EnrolledInTime
      <4>2. t # u
        BY <3>2, <4>1, ConstantsOK
      <4> QED BY <3>2, <3>5, <4>1, <4>2
    <3> QED BY <3>4, <3>5
  <2>4. CASE \E r \in Requests : Heartbeat(r)
    <3>1. /\ tokens' = tokens
          /\ devices[d] # None /\ devices'[d].enrolled = devices[d].enrolled
      BY <2>4, HeartbeatRows
    <3> QED BY <3>1 DEF EnrolledInTime
  <2> QED BY <2>1, <2>2, <2>3, <2>4, EnrollmentSteps
<1> QED BY <1>2, <1>3

\* No device is enrolled with an expired token, or without one.
THEOREM InTime == Spec => []EnrolledInTime
<1>1. Init => EnrolledInTime /\ ReadInTime
  BY DEF Init, EnrolledInTime, ReadInTime
<1>2. Sound /\ EnrolledInTime /\ ReadInTime /\ [Next]_vars => (EnrolledInTime /\ ReadInTime)'
  BY TimeStep
<1> QED BY <1>1, <1>2, AlwaysSound, PTL DEF Spec

(***************************************************************************)
(* The storage backend: what a probe under way asks is what is saved, or   *)
(* the backend was saved meanwhile.                                        *)
(***************************************************************************)

ProbesSaved ==
  backend # None /\ ~overtaken =>
    \A r \in Requests : req[r] # None /\ req[r].pc = "probe" => req[r].holds = backend.conf

\* The steps that touch the backend.
LEMMA StorageSteps ==
  ASSUME [Next]_vars
  PROVE  \/ UNCHANGED <<backend, probed, overtaken>>
         \/ \E r \in Requests, b \in Backends : SaveStorage(r, b)
         \/ \E r \in Requests, ok \in BOOLEAN : Probe(r, ok)
         \/ backend' = None
<1>1. CASE Next
  BY <1>1 DEF Next, Tick, Restart, Reject, SignInFails, ArriveEnroll, EnrollConflict, Heartbeat,
     ArriveSignIn, SignIn, SignOut, View, ArriveAdmin, CreateEnrollmentToken, EnrollRead,
     EnrollCommit, ArriveHeartbeat, TestStorage, DeleteStorage, storage
<1> QED BY <1>1 DEF vars, storage

\* A probe under way was under way, or starts now.
LEMMA ProbingRows ==
  ASSUME Sound, [Next]_vars, NEW q \in Requests, req'[q] # None, req'[q].pc = "probe"
  PROVE  \/ req'[q] = req[q]
         \/ backend # None /\ backend' = backend /\ req'[q].holds = backend.conf
         \/ \E conf \in Backends : SaveStorage(q, conf) /\ req'[q].holds = conf
<1>1. RowStep(q)
  BY RowSteps
<1>2. ~LosesWindow(q)
  <2>1. SUFFICES ASSUME LosesWindow(q) PROVE FALSE
    OBVIOUS
  <2>2. req[q] \in Request
    BY <2>1, RequestOf DEF LosesWindow, Sound
  <2>3. req[q].pc = "probe" /\ req[q].op = "signIn"
    BY <2>1, <2>2 DEF LosesWindow, Request
  <2> QED BY <2>1, <2>3 DEF LosesWindow, Sound, RequestsOK, HoldsWhatItNeeds
<1>3. ASSUME NEW t \in Tokens, EnrollRead(q, t) PROVE FALSE
  <2>1. req[q] \in Request
    BY <1>3, RequestOf DEF EnrollRead, HasBody, Sound
  <2>2. req'[q] = [req[q] EXCEPT !.pc = "commit", !.holds = t, !.at = clock]
    BY <1>3 DEF EnrollRead, Sound, TypeOK
  <2> QED BY <2>1, <2>2 DEF Request
<1>4. ASSUME NEW conf \in Backends, SaveStorage(q, conf) PROVE req'[q].holds = conf
  <2>1. req[q] \in Request
    BY <1>4, RequestOf DEF SaveStorage, HasBody, Sound
  <2>2. req'[q] = [req[q] EXCEPT !.pc = "probe", !.holds = conf]
    BY <1>4 DEF SaveStorage, Moves, Sound, TypeOK
  <2> QED BY <2>1, <2>2 DEF Request
<1>5. CASE Arrived(q)
  BY <1>5 DEF Arrived
<1> QED BY <1>1, <1>2, <1>3, <1>4, <1>5 DEF RowStep

\* A step shows a backend as verified only when it was.
LEMMA VerifiedStep == Sound /\ VerifiedWasProbed /\ ProbesSaved /\ [Next]_vars
                        => (VerifiedWasProbed /\ ProbesSaved)'
<1> SUFFICES ASSUME Sound, VerifiedWasProbed, ProbesSaved, [Next]_vars
             PROVE  VerifiedWasProbed' /\ ProbesSaved'
  OBVIOUS
<1>1. CASE UNCHANGED <<backend, probed, overtaken>>
  <2>1. VerifiedWasProbed'
    BY <1>1 DEF VerifiedWasProbed
  <2>2. ASSUME backend # None, ~overtaken, NEW q \in Requests, req'[q] # None, req'[q].pc = "probe"
        PROVE  req'[q].holds = backend.conf
    <3>1. CASE req'[q] = req[q]
      BY <2>2, <3>1 DEF ProbesSaved
    <3>2. CASE \E conf \in Backends : SaveStorage(q, conf) /\ req'[q].holds = conf
      BY <1>1, <3>2 DEF SaveStorage, Saved
    <3> QED BY <2>2, <3>1, <3>2, ProbingRows
  <2> QED BY <1>1, <2>1, <2>2 DEF ProbesSaved
<1>2. CASE \E r \in Requests, b \in Backends : SaveStorage(r, b)
  <2>1. PICK r \in Requests, b \in Backends : SaveStorage(r, b)
    BY <1>2
  <2>2. backend' = [conf |-> b, sealed |-> key, verified |-> FALSE] /\ overtaken' = (Probing # {})
    BY <2>1 DEF SaveStorage, Saved
  <2>3. backend'.verified = FALSE /\ backend'.conf = b
    BY <2>2
  <2>4. ASSUME ~overtaken', NEW q \in Requests, req'[q] # None, req'[q].pc = "probe"
        PROVE  req'[q].holds = b
    <3>1. req'[q] # req[q]
      BY <2>2, <2>4 DEF Probing
    <3>2. CASE backend' = backend /\ req'[q].holds = backend.conf
      BY <2>3, <3>2
    <3>3. CASE \E conf \in Backends : SaveStorage(q, conf) /\ req'[q].holds = conf
      BY <2>3, <3>3 DEF SaveStorage, Saved
    <3> QED BY <2>4, <3>1, <3>2, <3>3, ProbingRows
  <2> QED BY <2>3, <2>4 DEF VerifiedWasProbed, ProbesSaved
<1>3. CASE \E r \in Requests, ok \in BOOLEAN : Probe(r, ok)
  <2>1. PICK r \in Requests : \E ok \in BOOLEAN : Probe(r, ok)
    BY <1>3
  <2>2. req[r] # None /\ req[r].pc = "probe" /\ overtaken' = overtaken
    BY <2>1 DEF Probe
  <2>3. probed \subseteq probed'
    BY <2>1 DEF Probe
  <2>4. ASSUME backend' # None
        PROVE  /\ backend # None /\ backend'.conf = backend.conf
               /\ backend'.verified => req[r].holds \in probed'
    <3>1. PICK ok \in BOOLEAN : Probe(r, ok)
      BY <2>1
    <3>2. backend # None /\ backend \in Backend
      BY <2>4, <3>1, RowOf DEF Probe, Record, Sound
    <3>3. backend' = [backend EXCEPT !.verified = ok]
      BY <3>1, <3>2 DEF Probe, Record
    <3>4. backend'.conf = backend.conf /\ backend'.verified = ok
      BY <3>2, <3>3 DEF Backend
    <3>5. ok => req[r].holds \in probed'
      BY <3>1 DEF Probe
    <3> QED BY <3>2, <3>4, <3>5
  <2>5. VerifiedWasProbed'
    BY <2>2, <2>4 DEF VerifiedWasProbed, ProbesSaved
  <2>6. ASSUME backend' # None, ~overtaken', NEW q \in Requests, req'[q] # None, req'[q].pc = "probe"
        PROVE  req'[q].holds = backend'.conf
    <3>1. CASE req'[q] = req[q]
      BY <2>2, <2>4, <2>6, <3>1 DEF ProbesSaved
    <3>2. CASE \E conf \in Backends : SaveStorage(q, conf) /\ req'[q].holds = conf
      BY <3>2 DEF SaveStorage, Saved
    <3> QED BY <2>4, <2>6, <3>1, <3>2, ProbingRows
  <2> QED BY <2>5, <2>6 DEF ProbesSaved
<1>4. CASE backend' = None
  BY <1>4 DEF VerifiedWasProbed, ProbesSaved
<1> QED BY <1>1, <1>2, <1>3, <1>4, StorageSteps

\* The dashboard does not show a backend as verified that nobody probed, unless
\* it was saved while a probe of the one before was under way (probeStorage in
\* api.ts awaits the network and then records on the row it finds).
THEOREM VerifiedIsProbed == Spec => []VerifiedWasProbed
<1>1. Init => VerifiedWasProbed /\ ProbesSaved
  BY DEF Init, VerifiedWasProbed, ProbesSaved
<1>2. Sound /\ VerifiedWasProbed /\ ProbesSaved /\ [Next]_vars
        => (VerifiedWasProbed /\ ProbesSaved)'
  BY VerifiedStep
<1> QED BY <1>1, <1>2, AlwaysSound, PTL DEF Spec

(***************************************************************************)
(* The sign-in throttle.  Requests that the window in the map will count   *)
(* are bounded together with what it counts; failures that it does not     *)
(* count are bounded together with the requests left from an earlier one.  *)
(***************************************************************************)

\* The sign-ins of c that are under way; those that were left from a window
\* that is no longer in the map; those that will be counted in the one there.
Guessing(c) == {r \in Requests : req[r] # None /\ req[r].op = "signIn" /\ req[r].by = c}
Left(c) == {r \in Guessing(c) : req[r].holds = "dropped"}
Kept(c) == {r \in Guessing(c) : req[r].holds # "dropped"}

Others == Cardinality(Requests) - 1

\* What is counted, and what is not, is bounded for client c.
GuessesBounded(c) ==
  IF attempts[c] = None
    THEN failed[c] + Cardinality(Guessing(c)) <= Limit + 2 * Others
    ELSE /\ attempts[c].count + Cardinality(Kept(c)) <= Limit + Others
         /\ attempts[c].count <= failed[c]
         /\ failed[c] - attempts[c].count + Cardinality(Left(c)) <= Others

ThrottleInv == \A c \in Clients : GuessesBounded(c)

\* The sets that are counted are finite, and the number of others is natural.
LEMMA GuessingFinite ==
  ASSUME NEW c
  PROVE  /\ IsFiniteSet(Guessing(c)) /\ Cardinality(Guessing(c)) \in Nat
         /\ IsFiniteSet(Kept(c)) /\ Cardinality(Kept(c)) \in Nat
         /\ IsFiniteSet(Left(c)) /\ Cardinality(Left(c)) \in Nat
         /\ Cardinality(Guessing(c)) = Cardinality(Kept(c)) + Cardinality(Left(c))
<1>1. IsFiniteSet(Requests) /\ Guessing(c) \subseteq Requests
      /\ Kept(c) \subseteq Guessing(c) /\ Left(c) \subseteq Guessing(c)
  BY ConstantsOK DEF Guessing, Kept, Left
<1>2. IsFiniteSet(Guessing(c)) /\ IsFiniteSet(Kept(c)) /\ IsFiniteSet(Left(c))
  BY <1>1, FS_Subset
<1>3. Guessing(c) = Kept(c) \cup Left(c) /\ Kept(c) \cap Left(c) = {}
  BY DEF Kept, Left
<1>4. Cardinality(Guessing(c)) = Cardinality(Kept(c)) + Cardinality(Left(c)) - Cardinality(Kept(c) \cap Left(c))
  BY <1>2, <1>3, FS_Union
<1>5. Cardinality(Kept(c) \cap Left(c)) = 0
  BY <1>3, FS_EmptySet
<1> QED BY <1>2, <1>4, <1>5, FS_CardinalityType

\* There is at least one request, so the others are a natural number of them;
\* sets of requests are no larger than all of them.
LEMMA OthersNat ==
  /\ IsFiniteSet(Requests) /\ Others \in Nat /\ Cardinality(Requests) = Others + 1
  /\ \A S \in SUBSET Requests : Cardinality(S) \in Nat /\ Cardinality(S) <= Others + 1
  /\ \A r \in Requests : \A S \in SUBSET (Requests \ {r}) : Cardinality(S) <= Others
<1>1. IsFiniteSet(Requests) /\ Cardinality(Requests) \in Nat /\ Cardinality(Requests) # 0
  BY ConstantsOK, FS_CardinalityType, FS_EmptySet
<1>2. Others \in Nat /\ Cardinality(Requests) = Others + 1
  BY <1>1 DEF Others
<1>3. \A S \in SUBSET Requests : Cardinality(S) \in Nat /\ Cardinality(S) <= Others + 1
  BY <1>1, <1>2, FS_Subset, FS_CardinalityType
<1>4. ASSUME NEW r \in Requests, NEW S \in SUBSET (Requests \ {r})
      PROVE  Cardinality(S) <= Others
  <2>1. IsFiniteSet(Requests \ {r}) /\ Cardinality(Requests \ {r}) = Others
    BY <1>1, <1>2, FS_RemoveElement
  <2> QED BY <2>1, FS_Subset
<1> QED BY <1>1, <1>2, <1>3, <1>4

\* A sign-in under way was there, and what it holds has not changed, unless a
\* sign-in arrives or succeeds.
LEMMA GuessingRows ==
  ASSUME Sound, [Next]_vars, NEW c, NEW q \in Guessing(c)'
  PROVE  \/ req'[q] = req[q] /\ q \in Guessing(c)
         \/ SigningIn
<1>0. q \in Requests /\ req'[q] # None /\ req'[q].op = "signIn" /\ req'[q].by = c
  BY DEF Guessing
<1>1. RowStep(q)
  BY <1>0, RowSteps
<1>2. CASE req'[q] = req[q]
  BY <1>0, <1>2 DEF Guessing
<1>3. LosesWindow(q) => SigningIn
  BY DEF LosesWindow
<1>4. CASE Arrived(q)
  BY <1>0, <1>4 DEF Arrived, SigningIn
<1>5. ASSUME NEW t \in Tokens, EnrollRead(q, t) PROVE FALSE
  <2>1. req[q] \in Request /\ req[q].op = "enroll"
    BY <1>0, <1>5, RequestOf DEF EnrollRead, HasBody, Sound
  <2>2. req'[q] = [req[q] EXCEPT !.pc = "commit", !.holds = t, !.at = clock]
    BY <1>0, <1>5 DEF EnrollRead, Sound, TypeOK
  <2>3. req'[q].op = "enroll"
    BY <2>1, <2>2 DEF Request
  <2> QED BY <1>0, <2>3
<1>6. ASSUME NEW conf \in Backends, SaveStorage(q, conf) PROVE FALSE
  <2>1. req[q] \in Request /\ req[q].op = "saveStorage"
    BY <1>0, <1>6, RequestOf DEF SaveStorage, HasBody, Sound
  <2>2. req'[q] = [req[q] EXCEPT !.pc = "probe", !.holds = conf]
    BY <1>0, <1>6 DEF SaveStorage, Moves, Sound, TypeOK
  <2>3. req'[q].op = "saveStorage"
    BY <2>1, <2>2 DEF Request
  <2> QED BY <1>0, <2>3
<1> QED BY <1>0, <1>1, <1>2, <1>3, <1>4, <1>5, <1>6 DEF RowStep

\* A step that leaves the client's numbers alone and starts no request of it
\* keeps the bounds.
LEMMA QuietThrottle ==
  ASSUME Sound, NEW c \in Clients, GuessesBounded(c),
         attempts'[c] = attempts[c], failed'[c] = failed[c],
         Kept(c)' \subseteq Kept(c), Left(c)' \subseteq Left(c)
  PROVE  GuessesBounded(c)'
<1>1. Cardinality(Kept(c)') <= Cardinality(Kept(c)) /\ Cardinality(Left(c)') <= Cardinality(Left(c))
      /\ Cardinality(Kept(c)') \in Nat /\ Cardinality(Left(c)') \in Nat
  BY GuessingFinite, FS_Subset, FS_CardinalityType
<1>2. Cardinality(Guessing(c)') <= Cardinality(Guessing(c)) /\ Cardinality(Guessing(c)') \in Nat
  <2>1. Guessing(c)' \subseteq Guessing(c)
    BY DEF Kept, Left
  <2> QED BY <2>1, GuessingFinite, FS_Subset, FS_CardinalityType
<1>3. failed[c] \in Nat /\ (attempts[c] # None => attempts[c].count \in Nat)
  BY RowOf DEF Sound, TypeOK, Attempt
<1> QED BY <1>1, <1>2, <1>3, GuessingFinite, OthersNat, ConstantsOK DEF GuessesBounded, Others

\* A sign-in that arrives at the throttle.
LEMMA ThrottleArrives ==
  ASSUME Sound, NEW c \in Clients, GuessesBounded(c),
         NEW r \in Requests, NEW d \in Clients, ArriveSignIn(r, d)
  PROVE  GuessesBounded(c)'
<1>1. /\ req' \in [Requests -> Request \cup {None}]
      /\ req'[r] = SignInRequest(d) /\ req[r] = None
      /\ \A q \in Requests \ {r} : req'[q] = IF Over(d) THEN Dropped(d)[q] ELSE req[q]
  <2>1. SignInRequest(d) \in Request
    BY DEF SignInRequest, Request, Ops
  <2> QED BY <2>1, DroppedRows DEF ArriveSignIn, Sound, TypeOK
<1>2. SignInRequest(d).by = d /\ SignInRequest(d).op = "signIn" /\ SignInRequest(d).holds = "kept"
  BY DEF SignInRequest
<1>3. CASE c # d
  <2>1. attempts'[c] = attempts[c] /\ failed'[c] = failed[c]
    BY <1>3 DEF ArriveSignIn, Sound, TypeOK
  <2>2. ASSUME NEW q \in Guessing(c)' PROVE q \in Guessing(c) /\ req'[q] = req[q]
    <3>1. q \in Requests /\ req'[q] # None /\ req'[q].op = "signIn" /\ req'[q].by = c
      BY <2>2 DEF Guessing
    <3>2. q # r
      BY <1>1, <1>2, <1>3, <3>1
    <3>0. req'[q] \in {req[q], Dropped(d)[q]} /\ (Dropped(d)[q] = None <=> req[q] = None)
      BY <1>1, <3>1, <3>2, DroppedRows DEF Sound
    <3>3. req[q] # None /\ req[q] \in Request
      BY <3>0, <3>1, RequestOf DEF Sound
    <3>4. CASE req'[q] = req[q]
      BY <3>1, <3>3, <3>4 DEF Guessing
    <3>5. CASE req[q].by = d /\ req'[q] = [req[q] EXCEPT !.holds = "dropped"]
      BY <1>3, <3>1, <3>3, <3>5 DEF Request
    <3> QED BY <3>0, <3>1, <3>3, <3>4, <3>5, DroppedRows DEF Sound
  <2>3. Kept(c)' \subseteq Kept(c) /\ Left(c)' \subseteq Left(c)
    BY <2>2 DEF Kept, Left
  <2> QED BY <2>1, <2>3, QuietThrottle
<1>4. CASE c = d
  <2>1. Kept(c)' \subseteq Requests /\ Left(c)' \subseteq Requests \ {r}
    BY <1>1, <1>2 DEF Kept, Left, Guessing
  <2>2. /\ Cardinality(Kept(c)') \in Nat /\ Cardinality(Kept(c)') <= Others + 1
        /\ Cardinality(Left(c)') \in Nat /\ Cardinality(Left(c)') <= Others
    BY <2>1, OthersNat
  <2>3. CASE Over(c)
    <3>1. attempts'[c] # None /\ attempts'[c].count = 0 /\ failed'[c] = 0
      BY <1>4, <2>3, NoneIsAbsent, ConstantsOK DEF ArriveSignIn, Sound, TypeOK, Attempt
    <3> QED BY <2>2, <3>1, OthersNat, ConstantsOK DEF GuessesBounded
  <2>4. CASE ~Over(c)
    <3>1. /\ attempts[c] # None /\ attempts[c].count < Limit /\ attempts[c].count \in Nat
          /\ attempts' = attempts /\ failed' = failed /\ failed[c] \in Nat
      BY <1>4, <2>4, RowOf DEF ArriveSignIn, Room, Over, Sound, TypeOK, Attempt
    <3>2. Left(c)' \subseteq Left(c)
      BY <1>1, <1>2, <1>4, <2>4 DEF Left, Guessing
    <3>3. Cardinality(Left(c)') <= Cardinality(Left(c))
      BY <3>2, GuessingFinite, FS_Subset
    <3> QED BY <2>2, <3>1, <3>3, GuessingFinite, OthersNat, ConstantsOK DEF GuessesBounded
  <2> QED BY <2>3, <2>4
<1> QED BY <1>3, <1>4

\* A sign-in that fails is counted, or was left from an earlier window.
LEMMA ThrottleFails ==
  ASSUME Sound, NEW c \in Clients, GuessesBounded(c), NEW r \in Requests, SignInFails(r)
  PROVE  GuessesBounded(c)'
<1>1. /\ req[r] # None /\ req[r].op = "signIn" /\ req[r].by \in Clients /\ req'[r] = None
      /\ \A q \in Requests \ {r} : req'[q] = req[q]
      /\ req[r].holds # "dropped" => attempts[req[r].by] # None
  BY EndsRows DEF SignInFails, HasBody, Sound, RequestsOK, HoldsWhatItNeeds
<1>2. Kept(c)' = Kept(c) \ {r} /\ Left(c)' = Left(c) \ {r} /\ Guessing(c)' = Guessing(c) \ {r}
  BY <1>1 DEF Kept, Left, Guessing
<1>3. CASE req[r].by # c
  <2>1. attempts'[c] = attempts[c] /\ failed'[c] = failed[c]
    BY <1>1, <1>3 DEF SignInFails, Sound, TypeOK
  <2> QED BY <1>2, <2>1, QuietThrottle
<1>4. CASE req[r].by = c
  <2>1. failed[c] \in Nat /\ failed'[c] = failed[c] + 1 /\ r \in Guessing(c)
    BY <1>1, <1>4 DEF SignInFails, Sound, TypeOK, Guessing
  <2>2. attempts[c] # None => attempts[c] \in Attempt /\ attempts[c].count \in Nat
    BY RowOf DEF Sound, Attempt
  <2>3. Cardinality(Guessing(c)') = Cardinality(Guessing(c)) - 1
    BY <1>2, <2>1, GuessingFinite, FS_RemoveElement
  <2>4. CASE req[r].holds = "dropped"
    <3>1. attempts' = attempts /\ r \in Left(c) /\ r \notin Kept(c)
      BY <2>1, <2>4 DEF SignInFails, Left, Kept
    <3>2. Left(c)' = Left(c) \ {r} /\ Kept(c)' = Kept(c)
      BY <1>2, <3>1
    <3>3. Cardinality(Left(c)') = Cardinality(Left(c)) - 1
      BY <3>1, <3>2, GuessingFinite, FS_RemoveElement
    <3> QED BY <2>1, <2>2, <2>3, <3>1, <3>2, <3>3, GuessingFinite, OthersNat, ConstantsOK
            DEF GuessesBounded
  <2>5. CASE req[r].holds # "dropped"
    <3>1. attempts[c] # None /\ r \in Kept(c) /\ r \notin Left(c)
          /\ attempts' = [attempts EXCEPT ![c] = [attempts[c] EXCEPT !.count = @ + 1]]
      BY <1>1, <1>4, <2>1, <2>5 DEF SignInFails, Left, Kept
    <3>2. attempts'[c] # None /\ attempts'[c].count = attempts[c].count + 1
      <4>1. attempts'[c] = [attempts[c] EXCEPT !.count = @ + 1]
        BY <3>1 DEF Sound, TypeOK
      <4>2. [attempts[c] EXCEPT !.count = @ + 1] \in Attempt
        BY <2>2, <3>1 DEF Attempt
      <4> QED BY <2>2, <3>1, <4>1, <4>2, NoneIsAbsent DEF Attempt
    <3>3. Kept(c)' = Kept(c) \ {r} /\ Left(c)' = Left(c)
      BY <1>2, <3>1
    <3>4. Cardinality(Kept(c)') = Cardinality(Kept(c)) - 1
      BY <3>1, <3>3, GuessingFinite, FS_RemoveElement
    <3> QED BY <2>1, <2>2, <3>1, <3>2, <3>3, <3>4, GuessingFinite, OthersNat, ConstantsOK
            DEF GuessesBounded
  <2> QED BY <2>4, <2>5
<1> QED BY <1>3, <1>4

\* A sign-in that succeeds drops the client's window.
LEMMA ThrottleSucceeds ==
  ASSUME Sound, NEW c \in Clients, GuessesBounded(c),
         NEW r \in Requests, NEW s \in Sessions, SignIn(r, s)
  PROVE  GuessesBounded(c)'
<1> DEFINE b == req[r].by
<1>1. b \in Clients /\ req' = [Dropped(b) EXCEPT ![r] = None] /\ failed' = failed
      /\ attempts' = [attempts EXCEPT ![b] = None]
  BY DEF SignIn, HasBody, Sound, RequestsOK, HoldsWhatItNeeds
<1>2. failed[c] \in Nat /\ (attempts[c] # None => attempts[c].count \in Nat)
  BY RowOf DEF Sound, TypeOK, Attempt
<1> HIDE DEF b
<1>3. /\ req'[r] = None
      /\ \A q \in Requests \ {r} :
           \/ req'[q] = req[q] /\ ~(req[q] # None /\ req[q].op = "signIn" /\ req[q].by = b)
           \/ /\ req[q] # None /\ req[q].op = "signIn" /\ req[q].by = b
  BY <1>1, DroppedRows DEF Sound
<1>4. CASE b # c
  <2>1. attempts'[c] = attempts[c]
    BY <1>1, <1>4 DEF Sound, TypeOK
  <2>2. ASSUME NEW q \in Guessing(c)' PROVE q \in Guessing(c) /\ req'[q] = req[q]
    <3>1. q \in Requests /\ req'[q] # None /\ req'[q].op = "signIn" /\ req'[q].by = c
      BY <2>2 DEF Guessing
    <3>2. q # r /\ req'[q] = Dropped(b)[q]
      BY <1>1, <3>1, DroppedRows DEF Sound
    <3>3. req[q] # None /\ req[q] \in Request
      BY <1>1, <3>1, <3>2, DroppedRows, RequestOf DEF Sound
    <3>4. CASE req'[q] = req[q]
      BY <3>1, <3>3, <3>4 DEF Guessing
    <3>5. CASE req[q].by = b /\ req'[q] = [req[q] EXCEPT !.holds = "dropped"]
      BY <1>4, <3>1, <3>3, <3>5 DEF Request
    <3> QED BY <1>1, <3>1, <3>2, <3>3, <3>4, <3>5, DroppedRows DEF Sound
  <2>3. Kept(c)' \subseteq Kept(c) /\ Left(c)' \subseteq Left(c)
    BY <2>2 DEF Kept, Left
  <2> QED BY <1>1, <2>1, <2>3, QuietThrottle
<1>5. CASE b = c
  <2>1. attempts'[c] = None
    BY <1>1, <1>5 DEF Sound, TypeOK
  <2>2. Guessing(c)' \subseteq Guessing(c)
    BY <1>3, <1>5 DEF Guessing
  <2>3. Cardinality(Guessing(c)') <= Cardinality(Guessing(c)) /\ Cardinality(Guessing(c)') \in Nat
    BY <2>2, GuessingFinite, FS_Subset, FS_CardinalityType
  <2> QED BY <1>1, <1>2, <2>1, <2>3, GuessingFinite, OthersNat, ConstantsOK DEF GuessesBounded
<1> QED BY <1>4, <1>5

\* The other steps leave the throttle alone.
LEMMA ThrottleSteps ==
  ASSUME [Next]_vars
  PROVE  \/ UNCHANGED <<attempts, failed>> /\ ~SigningIn
         \/ \E r \in Requests, c \in Clients : ArriveSignIn(r, c)
         \/ \E r \in Requests, s \in Sessions : SignIn(r, s)
         \/ \E r \in Requests : SignInFails(r)
         \/ Restart
<1>1. CASE Next
  BY <1>1 DEF Next, Tick, Reject, ArriveEnroll, EnrollConflict, Heartbeat,
     SignOut, View, ArriveAdmin, CreateEnrollmentToken, EnrollRead, EnrollCommit,
     ArriveHeartbeat, SaveStorage, TestStorage, Probe, DeleteStorage, SigningIn
<1> QED BY <1>1 DEF vars, SigningIn

\* A step keeps the bounds.
LEMMA ThrottleStep == Sound /\ ThrottleInv /\ [Next]_vars => ThrottleInv'
<1> SUFFICES ASSUME Sound, ThrottleInv, [Next]_vars, NEW c \in Clients
             PROVE  GuessesBounded(c)'
  BY DEF ThrottleInv
<1>0. GuessesBounded(c)
  BY DEF ThrottleInv
<1>1. CASE UNCHANGED <<attempts, failed>> /\ ~SigningIn
  <2>1. \A q \in Guessing(c)' : q \in Guessing(c) /\ req'[q] = req[q]
    BY <1>1, GuessingRows
  <2>2. Kept(c)' \subseteq Kept(c) /\ Left(c)' \subseteq Left(c)
    BY <2>1 DEF Kept, Left
  <2> QED BY <1>0, <1>1, <2>2, QuietThrottle
<1>2. CASE Restart
  <2>1. attempts'[c] = None /\ failed'[c] = 0 /\ Guessing(c)' = {}
    BY <1>2 DEF Restart, Guessing
  <2>2. Cardinality(Guessing(c)') = 0
    BY <2>1, FS_EmptySet
  <2> QED BY <2>1, <2>2, OthersNat, ConstantsOK DEF GuessesBounded
<1> QED BY <1>0, <1>1, <1>2, ThrottleSteps, ThrottleArrives, ThrottleSucceeds, ThrottleFails

\* All the sign-ins of a client that fail between two openings of its window
\* are bounded (loginThrottle of security.ts is asked before the body is
\* awaited and told after it), whatever windows expire, are dropped by a sign-in
\* that succeeds or are lost with the process meanwhile.
THEOREM GuessesAreBounded == Spec => []ThrottleBound
<1>1. Init => ThrottleInv
  <2> SUFFICES ASSUME Init, NEW c \in Clients PROVE GuessesBounded(c)
    BY DEF ThrottleInv
  <2>1. attempts[c] = None /\ failed[c] = 0 /\ Guessing(c) = {}
    BY DEF Init, Guessing
  <2>2. Cardinality(Guessing(c)) = 0
    BY <2>1, FS_EmptySet
  <2> QED BY <2>1, <2>2, OthersNat, ConstantsOK DEF GuessesBounded
<1>2. Sound /\ ThrottleInv => ThrottleBound
  <2> SUFFICES ASSUME Sound, ThrottleInv, NEW c \in Clients
               PROVE  failed[c] <= Limit + 2 * Others
    BY DEF ThrottleBound, Others
  <2>1. failed[c] \in Nat /\ (attempts[c] # None => attempts[c].count \in Nat)
    BY RowOf DEF Sound, TypeOK, Attempt
  <2>2. GuessesBounded(c)
    BY DEF ThrottleInv
  <2> QED BY <2>1, <2>2, GuessingFinite, OthersNat, ConstantsOK DEF GuessesBounded
<1> QED BY <1>1, <1>2, ThrottleStep, AlwaysSound, PTL DEF Spec

=============================================================================
