--------------------------- MODULE ControllerApi ---------------------------
(***************************************************************************)
(* The controller's requests (api.ts): operators sign in and out, save and *)
(* test the storage backend and issue enrollment tokens; devices enroll    *)
(* and send heartbeats.  Their rows are in SQLite (store.ts), the sign-in  *)
(* throttle in memory (security.ts).                                       *)
(*                                                                         *)
(* A request is authenticated when it arrives, then its body is awaited    *)
(* and it acts; a probe of the backend awaits the network once more.       *)
(* Between two awaits a request is not interleaved with others, except     *)
(* that enrollment reads the token outside the transaction that consumes   *)
(* it: another process that has the database open may come between.        *)
(***************************************************************************)
EXTENDS Integers, FiniteSets

CONSTANTS
  Requests,   \* concurrent requests
  Sessions,   \* browser sessions
  Script,     \* a caller that presents the administrator token itself
  Clients,    \* client addresses that sign in
  Tokens, Devices,
  Backends,   \* base URL and credential of a storage backend
  Keys,       \* secret keys the process may be started with
  SessionTtl, \* SESSION_TTL_SECONDS
  TokenTtl,   \* expires_in of an enrollment token
  Window,     \* LOGIN_WINDOW_MS
  Limit,      \* LOGIN_LIMIT
  Mixes,      \* bound: the sets of requests that arrive in one behaviour
  MaxTime,    \* bound: ticks of the clock
  MaxCrashes, \* bound: restarts of the process
  None        \* absent

Callers == Sessions \cup {Script}

ASSUME ConstantsOK ==
  /\ Script \notin Sessions /\ IsFiniteSet(Requests) /\ Requests # {}
  /\ Sessions \cap (Clients \cup Devices) = {}
  /\ SessionTtl \in Nat \ {0} /\ TokenTtl \in Nat \ {0} /\ Window \in Nat \ {0}
  /\ Limit \in Nat \ {0} /\ MaxTime \in Nat /\ MaxCrashes \in Nat
  /\ None \notin Sessions \cup Tokens \cup Devices \cup Backends \cup Keys

VARIABLES
  clock,
  sessions,  \* admin_sessions
  spent,     \* session tokens drawn so far
  tokens,    \* enrollment_tokens
  devices,   \* devices
  backend,   \* storage_backends, its single row
  key,       \* the secret key of the process
  attempts,  \* attempts[c]: the throttle window of client c, or None
  failed,    \* history: failed[c]: sign-ins of c that failed since its window began
  req,       \* req[r]: the request in slot r, or None
  probed,    \* history: backends that answered a probe
  overtaken, \* history: the backend was saved while a probe was under way
  crashes,
  mix        \* the requests that arrive in this behaviour

access == <<sessions, spent>>
enrollments == <<tokens, devices>>
storage == <<backend, probed, overtaken>>
vars == <<clock, access, enrollments, storage, attempts, failed, key, req, crashes, mix>>

Session == [expires : Nat, seen : Nat, revoked : Nat \cup {None}]
Token   == [expires : Nat, consumed : Devices \cup {None}]
Device  == [enrolled : Nat, seen : Nat]
Backend == [conf : Backends, sealed : Keys, verified : BOOLEAN]
Attempt == [count : Nat, resetAt : Nat]

\* A request: what it asks, where it waits, who sent it, when a session sent it
\* or an enrollment read its token, and what it has read: whether the throttle's
\* map still has its window, an enrollment token or a backend.
Ops == {"signIn", "saveStorage", "testStorage", "createEnrollmentToken", "enroll", "heartbeat"}
Request == [op : Ops, pc : {"body", "commit", "probe"},
            by : Callers \cup Clients \cup Devices \cup {None}, at : Nat,
            holds : {"kept", "dropped"} \cup Tokens \cup Backends \cup {None}]

ASSUME MixesOK == Mixes \subseteq SUBSET Ops

ASSUME NoneIsAbsent ==
  None \notin Session \cup Token \cup Device \cup Backend \cup Attempt \cup Request

TypeOK ==
  /\ clock \in Nat
  /\ sessions \in [Sessions -> Session \cup {None}] /\ spent \subseteq Sessions
  /\ tokens \in [Tokens -> Token \cup {None}]
  /\ devices \in [Devices -> Device \cup {None}]
  /\ backend \in Backend \cup {None} /\ key \in Keys
  /\ attempts \in [Clients -> Attempt \cup {None}] /\ failed \in [Clients -> Nat]
  /\ req \in [Requests -> Request \cup {None}]
  /\ probed \subseteq Backends /\ overtaken \in BOOLEAN /\ crashes \in Nat
  /\ mix \subseteq Ops

Init ==
  /\ clock = 0
  /\ sessions = [s \in Sessions |-> None] /\ spent = {}
  /\ tokens = [t \in Tokens |-> None] /\ devices = [d \in Devices |-> None]
  /\ backend = None /\ key \in Keys
  /\ attempts = [c \in Clients |-> None] /\ failed = [c \in Clients |-> 0]
  /\ req = [r \in Requests |-> None]
  /\ probed = {} /\ overtaken = FALSE /\ crashes = 0
  /\ mix \in Mixes

Tick ==
  /\ clock < MaxTime /\ clock' = clock + 1
  /\ UNCHANGED <<access, enrollments, storage, attempts, failed, key, req, crashes, mix>>

-----------------------------------------------------------------------------
(* Requests: they arrive, are authenticated, wait for their body and end. *)

Waits(r, op, pc, by, holds) ==
  /\ op \in mix /\ req[r] = None
  /\ req' = [req EXCEPT ![r] = [op |-> op, pc |-> pc, by |-> by, holds |-> holds,
                                at |-> IF by \in Sessions THEN clock ELSE 0]]

Moves(r, pc, holds) == req' = [req EXCEPT ![r].pc = pc, ![r].holds = holds]

Ends(r) == req' = [req EXCEPT ![r] = None]

\* The body of request r has arrived.
HasBody(r, op) == req[r] # None /\ req[r].op = op /\ req[r].pc = "body"

\* Mutant: a revoked session authenticates until it expires.
LiveUntilExpiry(s) == sessions[s] # None /\ clock < sessions[s].expires

\* authenticateAdminSession: the row is there, not revoked and not expired.
Live(s) == sessions[s] # None /\ sessions[s].revoked = None /\ clock < sessions[s].expires

\* requireAdmin: the administrator token, or a live session, whose last use is
\* recorded.  Another token is answered at once: that changes nothing, and no
\* throttle counts it.
RequireAdmin(by) ==
  \/ by = Script /\ UNCHANGED sessions
  \/ by \in Sessions /\ Live(by) /\ sessions' = [sessions EXCEPT ![by].seen = clock]

\* The request is malformed, or its connection is lost: it ends unanswered or
\* with an error, having changed nothing.
Reject(r) ==
  /\ req[r] # None /\ req[r].pc = "body"
  /\ Ends(r)
  /\ UNCHANGED <<clock, access, enrollments, storage, attempts, failed, key, crashes, mix>>

-----------------------------------------------------------------------------
(* Signing in and out. *)

\* The client's window is over, or there is none yet.
Over(c) == attempts[c] # None => attempts[c].resetAt <= clock

\* The map's window of c is replaced: requests under way keep the old one.
Dropped(c) ==
  [q \in Requests |-> IF req[q] # None /\ req[q].op = "signIn" /\ req[q].by = c
                      THEN [req[q] EXCEPT !.holds = "dropped"] ELSE req[q]]

SignInRequest(c) == [op |-> "signIn", pc |-> "body", by |-> c, at |-> 0, holds |-> "kept"]

\* Mutant: nobody is blocked.
Unblocked(c) == TRUE

\* loginThrottle: a window with room for another attempt.
Room(c) == ~Over(c) => attempts[c].count < Limit

\* signIn up to its body.  A blocked client is answered at once.
ArriveSignIn(r, c) ==
  /\ "signIn" \in mix /\ req[r] = None /\ Room(c)
  /\ attempts' = IF Over(c) THEN [attempts EXCEPT ![c] = [count |-> 0, resetAt |-> clock + Window]]
                 ELSE attempts
  /\ failed' = IF Over(c) THEN [failed EXCEPT ![c] = 0] ELSE failed
  /\ req' = [(IF Over(c) THEN Dropped(c) ELSE req) EXCEPT ![r] = SignInRequest(c)]
  /\ UNCHANGED <<clock, access, enrollments, storage, key, crashes, mix>>

\* throttle.fail() counts in the window the request arrived in, though the map
\* may hold another by now.
SignInFails(r) ==
  /\ HasBody(r, "signIn")
  /\ attempts' = IF req[r].holds = "dropped" THEN attempts
                 ELSE [attempts EXCEPT ![req[r].by].count = @ + 1]
  /\ failed' = [failed EXCEPT ![req[r].by] = @ + 1]
  /\ Ends(r)
  /\ UNCHANGED <<clock, access, enrollments, storage, key, crashes, mix>>

\* purgeExpiredAdminSessions
Purged(rows) ==
  [s \in Sessions |-> IF rows[s] # None /\ rows[s].expires <= clock THEN None ELSE rows[s]]

\* createAdminSession, after the client's window is dropped.
SignIn(r, s) ==
  /\ HasBody(r, "signIn") /\ s \notin spent
  /\ attempts' = [attempts EXCEPT ![req[r].by] = None]
  /\ spent' = spent \cup {s}
  /\ sessions' = Purged([sessions EXCEPT ![s] =
       [expires |-> clock + SessionTtl, seen |-> clock, revoked |-> None]])
  /\ req' = [Dropped(req[r].by) EXCEPT ![r] = None]
  /\ UNCHANGED <<clock, enrollments, storage, failed, key, crashes, mix>>

\* signOut and revokeAdminSession: the session may be expired or revoked.
SignOut(s) ==
  /\ sessions[s] # None
  /\ sessions' = [sessions EXCEPT ![s].revoked = IF @ = None THEN clock ELSE @]
  /\ UNCHANGED <<clock, spent, enrollments, storage, attempts, failed, key, req, crashes, mix>>

\* A page, or a request that only reads (session.ts, listDevices, storage).
View(s) ==
  /\ s # Script /\ RequireAdmin(s)
  /\ UNCHANGED <<clock, spent, enrollments, storage, attempts, failed, key, req, crashes, mix>>

-----------------------------------------------------------------------------
(* Enrollment and devices. *)

\* The administrator's requests that wait for a body.
ArriveAdmin(r, op, by) ==
  /\ RequireAdmin(by)
  /\ Waits(r, op, "body", by, None)
  /\ UNCHANGED <<clock, spent, enrollments, storage, attempts, failed, key, crashes, mix>>

CreateEnrollmentToken(r, t) ==
  /\ HasBody(r, "createEnrollmentToken") /\ tokens[t] = None
  /\ tokens' = [tokens EXCEPT ![t] = [expires |-> clock + TokenTtl, consumed |-> None]]
  /\ Ends(r)
  /\ UNCHANGED <<clock, access, devices, storage, attempts, failed, key, crashes, mix>>

ArriveEnroll(r) ==
  /\ Waits(r, "enroll", "body", None, None)
  /\ UNCHANGED <<clock, access, enrollments, storage, attempts, failed, key, crashes, mix>>

\* Mutant: the expiry of a token is not looked at.
UsableForever(t) == tokens[t] # None /\ tokens[t].consumed = None

Usable(t) == tokens[t] # None /\ tokens[t].consumed = None /\ clock <= tokens[t].expires

\* enrollDevice reads the token, and the time.
EnrollRead(r, t) ==
  /\ HasBody(r, "enroll") /\ Usable(t)
  /\ req' = [req EXCEPT ![r].pc = "commit", ![r].holds = t, ![r].at = clock]
  /\ UNCHANGED <<clock, access, enrollments, storage, attempts, failed, key, crashes, mix>>

\* Mutant: the token is consumed without looking at it again.
TakeBlindly(t, d) == tokens' = [tokens EXCEPT ![t].consumed = d]

\* The conditional UPDATE of the transaction.
Take(t, d) ==
  /\ tokens[t].consumed = None
  /\ tokens' = [tokens EXCEPT ![t].consumed = d]

\* The transaction of enrollDevice: consume the token, insert the device.
EnrollCommit(r, d) ==
  /\ req[r] # None /\ req[r].pc = "commit"
  /\ devices[d] = None /\ Take(req[r].holds, d)
  /\ devices' = [devices EXCEPT ![d] = [enrolled |-> req[r].at, seen |-> req[r].at]]
  /\ Ends(r)
  /\ UNCHANGED <<clock, access, storage, attempts, failed, key, crashes, mix>>

\* The token was consumed in the meantime: the transaction is rolled back.
EnrollConflict(r) ==
  /\ req[r] # None /\ req[r].pc = "commit" /\ tokens[req[r].holds].consumed # None
  /\ Ends(r)
  /\ UNCHANGED <<clock, access, enrollments, storage, attempts, failed, key, crashes, mix>>

\* requireDevice, then the body of a heartbeat.
ArriveHeartbeat(r, d) ==
  /\ devices[d] # None
  /\ Waits(r, "heartbeat", "body", d, None)
  /\ UNCHANGED <<clock, access, enrollments, storage, attempts, failed, key, crashes, mix>>

Heartbeat(r) ==
  /\ HasBody(r, "heartbeat")
  /\ devices' = [devices EXCEPT ![req[r].by].seen = clock]
  /\ Ends(r)
  /\ UNCHANGED <<clock, access, tokens, storage, attempts, failed, key, crashes, mix>>

-----------------------------------------------------------------------------
(* The storage backend. *)

\* resolveStorage: the password can be decrypted with the key of the process.
Resolves(b) == b # None /\ b.sealed = key

Probing == {q \in Requests : req[q] # None /\ req[q].pc = "probe"}

\* Mutant: a saved backend keeps the verification of the one it replaces.
SavedAsBefore(conf) ==
  [conf |-> conf, sealed |-> key, verified |-> IF backend = None THEN FALSE ELSE backend.verified]

\* Mutant: the password is stored as it came.
SavedUnsealed(conf) == [conf |-> conf, sealed |-> None, verified |-> FALSE]

\* saveStorageBackend: what was verified before is forgotten.
Saved(conf) == [conf |-> conf, sealed |-> key, verified |-> FALSE]

\* saveStorage saves, then starts its probe.
SaveStorage(r, conf) ==
  /\ HasBody(r, "saveStorage")
  /\ backend' = Saved(conf)
  /\ overtaken' = (Probing # {})
  /\ Moves(r, "probe", conf)
  /\ UNCHANGED <<clock, access, enrollments, attempts, failed, key, probed, crashes, mix>>

\* testStorage has no body: it probes the backend saved by now.
TestStorage(r, by) ==
  /\ RequireAdmin(by) /\ Resolves(backend)
  /\ Waits(r, "testStorage", "probe", by, backend.conf)
  /\ UNCHANGED <<clock, spent, enrollments, storage, attempts, failed, key, crashes, mix>>

\* recordStorageProbe: on the row, if there is one, that is saved by now.
Record(ok) == backend' = IF backend = None THEN None ELSE [backend EXCEPT !.verified = ok]

\* The collections were made and listed, or something failed on the way.
Probe(r, ok) ==
  /\ req[r] # None /\ req[r].pc = "probe"
  /\ Record(ok)
  /\ probed' = IF ok THEN probed \cup {req[r].holds} ELSE probed
  /\ Ends(r)
  /\ UNCHANGED <<clock, access, enrollments, overtaken, attempts, failed, key, crashes, mix>>

DeleteStorage(by) ==
  /\ "saveStorage" \in mix /\ RequireAdmin(by) /\ backend' = None
  /\ UNCHANGED <<clock, spent, enrollments, probed, overtaken, attempts, failed, key, req, crashes, mix>>

-----------------------------------------------------------------------------

\* The process is restarted, perhaps with another secret key: the throttle and
\* all requests under way are lost.
Restart ==
  /\ crashes < MaxCrashes /\ crashes' = crashes + 1
  /\ key' \in Keys
  /\ attempts' = [c \in Clients |-> None] /\ failed' = [c \in Clients |-> 0]
  /\ req' = [r \in Requests |-> None]
  /\ UNCHANGED <<clock, access, enrollments, storage, mix>>

Next ==
  \/ Tick \/ Restart
  \/ \E r \in Requests : \/ Reject(r) \/ SignInFails(r) \/ ArriveEnroll(r)
                         \/ EnrollConflict(r) \/ Heartbeat(r)
  \/ \E r \in Requests, c \in Clients : ArriveSignIn(r, c)
  \/ \E r \in Requests, s \in Sessions : SignIn(r, s)
  \/ \E s \in Sessions : SignOut(s) \/ View(s)
  \/ \E r \in Requests, op \in {"saveStorage", "createEnrollmentToken"}, by \in Callers :
       ArriveAdmin(r, op, by)
  \/ \E r \in Requests, t \in Tokens : CreateEnrollmentToken(r, t) \/ EnrollRead(r, t)
  \/ \E r \in Requests, d \in Devices : EnrollCommit(r, d) \/ ArriveHeartbeat(r, d)
  \/ \E r \in Requests, b \in Backends : SaveStorage(r, b)
  \/ \E r \in Requests, by \in Callers : TestStorage(r, by)
  \/ \E r \in Requests, ok \in BOOLEAN : Probe(r, ok)
  \/ \E by \in Callers : DeleteStorage(by)

Spec == Init /\ [][Next]_vars

-----------------------------------------------------------------------------
(* Properties. *)

\* Enrollment keeps its promise: issued tokens, the devices they made, and the
\* devices there are behave as the abstract specification says, whatever
\* requests for one token overlap, fail or die.
Promise == INSTANCE Enrollment WITH
  issued   <- {t \in Tokens : tokens[t] # None},
  owner    <- [t \in Tokens |-> IF tokens[t] = None THEN None ELSE tokens[t].consumed],
  enrolled <- {d \in Devices : devices[d] # None}

EnrollmentPromise == Promise!Spec

\* No device was enrolled after its token had expired, by the times in the
\* database, and every device has a token it was enrolled with.
EnrolledInTime ==
  \A d \in Devices : devices[d] # None =>
    \E t \in Tokens : /\ tokens[t] # None /\ tokens[t].consumed = d
                      /\ devices[d].enrolled <= tokens[t].expires

\* A session acts for its operator only until it is revoked or expires: no use
\* of it is recorded later, and a request still under way arrived before.
NoLateUse ==
  \A s \in Sessions : sessions[s] # None =>
    LET late(n) == n >= sessions[s].expires
                     \/ (sessions[s].revoked # None /\ n > sessions[s].revoked)
    IN /\ ~late(sessions[s].seen)
       /\ \A r \in Requests : req[r] # None /\ req[r].by = s => ~late(req[r].at)

\* All the sign-ins of a client that fail from one opening of its window to the
\* next are bounded, those that the window forgot included: Limit, and all the
\* other requests twice, those that pass the throttle together and those left
\* from the window before.  A window is opened when the one before is over, was
\* dropped by a sign-in that succeeded, or was lost with the process.  Wrong
\* tokens in the header of other requests are not sign-ins (see requireAdmin).
ThrottleBound ==
  \A c \in Clients : failed[c] <= Limit + 2 * (Cardinality(Requests) - 1)

\* A backend is shown as verified only if it, and not the one it replaced,
\* answered a probe, unless it was saved while a probe was under way.
VerifiedWasProbed ==
  backend # None /\ backend.verified => backend.conf \in probed \/ overtaken
=============================================================================
