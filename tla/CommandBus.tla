----------------------------- MODULE CommandBus -----------------------------
(***************************************************************************)
(* Commands from the controller to its devices: the rows of the commands   *)
(* table (createCommand, claimCommands, acknowledgeCommand of              *)
(* apps/web/src/lib/store.ts) and the loop of the agent processes that     *)
(* poll them (run_once of agent/src/relaydot/controller.py), over HTTP     *)
(* requests that may be lost, handled late, or lose their answer.          *)
(*                                                                         *)
(* A store method is one SQLite transaction on one connection, so a        *)
(* request is handled in one step.  A device may run two processes: its    *)
(* service and `relaydot sync now`.                                        *)
(***************************************************************************)
EXTENDS Integers, FiniteSets, Sequences

CONSTANTS
  Ids,          \* command ids (random UUIDs)
  Devices,      \* enrolled devices
  Procs,        \* the agent processes of one device
  Keys,         \* idempotency keys of the administrator's requests
  Limit,        \* how many commands a claim asks for (10 in the code)
  MaxClock,     \* bound: seconds, the unit of created_at
  MaxFailures,  \* bound: timeouts and crashes
  None          \* absent

ASSUME ConstantsOK ==
  Limit \in Nat \ {0} /\ MaxClock \in Nat /\ MaxFailures \in Nat

Agents   == Devices \X Procs
Outcomes == {"succeeded", "failed"}

VARIABLES
  clock,     \* the controller's clock, in seconds
  rows,      \* rows[i]: the row of command i, or None
  audit,     \* audit[i]: how many audit events tell that i was created, ended
  agent,     \* agent[a]: what process a of a device is doing
  late,      \* requests whose sender has given up on the answer
  done,      \* done[i]: the executions of command i, by whom and how each ended
  failures   \* timeouts and crashes so far

vars == <<clock, rows, audit, agent, late, done, failures>>

Row == [device : Devices, key : Keys, created : Nat,
        status : {"pending", "claimed"} \cup Outcomes]

AuditCount == [created : Nat, ended : Nat]
Execution  == [by : Agents, status : Outcomes]

AckRequest   == [id : Ids, device : Devices, status : Outcomes]
ClaimRequest == [claims : Devices]

\* batch: claimed and not yet executed; executed: the outcome not yet
\* acknowledged, with its command.
Agent == [pc       : {"idle", "claiming", "working", "acking"},
          batch    : SUBSET Ids,
          executed : {None} \cup AckRequest]

ASSUME NoneIsAbsent == None \notin Row /\ None \notin AckRequest

Resting == [pc |-> "idle", batch |-> {}, executed |-> None]

TypeOK ==
  /\ clock \in Nat /\ failures \in Nat
  /\ rows \in [Ids -> {None} \cup Row]
  /\ audit \in [Ids -> AuditCount]
  /\ agent \in [Agents -> Agent]
  /\ late \subseteq AckRequest \cup ClaimRequest
  /\ done \in [Ids -> Seq(Execution)]

Init ==
  /\ clock = 0 /\ failures = 0
  /\ rows = [i \in Ids |-> None]
  /\ audit = [i \in Ids |-> [created |-> 0, ended |-> 0]]
  /\ agent = [a \in Agents |-> Resting]
  /\ late = {}
  /\ done = [i \in Ids |-> <<>>]

-----------------------------------------------------------------------------
(* The controller. *)

Tick ==
  /\ clock < MaxClock
  /\ clock' = clock + 1
  /\ UNCHANGED <<rows, audit, agent, late, done, failures>>

Created == {i \in Ids : rows[i] # None}

Terminal(i) == rows[i].status \in Outcomes

\* The row an earlier request with this key created.
Existing(d, k) == {i \in Created : rows[i].device = d /\ rows[i].key = k}

\* createCommand.  A request with a known key, a retry or a duplicate, changes
\* nothing.  (The job inserted in the same transaction only makes the worker
\* add one more audit event.)
CreateCommand(d, k, i) ==
  /\ Existing(d, k) = {} /\ i \notin Created
  /\ rows' = [rows EXCEPT ![i] =
       [device |-> d, key |-> k, created |-> clock, status |-> "pending"]]
  /\ audit' = [audit EXCEPT ![i].created = @ + 1]
  /\ UNCHANGED <<clock, agent, late, done, failures>>

Pending(d) == {i \in Created : rows[i].device = d /\ rows[i].status = "pending"}

\* Mutants: claimed commands that are not acknowledged are handed out again;
\* so are those that have ended.
Unanswered(d) == {i \in Created : rows[i].device = d /\ ~Terminal(i)}
AnyStatus(d) == {i \in Created : rows[i].device = d}

\* The commands a claim may hand out.
Claimable(d) == Pending(d)

\* Mutant: no ORDER BY.
AnyOrder(d, S) == TRUE

\* ORDER BY created_at, id: ids are random, so within a second any order.
OldestFirst(d, S) ==
  \A i \in S, j \in Claimable(d) \ S : rows[i].created <= rows[j].created

\* claimCommands of device d hands out S.
ClaimCommands(d, S) ==
  /\ S \subseteq Claimable(d)
  /\ Cardinality(S) <= Limit
  /\ S = Claimable(d) \/ Cardinality(S) = Limit
  /\ OldestFirst(d, S)
  /\ rows' = [i \in Ids |-> IF i \in S THEN [rows[i] EXCEPT !.status = "claimed"]
                                       ELSE rows[i]]

\* Mutant: a row that has ended is not told apart.
OpenAgain(r) == rows[r.id] # None /\ rows[r.id].device = r.device

\* The row is this device's and has no outcome yet.
Open(r) ==
  rows[r.id] # None /\ rows[r.id].device = r.device /\ ~Terminal(r.id)

\* acknowledgeCommand of request r.
AcknowledgeCommand(r) ==
  IF Open(r)
    THEN /\ rows' = [rows EXCEPT ![r.id].status = r.status]
         /\ audit' = [audit EXCEPT ![r.id].ended = @ + 1]
    ELSE UNCHANGED <<rows, audit>>

-----------------------------------------------------------------------------
(* run_once of agent process a = <<device, process>>. *)

MayFail == failures < MaxFailures /\ failures' = failures + 1

\* Heartbeat, then POST commands/claim.
Poll(a) ==
  /\ agent[a].pc = "idle"
  /\ agent' = [agent EXCEPT ![a].pc = "claiming"]
  /\ UNCHANGED <<clock, rows, audit, late, done, failures>>

\* Mutants: an empty answer is waited on; one command of an answer is enough.
Wait(S) == [Resting EXCEPT !.pc = "working", !.batch = S]
OneOf(S) ==
  IF S = {} THEN Resting
  ELSE [Resting EXCEPT !.pc = "working", !.batch = {CHOOSE i \in S : TRUE}]

\* Where a process goes with the commands it still has.
Continue(S) == IF S = {} THEN Resting ELSE [Resting EXCEPT !.pc = "working", !.batch = S]

\* The claim is answered.
Claim(a) ==
  /\ agent[a].pc = "claiming"
  /\ \E S \in SUBSET Claimable(a[1]) :
       /\ ClaimCommands(a[1], S)
       /\ agent' = [agent EXCEPT ![a] = Continue(S)]
  /\ UNCHANGED <<clock, audit, late, done, failures>>

\* Mutants: a request without its device; an exception taken for a result.
ReportUnsigned(a, i, outcome) == [id |-> i, status |-> outcome]
ReportSuccess(a, i, outcome) == [id |-> i, device |-> a[1], status |-> "succeeded"]

\* The request that acknowledges command i.
Report(a, i, outcome) == [id |-> i, device |-> a[1], status |-> outcome]

\* _execute: some command of the batch runs and returns or raises.
Execute(a, i, outcome) ==
  /\ agent[a].pc = "working" /\ i \in agent[a].batch
  /\ \A j \in agent[a].batch : rows[i].created <= rows[j].created
  /\ done' = [done EXCEPT ![i] = Append(@, [by |-> a, status |-> outcome])]
  /\ agent' = [agent EXCEPT ![a] =
       [pc |-> "acking", batch |-> @.batch \ {i}, executed |-> Report(a, i, outcome)]]
  /\ UNCHANGED <<clock, rows, audit, late, failures>>

\* The acknowledgement is answered.
Acknowledge(a) ==
  /\ agent[a].pc = "acking"
  /\ AcknowledgeCommand(agent[a].executed)
  /\ agent' = [agent EXCEPT ![a] = Continue(@.batch)]
  /\ UNCHANGED <<clock, late, done, failures>>

\* What a process that gives up has sent.
Sent(a) ==
  IF agent[a].pc = "claiming" THEN [claims |-> a[1]] ELSE agent[a].executed

\* No answer in time: run_once raises, the process ends and is restarted; the
\* request may still reach the controller.
TimesOut(a) ==
  /\ agent[a].pc \in {"claiming", "acking"}
  /\ MayFail
  /\ late' = late \cup {Sent(a)}
  /\ agent' = [agent EXCEPT ![a] = Resting]
  /\ UNCHANGED <<clock, rows, audit, done>>

\* The process ends while it executes a command, or between two of them.
Crash(a) ==
  /\ agent[a].pc \in {"working", "acking"}
  /\ MayFail
  /\ agent' = [agent EXCEPT ![a] = Resting]
  /\ UNCHANGED <<clock, rows, audit, late, done>>

LateClaim(r) ==
  /\ r \in late \cap ClaimRequest
  /\ \E S \in SUBSET Claimable(r.claims) : ClaimCommands(r.claims, S)
  /\ late' = late \ {r}
  /\ UNCHANGED <<clock, audit, agent, done, failures>>

\* It may be delivered again (the tests of the store repeat one); a claim is not.
LateAcknowledge(r) ==
  /\ r \in late \cap AckRequest
  /\ AcknowledgeCommand(r)
  /\ late' \in {late, late \ {r}}
  /\ UNCHANGED <<clock, agent, done, failures>>

Drop(r) ==
  /\ r \in late
  /\ late' = late \ {r}
  /\ UNCHANGED <<clock, rows, audit, agent, done, failures>>

-----------------------------------------------------------------------------
AgentStep(a) ==
  \/ Poll(a) \/ Claim(a) \/ Acknowledge(a)
  \/ \E i \in Ids, outcome \in Outcomes : Execute(a, i, outcome)

Next ==
  \/ Tick
  \/ \E d \in Devices, k \in Keys, i \in Ids : CreateCommand(d, k, i)
  \/ \E a \in Agents : AgentStep(a) \/ TimesOut(a) \/ Crash(a)
  \/ \E r \in late : LateClaim(r) \/ LateAcknowledge(r) \/ Drop(r)

Spec == Init /\ [][Next]_vars

\* run_forever keeps polling, and the service manager restarts it.
FairSpec == Spec /\ \A a \in Agents : WF_vars(AgentStep(a))

-----------------------------------------------------------------------------
(* Safety *)

\* No command is executed twice, whichever answers are lost, requests are late
\* or processes of its device compete.
ExecutedAtMostOnce == \A i \in Ids : Len(done[i]) <= 1

\* The outcome the administrator sees is the outcome of the one execution, by
\* the device the command was addressed to.
OutcomeIsTrue ==
  \A i \in Created : Terminal(i) =>
    \E n \in DOMAIN done[i] : /\ done[i][n].status = rows[i].status
                              /\ done[i][n].by[1] = rows[i].device

\* An outcome is final: no claim, and no acknowledgement that is late or
\* repeated, changes it.
OutcomeIsFinal ==
  [][\A i \in Created : Terminal(i) => rows'[i] = rows[i]]_vars

\* The audit trail tells once that a command was created and once that it
\* ended, however often its acknowledgement is delivered.
AuditedOnce ==
  \A i \in Ids : /\ audit[i].created = IF i \in Created THEN 1 ELSE 0
                 /\ audit[i].ended = IF i \in Created /\ Terminal(i) THEN 1 ELSE 0

\* No command is handed out before an older one of its device.
NoOvertaking ==
  \A i, j \in Created :
    rows[i].device = rows[j].device /\ rows[i].created < rows[j].created
      => ~(rows[i].status = "pending" /\ rows[j].status # "pending")

\* Nobody will ever acknowledge i: it was handed out and no process has it.
Lost(i) ==
  /\ rows[i] # None /\ rows[i].status = "claimed"
  /\ \A a \in Agents : /\ i \notin agent[a].batch
                       /\ agent[a].executed # None => agent[a].executed.id # i

\* A timeout or crash strands at most the commands of one claim.
LossIsBounded == Cardinality({i \in Ids : Lost(i)}) <= Limit * failures

-----------------------------------------------------------------------------
(* Liveness *)

\* Every command ends, unless a failure came between its claim and its
\* acknowledgement.
AnsweredOrLost ==
  \A i \in Ids : (rows[i] # None) ~> (rows[i] # None /\ (Terminal(i) \/ Lost(i)))

\* Every command ends, whatever fails in between.
CommandsAnswered ==
  \A i \in Ids : (rows[i] # None) ~> (rows[i] # None /\ Terminal(i))

=============================================================================
