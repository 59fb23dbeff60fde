-------------------------- MODULE CommandBusProofs --------------------------
(***************************************************************************)
(* Theorems about CommandBus, for any number of commands, devices,         *)
(* processes and failures.                                                 *)
(***************************************************************************)
EXTENDS CommandBus, FiniteSetTheorems, TLAPS

(***************************************************************************)
(* Type correctness.                                                       *)
(***************************************************************************)

\* The initial state has the types.
LEMMA TypeInit == Init => TypeOK
BY DEF Init, TypeOK, Resting, Agent, AuditCount

\* Counting one more audit event keeps the type of the counts.
LEMMA OneMoreEvent ==
  ASSUME NEW n \in AuditCount
  PROVE  /\ [n EXCEPT !.created = @ + 1] \in AuditCount
         /\ [n EXCEPT !.ended = @ + 1] \in AuditCount
<1>1. n.created \in Nat /\ n.ended \in Nat
  BY DEF AuditCount
<1>2. n.created + 1 \in Nat /\ n.ended + 1 \in Nat
  BY <1>1
<1> DEFINE c == n.created + 1
           e == n.ended + 1
<1> HIDE DEF c, e
<1>3. c \in Nat => [n EXCEPT !.created = c] \in AuditCount
  BY DEF AuditCount
<1>4. e \in Nat => [n EXCEPT !.ended = e] \in AuditCount
  BY DEF AuditCount
<1> QED BY <1>2, <1>3, <1>4 DEF c, e

\* What claimCommands does to the rows.
LEMMA ClaimRows ==
  ASSUME TypeOK, NEW d \in Devices, NEW S, ClaimCommands(d, S)
  PROVE  /\ rows' \in [Ids -> {None} \cup Row]
         /\ S \subseteq Created
         /\ \A i \in S : /\ rows[i].status = "pending" /\ rows[i].device = d
                         /\ rows'[i] = [rows[i] EXCEPT !.status = "claimed"]
         /\ \A i \in Ids \ S : rows'[i] = rows[i]
<1>1. S \subseteq Created /\ \A i \in S : rows[i].status = "pending" /\ rows[i].device = d
  BY DEF ClaimCommands, Claimable, Pending
<1>2. \A i \in S : i \in Ids /\ rows[i] \in Row
  BY <1>1 DEF TypeOK, Created
<1>3. \A i \in S : [rows[i] EXCEPT !.status = "claimed"] \in Row
  BY <1>2 DEF Row
<1>4. rows' = [i \in Ids |-> IF i \in S THEN [rows[i] EXCEPT !.status = "claimed"]
                                        ELSE rows[i]]
  BY DEF ClaimCommands
<1>5. rows' \in [Ids -> {None} \cup Row]
  BY <1>3, <1>4 DEF TypeOK
<1> QED BY <1>1, <1>2, <1>4, <1>5

\* What acknowledgeCommand does.
LEMMA AckRows ==
  ASSUME TypeOK, NEW r \in AckRequest, AcknowledgeCommand(r)
  PROVE  /\ rows' \in [Ids -> {None} \cup Row]
         /\ audit' \in [Ids -> AuditCount]
         /\ \A i \in Ids : \/ rows'[i] = rows[i]
                           \/ i = r.id /\ Open(r) /\ rows'[i] = [rows[i] EXCEPT !.status = r.status]
<1>1. CASE Open(r)
  <2>1. r.id \in Ids /\ r.status \in Outcomes /\ rows[r.id] \in Row
    BY <1>1 DEF Open, TypeOK, AckRequest
  <2>2. [rows[r.id] EXCEPT !.status = r.status] \in Row
    BY <2>1 DEF Row
  <2>3. /\ rows' = [rows EXCEPT ![r.id] = [rows[r.id] EXCEPT !.status = r.status]]
        /\ audit' = [audit EXCEPT ![r.id] = [audit[r.id] EXCEPT !.ended = @ + 1]]
    BY <1>1 DEF AcknowledgeCommand
  <2>4. [audit[r.id] EXCEPT !.ended = @ + 1] \in AuditCount
    <3>1. audit[r.id] \in AuditCount
      BY <2>1 DEF TypeOK
    <3> QED BY <3>1, OneMoreEvent
  <2> QED BY <1>1, <2>1, <2>2, <2>3, <2>4 DEF TypeOK
<1>2. CASE ~Open(r)
  BY <1>2 DEF AcknowledgeCommand, TypeOK
<1> QED BY <1>1, <1>2

\* A process acknowledges what it has executed.
Reporting ==
  \A a \in Agents : agent[a].pc = "acking" => agent[a].executed \in AckRequest

\* Every step keeps the types.
LEMMA TypeStep == TypeOK /\ Reporting /\ [Next]_vars => TypeOK'
<1> SUFFICES ASSUME TypeOK, Reporting, [Next]_vars PROVE TypeOK'
  OBVIOUS
<1>1. CASE UNCHANGED vars
  BY <1>1 DEF vars, TypeOK
<1>2. CASE Tick
  BY <1>2 DEF Tick, TypeOK
<1>3. ASSUME NEW d \in Devices, NEW k \in Keys, NEW i \in Ids, CreateCommand(d, k, i)
      PROVE  TypeOK'
  <2>1. [device |-> d, key |-> k, created |-> clock, status |-> "pending"] \in Row
    BY DEF TypeOK, Row
  <2>2. [audit[i] EXCEPT !.created = @ + 1] \in AuditCount
    <3>1. audit[i] \in AuditCount
      BY DEF TypeOK
    <3> QED BY <3>1, OneMoreEvent
  <2> QED BY <1>3, <2>1, <2>2 DEF CreateCommand, TypeOK
<1>4. ASSUME NEW a \in Agents, Poll(a) PROVE TypeOK'
  <2>1. [agent[a] EXCEPT !.pc = "claiming"] \in Agent
    BY DEF TypeOK, Agent
  <2> QED BY <1>4, <2>1 DEF Poll, TypeOK
<1>5. ASSUME NEW S \in SUBSET Ids PROVE Continue(S) \in Agent
  BY DEF Continue, Resting, Agent
<1>6. ASSUME NEW a \in Agents, Claim(a) PROVE TypeOK'
  <2>1. PICK S \in SUBSET Claimable(a[1]) :
          ClaimCommands(a[1], S) /\ agent' = [agent EXCEPT ![a] = Continue(S)]
    BY <1>6 DEF Claim
  <2>2. S \subseteq Ids /\ a[1] \in Devices
    BY DEF Claimable, Pending, Created, Agents
  <2> QED BY <1>5, <1>6, <2>1, <2>2, ClaimRows DEF Claim, TypeOK
<1>7. ASSUME NEW a \in Agents, NEW i \in Ids, NEW o \in Outcomes, Execute(a, i, o)
      PROVE  TypeOK'
  <2>1. [by |-> a, status |-> o] \in Execution
    BY DEF Execution
  <2>2. done' \in [Ids -> Seq(Execution)]
    <3>1. Append(done[i], [by |-> a, status |-> o]) \in Seq(Execution)
      BY <2>1 DEF TypeOK
    <3> QED BY <1>7, <3>1 DEF Execute, TypeOK
  <2>3. Report(a, i, o) \in AckRequest
    BY DEF Report, AckRequest, Agents
  <2>4. agent[a].batch \subseteq Ids
    BY DEF TypeOK, Agent
  <2>5. [pc |-> "acking", batch |-> agent[a].batch \ {i}, executed |-> Report(a, i, o)] \in Agent
    BY <2>3, <2>4 DEF Agent
  <2> QED BY <1>7, <2>2, <2>5 DEF Execute, TypeOK
<1>8. ASSUME NEW a \in Agents, Acknowledge(a) PROVE TypeOK'
  <2>1. agent[a].executed \in AckRequest /\ agent[a].batch \in SUBSET Ids
    BY <1>8 DEF Acknowledge, Reporting, TypeOK, Agent
  <2> QED BY <1>5, <1>8, <2>1, AckRows DEF Acknowledge, TypeOK
<1>9. Resting \in Agent
  BY DEF Resting, Agent
<1>10. ASSUME NEW a \in Agents, TimesOut(a) PROVE TypeOK'
  <2>1. Sent(a) \in AckRequest \cup ClaimRequest
    <3>1. CASE agent[a].pc = "claiming"
      BY <3>1 DEF Sent, ClaimRequest, Agents
    <3>2. CASE agent[a].pc = "acking"
      BY <3>2 DEF Sent, Reporting, TypeOK, Agent
    <3> QED BY <1>10, <3>1, <3>2 DEF TimesOut
  <2> QED BY <1>9, <1>10, <2>1 DEF TimesOut, MayFail, TypeOK
<1>11. ASSUME NEW a \in Agents, Crash(a) PROVE TypeOK'
  BY <1>9, <1>11 DEF Crash, MayFail, TypeOK
<1>12. ASSUME NEW r \in late, LateClaim(r) PROVE TypeOK'
  <2>1. r.claims \in Devices
    BY <1>12 DEF LateClaim, ClaimRequest
  <2> QED BY <1>12, <2>1, ClaimRows DEF LateClaim, TypeOK
<1>13. ASSUME NEW r \in late, LateAcknowledge(r) PROVE TypeOK'
  <2>1. r \in AckRequest
    BY <1>13 DEF LateAcknowledge
  <2> QED BY <1>13, <2>1, AckRows DEF LateAcknowledge, TypeOK
<1>14. ASSUME NEW r \in late, Drop(r) PROVE TypeOK'
  BY <1>14 DEF Drop, TypeOK
<1> QED
  BY <1>1, <1>2, <1>3, <1>4, <1>6, <1>7, <1>8, <1>10, <1>11, <1>12, <1>13, <1>14
     DEF Next, AgentStep

\* Every step keeps a report to acknowledge.
LEMMA ReportingStep == TypeOK /\ Reporting /\ [Next]_vars => Reporting'
<1> SUFFICES ASSUME TypeOK, Reporting, [Next]_vars PROVE Reporting'
  OBVIOUS
<1>1. CASE agent' = agent
  BY <1>1 DEF Reporting
<1>2. ASSUME NEW a \in Agents, NEW x, agent' = [agent EXCEPT ![a] = x],
             x.pc = "acking" => x.executed \in AckRequest
      PROVE  Reporting'
  BY <1>2 DEF TypeOK, Reporting
<1>3. Resting.pc # "acking" /\ \A S : Continue(S).pc # "acking"
  BY DEF Resting, Continue
<1>4. ASSUME NEW a \in Agents, Poll(a) PROVE Reporting'
  <2>1. [agent[a] EXCEPT !.pc = "claiming"].pc = "claiming"
    BY DEF TypeOK, Agent
  <2> QED BY <1>2, <1>4, <2>1 DEF Poll
<1>5. ASSUME NEW a \in Agents, Claim(a) PROVE Reporting'
  BY <1>2, <1>3, <1>5 DEF Claim
<1>6. ASSUME NEW a \in Agents, NEW i \in Ids, NEW o \in Outcomes, Execute(a, i, o)
      PROVE  Reporting'
  <2>1. Report(a, i, o) \in AckRequest
    BY DEF Report, AckRequest, Agents
  <2> QED BY <1>2, <1>6, <2>1 DEF Execute
<1>7. ASSUME NEW a \in Agents, Acknowledge(a) \/ TimesOut(a) \/ Crash(a)
      PROVE  Reporting'
  BY <1>2, <1>3, <1>7 DEF Acknowledge, TimesOut, Crash
<1> QED
  BY <1>1, <1>4, <1>5, <1>6, <1>7
     DEF Next, AgentStep, vars, Tick, CreateCommand, LateClaim, LateAcknowledge, Drop

\* The state always has its types, whatever is lost, late or repeated
\* (relaydot/controller.py run_once against lib/store.ts claimCommands and
\* acknowledgeCommand).
THEOREM TypeCorrect == Spec => []TypeOK
<1>1. Init => TypeOK /\ Reporting
  BY TypeInit DEF Init, Reporting, Resting
<1>2. TypeOK /\ Reporting /\ [Next]_vars => (TypeOK /\ Reporting)'
  BY TypeStep, ReportingStep
<1> QED BY <1>1, <1>2, PTL DEF Spec

\* Acknowledgements sent and not yet handled.
InFlight ==
  {r \in AckRequest : r \in late \/ \E a \in Agents : agent[a].pc = "acking"
                                                      /\ agent[a].executed = r}

(***************************************************************************)
(* What a step does to the rows: nothing, to all but the rows it creates,  *)
(* hands out or ends.                                                      *)
(***************************************************************************)
Fresh(i)     == \E d \in Devices, k \in Keys : CreateCommand(d, k, i)
HandedOut(i) == rows[i] # None /\ rows[i].status = "pending"
                  /\ rows'[i] = [rows[i] EXCEPT !.status = "claimed"]
                  /\ \E d \in Devices, S \in SUBSET Ids : i \in S /\ ClaimCommands(d, S)
Ended(i)     == rows[i] # None /\ ~Terminal(i)
                  /\ \E r \in InFlight : /\ r.id = i /\ r.status \in Outcomes
                                         /\ rows'[i] = [rows[i] EXCEPT !.status = r.status]

\* A row is left alone, or it is created, handed out or ended.
LEMMA RowsChange ==
  ASSUME TypeOK, Reporting, [Next]_vars, NEW i \in Ids
  PROVE  rows'[i] = rows[i] \/ Fresh(i) \/ HandedOut(i) \/ Ended(i)
<1>1. CASE rows' = rows
  BY <1>1
<1>2. ASSUME NEW d \in Devices, NEW k \in Keys, NEW j \in Ids, CreateCommand(d, k, j)
      PROVE  rows'[i] = rows[i] \/ Fresh(i)
  BY <1>2 DEF CreateCommand, TypeOK, Fresh
<1>3. ASSUME NEW d \in Devices, NEW S, ClaimCommands(d, S)
      PROVE  rows'[i] = rows[i] \/ HandedOut(i)
  <2>1. S \in SUBSET Ids
    BY <1>3, ClaimRows DEF Created
  <2> QED BY <1>3, <2>1, ClaimRows DEF HandedOut, Created
<1>4. ASSUME NEW r \in InFlight, AcknowledgeCommand(r)
      PROVE  rows'[i] = rows[i] \/ Ended(i)
  <2>1. r \in AckRequest /\ r.status \in Outcomes
    BY DEF AckRequest, InFlight
  <2> QED BY <1>4, <2>1, AckRows DEF Ended, Open
<1>5. ASSUME NEW a \in Agents, Claim(a) PROVE rows'[i] = rows[i] \/ HandedOut(i)
  BY <1>3, <1>5 DEF Claim, Agents
<1>6. ASSUME NEW r \in late, LateClaim(r) PROVE rows'[i] = rows[i] \/ HandedOut(i)
  BY <1>3, <1>6 DEF LateClaim, ClaimRequest
<1>7. ASSUME NEW a \in Agents, Acknowledge(a) PROVE rows'[i] = rows[i] \/ Ended(i)
  BY <1>4, <1>7 DEF Acknowledge, Reporting, InFlight
<1>8. ASSUME NEW r \in late, LateAcknowledge(r) PROVE rows'[i] = rows[i] \/ Ended(i)
  BY <1>4, <1>8 DEF LateAcknowledge, InFlight
<1> QED
  BY <1>1, <1>2, <1>5, <1>6, <1>7, <1>8
     DEF Next, AgentStep, vars, Tick, Poll, Execute, TimesOut, Crash, Drop

\* No step changes the device, the key or the time of a row.
LEMMA SameRow ==
  ASSUME TypeOK, Reporting, [Next]_vars, NEW n \in Ids, rows[n] # None
  PROVE  /\ rows'[n] # None
         /\ rows'[n].device = rows[n].device /\ rows'[n].key = rows[n].key
         /\ rows'[n].created = rows[n].created
<1>1. rows[n] \in Row
  BY DEF TypeOK
<1>2. ~Fresh(n)
  BY DEF Fresh, CreateCommand, Created
<1>3. ASSUME NEW s \in {"claimed"} \cup Outcomes, rows'[n] = [rows[n] EXCEPT !.status = s]
      PROVE  /\ rows'[n] # None
             /\ rows'[n].device = rows[n].device /\ rows'[n].key = rows[n].key
             /\ rows'[n].created = rows[n].created
  <2>1. rows'[n] \in Row
    BY <1>1, <1>3 DEF Row
  <2> QED BY <1>1, <1>3, <2>1, NoneIsAbsent DEF Row
<1> QED BY <1>2, <1>3, RowsChange DEF HandedOut, Ended

\* An outcome, once recorded, never changes (acknowledgeCommand, lib/store.ts).
THEOREM OutcomeFinal == Spec => OutcomeIsFinal
<1>1. TypeOK /\ Reporting /\ [Next]_vars =>
        [\A i \in Created : Terminal(i) => rows'[i] = rows[i]]_vars
  BY RowsChange DEF Created, Terminal, Outcomes, Fresh, CreateCommand, HandedOut, Ended
<1>2. Init => TypeOK /\ Reporting
  BY TypeInit DEF Init, Reporting, Resting
<1>3. TypeOK /\ Reporting /\ [Next]_vars => (TypeOK /\ Reporting)'
  BY TypeStep, ReportingStep
<1> QED BY <1>1, <1>2, <1>3, PTL DEF Spec, OutcomeIsFinal

(***************************************************************************)
(* No command runs twice.  What a process holds has been handed out to it  *)
(* and to nobody else and has not run; what has run is on its way to the   *)
(* controller or recorded there, with the outcome it had.                  *)
(***************************************************************************)
Ran(i, d, o) == \E a \in Agents : a[1] = d /\ done[i] = <<[by |-> a, status |-> o]>>

HeldNotRun ==
  \A a \in Agents : \A i \in agent[a].batch :
    rows[i] # None /\ rows[i].status = "claimed" /\ rows[i].device = a[1] /\ done[i] = <<>>

HeldByOne ==
  \A a, b \in Agents : a # b => agent[a].batch \cap agent[b].batch = {}

RanOnce ==
  \A i \in Ids : \/ done[i] = <<>>
                 \/ /\ rows[i] # None /\ rows[i].status # "pending"
                    /\ \E o \in Outcomes : Ran(i, rows[i].device, o)

ReportsAreTrue  == \A r \in InFlight : Ran(r.id, r.device, r.status)
OutcomesAreTrue == \A i \in Created : Terminal(i) => Ran(i, rows[i].device, rows[i].status)

BusInv ==
  /\ TypeOK /\ Reporting
  /\ HeldNotRun /\ HeldByOne /\ RanOnce /\ ReportsAreTrue /\ OutcomesAreTrue

\* A command that ran once did run, once.
LEMMA OneExecution == \A e : <<e>> # <<>> /\ Len(<<e>>) = 1
OBVIOUS

\* Nothing is held, in flight or executed at first.
LEMMA BusInit == Init => BusInv
<1> SUFFICES ASSUME Init PROVE BusInv
  OBVIOUS
<1>1. \A a \in Agents : agent[a].batch = {} /\ agent[a].pc = "idle"
  BY DEF Init, Resting
<1>2. Created = {} /\ late = {} /\ \A i \in Ids : done[i] = <<>>
  BY DEF Init, Created
<1> QED
  BY <1>1, <1>2, TypeInit
     DEF BusInv, Reporting, HeldNotRun, HeldByOne, RanOnce, ReportsAreTrue, InFlight,
         OutcomesAreTrue

\* Nothing is held, and nothing is in flight, that was not before.
Fewer == /\ \A a \in Agents : agent'[a].batch \subseteq agent[a].batch
         /\ InFlight' \subseteq InFlight

\* A step of the rows alone, or one that gives up what is held.
LEMMA Shrinks ==
  ASSUME BusInv, [Next]_vars, Fewer, UNCHANGED <<rows, done>>
  PROVE  HeldNotRun' /\ HeldByOne' /\ RanOnce' /\ ReportsAreTrue' /\ OutcomesAreTrue'
<1>1. \A n, d, o : Ran(n, d, o)' <=> Ran(n, d, o)
  BY DEF Ran
<1>2. HeldNotRun' /\ HeldByOne'
  BY DEF BusInv, Fewer, HeldNotRun, HeldByOne
<1>3. RanOnce'
  BY DEF BusInv, RanOnce, Ran
<1>4. ReportsAreTrue'
  BY DEF BusInv, Fewer, ReportsAreTrue, Ran
<1>5. OutcomesAreTrue'
  BY DEF BusInv, OutcomesAreTrue, Ran, Created, Terminal
<1> QED BY <1>2, <1>3, <1>4, <1>5

\* A new command has not run.
LEMMA Creates ==
  ASSUME BusInv, NEW d \in Devices, NEW k \in Keys, NEW i \in Ids, CreateCommand(d, k, i)
  PROVE  HeldNotRun' /\ HeldByOne' /\ RanOnce' /\ ReportsAreTrue' /\ OutcomesAreTrue'
<1>1. rows[i] = None /\ \A n \in Ids \ {i} : rows'[n] = rows[n]
  BY DEF BusInv, TypeOK, CreateCommand, Created
<1>2. rows'[i].status = "pending"
  BY DEF BusInv, TypeOK, CreateCommand
<1>3. UNCHANGED <<agent, late, done>>
  BY DEF CreateCommand
<1>4. done[i] = <<>>
  BY <1>1 DEF BusInv, RanOnce
<1>5. HeldNotRun' /\ HeldByOne'
  <2>1. \A a \in Agents : i \notin agent[a].batch /\ agent[a].batch \subseteq Ids
    BY <1>1 DEF BusInv, HeldNotRun, TypeOK, Agent
  <2> QED BY <1>1, <1>3, <2>1 DEF BusInv, HeldNotRun, HeldByOne
<1>6. RanOnce'
  BY <1>1, <1>3, <1>4 DEF BusInv, RanOnce, Ran
<1>7. ReportsAreTrue'
  BY <1>3 DEF BusInv, ReportsAreTrue, InFlight, Ran
<1>8. OutcomesAreTrue'
  BY <1>1, <1>2, <1>3 DEF BusInv, OutcomesAreTrue, Ran, Created, Terminal, Outcomes
<1> QED BY <1>5, <1>6, <1>7, <1>8

\* What is handed out has not run and nobody holds it.
LEMMA HandsOut ==
  ASSUME BusInv, NEW d \in Devices, NEW S, ClaimCommands(d, S), done' = done
  PROVE  /\ RanOnce' /\ OutcomesAreTrue'
         /\ S \subseteq Ids
         /\ \A i \in S : /\ rows'[i] # None /\ rows'[i].status = "claimed"
                         /\ rows'[i].device = d /\ done[i] = <<>>
         /\ \A a \in Agents : S \cap agent[a].batch = {}
         /\ \A i \in Ids \ S : rows'[i] = rows[i]
<1> USE DEF BusInv
<1>1. /\ S \subseteq Created
      /\ \A i \in S : /\ rows[i].status = "pending" /\ rows[i].device = d
                      /\ rows'[i] = [rows[i] EXCEPT !.status = "claimed"]
      /\ \A i \in Ids \ S : rows'[i] = rows[i]
  BY ClaimRows
<1>2. \A i \in S : i \in Ids /\ rows[i] \in Row
  BY <1>1 DEF Created, TypeOK
<1>3. ASSUME NEW i \in S
      PROVE  /\ rows'[i] \in Row /\ rows'[i].status = "claimed"
             /\ rows'[i].device = d
  BY <1>1, <1>2 DEF Row
<1>4. \A i \in S : done[i] = <<>>
  BY <1>1, <1>2 DEF RanOnce
<1>5. \A a \in Agents : S \cap agent[a].batch = {}
  BY <1>1 DEF HeldNotRun
<1>6. \A n \in Ids : n \in S \/ (n \notin S /\ rows'[n] = rows[n])
  BY <1>1
<1>7. \A n, x, o : Ran(n, x, o)' <=> Ran(n, x, o)
  BY DEF Ran
<1>8. RanOnce'
  BY <1>4, <1>6, <1>7 DEF RanOnce
<1>9. OutcomesAreTrue'
  <2> SUFFICES ASSUME NEW n \in Ids, rows'[n] # None, rows'[n].status \in Outcomes
               PROVE  Ran(n, rows'[n].device, rows'[n].status)
    BY <1>7 DEF OutcomesAreTrue, Created, Terminal
  <2>1. n \notin S
    BY <1>3 DEF Outcomes
  <2> QED BY <1>6, <2>1 DEF OutcomesAreTrue, Created, Terminal
<1> QED BY <1>1, <1>2, <1>3, <1>4, <1>5, <1>8, <1>9, NoneIsAbsent

\* A claim that is answered.
LEMMA Claims ==
  ASSUME BusInv, NEW a \in Agents, Claim(a)
  PROVE  HeldNotRun' /\ HeldByOne' /\ RanOnce' /\ ReportsAreTrue' /\ OutcomesAreTrue'
<1>1. PICK S \in SUBSET Claimable(a[1]) :
        ClaimCommands(a[1], S) /\ agent' = [agent EXCEPT ![a] = Continue(S)]
  BY DEF Claim
<1>2. UNCHANGED <<late, done>> /\ a[1] \in Devices
  BY DEF Claim, Agents
<1>3. /\ RanOnce' /\ OutcomesAreTrue'
      /\ S \subseteq Ids
      /\ \A i \in S : /\ rows'[i] # None /\ rows'[i].status = "claimed"
                      /\ rows'[i].device = a[1] /\ done[i] = <<>>
      /\ \A b \in Agents : S \cap agent[b].batch = {}
      /\ \A i \in Ids \ S : rows'[i] = rows[i]
  BY <1>1, <1>2, HandsOut
<1>4. /\ agent'[a].batch = S /\ agent'[a].pc # "acking"
      /\ \A b \in Agents \ {a} : agent'[b] = agent[b]
  BY <1>1 DEF Continue, Resting, BusInv, TypeOK
<1>5. \A b \in Agents : agent[b].batch \subseteq Ids
  BY DEF BusInv, TypeOK, Agent
<1>6. HeldNotRun'
  BY <1>2, <1>3, <1>4, <1>5 DEF BusInv, HeldNotRun
<1>7. HeldByOne'
  BY <1>3, <1>4 DEF BusInv, HeldByOne
<1>8. InFlight' \subseteq InFlight
  BY <1>2, <1>4 DEF InFlight
<1>9. ReportsAreTrue'
  BY <1>2, <1>8 DEF BusInv, ReportsAreTrue, Ran
<1> QED BY <1>3, <1>6, <1>7, <1>9

\* A claim nobody waits for.
LEMMA LateClaims ==
  ASSUME BusInv, NEW r \in late, LateClaim(r)
  PROVE  HeldNotRun' /\ HeldByOne' /\ RanOnce' /\ ReportsAreTrue' /\ OutcomesAreTrue'
<1>1. PICK S \in SUBSET Claimable(r.claims) : ClaimCommands(r.claims, S)
  BY DEF LateClaim
<1>2. UNCHANGED <<agent, done>> /\ late' \subseteq late /\ r.claims \in Devices
  BY DEF LateClaim, ClaimRequest
<1>3. /\ RanOnce' /\ OutcomesAreTrue'
      /\ \A b \in Agents : S \cap agent[b].batch = {}
      /\ \A i \in Ids \ S : rows'[i] = rows[i]
  BY <1>1, <1>2, HandsOut
<1>4. \A b \in Agents : agent[b].batch \subseteq Ids
  BY DEF BusInv, TypeOK, Agent
<1>5. HeldNotRun' /\ HeldByOne'
  BY <1>2, <1>3, <1>4 DEF BusInv, HeldNotRun, HeldByOne
<1>6. InFlight' \subseteq InFlight
  BY <1>2 DEF InFlight
<1>7. ReportsAreTrue'
  BY <1>2, <1>6 DEF BusInv, ReportsAreTrue, Ran
<1> QED BY <1>3, <1>5, <1>7

\* A command runs while one process holds it, and no report of it exists.
LEMMA Executes ==
  ASSUME BusInv, NEW a \in Agents, NEW i \in Ids, NEW o \in Outcomes, Execute(a, i, o)
  PROVE  HeldNotRun' /\ HeldByOne' /\ RanOnce' /\ ReportsAreTrue' /\ OutcomesAreTrue'
<1>1. /\ rows[i] # None /\ rows[i].status = "claimed" /\ rows[i].device = a[1]
      /\ done[i] = <<>> /\ i \in agent[a].batch
  BY DEF Execute, BusInv, HeldNotRun
<1>2. UNCHANGED <<rows, late>>
  BY DEF Execute
<1>3. /\ done'[i] = <<[by |-> a, status |-> o]>>
      /\ \A n \in Ids \ {i} : done'[n] = done[n]
  BY <1>1 DEF Execute, BusInv, TypeOK
<1>4. /\ agent'[a].batch = agent[a].batch \ {i}
      /\ agent'[a].executed = Report(a, i, o)
      /\ \A b \in Agents \ {a} : agent'[b] = agent[b]
  BY DEF Execute, BusInv, TypeOK
<1>5. Ran(i, a[1], o)'
  BY <1>3 DEF Ran
<1>6. \A n \in Ids \ {i} : \A d, x : Ran(n, d, x) => Ran(n, d, x)'
  BY <1>3 DEF Ran
<1>7. \A b \in Agents : agent[b].batch \subseteq Ids
  BY DEF BusInv, TypeOK, Agent
<1>8. HeldByOne'
  BY <1>4 DEF BusInv, HeldByOne
<1>9. HeldNotRun'
  <2>1. \A b \in Agents : agent'[b].batch \subseteq agent[b].batch \ {i}
    BY <1>1, <1>4 DEF BusInv, HeldByOne
  <2> QED BY <1>2, <1>3, <1>7, <2>1 DEF BusInv, HeldNotRun
<1>10. RanOnce'
  BY <1>1, <1>2, <1>3, <1>5, <1>6 DEF BusInv, RanOnce
<1>11. ReportsAreTrue'
  <2>1. ASSUME NEW r \in InFlight' PROVE Ran(r.id, r.device, r.status)'
    <3>1. CASE r \in InFlight
      <4>1. Ran(r.id, r.device, r.status) /\ r.id \in Ids
        BY <3>1 DEF BusInv, ReportsAreTrue, InFlight, AckRequest
      <4>2. r.id # i
        BY <1>1, <4>1, OneExecution DEF Ran
      <4> QED BY <1>6, <4>1, <4>2
    <3>2. CASE r \notin InFlight
      <4>1. r = Report(a, i, o)
        BY <1>2, <1>4, <3>2 DEF InFlight
      <4> QED BY <1>5, <4>1 DEF Report
    <3> QED BY <3>1, <3>2
  <2> QED BY <2>1 DEF ReportsAreTrue
<1>12. OutcomesAreTrue'
  BY <1>1, <1>2, <1>6 DEF BusInv, OutcomesAreTrue, Created, Terminal, Outcomes
<1> QED BY <1>8, <1>9, <1>10, <1>11, <1>12

\* What is acknowledged has run, so nobody holds it.
LEMMA Acknowledges ==
  ASSUME BusInv, NEW r \in InFlight, AcknowledgeCommand(r), done' = done, Fewer
  PROVE  HeldNotRun' /\ HeldByOne' /\ RanOnce' /\ ReportsAreTrue' /\ OutcomesAreTrue'
<1>1. r \in AckRequest /\ Ran(r.id, r.device, r.status)
  BY DEF BusInv, ReportsAreTrue, InFlight
<1>2. /\ r.id \in Ids /\ r.status \in Outcomes /\ done[r.id] # <<>>
  BY <1>1, OneExecution DEF AckRequest, Ran
<1>3. \A n \in Ids : \/ rows'[n] = rows[n]
                     \/ n = r.id /\ Open(r) /\ rows'[n] = [rows[n] EXCEPT !.status = r.status]
  BY <1>1, AckRows DEF BusInv
<1>4. Open(r) => /\ rows[r.id] \in Row /\ rows[r.id].device = r.device
                 /\ [rows[r.id] EXCEPT !.status = r.status] \in Row
                 /\ [rows[r.id] EXCEPT !.status = r.status].status = r.status
                 /\ [rows[r.id] EXCEPT !.status = r.status].device = r.device
  BY <1>2 DEF Open, BusInv, TypeOK, Row
<1>5. HeldNotRun' /\ HeldByOne'
  <2>1. \A a \in Agents : r.id \notin agent[a].batch /\ agent[a].batch \subseteq Ids
    BY <1>2 DEF BusInv, HeldNotRun, TypeOK, Agent
  <2>2. \A a \in Agents : \A n \in agent'[a].batch :
          n \in Ids /\ n \in agent[a].batch /\ rows'[n] = rows[n]
    BY <1>3, <2>1 DEF Fewer
  <2>3. HeldNotRun'
    BY <2>2 DEF BusInv, HeldNotRun
  <2> QED BY <2>3 DEF BusInv, Fewer, HeldByOne
<1>6. RanOnce'
  <2>1. \A n, x, o : Ran(n, x, o)' <=> Ran(n, x, o)
    BY DEF Ran
  <2>2. ASSUME NEW n \in Ids, rows'[n] # rows[n]
        PROVE  /\ rows'[n] # None /\ rows'[n].status # "pending"
               /\ Ran(n, rows'[n].device, r.status)
    <3>1. n = r.id /\ Open(r) /\ rows'[n] = [rows[r.id] EXCEPT !.status = r.status]
      BY <1>3, <2>2
    <3> QED BY <1>1, <1>2, <1>4, <3>1, NoneIsAbsent DEF Outcomes
  <2> QED BY <1>2, <2>1, <2>2 DEF BusInv, RanOnce
<1>7. ReportsAreTrue'
  BY DEF BusInv, Fewer, ReportsAreTrue, Ran
<1>8. OutcomesAreTrue'
  BY <1>1, <1>3, <1>4, ZenonT(40) DEF BusInv, OutcomesAreTrue, Ran, Created, Terminal
<1> QED BY <1>5, <1>6, <1>7, <1>8

\* Every step keeps the invariant.
LEMMA BusStep == BusInv /\ [Next]_vars => BusInv'
<1> SUFFICES ASSUME BusInv, [Next]_vars PROVE BusInv'
  OBVIOUS
<1> DEFINE Goal == HeldNotRun' /\ HeldByOne' /\ RanOnce' /\ ReportsAreTrue' /\ OutcomesAreTrue'
<1>1. TypeOK' /\ Reporting'
  BY TypeStep, ReportingStep DEF BusInv
<1>2. CASE UNCHANGED <<agent, late, rows, done>>
  <2>1. Fewer
    BY <1>2 DEF Fewer, InFlight
  <2> QED BY <1>2, <2>1, Shrinks, <1>1 DEF BusInv
<1>3. ASSUME NEW a \in Agents, NEW x \in Agent, agent' = [agent EXCEPT ![a] = x],
             x.batch \subseteq agent[a].batch, x.pc # "acking", late' \cap AckRequest \subseteq InFlight
      PROVE  Fewer
  <2>1. \A b \in Agents : agent'[b] = IF b = a THEN x ELSE agent[b]
    BY <1>3 DEF BusInv, TypeOK
  <2> QED BY <1>3, <2>1 DEF Fewer, InFlight
<1>4. Resting \in Agent /\ Resting.batch = {} /\ Resting.pc # "acking"
  BY DEF Resting, Agent
<1>5. ASSUME NEW a \in Agents, Poll(a) PROVE Goal
  <2>1. /\ [agent[a] EXCEPT !.pc = "claiming"] \in Agent
        /\ [agent[a] EXCEPT !.pc = "claiming"].batch = agent[a].batch
        /\ [agent[a] EXCEPT !.pc = "claiming"].pc # "acking"
    BY DEF BusInv, TypeOK, Agent
  <2> QED BY <1>3, <1>5, <2>1, Shrinks DEF Poll, InFlight
<1>6. ASSUME NEW a \in Agents, TimesOut(a) PROVE Goal
  <2>1. late' \cap AckRequest \subseteq InFlight
    <3>1. CASE agent[a].pc = "claiming"
      BY <1>6, <3>1 DEF TimesOut, Sent, AckRequest, InFlight
    <3>2. CASE agent[a].pc = "acking"
      BY <1>6, <3>2 DEF TimesOut, Sent, InFlight
    <3> QED BY <1>6, <3>1, <3>2 DEF TimesOut
  <2> QED BY <1>3, <1>4, <1>6, <2>1, Shrinks DEF TimesOut
<1>7. ASSUME NEW a \in Agents, Crash(a) PROVE Goal
  BY <1>3, <1>4, <1>7, Shrinks DEF Crash, InFlight
<1>8. ASSUME NEW r \in late, Drop(r) PROVE Goal
  <2>1. Fewer
    BY <1>8 DEF Drop, Fewer, InFlight
  <2> QED BY <1>8, <2>1, Shrinks DEF Drop
<1>9. ASSUME NEW a \in Agents, Acknowledge(a) PROVE Goal
  <2>1. agent[a].executed \in InFlight /\ agent[a].batch \in SUBSET Ids
    BY <1>9 DEF Acknowledge, InFlight, BusInv, Reporting, TypeOK, Agent
  <2>2. /\ Continue(agent[a].batch) \in Agent
        /\ Continue(agent[a].batch).batch = agent[a].batch
        /\ Continue(agent[a].batch).pc # "acking"
    BY <2>1 DEF Continue, Resting, Agent
  <2>3. Fewer
    BY <1>3, <1>9, <2>2 DEF Acknowledge, InFlight
  <2> QED BY <1>9, <2>1, <2>3, Acknowledges DEF Acknowledge
<1>10. ASSUME NEW r \in late, LateAcknowledge(r) PROVE Goal
  <2>1. Fewer /\ r \in InFlight
    BY <1>10 DEF LateAcknowledge, Fewer, InFlight
  <2> QED BY <1>10, <2>1, Acknowledges DEF LateAcknowledge
<1>11. Goal
  BY <1>2, <1>5, <1>6, <1>7, <1>8, <1>9, <1>10,
     Creates, Claims, LateClaims, Executes
     DEF Next, AgentStep, vars, Tick, BusInv
<1> QED BY <1>1, <1>11 DEF BusInv

\* The inductive invariant behind the theorems that follow
\* (claimCommands and acknowledgeCommand of lib/store.ts, run_once of
\* relaydot/controller.py).
THEOREM BusSound == Spec => []BusInv
BY BusInit, BusStep, PTL DEF Spec

\* A device executes no command twice, whichever of its processes claimed it
\* and whatever answers were lost (claimCommands moves a row out of "pending"
\* in the transaction that hands it out).
THEOREM AtMostOnce == Spec => []ExecutedAtMostOnce
<1>1. ASSUME BusInv, NEW i \in Ids PROVE Len(done[i]) <= 1
  <2>1. CASE done[i] = <<>>
    BY <2>1
  <2>2. CASE done[i] # <<>>
    <3>1. \E e : done[i] = <<e>>
      BY <1>1, <2>2 DEF BusInv, RanOnce, Ran
    <3> QED BY <3>1, OneExecution
  <2> QED BY <2>1, <2>2
<1>2. BusInv => ExecutedAtMostOnce
  BY <1>1 DEF ExecutedAtMostOnce
<1> QED BY <1>2, BusSound, PTL

\* The outcome on the dashboard is that of the execution, by the device the
\* command was addressed to (acknowledgeCommand, lib/store.ts).
THEOREM OutcomeTrue == Spec => []OutcomeIsTrue
<1>1. ASSUME BusInv, NEW i \in Created, Terminal(i)
      PROVE  \E n \in DOMAIN done[i] : /\ done[i][n].status = rows[i].status
                                       /\ done[i][n].by[1] = rows[i].device
  <2>1. PICK a \in Agents :
          a[1] = rows[i].device /\ done[i] = <<[by |-> a, status |-> rows[i].status]>>
    BY <1>1 DEF BusInv, OutcomesAreTrue, Ran
  <2>2. 1 \in DOMAIN done[i]
    BY <2>1
  <2> QED BY <2>1, <2>2
<1>2. BusInv => OutcomeIsTrue
  BY <1>1 DEF OutcomeIsTrue
<1> QED BY <1>2, BusSound, PTL

(***************************************************************************)
(* Commands of a device are handed out in the order they were created.     *)
(***************************************************************************)
NotFromFuture == \A i \in Created : rows[i].created <= clock

\* No row is newer than the clock.
LEMMA FutureStep == BusInv /\ NotFromFuture /\ [Next]_vars => NotFromFuture'
<1> SUFFICES ASSUME BusInv, NotFromFuture, [Next]_vars, NEW i \in Ids, rows'[i] # None
             PROVE  rows'[i].created <= clock'
  BY DEF NotFromFuture, Created
<1>1. clock \in Nat /\ clock' \in Nat /\ clock <= clock'
  <2>1. clock' = clock \/ clock' = clock + 1
    BY DEF Next, AgentStep, vars, Tick, CreateCommand, Poll, Claim, Execute,
           Acknowledge, TimesOut, Crash, LateClaim, LateAcknowledge, Drop
  <2>2. clock \in Nat
    BY DEF BusInv, TypeOK
  <2> QED BY <2>1, <2>2
<1>2. CASE rows[i] # None
  <2>1. rows'[i].created = rows[i].created
    BY <1>2, SameRow DEF BusInv
  <2>2. rows[i].created \in Nat /\ rows[i].created <= clock
    BY <1>2 DEF NotFromFuture, Created, BusInv, TypeOK, Row
  <2> QED BY <1>1, <2>1, <2>2
<1>3. CASE rows[i] = None
  <2>1. PICK d \in Devices, k \in Keys : CreateCommand(d, k, i)
    BY <1>3, RowsChange DEF Fresh, HandedOut, Ended, BusInv
  <2>2. rows'[i].created = clock
    BY <2>1 DEF CreateCommand, BusInv, TypeOK
  <2> QED BY <1>1, <2>2
<1> QED BY <1>2, <1>3

\* No step hands out a command before an older one.
LEMMA OrderStep ==
  BusInv /\ NotFromFuture /\ NoOvertaking /\ [Next]_vars => NoOvertaking'
<1> SUFFICES ASSUME BusInv, NotFromFuture, NoOvertaking, [Next]_vars,
                    NEW i \in Ids, NEW j \in Ids, rows'[i] # None, rows'[j] # None,
                    rows'[i].device = rows'[j].device,
                    rows'[i].created < rows'[j].created,
                    rows'[i].status = "pending", rows'[j].status # "pending"
             PROVE  FALSE
  BY DEF NoOvertaking, Created
<1> USE DEF BusInv
<1>1. rows[j] # None
  <2>1. ASSUME Fresh(j) PROVE rows'[j].status = "pending"
    BY <2>1 DEF Fresh, CreateCommand, TypeOK
  <2> QED BY <2>1, RowsChange DEF HandedOut, Ended
<1>2. rows[j] \in Row /\ rows'[j].created = rows[j].created /\ rows'[j].device = rows[j].device
  BY <1>1, SameRow DEF TypeOK
<1>3. CASE rows[i] = None
  <2>1. PICK d \in Devices, k \in Keys : CreateCommand(d, k, i)
    BY <1>3, RowsChange DEF Fresh, HandedOut, Ended
  <2>2. rows'[i].created = clock
    BY <2>1 DEF CreateCommand, TypeOK
  <2>3. rows[j].created \in Nat /\ rows[j].created <= clock /\ clock \in Nat
    BY <1>1, <1>2 DEF NotFromFuture, Created, TypeOK, Row
  <2> QED BY <1>2, <2>2, <2>3
<1>4. CASE rows[i] # None
  <2>1. rows[i] \in Row /\ rows'[i].created = rows[i].created /\ rows'[i].device = rows[i].device
    BY <1>4, SameRow DEF TypeOK
  <2>2. rows[i].created \in Nat /\ rows[j].created \in Nat
    BY <1>2, <2>1 DEF Row
  <2>3. ~Fresh(i) /\ ~Fresh(j)
    BY <1>1, <1>4 DEF Fresh, CreateCommand, Created
  <2>4. rows[i].status = "pending" /\ rows'[i] = rows[i]
    <3>1. ASSUME NEW o \in {"claimed"} \cup Outcomes, rows'[i] = [rows[i] EXCEPT !.status = o]
          PROVE  FALSE
      BY <2>1, <3>1 DEF Row, Outcomes
    <3> QED BY <2>3, <3>1, RowsChange DEF HandedOut, Ended
  <2>5. rows[j].status = "pending"
    BY <1>1, <1>2, <1>4, <2>1, <2>4 DEF NoOvertaking, Created
  <2>6. ~Ended(j)
    <3>1. ASSUME NEW r \in InFlight, r.id = j PROVE FALSE
      BY <2>5, <3>1, OneExecution
         DEF ReportsAreTrue, Ran, RanOnce, InFlight, AckRequest
    <3> QED BY <3>1 DEF Ended
  <2>7. PICK d \in Devices, S \in SUBSET Ids : j \in S /\ ClaimCommands(d, S)
    BY <2>3, <2>5, <2>6, RowsChange DEF HandedOut
  <2>8. rows[j].device = d /\ \A n \in S : rows'[n] = [rows[n] EXCEPT !.status = "claimed"]
    <3>1. TypeOK
      OBVIOUS
    <3>2. d \in Devices /\ ClaimCommands(d, S)
      BY <2>7
    <3>3. \A n \in S : /\ rows[n].status = "pending" /\ rows[n].device = d
                      /\ rows'[n] = [rows[n] EXCEPT !.status = "claimed"]
      BY ONLY <3>1, <3>2, ClaimRows
    <3> QED BY <2>7, <3>3
  <2>9. i \notin S
    BY <2>1, <2>4, <2>8 DEF Row
  <2>10. i \in Claimable(d) \ S
    BY <1>2, <1>4, <2>1, <2>4, <2>8, <2>9 DEF Claimable, Pending, Created
  <2> QED BY <1>2, <2>1, <2>2, <2>7, <2>10 DEF ClaimCommands, OldestFirst
<1> QED BY <1>3, <1>4

\* No command of a device overtakes an older one (ORDER BY created_at of
\* claimCommands, lib/store.ts).
THEOREM NoneOvertakes == Spec => []NoOvertaking
<1>1. Init => BusInv /\ NotFromFuture /\ NoOvertaking
  BY BusInit DEF Init, NotFromFuture, NoOvertaking, Created
<1>2. BusInv /\ NotFromFuture /\ NoOvertaking /\ [Next]_vars
        => (BusInv /\ NotFromFuture /\ NoOvertaking)'
  BY BusStep, FutureStep, OrderStep
<1> QED BY <1>1, <1>2, PTL DEF Spec

(***************************************************************************)
(* The audit trail.                                                        *)
(***************************************************************************)
Audited(i) == /\ audit[i].created = IF i \in Created THEN 1 ELSE 0
              /\ audit[i].ended = IF i \in Created /\ Terminal(i) THEN 1 ELSE 0

\* Every step leaves the trail of a command as complete as it was.
LEMMA AuditStep ==
  ASSUME BusInv, [Next]_vars, NEW i \in Ids, Audited(i)
  PROVE  Audited(i)'
<1> USE DEF BusInv
<1>1. CASE audit' = audit /\ rows'[i] = rows[i]
  BY <1>1 DEF Audited, Created, Terminal
<1>2. CASE audit' = audit /\ HandedOut(i)
  <2>1. rows[i] \in Row /\ rows'[i] \in Row /\ rows'[i].status = "claimed"
    BY <1>2 DEF HandedOut, TypeOK, Row
  <2> QED BY <1>2, <2>1, NoneIsAbsent DEF Audited, HandedOut, Created, Terminal, Outcomes
<1>3. ASSUME NEW d \in Devices, NEW k \in Keys, NEW j \in Ids, CreateCommand(d, k, j)
      PROVE  Audited(i)'
  <2>1. CASE i # j
    <3>1. rows'[i] = rows[i] /\ audit'[i] = audit[i]
      BY <1>3, <2>1 DEF CreateCommand, TypeOK
    <3> QED BY <3>1 DEF Audited, Created, Terminal
  <2>2. CASE i = j
    <3>1. audit[i] \in AuditCount /\ audit' = [audit EXCEPT ![i] = [audit[i] EXCEPT !.created = @ + 1]]
      BY <1>3, <2>2 DEF CreateCommand, TypeOK
    <3>2. audit[i].created = 0 /\ audit[i].ended = 0
      BY <1>3, <2>2 DEF CreateCommand, Audited
    <3>3. [audit[i] EXCEPT !.created = @ + 1].created = 1
          /\ [audit[i] EXCEPT !.created = @ + 1].ended = 0
      BY <3>1, <3>2 DEF AuditCount
    <3>4. audit'[i].created = 1 /\ audit'[i].ended = 0
      BY <3>1, <3>3 DEF TypeOK
    <3>5. rows'[i] \in Row /\ rows'[i].status = "pending"
      BY <1>3, <2>2 DEF CreateCommand, TypeOK, Row
    <3> QED BY <3>4, <3>5, NoneIsAbsent DEF Audited, Created, Terminal, Outcomes
  <2> QED BY <2>1, <2>2
<1>4. ASSUME NEW r \in AckRequest, AcknowledgeCommand(r) PROVE Audited(i)'
  <2>1. CASE i # r.id \/ ~Open(r)
    <3>1. rows'[i] = rows[i] /\ audit'[i] = audit[i]
      BY <1>4, <2>1 DEF AcknowledgeCommand, TypeOK
    <3> QED BY <3>1 DEF Audited, Created, Terminal
  <2>2. CASE i = r.id /\ Open(r)
    <3>1. /\ audit[i] \in AuditCount
          /\ audit' = [audit EXCEPT ![i] = [audit[i] EXCEPT !.ended = @ + 1]]
          /\ rows' = [rows EXCEPT ![i] = [rows[i] EXCEPT !.status = r.status]]
      BY <1>4, <2>2 DEF AcknowledgeCommand, TypeOK
    <3>2. audit[i].created = 1 /\ audit[i].ended = 0
      BY <2>2 DEF Audited, Open, Created
    <3>3. [audit[i] EXCEPT !.ended = @ + 1].created = 1
          /\ [audit[i] EXCEPT !.ended = @ + 1].ended = 1
      BY <3>1, <3>2 DEF AuditCount
    <3>4. audit'[i].created = 1 /\ audit'[i].ended = 1
      BY <3>1, <3>3 DEF TypeOK
    <3>5. rows[i] \in Row /\ r.status \in Outcomes
      BY <2>2 DEF Open, TypeOK, AckRequest
    <3>6. [rows[i] EXCEPT !.status = r.status] \in Row
          /\ [rows[i] EXCEPT !.status = r.status].status = r.status
      BY <3>5 DEF Row
    <3>7. rows'[i] \in Row /\ rows'[i].status = r.status
      BY <3>1, <3>6 DEF TypeOK
    <3> QED BY <3>4, <3>5, <3>7, NoneIsAbsent DEF Audited, Created, Terminal
  <2> QED BY <2>1, <2>2
<1>5. ASSUME NEW d \in Devices, NEW S, ClaimCommands(d, S), audit' = audit
      PROVE  Audited(i)'
  <2>1. TypeOK
    OBVIOUS
  <2>2. \A n \in S : /\ n \in Ids /\ rows[n] # None /\ rows[n].status = "pending"
                     /\ rows'[n] = [rows[n] EXCEPT !.status = "claimed"]
    BY ONLY <2>1, <1>5, ClaimRows DEF Created
  <2>3. i \notin S => rows'[i] = rows[i]
    BY ONLY <2>1, <1>5, ClaimRows
  <2>4. S \in SUBSET Ids
    BY <2>2
  <2>5. CASE i \in S
    BY <1>2, <1>5, <2>2, <2>4, <2>5 DEF HandedOut
  <2> QED BY <1>1, <1>5, <2>3, <2>5
<1>6. ASSUME NEW a \in Agents, Claim(a) PROVE Audited(i)'
  BY <1>5, <1>6 DEF Claim, Agents
<1>7. ASSUME NEW r \in late, LateClaim(r) PROVE Audited(i)'
  BY <1>5, <1>7 DEF LateClaim, ClaimRequest
<1>8. ASSUME NEW a \in Agents, Acknowledge(a) PROVE Audited(i)'
  BY <1>4, <1>8 DEF Acknowledge, Reporting
<1>9. ASSUME NEW r \in late, LateAcknowledge(r) PROVE Audited(i)'
  BY <1>4, <1>9 DEF LateAcknowledge
<1> QED
  BY <1>1, <1>3, <1>6, <1>7, <1>8, <1>9
     DEF Next, AgentStep, vars, Tick, Poll, Execute, TimesOut, Crash, Drop

\* Each command enters the audit trail once when it is created and once when it
\* ends (createCommand and acknowledgeCommand, lib/store.ts).
THEOREM AuditComplete == Spec => []AuditedOnce
<1>1. Init => BusInv /\ AuditedOnce
  BY BusInit DEF Init, AuditedOnce, Created
<1>2. BusInv /\ AuditedOnce /\ [Next]_vars => (BusInv /\ AuditedOnce)'
  <2>1. AuditedOnce <=> \A i \in Ids : Audited(i)
    BY DEF AuditedOnce, Audited
  <2>2. AuditedOnce' <=> \A i \in Ids : Audited(i)'
    BY DEF AuditedOnce, Audited, Created, Terminal
  <2> QED BY <2>1, <2>2, AuditStep, BusStep
<1> QED BY <1>1, <1>2, PTL DEF Spec

(***************************************************************************)
(* What failures can cost.  Every command that is lost was held by a       *)
(* process that failed, or was handed out to a claim whose process had     *)
(* already given up; a failure accounts for one of the two, and neither is *)
(* more than one claim's worth.  Claims still on their way are counted as  *)
(* if they had already cost that much.                                     *)
(***************************************************************************)
LostIds    == {i \in Ids : Lost(i)}
StrayClaims == late \cap ClaimRequest

\* What process a has been handed out and not had acknowledged.
HeldBy(a) ==
  agent[a].batch \cup {i \in Ids : agent[a].executed # None /\ agent[a].executed.id = i}

\* A process holds commands only between its claim and the acknowledgement of
\* the last of them, and never more than a claim asks for.
HoldsLittle(x) ==
  /\ x.pc \in {"idle", "claiming"} => x.batch = {}
  /\ x.pc # "acking" => x.executed = None

LossInv ==
  /\ IsFiniteSet(Created) /\ IsFiniteSet(StrayClaims)
  /\ \A a \in Agents : HoldsLittle(agent[a]) /\ Cardinality(HeldBy(a)) <= Limit
  /\ Cardinality(LostIds) + Limit * Cardinality(StrayClaims) <= Limit * failures

\* A claim more, or a failure more, is Limit more.
LEMMA OneMoreLimit ==
  ASSUME NEW n \in Nat
  PROVE  Limit * n \in Nat /\ Limit * (n + 1) = Limit * n + Limit
BY ConstantsOK

\* A claim less is not more.
LEMMA LimitMonotone ==
  ASSUME NEW m \in Nat, NEW n \in Nat, m <= n
  PROVE  Limit * m <= Limit * n
BY ConstantsOK

\* Lost is: claimed, and held by nobody.
LEMMA LostMeans ==
  ASSUME NEW i \in Ids
  PROVE  Lost(i) <=> /\ rows[i] # None /\ rows[i].status = "claimed"
                     /\ \A a \in Agents : i \notin HeldBy(a)
BY DEF Lost, HeldBy

\* What a process holds has a row: it was handed out.
LEMMA HeldIsCreated ==
  ASSUME BusInv, NEW a \in Agents, HoldsLittle(agent[a])
  PROVE  HeldBy(a) \subseteq Created
<1>1. agent[a].batch \subseteq Created
  BY DEF BusInv, HeldNotRun, Created, TypeOK, Agent
<1>2. ASSUME NEW i \in Ids, agent[a].executed # None, agent[a].executed.id = i
      PROVE  i \in Created
  <2>1. agent[a].executed \in InFlight
    BY <1>2 DEF HoldsLittle, InFlight, BusInv, Reporting
  <2>2. done[i] # <<>>
    BY <1>2, <2>1, OneExecution DEF BusInv, ReportsAreTrue, Ran
  <2> QED BY <2>2 DEF BusInv, RanOnce, Created
<1> QED BY <1>1, <1>2 DEF HeldBy

\* Finitely many commands exist, so finitely many are lost or held.
LEMMA LossFinite ==
  ASSUME BusInv, LossInv
  PROVE  /\ IsFiniteSet(LostIds) /\ Cardinality(LostIds) \in Nat
         /\ Cardinality(StrayClaims) \in Nat /\ failures \in Nat
         /\ \A a \in Agents : IsFiniteSet(HeldBy(a)) /\ Cardinality(HeldBy(a)) \in Nat
<1>1. LostIds \subseteq Created
  BY DEF LostIds, Lost, Created
<1>2. \A a \in Agents : HeldBy(a) \subseteq Created
  BY HeldIsCreated DEF LossInv
<1> QED BY <1>1, <1>2, FS_Subset, FS_CardinalityType DEF LossInv, BusInv, TypeOK

\* What is owed: the commands lost, and those that stray claims may cost.
Owed == Cardinality(LostIds) + Limit * Cardinality(StrayClaims)

\* A step that loses no command and leaves no claim behind owes no more.
LEMMA OwesNoMore ==
  ASSUME BusInv, LossInv, LostIds' \subseteq LostIds, StrayClaims' \subseteq StrayClaims
  PROVE  IsFiniteSet(StrayClaims') /\ Owed' \in Nat /\ Owed' <= Owed
<1>1. /\ IsFiniteSet(StrayClaims') /\ Cardinality(StrayClaims') <= Cardinality(StrayClaims)
      /\ IsFiniteSet(LostIds') /\ Cardinality(LostIds') <= Cardinality(LostIds)
  BY LossFinite, FS_Subset DEF LossInv
<1>2. /\ Cardinality(StrayClaims') \in Nat /\ Cardinality(StrayClaims) \in Nat
      /\ Cardinality(LostIds') \in Nat /\ Cardinality(LostIds) \in Nat
  BY <1>1, LossFinite, FS_CardinalityType
<1>3. /\ Limit * Cardinality(StrayClaims') <= Limit * Cardinality(StrayClaims)
      /\ Limit * Cardinality(StrayClaims') \in Nat /\ Limit * Cardinality(StrayClaims) \in Nat
  BY <1>1, <1>2, LimitMonotone, OneMoreLimit
<1> QED BY <1>1, <1>2, <1>3 DEF Owed

\* Losing what one claim hands out costs at most Limit.
LEMMA OneBatchMore ==
  ASSUME BusInv, LossInv, NEW S, IsFiniteSet(S), Cardinality(S) <= Limit,
         LostIds' \subseteq LostIds \cup S
  PROVE  /\ IsFiniteSet(LostIds') /\ Cardinality(LostIds') \in Nat
         /\ Cardinality(LostIds') <= Cardinality(LostIds) + Limit
<1>1. /\ IsFiniteSet(LostIds \cup S)
      /\ Cardinality(LostIds \cup S)
           = Cardinality(LostIds) + Cardinality(S) - Cardinality(LostIds \cap S)
  BY LossFinite, FS_Union
<1>2. IsFiniteSet(LostIds \cap S)
  BY LossFinite, FS_Intersection
<1>3. /\ Cardinality(LostIds) \in Nat /\ Cardinality(S) \in Nat
      /\ Cardinality(LostIds \cap S) \in Nat /\ Cardinality(LostIds \cup S) \in Nat
  BY <1>1, <1>2, LossFinite, FS_CardinalityType
<1>4. IsFiniteSet(LostIds') /\ Cardinality(LostIds') <= Cardinality(LostIds \cup S)
  BY <1>1, FS_Subset
<1>5. Cardinality(LostIds') \in Nat
  BY <1>4, FS_CardinalityType
<1> QED BY <1>1, <1>3, <1>4, <1>5, ConstantsOK

\* A failure pays for the commands the process held,
LEMMA FailureLoses ==
  ASSUME BusInv, LossInv, NEW S, IsFiniteSet(S), Cardinality(S) <= Limit,
         LostIds' \subseteq LostIds \cup S, StrayClaims' \subseteq StrayClaims,
         failures' = failures + 1
  PROVE  IsFiniteSet(StrayClaims') /\ Owed' <= Limit * failures'
<1>1. /\ Cardinality(LostIds') \in Nat
      /\ Cardinality(LostIds') <= Cardinality(LostIds) + Limit
  BY OneBatchMore
<1>2. IsFiniteSet(StrayClaims') /\ Cardinality(StrayClaims') <= Cardinality(StrayClaims)
  BY FS_Subset DEF LossInv
<1>3. Cardinality(StrayClaims') \in Nat
  BY <1>2, FS_CardinalityType
<1>4. /\ Limit * Cardinality(StrayClaims') <= Limit * Cardinality(StrayClaims)
      /\ Limit * Cardinality(StrayClaims') \in Nat /\ Limit * Cardinality(StrayClaims) \in Nat
      /\ Limit * failures \in Nat /\ Limit * failures' = Limit * failures + Limit
  BY <1>2, <1>3, LossFinite, LimitMonotone, OneMoreLimit
<1> QED BY <1>1, <1>2, <1>4, LossFinite, ConstantsOK DEF LossInv, Owed

\* or for the claim it left behind,
LEMMA FailureStrays ==
  ASSUME BusInv, LossInv, NEW r, LostIds' \subseteq LostIds,
         StrayClaims' \subseteq StrayClaims \cup {r}, failures' = failures + 1
  PROVE  IsFiniteSet(StrayClaims') /\ Owed' <= Limit * failures'
<1>1. /\ IsFiniteSet(LostIds') /\ Cardinality(LostIds') <= Cardinality(LostIds)
      /\ Cardinality(LostIds') \in Nat
  BY LossFinite, FS_Subset, FS_CardinalityType
<1>2. /\ IsFiniteSet(StrayClaims \cup {r})
      /\ Cardinality(StrayClaims \cup {r}) <= Cardinality(StrayClaims) + 1
      /\ Cardinality(StrayClaims \cup {r}) \in Nat
  <2>1. /\ IsFiniteSet(StrayClaims \cup {r})
        /\ \/ Cardinality(StrayClaims \cup {r}) = Cardinality(StrayClaims)
           \/ Cardinality(StrayClaims \cup {r}) = Cardinality(StrayClaims) + 1
    BY FS_AddElement DEF LossInv
  <2>2. Cardinality(StrayClaims \cup {r}) \in Nat
    BY <2>1, FS_CardinalityType
  <2> QED BY <2>1, <2>2, LossFinite
<1>3. /\ IsFiniteSet(StrayClaims')
      /\ Cardinality(StrayClaims') <= Cardinality(StrayClaims \cup {r})
      /\ Cardinality(StrayClaims') \in Nat
  BY <1>2, FS_Subset, FS_CardinalityType
<1>4. Cardinality(StrayClaims') <= Cardinality(StrayClaims) + 1
  BY <1>2, <1>3, LossFinite
<1>5. /\ Limit * Cardinality(StrayClaims') <= Limit * (Cardinality(StrayClaims) + 1)
      /\ Limit * (Cardinality(StrayClaims) + 1) = Limit * Cardinality(StrayClaims) + Limit
      /\ Limit * Cardinality(StrayClaims') \in Nat /\ Limit * Cardinality(StrayClaims) \in Nat
      /\ Limit * failures \in Nat /\ Limit * failures' = Limit * failures + Limit
  BY <1>3, <1>4, LossFinite, LimitMonotone, OneMoreLimit
<1> QED BY <1>1, <1>3, <1>5, LossFinite, ConstantsOK DEF LossInv, Owed

\* and the claim, when it is handled, was paid for.
LEMMA StrayIsPaid ==
  ASSUME BusInv, LossInv, NEW S, IsFiniteSet(S), Cardinality(S) <= Limit,
         LostIds' \subseteq LostIds \cup S, NEW r \in StrayClaims,
         StrayClaims' = StrayClaims \ {r}
  PROVE  IsFiniteSet(StrayClaims') /\ Owed' <= Owed
<1>1. /\ Cardinality(LostIds') \in Nat
      /\ Cardinality(LostIds') <= Cardinality(LostIds) + Limit
  BY OneBatchMore
<1>2. /\ IsFiniteSet(StrayClaims') /\ Cardinality(StrayClaims') \in Nat
      /\ Cardinality(StrayClaims') = Cardinality(StrayClaims) - 1
  BY FS_RemoveElement, FS_CardinalityType DEF LossInv
<1>3. Cardinality(StrayClaims) = Cardinality(StrayClaims') + 1
  BY <1>2, LossFinite
<1>4. Limit * Cardinality(StrayClaims) = Limit * Cardinality(StrayClaims') + Limit
      /\ Limit * Cardinality(StrayClaims') \in Nat
  BY <1>2, <1>3, OneMoreLimit
<1> QED BY <1>1, <1>2, <1>4, LossFinite, ConstantsOK DEF Owed

\* The parts of LossInv about the processes.
HoldsOne(a) == HoldsLittle(agent[a]) /\ Cardinality(HeldBy(a)) <= Limit

\* A process at rest holds nothing.
LEMMA RestingHolds ==
  ASSUME NEW a \in Agents, agent[a].batch = {}, agent[a].executed = None
  PROVE  HeldBy(a) = {} /\ Cardinality(HeldBy(a)) <= Limit
BY FS_EmptySet, ConstantsOK DEF HeldBy

\* A process that holds what it held, or less, holds little.
LEMMA HoldsNoMore ==
  ASSUME BusInv, LossInv, NEW a \in Agents, HeldBy(a)' \subseteq HeldBy(a)
  PROVE  Cardinality(HeldBy(a)') <= Limit
<1>1. Cardinality(HeldBy(a)') <= Cardinality(HeldBy(a)) /\ IsFiniteSet(HeldBy(a)')
  BY LossFinite, FS_Subset
<1>2. Cardinality(HeldBy(a)') \in Nat
  BY <1>1, FS_CardinalityType
<1> QED BY <1>1, <1>2, LossFinite, ConstantsOK DEF LossInv

\* Nothing is lost while the rows stay and whoever held a command holds it.
LEMMA NothingLost ==
  ASSUME rows' = rows, \A a \in Agents : HeldBy(a) \subseteq HeldBy(a)'
  PROVE  LostIds' \subseteq LostIds
BY LostMeans DEF LostIds, Lost, HeldBy

\* A process that gives up loses what it held.
LEMMA GivesUp ==
  ASSUME TypeOK, rows' = rows, NEW a \in Agents, agent' = [agent EXCEPT ![a] = Resting]
  PROVE  /\ LostIds' \subseteq LostIds \cup HeldBy(a)
         /\ \A b \in Agents : b # a => agent'[b] = agent[b]
         /\ agent'[a] = Resting
<1>1. /\ agent'[a] = Resting /\ \A b \in Agents : b # a => agent'[b] = agent[b]
  BY DEF TypeOK
<1>2. \A i \in Ids : Lost(i)' /\ i \notin HeldBy(a) => Lost(i)
  BY <1>1 DEF Lost, HeldBy
<1> QED BY <1>1, <1>2 DEF LostIds

\* What a claim hands out is at most Limit commands.
LEMMA ClaimIsSmall ==
  ASSUME BusInv, LossInv, NEW d \in Devices, NEW S, ClaimCommands(d, S)
  PROVE  /\ IsFiniteSet(S) /\ Cardinality(S) <= Limit /\ S \subseteq Ids
         /\ Created' = Created
         /\ \A i \in Ids \ S : rows'[i] = rows[i]
<1>1. /\ S \subseteq Created /\ rows' \in [Ids -> {None} \cup Row]
      /\ \A i \in S : rows'[i] = [rows[i] EXCEPT !.status = "claimed"]
      /\ \A i \in Ids \ S : rows'[i] = rows[i]
  BY ClaimRows DEF BusInv
<1>2. \A i \in S : rows'[i] \in Row
  <2>1. \A i \in S : rows[i] \in Row
    BY <1>1 DEF BusInv, TypeOK, Created
  <2> QED BY <1>1, <2>1 DEF Row
<1>3. Created' = Created
  BY <1>1, <1>2, NoneIsAbsent DEF Created
<1>4. IsFiniteSet(S)
  BY <1>1, FS_Subset DEF LossInv
<1> QED BY <1>1, <1>3, <1>4 DEF ClaimCommands, Created

\* The invariant after a step that owes no more and leaves the processes' holdings small.
LEMMA LossKept ==
  ASSUME BusInv, LossInv, IsFiniteSet(Created'), failures' = failures,
         LostIds' \subseteq LostIds, StrayClaims' \subseteq StrayClaims,
         \A a \in Agents : HoldsOne(a)'
  PROVE  LossInv'
<1>1. IsFiniteSet(StrayClaims') /\ Owed' \in Nat /\ Owed' <= Owed
  BY OwesNoMore
<1>2. Owed \in Nat /\ Limit * failures \in Nat
  BY LossFinite, OneMoreLimit DEF Owed
<1> QED BY <1>1, <1>2 DEF LossInv, Owed, HoldsOne

\* A step of the controller alone that creates, ends or drops something.
LEMMA LossQuiet ==
  ASSUME BusInv, LossInv, UNCHANGED <<agent, failures>>, IsFiniteSet(Created'),
         LostIds' \subseteq LostIds, StrayClaims' \subseteq StrayClaims
  PROVE  LossInv'
<1>1. \A a \in Agents : HoldsOne(a)'
  BY DEF LossInv, HoldsOne, HeldBy
<1> QED BY <1>1, LossKept

\* A new command is nobody's loss.
LEMMA LossCreate ==
  ASSUME BusInv, LossInv, NEW d \in Devices, NEW k \in Keys, NEW i \in Ids, CreateCommand(d, k, i)
  PROVE  LossInv'
<1>1. /\ rows'[i].status = "pending" /\ \A n \in Ids \ {i} : rows'[n] = rows[n]
      /\ UNCHANGED <<agent, late, failures>>
  BY DEF CreateCommand, BusInv, TypeOK
<1>2. Created' \subseteq Created \cup {i}
  BY <1>1 DEF Created
<1>3. IsFiniteSet(Created')
  BY <1>2, FS_AddElement, FS_Subset DEF LossInv
<1>4. \A n \in Ids : Lost(n)' => Lost(n)
  BY <1>1 DEF Lost
<1> QED BY <1>1, <1>3, <1>4, LossQuiet DEF LostIds, StrayClaims

\* Commands handed out to a process that waits for them are not lost.
LEMMA LossClaim ==
  ASSUME BusInv, LossInv, NEW a \in Agents, Claim(a)
  PROVE  LossInv'
<1>1. PICK S \in SUBSET Claimable(a[1]) :
        ClaimCommands(a[1], S) /\ agent' = [agent EXCEPT ![a] = Continue(S)]
  BY DEF Claim
<1>2. a[1] \in Devices
  BY DEF Agents
<1>3. /\ IsFiniteSet(S) /\ Cardinality(S) <= Limit /\ S \subseteq Ids
      /\ Created' = Created
      /\ \A i \in Ids \ S : rows'[i] = rows[i]
  BY <1>1, <1>2, ClaimIsSmall
<1>4. /\ agent'[a] = Continue(S) /\ \A b \in Agents \ {a} : agent'[b] = agent[b]
  BY <1>1 DEF BusInv, TypeOK
<1>5. /\ agent'[a].batch = S /\ agent'[a].executed = None /\ HoldsLittle(agent'[a])
  BY <1>4 DEF Continue, Resting, HoldsLittle
<1>6. HeldBy(a)' = S
  BY <1>5 DEF HeldBy
<1>7. \A b \in Agents : HoldsOne(b)'
  BY <1>3, <1>4, <1>5, <1>6 DEF LossInv, HoldsOne, HeldBy
<1>8. HeldBy(a) = {}
  BY DEF Claim, LossInv, HoldsLittle, HeldBy
<1>9. \A i \in Ids : Lost(i)' => Lost(i)
  <2> SUFFICES ASSUME NEW i \in Ids, Lost(i)' PROVE Lost(i)
    OBVIOUS
  <2>1. i \notin S
    BY <1>5 DEF Lost
  <2>2. rows'[i] = rows[i]
    BY <1>3, <2>1
  <2>3. \A b \in Agents : i \notin HeldBy(b)
    BY <1>4, <1>8 DEF Lost, HeldBy
  <2> QED BY <2>2, <2>3, LostMeans DEF Lost
<1> QED BY <1>3, <1>7, <1>9, LossKept DEF Claim, LossInv, LostIds, StrayClaims

\* Neither is a command while it runs and is reported.
LEMMA LossExecute ==
  ASSUME BusInv, LossInv, NEW a \in Agents, NEW i \in Ids, NEW o \in Outcomes, Execute(a, i, o)
  PROVE  LossInv'
<1>1. /\ agent'[a] = [pc |-> "acking", batch |-> agent[a].batch \ {i},
                      executed |-> Report(a, i, o)]
      /\ \A b \in Agents \ {a} : agent'[b] = agent[b]
  BY DEF Execute, BusInv, TypeOK
<1>2. agent[a].executed = None /\ i \in agent[a].batch /\ agent[a].batch \subseteq Ids
  BY DEF Execute, LossInv, HoldsLittle, BusInv, TypeOK, Agent
<1>3. Report(a, i, o) # None /\ Report(a, i, o).id = i
  <2>1. Report(a, i, o) \in AckRequest
    BY DEF Report, AckRequest, Agents
  <2> QED BY <2>1, NoneIsAbsent DEF Report
<1>4. HeldBy(a)' = HeldBy(a)
  BY <1>1, <1>2, <1>3 DEF HeldBy
<1>5. \A b \in Agents : HeldBy(b)' = HeldBy(b)
  BY <1>1, <1>4 DEF HeldBy
<1>6. \A b \in Agents : HoldsOne(b)'
  BY <1>1, <1>5 DEF LossInv, HoldsOne, HoldsLittle
<1>7. LostIds' \subseteq LostIds
  BY <1>5, NothingLost DEF Execute
<1> QED BY <1>6, <1>7, LossKept DEF Execute, LossInv, StrayClaims, Created

\* A command that is acknowledged has ended.
LEMMA AckedHasEnded ==
  ASSUME BusInv, NEW r \in InFlight, AcknowledgeCommand(r)
  PROVE  /\ r.id \in Ids /\ rows'[r.id].status \in Outcomes
         /\ Created' = Created
         /\ \A n \in Ids \ {r.id} : rows'[n] = rows[n]
<1>1. r \in AckRequest /\ Ran(r.id, r.device, r.status)
  BY DEF BusInv, ReportsAreTrue, InFlight
<1>2. r.id \in Ids /\ r.status \in Outcomes /\ done[r.id] # <<>>
  BY <1>1, OneExecution DEF AckRequest, Ran
<1>3. /\ rows[r.id] # None /\ rows[r.id].status # "pending" /\ rows[r.id] \in Row
      /\ \E o \in Outcomes : Ran(r.id, rows[r.id].device, o)
  BY <1>2 DEF BusInv, RanOnce, TypeOK
<1>4. rows[r.id].device = r.device
  <2>1. \A x, y : <<x>> = <<y>> => x = y
    OBVIOUS
  <2>2. \A x, y, s, t : <<[by |-> x, status |-> s]>> = <<[by |-> y, status |-> t]>> => x = y
    BY <2>1
  <2> QED BY <1>1, <1>3, <2>2 DEF Ran
<1>5. \A n \in Ids \ {r.id} : rows'[n] = rows[n]
  BY <1>1, AckRows DEF BusInv
<1>6. CASE Open(r)
  <2>1. rows'[r.id] = [rows[r.id] EXCEPT !.status = r.status]
    BY <1>2, <1>6 DEF AcknowledgeCommand, BusInv, TypeOK
  <2>2. rows'[r.id] \in Row /\ rows'[r.id].status = r.status
    BY <1>2, <1>3, <2>1 DEF Row
  <2>3. Created' = Created
    BY <1>3, <1>5, <2>2, NoneIsAbsent DEF Created
  <2> QED BY <1>2, <1>5, <2>2, <2>3
<1>7. CASE ~Open(r)
  <2>1. Terminal(r.id) /\ rows' = rows
    BY <1>3, <1>4, <1>7 DEF Open, AcknowledgeCommand
  <2> QED BY <1>2, <1>5, <2>1 DEF Terminal, Created
<1> QED BY <1>6, <1>7

\* A process that is answered holds one command less, and that one has ended.
LEMMA LossAcknowledge ==
  ASSUME BusInv, LossInv, NEW a \in Agents, Acknowledge(a)
  PROVE  LossInv'
<1> DEFINE r == agent[a].executed
<1>1. r \in InFlight /\ agent[a].batch \subseteq Ids
  BY DEF Acknowledge, InFlight, BusInv, Reporting, TypeOK, Agent
<1>2. /\ r.id \in Ids /\ rows'[r.id].status \in Outcomes /\ Created' = Created
      /\ \A n \in Ids \ {r.id} : rows'[n] = rows[n]
  BY <1>1, AckedHasEnded DEF Acknowledge
<1>3. /\ agent'[a] = Continue(agent[a].batch)
      /\ \A b \in Agents \ {a} : agent'[b] = agent[b]
  BY DEF Acknowledge, BusInv, TypeOK
<1>4. agent'[a].batch = agent[a].batch /\ agent'[a].executed = None /\ HoldsLittle(agent'[a])
  BY <1>3 DEF Continue, Resting, HoldsLittle
<1>5. \A b \in Agents : HeldBy(b)' \subseteq HeldBy(b)
  BY <1>3, <1>4 DEF HeldBy
<1>6. \A b \in Agents : HoldsOne(b)'
  BY <1>3, <1>4, <1>5, HoldsNoMore DEF LossInv, HoldsOne
<1>7. \A i \in Ids : Lost(i)' => Lost(i)
  <2> SUFFICES ASSUME NEW i \in Ids, Lost(i)' PROVE Lost(i)
    OBVIOUS
  <2>1. i # r.id
    BY <1>2 DEF Lost, Outcomes
  <2>2. rows'[i] = rows[i] /\ \A b \in Agents : i \notin HeldBy(b)
    BY <1>2, <1>3, <1>4, <2>1 DEF Lost, HeldBy
  <2> QED BY <2>2, LostMeans DEF Lost
<1> QED BY <1>2, <1>6, <1>7, LossKept DEF Acknowledge, LossInv, LostIds, StrayClaims

\* A process that gets no answer: what it waited for is lost or still to come.
LEMMA LossTimesOut ==
  ASSUME BusInv, LossInv, NEW a \in Agents, TimesOut(a)
  PROVE  LossInv'
<1>1. /\ LostIds' \subseteq LostIds \cup HeldBy(a)
      /\ \A b \in Agents : b # a => agent'[b] = agent[b]
      /\ agent'[a] = Resting
  BY GivesUp DEF TimesOut, BusInv
<1>2. \A b \in Agents : HoldsOne(b)'
  <2>1. HeldBy(a)' = {} /\ HoldsLittle(agent'[a])
    BY <1>1 DEF HeldBy, Resting, HoldsLittle
  <2>2. Cardinality(HeldBy(a)') <= Limit
    BY <2>1, FS_EmptySet, ConstantsOK
  <2> QED BY <1>1, <2>1, <2>2 DEF LossInv, HoldsOne, HeldBy
<1>3. IsFiniteSet(Created') /\ failures' = failures + 1 /\ late' = late \cup {Sent(a)}
  BY DEF TimesOut, MayFail, Created, LossInv
<1>4. CASE agent[a].pc = "claiming"
  <2>1. HeldBy(a) = {}
    BY <1>4 DEF LossInv, HoldsLittle, HeldBy
  <2>2. StrayClaims' \subseteq StrayClaims \cup {Sent(a)}
    BY <1>3 DEF StrayClaims
  <2>3. IsFiniteSet(StrayClaims') /\ Owed' <= Limit * failures'
    BY <1>1, <1>3, <2>1, <2>2, FailureStrays
  <2> QED BY <1>2, <1>3, <2>3 DEF LossInv, Owed, HoldsOne
<1>5. CASE agent[a].pc = "acking"
  <2>1. Sent(a) \in AckRequest
    BY <1>5 DEF Sent, BusInv, Reporting
  <2>2. Sent(a) \notin ClaimRequest
    BY <2>1 DEF AckRequest, ClaimRequest
  <2>3. StrayClaims' \subseteq StrayClaims
    BY <1>3, <2>2 DEF StrayClaims
  <2>4. IsFiniteSet(HeldBy(a)) /\ Cardinality(HeldBy(a)) <= Limit
    BY LossFinite DEF LossInv
  <2>5. IsFiniteSet(StrayClaims') /\ Owed' <= Limit * failures'
    BY <1>1, <1>3, <2>3, <2>4, FailureLoses
  <2> QED BY <1>2, <1>3, <2>5 DEF LossInv, Owed, HoldsOne
<1> QED BY <1>4, <1>5 DEF TimesOut

\* A process that ends loses what it held.
LEMMA LossCrash ==
  ASSUME BusInv, LossInv, NEW a \in Agents, Crash(a)
  PROVE  LossInv'
<1>1. /\ LostIds' \subseteq LostIds \cup HeldBy(a)
      /\ \A b \in Agents : b # a => agent'[b] = agent[b]
      /\ agent'[a] = Resting
  BY GivesUp DEF Crash, BusInv
<1>2. \A b \in Agents : HoldsOne(b)'
  <2>1. HeldBy(a)' = {} /\ HoldsLittle(agent'[a])
    BY <1>1 DEF HeldBy, Resting, HoldsLittle
  <2>2. Cardinality(HeldBy(a)') <= Limit
    BY <2>1, FS_EmptySet, ConstantsOK
  <2> QED BY <1>1, <2>1, <2>2 DEF LossInv, HoldsOne, HeldBy
<1>3. /\ IsFiniteSet(Created') /\ failures' = failures + 1
      /\ StrayClaims' \subseteq StrayClaims
  BY DEF Crash, MayFail, Created, LossInv, StrayClaims
<1>4. IsFiniteSet(HeldBy(a)) /\ Cardinality(HeldBy(a)) <= Limit
  BY LossFinite DEF LossInv
<1>5. IsFiniteSet(StrayClaims') /\ Owed' <= Limit * failures'
  BY <1>1, <1>3, <1>4, FailureLoses
<1> QED BY <1>2, <1>3, <1>5 DEF LossInv, Owed, HoldsOne

\* A claim handled when nobody waits for it: what it hands out is lost.
LEMMA LossLateClaim ==
  ASSUME BusInv, LossInv, NEW r \in late, LateClaim(r)
  PROVE  LossInv'
<1>1. PICK S \in SUBSET Claimable(r.claims) : ClaimCommands(r.claims, S)
  BY DEF LateClaim
<1>2. /\ UNCHANGED <<agent, failures>> /\ late' = late \ {r}
      /\ r \in StrayClaims /\ r.claims \in Devices
  BY DEF LateClaim, ClaimRequest, StrayClaims
<1>3. /\ IsFiniteSet(S) /\ Cardinality(S) <= Limit
      /\ Created' = Created
      /\ \A i \in Ids \ S : rows'[i] = rows[i]
  BY <1>1, <1>2, ClaimIsSmall
<1>4. LostIds' \subseteq LostIds \cup S
  BY <1>2, <1>3 DEF LostIds, Lost
<1>5. StrayClaims' = StrayClaims \ {r}
  BY <1>2 DEF StrayClaims
<1>6. IsFiniteSet(StrayClaims') /\ Owed' <= Owed
  BY <1>2, <1>3, <1>4, <1>5, StrayIsPaid
<1>7. Owed' \in Nat /\ Owed \in Nat /\ Limit * failures \in Nat
  <2>1. Cardinality(LostIds') \in Nat
    BY <1>3, <1>4, OneBatchMore
  <2>2. Cardinality(StrayClaims') \in Nat
    BY <1>6, FS_CardinalityType
  <2> QED BY <2>1, <2>2, LossFinite, OneMoreLimit DEF Owed
<1>8. \A a \in Agents : HoldsOne(a)'
  BY <1>2 DEF LossInv, HoldsOne, HeldBy
<1> QED BY <1>2, <1>3, <1>6, <1>7, <1>8 DEF LossInv, Owed, HoldsOne

\* A late acknowledgement still ends its command.
LEMMA LossLateAcknowledge ==
  ASSUME BusInv, LossInv, NEW r \in late, LateAcknowledge(r)
  PROVE  LossInv'
<1>1. r \in InFlight /\ UNCHANGED <<agent, failures>> /\ late' \subseteq late
  BY DEF LateAcknowledge, InFlight
<1>2. /\ r.id \in Ids /\ rows'[r.id].status \in Outcomes /\ Created' = Created
      /\ \A n \in Ids \ {r.id} : rows'[n] = rows[n]
  BY <1>1, AckedHasEnded DEF LateAcknowledge
<1>3. \A i \in Ids : Lost(i)' => Lost(i)
  <2> SUFFICES ASSUME NEW i \in Ids, Lost(i)' PROVE Lost(i)
    OBVIOUS
  <2>1. i # r.id
    BY <1>2 DEF Lost, Outcomes
  <2> QED BY <1>1, <1>2, <2>1 DEF Lost
<1> QED BY <1>1, <1>2, <1>3, LossQuiet DEF LossInv, LostIds, StrayClaims

\* Every step keeps within what the failures pay for.
LEMMA LossStep == BusInv /\ LossInv /\ [Next]_vars => LossInv'
<1> SUFFICES ASSUME BusInv, LossInv, [Next]_vars PROVE LossInv'
  OBVIOUS
<1>1. ASSUME UNCHANGED <<rows, agent, failures>>, late' \subseteq late PROVE LossInv'
  <2>1. LostIds' \subseteq LostIds /\ IsFiniteSet(Created')
    BY <1>1 DEF LostIds, Lost, Created, LossInv
  <2> QED BY <1>1, <2>1, LossQuiet DEF StrayClaims
<1>2. CASE Tick \/ UNCHANGED vars \/ \E r \in late : Drop(r)
  BY <1>1, <1>2 DEF Tick, vars, Drop
<1>3. ASSUME NEW a \in Agents, Poll(a) PROVE LossInv'
  <2>1. agent'[a] = [agent[a] EXCEPT !.pc = "claiming"] /\ agent[a] \in Agent
        /\ \A b \in Agents \ {a} : agent'[b] = agent[b]
    BY <1>3 DEF Poll, BusInv, TypeOK
  <2>2. /\ agent'[a].pc = "claiming" /\ agent'[a].batch = agent[a].batch
        /\ agent'[a].executed = agent[a].executed
    BY <2>1 DEF Agent
  <2>3. \A b \in Agents : HeldBy(b)' = HeldBy(b)
    BY <2>1, <2>2 DEF HeldBy
  <2>4. \A b \in Agents : HoldsOne(b)'
    BY <1>3, <2>1, <2>2, <2>3 DEF LossInv, HoldsOne, HoldsLittle, Poll
  <2>5. LostIds' \subseteq LostIds
    BY <1>3, <2>3, NothingLost DEF Poll
  <2> QED BY <1>3, <2>4, <2>5, LossKept DEF Poll, LossInv, StrayClaims, Created
<1> QED
  BY <1>2, <1>3, LossCreate, LossClaim, LossExecute, LossAcknowledge, LossTimesOut,
     LossCrash, LossLateClaim, LossLateAcknowledge
     DEF Next, AgentStep

\* A timeout or a crash strands no more commands than one claim hands out,
\* whichever answers are lost, claims are handled late or processes of one
\* device compete (run_once of relaydot/controller.py asks for ten commands
\* at a time, and claimCommands of lib/store.ts hands out at most that many).
THEOREM LossBounded == Spec => []LossIsBounded
<1>1. Init => LossInv
  <2> SUFFICES ASSUME Init PROVE LossInv
    OBVIOUS
  <2>1. Created = {} /\ StrayClaims = {} /\ LostIds = {} /\ failures = 0
    BY DEF Init, Created, StrayClaims, LostIds, Lost
  <2>2. \A a \in Agents : agent[a] = Resting
    BY DEF Init
  <2>3. \A a \in Agents : HeldBy(a) = {} /\ HoldsLittle(agent[a])
    BY <2>2 DEF HeldBy, Resting, HoldsLittle
  <2> QED BY <2>1, <2>3, FS_EmptySet, ConstantsOK DEF LossInv
<1>2. BusInv /\ LossInv => LossIsBounded
  <2> SUFFICES ASSUME BusInv, LossInv PROVE LossIsBounded
    OBVIOUS
  <2>1. /\ Cardinality(LostIds) \in Nat /\ Limit * Cardinality(StrayClaims) \in Nat
        /\ Limit * failures \in Nat
    BY LossFinite, OneMoreLimit
  <2> QED BY <2>1 DEF LossInv, LossIsBounded, LostIds
<1>3. BusInv /\ LossInv /\ [Next]_vars => LossInv'
  BY LossStep
<1> QED BY <1>1, <1>2, <1>3, BusSound, PTL DEF Spec

=============================================================================
