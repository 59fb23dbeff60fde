---------------------------- MODULE Enrollment ----------------------------
(***************************************************************************)
(* What enrollment promises: an operator issues single-use tokens, and a   *)
(* token makes at most one device, which is its own.                       *)
(***************************************************************************)
CONSTANTS Tokens, Devices, None

VARIABLES
  issued,   \* tokens that were handed out
  owner,    \* owner[t]: the device token t made, or None
  enrolled  \* the devices

vars == <<issued, owner, enrolled>>

Init == issued = {} /\ owner = [t \in Tokens |-> None] /\ enrolled = {}

Issue(t) ==
  /\ t \notin issued
  /\ issued' = issued \cup {t}
  /\ UNCHANGED <<owner, enrolled>>

Enroll(t, d) ==
  /\ t \in issued /\ owner[t] = None /\ d \notin enrolled
  /\ owner' = [owner EXCEPT ![t] = d]
  /\ enrolled' = enrolled \cup {d}
  /\ UNCHANGED issued

Next == \E t \in Tokens : Issue(t) \/ \E d \in Devices : Enroll(t, d)

Spec == Init /\ [][Next]_vars
=============================================================================
