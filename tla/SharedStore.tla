---------------------------- MODULE SharedStore ----------------------------
(***************************************************************************)
(* What the WebDAV store promises a fleet that synchronises through it:    *)
(* objects are immutable and stay, each device alone replaces its          *)
(* manifest, and a manifest only ever lists content that is already there, *)
(* so that whatever a device reads from a peer it can also fetch.          *)
(***************************************************************************)
CONSTANTS Devices, Paths, None

VARIABLES
  objects,    \* the contents that can be fetched
  manifests   \* manifests[d][p]: the version of p that d advertises, or None

Init ==
  /\ objects = {}
  /\ manifests = [d \in Devices |-> [p \in Paths |-> None]]

Listed(m) == {m[p].data : p \in {q \in Paths : m[q] # None}}

\* Some device stores one more object.
Upload ==
  /\ objects \subseteq objects'
  /\ UNCHANGED manifests

\* Device d announces what it holds, all of it stored before.
Announce(d) ==
  /\ UNCHANGED objects
  /\ \A e \in Devices \ {d} : manifests'[e] = manifests[e]
  /\ DOMAIN manifests' = Devices
  /\ Listed(manifests'[d]) \subseteq objects

Next == Upload \/ \E d \in Devices : Announce(d)

Spec == Init /\ [][Next]_<<objects, manifests>>

=============================================================================
