--------------------------- MODULE SnapshotCatalog ---------------------------
(***************************************************************************)
(* What the store promises, without files, registrations, leases, plans    *)
(* or crashes: a catalog of complete snapshots.  A publication adds its    *)
(* snapshot and moves the head in one step, if the head is still what its  *)
(* caller saw; what is removed is neither named by a head or a pin, nor    *)
(* observed, nor in use.                                                   *)
(***************************************************************************)

CONSTANTS Snapshots, Heads, Pins, Users, None

VARIABLES
  available,   \* the snapshots that can be read completely
  heads, pins,
  observed,
  intent,      \* user -> the publication it prepares: [snapshot, head, expected]
  using        \* user -> the snapshot it has open

vars == <<available, heads, pins, observed, intent, using>>

Init ==
  /\ available = {} /\ observed = {}
  /\ heads = [h \in Heads |-> None]
  /\ pins = [n \in Pins |-> None]
  /\ intent = [u \in Users |-> None]
  /\ using = [u \in Users |-> None]

Capture(u, s, h) ==
  /\ intent[u] = None /\ using[u] = None
  /\ intent' = [intent EXCEPT ![u] = [snapshot |-> s, head |-> h, expected |-> heads[h]]]
  /\ UNCHANGED <<available, heads, pins, observed, using>>

\* An import keeps the snapshot it published in use.
Publish(u) ==
  /\ intent[u] # None
  /\ heads[intent[u].head] \in {intent[u].expected, intent[u].snapshot}
  /\ available' = available \cup {intent[u].snapshot}
  /\ heads' = [heads EXCEPT ![intent[u].head] = intent[u].snapshot]
  /\ intent' = [intent EXCEPT ![u] = None]
  /\ \E s \in {None, intent[u].snapshot} : using' = [using EXCEPT ![u] = s]
  /\ UNCHANGED <<pins, observed>>

Abandon(u) ==
  /\ intent' = [intent EXCEPT ![u] = None]
  /\ UNCHANGED <<available, heads, pins, observed, using>>

Open(u, s) ==
  /\ s \in available
  /\ using' = [using EXCEPT ![u] = s]
  /\ UNCHANGED <<available, heads, pins, observed, intent>>

Close(u) ==
  /\ using' = [using EXCEPT ![u] = None]
  /\ UNCHANGED <<available, heads, pins, observed, intent>>

Observe(s) ==
  /\ \E u \in Users : using[u] = s
  /\ observed' = observed \cup {s}
  /\ UNCHANGED <<available, heads, pins, intent, using>>

SetPin(n, s) ==
  /\ s \in available \cup {None}
  /\ pins' = [pins EXCEPT ![n] = s]
  /\ UNCHANGED <<available, heads, observed, intent, using>>

Remove(S) ==
  /\ S \subseteq available
  /\ \A h \in Heads : heads[h] \notin S
  /\ \A n \in Pins : pins[n] \notin S
  /\ \A u \in Users : using[u] \notin S
  /\ S \cap observed = {}
  /\ available' = available \ S
  /\ UNCHANGED <<heads, pins, observed, intent, using>>

Next ==
  \/ \E u \in Users :
       \/ \E s \in Snapshots, h \in Heads : Capture(u, s, h)
       \/ Publish(u) \/ Abandon(u) \/ Close(u)
       \/ \E s \in Snapshots : Open(u, s)
  \/ \E s \in Snapshots : Observe(s)
  \/ \E n \in Pins, s \in Snapshots \cup {None} : SetPin(n, s)
  \/ \E S \in SUBSET Snapshots : Remove(S)

Spec == Init /\ [][Next]_vars
=============================================================================
