----------------------------- MODULE MCScheduler -----------------------------
(* Small instances of Scheduler: two profiles; two requests for the first     *)
(* that differ in priority, one for the second.                               *)
EXTENDS Scheduler

CONSTANTS p1, p2

MCProfiles == {p1, p2}
Foreground == 0
Background == 2
MCRequests ==
  {[profile |-> p1, priority |-> Foreground],
   [profile |-> p1, priority |-> Background],
   [profile |-> p2, priority |-> Foreground]}
MCOneProfile == {r \in MCRequests : r.profile = p1}
=============================================================================
