-------------------------- MODULE FencedPublication --------------------------
(***************************************************************************)
(* What the scheduler promises about publication, without its tables,      *)
(* locks, processes or crashes.  Generations are drawn in increasing       *)
(* order; at most one generation of a profile is eligible at a time; only  *)
(* the eligible one is published, at most once, and a withdrawn or         *)
(* replaced generation never becomes eligible again.                       *)
(***************************************************************************)
EXTENDS Naturals

CONSTANT Profiles

None == 0

VARIABLES
  issued,     \* the last generation drawn
  drawn,      \* it was drawn and not installed yet
  eligible,   \* profile -> the generation that may publish, or None
  published   \* profile -> the generation last published, or None

vars == <<issued, drawn, eligible, published>>

Init ==
  /\ issued = 0
  /\ drawn = FALSE
  /\ eligible = [p \in Profiles |-> None]
  /\ published = [p \in Profiles |-> None]

Draw ==
  /\ ~drawn
  /\ issued' = issued + 1
  /\ drawn' = TRUE
  /\ UNCHANGED <<eligible, published>>

Install(p) ==
  /\ drawn
  /\ drawn' = FALSE
  /\ eligible' = [eligible EXCEPT ![p] = issued]
  /\ UNCHANGED <<issued, published>>

\* The submission that drew the generation failed or its service died.
Discard ==
  /\ drawn
  /\ drawn' = FALSE
  /\ UNCHANGED <<issued, eligible, published>>

Withdraw(p) ==
  /\ eligible' = [eligible EXCEPT ![p] = None]
  /\ UNCHANGED <<issued, drawn, published>>

Publish(p) ==
  /\ eligible[p] # None
  /\ eligible[p] # published[p]
  /\ published' = [published EXCEPT ![p] = eligible[p]]
  /\ UNCHANGED <<issued, drawn, eligible>>

Next ==
  \/ Draw \/ Discard
  \/ \E p \in Profiles : Install(p) \/ Withdraw(p) \/ Publish(p)

Spec == Init /\ [][Next]_vars
=============================================================================
