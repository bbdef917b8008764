---------------------------- MODULE SnapshotDiff ----------------------------
(***************************************************************************)
(* The comparison of two snapshots of one repository.                      *)
(* Source: src/crates/query/src/diff.rs.                                   *)
(*                                                                         *)
(* Definitions correspond by a structural key (path, qualified name, kind),*)
(* and only where it is unique on both sides.  What is left is removed and *)
(* added.  Changes are listed group by group until a budget is used up;    *)
(* then the direct callers of what is new or changed are listed.  "version"*)
(* stands for the six fields the code compares.                            *)
(***************************************************************************)
EXTENDS Naturals, FiniteSets

CONSTANTS Keys,         \* structural keys, numbers as they are ordered
          Versions,     \* contents of a definition under one key
          Callers,      \* definitions of the new snapshot that may call others
          MaxSide,      \* definitions of a snapshot (10 000)
          MaxChanges,   \* changes of an answer (1000)
          MaxRows,      \* call sites read for one definition (201)
          MaxCallers    \* callers of an answer (200)

DiffAssumption ==
  /\ Keys \subseteq Nat /\ Callers \subseteq Nat
  /\ {MaxSide, MaxChanges, MaxCallers} \subseteq Nat /\ MaxRows \in Nat \ {0}

Definitions == [key : Keys, version : Versions]

VARIABLES old, new,    \* the definitions of the two snapshots
          calls,       \* call sites of the new snapshot: from a caller to a definition
          groups,      \* keys that are still to be compared
          changes,     \* the changes found
          impact,      \* callers of changed definitions
          truncated,
          state        \* "groups", "impact", "done"

vars == <<old, new, calls, groups, changes, impact, truncated, state>>

Of(side, key) == {d \in side : d.key = key}

TypeOK ==
  /\ old \subseteq Definitions /\ new \subseteq Definitions
  /\ \A c \in changes : c.kind \in {"added", "removed", "modified"}
  /\ Cardinality(changes) <= MaxChanges /\ Cardinality(impact) <= MaxCallers
  /\ impact \subseteq Callers
  /\ truncated \in BOOLEAN /\ state \in {"groups", "impact", "done"}

Sides == {s \in SUBSET Definitions : IsFiniteSet(s) /\ Cardinality(s) <= MaxSide}

\* Call sites are told apart by number: several may come from one caller.
Init ==
  /\ old \in Sides /\ new \in Sides
  /\ \E n \in {0, MaxRows + 1} : \E f \in [1..n -> [caller : Callers, callee : new]] :
       calls = {[site |-> i, caller |-> f[i].caller, callee |-> f[i].callee] : i \in 1..n}
  /\ groups = {d.key : d \in old \cup new}
  /\ changes = {} /\ impact = {}
  /\ truncated = FALSE /\ state = "groups"

-----------------------------------------------------------------------------
Change(kind, before, after) == [kind |-> kind, before |-> before, after |-> after]
RemovedAndAdded(key) ==
  {Change("removed", {d}, {}) : d \in Of(old, key)} \cup {Change("added", {}, {d}) : d \in Of(new, key)}

\* Faulty: definitions of an ambiguous key are paired in order.
ChangesPaired(key) ==
  IF Of(old, key) = Of(new, key) THEN {}
  ELSE IF Of(old, key) # {} /\ Of(new, key) # {}
       THEN {Change("modified", {CHOOSE d \in Of(old, key) : TRUE},
                                {CHOOSE d \in Of(new, key) : TRUE})}
       ELSE RemovedAndAdded(key)

\* A unique pair is modified or the same; anything else is removed and added,
\* also what is the same on both sides of an ambiguous key.
ChangesOf(key) ==
  IF Cardinality(Of(old, key)) = 1 /\ Cardinality(Of(new, key)) = 1
  THEN IF Of(old, key) = Of(new, key) THEN {}
       ELSE {Change("modified", Of(old, key), Of(new, key))}
  ELSE RemovedAndAdded(key)

\* The changes of the next group, what was removed first, as far as the budgets
\* go: any of them may be the first that the response has no bytes for.
Compare ==
  /\ state = "groups" /\ groups # {}
  /\ LET key == CHOOSE k \in groups : \A l \in groups : k <= l
         found == ChangesOf(key)
     IN \E listed \in SUBSET found :
          /\ \A c \in listed, d \in found : c.kind = "added" /\ d.kind = "removed" => d \in listed
          /\ Cardinality(changes) + Cardinality(listed) <= MaxChanges
          /\ changes' = changes \cup listed
          /\ truncated' = (listed # found)
          /\ groups' = IF listed = found THEN groups \ {key} ELSE {}
  /\ UNCHANGED <<old, new, calls, impact, state>>

\* The control stops the comparison in front of a group.
StopComparing ==
  /\ state = "groups" /\ groups # {}
  /\ truncated' = TRUE /\ groups' = {}
  /\ UNCHANGED <<old, new, calls, changes, impact, state>>

Compared ==
  /\ state = "groups" /\ groups = {}
  /\ state' = "impact"
  /\ UNCHANGED <<old, new, calls, groups, changes, impact, truncated>>

\* The first call sites of a definition, by caller and number.
Ahead(a, b) == a.caller < b.caller \/ (a.caller = b.caller /\ a.site < b.site)
Rows(d) == {c \in calls : c.callee = d}
Incoming(d) == {r \in Rows(d) : Cardinality({x \in Rows(d) : Ahead(x, r)}) < MaxRows}

\* As many rows as were asked for: there may be more.
Cuts(rows) == Cardinality(rows) = MaxRows

ChangedAfter == UNION {c.after : c \in changes}

\* The callers of every change, until the budget of callers or of bytes ends or
\* the control stops the listing; one stopped at the end is marked all the same.
ListImpact ==
  /\ state = "impact"
  /\ LET all == UNION {{r.caller : r \in Incoming(d)} : d \in ChangedAfter}
     IN \E listed \in SUBSET all, late \in BOOLEAN :
          /\ Cardinality(listed) <= MaxCallers
          /\ impact' = listed
          /\ truncated' = (\/ truncated \/ late \/ listed # all
                           \/ \E d \in ChangedAfter : Cuts(Incoming(d)))
  /\ state' = "done"
  /\ UNCHANGED <<old, new, calls, groups, changes>>

Next == Compare \/ StopComparing \/ Compared \/ ListImpact

Spec == Init /\ [][Next]_vars

-----------------------------------------------------------------------------
(* Properties. *)

Removed == UNION {c.before : c \in changes}

\* Whoever applies the changes of an untruncated answer to the old snapshot has
\* the new one: moves, renames and duplicated keys leave nothing out.
ChangesReconstruct ==
  state = "done" /\ ~truncated => (old \ Removed) \cup ChangedAfter = new

\* A change is only called a modification where no other definition of either
\* side could be meant.
OnlyUniqueIsModified ==
  \A c \in changes : c.kind = "modified" =>
    \A d \in c.before \cup c.after :
      Cardinality(Of(old, d.key)) = 1 /\ Cardinality(Of(new, d.key)) = 1

\* An untruncated answer names every direct caller of what changed, however many
\* call sites of one caller come first.
ImpactComplete ==
  state = "done" /\ ~truncated =>
    impact = {c.caller : c \in {x \in calls : x.callee \in ChangedAfter}}

-----------------------------------------------------------------------------
(* The inductive invariant. *)

Sites == [site : Nat, caller : Callers, callee : new]

\* Changes are those of the groups that were compared, and all of them unless the
\* answer says otherwise.
ChangesAreOfGroups ==
  /\ groups \subseteq {d.key : d \in old \cup new} /\ (state # "groups" \/ truncated => groups = {})
  /\ changes \subseteq UNION {ChangesOf(k) : k \in {d.key : d \in old \cup new}}
  /\ ~truncated => \A k \in {d.key : d \in old \cup new} \ groups : ChangesOf(k) \subseteq changes

DiffInvariant ==
  /\ old \in Sides /\ new \in Sides /\ IsFiniteSet(changes) /\ IsFiniteSet(calls)
  /\ calls \subseteq Sites /\ \A c, d \in calls : c.site = d.site => c = d
  /\ ChangesAreOfGroups

\* All that is said of a comparison.
DiffIsExact ==
  TypeOK /\ DiffInvariant /\ ChangesReconstruct /\ OnlyUniqueIsModified /\ ImpactComplete
=============================================================================
