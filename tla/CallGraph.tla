----------------------------- MODULE CallGraph -----------------------------
(***************************************************************************)
(* Paths and counts over the selected part of a call graph.                *)
(* Source: src/crates/analysis/src/graph.rs (prepare, find_path,           *)
(* analyze_graph) and lib.rs (the envelope of an answer).                  *)
(*                                                                         *)
(* A selection of definitions and calls is cut to its limits, calls that   *)
(* leave it become a frontier, and either a breadth-first search looks for *)
(* a path or the calls of every definition are counted.  The control may   *)
(* stop either at any step.  Definitions and calls are numbers, ordered as *)
(* their identities are; every call is a direct call.                      *)
(***************************************************************************)
EXTENDS Naturals, FiniteSets, Sequences

CONSTANTS Definitions,   \* positive numbers
          Calls,         \* numbers
          Selections,    \* sets of definitions a client may select
          Starts, Goals, \* definitions a client may ask about
          NodeLimits, EdgeLimits, VisitLimits, DepthLimits,
          InputCuts,     \* whether the query that selected was cut itself
          Modes          \* "path", "metrics"

Unresolved == 0

CallGraphAssumption ==
  /\ IsFiniteSet(Definitions) /\ Definitions \subseteq Nat \ {Unresolved}
  /\ IsFiniteSet(Calls) /\ Calls \subseteq Nat
  /\ Selections \subseteq SUBSET Definitions
  /\ Starts \subseteq Definitions /\ Goals \subseteq Definitions \cup {Unresolved}
  /\ NodeLimits \cup EdgeLimits \cup VisitLimits \cup DepthLimits \subseteq Nat
  /\ InputCuts \subseteq BOOLEAN /\ Modes \subseteq {"path", "metrics"}

VARIABLES source, target,     \* the ends of every call of the selection
          selection,          \* definitions selected
          request,            \* mode, start, goal (or Unresolved), limits
          nodes, edges,       \* definitions kept, and calls between them
          sites,              \* calls of definitions kept
          frontier,           \* calls that leave the selection
          partial, truncated, \* what the envelope says of the answer
          queue, visited, distance, previous,   \* the search
          counted, outgoing, incoming,          \* the counts
          outcome, path, relations,
          stopped, state

vars == <<source, target, selection, request, nodes, edges, sites, frontier, partial, truncated, queue,
          visited, distance, previous, counted, outgoing, incoming, outcome, path, relations, stopped, state>>
input == <<source, target, selection, request>>
prepared == <<nodes, edges, sites, frontier>>
search == <<queue, visited, distance, previous>>
tallies == <<counted, outgoing, incoming>>
answer == <<outcome, path, relations>>

-----------------------------------------------------------------------------
First(S, n) == {x \in S : Cardinality({y \in S : y < x}) < n}

\* Calls in the order in which the graph is built.
BuiltBefore(c, d) == target[c] > target[d] \/ (target[c] = target[d] /\ c > d)
FirstBuilt(S, n) == {x \in S : Cardinality({y \in S : BuiltBefore(y, x)}) < n}

Inner(calls, kept) == {c \in calls : target[c] \in kept}

Requests ==
  [mode : Modes, start : Starts, goal : Goals, max_nodes : NodeLimits, max_edges : EdgeLimits,
   max_visits : VisitLimits, max_depth : DepthLimits, input_truncated : InputCuts]

-----------------------------------------------------------------------------
TypeOK ==
  /\ source \in [Calls -> Definitions] /\ target \in [Calls -> Definitions \cup {Unresolved}]
  /\ selection \in Selections /\ request \in Requests
  /\ nodes \subseteq selection /\ sites \subseteq {c \in Calls : source[c] \in nodes}
  /\ edges = Inner(sites, nodes)
  /\ outcome \in {"unknown", "found", "not_found_in_selection", "reachability_complete"}
  /\ state \in {"start", "search", "back", "count", "done", "invalid"}

Init ==
  /\ source \in [Calls -> Definitions] /\ target \in [Calls -> Definitions \cup {Unresolved}]
  /\ selection \in Selections
  /\ request \in Requests
  /\ nodes = {} /\ edges = {} /\ sites = {} /\ frontier = {}
  /\ partial = FALSE /\ truncated = FALSE
  /\ queue = <<>> /\ visited = {} /\ distance = <<>> /\ previous = <<>>
  /\ counted = {} /\ outgoing = <<>> /\ incoming = <<>>
  /\ outcome = "unknown" /\ path = <<>> /\ relations = <<>>
  /\ stopped = FALSE /\ state = "start"

Stop ==
  /\ state \in {"search", "count"} /\ ~stopped
  /\ stopped' = TRUE
  /\ UNCHANGED <<input, prepared, partial, truncated, search, tallies, answer, state>>

CutByLimits == request.input_truncated \/ Cardinality(selection) > request.max_nodes
                 \/ Cardinality(Calls) > request.max_edges

Leaves(c, kept) == source[c] \notin kept \/ target[c] \notin kept

\* The selection is cut and its graph built; a stop leaves as much of either as
\* was done by then.  A search starts if its start was kept.
Prepare ==
  /\ state = "start"
  /\ \E n \in 0..Cardinality(selection), m \in 0..Cardinality(Calls) :
       LET whole == n = Cardinality(selection) /\ m = Cardinality(Calls)
           calls == FirstBuilt(First(Calls, request.max_edges), m)
       IN /\ n < Cardinality(selection) => m = 0
          /\ nodes' = First(First(selection, n), request.max_nodes)
          /\ sites' = {c \in calls : source[c] \in nodes'}
          /\ edges' = Inner(sites', nodes')
          /\ frontier' = {c \in calls : Leaves(c, nodes')}
          /\ stopped' = ~whole
          /\ truncated' = (CutByLimits \/ ~whole)
          /\ partial' = (truncated' \/ frontier' # {})
  /\ IF request.mode = "metrics"
     THEN /\ state' = "count" /\ UNCHANGED search
          /\ outgoing' = [d \in nodes' |-> 0] /\ incoming' = [d \in nodes' |-> 0]
     ELSE /\ UNCHANGED <<outgoing, incoming>>
          /\ IF request.start \in nodes'
             THEN /\ queue' = <<request.start>> /\ distance' = [d \in {request.start} |-> 0]
                  /\ state' = "search" /\ UNCHANGED <<visited, previous>>
             ELSE state' = (IF truncated' THEN "done" ELSE "invalid") /\ UNCHANGED search
  /\ UNCHANGED <<input, counted, answer>>

\* The definitions found behind one, the first call that leads to each of them, and
\* the order in which they are met.
CallsTo(n, d) == {c \in edges : source[c] = n /\ target[c] = d}
Found(n) == {target[c] : c \in {x \in edges : source[x] = n}} \ DOMAIN distance
FirstCall(n, d) == CHOOSE c \in CallsTo(n, d) : \A e \in CallsTo(n, d) : c <= e
Ascending(S) == [i \in 1..Cardinality(S) |-> CHOOSE d \in S : Cardinality({e \in S : e < d}) = i - 1]

OverBudget(n) == Cardinality(visited) >= request.max_visits \/ distance[n] > request.max_depth

\* One definition of the search: the goal, or its callees are found.
Visit ==
  /\ state = "search" /\ queue # <<>> /\ outcome = "unknown"
  /\ ~stopped /\ ~OverBudget(Head(queue))
  /\ LET n == Head(queue)
         fresh == Found(n)
     IN /\ visited' = visited \cup {n}
        /\ IF n = request.goal
           THEN outcome' = "found" /\ UNCHANGED <<queue, distance, previous>>
           ELSE /\ queue' = Tail(queue) \o Ascending(fresh)
                /\ distance' = [d \in DOMAIN distance \cup fresh |->
                                  IF d \in fresh THEN distance[n] + 1 ELSE distance[d]]
                /\ previous' = [d \in DOMAIN previous \cup fresh |->
                                  IF d \in fresh THEN FirstCall(n, d) ELSE previous[d]]
                /\ UNCHANGED outcome
  /\ UNCHANGED <<input, prepared, partial, truncated, tallies, path, relations, stopped, state>>

\* The search is stopped, or a budget is used up.
Cut ==
  /\ state = "search" /\ queue # <<>> /\ outcome = "unknown"
  /\ stopped \/ OverBudget(Head(queue))
  /\ truncated' = TRUE /\ partial' = TRUE /\ queue' = <<>>
  /\ UNCHANGED <<input, prepared, visited, distance, previous, tallies, answer, stopped, state>>

\* Faulty: a frontier is no reason not to answer.
ConclusiveInspiteOfFrontier == ~truncated /\ request.goal \in nodes \cup {Unresolved}
Conclusive == ~truncated /\ ~partial /\ request.goal \in nodes \cup {Unresolved}

\* The search is over without a path.
Conclude ==
  /\ state = "search" /\ queue = <<>> /\ outcome = "unknown"
  /\ outcome' = IF ~Conclusive THEN "unknown"
                ELSE IF request.goal = Unresolved THEN "reachability_complete"
                ELSE "not_found_in_selection"
  /\ partial' = (partial \/ request.goal \notin nodes \cup {Unresolved})
  /\ state' = "done"
  /\ UNCHANGED <<input, prepared, truncated, search, tallies, path, relations, stopped>>

\* The path is followed back from the goal, a call at a time.
TurnBack ==
  /\ state = "search" /\ outcome = "found"
  /\ path' = <<request.goal>> /\ state' = "back"
  /\ UNCHANGED <<input, prepared, partial, truncated, search, tallies, outcome, relations, stopped>>

GoBack ==
  /\ state = "back" /\ Head(path) \in DOMAIN previous
  /\ LET call == previous[Head(path)]
     IN relations' = <<call>> \o relations /\ path' = <<source[call]>> \o path
  /\ UNCHANGED <<input, prepared, partial, truncated, search, tallies, outcome, stopped, state>>

Back ==
  /\ state = "back" /\ Head(path) \notin DOMAIN previous
  /\ state' = "done"
  /\ UNCHANGED <<input, prepared, partial, truncated, search, tallies, answer, stopped>>

\* One call is counted at both its ends.
CountCall ==
  /\ state = "count" /\ ~stopped /\ counted # sites
  /\ LET c == CHOOSE x \in sites \ counted : \A y \in sites \ counted : x <= y
     IN /\ counted' = counted \cup {c}
        /\ outgoing' = [outgoing EXCEPT ![source[c]] = @ + 1]
        /\ incoming' = IF target[c] \in nodes THEN [incoming EXCEPT ![target[c]] = @ + 1] ELSE incoming
  /\ UNCHANGED <<input, prepared, partial, truncated, search, answer, stopped, state>>

Counted ==
  /\ state = "count" /\ (stopped \/ counted = sites)
  /\ truncated' = (truncated \/ stopped) /\ partial' = (partial \/ stopped)
  /\ state' = "done"
  /\ UNCHANGED <<input, prepared, search, tallies, answer, stopped>>

Next == Stop \/ Prepare \/ Visit \/ Cut \/ Conclude \/ TurnBack \/ GoBack \/ Back \/ CountCall \/ Counted

Spec == Init /\ [][Next]_vars

-----------------------------------------------------------------------------
(* The reference: what calls lead to. *)

InSelection(c) == source[c] \in selection /\ target[c] \in selection

\* The goal is a number of calls away from the start in what the limits kept.
Leads(n) ==
  \E walk \in [0..n -> nodes] :
    /\ walk[0] = request.start /\ walk[n] = request.goal
    /\ \A i \in 1..n : \E c \in edges : source[c] = walk[i - 1] /\ target[c] = walk[i]

\* What every set contains that has the start and whatever the calls of the
\* selection lead to from it.
Reachable ==
  {d \in Definitions : \A S \in SUBSET Definitions :
     request.start \in S /\ (\A c \in Calls : InSelection(c) /\ source[c] \in S => target[c] \in S) => d \in S}

-----------------------------------------------------------------------------
(* Properties. *)

\* A path that is returned is a chain of calls from the start to the goal, and
\* none is shorter in what the limits kept, which is the whole selection unless the
\* answer says otherwise.
PathIsShortest ==
  state = "done" /\ outcome = "found" =>
    /\ path[1] = request.start /\ path[Len(path)] = request.goal /\ Len(path) = Len(relations) + 1
    /\ \A i \in 1..Len(relations) :
         relations[i] \in edges /\ source[relations[i]] = path[i] /\ target[relations[i]] = path[i + 1]
    /\ \A n \in 0..Len(relations) - 1 : ~Leads(n)
    /\ ~truncated => edges = {c \in Calls : InSelection(c)}

\* A negative answer is a fact about the whole selection: no call of it leads from
\* the start to the goal, none leaves it to somewhere unknown, and nothing was cut
\* by a limit, a depth or a stop.
NegativeIsCertain ==
  state = "done" /\ outcome \in {"not_found_in_selection", "reachability_complete"} =>
    /\ request.goal \notin Reachable
    /\ visited = Reachable
    /\ \A c \in Calls : InSelection(c)
    /\ ~request.input_truncated

\* The counts of an answer that was not cut are of all calls given: each is
\* counted where it starts, and where it arrives or as one that leaves the selection.
CountsAreWhole ==
  state = "done" /\ request.mode = "metrics" /\ ~truncated =>
    /\ DOMAIN outgoing = selection /\ DOMAIN incoming = selection
    /\ \A d \in selection :
         /\ outgoing[d] = Cardinality({c \in Calls : source[c] = d})
         /\ incoming[d] = Cardinality({c \in Calls : InSelection(c) /\ target[c] = d})
    /\ frontier = {c \in Calls : ~InSelection(c)}

-----------------------------------------------------------------------------
(* The inductive invariant. *)

\* What was prepared is the whole selection unless the answer says otherwise.
PreparedIsWhole ==
  state \notin {"start", "invalid"} =>
    /\ ~truncated => /\ ~request.input_truncated
                     /\ nodes = selection /\ sites = {c \in Calls : source[c] \in selection}
                     /\ edges = {c \in Calls : InSelection(c)} /\ frontier = {c \in Calls : ~InSelection(c)}
    /\ ~partial => ~truncated /\ frontier = {}

\* Every definition found but the start has a call that leads to it from nearer.
FoundByCalls ==
  /\ request.start \in nodes \cap DOMAIN distance /\ distance \in [DOMAIN distance -> Nat]
  /\ distance[request.start] = 0
  /\ DOMAIN distance \subseteq nodes /\ DOMAIN previous = DOMAIN distance \ {request.start}
  /\ \A d \in DOMAIN previous :
       /\ previous[d] \in edges /\ target[previous[d]] = d /\ source[previous[d]] \in DOMAIN distance
       /\ distance[d] = distance[source[previous[d]]] + 1
  /\ visited \subseteq DOMAIN distance /\ queue \in Seq(DOMAIN distance)

\* While nothing was cut short, what is found was visited or waits in the order of
\* its distance, and what was visited led to all its callees.
ByLevel ==
  /\ DOMAIN distance \subseteq visited \cup {queue[i] : i \in 1..Len(queue)}
  /\ \A c \in edges : source[c] \in visited =>
       target[c] \in DOMAIN distance /\ distance[target[c]] <= distance[source[c]] + 1
  /\ \A i, j \in 1..Len(queue) :
       i <= j => distance[queue[i]] <= distance[queue[j]] /\ distance[queue[j]] <= distance[queue[i]] + 1
  /\ \A d \in visited, i \in 1..Len(queue) : distance[d] <= distance[queue[i]]

SearchInvariant ==
  /\ state \in {"search", "back"} => FoundByCalls
  /\ state = "search" /\ outcome = "unknown" /\ (queue # <<>> \/ ~truncated) => ByLevel
  /\ state = "search" /\ outcome = "unknown" => request.goal \notin visited
  /\ state \in {"search", "back"} /\ outcome = "found" =>
       /\ request.goal \in DOMAIN distance
       /\ \A n \in 0..distance[request.goal] - 1 : ~Leads(n)

\* The path so far leads to the goal, and the rest is as long as its start is away.
PathSoFar ==
  state = "back" =>
    /\ outcome = "found" /\ path \in Seq(DOMAIN distance) /\ relations \in Seq(edges)
    /\ Len(path) = Len(relations) + 1 /\ path[Len(path)] = request.goal
    /\ \A i \in 1..Len(relations) : source[relations[i]] = path[i] /\ target[relations[i]] = path[i + 1]
    /\ distance[path[1]] + Len(relations) = distance[request.goal]

\* The counts are those of the calls that were counted.
CountsSoFar ==
  state = "count" =>
    /\ counted \subseteq sites
    /\ outgoing = [d \in nodes |-> Cardinality({c \in counted : source[c] = d})]
    /\ incoming = [d \in nodes |-> Cardinality({c \in counted : target[c] = d})]

CallGraphInvariant ==
  /\ state \in {"start", "count"} => outcome = "unknown"
  /\ state = "search" => outcome \in {"unknown", "found"}
  /\ state \in {"search", "back"} => request.mode = "path"
  /\ state = "start" => counted = {} /\ visited = {} /\ previous = <<>>
  /\ state \in {"start", "search"} => relations = <<>>
  /\ PreparedIsWhole /\ SearchInvariant /\ PathSoFar /\ CountsSoFar

\* All that is said of an analysis of the call graph.
CallGraphIsCertain ==
  TypeOK /\ CallGraphInvariant /\ PathIsShortest /\ NegativeIsCertain /\ CountsAreWhole
=============================================================================
