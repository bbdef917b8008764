---------------------------- MODULE Neighborhood ----------------------------
(***************************************************************************)
(* The bounded walk that answers graph queries.                            *)
(* Source: src/crates/query/src/lib.rs (neighborhood_with_control) and     *)
(* src/crates/store/src/reader.rs (adjacency, collect_bounded).            *)
(*                                                                         *)
(* A breadth-first walk over the call relations of a snapshot, cut by      *)
(* depth, by numbers of nodes and edges, by bytes read and returned, and   *)
(* by a control that may stop it between any two relations.  A relation is *)
(* a number, its identifier; its target may be unknown.  Every definition  *)
(* and every relation counts one byte, but for a root that alone exceeds   *)
(* what a response may hold.                                               *)
(***************************************************************************)
EXTENDS Naturals, FiniteSets, Sequences

CONSTANTS Nodes,       \* definitions: positive, as their identifiers are ordered
          Relations,   \* the set of relation identifiers, 1..n
          MaxNodes,    \* node limits a client may ask for (1..200)
          MaxEdges,    \* edge limits a client may ask for (1..500)
          Depths,      \* depths a client may ask for (0..4)
          RowBudget,   \* what one adjacency query may read (2 MiB)
          ByteBudget   \* what a response may hold (2 MiB)

Unknown == 0
Root == CHOOSE n \in Nodes : \A m \in Nodes : n <= m

VARIABLES source, target,   \* the ends of each relation of the snapshot
          request,          \* direction, depth, max_nodes, max_edges
          nodes, edges,     \* what the response has so far
          queue,            \* definitions to expand, with their depth
          visited,          \* definitions that were expanded
          rows, depth,      \* relations left of the one being expanded; where they lead
          bytes,            \* bytes of the response
          truncated,        \* a budget cut the walk
          stopped,          \* the control is cancelled or past its deadline
          state             \* "start", "walk", "done"

vars == <<source, target, request, nodes, edges, queue, visited, rows, depth, bytes, truncated,
          stopped, state>>
graph == <<source, target, request>>

NeighborhoodAssumption ==
  /\ Nodes \subseteq Nat \ {Unknown} /\ Nodes # {}
  /\ Relations \subseteq Nat /\ IsFiniteSet(Relations)
  /\ MaxNodes \subseteq Nat \ {0} /\ MaxEdges \subseteq Nat \ {0} /\ Depths \subseteq 0..4
  /\ ByteBudget \in Nat \ {0}

-----------------------------------------------------------------------------
Ends(r) == {source[r], target[r]} \ {Unknown}

\* The relations of a definition in one direction, and the order of the store.
Incident(id, direction) ==
  {r \in Relations : \/ direction # "incoming" /\ source[r] = id
                     \/ direction # "outgoing" /\ target[r] = id}
Key(r, direction) ==
  CASE direction = "incoming" -> source[r]
    [] direction = "outgoing" -> target[r]
    [] OTHER -> 0
RowBefore(r, s, direction) ==
  \/ Key(r, direction) < Key(s, direction)
  \/ Key(r, direction) = Key(s, direction) /\ r < s

\* The first rows of a definition.
First(all, direction, n) ==
  {r \in all : Cardinality({s \in all : RowBefore(s, r, direction)}) < n}

\* Faulty: as many rows as the response may have edges.
AdjacencyToLimit(id, direction, limit) == First(Incident(id, direction), direction, limit - 1)
adjacency(id, direction, limit) == First(Incident(id, direction), direction, limit)

\* Where the walk goes on behind a relation.
Ahead(r) ==
  (IF request.direction = "incoming" THEN {} ELSE {target[r]} \ {Unknown})
    \cup (IF request.direction = "outgoing" THEN {} ELSE {source[r]})
Onward(r) ==
  LET back == IF request.direction = "outgoing" THEN <<>> ELSE <<[id |-> source[r], depth |-> depth]>>
      forth == IF request.direction = "incoming" \/ target[r] = Unknown THEN <<>>
               ELSE <<[id |-> target[r], depth |-> depth]>>
  IN back \o forth

-----------------------------------------------------------------------------
Requests == [direction : {"incoming", "outgoing", "both"}, depth : Depths,
             max_nodes : MaxNodes, max_edges : MaxEdges]

TypeOK ==
  /\ source \in [Relations -> Nodes] /\ target \in [Relations -> Nodes \cup {Unknown}]
  /\ request \in Requests
  /\ nodes \subseteq Nodes /\ edges \subseteq Relations /\ visited \subseteq Nodes
  /\ queue \in Seq([id : Nodes, depth : Nat]) /\ rows \subseteq Relations /\ depth \in Nat
  /\ bytes \in 0..ByteBudget
  /\ truncated \in BOOLEAN /\ stopped \in BOOLEAN
  /\ state \in {"start", "walk", "done"}

Init ==
  /\ source \in [Relations -> Nodes] /\ target \in [Relations -> Nodes \cup {Unknown}]
  /\ request \in Requests
  /\ nodes = {} /\ edges = {} /\ queue = <<>> /\ visited = {} /\ rows = {} /\ depth = 0
  /\ bytes = 0 /\ truncated = FALSE /\ stopped = FALSE
  /\ state = "start"

\* The deadline passes or the handler of the request is dropped.
Stop ==
  /\ state # "done" /\ ~stopped
  /\ stopped' = TRUE
  /\ UNCHANGED <<graph, nodes, edges, queue, visited, rows, depth, bytes, truncated, state>>

\* A stopped control while the snapshot is verified: an empty, truncated answer.
GiveUp ==
  /\ state = "start" /\ stopped
  /\ truncated' = TRUE /\ state' = "done"
  /\ UNCHANGED <<graph, nodes, edges, queue, visited, rows, depth, bytes, stopped>>

\* A root too large for the response: an empty, truncated answer.
RefuseRoot ==
  /\ state = "start" /\ ~stopped
  /\ truncated' = TRUE /\ state' = "done"
  /\ UNCHANGED <<graph, nodes, edges, queue, visited, rows, depth, bytes, stopped>>

Begin ==
  /\ state = "start" /\ ~stopped
  /\ nodes' = {Root} /\ bytes' = 1
  /\ queue' = <<[id |-> Root, depth |-> 0]>>
  /\ state' = "walk"
  /\ UNCHANGED <<graph, edges, visited, rows, depth, truncated, stopped>>

\* The next definition of the queue, and the next relation of the one being expanded.
AtNext == state = "walk" /\ ~stopped /\ rows = {} /\ queue # <<>>
AtRow == state = "walk" /\ ~stopped /\ rows # {}
Row == CHOOSE r \in rows : \A s \in rows : ~RowBefore(s, r, request.direction)

\* A budget ends the walk.
BreakWalk == truncated' = TRUE /\ queue' = <<>> /\ rows' = {}

\* The front of the queue is not expanded: too deep, or expanded before.
Skip ==
  /\ AtNext
  /\ Head(queue).depth >= request.depth \/ Head(queue).id \in visited
  /\ queue' = Tail(queue)
  /\ UNCHANGED <<graph, nodes, edges, visited, rows, depth, bytes, truncated, stopped, state>>

\* The front of the queue is expanded: one row more than an answer may have edges is
\* read, unless they exceed the read budget.
Expand ==
  /\ AtNext
  /\ Head(queue).depth < request.depth /\ Head(queue).id \notin visited
  /\ visited' = visited \cup {Head(queue).id}
  /\ LET all == adjacency(Head(queue).id, request.direction, request.max_edges + 1)
     IN \/ /\ Cardinality(all) > RowBudget /\ BreakWalk /\ UNCHANGED depth
        \/ /\ Cardinality(all) <= RowBudget
           /\ rows' = all /\ depth' = Head(queue).depth + 1
           /\ queue' = Tail(queue) /\ UNCHANGED truncated
  /\ UNCHANGED <<graph, nodes, edges, bytes, stopped, state>>

Required == Ends(Row) \ nodes
Size == bytes + 1 + Cardinality(Required)
FitsNodes == Cardinality(nodes \cup Required) <= request.max_nodes

\* A relation that the response has, or that it has no room for.
PassRow ==
  /\ AtRow
  /\ \/ /\ Row \in edges
        /\ rows' = rows \ {Row} /\ UNCHANGED <<truncated, queue>>
     \/ /\ Row \notin edges /\ Cardinality(edges) >= request.max_edges
        /\ BreakWalk
     \/ /\ Row \notin edges /\ Cardinality(edges) < request.max_edges /\ ~FitsNodes
        /\ rows' = rows \ {Row} /\ truncated' = TRUE /\ UNCHANGED queue
     \/ /\ Row \notin edges /\ Cardinality(edges) < request.max_edges /\ FitsNodes
        /\ Size > ByteBudget /\ BreakWalk
  /\ UNCHANGED <<graph, nodes, edges, visited, depth, bytes, stopped, state>>

\* A relation comes into the response with its ends, and leads the walk onward.
AddRow ==
  /\ AtRow
  /\ Row \notin edges /\ Cardinality(edges) < request.max_edges /\ FitsNodes /\ Size <= ByteBudget
  /\ nodes' = nodes \cup Required /\ edges' = edges \cup {Row} /\ bytes' = Size
  /\ queue' = queue \o Onward(Row) /\ rows' = rows \ {Row}
  /\ UNCHANGED <<graph, visited, depth, truncated, stopped, state>>

\* A stopped walk ends at the next definition or relation, one that has nothing left
\* to expand is done; a control stopped by then marks the answer all the same.
Finish ==
  /\ state = "walk" /\ (stopped \/ (queue = <<>> /\ rows = {}))
  /\ truncated' = (truncated \/ stopped)
  /\ queue' = <<>> /\ rows' = {} /\ state' = "done"
  /\ UNCHANGED <<graph, nodes, edges, visited, depth, bytes, stopped>>

Next == Stop \/ GiveUp \/ RefuseRoot \/ Begin \/ Skip \/ Expand \/ PassRow \/ AddRow \/ Finish

Spec == Init /\ [][Next]_vars

-----------------------------------------------------------------------------
(* The reference: definitions by their distance from the root. *)

Step(from) == UNION {Ahead(r) : r \in UNION {Incident(n, request.direction) : n \in from}}
Within[d \in 0..4] == IF d = 0 THEN {Root} ELSE Within[d - 1] \cup Step(Within[d - 1])

ExpectedEdges ==
  IF request.depth = 0 THEN {}
  ELSE UNION {Incident(n, request.direction) : n \in Within[request.depth - 1]}
ExpectedNodes == {Root} \cup UNION {Ends(r) : r \in ExpectedEdges}

-----------------------------------------------------------------------------
(* Properties. *)

\* A response never exceeds what was asked for, and every definition that one of
\* its relations names is in it: a client can draw what it got.
ResponseIsClosed ==
  /\ Cardinality(nodes) <= request.max_nodes /\ Cardinality(edges) <= request.max_edges
  /\ UNION {Ends(r) : r \in edges} \subseteq nodes
  /\ nodes \subseteq ExpectedNodes /\ edges \subseteq ExpectedEdges

\* A response that is not marked as truncated is the whole neighborhood: every
\* call relation of every definition nearer than the depth, however the rows
\* were limited, the budgets fell or the control raced the walk.
CompleteUnlessTruncated ==
  state = "done" /\ ~truncated => edges = ExpectedEdges /\ nodes = ExpectedNodes

\* The inductive invariant.  What is in the response or waits to be expanded lies in the
\* neighborhood, and the ends of its relations are with it.
Queued == {queue[i].id : i \in DOMAIN queue}

WalkIsInside ==
  /\ state = "start" => nodes = {} /\ edges = {} /\ visited = {} /\ queue = <<>> /\ rows = {}
  /\ state = "walk" => Root \in nodes
  /\ IsFiniteSet(nodes) /\ nodes \subseteq {Root} \cup UNION {Ends(r) : r \in edges}
  /\ \A i \in DOMAIN queue : queue[i].depth <= request.depth /\ queue[i].id \in Within[queue[i].depth]
  /\ \A r \in rows : /\ depth \in 1..request.depth
                      /\ \E n \in Within[depth - 1] : r \in Incident(n, request.direction)
  /\ visited # {} => request.depth > 0 /\ visited \subseteq Within[request.depth - 1]
  /\ ResponseIsClosed

\* While nothing was cut the walk goes by distance: k entries of the queue lie at the
\* level it is at, the others one further.  The definitions nearer than that were
\* expanded, those of the level were or are queued, and so is what every relation of
\* the response leads to.  More rows are not read than show that the edges are too many.
ByLevel(level, k) ==
  /\ \A i \in DOMAIN queue : queue[i].depth = IF i <= k THEN level ELSE level + 1
  /\ rows # {} => depth = level + 1 /\ level < request.depth
  /\ level > 0 => Within[level - 1] \subseteq visited
  /\ level < request.depth =>
       /\ Within[level] \subseteq visited \cup {queue[i].id : i \in 1..k}
       /\ \A r \in edges : Ahead(r) \subseteq visited \cup Queued
  /\ \/ Cardinality(edges \cup rows) > request.max_edges
     \/ \A n \in visited : Incident(n, request.direction) \subseteq edges \cup rows

WalkIsComplete ==
  state = "walk" /\ ~truncated =>
    \E level \in 0..request.depth : \E k \in 0..Len(queue) : ByLevel(level, k)

NeighborhoodInvariant == TypeOK /\ WalkIsInside /\ WalkIsComplete /\ CompleteUnlessTruncated

\* The ends of every relation of a response are in it, and a response that says nothing of
\* a cut has all of the neighborhood.
NeighborhoodIsWhole == NeighborhoodInvariant /\ ResponseIsClosed /\ CompleteUnlessTruncated
=============================================================================
