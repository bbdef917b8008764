------------------------- MODULE CompilerComplexity -------------------------
(***************************************************************************)
(* The cyclomatic measure of one compiler body.                            *)
(* Source: src/crates/analysis/src/compiler_complexity.rs.                 *)
(*                                                                         *)
(* Every terminator is validated, the blocks reachable from bb0 are found  *)
(* by a depth-first search over the edges that can run (its stack is a set *)
(* here: the order of the search shows in no result), and the edges of     *)
(* those blocks are counted together with one edge to a synthetic exit per *)
(* exit site.  The control may stop the analysis at any block.  A          *)
(* terminator is a record [kind, edges, unwind]; an edge has a kind, a     *)
(* target and, on a switch, a value (NoValue: none, or not a number).      *)
(***************************************************************************)
EXTENDS Naturals, FiniteSets, Sequences

CONSTANTS Terminators,   \* [block -> set of terminators], the bodies considered
          BlockLimits, EdgeLimits,   \* limits a client may send
          NoValue, NoUnwind          \* absent metadata

Blocks == DOMAIN Terminators

ComplexityAssumption ==
  /\ IsFiniteSet(Blocks) /\ Blocks \subseteq Nat
  /\ \A b \in Blocks : \A t \in Terminators[b] :
       /\ IsFiniteSet(DOMAIN t.edges)
       /\ t.unwind = NoUnwind \/ t.unwind.kind \in {"continue", "unreachable", "terminate", "cleanup"}
  /\ BlockLimits \cup EdgeLimits \subseteq Nat

VARIABLES term,         \* the terminator of every block
          max_blocks, max_edges,
          graph,        \* edges that can run: <<block, edge number, target>>
          stack, reached,   \* the depth-first search
          counted,      \* reached blocks that are counted
          runtime_edges, excluded,
          exit_sites,
          metrics,      \* <<>> or <<nodes, edges, cyclomatic>>
          stopped, truncated,
          state

vars == <<term, max_blocks, max_edges, graph, stack, reached, counted, runtime_edges, excluded,
          exit_sites, metrics, stopped, truncated, state>>
input == <<term, max_blocks, max_edges>>
counts == <<counted, runtime_edges, excluded, exit_sites>>

-----------------------------------------------------------------------------
Count(t, kind) == Cardinality({i \in DOMAIN t.edges : t.edges[i].kind = kind})
SwitchValues(t) == {t.edges[i].value : i \in {j \in DOMAIN t.edges : t.edges[j].kind = "switch_value"}}

\* Switch values are numbers, no two alike, and only a switch has them.
ValuesOK(t) ==
  /\ NoValue \notin SwitchValues(t) /\ Cardinality(SwitchValues(t)) = Count(t, "switch_value")
  /\ \A i \in DOMAIN t.edges : t.edges[i].kind # "switch_value" => t.edges[i].value = NoValue

\* The cleanup target and the unwind edge are the same.
UnwindOK(t) ==
  IF t.unwind # NoUnwind /\ t.unwind.kind = "cleanup"
  THEN /\ Count(t, "unwind") = 1
       /\ \E i \in DOMAIN t.edges : t.edges[i].kind = "unwind" /\ t.edges[i].target = t.unwind.target
  ELSE Count(t, "unwind") = 0

ShapeOK(t) ==
  LET normal == Count(t, "normal")   unwind == Count(t, "unwind")
      drops == Count(t, "coroutine_drop")   total == Len(t.edges)   bare == t.unwind = NoUnwind
  IN CASE t.kind = "goto" -> normal = 1 /\ total = 1 /\ bare
       [] t.kind = "switch_int" ->
            Count(t, "otherwise") = 1 /\ total = Cardinality(SwitchValues(t)) + 1 /\ bare
       [] t.kind \in {"return", "unwind_resume", "unreachable", "coroutine_drop", "tail_call"} ->
            total = 0 /\ bare
       [] t.kind = "unwind_terminate" -> total = 0 /\ ~bare /\ t.unwind.kind = "terminate"
       [] t.kind = "drop" -> normal = 1 /\ drops <= 1 /\ total = normal + drops + unwind /\ ~bare
       [] t.kind = "call" -> normal <= 1 /\ total = normal + unwind /\ ~bare
       [] t.kind \in {"assert", "false_unwind"} -> normal = 1 /\ total = normal + unwind /\ ~bare
       [] t.kind = "yield" -> Count(t, "resume") = 1 /\ drops <= 1 /\ total = 1 + drops /\ bare
       [] t.kind = "false_edge" -> normal = 1 /\ Count(t, "imaginary") = 1 /\ total = 2 /\ bare
       [] t.kind = "inline_asm" -> total = normal + unwind /\ ~bare
       [] OTHER -> FALSE

validate_graph_term(t) == ValuesOK(t) /\ UnwindOK(t) /\ ShapeOK(t)

\* Edges that no execution takes.
imaginary(t, e) == e.kind = "imaginary" \/ (t.kind = "false_unwind" /\ e.kind = "unwind")
RuntimeEdges(b) == {i \in DOMAIN term[b].edges : ~imaginary(term[b], term[b].edges[i])}
Successors(b) == {term[b].edges[i].target : i \in RuntimeEdges(b)}

\* A block leaves the function by unwinding out of it, or by having no successor.
Exits(b) ==
  \/ /\ term[b].kind # "false_unwind" /\ term[b].unwind # NoUnwind
     /\ term[b].unwind.kind \in {"continue", "terminate"}
  \/ RuntimeEdges(b) = {}

-----------------------------------------------------------------------------
TypeOK ==
  /\ reached \subseteq Blocks /\ counted \subseteq reached /\ exit_sites \subseteq counted
  /\ stack \subseteq Blocks
  /\ state \in {"start", "search", "count", "done", "invalid"}
  /\ metrics # <<>> => state = "done" /\ counted = reached

Bodies == {t \in [Blocks -> UNION {Terminators[b] : b \in Blocks}] : \A b \in Blocks : t[b] \in Terminators[b]}

Init ==
  /\ term \in Bodies
  /\ max_blocks \in BlockLimits /\ max_edges \in EdgeLimits
  /\ graph = {} /\ stack = {} /\ reached = {} /\ counted = {}
  /\ runtime_edges = 0 /\ excluded = 0 /\ exit_sites = {} /\ metrics = <<>>
  /\ stopped = FALSE /\ truncated = FALSE /\ state = "start"

Stop ==
  /\ state \in {"start", "search", "count"} /\ ~stopped
  /\ stopped' = TRUE
  /\ UNCHANGED <<input, graph, stack, reached, counts, metrics, truncated, state>>

\* A stop at any block: what was found so far is reported, and no value.
Give ==
  /\ state \in {"start", "search", "count"} /\ stopped
  /\ truncated' = TRUE /\ state' = "done"
  /\ UNCHANGED <<input, graph, stack, reached, counts, metrics, stopped>>

AllEdges == Cardinality(UNION {{b} \X DOMAIN term[b].edges : b \in Blocks})
Closed == \A b \in Blocks : \A i \in DOMAIN term[b].edges : term[b].edges[i].target \in Blocks
Graph == UNION {{<<b, i, term[b].edges[i].target>> : i \in RuntimeEdges(b)} : b \in Blocks}

\* Limits, terminators, entry block and targets; then the graph is built.
Validate ==
  /\ state = "start" /\ ~stopped
  /\ \/ /\ Cardinality(Blocks) > max_blocks \/ AllEdges > max_edges
        /\ truncated' = TRUE /\ state' = "done" /\ UNCHANGED <<graph, stack>>
     \/ /\ Cardinality(Blocks) <= max_blocks
        /\ 0 \notin Blocks \/ ~Closed \/ \E b \in Blocks : ~validate_graph_term(term[b])
        /\ state' = "invalid" /\ UNCHANGED <<graph, stack, truncated>>
     \/ /\ Cardinality(Blocks) <= max_blocks /\ AllEdges <= max_edges
        /\ 0 \in Blocks /\ Closed /\ \A b \in Blocks : validate_graph_term(term[b])
        /\ graph' = Graph
        /\ stack' = {0} /\ state' = "search" /\ UNCHANGED truncated
  /\ UNCHANGED <<input, reached, counts, metrics, stopped>>

\* One block of the search: it is popped, its successors pushed.
Search ==
  /\ state = "search" /\ ~stopped /\ stack # {}
  /\ \E b \in stack :
       /\ reached' = reached \cup {b}
       /\ stack' = (stack \cup {e[3] : e \in {x \in graph : x[1] = b}}) \ reached'
  /\ UNCHANGED <<input, graph, counts, metrics, stopped, truncated, state>>

Searched ==
  /\ state = "search" /\ ~stopped /\ stack = {}
  /\ state' = "count"
  /\ UNCHANGED <<input, graph, stack, reached, counts, metrics, stopped, truncated>>

\* Faulty: successors that lead to the same block are one edge.
SuccessorsMerged(b) == Cardinality({term[b].edges[i].target : i \in RuntimeEdges(b)})
SuccessorsOf(b) == Cardinality(RuntimeEdges(b))

CountBlock ==
  /\ state = "count" /\ ~stopped /\ counted # reached
  /\ LET b == CHOOSE x \in reached \ counted : \A y \in reached \ counted : x <= y
     IN /\ counted' = counted \cup {b}
        /\ runtime_edges' = runtime_edges + SuccessorsOf(b)
        /\ excluded' = excluded + Len(term[b].edges) - SuccessorsOf(b)
        /\ exit_sites' = IF Exits(b) THEN exit_sites \cup {b} ELSE exit_sites
  /\ UNCHANGED <<input, graph, stack, reached, metrics, stopped, truncated, state>>

\* Without an exit there is no value; N counts the synthetic exit, E its edges.
Publish ==
  /\ state = "count" /\ ~stopped /\ counted = reached
  /\ LET nodes == Cardinality(reached) + 1
         edges == runtime_edges + Cardinality(exit_sites)
     IN IF exit_sites = {} THEN UNCHANGED <<metrics, truncated>>
        ELSE IF edges > max_edges THEN truncated' = TRUE /\ UNCHANGED metrics
        ELSE metrics' = <<nodes, edges, edges + 2 - nodes>> /\ UNCHANGED truncated
  /\ state' = "done"
  /\ UNCHANGED <<input, graph, stack, reached, counts, stopped>>

Next == Stop \/ Give \/ Validate \/ Search \/ Searched \/ CountBlock \/ Publish

Spec == Init /\ [][Next]_vars

-----------------------------------------------------------------------------
(* The reference: blocks that an execution may come to, and its choices. *)

\* What every set of blocks contains that has the entry and whatever its blocks
\* lead to.
AllRunnable ==
  {b \in Blocks : \A S \in SUBSET Blocks : 0 \in S /\ (\A c \in S : Successors(c) \subseteq S) => b \in S}

\* The ways to go on from a block: its successors and the way out.
WaysOn(b) ==
  Cardinality(RuntimeEdges(b)) +
  IF RuntimeEdges(b) = {} \/ (/\ term[b].unwind # NoUnwind /\ term[b].kind # "false_unwind"
                              /\ term[b].unwind.kind \notin {"cleanup", "unreachable"}) THEN 1 ELSE 0

\* The choices of some blocks: a block offers none when there is one way to go on.
ChoicesOf(blocks) == UNION {{b} \X (2..WaysOn(b)) : b \in blocks}

-----------------------------------------------------------------------------
(* Properties. *)

\* A published value is the one McCabe's measure has by its other definition, one
\* more than the choices beyond the first of every block that an execution may
\* come to, the way out of the function being one: so it is never below one, and
\* the unsigned subtraction that computes it never fails.
ValueCountsChoices ==
  metrics # <<>> =>
    metrics[3] = 1 + Cardinality(ChoicesOf(AllRunnable))

\* A value is published for whole bodies only: when every block that an execution
\* may come to has been counted; no value is published when there is no way out.
ValueIsOfTheWholeBody ==
  metrics # <<>> => /\ reached = AllRunnable /\ metrics[1] = Cardinality(AllRunnable) + 1
                    /\ exit_sites = {b \in AllRunnable : WaysOn(b) > Cardinality(RuntimeEdges(b))}
                    /\ exit_sites # {} /\ metrics[2] <= max_edges /\ ~stopped

-----------------------------------------------------------------------------
(* The inductive invariant. *)

\* What is reached or waits on the stack can run, and so does all it leads to.
SearchIsOfTheBody ==
  state \in {"search", "count"} =>
    /\ 0 \in reached \cup stack /\ Closed /\ graph = Graph
    /\ reached \cup stack \subseteq AllRunnable
    /\ \A b \in reached : Successors(b) \subseteq reached \cup stack
    /\ state = "count" => stack = {}

\* The counts are those of the blocks that are counted.
CountsAreOfBlocks ==
  /\ exit_sites = {b \in counted : Exits(b)} /\ runtime_edges \in Nat
  /\ runtime_edges + Cardinality(exit_sites) = Cardinality(counted) + Cardinality(ChoicesOf(counted))

ComplexityInvariant ==
  /\ term \in Bodies /\ max_edges \in EdgeLimits
  /\ state # "done" => metrics = <<>>
  /\ state = "start" => reached = {}
  /\ SearchIsOfTheBody /\ CountsAreOfBlocks

\* All that is said of a measure.
ComplexityIsOfTheBody ==
  TypeOK /\ ComplexityInvariant /\ ValueCountsChoices /\ ValueIsOfTheWholeBody
=============================================================================
