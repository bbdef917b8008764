------------------------ MODULE ReachingDefinitions ------------------------
(***************************************************************************)
(* Which assignments may reach a use of a local, in one compiler body.     *)
(* Source: src/crates/analysis/src/dataflow.rs.                            *)
(*                                                                         *)
(* A worklist over the blocks of the body reaches a fixed point, then one  *)
(* pass over the reachable blocks reports every use.  Fact budgets and a   *)
(* control that may stop at any moment cut both; the claims of an          *)
(* unfinished search are withheld.  A block is one statement and a         *)
(* terminator; the order of its edges does not show in any result.         *)
(***************************************************************************)
EXTENDS Naturals, FiniteSets, FiniteSetsExt

CONSTANTS Blocks,         \* block indices; 0 is the entry
          Locals,         \* local indices; 0 is the return place
          Arguments,      \* the argument locals
          Bodies,         \* [Blocks -> [statement, effects, edges, returns, suspends]], where
                          \* statement and effects are [defs, uses, moves, dead, unknown]
          FactLimits,     \* values of max_facts a client may send
          MaxIterations   \* max_iterations

Effects ==
  [defs : SUBSET Locals, uses : SUBSET Locals, moves : SUBSET Locals, dead : SUBSET Locals,
   unknown : BOOLEAN]

\* The effects of a body are on its locals.  Its edges may lead anywhere.
DataflowAssumption ==
  /\ IsFiniteSet(Blocks) /\ Blocks \subseteq Nat /\ 0 \in Blocks
  /\ IsFiniteSet(Locals) /\ Arguments \subseteq Locals
  /\ \A code \in Bodies : \A b \in Blocks :
       /\ code[b].statement \in Effects /\ code[b].effects \in Effects
       /\ code[b].returns \subseteq Locals /\ code[b].suspends \in BOOLEAN
  /\ FactLimits \subseteq Nat /\ MaxIterations \in Nat

VARIABLES body, max_facts,
          entries,      \* [local -> definitions and gap], per block that was reached
          worklist,
          iterations,
          at,           \* the point reported next: block and step in it
          flow,         \* the abstract state in front of that point
          output_facts,
          result,       \* fixed_point, uses, definitions, truncated, withheld
          stopped,      \* the control
          state         \* "start", "solve", "emit", "done", "invalid"

vars == <<body, max_facts, entries, worklist, iterations, at, flow, output_facts, result, stopped, state>>
input == <<body, max_facts>>

-----------------------------------------------------------------------------
(* Points and effects. *)

Entry == <<"entry", 0, 0>>
Statement(b) == <<"statement", b, 0>>
Terminator(b) == <<"terminator", b, 0>>
NormalReturn(b, t) == <<"return", b, t>>
Points ==
  {Entry} \cup {Statement(b) : b \in Blocks} \cup {Terminator(b) : b \in Blocks}
  \cup {NormalReturn(b, t) : b \in Blocks, t \in Blocks}

\* A block that suspends may be resumed by anyone: its state is not its own.
terminator_effects(b) == [body[b].effects EXCEPT !.unknown = @ \/ body[b].suspends]

EffectsAt(b, step) == IF step = 1 THEN body[b].statement ELSE terminator_effects(b)
PointAt(b, step) == IF step = 1 THEN Statement(b) ELSE Terminator(b)

RuntimeEdges(b) == {e \in body[b].edges : e.kind # "imaginary"}

-----------------------------------------------------------------------------
(* The abstract state: what is known of every local, and unknown memory. *)

Nothing == [definitions |-> {}, uninitialized |-> TRUE]
Empty == [values |-> [l \in Locals |-> Nothing], unknown |-> FALSE]
Defined(point) == [definitions |-> {point}, uninitialized |-> FALSE]
EntryState == [Empty EXCEPT !.values = [l \in Locals |-> IF l \in Arguments THEN Defined(Entry) ELSE Nothing]]

facts(s) == MapThenSumSet(
    LAMBDA l : Cardinality(s.values[l].definitions) + (IF s.values[l].definitions = {} THEN 0 ELSE 1), Locals)
    + (IF s.unknown THEN 1 ELSE 0)

define(s, ls, point) == [s EXCEPT !.values = [l \in Locals |-> IF l \in ls THEN Defined(point) ELSE @[l]]]

transfer(s, effects, point) ==
  LET cleared == [s EXCEPT !.values =
                    [l \in Locals |-> IF l \in effects.moves \cup effects.dead THEN Nothing ELSE @[l]]]
  IN [define(cleared, effects.defs, point) EXCEPT !.unknown = @ \/ effects.unknown]

\* Faulty: a path without a definition leaves no gap.
JoinForgetsGap(all) ==
  [values |-> [l \in Locals |->
     [definitions |-> UNION {s.values[l].definitions : s \in all},
      uninitialized |-> \A s \in all : s.values[l].definitions = {}]],
   unknown |-> \E s \in all : s.unknown]

\* What is known where several states come together.
join(all) ==
  [values |-> [l \in Locals |->
     [definitions |-> UNION {s.values[l].definitions : s \in all},
      uninitialized |-> \E s \in all : s.values[l].uninitialized]],
   unknown |-> \E s \in all : s.unknown]

-----------------------------------------------------------------------------
EmptyResult == [fixed_point |-> FALSE, uses |-> {}, definitions |-> {},
                reachable |-> {}, truncated |-> FALSE]

AbstractValues ==
  {v \in [definitions : SUBSET Points, uninitialized : BOOLEAN] : v.definitions = {} => v.uninitialized}
AbstractStates == [values : [Locals -> AbstractValues], unknown : BOOLEAN]
Definitions == [local : Locals, point : Points]
Uses == [local : Locals, point : Points, reaching : SUBSET Points, gap : BOOLEAN, tainted : BOOLEAN]

TypeOK ==
  /\ body \in Bodies /\ max_facts \in FactLimits
  /\ DOMAIN entries \subseteq Blocks /\ worklist \subseteq DOMAIN entries
  /\ entries \in [DOMAIN entries -> AbstractStates]
  /\ iterations \in 0..MaxIterations
  /\ at \in [block : Blocks, step : 1..3] /\ flow \in AbstractStates
  /\ output_facts <= max_facts
  /\ result \in [fixed_point : BOOLEAN, uses : SUBSET Uses, definitions : SUBSET Definitions,
                 reachable : SUBSET Blocks, truncated : BOOLEAN]
  /\ stopped \in BOOLEAN /\ state \in {"start", "solve", "emit", "done", "invalid"}
  /\ state \in {"start", "solve", "invalid"} => result = EmptyResult

Init ==
  /\ body \in Bodies /\ max_facts \in FactLimits
  /\ entries = [b \in {} |-> Empty] /\ worklist = {} /\ iterations = 0
  /\ at = [block |-> 0, step |-> 1] /\ flow = Empty /\ output_facts = 0
  /\ result = EmptyResult
  /\ stopped = FALSE /\ state = "start"

Stop ==
  /\ state \in {"start", "solve", "emit"} /\ ~stopped
  /\ stopped' = TRUE
  /\ UNCHANGED <<input, entries, worklist, iterations, at, flow, output_facts, result, state>>

\* A response over its byte budget is emptied.
Withheld == [EmptyResult EXCEPT !.fixed_point = TRUE, !.truncated = TRUE]

Limited ==
  /\ \/ result' = [result EXCEPT !.truncated = TRUE]
     \/ state = "emit" /\ result' = Withheld
  /\ state' = "done"

\* A stopped control ends the search at a block and the report at a point; what comes
\* after the last of either is done all the same.
Give ==
  /\ stopped
  /\ state = "start" \/ (state = "solve" /\ worklist # {}) \/ (state = "emit" /\ at.step < 3)
  /\ Limited
  /\ UNCHANGED <<input, entries, worklist, iterations, at, flow, output_facts, stopped>>

References(effects) == Cardinality(effects.defs)
  + Cardinality(effects.uses) + Cardinality(effects.moves) + Cardinality(effects.dead)
  + (IF effects.unknown THEN 1 ELSE 0)
InputFacts == Cardinality(Blocks) + Cardinality(Locals)
  + MapThenSumSet(LAMBDA b : 2 + References(body[b].statement) + References(body[b].effects)
      + Cardinality(body[b].returns) + Cardinality(body[b].edges), Blocks)
WellFormed == \A b \in Blocks : \A e \in body[b].edges : e.target \in Blocks

\* The facts are counted on and on, from the blocks and locals, until they are too many.
TooLarge ==
  \/ Cardinality(Blocks) + Cardinality(Locals) > max_facts
  \/ InputFacts > max_facts \/ facts(EntryState) > max_facts

\* What the body may not be: too large, or with an edge to a block it lacks.
Validate ==
  /\ state = "start" /\ ~stopped
  /\ \/ TooLarge /\ Limited /\ UNCHANGED <<entries, worklist>>
     \/ /\ ~WellFormed /\ state' = "invalid" /\ UNCHANGED <<entries, worklist, result>>
     \/ /\ ~TooLarge /\ WellFormed
        /\ entries' = [b \in {0} |-> EntryState] /\ worklist' = {0}
        /\ state' = "solve" /\ UNCHANGED result
  /\ UNCHANGED <<input, iterations, at, flow, output_facts, stopped>>

AfterBlock(b, s) ==
  transfer(transfer(s, body[b].statement, Statement(b)), terminator_effects(b), Terminator(b))

\* What flows along an edge: a call defines its destination on return only.
Along(b, e, s) ==
  IF e.kind = "normal" THEN define(s, body[b].returns, NormalReturn(b, e.target)) ELSE s

Lowest(s) == CHOOSE b \in s : \A c \in s : b <= c

\* What a block contributes to the entries of its successors.
Outgoing(b, t) ==
  {Along(b, e, AfterBlock(b, entries[b])) : e \in {x \in RuntimeEdges(b) : x.target = t}}
Merged(b) ==
  LET reached == {e.target : e \in RuntimeEdges(b)}
      known(t) == IF t \in DOMAIN entries THEN {entries[t]} ELSE {}
  IN [t \in DOMAIN entries \cup reached |->
        IF t \in reached THEN join(Outgoing(b, t) \cup known(t)) ELSE entries[t]]

\* The blocks whose entry changed are visited again.
Changed(after) == {t \in DOMAIN after : t \notin DOMAIN entries \/ after[t] # entries[t]}

TooMany(b, after) ==
  \/ facts(AfterBlock(b, entries[b])) > max_facts
  \/ facts(transfer(entries[b], body[b].statement, Statement(b))) > max_facts
  \/ MapThenSumSet(LAMBDA t : facts(after[t]), DOMAIN after) > max_facts

Iterate ==
  /\ state = "solve" /\ ~stopped /\ worklist # {}
  /\ IF iterations = MaxIterations
     THEN Limited /\ UNCHANGED <<entries, worklist, iterations>>
     ELSE LET b == Lowest(worklist)
              after == Merged(b)
          IN /\ iterations' = iterations + 1
             /\ IF TooMany(b, after)
                THEN Limited /\ UNCHANGED <<entries, worklist>>
                ELSE /\ entries' = after
                     /\ worklist' = (worklist \ {b}) \cup Changed(after)
                     /\ UNCHANGED <<result, state>>
  /\ UNCHANGED <<input, at, flow, output_facts, stopped>>

Converged ==
  /\ state = "solve" /\ worklist = {}
  /\ result' = [result EXCEPT !.fixed_point = TRUE, !.reachable = DOMAIN entries,
                  !.definitions = {[local |-> l, point |-> Entry] : l \in Arguments}]
  /\ output_facts' = Cardinality(Arguments) + Cardinality(DOMAIN entries)
  /\ at' = [block |-> 0, step |-> 1] /\ flow' = entries[0]
  /\ state' = "emit"
  /\ UNCHANGED <<input, entries, worklist, iterations, stopped>>

Used(effects) == effects.uses \cup effects.moves

\* The assignments at a step of a block; those of the third are made on return.
ReturnPoints(b) == {NormalReturn(b, e.target) : e \in {x \in body[b].edges : x.kind = "normal"}}
Assigned(b, step) ==
  IF step = 3 THEN {[local |-> l, point |-> p] : l \in body[b].returns, p \in ReturnPoints(b)}
  ELSE {[local |-> l, point |-> PointAt(b, step)] : l \in EffectsAt(b, step).defs}

\* What is reported of the uses at a point.
Report(effects, point, s) ==
  {[local |-> l, point |-> point, reaching |-> s.values[l].definitions,
    gap |-> s.values[l].uninitialized, tainted |-> s.unknown \/ effects.unknown] : l \in Used(effects)}

Extra(effects, s) ==
  MapThenSumSet(LAMBDA l : 1 + Cardinality(s.values[l].definitions), Used(effects))
    + Cardinality(effects.defs) + (IF effects.unknown THEN 1 ELSE 0)

EmitPoint ==
  /\ state = "emit" /\ ~stopped /\ at.step < 3
  /\ LET effects == EffectsAt(at.block, at.step)
         point == PointAt(at.block, at.step)
     IN IF output_facts + Extra(effects, flow) <= max_facts
        THEN /\ result' = [result EXCEPT !.uses = @ \cup Report(effects, point, flow),
                             !.definitions = @ \cup Assigned(at.block, at.step)]
             /\ output_facts' = output_facts + Extra(effects, flow)
             /\ flow' = transfer(flow, effects, point)
             /\ at' = [at EXCEPT !.step = @ + 1]
             /\ UNCHANGED state
        ELSE Limited /\ UNCHANGED <<at, flow, output_facts>>
  /\ UNCHANGED <<input, entries, worklist, iterations, stopped>>

\* The assignments on return of a block, as many as there is room for, then the next
\* reachable block.
EmitReturns ==
  /\ state = "emit" /\ at.step = 3
  /\ LET b == at.block
         more == Assigned(b, 3)
         rest == {c \in DOMAIN entries : c > b}
     IN IF output_facts + Cardinality(more) <= max_facts
        THEN /\ output_facts' = output_facts + Cardinality(more)
             /\ IF rest = {}
                THEN /\ \/ result' = [result EXCEPT !.definitions = @ \cup more]
                        \/ result' = Withheld
                     /\ state' = "done" /\ UNCHANGED <<at, flow>>
                ELSE /\ result' = [result EXCEPT !.definitions = @ \cup more]
                     /\ at' = [block |-> Lowest(rest), step |-> 1] /\ flow' = entries[Lowest(rest)]
                     /\ UNCHANGED state
        ELSE /\ \E some \in SUBSET more :
                  /\ Cardinality(some) = max_facts - output_facts
                  /\ \/ result' = [result EXCEPT !.truncated = TRUE, !.definitions = @ \cup some]
                     \/ result' = Withheld
             /\ state' = "done" /\ UNCHANGED <<at, flow, output_facts>>
  /\ UNCHANGED <<input, entries, worklist, iterations, stopped>>

Next == Stop \/ Give \/ Validate \/ Iterate \/ Converged \/ EmitPoint \/ EmitReturns

Spec == Init /\ [][Next]_vars

-----------------------------------------------------------------------------
(* The reference: executions.  Every local holds the point that last assigned *)
(* it, or nothing; every edge that is not imaginary may be taken.             *)

Unset == <<"none", 0, 0>>
Execute(run, effects, point) ==
  [env |-> [l \in Locals |-> IF l \in effects.defs THEN point
                             ELSE IF l \in effects.moves \cup effects.dead THEN Unset ELSE run.env[l]],
   tainted |-> run.tainted \/ effects.unknown]
Midway(b, run) == Execute(run, body[b].statement, Statement(b))
Return(b, e, run) ==
  IF e.kind # "normal" THEN run
  ELSE [run EXCEPT !.env = [l \in Locals |-> IF l \in body[b].returns THEN NormalReturn(b, e.target) ELSE @[l]]]
Successors(c) ==
  {<<e.target, Return(c[1], e, Execute(Midway(c[1], c[2]), terminator_effects(c[1]), Terminator(c[1])))>> :
     e \in RuntimeEdges(c[1])}
Starting == <<0, [env |-> [l \in Locals |-> IF l \in Arguments THEN Entry ELSE Unset], tainted |-> FALSE]>>

\* What executions of n blocks and fewer come to, and all executions: no more comes
\* of one more block.
Configurations == Blocks \X [env : [Locals -> Points \cup {Unset}], tainted : BOOLEAN]
Executions[n \in Nat] ==
  IF n = 0 THEN {Starting} ELSE Executions[n - 1] \cup UNION {Successors(c) : c \in Executions[n - 1]}
Everything ==
  Executions[CHOOSE n \in 0..Cardinality(Configurations) : Executions[n + 1] = Executions[n]]

\* The states in which executions come to a point.
RunsAt(b, step) ==
  {IF step = 1 THEN c[2] ELSE Midway(b, c[2]) : c \in {x \in Everything : x[1] = b}}
UsesAt(b, step) ==
  LET runs == RunsAt(b, step)
  IN {[local |-> l, point |-> PointAt(b, step),
       reaching |-> {r.env[l] : r \in runs} \ {Unset},
       gap |-> \E r \in runs : r.env[l] = Unset,
       tainted |-> EffectsAt(b, step).unknown \/ \E r \in runs : r.tainted] :
         l \in Used(EffectsAt(b, step))}
Reached == {c[1] : c \in Everything}
ExpectedUses == UNION {UsesAt(b, step) : b \in Reached, step \in {1, 2}}

-----------------------------------------------------------------------------
(* Properties. *)

\* What is claimed of a use is what executions do: the assignments listed are
\* those that some execution brings to it, the gap and the taint are flagged when
\* some execution shows them.  So it is for every use of an answer that was cut,
\* and an answer that was not cut has every use of every block that can run.
UsesAreExact ==
  state = "done" /\ (result.uses # {} \/ ~result.truncated) =>
    IF result.truncated THEN result.uses \subseteq ExpectedUses
    ELSE result.uses = ExpectedUses /\ result.reachable = Reached

\* Every assignment that an answer names in one of its uses is in its list of
\* definitions, unless the answer says that it was cut.
DefinitionsAreListed ==
  state = "done" /\ ~result.truncated =>
    \A u \in result.uses : \A p \in u.reaching : [local |-> u.local, point |-> p] \in result.definitions

-----------------------------------------------------------------------------
(* The inductive invariant.  No more is known of a block than executions show, *)
(* and what a block was visited with has reached its successors: when no block *)
(* is left, what is known is what executions show.                             *)

AtMost(s, t) ==
  /\ \A l \in Locals : /\ s.values[l].definitions \subseteq t.values[l].definitions
                       /\ s.values[l].uninitialized => t.values[l].uninitialized
  /\ s.unknown => t.unknown
Shown(runs) ==
  [values |-> [l \in Locals |-> [definitions |-> {r.env[l] : r \in runs} \ {Unset},
                                 uninitialized |-> \E r \in runs : r.env[l] = Unset]],
   unknown |-> \E r \in runs : r.tainted]

SolutionGrows ==
  /\ 0 \in DOMAIN entries /\ AtMost(EntryState, entries[0])
  /\ \A b \in DOMAIN entries : RunsAt(b, 1) # {} /\ AtMost(entries[b], Shown(RunsAt(b, 1)))
  /\ \A b \in DOMAIN entries \ worklist : \A e \in RuntimeEdges(b) :
       /\ e.target \in DOMAIN entries
       /\ AtMost(Along(b, e, AfterBlock(b, entries[b])), entries[e.target])

Solved == DOMAIN entries = Reached /\ \A b \in Reached : entries[b] = Shown(RunsAt(b, 1))

\* The steps of blocks that the report has behind it.
Passed(b, step) == b < at.block \/ (b = at.block /\ step < at.step)
ReportGrows ==
  /\ result.fixed_point /\ ~result.truncated /\ result.reachable = Reached
  /\ at.block \in Reached /\ (at.step < 3 => flow = Shown(RunsAt(at.block, at.step)))
  /\ \A b \in Reached, step \in {1, 2} : Passed(b, step) => UsesAt(b, step) \subseteq result.uses
  /\ \A u \in result.uses : \E b \in Reached, step \in {1, 2} : Passed(b, step) /\ u \in UsesAt(b, step)
  /\ {[local |-> l, point |-> Entry] : l \in Arguments} \subseteq result.definitions
  /\ \A b \in Reached, step \in {1, 2, 3} : Passed(b, step) => Assigned(b, step) \subseteq result.definitions

DataflowInvariant ==
  /\ TypeOK
  /\ state \in {"solve", "emit"} => WellFormed
  /\ state = "solve" => SolutionGrows /\ Cardinality(Blocks) + Cardinality(Locals) <= max_facts
  /\ state = "emit" => Solved /\ ReportGrows
  /\ UsesAreExact /\ DefinitionsAreListed
=============================================================================
