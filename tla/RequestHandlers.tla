-------------------------- MODULE RequestHandlers --------------------------
(***************************************************************************)
(* The handlers of the local HTTP server, each as the sequence of steps    *)
(* its closure takes (crates/server/src: lib.rs, advanced.rs,              *)
(* state_machine.rs, maintainability.rs).  The server that runs them is in *)
(* Server.                                                                 *)
(***************************************************************************)
EXTENDS Sequences, TLC

\* control: which control stops the step ("own": one the query engine makes for
\* it); stop: a stopped step "fails", is "cut" (returns what it has) or "either";
\* errors: how it fails on its own account.
Step(op, control, stop, errors) ==
  [op |-> op, control |-> control, stop |-> stop, errors |-> errors]

Lookup(op) == Step(op, "own", "fails", {"not_found", "unavailable_shard"})
Effect(op, error) == Step(op, "none", "fails", {error})
Scope == Step("scope", "none", "fails", {"context_mismatch", "not_found"})
File(op, error) == Step(op, "none", "fails", {error})
Load(op, error) == Step(op, "analysis", "fails", {error})
Analysis(op) == Step(op, "analysis", "cut", {"invalid_query", "too_large"})
Neighborhood == Step("neighborhood", "query", "either", {"invalid_query", "not_found"})
Reviewable == Step("reviewable", "analysis", "fails", {})
SelectedSource == <<Lookup("definition"), Step("source", "query", "fails", {"not_found"})>>
CompilerBody == <<Step("checkpoint", "analysis", "fails", {}), Lookup("definition"),
                  Load("flow", "missing_evidence"),
                  Step("complete", "analysis", "fails", {"too_large"})>>
Infer == SelectedSource \o <<Analysis("infer")>>

LookupHandlers ==
  [ snapshots |-> <<File("snapshots", "unavailable_shard")>>,
    snapshot |-> <<Scope>>,
    search |-> <<Step("search", "own", "either", {"invalid_query", "not_found"})>>,
    definition |-> <<Lookup("definition")>>,
    source |-> <<Step("source", "query", "fails", {"invalid_query", "not_found"})>>,
    neighborhood |-> <<Neighborhood>>,
    diff |-> <<Step("diff", "own", "either", {"context_mismatch", "invalid_query"})>>,
    flow |-> <<Step("source_flow", "own", "fails", {"unsupported_capability", "not_found"})>>,
    evidence |-> <<Lookup("evidence")>> ]

ObservationHandlers ==
  [ observations |-> <<Scope, File("list", "unavailable_evidence")>>,
    observation_window |-> <<Scope, File("window", "invalid_query")>> ]

CompilerHandlers ==
  [ compiler_imports |-> <<Scope, Load("list", "unavailable_evidence")>>,
    compiler_flow |-> <<Lookup("definition"), Load("flow", "missing_evidence")>> ]

BodyHandlers ==
  [ compiler_dataflow |-> CompilerBody \o <<Analysis("reaching_definitions")>>,
    compiler_complexity |-> CompilerBody \o <<Analysis("complexity")>> ]

GraphHandlers ==
  [ graph_analysis |-> <<Neighborhood, Analysis("analyze_graph")>>,
    graph_path |-> <<Lookup("definition"), Neighborhood, Analysis("find_path")>> ]

\* impact is a neighborhood, trace_compare loads both sides.
ComparisonHandlers ==
  [ impact |-> <<Neighborhood>>,
    trace_compare |-> <<Scope, Scope, File("load", "missing_evidence"),
                        File("load", "missing_evidence"), Analysis("compare")>> ]

SourceHandlers == [ maintainability |-> SelectedSource \o <<Analysis("maintainability")>> ]
MachineHandlers == [ analyze |-> Infer ]

PrepareHandlers == [ prepare_snapshot |-> <<Step("prepare", "query", "fails", {"context_mismatch"})>> ]

PinHandlers ==
  [ pin_snapshot |-> <<Effect("pin", "context_mismatch")>>,
    unpin_snapshot |-> <<Effect("unpin", "context_mismatch")>> ]

ReviewHandlers ==
  [ reviews |-> Infer \o <<Reviewable, Load("list", "unavailable_evidence")>>,
    review |-> Infer \o <<Reviewable, Effect("validate", "invalid_query"),
                          Effect("pin", "context_mismatch"), Reviewable,
                          Load("record", "unavailable_evidence")>> ]

JobHandlers ==
  [ jobs |-> <<Effect("jobs", "analysis_unavailable")>>,
    submit_job |-> <<Effect("submit", "analysis_unavailable")>>,
    job |-> <<Effect("get", "not_found")>>,
    cancel_job |-> <<Effect("get", "not_found"), Effect("cancel", "analysis_unavailable")>> ]

\* The steps of every handler.
AllHandlers ==
  LookupHandlers @@ ObservationHandlers @@ CompilerHandlers @@ BodyHandlers @@ GraphHandlers
  @@ ComparisonHandlers @@ SourceHandlers @@ MachineHandlers @@ PrepareHandlers
  @@ PinHandlers @@ ReviewHandlers @@ JobHandlers
=============================================================================
