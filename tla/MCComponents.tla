---------------------------- MODULE MCComponents -----------------------------
(***************************************************************************)
(* The components around the scheduler and the store, each on its own, for *)
(* TLC: one behaviour runs one component.  The registers hold the variables *)
(* of the component that runs, in the order of its module; the others stay *)
(* unused.  The comment at an instance says what its bounds make happen.   *)
(***************************************************************************)
EXTENDS Naturals, Sequences, RequestHandlers

CONSTANTS None, Exited, Unlimited   \* model values: no value, and two of Watch

VARIABLES component,
          r1, r2, r3, r4, r5, r6, r7, r8, r9, r10, r11, r12, r13, r14, r15, r16,
          r17, r18, r19, r20, r21, r22

vars == <<component,
          r1, r2, r3, r4, r5, r6, r7, r8, r9, r10, r11, r12, r13, r14, r15, r16,
          r17, r18, r19, r20, r21, r22>>

\* Registers that a component has no use for.
Spare17 == <<r18, r19, r20, r21, r22>>
Spare14 == <<r15, r16, r17, Spare17>>
Spare13 == <<r14, Spare14>>
Spare12 == <<r13, Spare13>>
Spare11 == <<r12, Spare12>>
Spare10 == <<r11, Spare11>>
Spare9 == <<r10, Spare10>>
Spare8 == <<r9, Spare9>>
Spare4 == <<r5, r6, r7, r8, Spare8>>
Idle17 == r18 = None /\ r19 = None /\ r20 = None /\ r21 = None /\ r22 = None
Idle14 == r15 = None /\ r16 = None /\ r17 = None /\ Idle17
Idle13 == r14 = None /\ Idle14
Idle12 == r13 = None /\ Idle13
Idle11 == r12 = None /\ Idle12
Idle10 == r11 = None /\ Idle11
Idle9 == r10 = None /\ Idle10
Idle8 == r9 = None /\ Idle9
Idle4 == r5 = None /\ r6 = None /\ r7 = None /\ r8 = None /\ Idle8

-----------------------------------------------------------------------------
(* What the components are given. *)

\* Four definitions, two of one name, one larger than a response.
FewCandidates == {[name |-> 1, id |-> 2, size |-> 1], [name |-> 1, id |-> 3, size |-> 2],
                  [name |-> 2, id |-> 1, size |-> 2], [name |-> 3, id |-> 4, size |-> 5]}
NamePrefixes == {{1, 2, 3}, {1, 2}}

\* Bodies of three blocks with loops, calls, joins, suspensions, edges that no
\* execution takes and edges that are not sound.
Pure == [defs |-> {}, uses |-> {}, moves |-> {}, dead |-> {}, unknown |-> FALSE]
Reading == [Pure EXCEPT !.uses = {0, 1}]
Copy == [Pure EXCEPT !.uses = {1}, !.defs = {0}]
Move == [Pure EXCEPT !.moves = {1}, !.defs = {0}]
Store == [Pure EXCEPT !.defs = {1}, !.unknown = TRUE]
Drop == [Pure EXCEPT !.uses = {0}, !.dead = {0}]
To(t, k) == [target |-> t, kind |-> k]
Block(stmt, effects, edges, returns, suspends) ==
  [statement |-> stmt, effects |-> effects, edges |-> edges, returns |-> returns, suspends |-> suspends]
First == {Block(s, Pure, {To(1, "normal"), To(2, k)}, {1}, FALSE) :
            s \in {Move, Store}, k \in {"unwind", "switch", "imaginary"}}
Second == {Block(s, f, {To(t, "switch")}, {}, p) :
             s \in {Copy, Move, Drop}, f \in {Reading, Pure}, t \in {0, 2}, p \in BOOLEAN}
          \cup {Block(Reading, Pure, {To(1, "normal"), To(3, "normal")}, {0}, FALSE)}
Third == {Block(s, Reading, e, {0}, FALSE) :
            s \in {Store, Drop, Move},
            e \in {{}, {To(1, "normal")}, {To(0, "switch"), To(1, "normal")}}}
FlowBodies == {[b \in 0..2 |-> IF b = 0 THEN x ELSE IF b = 1 THEN y ELSE z] :
                 x \in First, y \in Second, z \in Third}

\* Short streams with repeated, missing and blank identifiers and with clocks
\* that go backwards.
Event(kind, anchor, time) == [kind |-> kind, anchor |-> anchor, time |-> time]
Launch == Event("launch", "b", 0)
Traced == {Event("launch", "a", 3), Event("launch", "b", 2), Event("copy", "b", 1), Event("copy", None, 2)}
Pairs == UNION {[1..n -> Traced] : n \in 1..2}
BeforeTraces == Pairs \cup {<<x, Launch, y>> : x \in Traced, y \in {Event("launch", "a", 3), Event("copy", "", 2)}}
AfterTraces == Pairs \cup {<<Event("copy", "", 2), x, Event("launch", "a", 3)>> : x \in Traced}

\* Bodies of four blocks with every kind of terminator, well formed and not.
Goes(kind, t) == [kind |-> kind, target |-> t, value |-> None]
Case(value, t) == [kind |-> "switch_value", target |-> t, value |-> value]
Ends(kind, edges, unwind) == [kind |-> kind, edges |-> edges, unwind |-> unwind]
Continue == [kind |-> "continue"]
Terminate == [kind |-> "terminate"]
Unreachable == [kind |-> "unreachable"]
Cleanup(t) == [kind |-> "cleanup", target |-> t]
Leaves == {Ends("return", <<>>, None), Ends("unwind_terminate", <<>>, Terminate),
           Ends("goto", <<Goes("normal", 0)>>, None), Ends("inline_asm", <<>>, Continue)}
Terminators == [b \in 0..3 |->
  CASE b = 0 -> {Ends("switch_int", <<Case(1, 1), Case(2, 1), Goes("otherwise", 2)>>, None),
                 Ends("switch_int", <<Case(1, 1), Case(1, 3), Goes("otherwise", 2)>>, None),
                 Ends("call", <<Goes("normal", 1), Goes("unwind", 2)>>, Cleanup(2)),
                 Ends("call", <<Goes("normal", 1), Goes("unwind", 2)>>, Cleanup(3)),
                 Ends("goto", <<Goes("normal", 1)>>, None),
                 Ends("false_unwind", <<Goes("normal", 1), Goes("unwind", 3)>>, Cleanup(3)),
                 Ends("yield", <<Goes("resume", 1), Goes("coroutine_drop", 3)>>, None)}
    [] b = 1 -> {Ends("assert", <<Goes("normal", 2)>>, Continue), Ends("call", <<>>, Terminate),
                 Ends("false_edge", <<Goes("normal", 3), Goes("imaginary", 2)>>, None),
                 Ends("false_unwind", <<Goes("normal", 0)>>, Continue),
                 Ends("drop", <<Goes("normal", 2), Goes("coroutine_drop", 3)>>, Continue),
                 Ends("goto", <<Goes("normal", 4)>>, None), Ends("goto", <<Goes("normal", 1)>>, None)}
    [] b = 2 -> Leaves \cup {Ends("call", <<Goes("normal", 3)>>, Continue), Ends("unknown", <<>>, None),
                             Ends("goto", <<Goes("normal", 2)>>, None), Ends("call", <<Goes("normal", 3)>>, Unreachable)}
    [] b = 3 -> Leaves \cup {Ends("switch_int", <<Case(7, 1), Goes("otherwise", 2)>>, None)}]

\* A directory of every kind of entry, two of them files that are captured.
SourceTree == [n \in 1..5 |->
  CASE n = 1 -> [parent |-> 0, kind |-> "source"]
    [] n = 2 -> [parent |-> 0, kind |-> "directory"]
    [] n = 3 -> [parent |-> 2, kind |-> "manifest"]
    [] n = 4 -> [parent |-> 2, kind |-> "symlink"]
    [] n = 5 -> [parent |-> 0, kind |-> "other"]]

\* Handlers with and without a control of their own, and those of state reviews.
Of(routes) == [route \in routes |-> AllHandlers[route]]
AllDefects == {"long_uri", "invalid_host", "invalid_origin", "cross_site", "unknown_route", "no_token",
               "large_body", "malformed_body", "job_request", "no_scheduler"}
CrowdHandlers == Of({"graph_analysis", "search"})
ReviewPinHandlers == Of({"review", "unpin_snapshot"})

-----------------------------------------------------------------------------
(* The components. *)

Search == INSTANCE SearchPages WITH
  Candidates <- FewCandidates, Queries <- NamePrefixes, MaxLimit <- 2, ReadBudget <- 6,
  ResponseBudget <- 4, Lifetime <- 1, MaxTime <- 2, MaxEpoch <- 2, data <- r1, epoch <-
  r2, now <- r3, walk <- r4

Neighbors == INSTANCE Neighborhood WITH
  Nodes <- 1..3, Relations <- 1..3, MaxNodes <- {2, 3}, MaxEdges <- {1, 3}, Depths <- {2},
  RowBudget <- 2, ByteBudget <- 5, source <- r1, target <- r2, request <- r3, nodes <-
  r4, edges <- r5, queue <- r6, visited <- r7, rows <- r8, depth <- r9, bytes <- r10,
  truncated <- r11, stopped <- r12, state <- r13

Diff == INSTANCE SnapshotDiff WITH
  Keys <- 1..2, Versions <- 1..2, Callers <- 1..2, MaxSide <- 2, MaxChanges <- 3,
  MaxRows <- 2, MaxCallers <- 1, old <- r1, new <- r2, calls <- r3, groups <- r4,
  changes <- r5, impact <- r6, truncated <- r7, state <- r8

Dataflow == INSTANCE ReachingDefinitions WITH
  Blocks <- 0..2, Locals <- 0..1, Arguments <- {1}, Bodies <- FlowBodies, FactLimits <-
  {4, 20, 40}, MaxIterations <- 6, body <- r1, max_facts <- r2, entries <- r3, worklist
  <- r4, iterations <- r5, at <- r6, flow <- r7, output_facts <- r8, result <- r9,
  stopped <- r10, state <- r11

Trace == INSTANCE TraceAlignment WITH
  BeforeStreams <- BeforeTraces, AfterStreams <- AfterTraces, Offsets <- {0, 2},
  MaxEvents <- {3}, MaxAnchors <- {1, 2}, Absent <- None, Blank <- "", before <- r1,
  after <- r2, request <- r3, before_map <- r4, after_map <- r5, start <- r6, compared
  <- r7, matching <- r8, divergence <- r9, interval <- r10, truncated <- r11, stopped <-
  r12, state <- r13

Complexity == INSTANCE CompilerComplexity WITH
  Terminators <- Terminators, BlockLimits <- {3, 4}, EdgeLimits <- {6, 12}, NoValue <-
  None, NoUnwind <- None, term <- r1, max_blocks <- r2, max_edges <- r3, graph <- r4,
  stack <- r5, reached <- r6, counted <- r7, runtime_edges <- r8, excluded <- r9,
  exit_sites <- r10, metrics <- r11, stopped <- r12, truncated <- r13, state <- r14

Path == INSTANCE CallGraph WITH
  Definitions <- 1..3, Calls <- 1..3, Selections <- {1..3}, Starts <- {1}, Goals <- {3,
  0}, NodeLimits <- {3}, EdgeLimits <- {3}, VisitLimits <- {3}, DepthLimits <- {2},
  InputCuts <- {FALSE}, Modes <- {"path"}, source <- r1, target <- r2, selection <- r3,
  request <- r4, nodes <- r5, edges <- r6, sites <- r7, frontier <- r8, partial <- r9,
  truncated <- r10, queue <- r11, visited <- r12, distance <- r13, previous <- r14,
  counted <- r15, outgoing <- r16, incoming <- r17, outcome <- r18, path <- r19,
  relations <- r20, stopped <- r21, state <- r22

Metrics == INSTANCE CallGraph WITH
  Definitions <- 1..3, Calls <- 1..3, Selections <- {{1, 3}}, Starts <- {1}, Goals <-
  {3}, NodeLimits <- {2}, EdgeLimits <- {2, 3}, VisitLimits <- {3}, DepthLimits <- {2},
  InputCuts <- {FALSE}, Modes <- {"metrics"}, source <- r1, target <- r2, selection <-
  r3, request <- r4, nodes <- r5, edges <- r6, sites <- r7, frontier <- r8, partial <-
  r9, truncated <- r10, queue <- r11, visited <- r12, distance <- r13, previous <- r14,
  counted <- r15, outgoing <- r16, incoming <- r17, outcome <- r18, path <- r19,
  relations <- r20, stopped <- r21, state <- r22

Source == INSTANCE SourceWindow WITH
  MaxBytes <- 4, Chunk <- 2, SourceBytes <- 3, MaxLines <- 2, MaxWrites <- 1, archived
  <- r1, file <- r2, version <- r3, request <- r4, opened <- r5, text <- r6, pending <-
  r7, position <- r8, window <- r9, state <- r10

Imports == INSTANCE Evidence WITH
  Importers <- {"p", "q"}, Objects <- {"a", "b"}, MaxObjects <- 1, MaxEntries <- 4,
  MaxKills <- 2, MaxPowerLosses <- 1, None <- None, kind <- r1, content <- r2, volatile
  <- r3, lockfile <- r4, holder <- r5, stage <- r6, object <- r7, temporary <- r8,
  leaked <- r9, kills <- r10, losses <- r11, promised <- r12, listing <- r13

Shards == INSTANCE ShardReader WITH
  Openers <- {"t", "u"}, Inodes <- {"i", "j"}, MaxChanges <- 1, VerifiedShards <- 1,
  None <- None, intact <- r1, ctime <- r2, at <- r3, changes <- r4, cache <- r5, stage
  <- r6, file <- r7, identity <- r8, cached <- r9, digest_ok <- r10, connection <- r11

Client == INSTANCE Preparation WITH
  Requests <- {"p", "q"}, Scopes <- {"s", "t", "u"}, Asks <- [p |-> {"s", "t"}, q |->
  {"t", "u"}], Tokens <- {"x", "y"}, Capacity <- 2, MaxFetches <- 4, MaxSwitches <- 1,
  token <- r1, session <- r2, switches <- r3, order <- r4, entry <- r5, fetches <- r6,
  sweeps <- r7, stage <- r8, sent <- r9, epoch <- r10, clears <- r11, waits <- r12

Crowd == INSTANCE Server WITH
  Requests <- {"a", "b"}, MaxQueries <- 1, Handlers <- CrowdHandlers, Defects <-
  {"no_token"}, request <- r1, handler <- r2, answer <- r3, task <- r4, live <- r5,
  permits <- r6, pinned <- r7, reviewed <- r8, released <- r9

Reviews == INSTANCE Server WITH
  Requests <- {"a", "b"}, MaxQueries <- 2, Handlers <- ReviewPinHandlers, Defects <- {},
  request <- r1, handler <- r2, answer <- r3, task <- r4, live <- r5, permits <- r6,
  pinned <- r7, reviewed <- r8, released <- r9

Watching == INSTANCE Watch WITH
  Contents <- {"a", "b", "x"}, Broken <- {"x"}, None <- None, Exited <- Exited,
  Unlimited <- Unlimited, Iterations <- Unlimited, MaxCaptures <- 3, MaxFailures <- 2,
  Flaky <- TRUE, workspace <- r1, head <- r2, phase <- r3, expected <- r4, session <-
  r5, batch <- r6, failures <- r7, iterations <- r8, cancelled <- r9, worker <- r10,
  requests <- r11, answers <- r12, facts <- r13, seen <- r14

Events == INSTANCE JobEvents WITH
  Clients <- {"c", "d"}, None <- None, MaxEvents <- 2, MaxStreams <- 2, MaxEmitted <- 3,
  MaxFaults <- 2, job <- r1, journal <- r2, pending <- r3, stop <- r4, thread <- r5, permits <- r6,
  after <- r7, received <- r8, emitted <- r9, faults <- r10

\* One client of a job with more changes: superseded while it is being cancelled.
LongJob == INSTANCE JobEvents WITH
  Clients <- {"c"}, None <- None, MaxEvents <- 2, MaxStreams <- 1, MaxEmitted <- 4,
  MaxFaults <- 2, job <- r1, journal <- r2, pending <- r3, stop <- r4, thread <- r5, permits <- r6,
  after <- r7, received <- r8, emitted <- r9, faults <- r10

Handlers == INSTANCE Server WITH
  Requests <- {"a"}, MaxQueries <- 1, Handlers <- AllHandlers, Defects <- AllDefects,
  request <- r1, handler <- r2, answer <- r3, task <- r4, live <- r5, permits <- r6,
  pinned <- r7, reviewed <- r8, released <- r9

Exports == INSTANCE Portable WITH
  Exporters <- {"e", "f"}, Observations <- {"a", "b"}, Foreign <- "c", MaxCopies <- 0,
  MaxFaults <- 1, None <- None, stored <- r1, locked <- r2, stage <- r3, seen <- r4,
  bundles <- r5, staging <- r6, archive <- r7, settled <- r8, promised <- r9, copies <-
  r10, faults <- r11, importer <- r12, want <- r13, got <- r14, published <- r15,
  restored <- r16, answered <- r17

Restores == INSTANCE Portable WITH
  Exporters <- {"e"}, Observations <- {"a"}, Foreign <- "c", MaxCopies <- 2, MaxFaults
  <- 0, None <- None, stored <- r1, locked <- r2, stage <- r3, seen <- r4, bundles <-
  r5, staging <- r6, archive <- r7, settled <- r8, promised <- r9, copies <- r10, faults
  <- r11, importer <- r12, want <- r13, got <- r14, published <- r15, restored <- r16,
  answered <- r17

Capturing == INSTANCE Capture WITH
  Entries <- SourceTree, Contents <- {"a", "b"}, Unreadable <- {"b"}, Missing <-
  "missing", MaxFiles <- 2, MaxEntries <- 5, MaxEdits <- 3, content <- r1, root <- r2,
  edits <- r3, state <- r4, pass <- r5, todo <- r6, reading <- r7, seen <- r8, entries
  <- r9, first <- r10, moments <- r11, returned <- r12

Crammed == INSTANCE Capture WITH
  Entries <- SourceTree, Contents <- {"a", "b"}, Unreadable <- {"b"}, Missing <-
  "missing", MaxFiles <- 1, MaxEntries <- 4, MaxEdits <- 2, content <- r1, root <- r2,
  edits <- r3, state <- r4, pass <- r5, todo <- r6, reading <- r7, seen <- r8, entries
  <- r9, first <- r10, moments <- r11, returned <- r12

-----------------------------------------------------------------------------
\* What the proofs about the components assume of their constants.
ASSUME Search!SearchAssumption /\ Neighbors!NeighborhoodAssumption /\ Source!SourceAssumption /\ Trace!TraceAssumption /\ Diff!DiffAssumption
ASSUME Complexity!ComplexityAssumption /\ Path!CallGraphAssumption /\ Metrics!CallGraphAssumption /\ Dataflow!DataflowAssumption
ASSUME Shards!ShardsAssumption /\ Watching!WatchAssumption /\ Imports!EvidenceAssumption
ASSUME Crowd!HandlersAssumption /\ Reviews!HandlersAssumption /\ Handlers!HandlersAssumption
ASSUME Capturing!CaptureAssumption /\ Crammed!CaptureAssumption
ASSUME Client!PreparationAssumption /\ Events!EventsAssumption /\ LongJob!EventsAssumption /\ Exports!PortableAssumption /\ Restores!PortableAssumption

-----------------------------------------------------------------------------
Init ==
  \/ component = "search" /\ Search!Init /\ Idle4
  \/ component = "neighborhood" /\ Neighbors!Init /\ Idle13
  \/ component = "diff" /\ Diff!Init /\ Idle8
  \/ component = "dataflow" /\ Dataflow!Init /\ Idle11
  \/ component = "trace" /\ Trace!Init /\ Idle13
  \/ component = "complexity" /\ Complexity!Init /\ Idle14
  \/ component = "path" /\ Path!Init
  \/ component = "metrics" /\ Metrics!Init
  \/ component = "source" /\ Source!Init /\ Idle10
  \/ component = "evidence" /\ Imports!Init /\ Idle13
  \/ component = "shards" /\ Shards!Init /\ Idle11
  \/ component = "client" /\ Client!Init /\ Idle12
  \/ component = "handlers" /\ Handlers!Init /\ Idle9
  \/ component = "crowd" /\ Crowd!Init /\ Idle9
  \/ component = "reviews" /\ Reviews!Init /\ Idle9
  \/ component = "watch" /\ Watching!Init /\ Idle14
  \/ component = "events" /\ Events!Init /\ Idle10
  \/ component = "job" /\ LongJob!Init /\ Idle10
  \/ component = "exports" /\ Exports!Init /\ Idle17
  \/ component = "restores" /\ Restores!Init /\ Idle17
  \/ component = "capture" /\ Capturing!Init /\ Idle12
  \/ component = "crammed" /\ Crammed!Init /\ Idle12

StepSearch == component = "search" /\ Search!Next /\ UNCHANGED <<component, Spare4>>
StepNeighbors == component = "neighborhood" /\ Neighbors!Next /\ UNCHANGED <<component, Spare13>>
StepDiff == component = "diff" /\ Diff!Next /\ UNCHANGED <<component, Spare8>>
StepDataflow == component = "dataflow" /\ Dataflow!Next /\ UNCHANGED <<component, Spare11>>
StepTrace == component = "trace" /\ Trace!Next /\ UNCHANGED <<component, Spare13>>
StepComplexity == component = "complexity" /\ Complexity!Next /\ UNCHANGED <<component, Spare14>>
StepPath == component = "path" /\ Path!Next /\ UNCHANGED component
StepMetrics == component = "metrics" /\ Metrics!Next /\ UNCHANGED component
StepSource == component = "source" /\ Source!Next /\ UNCHANGED <<component, Spare10>>
StepImports == component = "evidence" /\ Imports!Next /\ UNCHANGED <<component, Spare13>>
StepShards == component = "shards" /\ Shards!Next /\ UNCHANGED <<component, Spare11>>
StepClient == component = "client" /\ Client!Next /\ UNCHANGED <<component, Spare12>>
StepHandlers == component = "handlers" /\ Handlers!Next /\ UNCHANGED <<component, Spare9>>
StepCrowd == component = "crowd" /\ Crowd!Next /\ UNCHANGED <<component, Spare9>>
StepReviews == component = "reviews" /\ Reviews!Next /\ UNCHANGED <<component, Spare9>>
StepWatching == component = "watch" /\ Watching!Next /\ UNCHANGED <<component, Spare14>>
StepEvents == component = "events" /\ Events!Next /\ UNCHANGED <<component, Spare10>>
StepJob == component = "job" /\ LongJob!Next /\ UNCHANGED <<component, Spare10>>
StepExports == component = "exports" /\ Exports!Next /\ UNCHANGED <<component, Spare17>>
StepRestores == component = "restores" /\ Restores!Next /\ UNCHANGED <<component, Spare17>>
StepCapturing == component = "capture" /\ Capturing!Next /\ UNCHANGED <<component, Spare12>>
StepCrammed == component = "crammed" /\ Crammed!Next /\ UNCHANGED <<component, Spare12>>

Next ==
  \/ StepSearch \/ StepNeighbors \/ StepDiff \/ StepDataflow \/ StepTrace
  \/ StepComplexity \/ StepPath \/ StepMetrics \/ StepSource \/ StepImports
  \/ StepShards \/ StepClient \/ StepHandlers \/ StepCrowd \/ StepReviews
  \/ StepWatching \/ StepEvents \/ StepJob \/ StepExports \/ StepRestores
  \/ StepCapturing \/ StepCrammed

Spec == Init /\ [][Next]_vars

-----------------------------------------------------------------------------
(* Properties. *)

\* query, search and cursor: pages that a client follows by their cursors join to the
\* whole result, with nothing skipped or repeated; a cursor leads onward, and one of an
\* earlier process or of too long ago is never followed.
SearchPagesJoin ==
  /\ [](component = "search" => Search!SearchInvariant)
  /\ [][component = "search" => Search!Advances /\ Search!Current]_vars

\* query, neighborhood: the ends of every relation of a response are in it, and a
\* response that says nothing of a cut has all of the neighborhood.
NeighborhoodIsWhole ==
  component = "neighborhood" => Neighbors!NeighborhoodIsWhole

\* query, diff: the changes turn the old definitions into the new ones, only what
\* is unique on both sides is called modified, and every caller is listed.
DiffIsExact ==
  component = "diff" => Diff!DiffIsExact

\* analysis, dataflow: a finished solution lists for every use exactly what some
\* execution brings there.
DataflowIsExact ==
  component = "dataflow" => Dataflow!TypeOK /\ Dataflow!UsesAreExact /\ Dataflow!DefinitionsAreListed

\* analysis, trace: streams are aligned where nothing else could be meant, the
\* divergence is the first, and intervals are elapsed times.
AlignmentIsRight ==
  component = "trace" => Trace!AlignmentIsRight

\* analysis, compiler_complexity: a number is the number of choices, and it is
\* given of whole, well-formed bodies only.
ComplexityIsOfTheBody ==
  component = "complexity" => Complexity!ComplexityIsOfTheBody

\* analysis, graph: a path that is found is a shortest one, "no path" is said only
\* where there is none, and calls are counted once at either end.
CallGraphIsCertain ==
  /\ component = "path" => Path!CallGraphIsCertain
  /\ component = "metrics" => Metrics!CallGraphIsCertain

\* query and store, source: what a window shows is the text of the snapshot, at the
\* place that was asked for, although others write to the file.
WindowIsTrue ==
  component = "source" => Source!WindowIsTrue

\* ingest, capture: what is captured of a workspace that is edited, added to or replaced
\* meanwhile is what it contained at one moment, as far as two walks can tell.
CapturesAreReal ==
  /\ component = "capture" => Capturing!CapturesAreReal
  /\ component = "crammed" => Crammed!CapturesAreReal

\* store, export and import: an archive is whole whichever exports are killed or race,
\* and an import of one that is changed under it mixes no snapshots.
ArchivesAreWhole ==
  /\ component = "exports" => Exports!ArchivesAreWhole
  /\ component = "restores" => Restores!ArchivesAreWhole

\* evidence: concurrent and interrupted imports keep the limit, the files whole,
\* the promises durable and the leftovers bounded.
ImportsAreKept ==
  component = "evidence" => Imports!ImportsAreKept

\* store, verified_shard: a reader's file was verified as it is, also when the
\* verification was remembered.
ShardsAreVerified ==
  component = "shards" => Shards!ShardsAreVerified

\* web client, preparations: a shared preparation is neither dropped while one
\* waits for it nor kept running for nobody.
PreparationsAreShared ==
  component = "client" => Client!PreparationsAreShared

\* server, handlers: a cut answer says so, a stopped analysis is not reported as
\* corrupt evidence, and a state review is stored with the pin of its snapshot.
AnswersAreHonest ==
  /\ component = "handlers" => Handlers!AnswersAreHonest
  /\ component = "reviews" => Reviews!AnswersAreHonest

\* server, perform: permits are held by the tasks that run, and a task nobody waits
\* for is told.
TasksAreSupervised ==
  component = "crowd" => Crowd!TasksAreSupervised

\* watch: supervisor and worker agree on what was captured and published; an iteration
\* shows what the workspace contained after its request, and nothing is published twice
\* (Watching!WatchPublishesFresh of the behaviours that are the watch's).
WatchPublishesFresh ==
  /\ [](component = "watch" => Watching!WatchIsConsistent)
  /\ [][component = "watch" => Watching!FreshAndNew]_vars

\* scheduler and server, job events: a sequence number means one durable event, no
\* client misses one that is kept, and slots are held by streams.
EventsAreReplayed ==
  /\ component = "events" => Events!EventsAreReplayed
  /\ component = "job" => LongJob!EventsAreReplayed
=============================================================================
