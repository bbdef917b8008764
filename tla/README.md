# Ferrum Atlas: specifications, model checking and proofs

Ferrum Atlas turns a Rust workspace into immutable, content-addressed snapshots
of facts and serves queries over them. This directory holds TLA+ modules for its
parts, the TLC configurations that check them on small instances, and proofs
checked by TLAPS.

Every definition is a translation of code under `src/`; `PROJECT.json` ("map")
names the lines.

## Components

| Component | State | Operations | What is hard | What makes it correct |
|---|---|---|---|---|
| Job scheduler, `crates/scheduler` | job table in memory, `jobs/journal.json`, one fence file per profile, `scheduler.lock`, `publication.lock`, `stop` flag, 32 events of each job | `start`, `submit`, `cancel`, `list`/`get`, the worker thread's `next_job` and `execute`, `publication_guard` (called by the child) | a service, its thread, its callers and its child processes interleave; two durable files are written one after the other; a crash leaves a child behind | a withdrawn generation never publishes; one analysis at a time; limits hold; every job ends once; an event's number means one event |
| Index command, `crates/cli/src/main.rs` | `index.lock`, the head it captured | index, import, export, evidence and compiler import, pin, gc, serve | reads the head minutes before it publishes; killed at any step | compare-and-swap on the head, one publisher inside the fence |
| Snapshot store, `crates/store/src/lib.rs`, `reader.rs`, `validate.rs` | object files, SQLite catalog (snapshots, heads), lease file `.store.lock`, the cache of verified shards | publish, open a reader, query, read a source | several processes; files and rows are separate writes; files are opened twice | a cataloged snapshot has all its objects, whatever was interrupted; what is read was verified |
| Retention, `crates/store/src/retention.rs` | pins, generations, `owned_objects`, `gc_runs` | pin, unpin, `gc_plan`, `gc_execute` | plan and execution are apart; execution stops half way | nothing that is retained or in use goes; cleanup can go on |
| Portable import and export, `crates/store/src/portable.rs` | the archive directory, a private directory while it is written | import, export | exports race and are killed; observations are imported meanwhile, and restored after the commit; an archive changes under its import | an archive is whole or not there; what is published and restored belongs together and stays until the restore ends |
| Watch, `crates/cli/src/watch.rs` | expected head, warm worker, socket, `facts.json` | request, response, restart of the worker, publish | two processes in lockstep, deadlines, 32 captures a session | an answer belongs to its request, unchanged facts are not published, the watch catches up and ends |
| Evidence, `crates/evidence` | one directory of objects per snapshot and kind, `.import.lock` | import, restore, record a review, list, read | interrupted imports leave temporary files; limits on objects and entries; loss of power | an object is there whole or not at all, and stays once answered for |
| Query server, `crates/server` | permits, event-stream permits, controls of each request | REST handlers, job events (SSE) | timeouts with the work going on, several controls a handler, replay after a reconnect, a trimmed event log | permits come back, partial answers say so, events arrive once and in order |
| Query engine, `crates/query` | none (snapshot reader; a key that signs cursors) | search, neighborhood, diff, source windows, flows | budgets of five kinds, pagination, a stop at any moment | pages join to the whole result; an answer that is not marked is complete |
| Analyses, `crates/analysis` | none | call-graph metrics and paths, reaching definitions, trace comparison, complexity, maintainability, state machines | fixed points and searches within budgets | agreement with the definitions, no claim from a cut search |
| Capture and build context, `crates/ingest` | none | walk, manifest, cfg evaluation | the tree is edited while it is walked | a capture is what the workspace held at one moment |
| Web client, `web/src/api/client.ts` | preparations that panes share, token, session | request, prepare, abort | callbacks and microtasks between awaits | shared work goes on exactly while somebody waits for it |
| Frontend `crates/frontend-ra`, compiler adapter `adapters/rustc`, data model `crates/model`, views of the web client, tools | | | | |

Interaction: `atlas serve --enable-jobs` owns a `Scheduler`; its thread spawns
`atlas index --job-id`, which takes `index.lock`, analyses in another child, takes
the publication guard and calls `Store::publish`. Readers in the server and all
other commands share the store's lease file; `atlas gc` takes it exclusively. The
scheduler and the store meet only in that `publish` call, so each has a module:
the scheduler's abstracts a publication to an assignment to `published`, the
store's lets several publishers race (an `atlas index`, a watch, an import).

A request passes `Server`, which runs one of the handlers of `RequestHandlers` on a
blocking thread; a handler opens a reader (`ShardReader`), asks the query engine
(`SearchPages`, `Neighborhood`, `SnapshotDiff`, `SourceWindow`), reads evidence
(`Evidence`) and hands what it got to an analysis (`CallGraph`,
`ReachingDefinitions`, `TraceAlignment`, `CompilerComplexity`). These calls are
synchronous and what they read is immutable, so each module stands for itself. What
crosses the calls, the control that stops a request and the mark that an answer was
cut, is in every one of them, and `Server` follows both through all the steps of a
handler. The web client's `Preparation` is in front of all of it.

## Modules

| Module | What it is | Code |
|---|---|---|
| `Scheduler` | the job queue: service, calls, thread, child processes, fence, journal | `scheduler`, `cli/src/main.rs` |
| `FencedPublication` | what it promises about publication: drawn, eligible and published generations | |
| `SchedulerProofs` | proofs about `Scheduler`: who publishes, and the refinement; the queue, its limits and its order | |
| `JobEvents` | the event log of a job and the streams that replay it | `scheduler`, `server/src/lib.rs` |
| `Store` | the store: publishers, readers, pins, observations, garbage collection | `store` |
| `SnapshotCatalog` | what it promises: a catalog of complete snapshots, compare-and-swap publication, removal of what nobody holds | |
| `StoreProofs` | proofs about `Store` | |
| `Ranking` | lemmas for all proofs: how many elements of a finite set rank behind one, induction over sets of numbers, steps that are iterated, growth in a finite set that ends | |
| `ShardReader`, `ShardReaderProofs` | opening a verified shard, with the cache of verifications; proofs, of `SearchPages` too | `store/src/lib.rs`, `reader.rs` |
| `Portable` | archives: racing exports, and imports of an archive that changes | `store/src/portable.rs`, `cli/src/main.rs` |
| `Capture` | the two walks that capture a workspace | `ingest/src/capture.rs` |
| `Watch`, `WatchProofs` | the supervisor and its warm worker; proofs | `cli/src/watch.rs` |
| `Evidence`, `EvidenceProofs` | the directories of imported evidence; proofs, of the four analyses too | `evidence` |
| `Server`, `RequestHandlers`, `ServerProofs` | admission and supervision of requests; the steps of every handler; proofs, of `Preparation` too | `server` |
| `SearchPages` | paged search and its cursors | `query/src/lib.rs`, `cursor.rs`, `store/src/reader.rs` |
| `Neighborhood` | the bounded walk over relations | `query/src/lib.rs`, `store/src/reader.rs` |
| `SnapshotDiff` | the comparison of two snapshots | `query/src/diff.rs` |
| `SourceWindow` | reading an archived source and cutting lines from it | `store/src/reader.rs`, `query/src/lib.rs` |
| `CallGraph` | paths and counts over a part of the call graph | `analysis/src/graph.rs`, `lib.rs` |
| `ReachingDefinitions` | the dataflow analysis of a compiler body | `analysis/src/dataflow.rs` |
| `TraceAlignment` | the comparison of two event windows | `analysis/src/trace.rs` |
| `CompilerComplexity` | the cyclomatic measure of a compiler body | `analysis/src/compiler_complexity.rs` |
| `Preparation` | the web client's shared verification of snapshots | `web/src/api/client.ts` |
| `ComponentProofs` | proofs about `JobEvents`, `Portable`, `Capture`, `Neighborhood`, `SourceWindow` and `SnapshotDiff` | |
| `MCScheduler`, `MCStore`, `MCWatch` | small instances | |
| `MCComponents`, `MCProgress` | small instances of all other modules, for safety and for liveness | |

Definitions whose comment starts with `mutant` or `Faulty` are no part of the
specification: each is a plausible wrong version of a definition that follows it,
which shows that a property can fail (`PROJECT.json`, "mutants").

### The composed instances

`MCComponents` and `MCProgress` give every module one or more instances, and one
behaviour runs one of them: `component` says which, the registers `r1`, `r2`, ... are
the variables of that instance in the order of its module, and the others stay
`None`. The components do not meet there; it is a way to check many small state
spaces in one run. A property of `MCComponents` is the property of the same name of one
module, for the behaviours that run it: `ImportsAreKept`, say, is `ImportsAreKept` of
`Evidence`, the conjunction of its four invariants. (`SearchPagesJoin` and `DataflowIsExact`
are conjunctions written in `MCComponents`.)
Each also has the inductive invariant the proofs rest on, so that TLC checks that
invariant too (but for the dataflow analysis, where comparing every state with the
executions of the body takes too long for the run), and the `ASSUME`s of `MCComponents` evaluate what the proofs assume of the
constants.

### Scheduler

`jobs`, `journal` and `fence` are the table in memory and the two kinds of files.
A `submit` is four steps: `SubmitArrives` (validation, `stop` is read with no lock
held), `SubmitAdmits` (both locks, the new table computed on a copy), `WriteFence`,
and `PersistCall` (journal renamed, memory replaced, locks dropped). `cancel` is
`Cancel` and the same last two. `CallFails` is either write failing, before or
after its rename. The thread is `Pick` (choice under the mutex, which is then
released), `BeginJob`, `SkipJob` or `LoseJob` (the first `update`), `Reap` or
`Abort` (the loop of `execute` with its `ChildGuard`), `FinishJob` (the second
`update`), `ReportProgress`, `UpdateFails` and `ThreadExits`. A child goes
started, locked (`index.lock`), guarded (`publication_guard`), committed, exited.
`Crash` ends the service at any step and leaves its child alive: the parent-death
signal may come at any later time (`ChildFails`).

Abstracted: ids, drawn from `/dev/urandom` in the code, are submission numbers
(the vector of jobs keeps that order); the event log, messages, timestamps,
progress content and snapshot ids are left out; deadlines and the 100 ms of
`fence_lock` are steps that may be taken at any time.

### Store

A snapshot and its shard share a name; a source file is an object that several
snapshots may use. Of a file only the identity (device, inode, size) is kept,
which `register_object` and the collector compare; a new file at a path may get
any identity, the old one included. A publisher is `Capture` (the head is read,
without the lease), `EnterPublish` (lease), `WriteObject` and `RegisterObject` for
each object with the shard last, `Commit` (the catalog transaction), and for an
import a further stage in which observations are restored under its own lease.
`PublisherEnds` is the end, an error or a crash at any step: leases go, files and
rows stay. The collector is `GcPlan`, `GcBegin` (the plan is computed again and
compared, rows go in one transaction), `GcUnlink` and `GcForget` for each object,
`GcComplete`, and `GcStops` at any step. `Reasons`, `Garbage` and `Computed` are
`gc_plan_locked`; a plan contains its retained snapshots with their reasons, as in
the code, so that any change of a reason makes it stale.

Abstracted: facts, their validation, checksums and the verification cache; the
five seconds a shared lease is waited for (a blocked process just waits); sequence
numbers of generations are kept, report contents are not; the collector takes the
objects of a plan in any order. The clock is the wall clock, which only moves
forward here.

### Watch

The supervisor's `phase` is where its loop is: polling, starting a worker, waiting
for an answer, publishing, ended. A `session` counts its captures and remembers the
last one; `requests`, `answers` and `facts` are the two directions of the socket and
`facts.json`. `StartSession` and `AcceptWorker`, `Request`, `ReceiveAnswer`,
`RequestFails` (deadline, cancellation, a dead worker, an answer that is not
acceptable), `Publish`, `PublishEnds` and `LeaveLoop` are the supervisor;
`WorkerConnects`, `WorkerReads`, `WorkerCaptures`, `WorkerAnalyzes`, `WorkerFails`,
`WorkerAnswers` and `WorkerDies` the worker; `Edit`, `OtherPublishes` and `Cancel` the
rest of the world. What a workspace contains stands for all that is derived from it
(source and context identity, facts, snapshot). Abstracted: the bytes of a frame, the
credentials of the socket, the quotas of the store (a step that may always end the
loop).

### JobEvents

One job, whose change is staged, renamed into the journal and shown (`RenameJournal`,
`Show`), while the mutex keeps readers out. The thread makes the changes of `next_job`:
`Pick` and later `Begin` (a job withdrawn in between is written as it is, an evicted one
ends the thread, `LoseJob`), `Poll` and later `Progress`, and `Finish`, whose outcome is
that of the child or, if `execute` fails, depends on a cancellation or a shutdown. Calls
make the others: `Cancel`, `Supersede` (which gives a job that is being cancelled a second
event), `Evict`, and `ChangeOther`, which writes this record again for another job.

`PersistFails` may hit every one of them, before the rename or after it, and what it means
is up to the maker of the change (`FailedUpdate`): the error goes back to the caller of a
call; that of a progress update makes `execute` fail, so that `Finish` records the job as
failed or cancelled, with an event of the number that was not shown, and the thread goes on;
that of the two updates of `next_job` itself ends the thread. `Shutdown` and `Exit` are the
drop of the last handle, `Crash` is the end without notice, `Restart` recovers from the
journal, and `RestartFails` gets as far as writing it. A client connects with the last
sequence it has, gets a slot, receives the log's events behind it (`Deliver`), and loses
its stream or sees it end. Progress texts are left out, and an event's stage.

### Server and RequestHandlers

`RequestHandlers` lists the steps of every route's handler. A step names the control
that stops it, what becomes of it when it is stopped, and its own errors. `Server` runs
them: `Refuse` is the first of the checks that fails (length, host, origin, token,
body), `Admit` takes a permit and starts the task, and from then on two things live:
the handler (`Receive`, `Timeout`, `Disconnect`), which cancels its controls when it
goes, and the task (`Succeed`, `Cut`, `Fail`, `StopStep`, `Panic`), which holds the
permit until it ends. `Expire` is a control's deadline. Of what a step computes only
the mark of a cut answer and the effects of reviews and pins are kept.

### Queries

`SearchPages`: `Search` is one call of `search`; the server keeps nothing between
pages, so `walk` is the client, with its cursor and how often it received each
definition. Rows come in the order of their keys, so that rows and pages are sets, and the
first rows are those with few before them; sizes are what the budgets count. `Restart`
gives the process a new key, `Tick` ages cursors, `Turn` presents a cursor to another query.
`Neighborhood`: `Expand` takes a definition from the queue and reads its rows, in the order
and up to the limit of the store; `PassRow` and `AddRow` are one relation each, with the
budgets in the order the code checks them; a root that alone exceeds the response is
refused (`RefuseRoot`: empty and marked); `Stop` may fall between any two of these steps.
The reference is the set of definitions by distance. `SnapshotDiff`: one `Compare` is one group of
definitions with the same structural key; the six compared fields are a version. Groups are
compared in the order of their keys, call sites are numbered, and changes and callers are sets.
`SourceWindow`: `Read` is a chunk, which may end inside a character; `Write` changes the
file and its version at any time; `Cut` is the window of lines. A byte is one of four
kinds.

### ShardReader and Evidence

`ShardReader` keeps the path apart from the files: `Identify`, `Lookup`, two reads of the
checksum, `Recheck`, `CheckPath`, `Remember`, then SQLite's `Connect` by path and
`CheckIdentity` in front of every `Query`, each a step, so that others may `Write` or
`Move` in between. It is assumed, as the code does, that a change of a file moves its
ctime. `Evidence` is one directory. An import lists it under the lock, writes, syncs and
renames its temporary file and syncs the directory; `Kill` leaves the temporary file,
`PowerLoss` loses names and contents that were not synced. The three kinds differ as in
the code: a review reads all objects first, a compiler import reads its object again.

### Portable and Capture

`Portable` has two stores and the directory between them. An export is `Begin` (nothing
is at the destination), `LockShared`, `Collect` for each observation, `Collected`,
`WriteArtifacts` and `SyncStaging` in its private directory, `Rename` without replacing,
`SyncParent`; `StoreObservation` comes between where the lock lets it. An import is
`OpenArchive` (the manifest), `ReadFile` for each name in it, `Publish` of what is
`Verified`, `Restore` for each observation, `AnswerImport`. `ExportFails` and
`ImportFails` are an error or a kill at any step, `PowerLoss` takes what was not synced,
`CopyFile` and `CopyManifest` change the archive as a copy from another one would. The
content of a file is the snapshot it belongs to, so that digests are equal exactly when
contents are. `Publish` is one step here; `Store` has its steps.

`Capture` is the walk in the order of names, which are numbers, each directory in front
of what it holds; `todo` is what the walk has in front of it: `Enter` lists a directory, `Open`,
`ReadPart` and `ReadRest` are a file, whose descriptor follows it when another file
takes its name; `Skip` and `Warn` are entries that are left out. `WalkAgain` begins the
second walk, `Accept` compares both and the root. `Edit` and `MoveRoot` come between any
two. It is assumed, as the code does, that a write to an open file moves its modification
time. The code's comment claims no transaction, so the property leaves out trees in which
a file looks again as it did (`returned`); that no file is torn holds for those too.

### Analyses

Each is the algorithm as the code runs it, a step for every unit of work at which the
control may stop it, and a reference definition. Budgets are constants or part of the
request.

`CallGraph` prepares the selection, then visits definitions from a queue; the path that was
found is followed back a call at a time, and calls are counted one at a time. Its references
are the least set of definitions closed under calls, and the numbers of calls of a walk to
the goal (`Leads`). `CompilerComplexity` has the blocks still to be visited as a set, as the
order in which a stack gives them up does not show; its reference is the number of choices,
beyond the first way on, of the blocks in the least set closed under edges that can run.
`TraceAlignment` compares with the occurrences of identifiers in the windows.
`ReachingDefinitions` joins what comes along the edges of a block into its successors until
nothing changes, then reports one point after another; its reference is the set of all
executions of the body, of one block more and one more until nothing new comes, with what
each has assigned last. It has one statement and a terminator in each block; the order of
edges is left out, as no result depends on it.

### Preparation

An action is what runs between two awaits of the client: the call, what is behind the
first await, the answer of a fetch, the microtask `Sweep`, an abort or its timer, the
answer. When the 30 s of a request that waits for preparations are over, those of its
scopes that were ready are prepared again; before its scopes are known there are none
(`Abort`). `entry` are the shared preparations, `order` the map with its order for
eviction: for every preparation in it, those in front of it. `epoch` is the session a
request was called in. The scopes a path asks about are an input, two at most; a request
that names one snapshot twice (a comparison of its own traces) is taken as naming it once,
while the code counts it as two users and takes both back.

## Runs

All runs set `CHECK_DEADLOCK FALSE`: with the bounds used up and nobody submitting
or publishing the systems rest, and an analysis is over when it has answered.

| Run | Shows | Bounds |
|---|---|---|
| `scheduler` | the inductive invariant, with the fence that admits its owner only; one analysis (`OneAnalysis`); the limits (`HistoryBounded`); `Scheduler` implements `FencedPublication` | two profiles, three requests (two of one profile that differ), three submissions, history 2, queue 1, one crash |
| `scheduler_faults` | a withdrawn generation never commits (`SupersededNeverPublishes`), heads advance (`PublicationsAdvance`), one active job of a profile, running jobs are supervised, terminal statuses are final | one profile, three submissions, history 2, one crash and one failed write |
| `scheduler_live` | `NoOvertaking`, and `AcceptedFinishes` under fairness | two profiles, three submissions, history 4: nothing is evicted |
| `scheduler_evict` | `AcceptedFinishes` fails when a picked job is evicted | history 2 |
| `store_recovery` | the inductive invariant, `UnlinksOnlyGarbage` | one publisher, two snapshots without sources, two identities, three publications, two collections |
| `store_retention` | `RetentionHonoured` | three snapshots in two scopes, policies (keep 1, grace 1) and (additional root), clock 0..1 |
| `store_publishers` | `CatalogIntact`, and `Store` implements `SnapshotCatalog` | two publishers, a shared source file, three publications, one collection |
| `store_readers` | `ReadersKeepSnapshots`, and the refinement with readers | a reader, a publisher that may import, a pin, two publications |
| `store_cleanup` | `CleanupCanFinish` fails | as `store_recovery` |
| `components` | the safety of all other modules, see below | in `MCComponents`, at each instance |
| `progress` | `WatchEnds`, `WatchCatchesUp`, `EventsReachTheEnd`, `RequestsEnd`, `WalksEnd` under fairness | in `MCProgress`: the instances of `components`, or smaller |
| `watch_reset` | `ResetAfterSuccesses` fails | two captures a session, two contents and one that cannot be analysed |

The properties of `components`:

| Property | Says | Instance |
|---|---|---|
| `WatchPublishesFresh` | supervisor and worker agree on number, capture and end of a session; an answer is about the workspace after its request; nothing is published twice | three contents, one broken; 3 captures a session; 2 failures in a row; others publish, worker dies |
| `EventsAreReplayed` | one event for a number; what was seen is durable; nothing kept is missed; slots are streams | two clients, log of 2, jobs changed until their third event, two faults; one client and a fourth event, for the second withdrawal of one job |
| `TasksAreSupervised` | permits are those of running tasks; a task nobody waits for is told | two requests, one permit |
| `AnswersAreHonest` | a cut answer says so; a stop is not told as corruption; a stored review has its pin | every route alone; two requests with reviews and pins |
| `SearchPagesJoin` | pages join to the whole result; cursors lead on, stale ones are refused | all subsets of four definitions, limits 1 and 2, both budgets binding, two ages, a restart |
| `NeighborhoodIsWhole` | an unmarked answer is the whole neighborhood; no relation dangles | all graphs of three definitions and three relations, one and three relations in an answer, rows and bytes binding |
| `DiffIsExact` | unmarked changes turn the old side into the new one; only unique keys are modified; callers are complete | two keys, two versions, two callers, 3 changes, 2 rows |
| `WindowIsTrue` | a window is text of the snapshot, at the place asked for | all files of up to 4 bytes, chunks of 2, one write |
| `ShardsAreVerified` | the cache never vouches for a bad file; a reader reads what was verified | two threads, two files, one change, one cached shard |
| `CapturesAreReal` | a capture is the workspace at one moment; no file of it is torn | two files, a symlink, an ignored entry and a directory; two contents, one of them not text; three edits; both limits reached |
| `ArchivesAreWhole` | an archive is a complete export, and stays once answered for; an import mixes no snapshots and is complete | two exporters, two observations, a loss of power; an import and two changes of the archive |
| `ImportsAreKept` | limits, whole objects and durable answers under kills and a loss of power; leftovers are counted | two importers, two objects, limit 1, four entries |
| `DataflowIsExact` | uses are exactly what executions show | three blocks, two locals, moves, drops, unknown memory, suspension, unwinding; three fact limits |
| `CallGraphIsCertain` | a path is a shortest one; a negative answer is a fact; counts are of all calls | all graphs of three definitions and calls, some outside the selection |
| `AlignmentIsRight` | the anchor is unique in both windows, the divergence first, intervals elapsed | streams of up to three events with repeated and blank identifiers |
| `ComplexityIsOfTheBody` | the number is McCabe's and of the whole body | four blocks with every kind of terminator, valid and not |
| `PreparationsAreShared` | nobody is cancelled by another pane; users are counted; nothing runs for nobody; one preparation a scope | two requests with a common scope, room for two, four fetches, one change of session |

Why these bounds: a fence can be wrong only between an older and a newer
generation of one profile, with a second profile for the shared locks and a third
submission for what follows; one crash leaves one orphan, and one fault separates
fence from journal. Failed writes are left to
`scheduler_faults`: `scheduler` injects none, and that `FenceInvariant` and the
refinement survive them is what `SchedulerProofs` shows. In the store two snapshots suffice for a head to move away
from one that then becomes garbage; a third publication republishes it after a
collection, and two collections are needed for a plan after an interrupted one.
For any number of them there are the proofs. The instances of `components` are the
smallest in which each budget, limit and fault takes effect and something follows
it: a log of two events that drops its first, a page cut by the response and not by
its limit, a loop whose second round adds a definition. The analyses and queries are
compared with their references on all inputs of that size, or, where those are too
many, on a set that has every construct in every position that matters. Their lists
are in `MCComponents`; larger inputs are not covered.

### Fairness

`scheduler_live` and `scheduler_evict` assume weak fairness of the thread's steps
together (the operating system runs the thread, and `execute` has a deadline, so
`Abort` is enabled while a child neither exits nor fails) and of the two writes of a
call that holds the locks. Nothing is assumed of clients, of children, or of crashes;
the property speaks of jobs while the service is up.

`progress` assumes:

- of `Watch`, the supervisor's steps together and the worker's steps together: both
  are processes the system schedules, and every wait of the supervisor has a deadline
  and polls the cancellation. Nothing is assumed of edits or other publishers.
- of `JobEvents`, that a change under the mutex is completed (`RenameJournal`, `Show`),
  that the thread goes on with what it has picked or polled (`Begin` or `LoseJob`,
  `Progress`), that `execute` returns (`Finish`: it has a deadline and polls for a
  cancellation), that a service which is shut down exits and one that went down is
  started again, and that each client goes on connecting and reading until it has seen
  the end. Nothing is assumed of `Pick` and `Poll`, nor of calls. `LoseStream`, failed
  writes, shutdowns and crashes are bounded by `MaxFaults`, otherwise no client need
  ever get through. `EventsReachTheEnd` says of clients that they learn the end, and of
  an execution that it is recorded, also when an update of its progress fails; after a
  failed update of `next_job` there is no thread left to record it, and it waits for a
  restart.
- of `Server`, for each request, `Expire` and `Timeout` (clocks run), `Receive` (the
  runtime polls its futures) and `Cut` or `StopStep` (a stopped step looks at its
  control). Nothing is assumed of a step that no control stops, which is why
  `RequestsEnd` promises an end of the task only for handlers made of stoppable steps.
- of `SearchPages`, that the client asks for its next page.

### What the code does differently from its documentation

- `scheduler_evict`: `next_job` picks a job, releases the mutex, and looks the job
  up again in `update`. If a submission in between withdraws it and drops it from a
  full history, `update` fails with "unknown job", the loop takes that for a fatal
  error and the only worker thread ends. Jobs accepted meanwhile stay queued.
  `docs/operations/compiler-and-jobs.md:55-58` says that a newer request supersedes
  the older one and that contention never waits indefinitely. It takes a full
  history of 128 entries in which the picked job is the oldest that is terminal (a
  background job that waited while foreground jobs came and went).
- `store_cleanup`: execution of a plan unlinks a file and then deletes its
  registration. If it stops in between and the same content is published again, the
  new file has another inode; `register_object` refuses it, the publication fails,
  and from then on planning refuses the object too ("garbage object identity
  changed"). `docs/operations/retention.md:50-53` says to make and execute a new
  plan to finish the cleanup; none can be made. Retained snapshots stay readable,
  which `CatalogIntact` confirms.
- `watch_reset`: `Session::capture` counts a request before it is sent, and a worker
  that answers with a failure may keep its session. A session is replaced after 32
  requests; `docs/operations/compiler-and-jobs.md:81-82` says after 32 successful
  captures. Supervisor and worker count alike (`PeersAgree` of `Watch`), so it does no harm.

## Proofs

The theorems hold for all values of the constants that satisfy the named
assumptions. Those of `Scheduler` and `Store` (requests name profiles with a numeric
priority; limits are numbers and the queue is shorter than the history; snapshots
and files are distinct; the placeholder `None` is none of the values it stands
beside) are `ASSUME`s of these modules. Those of the components are hypotheses of
their theorems, which TLC evaluates on the instances of `MCComponents`. (That numbers are
numbers, limits too, and that placeholders are none of the values they stand beside, is part
of each where it applies.)

| Hypothesis | Asks |
|---|---|
| `ShardsAssumption`, `WatchAssumption`, `EvidenceAssumption`, `PortableAssumption`, `SourceAssumption` | no more than that, and a cache of one shard and a session of one request at least |
| `HandlersAssumption` | that every route is `Careful` (below), and every defect of a request has a refusal |
| `EventsAssumption` | finitely many clients; a log of two events at least (the code has 32) |
| `CaptureAssumption` | that names are numbers and a directory comes in front of what it holds |
| `NeighborhoodAssumption` | depths up to 4 and limits of at least one, as `neighborhood` clamps or refuses them; finitely many relations |
| `PreparationAssumption` | two scopes at most in a request, finitely many requests |
| `SearchAssumption` | finitely many definitions that differ in name or identifier, as the key of the table does; budgets may be anything |
| `DiffAssumption` | room for one row of call sites at least (the code has 201) |
| `TraceAssumption` | streams of events with clocks that are numbers; windows of an event and an anchor at least |
| `ComplexityAssumption` | finitely many blocks, and an unwind action that is one of the compiler's |
| `CallGraphAssumption` | finitely many definitions and calls |
| `DataflowAssumption` | finitely many blocks and locals, block 0 among them, and effects on locals of the body; edges may lead anywhere |

The bounds on submissions, crashes, publications and the like are constants too, so they
can be any number.

Each component states what it promises under one name, and the theorem with that name and
`Holds` at its end proves it: `ArchivesAreWhole` and `ArchivesAreWholeHolds`, say, which is
the definition that `components` checks through the instances of `MCComponents`. The parts
have theorems of their own. The promise of `Watch` is an invariant and two action
properties (`WatchIsConsistent`, `FreshAndNew`); `MCComponents` writes the latter again
for the behaviours that are the watch's.

### The job queue

`SchedulerProofs`. `FenceInvariant` is inductive. `FenceAdmitsOwner` alone is not:
that a process inside the commit is the one its fence names needs that
`publication.lock` has one holder (`LockIsExclusive`), that an id a submission drew
is used nowhere before its fence is written (`IdsAreFresh`, `DrawnIsFresh`), and
that no fence is older than what memory or the journal hold (`FenceFits`), which
also survives a write that fails between the two files, because the fence is
written first. `ThreadHasJob` and `QueuedHasNoProcess` say that no job is started
twice; `PublishedIsPast` that what was published came from a process that is past
its publication. From it follow, with one lemma each for the steps that matter,
`SupersededNeverPublishesHolds`, `PublicationsAdvanceHolds`, `OneAnalysisHolds`
(with the invariant's help: only `LockIndex` enters the index lease) and
`ImplementsFencedPublication`, the step simulation of `FencedPublication`.

The second half of the module is about the queue. `QueueInvariant` adds to it what holds of the tables of jobs. The
properties alone are not inductive, because a call computes its table on a copy and
writes it two steps later: `CallFollows` says what the copy may differ in from memory
(only the thread changes memory meanwhile), `JournalKeepsOutcomes` that a journal which
is ahead after a failed write contradicts no outcome, `PickIsFirst` what is still true
of the job that was picked. `OneActive` and the limits are required of the copy as well.
The counting is in two places. What a submission leaves queued is what other profiles
have queued and the new job (`AdmittedWithinLimits`), and `Admissible` asks that there be
fewer of the former than the limit. And the history has room for a submission that is
admissible (`RoomForAdmissible`): the jobs that are not over are those and the one the
thread works on (`RunningIsSupervised`), and the queue is shorter than the history. That
the eviction drops exactly as many as it must (`OldestCount`) rests on
`LowestCount` of `Ranking`. From it follow `OneActivePerProfileHolds`,
`HistoryBoundedHolds`, `RunningIsSupervisedHolds`, `TerminalIsFinalHolds` and
`NoOvertakingHolds`.

The proof corrected the first idea of `PickIsFirst`, that no queued job has a better
priority than the picked one. It is not inductive: a younger job of a better priority may
be submitted between the choice and the start, and the code starts the picked one all
the same. With a queue of one, TLC could not show it. `NoOvertaking` therefore speaks of
older jobs, as does the invariant.

### The store

`StoreProofs`. `StoreInvariant` is inductive. `CatalogIntact` needs that a publisher
has written and registered what it is done with (`WrittenSoFar`), that neither
registrations nor files go away while it works (`LeaseIsExclusive`), and that what
a collector has left belongs to no row (`CollectsGarbage`), which `PlanIsGarbage`
shows of every plan. `LeftIsRegistered` adds that the collector unlinks only what is
registered, as it was planned. From it follow `CatalogIntactHolds`,
`ReadersKeepSnapshotsHold` and `UnlinksOnlyGarbageHolds`, and, with the mapping of
publishers and readers to users, `ImplementsSnapshotCatalog`, the step simulation.

`RetentionInvariant` adds that generations have numbers of their own and that a plan
stands for one of the policies. A plan keeps the newest rows of every scope, as many as
the policy says: by `LowestCount` of `Ranking`, a row with that many newer ones has the
newest of them among the rows that stay (`NewestStay`), which is
`RetentionHonouredHolds`. The plan may be long out of date when it is used, so the
property rests on `GcBegin` computing it anew under the exclusive lease and comparing it.

### Readers, watch, evidence and server

`ShardReaderProofs`. The argument is about clocks. Every change of a file gives it a
change time that no earlier moment had, and an identity in the cache is not from the
future (`ClocksAdvance`), so an identity that is equal before and after a checksum, or in
the cache and now, means that nothing happened between. `KnowsItsFile` says for each stage of an opener which half of the file it has
seen intact under the identity it holds, and `CachedOnce` that the cache has no two
entries of one file and identity. `Inserted` is written as the function of positions
that the proof needs; that it drops one entry at most, as `retain` does, is `CachedOnce`.
From it follow `CacheIsSoundHolds` and `ReadersAreVerifiedHolds`. The second half of the
module is about pages, below.

`WatchProofs`. `WatchInvariant` says where the one request of a session is while the
supervisor waits: unread (`Requested`), with the worker (`Working`), answered
(`Answered`), or lost with the worker (`Lost`). In each case the number, the remembered
capture and `facts.json` fit the request, and the workspace the answer will be about is
in `seen`. Both sides count a request at the same moment of the protocol, also a failed
one, so a worker leaves by itself only when the supervisor would replace it. From it
follow `PeersAgreeHolds`, `PreviousIsPublishedHolds`, `AnswersAreFreshHolds` and
`NoRepublishHolds`.

`EvidenceProofs`, first part. Only the holder of the lock changes the directory, so what it knows is
stable: `KnowsTheDirectory` says that its object is absent and that there is room until
it renames, that the temporary file is as far as the stage says, and that nothing is
volatile when it answers. Others are in front of the lock and know nothing. A kill or a
loss of power leaves one temporary file at most, the holder's. From it follow
`LimitIsHeldHolds`, `PromisedIsDurableHolds`, `ObjectsAreWholeHolds` and
`InterruptionsAreCountedHolds`.

`ServerProofs`. The theorems are about every table of handlers that is `Careful`: a
step that stores, validates or pins is reached only through a check of the inference
with no step that may be cut behind it (`WholeBefore`), a load that can be stopped is
stopped by the control of the analysis, and only a review records, behind its pin. TLC
evaluates this on the handlers of the code (`AllHandlers`). `ServerInvariant` says of a
running task that it holds a permit and that, if it is cut, it passed a step that was
cut and no check since (`CutSince`); of a recording one, that the pin it set is there or
given back (`HasPinned`). A step touches one request, the permits and the pin, and the
pin is only ever given back by a client, so the others keep what is true of them. From it
follow `PermitsAccountedHolds`, `OrphansAreToldHolds`, `NoSilentCutHolds`,
`StopIsNotCorruptionHolds` and `ReviewsArePinnedHolds`.

The types of the server are a theorem as well (`TypesHold`), which is more than it looks: an
answer's code is one of the code's refusals, stops or failures only if every handler names
no other (`Reported`) and what a step was told is what its control can say (`ToldIsSaid`).
The attempt showed that the model's `SUBSET Defects \ {{}}` was read in two ways, by TLC as
the sets of defects other than the empty one and by the prover as the sets of what is a
defect and not the empty set; it has parentheses now.

### The client's preparations

Second half of `ServerProofs`. `PreparationInvariant` is inductive. `MapIsKept` says that
the map holds at most one preparation of a scope and at most `Capacity` of them, that
`order` is an order on it, that everything in it runs or is ready, and that everything that
runs is in it unless it was aborted; `WaitsAreKept` that a request waits only
while it runs, for preparations that exist, and that an aborted one was aborted by the end
of the session it was called in. `UsersAreCounted` is arithmetic over sets: a
request that joins or leaves changes the users of each scope it names by one, and of the
others not at all, which is where the bound of two scopes is used (`Mapped`, `Less`,
`More`). The eviction drops the oldest idle preparation, which exists by `FirstCount` of
`Ranking`. From it follow `CancelledByOwnSessionHolds`, `UsersAreCountedHolds`,
`SharedWhileItRunsHolds`, `NothingAbandonedHolds` and `NobodyForgottenHolds`.

### Events, archives and captures

`ComponentProofs`.

*Events.* `EventInvariant` says that the journal is what is in memory or the change that was
being made when it was last written (`IsNext`), also after a failed write, whoever made it; that a log's
numbers follow each other (`WellNumbered`); and of the journal and of memory alike that
whatever was delivered is in the log or older than its first event (`Holds`), in order and
without gaps as long as nothing was dropped (`InOrder`). A change that fails keeps its
number for the next one, as when the event of a failed progress update is followed by the
one that finishes the job, so that two events of one number can be imagined: that no client
saw the first needs that readers see memory only while nothing is staged. From it follow `OneEventPerSequenceHolds`,
`DeliveredIsDurableHolds`, `NothingMissedHolds` and `SlotsAreHeldHolds`.

*Archives.* `ExportKeeps` says that an export which collects holds the lock, so that the
store does not grow meanwhile and what it has collected in the end is what the store held
at one moment, and that what it renames is complete and synced; `DestinationKeeps` that
what is at the destination was synced, and stays once the directory was; `ImportKeeps` that what an import has
read has the digests of the manifest it has read, wherever the archive went meanwhile. From
it follow `ArchiveIsWholeHolds`, `AnsweredExportStaysHolds`, `ImportsBelongTogetherHolds` and
`ImportIsWholeHolds`.

*Captures.* `CaptureInvariant` has to say what two walks can know of one moment. `Decided(D)`
says that the walk has dealt with the names of `D`. `Between(t, D)`, in the second walk, is
about a moment `t` between the walks: a file that the first walk saw otherwise than it was
at `t` has changed before, and is not what it was, as no file is changed back; so the second walk, once it has
dealt with that file, has seen it otherwise as well. When it has dealt with everything and the
two walks agree, there is no such file, and `t` is the moment that was captured.
`ReadingKeeps` is the same for the file that is open. From it follow
`CaptureIsOneMomentHolds` and `FilesAreRealHolds`.

### Queries

Second half of `ShardReaderProofs` (pages) and of `ComponentProofs`.

*Pages.* `SearchInvariant` says that a cursor of the walk stands behind exactly what the
client received, and that with a cursor of another walk, or none, nothing was received yet
(`CursorIsOfTheWalk`). A page is the beginning of what lies behind the cursor: rows by
`FirstCount`, and what fits the response because it is cut in front of the first row that
does not. Its last row then splits the result again into what was received and what is
behind. One row more than the limit was read, so that a page without a cursor and without a
mark had room for all. From it follows `SearchPagesJoinHolds`, with the action properties that
cursors lead on (`CursorsAdvance`) and stale ones are not followed (`StaleIsRefused`).
Budgets and sizes may be anything, a response budget of nothing included.

*Neighborhoods.* `CompleteUnlessTruncated` compares a search with a definition by distance. The
proof is by levels of the breadth-first walk (`ByLevel`): while nothing was cut, the first
part of the queue lies at the level the walk is at and the rest one further, the
definitions nearer than that were expanded, those of the level were or are queued, and so
is what every relation of the answer leads to. At the end the level is the depth, for
otherwise there would be a nearest definition that was missed (`HasLeast` of `Ranking`).
The rows of a definition are the first ones in the store's order, one more than there is
room for, and `FirstCount` says how many that are: enough to notice that something is left
out. As depths go to four, the definitions within a distance are unfolded five times;
nothing is assumed of the size of the graph. From it follow `ResponseIsClosedHolds` and
`CompleteUnlessTruncatedHolds`.

*Source windows.* `SourceInvariant` says that what was read is text in whole characters and
at most the first byte of another, wherever chunks and writes of others split it, and that
lines are cut only from text whose digest was the archive's. Lines are counted as sets of
line ends, of which there is one for each number (`LineEnds`); a window from one line end to
another is whole characters, because a line end is no part of one, and one that is too long
is cut a byte earlier at most. From it follows `WindowIsTrueHolds`.

*Comparison.* `ChangesAreOfGroups` says that changes are those of the groups compared so far,
and of all groups in the end unless the answer says otherwise; groups have different keys, so
taking away and adding group by group gives the new side. Call sites are numbered, and a
read of fewer rows than its limit has them all, so callers are complete or the answer is
marked. From it follows `DiffIsExactHolds`.

### Analyses

Further parts of `EvidenceProofs`. In each the reference is what the code computes stated
without the order in which it does.

*Traces.* An index of identifiers holds of the part of a window that was read which of them
occurred and how often (`IndexesArePrefixes`); only where both scans came to the end of their
windows is an identifier that occurred once unique, so that a stopped scan aligns nothing.
What was compared so far is equal (`ComparedIsEqual`), the first pair that differs is the
divergence, and times that never go backwards from one event to the next never do
(`TimesGrow`). From it follows `AlignmentIsRightHolds`.

*Complexity.* A search that is over has visited the least set that has the entry and is closed
under the edges that can run: what was visited is a part of every closed set, and with no block
left is closed itself (`SearchIsOfTheBody`). The counts are of the blocks counted so far
(`CountsAreOfBlocks`), and the number of choices is the number of pairs of a block and one of
its ways beyond the first (`ChoicesAdd`). The attempt found the reference wrong, not the code: it counted
an unwinding that the compiler marks as unreachable as a way out of the function. From it
follows `ComplexityIsOfTheBodyHolds`.

*Call graph.* `ByLevel` is the invariant of breadth-first search: the queue goes by distance
and spans two levels. A walk of fewer calls than the head of the queue is away passes only
definitions that were visited (`WalksAreFound`), so that the goal, when it comes to the head, has no shorter
walk. A search that ends in a selection no call leaves has visited the least closed set
(`SearchIsReachable`), which is what makes a negative answer a fact. The path is followed back
along calls that lead from one level nearer, and its length and what is left of the distance
are constant (`PathSoFar`). Counts are of the calls counted so far (`CountsSoFar`). From it
follows `CallGraphIsCertainHolds`, for any graph, selection, limits and stops.

*Dataflow.* Two facts meet. Nothing is known of a block that executions do not show: they
assign, and come together, as the analysis does it to what is known (`ShownOfChanged`,
`AlongShown`, `JoinIs`). And what a block contributes has reached its successors, unless the block is
to be visited again (`SolutionGrows`). So when no block is left, what is known is closed under
steps, every execution is covered by it, and known and shown are the same (`SolvedAtLast`).
Executions are the union of those of n blocks for growing n. That union stands still after
finitely many n, as there are finitely many configurations (`GrowthEnds` of `Ranking`), which
makes it a closed set that a proof can use although it is defined by recursion. The report
then lists the uses of the points it has passed (`ReportGrows`), and what an execution brings
to a use was assigned at a point of a block that can run, which is why every assignment named
in a use is listed. From it follows `DataflowIsExactHolds`, for any body, budgets and
moments at which the control stops it.

### Model-checked only

- Liveness, which is out of the prover's reach: `AcceptedFinishes` and the properties of
  `progress`.
- The promises of the handlers of the code are proved for every table that is `Careful`; that
  the code's table is careful is evaluated, as it is one table.
- What a recursive definition computes for every input is out of reach as well. Where a
  reference is recursive (the executions of a body, the walks of a call graph, the distances
  of a neighborhood) the proofs use what they need of it: that it is closed under one more
  step. Induction over a set of numbers is provable from counting (`SetInduction` and
  `HasLeast` of `Ranking`), and serves for that.

## Not modelled, and what is left

- Fact validation (`store/src/validate.rs`): independent checks of one batch, without
  state.
- Maintainability and the inference of state machines: pattern matching over the syntax
  tree of one file. The handlers that call them and the reviews that are stored are in
  `RequestHandlers` and `Evidence`.
- The build context (`ingest/src/context.rs`), the frontend and the compiler adapter:
  they translate what was captured, or another program's trees, once and keep no state.
  `Watch` takes the outcome as a content that can be analysed or not.
- In modelled parts: the count limits and read failures of a retention plan, first-time
  registration of an older store, strongly connected components (the work of
  `petgraph`) and distributions, call sites, flows and subgraph selection of the query
  engine, the loss counts of a trace, the fields of an evidence bundle, disk quotas,
  the byte limits and formats of archives and captures, the bodies of answers and static
  files.
- The data model (types), the views of the web client, benchmarks and release tools.

Worth adding: the distributions and flows of the analyses, and the planning limits of
retention.

## Running

```sh
tlc -workers 2 -config MCScheduler.cfg MCScheduler.tla
tlc -workers 2 -config MCStoreRecovery.cfg MCStore.tla
tlc -workers 2 -config MCComponents.cfg MCComponents.tla
tlc -workers 2 -config MCProgress.cfg MCProgress.tla
tlc -workers 2 -config MCWatchReset.cfg MCWatch.tla
for m in Ranking SchedulerProofs StoreProofs ShardReaderProofs WatchProofs \
         EvidenceProofs ServerProofs ComponentProofs; do tlapm $m.tla; done
```
