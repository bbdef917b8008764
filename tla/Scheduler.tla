------------------------------ MODULE Scheduler ------------------------------
(***************************************************************************)
(* The durable job queue of crates/scheduler: one service process that     *)
(* admits, supersedes and cancels indexing jobs, its single worker thread, *)
(* and the `atlas index` child processes it spawns, which publish under a  *)
(* fence file.  The service can crash at any step and be started again     *)
(* while a child of the earlier process is still alive.                    *)
(*                                                                         *)
(* A job id is drawn from /dev/urandom; here it is the number of the       *)
(* submission, so the order of ids is the order of the vector the code     *)
(* keeps (push at the end, removal keeps the order).  The event log of a   *)
(* job, its message and its timestamps are left out.                       *)
(***************************************************************************)
EXTENDS Integers, FiniteSets

CONSTANTS
  Profiles,     \* workspace profiles
  Requests,     \* the JobRequests clients may send
  NoRequest,    \* the request of an id that was never submitted
  MaxJobs,      \* bound: submissions that reach the queue
  MaxHistory,   \* MAX_HISTORY
  MaxQueued,    \* SchedulerConfig::max_queued
  MaxCrashes,   \* bound: crashes of the service
  MaxFaults     \* bound: failed writes of the fence or the journal

ASSUME RequestsAssumption ==
  \A r \in Requests : r.profile \in Profiles /\ r.priority \in Nat
ASSUME NoRequestAssumption == NoRequest \notin Requests
ASSUME MaxJobsAssumption == MaxJobs \in Nat
\* The code has MAX_HISTORY = 128 and SchedulerConfig::validate keeps
\* max_queued within 1..32.
ASSUME LimitsAssumption ==
  /\ MaxHistory \in Nat
  /\ MaxQueued \in Nat \ {0}
  /\ MaxQueued < MaxHistory
ASSUME BudgetAssumption == MaxCrashes \in Nat /\ MaxFaults \in Nat

JobIds == 1 .. MaxJobs
Terminal == {"cancelled", "succeeded", "failed"}
Live == {"queued", "running", "cancelling"}
Statuses == Live \cup Terminal \cup {"absent"}
JobTables == [JobIds -> Statuses]

\* The content of a fence file that lets no job publish: "cancelled", or no
\* file at all (publication_guard fails on both).
NoGeneration == 0

Alive == {"started", "locked", "guarded", "committed"}
Indexing == {"locked", "guarded", "committed"}   \* holds index.lock
Publishing == {"guarded", "committed"}           \* holds publication.lock
ChildStates == Alive \cup {"none", "ok", "err"}

Idle == [stage |-> "idle"]
Calls == [stage : {"fence", "journal"}, profile : Profiles,
          generation : {NoGeneration} \cup JobIds, jobs : JobTables]

VARIABLES
  service,    \* "down", "up", or "draining" once the last handle is dropped
  stop,       \* Inner::stop
  jobs,       \* Inner::jobs (while "down": what the dead process last held)
  request,    \* the JobRequest each id was submitted with
  nextId,     \* the next id
  waiting,    \* a submit that has read `stop` and waits for the locks
  call,       \* the submit or cancel that holds publication.lock and the mutex
  journal,    \* jobs/journal.json
  fence,      \* jobs/fences/<profile>.json
  thread,     \* the "atlas-scheduler" thread
  cur,        \* the job it works on, 0 for none
  result,     \* what execute() returned for it
  child,      \* the process spawned for each job
  published,  \* the job whose snapshot was last published for a profile
  crashes,
  faults

memory == <<jobs, request, nextId>>
threadVars == <<thread, cur, result>>
budgets == <<crashes, faults>>
vars == <<service, stop, jobs, request, nextId, waiting, call, journal, fence,
          thread, cur, result, child, published, crashes, faults>>

TypeOK ==
  /\ service \in {"down", "up", "draining"}
  /\ stop \in BOOLEAN
  /\ jobs \in JobTables
  /\ request \in [JobIds -> Requests \cup {NoRequest}]
  /\ nextId \in 1 .. MaxJobs + 1
  /\ waiting \in Requests \cup {NoRequest}
  /\ call \in {Idle} \cup Calls
  /\ journal \in JobTables
  /\ fence \in [Profiles -> {NoGeneration} \cup JobIds]
  /\ thread \in {"off", "idle", "picked", "executing", "closing", "dead"}
  /\ cur \in {0} \cup JobIds
  /\ result \in {"none", "ok", "err"}
  /\ child \in [JobIds -> ChildStates]
  /\ published \in [Profiles -> {NoGeneration} \cup JobIds]
  /\ crashes \in 0 .. MaxCrashes
  /\ faults \in 0 .. MaxFaults

Init ==
  /\ service = "down"
  /\ stop = FALSE
  /\ jobs = [i \in JobIds |-> "absent"]
  /\ request = [i \in JobIds |-> NoRequest]
  /\ nextId = 1
  /\ waiting = NoRequest
  /\ call = Idle
  /\ journal = [i \in JobIds |-> "absent"]
  /\ fence = [p \in Profiles |-> NoGeneration]
  /\ thread = "off"
  /\ cur = 0
  /\ result = "none"
  /\ child = [i \in JobIds |-> "none"]
  /\ published = [p \in Profiles |-> NoGeneration]
  /\ crashes = 0
  /\ faults = 0

-----------------------------------------------------------------------------
(* Helpers on a job table *)

With(table, statuses) == {i \in JobIds : table[i] \in statuses}
Retained(table) == With(table, Live \cup Terminal)
OfProfile(p) == {i \in JobIds : request[i] # NoRequest /\ request[i].profile = p}

\* What superseding or cancelling makes of a job that is not terminal.
WithdrawnAtOnce(status) == "cancelled"                             \* mutants
WithdrawnLater(status) == "cancelling"
Withdrawn(status) == IF status = "queued" THEN "cancelled" ELSE "cancelling"

SupersededQueued(p) ==                                             \* mutant
  [i \in JobIds |-> IF jobs[i] = "queued" /\ i \in OfProfile(p) THEN "cancelled" ELSE jobs[i]]
Superseded(p) ==
  [i \in JobIds |-> IF jobs[i] \in Live /\ i \in OfProfile(p)
                    THEN Withdrawn(jobs[i]) ELSE jobs[i]]

\* The n smallest elements of S.
Oldest(S, n) == {i \in S : Cardinality({j \in S : j < i}) < n}

\* The loop that removes the oldest terminal job until there is room for one
\* more; it fails when Excess(table) terminal jobs do not exist.
Excess(table) == Cardinality(Retained(table)) + 1 - MaxHistory
HasRoom(table) == Cardinality(With(table, Terminal)) >= Excess(table)
Evicted(table) ==
  [i \in JobIds |-> IF i \in Oldest(With(table, Terminal), Excess(table))
                    THEN "absent" ELSE table[i]]

\* start() fails every job that the journal holds as not terminal.
RecoveredRunning(table) ==                                         \* mutant
  [i \in JobIds |-> IF table[i] \in {"queued", "running"} THEN "failed" ELSE table[i]]
Recovered(table) ==
  [i \in JobIds |-> IF table[i] \in Live THEN "failed" ELSE table[i]]

\* min_by_key(|(index, job)| (priority, index)) over the queued jobs.
BeforeByPriority(i, j) == request[i].priority <= request[j].priority  \* mutant
Before(i, j) ==
  \/ request[i].priority < request[j].priority
  \/ request[i].priority = request[j].priority /\ i <= j
NextQueued == {i \in With(jobs, {"queued"}) :
                 \A j \in With(jobs, {"queued"}) : Before(i, j)}

MutexFree == call = Idle
FenceFree == call = Idle /\ \A i \in JobIds : child[i] \notin Publishing

-----------------------------------------------------------------------------
(* Service process: start, shutdown, crash *)

Start ==
  /\ service = "down"
  /\ service' = "up"
  /\ stop' = FALSE
  /\ jobs' = Recovered(journal)
  /\ journal' = Recovered(journal)
  /\ thread' = "idle" /\ cur' = 0 /\ result' = "none"
  /\ UNCHANGED <<request, nextId, waiting, call, fence, child, published, budgets>>

\* persist() in start() renames the journal, then fails: no service comes up.
StartFails ==
  /\ service = "down" /\ faults < MaxFaults
  /\ journal' = Recovered(journal)
  /\ faults' = faults + 1
  /\ UNCHANGED <<service, stop, memory, waiting, call, fence, threadVars, child,
                 published, crashes>>

\* The last Scheduler handle is dropped: no call can be in progress.
Shutdown ==
  /\ service = "up" /\ waiting = NoRequest /\ call = Idle
  /\ service' = "draining"
  /\ stop' = TRUE
  /\ UNCHANGED <<memory, waiting, call, journal, fence, threadVars, child,
                 published, budgets>>

\* The thread was joined; dropping Inner releases scheduler.lock.
ServiceExit ==
  /\ service = "draining" /\ thread = "dead"
  /\ service' = "down"
  /\ thread' = "off"
  /\ UNCHANGED <<stop, memory, waiting, call, journal, fence, cur, result, child,
                 published, budgets>>

\* The process dies; the kernel releases its locks.  Its child lives on until
\* the parent-death signal reaches it (ChildFails).
Crash ==
  /\ service # "down" /\ crashes < MaxCrashes
  /\ service' = "down"
  /\ waiting' = NoRequest
  /\ call' = Idle
  /\ thread' = "off" /\ cur' = 0 /\ result' = "none"
  /\ crashes' = crashes + 1
  /\ UNCHANGED <<stop, memory, journal, fence, child, published, faults>>

-----------------------------------------------------------------------------
(* submit() and cancel() *)

\* submit() has validated the request and read `stop`; it holds no lock yet.
SubmitArrives(r) ==
  /\ service = "up" /\ ~stop /\ waiting = NoRequest /\ nextId <= MaxJobs
  /\ waiting' = r
  /\ UNCHANGED <<service, stop, memory, call, journal, fence, threadVars, child,
                 published, budgets>>

\* An identical job is queued or running: its record is returned.
Coalesces(r) == \E i \in With(jobs, {"queued", "running"}) : request[i] = r

QueuedElsewhere(p) == With(jobs, {"queued"}) \ OfProfile(p)

AdmissibleOneMore(r) ==                                            \* mutant
  /\ ~Coalesces(r)
  /\ Cardinality(QueuedElsewhere(r.profile)) <= MaxQueued
  /\ HasRoom(Superseded(r.profile))
Admissible(r) ==
  /\ ~Coalesces(r)
  /\ Cardinality(QueuedElsewhere(r.profile)) < MaxQueued
  /\ HasRoom(Superseded(r.profile))

\* The table with the new job: older work of its profile is withdrawn, the
\* history is trimmed, and the job is pushed.
Admitted(r, id) == [Evicted(Superseded(r.profile)) EXCEPT ![id] = "queued"]

\* Both locks are taken, the new table is computed on a copy.
SubmitAdmits ==
  /\ waiting # NoRequest /\ FenceFree /\ nextId <= MaxJobs
  /\ Admissible(waiting)
  /\ call' = [stage |-> "fence", profile |-> waiting.profile, generation |-> nextId,
              jobs |-> Admitted(waiting, nextId)]
  /\ request' = [request EXCEPT ![nextId] = waiting]
  /\ nextId' = nextId + 1
  /\ waiting' = NoRequest
  /\ UNCHANGED <<service, stop, jobs, journal, fence, threadVars, child, published,
                 budgets>>

\* The call returns without a change: coalesced, queue or history full, or
\* 100 ms passed without the publication lock.
SubmitReturns ==
  /\ waiting # NoRequest
  /\ FenceFree => ~Admissible(waiting)
  /\ waiting' = NoRequest
  /\ UNCHANGED <<service, stop, memory, call, journal, fence, threadVars, child,
                 published, budgets>>

\* cancel() of a job that is queued or running; of any other job it changes
\* nothing.  The job is looked up again under both locks.
Cancel(i) ==
  /\ service = "up" /\ FenceFree
  /\ jobs[i] \in {"queued", "running"}
  /\ call' = [stage |-> "fence", profile |-> request[i].profile,
              generation |-> NoGeneration,
              jobs |-> [jobs EXCEPT ![i] = Withdrawn(jobs[i])]]
  /\ UNCHANGED <<service, stop, memory, waiting, journal, fence, threadVars, child,
                 published, budgets>>

\* write_fence(), shared by submit and cancel.
WriteFence ==
  /\ call.stage = "fence"
  /\ fence' = [fence EXCEPT ![call.profile] = call.generation]
  /\ call' = [call EXCEPT !.stage = "journal"]
  /\ UNCHANGED <<service, stop, memory, waiting, journal, threadVars, child,
                 published, budgets>>

\* persist(), then the table in memory is replaced and both locks are dropped.
PersistCall ==
  /\ call.stage = "journal"
  /\ journal' = call.jobs
  /\ jobs' = call.jobs
  /\ call' = Idle
  /\ UNCHANGED <<service, stop, request, nextId, waiting, fence, threadVars, child,
                 published, budgets>>

\* Either write fails, before the rename or after it (fsync of the directory):
\* the call returns an error and memory keeps the old table.
CallFails ==
  /\ call # Idle /\ faults < MaxFaults
  /\ \/ UNCHANGED <<fence, journal>>
     \/ /\ call.stage = "fence"
        /\ fence' = [fence EXCEPT ![call.profile] = call.generation]
        /\ UNCHANGED journal
     \/ /\ call.stage = "journal"
        /\ journal' = call.jobs
        /\ UNCHANGED fence
  /\ call' = Idle
  /\ faults' = faults + 1
  /\ UNCHANGED <<service, stop, memory, waiting, threadVars, child, published, crashes>>

-----------------------------------------------------------------------------
(* The worker thread: next_job() and execute() *)

\* The table after the first and the second update() of next_job().
Begun == IF jobs[cur] = "queued" THEN [jobs EXCEPT ![cur] = "running"] ELSE jobs
Outcome ==
  IF result = "ok" THEN "succeeded"
  ELSE IF jobs[cur] = "cancelling" \/ stop THEN "cancelled" ELSE "failed"
Finished == [jobs EXCEPT ![cur] = Outcome]

\* The job is chosen under the mutex, which is released before update().
Pick ==
  /\ thread = "idle" /\ ~stop /\ MutexFree
  /\ \E i \in NextQueued : cur' = i
  /\ thread' = "picked"
  /\ UNCHANGED <<service, stop, memory, waiting, call, journal, fence, result, child,
                 published, budgets>>

BeginJob ==
  /\ thread = "picked" /\ MutexFree /\ jobs[cur] = "queued"
  /\ jobs' = Begun /\ journal' = Begun
  /\ thread' = "executing"
  /\ child' = [child EXCEPT ![cur] = "started"]
  /\ UNCHANGED <<service, stop, request, nextId, waiting, call, fence, cur, result,
                 published, budgets>>

\* The job was superseded or cancelled since it was picked.
SkipJob ==
  /\ thread = "picked" /\ MutexFree /\ jobs[cur] \in Terminal
  /\ journal' = Begun
  /\ thread' = "idle" /\ cur' = 0
  /\ UNCHANGED <<service, stop, memory, waiting, call, fence, result, child,
                 published, budgets>>

\* next_job() returns an error: the loop sets `stop` and ends.
ThreadDies ==
  /\ stop' = TRUE
  /\ thread' = "dead" /\ cur' = 0 /\ result' = "none"

\* update() does not find the job: it was removed from the history.
LoseJob ==
  /\ thread = "picked" /\ MutexFree /\ jobs[cur] = "absent"
  /\ ThreadDies
  /\ UNCHANGED <<service, memory, waiting, call, journal, fence, child, published,
                 budgets>>

\* persist() fails in one of the two updates, before or after its rename.
UpdateFails ==
  /\ faults < MaxFaults /\ MutexFree
  /\ \/ /\ thread = "picked" /\ jobs[cur] # "absent"
        /\ journal' \in {journal, Begun}
     \/ /\ thread = "closing"
        /\ journal' \in {journal, Finished}
  /\ ThreadDies
  /\ faults' = faults + 1
  /\ UNCHANGED <<service, memory, waiting, call, fence, child, published, crashes>>

\* A new progress stage is recorded: persist() writes the table in memory.
ReportProgress ==
  /\ thread = "executing" /\ MutexFree
  /\ journal' = jobs
  /\ UNCHANGED <<service, stop, memory, waiting, call, fence, threadVars, child,
                 published, budgets>>

\* try_wait() sees the exit; a success whose output cannot be read is an error.
Reap ==
  /\ thread = "executing" /\ child[cur] \in {"ok", "err"}
  /\ result' \in IF child[cur] = "ok" THEN {"ok", "err"} ELSE {"err"}
  /\ thread' = "closing"
  /\ UNCHANGED <<service, stop, memory, waiting, call, journal, fence, cur, child,
                 published, budgets>>

\* execute() bails out: the job is cancelling, the service is stopping, the
\* deadline has passed, or an I/O error occurred.  ChildGuard kills the process
\* group and waits for it; an exit that was not polled yet is lost.
Abort ==
  /\ thread = "executing"
  /\ child' = [child EXCEPT ![cur] = IF @ \in Alive THEN "err" ELSE @]
  /\ result' = "err"
  /\ thread' = "closing"
  /\ UNCHANGED <<service, stop, memory, waiting, call, journal, fence, cur,
                 published, budgets>>

FinishJob ==
  /\ thread = "closing" /\ MutexFree
  /\ jobs' = Finished /\ journal' = Finished
  /\ thread' = "idle" /\ cur' = 0 /\ result' = "none"
  /\ UNCHANGED <<service, stop, request, nextId, waiting, call, fence, child,
                 published, budgets>>

\* The loop reads `stop`.
ThreadExits ==
  /\ thread = "idle" /\ stop
  /\ thread' = "dead"
  /\ UNCHANGED <<service, stop, memory, waiting, call, journal, fence, cur, result,
                 child, published, budgets>>

-----------------------------------------------------------------------------
(* The `atlas index --job-id` processes *)

ChildUnchanged ==
  UNCHANGED <<service, stop, memory, waiting, call, journal, fence, threadVars, budgets>>

\* index.lock is tried once.
LockIndexShared(i) ==                                              \* mutant
  /\ child[i] = "started"
  /\ child' = [child EXCEPT ![i] = "locked"]
  /\ UNCHANGED published
  /\ ChildUnchanged
LockIndex(i) ==
  /\ child[i] = "started"
  /\ child' = [child EXCEPT ![i] =
       IF \E j \in JobIds : child[j] \in Indexing THEN "err" ELSE "locked"]
  /\ UNCHANGED published
  /\ ChildUnchanged

\* publication_guard(): the fence must name this job, and the lock is kept.
EnterFenceUnread(i) ==                                             \* mutant
  /\ child[i] = "locked" /\ FenceFree
  /\ child' = [child EXCEPT ![i] = "guarded"]
  /\ UNCHANGED published
  /\ ChildUnchanged
EnterFence(i) ==
  /\ child[i] = "locked" /\ FenceFree
  /\ child' = [child EXCEPT ![i] =
       IF fence[request[i].profile] = i THEN "guarded" ELSE "err"]
  /\ UNCHANGED published
  /\ ChildUnchanged

\* store.publish() commits.
Publish(i) ==
  /\ child[i] = "guarded"
  /\ child' = [child EXCEPT ![i] = "committed"]
  /\ published' = [published EXCEPT ![request[i].profile] = i]
  /\ ChildUnchanged

ChildSucceeds(i) ==
  /\ child[i] = "committed"
  /\ child' = [child EXCEPT ![i] = "ok"]
  /\ UNCHANGED published
  /\ ChildUnchanged

\* The analysis or the publication fails, the publication lock stays busy for
\* 100 ms, or the process is killed: its locks are released.
ChildFails(i) ==
  /\ child[i] \in Alive
  /\ child' = [child EXCEPT ![i] = "err"]
  /\ UNCHANGED published
  /\ ChildUnchanged

-----------------------------------------------------------------------------
CallStep == WriteFence \/ PersistCall
ThreadStep ==
  \/ Pick \/ BeginJob \/ SkipJob \/ LoseJob \/ Reap \/ Abort \/ FinishJob \/ ThreadExits
ServiceStep == Start \/ Shutdown \/ ServiceExit \/ Crash
ClientStep ==
  \/ \E r \in Requests : SubmitArrives(r)
  \/ SubmitAdmits \/ SubmitReturns
  \/ \E i \in JobIds : Cancel(i)
FaultStep == StartFails \/ CallFails \/ UpdateFails
ChildStep ==
  \E i \in JobIds : LockIndex(i) \/ EnterFence(i) \/ Publish(i) \/ ChildSucceeds(i)
                    \/ ChildFails(i)

Next ==
  \/ ServiceStep \/ ClientStep \/ CallStep \/ ThreadStep \/ ReportProgress \/ ChildStep
  \/ FaultStep

Spec == Init /\ [][Next]_vars

\* The thread is scheduled and execute() has a deadline, so Abort is always
\* possible; a call that holds the locks goes on.  Clients, crashes and the
\* analysis itself promise nothing.
FairSpec == Spec /\ WF_vars(ThreadStep) /\ WF_vars(CallStep)

-----------------------------------------------------------------------------
(* Properties *)

SameProfile(i, j) ==
  request[i] # NoRequest /\ request[j] # NoRequest /\ request[i].profile = request[j].profile

\* The publication fence: a process that is inside the catalog commit is the
\* one the fence file of its profile names, whatever crashed or was restarted
\* since it took the guard (publication_guard, write_fence).
FenceAdmitsOwner ==
  \A i \in JobIds : child[i] \in Publishing => fence[request[i].profile] = i

\* A job whose cancellation or supersession was acknowledged never advances the
\* head of its profile afterwards, nor does one that a newer accepted request
\* replaced, not even from a process that outlived a crash of the service.
SupersededNeverPublishes ==
  [][\A i \in JobIds : child[i] = "guarded" /\ child'[i] = "committed" =>
       /\ jobs[i] # "cancelling" /\ journal[i] # "cancelling"
       /\ \A j \in Retained(jobs) \cup Retained(journal) : SameProfile(i, j) => j <= i]_vars

\* Publications of one profile happen in the order of submission, each job at
\* most once: a stale generation never replaces a newer head.
PublicationsAdvance ==
  [][\A p \in Profiles : published'[p] # published[p] => published'[p] > published[p]]_vars

\* "One analysis runs at a time", also while a child of a crashed service is
\* alive: at most one process holds the index lease or the fence.
OneAnalysis ==
  \A i, j \in JobIds : child[i] \in Indexing /\ child[j] \in Indexing => i = j

\* A newer request for a profile supersedes the older one: at most one job of a
\* profile is queued or running, in memory and in the journal.
OneActive(table) ==
  \A i, j \in With(table, {"queued", "running"}) : SameProfile(i, j) => i = j
OneActivePerProfile == \A table \in {jobs, journal} : OneActive(table)

\* The queue and the history keep their limits, in memory and in the journal
\* (start() refuses a longer journal), and a request the queue admits never finds
\* a history without a terminal job to remove.
HistoryBounded ==
  /\ Cardinality(With(jobs, {"queued"})) <= MaxQueued
  /\ Cardinality(Retained(jobs)) <= MaxHistory
  /\ Cardinality(Retained(journal)) <= MaxHistory
  /\ service = "up" /\ ~stop =>
       \A p \in Profiles :
         Cardinality(QueuedElsewhere(p)) < MaxQueued => HasRoom(Superseded(p))

\* A job marked running or cancelling is the one the thread works on, so its
\* outcome will be recorded, unless the thread ended.
Supervised(table) ==
  \A i \in With(table, {"running", "cancelling"}) :
    cur = i /\ thread \in {"executing", "closing"}
RunningIsSupervised == service = "up" /\ thread # "dead" => Supervised(jobs)

\* A terminal status is never revised, not by a late result, a cancellation or
\* a restart from the journal: the job keeps it until it leaves the history.
TerminalIsFinal ==
  [][\A i \in With(jobs, Terminal) : jobs'[i] \in {jobs[i], "absent"}]_vars

\* No queued job of the same or a better priority that was submitted earlier is
\* still waiting when a job starts, although it was picked before it started.
NoOvertaking ==
  [][\A i \in JobIds : jobs[i] = "queued" /\ jobs'[i] = "running" =>
       \A j \in With(jobs, {"queued"}) :
         j < i => request[j].priority > request[i].priority]_vars

\* Every accepted job ends, as long as the service is not stopped.
AcceptedFinishes ==
  \A i \in JobIds :
    (service = "up" /\ jobs[i] \in Live) ~> (service # "up" \/ jobs[i] \notin Live)

\* The scheduler implements FencedPublication: the fence file is the eligible
\* generation, and an id is drawn when a submit is admitted and installed when
\* its fence is written.
Fenced == INSTANCE FencedPublication WITH
  issued <- nextId - 1,
  drawn <- call.stage = "fence" /\ call.generation # NoGeneration,
  eligible <- fence

FencedPublicationSpec == Fenced!Spec

-----------------------------------------------------------------------------
(* The inductive invariant behind the fence properties *)

\* Nothing is recorded of an id that was not drawn yet, and every recorded job
\* has its request.
IdsAreFresh ==
  /\ \A i \in JobIds : i >= nextId =>
       /\ jobs[i] = "absent" /\ journal[i] = "absent" /\ child[i] = "none"
       /\ \A p \in Profiles : fence[p] # i /\ published[p] # i
  /\ \A i \in JobIds : i < nextId => request[i] \in Requests
  /\ call # Idle => \A i \in JobIds : i >= nextId => call.jobs[i] = "absent"

\* The id of a submit whose fence is not written yet was used nowhere.
DrawnIsFresh ==
  call.stage = "fence" /\ call.generation # NoGeneration =>
    LET g == call.generation IN
    /\ g = nextId - 1
    /\ request[g].profile = call.profile
    /\ jobs[g] = "absent" /\ journal[g] = "absent" /\ child[g] = "none"
    /\ \A p \in Profiles : fence[p] < g /\ published[p] < g

\* publication.lock has one holder.
LockIsExclusive ==
  call # Idle => \A i \in JobIds : child[i] \notin Publishing

\* The thread's job exists; once begun it stays running or cancelling, also in
\* the table of a call, until the thread records its outcome.
ThreadHasJob ==
  /\ thread \in {"picked", "executing", "closing"} => cur \in JobIds
  /\ thread \in {"executing", "closing"} =>
       /\ jobs[cur] \in {"running", "cancelling"}
       /\ call # Idle => call.jobs[cur] \in {"running", "cancelling"}

\* A queued job has no process, so no job is started twice.
QueuedHasNoProcess ==
  \A i \in JobIds :
    jobs[i] = "queued" \/ (call # Idle /\ call.jobs[i] = "queued") => child[i] = "none"

\* What was published came from a process that is past its publication, and is
\* not newer than the fence.
PublishedIsPast ==
  \A p \in Profiles :
    /\ published[p] # NoGeneration => child[published[p]] \in {"committed", "ok", "err"}
    /\ fence[p] = NoGeneration \/ published[p] <= fence[p]

\* A recorded job is not newer than the fence of its profile, and a job that is
\* cancelling is not the one the fence names.  A table a call is about to
\* install satisfies this once its fence is written.
Fits(table, fences) ==
  \A i \in Retained(table) :
    LET g == fences[request[i].profile] IN
    /\ g = NoGeneration \/ i <= g
    /\ table[i] = "cancelling" => g # i

FenceFits ==
  /\ Fits(jobs, fence)
  /\ Fits(journal, fence)
  /\ call.stage = "fence" =>
       Fits(call.jobs, [fence EXCEPT ![call.profile] = call.generation])
  /\ call.stage = "journal" => Fits(call.jobs, fence)

FenceInvariant ==
  /\ TypeOK
  /\ IdsAreFresh
  /\ DrawnIsFresh
  /\ LockIsExclusive
  /\ ThreadHasJob
  /\ QueuedHasNoProcess
  /\ FenceAdmitsOwner
  /\ PublishedIsPast
  /\ FenceFits

-----------------------------------------------------------------------------
(* The inductive invariant behind the properties of the queue *)

\* A call belongs to a running service, and a thread that ended has set `stop`
\* or has seen it.
CallsAreServed ==
  /\ call # Idle \/ waiting # NoRequest => service = "up"
  /\ thread = "dead" => stop

\* The table of a call differs from the one in memory by withdrawals, removals
\* of terminal jobs and at most one new job, although the thread goes on.
CallFollows ==
  call # Idle =>
    /\ call.generation # NoGeneration =>
         call.generation = nextId - 1 /\ jobs[call.generation] = "absent"
    /\ \A i \in JobIds :
         /\ jobs[i] \in Terminal => call.jobs[i] \in {jobs[i], "absent"}
         /\ call.jobs[i] = "running" => jobs[i] = "running"
         /\ call.jobs[i] = "cancelling" => jobs[i] \in {"running", "cancelling"}
         /\ call.jobs[i] = "queued" => jobs[i] = "queued" \/ i = call.generation

\* The journal may be ahead of memory after a failed write, but it never
\* contradicts an outcome that memory has.
JournalKeepsOutcomes ==
  \A i \in With(jobs, Terminal) : journal[i] \in {jobs[i], "absent"}

\* Of the older jobs none that is still queued has the priority of the job the
\* thread picked, and a submit in progress is younger.  A younger job of a better
\* priority may have been queued since.
PickIsFirst ==
  thread = "picked" =>
    /\ cur < nextId
    /\ call # Idle /\ call.generation # NoGeneration => cur < call.generation
    /\ jobs[cur] = "queued" =>
         \A j \in With(jobs, {"queued"}) :
           j < cur => request[j].priority > request[cur].priority

WithinLimits(table) ==
  /\ Cardinality(With(table, {"queued"})) <= MaxQueued
  /\ Cardinality(Retained(table)) <= MaxHistory

\* What holds of the jobs in the tables, and of their numbers.
QueueOrder ==
  /\ CallsAreServed
  /\ CallFollows
  /\ JournalKeepsOutcomes
  /\ PickIsFirst
  /\ RunningIsSupervised
  /\ OneActivePerProfile
  /\ call # Idle => OneActive(call.jobs)

QueueLimits ==
  /\ WithinLimits(jobs)
  /\ Cardinality(Retained(journal)) <= MaxHistory
  /\ call # Idle => WithinLimits(call.jobs)

QueueInvariant == FenceInvariant /\ QueueOrder /\ QueueLimits
=============================================================================
