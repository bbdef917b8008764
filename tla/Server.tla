------------------------------- MODULE Server -------------------------------
(***************************************************************************)
(* Admission and supervision of requests in the local HTTP server.         *)
(* Source: src/crates/server/src (lib.rs, advanced.rs, state_machine.rs,   *)
(* maintainability.rs).                                                    *)
(*                                                                         *)
(* A request that passes the boundary checks takes a permit and runs its   *)
(* work on a blocking thread.  The handler that waits for it may time out  *)
(* or be dropped with its connection; the thread goes on, keeps the permit *)
(* and learns from its control that nobody wants the answer.  Every        *)
(* handler is the sequence of steps its closure takes; a step names the    *)
(* control that stops it, what a stop makes of it and how else it may fail.*)
(* The event streams of jobs are in JobEvents.                             *)
(***************************************************************************)
EXTENDS Naturals, FiniteSets, Sequences

CONSTANTS Requests,     \* requests under way or to come
          MaxQueries,   \* max_concurrent_queries of the configuration, 1..64
          Handlers,     \* the handlers clients call: route -> steps (RequestHandlers)
          Defects       \* what may be wrong with a request before its work

VARIABLES request,   \* what each client sent: the handler and the defect
          handler,   \* "idle", "waiting", "answered" or "gone" with its client
          answer,    \* what the client was told
          task,      \* the blocking task of the request
          live,      \* the controls of the request that are not stopped
          permits,   \* free permits of the query semaphore
          pinned,    \* the snapshot is pinned under the name "state-reviews"
          reviewed,  \* a state review of the snapshot is stored
          released   \* a client gave the pin of the reviews back

vars == <<request, handler, answer, task, live, permits, pinned, reviewed, released>>

-----------------------------------------------------------------------------
(* Handlers. *)

Routes == DOMAIN Handlers
\* The controls a handler makes and cancels when it is dropped.
Guarded(route) ==
  {Handlers[route][i].control : i \in DOMAIN Handlers[route]} \cap {"query", "analysis"}

-----------------------------------------------------------------------------
(* What a client is told. *)

\* The status of each error code, of the query engine and of the handlers.
Status ==
  [ not_authorized |-> 403, unknown_snapshot |-> 404, not_found |-> 404,
    context_mismatch |-> 409, unsupported_capability |-> 501,
    budget_exhausted |-> 408, unavailable_shard |-> 503, invalid_query |-> 400,
    query_error |-> 500, query_failed |-> 500, too_large |-> 413,
    missing_evidence |-> 404, unavailable_evidence |-> 503,
    analysis_unavailable |-> 503, overloaded |-> 429 ]

\* The first check a defective request fails: the boundary of the whole
\* server, the token of the API, then the body and the handler's own checks.
Refusal ==
  [ long_uri |-> 414, invalid_host |-> 403, invalid_origin |-> 403,
    cross_site |-> 403, unknown_route |-> 404, no_token |-> 401,
    malformed_body |-> 400, large_body |-> 413, job_request |-> 400,
    no_scheduler |-> 501 ]
Checks == <<"long_uri", "invalid_host", "invalid_origin", "cross_site", "unknown_route",
            "no_token", "large_body", "malformed_body", "job_request", "no_scheduler">>
FirstFailed(defects) ==
  Checks[CHOOSE i \in DOMAIN Checks :
           /\ Checks[i] \in defects
           /\ \A j \in 1..(i - 1) : Checks[j] \notin defects]

NoRequest == [route |-> CHOOSE route \in Routes : TRUE, defects |-> {}]
NoAnswer == [status |-> 0, partial |-> FALSE]
Told(status, partial) == [status |-> status, partial |-> partial]
NoTask == [state |-> "none", pc |-> 0, partial |-> FALSE, cut |-> FALSE,
           result |-> "none", cause |-> "none"]

Alive(r) == task[r].state = "alive"
Now(r) == Handlers[request[r].route][task[r].pc]

TypeOK ==
  /\ request \in [Requests -> [route : Routes, defects : SUBSET Defects]]
  /\ handler \in [Requests -> {"idle", "waiting", "answered", "gone"}]
  /\ \A r \in Requests :
       /\ answer[r].status \in {0, 200} \cup {Status[c] : c \in DOMAIN Status}
                                      \cup {Refusal[d] : d \in DOMAIN Refusal}
       /\ answer[r].partial \in BOOLEAN
       /\ task[r].state \in {"none", "alive", "ended"}
       /\ task[r].pc \in 0..(Len(Handlers[request[r].route]) + 1)
       /\ task[r].result \in {"none", "ok"} \cup DOMAIN Status
       /\ live[r] \subseteq {"query", "analysis", "own"}
  /\ permits \in 0..MaxQueries
  /\ {pinned, reviewed, released} \subseteq BOOLEAN

Init ==
  /\ request = [r \in Requests |-> NoRequest]
  /\ handler = [r \in Requests |-> "idle"]
  /\ answer = [r \in Requests |-> NoAnswer]
  /\ task = [r \in Requests |-> NoTask]
  /\ live = [r \in Requests |-> {}]
  /\ permits = MaxQueries
  /\ pinned = FALSE /\ reviewed = FALSE /\ released = FALSE

-----------------------------------------------------------------------------
(* Handlers. *)

effects == <<pinned, reviewed, released>>

\* A request with a defect is refused before any work.
Refuse(r) ==
  /\ handler[r] = "idle"
  /\ \E defects \in (SUBSET Defects) \ {{}} :
       /\ request' = [request EXCEPT ![r].defects = defects]
       /\ answer' = [answer EXCEPT ![r] = Told(Refusal[FirstFailed(defects)], FALSE)]
  /\ handler' = [handler EXCEPT ![r] = "answered"]
  /\ UNCHANGED <<task, live, permits, effects>>

\* perform: a handler makes its controls, takes a permit without waiting for
\* one and hands permit and operation to a blocking thread.
Admit(r) ==
  /\ handler[r] = "idle"
  /\ \E route \in Routes :
       /\ request' = [request EXCEPT ![r] = [route |-> route, defects |-> {}]]
       /\ IF permits = 0
          THEN /\ handler' = [handler EXCEPT ![r] = "answered"]
               /\ answer' = [answer EXCEPT ![r] = Told(Status["overloaded"], FALSE)]
               /\ UNCHANGED <<task, live, permits>>
          ELSE /\ handler' = [handler EXCEPT ![r] = "waiting"]
               /\ permits' = permits - 1
               /\ task' = [task EXCEPT ![r] = [NoTask EXCEPT !.state = "alive", !.pc = 1]]
               /\ live' = [live EXCEPT ![r] = Guarded(route) \cup {"own"}]
               /\ UNCHANGED answer
  /\ UNCHANGED effects

\* The guard of the handler is dropped with it: its controls are cancelled.
DropGuard(r) == [live EXCEPT ![r] = @ \ {"query", "analysis"}]

\* The handler gets the result of its task, also of one that panicked.
Receive(r) ==
  /\ handler[r] = "waiting" /\ task[r].state = "ended"
  /\ handler' = [handler EXCEPT ![r] = "answered"]
  /\ answer' = [answer EXCEPT ![r] = IF task[r].result = "ok"
                                     THEN Told(200, task[r].partial)
                                     ELSE Told(Status[task[r].result], FALSE)]
  /\ live' = DropGuard(r)
  /\ UNCHANGED <<request, task, permits, effects>>

\* Faulty: the permit stays with the handler.
TimeoutFreesPermit(r) ==
  /\ handler[r] = "waiting" /\ Alive(r)
  /\ live[r] \cap {"query", "analysis"} = {}
  /\ handler' = [handler EXCEPT ![r] = "answered"]
  /\ answer' = [answer EXCEPT ![r] = Told(Status["budget_exhausted"], FALSE)]
  /\ live' = DropGuard(r)
  /\ permits' = permits + 1
  /\ UNCHANGED <<request, task, effects>>

\* Faulty: only a task that could be stopped is given a deadline.
TimeoutIfStoppable(r) ==
  /\ handler[r] = "waiting" /\ Alive(r)
  /\ Now(r).control # "none"
  /\ live[r] \cap {"query", "analysis"} = {}
  /\ handler' = [handler EXCEPT ![r] = "answered"]
  /\ answer' = [answer EXCEPT ![r] = Told(Status["budget_exhausted"], FALSE)]
  /\ live' = DropGuard(r)
  /\ UNCHANGED <<request, task, permits, effects>>

\* The deadline of the handler: later than those of its controls, which were
\* made before it.  A result that is there is taken first.
Timeout(r) ==
  /\ handler[r] = "waiting" /\ Alive(r)
  /\ live[r] \cap {"query", "analysis"} = {}
  /\ handler' = [handler EXCEPT ![r] = "answered"]
  /\ answer' = [answer EXCEPT ![r] = Told(Status["budget_exhausted"], FALSE)]
  /\ live' = DropGuard(r)
  /\ UNCHANGED <<request, task, permits, effects>>

\* The client closes its connection: the handler is dropped where it waits.
Disconnect(r) ==
  /\ handler[r] = "waiting"
  /\ handler' = [handler EXCEPT ![r] = "gone"]
  /\ live' = DropGuard(r)
  /\ UNCHANGED <<request, answer, task, permits, effects>>

\* A control reaches its deadline.
Expire(r) ==
  /\ Alive(r)
  /\ \E c \in live[r] : live' = [live EXCEPT ![r] = @ \ {c}]
  /\ UNCHANGED <<request, handler, answer, task, permits, effects>>

-----------------------------------------------------------------------------
(* Tasks. *)

\* The task ends with a result; its permit goes back with the closure.
End(r, result, cause) ==
  /\ task' = [task EXCEPT ![r].state = "ended", ![r].result = result, ![r].cause = cause]
  /\ permits' = permits + 1
  /\ live' = [live EXCEPT ![r] = {}]

\* The pin of the reviews is a bookmark like any other: a review sets it, a
\* client may set and release it by name, and a bookmark of another name is not
\* this one.
Apply(r) ==
  LET op == Now(r).op
  IN \/ /\ op = "pin" /\ pinned' = TRUE /\ released' = FALSE
        /\ UNCHANGED reviewed
     \/ /\ op = "unpin" /\ pinned' = FALSE /\ released' = TRUE
        /\ UNCHANGED reviewed
     \/ /\ op = "record" /\ reviewed' = TRUE
        /\ UNCHANGED <<pinned, released>>
     \/ /\ op # "record" /\ ~(op = "pin" /\ request[r].route = "review")
        /\ UNCHANGED effects

Stopped(r) == Now(r).control # "none" /\ Now(r).control \notin live[r]

\* The selected input of an analysis carries the cut of the query before it.
Carried(partial, cut) == partial \/ cut

\* The step after this one, or the end: the response is serialised within
\* its budget of 2 MiB.
Advance(r, cut) ==
  LET partial == Carried(task[r].partial, cut)
      next == [task[r] EXCEPT !.pc = @ + 1, !.partial = partial, !.cut = @ \/ cut]
  IN IF task[r].pc < Len(Handlers[request[r].route])
     THEN /\ task' = [task EXCEPT ![r] = next]
          /\ live' = [live EXCEPT ![r] = @ \cup {"own"}]
          /\ UNCHANGED permits
     ELSE /\ \E result \in {"ok", "too_large"} :
               task' = [task EXCEPT ![r] = [next EXCEPT !.state = "ended", !.result = result]]
          /\ permits' = permits + 1
          /\ live' = [live EXCEPT ![r] = {}]

\* A step succeeds; one that needs a whole inference refuses a cut one.
Succeed(r) ==
  /\ Alive(r) /\ ~Stopped(r)
  /\ Now(r).op = "reviewable" => ~task[r].partial
  /\ Apply(r)
  /\ Advance(r, FALSE)
  /\ UNCHANGED <<request, handler, answer>>

\* A step whose control is stopped returns what it has, marked as cut.
Cut(r) ==
  /\ Alive(r) /\ Stopped(r) /\ Now(r).stop # "fails"
  /\ Advance(r, TRUE)
  /\ UNCHANGED <<request, handler, answer, effects>>

\* Faulty: a failed load is not asked whether it was stopped.
LoadErrorAsIs(r, error) == error

\* A step fails on its own account.  A failed load whose control is stopped is
\* taken for a stopped one.
LoadError(r, error) ==
  IF Now(r).control = "analysis" /\ Stopped(r) THEN "budget_exhausted" ELSE error
Fail(r) ==
  /\ Alive(r)
  /\ \E error \in Now(r).errors : End(r, LoadError(r, error), "failure")
  /\ UNCHANGED <<request, handler, answer, effects>>

\* A stopped step that cannot return a part of its result fails.
StopError(r) ==
  IF Now(r).op \in {"flow", "list", "record"} /\ Now(r).errors # {}
  THEN LoadError(r, CHOOSE error \in Now(r).errors : TRUE)
  ELSE "budget_exhausted"

StopStep(r) ==
  /\ Alive(r)
  /\ \/ Stopped(r) /\ Now(r).stop # "cut"
     \/ Now(r).op = "reviewable" /\ task[r].partial
  /\ End(r, StopError(r), "stopped")
  /\ UNCHANGED <<request, handler, answer, effects>>

\* The operation panics: the handler hears of it from the join handle.
Panic(r) ==
  /\ Alive(r)
  /\ End(r, "query_failed", "failure")
  /\ UNCHANGED <<request, handler, answer, effects>>

\* The client sends its next request.
Forget(r) ==
  /\ handler[r] \in {"answered", "gone"} /\ ~Alive(r)
  /\ handler' = [handler EXCEPT ![r] = "idle"]
  /\ request' = [request EXCEPT ![r] = NoRequest]
  /\ answer' = [answer EXCEPT ![r] = NoAnswer]
  /\ task' = [task EXCEPT ![r] = NoTask]
  /\ live' = [live EXCEPT ![r] = {}]
  /\ UNCHANGED <<permits, effects>>

Next ==
  \E r \in Requests :
    \/ Refuse(r) \/ Admit(r) \/ Receive(r) \/ Timeout(r) \/ Disconnect(r) \/ Expire(r)
    \/ Succeed(r) \/ Cut(r) \/ Fail(r) \/ StopStep(r) \/ Panic(r) \/ Forget(r)

Spec == Init /\ [][Next]_vars

-----------------------------------------------------------------------------
(* Properties. *)

Held == {r \in Requests : Alive(r)}

\* The permits that are out are those of running tasks, whatever became of
\* their handlers, and only a request that passed every check runs a task.
\* perform_with_timeout hands the permit to the task, so a burst of requests
\* that time out cannot start more work than max_concurrent_queries.
PermitsAccounted ==
  /\ permits + Cardinality(Held) = MaxQueries
  /\ \A r \in Requests : request[r].defects # {} => task[r].state = "none"

\* A task whose handler is over finds its controls stopped: CancelOnDrop and the
\* guards of the analyses run however the handler ends, by an answer, by its
\* deadline or with the connection of its client.
OrphansAreTold ==
  \A r \in Requests :
    Alive(r) /\ handler[r] # "waiting" => live[r] \cap {"query", "analysis"} = {}

\* An answer that does not say it is partial comes from steps that all ran to
\* their end: a graph cut by its 250 ms stays marked through the analysis that
\* is made of it within a control of its own, and a review is never stored
\* on a cut inference.
NoSilentCut ==
  \A r \in Requests : task[r].cut =>
    /\ answer[r].status = 200 => answer[r].partial
    /\ Alive(r) => Now(r).op \notin {"record", "validate", "pin"}

\* A load that was stopped is never answered as missing or damaged evidence.
StopIsNotCorruption ==
  \A r \in Requests : task[r].cause = "stopped" =>
    Status[task[r].result] = Status["budget_exhausted"]

\* A stored state review keeps its snapshot pinned until a client gives the pin
\* back: whichever request stops, fails or panics between the pin and the
\* record, no review is left that garbage collection may orphan.
ReviewsArePinned == reviewed => pinned \/ released

-----------------------------------------------------------------------------
\* Clocks run, the runtime polls its handlers, and a step whose control is
\* stopped gives up.  Nothing is said of a step that no control stops: a file
\* operation may hang for as long as the file system does.
Fairness ==
  \A r \in Requests :
    /\ WF_vars(Expire(r)) /\ WF_vars(Timeout(r)) /\ WF_vars(Receive(r))
    /\ WF_vars(Cut(r) \/ StopStep(r))
FairSpec == Spec /\ Fairness

\* Every client is answered, unless it leaves first, also when its task hangs.
Waiting(r) == handler[r] = "waiting"
EveryRequestAnswered ==
  \A r \in Requests : Waiting(r) ~> ~Waiting(r)

\* A task made of steps that a control stops ends and gives its permit back,
\* though nobody waits for it any more.
Stoppable(r) ==
  \A i \in DOMAIN Handlers[request[r].route] : Handlers[request[r].route][i].control # "none"
SlotsRecover == \A r \in Requests : Alive(r) /\ Stoppable(r) ~> ~Alive(r)

-----------------------------------------------------------------------------
(* What the safety of the server rests on: how its handlers are made, and  *)
(* the inductive invariant.                                                *)

Results == {"none", "ok"} \cup DOMAIN Status
Steps == [op : STRING, control : {"none", "own", "query", "analysis"},
          stop : {"fails", "cut", "either"}, errors : SUBSET DOMAIN Status]

\* Behind the last check that the inference is whole, or from the start, no step
\* before step i returns a part of its result.
WholeBefore(route, i) ==
  \E j \in 0..(i - 1) :
    /\ j # 0 => Handlers[route][j].op = "reviewable"
    /\ \A k \in 1..(i - 1) : j <= k => Handlers[route][k].stop = "fails"

\* What a handler of the code is careful about: it takes steps, it stores, validates
\* and pins nothing that was cut, a stopped load is one of an analysis, and only a
\* review records, after its pin.
Careful(route) ==
  /\ Handlers[route] \in Seq(Steps) /\ Handlers[route] # <<>>
  /\ \A i \in DOMAIN Handlers[route] :
       LET step == Handlers[route][i] IN
       /\ step.op \in {"record", "validate", "pin"} => WholeBefore(route, i)
       /\ step.op \in {"flow", "list", "record"} => step.control \in {"none", "analysis"}
       /\ step.op = "pin" => step.stop = "fails"
       /\ step.op = "record" =>
            route = "review" /\ \E j \in 1..(i - 1) : Handlers[route][j].op = "pin"

HandlersAssumption ==
  /\ IsFiniteSet(Requests) /\ MaxQueries \in Nat
  /\ Routes # {} /\ \A route \in Routes : Careful(route)
  /\ Defects \subseteq DOMAIN Refusal

Typed ==
  /\ request \in [Requests -> [route : Routes, defects : SUBSET Defects]]
  /\ handler \in [Requests -> {"idle", "waiting", "answered", "gone"}]
  /\ DOMAIN answer = Requests
  /\ task \in [Requests -> [state : {"none", "alive", "ended"}, pc : Nat, partial : BOOLEAN,
                            cut : BOOLEAN, result : Results, cause : {"none", "failure", "stopped"}]]
  /\ live \in [Requests -> SUBSET {"query", "analysis", "own"}]
  /\ permits \in Nat /\ pinned \in BOOLEAN /\ reviewed \in BOOLEAN /\ released \in BOOLEAN

\* A cut task has passed a step that was cut, and no check of the inference since.
CutSince(r) ==
  \E k \in 1..(task[r].pc - 1) :
    /\ Handlers[request[r].route][k].stop # "fails"
    /\ \A j \in (k + 1)..(task[r].pc - 1) : Handlers[request[r].route][j].op # "reviewable"

HasPinned(r) ==
  request[r].route = "review" /\ \E j \in 1..(task[r].pc - 1) : Handlers["review"][j].op = "pin"

Consistent(r) ==
  /\ handler[r] = "idle" => answer[r] = NoAnswer /\ task[r] = NoTask
  /\ request[r].defects # {} => task[r].state = "none"
  /\ Alive(r) =>
       /\ answer[r].status # 200 /\ task[r].cause = "none"
       /\ task[r].pc \in DOMAIN Handlers[request[r].route]
  /\ Alive(r) /\ handler[r] # "waiting" => live[r] \cap {"query", "analysis"} = {}
  /\ task[r].cut => task[r].partial /\ (answer[r].status = 200 => answer[r].partial)
  /\ task[r].cut /\ Alive(r) => CutSince(r)
  /\ task[r].state = "ended" => task[r].result # "none"
  /\ task[r].cause = "stopped" => task[r].result = "budget_exhausted"
  /\ Alive(r) /\ HasPinned(r) => pinned \/ released

ServerInvariant ==
  /\ Typed
  /\ \A r \in Requests : Consistent(r)
  /\ permits + Cardinality(Held) = MaxQueries
  /\ ReviewsArePinned

\* A cut answer says so, a stopped load is not answered as damaged evidence, and a state
\* review is stored with the pin of its snapshot.
AnswersAreHonest ==
  TypeOK /\ ServerInvariant /\ NoSilentCut /\ StopIsNotCorruption /\ ReviewsArePinned

\* Permits are held by the tasks that run, and a task nobody waits for is told.
TasksAreSupervised == TypeOK /\ ServerInvariant /\ PermitsAccounted /\ OrphansAreTold
=============================================================================
